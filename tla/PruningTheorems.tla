-------------------------- MODULE PruningTheorems ---------------------------
(***************************************************************************)
(* The theorems about the pruner and the catch-up of IBD, for every chain, *)
(* every retention plan, and any number of crashes and catch-ups.  The     *)
(* first part is about the functions that compute samples and points.      *)
(***************************************************************************)
EXTENDS PruningWorkProofs, FiniteSetTheorems, WellFoundedInduction

\* The SMT solver is given a minute for each leaf that names no other prover.
USE SMTT(60)

-----------------------------------------------------------------------------
\* Least and greatest elements

\* A set of natural numbers that is not empty has a least element.
LEMMA LeastElement ==
    ASSUME NEW T, T \subseteq Nat, T # {}
    PROVE  \E x \in T : \A y \in T : x <= y
<1>1. IsWellFoundedOn(OpToRel(<, Nat), Nat)
    BY NatLessThanWellFounded, Zenon
<1>2. PICK x \in T : \A y \in T : <<y, x>> \notin OpToRel(<, Nat)
    BY <1>1, WFMin, Zenon
<1>3. \A y \in T : ~(y < x)
    BY <1>2, Zenon DEF OpToRel
<1>4. QED
    BY <1>3

\* Induction, for a set of natural numbers.
LEMMA SetInduction ==
    ASSUME NEW T, 0 \in T, \A n \in Nat : n \in T => n + 1 \in T
    PROVE  \A n \in Nat : n \in T
<1>1. SUFFICES ASSUME Nat \ T # {} PROVE FALSE
    OBVIOUS
<1>2. PICK n \in Nat \ T : \A m \in Nat \ T : n <= m
    BY <1>1, LeastElement, Nat \ T \subseteq Nat, Zenon
<1>3. n # 0 /\ n - 1 \in Nat /\ n - 1 \in T
    BY <1>2
<1>4. QED
    BY <1>2, <1>3

\* Max is the greatest element of a set of natural numbers that is not empty and
\* has an upper bound.
LEMMA MaxIsGreatest ==
    ASSUME NEW S, NEW n \in Nat, S \subseteq 0..n, S # {}
    PROVE  Max(S) \in S /\ \A y \in S : y <= Max(S)
<1> DEFINE D == {n - s : s \in S}
<1>0. D \subseteq Nat /\ D # {}
  <2>1. \A s \in S : n - s \in Nat /\ n - s \in D
      OBVIOUS
  <2>2. QED
      BY <2>1, Zenon
<1>1. PICK z \in D : \A y \in D : z <= y
    BY <1>0, LeastElement, Zenon
<1>2. PICK x \in S : z = n - x
    OBVIOUS
<1>3. \A y \in S : x >= y
    BY <1>1, <1>2
<1>4. Max(S) \in S /\ \A y \in S : Max(S) >= y
    BY <1>3, Zenon DEF Max
<1>5. QED
    BY <1>4

-----------------------------------------------------------------------------
\* The recursive functions satisfy their equations

\* pruning_sample is defined for every chain block.
LEMMA SampleOfEquation ==
    \A b \in Chain :
        SampleOf[b] = IF b = 0 THEN 0
                      ELSE IF IsSample(b - 1, SampleOf[b - 1]) THEN b - 1 ELSE SampleOf[b - 1]
<1> DEFINE Val(g, b) == IF b = 0 THEN 0
                        ELSE IF IsSample(b - 1, g[b - 1]) THEN b - 1 ELSE g[b - 1]
           Good(n) == \E g : g = [b \in 0..n |-> Val(g, b)]
           T == {n \in Nat : Good(n)}
<1>1. Good(0)
  <2> DEFINE g == [b \in 0..0 |-> 0]
  <2>1. g = [b \in 0..0 |-> Val(g, b)]
      OBVIOUS
  <2>2. QED
      BY <2>1, Zenon
<1>2. ASSUME NEW n \in Nat, Good(n) PROVE Good(n + 1)
  <2>1. PICK g : g = [b \in 0..n |-> Val(g, b)]
      BY <1>2
  <2> DEFINE h == [b \in 0..(n + 1) |-> IF b = n + 1 THEN Val(g, n + 1) ELSE g[b]]
  <2>2. ASSUME NEW b \in 0..(n + 1) PROVE h[b] = Val(h, b)
    <3>1. CASE b = 0
        BY <2>1, <3>1
    <3>2. CASE b # 0
      <4>1. h[b - 1] = g[b - 1]
          BY <3>2
      <4>2. h[b] = Val(g, b)
          BY <2>1, <3>2
      <4>3. QED
          BY <4>1, <4>2
    <3>3. QED
        BY <3>1, <3>2
  <2>3. h = [b \in 0..(n + 1) |-> Val(h, b)]
      BY <2>2
  <2>4. QED
      BY <2>3, Zenon
<1> HIDE DEF Good
<1>3. \A n \in Nat : n \in T
  <2>1. 0 \in T /\ \A n \in Nat : n \in T => n + 1 \in T
      BY <1>1, <1>2
  <2>2. QED
      BY <2>1, SetInduction, Zenon
<1>4. Good(Top)
    BY <1>3, ChainAssumption
<1>5. \E g : g = [b \in Chain |-> Val(g, b)]
    BY <1>4, Zenon DEF Good, Chain
<1>6. SampleOf = [b \in Chain |-> Val(SampleOf, b)]
    BY <1>5, Zenon DEF SampleOf
<1>7. QED
    BY <1>6, Zenon

-----------------------------------------------------------------------------
\* Scores and epochs

\* The epoch of a block is its score divided by the finality depth.
LEMMA EpochFacts ==
    \A i \in Chain : /\ Epoch(i) \in Nat /\ Score[i] \in Nat
                     /\ F * Epoch(i) <= Score[i] /\ Score[i] < F * Epoch(i) + F
<1>1. \A a \in Nat : /\ a \div F \in Nat
                     /\ F * (a \div F) <= a /\ a < F * (a \div F) + F
    BY DepthAssumption
<1>2. QED
    BY <1>1, ChainAssumption DEF Epoch

\* Consecutive epochs are a finality depth apart.
LEMMA EpochGap ==
    ASSUME NEW d \in Nat, NEW e \in Nat, d < e
    PROVE  F * d + F <= F * e /\ F * d \in Nat /\ F * e \in Nat
<1>1. F * (e - d - 1) >= 0
    BY DepthAssumption
<1>2. F * (e - d - 1) = F * e - F * d - F
    BY DepthAssumption
<1>3. QED
    BY <1>1, <1>2, DepthAssumption

\* Blue scores grow along the chain.
LEMMA ScoreGrows ==
    ASSUME NEW i \in Chain, NEW j \in Chain, i < j
    PROVE  Score[i] < Score[j]
<1> DEFINE T == {n \in Nat : i + 1 + n \in Chain => Score[i] < Score[i + 1 + n]}
<1>1. 0 \in T
    BY DepthAssumption, ChainAssumption DEF Chain
<1>2. ASSUME NEW n \in Nat, n \in T PROVE n + 1 \in T
    BY <1>2, DepthAssumption, ChainAssumption DEF Chain
<1>3. \A n \in Nat : n \in T
    BY <1>1, <1>2, SetInduction, Zenon
<1>4. j - i - 1 \in Nat /\ i + 1 + (j - i - 1) = j
    BY ChainAssumption DEF Chain
<1>5. QED
    BY <1>3, <1>4

\* And so do epochs.
LEMMA EpochGrows ==
    ASSUME NEW i \in Chain, NEW j \in Chain, i <= j
    PROVE  Epoch(i) <= Epoch(j)
<1>1. Score[i] <= Score[j]
  <2>1. CASE i < j
      BY <2>1, ScoreGrows, EpochFacts
  <2>2. CASE i = j
      BY <2>2, EpochFacts
  <2>3. QED
      BY <2>1, <2>2 DEF Chain
<1>2. SUFFICES ASSUME Epoch(j) < Epoch(i) PROVE FALSE
    BY EpochFacts
<1>3. F * Epoch(j) + F <= F * Epoch(i)
    BY <1>2, EpochGap, EpochFacts
<1>4. QED
    BY <1>1, <1>3, EpochFacts, DepthAssumption

\* pruning_sample is the first block of the epoch of the parent.
LEMMA SampleFacts ==
    ASSUME NEW b \in 1..Top
    PROVE  /\ SampleOf[b] \in 0..(b - 1)
           /\ First(SampleOf[b]) /\ Epoch(SampleOf[b]) = Epoch(b - 1)
<1> DEFINE Fact(n) == /\ SampleOf[n + 1] \in 0..n
                      /\ First(SampleOf[n + 1]) /\ Epoch(SampleOf[n + 1]) = Epoch(n)
           T == {n \in Nat : n + 1 \in Chain => Fact(n)}
<1>1. \A n \in Nat : n + 1 \in Chain =>
          SampleOf[n + 1] = IF IsSample(n, SampleOf[n]) THEN n ELSE SampleOf[n]
  <2>1. TAKE n \in Nat
  <2>2. HAVE n + 1 \in Chain
  <2>3. n + 1 # 0 /\ (n + 1) - 1 = n
      OBVIOUS
  <2>4. SampleOf[n + 1] = IF n + 1 = 0 THEN 0
                          ELSE IF IsSample((n + 1) - 1, SampleOf[(n + 1) - 1])
                               THEN (n + 1) - 1 ELSE SampleOf[(n + 1) - 1]
      BY <2>2, SampleOfEquation, Zenon
  <2>5. QED
      BY <2>3, <2>4, Zenon
<1>2. 0 \in T
  <2>1. SUFFICES ASSUME 1 \in Chain PROVE Fact(0)
      OBVIOUS
  <2>2. SampleOf[0] = 0
    <3>1. 0 \in Chain
        BY ChainAssumption DEF Chain
    <3>2. QED
        BY <3>1, SampleOfEquation, Zenon
  <2>3. SampleOf[1] = 0
      BY <1>1, <2>1, <2>2 DEF IsSample
  <2>4. QED
      BY <2>3 DEF First
<1>3. ASSUME NEW n \in Nat, n \in T PROVE n + 1 \in T
  <2>1. SUFFICES ASSUME n + 2 \in Chain PROVE Fact(n + 1)
      OBVIOUS
  <2>2. n \in Chain /\ n + 1 \in Chain
      BY <2>1, ChainAssumption DEF Chain
  <2> Fact(n)
      BY <1>3, <2>2
  <2>3. SampleOf[n + 2] = IF Epoch(SampleOf[n + 1]) < Epoch(n + 1)
                          THEN n + 1 ELSE SampleOf[n + 1]
      BY <1>1, <2>1 DEF IsSample, Epoch
  <2>4. Epoch(n) <= Epoch(n + 1) /\ Epoch(n) \in Nat /\ Epoch(n + 1) \in Nat
      BY <2>2, EpochGrows, EpochFacts
  <2>5. CASE Epoch(n) < Epoch(n + 1)
      BY <2>2, <2>3, <2>5 DEF First
  <2>6. CASE Epoch(n) = Epoch(n + 1)
      BY <2>2, <2>3, <2>4, <2>6
  <2>7. QED
      BY <2>4, <2>5, <2>6
<1> HIDE DEF Fact
<1>4. \A n \in Nat : n \in T
    BY <1>2, <1>3, SetInduction, Zenon
<1>5. Fact(b - 1)
    BY <1>4 DEF Chain
<1>6. QED
    BY <1>5, b - 1 + 1 = b DEF Fact

\* The first block of an epoch below b is at or below the sample of b.
LEMMA FirstBelow ==
    ASSUME NEW b \in 1..Top, NEW s \in 0..(b - 1), First(s)
    PROVE  s <= SampleOf[b]
<1>1. /\ SampleOf[b] \in 0..(b - 1) /\ Epoch(SampleOf[b]) = Epoch(b - 1)
    BY SampleFacts
<1>2. SUFFICES ASSUME SampleOf[b] < s PROVE FALSE
    BY <1>1
<1>3. /\ s - 1 \in Chain /\ s \in Chain /\ b - 1 \in Chain /\ SampleOf[b] \in Chain
      /\ SampleOf[b] <= s - 1 /\ s <= b - 1 /\ s # 0
    BY <1>1, <1>2, ChainAssumption DEF Chain
<1>4. Epoch(SampleOf[b]) <= Epoch(s - 1) /\ Epoch(s) <= Epoch(b - 1)
    BY <1>3, EpochGrows, Zenon
<1>5. Epoch(s - 1) < Epoch(s)
    BY <1>3 DEF First
<1>6. QED
    BY <1>1, <1>3, <1>4, <1>5, EpochFacts

\* The walk of expected_header_pruning_point is defined for every chain block.
LEMMA SamplesEquation ==
    \A b \in Chain :
        Samples[b] = {SampleOf[b]} \cup IF SampleOf[b] = 0 THEN {} ELSE Samples[SampleOf[b]]
<1> DEFINE Val(g, b) == {SampleOf[b]} \cup IF SampleOf[b] = 0 THEN {} ELSE g[SampleOf[b]]
           Good(n) == \E g : g = [b \in 0..n |-> Val(g, b)]
           T == {n \in Nat : n <= Top => Good(n)}
<1>0. SampleOf[0] = 0
  <2>1. 0 \in Chain
      BY ChainAssumption DEF Chain
  <2>2. QED
      BY <2>1, SampleOfEquation, Zenon
<1>1. Good(0)
  <2> DEFINE g == [b \in 0..0 |-> {0}]
  <2>1. g = [b \in 0..0 |-> Val(g, b)]
      BY <1>0
  <2>2. QED
      BY <2>1, Zenon
<1>2. ASSUME NEW n \in Nat, n + 1 <= Top, Good(n) PROVE Good(n + 1)
  <2>1. PICK g : g = [b \in 0..n |-> Val(g, b)]
      BY <1>2
  <2>2. \A b \in 0..n : g[b] = Val(g, b)
      BY <2>1, Zenon
  <2> DEFINE h == [b \in 0..(n + 1) |-> IF b = n + 1 THEN Val(g, n + 1) ELSE g[b]]
  <2>3. ASSUME NEW b \in 0..(n + 1) PROVE h[b] = Val(h, b)
    <3>1. h[b] = Val(g, b)
        BY <2>2
    <3>2. SampleOf[b] # 0 => SampleOf[b] \in 0..n
        BY <1>0, <1>2, SampleFacts, ChainAssumption
    <3>3. SampleOf[b] # 0 => h[SampleOf[b]] = g[SampleOf[b]]
        BY <3>2
    <3>4. Val(h, b) = Val(g, b)
        BY <3>3, Zenon
    <3>5. QED
        BY <3>1, <3>4, Zenon
  <2>4. h = [b \in 0..(n + 1) |-> Val(h, b)]
      BY <2>3
  <2>5. QED
      BY <2>4, Zenon
<1> HIDE DEF Good
<1>3. \A n \in Nat : n \in T
  <2>1. 0 \in T /\ \A n \in Nat : n \in T => n + 1 \in T
      BY <1>1, <1>2, ChainAssumption
  <2>2. QED
      BY <2>1, SetInduction, Zenon
<1>4. Good(Top)
    BY <1>3, ChainAssumption
<1>5. \E g : g = [b \in Chain |-> Val(g, b)]
    BY <1>4, Zenon DEF Good, Chain
<1>6. Samples = [b \in Chain |-> Val(Samples, b)]
    BY <1>5, Zenon DEF Samples
<1>7. QED
    BY <1>6, Zenon

\* The walk visits all the first blocks of epochs below b, and nothing else.
LEMMA SamplesAreFirsts ==
    ASSUME NEW b \in 1..Top
    PROVE  Samples[b] = Firsts(b - 1)
<1> DEFINE T == {n \in Nat : \A m \in 1..n : m \in Chain => Samples[m] = Firsts(m - 1)}
<1>1. 0 \in T
    OBVIOUS
<1>2. ASSUME NEW n \in Nat, n \in T PROVE n + 1 \in T
  <2>1. SUFFICES ASSUME n + 1 \in Chain PROVE Samples[n + 1] = Firsts(n)
      BY <1>2
  <2> DEFINE s == SampleOf[n + 1]
  <2>2. n + 1 \in 1..Top /\ n + 1 - 1 = n
      BY <2>1, ChainAssumption DEF Chain
  <2>3. s \in 0..n /\ First(s)
      BY <2>2, SampleFacts
  <2>4. \A t \in 0..n : First(t) => t <= s
      BY <2>2, FirstBelow
  <2>5. Samples[n + 1] = {s} \cup IF s = 0 THEN {} ELSE Samples[s]
      BY <2>1, SamplesEquation, Zenon
  <2> HIDE DEF s
  <2>6. s # 0 => Samples[s] = Firsts(s - 1)
    <3>1. s # 0 => s \in 1..n /\ s \in Chain
        BY <2>1, <2>3, ChainAssumption DEF Chain
    <3>2. QED
        BY <1>2, <3>1, Zenon
  <2>7. QED
      BY <2>3, <2>4, <2>5, <2>6 DEF Firsts
<1>3. \A n \in Nat : n \in T
    BY <1>1, <1>2, SetInduction, Zenon
<1>4. Top \in T /\ b \in Chain
    BY <1>3, ChainAssumption DEF Chain
<1>5. QED
    BY <1>4

\* The walk from the first block of an epoch, that block included.
LEMMA FirstsUpTo ==
    ASSUME NEW p \in Chain, First(p)
    PROVE  {p} \cup Samples[p] = Firsts(p)
<1>1. CASE p = 0
  <2>1. Samples[0] = {0}
    <3>1. 0 \in Chain
        BY ChainAssumption DEF Chain
    <3>2. SampleOf[0] = 0
        BY <3>1, SampleOfEquation, Zenon
    <3>3. QED
        BY <3>1, <3>2, SamplesEquation
  <2>2. QED
      BY <1>1, <2>1 DEF Firsts, First
<1>2. CASE p # 0
  <2>1. p \in 1..Top
      BY <1>2, ChainAssumption DEF Chain
  <2>2. Samples[p] = Firsts(p - 1)
      BY <2>1, SamplesAreFirsts
  <2>3. QED
      BY <2>1, <2>2 DEF Firsts
<1>3. QED
    BY <1>1, <1>2

\* expected_header_pruning_point is defined for every chain block.
LEMMA PointOfEquation ==
    \A b \in Chain : PointOf[b] = IF b = 0 THEN 0 ELSE PointFrom(b, PointOf[b - 1])
<1> DEFINE Val(g, b) == IF b = 0 THEN 0 ELSE PointFrom(b, g[b - 1])
           Good(n) == \E g : g = [b \in 0..n |-> Val(g, b)]
           T == {n \in Nat : Good(n)}
<1>1. Good(0)
  <2> DEFINE g == [b \in 0..0 |-> 0]
  <2>1. g = [b \in 0..0 |-> Val(g, b)]
      OBVIOUS
  <2>2. QED
      BY <2>1, Zenon
<1>2. ASSUME NEW n \in Nat, Good(n) PROVE Good(n + 1)
  <2>1. PICK g : g = [b \in 0..n |-> Val(g, b)]
      BY <1>2
  <2>2. \A b \in 0..n : g[b] = Val(g, b)
      BY <2>1, Zenon
  <2> DEFINE h == [b \in 0..(n + 1) |-> IF b = n + 1 THEN Val(g, n + 1) ELSE g[b]]
  <2>3. ASSUME NEW b \in 0..(n + 1) PROVE h[b] = Val(h, b)
    <3>1. h[b] = Val(g, b)
        BY <2>2
    <3>2. b # 0 => h[b - 1] = g[b - 1]
        OBVIOUS
    <3> HIDE DEF h
    <3>3. Val(h, b) = Val(g, b)
        BY <3>2, Zenon
    <3>4. QED
        BY <3>1, <3>3, Zenon
  <2>4. h = [b \in 0..(n + 1) |-> Val(h, b)]
      BY <2>3
  <2>5. QED
      BY <2>4, Zenon
<1> HIDE DEF Good
<1>3. \A n \in Nat : n \in T
  <2>1. 0 \in T /\ \A n \in Nat : n \in T => n + 1 \in T
      BY <1>1, <1>2
  <2>2. QED
      BY <2>1, SetInduction, Zenon
<1>4. Good(Top)
    BY <1>3, ChainAssumption
<1>5. \E g : g = [b \in Chain |-> Val(g, b)]
    BY <1>4, Zenon DEF Good, Chain
<1>6. PointOf = [b \in Chain |-> Val(PointOf, b)]
    BY <1>5, Zenon DEF PointOf
<1>7. QED
    BY <1>6, Zenon

-----------------------------------------------------------------------------
\* Pruning points

\* The first block of an epoch overshoots the start of the epoch by less than the
\* chain may advance in one step.
LEMMA Overshoot ==
    ASSUME NEW s \in Chain, First(s), s # 0
    PROVE  /\ s - 1 \in Chain /\ Score[s - 1] < F * Epoch(s)
           /\ F * Epoch(s) \in Nat
<1>1. s - 1 \in Chain /\ Epoch(s - 1) < Epoch(s)
    BY ChainAssumption DEF Chain, First
<1>2. F * Epoch(s - 1) + F <= F * Epoch(s) /\ F * Epoch(s) \in Nat
    BY <1>1, EpochFacts, EpochGap
<1>3. QED
    BY <1>1, <1>2, EpochFacts, DepthAssumption

\* The clamp: a first block that ceil(P / F) samples are above, when b itself starts
\* an epoch, is P deep below b.
LEMMA ClampIsDeep ==
    ASSUME NEW b \in 1..Top, NEW s \in Firsts(b - 1), s # 0, IsSample(b, b - 1),
           Cardinality({t \in Firsts(b - 1) : t >= s}) = SampleSteps
    PROVE  Score[s] + P <= Score[b]
<1> DEFINE C == {t \in Firsts(b - 1) : t >= s}
           low == Epoch(s)
           high == Epoch(b - 1)
           E == low..high
<1>1. /\ b \in Chain /\ b - 1 \in Chain /\ s \in 1..Top /\ s \in Chain /\ s <= b - 1
      /\ \A t \in C : t \in Chain /\ t >= s /\ t <= b - 1 /\ First(t)
    BY ChainAssumption DEF Chain, Firsts
<1>2. low \in Nat /\ high \in Nat /\ Epoch(b) \in Nat /\ low <= high /\ high < Epoch(b)
  <2>1. low <= high
      BY <1>1, EpochGrows
  <2>2. QED
      BY <1>1, <2>1, EpochFacts DEF IsSample, Epoch
<1>3. [t \in C |-> Epoch(t)] \in Injection(C, E)
  <2>1. ASSUME NEW t \in C PROVE Epoch(t) \in E
    <3>1. low <= Epoch(t) /\ Epoch(t) <= high
        BY <1>1, EpochGrows
    <3>2. QED
        BY <1>1, <1>2, <3>1, EpochFacts
  <2>2. ASSUME NEW t \in C, NEW u \in C, t < u PROVE Epoch(t) # Epoch(u)
    <3>1. u - 1 \in Chain /\ t <= u - 1 /\ Epoch(u - 1) < Epoch(u)
        BY <1>1, <2>2, ChainAssumption DEF Chain, First
    <3>2. Epoch(t) <= Epoch(u - 1)
        BY <1>1, <3>1, EpochGrows
    <3>3. QED
        BY <1>1, <3>1, <3>2, EpochFacts
  <2>3. \A t, u \in C : Epoch(t) = Epoch(u) => t = u
      BY <1>1, <2>2 DEF Chain
  <2> HIDE DEF C, E
  <2>4. QED
      BY <2>1, <2>3 DEF Injection, IsInjective
<1>4. Cardinality(C) <= high - low + 1
  <2>1. IsFiniteSet(E) /\ Cardinality(E) = high - low + 1
      BY <1>2, FS_Interval
  <2>2. Cardinality(C) <= Cardinality(E)
      BY <1>3, <2>1, FS_Injection
  <2>3. QED
      BY <2>1, <2>2
<1>5. SampleSteps <= Epoch(b) - low /\ SampleSteps \in Nat
  <2>1. SampleSteps \in Nat
      BY DepthAssumption DEF SampleSteps
  <2>2. QED
      BY <1>2, <1>4, <2>1
<1>6. F * SampleSteps <= F * Epoch(b) - F * low
  <2>1. \A d, e, k \in Nat : k <= e - d => F * k <= F * e - F * d
    <3>1. SUFFICES ASSUME NEW d \in Nat, NEW e \in Nat, NEW k \in Nat, k <= e - d
                   PROVE  F * k <= F * e - F * d
        OBVIOUS
    <3>2. F * (e - d - k) >= 0
        BY <3>1, DepthAssumption
    <3>3. F * (e - d - k) = F * e - F * d - F * k
        BY DepthAssumption
    <3>4. QED
        BY <3>2, <3>3, DepthAssumption
  <2>2. QED
      BY <1>2, <1>5, <2>1
<1>7. Score[s] <= Score[s - 1] + 1 + F * SampleSteps - P
  <2>1. Score[s] - Score[s - 1] - 1 <= F * SampleSteps - P
      BY <1>1, DepthAssumption, Zenon DEF SampleSteps
  <2>2. s - 1 \in Chain
      BY <1>1, ChainAssumption DEF Chain
  <2> F * SampleSteps \in Int
      BY <1>5, DepthAssumption
  <2>3. QED
      BY <1>1, <2>1, <2>2, EpochFacts, DepthAssumption
<1>8. QED
  <2>1. Score[s - 1] < F * low /\ s - 1 \in Chain /\ F * low \in Nat
      BY <1>1, Overshoot DEF Firsts
  <2>2. F * Epoch(b) <= Score[b] /\ F * Epoch(b) \in Int /\ F * SampleSteps \in Int
      BY <1>1, <1>2, <1>5, EpochFacts, DepthAssumption
  <2>3. QED
      BY <1>1, <1>6, <1>7, <2>1, <2>2, EpochFacts, DepthAssumption

\* One step of expected_header_pruning_point: the new point is the first block of an
\* epoch, not below the previous one, P deep, and the highest such that is.
LEMMA PointFromFacts ==
    ASSUME NEW b \in 1..Top, NEW r \in Firsts(b - 1),
           r = 0 \/ Score[r] + P <= Score[b]
    PROVE  LET p == PointFrom(b, r)
           IN  /\ p \in Firsts(b - 1) /\ r <= p
               /\ p = 0 \/ Score[p] + P <= Score[b]
               /\ \A s \in Firsts(b - 1) : Score[s] + P <= Score[b] => s <= p
<1> DEFINE Clamped(s) == /\ IsSample(b, b - 1)
                         /\ Cardinality({t \in Firsts(b - 1) : t >= s}) = SampleSteps
           S == {s \in Firsts(b - 1) : \/ s = 0 \/ Score[s] + P <= Score[b]
                                       \/ Clamped(s) \/ s = r}
<1>1. PointFrom(b, r) = Max(S)
  <2>1. Samples[b] = Firsts(b - 1)
      BY SamplesAreFirsts
  <2>2. QED
      BY <2>1, Zenon DEF PointFrom
<1>2. S \subseteq 0..(b - 1) /\ r \in S
    BY DEF Firsts
<1>3. Max(S) \in S /\ \A s \in S : s <= Max(S)
  <2>1. b - 1 \in Nat /\ S # {}
      BY <1>2
  <2>2. QED
      BY <1>2, <2>1, MaxIsGreatest, Zenon
<1>4. \A s \in S : s = 0 \/ Score[s] + P <= Score[b]
    BY ClampIsDeep, Zenon
<1>5. \A s \in Firsts(b - 1) : Score[s] + P <= Score[b] => s \in S
    BY Zenon
<1> HIDE DEF S
<1>6. S \subseteq Firsts(b - 1)
    BY DEF S
<1>7. QED
    BY <1>1, <1>2, <1>3, <1>4, <1>5, <1>6, Zenon

\* The pruning point that the header of a chain block commits to.
LEMMA PointFacts ==
    ASSUME NEW b \in 1..Top
    PROVE  /\ PointOf[b] \in Firsts(b - 1) /\ PointOf[b - 1] <= PointOf[b]
           /\ PointOf[b] = 0 \/ Score[PointOf[b]] + P <= Score[b]
           /\ \A s \in Firsts(b - 1) : Score[s] + P <= Score[b] => s <= PointOf[b]
<1> DEFINE Fact(n) == /\ PointOf[n + 1] \in Firsts(n) /\ PointOf[n] <= PointOf[n + 1]
                      /\ PointOf[n + 1] = 0 \/ Score[PointOf[n + 1]] + P <= Score[n + 1]
                      /\ \A s \in Firsts(n) : Score[s] + P <= Score[n + 1] => s <= PointOf[n + 1]
           T == {n \in Nat : n + 1 \in Chain => Fact(n)}
<1>1. ASSUME NEW n \in Nat, n + 1 \in Chain, PointOf[n] \in Firsts(n),
             PointOf[n] = 0 \/ Score[PointOf[n]] + P <= Score[n + 1]
      PROVE  Fact(n)
  <2>1. n + 1 \in 1..Top /\ n + 1 # 0 /\ (n + 1) - 1 = n
      BY <1>1, ChainAssumption DEF Chain
  <2>2. PointOf[n + 1] = IF n + 1 = 0 THEN 0 ELSE PointFrom(n + 1, PointOf[(n + 1) - 1])
      BY <1>1, PointOfEquation, Zenon
  <2>3. PointOf[n + 1] = PointFrom(n + 1, PointOf[n])
      BY <2>1, <2>2, Zenon
  <2>4. QED
      BY <1>1, <2>1, <2>3, PointFromFacts, Zenon
<1>2. 0 \in T
  <2>1. SUFFICES ASSUME 0 + 1 \in Chain PROVE Fact(0)
      OBVIOUS
  <2>2. 0 \in Chain
      BY ChainAssumption DEF Chain
  <2>3. PointOf[0] = 0
      BY <2>2, PointOfEquation, Zenon
  <2>4. PointOf[0] \in Firsts(0)
      BY <2>3 DEF Firsts, First
  <2>5. QED
      BY <1>1, <2>1, <2>3, <2>4, Zenon
<1>3. ASSUME NEW n \in Nat, n \in T PROVE n + 1 \in T
  <2>1. SUFFICES ASSUME n + 1 + 1 \in Chain PROVE Fact(n + 1)
      OBVIOUS
  <2>2. n + 1 \in Chain /\ n \in Chain /\ n + 1 < n + 1 + 1
      BY <2>1, ChainAssumption DEF Chain
  <2>3. Fact(n)
      BY <1>3, <2>2
  <2>4. PointOf[n + 1] \in Firsts(n + 1) /\ PointOf[n + 1] \in Chain
      BY <2>2, <2>3, ChainAssumption DEF Firsts, Chain
  <2>5. Score[n + 1] < Score[n + 1 + 1]
      BY <2>1, <2>2, ScoreGrows
  <2>6. PointOf[n + 1] = 0 \/ Score[PointOf[n + 1]] + P <= Score[n + 1 + 1]
    <3>1. PointOf[n + 1] = 0 \/ Score[PointOf[n + 1]] + P <= Score[n + 1]
        BY <2>3
    <3>2. /\ Score[n + 1] \in Nat /\ Score[n + 1 + 1] \in Nat
          /\ Score[PointOf[n + 1]] \in Nat /\ P \in Nat
        BY <2>1, <2>2, <2>4, EpochFacts, DepthAssumption, Zenon
    <3>3. QED
        BY <2>5, <3>1, <3>2
  <2>7. QED
      BY <1>1, <2>1, <2>4, <2>6
<1> HIDE DEF Fact
<1>4. \A n \in Nat : n \in T
    BY <1>2, <1>3, SetInduction, Zenon
<1>5. Fact(b - 1)
    BY <1>4, ChainAssumption DEF Chain
<1>6. b - 1 + 1 = b
    OBVIOUS
<1>7. QED
    BY <1>5, <1>6, Zenon DEF Fact

\* A pruning point is a chain block that starts an epoch.
LEMMA PointIsFirst ==
    ASSUME NEW b \in Chain
    PROVE  PointOf[b] \in Chain /\ First(PointOf[b]) /\ PointOf[b] <= b
<1>1. CASE b = 0
  <2>1. PointOf[0] = 0
      BY <1>1, PointOfEquation, Zenon
  <2>2. QED
      BY <1>1, <2>1 DEF First
<1>2. CASE b # 0
  <2>1. b \in 1..Top
      BY <1>2, ChainAssumption DEF Chain
  <2>2. PointOf[b] \in Firsts(b - 1)
      BY <2>1, PointFacts
  <2>3. QED
      BY <2>1, <2>2, ChainAssumption DEF Firsts, Chain
<1>3. QED
    BY <1>1, <1>2

\* Pruning points never move down the chain.
LEMMA PointGrows ==
    ASSUME NEW i \in Chain, NEW j \in Chain, i <= j
    PROVE  PointOf[i] <= PointOf[j]
<1> DEFINE T == {n \in Nat : i + n \in Chain => PointOf[i] <= PointOf[i + n]}
<1>1. 0 \in T
    BY PointIsFirst DEF Chain
<1>2. ASSUME NEW n \in Nat, n \in T PROVE n + 1 \in T
  <2>1. SUFFICES ASSUME i + (n + 1) \in Chain PROVE PointOf[i] <= PointOf[i + (n + 1)]
      OBVIOUS
  <2>2. /\ i + n \in Chain /\ i + (n + 1) \in 1..Top /\ (i + (n + 1)) - 1 = i + n
      BY <2>1, ChainAssumption DEF Chain
  <2>3. PointOf[i + n] <= PointOf[i + (n + 1)]
      BY <2>2, PointFacts
  <2>4. PointOf[i] <= PointOf[i + n]
      BY <1>2, <2>2
  <2>5. /\ PointOf[i] \in Int /\ PointOf[i + n] \in Int /\ PointOf[i + (n + 1)] \in Int
    <3>1. \A c \in Chain : PointOf[c] \in Int
        BY PointIsFirst DEF Chain
    <3>2. QED
        BY <2>1, <2>2, <3>1
  <2>6. QED
      BY <2>3, <2>4, <2>5
<1>3. \A n \in Nat : n \in T
    BY <1>1, <1>2, SetInduction, Zenon
<1>4. j - i \in Nat /\ i + (j - i) = j
    BY DEF Chain
<1>5. QED
    BY <1>3, <1>4

\* When a sample becomes deep, the samples below it were deep one block earlier: a
\* mergeset is too small to make two of them deep at once.
LEMMA DeepBefore ==
    ASSUME NEW b \in 1..Top, NEW q \in Chain, NEW m \in Chain, First(q), First(m),
           q # 0, q < m, Score[m] + P <= Score[b]
    PROVE  Score[q] + P <= Score[b - 1]
<1>1. b \in Chain /\ b - 1 \in Chain /\ q \in 1..Top /\ q - 1 \in Chain
    BY ChainAssumption DEF Chain
<1>2. m # 0 /\ m - 1 \in Chain /\ q <= m - 1
    BY ChainAssumption DEF Chain
<1>3. /\ Epoch(q) \in Nat /\ Epoch(m) \in Nat /\ Epoch(m - 1) \in Nat
      /\ F * Epoch(m) <= Score[m]
      /\ Score[q] \in Nat /\ Score[q - 1] \in Nat /\ Score[b] \in Nat /\ Score[b - 1] \in Nat
      /\ Score[m] \in Nat
    BY <1>1, <1>2, EpochFacts, Zenon
<1>4. F * Epoch(q) + F <= F * Epoch(m) /\ F * Epoch(m) \in Nat
  <2>1. Epoch(q) <= Epoch(m - 1)
      BY <1>2, EpochGrows
  <2>2. Epoch(m - 1) < Epoch(m)
      BY <1>2 DEF First
  <2>3. Epoch(q) < Epoch(m)
      BY <1>3, <2>1, <2>2
  <2>4. QED
      BY <1>3, <2>3, EpochGap
<1>5. Score[q - 1] < F * Epoch(q) /\ F * Epoch(q) \in Nat
    BY Overshoot
<1>6. /\ 2 * (Score[q] - Score[q - 1] - 1) < F /\ 2 * (Score[b] - Score[b - 1] - 1) < F
    BY <1>1, DepthAssumption, Zenon
<1> DEFINE x == F * Epoch(q)
           y == F * Epoch(m)
<1>7. x + F <= y /\ y <= Score[m] /\ Score[q - 1] < x /\ x \in Nat /\ y \in Nat
    BY <1>3, <1>4, <1>5
<1> HIDE DEF x, y
<1>8. F \in Nat /\ P \in Nat
    BY DepthAssumption
<1>9. QED
    BY <1>3, <1>6, <1>7, <1>8

\* A chain block moves the pruning point by one sample at most.
LEMMA PointsAreNotSkipped ==
    ASSUME NEW b \in 1..Top, NEW q \in Chain, First(q),
           PointOf[b - 1] < q, q <= PointOf[b]
    PROVE  PointOf[b] = q
<1>1. b - 1 \in Chain
    BY ChainAssumption DEF Chain
<1>2. PointOf[b - 1] \in Chain
    BY <1>1, PointIsFirst
<1>3. PICK m : m = PointOf[b]
    OBVIOUS
<1>4. m \in Firsts(b - 1) /\ (m = 0 \/ Score[m] + P <= Score[b])
    BY <1>3, PointFacts
<1>5. m \in Chain /\ First(m) /\ m <= b - 1
    BY <1>4, ChainAssumption DEF Firsts, Chain
<1>6. SUFFICES ASSUME q < m PROVE FALSE
    BY <1>3, <1>5 DEF Chain
<1>7. q # 0 /\ m # 0
    BY <1>2, <1>5, <1>6 DEF Chain
<1>8. Score[q] + P <= Score[b - 1]
    BY <1>4, <1>5, <1>6, <1>7, DeepBefore
<1>9. b - 1 \in 1..Top /\ q \in Firsts((b - 1) - 1)
    BY <1>5, <1>6, <1>7, ChainAssumption DEF Firsts, Chain
<1>10. q <= PointOf[b - 1]
    BY <1>8, <1>9, PointFacts
<1>11. QED
    BY <1>2, <1>10 DEF Chain

\* Between two points of the path to the syncer's sink, the path has every sample:
\* pruning_points_on_path_to_syncer_sink leaves none out.
LEMMA PathHasEverySample ==
    ASSUME NEW c \in Chain, NEW d \in Chain, NEW q \in Chain, First(q),
           PointOf[c] < q, q <= PointOf[d]
    PROVE  \E b \in Chain : c < b /\ PointOf[b] = q
<1> DEFINE T == {n \in Chain : q <= PointOf[n]}
<1>1. PICK b \in T : \A n \in T : b <= n
  <2>1. T \subseteq Nat /\ T # {}
      BY DEF Chain
  <2>2. QED
      BY <2>1, LeastElement, Zenon
<1>2. b \in Chain /\ q <= PointOf[b]
    OBVIOUS
<1>3. \A i \in Chain : PointOf[i] \in Nat
    BY PointIsFirst DEF Chain
<1>4. c < b
  <2>1. SUFFICES ASSUME b <= c PROVE FALSE
      BY <1>2 DEF Chain
  <2>2. PointOf[b] <= PointOf[c]
      BY <1>2, <2>1, PointGrows
  <2>3. QED
      BY <1>2, <1>3, <2>2 DEF Chain
<1>5. b \in 1..Top /\ b - 1 \in Chain
    BY <1>2, <1>4, ChainAssumption DEF Chain
<1>6. PointOf[b - 1] < q
  <2>1. b - 1 \notin T
      BY <1>1, <1>5
  <2>2. QED
      BY <1>3, <1>5, <2>1 DEF Chain
<1>7. PointOf[b] = q
    BY <1>2, <1>5, <1>6, PointsAreNotSkipped
<1>8. QED
    BY <1>2, <1>4, <1>7

-----------------------------------------------------------------------------
\* The list of pruning points

\* A finite set of natural numbers can be listed in ascending order.
LEMMA AscendingExists ==
    ASSUME NEW n \in Nat, NEW S \in SUBSET (0..n)
    PROVE  /\ IsFiniteSet(S) /\ Cardinality(S) \in Nat
           /\ \E f \in [1..Cardinality(S) -> S] : Increasing(f, Cardinality(S))
<1> DEFINE Listed(k) == \A R \in SUBSET (0..n) :
                            Cardinality(R) = k => \E f \in [1..k -> R] : Increasing(f, k)
           T == {k \in Nat : Listed(k)}
<1>1. \A R \in SUBSET (0..n) : IsFiniteSet(R) /\ Cardinality(R) \in Nat
  <2>1. IsFiniteSet(0..n)
      BY FS_Interval
  <2>2. TAKE R \in SUBSET (0..n)
  <2>3. IsFiniteSet(R)
      BY <2>1, FS_Subset, Zenon
  <2>4. QED
      BY <2>3, FS_CardinalityType
<1>2. Listed(0)
  <2>1. SUFFICES ASSUME NEW R \in SUBSET (0..n) PROVE \E f \in [1..0 -> R] : Increasing(f, 0)
      OBVIOUS
  <2>2. [i \in 1..0 |-> 0] \in [1..0 -> R] /\ Increasing([i \in 1..0 |-> 0], 0)
      BY DEF Increasing
  <2>3. QED
      BY <2>2, Zenon
<1>3. ASSUME NEW k \in Nat, Listed(k) PROVE Listed(k + 1)
  <2>1. SUFFICES ASSUME NEW R \in SUBSET (0..n), Cardinality(R) = k + 1
                 PROVE  \E f \in [1..(k + 1) -> R] : Increasing(f, k + 1)
      OBVIOUS
  <2>2. R # {}
      BY <2>1, FS_EmptySet
  <2>3. PICK m \in R : \A y \in R : y <= m
      BY <2>2, MaxIsGreatest, R \subseteq 0..n, Zenon
  <2>4. Cardinality(R \ {m}) = k
      BY <1>1, <2>1, FS_RemoveElement
  <2>5. PICK f \in [1..k -> R \ {m}] : Increasing(f, k)
      BY <1>3, <2>4
  <2> DEFINE g == [i \in 1..(k + 1) |-> IF i = k + 1 THEN m ELSE f[i]]
  <2>6. g \in [1..(k + 1) -> R]
      OBVIOUS
  <2>7. Increasing(g, k + 1)
    <3>1. SUFFICES ASSUME NEW i \in 1..(k + 1), NEW j \in 1..(k + 1), i < j PROVE g[i] < g[j]
        BY DEF Increasing
    <3>2. i \in 1..k /\ f[i] \in R \ {m}
        BY <3>1
    <3>3. f[i] < m
      <4>1. f[i] <= m /\ f[i] # m /\ f[i] \in 0..n /\ m \in 0..n
          BY <2>3, <3>2, Zenon
      <4>2. QED
          BY <4>1
    <3>4. QED
        BY <2>5, <3>1, <3>2, <3>3 DEF Increasing
  <2>8. QED
      BY <2>6, <2>7, Zenon
<1> HIDE DEF Listed
<1>4. \A k \in Nat : k \in T
  <2>1. 0 \in T /\ \A k \in Nat : k \in T => k + 1 \in T
      BY <1>2, <1>3
  <2>2. QED
      BY <2>1, SetInduction, Zenon
<1>5. Listed(Cardinality(S))
    BY <1>1, <1>4
<1>6. QED
    BY <1>1, <1>5, Zenon DEF Listed

\* Ascending lists all elements of a set, in ascending order.
LEMMA AscendingFacts ==
    ASSUME NEW n \in Nat, NEW S \in SUBSET (0..n)
    PROVE  /\ Ascending(S) \in Seq(S)
           /\ S = {Ascending(S)[i] : i \in 1..Len(Ascending(S))}
           /\ Increasing(Ascending(S), Len(Ascending(S)))
<1> DEFINE k == Cardinality(S)
           f == Ascending(S)
<1>1. IsFiniteSet(S) /\ k \in Nat
    BY AscendingExists, Zenon
<1>2. f \in [1..k -> S] /\ Increasing(f, k)
  <2>1. \E g \in [1..k -> S] : \A i, j \in 1..k : i < j => g[i] < g[j]
      BY AscendingExists, Zenon DEF Increasing
  <2>2. QED
      BY <2>1, Zenon DEF Ascending, Increasing
<1> HIDE DEF f, k
<1>3. f \in Seq(S) /\ Len(f) = k
    BY <1>1, <1>2
<1>4. f \in Surjection(1..k, S)
  <2>1. f \in Injection(1..k, S)
    <3>1. \A i \in 1..k : f[i] \in 0..n
        BY <1>2, Zenon
    <3>2. \A i, j \in 1..k : f[i] = f[j] => i = j
        BY <1>1, <1>2, <3>1 DEF Increasing
    <3>3. QED
        BY <1>2, <3>2 DEF Injection, IsInjective
  <2>2. Cardinality(1..k) = Cardinality(S)
      BY <1>1, FS_Interval DEF k
  <2>3. QED
      BY <1>1, <2>1, <2>2, FS_Injection
<1>5. S = {f[i] : i \in 1..k}
    BY <1>2, <1>4, Zenon DEF Surjection
<1>6. S = {f[i] : i \in 1..Len(f)} /\ Increasing(f, Len(f))
    BY <1>2, <1>3, <1>5, Zenon
<1>7. QED
    BY <1>3, <1>6, Zenon DEF f

\* A list of m + n elements joins one of m and one of n in ascending order.
Joins(all, m, n, old, new) ==
    /\ Increasing(all, m + n)
    /\ \A i \in 1..(m + n) : (\E j \in 1..m : all[i] = old[j]) \/ (\E j \in 1..n : all[i] = new[j])
    /\ \A j \in 1..m : \E i \in 1..(m + n) : all[i] = old[j]
    /\ \A j \in 1..n : \E i \in 1..(m + n) : all[i] = new[j]

\* The concatenation of two increasing lists, the second of them above the first.
LEMMA JoinLists ==
    ASSUME NEW m \in Nat, NEW n \in Nat, NEW last \in Int, NEW old, NEW new, NEW all,
           \A i \in 1..m : all[i] = old[i] /\ old[i] \in Int /\ old[i] <= last,
           \A i \in 1..n : all[m + i] = new[i] /\ new[i] \in Int /\ new[i] > last,
           Increasing(old, m), Increasing(new, n)
    PROVE  Joins(all, m, n, old, new)
<1>1. \A i \in 1..(m + n) : i \in 1..m \/ (i - m \in 1..n /\ m + (i - m) = i /\ i - m \in Int)
    OBVIOUS
<1>2. \A i \in 1..(m + n) : \/ i \in 1..m /\ all[i] = old[i]
                            \/ i - m \in 1..n /\ all[i] = new[i - m]
    BY <1>1, Zenon
<1>3. Increasing(all, m + n)
  <2>1. SUFFICES ASSUME NEW i \in 1..(m + n), NEW j \in 1..(m + n), i < j PROVE all[i] < all[j]
      BY DEF Increasing
  <2>2. CASE i \in 1..m /\ j \in 1..m
      BY <1>2, <2>1, <2>2 DEF Increasing
  <2>3. CASE i \in 1..m /\ j - m \in 1..n
    <3>1. all[i] = old[i] /\ old[i] <= last
        BY <2>3
    <3>2. all[j] = new[j - m] /\ new[j - m] > last
        BY <1>2, <2>3
    <3>3. old[i] \in Int /\ new[j - m] \in Int
        BY <2>3
    <3>4. QED
        BY <3>1, <3>2, <3>3
  <2>4. CASE i - m \in 1..n /\ j - m \in 1..n
    <3>1. i - m < j - m
        BY <2>1
    <3>2. new[i - m] < new[j - m]
        BY <2>4, <3>1, Zenon DEF Increasing
    <3>3. all[i] = new[i - m] /\ all[j] = new[j - m]
        BY <1>2, <2>4
    <3>4. QED
        BY <3>2, <3>3
  <2>5. QED
      BY <1>1, <2>1, <2>2, <2>3, <2>4
<1>4. \A i \in 1..(m + n) : (\E j \in 1..m : all[i] = old[j]) \/ (\E j \in 1..n : all[i] = new[j])
    BY <1>2, Zenon
<1>5. \A j \in 1..m : j \in 1..(m + n)
    OBVIOUS
<1>6. \A j \in 1..n : m + j \in 1..(m + n)
    OBVIOUS
<1>7. QED
    BY <1>3, <1>4, <1>5, <1>6, Zenon DEF Joins

\* Appending an increasing list of higher blocks.
LEMMA AppendList ==
    ASSUME NEW old \in Seq(Chain), old # <<>>, NEW last \in Chain, Increasing(old, Len(old)),
           \A s \in Range(old) : s <= last,
           NEW Q, Q \subseteq Chain, NEW p \in Q, \A s \in Q : last < s /\ s <= p,
           NEW new \in Seq(Q), \A s \in Q : \E i \in 1..Len(new) : new[i] = s,
           Increasing(new, Len(new))
    PROVE  /\ new \in Seq(Chain) /\ new # <<>> /\ new[Len(new)] = p
           /\ old \o new \in Seq(Chain) /\ old \o new # <<>>
           /\ (old \o new)[Len(old \o new)] = p
           /\ Range(old \o new) = Range(old) \cup Q
           /\ Increasing(old \o new, Len(old \o new))
<1> DEFINE m == Len(old)
           n == Len(new)
           all == old \o new
<1>1. Chain \subseteq Int
    BY DEF Chain
<1>2. PICK k \in 1..n : new[k] = p
    BY Zenon
<1>3. m \in Nat \ {0} /\ n \in Nat \ {0} /\ k \in Int /\ n \in 1..n /\ m + n \in Nat
    BY <1>2
<1>4. \A i \in 1..n : new[i] \in Q /\ new[i] <= p /\ new[i] > last
  <2>1. \A i \in 1..n : new[i] \in Q
      OBVIOUS
  <2>2. QED
      BY <1>1, <2>1, Zenon
<1>5. \A i \in 1..m : old[i] \in Chain /\ old[i] <= last
  <2>1. \A i \in 1..m : i \in DOMAIN old /\ old[i] \in Chain
      OBVIOUS
  <2>2. QED
      BY <2>1, Zenon DEF Range
<1>6. new[n] = p
  <2>1. new[n] <= p /\ new[n] \in Int /\ p \in Int
      BY <1>1, <1>3, <1>4, Zenon
  <2>2. k < n => p < new[n]
      BY <1>2, <1>3, Zenon DEF Increasing
  <2>3. k <= n
      BY <1>3
  <2>4. QED
      BY <1>2, <1>3, <2>1, <2>2, <2>3
<1>7. new \in Seq(Chain)
  <2>1. new \in [1..n -> Q]
      OBVIOUS
  <2>2. new \in [1..n -> Chain]
      BY <2>1, Zenon
  <2>3. QED
      BY <1>3, <2>2
<1>8. /\ all \in Seq(Chain) /\ Len(all) = m + n /\ DOMAIN all = 1..(m + n)
      /\ \A i \in 1..m : all[i] = old[i]
      /\ \A i \in 1..n : all[m + i] = new[i]
    BY <1>7
<1> HIDE DEF all
<1>10. DOMAIN old = 1..m /\ DOMAIN new = 1..n
    OBVIOUS
<1> HIDE DEF m, n
<1>11. Joins(all, m, n, old, new)
  <2>1. Increasing(old, m) /\ Increasing(new, n) /\ last \in Int
      BY <1>1, Zenon DEF m, n
  <2>2. /\ \A i \in 1..m : all[i] = old[i] /\ old[i] \in Int /\ old[i] <= last
        /\ \A i \in 1..n : all[m + i] = new[i] /\ new[i] \in Int /\ new[i] > last
      BY <1>1, <1>4, <1>5, <1>8, Zenon
  <2>3. m \in Nat /\ n \in Nat
      BY <1>3
  <2>4. QED
      BY <2>1, <2>2, <2>3, JoinLists, Zenon
<1>12. Range(all) = Range(old) \cup Q
  <2>1. \A s \in Q : \E i \in 1..n : new[i] = s
      BY Zenon DEF n
  <2>2. /\ Range(all) = {all[i] : i \in 1..(m + n)} /\ Range(old) = {old[i] : i \in 1..m}
      BY <1>8, <1>10, Zenon DEF Range
  <2>3. \A x \in Range(all) : x \in Range(old) \cup Q
    <3>1. TAKE x \in Range(all)
    <3>2. PICK i \in 1..(m + n) : x = all[i]
        BY <2>2, Zenon
    <3>3. (\E j \in 1..m : x = old[j]) \/ (\E j \in 1..n : x = new[j])
        BY <1>11, <3>2, Zenon DEF Joins
    <3>4. QED
        BY <1>4, <2>2, <3>3, Zenon
  <2>4. \A x \in Range(old) : x \in Range(all)
      BY <1>11, <2>2 DEF Joins
  <2>5. \A x \in Q : x \in Range(all)
      BY <1>11, <2>1, <2>2, Zenon DEF Joins
  <2>6. QED
      BY <2>3, <2>4, <2>5
<1>13. all # <<>> /\ all[m + n] = p /\ new # <<>>
  <2>1. all[m + n] = p
      BY <1>3, <1>6, <1>8, Zenon
  <2>2. QED
      BY <1>3, <1>8, <2>1 DEF n
<1>14. QED
    BY <1>6, <1>7, <1>8, <1>11, <1>12, <1>13, Zenon DEF all, n, Joins

\* The first blocks above one pruning point, up to another.
Between(last, p) == Ascending({s \in Firsts(p) : s > last})

\* Appending the samples above the last pruning point, up to a new one, makes the
\* list of the first blocks up to that one.
LEMMA AppendPoints ==
    ASSUME NEW old, NEW last \in Chain, ListedTo(old, last),
           NEW p \in Chain, First(p), last < p
    PROVE  LET new == Between(last, p)
           IN  new # <<>> /\ new[Len(new)] = p /\ ListedTo(old \o new, p)
<1> DEFINE Q == {s \in Firsts(p) : s > last}
           new == Ascending(Q)
<1>1. Q \subseteq Chain /\ p \in Q /\ \A s \in Q : last < s /\ s <= p
    BY ChainAssumption DEF Firsts, Chain
<1>2. Firsts(last) \cup Q = Firsts(p)
    BY ChainAssumption DEF Firsts, Chain
<1> HIDE DEF Q
<1>3. /\ new \in Seq(Q) /\ Increasing(new, Len(new))
      /\ \A s \in Q : \E i \in 1..Len(new) : new[i] = s
  <2>1. Q \in SUBSET (0..Top)
      BY <1>1, Zenon DEF Chain
  <2>2. new \in Seq(Q) /\ Increasing(new, Len(new)) /\ Q = {new[i] : i \in 1..Len(new)}
      BY <2>1, AscendingFacts, ChainAssumption, Zenon
  <2>3. QED
      BY <2>2, Zenon
<1> HIDE DEF new
<1>4. QED
  <2>1. /\ old \in Seq(Chain) /\ old # <<>> /\ Range(old) = Firsts(last)
        /\ Increasing(old, Len(old)) /\ \A s \in Range(old) : s <= last
      BY DEF ListedTo, Firsts
  <2>2. /\ new \in Seq(Chain) /\ new # <<>> /\ new[Len(new)] = p
        /\ old \o new \in Seq(Chain) /\ old \o new # <<>>
        /\ (old \o new)[Len(old \o new)] = p
        /\ Range(old \o new) = Range(old) \cup Q
        /\ Increasing(old \o new, Len(old \o new))
      BY <1>1, <1>3, <2>1, AppendList, Zenon
  <2>3. QED
      BY <1>2, <2>1, <2>2, Zenon DEF ListedTo, Between, new, Q

-----------------------------------------------------------------------------
\* Moving the pruning point

\* advance_retention_period_root never moves the root down, nor above the new pruning
\* point, and moves it to a pruning point.
LEMMA NextRootFacts ==
    ASSUME First(root), root \in Chain, NEW p \in Chain, First(p), root <= p
    PROVE  /\ NextRoot(p) \in Chain /\ root <= NextRoot(p) /\ NextRoot(p) <= p
           /\ First(NextRoot(p))
<1>1. CASE plan.retention = 0
    BY <1>1 DEF NextRoot, Chain
<1>2. CASE plan.retention # 0
  <2> DEFINE S == {s \in {s \in {p} \cup Samples[p] : s >= root} :
                      s = root \/ Time[s] <= Time[sink] - plan.retention}
  <2>1. NextRoot(p) = Max(S)
      BY <1>2, Zenon DEF NextRoot
  <2>2. {p} \cup Samples[p] = Firsts(p)
      BY FirstsUpTo
  <2>3. root \in S /\ S \subseteq 0..p /\ S \subseteq Firsts(p) /\ \A s \in S : s >= root
      BY <2>2 DEF Firsts, Chain
  <2> HIDE DEF S
  <2>4. Max(S) \in S
    <3>1. p \in Nat /\ S # {}
        BY <2>3 DEF Chain
    <3>2. QED
        BY <2>3, <3>1, MaxIsGreatest, Zenon
  <2>5. NextRoot(p) \in S
      BY <2>1, <2>4, Zenon
  <2>6. NextRoot(p) \in Firsts(p) /\ NextRoot(p) >= root
      BY <2>3, <2>5, Zenon
  <2>7. QED
      BY <2>6, ChainAssumption DEF Firsts, Chain
<1>3. QED
    BY <1>1, <1>2

\* advance_pruning_point_if_possible finds nothing to do, or advances.
LEMMA AdvanceFacts ==
    ASSUME TypeOK, ListInv, AdvancePoint
    PROVE  (Return /\ UNCHANGED <<points, root>>) \/ Advanced(PointOf[seen])
<1> DEFINE p == PointOf[seen]
           new == NextPoints(seen)
<1>1. CASE new = <<>>
    BY <1>1 DEF AdvancePoint
<1>2. CASE new # <<>>
  <2>1. pp \in Chain /\ seen \in Chain /\ root \in Chain /\ root <= pp
      BY TypeFacts
  <2>2. p \in Chain /\ First(p) /\ p <= seen
      BY <2>1, PointIsFirst
  <2>3. pp < p /\ new = Ascending({s \in {p} \cup Samples[p] : s > pp})
    <3>1. ~(p <= pp) /\ new = Ascending({s \in {p} \cup Samples[p] : s > pp})
        BY <1>2, Zenon DEF NextPoints
    <3>2. QED
        BY <2>1, <2>2, <3>1 DEF Chain
  <2>4. new = Between(pp, p)
      BY <2>2, <2>3, FirstsUpTo DEF Between
  <2>5. new[Len(new)] = p /\ ListedTo(points \o new, p)
    <3>1. ListedTo(points, pp) /\ pp \in Chain /\ p \in Chain /\ First(p) /\ pp < p
        BY <2>1, <2>2, <2>3 DEF ListInv
    <3> HIDE DEF p
    <3>2. LET listed == Between(pp, p)
          IN  listed # <<>> /\ listed[Len(listed)] = p /\ ListedTo(points \o listed, p)
        BY <3>1, AppendPoints, Zenon
    <3> HIDE DEF new
    <3>3. QED
        BY <2>4, <3>2
  <2>6. /\ points' = points \o new /\ root' = NextRoot(p)
        /\ mode' = "advance" /\ target' = p /\ targetRoot' = NextRoot(p)
        /\ cursor' = pp /\ phase' = "confirm"
        /\ UNCHANGED <<seen, oldCheckpoint, keep, keepHeaders>>
      BY <1>2, <2>5, Zenon DEF AdvancePoint
  <2>7. /\ NextRoot(p) \in Chain /\ root <= NextRoot(p) /\ NextRoot(p) <= p /\ First(NextRoot(p))
    <3>1. root <= p
        BY <2>1, <2>2, <2>3 DEF Chain
    <3>2. QED
        BY <2>1, <2>2, <3>1, NextRootFacts DEF ListInv
  <2>8. p < seen /\ Score[p] + P <= Score[seen]
    <3>1. p # 0 /\ seen \in 1..Top
        BY <2>1, <2>2, <2>3 DEF Chain
    <3>2. p \in Firsts(seen - 1) /\ (p = 0 \/ Score[p] + P <= Score[seen])
        BY <3>1, PointFacts
    <3>3. QED
        BY <3>1, <3>2 DEF Firsts
  <2>9. pp' = p
      BY <2>5, <2>6, Zenon DEF pp, ListedTo
  <2> HIDE DEF new, p
  <2>10. Moved(p)
      BY <2>2, <2>3, <2>5, <2>6, <2>7, <2>9, Zenon DEF Moved
  <2>11. QED
      BY <2>6, <2>8, <2>10, Zenon DEF Advanced, p
<1>3. QED
    BY <1>1, <1>2

\* intrusive_pruning_point_update writes the samples up to the syncer's pruning point:
\* the headers on the path to the syncer's sink commit to every one of them.
LEMMA IntrusiveFacts ==
    ASSUME TypeOK, ListInv, IntrusiveUpdate
    PROVE  Moved(syncerPoint)
<1> DEFINE p == syncerPoint
           new == {q \in PointsOnPath : q > pp /\ q <= p}
<1>1. /\ Top \in Nat /\ Chain = 0..Top /\ pp \in Chain /\ root \in Chain /\ root <= pp
      /\ p \in Chain
    BY TypeFacts
<1>2. pp < p /\ pp \in PointsOnPath /\ p \in PointsOnPath
    BY <1>1 DEF IntrusiveUpdate, IsSafeToImport
<1>3. PICK c \in (pp + 1)..Top : PointOf[c] = pp
    BY <1>2, Zenon DEF PointsOnPath
<1>4. PICK d \in (pp + 1)..Top : PointOf[d] = p
    BY <1>2, Zenon DEF PointsOnPath
<1>5. c \in Chain /\ d \in Chain /\ \A b \in (pp + 1)..Top : b \in Chain
    BY <1>1
<1>6. First(p)
    BY <1>4, <1>5, PointIsFirst, Zenon
<1>7. new = {s \in Firsts(p) : s > pp}
  <2>1. ASSUME NEW q \in new PROVE q \in Firsts(p) /\ q > pp
    <3>1. PICK b \in (pp + 1)..Top : PointOf[b] = q
        BY <2>1, Zenon DEF PointsOnPath
    <3>2. q \in Chain /\ First(q)
        BY <1>5, <3>1, PointIsFirst, Zenon
    <3>3. QED
        BY <1>1, <2>1, <3>2 DEF Firsts
  <2>2. ASSUME NEW q \in Firsts(p), q > pp PROVE q \in new
    <3>1. q \in Chain /\ First(q) /\ q <= p
        BY <1>1, <2>2 DEF Firsts
    <3>2. PointOf[c] < q /\ q <= PointOf[d]
        BY <1>1, <1>3, <1>4, <2>2, <3>1
    <3>3. PICK b \in Chain : c < b /\ PointOf[b] = q
        BY <1>5, <3>1, <3>2, PathHasEverySample, Zenon
    <3>4. b \in (pp + 1)..Top
        BY <1>1, <1>3, <1>5, <3>3
    <3>5. q \in PointsOnPath
        BY <3>3, <3>4, Zenon DEF PointsOnPath
    <3>6. QED
        BY <2>2, <3>1, <3>5, Zenon
  <2>3. QED
      BY <2>1, <2>2, Zenon
<1>8. points' = points \o Between(pp, p) /\ root' = NextRoot(p)
    BY <1>7, Zenon DEF IntrusiveUpdate, Between
<1>9. ListedTo(points \o Between(pp, p), p)
    BY <1>1, <1>2, <1>6, AppendPoints, Zenon DEF ListInv
<1>10. pp' = p
    BY <1>8, <1>9, Zenon DEF pp, ListedTo
<1>11. NextRoot(p) \in Chain /\ root <= NextRoot(p) /\ NextRoot(p) <= p /\ First(NextRoot(p))
  <2>1. root <= p
      BY <1>1, <1>2
  <2>2. QED
      BY <1>1, <1>6, <2>1, NextRootFacts DEF ListInv
<1>12. QED
    BY <1>1, <1>2, <1>6, <1>8, <1>9, <1>10, <1>11, Zenon DEF Moved

\* Both ways of moving the pruning point do what the steps rely on.
LEMMA MovesHold == Moves
<1>1. ScoresGrow
    BY ScoreGrows, Zenon DEF ScoresGrow
<1>2. QED
    BY <1>1, AdvanceFacts, IntrusiveFacts, Zenon DEF Moves

-----------------------------------------------------------------------------
\* The theorems

LEMMA InitHolds == Init => IInv
<1> SUFFICES ASSUME Init PROVE IInv
    OBVIOUS
<1>0. 0 \in Chain /\ Top \in Nat /\ Chain = 0..Top
    BY ChainAssumption DEF Chain
<1>1. pp = 0 /\ points = <<0>> /\ Range(points) = {0} /\ Len(points) = 1
    BY DEF Init, pp, Range
<1>2. First(0) /\ Firsts(0) = {0}
    BY <1>0 DEF First, Firsts
<1>3. TypeOK
  <2>1. PointType
    <3>1. plan.catchUps \in Nat /\ plan.crashes \in Nat
        BY SideAssumption DEF Init
    <3>2. points \in Seq(Chain) /\ points # <<>>
        BY <1>0, <1>1
    <3>3. QED
        BY <1>0, <1>1, <3>1, <3>2 DEF Init, PointType, NoMessage
  <2>2. SetType
    <3>1. ChainBlock(0) \in Block
        BY <1>0, BlockFacts, Zenon
    <3>2. <<>> \in Seq(Chain)
        OBVIOUS
    <3>3. QED
        BY <1>0, <3>1, <3>2, Zenon DEF Init, SetType
  <2>3. FlagType
      BY Zenon DEF Init, FlagType
  <2>4. QED
      BY <2>1, <2>2, <2>3, TypeParts, Zenon
<1>4. ListInv
  <2>1. ListedTo(points, pp)
      BY <1>0, <1>1, <1>2 DEF ListedTo, Increasing
  <2>2. QED
      BY <1>0, <1>1, <1>2, <2>1 DEF Init, ListInv
<1>5. SessionInv /\ SinkInv
    BY <1>1, StateAtNext DEF Init, SessionInv, SinkInv, VirtualSetMatchesSink, Transitional, Intrusive,
       Importing, NoMessage
<1>6. HeldInv /\ HistoryInv
  <2>1. \A i \in Chain : i <= 0 => i = 0
      BY <1>0
  <2>2. \A b \in Side : MergedBy[b] \in Nat /\ b[1] \in Nat
      BY <1>0, SideAssumption
  <2>3. \A b \in Side : MergedBy[b] # 0
      BY <1>0, <2>2, MergeAssumption
  <2>4. HeldInv
      BY <1>0, <1>1, <2>1, <2>2, <2>3 DEF Init, HeldInv, Reached, NoMessage
  <2>5. HistoryInv
      BY <1>0, <1>1, <2>1, <2>2, <2>3 DEF Init, HistoryInv
  <2>6. QED
      BY <2>4, <2>5
<1>7. KeepInv /\ WorkInv
    BY <1>1 DEF Init, KeepInv, Deleting, WorkInv
<1>8. LeftInv
  <2>1. InFuture(0, ChainBlock(0))
      BY <1>0, BlockFacts DEF InFuture
  <2>2. QED
      BY <2>1 DEF Init, LeftInv, Leftover, Deleting
<1>9. QED
    BY <1>3, <1>4, <1>5, <1>6, <1>7, <1>8, Zenon DEF IInv

\* A stuttering step changes nothing that the invariant reads.
LEMMA StutterHolds == IInv /\ UNCHANGED vars => IInv'
<1> SUFFICES ASSUME IInv, UNCHANGED vars PROVE IInv'
    OBVIOUS
<1> USE DEF vars, disk, locals, ibd
<1>1. TypeOK'
    BY Zenon DEF IInv, TypeOK, pp
<1>2. ListInv' /\ SessionInv'
    BY Zenon DEF IInv, ListInv, SessionInv, VirtualSetMatchesSink, Transitional, pp
<1>3. HeldInv' /\ KeepInv'
    BY Zenon DEF IInv, HeldInv, KeepInv, Reached, pp
<1>4. SinkInv' /\ HistoryInv'
    BY Zenon DEF IInv, SinkInv, HistoryInv, pp
<1>5. WorkInv' /\ LeftInv'
    BY Zenon DEF IInv, WorkInv, LeftInv, Leftover, DeepBelowVirtual, pp
<1>6. QED
    BY <1>1, <1>2, <1>3, <1>4, <1>5, Zenon DEF IInv

\* The inductive invariant holds along every behaviour.
THEOREM InvariantHolds == Spec => []IInv
<1>1. IInv /\ Next => IInv'
    BY NextHolds, MovesHold, Zenon
<1>2. QED
    BY <1>1, InitHolds, StutterHolds, PTL DEF Spec

\* Outside a catch-up the virtual UTXO set is the state of the sink, whatever crash cut an
\* import_pruning_point_utxo_set off: a set that is half-way is never taken for a whole one.
THEOREM VirtualSetIsTheSinks == Spec => []VirtualSetMatchesSink
<1>1. IInv => VirtualSetMatchesSink
    BY Zenon DEF IInv, SessionInv
<1>2. QED
    BY <1>1, InvariantHolds, PTL

\* advance_pruning_utxoset and its recovery apply every diff once and in order, over any
\* number of crashes.
THEOREM UtxoSetIsAtItsPosition == Spec => []UtxoSetMatchesPosition
<1>1. IInv => UtxoSetMatchesPosition
    BY Zenon DEF IInv, SinkInv, UtxoSetMatchesPosition
<1>2. QED
    BY <1>1, InvariantHolds, PTL

\* At every step of a prune, and after every crash, nothing is missing from the retention
\* root up to the virtual.
THEOREM HistoryIsKept == Spec => []HistoryIsConsecutive
<1>1. ASSUME IInv PROVE HistoryIsConsecutive
  <2>1. \A i \in root..sink : i \in Chain /\ i <= sink /\ i >= root
      BY <1>1, TypeFacts DEF IInv
  <2>2. QED
      BY <1>1, <2>1, Zenon DEF IInv, HistoryInv, HistoryIsConsecutive
<1>2. QED
    BY <1>1, InvariantHolds, PTL

\* The node can serve its pruning point at any time: advance_pruning_point_if_possible and
\* intrusive_pruning_point_update leave no sample out of the list, and prune deletes none
\* of the headers in it, nor the pruning point and its anticone.
THEOREM PruningPointIsServed == Spec => []PointIsServed
<1>1. ASSUME IInv PROVE PointIsServed
  <2>1. TypeOK /\ ListInv /\ HeldInv
      BY <1>1, Zenon DEF IInv
  <2>2. ListedTo(points, pp) /\ pp \in Chain
      BY <2>1, TypeFacts, Zenon DEF ListInv
  <2>3. First(pp)
    <3>1. pp \in Range(points)
        BY <2>1 DEF TypeOK, pp, Range
    <3>2. QED
        BY <2>2, <3>1, Zenon DEF ListedTo, Firsts
  <2>4. Range(points) = {pp} \cup Samples[pp]
      BY <2>2, <2>3, FirstsUpTo, Zenon DEF ListedTo
  <2>5. \A i \in 1..(Len(points) - 1) : points[i] < points[i + 1]
      BY <2>2 DEF ListedTo, Increasing
  <2>6. /\ \A i \in Range(points) : ChainBlock(i) \in headers
        /\ ~missing => {ChainBlock(pp)} \cup Anticone(pp, sink) \subseteq bodies
      BY <2>1, Zenon DEF HeldInv, Anticone
  <2>7. QED
      BY <2>4, <2>5, <2>6, Zenon DEF PointIsServed
<1>2. QED
    BY <1>1, InvariantHolds, PTL

\* A recovered pruner that waits for work has completed the UTXO set and the prune.
THEOREM IdleIsSettled == Spec => []SettledWhenIdle
<1>1. IInv => SettledWhenIdle
    BY Zenon DEF IInv, WorkInv, LeftInv, Leftover, SettledWhenIdle
<1>2. QED
    BY <1>1, InvariantHolds, PTL

\* The assertions of advance_pruning_utxoset and prune hold until a catch-up begins.
THEOREM PrunerDoesNotPanic == Spec => []NoPanic
<1>1. IInv => NoPanic
    BY Zenon DEF IInv, WorkInv, NoPanic
<1>2. QED
    BY <1>1, InvariantHolds, PTL

=============================================================================

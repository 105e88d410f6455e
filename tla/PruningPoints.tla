---------------------------- MODULE PruningPoints ----------------------------
(***************************************************************************)
(* The pruning samples and the pruning points that the headers of a chain  *)
(* commit to: a pure function of the blue scores along the chain.          *)
(*                                                                         *)
(* The chain is the selected chain below the finality point, so it is      *)
(* fixed: chain block i is the number i.                                   *)
(***************************************************************************)
EXTENDS Integers, FiniteSets, FiniteSetsExt

CONSTANTS
    Top,            \* the last chain block
    Score,          \* blue score of each chain block
    F, P            \* finality depth and pruning depth

Chain == 0..Top

ASSUME ChainAssumption == Top \in Nat /\ Score \in [Chain -> Nat]

\* A mergeset is far smaller than a finality window.
\* P is not a multiple of F up to the noise of a mergeset (a test of the pruning
\* manager asserts it), so a point ceil(P / F) samples down is P deep.
ASSUME DepthAssumption ==
    /\ F \in Nat \ {0} /\ P \in Nat /\ F <= P
    /\ \A i \in 1..Top : Score[i] - Score[i - 1] - 1 <= F * ((P + F - 1) \div F) - P
    /\ \A i \in 1..Top : Score[i] > Score[i - 1] /\ 2 * (Score[i] - Score[i - 1] - 1) < F

IsSample(high, low) == Score[low] \div F < Score[high] \div F

\* pruning_sample of each chain block
SampleOf[b \in Chain] ==
    IF b = 0 THEN 0
    ELSE IF IsSample(b - 1, SampleOf[b - 1]) THEN b - 1 ELSE SampleOf[b - 1]

\* The samples expected_header_pruning_point walks down from b.
Samples[b \in Chain] ==
    {SampleOf[b]} \cup IF SampleOf[b] = 0 THEN {} ELSE Samples[SampleOf[b]]

SampleSteps == (P + F - 1) \div F

\* expected_header_pruning_point: the first of them that is deep enough, or where
\* one of the clamps stops the walk.
PointFrom(b, previous) ==
    Max({s \in Samples[b] :
            \/ s = 0
            \/ Score[s] + P <= Score[b]
            \/ /\ IsSample(b, b - 1)
               /\ Cardinality({t \in Samples[b] : t >= s}) = SampleSteps
            \/ s = previous})

PointOf[b \in Chain] == IF b = 0 THEN 0 ELSE PointFrom(b, PointOf[b - 1])

\* The elements of a set of chain blocks from the lowest to the highest.
Ascending(S) ==
    CHOOSE f \in [1..Cardinality(S) -> S] :
        \A i, j \in 1..Cardinality(S) : i < j => f[i] < f[j]
=============================================================================

------------------------- MODULE PruningWorkProofs --------------------------
(***************************************************************************)
(* The steps of the pruner keep, until a catch-up begins, what it knows of *)
(* the database: the UTXO set's position, the history, and the work due.   *)
(***************************************************************************)
EXTENDS PruningProofs

\* The SMT solver is given a minute for each leaf that names no other prover.
USE SMTT(60)

\* The chain blocks among the variables before and after a step that leaves the list.
LEMMA StepFacts ==
    ASSUME TypeOK
    PROVE  /\ pp \in Nat /\ root \in Nat /\ root <= pp /\ sink \in Nat /\ seen \in Nat
           /\ position \in Nat /\ cursor \in Nat /\ chainLow \in Nat /\ message \in Int
           /\ targetRoot \in Nat /\ checkpoint \in Nat /\ checkpoint <= root /\ catchUps \in Nat
           /\ points' = points => pp' = pp
<1>1. points' = points => pp' = pp
    BY DEF pp
<1>2. message \in Int /\ catchUps \in Nat
    BY ChainAssumption DEF TypeOK, Chain, NoMessage
<1>3. QED
    BY <1>1, <1>2, TypeFacts

\* The virtual state only gets further above a chain block.
LEMMA StillDeep ==
    ASSUME NEW i \in Chain, NEW j \in Chain, NEW k \in Chain, j <= k, ScoresGrow,
           Score[i] + P <= Score[j] + 1
    PROVE  Score[i] + P <= Score[k] + 1 /\ (Score[i] + P <= Score[j] => Score[i] + P <= Score[k])
<1>1. Score[j] <= Score[k]
  <2>1. CASE j < k
      BY <2>1, ChainAssumption DEF ScoresGrow
  <2>2. CASE j = k
      BY <2>2, ChainAssumption
  <2>3. QED
      BY <2>1, <2>2 DEF Chain
<1>2. QED
    BY <1>1, ChainAssumption, DepthAssumption

\* The steps of IBD but the sync of headers; they need a catch-up, or are its begin.
IbdStep ==
    \/ \E p \in Chain : StartCatchUp(p)
    \/ Resume \/ IntrusiveUpdate \/ DownloadBodies \/ ClearMissing \/ ClearUtxoSet
    \/ ImportUtxoSet \/ CopyChunk \/ SetStable \/ EndIbd

LEMMA NoCatchUp ==
    ASSUME TypeOK, SinkInv, IbdStep
    PROVE  catchUps' # 0
<1>1. ASSUME NEW p \in Chain, StartCatchUp(p) PROVE catchUps' # 0
    BY <1>1, StepFacts DEF StartCatchUp
<1>2. CASE \/ Resume \/ IntrusiveUpdate \/ DownloadBodies \/ ClearMissing \/ ClearUtxoSet
           \/ ImportUtxoSet \/ CopyChunk \/ SetStable \/ EndIbd
    BY <1>2, ZenonT(60) DEF SinkInv, Resume, IntrusiveUpdate, DownloadBodies, ClearMissing, ClearUtxoSet,
       ImportUtxoSet, CopyChunk, SetStable, StableAfter, EndIbd, Transitional
<1>3. QED
    BY <1>1, <1>2, ZenonT(60) DEF IbdStep

\* Without a catch-up the flags stay, and the pruning point is deep below the sink.
LEMMA SinkStep ==
    ASSUME Moves, IInv, Next
    PROVE  SinkInv'
<1> SUFFICES ASSUME TypeOK, ListInv, SinkInv, WorkInv PROVE SinkInv'
    BY ZenonT(60) DEF IInv
<1> USE DEF Transitional
<1>0. /\ pp \in Nat /\ root \in Nat /\ root <= pp /\ sink \in Nat /\ seen \in Nat
      /\ position \in Nat /\ message \in Int /\ catchUps \in Nat
      /\ points' = points => pp' = pp
    BY StepFacts
<1>1. CASE \/ \E b \in Side : AddSide(b)
           \/ \E b \in Block : PruneBlock(b)
           \/ CheckRecovery \/ ConfirmDepth \/ HaltUtxoSet \/ EndUtxoSet \/ Prepare
           \/ SyncHeaders
    BY <1>0, <1>1, ZenonT(60) DEF AddSide, CheckRecovery, ConfirmDepth, HaltUtxoSet, EndUtxoSet,
       Prepare, PruneBlock, SyncHeaders, disk, locals, ibd, SinkInv
<1>2. CASE IbdStep
    BY <1>2, NoCatchUp DEF SinkInv
<1>3. CASE Extend
  <2>1. /\ sink' = sink + 1 /\ message' = sink + 1 /\ sink + 1 \in Chain /\ sink \in Chain /\ pp \in Chain
        /\ UNCHANGED <<session, stable, missing, catchUps, seen, points, root, chainLow, utxo, position>>
      BY <1>0, <1>3, TypeFacts DEF Extend, locals, ibd
  <2>2. Score[pp] + P <= Score[sink] => Score[pp] + P <= Score[sink']
      BY <1>0, <2>1, StillDeep, ChainAssumption, DepthAssumption DEF Moves
  <2>3. QED
      BY <1>0, <2>1, <2>2 DEF SinkInv
<1>4. CASE StartRecovery
    BY <1>0, <1>4 DEF StartRecovery, RecoversFirst, disk, ibd, NoMessage, SinkInv
<1>5. CASE Refused
    BY <1>0, <1>5 DEF Refused, Return, disk, ibd, SinkInv
<1>6. CASE StartAdvance
    BY <1>0, <1>6 DEF StartAdvance, disk, ibd, NoMessage, SinkInv
<1>7. CASE AdvancePoint
  <2>0. UNCHANGED <<session, stable, missing, catchUps, message, sink, chainLow, utxo, position>>
      BY <1>7, ZenonT(60) DEF AdvancePoint, ibd
  <2>1. CASE Return /\ UNCHANGED <<points, root>>
      BY <1>0, <2>0, <2>1 DEF Return, SinkInv
  <2>2. CASE Advanced(PointOf[seen])
    <3>1. /\ pp' \in Chain /\ pp < pp' /\ pp' < seen /\ seen' = seen /\ Score[pp'] + P <= Score[seen]
          /\ root' \in Chain /\ root <= root'
        BY <2>2, ZenonT(60) DEF Advanced, Moved
    <3>2. ASSUME seen <= sink PROVE Score[pp'] + P <= Score[sink]
      <4>1. seen \in Chain /\ sink \in Chain
          BY TypeFacts
      <4>2. Score[pp'] + P <= Score[seen] + 1
          BY <3>1, <4>1, ChainAssumption, DepthAssumption
      <4>3. QED
          BY <3>1, <3>2, <4>1, <4>2, StillDeep, ZenonT(60) DEF Moves
    <3>3. chainLow <= root => chainLow <= root'
        BY <3>1, TypeFacts
    <3>4. pp' \in Nat
        BY <3>1, TypeFacts
    <3>5. QED
        BY <1>0, <2>0, <3>1, <3>2, <3>3, <3>4 DEF SinkInv
  <2>3. QED
      BY <1>7, <2>1, <2>2, ZenonT(60) DEF Moves
<1>8. CASE AdvanceUtxoSet
  <2>1. /\ phase = "utxo" /\ cursor < target /\ utxo' = Append(utxo, cursor + 1) /\ position' = cursor + 1
        /\ UNCHANGED <<session, stable, missing, catchUps, message, seen, points, sink, root, chainLow>>
      BY <1>8, ZenonT(60) DEF AdvanceUtxoSet, PositionAfter, ibd
  <2>2. ASSUME catchUps = 0 PROVE utxo' = StateAt(position') /\ position' <= pp
    <3>1. cursor = position /\ target = pp /\ utxo = StateAt(position)
        BY <2>1, <2>2 DEF WorkInv, SinkInv
    <3>2. Append(StateAt(position), position + 1) = StateAt(position + 1)
        BY <1>0, StateAtNext, ZenonT(60)
    <3>3. QED
        BY <1>0, <2>1, <3>1, <3>2
  <2>3. QED
      BY <1>0, <2>1, <2>2 DEF SinkInv
<1>9. CASE TrimTipsAndChain
  <2>1. /\ phase = "trim" /\ (chainLow' = targetRoot \/ chainLow' = chainLow)
        /\ UNCHANGED <<session, stable, missing, catchUps, message, seen, points, sink, root, utxo, position>>
      BY <1>9, ZenonT(60) DEF TrimTipsAndChain, ibd
  <2>2. QED
      BY <1>0, <2>1 DEF SinkInv, WorkInv
<1>10. CASE EndPrune
    BY <1>0, <1>10 DEF EndPrune, Return, ibd, SinkInv
<1>11. CASE Panic
    BY <1>0, <1>11 DEF Panic, Restart, Return, disk, NoMessage, SinkInv
<1>12. CASE Crash
    BY <1>0, <1>12 DEF Crash, Restart, Return, disk, NoMessage, SinkInv
<1>13. QED
    BY <1>1, <1>2, <1>3, <1>4, <1>5, <1>6, <1>7, <1>8, <1>9, <1>10, <1>11, <1>12, ZenonT(60) DEF
       Next, IbdStep

\* Nothing is deleted from the retention root on, nor a diff that the UTXO set still needs.
LEMMA HistoryStep ==
    ASSUME Moves, IInv, Next
    PROVE  HistoryInv'
<1> SUFFICES ASSUME TypeOK, ListInv, SinkInv, HistoryInv, WorkInv PROVE HistoryInv'
    BY ZenonT(60) DEF IInv
<1>0. /\ pp \in Nat /\ root \in Nat /\ root <= pp /\ sink \in Nat
      /\ Top \in Nat /\ Chain = 0..Top
      /\ position \in Nat /\ catchUps \in Nat
      /\ \A b \in Side : MergedBy[b] \in Nat /\ b[1] \in Nat
  <2>1. \A b \in Side : MergedBy[b] \in Nat /\ b[1] \in Nat
      BY TypeFacts, SideAssumption
  <2>2. QED
      BY <2>1, StepFacts, TypeFacts
<1>1. CASE \/ \E b \in Side : AddSide(b)
           \/ StartRecovery \/ CheckRecovery \/ Refused \/ StartAdvance \/ ConfirmDepth
           \/ HaltUtxoSet \/ EndUtxoSet \/ Prepare \/ TrimTipsAndChain \/ EndPrune
           \/ Panic \/ Crash \/ SyncHeaders
    BY <1>1, ZenonT(60) DEF AddSide, StartRecovery, RecoversFirst, CheckRecovery, Refused,
       Return, StartAdvance, ConfirmDepth, HaltUtxoSet, EndUtxoSet, Prepare,
       TrimTipsAndChain, EndPrune, Panic, Restart, Crash, SyncHeaders, disk, locals, ibd,
       HistoryInv
<1>2. CASE IbdStep
    BY <1>2, NoCatchUp, ZenonT(60) DEF HistoryInv
<1>3. CASE Extend
  <2>1. /\ sink' = sink + 1 /\ diffs' = diffs \cup {sink + 1} /\ bodies' = bodies \cup {ChainBlock(sink + 1)}
        /\ \A b \in Side : MergedBy[b] = sink + 1 => b \in bodies
        /\ UNCHANGED <<root, position, catchUps>>
      BY <1>3, ZenonT(60) DEF Extend, ibd
  <2>2. \A i \in Nat : i <= sink' => i <= sink \/ i = sink + 1
      BY <1>0, <2>1
  <2>3. \A i \in Chain : i \in Nat
      BY <1>0
  <2>4. QED
      BY <1>0, <2>1, <2>2, <2>3, ZenonT(60) DEF HistoryInv
<1>4. CASE AdvancePoint
  <2>0. UNCHANGED <<catchUps, sink, position, diffs, bodies>>
      BY <1>4, ZenonT(60) DEF AdvancePoint, ibd
  <2>1. root' \in Nat /\ root <= root'
    <3>1. root' = root \/ (root' \in Chain /\ root <= root')
        BY <1>4, ZenonT(60) DEF Moves, Advanced, Moved
    <3>2. QED
        BY <1>0, <3>1
  <2>2. QED
      BY <1>0, <2>0, <2>1 DEF HistoryInv
<1>5. CASE AdvanceUtxoSet
  <2>1. /\ phase = "utxo" /\ position' = cursor + 1
        /\ UNCHANGED <<catchUps, sink, root, diffs, bodies>>
      BY <1>5, ZenonT(60) DEF AdvanceUtxoSet, PositionAfter, ibd
  <2>2. catchUps = 0 => cursor = position
      BY <2>1 DEF WorkInv
  <2>3. QED
      BY <1>0, <2>1, <2>2 DEF HistoryInv
<1>6. ASSUME NEW b \in Block, PruneBlock(b) PROVE HistoryInv'
  <2>1. /\ phase = "traverse" /\ ~(b[1] >= targetRoot) /\ bodies' = bodies \ {b}
        /\ diffs' = diffs \/ diffs' = diffs \ {b[1]}
        /\ UNCHANGED <<catchUps, sink, root, position>>
      BY <1>6, ZenonT(60) DEF PruneBlock, Prunable, InFuture, BelowRoot, ibd
  <2>2. SUFFICES ASSUME catchUps = 0 PROVE HistoryInv'
      BY <2>1 DEF HistoryInv
  <2>3. b[1] < root /\ position = pp /\ b[1] \in Nat
    <3>1. targetRoot = root /\ position = pp
        BY <2>1, <2>2 DEF WorkInv
    <3>2. b[1] \in Chain
        BY BlockFacts
    <3>3. QED
        BY <1>0, <2>1, <3>1, <3>2
  <2>4. /\ \A i \in Chain : i >= root => b # ChainBlock(i) /\ b[1] # i
        /\ \A i \in Chain : i > position => b[1] # i
        /\ \A i \in Chain : i > root => b[1] # i
        /\ \A c \in Side : c[1] >= root => c # b
      BY <1>0, <2>3, BlockFacts
  <2>5. QED
      BY <2>1, <2>2, <2>4, ZenonT(60) DEF HistoryInv
<1>7. QED
    BY <1>1, <1>2, <1>3, <1>4, <1>5, <1>6, ZenonT(60) DEF Next, IbdStep

\* A completed prune leaves below the root only what it set aside.
LEMMA LeftStep ==
    ASSUME Moves, IInv, Next
    PROVE  LeftInv'
<1> SUFFICES ASSUME TypeOK, ListInv, SinkInv, WorkInv, LeftInv PROVE LeftInv'
    BY ZenonT(60) DEF IInv
<1> USE DEF Deleting
<1>0. /\ pp \in Nat /\ root \in Nat /\ root <= pp /\ sink \in Nat /\ checkpoint \in Nat
      /\ checkpoint <= root /\ catchUps \in Nat
      /\ points' = points => pp' = pp
    BY StepFacts
<1>1. CASE \/ Refused \/ StartAdvance \/ AdvanceUtxoSet \/ HaltUtxoSet
           \/ TrimTipsAndChain \/ Panic \/ Crash \/ SyncHeaders
    BY <1>0, <1>1, ZenonT(60) DEF Refused, Return, StartAdvance, AdvanceUtxoSet, HaltUtxoSet,
       TrimTipsAndChain, Panic, Restart, Crash, SyncHeaders, disk, locals, ibd, LeftInv,
       Leftover
<1>2. CASE IbdStep
    BY <1>2, NoCatchUp, ZenonT(60) DEF LeftInv
<1>3. ASSUME NEW b \in Side, AddSide(b) PROVE LeftInv'
  <2>1. /\ bodies' = bodies \cup {b} /\ b[1] >= pp
        /\ UNCHANGED <<points, root, checkpoint, sink, phase, keep, catchUps>>
      BY <1>3, ZenonT(60) DEF AddSide, locals, ibd
  <2>2. InFuture(root, b)
      BY <1>0, <2>1, BlockFacts, SideAssumption DEF InFuture, Chain
  <2>3. QED
      BY <1>0, <2>1, <2>2, ZenonT(60) DEF LeftInv, Leftover
<1>4. CASE Extend
  <2>1. /\ bodies' = bodies \cup {ChainBlock(sink + 1)} /\ sink' = sink + 1 /\ sink + 1 \in Chain
        /\ UNCHANGED <<points, root, checkpoint, phase, keep, catchUps>>
      BY <1>0, <1>4, TypeFacts DEF Extend, locals, ibd
  <2>2. catchUps = 0 => InFuture(root, ChainBlock(sink + 1))
      BY <1>0, <2>1, BlockFacts DEF InFuture, SinkInv
  <2>3. \A i : Anticone(i, sink) \subseteq Anticone(i, sink + 1)
      BY <1>0, SideAssumption DEF Anticone
  <2>4. QED
      BY <1>0, <2>1, <2>2, <2>3, ZenonT(60) DEF LeftInv, Leftover
<1>5. CASE StartRecovery
    BY <1>0, <1>5, ZenonT(60) DEF StartRecovery, RecoversFirst, disk, ibd, LeftInv, Leftover
<1>6. CASE CheckRecovery
    BY <1>0, <1>6, ZenonT(60) DEF CheckRecovery, disk, ibd, LeftInv, Leftover
<1>7. CASE AdvancePoint
  <2>0. phase' \notin Deleting /\ UNCHANGED <<checkpoint, sink, bodies, catchUps>>
      BY <1>7 DEF AdvancePoint, Return, ibd
  <2>1. CASE UNCHANGED <<points, root>>
      BY <2>0, <2>1, ZenonT(60) DEF LeftInv, Leftover
  <2>2. CASE Advanced(PointOf[seen])
    <3>1. /\ pp' \in Nat /\ pp <= pp' /\ root' \in Nat /\ root <= root'
          /\ Range(points') = Firsts(pp') /\ Range(points) = Firsts(pp)
      <4>1. /\ pp' \in Chain /\ pp < pp' /\ root' \in Chain /\ root <= root'
            /\ Range(points') = Firsts(pp') /\ Range(points) = Firsts(pp)
          BY <2>2, ZenonT(60) DEF Advanced, Moved, ListInv, ListedTo
      <4>2. QED
          BY <1>0, <4>1, TypeFacts
    <3>2. Range(points) \subseteq Range(points')
        BY <1>0, <3>1 DEF Firsts
    <3>3. checkpoint = root' => checkpoint = root /\ root' = root
        BY <1>0, <3>1
    <3>4. QED
        BY <2>0, <3>2, <3>3, ZenonT(60) DEF LeftInv, Leftover
  <2>3. QED
      BY <1>7, <2>1, <2>2, ZenonT(60) DEF Moves
<1>8. CASE ConfirmDepth
    BY <1>0, <1>8, ZenonT(60) DEF ConfirmDepth, disk, ibd, LeftInv, Leftover
<1>9. CASE EndUtxoSet
    BY <1>0, <1>9, ZenonT(60) DEF EndUtxoSet, disk, ibd, LeftInv, Leftover
<1>10. CASE Prepare
    BY <1>0, <1>10, ZenonT(60) DEF Prepare, KeepBlocks, disk, ibd, LeftInv, Leftover
<1>11. ASSUME NEW b \in Block, PruneBlock(b) PROVE LeftInv'
    BY <1>0, <1>11, ZenonT(60) DEF PruneBlock, locals, ibd, LeftInv, Leftover
<1>12. CASE EndPrune
  <2>1. /\ phase = "traverse" /\ checkpoint' = targetRoot /\ Prunable = {} /\ phase' \notin Deleting
        /\ UNCHANGED <<points, root, sink, bodies, catchUps>>
      BY <1>12 DEF EndPrune, Return, ibd, AllPruned
  <2>2. SUFFICES ASSUME catchUps = 0, NEW b \in bodies PROVE Leftover(b)'
      BY <2>1, ZenonT(60) DEF LeftInv
  <2>3. targetRoot = root /\ keep \subseteq {ChainBlock(pp)} \cup Anticone(pp, sink)
      BY <2>1, <2>2 DEF WorkInv, LeftInv
  <2>4. pp \in Range(points) /\ b \in Block
      BY DEF TypeOK, pp, Range
  <2>5. InFuture(root, b) \/ b \in keep
      BY <2>1, <2>3, <2>4, ZenonT(60) DEF Prunable, BelowRoot
  <2>6. InFuture(root, ChainBlock(pp)) /\ pp >= root
      BY <1>0, BlockFacts, TypeFacts DEF InFuture
  <2>7. Leftover(b)
      BY <2>3, <2>4, <2>5, <2>6, ZenonT(60) DEF Leftover
  <2>8. QED
      BY <2>1, <2>7, ZenonT(60) DEF Leftover
<1>13. QED
    BY <1>1, <1>2, <1>3, <1>4, <1>5, <1>6, <1>7, <1>8, <1>9, <1>10, <1>11, <1>12, ZenonT(60) DEF
       Next, IbdStep

\* No assertion of the pruner can fail before a catch-up.
LEMMA AssertionsHold ==
    ASSUME TypeOK, SinkInv, HistoryInv, WorkInv, catchUps = 0
    PROVE  ~AssertionFails
<1>0. /\ pp \in Chain /\ sink \in Chain /\ root \in Chain /\ chainLow \in Chain /\ position \in Chain
      /\ root <= pp /\ Top \in Nat /\ Chain = 0..Top
    BY TypeFacts
<1>1. ASSUME phase = "utxo", cursor < target PROVE cursor + 1 \in diffs
  <2>1. cursor = position /\ target = pp /\ pp <= sink
      BY <1>1 DEF WorkInv, SinkInv
  <2>2. position + 1 \in Chain /\ position + 1 <= sink /\ position + 1 > position
      BY <1>0, <1>1, <2>1
  <2>3. position + 1 \in diffs
      BY <2>2, ZenonT(60) DEF HistoryInv
  <2>4. QED
      BY <2>1, <2>3, ZenonT(60)
<1>2. phase = "prepare" => pp = target /\ DeepBelowVirtual(pp)
    BY DEF WorkInv
<1>3. phase = "trim" => InChainStore(targetRoot)
    BY <1>0 DEF WorkInv, SinkInv, InChainStore
<1>4. QED
    BY <1>1, <1>2, <1>3, ZenonT(60) DEF AssertionFails

\* The pruner works on the pruning point and the root of the store, completes the UTXO set
\* before it prunes, and waits for work only when both are done.
LEMMA WorkStep ==
    ASSUME Moves, IInv, Next
    PROVE  WorkInv'
<1> SUFFICES ASSUME TypeOK, ListInv, SinkInv, HistoryInv, WorkInv PROVE WorkInv'
    BY ZenonT(60) DEF IInv
<1>0. /\ pp \in Nat /\ root \in Nat /\ catchUps \in Nat
      /\ points' = points => pp' = pp
      /\ sink' = sink /\ target' = target => (DeepBelowVirtual(target)' <=> DeepBelowVirtual(target))
  <2>1. sink' = sink /\ target' = target => (DeepBelowVirtual(target)' <=> DeepBelowVirtual(target))
      BY ZenonT(60) DEF DeepBelowVirtual
  <2>2. QED
      BY <2>1, StepFacts
<1>1. CASE \/ \E b \in Side : AddSide(b)
           \/ \E b \in Block : PruneBlock(b)
           \/ SyncHeaders
    BY <1>0, <1>1, ZenonT(60) DEF AddSide, PruneBlock, SyncHeaders, locals, ibd, WorkInv
<1>2. CASE IbdStep
    BY <1>2, NoCatchUp, ZenonT(60) DEF WorkInv
<1>3. CASE Extend
  <2>1. /\ sink' = sink + 1 /\ sink + 1 \in Chain /\ sink \in Chain /\ target \in Chain
        /\ UNCHANGED <<points, root, checkpoint, position, recovered, phase, mode, target, targetRoot,
                       oldCheckpoint, cursor, catchUps, panicked>>
      BY <1>3, TypeFacts DEF Extend, locals, ibd
  <2>2. DeepBelowVirtual(target) => DeepBelowVirtual(target)'
      BY <2>1, StillDeep, ChainAssumption, DepthAssumption DEF Moves, Chain, DeepBelowVirtual
  <2>3. QED
      BY <1>0, <2>1, <2>2, ZenonT(60) DEF WorkInv
<1>4. CASE StartRecovery
    BY <1>0, <1>4 DEF StartRecovery, RecoversFirst, disk, ibd, WorkInv
<1>5. CASE CheckRecovery
    BY <1>0, <1>5 DEF CheckRecovery, disk, ibd, WorkInv
<1>6. CASE Refused
    BY <1>0, <1>6 DEF Refused, Return, disk, ibd, WorkInv
<1>7. CASE StartAdvance
    BY <1>0, <1>7 DEF StartAdvance, disk, ibd, WorkInv
<1>8. CASE AdvancePoint
  <2>0. /\ phase = "advance"
        /\ UNCHANGED <<checkpoint, position, sink, recovered, catchUps, panicked>>
      BY <1>8, ZenonT(60) DEF AdvancePoint, ibd
  <2>1. CASE Return /\ UNCHANGED <<points, root>>
      BY <1>0, <2>0, <2>1 DEF Return, WorkInv
  <2>2. CASE Advanced(PointOf[seen])
    <3>1. /\ pp' \in Chain /\ pp < pp' /\ target' = pp' /\ targetRoot' = root' /\ mode' = "advance"
          /\ phase' = "confirm" /\ cursor' = pp
        BY <2>2, ZenonT(60) DEF Advanced, Moved
    <3>2. pp' # 0
        BY <1>0, <3>1, TypeFacts
    <3>3. QED
        BY <2>0, <3>1, <3>2 DEF WorkInv
  <2>3. QED
      BY <1>8, <2>1, <2>2, ZenonT(60) DEF Moves
<1>9. CASE ConfirmDepth
  <2>1. /\ phase = "confirm" /\ phase' = IF DeepBelowVirtual(target) THEN "utxo" ELSE "refused"
        /\ UNCHANGED <<points, root, checkpoint, position, sink, recovered, mode, target, targetRoot,
                       oldCheckpoint, cursor, catchUps, panicked>>
      BY <1>9, ZenonT(60) DEF ConfirmDepth, disk, ibd
  <2>2. SUFFICES ASSUME catchUps = 0 PROVE WorkInv'
      BY <2>1 DEF WorkInv
  <2>3. mode = "advance" => DeepBelowVirtual(target)
    <3>1. mode = "advance" => target = pp /\ Score[pp] + P <= Score[sink]
        BY <2>1, <2>2 DEF WorkInv, SinkInv
    <3>2. pp \in Chain /\ sink \in Chain
        BY TypeFacts
    <3>3. QED
        BY <3>1, <3>2, ChainAssumption, DepthAssumption DEF DeepBelowVirtual
  <2>4. mode \in {"advance", "recover"}
      BY DEF TypeOK
  <2>5. (DeepBelowVirtual(target) => DeepBelowVirtual(target)') /\ pp' = pp
      BY <1>0, <2>1
  <2>6. QED
      BY <2>1, <2>2, <2>3, <2>4, <2>5 DEF WorkInv
<1>10. CASE AdvanceUtxoSet
  <2>1. /\ phase = "utxo" /\ position' = cursor + 1 /\ cursor' = cursor + 1
        /\ UNCHANGED <<points, root, checkpoint, sink, recovered, phase, mode, target, targetRoot,
                       oldCheckpoint, catchUps, panicked>>
      BY <1>10, ZenonT(60) DEF AdvanceUtxoSet, PositionAfter, ibd
  <2>2. QED
      BY <1>0, <2>1 DEF WorkInv
<1>11. CASE HaltUtxoSet
    BY <1>0, <1>11 DEF HaltUtxoSet, disk, ibd, WorkInv, SinkInv, Transitional
<1>12. CASE EndUtxoSet
  <2>1. mode \in {"advance", "recover"}
      BY DEF TypeOK
  <2>2. /\ phase = "utxo" /\ cursor = target /\ (mode = "recover" => phase' = "check")
        /\ (mode = "advance" => phase' = "prepare")
        /\ UNCHANGED <<points, root, checkpoint, position, sink, recovered, mode, target, targetRoot,
                       oldCheckpoint, cursor, catchUps, panicked>>
      BY <1>12 DEF EndUtxoSet, disk, ibd
  <2>3. SUFFICES ASSUME catchUps = 0 PROVE WorkInv'
      BY <2>2 DEF WorkInv
  <2>4. /\ target = pp /\ targetRoot = root /\ (mode = "recover" => ~recovered) /\ position = pp
        /\ DeepBelowVirtual(target)' /\ ~panicked /\ (mode = "recover" => oldCheckpoint = checkpoint)
        /\ pp' = pp
    <3>1. /\ target = pp /\ targetRoot = root /\ (mode = "recover" => ~recovered)
          /\ cursor = position /\ DeepBelowVirtual(target) /\ ~panicked
          /\ (mode = "recover" => oldCheckpoint = checkpoint)
        BY <2>2, <2>3 DEF WorkInv
    <3>2. DeepBelowVirtual(target)' /\ pp' = pp
        BY <1>0, <2>2, <3>1, ZenonT(60)
    <3>3. QED
        BY <2>2, <3>1, <3>2
  <2>5. CASE mode = "recover"
      BY <2>2, <2>4, <2>5 DEF WorkInv
  <2>6. CASE mode = "advance"
      BY <2>2, <2>4, <2>6 DEF WorkInv
  <2>7. QED
      BY <2>1, <2>5, <2>6
<1>13. CASE Prepare
  <2>1. /\ phase = "prepare" /\ phase' = "trim"
        /\ UNCHANGED <<points, root, checkpoint, position, sink, recovered, mode, target, targetRoot,
                       oldCheckpoint, cursor, catchUps, panicked>>
      BY <1>13, ZenonT(60) DEF Prepare, disk, ibd
  <2>2. QED
      BY <1>0, <2>1 DEF WorkInv
<1>14. CASE TrimTipsAndChain
  <2>1. /\ phase = "trim" /\ phase' = "traverse"
        /\ UNCHANGED <<points, root, checkpoint, position, sink, recovered, mode, target, targetRoot,
                       oldCheckpoint, cursor, catchUps, panicked>>
      BY <1>14, ZenonT(60) DEF TrimTipsAndChain, ibd
  <2>2. QED
      BY <1>0, <2>1 DEF WorkInv
<1>15. CASE EndPrune
  <2>1. /\ phase = "traverse" /\ checkpoint' = targetRoot /\ mode' = "advance"
        /\ \/ mode = "recover" /\ recovered' = TRUE /\ phase' = "advance"
           \/ mode # "recover" /\ phase' = "idle" /\ recovered' = recovered
        /\ UNCHANGED <<points, root, position, sink, catchUps, panicked>>
      BY <1>15 DEF EndPrune, Return, ibd
  <2>2. QED
      BY <1>0, <2>1 DEF WorkInv
<1>16. CASE Panic
    BY <1>16, AssertionsHold DEF Panic, Restart, WorkInv
<1>17. CASE Crash
    BY <1>0, <1>17 DEF Crash, Restart, Return, disk, WorkInv
<1>18. QED
    BY <1>1, <1>2, <1>3, <1>4, <1>5, <1>6, <1>7, <1>8, <1>9, <1>10, <1>11, <1>12, <1>13,
       <1>14, <1>15, <1>16, <1>17, ZenonT(60) DEF Next, IbdStep

\* Every step keeps the inductive invariant.
LEMMA NextHolds ==
    ASSUME Moves, IInv, Next
    PROVE  IInv'
BY TypeStep, ListStep, SessionStep, HeldStep, KeepStep, SinkStep, HistoryStep, WorkStep,
   LeftStep, ZenonT(60) DEF IInv
=============================================================================

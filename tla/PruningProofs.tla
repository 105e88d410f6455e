--------------------------- MODULE PruningProofs ----------------------------
(***************************************************************************)
(* The steps of the pruner and of the catch-up keep the types, the list of *)
(* pruning points, the flags of a catch-up, and the blocks held.           *)
(***************************************************************************)
EXTENDS PruningInvariant, TLAPS

\* The SMT solver is given a minute for each leaf that names no other prover.
USE SMTT(60)

-----------------------------------------------------------------------------
\* The operators of the model

\* Applying the diff of the next chain block to the state of a chain block.
LEMMA StateAtNext ==
    /\ StateAt(0) = <<>>
    /\ \A i \in Nat : Append(StateAt(i), i + 1) = StateAt(i + 1)
    /\ \A i \in Chain : StateAt(i) \in Seq(Chain)
<1>1. StateAt(0) = <<>>
    BY DEF StateAt
<1>2. ASSUME NEW i \in Nat PROVE Append(StateAt(i), i + 1) = StateAt(i + 1)
    BY DEF StateAt
<1>3. ASSUME NEW i \in Chain PROVE StateAt(i) \in Seq(Chain)
    BY ChainAssumption DEF StateAt, Chain
<1>4. QED
    BY <1>1, <1>2, <1>3, ZenonT(60)

\* The chain blocks among the variables.
LEMMA TypeFacts ==
    ASSUME TypeOK
    PROVE  /\ Top \in Nat /\ Chain = 0..Top
           /\ pp \in Chain /\ root \in Chain /\ root <= pp /\ checkpoint \in Chain
           /\ checkpoint <= root /\ targetRoot \in Chain /\ targetRoot <= target
           /\ chainLow \in Chain /\ chainLow <= sink
           /\ sink \in Chain /\ position \in Chain /\ seen \in Chain /\ target \in Chain
           /\ oldCheckpoint \in Chain /\ cursor \in Chain /\ syncerPoint \in Chain
<1>1. pp \in Chain
    BY DEF TypeOK, pp
<1>2. QED
    BY <1>1, ChainAssumption DEF TypeOK, Chain

\* What the model's sets of blocks are made of.
LEMMA BlockFacts ==
    /\ \A i \in Chain : ChainBlock(i) \in Block /\ ChainBlock(i)[1] = i /\ ChainBlock(i)[2] = 0
    /\ \A i, j \in Chain : ChainBlock(i) = ChainBlock(j) => i = j
    /\ \A b \in Block : b[1] \in Chain /\ b[2] \in Nat /\ (b \in Side \/ b = ChainBlock(b[1]))
    /\ \A b \in Side : /\ b \in Block /\ b[2] # 0 /\ MergedBy[b] \in Nat
                      /\ \A i \in Chain : b # ChainBlock(i)
    /\ \A i, j : Anticone(i, j) \subseteq Side
<1>1. /\ \A i \in Chain : ChainBlock(i)[1] = i /\ ChainBlock(i)[2] = 0
      /\ \A i, j \in Chain : ChainBlock(i) = ChainBlock(j) => i = j
    BY DEF ChainBlock
<1>2. \A b \in Side : b[1] \in Chain /\ b[2] \in Nat /\ b[2] # 0 /\ MergedBy[b] \in Nat
    BY SideAssumption
<1>3. \A i \in Chain : ChainBlock(i) \in Block
    BY ZenonT(60) DEF Block
<1>4. \A b \in Side : b \in Block /\ \A i \in Chain : b # ChainBlock(i)
    BY <1>1, <1>2, ZenonT(60) DEF Block
<1>5. ASSUME NEW b \in Block
      PROVE  b[1] \in Chain /\ b[2] \in Nat /\ (b \in Side \/ b = ChainBlock(b[1]))
  <2>1. CASE b \in Side
      BY <1>2, <2>1
  <2>2. CASE b \notin Side
    <3>1. PICK i \in Chain : b = ChainBlock(i)
        BY <2>2, ZenonT(60) DEF Block
    <3>2. QED
        BY <1>1, <3>1
  <2>3. QED
      BY <2>1, <2>2
<1>6. \A i, j : Anticone(i, j) \subseteq Side
    BY ZenonT(60) DEF Anticone
<1>7. QED
    BY <1>1, <1>2, <1>3, <1>4, <1>5, <1>6, ZenonT(60)

-----------------------------------------------------------------------------
\* Each step keeps the types

PointType ==
    /\ points \in Seq(Chain) /\ points # <<>>
    /\ root \in 0..pp /\ checkpoint \in 0..root /\ targetRoot \in 0..target
    /\ position \in Chain /\ sink \in Chain /\ chainLow \in 0..sink
    /\ message \in Chain \cup {NoMessage}
    /\ {seen, target, oldCheckpoint, cursor, syncerPoint} \subseteq Chain
    /\ catchUps \in 0..plan.catchUps /\ crashes \in 0..plan.crashes

SetType ==
    /\ utxo \in Seq(Chain) /\ virtualUtxo \in Seq(Chain) /\ diffs \subseteq Chain
    /\ tips \cup headers \cup bodies \cup keep \cup keepHeaders \subseteq Block

FlagType ==
    /\ {stable, missing, recovered, panicked} \subseteq BOOLEAN
    /\ phase \in {"idle", "check", "confirm", "refused", "advance", "utxo", "prepare", "trim",
                  "traverse"}
    /\ mode \in {"advance", "recover"}
    /\ session \in {"none", "headers", "bodies", "anticone", "clear", "import", "copy",
                    "copying", "stable", "sync"}

LEMMA TypeParts ==
    (TypeOK <=> PointType /\ SetType /\ FlagType) /\ (TypeOK <=> PointType /\ SetType /\ FlagType)'
BY ZenonT(60) DEF TypeOK, PointType, SetType, FlagType

\* The chain blocks that the variables name.
LEMMA PointTypeStep ==
    ASSUME Moves, IInv, Next
    PROVE  PointType'
<1> SUFFICES ASSUME TypeOK, ListInv, SessionInv PROVE PointType'
    BY ZenonT(60) DEF IInv
<1>0. /\ PointType /\ Top \in Nat /\ Chain = 0..Top /\ pp \in Chain
      /\ points' = points => pp' = pp
      /\ plan.catchUps \in Nat /\ plan.crashes \in Nat
  <2>1. plan.catchUps \in Nat /\ plan.crashes \in Nat
      BY SideAssumption DEF ListInv
  <2>2. points' = points => pp' = pp
      BY DEF pp
  <2>3. QED
      BY <2>1, <2>2, TypeFacts, TypeParts, ZenonT(60)
<1>1. CASE \/ \E b \in Side : AddSide(b)
           \/ \E b \in Block : PruneBlock(b)
           \/ CheckRecovery \/ ConfirmDepth \/ HaltUtxoSet \/ EndUtxoSet \/ Prepare
           \/ SyncHeaders \/ DownloadBodies \/ ClearMissing \/ ClearUtxoSet \/ SetStable
    BY <1>0, <1>1, ZenonT(60) DEF AddSide, CheckRecovery, ConfirmDepth, HaltUtxoSet, EndUtxoSet,
       Prepare, PruneBlock, SyncHeaders, DownloadBodies, ClearMissing, ClearUtxoSet,
       SetStable, disk, locals, ibd, PointType
<1>2. CASE Extend
    BY <1>0, <1>2 DEF Extend, locals, ibd, PointType
<1>3. CASE StartRecovery
    BY <1>0, <1>3 DEF StartRecovery, RecoversFirst, disk, ibd, PointType
<1>4. CASE Refused
    BY <1>0, <1>4 DEF Refused, Return, disk, ibd, PointType
<1>5. CASE StartAdvance
    BY <1>0, <1>5 DEF StartAdvance, disk, ibd, PointType
<1>6. CASE AdvancePoint
  <2>1. CASE Return /\ UNCHANGED <<points, root>>
      BY <1>0, <1>6, <2>1 DEF AdvancePoint, Return, ibd, PointType
  <2>2. CASE Advanced(PointOf[seen])
    <3>1. points' \in Seq(Chain) /\ points' # <<>> /\ pp' = PointOf[seen] /\ pp < pp'
        BY <2>2, ZenonT(60) DEF Advanced, Moved, ListedTo
    <3>2. /\ root' \in Chain /\ root <= root' /\ root' <= pp' /\ pp' \in Chain
          /\ target' = pp' /\ targetRoot' = root' /\ cursor' = pp /\ UNCHANGED <<seen, oldCheckpoint>>
        BY <2>2, <3>1, ZenonT(60) DEF Advanced, Moved
    <3>3. QED
        BY <1>0, <1>6, <3>1, <3>2 DEF AdvancePoint, ibd, PointType
  <2>3. QED
      BY <1>6, <2>1, <2>2, ZenonT(60) DEF Moves
<1>7. CASE AdvanceUtxoSet
    BY <1>0, <1>7 DEF AdvanceUtxoSet, ibd, PositionAfter, PointType
<1>8. CASE TrimTipsAndChain
    BY <1>0, <1>8 DEF TrimTipsAndChain, ibd, InChainStore, PointType
<1>9. CASE EndPrune
    BY <1>0, <1>9 DEF EndPrune, Return, ibd, ListInv, PointType
<1>10. CASE Panic
    BY <1>0, <1>10 DEF Panic, Restart, Return, disk, PointType
<1>11. CASE Crash
    BY <1>0, <1>11 DEF Crash, Restart, Return, disk, PointType
<1>12. ASSUME NEW p \in Chain, StartCatchUp(p) PROVE PointType'
    BY <1>0, <1>12 DEF StartCatchUp, locals, PointType
<1>13. CASE Resume
    BY <1>0, <1>13 DEF Resume, disk, locals, PointType
<1>14. CASE IntrusiveUpdate
  <2>1. Moved(syncerPoint)
      BY <1>14 DEF Moves
  <2>2. /\ points' \in Seq(Chain) /\ points' # <<>> /\ pp' = syncerPoint
        /\ root' \in Chain /\ root <= root' /\ root' <= pp'
      BY <2>1, ZenonT(60) DEF Moved, ListedTo
  <2>3. QED
      BY <1>0, <1>14, <2>2 DEF IntrusiveUpdate, locals, PointType
<1>15. CASE ImportUtxoSet
    BY <1>0, <1>15 DEF ImportUtxoSet, locals, PointType
<1>16. CASE CopyChunk
    BY <1>0, <1>16 DEF CopyChunk, locals, SessionInv, Intrusive, Importing, PointType
<1>17. CASE EndIbd
    BY <1>0, <1>17 DEF EndIbd, disk, locals, PointType
<1>18. QED
    BY <1>1, <1>2, <1>3, <1>4, <1>5, <1>6, <1>7, <1>8, <1>9, <1>10, <1>11, <1>12, <1>13,
       <1>14, <1>15, <1>16, <1>17, ZenonT(60) DEF Next

\* The flags and the phases.
LEMMA FlagTypeStep ==
    ASSUME IInv, Next
    PROVE  FlagType'
<1> SUFFICES ASSUME TypeOK PROVE FlagType'
    BY ZenonT(60) DEF IInv
<1>0. FlagType
    BY TypeParts
<1>1. CASE \/ \E b \in Side : AddSide(b)
           \/ \E b \in Block : PruneBlock(b)
           \/ HaltUtxoSet \/ Prepare \/ TrimTipsAndChain
    BY <1>0, <1>1, ZenonT(60) DEF AddSide, HaltUtxoSet, Prepare, TrimTipsAndChain, PruneBlock,
       disk, locals, ibd, FlagType
<1>13. CASE Extend
    BY <1>0, <1>13, ZenonT(60) DEF Extend, locals, ibd, FlagType
<1>14. CASE AdvanceUtxoSet
    BY <1>0, <1>14, ZenonT(60) DEF AdvanceUtxoSet, ibd, FlagType
<1>2. CASE \/ \E p \in Chain : StartCatchUp(p)
           \/ SyncHeaders \/ Resume \/ IntrusiveUpdate \/ DownloadBodies \/ ClearMissing
           \/ ClearUtxoSet \/ ImportUtxoSet \/ CopyChunk \/ SetStable \/ EndIbd
    BY <1>0, <1>2, ZenonT(60) DEF SyncHeaders, StartCatchUp, Resume, IntrusiveUpdate,
       DownloadBodies, ClearMissing, ClearUtxoSet, ImportUtxoSet, CopyChunk, SetStable,
       EndIbd, disk, locals, ibd, FlagType
<1>3. CASE StartRecovery
    BY <1>0, <1>3, ZenonT(60) DEF StartRecovery, RecoversFirst, disk, ibd, FlagType
<1>4. CASE CheckRecovery
    BY <1>0, <1>4, ZenonT(60) DEF CheckRecovery, disk, ibd, FlagType
<1>5. CASE Refused
    BY <1>0, <1>5, ZenonT(60) DEF Refused, Return, disk, ibd, FlagType
<1>6. CASE StartAdvance
    BY <1>0, <1>6, ZenonT(60) DEF StartAdvance, disk, ibd, FlagType
<1>7. CASE AdvancePoint
  <2>1. phase' \in {"idle", "confirm"} /\ mode' = "advance"
      BY <1>7 DEF AdvancePoint, Return
  <2>2. QED
      BY <1>0, <1>7, <2>1, ZenonT(60) DEF AdvancePoint, ibd, FlagType
<1>8. CASE ConfirmDepth
    BY <1>0, <1>8, ZenonT(60) DEF ConfirmDepth, disk, ibd, FlagType
<1>9. CASE EndUtxoSet
    BY <1>0, <1>9, ZenonT(60) DEF EndUtxoSet, disk, ibd, FlagType
<1>10. CASE EndPrune
    BY <1>0, <1>10, ZenonT(60) DEF EndPrune, Return, ibd, FlagType
<1>11. CASE Panic
    BY <1>0, <1>11, ZenonT(60) DEF Panic, Restart, Return, disk, FlagType
<1>12. CASE Crash
    BY <1>0, <1>12, ZenonT(60) DEF Crash, Restart, Return, disk, FlagType
<1>15. QED
    BY <1>1, <1>2, <1>3, <1>4, <1>5, <1>6, <1>7, <1>8, <1>9, <1>10, <1>11, <1>12, <1>13,
       <1>14, ZenonT(60) DEF Next

\* The sets of blocks, and the UTXO sets.
LEMMA SetTypeStep ==
    ASSUME IInv, Next
    PROVE  SetType'
<1> SUFFICES ASSUME TypeOK PROVE SetType'
    BY ZenonT(60) DEF IInv
<1>0. SetType
    BY TypeParts
<1>00. /\ sink \in Chain /\ cursor \in Chain /\ syncerPoint \in Chain /\ pp \in Chain
       /\ \A i \in Chain : ChainBlock(i) \in Block
       /\ Side \subseteq Block /\ \A i, j : Anticone(i, j) \subseteq Block
    BY TypeFacts, BlockFacts, ZenonT(60)
<1>1. CASE \/ StartRecovery \/ CheckRecovery \/ Refused \/ StartAdvance \/ ConfirmDepth
           \/ HaltUtxoSet \/ EndUtxoSet \/ Panic \/ Crash \/ Resume \/ ClearMissing
           \/ SetStable \/ EndIbd
    BY <1>0, <1>1, ZenonT(60) DEF StartRecovery, RecoversFirst, CheckRecovery, Refused, Return,
       StartAdvance, ConfirmDepth, HaltUtxoSet, EndUtxoSet, Panic, Restart, Crash, Resume,
       ClearMissing, SetStable, EndIbd, disk, locals, ibd, SetType
<1>2. ASSUME NEW b \in Side, AddSide(b) PROVE SetType'
    BY <1>0, <1>2, <1>00, ZenonT(60) DEF AddSide, locals, ibd, SetType
<1>3. CASE Extend
  <2>1. sink + 1 \in Chain /\ ChainBlock(sink + 1) \in Block
    <3>1. sink + 1 \in Chain
        BY <1>00, <1>3, ChainAssumption DEF Extend, Chain
    <3>2. QED
        BY <1>00, <3>1
  <2>2. virtualUtxo' \in Seq(Chain) /\ diffs' \subseteq Chain
      BY <1>0, <1>3, <2>1 DEF Extend, SetType
  <2>3. tips' \subseteq Block /\ headers' \subseteq Block /\ bodies' \subseteq Block
      BY <1>0, <1>3, <2>1, ZenonT(60) DEF Extend, SetType
  <2>4. QED
      BY <1>0, <1>3, <2>2, <2>3, ZenonT(60) DEF Extend, locals, ibd, SetType
<1>4. CASE AdvancePoint
  <2>1. keep' \subseteq Block /\ keepHeaders' \subseteq Block
      BY <1>0, <1>4 DEF AdvancePoint, Return, SetType
  <2>2. QED
      BY <1>0, <1>4, <2>1, ZenonT(60) DEF AdvancePoint, ibd, SetType
<1>5. CASE AdvanceUtxoSet
  <2>1. cursor + 1 \in Chain /\ utxo' = Append(utxo, cursor + 1)
      BY <1>0, <1>5, ZenonT(60) DEF AdvanceUtxoSet, SetType
  <2>2. utxo' \in Seq(Chain)
      BY <1>0, <2>1 DEF SetType
  <2>3. QED
      BY <1>0, <1>5, <2>2, ZenonT(60) DEF AdvanceUtxoSet, ibd, SetType
<1>6. CASE Prepare
  <2>1. keep' \subseteq Block
      BY <1>00, <1>6, ZenonT(60) DEF Prepare, KeepBlocks
  <2>2. Range(points) \subseteq Chain
      BY DEF TypeOK, Range
  <2>3. keepHeaders' \subseteq Block
      BY <1>00, <1>6, <2>2, ZenonT(60) DEF Prepare
  <2>4. QED
      BY <1>0, <1>6, <2>1, <2>3, ZenonT(60) DEF Prepare, disk, ibd, SetType
<1>7. CASE TrimTipsAndChain
    BY <1>0, <1>7, ZenonT(60) DEF TrimTipsAndChain, ibd, SetType
<1>8. ASSUME NEW b \in Block, PruneBlock(b) PROVE SetType'
    BY <1>0, <1>8, ZenonT(60) DEF PruneBlock, locals, ibd, SetType
<1>9. CASE EndPrune
    BY <1>0, <1>9, ZenonT(60) DEF EndPrune, Return, ibd, SetType
<1>10. CASE SyncHeaders
    BY <1>0, <1>10, <1>00, ZenonT(60) DEF SyncHeaders, locals, ibd, SyncedHeaders, SetType
<1>11. ASSUME NEW p \in Chain, StartCatchUp(p) PROVE SetType'
    BY <1>0, <1>11, <1>00, ZenonT(60) DEF StartCatchUp, locals, SyncedHeaders, SetType
<1>12. CASE IntrusiveUpdate
    BY <1>0, <1>12, <1>00, ZenonT(60) DEF IntrusiveUpdate, locals, SetType
<1>13. CASE DownloadBodies
  <2>1. bodies' \subseteq Block
      BY <1>0, <1>00, <1>13, ZenonT(60) DEF DownloadBodies, SetType
  <2>2. tips' \subseteq Block
      BY <1>0, <1>00, <1>13, ZenonT(60) DEF DownloadBodies, SetType
  <2>3. QED
      BY <1>0, <1>13, <2>1, <2>2, ZenonT(60) DEF DownloadBodies, locals, SetType
<1>14. CASE ClearUtxoSet
  <2>1. utxo' \in Seq(Chain)
      BY <1>14 DEF ClearUtxoSet
  <2>2. QED
      BY <1>0, <1>14, <2>1, ZenonT(60) DEF ClearUtxoSet, locals, SetType
<1>15. CASE ImportUtxoSet
  <2>1. utxo' \in Seq(Chain)
      BY <1>00, <1>15, StateAtNext, ZenonT(60) DEF ImportUtxoSet
  <2>2. QED
      BY <1>0, <1>15, <2>1, ZenonT(60) DEF ImportUtxoSet, locals, SetType
<1>16. CASE CopyChunk
  <2>1. virtualUtxo' \in Seq(Chain)
    <3>1. (virtualUtxo' = <<>> \/ virtualUtxo' = utxo) /\ utxo \in Seq(Chain)
        BY <1>0, <1>16, ZenonT(60) DEF CopyChunk, SetType
    <3>2. <<>> \in Seq(Chain)
        OBVIOUS
    <3>3. QED
        BY <3>1, <3>2, ZenonT(60)
  <2>2. QED
      BY <1>0, <1>16, <2>1, ZenonT(60) DEF CopyChunk, locals, SetType
<1>17. QED
    BY <1>1, <1>2, <1>3, <1>4, <1>5, <1>6, <1>7, <1>8, <1>9, <1>10, <1>11, <1>12, <1>13,
       <1>14, <1>15, <1>16, ZenonT(60) DEF Next

LEMMA TypeStep ==
    ASSUME Moves, IInv, Next
    PROVE  TypeOK'
BY PointTypeStep, FlagTypeStep, SetTypeStep, TypeParts, ZenonT(60)

\* The list grows by the samples up to the new pruning point, and nothing else changes it.
LEMMA ListStep ==
    ASSUME Moves, IInv, Next
    PROVE  ListInv'
<1> SUFFICES ASSUME TypeOK, ListInv PROVE ListInv'
    BY ZenonT(60) DEF IInv
<1>0. /\ pp \in Nat /\ root \in Nat /\ root <= pp /\ target <= pp /\ targetRoot <= root
      /\ target \in Nat /\ targetRoot \in Nat /\ 0 <= pp /\ 0 <= root
      /\ points' = points => pp' = pp
  <2>1. points' = points => pp' = pp
      BY DEF pp
  <2>2. QED
      BY <2>1, TypeFacts DEF ListInv
<1>1. CASE \/ \E b \in Side : AddSide(b)
           \/ \E b \in Block : PruneBlock(b)
           \/ \E p \in Chain : StartCatchUp(p)
           \/ Extend \/ CheckRecovery \/ StartAdvance \/ ConfirmDepth \/ AdvanceUtxoSet
           \/ HaltUtxoSet \/ EndUtxoSet \/ Prepare \/ TrimTipsAndChain \/ SyncHeaders
           \/ Resume \/ DownloadBodies \/ ClearMissing \/ ClearUtxoSet \/ ImportUtxoSet
           \/ CopyChunk \/ SetStable \/ EndIbd
    BY <1>0, <1>1, ZenonT(60) DEF AddSide, Extend, CheckRecovery, StartAdvance, ConfirmDepth,
       AdvanceUtxoSet, HaltUtxoSet, EndUtxoSet, Prepare, TrimTipsAndChain, PruneBlock,
       SyncHeaders, StartCatchUp, Resume, DownloadBodies, ClearMissing, ClearUtxoSet,
       ImportUtxoSet, CopyChunk, SetStable, EndIbd, disk, locals, ibd, ListInv
<1>2. CASE StartRecovery
    BY <1>0, <1>2 DEF StartRecovery, RecoversFirst, disk, ibd, ListInv
<1>3. CASE Refused
    BY <1>0, <1>3 DEF Refused, Return, disk, ibd, ListInv
<1>4. CASE AdvancePoint
  <2>1. CASE Return /\ UNCHANGED <<points, root>>
      BY <1>0, <1>4, <2>1, ZenonT(60) DEF AdvancePoint, Return, ListInv
  <2>2. CASE Advanced(PointOf[seen])
    <3>1. /\ ListedTo(points', pp') /\ First(root') /\ target' = pp' /\ targetRoot' = root'
          /\ pp' \in Chain /\ root' \in Chain
        BY <2>2, ZenonT(60) DEF Advanced, Moved
    <3>2. QED
        BY <1>4, <3>1, ChainAssumption DEF AdvancePoint, ListInv, Chain
  <2>3. QED
      BY <1>4, <2>1, <2>2, ZenonT(60) DEF Moves
<1>5. CASE EndPrune
    BY <1>0, <1>5 DEF EndPrune, Return, ibd, ListInv
<1>6. CASE Panic
    BY <1>0, <1>6 DEF Panic, Restart, Return, disk, ListInv
<1>7. CASE Crash
    BY <1>0, <1>7 DEF Crash, Restart, Return, disk, ListInv
<1>8. CASE IntrusiveUpdate
  <2>1. /\ ListedTo(points', pp') /\ First(root') /\ pp < pp' /\ root <= root'
        /\ pp' \in Chain /\ root' \in Chain
      BY <1>8, ZenonT(60) DEF Moves, Moved
  <2>2. QED
      BY <1>0, <1>8, <2>1, ChainAssumption DEF IntrusiveUpdate, locals, ListInv, Chain
<1>9. QED
    BY <1>1, <1>2, <1>3, <1>4, <1>5, <1>6, <1>7, <1>8, ZenonT(60) DEF Next

\* A catch-up resets the sink below the pruning point, and the stable flag is set only when the
\* virtual UTXO set has been imported.
LEMMA SessionStep ==
    ASSUME Moves, IInv, Next
    PROVE  SessionInv'
<1> SUFFICES ASSUME TypeOK, ListInv, SessionInv PROVE SessionInv'
    BY ZenonT(60) DEF IInv
<1> USE DEF VirtualSetMatchesSink, Transitional, Intrusive, Importing
<1>0. /\ pp \in Nat /\ sink \in Nat /\ syncerPoint \in Nat
      /\ points' = points => pp' = pp
  <2>1. points' = points => pp' = pp
      BY DEF pp
  <2>2. QED
      BY <2>1, TypeFacts
<1>1. CASE \/ \E b \in Side : AddSide(b)
           \/ \E b \in Block : PruneBlock(b)
           \/ CheckRecovery \/ ConfirmDepth \/ HaltUtxoSet \/ EndUtxoSet \/ Prepare
           \/ TrimTipsAndChain
  <2>1. UNCHANGED <<points, missing, stable, sink, session, syncerPoint, utxo, virtualUtxo>>
      BY <1>1, ZenonT(60) DEF AddSide, CheckRecovery, ConfirmDepth, HaltUtxoSet, EndUtxoSet,
         Prepare, TrimTipsAndChain, PruneBlock, disk, locals, ibd
  <2>2. QED
      BY <1>0, <2>1 DEF SessionInv
<1>21. CASE SyncHeaders
  <2>1. UNCHANGED <<points, missing, stable, sink, session, syncerPoint, utxo, virtualUtxo>>
      BY <1>21, ZenonT(60) DEF SyncHeaders, ibd
  <2>2. QED
      BY <1>0, <2>1 DEF SessionInv
<1>2. CASE Extend
  <2>1. /\ sink' = sink + 1 /\ virtualUtxo' = Append(virtualUtxo, sink + 1) /\ ~Transitional
        /\ UNCHANGED <<points, missing, stable, session>>
      BY <1>2, ZenonT(60) DEF Extend, ibd
  <2>2. virtualUtxo' = StateAt(sink')
      BY <1>0, <2>1, StateAtNext, ZenonT(60) DEF SessionInv
  <2>3. session \notin Intrusive
      BY <2>1, ZenonT(60) DEF SessionInv
  <2>4. QED
      BY <2>1, <2>2, <2>3 DEF SessionInv
<1>3. CASE StartRecovery
    BY <1>0, <1>3 DEF StartRecovery, RecoversFirst, disk, ibd, SessionInv
<1>4. CASE Refused
    BY <1>0, <1>4 DEF Refused, Return, disk, ibd, SessionInv
<1>5. CASE StartAdvance
    BY <1>0, <1>5 DEF StartAdvance, disk, ibd, SessionInv
<1>6. CASE AdvancePoint
  <2>1. points' = points \/ (pp < pp' /\ pp' \in Chain)
      BY <1>6, ZenonT(60) DEF Moves, Advanced, Moved
  <2>2. QED
    <3>1. /\ UNCHANGED <<missing, stable, sink, session, syncerPoint, utxo, virtualUtxo>>
          /\ pp' \in Nat /\ pp <= pp'
        BY <1>0, <1>6, <2>1, ChainAssumption DEF AdvancePoint, ibd, Chain
    <3>2. QED
        BY <1>0, <3>1 DEF SessionInv
<1>7. CASE AdvanceUtxoSet
    BY <1>0, <1>7 DEF AdvanceUtxoSet, ibd, SessionInv
<1>8. CASE EndPrune
    BY <1>0, <1>8 DEF EndPrune, Return, ibd, SessionInv
<1>9. CASE Panic
    BY <1>0, <1>9 DEF Panic, Restart, Return, disk, SessionInv
<1>10. CASE Crash
    BY <1>0, <1>10 DEF Crash, Restart, Return, disk, SessionInv
<1>11. ASSUME NEW p \in Chain, StartCatchUp(p) PROVE SessionInv'
    BY <1>0, <1>11 DEF StartCatchUp, locals, SessionInv
<1>12. CASE Resume
    BY <1>0, <1>12 DEF Resume, disk, locals, SessionInv
<1>13. CASE IntrusiveUpdate
  <2>1. pp' = syncerPoint
      BY <1>13, ZenonT(60) DEF Moves, Moved
  <2>2. QED
      BY <1>0, <1>13, <2>1 DEF IntrusiveUpdate, SessionInv
<1>14. CASE DownloadBodies
    BY <1>0, <1>14 DEF DownloadBodies, locals, SessionInv
<1>15. CASE ClearMissing
    BY <1>0, <1>15 DEF ClearMissing, locals, SessionInv
<1>16. CASE ClearUtxoSet
    BY <1>0, <1>16 DEF ClearUtxoSet, locals, SessionInv
<1>17. CASE ImportUtxoSet
    BY <1>0, <1>17 DEF ImportUtxoSet, locals, SessionInv
<1>18. CASE CopyChunk
  <2>1. UNCHANGED <<points, missing, stable, syncerPoint, utxo>> /\ Transitional
      BY <1>18 DEF CopyChunk, locals, SessionInv
  <2>2. CASE session = "copy" /\ session' = "copying" /\ UNCHANGED sink
      BY <1>0, <2>1, <2>2 DEF SessionInv
  <2>3. CASE session = "copying" /\ session' = "stable" /\ virtualUtxo' = utxo /\ sink' = syncerPoint
      BY <1>0, <2>1, <2>3 DEF SessionInv
  <2>4. QED
      BY <1>18, <2>2, <2>3, ZenonT(60) DEF CopyChunk
<1>19. CASE SetStable
    BY <1>0, <1>19 DEF SetStable, locals, StableAfter, SessionInv
<1>20. CASE EndIbd
    BY <1>0, <1>20 DEF EndIbd, disk, locals, SessionInv
<1>22. QED
    BY <1>1, <1>2, <1>3, <1>4, <1>5, <1>6, <1>7, <1>8, <1>9, <1>10, <1>11, <1>12, <1>13,
       <1>14, <1>15, <1>16, <1>17, <1>18, <1>19, <1>20, <1>21, ZenonT(60) DEF Next

\* A block far below the sink has been merged by then: what a later block of the chain
\* merges is not below a pruning point.
LEMMA MergedInTime ==
    ASSUME NEW i \in Chain, sink \in Chain, ScoresGrow, DeepBelowVirtual(i)
    PROVE  Anticone(i, Top) = Anticone(i, sink)
<1>1. ASSUME NEW b \in Side, b[1] < i, MergedBy[b] > i, MergedBy[b] <= Top
      PROVE  MergedBy[b] <= sink
  <2>1. b[1] \in Chain /\ MergedBy[b] \in Chain /\ Top \in Nat
      BY <1>1, SideAssumption, ChainAssumption DEF Chain
  <2>2. Score[MergedBy[b]] - Score[b[1]] < P
      BY <1>1, MergeAssumption
  <2>3. Score[b[1]] < Score[i]
      BY <1>1, <2>1 DEF ScoresGrow
  <2>4. sink < MergedBy[b] => Score[sink] < Score[MergedBy[b]]
      BY <2>1 DEF ScoresGrow
  <2>5. /\ Score[b[1]] \in Nat /\ Score[i] \in Nat /\ Score[sink] \in Nat
        /\ Score[MergedBy[b]] \in Nat /\ P \in Nat
      BY <2>1, ChainAssumption, DepthAssumption
  <2> DEFINE m == MergedBy[b]
  <2>6. Score[sink] + 1 >= Score[i] + P
      BY DEF DeepBelowVirtual
  <2>7. QED
      BY <2>1, <2>2, <2>3, <2>4, <2>5, <2>6 DEF Chain
<1>2. \A b \in Side : MergedBy[b] <= sink => MergedBy[b] <= Top
    BY SideAssumption, ChainAssumption DEF Chain
<1>3. QED
    BY <1>1, <1>2, ZenonT(60) DEF Anticone

\* build_trusted_data collects the whole anticone of the pruning point: with the virtual
\* state this far above, no later block merges into it.
LEMMA KeepStep ==
    ASSUME Moves, IInv, Next
    PROVE  KeepInv'
<1> SUFFICES ASSUME TypeOK, ListInv, KeepInv PROVE KeepInv'
    BY ZenonT(60) DEF IInv
<1> USE DEF Deleting
<1>1. CASE \/ \E b \in Side : AddSide(b)
           \/ \E b \in Block : PruneBlock(b)
           \/ \E p \in Chain : StartCatchUp(p)
           \/ Extend \/ Refused \/ StartAdvance \/ AdvanceUtxoSet \/ HaltUtxoSet
           \/ TrimTipsAndChain \/ Panic \/ Crash \/ SyncHeaders \/ Resume
           \/ DownloadBodies \/ ClearMissing \/ ClearUtxoSet \/ ImportUtxoSet
           \/ CopyChunk \/ SetStable \/ EndIbd
    BY <1>1, ZenonT(60) DEF AddSide, Extend, Refused, Return, StartAdvance, AdvanceUtxoSet,
       HaltUtxoSet, TrimTipsAndChain, PruneBlock, Panic, Restart, Crash, SyncHeaders,
       StartCatchUp, Resume, DownloadBodies, ClearMissing, ClearUtxoSet, ImportUtxoSet,
       CopyChunk, SetStable, EndIbd, disk, locals, ibd, KeepInv
<1>2. CASE StartRecovery
    BY <1>2 DEF StartRecovery, RecoversFirst, disk, ibd, KeepInv
<1>3. CASE CheckRecovery
    BY <1>3 DEF CheckRecovery, disk, ibd, KeepInv
<1>4. CASE AdvancePoint
  <2>1. phase' \notin Deleting
      BY <1>4 DEF AdvancePoint, Return, Deleting
  <2>2. QED
      BY <2>1 DEF KeepInv
<1>5. CASE ConfirmDepth
    BY <1>5 DEF ConfirmDepth, disk, ibd, KeepInv
<1>6. CASE EndUtxoSet
    BY <1>6 DEF EndUtxoSet, disk, ibd, KeepInv
<1>7. CASE Prepare
  <2>1. /\ pp = target /\ keep' = {ChainBlock(pp)} \cup Anticone(pp, sink)
        /\ DeepBelowVirtual(pp) /\ UNCHANGED <<target, points>>
        /\ \A i \in Range(points) : ChainBlock(i) \in keepHeaders'
      BY <1>7, ZenonT(60) DEF Prepare, KeepBlocks, disk
  <2>2. Anticone(pp, Top) = Anticone(pp, sink)
      BY <2>1, TypeFacts, MergedInTime, ZenonT(60) DEF Moves
  <2>3. QED
      BY <2>1, <2>2, ZenonT(60) DEF KeepInv
<1>8. CASE EndPrune
    BY <1>8 DEF EndPrune, Return, ibd, KeepInv
<1>9. CASE IntrusiveUpdate
  <2>1. \A i \in Range(points') : i \in Range(points) \/ i >= target
    <3>1. /\ Range(points') = Firsts(syncerPoint) /\ Range(points) = Firsts(pp)
          /\ pp \in Chain /\ syncerPoint \in Chain /\ target <= pp /\ target \in Chain
        BY <1>9, TypeFacts, ZenonT(60) DEF Moves, Moved, ListInv, ListedTo
    <3>2. QED
        BY <3>1, ChainAssumption DEF Firsts, Chain
  <2>2. target \in Int /\ \A i \in Range(points') : i \in Int
    <3>1. Range(points') = Firsts(syncerPoint) /\ target \in Chain
        BY <1>9, TypeFacts, ZenonT(60) DEF Moves, Moved, ListedTo
    <3>2. QED
        BY <3>1, ChainAssumption DEF Firsts, Chain
  <2>3. QED
      BY <1>9, <2>1, <2>2 DEF IntrusiveUpdate, locals, KeepInv
<1>10. QED
    BY <1>1, <1>2, <1>3, <1>4, <1>5, <1>6, <1>7, <1>8, <1>9, ZenonT(60) DEF Next

\* Nothing above the pruning point is deleted, nor the pruning point and its anticone; a
\* catch-up moves the pruning point to where the headers are and the bodies will be.
LEMMA HeldStep ==
    ASSUME Moves, IInv, Next
    PROVE  HeldInv'
<1> SUFFICES ASSUME TypeOK, ListInv, SessionInv, HeldInv, KeepInv PROVE HeldInv'
    BY ZenonT(60) DEF IInv
<1> USE DEF Reached, NoMessage
<1>0. /\ pp \in Nat /\ sink \in Nat /\ seen \in Nat /\ syncerPoint \in Nat
      /\ message \in Nat \cup {-1} /\ Chain \subseteq Nat
      /\ points' = points => pp' = pp
      /\ \A b \in Side : MergedBy[b] \in Nat
  <2>1. points' = points => pp' = pp
      BY DEF pp
  <2>2. message \in Nat \cup {-1} /\ Chain \subseteq Nat
      BY ChainAssumption DEF TypeOK, Chain
  <2>3. QED
      BY <2>1, <2>2, TypeFacts, SideAssumption
<1>00. pp \in Range(points)
    BY DEF TypeOK, pp, Range
<1>1. CASE \/ CheckRecovery \/ ConfirmDepth \/ AdvanceUtxoSet \/ HaltUtxoSet
           \/ EndUtxoSet \/ Prepare \/ TrimTipsAndChain \/ ClearUtxoSet \/ ImportUtxoSet
           \/ SetStable \/ EndIbd
    BY <1>0, <1>1, ZenonT(60) DEF CheckRecovery, ConfirmDepth, AdvanceUtxoSet, HaltUtxoSet,
       EndUtxoSet, Prepare, TrimTipsAndChain, ClearUtxoSet, ImportUtxoSet, SetStable,
       EndIbd, disk, locals, ibd, HeldInv
<1>2. ASSUME NEW b \in Side, AddSide(b) PROVE HeldInv'
    BY <1>0, <1>2, ZenonT(60) DEF AddSide, locals, ibd, HeldInv
<1>3. CASE Extend
  <2>1. /\ headers' = headers \cup {ChainBlock(sink + 1)} /\ bodies' = bodies \cup {ChainBlock(sink + 1)}
        /\ \A b \in Side : MergedBy[b] = sink + 1 => b \in bodies
        /\ sink' = sink + 1 /\ message' = sink + 1
        /\ UNCHANGED <<points, seen, session, missing>>
      BY <1>3, ZenonT(60) DEF Extend, locals, ibd
  <2>2. /\ \A i \in Chain : Reached(i)' => Reached(i) \/ ChainBlock(i) = ChainBlock(sink + 1)
        /\ pp' = pp /\ Range(points') = Range(points)
        /\ \A b \in Side : MergedBy[b] <= sink' => MergedBy[b] <= sink \/ MergedBy[b] = sink + 1
      BY <1>0, <2>1
  <2> HIDE DEF Reached
  <2>3. QED
      BY <2>1, <2>2, ZenonT(60) DEF HeldInv
<1>4. CASE StartRecovery
  <2>1. /\ seen' = message /\ message' = NoMessage
        /\ UNCHANGED <<points, missing, sink, session, headers, bodies>>
      BY <1>4, ZenonT(60) DEF StartRecovery, disk, ibd
  <2>2. QED
      BY <1>0, <2>1 DEF HeldInv
<1>5. CASE Refused
    BY <1>0, <1>5 DEF Refused, Return, disk, ibd, HeldInv
<1>6. CASE StartAdvance
    BY <1>0, <1>6 DEF StartAdvance, disk, ibd, HeldInv
<1>7. CASE AdvancePoint
  <2>0. UNCHANGED <<headers, bodies, sink, message, session, missing>>
      BY <1>7, ZenonT(60) DEF AdvancePoint, ibd
  <2>1. CASE Return /\ UNCHANGED <<points, root>>
      BY <1>0, <2>0, <2>1 DEF Return, HeldInv
  <2>2. CASE Advanced(PointOf[seen])
    <3>1. /\ pp' \in Chain /\ pp < pp' /\ pp' < seen /\ seen' = seen
          /\ Range(points') = Firsts(pp') /\ Range(points) = Firsts(pp)
        BY <2>2, ZenonT(60) DEF Advanced, Moved, ListInv, ListedTo
    <3>2. ASSUME NEW i \in Range(points') PROVE ChainBlock(i) \in headers
      <4>1. i \in Range(points) \/ (i \in Chain /\ i >= pp /\ i <= seen)
          BY <1>0, <3>1, TypeFacts DEF Firsts
      <4>2. QED
          BY <4>1, ZenonT(60) DEF HeldInv
    <3>3. ChainBlock(pp') \in bodies
        BY <1>0, <3>1 DEF HeldInv
    <3>4. QED
        BY <1>0, <2>0, <3>1, <3>2, <3>3 DEF HeldInv
  <2>3. QED
      BY <1>7, <2>1, <2>2, ZenonT(60) DEF Moves
<1>8. ASSUME NEW b \in Block, PruneBlock(b) PROVE HeldInv'
  <2>1. /\ b \notin keep /\ b[1] < target /\ b[1] < pp /\ phase = "traverse" /\ b[1] \in Chain
        /\ target <= pp /\ target \in Chain
    <3>1. ~(b[1] >= targetRoot) /\ b \notin keep /\ phase = "traverse"
        BY <1>8, ZenonT(60) DEF PruneBlock, Prunable, InFuture, BelowRoot
    <3>2. b[1] \in Nat /\ b[1] \in Chain /\ targetRoot \in Nat /\ target \in Nat /\ targetRoot <= target /\ target <= pp
        BY <1>0, BlockFacts, TypeFacts DEF ListInv
    <3>3. QED
        BY <1>0, <3>1, <3>2, TypeFacts
  <2>2. \A i \in Chain : i >= pp => b # ChainBlock(i)
    <3>1. ASSUME NEW i \in Chain, i >= pp, b = ChainBlock(i) PROVE FALSE
      <4>1. b[1] = i
          BY <3>1, BlockFacts, ZenonT(60)
      <4>2. QED
          BY <1>0, <2>1, <3>1, <4>1
    <3>2. QED
        BY <3>1, ZenonT(60)
  <2>3. \A i \in Range(points) : b = ChainBlock(i) => b \in keepHeaders
    <3>1. ASSUME NEW i \in Range(points), b = ChainBlock(i) PROVE i < target
      <4>1. i \in Chain
          BY DEF TypeOK, Range
      <4>2. QED
          BY <2>1, <3>1, <4>1, BlockFacts
    <3>2. QED
        BY <2>1, <3>1, ZenonT(60) DEF KeepInv, Deleting
  <2>4. \A c \in Side : MergedBy[c] > pp /\ MergedBy[c] <= sink => c # b
    <3>1. ASSUME b \in Side, MergedBy[b] > pp, MergedBy[b] <= sink PROVE FALSE
      <4>1. MergedBy[b] > target /\ MergedBy[b] <= Top
          BY <1>0, <2>1, <3>1, TypeFacts
      <4>2. b \in Anticone(target, Top)
          BY <2>1, <3>1, <4>1, ZenonT(60) DEF Anticone
      <4>3. QED
          BY <2>1, <4>2, ZenonT(60) DEF KeepInv, Deleting
    <3>2. QED
        BY <3>1, ZenonT(60)
  <2>5. /\ bodies' = bodies \ {b} /\ headers' = IF b \in keepHeaders THEN headers ELSE headers \ {b}
        /\ UNCHANGED <<points, sink, message, seen, session, missing>>
      BY <1>8, ZenonT(60) DEF PruneBlock, locals, ibd
  <2>6. QED
      BY <1>0, <2>2, <2>3, <2>4, <2>5, TypeFacts DEF HeldInv
<1>9. CASE EndPrune
  <2>1. /\ seen' \in {seen, 0}
        /\ UNCHANGED <<points, missing, sink, message, session, headers, bodies>>
      BY <1>9, ZenonT(60) DEF EndPrune, Return, ibd
  <2>2. QED
      BY <1>0, <2>1 DEF HeldInv
<1>10. CASE Panic
  <2>1. /\ seen' = 0 /\ message' = NoMessage /\ session' = "none"
        /\ UNCHANGED <<points, missing, sink, headers, bodies>>
      BY <1>10, ZenonT(60) DEF Panic, Restart, Return, disk
  <2>2. QED
      BY <1>0, <2>1 DEF HeldInv
<1>11. CASE Crash
  <2>1. /\ seen' = 0 /\ message' = NoMessage /\ session' = "none"
        /\ UNCHANGED <<points, missing, sink, headers, bodies>>
      BY <1>11, ZenonT(60) DEF Crash, Restart, Return, disk
  <2>2. QED
      BY <1>0, <2>1 DEF HeldInv
<1>12. CASE SyncHeaders
    BY <1>0, <1>12 DEF SyncHeaders, locals, ibd, SyncedHeaders, HeldInv
<1>13. ASSUME NEW p \in Chain, StartCatchUp(p) PROVE HeldInv'
  <2>1. /\ headers \subseteq headers' /\ \A i \in Chain : i >= pp => ChainBlock(i) \in headers'
        /\ session' = "headers" /\ UNCHANGED <<points, sink, message, seen, bodies, missing>>
    <3>1. headers' = headers \cup {b \in Block : b[1] >= pp /\ (b[2] # 0 => MergedBy[b] <= Top)}
        BY <1>13, ZenonT(60) DEF StartCatchUp, SyncedHeaders
    <3>2. \A i \in Chain : i >= pp => ChainBlock(i) \in headers'
        BY <3>1, BlockFacts
    <3>3. QED
        BY <1>13, <3>1, <3>2, ZenonT(60) DEF StartCatchUp, locals
  <2>2. QED
      BY <1>0, <2>1 DEF HeldInv
<1>14. CASE Resume
    BY <1>0, <1>14 DEF Resume, disk, locals, HeldInv
<1>15. CASE IntrusiveUpdate
  <2>1. /\ pp' = syncerPoint /\ pp < syncerPoint /\ syncerPoint \in Chain
        /\ Range(points') = Firsts(syncerPoint) /\ Range(points) = Firsts(pp)
      BY <1>15, ZenonT(60) DEF Moves, Moved, ListInv, ListedTo
  <2>2. /\ session = "headers" /\ sink' = syncerPoint /\ missing' = TRUE /\ session' = "bodies"
        /\ UNCHANGED <<headers, bodies, message, seen>>
      BY <1>15, ZenonT(60) DEF IntrusiveUpdate, locals
  <2>3. ASSUME NEW i \in Range(points') PROVE ChainBlock(i) \in headers
    <3>1. i \in Range(points) \/ (i \in Chain /\ i >= pp)
        BY <1>0, <2>1, TypeFacts DEF Firsts
    <3>2. QED
        BY <2>2, <3>1, ZenonT(60) DEF HeldInv
  <2>4. QED
      BY <1>0, <2>1, <2>2, <2>3 DEF HeldInv
<1>16. CASE DownloadBodies
    BY <1>0, <1>16, ZenonT(60) DEF DownloadBodies, locals, HeldInv
<1>17. CASE ClearMissing
    BY <1>0, <1>17, ZenonT(60) DEF ClearMissing, locals, HeldInv
<1>18. CASE CopyChunk
  <2>1. /\ sink' = sink \/ (sink' = syncerPoint /\ syncerPoint <= pp)
        /\ session' \in {"copying", "stable"}
        /\ UNCHANGED <<points, message, seen, headers, bodies, missing>>
      BY <1>18, ZenonT(60) DEF CopyChunk, locals, SessionInv, Intrusive, Importing
  <2>2. ChainBlock(pp) \in headers
      BY <1>00, ZenonT(60) DEF HeldInv
  <2>3. QED
      BY <1>0, <2>1, <2>2 DEF HeldInv
<1>19. QED
    BY <1>1, <1>2, <1>3, <1>4, <1>5, <1>6, <1>7, <1>8, <1>9, <1>10, <1>11, <1>12, <1>13,
       <1>14, <1>15, <1>16, <1>17, <1>18, ZenonT(60) DEF Next
=============================================================================

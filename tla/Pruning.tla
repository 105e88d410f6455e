------------------------------- MODULE Pruning -------------------------------
(***************************************************************************)
(* The pruning processor of a non-archival node, and the IBD catch-up that *)
(* moves the pruning point under it.                                       *)
(*                                                                         *)
(* The pruner has a thread of its own.  On a message from the virtual      *)
(* processor it moves the pruning point (one batch), carries the pruning   *)
(* point UTXO set there (one batch for each chain block), and deletes what *)
(* is below the retention root (one batch for each block); a crash between *)
(* any two batches is made good by the recovery on the first message after *)
(* the restart.  A catch-up of IBD overwrites the pruning point, resets    *)
(* the virtual state to it and downloads its bodies and its UTXO set.      *)
(*                                                                         *)
(* The DAG is a chain with side blocks: <<i, 0>> is chain block i, and     *)
(* <<i, j>> a block on top of it which MergedBy[<<i, j>>] merges.  The     *)
(* chain is the selected chain below the finality point, so it is fixed.   *)
(***************************************************************************)
EXTENDS PruningPoints, Sequences

CONSTANTS
    Time,           \* timestamp of each chain block
    Side, MergedBy, \* the side blocks, and the chain block that merges each
    Window,         \* how many headers below a pruning point its proof needs
    Plans           \* what a behaviour is about: the configured retention period (0 if
                    \* none), and bounds on the catch-ups of IBD and on the crashes

ASSUME SideAssumption ==
    /\ Time \in [Chain -> Int]
    /\ Side \subseteq Chain \X (Nat \ {0}) /\ MergedBy \in [Side -> Nat]
    /\ Window \in Nat
    /\ Plans \subseteq [retention : Nat, catchUps : Nat, crashes : Nat]

\* A block is merged before what it is built on is pruning-deep (the merge depth
\* bound).
ASSUME MergeAssumption ==
    \A b \in Side : MergedBy[b] <= Top =>
        b[1] < MergedBy[b] /\ Score[MergedBy[b]] - Score[b[1]] < P

ChainBlock(i) == <<i, 0>>
Block == {ChainBlock(i) : i \in Chain} \cup Side

VARIABLES
    \* in the database
    points,       \* past_pruning_points_store up to the pruning point
    root,         \* retention_period_root
    checkpoint,   \* retention_checkpoint
    position,     \* utxoset_position
    utxo,         \* the diffs in the pruning point UTXO set, in order
    stable,       \* pruning_utxoset_stable_flag
    missing,      \* body_missing_anticone is not empty
    sink,         \* selected parent of the virtual state
    virtualUtxo,  \* the diffs in the virtual UTXO set, in order
    chainLow,     \* the lowest block of selected_chain_store
    tips,         \* body_tips_store
    headers, bodies,
    diffs,        \* chain blocks with a UTXO diff
    \* of the pruner
    message,      \* the sink in the latest message, or none
    recovered,
    phase, mode,  \* where it is, and whether on behalf of the recovery
    seen,         \* the sink in the message under work
    target, targetRoot, oldCheckpoint,
    cursor,       \* the block the UTXO iterator returned last
    keep, keepHeaders,
    \* of IBD
    session, syncerPoint, catchUps,
    crashes, plan,
    panicked      \* history: an assertion of the pruner failed

disk == <<points, root, checkpoint, position, utxo, stable, missing, sink, virtualUtxo,
          chainLow, tips, headers, bodies, diffs>>
locals == <<phase, mode, seen, target, targetRoot, oldCheckpoint, cursor, keep, keepHeaders>>
ibd == <<session, syncerPoint, catchUps>>
vars == <<disk, message, recovered, locals, ibd, crashes, plan, panicked>>

NoMessage == -1
pp == points[Len(points)]
Transitional == missing \/ ~stable

-----------------------------------------------------------------------------
\* Moving the pruning point and the retention root

\* next_pruning_points from the POV of sink b
NextPoints(b) ==
    LET p == PointOf[b] IN
    IF Score[pp] + P > Score[b] \/ p <= pp THEN <<>>
    ELSE Ascending({s \in {p} \cup Samples[p] : s > pp})

\* advance_retention_period_root
NextRoot(p) ==
    IF plan.retention = 0 THEN p
    ELSE LET between == {s \in {p} \cup Samples[p] : s >= root}
         IN Max({s \in between : s = root \/ Time[s] <= Time[sink] - plan.retention})

-----------------------------------------------------------------------------
\* What a block sees

InFuture(i, b) == b[1] >= i

\* The anticone of chain block i as chain block j sees it.
Anticone(i, j) == {b \in Side : b[1] < i /\ MergedBy[b] > i /\ MergedBy[b] <= j}

\* confirm_pruning_depth_below_virtual; the virtual block is on top of the sink.
DeepBelowVirtual(i) == Score[sink] + 1 >= Score[i] + P

\* The state of the UTXO set at chain block i: the diffs of the chain up to it.
StateAt(i) == [k \in 1..i |-> k]

Init ==
    /\ points = <<0>> /\ root = 0 /\ checkpoint = 0 /\ position = 0 /\ utxo = <<>>
    /\ stable = TRUE /\ missing = FALSE /\ sink = 0 /\ chainLow = 0
    /\ virtualUtxo = <<>>
    /\ tips = {ChainBlock(0)} /\ headers = {ChainBlock(0)} /\ bodies = {ChainBlock(0)}
    /\ diffs = {0}
    /\ message = NoMessage /\ recovered = FALSE
    /\ phase = "idle" /\ mode = "advance" /\ seen = 0 /\ target = 0 /\ targetRoot = 0
    /\ oldCheckpoint = 0 /\ cursor = 0 /\ keep = {} /\ keepHeaders = {}
    /\ session = "none" /\ syncerPoint = 0 /\ catchUps = 0 /\ crashes = 0
    /\ plan \in Plans
    /\ panicked = FALSE

\* The locals after a call of the pruner has returned.
Return == /\ phase' = "idle" /\ mode' = "advance" /\ seen' = 0 /\ target' = 0
          /\ targetRoot' = 0 /\ oldCheckpoint' = 0 /\ cursor' = 0
          /\ keep' = {} /\ keepHeaders' = {}

-----------------------------------------------------------------------------
\* Blocks

\* A side block arrives on top of a block that is not below the pruning point.
AddSide(b) ==
    /\ ~Transitional
    /\ b \notin bodies /\ b[1] >= pp /\ b[1] <= sink /\ MergedBy[b] > sink
    /\ headers' = headers \cup {b} /\ bodies' = bodies \cup {b}
    /\ tips' = (tips \ {ChainBlock(b[1])}) \cup {b}
    /\ UNCHANGED <<points, root, checkpoint, position, utxo, stable, missing, sink, virtualUtxo,
                   chainLow, diffs, message, recovered, locals, ibd, crashes, plan, panicked>>

\* The next chain block arrives with the blocks it merges; the virtual processor
\* resolves to it and replaces the message in the pruner's channel.
Extend ==
    /\ ~Transitional /\ sink < Top
    /\ LET new == ChainBlock(sink + 1)
           merged == {b \in Side : MergedBy[b] = sink + 1}
       IN /\ merged \subseteq bodies
          /\ headers' = headers \cup {new} /\ bodies' = bodies \cup {new}
          /\ tips' = (tips \ (merged \cup {ChainBlock(sink)})) \cup {new}
    /\ sink' = sink + 1 /\ virtualUtxo' = Append(virtualUtxo, sink + 1)
    /\ diffs' = diffs \cup {sink + 1}
    /\ message' = sink + 1
    /\ UNCHANGED <<points, root, checkpoint, position, utxo, stable, missing, chainLow,
                   recovered, locals, ibd, crashes, plan, panicked>>

-----------------------------------------------------------------------------
\* The pruner's worker

\* The recovery first completes the UTXO set; the variant completes the pruning
\* first.
PrunesFirst == IF checkpoint # root \/ position = pp THEN "check" ELSE "confirm"
RecoversFirst == IF position = pp THEN "check" ELSE "confirm"

\* recover_pruning_workflows_if_needed reads the stores.
StartRecovery ==
    /\ phase = "idle" /\ message # NoMessage /\ ~recovered
    /\ seen' = message /\ message' = NoMessage
    /\ mode' = "recover" /\ target' = pp /\ targetRoot' = root
    /\ oldCheckpoint' = checkpoint /\ cursor' = position
    /\ phase' = RecoversFirst
    /\ UNCHANGED <<disk, recovered, keep, keepHeaders, ibd, crashes, plan, panicked>>

\* It goes on when the virtual state is deep enough and no IBD is half-way, and
\* prunes when the checkpoint says that pruning did not complete.
CheckRecovery ==
    /\ phase = "check"
    /\ IF DeepBelowVirtual(target) /\ ~Transitional
       THEN IF oldCheckpoint # targetRoot
            THEN phase' = "prepare" /\ UNCHANGED recovered
            ELSE phase' = "advance" /\ recovered' = TRUE
       ELSE phase' = "refused" /\ UNCHANGED recovered
    /\ UNCHANGED <<disk, message, mode, seen, target, targetRoot, oldCheckpoint, cursor,
                   keep, keepHeaders, ibd, crashes, plan, panicked>>

Refused ==
    /\ phase = "refused"
    /\ Return
    /\ UNCHANGED <<disk, message, recovered, ibd, crashes, plan, panicked>>

StartAdvance ==
    /\ phase = "idle" /\ message # NoMessage /\ recovered
    /\ seen' = message /\ message' = NoMessage /\ phase' = "advance"
    /\ UNCHANGED <<disk, recovered, mode, target, targetRoot, oldCheckpoint, cursor, keep,
                   keepHeaders, ibd, crashes, plan, panicked>>

\* advance_pruning_point_if_possible up to its write batch.
AdvancePoint ==
    /\ phase = "advance"
    /\ LET new == NextPoints(seen)
           last == new[Len(new)]
       IN
       IF new = <<>> THEN Return /\ UNCHANGED <<points, root>>
       ELSE /\ points' = points \o new
            /\ root' = NextRoot(last)
            /\ mode' = "advance" /\ target' = last /\ targetRoot' = NextRoot(last)
            /\ cursor' = pp
            /\ phase' = "confirm"
            /\ UNCHANGED <<seen, oldCheckpoint, keep, keepHeaders>>
    /\ UNCHANGED <<checkpoint, position, utxo, stable, missing, sink, virtualUtxo, chainLow, tips,
                   headers, bodies, diffs, message, recovered, ibd, crashes, plan, panicked>>

\* advance_pruning_utxoset
ConfirmDepth ==
    /\ phase = "confirm"
    /\ phase' = IF DeepBelowVirtual(target) THEN "utxo" ELSE "refused"
    /\ UNCHANGED <<disk, message, recovered, mode, seen, target, targetRoot, oldCheckpoint,
                   cursor, keep, keepHeaders, ibd, crashes, plan, panicked>>

\* The variant writes the position once, in the end.
PositionAtEnd(i) == IF i = target THEN i ELSE position
PositionAfter(i) == i

AdvanceUtxoSet ==
    /\ phase = "utxo" /\ cursor < target /\ ~Transitional
    /\ cursor + 1 \in diffs
    /\ cursor' = cursor + 1
    /\ utxo' = Append(utxo, cursor + 1)
    /\ position' = PositionAfter(cursor + 1)
    /\ UNCHANGED <<points, root, checkpoint, stable, missing, sink, virtualUtxo, chainLow, tips, headers,
                   bodies, diffs, message, recovered, phase, mode, seen, target, targetRoot,
                   oldCheckpoint, keep, keepHeaders, ibd, crashes, plan, panicked>>

HaltUtxoSet ==
    /\ phase = "utxo" /\ cursor < target /\ Transitional
    /\ phase' = "refused"
    /\ UNCHANGED <<disk, message, recovered, mode, seen, target, targetRoot, oldCheckpoint,
                   cursor, keep, keepHeaders, ibd, crashes, plan, panicked>>

EndUtxoSet ==
    /\ phase = "utxo" /\ cursor = target
    /\ phase' = IF mode = "recover" THEN "check" ELSE "prepare"
    /\ UNCHANGED <<disk, message, recovered, mode, seen, target, targetRoot, oldCheckpoint,
                   cursor, keep, keepHeaders, ibd, crashes, plan, panicked>>

-----------------------------------------------------------------------------
\* prune

\* What prune keeps whole: the pruning point and its anticone; the variant keeps
\* the pruning point alone.
KeepPoint(p) == {ChainBlock(p)}
KeepBlocks(p) == {ChainBlock(p)} \cup Anticone(p, sink)

\* The proof and the trusted data are built for the pruning point of the store.
Prepare ==
    /\ phase = "prepare"
    /\ pp = target /\ DeepBelowVirtual(pp)
    /\ keep' = KeepBlocks(pp)
    /\ keepHeaders' = {ChainBlock(i) : i \in Range(points) \cup
                                          {j \in Chain : j < pp /\ j >= pp - Window}}
    /\ phase' = "trim"
    /\ UNCHANGED <<disk, message, recovered, mode, seen, target, targetRoot, oldCheckpoint,
                   cursor, ibd, crashes, plan, panicked>>

\* prune holds the pruning lock for writing; a session of IBD holds it for reading
\* until it ends.
LockFree == session = "none"

\* Whether the selected chain store is pruned below the root.
InChainStore(i) == i >= chainLow /\ i <= sink
PrunesChain == targetRoot = target \/ InChainStore(targetRoot)

TrimTipsAndChain ==
    /\ phase = "trim" /\ LockFree
    /\ PrunesChain => InChainStore(targetRoot)
    /\ tips' = {b \in tips : InFuture(target, b)}
    /\ chainLow' = IF PrunesChain THEN targetRoot ELSE chainLow
    /\ phase' = "traverse"
    /\ UNCHANGED <<points, root, checkpoint, position, utxo, stable, missing, sink, virtualUtxo, headers,
                   bodies, diffs, message, recovered, mode, seen, target, targetRoot,
                   oldCheckpoint, cursor, keep, keepHeaders, ibd, crashes, plan, panicked>>

\* What is not in the future of the retention root goes; the variant prunes below
\* the pruning point.
BelowPoint == target
BelowRoot == targetRoot

\* The blocks of the traversal that still have something to delete; it follows the
\* reachability tree upwards, so siblings come in any order.
Prunable ==
    {b \in Block : /\ ~InFuture(BelowRoot, b) /\ b \notin keep
                   /\ b \in bodies \/ (b \in headers /\ b \notin keepHeaders)}

\* One block, one batch; the lock may be yielded before it.
PruneBlock(b) ==
    /\ phase = "traverse" /\ LockFree /\ b \in Prunable
    /\ bodies' = bodies \ {b}
    /\ diffs' = IF b[2] = 0 THEN diffs \ {b[1]} ELSE diffs
    /\ headers' = IF b \in keepHeaders THEN headers ELSE headers \ {b}
    /\ UNCHANGED <<points, root, checkpoint, position, utxo, stable, missing, sink, virtualUtxo, chainLow,
                   tips, message, recovered, locals, ibd, crashes, plan, panicked>>

\* The checkpoint moves only after all was deleted; the variant moves it first.
Unordered == TRUE
AllPruned == Prunable = {}

EndPrune ==
    /\ phase = "traverse" /\ LockFree /\ AllPruned
    /\ checkpoint' = targetRoot
    /\ IF mode = "recover"
       THEN /\ recovered' = TRUE /\ phase' = "advance" /\ mode' = "advance"
            /\ UNCHANGED <<seen, target, targetRoot, oldCheckpoint, cursor, keep, keepHeaders>>
       ELSE Return /\ UNCHANGED recovered
    /\ UNCHANGED <<points, root, position, utxo, stable, missing, sink, virtualUtxo, chainLow, tips,
                   headers, bodies, diffs, message, ibd, crashes, plan, panicked>>

\* The assertions of the pruner; the panic hook ends the process.
AssertionFails ==
    \/ /\ phase = "utxo" /\ cursor < target /\ ~Transitional
       /\ cursor + 1 \notin diffs
    \/ phase = "prepare" /\ ~(pp = target /\ DeepBelowVirtual(pp))
    \/ phase = "trim" /\ LockFree /\ PrunesChain /\ ~InChainStore(targetRoot)

Restart ==
    /\ Return
    /\ message' = NoMessage /\ recovered' = FALSE
    /\ session' = "none" /\ syncerPoint' = 0
    /\ UNCHANGED <<disk, catchUps, plan>>

Panic == AssertionFails /\ Restart /\ panicked' = TRUE /\ UNCHANGED crashes

Crash == crashes < plan.crashes /\ Restart /\ crashes' = crashes + 1 /\ UNCHANGED panicked

-----------------------------------------------------------------------------
\* IBD.  A session keeps the pruning lock until it ends.

SyncedHeaders == headers \cup {b \in Block : b[1] >= pp /\ (b[2] # 0 => MergedBy[b] <= Top)}

\* An earlier IBD that got no further than the headers of the syncer.
SyncHeaders ==
    /\ session = "none" /\ catchUps < plan.catchUps
    /\ headers' = SyncedHeaders
    /\ headers' # headers
    /\ UNCHANGED <<points, root, checkpoint, position, utxo, stable, missing, sink, virtualUtxo, chainLow,
                   tips, bodies, diffs, message, recovered, locals, ibd, crashes, plan, panicked>>

\* determine_ibd_type finds the syncer's pruning point p ahead of ours, and
\* pruning_point_catchup syncs the headers up to the syncer's sink, block Top.
StartCatchUp(p) ==
    /\ session = "none" /\ catchUps < plan.catchUps
    /\ p > pp /\ ChainBlock(p) \in headers
    /\ Transitional \/ ChainBlock(p) \notin bodies
    /\ headers' = SyncedHeaders
    /\ session' = "headers" /\ syncerPoint' = p /\ catchUps' = catchUps + 1
    /\ UNCHANGED <<points, root, checkpoint, position, utxo, stable, missing, sink, virtualUtxo, chainLow,
                   tips, bodies, diffs, message, recovered, locals, crashes, plan, panicked>>

\* determine_ibd_type with an aligned syncer: a catch-up that was cut off resumes.
Resume ==
    /\ session = "none" /\ Transitional
    /\ session' = IF missing THEN "bodies" ELSE "clear"
    /\ syncerPoint' = pp
    /\ UNCHANGED <<disk, message, recovered, locals, catchUps, crashes, plan, panicked>>

\* pruning_points_on_path_to_syncer_sink
PointsOnPath == {PointOf[b] : b \in (pp + 1)..Top}

\* get_and_verify_path_to_new_pruning_point
IsSafeToImport(p) ==
    /\ p > pp /\ IsSample(p, p - 1) /\ Score[Top] >= Score[p] + P
    /\ {pp, p} \subseteq PointsOnPath

\* intrusive_pruning_point_update: all of it in one batch.
IntrusiveUpdate ==
    /\ session = "headers" /\ IsSafeToImport(syncerPoint)
    /\ points' = points \o Ascending({q \in PointsOnPath : q > pp /\ q <= syncerPoint})
    /\ root' = NextRoot(syncerPoint)
    /\ sink' = syncerPoint /\ chainLow' = syncerPoint
    /\ tips' = {ChainBlock(syncerPoint)}
    /\ stable' = FALSE /\ missing' = TRUE
    /\ session' = "bodies"
    /\ UNCHANGED <<checkpoint, position, utxo, virtualUtxo, headers, bodies, diffs, message, recovered,
                   locals, syncerPoint, catchUps, crashes, plan, panicked>>

\* sync_missing_trusted_bodies, up to where it clears the list of missing bodies
DownloadBodies ==
    /\ session = "bodies"
    /\ bodies' = bodies \cup {ChainBlock(pp)} \cup Anticone(pp, Top)
    /\ tips' = tips \cup (Anticone(pp, Top) \ bodies)
    /\ session' = "anticone"
    /\ UNCHANGED <<points, root, checkpoint, position, utxo, stable, missing, sink, virtualUtxo, chainLow,
                   headers, diffs, message, recovered, locals, syncerPoint, catchUps,
                   crashes, plan, panicked>>

ClearMissing ==
    /\ session = "anticone"
    /\ missing' = FALSE /\ session' = "clear"
    /\ UNCHANGED <<points, root, checkpoint, position, utxo, stable, sink, virtualUtxo, chainLow, tips,
                   headers, bodies, diffs, message, recovered, locals, syncerPoint, catchUps,
                   crashes, plan, panicked>>

\* sync_new_utxo_set
ClearUtxoSet ==
    /\ session = "clear"
    /\ stable' = FALSE /\ utxo' = <<>> /\ session' = "import"
    /\ UNCHANGED <<points, root, checkpoint, position, missing, sink, virtualUtxo, chainLow, tips, headers,
                   bodies, diffs, message, recovered, locals, syncerPoint, catchUps, crashes, plan,
                   panicked>>

\* The set is downloaded, and import_pruning_point_utxo_set moves the position.
ImportUtxoSet ==
    /\ session = "import"
    /\ utxo' = StateAt(syncerPoint) /\ position' = syncerPoint
    /\ session' = "copy"
    /\ UNCHANGED <<points, root, checkpoint, stable, missing, sink, virtualUtxo, chainLow,
                   tips, headers, bodies, diffs, message, recovered, locals, syncerPoint,
                   catchUps, crashes, plan, panicked>>

\* It then clears the virtual UTXO set, and copies the imported one there in chunks;
\* the last of them, and the virtual state, end the import.
CopyChunk ==
    /\ session \in {"copy", "copying"}
    /\ \/ /\ session = "copy" /\ session' = "copying"
          /\ virtualUtxo' = <<>> /\ UNCHANGED sink
       \/ /\ session = "copying" /\ session' = "stable"
          /\ virtualUtxo' = utxo /\ sink' = syncerPoint
    /\ UNCHANGED <<points, root, checkpoint, position, utxo, stable, missing, chainLow, tips,
                   headers, bodies, diffs, message, recovered, locals, syncerPoint, catchUps,
                   crashes, plan, panicked>>

\* The flag is set after the import; the variant sets it after the download.
StableAfterDownload == "copy"
StableAfter == "stable"

SetStable ==
    /\ session = StableAfter
    /\ stable' = TRUE /\ session' = "sync"
    /\ UNCHANGED <<points, root, checkpoint, position, utxo, missing, sink, virtualUtxo, chainLow, tips,
                   headers, bodies, diffs, message, recovered, locals, syncerPoint, catchUps,
                   crashes, plan, panicked>>

\* The session ends, after its last step or with an error at any step.
EndIbd ==
    /\ session # "none"
    /\ session' = "none" /\ syncerPoint' = 0
    /\ UNCHANGED <<disk, message, recovered, locals, catchUps, crashes, plan, panicked>>

Next ==
    \/ \E b \in Side : AddSide(b)
    \/ Extend
    \/ StartRecovery \/ CheckRecovery \/ Refused \/ StartAdvance \/ AdvancePoint
    \/ ConfirmDepth \/ AdvanceUtxoSet \/ HaltUtxoSet \/ EndUtxoSet
    \/ Prepare \/ TrimTipsAndChain
    \/ \E b \in Block : PruneBlock(b)
    \/ EndPrune \/ Panic \/ Crash
    \/ SyncHeaders \/ \E p \in Chain : StartCatchUp(p)
    \/ Resume \/ IntrusiveUpdate \/ DownloadBodies \/ ClearMissing \/ ClearUtxoSet
    \/ ImportUtxoSet \/ CopyChunk \/ SetStable \/ EndIbd

Spec == Init /\ [][Next]_vars

-----------------------------------------------------------------------------
\* Types.  The retention root and its checkpoint are at or below the pruning point,
\* as advance_retention_period_root promises, and the chain store ends at the sink.
TypeOK ==
    /\ points \in Seq(Chain) /\ points # <<>>
    /\ root \in 0..pp /\ checkpoint \in 0..root /\ targetRoot \in 0..target
    /\ position \in Chain /\ utxo \in Seq(Chain) /\ virtualUtxo \in Seq(Chain)
    /\ sink \in Chain /\ chainLow \in 0..sink /\ diffs \subseteq Chain
    /\ tips \cup headers \cup bodies \cup keep \cup keepHeaders \subseteq Block
    /\ {stable, missing, recovered, panicked} \subseteq BOOLEAN
    /\ message \in Chain \cup {NoMessage}
    /\ {seen, target, oldCheckpoint, cursor, syncerPoint} \subseteq Chain
    /\ phase \in {"idle", "check", "confirm", "refused", "advance", "utxo", "prepare", "trim",
                  "traverse"}
    /\ mode \in {"advance", "recover"}
    /\ session \in {"none", "headers", "bodies", "anticone", "clear", "import", "copy",
                    "copying", "stable", "sync"}
    /\ catchUps \in 0..plan.catchUps /\ crashes \in 0..plan.crashes

\* Until a catch-up begins, whenever it is marked stable, the pruning point UTXO set is the state of the block
\* utxoset_position names: over any crashes, no diff is applied twice, left out or
\* applied out of order by advance_pruning_utxoset and its recovery.
UtxoSetMatchesPosition == catchUps = 0 /\ stable => utxo = StateAt(position)

\* Until a catch-up begins, history is consecutive from the retention root up to the
\* virtual, as the comment on the root in stores/pruning.rs promises: the bodies and
\* the diffs of the chain blocks from there on and the bodies of the blocks they
\* merged are held, at every step of a prune and after every crash.
HistoryIsConsecutive ==
    catchUps = 0 =>
        /\ \A i \in root..sink : ChainBlock(i) \in bodies /\ (i > root => i \in diffs)
        /\ \A b \in Side : b[1] >= root /\ MergedBy[b] <= sink => b \in bodies

\* A syncee can be served: the pruning point list is the chain of samples from genesis
\* to the pruning point, the headers of all of them are held, and (unless they are
\* still to be downloaded) the bodies of the pruning point and its anticone.
PointIsServed ==
    /\ Range(points) = {pp} \cup Samples[pp]
    /\ \A i \in 1..(Len(points) - 1) : points[i] < points[i + 1]
    /\ \A i \in Range(points) : ChainBlock(i) \in headers
    /\ ~missing => {ChainBlock(pp)} \cup Anticone(pp, sink) \subseteq bodies

\* Until a catch-up begins, a recovered pruner that waits for work has left nothing half-done, whatever
\* crashes came before: the UTXO set is at the pruning point, the checkpoint at the
\* root, and a body below the root is in the anticone of a pruning point.  That of
\* an earlier pruning point may stay until the next prune, since the recovery prunes
\* only if the root has moved.
SettledWhenIdle ==
    catchUps = 0 /\ recovered /\ phase = "idle" =>
        /\ position = pp /\ checkpoint = root
        /\ \A b \in bodies : \/ InFuture(root, b)
                            \/ \E i \in Range(points) : i >= root /\ b \in Anticone(i, sink)

\* Outside a catch-up the virtual UTXO set is the state of the sink: a node that crashed
\* while import_pruning_point_utxo_set was overwriting it takes no block before another
\* session has completed the import.
VirtualSetMatchesSink == ~Transitional => virtualUtxo = StateAt(sink)

\* Until a catch-up begins, no assertion of advance_pruning_utxoset and prune fails: diffs are there when
\* they are applied, the proof is that of the point being pruned to, the virtual
\* state is deep enough, and the root is in the selected chain store.
NoPanic == catchUps = 0 => ~panicked

\* When prune has the lock and prunes the selected chain store below the retention
\* root, the root is in that store, as its unwrap of prune_below_point asserts.
RootIsInChainStore ==
    phase = "trim" /\ LockFree /\ PrunesChain => InChainStore(targetRoot)
=============================================================================

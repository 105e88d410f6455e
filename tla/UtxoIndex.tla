----------------------------- MODULE UtxoIndex -----------------------------
(***************************************************************************)
(* The UTXO index beside the consensus it follows.  The virtual processor  *)
(* of a consensus commits a virtual state and notifies the diff; the index *)
(* processor applies one notification after the other.  When IBD replaces  *)
(* the consensus, or overrides its UTXO set, the reset handlers rebuild    *)
(* the index from the virtual UTXO set, and so does a start of the node    *)
(* that finds the index at other tips than the consensus.                  *)
(*                                                                         *)
(* A virtual state is a height: each block spends the output of the block  *)
(* two below and makes one of its own, worth its height.                   *)
(***************************************************************************)
EXTENDS ConsensusManager, Sequences, FiniteSetsExt

CONSTANTS Height,       \* bound: the highest virtual state
          Points,       \* the pruning points that peers offer, as heights
          MaxQueue,     \* bound: notifications under way
          MaxCrashes    \* bound: how often the node crashes

None == -1              \* no tips, no supply: the item is not in the store

UtxosAt(n) == {i \in 1..n : i + 1 >= n}
Added(n) == UtxosAt(n) \ UtxosAt(n - 1)
Removed(n) == UtxosAt(n - 1) \ UtxosAt(n)

Value(S) == SumSet(S)

VARIABLES
    place, vset,          \* of each consensus: its virtual state and UTXO set
    point, stable,        \* its pruning point, and the flag of the UTXO set of that
    old,                  \* the replaced consensus, while its threads still run
    queue,                \* UtxosChanged notifications not yet taken
    ibd,                  \* what IBD does to the active consensus
    tips, supply, utxos,  \* the stores of the index
    step, diff,           \* where the index is, and the notification it applies
    seen, sum, last,      \* resync: the tips it read, supply so far, last outpoint
    booted,               \* the index was opened and its handler registered
    awaiting,             \* history: a virtual UTXO set was overridden, no resync yet
    missed,               \* history: the node crashed before that resync, and none since
    raced,                \* history: notifications were under way at the last resync
    crashes

consensusVars == <<place, vset, point, stable, old>>
indexStore == <<tips, supply, utxos>>
indexLocals == <<step, diff, seen, sum, last>>
histories == <<awaiting, missed, raced>>
vars == <<managerVars, consensusVars, queue, ibd, indexStore, indexLocals, booted,
          histories, crashes>>

Init ==
    /\ ManagerInit
    /\ place = [k \in Key |-> 0] /\ vset = [k \in Key |-> {}]
    /\ point = [k \in Key |-> 0] /\ stable = [k \in Key |-> TRUE] /\ old = NoKey
    /\ queue = <<>> /\ ibd = "none"
    /\ tips = None /\ supply = None /\ utxos = {}
    /\ step = "idle" /\ diff = 0 /\ seen = 0 /\ sum = 0 /\ last = 0
    /\ booted = FALSE /\ awaiting = FALSE /\ missed = FALSE /\ raced = FALSE /\ crashes = 0

Resyncing == step \notin {"idle", "remove", "add", "supply", "tips"}

-----------------------------------------------------------------------------
\* The consensus instances

\* The end of resolve_virtual: the virtual state is committed and the diff notified. While
\* IBD brings in a UTXO set nobody sends bodies to the active consensus. A replaced one
\* ends below the point of its successor, which it has not heard of.
Resolve(k) ==
    /\ booted /\ k # NoKey /\ k \in {active, old} /\ stable[k]
    /\ place[k] < Height /\ Len(queue) < MaxQueue
    /\ IF k = old THEN place[k] + 1 < point[active] ELSE ibd = "none"
    /\ place' = [place EXCEPT ![k] = @ + 1]
    /\ vset' = [vset EXCEPT ![k] = UtxosAt(place[k] + 1)]
    /\ queue' = Append(queue, place[k] + 1)
    /\ raced' = (raced \/ Resyncing)
    /\ UNCHANGED <<managerVars, point, stable, old, ibd, indexStore, indexLocals, booted,
                   awaiting, missed, crashes>>

OldExits ==
    /\ old # NoKey /\ old' = NoKey
    /\ UNCHANGED <<managerVars, point, place, vset, stable, queue, ibd, indexStore,
                   indexLocals, booted, histories, crashes>>

\* The manager at work; a staging consensus starts with an unstable UTXO set.
ManagerAlone ==
    /\ \/ Start \/ ReadStaging \/ RemoveStagingDir \/ DeleteStagingEntry \/ CancelStaging
       \/ ListInactive \/ RemoveInactiveDir \/ DeleteInactiveEntry
       \/ OpenActive \/ CreateActive \/ SaveActive \/ Cancel
       \/ ibd = "none" /\ booted /\ NewStagingEntry
    /\ UNCHANGED <<consensusVars, queue, ibd, indexStore, indexLocals, booted,
                   histories, crashes>>

Staging ==
    /\ OpenStaging
    /\ stable' = [stable EXCEPT ![staged] = FALSE]
    /\ UNCHANGED <<point, place, vset, old, queue, ibd, indexStore, indexLocals, booted,
                   histories, crashes>>

\* apply_proof: the pruning point is the virtual parent, of an empty UTXO set.
ApplyProof ==
    /\ pc = "building" /\ place[staged] = 0
    /\ \E p \in Points :
          place' = [place EXCEPT ![staged] = p] /\ point' = [point EXCEPT ![staged] = p]
    /\ UNCHANGED <<managerVars, vset, stable, old, queue, ibd, indexStore,
                   indexLocals, booted, histories, crashes>>

\* validate_staging_timestamps has found the new consensus ahead of the current one.
CommitStaging ==
    /\ pc = "building" /\ place[staged] > place[active]
    /\ Commit /\ old' = active
    /\ UNCHANGED <<point, place, vset, stable, queue, ibd, indexStore, indexLocals, booted,
                   histories, crashes>>

-----------------------------------------------------------------------------
\* resync. It is called by the reset handlers, with the lock of the index, or when the
\* index is opened.

BeginResync ==
    /\ step' = "wipe_tips"
    /\ raced' = (queue # <<>> \/ old # NoKey)

CommitHandlers ==
    /\ pc = "handlers" /\ step = "idle" /\ ibd = "none"
    /\ BeginResync /\ ibd' = "reset"
    /\ UNCHANGED <<managerVars, consensusVars, queue, indexStore, diff, seen, sum,
                   last, booted, awaiting, missed, crashes>>

\* delete_all: tips first, so that an index that is cut off is never taken as synced.
WipeTips ==
    /\ step = "wipe_tips" /\ step' = "wipe_supply"
    /\ tips' = None /\ awaiting' = FALSE /\ missed' = FALSE
    /\ UNCHANGED <<managerVars, consensusVars, queue, ibd, supply, utxos, diff, seen,
                   sum, last, booted, raced, crashes>>
WipeSupply ==
    /\ step = "wipe_supply" /\ step' = "wipe_set"
    /\ supply' = None
    /\ UNCHANGED <<managerVars, consensusVars, queue, ibd, tips, utxos, diff, seen, sum,
                   last, booted, histories, crashes>>

\* The store is emptied, and a session of the consensus is opened.
WipeSet ==
    /\ step = "wipe_set" /\ step' = "chunk"
    /\ utxos' = {} /\ seen' = place[active] /\ sum' = 0 /\ last' = 0
    /\ UNCHANGED <<managerVars, consensusVars, queue, ibd, tips, supply, diff, booted,
                   histories, crashes>>

\* A chunk of one entry, the first behind the last one, of the set as it is now.
CopyEntry ==
    /\ step = "chunk"
    /\ LET rest == {i \in vset[active] : i > last} IN
       IF rest = {} THEN step' = "sum" /\ UNCHANGED <<utxos, sum, last>>
       ELSE LET i == Min(rest) IN
            utxos' = utxos \cup {i} /\ sum' = sum + i /\ last' = i /\ UNCHANGED step
    /\ UNCHANGED <<managerVars, consensusVars, queue, ibd, tips, supply, diff, seen,
                   booted, histories, crashes>>
InsertSupply ==
    /\ step = "sum" /\ step' = "set_tips" /\ supply' = sum
    /\ UNCHANGED <<managerVars, consensusVars, queue, ibd, tips, utxos, diff, seen, sum,
                   last, booted, histories, crashes>>

\* The tips are written last. Who called resync goes on: the commit, IBD or the start.
ResyncDone ==
    /\ step = "set_tips" /\ step' = "idle" /\ tips' = seen /\ booted' = TRUE
    /\ IF pc = "handlers" THEN HandlersDone ELSE UNCHANGED managerVars
    /\ ibd' = "none"
    /\ UNCHANGED <<consensusVars, queue, supply, utxos, diff, seen, sum, last,
                   histories, crashes>>

\* is_synced: the index has tips, and they are those of the virtual state. The variant
\* is content with any tips.
AnyTips == tips # None
IsSynced == tips = place[active]

\* UtxoIndex::new
OpenIndex ==
    /\ pc = "up" /\ ~booted /\ step = "idle"
    /\ IF IsSynced THEN booted' = TRUE /\ UNCHANGED <<step, raced>>
       ELSE BeginResync /\ UNCHANGED booted
    /\ UNCHANGED <<managerVars, consensusVars, queue, ibd, indexStore, diff, seen, sum,
                   last, awaiting, missed, crashes>>

-----------------------------------------------------------------------------
\* update, for a notification of the queue: removals, additions, supply, tips.

\* The write that follows a write; the variant writes the tips before the supply.
AfterTipsFirst == [remove |-> "add", add |-> "tips", tips |-> "supply", supply |-> "idle"]
After == [remove |-> "add", add |-> "supply", supply |-> "tips", tips |-> "idle"]

TakeNotification ==
    /\ booted /\ step = "idle" /\ queue # <<>>
    /\ diff' = Head(queue) /\ queue' = Tail(queue) /\ step' = "remove"
    /\ UNCHANGED <<managerVars, consensusVars, ibd, indexStore, seen, sum, last, booted,
                   histories, crashes>>

\* The supply is a u64 and saturates.
NewSupply(n) == LET s == supply + Value(Added(n)) - Value(Removed(n)) IN IF s < 0 THEN 0 ELSE s

UpdateStep ==
    /\ step \in DOMAIN After /\ step' = After[step]
    /\ utxos' = CASE step = "remove" -> utxos \ Removed(diff)
                  [] step = "add" -> utxos \cup Added(diff)
                  [] OTHER -> utxos
    /\ supply' = IF step = "supply" THEN NewSupply(diff) ELSE supply
    /\ tips' = IF step = "tips" THEN diff ELSE tips
    /\ UNCHANGED <<managerVars, consensusVars, queue, ibd, diff, seen, sum, last, booted,
                   histories, crashes>>

-----------------------------------------------------------------------------
\* IBD on the active consensus: sync_new_utxo_set.

\* The UTXO set of the pruning point is not stable, or a catch-up moved the point. The
\* old set is cleared and the new one downloaded.
Download ==
    /\ pc = "up" /\ booted /\ ibd = "none"
    /\ \/ ~stable[active] /\ UNCHANGED point
       \/ stable[active] /\ \E p \in Points :
                p > place[active] /\ point' = [point EXCEPT ![active] = p]
    /\ stable' = [stable EXCEPT ![active] = FALSE] /\ ibd' = "downloaded"
    /\ UNCHANGED <<managerVars, place, vset, old, queue, indexStore, indexLocals, booted,
                   histories, crashes>>

\* import_pruning_point_utxo_set: clear and copy the virtual UTXO set, then commit the
\* virtual state. No notification is sent.
ClearVirtual ==
    /\ ibd = "downloaded" /\ ibd' = "copying"
    /\ vset' = [vset EXCEPT ![active] = {}] /\ awaiting' = TRUE
    /\ UNCHANGED <<managerVars, point, place, stable, old, queue, indexStore, indexLocals,
                   booted, missed, raced, crashes>>
CopyVirtual ==
    /\ ibd = "copying" /\ ibd' = "copied"
    /\ vset' = [vset EXCEPT ![active] = UtxosAt(point[active])]
    /\ UNCHANGED <<managerVars, point, place, stable, old, queue, indexStore, indexLocals,
                   booted, histories, crashes>>
CommitVirtual ==
    /\ ibd = "copied" /\ ibd' = "imported"
    /\ place' = [place EXCEPT ![active] = point[active]]
    /\ UNCHANGED <<managerVars, point, vset, stable, old, queue, indexStore, indexLocals,
                   booted, histories, crashes>>

\* async_set_pruning_utxoset_stable
SetStable ==
    /\ ibd = "imported" /\ ibd' = "stable"
    /\ stable' = [stable EXCEPT ![active] = TRUE]
    /\ UNCHANGED <<managerVars, point, place, vset, old, queue, indexStore, indexLocals,
                   booted, histories, crashes>>

\* invoke_consensus_reset_handlers, once the index lock is free.
ImportHandlers ==
    /\ ibd = "stable" /\ step = "idle"
    /\ BeginResync /\ ibd' = "reset"
    /\ UNCHANGED <<managerVars, consensusVars, queue, indexStore, diff, seen, sum,
                   last, booted, awaiting, missed, crashes>>

\* The peer fails or lies: IBD ends, and the flag stays down until another succeeds.
ImportFails ==
    /\ ibd \in {"downloaded", "copied"} /\ ibd' = "none"
    /\ UNCHANGED <<managerVars, consensusVars, queue, indexStore, indexLocals,
                   booted, histories, crashes>>

Crash ==
    /\ crashes < MaxCrashes /\ crashes' = crashes + 1
    /\ CrashManager
    /\ old' = NoKey /\ queue' = <<>> /\ ibd' = "none" /\ booted' = FALSE
    /\ step' = "idle" /\ diff' = 0 /\ seen' = 0 /\ sum' = 0 /\ last' = 0
    /\ missed' = (missed \/ awaiting)
    /\ UNCHANGED <<place, vset, point, stable, indexStore, awaiting, raced>>

-----------------------------------------------------------------------------
Resync == WipeTips \/ WipeSupply \/ WipeSet \/ CopyEntry \/ InsertSupply \/ ResyncDone
Index == OpenIndex \/ TakeNotification \/ UpdateStep \/ Resync
Import == Download \/ ClearVirtual \/ CopyVirtual \/ CommitVirtual \/ SetStable
              \/ ImportHandlers \/ ImportFails
Manager == ManagerAlone \/ Staging \/ ApplyProof \/ CommitStaging \/ CommitHandlers

Next == Manager \/ Index \/ Import \/ (\E k \in Key : Resolve(k)) \/ OldExits \/ Crash

Spec == Init /\ [][Next]_vars

\* The index processor and the thread that opens the node are never starved; an IBD
\* under way goes on to its handlers.
FairSpec == Spec /\ WF_vars(Index) /\ WF_vars(Manager)
                 /\ WF_vars(SetStable \/ ImportHandlers)

-----------------------------------------------------------------------------
Follows == utxos = vset[active] /\ supply = Value(vset[active])

\* An index whose tips are those of the virtual state of the current consensus has its
\* UTXO set and its supply: in every state, so wherever a crash stops an update or a
\* resync, is_synced is right at the next start. Excepted are an index that was resynced
\* while notifications were under way, of which resync warns, and the time from the
\* override of a virtual UTXO set to the resync that follows.
SyncedMeansEqual ==
    meta.current # NoKey /\ tips = place[meta.current] /\ ~awaiting /\ ~raced =>
        utxos = vset[meta.current] /\ supply = Value(vset[meta.current])

\* What sync_new_utxo_set says of itself: "once a new utxoset is stored, the utxoindex
\* needs to be resynced as well. This happens through the reset handler mechanism". So
\* while nothing is under way, an index follows the virtual state of a stable UTXO set.
StableSetIsIndexed ==
    /\ pc = "up" /\ booted /\ step = "idle" /\ queue = <<>>
    /\ old = NoKey /\ ibd = "none" /\ stable[active] /\ ~raced
    => Follows

\* Once bodies and peers rest, the index of a running node has what the virtual state
\* has, whatever was notified or cut off before, after a failed import as soon as
\* another one has made the UTXO set stable. Excepted are an index that was resynced
\* while notifications were under way, and one that is_synced took as right after a
\* crash between the override of a virtual UTXO set and the resync that should follow.
IndexCatchesUp ==
    <>[](booted /\ stable[active] /\ ~missed /\ ~raced => tips = place[active] /\ Follows)
=============================================================================

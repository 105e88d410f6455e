-------------------------- MODULE ConsensusManager --------------------------
(***************************************************************************)
(* The consensus manager and its factory.  Every consensus has a key, a    *)
(* directory of its own and an entry in the management store, whose        *)
(* metadata names the current one and the staging one.  IBD with a headers *)
(* proof builds a staging consensus beside the current one and commits or  *)
(* cancels it; what is not current is deleted then, and at every start.    *)
(*                                                                         *)
(* An action is one write to the management store or one operation on the  *)
(* file system, so that the node may crash between any two of them.        *)
(***************************************************************************)
EXTENDS Integers, FiniteSets

CONSTANT MaxKey          \* bound: how many consensus instances are created

ASSUME MaxKeyAssumption == MaxKey \in Nat

Key == 1..MaxKey
NoKey == 0

VARIABLES
    archival,     \* is_archival of the configuration: inactive entries are kept
    meta,         \* MultiConsensusMetadata: the keys current, staging and max
    entries,      \* the keys with a ConsensusEntry
    dirs,         \* the directory of each key: "none", "part" or "whole"
    active,       \* in memory: the consensus of the manager
    staged,       \* in memory: the staging consensus
    pc, then,     \* what the manager does, and on behalf of what
    todo, done,   \* inactive entries to look at, and those whose directory is gone
    reused,       \* history: a consensus was built on a leftover directory
    stuck         \* history: a start of the node panicked

store == <<meta, entries, dirs>>
memory == <<active, staged, pc, then, todo, done>>
managerVars == <<archival, store, memory, reused, stuck>>

ManagerInit ==
    /\ archival \in BOOLEAN
    /\ meta = [current |-> NoKey, staging |-> NoKey, max |-> 0]
    /\ entries = {} /\ dirs = [k \in Key |-> "none"]
    /\ active = NoKey /\ staged = NoKey
    /\ pc = "down" /\ then = "boot" /\ todo = {} /\ done = {}
    /\ reused = FALSE /\ stuck = FALSE

Goto(p) == pc' = p

-----------------------------------------------------------------------------
\* delete_staging_entry, in the steps it writes in.

Start ==
    /\ pc = "down" /\ Goto("staging") /\ then' = "boot"
    /\ UNCHANGED <<archival, store, active, staged, todo, done, reused, stuck>>

\* staging_consensus_entry unwraps the entry of the staging key.
ReadStaging ==
    /\ pc = "staging"
    /\ IF meta.staging = NoKey
       THEN Goto(IF then = "cancel" THEN "up" ELSE "inactive") /\ UNCHANGED stuck
       ELSE IF meta.staging \in entries THEN Goto("staging_dir") /\ UNCHANGED stuck
       ELSE Goto("down") /\ stuck' = TRUE
    /\ UNCHANGED <<archival, store, active, staged, then, todo, done, reused>>

\* remove_dir_all may fail, half-way or at once, and fails if there is no directory.
RemoveStagingDir ==
    /\ pc = "staging_dir"
    /\ \/ /\ dirs[meta.staging] # "none"
          /\ dirs' = [dirs EXCEPT ![meta.staging] = "none"] /\ Goto("staging_entry")
       \/ /\ dirs' = [dirs EXCEPT ![meta.staging] = IF @ = "none" THEN @ ELSE "part"]
          /\ Goto("unstage")
    /\ UNCHANGED <<archival, meta, entries, active, staged, then, todo, done, reused, stuck>>

DeleteStagingEntry ==
    /\ pc = "staging_entry"
    /\ entries' = entries \ {meta.staging} /\ Goto("unstage")
    /\ UNCHANGED <<archival, meta, dirs, active, staged, then, todo, done, reused, stuck>>

CancelStaging ==
    /\ pc = "unstage"
    /\ meta' = [meta EXCEPT !.staging = NoKey]
    /\ Goto(IF then = "cancel" THEN "up" ELSE "inactive")
    /\ UNCHANGED <<archival, entries, dirs, active, staged, then, todo, done, reused, stuck>>

-----------------------------------------------------------------------------
\* delete_inactive_consensus_entries

\* iterate_inactive_entries; the variant compares with the staging key.
NotStaging == {k \in entries : k # meta.staging}
Inactive == {k \in entries : k # meta.current}

Finish == Goto(IF then = "boot" THEN "open" ELSE "up")

ListInactive ==
    /\ pc = "inactive"
    /\ IF archival THEN Finish /\ UNCHANGED <<todo, done>>
       ELSE Goto("sweep") /\ todo' = Inactive /\ done' = {}
    /\ UNCHANGED <<archival, store, active, staged, then, reused, stuck>>

RemoveInactiveDir ==
    /\ pc = "sweep"
    /\ \E k \in todo :
          /\ todo' = todo \ {k}
          /\ \/ dirs' = [dirs EXCEPT ![k] = "none"] /\ done' = done \cup {k}
             \/ dirs[k] # "none" /\ dirs' = [dirs EXCEPT ![k] = "part"] /\ UNCHANGED done
    /\ UNCHANGED <<archival, meta, entries, active, staged, pc, then, reused, stuck>>

DeleteInactiveEntry ==
    /\ pc = "sweep" /\ todo = {}
    /\ IF done = {} THEN Finish /\ UNCHANGED <<entries, done>>
       ELSE \E k \in done : entries' = entries \ {k} /\ done' = done \ {k} /\ UNCHANGED pc
    /\ UNCHANGED <<archival, meta, dirs, active, staged, then, todo, reused, stuck>>

-----------------------------------------------------------------------------
\* new_active_consensus: an existing one is opened. For a new one a slot is captured,
\* and its entry is written only once the instance is there.

\* The slot of the next consensus; the variant does not capture it.
KeepSlot == meta
CaptureSlot == [meta EXCEPT !.max = @ + 1]

OpenActive ==
    /\ pc = "open"
    /\ IF meta.current # NoKey
       THEN active' = meta.current /\ Goto("up") /\ UNCHANGED meta
       ELSE /\ meta.max < MaxKey /\ meta' = CaptureSlot
            /\ active' = meta.max + 1 /\ Goto("create")
    /\ UNCHANGED <<archival, entries, dirs, staged, then, todo, done, reused, stuck>>

CreateActive ==
    /\ pc = "create"
    /\ dirs' = [dirs EXCEPT ![active] = "whole"] /\ Goto("save")
    /\ reused' = (reused \/ dirs[active] # "none")
    /\ UNCHANGED <<archival, meta, entries, active, staged, then, todo, done, stuck>>

SaveActive ==
    /\ pc = "save"
    /\ entries' = entries \cup {active} /\ meta' = [meta EXCEPT !.current = active]
    /\ Goto("up")
    /\ UNCHANGED <<archival, dirs, active, staged, then, todo, done, reused, stuck>>

-----------------------------------------------------------------------------
\* Staging

NewStagingEntry ==
    /\ pc = "up" /\ staged = NoKey /\ meta.max < MaxKey
    /\ meta' = [meta EXCEPT !.max = @ + 1, !.staging = meta.max + 1]
    /\ entries' = entries \cup {meta.max + 1}
    /\ staged' = meta.max + 1 /\ Goto("stage")
    /\ UNCHANGED <<archival, dirs, active, then, todo, done, reused, stuck>>

OpenStaging ==
    /\ pc = "stage"
    /\ dirs' = [dirs EXCEPT ![staged] = "whole"] /\ Goto("building")
    /\ reused' = (reused \/ dirs[staged] # "none")
    /\ UNCHANGED <<archival, meta, entries, active, staged, then, todo, done, stuck>>

\* StagingConsensus::cancel
Cancel ==
    /\ pc = "building" /\ Goto("staging") /\ then' = "cancel" /\ staged' = NoKey
    /\ UNCHANGED <<archival, store, active, todo, done, reused, stuck>>

\* StagingConsensus::commit up to the release of the lock; the old one is told to stop.
\* The deletion of what is inactive now follows the reset handlers.
Commit ==
    /\ pc = "building"
    /\ meta' = [meta EXCEPT !.current = meta.staging, !.staging = NoKey]
    /\ active' = staged /\ staged' = NoKey /\ Goto("handlers") /\ then' = "commit"
    /\ UNCHANGED <<archival, entries, dirs, todo, done, reused, stuck>>

HandlersDone ==
    /\ pc = "handlers" /\ Goto("staging")
    /\ UNCHANGED <<archival, store, active, staged, then, todo, done, reused, stuck>>

CrashManager ==
    /\ pc # "down" /\ Goto("down")
    /\ active' = NoKey /\ staged' = NoKey /\ then' = "boot" /\ todo' = {} /\ done' = {}
    /\ UNCHANGED <<archival, store, reused, stuck>>

\* The manager by itself; UtxoIndex composes these steps with what a consensus does.
ManagerNext ==
    \/ Start \/ ReadStaging \/ RemoveStagingDir \/ DeleteStagingEntry \/ CancelStaging
    \/ ListInactive \/ RemoveInactiveDir \/ DeleteInactiveEntry
    \/ OpenActive \/ CreateActive \/ SaveActive
    \/ NewStagingEntry \/ OpenStaging \/ Cancel \/ Commit \/ HandlersDone \/ CrashManager

ManagerSpec == ManagerInit /\ [][ManagerNext]_managerVars

-----------------------------------------------------------------------------
\* The consensus the metadata calls current has its entry and all of its directory,
\* wherever a commit, a cancellation or a start of the node is cut off: deletion of
\* inactive and staging entries never reaches it.
CurrentIsWhole == meta.current # NoKey => meta.current \in entries /\ dirs[meta.current] = "whole"

\* max_key_used is written before a directory is made, so no consensus is ever built on
\* what an earlier one left behind, even if that one crashed before it was saved or its
\* directory could not be removed.
NoDirectoryIsReused == ~reused

\* The unwrap in staging_consensus_entry expects that the staging key has an entry.
StagingHasEntry == meta.staging # NoKey => meta.staging \in entries
=============================================================================

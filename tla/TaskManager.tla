---------------------------- MODULE TaskManager ----------------------------
(***************************************************************************)
(* The dependency manager of one block-processing stage, together with the *)
(* two kinds of threads that drive it:                                     *)
(*                                                                         *)
(*   - the stage's worker thread, which receives messages from the stage's *)
(*     channel, registers the tasks, and on Exit waits for idleness and    *)
(*     passes Exit on to the following stage;                              *)
(*   - the closures of the rayon pool (queue_block), each of which calls   *)
(*     try_begin, processes its block, and calls end.                      *)
(*                                                                         *)
(* Every step here is one critical section of the mutex around `pending',  *)
(* one receive, or one wake-up.  The header stage and the body stage are   *)
(* two instances of this module; what processing a block does, and where   *)
(* the callback of `end' sends the task, is for the composing module       *)
(* (BlockPipeline) to say.                                                 *)
(*                                                                         *)
(* A task is named by its position in the history of the stage's channel.  *)
(***************************************************************************)
EXTENDS Naturals, Sequences, FiniteSets

CONSTANTS Block,        \* block hashes
          Parents,      \* header.direct_parents() of each block
          ExitMsg       \* BlockProcessingMessage::Exit

ASSUME ParentsAssumption == Parents \in [Block -> SUBSET Block]

\* Hashes commit to the parents, so a set of blocks has a member with no
\* parent in the set.
ASSUME AcyclicAssumption ==
    \A S \in SUBSET Block : S # {} => \E b \in S : Parents[b] \cap S = {}

ASSUME ExitAssumption == ExitMsg \notin Block

VARIABLES
    sent,      \* everything ever sent to the stage's channel, oldest first
    recv,      \* how many of these messages the worker has received
    worker,    \* where the worker thread is
    queue,     \* pending[b].tasks; <<>> when `pending' has no entry for b
    taken,     \* blocks whose front task try_begin has taken (task is None)
    deps,      \* pending[b].dependent_tasks
    spawned,   \* queue_block(b) closures waiting in the pool
    done       \* tasks that went through `end'

vars == <<sent, recv, worker, queue, taken, deps, spawned, done>>

Pending == {b \in Block : queue[b] # <<>>}

\* How often closure b is spawned by the loop over a list of hashes.
Occurrences(hashes, b) == Cardinality({i \in DOMAIN hashes : hashes[i] = b})

\* Types of the manager's map of task groups, its queues and its worker's state.
TypeOK ==
    /\ sent \in Seq(Block \cup {ExitMsg})
    /\ recv \in 0..Len(sent)
    /\ worker \in {"receiving", "draining", "parked", "woken", "exited"}
    /\ queue \in [Block -> Seq(Nat)]
    /\ taken \subseteq Block
    /\ deps \in [Block -> Seq(Block)]
    /\ spawned \in [Block -> Nat]
    /\ done \subseteq Nat

Init ==
    /\ sent = <<>>
    /\ recv = 0
    /\ worker = "receiving"
    /\ queue = [b \in Block |-> <<>>]
    /\ taken = {}
    /\ deps = [b \in Block |-> <<>>]
    /\ spawned = [b \in Block |-> 0]
    /\ done = {}

-----------------------------------------------------------------------------
\* The channel and the worker thread

Send(msg) == sent' = Append(sent, msg)

\* push_back on the queue of a group; the variant queues at the front.
PushFront(tasks, t) == <<t>> \o tasks
PushBack(tasks, t) == Append(tasks, t)

\* register returns Some(hash), and the worker spawns a closure, only for a
\* hash that has no group yet.
OpensGroup(b) == queue[b] = <<>>

\* The worker receives a task and registers it.
Register ==
    /\ worker = "receiving"
    /\ recv < Len(sent)
    /\ sent[recv + 1] # ExitMsg
    /\ LET b == sent[recv + 1] IN
       /\ queue' = [queue EXCEPT ![b] = PushBack(@, recv + 1)]
       /\ spawned' = IF OpensGroup(b) THEN [spawned EXCEPT ![b] = @ + 1] ELSE spawned
    /\ recv' = recv + 1
    /\ UNCHANGED <<worker, taken, deps, done>>

\* The worker receives Exit and leaves its loop.
ReceiveExit ==
    /\ worker = "receiving"
    /\ recv < Len(sent)
    /\ sent[recv + 1] = ExitMsg
    /\ recv' = recv + 1
    /\ worker' = "draining"
    /\ UNCHANGED <<queue, taken, deps, spawned, done>>

\* wait_for_idle waits on the condition variable if the map is not empty (an
\* `if', not a loop); the variant waits without looking at the map.
ParksAlways == TRUE
Parks == Pending # {}

WaitForIdle ==
    /\ worker = "draining"
    /\ worker' = IF Parks THEN "parked" ELSE "woken"
    /\ UNCHANGED <<recv, queue, taken, deps, spawned, done>>

\* The worker passes Exit on to the following stage and its thread ends.
PassExit ==
    /\ worker = "woken"
    /\ worker' = "exited"
    /\ UNCHANGED <<recv, queue, taken, deps, spawned, done>>

-----------------------------------------------------------------------------
\* The closures of the pool

\* The direct parents that try_begin finds in the map; the variant does not
\* look them up.
NoParents(b) == {}
PendingParents(b) == Parents[b] \cap Pending

\* try_begin finds a pending direct parent: b joins the dependents of the first
\* one in the header's order (any order) and the closure ends.
TryBeginDefer(b) ==
    /\ spawned[b] > 0
    /\ spawned' = [spawned EXCEPT ![b] = @ - 1]
    /\ \E p \in PendingParents(b) : deps' = [deps EXCEPT ![p] = Append(@, b)]
    /\ UNCHANGED <<recv, worker, queue, taken, done>>

\* try_begin takes the front task; the closure goes on to process it.
TryBeginTake(b) ==
    /\ spawned[b] > 0
    /\ PendingParents(b) = {}
    /\ spawned' = [spawned EXCEPT ![b] = @ - 1]
    /\ taken' = taken \cup {b}
    /\ UNCHANGED <<recv, worker, queue, deps, done>>

\* The task that end pops and reports.
Ended(b) == {Head(queue[b])}

\* end empties the group and removes it.
LastTask(b) == Tail(queue[b]) = <<>>

\* What end returns to be spawned: the dependents of the group it removes, else
\* the same hash.  The variants forget one or the other.
NextTasksNoDependents(b) == IF LastTask(b) THEN <<>> ELSE <<b>>
NextTasksNoRequeue(b) == IF LastTask(b) THEN deps[b] ELSE <<>>
NextTasks(b) == IF LastTask(b) THEN deps[b] ELSE <<b>>

\* end signals idleness when it leaves the map empty; the variant signals after
\* every task.
SignalsAlways(b) == TRUE
SignalsIdle(b) == LastTask(b) /\ Pending = {b}

End(b) ==
    /\ b \in taken
    /\ queue' = [queue EXCEPT ![b] = Tail(@)]
    /\ taken' = taken \ {b}
    /\ done' = done \cup Ended(b)
    /\ deps' = IF LastTask(b) THEN [deps EXCEPT ![b] = <<>>] ELSE deps
    /\ spawned' = [c \in Block |-> spawned[c] + Occurrences(NextTasks(b), c)]
    /\ worker' = IF worker = "parked" /\ SignalsIdle(b) THEN "woken" ELSE worker
    /\ UNCHANGED recv

-----------------------------------------------------------------------------
\* The stage on its own: any message may be sent to it at any time.

WorkerStep == (Register \/ ReceiveExit \/ WaitForIdle \/ PassExit) /\ UNCHANGED sent

ClosureStep(b) == (TryBeginDefer(b) \/ TryBeginTake(b) \/ End(b)) /\ UNCHANGED sent

Submit ==
    /\ \E msg \in Block \cup {ExitMsg} : Send(msg)
    /\ UNCHANGED <<recv, worker, queue, taken, deps, spawned, done>>

Next == Submit \/ WorkerStep \/ \E b \in Block : ClosureStep(b)

Spec == Init /\ [][Next]_vars

-----------------------------------------------------------------------------
\* Properties

\* Where closure b of a pending group is: in the dependents of some group.
Waits(b) == \E p \in Block : \E i \in DOMAIN deps[p] : deps[p][i] = b

\* No hash is in two lists of dependents, or in one list twice.
DepsDistinct ==
    \A p, q \in Block : \A i \in DOMAIN deps[p], j \in DOMAIN deps[q] :
        deps[p][i] = deps[q][j] => p = q /\ i = j

\* The expectations in the code never fail: the closure that calls try_begin
\* finds a group, a front task, and that task not yet taken ("try_begin expects
\* a task group", "try_begin expects a task", "task is expected to not be
\* taken"), and end finds the entry and the task try_begin left there.
ExpectsHold ==
    \A b \in Block : /\ spawned[b] > 0 => queue[b] # <<>> /\ b \notin taken
                     /\ b \in taken => queue[b] # <<>>

\* Every pending group has exactly one owner: one closure in the pool, one
\* closure processing its front task, or one entry in the dependents of one
\* pending parent.  A group with none is never processed again, a group with
\* two is processed by two threads at once.
OneOwner ==
    /\ \A b \in Block : spawned[b] \in {0, 1}
    /\ \A b \in Block : queue[b] # <<>> <=> (spawned[b] = 1 \/ b \in taken \/ Waits(b))
    /\ \A b \in Block : ~(spawned[b] = 1 /\ b \in taken)
    /\ \A b \in Block : Waits(b) => spawned[b] = 0 /\ b \notin taken
    /\ DepsDistinct

\* A block is processed only when every task of every direct parent that was
\* received before its own task has ended: blocks sent to the channel parents
\* first are processed parents first, whatever the pool does.
ParentsFirst ==
    \A b \in Block : b \in taken =>
        \A u \in 1..Head(queue[b]) : sent[u] \in Parents[b] => u \in done

\* Tasks of one hash end in the order in which they were sent.
SameHashInOrder ==
    \A i \in done : \A j \in 1..i : sent[j] = sent[i] => j \in done

\* While a group is pending some closure can run: no set of groups waits for
\* one another.
NeverStuck == Pending # {} => \E b \in Block : spawned[b] > 0 \/ b \in taken

\* wait_for_idle returns, and Exit is passed on, only when every task received
\* before Exit has ended: nothing follows Exit into the next stage.
IdleAtExit ==
    worker \in {"woken", "exited"} =>
        /\ \A b \in Block : queue[b] = <<>> /\ b \notin taken /\ spawned[b] = 0
        /\ \A i \in 1..recv : sent[i] \in Block => i \in done

\* No task ends twice: the task that end pops was received, carries the hash of
\* its group and has not ended before, and what has ended stays ended.
EndsOnce ==
    [][/\ done \subseteq done'
       /\ \A b \in Block : End(b) =>
             Head(queue[b]) \in (1..recv) \ done /\ sent[Head(queue[b])] = b]_vars

=============================================================================

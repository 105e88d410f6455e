---------------------------- MODULE BlockRelay ----------------------------
(***************************************************************************)
(* Block relay: the flow that handles a peer's block announcements         *)
(* (v7/blockrelay/flow.rs), the pool of blocks whose parents are missing   *)
(* (flowcontext/orphans.rs), the post-processing of a new block            *)
(* (on_new_block) and the end of an IBD (revalidate_orphans).  Consensus   *)
(* is the set of blocks with a body and the queue of validations under     *)
(* way; its inside is BlockPipeline.  Every block here is valid: what can  *)
(* go wrong is the order of things.                                        *)
(*                                                                         *)
(* An operation of the pool is one step, since it holds the pool's lock;   *)
(* a body that is committed between two of its status reads only makes the *)
(* flow ask for a block it then finds.  The revalidation after an IBD is   *)
(* several steps, because validations it starts can end before it does.    *)
(***************************************************************************)
EXTENDS Naturals, Sequences, SequencesExt, FiniteSets, Functions

CONSTANTS Blocks,      \* the blocks on top of what every node has
          DirectParents, \* of each block: its header's direct_parents, in order
          BlueWork,    \* [Blocks -> Nat], larger than the parents'
          Tip,         \* announced when all has settled and nothing below it is missing
          Peers,
          MaxOrphans,
          Scenarios    \* bound: sets of announcements (of a block, by a peer) and of RPC
                       \* submissions that may come together, in any order

None == "none"

VARIABLES have,       \* blocks whose body consensus has
          tasks,      \* validations under way, in the order of submission: [block, to]
          orphans,    \* OrphanBlocksPool::orphans: block -> its known children
          indirect,   \* TwoWayIncomingRoute::indirect_invs of each flow
          pc,         \* where each flow is in start_impl
          inv,        \* the announcement it handles: [hash, within]
          failed,     \* whose validations ended with MissingParents
          asked,      \* shared_block_requests, with a mark on
          obtained,   \*   those that were obtained
          news,       \* on_new_block tasks spawned and not yet run
          job,        \* the block in each peer's IBD job channel
          ibd,        \* the IBD under way: [pc, peer, relay, roots, root]
          announced   \* announcements so far, by peer or "rpc"

flowVars == <<indirect, pc, inv, asked, obtained>>
vars == <<have, tasks, orphans, flowVars, failed, news, job, ibd, announced>>

NoInv == [hash |-> None, within |-> FALSE]
NoIbd == [pc |-> "idle", peer |-> None, relay |-> None, roots |-> {}, root |-> None]

Pool == DOMAIN orphans

Parents == [b \in Blocks |-> Range(DirectParents[b])]

RECURSIVE PastOf(_)
PastOf(bs) == IF bs = {} THEN {} ELSE bs \cup PastOf(UNION {Parents[b] : b \in bs})

\* Bodies, orphans and requests are of blocks, the pool keeps to its limit, and flows
\* and IBD are at a step of their program.
TypeOK ==
    /\ have \subseteq Blocks
    /\ \A i \in DOMAIN tasks : tasks[i] \in [block : Blocks, to : Peers \cup {"pool", "ibd", "rpc"}]
    /\ Pool \subseteq Blocks /\ Cardinality(Pool) <= MaxOrphans
    /\ \A o \in Pool : orphans[o] \subseteq Blocks
    /\ pc \in [Peers -> {"idle", "look", "asked", "await", "missing", "add", "retry", "batch", "gone"}]
    /\ asked \subseteq Blocks /\ obtained \subseteq asked /\ news \subseteq Blocks
    /\ ibd.pc \in {"idle", "sync", "bodies", "roots", "unorphan", "drain"}

Init ==
    /\ have = {} /\ tasks = <<>> /\ orphans = <<>>
    /\ indirect = [p \in Peers |-> <<>>]
    /\ pc = [p \in Peers |-> "idle"] /\ inv = [p \in Peers |-> NoInv]
    /\ failed = [w \in Peers \cup {"pool", "ibd", "rpc"} |-> FALSE]
    /\ asked = {} /\ obtained = {} /\ news = {}
    /\ job = [p \in Peers |-> None] /\ ibd = NoIbd
    /\ announced = {}

-----------------------------------------------------------------------------
(* Consensus, as the flows see it. *)

\* validate_and_insert_block_batch: blocks are queued by blue work, so parents first.
BatchByHash(bs) == SetToSortSeq(bs, LAMBDA a, b : BlueWork[a] > BlueWork[b])
Batch(bs) == SetToSortSeq(bs, LAMBDA a, b : BlueWork[a] < BlueWork[b])

Tasks(bs, to) == [i \in DOMAIN bs |-> [block |-> bs[i], to |-> to]]

Waiting(to) == \E i \in DOMAIN tasks : tasks[i].to = to

\* A validation ends once those of its parents submitted before it have.  A block
\* without some parent's body is answered MissingParents.
Validate(i) ==
    LET b == tasks[i].block
        to == tasks[i].to
        ok == Parents[b] \subseteq have
    IN /\ \A j \in 1 .. i - 1 : tasks[j].block \notin Parents[b] \cup {b}
       /\ tasks' = RemoveAt(tasks, i)
       /\ have' = IF ok THEN have \cup {b} ELSE have
       /\ failed' = [failed EXCEPT ![to] = @ \/ ~ok]
       /\ news' = IF ok /\ to = "rpc" THEN news \cup {b} ELSE news
       /\ UNCHANGED <<orphans, flowVars, job, ibd, announced>>

-----------------------------------------------------------------------------
(* The orphan pool. *)

\* The pool's lock is held through a revalidation.
PoolIsFree == ibd.pc \notin {"roots", "unorphan"}

\* iterate_child_orphans
ChildOrphans(pool, b) == {o \in pool : b \in Parents[o]}

\* get_orphan_roots: what is reached from a block's parents through orphans, in the
\* order of the search.
RECURSIVE Search(_, _)
Search(queue, visited) ==
    IF queue = <<>> THEN <<>>
    ELSE LET parents == IF Head(queue) \in Pool THEN DirectParents[Head(queue)] ELSE <<>>
             more == SelectSeq(parents, LAMBDA q : q \notin visited)
         IN <<Head(queue)>> \o Search(Tail(queue) \o more, visited \cup Range(more))

Reached(b) == Search(DirectParents[b], Parents[b])
OrphanAncestors(b) == Range(Reached(b)) \cap Pool
OrphanRoots(b) == SelectSeq(Reached(b), LAMBDA q : q \notin Pool \cup have)

\* FindRootsOutput::NoRoots: by now the block is no orphan, and is to be retried.
RetriesNever(b) == FALSE
Retries(b) == OrphanRoots(b) = <<>>

\* The pool after an orphan was inserted.
ChildrenLater(pool, b) == {}
KnownChildren(pool, b) == ChildOrphans(pool, b)

Inserted(pool, b) ==
    [o \in pool \cup {b} |->
        IF o = b THEN KnownChildren(pool, b)
        ELSE IF o \in Parents[b] THEN orphans[o] \cup {b} ELSE orphans[o]]

\* unorphan_blocks: an orphan is submitted if its parents have a body or were
\* submitted by the same call.
Processable(o, processing) == Parents[o] \subseteq have \cup processing

\* The ways in which the process queue may be worked off: an orphan is submitted when
\* it is dequeued, and its children, a hash set, join the queue in any order.  Each
\* result is the sequence of orphans submitted.
RECURSIVE Processings(_, _)
Processings(queue, processing) ==
    IF queue = <<>> THEN {processing}
    ELSE LET o == Head(queue)
             rest == Tail(queue)
         IN IF o \in Pool \ Range(processing) /\ Processable(o, Range(processing))
            THEN UNION {Processings(rest \o chunk, Append(processing, o)) :
                            chunk \in SetToSeqs(orphans[o] \ Range(rest))}
            ELSE Processings(rest, processing)

\* The whole of unorphan_blocks: the root and these leave the pool.
Unorphan(root, to) ==
    LET children == IF root \in Pool THEN orphans[root] ELSE ChildOrphans(Pool, root)
    IN \E blocks \in UNION {Processings(queue, <<>>) : queue \in SetToSeqs(children)} :
       /\ orphans' = Restrict(orphans, Pool \ (Range(blocks) \cup {root}))
       /\ tasks' = tasks \o Tasks(blocks, to)

-----------------------------------------------------------------------------
(* The relay flow of a peer: start_impl. *)

\* Back to the head of the loop; the request scope of the block, if any, is dropped.
Continue(p) ==
    /\ pc' = [pc EXCEPT ![p] = "idle"]
    /\ inv' = [inv EXCEPT ![p] = NoInv]
    /\ asked' = asked \ {inv[p].hash} /\ obtained' = obtained \ {inv[p].hash}

Goto(p, label) == pc' = [pc EXCEPT ![p] = label] /\ UNCHANGED <<indirect, inv, asked, obtained>>

\* enqueue_orphan_roots
Enqueued(p, roots, within) ==
    [indirect EXCEPT ![p] = @ \o [i \in DOMAIN roots |-> [hash |-> roots[i], within |-> within]]]

\* An announcement is taken unless consensus has the block.
Handle(p, m) ==
    /\ pc' = [pc EXCEPT ![p] = IF m.hash \in have THEN "idle" ELSE "look"]
    /\ inv' = [inv EXCEPT ![p] = IF m.hash \in have THEN NoInv ELSE m]
    /\ UNCHANGED <<have, tasks, orphans, asked, obtained, failed, news, job, ibd>>

Quiet == /\ tasks = <<>> /\ news = {} /\ ibd.pc = "idle"
         /\ \A p \in Peers : pc[p] \in {"idle", "gone"} /\ indirect[p] = <<>> /\ job[p] = None

TipAnnounced == \E a \in announced : a[2] = Tip

Announcing(who, b) ==
    /\ <<who, b>> \notin announced /\ ~TipAnnounced
    /\ b = Tip => Quiet /\ PastOf(Parents[Tip]) \subseteq have \cup Pool
    /\ announced' = announced \cup {<<who, b>>}
    /\ \E together \in Scenarios : announced' \subseteq together

TakeAnnounced(p, b) ==
    /\ pc[p] = "idle" /\ indirect[p] = <<>>
    /\ Announcing(p, b)
    /\ Handle(p, [hash |-> b, within |-> FALSE])
    /\ UNCHANGED indirect

TakeIndirect(p) ==
    /\ pc[p] = "idle" /\ indirect[p] # <<>>
    /\ indirect' = [indirect EXCEPT ![p] = Tail(@)]
    /\ Handle(p, Head(indirect[p]))
    /\ UNCHANGED announced

\* A known orphan: its missing roots are asked for next.
LookKnown(p) ==
    /\ pc[p] = "look" /\ PoolIsFree
    /\ inv[p].hash \in Pool
    /\ indirect' = Enqueued(p, OrphanRoots(inv[p].hash), inv[p].within)
    /\ pc' = [pc EXCEPT ![p] = "idle"] /\ inv' = [inv EXCEPT ![p] = NoInv]
    /\ UNCHANGED <<have, tasks, orphans, asked, obtained, failed, news, job, ibd, announced>>

\* Skipped: in an IBD of a node that is out of sync, or asked for by another flow.
Skip(p) ==
    /\ pc[p] = "look" /\ PoolIsFree
    /\ inv[p].hash \notin Pool
    /\ ibd.pc # "idle" \/ inv[p].hash \in asked
    /\ pc' = [pc EXCEPT ![p] = "idle"] /\ inv' = [inv EXCEPT ![p] = NoInv]
    /\ UNCHANGED <<have, tasks, orphans, indirect, asked, obtained, failed, news, job, ibd, announced>>

\* try_adding_request_impl: a request that is not obtained can be repeated after a while.
Request(p) ==
    /\ pc[p] = "look" /\ PoolIsFree
    /\ inv[p].hash \notin Pool \cup obtained
    /\ asked' = asked \cup {inv[p].hash}
    /\ pc' = [pc EXCEPT ![p] = "asked"]
    /\ UNCHANGED <<have, tasks, orphans, indirect, inv, obtained, failed, news, job, ibd, announced>>

\* The block arrives and is submitted.
Receive(p) ==
    /\ pc[p] = "asked"
    /\ obtained' = obtained \cup (asked \cap {inv[p].hash})
    /\ tasks' = Append(tasks, [block |-> inv[p].hash, to |-> p])
    /\ pc' = [pc EXCEPT ![p] = "await"]
    /\ UNCHANGED <<have, orphans, indirect, inv, asked, failed, news, job, ibd, announced>>

\* The answer: the block is new and on_new_block is spawned, or a parent is missing.
Answer(p) ==
    /\ pc[p] = "await" /\ ~Waiting(p)
    /\ failed' = [failed EXCEPT ![p] = FALSE]
    /\ IF failed[p] THEN Goto(p, "missing") /\ UNCHANGED news
       ELSE Continue(p) /\ news' = news \cup {inv[p].hash} /\ UNCHANGED indirect
    /\ UNCHANGED <<have, tasks, orphans, job, ibd, announced>>

\* process_orphan up to add_orphan: whether the block is near enough is the peer's
\* answer, or the DAA score of the IBD under way.
ProcessOrphan(p) ==
    /\ pc[p] = "missing" /\ PoolIsFree
    /\ \/ /\ inv[p].hash \in Pool
          /\ Continue(p) /\ UNCHANGED <<indirect, job>>
       \/ /\ inv[p].hash \notin Pool
          /\ inv[p].within \/ ibd.pc # "idle"
          /\ Goto(p, "add") /\ UNCHANGED job
       \/ /\ inv[p].hash \notin Pool /\ ~inv[p].within
          /\ pc' = [pc EXCEPT ![p] = "add"]
          /\ inv' = [inv EXCEPT ![p].within = TRUE]
          /\ UNCHANGED <<indirect, asked, obtained, job>>
       \/ /\ inv[p].hash \notin Pool /\ ~inv[p].within
          /\ Continue(p) /\ UNCHANGED indirect
          /\ job' = [job EXCEPT ![p] = IF @ = None \/ BlueWork[inv[p].hash] > BlueWork[@]
                                       THEN inv[p].hash ELSE @]
    /\ UNCHANGED <<have, tasks, orphans, failed, news, ibd, announced>>

\* add_orphan: refused if known; if no root is missing its orphan ancestors are
\* submitted; else it is kept, at the limit for a random orphan that is no ancestor of
\* it, or not at all when every try hits an ancestor.
AddOrphan(p) ==
    LET b == inv[p].hash IN
    /\ pc[p] = "add" /\ PoolIsFree
    /\ \/ /\ b \in Pool
          /\ Continue(p) /\ UNCHANGED <<tasks, orphans, indirect>>
       \/ /\ b \notin Pool /\ Retries(b)
          /\ orphans' = Restrict(orphans, Pool \ OrphanAncestors(b))
          /\ tasks' = tasks \o Tasks(Batch(OrphanAncestors(b)), p)
          /\ Goto(p, "retry")
       \/ /\ b \notin Pool /\ ~Retries(b)
          /\ \/ Cardinality(Pool) < MaxOrphans /\ orphans' = Inserted(Pool, b)
             \/ /\ Cardinality(Pool) = MaxOrphans
                /\ \E v \in Pool \ OrphanAncestors(b) : orphans' = Inserted(Pool \ {v}, b)
          /\ indirect' = Enqueued(p, OrphanRoots(b), inv[p].within)
          /\ Continue(p) /\ UNCHANGED tasks
       \/ /\ b \notin Pool /\ ~Retries(b)
          /\ Cardinality(Pool) = MaxOrphans /\ OrphanAncestors(b) # {}
          /\ Continue(p) /\ UNCHANGED <<tasks, orphans, indirect>>
    /\ UNCHANGED <<have, failed, news, job, ibd, announced>>

\* The block is submitted again, behind its ancestors.
Retry(p) ==
    /\ pc[p] = "retry"
    /\ tasks' = Append(tasks, [block |-> inv[p].hash, to |-> p])
    /\ Goto(p, "batch")
    /\ UNCHANGED <<have, orphans, failed, news, job, ibd, announced>>

\* An error in the batch or the block ends the connection.
AnswerBatch(p) ==
    /\ pc[p] = "batch" /\ ~Waiting(p)
    /\ IF failed[p]
       THEN /\ pc' = [pc EXCEPT ![p] = "gone"] /\ UNCHANGED <<inv, news>>
            /\ asked' = asked \ {inv[p].hash} /\ obtained' = obtained \ {inv[p].hash}
       ELSE Continue(p) /\ news' = news \cup {inv[p].hash}
    /\ UNCHANGED <<have, tasks, orphans, indirect, failed, job, ibd, announced>>

-----------------------------------------------------------------------------
(* New blocks and the end of an IBD. *)

\* submit_rpc_block: a block the node itself gave the template of.
SubmitBlock(b) ==
    /\ b # Tip /\ b \notin have /\ Parents[b] \subseteq have
    /\ Announcing("rpc", b)
    /\ tasks' = Append(tasks, [block |-> b, to |-> "rpc"])
    /\ UNCHANGED <<have, orphans, flowVars, failed, news, job, ibd>>

\* on_new_block; the mempool's part of it is in Mempool.
OnNewBlock(b) ==
    /\ b \in news /\ PoolIsFree
    /\ news' = news \ {b}
    /\ Unorphan(b, "pool")
    /\ UNCHANGED <<have, flowVars, failed, job, ibd, announced>>

\* The IBD flow takes its job; it is dropped while another peer's IBD runs.
IbdStart(p) ==
    /\ job[p] # None /\ ibd.peer # p
    /\ job' = [job EXCEPT ![p] = None]
    /\ ibd' = IF ibd.pc = "idle" THEN [NoIbd EXCEPT !.pc = "sync", !.peer = p, !.relay = job[p]] ELSE ibd
    /\ UNCHANGED <<have, tasks, orphans, flowVars, failed, news, announced>>

\* sync_missing_block_bodies of the relay block.
IbdSync ==
    /\ ibd.pc = "sync"
    /\ tasks' = tasks \o Tasks(Batch(PastOf({ibd.relay}) \ have), "ibd")
    /\ ibd' = [ibd EXCEPT !.pc = "bodies"]
    /\ UNCHANGED <<have, orphans, flowVars, failed, news, job, announced>>

\* revalidate_orphans, first: what consensus has is dropped and the orphans whose
\* parents it has are gathered.
RevalidateOrphans ==
    /\ ibd.pc = "bodies" /\ ~Waiting("ibd")
    /\ orphans' = Restrict(orphans, Pool \ have)
    /\ ibd' = [ibd EXCEPT !.pc = "roots", !.roots = {o \in Pool \ have : Parents[o] \subseteq have}]
    /\ UNCHANGED <<have, tasks, flowVars, failed, news, job, announced>>

\* Then each is submitted,
RevalidateRoot(b) ==
    /\ ibd.pc = "roots" /\ b \in ibd.roots
    /\ tasks' = Append(tasks, [block |-> b, to |-> "ibd"])
    /\ ibd' = [ibd EXCEPT !.pc = "unorphan", !.roots = @ \ {b}, !.root = b]
    /\ UNCHANGED <<have, orphans, flowVars, failed, news, job, announced>>

\* and those of its descendants that have all their parents by then.
RevalidateDescendants ==
    /\ ibd.pc = "unorphan"
    /\ Unorphan(ibd.root, "ibd")
    /\ ibd' = [ibd EXCEPT !.pc = "roots", !.root = None]
    /\ UNCHANGED <<have, flowVars, failed, news, job, announced>>

RevalidateDone ==
    /\ ibd.pc = "roots" /\ ibd.roots = {}
    /\ ibd' = [ibd EXCEPT !.pc = "drain"]
    /\ UNCHANGED <<have, tasks, orphans, flowVars, failed, news, job, announced>>

IbdDone ==
    /\ ibd.pc = "drain" /\ ~Waiting("ibd")
    /\ ibd' = NoIbd
    /\ UNCHANGED <<have, tasks, orphans, flowVars, failed, news, job, announced>>

-----------------------------------------------------------------------------
Flow(p) == \/ TakeIndirect(p) \/ LookKnown(p) \/ Skip(p) \/ Request(p) \/ Receive(p) \/ Answer(p)
           \/ ProcessOrphan(p) \/ AddOrphan(p) \/ Retry(p) \/ AnswerBatch(p)

Consensus == \E i \in DOMAIN tasks : Validate(i)

Ibd == \/ IbdSync \/ RevalidateOrphans \/ RevalidateDescendants \/ RevalidateDone \/ IbdDone
       \/ \E b \in Blocks : RevalidateRoot(b)

Next ==
    \/ \E p \in Peers : Flow(p) \/ IbdStart(p)
    \/ \E p \in Peers, b \in Blocks : TakeAnnounced(p, b)
    \/ \E b \in Blocks : SubmitBlock(b) \/ OnNewBlock(b)
    \/ Consensus \/ Ibd

Spec == Init /\ [][Next]_vars

\* Tasks of the runtime get to run; nothing makes a peer announce or a miner submit.
FairSpec ==
    /\ Spec
    /\ WF_vars(Consensus) /\ WF_vars(Ibd)
    /\ \A p \in Peers : WF_vars(Flow(p)) /\ WF_vars(IbdStart(p))
    /\ \A b \in Blocks : WF_vars(OnNewBlock(b))

-----------------------------------------------------------------------------
(* Properties. *)

\* The children an orphan remembers include every orphan that has it as a parent, as
\* the comment on OrphanBlock::children promises, whatever came first and whatever was
\* evicted and came back: unorphan_blocks follows nothing else.
ChildrenAreLinked == \A q, o \in Pool : q \in Parents[o] => o \in orphans[q]

\* What the pool, an IBD or a retry submits has its parents in consensus or submitted
\* before it.  So no orphan is lost to a validation that fails for a missing parent, and
\* no peer is disconnected over a block of its batch when all blocks are valid.
SubmittedWithParents ==
    /\ ~failed["pool"] /\ ~failed["ibd"] /\ ~failed["rpc"]
    /\ \A p \in Peers : pc[p] # "gone"

\* Orphans can be left in the pool with nothing missing, for what the pool submits
\* unorphans no children when its validation ends.  The next block on top of them,
\* announced in a quiet moment, brings them all in: add_orphan finds no missing root,
\* submits them and has the block retried, or an IBD does.
NextBlockBringsTheRest == TipAnnounced ~> (PastOf({Tip}) \subseteq have)

\* After an IBD every orphan whose parents are there is unorphaned (the comment on
\* check_orphan_ibd_conditions).  It is not so: see the README.
NoneStranded == Quiet => \A o \in Pool : ~(Parents[o] \subseteq have)

=============================================================================

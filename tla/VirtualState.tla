---------------------------- MODULE VirtualState ----------------------------
(***************************************************************************)
(* The virtual processor: resolve_virtual follows the block DAG with the   *)
(* UTXO set of the virtual block.                                          *)
(*                                                                         *)
(* One thread resolves.  It searches the tips for the next sink, walking   *)
(* the selected chain down to a split point and up again; each chain block *)
(* it validates on the way is committed by one write batch, and the new    *)
(* virtual state by another.  Bodies arrive and mempool transactions are   *)
(* validated meanwhile, and the node may crash between any two batches.    *)
(***************************************************************************)
EXTENDS Dag

CONSTANTS
    Tx, Handle,
    TxsOf,            \* block -> its transactions other than the coinbase
    Spends,           \* transaction -> the outpoints it spends
    Makes, Cites,     \* transaction -> the lookup tables it creates, refers to
    Emits,            \* the transactions whose contracts emit events
    Deploys, Needs,   \* transaction -> the contracts and token policies it
                      \* deploys, and those that have to approve it
    BadHeader,        \* blocks whose header commits to something else
    Maturity,         \* coinbase_maturity, in DAA scores
    Nets,             \* the networks to look at: records with the blocks that come
                      \* up, finality_depth, merge_depth and mergeset_size_limit
    SafetyMargin, MaxParents,
    NoBlock,          \* stands for no block
    MaxCrashes        \* bound: how often the node crashes

\* Unless nothing becomes final, the margin exceeds the number of blocks that virtual
\* merges beside the sink.  The finality point is a blue score below virtual, and it
\* moves back when virtual no longer merges them.
ASSUME MarginAssumption ==
    \A n \in Nets : n.finality >= Cardinality(n.blocks) \/ n.limit <= SafetyMargin

\* An output is named after its transaction, a coinbase after its block.
Outpoint == Tx \cup Block
Score == 0..Cardinality(Block)

INSTANCE UtxoDiff

VARIABLES
    net,         \* the network of this behaviour
    bodies,      \* the blocks whose bodies are in the database
    status,      \* of those blocks
    diffs,       \* utxo_diffs_store: chain block -> its diff
    multisets,   \* utxo_multisets_store: chain block -> its UTXO multiset
    accepted,    \* acceptance_data_store: chain block -> transactions
    alts,        \* alt_store: handle -> the chain block that made it
    events,      \* event_store: chain block -> transactions with events
    filters,     \* filter headers: chain block -> the block they chain to
    virtual,     \* the virtual state: parents and diff from the sink
    utxoSet,     \* the virtual UTXO set
    chain,       \* selected_chain_store, by index
    maxWork,     \* max_chain_work_seen_store
    programs,    \* the contract store: the ids with a program, each written directly
    collector,   \* events_collector, in memory
    pending,     \* pending_chain_blocks, in memory
    signalled,   \* a message waits in the channel of the processor
    \* Locals of a resolution: its finality point, the tips it started from, the
    \* heap of the search, the candidate under examination with the chain still
    \* to walk up to it, and the block acc leads to from the virtual UTXO set.
    phase, finality, tips, heap, candidate, path, diffPoint, acc,
    crashes

batched == <<bodies, status, diffs, multisets, accepted, alts, events, filters,
             virtual, utxoSet, chain, maxWork>>
stored == <<batched, programs>>
search == <<phase, finality, tips, heap, candidate, path, diffPoint, acc>>
vars == <<net, stored, collector, pending, signalled, search, crashes>>

\* Inserting into a store.
Put(store, key, value) ==
    [k \in DOMAIN store \cup {key} |-> IF k = key THEN value ELSE store[k]]

\* Op of the value of x, which is computed once.
Bind(Op(_), x) == CHOOSE r \in {Op(y) : y \in {x}} : TRUE

Sink == Heaviest(virtual.parents)
VirtualWork(parents) == WorkOf(InclPast(parents))
VirtualScore(parents) == Cardinality(InclPast(parents))

\* virtual_finality_point, with genesis as the pruning point.
FinalityPoint == BlockAtDepth(VirtualScore(virtual.parents), Sink, net.finality)

-----------------------------------------------------------------------------
\* Transactions in the context of a UTXO set

\* check_alt_references: the block that made the table is on the selected chain
\* or was committed by the resolution under way.
AltVisible == {h \in DOMAIN alts : alts[h] \in Range(chain) \cup pending}

\* validate_transaction_in_utxo_context: the inputs are there, a coinbase is
\* mature, and the lookup tables the transaction refers to are visible.
MatureAt(entry, pov) == entry[1] \in Block => entry[2] + Maturity <= pov
ValidTx(view, tx, pov, visible) ==
    /\ \A o \in Spends[tx] : \E e \in view : e[1] = o /\ MatureAt(e, pov)
    /\ Cites[tx] \subseteq visible

\* check_scripts and check_token_conservation find the programs they have to run.
ProgramsFound(tx, store) == Needs[tx] \subseteq store

\* process_contract_deploy_if_needed and process_mint_policy_deploy_if_needed for
\* each of these transactions.
DeployAll(store, txs) == store \cup UNION {Deploys[t] : t \in txs}

\* The outputs of a coinbase; genesis receives no reward.
Coinbase(b, pov) == IF b = Genesis THEN {} ELSE {<<b, pov>>}

\* add_transaction for each of the valid transactions of a merged block.
AddTxs(diff, view, txs, pov) ==
    LET spent == {e \in view : \E t \in txs : e[1] \in Spends[t]}
        created == {<<t, pov>> : t \in txs}
    IN AddEntries(RemoveEntries(diff, spent), created)

\* calculate_utxo_state: the coinbase of the selected parent, then the valid
\* transactions of each merged block in order.  Scripts run, and events are
\* collected, for all but the selected parent; deployments are written for all.
CalculateUtxoState(set, merged, pov) ==
    LET Merge(ctx, b) ==
            LET view == Apply(set, ctx.diff)
                full == b # merged[1]
                valid == {t \in TxsOf[b] : /\ ValidTx(view, t, pov, AltVisible)
                                           /\ full => ProgramsFound(t, ctx.deployed)}
            IN [diff |-> AddTxs(ctx.diff, view, valid, pov),
                accepted |-> ctx.accepted \cup valid,
                deployed |-> DeployAll(ctx.deployed, valid),
                ran |-> IF full THEN ctx.ran \cup valid ELSE ctx.ran]
    IN FoldLeft(LAMBDA ctx, b : Bind(LAMBDA c : Merge(c, b), ctx),
                [diff |-> AddEntries(NoDiff, Coinbase(merged[1], pov)),
                 accepted |-> {}, deployed |-> programs, ran |-> {}], merged)

\* The same from first principles, over the state below: on the UTXO set itself, and
\* with the programs that the chain below deployed.  It is self-contained when no
\* transaction that is looked at needs a program that is not among them.
Accept(below, merged, pov) ==
    LET Merge(s, b) ==
            LET valid == {t \in TxsOf[b] :
                            /\ ValidTx(s.utxo, t, pov, below.made)
                            /\ b # merged[1] => ProgramsFound(t, s.deployed)}
            IN [utxo |-> {e \in s.utxo : \A t \in valid : e[1] \notin Spends[t]}
                           \cup {<<t, pov>> : t \in valid},
                accepted |-> s.accepted \cup valid,
                deployed |-> DeployAll(s.deployed, valid),
                contained |-> /\ s.contained
                              /\ b # merged[1] => \A t \in TxsOf[b] : ProgramsFound(t, s.deployed)]
    IN FoldLeft(LAMBDA s, b : Bind(LAMBDA c : Merge(c, b), s),
                [utxo |-> below.utxo \cup Coinbase(merged[1], pov), accepted |-> {},
                 deployed |-> below.deployed, contained |-> below.contained], merged)

\* What a block's past says of its UTXO state: the UTXO set, the transactions
\* it accepts, the lookup tables and programs its chain made, and whether its chain
\* is valid and self-contained.  A header that is not bad commits to this.
OverParent(b, below) ==
    LET State(state) ==
            [utxo |-> state.utxo,
             accepted |-> state.accepted,
             made |-> below.made \cup UNION {Makes[t] : t \in state.accepted},
             deployed |-> state.deployed,
             contained |-> /\ state.contained
                           /\ \A t \in TxsOf[b] : ProgramsFound(t, state.deployed),
             valid |-> /\ below.valid /\ b \notin BadHeader
                       /\ \A t \in TxsOf[b] :
                            /\ ValidTx(state.utxo, t, BlueScore[b], below.made)
                            /\ ProgramsFound(t, state.deployed)]
    IN Bind(State, Accept(below, MergesetOrder(Parents[b]), BlueScore[b]))

Reference ==
    LET state[b \in Block] ==
            IF b = Genesis
            THEN [utxo |-> {}, accepted |-> {}, made |-> {}, deployed |-> {},
                  contained |-> TRUE, valid |-> TRUE]
            ELSE Bind(LAMBDA below : OverParent(b, below), state[SelectedParent[b]])
    IN [b \in Block |-> state[b]]

-----------------------------------------------------------------------------
\* A node after process_genesis

Init ==
    /\ net \in Nets
    /\ bodies = {Genesis} /\ status = (Genesis :> "valid")
    /\ diffs = (Genesis :> NoDiff) /\ multisets = (Genesis :> {})
    /\ accepted = (Genesis :> {})
    /\ alts = <<>> /\ events = (Genesis :> {}) /\ filters = (Genesis :> NoBlock)
    /\ virtual = [parents |-> {Genesis}, diff |-> NoDiff]
    /\ utxoSet = {} /\ chain = <<Genesis>> /\ maxWork = Work[Genesis] /\ programs = {}
    /\ collector = {} /\ pending = {Genesis} /\ signalled = FALSE
    /\ phase = "idle" /\ finality = NoBlock /\ candidate = NoBlock
    /\ tips = {} /\ heap = {} /\ path = <<>>
    /\ diffPoint = NoBlock /\ acc = NoDiff /\ crashes = 0

\* No resolution is under way any more.
Rest ==
    /\ phase' = "idle" /\ finality' = NoBlock /\ candidate' = NoBlock
    /\ tips' = {} /\ heap' = {} /\ path' = <<>>
    /\ diffPoint' = NoBlock /\ acc' = NoDiff

\* The body processor commits a body whose parents have theirs, and signals.
AddBody(b) ==
    /\ b \notin bodies /\ Parents[b] \subseteq bodies
    /\ bodies' = bodies \cup {b}
    /\ status' = Put(status, b, "pending")
    /\ signalled' = TRUE
    /\ UNCHANGED <<diffs, multisets, accepted, alts, events, filters, virtual,
                   utxoSet, chain, maxWork, programs, collector, pending, search, crashes, net>>

BodyTips == {b \in bodies : \A a \in bodies : b \notin Past[a]}

\* The diff that leads from the virtual UTXO set to the sink.  The variant forgets
\* that the UTXO set is the one of virtual.
FromSink == NoDiff
FromVirtual == Reversed(virtual.diff)

\* The worker takes all messages and starts to resolve.
StartResolve ==
    /\ phase = "idle" /\ signalled
    /\ signalled' = FALSE
    /\ phase' = "search"
    /\ finality' = FinalityPoint
    /\ tips' = {b \in BodyTips : FinalityPoint \in InclPast({b})}
    /\ heap' = {b \in BodyTips : FinalityPoint \in InclPast({b})}
    /\ diffPoint' = Sink
    /\ acc' = FromVirtual
    /\ UNCHANGED <<stored, collector, pending, candidate, path, crashes, net>>

\* The parents of a rejected candidate join the heap, unless the finality point
\* is not below them or a block of the heap is above them.  The variant pushes the
\* selected parent alone.
PushSelected(blocks, b) ==
    blocks \cup {p \in {SelectedParent[b]} : /\ finality \in InclPast({p})
                                            /\ p \notin InclPast(blocks)}
PushParents(blocks, b) ==
    blocks \cup {p \in Parents[b] : /\ finality \in InclPast({p})
                                    /\ p \notin InclPast(blocks)}

\* The variant asks for the finality point in the past, not on the chain.
FinalInPast(b) == finality \in InclPast({b})
KeepsFinality(b) == OnChain(finality, b)

\* The candidate violates finality, or is known to be disqualified.
RejectCandidate ==
    /\ phase = "search" /\ heap # {}
    /\ \E c \in {Heaviest(heap)} :
       /\ ~KeepsFinality(c) \/ status[c] = "disqualified"
       /\ heap' = PushParents(heap \ {c}, c)
    /\ UNCHANGED <<stored, collector, pending, signalled, phase, finality, tips,
                   candidate, path, diffPoint, acc, crashes, net>>

SplitPoint(a, b) == Heaviest({x \in Range(Chain[a]) : OnChain(x, b)})
Above(x, b) == SubSeq(Chain[b], Len(Chain[x]) + 1, Len(Chain[b]))

\* The diffs from b down to x, excluding x, are taken out of the diff.
TakenDown(diff, x, b) ==
    FoldLeft(LAMBDA d, y : Bind(LAMBDA e : WithDiff(e, Reversed(diffs[y])), d),
             diff, Reverse(Above(x, b)))

\* calculate_utxo_state_relatively walks down to the split point.
WalkDown ==
    /\ phase = "search" /\ heap # {}
    /\ \E c \in {Heaviest(heap)} : \E split \in {SplitPoint(diffPoint, c)} :
       /\ KeepsFinality(c) /\ status[c] # "disqualified"
       /\ heap' = heap \ {c}
       /\ candidate' = c
       /\ path' = Above(split, c)
       /\ diffPoint' = split
       /\ acc' = TakenDown(acc, split, diffPoint)
    /\ phase' = "up"
    /\ UNCHANGED <<stored, collector, pending, signalled, finality, tips, crashes, net>>

\* The next block of the walk up, whose selected parent acc leads to.
NextUp == Head(path)
Climbing == phase = "up" /\ path # <<>>
OnDiffPoint == SelectedParent[NextUp] = diffPoint
StepUp == path' = Tail(path) /\ UNCHANGED <<phase, finality, tips, heap, candidate>>

\* A selected parent was disqualified: so is the block.
PropagateDisqualified ==
    /\ Climbing /\ ~OnDiffPoint
    /\ status' = Put(status, NextUp, "disqualified")
    /\ StepUp
    /\ UNCHANGED <<bodies, diffs, multisets, accepted, alts, events, filters, virtual,
                   utxoSet, chain, maxWork, programs, collector, pending, signalled,
                   diffPoint, acc, crashes, net>>

\* The block was validated before: its diff is applied.
ReapplyDiff ==
    /\ Climbing /\ OnDiffPoint /\ NextUp \in DOMAIN diffs
    /\ acc' = WithDiff(acc, diffs[NextUp])
    /\ diffPoint' = NextUp
    /\ StepUp
    /\ UNCHANGED <<stored, collector, pending, signalled, crashes, net>>

SkipDisqualified ==
    /\ Climbing /\ OnDiffPoint /\ NextUp \notin DOMAIN diffs
    /\ status[NextUp] = "disqualified"
    /\ StepUp
    /\ UNCHANGED <<stored, collector, pending, signalled, diffPoint, acc, crashes, net>>

\* The block is valid only with all its own transactions.  The variant leaves
\* the invalid ones to the block that accepts them.
OwnIgnored(b, own) == TRUE
OwnHold(b, own) == own = TxsOf[b]

\* verify_expected_utxo_state after calculate_utxo_state.
Validation(b) ==
    LET view == Apply(utxoSet, acc)
        Verify(ctx) ==
            LET multiset == Apply(multisets[SelectedParent[b]], ctx.diff)
                headerHolds == /\ b \notin BadHeader
                               /\ multiset = Reference[b].utxo
                               /\ ctx.accepted = Reference[b].accepted
                own == {t \in TxsOf[b] :
                            /\ ValidTx(Apply(view, ctx.diff), t, BlueScore[b], AltVisible)
                            /\ ProgramsFound(t, ctx.deployed)}
            IN [diff |-> ctx.diff, multiset |-> multiset, accepted |-> ctx.accepted,
                deployed |-> ctx.deployed,
                ran |-> ctx.ran \cup IF headerHolds THEN own ELSE {},
                holds |-> headerHolds /\ OwnHold(b, own)]
    IN Bind(Verify, CalculateUtxoState(view, MergesetOrder(Parents[b]), BlueScore[b]))

Unvalidated ==
    /\ Climbing /\ OnDiffPoint /\ NextUp \notin DOMAIN diffs
    /\ status[NextUp] # "disqualified"
    /\ diffPoint \in DOMAIN multisets

Disqualify ==
    /\ Unvalidated
    /\ \E v \in {Validation(NextUp)} :
       /\ ~v.holds
       /\ collector' = collector \cup (v.ran \cap Emits)
       /\ programs' = v.deployed
    /\ status' = Put(status, NextUp, "disqualified")
    /\ StepUp
    /\ UNCHANGED <<bodies, diffs, multisets, accepted, alts, events, filters, virtual,
                   utxoSet, chain, maxWork, pending, signalled, diffPoint, acc, crashes, net>>

\* index_alt_creations_in_block: the first block to make a table keeps it.
IndexAlts(b, txs) ==
    LET made == UNION {Makes[t] : t \in txs}
    IN [h \in DOMAIN alts \cup made |-> IF h \in DOMAIN alts THEN alts[h] ELSE b]

\* index_filters_in_block: the chain block before b in the selected chain store.
PreviousFilter(b) ==
    IF \E i \in 2..Len(chain) : chain[i] = b
    THEN chain[(CHOOSE i \in 2..Len(chain) : chain[i] = b) - 1] ELSE NoBlock

\* commit_utxo_state: one write batch for all that a valid chain block leaves.
CommitUtxoState ==
    /\ Unvalidated
    /\ \E b \in {NextUp}, v \in {Validation(NextUp)} :
       LET emitted == collector \cup (v.ran \cap Emits) IN
       /\ v.holds
       /\ status' = Put(status, b, "valid")
       /\ diffs' = Put(diffs, b, v.diff)
       /\ multisets' = Put(multisets, b, v.multiset)
       /\ accepted' = Put(accepted, b, v.accepted)
       /\ alts' = IndexAlts(b, v.accepted)
       /\ events' = Put(events, b, emitted \cap v.accepted)
       /\ collector' = emitted \ v.accepted
       /\ filters' = Put(filters, b, PreviousFilter(b))
       /\ programs' = v.deployed
       /\ acc' = WithDiff(acc, v.diff)
       /\ diffPoint' = b
       /\ pending' = pending \cup {b}
    /\ StepUp
    /\ UNCHANGED <<bodies, virtual, utxoSet, chain, maxWork, signalled, crashes, net>>

\* The walk is over: the candidate is valid, or the search goes on below it.
EndWalk ==
    /\ phase = "up" /\ path = <<>>
    /\ IF diffPoint = candidate
       THEN phase' = "commit" /\ UNCHANGED heap
       ELSE phase' = "search" /\ heap' = PushParents(heap, candidate)
    /\ UNCHANGED <<stored, collector, pending, signalled, finality, tips, candidate,
                   path, diffPoint, acc, crashes, net>>

\* pick_virtual_parents: all that is left in the heap, or a random choice of it
\* and of its past where the limits demand one.
VirtualParents ==
    LET root == BlockAtDepth(BlueScore[candidate], candidate, net.merge)
        rest == {b \in heap : BlueWork[b] >= BlueWork[root]}
        WithinLimits(S) == /\ Cardinality(S) <= MaxParents
                           /\ Len(MergesetOrder(S)) <= net.limit
    IN IF WithinLimits({candidate} \cup rest) THEN {{candidate} \cup rest}
       ELSE {S \in {{candidate} \cup R : R \in SUBSET (InclPast(rest) \ InclPast({candidate}))} :
                Antichain(S) /\ WithinLimits(S)}

\* apply_changes of the selected chain store.
ApplyChanges(sequence, from, to) ==
    LET split == SplitPoint(from, to)
    IN SubSeq(sequence, 1, Len(sequence) - Len(Above(split, from))) \o Above(split, to)

\* update_max_batch
WorkFloor(parents) == Max({maxWork, VirtualWork(parents)})

\* commit_virtual_state: one write batch for the UTXO set, the virtual state,
\* the selected chain and the work seen.
CommitVirtual(parents) ==
    /\ phase = "commit"
    /\ \E ctx \in {CalculateUtxoState(Apply(utxoSet, acc), MergesetOrder(parents),
                                       VirtualScore(parents))} :
       LET total == WithDiff(acc, ctx.diff) IN
       /\ utxoSet' = Insert(Without(utxoSet, total.remove), total.add)
       /\ virtual' = [parents |-> parents, diff |-> ctx.diff]
       /\ collector' = collector \cup (ctx.ran \cap Emits)
       /\ programs' = ctx.deployed
    /\ chain' = ApplyChanges(chain, Sink, candidate)
    /\ maxWork' = WorkFloor(parents)
    /\ pending' = {}
    /\ phase' = "prune"
    /\ UNCHANGED <<bodies, status, diffs, multisets, accepted, alts, events, filters,
                   signalled, finality, tips, heap, candidate, path, diffPoint, acc,
                   crashes, net>>

\* prune_finalized_multiset: the multiset of the chain block a margin below the
\* finality point is deleted.  The variant leaves the margin out.
PruneTargetFinal ==
    IF finality \in Range(chain) THEN CHOOSE i \in DOMAIN chain : chain[i] = finality ELSE 0
PruneTarget ==
    IF finality \in Range(chain)
    THEN (CHOOSE i \in DOMAIN chain : chain[i] = finality) - SafetyMargin ELSE 0

\* The worker took the messages before it resolved: one that came meanwhile is
\* still there.  The variant takes them after it resolved.
NotSignalled == FALSE
StillSignalled == signalled

PruneFinalizedMultiset ==
    /\ phase = "prune"
    /\ multisets' = IF PruneTarget > 1
                    THEN [b \in DOMAIN multisets \ {chain[PruneTarget]} |-> multisets[b]]
                    ELSE multisets
    /\ signalled' = StillSignalled
    /\ Rest
    /\ UNCHANGED <<bodies, status, diffs, accepted, alts, events, filters, virtual,
                   utxoSet, chain, maxWork, programs, collector, pending, crashes, net>>

\* validate_mempool_transaction runs the scripts of a transaction that is valid
\* over the virtual UTXO set.
ValidateMempoolTx(t) ==
    /\ t \in Emits
    /\ ValidTx(utxoSet, t, VirtualScore(virtual.parents), AltVisible)
    /\ ProgramsFound(t, programs)
    /\ collector' = collector \cup {t}
    /\ UNCHANGED <<stored, pending, signalled, search, crashes, net>>

\* The programs that a calculation over these parents has written when it is done
\* with some of the merged blocks.
Deployments(parents, pov) ==
    LET merged == MergesetOrder(parents)
    IN {CalculateUtxoState(Apply(utxoSet, acc), SubSeq(merged, 1, i), pov).deployed :
            i \in DOMAIN merged}

\* What is in memory is lost; nothing resolves again until the next body.  A program
\* is written when its transaction is accepted, ahead of the batch of the block: what
\* a calculation under way has deployed stays.
Crash ==
    /\ crashes < MaxCrashes
    /\ crashes' = crashes + 1
    /\ collector' = {} /\ pending' = {} /\ signalled' = FALSE
    /\ \/ UNCHANGED programs
       \/ Unvalidated /\ programs' \in Deployments(Parents[NextUp], BlueScore[NextUp])
       \/ /\ phase = "commit"
          /\ \E parents \in VirtualParents :
                programs' \in Deployments(parents, VirtualScore(parents))
    /\ Rest
    /\ UNCHANGED <<batched, net>>

Next ==
    \/ \E b \in net.blocks : AddBody(b)
    \/ StartResolve
    \/ RejectCandidate
    \/ WalkDown
    \/ PropagateDisqualified
    \/ ReapplyDiff
    \/ SkipDisqualified
    \/ Disqualify
    \/ CommitUtxoState
    \/ EndWalk
    \/ phase = "commit" /\ \E parents \in VirtualParents : CommitVirtual(parents)
    \/ PruneFinalizedMultiset
    \/ \E t \in Tx : ValidateMempoolTx(t)
    \/ Crash

Spec == Init /\ [][Next]_vars

\* The worker is not kept waiting forever: weak fairness of the steps of a
\* resolution.  One of them is enabled exactly when the worker is busy (NoPanic),
\* and they are the steps that change the locals of the resolution.
Busy == signalled \/ phase # "idle"
Advances == search' # search /\ UNCHANGED crashes

FairSpec == Spec /\ ([]<>~Busy \/ []<><<Advances>>_vars)

-----------------------------------------------------------------------------
\* Properties

\* The stores hold what their types say, for the blocks they may hold it of: the
\* resolution reads and writes only blocks whose bodies are in.
TypeOK ==
    /\ bodies \in SUBSET Block /\ DOMAIN status = bodies
    /\ Range(status) \subseteq {"pending", "valid", "disqualified"}
    /\ DOMAIN diffs \subseteq bodies /\ Range(diffs) \subseteq Diff
    /\ DOMAIN multisets \subseteq DOMAIN diffs
    /\ DOMAIN accepted = DOMAIN diffs /\ DOMAIN events = DOMAIN diffs
    /\ DOMAIN alts \subseteq Handle
    /\ virtual.parents \subseteq bodies /\ virtual.diff \in Diff
    /\ utxoSet \in Collection /\ acc \in Diff
    /\ collector \subseteq Emits /\ pending \subseteq bodies
    /\ phase \in {"idle", "search", "up", "commit", "prune"}
    /\ heap \subseteq bodies
    /\ programs \subseteq UNION Range(Deploys)

\* with_diff_in_place returns no error.
Combines(diff, other) == ~DuplicateRemove(diff, other) /\ ~DuplicateAdd(diff, other)

\* The expect and unwrap calls of a resolution succeed: the search does not run
\* out of candidates; the diffs of the walk down are there, and with_diff_in_place
\* takes each of them and of those that are applied on the way up; the multiset of
\* the selected parent was not deleted with the finalized ones; and the sink is the
\* selected parent of the new virtual block.
NoPanic ==
    /\ phase = "search" => heap # {}
    /\ phase = "search" /\ heap # {} =>
         \A y \in Range(Above(SplitPoint(diffPoint, Heaviest(heap)), diffPoint)) :
            /\ y \in DOMAIN diffs
            /\ Combines(TakenDown(acc, y, diffPoint), Reversed(diffs[y]))
    /\ Climbing /\ OnDiffPoint /\ NextUp \in DOMAIN diffs => Combines(acc, diffs[NextUp])
    /\ Climbing /\ OnDiffPoint /\ NextUp \notin DOMAIN diffs /\ status[NextUp] # "disqualified"
         => diffPoint \in DOMAIN multisets
    /\ phase = "commit" =>
         /\ candidate \in DOMAIN multisets
         /\ \A parents \in VirtualParents : Heaviest(parents) = candidate

\* The virtual UTXO set is what the past of the virtual block says it is,
\* whatever order the blocks came in, however the chain went back and forth,
\* and wherever the node crashed; provided that past is self-contained, that is,
\* uses no program that its own chain has not deployed.
UtxoSetIsChainState ==
    \A state \in {Accept(Reference[Sink], MergesetOrder(virtual.parents),
                         VirtualScore(virtual.parents))} :
        state.contained => utxoSet = state.utxo

\* While a resolution walks the DAG, its diff leads from the virtual UTXO set to
\* the state of the diff point: "it is guaranteed that `diff` holds the diff of
\* the returned block from virtual".
DiffLeadsToDiffPoint ==
    phase \in {"search", "up", "commit"} =>
        /\ Fits(utxoSet, acc)
        /\ Apply(utxoSet, acc) = Reference[diffPoint].utxo

\* The verdict on a chain block that uses no program its own chain has not deployed
\* depends on its past alone: not on what the node saw before, in which order, or
\* what other branches deployed into the contract store, which no reorg reverts.
\* (A block that uses a program of another branch is valid or not by whether the
\* node has processed that branch.)
VerdictsArePure ==
    \A b \in bodies : Reference[b].contained =>
        /\ status[b] = "valid" => Reference[b].valid
        /\ status[b] = "disqualified" => ~Reference[b].valid

\* The selected chain store holds the selected chain of the sink.
ChainStoreIsSinksChain == chain = Chain[Sink]

\* The heaviest block in the past of these tips that has a valid chain through
\* the finality point.
BestSink(blocks, final) ==
    Heaviest({b \in InclPast(blocks) : Reference[b].valid /\ OnChain(final, b)})

\* These blocks use no program that their own chains have not deployed.
SelfContained(blocks) == \A b \in blocks : Reference[b].contained

\* A resolution ends with the heaviest valid block of the DAG it started from as
\* the sink, provided its blocks are self-contained.
SinkIsBest ==
    [][virtual' # virtual /\ SelfContained(InclPast(tips))
            => Sink' = BestSink(tips, finality)]_vars

\* The new sink has the finality point of the virtual block before it on its
\* selected chain: no resolution reverts what was final.
FinalityIsKept == [][virtual' # virtual => OnChain(FinalityPoint, Sink')]_vars

\* The sink that the whole DAG leads to.
FinalSinks == [n \in Nets |-> BestSink(n.blocks, Genesis)]
FinalSink == FinalSinks[net]

NothingFinal == net.finality >= Cardinality(net.blocks)

\* While no block is final, and every block is self-contained: whatever the order of
\* the bodies, and whatever crashes came before the last of them, the sink ends up as
\* the heaviest valid block of all: nodes that have the same bodies agree.  A crash after the last body loses the signal of the worker,
\* which then waits for the next body.
SinksConverge ==
    \A n \in 0..MaxCrashes :
        [](crashes = n /\ bodies # net.blocks /\ NothingFinal /\ SelfContained(net.blocks) =>
              [](bodies = net.blocks => <>(Sink = FinalSink \/ crashes # n)))

\* A chain block has the events of every transaction it accepts: "Re-validation
\* on a reorg re-populates with equivalent events, so removal is safe".
EventsAreComplete == \A b \in DOMAIN events : events[b] = accepted[b] \cap Emits

\* A chain block's filter header chains to the one of its selected parent.
FilterHeadersChain ==
    \A b \in DOMAIN filters \ {Genesis} : filters[b] = SelectedParent[b]
=============================================================================

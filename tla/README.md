# Formal verification of the Sophis node

TLA+ models of the consensus core of the Sophis node, the TLC configurations that
check them on small instances, and TLAPS proofs of what holds for every instance.
Paths are relative to the repository; `PROJECT.json` maps each definition to the
lines it models and lists components, hazards, findings and theorems.

    tlc -workers 2 -config MCPruning.cfg MCPruning     # one run
    tlapm TaskManagerProofs.tla                        # one set of proofs

## The system

A block enters through `validate_and_insert_block` and passes four stages, each a
thread with a channel: **header processor**, **body processor**, **virtual
processor**, **pruning processor**.

| Part | State | Operations | What is hard |
|---|---|---|---|
| Dependency manager (`pipeline/deps_manager.rs`) | map of task groups, idle signal | register, try_begin, end, wait_for_idle | closures of a pool interleave; duplicate hashes; shutdown |
| Header and body processors | statuses, tips, bodies | process a task, answer it | races on a status; malleated bodies; answers at exit |
| Virtual processor | virtual UTXO set, diffs, multisets, selected chain, lookup tables, contracts, events, filters | resolve_virtual and its two kinds of write batch | reorgs, disqualified chains, crashes between batches, finality |
| UTXO diffs (`consensus/core/src/utxo`) | add and remove collections | with_diff, reverse, add_transaction | the same outpoint removed and added again |
| Pruning processor | pruning points, retention root, checkpoint, UTXO set position | recover, advance, prune | crashes between batches; IBD under it |
| IBD (`protocol/flows/src/ibd`) | transitional flags, downloaded data | catch up, resume | cut off anywhere; overwrites what pruning uses |
| Mempool and mining manager (`mining/src`) | pool with edges, frontier and outpoint index; orphans; accepted cache | submit, replace, evict, new block, template, revalidate, expire | the lock is released between check and use |
| Consensus manager and factory (`components/consensusmanager`, `consensus/src/consensus/factory.rs`) | entries, metadata, directories | start, stage, commit, cancel, delete | a crash between any two writes; failed deletions |
| UTXO index (`indexes/utxoindex`) | UTXO set, supply, tips | open, update, resync, reset | three separate stores; consensus replaced under it |
| Block relay (`protocol/flows/src/v7/blockrelay`, `flowcontext/orphans.rs`) | orphan pool, shared requests | announce, request, orphan, unorphan, revalidate | several peers, IBD and RPC against one pool |
| sVM, rollup, oracle, wallets, bridge, tools | see PROJECT.json | | mostly computation or I/O |

Correctness means: parents before children and every task answered; the virtual
UTXO set, the verdicts and the sink are functions of the DAG and not of arrival
order; finality is kept; a crash between any two batches is made good; what a
syncing peer needs is never deleted; the pool's indexes agree and a template holds no
double spend; the current consensus survives every replacement; an index that counts
as synced is right; no block is submitted before its parents.

## Modules

- `TaskManager`: the dependency manager and its worker. `sent` is the history of the
  channel, so a task is its position in it; `queue`, `taken` and `deps` are the
  fields of a task group; `spawned` counts closures waiting in the pool. Each
  critical section under the manager's mutex is one action.
- `BlockPipeline`: header, body and virtual stages composed. Each of the first two
  implements `TaskManager` (instances `H` and `B`, property
  `StagesAreTaskManagers`). The rules of headers and bodies are outcomes fixed per
  block (`HeaderFault`, `BodyFault`); which status each outcome writes, and which
  answer is sent where, is the code's.
- `UtxoDiff`, `AccumulatedDiff`: the algebra with its error checks, and the
  accumulation of diffs by a resolution.
- `Dag`: what reachability, GHOSTDAG ordering and depth services answer.
- `VirtualState`: `resolve_virtual` step by step: the sink search, the walk down and
  up, one action per write batch; bodies and mempool validations interleave with it.
  `programs` is the store of contracts and policies, which `calculate_utxo_state`
  writes outside the batches and validation reads; a crash may keep what the
  calculation under way had deployed.
- `PruningPoints`: samples and pruning points as `processes/pruning.rs` computes them.
- `Pruning`: the pruner thread batch by batch, and the IBD catch-up. A chain with
  side blocks stands for the DAG below the finality point.
- `Mempool`: what the manager does to the pool. The lock-protected state is the
  record `mp`, and what the code does under the lock is an operator from records to
  records; an action is one critical section or one call of consensus, and `job`
  holds what a thread carries from one to the next.
- `ConsensusManager`: one action per write to the management store and per file
  operation, so that `CrashManager` fits between any two.
- `UtxoIndex`: extends it by the virtual states of the consensus instances, the
  import of a UTXO set, the notifications and the index, write by write. A virtual
  state is a height. It implements `ConsensusManager` (proved).
- `BlockRelay`: the relay loop of each peer, the orphan pool, `on_new_block` and the
  end of an IBD. Consensus is the set of bodies and the queue of validations; its
  inside is `BlockPipeline`.
- `PipelineInvariants`, `PruningInvariant`: the inductive invariants.
- `TaskManagerProofs`; `BlockPipelineProofs`, `PipelineOrderProofs` and
  `PipelineTheorems`; `PruningProofs`, `PruningWorkProofs` and `PruningTheorems`;
  `StoreProofs` (accumulated diffs, consensus manager and index): lemmas and theorems.
- `MC*`: instances for TLC.

How actions correspond to code:

| Module | Actions | Code |
|---|---|---|
| `TaskManager` | `Register`, `TryBeginDefer`, `TryBeginTake`, `End`; `ReceiveExit`, `WaitForIdle`, `PassExit` | `register`, the two results of `try_begin`, `end`; the worker's loop and exit |
| `BlockPipeline` | `ValidateHeader`, `CommitHeader`, `EndHeader`; `ValidateBody`, `CommitBody`, `EndBody`; `VirtualReceive`, `VirtualResolve` | `process_header`, `commit_header`, the callback of `end`; the same in the body processor; the virtual worker draining its channel and answering the batch |
| `VirtualState` | `StartResolve`, `RejectCandidate`, `WalkDown`; `PropagateDisqualified`, `ReapplyDiff`, `SkipDisqualified`, `Disqualify`, `CommitUtxoState`; `EndWalk`, `CommitVirtual`, `PruneFinalizedMultiset` | `resolve_virtual` and `sink_search_algorithm`; the branches of `calculate_utxo_state_relatively`; the virtual state commit and what follows it |
| `Pruning` | `Extend`, `AddSide`; `StartRecovery`, `StartAdvance`, `AdvancePoint`, `ConfirmDepth`, `AdvanceUtxoSet`, `Prepare`, `TrimTipsAndChain`, `PruneBlock`, `EndPrune`; `StartCatchUp`, `IntrusiveUpdate`, `DownloadBodies`, `ImportUtxoSet`, `SetStable` | blocks that arrive by relay; `recover_pruning_workflows_if_needed`, `advance_pruning_point_if_possible`, `advance_pruning_utxoset`, `prune`; the IBD flow and `intrusive_pruning_point_update` |
| `Mempool` | `Submit`, `Consult`, `Insert`; `NewBlock`, `Reorg`, `HandleNewBlock`; `SelectForTemplate`, `BuildTemplate`, `CleanTemplate`; `StartRevalidation`, `Recheck`, `FinishRevalidation`; `ExpireOrphan`, `ExpireAccepted`, `CollectExpired`, `RemoveExpired` | the parts of `validate_and_insert_transaction` and its batch form; consensus, `handle_new_block_transactions`; `get_block_template`; `revalidate_high_priority_transactions`; the expiry scans |
| `ConsensusManager` | `Start`, `ReadStaging`, `RemoveStagingDir`, `DeleteStagingEntry`, `CancelStaging`, `ListInactive`, `RemoveInactiveDir`, `DeleteInactiveEntry`, `OpenActive`, `CreateActive`, `SaveActive`; `NewStagingEntry`, `OpenStaging`, `Commit`, `Cancel`, `HandlersDone` | `Factory::new`, `new_active_consensus` and the deletions of the factory; `new_staging_consensus`, `StagingConsensus::commit` and `cancel` |
| `UtxoIndex` | `OpenIndex`, `TakeNotification`, `UpdateStep`, `WipeTips` to `ResyncDone`; `Download`, `ClearVirtual`, `CopyVirtual`, `CommitVirtual`, `SetStable`, `ImportHandlers`; `Resolve`, `OldExits` | `UtxoIndex::new`, `update`, `resync` and the reset handler; `sync_new_utxo_set` and `import_pruning_point_utxo_set`; the virtual processors of the new and of the replaced consensus |
| `BlockRelay` | `TakeAnnounced`, `LookKnown`, `Skip`, `Request`, `Receive`, `Answer`, `ProcessOrphan`, `AddOrphan`, `Retry`, `AnswerBatch`; `OnNewBlock`; `IbdStart`, `IbdSync`, `RevalidateOrphans` to `IbdDone`; `SubmitBlock`, `Validate` | `HandleRelayInvsFlow` step by step; `on_new_block`; the IBD flow and `revalidate_orphans`; RPC, consensus |

An operator defined right before another as its variant (`KeepPoint` before
`KeepBlocks`) is a plausible mistake in that code, and is not used by the
specification: each property was seen to fail when the variant takes its place.

## Runs

| Run | Instance and bounds | Shows |
|---|---|---|
| `task_manager` | three blocks, one with two parents; 4 messages | dependency order, single ownership, no stuck group, Exit only when idle |
| `pipeline` | a diamond; 3 tasks out of sound, early and malleated blocks; 792,771 states | answers, tips, statuses, refinement of `TaskManager` |
| `pipeline_faults` | a chain; 3 tasks with faults, trusted and header-only | no unexpected status, and (liveness) every task sent before Exit is answered, also with others behind Exit, and Exit gets through |
| `accumulated_diff` | two outpoints, three DAA scores; unbounded steps | the accumulated diff is exact and a diff that fits is never refused |
| `virtual_state` | three networks, chosen at the start: two branches with a double spend, a merge and a bad header; a trunk with finality depth 2, heavier blocks off it and multisets that fall due; a branch that uses a contract the other one deploys. One crash; 112,590 states | no unwrap of a resolution fails; UTXO set, verdicts, best sink; finality; all arrival orders end in the same sink (liveness) |
| `pruning` | eleven chain blocks over four sampling epochs, two side blocks; two plans: a retention period and two crashes, or a catch-up and a crash | UTXO set positions, consecutive history, settled after recovery, no failed assertion; what a syncee is served; the virtual set of a catch-up |
| `mempool` | five transactions: one, its two conflicting children, an independent one, a child of two; room for 3 and for 1 orphan; 3 submissions, one block, reorg, template and scan; 611,703 states | outpoint index, frontier, orphans, accepted cache, eviction, template |
| `index` | 3 consensus instances, heights to 4, 2 notifications under way, one crash; 870,271 states | the current consensus stays whole, no directory is reused, a synced index is right and (liveness) catches up, but for the cases under observations |
| `relay` | two roots and five blocks above them, two with several parents; two peers and RPC, room for 2 orphans; three scenarios of announcements; 456,873 states | links of the pool, parents first within a batch and a call, and (liveness) the next block brings in what is left |
| `alt_verdicts`, `pruning_overrun`, `index_restart` | | disagreements of code and comments, below |

The bounds let the interesting cases happen: a second task of a hash behind a
running one, a task behind Exit, a reorg away and back, a candidate that fails after
its branch was walked, a second pruning point movement after a crash in the first, a
sample that overshoots its epoch, a pool that is full when a replacement arrives, a
parent inserted between the check and the insertion of its child, a commit on top of
a consensus whose deletion failed, an orphan evicted and
announced again by another peer, and an orphan whose two parents arrive apart, one of
them by RPC. The relay scenarios (`Scenarios` of `MCBlockRelay`) say which
announcements may come together; the order in which peers, RPC, IBD and consensus act
is free. Deadlock is
not checked where the system may stop (after Exit, when all bodies have arrived, or
when the budget of a run is spent).

The modules define further invariants that hold on the same instances and add little
to those of the runs: `TypeOK`, `BodiesAreClosed`,
`ChainStoreIsSinksChain`, `DiffLeadsToDiffPoint`. `PoolHasNoDoubleSpend`,
`StagingHasEntry`, `NoneStranded`, `EventsAreComplete` and `FilterHeadersChain` fail:
see the observations below.

**Fairness.** `pipeline_faults` assumes weak fairness of the three workers and of
each spawned closure: threads of the operating system and of a work-stealing pool,
none of which waits for a lock held across an unbounded wait. `EveryTaskAnswered`
speaks of tasks sent before Exit: a stage stops reading its channel there, and the
senders behind it are dropped with the channel. `virtual_state`
assumes that the resolving thread, when busy, takes steps again and again. After a
crash that loses the worker's signal it waits for the next body, so `SinksConverge`
speaks of crashes before the last body only. `index` assumes that the index
processor, the manager's own steps and the end of an import (flag and handlers, which
run in the task that imported) are not put off for ever; downloads, new blocks and
crashes need not happen. `relay` assumes that consensus ends every validation it was
given (what `EveryTaskAnswered` shows of the pipeline), and that flows, an IBD that
began and the post-processing of a block go on; peers answer what they were asked.

## Findings

1. `alt_verdicts`: a lookup table made on the block's own chain is not seen after a
   reorg away and back, since the chain store is written at the end of the
   resolution and the batch set holds only newly committed blocks.
2. `pruning_overrun`: a catch-up resets the selected chain store while `prune` waits
   for the pruning lock, and an unwrap in `prune` fails.
3. `index_restart`: the UTXO set of a committed staging consensus is marked stable
   before the reset handlers rebuild the index. The index already has these tips, so
   after a crash between the two an empty index counts as synced.

### Observations

Cases the properties make room for, or that properties without a run state.

*Virtual state.* `EventsAreComplete` fails: a sibling that accepts the same selected
parent is indexed without its events, since scripts of the selected parent are not
run again. `FilterHeadersChain` fails: the previous filter header is looked up before
the chain store has the block. Both are indexes that no rule reads.

`calculate_utxo_state` writes deployed contracts and policies to their stores at once
(`utxo_validation.rs:155`), before the block's verdict, for calculations of virtual
and of disqualified blocks too, and nothing takes them back at a reorg. A block that
uses a program of another chain is therefore valid on a node that happened to see the
other chain first, and disqualified on one that did not: in the third network both
verdicts of such a block occur. `UtxoSetIsChainState`, `VerdictsArePure`,
`SinkIsBest` and `SinksConverge` speak of blocks whose programs are all deployed on
their own chain (`contained`), and show that these do not depend on what else is in
the store.

The multisets of blocks below the finality point are deleted after each resolution,
with a margin of 100 chain blocks (`processor.rs:670`). The finality point is that of
virtual, and moves back when virtual no longer merges blocks beside its sink; a
resolution then needs the multiset of a block that was final. `NoPanic` shows that
the margin covers this when it is at least the number of blocks virtual may merge
(`MarginAssumption`), and fails with a smaller one. The code's margin is a constant,
smaller than the mergeset limit of 248 and the k of 124 of the ten-blocks-per-second
network, so the assumption is one on the width of the DAG and not a rule.

*Pruning.* With a retention period, a catch-up leaves the retention root below bodies
that are never downloaded, although `model/stores/pruning.rs:73` says that history is
consecutive from that point. When the pruning point moved and the retention root did
not, the recovery after a crash does not prune, and the anticone of the earlier
pruning point stays until the next prune.

*Mempool.* A child that is pre-validated before its parent is inserted becomes an
orphan although the parent is in the pool, and nothing wakes it. Submitted again, it
is in both pools; `remove_transaction` then removes the orphan copy only, and a
replacement can leave two transactions of the pool that spend one outpoint
(`PoolHasNoDoubleSpend`). The properties except runs where this happened
(`mp.twice`). `update_orphans_after_transaction_removed` with `remove_redeemers`
never removes an orphan of the removed transaction, against the comment at
`remove_transaction.rs:36`. A transaction of high priority is removed with its
expired parent of low priority.

*Consensus manager.* A crash between `delete_entry` and `cancel_staging_consensus`
(`factory.rs:437`) leaves a staging key without an entry, and every later start
fails at the unwrap of `factory.rs:131` (`StagingHasEntry`). A crash between the
creation of a new active consensus and its save leaves a directory that no entry
names and nothing deletes.

*Index.* Notifications of the replaced consensus that are applied after a resync
make the index wrong; `resync` says so in a note (`index.rs:143`), and the history
variable `raced` excepts it. A crash between the override of a UTXO set and the reset
handlers leaves an index that a restart takes as synced (finding 3); `missed` marks
it, and `IndexCatchesUp` makes no promise until the next resync.

*Relay.* What the pool submits itself (`unorphan_blocks`, batches of ancestors,
`revalidate_orphans`) unorphans no children when its validation ends, and
`revalidate_orphans` queues a root and looks at its descendants without awaiting the
body. So orphans stay in the pool with nothing missing (`NoneStranded` fails after 23
states), although `v7/blockrelay/flow.rs:321` says they "are all unorphaned when IBD
completes". Announced again they are skipped (`flow.rs:116`). `NextBlockBringsTheRest`
shows that it does not last: the next block on top of them brings them in.

## Proofs

**`TaskManagerProofs`**, for every set of blocks, every `Parents` and every sequence
of messages. Assumptions: `ParentsAssumption` and `ExitAssumption` (types), and
`AcyclicAssumption` (hashes commit to parents, so every nonempty set of blocks has a
member without a parent in it), used only for `DependenciesNeverStick`. None of the
properties is inductive alone. `IInv` adds: `QueueInv` (the tasks of a group were
received, carry its hash, have not ended and are in channel order), `ReceivedInv` (a
received task has ended or is queued), `DepsInv` (a block waits only behind a direct
parent that is pending) and `WorkerInv` (past `wait_for_idle` the map is empty).
There is a lemma per action; the longest is `end`, where the dependents of a group
that empties get their closures: `OneOwner` needs that a dependents list holds no
hash twice. Theorems: `TypeCorrect`, `NoPanic`, `ExactlyOneOwner`,
`ParentsProcessedFirst`, `HashOrder`, `DependenciesNeverStick`, `ExitWaitsForAll`, and
`TasksEndOnce`, an action property: a step that ends a task ends one that was received
and had not ended, the first unfinished one of its hash, and no task that has ended
becomes pending again.

**The pipeline**, for every DAG, every assignment of faults and every sequence of
submissions. `StagesImplementTaskManager` shows that each step of the pipeline is a
step or a stutter of both task managers, so `PipelineTheorems` takes their `IInv` for
both stages from `TaskManagerProofs` (instances `HP` and `BP`). On top of it, in
`PipelineInvariants`:

- `StatusInv` (`BlockPipelineProofs`): a header closure about to commit finds no
  status, a body closure about to commit finds a header and no body, and only blocks
  with a header are forwarded. Since a stage runs one task of a block at a time, no
  other closure gets between check and commit. Theorems `StatusesAdvance`,
  `InvalidIsDeserved`.
- `LinkInv`, `VirtualInv` (`BlockPipelineProofs`): every message of a channel has its
  task, and the virtual worker is sent tasks of blocks with a status. Theorem
  `PipelineNeverPanics`.
- `TipsInv`: bodies are closed under parents, and a body closure about to commit has
  the bodies of its parents. Theorem `TipsStayMaximal`, with
  the hypothesis `NoTrusted`: a trusted body is added before those of its parents, as
  the code means it to be during IBD, and the tips are then not maximal.
- `AnswerInv`, `BodyAnswerInv` and `LostInv` (`PipelineOrderProofs`): a task that ends
  in the header stage is answered or forwarded; in the channel of the body stage it is
  behind the tasks of its parents submitted before it, as far as they are not
  answered; an answer is final and one that reports a body is right; a task that
  fails for missing parents is *lost*, that is, for some parent all earlier tasks are
  answered and none brought the body. Theorem `NeverSpuriouslyMissing`. The argument
  needs parents-first of both stages and that closures forward when they end.

Assumptions are those of the task manager, that genesis is a block without parents
(`GenesisAssumption`), and the types of `Offered` and `MaxTasks`, which bounds the
number of tasks by any natural number.

**Accumulated diffs** (`StoreProofs`), for all outpoints and scores. `DiffInv` says that the
accumulated diff fits the base set and leads to the current one. The key lemma,
`WithDiffIsSum`, reduces the code's sequence of removals and insertions to a set
expression for diffs that fit; `DiffIsDifference` shows that a diff between two sets
is unique, from which `ReorgBackCancels` follows.

**The consensus manager** (`StoreProofs`), for any number of consensus instances and
crashes.
`SlotsInv` (keys above `max_key_used` are free) and `PointsInv` (what each program
point knows of the keys it works on: the swept set never holds the current key, the
staging key is not the current one) make `CurrentIsWhole` and `NoDirectoryIsReused`
inductive for the manager alone. The node implements the manager
(`NodeImplementsManager`: no step of index, import or consensus touches the manager's
state), so both hold of the specification that run `index` checks.

**Pruning**, for every chain and its scores, every retention plan, and any number of
crashes and catch-ups (`PruningTheorems`: `UtxoSetIsAtItsPosition`, `HistoryIsKept`,
`PruningPointIsServed`, `IdleIsSettled`, `PrunerDoesNotPanic`,
`VirtualSetIsTheSinks`). The argument has two halves:

- *Samples and points* are recursive functions along the chain. The library's
  induction theorems take an operator as a parameter, which the provers cannot
  instantiate; induction for sets (`SetInduction`, from `LeastElement`) takes their
  place. The equations of the three functions hold (`SampleOfEquation`,
  `SamplesEquation`, `PointOfEquation`); the samples below a block
  are the first blocks of the epochs below it (`SamplesAreFirsts`); its pruning point
  is one of them, `P` deep, and never moves back (`PointFacts`, `PointGrows`), where
  `ClampIsDeep` needs that `P` is not close to a multiple of `F`. So a movement of the
  pruning point, by the pruner or by a catch-up, leaves no sample out of the list
  (`MovesHold`).
- *The steps*: `IInv` of `PruningInvariant` is kept by each action. `ListInv` (the list
  of points), `SessionInv` (what the flags in the database say of a catch-up that was
  cut off), `HeldInv` and `KeepInv` (what is held above the pruning point, and what
  `prune` sets aside) hold throughout; `SinkInv`, `HistoryInv`, `WorkInv` and `LeftInv`
  (position, history, the pruner's program points, what a completed prune leaves) hold
  until a catch-up begins. The properties need `WorkInv` because a recovery acts on
  what the batches before a crash left, and `KeepInv` because a deletion relies on what
  was collected under another lock.

Assumptions: `ChainAssumption` and `SideAssumption` (types), `DepthAssumption` and
`MergeAssumption` (scores grow by a mergeset, which is small against `F`; `P` and `F`
are not close to multiples; a block is merged before it is pruning-deep).

Only model-checked: `VirtualState`, `Mempool`, `BlockRelay` and the index itself; all
liveness (outside the prover). The invariants of `VirtualState` rest on recursive
functions over a DAG (past and UTXO state of a block), and on sums and orders of sets.

## Abstractions

- A RocksDB write batch is atomic and durable.
- All blocks are blue: selected parents, mergesets and blue work follow from past
  sizes and weights. In `VirtualState` the pruning point is genesis.
- A transaction is a name with what it spends, makes, cites, deploys and runs; a multiset is the
  UTXO set it commits to; a bad header is one that commits to something else.
- `Pruning`: the pruning proof and the windows are the `Window` headers below the
  point; `lkg_virtual_state` has the same sink as the virtual store; the syncer's
  sink is block `Top`; the UTXO set is the sequence of diffs applied. The node is not
  archival. It is assumed that no body is added by relay between the update of a
  catch-up and its end (the guards of `Extend` and `AddSide`): a relayed block then
  triggers IBD and is not inserted (`v7/blockrelay/flow.rs:158`). A flow reads the flag
  before it requests the block, so this leaves out a block requested just before. A
  failed assertion ends the process (`Panic`), which then restarts. Samples and
  points are computed from the formulas and not read from a store. `NoPanic`,
  `UtxoSetMatchesPosition` and `HistoryIsConsecutive` speak of the time until a
  catch-up begins: afterwards they also fail when the pruner stalls through a whole
  UTXO download and finds the stable flag set again (finding 2 is the short case).
  That `P` is not close to a multiple of `F` is assumed, as
  `assert_pruning_depth_consistency` tests for every network, and that the blocks merged
  by a chain block are fewer than half of `F`.
- `Mempool`: mass and fee are one fee rate and a size; the frontier is its set of
  ready transactions, all of which a template takes; time is that a scan happens. Validation by consensus looks inputs up in the virtual
  state, and a template build may refuse the `Fickle` ones. The template is not cached.
- `ConsensusManager`: an entry is its key; sessions are not modelled. `UtxoIndex`: one
  output per block; a reorg of the virtual state is left to `VirtualState`, whose
  diffs the index applies as they come; the supply kept in memory is left out.
- `BlockRelay`: all blocks are valid, recent enough to be kept as orphans and the node
  is not in a transitional IBD state; peers answer; an operation of the pool is one
  step, as it holds the pool's lock; an IBD brings the past of the relayed block; the
  orphan range check and `should_mine` are free choices. The branch that disconnects a
  peer over its batch is there, and `SubmittedWithParents` shows that it is not taken.

## Not modelled, and the plan

1. `Sequencer` (`rollup/sequencer`): batches against the L1 state with failing
   submissions (a comment in `flush_batch` says a failed batch is retried; its
   transactions were drained).
2. Relay with peers that time out: while a request is shared, announcements by other
   peers are skipped, and lost if the first peer does not answer.
3. The stop of the consensus manager, which reads the current consensus once and may
   race a commit (`lib.rs:199`); sessions.
4. Collection of carrier bodies (`gc_carrier_bodies`), which resumes from a chain index
   that a catch-up resets; archival nodes.
5. Notification subscriptions; the template cache; the oracle relayer.
6. Proofs: the index (`SyncedMeansEqual`) and the orphan pool (`ChildrenAreLinked`).

Out of reach or of little value: cryptography, scripts and the execution of sVM
programs (computation on large data; what its stores do to verdicts is modelled), RPC, wallets, explorer, bridge and tools (I/O around the
components above), peer selection (randomised policy). These are most of the
repository's lines.

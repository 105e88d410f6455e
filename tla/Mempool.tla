------------------------------ MODULE Mempool ------------------------------
(***************************************************************************)
(* The mempool behind the mining manager: the transaction pool with its    *)
(* dependency edges, its frontier of ready transactions and its index of   *)
(* spent outpoints, the orphan pool, and the cache of accepted             *)
(* transactions.                                                           *)
(*                                                                         *)
(* A RwLock protects all of it, but no operation of the manager holds that *)
(* lock throughout.  A submission checks and populates its transactions    *)
(* under the read lock, has consensus validate them under no lock, and     *)
(* inserts them under the write lock; the orphans it frees then go through *)
(* the same two steps.  Template building, revalidation and expiry also    *)
(* alternate.  An action below is what happens under one lock, or one call *)
(* of consensus, so that whatever the threads do between two of them is    *)
(* interleaved.                                                            *)
(*                                                                         *)
(* The lock-protected state is the record mp, and what the code does under *)
(* the lock is an operator from such records to such records.              *)
(***************************************************************************)
EXTENDS Integers, FiniteSets, SequencesExt

CONSTANTS Tx,            \* the transactions that exist
          NoTx,          \* stands for "no transaction"
          Inputs,        \* the outpoints <<maker, index>> a transaction spends
          Fee,           \* its fee rate
          Size,          \* its estimated size in bytes
          Fickle,        \* transactions whose context may invalidate them later
          Batches,       \* what may be submitted: [origin, txs] records
          MaxCount,      \* maximum_transaction_count
          SizeLimit,     \* mempool_size_limit
          MaxOrphans,    \* maximum_orphan_transaction_count
          Budget         \* how often each kind of event happens (a bound)

ASSUME NoTxIsNone == NoTx \notin Tx

VARIABLES mp,            \* the mempool
          confirmed,     \* transactions accepted by the virtual state
          template,      \* the transactions of the last block template
          blocks,        \* transactions of new blocks not handled yet, in order
          job,           \* what each thread of the manager is doing
          left           \* what is left of Budget

vars == <<mp, confirmed, template, blocks, job, left>>

Thread == {"relay", "rpc", "block", "template", "scan"}

Outpoint == UNION {Inputs[t] : t \in Tx}
Maker(o) == o[1]
Parents(t) == {Maker(o) : o \in Inputs[t]} \cap Tx
OutputsOf(t) == SetToSortSeq({o \in Outpoint : Maker(o) = t},
                             LAMBDA a, b : a[2] < b[2])

(***************************************************************************)
(* Where a transaction comes from decides its priority, whether it may be  *)
(* an orphan, and the replace-by-fee policy.  A transaction that leaves    *)
(* the orphan pool may not return there, and its policy follows from its   *)
(* priority alone: with priority high that is the policy of "rpc".         *)
(***************************************************************************)
LowPriority(origin) == origin \in {"relay", "unorphaned"}
OrphanAllowed(origin) == origin \in {"relay", "rpc_orphan"}
Policy(origin) == IF LowPriority(origin) THEN "Allowed"
                  ELSE IF origin = "rpc_replace" THEN "Mandatory" ELSE "Forbidden"
UnorphanedOrigin(high) == IF high THEN "rpc" ELSE "unorphaned"

(***************************************************************************)
(* An item is a transaction on its way into the pool: the outpoints whose  *)
(* UTXO entries are known, the fee rate it has to exceed, where it comes   *)
(* from, and what consensus said of it.                                    *)
(***************************************************************************)
Item(t, known, floor, origin) ==
    [tx |-> t, known |-> known, floor |-> floor, origin |-> origin, verdict |-> "none"]

EmptyPool == [pool |-> {}, high |-> {}, chained |-> {}, ready |-> {},
              owner |-> [o \in Outpoint |-> NoTx],
              orphans |-> {}, highOrphans |-> {}, known |-> [t \in Tx |-> {}],
              accepted |-> {}, panic |-> FALSE,
              \* History: transactions that were confirmed or left the pool,
              \* orphans that came too late for a parent, and whether a
              \* transaction was in both pools.
              gone |-> {}, late |-> {}, twice |-> FALSE]

(***************************************************************************)
(* The virtual UTXO set: coins, and outputs of confirmed transactions, not *)
(* spent by confirmed transactions.                                        *)
(***************************************************************************)
Utxos(C) == {o \in Outpoint : /\ Maker(o) \in Tx => Maker(o) \in C
                              /\ \A t \in C : o \notin Inputs[t]}

-----------------------------------------------------------------------------
(***************************************************************************)
(* Removal.                                                                *)
(***************************************************************************)
Below(edges, t) ==
    LET Chained(S) == {e[2] : e \in {x \in edges : x[1] \in S}}
        Reach[n \in 0..Cardinality(Tx)] ==
            IF n = 0 THEN Chained({t}) ELSE Reach[n - 1] \cup Chained(Reach[n - 1])
    IN  Reach[Cardinality(Tx)]

Redeemers(m, t) == Below(m.chained, t)

OrphanRedeemers(m, t) ==
    IF t \in m.orphans
    THEN Below({e \in m.orphans \X m.orphans : e[1] \in Parents(e[2])}, t)
    ELSE {}

DropOrphans(m, S) ==
    [m EXCEPT !.orphans = @ \ S, !.highOrphans = @ \ S, !.late = @ \ S,
              !.known = [t \in Tx |-> IF t \in S THEN {} ELSE @[t]]]

FreedByAny(m, t) == {c \in Tx : <<t, c>> \in m.chained}
FreedBy(m, t) ==
    {c \in Tx : <<t, c>> \in m.chained /\ \A p \in Tx : <<p, c>> \in m.chained => p = t}

KeepOutpoints(m, t) == m.owner
FreeOutpoints(m, t) == [o \in Outpoint |-> IF o \in Inputs[t] THEN NoTx ELSE m.owner[o]]

RemoveFromPool(m, t) ==
    [m EXCEPT !.pool = @ \ {t}, !.high = @ \ {t}, !.gone = @ \cup {t},
              !.chained = {e \in @ : t \notin {e[1], e[2]}},
              !.ready = (@ \cup FreedBy(m, t)) \ {t},
              !.owner = FreeOutpoints(m, t)]

ForgetOutputs(m, t) ==
    [m EXCEPT !.known = [x \in Tx |-> {o \in @[x] : Maker(o) # t}]]

UpdateOrphans(m, t, redeemers) ==
    IF redeemers THEN DropOrphans(m, OrphanRedeemers(m, t)) ELSE ForgetOutputs(m, t)

RemoveTransaction(m, t, redeemers) ==
    CASE t \in m.orphans -> DropOrphans(m, {t} \cup OrphanRedeemers(m, t))
      [] t \notin m.orphans /\ t \notin m.pool -> m
      [] OTHER ->
         FoldSet(LAMBDA x, a : UpdateOrphans(RemoveFromPool(a, x), x, redeemers),
                 m, {t} \cup (IF redeemers THEN Redeemers(m, t) ELSE {}))

RemoveAll(m, S, redeemers) == FoldSet(LAMBDA x, a : RemoveTransaction(a, x, redeemers), m, S)

-----------------------------------------------------------------------------
(***************************************************************************)
(* Replace by fee.                                                         *)
(***************************************************************************)
DoubleSpends(m, t) == {m.owner[o] : o \in Inputs[t]} \ {NoTx, t}

MeetsPolicy(m, t, policy) ==
    /\ policy = "Forbidden" => DoubleSpends(m, t) = {}
    /\ policy = "Mandatory" => Cardinality(DoubleSpends(m, t)) = 1
    /\ DoubleSpends(m, t) \subseteq m.pool

FeeFloor(m, t) == Max({0} \cup {Fee[x] : x \in DoubleSpends(m, t)})

Outbids(m, t) == \A x \in DoubleSpends(m, t) : Fee[t] > Fee[x]

Replaces(m, t, policy) == MeetsPolicy(m, t, policy) /\ Outbids(m, t)

ReplacedIfMandatory(m, t, policy) ==
    IF policy = "Mandatory" THEN RemoveAll(m, DoubleSpends(m, t), TRUE) ELSE m
Replaced(m, t, policy) == RemoveAll(m, DoubleSpends(m, t), TRUE)

-----------------------------------------------------------------------------
(***************************************************************************)
(* Room in the pool.  The ready transactions of low priority are taken in  *)
(* the order of their fee rates, except those the new one descends from,   *)
(* and are removed with their redeemers until there is room.               *)
(***************************************************************************)
PoolSize(S) == MapThenSumSet(LAMBDA t : Size[t], S)

HasRoom(m, t) == /\ Cardinality(m.pool) < MaxCount
                 /\ PoolSize(m.pool) + Size[t] <= SizeLimit

Evictable(m, t) ==
    SetToSortSeq({x \in m.ready \ m.high : ({x} \cup Redeemers(m, x)) \cap Parents(t) = {}},
                 LAMBDA a, b : Fee[a] < Fee[b])

Enough(m, t, c, k) ==
    /\ Cardinality(m.pool) + 1 - k <= MaxCount
    /\ PoolSize(m.pool) + Size[t] - PoolSize({c[i] : i \in 1..k}) <= SizeLimit

CanEvict(m, t) ==
    \E k \in 1..Len(Evictable(m, t)) :
        Enough(m, t, Evictable(m, t), k) /\ Fee[Evictable(m, t)[k]] <= Fee[t]

Evict(m, t) ==
    LET c == Evictable(m, t)
        k == Min({j \in 1..Len(c) : Enough(m, t, c, j)})
    IN  FoldLeft(LAMBDA a, x : IF HasRoom(a, t) THEN a ELSE RemoveTransaction(a, x, TRUE),
                 m, SubSeq(c, 1, k))

(***************************************************************************)
(* A full orphan pool evicts some orphan of low priority.                  *)
(***************************************************************************)
MadeOrphanRoom(m) ==
    IF Cardinality(m.orphans) < MaxOrphans THEN {m}
    ELSE {DropOrphans(m, {x}) : x \in m.orphans \ m.highOrphans}

Late(m, it) == \E o \in Inputs[it.tx] \ it.known : Maker(o) \in m.pool

AddOrphan(m, it) ==
    [m EXCEPT !.orphans = @ \cup {it.tx}, !.known[it.tx] = it.known,
              !.highOrphans = IF LowPriority(it.origin) THEN @ ELSE @ \cup {it.tx},
              !.late = IF Late(m, it) THEN @ \cup {it.tx} ELSE @]

TryAddOrphan(m, it) ==
    IF \/ MaxOrphans = 0
       \/ \E x \in m.orphans : Inputs[x] \cap Inputs[it.tx] # {}
       \/ MadeOrphanRoom(m) = {}
    THEN {m}
    ELSE {AddOrphan(n, it) : n \in MadeOrphanRoom(m)}

-----------------------------------------------------------------------------
(***************************************************************************)
(* Submission, under the read lock: what is refused at once, and the       *)
(* entries that transactions of the pool provide.                          *)
(***************************************************************************)
PoolEntries(m, t) == {o \in Inputs[t] : Maker(o) \in m.pool}

PreValidated(m, txs, origin) ==
    LET passing == SelectSeq(txs, LAMBDA t : /\ t \notin m.accepted \cup m.pool
                                             /\ MeetsPolicy(m, t, Policy(origin)))
    IN  [i \in 1..Len(passing) |-> Item(passing[i], PoolEntries(m, passing[i]),
                                        FeeFloor(m, passing[i]), origin)]

(***************************************************************************)
(* Consensus, under no lock of the mempool: it fills the entries that are  *)
(* still missing from the virtual UTXO set, trusts those that are filled,  *)
(* and tests the fee rate.                                                 *)
(***************************************************************************)
Validated(it, utxos) ==
    LET known == it.known \cup (Inputs[it.tx] \cap utxos)
    IN  [it EXCEPT !.known = known,
                   !.verdict = CASE known # Inputs[it.tx] -> "missing"
                                 [] known = Inputs[it.tx] /\ it.floor > 0 /\ Fee[it.tx] <= it.floor -> "low"
                                 [] OTHER -> "ok"]

(***************************************************************************)
(* Insertion, under the write lock.  The result is a set of outcomes,      *)
(* because a full orphan pool evicts an arbitrary orphan.                  *)
(***************************************************************************)
AddTransaction(m, it) ==
    LET parents == Parents(it.tx) \cap m.pool
    IN  [m EXCEPT !.pool = @ \cup {it.tx},
                  !.high = IF LowPriority(it.origin) THEN @ ELSE @ \cup {it.tx},
                  !.chained = @ \cup {<<p, it.tx>> : p \in parents},
                  !.ready = IF parents = {} THEN @ \cup {it.tx} ELSE @,
                  !.owner = [o \in Outpoint |-> IF o \in Inputs[it.tx] THEN it.tx ELSE @[o]],
                  !.twice = @ \/ it.tx \in m.orphans,
                  !.panic = @ \/ ~HasRoom(m, it.tx)]

MadeRoomByCount(m, t) == IF Cardinality(m.pool) < MaxCount THEN m ELSE Evict(m, t)
MadeRoom(m, t) == IF HasRoom(m, t) THEN m ELSE Evict(m, t)

AlreadyPooled(m, t) == t \in m.pool
AlreadyKnown(m, t) == t \in m.pool \/ t \in m.accepted

PostValidated(m, it) ==
    LET refused(n) == {[m |-> n, accepted |-> FALSE]}
        replaced == Replaced(m, it.tx, Policy(it.origin))
    IN  CASE AlreadyKnown(m, it.tx) \/ it.verdict = "low" -> refused(m)
          [] ~AlreadyKnown(m, it.tx) /\ it.verdict = "missing" ->
             IF OrphanAllowed(it.origin) /\ MeetsPolicy(m, it.tx, Policy(it.origin))
             THEN UNION {refused(n) : n \in TryAddOrphan(m, it)}
             ELSE refused(m)
          [] OTHER ->
             IF ~Replaces(m, it.tx, Policy(it.origin)) THEN refused(m)
             ELSE IF ~HasRoom(replaced, it.tx) /\ ~CanEvict(replaced, it.tx) THEN refused(replaced)
             ELSE {[m |-> AddTransaction(MadeRoom(replaced, it.tx), it), accepted |-> TRUE]}

(***************************************************************************)
(* A transaction was accepted, by the pool or by a block: the orphans that *)
(* spend its outputs learn their entries, and the ones that know all of    *)
(* them leave the orphan pool for another round of validation.             *)
(***************************************************************************)
Spender(m, o) == {x \in m.orphans : o \in Inputs[x]}

Learn(r, o) ==
    IF \E x \in Spender(r.m, o) : o \notin r.m.known[x]
    THEN LET x == CHOOSE y \in Spender(r.m, o) : TRUE
             m == [r.m EXCEPT !.known[x] = @ \cup {o}]
             high == x \in m.highOrphans
             origin == UnorphanedOrigin(high)
         IN  IF m.known[x] # Inputs[x] THEN [m |-> m, out |-> r.out]
             ELSE [m |-> DropOrphans(m, {x}),
                   out |-> IF x \in m.accepted \/ ~MeetsPolicy(m, x, Policy(origin)) THEN r.out
                           ELSE Append(r.out, Item(x, Inputs[x], 0, origin))]
    ELSE r

UnorphanedNone(m, t, out) == [m |-> m, out |-> out]
Unorphaned(m, t, out) == FoldLeft(Learn, [m |-> m, out |-> out], OutputsOf(t))

InsertOne(r, it) ==
    {IF p.accepted THEN Unorphaned(p.m, it.tx, r.out) ELSE [m |-> p.m, out |-> r.out] :
        p \in PostValidated(r.m, it)}

Inserted(m, items) ==
    FoldLeft(LAMBDA R, it : UNION {InsertOne(r, it) : r \in R}, {[m |-> m, out |-> <<>>]}, items)

(***************************************************************************)
(* A new block: its transaction leaves the pool without its redeemers,     *)
(* whatever spends the same outpoints leaves with them, and the orphans    *)
(* that waited for it are freed.                                           *)
(***************************************************************************)
DoubleSpenders(m, t) == {m.owner[o] : o \in Inputs[t]} \ {NoTx}

HandledBlockTransaction(m, t) ==
    LET left1 == IF t \in m.orphans THEN m ELSE RemoveTransaction(m, t, FALSE)
        left2 == RemoveAll(left1, DoubleSpenders(left1, t), TRUE)
        left3 == DropOrphans(left2, {t} \cap left2.orphans)
    IN  Unorphaned([left3 EXCEPT !.accepted = @ \cup {t}], t, <<>>)

-----------------------------------------------------------------------------
(***************************************************************************)
(* The threads.                                                            *)
(***************************************************************************)
Idle == [pc |-> "idle", items |-> <<>>]
GoOn(th, pc, items) == job' = [job EXCEPT ![th] = IF items = <<>> THEN Idle ELSE [pc |-> pc, items |-> items]]
At(th, pc) == job[th].pc = pc
Spend(kind) == left[kind] > 0 /\ left' = [left EXCEPT ![kind] = @ - 1]

Init == /\ mp = EmptyPool /\ confirmed = {} /\ template = {} /\ blocks = <<>>
        /\ job = [th \in Thread |-> Idle] /\ left = Budget

\* validate_and_insert_transaction(_batch), first part
Submit(th) ==
    /\ th \in {"relay", "rpc"} /\ At(th, "idle") /\ Spend("submit")
    /\ \E b \in Batches : /\ (b.origin = "relay") <=> (th = "relay")
                          /\ PreValidated(mp, b.txs, b.origin) # <<>>
                          /\ GoOn(th, "validate", PreValidated(mp, b.txs, b.origin))
    /\ UNCHANGED <<mp, confirmed, template, blocks>>

Consult(th) ==
    /\ At(th, "validate")
    /\ GoOn(th, "insert", [i \in DOMAIN job[th].items |-> Validated(job[th].items[i], Utxos(confirmed))])
    /\ UNCHANGED <<mp, confirmed, template, blocks, left>>

Insert(th) ==
    /\ At(th, "insert")
    /\ \E r \in Inserted(mp, job[th].items) : mp' = r.m /\ GoOn(th, "validate", r.out)
    /\ UNCHANGED <<confirmed, template, blocks, left>>

\* Consensus adds a block with transaction t. The virtual state accepts t if its
\* inputs are there; a block that lost against a double spend is in the DAG all the same.
NewBlock(t) ==
    /\ t \notin confirmed /\ Parents(t) \subseteq confirmed /\ Spend("block")
    /\ confirmed' = IF Inputs[t] \subseteq Utxos(confirmed) THEN confirmed \cup {t} ELSE confirmed
    /\ mp' = [mp EXCEPT !.gone = @ \cup ({t} \cap confirmed')]
    /\ blocks' = Append(blocks, t)
    /\ UNCHANGED <<template, job>>

\* A reorganisation takes t back, and what spends its outputs.
Reorg(t) ==
    /\ t \in confirmed /\ Spend("reorg")
    /\ confirmed' = confirmed \ ({t} \cup Below({e \in confirmed \X confirmed : e[1] \in Parents(e[2])}, t))
    /\ UNCHANGED <<mp, template, blocks, job>>

HandleNewBlock ==
    /\ At("block", "idle") /\ blocks # <<>>
    /\ LET r == HandledBlockTransaction(mp, Head(blocks))
       IN  mp' = r.m /\ GoOn("block", "validate", r.out)
    /\ blocks' = Tail(blocks)
    /\ UNCHANGED <<confirmed, template, left>>

\* get_block_template: the selector is built under the read lock ...
SelectForTemplate ==
    /\ At("template", "idle") /\ mp.ready # {} /\ Spend("build")
    /\ GoOn("template", "build", SetToSeq({Item(t, {}, 0, "relay") : t \in mp.ready}))
    /\ UNCHANGED <<mp, confirmed, template, blocks>>

\* ... consensus validates what it selects, each transaction for itself ...
BuildTemplate ==
    /\ At("template", "build")
    /\ \E bad \in SUBSET Fickle :
          LET judged(it) == IF it.tx \in bad /\ Validated(it, Utxos(confirmed)).verdict = "ok"
                            THEN [it EXCEPT !.verdict = "invalid"] ELSE Validated(it, Utxos(confirmed))
              items == [i \in DOMAIN job["template"].items |-> judged(job["template"].items[i])]
              passed == SelectSeq(items, LAMBDA it : it.verdict = "ok")
              failed == SelectSeq(items, LAMBDA it : it.verdict # "ok")
          IN  \/ /\ template' = {passed[i].tx : i \in DOMAIN passed}
                 /\ GoOn("template", "idle", <<>>)
              \/ /\ failed # <<>> /\ GoOn("template", "clean", failed)
                 /\ UNCHANGED template
    /\ UNCHANGED <<mp, confirmed, blocks, left>>

\* ... and those that failed are removed under the write lock.
CleanTemplate ==
    /\ At("template", "clean")
    /\ mp' = FoldLeft(LAMBDA m, it : RemoveTransaction(m, it.tx, it.verdict # "missing"), mp, job["template"].items)
    /\ GoOn("template", "idle", <<>>)
    /\ UNCHANGED <<confirmed, template, blocks, left>>

\* revalidate_high_priority_transactions
StartRevalidation ==
    /\ At("scan", "idle") /\ Spend("scan")
    /\ LET txs == {t \in mp.high \ mp.accepted : PoolEntries(mp, t) # Inputs[t]}
       IN  txs # {} /\ GoOn("scan", "recheck", SetToSeq({Item(t, PoolEntries(mp, t), 0, "rpc") : t \in txs}))
    /\ UNCHANGED <<mp, confirmed, template, blocks>>

Recheck ==
    /\ At("scan", "recheck")
    /\ GoOn("scan", "update", [i \in DOMAIN job["scan"].items |-> Validated(job["scan"].items[i], Utxos(confirmed))])
    /\ UNCHANGED <<mp, confirmed, template, blocks, left>>

FinishRevalidation ==
    /\ At("scan", "update")
    /\ mp' = FoldLeft(LAMBDA m, it : IF it.verdict = "missing" THEN RemoveTransaction(m, it.tx, FALSE) ELSE m,
                      mp, job["scan"].items)
    /\ GoOn("scan", "idle", <<>>)
    /\ UNCHANGED <<confirmed, template, blocks, left>>

\* expire_low_priority_transactions: what has expired depends on the clock.
ExpireOrphan ==
    /\ At("scan", "idle") /\ Spend("scan")
    /\ \E t \in mp.orphans \ mp.highOrphans : mp' = DropOrphans(mp, {t})
    /\ UNCHANGED <<confirmed, template, blocks, job>>

ExpireAccepted ==
    /\ At("scan", "idle") /\ Spend("scan")
    /\ \E t \in mp.accepted : mp' = [mp EXCEPT !.accepted = @ \ {t}]
    /\ UNCHANGED <<confirmed, template, blocks, job>>

CollectExpired ==
    /\ At("scan", "idle") /\ Spend("scan")
    /\ \E t \in mp.pool \ mp.high : GoOn("scan", "expire", <<Item(t, {}, 0, "relay")>>)
    /\ UNCHANGED <<mp, confirmed, template, blocks>>

RemoveExpired ==
    /\ At("scan", "expire")
    /\ mp' = FoldLeft(LAMBDA m, it : RemoveTransaction(m, it.tx, TRUE), mp, job["scan"].items)
    /\ GoOn("scan", "idle", <<>>)
    /\ UNCHANGED <<confirmed, template, blocks, left>>

Next == \/ \E th \in Thread : Submit(th) \/ Consult(th) \/ Insert(th)
        \/ \E t \in Tx : NewBlock(t) \/ Reorg(t)
        \/ HandleNewBlock
        \/ SelectForTemplate \/ BuildTemplate \/ CleanTemplate
        \/ StartRevalidation \/ Recheck \/ FinishRevalidation
        \/ ExpireOrphan \/ ExpireAccepted \/ CollectExpired \/ RemoveExpired

Spec == Init /\ [][Next]_vars

-----------------------------------------------------------------------------
(***************************************************************************)
(* Properties.                                                             *)
(***************************************************************************)

\* The pools hold transactions, priorities are of transactions in them, orphans know
\* entries of their own inputs only, and every thread is at a step of its program.
TypeOK ==
    /\ mp.high \subseteq mp.pool /\ mp.pool \subseteq Tx /\ mp.accepted \subseteq Tx
    /\ mp.highOrphans \subseteq mp.orphans /\ mp.orphans \subseteq Tx
    /\ \A t \in Tx : mp.known[t] \subseteq Inputs[t] /\ (mp.known[t] # {} => t \in mp.orphans)
    /\ Cardinality(mp.orphans) <= MaxOrphans
    /\ \A th \in Thread : \A i \in DOMAIN job[th].items : job[th].items[i].tx \in Tx

\* execute_replace_by_fee promises that the transaction it lets in double spends
\* nothing in the pool. No two transactions of the pool spend the same outpoint.
PoolHasNoDoubleSpend == \A s, t \in mp.pool : s # t => Inputs[s] \cap Inputs[t] = {}

\* outpoint_owner_id names, for each outpoint, the one transaction of the pool that
\* spends it, through every interleaving of submissions, replacements, evictions,
\* blocks and expiries, unless a transaction got into both pools.
OwnerIsTheSpender ==
    mp.twice \/ \A o \in Outpoint : {t \in mp.pool : o \in Inputs[t]} = {mp.owner[o]} \ {NoTx}

\* The edges are those between transactions of the pool, and the frontier holds those
\* with no parent in the pool. An edge is missing only if the parent came after the child,
\* and that only happens to a parent that was in the pool, or confirmed, before.
FrontierIsRight ==
    /\ \A e \in mp.chained : {e[1], e[2]} \subseteq mp.pool /\ e[1] \in Parents(e[2])
    /\ \A c \in mp.pool : \A p \in Parents(c) \cap mp.pool : <<p, c>> \in mp.chained \/ p \in mp.gone
    /\ mp.ready = {t \in mp.pool : \A p \in Tx : <<p, t>> \notin mp.chained}

\* An orphan knows the entries that the pool can give it, and misses some other entry,
\* unless its parent was inserted after it was looked up and before it was put aside.
OrphansKnowTheirParents ==
    \A x \in mp.orphans \ mp.late : /\ PoolEntries(mp, x) \subseteq mp.known[x]
                                    /\ mp.known[x] # Inputs[x]

\* handle_new_block_transactions takes a transaction out of the pool for as long as the
\* cache of accepted transactions remembers it, even if it was being validated then.
AcceptedLeavesThePool == mp.twice \/ mp.pool \cap mp.accepted = {}

\* Consensus validates the transactions of a template one by one. That they may be in one
\* block rests on the pool they were selected from: no two of them spend the same outpoint.
TemplateHasNoDoubleSpend ==
    mp.twice \/ \A s, t \in template : s # t => Inputs[s] \cap Inputs[t] = {}

\* limit_transaction_count and the evictions it asks for make room for the transaction
\* that is added: the assertion before add_transaction holds.
EvictionMakesRoom == mp.twice \/ ~mp.panic
=============================================================================

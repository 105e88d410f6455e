-------------------------- MODULE PruningInvariant --------------------------
(***************************************************************************)
(* What the pruner and the catch-up of IBD keep true: the inductive        *)
(* invariant of Pruning, and what moving the pruning point does to it.     *)
(***************************************************************************)
EXTENDS Pruning

-----------------------------------------------------------------------------
\* The list of pruning points

\* The finality-sized interval a score falls in, of which pruning_sample looks for
\* the first block.
Epoch(i) == Score[i] \div F

\* Chain block s is the first of its epoch; genesis counts as one.
First(s) == s = 0 \/ Epoch(s - 1) < Epoch(s)
Firsts(n) == {s \in 0..n : First(s)}

Increasing(f, n) == \A i, j \in 1..n : i < j => f[i] < f[j]

\* A list of the first blocks of all epochs up to p, in ascending order.
ListedTo(list, p) ==
    /\ list \in Seq(Chain) /\ list # <<>> /\ list[Len(list)] = p
    /\ Range(list) = Firsts(p) /\ Increasing(list, Len(list))

-----------------------------------------------------------------------------
\* The inductive invariant

\* The list of pruning points has the first block of every epoch up to the pruning
\* point; the retention root is one of them.
ListInv ==
    /\ ListedTo(points, pp)
    /\ First(root) /\ target <= pp /\ targetRoot <= root /\ plan \in Plans

\* A session of IBD that has begun to replace the UTXO sets.
Importing == {"clear", "import", "copy", "copying", "stable"}
Intrusive == {"bodies", "anticone"} \cup Importing

\* The flags in the database say how far a catch-up got, whatever became of the
\* session.
SessionInv ==
    /\ missing => ~stable
    /\ Transitional => sink <= pp
    /\ session \in Intrusive => ~stable /\ sink <= syncerPoint /\ syncerPoint <= pp
    /\ session \in {"bodies", "anticone"} => missing
    /\ session \in Importing => ~missing
    /\ session \in {"copy", "copying"} => utxo = StateAt(syncerPoint)
    /\ session = "stable" => virtualUtxo = StateAt(sink)
    /\ VirtualSetMatchesSink

\* The sinks that the node or its pruner know of.
Reached(i) == i <= sink \/ i <= message \/ i <= seen

\* What the node holds above its pruning point ...
HeldInv ==
    /\ \A i \in Chain : i >= pp /\ (session = "headers" \/ Reached(i)) => ChainBlock(i) \in headers
    /\ \A i \in Range(points) : ChainBlock(i) \in headers
    /\ \A i \in Chain : i > pp /\ Reached(i) => ChainBlock(i) \in bodies
    /\ ~missing \/ session = "anticone" => ChainBlock(pp) \in bodies
    /\ \A b \in Side : MergedBy[b] > pp /\ MergedBy[b] <= sink => b \in bodies

\* ... and what prune sets aside before it deletes.
Deleting == {"trim", "traverse"}
KeepInv ==
    phase \in Deleting =>
        /\ Anticone(target, Top) \subseteq keep
        /\ \A i \in Range(points) : i < target => ChainBlock(i) \in keepHeaders

\* Until a catch-up begins: what the database says ...
SinkInv ==
    catchUps = 0 =>
        /\ session = "none" /\ stable /\ ~missing
        /\ message <= sink /\ seen <= sink /\ pp <= sink
        /\ pp = 0 \/ Score[pp] + P <= Score[sink]
        /\ chainLow <= root
        /\ utxo = StateAt(position) /\ position <= pp

\* ... what it holds ...
HistoryInv ==
    catchUps = 0 =>
        /\ \A i \in Chain : i <= sink /\ (i > root \/ i > position) => i \in diffs
        /\ \A i \in Chain : i <= sink /\ i >= root => ChainBlock(i) \in bodies
        /\ \A b \in Side : b[1] >= root /\ MergedBy[b] <= sink => b \in bodies

\* ... and where the pruner is.
WorkInv ==
    catchUps = 0 =>
        /\ ~panicked
        /\ phase \in {"confirm", "utxo", "check", "prepare", "trim", "traverse"} =>
             target = pp /\ targetRoot = root /\ (mode = "recover" => ~recovered)
        /\ mode = "recover" => oldCheckpoint = checkpoint
        /\ phase = "check" => mode = "recover"
        /\ phase \in {"confirm", "utxo"} => cursor = position
        /\ phase = "confirm" /\ mode = "advance" => pp # 0
        /\ phase \in {"utxo", "prepare", "trim", "traverse"} => DeepBelowVirtual(target)
        /\ phase \in {"check", "prepare", "trim", "traverse"} => position = pp
        /\ phase = "advance" \/ (phase = "idle" /\ recovered) =>
             position = pp /\ checkpoint = root
        /\ phase = "advance" => recovered
        /\ phase = "refused" => ~recovered

\* Bodies below the root are those of the anticone of a pruning point.
Leftover(b) == \/ InFuture(root, b)
               \/ \E i \in Range(points) : i >= root /\ b \in Anticone(i, sink)
LeftInv ==
    catchUps = 0 =>
        /\ phase \in Deleting => keep \subseteq {ChainBlock(pp)} \cup Anticone(pp, sink)
        /\ checkpoint = root => \A b \in bodies : Leftover(b)

IInv == /\ TypeOK /\ ListInv /\ SessionInv /\ HeldInv /\ KeepInv
        /\ SinkInv /\ HistoryInv /\ WorkInv /\ LeftInv

-----------------------------------------------------------------------------
\* Moves of the pruning point

\* What a change of the list of pruning points does to it.
Moved(p) ==
    /\ p \in Chain /\ First(p) /\ pp < p /\ pp' = p
    /\ ListedTo(points', p)
    /\ root' \in Chain /\ root <= root' /\ root' <= p /\ First(root')

\* The pruning point moves to the point of the header of the sink under work.
Advanced(p) ==
    /\ Moved(p) /\ p = PointOf[seen] /\ p < seen /\ Score[p] + P <= Score[seen]
    /\ mode' = "advance" /\ target' = p /\ targetRoot' = root' /\ cursor' = pp
    /\ phase' = "confirm"
    /\ UNCHANGED <<seen, oldCheckpoint, keep, keepHeaders>>

\* A chain block has a higher score than those below it.
ScoresGrow == \A i, j \in Chain : i < j => Score[i] < Score[j]

\* What moving the pruning point does to the list, in either way; the module
\* PruningTheorems proves it of the functions that compute samples and points.
Moves ==
    /\ ScoresGrow
    /\ TypeOK /\ ListInv /\ AdvancePoint =>
         (Return /\ UNCHANGED <<points, root>>) \/ Advanced(PointOf[seen])
    /\ TypeOK /\ ListInv /\ IntrusiveUpdate => Moved(syncerPoint)
=============================================================================

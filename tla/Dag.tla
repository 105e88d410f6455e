-------------------------------- MODULE Dag --------------------------------
(***************************************************************************)
(* The block DAG as the consensus stores describe it once headers are in:  *)
(* relations, reachability, the selected parent, the ordered mergeset, the *)
(* blue score and work of a block, and the selected chain below it.        *)
(*                                                                         *)
(* Every merged block is blue.  That is what GHOSTDAG computes whenever no *)
(* anticone exceeds its parameter k, as in every DAG smaller than k.       *)
(***************************************************************************)
EXTENDS Integers, FiniteSets, FiniteSetsExt, SequencesExt

CONSTANTS
    Block, Genesis,
    Parents,   \* block -> its direct parents
    Work,      \* block -> the work its difficulty bits stand for
    Rank       \* block -> the place of its hash, which breaks ties of blue work

ASSUME DagAssumption ==
    /\ IsFiniteSet(Block) /\ Genesis \in Block
    /\ Parents \in [Block -> SUBSET Block]
    /\ \A b \in Block : Parents[b] = {} <=> b = Genesis
    /\ Work \in [Block -> Nat \ {0}]
    /\ Rank \in [Block -> Nat]
    /\ \A a, b \in Block : Rank[a] = Rank[b] => a = b

\* is_dag_ancestor_of, without the block itself
Past ==
    LET past[b \in Block] == Parents[b] \cup UNION {past[p] : p \in Parents[b]}
    IN [b \in Block |-> past[b]]

InclPast(S) == S \cup UNION {Past[b] : b \in S}

Antichain(S) == \A a, b \in S : a \notin Past[b]

WorkOf(S) == MapThenSumSet(LAMBDA b : Work[b], S)
BlueWork[b \in Block] == WorkOf(Past[b])
BlueScore[b \in Block] == Cardinality(Past[b])

\* SortableBlock
Lighter(a, b) ==
    \/ BlueWork[a] < BlueWork[b]
    \/ BlueWork[a] = BlueWork[b] /\ Rank[a] < Rank[b]

Heaviest(S) == CHOOSE b \in S : \A a \in S \ {b} : Lighter(a, b)

SelectedParent[b \in Block \ {Genesis}] == Heaviest(Parents[b])

\* The mergeset of a block with these parents: its selected parent, then the
\* rest in ascending order of blue work.
MergesetOrder(parents) ==
    LET selected == Heaviest(parents)
        others == InclPast(parents) \ InclPast({selected})
    IN <<selected>> \o SetToSortSeq(others, Lighter)

\* The selected chain from genesis to b.
Chain ==
    LET chainTo[b \in Block] ==
            IF b = Genesis THEN <<Genesis>> ELSE Append(chainTo[SelectedParent[b]], b)
    IN [b \in Block |-> chainTo[b]]

OnChain(a, b) == a \in Range(Chain[b])

\* calculate_block_at_depth for a block over this selected parent: the last
\* chain block whose blue score is below the required one, or genesis.
BlockAtDepth(score, selected, depth) ==
    LET below == {b \in Range(Chain[selected]) : BlueScore[b] < score - depth}
    IN IF below = {} THEN Genesis ELSE Heaviest(below)
=============================================================================

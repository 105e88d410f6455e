--------------------------- MODULE MCVirtualState ---------------------------
(***************************************************************************)
(* Two branches over a common trunk g <- a <- b: l1 <- l2 and r1 <- r2,    *)
(* with a block that merges the branches, and a block with a bad header.   *)
(* A second network is a trunk with heavier side blocks and a finality of  *)
(* two.  In a third, a block uses a contract that the other branch deploys.*)
(***************************************************************************)
EXTENDS VirtualState

MCRank == [b \in Block |-> CASE b = "g" -> 0 [] b = "a" -> 1 [] b = "b" -> 2
                             [] b = "l1" -> 3 [] b = "r1" -> 4 [] b = "l2" -> 5
                             [] b = "r2" -> 6 [] b = "m" -> 7 [] b = "x" -> 8
                             [] b = "y" -> 15 [] b = "l3" -> 16
                             [] b = "e1" -> 17 [] b = "e2" -> 18
                             [] b = "c" -> 9 [] b = "d" -> 10 [] b = "s1" -> 11
                             [] b = "s2" -> 12 [] b = "t1" -> 13 [] b = "t2" -> 14]
UniformWork == [b \in Block |-> 1]

\* The branches; m merges l2 and r1, and x merges m and r2.
MergeBlocks == {"g", "a", "b", "l1", "l2", "r1", "r2", "m", "x", "y"}
MergeParents == [b \in MergeBlocks |->
    CASE b = "g" -> {} [] b = "a" -> {"g"} [] b = "b" -> {"a"}
      [] b = "l1" -> {"b"} [] b = "l2" -> {"l1"}
      [] b = "r1" -> {"b"} [] b = "r2" -> {"r1"}
      [] b = "m" -> {"l2", "r1"} [] b = "x" -> {"m", "r2"}
      [] b = "y" -> {"r2"}]

\* A trunk up to d; s1 <- s2 leave it early, t1 <- t2 late.  The blocks off the
\* trunk are heavier: s2 outweighs d although it is two blocks below.
DeepBlocks == {"g", "a", "b", "c", "d", "s1", "s2", "t1", "t2"}
DeepParents == [b \in DeepBlocks |->
    CASE b = "g" -> {} [] b = "a" -> {"g"} [] b = "b" -> {"a"}
      [] b = "c" -> {"b"} [] b = "d" -> {"c"}
      [] b = "s1" -> {"a"} [] b = "s2" -> {"s1", "b"}
      [] b = "t1" -> {"b"} [] b = "t2" -> {"t1"}]
DeepWork == [b \in Block |-> IF b \in {"s1", "t1"} THEN 3 ELSE 1]

\* l1 <- l2 as above, and e1 <- e2 beside them.
ShareBlocks == {"g", "a", "b", "l1", "l2", "e1", "e2"}
ShareParents == [b \in ShareBlocks |->
    CASE b = "g" -> {} [] b = "a" -> {"g"} [] b = "b" -> {"a"}
      [] b = "l1" -> {"b"} [] b = "l2" -> {"l1"}
      [] b = "e1" -> {"b"} [] b = "e2" -> {"e1"}]

\* The networks: two where nothing becomes final, and one with a finality of two.
AllBlocks == MergeBlocks \cup DeepBlocks \cup ShareBlocks
AllParents == [b \in AllBlocks |-> CASE b \in MergeBlocks -> MergeParents[b]
                                     [] b \in DeepBlocks -> DeepParents[b]
                                     [] OTHER -> ShareParents[b]]
MergeNet == [blocks |-> MergeBlocks, finality |-> 20, merge |-> 20, limit |-> 3]
DeepNet == [blocks |-> DeepBlocks, finality |-> 2, merge |-> 2, limit |-> 2]
ShareNet == [blocks |-> ShareBlocks, finality |-> 20, merge |-> 20, limit |-> 3]
AllNets == {MergeNet, DeepNet, ShareNet}

\* p and q spend the same coinbase, on the two branches; s spends what p made. f is on
\* the trunk and on t1. p deploys the contract w, which s and u have to run: s follows
\* p, and u, in e2, does not.
PayTx == {"p", "q", "s", "f", "u"}
PayTxs == [b \in Block |-> CASE b = "l1" -> {"p"} [] b = "r1" -> {"q"}
                             [] b = "l2" -> {"s"} [] b = "m" -> {"q"}
                             [] b = "e2" -> {"u"}
                             [] b \in {"c", "t1"} -> {"f"} [] OTHER -> {}]
PaySpends == [t \in PayTx |-> IF t = "s" THEN {"p"} ELSE {"a"}]
PayMakes == [t \in PayTx |-> IF t = "p" THEN {"h"} ELSE {}]
PayDeploys == [t \in PayTx |-> IF t = "p" THEN {"w"} ELSE {}]
PayNeeds == [t \in PayTx |-> IF t \in {"s", "u"} THEN {"w"} ELSE {}]
PayNothing == [t \in PayTx |-> {}]

\* The branches without a merge.  mk, in l1, makes a lookup table; l2 accepts it,
\* and ct, in l3, refers to it.
ForkBlocks == {"g", "a", "b", "l1", "l2", "l3", "r1", "r2"}
ForkParents == [b \in ForkBlocks |->
    CASE b = "g" -> {} [] b = "a" -> {"g"} [] b = "b" -> {"a"}
      [] b = "l1" -> {"b"} [] b = "l2" -> {"l1"} [] b = "l3" -> {"l2"}
      [] b = "r1" -> {"b"} [] b = "r2" -> {"r1"}]
TableTx == {"mk", "ct"}
TableTxs == [b \in Block |-> CASE b = "l1" -> {"mk"} [] b = "l3" -> {"ct"} [] OTHER -> {}]
TableSpends == [t \in TableTx |-> IF t = "mk" THEN {"a"} ELSE {"b"}]
TableMakes == [t \in TableTx |-> IF t = "mk" THEN {"h"} ELSE {}]
TableCites == [t \in TableTx |-> IF t = "ct" THEN {"h"} ELSE {}]
TableNothing == [t \in TableTx |-> {}]

ForkNets == {[blocks |-> ForkBlocks, finality |-> 20, merge |-> 20, limit |-> 3]}
=============================================================================

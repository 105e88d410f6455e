----------------------------- MODULE MCMempool -----------------------------
(***************************************************************************)
(* A parent a, two children b and y that spend the same output of it, an   *)
(* independent d, and o, which spends an output of b and the one of d.     *)
(* The pool has room for three of them and the orphan pool for one.        *)
(***************************************************************************)
EXTENDS Mempool

MCTx == {"a", "b", "y", "d", "o"}
MCInputs == [t \in MCTx |-> CASE t = "a" -> {<<"coin", 1>>} [] t = "d" -> {<<"coin", 2>>}
                              [] t \in {"b", "y"} -> {<<"a", 1>>}
                              [] t = "o" -> {<<"b", 1>>, <<"d", 1>>}]
MCFee == [t \in MCTx |-> CASE t = "a" -> 3 [] t = "b" -> 2 [] t = "y" -> 4 [] t = "d" -> 1 [] t = "o" -> 5]
MCSize == [t \in MCTx |-> CASE t \in {"a", "b"} -> 1 [] t \in {"d", "o"} -> 2 [] t = "y" -> 3]
MCBatches == {[origin |-> "relay", txs |-> s] : s \in {<<"a", "b">>, <<"d">>, <<"o">>, <<"y">>}}
             \cup {[origin |-> "rpc", txs |-> <<"b">>], [origin |-> "rpc_orphan", txs |-> <<"o">>],
                   [origin |-> "rpc_replace", txs |-> <<"y">>], [origin |-> "rpc", txs |-> <<"a">>]}
MCBudget == [submit |-> 3, block |-> 1, reorg |-> 1, build |-> 1, scan |-> 1]
=============================================================================

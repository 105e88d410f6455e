---- MODULE MCBlockRelay ----
(* Two blocks r and z without missing parents, a on r, y on a and z, v on z, and c and *)
(* t on y: y has two parents that can arrive apart, a, y and c are a chain, and v is   *)
(* an orphan that none of them descends from.  In the first scenario v evicts a or y,  *)
(* which comes back; in the second c finds its ancestors in the pool with nothing      *)
(* missing, before they are unorphaned; in the third y is stranded.                    *)
EXTENDS BlockRelay

CONSTANTS p1, p2

DagBlocks == {"r", "z", "a", "y", "v", "c", "t"}
DagParents == [x \in DagBlocks |->
    CASE x \in {"r", "z"} -> <<>> [] x = "a" -> <<"r">> [] x = "y" -> <<"a", "z">>
      [] x = "v" -> <<"z">> [] x = "c" -> <<"y">> [] x = "t" -> <<"y">>]
DagWork == [x \in DagBlocks |->
    CASE x = "r" -> 1 [] x = "z" -> 2 [] x = "a" -> 3 [] x = "v" -> 4 [] x = "y" -> 5
      [] x = "c" -> 6 [] x = "t" -> 7]
DagScenarios == {{<<p1, "t">>, <<p1, "y">>, <<p2, "v">>, <<p2, "y">>},
                 {<<p1, "t">>, <<p1, "y">>, <<p2, "c">>},
                 {<<p1, "t">>, <<p1, "y">>, <<"rpc", "z">>}}
====

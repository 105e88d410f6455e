----------------------------- MODULE MCPruning -----------------------------
(***************************************************************************)
(* A chain of eleven blocks that crosses four sampling epochs, with blue   *)
(* scores that sometimes skip a value, so that a sample may overshoot its  *)
(* epoch, and two side blocks: one in the anticone of the first pruning    *)
(* point, block 3, and one that is never merged.                           *)
(***************************************************************************)
EXTENDS Pruning

MCTop == 10
MCScore == [i \in 0..10 |-> <<0, 1, 2, 4, 5, 6, 8, 9, 10, 11, 12>>[i + 1]]
MCTime == [i \in 0..10 |-> i]
MCSide == {<<2, 1>>, <<4, 1>>}
MCMergedBy == [b \in MCSide |-> IF b = <<2, 1>> THEN 4 ELSE 11]

\* A long retention period with two crashes; a short one with a catch-up and a crash.
MCPlans == {[retention |-> 5, catchUps |-> 0, crashes |-> 2],
            [retention |-> 2, catchUps |-> 1, crashes |-> 1]}
OverrunPlans == {[retention |-> 0, catchUps |-> 1, crashes |-> 0]}
=============================================================================

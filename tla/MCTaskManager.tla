--------------------------- MODULE MCTaskManager ---------------------------
(***************************************************************************)
(* TaskManager on a small DAG: a diamond's edge b1 <- b2 <- b3 with b3     *)
(* also a child of b1, and at most MaxSent messages, duplicates and        *)
(* messages behind Exit included.                                          *)
(***************************************************************************)
EXTENDS TaskManager, TLC

CONSTANTS b1, b2, b3, MaxSent

MCBlock == {b1, b2, b3}
MCParents == (b1 :> {}) @@ (b2 :> {b1}) @@ (b3 :> {b1, b2})

BoundedNext ==
    \/ Len(sent) < MaxSent /\ Submit
    \/ WorkerStep
    \/ \E b \in Block : ClosureStep(b)

BoundedSpec == Init /\ [][BoundedNext]_vars
=============================================================================

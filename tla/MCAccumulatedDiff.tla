-------------------------- MODULE MCAccumulatedDiff --------------------------
(***************************************************************************)
(* Two outpoints and three DAA scores: an entry may be added, removed and  *)
(* accepted anew with another score.                                       *)
(***************************************************************************)
EXTENDS AccumulatedDiff
=============================================================================

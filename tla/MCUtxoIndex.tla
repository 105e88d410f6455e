---------------------------- MODULE MCUtxoIndex ----------------------------
(***************************************************************************)
(* Two staging consensus instances or two keys lost to crashes, peers      *)
(* that offer one pruning point, and virtual states above and below it.    *)
(***************************************************************************)
EXTENDS UtxoIndex
=============================================================================

----------------------------- MODULE MCBroadcast -----------------------------
(***************************************************************************)
(* Model values for Broadcast.  No action and no property tells the        *)
(* connections apart, so they may be permuted.                             *)
(***************************************************************************)
EXTENDS Broadcast, TLC

Symmetry == Permutations(Conns)

=============================================================================

----------------------------- MODULE MCSession -----------------------------
(***************************************************************************)
(* Session for TLC.  The calls of one kind differ in nothing but the order *)
(* in which they are made, so permuting them is a symmetry.                *)
(***************************************************************************)
EXTENDS Session, TLC

CallSymmetry ==
    Permutations(Requests) \cup Permutations(Starts) \cup Permutations(Stops)

=============================================================================

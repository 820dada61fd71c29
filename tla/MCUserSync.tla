----------------------------- MODULE MCUserSync ------------------------------
(***************************************************************************)
(* A small instance of UserSync for TLC.                                   *)
(***************************************************************************)
EXTENDS UserSync

CONSTANTS a1, a2, u1, u2, none
=============================================================================

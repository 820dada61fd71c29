----------------------------- MODULE MCLifecycle -----------------------------
(***************************************************************************)
(* Small instances of Lifecycle for TLC: waits of a few seconds, in the    *)
(* same order of size as the defaults of the code.                         *)
(***************************************************************************)
EXTENDS Lifecycle

CONSTANTS a1, a2, none, any

MCModes == {"off", "auth"}
=============================================================================

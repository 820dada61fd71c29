---------------------------- MODULE MCNetclients -----------------------------
(***************************************************************************)
(* A small instance of Netclients for TLC: a workload of every kind, with  *)
(* the label and the claim on the object, on the template, or on both.     *)
(***************************************************************************)
EXTENDS Netclients, TLC

CONSTANTS j1, j2, t1, none, c1, noclaim

Pod == [kind |-> "pod", onObject |-> TRUE, onTemplate |-> FALSE,
        objectClaim |-> c1, templateClaim |-> noclaim,
        secret |-> "own", volume |-> "none"]
Deployment == [Pod EXCEPT !.kind = "deployment"]

MCSymmetry == Permutations(Jobs)

MCWorkloads ==
  {[Pod EXCEPT !.kind = "proxy", !.onObject = FALSE, !.objectClaim = noclaim],
   Pod,
   [Pod EXCEPT !.volume = "own"],
   [Deployment EXCEPT !.secret = "operator"],
   [Deployment EXCEPT !.onTemplate = TRUE],
   [Deployment EXCEPT !.onObject = FALSE, !.onTemplate = TRUE],
   [Deployment EXCEPT !.onObject = FALSE],
   [Pod EXCEPT !.kind = "set", !.onObject = FALSE, !.onTemplate = TRUE],
   [Pod EXCEPT !.kind = "set", !.objectClaim = noclaim]}
=============================================================================

---------------------------- MODULE MCNetmakerOps ----------------------------
(***************************************************************************)
(* Small instances of NetmakerOps for TLC.                                 *)
(***************************************************************************)
EXTENDS NetmakerOps, TLC

CONSTANTS s1, r1, r2, t1, t2, none

MCOff     == [egress |-> FALSE, ingress |-> FALSE, target |-> none]
MCEgress1 == [egress |-> TRUE, ingress |-> FALSE, target |-> t1]
MCBlank   == [egress |-> TRUE, ingress |-> FALSE, target |-> none]
MCIngress == [egress |-> FALSE, ingress |-> TRUE, target |-> none]
MCBoth    == [egress |-> TRUE, ingress |-> TRUE, target |-> t1]

MCEgress     == {MCOff, MCEgress1, MCBlank}
MCEgressOnly == {MCOff, MCEgress1}
MCOn         == {MCEgress1}
MCConflict   == {MCIngress, MCBoth}
MCAll        == {MCOff, MCEgress1, MCBlank, MCIngress, MCBoth}

Symmetry == Permutations({r1, r2})
=============================================================================

---------------------------- MODULE MCPortRange ------------------------------
(* Model values and bounds for the runs of PortRange. *)
EXTENDS PortRange

CONSTANTS c1, c2, c3

MCClient == {c1, c2, c3}
==============================================================================

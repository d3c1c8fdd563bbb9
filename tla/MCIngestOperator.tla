--------------------------- MODULE MCIngestOperator ---------------------------
(* Model values and bounds for the runs of IngestOperator. *)
EXTENDS IngestOperator, TLC

CONSTANTS ann, bob, r1, r2, gateway

MCOneApp == {ann}
MCTwoApps == {ann, bob}
MCOneCall == {r1}
MCTwoCalls == {r1, r2}
(* Users, and RPC slots, are told apart by nothing. *)
MCSymmetry == Permutations(MCTwoApps) \cup Permutations(MCTwoCalls)
MCOther == {gateway}
MCSerial == {TRUE}
MCConcurrent == {FALSE}
MCBoth == BOOLEAN
==============================================================================

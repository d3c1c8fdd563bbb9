--------------------------- MODULE MCStreamService ---------------------------
(* Model values and bounds for the runs of StreamService. *)
EXTENDS StreamService

CONSTANTS ann, bob, r1, r2

MCOneBroadcaster == {ann}
MCTwoBroadcasters == {ann, bob}
MCStub == {TRUE}
MCOperator == {FALSE}
MCBoth == BOOLEAN
MCOneCall == {r1}
MCTwoCalls == {r1, r2}
==============================================================================

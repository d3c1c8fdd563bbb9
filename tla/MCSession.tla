------------------------------- MODULE MCSession -------------------------------
(* Model values and bounds for the runs of Session. *)
EXTENDS Session

CONSTANTS ann, k1, k2, r1, r2

MCOneUser == {ann}
MCNobody == {}
MCTwoKeys == {k1, k2}
MCTwoCalls == {r1, r2}
==============================================================================

---------------------------- MODULE MCStreamPages ----------------------------
(* Model values and bounds for the run of StreamPages. *)
EXTENDS StreamPages, TLC

CONSTANTS ann, bob, r1, r2, p1

MCTwoBroadcasters == {ann, bob}
MCBoth == BOOLEAN
MCTwoCalls == {r1, r2}
MCOnePeer == {p1}
(* Requests in flight are told apart by nothing. *)
MCSymmetry == Permutations(MCTwoCalls)
(* Once a dashboard has been opened, only ann's stream is explored. The    *)
(* properties say nothing of a dashboard in trouble, so that such a one is *)
(* followed through the first request only.                                *)
MCBound ==
    opened > 0 =>
        /\ \A p \in Peer : peer[p].b # bob
        /\ \A p \in Peer : peer[p].troubled => made <= 1
        /\ \A c \in Call : call[c].b # bob
        /\ told[bob] = "none" /\ ~HasRow(bob)
        /\ \A m \in DOMAIN destroyed : destroyed[m].b # bob
==============================================================================

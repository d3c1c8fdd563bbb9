--------------------------- MODULE MCOperatorProcess ---------------------------
(* Model values and bounds for the run of OperatorProcess. *)
EXTENDS OperatorProcess, TLC

CONSTANTS ann, bob, r1, r2, t1, t2, gateway

MCTwoApps == {ann, bob}
MCSlots == {r1, r2, t1, t2}
MCTasks == {t1, t2}
MCOther == {gateway}
MCSerial == {FALSE}
(* Users, RPC slots and tasks are told apart by nothing. *)
MCSymmetry == Permutations(MCTwoApps) \cup Permutations({r1, r2}) \cup Permutations(MCTasks)
(* What follows a disorder is not explored, for the properties hold there  *)
(* by their condition, but for the shutdown of an empty cluster, in which  *)
(* the wait group panics. The cache is behind on one resource at a time.   *)
Lagging == {<<a, k>> \in App \X Kind : cache[a][k] # cluster[a][k]}
MCBound ==
    /\ orderly \/ (ending # "no" /\ cluster = Empty)
    /\ Cardinality(Lagging) <= 1
==============================================================================

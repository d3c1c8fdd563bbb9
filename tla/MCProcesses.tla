------------------------------ MODULE MCProcesses ------------------------------
(* Processes.tla for TLC. The identity service shares nothing with the     *)
(* others, so that its steps commute with theirs: it moves while the       *)
(* others have not begun to.                                               *)
EXTENDS Processes

MCBound ==
    identity # "down" =>
        ~nats /\ service = "down" /\ operator = "down" /\ outages = 0 /\ ends = 0
================================================================================

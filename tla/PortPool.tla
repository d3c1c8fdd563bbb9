------------------------------ MODULE PortPool -------------------------------
(***************************************************************************)
(* What the node-port allocator promises its callers: a pool of the ports  *)
(* first..last in which a caller is given the lowest port nobody holds, is *)
(* refused only while every port is held, and gives back what it holds.    *)
(* PortRange.tla is the allocator of the code, and implements this module. *)
(***************************************************************************)
EXTENDS Ports

CONSTANTS
    Client,  \* the goroutines that call the allocator
    NoPort   \* what a client that holds no port holds

VARIABLES
    first, last,  \* the range served
    lease,        \* lease[c]: the port client c holds, or NoPort
    refused       \* refused[c]: the latest request of c found no free port

vars == <<first, last, lease, refused>>

Held == {lease[c] : c \in Client} \ {NoPort}

Init ==
    /\ first \in Port
    /\ last \in Port
    /\ MinPortBorder <= first
    /\ first < last
    /\ last <= MaxPortBorder
    /\ lease = [c \in Client |-> NoPort]
    /\ refused = [c \in Client |-> FALSE]

(* A client is given the lowest port that is held by no client. *)
Grant(c) ==
    /\ lease[c] = NoPort
    /\ \E p \in Port :
        /\ LowestFree(first, last, Held, p)
        /\ lease' = [lease EXCEPT ![c] = p]
    /\ refused' = [refused EXCEPT ![c] = FALSE]
    /\ UNCHANGED <<first, last>>

(* A client is told that there is no port, when every port is held. *)
Refuse(c) ==
    /\ lease[c] = NoPort
    /\ FreePorts(first, last, Held) = {}
    /\ refused' = [refused EXCEPT ![c] = TRUE]
    /\ UNCHANGED <<first, last, lease>>

(* A client that was refused asks again. *)
Retry(c) ==
    /\ refused[c]
    /\ refused' = [refused EXCEPT ![c] = FALSE]
    /\ UNCHANGED <<first, last, lease>>

(* A client gives its port back. *)
Release(c) ==
    /\ lease[c] # NoPort
    /\ lease' = [lease EXCEPT ![c] = NoPort]
    /\ UNCHANGED <<first, last, refused>>

Next == \E c \in Client : Grant(c) \/ Refuse(c) \/ Retry(c) \/ Release(c)

Spec == Init /\ [][Next]_vars
==============================================================================

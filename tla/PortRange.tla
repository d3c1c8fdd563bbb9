------------------------------ MODULE PortRange ------------------------------
(***************************************************************************)
(* The node-port allocator of the ingest operator, PortRange of            *)
(* operators/ingestion-operator/pkg/portrange/portrange.go, with the       *)
(* goroutines that call it. GetPort and PortBack are methods that hold the *)
(* mutex mx: GetPort scans the range from portMin for a port that is not a *)
(* key of busyPortRange. One action is one step of one goroutine: take the *)
(* lock, look at one port, store or delete one key and unlock.             *)
(*                                                                         *)
(* The clients here follow the contract of the type: each gives back the   *)
(* port it was given, once, or a port outside the range, which PortBack    *)
(* rejects. IngestOperator.tla is the real caller, which does not always   *)
(* keep to it.                                                             *)
(***************************************************************************)
EXTENDS Ports

CONSTANTS
    Client,  \* the goroutines that call the allocator
    NoPort,  \* the nil *PortState
    Nobody   \* the holder of a free mutex

ASSUME ClientAssumption == Nobody \notin Client /\ NoPort \notin Port

VARIABLES
    portMin, portMax,  \* the range, fixed by NewPortRange
    busyPortRange,     \* the keys of the map of that name
    mx,                \* the goroutine that holds the mutex, or Nobody
    pc,                \* pc[c]: where client c is
    local,             \* local[c]: the loop variable of c's GetPort, or the
                       \* argument of its PortBack
    lease              \* lease[c]: the port c was given and not given back

vars == <<portMin, portMax, busyPortRange, mx, pc, local, lease>>

Location ==
    {"idle",         \* in no method
     "get_locking",  \* in GetPort, waiting for mx
     "get_scan",     \* in the loop of GetPort, holding mx
     "refused",      \* GetPort returned nil
     "back_locking", \* in PortBack, waiting for mx
     "back_locked",  \* in PortBack, holding mx
     "back_failed"}  \* PortBack returned an error

(* The locations in which a client is in no method. *)
Outside == {"idle", "refused", "back_failed"}

TypeOK ==
    /\ portMin \in Port
    /\ portMax \in Port
    /\ busyPortRange \in SUBSET Port
    /\ mx \in Client \cup {Nobody}
    /\ pc \in [Client -> Location]
    /\ local \in [Client -> Port]
    /\ lease \in [Client -> Port \cup {NoPort}]

Init ==
    /\ portMin \in Port
    /\ portMax \in Port
    /\ NewPortRange(portMin, portMax)
    /\ busyPortRange = {}
    /\ mx = Nobody
    /\ pc = [c \in Client |-> "idle"]
    /\ local = [c \in Client |-> 0]
    /\ lease = [c \in Client |-> NoPort]

(* A goroutine calls GetPort. *)
GetPort(c) ==
    /\ pc[c] \in Outside
    /\ lease[c] = NoPort
    /\ pc' = [pc EXCEPT ![c] = "get_locking"]
    /\ UNCHANGED <<portMin, portMax, busyPortRange, mx, local, lease>>

(* Mutant of GetPortLock: the index counts from the border, one too low.   *)
GetPortLockIndex(c) ==
    /\ pc[c] = "get_locking"
    /\ mx = Nobody
    /\ mx' = c
    /\ pc' = [pc EXCEPT ![c] = "get_scan"]
    /\ local' = [local EXCEPT ![c] = portMin - MinPortBorder - 1]
    /\ UNCHANGED <<portMin, portMax, busyPortRange, lease>>

(* mx.Lock() and the initialisation of the loop. *)
GetPortLock(c) ==
    /\ pc[c] = "get_locking"
    /\ mx = Nobody
    /\ mx' = c
    /\ pc' = [pc EXCEPT ![c] = "get_scan"]
    /\ local' = [local EXCEPT ![c] = portMin]
    /\ UNCHANGED <<portMin, portMax, busyPortRange, lease>>

(* The port at the index is busy: i++ on a uint16. *)
GetPortSkip(c) ==
    /\ pc[c] = "get_scan"
    /\ local[c] <= portMax
    /\ local[c] \in busyPortRange
    /\ local' = [local EXCEPT ![c] = NextPort(@)]
    /\ UNCHANGED <<portMin, portMax, busyPortRange, mx, pc, lease>>

(* Mutant of GetPortTake: the map is not consulted. *)
GetPortTakeBusy(c) ==
    /\ pc[c] = "get_scan"
    /\ local[c] <= portMax
    /\ busyPortRange' = busyPortRange \cup {local[c]}
    /\ lease' = [lease EXCEPT ![c] = local[c]]
    /\ mx' = Nobody
    /\ pc' = [pc EXCEPT ![c] = "idle"]
    /\ UNCHANGED <<portMin, portMax, local>>

(* The port at the index is free: it is stored and returned, mx released.  *)
GetPortTake(c) ==
    /\ pc[c] = "get_scan"
    /\ local[c] <= portMax
    /\ local[c] \notin busyPortRange
    /\ busyPortRange' = busyPortRange \cup {local[c]}
    /\ lease' = [lease EXCEPT ![c] = local[c]]
    /\ mx' = Nobody
    /\ pc' = [pc EXCEPT ![c] = "idle"]
    /\ UNCHANGED <<portMin, portMax, local>>

(* Mutants of GetPortFull: the loop stops before portMax; the early return *)
(* keeps the mutex.                                                        *)
GetPortFullEarly(c) ==
    /\ pc[c] = "get_scan"
    /\ local[c] >= portMax
    /\ mx' = Nobody
    /\ pc' = [pc EXCEPT ![c] = "refused"]
    /\ UNCHANGED <<portMin, portMax, busyPortRange, local, lease>>

GetPortFullLocked(c) ==
    /\ pc[c] = "get_scan"
    /\ local[c] > portMax
    /\ pc' = [pc EXCEPT ![c] = "refused"]
    /\ UNCHANGED <<portMin, portMax, busyPortRange, mx, local, lease>>

(* The loop ended: GetPort returns nil. *)
GetPortFull(c) ==
    /\ pc[c] = "get_scan"
    /\ local[c] > portMax
    /\ mx' = Nobody
    /\ pc' = [pc EXCEPT ![c] = "refused"]
    /\ UNCHANGED <<portMin, portMax, busyPortRange, local, lease>>

(* A goroutine calls PortBack with the port it was given, or with one that *)
(* is not in the range.                                                    *)
PortBack(c) ==
    /\ pc[c] \in Outside
    /\ \E p \in Port :
        /\ p = lease[c] \/ p \notin portMin .. portMax
        /\ local' = [local EXCEPT ![c] = p]
    /\ pc' = [pc EXCEPT ![c] = "back_locking"]
    /\ UNCHANGED <<portMin, portMax, busyPortRange, mx, lease>>

PortBackLock(c) ==
    /\ pc[c] = "back_locking"
    /\ mx = Nobody
    /\ mx' = c
    /\ pc' = [pc EXCEPT ![c] = "back_locked"]
    /\ UNCHANGED <<portMin, portMax, busyPortRange, local, lease>>

(* Mutant of PortBackDelete: the key is not deleted. *)
PortBackKept(c) ==
    /\ pc[c] = "back_locked"
    /\ validatePort(local[c])
    /\ local[c] \in busyPortRange
    /\ lease' = [lease EXCEPT ![c] = IF @ = local[c] THEN NoPort ELSE @]
    /\ mx' = Nobody
    /\ pc' = [pc EXCEPT ![c] = "idle"]
    /\ UNCHANGED <<portMin, portMax, busyPortRange, local>>

(* The key is deleted. The stored PortState carries its own key, so the    *)
(* "different ports found" branch of the code is never taken.              *)
PortBackDelete(c) ==
    /\ pc[c] = "back_locked"
    /\ validatePort(local[c])
    /\ local[c] \in busyPortRange
    /\ busyPortRange' = busyPortRange \ {local[c]}
    /\ lease' = [lease EXCEPT ![c] = IF @ = local[c] THEN NoPort ELSE @]
    /\ mx' = Nobody
    /\ pc' = [pc EXCEPT ![c] = "idle"]
    /\ UNCHANGED <<portMin, portMax, local>>

(* An invalid port, or one that is not busy: PortBack returns an error.    *)
PortBackError(c) ==
    /\ pc[c] = "back_locked"
    /\ ~validatePort(local[c]) \/ local[c] \notin busyPortRange
    /\ mx' = Nobody
    /\ pc' = [pc EXCEPT ![c] = "back_failed"]
    /\ UNCHANGED <<portMin, portMax, busyPortRange, local, lease>>

Next ==
    \E c \in Client :
        \/ GetPort(c) \/ GetPortLock(c) \/ GetPortSkip(c)
        \/ GetPortTake(c) \/ GetPortFull(c)
        \/ PortBack(c) \/ PortBackLock(c) \/ PortBackDelete(c)
        \/ PortBackError(c)

Spec == Init /\ [][Next]_vars

(* A goroutine inside a method keeps running, and a sync.Mutex hands the   *)
(* lock to a waiter that has starved for a millisecond: strong fairness of *)
(* the lock. Nothing makes a caller call.                                  *)
Fairness ==
    \A c \in Client :
        /\ SF_vars(GetPortLock(c))
        /\ SF_vars(PortBackLock(c))
        /\ WF_vars(GetPortSkip(c) \/ GetPortTake(c) \/ GetPortFull(c))
        /\ WF_vars(PortBackDelete(c) \/ PortBackError(c))

FairSpec == Spec /\ Fairness

------------------------------------------------------------------------------
(* The ports that clients hold. *)
Held == {lease[c] : c \in Client} \ {NoPort}

(* No port is handed to a second caller while a first one holds it: the    *)
(* check and the store of GetPort are one critical section of mx           *)
(* (portrange.go:28-40).                                                   *)
Exclusive ==
    \A c, d \in Client : lease[c] = lease[d] /\ lease[c] # NoPort => c = d

(* The map neither loses a port a caller holds nor keeps one that was      *)
(* given back, and holds only ports of the range, whatever interleaving of *)
(* GetPort, PortBack and rejected PortBack led here.                       *)
BusyAreHeld ==
    /\ busyPortRange = Held
    /\ busyPortRange \subseteq portMin .. portMax

(* PortBack never fails on the port its caller was given                   *)
(* (portrange.go:43-62): its errors are for foreign ports only.            *)
OwnPortAccepted == \A c \in Client : pc[c] = "back_failed" => local[c] # lease[c]

(* The range that NewPortRange accepts, whose checks mix uint16 arithmetic *)
(* and comparisons (portrange.go:83-107), is a nonempty range between the  *)
(* borders, so that every port it serves passes validatePort and the       *)
(* uint16 loop index of GetPort never wraps.                               *)
RangeServable ==
    /\ portMin < portMax
    /\ \A p \in portMin .. portMax : validatePort(p)
    /\ \A c \in Client : pc[c] = "get_scan" => local[c] \in portMin .. portMax + 1

(* The allocator implements the pool: the port given is the lowest that    *)
(* nobody holds at that moment, and nil is returned only while all of them *)
(* are held (portrange.go:28-41).                                          *)
Pool == INSTANCE PortPool WITH
    first <- portMin,
    last <- portMax,
    refused <- [c \in Client |-> pc[c] = "refused"]

ImplementsPool == Pool!Spec

(* A goroutine that calls GetPort or PortBack returns from it, however the *)
(* others contend for mx: the deferred unlock is on every path.            *)
CallsReturn ==
    \A c \in Client :
        pc[c] \in {"get_locking", "back_locking"}
            ~> pc[c] \in Outside
==============================================================================

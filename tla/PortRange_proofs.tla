--------------------------- MODULE PortRange_proofs ---------------------------
(***************************************************************************)
(* Proofs about the node-port allocator, for every word size, borders and  *)
(* set of clients: its type invariant, the exclusivity of the ports it     *)
(* hands out, and that it implements PortPool.                             *)
(***************************************************************************)
EXTENDS PortRange, TLAPS

(* The strengthening that makes the safety properties inductive.           *)

(* What NewPortRange leaves: a range of two or more ports inside the       *)
(* borders.                                                                *)
RangeInv ==
    /\ MinPortBorder <= portMin
    /\ portMin < portMax
    /\ portMax <= MaxPortBorder

(* The client inside a critical section is the one that holds mx. *)
MutexInv ==
    \A c \in Client : pc[c] \in {"get_scan", "back_locked"} <=> mx = c

(* A client in GetPort holds no port, and the ports its scan has passed    *)
(* are busy.                                                               *)
ScanInv ==
    \A c \in Client :
        /\ pc[c] \in {"get_locking", "get_scan", "refused"} => lease[c] = NoPort
        /\ pc[c] = "get_scan" =>
            /\ local[c] \in portMin .. portMax + 1
            /\ \A p \in portMin .. portMax : p < local[c] => p \in busyPortRange

(* PortBack is called with one's own port or with one outside the range,   *)
(* and fails only on the latter.                                           *)
BackInv ==
    \A c \in Client :
        /\ pc[c] \in {"back_locking", "back_locked"} =>
            local[c] = lease[c] \/ local[c] \notin portMin .. portMax
        /\ pc[c] = "back_failed" => local[c] \notin portMin .. portMax

IInv ==
    /\ TypeOK
    /\ RangeInv
    /\ MutexInv
    /\ ScanInv
    /\ BackInv
    /\ BusyAreHeld
    /\ Exclusive

------------------------------------------------------------------------------
(* A successor that fits in the word does not wrap: the loop index of      *)
(* GetPort (portrange.go:32) is incremented below the border only.         *)
LEMMA NextPortNoWrap ==
    ASSUME NEW p \in Nat, p <= MaxPortBorder
    PROVE  NextPort(p) = p + 1
<1>1. p + 1 \in 0 .. WordSize - 1 /\ WordSize \in Nat /\ WordSize > 0
  BY BordersAssumption
<1>2. QED
  BY <1>1 DEF NextPort

(* The ranges that NewPortRange accepts (portrange.go:83-107) are those    *)
(* between the borders that hold two ports or more.                        *)
LEMMA NewPortRangeSound ==
    ASSUME NEW lo \in Port, NEW hi \in Port, NewPortRange(lo, hi)
    PROVE  MinPortBorder <= lo /\ lo < hi /\ hi <= MaxPortBorder
<1>1. lo # hi
  <2>1. SUFFICES ASSUME lo = hi PROVE FALSE
    OBVIOUS
  <2>2. hi - lo = 0 /\ WordSize \in Nat /\ WordSize > 0
    BY <2>1, BordersAssumption DEF Port
  <2>3. 0 % WordSize = 0
    BY <2>2
  <2>4. QED
    BY <2>2, <2>3 DEF NewPortRange
<1>2. QED
  BY <1>1, BordersAssumption DEF NewPortRange, Port

(* The invariant holds initially. *)
LEMMA InitIInv == Init => IInv
<1>1. SUFFICES ASSUME Init PROVE IInv
  OBVIOUS
<1>2. 0 \in Port
  BY BordersAssumption DEF Port
<1>3. TypeOK
  BY <1>1, <1>2 DEF Init, TypeOK, Location
<1>4. RangeInv
  BY <1>1, NewPortRangeSound DEF Init, RangeInv
<1>5. MutexInv /\ ScanInv /\ BackInv /\ Exclusive
  BY <1>1, ClientAssumption DEF Init, MutexInv, ScanInv, BackInv, Exclusive
<1>6. BusyAreHeld
  BY <1>1 DEF Init, BusyAreHeld, Held
<1>7. QED
  BY <1>3, <1>4, <1>5, <1>6 DEF IInv

(* Every step preserves the invariant; one lemma per action. *)

(* Calling GetPort touches neither the map nor the mutex. *)
LEMMA GetPortPreserves ==
    ASSUME NEW c \in Client
    PROVE  IInv /\ GetPort(c) => IInv'
<1> SUFFICES ASSUME IInv, GetPort(c) PROVE IInv'
  OBVIOUS
<1> USE DEF IInv
<1>1. TypeOK'
  BY BordersAssumption DEF GetPort, TypeOK, Location, Outside, RangeInv, ScanInv, Port
<1>2. RangeInv'
  BY DEF GetPort, RangeInv
<1>3. MutexInv'
  BY ClientAssumption DEF GetPort, TypeOK, MutexInv, Outside, Location
<1>4. ScanInv'
  BY BordersAssumption, ClientAssumption
  DEF GetPort, TypeOK, RangeInv, MutexInv, ScanInv, Outside, Location, Port
<1>5. BackInv'
  BY DEF GetPort, TypeOK, BackInv, Outside, Location
<1>6. BusyAreHeld'
  BY ClientAssumption DEF GetPort, TypeOK, BusyAreHeld, Held
<1>7. Exclusive'
  BY DEF GetPort, TypeOK, Exclusive
<1>8. QED
  BY <1>1, <1>2, <1>3, <1>4, <1>5, <1>6, <1>7

(* Taking mx starts a scan at portMin, with nothing passed yet. *)
LEMMA GetPortLockPreserves ==
    ASSUME NEW c \in Client
    PROVE  IInv /\ GetPortLock(c) => IInv'
<1> SUFFICES ASSUME IInv, GetPortLock(c) PROVE IInv'
  OBVIOUS
<1> USE DEF IInv
<1>1. TypeOK'
  BY BordersAssumption DEF GetPortLock, TypeOK, Location, Outside, RangeInv, ScanInv, Port
<1>2. RangeInv'
  BY DEF GetPortLock, RangeInv
<1>3. MutexInv'
  BY ClientAssumption DEF GetPortLock, TypeOK, MutexInv, Outside, Location
<1>4. ScanInv'
  BY BordersAssumption, ClientAssumption
  DEF GetPortLock, TypeOK, RangeInv, MutexInv, ScanInv, Outside, Location, Port
<1>5. BackInv'
  BY DEF GetPortLock, TypeOK, BackInv, Outside, Location
<1>6. BusyAreHeld'
  BY ClientAssumption DEF GetPortLock, TypeOK, BusyAreHeld, Held
<1>7. Exclusive'
  BY DEF GetPortLock, TypeOK, Exclusive
<1>8. QED
  BY <1>1, <1>2, <1>3, <1>4, <1>5, <1>6, <1>7

(* A skipped port is busy, so what the scan has passed stays busy. *)
LEMMA GetPortSkipPreserves ==
    ASSUME NEW c \in Client
    PROVE  IInv /\ GetPortSkip(c) => IInv'
<1> SUFFICES ASSUME IInv, GetPortSkip(c) PROVE IInv'
  OBVIOUS
<1> USE DEF IInv
<1>1. TypeOK'
  BY NextPortNoWrap, BordersAssumption
  DEF GetPortSkip, TypeOK, Location, Outside, RangeInv, ScanInv, Port
<1>2. RangeInv'
  BY DEF GetPortSkip, RangeInv
<1>3. MutexInv'
  BY ClientAssumption DEF GetPortSkip, TypeOK, MutexInv, Outside, Location
<1>4. ScanInv'
  BY NextPortNoWrap, BordersAssumption, ClientAssumption
  DEF GetPortSkip, TypeOK, RangeInv, MutexInv, ScanInv, Outside, Location, Port
<1>5. BackInv'
  BY DEF GetPortSkip, TypeOK, BackInv, Outside, Location
<1>6. BusyAreHeld'
  BY ClientAssumption DEF GetPortSkip, TypeOK, BusyAreHeld, Held
<1>7. Exclusive'
  BY DEF GetPortSkip, TypeOK, Exclusive
<1>8. QED
  BY <1>1, <1>2, <1>3, <1>4, <1>5, <1>6, <1>7

(* The port taken is new to the map, hence held by nobody. *)
LEMMA GetPortTakePreserves ==
    ASSUME NEW c \in Client
    PROVE  IInv /\ GetPortTake(c) => IInv'
<1> SUFFICES ASSUME IInv, GetPortTake(c) PROVE IInv'
  OBVIOUS
<1> USE DEF IInv
<1>1. TypeOK'
  BY BordersAssumption DEF GetPortTake, TypeOK, Location, Outside, RangeInv, ScanInv, Port
<1>2. RangeInv'
  BY DEF GetPortTake, RangeInv
<1>3. MutexInv'
  BY ClientAssumption DEF GetPortTake, TypeOK, MutexInv, Outside, Location
<1>4. ScanInv'
  BY BordersAssumption, ClientAssumption
  DEF GetPortTake, TypeOK, RangeInv, MutexInv, ScanInv, Outside, Location, Port
<1>5. BackInv'
  BY DEF GetPortTake, TypeOK, BackInv, Outside, Location
<1>6. BusyAreHeld'
  <2>1. Held' = Held \cup {local[c]}
    BY ClientAssumption DEF GetPortTake, TypeOK, ScanInv, Held
  <2>2. local[c] \in portMin .. portMax
    BY DEF GetPortTake, TypeOK, ScanInv, Port
  <2>3. QED
    BY <2>1, <2>2 DEF GetPortTake, BusyAreHeld
<1>7. Exclusive'
  <2>1. \A d \in Client : lease[d] # local[c]
    BY ClientAssumption DEF GetPortTake, TypeOK, BusyAreHeld, Held
  <2>2. QED
    BY <2>1 DEF GetPortTake, TypeOK, Exclusive
<1>8. QED
  BY <1>1, <1>2, <1>3, <1>4, <1>5, <1>6, <1>7

(* A nil answer changes no lease. *)
LEMMA GetPortFullPreserves ==
    ASSUME NEW c \in Client
    PROVE  IInv /\ GetPortFull(c) => IInv'
<1> SUFFICES ASSUME IInv, GetPortFull(c) PROVE IInv'
  OBVIOUS
<1> USE DEF IInv
<1>1. TypeOK'
  BY BordersAssumption DEF GetPortFull, TypeOK, Location, Outside, RangeInv, ScanInv, Port
<1>2. RangeInv'
  BY DEF GetPortFull, RangeInv
<1>3. MutexInv'
  BY ClientAssumption DEF GetPortFull, TypeOK, MutexInv, Outside, Location
<1>4. ScanInv'
  BY BordersAssumption, ClientAssumption
  DEF GetPortFull, TypeOK, RangeInv, MutexInv, ScanInv, Outside, Location, Port
<1>5. BackInv'
  BY DEF GetPortFull, TypeOK, BackInv, Outside, Location
<1>6. BusyAreHeld'
  BY ClientAssumption DEF GetPortFull, TypeOK, BusyAreHeld, Held
<1>7. Exclusive'
  BY DEF GetPortFull, TypeOK, Exclusive
<1>8. QED
  BY <1>1, <1>2, <1>3, <1>4, <1>5, <1>6, <1>7

(* PortBack is called with a port of one's own or a foreign one. *)
LEMMA PortBackPreserves ==
    ASSUME NEW c \in Client
    PROVE  IInv /\ PortBack(c) => IInv'
<1> SUFFICES ASSUME IInv, PortBack(c) PROVE IInv'
  OBVIOUS
<1> USE DEF IInv
<1>1. TypeOK'
  BY BordersAssumption DEF PortBack, TypeOK, Location, Outside, RangeInv, ScanInv, Port
<1>2. RangeInv'
  BY DEF PortBack, RangeInv
<1>3. MutexInv'
  BY ClientAssumption DEF PortBack, TypeOK, MutexInv, Outside, Location
<1>4. ScanInv'
  BY BordersAssumption, ClientAssumption
  DEF PortBack, TypeOK, RangeInv, MutexInv, ScanInv, Outside, Location, Port
<1>5. BackInv'
  BY DEF PortBack, TypeOK, BackInv, Outside, Location
<1>6. BusyAreHeld'
  BY ClientAssumption DEF PortBack, TypeOK, BusyAreHeld, Held
<1>7. Exclusive'
  BY DEF PortBack, TypeOK, Exclusive
<1>8. QED
  BY <1>1, <1>2, <1>3, <1>4, <1>5, <1>6, <1>7

(* Taking mx in PortBack. *)
LEMMA PortBackLockPreserves ==
    ASSUME NEW c \in Client
    PROVE  IInv /\ PortBackLock(c) => IInv'
<1> SUFFICES ASSUME IInv, PortBackLock(c) PROVE IInv'
  OBVIOUS
<1> USE DEF IInv
<1>1. TypeOK'
  BY BordersAssumption
  DEF PortBackLock, TypeOK, Location, Outside, RangeInv, ScanInv, Port
<1>2. RangeInv'
  BY DEF PortBackLock, RangeInv
<1>3. MutexInv'
  BY ClientAssumption DEF PortBackLock, TypeOK, MutexInv, Outside, Location
<1>4. ScanInv'
  BY BordersAssumption, ClientAssumption
  DEF PortBackLock, TypeOK, RangeInv, MutexInv, ScanInv, Outside, Location, Port
<1>5. BackInv'
  BY DEF PortBackLock, TypeOK, BackInv, Outside, Location
<1>6. BusyAreHeld'
  BY ClientAssumption DEF PortBackLock, TypeOK, BusyAreHeld, Held
<1>7. Exclusive'
  BY DEF PortBackLock, TypeOK, Exclusive
<1>8. QED
  BY <1>1, <1>2, <1>3, <1>4, <1>5, <1>6, <1>7

(* A deleted key is the caller's own port. *)
LEMMA PortBackDeletePreserves ==
    ASSUME NEW c \in Client
    PROVE  IInv /\ PortBackDelete(c) => IInv'
<1> SUFFICES ASSUME IInv, PortBackDelete(c) PROVE IInv'
  OBVIOUS
<1> USE DEF IInv
<1>1. TypeOK'
  BY BordersAssumption
  DEF PortBackDelete, TypeOK, Location, Outside, RangeInv, ScanInv, Port
<1>2. RangeInv'
  BY DEF PortBackDelete, RangeInv
<1>3. MutexInv'
  BY ClientAssumption DEF PortBackDelete, TypeOK, MutexInv, Outside, Location
<1>4. ScanInv'
  BY BordersAssumption, ClientAssumption
  DEF PortBackDelete, TypeOK, RangeInv, MutexInv, ScanInv, Outside, Location, Port
<1>5. BackInv'
  BY DEF PortBackDelete, TypeOK, BackInv, Outside, Location
<1>6. BusyAreHeld'
  <2>1. local[c] = lease[c] /\ lease[c] # NoPort
    BY ClientAssumption DEF PortBackDelete, TypeOK, BackInv, BusyAreHeld
  <2>2. Held' = Held \ {local[c]}
    BY <2>1, ClientAssumption DEF PortBackDelete, TypeOK, Held, Exclusive
  <2>3. QED
    BY <2>2 DEF PortBackDelete, BusyAreHeld
<1>7. Exclusive'
  BY DEF PortBackDelete, TypeOK, Exclusive
<1>8. QED
  BY <1>1, <1>2, <1>3, <1>4, <1>5, <1>6, <1>7

(* An error means that the port was a foreign one. *)
LEMMA PortBackErrorPreserves ==
    ASSUME NEW c \in Client
    PROVE  IInv /\ PortBackError(c) => IInv'
<1> SUFFICES ASSUME IInv, PortBackError(c) PROVE IInv'
  OBVIOUS
<1> USE DEF IInv
<1>1. TypeOK'
  BY BordersAssumption
  DEF PortBackError, TypeOK, Location, Outside, RangeInv, ScanInv, Port
<1>2. RangeInv'
  BY DEF PortBackError, RangeInv
<1>3. MutexInv'
  BY ClientAssumption DEF PortBackError, TypeOK, MutexInv, Outside, Location
<1>4. ScanInv'
  BY BordersAssumption, ClientAssumption
  DEF PortBackError, TypeOK, RangeInv, MutexInv, ScanInv, Outside, Location, Port
<1>5. BackInv'
  <2>1. ASSUME local[c] \in portMin .. portMax PROVE FALSE
    <3>1. local[c] = lease[c]
      BY <2>1 DEF PortBackError, BackInv
    <3>2. local[c] \in busyPortRange
      BY <3>1, ClientAssumption DEF TypeOK, BusyAreHeld, Held
    <3>3. validatePort(local[c])
      BY <2>1, BordersAssumption DEF TypeOK, RangeInv, validatePort, Port
    <3>4. QED
      BY <3>2, <3>3 DEF PortBackError
  <2>2. QED
    BY <2>1 DEF PortBackError, TypeOK, BackInv
<1>6. BusyAreHeld'
  BY ClientAssumption DEF PortBackError, TypeOK, BusyAreHeld, Held
<1>7. Exclusive'
  BY DEF PortBackError, TypeOK, Exclusive
<1>8. QED
  BY <1>1, <1>2, <1>3, <1>4, <1>5, <1>6, <1>7

------------------------------------------------------------------------------
(* The invariant is inductive. *)
LEMMA NextIInv == IInv /\ [Next]_vars => IInv'
<1>1. ASSUME IInv, Next PROVE IInv'
  <2>1. PICK c \in Client :
            \/ GetPort(c) \/ GetPortLock(c) \/ GetPortSkip(c)
            \/ GetPortTake(c) \/ GetPortFull(c)
            \/ PortBack(c) \/ PortBackLock(c) \/ PortBackDelete(c)
            \/ PortBackError(c)
    BY <1>1 DEF Next
  <2>2. QED
    BY <1>1, <2>1, GetPortPreserves, GetPortLockPreserves,
       GetPortSkipPreserves, GetPortTakePreserves, GetPortFullPreserves,
       PortBackPreserves, PortBackLockPreserves, PortBackDeletePreserves,
       PortBackErrorPreserves
<1>2. ASSUME IInv, UNCHANGED vars PROVE IInv'
  BY <1>2 DEF vars, IInv, TypeOK, RangeInv, MutexInv, ScanInv, BackInv,
              BusyAreHeld, Held, Exclusive
<1>3. QED
  BY <1>1, <1>2

(* The inductive invariant holds in every state of the allocator. *)
THEOREM Invariance == Spec => []IInv
BY InitIInv, NextIInv, PTL DEF Spec

(* Types: the loop index of GetPort stays a uint16 (portrange.go:32). *)
THEOREM TypeCorrect == Spec => []TypeOK
<1>1. IInv => TypeOK
  BY DEF IInv
<1>2. QED
  BY <1>1, Invariance, PTL

(* For every range, word size and number of goroutines, no two callers     *)
(* hold the same port: portrange.go:28-40 is a critical section.           *)
THEOREM PortsExclusive == Spec => []Exclusive
<1>1. IInv => Exclusive
  BY DEF IInv
<1>2. QED
  BY <1>1, Invariance, PTL

(* The map is exactly the set of ports the callers hold: the allocator     *)
(* neither leaks a port nor forgets one (portrange.go:28-62).              *)
THEOREM PortsAccounted == Spec => []BusyAreHeld
<1>1. IInv => BusyAreHeld
  BY DEF IInv
<1>2. QED
  BY <1>1, Invariance, PTL

(* PortBack accepts the port its caller was given (portrange.go:43-62). *)
THEOREM OwnPortsAccepted == Spec => []OwnPortAccepted
<1>1. IInv => OwnPortAccepted
  <2>1. SUFFICES ASSUME IInv, NEW c \in Client, pc[c] = "back_failed"
                 PROVE  local[c] # lease[c]
    BY DEF OwnPortAccepted
  <2>2. local[c] \notin busyPortRange
    BY <2>1 DEF IInv, BackInv, BusyAreHeld
  <2>3. QED
    BY <2>1, <2>2, ClientAssumption DEF IInv, TypeOK, BusyAreHeld, Held
<1>2. QED
  BY <1>1, Invariance, PTL

(* Every range NewPortRange accepts can be served: its ports pass          *)
(* validatePort and the scan of GetPort ends without wrapping              *)
(* (portrange.go:32, 83-107).                                              *)
THEOREM RangesServable == Spec => []RangeServable
<1>1. IInv => RangeServable
  BY BordersAssumption DEF IInv, TypeOK, RangeInv, ScanInv, RangeServable,
                           validatePort, Port
<1>2. QED
  BY <1>1, Invariance, PTL

------------------------------------------------------------------------------
(* Initial states of the allocator are initial states of the pool. *)
LEMMA InitRefines == Init => Pool!Init
BY BordersAssumption, NewPortRangeSound DEF Init, Pool!Init, Port, Pool!Port

(* Every step of the allocator is a step of the pool or leaves it          *)
(* unchanged.                                                              *)
LEMMA NextRefines == IInv /\ [Next]_vars => [Pool!Next]_(Pool!vars)
<1> SUFFICES ASSUME IInv, [Next]_vars PROVE [Pool!Next]_(Pool!vars)
  OBVIOUS
<1> DEFINE Refused == [c \in Client |-> pc[c] = "refused"]
<1> USE DEF Pool!vars
<1>1. Held = Pool!Held
  BY DEF Held, Pool!Held
<1>2. ASSUME NEW c \in Client, GetPort(c) PROVE [Pool!Next]_(Pool!vars)
  BY <1>2 DEF GetPort, IInv, TypeOK, Outside, Pool!Next, Pool!Retry
<1>3. ASSUME NEW c \in Client, PortBack(c) PROVE [Pool!Next]_(Pool!vars)
  BY <1>3 DEF PortBack, IInv, TypeOK, Outside, Pool!Next, Pool!Retry
<1>4. ASSUME NEW c \in Client,
             GetPortLock(c) \/ GetPortSkip(c) \/ PortBackLock(c) \/ PortBackError(c)
      PROVE  UNCHANGED Pool!vars
  BY <1>4 DEF GetPortLock, GetPortSkip, PortBackLock, PortBackError, IInv, TypeOK
<1>5. ASSUME NEW c \in Client, GetPortTake(c) PROVE Pool!Grant(c)
  <2>1. LowestFree(portMin, portMax, Held, local[c])
    BY <1>5 DEF GetPortTake, IInv, TypeOK, ScanInv, BusyAreHeld, LowestFree,
                FreePorts, Port
  <2>2. lease[c] = NoPort /\ local[c] \in Port
    BY <1>5 DEF GetPortTake, IInv, TypeOK, ScanInv
  <2>3. Refused' = [Refused EXCEPT ![c] = FALSE]
    BY <1>5 DEF GetPortTake, IInv, TypeOK
  <2>4. QED
    BY <1>1, <1>5, <2>1, <2>2, <2>3 DEF GetPortTake, Pool!Grant,
       Pool!LowestFree, Pool!FreePorts, LowestFree, FreePorts, Port, Pool!Port
<1>6. ASSUME NEW c \in Client, GetPortFull(c) PROVE Pool!Refuse(c)
  <2>1. FreePorts(portMin, portMax, Held) = {}
    BY <1>6 DEF GetPortFull, IInv, TypeOK, ScanInv, BusyAreHeld, FreePorts, Port
  <2>2. Refused' = [Refused EXCEPT ![c] = TRUE]
    BY <1>6 DEF GetPortFull, IInv, TypeOK
  <2>3. QED
    BY <1>1, <1>6, <2>1, <2>2 DEF GetPortFull, IInv, ScanInv, Pool!Refuse,
       Pool!FreePorts, FreePorts
<1>7. ASSUME NEW c \in Client, PortBackDelete(c) PROVE Pool!Release(c)
  <2>1. local[c] = lease[c] /\ lease[c] # NoPort
    BY <1>7, ClientAssumption DEF PortBackDelete, IInv, TypeOK, BackInv, BusyAreHeld
  <2>2. Refused' = Refused
    BY <1>7 DEF PortBackDelete, IInv, TypeOK
  <2>3. QED
    BY <1>7, <2>1, <2>2 DEF PortBackDelete, Pool!Release, IInv, TypeOK
<1>8. ASSUME UNCHANGED vars PROVE UNCHANGED Pool!vars
  BY <1>8 DEF vars
<1>9. QED
  BY <1>2, <1>3, <1>4, <1>5, <1>6, <1>7, <1>8 DEF Next, Pool!Next

(* The allocator of the code implements the pool it is used as: the port   *)
(* given is the lowest that nobody holds, and a nil answer means that      *)
(* every port of the range is held (portrange.go:28-41).                   *)
THEOREM RefinesPool == Spec => ImplementsPool
<1>1. Spec => Pool!Spec
  BY InitRefines, NextRefines, Invariance, PTL DEF Spec, Pool!Spec
<1>2. QED
  BY <1>1 DEF ImplementsPool
==============================================================================

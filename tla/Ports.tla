-------------------------------- MODULE Ports --------------------------------
(***************************************************************************)
(* The values and the pure rules of the node-port allocator of the ingest  *)
(* operator (operators/ingestion-operator/pkg/portrange/portrange.go): a   *)
(* Port is a uint16, a range of ports lies between two compiled-in         *)
(* borders, and a range serves its lowest free port.                       *)
(***************************************************************************)
EXTENDS Integers

CONSTANTS
    WordSize,       \* number of values of a Port: 65536 in the code
    MinPortBorder,  \* 20000 in the code
    MaxPortBorder   \* 24999 in the code

(* The borders lie strictly inside the word: port 0 is never valid and the *)
(* successor of the largest valid port is still a Port, so the scan of     *)
(* GetPort, whose index is a Port, passes portMax instead of wrapping.     *)
ASSUME BordersAssumption ==
    /\ WordSize \in Nat
    /\ MinPortBorder \in Nat
    /\ MaxPortBorder \in Nat
    /\ 0 < MinPortBorder
    /\ MinPortBorder <= MaxPortBorder
    /\ MaxPortBorder + 1 < WordSize

(* uint16, the underlying type of Port. *)
Port == 0 .. WordSize - 1

(* The successor a loop index of type Port takes, with its wrap-around. *)
NextPort(p) == (p + 1) % WordSize

(* validatePort returns nil. *)
validatePort(p) ==
    /\ p # 0
    /\ ~(p > MaxPortBorder)
    /\ ~(p < MinPortBorder)

(* Mutant of NewPortRange: portMin is not checked against the borders. *)
NewPortRangeLowUnchecked(lo, hi) ==
    /\ ~(lo = 0 /\ hi = 0)
    /\ (hi - lo) % WordSize # 0
    /\ ~(hi > MaxPortBorder \/ hi < MinPortBorder)
    /\ ~(lo > hi)

(* NewPortRange returns a range for (lo, hi) rather than an error; the     *)
(* difference is taken on uint16 values.                                   *)
NewPortRange(lo, hi) ==
    /\ ~(lo = 0 /\ hi = 0)
    /\ (hi - lo) % WordSize # 0
    /\ ~(hi > MaxPortBorder \/ hi < MinPortBorder)
    /\ ~(lo > MaxPortBorder \/ lo < MinPortBorder)
    /\ ~(lo > hi)

(* Mutant of FreePorts: the scan starts one port too low. *)
FreePortsLow(lo, hi, busy) == (lo - 1 .. hi) \ busy

(* The ports of the range lo..hi that busy does not hold. *)
FreePorts(lo, hi, busy) == (lo .. hi) \ busy

(* p is the port GetPort serves from the range lo..hi: the first one, from *)
(* lo upwards, that is not a key of busy.                                  *)
LowestFree(lo, hi, busy, p) ==
    /\ p \in FreePorts(lo, hi, busy)
    /\ \A q \in FreePorts(lo, hi, busy) : p <= q
==============================================================================

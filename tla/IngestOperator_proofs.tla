------------------------ MODULE IngestOperator_proofs ------------------------
(***************************************************************************)
(* Proofs about the ingest operator, for every set of users, every number  *)
(* of overlapping RPCs, every port range and every fault: its type         *)
(* invariant, and that an ingest is announced destroyed at most once; and, *)
(* for users each of whom waits for an answer, that the answers are true   *)
(* and that no port is lost.                                               *)
(***************************************************************************)
EXTENDS IngestOperator, FiniteSetTheorems, TLAPS

RangePorts == portMin .. portMax

(* A record an RPC can have: it serves a user, its lease is from the       *)
(* range, and it announces only after its goroutine deleted the deployment.*)
RpcOK(r) ==
    /\ r \in Rpc
    /\ r.port \in RangePorts \cup {None}
    /\ r.pc # "idle" => r.app \in App
    /\ r.pc = "announcing" => r.part["deployment"] = "done"

CallInv == \A c \in Call : RpcOK(call[c])

(* The RPC has deleted a's deployment and has still to announce it.        *)
OwesAnnouncement(r, a) ==
    /\ r.app = a
    /\ r.pc \in {"stopping", "announcing"}
    /\ r.part["deployment"] = "done"

Due(a) == {c \in Call : OwesAnnouncement(call[c], a)}

(* Each deployment created is accounted for at most once: it was           *)
(* announced, it is still there, or one RPC alone has deleted it and has   *)
(* still to announce it.                                                   *)
CountInv ==
    \A a \in App : announced[a] + Deployed(a) + Cardinality(Due(a)) <= created[a]

IInv == TypeOK /\ CallInv /\ CountInv

------------------------------------------------------------------------------
(* The range of the allocator consists of ports. *)
LEMMA RangeOfPorts == RangePorts \subseteq Port /\ None \notin RangePorts
BY OperatorAssumption, BordersAssumption DEF RangePorts, Port

(* The kinds that carry a port are kinds. *)
LEMMA Kinds == PortKind \subseteq Kind /\ "deployment" \in Kind
BY DEF PortKind, Kind

LEMMA DueIsFinite ==
    ASSUME NEW a
    PROVE  /\ IsFiniteSet(Due(a)) /\ Cardinality(Due(a)) \in Nat
           /\ IsFiniteSet(Due(a)') /\ Cardinality(Due(a)') \in Nat
<1>1. Due(a) \in SUBSET Call /\ Due(a)' \in SUBSET Call /\ IsFiniteSet(Call)
  BY OperatorAssumption DEF Due
<1>2. IsFiniteSet(Due(a)) /\ IsFiniteSet(Due(a)')
  BY <1>1, FS_Subset
<1> QED
  BY <1>2, FS_CardinalityType

LEMMA DeployedType ==
    ASSUME NEW a
    PROVE  Deployed(a) \in {0, 1} /\ Deployed(a)' \in {0, 1}
BY DEF Deployed

(* A fresh RPC record owes nothing. *)
LEMMA IdleRpc ==
    RpcOK(Idle) /\ Idle.pc = "idle" /\ \A a : ~OwesAnnouncement(Idle, a)
<1>1. Idle \in Rpc /\ Idle.pc = "idle" /\ Idle.port = None
  BY DEF Idle, Rpc, Phase, Progress
<1> QED
  BY <1>1 DEF RpcOK, OwesAnnouncement

(* A step of c alone, to an RPC that owes no more than before, that        *)
(* announces nothing and creates as many deployments as it adds.           *)
LEMMA OneRpcStep ==
    ASSUME IInv, NEW c \in Call, NEW r, call' = [call EXCEPT ![c] = r], RpcOK(r),
           \A a \in App : OwesAnnouncement(r, a) => OwesAnnouncement(call[c], a),
           announced' = announced, created' \in [App -> Nat],
           \A a \in App : created[a] + Deployed(a)' <= created'[a] + Deployed(a)
    PROVE  call' \in [Call -> Rpc] /\ CallInv' /\ CountInv'
<1>1. \A d \in Call : call'[d] = IF d = c THEN r ELSE call[d]
  BY DEF IInv, TypeOK
<1>2. call' \in [Call -> Rpc] /\ CallInv'
  BY <1>1 DEF IInv, TypeOK, CallInv, RpcOK
<1>3. ASSUME NEW a \in App
      PROVE  (announced[a] + Deployed(a) + Cardinality(Due(a)) <= created[a])'
  <2>1. Due(a)' \in SUBSET Due(a)
    BY <1>1 DEF Due
  <2>2. Cardinality(Due(a)') <= Cardinality(Due(a))
    BY <2>1, DueIsFinite, FS_Subset
  <2>3. announced[a] + Deployed(a) + Cardinality(Due(a)) <= created[a]
    BY DEF IInv, CountInv
  <2>4. announced[a] \in Nat /\ created[a] \in Nat /\ created'[a] \in Nat
    BY DEF IInv, TypeOK
  <2> QED
    BY <2>2, <2>3, <2>4, DueIsFinite, DeployedType
<1> QED
  BY <1>2, <1>3 DEF CountInv

(* The same of a step that creates and deletes nothing. *)
LEMMA QuietRpcStep ==
    ASSUME IInv, NEW c \in Call, NEW r, call' = [call EXCEPT ![c] = r], RpcOK(r),
           \A a \in App : OwesAnnouncement(r, a) => OwesAnnouncement(call[c], a),
           UNCHANGED <<cluster, history>>
    PROVE  call' \in [Call -> Rpc] /\ CallInv' /\ CountInv'
<1>1. /\ announced' = announced /\ created' = created
      /\ created \in [App -> Nat]
  BY DEF history, IInv, TypeOK
<1>2. \A a \in App : Deployed(a)' = Deployed(a)
  BY DEF Deployed
<1>3. \A a \in App : created[a] + Deployed(a)' <= created'[a] + Deployed(a)
  BY <1>1, <1>2, DeployedType
<1> QED
  BY <1>1, <1>3, OneRpcStep

(* An answered RPC (service.go:66-86) has a fresh record. *)
LEMMA AnsweredRpc ==
    ASSUME IInv, NEW c \in Call, NEW result \in {"started", "stopped", "error"},
           Answer(c, result)
    PROVE  /\ call' = [call EXCEPT ![c] = Idle]
           /\ answer' \in [App -> {"none", "started", "stopped", "error"}]
BY DEF Answer, IInv, TypeOK

(* After StopIngestSystem (service.go:57-85) an RPC owes nothing. *)
LEMMA ReturnedRpc ==
    ASSUME IInv, NEW c \in Call, call[c].pc # "idle",
           NEW result \in {"stopped", "error"}, StopReturns(c, result)
    PROVE  /\ \E r \in Rpc : /\ call' = [call EXCEPT ![c] = r]
                             /\ RpcOK(r)
                             /\ \A a : ~OwesAnnouncement(r, a)
           /\ answer' \in [App -> {"none", "started", "stopped", "error"}]
<1> DEFINE r == [Idle EXCEPT !.pc = "get_port", !.op = "start", !.app = call[c].app]
<1>1. CASE call' = [call EXCEPT ![c] = r] /\ UNCHANGED answer
  <2>1. call[c].app \in App
    BY DEF IInv, CallInv, RpcOK
  <2>2. Idle \in Rpc /\ Idle.port = None
    BY IdleRpc DEF RpcOK, Idle
  <2>3. r \in Rpc /\ r.port = None /\ r.pc = "get_port" /\ r.app = call[c].app
    BY <2>1, <2>2 DEF Rpc, Phase
  <2> HIDE DEF r
  <2>4. RpcOK(r) /\ \A a : ~OwesAnnouncement(r, a)
    BY <2>1, <2>3 DEF RpcOK, OwesAnnouncement
  <2> QED
    BY <1>1, <2>3, <2>4 DEF IInv, TypeOK
<1>2. CASE Answer(c, result)
  BY <1>2, AnsweredRpc, IdleRpc DEF RpcOK
<1> QED
  BY <1>1, <1>2 DEF StopReturns

(* The goroutine of resource k makes progress p: a record of the same RPC. *)
LEMMA ProgressedRpc ==
    ASSUME IInv, NEW c \in Call, call[c].pc \in {"stopping", "creating"},
           NEW k \in Kind, NEW p \in Progress, Becomes(c, k, p)
    PROVE  \E r \in Rpc :
            /\ call' = [call EXCEPT ![c] = r]
            /\ RpcOK(r)
            /\ r.pc = call[c].pc /\ r.app = call[c].app
            /\ r.part = [call[c].part EXCEPT ![k] = p]
            /\ r.seen = call[c].seen /\ r.port = call[c].port /\ r.op = call[c].op
<1> DEFINE r == [call[c] EXCEPT !.part = [call[c].part EXCEPT ![k] = p]]
<1>1. call[c] \in Rpc /\ RpcOK(call[c])
  BY DEF IInv, TypeOK, CallInv
<1>2. [call[c].part EXCEPT ![k] = p] \in [Kind -> Progress]
  BY <1>1 DEF Rpc
<1>3. /\ r \in Rpc /\ r.pc = call[c].pc /\ r.app = call[c].app /\ r.port = call[c].port
      /\ r.part = [call[c].part EXCEPT ![k] = p]
      /\ r.seen = call[c].seen /\ r.op = call[c].op
  BY <1>1, <1>2 DEF Rpc
<1>4. call' = [call EXCEPT ![c] = r]
  BY <1>1 DEF Becomes, Rpc
<1> HIDE DEF r
<1>5. RpcOK(r)
  BY <1>1, <1>3 DEF RpcOK
<1> QED
  BY <1>3, <1>4, <1>5

------------------------------------------------------------------------------
(* One lemma per operation: it preserves the invariant. *)

(* An RPC begins (service.go:46-86). *)
LEMMA BeginStep ==
    ASSUME IInv, NEW c \in Call, NEW a \in App, NEW op \in {"start", "stop"},
           Begin(c, a, op)
    PROVE  IInv'
<1> DEFINE r == [Idle EXCEPT !.pc = "stopping", !.op = op, !.app = a]
<1>1. TypeOK /\ MaxCalls \in Nat /\ made \in 0 .. MaxCalls /\ made < MaxCalls
  BY OperatorAssumption DEF IInv, TypeOK, Begin
<1>2. Idle \in Rpc /\ Idle.port = None /\ Idle.part = [k \in Kind |-> "todo"]
  BY IdleRpc DEF RpcOK, Idle
<1>3. /\ r \in Rpc /\ r.port = None /\ r.pc = "stopping" /\ r.app = a
      /\ r.part = [k \in Kind |-> "todo"]
  BY <1>2 DEF Rpc, Phase
<1> HIDE DEF r
<1>4. RpcOK(r) /\ \A b : ~OwesAnnouncement(r, b)
  BY <1>3, Kinds DEF RpcOK, OwesAnnouncement
<1>5. /\ call' = [call EXCEPT ![c] = r] /\ made' = made + 1
      /\ UNCHANGED <<busyPortRange, cluster, cache, history, serial, crashes>>
  BY DEF Begin, r
<1>6. call' \in [Call -> Rpc] /\ CallInv' /\ CountInv'
  BY <1>4, <1>5, QuietRpcStep
<1>7. answer' \in [App -> {"none", "started", "stopped", "error"}]
  BY <1>1 DEF TypeOK, Begin
<1>8. TypeOK'
  BY <1>1, <1>5, <1>6, <1>7 DEF TypeOK, history
<1> QED
  BY <1>6, <1>8 DEF IInv

(* A stop reads a resource (ingest_resource_manager.go:217-268). *)
LEMMA FindResourceStep ==
    ASSUME IInv, NEW c \in Call, NEW k \in Kind, FindResource(c, k)
    PROVE  IInv'
<1>1. /\ TypeOK /\ call[c] \in Rpc /\ RpcOK(call[c])
      /\ call[c].pc = "stopping" /\ call[c].app \in App
      /\ UNCHANGED <<busyPortRange, cluster, cache, answer, history, bounds>>
  BY DEF IInv, TypeOK, CallInv, RpcOK, FindResource, FindIngest, FindRoute, NotFound, At
<1>2. PICK r \in Rpc :
        /\ call' = [call EXCEPT ![c] = r] /\ RpcOK(r)
        /\ \A a \in App : OwesAnnouncement(r, a) => OwesAnnouncement(call[c], a)
  <2>1. ASSUME NEW p \in {"found", "failed"}, Becomes(c, k, p)
        PROVE  \E r \in Rpc :
                /\ call' = [call EXCEPT ![c] = r] /\ RpcOK(r)
                /\ \A a \in App : OwesAnnouncement(r, a) => OwesAnnouncement(call[c], a)
    <3>1. PICK r \in Rpc :
            /\ call' = [call EXCEPT ![c] = r] /\ RpcOK(r)
            /\ r.pc = call[c].pc /\ r.app = call[c].app
            /\ r.part = [call[c].part EXCEPT ![k] = p]
      <4>1. p \in Progress /\ call[c].pc \in {"stopping", "creating"}
        BY <1>1 DEF Progress
      <4> QED
        BY <2>1, <4>1, ProgressedRpc
    <3>2. call[c].part \in [Kind -> Progress]
      BY <1>1 DEF Rpc
    <3> QED
      BY <3>1, <3>2, Kinds DEF OwesAnnouncement
  <2>2. CASE /\ k \in PortKind
             /\ call' = [call EXCEPT ![c].part[k] = "found",
                                      ![c].seen[k] = Cached(call[c].app, k)]
    <3> DEFINE q == call[c]
               part == [q.part EXCEPT ![k] = "found"]
               seen == [q.seen EXCEPT ![k] = Cached(q.app, k)]
               r == [q EXCEPT !.part = part, !.seen = seen]
    <3>1. Cached(q.app, k) \in Port \cup {None}
      <4>1. Cached(q.app, k) \in RangePorts \cup {None}
        BY <1>1 DEF Cached, TypeOK, RangePorts
      <4> QED
        BY <4>1, RangeOfPorts
    <3>2. /\ part \in [Kind -> Progress]
          /\ part["deployment"] = "done" => q.part["deployment"] = "done"
      BY <1>1, Kinds DEF Rpc, Progress
    <3>3. seen \in [PortKind -> Port \cup {None}]
      BY <1>1, <2>2, <3>1 DEF Rpc
    <3> HIDE DEF part, seen
    <3>4. /\ r \in Rpc /\ r.pc = q.pc /\ r.app = q.app /\ r.port = q.port
          /\ r.part = part
      BY <1>1, <3>2, <3>3 DEF Rpc
    <3>5. call' = [call EXCEPT ![c] = r]
      BY <1>1, <2>2 DEF Rpc, TypeOK, part, seen
    <3> HIDE DEF r
    <3>6. RpcOK(r)
      BY <1>1, <3>4 DEF RpcOK
    <3> QED
      BY <3>2, <3>4, <3>5, <3>6 DEF OwesAnnouncement
  <2> QED
    BY <2>1, <2>2 DEF FindResource, FindIngest, FindRoute, NotFound
<1>3. call' \in [Call -> Rpc] /\ CallInv' /\ CountInv'
  BY <1>1, <1>2, QuietRpcStep
<1>4. TypeOK'
  BY <1>1, <1>3 DEF TypeOK, history, bounds
<1> QED
  BY <1>3, <1>4 DEF IInv

(* A stop deletes a resource (ingest_system.go:260-346): whoever deletes   *)
(* the deployment, and only it, owes the announcement.                     *)
LEMMA DeleteResourceStep ==
    ASSUME IInv, NEW c \in Call, NEW k \in Kind, DeleteResource(c, k)
    PROVE  IInv'
<1>1. /\ TypeOK /\ call[c] \in Rpc /\ RpcOK(call[c])
      /\ call[c].pc = "stopping" /\ call[c].app \in App /\ call[c].part[k] = "found"
      /\ UNCHANGED <<busyPortRange, cache, answer, history, bounds>>
  BY DEF IInv, TypeOK, CallInv, RpcOK, DeleteResource, At
<1>2a. PICK a \in App : a = call[c].app
  BY <1>1
<1>2. cluster' = cluster \/ cluster' = [cluster EXCEPT ![a][k] = None]
  BY <1>2a DEF DeleteResource
<1>3. /\ cluster' \in [App -> [Kind -> portMin .. portMax \cup {None}]]
      /\ \A b \in App : Deployed(b)' <= Deployed(b)
      /\ \A b \in App : b # a => cluster'[b] = cluster[b]
  <2>1. CASE cluster' = cluster
    BY <1>1, <2>1 DEF TypeOK, Deployed
  <2>2. CASE cluster' = [cluster EXCEPT ![a][k] = None]
    BY <1>1, <2>2, Kinds DEF TypeOK, Deployed
  <2> QED
    BY <1>2, <2>1, <2>2
<1>4. PICK p \in {"done", "failed"} :
        /\ Becomes(c, k, p)
        /\ p = "done" => /\ cluster[a][k] # None
                         /\ cluster' = [cluster EXCEPT ![a][k] = None]
  BY <1>2a DEF DeleteResource
<1>5. PICK r \in Rpc :
        /\ call' = [call EXCEPT ![c] = r] /\ RpcOK(r)
        /\ r.pc = call[c].pc /\ r.app = a
        /\ r.part = [call[c].part EXCEPT ![k] = p]
  <2>1. p \in Progress /\ call[c].pc \in {"stopping", "creating"}
    BY <1>1 DEF Progress
  <2> QED
    BY <1>2a, <1>4, <2>1, ProgressedRpc
<1>6. call[c].part \in [Kind -> Progress]
  BY <1>1 DEF Rpc
<1>7. call' \in [Call -> Rpc] /\ CallInv' /\ CountInv'
  <2>1. CASE p = "failed" \/ k # "deployment"
    <3>1. \A b \in App : OwesAnnouncement(r, b) => OwesAnnouncement(call[c], b)
      BY <1>2a, <1>5, <1>6, <2>1, Kinds DEF OwesAnnouncement
    <3>2. \A b \in App : created[b] \in Nat
      BY <1>1 DEF TypeOK
    <3>3. \A b \in App : created[b] + Deployed(b)' <= created'[b] + Deployed(b)
      BY <1>1, <1>3, <3>2, DeployedType DEF history
    <3> QED
      BY <1>1, <1>5, <3>1, <3>3, OneRpcStep DEF TypeOK, history
  <2>2. CASE p = "done" /\ k = "deployment"
    <3>1. \A d \in Call : call'[d] = IF d = c THEN r ELSE call[d]
      BY <1>1, <1>5 DEF TypeOK
    <3>2. call' \in [Call -> Rpc] /\ CallInv'
      BY <1>1, <1>5, <3>1 DEF IInv, TypeOK, CallInv, RpcOK
    <3>3. Deployed(a) = 1 /\ Deployed(a)' = 0
      BY <1>1, <1>4, <2>2, Kinds DEF TypeOK, Deployed
    <3>4. \A b \in App : b # a => Due(b)' \in SUBSET Due(b)
      BY <1>5, <3>1 DEF Due, OwesAnnouncement
    <3>5. Due(a)' \in SUBSET (Due(a) \cup {c})
      BY <3>1 DEF Due
    <3>6. ASSUME NEW b \in App
          PROVE  (announced[b] + Deployed(b) + Cardinality(Due(b)) <= created[b])'
      <4>1. announced[b] \in Nat /\ created[b] \in Nat
        BY <1>1 DEF TypeOK
      <4>2. announced[b] + Deployed(b) + Cardinality(Due(b)) <= created[b]
        BY DEF IInv, CountInv
      <4>3. CASE b = a
        <5>1. Cardinality(Due(a)') <= Cardinality(Due(a) \cup {c})
          BY <3>5, DueIsFinite, FS_AddElement, FS_Subset
        <5>2. Cardinality(Due(a) \cup {c}) \in {Cardinality(Due(a)), Cardinality(Due(a)) + 1}
          BY DueIsFinite, FS_AddElement
        <5> QED
          BY <1>1, <3>3, <4>1, <4>2, <4>3, <5>1, <5>2, DueIsFinite DEF history
      <4>4. CASE b # a
        <5>1. Cardinality(Due(b)') <= Cardinality(Due(b))
          BY <3>4, <4>4, DueIsFinite, FS_Subset
        <5> QED
          BY <1>1, <1>3, <4>1, <4>2, <4>4, <5>1, DueIsFinite, DeployedType DEF history
      <4> QED
        BY <4>3, <4>4
    <3> QED
      BY <3>2, <3>6 DEF CountInv
  <2> QED
    BY <2>1, <2>2
<1>8. TypeOK'
  BY <1>1, <1>3, <1>7 DEF TypeOK, history, bounds
<1> QED
  BY <1>7, <1>8 DEF IInv

(* A stop that did not delete everything (ingest_system.go:348-356), or    *)
(* cannot give the port back, returns.                                     *)
LEMMA StopFailedStep ==
    ASSUME IInv, NEW c \in Call, StopFailed(c)
    PROVE  IInv'
<1>1. /\ TypeOK /\ call[c].pc = "stopping" /\ StopReturns(c, "error")
      /\ UNCHANGED <<cluster, cache, history, bounds>>
  BY DEF IInv, StopFailed
<1>2. busyPortRange' \subseteq portMin .. portMax
  BY <1>1 DEF StopFailed, PortBack, TypeOK
<1>3. PICK r \in Rpc : /\ call' = [call EXCEPT ![c] = r]
                       /\ RpcOK(r)
                       /\ \A a : ~OwesAnnouncement(r, a)
  BY <1>1, ReturnedRpc
<1>4. answer' \in [App -> {"none", "started", "stopped", "error"}]
  BY <1>1, ReturnedRpc
<1>5. call' \in [Call -> Rpc] /\ CallInv' /\ CountInv'
  BY <1>1, <1>3, QuietRpcStep
<1>6. TypeOK'
  BY <1>1, <1>2, <1>4, <1>5 DEF TypeOK, history, bounds
<1> QED
  BY <1>5, <1>6 DEF IInv

(* A stop that deleted everything (ingest_system.go:358-366) goes on to    *)
(* announce it, or fails to give the port back.                            *)
LEMMA StopDeletedStep ==
    ASSUME IInv, NEW c \in Call, StopDeleted(c)
    PROVE  IInv'
<1> DEFINE q == [call[c] EXCEPT !.pc = "announcing"]
<1>1. /\ TypeOK /\ call[c].pc = "stopping" /\ call[c] \in Rpc /\ RpcOK(call[c])
      /\ UNCHANGED <<cluster, cache, history, bounds>>
      /\ \/ call' = [call EXCEPT ![c] = q] /\ UNCHANGED answer
         \/ StopReturns(c, "error")
  BY DEF IInv, TypeOK, CallInv, StopDeleted
<1>2. busyPortRange' \subseteq portMin .. portMax
  BY <1>1 DEF StopDeleted, PortBack, TypeOK
<1>3. /\ answer' \in [App -> {"none", "started", "stopped", "error"}]
      /\ \E r \in Rpc :
            /\ call' = [call EXCEPT ![c] = r]
            /\ RpcOK(r)
            /\ \A a \in App : OwesAnnouncement(r, a) => OwesAnnouncement(call[c], a)
  <2>1. CASE call' = [call EXCEPT ![c] = q] /\ UNCHANGED answer
    <3>1. call[c].part["deployment"] = "done"
      BY <1>1, Kinds DEF StopDeleted, AllReturned, SomeFailed
    <3>2. /\ q \in Rpc /\ q.pc = "announcing" /\ q.app = call[c].app
          /\ q.port = call[c].port /\ q.part = call[c].part
      BY <1>1 DEF Rpc, Phase
    <3> HIDE DEF q
    <3>3. RpcOK(q) /\ \A a \in App : OwesAnnouncement(q, a) => OwesAnnouncement(call[c], a)
      BY <1>1, <3>1, <3>2 DEF RpcOK, OwesAnnouncement
    <3> QED
      BY <1>1, <2>1, <3>2, <3>3 DEF TypeOK
  <2>2. CASE StopReturns(c, "error")
    BY <1>1, <2>2, ReturnedRpc
  <2> QED
    BY <1>1, <2>1, <2>2
<1>4. call' \in [Call -> Rpc] /\ CallInv' /\ CountInv'
  BY <1>1, <1>3, QuietRpcStep
<1>5. TypeOK'
  BY <1>1, <1>2, <1>3, <1>4 DEF TypeOK, history, bounds
<1> QED
  BY <1>4, <1>5 DEF IInv

(* The announcement (ingest_system.go:368-384) pays what the RPC owes.     *)
LEMMA AnnounceStep ==
    ASSUME IInv, NEW c \in Call, Announce(c)
    PROVE  IInv'
<1>1. /\ TypeOK /\ call[c] \in Rpc /\ RpcOK(call[c]) /\ call[c].pc = "announcing"
      /\ StopReturns(c, "stopped")
      /\ UNCHANGED <<busyPortRange, cluster, cache, created, bounds>>
  BY DEF IInv, TypeOK, CallInv, Announce
<1>2. PICK a \in App : a = call[c].app
  BY <1>1 DEF RpcOK
<1>3. announced' = [announced EXCEPT ![a] = @ + 1]
  BY <1>2 DEF Announce
<1>4. PICK r \in Rpc : /\ call' = [call EXCEPT ![c] = r]
                       /\ RpcOK(r)
                       /\ \A b : ~OwesAnnouncement(r, b)
  BY <1>1, ReturnedRpc
<1>5. answer' \in [App -> {"none", "started", "stopped", "error"}]
  BY <1>1, ReturnedRpc
<1>6. \A d \in Call : call'[d] = IF d = c THEN r ELSE call[d]
  BY <1>1, <1>4 DEF TypeOK
<1>7. call' \in [Call -> Rpc] /\ CallInv'
  BY <1>1, <1>4, <1>6 DEF IInv, TypeOK, CallInv, RpcOK
<1>8. c \in Due(a) /\ \A b \in App : Due(b)' \in SUBSET (Due(b) \ {c})
  BY <1>1, <1>2, <1>4, <1>6 DEF Due, OwesAnnouncement, RpcOK
<1>9. ASSUME NEW b \in App
      PROVE  (announced[b] + Deployed(b) + Cardinality(Due(b)) <= created[b])'
  <2>1. announced[b] + Deployed(b) + Cardinality(Due(b)) <= created[b]
    BY DEF IInv, CountInv
  <2>2. /\ announced[b] \in Nat /\ created[b] \in Nat /\ created'[b] = created[b]
        /\ announced'[b] = IF b = a THEN announced[b] + 1 ELSE announced[b]
        /\ Deployed(b)' = Deployed(b)
    BY <1>1, <1>3 DEF TypeOK, Deployed
  <2>3. Cardinality(Due(b)') <= Cardinality(Due(b) \ {c})
    BY <1>8, DueIsFinite, FS_RemoveElement, FS_Subset
  <2>4. Cardinality(Due(b) \ {c}) =
            IF c \in Due(b) THEN Cardinality(Due(b)) - 1 ELSE Cardinality(Due(b))
    BY DueIsFinite, FS_RemoveElement
  <2>5. CASE b = a
    BY <1>8, <2>1, <2>2, <2>3, <2>4, <2>5, DueIsFinite, DeployedType
  <2>6. CASE b # a
    BY <2>1, <2>2, <2>3, <2>4, <2>6, DueIsFinite, DeployedType
  <2> QED
    BY <2>5, <2>6
<1>10. CountInv'
  BY <1>9 DEF CountInv
<1>11. TypeOK'
  <2>1. announced' \in [App -> Nat]
    BY <1>1, <1>3 DEF TypeOK
  <2> QED
    BY <1>1, <1>5, <1>7, <2>1 DEF TypeOK, bounds
<1> QED
  BY <1>7, <1>10, <1>11 DEF IInv

(* A start leases the lowest free port (ingest_system.go:54-67). *)
LEMMA GetPortStep ==
    ASSUME IInv, NEW c \in Call, GetPort(c)
    PROVE  IInv'
<1>1. /\ TypeOK /\ call[c] \in Rpc /\ RpcOK(call[c]) /\ call[c].pc = "get_port"
      /\ UNCHANGED <<cluster, cache, answer, history, bounds>>
  BY DEF IInv, TypeOK, CallInv, GetPort
<1>2. PICK p \in Port :
        /\ LowestFree(portMin, portMax, busyPortRange, p)
        /\ busyPortRange' = busyPortRange \cup {p}
        /\ call' = [call EXCEPT ![c].pc = "creating", ![c].port = p]
  BY DEF GetPort
<1> DEFINE r == [call[c] EXCEPT !.pc = "creating", !.port = p]
<1>3. p \in RangePorts
  BY <1>2 DEF LowestFree, FreePorts, RangePorts
<1>4. /\ r \in Rpc /\ r.pc = "creating" /\ r.app = call[c].app
      /\ r.port = p /\ call' = [call EXCEPT ![c] = r]
  BY <1>1, <1>2 DEF Rpc, Phase, TypeOK
<1> HIDE DEF r
<1>5. RpcOK(r) /\ \A a : ~OwesAnnouncement(r, a)
  BY <1>1, <1>3, <1>4 DEF RpcOK, OwesAnnouncement
<1>6. call' \in [Call -> Rpc] /\ CallInv' /\ CountInv'
  BY <1>1, <1>4, <1>5, QuietRpcStep
<1>7. busyPortRange' \subseteq portMin .. portMax
  BY <1>1, <1>2, <1>3 DEF TypeOK, RangePorts
<1>8. TypeOK'
  BY <1>1, <1>6, <1>7 DEF TypeOK, history, bounds
<1> QED
  BY <1>6, <1>8 DEF IInv

(* A start ends: no port is free, everything was created, or something was *)
(* not (ingest_system.go:63-66, 172-178).                                  *)
LEMMA StartEndsStep ==
    ASSUME IInv, NEW c \in Call, GetPortFull(c) \/ StartDone(c) \/ StartFailed(c)
    PROVE  IInv'
<1>1. /\ TypeOK
      /\ Answer(c, "error") \/ Answer(c, "started")
      /\ UNCHANGED <<cluster, cache, history, bounds>>
  BY DEF IInv, GetPortFull, StartDone, StartFailed
<1>2. busyPortRange' \subseteq portMin .. portMax
  <2>1. busyPortRange' = busyPortRange \/ busyPortRange' = busyPortRange \ {call[c].port}
    BY DEF GetPortFull, StartDone, StartFailed, PortBack
  <2> QED
    BY <1>1, <2>1 DEF TypeOK
<1>3. /\ call' = [call EXCEPT ![c] = Idle]
      /\ answer' \in [App -> {"none", "started", "stopped", "error"}]
  BY <1>1, AnsweredRpc
<1>4. call' \in [Call -> Rpc] /\ CallInv' /\ CountInv'
  BY <1>1, <1>3, IdleRpc, QuietRpcStep
<1>5. TypeOK'
  BY <1>1, <1>2, <1>3, <1>4 DEF TypeOK, history, bounds
<1> QED
  BY <1>4, <1>5 DEF IInv

(* A start creates a resource (ingest_system.go:83-170). *)
LEMMA CreateResourceStep ==
    ASSUME IInv, NEW c \in Call, NEW k \in Kind, CreateResource(c, k)
    PROVE  IInv'
<1>1. /\ TypeOK /\ call[c] \in Rpc /\ RpcOK(call[c])
      /\ call[c].pc = "creating" /\ call[c].app \in App
      /\ UNCHANGED <<busyPortRange, cache, answer, announced, bounds>>
  BY DEF IInv, TypeOK, CallInv, RpcOK, CreateResource, At
<1>2. PICK p \in {"done", "failed"} : Becomes(c, k, p)
  BY DEF CreateResource
<1>3. Store(call[c].app, k, Built(c)) \/ UNCHANGED <<cluster, created>>
  BY DEF CreateResource
<1>4. PICK r \in Rpc :
        /\ call' = [call EXCEPT ![c] = r] /\ RpcOK(r)
        /\ r.pc = call[c].pc
  <2>1. p \in Progress /\ call[c].pc \in {"stopping", "creating"}
    BY <1>1 DEF Progress
  <2> QED
    BY <1>2, <2>1, ProgressedRpc
<1>5. \A a : ~OwesAnnouncement(r, a)
  BY <1>1, <1>4 DEF OwesAnnouncement
<1>6. /\ cluster' \in [App -> [Kind -> portMin .. portMax \cup {None}]]
      /\ created' \in [App -> Nat]
      /\ \A a \in App : created[a] + Deployed(a)' <= created'[a] + Deployed(a)
  <2>1. CASE UNCHANGED <<cluster, created>>
    <3>1. \A a \in App : Deployed(a)' = Deployed(a) /\ created[a] \in Nat
      BY <1>1, <2>1 DEF Deployed, TypeOK
    <3> QED
      BY <1>1, <2>1, <3>1, DeployedType DEF TypeOK
  <2>2. CASE Store(call[c].app, k, Built(c))
    <3>1. PICK a \in App, q \in portMin .. portMax \cup {None} :
            a = call[c].app /\ q = Built(c)
      BY <1>1 DEF RpcOK, RangePorts, Built
    <3>2. /\ cluster[a][k] = None
          /\ cluster' = [cluster EXCEPT ![a][k] = q]
          /\ created' = IF k = "deployment" THEN [created EXCEPT ![a] = @ + 1] ELSE created
      BY <2>2, <3>1 DEF Store
    <3>3. cluster' \in [App -> [Kind -> portMin .. portMax \cup {None}]]
      BY <1>1, <3>2 DEF TypeOK
    <3>4. created' \in [App -> Nat]
      BY <1>1, <3>2 DEF TypeOK
    <3>5. ASSUME NEW b \in App
          PROVE  created[b] + Deployed(b)' <= created'[b] + Deployed(b)
      <4>1. created[b] \in Nat
        BY <1>1 DEF TypeOK
      <4>2. CASE b = a /\ k = "deployment"
        <5>1. created'[b] = created[b] + 1
          BY <1>1, <3>2, <4>2 DEF TypeOK
        <5> QED
          BY <4>1, <5>1, DeployedType
      <4>3. CASE b # a \/ k # "deployment"
        <5>1. created'[b] = created[b] /\ cluster'[b]["deployment"] = cluster[b]["deployment"]
          BY <1>1, <3>2, <4>3, Kinds DEF TypeOK
        <5> QED
          BY <4>1, <5>1, DeployedType DEF Deployed
      <4> QED
        BY <4>2, <4>3
    <3> QED
      BY <3>3, <3>4, <3>5
  <2> QED
    BY <1>3, <2>1, <2>2
<1>7. call' \in [Call -> Rpc] /\ CallInv' /\ CountInv'
  BY <1>1, <1>4, <1>5, <1>6, OneRpcStep
<1>8. TypeOK'
  BY <1>1, <1>6, <1>7 DEF TypeOK, bounds
<1> QED
  BY <1>7, <1>8 DEF IInv

(* The informer catches up. *)
LEMMA CacheSyncStep ==
    ASSUME IInv, NEW a \in App, NEW k \in Kind, CacheSync(a, k)
    PROVE  IInv'
<1>1. /\ TypeOK /\ cache' = [cache EXCEPT ![a][k] = cluster[a][k]]
      /\ UNCHANGED <<busyPortRange, cluster, call, answer, history, bounds>>
  BY DEF IInv, CacheSync
<1>2. cache' \in [App -> [Kind -> portMin .. portMax \cup {None}]]
  BY <1>1 DEF TypeOK
<1>3. TypeOK'
  BY <1>1, <1>2 DEF TypeOK, history, bounds
<1>4. CallInv' /\ CountInv'
  BY <1>1 DEF IInv, CallInv, CountInv, Deployed, Due, history
<1> QED
  BY <1>3, <1>4 DEF IInv

(* A restart (portrange.go:83-108) forgets the RPCs: what they owed is     *)
(* never announced.                                                        *)
LEMMA RestartedStep ==
    ASSUME IInv, Restarted, made' = made, serial' = serial, crashes' \in 0 .. MaxCrashes
    PROVE  IInv'
<1>1. /\ TypeOK /\ busyPortRange' = {} /\ call' = [c \in Call |-> Idle]
      /\ cache' = cluster \/ cache' = cache
      /\ UNCHANGED <<cluster, answer, history>>
  BY DEF IInv, Restarted
<1>2. call' \in [Call -> Rpc] /\ CallInv'
  BY <1>1, IdleRpc DEF CallInv, RpcOK
<1>3. \A a \in App : Due(a)' = {}
  BY <1>1, IdleRpc DEF Due
<1>4. CountInv'
  <2>1. SUFFICES ASSUME NEW a \in App
                 PROVE  (announced[a] + Deployed(a) + Cardinality(Due(a)) <= created[a])'
    BY DEF CountInv
  <2>2. Cardinality(Due(a)') = 0
    BY <1>3, FS_EmptySet
  <2>3. announced[a] + Deployed(a) + Cardinality(Due(a)) <= created[a]
    BY DEF IInv, CountInv
  <2>4. /\ announced[a] \in Nat /\ created[a] \in Nat
        /\ announced'[a] = announced[a] /\ created'[a] = created[a]
        /\ Deployed(a)' = Deployed(a)
    BY <1>1 DEF TypeOK, history, Deployed
  <2> QED
    BY <2>2, <2>3, <2>4, DueIsFinite, DeployedType
<1>5. TypeOK'
  BY <1>1, <1>2 DEF TypeOK, history
<1> QED
  BY <1>2, <1>4, <1>5 DEF IInv

------------------------------------------------------------------------------
(* The invariant holds at the start (main.go:312-328). *)
LEMMA InitInvariant ==
    ASSUME Init
    PROVE  IInv
<1>1. call \in [Call -> Rpc] /\ CallInv
  BY IdleRpc DEF Init, CallInv, RpcOK
<1>2. TypeOK
  BY <1>1, OperatorAssumption DEF Init, TypeOK, Empty
<1>3. \A a \in App : Due(a) = {}
  BY IdleRpc DEF Init, Due
<1>4. CountInv
  <2>1. SUFFICES ASSUME NEW a \in App
                 PROVE  announced[a] + Deployed(a) + Cardinality(Due(a)) <= created[a]
    BY DEF CountInv
  <2>2. Cardinality(Due(a)) = 0
    BY <1>3, FS_EmptySet
  <2>3. announced[a] = 0 /\ created[a] = 0 /\ Deployed(a) = 0
    BY Kinds DEF Init, Empty, Deployed
  <2> QED
    BY <2>2, <2>3
<1> QED
  BY <1>1, <1>2, <1>4 DEF IInv

(* Every step of an RPC, of the informer or of a restart preserves the     *)
(* invariant.                                                              *)
LEMMA NextInvariant ==
    ASSUME IInv, [Next]_vars
    PROVE  IInv'
<1>1. ASSUME NEW c \in Call, NEW a \in App, StartServer(c, a) \/ StopServer(c, a)
      PROVE  IInv'
  BY <1>1, BeginStep DEF StartServer, StopServer
<1>2. ASSUME NEW c \in Call, Step(c)
      PROVE  IInv'
  <2>1. ASSUME NEW k \in Kind,
               FindResource(c, k) \/ DeleteResource(c, k) \/ CreateResource(c, k)
        PROVE  IInv'
    BY <2>1, FindResourceStep, DeleteResourceStep, CreateResourceStep
  <2>2. CASE StopFailed(c) \/ StopDeleted(c) \/ Announce(c)
    BY <2>2, StopFailedStep, StopDeletedStep, AnnounceStep
  <2>3. CASE AnnounceFailed(c)
    BY <2>3, RestartedStep DEF AnnounceFailed, bounds, IInv, TypeOK
  <2>4. CASE GetPort(c) \/ GetPortFull(c) \/ StartDone(c) \/ StartFailed(c)
    BY <2>4, GetPortStep, StartEndsStep
  <2> QED
    BY <1>2, <2>1, <2>2, <2>3, <2>4 DEF Step, GoesOn
<1>3. ASSUME NEW a \in App, NEW k \in Kind, CacheSync(a, k)
      PROVE  IInv'
  BY <1>3, CacheSyncStep
<1>4. CASE Crash
  <2>1. crashes' \in 0 .. MaxCrashes
    BY <1>4, OperatorAssumption DEF Crash, IInv, TypeOK
  <2> QED
    BY <1>4, <2>1, RestartedStep DEF Crash
<1>5. CASE UNCHANGED vars
  BY <1>5 DEF vars, history, bounds, IInv, TypeOK, CallInv, CountInv, Deployed, Due
<1> QED
  BY <1>1, <1>2, <1>3, <1>4, <1>5 DEF Next

(* The inductive invariant of the operator. *)
THEOREM Invariance == Spec => []IInv
<1>1. Init => IInv
  BY InitInvariant
<1>2. IInv /\ [Next]_vars => IInv'
  BY NextInvariant
<1> QED
  BY <1>1, <1>2, PTL DEF Spec

(* Every variable of the operator keeps its type; in particular the        *)
(* cluster carries only ports of the allocator's range.                    *)
THEOREM TypeCorrect == Spec => []TypeOK
<1>1. IInv => TypeOK
  BY DEF IInv
<1> QED
  BY <1>1, Invariance, PTL

(* An ingest is announced destroyed at most once and never while it is     *)
(* deployed, whichever RPCs overlap, whatever the API server, the cache    *)
(* and the publications do, and wherever the operator restarts             *)
(* (ingest_system.go:245-374).                                             *)
THEOREM AnnouncedAtMostOnce == Spec => []AnnouncedOnce
<1>1. IInv => AnnouncedOnce
  <2>1. SUFFICES ASSUME IInv, NEW a \in App
                 PROVE  announced[a] + Deployed(a) <= created[a]
    BY DEF AnnouncedOnce
  <2>2. announced[a] + Deployed(a) + Cardinality(Due(a)) <= created[a]
    BY <2>1 DEF IInv, CountInv
  <2>3. announced[a] \in Nat /\ created[a] \in Nat
    BY <2>1 DEF IInv, TypeOK
  <2> QED
    BY <2>2, <2>3, DueIsFinite, DeployedType
<1> QED
  BY <1>1, Invariance, PTL
------------------------------------------------------------------------------
(* A user whose RPCs do not overlap. *)

OneEach ==
    \A c, d \in Call : c # d /\ call[c].app # None => call[d].app # call[c].app

(* What the goroutines of an RPC have found, deleted or created is so.     *)
Found(c) ==
    \A k \in PortKind :
        call[c].part[k] \in {"found", "done"} => call[c].seen[k] # None
Deleted(c) ==
    \A k \in Kind : call[c].part[k] = "done" => cluster[call[c].app][k] = None
Created(c) ==
    /\ call[c].port \in RangePorts
    /\ \A k \in Kind : call[c].part[k] = "done" => cluster[call[c].app][k] = call[c].port

Mine(c) ==
    /\ call[c].pc = "idle" => call[c].app = None
    /\ call[c].app # None => answer[call[c].app] = "none"
    /\ call[c].pc = "stopping" => Found(c) /\ Deleted(c)
    /\ call[c].pc = "announcing" => Deleted(c) /\ AllDone(c)
    /\ call[c].pc = "get_port" => \A k \in Kind : call[c].part[k] = "todo"
    /\ call[c].pc = "creating" => Created(c)

(* What a user was answered is so. *)
AnswerOk(a) ==
    /\ answer[a] = "stopped" => \A k \in Kind : cluster[a][k] = None
    /\ answer[a] = "started" => \E p \in RangePorts : \A k \in Kind : cluster[a][k] = p

(* Port q is a's: both of its resources that carry a port carry q, but for *)
(* what a stop has read and may have deleted.                              *)
Stops(c, a) == call[c].app = a /\ call[c].pc = "stopping"

Home(a, q) ==
    /\ \A k \in PortKind :
        \/ cluster[a][k] = q
        \/ \E c \in Call : Stops(c, a) /\ call[c].part[k] \in {"done", "failed"}
                                       /\ call[c].seen[k] = q
    /\ \A c \in Call : Stops(c, a) => \A k \in PortKind : call[c].seen[k] \in {None, q}

Leases(c, q) == call[c].pc = "creating" /\ call[c].port = q

PortsKept ==
    \A q \in busyPortRange :
        (\E c \in Call : Leases(c, q)) \/ (\E a \in App : Home(a, q))

UserOk ==
    /\ OneEach
    /\ \A c \in Call : Mine(c)
    /\ \A a \in App : AnswerOk(a)
    /\ ~CacheLags => PortsKept

UserInv == serial => UserOk

(* A step of c alone, which serves a or begins to.                         *)
Alone(c, a) ==
    /\ call[c].app \in {a, None} /\ call'[c].app \in {a, None}
    /\ \A d \in Call : d # c => call'[d] = call[d]
    /\ \A b \in App : b # a => cluster'[b] = cluster[b] /\ answer'[b] = answer[b]

(* No other RPC serves a. *)
Lone(c, a) == \A d \in Call : d # c => call[d].app # a

(* Where c alone can serve a, what makes q the port of a. *)
HomeOf(c, a, q) ==
    \A k \in PortKind :
        /\ \/ cluster[a][k] = q
           \/ /\ Stops(c, a)
              /\ call[c].part[k] \in {"done", "failed"}
              /\ call[c].seen[k] = q
        /\ Stops(c, a) => call[c].seen[k] \in {None, q}

LEMMA HomeOfLone ==
    ASSUME NEW c \in Call, NEW a \in App, NEW q
    PROVE  /\ Lone(c, a) => (Home(a, q) <=> HomeOf(c, a, q))
           /\ Lone(c, a)' => (Home(a, q)' <=> HomeOf(c, a, q)')
<1>1. Lone(c, a) => (Home(a, q) <=> HomeOf(c, a, q))
  BY DEF Lone, Home, HomeOf, Stops
<1>2. Lone(c, a)' => (Home(a, q)' <=> HomeOf(c, a, q)')
  BY DEF Lone, Home, HomeOf, Stops
<1> QED
  BY <1>1, <1>2

(* The one RPC of a user. *)
LEMMA LoneRpc ==
    ASSUME OneEach, NEW c \in Call, NEW a \in App, call[c].app = a
    PROVE  Lone(c, a)
BY OperatorAssumption DEF OneEach, Lone

LEMMA LoneStays ==
    ASSUME NEW c \in Call, NEW a \in App, Lone(c, a), Alone(c, a)
    PROVE  Lone(c, a)'
BY DEF Lone, Alone

(* A step of c that leaves c's own business, the answer to its user and    *)
(* that user's port in order leaves everything in order.                   *)
LEMMA AloneKeeps ==
    ASSUME IInv, UserOk, NEW c \in Call, NEW a \in App, Alone(c, a), Lone(c, a),
           Mine(c)', AnswerOk(a)',
           ~CacheLags => \A q \in busyPortRange' :
                Leases(c, q)' \/ Home(a, q)'
                    \/ (q \in busyPortRange /\ ~Leases(c, q) /\ ~Home(a, q))
    PROVE  UserOk'
<1>1. None \notin App
  BY OperatorAssumption
<1>2. OneEach'
  BY <1>1 DEF UserOk, OneEach, Alone, Lone
<1>3. ASSUME NEW d \in Call
      PROVE  Mine(d)'
  <2>1. CASE d = c
    BY <2>1
  <2>2. CASE d # c /\ call[d].pc = "idle"
    BY <2>2 DEF UserOk, Mine, Alone
  <2>3. CASE d # c /\ call[d].pc # "idle"
    <3>1. PICK b \in App : b = call[d].app
      BY <2>3 DEF IInv, CallInv, RpcOK
    <3>2. /\ b # a /\ call'[d] = call[d]
          /\ cluster'[b] = cluster[b] /\ answer'[b] = answer[b]
      BY <2>3, <3>1 DEF Alone, Lone
    <3> QED
      BY <2>3, <3>1, <3>2 DEF UserOk, Mine, Found, Deleted, Created, AllDone
  <2> QED
    BY <2>1, <2>2, <2>3
<1>4. ASSUME NEW b \in App
      PROVE  AnswerOk(b)'
  <2>1. CASE b = a
    BY <2>1
  <2>2. CASE b # a
    BY <2>2 DEF UserOk, AnswerOk, Alone
  <2> QED
    BY <2>1, <2>2
<1>5. ASSUME ~CacheLags, NEW q \in busyPortRange'
      PROVE  (\E d \in Call : Leases(d, q)') \/ (\E b \in App : Home(b, q)')
  <2>1. CASE Leases(c, q)' \/ Home(a, q)'
    BY <2>1
  <2>2. CASE q \in busyPortRange /\ ~Leases(c, q) /\ ~Home(a, q)
    <3>1. CASE \E d \in Call : Leases(d, q)
      <4>1. PICK d \in Call : Leases(d, q)
        BY <3>1
      <4>2. Leases(d, q)'
        BY <2>2, <4>1 DEF Leases, Alone
      <4> QED
        BY <4>2
    <3>2. CASE \E b \in App : Home(b, q)
      <4>1. PICK b \in App : Home(b, q)
        BY <3>2
      <4>2. b # a
        BY <2>2, <4>1
      <4>3. cluster'[b] = cluster[b]
        BY <4>2 DEF Alone
      <4>4. \A d \in Call : Stops(d, b)' <=> Stops(d, b)
        BY <1>1, <4>2 DEF Stops, Alone
      <4>5. \A d \in Call : Stops(d, b) => call'[d] = call[d]
        BY <1>1, <4>2 DEF Stops, Alone
      <4>6. Home(b, q)'
        BY <4>1, <4>3, <4>4, <4>5 DEF Home
      <4> QED
        BY <4>6
    <3> QED
      BY <1>5, <2>2, <3>1, <3>2 DEF UserOk, PortsKept
  <2> QED
    BY <1>5, <2>1, <2>2
<1> QED
  BY <1>2, <1>3, <1>4, <1>5 DEF UserOk, PortsKept

------------------------------------------------------------------------------
(* One lemma per operation: it leaves the business of a user whose RPCs do *)
(* not overlap in order.                                                   *)

(* The RPC in flight of c, its user, and that no other RPC serves it.      *)
LEMMA RpcOfUser ==
    ASSUME IInv, UserOk, NEW c \in Call, call[c].pc # "idle"
    PROVE  \E a \in App : /\ a = call[c].app /\ Lone(c, a)
                          /\ answer[a] = "none" /\ a # None
<1>1. call[c].app \in App
  BY DEF IInv, CallInv, RpcOK
<1> QED
  BY <1>1, LoneRpc, OperatorAssumption DEF UserOk, Mine

(* StopIngestSystem returns: the record of c and the answer.               *)
LEMMA StopReturned ==
    ASSUME IInv, NEW c \in Call, NEW a \in App, a = call[c].app,
           NEW result \in {"stopped", "error"}, StopReturns(c, result)
    PROVE  /\ \A d \in Call : d # c => call'[d] = call[d]
           /\ \A b \in App : b # a => answer'[b] = answer[b]
           /\ call'[c].op = call[c].op
           /\ \/ /\ call'[c].pc = "get_port" /\ call'[c].app = a /\ call'[c].op = "start"
                 /\ \A k \in Kind : call'[c].part[k] = "todo"
                 /\ answer'[a] = answer[a]
              \/ /\ call'[c].pc = "idle" /\ call'[c].app = None
                 /\ answer'[a] = result
<1>1. TypeOK
  BY DEF IInv
<1>2. CASE call[c].op = "stop" /\ Answer(c, result)
  BY <1>1, <1>2 DEF Answer, TypeOK, Idle
<1>3. CASE /\ call[c].op = "start"
           /\ call' = [call EXCEPT ![c] = [Idle EXCEPT !.pc = "get_port", !.op = "start",
                                                       !.app = call[c].app]]
           /\ UNCHANGED answer
  BY <1>1, <1>3 DEF TypeOK, Idle
<1> QED
  BY <1>2, <1>3 DEF StopReturns

(* An RPC begins when no RPC serves its user (service.go:46-86). *)
LEMMA BeginUser ==
    ASSUME IInv, UserOk, serial, NEW c \in Call, NEW a \in App,
           NEW op \in {"start", "stop"}, Begin(c, a, op)
    PROVE  UserOk'
<1>1. /\ TypeOK /\ a # None /\ Lone(c, a) /\ call[c].app = None
      /\ UNCHANGED <<busyPortRange, cluster>>
  BY OperatorAssumption DEF IInv, Begin, Lone, UserOk, Mine
<1>2. /\ call'[c].pc = "stopping" /\ call'[c].app = a
      /\ call'[c].part = [k \in Kind |-> "todo"]
      /\ call'[c].seen = [k \in PortKind |-> None]
      /\ \A d \in Call : d # c => call'[d] = call[d]
      /\ answer'[a] = "none" /\ \A b \in App : b # a => answer'[b] = answer[b]
  BY <1>1 DEF Begin, TypeOK, Idle
<1>3. Alone(c, a)
  BY <1>1, <1>2 DEF Alone
<1>4. Mine(c)'
  BY <1>1, <1>2, Kinds DEF Mine, Found, Deleted
<1>5. AnswerOk(a)'
  BY <1>2 DEF AnswerOk
<1>6. ASSUME NEW q, Home(a, q)
      PROVE  Home(a, q)'
  BY <1>1, <1>2, <1>3, <1>6, HomeOfLone, LoneStays DEF HomeOf, Stops
<1>7. \A q : ~Leases(c, q)
  BY DEF Leases, Begin
<1> QED
  BY <1>1, <1>3, <1>4, <1>5, <1>6, <1>7, AloneKeeps

(* The record of c after it has looked for resource k.                     *)
LEMMA FindRecord ==
    ASSUME IInv, NEW c \in Call, NEW k \in Kind, FindResource(c, k)
    PROVE  /\ \A d \in Call : d # c => call'[d] = call[d]
           /\ call'[c].pc = "stopping" /\ call'[c].app = call[c].app
           /\ call'[c].op = call[c].op
           /\ \A j \in Kind : j # k => call'[c].part[j] = call[c].part[j]
           /\ \A j \in PortKind : j # k => call'[c].seen[j] = call[c].seen[j]
           /\ \/ /\ call'[c].part[k] = "failed"
                 /\ Cached(call[c].app, k) = None \/ ApiFails
                 /\ k \in PortKind => call'[c].seen[k] = call[c].seen[k]
              \/ /\ call'[c].part[k] = "found" /\ Cached(call[c].app, k) # None
                 /\ k \in PortKind => /\ call'[c].seen[k] = Cached(call[c].app, k)
                                      /\ call'[c].seen[k] # None
<1>1. /\ TypeOK /\ call[c] \in Rpc /\ call[c].pc = "stopping"
      /\ call[c].part \in [Kind -> Progress] /\ call[c].seen \in [PortKind -> Port \cup {None}]
  BY DEF IInv, TypeOK, Rpc, FindResource, FindIngest, FindRoute, NotFound, At
<1>2. ASSUME NEW p \in {"found", "failed"}, Becomes(c, k, p)
      PROVE  /\ \A d \in Call : d # c => call'[d] = call[d]
             /\ call'[c].pc = "stopping" /\ call'[c].app = call[c].app
             /\ call'[c].op = call[c].op
             /\ \A j \in Kind : j # k => call'[c].part[j] = call[c].part[j]
             /\ call'[c].seen = call[c].seen /\ call'[c].part[k] = p
  <2>1. PICK r \in Rpc :
          /\ call' = [call EXCEPT ![c] = r]
          /\ r.pc = call[c].pc /\ r.app = call[c].app
          /\ r.part = [call[c].part EXCEPT ![k] = p]
          /\ r.seen = call[c].seen /\ r.op = call[c].op
    <3>1. p \in Progress /\ call[c].pc \in {"stopping", "creating"}
      BY <1>1 DEF Progress
    <3> QED
      BY <1>2, <3>1, ProgressedRpc
  <2>2. call'[c] = r /\ \A d \in Call : d # c => call'[d] = call[d]
    BY <1>1, <2>1 DEF TypeOK
  <2> QED
    BY <1>1, <2>1, <2>2
<1>3. CASE NotFound(c, k)
  BY <1>2, <1>3 DEF NotFound
<1>4. CASE FindRoute(c, k)
  <2>1. k \notin PortKind
    BY <1>4, OperatorAssumption DEF FindRoute
  <2> QED
    BY <1>2, <1>4, <2>1 DEF FindRoute
<1>5. CASE FindIngest(c, k)
  <2>1. /\ k \in PortKind /\ Cached(call[c].app, k) # None
        /\ call' = [call EXCEPT ![c].part[k] = "found",
                                 ![c].seen[k] = Cached(call[c].app, k)]
    BY <1>5 DEF FindIngest
  <2> DEFINE part == [call[c].part EXCEPT ![k] = "found"]
             seen == [call[c].seen EXCEPT ![k] = Cached(call[c].app, k)]
             r == [call[c] EXCEPT !.part = part, !.seen = seen]
  <2>2. call' = [call EXCEPT ![c] = r]
    BY <1>1, <2>1 DEF Rpc, TypeOK
  <2>3. /\ r.pc = call[c].pc /\ r.app = call[c].app /\ r.op = call[c].op
        /\ r.part = part /\ r.seen = seen
    BY <1>1 DEF Rpc
  <2>4. /\ part[k] = "found" /\ \A j \in Kind : j # k => part[j] = call[c].part[j]
        /\ seen[k] = Cached(call[c].app, k)
        /\ \A j \in PortKind : j # k => seen[j] = call[c].seen[j]
    BY <1>1, <2>1
  <2> HIDE DEF part, seen, r
  <2>5. call'[c] = r /\ \A d \in Call : d # c => call'[d] = call[d]
    BY <1>1, <2>2 DEF TypeOK
  <2> QED
    BY <1>1, <2>1, <2>3, <2>4, <2>5
<1> QED
  BY <1>3, <1>4, <1>5 DEF FindResource

(* A stop reads a resource (ingest_resource_manager.go:217-268): what it   *)
(* reads is the port of its user.                                          *)
LEMMA FindResourceUser ==
    ASSUME IInv, UserOk, NEW c \in Call, NEW k \in Kind, FindResource(c, k)
    PROVE  UserOk'
<1>1. /\ call[c].pc = "stopping" /\ call[c].part[k] = "todo"
      /\ UNCHANGED <<busyPortRange, cluster, answer>>
  BY DEF FindResource, FindIngest, FindRoute, NotFound, At
<1>2. PICK a \in App : a = call[c].app /\ Lone(c, a) /\ answer[a] = "none"
  BY <1>1, RpcOfUser
<1>3. Alone(c, a)
  BY <1>1, <1>2, FindRecord DEF Alone
<1>4. Mine(c)'
  <2>1. Mine(c) /\ call'[c].pc = "stopping" /\ call'[c].app = a
    BY <1>2, FindRecord DEF UserOk
  <2>2. Found(c)'
    BY <1>1, <2>1, FindRecord, Kinds DEF Mine, Found
  <2>3. Deleted(c)'
    BY <1>1, <1>2, <2>1, FindRecord DEF Mine, Deleted
  <2> QED
    BY <1>1, <1>2, <2>1, <2>2, <2>3 DEF Mine
<1>5. AnswerOk(a)'
  BY <1>1, <1>2 DEF AnswerOk
<1>6. ASSUME ~CacheLags, NEW q, Home(a, q)
      PROVE  Home(a, q)'
  <2>1. HomeOf(c, a, q)
    BY <1>2, <1>6, HomeOfLone
  <2>2. Stops(c, a) /\ Stops(c, a)' /\ Cached(a, k) = cluster[a][k]
    BY <1>1, <1>2, <1>6, FindRecord DEF Stops, Cached
  <2>3. HomeOf(c, a, q)'
    BY <1>1, <1>2, <2>1, <2>2, FindRecord, Kinds DEF HomeOf
  <2> QED
    BY <1>2, <1>3, <2>3, HomeOfLone, LoneStays
<1>7. \A q : ~Leases(c, q)
  BY <1>1 DEF Leases
<1> QED
  BY <1>1, <1>2, <1>3, <1>4, <1>5, <1>6, <1>7, AloneKeeps

(* The record of c after its goroutine of resource k has made progress p.  *)
LEMMA ProgressRecord ==
    ASSUME IInv, NEW c \in Call, call[c].pc \in {"stopping", "creating"},
           NEW k \in Kind, NEW p \in {"done", "failed"}, Becomes(c, k, p)
    PROVE  /\ \A d \in Call : d # c => call'[d] = call[d]
           /\ call'[c].pc = call[c].pc /\ call'[c].app = call[c].app
           /\ call'[c].seen = call[c].seen /\ call'[c].port = call[c].port
           /\ call'[c].op = call[c].op /\ call'[c].part[k] = p
           /\ \A j \in Kind : j # k => call'[c].part[j] = call[c].part[j]
<1>1. TypeOK /\ call[c].part \in [Kind -> Progress] /\ p \in Progress
  BY DEF IInv, TypeOK, Rpc, Progress
<1>2. PICK r \in Rpc :
        /\ call' = [call EXCEPT ![c] = r]
        /\ r.pc = call[c].pc /\ r.app = call[c].app
        /\ r.part = [call[c].part EXCEPT ![k] = p]
        /\ r.seen = call[c].seen /\ r.port = call[c].port /\ r.op = call[c].op
  BY <1>1, ProgressedRpc
<1>3. call'[c] = r /\ \A d \in Call : d # c => call'[d] = call[d]
  BY <1>1, <1>2 DEF TypeOK
<1> QED
  BY <1>1, <1>2, <1>3

(* A stop deletes a resource (ingest_system.go:260-346), whose port it has *)
(* read and still has to give back.                                        *)
LEMMA DeleteResourceUser ==
    ASSUME IInv, UserOk, NEW c \in Call, NEW k \in Kind, DeleteResource(c, k)
    PROVE  UserOk'
<1>1. /\ TypeOK /\ call[c].pc = "stopping" /\ call[c].part[k] = "found"
      /\ UNCHANGED <<busyPortRange, answer>>
  BY DEF IInv, DeleteResource, At
<1>2. PICK a \in App : a = call[c].app /\ Lone(c, a) /\ answer[a] = "none"
  BY <1>1, RpcOfUser DEF IInv, CallInv, RpcOK
<1>3. PICK p \in {"done", "failed"} :
        /\ Becomes(c, k, p)
        /\ p = "done" => cluster' = [cluster EXCEPT ![a][k] = None]
        /\ cluster' = cluster \/ cluster' = [cluster EXCEPT ![a][k] = None]
  BY <1>2 DEF DeleteResource
<1>4. /\ \A b \in App : b # a => cluster'[b] = cluster[b]
      /\ \A j \in Kind : j # k => cluster'[a][j] = cluster[a][j]
      /\ cluster'[a][k] \in {cluster[a][k], None}
      /\ p = "done" => cluster'[a][k] = None
  BY <1>1, <1>3 DEF TypeOK
<1>5. /\ \A d \in Call : d # c => call'[d] = call[d]
      /\ call'[c].pc = "stopping" /\ call'[c].app = a
      /\ call'[c].seen = call[c].seen /\ call'[c].part[k] = p
      /\ \A j \in Kind : j # k => call'[c].part[j] = call[c].part[j]
  BY <1>1, <1>2, <1>3, ProgressRecord
<1>6. Alone(c, a)
  BY <1>1, <1>2, <1>4, <1>5 DEF Alone
<1>7. Mine(c)'
  <2>1. Mine(c)
    BY DEF UserOk
  <2>2. Found(c)'
    BY <1>1, <1>5, <2>1, Kinds DEF Mine, Found
  <2>3. Deleted(c)'
    BY <1>1, <1>2, <1>4, <1>5, <2>1 DEF Mine, Deleted
  <2> QED
    BY <1>1, <1>2, <1>5, <2>2, <2>3 DEF Mine
<1>8. AnswerOk(a)'
  BY <1>1, <1>2 DEF AnswerOk
<1>9. ASSUME NEW q, Home(a, q)
      PROVE  Home(a, q)'
  <2>1. HomeOf(c, a, q) /\ Stops(c, a) /\ Stops(c, a)'
    BY <1>1, <1>2, <1>5, <1>9, HomeOfLone DEF Stops
  <2>2. k \in PortKind => call[c].seen[k] = q
    BY <1>1, <2>1 DEF HomeOf, UserOk, Mine, Found
  <2>3. HomeOf(c, a, q)'
    BY <1>4, <1>5, <2>1, <2>2, Kinds DEF HomeOf
  <2> QED
    BY <1>2, <1>6, <2>3, HomeOfLone, LoneStays
<1>10. \A q : ~Leases(c, q)
  BY <1>1 DEF Leases
<1> QED
  BY <1>1, <1>2, <1>6, <1>7, <1>8, <1>9, <1>10, AloneKeeps

(* A stop ends in one of the ways it can: the rest of the proof of each of *)
(* them, given which ports stay busy.                                      *)
LEMMA ReturnUser ==
    ASSUME IInv, UserOk, NEW c \in Call, NEW a \in App, a = call[c].app,
           call[c].pc \in {"stopping", "announcing"},
           NEW result \in {"stopped", "error"}, StopReturns(c, result),
           result = "stopped" => \A k \in Kind : cluster[a][k] = None,
           UNCHANGED cluster, busyPortRange' \subseteq busyPortRange,
           ~CacheLags => \A q \in busyPortRange' :
                Home(a, q) => \A k \in PortKind : cluster[a][k] = q
    PROVE  UserOk'
<1>1. Lone(c, a) /\ answer[a] = "none"
  BY RpcOfUser
<1>2. Alone(c, a)
  BY StopReturned DEF Alone
<1>3. Mine(c)'
  BY <1>1, StopReturned DEF Mine
<1>4. AnswerOk(a)'
  BY <1>1, StopReturned DEF AnswerOk
<1>5. ASSUME ~CacheLags, NEW q \in busyPortRange', Home(a, q)
      PROVE  Home(a, q)'
  <2>1. ~Stops(c, a)'
    BY StopReturned DEF Stops
  <2>2. HomeOf(c, a, q)'
    BY <1>5, <2>1 DEF HomeOf
  <2> QED
    BY <1>1, <1>2, <2>2, HomeOfLone, LoneStays
<1>6. \A q : ~Leases(c, q)
  BY DEF Leases
<1> QED
  BY <1>1, <1>2, <1>3, <1>4, <1>5, <1>6, AloneKeeps

(* A stop of which something failed (ingest_system.go:348-356) gives back  *)
(* the port it has read, whichever resource it read it from.               *)
LEMMA StopFailedUser ==
    ASSUME IInv, UserOk, NEW c \in Call, StopFailed(c)
    PROVE  UserOk'
<1>1. /\ call[c].pc = "stopping" /\ StopReturns(c, "error")
      /\ UNCHANGED <<cluster, cache, history, bounds>>
  BY DEF StopFailed
<1>2. PICK a \in App : a = call[c].app /\ Lone(c, a)
  BY <1>1, RpcOfUser DEF IInv, CallInv, RpcOK
<1>3. PICK p \in Port \cup {None} : FoundPort(c, p) /\ PortBack(p)
  BY DEF StopFailed
<1>4. ASSUME NEW q \in busyPortRange', Home(a, q), NEW k \in PortKind
      PROVE  cluster[a][k] = q
  <2>1. HomeOf(c, a, q) /\ Stops(c, a) /\ q # p
    BY <1>1, <1>2, <1>3, <1>4, HomeOfLone DEF PortBack, Stops
  <2>2. q # None
    BY <1>3, <1>4, RangeOfPorts DEF PortBack, IInv, TypeOK, RangePorts
  <2> QED
    BY <1>3, <2>1, <2>2 DEF HomeOf, FoundPort
<1> QED
  BY <1>1, <1>2, <1>3, <1>4, ReturnUser DEF PortBack

(* A stop that deleted everything (ingest_system.go:358-366) has read the  *)
(* port of both of the resources it gives it back for.                     *)
LEMMA StopDeletedUser ==
    ASSUME IInv, UserOk, NEW c \in Call, StopDeleted(c)
    PROVE  UserOk'
<1>1. /\ TypeOK /\ call[c].pc = "stopping" /\ call[c] \in Rpc /\ AllDone(c)
      /\ UNCHANGED <<cluster, cache, history, bounds>>
  BY DEF StopDeleted, IInv, TypeOK, AllDone, AllReturned, SomeFailed
<1>2. PICK a \in App : a = call[c].app /\ Lone(c, a) /\ answer[a] = "none"
  BY <1>1, RpcOfUser DEF IInv, CallInv, RpcOK
<1>3. PICK p \in Port \cup {None} :
        /\ FoundPort(c, p) /\ PortBack(p)
        /\ \/ call' = [call EXCEPT ![c].pc = "announcing"] /\ UNCHANGED answer
           \/ StopReturns(c, "error")
  BY DEF StopDeleted
<1>4. ASSUME NEW q \in busyPortRange'
      PROVE  ~Home(a, q)
  <2>1. SUFFICES ASSUME HomeOf(c, a, q)
                 PROVE  FALSE
    BY <1>2, HomeOfLone
  <2>2. Stops(c, a) /\ q # p
    BY <1>1, <1>2, <1>3, <1>4 DEF PortBack, Stops
  <2>3. \A k \in PortKind : call[c].seen[k] = q
    BY <1>1, <2>1, <2>2, Kinds DEF HomeOf, UserOk, Mine, Found, AllDone
  <2> QED
    BY <1>3, <2>2, <2>3, Kinds DEF FoundPort, PortKind
<1>5. CASE StopReturns(c, "error")
  BY <1>1, <1>2, <1>3, <1>4, <1>5, ReturnUser DEF PortBack
<1>6. CASE call' = [call EXCEPT ![c].pc = "announcing"] /\ UNCHANGED answer
  <2>1. /\ \A d \in Call : d # c => call'[d] = call[d]
        /\ call'[c].pc = "announcing" /\ call'[c].app = a /\ call'[c].part = call[c].part
    BY <1>1, <1>2, <1>6 DEF TypeOK, Rpc
  <2>2. Alone(c, a)
    BY <1>1, <1>2, <1>6, <2>1 DEF Alone
  <2>3. Mine(c)'
    BY <1>1, <1>2, <1>6, <2>1 DEF UserOk, Mine, Deleted, AllDone
  <2>4. AnswerOk(a)'
    BY <1>2, <1>6 DEF AnswerOk
  <2>5. \A q : ~Leases(c, q)
    BY <1>1 DEF Leases
  <2>6. busyPortRange' \subseteq busyPortRange
    BY <1>3 DEF PortBack
  <2> QED
    BY <1>2, <1>4, <2>2, <2>3, <2>4, <2>5, <2>6, AloneKeeps
<1> QED
  BY <1>3, <1>5, <1>6

(* The announcement (ingest_system.go:368-384): nothing is left.           *)
LEMMA AnnounceUser ==
    ASSUME IInv, UserOk, NEW c \in Call, Announce(c)
    PROVE  UserOk'
<1>1. /\ call[c].pc = "announcing" /\ StopReturns(c, "stopped")
      /\ UNCHANGED <<cluster, busyPortRange>>
  BY DEF Announce
<1>2. PICK a \in App : a = call[c].app /\ Lone(c, a)
  BY <1>1, RpcOfUser DEF IInv, CallInv, RpcOK
<1>3. \A k \in Kind : cluster[a][k] = None
  BY <1>1, <1>2 DEF UserOk, Mine, Deleted, AllDone
<1>4. \A q : Home(a, q) => \A k \in PortKind : cluster[a][k] = q
  BY <1>1, <1>2, HomeOfLone DEF HomeOf, Stops
<1> QED
  BY <1>1, <1>2, <1>3, <1>4, ReturnUser

(* A start leases the lowest free port (ingest_system.go:54-67), which it  *)
(* holds until it ends.                                                    *)
LEMMA GetPortUser ==
    ASSUME IInv, UserOk, NEW c \in Call, GetPort(c)
    PROVE  UserOk'
<1>1. /\ TypeOK /\ call[c].pc = "get_port" /\ call[c] \in Rpc
      /\ UNCHANGED <<cluster, cache, answer, history, bounds>>
  BY DEF IInv, TypeOK, GetPort
<1>2. PICK a \in App : a = call[c].app /\ Lone(c, a) /\ answer[a] = "none"
  BY <1>1, RpcOfUser DEF IInv, CallInv, RpcOK
<1>3. PICK p \in Port :
        /\ LowestFree(portMin, portMax, busyPortRange, p)
        /\ busyPortRange' = busyPortRange \cup {p}
        /\ call' = [call EXCEPT ![c].pc = "creating", ![c].port = p]
  BY DEF GetPort
<1>4. p \in RangePorts
  BY <1>3 DEF LowestFree, FreePorts, RangePorts
<1>5. /\ \A d \in Call : d # c => call'[d] = call[d]
      /\ call'[c].pc = "creating" /\ call'[c].app = a
      /\ call'[c].part = call[c].part /\ call'[c].port = p
  BY <1>1, <1>2, <1>3 DEF TypeOK, Rpc
<1>6. Alone(c, a)
  BY <1>1, <1>2, <1>5 DEF Alone
<1>7. Mine(c)'
  BY <1>1, <1>2, <1>4, <1>5 DEF UserOk, Mine, Created
<1>8. AnswerOk(a)'
  BY <1>1, <1>2 DEF AnswerOk
<1>9. ASSUME NEW q, Home(a, q)
      PROVE  Home(a, q)'
  <2>1. HomeOf(c, a, q) /\ ~Stops(c, a) /\ ~Stops(c, a)'
    BY <1>1, <1>2, <1>5, <1>9, HomeOfLone DEF Stops
  <2>2. HomeOf(c, a, q)'
    BY <1>1, <2>1 DEF HomeOf
  <2> QED
    BY <1>2, <1>6, <2>2, HomeOfLone, LoneStays
<1>10. \A q : ~Leases(c, q)
  BY <1>1 DEF Leases
<1>11. Leases(c, p)'
  BY <1>5 DEF Leases
<1> QED
  BY <1>2, <1>3, <1>6, <1>7, <1>8, <1>9, <1>10, <1>11, AloneKeeps

(* A start creates a resource (ingest_system.go:83-170) where there is     *)
(* none: nothing of what carries a port already changes.                   *)
LEMMA CreateResourceUser ==
    ASSUME IInv, UserOk, NEW c \in Call, NEW k \in Kind, CreateResource(c, k)
    PROVE  UserOk'
<1>1. /\ TypeOK /\ call[c].pc = "creating" /\ call[c].part[k] = "todo"
      /\ UNCHANGED <<busyPortRange, answer>>
  BY DEF IInv, CreateResource, At
<1>2. PICK a \in App : a = call[c].app /\ Lone(c, a) /\ answer[a] = "none"
  BY <1>1, RpcOfUser DEF IInv, CallInv, RpcOK
<1>3. PICK p \in {"done", "failed"} :
        /\ Becomes(c, k, p)
        /\ p = "done" => Store(a, k, Built(c))
        /\ Store(a, k, Built(c)) \/ UNCHANGED <<cluster, created>>
  BY <1>2 DEF CreateResource
<1>4. /\ \A b \in App : b # a => cluster'[b] = cluster[b]
      /\ \A j \in Kind : j # k \/ cluster[a][j] # None => cluster'[a][j] = cluster[a][j]
      /\ p = "done" => cluster'[a][k] = call[c].port
  BY <1>1, <1>3 DEF TypeOK, Store, Built
<1>5. /\ \A d \in Call : d # c => call'[d] = call[d]
      /\ call'[c].pc = "creating" /\ call'[c].app = a
      /\ call'[c].port = call[c].port /\ call'[c].part[k] = p
      /\ \A j \in Kind : j # k => call'[c].part[j] = call[c].part[j]
  BY <1>1, <1>2, <1>3, ProgressRecord
<1>6. Alone(c, a)
  BY <1>1, <1>2, <1>4, <1>5 DEF Alone
<1>7. Mine(c)'
  <2>1. Created(c)
    BY <1>1 DEF UserOk, Mine
  <2>2. Created(c)'
    BY <1>2, <1>4, <1>5, <2>1 DEF Created
  <2> QED
    BY <1>1, <1>2, <1>5, <2>2 DEF Mine
<1>8. AnswerOk(a)'
  BY <1>1, <1>2 DEF AnswerOk
<1>9. ASSUME NEW q \in busyPortRange', Home(a, q)
      PROVE  Home(a, q)'
  <2>1. HomeOf(c, a, q) /\ ~Stops(c, a) /\ ~Stops(c, a)'
    BY <1>1, <1>2, <1>5, <1>9, HomeOfLone DEF Stops
  <2>2. q # None
    BY <1>1, <1>9, RangeOfPorts DEF TypeOK, RangePorts
  <2>3. HomeOf(c, a, q)'
    BY <1>4, <2>1, <2>2, Kinds DEF HomeOf
  <2> QED
    BY <1>2, <1>6, <2>3, HomeOfLone, LoneStays
<1>10. \A q : Leases(c, q) => Leases(c, q)'
  BY <1>1, <1>5 DEF Leases
<1> QED
  BY <1>1, <1>2, <1>6, <1>7, <1>8, <1>9, <1>10, AloneKeeps

(* A start ends (ingest_system.go:63-66, 172-178): what it has leased is   *)
(* given back, or is now the port of both of its resources.                *)
LEMMA StartEndsUser ==
    ASSUME IInv, UserOk, NEW c \in Call, GetPortFull(c) \/ StartDone(c) \/ StartFailed(c)
    PROVE  UserOk'
<1>1. /\ TypeOK /\ call[c].pc \in {"get_port", "creating"}
      /\ UNCHANGED <<cluster, cache, history, bounds>>
  BY DEF IInv, GetPortFull, StartDone, StartFailed
<1>2. PICK a \in App : a = call[c].app /\ Lone(c, a)
  BY <1>1, RpcOfUser DEF IInv, CallInv, RpcOK
<1>3. PICK result \in {"started", "error"} :
        /\ Answer(c, result)
        /\ result = "started" => StartDone(c)
        /\ result = "error" => GetPortFull(c) \/ StartFailed(c)
  BY DEF GetPortFull, StartDone, StartFailed
<1>4. /\ \A d \in Call : d # c => call'[d] = call[d]
      /\ call'[c].pc = "idle" /\ call'[c].app = None
      /\ answer'[a] = result /\ \A b \in App : b # a => answer'[b] = answer[b]
  BY <1>1, <1>2, <1>3 DEF Answer, TypeOK, Idle
<1>5. Alone(c, a)
  BY <1>1, <1>2, <1>4 DEF Alone
<1>6. Mine(c)'
  BY <1>4 DEF Mine
<1>7. result = "started" =>
        /\ call[c].port \in RangePorts
        /\ \A k \in Kind : cluster[a][k] = call[c].port
  BY <1>2, <1>3 DEF StartDone, AllReturned, SomeFailed, UserOk, Mine, Created
<1>8. AnswerOk(a)'
  BY <1>1, <1>3, <1>4, <1>7 DEF AnswerOk
<1>9. ASSUME NEW q, \A k \in PortKind : cluster[a][k] = q
      PROVE  Home(a, q)'
  <2>1. ~Stops(c, a)'
    BY <1>4 DEF Stops
  <2>2. HomeOf(c, a, q)'
    BY <1>1, <1>9, <2>1 DEF HomeOf
  <2> QED
    BY <1>2, <1>5, <2>2, HomeOfLone, LoneStays
<1>10. ASSUME NEW q, Home(a, q)
       PROVE  Home(a, q)'
  BY <1>1, <1>2, <1>9, <1>10, HomeOfLone DEF HomeOf, Stops
<1>11. ASSUME NEW q \in busyPortRange', Leases(c, q)
       PROVE  Home(a, q)'
  <2>1. result = "started"
    BY <1>3, <1>11 DEF Leases, GetPortFull, StartFailed, PortBack
  <2> QED
    BY <1>7, <1>9, <1>11, <2>1, Kinds DEF Leases
<1>12. busyPortRange' \subseteq busyPortRange
  BY DEF GetPortFull, StartDone, StartFailed, PortBack
<1> QED
  BY <1>2, <1>5, <1>6, <1>8, <1>10, <1>11, <1>12, AloneKeeps

(* A restart (portrange.go:83-108) forgets the RPCs and the leases.        *)
LEMMA RestartedUser ==
    ASSUME IInv, UserOk, Restarted
    PROVE  UserOk'
<1>1. /\ busyPortRange' = {} /\ UNCHANGED <<cluster, answer>>
      /\ \A c \in Call : call'[c] = Idle
  BY DEF Restarted
<1>2. Idle.pc = "idle" /\ Idle.app = None
  BY DEF Idle
<1>3. OneEach' /\ \A c \in Call : Mine(c)'
  BY <1>1, <1>2 DEF OneEach, Mine
<1>4. \A a \in App : AnswerOk(a)'
  BY <1>1 DEF UserOk, AnswerOk
<1>5. PortsKept'
  BY <1>1 DEF PortsKept
<1> QED
  BY <1>3, <1>4, <1>5 DEF UserOk

(* The informer catches up, or nothing happens. *)
LEMMA ElsewhereUser ==
    ASSUME UserOk, UNCHANGED <<busyPortRange, cluster, call, answer>>
    PROVE  UserOk'
<1>1. OneEach'
  BY DEF UserOk, OneEach
<1>2. ASSUME NEW c \in Call
      PROVE  Mine(c)'
  BY DEF UserOk, Mine, Found, Deleted, Created, AllDone
<1>3. ASSUME NEW a \in App
      PROVE  AnswerOk(a)'
  BY DEF UserOk, AnswerOk
<1>4. PortsKept => PortsKept'
  BY DEF PortsKept, Leases, Home, Stops
<1> QED
  BY <1>1, <1>2, <1>3, <1>4 DEF UserOk

------------------------------------------------------------------------------
(* At the start there is nothing (main.go:312-328). *)
LEMMA InitUser ==
    ASSUME Init
    PROVE  UserOk
<1>1. /\ busyPortRange = {} /\ \A c \in Call : call[c].pc = "idle" /\ call[c].app = None
      /\ \A a \in App : answer[a] = "none"
  BY DEF Init, Idle
<1> QED
  BY <1>1 DEF UserOk, OneEach, Mine, AnswerOk, PortsKept

(* Every step leaves the business of a user whose RPCs do not overlap in   *)
(* order.                                                                  *)
LEMMA NextUser ==
    ASSUME IInv, UserInv, [Next]_vars
    PROVE  UserInv'
<1> SUFFICES ASSUME serial'
             PROVE  UserOk'
  BY DEF UserInv
<1>1. serial' = serial
  <2>1. CASE \E c \in Call, a \in App : StartServer(c, a) \/ StopServer(c, a)
    BY <2>1 DEF StartServer, StopServer, Begin
  <2>2. CASE \E c \in Call : Step(c)
    <3>1. ASSUME NEW c \in Call, NEW k \in Kind,
                 FindResource(c, k) \/ DeleteResource(c, k) \/ CreateResource(c, k)
          PROVE  serial' = serial
      BY <3>1 DEF FindResource, FindIngest, FindRoute, NotFound, DeleteResource,
                  CreateResource, bounds
    <3>2. ASSUME NEW c \in Call,
                 \/ StopFailed(c) \/ StopDeleted(c) \/ Announce(c) \/ AnnounceFailed(c)
          PROVE  serial' = serial
      BY <3>2 DEF StopFailed, StopDeleted, Announce, AnnounceFailed, bounds
    <3>3. ASSUME NEW c \in Call,
                 GetPort(c) \/ GetPortFull(c) \/ StartDone(c) \/ StartFailed(c)
          PROVE  serial' = serial
      BY <3>3 DEF GetPort, GetPortFull, StartDone, StartFailed, bounds
    <3> QED
      BY <2>2, <3>1, <3>2, <3>3 DEF Step, GoesOn
  <2>3. CASE Crash \/ (\E a \in App, k \in Kind : CacheSync(a, k)) \/ UNCHANGED vars
    BY <2>3 DEF Crash, CacheSync, vars, bounds
  <2> QED
    BY <2>1, <2>2, <2>3 DEF Next
<1>2. serial /\ UserOk
  BY <1>1 DEF UserInv
<1>3. ASSUME NEW c \in Call, NEW a \in App, StartServer(c, a) \/ StopServer(c, a)
      PROVE  UserOk'
  BY <1>2, <1>3, BeginUser DEF StartServer, StopServer
<1>4. ASSUME NEW c \in Call, Step(c)
      PROVE  UserOk'
  <2>1. ASSUME NEW k \in Kind,
               FindResource(c, k) \/ DeleteResource(c, k) \/ CreateResource(c, k)
        PROVE  UserOk'
    BY <1>2, <2>1, FindResourceUser, DeleteResourceUser, CreateResourceUser
  <2>2. CASE StopFailed(c) \/ StopDeleted(c) \/ Announce(c)
    BY <1>2, <2>2, StopFailedUser, StopDeletedUser, AnnounceUser
  <2>3. CASE AnnounceFailed(c)
    BY <1>2, <2>3, RestartedUser DEF AnnounceFailed
  <2>4. CASE GetPort(c) \/ GetPortFull(c) \/ StartDone(c) \/ StartFailed(c)
    BY <1>2, <2>4, GetPortUser, StartEndsUser
  <2> QED
    BY <1>4, <2>1, <2>2, <2>3, <2>4 DEF Step, GoesOn
<1>5. CASE Crash
  BY <1>2, <1>5, RestartedUser DEF Crash
<1>6. CASE (\E a \in App, k \in Kind : CacheSync(a, k)) \/ UNCHANGED vars
  BY <1>2, <1>6, ElsewhereUser DEF CacheSync, vars
<1> QED
  BY <1>3, <1>4, <1>5, <1>6 DEF Next

(* The inductive invariant of a user whose RPCs do not overlap. *)
THEOREM UserInvariance == Spec => []UserInv
<1>1. Init => UserInv
  BY InitUser DEF UserInv
<1>2. IInv /\ UserInv /\ [Next]_vars => UserInv'
  BY NextUser
<1> QED
  BY <1>1, <1>2, Invariance, PTL DEF Spec

(* Where a user's RPCs do not overlap, a StopServer answered without error *)
(* has left nothing of the user's ingest in the cluster, whatever requests *)
(* failed, however stale the cache was and wherever the operator restarted *)
(* (ingest_system.go:260-374).                                             *)
THEOREM StopsAreWhole == Spec => [](serial => StoppedIsGone)
<1>1. UserInv => (serial => StoppedIsGone)
  BY DEF UserInv, UserOk, AnswerOk, StoppedIsGone
<1> QED
  BY <1>1, UserInvariance, PTL

(* Where a user's RPCs do not overlap, a StartServer answered without      *)
(* error has created every resource, all of them with its own port         *)
(* (ingest_system.go:83-178).                                              *)
THEOREM StartsAreWhole == Spec => [](serial => StartedIsWhole)
<1>1. UserInv => (serial => StartedIsWhole)
  BY DEF UserInv, UserOk, AnswerOk, StartedIsWhole, RangePorts
<1> QED
  BY <1>1, UserInvariance, PTL

(* A port that is busy is on a resource in the cluster, or an RPC has it   *)
(* still to give back, whatever requests fail and wherever the operator    *)
(* restarts, where the informer cache is up to date when it is read        *)
(* (ingest_system.go:172-176, 348-362).                                    *)
THEOREM PortsAreNotLost ==
    ASSUME ~CacheLags
    PROVE  Spec => []NoPortLeak
<1>1. ASSUME IInv, UserInv
      PROVE  NoPortLeak
  <2>1. SUFFICES ASSUME serial, NEW q \in busyPortRange
                 PROVE  q \in (UNION {Carried(a) : a \in App}) \cup Leased \cup Read
    BY DEF NoPortLeak
  <2>2. q \in Port /\ q # None
    BY <1>1, <2>1, RangeOfPorts DEF IInv, TypeOK, RangePorts
  <2>3. ASSUME NEW c \in Call, Leases(c, q)
        PROVE  q \in Leased
    BY <2>2, <2>3 DEF Leases, Leased
  <2>4. ASSUME NEW a \in App, Home(a, q)
        PROVE  q \in Carried(a) \/ q \in Read
    <3>1. "deployment" \in PortKind
      BY DEF PortKind
    <3>2. CASE cluster[a]["deployment"] = q
      BY <2>2, <3>1, <3>2 DEF Carried
    <3>3. CASE cluster[a]["deployment"] # q
      <4>1. PICK c \in Call : Stops(c, a) /\ call[c].seen["deployment"] = q
        BY <2>4, <3>1, <3>3 DEF Home
      <4> QED
        BY <2>2, <3>1, <4>1 DEF Read, Stops
    <3> QED
      BY <3>2, <3>3
  <2>5. (\E c \in Call : Leases(c, q)) \/ (\E a \in App : Home(a, q))
    BY <1>1, <2>1 DEF UserInv, UserOk, PortsKept
  <2> QED
    BY <2>3, <2>4, <2>5
<1> QED
  BY <1>1, Invariance, UserInvariance, PTL
==============================================================================

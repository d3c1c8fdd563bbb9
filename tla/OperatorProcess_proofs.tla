------------------------ MODULE OperatorProcess_proofs ------------------------
(***************************************************************************)
(* Proofs about the life of the operator's process, for every set of users *)
(* and of RPCs, any number of reconciliations and of graceful restarts,    *)
(* and RPCs that go on while the operator shuts down: until the first      *)
(* disorder, ports stay exclusive and known, a graceful end leaves nothing *)
(* behind, and nobody misses the end of an ingest.                         *)
(***************************************************************************)
EXTENDS OperatorProcess, IngestOperator_proofs

JobType == [stage : {"none", "list", "stop", "stopping", "done"},
            todo : SUBSET App, app : App \cup {None}]

ProcessTypeOK ==
    /\ known \in BOOLEAN
    /\ tasks \subseteq Task
    /\ job \in [Task -> JobType]
    /\ ending \in {"no", "counted", "running", "draining"}
    /\ wg \in Nat
    /\ orderly \in BOOLEAN
    /\ doubled \in BOOLEAN

Gone(a) == \A k \in Kind : cluster[a][k] = None
Whole(a) == \A k \in Kind : cluster[a][k] # None

(* Every task that runs has still to list the deployments. *)
AllListing == \A t \in Task : job[t].stage \in {"none", "list"}

(* The tasks run, or have. *)
Late == ending \in {"running", "draining"}

(* No two stops of one user compete. *)
Steady == ~Late \/ ~doubled \/ AllListing

(* Whose calls are in which slot. *)
SlotsOk ==
    /\ \A c \in Call : call[c].pc = "idle" => call[c].app = None
    /\ \A c, d \in Request : call[c].app = call[d].app /\ call[c].app # None => c = d
    /\ Late => \A c \in Request : call[c].op = "stop"
    /\ Late /\ ~doubled => \A c \in Request : call[c].pc = "idle"
    /\ \A t \in Task : call[t].pc # "idle" =>
            /\ job[t].stage = "stopping"
            /\ call[t].app = job[t].app
            /\ call[t].op = "stop"
    /\ Steady => OneEach

(* What tasks run, and what they have left. *)
Working == {t \in Task : job[t].stage \in {"list", "stop", "stopping"}}

TasksOk ==
    /\ ~Late => job = [t \in Task |-> NoJob]
    /\ ending = "counted" => wg = Cardinality(tasks)
    /\ Late => wg = Cardinality(Working)
    /\ ending = "draining" => wg = 0
    /\ \A t \in Task : job[t].stage \in {"none", "list", "done"} => job[t].todo = {}
    /\ \A t \in Task : job[t].stage = "stopping" => job[t].app \in App
    /\ Late /\ ~doubled =>
            \A t, u \in Task : job[t].stage # "none" /\ job[u].stage # "none" => t = u

(* Without a task there has been no template, hence no start. *)
KnownOk ==
    /\ known => tasks # {}
    /\ tasks = {} =>
            /\ \A a \in App : Gone(a)
            /\ \A c \in Call : call[c].pc # "idle" => call[c].op = "stop"

(* What the goroutines of a call have done is so. *)
Deed(c) ==
    /\ call[c].pc = "stopping" => \A k \in Kind :
            call[c].part[k] \in {"done", "failed"} => cluster[call[c].app][k] = None
    /\ call[c].pc \in {"announcing", "get_port"} => Gone(call[c].app)
    /\ call[c].pc = "get_port" => \A k \in Kind : call[c].part[k] = "todo"
    /\ call[c].pc = "creating" =>
            /\ call[c].port \in RangePorts
            /\ \A k \in Kind :
                \/ call[c].part[k] = "todo" /\ cluster[call[c].app][k] = None
                \/ call[c].part[k] = "done" /\ cluster[call[c].app][k] = call[c].port
    /\ call[c].pc \in {"get_port", "creating"} => call[c].op = "start"

(* A stop without a rival finds and deletes everything, or finds nothing.  *)
Clean(c) ==
    \/ \A k \in Kind :
        \/ call[c].part[k] \in {"todo", "found"} /\ cluster[call[c].app][k] # None
        \/ call[c].part[k] = "done" /\ cluster[call[c].app][k] = None
    \/ Gone(call[c].app) /\ \A k \in Kind : call[c].part[k] \in {"todo", "failed"}

(* Port p is on a's resources, or a call for a has read or leased it.      *)
UsedBy(a, p) ==
    \/ \E k \in PortKind : cluster[a][k] = p
    \/ \E c \in Call : /\ call[c].app = a
                       /\ \/ call[c].pc = "stopping" /\ \E k \in PortKind : call[c].seen[k] = p
                          \/ call[c].pc = "creating" /\ call[c].port = p

PortsOk ==
    /\ \A a, b \in App, p \in Port : UsedBy(a, p) /\ UsedBy(b, p) => a = b
    /\ \A a \in App, k \in PortKind : cluster[a][k] \in busyPortRange \cup {None}
    /\ Steady => \A a \in App, p \in Port : UsedBy(a, p) => p \in busyPortRange

SteadyOk ==
    Steady =>
        /\ \A c \in Call : call[c].pc = "stopping" => Clean(c)
        /\ \A a \in App : ~InFlight(a) => Whole(a) \/ Gone(a)

(* What is left of an ingest, some task or RPC has still to remove.        *)
LeftOk ==
    /\ \A t \in Task : job[t].stage = "stopping" /\ call[t].pc = "idle" => Gone(job[t].app)
    /\ Late => \A a \in App :
            \/ Gone(a)
            \/ \E t \in Task : a \in job[t].todo
            \/ AllListing /\ \E t \in Task : job[t].stage = "list"
            \/ \E c \in Request : call[c].pc = "stopping" /\ call[c].app = a

(* The end of an ingest, which its stop has still to announce.             *)
Owed(a) == IF \E c \in Call : OwesAnnouncement(call[c], a) THEN 1 ELSE 0

EndsCounted ==
    ~doubled => \A a \in App : created[a] = announced[a] + Deployed(a) + Owed(a)

OrderlyOk ==
    SlotsOk /\ TasksOk /\ KnownOk /\ (\A c \in Call : Deed(c))
        /\ PortsOk /\ SteadyOk /\ LeftOk /\ EndsCounted

ProcessInv == IInv /\ ProcessTypeOK /\ (orderly => OrderlyOk)

------------------------------------------------------------------------------
(* What the operator's proofs say of RPCs also holds of the process.       *)

LEMMA TasksFinite == IsFiniteSet(Task) /\ Task \subseteq Call
BY ProcessAssumption, OperatorAssumption, FS_Subset

(* A task stops a deployment (ingesttemplate_controller.go:62-70). *)
LEMMA TaskStopKeepsCalls ==
    ASSUME IInv, NEW t \in Task, NEW a \in App, TaskStop(t, a)
    PROVE  IInv'
<1> DEFINE r == [Idle EXCEPT !.pc = "stopping", !.app = a]
<1>1. TypeOK /\ t \in Call
  BY TasksFinite DEF IInv
<1>2. Idle \in Rpc /\ Idle.port = None /\ Idle.part = [k \in Kind |-> "todo"]
  BY IdleRpc DEF RpcOK, Idle
<1>3. /\ r \in Rpc /\ r.port = None /\ r.pc = "stopping" /\ r.app = a
      /\ r.part = [k \in Kind |-> "todo"]
  BY <1>2 DEF Rpc, Phase
<1> HIDE DEF r
<1>4. RpcOK(r) /\ \A b : ~OwesAnnouncement(r, b)
  BY <1>3, Kinds DEF RpcOK, OwesAnnouncement
<1>5. /\ call' = [call EXCEPT ![t] = r]
      /\ UNCHANGED <<busyPortRange, cluster, cache, answer, history, bounds>>
  BY DEF TaskStop, r
<1>6. call' \in [Call -> Rpc] /\ CallInv' /\ CountInv'
  BY <1>1, <1>4, <1>5, QuietRpcStep
<1>7. TypeOK'
  BY <1>1, <1>5, <1>6 DEF TypeOK, history, bounds
<1> QED
  BY <1>6, <1>7 DEF IInv

(* A task deletes a deployment once more (ingesttemplate_controller.go:72-77). *)
LEMMA TaskDeleteKeepsCalls ==
    ASSUME IInv, NEW t \in Task, TaskDelete(t)
    PROVE  IInv'
<1>0. PICK b : b = job[t].app
  OBVIOUS
<1>1. /\ TypeOK /\ \/ cluster' = cluster
                   \/ cluster' = [cluster EXCEPT ![b]["deployment"] = None]
      /\ UNCHANGED <<busyPortRange, cache, call, answer, history, bounds>>
  BY <1>0 DEF IInv, TaskDelete
<1>2. /\ cluster' \in [App -> [Kind -> portMin .. portMax \cup {None}]]
      /\ \A a \in App : Deployed(a)' <= Deployed(a)
  <2>1. CASE cluster' = cluster
    BY <1>1, <2>1 DEF TypeOK, Deployed
  <2>2. CASE cluster' = [cluster EXCEPT ![b]["deployment"] = None]
    <3>1. cluster' \in [App -> [Kind -> portMin .. portMax \cup {None}]]
      BY <1>1, <2>2, Kinds DEF TypeOK
    <3>2. \A a \in App : cluster'[a]["deployment"] \in {cluster[a]["deployment"], None}
      BY <1>1, <2>2, Kinds DEF TypeOK
    <3> QED
      BY <3>1, <3>2 DEF Deployed
  <2> QED
    BY <1>1, <2>1, <2>2
<1>3. TypeOK'
  BY <1>1, <1>2 DEF TypeOK, history, bounds
<1>4. CountInv'
  <2>1. SUFFICES ASSUME NEW a \in App
                 PROVE  (announced[a] + Deployed(a) + Cardinality(Due(a)) <= created[a])'
    BY DEF CountInv
  <2>2. /\ announced[a] \in Nat /\ created[a] \in Nat
        /\ announced'[a] = announced[a] /\ created'[a] = created[a]
    BY <1>1 DEF TypeOK, history
  <2>3. Due(a)' = Due(a)
    BY <1>1 DEF Due
  <2>4. announced[a] + Deployed(a) + Cardinality(Due(a)) <= created[a]
    BY DEF IInv, CountInv
  <2> QED
    BY <1>2, <2>2, <2>3, <2>4, DueIsFinite, DeployedType
<1> QED
  BY <1>1, <1>3, <1>4 DEF IInv, CallInv

LEMMA ProcessKeepsCalls ==
    ASSUME IInv, [ProcessNext]_processVars
    PROVE  IInv'
<1>1. TypeOK
  BY DEF IInv
<1>2. ASSUME NEW c \in Call, NEW a \in App, StartKnownServer(c, a) \/ StopAnyServer(c, a)
      PROVE  IInv'
  BY <1>2, NextInvariant DEF StartKnownServer, StopAnyServer, Next
<1>3. ASSUME NEW c \in Call, SystemStep(c)
      PROVE  IInv'
  BY <1>3, NextInvariant DEF SystemStep, Next, Step
<1>4. ASSUME NEW t \in Task, Reconcile(t) \/ TaskStep(t)
      PROVE  IInv'
  <2>1. CASE UNCHANGED vars
    BY <2>1, NextInvariant
  <2>2. CASE Restarted /\ UNCHANGED bounds
    BY <1>1, <2>2, RestartedStep DEF bounds, TypeOK
  <2>3. CASE TaskDelete(t) \/ \E a \in App : TaskStop(t, a)
    BY <2>3, TaskStopKeepsCalls, TaskDeleteKeepsCalls
  <2> QED
    BY <1>4, <2>1, <2>2, <2>3 DEF Reconcile, TaskStep, TaskList, TaskDone
<1>5. CASE Signal \/ Launch \/ Drain \/ UNCHANGED processVars
  BY <1>5, NextInvariant DEF Signal, Launch, Drain, processVars
<1>8. ASSUME NEW a \in App, NEW k \in Kind, Caught(a, k)
      PROVE  IInv'
  BY <1>8, NextInvariant DEF Caught, Next
<1>6. CASE Exit
  BY <1>1, <1>6, RestartedStep DEF Exit, bounds, TypeOK
<1>7. CASE Die
  BY <1>7, NextInvariant DEF Die, Next, Step
<1> QED
  BY <1>2, <1>3, <1>4, <1>5, <1>6, <1>7, <1>8 DEF ProcessNext, Request

(* The state of the process keeps its types. *)
LEMMA ProcessTypes ==
    ASSUME IInv, ProcessTypeOK, [ProcessNext]_processVars
    PROVE  ProcessTypeOK'
<1>1. NoJob \in JobType
  BY DEF NoJob, JobType
<1>2. CASE Fresh /\ orderly' \in BOOLEAN /\ doubled' \in BOOLEAN
  BY <1>1, <1>2 DEF Fresh, ProcessTypeOK
<1>3. CASE UNCHANGED process /\ orderly' \in BOOLEAN /\ doubled' \in BOOLEAN
  BY <1>3 DEF process, ProcessTypeOK
<1>13. orderly \in BOOLEAN /\ doubled \in BOOLEAN
  BY DEF ProcessTypeOK
<1>14. ASSUME NEW c \in Request, NEW a \in App, StartKnownServer(c, a) \/ StopAnyServer(c, a)
       PROVE  ProcessTypeOK'
  <2>1. /\ UNCHANGED process
        /\ orderly' = (orderly /\ NoneFor(a) /\ ending # "running")
            \/ orderly' = (orderly /\ NoneFor(a))
        /\ doubled' = doubled \/ doubled' = (doubled \/ ending = "running")
    BY <1>14 DEF StartKnownServer, StopAnyServer
  <2>2. orderly' \in BOOLEAN /\ doubled' \in BOOLEAN
    BY <1>13, <2>1
  <2> QED
    BY <1>3, <2>1, <2>2
<1>15. ASSUME NEW c \in Call, SystemStep(c)
       PROVE  ProcessTypeOK'
  <2>1. /\ UNCHANGED <<process, doubled>>
        /\ orderly' = (orderly /\ Truthful(c))
    BY <1>15 DEF SystemStep
  <2>2. orderly' \in BOOLEAN
    BY <2>1
  <2> QED
    BY <1>3, <1>13, <2>1, <2>2
<1>4. ASSUME NEW t \in Task, Reconcile(t)
      PROVE  ProcessTypeOK'
  BY <1>4 DEF Reconcile, ProcessTypeOK
<1>5. ASSUME NEW t \in Task, TaskList(t)
      PROVE  ProcessTypeOK'
  <2>1. PICK listed \in SUBSET App :
            job' = [job EXCEPT ![t].stage = "stop", ![t].todo = listed]
    BY <1>5 DEF TaskList
  <2>2. job' \in [Task -> JobType]
    BY <2>1 DEF ProcessTypeOK, JobType
  <2>3. orderly' \in BOOLEAN
    BY <1>5 DEF TaskList
  <2> QED
    BY <1>5, <2>2, <2>3 DEF TaskList, ProcessTypeOK
<1>6. ASSUME NEW t \in Task, NEW a \in App, TaskStop(t, a)
      PROVE  ProcessTypeOK'
  <2>1. job' \in [Task -> JobType]
    BY <1>6 DEF TaskStop, ProcessTypeOK, JobType
  <2> QED
    BY <1>6, <2>1 DEF TaskStop, ProcessTypeOK
<1>7. ASSUME NEW t \in Task, TaskDelete(t)
      PROVE  ProcessTypeOK'
  <2> DEFINE r == [NoJob EXCEPT !.stage = "stop", !.todo = job[t].todo \ {job[t].app}]
  <2>1. r \in JobType
    BY <1>1 DEF ProcessTypeOK, JobType, NoJob
  <2>2. job' = [job EXCEPT ![t] = r]
    BY <1>7 DEF TaskDelete
  <2>3. job' \in [Task -> JobType]
    BY <2>1, <2>2 DEF ProcessTypeOK
  <2>4. orderly' \in BOOLEAN
    BY <1>7 DEF TaskDelete
  <2> QED
    BY <1>7, <2>3, <2>4 DEF TaskDelete, ProcessTypeOK
<1>8. ASSUME NEW t \in Task, TaskDone(t)
      PROVE  ProcessTypeOK'
  <2>1. CASE /\ wg > 0 /\ wg' = wg - 1
             /\ job' = [job EXCEPT ![t].stage = "done"]
             /\ UNCHANGED <<known, tasks, ending, orderly, doubled>>
    BY <2>1 DEF ProcessTypeOK, JobType
  <2>2. CASE Fresh /\ orderly' = FALSE /\ UNCHANGED doubled
    BY <1>2, <2>2 DEF ProcessTypeOK
  <2> QED
    BY <1>8, <2>1, <2>2 DEF TaskDone
<1>9. CASE Signal
  <2>1. Cardinality(tasks) \in Nat
    BY TasksFinite, FS_Subset, FS_CardinalityType DEF ProcessTypeOK
  <2> QED
    BY <1>9, <2>1 DEF Signal, ProcessTypeOK
<1>10. CASE Launch
  <2> DEFINE r == [NoJob EXCEPT !.stage = "list"]
  <2>1. r \in JobType
    BY <1>1 DEF JobType, NoJob
  <2>2. job' \in [Task -> JobType]
    BY <1>1, <1>10, <2>1 DEF Launch
  <2>3. ending' = "running" /\ orderly' \in BOOLEAN /\ doubled' \in BOOLEAN
    BY <1>10 DEF Launch
  <2> QED
    BY <1>10, <2>2, <2>3 DEF Launch, ProcessTypeOK
<1>11. CASE Exit \/ Die
  BY <1>2, <1>11 DEF Exit, Die, ProcessTypeOK
<1>12. CASE UNCHANGED processVars
  BY <1>3, <1>12, <1>13 DEF processVars
<1>16. CASE Drain
  BY <1>16 DEF Drain, ProcessTypeOK
<1>17. ASSUME NEW a \in App, NEW k \in Kind, Caught(a, k)
       PROVE  ProcessTypeOK'
  BY <1>3, <1>13, <1>17 DEF Caught
<1> QED
  BY <1>4, <1>5, <1>6, <1>7, <1>8, <1>9, <1>10, <1>11, <1>12, <1>14, <1>15, <1>16, <1>17
     DEF ProcessNext, TaskStep

------------------------------------------------------------------------------
(* A step of a call for user a: what it leaves alone, part by part.        *)

Moved(c, a) ==
    /\ call[c].app \in {a, None}
    /\ \/ call'[c].pc = "idle" /\ call'[c].app = None
       \/ call'[c].pc # "idle" /\ call'[c].app = a
    /\ \A d \in Call : d # c => call'[d] = call[d]
    /\ \A b \in App : b # a => /\ cluster'[b] = cluster[b]
                               /\ created'[b] = created[b]
                               /\ announced'[b] = announced[b]
    /\ UNCHANGED process
    /\ doubled => doubled'

(* The only RPC of its user, a stop if the tasks run; or the stop of a     *)
(* task.                                                                   *)
InPlace(c, a) ==
    \/ /\ c \in Request
       /\ \A d \in Request : d # c => call[d].app # a
       /\ Late => doubled' /\ call'[c].op = "stop"
    \/ c \in Task /\ job[c].stage = "stopping" /\ job[c].app = a /\ call'[c].op = "stop"

Shrinks(a) == \A k \in Kind : cluster'[a][k] \in {cluster[a][k], None}

Counted(a) == created[a] = announced[a] + Deployed(a) + Owed(a)

(* All that depends on the process alone. *)
LEMMA SameProcess ==
    ASSUME UNCHANGED process, doubled => doubled'
    PROVE  /\ Steady' => Steady
           /\ UNCHANGED <<known, tasks, job, ending, wg>>
           /\ TasksOk => TasksOk'
           /\ AllListing' = AllListing /\ Late' = Late
<1>1. UNCHANGED <<known, tasks, job, ending, wg>>
  BY DEF process
<1>2. AllListing' = AllListing /\ Late' = Late /\ Working' = Working
  BY <1>1 DEF AllListing, Late, Working
<1>3. Steady' => Steady
  BY <1>2 DEF Steady
<1>4. TasksOk => TasksOk'
  BY <1>1, <1>2 DEF TasksOk
<1> QED
  BY <1>1, <1>2, <1>3, <1>4

(* Once the tasks run, every call in flight is a stop. *)
LEMMA RivalStops ==
    ASSUME IInv, OrderlyOk, NEW d \in Call, call[d].pc # "idle", Late
    PROVE  call[d].op = "stop" /\ call[d].pc \in {"stopping", "announcing"}
<1>1. call[d].pc \in Phase
  BY DEF IInv, TypeOK, Rpc
<1>2. call[d].op = "stop"
  BY DEF OrderlyOk, SlotsOk, Request
<1>3. call[d].pc \notin {"get_port", "creating"}
  BY <1>2 DEF OrderlyOk, Deed
<1> QED
  BY <1>1, <1>2, <1>3 DEF Phase

LEMMA SlotsKeep ==
    ASSUME IInv, OrderlyOk, NEW c \in Call, NEW a \in App, Moved(c, a), InPlace(c, a),
           Steady' => Lone(c, a)
    PROVE  SlotsOk'
<1>1. /\ Steady' => Steady
      /\ Late' = Late
      /\ UNCHANGED <<known, tasks, job, ending, wg>>
  BY SameProcess DEF Moved
<1>2. None \notin App /\ Task \subseteq Call /\ Request \subseteq Call
  BY OperatorAssumption, ProcessAssumption DEF Request
<1>3. Steady' => OneEach'
  BY <1>1, <1>2 DEF OrderlyOk, SlotsOk, OneEach, Moved, Lone
<1>4. \A d \in Call : (call[d].pc = "idle" => call[d].app = None)'
  BY DEF OrderlyOk, SlotsOk, Moved
<1>5. Late => \A d \in Request : call'[d].op = "stop"
  <2> SUFFICES ASSUME Late, NEW d \in Request
               PROVE  call'[d].op = "stop"
    OBVIOUS
  <2>1. CASE d = c
    BY <2>1 DEF InPlace
  <2>2. CASE d # c
    BY <1>2, <2>2 DEF OrderlyOk, SlotsOk, Moved
  <2> QED
    BY <2>1, <2>2
<1>6. ASSUME NEW t \in Task, call'[t].pc # "idle"
      PROVE  /\ job[t].stage = "stopping" /\ call'[t].app = job[t].app
             /\ call'[t].op = "stop"
  BY <1>2, <1>6 DEF OrderlyOk, SlotsOk, Moved, InPlace, Request
<1>7. ASSUME Late, ~doubled', NEW d \in Request
      PROVE  call'[d].pc = "idle"
  <2>1. d # c
    BY <1>7 DEF InPlace, Request
  <2> QED
    BY <1>2, <1>7, <2>1 DEF OrderlyOk, SlotsOk, Moved
<1>8. ASSUME NEW d \in Request, NEW e \in Request, call'[d].app = call'[e].app,
             call'[d].app # None, d # e
      PROVE  FALSE
  <2>1. CASE d # c /\ e # c
    BY <1>2, <1>8, <2>1 DEF OrderlyOk, SlotsOk, Moved
  <2>2. CASE d = c \/ e = c
    BY <1>2, <1>8, <2>2 DEF Moved, InPlace, Request
  <2> QED
    BY <2>1, <2>2
<1> QED
  BY <1>1, <1>3, <1>4, <1>5, <1>6, <1>7, <1>8 DEF SlotsOk

LEMMA DeedsKeep ==
    ASSUME IInv, OrderlyOk, NEW c \in Call, NEW a \in App, Moved(c, a),
           Steady' => Lone(c, a), Late => Shrinks(a), Deed(c)'
    PROVE  \A d \in Call : Deed(d)'
<1> SUFFICES ASSUME NEW d \in Call, d # c
             PROVE  Deed(d)'
  OBVIOUS
<1>1. call'[d] = call[d] /\ Deed(d)
  BY DEF Moved, OrderlyOk
<1>2. CASE call[d].pc = "idle"
  BY <1>1, <1>2 DEF Deed
<1>3. CASE call[d].pc # "idle"
  <2>1. PICK b \in App : b = call[d].app
    BY <1>3 DEF IInv, CallInv, RpcOK
  <2>2. CASE b # a
    <3>1. cluster'[b] = cluster[b]
      BY <2>2 DEF Moved
    <3> QED
      BY <1>1, <2>1, <3>1 DEF Deed, Gone
  <2>3. CASE b = a
    <3>1. ~Steady' /\ Late
      BY <2>1, <2>3, SameProcess DEF Lone, Steady, Moved
    <3>2. call[d].pc \in {"stopping", "announcing"} /\ Shrinks(a)
      BY <1>3, <3>1, RivalStops
    <3> QED
      BY <1>1, <2>1, <2>3, <3>2 DEF Deed, Gone, Shrinks
  <2> QED
    BY <2>2, <2>3
<1> QED
  BY <1>2, <1>3

LEMMA UsesElsewhere ==
    ASSUME NEW c \in Call, NEW a \in App, Moved(c, a), NEW b \in App, b # a, NEW p
    PROVE  UsedBy(b, p)' <=> UsedBy(b, p)
<1>1. cluster'[b] = cluster[b] /\ b # None
  BY OperatorAssumption DEF Moved
<1>2. \A d \in Call : call'[d].app = b <=> call[d].app = b
  BY <1>1 DEF Moved
<1>3. \A d \in Call : call[d].app = b => call'[d] = call[d]
  BY <1>1 DEF Moved
<1> QED
  BY <1>1, <1>2, <1>3 DEF UsedBy

LEMMA PortsKeep ==
    ASSUME IInv, OrderlyOk, NEW c \in Call, NEW a \in App, Moved(c, a),
           \A p \in Port : UsedBy(a, p)' => UsedBy(a, p) \/ \A b \in App : ~UsedBy(b, p),
           \A p \in busyPortRange : p \in busyPortRange' \/ UsedBy(a, p),
           \A k \in PortKind : cluster'[a][k] \in busyPortRange' \cup {None},
           Steady' => \A p \in Port : UsedBy(a, p)' => p \in busyPortRange'
    PROVE  PortsOk'
<1>1. (Steady' => Steady) /\ PortsOk
  BY SameProcess DEF Moved, OrderlyOk
<1>2. busyPortRange \subseteq Port
  BY RangeOfPorts DEF IInv, TypeOK, RangePorts
<1>3. ASSUME NEW b \in App, NEW d \in App, NEW p \in Port, UsedBy(b, p)', UsedBy(d, p)'
      PROVE  b = d
  BY <1>1, <1>3, UsesElsewhere DEF PortsOk
<1>4. ASSUME NEW b \in App, NEW k \in PortKind
      PROVE  cluster'[b][k] \in busyPortRange' \cup {None}
  <2>1. CASE b = a
    BY <2>1
  <2>2. CASE b # a
    <3>1. cluster'[b][k] = cluster[b][k] /\ cluster[b][k] \in busyPortRange \cup {None}
      BY <1>1, <2>2 DEF Moved, PortsOk
    <3>2. CASE cluster[b][k] \in busyPortRange
      <4>1. UsedBy(b, cluster[b][k])
        BY DEF UsedBy
      <4>2. ~UsedBy(a, cluster[b][k])
        BY <1>1, <1>2, <2>2, <3>2, <4>1 DEF PortsOk
      <4> QED
        BY <3>1, <3>2, <4>2
    <3> QED
      BY <3>1, <3>2
  <2> QED
    BY <2>1, <2>2
<1>5. ASSUME Steady', NEW b \in App, NEW p \in Port, UsedBy(b, p)'
      PROVE  p \in busyPortRange'
  <2>1. CASE b = a
    BY <1>5, <2>1
  <2>2. CASE b # a
    <3>1. UsedBy(b, p)
      BY <1>5, <2>2, UsesElsewhere
    <3>2. p \in busyPortRange /\ ~UsedBy(a, p)
      BY <1>1, <1>5, <2>2, <3>1 DEF PortsOk
    <3> QED
      BY <3>2
  <2> QED
    BY <2>1, <2>2
<1> QED
  BY <1>1, <1>3, <1>4, <1>5 DEF PortsOk

LEMMA SteadyKeeps ==
    ASSUME IInv, OrderlyOk, NEW c \in Call, NEW a \in App, Moved(c, a),
           Steady' => /\ Lone(c, a)
                      /\ call'[c].pc = "stopping" => Clean(c)'
                      /\ call'[c].pc = "idle" => Whole(a)' \/ Gone(a)'
    PROVE  SteadyOk'
<1> SUFFICES ASSUME Steady', Steady
             PROVE  SteadyOk'
  BY SameProcess DEF Moved, SteadyOk
<1>1. ASSUME NEW d \in Call, d # c, call'[d].pc = "stopping"
      PROVE  Clean(d)'
  <2>1. call'[d] = call[d] /\ call[d].pc = "stopping"
    BY <1>1 DEF Moved
  <2>2. PICK b \in App : b = call[d].app
    BY <2>1 DEF IInv, CallInv, RpcOK
  <2>3. cluster'[b] = cluster[b]
    BY <1>1, <2>2 DEF Moved, Lone
  <2>4. Clean(d)
    BY <2>1 DEF OrderlyOk, SteadyOk
  <2> QED
    BY <2>1, <2>2, <2>3, <2>4 DEF Clean, Gone
<1>2. ASSUME NEW b \in App, ~InFlight(b)'
      PROVE  Whole(b)' \/ Gone(b)'
  <2>1. CASE b = a
    BY <1>2, <2>1 DEF InFlight, Moved
  <2>2. CASE b # a
    <3>1. cluster'[b] = cluster[b] /\ ~InFlight(b)
      BY <1>2, <2>2, OperatorAssumption DEF Moved, InFlight
    <3>2. Whole(b) \/ Gone(b)
      BY <3>1 DEF OrderlyOk, SteadyOk
    <3> QED
      BY <3>1, <3>2 DEF Whole, Gone
  <2> QED
    BY <2>1, <2>2
<1> QED
  BY <1>1, <1>2 DEF SteadyOk

LEMMA LeftKeeps ==
    ASSUME IInv, OrderlyOk, NEW c \in Call, NEW a \in App, Moved(c, a), InPlace(c, a),
           Late => Shrinks(a),
           Late /\ call'[c].pc # "stopping" => Gone(a)'
    PROVE  LeftOk'
<1>1. /\ UNCHANGED <<known, tasks, job, ending, wg>>
      /\ AllListing' = AllListing /\ Late' = Late
  BY SameProcess DEF Moved
<1>2. ASSUME Late, NEW b \in App, Gone(b)
      PROVE  Gone(b)'
  BY <1>2 DEF Gone, Shrinks, Moved
<1>3. \A t \in Task : job[t].stage = "stopping" => job[t].app \in App /\ Late
  BY DEF OrderlyOk, TasksOk, NoJob
<1>4. ASSUME NEW t \in Task, job[t].stage = "stopping", call'[t].pc = "idle"
      PROVE  Gone(job[t].app)'
  <2>1. PICK b \in App : b = job[t].app
    BY <1>3, <1>4
  <2>2. CASE t = c
    <3>1. b = a
      BY <1>3, <1>4, <2>1, <2>2 DEF InPlace, Request
    <3> QED
      BY <1>1, <1>3, <1>4, <2>1, <2>2, <3>1 DEF Gone
  <2>3. CASE t # c
    <3>1. call[t].pc = "idle"
      BY <1>4, <2>3, ProcessAssumption DEF Moved
    <3>2. Gone(b)'
      BY <1>2, <1>3, <1>4, <2>1, <3>1 DEF OrderlyOk, LeftOk
    <3> QED
      BY <1>1, <2>1, <3>2 DEF Gone
  <2> QED
    BY <2>2, <2>3
<1>5. ASSUME Late, NEW b \in App
      PROVE  \/ Gone(b)'
             \/ \E t \in Task : b \in job[t].todo
             \/ AllListing /\ \E t \in Task : job[t].stage = "list"
             \/ \E d \in Request : call'[d].pc = "stopping" /\ call'[d].app = b
  <2>1. CASE \E d \in Request : call[d].pc = "stopping" /\ call[d].app = b
    <3>1. PICK d \in Request : call[d].pc = "stopping" /\ call[d].app = b
      BY <2>1
    <3>2. CASE d = c
      BY <1>5, <3>1, <3>2, OperatorAssumption DEF Moved
    <3>3. CASE d # c
      BY <3>1, <3>3 DEF Moved, Request
    <3> QED
      BY <3>2, <3>3
  <2>2. CASE ~\E d \in Request : call[d].pc = "stopping" /\ call[d].app = b
    BY <1>2, <1>5, <2>2 DEF OrderlyOk, LeftOk
  <2> QED
    BY <2>1, <2>2
<1> QED
  BY <1>1, <1>4, <1>5 DEF LeftOk

LEMMA EndsKeep ==
    ASSUME IInv, OrderlyOk, NEW c \in Call, NEW a \in App, Moved(c, a),
           ~doubled' => Counted(a)'
    PROVE  EndsCounted'
<1> SUFFICES ASSUME ~doubled, NEW b \in App, b # a
             PROVE  Counted(b)'
  BY DEF Moved, EndsCounted, Counted
<1>1. /\ cluster'[b] = cluster[b] /\ created'[b] = created[b]
      /\ announced'[b] = announced[b] /\ b # None
  BY OperatorAssumption DEF Moved
<1>2. \A d \in Call : OwesAnnouncement(call'[d], b) <=> OwesAnnouncement(call[d], b)
  BY <1>1 DEF Moved, OwesAnnouncement
<1>3. Owed(b)' = Owed(b) /\ Deployed(b)' = Deployed(b)
  BY <1>1, <1>2 DEF Owed, Deployed
<1>4. Counted(b)
  BY DEF OrderlyOk, EndsCounted, Counted
<1> QED
  BY <1>1, <1>3, <1>4 DEF Counted

(* All of it together. *)
LEMMA MovedKeeps ==
    ASSUME IInv, OrderlyOk, NEW c \in Call, NEW a \in App, Moved(c, a), InPlace(c, a),
           Late => Shrinks(a),
           tasks = {} => Gone(a)' /\ call'[c].op = "stop",
           Deed(c)',
           \A p \in Port : UsedBy(a, p)' => UsedBy(a, p) \/ \A b \in App : ~UsedBy(b, p),
           \A p \in busyPortRange : p \in busyPortRange' \/ UsedBy(a, p),
           \A k \in PortKind : cluster'[a][k] \in busyPortRange' \cup {None},
           Late /\ call'[c].pc # "stopping" => Gone(a)',
           Steady' => /\ Lone(c, a)
                      /\ \A p \in Port : UsedBy(a, p)' => p \in busyPortRange'
                      /\ call'[c].pc = "stopping" => Clean(c)'
                      /\ call'[c].pc = "idle" => Whole(a)' \/ Gone(a)',
           ~doubled' => Counted(a)'
    PROVE  OrderlyOk'
<1>1. SlotsOk'
  BY SlotsKeep
<1>2. \A d \in Call : Deed(d)'
  BY DeedsKeep
<1>3. PortsOk'
  BY PortsKeep
<1>4. SteadyOk'
  BY SteadyKeeps
<1>5. LeftOk'
  BY LeftKeeps
<1>6. EndsCounted'
  BY EndsKeep
<1>7. TasksOk' /\ UNCHANGED <<known, tasks>>
  BY SameProcess DEF Moved, OrderlyOk
<1>8. ASSUME tasks = {}
      PROVE  /\ \A b \in App : Gone(b)'
             /\ \A d \in Call : call'[d].pc # "idle" => call'[d].op = "stop"
  BY <1>8 DEF OrderlyOk, KnownOk, Moved, Gone
<1>9. KnownOk'
  BY <1>7, <1>8 DEF OrderlyOk, KnownOk
<1> QED
  BY <1>1, <1>2, <1>3, <1>4, <1>5, <1>6, <1>7, <1>9 DEF OrderlyOk

------------------------------------------------------------------------------
(* One lemma per operation: it preserves the invariant of an orderly       *)
(* process.                                                                *)

(* Call c of a, in flight: its user's only RPC, a stop if the tasks run; or *)
(* the stop of a task.                                                     *)
Held(c, a) ==
    \/ /\ c \in Request
       /\ \A d \in Request : d # c => call[d].app # a
       /\ Late => doubled /\ call[c].op = "stop"
    \/ c \in Task /\ job[c].stage = "stopping" /\ job[c].app = a /\ call[c].op = "stop"

(* Whose a call is that is in flight. *)
LEMMA CallOfUser ==
    ASSUME IInv, OrderlyOk, NEW c \in Call, call[c].pc # "idle"
    PROVE  \E a \in App : /\ a = call[c].app /\ a # None
                          /\ Steady => Lone(c, a)
                          /\ Held(c, a)
<1>1. PICK a \in App : a = call[c].app
  BY DEF IInv, CallInv, RpcOK
<1>2. a # None /\ (Steady => Lone(c, a))
  BY <1>1, LoneRpc, OperatorAssumption DEF OrderlyOk, SlotsOk
<1>3. CASE c \in Request
  <2>1. \A d \in Request : d # c => call[d].app # a
    BY <1>1, <1>2, <1>3 DEF OrderlyOk, SlotsOk
  <2>2. Late => doubled /\ call[c].op = "stop"
    BY <1>3 DEF OrderlyOk, SlotsOk
  <2> QED
    BY <1>1, <1>2, <1>3, <2>1, <2>2 DEF Held
<1>4. CASE c \in Task
  BY <1>1, <1>2, <1>4 DEF OrderlyOk, SlotsOk, Held
<1> QED
  BY <1>3, <1>4 DEF Request

(* What the cluster and the allocator have, when both stay as they are. *)
LEMMA PortsOfUser ==
    ASSUME OrderlyOk, NEW a \in App
    PROVE  /\ \A k \in PortKind : cluster[a][k] \in busyPortRange \cup {None}
           /\ Steady => \A p \in Port : UsedBy(a, p) => p \in busyPortRange
           /\ ~doubled => Counted(a)
           /\ tasks = {} => Gone(a)
BY DEF OrderlyOk, PortsOk, EndsCounted, Counted, KnownOk

(* Whose call is in flight while no task has gone on to stop anything. *)
LEMMA OnlyRpcs ==
    ASSUME IInv, OrderlyOk, ~Late \/ AllListing, NEW c \in Call, call[c].app # None
    PROVE  c \in Request
BY DEF OrderlyOk, SlotsOk, TasksOk, NoJob, AllListing, Request

(* An RPC begins (service.go:46-86). *)
LEMMA BeginKeeps ==
    ASSUME IInv, OrderlyOk, NEW c \in Request, NEW a \in App,
           StartKnownServer(c, a) \/ StopAnyServer(c, a), orderly'
    PROVE  OrderlyOk'
<1>1. PICK op \in {"start", "stop"} :
        /\ Begin(c, a, op)
        /\ op = "start" => known /\ ending # "running"
        /\ Admitted /\ NoneFor(a)
        /\ UNCHANGED process /\ (doubled => doubled')
        /\ op = "stop" => (ending = "running" => doubled')
  <2>1. CASE StartKnownServer(c, a)
    BY <2>1 DEF StartKnownServer, StartServer
  <2>2. CASE StopAnyServer(c, a)
    <3>1. (doubled => doubled') /\ (ending = "running" => doubled')
      BY <2>2 DEF StopAnyServer
    <3> QED
      BY <2>2, <3>1 DEF StopAnyServer, StopServer
  <2> QED
    BY <2>1, <2>2
<1>0. c \in Call /\ call \in [Call -> Rpc] /\ a # None
  BY OperatorAssumption DEF Request, IInv, TypeOK
<1>2. /\ call[c].pc = "idle" /\ call[c].app = None
      /\ Late => doubled' /\ op = "stop"
  BY <1>0, <1>1 DEF Begin, OrderlyOk, SlotsOk, Late, Admitted
<1>3. /\ Steady' => Steady
      /\ Steady' => Lone(c, a) /\ ~InFlight(a)
      /\ UNCHANGED <<busyPortRange, cluster, created, announced>>
  <2>1. Steady' => Steady /\ (~Late \/ AllListing)
    BY <1>1, <1>2, SameProcess DEF Steady
  <2>2. Steady' => \A d \in Call : call[d].app # a
    BY <1>0, <1>1, <2>1, OnlyRpcs DEF NoneFor
  <2> QED
    BY <1>1, <2>1, <2>2 DEF Begin, Lone, InFlight, history
<1>4. /\ call'[c].pc = "stopping" /\ call'[c].app = a /\ call'[c].op = op
      /\ call'[c].part = [k \in Kind |-> "todo"]
      /\ call'[c].seen = [k \in PortKind |-> None]
      /\ \A d \in Call : d # c => call'[d] = call[d]
  BY <1>0, <1>1, <1>2 DEF Begin, Idle
<1>5. Moved(c, a) /\ InPlace(c, a) /\ Shrinks(a)
  BY <1>0, <1>1, <1>2, <1>3, <1>4 DEF Moved, InPlace, NoneFor, Shrinks
<1>6. Deed(c)'
  BY <1>4 DEF Deed
<1>7. ASSUME NEW p \in Port, UsedBy(a, p)'
      PROVE  UsedBy(a, p)
  BY <1>3, <1>4, <1>7, OperatorAssumption DEF UsedBy
<1>8. Steady' => Whole(a) \/ Gone(a)
  BY <1>3 DEF OrderlyOk, SteadyOk
<1>9. Steady' => Clean(c)'
  BY <1>3, <1>4, <1>8 DEF Clean, Whole, Gone
<1>10. Owed(a)' = Owed(a) /\ Deployed(a)' = Deployed(a)
  <2>1. \A d \in Call : OwesAnnouncement(call'[d], a) <=> OwesAnnouncement(call[d], a)
    BY <1>2, <1>4, Kinds DEF OwesAnnouncement
  <2> QED
    BY <1>3, <2>1 DEF Owed, Deployed
<1>11. Counted(a) => Counted(a)'
  BY <1>3, <1>10 DEF Counted
<1>12. tasks = {} => Gone(a)' /\ call'[c].op = "stop"
  BY <1>1, <1>3, <1>4 DEF OrderlyOk, KnownOk, Gone
<1>13. ~doubled' => Counted(a)'
  BY <1>1, <1>11, PortsOfUser
<1> QED
  BY <1>0, <1>3, <1>4, <1>5, <1>6, <1>7, <1>9, <1>12, <1>13, PortsOfUser, MovedKeeps

(* A stop reads a resource (ingest_resource_manager.go:217-268). *)
LEMMA FindKeeps ==
    ASSUME IInv, OrderlyOk, NEW c \in Call, NEW k \in Kind, FindResource(c, k),
           Truthful(c), UNCHANGED <<process, doubled>>
    PROVE  OrderlyOk'
<1>1. /\ call[c].pc = "stopping" /\ call[c].part[k] = "todo"
      /\ UNCHANGED <<busyPortRange, cluster, created, announced>>
  BY DEF FindResource, FindIngest, FindRoute, NotFound, At, history
<1>2. PICK a \in App :
        /\ a = call[c].app /\ a # None
        /\ Steady => Lone(c, a)
        /\ Held(c, a)
  BY <1>1, CallOfUser
<1>3. Steady' => Steady
  BY SameProcess
<1>4. /\ \A d \in Call : d # c => call'[d] = call[d]
      /\ call'[c].pc = "stopping" /\ call'[c].app = a /\ call'[c].op = call[c].op
      /\ \A j \in Kind : j # k => call'[c].part[j] = call[c].part[j]
      /\ \A j \in PortKind : j # k => call'[c].seen[j] = call[c].seen[j]
      /\ \/ /\ call'[c].part[k] = "failed" /\ cluster[a][k] = None
            /\ k \in PortKind => call'[c].seen[k] = call[c].seen[k]
         \/ /\ call'[c].part[k] = "found" /\ cluster[a][k] # None
            /\ k \in PortKind => call'[c].seen[k] = cluster[a][k]
  BY <1>1, <1>2, FindRecord DEF Truthful
<1>5. Moved(c, a) /\ InPlace(c, a) /\ Shrinks(a)
  BY <1>1, <1>2, <1>4 DEF Moved, InPlace, Held, Shrinks
<1>6. Deed(c)'
  BY <1>1, <1>2, <1>4 DEF OrderlyOk, Deed
<1>7. ASSUME NEW p \in Port, UsedBy(a, p)'
      PROVE  UsedBy(a, p)
  BY <1>1, <1>2, <1>4, <1>7 DEF UsedBy
<1>8. ASSUME Steady
      PROVE  Clean(c)'
  <2>1. Clean(c)
    BY <1>1, <1>8 DEF OrderlyOk, SteadyOk
  <2> QED
    BY <1>1, <1>2, <1>4, <2>1 DEF Clean, Gone
<1>9. Owed(a)' = Owed(a) /\ Deployed(a)' = Deployed(a)
  BY <1>1, <1>2, <1>4, Kinds DEF Owed, OwesAnnouncement, Deployed
<1>10. Counted(a) => Counted(a)'
  BY <1>1, <1>9 DEF Counted
<1>11. tasks = {} => Gone(a)' /\ call'[c].op = "stop"
  BY <1>1, <1>2, <1>4 DEF OrderlyOk, KnownOk, Gone
<1> QED
  BY <1>1, <1>2, <1>3, <1>4, <1>5, <1>6, <1>7, <1>8, <1>10, <1>11, PortsOfUser, MovedKeeps

(* A stop deletes a resource (ingest_system.go:260-346), or finds that a   *)
(* rival has.                                                              *)
LEMMA DeleteKeeps ==
    ASSUME IInv, OrderlyOk, NEW c \in Call, NEW k \in Kind, DeleteResource(c, k),
           Truthful(c), UNCHANGED <<process, doubled>>
    PROVE  OrderlyOk'
<1>1. /\ TypeOK /\ call[c].pc = "stopping" /\ call[c].part[k] = "found"
      /\ UNCHANGED <<busyPortRange, created, announced>>
  BY DEF DeleteResource, At, history, IInv
<1>2. PICK a \in App :
        /\ a = call[c].app /\ a # None
        /\ Steady => Lone(c, a)
        /\ Held(c, a)
  BY <1>1, CallOfUser
<1>3. PICK p \in {"done", "failed"} :
        /\ Becomes(c, k, p)
        /\ \/ /\ p = "done" /\ cluster[a][k] # None
              /\ cluster' = [cluster EXCEPT ![a][k] = None]
           \/ p = "failed" /\ cluster[a][k] = None /\ cluster' = cluster
  <2>1. /\ \/ /\ Becomes(c, k, "done") /\ cluster[a][k] # None
              /\ cluster' = [cluster EXCEPT ![a][k] = None]
           \/ Becomes(c, k, "failed") /\ cluster[a][k] = None /\ cluster' = cluster
           \/ /\ Becomes(c, k, "failed")
              /\ cluster' \in {cluster, [cluster EXCEPT ![a][k] = None]}
    BY <1>2 DEF DeleteResource
  <2>2. ASSUME Becomes(c, k, "failed")
        PROVE  cluster[a][k] = None
    <3>1. call'[c].part[k] = "failed"
      BY <1>1, <2>2, ProgressRecord
    <3> QED
      BY <1>1, <1>2, <3>1 DEF Truthful
  <2>3. cluster[a][k] = None => [cluster EXCEPT ![a][k] = None] = cluster
    BY <1>1 DEF TypeOK
  <2> QED
    BY <2>1, <2>2, <2>3
<1>4. /\ \A b \in App : b # a => cluster'[b] = cluster[b]
      /\ \A j \in Kind : j # k => cluster'[a][j] = cluster[a][j]
      /\ cluster'[a][k] = None
  BY <1>1, <1>3 DEF TypeOK
<1>5. /\ \A d \in Call : d # c => call'[d] = call[d]
      /\ call'[c].pc = "stopping" /\ call'[c].app = a /\ call'[c].op = call[c].op
      /\ call'[c].seen = call[c].seen /\ call'[c].part[k] = p
      /\ \A j \in Kind : j # k => call'[c].part[j] = call[c].part[j]
  BY <1>1, <1>2, <1>3, ProgressRecord
<1>6. Moved(c, a) /\ InPlace(c, a) /\ Shrinks(a)
  BY <1>1, <1>2, <1>4, <1>5 DEF Moved, InPlace, Held, Shrinks
<1>7. Deed(c)'
  BY <1>1, <1>2, <1>4, <1>5 DEF OrderlyOk, Deed
<1>8. ASSUME NEW q \in Port, UsedBy(a, q)'
      PROVE  UsedBy(a, q)
  <2>1. q # None
    BY OperatorAssumption
  <2> QED
    BY <1>1, <1>2, <1>4, <1>5, <1>8, <2>1, Kinds DEF UsedBy
<1>9. \A j \in PortKind : cluster'[a][j] \in busyPortRange \cup {None}
  BY <1>4, PortsOfUser, Kinds
<1>10. ASSUME Steady
       PROVE  Clean(c)' /\ p = "done"
  <2>1. Clean(c)
    BY <1>1, <1>10 DEF OrderlyOk, SteadyOk
  <2>2. p = "done"
    BY <1>1, <1>2, <1>3, <2>1 DEF Clean, Gone
  <2> QED
    BY <1>1, <1>2, <1>4, <1>5, <2>1, <2>2 DEF Clean, Gone
<1>11. ASSUME Steady, Counted(a)
       PROVE  Counted(a)'
  <2>1. created[a] \in Nat /\ announced[a] \in Nat
    BY <1>1 DEF TypeOK
  <2>2. CASE k = "deployment"
    <3>1. Deployed(a) = 1 /\ Deployed(a)' = 0
      BY <1>3, <1>4, <1>10, <1>11, <2>2 DEF Deployed
    <3>2. OwesAnnouncement(call'[c], a) /\ Owed(a)' = 1
      BY <1>5, <1>10, <1>11, <2>2 DEF OwesAnnouncement, Owed
    <3>3. Owed(a) = 0
      BY <1>1, <1>2, <1>11, <2>2 DEF Owed, OwesAnnouncement, Lone
    <3> QED
      BY <1>1, <1>11, <2>1, <3>1, <3>2, <3>3 DEF Counted
  <2>3. CASE k # "deployment"
    <3>1. Deployed(a)' = Deployed(a)
      BY <1>4, <2>3, Kinds DEF Deployed
    <3>2. \A d \in Call : OwesAnnouncement(call'[d], a) <=> OwesAnnouncement(call[d], a)
      BY <1>1, <1>2, <1>5, <2>3, Kinds DEF OwesAnnouncement
    <3>3. Owed(a)' = Owed(a)
      BY <3>2 DEF Owed
    <3> QED
      BY <1>1, <1>11, <3>1, <3>3 DEF Counted
  <2> QED
    BY <2>2, <2>3
<1>12. (~doubled => Steady) /\ (Steady' => Steady)
  BY SameProcess DEF Steady
<1>13. tasks = {} => Gone(a)' /\ call'[c].op = "stop"
  BY <1>1, <1>2, <1>4, <1>5 DEF OrderlyOk, KnownOk, Gone
<1> QED
  BY <1>1, <1>2, <1>5, <1>6, <1>7, <1>8, <1>9, <1>10, <1>11, <1>12, <1>13,
     PortsOfUser, MovedKeeps

(* StopIngestSystem returns when nothing of the ingest is left.            *)
LEMMA ReturnKeeps ==
    ASSUME IInv, OrderlyOk, NEW c \in Call, NEW a \in App, a = call[c].app,
           call[c].pc \in {"stopping", "announcing"}, Gone(a),
           NEW result \in {"stopped", "error"}, StopReturns(c, result),
           UNCHANGED <<cluster, created, process, doubled>>,
           \A p \in busyPortRange : p \in busyPortRange' \/ UsedBy(a, p),
           \A b \in App : b # a => announced'[b] = announced[b],
           ~doubled => created[a] = announced'[a]
    PROVE  OrderlyOk'
<1>1. /\ a # None
      /\ Steady => Lone(c, a)
      /\ Held(c, a)
      /\ Steady' => Steady
  BY CallOfUser, SameProcess
<1>2. /\ \A d \in Call : d # c => call'[d] = call[d]
      /\ call'[c].op = call[c].op
      /\ \/ /\ call'[c].pc = "get_port" /\ call'[c].app = a /\ call'[c].op = "start"
            /\ \A k \in Kind : call'[c].part[k] = "todo"
         \/ call'[c].pc = "idle" /\ call'[c].app = None
  BY StopReturned
<1>3. Moved(c, a) /\ InPlace(c, a) /\ Shrinks(a) /\ Gone(a)'
  BY <1>1, <1>2 DEF Moved, InPlace, Held, Shrinks, Gone
<1>4. Deed(c)'
  BY <1>2, <1>3 DEF Deed, Gone
<1>5. ASSUME NEW p \in Port, UsedBy(a, p)'
      PROVE  UsedBy(a, p) /\ ~Steady
  <2>1. p # None /\ ~\E k \in PortKind : cluster'[a][k] = p
    BY <1>3, Kinds, OperatorAssumption DEF Gone
  <2>2. PICK d \in Call :
            /\ call'[d].app = a
            /\ \/ call'[d].pc = "stopping" /\ \E k \in PortKind : call'[d].seen[k] = p
               \/ call'[d].pc = "creating" /\ call'[d].port = p
    BY <1>5, <2>1 DEF UsedBy
  <2>3. d # c /\ call'[d] = call[d]
    BY <1>2, <2>2
  <2> QED
    BY <1>1, <2>2, <2>3 DEF UsedBy, Lone
<1>6. ASSUME ~doubled
      PROVE  Counted(a)'
  <2>1. Lone(c, a)
    BY <1>1, <1>6 DEF Steady
  <2>2. Owed(a)' = 0
    BY <1>1, <1>2, <2>1 DEF Owed, OwesAnnouncement, Lone
  <2>3. Deployed(a)' = 0
    BY <1>3, Kinds DEF Deployed, Gone
  <2>4. created[a] \in Nat
    BY DEF IInv, TypeOK
  <2> QED
    BY <1>6, <2>2, <2>3, <2>4 DEF Counted
<1>7. \A k \in PortKind : cluster'[a][k] \in busyPortRange' \cup {None}
  BY <1>3, Kinds DEF Gone
<1>8. tasks = {} => Gone(a)' /\ call'[c].op = "stop"
  BY <1>2, <1>3 DEF OrderlyOk, KnownOk
<1> QED
  BY <1>1, <1>2, <1>3, <1>4, <1>5, <1>6, <1>7, <1>8, MovedKeeps

(* Every goroutine of a stop has returned: nothing is left.                *)
LEMMA StopLeavesNothing ==
    ASSUME OrderlyOk, NEW c \in Call, call[c].pc = "stopping", AllReturned(c)
    PROVE  Gone(call[c].app)
BY DEF OrderlyOk, Deed, AllReturned, Gone

(* The port a stop found is that of its user. *)
LEMMA FoundIsUsed ==
    ASSUME NEW c \in Call, NEW p, call[c].pc = "stopping", FoundPort(c, p), p # None
    PROVE  UsedBy(call[c].app, p)
BY DEF FoundPort, UsedBy

(* A stop of which something failed (ingest_system.go:348-356). *)
LEMMA StopFailedKeeps ==
    ASSUME IInv, OrderlyOk, NEW c \in Call, StopFailed(c),
           UNCHANGED <<process, doubled>>
    PROVE  OrderlyOk'
<1>1. /\ TypeOK /\ call[c].pc = "stopping" /\ StopReturns(c, "error")
      /\ AllReturned(c) /\ SomeFailed(c)
      /\ UNCHANGED <<cluster, created, announced>>
  BY DEF StopFailed, IInv, history
<1>2. PICK a \in App : a = call[c].app /\ (Steady => Lone(c, a))
  BY <1>1, CallOfUser
<1>3. Gone(a)
  BY <1>1, <1>2, StopLeavesNothing
<1>4. \A p \in busyPortRange : p \in busyPortRange' \/ UsedBy(a, p)
  <2>1. PICK p \in Port \cup {None} : FoundPort(c, p) /\ PortBack(p)
    BY DEF StopFailed
  <2>2. None \notin busyPortRange
    BY <1>1, RangeOfPorts DEF TypeOK, RangePorts
  <2> QED
    BY <1>1, <1>2, <2>1, <2>2, FoundIsUsed DEF PortBack
<1>5. ASSUME ~doubled
      PROVE  created[a] = announced'[a]
  <2>1. Steady /\ Counted(a)
    BY <1>5, PortsOfUser DEF Steady
  <2>2. Clean(c)
    BY <1>1, <2>1 DEF OrderlyOk, SteadyOk
  <2>3. call[c].part["deployment"] # "done"
    BY <1>1, <2>2, Kinds DEF Clean, SomeFailed
  <2>4. Owed(a) = 0
    BY <1>2, <2>1, <2>3 DEF Owed, OwesAnnouncement, Lone
  <2>5. Deployed(a) = 0
    BY <1>3, Kinds DEF Deployed, Gone
  <2> QED
    BY <1>1, <2>1, <2>4, <2>5 DEF Counted, TypeOK
<1> QED
  BY <1>1, <1>2, <1>3, <1>4, <1>5, ReturnKeeps

(* A stop that deleted everything (ingest_system.go:358-366): without a    *)
(* rival its port is busy, so that it goes on to announce.                 *)
LEMMA StopDeletedKeeps ==
    ASSUME IInv, OrderlyOk, NEW c \in Call, StopDeleted(c),
           UNCHANGED <<process, doubled>>
    PROVE  OrderlyOk'
<1>1. /\ TypeOK /\ call[c].pc = "stopping" /\ call[c] \in Rpc
      /\ AllReturned(c) /\ AllDone(c)
      /\ UNCHANGED <<cluster, created, announced>>
  BY DEF StopDeleted, IInv, TypeOK, history, AllReturned, SomeFailed, AllDone
<1>2. PICK a \in App :
        /\ a = call[c].app /\ a # None
        /\ Steady => Lone(c, a)
        /\ Held(c, a)
  BY <1>1, CallOfUser
<1>3. Gone(a)
  BY <1>1, <1>2, StopLeavesNothing
<1>4. PICK p \in Port \cup {None} :
        /\ FoundPort(c, p) /\ PortBack(p)
        /\ IF p \in busyPortRange \cup {None}
           THEN call' = [call EXCEPT ![c].pc = "announcing"]
           ELSE StopReturns(c, "error")
  BY DEF StopDeleted
<1>5. \A q \in busyPortRange : q \in busyPortRange' \/ UsedBy(a, q)
  <2>1. None \notin busyPortRange
    BY <1>1, RangeOfPorts DEF TypeOK, RangePorts
  <2> QED
    BY <1>1, <1>2, <1>4, <2>1, FoundIsUsed DEF PortBack
<1>6. CASE p \notin busyPortRange \cup {None}
  <2>1. UsedBy(a, p)
    BY <1>1, <1>2, <1>4, <1>6, FoundIsUsed
  <2>2. ~Steady
    BY <1>6, <2>1, PortsOfUser
  <2> QED
    BY <1>1, <1>2, <1>3, <1>4, <1>5, <1>6, <2>2, ReturnKeeps DEF Steady
<1>7. CASE p \in busyPortRange \cup {None}
  <2>1. /\ \A d \in Call : d # c => call'[d] = call[d]
        /\ call'[c].pc = "announcing" /\ call'[c].app = a /\ call'[c].op = call[c].op
        /\ call'[c].part = call[c].part
    BY <1>1, <1>2, <1>4, <1>7 DEF TypeOK, Rpc
  <2>2. Moved(c, a) /\ InPlace(c, a) /\ Shrinks(a) /\ Gone(a)'
    BY <1>1, <1>2, <1>3, <2>1 DEF Moved, InPlace, Held, Shrinks, Gone
  <2>3. Deed(c)'
    BY <2>1, <2>2 DEF Deed, Gone
  <2>4. ASSUME NEW q \in Port, UsedBy(a, q)'
        PROVE  UsedBy(a, q) /\ ~Steady
    <3>1. q # None /\ ~\E k \in PortKind : cluster'[a][k] = q
      BY <2>2, Kinds, OperatorAssumption DEF Gone
    <3>2. PICK d \in Call :
            /\ call'[d].app = a
            /\ \/ call'[d].pc = "stopping" /\ \E k \in PortKind : call'[d].seen[k] = q
               \/ call'[d].pc = "creating" /\ call'[d].port = q
      BY <2>4, <3>1 DEF UsedBy
    <3>3. d # c /\ call'[d] = call[d]
      BY <2>1, <3>2
    <3> QED
      BY <1>2, <3>2, <3>3 DEF UsedBy, Lone
  <2>5. Counted(a) => Counted(a)'
    <3>1. \A d \in Call : OwesAnnouncement(call'[d], a) <=> OwesAnnouncement(call[d], a)
      BY <1>1, <1>2, <2>1 DEF OwesAnnouncement
    <3> QED
      BY <1>1, <3>1 DEF Counted, Owed, Deployed
  <2>6. \A k \in PortKind : cluster'[a][k] \in busyPortRange' \cup {None}
    BY <2>2, Kinds DEF Gone
  <2>7. tasks = {} => Gone(a)' /\ call'[c].op = "stop"
    BY <1>1, <2>1, <2>2 DEF OrderlyOk, KnownOk
  <2> QED
    BY <1>2, <1>5, <2>1, <2>2, <2>3, <2>4, <2>5, <2>6, <2>7, PortsOfUser, SameProcess,
       MovedKeeps
<1> QED
  BY <1>6, <1>7

(* The announcement (ingest_system.go:368-384). *)
LEMMA AnnounceKeeps ==
    ASSUME IInv, OrderlyOk, NEW c \in Call, Announce(c),
           UNCHANGED <<process, doubled>>
    PROVE  OrderlyOk'
<1>1. /\ TypeOK /\ call[c].pc = "announcing" /\ StopReturns(c, "stopped")
      /\ UNCHANGED <<busyPortRange, cluster, created>>
  BY DEF Announce, IInv
<1>2. PICK a \in App : a = call[c].app
  BY <1>1, CallOfUser
<1>3. Gone(a)
  BY <1>1, <1>2 DEF OrderlyOk, Deed
<1>4. announced' = [announced EXCEPT ![a] = @ + 1]
  BY <1>2 DEF Announce
<1>5. ASSUME ~doubled
      PROVE  created[a] = announced'[a]
  <2>1. OwesAnnouncement(call[c], a) /\ Owed(a) = 1
    BY <1>1, <1>2 DEF IInv, CallInv, RpcOK, OwesAnnouncement, Owed
  <2>2. Deployed(a) = 0
    BY <1>3, Kinds DEF Deployed, Gone
  <2>3. Counted(a)
    BY <1>5, PortsOfUser
  <2> QED
    BY <1>1, <1>4, <2>1, <2>2, <2>3 DEF Counted, TypeOK
<1> QED
  BY <1>1, <1>2, <1>3, <1>4, <1>5, ReturnKeeps DEF TypeOK

(* A start is an RPC before the tasks run, and its user has no other. *)
LEMMA StartOfUser ==
    ASSUME IInv, OrderlyOk, NEW c \in Call, call[c].pc \in {"get_port", "creating"}
    PROVE  \E a \in App : /\ a = call[c].app /\ a # None /\ Lone(c, a) /\ Steady
                          /\ Held(c, a) /\ ~Late /\ c \notin Task /\ tasks # {}
<1>1. PICK a \in App :
        /\ a = call[c].app /\ a # None
        /\ Steady => Lone(c, a)
        /\ Held(c, a)
  BY CallOfUser
<1>2. tasks # {} /\ ~Late /\ c \notin Task
  <2>1. call[c].op = "start"
    BY DEF OrderlyOk, Deed
  <2> QED
    BY <2>1 DEF OrderlyOk, KnownOk, SlotsOk, Request
<1> QED
  BY <1>1, <1>2 DEF Steady

(* A start leases a port (ingest_system.go:54-67) that nobody uses. *)
LEMMA GetPortKeeps ==
    ASSUME IInv, OrderlyOk, NEW c \in Call, GetPort(c),
           UNCHANGED <<process, doubled>>
    PROVE  OrderlyOk'
<1>1. /\ TypeOK /\ call[c].pc = "get_port" /\ call[c] \in Rpc
      /\ UNCHANGED <<cluster, created, announced>>
  BY DEF GetPort, IInv, TypeOK, history
<1>2. PICK a \in App : /\ a = call[c].app /\ a # None /\ Lone(c, a) /\ Steady
                       /\ Held(c, a) /\ ~Late /\ c \notin Task /\ tasks # {}
  BY <1>1, StartOfUser
<1>3. PICK p \in Port :
        /\ p \in RangePorts /\ p \notin busyPortRange
        /\ busyPortRange' = busyPortRange \cup {p}
        /\ call' = [call EXCEPT ![c].pc = "creating", ![c].port = p]
  BY DEF GetPort, LowestFree, FreePorts, RangePorts
<1>4. /\ \A d \in Call : d # c => call'[d] = call[d]
      /\ call'[c].pc = "creating" /\ call'[c].app = a /\ call'[c].op = call[c].op
      /\ call'[c].part = call[c].part /\ call'[c].port = p
  BY <1>1, <1>2, <1>3 DEF TypeOK, Rpc
<1>5. Moved(c, a) /\ InPlace(c, a) /\ Shrinks(a)
  BY <1>1, <1>2, <1>4 DEF Moved, InPlace, Held, Shrinks
<1>6. Deed(c)'
  <2>1. call[c].op = "start" /\ \A k \in Kind : call[c].part[k] = "todo" /\ cluster[a][k] = None
    BY <1>1, <1>2 DEF OrderlyOk, Deed, Gone
  <2>2. call'[c].op = "start" /\ \A k \in Kind : call'[c].part[k] = "todo" /\ cluster'[call'[c].app][k] = None
    BY <1>1, <1>4, <2>1
  <2> QED
    BY <1>3, <1>4, <2>2 DEF Deed
<1>7. \A b \in App : ~UsedBy(b, p)
  BY <1>2, <1>3 DEF OrderlyOk, PortsOk
<1>8. ASSUME NEW q \in Port, UsedBy(a, q)'
      PROVE  q = p \/ UsedBy(a, q)
  <2>1. CASE \E k \in PortKind : cluster'[a][k] = q
    BY <1>1, <2>1 DEF UsedBy
  <2>2. CASE ~\E k \in PortKind : cluster'[a][k] = q
    BY <1>2, <1>4, <1>8, <2>2 DEF UsedBy, Lone
  <2> QED
    BY <2>1, <2>2
<1>9. \A d \in Call : OwesAnnouncement(call'[d], a) <=> OwesAnnouncement(call[d], a)
  BY <1>1, <1>4 DEF OwesAnnouncement
<1>10. Counted(a) => Counted(a)'
  BY <1>1, <1>9 DEF Counted, Owed, Deployed
<1>11. /\ \A k \in PortKind : cluster'[a][k] \in busyPortRange' \cup {None}
       /\ \A q \in Port : UsedBy(a, q)' => q \in busyPortRange'
       /\ \A q \in Port : UsedBy(a, q)' => UsedBy(a, q) \/ \A b \in App : ~UsedBy(b, q)
       /\ \A q \in busyPortRange : q \in busyPortRange'
  BY <1>1, <1>2, <1>3, <1>7, <1>8, PortsOfUser
<1> QED
  BY <1>2, <1>4, <1>5, <1>6, <1>10, <1>11, PortsOfUser, MovedKeeps

(* A start creates a resource (ingest_system.go:83-170): nothing is in the *)
(* way of one, as the stop before has left nothing.                        *)
LEMMA CreateKeeps ==
    ASSUME IInv, OrderlyOk, NEW c \in Call, NEW k \in Kind, CreateResource(c, k),
           Truthful(c), UNCHANGED <<process, doubled>>
    PROVE  OrderlyOk'
<1>1. /\ TypeOK /\ call[c].pc = "creating" /\ call[c].part[k] = "todo"
      /\ UNCHANGED <<busyPortRange, announced>>
  BY DEF CreateResource, At, IInv
<1>2. PICK a \in App : /\ a = call[c].app /\ a # None /\ Lone(c, a) /\ Steady
                       /\ Held(c, a) /\ ~Late /\ c \notin Task /\ tasks # {}
  BY <1>1, StartOfUser
<1>3. PICK q \in RangePorts : q = call[c].port
  BY <1>1 DEF OrderlyOk, Deed
<1>4. cluster[a][k] = None /\ q # None /\ q \in Port
  BY <1>1, <1>2, <1>3, RangeOfPorts DEF OrderlyOk, Deed
<1>5. /\ Becomes(c, k, "done") /\ cluster' = [cluster EXCEPT ![a][k] = q]
      /\ created' = IF k = "deployment" THEN [created EXCEPT ![a] = @ + 1] ELSE created
  <2>1. ~Becomes(c, k, "failed")
    <3> SUFFICES ASSUME Becomes(c, k, "failed")
                 PROVE  FALSE
      OBVIOUS
    <3>1. call'[c].part[k] = "failed"
      BY <1>1, ProgressRecord
    <3> QED
      BY <1>1, <1>2, <1>4, <3>1 DEF Truthful
  <2> QED
    BY <1>2, <1>3, <1>4, <2>1 DEF CreateResource, Store, Built
<1>6. /\ \A b \in App : b # a => cluster'[b] = cluster[b] /\ created'[b] = created[b]
      /\ \A j \in Kind : j # k => cluster'[a][j] = cluster[a][j]
      /\ cluster'[a][k] = q
  BY <1>1, <1>5 DEF TypeOK
<1>7. /\ \A d \in Call : d # c => call'[d] = call[d]
      /\ call'[c].pc = "creating" /\ call'[c].app = a /\ call'[c].op = call[c].op
      /\ call'[c].port = q /\ call'[c].part[k] = "done"
      /\ \A j \in Kind : j # k => call'[c].part[j] = call[c].part[j]
  BY <1>1, <1>2, <1>3, <1>5, ProgressRecord
<1>8. Moved(c, a) /\ InPlace(c, a)
  BY <1>1, <1>2, <1>6, <1>7 DEF Moved, InPlace, Held
<1>9. Deed(c)'
  BY <1>1, <1>2, <1>3, <1>6, <1>7 DEF OrderlyOk, Deed
<1>10. UsedBy(a, q) /\ q \in busyPortRange
  <2>1. UsedBy(a, q)
    BY <1>1, <1>2, <1>3 DEF UsedBy
  <2> QED
    BY <1>2, <1>4, <2>1, PortsOfUser
<1>11. ASSUME NEW p \in Port, UsedBy(a, p)'
       PROVE  UsedBy(a, p)
  <2>1. CASE \E j \in PortKind : cluster'[a][j] = p
    BY <1>6, <1>10, <2>1, Kinds DEF UsedBy
  <2>2. CASE ~\E j \in PortKind : cluster'[a][j] = p
    BY <1>2, <1>7, <1>10, <1>11, <2>2 DEF UsedBy, Lone
  <2> QED
    BY <2>1, <2>2
<1>12. \A j \in PortKind : cluster'[a][j] \in busyPortRange \cup {None}
  BY <1>6, <1>10, PortsOfUser, Kinds
<1>13. ASSUME Counted(a)
       PROVE  Counted(a)'
  <2>1. created[a] \in Nat /\ announced[a] \in Nat
    BY <1>1 DEF TypeOK
  <2>2. Owed(a) = 0 /\ Owed(a)' = 0
    BY <1>1, <1>2, <1>7 DEF Owed, OwesAnnouncement, Lone
  <2>3. CASE k = "deployment"
    <3>1. created'[a] = created[a] + 1
      BY <1>1, <1>5, <2>3 DEF TypeOK
    <3>2. Deployed(a) = 0 /\ Deployed(a)' = 1
      BY <1>4, <1>6, <2>3 DEF Deployed
    <3> QED
      BY <1>1, <1>13, <2>1, <2>2, <3>1, <3>2 DEF Counted
  <2>4. CASE k # "deployment"
    BY <1>1, <1>5, <1>6, <1>13, <2>2, <2>4, Kinds DEF Counted, Deployed
  <2> QED
    BY <2>3, <2>4
<1> QED
  BY <1>1, <1>2, <1>7, <1>8, <1>9, <1>11, <1>12, <1>13, PortsOfUser, MovedKeeps

(* A start ends (ingest_system.go:63-66, 172-178): with an ingest that is  *)
(* whole, or without a port and without anything created.                  *)
LEMMA StartEndsKeep ==
    ASSUME IInv, OrderlyOk, NEW c \in Call,
           GetPortFull(c) \/ StartDone(c) \/ StartFailed(c),
           UNCHANGED <<process, doubled>>
    PROVE  OrderlyOk'
<1>1. /\ TypeOK /\ call[c].pc \in {"get_port", "creating"}
      /\ UNCHANGED <<cluster, created, announced>>
  BY DEF GetPortFull, StartDone, StartFailed, IInv, history
<1>2. PICK a \in App : /\ a = call[c].app /\ a # None /\ Lone(c, a) /\ Steady
                       /\ Held(c, a) /\ ~Late /\ c \notin Task /\ tasks # {}
  BY <1>1, StartOfUser
<1>3. /\ Answer(c, "started") \/ Answer(c, "error")
      /\ busyPortRange' = busyPortRange /\ (Whole(a) \/ Gone(a))
  <2>1. CASE GetPortFull(c)
    BY <1>2, <2>1 DEF GetPortFull, OrderlyOk, Deed
  <2>2. CASE StartDone(c)
    <3>1. \A k \in Kind : cluster[a][k] = call[c].port /\ call[c].port \in RangePorts
      BY <1>2, <2>2 DEF StartDone, AllReturned, OrderlyOk, Deed
    <3> QED
      BY <2>2, <3>1, RangeOfPorts DEF StartDone, Whole
  <2>3. CASE StartFailed(c)
    BY <2>3 DEF StartFailed, SomeFailed, OrderlyOk, Deed
  <2> QED
    BY <2>1, <2>2, <2>3
<1>4. /\ \A d \in Call : d # c => call'[d] = call[d]
      /\ call'[c].pc = "idle" /\ call'[c].app = None /\ call'[c].op = "stop"
  BY <1>1, <1>3 DEF Answer, TypeOK, Idle
<1>5. Moved(c, a) /\ InPlace(c, a) /\ Shrinks(a)
  BY <1>1, <1>2, <1>4 DEF Moved, InPlace, Held, Shrinks
<1>6. Deed(c)'
  BY <1>4 DEF Deed
<1>7. ASSUME NEW p \in Port, UsedBy(a, p)'
      PROVE  UsedBy(a, p)
  BY <1>1, <1>2, <1>4, <1>7 DEF UsedBy
<1>8. Owed(a)' = Owed(a)
  BY <1>1, <1>2, <1>4 DEF Owed, OwesAnnouncement, Lone
<1>9. Counted(a) => Counted(a)'
  BY <1>1, <1>8 DEF Counted, Deployed
<1>10. Whole(a)' \/ Gone(a)'
  BY <1>1, <1>3 DEF Whole, Gone
<1> QED
  BY <1>1, <1>2, <1>3, <1>4, <1>5, <1>6, <1>7, <1>9, <1>10, PortsOfUser, MovedKeeps

(* Every step of a call. *)
LEMMA SystemKeeps ==
    ASSUME IInv, OrderlyOk, NEW c \in Call, SystemStep(c), orderly'
    PROVE  OrderlyOk'
<1>1. GoesOn(c) /\ Truthful(c) /\ UNCHANGED <<process, doubled>>
  BY DEF SystemStep
<1>2. ASSUME NEW k \in Kind, FindResource(c, k) \/ DeleteResource(c, k) \/ CreateResource(c, k)
      PROVE  OrderlyOk'
  BY <1>1, <1>2, FindKeeps, DeleteKeeps, CreateKeeps
<1>3. CASE StopFailed(c) \/ StopDeleted(c) \/ Announce(c)
  BY <1>1, <1>3, StopFailedKeeps, StopDeletedKeeps, AnnounceKeeps
<1>4. CASE GetPort(c) \/ GetPortFull(c) \/ StartDone(c) \/ StartFailed(c)
  BY <1>1, <1>4, GetPortKeeps, StartEndsKeep
<1> QED
  BY <1>1, <1>2, <1>3, <1>4 DEF GoesOn

------------------------------------------------------------------------------
(* Steps of the process that leave the calls and the cluster alone.        *)

LEMMA CallsStay ==
    ASSUME OrderlyOk, UNCHANGED <<busyPortRange, cluster, call, created, announced>>,
           Steady' => Steady, ~doubled' => ~doubled
    PROVE  (\A c \in Call : Deed(c)') /\ PortsOk' /\ SteadyOk' /\ EndsCounted'
<1>1. \A c \in Call : Deed(c)'
  BY DEF OrderlyOk, Deed, Gone
<1>2. \A a \in App, p \in Port : UsedBy(a, p)' <=> UsedBy(a, p)
  BY DEF UsedBy
<1>3. PortsOk'
  BY <1>2 DEF OrderlyOk, PortsOk
<1>4. SteadyOk'
  BY DEF OrderlyOk, SteadyOk, Clean, InFlight, Whole, Gone
<1>5. \A a \in App : Deployed(a)' = Deployed(a) /\ Owed(a)' = Owed(a)
  BY DEF Deployed, Owed
<1>6. EndsCounted'
  BY <1>5 DEF OrderlyOk, EndsCounted
<1> QED
  BY <1>1, <1>3, <1>4, <1>6

(* The call of a task is a stop that the task waits for. *)
LEMMA OnlyTasks ==
    ASSUME OrderlyOk, NEW c \in Call, call[c].app # None, c \notin Request
    PROVE  c \in Task /\ job[c].stage = "stopping" /\ call[c].app = job[c].app
BY DEF OrderlyOk, SlotsOk, Request

(* A task that does something runs in a shutdown. *)
LEMMA TasksRun ==
    ASSUME OrderlyOk, NEW t \in Task, job[t].stage # "none"
    PROVE  Late
BY DEF OrderlyOk, TasksOk, NoJob

(* A reconciliation (ingesttemplate_controller.go:29-81). *)
LEMMA ReconcileKeeps ==
    ASSUME IInv, ProcessTypeOK, OrderlyOk, NEW t \in Task, Reconcile(t), orderly'
    PROVE  OrderlyOk'
<1>1. /\ UNCHANGED <<busyPortRange, cluster, call, created, announced>>
      /\ UNCHANGED <<job, ending, wg, doubled>>
      /\ t \in tasks' /\ ending # "counted"
  BY DEF Reconcile, vars, history
<1>2. /\ Steady' = Steady /\ AllListing' = AllListing
      /\ Working' = Working /\ Late' = Late
  BY <1>1 DEF Steady, AllListing, Working, Late
<1>3. (\A c \in Call : Deed(c)') /\ PortsOk' /\ SteadyOk' /\ EndsCounted'
  BY <1>1, <1>2, CallsStay
<1>4. SlotsOk'
  BY <1>1, <1>2 DEF OrderlyOk, SlotsOk, OneEach
<1>5. TasksOk'
  BY <1>1, <1>2 DEF OrderlyOk, TasksOk
<1>6. KnownOk'
  BY <1>1 DEF KnownOk
<1>7. LeftOk'
  BY <1>1, <1>2 DEF OrderlyOk, LeftOk, Gone
<1> QED
  BY <1>3, <1>4, <1>5, <1>6, <1>7 DEF OrderlyOk

(* The signal (shutdown.go:52-56). *)
LEMMA SignalKeeps ==
    ASSUME IInv, ProcessTypeOK, OrderlyOk, Signal
    PROVE  OrderlyOk'
<1>1. /\ UNCHANGED <<busyPortRange, cluster, call, created, announced>>
      /\ UNCHANGED <<known, tasks, job, doubled>>
      /\ ending = "no" /\ ending' = "counted" /\ wg' = Cardinality(tasks)
  BY DEF Signal, vars, history
<1>2. Steady' /\ Steady /\ ~Late /\ ~Late'
  BY <1>1 DEF Steady, Late
<1>3. (\A c \in Call : Deed(c)') /\ PortsOk' /\ SteadyOk' /\ EndsCounted'
  BY <1>1, <1>2, CallsStay
<1>4. SlotsOk'
  BY <1>1, <1>2 DEF OrderlyOk, SlotsOk, OneEach
<1>5. TasksOk'
  BY <1>1, <1>2 DEF OrderlyOk, TasksOk
<1>6. KnownOk'
  BY <1>1 DEF OrderlyOk, KnownOk, Gone
<1>7. LeftOk'
  BY <1>1, <1>2 DEF OrderlyOk, LeftOk, Gone
<1> QED
  BY <1>3, <1>4, <1>5, <1>6, <1>7 DEF OrderlyOk

(* The tasks have returned, and the gRPC server is stopped                 *)
(* (shutdown.go:62-63, main.go:85-94).                                     *)
LEMMA DrainKeeps ==
    ASSUME IInv, ProcessTypeOK, OrderlyOk, Drain
    PROVE  OrderlyOk'
<1>1. /\ UNCHANGED <<busyPortRange, cluster, call, created, announced>>
      /\ UNCHANGED <<known, tasks, job, wg, doubled>>
      /\ ending = "running" /\ ending' = "draining" /\ wg = 0
  BY DEF Drain, vars, history
<1>2. /\ Late /\ Late' /\ Steady' = Steady
      /\ AllListing' = AllListing /\ Working' = Working
  BY <1>1 DEF Steady, Late, AllListing, Working
<1>3. (\A c \in Call : Deed(c)') /\ PortsOk' /\ SteadyOk' /\ EndsCounted'
  BY <1>1, <1>2, CallsStay
<1>4. SlotsOk'
  BY <1>1, <1>2 DEF OrderlyOk, SlotsOk, OneEach
<1>5. TasksOk'
  BY <1>1, <1>2 DEF OrderlyOk, TasksOk
<1>6. KnownOk'
  BY <1>1 DEF OrderlyOk, KnownOk, Gone
<1>7. LeftOk'
  BY <1>1, <1>2 DEF OrderlyOk, LeftOk, Gone
<1> QED
  BY <1>3, <1>4, <1>5, <1>6, <1>7 DEF OrderlyOk

(* The tasks are started (shutdown.go:57-60), as many as were counted.     *)
LEMMA LaunchKeeps ==
    ASSUME IInv, ProcessTypeOK, OrderlyOk, Launch, orderly'
    PROVE  OrderlyOk'
<1>1. /\ UNCHANGED <<busyPortRange, cluster, call, created, announced>>
      /\ UNCHANGED <<known, tasks, wg>>
      /\ ending = "counted" /\ ending' = "running"
      /\ \A c \in Request : call[c].op = "stop"
  BY DEF Launch, vars, history
<1>0. /\ doubled => doubled'
      /\ ~doubled' => ~(Cardinality(tasks) > 1) /\ NoneInFlight
  <2>1. doubled' = (doubled \/ Cardinality(tasks) > 1 \/ ~NoneInFlight)
    BY DEF Launch
  <2> QED
    BY <2>1, Zenon
<1>2. /\ \A t \in Task : /\ job'[t].stage = IF t \in tasks THEN "list" ELSE "none"
                         /\ job'[t].todo = {}
      /\ tasks \subseteq Task
  BY DEF Launch, NoJob, ProcessTypeOK
<1>3. Steady /\ Steady' /\ AllListing' /\ ~Late /\ Late'
  BY <1>1, <1>2 DEF Steady, AllListing, Late
<1>4. (\A c \in Call : Deed(c)') /\ PortsOk' /\ SteadyOk' /\ EndsCounted'
  BY <1>0, <1>1, <1>3, CallsStay
<1>5. \A t \in Task : call[t].pc = "idle"
  BY <1>3 DEF OrderlyOk, SlotsOk, TasksOk, NoJob
<1>6. SlotsOk'
  BY <1>0, <1>1, <1>3, <1>5 DEF OrderlyOk, SlotsOk, OneEach, NoneInFlight
<1>7. TasksOk'
  <2>1. Working' = tasks
    BY <1>2 DEF Working
  <2>2. wg' = Cardinality(Working')
    BY <1>1, <2>1 DEF OrderlyOk, TasksOk
  <2>3. ASSUME ~doubled', NEW t \in tasks, NEW u \in tasks
        PROVE  t = u
    <3>1. IsFiniteSet(tasks) /\ Cardinality(tasks) \in Nat
      BY <1>2, TasksFinite, FS_Subset, FS_CardinalityType
    <3>2. ~(Cardinality(tasks) > 1)
      BY <1>0, <2>3
    <3>3. Cardinality(tasks) # 0
      BY <2>3, <3>1, FS_EmptySet
    <3>4. Cardinality(tasks) = 1
      BY <3>1, <3>2, <3>3
    <3> QED
      BY <2>3, <3>1, <3>4, FS_Singleton
  <2> QED
    BY <1>1, <1>2, <1>3, <2>2, <2>3 DEF TasksOk
<1>8. KnownOk'
  BY <1>1 DEF OrderlyOk, KnownOk, Gone
<1>9. LeftOk'
  BY <1>1, <1>2, <1>3 DEF OrderlyOk, LeftOk, KnownOk, Gone
<1> QED
  BY <1>4, <1>6, <1>7, <1>8, <1>9 DEF OrderlyOk

(* A task lists the deployments (ingesttemplate_controller.go:46-60): as   *)
(* long as all of them have still to, there is none that is half removed.  *)
LEMMA TaskListKeeps ==
    ASSUME IInv, ProcessTypeOK, OrderlyOk, NEW t \in Task, TaskList(t), orderly'
    PROVE  OrderlyOk'
<1> DEFINE listed == {a \in App : cluster[a]["deployment"] # None}
<1>1. /\ UNCHANGED <<busyPortRange, cluster, call, created, announced>>
      /\ UNCHANGED <<known, tasks, ending, wg, doubled>>
      /\ job[t].stage = "list" /\ Late /\ Late'
  BY TasksRun DEF TaskList, vars, history, Late
<1>2. /\ job'[t].stage = "stop" /\ job'[t].todo = listed
      /\ \A u \in Task : u # t => job'[u] = job[u]
      /\ job[t].todo = {}
  <2>1. PICK seen \in SUBSET App :
            /\ job' = [job EXCEPT ![t].stage = "stop", ![t].todo = seen]
            /\ seen = listed
    BY DEF TaskList
  <2> QED
    BY <1>1, <2>1 DEF ProcessTypeOK, JobType, OrderlyOk, TasksOk
<1> HIDE DEF listed
<1>3. ~AllListing' /\ (Steady' => Steady) /\ Working' = Working
  BY <1>1, <1>2 DEF Steady, AllListing, Working
<1>4. (\A c \in Call : Deed(c)') /\ PortsOk' /\ SteadyOk' /\ EndsCounted'
  BY <1>1, <1>3, CallsStay
<1>5. \A u \in Task : job[u].stage = "stopping" <=> job'[u].stage = "stopping"
  BY <1>1, <1>2
<1>6. SlotsOk'
  BY <1>1, <1>2, <1>3 DEF OrderlyOk, SlotsOk, OneEach
<1>7. TasksOk'
  <2>1. \A u \in Task : job'[u].stage # "none" <=> job[u].stage # "none"
    BY <1>1, <1>2
  <2> QED
    BY <1>1, <1>2, <1>3, <2>1 DEF OrderlyOk, TasksOk
<1>8. KnownOk'
  BY <1>1 DEF OrderlyOk, KnownOk, Gone
<1>9. ASSUME NEW a \in App
      PROVE  \/ Gone(a)
             \/ \E u \in Task : a \in job'[u].todo
             \/ \E c \in Request : call[c].pc = "stopping" /\ call[c].app = a
  <2>1. CASE \E u \in Task : a \in job[u].todo
    BY <1>2, <2>1
  <2>2. CASE AllListing
    <3>1. CASE ~InFlight(a)
      <4>1. Whole(a) \/ Gone(a)
        BY <2>2, <3>1 DEF Steady, OrderlyOk, SteadyOk
      <4> QED
        BY <1>2, <4>1, Kinds DEF Whole, listed
    <3>2. CASE InFlight(a)
      <4>1. PICK c \in Call : call[c].app = a
        BY <3>2 DEF InFlight
      <4>2. call[c].app # None /\ call[c].pc # "idle"
        BY <4>1, OperatorAssumption DEF OrderlyOk, SlotsOk
      <4>3. c \in Request /\ call[c].pc \in {"stopping", "announcing"}
        BY <1>1, <2>2, <4>2, OnlyRpcs, RivalStops
      <4> QED
        BY <4>1, <4>3 DEF OrderlyOk, Deed
    <3> QED
      BY <3>1, <3>2
  <2>3. CASE \E c \in Request : call[c].pc = "stopping" /\ call[c].app = a
    BY <2>3
  <2> QED
    BY <1>1, <2>1, <2>2, <2>3 DEF OrderlyOk, LeftOk
<1>10. LeftOk'
  BY <1>1, <1>2, <1>5, <1>9 DEF OrderlyOk, LeftOk, Gone
<1> QED
  BY <1>4, <1>6, <1>7, <1>8, <1>10 DEF OrderlyOk

(* A task stops an ingest (ingesttemplate_controller.go:62-70): without a  *)
(* rival it is in order.                                                   *)
LEMMA TaskStopKeeps ==
    ASSUME IInv, ProcessTypeOK, OrderlyOk, NEW t \in Task, NEW a \in App, TaskStop(t, a)
    PROVE  OrderlyOk'
<1>1. /\ UNCHANGED <<busyPortRange, cluster, created, announced>>
      /\ UNCHANGED <<known, tasks, ending, wg, doubled>>
      /\ job[t].stage = "stop" /\ Late /\ Late' /\ t \in Call
  BY TasksRun, TasksFinite DEF TaskStop, history, Late
<1>2. /\ job'[t].stage = "stopping" /\ job'[t].app = a /\ job'[t].todo = job[t].todo
      /\ \A u \in Task : u # t => job'[u] = job[u]
  BY DEF TaskStop, ProcessTypeOK, JobType
<1>3. /\ call'[t].pc = "stopping" /\ call'[t].op = "stop" /\ call'[t].app = a
      /\ call'[t].part = [k \in Kind |-> "todo"]
      /\ call'[t].seen = [k \in PortKind |-> None]
      /\ \A c \in Call : c # t => call'[c] = call[c]
  BY <1>1 DEF TaskStop, IInv, TypeOK, Idle
<1>4. call[t].pc = "idle" /\ call[t].app = None /\ a # None
  BY <1>1, OperatorAssumption DEF OrderlyOk, SlotsOk
<1>5. /\ ~AllListing /\ ~AllListing' /\ (Steady <=> ~doubled) /\ (Steady' <=> ~doubled)
      /\ Working' = Working
  BY <1>1, <1>2 DEF Steady, AllListing, Working
<1>6. Steady => \A c \in Call : call[c].pc = "idle" /\ call[c].app = None
  BY <1>1, <1>4, <1>5 DEF OrderlyOk, SlotsOk, TasksOk, Request
<1>7. SlotsOk'
  <2>1. Steady' => OneEach'
    BY <1>3, <1>5, <1>6 DEF OneEach
  <2>2. \A c \in Call : (call[c].pc = "idle" => call[c].app = None)'
    BY <1>3 DEF OrderlyOk, SlotsOk
  <2>3. \A c \in Request : call'[c] = call[c]
    BY <1>3 DEF Request
  <2>4. ASSUME NEW u \in Task, call'[u].pc # "idle"
        PROVE  job'[u].stage = "stopping" /\ call'[u].app = job'[u].app /\ call'[u].op = "stop"
    BY <1>2, <1>3, <2>4, ProcessAssumption DEF OrderlyOk, SlotsOk
  <2> QED
    BY <1>1, <2>1, <2>2, <2>3, <2>4 DEF OrderlyOk, SlotsOk
<1>8. TasksOk'
  <2>1. \A u \in Task : job'[u].stage # "none" <=> job[u].stage # "none"
    BY <1>1, <1>2
  <2>2. \A u \in Task : job'[u].stage \in {"none", "list", "done"} => job'[u].todo = {}
    BY <1>2 DEF OrderlyOk, TasksOk
  <2>3. \A u \in Task : job'[u].stage = "stopping" => job'[u].app \in App
    BY <1>2 DEF OrderlyOk, TasksOk
  <2> QED
    BY <1>1, <1>5, <2>1, <2>2, <2>3 DEF OrderlyOk, TasksOk
<1>9. KnownOk'
  BY <1>1, <1>3 DEF OrderlyOk, KnownOk, Gone
<1>10. \A c \in Call : Deed(c)'
  BY <1>1, <1>3 DEF OrderlyOk, Deed, Gone
<1>11. ASSUME NEW b \in App, NEW p \in Port, UsedBy(b, p)'
       PROVE  UsedBy(b, p)
  BY <1>1, <1>3, <1>11, OperatorAssumption DEF UsedBy
<1>12. PortsOk'
  BY <1>1, <1>5, <1>11 DEF OrderlyOk, PortsOk
<1>13. SteadyOk'
  <2> SUFFICES ASSUME Steady
               PROVE  SteadyOk'
    BY <1>5 DEF SteadyOk
  <2>1. \A b \in App : Whole(b) \/ Gone(b)
    BY <1>6, OperatorAssumption DEF OrderlyOk, SteadyOk, InFlight
  <2>2. Clean(t)'
    BY <1>1, <1>3, <2>1 DEF Clean, Whole, Gone
  <2>3. \A c \in Call : c # t => call'[c].pc = "idle"
    BY <1>3, <1>6
  <2> QED
    BY <1>1, <2>1, <2>2, <2>3 DEF SteadyOk, Whole, Gone
<1>14. LeftOk'
  <2>1. ASSUME NEW u \in Task, job'[u].stage = "stopping", call'[u].pc = "idle"
        PROVE  Gone(job[u].app)'
    <3>1. u # t /\ u \in Call
      BY <1>3, <2>1, ProcessAssumption
    <3>2. PICK b : b = job[u].app /\ b = job'[u].app /\ Gone(b)
      BY <1>2, <1>3, <2>1, <3>1 DEF OrderlyOk, LeftOk
    <3> QED
      BY <1>1, <3>2 DEF Gone
  <2>2. ASSUME NEW b \in App
        PROVE  \/ Gone(b)
               \/ \E u \in Task : b \in job'[u].todo
               \/ \E c \in Request : call'[c].pc = "stopping" /\ call'[c].app = b
    <3>1. \A c \in Request : call'[c] = call[c]
      BY <1>3 DEF Request
    <3> QED
      BY <1>1, <1>2, <1>5, <3>1 DEF OrderlyOk, LeftOk
  <2> QED
    BY <1>1, <2>1, <2>2 DEF LeftOk, Gone
<1>15. EndsCounted'
  <2>1. ASSUME NEW b \in App
        PROVE  Owed(b)' = Owed(b) /\ Deployed(b)' = Deployed(b)
    <3>1. \A c \in Call : OwesAnnouncement(call'[c], b) <=> OwesAnnouncement(call[c], b)
      BY <1>3, <1>4, Kinds DEF OwesAnnouncement
    <3> QED
      BY <1>1, <3>1 DEF Owed, Deployed
  <2> QED
    BY <1>1, <2>1 DEF OrderlyOk, EndsCounted
<1> QED
  BY <1>7, <1>8, <1>9, <1>10, <1>12, <1>13, <1>14, <1>15 DEF OrderlyOk

(* The deployment a task deletes once more is gone already                 *)
(* (ingesttemplate_controller.go:72-77).                                   *)
LEMMA TaskDeleteKeeps ==
    ASSUME IInv, ProcessTypeOK, OrderlyOk, NEW t \in Task, TaskDelete(t)
    PROVE  OrderlyOk'
<1>1. PICK a \in App : a = job[t].app /\ Gone(a)
  BY DEF TaskDelete, OrderlyOk, TasksOk, LeftOk
<1>2. /\ UNCHANGED <<busyPortRange, call, created, announced>>
      /\ UNCHANGED <<known, tasks, ending, wg, doubled>>
      /\ job[t].stage = "stopping" /\ call[t].pc = "idle" /\ Late /\ Late'
      /\ \/ cluster' = cluster
         \/ cluster' = [cluster EXCEPT ![a]["deployment"] = None]
  <2>1. /\ UNCHANGED <<busyPortRange, call, created, announced>>
        /\ UNCHANGED <<known, tasks, ending, wg, doubled>>
        /\ job[t].stage = "stopping" /\ call[t].pc = "idle"
        /\ \/ cluster' = cluster
           \/ cluster' = [cluster EXCEPT ![a]["deployment"] = None]
    BY <1>1 DEF TaskDelete, history
  <2>2. Late
    BY <2>1, TasksRun
  <2> QED
    BY <2>1, <2>2 DEF Late
<1>3. cluster' = cluster
  <2>1. /\ cluster \in [App -> [Kind -> portMin .. portMax \cup {None}]]
        /\ cluster[a]["deployment"] = None
    BY <1>1, Kinds DEF IInv, TypeOK, Gone
  <2>2. [cluster EXCEPT ![a]["deployment"] = None] = cluster
    BY <2>1, Kinds
  <2> QED
    BY <1>2, <2>2
<1>4. /\ job'[t].stage = "stop" /\ job'[t].todo = job[t].todo \ {a}
      /\ \A u \in Task : u # t => job'[u] = job[u]
  BY <1>1 DEF TaskDelete, ProcessTypeOK, JobType, NoJob
<1>5. /\ ~AllListing /\ ~AllListing' /\ Steady' = Steady /\ Working' = Working
  BY <1>2, <1>4 DEF Steady, AllListing, Working
<1>6. (\A c \in Call : Deed(c)') /\ PortsOk' /\ SteadyOk' /\ EndsCounted'
  BY <1>2, <1>3, <1>5, CallsStay
<1>7. SlotsOk'
  BY <1>2, <1>4, <1>5 DEF OrderlyOk, SlotsOk, OneEach
<1>8. TasksOk'
  <2>1. \A u \in Task : job'[u].stage # "none" <=> job[u].stage # "none"
    BY <1>2, <1>4
  <2> QED
    BY <1>2, <1>4, <1>5, <2>1 DEF OrderlyOk, TasksOk
<1>9. KnownOk'
  BY <1>2, <1>3 DEF OrderlyOk, KnownOk, Gone
<1>10. LeftOk'
  <2>1. \A u \in Task : job'[u].stage = "stopping" => job[u] = job'[u]
    BY <1>4
  <2>2. \A b \in App : \/ Gone(b)
                      \/ \E u \in Task : b \in job'[u].todo
                      \/ \E c \in Request : call[c].pc = "stopping" /\ call[c].app = b
    BY <1>1, <1>2, <1>4, <1>5 DEF OrderlyOk, LeftOk
  <2> QED
    BY <1>2, <1>3, <2>1, <2>2 DEF OrderlyOk, LeftOk, Gone
<1> QED
  BY <1>6, <1>7, <1>8, <1>9, <1>10 DEF OrderlyOk

(* A task is done (shutdown.go:58-60): the counter is above zero, as long  *)
(* as every task that runs was counted.                                    *)
LEMMA TaskDoneKeeps ==
    ASSUME IInv, ProcessTypeOK, OrderlyOk, NEW t \in Task, TaskDone(t), orderly'
    PROVE  OrderlyOk'
<1>1. /\ UNCHANGED <<busyPortRange, cluster, call, created, announced>>
      /\ UNCHANGED <<known, tasks, ending, doubled>>
      /\ job[t].stage = "stop" /\ job[t].todo = {} /\ Late /\ Late'
      /\ wg > 0 /\ wg' = wg - 1 /\ job' = [job EXCEPT ![t].stage = "done"]
  BY TasksRun DEF TaskDone, vars, history, Late
<1>2. /\ job'[t].stage = "done" /\ job'[t].todo = {}
      /\ \A u \in Task : u # t => job'[u] = job[u]
  BY <1>1 DEF ProcessTypeOK, JobType
<1>3. /\ ~AllListing /\ ~AllListing' /\ Steady' = Steady
      /\ Working' = Working \ {t} /\ t \in Working
  BY <1>1, <1>2 DEF Steady, AllListing, Working
<1>4. (\A c \in Call : Deed(c)') /\ PortsOk' /\ SteadyOk' /\ EndsCounted'
  BY <1>1, <1>3, CallsStay
<1>5. SlotsOk'
  BY <1>1, <1>2, <1>3 DEF OrderlyOk, SlotsOk, OneEach
<1>6. TasksOk'
  <2>1. IsFiniteSet(Working)
    BY TasksFinite, FS_Subset DEF Working
  <2>2. wg' = Cardinality(Working')
    BY <1>1, <1>3, <2>1, FS_RemoveElement DEF OrderlyOk, TasksOk
  <2>3. \A u \in Task : job'[u].stage # "none" <=> job[u].stage # "none"
    BY <1>1, <1>2
  <2>4. ending # "draining"
    BY <1>1 DEF OrderlyOk, TasksOk
  <2>5. Late /\ ~doubled =>
          \A u, v \in Task : job'[u].stage # "none" /\ job'[v].stage # "none" => u = v
    BY <2>3 DEF OrderlyOk, TasksOk
  <2>6. /\ \A u \in Task : job'[u].stage \in {"none", "list", "done"} => job'[u].todo = {}
        /\ \A u \in Task : job'[u].stage = "stopping" => job'[u].app \in App
    BY <1>2 DEF OrderlyOk, TasksOk
  <2>7. ending' # "counted" /\ ending' # "draining"
    BY <1>1, <2>4 DEF Late
  <2> QED
    BY <1>1, <2>2, <2>5, <2>6, <2>7 DEF TasksOk
<1>7. KnownOk'
  BY <1>1 DEF OrderlyOk, KnownOk, Gone
<1>8. LeftOk'
  <2>1. \A u \in Task : job'[u].stage = "stopping" => job[u] = job'[u]
    BY <1>2
  <2>2. \A b \in App : \/ Gone(b)
                      \/ \E u \in Task : b \in job'[u].todo
                      \/ \E c \in Request : call[c].pc = "stopping" /\ call[c].app = b
    BY <1>1, <1>2, <1>3 DEF OrderlyOk, LeftOk
  <2> QED
    BY <1>1, <2>1, <2>2 DEF OrderlyOk, LeftOk, Gone
<1> QED
  BY <1>4, <1>5, <1>6, <1>7, <1>8 DEF OrderlyOk

------------------------------------------------------------------------------
(* A new process, with nothing in the cluster. *)
Newborn ==
    /\ busyPortRange = {}
    /\ call = [c \in Call |-> Idle]
    /\ \A a \in App : Gone(a)
    /\ ~known
    /\ tasks = {}
    /\ job = [t \in Task |-> NoJob]
    /\ ending = "no"
    /\ ~doubled => \A a \in App : created[a] = announced[a] /\ announced[a] \in Nat

LEMMA NewbornIsOrderly == Newborn => OrderlyOk
<1> SUFFICES ASSUME Newborn
             PROVE  OrderlyOk
  OBVIOUS
<1>1. /\ \A c \in Call : call[c].pc = "idle" /\ call[c].app = None
      /\ \A t \in Task : job[t].stage = "none" /\ job[t].todo = {}
  BY DEF Newborn, Idle, NoJob
<1>2. SlotsOk /\ TasksOk
  BY <1>1, ProcessAssumption DEF Newborn, SlotsOk, OneEach, TasksOk, Late, Request
<1>3. KnownOk /\ \A c \in Call : Deed(c)
  BY <1>1 DEF Newborn, KnownOk, Deed
<1>4. \A a \in App, p \in Port : ~UsedBy(a, p)
  BY <1>1, Kinds, OperatorAssumption DEF Newborn, UsedBy, Gone
<1>5. PortsOk
  BY <1>4, Kinds DEF PortsOk, Newborn, Gone
<1>6. SteadyOk /\ LeftOk
  BY <1>1 DEF Newborn, SteadyOk, LeftOk, Late
<1>7. \A a \in App : Owed(a) = 0 /\ Deployed(a) = 0
  BY <1>1, Kinds DEF Newborn, Owed, OwesAnnouncement, Deployed, Gone
<1>8. EndsCounted
  BY <1>7 DEF Newborn, EndsCounted
<1> QED
  BY <1>2, <1>3, <1>5, <1>6, <1>8 DEF OrderlyOk

(* The tasks and the RPCs have returned: nothing of any ingest is left,    *)
(* and the end of each has been announced.                                 *)
LEMMA EndLeavesNothing ==
    ASSUME IInv, ProcessTypeOK, OrderlyOk, Exit
    PROVE  \A a \in App : Gone(a) /\ (~doubled => created[a] = announced[a])
<1>1. Late /\ wg = 0 /\ \A c \in Request : call[c].pc = "idle"
  BY DEF Exit, NoneInFlight, Late, OrderlyOk, TasksOk
<1>2. Working = {}
  <2>1. IsFiniteSet(Working) /\ Cardinality(Working) = 0
    BY <1>1, TasksFinite, FS_Subset DEF Working, OrderlyOk, TasksOk
  <2> QED
    BY <2>1, FS_EmptySet
<1>3. \A t \in Task : job[t].stage \notin {"list", "stop", "stopping"}
  BY <1>2 DEF Working
<1>4. ASSUME NEW a \in App
      PROVE  Gone(a)
  <2>1. \A t \in Task : a \notin job[t].todo
    BY <1>3 DEF ProcessTypeOK, JobType, OrderlyOk, TasksOk
  <2> QED
    BY <1>1, <1>3, <2>1 DEF OrderlyOk, LeftOk
<1>5. \A c \in Call : call[c].app = None
  BY <1>1, <1>3, OnlyTasks DEF OrderlyOk, SlotsOk
<1>6. ASSUME NEW a \in App
      PROVE  Owed(a) = 0 /\ Deployed(a) = 0
  BY <1>4, <1>5, Kinds, OperatorAssumption DEF Owed, OwesAnnouncement, Deployed, Gone
<1> QED
  BY <1>4, <1>6 DEF OrderlyOk, EndsCounted, IInv, TypeOK

(* The graceful end, and the process after it. *)
LEMMA ExitKeeps ==
    ASSUME IInv, ProcessTypeOK, OrderlyOk, Exit
    PROVE  OrderlyOk'
<1>1. /\ busyPortRange' = {} /\ call' = [c \in Call |-> Idle]
      /\ UNCHANGED <<cluster, created, announced, doubled>>
      /\ Fresh
  BY DEF Exit, Restarted, history
<1>2. \A a \in App : announced[a] \in Nat
  BY DEF IInv, TypeOK
<1>3. \A a \in App : Gone(a)'
  BY <1>1, EndLeavesNothing DEF Gone
<1>4. Newborn'
  BY <1>1, <1>2, <1>3, EndLeavesNothing DEF Newborn, Fresh
<1>5. Newborn' => OrderlyOk'
  BY NewbornIsOrderly, PTL
<1> QED
  BY <1>4, <1>5

LEMMA OrderlyKeeps ==
    ASSUME ProcessInv, orderly, [ProcessNext]_processVars, orderly'
    PROVE  OrderlyOk'
<1>1. IInv /\ ProcessTypeOK /\ OrderlyOk
  BY DEF ProcessInv
<1>2. ASSUME NEW c \in Request, NEW a \in App, StartKnownServer(c, a) \/ StopAnyServer(c, a)
      PROVE  OrderlyOk'
  BY <1>1, <1>2, BeginKeeps
<1>3. ASSUME NEW c \in Call, SystemStep(c)
      PROVE  OrderlyOk'
  BY <1>1, <1>3, SystemKeeps
<1>4. ASSUME NEW t \in Task, Reconcile(t)
      PROVE  OrderlyOk'
  BY <1>1, <1>4, ReconcileKeeps
<1>5. ASSUME NEW t \in Task, TaskStep(t)
      PROVE  OrderlyOk'
  BY <1>1, <1>5, TaskListKeeps, TaskStopKeeps, TaskDeleteKeeps, TaskDoneKeeps DEF TaskStep
<1>6. CASE Signal \/ Launch \/ Drain \/ Exit
  BY <1>1, <1>6, SignalKeeps, LaunchKeeps, DrainKeeps, ExitKeeps
<1>7. ~Die
  BY DEF Die
<1>8. CASE UNCHANGED processVars \/ \E a \in App, k \in Kind : Caught(a, k)
  <2>1. /\ UNCHANGED <<busyPortRange, cluster, call, created, announced>>
        /\ UNCHANGED <<known, tasks, job, ending, wg, doubled>>
    BY <1>8 DEF processVars, process, vars, history, Caught, CacheSync
  <2>2. /\ Steady' = Steady /\ AllListing' = AllListing
        /\ Working' = Working /\ Late' = Late
    BY <2>1 DEF Steady, AllListing, Working, Late
  <2>3. (\A c \in Call : Deed(c)') /\ PortsOk' /\ SteadyOk' /\ EndsCounted'
    BY <1>1, <2>1, <2>2, CallsStay
  <2>4. SlotsOk'
    BY <1>1, <2>1, <2>2 DEF OrderlyOk, SlotsOk, OneEach
  <2>5. TasksOk'
    BY <1>1, <2>1, <2>2 DEF OrderlyOk, TasksOk
  <2>6. KnownOk' /\ LeftOk'
    BY <1>1, <2>1, <2>2 DEF OrderlyOk, KnownOk, LeftOk, Gone
  <2> QED
    BY <2>3, <2>4, <2>5, <2>6 DEF OrderlyOk
<1> QED
  BY <1>2, <1>3, <1>4, <1>5, <1>6, <1>7, <1>8 DEF ProcessNext

LEMMA ProcessInitially ==
    ASSUME ProcessInit
    PROVE  ProcessInv
<1>1. IInv
  BY InitInvariant DEF ProcessInit
<1>2. ProcessTypeOK
  BY DEF ProcessInit, ProcessTypeOK, NoJob, JobType
<1>3. Newborn
  BY DEF ProcessInit, Init, Empty, Newborn, Gone
<1> QED
  BY <1>1, <1>2, <1>3, NewbornIsOrderly DEF ProcessInv

LEMMA ProcessNextKeeps ==
    ASSUME ProcessInv, [ProcessNext]_processVars
    PROVE  ProcessInv'
<1>1. IInv' /\ ProcessTypeOK'
  BY ProcessKeepsCalls, ProcessTypes DEF ProcessInv
<1>2. ASSUME orderly'
      PROVE  orderly
  BY <1>2 DEF ProcessNext, StartKnownServer, StopAnyServer, SystemStep, TaskStep,
              Reconcile, TaskList, TaskStop, TaskDelete, TaskDone, Signal, Launch, Drain,
              Exit, Die, Caught, processVars
<1>3. orderly' => OrderlyOk'
  BY <1>2, OrderlyKeeps
<1> QED
  BY <1>1, <1>3 DEF ProcessInv

------------------------------------------------------------------------------
(* Until the first disorder the process keeps its calls, its tasks, the    *)
(* ports and what is left of each ingest in order, while RPCs, shutdown    *)
(* tasks and reconciliations interleave (the invariant the theorems rest   *)
(* on).                                                                    *)
THEOREM ProcessInvariance == ProcessSpec => []ProcessInv
<1>1. ProcessInit => ProcessInv
  BY ProcessInitially
<1>2. ProcessInv /\ [ProcessNext]_processVars => ProcessInv'
  BY ProcessNextKeeps
<1> QED
  BY <1>1, <1>2, PTL DEF ProcessSpec

(* No two users' ingests are on one node port, and the allocator knows     *)
(* every port in the cluster, across any number of graceful ends, each of  *)
(* which forgets what the allocator gave out, and some of which stops      *)
(* overlap (ingesttemplate_controller.go:46-81, main.go:436-442).          *)
THEOREM PortsStayKnown == ProcessSpec => []PortsKnown
<1>1. ASSUME ProcessInv
      PROVE  PortsKnown
  <2> SUFFICES ASSUME orderly
               PROVE  PortsExclusive /\ CarriedAreBusy
    BY DEF PortsKnown
  <2>1. PortsOk /\ TypeOK
    BY <1>1 DEF ProcessInv, OrderlyOk, IInv
  <2>2. \A a \in App : \A p \in Carried(a) : p \in busyPortRange /\ UsedBy(a, p)
    BY <2>1 DEF PortsOk, Carried, UsedBy
  <2>3. busyPortRange \subseteq Port
    BY <2>1, RangeOfPorts DEF TypeOK, RangePorts
  <2>4. PortsExclusive
    BY <2>1, <2>2, <2>3 DEF PortsOk, PortsExclusive
  <2> QED
    BY <2>2, <2>4 DEF CarriedAreBusy
<1> QED
  BY <1>1, ProcessInvariance, PTL

(* Nobody misses the end of an ingest that a single task stopped, or an    *)
(* RPC: each that was deployed is there or was announced destroyed         *)
(* (ingest_system.go:348-371).                                             *)
THEOREM EndsAreAnnounced == ProcessSpec => []EndsAnnounced
<1>1. ASSUME ProcessInv
      PROVE  EndsAnnounced
  <2> SUFFICES ASSUME orderly, ~doubled, NEW a \in App, ~InFlight(a)
               PROVE  created[a] = announced[a] + Deployed(a)
    BY DEF EndsAnnounced, NoneMissed
  <2>1. EndsCounted /\ TypeOK
    BY <1>1 DEF ProcessInv, OrderlyOk, IInv
  <2>2. Owed(a) = 0
    BY DEF Owed, OwesAnnouncement, InFlight
  <2>3. announced[a] \in Nat /\ Deployed(a) \in Nat
    BY <2>1 DEF TypeOK, Deployed
  <2> QED
    BY <2>1, <2>2, <2>3 DEF EndsCounted
<1> QED
  BY <1>1, ProcessInvariance, PTL

(* A graceful end leaves nothing of any ingest in the cluster, however     *)
(* many tasks compete to remove it, and with however many stops            *)
(* (ingesttemplate_controller.go:46-81, main.go:436-442).                  *)
THEOREM EndsLeaveNothing == ProcessSpec => NothingLeft
<1>1. ASSUME ProcessInv, Exit, orderly
      PROVE  cluster = Empty
  <2>1. IInv /\ ProcessTypeOK /\ OrderlyOk
    BY <1>1 DEF ProcessInv
  <2>2. \A a \in App : Gone(a)
    BY <1>1, <2>1, EndLeavesNothing
  <2> QED
    BY <2>1, <2>2 DEF IInv, TypeOK, Empty, Gone
<1>2. ProcessInv /\ [ProcessNext]_processVars
        => [Exit /\ orderly => cluster = Empty]_processVars
  BY <1>1
<1> QED
  BY <1>2, ProcessInvariance, PTL DEF ProcessSpec, NothingLeft
==============================================================================

---------------------------- MODULE IngestOperator ----------------------------
(***************************************************************************)
(* The ingest operator (operators/ingestion-operator): the gRPC calls that *)
(* start and stop the ingest server of a user, each of which creates or    *)
(* deletes the resources of the user's ingest in the Kubernetes cluster    *)
(* from concurrent goroutines, leases a node port from the allocator       *)
(* (PortRange.tla, here one step per call) and, when an ingest is gone,    *)
(* publishes that it is destroyed.                                         *)
(*                                                                         *)
(* One action is one request to the API server, one read of the informer   *)
(* cache, or one call of the allocator or of JetStream. An ingest has six  *)
(* resources; the deployment and the UDP gateway service are those whose   *)
(* port a stop reads. What differs between two deployments of a user is    *)
(* the port, so a resource is the port it was created with.                *)
(***************************************************************************)
EXTENDS Ports, FiniteSets

CONSTANTS
    App,           \* the users, each the name of an ingest deployment
    OtherKind,     \* headless and TCP services, gateway, virtual service
    Call,          \* the RPCs that can be in flight together
    None,          \* no resource, no port, no user
    portMin, portMax,  \* the range of the allocator
    Serial,        \* whether a user's RPCs never overlap: the cases considered
    ApiFails,      \* a request to the API server may fail
    CacheLags,     \* the informer cache may be behind the API server
    PublishFails,  \* a publication may fail
    MaxCalls,      \* bound: RPCs ever made
    MaxCrashes     \* bound: restarts of the operator

PortKind == {"deployment", "udp_service"}
Kind == PortKind \cup OtherKind

ASSUME OperatorAssumption ==
    /\ PortKind \cap OtherKind = {}
    /\ NewPortRange(portMin, portMax)
    /\ {portMin, portMax} \subseteq Port
    /\ None \notin Port \cup App
    /\ Serial \subseteq BOOLEAN
    /\ {ApiFails, CacheLags, PublishFails} \subseteq BOOLEAN
    /\ {MaxCalls, MaxCrashes} \subseteq Nat
    /\ IsFiniteSet(Call)

VARIABLES
    busyPortRange,  \* the ports the allocator has given out
    cluster,        \* cluster[a][k]: a's resource of kind k, or None
    cache,          \* what the informer cache holds of the cluster
    call,           \* the RPCs in flight
    answer,         \* the answer to the latest RPC of each user
    created,        \* history: deployments created for each user
    announced,      \* history: messages published that a's ingest is destroyed
    serial,         \* a user's RPCs never overlap
    made,           \* RPCs made so far
    crashes         \* restarts so far

history == <<created, announced>>
bounds == <<serial, made, crashes>>
vars == <<busyPortRange, cluster, cache, call, answer, history, bounds>>

Phase ==
    {"idle",
     "stopping",   \* StopIngestSystem, its goroutines running
     "announcing", \* StopIngestSystem, about to publish
     "get_port",   \* StartIngestSystem, about to lease a port
     "creating"}   \* StartIngestSystem, its goroutines running

(* The progress of the goroutine of each kind of resource.                 *)
Progress == {"todo", "found", "done", "failed"}

(* seen: the resources a stop has read; port: the lease of a start.        *)
Rpc == [pc : Phase, op : {"start", "stop"}, app : App \cup {None},
        part : [Kind -> Progress], seen : [PortKind -> Port \cup {None}],
        port : Port \cup {None}]

Idle == [pc |-> "idle", op |-> "stop", app |-> None,
         part |-> [k \in Kind |-> "todo"],
         seen |-> [k \in PortKind |-> None], port |-> None]

TypeOK ==
    /\ busyPortRange \subseteq portMin .. portMax
    /\ cluster \in [App -> [Kind -> portMin .. portMax \cup {None}]]
    /\ cache \in [App -> [Kind -> portMin .. portMax \cup {None}]]
    /\ call \in [Call -> Rpc]
    /\ answer \in [App -> {"none", "started", "stopped", "error"}]
    /\ created \in [App -> Nat]
    /\ announced \in [App -> Nat]
    /\ serial \in Serial
    /\ made \in 0 .. MaxCalls
    /\ crashes \in 0 .. MaxCrashes

Empty == [a \in App |-> [k \in Kind |-> None]]

Init ==
    /\ busyPortRange = {}
    /\ cluster = Empty
    /\ cache = Empty
    /\ call = [c \in Call |-> Idle]
    /\ answer = [a \in App |-> "none"]
    /\ created = [a \in App |-> 0]
    /\ announced = [a \in App |-> 0]
    /\ serial \in Serial
    /\ made = 0
    /\ crashes = 0

------------------------------------------------------------------------------
(* The RPCs. StartServer and StopServer both begin with StopIngestSystem.  *)

Begin(c, a, op) ==
    /\ call[c].pc = "idle"
    /\ made < MaxCalls
    /\ serial => \A d \in Call : call[d].app # a
    /\ call' = [call EXCEPT ![c] = [Idle EXCEPT !.pc = "stopping", !.op = op, !.app = a]]
    /\ answer' = [answer EXCEPT ![a] = "none"]
    /\ made' = made + 1
    /\ UNCHANGED <<busyPortRange, cluster, cache, history, serial, crashes>>

StartServer(c, a) == Begin(c, a, "start")
StopServer(c, a) == Begin(c, a, "stop")

Answer(c, result) ==
    /\ call' = [call EXCEPT ![c] = Idle]
    /\ answer' = [answer EXCEPT ![call[c].app] = result]

(* StopIngestSystem returns: StartServer ignores the outcome and goes on   *)
(* to StartIngestSystem, StopServer answers it.                            *)
StopReturns(c, result) ==
    \/ /\ call[c].op = "start"
       /\ call' = [call EXCEPT ![c] = [Idle EXCEPT !.pc = "get_port", !.op = "start",
                                                   !.app = call[c].app]]
       /\ UNCHANGED answer
    \/ /\ call[c].op = "stop"
       /\ Answer(c, result)

(* The goroutine of c for resource k is at pc, with progress p.            *)
At(c, k, pc, p) == call[c].pc = pc /\ call[c].part[k] = p

Becomes(c, k, p) == call' = [call EXCEPT ![c].part[k] = p]

(* Mutants of AllReturned: the join waits for one goroutine only; a failed *)
(* goroutine never reports.                                                *)
OneReturned(c) == \E k \in Kind : call[c].part[k] \in {"done", "failed"}
AllDone(c) == \A k \in Kind : call[c].part[k] = "done"

(* errgroup.Wait: every goroutine has returned. *)
AllReturned(c) == \A k \in Kind : call[c].part[k] \in {"done", "failed"}
(* Mutant of SomeFailed: one success is enough. *)
EachFailed(c) == \A k \in Kind : call[c].part[k] = "failed"

SomeFailed(c) == \E k \in Kind : call[c].part[k] = "failed"

------------------------------------------------------------------------------
(* StopIngestSystem. *)

(* What a Get returns: the manager's client reads from the cache. *)
Cached(a, k) == IF CacheLags THEN cache[a][k] ELSE cluster[a][k]

(* GetIngestByAppName, GetIngestServiceByAppName: the deployment or the    *)
(* service is kept for its port.                                           *)
FindIngest(c, k) ==
    /\ k \in PortKind
    /\ At(c, k, "stopping", "todo")
    /\ Cached(call[c].app, k) # None
    /\ call' = [call EXCEPT ![c].part[k] = "found", ![c].seen[k] = Cached(call[c].app, k)]
    /\ UNCHANGED <<busyPortRange, cluster, cache, answer, history, bounds>>

(* GetIstioGatewayByAppName, GetIstioVirtualServiceByAppName, and the      *)
(* services whose port is not asked for.                                   *)
FindRoute(c, k) ==
    /\ k \in OtherKind
    /\ At(c, k, "stopping", "todo")
    /\ Cached(call[c].app, k) # None
    /\ Becomes(c, k, "found")
    /\ UNCHANGED <<busyPortRange, cluster, cache, answer, history, bounds>>

NotFound(c, k) ==
    /\ At(c, k, "stopping", "todo")
    /\ Cached(call[c].app, k) = None \/ ApiFails
    /\ Becomes(c, k, "failed")
    /\ UNCHANGED <<busyPortRange, cluster, cache, answer, history, bounds>>

FindResource(c, k) == FindIngest(c, k) \/ FindRoute(c, k) \/ NotFound(c, k)

(* Mutant of DeleteResource: a resource that is not there counts as        *)
(* deleted.                                                                *)
DeleteResourceIgnoreNotFound(c, k) ==
    /\ At(c, k, "stopping", "found")
    /\ Becomes(c, k, "done")
    /\ cluster' = [cluster EXCEPT ![call[c].app][k] = None]
    /\ UNCHANGED <<busyPortRange, cache, answer, history, bounds>>

(* The Delete is by name, whichever creation of it was found. A failed     *)
(* request may have been carried out all the same.                         *)
DeleteResource(c, k) ==
    LET a == call[c].app IN
    /\ At(c, k, "stopping", "found")
    /\ \/ cluster[a][k] # None /\ Becomes(c, k, "done")
          /\ cluster' = [cluster EXCEPT ![a][k] = None]
       \/ cluster[a][k] = None /\ Becomes(c, k, "failed") /\ UNCHANGED cluster
       \/ ApiFails /\ Becomes(c, k, "failed")
          /\ cluster' \in {cluster, [cluster EXCEPT ![a][k] = None]}
    /\ UNCHANGED <<busyPortRange, cache, answer, history, bounds>>

(* findFirstWebrtcPortInDeploymentOrService: the port of the deployment or *)
(* of the service, whichever goroutine sends first.                        *)
FoundPort(c, p) ==
    \/ p # None /\ \E k \in PortKind : call[c].seen[k] = p
    \/ p = None /\ \A k \in PortKind : call[c].seen[k] = None

(* PortBack: a port that is not busy is an error and changes nothing.      *)
PortBack(p) == busyPortRange' = busyPortRange \ {p}

(* Some resource was not deleted: the port found, if any, is given back    *)
(* nevertheless, and StopIngestSystem returns an error.                    *)
StopFailed(c) ==
    /\ call[c].pc = "stopping"
    /\ AllReturned(c)
    /\ SomeFailed(c)
    /\ \E p \in Port \cup {None} : FoundPort(c, p) /\ PortBack(p)
    /\ StopReturns(c, "error")
    /\ UNCHANGED <<cluster, cache, history, bounds>>

(* Everything was deleted. When the port cannot be given back, an error is *)
(* returned before anything is published.                                  *)
StopDeleted(c) ==
    /\ call[c].pc = "stopping"
    /\ AllReturned(c)
    /\ ~SomeFailed(c)
    /\ \E p \in Port \cup {None} :
        /\ FoundPort(c, p)
        /\ PortBack(p)
        /\ IF p \in busyPortRange \cup {None}
           THEN call' = [call EXCEPT ![c].pc = "announcing"] /\ UNCHANGED answer
           ELSE StopReturns(c, "error")
    /\ UNCHANGED <<cluster, cache, history, bounds>>

(* sendDestroyNotification *)
Announce(c) ==
    /\ call[c].pc = "announcing"
    /\ announced' = [announced EXCEPT ![call[c].app] = @ + 1]
    /\ StopReturns(c, "stopped")
    /\ UNCHANGED <<busyPortRange, cluster, cache, created, bounds>>

------------------------------------------------------------------------------
(* StartIngestSystem. *)

GetPort(c) ==
    /\ call[c].pc = "get_port"
    /\ \E p \in Port :
        /\ LowestFree(portMin, portMax, busyPortRange, p)
        /\ busyPortRange' = busyPortRange \cup {p}
        /\ call' = [call EXCEPT ![c].pc = "creating", ![c].port = p]
    /\ UNCHANGED <<cluster, cache, answer, history, bounds>>

(* FullNodePortAssignedError *)
GetPortFull(c) ==
    /\ call[c].pc = "get_port"
    /\ FreePorts(portMin, portMax, busyPortRange) = {}
    /\ Answer(c, "error")
    /\ UNCHANGED <<busyPortRange, cluster, cache, history, bounds>>

(* The API server stores a's resource k unless there is one. *)
Store(a, k, p) ==
    /\ cluster[a][k] = None
    /\ cluster' = [cluster EXCEPT ![a][k] = p]
    /\ created' = IF k = "deployment" THEN [created EXCEPT ![a] = @ + 1] ELSE created

(* A deployment and the gateway services carry the port of their start;    *)
(* of the rest, built from names alone, it tells which start they are of.  *)
Built(c) == call[c].port

CreateResource(c, k) ==
    /\ At(c, k, "creating", "todo")
    /\ \/ Store(call[c].app, k, Built(c)) /\ Becomes(c, k, "done")
       \/ /\ cluster[call[c].app][k] # None
          /\ Becomes(c, k, "failed")
          /\ UNCHANGED <<cluster, created>>
       \/ /\ ApiFails
          /\ Becomes(c, k, "failed")
          /\ Store(call[c].app, k, Built(c)) \/ UNCHANGED <<cluster, created>>
    /\ UNCHANGED <<busyPortRange, cache, answer, announced, bounds>>

StartDone(c) ==
    /\ call[c].pc = "creating"
    /\ AllReturned(c)
    /\ ~SomeFailed(c)
    /\ Answer(c, "started")
    /\ UNCHANGED <<busyPortRange, cluster, cache, history, bounds>>

(* Mutant of StartFailed: the port is not given back. *)
StartFailedPortKept(c) ==
    /\ call[c].pc = "creating"
    /\ AllReturned(c)
    /\ SomeFailed(c)
    /\ Answer(c, "error")
    /\ UNCHANGED <<busyPortRange, cluster, cache, history, bounds>>

(* The port is given back; the resources that were created stay.           *)
StartFailed(c) ==
    /\ call[c].pc = "creating"
    /\ AllReturned(c)
    /\ SomeFailed(c)
    /\ PortBack(call[c].port)
    /\ Answer(c, "error")
    /\ UNCHANGED <<cluster, cache, history, bounds>>

------------------------------------------------------------------------------
(* The surroundings. *)

(* The informer catches up with the API server. *)
CacheSync(a, k) ==
    /\ CacheLags
    /\ cache[a][k] # cluster[a][k]
    /\ cache' = [cache EXCEPT ![a][k] = cluster[a][k]]
    /\ UNCHANGED <<busyPortRange, cluster, call, answer, history, bounds>>

(* The process ends and another starts: the map of busy ports and the RPCs *)
(* are gone, the cluster is not, and the cache is listed afresh.           *)
Restarted ==
    /\ busyPortRange' = {}
    /\ call' = [c \in Call |-> Idle]
    /\ cache' = IF CacheLags THEN cluster ELSE cache
    /\ UNCHANGED <<cluster, answer, history>>

Crash ==
    /\ crashes < MaxCrashes
    /\ crashes' = crashes + 1
    /\ Restarted
    /\ UNCHANGED <<serial, made>>

(* A failed publication is logged with IngestSystem.log, which the         *)
(* constructor does not set: the nil sink of logr 1.2.3 panics, nothing    *)
(* recovers, and the operator ends.                                        *)
AnnounceFailed(c) ==
    /\ PublishFails
    /\ call[c].pc = "announcing"
    /\ Restarted
    /\ UNCHANGED bounds

GoesOn(c) ==
    \/ \E k \in Kind : FindResource(c, k) \/ DeleteResource(c, k) \/ CreateResource(c, k)
    \/ StopFailed(c) \/ StopDeleted(c) \/ Announce(c)
    \/ GetPort(c) \/ GetPortFull(c) \/ StartDone(c) \/ StartFailed(c)

Step(c) == GoesOn(c) \/ AnnounceFailed(c)

Next ==
    \/ \E c \in Call, a \in App : StartServer(c, a) \/ StopServer(c, a)
    \/ \E c \in Call : Step(c)
    \/ \E a \in App, k \in Kind : CacheSync(a, k)
    \/ Crash

Spec == Init /\ [][Next]_vars

(* The goroutines of an RPC keep running; no RPC and no fault has to       *)
(* happen.                                                                 *)
FairSpec == Spec /\ \A c \in Call : WF_vars(Step(c))

------------------------------------------------------------------------------
(* Properties. *)

Carried(a) == {cluster[a][k] : k \in PortKind} \ {None}
Deployed(a) == IF cluster[a]["deployment"] # None THEN 1 ELSE 0
InFlight(a) == \E c \in Call : call[c].app = a

(* The ports that RPCs in flight have leased, or have read off a resource  *)
(* and still have to give back.                                            *)
Leased == {call[c].port : c \in Call} \ {None}
Read == {p \in Port : \E c \in Call, k \in PortKind :
            call[c].pc = "stopping" /\ call[c].seen[k] = p}

(* No two users' ingests are exposed on one node port: the port a start    *)
(* takes is not carried by any other user's resources                      *)
(* (ingest_system.go:63-67).                                               *)
PortsExclusive == \A a, b \in App : a # b => Carried(a) \cap Carried(b) = {}

(* The allocator knows every port the cluster uses, although it never      *)
(* looks at the cluster: a stop gives a port back when its resources are   *)
(* gone, not before (ingest_system.go:348-362).                            *)
CarriedAreBusy == UNION {Carried(a) : a \in App} \subseteq busyPortRange

(* No port is lost to the allocator: one that is busy is on a resource in  *)
(* the cluster, or some RPC still has it to give back, whatever requests   *)
(* fail and wherever the operator restarts, as long as a user's RPCs do    *)
(* not overlap (ingest_system.go:172-176, 348-362) and the cache is up to  *)
(* date: a stop that reads an old deployment gives back the wrong port.    *)
NoPortLeak ==
    serial =>
        busyPortRange \subseteq (UNION {Carried(a) : a \in App}) \cup Leased \cup Read

(* StopServer answers without error only when nothing of the user's ingest *)
(* is left in the cluster (ingest_system.go:260-362).                      *)
StoppedIsGone ==
    \A a \in App : answer[a] = "stopped" => \A k \in Kind : cluster[a][k] = None

(* StartServer answers without error only when the ingest is whole: every  *)
(* resource exists, and is of this start (ingest_system.go:83-178).        *)
StartedIsWhole ==
    \A a \in App : answer[a] = "started" =>
        \E p \in portMin .. portMax : \A k \in Kind : cluster[a][k] = p

(* An ingest is announced destroyed at most once, and never while it is    *)
(* still deployed, whichever stops overlap and are retried                 *)
(* (ingest_system.go:245-374): the stream service deletes the row of the   *)
(* stream on each announcement.                                            *)
AnnouncedOnce ==
    \A a \in App : announced[a] + Deployed(a) <= created[a]

(* Between RPCs, every ingest that was ever deployed is still deployed or  *)
(* was announced destroyed: nobody misses the end of an ingest             *)
(* (ingest_system.go:245-374).                                             *)
NoneMissed ==
    \A a \in App : ~InFlight(a) => created[a] = announced[a] + Deployed(a)

(* Every RPC is answered: the goroutines wait for no one but the API       *)
(* server, and the channel of findFirstWebrtcPortInDeploymentOrService     *)
(* always has a value (ingest_system.go:213-243).                          *)
CallsAnswered == \A c \in Call : call[c].pc # "idle" ~> call[c].pc = "idle"
==============================================================================

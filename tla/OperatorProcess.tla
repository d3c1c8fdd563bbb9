---------------------------- MODULE OperatorProcess ----------------------------
(***************************************************************************)
(* The life of the operator's process around the RPCs of IngestOperator:   *)
(* reconciliations of the ingest template, each of which registers one     *)
(* more shutdown task for the template (ingesttemplate_controller.go), and *)
(* the graceful end (cmd/main.go, pkg/shutdown): on a signal the tasks run *)
(* side by side, each lists the deployments created from the template and  *)
(* stops the ingest of each; then the process ends, and Kubernetes starts  *)
(* another.                                                                *)
(*                                                                         *)
(* A task runs StopIngestSystem as an RPC does, in a slot of its own; what *)
(* it returns is kept in "answer", which nobody gets. There is one ingest  *)
(* template. A shutdown cut short by a timeout (fx, kubelet) is a Crash.   *)
(*                                                                         *)
(* RPCs go on during a shutdown: the tasks run first, the manager is       *)
(* cancelled when they have returned, and only then does the gRPC server   *)
(* refuse new RPCs and wait for those in flight.                           *)
(*                                                                         *)
(* Disorder is what the properties do not survive, and what "orderly"      *)
(* remembers: a crash; a reconciliation between the counting and the       *)
(* starting of the tasks; two RPCs of one user at once; a start in flight  *)
(* while the tasks run; a request to the API server that failed, or was    *)
(* answered from a cache that is behind.                                   *)
(***************************************************************************)
EXTENDS IngestOperator

CONSTANT Task  \* the slots of shutdown tasks: bound on reconciliations

ASSUME ProcessAssumption == Task \subseteq Call

VARIABLES
    known,    \* the container has the ingest template
    tasks,    \* the shutdown tasks registered
    job,      \* what each task that runs is doing
    ending,   \* the progress of the graceful end
    wg,       \* the counter of its wait group
    orderly,  \* history: nothing yet happened that Disorder lists
    doubled   \* history: a shutdown ran two tasks, or a task beside an RPC

process == <<known, tasks, job, ending, wg>>
processVars == <<vars, process, orderly, doubled>>

Request == Call \ Task

(* What a task is doing: nothing, "list", "stop", "stopping" or "done";    *)
(* todo: the deployments of its list that are left; app: the one of them   *)
(* it stops.                                                               *)
NoJob == [stage |-> "none", todo |-> {}, app |-> None]

ProcessInit ==
    /\ Init
    /\ known = FALSE
    /\ tasks = {}
    /\ job = [t \in Task |-> NoJob]
    /\ ending = "no"
    /\ wg = 0
    /\ orderly = TRUE
    /\ doubled = FALSE

(* A new process. *)
Fresh ==
    /\ known' = FALSE
    /\ tasks' = {}
    /\ job' = [t \in Task |-> NoJob]
    /\ ending' = "no"
    /\ wg' = 0

------------------------------------------------------------------------------
(* RPCs. Without the template a start is answered "not found" and changes  *)
(* nothing: left out.                                                      *)

(* The gRPC server stops on the cancelled context, after the tasks. *)
Admitted == ending # "draining"

NoneFor(a) == \A c \in Request : call[c].app # a
NoneInFlight == \A c \in Request : call[c].pc = "idle"

StartKnownServer(c, a) ==
    /\ known
    /\ Admitted
    /\ StartServer(c, a)
    /\ orderly' = (orderly /\ NoneFor(a) /\ ending # "running")
    /\ UNCHANGED <<process, doubled>>

StopAnyServer(c, a) ==
    /\ Admitted
    /\ StopServer(c, a)
    /\ orderly' = (orderly /\ NoneFor(a))
    /\ doubled' = (doubled \/ ending = "running")
    /\ UNCHANGED process

(* The requests c makes in this step are answered by what the cluster has: *)
(* none fails but on a resource that is gone, or there already, and what   *)
(* is read is not behind.                                                  *)
Truthful(c) ==
    LET there == cluster[call[c].app] IN
    \A k \in Kind : call'[c].part[k] # call[c].part[k] =>
        /\ call'[c].part[k] = "failed" => (call[c].pc = "creating" <=> there[k] # None)
        /\ call'[c].part[k] = "found" =>
               /\ there[k] # None
               /\ k \in PortKind => call'[c].seen[k] = there[k]

SystemStep(c) ==
    /\ GoesOn(c)
    /\ orderly' = (orderly /\ Truthful(c))
    /\ UNCHANGED <<process, doubled>>

(* Reconcile: the template is added to the container (when it is gone      *)
(* already, the container keeps what it has), and another task is          *)
(* registered. Tasks already counted are not run.                          *)
Reconcile(t) ==
    /\ t \notin tasks
    /\ tasks' = tasks \cup {t}
    /\ known' \in {known, TRUE}
    /\ orderly' = (orderly /\ ending # "counted")
    /\ UNCHANGED <<vars, job, ending, wg, doubled>>

------------------------------------------------------------------------------
(* Gracefully. *)

(* The signal; wg.Add(len(s.tasks)), which does not take the mutex of      *)
(* AddTask.                                                                *)
Signal ==
    /\ ending = "no"
    /\ ending' = "counted"
    /\ wg' = Cardinality(tasks)
    /\ UNCHANGED <<vars, known, tasks, job, orderly, doubled>>

(* range s.tasks: a goroutine for each. *)
Launch ==
    /\ ending = "counted"
    /\ ending' = "running"
    /\ job' = [t \in Task |-> IF t \in tasks THEN [NoJob EXCEPT !.stage = "list"] ELSE NoJob]
    /\ orderly' = (orderly /\ \A c \in Request : call[c].op = "stop")
    /\ doubled' = (doubled \/ Cardinality(tasks) > 1 \/ ~NoneInFlight)
    /\ UNCHANGED <<vars, known, tasks, wg>>

(* r.List: a failed list ends the task. *)
TaskList(t) ==
    /\ job[t].stage = "list"
    /\ \E listed \in {{a \in App : Cached(a, "deployment") # None}}
                          \cup (IF ApiFails THEN {{}} ELSE {}) :
        /\ job' = [job EXCEPT ![t].stage = "stop", ![t].todo = listed]
        /\ orderly' = (orderly /\ listed = {a \in App : cluster[a]["deployment"] # None})
    /\ UNCHANGED <<vars, known, tasks, ending, wg, doubled>>

(* StopIngestSystem of the next deployment begins. *)
TaskStop(t, a) ==
    /\ job[t].stage = "stop"
    /\ a \in job[t].todo
    /\ job' = [job EXCEPT ![t].stage = "stopping", ![t].app = a]
    /\ call' = [call EXCEPT ![t] = [Idle EXCEPT !.pc = "stopping", !.app = a]]
    /\ UNCHANGED <<busyPortRange, cluster, cache, answer, history, bounds>>
    /\ UNCHANGED <<known, tasks, ending, wg, orderly, doubled>>

(* Mutant of TaskDelete: the deployment goes before the stop returns.      *)
TaskDeleteAtOnce(t) ==
    LET a == job[t].app IN
    /\ job[t].stage = "stopping"
    /\ cluster[a]["deployment"] # None
    /\ cluster' = [cluster EXCEPT ![a]["deployment"] = None]
    /\ UNCHANGED <<busyPortRange, cache, call, answer, history, bounds>>
    /\ UNCHANGED <<process, orderly, doubled>>

(* It has returned, with or without an error; the deployment is deleted    *)
(* once more, and an error of that ignored.                                *)
TaskDelete(t) ==
    LET a == job[t].app IN
    /\ job[t].stage = "stopping"
    /\ call[t].pc = "idle"
    /\ cluster' \in {[cluster EXCEPT ![a]["deployment"] = None]}
            \cup (IF ApiFails THEN {cluster} ELSE {})
    /\ job' = [job EXCEPT ![t] = [NoJob EXCEPT !.stage = "stop",
                                               !.todo = job[t].todo \ {a}]]
    /\ orderly' = (orderly /\ cluster'[a]["deployment"] = None)
    /\ UNCHANGED <<busyPortRange, cache, call, answer, history, bounds>>
    /\ UNCHANGED <<known, tasks, ending, wg, doubled>>

(* wg.Done: a counter below zero panics, and the process ends.             *)
TaskDone(t) ==
    /\ job[t].stage = "stop"
    /\ job[t].todo = {}
    /\ \/ /\ wg > 0
          /\ wg' = wg - 1
          /\ job' = [job EXCEPT ![t].stage = "done"]
          /\ UNCHANGED <<vars, known, tasks, ending, orderly, doubled>>
       \/ /\ wg = 0
          /\ Restarted
          /\ Fresh
          /\ orderly' = FALSE
          /\ UNCHANGED <<bounds, doubled>>

(* Mutant of Drain: the tasks are not waited for. *)
DrainAtOnce ==
    /\ ending = "running"
    /\ ending' = "draining"
    /\ UNCHANGED <<vars, known, tasks, job, wg, orderly, doubled>>

(* wg.Wait returns, and the manager is cancelled: GracefulStop. *)
Drain ==
    /\ ending = "running"
    /\ wg = 0
    /\ ending' = "draining"
    /\ UNCHANGED <<vars, known, tasks, job, wg, orderly, doubled>>

(* Mutant of Exit: the RPCs in flight are cut off. *)
ExitNow ==
    /\ ending = "draining"
    /\ Restarted
    /\ Fresh
    /\ UNCHANGED <<bounds, orderly, doubled>>

(* The RPCs in flight have been answered; the process ends and another     *)
(* starts, whose allocator has given out nothing.                          *)
Exit ==
    /\ ending = "draining"
    /\ NoneInFlight
    /\ Restarted
    /\ Fresh
    /\ UNCHANGED <<bounds, orderly, doubled>>

(* A crash, or the panic of a failed publication. *)
Die ==
    /\ Crash \/ \E c \in Call : AnnounceFailed(c)
    /\ Fresh
    /\ orderly' = FALSE
    /\ UNCHANGED doubled

Caught(a, k) == CacheSync(a, k) /\ UNCHANGED <<process, orderly, doubled>>

TaskStep(t) ==
    \/ TaskList(t) \/ TaskDelete(t) \/ TaskDone(t)
    \/ \E a \in App : TaskStop(t, a)

ProcessNext ==
    \/ \E c \in Request, a \in App : StartKnownServer(c, a) \/ StopAnyServer(c, a)
    \/ \E c \in Call : SystemStep(c)
    \/ \E t \in Task : Reconcile(t) \/ TaskStep(t)
    \/ \E a \in App, k \in Kind : Caught(a, k)
    \/ Signal \/ Launch \/ Drain \/ Exit
    \/ Die

ProcessSpec == ProcessInit /\ [][ProcessNext]_processVars

------------------------------------------------------------------------------
(* Properties. *)

(* No two users' ingests are on one node port and the allocator knows      *)
(* every port in the cluster, also across graceful ends, each of which     *)
(* forgets what the allocator gave out: the tasks have removed every       *)
(* ingest by then, whichever stops are asked for meanwhile                 *)
(* (ingesttemplate_controller.go:46-81, main.go:436-442), until the first  *)
(* disorder.                                                               *)
PortsKnown == orderly => PortsExclusive /\ CarriedAreBusy

(* Nobody misses the end of an ingest: between calls, each that was ever   *)
(* deployed still is or was announced destroyed, by an RPC or by a         *)
(* shutdown, as long as that ran one task and no RPC beside it: two can    *)
(* each fail on what the other has deleted, and then neither announces     *)
(* (ingesttemplate_controller.go:46-81, ingest_system.go:348-371).         *)
EndsAnnounced == orderly /\ ~doubled => NoneMissed

(* A graceful end leaves nothing of any ingest in the cluster, whether one *)
(* task removes it, two compete, or stops that are asked for while the     *)
(* tasks run compete with them (ingesttemplate_controller.go:46-81,        *)
(* main.go:436-442), until the first disorder.                             *)
NothingLeft == [][Exit /\ orderly => cluster = Empty]_processVars
==============================================================================

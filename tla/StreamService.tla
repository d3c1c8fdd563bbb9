---------------------------- MODULE StreamService ----------------------------
(***************************************************************************)
(* The stream service (services/stream): the HTTP handlers that start and  *)
(* stop the ingest server of a broadcaster, the tables active_streams and  *)
(* active_stream_egresses, the worker that records deployed ingests        *)
(* (messages of core NATS, delivered at most once) and the worker that     *)
(* removes the streams of destroyed ingests (a JetStream consumer,         *)
(* delivered at least once).                                               *)
(*                                                                         *)
(* One action is one call that another goroutine can interleave with: one  *)
(* RPC to the ingest controller, one SQL statement, one message handled.   *)
(* The ingest controller is the stub of standalone mode, or the ingest     *)
(* operator seen through its RPCs (IngestOperator.tla has its inside).     *)
(* The username and the deployment of a stream are functions of its        *)
(* broadcaster (both are token.Sub), so the three UNIQUE constraints of    *)
(* active_streams are one: a broadcaster has at most one row.              *)
(***************************************************************************)
EXTENDS Naturals, Sequences

CONSTANTS
    Broadcaster,     \* the users that stream
    Call,            \* the HTTP requests that can be in flight together
    None,            \* no row, no transaction, no broadcaster
    Mode,            \* deployments considered: TRUE for standalone mode
    Retry,           \* ingestDestroyedWorker.retry, 3 in the code
    DatabaseFails,   \* a SQL statement may return an error
    ControllerFails, \* an RPC, or the publication of a message, may fail
    AckLate,         \* AckWait (1s) may elapse while a handler still runs
    Users,           \* how users behave, a member of Behaviour
    MaxCalls,        \* bound: requests ever made
    MaxCrashes,      \* bound: restarts of the stream service
    MaxInbox         \* bound: deliveries waiting in the client's buffer

(* "free": requests at any time; "waiting": a request only once everything *)
(* about the user's stream has settled; "following": moreover a start only *)
(* without a row and a stop only with one, as a user who follows the       *)
(* status of the stream does.                                              *)
Behaviour == {"free", "waiting", "following"}

ASSUME StreamServiceAssumption ==
    /\ None \notin Broadcaster
    /\ {DatabaseFails, ControllerFails, AckLate} \subseteq BOOLEAN
    /\ Mode \subseteq BOOLEAN
    /\ Users \in Behaviour
    /\ {Retry, MaxCalls, MaxCrashes, MaxInbox} \subseteq Nat

VARIABLES
    standalone,              \* StreamSystemConfig.Standalone: the controller
                             \* is the stub, else the operator
    active_streams,          \* the row of each broadcaster, or None
    active_stream_egresses,  \* batches of egress rows of each stream id
    tx,         \* the open transaction of the status worker, or None
    call,       \* the HTTP requests in flight
    told,       \* the latest answer each broadcaster got
    ingest,     \* the broadcasters whose ingest server runs (operator mode)
    deployed,   \* IngestDeployed messages on their way to the status worker
    destroyed,  \* the messages the JetStream stream has stored
    inbox,      \* deliveries waiting for the destroyed worker
    worker,     \* the delivery the destroyed worker is handling, or None
    adrift,     \* (history) broadcasters whose row and ingest server may be
                \* apart: a handler's statement took effect, its reply was lost
    made,       \* requests made so far
    crashes     \* restarts so far

db == <<active_streams, active_stream_egresses, tx>>
bus == <<deployed, destroyed, inbox, worker>>
env == <<standalone, adrift, made, crashes>>
vars == <<db, call, told, ingest, bus, env>>

StreamId == 1 .. MaxCalls
Row == [id : StreamId, deployed : BOOLEAN]
Transaction == [b : Broadcaster, inserted : BOOLEAN]

(* acked: the message has left the stream; cleared (history): its          *)
(* broadcaster has had no row at some moment since it was published.       *)
Message == [b : Broadcaster, delivered : 0 .. Retry + 1,
            acked : BOOLEAN, cleared : BOOLEAN]
Delivery == [msg : Nat, delivered : 1 .. Retry + 1]
Work == [msg : Nat, deleted : BOOLEAN]

ASSUME NoneAssumption == None \notin Row \cup Transaction \cup Work

Location ==
    {"idle",
     "start_server", "start_create", "insert", "undo",  \* StartIngestServer
     "stop_get", "stop_delete", "stop_server"}          \* StopIngestServer

(* id: the stream id that a start would insert; failing: a stop that runs  *)
(* inside a failed start, whose own result is ignored.                     *)
Request == [pc : Location, b : Broadcaster \cup {None}, id : 0 .. MaxCalls,
            failing : BOOLEAN]
Answer == {"none", "started", "exists", "stopped", "not_found", "error"}

TypeOK ==
    /\ standalone \in Mode
    /\ active_streams \in [Broadcaster -> Row \cup {None}]
    /\ active_stream_egresses \in [StreamId -> Nat]
    /\ tx \in Transaction \cup {None}
    /\ call \in [Call -> Request]
    /\ told \in [Broadcaster -> Answer]
    /\ ingest \in SUBSET Broadcaster
    /\ deployed \in Seq(Broadcaster)
    /\ destroyed \in Seq(Message)
    /\ inbox \in Seq(Delivery)
    /\ worker \in Work \cup {None}
    /\ adrift \in SUBSET Broadcaster
    /\ made \in 0 .. MaxCalls
    /\ crashes \in 0 .. MaxCrashes

Idle == [pc |-> "idle", b |-> None, id |-> 0, failing |-> FALSE]

Init ==
    /\ standalone \in Mode
    /\ active_streams = [b \in Broadcaster |-> None]
    /\ active_stream_egresses = [i \in StreamId |-> 0]
    /\ tx = None
    /\ call = [c \in Call |-> Idle]
    /\ told = [b \in Broadcaster |-> "none"]
    /\ ingest = {}
    /\ deployed = <<>>
    /\ destroyed = <<>>
    /\ inbox = <<>>
    /\ worker = None
    /\ adrift = {}
    /\ made = 0
    /\ crashes = 0

------------------------------------------------------------------------------
(* The tables. *)

HasRow(b) == active_streams[b] # None

(* The status worker's UPDATE locks the row until its transaction ends. *)
Locked(b) == tx # None /\ tx.b = b

(* The history of the messages about b: its row is gone. *)
ClearedBy(b) ==
    destroyed' = [m \in DOMAIN destroyed |->
        [destroyed[m] EXCEPT !.cleared = @ \/ destroyed[m].b = b]]

(* Mutants of DeleteRow: no cascade; one egress deleted instead of all.    *)
DeleteRowNoCascade(b) ==
    /\ ~Locked(b)
    /\ active_streams' = [active_streams EXCEPT ![b] = None]
    /\ ClearedBy(b)
    /\ UNCHANGED <<active_stream_egresses, tx>>

DeleteRowOneEgress(b) ==
    /\ ~Locked(b)
    /\ active_streams' = [active_streams EXCEPT ![b] = None]
    /\ active_stream_egresses' =
        IF HasRow(b)
        THEN [active_stream_egresses EXCEPT ![active_streams[b].id] = @ - 1]
        ELSE active_stream_egresses
    /\ ClearedBy(b)
    /\ UNCHANGED tx

(* DeleteActiveStreamByBroadcasterId: the row if there is one, and by      *)
(* ON DELETE CASCADE its egresses. The statement waits for the row lock.   *)
DeleteRow(b) ==
    /\ ~Locked(b)
    /\ active_streams' = [active_streams EXCEPT ![b] = None]
    /\ active_stream_egresses' =
        IF HasRow(b)
        THEN [active_stream_egresses EXCEPT ![active_streams[b].id] = 0]
        ELSE active_stream_egresses
    /\ ClearedBy(b)
    /\ UNCHANGED tx

(* JsPublishProtobufWithID on the destroyed subject of b: no message id is *)
(* set, so the server stores every message.                                *)
PublishDestroyed(b) ==
    destroyed' = Append(destroyed,
        [b |-> b, delivered |-> 0, acked |-> FALSE, cleared |-> ~HasRow(b)])

------------------------------------------------------------------------------
(* The HTTP handlers. *)

Goto(c, pc) == call' = [call EXCEPT ![c].pc = pc]

(* The handler answers its caller; a stop inside a failed start answers    *)
(* with the error of the start.                                            *)
Reply(c, answer) ==
    /\ call' = [call EXCEPT ![c] = Idle]
    /\ told' = [told EXCEPT ![call[c].b] =
                    IF call[c].failing THEN "error" ELSE answer]

(* Nothing about b is under way. *)
Settled(b) ==
    /\ \A c \in Call : call[c].b # b
    /\ \A m \in DOMAIN destroyed : destroyed[m].b = b => destroyed[m].acked
    /\ \A i \in DOMAIN deployed : deployed[i] # b
    /\ ~Locked(b)
    /\ inbox = <<>> /\ worker = None

Arrive(c, b, pc) ==
    /\ call[c] = Idle
    /\ made < MaxCalls
    /\ Users # "free" => Settled(b)
    /\ call' = [call EXCEPT ![c] =
                    [pc |-> pc, b |-> b, id |-> made + 1, failing |-> FALSE]]
    /\ told' = [told EXCEPT ![b] = "none"]
    /\ made' = made + 1
    /\ UNCHANGED <<standalone, adrift, db, ingest, bus, crashes>>

StreamStart(c, b) ==
    /\ Users = "following" => ~HasRow(b)
    /\ Arrive(c, b, "start_server")

StreamStop(c, b) ==
    /\ Users = "following" => HasRow(b)
    /\ Arrive(c, b, "stop_get")

(* The standalone stub publishes the deployment and always succeeds.       *)
StandaloneStartServer(c) ==
    /\ standalone
    /\ call[c].pc = "start_server"
    /\ \/ deployed' = Append(deployed, call[c].b)
       \/ ControllerFails /\ UNCHANGED deployed
    /\ Goto(c, "insert")
    /\ UNCHANGED <<db, told, ingest, destroyed, inbox, worker, env>>

(* The operator first stops the ingest system of the broadcaster, ignoring *)
(* the outcome; only a stop that removed everything publishes.             *)
OperatorStopSystem(b) ==
    \/ b \in ingest /\ ingest' = ingest \ {b} /\ PublishDestroyed(b)
    \/ b \notin ingest /\ UNCHANGED <<ingest, destroyed>>
    \/ ControllerFails /\ ingest' \in {ingest, ingest \ {b}} /\ UNCHANGED destroyed

OperatorStartServer(c) ==
    /\ ~standalone
    /\ call[c].pc = "start_server"
    /\ OperatorStopSystem(call[c].b)
    /\ Goto(c, "start_create")
    /\ UNCHANGED <<db, told, deployed, inbox, worker, env>>

(* It then creates the resources of the ingest. *)
OperatorCreated(c) ==
    /\ call[c].pc = "start_create"
    /\ call[c].b \notin ingest
    /\ ingest' = ingest \cup {call[c].b}
    /\ Goto(c, "insert")
    /\ UNCHANGED <<db, told, bus, env>>

(* StartServer returned an error: the handler stops what there may be.     *)
OperatorNotCreated(c) ==
    /\ call[c].pc = "start_create"
    /\ call[c].b \in ingest \/ ControllerFails
    /\ ingest' \in {ingest} \cup
            (IF ControllerFails THEN {ingest \cup {call[c].b}} ELSE {})
    /\ call' = [call EXCEPT ![c].pc = "stop_get", ![c].failing = TRUE]
    /\ UNCHANGED <<db, told, bus, env>>

(* The INSERT of InsertActiveStream. *)
Insert(c) ==
    /\ ~HasRow(call[c].b)
    /\ active_streams' = [active_streams EXCEPT ![call[c].b] =
                              [id |-> call[c].id, deployed |-> FALSE]]
    /\ UNCHANGED <<active_stream_egresses, tx>>

InsertRow(c) ==
    /\ call[c].pc = "insert"
    /\ Insert(c)
    /\ Reply(c, "started")
    /\ UNCHANGED <<ingest, bus, env>>

(* The unique constraint of broadcaster_id rejects the row. *)
InsertDuplicate(c) ==
    /\ call[c].pc = "insert"
    /\ HasRow(call[c].b)
    /\ Reply(c, "exists")
    /\ UNCHANGED <<db, ingest, bus, env>>

(* Mutants of InsertError: the ingest is not stopped; the error is not     *)
(* returned.                                                               *)
InsertErrorNoUndo(c) ==
    /\ DatabaseFails
    /\ call[c].pc = "insert"
    /\ Reply(c, "error")
    /\ UNCHANGED <<db, ingest, bus, env>>

InsertErrorIgnored(c) ==
    /\ DatabaseFails
    /\ call[c].pc = "insert"
    /\ Reply(c, "started")
    /\ UNCHANGED <<db, ingest, bus, env>>

(* The statement took effect, and the handler was told that it failed: a   *)
(* statement outside a transaction commits before its reply is sent.       *)
ReplyLost(b) == adrift' = IF standalone THEN adrift ELSE adrift \cup {b}

(* Any other error of the INSERT: the ingest that was started is stopped.  *)
InsertError(c) ==
    /\ DatabaseFails
    /\ call[c].pc = "insert"
    /\ UNCHANGED <<db, adrift>> \/ (Insert(c) /\ ReplyLost(call[c].b))
    /\ Goto(c, "undo")
    /\ UNCHANGED <<told, ingest, bus, standalone, made, crashes>>

(* GetActiveStreamByBroadcasterId: any error reads as "not found".         *)
StopGet(c) ==
    /\ call[c].pc = "stop_get"
    /\ \/ HasRow(call[c].b) /\ Goto(c, "stop_delete") /\ UNCHANGED told
       \/ ~HasRow(call[c].b) /\ Reply(c, "not_found")
       \/ DatabaseFails /\ Reply(c, "not_found")
    /\ UNCHANGED <<db, ingest, bus, env>>

(* The row goes before the server is stopped, which an error prevents: the *)
(* error of a DELETE that failed, or of one whose reply was lost.          *)
StopDelete(c) ==
    /\ call[c].pc = "stop_delete"
    /\ \/ /\ DeleteRow(call[c].b)
          /\ Goto(c, "stop_server")
          /\ UNCHANGED <<told, adrift>>
       \/ /\ DatabaseFails
          /\ \/ UNCHANGED <<db, destroyed, adrift>>
             \/ DeleteRow(call[c].b) /\ ReplyLost(call[c].b)
          /\ Reply(c, "error")
    /\ UNCHANGED <<ingest, deployed, inbox, worker, standalone, made, crashes>>

(* StopServer, of a stop or of a start whose insert failed ("undo", which  *)
(* ignores the outcome): the stub publishes and succeeds whether or not    *)
(* that worked; the operator succeeds when it stopped and published.       *)
StopServer(c) ==
    LET b == call[c].b
        done == IF call[c].pc = "undo" THEN "error" ELSE "stopped" IN
    /\ call[c].pc \in {"undo", "stop_server"}
    /\ \/ /\ standalone
          /\ PublishDestroyed(b) \/ (ControllerFails /\ UNCHANGED destroyed)
          /\ Reply(c, done)
          /\ UNCHANGED ingest
       \/ /\ ~standalone
          /\ OperatorStopSystem(b)
          /\ Reply(c, IF destroyed' # destroyed THEN done ELSE "error")
    /\ UNCHANGED <<db, deployed, inbox, worker, env>>

HandlerGoesOn(c) ==
    \/ OperatorStartServer(c) \/ OperatorCreated(c) \/ OperatorNotCreated(c)
    \/ InsertRow(c) \/ InsertDuplicate(c) \/ InsertError(c)
    \/ StopGet(c) \/ StopDelete(c) \/ StopServer(c)

HandlerStep(c) == StandaloneStartServer(c) \/ HandlerGoesOn(c)

------------------------------------------------------------------------------
(* The status worker: one message of IngestAnyUserDeployed at a time, in a *)
(* transaction.                                                            *)

(* At-most-once delivery: a message of core NATS can be lost.              *)
LoseDeployed ==
    /\ ControllerFails
    /\ deployed # <<>>
    /\ deployed' = Tail(deployed)
    /\ UNCHANGED <<db, call, told, ingest, destroyed, inbox, worker, env>>

(* Mutant of StatusUpdate: the update is made outside the transaction. *)
StatusUpdateAtOnce ==
    /\ tx = None
    /\ deployed # <<>>
    /\ deployed' = Tail(deployed)
    /\ LET b == Head(deployed) IN
        \/ /\ HasRow(b)
           /\ tx' = [b |-> b, inserted |-> FALSE]
           /\ active_streams' = [active_streams EXCEPT ![b].deployed = TRUE]
        \/ ~HasRow(b) /\ UNCHANGED <<tx, active_streams>>
    /\ UNCHANGED <<active_stream_egresses, call, told, ingest,
                   destroyed, inbox, worker, env>>

(* BeginTx and UpdateDeployedStatusByBroadcasterId. No row to update is an *)
(* error, which rolls back and ends the handling of the message.           *)
StatusUpdate ==
    /\ tx = None
    /\ deployed # <<>>
    /\ deployed' = Tail(deployed)
    /\ \/ HasRow(Head(deployed)) /\ tx' = [b |-> Head(deployed), inserted |-> FALSE]
       \/ ~HasRow(Head(deployed)) /\ UNCHANGED tx
       \/ DatabaseFails /\ UNCHANGED tx
    /\ UNCHANGED <<active_streams, active_stream_egresses, call, told, ingest,
                   destroyed, inbox, worker, env>>

(* InsertManyActiveStreamEgresses, inside the transaction. *)
StatusInsert ==
    /\ tx # None
    /\ ~tx.inserted
    /\ \/ tx' = [tx EXCEPT !.inserted = TRUE]
       \/ DatabaseFails /\ tx' = None
    /\ UNCHANGED <<active_streams, active_stream_egresses, call, told, ingest,
                   bus, env>>

(* Mutant of StatusCommit: the transaction is neither committed nor rolled *)
(* back, and keeps its row lock.                                           *)
StatusNoCommit == tx # None /\ tx.inserted /\ UNCHANGED vars

(* Commit: both writes become visible, or neither does; whether it returns *)
(* an error makes no difference.                                           *)
StatusCommit ==
    /\ tx # None
    /\ tx.inserted
    /\ tx' = None
    /\ \/ /\ active_streams' = [active_streams EXCEPT ![tx.b].deployed = TRUE]
          /\ active_stream_egresses' =
                [active_stream_egresses EXCEPT ![active_streams[tx.b].id] = @ + 1]
       \/ DatabaseFails /\ UNCHANGED <<active_streams, active_stream_egresses>>
    /\ UNCHANGED <<call, told, ingest, bus, env>>

------------------------------------------------------------------------------
(* The JetStream consumer and the destroyed worker.                        *)

Least(x, y) == IF x < y THEN x ELSE y

(* m waits in the client's buffer or is being handled. *)
AtClient(m) ==
    \/ \E i \in DOMAIN inbox : inbox[i].msg = m
    \/ worker # None /\ worker.msg = m

(* The server delivers a message that is not acknowledged: for the first   *)
(* time in the order of publication, and again after AckWait or the delay  *)
(* of a nak. NumDelivered counts the deliveries; beyond Retry + 1 its      *)
(* value makes no difference.                                              *)
Deliver(m) ==
    /\ Len(inbox) < MaxInbox
    /\ ~destroyed[m].acked
    /\ destroyed[m].delivered = 0 =>
        \A k \in 1 .. m - 1 : destroyed[k].delivered > 0
    /\ destroyed[m].delivered > 0 => AckLate \/ ~AtClient(m)
    /\ LET n == Least(destroyed[m].delivered + 1, Retry + 1) IN
        /\ destroyed' = [destroyed EXCEPT ![m].delivered = n]
        /\ inbox' = Append(inbox, [msg |-> m, delivered |-> n])
    /\ UNCHANGED <<db, call, told, ingest, deployed, worker, env>>

Ack(m) == destroyed' = [destroyed EXCEPT ![m].acked = TRUE]

(* Mutant of DestroyedBegin: no limit on deliveries. *)
DestroyedBeginUnlimited ==
    /\ worker = None
    /\ inbox # <<>>
    /\ inbox' = Tail(inbox)
    /\ worker' = [msg |-> Head(inbox).msg, deleted |-> FALSE]
    /\ UNCHANGED <<db, call, told, ingest, deployed, destroyed, env>>

(* handler is called. A message delivered more than Retry times is         *)
(* acknowledged without being handled.                                     *)
DestroyedBegin ==
    /\ worker = None
    /\ inbox # <<>>
    /\ inbox' = Tail(inbox)
    /\ LET d == Head(inbox) IN
        IF d.delivered > Retry
        THEN Ack(d.msg) /\ UNCHANGED worker
        ELSE worker' = [msg |-> d.msg, deleted |-> FALSE] /\ UNCHANGED destroyed
    /\ UNCHANGED <<db, call, told, ingest, deployed, env>>

(* Mutant of DestroyedDelete: a failed delete does not return. *)
DestroyedDeleteFallsThrough ==
    /\ worker # None
    /\ ~worker.deleted
    /\ worker' = [worker EXCEPT !.deleted = TRUE]
    /\ DeleteRow(destroyed[worker.msg].b) \/ (DatabaseFails /\ UNCHANGED <<db, destroyed>>)
    /\ UNCHANGED <<call, told, ingest, deployed, inbox, env>>

(* The row of the broadcaster is deleted; an error, also that of a DELETE  *)
(* whose reply was lost, naks the message.                                 *)
DestroyedDelete ==
    /\ worker # None
    /\ ~worker.deleted
    /\ \/ /\ DeleteRow(destroyed[worker.msg].b)
          /\ worker' = [worker EXCEPT !.deleted = TRUE]
       \/ /\ DatabaseFails
          /\ UNCHANGED <<db, destroyed>> \/ DeleteRow(destroyed[worker.msg].b)
          /\ worker' = None
    /\ UNCHANGED <<call, told, ingest, deployed, inbox, env>>

(* The notification is published and the message acknowledged; when the    *)
(* publication fails, the message is left to be delivered again.           *)
DestroyedNotify ==
    /\ worker # None
    /\ worker.deleted
    /\ Ack(worker.msg) \/ (ControllerFails /\ UNCHANGED destroyed)
    /\ worker' = None
    /\ UNCHANGED <<db, call, told, ingest, deployed, inbox, env>>

(* The service restarts: requests, the transaction, the messages of core   *)
(* NATS and the deliveries in memory are lost; the tables, the JetStream   *)
(* stream and the ingest servers are not.                                  *)
Restart ==
    /\ crashes < MaxCrashes
    /\ crashes' = crashes + 1
    /\ call' = [c \in Call |-> Idle]
    /\ tx' = None
    /\ deployed' = <<>>
    /\ inbox' = <<>>
    /\ worker' = None
    /\ UNCHANGED <<active_streams, active_stream_egresses, told, ingest,
                   destroyed, standalone, adrift, made>>

StatusStep == StatusUpdate \/ StatusInsert \/ StatusCommit
DestroyedStep == DestroyedBegin \/ DestroyedDelete \/ DestroyedNotify

Next ==
    \/ \E c \in Call, b \in Broadcaster : StreamStart(c, b) \/ StreamStop(c, b)
    \/ \E c \in Call : HandlerStep(c)
    \/ LoseDeployed \/ StatusStep
    \/ \E m \in DOMAIN destroyed : Deliver(m)
    \/ DestroyedStep
    \/ Restart

Spec == Init /\ [][Next]_vars

(* The DELETE of a handler, and that of the destroyed worker, waits for the *)
(* row lock. It may fail meanwhile, but nothing makes it fail.             *)
HandlerWaits(c) == call[c].pc = "stop_delete" /\ Locked(call[c].b)
WorkerWaits ==
    worker # None /\ ~worker.deleted /\ Locked(destroyed[worker.msg].b)

(* Handlers, workers and the JetStream server keep running; no request,    *)
(* fault or restart has to happen. A request publishes at most twice.      *)
Fairness ==
    /\ \A c \in Call : WF_vars(~HandlerWaits(c) /\ HandlerStep(c))
    /\ WF_vars(StatusStep)
    /\ \A m \in 1 .. 2 * MaxCalls : WF_vars(m \in DOMAIN destroyed /\ Deliver(m))
    /\ WF_vars(~WorkerWaits /\ DestroyedStep)

FairSpec == Spec /\ Fairness

------------------------------------------------------------------------------
(* Properties. *)

(* An egress never outlives its stream: the status worker inserts egresses *)
(* of a stream id it read earlier (status_handler.go:50-71), while         *)
(* handlers and the destroyed worker delete rows and users start anew.     *)
EgressesHaveStream ==
    \A i \in StreamId :
        active_stream_egresses[i] > 0 =>
            \E b \in Broadcaster : HasRow(b) /\ active_streams[b].id = i

(* A reader never sees a stream marked deployed without its egresses, nor  *)
(* the reverse: the update and the insert are one transaction              *)
(* (status_handler.go:43-71), cut short by errors and restarts.            *)
DeployedWithEgresses ==
    \A b \in Broadcaster :
        HasRow(b) => (active_streams[b].deployed
                        <=> active_stream_egresses[active_streams[b].id] > 0)

(* The row that an open transaction has updated stays: deletes wait for it *)
(* (status_handler.go:50, active_stream.go:69-75).                         *)
LockedRowStays == tx # None => HasRow(tx.b)

(* A destroyed ingest is not forgotten: its message leaves the JetStream   *)
(* stream only after the row of its broadcaster has been seen gone, or     *)
(* after more than Retry deliveries (destroyed_handler.go:33-63), whatever *)
(* statements fail and wherever the service restarts.                      *)
AckedWhenCleared ==
    \A m \in DOMAIN destroyed :
        destroyed[m].acked => destroyed[m].cleared \/ destroyed[m].delivered > Retry

(* When everything about a broadcaster has settled, an active stream has a *)
(* running ingest server and a running ingest server has an active stream  *)
(* (operator mode, no restart): the compensations of StartIngestServer     *)
(* (streamservice.go:41-69), the order of StopIngestServer (74-98) and the *)
(* asynchronous deletion by the destroyed worker agree, whichever          *)
(* statements fail. They do not for a broadcaster of whom the reply of a   *)
(* handler's INSERT or DELETE was lost: see README.md.                     *)
StreamsMatchIngests ==
    ~standalone /\ crashes = 0 =>
        \A b \in Broadcaster \ adrift : Settled(b) => (HasRow(b) <=> b \in ingest)

(* What the user was told last is still so when everything has settled: a  *)
(* started stream is active, a stopped one is not (streamservice.go:30-99).*)
(* In standalone mode this is so wherever statements fail, replies are     *)
(* lost and the service restarts. The operator keeps an ingest server that *)
(* a restart or a lost reply has left without its stream: the next start   *)
(* ends that server, whose announcement ends the new stream.               *)
AnswersHold ==
    \A b \in Broadcaster :
        Settled(b) /\ (standalone \/ (crashes = 0 /\ b \notin adrift)) =>
            /\ told[b] = "started" => HasRow(b)
            /\ told[b] = "stopped" => ~HasRow(b)

(* What the user's guide promises of a live stream: once everything has    *)
(* settled, a started stream is on the home page, whose query joins        *)
(* active_streams with their egresses (active_stream.go:171-186).          *)
StartedStreamListed ==
    \A b \in Broadcaster :
        Settled(b) /\ told[b] = "started" =>
            HasRow(b) /\ active_stream_egresses[active_streams[b].id] > 0

(* A start that is refused because the stream already exists               *)
(* (streamservice.go:53-56) leaves the user with that stream.              *)
ExistingStreamStays ==
    \A b \in Broadcaster : Settled(b) /\ told[b] = "exists" => HasRow(b)

(* Every message about a destroyed ingest is eventually acknowledged:      *)
(* redelivery and the limit on it (destroyed_handler.go:33-63) end.        *)
DestroyedConsumed ==
    \A m \in 1 .. 2 * MaxCalls :
        m \in DOMAIN destroyed ~> m \in DOMAIN destroyed /\ destroyed[m].acked

(* Every request is answered, although handlers and workers wait for each  *)
(* other's row locks.                                                      *)
RequestsAnswered == \A c \in Call : call[c] # Idle ~> call[c] = Idle
==============================================================================

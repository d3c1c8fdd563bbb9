------------------------------- MODULE Processes -------------------------------
(***************************************************************************)
(* How the processes of the platform come up, lose NATS and go down: the   *)
(* stream service and the ingest operator, which share the JetStream       *)
(* stream of destroyed ingests and its durable consumer, and the identity  *)
(* service, whose servers share a database pool.                           *)
(*                                                                         *)
(* A service is put together by fx: the constructors run in the order the  *)
(* invoked functions need them, then the OnStart hooks in the order they   *)
(* were appended, and on a signal the OnStop hooks in the opposite order.  *)
(* StreamService.tla, OperatorProcess.tla and Session.tla have what the    *)
(* processes do once they are up; here a request, an RPC or a delivery is  *)
(* one step, and an ingest of which only its announcement matters.         *)
(***************************************************************************)
EXTENDS Naturals, Sequences

CONSTANTS
    Mode,        \* deployments considered: TRUE for standalone mode
    MaxIngests,  \* bound: ingests ever started
    MaxOutages,  \* bound: outages of NATS
    MaxEnds      \* bound: ends of the process of a service

ASSUME ProcessesAssumption ==
    /\ Mode \subseteq BOOLEAN
    /\ {MaxIngests, MaxOutages, MaxEnds} \subseteq Nat

Client == {"service", "operator"}  \* the processes that connect to NATS

VARIABLES
    standalone,  \* StreamSystemConfig.Standalone
    nats,        \* the NATS server answers
    stored,      \* JetStream has the stream INGEST-DESTROYING
    durable,     \* and the consumer ingest-destroyed-processor-1
    buffer,      \* the requests a client keeps until it is connected again
    closed,      \* the clients that gave up reconnecting
    service,     \* the stream service
    worker,      \* its destroyed worker
    operator,    \* the ingest operator
    running,     \* ingests that run
    queue,       \* announcements JetStream keeps for the consumer
    lost,        \* history: announcements the server had no place for
    settled,     \* history: the destroyed worker has subscribed once
    struck,      \* history: an outage struck while the service came up, or
                 \* lasted until its client gave up
    identity,    \* the identity service
    pool,        \* its database pool is open
    handler,     \* an HTTP handler of it runs
    lookup,      \* an RPC of PublicKeyList runs
    started, outages, ends

jetstream == <<stored, durable, queue, lost>>
connections == <<nats, buffer, closed>>
clients == <<service, worker, operator, settled, struck>>
identityService == <<identity, pool, handler, lookup>>
bounds == <<started, outages, ends>>
vars == <<standalone, jetstream, connections, clients, running, identityService,
          bounds>>

Request == {"stream", "consumer", "destroyed"}
Worker == {"none", "add_stream", "add_consumer", "bind", "subscribed", "deaf"}

JetStreamType ==
    stored \in BOOLEAN /\ durable \in BOOLEAN /\ queue \in Nat /\ lost \in Nat

ConnectionType ==
    nats \in BOOLEAN /\ buffer \in [Client -> Seq(Request)] /\ closed \subseteq Client

ClientType ==
    /\ service \in {"down", "connected", "built", "stream", "channels", "routed", "serving"}
    /\ worker \in Worker
    /\ operator \in {"down", "connected", "built", "listening", "serving"}
    /\ settled \in BOOLEAN /\ struck \in BOOLEAN
    /\ running \in Nat

IdentityType ==
    /\ identity \in {"down", "built", "routed", "rpc", "serving", "stopping", "closing"}
    /\ pool \in BOOLEAN /\ handler \in BOOLEAN /\ lookup \in BOOLEAN

BoundType == started \in Nat /\ outages \in 0 .. MaxOutages /\ ends \in 0 .. MaxEnds

TypeOK ==
    /\ standalone \in BOOLEAN
    /\ JetStreamType /\ ConnectionType /\ ClientType /\ IdentityType /\ BoundType

Init ==
    /\ standalone \in Mode
    /\ nats = FALSE /\ stored = FALSE /\ durable = FALSE
    /\ buffer = [p \in Client |-> <<>>]
    /\ closed = {}
    /\ service = "down" /\ worker = "none" /\ operator = "down"
    /\ running = 0 /\ queue = 0 /\ lost = 0
    /\ settled = FALSE /\ struck = FALSE
    /\ identity = "down" /\ pool = FALSE /\ handler = FALSE /\ lookup = FALSE
    /\ started = 0 /\ outages = 0 /\ ends = 0

------------------------------------------------------------------------------
(* NATS and its clients. *)

Connected(p) == nats /\ p \notin closed /\ buffer[p] = <<>>

(* What the server does with a request. A stream with InterestPolicy keeps *)
(* a message for the consumers it has: without one, it keeps nothing.      *)
Perform(r) ==
    LET kept == stored /\ durable IN
    /\ stored' = (stored \/ r = "stream")
    /\ durable' = (durable \/ (r = "consumer" /\ stored))
    /\ queue' = IF r = "destroyed" /\ kept THEN queue + 1 ELSE queue
    /\ lost' = IF r = "destroyed" /\ ~kept THEN lost + 1 ELSE lost

(* A request of process p. Without a connection it times out, but the      *)
(* client keeps it, and sends it when it is connected again.               *)
Ask(p, r) ==
    \/ /\ Connected(p)
       /\ Perform(r)
       /\ UNCHANGED buffer
    \/ /\ ~Connected(p)
       /\ buffer' = [buffer EXCEPT ![p] = IF p \in closed THEN @ ELSE Append(@, r)]
       /\ UNCHANGED jetstream

Reconnect(p) ==
    /\ nats
    /\ p \notin closed
    /\ buffer[p] # <<>>
    /\ Perform(Head(buffer[p]))
    /\ buffer' = [buffer EXCEPT ![p] = Tail(@)]
    /\ UNCHANGED <<standalone, nats, closed, clients, running, identityService, bounds>>

Up(p) == IF p = "service" THEN service # "down" ELSE operator # "down"

ComingUp == Up("service") /\ worker # "subscribed"

(* The client of p has tried to reconnect MaxReconnects times, for two     *)
(* minutes, and closes the connection: its subscriptions are gone.         *)
GiveUp(p) ==
    /\ ~nats
    /\ Up(p)
    /\ closed' = closed \cup {p}
    /\ buffer' = [buffer EXCEPT ![p] = <<>>]
    /\ struck' = (struck \/ p = "service")
    /\ UNCHANGED <<standalone, nats, jetstream, service, worker, operator, settled,
                   running, identityService, bounds>>

NatsUp ==
    /\ ~nats
    /\ nats' = TRUE
    /\ UNCHANGED <<standalone, jetstream, buffer, closed, clients, running,
                   identityService, bounds>>

(* JetStream keeps the stream and the consumer in files. *)
NatsDown ==
    /\ nats
    /\ outages < MaxOutages
    /\ nats' = FALSE
    /\ outages' = outages + 1
    /\ struck' = (struck \/ ComingUp)
    /\ UNCHANGED <<standalone, jetstream, buffer, closed, service, worker, operator,
                   settled, running, identityService, started, ends>>

(* The process of p has ended, and its connection with it. *)
Disconnect(p) ==
    /\ buffer' = [buffer EXCEPT ![p] = <<>>]
    /\ closed' = closed \ {p}

------------------------------------------------------------------------------
(* The stream service. *)

ServiceBecomes(stage) ==
    /\ service' = stage
    /\ UNCHANGED <<standalone, jetstream, connections, worker, operator, settled, struck,
                   running, identityService, bounds>>

(* Mutant of ServiceConnect: with RetryOnFailedConnect, as the operator.   *)
ServiceConnectRetrying ==
    /\ service = "down"
    /\ ServiceBecomes("connected")

(* WithNatsConnection. Without NATS the process panics, and is started     *)
(* again.                                                                  *)
ServiceConnect ==
    /\ service = "down"
    /\ nats
    /\ ServiceBecomes("connected")

(* NewNatsJetstream ignores the outcome of AddStream.                      *)
ServiceAddStream ==
    /\ service = "connected"
    /\ Ask("service", "stream")
    /\ service' = "built"
    /\ UNCHANGED <<standalone, nats, closed, worker, operator, settled, struck,
                   running, identityService, bounds>>

(* StartStreamHttp, invoked before the workers. The handlers come in no    *)
(* particular order, and each adds its routes and its middleware: that of  *)
(* the stream verifies tokens, ...                                         *)
StreamRoutes ==
    \/ service = "built" /\ ServiceBecomes("stream")
    \/ service = "channels" /\ ServiceBecomes("routed")

(* ... as does that of the channel lists.                                  *)
ChannelRoutes ==
    \/ service = "built" /\ ServiceBecomes("channels")
    \/ service = "stream" /\ ServiceBecomes("routed")

(* Requests are served from now on, whatever becomes of the subscriptions. *)
ServiceServe ==
    /\ service = "routed"
    /\ ServiceBecomes("serving")

StartIngestDestroyedWorker ==
    /\ service = "serving"
    /\ worker = "none"
    /\ worker' = "add_stream"
    /\ UNCHANGED <<standalone, jetstream, connections, service, operator, settled,
                   struck, running, identityService, bounds>>

(* ingestDestroyedWorker.Start, in a goroutine: a request that fails is    *)
(* logged, and the next one is made all the same.                          *)
WorkerAddStream ==
    /\ worker = "add_stream"
    /\ Ask("service", "stream")
    /\ worker' = "add_consumer"
    /\ UNCHANGED <<standalone, nats, closed, service, operator, settled, struck,
                   running, identityService, bounds>>

WorkerAddConsumer ==
    /\ worker = "add_consumer"
    /\ Ask("service", "consumer")
    /\ worker' = "bind"
    /\ UNCHANGED <<standalone, nats, closed, service, operator, settled, struck,
                   running, identityService, bounds>>

(* QueueSubscribe with Bind asks for the consumer. When it does not get    *)
(* it, the worker waits for ever without a subscription.                   *)
WorkerBind ==
    /\ worker = "bind"
    /\ worker' = IF Connected("service") /\ durable THEN "subscribed" ELSE "deaf"
    /\ settled' = (settled \/ worker' = "subscribed")
    /\ UNCHANGED <<standalone, jetstream, connections, service, operator, struck,
                   running, identityService, bounds>>

(* A delivery that was handled (StreamService.tla) and acknowledged.       *)
Deliver ==
    /\ queue > 0
    /\ worker = "subscribed"
    /\ Connected("service")
    /\ queue' = queue - 1
    /\ UNCHANGED <<standalone, stored, durable, lost, connections, clients, running,
                   identityService, bounds>>

ServiceGone ==
    /\ service' = "down"
    /\ worker' = "none"
    /\ struck' = FALSE
    /\ Disconnect("service")

(* Mutant of ServiceEnds: the deferred DeleteConsumer and DeleteStream of  *)
(* the destroyed worker run.                                               *)
ServiceEndsDeferred ==
    /\ service # "down"
    /\ ends < MaxEnds
    /\ ends' = ends + 1
    /\ ServiceGone
    /\ stored' = (stored /\ ~Connected("service"))
    /\ durable' = (durable /\ ~Connected("service"))
    /\ queue' = IF Connected("service") THEN 0 ELSE queue
    /\ UNCHANGED <<standalone, nats, lost, operator, settled, running, identityService,
                   started, outages>>

(* A crash, or the end of the process after the HTTP server was shut down. *)
(* The workers wait for the end of a context that has none: what Start     *)
(* defers never runs.                                                      *)
ServiceEnds ==
    /\ service # "down"
    /\ ends < MaxEnds
    /\ ends' = ends + 1
    /\ ServiceGone
    /\ UNCHANGED <<standalone, nats, jetstream, operator, settled, running,
                   identityService, started, outages>>

------------------------------------------------------------------------------
(* The ingest operator. *)

(* NewNatsConnection with RetryOnFailedConnect: there is a connection,     *)
(* though perhaps to no server yet.                                        *)
OperatorConnect ==
    /\ operator = "down"
    /\ operator' = "connected"
    /\ UNCHANGED <<standalone, jetstream, connections, service, worker, settled, struck,
                   running, identityService, bounds>>

(* NewNatsJetstream ignores the outcome of AddStream.                      *)
OperatorAddStream ==
    /\ operator = "connected"
    /\ Ask("operator", "stream")
    /\ operator' = "built"
    /\ UNCHANGED <<standalone, nats, closed, service, worker, settled, struck, running,
                   identityService, bounds>>

OperatorBecomes(stage) ==
    /\ operator' = stage
    /\ UNCHANGED <<standalone, jetstream, connections, service, worker, settled, struck,
                   running, identityService, bounds>>

(* NewGRPCRunnable listens while the process is still put together.        *)
OperatorListen ==
    /\ operator = "built"
    /\ OperatorBecomes("listening")

(* The manager starts, and with it the gRPC server.                        *)
OperatorServe ==
    /\ operator = "listening"
    /\ OperatorBecomes("serving")

OperatorEnds ==
    /\ operator # "down"
    /\ ends < MaxEnds
    /\ ends' = ends + 1
    /\ operator' = "down"
    /\ Disconnect("operator")
    /\ UNCHANGED <<standalone, nats, jetstream, service, worker, settled, struck,
                   running, identityService, started, outages>>

------------------------------------------------------------------------------
(* Ingests. *)

(* WithIngestOperatorClient: the stub of standalone mode publishes with    *)
(* the connection of the stream service.                                   *)
Publisher == IF standalone THEN "service" ELSE "operator"

IngestStarts ==
    /\ service = "serving"
    /\ standalone \/ operator = "serving"
    /\ started < MaxIngests
    /\ started' = started + 1
    /\ running' = running + 1
    /\ UNCHANGED <<standalone, jetstream, connections, clients, identityService,
                   outages, ends>>

(* An ingest ends, stopped by a request or by the operator as it goes      *)
(* down, and is announced. A publication that is not acknowledged times    *)
(* out: the stub ignores it, the operator panics.                          *)
IngestEnds ==
    /\ running > 0
    /\ running' = running - 1
    /\ \/ /\ IF standalone THEN service = "serving"
             ELSE operator = "serving" /\ Connected("operator")
          /\ Ask(Publisher, "destroyed")
          /\ UNCHANGED <<operator, closed>>
       \/ /\ ~standalone
          /\ operator = "serving"
          /\ ~Connected("operator")
          /\ operator' = "down"
          /\ Disconnect("operator")
          /\ UNCHANGED jetstream
    /\ UNCHANGED <<standalone, nats, service, worker, settled, struck, identityService,
                   bounds>>

------------------------------------------------------------------------------
(* The identity service. *)

IdentityBecomes(stage) ==
    /\ identity' = stage
    /\ UNCHANGED <<standalone, jetstream, connections, clients, running, bounds>>

(* The constructors: sql.Open makes a pool that has not connected yet.     *)
IdentityBuild ==
    /\ identity = "down"
    /\ IdentityBecomes("built")
    /\ pool' = TRUE
    /\ UNCHANGED <<handler, lookup>>

(* The OnStart hooks, in the order of the constructors: the routes,        *)
(* NewGRPCServer, NewHTTPServer.                                           *)
IdentityRoutes ==
    /\ identity = "built"
    /\ IdentityBecomes("routed")
    /\ UNCHANGED <<pool, handler, lookup>>

IdentityListenRpc ==
    /\ identity = "routed"
    /\ IdentityBecomes("rpc")
    /\ UNCHANGED <<pool, handler, lookup>>

IdentityListen ==
    /\ identity = "rpc"
    /\ IdentityBecomes("serving")
    /\ UNCHANGED <<pool, handler, lookup>>

HandlerArrives ==
    /\ identity = "serving"
    /\ ~handler
    /\ handler' = TRUE
    /\ IdentityBecomes(identity)
    /\ UNCHANGED <<pool, lookup>>

HandlerReturns ==
    /\ handler
    /\ handler' = FALSE
    /\ IdentityBecomes(identity)
    /\ UNCHANGED <<pool, lookup>>

(* NewGRPCServer appends no OnStop hook: its server serves to the end, and *)
(* a key may be looked up in a pool that is closed.                        *)
LookupArrives ==
    /\ identity \in {"rpc", "serving", "stopping", "closing"}
    /\ ~lookup
    /\ lookup' = TRUE
    /\ IdentityBecomes(identity)
    /\ UNCHANGED <<pool, handler>>

LookupReturns ==
    /\ lookup
    /\ lookup' = FALSE
    /\ IdentityBecomes(identity)
    /\ UNCHANGED <<pool, handler>>

(* The OnStop hooks, last appended first. The HTTP server stops to listen  *)
(* and waits for its handlers.                                             *)
IdentitySignal ==
    /\ identity = "serving"
    /\ IdentityBecomes("stopping")
    /\ UNCHANGED <<pool, handler, lookup>>

(* Mutant of IdentityShutdown: the server does not wait for its handlers.  *)
IdentityShutdownAtOnce ==
    /\ identity = "stopping"
    /\ IdentityBecomes("closing")
    /\ UNCHANGED <<pool, handler, lookup>>

IdentityShutdown ==
    /\ identity = "stopping"
    /\ ~handler
    /\ IdentityBecomes("closing")
    /\ UNCHANGED <<pool, handler, lookup>>

CloseDatabase ==
    /\ identity = "closing"
    /\ pool
    /\ IdentityBecomes(identity)
    /\ pool' = FALSE
    /\ UNCHANGED <<handler, lookup>>

(* The process ends: when its last hook has run, when fx has waited for    *)
(* StopTimeout, when a listener cannot be opened, or by a crash.           *)
IdentityEnds ==
    /\ identity # "down"
    /\ IdentityBecomes("down")
    /\ pool' = FALSE /\ handler' = FALSE /\ lookup' = FALSE

------------------------------------------------------------------------------
ServiceComesUp ==
    \/ ServiceConnect \/ ServiceAddStream
    \/ StreamRoutes \/ ChannelRoutes \/ ServiceServe
    \/ StartIngestDestroyedWorker \/ WorkerAddStream \/ WorkerAddConsumer \/ WorkerBind

OperatorComesUp ==
    \/ OperatorConnect \/ OperatorAddStream \/ OperatorListen \/ OperatorServe

Identity ==
    \/ IdentityBuild \/ IdentityRoutes \/ IdentityListenRpc \/ IdentityListen
    \/ HandlerArrives \/ HandlerReturns
    \/ LookupArrives \/ LookupReturns
    \/ IdentitySignal \/ IdentityShutdown \/ CloseDatabase \/ IdentityEnds

Next ==
    \/ NatsUp \/ NatsDown
    \/ \E p \in Client : Reconnect(p) \/ GiveUp(p)
    \/ ServiceComesUp \/ OperatorComesUp
    \/ ServiceEnds \/ OperatorEnds
    \/ Deliver
    \/ IngestStarts \/ IngestEnds
    \/ Identity

Spec == Init /\ [][Next]_vars

(* A process that has ended is started again (Kubernetes restarts a pod)   *)
(* and NATS comes back; a client reconnects, and JetStream delivers what   *)
(* it keeps. No request, no outage and no end has to happen.               *)
Fairness ==
    /\ WF_vars(NatsUp)
    /\ WF_vars(ServiceComesUp)
    /\ WF_vars(OperatorComesUp)
    /\ WF_vars(Deliver)
    /\ \A p \in Client : WF_vars(Reconnect(p))

FairSpec == Spec /\ Fairness

------------------------------------------------------------------------------
(* Properties. *)

(* Once the destroyed worker has subscribed, JetStream has a place for     *)
(* every announcement it receives, also while the service is down: the     *)
(* stream and the durable consumer outlive the processes, because the      *)
(* deferred deletions of ingestDestroyedWorker.Start never run             *)
(* (destroyed_handler.go:66-104, jetstream.go:9-16). Before, a request     *)
(* served while the worker comes up may lose its announcement.             *)
AnnouncementsKept == [][settled => lost' = lost]_vars

(* What JetStream keeps is handled in the end, whichever processes restart *)
(* and however often NATS is away, unless an outage hits the service while *)
(* it comes up, which leaves its worker without a subscription, or lasts   *)
(* until the client gives up (destroyed_handler.go:69-103, main.go:178).   *)
KeptAreHandled == queue > 0 ~> (queue = 0 \/ struck)

(* An HTTP handler of the identity service never runs on a closed pool:    *)
(* the server, constructed last, stops first and waits for its handlers    *)
(* (identity main.go:64-85, 184-201).                                      *)
HandlersHaveDatabase == handler => pool
==============================================================================

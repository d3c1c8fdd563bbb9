---------------------------- MODULE Processes_proofs ----------------------------
(***************************************************************************)
(* Proofs about Processes.tla, for any number of outages, of ends of       *)
(* processes and of ingests: JetStream keeps what is announced once the    *)
(* destroyed worker has subscribed, and handlers of the identity service   *)
(* have their database.                                                    *)
(***************************************************************************)
EXTENDS Processes, TLAPS

(* The worker subscribes to a consumer that is there, and a consumer is    *)
(* made on a stream that is there.                                         *)
SettledKept == (settled => durable) /\ (durable => stored)

(* The pool is open from the constructors to the last hook, and a handler  *)
(* runs between the HTTP server's hooks only.                              *)
PoolOpen == identity \in {"built", "routed", "rpc", "serving", "stopping"} => pool
HandlersServed == handler => identity \in {"serving", "stopping"}

IInv == TypeOK /\ SettledKept /\ PoolOpen /\ HandlersServed

(* A step of JetStream deletes neither the stream nor the consumer, and    *)
(* with both loses nothing.                                                *)
Keeps ==
    /\ stored => stored'
    /\ durable => durable'
    /\ (durable' => durable \/ stored')
    /\ stored /\ durable => lost' = lost

LEMMA PerformKeeps ==
    ASSUME JetStreamType, NEW r \in Request, Perform(r)
    PROVE  JetStreamType' /\ Keeps
  <1>1. stored' \in BOOLEAN /\ durable' \in BOOLEAN
    BY Zenon DEF Perform, JetStreamType
  <1>2. queue' \in Nat /\ lost' \in Nat
    BY DEF Perform, JetStreamType
  <1>3. Keeps
    BY DEF Perform, JetStreamType, Keeps
  <1> QED
    BY <1>1, <1>2, <1>3 DEF JetStreamType

LEMMA AskKeeps ==
    ASSUME JetStreamType, buffer \in [Client -> Seq(Request)],
           NEW p \in Client, NEW r \in Request, Ask(p, r)
    PROVE  JetStreamType' /\ Keeps /\ buffer' \in [Client -> Seq(Request)]
  <1>1. CASE Connected(p) /\ Perform(r) /\ UNCHANGED buffer
    BY <1>1, PerformKeeps
  <1>2. CASE /\ buffer' = [buffer EXCEPT ![p] = IF p \in closed THEN @ ELSE Append(@, r)]
             /\ UNCHANGED jetstream
    BY <1>2 DEF jetstream, JetStreamType, Keeps
  <1> QED
    BY <1>1, <1>2 DEF Ask

LEMMA InitInv == Init => IInv
  <1> SUFFICES ASSUME Init PROVE IInv
    OBVIOUS
  <1>1. standalone \in BOOLEAN
    BY ProcessesAssumption, Zenon DEF Init, ProcessesAssumption
  <1>2. JetStreamType
    BY DEF Init, JetStreamType
  <1>6. ConnectionType
    <2>1. [p \in Client |-> <<>>] \in [Client -> Seq(Request)]
      OBVIOUS
    <2> QED
      BY <2>1 DEF Init, ConnectionType
  <1>3. ClientType /\ IdentityType
    BY DEF Init, ClientType, Worker, IdentityType
  <1>4. BoundType
    BY ProcessesAssumption DEF Init, ProcessesAssumption, BoundType
  <1>5. SettledKept /\ PoolOpen /\ HandlersServed
    BY DEF Init, SettledKept, PoolOpen, HandlersServed
  <1> QED
    BY <1>1, <1>2, <1>3, <1>4, <1>5, <1>6 DEF IInv, TypeOK

------------------------------------------------------------------------------
(* The identity service. *)

LEMMA IdentityInv ==
    ASSUME IInv, Identity
    PROVE  IInv' /\ Keeps
  <1> USE DEF IInv, TypeOK
  <1>1. UNCHANGED <<standalone, jetstream, connections, clients, running, bounds>>
    BY DEF Identity, IdentityBecomes, IdentityBuild, IdentityRoutes, IdentityListenRpc,
       IdentityListen, HandlerArrives, HandlerReturns, LookupArrives, LookupReturns,
       IdentitySignal, IdentityShutdown, CloseDatabase, IdentityEnds
  <1>2. /\ standalone' \in BOOLEAN /\ JetStreamType' /\ ConnectionType' /\ ClientType'
        /\ BoundType' /\ SettledKept' /\ Keeps
    BY <1>1 DEF jetstream, connections, clients, bounds, JetStreamType, ConnectionType,
       ClientType, BoundType, SettledKept, Keeps
  <1>3. IdentityType' /\ PoolOpen' /\ HandlersServed'
    <2> USE DEF IdentityType, PoolOpen, HandlersServed, IdentityBecomes
    <2>1. CASE IdentityBuild
      BY <2>1 DEF IdentityBuild
    <2>2. CASE IdentityRoutes
      BY <2>2 DEF IdentityRoutes
    <2>3. CASE IdentityListenRpc
      BY <2>3 DEF IdentityListenRpc
    <2>4. CASE IdentityListen
      BY <2>4 DEF IdentityListen
    <2>5. CASE HandlerArrives
      BY <2>5 DEF HandlerArrives
    <2>6. CASE HandlerReturns
      BY <2>6 DEF HandlerReturns
    <2>7. CASE LookupArrives
      BY <2>7 DEF LookupArrives
    <2>8. CASE LookupReturns
      BY <2>8 DEF LookupReturns
    <2>9. CASE IdentitySignal
      BY <2>9 DEF IdentitySignal
    <2>10. CASE IdentityShutdown
      BY <2>10 DEF IdentityShutdown
    <2>11. CASE CloseDatabase
      BY <2>11 DEF CloseDatabase
    <2>12. CASE IdentityEnds
      BY <2>12 DEF IdentityEnds
    <2> QED
      BY <2>1, <2>2, <2>3, <2>4, <2>5, <2>6, <2>7, <2>8, <2>9, <2>10, <2>11, <2>12 DEF Identity
  <1> QED
    BY <1>2, <1>3

------------------------------------------------------------------------------
(* The others. *)

(* What a step that leaves the identity service alone has to keep.         *)
Platform ==
    /\ standalone \in BOOLEAN
    /\ JetStreamType /\ ConnectionType /\ ClientType /\ BoundType /\ SettledKept

PlatformStep == UNCHANGED <<standalone, identityService>> /\ Platform' /\ Keeps

LEMMA PlatformInv ==
    ASSUME IInv, PlatformStep
    PROVE  IInv'
  <1>1. IdentityType' /\ PoolOpen' /\ HandlersServed'
    BY DEF IInv, TypeOK, PlatformStep, identityService, IdentityType, PoolOpen,
       HandlersServed
  <1> QED
    BY <1>1 DEF IInv, TypeOK, PlatformStep, Platform

(* A step that asks JetStream for something, or in which it delivers: the  *)
(* worker does not subscribe.                                              *)
LEMMA AskStep ==
    ASSUME Platform, JetStreamType', Keeps, UNCHANGED settled
    PROVE  SettledKept'
  BY DEF Platform, Keeps, SettledKept

LEMMA DisconnectTyped ==
    ASSUME ConnectionType, NEW p \in Client, Disconnect(p), UNCHANGED nats
    PROVE  ConnectionType'
  <1>1. <<>> \in Seq(Request)
    OBVIOUS
  <1> QED
    BY <1>1 DEF ConnectionType, Disconnect

LEMMA NatsStep ==
    ASSUME Platform,
           NatsUp \/ NatsDown \/ \E p \in Client : Reconnect(p) \/ GiveUp(p)
    PROVE  PlatformStep
  <1> USE DEF Platform, PlatformStep
  <1>1. CASE NatsUp
    BY <1>1 DEF NatsUp, jetstream, clients, identityService, bounds,
       JetStreamType, ConnectionType, ClientType, BoundType, SettledKept, Keeps
  <1>2. CASE NatsDown
    <2>1. struck' \in BOOLEAN
      BY <1>2, Zenon DEF NatsDown, ComingUp, Up, ClientType
    <2>2. BoundType'
      BY <1>2, ProcessesAssumption DEF NatsDown, BoundType, ProcessesAssumption
    <2> QED
      BY <1>2, <2>1, <2>2 DEF NatsDown, jetstream, identityService,
         JetStreamType, ConnectionType, ClientType, SettledKept, Keeps
  <1>3. ASSUME NEW p \in Client, Reconnect(p)
        PROVE  PlatformStep
    <2>1. buffer[p] \in Seq(Request) /\ buffer[p] # <<>>
      BY <1>3 DEF Reconnect, ConnectionType
    <2>2. Head(buffer[p]) \in Request /\ Tail(buffer[p]) \in Seq(Request)
      BY <2>1
    <2>3. JetStreamType' /\ Keeps
      BY <1>3, <2>2, PerformKeeps DEF Reconnect
    <2>4. ConnectionType' /\ ClientType' /\ BoundType'
      BY <1>3, <2>2 DEF Reconnect, clients, bounds, ConnectionType, ClientType, BoundType
    <2> QED
      BY <1>3, <2>3, <2>4, AskStep DEF Reconnect, clients, identityService
  <1>4. ASSUME NEW p \in Client, GiveUp(p)
        PROVE  PlatformStep
    <2>1. buffer' \in [Client -> Seq(Request)]
      BY <1>4 DEF GiveUp, ConnectionType
    <2>2. struck' \in BOOLEAN
      BY <1>4, Zenon DEF GiveUp, ClientType
    <2> QED
      BY <1>4, <2>1, <2>2 DEF GiveUp, jetstream, identityService, bounds,
         JetStreamType, ConnectionType, ClientType, BoundType, SettledKept, Keeps
  <1> QED
    BY <1>1, <1>2, <1>3, <1>4

LEMMA ServiceStep ==
    ASSUME Platform, ServiceComesUp \/ Deliver \/ ServiceEnds
    PROVE  PlatformStep
  <1> USE DEF Platform, PlatformStep
  <1>1. CASE ServiceConnect
    BY <1>1 DEF ServiceConnect, ServiceBecomes, jetstream, connections, identityService, bounds, JetStreamType,
       ConnectionType, ClientType, Worker, BoundType, SettledKept, Keeps
  <1>2. CASE ServiceAddStream
    <2>1. JetStreamType' /\ Keeps /\ buffer' \in [Client -> Seq(Request)]
      BY <1>2, AskKeeps DEF ServiceAddStream, Client, Request, ConnectionType
    <2> QED
      BY <1>2, <2>1, AskStep DEF ServiceAddStream, ConnectionType, ClientType, Worker, BoundType,
         identityService, bounds
  <1>3. CASE StreamRoutes \/ ChannelRoutes \/ ServiceServe
    BY <1>3 DEF StreamRoutes, ChannelRoutes, ServiceServe, ServiceBecomes, jetstream, connections,
       identityService, bounds, JetStreamType, ConnectionType, ClientType, Worker, BoundType,
       SettledKept, Keeps
  <1>4. CASE StartIngestDestroyedWorker
    BY <1>4 DEF StartIngestDestroyedWorker, jetstream, connections, identityService, bounds, JetStreamType,
       ConnectionType, ClientType, Worker, BoundType, SettledKept, Keeps
  <1>5. CASE WorkerAddStream
    <2>1. JetStreamType' /\ Keeps /\ buffer' \in [Client -> Seq(Request)]
      BY <1>5, AskKeeps DEF WorkerAddStream, Client, Request, ConnectionType
    <2> QED
      BY <1>5, <2>1, AskStep DEF WorkerAddStream, ConnectionType, ClientType, Worker, BoundType,
         identityService, bounds
  <1>6. CASE WorkerAddConsumer
    <2>1. JetStreamType' /\ Keeps /\ buffer' \in [Client -> Seq(Request)]
      BY <1>6, AskKeeps DEF WorkerAddConsumer, Client, Request, ConnectionType
    <2> QED
      BY <1>6, <2>1, AskStep DEF WorkerAddConsumer, ConnectionType, ClientType, Worker, BoundType,
         identityService, bounds
  <1>7. CASE WorkerBind
    <2>1. settled' \in BOOLEAN /\ (settled' => settled \/ durable)
      BY <1>7, Zenon DEF WorkerBind, ClientType
    <2>2. worker' \in Worker
      BY <1>7 DEF WorkerBind, Worker
    <2>3. SettledKept' /\ Keeps
      BY <1>7, <2>1 DEF WorkerBind, jetstream, SettledKept, Keeps, JetStreamType
    <2> QED
      BY <1>7, <2>1, <2>2, <2>3 DEF WorkerBind, jetstream, connections, identityService,
         bounds, JetStreamType, ConnectionType, ClientType, BoundType
  <1>8. CASE Deliver
    BY <1>8 DEF Deliver, connections, clients, identityService, bounds, JetStreamType,
       ConnectionType, ClientType, BoundType, SettledKept, Keeps
  <1>9. CASE ServiceEnds
    <2>1. ConnectionType'
      BY <1>9, DisconnectTyped DEF ServiceEnds, ServiceGone, Client
    <2>2. BoundType'
      BY <1>9, ProcessesAssumption DEF ServiceEnds, BoundType, ProcessesAssumption
    <2> QED
      BY <1>9, <2>1, <2>2 DEF ServiceEnds, ServiceGone, jetstream, identityService,
         JetStreamType, ClientType, Worker, SettledKept, Keeps
  <1> QED
    BY <1>1, <1>2, <1>3, <1>4, <1>5, <1>6, <1>7, <1>8, <1>9 DEF ServiceComesUp

LEMMA OperatorStep ==
    ASSUME Platform, OperatorComesUp \/ OperatorEnds
    PROVE  PlatformStep
  <1> USE DEF Platform, PlatformStep
  <1>1. CASE OperatorConnect
    BY <1>1 DEF OperatorConnect, jetstream, connections, identityService, bounds, JetStreamType,
       ConnectionType, ClientType, Worker, BoundType, SettledKept, Keeps
  <1>2. CASE OperatorAddStream
    <2>1. JetStreamType' /\ Keeps /\ buffer' \in [Client -> Seq(Request)]
      BY <1>2, AskKeeps DEF OperatorAddStream, Client, Request, ConnectionType
    <2> QED
      BY <1>2, <2>1, AskStep DEF OperatorAddStream, ConnectionType, ClientType, Worker, BoundType,
         identityService, bounds
  <1>3. CASE OperatorListen \/ OperatorServe
    BY <1>3 DEF OperatorListen, OperatorServe, OperatorBecomes, jetstream,
       connections, identityService, bounds, JetStreamType,
       ConnectionType, ClientType, Worker, BoundType, SettledKept, Keeps
  <1>4. CASE OperatorEnds
    <2>1. ConnectionType'
      BY <1>4, DisconnectTyped DEF OperatorEnds, Client
    <2>2. BoundType'
      BY <1>4, ProcessesAssumption DEF OperatorEnds, BoundType, ProcessesAssumption
    <2> QED
      BY <1>4, <2>1, <2>2 DEF OperatorEnds, jetstream, identityService, JetStreamType,
         ClientType, SettledKept, Keeps
  <1> QED
    BY <1>1, <1>2, <1>3, <1>4 DEF OperatorComesUp

LEMMA IngestStep ==
    ASSUME Platform, IngestStarts \/ IngestEnds
    PROVE  PlatformStep
  <1> USE DEF Platform, PlatformStep
  <1>1. CASE IngestStarts
    BY <1>1 DEF IngestStarts, jetstream, connections, clients, identityService,
       JetStreamType, ConnectionType, ClientType, BoundType, SettledKept, Keeps
  <1>2. CASE IngestEnds
    <2>1. running' \in Nat
      BY <1>2 DEF IngestEnds, ClientType
    <2>2. JetStreamType' /\ Keeps /\ ConnectionType' /\ ClientType'
      <3>1. CASE Ask(Publisher, "destroyed") /\ UNCHANGED <<operator, closed>>
        <4>1. Publisher \in Client /\ "destroyed" \in Request
          BY DEF Publisher, Client, Request
        <4>2. JetStreamType' /\ Keeps /\ buffer' \in [Client -> Seq(Request)]
          BY <3>1, <4>1, AskKeeps DEF ConnectionType
        <4> QED
          BY <1>2, <2>1, <3>1, <4>2 DEF IngestEnds, ConnectionType, ClientType
      <3>2. CASE operator' = "down" /\ Disconnect("operator") /\ UNCHANGED jetstream
        <4>1. ConnectionType'
          BY <1>2, <3>2, DisconnectTyped DEF IngestEnds, Client
        <4> QED
          BY <1>2, <2>1, <3>2, <4>1 DEF IngestEnds, jetstream, JetStreamType, ClientType,
             Keeps
      <3> QED
        BY <1>2, <3>1, <3>2 DEF IngestEnds
    <2> QED
      BY <1>2, <2>2, AskStep DEF IngestEnds, identityService, bounds, BoundType
  <1> QED
    BY <1>1, <1>2

------------------------------------------------------------------------------
(* The theorems. *)

LEMMA NextInv == IInv /\ [Next]_vars => IInv'
  <1> SUFFICES ASSUME IInv, [Next]_vars PROVE IInv'
    OBVIOUS
  <1>1. Platform
    BY DEF IInv, TypeOK, Platform
  <1>2. CASE Identity
    BY <1>2, IdentityInv
  <1>3. CASE PlatformStep
    BY <1>3, PlatformInv
  <1>4. CASE UNCHANGED vars
    BY <1>4 DEF vars, jetstream, connections, clients, identityService, bounds, IInv,
       TypeOK, JetStreamType, ConnectionType, ClientType, IdentityType, BoundType,
       SettledKept, PoolOpen, HandlersServed
  <1> QED
    BY <1>1, <1>2, <1>3, <1>4, NatsStep, ServiceStep, OperatorStep, IngestStep DEF Next

(* The inductive invariant of the processes holds in every reachable       *)
(* state, however often NATS is away and processes end.                    *)
THEOREM Invariance == Spec => []IInv
  <1> QED
    BY InitInv, NextInv, PTL DEF Spec

(* The state of the processes keeps its types (the inductive invariant).   *)
THEOREM TypeCorrect == Spec => []TypeOK
  <1>1. IInv => TypeOK
    BY DEF IInv
  <1> QED
    BY <1>1, Invariance, PTL

(* No handler of the identity service runs on a closed pool: the HTTP      *)
(* server, constructed last, is the first to stop, and waits               *)
(* (identity main.go:64-85, 184-201).                                      *)
THEOREM DatabaseOpen == Spec => []HandlersHaveDatabase
  <1>1. IInv => HandlersHaveDatabase
    BY DEF IInv, PoolOpen, HandlersServed, HandlersHaveDatabase
  <1> QED
    BY <1>1, Invariance, PTL

(* JetStream loses no announcement once the destroyed worker has           *)
(* subscribed, because what Start defers never runs                        *)
(* (destroyed_handler.go:66-104).                                          *)
THEOREM NothingLost == Spec => AnnouncementsKept
  <1>1. IInv /\ [Next]_vars => [settled => lost' = lost]_vars
    <2> SUFFICES ASSUME IInv, [Next]_vars, settled PROVE lost' = lost \/ UNCHANGED vars
      OBVIOUS
    <2>1. Platform
      BY DEF IInv, TypeOK, Platform
    <2>2. CASE Keeps
      BY <2>1, <2>2 DEF Keeps, Platform, SettledKept
    <2>3. CASE UNCHANGED vars
      BY <2>3
    <2> QED
      BY <2>1, <2>2, <2>3, IdentityInv, NatsStep, ServiceStep, OperatorStep, IngestStep
         DEF Next, PlatformStep
  <1> QED
    BY <1>1, Invariance, PTL DEF Spec, AnnouncementsKept
=================================================================================

------------------------- MODULE StreamService_proofs -------------------------
(***************************************************************************)
(* Proofs about the stream service, for every set of broadcasters, every   *)
(* number of requests, retries and restarts, every fault and both modes:   *)
(* its tables stay consistent and no destroyed ingest is forgotten; and    *)
(* that answers are true and streams have their ingest servers, for users  *)
(* who act on the state they see and a controller that works.              *)
(***************************************************************************)
EXTENDS StreamService, SequenceTheorems, TLAPS

(* The strengthening that makes the safety properties inductive.           *)

Starting == {"start_server", "start_create", "insert"}

(* A request has a broadcaster and the id of its arrival. *)
CallInv ==
    \A c \in Call :
        call[c].pc # "idle" => call[c].b \in Broadcaster /\ call[c].id \in 1 .. made

(* Stream ids are fresh: no two rows share one, no two requests share one, *)
(* and a start has not used its own yet.                                   *)
IdInv ==
    /\ \A b \in Broadcaster : HasRow(b) => active_streams[b].id <= made
    /\ \A a, b \in Broadcaster :
        a # b /\ HasRow(a) /\ HasRow(b) => active_streams[a].id # active_streams[b].id
    /\ \A c \in Call, b \in Broadcaster :
        call[c].pc \in Starting /\ HasRow(b) => active_streams[b].id # call[c].id
    /\ \A c, d \in Call :
        c # d /\ call[c].pc # "idle" /\ call[d].pc # "idle" => call[c].id # call[d].id

(* A delivery concerns a stored message, and the server has counted it. *)
InboxInv ==
    \A i \in DOMAIN inbox :
        /\ inbox[i].msg \in DOMAIN destroyed
        /\ inbox[i].delivered <= destroyed[inbox[i].msg].delivered

(* A worker past its DELETE has seen the row gone. *)
WorkerInv ==
    worker # None =>
        /\ worker.msg \in DOMAIN destroyed
        /\ worker.deleted => destroyed[worker.msg].cleared

TableInv == LockedRowStays /\ EgressesHaveStream /\ DeployedWithEgresses

MessageInv == InboxInv /\ WorkerInv /\ AckedWhenCleared

IInv == TypeOK /\ CallInv /\ IdInv /\ TableInv /\ MessageInv

------------------------------------------------------------------------------
(* The stored messages. *)

(* A step keeps what is known of the messages and acknowledges none. *)
MessagesKept ==
    /\ destroyed' \in Seq(Message)
    /\ \A m \in DOMAIN destroyed :
        /\ m \in DOMAIN destroyed'
        /\ destroyed[m].delivered <= destroyed'[m].delivered
        /\ destroyed[m].cleared => destroyed'[m].cleared
    /\ \A m \in DOMAIN destroyed' :
        destroyed'[m].acked =>
            /\ m \in DOMAIN destroyed
            /\ destroyed[m].acked

(* A message of the stream, by its index. *)
LEMMA MessageAt ==
    ASSUME TypeOK, NEW m \in DOMAIN destroyed
    PROVE  destroyed[m] \in Message /\ m \in 1 .. Len(destroyed)
BY ElementOfSeq DEF TypeOK

(* Steps that leave the stream alone keep its messages. *)
LEMMA SameMessages ==
    ASSUME TypeOK, UNCHANGED destroyed
    PROVE  MessagesKept
<1>1. \A m \in DOMAIN destroyed : destroyed[m].delivered \in Nat
  BY MessageAt DEF Message
<1> QED
  BY <1>1 DEF TypeOK, MessagesKept

(* The deletion of a row (active_stream.go:69-75) marks the messages of    *)
(* its broadcaster and changes nothing else of them.                       *)
LEMMA ClearedMessages ==
    ASSUME TypeOK, NEW b \in Broadcaster, ClearedBy(b)
    PROVE  /\ MessagesKept
           /\ DOMAIN destroyed' = DOMAIN destroyed
           /\ \A m \in DOMAIN destroyed :
                /\ destroyed'[m].b = destroyed[m].b
                /\ destroyed[m].b = b => destroyed'[m].cleared
<1> DEFINE n == Len(destroyed)
<1>1. destroyed \in Seq(Message) /\ n \in Nat /\ DOMAIN destroyed = 1 .. n
  BY LenProperties DEF TypeOK
<1>2. \A m \in 1 .. n :
        /\ destroyed[m] \in Message
        /\ destroyed'[m] =
            [destroyed[m] EXCEPT !.cleared = destroyed[m].cleared \/ destroyed[m].b = b]
  BY <1>1, MessageAt DEF ClearedBy
<1>3. \A m \in 1 .. n :
        /\ destroyed'[m] \in Message
        /\ destroyed'[m].b = destroyed[m].b
        /\ destroyed'[m].delivered = destroyed[m].delivered
        /\ destroyed'[m].acked = destroyed[m].acked
        /\ destroyed[m].cleared => destroyed'[m].cleared
        /\ destroyed[m].b = b => destroyed'[m].cleared
  BY <1>2 DEF Message
<1>4. destroyed' \in [1 .. n -> Message]
  BY <1>1, <1>3 DEF ClearedBy
<1>5. destroyed' \in Seq(Message) /\ DOMAIN destroyed' = 1 .. n
  BY <1>1, <1>4, SeqDef
<1>6. \A m \in DOMAIN destroyed : destroyed[m].delivered \in Nat
  BY MessageAt DEF Message
<1> QED
  BY <1>1, <1>3, <1>5, <1>6 DEF MessagesKept

(* A publication (utils.go:32-44) adds a message that nobody has           *)
(* acknowledged.                                                           *)
LEMMA PublishedMessages ==
    ASSUME TypeOK, NEW b \in Broadcaster, PublishDestroyed(b)
    PROVE  MessagesKept
<1> DEFINE e == [b |-> b, delivered |-> 0, acked |-> FALSE, cleared |-> ~HasRow(b)]
<1>1. e \in Message
  BY StreamServiceAssumption DEF Message, HasRow
<1>2. destroyed \in Seq(Message) /\ destroyed' = Append(destroyed, e)
  BY DEF TypeOK, PublishDestroyed
<1>3. /\ destroyed' \in Seq(Message)
      /\ Len(destroyed') = Len(destroyed) + 1
      /\ \A m \in 1 .. Len(destroyed) : destroyed'[m] = destroyed[m]
      /\ destroyed'[Len(destroyed) + 1] = e
  BY <1>1, <1>2, AppendProperties
<1>4. /\ Len(destroyed) \in Nat
      /\ DOMAIN destroyed = 1 .. Len(destroyed)
      /\ DOMAIN destroyed' = 1 .. Len(destroyed) + 1
  BY <1>2, <1>3, LenProperties
<1>5. \A m \in DOMAIN destroyed : destroyed[m].delivered \in Nat
  BY MessageAt DEF Message
<1> HIDE DEF e
<1>6. e.acked = FALSE
  BY DEF e
<1> QED
  BY <1>3, <1>4, <1>5, <1>6 DEF MessagesKept

(* The outcomes of a stop of the ingest system (ingest_system.go:348-374). *)
LEMMA StoppedSystem ==
    ASSUME TypeOK, NEW b \in Broadcaster, OperatorStopSystem(b)
    PROVE  MessagesKept /\ ingest' \in SUBSET Broadcaster
<1>1. MessagesKept
  BY PublishedMessages, SameMessages DEF OperatorStopSystem
<1>2. ingest' \in SUBSET Broadcaster
  BY DEF OperatorStopSystem, TypeOK
<1> QED
  BY <1>1, <1>2

(* The acknowledgement of m (destroyed_handler.go:63) changes nothing      *)
(* else, and no other message.                                             *)
LEMMA AckedMessage ==
    ASSUME TypeOK, NEW m \in DOMAIN destroyed, Ack(m)
    PROVE  /\ destroyed' \in Seq(Message)
           /\ DOMAIN destroyed' = DOMAIN destroyed
           /\ \A k \in DOMAIN destroyed :
                /\ destroyed'[k].delivered = destroyed[k].delivered
                /\ destroyed'[k].cleared = destroyed[k].cleared
                /\ k # m => destroyed'[k].acked = destroyed[k].acked
<1>1. [destroyed[m] EXCEPT !.acked = TRUE] \in Message
  BY MessageAt DEF Message
<1>2. /\ destroyed \in Seq(Message)
      /\ destroyed' = [destroyed EXCEPT ![m] = [destroyed[m] EXCEPT !.acked = TRUE]]
  BY DEF Ack, TypeOK
<1>3. destroyed' \in Seq(Message)
  BY <1>1, <1>2, MessageAt, ExceptSeq
<1>4. \A k \in DOMAIN destroyed : destroyed[k] \in Message
  BY MessageAt
<1> QED
  BY <1>2, <1>3, <1>4 DEF Message

(* The counts of the deliveries of messages that a step keeps. *)
LEMMA KeptCounts ==
    ASSUME TypeOK, MessagesKept
    PROVE  /\ \A m \in DOMAIN destroyed : destroyed[m].delivered \in Nat
           /\ \A m \in DOMAIN destroyed' : destroyed'[m].delivered \in Nat
<1>1. \A m \in DOMAIN destroyed : destroyed[m].delivered \in Nat
  BY MessageAt DEF Message
<1>2. \A m \in DOMAIN destroyed' : destroyed'[m].delivered \in Nat
  <2>1. destroyed' \in Seq(Message)
    BY DEF MessagesKept
  <2>2. \A m \in DOMAIN destroyed' : destroyed'[m] \in Message
    BY <2>1, LenProperties, ElementOfSeq
  <2> QED
    BY <2>2 DEF Message
<1> QED
  BY <1>1, <1>2

(* The deliveries that wait stay covered by a step that keeps the messages *)
(* and receives none.                                                      *)
LEMMA KeptInbox ==
    ASSUME TypeOK, InboxInv, MessagesKept, UNCHANGED inbox
    PROVE  InboxInv'
<1>1. \A i \in DOMAIN inbox : inbox[i].delivered \in Nat
  <2>1. \A i \in DOMAIN inbox : inbox[i] \in Delivery
    BY LenProperties, ElementOfSeq DEF TypeOK
  <2> QED
    BY <2>1, StreamServiceAssumption DEF Delivery
<1>2. SUFFICES ASSUME NEW i \in DOMAIN inbox
               PROVE  /\ inbox[i].msg \in DOMAIN destroyed'
                      /\ inbox[i].delivered <= destroyed'[inbox[i].msg].delivered
  BY DEF InboxInv
<1>3. /\ inbox[i].msg \in DOMAIN destroyed
      /\ inbox[i].delivered <= destroyed[inbox[i].msg].delivered
  BY DEF InboxInv
<1>4. /\ inbox[i].msg \in DOMAIN destroyed'
      /\ destroyed[inbox[i].msg].delivered <= destroyed'[inbox[i].msg].delivered
  BY <1>3 DEF MessagesKept
<1> QED
  BY <1>1, <1>3, <1>4, KeptCounts

(* The acknowledged messages stay justified by a step that keeps them. *)
LEMMA KeptAcks ==
    ASSUME TypeOK, AckedWhenCleared, MessagesKept
    PROVE  AckedWhenCleared'
<1>1. SUFFICES ASSUME NEW m \in DOMAIN destroyed', destroyed'[m].acked
               PROVE  destroyed'[m].cleared \/ destroyed'[m].delivered > Retry
  BY DEF AckedWhenCleared
<1>2. m \in DOMAIN destroyed /\ destroyed[m].acked
  BY <1>1 DEF MessagesKept
<1>3. destroyed[m].cleared \/ destroyed[m].delivered > Retry
  BY <1>2 DEF AckedWhenCleared
<1>4. /\ destroyed[m].delivered <= destroyed'[m].delivered
      /\ destroyed[m].cleared => destroyed'[m].cleared
  BY <1>2 DEF MessagesKept
<1> QED
  BY <1>2, <1>3, <1>4, KeptCounts, StreamServiceAssumption

(* Steps that keep the messages, and neither receive nor handle one, keep  *)
(* what the worker relies on.                                              *)
LEMMA KeptMessages ==
    ASSUME TypeOK, MessageInv, MessagesKept, UNCHANGED <<inbox, worker>>
    PROVE  MessageInv'
<1>1. WorkerInv'
  BY DEF MessageInv, WorkerInv, MessagesKept
<1> QED
  BY <1>1, KeptInbox, KeptAcks DEF MessageInv

------------------------------------------------------------------------------
(* The tables and the requests. *)

(* A step starts no request and keeps the identity of those that run. *)
RequestsKept ==
    /\ made' = made
    /\ \A c \in Call :
        call'[c].pc # "idle" =>
            /\ call[c].pc # "idle"
            /\ call'[c].b = call[c].b
            /\ call'[c].id = call[c].id
            /\ call'[c].pc \in Starting => call[c].pc \in Starting

(* A step adds no row and keeps the id of those that stay. *)
RowsKept ==
    \A b \in Broadcaster :
        HasRow(b)' => HasRow(b) /\ active_streams'[b].id = active_streams[b].id

(* Such steps keep ids fresh. *)
LEMMA KeptIds ==
    ASSUME CallInv, IdInv, RequestsKept, RowsKept
    PROVE  CallInv' /\ IdInv'
<1>1. CallInv'
  BY DEF CallInv, RequestsKept
<1>2. (\A b \in Broadcaster : HasRow(b) => active_streams[b].id <= made)'
  BY DEF IdInv, RequestsKept, RowsKept
<1>3. (\A a, b \in Broadcaster :
        a # b /\ HasRow(a) /\ HasRow(b) => active_streams[a].id # active_streams[b].id)'
  BY DEF IdInv, RowsKept
<1>4. (\A c \in Call, b \in Broadcaster :
        call[c].pc \in Starting /\ HasRow(b) => active_streams[b].id # call[c].id)'
  <2>1. Starting \cap {"idle"} = {}
    BY DEF Starting
  <2> QED
    BY <2>1 DEF IdInv, RowsKept, RequestsKept
<1>5. (\A c, d \in Call :
        c # d /\ call[c].pc # "idle" /\ call[d].pc # "idle" => call[c].id # call[d].id)'
  BY DEF IdInv, RequestsKept
<1> QED
  BY <1>1, <1>2, <1>3, <1>4, <1>5 DEF IdInv

(* The row of a broadcaster, when there is one. *)
LEMMA RowOf ==
    ASSUME TypeOK, NEW b \in Broadcaster, HasRow(b)
    PROVE  active_streams[b] \in Row /\ active_streams[b].id \in StreamId
BY DEF TypeOK, HasRow, Row

(* A deletion (active_stream.go:69-75) keeps the tables consistent: it     *)
(* takes the egresses of its row with it, and spares a locked row.         *)
LEMMA DeletedRow ==
    ASSUME TypeOK, IdInv, TableInv, NEW b \in Broadcaster, DeleteRow(b)
    PROVE  /\ active_streams' \in [Broadcaster -> Row \cup {None}]
           /\ active_stream_egresses' \in [StreamId -> Nat]
           /\ RowsKept
           /\ TableInv'
<1>1. active_streams' = [active_streams EXCEPT ![b] = None]
  BY DEF DeleteRow
<1>2. /\ active_streams' \in [Broadcaster -> Row \cup {None}]
      /\ active_stream_egresses' \in [StreamId -> Nat]
  BY <1>1 DEF DeleteRow, TypeOK
<1>3. \A a \in Broadcaster :
        HasRow(a)' => a # b /\ HasRow(a) /\ active_streams'[a] = active_streams[a]
  BY <1>1 DEF HasRow, TypeOK
<1>4. \A a \in Broadcaster : a # b => active_streams'[a] = active_streams[a]
  BY <1>1 DEF TypeOK
<1>5. LockedRowStays'
  <2>1. tx # None => tx.b \in Broadcaster
    BY DEF TypeOK, Transaction
  <2> QED
    BY <1>4, <2>1 DEF TableInv, LockedRowStays, HasRow, DeleteRow, Locked
<1>6. \A i \in StreamId :
        \/ /\ HasRow(b) /\ i = active_streams[b].id
           /\ active_stream_egresses'[i] = 0
        \/ /\ HasRow(b) => i # active_streams[b].id
           /\ active_stream_egresses'[i] = active_stream_egresses[i]
  BY DEF DeleteRow, TypeOK
<1>7. EgressesHaveStream'
  <2>1. SUFFICES ASSUME NEW i \in StreamId, active_stream_egresses'[i] > 0
                 PROVE  \E a \in Broadcaster : HasRow(a)' /\ active_streams'[a].id = i
    BY DEF EgressesHaveStream
  <2>2. /\ HasRow(b) => i # active_streams[b].id
        /\ active_stream_egresses[i] > 0
    BY <1>6, <2>1
  <2>3. PICK a \in Broadcaster : HasRow(a) /\ active_streams[a].id = i
    BY <2>2 DEF TableInv, EgressesHaveStream
  <2> QED
    BY <1>4, <2>2, <2>3 DEF HasRow
<1>8. DeployedWithEgresses'
  <2>1. SUFFICES ASSUME NEW a \in Broadcaster, HasRow(a)'
                 PROVE  active_streams'[a].deployed
                          <=> active_stream_egresses'[active_streams'[a].id] > 0
    BY DEF DeployedWithEgresses
  <2>2. /\ HasRow(a) /\ a # b /\ active_streams'[a] = active_streams[a]
        /\ active_streams[a].id \in StreamId
    BY <1>3, <2>1, RowOf
  <2>3. active_stream_egresses'[active_streams[a].id]
          = active_stream_egresses[active_streams[a].id]
    BY <1>6, <2>2 DEF IdInv
  <2> QED
    BY <2>2, <2>3 DEF TableInv, DeployedWithEgresses
<1> QED
  BY <1>2, <1>3, <1>5, <1>7, <1>8 DEF RowsKept, TableInv

(* Steps that leave the tables alone keep them consistent. *)
LEMMA SameTables ==
    ASSUME TableInv, UNCHANGED <<active_streams, active_stream_egresses>>,
           tx' = tx \/ tx' = None
    PROVE  TableInv' /\ RowsKept
BY DEF TableInv, LockedRowStays, EgressesHaveStream, DeployedWithEgresses, HasRow,
       RowsKept

(* A handler that goes on serves the same request. *)
LEMMA WentOn ==
    ASSUME TypeOK, NEW c \in Call, call[c].pc # "idle", made' = made,
           NEW pc \in Location, Goto(c, pc),
           pc \in Starting => call[c].pc \in Starting
    PROVE  call' \in [Call -> Request] /\ RequestsKept
<1>1. \A d \in Call :
        /\ call[d] \in Request
        /\ call'[d] = IF d = c THEN [call[c] EXCEPT !.pc = pc] ELSE call[d]
  BY DEF TypeOK, Goto
<1>2. /\ [call[c] EXCEPT !.pc = pc] \in Request
      /\ [call[c] EXCEPT !.pc = pc].pc = pc
      /\ [call[c] EXCEPT !.pc = pc].b = call[c].b
      /\ [call[c] EXCEPT !.pc = pc].id = call[c].id
  BY <1>1 DEF Request
<1>3. call' \in [Call -> Request]
  BY <1>2 DEF TypeOK, Goto
<1> QED
  BY <1>1, <1>2, <1>3 DEF RequestsKept

(* A handler that answers ends its request. *)
LEMMA Answered ==
    ASSUME TypeOK, NEW c \in Call, made' = made, NEW answer \in Answer, Reply(c, answer)
    PROVE  /\ call' \in [Call -> Request]
           /\ told' \in [Broadcaster -> Answer]
           /\ RequestsKept
<1>1. Idle \in Request /\ Idle.pc = "idle"
  BY StreamServiceAssumption DEF Idle, Request, Location
<1>2. call' \in [Call -> Request]
  BY <1>1 DEF TypeOK, Reply
<1>3. told' \in [Broadcaster -> Answer]
  BY DEF TypeOK, Reply, Answer
<1>4. RequestsKept
  BY <1>1 DEF TypeOK, Reply, RequestsKept
<1> QED
  BY <1>2, <1>3, <1>4

(* The parts of a successor state that satisfies the invariant. *)
LEMMA KeptInvariant ==
    ASSUME IInv, TypeOK', RequestsKept, RowsKept, TableInv', MessageInv'
    PROVE  IInv'
BY KeptIds DEF IInv

------------------------------------------------------------------------------
(* One lemma per operation: it preserves the invariant. *)

(* A request arrives (handler.go:32-62) with an id of its own. *)
LEMMA ArriveStep ==
    ASSUME IInv, NEW c \in Call, NEW b \in Broadcaster,
           NEW pc \in {"start_server", "stop_get"}, Arrive(c, b, pc)
    PROVE  IInv'
<1> DEFINE r == [pc |-> pc, b |-> b, id |-> made + 1, failing |-> FALSE]
<1>1. /\ TypeOK /\ CallInv /\ IdInv /\ TableInv /\ MessageInv
      /\ made \in Nat /\ MaxCalls \in Nat /\ made < MaxCalls
      /\ call[c].pc = "idle"
  BY StreamServiceAssumption DEF IInv, TypeOK, Arrive, Idle
<1>2. r \in Request /\ r.pc # "idle" /\ r.id = made + 1 /\ r.b = b
  BY <1>1 DEF Request, Location
<1>3. /\ call' = [call EXCEPT ![c] = r]
      /\ made' = made + 1
      /\ UNCHANGED <<standalone, adrift, db, ingest, bus, crashes>>
  BY DEF Arrive
<1> HIDE DEF r
<1>4. TypeOK'
  <2>1. call' \in [Call -> Request]
    BY <1>1, <1>2, <1>3 DEF TypeOK
  <2>2. told' \in [Broadcaster -> Answer]
    BY <1>1 DEF TypeOK, Arrive, Answer
  <2>3. made' \in 0 .. MaxCalls
    BY <1>1, <1>3
  <2> QED
    BY <1>1, <1>3, <2>1, <2>2, <2>3 DEF TypeOK, db, bus
<1>5. \A d \in Call : call'[d] = IF d = c THEN r ELSE call[d]
  BY <1>1, <1>3 DEF TypeOK
<1>6. CallInv'
  BY <1>1, <1>2, <1>3, <1>5 DEF CallInv
<1>7. active_streams' = active_streams
  BY <1>3 DEF db
<1>8. \A a \in Broadcaster : HasRow(a) => active_streams[a].id \in Nat
  BY <1>1, RowOf DEF StreamId
<1>9. IdInv'
  <2>1. (\A a \in Broadcaster : HasRow(a) => active_streams[a].id <= made)'
    BY <1>1, <1>3, <1>7, <1>8 DEF IdInv, HasRow
  <2>2. (\A a, e \in Broadcaster :
          a # e /\ HasRow(a) /\ HasRow(e) => active_streams[a].id # active_streams[e].id)'
    BY <1>1, <1>7 DEF IdInv, HasRow
  <2>3. (\A d \in Call, a \in Broadcaster :
          call[d].pc \in Starting /\ HasRow(a) => active_streams[a].id # call[d].id)'
    <3>1. \A a \in Broadcaster : HasRow(a) => active_streams[a].id < made + 1
      BY <1>1, <1>8 DEF IdInv
    <3> QED
      BY <1>1, <1>2, <1>5, <1>7, <1>8, <3>1 DEF IdInv, HasRow
  <2>4. (\A d, e \in Call :
          d # e /\ call[d].pc # "idle" /\ call[e].pc # "idle" => call[d].id # call[e].id)'
    <3>1. \A d \in Call : call[d].pc # "idle" => call[d].id \in Nat /\ call[d].id < made + 1
      BY <1>1 DEF CallInv
    <3> QED
      BY <1>1, <1>2, <1>5, <3>1 DEF IdInv
  <2> QED
    BY <2>1, <2>2, <2>3, <2>4 DEF IdInv
<1>10. TableInv'
  BY <1>1, <1>3, SameTables DEF db
<1>11. MessageInv'
  BY <1>1, <1>3, SameMessages, KeptMessages DEF bus
<1> QED
  BY <1>4, <1>6, <1>9, <1>10, <1>11 DEF IInv

(* The stub publishes the deployment (ingestcontroller.go:27-46). *)
LEMMA StandaloneStartServerStep ==
    ASSUME IInv, NEW c \in Call, StandaloneStartServer(c)
    PROVE  IInv'
<1>1. /\ TypeOK /\ CallInv /\ TableInv /\ MessageInv
      /\ call[c].pc = "start_server" /\ Goto(c, "insert")
      /\ UNCHANGED <<db, told, ingest, destroyed, inbox, worker, env>>
  BY DEF IInv, StandaloneStartServer
<1>2. call' \in [Call -> Request] /\ RequestsKept
  BY <1>1, WentOn DEF Starting, Location, env
<1>3. deployed' \in Seq(Broadcaster)
  <2>1. call[c].b \in Broadcaster
    BY <1>1 DEF CallInv
  <2>2. deployed \in Seq(Broadcaster)
    BY <1>1 DEF TypeOK
  <2>3. Append(deployed, call[c].b) \in Seq(Broadcaster)
    BY <2>1, <2>2, AppendProperties
  <2> QED
    BY <2>2, <2>3 DEF StandaloneStartServer
<1>4. TypeOK'
  BY <1>1, <1>2, <1>3 DEF TypeOK, db, env
<1>5. TableInv' /\ RowsKept
  BY <1>1, SameTables DEF db
<1>6. MessageInv'
  BY <1>1, SameMessages, KeptMessages
<1> QED
  BY <1>2, <1>4, <1>5, <1>6, KeptInvariant

(* The operator stops what the broadcaster has (service.go:46-57). *)
LEMMA OperatorStartServerStep ==
    ASSUME IInv, NEW c \in Call, OperatorStartServer(c)
    PROVE  IInv'
<1>1. /\ TypeOK /\ CallInv /\ TableInv /\ MessageInv
      /\ call[c].pc = "start_server" /\ Goto(c, "start_create")
      /\ OperatorStopSystem(call[c].b)
      /\ UNCHANGED <<db, told, deployed, inbox, worker, env>>
  BY DEF IInv, OperatorStartServer
<1>2. call' \in [Call -> Request] /\ RequestsKept
  BY <1>1, WentOn DEF Starting, Location, env
<1>3. MessagesKept /\ ingest' \in SUBSET Broadcaster
  BY <1>1, StoppedSystem DEF CallInv
<1>4. TypeOK'
  BY <1>1, <1>2, <1>3 DEF TypeOK, db, env, MessagesKept
<1>5. TableInv' /\ RowsKept
  BY <1>1, SameTables DEF db
<1>6. MessageInv'
  BY <1>1, <1>3, KeptMessages
<1> QED
  BY <1>2, <1>4, <1>5, <1>6, KeptInvariant

(* It creates the resources of the ingest (service.go:59-75). *)
LEMMA OperatorCreatedStep ==
    ASSUME IInv, NEW c \in Call, OperatorCreated(c)
    PROVE  IInv'
<1>1. /\ TypeOK /\ CallInv /\ TableInv /\ MessageInv
      /\ call[c].pc = "start_create" /\ Goto(c, "insert")
      /\ ingest' = ingest \cup {call[c].b}
      /\ UNCHANGED <<db, told, bus, env>>
  BY DEF IInv, OperatorCreated
<1>2. call' \in [Call -> Request] /\ RequestsKept
  BY <1>1, WentOn DEF Starting, Location, env
<1>3. ingest' \in SUBSET Broadcaster
  BY <1>1 DEF TypeOK, CallInv
<1>4. TypeOK'
  BY <1>1, <1>2, <1>3 DEF TypeOK, db, bus, env
<1>5. TableInv' /\ RowsKept
  BY <1>1, SameTables DEF db
<1>6. MessageInv'
  BY <1>1, SameMessages, KeptMessages DEF bus
<1> QED
  BY <1>2, <1>4, <1>5, <1>6, KeptInvariant

(* It fails to, and the handler stops what there may be                    *)
(* (streamservice.go:41-45).                                               *)
LEMMA OperatorNotCreatedStep ==
    ASSUME IInv, NEW c \in Call, OperatorNotCreated(c)
    PROVE  IInv'
<1> DEFINE r == [call[c] EXCEPT !.pc = "stop_get", !.failing = TRUE]
<1>1. /\ TypeOK /\ CallInv /\ TableInv /\ MessageInv
      /\ call[c].pc = "start_create" /\ call' = [call EXCEPT ![c] = r]
      /\ UNCHANGED <<db, told, bus, env>>
  BY DEF IInv, OperatorNotCreated
<1>2. ingest' \in SUBSET Broadcaster
  BY <1>1 DEF TypeOK, CallInv, OperatorNotCreated
<1>3. call[c] \in Request
  BY <1>1 DEF TypeOK
<1>4. /\ r \in Request /\ r.pc = "stop_get"
      /\ r.b = call[c].b /\ r.id = call[c].id
  BY <1>3 DEF Request, Location
<1> HIDE DEF r
<1>5. call' \in [Call -> Request] /\ RequestsKept
  BY <1>1, <1>4 DEF TypeOK, RequestsKept, Starting, env
<1>6. TypeOK'
  BY <1>1, <1>2, <1>5 DEF TypeOK, db, bus, env
<1>7. TableInv' /\ RowsKept
  BY <1>1, SameTables DEF db
<1>8. MessageInv'
  BY <1>1, SameMessages, KeptMessages DEF bus
<1> QED
  BY <1>5, <1>6, <1>7, <1>8, KeptInvariant

(* A reply that is lost concerns a broadcaster. *)
LEMMA LostReply ==
    ASSUME TypeOK, NEW b \in Broadcaster, ReplyLost(b)
    PROVE  adrift' \in SUBSET Broadcaster
BY DEF TypeOK, ReplyLost

(* The INSERT of the row (active_stream.go:31-67) uses the id of the start *)
(* up, whether its reply arrives or not.                                   *)
LEMMA InsertStep ==
    ASSUME IInv, NEW c \in Call, call[c].pc = "insert", Insert(c),
           UNCHANGED <<ingest, bus, standalone, made, crashes>>,
           adrift' \in SUBSET Broadcaster,
           Reply(c, "started") \/ (Goto(c, "undo") /\ UNCHANGED told)
    PROVE  IInv'
<1> DEFINE b == call[c].b
           row == [id |-> call[c].id, deployed |-> FALSE]
<1>1. /\ TypeOK /\ CallInv /\ IdInv /\ TableInv /\ MessageInv
      /\ ~HasRow(b)
      /\ active_streams' = [active_streams EXCEPT ![b] = row]
      /\ UNCHANGED <<active_stream_egresses, tx>>
  BY DEF IInv, Insert
<1>2. /\ call' \in [Call -> Request]
      /\ told' \in [Broadcaster -> Answer]
      /\ RequestsKept
  <2>1. CASE Reply(c, "started")
    BY <1>1, <2>1, Answered DEF Answer
  <2>2. CASE Goto(c, "undo") /\ UNCHANGED told
    BY <1>1, <2>2, WentOn DEF Starting, Location, TypeOK
  <2> QED
    BY <2>1, <2>2
<1>3. /\ b \in Broadcaster /\ call[c].id \in StreamId /\ call[c].id <= made
      /\ row \in Row /\ row # None /\ row.id = call[c].id /\ ~row.deployed
  <2>1. b \in Broadcaster /\ call[c].id \in 1 .. made
    BY <1>1 DEF CallInv
  <2>2. made \in 0 .. MaxCalls /\ MaxCalls \in Nat
    BY <1>1, StreamServiceAssumption DEF TypeOK
  <2>3. call[c].id \in StreamId /\ call[c].id <= made
    BY <2>1, <2>2 DEF StreamId
  <2>4. row \in Row
    BY <2>3 DEF Row
  <2> QED
    BY <2>1, <2>3, <2>4, NoneAssumption
<1>4. TypeOK'
  BY <1>1, <1>2, <1>3 DEF TypeOK, bus
<1>5. \A a \in Broadcaster :
        active_streams'[a] = IF a = b THEN row ELSE active_streams[a]
  BY <1>1, <1>3 DEF TypeOK
<1>6. \A a \in Broadcaster : HasRow(a) => active_streams[a].id # call[c].id
  BY <1>1 DEF IdInv, Starting
<1>7. CallInv'
  BY <1>1, <1>2 DEF CallInv, RequestsKept
<1>8. call'[c].pc \in {"idle", "undo"} /\ \A d \in Call : d # c => call'[d] = call[d]
  <2>1. call[c] \in Request
    BY <1>1 DEF TypeOK
  <2> QED
    BY <1>1, <2>1 DEF Reply, Goto, TypeOK, Idle, Request
<1> HIDE DEF row
<1>9. IdInv'
  <2>1. (\A a \in Broadcaster : HasRow(a) => active_streams[a].id <= made)'
    BY <1>1, <1>3, <1>5 DEF IdInv, HasRow
  <2>2. (\A a, e \in Broadcaster :
          a # e /\ HasRow(a) /\ HasRow(e) => active_streams[a].id # active_streams[e].id)'
    BY <1>1, <1>3, <1>5, <1>6 DEF IdInv, HasRow
  <2>3. (\A d \in Call, a \in Broadcaster :
          call[d].pc \in Starting /\ HasRow(a) => active_streams[a].id # call[d].id)'
    <3>1. "idle" \notin Starting /\ "undo" \notin Starting /\ "insert" # "idle"
      BY DEF Starting
    <3>2. \A d \in Call : d # c /\ call[d].pc # "idle" => call[d].id # call[c].id
      BY <1>1, <3>1 DEF IdInv
    <3> QED
      BY <1>1, <1>3, <1>5, <1>8, <3>1, <3>2 DEF IdInv, HasRow
  <2>4. (\A d, e \in Call :
          d # e /\ call[d].pc # "idle" /\ call[e].pc # "idle" => call[d].id # call[e].id)'
    BY <1>1, <1>2 DEF IdInv, RequestsKept
  <2> QED
    BY <2>1, <2>2, <2>3, <2>4 DEF IdInv
<1>10. TableInv'
  <2>1. LockedRowStays'
    <3>1. tx # None => tx.b \in Broadcaster
      BY <1>1 DEF TypeOK, Transaction
    <3> QED
      BY <1>1, <1>3, <1>5, <3>1 DEF TableInv, LockedRowStays, HasRow
  <2>2. EgressesHaveStream'
    BY <1>1, <1>3, <1>5 DEF TableInv, EgressesHaveStream, HasRow
  <2>3. ~(active_stream_egresses[call[c].id] > 0)
    BY <1>1, <1>3, <1>6 DEF TableInv, EgressesHaveStream
  <2>4. DeployedWithEgresses'
    BY <1>1, <1>3, <1>5, <2>3 DEF TableInv, DeployedWithEgresses, HasRow
  <2> QED
    BY <2>1, <2>2, <2>4 DEF TableInv
<1>11. MessageInv'
  BY <1>1, SameMessages, KeptMessages DEF bus
<1> QED
  BY <1>4, <1>7, <1>9, <1>10, <1>11 DEF IInv

LEMMA InsertRowStep ==
    ASSUME IInv, NEW c \in Call, InsertRow(c)
    PROVE  IInv'
BY InsertStep DEF InsertRow, IInv, TypeOK, env

(* The row is refused, or the INSERT fails (streamservice.go:52-69), be it *)
(* that only its reply is lost.                                            *)
LEMMA InsertRefusedStep ==
    ASSUME IInv, NEW c \in Call, InsertDuplicate(c) \/ InsertError(c)
    PROVE  IInv'
<1>0. ASSUME InsertError(c), Insert(c), ReplyLost(call[c].b)
      PROVE  IInv'
  <2>1. TypeOK /\ call[c].pc = "insert" /\ call[c].b \in Broadcaster
    BY <1>0 DEF IInv, CallInv, InsertError
  <2>2. adrift' \in SUBSET Broadcaster
    BY <1>0, <2>1, LostReply
  <2> QED
    BY <1>0, <2>1, <2>2, InsertStep DEF InsertError
<1> SUFFICES ASSUME InsertDuplicate(c) \/ (InsertError(c) /\ UNCHANGED <<db, adrift>>)
             PROVE  IInv'
  BY <1>0 DEF InsertError
<1>1. /\ TypeOK /\ TableInv /\ MessageInv
      /\ call[c].pc = "insert"
      /\ Reply(c, "exists") \/ (Goto(c, "undo") /\ UNCHANGED told)
      /\ UNCHANGED <<db, ingest, bus, env>>
  BY DEF IInv, InsertDuplicate, InsertError, env
<1>2. /\ call' \in [Call -> Request]
      /\ told' \in [Broadcaster -> Answer]
      /\ RequestsKept
  <2>1. CASE Reply(c, "exists")
    BY <1>1, <2>1, Answered DEF Answer, env
  <2>2. CASE Goto(c, "undo") /\ UNCHANGED told
    BY <1>1, <2>2, WentOn DEF Starting, Location, TypeOK, env
  <2> QED
    BY <1>1, <2>1, <2>2
<1>3. TypeOK'
  BY <1>1, <1>2 DEF TypeOK, db, bus, env
<1>4. TableInv' /\ RowsKept
  BY <1>1, SameTables DEF db
<1>5. MessageInv'
  BY <1>1, SameMessages, KeptMessages DEF bus
<1> QED
  BY <1>2, <1>3, <1>4, <1>5, KeptInvariant

(* A stop looks the stream up (streamservice.go:74-79). *)
LEMMA StopGetStep ==
    ASSUME IInv, NEW c \in Call, StopGet(c)
    PROVE  IInv'
<1>1. /\ TypeOK /\ TableInv /\ MessageInv
      /\ call[c].pc = "stop_get"
      /\ Reply(c, "not_found") \/ (Goto(c, "stop_delete") /\ UNCHANGED told)
      /\ UNCHANGED <<db, ingest, bus, env>>
  BY DEF IInv, StopGet
<1>2. /\ call' \in [Call -> Request]
      /\ told' \in [Broadcaster -> Answer]
      /\ RequestsKept
  <2>1. CASE Reply(c, "not_found")
    BY <1>1, <2>1, Answered DEF Answer, env
  <2>2. CASE Goto(c, "stop_delete") /\ UNCHANGED told
    BY <1>1, <2>2, WentOn DEF Starting, Location, TypeOK, env
  <2> QED
    BY <1>1, <2>1, <2>2
<1>3. TypeOK'
  BY <1>1, <1>2 DEF TypeOK, db, bus, env
<1>4. TableInv' /\ RowsKept
  BY <1>1, SameTables DEF db
<1>5. MessageInv'
  BY <1>1, SameMessages, KeptMessages DEF bus
<1> QED
  BY <1>2, <1>3, <1>4, <1>5, KeptInvariant

(* A stop deletes the row, fails to, or is told so                         *)
(* (streamservice.go:81-84).                                               *)
LEMMA StopDeleteStep ==
    ASSUME IInv, NEW c \in Call, StopDelete(c)
    PROVE  IInv'
<1> DEFINE b == call[c].b
<1>1. /\ TypeOK /\ CallInv /\ IdInv /\ TableInv /\ MessageInv
      /\ call[c].pc = "stop_delete" /\ b \in Broadcaster
      /\ UNCHANGED <<ingest, deployed, inbox, worker, standalone, made, crashes>>
  BY DEF IInv, CallInv, StopDelete
<1>2. /\ Reply(c, "error") \/ (Goto(c, "stop_server") /\ UNCHANGED told)
      /\ DeleteRow(b) \/ UNCHANGED <<db, destroyed>>
      /\ ReplyLost(b) \/ UNCHANGED adrift
  BY DEF StopDelete
<1>3. /\ call' \in [Call -> Request]
      /\ told' \in [Broadcaster -> Answer]
      /\ RequestsKept
  <2>1. CASE Reply(c, "error")
    BY <1>1, <2>1, Answered DEF Answer
  <2>2. CASE Goto(c, "stop_server") /\ UNCHANGED told
    BY <1>1, <2>2, WentOn DEF Starting, Location, TypeOK
  <2> QED
    BY <1>2, <2>1, <2>2
<1>4. adrift' \in SUBSET Broadcaster
  BY <1>1, <1>2, LostReply DEF TypeOK
<1>5. CASE DeleteRow(b)
  <2>1. /\ active_streams' \in [Broadcaster -> Row \cup {None}]
        /\ active_stream_egresses' \in [StreamId -> Nat]
        /\ RowsKept /\ TableInv'
    BY <1>1, <1>5, DeletedRow
  <2>2. MessagesKept /\ UNCHANGED tx
    BY <1>1, <1>5, ClearedMessages DEF DeleteRow
  <2>3. TypeOK'
    BY <1>1, <1>3, <1>4, <2>1, <2>2 DEF TypeOK, MessagesKept
  <2>4. MessageInv'
    BY <1>1, <2>2, KeptMessages
  <2> QED
    BY <1>3, <2>1, <2>3, <2>4, KeptInvariant
<1>6. CASE UNCHANGED <<db, destroyed>>
  <2>1. TypeOK'
    BY <1>1, <1>3, <1>4, <1>6 DEF TypeOK, db
  <2>2. TableInv' /\ RowsKept
    BY <1>1, <1>6, SameTables DEF db
  <2>3. MessageInv'
    BY <1>1, <1>6, SameMessages, KeptMessages
  <2> QED
    BY <1>3, <2>1, <2>2, <2>3, KeptInvariant
<1> QED
  BY <1>2, <1>5, <1>6

(* The ingest server is stopped, which publishes or not                    *)
(* (streamservice.go:58-98).                                               *)
LEMMA StopServerStep ==
    ASSUME IInv, NEW c \in Call, StopServer(c)
    PROVE  IInv'
<1> DEFINE b == call[c].b
<1>1. /\ TypeOK /\ CallInv /\ TableInv /\ MessageInv
      /\ call[c].pc \in {"undo", "stop_server"}
      /\ UNCHANGED <<db, deployed, inbox, worker, env>>
  BY DEF IInv, StopServer
<1>2. PICK answer \in {"error", "stopped"} : Reply(c, answer)
  BY DEF StopServer
<1>3. b \in Broadcaster
  BY <1>1 DEF CallInv
<1>4. /\ call' \in [Call -> Request]
      /\ told' \in [Broadcaster -> Answer]
      /\ RequestsKept
  BY <1>1, <1>2, Answered DEF Answer, env
<1>5. MessagesKept /\ ingest' \in SUBSET Broadcaster
  <2>1. CASE OperatorStopSystem(b)
    BY <1>1, <1>3, <2>1, StoppedSystem
  <2>2. CASE (PublishDestroyed(b) \/ UNCHANGED destroyed) /\ UNCHANGED ingest
    BY <1>1, <1>3, <2>2, PublishedMessages, SameMessages DEF TypeOK
  <2> QED
    BY <2>1, <2>2 DEF StopServer
<1>6. TypeOK'
  BY <1>1, <1>4, <1>5 DEF TypeOK, db, env, MessagesKept
<1>7. TableInv' /\ RowsKept
  BY <1>1, SameTables DEF db
<1>8. MessageInv'
  BY <1>1, <1>5, KeptMessages
<1> QED
  BY <1>4, <1>6, <1>7, <1>8, KeptInvariant

(* Steps outside the handlers leave the requests alone. *)
LEMMA SameRequests ==
    ASSUME UNCHANGED <<call, made>>
    PROVE  RequestsKept
BY DEF RequestsKept

(* The status worker takes a message and locks the row, if there is one    *)
(* (status_handler.go:26-55), or the message is lost.                      *)
LEMMA StatusUpdateStep ==
    ASSUME IInv, StatusUpdate \/ LoseDeployed
    PROVE  IInv'
<1>1. /\ TypeOK /\ TableInv /\ MessageInv
      /\ deployed # <<>> /\ deployed' = Tail(deployed)
      /\ UNCHANGED <<active_streams, active_stream_egresses, call, told, ingest,
                     destroyed, inbox, worker, env>>
  BY DEF IInv, StatusUpdate, LoseDeployed, db
<1>2. Head(deployed) \in Broadcaster /\ deployed' \in Seq(Broadcaster)
  <2>1. deployed \in Seq(Broadcaster)
    BY <1>1 DEF TypeOK
  <2> QED
    BY <1>1, <2>1, HeadTailProperties
<1>3. \/ tx' = tx
      \/ HasRow(Head(deployed)) /\ tx' = [b |-> Head(deployed), inserted |-> FALSE]
  BY DEF StatusUpdate, LoseDeployed, db
<1>4. tx' \in Transaction \cup {None}
  <2>1. tx \in Transaction \cup {None}
    BY <1>1 DEF TypeOK
  <2>2. [b |-> Head(deployed), inserted |-> FALSE] \in Transaction
    BY <1>2 DEF Transaction
  <2> QED
    BY <1>3, <2>1, <2>2
<1>5. TypeOK'
  BY <1>1, <1>2, <1>4 DEF TypeOK, env
<1>6. TableInv' /\ RowsKept
  BY <1>1, <1>3 DEF TableInv, LockedRowStays, EgressesHaveStream,
                    DeployedWithEgresses, HasRow, RowsKept
<1>7. MessageInv'
  BY <1>1, SameMessages, KeptMessages
<1> QED
  BY <1>1, <1>5, <1>6, <1>7, SameRequests, KeptInvariant DEF env

(* It inserts the egresses in the transaction, or rolls back               *)
(* (status_handler.go:57-70).                                              *)
LEMMA StatusInsertStep ==
    ASSUME IInv, StatusInsert
    PROVE  IInv'
<1>1. /\ TypeOK /\ TableInv /\ MessageInv /\ tx # None
      /\ tx' = [tx EXCEPT !.inserted = TRUE] \/ tx' = None
      /\ UNCHANGED <<active_streams, active_stream_egresses, call, told, ingest,
                     bus, env>>
  BY DEF IInv, StatusInsert
<1>2. tx \in Transaction
  BY <1>1 DEF TypeOK
<1>3. tx' = None \/ (tx' \in Transaction /\ tx'.b = tx.b)
  BY <1>1, <1>2 DEF Transaction
<1>4. TypeOK'
  BY <1>1, <1>3 DEF TypeOK, bus, env
<1>5. TableInv' /\ RowsKept
  BY <1>1, <1>3 DEF TableInv, LockedRowStays, EgressesHaveStream,
                    DeployedWithEgresses, HasRow, RowsKept
<1>6. MessageInv'
  BY <1>1, SameMessages, KeptMessages DEF bus
<1> QED
  BY <1>1, <1>4, <1>5, <1>6, SameRequests, KeptInvariant DEF env

(* The commit (status_handler.go:43-73) marks the row and adds its         *)
(* egresses, which no other row shares.                                    *)
LEMMA StatusCommitStep ==
    ASSUME IInv, StatusCommit
    PROVE  IInv'
<1> DEFINE b == tx.b
           row == [active_streams[b] EXCEPT !.deployed = TRUE]
           i == active_streams[b].id
<1>1. /\ TypeOK /\ IdInv /\ TableInv /\ MessageInv /\ tx # None /\ tx' = None
      /\ UNCHANGED <<call, told, ingest, bus, env>>
  BY DEF IInv, StatusCommit
<1>2. b \in Broadcaster /\ HasRow(b)
  BY <1>1 DEF TypeOK, Transaction, TableInv, LockedRowStays
<1>3. active_streams[b] \in Row /\ i \in StreamId
  BY <1>1, <1>2, RowOf
<1>4. /\ row \in Row /\ row # None
      /\ row.id = i /\ row.deployed
  <2>1. row \in Row /\ row.id = i /\ row.deployed
    BY <1>3 DEF Row
  <2> QED
    BY <2>1, NoneAssumption
<1>5. MessageInv'
  BY <1>1, SameMessages, KeptMessages DEF bus
<1>6. CASE UNCHANGED <<active_streams, active_stream_egresses>>
  <2>1. TypeOK'
    BY <1>1, <1>6 DEF TypeOK, bus, env
  <2>2. TableInv' /\ RowsKept
    BY <1>1, <1>6, SameTables
  <2> QED
    BY <1>1, <1>5, <2>1, <2>2, SameRequests, KeptInvariant DEF env
<1>7. CASE /\ active_streams' = [active_streams EXCEPT ![b].deployed = TRUE]
           /\ active_stream_egresses' = [active_stream_egresses EXCEPT ![i] = @ + 1]
  <2>1. /\ active_streams' = [active_streams EXCEPT ![b] = row]
        /\ \A a \in Broadcaster :
            active_streams'[a] = IF a = b THEN row ELSE active_streams[a]
    BY <1>1, <1>7 DEF TypeOK
  <2>2. /\ active_stream_egresses' \in [StreamId -> Nat]
        /\ active_stream_egresses[i] \in Nat
        /\ \A j \in StreamId :
            active_stream_egresses'[j] =
                IF j = i THEN active_stream_egresses[i] + 1 ELSE active_stream_egresses[j]
    BY <1>1, <1>3, <1>7 DEF TypeOK
  <2> HIDE DEF row
  <2>3. TypeOK'
    BY <1>1, <1>4, <2>1, <2>2 DEF TypeOK, bus, env
  <2>4. RowsKept
    BY <1>2, <1>4, <2>1 DEF RowsKept, HasRow
  <2>5. EgressesHaveStream'
    <3>1. SUFFICES ASSUME NEW j \in StreamId, active_stream_egresses'[j] > 0
                   PROVE  \E a \in Broadcaster : HasRow(a)' /\ active_streams'[a].id = j
      BY DEF EgressesHaveStream
    <3>2. CASE j = i
      BY <1>2, <1>4, <2>1, <3>2 DEF HasRow
    <3>3. CASE j # i
      <4>1. active_stream_egresses[j] > 0
        BY <2>2, <3>1, <3>3
      <4>2. PICK a \in Broadcaster : HasRow(a) /\ active_streams[a].id = j
        BY <1>1, <4>1 DEF TableInv, EgressesHaveStream
      <4> QED
        BY <2>1, <3>3, <4>2 DEF HasRow
    <3> QED
      BY <3>2, <3>3
  <2>6. DeployedWithEgresses'
    <3>1. SUFFICES ASSUME NEW a \in Broadcaster, HasRow(a)'
                   PROVE  active_streams'[a].deployed
                            <=> active_stream_egresses'[active_streams'[a].id] > 0
      BY DEF DeployedWithEgresses
    <3>2. CASE a = b
      BY <1>3, <1>4, <2>1, <2>2, <3>2
    <3>3. CASE a # b
      <4>1. HasRow(a) /\ active_streams'[a] = active_streams[a]
        BY <2>1, <3>1, <3>3 DEF HasRow
      <4>2. active_streams[a].id \in StreamId /\ active_streams[a].id # i
        BY <1>1, <1>2, <3>3, <4>1, RowOf DEF IdInv
      <4> QED
        BY <1>1, <2>2, <4>1, <4>2 DEF TableInv, DeployedWithEgresses
    <3> QED
      BY <3>2, <3>3
  <2>7. TableInv'
    BY <1>1, <2>5, <2>6 DEF TableInv, LockedRowStays
  <2> QED
    BY <1>1, <1>5, <2>3, <2>4, <2>7, SameRequests, KeptInvariant DEF env
<1> QED
  BY <1>6, <1>7 DEF StatusCommit

(* The JetStream server delivers a message and counts it. *)
LEMMA DeliverStep ==
    ASSUME IInv, NEW m \in DOMAIN destroyed, Deliver(m)
    PROVE  IInv'
<1> DEFINE n == Least(destroyed[m].delivered + 1, Retry + 1)
           e == [destroyed[m] EXCEPT !.delivered = n]
           d == [msg |-> m, delivered |-> n]
<1>1. /\ TypeOK /\ TableInv /\ MessageInv
      /\ destroyed' = [destroyed EXCEPT ![m] = e]
      /\ inbox' = Append(inbox, d)
      /\ UNCHANGED <<db, call, told, ingest, deployed, worker, env>>
  BY DEF IInv, Deliver
<1>2. /\ destroyed[m] \in Message /\ m \in Nat
      /\ destroyed \in Seq(Message) /\ m \in 1 .. Len(destroyed)
      /\ inbox \in Seq(Delivery)
  BY <1>1, MessageAt DEF TypeOK
<1>3. /\ n \in 1 .. Retry + 1
      /\ destroyed[m].delivered <= n
  BY <1>2, StreamServiceAssumption DEF Message, Least
<1>4. d \in Delivery /\ d.msg = m /\ d.delivered = n
  BY <1>2, <1>3 DEF Delivery
<1> HIDE DEF n
<1>5. /\ e \in Message /\ e.delivered = n
      /\ e.cleared = destroyed[m].cleared /\ e.acked = destroyed[m].acked
  <2>1. n \in 0 .. Retry + 1
    BY <1>3, StreamServiceAssumption
  <2> QED
    BY <1>2, <2>1 DEF Message
<1> HIDE DEF e, d
<1>6. /\ destroyed' \in Seq(Message)
      /\ DOMAIN destroyed' = DOMAIN destroyed
      /\ \A k \in DOMAIN destroyed :
            destroyed'[k] = IF k = m THEN e ELSE destroyed[k]
  BY <1>1, <1>2, <1>5, ExceptSeq
<1>7. MessagesKept
  <2>1. \A k \in DOMAIN destroyed : destroyed[k].delivered \in Nat
    BY <1>1, MessageAt DEF Message
  <2> QED
    BY <1>3, <1>5, <1>6, <2>1 DEF MessagesKept
<1>8. /\ inbox' \in Seq(Delivery)
      /\ \A i \in DOMAIN inbox' : inbox'[i] = d \/ (i \in DOMAIN inbox /\ inbox'[i] = inbox[i])
  <2>1. /\ inbox' \in Seq(Delivery) /\ Len(inbox') = Len(inbox) + 1
        /\ \A i \in 1 .. Len(inbox) : inbox'[i] = inbox[i]
        /\ inbox'[Len(inbox) + 1] = d
    BY <1>1, <1>2, <1>4, AppendProperties
  <2>2. /\ Len(inbox) \in Nat /\ DOMAIN inbox = 1 .. Len(inbox)
        /\ DOMAIN inbox' = 1 .. Len(inbox) + 1
    BY <1>2, <2>1, LenProperties
  <2> QED
    BY <2>1, <2>2
<1>9. TypeOK'
  BY <1>1, <1>6, <1>8 DEF TypeOK, db, env
<1>10. TableInv' /\ RowsKept
  BY <1>1, SameTables DEF db
<1>11. InboxInv'
  <2>1. SUFFICES ASSUME NEW i \in DOMAIN inbox'
                 PROVE  /\ inbox'[i].msg \in DOMAIN destroyed'
                        /\ inbox'[i].delivered <= destroyed'[inbox'[i].msg].delivered
    BY DEF InboxInv
  <2>2. CASE inbox'[i] = d
    BY <1>3, <1>4, <1>5, <1>6, <2>2, StreamServiceAssumption
  <2>3. CASE i \in DOMAIN inbox /\ inbox'[i] = inbox[i]
    <3> DEFINE k == inbox[i].msg
    <3>1. k \in DOMAIN destroyed /\ inbox[i].delivered <= destroyed[k].delivered
      BY <1>1, <2>3 DEF MessageInv, InboxInv
    <3>2. k \in DOMAIN destroyed' /\ destroyed[k].delivered <= destroyed'[k].delivered
      BY <1>7, <3>1 DEF MessagesKept
    <3>3. destroyed[k].delivered \in Nat /\ destroyed'[k].delivered \in Nat
      BY <1>1, <1>5, <1>6, <3>1, MessageAt DEF Message
    <3>4. inbox[i].delivered \in Nat
      <4>1. inbox[i] \in Delivery
        BY <1>2, <2>3, LenProperties, ElementOfSeq
      <4> QED
        BY <4>1, StreamServiceAssumption DEF Delivery
    <3> HIDE DEF k
    <3>5. inbox[i].delivered <= destroyed'[k].delivered
      BY <3>1, <3>2, <3>3, <3>4
    <3> QED
      BY <2>3, <3>2, <3>5 DEF k
  <2> QED
    BY <1>8, <2>2, <2>3
<1>12. WorkerInv'
  BY <1>1, <1>5, <1>6 DEF MessageInv, WorkerInv
<1>13. AckedWhenCleared'
  BY <1>1, <1>7, KeptAcks DEF MessageInv
<1> QED
  BY <1>1, <1>9, <1>10, <1>11, <1>12, <1>13, SameRequests, KeptInvariant
  DEF MessageInv, env

(* The first delivery in the buffer, and those that wait behind it. *)
LEMMA TakenDelivery ==
    ASSUME TypeOK, InboxInv, inbox # <<>>, inbox' = Tail(inbox)
    PROVE  /\ Head(inbox) \in Delivery
           /\ Head(inbox).msg \in DOMAIN destroyed
           /\ Head(inbox).delivered <= destroyed[Head(inbox).msg].delivered
           /\ inbox' \in Seq(Delivery)
           /\ \A i \in DOMAIN inbox' :
                i + 1 \in DOMAIN inbox /\ inbox'[i] = inbox[i + 1]
<1>1. inbox \in Seq(Delivery)
  BY DEF TypeOK
<1>2. /\ Head(inbox) \in Delivery
      /\ inbox' \in Seq(Delivery) /\ Len(inbox') = Len(inbox) - 1
      /\ \A i \in 1 .. Len(inbox') : inbox'[i] = inbox[i + 1]
  BY <1>1, HeadTailProperties
<1>3. /\ Len(inbox) \in Nat \ {0} /\ DOMAIN inbox = 1 .. Len(inbox)
      /\ DOMAIN inbox' = 1 .. Len(inbox')
  BY <1>1, <1>2, LenProperties, EmptySeq
<1>4. Head(inbox) = inbox[1] /\ 1 \in DOMAIN inbox
  BY <1>1, <1>3
<1>5. \A i \in DOMAIN inbox' : i + 1 \in DOMAIN inbox
  BY <1>2, <1>3
<1> QED
  BY <1>2, <1>3, <1>4, <1>5 DEF InboxInv

(* The destroyed worker takes a delivery (destroyed_handler.go:23-50), and *)
(* gives up on a message only after Retry deliveries.                      *)
LEMMA DestroyedBeginStep ==
    ASSUME IInv, DestroyedBegin
    PROVE  IInv'
<1> DEFINE d == Head(inbox)
<1>1. /\ TypeOK /\ TableInv /\ MessageInv /\ InboxInv
      /\ worker = None /\ inbox # <<>> /\ inbox' = Tail(inbox)
      /\ UNCHANGED <<db, call, told, ingest, deployed, env>>
  BY DEF IInv, MessageInv, DestroyedBegin
<1>2. /\ d \in Delivery /\ d.msg \in DOMAIN destroyed
      /\ d.delivered <= destroyed[d.msg].delivered
      /\ inbox' \in Seq(Delivery)
      /\ \A i \in DOMAIN inbox' :
            i + 1 \in DOMAIN inbox /\ inbox'[i] = inbox[i + 1]
  BY <1>1, TakenDelivery
<1>3. \/ d.delivered > Retry /\ Ack(d.msg) /\ worker' = None
      \/ worker' = [msg |-> d.msg, deleted |-> FALSE] /\ UNCHANGED destroyed
  BY <1>1 DEF DestroyedBegin
<1>4. /\ destroyed' \in Seq(Message) /\ DOMAIN destroyed' = DOMAIN destroyed
      /\ \A k \in DOMAIN destroyed :
            /\ destroyed'[k].delivered = destroyed[k].delivered
            /\ destroyed'[k].cleared = destroyed[k].cleared
            /\ destroyed'[k].acked => destroyed[k].acked
                    \/ (k = d.msg /\ d.delivered > Retry)
  <2>1. CASE d.delivered > Retry /\ Ack(d.msg)
    BY <1>1, <1>2, <2>1, AckedMessage
  <2>2. CASE UNCHANGED destroyed
    BY <1>1, <2>2 DEF TypeOK
  <2> QED
    BY <1>3, <2>1, <2>2
<1>5. TypeOK'
  <2>1. d.msg \in Nat
    BY <1>2 DEF Delivery
  <2>2. [msg |-> d.msg, deleted |-> FALSE] \in Work
    BY <2>1 DEF Work
  <2>3. worker' \in Work \cup {None}
    BY <1>3, <2>2
  <2> QED
    BY <1>1, <1>2, <1>4, <2>3 DEF TypeOK, db, env
<1>6. TableInv' /\ RowsKept
  BY <1>1, SameTables DEF db
<1>7. InboxInv'
  BY <1>1, <1>2, <1>4 DEF InboxInv
<1>8. WorkerInv'
  BY <1>2, <1>3, <1>4 DEF WorkerInv
<1>9. AckedWhenCleared'
  <2>1. SUFFICES ASSUME NEW k \in DOMAIN destroyed, destroyed'[k].acked
                 PROVE  destroyed'[k].cleared \/ destroyed'[k].delivered > Retry
    BY <1>4 DEF AckedWhenCleared
  <2>2. CASE destroyed[k].acked
    BY <1>1, <1>4, <2>2 DEF MessageInv, AckedWhenCleared
  <2>3. CASE k = d.msg /\ d.delivered > Retry
    <3>1. d.delivered \in Nat
      BY <1>2 DEF Delivery
    <3>2. destroyed[k].delivered \in Nat
      BY <1>1, MessageAt DEF Message
    <3> QED
      BY <1>2, <1>4, <2>3, <3>1, <3>2, StreamServiceAssumption
  <2> QED
    BY <1>4, <2>1, <2>2, <2>3
<1> QED
  BY <1>1, <1>5, <1>6, <1>7, <1>8, <1>9, SameRequests, KeptInvariant
  DEF MessageInv, env

(* It deletes the row, or naks (destroyed_handler.go:52-56). *)
LEMMA DestroyedDeleteStep ==
    ASSUME IInv, DestroyedDelete
    PROVE  IInv'
<1> DEFINE b == destroyed[worker.msg].b
<1>1. /\ TypeOK /\ IdInv /\ TableInv /\ MessageInv
      /\ worker # None /\ ~worker.deleted
      /\ UNCHANGED <<call, told, ingest, deployed, inbox, env>>
  BY DEF IInv, DestroyedDelete
<1>2. worker \in Work /\ worker.msg \in DOMAIN destroyed /\ b \in Broadcaster
  <2>1. worker \in Work /\ worker.msg \in DOMAIN destroyed
    BY <1>1 DEF TypeOK, MessageInv, WorkerInv
  <2>2. destroyed[worker.msg] \in Message
    BY <1>1, <2>1, MessageAt
  <2> QED
    BY <2>1, <2>2 DEF Message
<1>3. CASE DeleteRow(b) /\ worker' \in {None, [worker EXCEPT !.deleted = TRUE]}
  <2>1. /\ active_streams' \in [Broadcaster -> Row \cup {None}]
        /\ active_stream_egresses' \in [StreamId -> Nat]
        /\ RowsKept /\ TableInv'
    BY <1>1, <1>2, <1>3, DeletedRow
  <2>2. /\ MessagesKept /\ DOMAIN destroyed' = DOMAIN destroyed
        /\ destroyed'[worker.msg].cleared /\ UNCHANGED tx
    BY <1>1, <1>2, <1>3, ClearedMessages DEF DeleteRow
  <2>3. worker' = None \/ (worker' \in Work /\ worker'.msg = worker.msg)
    BY <1>2, <1>3 DEF Work
  <2>4. TypeOK'
    BY <1>1, <2>1, <2>2, <2>3 DEF TypeOK, env, MessagesKept
  <2>5. InboxInv' /\ AckedWhenCleared'
    BY <1>1, <2>2, KeptInbox, KeptAcks DEF MessageInv
  <2>6. WorkerInv'
    BY <1>2, <2>2, <2>3 DEF WorkerInv
  <2> QED
    BY <1>1, <2>1, <2>4, <2>5, <2>6, SameRequests, KeptInvariant DEF MessageInv, env
<1>4. CASE worker' = None /\ UNCHANGED <<db, destroyed>>
  <2>1. TypeOK'
    BY <1>1, <1>4 DEF TypeOK, db, env
  <2>2. TableInv' /\ RowsKept
    BY <1>1, <1>4, SameTables DEF db
  <2>3. MessageInv'
    BY <1>1, <1>4 DEF MessageInv, InboxInv, WorkerInv, AckedWhenCleared
  <2> QED
    BY <1>1, <2>1, <2>2, <2>3, SameRequests, KeptInvariant DEF env
<1> QED
  BY <1>3, <1>4 DEF DestroyedDelete

(* It notifies and acknowledges a message whose row it has deleted         *)
(* (destroyed_handler.go:58-64).                                           *)
LEMMA DestroyedNotifyStep ==
    ASSUME IInv, DestroyedNotify
    PROVE  IInv'
<1>1. /\ TypeOK /\ TableInv /\ MessageInv
      /\ worker # None /\ worker.deleted /\ worker' = None
      /\ UNCHANGED <<db, call, told, ingest, deployed, inbox, env>>
  BY DEF IInv, DestroyedNotify
<1>2. worker.msg \in DOMAIN destroyed /\ destroyed[worker.msg].cleared
  BY <1>1 DEF MessageInv, WorkerInv
<1>3. /\ destroyed' \in Seq(Message) /\ DOMAIN destroyed' = DOMAIN destroyed
      /\ \A k \in DOMAIN destroyed :
            /\ destroyed'[k].delivered = destroyed[k].delivered
            /\ destroyed'[k].cleared = destroyed[k].cleared
            /\ destroyed'[k].acked => destroyed[k].acked \/ k = worker.msg
  <2>1. CASE Ack(worker.msg)
    BY <1>1, <1>2, <2>1, AckedMessage
  <2>2. CASE UNCHANGED destroyed
    BY <1>1, <2>2 DEF TypeOK
  <2> QED
    BY <2>1, <2>2 DEF DestroyedNotify
<1>4. TypeOK'
  BY <1>1, <1>3 DEF TypeOK, db, env
<1>5. TableInv' /\ RowsKept
  BY <1>1, SameTables DEF db
<1>6. MessageInv'
  BY <1>1, <1>2, <1>3 DEF MessageInv, InboxInv, WorkerInv, AckedWhenCleared
<1> QED
  BY <1>1, <1>4, <1>5, <1>6, SameRequests, KeptInvariant DEF env

(* A restart forgets what is in memory and keeps the rest. *)
LEMMA RestartStep ==
    ASSUME IInv, Restart
    PROVE  IInv'
<1>1. /\ TypeOK /\ TableInv /\ MessageInv
      /\ crashes < MaxCrashes /\ crashes' = crashes + 1
      /\ call' = [c \in Call |-> Idle]
      /\ tx' = None /\ deployed' = <<>> /\ inbox' = <<>> /\ worker' = None
      /\ UNCHANGED <<active_streams, active_stream_egresses, told, ingest,
                     destroyed, standalone, adrift, made>>
  BY DEF IInv, Restart
<1>2. Idle \in Request /\ Idle.pc = "idle"
  BY StreamServiceAssumption DEF Idle, Request, Location
<1>3. call' \in [Call -> Request] /\ RequestsKept
  BY <1>1, <1>2 DEF RequestsKept
<1>4. crashes' \in 0 .. MaxCrashes
  BY <1>1, StreamServiceAssumption DEF TypeOK
<1>5. deployed' \in Seq(Broadcaster) /\ inbox' \in Seq(Delivery) /\ DOMAIN inbox' = {}
  BY <1>1
<1>6. TypeOK'
  BY <1>1, <1>3, <1>4, <1>5 DEF TypeOK
<1>7. TableInv' /\ RowsKept
  BY <1>1, SameTables
<1>8. MessageInv'
  BY <1>1, <1>5 DEF MessageInv, InboxInv, WorkerInv, AckedWhenCleared
<1> QED
  BY <1>3, <1>6, <1>7, <1>8, KeptInvariant

------------------------------------------------------------------------------
(* The invariant holds at the start (main.go:206-241). *)
LEMMA InitInvariant ==
    ASSUME Init
    PROVE  IInv
<1>1. /\ Idle \in Request /\ Idle.pc = "idle"
      /\ MaxCalls \in Nat /\ MaxCrashes \in Nat
  BY StreamServiceAssumption DEF Idle, Request, Location
<1>2. /\ destroyed \in Seq(Message) /\ inbox \in Seq(Delivery) /\ deployed \in Seq(Broadcaster)
      /\ DOMAIN inbox = {} /\ DOMAIN destroyed = {}
  BY DEF Init
<1>3. TypeOK
  BY <1>1, <1>2 DEF Init, TypeOK, Answer
<1>4. CallInv /\ IdInv
  BY <1>1 DEF Init, CallInv, IdInv, HasRow, Starting
<1>5. TableInv
  BY DEF Init, TableInv, LockedRowStays, EgressesHaveStream, DeployedWithEgresses, HasRow
<1>6. MessageInv
  BY <1>2 DEF Init, MessageInv, InboxInv, WorkerInv, AckedWhenCleared
<1> QED
  BY <1>3, <1>4, <1>5, <1>6 DEF IInv

(* Every step of a handler, a worker, NATS or a restart preserves the      *)
(* invariant.                                                              *)
LEMMA NextInvariant ==
    ASSUME IInv, [Next]_vars
    PROVE  IInv'
<1>1. ASSUME NEW c \in Call, NEW b \in Broadcaster, StreamStart(c, b) \/ StreamStop(c, b)
      PROVE  IInv'
  BY <1>1, ArriveStep DEF StreamStart, StreamStop
<1>2. ASSUME NEW c \in Call, HandlerStep(c)
      PROVE  IInv'
  BY <1>2, StandaloneStartServerStep, OperatorStartServerStep, OperatorCreatedStep,
     OperatorNotCreatedStep, InsertRowStep, InsertRefusedStep, StopGetStep,
     StopDeleteStep, StopServerStep
  DEF HandlerStep, HandlerGoesOn
<1>3. CASE LoseDeployed \/ StatusStep
  BY <1>3, StatusUpdateStep, StatusInsertStep, StatusCommitStep DEF StatusStep
<1>4. ASSUME NEW m \in DOMAIN destroyed, Deliver(m)
      PROVE  IInv'
  BY <1>4, DeliverStep
<1>5. CASE DestroyedStep
  BY <1>5, DestroyedBeginStep, DestroyedDeleteStep, DestroyedNotifyStep DEF DestroyedStep
<1>6. CASE Restart
  BY <1>6, RestartStep
<1>7. CASE UNCHANGED vars
  BY <1>7 DEF vars, db, bus, env, IInv, TypeOK, CallInv, IdInv, TableInv,
     LockedRowStays, EgressesHaveStream, DeployedWithEgresses, HasRow,
     MessageInv, InboxInv, WorkerInv, AckedWhenCleared
<1> QED
  BY <1>1, <1>2, <1>3, <1>4, <1>5, <1>6, <1>7 DEF Next

(* The inductive invariant of the stream service.                          *)
THEOREM Invariance == Spec => []IInv
<1>1. Init => IInv
  BY InitInvariant
<1>2. IInv /\ [Next]_vars => IInv'
  BY NextInvariant
<1> QED
  BY <1>1, <1>2, PTL DEF Spec

(* Every variable of the stream service keeps its type.                    *)
THEOREM TypeCorrect == Spec => []TypeOK
<1>1. IInv => TypeOK
  BY DEF IInv
<1> QED
  BY <1>1, Invariance, PTL

(* An egress never outlives its stream, whatever fails and however         *)
(* handlers, workers and restarts interleave (status_handler.go:50-71,     *)
(* active_stream.go:69-75).                                                *)
THEOREM EgressesOfStreams == Spec => []EgressesHaveStream
<1>1. IInv => EgressesHaveStream
  BY DEF IInv, TableInv
<1> QED
  BY <1>1, Invariance, PTL

(* A stream is marked deployed exactly when it has egresses                *)
(* (status_handler.go:43-71).                                              *)
THEOREM DeployedAndEgresses == Spec => []DeployedWithEgresses
<1>1. IInv => DeployedWithEgresses
  BY DEF IInv, TableInv
<1> QED
  BY <1>1, Invariance, PTL

(* The row that the status worker's transaction has updated is there until *)
(* it ends (status_handler.go:50, active_stream.go:69-75).                 *)
THEOREM LockedRows == Spec => []LockedRowStays
<1>1. IInv => LockedRowStays
  BY DEF IInv, TableInv
<1> QED
  BY <1>1, Invariance, PTL

(* The message of a destroyed ingest is acknowledged only once its         *)
(* broadcaster's row has been seen gone, or after more than Retry          *)
(* deliveries (destroyed_handler.go:33-63).                                *)
THEOREM DestroyedNotForgotten == Spec => []AckedWhenCleared
<1>1. IInv => AckedWhenCleared
  BY DEF IInv, MessageInv
<1> QED
  BY <1>1, Invariance, PTL

------------------------------------------------------------------------------
(* Users who follow the status of their stream, as long as the controller  *)
(* does not fail: the requests of a broadcaster come one after another,    *)
(* and each finds what the one before it left. A restart, or a statement   *)
(* whose reply is lost, may leave an ingest server without its stream, so  *)
(* in operator mode this holds until the first one.                        *)

(* A message about b is stored, and not done with: it is not acknowledged, *)
(* or the client still has a delivery of it.                               *)
Pending(b) ==
    \E m \in DOMAIN destroyed :
        destroyed[m].b = b /\ (~destroyed[m].acked \/ AtClient(m))

Serves(c, b) == call[c].pc # "idle" /\ call[c].b = b

(* The reply of no statement about b was lost that the operator's ingest   *)
(* servers depend on.                                                      *)
Sound(b) == standalone \/ b \notin adrift

(* Nothing serves b: what was told is so, a stream has its ingest, and the *)
(* message of an ingest that ended finds no row, but that of a start which *)
(* failed although it had inserted one.                                    *)
AtRest(b) ==
    /\ Pending(b) /\ HasRow(b) => standalone /\ told[b] = "error"
    /\ told[b] = "started" => HasRow(b)
    /\ told[b] = "stopped" => ~HasRow(b)
    /\ ~standalone => (b \in ingest <=> HasRow(b))

(* Request c serves b, and how far it is tells whether there is a row and  *)
(* an ingest.                                                              *)
WithRow == {"stop_get", "stop_delete"}
WithIngest == WithRow \cup {"insert", "undo", "stop_server"}

InHand(c, b) ==
    /\ Serves(c, b)
    /\ call[c].failing = FALSE
    /\ ~Pending(b)
    /\ told[b] = "none"
    /\ \/ HasRow(b) <=> call[c].pc \in WithRow
       \/ standalone /\ call[c].pc = "undo"
    /\ call[c].pc = "start_create" => ~standalone
    /\ ~standalone => (b \in ingest <=> call[c].pc \in WithIngest)

StreamOk(b) ==
    \/ AtRest(b) /\ \A c \in Call : ~Serves(c, b)
    \/ \E c \in Call : InHand(c, b) /\ \A d \in Call : Serves(d, b) => d = c

StreamsOk == \A b \in Broadcaster : Sound(b) => StreamOk(b)

FollowInv == standalone \/ crashes = 0 => StreamsOk

(* The messages about a broadcaster, through a step.                       *)
PendingKept(b) == Pending(b)' => Pending(b)

LEMMA SamePending ==
    ASSUME UNCHANGED <<destroyed, inbox, worker>>, NEW b
    PROVE  Pending(b)' <=> Pending(b)
BY DEF Pending, AtClient

LEMMA PublishedPending ==
    ASSUME TypeOK, NEW b \in Broadcaster, PublishDestroyed(b), UNCHANGED <<inbox, worker>>
    PROVE  \A a \in Broadcaster \ {b} : PendingKept(a)
<1> DEFINE e == [b |-> b, delivered |-> 0, acked |-> FALSE, cleared |-> ~HasRow(b)]
<1>1. e \in Message /\ e.b = b
  BY StreamServiceAssumption DEF Message, HasRow
<1>2. destroyed \in Seq(Message) /\ destroyed' = Append(destroyed, e)
  BY DEF TypeOK, PublishDestroyed
<1> HIDE DEF e
<1>3. \A m \in DOMAIN destroyed' :
        \/ destroyed'[m].b = b
        \/ m \in DOMAIN destroyed /\ destroyed'[m] = destroyed[m]
  BY <1>1, <1>2, AppendProperties, LenProperties
<1> QED
  BY <1>3 DEF PendingKept, Pending, AtClient

LEMMA ClearedPending ==
    ASSUME TypeOK, NEW b \in Broadcaster, ClearedBy(b), UNCHANGED inbox,
           \/ worker' = worker
           \/ worker' = None
           \/ worker # None /\ worker'.msg = worker.msg
    PROVE  \A a \in Broadcaster : PendingKept(a)
<1>1. \A m \in DOMAIN destroyed : destroyed[m] \in Message
  BY MessageAt
<1>2. /\ DOMAIN destroyed' = DOMAIN destroyed
      /\ \A m \in DOMAIN destroyed :
            destroyed'[m].b = destroyed[m].b /\ destroyed'[m].acked = destroyed[m].acked
  BY <1>1 DEF ClearedBy, Message
<1>3. \A m : AtClient(m)' => AtClient(m)
  BY DEF AtClient
<1> QED
  BY <1>2, <1>3 DEF PendingKept, Pending

(* A request that goes on, and one that is answered.                       *)
LEMMA GoesOn ==
    ASSUME TypeOK, NEW c \in Call, NEW pc \in Location, Goto(c, pc)
    PROVE  /\ \A d \in Call \ {c} : call'[d] = call[d]
           /\ call'[c].pc = pc
           /\ call'[c].b = call[c].b
           /\ call'[c].failing = call[c].failing
<1>1. call[c] \in Request
  BY DEF TypeOK
<1> QED
  BY <1>1 DEF TypeOK, Goto, Request

LEMMA IsAnswered ==
    ASSUME TypeOK, NEW c \in Call, NEW answer, Reply(c, answer),
           call[c].b \in Broadcaster, call[c].failing = FALSE
    PROVE  /\ \A d \in Call \ {c} : call'[d] = call[d]
           /\ call'[c].pc = "idle"
           /\ told'[call[c].b] = answer
           /\ \A a \in Broadcaster \ {call[c].b} : told'[a] = told[a]
BY DEF TypeOK, Reply, Idle

(* What a step leaves alone stays right.                                   *)
LEMMA Elsewhere ==
    ASSUME NEW b \in Broadcaster, StreamOk(b), standalone' = standalone,
           \A c \in Call : Serves(c, b) \/ Serves(c, b)' => call'[c] = call[c],
           told'[b] = told[b], HasRow(b)' <=> HasRow(b), b \in ingest' <=> b \in ingest,
           PendingKept(b)
    PROVE  StreamOk(b)'
<1>1. \A c \in Call : Serves(c, b)' <=> Serves(c, b)
  BY DEF Serves
<1>2. CASE AtRest(b) /\ \A c \in Call : ~Serves(c, b)
  <2>1. AtRest(b)'
    BY <1>2 DEF AtRest, PendingKept
  <2> QED
    BY <1>1, <1>2, <2>1 DEF StreamOk
<1>3. ASSUME NEW c \in Call, InHand(c, b), \A d \in Call : Serves(d, b) => d = c
      PROVE  StreamOk(b)'
  <2>1. call'[c] = call[c] /\ Serves(c, b)'
    BY <1>1, <1>3 DEF InHand
  <2>2. InHand(c, b)'
    BY <1>3, <2>1 DEF InHand, PendingKept
  <2> QED
    BY <1>1, <1>3, <2>2 DEF StreamOk
<1> QED
  BY <1>2, <1>3 DEF StreamOk

(* So does everything in a step of a worker or of the JetStream server.    *)
LEMMA WorkersKeep ==
    ASSUME StreamsOk, UNCHANGED <<standalone, adrift, call, told, ingest>>,
           \A b \in Broadcaster : (HasRow(b)' <=> HasRow(b)) /\ PendingKept(b)
    PROVE  StreamsOk'
BY Elsewhere DEF StreamsOk, Sound

(* The request that serves b has it in hand.                               *)
LEMMA HasInHand ==
    ASSUME StreamsOk, NEW c \in Call, NEW b \in Broadcaster, Serves(c, b), Sound(b)
    PROVE  InHand(c, b) /\ \A d \in Call : Serves(d, b) => d = c
BY DEF StreamsOk, StreamOk

(* A step of a request is a step of the stream of its broadcaster only.    *)
LEMMA HandlerKeeps ==
    ASSUME StreamsOk, standalone' = standalone, adrift \subseteq adrift',
           NEW c \in Call, NEW b \in Broadcaster,
           call[c].pc # "idle" => call[c].b = b,
           call'[c].pc # "idle" => call'[c].b = b,
           \A d \in Call \ {c} : call'[d] = call[d],
           \A a \in Broadcaster \ {b} :
                /\ told'[a] = told[a] /\ (HasRow(a)' <=> HasRow(a)) /\ PendingKept(a)
                /\ a \in ingest' <=> a \in ingest,
           Sound(b)' =>
                /\ \A d \in Call \ {c} : ~Serves(d, b)
                /\ InHand(c, b)' \/ (call'[c].pc = "idle" /\ AtRest(b)')
    PROVE  StreamsOk'
<1>1. \A a \in Broadcaster \ {b} : Sound(a)' => StreamOk(a)'
  <2>1. \A a \in Broadcaster \ {b} : ~Serves(c, a) /\ ~Serves(c, a)'
    BY DEF Serves
  <2>2. \A a \in Broadcaster : Sound(a)' => Sound(a)
    BY DEF Sound
  <2> QED
    BY <2>1, <2>2, Elsewhere DEF StreamsOk
<1>2. (\A d \in Call \ {c} : ~Serves(d, b)) => \A d \in Call \ {c} : ~Serves(d, b)'
  BY DEF Serves
<1>3. ASSUME Sound(b)', InHand(c, b)'
      PROVE  StreamOk(b)'
  BY <1>2, <1>3 DEF StreamOk
<1>4. ASSUME Sound(b)', call'[c].pc = "idle", AtRest(b)'
      PROVE  StreamOk(b)'
  BY <1>2, <1>4 DEF StreamOk, Serves
<1> QED
  BY <1>1, <1>3, <1>4 DEF StreamsOk

(* A handler's step, seen from outside its request. *)
LEMMA HandlerFrame ==
    ASSUME IInv, NEW c \in Call, HandlerStep(c)
    PROVE  /\ call[c].pc # "idle" /\ call[c].b \in Broadcaster
           /\ UNCHANGED <<standalone, tx, inbox, worker, made, crashes>>
           /\ adrift \subseteq adrift'
           /\ \A d \in Call \ {c} : call'[d] = call[d]
           /\ call'[c].pc # "idle" => call'[c].b = call[c].b
           /\ \A a \in Broadcaster \ {call[c].b} :
                /\ active_streams'[a] = active_streams[a] /\ PendingKept(a)
                /\ told'[a] = told[a] /\ (a \in ingest' <=> a \in ingest)
           /\ \/ destroyed' = destroyed
              \/ PublishDestroyed(call[c].b)
              \/ ClearedBy(call[c].b)
<1> USE DEF HandlerStep, HandlerGoesOn
<1>1. TypeOK /\ call[c] \in Request /\ call[c].pc # "idle" /\ call[c].b \in Broadcaster
  BY DEF IInv, TypeOK, CallInv, StandaloneStartServer, OperatorStartServer, OperatorCreated,
     OperatorNotCreated, InsertRow, InsertDuplicate, InsertError, StopGet, StopDelete, StopServer
<1>2. UNCHANGED <<standalone, tx, inbox, worker, made, crashes>>
  BY DEF StandaloneStartServer, OperatorStartServer, OperatorCreated, OperatorNotCreated,
     InsertRow, Insert, InsertDuplicate, InsertError, StopGet, StopDelete, StopServer,
     DeleteRow, db, bus, env
<1>3. adrift \subseteq adrift'
  BY DEF StandaloneStartServer, OperatorStartServer, OperatorCreated, OperatorNotCreated,
     InsertRow, InsertDuplicate, InsertError, StopGet, StopDelete, StopServer, ReplyLost, env
<1>4. /\ \A d \in Call \ {c} : call'[d] = call[d]
      /\ call'[c].pc # "idle" => call'[c].b = call[c].b
  <2>1. \/ call' = [call EXCEPT ![c] = Idle]
        \/ \E pc \in Location : call' = [call EXCEPT ![c].pc = pc]
        \/ call' = [call EXCEPT ![c].pc = "stop_get", ![c].failing = TRUE]
    BY DEF StandaloneStartServer, OperatorStartServer, OperatorCreated, OperatorNotCreated,
       InsertRow, InsertDuplicate, InsertError, StopGet, StopDelete, StopServer, Goto, Reply,
       Location
  <2> QED
    BY <1>1, <2>1 DEF TypeOK, Idle, Request
<1>5. \A a \in Broadcaster \ {call[c].b} : active_streams'[a] = active_streams[a]
  BY <1>1 DEF TypeOK, StandaloneStartServer, OperatorStartServer, OperatorCreated,
     OperatorNotCreated, InsertRow, Insert, InsertDuplicate, InsertError, StopGet, StopDelete,
     StopServer, DeleteRow, db
<1>6. \A a \in Broadcaster \ {call[c].b} : told'[a] = told[a]
  <2>1. told' = told \/ \E answer : Reply(c, answer)
    BY DEF StandaloneStartServer, OperatorStartServer, OperatorCreated, OperatorNotCreated,
       InsertRow, InsertDuplicate, InsertError, StopGet, StopDelete, StopServer
  <2> QED
    BY <1>1, <2>1 DEF TypeOK, Reply
<1>7. \A a \in Broadcaster \ {call[c].b} : a \in ingest' <=> a \in ingest
  BY DEF StandaloneStartServer, OperatorStartServer, OperatorCreated, OperatorNotCreated,
     InsertRow, InsertDuplicate, InsertError, StopGet, StopDelete, StopServer,
     OperatorStopSystem
<1>8. \/ destroyed' = destroyed
      \/ PublishDestroyed(call[c].b)
      \/ ClearedBy(call[c].b)
  BY DEF StandaloneStartServer, OperatorStartServer, OperatorCreated, OperatorNotCreated,
     InsertRow, InsertDuplicate, InsertError, StopGet, StopDelete, StopServer, DeleteRow,
     OperatorStopSystem, bus
<1>9. \A a \in Broadcaster \ {call[c].b} : PendingKept(a)
  BY <1>1, <1>2, <1>8, SamePending, PublishedPending, ClearedPending DEF PendingKept
<1> QED
  BY <1>1, <1>2, <1>3, <1>4, <1>5, <1>6, <1>7, <1>8, <1>9

(* Who settles b finds it at rest, and no message that could remove a row. *)
LEMMA SettledAtRest ==
    ASSUME StreamsOk, NEW b \in Broadcaster, Settled(b)
    PROVE  (Sound(b) => AtRest(b)) /\ ~Pending(b) /\ \A c \in Call : ~Serves(c, b)
<1>1. \A c \in Call : ~Serves(c, b)
  BY DEF Settled, Serves
<1>2. \A m : ~AtClient(m)
  BY DEF Settled, AtClient
<1>3. ~Pending(b)
  BY <1>2 DEF Settled, Pending
<1> QED
  BY <1>1, <1>3 DEF StreamsOk, StreamOk, InHand

------------------------------------------------------------------------------
(* One lemma per operation. *)

(* A request that arrives. *)
LEMMA Arrives ==
    ASSUME TypeOK, Users = "following", NEW c \in Call, NEW b \in Broadcaster,
           StreamStart(c, b) \/ StreamStop(c, b)
    PROVE  /\ Settled(b)
           /\ UNCHANGED <<standalone, adrift, db, ingest, bus>>
           /\ call[c].pc = "idle"
           /\ call'[c].pc = IF HasRow(b) THEN "stop_get" ELSE "start_server"
           /\ call'[c].b = b /\ call'[c].failing = FALSE
           /\ \A d \in Call \ {c} : call'[d] = call[d]
           /\ told'[b] = "none"
           /\ \A a \in Broadcaster \ {b} : told'[a] = told[a]
<1>1. PICK pc \in {"start_server", "stop_get"} :
        /\ pc = "start_server" <=> ~HasRow(b)
        /\ call[c] = Idle
        /\ call' = [call EXCEPT ![c] =
                        [pc |-> pc, b |-> b, id |-> made + 1, failing |-> FALSE]]
        /\ told' = [told EXCEPT ![b] = "none"]
  BY DEF StreamStart, StreamStop, Arrive
<1>2. Settled(b) /\ UNCHANGED <<standalone, adrift, db, ingest, bus>>
  BY DEF StreamStart, StreamStop, Arrive
<1> QED
  BY <1>1, <1>2 DEF TypeOK, Idle

LEMMA ArriveFollows ==
    ASSUME IInv, StreamsOk, Users = "following", NEW c \in Call, NEW b \in Broadcaster,
           StreamStart(c, b) \/ StreamStop(c, b)
    PROVE  StreamsOk'
<1>1. /\ TypeOK /\ Settled(b)
      /\ UNCHANGED <<standalone, adrift, db, ingest, bus>>
      /\ call'[c].pc = IF HasRow(b) THEN "stop_get" ELSE "start_server"
      /\ call'[c].b = b /\ call'[c].failing = FALSE
      /\ call[c].pc = "idle"
      /\ \A d \in Call \ {c} : call'[d] = call[d]
      /\ told'[b] = "none"
      /\ \A a \in Broadcaster \ {b} : told'[a] = told[a]
  BY Arrives DEF IInv
<1>2. (Sound(b) => AtRest(b)) /\ ~Pending(b) /\ \A d \in Call : ~Serves(d, b)
  BY <1>1, SettledAtRest
<1>3. \A a \in Broadcaster : (Pending(a)' <=> Pending(a)) /\ (HasRow(a)' <=> HasRow(a))
  BY <1>1, SamePending DEF bus, db, HasRow
<1>4. Sound(b)' => InHand(c, b)'
  BY <1>1, <1>2, <1>3 DEF Sound, InHand, AtRest, Serves, WithRow, WithIngest
<1> QED
  BY <1>1, <1>2, <1>3, <1>4, HandlerKeeps DEF PendingKept

(* The request of a handler, and what it knows.                            *)
LEMMA AtWork ==
    ASSUME IInv, StreamsOk, NEW c \in Call, call[c].pc # "idle", Sound(call[c].b)
    PROVE  /\ TypeOK
           /\ call[c].b \in Broadcaster
           /\ InHand(c, call[c].b)
           /\ \A d \in Call \ {c} : ~Serves(d, call[c].b)
<1>1. call[c].b \in Broadcaster /\ Serves(c, call[c].b)
  BY DEF IInv, CallInv, Serves
<1> QED
  BY <1>1, HasInHand DEF IInv

(* The request has b in hand after its step, or has left it at rest. *)
Moved(c, b) == InHand(c, b)' \/ (call'[c].pc = "idle" /\ AtRest(b)')

LEMMA StartServerFollows ==
    ASSUME IInv, StreamsOk, ~ControllerFails, NEW c \in Call, Sound(call[c].b),
           NEW b \in Broadcaster, call[c].b = b,
           StandaloneStartServer(c) \/ OperatorStartServer(c)
    PROVE  Moved(c, b)
<1>1. TypeOK /\ InHand(c, b) /\ call[c].pc = "start_server"
  BY AtWork DEF StandaloneStartServer, OperatorStartServer
<1>2. UNCHANGED <<active_streams, told, inbox, worker, standalone, ingest, destroyed>>
  BY <1>1 DEF StandaloneStartServer, OperatorStartServer, OperatorStopSystem, InHand, WithRow,
      WithIngest, db, env
<1>3. PICK pc \in {"insert", "start_create"} :
        Goto(c, pc) /\ (standalone <=> pc = "insert")
  BY <1>1 DEF StandaloneStartServer, OperatorStartServer
<1>4. call'[c].pc = pc /\ call'[c].b = b /\ call'[c].failing = call[c].failing
  BY <1>1, <1>3, GoesOn DEF Location
<1>5. (Pending(b)' <=> Pending(b)) /\ (HasRow(b)' <=> HasRow(b))
  BY <1>2, SamePending DEF HasRow
<1> QED
  BY <1>1, <1>2, <1>3, <1>4, <1>5 DEF Moved, InHand, Serves, WithRow, WithIngest

LEMMA CreatedFollows ==
    ASSUME IInv, StreamsOk, NEW c \in Call, Sound(call[c].b),
           NEW b \in Broadcaster, call[c].b = b, OperatorCreated(c)
    PROVE  Moved(c, b)
<1>1. TypeOK /\ InHand(c, b) /\ call[c].pc = "start_create"
  BY AtWork DEF OperatorCreated
<1>2. /\ UNCHANGED <<active_streams, told, inbox, worker, standalone, destroyed>>
      /\ ingest' = ingest \cup {b}
      /\ Goto(c, "insert")
  BY <1>1 DEF OperatorCreated, db, bus, env
<1>3. call'[c].pc = "insert" /\ call'[c].b = b /\ call'[c].failing = call[c].failing
  BY <1>1, <1>2, GoesOn DEF Location
<1>4. (Pending(b)' <=> Pending(b)) /\ (HasRow(b)' <=> HasRow(b))
  BY <1>2, SamePending DEF HasRow
<1> QED
  BY <1>1, <1>2, <1>3, <1>4 DEF Moved, InHand, Serves, WithRow, WithIngest

(* The ingest that was there is gone by then: its stop did not fail.       *)
LEMMA NotCreatedNever ==
    ASSUME IInv, StreamsOk, ~ControllerFails, NEW c \in Call, Sound(call[c].b),
           OperatorNotCreated(c)
    PROVE  FALSE
<1>1. InHand(c, call[c].b) /\ call[c].pc = "start_create" /\ call[c].b \in ingest
  BY AtWork DEF OperatorNotCreated
<1> QED
  BY <1>1 DEF InHand, WithRow, WithIngest

(* The row that is inserted is a row. *)
LEMMA InsertedRow ==
    ASSUME IInv, NEW c \in Call, call[c].pc = "insert", Insert(c)
    PROVE  active_streams'[call[c].b] # None
<1>1. /\ TypeOK /\ call[c].b \in Broadcaster
      /\ call[c].id \in 1 .. made /\ made \in 0 .. MaxCalls
  BY DEF IInv, CallInv, TypeOK
<1>2. call[c].id \in StreamId
  BY <1>1, StreamServiceAssumption DEF StreamId
<1>3. [id |-> call[c].id, deployed |-> FALSE] \in Row
  BY <1>2 DEF Row
<1> QED
  BY <1>1, <1>3, NoneAssumption DEF Insert, TypeOK

LEMMA InsertRowFollows ==
    ASSUME IInv, StreamsOk, NEW c \in Call, Sound(call[c].b),
           NEW b \in Broadcaster, call[c].b = b, InsertRow(c)
    PROVE  Moved(c, b)
<1>1. TypeOK /\ InHand(c, b) /\ call[c].pc = "insert"
  BY AtWork DEF InsertRow
<1>2. UNCHANGED <<inbox, worker, standalone, destroyed, ingest>> /\ Reply(c, "started")
  BY <1>1 DEF InsertRow, bus, env
<1>3. call'[c].pc = "idle" /\ told'[b] = "started"
  BY <1>1, <1>2, IsAnswered DEF InHand
<1>4. HasRow(b)' /\ (Pending(b)' <=> Pending(b))
  BY <1>1, <1>2, InsertedRow, SamePending DEF HasRow, InsertRow
<1> QED
  BY <1>1, <1>2, <1>3, <1>4 DEF Moved, InHand, AtRest, WithRow, WithIngest

(* When an INSERT fails the row is there only if its reply was lost. *)
LEMMA InsertRefusedFollows ==
    ASSUME IInv, StreamsOk, NEW c \in Call, Sound(call[c].b),
           NEW b \in Broadcaster, call[c].b = b, Sound(b)',
           InsertDuplicate(c) \/ InsertError(c)
    PROVE  Moved(c, b)
<1>1. TypeOK /\ InHand(c, b) /\ call[c].pc = "insert"
  BY AtWork DEF InsertDuplicate, InsertError
<1>2. InsertError(c)
  BY <1>1 DEF InsertDuplicate, InHand, WithRow
<1>3. /\ UNCHANGED <<inbox, worker, standalone, destroyed, ingest, told>>
      /\ Goto(c, "undo")
      /\ UNCHANGED active_streams \/ standalone
  BY <1>2 DEF InsertError, ReplyLost, Sound, db, bus
<1>4. call'[c].pc = "undo" /\ call'[c].b = b /\ call'[c].failing = call[c].failing
  BY <1>1, <1>3, GoesOn DEF Location
<1>5. (Pending(b)' <=> Pending(b)) /\ (standalone \/ (HasRow(b)' <=> HasRow(b)))
  BY <1>3, SamePending DEF HasRow
<1> QED
  BY <1>1, <1>3, <1>4, <1>5 DEF Moved, InHand, Serves, WithRow, WithIngest

LEMMA StopGetFollows ==
    ASSUME IInv, StreamsOk, NEW c \in Call, Sound(call[c].b),
           NEW b \in Broadcaster, call[c].b = b, StopGet(c)
    PROVE  Moved(c, b)
<1>1. TypeOK /\ InHand(c, b) /\ call[c].pc = "stop_get"
  BY AtWork DEF StopGet
<1>2. /\ UNCHANGED <<active_streams, inbox, worker, standalone, destroyed, ingest>>
      /\ \/ Goto(c, "stop_delete") /\ told' = told
         \/ Reply(c, "not_found")
  BY <1>1 DEF StopGet, db, bus, env
<1>3. (Pending(b)' <=> Pending(b)) /\ (HasRow(b)' <=> HasRow(b))
  BY <1>2, SamePending DEF HasRow
<1>4. CASE Goto(c, "stop_delete") /\ told' = told
  <2>1. call'[c].pc = "stop_delete" /\ call'[c].b = b /\ call'[c].failing = call[c].failing
    BY <1>1, <1>4, GoesOn DEF Location
  <2> QED
    BY <1>1, <1>2, <1>3, <1>4, <2>1 DEF Moved, InHand, Serves, WithRow, WithIngest
<1>5. CASE Reply(c, "not_found")
  <2>1. call'[c].pc = "idle" /\ told'[b] = "not_found"
    BY <1>1, <1>5, IsAnswered DEF InHand
  <2> QED
    BY <1>1, <1>2, <1>3, <2>1 DEF Moved, InHand, AtRest, WithRow, WithIngest
<1> QED
  BY <1>2, <1>4, <1>5

(* The row of b goes, and nothing else that matters here.                  *)
LEMMA DeletedFollows ==
    ASSUME TypeOK, NEW b \in Broadcaster, DeleteRow(b), UNCHANGED inbox,
           \/ worker' = worker
           \/ worker' = None
           \/ worker # None /\ worker'.msg = worker.msg
    PROVE  /\ ~HasRow(b)'
           /\ \A a \in Broadcaster \ {b} : HasRow(a)' <=> HasRow(a)
           /\ \A a \in Broadcaster : PendingKept(a)
BY ClearedPending DEF DeleteRow, HasRow, TypeOK

LEMMA StopDeleteFollows ==
    ASSUME IInv, StreamsOk, NEW c \in Call, Sound(call[c].b),
           NEW b \in Broadcaster, call[c].b = b, Sound(b)', StopDelete(c)
    PROVE  Moved(c, b)
<1>1. TypeOK /\ InHand(c, b) /\ call[c].pc = "stop_delete"
  BY AtWork DEF StopDelete
<1>2. UNCHANGED <<inbox, worker, standalone, ingest>>
  BY <1>1 DEF StopDelete
<1>3. CASE DeleteRow(b) /\ Goto(c, "stop_server") /\ UNCHANGED told
  <2>1. call'[c].pc = "stop_server" /\ call'[c].b = b /\ call'[c].failing = call[c].failing
    BY <1>1, <1>3, GoesOn DEF Location
  <2>2. ~HasRow(b)' /\ PendingKept(b)
    BY <1>1, <1>2, <1>3, DeletedFollows
  <2> QED
    BY <1>1, <1>2, <1>3, <2>1, <2>2
    DEF Moved, InHand, Serves, PendingKept, WithRow, WithIngest
<1>4. CASE Reply(c, "error") /\ (UNCHANGED <<db, destroyed>> \/ (DeleteRow(b) /\ standalone))
  <2>1. call'[c].pc = "idle" /\ told'[b] = "error"
    BY <1>1, <1>4, IsAnswered DEF InHand
  <2>2. PendingKept(b) /\ (standalone \/ (HasRow(b)' <=> HasRow(b)))
    BY <1>1, <1>2, <1>4, SamePending, DeletedFollows DEF PendingKept, HasRow, db
  <2> QED
    BY <1>1, <1>2, <2>1, <2>2 DEF Moved, InHand, AtRest, PendingKept, WithRow, WithIngest
<1> QED
  BY <1>1, <1>3, <1>4 DEF StopDelete, ReplyLost, Sound

LEMMA StopServerFollows ==
    ASSUME IInv, StreamsOk, ~ControllerFails, NEW c \in Call, Sound(call[c].b),
           NEW b \in Broadcaster, call[c].b = b, StopServer(c)
    PROVE  Moved(c, b)
<1>1. TypeOK /\ InHand(c, b) /\ call[c].pc \in {"undo", "stop_server"}
  BY AtWork DEF StopServer
<1>2. PICK answer \in {"error", "stopped"} :
        Reply(c, answer) /\ (call[c].pc = "undo" => answer = "error")
  BY <1>1 DEF StopServer
<1>3. /\ UNCHANGED <<active_streams, inbox, worker, standalone>>
      /\ PublishDestroyed(b)
      /\ ~standalone => ingest' = ingest \ {b}
      /\ standalone => ingest' = ingest
  BY <1>1 DEF StopServer, OperatorStopSystem, InHand, WithIngest, db, env
<1>4. call'[c].pc = "idle" /\ told'[b] = answer
  BY <1>1, <1>2, IsAnswered DEF InHand
<1>5. HasRow(b)' => standalone /\ answer = "error"
  BY <1>1, <1>2, <1>3 DEF HasRow, InHand, WithRow
<1>6. AtRest(b)'
  BY <1>1, <1>3, <1>4, <1>5 DEF InHand, AtRest, WithRow, WithIngest
<1> QED
  BY <1>4, <1>6 DEF Moved

LEMMA HandlerFollows ==
    ASSUME IInv, StreamsOk, ~ControllerFails, NEW c \in Call, HandlerStep(c)
    PROVE  StreamsOk'
<1>1. PICK b \in Broadcaster : call[c].b = b /\ call[c].pc # "idle"
  BY HandlerFrame
<1>2. /\ standalone' = standalone /\ adrift \subseteq adrift'
      /\ \A d \in Call \ {c} : call'[d] = call[d]
      /\ call'[c].pc # "idle" => call'[c].b = b
      /\ \A a \in Broadcaster \ {b} :
            /\ told'[a] = told[a] /\ (HasRow(a)' <=> HasRow(a)) /\ PendingKept(a)
            /\ a \in ingest' <=> a \in ingest
  BY <1>1, HandlerFrame DEF HasRow
<1>3. ASSUME Sound(b)'
      PROVE  Moved(c, b) /\ \A d \in Call \ {c} : ~Serves(d, b)
  <2>1. Sound(call[c].b)
    BY <1>1, <1>2, <1>3 DEF Sound
  <2>2. Moved(c, b)
    BY <1>1, <1>3, <2>1, StartServerFollows, CreatedFollows, NotCreatedNever, InsertRowFollows,
       InsertRefusedFollows, StopGetFollows, StopDeleteFollows, StopServerFollows
       DEF HandlerStep, HandlerGoesOn
  <2> QED
    BY <1>1, <2>1, <2>2, AtWork
<1> QED
  BY <1>1, <1>2, <1>3, HandlerKeeps DEF Moved

(* The status worker adds no row and removes none.                         *)
LEMMA StatusKeeps ==
    ASSUME IInv, LoseDeployed \/ StatusStep
    PROVE  /\ UNCHANGED <<standalone, adrift, call, told, ingest, destroyed, inbox, worker>>
           /\ \A b \in Broadcaster : HasRow(b)' <=> HasRow(b)
<1>1. UNCHANGED <<standalone, adrift, call, told, ingest, destroyed, inbox, worker>>
  BY DEF LoseDeployed, StatusStep, StatusUpdate, StatusInsert, StatusCommit, bus, env
<1>2. \A b \in Broadcaster : HasRow(b)' <=> HasRow(b)
  <2>1. CASE LoseDeployed \/ StatusUpdate \/ StatusInsert
    BY <2>1 DEF LoseDeployed, StatusUpdate, StatusInsert, db, HasRow
  <2>2. CASE StatusCommit /\ UNCHANGED active_streams
    BY <2>2 DEF HasRow
  <2>3. CASE StatusCommit /\
             active_streams' = [active_streams EXCEPT ![tx.b].deployed = TRUE]
    <3>1. TypeOK' /\ TypeOK /\ tx \in Transaction /\ HasRow(tx.b) /\ tx.b \in Broadcaster
      BY <2>3, StatusCommitStep DEF IInv, TableInv, LockedRowStays, StatusCommit, TypeOK,
         Transaction
    <3>2. active_streams[tx.b] \in Row
      BY <3>1, RowOf
    <3>3. [active_streams[tx.b] EXCEPT !.deployed = TRUE] \in Row
      BY <3>2 DEF Row
    <3>4. HasRow(tx.b) /\ active_streams'[tx.b] # None
      BY <2>3, <3>1, <3>3, NoneAssumption DEF TypeOK
    <3>5. \A b \in Broadcaster \ {tx.b} : active_streams'[b] = active_streams[b]
      BY <2>3, <3>1 DEF TypeOK
    <3> QED
      BY <3>4, <3>5 DEF HasRow
  <2> QED
    BY <2>1, <2>2, <2>3 DEF StatusStep, StatusCommit
<1> QED
  BY <1>1, <1>2

LEMMA StatusFollows ==
    ASSUME IInv, StreamsOk, LoseDeployed \/ StatusStep
    PROVE  StreamsOk'
BY StatusKeeps, SamePending, WorkersKeep DEF PendingKept

(* A delivery makes no message pending that was not.                       *)
LEMMA DeliverKeeps ==
    ASSUME IInv, NEW m \in DOMAIN destroyed, Deliver(m)
    PROVE  /\ UNCHANGED <<worker, active_streams>>
           /\ DOMAIN destroyed' = DOMAIN destroyed
           /\ \A k \in DOMAIN destroyed :
                 destroyed'[k].b = destroyed[k].b /\ destroyed'[k].acked = destroyed[k].acked
           /\ \A b \in Broadcaster : PendingKept(b)
<1>1. TypeOK /\ ~destroyed[m].acked /\ UNCHANGED <<worker, active_streams>>
  BY DEF IInv, Deliver, db
<1>2. PICK n : /\ destroyed' = [destroyed EXCEPT ![m].delivered = n]
               /\ inbox' = Append(inbox, [msg |-> m, delivered |-> n])
  BY DEF Deliver
<1>3. destroyed[m] \in Message
  BY <1>1, MessageAt
<1>4. /\ DOMAIN destroyed' = DOMAIN destroyed
      /\ \A k \in DOMAIN destroyed :
            destroyed'[k].b = destroyed[k].b /\ destroyed'[k].acked = destroyed[k].acked
  BY <1>2, <1>3 DEF Message
<1>5. \A k : AtClient(k)' => AtClient(k) \/ k = m
  <2> DEFINE e == [msg |-> m, delivered |-> n]
  <2>1. inbox \in Seq(Delivery) /\ e.msg = m
    BY <1>1 DEF TypeOK
  <2>2. inbox' = Append(inbox, e)
    BY <1>2
  <2> HIDE DEF e
  <2>3. \A i \in DOMAIN inbox' :
          inbox'[i] = e \/ (i \in DOMAIN inbox /\ inbox'[i] = inbox[i])
    BY <2>1, <2>2, LenProperties
  <2> QED
    BY <1>1, <2>1, <2>3 DEF AtClient
<1>6. \A b \in Broadcaster : PendingKept(b)
  BY <1>1, <1>4, <1>5 DEF PendingKept, Pending
<1> QED
  BY <1>1, <1>4, <1>6

LEMMA DeliverFollows ==
    ASSUME IInv, StreamsOk, NEW m \in DOMAIN destroyed, Deliver(m)
    PROVE  StreamsOk'
BY DeliverKeeps, WorkersKeep DEF Deliver, HasRow, env

(* Nor does the worker that takes one, which may give a message up.        *)
LEMMA BeginKeeps ==
    ASSUME IInv, DestroyedBegin
    PROVE  /\ UNCHANGED <<active_streams, standalone, adrift, call, told, ingest>>
           /\ Head(inbox).msg \in DOMAIN destroyed
           /\ DOMAIN destroyed' = DOMAIN destroyed
           /\ \A k \in DOMAIN destroyed : destroyed'[k].b = destroyed[k].b
           /\ \A b \in Broadcaster : PendingKept(b)
<1>1. /\ TypeOK /\ InboxInv /\ inbox \in Seq(Delivery) /\ inbox # <<>>
      /\ UNCHANGED <<active_streams, standalone, adrift, call, told, ingest>>
      /\ worker = None /\ inbox' = Tail(inbox)
  BY DEF IInv, MessageInv, TypeOK, DestroyedBegin, db, env
<1>2. /\ 1 \in DOMAIN inbox /\ Head(inbox) = inbox[1]
      /\ \A i \in DOMAIN inbox' : i + 1 \in DOMAIN inbox /\ inbox'[i] = inbox[i + 1]
  BY <1>1, HeadTailProperties, LenProperties
<1>3. inbox[1].msg \in DOMAIN destroyed
  BY <1>1, <1>2 DEF InboxInv
<1>4. /\ DOMAIN destroyed' = DOMAIN destroyed
      /\ \A k \in DOMAIN destroyed :
            destroyed'[k].b = destroyed[k].b /\ (destroyed[k].acked => destroyed'[k].acked)
  <2>1. destroyed[inbox[1].msg] \in Message
    BY <1>1, <1>3, MessageAt
  <2>2. destroyed' = destroyed \/ Ack(inbox[1].msg)
    BY <1>2 DEF DestroyedBegin
  <2> QED
    BY <2>1, <2>2 DEF Ack, Message
<1>5. worker' = None \/ worker'.msg = inbox[1].msg
  BY <1>2 DEF DestroyedBegin
<1>6. \A k : AtClient(k)' => AtClient(k)
  BY <1>2, <1>5 DEF AtClient
<1>7. \A b \in Broadcaster : PendingKept(b)
  BY <1>4, <1>6 DEF PendingKept, Pending
<1> QED
  BY <1>1, <1>2, <1>3, <1>4, <1>7

LEMMA BeginFollows ==
    ASSUME IInv, StreamsOk, DestroyedBegin
    PROVE  StreamsOk'
BY BeginKeeps, WorkersKeep DEF HasRow

(* The message that is handled is pending, before and after. *)
LEMMA DeleteKeeps ==
    ASSUME IInv, DestroyedDelete
    PROVE  /\ UNCHANGED <<standalone, adrift, call, told, ingest, inbox>>
           /\ worker.msg \in DOMAIN destroyed
           /\ \E b \in Broadcaster :
                /\ Pending(b)
                /\ \/ DeleteRow(b)
                   \/ UNCHANGED <<active_streams, destroyed>>
                /\ \A a \in Broadcaster \ {b} : HasRow(a)' <=> HasRow(a)
           /\ \A b \in Broadcaster : PendingKept(b)
<1>1. /\ TypeOK /\ worker # None /\ worker.msg \in DOMAIN destroyed
      /\ UNCHANGED <<standalone, adrift, call, told, ingest, inbox>>
  BY DEF IInv, MessageInv, WorkerInv, DestroyedDelete, env
<1>2. PICK b \in Broadcaster : destroyed[worker.msg].b = b
  BY <1>1, MessageAt DEF Message
<1>3. Pending(b)
  BY <1>1, <1>2 DEF Pending, AtClient
<1>4. CASE DeleteRow(b) /\ worker' \in {None, [worker EXCEPT !.deleted = TRUE]}
  <2>1. worker' = None \/ worker'.msg = worker.msg
    BY <1>1, <1>4 DEF TypeOK, Work
  <2>2. /\ \A a \in Broadcaster : PendingKept(a)
        /\ \A a \in Broadcaster \ {b} : HasRow(a)' <=> HasRow(a)
    BY <1>1, <1>2, <1>4, <2>1, DeletedFollows
  <2> QED
    BY <1>1, <1>3, <1>4, <2>2
<1>5. CASE worker' = None /\ UNCHANGED <<db, destroyed>>
  <2>1. \A a \in Broadcaster : (HasRow(a)' <=> HasRow(a)) /\ PendingKept(a)
    BY <1>1, <1>5 DEF db, HasRow, PendingKept, Pending, AtClient
  <2> QED
    BY <1>1, <1>3, <1>5, <2>1 DEF db
<1> QED
  BY <1>1, <1>2, <1>4, <1>5 DEF DestroyedDelete

(* The row that it deletes, if any, is of a start that failed.             *)
LEMMA DeleteFollows ==
    ASSUME IInv, StreamsOk, DestroyedDelete
    PROVE  StreamsOk'
<1>1. PICK b \in Broadcaster :
        /\ Pending(b)
        /\ DeleteRow(b) \/ UNCHANGED <<active_streams, destroyed>>
        /\ \A a \in Broadcaster \ {b} : HasRow(a)' <=> HasRow(a)
  BY DeleteKeeps
<1>2. /\ UNCHANGED <<standalone, adrift, call, told, ingest>>
      /\ \A a \in Broadcaster : PendingKept(a)
  BY DeleteKeeps
<1>3. CASE HasRow(b)' <=> HasRow(b)
  BY <1>1, <1>2, <1>3, WorkersKeep
<1>4. CASE HasRow(b) /\ ~HasRow(b)'
  <2>1. \A a \in Broadcaster \ {b} : Sound(a)' => StreamOk(a)'
    BY <1>1, <1>2, Elsewhere DEF StreamsOk, Sound
  <2>2. ASSUME Sound(b)'
        PROVE  StreamOk(b)'
    <3>1. AtRest(b) /\ \A c \in Call : ~Serves(c, b)
      BY <1>1, <1>2, <2>2 DEF StreamsOk, StreamOk, InHand, Sound
    <3>2. standalone /\ told[b] = "error"
      BY <1>1, <1>4, <3>1 DEF AtRest
    <3>3. AtRest(b)'
      BY <1>2, <1>4, <3>2 DEF AtRest
    <3> QED
      BY <1>2, <3>1, <3>3 DEF StreamOk, Serves
  <2> QED
    BY <2>1, <2>2 DEF StreamsOk
<1>5. HasRow(b)' => HasRow(b)
  BY <1>1 DEF DeleteRow, HasRow, IInv, TypeOK
<1> QED
  BY <1>3, <1>4, <1>5

(* The message that is acknowledged is pending no more. *)
LEMMA NotifyKeeps ==
    ASSUME IInv, DestroyedNotify
    PROVE  /\ UNCHANGED <<active_streams, standalone, adrift, call, told, ingest, inbox>>
           /\ worker.msg \in DOMAIN destroyed
           /\ DOMAIN destroyed' = DOMAIN destroyed
           /\ \A k \in DOMAIN destroyed : destroyed'[k].b = destroyed[k].b
           /\ \A b \in Broadcaster : PendingKept(b)
<1>1. /\ TypeOK /\ worker # None /\ worker.msg \in DOMAIN destroyed
      /\ UNCHANGED <<active_streams, standalone, adrift, call, told, ingest, inbox>>
      /\ worker' = None
      /\ Ack(worker.msg) \/ UNCHANGED destroyed
  BY DEF IInv, MessageInv, WorkerInv, DestroyedNotify, db, env
<1>2. destroyed[worker.msg] \in Message
  BY <1>1, MessageAt
<1>3. /\ DOMAIN destroyed' = DOMAIN destroyed
      /\ \A k \in DOMAIN destroyed :
            destroyed'[k].b = destroyed[k].b /\ (destroyed[k].acked => destroyed'[k].acked)
  BY <1>1, <1>2 DEF Ack, Message
<1>4. \A k : AtClient(k)' => AtClient(k)
  BY <1>1 DEF AtClient
<1>5. \A b \in Broadcaster : PendingKept(b)
  BY <1>3, <1>4 DEF PendingKept, Pending
<1> QED
  BY <1>1, <1>3, <1>5

LEMMA NotifyFollows ==
    ASSUME IInv, StreamsOk, DestroyedNotify
    PROVE  StreamsOk'
BY NotifyKeeps, WorkersKeep DEF HasRow

(* A restart forgets the requests, and keeps what standalone mode has of   *)
(* streams: the rows, and the messages that will find none.                *)
LEMMA RestartFollows ==
    ASSUME IInv, StreamsOk, standalone, Restart
    PROVE  StreamsOk'
<1>1. /\ TypeOK
      /\ UNCHANGED <<active_streams, told, ingest, destroyed, standalone, adrift>>
      /\ call' = [c \in Call |-> Idle] /\ inbox' = <<>> /\ worker' = None
  BY DEF IInv, Restart
<1>2. \A c \in Call, b \in Broadcaster : ~Serves(c, b)'
  BY <1>1 DEF Serves, Idle
<1>3. \A b \in Broadcaster : (HasRow(b)' <=> HasRow(b)) /\ PendingKept(b)
  BY <1>1 DEF HasRow, PendingKept, Pending, AtClient
<1>4. \A b \in Broadcaster : AtRest(b)'
  <2> SUFFICES ASSUME NEW b \in Broadcaster PROVE AtRest(b)'
    OBVIOUS
  <2>1. CASE AtRest(b)
    BY <1>1, <1>3, <2>1 DEF AtRest, PendingKept
  <2>2. CASE \E c \in Call : InHand(c, b)
    BY <1>1, <1>3, <2>2 DEF InHand, AtRest, PendingKept
  <2> QED
    BY <2>1, <2>2 DEF StreamsOk, StreamOk, Sound
<1> QED
  BY <1>2, <1>4 DEF StreamsOk, StreamOk

LEMMA FollowInit == Init => FollowInv
<1> SUFFICES ASSUME Init PROVE StreamsOk
  BY DEF FollowInv
<1>1. \A b \in Broadcaster : AtRest(b)
  BY DEF Init, AtRest, Pending, HasRow
<1>2. \A c \in Call, b \in Broadcaster : ~Serves(c, b)
  BY DEF Init, Serves, Idle
<1> QED
  BY <1>1, <1>2 DEF StreamsOk, StreamOk

LEMMA FollowStep ==
    ASSUME Users = "following", ~ControllerFails, IInv, FollowInv, [Next]_vars
    PROVE  FollowInv'
<1>1. CASE Restart
  <2>1. crashes \in Nat /\ crashes' = crashes + 1 /\ standalone' = standalone
    BY <1>1, StreamServiceAssumption DEF IInv, TypeOK, Restart
  <2> QED
    BY <1>1, <2>1, RestartFollows DEF FollowInv
<1>2. CASE UNCHANGED vars
  <2>1. UNCHANGED <<crashes, active_streams, standalone, adrift, call, told, ingest, destroyed, inbox,
                    worker>>
    BY <1>2 DEF vars, db, bus, env
  <2>2. \A b \in Broadcaster : (HasRow(b)' <=> HasRow(b)) /\ PendingKept(b)
    BY <2>1, SamePending DEF HasRow, PendingKept
  <2> QED
    BY <2>1, <2>2, WorkersKeep DEF FollowInv
<1>3. CASE Next /\ ~Restart
  <2>1. UNCHANGED <<crashes, standalone>>
    BY <1>3 DEF Next, StreamStart, StreamStop, Arrive, HandlerStep, HandlerGoesOn,
       StandaloneStartServer, OperatorStartServer, OperatorCreated, OperatorNotCreated,
       InsertRow, InsertDuplicate, InsertError, StopGet, StopDelete, StopServer, LoseDeployed,
       StatusStep, StatusUpdate, StatusInsert, StatusCommit, Deliver, DestroyedStep,
       DestroyedBegin, DestroyedDelete, DestroyedNotify, env
  <2> SUFFICES ASSUME StreamsOk PROVE StreamsOk'
    BY <2>1 DEF FollowInv
  <2> QED
    BY <1>3, ArriveFollows, HandlerFollows, StatusFollows, DeliverFollows, BeginFollows,
       DeleteFollows, NotifyFollows DEF Next, DestroyedStep
<1> QED
  BY <1>1, <1>2, <1>3

(* What a user was told last is so when everything has settled             *)
(* (streamservice.go:30-99), if users follow the status of their stream    *)
(* and no call to the controller fails: in standalone mode whatever the    *)
(* database does and wherever the service restarts, in operator mode until *)
(* a restart or, for the broadcaster it concerns, a lost reply.            *)
THEOREM AnswersAreSo ==
    ASSUME Users = "following", ~ControllerFails
    PROVE  Spec => []AnswersHold
<1>1. IInv /\ FollowInv /\ [Next]_vars => FollowInv'
  BY FollowStep
<1>2. FollowInv => AnswersHold
  BY SettledAtRest DEF FollowInv, AnswersHold, AtRest, Sound
<1> QED
  BY FollowInit, <1>1, <1>2, Invariance, PTL DEF Spec

(* Then, in operator mode, a broadcaster has an active stream exactly when *)
(* the ingest server runs (streamservice.go:41-69, 74-98,                  *)
(* destroyed_handler.go:33-63), whatever statements fail, until a restart  *)
(* or a lost reply.                                                        *)
THEOREM StreamsAndIngests ==
    ASSUME Users = "following", ~ControllerFails
    PROVE  Spec => []StreamsMatchIngests
<1>1. IInv /\ FollowInv /\ [Next]_vars => FollowInv'
  BY FollowStep
<1>2. FollowInv => StreamsMatchIngests
  BY SettledAtRest DEF FollowInv, StreamsMatchIngests, AtRest, Sound
<1> QED
  BY FollowInit, <1>1, <1>2, Invariance, PTL DEF Spec
==============================================================================

--------------------------- MODULE StreamPages_proofs ---------------------------
(***************************************************************************)
(* Proofs about StreamPages.tla, for any number of dashboards: the stream  *)
(* service is still the one of StreamService; what is on its way to a      *)
(* dashboard is of one kind, and the last of it agrees with the tables;    *)
(* the link to a channel leads to it while its stream is on.               *)
(***************************************************************************)
EXTENDS StreamPages, StreamService_proofs

Writer == Status \cup {"handler"}
Websocket ==
    [b : Broadcaster \cup {None}, initial : Status \cup {"todo", "done"},
     subs : SUBSET Status, pending : [Status -> Nat], writing : SUBSET Writer,
     clash : SUBSET Writer, wire : [Status -> Nat], troubled : BOOLEAN]

ClientType ==
    /\ peer \in [Peer -> Websocket]
    /\ shown \in [Peer -> Status \cup {"none"}]

(* Nobody writes to a websocket that is closed. *)
NobodyWrites ==
    \A p \in Peer : peer[p].b = None =>
        /\ peer[p].initial = "todo" /\ peer[p].pending = Nothing
        /\ peer[p].writing = {} /\ peer[p].clash = {} /\ peer[p].wire = Nothing

(* A message of status s is on its way to the store of p. *)
Uses(p, s) ==
    \/ peer[p].pending[s] > 0
    \/ s \in peer[p].writing
    \/ peer[p].wire[s] > 0

(* The status that p shows when all that is on its way has come. *)
Latest(p) ==
    IF Uses(p, "deployed") THEN "deployed"
    ELSE IF Uses(p, "destroyed") THEN "destroyed"
    ELSE IF peer[p].initial = "done" THEN shown[p]
    ELSE peer[p].initial

(* The end of the ingest of b has not been announced. *)
Unacked(b) == \E m \in DOMAIN destroyed : destroyed[m].b = b /\ ~destroyed[m].acked

(* Nothing will mark the row of b deployed, ... *)
Unmarked(b) == ~Locked(b) /\ \A i \in DOMAIN deployed : deployed[i] # b

(* ... and nothing about b is under way at all. *)
Calm(b) == Unmarked(b) /\ ~Pending(b) /\ \A c \in Call : ~Serves(c, b)

(* One writer at a time: the handler first, then messages of one kind. *)
OneWriter(p) ==
    /\ peer[p].clash = {}
    /\ ~(Uses(p, "deployed") /\ Uses(p, "destroyed"))
    /\ peer[p].initial # "done" => ~Uses(p, "deployed") /\ ~Uses(p, "destroyed")
    /\ "handler" \in peer[p].writing => peer[p].initial \in Status

(* Until the page is up, nothing happens to its stream b.                  *)
StillCalm(p, b) == peer[p].initial # "done" \/ peer[p].subs # Status => Calm(b)

(* In standalone mode a request comes when the page is quiet; the message  *)
(* of a start is the last that was sent when the row is inserted, and that *)
(* of the end follows a stop.                                              *)
AtQuiet == {"start_server", "stop_get", "stop_delete", "stop_server"}

Follows(p, b) ==
    /\ \A c \in Call :
        Serves(c, b) =>
            \/ call[c].pc \in AtQuiet /\ Quiet(p)
            \/ call[c].pc = "insert" /\ Latest(p) = "deployed"
    /\ Pending(b) => ~Uses(p, "deployed") /\ ~HasRow(b)
    /\ Latest(p) = "deployed" =>
            HasRow(b) \/ Unacked(b) \/ \E c \in Call : Serves(c, b)
    /\ Latest(p) = "destroyed" /\ HasRow(b) => ~active_streams[b].deployed /\ Unmarked(b)

(* In operator mode nothing is ever deployed. *)
Operated(p) == Latest(p) # "deployed"

Untroubled(p, b) == peer[p].b = b /\ ~peer[p].troubled

DashboardOk(p, b) ==
    /\ OneWriter(p)
    /\ StillCalm(p, b)
    /\ standalone => Follows(p, b)
    /\ ~standalone => Operated(p)

DashboardsOk ==
    \A p \in Peer, b \in Broadcaster : Untroubled(p, b) => DashboardOk(p, b)

OperatorMode ==
    ~standalone =>
        /\ deployed = <<>>
        /\ tx = None
        /\ \A b \in Broadcaster : HasRow(b) => ~active_streams[b].deployed

(* The stream id of b that a visitor saw listed stays deployed while it is *)
(* there, and no other stream has that id.                                 *)
Lists(b, id) ==
    /\ standalone
    /\ id \in 1 .. made
    /\ \A c \in Call : call[c].pc \in Starting => call[c].id # id
    /\ HasRow(b) /\ active_streams[b].id = id =>
            active_streams[b].deployed /\ visitor.found # "not_found"

Visit == [b : Broadcaster \cup {None}, listed : Nat,
          found : {"nothing", "channel", "not_found", "error"}]

VisitorOk ==
    /\ visitor \in Visit
    /\ \A b \in Broadcaster : visitor.b = b => Lists(b, visitor.listed)
    /\ visitor.b = None => visitor.found = "nothing"

PagesInv ==
    /\ IInv /\ FollowInv
    /\ OperatorMode /\ VisitorOk
    /\ ClientType /\ NobodyWrites /\ DashboardsOk

------------------------------------------------------------------------------
(* The stream service, in a step of the pages. *)

LEMMA ServiceSteps ==
    ASSUME [PagesNext]_pageVars
    PROVE  [Next]_vars
<1>1. CASE UNCHANGED pageVars
  BY <1>1 DEF pageVars
<1>2. ASSUME NEW c \in Call, NEW b \in Broadcaster, Pressed(c, b)
      PROVE  Next
  BY <1>2 DEF Pressed, Next
<1>3. ASSUME NEW c \in Call, Deployed(c) \/ Handled(c)
      PROVE  Next
  BY <1>3 DEF Deployed, Handled, Next, HandlerStep
<1>4. CASE Worked \/ Begun \/ Notified \/ Ended
  BY <1>4 DEF Worked, Begun, Notified, Ended, Next, DestroyedStep
<1>5. CASE \/ \E p \in Peer, b \in Broadcaster : Open(p, b)
           \/ \E p \in Peer : Close(p) \/ PageStep(p)
  BY <1>5 DEF Open, Close, PageStep, Subscribe, Process, ReadStatus, BeginWrite, EndWrite,
     Change
<1>6. CASE (\E b \in Broadcaster : LoadChannels(b)) \/ LoadChannel
  BY <1>6 DEF LoadChannels, LoadChannel
<1> QED
  BY <1>1, <1>2, <1>3, <1>4, <1>5, <1>6 DEF PagesNext

(* The stream service behaves as StreamService says: what is proved of it  *)
(* there holds with the pages.                                             *)
THEOREM PagesRefineService == PagesSpec => Spec
<1>1. PagesInit => Init
  BY DEF PagesInit
<1> QED
  BY <1>1, ServiceSteps, PTL DEF PagesSpec, Spec

------------------------------------------------------------------------------
(* The websockets. *)

(* A websocket that a step leaves alone, but for the history. *)
SameSocket(p) ==
    /\ peer'[p].b = peer[p].b
    /\ peer'[p].initial = peer[p].initial
    /\ peer'[p].subs = peer[p].subs
    /\ peer'[p].pending = peer[p].pending
    /\ peer'[p].writing = peer[p].writing
    /\ peer'[p].clash = peer[p].clash
    /\ peer'[p].wire = peer[p].wire
    /\ peer[p].troubled => peer'[p].troubled
    /\ shown'[p] = shown[p]

LEMMA SocketSame ==
    ASSUME NEW p \in Peer, SameSocket(p)
    PROVE  /\ \A s \in Status : Uses(p, s)' <=> Uses(p, s)
           /\ Latest(p)' = Latest(p)
           /\ Quiet(p)' <=> Quiet(p)
           /\ OneWriter(p) => OneWriter(p)'
           /\ \A b : Untroubled(p, b)' => Untroubled(p, b)
<1>1. /\ Uses(p, "deployed")' <=> Uses(p, "deployed")
      /\ Uses(p, "destroyed")' <=> Uses(p, "destroyed")
  BY DEF SameSocket, Uses
<1>2. \A s \in Status : Uses(p, s)' <=> Uses(p, s)
  BY <1>1 DEF Status
<1>3. Latest(p)' = Latest(p)
  BY <1>1 DEF SameSocket, Latest
<1>4. Quiet(p)' <=> Quiet(p)
  BY DEF SameSocket, Quiet
<1>5. OneWriter(p) => OneWriter(p)'
  BY <1>1 DEF SameSocket, OneWriter
<1>6. \A b : Untroubled(p, b)' => Untroubled(p, b)
  BY DEF SameSocket, Untroubled
<1> QED
  BY <1>2, <1>3, <1>4, <1>5, <1>6

(* A step that is trouble for some dashboards leaves their websockets      *)
(* alone.                                                                  *)
LEMMA TroubleOnly ==
    ASSUME ClientType, UNCHANGED shown,
           \/ \E c \in Call, b \in Broadcaster : Pressed(c, b)
           \/ \E c \in Call : Handled(c)
           \/ Begun
    PROVE  ClientType' /\ \A p \in Peer : SameSocket(p)
<1>1. ASSUME NEW b, NEW p \in Peer, NEW t \in BOOLEAN
      PROVE  /\ peer[p].troubled \/ (peer[p].b = b /\ t) \in BOOLEAN
             /\ [peer[p] EXCEPT !.troubled = @ \/ (peer[p].b = b /\ t)] \in Websocket
  BY <1>1 DEF ClientType, Websocket
<1>2. ASSUME NEW c \in Call, NEW b \in Broadcaster, Pressed(c, b)
      PROVE  ClientType' /\ \A p \in Peer : SameSocket(p)
  <2>1. peer' = [p \in Peer |-> [peer[p] EXCEPT !.troubled = @ \/ (peer[p].b = b /\ ~Quiet(p))]]
    BY <1>2 DEF Pressed, Trouble
  <2>2. \A p \in Peer : (~Quiet(p)) \in BOOLEAN
    OBVIOUS
  <2>3. peer' \in [Peer -> Websocket]
    BY <1>1, <2>1, <2>2
  <2>4. \A p \in Peer : SameSocket(p)
    BY <2>1 DEF SameSocket, ClientType, Websocket
  <2> QED
    BY <2>3, <2>4 DEF ClientType
<1>3. ASSUME NEW c \in Call, Handled(c)
      PROVE  ClientType' /\ \A p \in Peer : SameSocket(p)
  <2>1. peer' = [p \in Peer |-> [peer[p] EXCEPT
                    !.troubled = @ \/ (peer[p].b = call[c].b /\ (call'[c].pc = "undo" \/ StopCutShort(c)))]]
    BY <1>3 DEF Handled, Trouble
  <2>2. (call'[c].pc = "undo") \in BOOLEAN
    OBVIOUS
  <2>3. peer' \in [Peer -> Websocket]
    BY <1>1, <2>1, <2>2
  <2>4. \A p \in Peer : SameSocket(p)
    BY <2>1 DEF SameSocket, ClientType, Websocket
  <2> QED
    BY <2>3, <2>4 DEF ClientType
<1>4. ASSUME Begun
      PROVE  ClientType' /\ \A p \in Peer : SameSocket(p)
  <2>1. peer' = [p \in Peer |-> [peer[p] EXCEPT
                    !.troubled = @ \/ (peer[p].b = destroyed[Head(inbox).msg].b /\ worker' = None)]]
    BY <1>4 DEF Begun, Trouble
  <2>2. (worker' = None) \in BOOLEAN
    OBVIOUS
  <2>3. peer' \in [Peer -> Websocket]
    BY <1>1, <2>1, <2>2
  <2>4. \A p \in Peer : SameSocket(p)
    BY <2>1 DEF SameSocket, ClientType, Websocket
  <2> QED
    BY <2>3, <2>4 DEF ClientType
<1> QED
  BY <1>2, <1>3, <1>4

(* A message that is published reaches the dashboards of b that subscribe  *)
(* to its subject, and changes nothing else.                               *)
Published(p, b, s) ==
    /\ peer'[p].b = peer[p].b
    /\ peer'[p].initial = peer[p].initial
    /\ peer'[p].subs = peer[p].subs
    /\ peer'[p].writing = peer[p].writing
    /\ peer'[p].clash = peer[p].clash
    /\ peer'[p].wire = peer[p].wire
    /\ peer'[p].troubled = peer[p].troubled
    /\ \A r \in Status : peer'[p].pending[r] =
            peer[p].pending[r] + (IF r = s /\ peer[p].b = b /\ s \in peer[p].subs THEN 1 ELSE 0)
    /\ shown'[p] = shown[p]

LEMMA PublishSockets ==
    ASSUME ClientType, ~ControllerFails, NEW b, NEW s \in Status, Publish(b, s),
           UNCHANGED shown
    PROVE  ClientType' /\ \A p \in Peer : Published(p, b, s)
<1> DEFINE To(p) == [r \in Status |-> peer[p].pending[r] + (IF r \in Hears(p, b, s) THEN 1 ELSE 0)]
<1>1. peer' = [p \in Peer |-> [peer[p] EXCEPT !.pending = To(p)]]
  BY DEF Publish, ClientType, Websocket
<1>2. ASSUME NEW p \in Peer
      PROVE  To(p) \in [Status -> Nat] /\ [peer[p] EXCEPT !.pending = To(p)] \in Websocket
  <2>1. peer[p].pending \in [Status -> Nat]
    BY DEF ClientType, Websocket
  <2>2. To(p) \in [Status -> Nat]
    BY <2>1
  <2> HIDE DEF To
  <2> QED
    BY <2>2 DEF ClientType, Websocket
<1>3. peer' \in [Peer -> Websocket]
  BY <1>1, <1>2
<1>4. ASSUME NEW p \in Peer
      PROVE  Published(p, b, s)
  <2>1. peer'[p] = [peer[p] EXCEPT !.pending = To(p)]
    BY <1>1
  <2>2. peer'[p].pending = To(p)
    BY <2>1 DEF ClientType, Websocket
  <2>3. \A r \in Status : peer'[p].pending[r] =
            peer[p].pending[r] + (IF r = s /\ peer[p].b = b /\ s \in peer[p].subs THEN 1 ELSE 0)
    BY <2>2 DEF Hears
  <2> HIDE DEF To
  <2> QED
    BY <2>1, <2>3 DEF Published, ClientType, Websocket
<1> QED
  BY <1>3, <1>4 DEF ClientType

(* A dashboard that does a step of its own. *)
LEMMA PageStepType ==
    ASSUME ClientType, NEW p \in Peer, PageStep(p)
    PROVE  /\ ClientType'
           /\ \A q \in Peer \ {p} : peer'[q] = peer[q] /\ shown'[q] = shown[q]
<1>1. ASSUME NEW r \in Websocket, Change(p, r)
      PROVE  /\ peer' \in [Peer -> Websocket]
             /\ \A q \in Peer \ {p} : peer'[q] = peer[q]
  BY <1>1 DEF Change, ClientType
<1>2. peer[p] \in Websocket
  BY DEF ClientType
<1>3. ASSUME NEW s \in Status, Subscribe(p, s)
      PROVE  /\ peer' \in [Peer -> Websocket] /\ UNCHANGED shown
             /\ \A q \in Peer \ {p} : peer'[q] = peer[q]
  <2>1. [peer[p] EXCEPT !.subs = @ \cup {s}] \in Websocket
    BY <1>2 DEF Websocket
  <2> QED
    BY <1>1, <1>3, <2>1 DEF Subscribe
<1>4. ASSUME NEW s \in Status, Process(p, s)
      PROVE  /\ peer' \in [Peer -> Websocket] /\ shown' = [shown EXCEPT ![p] = s]
             /\ \A q \in Peer \ {p} : peer'[q] = peer[q]
  <2>1. peer[p].wire[s] - 1 \in Nat
    BY <1>2, <1>4 DEF Websocket, Process
  <2>2. [peer[p] EXCEPT !.wire[s] = @ - 1] \in Websocket
    BY <1>2, <2>1 DEF Websocket
  <2> QED
    BY <1>1, <1>4, <2>2 DEF Process
<1>5. ASSUME ReadStatus(p)
      PROVE  /\ peer' \in [Peer -> Websocket] /\ UNCHANGED shown
             /\ \A q \in Peer \ {p} : peer'[q] = peer[q]
  <2>1. PICK failed \in BOOLEAN : Change(p, [peer[p] EXCEPT
            !.initial = IF failed THEN "destroyed" ELSE IsRunning(peer[p].b),
            !.troubled = @ \/ failed])
    BY <1>5 DEF ReadStatus
  <2>2. PICK s \in Status : s = IF failed THEN "destroyed" ELSE IsRunning(peer[p].b)
    BY DEF IsRunning, Status
  <2>3. (peer[p].troubled \/ failed) \in BOOLEAN
    OBVIOUS
  <2>4. [peer[p] EXCEPT !.initial = s, !.troubled = @ \/ failed] \in Websocket
    BY <1>2, <2>3 DEF Websocket
  <2> QED
    BY <1>1, <1>5, <2>1, <2>2, <2>4 DEF ReadStatus
<1>6. ASSUME NEW w \in Writer, BeginWrite(p, w)
      PROVE  /\ peer' \in [Peer -> Websocket] /\ UNCHANGED shown
             /\ \A q \in Peer \ {p} : peer'[q] = peer[q]
  <2> DEFINE Rest == [s \in Status |-> peer[p].pending[s] - (IF s = w THEN 1 ELSE 0)]
             Both == IF peer[p].writing = {} THEN peer[p].clash
                     ELSE peer[p].clash \cup peer[p].writing \cup {w}
  <2>1. Rest \in [Status -> Nat]
    <3>1. peer[p].pending \in [Status -> Nat]
      BY <1>2 DEF Websocket
    <3>2. w \in Status => peer[p].pending[w] > 0
      BY <1>6 DEF BeginWrite, Status
    <3> QED
      BY <3>1, <3>2
  <2>2. Both \in SUBSET Writer
    BY <1>2 DEF Websocket
  <2>3. Change(p, [peer[p] EXCEPT !.writing = @ \cup {w}, !.clash = Both, !.pending = Rest])
    BY <1>6 DEF BeginWrite
  <2> HIDE DEF Rest, Both
  <2>4. [peer[p] EXCEPT !.writing = @ \cup {w}, !.clash = Both, !.pending = Rest] \in Websocket
    BY <1>2, <2>1, <2>2 DEF Websocket
  <2> QED
    BY <1>1, <1>6, <2>3, <2>4 DEF BeginWrite
<1>7. ASSUME NEW w \in Writer, EndWrite(p, w)
      PROVE  /\ peer' \in [Peer -> Websocket] /\ UNCHANGED shown
             /\ \A q \in Peer \ {p} : peer'[q] = peer[q]
  <2> DEFINE status == IF w = "handler" THEN peer[p].initial ELSE w
  <2>1. PICK sent \in BOOLEAN : Change(p, [peer[p] EXCEPT
            !.initial = IF w = "handler" THEN "done" ELSE @,
            !.writing = @ \ {w},
            !.clash = @ \ {w},
            !.wire = [s \in Status |-> @[s] + (IF sent /\ s = status THEN 1 ELSE 0)]])
    BY <1>7 DEF EndWrite
  <2> DEFINE On == [s \in Status |-> peer[p].wire[s] + (IF sent /\ s = status THEN 1 ELSE 0)]
             Next0 == IF w = "handler" THEN "done" ELSE peer[p].initial
  <2>2. On \in [Status -> Nat]
    <3>1. peer[p].wire \in [Status -> Nat]
      BY <1>2 DEF Websocket
    <3> QED
      BY <3>1
  <2>3. Next0 \in Status \cup {"todo", "done"}
    BY <1>2 DEF Websocket
  <2>4. Change(p, [peer[p] EXCEPT !.initial = Next0, !.writing = @ \ {w}, !.clash = @ \ {w},
                                  !.wire = On])
    BY <2>1
  <2> HIDE DEF On, Next0
  <2>5. [peer[p] EXCEPT !.initial = Next0, !.writing = @ \ {w}, !.clash = @ \ {w},
                        !.wire = On] \in Websocket
    BY <1>2, <2>2, <2>3 DEF Websocket
  <2> QED
    BY <1>1, <1>7, <2>4, <2>5 DEF EndWrite
<1> QED
  BY <1>3, <1>4, <1>5, <1>6, <1>7 DEF PageStep, ClientType, Writer

LEMMA KeptClientType ==
    ASSUME ClientType, ~ControllerFails, [PagesNext]_pageVars
    PROVE  ClientType'
<1>1. Closed \in Websocket
  BY DEF Closed, Nothing, Websocket, Status, Writer
<1>2. CASE UNCHANGED <<peer, shown>>
  BY <1>2 DEF ClientType
<1>3. CASE \/ \E c \in Call, b \in Broadcaster : Pressed(c, b)
           \/ \E c \in Call : Handled(c)
           \/ Begun
  BY <1>3, TroubleOnly DEF Pressed, Handled, Begun
<1>4. CASE Notified \/ \E c \in Call : Deployed(c)
  BY <1>4, PublishSockets DEF Notified, Deployed, Status
<1>5. CASE Ended
  BY <1>1, <1>5 DEF Ended, ClientType
<1>6. ASSUME NEW p \in Peer, NEW b \in Broadcaster, Open(p, b)
      PROVE  ClientType'
  <2>1. (~Settled(b)) \in BOOLEAN
    OBVIOUS
  <2>2. [Closed EXCEPT !.b = b, !.troubled = ~Settled(b)] \in Websocket
    BY <2>1 DEF Closed, Nothing, Websocket, Status, Writer
  <2> QED
    BY <1>6, <2>2 DEF Open, ClientType
<1>7. ASSUME NEW p \in Peer, Close(p)
      PROVE  ClientType'
  BY <1>1, <1>7 DEF Close, Change, ClientType
<1>8. ASSUME NEW p \in Peer, PageStep(p)
      PROVE  ClientType'
  BY <1>8, PageStepType
<1> QED
  BY <1>2, <1>3, <1>4, <1>5, <1>6, <1>7, <1>8 DEF PagesNext, pageVars, client,
     Worked, LoadChannels, LoadChannel

(* A dashboard whose websocket and whose stream a step leaves alone. *)
LEMMA KeptDashboard ==
    ASSUME NEW p \in Peer, NEW b \in Broadcaster, DashboardOk(p, b), SameSocket(p),
           standalone' = standalone,
           \A c \in Call : Serves(c, b) \/ Serves(c, b)' => call'[c] = call[c],
           PendingKept(b), Unmarked(b) => Unmarked(b)',
           standalone =>
                /\ HasRow(b)' <=> HasRow(b)
                /\ Unacked(b) => Unacked(b)'
                /\ Unmarked(b) /\ HasRow(b) =>
                        active_streams'[b].deployed = active_streams[b].deployed
    PROVE  DashboardOk(p, b)'
<1>1. \A c \in Call : Serves(c, b)' <=> Serves(c, b)
  BY DEF Serves
<1>2. OneWriter(p)'
  BY SocketSame DEF DashboardOk
<1>3. StillCalm(p, b)'
  BY <1>1 DEF DashboardOk, StillCalm, SameSocket, Calm, PendingKept
<1>4. ASSUME standalone
      PROVE  Follows(p, b)'
  <2>1. Follows(p, b)
    BY <1>4 DEF DashboardOk
  <2>2. \A c \in Call :
            Serves(c, b)' =>
                \/ call'[c].pc \in AtQuiet /\ Quiet(p)'
                \/ call'[c].pc = "insert" /\ Latest(p)' = "deployed"
    BY <1>1, <2>1, SocketSame DEF Follows
  <2>3. Pending(b)' => ~Uses(p, "deployed")' /\ ~HasRow(b)'
    BY <1>4, <2>1, SocketSame DEF Follows, PendingKept, Status
  <2>4. Latest(p)' = "deployed" =>
            HasRow(b)' \/ Unacked(b)' \/ \E c \in Call : Serves(c, b)'
    BY <1>1, <1>4, <2>1, SocketSame DEF Follows
  <2>5. Latest(p)' = "destroyed" /\ HasRow(b)' =>
            ~active_streams'[b].deployed /\ Unmarked(b)'
    BY <1>4, <2>1, SocketSame DEF Follows
  <2> QED
    BY <2>2, <2>3, <2>4, <2>5 DEF Follows
<1>5. ~standalone => Operated(p)'
  BY SocketSame DEF DashboardOk, Operated
<1> QED
  BY <1>2, <1>3, <1>4, <1>5 DEF DashboardOk

------------------------------------------------------------------------------
(* The messages about the ends of ingests, through a step. *)

(* Those that are not acknowledged stay so. *)
LEMMA UnackedStays ==
    ASSUME NEW b, \A m \in DOMAIN destroyed :
                /\ m \in DOMAIN destroyed'
                /\ destroyed'[m].b = destroyed[m].b
                /\ destroyed[m].b = b /\ ~destroyed[m].acked => ~destroyed'[m].acked
    PROVE  Unacked(b) => Unacked(b)'
BY DEF Unacked

LEMMA ClearedUnacked ==
    ASSUME TypeOK, NEW b \in Broadcaster, ClearedBy(b)
    PROVE  \A a \in Broadcaster : Unacked(a) => Unacked(a)'
BY ClearedMessages, UnackedStays DEF MessagesKept

LEMMA PublishedUnacked ==
    ASSUME TypeOK, NEW b \in Broadcaster, PublishDestroyed(b)
    PROVE  Unacked(b)' /\ \A a \in Broadcaster : Unacked(a) => Unacked(a)'
<1> DEFINE e == [b |-> b, delivered |-> 0, acked |-> FALSE, cleared |-> ~HasRow(b)]
<1>1. e \in Message /\ e.b = b /\ ~e.acked
  BY StreamServiceAssumption DEF Message, HasRow
<1>2. destroyed \in Seq(Message) /\ destroyed' = Append(destroyed, e)
  BY DEF TypeOK, PublishDestroyed
<1> HIDE DEF e
<1>3. /\ \A m \in DOMAIN destroyed : m \in DOMAIN destroyed' /\ destroyed'[m] = destroyed[m]
      /\ Len(destroyed) + 1 \in DOMAIN destroyed'
      /\ destroyed'[Len(destroyed) + 1] = e
  BY <1>1, <1>2, AppendProperties, LenProperties
<1>4. Unacked(b)'
  BY <1>1, <1>3 DEF Unacked
<1> QED
  BY <1>3, <1>4, UnackedStays

------------------------------------------------------------------------------
(* A dashboard stays right: one lemma per step of the stream service. *)

(* A request concerns the dashboards of its broadcaster, which are quiet.  *)
LEMMA PressedPages ==
    ASSUME Users = "following", PagesInv, NEW c \in Call, NEW b0 \in Broadcaster,
           Pressed(c, b0), NEW p \in Peer, NEW b \in Broadcaster, Untroubled(p, b)'
    PROVE  DashboardOk(p, b)'
<1>1. SameSocket(p) /\ Untroubled(p, b) /\ DashboardOk(p, b)
  <2>1. SameSocket(p)
    BY TroubleOnly DEF Pressed, PagesInv
  <2> QED
    BY <2>1, SocketSame DEF PagesInv, DashboardsOk
<1>2. /\ Settled(b0)
      /\ UNCHANGED <<standalone, active_streams, tx, deployed, destroyed, inbox, worker>>
      /\ call[c].pc = "idle" /\ call'[c].b = b0
      /\ call'[c].pc \in {"start_server", "stop_get"}
      /\ \A d \in Call \ {c} : call'[d] = call[d]
  BY Arrives DEF Pressed, PagesInv, IInv, db, bus
<1>3. /\ Pending(b)' <=> Pending(b)
      /\ Unmarked(b)' <=> Unmarked(b)
      /\ HasRow(b)' <=> HasRow(b)
      /\ Unacked(b)' <=> Unacked(b)
  BY <1>2, SamePending DEF Unmarked, Locked, HasRow, Unacked
<1>4. CASE b # b0
  BY <1>1, <1>2, <1>3, <1>4, KeptDashboard DEF Serves, PendingKept
<1>5. CASE b = b0
  <2>1. Quiet(p)
    <3>1. peer' = [q \in Peer |->
            [peer[q] EXCEPT !.troubled = @ \/ (peer[q].b = b0 /\ ~Quiet(q))]]
      BY DEF Pressed, Trouble
    <3>2. peer'[p].troubled = (peer[p].troubled \/ (peer[p].b = b0 /\ ~Quiet(p)))
      BY <3>1 DEF PagesInv, ClientType, Websocket
    <3> QED
      BY <1>1, <1>5, <3>2 DEF Untroubled
  <2>2. /\ Quiet(p)' /\ Latest(p)' = Latest(p) /\ OneWriter(p)'
        /\ ~Uses(p, "deployed")'
    <3>1. ~Uses(p, "deployed")
      BY <2>1 DEF Quiet, Uses, Nothing, Status
    <3> QED
      BY <1>1, <2>1, <3>1, SocketSame DEF DashboardOk, Status
  <2>3. StillCalm(p, b)'
    BY <2>2 DEF StillCalm, Quiet
  <2>4. ASSUME standalone
        PROVE  Follows(p, b)'
    <3>1. StreamsOk /\ Follows(p, b)
      BY <1>1, <2>4 DEF PagesInv, FollowInv, DashboardOk
    <3>2. ~Pending(b) /\ \A d \in Call : ~Serves(d, b)
      BY <1>2, <1>5, <3>1, SettledAtRest
    <3>3. \A d \in Call : Serves(d, b)' => d = c
      BY <1>2, <3>2 DEF Serves
    <3>4. Serves(c, b)' /\ call'[c].pc \in AtQuiet
      BY <1>2, <1>5 DEF Serves, AtQuiet
    <3>5. HasRow(b)' => active_streams'[b].deployed = active_streams[b].deployed
      BY <1>2
    <3> QED
      BY <1>3, <2>2, <3>1, <3>2, <3>3, <3>4, <3>5 DEF Follows
  <2>5. ~standalone => Operated(p)'
    BY <1>1, <2>2 DEF DashboardOk, Operated
  <2> QED
    BY <1>2, <2>2, <2>3, <2>4, <2>5 DEF DashboardOk
<1> QED
  BY <1>4, <1>5

(* What a dashboard that a message reaches will show. *)
LEMMA PublishedLatest ==
    ASSUME ClientType, NEW p \in Peer, NEW b \in Broadcaster, NEW s \in Status,
           Published(p, b, s), peer[p].b = b, s \in peer[p].subs
    PROVE  /\ Uses(p, s)'
           /\ \A r \in Status \ {s} : Uses(p, r)' <=> Uses(p, r)
<1>1. /\ peer[p].pending[s] \in Nat
      /\ \A r \in Status : peer'[p].pending[r] =
                peer[p].pending[r] + (IF r = s THEN 1 ELSE 0)
  BY DEF ClientType, Websocket, Published
<1>2. Uses(p, s)'
  BY <1>1 DEF Uses
<1>3. ASSUME NEW r \in Status \ {s}
      PROVE  Uses(p, r)' <=> Uses(p, r)
  <2>1. peer'[p].pending[r] = peer[p].pending[r]
    BY <1>1, <1>3 DEF ClientType, Websocket
  <2> QED
    BY <2>1 DEF Uses, Published
<1> QED
  BY <1>2, <1>3

(* The dashboards of others hear nothing. *)
LEMMA PublishedElsewhere ==
    ASSUME ClientType, ClientType', NEW p \in Peer, NEW b, NEW s \in Status,
           Published(p, b, s), peer[p].b # b
    PROVE  SameSocket(p)
<1>1. /\ peer[p].pending \in [Status -> Nat]
      /\ peer'[p].pending \in [Status -> Nat]
  BY DEF ClientType, Websocket
<1>2. \A r \in Status : peer'[p].pending[r] = peer[p].pending[r]
  BY <1>1 DEF Published
<1>3. peer'[p].pending = peer[p].pending
  BY <1>1, <1>2
<1> QED
  BY <1>3 DEF SameSocket, Published

(* The stub's ingest is deployed: its dashboards, quiet since the request, *)
(* will show that.                                                         *)
LEMMA DeployedPages ==
    ASSUME ~ControllerFails, PagesInv, NEW c \in Call, Deployed(c),
           NEW p \in Peer, NEW b \in Broadcaster, Untroubled(p, b)'
    PROVE  DashboardOk(p, b)'
<1>1. standalone /\ StreamsOk /\ call[c].pc = "start_server" /\ IInv
  BY DEF Deployed, StandaloneStartServer, PagesInv, FollowInv
<1>2. PICK b0 \in Broadcaster :
        /\ TypeOK /\ call[c].b = b0 /\ InHand(c, b0)
        /\ \A d \in Call \ {c} : ~Serves(d, b0)
  BY <1>1, AtWork DEF Sound
<1>3. /\ ClientType /\ ClientType'
      /\ Published(p, b0, "deployed")
  <2>1. Publish(b0, "deployed") /\ UNCHANGED shown
    BY <1>2 DEF Deployed
  <2> QED
    BY <2>1, PublishSockets DEF PagesInv, Status
<1>4. Untroubled(p, b) /\ DashboardOk(p, b)
  <2>1. Untroubled(p, b)
    BY <1>3 DEF Untroubled, Published
  <2> QED
    BY <2>1 DEF PagesInv, DashboardsOk
<1>5. /\ UNCHANGED <<standalone, active_streams, tx, destroyed, inbox, worker>>
      /\ deployed' = Append(deployed, b0)
      /\ \A d \in Call \ {c} : call'[d] = call[d]
      /\ call'[c].pc = "insert" /\ call'[c].b = b0
  BY <1>2, GoesOn DEF Deployed, StandaloneStartServer, db, env, Location
<1>6. /\ Pending(b)' <=> Pending(b)
      /\ HasRow(b)' <=> HasRow(b)
      /\ Unacked(b)' <=> Unacked(b)
  BY <1>5, SamePending DEF HasRow, Unacked
<1>7. CASE b # b0
  <2>1. SameSocket(p)
    BY <1>3, <1>4, <1>7, PublishedElsewhere DEF Untroubled, Status
  <2>2. Unmarked(b) => Unmarked(b)'
    <3>1. \A i \in DOMAIN deployed' :
            deployed'[i] = b0 \/ (i \in DOMAIN deployed /\ deployed'[i] = deployed[i])
      BY <1>2, <1>5, LenProperties DEF TypeOK
    <3> QED
      BY <1>5, <1>7, <3>1 DEF Unmarked, Locked
  <2> QED
    BY <1>2, <1>4, <1>5, <1>6, <1>7, <2>1, <2>2, KeptDashboard DEF Serves, PendingKept
<1>8. CASE b = b0
  <2>1. Serves(c, b) /\ ~Pending(b)
    BY <1>2, <1>8 DEF InHand
  <2>2. Quiet(p)
    BY <1>1, <1>4, <2>1 DEF DashboardOk, Follows
  <2>3. /\ Uses(p, "deployed")' /\ ~Uses(p, "destroyed")'
        /\ peer'[p].initial = "done" /\ peer'[p].subs = Status /\ peer'[p].clash = {}
        /\ "handler" \notin peer'[p].writing
    <3>1. ~Uses(p, "destroyed")
      BY <2>2 DEF Quiet, Uses, Nothing, Status
    <3>2. Uses(p, "deployed")' /\ ~Uses(p, "destroyed")'
      BY <1>3, <1>4, <1>8, <2>2, <3>1, PublishedLatest DEF Untroubled, Quiet, Status
    <3> QED
      BY <1>3, <1>4, <2>2, <3>2 DEF Published, Quiet, DashboardOk, OneWriter
  <2>4. OneWriter(p)' /\ StillCalm(p, b)' /\ Latest(p)' = "deployed"
    BY <2>3 DEF OneWriter, StillCalm, Latest
  <2>5. \A d \in Call : Serves(d, b)' <=> d = c
    BY <1>2, <1>5, <1>8 DEF Serves
  <2>6. Follows(p, b)'
    BY <1>5, <1>6, <2>1, <2>4, <2>5 DEF Follows
  <2> QED
    BY <1>1, <1>5, <2>4, <2>6 DEF DashboardOk
<1> QED
  BY <1>7, <1>8

(* A handler that goes on, seen from outside its request. *)
LEMMA HandlerOutside ==
    ASSUME IInv, NEW c \in Call, HandlerGoesOn(c)
    PROVE  /\ call[c].pc # "idle"
           /\ UNCHANGED <<standalone, deployed, tx, inbox, worker>>
           /\ \A d \in Call \ {c} : call'[d] = call[d]
           /\ call'[c].pc # "idle" => call'[c].b = call[c].b
           /\ \A a \in Broadcaster \ {call[c].b} :
                active_streams'[a] = active_streams[a] /\ PendingKept(a)
           /\ \A a \in Broadcaster : Unacked(a) => Unacked(a)'
<1>1. HandlerStep(c) /\ TypeOK
  BY DEF HandlerStep, IInv
<1>2. UNCHANGED deployed
  BY DEF HandlerGoesOn, OperatorStartServer, OperatorCreated, OperatorNotCreated, InsertRow,
     InsertDuplicate, InsertError, StopGet, StopDelete, StopServer, bus
<1>3. \A a \in Broadcaster : Unacked(a) => Unacked(a)'
  BY <1>1, HandlerFrame, PublishedUnacked, ClearedUnacked DEF Unacked
<1> QED
  BY <1>1, <1>2, <1>3, HandlerFrame

(* A request that is answered serves nobody. *)
LEMMA AnsweredServes ==
    ASSUME TypeOK, NEW c \in Call, NEW answer, Reply(c, answer)
    PROVE  \A b : ~Serves(c, b)'
BY DEF TypeOK, Reply, Idle, Serves

(* In standalone mode a request has a dashboard that follows it.           *)
LEMMA HandledFollows ==
    ASSUME IInv, StreamsOk, standalone, ~ControllerFails,
           NEW c \in Call, HandlerGoesOn(c), call'[c].pc # "undo", ~StopCutShort(c),
           NEW p \in Peer, NEW b \in Broadcaster, call[c].b = b, SameSocket(p),
           Follows(p, b)
    PROVE  Follows(p, b)'
<1>1. /\ TypeOK /\ InHand(c, b) /\ call[c] \in Request
      /\ \A d \in Call \ {c} : ~Serves(d, b)
  BY AtWork, HandlerOutside DEF TypeOK, Sound
<1>2. /\ UNCHANGED <<standalone, deployed, tx, inbox, worker>>
      /\ \A d \in Call \ {c} : ~Serves(d, b)'
  BY <1>1, HandlerOutside DEF Serves
<1>3. /\ Quiet(p)' <=> Quiet(p)
      /\ Latest(p)' = Latest(p)
      /\ Uses(p, "deployed")' <=> Uses(p, "deployed")
  BY SocketSame DEF Status
<1>4. Serves(c, b) /\ ~Pending(b) /\ (HasRow(b) <=> call[c].pc \in WithRow)
  BY <1>1 DEF InHand, Follows, AtQuiet
<1>5. Quiet(p) => ~Uses(p, "deployed")
  BY DEF Quiet, Uses, Nothing, Status
<1>6. CASE InsertRow(c)
  <2>1. HasRow(b)'
    BY <1>1, <1>6, InsertedRow DEF InsertRow, HasRow
  <2>2. ~Pending(b)'
    BY <1>2, <1>4, <1>6, SamePending DEF InsertRow, bus
  <2>3. ~Serves(c, b)'
    BY <1>1, <1>6, AnsweredServes DEF InsertRow
  <2>4. Latest(p) = "deployed"
    BY <1>1, <1>4, <1>6 DEF Follows, InsertRow, AtQuiet
  <2> QED
    BY <1>1, <1>2, <1>3, <2>1, <2>2, <2>3, <2>4 DEF Follows
<1>7. CASE InsertDuplicate(c) \/ InsertError(c)
  <2>1. call[c].pc = "insert"
    BY <1>7 DEF InsertDuplicate, InsertError
  <2>2. ~InsertDuplicate(c)
    BY <1>1, <1>4, <2>1 DEF InsertDuplicate, WithRow
  <2>3. ~InsertError(c)
    BY <1>1, GoesOn DEF InsertError, Location
  <2> QED
    BY <1>7, <2>2, <2>3
<1>8. CASE StopGet(c)
  <2>1. /\ call[c].pc = "stop_get" /\ HasRow(b) /\ Quiet(p)
        /\ UNCHANGED <<active_streams, tx, deployed, destroyed, inbox, worker>>
    BY <1>1, <1>4, <1>8 DEF StopGet, WithRow, Follows, db, bus
  <2>2. ~Serves(c, b)' \/ call'[c].pc = "stop_delete"
    <3>1. CASE Goto(c, "stop_delete")
      BY <1>1, <3>1, GoesOn DEF Location
    <3>2. CASE \E answer : Reply(c, answer)
      BY <1>1, <3>2, AnsweredServes
    <3> QED
      BY <1>8, <3>1, <3>2 DEF StopGet
  <2>3. ~Pending(b)'
    BY <1>4, <2>1, SamePending
  <2>4. HasRow(b)' /\ (Unmarked(b)' <=> Unmarked(b))
    BY <2>1 DEF HasRow, Unmarked, Locked
  <2> QED
    BY <1>1, <1>2, <1>3, <2>1, <2>2, <2>3, <2>4 DEF Follows, AtQuiet
<1>9. CASE StopDelete(c)
  <2>1. call[c].pc = "stop_delete" /\ HasRow(b) /\ Quiet(p)
    BY <1>1, <1>4, <1>9 DEF StopDelete, WithRow, Follows
  <2>2. CASE DeleteRow(b) /\ Goto(c, "stop_server")
    <3>1. ~HasRow(b)' /\ ~Pending(b)'
      BY <1>1, <1>2, <1>4, <2>2, DeletedFollows DEF PendingKept
    <3>2. call'[c].pc = "stop_server" /\ call'[c].b = b
      BY <1>1, <2>2, GoesOn DEF Location
    <3> QED
      BY <1>2, <1>3, <2>1, <3>1, <3>2 DEF Follows, AtQuiet, Serves
  <2>3. CASE UNCHANGED <<db, destroyed>> /\ \E answer : Reply(c, answer)
    <3>1. ~Serves(c, b)'
      BY <1>1, <2>3, AnsweredServes
    <3>2. ~Pending(b)' /\ HasRow(b)' /\ (Unmarked(b)' <=> Unmarked(b)) /\ UNCHANGED active_streams
      BY <1>2, <1>4, <2>1, <2>3, SamePending DEF HasRow, Unmarked, Locked, db
    <3> QED
      BY <1>1, <1>2, <1>3, <2>1, <3>1, <3>2 DEF Follows
  <2> QED
    <3>1. ASSUME DeleteRow(b), Reply(c, "error")
          PROVE  FALSE
      BY <1>1, <2>1, <3>1, StreamServiceAssumption
         DEF StopCutShort, DeleteRow, Reply, Idle, TypeOK
    <3> QED
      BY <1>1, <1>9, <2>2, <2>3, <3>1 DEF StopDelete
<1>10. CASE StopServer(c)
  <2>1. call[c].pc = "stop_server" /\ Quiet(p) /\ ~HasRow(b)
    BY <1>1, <1>4, <1>10 DEF StopServer, WithRow, Follows, AtQuiet
  <2>2. PublishDestroyed(b) /\ (\E answer : Reply(c, answer)) /\ UNCHANGED active_streams
    BY <1>1, <1>10 DEF StopServer, db
  <2>3. Unacked(b)' /\ ~Serves(c, b)' /\ ~HasRow(b)'
    BY <1>1, <2>1, <2>2, PublishedUnacked, AnsweredServes DEF HasRow
  <2> QED
    BY <1>2, <1>3, <1>5, <2>1, <2>3 DEF Follows
<1>11. CASE OperatorStartServer(c) \/ OperatorCreated(c) \/ OperatorNotCreated(c)
  BY <1>1, <1>11, NotCreatedNever DEF Sound, OperatorStartServer, OperatorCreated, InHand
<1> QED
  BY <1>1, <1>6, <1>7, <1>8, <1>9, <1>10, <1>11 DEF HandlerGoesOn

LEMMA HandledPages ==
    ASSUME ~ControllerFails, PagesInv, NEW c \in Call, Handled(c),
           NEW p \in Peer, NEW b \in Broadcaster, Untroubled(p, b)'
    PROVE  DashboardOk(p, b)'
<1>1. IInv /\ HandlerGoesOn(c) /\ SameSocket(p)
  BY TroubleOnly DEF PagesInv, Handled
<1>2. Untroubled(p, b) /\ DashboardOk(p, b)
  BY <1>1, SocketSame DEF PagesInv, DashboardsOk
<1>3. /\ call[c].pc # "idle"
      /\ UNCHANGED <<standalone, deployed, tx, inbox, worker>>
      /\ \A d \in Call \ {c} : call'[d] = call[d]
      /\ call'[c].pc # "idle" => call'[c].b = call[c].b
      /\ \A a \in Broadcaster \ {call[c].b} :
            active_streams'[a] = active_streams[a] /\ PendingKept(a)
      /\ \A a \in Broadcaster : Unacked(a) => Unacked(a)'
  BY <1>1, HandlerOutside
<1>4. CASE b # call[c].b
  <2>1. \A d \in Call : Serves(d, b) \/ Serves(d, b)' => call'[d] = call[d]
    BY <1>3, <1>4 DEF Serves
  <2>2. Unmarked(b)' <=> Unmarked(b)
    BY <1>3 DEF Unmarked, Locked
  <2> QED
    BY <1>1, <1>2, <1>3, <1>4, <2>1, <2>2, KeptDashboard DEF HasRow
<1>5. CASE b = call[c].b
  <2>1. OneWriter(p)'
    BY <1>1, <1>2, SocketSame DEF DashboardOk
  <2>2. StillCalm(p, b)'
    <3>1. Serves(c, b)
      BY <1>3, <1>5 DEF Serves
    <3> QED
      BY <1>1, <1>2, <3>1 DEF DashboardOk, StillCalm, Calm, SameSocket
  <2>3. ASSUME standalone
        PROVE  Follows(p, b)'
    <3>1. call'[c].pc # "undo" /\ ~StopCutShort(c)
      <4>1. peer' = [q \in Peer |-> [peer[q] EXCEPT
                        !.troubled = @ \/ (peer[q].b = call[c].b /\ (call'[c].pc = "undo" \/ StopCutShort(c)))]]
        BY DEF Handled, Trouble
      <4>2. peer'[p].troubled =
                (peer[p].troubled \/ (peer[p].b = call[c].b /\ (call'[c].pc = "undo" \/ StopCutShort(c))))
        BY <4>1 DEF PagesInv, ClientType, Websocket
      <4> QED
        BY <1>2, <1>5, <4>2 DEF Untroubled
    <3>2. Follows(p, b) /\ StreamsOk
      BY <1>2, <2>3 DEF DashboardOk, PagesInv, FollowInv
    <3> QED
      BY <1>1, <1>5, <2>3, <3>1, <3>2, HandledFollows
  <2>4. ~standalone => Operated(p)'
    BY <1>1, <1>2, SocketSame DEF DashboardOk, Operated
  <2> QED
    BY <1>3, <2>1, <2>2, <2>3, <2>4 DEF DashboardOk
<1> QED
  BY <1>4, <1>5

(* A row that nothing marks keeps its mark while the status worker works.  *)
LEMMA StatusMarks ==
    ASSUME IInv, LoseDeployed \/ StatusStep, NEW b \in Broadcaster, Unmarked(b)
    PROVE  /\ Unmarked(b)'
           /\ active_streams'[b] = active_streams[b]
<1>1. TypeOK /\ ~Locked(b) /\ \A i \in DOMAIN deployed : deployed[i] # b
  BY DEF IInv, Unmarked
<1>2. CASE LoseDeployed \/ StatusUpdate
  <2>1. /\ deployed # <<>> /\ deployed' = Tail(deployed)
        /\ UNCHANGED active_streams
        /\ tx' = tx \/ tx' = [b |-> Head(deployed), inserted |-> FALSE]
    BY <1>2 DEF LoseDeployed, StatusUpdate, db
  <2>2. /\ 1 \in DOMAIN deployed /\ Head(deployed) = deployed[1]
        /\ \A i \in DOMAIN deployed' : i + 1 \in DOMAIN deployed /\ deployed'[i] = deployed[i + 1]
    BY <1>1, <2>1, HeadTailProperties, LenProperties DEF TypeOK
  <2> QED
    BY <1>1, <2>1, <2>2 DEF Unmarked, Locked
<1>3. CASE StatusInsert
  <2>1. UNCHANGED <<active_streams, deployed>> /\ (tx' = None \/ (tx'.b = tx.b /\ tx # None))
    BY <1>1, <1>3 DEF StatusInsert, bus, TypeOK, Transaction
  <2> QED
    BY <1>1, <2>1 DEF Unmarked, Locked
<1>4. CASE StatusCommit
  <2>1. tx # None /\ tx' = None /\ UNCHANGED deployed
    BY <1>4 DEF StatusCommit, bus
  <2>2. active_streams'[b] = active_streams[b]
    BY <1>1, <1>4, <2>1 DEF StatusCommit, Locked, TypeOK
  <2> QED
    BY <1>1, <2>1, <2>2 DEF Unmarked, Locked
<1> QED
  BY <1>2, <1>3, <1>4 DEF StatusStep

LEMMA WorkedPages ==
    ASSUME ~ControllerFails, PagesInv, Worked,
           NEW p \in Peer, NEW b \in Broadcaster, Untroubled(p, b)'
    PROVE  DashboardOk(p, b)'
<1>1. IInv /\ SameSocket(p) /\ Untroubled(p, b) /\ DashboardOk(p, b)
  <2>1. SameSocket(p)
    BY DEF Worked, client, SameSocket
  <2> QED
    BY <2>1, SocketSame DEF PagesInv, DashboardsOk
<1>2. standalone => StreamsOk
  BY DEF PagesInv, FollowInv
<1>3. CASE LoseDeployed \/ StatusStep
  <2>1. /\ UNCHANGED <<standalone, call, destroyed, inbox, worker>>
        /\ HasRow(b)' <=> HasRow(b)
    BY <1>1, <1>3, StatusKeeps
  <2>2. PendingKept(b) /\ (Unacked(b) => Unacked(b)')
    BY <2>1, SamePending DEF PendingKept, Unacked
  <2>3. Unmarked(b) => Unmarked(b)' /\ active_streams'[b] = active_streams[b]
    BY <1>1, <1>3, StatusMarks
  <2> QED
    BY <1>1, <2>1, <2>2, <2>3, KeptDashboard
<1>4. CASE DestroyedDelete
  <2>1. UNCHANGED <<standalone, call, tx, deployed>>
    BY <1>4 DEF DestroyedDelete, DeleteRow, db, env
  <2>2. PendingKept(b)
    BY <1>1, <1>4, DeleteKeeps
  <2>3. Unmarked(b) => Unmarked(b)'
    BY <2>1 DEF Unmarked, Locked
  <2>4. /\ Unacked(b) => Unacked(b)'
        /\ HasRow(b)' => active_streams'[b] = active_streams[b]
    <3>1. PICK a \in Broadcaster : DeleteRow(a) \/ UNCHANGED <<active_streams, destroyed>>
      BY <1>1, <1>4, DeleteKeeps
    <3>2. DeleteRow(a) => ClearedBy(a) /\ (HasRow(b)' => active_streams'[b] = active_streams[b])
      BY <1>1 DEF DeleteRow, HasRow, IInv, TypeOK
    <3> QED
      BY <1>1, <3>1, <3>2, ClearedUnacked DEF Unacked, IInv
  <2>5. standalone => (HasRow(b)' <=> HasRow(b))
    <3>1. PICK a \in Broadcaster :
            /\ Pending(a)
            /\ DeleteRow(a) \/ UNCHANGED <<active_streams, destroyed>>
            /\ \A e \in Broadcaster \ {a} : HasRow(e)' <=> HasRow(e)
      BY <1>1, <1>4, DeleteKeeps
    <3>2. standalone => (Pending(b) => ~HasRow(b))
      BY <1>1 DEF DashboardOk, Follows
    <3> QED
      BY <1>1, <3>1, <3>2 DEF DeleteRow, HasRow, IInv, TypeOK
  <2> QED
    BY <1>1, <2>1, <2>2, <2>3, <2>4, <2>5, KeptDashboard
<1>5. ASSUME NEW m \in DOMAIN destroyed, Deliver(m)
      PROVE  DashboardOk(p, b)'
  <2>1. UNCHANGED <<standalone, call, active_streams, tx, deployed>>
    BY <1>5 DEF Deliver, db, env
  <2>2. PendingKept(b) /\ (Unacked(b) => Unacked(b)')
    BY <1>1, <1>5, DeliverKeeps, UnackedStays
  <2>3. /\ HasRow(b)' <=> HasRow(b)
        /\ Unmarked(b) => Unmarked(b)'
    BY <2>1 DEF HasRow, Unmarked, Locked
  <2> QED
    BY <1>1, <2>1, <2>2, <2>3, KeptDashboard
<1> QED
  BY <1>3, <1>4, <1>5 DEF Worked

(* The end of an ingest that is given up is trouble for its dashboards.    *)
LEMMA BegunPages ==
    ASSUME PagesInv, Begun, NEW p \in Peer, NEW b \in Broadcaster, Untroubled(p, b)'
    PROVE  DashboardOk(p, b)'
<1>1. IInv /\ TypeOK /\ DestroyedBegin /\ SameSocket(p)
  BY TroubleOnly DEF PagesInv, Begun, IInv
<1>2. Untroubled(p, b) /\ DashboardOk(p, b)
  BY <1>1, SocketSame DEF PagesInv, DashboardsOk
<1>3. /\ UNCHANGED <<standalone, call, active_streams, tx, deployed>>
      /\ Head(inbox).msg \in DOMAIN destroyed
      /\ PendingKept(b)
  BY <1>1, BeginKeeps DEF DestroyedBegin, db
<1>4. Unacked(b) => Unacked(b)'
  <2>1. CASE UNCHANGED destroyed
    BY <2>1 DEF Unacked
  <2>2. CASE Ack(Head(inbox).msg) /\ worker' = None
    <3>1. destroyed[Head(inbox).msg].b # b
      <4>1. peer' = [q \in Peer |-> [peer[q] EXCEPT !.troubled =
                    @ \/ (peer[q].b = destroyed[Head(inbox).msg].b /\ worker' = None)]]
        BY DEF Begun, Trouble
      <4>2. peer'[p].troubled = (peer[p].troubled \/
                    (peer[p].b = destroyed[Head(inbox).msg].b /\ worker' = None))
        BY <4>1 DEF PagesInv, ClientType, Websocket
      <4> QED
        BY <1>2, <2>2, <4>2 DEF Untroubled
    <3>2. \A m \in DOMAIN destroyed :
            /\ m \in DOMAIN destroyed'
            /\ destroyed'[m].b = destroyed[m].b
            /\ destroyed[m].b = b => destroyed'[m].acked = destroyed[m].acked
      BY <1>1, <1>3, <2>2, <3>1, AckedMessage, BeginKeeps
    <3> QED
      BY <3>2, UnackedStays
  <2> QED
    BY <1>1, <2>1, <2>2 DEF DestroyedBegin
<1>5. /\ HasRow(b)' <=> HasRow(b)
      /\ Unmarked(b) => Unmarked(b)'
  BY <1>3 DEF HasRow, Unmarked, Locked
<1> QED
  BY <1>1, <1>2, <1>3, <1>4, <1>5, KeptDashboard

(* The notification of an end reaches dashboards that have shown what was  *)
(* deployed, and subscribe to it.                                          *)
LEMMA NotifiedPages ==
    ASSUME ~ControllerFails, PagesInv, Notified,
           NEW p \in Peer, NEW b \in Broadcaster, Untroubled(p, b)'
    PROVE  DashboardOk(p, b)'
<1>1. IInv /\ TypeOK /\ DestroyedNotify /\ worker # None
  BY DEF PagesInv, Notified, DestroyedNotify, IInv
<1>2. /\ UNCHANGED <<standalone, call, active_streams, tx, deployed>>
      /\ worker.msg \in DOMAIN destroyed
      /\ \A a \in Broadcaster : PendingKept(a)
  BY <1>1, NotifyKeeps DEF DestroyedNotify, db
<1>3. PICK b0 \in Broadcaster : destroyed[worker.msg].b = b0
  BY <1>1, <1>2, MessageAt DEF Message
<1>4. ClientType /\ ClientType' /\ Published(p, b0, "destroyed")
  <2>1. Publish(b0, "destroyed") /\ UNCHANGED shown
    BY <1>3 DEF Notified
  <2> QED
    BY <2>1, PublishSockets DEF PagesInv, Status
<1>5. Untroubled(p, b) /\ DashboardOk(p, b)
  <2>1. Untroubled(p, b)
    BY <1>4 DEF Untroubled, Published
  <2> QED
    BY <2>1 DEF PagesInv, DashboardsOk
<1>6. /\ HasRow(b)' <=> HasRow(b)
      /\ Unmarked(b) => Unmarked(b)'
      /\ \A c \in Call : Serves(c, b)' <=> Serves(c, b)
  BY <1>2 DEF HasRow, Unmarked, Locked, Serves
<1>7. CASE b # b0
  <2>1. SameSocket(p)
    BY <1>4, <1>5, <1>7, PublishedElsewhere DEF Untroubled, Status
  <2>2. \A m \in DOMAIN destroyed :
            /\ m \in DOMAIN destroyed'
            /\ destroyed'[m].b = destroyed[m].b
            /\ destroyed[m].b = b => destroyed'[m].acked = destroyed[m].acked
    <3>1. Ack(worker.msg)
      BY <1>1 DEF DestroyedNotify
    <3> QED
      BY <1>1, <1>2, <1>3, <1>7, <3>1, AckedMessage, NotifyKeeps
  <2>3. Unacked(b) => Unacked(b)'
    BY <2>2, UnackedStays
  <2> QED
    BY <1>2, <1>5, <1>6, <2>1, <2>3, KeptDashboard
<1>8. CASE b = b0
  <2>1. Pending(b)
    BY <1>1, <1>2, <1>3, <1>8 DEF Pending, AtClient
  <2>2. peer[p].initial = "done" /\ peer[p].subs = Status
    BY <1>5, <2>1 DEF DashboardOk, StillCalm, Calm
  <2>3. ~Uses(p, "deployed")
    BY <1>5, <2>1 DEF DashboardOk, Follows, Operated, Latest
  <2>4. /\ Uses(p, "destroyed")' /\ ~Uses(p, "deployed")'
        /\ peer'[p].initial = "done" /\ peer'[p].subs = Status /\ peer'[p].clash = {}
        /\ "handler" \notin peer'[p].writing
    <3>1. Uses(p, "destroyed")' /\ ~Uses(p, "deployed")'
      BY <1>4, <1>5, <1>8, <2>2, <2>3, PublishedLatest DEF Untroubled, Status
    <3> QED
      BY <1>4, <1>5, <2>2, <3>1 DEF Published, DashboardOk, OneWriter, Status
  <2>5. OneWriter(p)' /\ StillCalm(p, b)' /\ Latest(p)' = "destroyed"
    BY <2>4 DEF OneWriter, StillCalm, Latest
  <2>6. ASSUME standalone
        PROVE  Follows(p, b)'
    <3>1. ~HasRow(b) /\ \A c \in Call : ~Serves(c, b)
      BY <1>5, <2>1, <2>6
         DEF PagesInv, FollowInv, StreamsOk, Sound, StreamOk, InHand, DashboardOk, Follows
    <3> QED
      BY <1>6, <2>4, <2>5, <3>1 DEF Follows
  <2> QED
    BY <1>2, <2>5, <2>6 DEF DashboardOk, Operated
<1> QED
  BY <1>7, <1>8

(* Who connects no more has nothing to keep. *)
LEMMA EndedPages ==
    ASSUME Ended
    PROVE  \A p \in Peer, b \in Broadcaster : ~Untroubled(p, b)'
BY StreamServiceAssumption DEF Ended, Untroubled, Closed

------------------------------------------------------------------------------
(* A dashboard stays right: one lemma per step of its own. *)

(* Its own steps leave everything about streams alone. *)
LEMMA ServiceSame ==
    ASSUME UNCHANGED vars, NEW b
    PROVE  /\ standalone' = standalone
           /\ \A c \in Call : call'[c] = call[c] /\ (Serves(c, b)' <=> Serves(c, b))
           /\ Pending(b)' <=> Pending(b)
           /\ Unmarked(b)' <=> Unmarked(b)
           /\ Calm(b)' <=> Calm(b)
           /\ HasRow(b)' <=> HasRow(b)
           /\ Unacked(b)' <=> Unacked(b)
           /\ active_streams'[b] = active_streams[b]
<1>1. UNCHANGED <<standalone, call, active_streams, tx, deployed, destroyed, inbox, worker>>
  BY DEF vars, db, bus, env
<1>2. \A c \in Call : call'[c] = call[c] /\ (Serves(c, b)' <=> Serves(c, b))
  BY <1>1 DEF Serves
<1>3. /\ Pending(b)' <=> Pending(b)
      /\ Unmarked(b)' <=> Unmarked(b)
  BY <1>1, SamePending DEF Unmarked, Locked
<1>4. Calm(b)' <=> Calm(b)
  BY <1>2, <1>3 DEF Calm
<1> QED
  BY <1>1, <1>2, <1>3, <1>4 DEF HasRow, Unacked

(* The other dashboards do not notice. *)
LEMMA OthersPages ==
    ASSUME PagesInv, NEW p \in Peer, UNCHANGED vars,
           peer'[p] = peer[p], shown'[p] = shown[p],
           NEW b \in Broadcaster, Untroubled(p, b)'
    PROVE  DashboardOk(p, b)'
<1>1. SameSocket(p)
  BY DEF SameSocket
<1>2. DashboardOk(p, b)
  BY <1>1, SocketSame DEF PagesInv, DashboardsOk
<1> QED
  BY <1>1, <1>2, ServiceSame, KeptDashboard DEF PendingKept

(* A dashboard is right if what it shows in the end stays the same.        *)
LEMMA SameLatest ==
    ASSUME NEW p \in Peer, UNCHANGED vars, NEW b \in Broadcaster, DashboardOk(p, b),
           OneWriter(p)', StillCalm(p, b)', Latest(p)' = Latest(p),
           Calm(b) \/ (Uses(p, "deployed")' => Uses(p, "deployed")),
           Quiet(p) => Quiet(p)'
    PROVE  DashboardOk(p, b)'
<1>1. ASSUME standalone
      PROVE  Follows(p, b)'
  <2>1. Follows(p, b)
    BY <1>1 DEF DashboardOk
  <2>2. Calm(b) => ~Pending(b)
    BY DEF Calm
  <2>3. \A c \in Call : Serves(c, b)' =>
            \/ call'[c].pc \in AtQuiet /\ Quiet(p)'
            \/ call'[c].pc = "insert" /\ Latest(p)' = "deployed"
    BY <2>1, ServiceSame DEF Follows
  <2>4. Pending(b)' => ~Uses(p, "deployed")' /\ ~HasRow(b)'
    BY <2>1, <2>2, ServiceSame DEF Follows
  <2>5. Latest(p)' = "deployed" =>
            HasRow(b)' \/ Unacked(b)' \/ \E c \in Call : Serves(c, b)'
    BY <2>1, ServiceSame DEF Follows
  <2>6. Latest(p)' = "destroyed" /\ HasRow(b)' =>
            ~active_streams'[b].deployed /\ Unmarked(b)'
    BY <2>1, ServiceSame DEF Follows
  <2> QED
    BY <2>3, <2>4, <2>5, <2>6 DEF Follows
<1>2. ~standalone => Operated(p)'
  BY DEF DashboardOk, Operated
<1> QED
  BY <1>1, <1>2, ServiceSame DEF DashboardOk

(* A dashboard is opened while nothing is under way about its stream. *)
LEMMA OpenPages ==
    ASSUME PagesInv, NEW p \in Peer, NEW b0 \in Broadcaster, Open(p, b0),
           NEW b \in Broadcaster, Untroubled(p, b)'
    PROVE  DashboardOk(p, b)'
<1>1. /\ peer'[p] = [Closed EXCEPT !.b = b0, !.troubled = ~Settled(b0)]
      /\ UNCHANGED vars
  BY DEF Open, PagesInv, ClientType
<1>2. b = b0 /\ Settled(b)
  BY <1>1 DEF Untroubled, Closed
<1>3. Calm(b)
  <2>1. ~Pending(b)
    BY <1>2 DEF Settled, Pending, AtClient
  <2> QED
    BY <1>2, <2>1 DEF Settled, Calm, Unmarked, Serves
<1>4. /\ peer'[p].initial = "todo" /\ peer'[p].clash = {} /\ peer'[p].writing = {}
      /\ peer'[p].pending = Nothing /\ peer'[p].wire = Nothing
  BY <1>1 DEF Closed
<1>5. ~Uses(p, "deployed")' /\ ~Uses(p, "destroyed")'
  BY <1>4 DEF Uses, Nothing, Status
<1>6. OneWriter(p)' /\ Latest(p)' = "todo"
  BY <1>4, <1>5 DEF OneWriter, Latest
<1>7. Calm(b)'
  BY <1>1, <1>3, ServiceSame
<1> QED
  BY <1>5, <1>6, <1>7 DEF DashboardOk, StillCalm, Follows, Operated, Calm

LEMMA SubscribePages ==
    ASSUME PagesInv, NEW p \in Peer, NEW s \in Status, Subscribe(p, s),
           NEW b \in Broadcaster, Untroubled(p, b)'
    PROVE  DashboardOk(p, b)'
<1>1. peer[p] \in Websocket /\ UNCHANGED <<vars, shown>>
  BY DEF PagesInv, ClientType, Subscribe, Change
<1>2. peer'[p] = [peer[p] EXCEPT !.subs = @ \cup {s}]
  BY DEF Subscribe, Change, PagesInv, ClientType
<1>3. /\ peer'[p].b = peer[p].b /\ peer'[p].troubled = peer[p].troubled
      /\ peer'[p].initial = peer[p].initial
      /\ peer'[p].pending = peer[p].pending /\ peer'[p].writing = peer[p].writing
      /\ peer'[p].clash = peer[p].clash /\ peer'[p].wire = peer[p].wire
      /\ peer'[p].subs = peer[p].subs \cup {s} /\ peer[p].subs \subseteq Status
  BY <1>1, <1>2 DEF Websocket
<1>4. DashboardOk(p, b)
  BY <1>3 DEF PagesInv, DashboardsOk, Untroubled
<1>5. /\ Uses(p, "deployed")' <=> Uses(p, "deployed")
      /\ Uses(p, "destroyed")' <=> Uses(p, "destroyed")
      /\ Quiet(p) => Quiet(p)'
  BY <1>3 DEF Uses, Quiet
<1>6. OneWriter(p)' /\ Latest(p)' = Latest(p)
  BY <1>1, <1>3, <1>4, <1>5 DEF DashboardOk, OneWriter, Latest
<1>7. StillCalm(p, b)'
  BY <1>1, <1>3, <1>4, ServiceSame DEF DashboardOk, StillCalm
<1> QED
  BY <1>1, <1>4, <1>5, <1>6, <1>7, SameLatest

(* The message that is shown was the only kind on its way. *)
LEMMA ProcessPages ==
    ASSUME PagesInv, NEW p \in Peer, NEW s \in Status, Process(p, s),
           NEW b \in Broadcaster, Untroubled(p, b)'
    PROVE  DashboardOk(p, b)'
<1>1. peer[p] \in Websocket /\ UNCHANGED vars /\ peer[p].wire[s] > 0 /\ shown'[p] = s
  BY DEF PagesInv, ClientType, Process, Change
<1>2. peer'[p] = [peer[p] EXCEPT !.wire[s] = @ - 1]
  BY DEF Process, Change, PagesInv, ClientType
<1>3. /\ peer'[p].b = peer[p].b /\ peer'[p].troubled = peer[p].troubled
      /\ peer'[p].initial = peer[p].initial /\ peer'[p].subs = peer[p].subs
      /\ peer'[p].pending = peer[p].pending /\ peer'[p].writing = peer[p].writing
      /\ peer'[p].clash = peer[p].clash
      /\ \A r \in Status \ {s} : peer'[p].wire[r] = peer[p].wire[r]
  BY <1>1, <1>2 DEF Websocket
<1>4. DashboardOk(p, b)
  BY <1>3 DEF PagesInv, DashboardsOk, Untroubled
<1>5. /\ Uses(p, s) /\ \A r \in Status \ {s} : ~Uses(p, r) /\ ~Uses(p, r)'
      /\ peer[p].initial = "done"
  <2>1. Uses(p, s)
    BY <1>1 DEF Uses
  <2>2. OneWriter(p)
    BY <1>4 DEF DashboardOk
  <2>3. \A r \in Status \ {s} : ~Uses(p, r)
    BY <2>1, <2>2 DEF OneWriter, Status
  <2>4. peer[p].initial = "done"
    BY <2>1, <2>2 DEF OneWriter, Status
  <2>5. \A r \in Status \ {s} : ~Uses(p, r)'
    BY <1>3, <2>3 DEF Uses
  <2> QED
    BY <2>1, <2>3, <2>4, <2>5
<1>6. OneWriter(p)'
  BY <1>3, <1>4, <1>5 DEF DashboardOk, OneWriter, Status
<1>7. Latest(p)' = Latest(p)
  BY <1>1, <1>3, <1>5 DEF Latest, Status
<1>8. StillCalm(p, b)' /\ ~Quiet(p)
  <2>1. peer[p].wire # Nothing
    BY <1>1 DEF Nothing
  <2> QED
    BY <1>1, <1>3, <1>4, <2>1, ServiceSame DEF DashboardOk, StillCalm, Quiet
<1>9. Uses(p, "deployed")' => Uses(p, "deployed")
  BY <1>5 DEF Status
<1> QED
  BY <1>1, <1>4, <1>6, <1>7, <1>8, <1>9, SameLatest

(* What the handler reads is so, and will be when it is shown.             *)
LEMMA ReadStatusPages ==
    ASSUME PagesInv, NEW p \in Peer, ReadStatus(p),
           NEW b \in Broadcaster, Untroubled(p, b)'
    PROVE  DashboardOk(p, b)'
<1>1. peer[p] \in Websocket /\ UNCHANGED <<vars, shown>> /\ peer[p].initial = "todo"
  BY DEF PagesInv, ClientType, ReadStatus, Change
<1>2. PICK failed \in BOOLEAN : peer'[p] = [peer[p] EXCEPT
            !.initial = IF failed THEN "destroyed" ELSE IsRunning(peer[p].b),
            !.troubled = @ \/ failed]
  BY DEF ReadStatus, Change, PagesInv, ClientType
<1>3. /\ peer'[p].b = peer[p].b /\ peer'[p].subs = peer[p].subs
      /\ peer'[p].pending = peer[p].pending /\ peer'[p].writing = peer[p].writing
      /\ peer'[p].clash = peer[p].clash /\ peer'[p].wire = peer[p].wire
      /\ peer'[p].troubled = (peer[p].troubled \/ failed)
      /\ peer'[p].initial = IF failed THEN "destroyed" ELSE IsRunning(peer[p].b)
  BY <1>1, <1>2 DEF Websocket
<1>4. /\ peer[p].b = b /\ DashboardOk(p, b)
      /\ peer'[p].initial = IsRunning(b)
  BY <1>3 DEF PagesInv, DashboardsOk, Untroubled
<1>5. Calm(b) /\ ~Uses(p, "deployed") /\ ~Uses(p, "destroyed")
  BY <1>1, <1>4 DEF DashboardOk, StillCalm, OneWriter
<1>6. ~Uses(p, "deployed")' /\ ~Uses(p, "destroyed")'
  BY <1>3, <1>5 DEF Uses
<1>7. IsRunning(b) \in Status /\ peer'[p].initial # "done"
  BY <1>4 DEF IsRunning, Status
<1>8. OneWriter(p)' /\ Latest(p)' = IsRunning(b)
  BY <1>3, <1>4, <1>6, <1>7 DEF DashboardOk, OneWriter, Latest
<1>9. Calm(b)'
  BY <1>1, <1>5, ServiceSame
<1>10. StillCalm(p, b)'
  BY <1>9 DEF StillCalm
<1>11. Follows(p, b)'
  BY <1>1, <1>5, <1>6, <1>8, <1>9, ServiceSame DEF Follows, Calm, IsRunning
<1>12. ~standalone => Operated(p)'
  BY <1>8 DEF PagesInv, OperatorMode, IsRunning, Operated
<1> QED
  BY <1>1, <1>8, <1>10, <1>11, <1>12, ServiceSame DEF DashboardOk

(* Nobody writes when a writer begins. *)
LEMMA BeginWritePages ==
    ASSUME PagesInv, NEW p \in Peer, NEW w \in Writer, BeginWrite(p, w),
           NEW b \in Broadcaster, Untroubled(p, b)'
    PROVE  DashboardOk(p, b)'
<1> DEFINE Rest == [s \in Status |-> peer[p].pending[s] - (IF s = w THEN 1 ELSE 0)]
           Both == IF peer[p].writing = {} THEN peer[p].clash
                   ELSE peer[p].clash \cup peer[p].writing \cup {w}
<1>1. /\ peer[p] \in Websocket /\ UNCHANGED <<vars, shown>> /\ w \notin peer[p].writing
      /\ IF w = "handler" THEN peer[p].initial \in Status ELSE peer[p].pending[w] > 0
  BY DEF PagesInv, ClientType, BeginWrite, Change
<1>2. peer'[p] = [peer[p] EXCEPT !.writing = @ \cup {w}, !.clash = Both, !.pending = Rest]
  BY DEF BeginWrite, Change, PagesInv, ClientType
<1>3. /\ peer'[p].b = peer[p].b /\ peer'[p].troubled = peer[p].troubled
      /\ peer'[p].initial = peer[p].initial /\ peer'[p].subs = peer[p].subs
      /\ peer'[p].wire = peer[p].wire
      /\ peer'[p].writing = peer[p].writing \cup {w}
      /\ peer'[p].clash = Both /\ peer'[p].pending = Rest
  <2> HIDE DEF Both, Rest
  <2> QED
    BY <1>1, <1>2 DEF Websocket
<1>4. DashboardOk(p, b) /\ OneWriter(p)
  BY <1>3 DEF PagesInv, DashboardsOk, Untroubled, DashboardOk
<1>5. \A s \in Status \ {w} : peer'[p].pending[s] = peer[p].pending[s]
  <2>1. peer[p].pending \in [Status -> Nat]
    BY <1>1 DEF Websocket
  <2> QED
    BY <1>3, <2>1
<1>6. \A s \in Status \ {w} : Uses(p, s)' <=> Uses(p, s)
  BY <1>3, <1>5 DEF Uses
<1>7. peer[p].writing = {}
  <2>1. peer[p].writing \subseteq Writer
    BY <1>1 DEF Websocket
  <2>2. CASE w = "handler"
    <3>1. ~Uses(p, "deployed") /\ ~Uses(p, "destroyed")
      BY <1>1, <1>4, <2>2 DEF OneWriter, Status
    <3> QED
      BY <1>1, <2>1, <2>2, <3>1 DEF Uses, Writer, Status
  <2>3. CASE w \in Status
    <3>1. Uses(p, w)
      BY <1>1, <2>3 DEF Uses, Status
    <3>2. peer[p].initial = "done" /\ \A s \in Status \ {w} : ~Uses(p, s)
      BY <1>4, <2>3, <3>1 DEF OneWriter, Status
    <3>3. "handler" \notin peer[p].writing
      BY <1>4, <3>2 DEF OneWriter, Status
    <3> QED
      BY <1>1, <2>1, <2>3, <3>2, <3>3 DEF Uses, Writer
  <2> QED
    BY <2>2, <2>3 DEF Writer
<1>8. peer'[p].clash = {}
  BY <1>3, <1>4, <1>7 DEF OneWriter
<1>9. w \in Status => Uses(p, w) /\ Uses(p, w)'
  BY <1>1, <1>3 DEF Uses, Status
<1>10. \A s \in Status : Uses(p, s)' <=> Uses(p, s)
  BY <1>6, <1>9
<1>11. OneWriter(p)' /\ Latest(p)' = Latest(p)
  <2>1. w = "handler" => peer[p].initial \in Status
    BY <1>1
  <2>2. "handler" \in peer'[p].writing => w = "handler" \/ "handler" \in peer[p].writing
    BY <1>3
  <2> QED
    BY <1>1, <1>3, <1>4, <1>8, <1>10, <2>1, <2>2 DEF OneWriter, Latest, Status
<1>12. StillCalm(p, b)'
  BY <1>1, <1>3, <1>4, ServiceSame DEF DashboardOk, StillCalm
<1>13. ~Quiet(p)
  <2>1. w \in Status => peer[p].pending # Nothing
    BY <1>1 DEF Nothing, Status
  <2> QED
    BY <1>1, <2>1 DEF Quiet, Writer, Status
<1> QED
  BY <1>1, <1>4, <1>10, <1>11, <1>12, <1>13, SameLatest DEF Status

(* What is written comes whole. *)
LEMMA EndWritePages ==
    ASSUME PagesInv, NEW p \in Peer, NEW w \in Writer, EndWrite(p, w),
           NEW b \in Broadcaster, Untroubled(p, b)'
    PROVE  DashboardOk(p, b)'
<1> DEFINE status == IF w = "handler" THEN peer[p].initial ELSE w
           After == IF w = "handler" THEN "done" ELSE peer[p].initial
<1>1. peer[p] \in Websocket /\ UNCHANGED <<vars, shown>> /\ w \in peer[p].writing
  BY DEF PagesInv, ClientType, EndWrite, Change
<1>2. PICK sent \in {TRUE} \cup (IF w \in peer[p].clash THEN {FALSE} ELSE {}) :
        peer'[p] = [peer[p] EXCEPT
            !.initial = After,
            !.writing = @ \ {w},
            !.clash = @ \ {w},
            !.wire = [s \in Status |-> @[s] + (IF sent /\ s = status THEN 1 ELSE 0)]]
  BY DEF EndWrite, Change, PagesInv, ClientType
<1> DEFINE On == [s \in Status |-> peer[p].wire[s] + (IF sent /\ s = status THEN 1 ELSE 0)]
<1>3. /\ peer'[p].b = peer[p].b /\ peer'[p].troubled = peer[p].troubled
      /\ peer'[p].initial = After /\ peer'[p].subs = peer[p].subs
      /\ peer'[p].pending = peer[p].pending
      /\ peer'[p].writing = peer[p].writing \ {w}
      /\ peer'[p].clash = peer[p].clash \ {w} /\ peer'[p].wire = On
  <2>1. peer'[p] = [peer[p] EXCEPT !.initial = After, !.writing = @ \ {w}, !.clash = @ \ {w},
                                   !.wire = On]
    BY <1>2
  <2> HIDE DEF After, On
  <2> QED
    BY <1>1, <2>1 DEF Websocket
<1>4. DashboardOk(p, b) /\ OneWriter(p)
  BY <1>3 DEF PagesInv, DashboardsOk, Untroubled, DashboardOk
<1>5. sent /\ peer'[p].clash = {}
  BY <1>2, <1>3, <1>4 DEF OneWriter
<1>6. PICK st \in Status : st = status
  BY <1>1, <1>4 DEF OneWriter, Websocket, Writer
<1>7. /\ Uses(p, st)'
      /\ \A s \in Status \ {st} : peer'[p].wire[s] = peer[p].wire[s]
  <2>1. peer[p].wire \in [Status -> Nat]
    BY <1>1 DEF Websocket
  <2>2. /\ peer'[p].wire[st] = peer[p].wire[st] + 1
        /\ \A s \in Status \ {st} : peer'[p].wire[s] = peer[p].wire[s]
    BY <1>3, <1>5, <1>6, <2>1
  <2>3. Uses(p, st)'
    BY <2>1, <2>2 DEF Uses
  <2> QED
    BY <2>2, <2>3
<1>8. ~Quiet(p)
  BY <1>1 DEF Quiet
<1>9. CASE w = "handler"
  <2>1. /\ peer[p].initial \in Status
        /\ ~Uses(p, "deployed") /\ ~Uses(p, "destroyed")
        /\ Calm(b)
    BY <1>1, <1>4, <1>9 DEF OneWriter, Status, DashboardOk, StillCalm
  <2>2. \A s \in Status \ {st} : ~Uses(p, s)'
    BY <1>3, <1>7, <2>1 DEF Uses, Status
  <2>3. OneWriter(p)'
    BY <1>3, <1>5, <1>6, <1>9, <2>2 DEF OneWriter, Status
  <2>4. Latest(p)' = Latest(p)
    BY <1>6, <1>7, <1>9, <2>1, <2>2 DEF Latest, Status
  <2>5. StillCalm(p, b)'
    BY <1>1, <2>1, ServiceSame DEF StillCalm
  <2> QED
    BY <1>1, <1>4, <1>8, <2>1, <2>3, <2>4, <2>5, SameLatest
<1>10. CASE w # "handler"
  <2>1. w \in Status /\ st = w /\ After = peer[p].initial
    BY <1>6, <1>10 DEF Writer
  <2>2. Uses(p, w)
    BY <1>1 DEF Uses
  <2>3. /\ \A s \in Status \ {w} : ~Uses(p, s)
        /\ peer[p].initial = "done"
        /\ "handler" \notin peer[p].writing
    BY <1>4, <2>1, <2>2 DEF OneWriter, Status
  <2>4. \A s \in Status \ {w} : ~Uses(p, s)'
    BY <1>3, <1>7, <2>1, <2>3 DEF Uses
  <2>5. Uses(p, w)'
    BY <1>7, <2>1
  <2>6. OneWriter(p)' /\ Latest(p)' = Latest(p)
    BY <1>3, <1>5, <2>1, <2>2, <2>3, <2>4, <2>5 DEF OneWriter, Latest, Status
  <2>7. StillCalm(p, b)'
    BY <1>1, <1>3, <1>4, <2>1, ServiceSame DEF DashboardOk, StillCalm
  <2>8. Uses(p, "deployed")' => Uses(p, "deployed")
    BY <2>1, <2>2, <2>4 DEF Status
  <2> QED
    BY <1>1, <1>4, <1>8, <2>6, <2>7, <2>8, SameLatest
<1> QED
  BY <1>9, <1>10

(* Every step keeps every dashboard right. *)
LEMMA PagesKeepDashboards ==
    ASSUME Users = "following", ~ControllerFails, PagesInv, [PagesNext]_pageVars
    PROVE  DashboardsOk'
<1> SUFFICES ASSUME NEW p \in Peer, NEW b \in Broadcaster, Untroubled(p, b)'
             PROVE  DashboardOk(p, b)'
  BY DEF DashboardsOk
<1>1. CASE UNCHANGED vars /\ UNCHANGED <<peer, shown>>
  BY <1>1, OthersPages
<1>2. ASSUME NEW c \in Call, NEW a \in Broadcaster, Pressed(c, a)
      PROVE  DashboardOk(p, b)'
  BY <1>2, PressedPages
<1>3. ASSUME NEW c \in Call, Deployed(c) \/ Handled(c)
      PROVE  DashboardOk(p, b)'
  BY <1>3, DeployedPages, HandledPages
<1>4. CASE Worked \/ Begun \/ Notified \/ Ended
  BY <1>4, WorkedPages, BegunPages, NotifiedPages, EndedPages
<1>5. ASSUME NEW q \in Peer, NEW a \in Broadcaster, Open(q, a)
      PROVE  DashboardOk(p, b)'
  <2>1. CASE q = p
    BY <1>5, <2>1, OpenPages
  <2>2. CASE q # p
    <3>1. peer'[p] = peer[p] /\ shown'[p] = shown[p] /\ UNCHANGED vars
      BY <1>5, <2>2 DEF Open, PagesInv, ClientType
    <3> QED
      BY <3>1, OthersPages
  <2> QED
    BY <2>1, <2>2
<1>6. ASSUME NEW q \in Peer, Close(q)
      PROVE  DashboardOk(p, b)'
  <2>1. q # p /\ peer'[p] = peer[p] /\ shown'[p] = shown[p] /\ UNCHANGED vars
    BY <1>6, StreamServiceAssumption
       DEF Close, Change, Closed, Untroubled, PagesInv, ClientType
  <2> QED
    BY <2>1, OthersPages
<1>7. ASSUME NEW q \in Peer, PageStep(q)
      PROVE  DashboardOk(p, b)'
  <2>1. CASE q = p
    BY <1>7, <2>1, SubscribePages, ProcessPages, ReadStatusPages, BeginWritePages,
       EndWritePages DEF PageStep, Writer
  <2>2. CASE q # p
    <3>1. UNCHANGED vars
      BY <1>7 DEF PageStep, Subscribe, Process, ReadStatus, BeginWrite, EndWrite, Change
    <3>2. peer'[p] = peer[p] /\ shown'[p] = shown[p]
      BY <1>7, <2>2, PageStepType DEF PagesInv
    <3> QED
      BY <3>1, <3>2, OthersPages
  <2> QED
    BY <2>1, <2>2
<1>8. CASE (\E a \in Broadcaster : LoadChannels(a)) \/ LoadChannel
  BY <1>1, <1>8 DEF LoadChannels, LoadChannel
<1> QED
  BY <1>1, <1>2, <1>3, <1>4, <1>5, <1>6, <1>7, <1>8 DEF PagesNext, pageVars, client

(* A websocket that is closed has no writer until it is opened.            *)
LEMMA KeptNobodyWrites ==
    ASSUME ~ControllerFails, IInv, ClientType, NobodyWrites, [PagesNext]_pageVars
    PROVE  NobodyWrites'
<1> SUFFICES ASSUME NEW p \in Peer, peer'[p].b = None
             PROVE  /\ peer'[p].initial = "todo" /\ peer'[p].pending = Nothing
                    /\ peer'[p].writing = {} /\ peer'[p].clash = {}
                    /\ peer'[p].wire = Nothing
  BY DEF NobodyWrites, Nothing
<1>1. CASE SameSocket(p)
  BY <1>1 DEF SameSocket, NobodyWrites
<1>2. CASE peer'[p] = Closed
  BY <1>2 DEF Closed
<1>3. CASE \/ \E c \in Call, b \in Broadcaster : Pressed(c, b)
           \/ \E c \in Call : Handled(c)
           \/ Begun
  BY <1>1, <1>3, TroubleOnly DEF Pressed, Handled, Begun
<1>4. ASSUME NEW b \in Broadcaster, NEW s \in Status, Publish(b, s), UNCHANGED shown
      PROVE  SameSocket(p)
  <2>1. ClientType' /\ Published(p, b, s)
    BY <1>4, PublishSockets
  <2>2. peer[p].b = None /\ None # b
    BY <2>1, StreamServiceAssumption DEF Published
  <2> QED
    BY <2>1, <2>2, PublishedElsewhere
<1>5. ASSUME NEW c \in Call, Deployed(c)
      PROVE  SameSocket(p)
  <2>1. call[c].b \in Broadcaster
    BY <1>5 DEF Deployed, StandaloneStartServer, IInv, CallInv
  <2> QED
    BY <1>4, <1>5, <2>1 DEF Deployed, Status
<1>6. CASE Notified
  <2>1. destroyed[worker.msg].b \in Broadcaster
    BY <1>6, NotifyKeeps, MessageAt DEF Notified, IInv, Message
  <2> QED
    BY <1>1, <1>4, <1>6, <2>1 DEF Notified, Status
<1>7. CASE Ended
  BY <1>2, <1>7 DEF Ended
<1>8. ASSUME NEW q \in Peer, \/ Close(q)
                             \/ PageStep(q)
                             \/ \E b \in Broadcaster : Open(q, b)
      PROVE  SameSocket(p) \/ peer'[p] = Closed
  <2>1. CASE q # p
    <3>1. peer'[p] = peer[p] /\ shown'[p] = shown[p]
      BY <1>8, <2>1, PageStepType DEF Close, Open, Change, ClientType
    <3> QED
      BY <3>1 DEF SameSocket
  <2>2. CASE q = p /\ Close(q)
    BY <2>2 DEF Close, Change, ClientType
  <2>3. CASE q = p /\ \E b \in Broadcaster : Open(q, b)
    <3>1. PICK b \in Broadcaster : Open(p, b)
      BY <2>3
    <3>2. peer'[p].b = b
      BY <3>1 DEF Open, Closed, ClientType
    <3> QED
      BY <3>2, StreamServiceAssumption
  <2>4. CASE q = p /\ PageStep(q)
    <3>1. peer[p] \in Websocket
      BY DEF ClientType
    <3>2. ASSUME peer[p].b = None
          PROVE  FALSE
      <4>1. /\ \A s \in Status : peer[p].pending[s] = 0 /\ peer[p].wire[s] = 0
            /\ peer[p].writing = {} /\ peer[p].initial \notin Status
        BY <3>2 DEF NobodyWrites, Nothing, Status
      <4>2. \A s \in Status : ~Process(p, s) /\ ~Subscribe(p, s)
        BY <3>2, <4>1 DEF Process, Subscribe
      <4>3. \A w \in Writer : ~BeginWrite(p, w) /\ ~EndWrite(p, w)
        BY <4>1 DEF BeginWrite, EndWrite, Writer
      <4> QED
        BY <2>4, <3>2, <4>2, <4>3 DEF PageStep, ReadStatus, Writer
    <3>3. peer'[p].b = peer[p].b
      <4>1. ASSUME NEW s \in Status, Subscribe(p, s) \/ Process(p, s)
            PROVE  peer'[p].b = peer[p].b
        BY <3>1, <4>1 DEF Subscribe, Process, Change, ClientType, Websocket
      <4>2. CASE ReadStatus(p)
        BY <3>1, <4>2 DEF ReadStatus, Change, ClientType, Websocket
      <4>3. ASSUME NEW w \in Writer, BeginWrite(p, w)
            PROVE  peer'[p].b = peer[p].b
        <5>1. \E writing, clash, pending : peer'[p] =
                [peer[p] EXCEPT !.writing = writing, !.clash = clash, !.pending = pending]
          BY <4>3 DEF BeginWrite, Change, ClientType
        <5> QED
          BY <3>1, <5>1 DEF Websocket
      <4>4. ASSUME NEW w \in Writer, EndWrite(p, w)
            PROVE  peer'[p].b = peer[p].b
        <5> DEFINE status == IF w = "handler" THEN peer[p].initial ELSE w
                   After == IF w = "handler" THEN "done" ELSE peer[p].initial
        <5>1. PICK sent \in {TRUE} \cup (IF w \in peer[p].clash THEN {FALSE} ELSE {}) :
                peer'[p] = [peer[p] EXCEPT
                    !.initial = After,
                    !.writing = @ \ {w},
                    !.clash = @ \ {w},
                    !.wire = [s \in Status |-> @[s] + (IF sent /\ s = status THEN 1 ELSE 0)]]
          BY <4>4 DEF EndWrite, Change, ClientType
        <5> HIDE DEF status, After
        <5> QED
          BY <3>1, <5>1 DEF Websocket
      <4> QED
        BY <2>4, <4>1, <4>2, <4>3, <4>4 DEF PageStep, Writer
    <3> QED
      BY <3>2, <3>3
  <2> QED
    BY <1>8, <2>1, <2>2, <2>3, <2>4
<1>9. CASE UNCHANGED <<peer, shown>>
  BY <1>1, <1>9 DEF SameSocket
<1> QED
  BY <1>1, <1>2, <1>3, <1>5, <1>6, <1>7, <1>8, <1>9 DEF PagesNext, pageVars, client, Worked,
     LoadChannels, LoadChannel

------------------------------------------------------------------------------
(* The rows, as a visitor sees them. *)

(* A row that is there after a step was there before, unless a start has   *)
(* just inserted it, and the commit marks it deployed.                     *)
LEMMA RowsStay ==
    ASSUME IInv, [Next]_vars, NEW b \in Broadcaster, HasRow(b)'
    PROVE  \/ HasRow(b) /\ active_streams'[b] = active_streams[b]
           \/ /\ HasRow(b) /\ Locked(b)
              /\ active_streams'[b].id = active_streams[b].id
              /\ active_streams'[b].deployed
           \/ \E c \in Call :
                /\ call[c].pc = "insert"
                /\ active_streams'[b].id = call[c].id /\ ~active_streams'[b].deployed
<1>1. TypeOK
  BY DEF IInv
<1>2. CASE UNCHANGED active_streams
  BY <1>2 DEF HasRow
<1>3. ASSUME NEW c \in Call, Insert(c)
      PROVE  \/ HasRow(b) /\ active_streams'[b] = active_streams[b]
             \/ active_streams'[b].id = call[c].id /\ ~active_streams'[b].deployed
  <2>1. active_streams' =
            [active_streams EXCEPT ![call[c].b] = [id |-> call[c].id, deployed |-> FALSE]]
    BY <1>3 DEF Insert
  <2>2. CASE call[c].b = b
    BY <1>1, <2>1, <2>2 DEF TypeOK
  <2>3. CASE call[c].b # b
    BY <1>1, <2>1, <2>3 DEF TypeOK, HasRow
  <2> QED
    BY <2>2, <2>3
<1>4. ASSUME NEW a, DeleteRow(a)
      PROVE  HasRow(b) /\ active_streams'[b] = active_streams[b]
  BY <1>1, <1>4 DEF DeleteRow, TypeOK, HasRow
<1>5. CASE StatusCommit /\ active_streams' = [active_streams EXCEPT ![tx.b].deployed = TRUE]
  <2>1. tx # None /\ HasRow(tx.b)
    BY <1>5 DEF StatusCommit, IInv, TableInv, LockedRowStays
  <2>2. CASE tx.b = b
    <3>1. active_streams[b] \in Row
      BY <1>1, <2>1, <2>2, RowOf
    <3>2. active_streams'[b] = [active_streams[b] EXCEPT !.deployed = TRUE]
      BY <1>1, <1>5, <2>2 DEF TypeOK
    <3> QED
      BY <2>1, <2>2, <3>1, <3>2 DEF Locked, Row
  <2>3. CASE tx.b # b
    BY <1>1, <1>5, <2>3 DEF TypeOK, HasRow
  <2> QED
    BY <2>2, <2>3
<1>6. ASSUME NEW c \in Call, HandlerStep(c)
      PROVE  \/ UNCHANGED active_streams
             \/ call[c].pc = "insert" /\ Insert(c)
             \/ DeleteRow(call[c].b)
  BY <1>6 DEF HandlerStep, HandlerGoesOn, StandaloneStartServer, OperatorStartServer,
     OperatorCreated, OperatorNotCreated, InsertRow, InsertDuplicate, InsertError, StopGet, StopDelete,
     StopServer, db
<1>7. \/ UNCHANGED active_streams
      \/ \E c \in Call : call[c].pc = "insert" /\ Insert(c)
      \/ \E a : DeleteRow(a)
      \/ StatusCommit /\ active_streams' = [active_streams EXCEPT ![tx.b].deployed = TRUE]
  BY <1>6 DEF Next, vars, db, StreamStart, StreamStop, Arrive, LoseDeployed, StatusStep,
     StatusUpdate, StatusInsert, StatusCommit, Deliver, DestroyedStep, DestroyedBegin,
     DestroyedDelete, DestroyedNotify, Restart
<1> QED
  BY <1>2, <1>3, <1>4, <1>5, <1>7

(* A start keeps the id it arrived with. *)
LEMMA StartingIds ==
    ASSUME IInv, [Next]_vars
    PROVE  /\ standalone' = standalone
           /\ made' \in {made, made + 1}
           /\ \A c \in Call : call'[c].pc \in Starting =>
                \/ call[c].pc \in Starting /\ call'[c].id = call[c].id
                \/ call'[c].id = made + 1
<1>1. TypeOK
  BY DEF IInv
<1>2. CASE UNCHANGED vars
  BY <1>2 DEF vars, env
<1>3. ASSUME NEW c \in Call, NEW b \in Broadcaster, StreamStart(c, b) \/ StreamStop(c, b)
      PROVE  /\ standalone' = standalone /\ made' = made + 1
             /\ \A d \in Call : call'[d] = call[d] \/ call'[d].id = made + 1
  BY <1>1, <1>3 DEF StreamStart, StreamStop, Arrive, TypeOK
<1>4. ASSUME NEW c \in Call, HandlerStep(c)
      PROVE  /\ standalone' = standalone /\ made' = made
             /\ \A d \in Call : call'[d].pc \in Starting =>
                    call[d].pc \in Starting /\ call'[d].id = call[d].id
  <2>1. standalone' = standalone /\ made' = made
    BY <1>4 DEF HandlerStep, HandlerGoesOn, StandaloneStartServer, OperatorStartServer,
       OperatorCreated, OperatorNotCreated, InsertRow, InsertDuplicate, InsertError, StopGet,
       StopDelete, StopServer, env
  <2>2. \/ \E answer : Reply(c, answer)
        \/ Goto(c, "insert") /\ call[c].pc \in Starting
        \/ Goto(c, "start_create") /\ call[c].pc \in Starting
        \/ call' = [call EXCEPT ![c].pc = "stop_get", ![c].failing = TRUE]
        \/ \E pc \in {"undo", "stop_delete", "stop_server"} : Goto(c, pc)
    BY <1>4 DEF HandlerStep, HandlerGoesOn, StandaloneStartServer, OperatorStartServer,
       OperatorCreated, OperatorNotCreated, InsertRow, InsertDuplicate, InsertError, StopGet,
       StopDelete, StopServer, Starting
  <2>3. /\ \A d \in Call \ {c} : call'[d] = call[d]
        /\ call'[c].pc \in Starting => call[c].pc \in Starting /\ call'[c].id = call[c].id
    <3>1. call \in [Call -> Request] /\ call[c] \in Request
      BY <1>1 DEF TypeOK
    <3>2. CASE \E answer : Reply(c, answer)
      BY <3>1, <3>2 DEF Reply, Idle, Starting
    <3>3. CASE \E pc \in {"insert", "start_create"} : Goto(c, pc) /\ call[c].pc \in Starting
      BY <3>1, <3>3 DEF Goto, Request
    <3>4. CASE \E pc \in {"undo", "stop_delete", "stop_server"} : Goto(c, pc)
      BY <3>1, <3>4 DEF Goto, Request, Starting
    <3>5. CASE call' = [call EXCEPT ![c].pc = "stop_get", ![c].failing = TRUE]
      BY <3>1, <3>5 DEF Request, Starting
    <3> QED
      BY <2>2, <3>2, <3>3, <3>4, <3>5
  <2> QED
    BY <2>1, <2>3
<1>5. CASE LoseDeployed \/ StatusStep \/ DestroyedStep \/ \E m \in DOMAIN destroyed : Deliver(m)
  BY <1>5 DEF LoseDeployed, StatusStep, StatusUpdate, StatusInsert, StatusCommit, Deliver,
     DestroyedStep, DestroyedBegin, DestroyedDelete, DestroyedNotify, env
<1>6. CASE Restart
  BY <1>6 DEF Restart, Idle, Starting
<1> QED
  BY <1>2, <1>3, <1>4, <1>5, <1>6 DEF Next

(* Nothing is deployed in operator mode.                                   *)
LEMMA KeptOperatorMode ==
    ASSUME IInv, OperatorMode, [Next]_vars
    PROVE  OperatorMode'
<1> SUFFICES ASSUME ~standalone'
             PROVE  /\ deployed' = <<>>
                    /\ tx' = None
                    /\ \A b \in Broadcaster : HasRow(b)' => ~active_streams'[b].deployed
  BY DEF OperatorMode
<1>1. /\ ~standalone /\ deployed = <<>> /\ tx = None
      /\ \A b \in Broadcaster : HasRow(b) => ~active_streams[b].deployed
  BY StartingIds DEF OperatorMode
<1>2. deployed' = <<>> /\ tx' = None
  BY <1>1 DEF Next, vars, db, bus, StreamStart, StreamStop, Arrive, HandlerStep,
     HandlerGoesOn, StandaloneStartServer, OperatorStartServer, OperatorCreated,
     OperatorNotCreated, InsertRow, Insert, InsertDuplicate, InsertError, StopGet, StopDelete,
     StopServer, DeleteRow, LoseDeployed, StatusStep, StatusUpdate, StatusInsert,
     StatusCommit, Deliver, DestroyedStep, DestroyedBegin, DestroyedDelete,
     DestroyedNotify, Restart
<1>3. ASSUME NEW b \in Broadcaster, HasRow(b)'
      PROVE  ~active_streams'[b].deployed
  <2>1. ~Locked(b)
    BY <1>1 DEF Locked
  <2> QED
    BY <1>1, <1>3, <2>1, RowsStay
<1> QED
  BY <1>2, <1>3

(* A listed stream stays listed while the service goes on. *)
LEMMA KeptListed ==
    ASSUME IInv, [Next]_vars, NEW b \in Broadcaster, NEW id, Lists(b, id),
           visitor' = visitor
    PROVE  Lists(b, id)'
<1>1. made \in Nat /\ id \in 1 .. made
  BY DEF IInv, TypeOK, Lists
<1>2. /\ standalone' = standalone
      /\ made' \in {made, made + 1}
      /\ \A c \in Call : call'[c].pc \in Starting =>
            \/ call[c].pc \in Starting /\ call'[c].id = call[c].id
            \/ call'[c].id = made + 1
  BY StartingIds
<1>3. \A c \in Call : call'[c].pc \in Starting => call'[c].id # id
  <2>1. \A c \in Call : call[c].pc \in Starting => call[c].id # id
    BY DEF Lists
  <2> QED
    BY <1>1, <1>2, <2>1
<1>4. ASSUME HasRow(b)', active_streams'[b].id = id
      PROVE  active_streams'[b].deployed /\ visitor'.found # "not_found"
  <2>1. \A c \in Call : call[c].pc = "insert" => call[c].id # id
    BY DEF Lists, Starting
  <2>3. HasRow(b) /\ active_streams[b].id = id
    BY <1>4, <2>1, RowsStay
  <2>4. active_streams[b].deployed /\ visitor.found # "not_found"
    BY <2>3 DEF Lists
  <2>5. active_streams'[b].deployed
    BY <1>4, <2>1, <2>4, RowsStay
  <2> QED
    BY <2>4, <2>5
<1>5. standalone' /\ id \in 1 .. made'
  BY <1>1, <1>2 DEF Lists
<1> QED
  BY <1>3, <1>4, <1>5 DEF Lists

(* What the home page lists, the page of a channel finds. *)
LEMMA KeptVisitor ==
    ASSUME IInv, OperatorMode, VisitorOk, [PagesNext]_pageVars
    PROVE  VisitorOk'
<1>1. [Next]_vars
  BY ServiceSteps
<1>2. CASE visitor' = visitor
  BY <1>1, <1>2, KeptListed DEF VisitorOk
<1>3. ASSUME NEW b \in Broadcaster, LoadChannels(b)
      PROVE  VisitorOk'
  <2>1. /\ HasRow(b) /\ active_stream_egresses[active_streams[b].id] > 0
        /\ visitor' = [b |-> b, listed |-> active_streams[b].id, found |-> "nothing"]
        /\ UNCHANGED vars
    BY <1>3 DEF LoadChannels, ChannelList, Listed
  <2>2. active_streams[b].deployed
    BY <2>1 DEF IInv, TableInv, DeployedWithEgresses
  <2>3. standalone
    BY <2>1, <2>2 DEF OperatorMode
  <2>4. active_streams[b].id \in 1 .. made
    <3>1. active_streams[b].id \in StreamId /\ active_streams[b].id <= made /\ made \in Nat
      BY <2>1, RowOf DEF IInv, IdInv, TypeOK
    <3> QED
      BY <3>1 DEF StreamId
  <2>5. \A c \in Call : call[c].pc \in Starting => call[c].id # active_streams[b].id
    BY <2>1 DEF IInv, IdInv
  <2>6. UNCHANGED <<standalone, made, call, active_streams>>
    BY <2>1 DEF vars, env, db
  <2>7. visitor' \in Visit
    BY <2>1, <2>4, StreamServiceAssumption DEF Visit, IInv, TypeOK
  <2> QED
    BY <2>1, <2>2, <2>3, <2>4, <2>5, <2>6, <2>7, StreamServiceAssumption
       DEF VisitorOk, Lists, HasRow
<1>4. CASE LoadChannel
  <2>1. PICK b \in Broadcaster : b = visitor.b
    BY <1>4 DEF LoadChannel, VisitorOk, Visit
  <2>2. PICK found \in GetActiveStream(b) : visitor' = [visitor EXCEPT !.found = found]
    BY <1>4, <2>1 DEF LoadChannel
  <2>3. Lists(b, visitor.listed) /\ standalone /\ visitor \in Visit
    BY <2>1 DEF VisitorOk, Lists
  <2>4. found \in {"channel", "not_found", "error"}
    BY <2>2, <2>3 DEF GetActiveStream, Routes
  <2>5. /\ visitor' \in Visit
        /\ visitor'.b = b /\ visitor'.listed = visitor.listed /\ visitor'.found = found
    BY <2>1, <2>2, <2>3, <2>4 DEF Visit
  <2>6. ASSUME HasRow(b), active_streams[b].id = visitor.listed
        PROVE  active_streams[b].deployed /\ found # "not_found"
    <3>1. active_streams[b].deployed
      BY <2>3, <2>6 DEF Lists
    <3>2. Found(b)
      BY <2>6, <3>1 DEF Found, IInv, TableInv, DeployedWithEgresses
    <3> QED
      BY <2>2, <2>3, <3>1, <3>2 DEF GetActiveStream, Routes
  <2>7. UNCHANGED <<standalone, made, call, active_streams>>
    BY <1>4 DEF LoadChannel, vars, env, db
  <2>8. \A a \in Broadcaster : visitor'.b = a => Lists(a, visitor.listed)'
    BY <2>3, <2>5, <2>6, <2>7 DEF Lists, HasRow
  <2>9. b # None
    BY StreamServiceAssumption
  <2> QED
    BY <2>5, <2>8, <2>9 DEF VisitorOk
<1> QED
  BY <1>2, <1>3, <1>4 DEF PagesNext, pageVars, client, Pressed, Deployed, Handled, Worked,
     Begun, Notified, Ended, Open, Close, PageStep, Subscribe, Process, ReadStatus,
     BeginWrite, EndWrite, Change

------------------------------------------------------------------------------
LEMMA PagesInitially ==
    ASSUME PagesInit
    PROVE  PagesInv
<1>1. Init
  BY DEF PagesInit
<1>2. IInv /\ FollowInv
  BY <1>1, InitInvariant, FollowInit
<1>3. OperatorMode
  BY <1>1 DEF Init, OperatorMode, HasRow
<1>4. VisitorOk
  BY StreamServiceAssumption DEF PagesInit, VisitorOk, Visit
<1>5. Closed \in Websocket
  BY DEF Closed, Nothing, Websocket, Status, Writer
<1>6. ClientType
  BY <1>5 DEF PagesInit, ClientType
<1>7. NobodyWrites
  BY DEF PagesInit, NobodyWrites, Closed
<1>8. DashboardsOk
  BY StreamServiceAssumption DEF PagesInit, DashboardsOk, Untroubled, Closed
<1> QED
  BY <1>2, <1>3, <1>4, <1>6, <1>7, <1>8 DEF PagesInv

(* The link on the home page, whatever users do and whatever fails.        *)
LinkInv == IInv /\ OperatorMode /\ VisitorOk

LEMMA LinkInvariant == PagesSpec => []LinkInv
<1>1. PagesInit => LinkInv
  BY PagesInitially DEF PagesInv, LinkInv
<1>2. LinkInv /\ [PagesNext]_pageVars => LinkInv'
  BY ServiceSteps, NextInvariant, KeptOperatorMode, KeptVisitor DEF LinkInv
<1> QED
  BY <1>1, <1>2, PTL DEF PagesSpec

LEMMA PagesInvariant ==
    ASSUME Users = "following", ~ControllerFails
    PROVE  PagesSpec => []PagesInv
<1>1. PagesInit => PagesInv
  BY PagesInitially
<1>2. PagesInv /\ [PagesNext]_pageVars => PagesInv'
  <2> SUFFICES ASSUME PagesInv, [PagesNext]_pageVars
               PROVE  PagesInv'
    OBVIOUS
  <2>1. [Next]_vars
    BY ServiceSteps
  <2>2. IInv' /\ FollowInv'
    BY <2>1, NextInvariant, FollowStep DEF PagesInv
  <2>3. OperatorMode' /\ VisitorOk'
    BY <2>1, KeptOperatorMode, KeptVisitor DEF PagesInv
  <2>4. ClientType' /\ NobodyWrites' /\ DashboardsOk'
    BY KeptClientType, KeptNobodyWrites, PagesKeepDashboards DEF PagesInv
  <2> QED
    BY <2>2, <2>3, <2>4 DEF PagesInv
<1> QED
  BY <1>1, <1>2, PTL DEF PagesSpec

(* The page of a channel that the home page lists plays it, until the      *)
(* stream that was listed ends (streamchannelssvc.go:43-138), however      *)
(* users behave and whatever fails.                                        *)
THEOREM LinksWork == PagesSpec => []LinkWorks
<1>1. LinkInv => LinkWorks
  <2> SUFFICES ASSUME LinkInv
               PROVE  LinkWorks
    OBVIOUS
  <2>1. visitor \in Visit /\ VisitorOk
    BY DEF LinkInv, VisitorOk
  <2>2. visitor.found # "standalone_only"
    BY <2>1 DEF Visit
  <2>3. ASSUME visitor.found = "not_found"
        PROVE  ~HasRow(visitor.b) \/ active_streams[visitor.b].id # visitor.listed
    <3>1. PICK b \in Broadcaster : b = visitor.b
      BY <2>1, <2>3 DEF VisitorOk, Visit
    <3>2. Lists(b, visitor.listed)
      BY <2>1, <3>1 DEF VisitorOk
    <3> QED
      BY <2>3, <3>1, <3>2 DEF Lists
  <2> QED
    BY <2>2, <2>3 DEF LinkWorks
<1> QED
  BY <1>1, LinkInvariant, PTL

(* No two goroutines write to the websocket of a dashboard together,       *)
(* although WriteProtobuf takes no mutex (peer.go:109-127), if users       *)
(* follow the status of their stream and no call to the controller fails,  *)
(* as long as nothing happened that ShownIsSo excludes.                    *)
THEOREM WritersApart ==
    ASSUME Users = "following", ~ControllerFails
    PROVE  PagesSpec => []WritesApart
<1>1. PagesInv => WritesApart
  <2> SUFFICES ASSUME PagesInv, NEW p \in Peer, ~peer[p].troubled
               PROVE  peer[p].clash = {}
    BY DEF WritesApart
  <2>1. CASE peer[p].b \in Broadcaster
    BY <2>1 DEF PagesInv, DashboardsOk, Untroubled, DashboardOk, OneWriter
  <2>2. CASE peer[p].b = None
    BY <2>2 DEF PagesInv, NobodyWrites
  <2> QED
    BY <2>1, <2>2 DEF PagesInv, ClientType, Websocket
<1> QED
  BY <1>1, PagesInvariant, PTL

(* A dashboard at rest offers what can be done: "End live" only for a      *)
(* stream that is there, "Go live" only for one that is not, or whose      *)
(* ingest was not recorded (handler_ws.go:90-113), under the same          *)
(* conditions.                                                             *)
THEOREM ShownTruly ==
    ASSUME Users = "following", ~ControllerFails
    PROVE  PagesSpec => []ShownIsSo
<1>1. PagesInv => ShownIsSo
  <2> SUFFICES ASSUME PagesInv, NEW p \in Peer, NEW b \in Broadcaster,
                      peer[p].b = b, Quiet(p), ~peer[p].troubled, Settled(b)
               PROVE  /\ EndLive(p) => HasRow(b)
                      /\ GoLive(p) => ~HasRow(b) \/ ~active_streams[b].deployed
    BY DEF ShownIsSo, PagesInv, ClientType, Websocket
  <2>1. DashboardOk(p, b)
    BY DEF PagesInv, DashboardsOk, Untroubled
  <2>2. Latest(p) = shown[p]
    BY DEF Quiet, Latest, Uses, Nothing, Status
  <2>3. ~Unacked(b) /\ \A c \in Call : ~Serves(c, b)
    BY DEF Settled, Unacked, Serves
  <2>4. CASE standalone
    BY <2>1, <2>2, <2>3, <2>4 DEF DashboardOk, Follows, EndLive, GoLive
  <2>5. CASE ~standalone
    BY <2>1, <2>2, <2>5 DEF DashboardOk, Operated, EndLive, GoLive, PagesInv, OperatorMode
  <2> QED
    BY <2>4, <2>5
<1> QED
  BY <1>1, PagesInvariant, PTL
==============================================================================

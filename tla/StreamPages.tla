------------------------------ MODULE StreamPages ------------------------------
(***************************************************************************)
(* What the pages of the client show of the streams of StreamService: the  *)
(* dashboard of a broadcaster, which follows the status of the stream over *)
(* a websocket (handler_ws.go, wspeer, registry.ts), and the home page and *)
(* the page of a channel, which read the tables (streamchannelssvc.go).    *)
(*                                                                         *)
(* A websocket has three goroutines that write to it: the handler, which   *)
(* writes the status it reads when the page opens, and the callbacks of    *)
(* two subscriptions of core NATS. WriteProtobuf does not take the mutex   *)
(* of the peer, so a write is two steps, and others may fall between them. *)
(* A status is reduced to its field Deployed; Running is never set.        *)
(***************************************************************************)
EXTENDS StreamService

CONSTANTS
    Peer,     \* the dashboards that can be open together
    MaxPages  \* bound: dashboards ever opened

ASSUME PagesAssumption == MaxPages \in Nat

VARIABLES
    peer,     \* the websocket of each dashboard
    shown,    \* the status in the store of each dashboard
    visitor,  \* what a visitor of the home page has seen
    opened    \* dashboards opened so far

client == <<peer, shown, visitor, opened>>
pageVars == <<vars, client>>

(* The two subscriptions, and the two values of a status. *)
Status == {"deployed", "destroyed"}
Nothing == [s \in Status |-> 0]

(* initial: what the handler has read and not written yet; pending: the    *)
(* messages each subscription has not handled; writing: the writes that    *)
(* are under way, clash: those that were so together; wire: the messages   *)
(* on their way to the store; troubled (history): something happened that  *)
(* ShownIsSo excludes.                                                     *)
Closed == [b |-> None, initial |-> "todo", subs |-> {}, pending |-> Nothing,
           writing |-> {}, clash |-> {}, wire |-> Nothing, troubled |-> FALSE]

PagesInit ==
    /\ Init
    /\ peer = [p \in Peer |-> Closed]
    /\ shown = [p \in Peer |-> "none"]
    /\ visitor = [b |-> None, listed |-> 0, found |-> "nothing"]
    /\ opened = 0

(* The page is up, and nothing is on its way to it.                        *)
Quiet(p) ==
    /\ peer[p].initial = "done"
    /\ peer[p].subs = Status
    /\ peer[p].pending = Nothing
    /\ peer[p].writing = {}
    /\ peer[p].wire = Nothing

------------------------------------------------------------------------------
(* The stream service goes on, seen from the websockets. *)

(* Each dashboard of b is in trouble if what holds. *)
Trouble(b, what(_)) ==
    peer' = [p \in Peer |->
        [peer[p] EXCEPT !.troubled = @ \/ (peer[p].b = b /\ what(p))]]

(* Mutant of Hears: both subscriptions are on one subject.                 *)
HearsBoth(p, b, s) == IF peer[p].b = b THEN peer[p].subs ELSE {}

(* The subscriptions of the dashboard that get a message of subject s      *)
(* about b.                                                                *)
Hears(p, b, s) == IF peer[p].b = b THEN peer[p].subs \cap {s} ELSE {}

(* The message reaches those subscriptions, or is lost. *)
Publish(b, s) ==
    peer' \in {[p \in Peer |-> [peer[p] EXCEPT !.pending =
                    [r \in Status |-> @[r] + (IF r \in Hears(p, b, s) THEN 1 ELSE 0)]]]}
        \cup (IF ControllerFails
              THEN {[p \in Peer |-> [peer[p] EXCEPT !.troubled = @ \/ peer[p].b = b]]}
              ELSE {})

Pressed(c, b) ==
    /\ StreamStart(c, b) \/ StreamStop(c, b)
    /\ Trouble(b, LAMBDA p : ~Quiet(p))
    /\ UNCHANGED <<shown, visitor, opened>>

(* The stub publishes IngestDeployed, which is also for the status worker. *)
Deployed(c) ==
    /\ StandaloneStartServer(c)
    /\ Publish(call[c].b, "deployed")
    /\ UNCHANGED <<shown, visitor, opened>>

(* A stop whose DELETE took effect and returned an error.                  *)
StopCutShort(c) ==
    /\ call[c].pc = "stop_delete" /\ call'[c].pc = "idle"
    /\ active_streams'[call[c].b] = None

(* A start that fails once its ingest is deployed is trouble: it announces *)
(* the end right after, on another subject. So is a stop that fails once   *)
(* its row is gone: nobody announces that.                                 *)
Handled(c) ==
    /\ HandlerGoesOn(c)
    /\ Trouble(call[c].b, LAMBDA p : call'[c].pc = "undo" \/ StopCutShort(c))
    /\ UNCHANGED <<shown, visitor, opened>>

Worked ==
    /\ LoseDeployed \/ StatusStep \/ DestroyedDelete \/ \E m \in DOMAIN destroyed : Deliver(m)
    /\ UNCHANGED client

(* A message that is given up is trouble: nobody is notified.              *)
Begun ==
    /\ DestroyedBegin
    /\ Trouble(destroyed[Head(inbox).msg].b, LAMBDA p : worker' = None)
    /\ UNCHANGED <<shown, visitor, opened>>

Notified ==
    /\ DestroyedNotify
    /\ Publish(destroyed[worker.msg].b, "destroyed")
    /\ UNCHANGED <<shown, visitor, opened>>

(* The service ends, by a crash or by the panic of two writes that clash   *)
(* or of a websocket whose upgrade failed. A page does not connect again.  *)
Ended ==
    /\ Restart
    /\ peer' = [p \in Peer |-> Closed]
    /\ UNCHANGED <<shown, visitor, opened>>

------------------------------------------------------------------------------
(* A dashboard. *)

Change(p, to) ==
    /\ peer' = [peer EXCEPT ![p] = to]
    /\ UNCHANGED <<vars, visitor, opened>>

(* The websocket is upgraded, the goroutines start. To open a page while   *)
(* anything about the stream is under way is trouble: what is published    *)
(* before the subscription is made and after the status is read is missed, *)
(* and an old status can be written last.                                  *)
Open(p, b) ==
    /\ peer[p] = Closed
    /\ opened < MaxPages
    /\ peer' = [peer EXCEPT ![p] = [Closed EXCEPT !.b = b, !.troubled = ~Settled(b)]]
    /\ shown' = [shown EXCEPT ![p] = "none"]
    /\ opened' = opened + 1
    /\ UNCHANGED <<vars, visitor>>

Close(p) ==
    /\ peer[p] # Closed
    /\ Change(p, Closed)
    /\ UNCHANGED shown

Subscribe(p, s) ==
    /\ peer[p].b # None
    /\ Change(p, [peer[p] EXCEPT !.subs = @ \cup {s}])
    /\ UNCHANGED shown

(* Mutant of IsRunning: it reports Running, which is never set.            *)
IsRunningOnly(b) == "destroyed"

IsRunning(b) ==
    IF HasRow(b) /\ active_streams[b].deployed THEN "deployed" ELSE "destroyed"

(* An error reads as a stream that is not there. *)
ReadStatus(p) ==
    /\ peer[p].b # None
    /\ peer[p].initial = "todo"
    /\ \E failed \in {FALSE} \cup (IF DatabaseFails THEN {TRUE} ELSE {}) :
        Change(p, [peer[p] EXCEPT
            !.initial = IF failed THEN "destroyed" ELSE IsRunning(peer[p].b),
            !.troubled = @ \/ failed])
    /\ UNCHANGED shown

(* NextWriter. *)
BeginWrite(p, w) ==
    /\ w \notin peer[p].writing
    /\ IF w = "handler"
       THEN peer[p].initial \in Status
       ELSE peer[p].pending[w] > 0
    /\ Change(p, [peer[p] EXCEPT
            !.writing = @ \cup {w},
            !.clash = IF peer[p].writing = {} THEN @ ELSE @ \cup peer[p].writing \cup {w},
            !.pending = [s \in Status |-> @[s] - (IF s = w THEN 1 ELSE 0)]])
    /\ UNCHANGED shown

(* Encode and Close: the message is sent whole, unless another write came  *)
(* between: then the page may get nothing that it can parse.               *)
EndWrite(p, w) ==
    LET status == IF w = "handler" THEN peer[p].initial ELSE w IN
    /\ w \in peer[p].writing
    /\ \E sent \in {TRUE} \cup (IF w \in peer[p].clash THEN {FALSE} ELSE {}) :
        Change(p, [peer[p] EXCEPT
            !.initial = IF w = "handler" THEN "done" ELSE @,
            !.writing = @ \ {w},
            !.clash = @ \ {w},
            !.wire = [s \in Status |-> @[s] + (IF sent /\ s = status THEN 1 ELSE 0)]])
    /\ UNCHANGED shown

(* HandleDashboardWebsocket awaits the bytes of each message, and the one  *)
(* whose bytes are there first goes first.                                 *)
Process(p, s) ==
    /\ peer[p].wire[s] > 0
    /\ shown' = [shown EXCEPT ![p] = s]
    /\ Change(p, [peer[p] EXCEPT !.wire[s] = @ - 1])

(* The button of the page. *)
EndLive(p) == shown[p] = "deployed"
GoLive(p) == shown[p] = "destroyed"

PageStep(p) ==
    \/ \E s \in Status : Subscribe(p, s) \/ Process(p, s)
    \/ ReadStatus(p)
    \/ \E w \in Status \cup {"handler"} : BeginWrite(p, w) \/ EndWrite(p, w)

------------------------------------------------------------------------------
(* A visitor. *)

(* Mutant of Listed: an outer join. *)
ListedOuter(b) == HasRow(b)

(* GetAllRunningActiveStreams joins the rows with their egresses. *)
Listed(b) == HasRow(b) /\ active_stream_egresses[active_streams[b].id] > 0

(* GetActiveStreamByUsername, likewise. *)
Found(b) == HasRow(b) /\ active_stream_egresses[active_streams[b].id] > 0

ChannelList == {b \in Broadcaster : Listed(b)}

(* getEgressesRoutes: the addresses of the stub's ingest are configured.   *)
Routes == IF standalone THEN "channel" ELSE "standalone_only"

GetActiveStream(b) ==
    {IF Found(b) THEN Routes ELSE "not_found"} \cup (IF DatabaseFails THEN {"error"} ELSE {})

(* The home page, and a link on it. *)
LoadChannels(b) ==
    /\ b \in ChannelList
    /\ visitor' = [b |-> b, listed |-> active_streams[b].id, found |-> "nothing"]
    /\ UNCHANGED <<vars, peer, shown, opened>>

(* The page of the channel, later. *)
LoadChannel ==
    /\ visitor.b # None
    /\ visitor.found = "nothing"
    /\ \E found \in GetActiveStream(visitor.b) : visitor' = [visitor EXCEPT !.found = found]
    /\ UNCHANGED <<vars, peer, shown, opened>>

PagesNext ==
    \/ \E c \in Call, b \in Broadcaster : Pressed(c, b)
    \/ \E c \in Call : Deployed(c) \/ Handled(c)
    \/ Worked \/ Begun \/ Notified \/ Ended
    \/ \E p \in Peer, b \in Broadcaster : Open(p, b)
    \/ \E p \in Peer : Close(p) \/ PageStep(p)
    \/ \E b \in Broadcaster : LoadChannels(b)
    \/ LoadChannel

PagesSpec == PagesInit /\ [][PagesNext]_pageVars

------------------------------------------------------------------------------
(* Properties. *)

(* A dashboard that nothing is on its way to, of a stream about which      *)
(* nothing is under way, offers what can be done: "End live" only for a    *)
(* stream that is there, "Go live" only for one that is not, or whose      *)
(* ingest was not recorded (handler_ws.go:90-113): as long as it was       *)
(* opened, and requests were made, while both were at rest.                *)
ShownIsSo ==
    \A p \in Peer :
        LET b == peer[p].b IN
        b # None /\ Quiet(p) /\ ~peer[p].troubled /\ Settled(b) =>
            /\ EndLive(p) => HasRow(b)
            /\ GoLive(p) => ~HasRow(b) \/ ~active_streams[b].deployed

(* Under the same conditions no two goroutines write to one websocket      *)
(* together, although WriteProtobuf takes no mutex (peer.go:109-127).      *)
WritesApart == \A p \in Peer : ~peer[p].troubled => peer[p].clash = {}

(* The page of a channel that the home page lists plays it: it is not      *)
(* found only when the stream that was listed has ended, and a deployment  *)
(* that cannot tell the routes of a channel lists none                     *)
(* (streamchannelssvc.go:43-138).                                          *)
LinkWorks ==
    /\ visitor.found # "standalone_only"
    /\ visitor.found = "not_found" =>
        ~HasRow(visitor.b) \/ active_streams[visitor.b].id # visitor.listed
==============================================================================

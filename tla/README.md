# Verification of stream-platform

TLA+ models of the parts of stream-platform that carry its own logic, the TLC
runs that check them on small instances, and proofs that TLAPS checks for every
value of the constants. Line numbers are those of the repository's files.

Running things, in this directory:

    tlc -workers 2 -config PortRange.cfg MCPortRange   # any run of PROJECT.json
    tlapm PortRange_proofs.tla

`PROJECT.json` lists the runs, the mutants that show that each property can
fail, the source lines of every definition, the hazards, the findings and the
theorems.

## Inventory

### How the system works

A user logs in at the *identity* service and holds an access token and a
refresh-token cookie. "Go live" is an HTTP request to the *stream* service, which
asks an ingest controller for an ingest server and inserts a row into
`active_streams`. The controller is the *ingest operator*, over gRPC, in a
Kubernetes cluster, or a stub inside the stream service in standalone mode. The
user broadcasts to the *ingest* server (WHIP), watchers fetch from it (WHEP or
HLS). NATS carries the events back: that an ingest is deployed (core NATS, at
most once) makes a worker mark the row and insert the egresses the home page
lists; that an ingest is destroyed (JetStream, at least once) makes another
worker delete the row. A websocket shows the broadcaster the state of the stream.

### Components

| Component | State | Operations | Hard part | Correct when | Module |
|---|---|---|---|---|---|
| Node-port allocator (`operators/.../pkg/portrange`) | map of busy ports, range, mutex | `NewPortRange`, `GetPort`, `PortBack` | concurrent callers; `uint16` index | a port has one holder; nothing leaks; a refusal means full | `PortRange` |
| Operator RPCs (`grpcserver/ingest`, `resource/ingestresource`) | cluster resources, informer cache, port leases | `StartServer`, `StopServer` | six concurrent goroutines per RPC; partial failure; overlapping RPCs of one user; stale cache; restart loses the leases | users' ports are disjoint; an answer means what it says; an end is announced, once | `IngestOperator` |
| Operator shutdown (`ingesttemplate_controller.go`, `pkg/shutdown`) | list of tasks, wait group | `Reconcile`, `AddTask`, `Gracefully` | a task per reconciliation, all at once | every ingest is stopped and announced | `OperatorProcess` |
| Stream start/stop (`streamsvc`, `ingestcontroller`) | none of its own | `StartIngestServer`, `StopIngestServer` | several remote calls with compensations and no transaction | rows and ingest servers agree | `StreamService` |
| Stream tables (`repository`, `migrations`) | `active_streams`, `active_stream_egresses` | insert, update, delete, cascade | row locks; unique constraints | no egress without its stream | `StreamService` |
| Stream workers (`workers/ingest`) | JetStream deliveries, a transaction | status handler, destroyed handler | lost, repeated, late messages; restart | no destroyed ingest is forgotten; all messages end | `StreamService` |
| Status channel (`handler_ws.go`, `wspeer`) | a websocket, two subscriptions | connect, notify, read, close | unsynchronised writers; snapshot against notifications | the button of the dashboard is right | `StreamPages` |
| Channel lists (`streamchannelssvc`) | none | two reads, by different joins | the reads are apart | a link that is listed plays | `StreamPages` |
| Identity (`services/identity`) | users, private keys, refresh tokens | sign up, sign in, exchange, sign out, verify | concurrent transactions about one key; a failing COMMIT | tables agree; what a success said stays so | `Identity` |
| Token verification (`pkg/auth`) | a resolver of public keys | fetch the key, validate | key and check are apart from the sign-out | nobody enters with a session that ended | `Session` |
| Ingest server (`services/ingest`) | one global stateful stream, one HLS processor | WHIP, WHEP, HLS handlers, transcode, destroy | unlocked replacement; shared processor; an ffmpeg that is killed | a broadcast that is on is the one served; no directory stays | `IngestServer` |
| Media pipelines (`mediaprocessor`, `media`) | tracks, pipes, ffmpeg | demux, mux, run | one goroutine writes to viewers and to a pipe | packets go on while ffmpeg runs | `IngestServer`, as far as control goes |
| Processes (`main.go` of the services, `subject/jetstream.go`) | connections, JetStream's stream and consumer, database pool | come up, lose NATS, go down | order of constructors, hooks and goroutines | announcements are kept; no handler outlives its pool | `Processes` |
| Client (`client/`) | cookie, token stores, pages | login, page load, fetch with refresh, dashboard | pages share one cookie | who signed in stays signed in | `Session`, `StreamPages`, `IngestServer` |

Not modelled: see the end of this file.

### How they interact

* The stream service calls the operator over gRPC (`StreamService` has the
  outcomes of those calls, `IngestOperator` what the operator does), and hears of
  it through NATS (`Processes` has when NATS, the consumer and the worker exist).
* The operator's RPCs and shutdown tasks call the allocator, one method at a
  time: `PortRange` implements `PortPool`, which is what lets `IngestOperator`
  treat a call as one step.
* `OperatorProcess` extends `IngestOperator`: its tasks run the same
  `StopIngestSystem` in slots of their own.
* `StreamPages` extends `StreamService`: the pages read its tables and hear its
  notifications, and the requests of following users are made from them.
* `Session` extends `Identity`: its pages are the callers of the service, and the
  stream service's authenticator reads the key table through an RPC.
* The ingest server shares nothing with the others but the page that broadcasts.

## Modules

| Module | What it is |
|---|---|
| `Ports` | the `uint16` port, the borders, `validatePort`, `NewPortRange`, the lowest free port |
| `PortPool` | abstract specification: an atomic pool that grants the lowest free port or refuses when full |
| `PortRange` | the allocator with its mutex and its scan, one step of one goroutine at a time |
| `IngestOperator` | the operator's RPCs, the cluster, the informer cache, restarts |
| `OperatorProcess` | reconciliations, shutdown tasks and graceful ends around `IngestOperator` |
| `StreamService` | the stream service: handlers, tables, both workers, NATS |
| `StreamPages` | dashboards, their websockets, the home page and the channel page on top of `StreamService` |
| `Identity` | the identity service, one SQL statement at a time |
| `Session` | a browser of several pages and the authenticator of the stream service on top of `Identity` |
| `IngestServer` | the ingest service: WHIP, WHEP, transcode, pipelines, shutdown |
| `Processes` | how the processes come up, lose NATS and go down |
| `*_proofs` | theorems about the module of the same name: `PortRange`, `IngestOperator`, `OperatorProcess`, `StreamService`, `StreamPages`, `Session` (and `Identity`), `IngestServer`, `Processes` |
| `MC*` | model values and bounds for TLC |

A definition whose comment begins "Mutant of ..." is not part of a
specification: it is a plausible wrong version of the definition below it.

### PortRange

`busyPortRange` is the key set of the map (each stored `PortState` carries its own
key, so values add nothing), `mx` the mutex. `pc` and `local` are the goroutines'
program counters and loop variable or argument. `lease` is the caller's side: the
port it holds. `GetPort` is `GetPort` (call), `GetPortLock`, `GetPortSkip` per
busy port, then `GetPortTake` or `GetPortFull`; `PortBack` is `PortBack`,
`PortBackLock`, then `PortBackDelete` or `PortBackError`. Callers give back what
they hold, or foreign ports; what happens when they give back a port twice is
`IngestOperator`'s subject, since that is the code that does it.

### IngestOperator

`cluster[a][k]` is user `a`'s resource of kind `k`: the port it was created with,
or nothing. The deployment and the UDP gateway service are the kinds whose port
a stop reads; the headless service, the TCP gateway service, the Istio gateway
and the virtual service behave alike and are `OtherKind`, of which one is enough.
`cache` is the informer cache behind `mgr.GetClient()`, which catches up in
`CacheSync`. An RPC is a record in `call`: its phase, the progress of the six
goroutines, the resources a stop has read, the port a start has leased. `Begin`
is the entry of both RPCs, as both begin with `StopIngestSystem`; `StopReturns`
is where they part, since `StartServer` ignores how the stop went. The early
return for an unknown template changes nothing and is left out, and so are the
branches for a foreign owner label or a missing broadcaster label, which the
operator's own objects never take.

A failed request may or may not have been carried out. A failed publication
reaches `s.log.Error` on a logger that `NewIngestSystem` does not set; with
logr 1.2.3 that is a nil dereference no interceptor recovers, so it is a restart
(`AnnounceFailed`). `created` and `announced` are history counters.

### OperatorProcess

`Reconcile` adds the template to the container and one more task to the list;
`Signal` counts the tasks into the wait group `wg`, `Launch` starts a goroutine
for each, and a task lists the deployments of the template (`TaskList`) and stops
the ingest of each (`TaskDelete` and the steps of `IngestOperator`). RPCs go on
meanwhile: `OnStop` runs the tasks first, and cancels the context on which the gRPC
server stops gracefully only when the wait group is down (`Drain`). From then on no
RPC is admitted, and `Exit` is the end of the process once those in flight are
answered; what follows is a new process with an empty allocator. A task registered
between `Signal` and `Launch` makes the counter negative: the panic is in
`TaskDone`. Any other end is `Die`.

`orderly` is the history of what the properties survive. It becomes false at the
first *disorder*: a crash; a reconciliation between `Signal` and `Launch`; two RPCs
of one user at once; a start in flight while the tasks run; a request to the API
server that failed, or was answered from a cache that is behind (`Truthful` tells
which). Each is a step that may happen at any time, and each breaks the promise of
the code: see the limits below. `doubled` is the history of two stops in one
shutdown, be they tasks or RPCs.

### StreamService

One row per broadcaster at most, since the three UNIQUE columns are all functions
of the user. `active_stream_egresses[i]` counts the batches of egresses of stream
`i`; a batch is the two rows one deployed event inserts. `tx` is the status
worker's open transaction: what it wrote becomes visible in `StatusCommit`, and
the row it updated is locked until then. `deployed` is the core NATS queue of the
status worker; `destroyed` is the JetStream stream with a delivery count and an
acknowledgement per message, `inbox` the deliveries in the client's buffer and
`worker` the one being handled. `standalone` is the configuration the service was
started with (`Mode` lists those a run considers). The statements of the handlers
and of the destroyed worker run outside of transactions and commit by themselves: one
that returns an error was not carried out, or was, and its reply was lost
(`InsertError`, `StopDelete`, `DestroyedDelete`). `adrift` is the history of the
users of whom a handler's statement ended so in operator mode (`ReplyLost`). `ingest` is the set of running
ingest servers in operator mode, where `OperatorStopSystem` gives the outcomes of
`StopIngestSystem`: all gone and announced, nothing there, or, when the
controller may fail, gone or not and not announced. `Users = "following"` makes
requests only as the state of the stream suggests, `"free"` at any time. The
bodies of the HTTP requests and the messages that cannot be parsed are left out.
In operator mode nothing in the repository publishes a deployed event, so
`deployed` stays empty there.

### StreamPages

`peer[p]` is the websocket of a dashboard: what the handler has read but not
written (`initial`), its subscriptions and their pending messages, the writes
that are under way, and the messages on their way to the store `shown`. A write
is two steps, because `WriteProtobuf` does not take the peer's mutex; `clash`
remembers writes that were under way together. `visitor` is what one visitor of
the home page has seen: the stream that was listed and what its channel page
found. `troubled` is the history of what `ShownIsSo` and `WritesApart` except:
the page was opened, or a request made, while something about the stream was
under way, the first read of the status failed, a start failed at its INSERT, a stop
failed although its row is gone (`StopCutShort`), or a message was given up.

### Identity and Session

`private_keys[k]` and `refresh_tokens[k]` are the committed rows of key `k`,
reduced to the user they are attached to (or `Loose`, inserted and not attached);
`tx[c]` is what the transaction of request `c` has written. A statement sees the
committed rows under its own writes (`SeesKey`, `SeesToken`), waits for rows
others have written (`TokenLocked`, `KeyLocked`, `KeyDeleting`) and meets the
UNIQUE and FOREIGN KEY constraints of the migrations. A DELETE that waits
(`AwaitRefreshToken`) finds nothing when the row it waited for was replaced,
which is what READ COMMITTED does (`Overtaken`). The reads the code makes outside
of its transaction (`FindUserByPrivateKey`, `GetPrivateKey`, `ValidateToken`) read
committed rows. `CommitFails` is a COMMIT that took effect, or did not, and is
answered with an error either way.

A page of `Session` is a request slot of `Identity`: it does one operation at a
time and pages overlap. `Load` is the server side of a page load (verify, then
exchange), `Fetch` a request to the stream service, whose authenticator fetches
the key (`GetKeys`), verifies (`CheckToken`), and whose 401 makes the client
refresh once and try again. That an access token has expired is a choice at
every use (`ValidNow`).

### IngestServer

A stream is named by the WHIP request that made it. `whip[b]` is where
`HandleWebrtc` is, `peer[b]` the WebRTC connection as the broadcaster's page has
it, `done` the cancelled contexts, `ingest[b]` the goroutine that waits for the
end of the broadcast and the stream it found current when it began, `transcode[b]`
the HLS processor's run, `source` and `disk` the directory the shared processor
writes and those that exist. `demux`, `mux` and `stdin` follow one chunk of video
from the track to ffmpeg; `opus` are the broadcasts with Opus audio, the only ones
whose ffmpeg reads on: it opens its two inputs one after the other, and the audio
pipe, open for reading and writing, never ends. A transcode may fail at each of its
steps (`TranscodeFails`): no directory (logged, and ffmpeg is given an empty name),
no named pipe (a nil pointer, after the directory of all temporary files was
removed), an ffmpeg that cannot be started (a nil `Process` for the goroutine that
kills it), or one that exits; a pipe that cannot be opened is an ffmpeg without its
third file, which exits. A page that is left before it connected is `"unheard"`:
ICE reports it failed, and only "disconnected" cancels. `overlapped` is the
history of a WHIP request that came before everything an earlier one began had
ended.

### Processes

The three services as fx puts them together: `ServiceBecomes`, `OperatorComesUp`,
`Identity` and the corresponding ends walk through constructors, OnStart and
OnStop hooks in their order. `stored` and `durable` are JetStream's stream and
consumer, `buffer` the requests a client keeps while it is disconnected, `worker`
the goroutine that adds stream and consumer and subscribes. `queue` and `lost`
count announcements that JetStream keeps and has no place for.

## Runs

Bounds are the constants of each `.cfg` and, where there is one, the state
constraint `MCBound`. `MaxCalls`, `MaxCrashes`, `MaxInbox`, `MaxPages`,
`MaxIngests`, `MaxOutages`, `MaxEnds` and the number of `Task` slots are bounds;
the other constants are parameters of the system.

| Run | Setting | Checks |
|---|---|---|
| `ports` | 3 goroutines, ports 0..4, borders 2..3, fair locks | `TypeOK`, `Exclusive`, `BusyAreHeld`, `RangeServable`, `ImplementsPool`, `CallsReturn` |
| `operator_faults` | 2 users, 2 RPC slots, 3 RPCs, users who wait for their answer and users who do not, failing API and publications, 1 restart | `TypeOK`, `AnnouncedOnce`, `NoPortLeak` |
| `operator_process` | 2 users, 2 RPC slots and 2 tasks, 2 RPCs that go on during a shutdown, lagging cache, failing API and publications, graceful ends, 1 crash | `PortsKnown`, `EndsAnnounced`, `NothingLeft` |
| `operator_lag` | 1 user, 3 RPCs one after the other, lagging cache, failing API and publications, fair goroutines | `StoppedIsGone`, `StartedIsWhole`, `CallsAnswered` |
| `operator_empty_port` | 2 users, overlapping RPCs, no faults | `PortsExclusive`, violated |
| `stream_live` | stub and operator; 1 user who acts at any time, 2 overlapping requests, every fault, late acks, 2 restarts, fair workers | `TypeOK`, `EgressesHaveStream`, `DeployedWithEgresses`, `AckedWhenCleared`, `DestroyedConsumed`, `RequestsAnswered` |
| `stream_pages` | stub and operator; 2 users who act on the state they see, a dashboard, a visitor, failing SQL and lost replies, late acks, 1 restart | `StreamsMatchIngests`, `AnswersHold`, `ShownIsSo`, `WritesApart`, `LinkWorks` |
| `stream_listed` | stub, one user, no faults | `StartedStreamListed`, violated |
| `stream_exists` | operator, one user, no faults | `ExistingStreamStays`, violated |
| `session` | 2 pages, 2 keys, 1 user, failing statements and COMMITs, restarts of the service | `KeysHaveToken`, `AnswersStand`, `RefusedForReason`, `StaysSignedIn`, `SignedOutIsOut`, `OperationsEnd` |
| `ingest` | 2 broadcasts, with and without Opus audio, 1 viewer, failing transcodes, a signal to stop | `TypeOK`, `Undisturbed`, `FinishedIsGone`, `DirectoryRemoved`, `PacketsFlow` |
| `processes` | 2 ingests, 2 outages of NATS, 3 ends of a process, both modes | `HandlersHaveDatabase`, `AnnouncementsKept`, `KeptAreHandled` |

Why the bounds are enough.

* `ports`: three goroutines give every position of a holder, a waiter and a third
  that finds the result. Borders 2..3 leave invalid ports on both sides and one
  range, of two ports, so that it fills up and a third goroutine is refused; the
  proofs cover every other size.
* `operator_*`: two ports and two users are the smallest operator in which a
  wrongly freed port reaches someone else, and a third RPC is the retry or the
  second victim. In `operator_process` two RPCs are a start and what meets it: a
  stop that competes with the tasks, or another user's start before, during or after
  the shutdown. Two tasks compete, which more would only repeat. The cache is behind
  on one resource at a time, and what follows a disorder is explored only as far as
  the shutdown of an empty cluster, in which the wait group panics (`MCBound`): the
  three properties hold there by their condition. Three RPCs, two of them at work at
  once, have been explored with a cache that keeps up. The theorems make the bounds
  moot.
* `stream_live`: two requests are a start and what disturbs it, or what a restart
  left behind and the next start; `Retry = 2` instead of 3 makes the drop limit
  reachable by redeliveries, late acknowledgements and two restarts. Users are
  independent but for the shared workers, which is why one suffices there and two
  share the worker in `stream_pages`. There, once a dashboard has been opened,
  only the stream it shows is explored: another user's stream does not touch it. A
  dashboard in trouble is followed through the first request only, as the properties
  say nothing of it.
* `session`: two pages give every order of two transactions about one key, two
  keys a session that replaces another. A user's sessions are independent rows, so
  that one user is enough. Three pages without failures have been explored too.
  The theorems make the bound moot for all but the liveness property.
* `ingest`: two broadcasts are a broadcaster who reconnects. Overlapping ones are
  explored as long as they cannot differ from one that does not overlap in what
  is checked (`MCBound`): the properties speak of broadcasts that do not overlap.
  Viewers, on whom nothing else depends, are left out where a transcode fails, audio
  is piped or the process stops.
* `processes`: two ingests fill the queue while one is handled, two outages and
  three ends strike every stage and its restart. The identity service shares
  nothing with the others, so its steps commute with theirs and are explored once.

`operator_faults`, `operator_process` and `stream_pages` use symmetry over users
or slots (none checks liveness). Deadlock is not checked where requests are
bounded, as the bounded system stops when everything is answered; `ports`,
`session` and `processes` check it.

**Fairness.** The allocator's locks are strongly fair, since `sync.Mutex` hands
itself to a waiter that starves; steps inside a critical section are weakly fair.
The goroutines of a request, the workers and the delivery of unacknowledged
messages are weakly fair: the Go scheduler and the JetStream server run them. A
DELETE of the stream service that waits for a row lock may fail, but fairness does
not make it fail (`HandlerWaits`, `WorkerWaits`). In `Session` the statements are
strongly fair, since PostgreSQL wakes a waiter when the transaction it waits for
ends, and pages handle the answers they get. In `IngestServer` the ffmpeg of a
broadcast with Opus audio reads its input (that of another is not assumed to:
`ReadsOn`), a broadcaster sends packets, and ICE notices a page that was left. In
`Processes` a process that ended is started again, NATS comes back, and clients
reconnect. No request, fault, restart, outage, loss or cache update is fair.

## What the runs found

* `stream_listed`: the stub publishes "deployed" before the row is inserted, and
  the worker drops an event without a row. The stream then never gets egresses
  and never reaches the home page, which README.md:30-32 promises after "Go live".
* `stream_exists`: starting a stream that runs replaces its ingest; the start is
  refused with "Stream already exists." and the announcement of the replaced
  ingest then deletes that stream's row, while the new ingest runs on.
* `operator_empty_port`: two overlapping starts of one user fail each other and
  both give their port back, although a deployment with one of the ports stays;
  the next user is given it. One failing API request during a start does the
  same.

Limits of what holds, met while modelling, each the reason for a condition in a
property:

* After a crash of the operator the ports of surviving ingests are unknown to the
  new process, and a stop of a surviving ingest deletes everything, fails at
  `PortBack` and announces nothing: `PortsKnown` and `EndsAnnounced` are about
  graceful ends (`orderly`).
* Two stops of one ingest, by two shutdown tasks for one template or by a task and an
  RPC, can each fail on what the other has deleted, and then neither announces:
  `EndsAnnounced` is about shutdowns that ran one task and no RPC.
* The gRPC server takes RPCs while the shutdown tasks run. A start in flight then
  creates its ingest behind the tasks and leaves it to the next process, which does
  not know its port; so does a task whose list or delete failed, or read a cache
  that is behind. These end what `orderly` remembers, whatever comes later.
* With a lagging cache a stop can give back the port of a previous deployment and
  leak the current one (two users, two RPCs each, no other fault), so `NoPortLeak`
  is checked and proved with a fresh cache; and when a
  stop has read a deployment that a start of the same user replaces, it leaks the
  new one's port, so it speaks of users whose RPCs do not overlap.
* When `StopServer` fails after the row was deleted, the ingest runs on and no
  later stop reaches it: `StreamsMatchIngests` assumes a controller that works.
* The same happens when the DELETE of a stop is carried out and its reply is lost,
  since the handler returns before `StopServer`: the row is gone, the ingest runs on,
  and nobody tells the dashboard. The next start replaces that ingest, whose
  announcement deletes the new row. An INSERT that is carried out and reported as
  failed leaves a row without an ingest if the announcement of its compensation is
  given up. With the operator `StreamsMatchIngests` and `AnswersHold` except the
  users concerned (`adrift`); in standalone mode, where no server runs, `AnswersHold`
  holds for them too.
* A dashboard that is opened while something about its stream is under way may
  miss a notification or show an old status last, writes to its connection may
  clash, a read of the status that fails reads as a stream that is not there, and
  the end of a stream whose stop lost the reply of its DELETE is announced to nobody:
  `ShownIsSo` and `WritesApart` except that.
* Operations of a browser that overlap and are not page loads (a login in one tab
  and a logout in another) may leave it a cookie without a session, or a session
  without a cookie, and so may a database that fails: `StaysSignedIn` excepts both.
* Broadcasts that overlap may ingest each other's stream, end the process at a nil
  pointer, and remove each other's directory. A page that is left before it was
  connected leaves its broadcast on until the process ends.
* The ffmpeg of a broadcast without Opus audio waits for audio and stops reading
  the video: the pipes fill, and the goroutine that also writes to the viewers
  blocks while ffmpeg runs. `PacketsFlow` is about broadcasts with Opus audio.
* A transcode whose directory could not be made writes its segments to the root
  directory, where they stay; `Undisturbed` excepts that it is not served.
* On the very first start, an ingest that ends before the consumer was added is
  announced to nobody. A request to JetStream that fails while the worker comes
  up, and an outage longer than the client's patience, leave a service that serves
  and hears nothing: `KeptAreHandled` excepts these.

## Proofs

All proofs are of safety, for every value of the constants that the named
assumptions allow.

`PortRange_proofs`, for every set of clients and all borders inside the word
(`BordersAssumption`, `ClientAssumption`):

* `Invariance`: the inductive invariant `IInv`, with the steps for each action.
  Besides the types it says that the range was accepted by `NewPortRange`
  (`RangeInv`), that exactly the goroutine inside a critical section holds the
  mutex (`MutexInv`), that every port a scan has passed is busy (`ScanInv`), that
  a pending `PortBack` concerns a held or a foreign port (`BackInv`), and that
  busy ports are held ones and have one holder. `ScanInv` needs `MutexInv`:
  without the mutex another goroutine could free a port the scan has passed.
* `TypeCorrect`, `PortsExclusive`, `PortsAccounted`, `RangesServable`: the
  invariants of the run `ports`; `OwnPortsAccepted`: `PortBack` never fails on a
  port its caller was given.
* `RefinesPool`: `Spec => ImplementsPool`. `GetPortTake` maps to a grant of the
  lowest free port by `ScanInv`, `GetPortFull` to a refusal because a scan that
  ended has passed the whole range, `PortBackDelete` to a release; every other
  step stutters.

`StreamService_proofs`, for every set of users and requests, both modes, every
fault and any `Retry` (`StreamServiceAssumption`, `NoneAssumption`):

* `EgressesOfStreams`, `DeployedAndEgresses`, `LockedRows`. The invariant says
  that ids are fresh (`IdInv`): no two rows share one, and a start has not used
  its own before its INSERT. Without it the commit of one stream's egresses could
  be another's. `LockedRowStays` is what makes the commit safe: the row the
  transaction updated is still there, with the id the egresses refer to.
* `StreamsAndIngests` and `AnswersAreSo`, for users who act on the state they see
  and a controller that works, whichever statements fail, and of whichever the reply
  is lost: with the operator they except the users who are `adrift`. The invariant (`FollowInv`) says of each broadcaster
  which request is under way, which statement it is at, whether the row and the
  ingest server are there at that statement, and whether an announcement of an
  ended ingest is still on its way: at most one of these is out of step at a time,
  because such a user does not begin anything before it has settled. The same
  definition gives what is on its way to a dashboard, which is why `StreamPages`
  can build on it.
* `DestroyedNotForgotten`. The invariant says that a delivery that waits was
  counted by the server (`InboxInv`), so that a drop after `Retry` deliveries
  really follows that many, and that a worker past its DELETE handles a message
  whose row has been seen gone (`WorkerInv`). Steps outside the destroyed worker
  keep both because they only add messages or mark them (`MessagesKept`).
* `TypeCorrect` and the invariant itself, `Invariance`.

`IngestOperator_proofs`, for every set of users, finitely many RPC slots, any
accepted range and every fault (`OperatorAssumption`, `BordersAssumption`):

* `AnnouncedAtMostOnce`. The invariant (`CountInv`) counts, besides the
  deployments announced and the one that is there, the RPCs that owe an
  announcement (`Due`): those whose own goroutine deleted the deployment and that
  have not announced yet. A deletion moves a deployment to its RPC, an
  announcement from there to the messages; every other step can only lose it.
  That the API server deletes an object once is what makes it work: the second of
  two overlapping stops fails its delete and announces nothing.
* `TypeCorrect`: in particular the cluster carries only ports of the range.
* `StopsAreWhole` and `StartsAreWhole`, for users each of whom waits for an answer
  (`serial`), with a lagging cache, failing requests and restarts. `UserOk` says
  that a user has one RPC at a time (`OneEach`) and that what its goroutines have
  found, deleted or created is so (`Mine`); what a user was answered stays so
  because only an RPC of that user touches the ingest, and it takes the answer
  back when it begins. Without `OneEach` a rival's start would refill what a stop
  has emptied.
* `PortsAreNotLost`, with an up-to-date cache besides. A busy port is leased by a
  start, or it is some user's home (`Home`): both resources that carry a port carry
  it, or the stop that deleted one of them has read it. That it is on *both* is
  what is inductive: a stop gives back one port, which must be the only one there.
  The cache has to be up to date: TLC finds `NoPortLeak` violated without that.

`OperatorProcess_proofs`, for every set of users and RPCs, any number of tasks and
of graceful ends (`ProcessAssumption`). No assumption is made about the cluster or the RPCs: the cache
may lag, requests and publications may fail, RPCs overlap each other and the
shutdown. The theorems are about the behaviour up to its first disorder (`orderly`),
after which the properties are not so.

* `PortsStayKnown`, `EndsAreAnnounced`, `EndsLeaveNothing`, by `ProcessInvariance`.
  `LeftOk` is the heart of it: while the tasks run, what is left of an ingest is on
  the list of some task, or no task has listed yet and one still has to, or a stop
  that was asked for is still at it, which the graceful stop of the gRPC server waits
  for. Before any task has listed, the ingests must be whole or gone when they are
  listed, since a task finds an ingest by its deployment (`SteadyOk`): true as long as
  no two stops of one user compete (`Steady`), and that is so before any task has
  listed, whichever number run and whatever RPCs go on. A step is one of its user's
  only RPC, which is a stop once the tasks run, or of a task (`Held`, `InPlace`): that
  is why nothing comes back behind a task that has listed. `Clean`
  says how far a stop without a rival is; `EndsCounted` counts deployments,
  announcements, and the one stop that owes an announcement. `PortsOk` allows a port
  that is read by several competing stops, of one user only. `TasksOk` says that the
  wait group counts the tasks that run, so that `Drain` finds every list empty, and
  `Exit` finds no RPC (`OnlyRpcs`).

`Session_proofs`, about `Identity`, for every set of users, keys and requests in
flight, with and without failures and restarts (`IdentityAssumption`):

* `TablesAgree`, `SuccessStands`, `RefusalHasReason`: the first three properties of
  the run `session`. The invariant says of each request where it can be
  (`CallOk`), that it has written rows of its own key only (`TxOk`), and what
  it has written and may rely on at each statement: a key that is being created is
  nobody else's (`CreatorOk`), an exchange past its INSERT still finds its user's
  key (`ExchangeOk`), a sign-out that commits leaves nothing (`SignOutOk`).
  `Apart` is what makes `ExchangeOk` inductive: a key that one transaction deletes
  has no token that another inserts, because the INSERT waits for the deletion
  and the DELETE for the row that refers to the key. Most steps concern one
  request and commit nothing (`LocalStep`, `GoesOn`); the COMMIT, which the other
  requests notice, is `CommittedKeeps`, and serves for a COMMIT whose answer is
  lost too.

`Session_proofs`, about `Session`, for every set of pages:

* `ClientUsesIdentity`: `ClientSpec => Spec`. The browser and the stream service
  do nothing with the identity service that `Identity` does not have, so that the
  theorems about it hold of them.
* `NoEntryAfterSignOut`: a fetch that holds a key set holds one that was fetched
  after the fetch began (`PageOk`), when, by `SuccessStands`, a key that was signed
  out is not in the table, and sign-outs are not taken back (`RevokedStays`).
* `MembersStaySignedIn`. The invariant (`OrderInvariance`) ties each request in
  flight to its page (`Linked`), says what answers may say (`AnswerOk`) and that a
  session is gone once a sign-out took effect, whatever its answer was
  (`EndedGone`). As long as nothing has gone wrong, pages that are busy together
  are all loads (`Alone`), the cookie is of a session that was granted and has not
  ended unless a page is signing out (`CookieInOrder`), and `PageInOrder` says why
  each page will leave it so: a load verifies and exchanges the cookie itself, so
  that a refused exchange, which keeps the cookie, loses nothing; a fetch, whose
  refused exchange deletes the cookie, is alone, so that by `RefusedForReason` the
  exchange can only have been about another token. Of the identity service the
  proof uses two summaries of a step of a request: `Proceeds` of a statement and
  `Settles` of a COMMIT.

`Processes_proofs`, for any number of ingests, outages and ends
(`ProcessesAssumption`):

* `NothingLost`: an action property. Once the destroyed worker has subscribed, the
  consumer is there, and a consumer is there only on a stream (`SettledKept`);
  no step deletes either (`Keeps`), so that nothing is lost.
* `DatabaseOpen`: the pool is open from the constructors to the last hook
  (`PoolOpen`) and a handler runs between the HTTP server's hooks only
  (`HandlersServed`).

`StreamPages_proofs`, for every set of dashboards:

* `PagesRefineService`: `PagesSpec => Spec`. Pages read and press buttons; they do
  nothing to the stream service that `StreamService` does not have, so that its
  theorems hold of them.
* `LinksWork`, for every fault. `Lists` says that the stream a visitor saw listed
  stays deployed while it is there, and that no other has or will have its id:
  this is where `StreamService`'s fresh ids are needed again.
* `WritersApart` and `ShownTruly`, with the hypotheses of `StreamsAndIngests`. The
  invariant says what an untroubled dashboard will show when all that is on its way
  has come (`Latest`), that all of that is of one kind (`OneWriter`), and how it
  agrees with the row, the request and the announcement under way (`Follows`): a
  user who follows the dashboard presses a button when it is quiet, the message of
  a start comes before its row, and that of an end after the row is gone. Until the
  page is up nothing happens to its stream (`StillCalm`).

`IngestServer_proofs`, for any number of broadcasts and viewers
(`IngestServerAssumption`):

* `BroadcastsUndisturbed` and `FinishedLeavesNothing`. The invariant has a part that
  holds whatever overlaps (`InStep`: how far a request, its goroutine and its
  transcode are) and one for broadcasts that do not overlap: at most one has
  anything left to end (`OneAtATime`), and that one has the current stream, the
  processor's directory and what is on the disk (`OwnsAll`); a stream that was
  replaced is done (`Replaced`); once the signal came, the task that will remove
  the directory is there while the directory is (`Stopping`).
* `TypeCorrect`.

Model-checked only: every liveness property (`CallsReturn`, `CallsAnswered`,
`DestroyedConsumed`, `RequestsAnswered`, `OperationsEnd`, `DirectoryRemoved`,
`PacketsFlow`, `KeptAreHandled`), because liveness and ENABLED are out of the
prover's reach. Every other property of the runs that pass is a theorem.

## Plan

What would add most from here: the composition of `StreamService` with
`IngestOperator` in place of `OperatorStopSystem`, and the abstract controller
that the operator implements as seen by the stream service.

## Not modelled

* The media itself (RTP, codecs, the segments ffmpeg writes): data and I/O.
  `IngestServer` has the control around it and one of two like pipelines.
* The pages of the client that only show what they fetch; the pages of a viewer.
* The Istio reconcilers and the generated API types of the operator: they do
  nothing but deep-copy.
* The generated HTTP and gRPC handlers: they parse requests and call the handlers
  that are modelled.
* The test clients of the ingest service (`services/ingest/cmd`), which are no
  part of the system.
* Deployment files: no behaviour, but for the migrations, whose constraints
  `StreamService` and `Identity` have, and the restart of pods, which is an action.

----------------------------- MODULE IngestServer -----------------------------
(***************************************************************************)
(* The ingest service (services/ingest): one process with one current      *)
(* stream and one HLS processor, which all streams share. A broadcaster    *)
(* sends its media through WHIP, which replaces the current stream; the    *)
(* media is passed on to the viewers of WHEP and piped into an ffmpeg,     *)
(* which writes a directory that the HLS handlers serve.                   *)
(*                                                                         *)
(* A stream is named by the WHIP request that made it, and so are its      *)
(* context, its goroutine, its transcode and the directory the transcode   *)
(* makes. Of the two media pipelines, which are alike, the one of the      *)
(* video is modelled: its reader is the stdin of ffmpeg. Of the other only *)
(* whether there is one, since ffmpeg waits for its first input and then   *)
(* for its second, the audio, before it goes on with either.               *)
(***************************************************************************)
EXTENDS Naturals

CONSTANTS
    Stream,   \* the WHIP requests
    Watcher,  \* the WHEP requests
    None

ASSUME IngestServerAssumption == None \notin Stream

VARIABLES
    process,         \* starting, up, stopping, or how it ended
    tasks,           \* the shutdown tasks that have not ended
    statefulStream,  \* the current stream, or None
    whip,            \* the WHIP requests: where HandleWebrtc is
    peer,            \* their WebRTC connections, as the page has them
    done,            \* the streams whose context is cancelled
    ingest,          \* the goroutine of each request, and the stream it ingests
    transcode,       \* the transcode each goroutine began, and where it writes
    source,          \* SourceDirectory (and ManifestFile) of the HLS processor,
                     \* None for the empty name
    disk,            \* the directories that exist
    tracks,          \* the tracks of each stream
    opus,            \* the streams whose audio is piped to their ffmpeg
    demux,           \* the goroutine that reads the video of each stream
    mux,             \* the streams whose Mux holds a chunk nobody has taken
    stdin,           \* the transcodes whose copy to ffmpeg holds a chunk
    watch,           \* the WHEP requests
    overlapped       \* history: a WHIP request arrived before all that an
                     \* earlier one began had ended, or the signal to stop
                     \* before a transcode was running

life == <<process, tasks, overlapped>>
processor == <<source, disk>>
media == <<tracks, opus, demux, mux, stdin>>
vars == <<life, statefulStream, whip, peer, done, ingest, transcode, processor,
          media, watch>>

Kind == {"audio", "video"}
Stage == {"none", "begin", "set_up", "watched", "running", "dead", "unstarted",
          "ended"}

TypeOK ==
    /\ process \in {"starting", "media", "up", "stopping",
                   "stopped", "unbound", "nil_stream", "nil_ffmpeg", "nil_pipe"}
    /\ tasks \subseteq {"destroy", "cancel"} \X Stream
    /\ statefulStream \in Stream \cup {None}
    /\ whip \in [Stream -> {"idle", "offered", "destroy", "clear", "allocate",
                           "answered", "dropped"}]
    /\ peer \in [Stream -> {"new", "connected", "closed", "unheard"}]
    /\ done \subseteq Stream
    /\ ingest \in [Stream -> [pc : {"none", "begin", "ingesting", "waiting", "ended"},
                              of : Stream \cup {None}]]
    /\ transcode \in [Stream -> [pc : Stage, out : Stream \cup {None}]]
    /\ source \in Stream \cup {None}
    /\ disk \subseteq Stream
    /\ tracks \in [Stream -> SUBSET Kind]
    /\ opus \subseteq Stream
    /\ demux \in [Stream -> {"none", "read", "write", "ended"}]
    /\ mux \subseteq Stream
    /\ stdin \subseteq Stream
    /\ watch \in [Watcher -> [pc : {"idle", "joining", "watching", "refused"},
                              of : Stream \cup {None}]]
    /\ overlapped \in BOOLEAN
    /\ \A b \in Stream :
        /\ demux[b] # "none" => "video" \in tracks[b]
        /\ b \in opus => "audio" \in tracks[b]
        /\ transcode[b].pc = "none" <=> ingest[b].pc \in {"none", "begin"}
        /\ transcode[b].pc \in {"none", "begin", "set_up"} => transcode[b].out = None
    /\ \A w \in Watcher : watch[w].pc = "watching" => tracks[watch[w].of] = Kind

Init ==
    /\ process = "starting"
    /\ tasks = {}
    /\ statefulStream = None
    /\ whip = [b \in Stream |-> "idle"]
    /\ peer = [b \in Stream |-> "new"]
    /\ done = {}
    /\ ingest = [b \in Stream |-> [pc |-> "none", of |-> None]]
    /\ transcode = [b \in Stream |-> [pc |-> "none", out |-> None]]
    /\ source = None
    /\ disk = {}
    /\ tracks = [b \in Stream |-> {}]
    /\ opus = {}
    /\ demux = [b \in Stream |-> "none"]
    /\ mux = {}
    /\ stdin = {}
    /\ watch = [w \in Watcher |-> [pc |-> "idle", of |-> None]]
    /\ overlapped = FALSE

------------------------------------------------------------------------------
(* The process starts: the handlers, whose construction listens for the    *)
(* media, are constructed before the server of HTTP listens. A port that   *)
(* is taken ends it.                                                       *)

ProcessBecomes(state) ==
    /\ process' = state
    /\ UNCHANGED <<tasks, overlapped, statefulStream, whip, peer, done, ingest, transcode,
                   processor, media, watch>>

NewIngestWebrtcAPI ==
    process = "starting" /\ \E state \in {"media", "unbound"} : ProcessBecomes(state)

StartIngestHttp ==
    process = "media" /\ \E state \in {"up", "unbound"} : ProcessBecomes(state)

Start == NewIngestWebrtcAPI \/ StartIngestHttp

------------------------------------------------------------------------------
Running == process \in {"up", "stopping"}

(* Destroy, of whichever stream, removes what the processor has by then.   *)
Destroy == disk' = disk \ {source} /\ UNCHANGED source

Panic(cause) ==
    /\ process' = cause
    /\ UNCHANGED <<statefulStream, whip, peer, done, ingest, transcode, processor, media,
                   watch, overlapped, tasks>>

(* Something a request began has not ended.                                *)
Busy(b) ==
    \/ whip[b] \in {"destroy", "clear", "allocate"}
    \/ ingest[b].pc \notin {"none", "ended"}
    \/ transcode[b].pc \notin {"none", "ended"}

(* The context of the transcode of b, which Ingest and the transcode       *)
(* itself cancel when they return.                                         *)
Cancelled(b) == b \in done \/ ingest[b].pc = "waiting" \/ ingest[b].pc = "ended"

------------------------------------------------------------------------------
(* A WHIP request: the offer of a page, its answer, and HandleWebrtc, no   *)
(* step of which holds a lock.                                             *)

startStreamConn(b) ==
    /\ Running
    /\ whip[b] = "idle"
    /\ whip' = [whip EXCEPT ![b] = "offered"]
    /\ UNCHANGED <<life, statefulStream, peer, done, ingest, transcode, processor, media,
                   watch>>

(* An offer that cannot be answered does nothing to the current stream.    *)
NoAnswer(b) ==
    /\ Running
    /\ whip[b] = "offered"
    /\ whip' = [whip EXCEPT ![b] = "dropped"]
    /\ UNCHANGED <<life, statefulStream, peer, done, ingest, transcode, processor, media,
                   watch>>

HandleWebrtc(b) ==
    /\ Running
    /\ whip[b] = "offered"
    /\ whip' = [whip EXCEPT ![b] = IF statefulStream = None THEN "allocate" ELSE "destroy"]
    /\ overlapped' = (overlapped \/ process = "stopping" \/ \E c \in Stream : Busy(c))
    /\ UNCHANGED <<process, tasks, statefulStream, peer, done, ingest, transcode, processor,
                   media, watch>>

(* The server recovers from a nil pointer in a handler, and drops the      *)
(* request.                                                                *)
DestroyOld(b) ==
    /\ Running
    /\ whip[b] = "destroy"
    /\ \/ /\ statefulStream = None
          /\ whip' = [whip EXCEPT ![b] = "dropped"]
          /\ UNCHANGED processor
       \/ /\ statefulStream # None
          /\ Destroy
          /\ whip' = [whip EXCEPT ![b] = "clear"]
    /\ UNCHANGED <<life, statefulStream, peer, done, ingest, transcode, media, watch>>

ClearOld(b) ==
    /\ Running
    /\ whip[b] = "clear"
    /\ statefulStream' = None
    /\ whip' = [whip EXCEPT ![b] = "allocate"]
    /\ UNCHANGED <<life, peer, done, ingest, transcode, processor, media, watch>>

StoreNew(b) ==
    /\ Running
    /\ whip[b] = "allocate"
    /\ statefulStream' = b
    /\ whip' = [whip EXCEPT ![b] = "answered"]
    /\ ingest' = [ingest EXCEPT ![b].pc = "begin"]
    /\ UNCHANGED <<life, peer, done, transcode, processor, media, watch>>

PeerBecomes(b, state) ==
    /\ peer' = [peer EXCEPT ![b] = state]
    /\ UNCHANGED <<life, statefulStream, whip, done, ingest, transcode, processor, media,
                   watch>>

(* ICE connects the peers once the page has the answer.                    *)
Connect(b) ==
    /\ Running
    /\ whip[b] = "answered"
    /\ peer[b] = "new"
    /\ b \notin done
    /\ PeerBecomes(b, "connected")

(* The page is left, and closes its connection and its tracks. The server  *)
(* is not told, and hears nothing of a connection that never was. (One     *)
(* whose request was dropped has nothing at the other end: left out.)      *)
stopStreamConn(b) ==
    /\ whip[b] \notin {"idle", "dropped"}
    /\ \/ peer[b] = "new" /\ PeerBecomes(b, "unheard")
       \/ peer[b] = "connected" /\ PeerBecomes(b, "closed")

(* ICE finds the peer disconnected, because the page was left or the       *)
(* network failed: the connection is closed, its tracks end, and its       *)
(* context is cancelled. A peer that never connected fails instead, which  *)
(* nothing waits for.                                                      *)
Disconnect(b) ==
    /\ Running
    /\ peer[b] \in {"connected", "closed"}
    /\ b \notin done
    /\ peer' = [peer EXCEPT ![b] = "closed"]
    /\ done' = done \cup {b}
    /\ UNCHANGED <<life, statefulStream, whip, ingest, transcode, processor, media, watch>>

------------------------------------------------------------------------------
(* The goroutine of a request. *)

(* Ingest, of the stream that is current when the goroutine runs.          *)
Ingest(b) ==
    /\ Running
    /\ ingest[b].pc = "begin"
    /\ \/ statefulStream = None /\ Panic("nil_stream")
       \/ /\ statefulStream # None
          /\ ingest' = [ingest EXCEPT ![b] = [pc |-> "ingesting", of |-> statefulStream]]
          /\ transcode' = [transcode EXCEPT ![b].pc = "begin"]
          /\ UNCHANGED <<life, statefulStream, whip, peer, done, processor, media, watch>>

IngestReturns(b) ==
    /\ Running
    /\ ingest[b].pc = "ingesting"
    /\ b \in done \/ transcode[b].pc \in {"unstarted", "ended"}
    /\ ingest' = [ingest EXCEPT ![b].pc = "waiting"]
    /\ UNCHANGED <<life, statefulStream, whip, peer, done, transcode, processor, media,
                   watch>>

(* Mutant of DestroyCurrent: the goroutine leaves it to the transcode.     *)
DestroyCurrentSkipped(b) ==
    /\ Running
    /\ ingest[b].pc = "waiting"
    /\ b \in done
    /\ ingest' = [ingest EXCEPT ![b].pc = "ended"]
    /\ UNCHANGED <<life, statefulStream, whip, peer, done, transcode, processor, media,
                   watch>>

DestroyCurrent(b) ==
    /\ Running
    /\ ingest[b].pc = "waiting"
    /\ b \in done
    /\ \/ statefulStream = None /\ Panic("nil_stream")
       \/ /\ statefulStream # None
          /\ Destroy
          /\ ingest' = [ingest EXCEPT ![b].pc = "ended"]
          /\ UNCHANGED <<life, statefulStream, whip, peer, done, transcode, media, watch>>

------------------------------------------------------------------------------
(* Transcode, in a goroutine of its own.                                   *)

(* Mutant of MakeDirectory: the directory is not recorded.                 *)
MakeDirectoryUnset(b) ==
    /\ Running
    /\ transcode[b].pc = "begin"
    /\ disk' = disk \cup {b}
    /\ transcode' = [transcode EXCEPT ![b].pc = "set_up"]
    /\ UNCHANGED <<life, statefulStream, whip, peer, done, ingest, source, media, watch>>

(* A directory that cannot be made is logged, and has no name.             *)
MakeDirectory(b) ==
    /\ Running
    /\ transcode[b].pc = "begin"
    /\ \/ disk' = disk \cup {b} /\ source' = b
       \/ UNCHANGED disk /\ source' = None
    /\ transcode' = [transcode EXCEPT ![b].pc = "set_up"]
    /\ UNCHANGED <<life, statefulStream, whip, peer, done, ingest, media, watch>>

(* The arguments of ffmpeg, the audio pipe, and the goroutine that will    *)
(* kill it.                                                                *)
Prepare(b) ==
    /\ Running
    /\ transcode[b].pc = "set_up"
    /\ transcode' = [transcode EXCEPT ![b] = [pc |-> "watched", out |-> source]]
    /\ UNCHANGED <<life, statefulStream, whip, peer, done, ingest, processor, media, watch>>

(* NewNamedPipe fails, removes the directory of all temporary files, and   *)
(* returns the nil pipe that ends the process; or StderrPipe does, and its *)
(* nil reader ends the process.                                            *)
NoPipe(b) ==
    /\ Running
    /\ transcode[b].pc = "set_up"
    /\ process' = "nil_pipe"
    /\ disk' \in {{}, disk}
    /\ UNCHANGED <<tasks, overlapped, statefulStream, whip, peer, done, ingest, transcode,
                   source, media, watch>>

Become(b, pc) ==
    /\ Running
    /\ transcode' = [transcode EXCEPT ![b].pc = pc]
    /\ UNCHANGED <<life, statefulStream, whip, peer, done, ingest, processor, media, watch>>

StartFfmpeg(b) == transcode[b].pc = "watched" /\ Become(b, "running")

(* ffmpeg cannot be started: the transcode returns, and what it defers is  *)
(* done.                                                                   *)
FfmpegFails(b) ==
    /\ Running
    /\ transcode[b].pc = "watched"
    /\ transcode' = [transcode EXCEPT ![b].pc = "unstarted"]
    /\ Destroy
    /\ UNCHANGED <<life, statefulStream, whip, peer, done, ingest, media, watch>>

(* There is no process to kill before ffmpeg has been started, or when it  *)
(* could not be.                                                           *)
KillFfmpeg(b) ==
    /\ Running
    /\ Cancelled(b) \/ transcode[b].pc = "unstarted"
    /\ \/ transcode[b].pc \in {"watched", "unstarted"} /\ Panic("nil_ffmpeg")
       \/ transcode[b].pc = "running" /\ Become(b, "dead")

FfmpegExits(b) == transcode[b].pc = "running" /\ Become(b, "dead")

(* Mutant of TranscodeReturns: nothing is deferred.                        *)
TranscodeReturnsKept(b) ==
    /\ Running
    /\ transcode[b].pc = "dead"
    /\ b \in stdin
    /\ stdin' = stdin \ {b}
    /\ transcode' = [transcode EXCEPT ![b].pc = "ended"]
    /\ UNCHANGED <<life, statefulStream, whip, peer, done, ingest, processor, tracks, opus,
                   demux, mux, watch>>

(* Run returns when the copy to the stdin has ended too, which it does at  *)
(* its next write.                                                         *)
TranscodeReturns(b) ==
    /\ Running
    /\ transcode[b].pc = "dead"
    /\ b \in stdin
    /\ stdin' = stdin \ {b}
    /\ transcode' = [transcode EXCEPT ![b].pc = "ended"]
    /\ Destroy
    /\ UNCHANGED <<life, statefulStream, whip, peer, done, ingest, tracks, opus, demux, mux,
                   watch>>

------------------------------------------------------------------------------
(* The media. *)

(* The codecs of the media engine are those of the pipelines, Opus, VP8    *)
(* and H264, and others.                                                   *)
Codec == {"piped", "other"}

(* A track of the broadcaster; that of the video starts the goroutines, if *)
(* there is a pipeline for its codec.                                      *)
Track(b, kind, codec) ==
    /\ Running
    /\ peer[b] = "connected"
    /\ b \notin done
    /\ kind \notin tracks[b]
    /\ tracks' = [tracks EXCEPT ![b] = @ \cup {kind}]
    /\ demux' = IF kind = "video" /\ codec = "piped" THEN [demux EXCEPT ![b] = "read"] ELSE demux
    /\ opus' = IF kind = "audio" /\ codec = "piped" THEN opus \cup {b} ELSE opus
    /\ UNCHANGED <<life, statefulStream, whip, peer, done, ingest, transcode, processor, mux,
                   stdin, watch>>

(* A packet is read and written to the viewers; the track ends with its    *)
(* peer. One that the muxer refuses, or that does not complete a sample,   *)
(* changes nothing: left out.                                              *)
DemuxRead(b) ==
    /\ Running
    /\ demux[b] = "read"
    /\ peer[b] = "connected" \/ b \in done
    /\ demux' = [demux EXCEPT ![b] = IF b \in done THEN "ended" ELSE "write"]
    /\ UNCHANGED <<life, statefulStream, whip, peer, done, ingest, transcode, processor,
                   tracks, opus, mux, stdin, watch>>

(* The sample is written to the pipe that Mux reads, once Mux has passed   *)
(* on the one before it.                                                   *)
DemuxWrite(b) ==
    /\ Running
    /\ demux[b] = "write"
    /\ b \notin mux
    /\ demux' = [demux EXCEPT ![b] = "read"]
    /\ mux' = mux \cup {b}
    /\ UNCHANGED <<life, statefulStream, whip, peer, done, ingest, transcode, processor,
                   tracks, opus, stdin, watch>>

(* Mutant of CopyRead: the video is transcoded for who watches.            *)
CopyReadWatched(b) ==
    /\ Running
    /\ transcode[b].pc \in {"running", "dead"}
    /\ b \notin stdin
    /\ ingest[b].of \in mux
    /\ \E w \in Watcher : watch[w].of = ingest[b].of
    /\ mux' = mux \ {ingest[b].of}
    /\ stdin' = stdin \cup {b}
    /\ UNCHANGED <<life, statefulStream, whip, peer, done, ingest, transcode, processor,
                   tracks, opus, demux, watch>>

(* The copy that ffmpeg's stdin is takes a chunk from the pipe.            *)
CopyRead(b) ==
    /\ Running
    /\ transcode[b].pc \in {"running", "dead"}
    /\ b \notin stdin
    /\ ingest[b].of \in mux
    /\ mux' = mux \ {ingest[b].of}
    /\ stdin' = stdin \cup {b}
    /\ UNCHANGED <<life, statefulStream, whip, peer, done, ingest, transcode, processor,
                   tracks, opus, demux, watch>>

(* ffmpeg reads the chunk, or the pipe has room for it.                    *)
CopyWrite(b) ==
    /\ Running
    /\ transcode[b].pc = "running"
    /\ b \in stdin
    /\ stdin' = stdin \ {b}
    /\ UNCHANGED <<life, statefulStream, whip, peer, done, ingest, transcode, processor,
                   tracks, opus, demux, mux, watch>>

------------------------------------------------------------------------------
(* Viewers. *)

(* A WHEP request takes the stream that is current, ...                    *)
Whep(w) ==
    /\ Running
    /\ watch[w].pc = "idle"
    /\ watch' = [watch EXCEPT ![w] =
            IF statefulStream = None THEN [pc |-> "refused", of |-> None]
            ELSE [pc |-> "joining", of |-> statefulStream]]
    /\ UNCHANGED <<life, statefulStream, whip, peer, done, ingest, transcode, processor,
                   media>>

(* Mutant of WhepAnswer: tracks that have not come are passed over.        *)
WhepAnswerUnchecked(w) ==
    /\ Running
    /\ watch[w].pc = "joining"
    /\ watch' = [watch EXCEPT ![w].pc = "watching"]
    /\ UNCHANGED <<life, statefulStream, whip, peer, done, ingest, transcode, processor,
                   media>>

(* ... and its tracks: one that is nil ends the request.                   *)
WhepAnswer(w) ==
    /\ Running
    /\ watch[w].pc = "joining"
    /\ watch' = [watch EXCEPT ![w].pc =
            IF tracks[watch[w].of] = Kind THEN "watching" ELSE "refused"]
    /\ UNCHANGED <<life, statefulStream, whip, peer, done, ingest, transcode, processor,
                   media>>

(* What the HLS handlers serve: the playlist and segments of directory d.  *)
Served(d) == source = d /\ d \in disk

------------------------------------------------------------------------------
Handler(b) == NoAnswer(b) \/ HandleWebrtc(b) \/ DestroyOld(b) \/ ClearOld(b) \/ StoreNew(b)
Goroutine(b) == Ingest(b) \/ IngestReturns(b) \/ DestroyCurrent(b)
Transcode(b) ==
    MakeDirectory(b) \/ Prepare(b) \/ StartFfmpeg(b) \/ KillFfmpeg(b) \/ TranscodeReturns(b)
TranscodeFails(b) == NoPipe(b) \/ FfmpegFails(b) \/ FfmpegExits(b)
Pipeline(b) == DemuxRead(b) \/ DemuxWrite(b) \/ CopyRead(b) \/ CopyWrite(b)

(* Gracefully: on a signal, all tasks at once. A WHIP request adds the     *)
(* first of its tasks, its goroutine the second.                           *)
Gracefully ==
    /\ process = "up"
    /\ process' = "stopping"
    /\ tasks' = {"destroy"} \X {b \in Stream : whip[b] = "answered"}
              \cup {"cancel"} \X {b \in Stream : ingest[b].pc \notin {"none", "begin"}}
    /\ overlapped' = (overlapped \/ \E b \in Stream :
            Busy(b) /\ transcode[b].pc \in {"none", "begin", "set_up", "watched"})
    /\ UNCHANGED <<statefulStream, whip, peer, done, ingest, transcode, processor, media, watch>>

Task(b) ==
    /\ Running
    /\ \/ /\ <<"destroy", b>> \in tasks
          /\ tasks' = tasks \ {<<"destroy", b>>}
          /\ Destroy
          /\ UNCHANGED done
       \/ /\ <<"cancel", b>> \in tasks
          /\ tasks' = tasks \ {<<"cancel", b>>}
          /\ done' = done \cup {b}
          /\ UNCHANGED processor
    /\ UNCHANGED <<process, overlapped, statefulStream, whip, peer, ingest, transcode, media,
                   watch>>

(* The tasks have ended, and so does main. *)
Stopped == process = "stopping" /\ tasks = {} /\ ProcessBecomes("stopped")

Next ==
    \/ Start \/ Gracefully \/ Stopped
    \/ \E b \in Stream :
        \/ startStreamConn(b) \/ Handler(b) \/ Goroutine(b) \/ Task(b)
        \/ Connect(b) \/ stopStreamConn(b) \/ Disconnect(b)
        \/ Transcode(b) \/ TranscodeFails(b) \/ Pipeline(b)
        \/ \E kind \in Kind, codec \in Codec : Track(b, kind, codec)
    \/ \E w \in Watcher : Whep(w) \/ WhepAnswer(w)

Spec == Init /\ [][Next]_vars

(* An ffmpeg reads on once the audio has come: it opens its inputs one     *)
(* after the other, and the audio pipe, which the service holds open for   *)
(* writing too, never ends.                                                *)
ReadsOn(b) == ingest[b].of \in opus

(* Goroutines run, an ffmpeg that reads on reads its input and any can be  *)
(* killed, broadcasters send packets, and ICE notices that a page was      *)
(* left. Nothing makes a broadcaster come, connect, leave or start a       *)
(* track, or anything about a transcode fail.                              *)
Fairness ==
    \A b \in Stream :
        /\ WF_vars(peer[b] = "closed" /\ Disconnect(b))
        /\ WF_vars(Goroutine(b))
        /\ WF_vars(Transcode(b))
        /\ WF_vars(DemuxRead(b) \/ DemuxWrite(b))
        /\ WF_vars(CopyRead(b) \/ (ReadsOn(b) /\ CopyWrite(b)))

FairSpec == Spec /\ Fairness

------------------------------------------------------------------------------
(* Properties. All but one are about broadcasts each of which arrives when *)
(* everything an earlier one began has ended. The code does not see to     *)
(* that, and does not have them otherwise.                                 *)

(* A broadcast that is on is the one that is served: its own goroutine     *)
(* ingests its stream, its ffmpeg writes the directory the HLS handlers    *)
(* serve, unless it could not be made, and nobody watches a stream that    *)
(* was replaced while it was on; the process does not end at a nil stream  *)
(* (statefulstream.go:36-70, ffmpeghlsmediaprocessor.go:26-38,             *)
(* whep/handler.go:54).                                                    *)
Undisturbed ==
    ~overlapped =>
        /\ process # "nil_stream"
        /\ \A b \in Stream :
            /\ ingest[b].of \in {None, b}
            /\ process = "up" /\ transcode[b].pc = "running" /\ b \notin done =>
                    \/ transcode[b].out = b /\ Served(b)
                    \/ transcode[b].out = None /\ b \notin disk
        /\ \A w \in Watcher :
            watch[w].pc = "watching" => watch[w].of = statefulStream \/ watch[w].of \in done

(* A transcode that returned has left no directory, although the           *)
(* goroutine of its broadcast may have removed the processor's directory   *)
(* before there was one, and a process that stopped has left none          *)
(* (ffmpeghlsmediaprocessor.go:26, 115-121, statefulstream.go:51-53).      *)
FinishedIsGone ==
    ~overlapped =>
        /\ \A b \in Stream : transcode[b].pc = "ended" => b \notin disk
        /\ process = "stopped" => disk = {}

(* Nor does one whose ffmpeg was killed and that never returns, because no *)
(* chunk comes that would end the copy to its stdin: the goroutine of the  *)
(* broadcast removes the directory, if it was there when the page was left *)
(* or the broadcast ended (whip/handler.go:66-73, statefulstream.go:65-68, *)
(* ffmpeghlsmediaprocessor.go:74, 107).                                    *)
DirectoryRemoved ==
    \A b \in Stream :
        (/\ ingest[b].pc \in {"ingesting", "waiting"}
         /\ peer[b] = "closed" \/ b \in done
         /\ b \in disk)
            ~> b \notin disk \/ overlapped \/ ~Running

(* The viewers' packets and the chunks for ffmpeg go through one           *)
(* goroutine, which waits for ffmpeg: for a broadcast with Opus audio it   *)
(* never waits for good while the ffmpeg of the broadcast runs, or has yet *)
(* to start (demuxerbuilder.go:11-22, muxerbuilder.go:32-36,               *)
(* ffmpeghlsmediaprocessor.go:41-76).                                      *)
PacketsFlow ==
    \A b \in Stream :
        demux[b] = "write" /\ b \in opus
            ~> \/ demux[b] # "write"
               \/ transcode[b].pc \in {"dead", "unstarted", "ended"}
               \/ overlapped
               \/ ~Running
==============================================================================

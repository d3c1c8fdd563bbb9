-------------------------- MODULE IngestServer_proofs --------------------------
(***************************************************************************)
(* Proofs about IngestServer.tla, for any number of WHIP and WHEP          *)
(* requests: broadcasts each of which arrives when everything an earlier   *)
(* one began has ended do not disturb each other, and leave nothing.       *)
(***************************************************************************)
EXTENDS IngestServer, TLAPS

(* What each part has got to tells of the others, whatever overlaps: the   *)
(* goroutine begins with the answer, and ends only when it is done.        *)
InStep(b) ==
    /\ ingest[b].pc # "none" <=> whip[b] = "answered"
    /\ ingest[b].pc \in {"none", "begin"} <=> ingest[b].of = None
    /\ ingest[b].pc = "ended" => b \in done

(* A viewer has a stream, which a request made.                            *)
ViewerOk(w) ==
    watch[w].pc \in {"joining", "watching"} => watch[w].of \in Stream

BaseInv ==
    /\ TypeOK
    /\ process \in {"starting", "media", "up"} => tasks = {}
    /\ \A b \in Stream : InStep(b)
    /\ \A w \in Watcher : ViewerOk(w)

(* The rest is about broadcasts that do not overlap. At most one has       *)
(* anything left to end, ...                                               *)
OneAtATime == \A b, c \in Stream : Busy(b) /\ Busy(c) => b = c

(* ... it has the current stream, the one its goroutine ingests, the       *)
(* directory of the processor and, until it is done, that directory is     *)
(* there, unless it could not be made; when it has ended it left none.     *)
OwnsAll(b) ==
    /\ ingest[b].of \in {None, b}
    /\ whip[b] = "answered" /\ Busy(b) => statefulStream = b
    /\ transcode[b].pc \in {"set_up", "watched", "running", "dead"} =>
            source = b \/ (source = None /\ b \notin disk)
    /\ transcode[b].pc \in {"watched", "running", "dead"} => transcode[b].out = source
    /\ b \in disk => transcode[b].pc \in {"set_up", "watched", "running", "dead"}
    /\ (/\ process \in {"starting", "media", "up"} /\ b \notin done
        /\ transcode[b].pc \in {"set_up", "watched", "running", "dead"}
        /\ source = b) => b \in disk

(* A stream that was answered and is not the current one is done: a viewer *)
(* cannot have got hold of another.                                        *)
Current == statefulStream # None => whip[statefulStream] = "answered"
Replaced(b) == whip[b] = "answered" => b = statefulStream \/ b \in done
Viewed(w) == watch[w].pc \in {"joining", "watching"} => whip[watch[w].of] = "answered"

(* After the signal nothing new begins, and the task that will remove the  *)
(* directory is there for as long as the directory is.                     *)
Stopping(b) ==
    /\ Busy(b) => transcode[b].pc \in {"running", "dead", "unstarted", "ended"}
    /\ b \in disk => <<"destroy", b>> \in tasks

Apart ==
    /\ process # "nil_stream"
    /\ OneAtATime
    /\ \A b \in Stream : OwnsAll(b) /\ Replaced(b)
    /\ Current
    /\ \A w \in Watcher : Viewed(w)
    /\ process \in {"stopping", "stopped"} => \A b \in Stream : Stopping(b)
    /\ process = "stopped" => tasks = {}

IInv == BaseInv /\ (~overlapped => Apart)

------------------------------------------------------------------------------
(* Steps that leave alone all that broadcasts have to themselves. (An      *)
(* invariant holds first, and the step that ends the process is like them.) *)

LEMMA InitHolds == ASSUME Init PROVE IInv
  <1> USE DEF Init
  <1>1. TypeOK
    BY DEF TypeOK, Stage
  <1>2. BaseInv
    BY <1>1 DEF BaseInv, InStep, ViewerOk
  <1>3. \A b \in Stream : ~Busy(b) /\ OwnsAll(b) /\ Replaced(b)
    BY IngestServerAssumption DEF Busy, OwnsAll, Replaced
  <1>4. Apart
    BY <1>3 DEF Apart, OneAtATime, Current, Viewed
  <1> QED
    BY <1>2, <1>4 DEF IInv

(* The process ends at a nil pointer.                                      *)
LEMMA PanicKeeps ==
    ASSUME IInv, NEW cause, Panic(cause),
           \/ cause = "nil_ffmpeg"
           \/ cause = "nil_stream" /\ overlapped
    PROVE  IInv'
  <1> USE DEF Panic, processor, media
  <1>1. TypeOK'
    BY DEF IInv, BaseInv, TypeOK
  <1>2. BaseInv'
    BY <1>1 DEF IInv, BaseInv, InStep, ViewerOk
  <1>3. ASSUME Apart, ~overlapped
        PROVE  Apart'
    <2> USE <1>3 DEF Apart
    <2>1. OneAtATime'
      BY DEF OneAtATime, Busy
    <2>2. \A b \in Stream : OwnsAll(b)' /\ Replaced(b)'
      BY DEF OwnsAll, Replaced, Busy
    <2>3. Current' /\ \A w \in Watcher : Viewed(w)'
      BY DEF Current, Viewed
    <2> QED
      BY <2>1, <2>2, <2>3
  <1> QED
    BY <1>2, <1>3 DEF IInv

(* A step of the media, of a peer or of a viewer: it may cancel a stream,  *)
(* and a viewer may come to have a stream that was answered.               *)
LEMMA QuietStep ==
    ASSUME IInv, BaseInv', done \subseteq done',
           UNCHANGED <<process, tasks, overlapped, statefulStream, whip, ingest, transcode,
                       source, disk>>,
           Apart => \A w \in Watcher : Viewed(w)'
    PROVE  IInv'
  <1> SUFFICES ASSUME Apart PROVE Apart'
    BY DEF IInv
  <1> USE DEF Apart
  <1>1. OneAtATime'
    BY DEF OneAtATime, Busy
  <1>2. \A b \in Stream : OwnsAll(b)' /\ Replaced(b)'
    BY DEF OwnsAll, Replaced, Busy
  <1>3. process' \in {"stopping", "stopped"} => \A b \in Stream : Stopping(b)'
    BY DEF Stopping, Busy
  <1>4. Current'
    BY DEF Current
  <1> QED
    BY <1>1, <1>2, <1>3, <1>4

LEMMA ConnectKeeps == ASSUME IInv, NEW b \in Stream, Connect(b) PROVE IInv'
  <1> USE DEF IInv, BaseInv, Connect, PeerBecomes, life, processor, media
  <1>1. TypeOK'
    BY DEF TypeOK
  <1>2. BaseInv'
    BY <1>1 DEF InStep, ViewerOk
  <1> QED
    BY <1>2, QuietStep DEF Apart, Viewed

LEMMA stopStreamConnKeeps == ASSUME IInv, NEW b \in Stream, stopStreamConn(b) PROVE IInv'
  <1> USE DEF IInv, BaseInv, stopStreamConn, PeerBecomes, life, processor, media
  <1>1. TypeOK'
    <2>1. peer' \in [Stream -> {"new", "connected", "closed", "unheard"}]
      BY DEF TypeOK
    <2> QED
      BY <2>1 DEF TypeOK
  <1>2. BaseInv'
    BY <1>1 DEF InStep, ViewerOk
  <1> QED
    BY <1>2, QuietStep DEF Apart, Viewed

LEMMA DisconnectKeeps == ASSUME IInv, NEW b \in Stream, Disconnect(b) PROVE IInv'
  <1> USE DEF IInv, BaseInv, Disconnect, life, processor, media
  <1>1. TypeOK'
    BY DEF TypeOK
  <1>2. BaseInv'
    BY <1>1 DEF InStep, ViewerOk
  <1> QED
    BY <1>2, QuietStep DEF Apart, Viewed

LEMMA DemuxReadKeeps == ASSUME IInv, NEW b \in Stream, DemuxRead(b) PROVE IInv'
  <1> USE DEF IInv, BaseInv, DemuxRead, life, processor, media
  <1>1. TypeOK'
    BY DEF TypeOK
  <1>2. BaseInv'
    BY <1>1 DEF InStep, ViewerOk
  <1> QED
    BY <1>2, QuietStep DEF Apart, Viewed

LEMMA DemuxWriteKeeps == ASSUME IInv, NEW b \in Stream, DemuxWrite(b) PROVE IInv'
  <1> USE DEF IInv, BaseInv, DemuxWrite, life, processor, media
  <1>1. TypeOK'
    BY DEF TypeOK
  <1>2. BaseInv'
    BY <1>1 DEF InStep, ViewerOk
  <1> QED
    BY <1>2, QuietStep DEF Apart, Viewed

LEMMA CopyReadKeeps == ASSUME IInv, NEW b \in Stream, CopyRead(b) PROVE IInv'
  <1> USE DEF IInv, BaseInv, CopyRead, life, processor, media
  <1>1. TypeOK'
    BY DEF TypeOK
  <1>2. BaseInv'
    BY <1>1 DEF InStep, ViewerOk
  <1> QED
    BY <1>2, QuietStep DEF Apart, Viewed

LEMMA CopyWriteKeeps == ASSUME IInv, NEW b \in Stream, CopyWrite(b) PROVE IInv'
  <1> USE DEF IInv, BaseInv, CopyWrite, life, processor, media
  <1>1. TypeOK'
    BY DEF TypeOK
  <1>2. BaseInv'
    BY <1>1 DEF InStep, ViewerOk
  <1> QED
    BY <1>2, QuietStep DEF Apart, Viewed

LEMMA TrackKeeps ==
    ASSUME IInv, NEW b \in Stream, NEW kind \in Kind, NEW codec \in Codec,
           Track(b, kind, codec)
    PROVE  IInv'
  <1> USE DEF IInv, BaseInv, Track, life, processor, media
  <1>1. TypeOK'
    BY DEF TypeOK, ViewerOk, Kind
  <1>2. BaseInv'
    BY <1>1 DEF InStep, ViewerOk
  <1> QED
    BY <1>2, QuietStep DEF Apart, Viewed

LEMMA WhepKeeps == ASSUME IInv, NEW w \in Watcher, Whep(w) PROVE IInv'
  <1> USE DEF IInv, BaseInv, Whep, life, processor, media
  <1>1. TypeOK'
    BY DEF TypeOK, ViewerOk
  <1>2. BaseInv'
    BY <1>1 DEF InStep, ViewerOk, TypeOK
  <1>3. Apart => \A v \in Watcher : Viewed(v)'
    BY DEF Apart, Viewed, TypeOK, Current
  <1> QED
    BY <1>2, <1>3, QuietStep

LEMMA WhepAnswerKeeps == ASSUME IInv, NEW w \in Watcher, WhepAnswer(w) PROVE IInv'
  <1> USE DEF IInv, BaseInv, WhepAnswer, life, processor, media
  <1>1. TypeOK'
    BY DEF TypeOK, ViewerOk
  <1>2. BaseInv'
    BY <1>1 DEF InStep, ViewerOk, TypeOK
  <1>3. Apart => \A v \in Watcher : Viewed(v)'
    BY DEF Apart, Viewed, TypeOK
  <1> QED
    BY <1>2, <1>3, QuietStep

------------------------------------------------------------------------------
(* Steps that may take or give up what a broadcast has to itself. Only a   *)
(* WHIP request lets another broadcast be busy, and history records it if  *)
(* one was; the others disturb only the conjuncts about the one that is.   *)

LEMMA startStreamConnKeeps == ASSUME IInv, NEW b \in Stream, startStreamConn(b) PROVE IInv'
  <1> USE IngestServerAssumption DEF IInv, BaseInv, startStreamConn, life, processor, media
  <1>1. TypeOK'
    BY DEF TypeOK, InStep, ViewerOk, Stage, Kind
  <1>2. BaseInv'
    BY <1>1 DEF TypeOK, InStep, ViewerOk, Running
  <1> SUFFICES ASSUME ~overlapped' PROVE Apart'
    BY <1>2
  <1>3. ~overlapped /\ Apart
    BY DEF TypeOK
  <1> USE <1>3 DEF Apart, TypeOK, InStep
  <1>4. OneAtATime'
    BY DEF OneAtATime, Busy
  <1>5. \A c \in Stream : OwnsAll(c)'
    BY DEF OneAtATime, Busy, OwnsAll
  <1>6. \A c \in Stream : Replaced(c)'
    BY DEF OneAtATime, Busy, OwnsAll, Replaced
  <1>7. Current'
    BY DEF Current
  <1>8. \A w \in Watcher : Viewed(w)'
    BY DEF Viewed, ViewerOk
  <1>9. process' # "nil_stream"
    BY DEF Busy, OwnsAll
  <1>10. ASSUME process' \in {"stopping", "stopped"}, NEW c \in Stream
        PROVE  Stopping(c)'
    <2>1. Stopping(c)
      BY <1>10
    <2> QED
      BY <2>1, <1>10 DEF OneAtATime, Busy, OwnsAll, Stopping
  <1> QED
    BY <1>4, <1>5, <1>6, <1>7, <1>8, <1>9, <1>10

LEMMA NoAnswerKeeps == ASSUME IInv, NEW b \in Stream, NoAnswer(b) PROVE IInv'
  <1> USE IngestServerAssumption DEF IInv, BaseInv, NoAnswer, life, processor, media
  <1>1. TypeOK'
    BY DEF TypeOK, InStep, ViewerOk, Stage, Kind
  <1>2. BaseInv'
    BY <1>1 DEF TypeOK, InStep, ViewerOk, Running
  <1> SUFFICES ASSUME ~overlapped' PROVE Apart'
    BY <1>2
  <1>3. ~overlapped /\ Apart
    BY DEF TypeOK
  <1> USE <1>3 DEF Apart, TypeOK, InStep
  <1>4. OneAtATime'
    BY DEF OneAtATime, Busy
  <1>5. \A c \in Stream : OwnsAll(c)'
    BY DEF OneAtATime, Busy, OwnsAll
  <1>6. \A c \in Stream : Replaced(c)'
    BY DEF OneAtATime, Busy, OwnsAll, Replaced
  <1>7. Current'
    BY DEF Current
  <1>8. \A w \in Watcher : Viewed(w)'
    BY DEF Viewed, ViewerOk
  <1>9. process' # "nil_stream"
    BY DEF Busy, OwnsAll
  <1>10. ASSUME process' \in {"stopping", "stopped"}, NEW c \in Stream
        PROVE  Stopping(c)'
    <2>1. Stopping(c)
      BY <1>10
    <2> QED
      BY <2>1, <1>10 DEF OneAtATime, Busy, OwnsAll, Stopping
  <1> QED
    BY <1>4, <1>5, <1>6, <1>7, <1>8, <1>9, <1>10

LEMMA HandleWebrtcKeeps == ASSUME IInv, NEW b \in Stream, HandleWebrtc(b) PROVE IInv'
  <1> USE IngestServerAssumption DEF IInv, BaseInv, HandleWebrtc, life, processor, media
  <1>1. TypeOK'
    BY DEF TypeOK, InStep, ViewerOk, Stage, Kind
  <1>2. BaseInv'
    BY <1>1 DEF TypeOK, InStep, ViewerOk, Running
  <1> SUFFICES ASSUME ~overlapped' PROVE Apart'
    BY <1>2
  <1>3. ~overlapped /\ Apart
    BY DEF TypeOK
  <1> USE <1>3 DEF Apart, TypeOK, InStep
  <1>4. process # "stopping" /\ \A c \in Stream : ~Busy(c)
    OBVIOUS
  <1>5. OneAtATime'
    <2>1. \A c \in Stream : Busy(c)' => c = b
      BY <1>4 DEF Busy
    <2> QED
      BY <2>1 DEF OneAtATime
  <1>6. \A c \in Stream : OwnsAll(c)'
    BY DEF OneAtATime, Busy, OwnsAll
  <1>7. \A c \in Stream : Replaced(c)'
    BY DEF OneAtATime, Busy, OwnsAll, Replaced
  <1>8. Current'
    BY DEF Current
  <1>9. \A w \in Watcher : Viewed(w)'
    BY DEF Viewed, ViewerOk
  <1>10. process' # "nil_stream"
    BY DEF Busy, OwnsAll
  <1>11. process' \notin {"stopping", "stopped"}
    BY <1>4 DEF Running
  <1> QED
    BY <1>5, <1>6, <1>7, <1>8, <1>9, <1>10, <1>11

LEMMA DestroyOldKeeps == ASSUME IInv, NEW b \in Stream, DestroyOld(b) PROVE IInv'
  <1> USE IngestServerAssumption DEF IInv, BaseInv, DestroyOld, Destroy, life, processor, media
  <1>1. TypeOK'
    BY DEF TypeOK, InStep, ViewerOk, Stage, Kind
  <1>2. BaseInv'
    BY <1>1 DEF TypeOK, InStep, ViewerOk, Running
  <1> SUFFICES ASSUME ~overlapped' PROVE Apart'
    BY <1>2
  <1>3. ~overlapped /\ Apart
    BY DEF TypeOK
  <1> USE <1>3 DEF Apart, TypeOK, InStep
  <1>4. OneAtATime'
    <2>1. \A c \in Stream : Busy(c)' => Busy(c)
      BY DEF Busy
    <2> QED
      BY <2>1 DEF OneAtATime
  <1>5. \A c \in Stream : OwnsAll(c)'
    BY DEF OneAtATime, Busy, OwnsAll
  <1>6. \A c \in Stream : Replaced(c)'
    BY DEF OneAtATime, Busy, OwnsAll, Replaced
  <1>7. Current'
    BY DEF Current
  <1>8. \A w \in Watcher : Viewed(w)'
    BY DEF Viewed, ViewerOk
  <1>9. process' # "nil_stream"
    BY DEF Busy, OwnsAll
  <1>10. ASSUME process' \in {"stopping", "stopped"}, NEW c \in Stream
        PROVE  Stopping(c)'
    <2>1. Stopping(c)
      BY <1>10
    <2> QED
      BY <2>1, <1>10 DEF OneAtATime, Busy, OwnsAll, Stopping
  <1> QED
    BY <1>4, <1>5, <1>6, <1>7, <1>8, <1>9, <1>10

LEMMA ClearOldKeeps == ASSUME IInv, NEW b \in Stream, ClearOld(b) PROVE IInv'
  <1> USE IngestServerAssumption DEF IInv, BaseInv, ClearOld, life, processor, media
  <1>1. TypeOK'
    BY DEF TypeOK, InStep, ViewerOk, Stage, Kind
  <1>2. BaseInv'
    BY <1>1 DEF TypeOK, InStep, ViewerOk, Running
  <1> SUFFICES ASSUME ~overlapped' PROVE Apart'
    BY <1>2
  <1>3. ~overlapped /\ Apart
    BY DEF TypeOK
  <1> USE <1>3 DEF Apart, TypeOK, InStep
  <1>4. OneAtATime'
    BY DEF OneAtATime, Busy
  <1>5. \A c \in Stream : OwnsAll(c)'
    BY DEF OneAtATime, Busy, OwnsAll
  <1>6. \A c \in Stream : Replaced(c)'
    BY DEF OneAtATime, Busy, OwnsAll, Replaced
  <1>7. Current'
    BY DEF Current
  <1>8. \A w \in Watcher : Viewed(w)'
    BY DEF Viewed, ViewerOk
  <1>9. process' # "nil_stream"
    BY DEF Busy, OwnsAll
  <1>10. ASSUME process' \in {"stopping", "stopped"}, NEW c \in Stream
        PROVE  Stopping(c)'
    <2>1. Stopping(c)
      BY <1>10
    <2> QED
      BY <2>1, <1>10 DEF OneAtATime, Busy, OwnsAll, Stopping
  <1> QED
    BY <1>4, <1>5, <1>6, <1>7, <1>8, <1>9, <1>10

LEMMA StoreNewKeeps == ASSUME IInv, NEW b \in Stream, StoreNew(b) PROVE IInv'
  <1> USE IngestServerAssumption DEF IInv, BaseInv, StoreNew, life, processor, media
  <1>1. TypeOK'
    BY DEF TypeOK, InStep, ViewerOk, Stage, Kind
  <1>2. BaseInv'
    BY <1>1 DEF TypeOK, InStep, ViewerOk, Running
  <1> SUFFICES ASSUME ~overlapped' PROVE Apart'
    BY <1>2
  <1>3. ~overlapped /\ Apart
    BY DEF TypeOK
  <1> USE <1>3 DEF Apart, TypeOK, InStep
  <1>4. OneAtATime'
    BY DEF OneAtATime, Busy
  <1>5. \A c \in Stream : OwnsAll(c)'
    BY DEF OneAtATime, Busy, OwnsAll
  <1>6. \A c \in Stream : Replaced(c)'
    BY DEF OneAtATime, Busy, OwnsAll, Replaced
  <1>7. Current'
    BY DEF Current
  <1>8. \A w \in Watcher : Viewed(w)'
    BY DEF Viewed, ViewerOk
  <1>9. process' # "nil_stream"
    BY DEF Busy, OwnsAll
  <1>10. ASSUME process' \in {"stopping", "stopped"}, NEW c \in Stream
        PROVE  Stopping(c)'
    <2>1. Stopping(c)
      BY <1>10
    <2> QED
      BY <2>1, <1>10 DEF OneAtATime, Busy, OwnsAll, Stopping
  <1> QED
    BY <1>4, <1>5, <1>6, <1>7, <1>8, <1>9, <1>10

LEMMA IngestKeeps == ASSUME IInv, NEW b \in Stream, Ingest(b) PROVE IInv'
  <1>1. CASE statefulStream = None /\ Panic("nil_stream")
    <2>1. overlapped
      <3>1. Busy(b)
        BY DEF Ingest, Busy
      <3>2. whip[b] = "answered" /\ b # None
        BY IngestServerAssumption DEF IInv, BaseInv, InStep, Ingest
      <3> QED
        BY <1>1, <3>1, <3>2 DEF IInv, BaseInv, TypeOK, Apart, OwnsAll
    <2> QED
      BY <1>1, <2>1, PanicKeeps
  <1>2. CASE /\ ingest[b].pc = "begin"
             /\ statefulStream # None
             /\ ingest' = [ingest EXCEPT ![b] = [pc |-> "ingesting", of |-> statefulStream]]
             /\ transcode' = [transcode EXCEPT ![b].pc = "begin"]
             /\ UNCHANGED <<life, statefulStream, whip, peer, done, processor, media, watch>>
    <2> USE <1>2, IngestServerAssumption DEF IInv, BaseInv, life, processor, media
    <2>1. TypeOK'
      BY DEF TypeOK, InStep, ViewerOk, Stage, Kind
    <2>2. BaseInv'
      BY <2>1 DEF TypeOK, InStep, ViewerOk, Running
    <2> SUFFICES ASSUME ~overlapped' PROVE Apart'
      BY <2>2
    <2>3. ~overlapped /\ Apart
      BY DEF TypeOK
    <2> USE <2>3 DEF Apart, TypeOK, InStep
    <2>4. OneAtATime'
      BY DEF OneAtATime, Busy
    <2>5. \A c \in Stream : OwnsAll(c)'
      BY DEF OneAtATime, Busy, OwnsAll
    <2>6. \A c \in Stream : Replaced(c)'
      BY DEF OneAtATime, Busy, OwnsAll, Replaced
    <2>7. Current'
      BY DEF Current
    <2>8. \A w \in Watcher : Viewed(w)'
      BY DEF Viewed, ViewerOk
    <2>9. process' # "nil_stream"
      BY DEF Busy, OwnsAll
    <2>10. ASSUME process' \in {"stopping", "stopped"}, NEW c \in Stream
          PROVE  Stopping(c)'
      <3>1. Stopping(c)
        BY <2>10
      <3> QED
        BY <3>1, <2>10 DEF OneAtATime, Busy, OwnsAll, Stopping
    <2> QED
      BY <2>4, <2>5, <2>6, <2>7, <2>8, <2>9, <2>10
  <1> QED
    BY <1>1, <1>2 DEF Ingest

LEMMA IngestReturnsKeeps == ASSUME IInv, NEW b \in Stream, IngestReturns(b) PROVE IInv'
  <1> USE IngestServerAssumption DEF IInv, BaseInv, IngestReturns, life, processor, media
  <1>1. TypeOK'
    BY DEF TypeOK, InStep, ViewerOk, Stage, Kind
  <1>2. BaseInv'
    BY <1>1 DEF TypeOK, InStep, ViewerOk, Running
  <1> SUFFICES ASSUME ~overlapped' PROVE Apart'
    BY <1>2
  <1>3. ~overlapped /\ Apart
    BY DEF TypeOK
  <1> USE <1>3 DEF Apart, TypeOK, InStep
  <1>4. OneAtATime'
    BY DEF OneAtATime, Busy
  <1>5. \A c \in Stream : OwnsAll(c)'
    BY DEF OneAtATime, Busy, OwnsAll
  <1>6. \A c \in Stream : Replaced(c)'
    BY DEF OneAtATime, Busy, OwnsAll, Replaced
  <1>7. Current'
    BY DEF Current
  <1>8. \A w \in Watcher : Viewed(w)'
    BY DEF Viewed, ViewerOk
  <1>9. process' # "nil_stream"
    BY DEF Busy, OwnsAll
  <1>10. ASSUME process' \in {"stopping", "stopped"}, NEW c \in Stream
        PROVE  Stopping(c)'
    <2>1. Stopping(c)
      BY <1>10
    <2> QED
      BY <2>1, <1>10 DEF OneAtATime, Busy, OwnsAll, Stopping
  <1> QED
    BY <1>4, <1>5, <1>6, <1>7, <1>8, <1>9, <1>10

LEMMA DestroyCurrentKeeps == ASSUME IInv, NEW b \in Stream, DestroyCurrent(b) PROVE IInv'
  <1>1. CASE statefulStream = None /\ Panic("nil_stream")
    <2>1. overlapped
      <3>1. Busy(b)
        BY DEF DestroyCurrent, Busy
      <3>2. whip[b] = "answered" /\ b # None
        BY IngestServerAssumption DEF IInv, BaseInv, InStep, DestroyCurrent
      <3> QED
        BY <1>1, <3>1, <3>2 DEF IInv, BaseInv, TypeOK, Apart, OwnsAll
    <2> QED
      BY <1>1, <2>1, PanicKeeps
  <1>2. CASE /\ ingest[b].pc = "waiting"
             /\ b \in done
             /\ disk' = disk \ {source}
             /\ source' = source
             /\ ingest' = [ingest EXCEPT ![b].pc = "ended"]
             /\ UNCHANGED <<life, statefulStream, whip, peer, done, transcode, media, watch>>
    <2> USE <1>2, IngestServerAssumption DEF IInv, BaseInv, life, processor, media
    <2>1. TypeOK'
      BY DEF TypeOK, InStep, ViewerOk, Stage, Kind
    <2>2. BaseInv'
      BY <2>1 DEF TypeOK, InStep, ViewerOk, Running
    <2> SUFFICES ASSUME ~overlapped' PROVE Apart'
      BY <2>2
    <2>3. ~overlapped /\ Apart
      BY DEF TypeOK
    <2> USE <2>3 DEF Apart, TypeOK, InStep
    <2>4. OneAtATime'
      BY DEF OneAtATime, Busy
    <2>5. \A c \in Stream : OwnsAll(c)'
      BY DEF OneAtATime, Busy, OwnsAll
    <2>6. \A c \in Stream : Replaced(c)'
      BY DEF OneAtATime, Busy, OwnsAll, Replaced
    <2>7. Current'
      BY DEF Current
    <2>8. \A w \in Watcher : Viewed(w)'
      BY DEF Viewed, ViewerOk
    <2>9. process' # "nil_stream"
      BY DEF Busy, OwnsAll
    <2>10. ASSUME process' \in {"stopping", "stopped"}, NEW c \in Stream
          PROVE  Stopping(c)'
      <3>1. Stopping(c)
        BY <2>10
      <3> QED
        BY <3>1, <2>10 DEF OneAtATime, Busy, OwnsAll, Stopping
    <2> QED
      BY <2>4, <2>5, <2>6, <2>7, <2>8, <2>9, <2>10
  <1> QED
    BY <1>1, <1>2 DEF DestroyCurrent, Destroy

LEMMA MakeDirectoryKeeps == ASSUME IInv, NEW b \in Stream, MakeDirectory(b) PROVE IInv'
  <1> USE IngestServerAssumption DEF IInv, BaseInv, MakeDirectory, life, processor, media
  <1>1. TypeOK'
    BY DEF TypeOK, InStep, ViewerOk, Stage, Kind
  <1>2. BaseInv'
    BY <1>1 DEF TypeOK, InStep, ViewerOk, Running
  <1> SUFFICES ASSUME ~overlapped' PROVE Apart'
    BY <1>2
  <1>3. ~overlapped /\ Apart
    BY DEF TypeOK
  <1> USE <1>3 DEF Apart, TypeOK, InStep
  <1>4. OneAtATime'
    BY DEF OneAtATime, Busy
  <1>5. ASSUME NEW c \in Stream PROVE OwnsAll(c)'
    <2>1. CASE c = b
      <3>1. /\ ingest[b].of \in {None, b} /\ b \notin disk
            /\ whip[b] = "answered" /\ Busy(b) => statefulStream = b
        BY DEF OwnsAll
      <3>2. (source' = b /\ b \in disk') \/ (source' = None /\ b \notin disk')
        BY <3>1
      <3>3. transcode'[b].pc = "set_up"
        OBVIOUS
      <3> QED
        BY <2>1, <3>1, <3>2, <3>3 DEF OwnsAll, Busy
    <2>2. CASE c # b
      <3>1. /\ transcode'[c] = transcode[c] /\ (c \in disk' <=> c \in disk)
            /\ Busy(b) /\ (Busy(c)' <=> Busy(c))
        BY <2>2 DEF Busy
      <3>2. transcode[c].pc \in {"none", "ended"}
        BY <2>2, <3>1 DEF OneAtATime, Busy, Stage
      <3> QED
        BY <2>2, <3>1, <3>2 DEF OwnsAll
    <2> QED
      BY <2>1, <2>2
  <1>6. \A c \in Stream : Replaced(c)'
    BY DEF OneAtATime, Busy, OwnsAll, Replaced
  <1>7. Current'
    BY DEF Current
  <1>8. \A w \in Watcher : Viewed(w)'
    BY DEF Viewed, ViewerOk
  <1>9. process' # "nil_stream"
    BY DEF Busy, OwnsAll
  <1>10. ASSUME process' \in {"stopping", "stopped"}, NEW c \in Stream
        PROVE  Stopping(c)'
    <2>1. Stopping(c)
      BY <1>10
    <2> QED
      BY <2>1, <1>10 DEF OneAtATime, Busy, OwnsAll, Stopping
  <1> QED
    BY <1>4, <1>5, <1>6, <1>7, <1>8, <1>9, <1>10

LEMMA PrepareKeeps == ASSUME IInv, NEW b \in Stream, Prepare(b) PROVE IInv'
  <1> USE IngestServerAssumption DEF IInv, BaseInv, Prepare, life, processor, media
  <1>1. TypeOK'
    BY DEF TypeOK, InStep, ViewerOk, Stage, Kind
  <1>2. BaseInv'
    BY <1>1 DEF TypeOK, InStep, ViewerOk, Running
  <1> SUFFICES ASSUME ~overlapped' PROVE Apart'
    BY <1>2
  <1>3. ~overlapped /\ Apart
    BY DEF TypeOK
  <1> USE <1>3 DEF Apart, TypeOK, InStep
  <1>4. OneAtATime'
    BY DEF OneAtATime, Busy
  <1>5. \A c \in Stream : OwnsAll(c)'
    BY DEF OneAtATime, Busy, OwnsAll
  <1>6. \A c \in Stream : Replaced(c)'
    BY DEF OneAtATime, Busy, OwnsAll, Replaced
  <1>7. Current'
    BY DEF Current
  <1>8. \A w \in Watcher : Viewed(w)'
    BY DEF Viewed, ViewerOk
  <1>9. process' # "nil_stream"
    BY DEF Busy, OwnsAll
  <1>10. ASSUME process' \in {"stopping", "stopped"}, NEW c \in Stream
        PROVE  Stopping(c)'
    <2>1. Stopping(c)
      BY <1>10
    <2> QED
      BY <2>1, <1>10 DEF OneAtATime, Busy, OwnsAll, Stopping
  <1> QED
    BY <1>4, <1>5, <1>6, <1>7, <1>8, <1>9, <1>10

LEMMA NoPipeKeeps == ASSUME IInv, NEW b \in Stream, NoPipe(b) PROVE IInv'
  <1> USE DEF IInv, BaseInv, NoPipe, media
  <1>1. BaseInv'
    BY DEF TypeOK, InStep, ViewerOk
  <1>2. ASSUME Apart PROVE Apart'
    <2> USE <1>2 DEF Apart
    <2>1. OneAtATime'
      BY DEF OneAtATime, Busy
    <2>2. \A c \in Stream : OwnsAll(c)' /\ Replaced(c)'
      BY DEF OwnsAll, Replaced, Busy
    <2>3. Current' /\ \A w \in Watcher : Viewed(w)'
      BY DEF Current, Viewed
    <2> QED
      BY <2>1, <2>2, <2>3
  <1> QED
    BY <1>1, <1>2

(* The stage of a transcode and what is known of it, once ffmpeg is to run. *)
TypedStage(c) ==
    /\ transcode[c].pc = "none" <=> ingest[c].pc \in {"none", "begin"}
    /\ transcode[c].pc \in {"none", "begin", "set_up"} => transcode[c].out = None

LEMMA StageType ==
    ASSUME TypeOK, NEW b \in Stream, transcode[b].pc \in {"watched", "running", "dead"},
           NEW pc \in {"running", "dead", "unstarted", "ended"},
           transcode' = [transcode EXCEPT ![b].pc = pc], UNCHANGED ingest
    PROVE  /\ transcode' \in [Stream -> [pc : Stage, out : Stream \cup {None}]]
           /\ \A c \in Stream : TypedStage(c)'
  <1>1. /\ transcode \in [Stream -> [pc : Stage, out : Stream \cup {None}]]
        /\ pc \in Stage
        /\ \A c \in Stream : TypedStage(c)
    BY DEF TypeOK, Stage, TypedStage
  <1>2. \A c \in Stream :
            /\ transcode'[c] \in [pc : Stage, out : Stream \cup {None}]
            /\ transcode'[c].out = transcode[c].out
            /\ transcode'[c].pc = IF c = b THEN pc ELSE transcode[c].pc
    BY <1>1
  <1> QED
    BY <1>1, <1>2 DEF TypedStage

LEMMA StartFfmpegKeeps == ASSUME IInv, NEW b \in Stream, StartFfmpeg(b) PROVE IInv'
  <1> USE IngestServerAssumption DEF IInv, BaseInv, StartFfmpeg, Become, life, processor, media
  <1>1. TypeOK'
    <2>1. /\ transcode' = [transcode EXCEPT ![b].pc = "running"] /\ UNCHANGED ingest
          /\ transcode[b].pc \in {"watched", "running", "dead"}
      OBVIOUS
    <2>2. /\ transcode' \in [Stream -> [pc : Stage, out : Stream \cup {None}]]
          /\ \A c \in Stream : TypedStage(c)'
      BY <2>1, StageType
    <2> QED
      BY <2>2 DEF TypedStage, TypeOK
  <1>2. BaseInv'
    BY <1>1 DEF TypeOK, InStep, ViewerOk, Running
  <1> SUFFICES ASSUME ~overlapped' PROVE Apart'
    BY <1>2
  <1>3. ~overlapped /\ Apart
    BY DEF TypeOK
  <1> USE <1>3 DEF Apart, TypeOK, InStep
  <1>4. OneAtATime'
    BY DEF OneAtATime, Busy
  <1>5. \A c \in Stream : OwnsAll(c)'
    BY DEF OneAtATime, Busy, OwnsAll
  <1>6. \A c \in Stream : Replaced(c)'
    BY DEF OneAtATime, Busy, OwnsAll, Replaced
  <1>7. Current'
    BY DEF Current
  <1>8. \A w \in Watcher : Viewed(w)'
    BY DEF Viewed, ViewerOk
  <1>9. process' # "nil_stream"
    BY DEF Busy, OwnsAll
  <1>10. ASSUME process' \in {"stopping", "stopped"}, NEW c \in Stream
        PROVE  Stopping(c)'
    <2>1. Stopping(c)
      BY <1>10
    <2> QED
      BY <2>1, <1>10 DEF OneAtATime, Busy, OwnsAll, Stopping
  <1> QED
    BY <1>4, <1>5, <1>6, <1>7, <1>8, <1>9, <1>10

LEMMA FfmpegFailsKeeps == ASSUME IInv, NEW b \in Stream, FfmpegFails(b) PROVE IInv'
  <1> USE IngestServerAssumption DEF IInv, BaseInv, FfmpegFails, Destroy, life, processor, media
  <1>1. TypeOK'
    <2>1. /\ transcode' = [transcode EXCEPT ![b].pc = "unstarted"] /\ UNCHANGED ingest
          /\ transcode[b].pc \in {"watched", "running", "dead"}
      OBVIOUS
    <2>2. /\ transcode' \in [Stream -> [pc : Stage, out : Stream \cup {None}]]
          /\ \A c \in Stream : TypedStage(c)'
      BY <2>1, StageType
    <2> QED
      BY <2>2 DEF TypedStage, TypeOK
  <1>2. BaseInv'
    BY <1>1 DEF TypeOK, InStep, ViewerOk, Running
  <1> SUFFICES ASSUME ~overlapped' PROVE Apart'
    BY <1>2
  <1>3. ~overlapped /\ Apart
    BY DEF TypeOK
  <1> USE <1>3 DEF Apart, TypeOK, InStep
  <1>4. OneAtATime'
    BY DEF OneAtATime, Busy
  <1>5. \A c \in Stream : OwnsAll(c)'
    BY DEF OneAtATime, Busy, OwnsAll
  <1>6. \A c \in Stream : Replaced(c)'
    BY DEF OneAtATime, Busy, OwnsAll, Replaced
  <1>7. Current'
    BY DEF Current
  <1>8. \A w \in Watcher : Viewed(w)'
    BY DEF Viewed, ViewerOk
  <1>9. process' # "nil_stream"
    BY DEF Busy, OwnsAll
  <1>10. ASSUME process' \in {"stopping", "stopped"}, NEW c \in Stream
        PROVE  Stopping(c)'
    <2>1. Stopping(c)
      BY <1>10
    <2> QED
      BY <2>1, <1>10 DEF OneAtATime, Busy, OwnsAll, Stopping
  <1> QED
    BY <1>4, <1>5, <1>6, <1>7, <1>8, <1>9, <1>10

LEMMA KillFfmpegKeeps == ASSUME IInv, NEW b \in Stream, KillFfmpeg(b) PROVE IInv'
  <1>1. CASE Panic("nil_ffmpeg")
    BY <1>1, PanicKeeps
  <1>2. CASE Running /\ transcode[b].pc = "running" /\ Become(b, "dead")
    <2> USE <1>2, IngestServerAssumption DEF IInv, BaseInv, Become, life, processor, media
    <2>1. TypeOK'
      <3>1. /\ transcode' = [transcode EXCEPT ![b].pc = "dead"] /\ UNCHANGED ingest
            /\ transcode[b].pc \in {"watched", "running", "dead"}
        OBVIOUS
      <3>2. /\ transcode' \in [Stream -> [pc : Stage, out : Stream \cup {None}]]
            /\ \A c \in Stream : TypedStage(c)'
        BY <3>1, StageType
      <3> QED
        BY <3>2 DEF TypedStage, TypeOK
    <2>2. BaseInv'
      BY <2>1 DEF TypeOK, InStep, ViewerOk, Running
    <2> SUFFICES ASSUME ~overlapped' PROVE Apart'
      BY <2>2
    <2>3. ~overlapped /\ Apart
      BY DEF TypeOK
    <2> USE <2>3 DEF Apart, TypeOK, InStep
    <2>4. OneAtATime'
      BY DEF OneAtATime, Busy
    <2>5. \A c \in Stream : OwnsAll(c)'
      BY DEF OneAtATime, Busy, OwnsAll
    <2>6. \A c \in Stream : Replaced(c)'
      BY DEF OneAtATime, Busy, OwnsAll, Replaced
    <2>7. Current'
      BY DEF Current
    <2>8. \A w \in Watcher : Viewed(w)'
      BY DEF Viewed, ViewerOk
    <2>9. process' # "nil_stream"
      BY DEF Busy, OwnsAll
    <2>10. ASSUME process' \in {"stopping", "stopped"}, NEW c \in Stream
          PROVE  Stopping(c)'
      <3>1. Stopping(c)
        BY <2>10
      <3> QED
        BY <3>1, <2>10 DEF OneAtATime, Busy, OwnsAll, Stopping
    <2> QED
      BY <2>4, <2>5, <2>6, <2>7, <2>8, <2>9, <2>10
  <1> QED
    BY <1>1, <1>2 DEF KillFfmpeg

LEMMA FfmpegExitsKeeps == ASSUME IInv, NEW b \in Stream, FfmpegExits(b) PROVE IInv'
  <1> USE IngestServerAssumption DEF IInv, BaseInv, FfmpegExits, Become, life, processor, media
  <1>1. TypeOK'
    <2>1. /\ transcode' = [transcode EXCEPT ![b].pc = "dead"] /\ UNCHANGED ingest
          /\ transcode[b].pc \in {"watched", "running", "dead"}
      OBVIOUS
    <2>2. /\ transcode' \in [Stream -> [pc : Stage, out : Stream \cup {None}]]
          /\ \A c \in Stream : TypedStage(c)'
      BY <2>1, StageType
    <2> QED
      BY <2>2 DEF TypedStage, TypeOK
  <1>2. BaseInv'
    BY <1>1 DEF TypeOK, InStep, ViewerOk, Running
  <1> SUFFICES ASSUME ~overlapped' PROVE Apart'
    BY <1>2
  <1>3. ~overlapped /\ Apart
    BY DEF TypeOK
  <1> USE <1>3 DEF Apart, TypeOK, InStep
  <1>4. OneAtATime'
    BY DEF OneAtATime, Busy
  <1>5. \A c \in Stream : OwnsAll(c)'
    BY DEF OneAtATime, Busy, OwnsAll
  <1>6. \A c \in Stream : Replaced(c)'
    BY DEF OneAtATime, Busy, OwnsAll, Replaced
  <1>7. Current'
    BY DEF Current
  <1>8. \A w \in Watcher : Viewed(w)'
    BY DEF Viewed, ViewerOk
  <1>9. process' # "nil_stream"
    BY DEF Busy, OwnsAll
  <1>10. ASSUME process' \in {"stopping", "stopped"}, NEW c \in Stream
        PROVE  Stopping(c)'
    <2>1. Stopping(c)
      BY <1>10
    <2> QED
      BY <2>1, <1>10 DEF OneAtATime, Busy, OwnsAll, Stopping
  <1> QED
    BY <1>4, <1>5, <1>6, <1>7, <1>8, <1>9, <1>10

LEMMA TranscodeReturnsKeeps == ASSUME IInv, NEW b \in Stream, TranscodeReturns(b) PROVE IInv'
  <1> USE IngestServerAssumption DEF IInv, BaseInv, TranscodeReturns, Destroy, life, processor,
          media
  <1>1. TypeOK'
    <2>1. /\ transcode' = [transcode EXCEPT ![b].pc = "ended"] /\ UNCHANGED ingest
          /\ transcode[b].pc \in {"watched", "running", "dead"}
      OBVIOUS
    <2>2. /\ transcode' \in [Stream -> [pc : Stage, out : Stream \cup {None}]]
          /\ \A c \in Stream : TypedStage(c)'
      BY <2>1, StageType
    <2> QED
      BY <2>2 DEF TypedStage, TypeOK
  <1>2. BaseInv'
    BY <1>1 DEF TypeOK, InStep, ViewerOk, Running
  <1> SUFFICES ASSUME ~overlapped' PROVE Apart'
    BY <1>2
  <1>3. ~overlapped /\ Apart
    BY DEF TypeOK
  <1> USE <1>3 DEF Apart, TypeOK, InStep
  <1>4. OneAtATime'
    BY DEF OneAtATime, Busy
  <1>5. \A c \in Stream : OwnsAll(c)'
    BY DEF OneAtATime, Busy, OwnsAll
  <1>6. \A c \in Stream : Replaced(c)'
    BY DEF OneAtATime, Busy, OwnsAll, Replaced
  <1>7. Current'
    BY DEF Current
  <1>8. \A w \in Watcher : Viewed(w)'
    BY DEF Viewed, ViewerOk
  <1>9. process' # "nil_stream"
    BY DEF Busy, OwnsAll
  <1>10. ASSUME process' \in {"stopping", "stopped"}, NEW c \in Stream
        PROVE  Stopping(c)'
    <2>1. Stopping(c)
      BY <1>10
    <2> QED
      BY <2>1, <1>10 DEF OneAtATime, Busy, OwnsAll, Stopping
  <1> QED
    BY <1>4, <1>5, <1>6, <1>7, <1>8, <1>9, <1>10

LEMMA TaskKeeps == ASSUME IInv, NEW b \in Stream, Task(b) PROVE IInv'
  <1> USE IngestServerAssumption DEF IInv, BaseInv, Task, Destroy, life, processor, media
  <1>1. TypeOK'
    BY DEF TypeOK, InStep, ViewerOk, Stage, Kind
  <1>2. BaseInv'
    BY <1>1 DEF TypeOK, InStep, ViewerOk, Running
  <1> SUFFICES ASSUME ~overlapped' PROVE Apart'
    BY <1>2
  <1>3. ~overlapped /\ Apart
    BY DEF TypeOK
  <1> USE <1>3 DEF Apart, TypeOK, InStep
  <1>4. OneAtATime'
    BY DEF OneAtATime, Busy
  <1>5. \A c \in Stream : OwnsAll(c)'
    BY DEF OneAtATime, Busy, OwnsAll
  <1>6. \A c \in Stream : Replaced(c)'
    BY DEF OneAtATime, Busy, OwnsAll, Replaced
  <1>7. Current'
    BY DEF Current
  <1>8. \A w \in Watcher : Viewed(w)'
    BY DEF Viewed, ViewerOk
  <1>9. process' # "nil_stream"
    BY DEF Busy, OwnsAll
  <1>10. ASSUME process' \in {"stopping", "stopped"}, NEW c \in Stream
        PROVE  Stopping(c)'
    <2>1. Stopping(c)
      BY <1>10
    <2> QED
      BY <2>1, <1>10 DEF OneAtATime, Busy, OwnsAll, Stopping
  <1> QED
    BY <1>4, <1>5, <1>6, <1>7, <1>8, <1>9, <1>10

LEMMA StartKeeps == ASSUME IInv, Start PROVE IInv'
  <1> USE DEF IInv, BaseInv, Start, NewIngestWebrtcAPI, StartIngestHttp, ProcessBecomes,
          processor, media
  <1>1. BaseInv'
    BY DEF TypeOK, InStep, ViewerOk
  <1>2. ASSUME Apart PROVE Apart'
    <2> USE <1>2 DEF Apart
    <2>1. OneAtATime'
      BY DEF OneAtATime, Busy
    <2>2. \A b \in Stream : OwnsAll(b)' /\ Replaced(b)'
      BY DEF OwnsAll, Replaced, Busy
    <2>3. Current' /\ \A w \in Watcher : Viewed(w)'
      BY DEF Current, Viewed
    <2>4. process' \notin {"nil_stream", "stopping", "stopped"}
      OBVIOUS
    <2> QED
      BY <2>1, <2>2, <2>3, <2>4
  <1> QED
    BY <1>1, <1>2

LEMMA GracefullyKeeps == ASSUME IInv, Gracefully PROVE IInv'
  <1> USE DEF IInv, BaseInv, Gracefully, processor, media
  <1>1. TypeOK'
    BY DEF TypeOK
  <1>2. BaseInv'
    BY <1>1 DEF InStep, ViewerOk
  <1> SUFFICES ASSUME ~overlapped' PROVE Apart'
    BY <1>2
  <1>3. ~overlapped /\ Apart
    BY DEF TypeOK
  <1>4. \A b \in Stream : ~(Busy(b) /\ transcode[b].pc \in {"none", "begin", "set_up", "watched"})
    BY DEF TypeOK
  <1>5. OneAtATime'
    BY <1>3 DEF Apart, OneAtATime, Busy
  <1>6. Current' /\ \A b \in Stream : OwnsAll(b)' /\ Replaced(b)'
    BY <1>3 DEF Apart, OwnsAll, Replaced, Busy, Current
  <1>7. \A w \in Watcher : Viewed(w)'
    BY <1>3 DEF Apart, Viewed
  <1>8. ASSUME NEW b \in Stream PROVE Stopping(b)'
    <2>1. Busy(b) => transcode[b].pc \in {"running", "dead", "unstarted", "ended"}
      BY <1>4 DEF TypeOK, Stage
    <2>2. b \in disk => whip[b] = "answered"
      BY <1>3 DEF Apart, OwnsAll, TypeOK, InStep
    <2> QED
      BY <2>1, <2>2 DEF Stopping, Busy
  <1> QED
    BY <1>5, <1>6, <1>7, <1>8 DEF Apart

LEMMA StoppedKeeps == ASSUME IInv, Stopped PROVE IInv'
  <1> USE DEF IInv, BaseInv, Stopped, ProcessBecomes, processor, media
  <1>1. BaseInv'
    BY DEF TypeOK, InStep, ViewerOk
  <1>2. ASSUME Apart PROVE Apart'
    <2> USE <1>2 DEF Apart
    <2>1. OneAtATime'
      BY DEF OneAtATime, Busy
    <2>2. \A b \in Stream : OwnsAll(b)' /\ Replaced(b)'
      BY DEF OwnsAll, Replaced, Busy
    <2>3. Current' /\ \A w \in Watcher : Viewed(w)'
      BY DEF Current, Viewed
    <2>4. \A b \in Stream : Stopping(b)'
      BY DEF Stopping, Busy
    <2> QED
      BY <2>1, <2>2, <2>3, <2>4
  <1> QED
    BY <1>1, <1>2

LEMMA StutterKeeps == ASSUME IInv, UNCHANGED vars PROVE IInv'
  BY DEF vars, life, processor, media, IInv, BaseInv, TypeOK, InStep, ViewerOk, Apart,
     OneAtATime, Busy, OwnsAll, Replaced, Current, Viewed, Stopping

LEMMA NextKeeps == IInv /\ [Next]_vars => IInv'
  <1> SUFFICES ASSUME IInv, [Next]_vars PROVE IInv'
    OBVIOUS
  <1>1. CASE Start \/ Gracefully \/ Stopped
    BY <1>1, StartKeeps, GracefullyKeeps, StoppedKeeps
  <1>2. ASSUME NEW b \in Stream, startStreamConn(b) \/ Handler(b) \/ Task(b)
        PROVE  IInv'
    BY <1>2, startStreamConnKeeps, NoAnswerKeeps, HandleWebrtcKeeps, DestroyOldKeeps,
       ClearOldKeeps, StoreNewKeeps, TaskKeeps DEF Handler
  <1>3. ASSUME NEW b \in Stream, Connect(b) \/ stopStreamConn(b) \/ Disconnect(b)
        PROVE  IInv'
    BY <1>3, ConnectKeeps, stopStreamConnKeeps, DisconnectKeeps
  <1>4. ASSUME NEW b \in Stream, Goroutine(b)
        PROVE  IInv'
    BY <1>4, IngestKeeps, IngestReturnsKeeps, DestroyCurrentKeeps DEF Goroutine
  <1>5. ASSUME NEW b \in Stream, Transcode(b) \/ TranscodeFails(b)
        PROVE  IInv'
    BY <1>5, MakeDirectoryKeeps, PrepareKeeps, StartFfmpegKeeps, KillFfmpegKeeps,
       NoPipeKeeps, FfmpegFailsKeeps, FfmpegExitsKeeps, TranscodeReturnsKeeps
       DEF Transcode, TranscodeFails
  <1>6. ASSUME NEW b \in Stream, Pipeline(b)
        PROVE  IInv'
    BY <1>6, DemuxReadKeeps, DemuxWriteKeeps, CopyReadKeeps, CopyWriteKeeps DEF Pipeline
  <1>7. ASSUME NEW b \in Stream, NEW kind \in Kind, NEW codec \in Codec, Track(b, kind, codec)
        PROVE  IInv'
    BY <1>7, TrackKeeps
  <1>8. ASSUME NEW w \in Watcher, Whep(w) \/ WhepAnswer(w)
        PROVE  IInv'
    BY <1>8, WhepKeeps, WhepAnswerKeeps
  <1> QED
    BY <1>1, <1>2, <1>3, <1>4, <1>5, <1>6, <1>7, <1>8, StutterKeeps DEF Next

------------------------------------------------------------------------------
(* The theorems. *)

(* The variables have their types and the parts of a request are in step,  *)
(* whatever overlaps.                                                      *)
THEOREM TypeCorrect == Spec => []TypeOK
  <1>1. IInv => TypeOK
    BY DEF IInv, BaseInv
  <1> QED
    BY InitHolds, NextKeeps, <1>1, PTL DEF Spec

LEMMA Undisturbing == IInv => Undisturbed
  <1> SUFFICES ASSUME IInv, ~overlapped PROVE Undisturbed
    BY DEF Undisturbed
  <1>1. BaseInv /\ Apart
    BY DEF IInv
  <1>2. ASSUME NEW b \in Stream
        PROVE  /\ ingest[b].of \in {None, b}
               /\ process = "up" /\ transcode[b].pc = "running" /\ b \notin done =>
                       \/ transcode[b].out = b /\ Served(b)
                       \/ transcode[b].out = None /\ b \notin disk
    BY <1>1 DEF Apart, OwnsAll, Served
  <1>3. ASSUME NEW w \in Watcher, watch[w].pc = "watching"
        PROVE  watch[w].of = statefulStream \/ watch[w].of \in done
    BY <1>1, <1>3 DEF BaseInv, ViewerOk, Apart, Viewed, Replaced
  <1> QED
    BY <1>1, <1>2, <1>3 DEF Undisturbed, Apart

(* A broadcast that arrives when all that was begun before it has ended is *)
(* the one that is ingested, transcoded, served, unless its directory      *)
(* could not be made, and watched; the process never ends at a nil stream  *)
(* (statefulstream.go:36-70, ffmpeghlsmediaprocessor.go:26-38,             *)
(* whep/handler.go:54).                                                    *)
THEOREM BroadcastsUndisturbed == Spec => []Undisturbed
  BY InitHolds, NextKeeps, Undisturbing, PTL DEF Spec

LEMMA LeavingNothing == IInv => FinishedIsGone
  <1> SUFFICES ASSUME IInv, ~overlapped PROVE FinishedIsGone
    BY DEF FinishedIsGone
  <1>1. BaseInv /\ Apart
    BY DEF IInv
  <1>2. \A b \in Stream : transcode[b].pc = "ended" => b \notin disk
    BY <1>1 DEF Apart, OwnsAll
  <1>3. process = "stopped" => disk = {}
    BY <1>1 DEF BaseInv, TypeOK, Apart, Stopping
  <1> QED
    BY <1>2, <1>3 DEF FinishedIsGone

(* Such a broadcast leaves no directory when its transcode returns, nor    *)
(* does the process when it has stopped (ffmpeghlsmediaprocessor.go:26,    *)
(* 115-121, statefulstream.go:51-53).                                      *)
THEOREM FinishedLeavesNothing == Spec => []FinishedIsGone
  BY InitHolds, NextKeeps, LeavingNothing, PTL DEF Spec
==============================================================================

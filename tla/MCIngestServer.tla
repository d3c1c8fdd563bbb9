---------------------------- MODULE MCIngestServer ----------------------------
(* Model values and bounds for the runs of IngestServer. *)
EXTENDS IngestServer

CONSTANTS b1, b2, w1

MCTwoStreams == {b1, b2}
MCOneWatcher == {w1}

(* The transcode of b has no directory, or had no ffmpeg.                  *)
Fails(b) ==
    \/ transcode[b].pc = "unstarted"
    \/ transcode[b].pc \in {"watched", "running", "dead", "ended"} /\ transcode[b].out = None

Viewed == \E w \in Watcher : watch[w].pc # "idle"

(* Broadcasts that overlap are followed for as long as none of them has    *)
(* media, none fails, no page is left and no signal comes. What is checked *)
(* is about broadcasts that do not overlap: no state cut off here can      *)
(* violate it, or lead to one that does. Viewers, on whom nothing else     *)
(* depends, are left out of a stop, of broadcasts that fail and of those   *)
(* whose audio is piped; other tracks without a pipeline, which only       *)
(* viewers tell from no track, are left out where there are none. A second *)
(* broadcast fails only after, and with, unpiped audio. The broadcasts are *)
(* alike: b1 is handled first.                                             *)
MCBound ==
    /\ whip[b1] \in {"idle", "offered"} => whip[b2] \in {"idle", "offered"}
    /\ Fails(b2) => opus = {}
    /\ overlapped => process # "stopping"
    /\ overlapped => \A b \in Stream :
            tracks[b] = {} /\ ~Fails(b) /\ peer[b] \in {"new", "connected"}
    /\ Viewed =>
            /\ ~overlapped /\ process # "stopping"
            /\ \A b \in Stream : b \notin opus /\ ~Fails(b)
    /\ ~Viewed => \A b \in Stream :
            /\ "audio" \in tracks[b] => b \in opus
            /\ "video" \in tracks[b] => demux[b] # "none"
==============================================================================

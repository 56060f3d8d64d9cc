---- MODULE RkmppFrames ----
(***************************************************************************)
(* The life of a decoded frame in RockchipMppRtpDecoder                    *)
(* (src/video/rockchip_mpp_rtp_decoder.cpp) and on the video plane: the    *)
(* decoder library fills a buffer, frame_loop queues the frame, the        *)
(* presenter thread of run_kms_video_preview polls it, commits it and then *)
(* calls mark_presented, which hands the previous buffer back.  MJPEG has a *)
(* queue of access units before the decoder instead: mjpeg_task_loop       *)
(* decodes the newest one and waits for its picture.                       *)
(*                                                                         *)
(* Frames are numbered in decode order and a frame stands for the output   *)
(* buffer it occupies: while a frame is live (its MppFrame has not been    *)
(* deinitialised) the library cannot write into its buffer.                *)
(***************************************************************************)
EXTENDS Naturals, Sequences, FiniteSets

CONSTANTS
    ReadyCap,         \* ready_frames_ holds at most this many frames (4)
    Backlog,          \* poll keeps this many of them (2)
    NumBufs,          \* output_buffer_count of the buffer group
    UnitCap,          \* mjpeg_units_ holds at most this many units (3)
    MaxDecoded        \* bound on the number of frames decoded

ASSUME CapAssumption == {ReadyCap, Backlog, UnitCap} \subseteq Nat \ {0}
ASSUME BufsAssumption == NumBufs \in Nat /\ MaxDecoded \in Nat

VARIABLES
    mjpeg,            \* mjpeg_
    units,            \* mjpeg_units_, numbered like the frames they become
    decoded,          \* frames the library has decoded, units queued
    mppOut,           \* 0, or the frame the library has ready to be fetched
    live,             \* frames not released yet
    mppAlive,         \* FALSE after mpp_destroy
    running, err,     \* running_, and "last_error_ is not empty"
    framePc, got,     \* frame_loop: where it is, the frame it fetched
    ready,            \* ready_frames_
    presPc,           \* presenter thread
    pendingPresented, \* pending_presented_frame_, 0 for nullptr
    current,          \* current_frame_, 0 for nullptr
    scan,             \* frame on the video plane, 0 when it shows none
    mainPc,           \* main thread
    stop              \* stop_requested

mppVars  == <<decoded, mppOut, live, mppAlive>>
decVars  == <<running, err>>
frameVars == <<mjpeg, units, framePc, got>>
heldVars == <<pendingPresented, current>>
vars == <<mppVars, decVars, frameVars, ready, presPc, heldVars, scan, mainPc, stop>>

None == 0
Frames == 1..MaxDecoded

Init ==
    /\ decoded = 0 /\ mppOut = None /\ live = {} /\ mppAlive = TRUE
    /\ running = TRUE /\ err = FALSE
    /\ mjpeg \in BOOLEAN /\ units = <<>>
    /\ framePc = "get" /\ got = None /\ ready = <<>>
    /\ presPc = "poll" /\ pendingPresented = None /\ current = None
    /\ scan = None /\ mainPc = "loop" /\ stop = FALSE

----
(* The decoder library: it needs a buffer no live frame occupies. *)

MppDecode ==
    /\ mppAlive /\ ~mjpeg /\ mppOut = None
    /\ decoded < MaxDecoded /\ Cardinality(live) < NumBufs
    /\ decoded' = decoded + 1
    /\ mppOut' = decoded + 1 /\ live' = live \cup {decoded + 1}
    /\ UNCHANGED <<mppAlive, decVars, frameVars, ready, presPc, heldVars, scan, mainPc, stop>>

----
(* frame_loop. *)

Release_Forgets(frames) == UNCHANGED live

\* release_frame, which ignores nullptr.
Release(frames) == live' = live \ frames

GetFrame ==
    /\ framePc = "get" /\ running /\ mppOut # None
    /\ got' = mppOut /\ mppOut' = None
    /\ framePc' = "check"
    /\ UNCHANGED <<mjpeg, units, decoded, live, mppAlive, decVars, ready, presPc, heldVars, scan, mainPc, stop>>

\* A frame fetched after the stop, an information change, a damaged frame or
\* one without a buffer goes back at once.
SkipFrame ==
    /\ framePc = "check" /\ ~mjpeg
    /\ Release({got}) /\ got' = None
    /\ framePc' = "get"
    /\ UNCHANGED <<mjpeg, units, decoded, mppOut, mppAlive, decVars, ready, presPc, heldVars, scan, mainPc, stop>>

\* configure_h26x_output_group fails on an information change, or any step of
\* submit_mjpeg_task.
ConfigureFails ==
    /\ framePc = "check"
    /\ Release({got}) /\ got' = None
    /\ running' = FALSE /\ err' = TRUE
    /\ framePc' = "done"
    /\ UNCHANGED <<mjpeg, units, decoded, mppOut, mppAlive, ready, presPc, heldVars, scan, mainPc, stop>>

\* feed_loop completes an access unit; a full queue loses its oldest ones.
QueueUnit ==
    /\ mjpeg /\ running /\ decoded < MaxDecoded
    /\ decoded' = decoded + 1
    /\ units' = Append(IF Len(units) >= UnitCap THEN Tail(units) ELSE units, decoded + 1)
    /\ UNCHANGED <<mppOut, live, mppAlive, decVars, mjpeg, framePc, got, ready, presPc, heldVars, scan, mainPc, stop>>

\* mjpeg_task_loop drops all units but the newest.
ChosenUnit == units[Len(units)]

TakeUnit ==
    /\ mjpeg /\ framePc = "get" /\ running /\ units # <<>>
    /\ got' = ChosenUnit /\ units' = <<>>
    /\ live' = live \cup {got'}
    /\ framePc' = "check"
    /\ UNCHANGED <<mjpeg, decoded, mppOut, mppAlive, decVars, ready, presPc, heldVars, scan, mainPc, stop>>

Overflow_OffByOne == IF Len(ready) > ReadyCap THEN Len(ready) - ReadyCap + 1 ELSE 0

\* A full queue loses its oldest frames.
Overflow == IF Len(ready) >= ReadyCap THEN Len(ready) - ReadyCap + 1 ELSE 0

\* The first n queued frames, and the queue without them.
Oldest(n) == {ready[i] : i \in 1..n}
Without(n) == SubSeq(ready, n + 1, Len(ready))

Enqueued_InFront == <<got>> \o Without(Overflow)

Enqueued == Append(Without(Overflow), got)

\* running_ is not looked at again.
Enqueue ==
    /\ framePc = "check"
    /\ Release(Oldest(Overflow))
    /\ ready' = Enqueued /\ got' = None
    /\ framePc' = "get"
    /\ UNCHANGED <<mjpeg, units, decoded, mppOut, mppAlive, decVars, presPc, heldVars, scan, mainPc, stop>>

FrameLoopEnds ==
    /\ framePc = "get" /\ ~running
    /\ framePc' = "done"
    /\ UNCHANGED <<mppVars, decVars, mjpeg, units, got, ready, presPc, heldVars, scan, mainPc, stop>>

ReportError_Lost == UNCHANGED err

\* feed_loop sets last_error_ whenever it stops the decoder.
ReportError == err' = TRUE

\* feed_loop: recv fails, or a packet cannot be submitted for 100 ms.
FeedFails ==
    /\ running
    /\ ReportError
    /\ running' = FALSE
    /\ UNCHANGED <<mppVars, frameVars, ready, presPc, heldVars, scan, mainPc, stop>>

----
(* The presenter thread. *)

HasFrame_OffByOne == Len(ready) > 1

HasFrame == ready # <<>>

PollEmpty ==
    /\ presPc = "poll" /\ ~stop /\ ~HasFrame
    /\ presPc' = "empty"
    /\ UNCHANGED <<mppVars, decVars, frameVars, ready, heldVars, scan, mainPc, stop>>

\* Without an error the waiting overlay may be committed, which keeps the
\* video plane as it is.
WaitForFrame ==
    /\ presPc = "empty" /\ ~err
    /\ presPc' = "wait"
    /\ UNCHANGED <<mppVars, decVars, frameVars, ready, heldVars, scan, mainPc, stop>>

OverlayPresented ==
    /\ presPc = "wait"
    /\ presPc' = "poll"
    /\ UNCHANGED <<mppVars, decVars, frameVars, ready, heldVars, scan, mainPc, stop>>

\* The overlay commit fails, a present fails or the decoder reported an error.
GiveUp ==
    /\ \/ presPc \in {"wait", "present", "failed"}
       \/ presPc = "empty" /\ err
    /\ presPc' = "done" /\ stop' = TRUE
    /\ UNCHANGED <<mppVars, decVars, frameVars, ready, heldVars, scan, mainPc>>

\* How many queued frames poll drops to stay close to the newest.
Stale == IF Len(ready) > Backlog THEN Len(ready) - Backlog ELSE 0

\* mark_presented comes after the commit, so poll releases only a frame that
\* was polled and never presented.
PollReleases_Current == {pendingPresented, current}
PollReleases == {pendingPresented}

Poll ==
    /\ presPc = "poll" /\ ~stop /\ HasFrame
    /\ Release(Oldest(Stale) \cup PollReleases)
    /\ pendingPresented' = ready[Stale + 1]
    /\ ready' = Without(Stale + 1)
    /\ presPc' = "present"
    /\ UNCHANGED <<decoded, mppOut, mppAlive, decVars, frameVars, current, scan, mainPc, stop>>

\* frame_to_dmabuf rejects the frame: poll returns false with an error.
PollRejects ==
    /\ presPc = "poll" /\ ~stop /\ HasFrame
    /\ Release(Oldest(Stale + 1) \cup {pendingPresented})
    /\ pendingPresented' = None
    /\ ready' = Without(Stale + 1)
    /\ err' = TRUE
    /\ presPc' = "failed"
    /\ UNCHANGED <<decoded, mppOut, mppAlive, running, frameVars, current, scan, mainPc, stop>>

\* present(DmabufVideoFrame): the commit is synchronous, the plane shows the
\* frame when it returns.
Present ==
    /\ presPc = "present"
    /\ scan' = pendingPresented
    /\ presPc' = "mark"
    /\ UNCHANGED <<mppVars, decVars, frameVars, ready, heldVars, mainPc, stop>>

MarkPresented ==
    /\ presPc = "mark"
    /\ Release({current})
    /\ current' = pendingPresented /\ pendingPresented' = None
    /\ presPc' = "poll"
    /\ UNCHANGED <<decoded, mppOut, mppAlive, decVars, frameVars, ready, scan, mainPc, stop>>

PresenterEnds ==
    /\ presPc = "poll" /\ stop
    /\ presPc' = "done"
    /\ UNCHANGED <<mppVars, decVars, frameVars, ready, heldVars, scan, mainPc, stop>>

----
(* The main thread, and the destructor of the decoder. *)

RequestStop ==
    /\ ~stop /\ stop' = TRUE
    /\ UNCHANGED <<mppVars, decVars, frameVars, ready, presPc, heldVars, scan, mainPc>>

\* The main loop ends, the presenter is joined; cleanup stops the decoder.
StopDecoder ==
    /\ mainPc = "loop" /\ stop /\ presPc = "done"
    /\ running' = FALSE
    /\ mainPc' = "joining"
    /\ UNCHANGED <<mppVars, err, frameVars, ready, presPc, heldVars, scan, stop>>

\* cleanup, both decoder threads joined: every frame goes back.
ReleaseAll ==
    /\ mainPc = "joining" /\ framePc = "done"
    /\ Release({pendingPresented, current} \cup Oldest(Len(ready)))
    /\ ready' = <<>> /\ pendingPresented' = None /\ current' = None
    /\ mainPc' = "released"
    /\ UNCHANGED <<decoded, mppOut, mppAlive, decVars, frameVars, presPc, scan, stop>>

\* reset and mpp_destroy.
DestroyMpp ==
    /\ mainPc = "released"
    /\ mppAlive' = FALSE
    /\ live' = live \ {mppOut} /\ mppOut' = None
    /\ mainPc' = "destroyed"
    /\ UNCHANGED <<decoded, decVars, frameVars, ready, presPc, heldVars, scan, stop>>

\* The compositor, declared before the decoder, is destroyed after it.
DestroyCompositor ==
    /\ mainPc = "destroyed"
    /\ scan' = None
    /\ mainPc' = "returned"
    /\ UNCHANGED <<mppVars, decVars, frameVars, ready, presPc, heldVars, stop>>

Returned == mainPc = "returned" /\ UNCHANGED vars

FrameLoop == GetFrame \/ TakeUnit \/ SkipFrame \/ ConfigureFails \/ Enqueue \/ FrameLoopEnds
Presenter == \/ PollEmpty \/ WaitForFrame \/ OverlayPresented \/ GiveUp \/ Poll \/ PollRejects
             \/ Present \/ MarkPresented \/ PresenterEnds
Main == StopDecoder \/ ReleaseAll \/ DestroyMpp \/ DestroyCompositor

Next == MppDecode \/ QueueUnit \/ FrameLoop \/ FeedFails \/ Presenter \/ RequestStop \/ Main \/ Returned

\* The threads keep running; nothing obliges the library to decode.
Fairness == WF_vars(FrameLoop) /\ WF_vars(Presenter) /\ WF_vars(Main)

Spec == Init /\ [][Next]_vars
FairSpec == Spec /\ Fairness

----
(* Properties. *)

\* Every variable holds a value the code can give it; in particular frame_loop
\* never lets ready_frames_ grow past its limit.
TypeOK ==
    /\ decoded \in 0..MaxDecoded /\ mppOut \in 0..MaxDecoded
    /\ live \subseteq Frames
    /\ {mjpeg, mppAlive, running, err, stop} \subseteq BOOLEAN
    /\ units \in Seq(Frames) /\ Len(units) <= UnitCap
    /\ framePc \in {"get", "check", "done"} /\ got \in 0..MaxDecoded
    /\ ready \in Seq(Frames) /\ Len(ready) <= ReadyCap
    /\ presPc \in {"poll", "empty", "wait", "present", "mark", "failed", "done"}
    /\ {pendingPresented, current, scan} \subseteq 0..MaxDecoded
    /\ mainPc \in {"loop", "joining", "released", "destroyed", "returned"}

Queued == Oldest(Len(ready))

\* The frame on the video plane is not handed back to the decoder while the
\* preview runs: poll, mark_presented and the overflow of ready_frames_ never
\* release it, whatever the decoder threads do meanwhile.
ScanoutHeld == mainPc \in {"loop", "joining"} /\ scan # None => scan \in live

\* Each live frame has exactly one owner, so that it is released exactly once,
\* also when poll rejects it, a present fails or the decoder stops.  The
\* application never sits on more than the queue, the two frames of the
\* presenter and the one in frame_loop: the rest of the buffers stay available.
OneOwner ==
    /\ live = ({mppOut, got, pendingPresented, current} \cup Queued) \ {None}
    /\ Cardinality(live) =
         Len(ready) + Cardinality({v \in 1..4 :
                         <<mppOut, got, pendingPresented, current>>[v] # None})
    /\ Cardinality(live \ {mppOut}) <= ReadyCap + 3

\* The plane never goes back to an earlier frame, whatever is dropped, and after
\* poll at most Backlog - 1 decoded frames wait behind the one chosen: the
\* display lags the decoder by a bounded number of frames.
FreshInOrder ==
    [][/\ scan' # None => scan' >= scan
       /\ presPc = "poll" /\ presPc' = "present" => Len(ready') < Backlog]_vars

\* A queued frame, or a later one, reaches the plane unless the program stops.
QueuedIsShown == \A n \in Frames : (n \in Queued) ~> (scan >= n \/ stop)

\* When a decoder thread gives up the preview ends and is cleaned up: the
\* picture does not freeze with a dead decoder behind it.
DecoderFailureEndsPreview == ~running ~> (mainPc = "returned")
====

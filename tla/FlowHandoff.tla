---- MODULE FlowHandoff ----
(***************************************************************************)
(* The hand-off of Flow (OSD) frames from the thread that renders them to  *)
(* the thread that commits them to KMS, in KmsAtomicCompositor             *)
(* (src/dev/kms_atomic_compositor.cpp) as driven by run_kms_video_preview  *)
(* (src/openhd_glide/main.cpp).                                            *)
(*                                                                         *)
(* A rendered frame lives in a buffer object (BO) of the GBM surface.  It  *)
(* is locked by lock_flow_framebuffer, parked in pending_flow_bo_, taken   *)
(* by the presenter in acquire_flow_framebuffer, put on the Flow plane by  *)
(* commit and kept in current_flow_bo_ until a later frame replaces it.    *)
(* Releasing it one step too early lets the renderer draw into a buffer    *)
(* the display is reading; never releasing it starves the renderer.        *)
(*                                                                         *)
(* The framebuffer cache maps a BO to one framebuffer id for its lifetime, *)
(* so a framebuffer id is represented by its BO, or by Solid for the dumb  *)
(* buffer of the debug pattern.                                            *)
(***************************************************************************)
EXTENDS Naturals, FiniteSets

CONSTANTS
    Bufs,             \* the buffer objects of the GBM surface
    NoBuf,            \* nullptr, and framebuffer id 0
    Solid,            \* solid_flow_.framebuffer
    Options,          \* the command lines considered, see below
    MaxFrames         \* bound on the number of Flow frames rendered

\* "async": the Flow thread renders; "solid": the Flow thread publishes the
\* debug pattern (--flow-debug-solid); "sync": the presenter renders itself.
FlowModes == {"async", "solid", "sync"}

\* cpuVideo: CPU video frames with page-flip pacing are presented;
\* writeback: --writeback-record-path is set.
AllOptions == [flowMode : FlowModes, cpuVideo : BOOLEAN, writeback : BOOLEAN]

ASSUME BufsAssumption == NoBuf \notin Bufs /\ Solid \notin Bufs /\ NoBuf # Solid
ASSUME OptionsAssumption == Options \subseteq AllOptions
ASSUME MaxFramesAssumption == MaxFrames \in Nat

VARIABLES
    options,          \* fixed at start
    locked,           \* BOs the GBM surface considers locked by its user
    back,             \* the BO being drawn into
    seq,              \* number of the frame each BO holds (or is receiving)
    rendered,         \* number of frames whose drawing has started
    published,        \* number of frames handed to the compositor
    flowPc, flowBo,   \* Flow thread: where it is, the BO it has locked
    pendingFb, pendingBo,
    presPc,           \* presenter: where it is
    acqFb, acqBo,     \* presenter: flow_framebuffer, flow_bo of present()
    nonblocking,      \* presenter: the nonblocking_allowed argument of commit
    currentFb, currentBo,
    modeset,          \* modeset_committed_
    scanFb,           \* framebuffer the display reads on the Flow plane
    flip, flipFb,     \* state of the page-flip event, what that flip shows
    stop              \* stop_requested

gbmVars  == <<locked, back, seq, rendered, published>>
flowVars == <<flowPc, flowBo>>
pendVars == <<pendingFb, pendingBo>>
presVars == <<presPc, acqFb, acqBo, nonblocking>>
currVars == <<currentFb, currentBo>>
kmsVars  == <<modeset, scanFb, flip, flipFb>>
vars == <<options, gbmVars, flowVars, pendVars, presVars, currVars, kmsVars, stop>>

----
Fbs == Bufs \cup {Solid, NoBuf}
BufsOrNone == Bufs \cup {NoBuf}

FlowMode == options.flowMode
Writeback == options.writeback

Release_Leaks(bo) == UNCHANGED locked
Release_Locks(bo) == locked' = locked \cup {bo}

\* gbm_surface_release_buffer, which the code guards with "bo != nullptr".
Release(bo) == locked' = locked \ {bo}

StopProgram_Forgotten == UNCHANGED stop

\* A thread that gives up takes the whole preview down.
StopProgram == stop' = TRUE

\* The BOs Mesa may hand out as the next back buffer.
Free == Bufs \ (locked \cup {back})

Init ==
    /\ options \in Options
    /\ locked = {} /\ back = NoBuf
    /\ seq = [b \in Bufs |-> 0] /\ rendered = 0 /\ published = 0
    /\ flowPc = IF FlowMode = "sync" THEN "done" ELSE "render"
    /\ flowBo = NoBuf
    /\ pendingFb = NoBuf /\ pendingBo = NoBuf
    /\ presPc = "idle" /\ acqFb = NoBuf /\ acqBo = NoBuf /\ nonblocking = FALSE
    /\ currentFb = NoBuf /\ currentBo = NoBuf
    /\ modeset = FALSE /\ scanFb = NoBuf /\ flip = "none" /\ flipFb = NoBuf
    /\ stop = FALSE

----
(* The Flow thread. *)

\* Drawing a frame: the first GL command takes a free BO as back buffer.
RenderFrame ==
    /\ FlowMode = "async" /\ flowPc = "render" /\ ~stop
    /\ rendered < MaxFrames
    /\ \E b \in Free :
        /\ back' = b
        /\ seq' = [seq EXCEPT ![b] = rendered + 1]
    /\ rendered' = rendered + 1
    /\ flowPc' = "swap"
    /\ UNCHANGED <<locked, published, flowBo, pendVars, presVars, currVars, kmsVars, stop>>

\* No BO to draw into, because all are locked or Mesa cannot allocate another:
\* eglSwapBuffers fails and the thread requests the stop.
RenderStarves ==
    /\ FlowMode = "async" /\ flowPc = "render" /\ ~stop
    /\ flowPc' = "done" /\ StopProgram
    /\ UNCHANGED <<gbmVars, flowBo, pendVars, presVars, currVars, kmsVars>>

\* publish_rendered_flow_frame up to the mutex: the frame just drawn becomes
\* the front buffer and is locked.
LockFrame ==
    /\ flowPc = "swap"
    /\ flowBo' = back /\ locked' = locked \cup {back} /\ back' = NoBuf
    /\ flowPc' = "publish"
    /\ UNCHANGED <<seq, rendered, published, pendVars, presVars, currVars, kmsVars, stop>>

\* The swap, the lock or the framebuffer fails; a BO locked is released again.
LockFrameFails ==
    /\ flowPc = "swap"
    /\ back' = NoBuf
    /\ flowPc' = "done" /\ StopProgram
    /\ UNCHANGED <<locked, seq, rendered, published, flowBo, pendVars, presVars, currVars, kmsVars>>

\* Under flow_framebuffer_mutex_: a frame nobody took yet is superseded.
PublishRendered ==
    /\ flowPc = "publish"
    /\ Release(pendingBo)
    /\ pendingFb' = flowBo /\ pendingBo' = flowBo /\ flowBo' = NoBuf
    /\ published' = published + 1
    /\ flowPc' = "render"
    /\ UNCHANGED <<back, seq, rendered, presVars, currVars, kmsVars, stop>>

\* publish_solid_flow_frame: one dumb buffer, repainted in place.
PublishSolid ==
    /\ FlowMode = "solid" /\ flowPc = "render" /\ ~stop
    /\ Release(pendingBo)
    /\ pendingFb' = Solid /\ pendingBo' = NoBuf
    /\ UNCHANGED <<back, seq, rendered, published, flowVars, presVars, currVars, kmsVars, stop>>

PublishSolidFails ==
    /\ FlowMode = "solid" /\ flowPc = "render" /\ ~stop
    /\ flowPc' = "done" /\ StopProgram
    /\ UNCHANGED <<gbmVars, flowBo, pendVars, presVars, currVars, kmsVars>>

FlowQuits ==
    /\ flowPc = "render" /\ stop
    /\ flowPc' = "done"
    /\ UNCHANGED <<gbmVars, flowBo, pendVars, presVars, currVars, kmsVars, stop>>

----
(* The presenter: present, present_overlay and what they call. *)

VideoOnlyUpdate_Always(isCpu, updateFlow, bo) == isCpu

\* commit may be nonblocking only for a CPU video frame (isCpu) presented
\* without a new Flow frame; every other commit waits for the display.
VideoOnlyUpdate(isCpu, updateFlow, bo) == isCpu /\ ~updateFlow /\ bo = NoBuf

VideoKinds == IF options.cpuVideo THEN BOOLEAN ELSE {FALSE}

\* The presenter becomes the owner of the pending frame.
TakePending == pendingFb' = NoBuf /\ pendingBo' = NoBuf

\* acquire_flow_framebuffer(false): the pending frame if there is one, else
\* the frame already shown.
AcquireLatest ==
    /\ presPc = "idle" /\ ~stop
    /\ IF pendingFb # NoBuf THEN acqFb' = pendingFb /\ acqBo' = pendingBo
                            ELSE acqFb' = currentFb /\ acqBo' = NoBuf
    /\ TakePending
    /\ \E isCpu \in VideoKinds : nonblocking' = VideoOnlyUpdate(isCpu, FALSE, acqBo')
    /\ presPc' = "commit"
    /\ UNCHANGED <<gbmVars, flowVars, currVars, kmsVars, stop>>

\* acquire_flow_framebuffer(true), after the presenter drew the frame itself.
AcquireRendered ==
    /\ FlowMode = "sync" /\ presPc = "idle" /\ ~stop
    /\ rendered < MaxFrames
    /\ \E b \in Free :
        /\ seq' = [seq EXCEPT ![b] = rendered + 1]
        /\ locked' = locked \cup {b}
        /\ acqFb' = b /\ acqBo' = b
        /\ \E isCpu \in VideoKinds : nonblocking' = VideoOnlyUpdate(isCpu, TRUE, b)
    /\ rendered' = rendered + 1 /\ published' = published + 1
    /\ presPc' = "commit"
    /\ UNCHANGED <<back, flowVars, pendVars, currVars, kmsVars, stop>>

\* Nothing can be swapped or locked: present returns false.
AcquireFails ==
    /\ FlowMode = "sync" /\ presPc = "idle" /\ ~stop
    /\ presPc' = "done" /\ StopProgram
    /\ UNCHANGED <<gbmVars, flowVars, pendVars, acqFb, acqBo, nonblocking, currVars, kmsVars>>

CommittedFb_InitialOnly == IF acqFb # NoBuf /\ ~modeset THEN acqFb ELSE scanFb

\* What the Flow plane shows after a commit of acqFb.
CommittedFb ==
    IF acqFb # NoBuf /\ (~modeset \/ acqFb # currentFb) THEN acqFb ELSE scanFb

\* capture_writeback: every n-th frame, up to a number of frames.
Captures == IF Writeback THEN BOOLEAN ELSE {FALSE}

\* commit, after wait_for_pending_page_flip saw the event of the last flip.
Commit ==
    /\ presPc = "commit" /\ flip # "queued"
    /\ \E capture \in Captures :
         IF modeset /\ nonblocking /\ ~capture
         THEN flip' = "queued" /\ flipFb' = CommittedFb /\ UNCHANGED scanFb
         ELSE flip' = "none" /\ flipFb' = NoBuf /\ scanFb' = CommittedFb
    /\ modeset' = TRUE
    /\ presPc' = "adopt"
    /\ UNCHANGED <<gbmVars, flowVars, pendVars, acqFb, acqBo, nonblocking, currVars, stop>>

\* commit returns false before anything reached the display: no event within
\* 250 ms, no memory for the request, or the kernel rejects it.
CommitFails ==
    /\ presPc = "commit"
    /\ presPc' = "release"
    /\ UNCHANGED <<gbmVars, flowVars, pendVars, acqFb, acqBo, nonblocking, currVars, kmsVars, stop>>

\* commit returns false after the frame is on the display: the writeback
\* fence does not signal within a second or the recording cannot be written.
CaptureFails ==
    /\ Writeback /\ presPc = "commit" /\ flip # "queued"
    /\ scanFb' = CommittedFb /\ flip' = "none" /\ flipFb' = NoBuf
    /\ modeset' = TRUE
    /\ presPc' = "release"
    /\ UNCHANGED <<gbmVars, flowVars, pendVars, acqFb, acqBo, nonblocking, currVars, stop>>

\* release_acquired_flow_framebuffer, before present returns false.
ReleaseAcquired ==
    /\ presPc = "release"
    /\ Release(acqBo)
    /\ acqFb' = NoBuf /\ acqBo' = NoBuf /\ nonblocking' = FALSE
    /\ presPc' = "failed"
    /\ UNCHANGED <<back, seq, rendered, published, flowVars, pendVars, currVars, kmsVars, stop>>

\* run_kms_video_preview sees present fail and leaves its loop.
PresentFailed ==
    /\ presPc = "failed"
    /\ presPc' = "done" /\ StopProgram
    /\ UNCHANGED <<gbmVars, flowVars, pendVars, acqFb, acqBo, nonblocking, currVars, kmsVars>>

\* adopt_flow_framebuffer: the frame replaced on the plane is released.
Adopt ==
    /\ presPc = "adopt"
    /\ IF acqFb # currentFb THEN Release(currentBo) ELSE UNCHANGED locked
    /\ IF acqFb # currentFb \/ acqBo # NoBuf
       THEN currentFb' = acqFb /\ currentBo' = acqBo
       ELSE UNCHANGED currVars
    /\ acqFb' = NoBuf /\ acqBo' = NoBuf /\ nonblocking' = FALSE
    /\ presPc' = "idle"
    /\ UNCHANGED <<back, seq, rendered, published, flowVars, pendVars, kmsVars, stop>>

PresenterQuits ==
    /\ presPc = "idle" /\ stop
    /\ presPc' = "done"
    /\ UNCHANGED <<gbmVars, flowVars, pendVars, acqFb, acqBo, nonblocking, currVars, kmsVars, stop>>

\* The destructor, after ScopedThreadJoin joined the Flow thread: cleanup
\* waits for the last flip, gives the BOs back and removes their framebuffers,
\* which turns the plane off.
Cleanup ==
    /\ presPc = "done" /\ flowPc = "done"
    /\ locked' = locked \ {pendingBo, currentBo}
    /\ pendingFb' = NoBuf /\ pendingBo' = NoBuf
    /\ currentFb' = NoBuf /\ currentBo' = NoBuf
    /\ scanFb' = NoBuf /\ flip' = "none" /\ flipFb' = NoBuf
    /\ presPc' = "closed"
    /\ UNCHANGED <<back, seq, rendered, published, flowVars, acqFb, acqBo, nonblocking, modeset, stop>>

----
(* The environment. *)

\* The vertical blank at which a nonblocking commit takes effect.
PageFlip ==
    /\ flip = "queued"
    /\ flip' = "event" /\ scanFb' = flipFb
    /\ UNCHANGED <<options, gbmVars, flowVars, pendVars, presVars, currVars, modeset, flipFb, stop>>

\* SIGINT or SIGTERM, or another part of the program sets stop_requested.
RequestStop ==
    /\ ~stop
    /\ stop' = TRUE
    /\ UNCHANGED <<options, gbmVars, flowVars, pendVars, presVars, currVars, kmsVars>>

\* The process has returned from run_kms_video_preview.
Closed == presPc = "closed" /\ UNCHANGED vars

Flow ==
    /\ \/ RenderFrame \/ RenderStarves \/ LockFrame \/ LockFrameFails
       \/ PublishRendered \/ PublishSolid \/ PublishSolidFails \/ FlowQuits
    /\ UNCHANGED options

Presenter ==
    /\ \/ AcquireLatest \/ AcquireRendered \/ AcquireFails
       \/ Commit \/ CommitFails \/ CaptureFails
       \/ ReleaseAcquired \/ PresentFailed \/ Adopt \/ PresenterQuits \/ Cleanup
    /\ UNCHANGED options

Next == Flow \/ Presenter \/ PageFlip \/ RequestStop \/ Closed

\* Both threads keep running, and a flip the kernel accepted happens.
Fairness == WF_vars(Flow) /\ WF_vars(Presenter) /\ WF_vars(PageFlip)

Spec == Init /\ [][Next]_vars
FairSpec == Spec /\ Fairness

----
(* Properties. *)

FlowPcs == {"render", "swap", "publish", "done"}
PresPcs == {"idle", "commit", "adopt", "release", "failed", "done", "closed"}

\* Every variable holds a value the code can give it.
TypeOK ==
    /\ options \in Options
    /\ locked \subseteq Bufs /\ back \in BufsOrNone
    /\ seq \in [Bufs -> Nat] /\ rendered \in Nat /\ published \in Nat
    /\ flowPc \in FlowPcs /\ flowBo \in BufsOrNone
    /\ pendingFb \in Fbs /\ pendingBo \in BufsOrNone
    /\ presPc \in PresPcs /\ acqFb \in Fbs /\ acqBo \in BufsOrNone
    /\ nonblocking \in BOOLEAN
    /\ currentFb \in Fbs /\ currentBo \in BufsOrNone
    /\ modeset \in BOOLEAN /\ scanFb \in Fbs
    /\ flip \in {"none", "queued", "event"} /\ flipFb \in Fbs
    /\ stop \in BOOLEAN

\* A BO the display reads, or will read at the flip it was queued for, stays
\* locked and is not drawn into: present and adopt_flow_framebuffer release a
\* BO only after the display has moved on, whichever commit was used.  Not so
\* with the writeback recorder, see CaptureFails.
ScanoutSafe ==
    ~Writeback => \A b \in Bufs : b \in {scanFb, flipFb} => b \in locked /\ b # back

Owned == {flowBo, pendingBo, acqBo, currentBo} \ {NoBuf}

\* Every locked BO has exactly one owner among the Flow thread, the pending
\* slot, the presenter and the current frame: a BO is released once, and none
\* is forgotten on an error path of publish, present or commit.
UniqueOwner ==
    /\ locked = Owned
    /\ flowBo # NoBuf => flowBo \notin {pendingBo, acqBo, currentBo}
    /\ pendingBo # NoBuf => pendingBo \notin {acqBo, currentBo}
    /\ acqBo # NoBuf => acqBo # currentBo

\* The inductive strengthening of UniqueOwner and ScanoutSafe: which program
\* point owns which BO, which framebuffer goes with which BO, and which of the
\* presenter's frames the display is on at each point of present().
BoOf(fb) == IF fb \in Bufs THEN fb ELSE NoBuf

Holding == presPc \in {"commit", "adopt", "release"}

OwnerInv ==
    /\ UniqueOwner
    /\ back \notin locked
    /\ IF flowPc = "swap" THEN back \in Bufs ELSE back = NoBuf
    /\ IF flowPc = "publish" THEN flowBo \in Bufs ELSE flowBo = NoBuf
    /\ flowPc \in {"swap", "publish"} => FlowMode = "async"
    /\ pendingBo = BoOf(pendingFb)
    /\ currentBo = BoOf(currentFb)
    /\ IF Holding THEN acqBo \in {BoOf(acqFb), NoBuf} ELSE acqFb = NoBuf /\ acqBo = NoBuf
    /\ Holding /\ acqBo = NoBuf => acqFb = currentFb \/ FlowMode = "solid"
    /\ nonblocking => acqBo = NoBuf
    /\ \A fb \in {pendingFb, acqFb, currentFb, scanFb, flipFb} :
          fb # NoBuf => (fb = Solid <=> FlowMode = "solid")

\* Only without writeback capture: see CaptureFails.
DisplayInv ==
    /\ scanFb \in Bufs => scanFb = IF presPc = "adopt" THEN acqFb ELSE currentFb
    /\ flipFb \in Bufs => flipFb = scanFb

HandoffInv == OwnerInv /\ (~Writeback => DisplayInv)

\* The Flow thread always finds a BO to draw the next frame into: at most the
\* current, the acquired and the pending frame are locked when it starts.
NeverStarved == flowPc = "render" => Free # {}

\* The hand-off implements the mailbox: what the plane shows is a frame that
\* was published as a whole and never an older one than before.  A capture that
\* fails after the commit breaks this, see CaptureFails.
Shown == IF scanFb \in Bufs THEN seq[scanFb] ELSE 0
Mailbox == INSTANCE FlowMailbox WITH shown <- IF Writeback THEN 0 ELSE Shown,
                                     on <- presPc # "closed"
ImplementsMailbox == Mailbox!Spec

\* Every published frame, or a later one, reaches the plane unless the program
\* stops: neither the pending slot nor the "framebuffer unchanged" shortcut of
\* commit strands it.  Nor the debug pattern, whose BO slot stays empty.
PublishedIsShown ==
    /\ \A n \in 1..MaxFrames : (published >= n) ~> (Shown >= n \/ stop \/ presPc = "failed")
    /\ (pendingFb = Solid) ~> (scanFb = Solid \/ stop \/ presPc = "failed")


\* Whichever thread gives up first, the other one ends, the Flow thread is
\* joined and the compositor is cleaned up.
ShutdownCompletes ==
    (stop \/ presPc = "failed" \/ (flowPc = "done" /\ FlowMode # "sync")) ~> (presPc = "closed")
====

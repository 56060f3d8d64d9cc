---- MODULE Lifetimes ----
(***************************************************************************)
(* What the processes that own the display acquire, in which order, and    *)
(* how they give it up: run_kms_video_preview with every output it can     *)
(* open (KmsAtomicCompositor, KmsDmabufVideoPlane, KmsGlesWindow) and      *)
(* every decoder, and glide-flow with its two windows.                     *)
(*                                                                         *)
(* A resource is a pair <<owner, part>>: a kernel or library handle, a     *)
(* thread, or a local that a thread captured by reference.  Set-up is a    *)
(* sequence of steps any of which may fail; then the function returns and  *)
(* the destructors run in the reverse order of the declarations, each one  *)
(* releasing whatever its object still records.                            *)
(***************************************************************************)
EXTENDS Naturals, Sequences, SequencesExt

CONSTANT Programs     \* the programs run, records [out, ui, rec, dec]

VARIABLES
    prog,             \* the program of this behaviour
    pc,               \* index of the next set-up step
    main,             \* "setup", "unwind" or "returned"
    held,             \* resources acquired and not released
    lost,             \* held resources whose handle no object records
    pend,             \* what the destructors have still to release
    alive,            \* threads that have not ended
    raised            \* flags set: "stop" (stop_requested), "halt" (~running_)

vars == <<prog, pc, main, held, lost, pend, alive, raised>>

Out(p) == <<"output", p>>
Dec(p) == <<"decoder", p>>
Local(p) == <<"local", p>>
Thread(t) == <<"thread", t>>
Program == <<"gl", "program">>
Images == <<"gl", "images">>

Outputs == {"gles", "sync", "async", "legacy"}
Atomic(c) == c.out \in {"sync", "async"}
Windowed(c) == c.out \in {"gles", "kms"}
IsFlowApp(c) == c.out \in {"kms", "sdl"}
DumbBuffers == {"primary", "solid", "solidUi", "cpu", "writeback"}

----
(* Set-up.  A step acquires at most one resource.  When it fails its callee *)
(* releases "undo" and forgets the handles "loses" before it returns.       *)

Step(r, undo) == [gets |-> {r}, ends |-> {"ok", "fail"}, undo |-> undo, loses |-> {}]
Get(r) == Step(r, <<>>)
Sure(r) == [Get(r) EXCEPT !.ends = {"ok"}]
Perhaps(r) == [Get(r) EXCEPT !.ends = {"ok", "skip"}]
Check(undo) == [gets |-> {}, ends |-> {"ok", "fail"}, undo |-> undo, loses |-> {}]

DestroyDumb(b) == << <<b, "map">>, <<b, "fb">>, <<b, "handle">> >>

\* create_*_buffer: a dumb buffer, its framebuffer and its mapping.
CreateDumb(b) == << Get(<<b, "handle">>),
                    Step(<<b, "fb">>, << <<b, "handle">> >>),
                    Step(<<b, "map">>, << <<b, "fb">>, <<b, "handle">> >>) >>

OpenCard == << Get(Out("fd")) >>
PickMode == << Get(Out("mode")) >>
PickCrtc == << Sure(Out("crtcInfo")) >>
ChooseMode == PickMode \o PickCrtc

\* egl_display_ is stored last: a later failure forgets the display.
Losing(s) == [s EXCEPT !.loses = {Out("eglDisplay")}]

CreateEgl(surface) ==
    << Get(Out("eglDisplay")), Losing(Check(<<>>)) >>
    \o surface
    \o << Losing(Get(Out("eglContext"))),
          Losing(Step(Out("eglSurface"), << Out("eglContext") >>)),
          Losing(Check(<< Out("eglSurface"), Out("eglContext") >>)) >>

\* KmsGlesWindow, which makes its surface between display and context.
WindowCard == OpenCard
WindowMode == WindowCard \o ChooseMode
WindowEgl == << Get(Out("gbmDevice")) >> \o CreateEgl(<< Losing(Get(Out("gbmSurface"))) >>)
CreateGlesWindow == WindowMode \o WindowEgl

\* KmsAtomicCompositor: the writeback connector is checked before a buffer is made.
FindWriteback == << Check(<<>>) >>
WritebackBuffer == CreateDumb("writeback")
EnableWriteback ==
    FindWriteback \o WritebackBuffer
    \o << Step(Out("recording"), DestroyDumb("writeback")) >>

FlowSurface == << Get(Out("gbmDevice")), Get(Out("gbmSurface")) >>

CreateCompositor ==
    OpenCard \o ChooseMode \o << Get(Out("blob")) >>
    \o CreateDumb("primary") \o << Check(<<>>) >>
    \o FlowSurface \o CreateEgl(<<>>)

\* publish_solid_ui_frame, before the Flow thread starts.
SolidUi == CreateDumb("solidUi")

\* KmsDmabufVideoPlane.
LegacyCard == OpenCard
LegacyMode == LegacyCard \o ChooseMode
LegacyPrimary == CreateDumb("primary") \o << Step(Out("crtc"), DestroyDumb("primary")) >>
CreateLegacyPlane == LegacyMode \o LegacyPrimary

\* SdlGlesWindow.
CreateSdl == << Get(Out("sdl")), Get(Out("window")), Get(Out("context")) >>

CreateOutput(c) ==
    CASE Windowed(c) -> CreateGlesWindow
      [] Atomic(c) -> CreateCompositor \o (IF c.ui THEN SolidUi ELSE <<>>)
                      \o (IF c.rec THEN EnableWriteback ELSE <<>>)
      [] c.out = "legacy" -> CreateLegacyPlane
      [] c.out = "sdl" -> CreateSdl

\* The locals the threads capture by reference, in the order declared.
Locals == << Local("control_state"), Local("mavlink_snapshot"), Local("mutex"),
             Local("ipc_server"), Local("mavlink_bridge"), Local("network_discovery") >>
SureAll(s) == [i \in DOMAIN s |-> Sure(s[i])]

\* The first overlay: drawn and put on the display in a window or the
\* compositor; with "async" the Flow thread renders, and the overlay is
\* presented up to twelve times unless the stop comes first.
Modeset(undo) ==
    << Perhaps(Program), Get(Out("bo")), Step(Out("fb"), << Out("bo") >>), Step(Out("crtc"), undo) >>
SwapWindow == Modeset(<< Out("fb"), Out("bo") >>)
PresentOverlay == Modeset(<< Out("bo") >>)
StartThreads(c) ==
    << Check(<<>>), Sure(Thread("flow")), Perhaps(Out("crtc")), Check(<<>>) >>
    \o (IF c.ui THEN << Perhaps(Thread("ui")) >> ELSE <<>>)

FirstOverlay(c) ==
    CASE c.out = "gles" -> SwapWindow
      [] c.out = "sync" -> PresentOverlay
      [] c.out = "async" -> StartThreads(c)
      [] OTHER -> <<>>

GstRefs == << Dec("bus"), Dec("sink"), Dec("pipeline") >>

RkmppCleanup == << Thread("feed"), Thread("frame"), Dec("frames"), Dec("groups"), Dec("socket"), Dec("mpp") >>
ImxCleanup == << Dec("frames"), Dec("codec"), Dec("pool"), Dec("stream"), Dec("allocator"), Dec("socket") >>
CedarCleanup == << Dec("frames"), Dec("codec"), Dec("memory"), Dec("socket") >>
GstCleanup == << Dec("playing"), Dec("probes"), Dec("frames") >> \o GstRefs
DesktopCleanup == << Dec("frames"), Dec("playing"), Dec("sink"), Dec("bus"), Dec("pipeline") >>

DecoderCleanup(c) ==
    CASE c.dec = "rkmpp" -> RkmppCleanup
      [] c.dec = "imx" -> ImxCleanup
      [] c.dec = "cedar" -> CedarCleanup
      [] c.dec = "gst" -> GstCleanup
      [] c.dec = "desktop" -> DesktopCleanup
      [] OTHER -> <<>>

StartRkmpp == << Step(Dec("mpp"), <<>>), Step(Dec("socket"), RkmppCleanup), Check(RkmppCleanup),
                 Sure(Thread("feed")), Sure(Thread("frame")), Sure(Thread("presenter")) >>
StartImx == << Check(<<>>), Get(Dec("allocator")), Get(Dec("stream")), Get(Dec("codec")),
               Get(Dec("socket")), Check(<<>>) >>
StartCedar == << Get(Dec("socket")), Check(<<>>), Get(Dec("memory")), Get(Dec("codec")), Check(<<>>) >>
StartGst == << Get(Dec("pipeline")), Perhaps(Dec("sink")), Perhaps(Dec("bus")), Check(GstRefs),
               Perhaps(Dec("probes")), Step(Dec("playing"), << Dec("probes") >> \o GstRefs) >>
StartDesktop == << Get(Dec("pipeline")), Perhaps(Dec("sink")), Sure(Dec("bus")), Check(<<>>), Get(Dec("playing")) >>

StartDecoder(c) ==
    CASE c.dec = "rkmpp" -> StartRkmpp
      [] c.dec = "imx" -> StartImx
      [] c.dec = "cedar" -> StartCedar
      [] c.dec = "gst" -> StartGst
      [] c.dec = "desktop" -> StartDesktop
      [] OTHER -> <<>>

Setup(c) ==
    IF IsFlowApp(c) THEN CreateOutput(c) \o StartDecoder(c)
    ELSE CreateOutput(c) \o SureAll(Locals) \o FirstOverlay(c) \o StartDecoder(c)

\* The first pictures, once the main loop runs: decoder buffers, framebuffers
\* or images of them, and what takes the display over.
DecoderBuffers(c) ==
    CASE c.dec = "imx" -> << Perhaps(Dec("pool")), Sure(Dec("frames")) >>
      [] c.dec = "rkmpp" -> << Perhaps(Dec("groups")), Sure(Dec("frames")) >>
      [] c.dec = "none" -> <<>>
      [] OTHER -> << Sure(Dec("frames")) >>

ShowOnPlane == << Get(Out("videoFb")), Get(Out("crtc")) >>
ShowOnLegacy == << Get(Out("videoFb")), Step(Out("plane"), <<>>) >>
ImportImage == << Get(Images) >>
DrawImage == << Get(Program) >> \o ImportImage

FirstPictures(c) ==
    DecoderBuffers(c)
    \o (CASE Atomic(c) -> ShowOnPlane \o (IF c.dec = "gst" THEN CreateDumb("cpu") ELSE <<>>)
          [] c.out = "legacy" -> ShowOnLegacy
          [] c.out = "gles" -> DrawImage
          [] c.out = "kms" -> SwapWindow
          [] c.out = "sdl" -> << Perhaps(Program) >>)

----
(* Tear-down. *)

CompositorCleanup ==
    << Out("crtc"), Out("crtcInfo"), Out("bo"), Out("eglSurface"), Out("eglContext"), Out("eglDisplay"),
       Out("fb"), Out("gbmSurface"), Out("gbmDevice"), Out("videoFb"), Out("recording") >>
    \o DestroyDumb("writeback") \o DestroyDumb("solid") \o DestroyDumb("solidUi")
    \o DestroyDumb("cpu") \o DestroyDumb("primary")
    \o << Out("blob"), Out("mode"), Out("fd") >>

WindowCleanup ==
    << Out("crtc"), Out("fb"), Out("bo"), Out("eglSurface"), Out("eglContext"), Out("eglDisplay"),
       Out("gbmSurface"), Out("gbmDevice"), Out("crtcInfo"), Out("mode"), Out("fd") >>

LegacyCleanup ==
    << Out("plane"), Out("crtc"), Out("videoFb") >> \o DestroyDumb("primary")
    \o << Out("crtcInfo"), Out("mode"), Out("fd") >>

SdlCleanup == << Out("context"), Out("window"), Out("sdl") >>

OutputCleanup(c) ==
    CASE Windowed(c) -> WindowCleanup
      [] Atomic(c) -> CompositorCleanup
      [] c.out = "legacy" -> LegacyCleanup
      [] c.out = "sdl" -> SdlCleanup

\* Reached by a return before the main loop, GStreamer's cleanup does not run.
InLoop == pc > Len(Setup(prog))
DecoderScope(c) ==
    (IF c.dec = "rkmpp" THEN << Thread("presenter") >> ELSE <<>>)
    \o (IF c.dec = "gst" /\ ~InLoop THEN <<>> ELSE DecoderCleanup(c))

RendererCleanup == << Program, Images >>

Joins == << Thread("ui"), Thread("flow") >>

Unwind_GuardsDeclaredFirst(c) ==
    IF IsFlowApp(c) THEN DecoderScope(c) \o OutputCleanup(c) \o << Program >>
    ELSE DecoderScope(c) \o Reverse(Locals) \o RendererCleanup \o OutputCleanup(c) \o Joins

\* The reverse of the order in which the function declares its objects.
Unwind(c) ==
    IF IsFlowApp(c) THEN DecoderScope(c) \o OutputCleanup(c) \o << Program >>
    ELSE DecoderScope(c) \o Reverse(Locals) \o Joins \o RendererCleanup \o OutputCleanup(c)

----
(* The main thread. *)

Init ==
    /\ prog \in Programs
    /\ pc = 1 /\ main = "setup"
    /\ held = {} /\ lost = {} /\ pend = <<>>
    /\ alive = {} /\ raised = {}

Steps == Setup(prog) \o FirstPictures(prog)
Threads(rs) == {r[2] : r \in {q \in rs : q[1] = "thread"}}

\* The presenter of the Rockchip decoder shows the pictures.
Presenting == InLoop /\ prog.dec = "rkmpp"
Runs == main = "setup" /\ pc <= Len(Steps) /\ (Presenting => "presenter" \in alive)

Acquire ==
    /\ Runs
    /\ held' = held \cup Steps[pc].gets
    /\ alive' = alive \cup Threads(Steps[pc].gets)
    /\ pc' = pc + 1
    /\ UNCHANGED <<prog, main, lost, pend, raised>>

Skip ==
    /\ Runs /\ "skip" \in Steps[pc].ends
    /\ pc' = pc + 1
    /\ UNCHANGED <<prog, main, held, lost, pend, alive, raised>>

Return(undo) ==
    /\ main' = "unwind"
    /\ pend' = undo \o Unwind(prog)

Fail ==
    /\ Runs /\ "fail" \in Steps[pc].ends /\ ~Presenting
    /\ Return(Steps[pc].undo)
    /\ lost' = lost \cup Steps[pc].loses
    /\ UNCHANGED <<prog, pc, held, alive, raised>>

\* The presenter gives up: it ends and stops the others.
PresenterFails ==
    /\ Presenting /\ "presenter" \in alive
    /\ alive' = alive \ {"presenter"} /\ raised' = raised \cup {"stop"}
    /\ UNCHANGED <<prog, pc, main, held, lost, pend>>

\* A poll or a later present fails in the loop of the main thread.
RunFails ==
    /\ main = "setup" /\ InLoop /\ ~Presenting
    /\ Return(<<>>)
    /\ UNCHANGED <<prog, pc, held, lost, alive, raised>>

LoopEnds ==
    /\ main = "setup" /\ InLoop /\ "stop" \in raised
    /\ Return(<<>>)
    /\ UNCHANGED <<prog, pc, held, lost, alive, raised>>

Flag(t) == IF t \in {"feed", "frame"} THEN "halt" ELSE "stop"

JoinRaises_Nothing(t) == IF Flag(t) = "halt" THEN {"halt"} ELSE {}

\* ScopedThreadJoin and the join of the presenter set stop_requested first,
\* the decoder's cleanup clears running_.
JoinRaises(t) == {Flag(t)}

JoinWaits(t) == t \in alive

\* A destructor releases what its object still records, and skips the rest.
Release ==
    /\ main = "unwind" /\ pend # <<>>
    /\ LET r == Head(pend) IN
         IF r[1] = "thread" /\ r \in held /\ JoinWaits(r[2])
         THEN /\ raised' = raised \cup JoinRaises(r[2])
              /\ UNCHANGED <<held, pend>>
         ELSE /\ held' = IF r \in lost THEN held ELSE held \ {r}
              /\ pend' = Tail(pend)
              /\ UNCHANGED raised
    /\ UNCHANGED <<prog, pc, main, lost, alive>>

Returns ==
    /\ main = "unwind" /\ pend = <<>>
    /\ main' = "returned"
    /\ UNCHANGED <<prog, pc, held, lost, pend, alive, raised>>

Returned == main = "returned" /\ UNCHANGED vars

\* SIGINT or SIGTERM.
Signal ==
    /\ main = "setup" /\ "stop" \notin raised
    /\ raised' = raised \cup {"stop"}
    /\ UNCHANGED <<prog, pc, main, held, lost, pend, alive>>

----
(* The other threads. *)

UiMapping == Local("shared_ui")

\* What a pass through the loop of a thread may acquire: the Flow thread
\* renders a frame or publishes the solid one, both read the UI buffer.
MayGet(t) ==
    CASE t = "flow" -> { {Program, Out("bo"), Out("fb")}, {<<"solid", k>> : k \in {"handle", "fb", "map"}} }
                       \cup (IF prog.ui THEN { {UiMapping} } ELSE {})
      [] t = "ui" -> { {UiMapping} }
      [] OTHER -> {}

ThreadGets(t) ==
    /\ t \in alive
    /\ \E rs \in MayGet(t) : ~(rs \subseteq held) /\ held' = held \cup rs
    /\ UNCHANGED <<prog, pc, main, lost, pend, alive, raised>>

\* The renderers of the Flow thread are its locals; the UI thread unmaps the
\* buffer it shares with the Flow thread.
OnExit(t) == CASE t = "flow" -> {Program} [] t = "ui" -> {UiMapping} [] OTHER -> {}

ThreadEnds(t) ==
    /\ t \in alive /\ Flag(t) \in raised
    /\ alive' = alive \ {t} /\ held' = held \ OnExit(t)
    /\ UNCHANGED <<prog, pc, main, lost, pend, raised>>

\* A publish fails, the socket or the decoder library reports an error.
ThreadFails(t) ==
    /\ t \in alive /\ t \in {"flow", "feed", "frame"}
    /\ alive' = alive \ {t} /\ held' = held \ OnExit(t)
    /\ raised' = raised \cup {Flag(t)}
    /\ UNCHANGED <<prog, pc, main, lost, pend>>

AllThreads == {"flow", "ui", "presenter", "feed", "frame"}

Main == Acquire \/ Skip \/ Fail \/ RunFails \/ LoopEnds \/ Release \/ Returns
Next ==
    \/ Main \/ PresenterFails \/ Signal \/ Returned
    \/ \E t \in AllThreads : ThreadGets(t) \/ ThreadEnds(t) \/ ThreadFails(t)

\* Calls return and threads are scheduled; nobody has to send a signal.
Fairness == WF_vars(Main) /\ \A t \in AllThreads : WF_vars(ThreadEnds(t))

Spec == Init /\ [][Next]_vars /\ Fairness

----
(* Properties. *)

\* What a resource lives on: a destructor that runs after the owner of one of
\* these is gone uses a closed descriptor, a destroyed device or context.
OutputNeeds ==
    [fd |-> {}, mode |-> {}, crtcInfo |-> {"fd"}, blob |-> {"fd"}, recording |-> {},
     gbmDevice |-> {"fd"}, gbmSurface |-> {"gbmDevice"},
     eglDisplay |-> {"gbmDevice"}, eglContext |-> {"eglDisplay"},
     eglSurface |-> {"eglDisplay", "gbmSurface"}, bo |-> {"gbmSurface"},
     fb |-> {"fd"}, videoFb |-> {"fd"}, crtc |-> {"fd", "crtcInfo"}, plane |-> {"fd", "videoFb"},
     sdl |-> {}, window |-> {"sdl"}, context |-> {"window"}]
DecoderNeeds ==
    [mpp |-> {}, groups |-> {}, socket |-> {}, allocator |-> {}, stream |-> {"allocator"},
     pool |-> {"allocator"}, codec |-> {}, memory |-> {}, pipeline |-> {}, sink |-> {"pipeline"},
     bus |-> {"pipeline"}, probes |-> {"pipeline"}, playing |-> {"pipeline"}, frames |-> {}]
\* Decoded frames live in the decoder, or in the pipeline's buffers.
FramesOf == CASE prog.dec = "rkmpp" -> {Dec("mpp")} [] prog.dec \in {"imx", "cedar"} -> {Dec("codec")}
              [] OTHER -> {Dec("pipeline")}
\* The picture on the display: the primary buffer, or the window's.
ShownBy == IF Windowed(prog) THEN {Out("fb")} ELSE {<<"primary", "fb">>}
Gl == IF prog.out = "sdl" THEN Out("context") ELSE Out("eglContext")

\* What a running thread reaches through its captures.  The Flow thread also
\* captures control_state, mavlink_snapshot and its mutex, which are declared
\* after its join guard and gone before it is joined (see the README).
Uses(t) ==
    CASE t = "flow" -> {Out("fd"), Out("gbmSurface"), Out("eglContext"), Out("eglSurface")}
      [] t = "ui" -> {Out("fd"), <<"solidUi", "map">>}
      [] t = "presenter" -> {Out("fd"), Dec("mpp")} \cup ToSet(Locals)
      [] t = "feed" -> {Dec("mpp"), Dec("socket")}
      [] t = "frame" -> {Dec("mpp")}

Needs(r) ==
    CASE r[1] = "output" -> {Out(p) : p \in OutputNeeds[r[2]]} \cup (IF r[2] = "crtc" THEN ShownBy ELSE {})
      [] r[1] = "decoder" -> {Dec(p) : p \in DecoderNeeds[r[2]]} \cup (IF r[2] = "frames" THEN FramesOf ELSE {})
      [] r[1] \in DumbBuffers -> IF r[2] = "handle" THEN {Out("fd")} ELSE {<<r[1], "handle">>}
      [] r[1] = "gl" -> {Gl}
      [] r[1] = "thread" -> IF r[2] \in alive THEN Uses(r[2]) ELSE {}
      [] r[1] = "local" -> {}

\* glide-flow declares its renderers before its windows, so their programs and
\* textures outlive the context (see the README).
Exempt == lost \cup (IF IsFlowApp(prog) THEN {Program} ELSE {})

\* The resources are acquired once each by the code of this program, and a
\* running thread can still be joined.
TypeOK ==
    /\ prog \in Programs /\ pc \in 1..Len(Steps) + 1
    /\ main \in {"setup", "unwind", "returned"}
    /\ lost \subseteq held \cap {Out("eglDisplay")}
    /\ alive \subseteq Threads(held) /\ Threads(held) \subseteq AllThreads
    /\ raised \subseteq {"stop", "halt"}
    /\ pend \in Seq(UNION {s.gets : s \in ToSet(Steps)} \cup ToSet(Unwind(prog)))

\* Whatever step fails and whenever the stop comes, nothing outlives what it
\* is made of: no buffer its descriptor, no surface its device, no GL object
\* its context, and no running thread the objects it uses.
NothingDangles ==
    /\ TypeOK
    /\ \A r \in held \ Exempt : Needs(r) \subseteq held

\* After a stop or a failure every thread is joined and the function returns
\* with everything released, but for the mapping of the UI buffer, which has
\* no owner, and an EGL display whose set-up failed half way.
StopReturns ==
    ("stop" \in raised \/ main = "unwind")
        ~> (main = "returned" /\ alive = {} /\ held \subseteq lost \cup {UiMapping})
====

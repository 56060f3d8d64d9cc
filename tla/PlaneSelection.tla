---- MODULE PlaneSelection ----
(***************************************************************************)
(* Which KMS plane shows the video, the Flow overlay and the UI overlay:   *)
(* choose_video_plane, choose_flow_plane and choose_ui_plane of            *)
(* KmsAtomicCompositor (src/dev/kms_atomic_compositor.cpp), the presents   *)
(* that call them and the planes commit programs.  One thread presents, so *)
(* a present is one step.                                                  *)
(*                                                                         *)
(* A board says what the kernel reports for the selected CRTC.  A format   *)
(* stands for a fourcc with its modifier.                                  *)
(***************************************************************************)
EXTENDS Naturals, FiniteSetsExt

CONSTANTS
    NumPlanes,        \* planes besides the primary one, in enumeration order
    Setups            \* the boards considered, each with a command line

NoPlane == 0          \* plane id 0; also "no preference"
Planes == 1..NumPlanes
Primary == NumPlanes + 1
Layers == {"off", "black", "video", "flow", "ui"}

\* Linear and compressed NV12, the formats of DMABUF frames; XRGB8888, the
\* format of CPU frames; linear and compressed ARGB8888.
DmabufFormats == {"nv12", "nv12c"}
VideoFormats == DmabufFormats \cup {"xrgb"}
Formats == VideoFormats \cup {"argb", "argbc"}

ASSUME NumPlanesAssumption == NumPlanes \in Nat

\* pref holds --view-plane-id, --flow-plane-id and --ui-plane-id.
PlanePrefs == Planes \cup {Primary, NoPlane}
AllBoards == [caps : [Planes \cup {Primary} -> SUBSET Formats],
              alpha : SUBSET Planes,      \* overlay or cursor planes
              auto : SUBSET Planes,       \* not a VOP2 secondary area
              rk3588 : BOOLEAN]
AllPrefs == [video : PlanePrefs, flow : PlanePrefs, ui : PlanePrefs]

ASSUME SetupsAssumption == Setups \subseteq [board : AllBoards, pref : AllPrefs]

\* create_primary_buffer takes a primary plane that supports XRGB8888 or gives up.
ASSUME PrimaryAssumption == \A setup \in Setups : "xrgb" \in setup.board.caps[Primary]

VARIABLES
    board, pref,          \* fixed at start
    source,               \* "dmabuf" or "cpu" frames
    overlays,             \* Flow or UI overlay requested
    uiWanted,             \* ui_surface_ is not empty
    videoPlane, videoFormat, flowPlane, uiPlane,
    onPlane,              \* what each plane shows
    modeset,              \* modeset_committed_
    flowReady,            \* a Flow framebuffer exists
    error                 \* why the program ended, "none" while it runs

optionVars == <<board, pref, source, overlays>>
choiceVars == <<videoPlane, videoFormat, flowPlane, uiPlane>>
vars == <<optionVars, uiWanted, choiceVars, onPlane, modeset, flowReady, error>>

Init ==
    /\ \E setup \in Setups : board = setup.board /\ pref = setup.pref
    /\ source \in {"dmabuf", "cpu"}
    /\ overlays \in BOOLEAN
    /\ uiWanted \in (IF overlays THEN BOOLEAN ELSE {FALSE})
    /\ videoPlane = NoPlane /\ videoFormat = "none"
    /\ flowPlane = NoPlane /\ uiPlane = NoPlane
    /\ onPlane = [p \in Planes \cup {Primary} |-> "off"]
    /\ modeset = FALSE /\ flowReady = FALSE /\ error = "none"

----
Supports(p, fmt) == fmt \in board.caps[p]
VideoCapable(p) == \E fmt \in DmabufFormats : Supports(p, fmt)
HostsAlpha(p) == p \in board.alpha /\ (Supports(p, "argb") \/ Supports(p, "argbc"))

\* The planes the loops over drmModeGetPlaneResources consider, by candidate.
Enumerated(candidates) == candidates \cap board.auto

First(S) == IF S = {} THEN NoPlane ELSE Min(S)
Last(S) == IF S = {} THEN NoPlane ELSE Max(S)

\* A plane id given on the command line is used or nothing is.
Preferred(p, candidates) == IF p \in candidates THEN p ELSE NoPlane

VideoCandidates_Any(fmt) == {p \in Planes : Supports(p, fmt)}

VideoCandidates(fmt) == {p \in Planes \ {flowPlane, pref.flow} : Supports(p, fmt)}

\* choose_video_plane: the primary plane is the last resort.
VideoChoice(fmt) ==
    LET candidates == VideoCandidates(fmt)
        overlay == First(Enumerated(candidates))
        primary == IF Supports(Primary, fmt) THEN Primary ELSE NoPlane
    IN  CASE pref.video = Primary -> primary
          [] pref.video \in Planes -> Preferred(pref.video, candidates)
          [] OTHER -> IF overlay # NoPlane THEN overlay ELSE primary

AutoFlow_First(auto) == First(auto)

\* The loop of choose_flow_plane stops at a plane that cannot scan out video
\* and otherwise ends on the last candidate.
AutoFlow(auto) ==
    LET graphics == {p \in auto : ~VideoCapable(p)}
    IN  IF graphics # {} THEN First(graphics) ELSE Last(auto)

\* choose_flow_plane, for the video plane chosen so far.
FlowChoice(video) ==
    LET candidates == {p \in Planes : HostsAlpha(p)} \ {video, uiPlane, pref.ui}
    IN  IF pref.flow # NoPlane THEN Preferred(pref.flow, candidates)
                               ELSE AutoFlow(Enumerated(candidates))

\* choose_ui_plane, for the video and Flow planes chosen so far.
UiChoice(video, flow) ==
    LET candidates == {p \in board.alpha \ {video, flow} :
                          Supports(p, "argb") /\ (board.rk3588 \/ ~VideoCapable(p))}
    IN  IF pref.ui # NoPlane THEN Preferred(pref.ui, candidates)
                             ELSE First(Enumerated(candidates))

----
(* commit. *)

\* The Flow plane is programmed with each new framebuffer.
ShowFlow(shown, flow) == [shown EXCEPT ![flow] = "flow"]

\* The UI plane is programmed by the first commit only.
ShowUi(shown, ui) == IF ~modeset /\ ui # NoPlane THEN [shown EXCEPT ![ui] = "ui"] ELSE shown

\* The primary plane is programmed by the first commit, and while it shows video.
ShowVideo(shown, hasVideo, video) ==
    [p \in Planes \cup {Primary} |->
        IF p = video /\ hasVideo THEN "video"
        ELSE CASE p = Primary /\ ~modeset -> "black"
               [] p = video /\ p # Primary -> "off"
               [] OTHER -> shown[p]]

\* Properties of a plane set twice in one request keep the later value.
Commit(shown, hasVideo, video, flow, ui, newFlow) ==
    LET withVideo == ShowVideo(shown, hasVideo, video)
        withFlow == IF newFlow THEN ShowFlow(withVideo, flow) ELSE withVideo
    IN  /\ onPlane' = ShowUi(withFlow, ui)
        /\ modeset' = TRUE
        /\ flowReady' = (flowReady \/ newFlow)

\* Flow and UI planes are chosen when they are missing; without a Flow plane
\* the present fails, without a UI plane the UI overlay is given up.
ChooseOverlays(video) ==
    /\ flowPlane' = IF flowPlane = NoPlane THEN FlowChoice(video) ELSE flowPlane
    /\ IF flowPlane' # NoPlane /\ uiWanted /\ uiPlane = NoPlane
       THEN uiPlane' = UiChoice(video, flowPlane') /\ uiWanted' = (uiPlane' # NoPlane)
       ELSE UNCHANGED <<uiPlane, uiWanted>>

Fail(why, shown) == error' = why /\ onPlane' = shown /\ UNCHANGED <<modeset, flowReady>>

\* The kernel rejects the request, or a framebuffer cannot be made.
CommitOrFail(shown, hasVideo, newFlow) ==
    \/ /\ Commit(shown, hasVideo, videoPlane', flowPlane', uiPlane', newFlow)
       /\ error' = "none"
    \/ Fail("commit", shown)

\* present_overlay: video is kept if there is any.
PresentOverlay ==
    /\ error = "none" /\ overlays
    /\ UNCHANGED <<optionVars, videoPlane, videoFormat>>
    /\ ChooseOverlays(videoPlane)
    /\ IF flowPlane' = NoPlane THEN Fail("flow", onPlane)
       ELSE \E newFlow \in BOOLEAN :
                CommitOrFail(onPlane, videoFormat # "none", newFlow)

\* destroy_video_framebuffer_cache, before a video plane is chosen again:
\* removing a framebuffer takes it off its plane.
DropVideo(fmt) ==
    [p \in Planes \cup {Primary} |->
        IF onPlane[p] = "video" /\ videoFormat # fmt THEN "off" ELSE onPlane[p]]

\* present of a frame in format fmt.  The waiting overlay is presented first
\* when there is one.
PresentVideo(fmt) ==
    /\ error = "none" /\ (overlays => modeset)
    /\ UNCHANGED optionVars
    /\ videoPlane' = IF videoFormat = fmt THEN videoPlane ELSE VideoChoice(fmt)
    /\ videoFormat' = fmt
    /\ IF videoPlane' = NoPlane
       THEN Fail("video", DropVideo(fmt)) /\ UNCHANGED <<flowPlane, uiPlane, uiWanted>>
       ELSE /\ ChooseOverlays(videoPlane')
            /\ IF flowPlane' = NoPlane THEN Fail("flow", DropVideo(fmt))
               ELSE \E newFlow \in BOOLEAN : CommitOrFail(DropVideo(fmt), TRUE, newFlow)

Ended == error # "none" /\ UNCHANGED vars

Next ==
    \/ PresentOverlay
    \/ source = "dmabuf" /\ \E fmt \in DmabufFormats : PresentVideo(fmt)
    \/ source = "cpu" /\ PresentVideo("xrgb")
    \/ Ended

Spec == Init /\ [][Next]_vars

----
(* Properties. *)

\* Every variable holds a value the code can give it.
TypeOK ==
    /\ board \in AllBoards /\ pref \in AllPrefs
    /\ source \in {"dmabuf", "cpu"}
    /\ {overlays, uiWanted, modeset, flowReady} \subseteq BOOLEAN
    /\ videoPlane \in Planes \cup {Primary, NoPlane}
    /\ videoFormat \in VideoFormats \cup {"none"}
    /\ {flowPlane, uiPlane} \subseteq Planes \cup {NoPlane}
    /\ onPlane \in [Planes \cup {Primary} -> Layers]
    /\ error \in {"none", "video", "flow", "commit"}

Running == error = "none"

\* Once committed, a Flow frame stays on the Flow plane, and a video frame stays
\* on screen until the next one and on one plane only: no later choice of a
\* plane, whatever the preferences, programs another layer over it, no overlay
\* commit takes it off, and a frame in another format does not leave the last
\* picture of the previous one behind (choose_*_plane, commit,
\* destroy_video_framebuffer_cache).
LayersKeepPlanes ==
    /\ TypeOK
    /\ Running /\ flowReady => onPlane[flowPlane] = "flow"
    /\ Running /\ videoFormat # "none" => onPlane[videoPlane] = "video"
    /\ Cardinality({p \in DOMAIN onPlane : onPlane[p] = "video"}) <= 1

\* Without preferences, the Flow and UI overlays never cost the program its
\* video: choose_flow_plane, called before the first frame arrives, leaves a
\* plane to the video unless every plane that can host it can scan out video.
FlowSparesVideo ==
    error = "video" /\ pref.video = NoPlane /\ pref.flow = NoPlane /\ pref.ui = NoPlane
        => \A p \in board.auto : Supports(p, videoFormat) =>
              /\ p = flowPlane
              /\ \A q \in board.auto : HostsAlpha(q) => VideoCapable(q)

====

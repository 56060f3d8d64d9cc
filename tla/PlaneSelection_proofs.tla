---- MODULE PlaneSelection_proofs ----
(***************************************************************************)
(* Theorems about PlaneSelection, for any number of planes and any set of  *)
(* boards and command lines.  PlaneInv is the inductive invariant.         *)
(***************************************************************************)
EXTENDS PlaneSelection, TLAPS, FiniteSetTheorems

USE NumPlanesAssumption DEF NumPlanesAssumption

----
(* The first and the last of a set of planes. *)

LessThan == {pair \in Nat \X Nat : pair[1] < pair[2]}

LEMMA Smallest ==
  ASSUME NEW S \in SUBSET Nat, S # {}
  PROVE  \E x \in S : \A y \in S : x <= y
<1>1. LessThan = OpToRel(<, Nat)
  BY DEF LessThan, OpToRel
<1>2. IsWellFoundedOn(LessThan, Nat)
  BY <1>1, NatLessThanWellFounded
<1> HIDE DEF LessThan
<1>3. PICK x \in S : \A y \in S : ~(<<y, x>> \in LessThan)
  BY <1>2, WFMin
<1>4. \A y \in S : ~(y < x)
  BY <1>3 DEF LessThan
<1>5. \A y \in S : x <= y
  BY <1>4
<1> QED BY <1>5

LEMMA FirstPlane ==
  ASSUME NEW S \in SUBSET Planes, S # {}
  PROVE  Min(S) \in S
<1>1. S \subseteq Nat
  BY DEF Planes
<1>2. PICK x \in S : \A y \in S : x <= y
  BY <1>1, Smallest
<1> QED BY <1>2 DEF Min

LEMMA LastPlane ==
  ASSUME NEW S \in SUBSET Planes, S # {}
  PROVE  Max(S) \in S
<1> DEFINE T == {NumPlanes - p : p \in S}
<1>1. T \subseteq Nat /\ T # {}
  BY DEF Planes
<1>2. PICK t \in T : \A y \in T : t <= y
  BY <1>1, Smallest
<1>3. PICK p \in S : \A q \in S : NumPlanes - p <= NumPlanes - q
  BY <1>2
<1>4. \A q \in S : p >= q
  BY <1>3 DEF Planes
<1> QED BY <1>4 DEF Max

----
(* The inductive invariant. *)

\* What the choices so far leave true of the planes chosen.
ChoiceInv ==
    /\ flowPlane # NoPlane => HostsAlpha(flowPlane) /\ flowPlane \notin {videoPlane, uiPlane}
    /\ flowPlane = NoPlane => uiPlane = NoPlane
    /\ videoPlane # NoPlane => Supports(videoPlane, videoFormat)
    /\ videoFormat \in {"none"} \cup (IF source = "dmabuf" THEN DmabufFormats ELSE {"xrgb"})
    /\ Running => (videoPlane = NoPlane <=> videoFormat = "none")
    /\ Running /\ ~modeset => flowPlane = NoPlane /\ videoPlane = NoPlane /\ ~flowReady

\* What the planes show.
ShownInv ==
    /\ Running /\ flowReady => flowPlane # NoPlane /\ onPlane[flowPlane] = "flow"
    /\ Running /\ videoFormat # "none" => onPlane[videoPlane] = "video"
    /\ Running => \A p \in DOMAIN onPlane : onPlane[p] = "video" => p = videoPlane
    /\ \A p, q \in DOMAIN onPlane : onPlane[p] = "video" /\ onPlane[q] = "video" => p = q

NoPreferences == pref.video = NoPlane /\ pref.flow = NoPlane /\ pref.ui = NoPlane

\* Flow took a plane that cannot show video, or every plane it could take can.
FlowModest ==
    \/ ~VideoCapable(flowPlane)
    \/ \A q \in board.auto : HostsAlpha(q) => VideoCapable(q)

SpareInv ==
    /\ "xrgb" \in board.caps[Primary]
    /\ NoPreferences /\ source = "dmabuf" /\ flowPlane # NoPlane => FlowModest
    /\ FlowSparesVideo

PlaneInv == TypeOK /\ ChoiceInv /\ ShownInv /\ SpareInv

PlaneOrNone == Planes \cup {NoPlane}
AnyPlane == Planes \cup {Primary, NoPlane}

\* Plane ids: the primary plane is none of the others and 0 is none at all.
LEMMA PlaneIds == NoPlane \notin Planes /\ Primary \notin Planes /\ Primary # NoPlane
BY DEF NoPlane, Planes, Primary

LEMMA FirstOf ==
  ASSUME NEW S \in SUBSET Planes
  PROVE  /\ First(S) \in S \cup {NoPlane} /\ (First(S) = NoPlane => S = {})
         /\ Last(S) \in S \cup {NoPlane} /\ (Last(S) = NoPlane => S = {})
<1>1. CASE S = {}
  BY <1>1 DEF First, Last
<1>2. CASE S # {}
  <2>1. Min(S) \in S /\ Max(S) \in S
    BY <1>2, FirstPlane, LastPlane
  <2> QED BY <1>2, <2>1, PlaneIds DEF First, Last
<1> QED BY <1>1, <1>2

LEMMA BoardParts ==
  ASSUME TypeOK
  PROVE  /\ board.auto \subseteq Planes /\ board.alpha \subseteq Planes
         /\ pref.video \in AnyPlane /\ pref.flow \in AnyPlane /\ pref.ui \in AnyPlane
BY DEF TypeOK, AllBoards, AllPrefs, PlanePrefs, AnyPlane

\* choose_video_plane takes a plane with the format that Flow does not have, and
\* fails without a preference only when neither the primary plane nor a plane not
\* taken by Flow has the format.
LEMMA VideoChoiceTakes ==
  ASSUME TypeOK, NEW fmt
  PROVE  /\ VideoChoice(fmt) \in AnyPlane
         /\ VideoChoice(fmt) # NoPlane =>
               Supports(VideoChoice(fmt), fmt) /\ VideoChoice(fmt) # flowPlane
         /\ VideoChoice(fmt) = NoPlane /\ pref.video = NoPlane =>
               /\ ~Supports(Primary, fmt)
               /\ \A p \in board.auto : Supports(p, fmt) => p \in {flowPlane, pref.flow}
<1>0. board.auto \subseteq Planes /\ pref.video \in AnyPlane /\ flowPlane \in PlaneOrNone
  BY BoardParts DEF TypeOK, PlaneOrNone
<1> DEFINE C == VideoCandidates(fmt)
           overlay == First(Enumerated(C))
           primary == IF Supports(Primary, fmt) THEN Primary ELSE NoPlane
<1>1. C \subseteq Planes /\ flowPlane \notin C /\ \A p \in C : Supports(p, fmt)
  BY DEF VideoCandidates
<1>2. Enumerated(C) \subseteq C
  BY DEF Enumerated
<1>3. overlay \in C \cup {NoPlane} /\ (overlay = NoPlane => Enumerated(C) = {})
  BY <1>1, <1>2, FirstOf
<1>4. CASE pref.video = Primary
  <2>1. VideoChoice(fmt) = primary
    BY <1>4, PlaneIds DEF VideoChoice
  <2> QED BY <1>0, <1>4, <2>1, PlaneIds DEF AnyPlane, PlaneOrNone
<1>5. CASE pref.video \in Planes
  <2>1. VideoChoice(fmt) = Preferred(pref.video, C)
    BY <1>5, PlaneIds DEF VideoChoice
  <2> QED BY <1>1, <1>5, <2>1, PlaneIds DEF Preferred, AnyPlane
<1>6. CASE pref.video = NoPlane
  <2>1. VideoChoice(fmt) = IF overlay # NoPlane THEN overlay ELSE primary
    BY <1>6, PlaneIds DEF VideoChoice
  <2>2. VideoChoice(fmt) = NoPlane =>
               /\ ~Supports(Primary, fmt)
               /\ \A p \in board.auto : Supports(p, fmt) => p \in {flowPlane, pref.flow}
    BY <1>0, <1>3, <2>1, PlaneIds DEF Enumerated, VideoCandidates
  <2>3. CASE overlay # NoPlane
    BY <1>1, <1>3, <2>1, <2>2, <2>3 DEF AnyPlane
  <2>4. CASE overlay = NoPlane
    BY <1>0, <2>1, <2>2, <2>4, PlaneIds DEF AnyPlane, PlaneOrNone
  <2> QED BY <2>3, <2>4
<1> QED BY <1>0, <1>4, <1>5, <1>6 DEF AnyPlane

\* choose_flow_plane takes a plane that can blend and that no other layer has; without
\* preferences it takes one that cannot show video if there is one.
LEMMA FlowChoiceTakes ==
  ASSUME TypeOK, NEW video
  PROVE  /\ FlowChoice(video) \in PlaneOrNone
         /\ FlowChoice(video) # NoPlane =>
               HostsAlpha(FlowChoice(video)) /\ FlowChoice(video) \notin {video, uiPlane}
         /\ NoPreferences /\ uiPlane = NoPlane /\ FlowChoice(video) # NoPlane =>
               \/ ~VideoCapable(FlowChoice(video))
               \/ \A q \in board.auto \ {video} : HostsAlpha(q) => VideoCapable(q)
<1>0. board.auto \subseteq Planes
  BY BoardParts
<1> DEFINE C == {p \in Planes : HostsAlpha(p)} \ {video, uiPlane, pref.ui}
           A == Enumerated(C)
           G == {p \in A : ~VideoCapable(p)}
<1>1. A \subseteq Planes /\ A \subseteq C /\ G \subseteq A
  BY DEF Enumerated
<1>2. FlowChoice(video) = IF pref.flow # NoPlane THEN Preferred(pref.flow, C) ELSE AutoFlow(A)
  BY DEF FlowChoice
<1>3. AutoFlow(A) = IF G # {} THEN First(G) ELSE Last(A)
  BY DEF AutoFlow
<1>4. /\ First(G) \in G \cup {NoPlane} /\ (First(G) = NoPlane => G = {})
      /\ Last(A) \in A \cup {NoPlane}
  BY <1>1, FirstOf
<1>5. FlowChoice(video) \in C \cup {NoPlane}
  BY <1>1, <1>2, <1>3, <1>4 DEF Preferred
<1>6. ASSUME NoPreferences, uiPlane = NoPlane, FlowChoice(video) # NoPlane
      PROVE  \/ ~VideoCapable(FlowChoice(video))
             \/ \A q \in board.auto \ {video} : HostsAlpha(q) => VideoCapable(q)
  <2>1. FlowChoice(video) = IF G # {} THEN First(G) ELSE Last(A)
    BY <1>2, <1>3, <1>6 DEF NoPreferences
  <2>2. CASE G # {}
    BY <1>4, <1>6, <2>1, <2>2
  <2>3. CASE G = {}
    <3> SUFFICES ASSUME NEW q \in board.auto \ {video}, HostsAlpha(q) PROVE VideoCapable(q)
      OBVIOUS
    <3>1. q \in Planes /\ q # NoPlane
      BY <1>0, PlaneIds
    <3>2. q \in A
      BY <1>6, <3>1 DEF Enumerated, NoPreferences
    <3> QED BY <2>3, <3>2
  <2> QED BY <2>2, <2>3
<1>7. \A p \in C : p \in Planes /\ HostsAlpha(p) /\ p \notin {video, uiPlane}
  OBVIOUS
<1> HIDE DEF C, A, G
<1> QED BY <1>5, <1>6, <1>7 DEF PlaneOrNone

\* choose_ui_plane takes a plane that neither the video nor Flow has.
LEMMA UiChoiceTakes ==
  ASSUME TypeOK, NEW video, NEW flow
  PROVE  /\ UiChoice(video, flow) \in PlaneOrNone
         /\ UiChoice(video, flow) # NoPlane => UiChoice(video, flow) \notin {video, flow}
<1>0. board.alpha \subseteq Planes
  BY BoardParts
<1> DEFINE C == {p \in board.alpha \ {video, flow} :
                    Supports(p, "argb") /\ (board.rk3588 \/ ~VideoCapable(p))}
<1>1. C \subseteq Planes /\ C \cap {video, flow} = {} /\ Enumerated(C) \subseteq C
  BY <1>0 DEF Enumerated
<1>2. UiChoice(video, flow) = IF pref.ui # NoPlane THEN Preferred(pref.ui, C) ELSE First(Enumerated(C))
  BY DEF UiChoice
<1> HIDE DEF C
<1>3. Enumerated(C) \in SUBSET Planes
  BY <1>1
<1>4. First(Enumerated(C)) \in C \cup {NoPlane}
  BY <1>1, <1>3, FirstOf
<1>5. UiChoice(video, flow) \in C \cup {NoPlane}
  BY <1>2, <1>4 DEF Preferred
<1> QED BY <1>1, <1>5 DEF PlaneOrNone

\* The planes the overlays have after ChooseOverlays.
LEMMA OverlaysChosen ==
  ASSUME TypeOK, ChoiceInv, UNCHANGED optionVars, NEW video,
         flowPlane # NoPlane => flowPlane # video, ChooseOverlays(video)
  PROVE  /\ flowPlane' \in PlaneOrNone /\ uiPlane' \in PlaneOrNone /\ uiWanted' \in BOOLEAN
         /\ flowPlane' # NoPlane => HostsAlpha(flowPlane') /\ flowPlane' \notin {video, uiPlane'}
         /\ flowPlane' = NoPlane => uiPlane' = NoPlane
         /\ uiPlane = NoPlane /\ uiPlane' # NoPlane => uiPlane' # video
         /\ flowPlane # NoPlane => flowPlane' = flowPlane
         /\ NoPreferences /\ flowPlane = NoPlane /\ flowPlane' # NoPlane =>
               \/ ~VideoCapable(flowPlane')
               \/ \A q \in board.auto \ {video} : HostsAlpha(q) => VideoCapable(q)
<1>0. /\ flowPlane \in PlaneOrNone /\ uiPlane \in PlaneOrNone /\ uiWanted \in BOOLEAN
      /\ flowPlane # NoPlane => HostsAlpha(flowPlane) /\ flowPlane # uiPlane
      /\ flowPlane = NoPlane => uiPlane = NoPlane
  BY DEF TypeOK, ChoiceInv, PlaneOrNone
<1>1. /\ flowPlane' = IF flowPlane = NoPlane THEN FlowChoice(video) ELSE flowPlane
      /\ \/ /\ flowPlane' # NoPlane /\ uiPlane = NoPlane
            /\ uiPlane' = UiChoice(video, flowPlane') /\ uiWanted' = (uiPlane' # NoPlane)
         \/ UNCHANGED <<uiPlane, uiWanted>>
  BY DEF ChooseOverlays
<1>2. /\ FlowChoice(video) \in PlaneOrNone
      /\ FlowChoice(video) # NoPlane =>
            HostsAlpha(FlowChoice(video)) /\ FlowChoice(video) \notin {video, uiPlane}
      /\ NoPreferences /\ uiPlane = NoPlane /\ FlowChoice(video) # NoPlane =>
            \/ ~VideoCapable(FlowChoice(video))
            \/ \A q \in board.auto \ {video} : HostsAlpha(q) => VideoCapable(q)
  BY FlowChoiceTakes
<1>3. /\ UiChoice(video, flowPlane') \in PlaneOrNone
      /\ UiChoice(video, flowPlane') # NoPlane => UiChoice(video, flowPlane') \notin {video, flowPlane'}
  BY UiChoiceTakes
<1>4. /\ flowPlane' \in PlaneOrNone
      /\ flowPlane' # NoPlane => HostsAlpha(flowPlane') /\ flowPlane' \notin {video, uiPlane}
  BY <1>0, <1>1, <1>2
<1>5. /\ uiPlane' \in PlaneOrNone /\ uiWanted' \in BOOLEAN
      /\ flowPlane' # NoPlane => flowPlane' # uiPlane'
      /\ flowPlane' = NoPlane => uiPlane' = NoPlane
      /\ uiPlane = NoPlane /\ uiPlane' # NoPlane => uiPlane' # video
  BY <1>0, <1>1, <1>3, <1>4
<1>6. /\ flowPlane # NoPlane => flowPlane' = flowPlane
      /\ NoPreferences /\ flowPlane = NoPlane /\ flowPlane' # NoPlane =>
               \/ ~VideoCapable(flowPlane')
               \/ \A q \in board.auto \ {video} : HostsAlpha(q) => VideoCapable(q)
  BY <1>0, <1>1, <1>2
<1> QED BY <1>4, <1>5, <1>6

\* No two planes show the video.
OneVideo(shown) ==
    \A p, q \in Planes \cup {Primary} : shown[p] = "video" /\ shown[q] = "video" => p = q

\* commit, or its failure: where the layers are afterwards.
LEMMA Committed ==
  ASSUME TypeOK, NEW shown \in [Planes \cup {Primary} -> Layers], OneVideo(shown),
         NEW hasVideo \in BOOLEAN, NEW newFlow \in BOOLEAN,
         flowPlane' \in Planes, uiPlane' \in PlaneOrNone, videoPlane' \in AnyPlane,
         flowPlane' \notin {videoPlane', uiPlane'},
         ~modeset /\ uiPlane' # NoPlane => uiPlane' # videoPlane',
         hasVideo <=> videoPlane' # NoPlane,
         \A p \in Planes \cup {Primary} : shown[p] = "video" => p = videoPlane',
         ~modeset => ~flowReady,
         flowReady => shown[flowPlane'] = "flow",
         CommitOrFail(shown, hasVideo, newFlow)
  PROVE  /\ onPlane' \in [Planes \cup {Primary} -> Layers] /\ OneVideo(onPlane')
         /\ modeset' \in BOOLEAN /\ flowReady' \in BOOLEAN /\ error' \in {"none", "commit"}
         /\ error' = "none" =>
               /\ modeset' = TRUE
               /\ flowReady' => onPlane'[flowPlane'] = "flow"
               /\ hasVideo => onPlane'[videoPlane'] = "video"
               /\ \A p \in Planes \cup {Primary} : onPlane'[p] = "video" => p = videoPlane'
<1> DEFINE All == Planes \cup {Primary}
           withVideo == ShowVideo(shown, hasVideo, videoPlane')
           withFlow == IF newFlow THEN ShowFlow(withVideo, flowPlane') ELSE withVideo
           withUi == ShowUi(withFlow, uiPlane')
<1>1. CASE Fail("commit", shown)
  BY <1>1 DEF Fail, TypeOK
<1>2. CASE /\ Commit(shown, hasVideo, videoPlane', flowPlane', uiPlane', newFlow)
           /\ error' = "none"
  <2>1. /\ onPlane' = withUi /\ modeset' = TRUE /\ flowReady' = (flowReady \/ newFlow)
        /\ error' = "none"
    BY <1>2 DEF Commit
  <2>2. /\ withVideo \in [All -> Layers]
        /\ \A p \in All : withVideo[p] = "video" => p = videoPlane'
        /\ hasVideo => withVideo[videoPlane'] = "video"
        /\ flowReady => withVideo[flowPlane'] = "flow"
    <3>1. ASSUME NEW p \in All
          PROVE  withVideo[p] \in IF p = videoPlane' /\ hasVideo THEN {"video"} ELSE {"black", "off", shown[p]}
      BY DEF ShowVideo
    <3>2. withVideo = [p \in All |-> withVideo[p]]
      BY DEF ShowVideo
    <3>3. \A p \in All : withVideo[p] \in Layers /\ (withVideo[p] = "video" => p = videoPlane')
      BY <3>1 DEF Layers
    <3>4. hasVideo => withVideo[videoPlane'] = "video"
      BY <3>1, PlaneIds DEF AnyPlane
    <3>5. flowReady => withVideo[flowPlane'] = "flow"
      BY PlaneIds DEF ShowVideo
    <3> HIDE DEF withVideo
    <3> QED BY <3>2, <3>3, <3>4, <3>5
  <2>3. /\ withFlow \in [All -> Layers]
        /\ \A p \in All : withFlow[p] = "video" => p = videoPlane'
        /\ hasVideo => withFlow[videoPlane'] = "video"
        /\ flowReady \/ newFlow => withFlow[flowPlane'] = "flow"
    BY <2>2, PlaneIds DEF ShowFlow, Layers, AnyPlane
  <2>4. /\ withUi \in [All -> Layers]
        /\ \A p \in All : withUi[p] = "video" => p = videoPlane'
        /\ hasVideo => withUi[videoPlane'] = "video"
        /\ flowReady \/ newFlow => withUi[flowPlane'] = "flow"
    BY <2>3, PlaneIds DEF ShowUi, Layers, AnyPlane, PlaneOrNone
  <2> HIDE DEF withUi
  <2> QED BY <2>1, <2>4 DEF OneVideo
<1> QED BY <1>1, <1>2 DEF CommitOrFail

LEMMA PlaneInit == Init => PlaneInv
<1> SUFFICES ASSUME Init PROVE PlaneInv
  OBVIOUS
<1>1. PICK setup \in Setups : board = setup.board /\ pref = setup.pref
  BY DEF Init
<1>2. board \in AllBoards /\ pref \in AllPrefs /\ "xrgb" \in board.caps[Primary]
  BY <1>1, SetupsAssumption, PrimaryAssumption
<1>3. TypeOK
  <2>1. onPlane \in [Planes \cup {Primary} -> Layers]
    BY DEF Init, Layers
  <2>2. source \in {"dmabuf", "cpu"} /\ {overlays, uiWanted, modeset, flowReady} \subseteq BOOLEAN
    BY DEF Init
  <2>3. /\ videoPlane = NoPlane /\ flowPlane = NoPlane /\ uiPlane = NoPlane
        /\ videoFormat = "none" /\ error = "none"
    BY DEF Init
  <2> QED BY <1>2, <2>1, <2>2, <2>3 DEF TypeOK
<1>4. ChoiceInv
  BY DEF Init, ChoiceInv
<1>5. ShownInv
  <2>1. \A p \in DOMAIN onPlane : onPlane[p] # "video"
    BY DEF Init
  <2> QED BY <2>1 DEF Init, ShownInv
<1>6. SpareInv
  BY <1>2 DEF Init, SpareInv, FlowSparesVideo
<1> QED BY <1>3, <1>4, <1>5, <1>6 DEF PlaneInv

\* What is reported of the boards does not change.
LEMMA BoardFixed ==
  ASSUME UNCHANGED optionVars
  PROVE  /\ UNCHANGED <<board, pref, source, overlays, NoPreferences>>
         /\ \A p : HostsAlpha(p)' = HostsAlpha(p) /\ VideoCapable(p)' = VideoCapable(p)
         /\ \A p, fmt : Supports(p, fmt)' = Supports(p, fmt)
BY DEF optionVars, NoPreferences, HostsAlpha, VideoCapable, Supports

\* The invariant after a present, from what the choices and commit establish.
LEMMA PresentStep ==
  ASSUME PlaneInv, Running, UNCHANGED optionVars, NEW video \in AnyPlane, videoPlane' = video,
         NEW fmt \in VideoFormats \cup {"none"}, videoFormat' = fmt,
         fmt \in {"none"} \cup (IF source = "dmabuf" THEN DmabufFormats ELSE {"xrgb"}),
         video # NoPlane => Supports(video, fmt) /\ fmt # "none",
         flowPlane # NoPlane => flowPlane # video,
         ChooseOverlays(video),
         NEW shown \in [Planes \cup {Primary} -> Layers], OneVideo(shown),
         \A p \in Planes \cup {Primary} : shown[p] = "video" => p = video,
         flowReady => flowPlane # NoPlane /\ shown[flowPlane] = "flow",
         \/ flowPlane' = NoPlane /\ Fail("flow", shown)
         \/ /\ flowPlane' # NoPlane /\ (fmt = "none" <=> video = NoPlane)
            /\ \E newFlow \in BOOLEAN : CommitOrFail(shown, fmt # "none", newFlow)
  PROVE  PlaneInv'
<1> DEFINE All == Planes \cup {Primary}
<1>b. /\ UNCHANGED <<board, pref, source, overlays, NoPreferences>>
      /\ \A p : HostsAlpha(p)' = HostsAlpha(p) /\ VideoCapable(p)' = VideoCapable(p)
      /\ \A p, f : Supports(p, f)' = Supports(p, f)
  BY BoardFixed
<1>t. TypeOK /\ ChoiceInv
  BY DEF PlaneInv
<1>1. /\ flowPlane' \in PlaneOrNone /\ uiPlane' \in PlaneOrNone /\ uiWanted' \in BOOLEAN
      /\ flowPlane' # NoPlane => HostsAlpha(flowPlane') /\ flowPlane' \notin {video, uiPlane'}
      /\ flowPlane' = NoPlane => uiPlane' = NoPlane
      /\ uiPlane = NoPlane /\ uiPlane' # NoPlane => uiPlane' # video
      /\ flowPlane # NoPlane => flowPlane' = flowPlane
      /\ NoPreferences /\ flowPlane = NoPlane /\ flowPlane' # NoPlane =>
               \/ ~VideoCapable(flowPlane')
               \/ \A q \in board.auto \ {video} : HostsAlpha(q) => VideoCapable(q)
  BY <1>t, OverlaysChosen
<1>2. ~modeset => uiPlane = NoPlane /\ ~flowReady
  BY <1>t DEF ChoiceInv
<1>3. /\ onPlane' \in [All -> Layers] /\ OneVideo(onPlane')
      /\ modeset' \in BOOLEAN /\ flowReady' \in BOOLEAN /\ error' \in {"none", "flow", "commit"}
      /\ error' = "none" =>
            /\ modeset' = TRUE /\ flowPlane' # NoPlane
            /\ fmt = "none" <=> video = NoPlane
            /\ flowReady' => onPlane'[flowPlane'] = "flow"
            /\ fmt # "none" => onPlane'[video] = "video"
            /\ \A p \in All : onPlane'[p] = "video" => p = video
  <2>1. CASE Fail("flow", shown)
    BY <1>t, <2>1 DEF Fail, TypeOK
  <2>2. CASE /\ flowPlane' # NoPlane /\ (fmt = "none" <=> video = NoPlane)
             /\ \E newFlow \in BOOLEAN : CommitOrFail(shown, fmt # "none", newFlow)
    <3>1. PICK newFlow \in BOOLEAN : CommitOrFail(shown, fmt # "none", newFlow)
      BY <2>2
    <3>2. /\ flowPlane' \in Planes /\ flowPlane' \notin {videoPlane', uiPlane'}
          /\ ~modeset /\ uiPlane' # NoPlane => uiPlane' # videoPlane'
          /\ flowReady => shown[flowPlane'] = "flow"
      BY <1>1, <1>2, <2>2 DEF PlaneOrNone
    <3>3. /\ (fmt # "none") \in BOOLEAN /\ ((fmt # "none") <=> videoPlane' # NoPlane)
          /\ videoPlane' \in AnyPlane
          /\ \A p \in Planes \cup {Primary} : shown[p] = "video" => p = videoPlane'
      BY <2>2
    <3>4. /\ onPlane' \in [Planes \cup {Primary} -> Layers] /\ OneVideo(onPlane')
          /\ modeset' \in BOOLEAN /\ flowReady' \in BOOLEAN /\ error' \in {"none", "commit"}
          /\ error' = "none" =>
                /\ modeset' = TRUE
                /\ flowReady' => onPlane'[flowPlane'] = "flow"
                /\ fmt # "none" => onPlane'[videoPlane'] = "video"
                /\ \A p \in Planes \cup {Primary} : onPlane'[p] = "video" => p = videoPlane'
      BY <1>t, <1>1, <1>2, <3>1, <3>2, <3>3, Committed
    <3> QED BY <2>2, <3>4
  <2> QED BY <2>1, <2>2
<1>4. TypeOK'
  <2>1. {flowPlane, uiPlane}' \subseteq Planes \cup {NoPlane} /\ videoPlane' \in Planes \cup {Primary, NoPlane}
    BY <1>1 DEF PlaneOrNone, AnyPlane
  <2>2. {overlays, uiWanted, modeset, flowReady}' \subseteq BOOLEAN
    BY <1>b, <1>t, <1>1, <1>3 DEF TypeOK
  <2> QED BY <1>b, <1>t, <1>3, <2>1, <2>2 DEF TypeOK
<1>5. ChoiceInv'
  BY <1>b, <1>1, <1>3 DEF ChoiceInv, Running
<1>6. ShownInv'
  <2>1. DOMAIN onPlane' = All
    BY <1>3
  <2> QED BY <1>1, <1>3, <2>1 DEF ShownInv, OneVideo, Running
<1>7. SpareInv'
  <2>1. "xrgb" \in board.caps[Primary]
    BY DEF PlaneInv, SpareInv
  <2>2. ASSUME NoPreferences, source = "dmabuf", flowPlane' # NoPlane
        PROVE  \/ ~VideoCapable(flowPlane')
               \/ \A q \in board.auto : HostsAlpha(q) => VideoCapable(q)
    <3>1. CASE flowPlane # NoPlane
      BY <1>1, <2>2, <3>1 DEF PlaneInv, SpareInv, FlowModest
    <3>2. CASE flowPlane = NoPlane
      <4>1. \/ ~VideoCapable(flowPlane')
            \/ \A q \in board.auto \ {video} : HostsAlpha(q) => VideoCapable(q)
        BY <1>1, <2>2, <3>2
      <4>2. video # NoPlane => VideoCapable(video)
        BY <2>2 DEF VideoCapable
      <4>3. NoPlane \notin board.auto
        BY <1>t, BoardParts, PlaneIds
      <4> QED BY <4>1, <4>2, <4>3
    <3> QED BY <3>1, <3>2
  <2>3. FlowModest' = \/ ~VideoCapable(flowPlane')
                      \/ \A q \in board.auto : HostsAlpha(q) => VideoCapable(q)
    BY <1>b DEF FlowModest, VideoCapable, HostsAlpha, Supports
  <2>4. error' # "video"
    BY <1>3
  <2> QED BY <1>b, <2>1, <2>2, <2>3, <2>4 DEF SpareInv, FlowSparesVideo
<1> QED BY <1>4, <1>5, <1>6, <1>7 DEF PlaneInv

LEMMA OverlayStep == PlaneInv /\ PresentOverlay => PlaneInv'
<1> SUFFICES ASSUME PlaneInv, PresentOverlay PROVE PlaneInv'
  OBVIOUS
<1>1. /\ Running /\ UNCHANGED optionVars /\ videoPlane' = videoPlane /\ videoFormat' = videoFormat
      /\ ChooseOverlays(videoPlane)
      /\ \/ flowPlane' = NoPlane /\ Fail("flow", onPlane)
         \/ /\ flowPlane' # NoPlane
            /\ \E newFlow \in BOOLEAN : CommitOrFail(onPlane, videoFormat # "none", newFlow)
  BY DEF PresentOverlay, Running
<1>2. /\ videoPlane \in AnyPlane /\ videoFormat \in VideoFormats \cup {"none"}
      /\ onPlane \in [Planes \cup {Primary} -> Layers]
  BY DEF PlaneInv, TypeOK, AnyPlane
<1>3. DOMAIN onPlane = Planes \cup {Primary}
  BY <1>2
<1>4. /\ OneVideo(onPlane)
      /\ \A p \in Planes \cup {Primary} : onPlane[p] = "video" => p = videoPlane
      /\ flowReady => flowPlane # NoPlane /\ onPlane[flowPlane] = "flow"
  BY <1>1, <1>3 DEF PlaneInv, ShownInv, OneVideo
<1>5. /\ videoFormat \in {"none"} \cup (IF source = "dmabuf" THEN DmabufFormats ELSE {"xrgb"})
      /\ videoPlane # NoPlane => Supports(videoPlane, videoFormat) /\ videoFormat # "none"
      /\ videoFormat = "none" <=> videoPlane = NoPlane
      /\ flowPlane # NoPlane => flowPlane # videoPlane
  BY <1>1 DEF PlaneInv, ChoiceInv
<1> QED BY <1>1, <1>2, <1>4, <1>5, PresentStep

\* After DropVideo no plane shows a frame of another format.
LEMMA Dropped ==
  ASSUME PlaneInv, Running, NEW fmt
  PROVE  /\ DropVideo(fmt) \in [Planes \cup {Primary} -> Layers] /\ OneVideo(DropVideo(fmt))
         /\ \A p \in Planes \cup {Primary} :
               DropVideo(fmt)[p] = "video" => videoFormat = fmt /\ p = videoPlane
         /\ flowReady => flowPlane # NoPlane /\ DropVideo(fmt)[flowPlane] = "flow"
<1>1. onPlane \in [Planes \cup {Primary} -> Layers] /\ DOMAIN onPlane = Planes \cup {Primary}
  BY DEF PlaneInv, TypeOK
<1>2. \A p \in Planes \cup {Primary} :
         DropVideo(fmt)[p] = IF onPlane[p] = "video" /\ videoFormat # fmt THEN "off" ELSE onPlane[p]
  BY DEF DropVideo
<1>3. DropVideo(fmt) \in [Planes \cup {Primary} -> Layers]
  BY <1>1 DEF DropVideo, Layers
<1>4. \A p \in Planes \cup {Primary} :
         DropVideo(fmt)[p] = "video" => videoFormat = fmt /\ p = videoPlane
  BY <1>1, <1>2 DEF PlaneInv, ShownInv
<1>5. flowReady => flowPlane # NoPlane /\ DropVideo(fmt)[flowPlane] = "flow"
  <2> SUFFICES ASSUME flowReady PROVE flowPlane # NoPlane /\ DropVideo(fmt)[flowPlane] = "flow"
    OBVIOUS
  <2>1. flowPlane # NoPlane /\ onPlane[flowPlane] = "flow"
    BY DEF PlaneInv, ShownInv
  <2>2. flowPlane \in Planes
    BY <2>1 DEF PlaneInv, TypeOK
  <2> QED BY <1>2, <2>1, <2>2
<1>6. OneVideo(DropVideo(fmt))
  BY <1>4 DEF OneVideo
<1> QED BY <1>3, <1>4, <1>5, <1>6

LEMMA VideoStep ==
  ASSUME PlaneInv, NEW fmt \in VideoFormats, PresentVideo(fmt),
         IF source = "dmabuf" THEN fmt \in DmabufFormats ELSE fmt = "xrgb"
  PROVE  PlaneInv'
<1>1. /\ Running /\ UNCHANGED optionVars /\ videoFormat' = fmt
      /\ videoPlane' = IF videoFormat = fmt THEN videoPlane ELSE VideoChoice(fmt)
      /\ \/ /\ videoPlane' = NoPlane /\ Fail("video", DropVideo(fmt))
            /\ UNCHANGED <<flowPlane, uiPlane, uiWanted>>
         \/ /\ videoPlane' # NoPlane /\ ChooseOverlays(videoPlane')
            /\ \/ flowPlane' = NoPlane /\ Fail("flow", DropVideo(fmt))
               \/ /\ flowPlane' # NoPlane
                  /\ \E newFlow \in BOOLEAN : CommitOrFail(DropVideo(fmt), TRUE, newFlow)
  BY DEF PresentVideo, Running
<1>t. TypeOK
  BY DEF PlaneInv
<1>f. fmt # "none"
  BY DEF VideoFormats, DmabufFormats
<1>2. /\ DropVideo(fmt) \in [Planes \cup {Primary} -> Layers] /\ OneVideo(DropVideo(fmt))
      /\ \A p \in Planes \cup {Primary} :
            DropVideo(fmt)[p] = "video" => videoFormat = fmt /\ p = videoPlane
      /\ flowReady => flowPlane # NoPlane /\ DropVideo(fmt)[flowPlane] = "flow"
  BY <1>1, Dropped
<1>3. /\ VideoChoice(fmt) \in AnyPlane
      /\ VideoChoice(fmt) # NoPlane =>
            Supports(VideoChoice(fmt), fmt) /\ VideoChoice(fmt) # flowPlane
      /\ VideoChoice(fmt) = NoPlane /\ pref.video = NoPlane =>
            /\ ~Supports(Primary, fmt)
            /\ \A p \in board.auto : Supports(p, fmt) => p \in {flowPlane, pref.flow}
  BY <1>t, VideoChoiceTakes
<1>4. /\ videoPlane \in AnyPlane
      /\ videoFormat = fmt => videoPlane # NoPlane
      /\ videoPlane # NoPlane => Supports(videoPlane, videoFormat)
      /\ flowPlane # NoPlane => flowPlane # videoPlane
  BY <1>1, <1>f DEF PlaneInv, ChoiceInv, TypeOK, AnyPlane
<1>5. /\ videoPlane' \in AnyPlane
      /\ videoPlane' # NoPlane => Supports(videoPlane', fmt)
      /\ flowPlane # NoPlane => flowPlane # videoPlane'
  <2>1. CASE videoFormat = fmt
    BY <1>1, <1>4, <2>1
  <2>2. CASE videoFormat # fmt
    BY <1>1, <1>3, <2>2
  <2> QED BY <2>1, <2>2
<1>b. /\ UNCHANGED <<board, pref, source, overlays, NoPreferences>>
      /\ \A p : HostsAlpha(p)' = HostsAlpha(p) /\ VideoCapable(p)' = VideoCapable(p)
      /\ \A p, f : Supports(p, f)' = Supports(p, f)
  BY <1>1, BoardFixed
<1>6. CASE videoPlane' # NoPlane
  <2>1. \A p \in Planes \cup {Primary} : DropVideo(fmt)[p] = "video" => p = videoPlane'
    BY <1>1, <1>2
  <2>2. fmt \in {"none"} \cup (IF source = "dmabuf" THEN DmabufFormats ELSE {"xrgb"})
    OBVIOUS
  <2>3. ChooseOverlays(videoPlane')
    BY <1>1, <1>6
  <2>4. \/ flowPlane' = NoPlane /\ Fail("flow", DropVideo(fmt))
        \/ /\ flowPlane' # NoPlane /\ (fmt = "none" <=> videoPlane' = NoPlane)
           /\ \E newFlow \in BOOLEAN : CommitOrFail(DropVideo(fmt), fmt # "none", newFlow)
    <3>1. (fmt # "none") = TRUE
      BY <1>f
    <3> QED BY <1>1, <1>6, <1>f, <3>1
  <2> QED BY <1>1, <1>2, <1>5, <1>6, <1>f, <2>1, <2>2, <2>3, <2>4, PresentStep
<1>7. CASE videoPlane' = NoPlane
  <2>1. /\ error' = "video" /\ onPlane' = DropVideo(fmt)
        /\ UNCHANGED <<flowPlane, uiPlane, uiWanted, modeset, flowReady>>
    BY <1>1, <1>7 DEF Fail
  <2>2. videoFormat # fmt /\ VideoChoice(fmt) = NoPlane
    BY <1>1, <1>4, <1>7
  <2>3. TypeOK'
    BY <1>t, <1>b, <1>1, <1>2, <1>7, <2>1 DEF TypeOK
  <2>4. ChoiceInv'
    BY <1>b, <1>1, <1>7, <2>1 DEF PlaneInv, ChoiceInv, Running
  <2>5. ShownInv'
    <3>1. DOMAIN onPlane' = Planes \cup {Primary}
      BY <1>2, <2>1
    <3> QED BY <1>2, <2>1, <3>1 DEF ShownInv, OneVideo, Running
  <2>6. SpareInv'
    <3>1. "xrgb" \in board.caps[Primary]
          /\ (NoPreferences /\ source = "dmabuf" /\ flowPlane # NoPlane => FlowModest)
      BY DEF PlaneInv, SpareInv
    <3>2. FlowModest' = FlowModest
      BY <1>b, <2>1 DEF FlowModest
    <3>3. ASSUME NoPreferences, NEW p \in board.auto, Supports(p, fmt)
          PROVE  p = flowPlane /\ \A q \in board.auto : HostsAlpha(q) => VideoCapable(q)
      <4>1. ~Supports(Primary, fmt) /\ p \in {flowPlane, NoPlane}
        BY <1>3, <2>2, <3>3 DEF NoPreferences
      <4>2. p \in Planes /\ p # NoPlane
        BY <1>t, BoardParts, PlaneIds
      <4>3. source = "dmabuf" /\ fmt \in DmabufFormats
        BY <3>1, <4>1 DEF Supports
      <4>4. VideoCapable(flowPlane)
        BY <3>3, <4>1, <4>2, <4>3 DEF VideoCapable
      <4> QED BY <3>1, <3>3, <4>1, <4>2, <4>3, <4>4 DEF FlowModest
    <3>4. FlowSparesVideo'
      BY <1>b, <1>1, <2>1, <3>3 DEF FlowSparesVideo, NoPreferences
    <3> QED BY <1>b, <2>1, <3>1, <3>2, <3>4 DEF SpareInv
  <2> QED BY <2>3, <2>4, <2>5, <2>6 DEF PlaneInv
<1> QED BY <1>6, <1>7

LEMMA PlaneStep == PlaneInv /\ [Next]_vars => PlaneInv'
<1> SUFFICES ASSUME PlaneInv, [Next]_vars PROVE PlaneInv'
  OBVIOUS
<1>1. CASE PresentOverlay
  BY <1>1, OverlayStep
<1>2. ASSUME source = "dmabuf", NEW fmt \in DmabufFormats, PresentVideo(fmt) PROVE PlaneInv'
  BY <1>2, VideoStep DEF VideoFormats
<1>3. ASSUME source = "cpu", PresentVideo("xrgb") PROVE PlaneInv'
  BY <1>3, VideoStep DEF VideoFormats
<1>4. CASE UNCHANGED vars
  BY <1>4 DEF vars, optionVars, choiceVars, PlaneInv, TypeOK, ChoiceInv, ShownInv, SpareInv, Running,
              NoPreferences, FlowModest, FlowSparesVideo, HostsAlpha, VideoCapable, Supports
<1> QED BY <1>1, <1>2, <1>3, <1>4 DEF Next, Ended

LEMMA PlaneInvariant == Spec => []PlaneInv
BY PlaneInit, PlaneStep, PTL DEF Spec

----
(* The theorems. *)

\* Whatever the board and the plane ids on the command line, the choices made present
\* by present and the commits never put another layer over a Flow frame or the video,
\* nor leave the video on two planes.
THEOREM LayersKept == Spec => []LayersKeepPlanes
<1>1. PlaneInv => LayersKeepPlanes
  <2> SUFFICES ASSUME PlaneInv PROVE LayersKeepPlanes
    OBVIOUS
  <2> DEFINE V == {p \in DOMAIN onPlane : onPlane[p] = "video"}
  <2>1. Cardinality(V) <= 1
    <3>1. CASE V = {}
      BY <3>1, FS_EmptySet
    <3>2. CASE V # {}
      <4>1. PICK p \in V : V = {p}
        BY <3>2 DEF PlaneInv, ShownInv
      <4>2. Cardinality({p}) = 1
        BY FS_Singleton
      <4> QED BY <4>1, <4>2
    <3> QED BY <3>1, <3>2
  <2> QED BY <2>1 DEF PlaneInv, ShownInv, LayersKeepPlanes
<1> QED BY <1>1, PlaneInvariant, PTL

\* Without preferences the overlays, chosen before the first frame arrives, never
\* take the plane the video needs while another plane could host them.
THEOREM VideoSpared == Spec => []FlowSparesVideo
<1>1. PlaneInv => FlowSparesVideo
  BY DEF PlaneInv, SpareInv
<1> QED BY <1>1, PlaneInvariant, PTL
====

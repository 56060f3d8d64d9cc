---- MODULE Overlay_proofs ----
(***************************************************************************)
(* Proofs about glide-ui's overlay, for every set-up, whatever telemetry   *)
(* says, and any number of lines, peers and changes under way.             *)
(*                                                                         *)
(* The invariant has four parts, each for what one group of operators      *)
(* changes: the screen (RebuildUi, SetActivePanel), the switch of the osd  *)
(* panel (Sync), what the map holds back (Suppress, Restore), and the      *)
(* lines that are still to come back (SendCoords, CoordsLine).             *)
(***************************************************************************)
EXTENDS Overlay, SequenceTheorems, FiniteSetTheorems, TLAPS

Modes  == {"menu", "minimap", "hidden"}
States == Snaps \cup {Unknown}
Names  == {"dashboard", "link", "video", "camera", "osd", "telemetry", "recording",
           "system", "developer", "colors"}

Kinds == {"none", "reset", "pair", "scan", "net_scan", "p2p_ground", "p2p_air", "width", "mcs",
          "power", "pit_on", "pit_off", "resolution", "display_hz", "flow_fps", "flow_scale",
          "cycle_mode", "cycle_rotation", "intra_off", "intra_cyclic", "layout", "topbar", "fps",
          "coords", "map_position", "compact", "record_off", "record_on", "record_arm", "connect",
          "disconnect", "messages", "bar_text", "bar_background", "primary", "secondary"}

----
(* The tables of the panels.                                                *)

\* The panels by their names.
LEMMA PanelNames == ToSet(Panels) = Names
  BY DEF ToSet, Panels, Names

\* The panel above or below the active one, which is itself at either end.
LEMMA StepStays == ASSUME panel \in Names, NEW by \in {-1, 1} PROVE Step(by) \in Names
  <1> DEFINE i == CHOOSE i \in DOMAIN Panels : Panels[i] = panel
  <1>1. DOMAIN Panels = 1..10 /\ Len(Panels) = 10
    BY DEF Panels
  <1>2. \E k \in 1..10 : Panels[k] = panel
    BY PanelNames, <1>1 DEF ToSet
  <1>3. i \in 1..10
    BY <1>1, <1>2
  <1> HIDE DEF i
  <1> DEFINE j == IF i + by < 1 THEN 1 ELSE IF i + by > 10 THEN 10 ELSE i + by
  <1>4. j \in 1..10
    BY <1>3
  <1>5. Panels[j] \in ToSet(Panels)
    BY <1>1, <1>4 DEF ToSet
  <1>6. Step(by) = Panels[j]
    BY <1>1 DEF Step, i
  <1> QED
    BY <1>5, <1>6, PanelNames

\* The bounds, and what is known of the link: five rows at most come and go.
LEMMA Bounds == MaxLines \in Nat /\ MaxPeers \in Nat /\ MaxFlight \in Nat /\ MaxFlight > 1
  BY OverlayAssumption DEF OverlayAssumption

LEMMA Extra == \A s \in States : s.extra \in 0..5
  BY OverlayAssumption DEF OverlayAssumption, States, Unknown

\* Rows that only show a value.
LEMMA ValueRows ==
    ASSUME NEW n \in Nat
    PROVE  /\ Values(n) \in Seq(Kinds) /\ Len(Values(n)) = n
           /\ \A i \in 1..n : Values(n)[i] = "none"
  <1> DEFINE v == Values(n)
  <1>1. v \in [1..n -> {"none"}] /\ \A i \in 1..n : v[i] = "none"
    BY DEF Values
  <1>2. v \in [1..n -> Kinds]
    BY <1>1 DEF Kinds
  <1>3. v \in Seq(Kinds)
    BY <1>2
  <1>4. Len(v) = n
    BY <1>1, <1>3, LenProperties
  <1> QED
    BY <1>1, <1>3, <1>4

LEMMA Joined ==
    ASSUME NEW a \in Seq(Kinds), NEW b \in Seq(Kinds)
    PROVE  a \o b \in Seq(Kinds) /\ Len(a \o b) = Len(a) + Len(b)
  BY ConcatProperties

\* Values, and controls below them.
LEMMA Below ==
    ASSUME NEW n \in Nat, NEW c \in Seq(Kinds)
    PROVE  /\ Values(n) \o c \in Seq(Kinds) /\ Len(Values(n) \o c) = n + Len(c)
           /\ \A i \in 1..n + Len(c) :
                 (Values(n) \o c)[i] = IF i <= n THEN "none" ELSE c[i - n]
  <1> DEFINE v == Values(n)
  <1>1. v \in Seq(Kinds) /\ Len(v) = n /\ Len(c) \in Nat /\ \A i \in 1..n : v[i] = "none"
    BY ValueRows, LenProperties
  <1> HIDE DEF v
  <1>2. /\ v \o c \in Seq(Kinds) /\ Len(v \o c) = Len(v) + Len(c)
        /\ \A i \in 1..Len(v) + Len(c) :
              (v \o c)[i] = IF i <= Len(v) THEN v[i] ELSE c[i - Len(v)]
    BY <1>1, ConcatProperties
  <1>3. ASSUME NEW i \in 1..n + Len(c)
        PROVE  (v \o c)[i] = IF i <= n THEN "none" ELSE c[i - n]
    <2>1. (v \o c)[i] = IF i <= n THEN v[i] ELSE c[i - n]
      BY <1>1, <1>2
    <2> QED
      BY <1>1, <2>1
  <1> QED
    BY <1>1, <1>2, <1>3 DEF v

\* Controls, and values below them.
LEMMA Above ==
    ASSUME NEW c \in Seq(Kinds), NEW n \in Nat
    PROVE  /\ c \o Values(n) \in Seq(Kinds) /\ Len(c \o Values(n)) = Len(c) + n
           /\ \A i \in 1..Len(c) + n :
                 (c \o Values(n))[i] = IF i <= Len(c) THEN c[i] ELSE "none"
  <1>1. Values(n) \in Seq(Kinds) /\ Len(Values(n)) = n /\ Len(c) \in Nat
    BY ValueRows, LenProperties
  <1>2. /\ c \o Values(n) \in Seq(Kinds) /\ Len(c \o Values(n)) = Len(c) + n
        /\ \A i \in 1..Len(c) + n :
              (c \o Values(n))[i] = IF i <= Len(c) THEN c[i] ELSE Values(n)[i - Len(c)]
    BY <1>1, ConcatProperties
  <1>3. ASSUME NEW i \in 1..Len(c) + n
        PROVE  (c \o Values(n))[i] = IF i <= Len(c) THEN c[i] ELSE "none"
    <2>1. i - Len(c) \in 1..n \/ i <= Len(c)
      BY <1>1
    <2> QED
      BY <1>2, <2>1, ValueRows
  <1> QED
    BY <1>2, <1>3

\* The controls of the panels.
LEMMA ControlRows ==
    /\ <<"reset", "pair">> \in Seq(Kinds) /\ <<"scan">> \in Seq(Kinds)
    /\ <<"net_scan", "p2p_ground", "p2p_air">> \in Seq(Kinds)
    /\ <<"width", "mcs", "power", "pit_on", "pit_off">> \in Seq(Kinds)
    /\ <<"resolution", "display_hz", "flow_fps", "flow_scale">> \in Seq(Kinds)
    /\ <<"cycle_mode", "cycle_rotation", "intra_off", "intra_cyclic">> \in Seq(Kinds)
    /\ <<"record_off", "record_on", "record_arm">> \in Seq(Kinds)
    /\ <<"connect", "disconnect">> \in Seq(Kinds) /\ <<"messages">> \in Seq(Kinds)
  BY DEF Kinds

\* No panel has more rows than that of the link with all the peers.
LEMMA RowsBounded ==
    ASSUME NEW p \in Names, NEW s \in States, NEW n \in 0..MaxPeers
    PROVE  Len(Rows(p, s, n)) \in 0..(18 + MaxPeers)
  <1> USE Bounds
  <1>1. CASE p = "link"
    <2> DEFINE k == 9 + (IF n = 0 THEN 1 ELSE n)
               a == Values(k)
               b == <<"net_scan", "p2p_ground", "p2p_air">>
               c == IF s.artosyn THEN <<"reset", "pair">>
                    ELSE <<"width", "mcs", "power", "pit_on", "pit_off">>
    <2>1. k \in Nat /\ k <= 10 + MaxPeers
      OBVIOUS
    <2>2. b \in Seq(Kinds) /\ Len(b) = 3 /\ c \in Seq(Kinds) /\ (Len(c) = 2 \/ Len(c) = 5)
      BY ControlRows
    <2>3. Rows(p, s, n) = (a \o b) \o c
      BY <1>1 DEF Rows, LinkRows
    <2>7. Len(c) \in Nat /\ Len(c) <= 5
      OBVIOUS
    <2> HIDE DEF k, b, c
    <2>4. a \o b \in Seq(Kinds) /\ Len(a \o b) = k + Len(b)
      BY <2>1, <2>2, Below
    <2>5. Len((a \o b) \o c) = k + 3 + Len(c)
      BY <2>2, <2>4, Joined
    <2>6. k + 3 + Len(c) \in 0..(18 + MaxPeers)
      BY <2>1, <2>7
    <2> QED
      BY <2>3, <2>5, <2>6
  <1>2. CASE p = "dashboard"
    <2> DEFINE c == IF s.artosyn THEN <<"reset", "pair">> ELSE <<"scan">>
    <2>1. c \in Seq(Kinds) /\ (Len(c) = 1 \/ Len(c) = 2)
      BY ControlRows
    <2>2. Rows(p, s, n) = Values(4) \o c
      BY <1>2 DEF Rows, DashboardRows
    <2> HIDE DEF c
    <2>3. Len(Values(4) \o c) = 4 + Len(c)
      BY <2>1, Below
    <2> QED
      BY <2>1, <2>2, <2>3
  <1>3. CASE p = "telemetry"
    <2>1. 8 + s.extra \in Nat /\ 8 + s.extra <= 13
      BY Extra
    <2>2. Rows(p, s, n) = Values(8 + s.extra)
      BY <1>3 DEF Rows, TelemetryRows
    <2> QED
      BY <2>1, <2>2, ValueRows
  <1>4. CASE p = "video"
    <2> DEFINE c == <<"resolution", "display_hz", "flow_fps", "flow_scale">>
    <2>1. c \in Seq(Kinds) /\ Len(c) = 4
      BY ControlRows
    <2>2. Rows(p, s, n) = c \o Values(4)
      BY <1>4 DEF Rows, VideoRows
    <2> HIDE DEF c
    <2>3. Len(c \o Values(4)) = Len(c) + 4
      BY <2>1, Above
    <2> QED
      BY <2>1, <2>2, <2>3
  <1>5. CASE p = "camera"
    <2> DEFINE c == <<"cycle_mode", "cycle_rotation", "intra_off", "intra_cyclic">>
    <2>1. c \in Seq(Kinds) /\ Len(c) = 4
      BY ControlRows
    <2>2. Rows(p, s, n) = Values(3) \o c
      BY <1>5 DEF Rows, CameraRows
    <2> HIDE DEF c
    <2>3. Len(Values(3) \o c) = 3 + Len(c)
      BY <2>1, Below
    <2> QED
      BY <2>1, <2>2, <2>3
  <1>6. CASE p = "recording"
    <2> DEFINE c == <<"record_off", "record_on", "record_arm">>
    <2>1. c \in Seq(Kinds) /\ Len(c) = 3
      BY ControlRows
    <2>2. Rows(p, s, n) = Values(2) \o c
      BY <1>6 DEF Rows, RecordingRows
    <2> HIDE DEF c
    <2>3. Len(Values(2) \o c) = 2 + Len(c)
      BY <2>1, Below
    <2> QED
      BY <2>1, <2>2, <2>3
  <1>7. CASE p = "developer"
    <2> DEFINE c == <<"connect", "disconnect">>
               a == Values(1) \o c
               m == <<"messages">>
    <2>1. c \in Seq(Kinds) /\ Len(c) = 2 /\ m \in Seq(Kinds) /\ Len(m) = 1
      BY ControlRows
    <2>3. Rows(p, s, n) = (a \o Values(6)) \o m
      BY <1>7 DEF Rows, DeveloperRows
    <2> HIDE DEF c, m
    <2>2. a \in Seq(Kinds) /\ Len(a) = 1 + Len(c)
      BY <2>1, Below
    <2> HIDE DEF a
    <2>4. a \o Values(6) \in Seq(Kinds) /\ Len(a \o Values(6)) = Len(a) + 6
      BY <2>2, Above
    <2> DEFINE d == a \o Values(6)
    <2> HIDE DEF d
    <2>5. Len(d \o m) = Len(d) + Len(m)
      BY <2>1, <2>4, Joined DEF d
    <2> QED
      BY <2>1, <2>2, <2>3, <2>4, <2>5 DEF d
  <1>8. CASE p \in {"osd", "colors"}
    BY <1>8 DEF Rows, OsdRows, ColorsRows
  <1>9. CASE p = "system"
    BY <1>9, ValueRows DEF Rows
  <1> QED
    BY <1>1, <1>2, <1>3, <1>4, <1>5, <1>6, <1>7, <1>8, <1>9 DEF Names

\* A panel of n values above the controls c, with an Enter table that begins at the
\* first control and lists them all.
TableUnder(p, s, m, n, c) ==
    /\ n \in Nat /\ c \in Seq(Kinds)
    /\ Rows(p, s, m) = Values(n) \o c
    /\ EnterRows(p, s) = [from |-> n, acts |-> c]

\* There Enter's table and the controls say the same of every row.
LEMMA TableBelow ==
    ASSUME NEW p, NEW s, NEW m, NEW n, NEW c, TableUnder(p, s, m, n, c),
           NEW r \in Nat, r + 1 \in DOMAIN Rows(p, s, m)
    PROVE  EnterAction(p, r, s) = Rows(p, s, m)[r + 1]
  <1>0. /\ n \in Nat /\ c \in Seq(Kinds)
        /\ Rows(p, s, m) = Values(n) \o c
        /\ EnterRows(p, s) = [from |-> n, acts |-> c]
    BY DEF TableUnder
  <1> DEFINE i == r - n + 1
  <1>1. Len(c) \in Nat /\ DOMAIN c = 1..Len(c)
    BY <1>0, LenProperties
  <1>2. EnterAction(p, r, s) = IF i \in 1..Len(c) THEN c[i] ELSE "none"
    BY <1>0, <1>1 DEF EnterAction
  <1> DEFINE v == Values(n) \o c
  <1>3. v \in Seq(Kinds) /\ Len(v) = n + Len(c)
    BY <1>0, Below
  <1>4. \A k \in 1..n + Len(c) : v[k] = IF k <= n THEN "none" ELSE c[k - n]
    BY <1>0, Below
  <1>5. Rows(p, s, m) = v
    BY <1>0
  <1> HIDE DEF v
  <1>6. r + 1 \in 1..n + Len(c)
    BY <1>3, <1>5, LenProperties
  <1>7. v[r + 1] = IF r + 1 <= n THEN "none" ELSE c[(r + 1) - n]
    BY <1>4, <1>6
  <1>8. EnterAction(p, r, s) = v[r + 1]
    <2>1. CASE r + 1 <= n
      <3>1. i \notin 1..Len(c)
        BY <1>0, <1>1, <2>1
      <3> QED
        BY <1>2, <1>7, <2>1, <3>1
    <2>2. CASE ~(r + 1 <= n)
      <3>1. i \in 1..Len(c) /\ (r + 1) - n = i
        BY <1>0, <1>1, <1>6, <2>2
      <3> QED
        BY <1>2, <1>7, <2>2, <3>1
    <2> QED
      BY <2>1, <2>2
  <1> QED
    BY <1>5, <1>8, Zenon

\* Enter does in each row what its control says, in all panels but two, and but
\* for the last two rows of the colors panel.
LEMMA EnterAgrees ==
    ASSUME NEW p \in Names \ {"link", "developer"}, NEW s \in States, NEW n \in Nat,
           NEW r \in Nat, r + 1 \in DOMAIN Rows(p, s, n), ~(p = "colors" /\ r >= 2)
    PROVE  EnterAction(p, r, s) = Rows(p, s, n)[r + 1]
  <1>1. CASE p = "dashboard"
    <2> DEFINE c == IF s.artosyn THEN <<"reset", "pair">> ELSE <<"scan">>
    <2>1. c \in Seq(Kinds)
      BY ControlRows
    <2>2. TableUnder(p, s, n, 4, c)
      BY <1>1, <2>1 DEF TableUnder, Rows, DashboardRows, EnterRows
    <2> QED
      BY <2>2, TableBelow, Zenon
  <1>2. CASE p = "camera"
    <2> DEFINE c == <<"cycle_mode", "cycle_rotation", "intra_off", "intra_cyclic">>
    <2>1. c \in Seq(Kinds)
      BY ControlRows
    <2>2. TableUnder(p, s, n, 3, c)
      BY <1>2, <2>1 DEF TableUnder, Rows, CameraRows, EnterRows
    <2> QED
      BY <2>2, TableBelow, Zenon
  <1>3. CASE p = "recording"
    <2> DEFINE c == <<"record_off", "record_on", "record_arm">>
    <2>1. c \in Seq(Kinds)
      BY ControlRows
    <2>2. TableUnder(p, s, n, 2, c)
      BY <1>3, <2>1 DEF TableUnder, Rows, RecordingRows, EnterRows
    <2> QED
      BY <2>2, TableBelow, Zenon
  <1>4. CASE p = "video"
    <2> DEFINE c == <<"resolution", "display_hz", "flow_fps", "flow_scale">>
    <2>1. c \in Seq(Kinds) /\ Len(c) = 4 /\ DOMAIN c = 1..4
      BY ControlRows
    <2>2. Rows(p, s, n) = c \o Values(4) /\ EnterRows(p, s) = [from |-> 0, acts |-> c]
      BY <1>4 DEF Rows, VideoRows, EnterRows
    <2> HIDE DEF c
    <2>3. c \o Values(4) \in Seq(Kinds) /\ Len(c \o Values(4)) = Len(c) + 4
      BY <2>1, Above
    <2>4. r + 1 \in 1..Len(c) + 4
      BY <2>1, <2>2, <2>3, LenProperties
    <2>5. (c \o Values(4))[r + 1] = IF r + 1 <= Len(c) THEN c[r + 1] ELSE "none"
      BY <2>1, <2>4, Above
    <2>6. EnterAction(p, r, s) = IF r + 1 \in 1..4 THEN c[r + 1] ELSE "none"
      BY <2>1, <2>2 DEF EnterAction
    <2> QED
      BY <2>1, <2>2, <2>4, <2>5, <2>6
  <1>5. CASE p = "osd"
    <2> DEFINE c == OsdRows
    <2>1. Rows(p, s, n) = c /\ EnterRows(p, s) = [from |-> 0, acts |-> c]
      BY <1>5 DEF Rows, EnterRows, OsdRows
    <2> HIDE DEF c
    <2>2. EnterAction(p, r, s) = IF r - 0 + 1 \in DOMAIN c THEN c[r - 0 + 1] ELSE "none"
      BY <2>1 DEF EnterAction
    <2>3. r - 0 + 1 = r + 1
      OBVIOUS
    <2>4. EnterAction(p, r, s) = IF r + 1 \in DOMAIN c THEN c[r + 1] ELSE "none"
      BY <2>2, <2>3, Zenon
    <2> QED
      BY <2>1, <2>4, Zenon
  <1>6. CASE p = "colors"
    <2>1. Rows(p, s, n) = ColorsRows
          /\ EnterRows(p, s) = [from |-> 0, acts |-> <<"bar_text", "bar_background">>]
      BY <1>6 DEF Rows, EnterRows
    <2> DEFINE c == <<"bar_text", "bar_background">>
    <2>2. r + 1 \in 1..2 /\ r - 0 + 1 = r + 1
      BY <1>6
    <2>3. DOMAIN c = 1..2 /\ \A i \in 1..2 : c[i] = ColorsRows[i]
      BY DEF ColorsRows
    <2> HIDE DEF c
    <2>4. EnterAction(p, r, s) = IF r - 0 + 1 \in DOMAIN c THEN c[r - 0 + 1] ELSE "none"
      BY <2>1 DEF EnterAction, c
    <2>5. EnterAction(p, r, s) = c[r + 1]
      BY <2>2, <2>3, <2>4, Zenon
    <2> QED
      BY <2>1, <2>2, <2>3, <2>5, Zenon
  <1>7. CASE p = "telemetry"
    <2>1. 8 + s.extra \in Nat
      BY Extra
    <2>2. Rows(p, s, n) = Values(8 + s.extra) /\ EnterRows(p, s) = [from |-> 0, acts |-> <<>>]
      BY <1>7 DEF Rows, TelemetryRows, EnterRows
    <2>3. Rows(p, s, n)[r + 1] = "none"
      BY <2>1, <2>2, ValueRows, LenProperties
    <2> QED
      BY <2>2, <2>3 DEF EnterAction
  <1>8. CASE p = "system"
    <2>1. Rows(p, s, n) = Values(4) /\ EnterRows(p, s) = [from |-> 0, acts |-> <<>>]
      BY <1>8 DEF Rows, EnterRows
    <2>2. Rows(p, s, n)[r + 1] = "none"
      BY <2>1, ValueRows, LenProperties
    <2> QED
      BY <2>1, <2>2 DEF EnterAction
  <1> QED
    BY <1>1, <1>2, <1>3, <1>4, <1>5, <1>6, <1>7, <1>8 DEF Names

----
(* The inductive invariant.                                                 *)

DataInv ==
    /\ <<backend, narrow>> \in Setups /\ mode \in Modes /\ panel \in Names
    /\ row \in 0..(18 + MaxPeers) /\ snap \in States /\ net \in 0..MaxPeers
    /\ lines \in 0..MaxLines
    /\ focus \in BOOLEAN /\ pending \in BOOLEAN /\ due \in BOOLEAN /\ polling \in BOOLEAN

Objects == {"nav", "panel", "map", "osd", "theme", "video", "scan", "host"}

\* What the objects on the screen, the pointers to them and the map say of the
\* mode; a panel is there in the menu only, so it is never rebuilt elsewhere.
ScreenInv ==
    /\ tree \subseteq Objects /\ handles \subseteq tree \cup {"host"}
    /\ "osd" \in tree => "osd" \in handles
    /\ "map" \in tree => mode = "minimap"
    /\ "panel" \in tree => mode = "menu"
    /\ shown = NoPanel
       \/ ("panel" \in tree /\ \E s \in States, n \in 0..MaxPeers : shown = Panel(panel, s, n))
    /\ (shown # NoPanel /\ panel = "developer") => "host" \in handles \cap tree
    /\ drawn \in BOOLEAN
    /\ mode = "minimap" => drawn = (backend = "buffer")
    /\ mode = "hidden" => ~drawn

SwitchInv == switch \in BOOLEAN /\ ("osd" \in tree => switch = coords)

Off(s)     == \A i \in 1..Len(s) : s[i] = FALSE
Ends(s, v) == s # <<>> => s[Len(s)] = v

\* While the map is open every line under way says off, and the user's choice is
\* held; otherwise the last one under way says the user's choice.
CoordInv ==
    /\ coords \in BOOLEAN /\ mapFile \in BOOLEAN /\ wish \in BOOLEAN /\ clean \in BOOLEAN
    /\ flight \in Seq(BOOLEAN) /\ Len(flight) <= MaxFlight
    /\ mapFile = (mode = "minimap")
    /\ mode # "minimap" => held = {}
    /\ mode = "minimap" => \E v \in BOOLEAN : held = {v}
    /\ (clean /\ mode = "minimap") => held = {wish} /\ coords = FALSE /\ Off(flight)
    /\ (clean /\ mode # "minimap") =>
          Ends(flight, wish) /\ (flight = <<>> => coords = wish)

OverlayInv == DataInv /\ ScreenInv /\ SwitchInv /\ CoordInv

----
(* The screen.                                                              *)

LEMMA ControlsOf ==
    ASSUME NEW p \in Names, NEW s
    PROVE  /\ Controls(p, s) \subseteq {"osd", "theme", "video", "scan", "host"}
           /\ p = "developer" => "host" \in Controls(p, s)
  <1>1. CASE p = "osd"
    BY <1>1 DEF Controls
  <1>2. CASE p = "colors"
    BY <1>2 DEF Controls
  <1>3. CASE p = "video"
    BY <1>3 DEF Controls
  <1>4. CASE p = "dashboard"
    BY <1>4 DEF Controls
  <1>5. CASE p = "developer"
    BY <1>5 DEF Controls
  <1>6. CASE p \notin {"osd", "colors", "video", "dashboard", "developer"}
    BY <1>6 DEF Controls
  <1> QED
    BY <1>1, <1>2, <1>3, <1>4, <1>5, <1>6

\* rebuild_ui leaves a screen that fits the mode, whatever was there before.
LEMMA Rebuilt ==
    ASSUME DataInv, ScreenInv, NEW m \in Modes, NEW p \in Names, RebuildUi(m, p),
           mode' = m, panel' = p, backend' = backend
    PROVE  ScreenInv' /\ pending' = FALSE
  <1>1. /\ Controls(p, snap) \subseteq {"osd", "theme", "video", "scan", "host"}
        /\ p = "developer" => "host" \in Controls(p, snap)
    BY ControlsOf
  <1>2. drawn' \in BOOLEAN /\ (m = "minimap" => drawn' = (backend = "buffer"))
        /\ (m = "hidden" => drawn' = FALSE)
    BY DEF RebuildUi, Drawn, ScreenInv
  <1>3. handles' = tree' /\ pending' = FALSE
    BY DEF RebuildUi, Invalidated
  <1>4. CASE m = "menu" /\ ~narrow
    <2>1. tree' = {"nav", "panel"} \cup Controls(p, snap) /\ shown' = Panel(p, snap, net)
      BY <1>4 DEF RebuildUi, Invalidated
    <2> QED
      BY <1>1, <1>2, <1>3, <1>4, <2>1 DEF ScreenInv, Objects, DataInv
  <1>5. CASE m = "menu" /\ narrow
    <2>1. tree' = {"nav"} /\ shown' = NoPanel
      BY <1>5 DEF RebuildUi, Invalidated
    <2> QED
      BY <1>2, <1>3, <1>5, <2>1 DEF ScreenInv, Objects
  <1>6. CASE m = "minimap"
    <2>1. tree' = {"map"} /\ shown' = NoPanel
      BY <1>6 DEF RebuildUi, Invalidated
    <2> QED
      BY <1>2, <1>3, <1>6, <2>1 DEF ScreenInv, Objects
  <1>7. CASE m = "hidden"
    <2>1. tree' = {} /\ shown' = NoPanel
      BY <1>7 DEF RebuildUi, Invalidated
    <2> QED
      BY <1>2, <1>3, <1>7, <2>1 DEF ScreenInv, Objects
  <1> QED
    BY <1>4, <1>5, <1>6, <1>7 DEF Modes

\* set_active_panel does, too: where there is a panel the mode is the menu.
LEMMA Activated ==
    ASSUME DataInv, ScreenInv, NEW p \in Names, NEW n \in 0..MaxPeers, SetActivePanel(p, n),
           mode' = mode, backend' = backend
    PROVE  ScreenInv' /\ pending' = FALSE /\ panel' = p /\ row' = 0 /\ focus' = FALSE
  <1>1. panel' = p /\ row' = 0 /\ focus' = FALSE
    BY DEF SetActivePanel
  <1>2. CASE "panel" \notin handles
    BY <1>1, <1>2, Rebuilt DEF SetActivePanel, DataInv
  <1>3. CASE "panel" \in handles
    <2>1. /\ Controls(p, snap) \subseteq {"osd", "theme", "video", "scan", "host"}
          /\ p = "developer" => "host" \in Controls(p, snap)
      BY ControlsOf
    <2>2. "panel" \in tree /\ mode = "menu" /\ "map" \notin tree
      BY <1>3 DEF ScreenInv
    <2>3. /\ shown' = Panel(p, snap, n)
          /\ tree' = (tree \cap {"nav", "panel"}) \cup Controls(p, snap)
          /\ handles' = Cleared \cup Controls(p, snap)
          /\ pending' = FALSE /\ drawn' = drawn
      BY <1>3 DEF SetActivePanel
    <2>4. tree' \subseteq Objects /\ handles' \subseteq tree' \cup {"host"} /\ "map" \notin tree'
          /\ "panel" \in tree' /\ ("osd" \in tree' => "osd" \in handles')
          /\ (p = "developer" => "host" \in handles' \cap tree')
      BY <2>1, <2>2, <2>3 DEF ScreenInv, Objects, Cleared
    <2> QED
      BY <1>1, <2>2, <2>3, <2>4 DEF ScreenInv, DataInv
  <1> QED
    BY <1>2, <1>3

\* Whoever builds the screen and then synchronises the switch leaves it right.
LEMMA Synced ==
    ASSUME ScreenInv', Sync, coords' \in BOOLEAN
    PROVE  SwitchInv'
  BY DEF ScreenInv, Sync, SwitchInv

----
(* The coordinates setting.                                                 *)

\* A line sent last is the last one under way.
LEMMA Sent ==
    ASSUME NEW s \in Seq(BOOLEAN), NEW v \in BOOLEAN
    PROVE  /\ Append(s, v) \in Seq(BOOLEAN) /\ Len(Append(s, v)) = Len(s) + 1
           /\ Append(s, v) # <<>> /\ Ends(Append(s, v), v)
           /\ (Off(s) /\ v = FALSE) => Off(Append(s, v))
  <1>1. /\ Append(s, v) \in Seq(BOOLEAN) /\ Append(s, v) # <<>>
        /\ Len(Append(s, v)) = Len(s) + 1 /\ Len(s) \in Nat
        /\ \A i \in 1..Len(s) : Append(s, v)[i] = s[i]
        /\ Append(s, v)[Len(s) + 1] = v
    BY AppendProperties, LenProperties
  <1>2. Ends(Append(s, v), v)
    BY <1>1 DEF Ends
  <1>3. ASSUME Off(s), v = FALSE PROVE Off(Append(s, v))
    <2>1. ASSUME NEW i \in 1..(Len(s) + 1) PROVE Append(s, v)[i] = FALSE
      <3>1. i \in 1..Len(s) \/ i = Len(s) + 1
        BY <1>1
      <3> QED
        BY <1>1, <1>3, <3>1 DEF Off
    <2> QED
      BY <1>1, <2>1 DEF Off
  <1> QED
    BY <1>1, <1>2, <1>3

\* What comes back first, and what is still under way then.
LEMMA CameBack ==
    ASSUME NEW s \in Seq(BOOLEAN), s # <<>>
    PROVE  /\ Tail(s) \in Seq(BOOLEAN) /\ Len(Tail(s)) = Len(s) - 1 /\ Head(s) \in BOOLEAN
           /\ Off(s) => Off(Tail(s)) /\ Head(s) = FALSE
           /\ \A v : Ends(s, v) => Ends(Tail(s), v) /\ (Tail(s) = <<>> => Head(s) = v)
  <1>1. /\ Tail(s) \in Seq(BOOLEAN) /\ Len(Tail(s)) = Len(s) - 1
        /\ Len(s) \in Nat \ {0} /\ Len(Tail(s)) \in Nat
        /\ Head(s) = s[1] /\ \A i \in 1..(Len(s) - 1) : Tail(s)[i] = s[i + 1]
        /\ Tail(s) = <<>> => Len(s) = 1
        /\ Tail(s) # <<>> => Len(s) > 1
    <2>1. Len(s) \in Nat \ {0} /\ Len(<<>>) = 0
      BY EmptySeq
    <2>2. /\ Tail(s) \in Seq(BOOLEAN) /\ Len(Tail(s)) = Len(s) - 1
          /\ \A i \in 1..(Len(s) - 1) : Tail(s)[i] = s[i + 1]
      <3>1. /\ Tail(s) \in Seq(BOOLEAN) /\ Len(Tail(s)) = Len(s) - 1
            /\ \A i \in 1..Len(Tail(s)) : Tail(s)[i] = s[i + 1]
        BY HeadTailProperties
      <3> QED
        BY <3>1
    <2>4. Head(s) = s[1]
      BY <2>1
    <2>3. Tail(s) # <<>> => Len(Tail(s)) \in Nat \ {0}
      BY <2>2, EmptySeq
    <2>5. Tail(s) = <<>> => Len(Tail(s)) = 0
      BY <2>1, Zenon
    <2> DEFINE t == Tail(s)
    <2> HIDE DEF t
    <2>6. (t = <<>> => Len(s) = 1) /\ (t # <<>> => Len(s) > 1) /\ Len(t) \in Nat
      BY <2>1, <2>2, <2>3, <2>5 DEF t
    <2> QED
      BY <2>1, <2>2, <2>4, <2>6 DEF t
  <1>2. Head(s) \in BOOLEAN
    BY <1>1, ElementOfSeq
  <1>3. ASSUME Off(s) PROVE Off(Tail(s)) /\ Head(s) = FALSE
    <2>1. Head(s) = FALSE
      BY <1>1, <1>3, 1 \in 1..Len(s) DEF Off
    <2>2. ASSUME NEW i \in 1..Len(Tail(s)) PROVE Tail(s)[i] = FALSE
      BY <1>1, <1>3, i + 1 \in 1..Len(s) DEF Off
    <2> QED
      BY <2>1, <2>2 DEF Off
  <1>4. ASSUME NEW v, Ends(s, v) PROVE Ends(Tail(s), v) /\ (Tail(s) = <<>> => Head(s) = v)
    <2>1. s[Len(s)] = v
      BY <1>4 DEF Ends
    <2>2. Tail(s) = <<>> => Head(s) = v
      BY <1>1, <2>1
    <2>3. ASSUME Tail(s) # <<>> PROVE Tail(s)[Len(Tail(s))] = v
      <3>1. Len(s) - 1 \in 1..(Len(s) - 1) /\ (Len(s) - 1) + 1 = Len(s)
        BY <1>1, <2>3
      <3>2. Tail(s)[Len(s) - 1] = s[(Len(s) - 1) + 1]
        BY <1>1, <3>1
      <3> QED
        BY <1>1, <2>1, <3>1, <3>2
    <2> QED
      BY <2>2, <2>3 DEF Ends
  <1> QED
    BY <1>1, <1>2, <1>3, <1>4

\* Opening the map holds the choice back, and closing it gives the choice back.
LEMMA Switched ==
    ASSUME CoordInv, mode \in Modes, NEW m \in Modes, m # mode, Len(flight) < MaxFlight,
           CASE m = "minimap" /\ held = {} ->
                  Suppress(coords, flight) /\ clean' = (clean /\ flight = <<>>)
             [] mode = "minimap" /\ held # {} -> Restore /\ UNCHANGED clean
             [] OTHER -> UNCHANGED <<coords, held, mapFile, flight, clean>>,
           mode' = m, wish' = wish
    PROVE  CoordInv'
  <1> USE Bounds
  <1>0. flight \in Seq(BOOLEAN) /\ Len(flight) \in Nat /\ coords \in BOOLEAN /\ wish \in BOOLEAN
        /\ clean \in BOOLEAN
    BY LenProperties DEF CoordInv
  <1>1. CASE m = "minimap"
    <2>1. mode # "minimap" /\ held = {} /\ mapFile = FALSE
      BY <1>1 DEF CoordInv
    <2>2. Suppress(coords, flight) /\ clean' = (clean /\ flight = <<>>)
      BY <1>1, <2>1
    <2>3. /\ held' = {coords} /\ mapFile' = TRUE /\ coords' = FALSE
          /\ flight' = IF coords THEN Append(flight, FALSE) ELSE flight
      BY <2>2 DEF Suppress, Remembered
    <2>4. flight' \in Seq(BOOLEAN) /\ Len(flight') <= MaxFlight
      <3>1. flight' = Append(flight, FALSE) \/ flight' = flight
        BY <2>3, Zenon
      <3>2. FALSE \in BOOLEAN
        OBVIOUS
      <3>3. /\ Append(flight, FALSE) \in Seq(BOOLEAN)
            /\ Len(Append(flight, FALSE)) = Len(flight) + 1
        BY <1>0, <3>2, Sent, Zenon
      <3> DEFINE sent == Append(flight, FALSE)
      <3> HIDE DEF sent
      <3>4. sent \in Seq(BOOLEAN) /\ Len(sent) <= MaxFlight
        BY <1>0, <3>3 DEF sent
      <3>5. flight' = sent \/ flight' = flight
        BY <3>1 DEF sent
      <3> QED
        BY <1>0, <3>4, <3>5
    <2>5. ASSUME clean' PROVE held' = {wish} /\ Off(flight')
      <3>1. clean /\ flight = <<>> /\ coords = wish
        BY <2>1, <2>2, <2>5 DEF CoordInv
      <3>2. Off(flight)
        BY <3>1 DEF Off
      <3> QED
        BY <1>0, <2>3, <3>1, <3>2, Sent
    <2>6. clean' \in BOOLEAN
      BY <1>0, <2>2
    <2> QED
      BY <1>0, <1>1, <2>3, <2>4, <2>5, <2>6 DEF CoordInv
  <1>2. CASE mode = "minimap"
    <2>1. PICK v \in BOOLEAN : held = {v}
      BY <1>2 DEF CoordInv
    <2>2. Restore /\ clean' = clean
      BY <1>2, <2>1
    <2>3. held' = {} /\ mapFile' = FALSE /\ coords' = v
          /\ IF v # coords THEN flight' = Append(flight, v) ELSE flight' = flight
      BY <2>1, <2>2 DEF Restore, SendCoords
    <2>4. flight' \in Seq(BOOLEAN) /\ Len(flight') <= MaxFlight
      <3>1. flight' = Append(flight, v) \/ flight' = flight
        BY <2>3, Zenon
      <3> QED
        BY <1>0, <3>1, Sent
    <2>5. ASSUME clean PROVE Ends(flight', wish) /\ (flight' = <<>> => coords' = wish)
      <3>1. v = wish /\ coords = FALSE /\ Off(flight)
        BY <1>2, <2>1, <2>5 DEF CoordInv
      <3>2. CASE v = TRUE
        BY <1>0, <2>3, <3>1, <3>2, Sent
      <3>3. CASE v = FALSE
        <4>1. flight' = flight
          BY <2>3, <3>1, <3>3
        <4>2. flight # <<>> => flight[Len(flight)] = FALSE
          BY <1>0, <3>1, EmptySeq DEF Off
        <4> QED
          BY <2>3, <3>1, <3>3, <4>1, <4>2 DEF Ends
      <3> QED
        BY <3>2, <3>3
    <2> QED
      BY <1>0, <1>2, <2>2, <2>3, <2>4, <2>5 DEF CoordInv
  <1>3. CASE m # "minimap" /\ mode # "minimap"
    <2>1. UNCHANGED <<coords, held, mapFile, flight, clean>>
      BY <1>3
    <2> QED
      BY <1>0, <1>3, <2>1 DEF CoordInv
  <1> QED
    BY <1>1, <1>2, <1>3

\* A choice is sent last, and the map is not open.
LEMMA Chosen ==
    ASSUME CoordInv, mode # "minimap", NEW v \in BOOLEAN, Choose(v)
    PROVE  CoordInv'
  <1> USE Bounds
  <1>1. /\ coords' = v /\ wish' = v /\ clean' = TRUE /\ flight' = Append(flight, v)
        /\ mode' = mode /\ held' = held /\ mapFile' = mapFile /\ Len(flight) < MaxFlight
    BY DEF Choose, SendCoords
  <1>2. flight \in Seq(BOOLEAN) /\ Len(flight) \in Nat /\ mapFile = FALSE /\ held = {}
    BY LenProperties DEF CoordInv
  <1> DEFINE sent == Append(flight, v)
  <1>3. sent \in Seq(BOOLEAN) /\ Len(sent) = Len(flight) + 1 /\ Ends(sent, v) /\ sent # <<>>
    BY <1>2, Sent
  <1>4. flight' = sent
    BY <1>1
  <1> HIDE DEF sent
  <1>5. Len(sent) <= MaxFlight
    BY <1>1, <1>2, <1>3
  <1> QED
    BY <1>1, <1>2, <1>3, <1>4, <1>5 DEF CoordInv

\* A line that comes back says what the last one will, or off.
LEMMA Returned ==
    ASSUME CoordInv, flight # <<>>, flight' = Tail(flight), coords' = Head(flight),
           UNCHANGED <<mode, held, mapFile, wish, clean>>
    PROVE  CoordInv'
  <1> USE Bounds
  <1>1. flight \in Seq(BOOLEAN) /\ Len(flight) \in Nat /\ Len(flight) <= MaxFlight
    BY LenProperties DEF CoordInv
  <1> DEFINE t == Tail(flight)
             h == Head(flight)
  <1>2. /\ t \in Seq(BOOLEAN) /\ Len(t) = Len(flight) - 1 /\ h \in BOOLEAN
        /\ Off(flight) => Off(t) /\ h = FALSE
        /\ Ends(flight, wish) => Ends(t, wish) /\ (t = <<>> => h = wish)
    BY <1>1, CameBack
  <1>3. flight' = t /\ coords' = h
    OBVIOUS
  <1> HIDE DEF t, h
  <1>4. Len(t) <= MaxFlight
    BY <1>1, <1>2
  <1> QED
    BY <1>2, <1>3, <1>4 DEF CoordInv

----
(* The steps.                                                               *)

\* Everything but the coordinates setting, the screen and the row.
Rest ==
    /\ <<backend, narrow>>' = <<backend, narrow>>
    /\ due' \in BOOLEAN /\ polling' \in BOOLEAN
    /\ snap' \in States /\ net' \in 0..MaxPeers /\ lines' \in 0..MaxLines

LEMMA Kept ==
    ASSUME DataInv, Rest, mode' \in Modes, panel' \in Names, row' \in 0..(18 + MaxPeers),
           focus' \in BOOLEAN, pending' \in BOOLEAN
    PROVE  DataInv' /\ backend' = backend
  BY DEF DataInv, Rest

LEMMA Unchanged == ASSUME CoordInv, KeepCoords, mode' = mode PROVE CoordInv'
  BY DEF CoordInv, KeepCoords

LEMMA SwitchToKeeps ==
    ASSUME OverlayInv, NEW m \in Modes, m # mode, SwitchTo(m),
           UNCHANGED <<backend, narrow, due, polling, snap, lines>>
    PROVE  OverlayInv'
  <1> USE Bounds DEF OverlayInv
  <1>1. /\ Len(flight) < MaxFlight /\ mode' = m /\ focus' = FALSE /\ wish' = wish
        /\ CASE m = "minimap" /\ held = {} ->
                  Suppress(coords, flight) /\ clean' = (clean /\ flight = <<>>)
             [] mode = "minimap" /\ held # {} -> Restore /\ UNCHANGED clean
             [] OTHER -> UNCHANGED <<coords, held, mapFile, flight, clean>>
        /\ RebuildUi(m, panel) /\ Sync /\ UNCHANGED <<panel, row, net>>
    BY DEF SwitchTo
  <1>2. CoordInv'
    BY <1>1, Switched DEF DataInv
  <1>3. ScreenInv' /\ pending' = FALSE
    BY <1>1, Rebuilt DEF DataInv
  <1>4. DataInv'
    BY <1>1, <1>3 DEF DataInv
  <1>5. SwitchInv'
    BY <1>1, <1>2, <1>3, Synced DEF CoordInv
  <1> QED
    BY <1>2, <1>3, <1>4, <1>5

LEMMA RefocusKeeps ==
    ASSUME OverlayInv, NEW f \in BOOLEAN, NEW r \in 0..(18 + MaxPeers), Refocus(f, r),
           UNCHANGED <<backend, narrow, due, polling, snap, lines>>
    PROVE  OverlayInv'
  <1> USE DEF OverlayInv
  <1>1. /\ focus' = f /\ row' = r /\ RebuildUi(mode, panel) /\ KeepCoords /\ Sync
        /\ UNCHANGED <<mode, panel, net>>
    BY DEF Refocus
  <1>2. CoordInv'
    BY <1>1, Unchanged
  <1>3. ScreenInv' /\ pending' = FALSE
    BY <1>1, Rebuilt DEF DataInv
  <1>4. DataInv'
    BY <1>1, <1>3 DEF DataInv
  <1>5. SwitchInv'
    BY <1>1, <1>2, <1>3, Synced DEF CoordInv
  <1> QED
    BY <1>2, <1>3, <1>4, <1>5

LEMMA GoToKeeps ==
    ASSUME OverlayInv, NEW p \in Names, NEW n \in 0..MaxPeers, GoTo(p, n), Rest
    PROVE  OverlayInv'
  <1> USE DEF OverlayInv
  <1>1. SetActivePanel(p, n) /\ KeepCoords /\ Sync /\ mode' = mode /\ backend' = backend
    BY DEF GoTo, Rest
  <1>2. CoordInv'
    BY <1>1, Unchanged
  <1>3. ScreenInv' /\ pending' = FALSE /\ panel' = p /\ row' = 0 /\ focus' = FALSE
    BY <1>1, Activated
  <1>4. DataInv'
    <2>1. row' \in 0..(18 + MaxPeers) /\ mode' \in Modes
      BY <1>1, <1>3, Bounds DEF DataInv
    <2> QED
      BY <1>3, <2>1, Kept
  <1>5. SwitchInv'
    BY <1>1, <1>2, <1>3, Synced DEF CoordInv
  <1> QED
    BY <1>2, <1>3, <1>4, <1>5

LEMMA ChooseKeeps ==
    ASSUME OverlayInv, mode = "menu", NEW v \in BOOLEAN, Choose(v),
           UNCHANGED <<backend, narrow, due, polling, snap, lines>>
    PROVE  OverlayInv'
  <1> USE DEF OverlayInv
  <1>1. UNCHANGED <<mode, panel, focus, row, shown, handles, tree, pending, drawn, net>> /\ Sync
    BY DEF Choose, panelVars, screenVars
  <1>2. CoordInv'
    BY Chosen
  <1>3. ScreenInv'
    BY <1>1 DEF ScreenInv
  <1>4. DataInv'
    BY <1>1 DEF DataInv
  <1>5. SwitchInv'
    BY <1>1, <1>2, <1>3, Synced DEF CoordInv
  <1> QED
    BY <1>2, <1>3, <1>4, <1>5

\* A key that moves the focus stays within the rows of the panel on the screen.
LEMMA DownStays ==
    ASSUME OverlayInv
    PROVE  LET last == IF RowCount > 0 THEN RowCount - 1 ELSE 0
           IN  (IF row < last THEN row + 1 ELSE last) \in 0..(18 + MaxPeers)
  <1> USE Bounds DEF OverlayInv
  <1>1. RowCount \in 0..(18 + MaxPeers)
    <2>1. CASE shown = NoPanel
      BY <2>1 DEF RowCount, NoPanel
    <2>2. CASE shown # NoPanel
      <3>1. PICK s \in States, n \in 0..MaxPeers : shown = Panel(panel, s, n)
        BY <2>2 DEF ScreenInv
      <3>2. shown.rows = Rows(panel, s, n)
        BY <3>1 DEF Panel
      <3> QED
        BY <3>2, RowsBounded DEF RowCount, DataInv
    <2> QED
      BY <2>1, <2>2
  <1>2. row \in 0..(18 + MaxPeers)
    BY DEF DataInv
  <1> QED
    BY <1>1, <1>2

LEMMA KeyKeeps == ASSUME OverlayInv, Key PROVE OverlayInv'
  <1> USE Bounds
  <1>0. /\ UNCHANGED <<backend, narrow, due, polling, snap, lines>>
        /\ mode \in Modes /\ panel \in Names /\ focus \in BOOLEAN /\ row \in 0..(18 + MaxPeers)
        /\ net \in 0..MaxPeers /\ snap \in States /\ lines \in 0..MaxLines /\ 0 \in 0..(18 + MaxPeers)
        /\ due \in BOOLEAN /\ polling \in BOOLEAN /\ (~coords) \in BOOLEAN
    BY DEF Key, OverlayInv, DataInv, CoordInv
  <1>1. CASE MenuKey
    <2>1. PICK m \in {"hidden", "menu"} : m # mode /\ SwitchTo(m)
      BY <1>1 DEF MenuKey
    <2> QED
      BY <1>0, <2>1, SwitchToKeeps DEF Modes
  <1>2. CASE MapKey
    <2>1. PICK m \in {"hidden", "minimap"} : m # mode /\ SwitchTo(m)
      BY <1>2 DEF MapKey
    <2> QED
      BY <1>0, <2>1, SwitchToKeeps DEF Modes
  <1>3. CASE ShowKey
    BY <1>0, <1>3, SwitchToKeeps DEF ShowKey, Modes
  <1>4. CASE HideKey
    BY <1>0, <1>4, SwitchToKeeps DEF HideKey, Modes
  <1>5. CASE Up
    <2>1. CASE focus
      <3> DEFINE r == IF row > 0 THEN row - 1 ELSE 0
      <3>1. r \in 0..(18 + MaxPeers)
        BY <1>0
      <3>2. Refocus(TRUE, r)
        BY <1>5, <2>1 DEF Up
      <3> QED
        BY <1>0, <3>1, <3>2, RefocusKeeps
    <2>2. CASE ~focus
      <3>1. GoTo(Step(-1), net) /\ net' = net
        BY <1>5, <2>2 DEF Up
      <3>2. Step(-1) \in Names
        BY <1>0, StepStays
      <3> QED
        BY <1>0, <3>1, <3>2, GoToKeeps DEF Rest
    <2> QED
      BY <2>1, <2>2
  <1>6. CASE Down
    <2>1. CASE focus
      <3> DEFINE last == IF RowCount > 0 THEN RowCount - 1 ELSE 0
                 r    == IF row < last THEN row + 1 ELSE last
      <3>1. r \in 0..(18 + MaxPeers)
        BY DownStays
      <3>2. Refocus(TRUE, r)
        BY <1>6, <2>1 DEF Down
      <3> QED
        BY <1>0, <3>1, <3>2, RefocusKeeps
    <2>2. CASE ~focus
      <3>1. GoTo(Step(1), net) /\ net' = net
        BY <1>6, <2>2 DEF Down
      <3>2. Step(1) \in Names
        BY <1>0, StepStays
      <3> QED
        BY <1>0, <3>1, <3>2, GoToKeeps DEF Rest
    <2> QED
      BY <2>1, <2>2
  <1>7. CASE Left
    <2>1. CASE focus
      <3>1. Refocus(FALSE, row)
        BY <1>7, <2>1 DEF Left
      <3> QED
        BY <1>0, <3>1, RefocusKeeps
    <2>2. CASE ~focus
      <3>1. mode = "menu" /\ SwitchTo("hidden")
        BY <1>7, <2>2 DEF Left
      <3> QED
        BY <1>0, <3>1, SwitchToKeeps DEF Modes
    <2> QED
      BY <2>1, <2>2
  <1>8. CASE Right
    <2>1. Refocus(TRUE, 0)
      BY <1>8 DEF Right
    <2> QED
      BY <1>0, <2>1, RefocusKeeps
  <1>9. CASE Enter
    <2>1. CASE mode = "hidden"
      <3>1. SwitchTo("menu")
        BY <1>9, <2>1 DEF Enter
      <3> QED
        BY <1>0, <2>1, <3>1, SwitchToKeeps DEF Modes
    <2>2. CASE mode = "minimap"
      <3>1. Refocus(focus, row)
        BY <1>9, <2>2 DEF Enter
      <3> QED
        BY <1>0, <3>1, RefocusKeeps
    <2>3. CASE mode = "menu" /\ ~focus
      <3>1. Refocus(TRUE, 0)
        BY <1>9, <2>3 DEF Enter
      <3> QED
        BY <1>0, <3>1, RefocusKeeps
    <2>4. CASE mode = "menu" /\ focus
      <3>1. Choose(~coords) \/ Refocus(focus, row)
        BY <1>9, <2>4 DEF Enter
      <3> QED
        BY <1>0, <2>4, <3>1, RefocusKeeps, ChooseKeeps
    <2> QED
      BY <1>0, <2>1, <2>2, <2>3, <2>4 DEF Modes
  <1> QED
    BY <1>1, <1>2, <1>3, <1>4, <1>5, <1>6, <1>7, <1>8, <1>9 DEF Key

LEMMA MouseKeeps == ASSUME OverlayInv, Mouse PROVE OverlayInv'
  <1> USE Bounds
  <1>0. /\ UNCHANGED <<backend, narrow, due, polling, snap, lines>> /\ mode = "menu"
        /\ net \in 0..MaxPeers /\ snap \in States /\ lines \in 0..MaxLines
        /\ due \in BOOLEAN /\ polling \in BOOLEAN /\ (~switch) \in BOOLEAN
    BY DEF Mouse, OverlayInv, DataInv, SwitchInv
  <1>1. ASSUME NEW p \in ToSet(Panels), GoTo(p, net), net' = net PROVE OverlayInv'
    BY <1>0, <1>1, PanelNames, GoToKeeps DEF Rest
  <1>2. ASSUME NEW control, Click(control) PROVE OverlayInv'
    <2>1. CASE Choose(~switch)
      BY <1>0, <2>1, ChooseKeeps
    <2>2. CASE GoTo("developer", net) /\ net' = net
      <3>1. "developer" \in Names
        BY DEF Names
      <3> QED
        BY <1>0, <2>2, <3>1, GoToKeeps DEF Rest
    <2>3. CASE net' = 0 /\ GoTo("link", net')
      <3>1. "link" \in Names /\ 0 \in 0..MaxPeers
        BY DEF Names
      <3>2. GoTo("link", 0) /\ Rest
        BY <1>0, <2>3, <3>1 DEF Rest
      <3> QED
        BY <3>1, <3>2, GoToKeeps
    <2> QED
      BY <1>2, <2>1, <2>2, <2>3 DEF Click
  <1> QED
    BY <1>1, <1>2 DEF Mouse

\* A request for a rebuild leaves the screen as it is.
LEMMA LineKeeps == ASSUME OverlayInv, Line PROVE OverlayInv'
  <1> USE Bounds DEF OverlayInv
  <1>0. /\ polling' = TRUE /\ UNCHANGED <<backend, narrow, mode, shown, handles, tree, drawn>>
        /\ UNCHANGED <<panel, focus, row>>
    BY DEF Line, panelVars
  <1>1. ScreenInv'
    BY <1>0 DEF ScreenInv
  <1>2. ASSUME NEW w, RequestRebuild(w) PROVE pending' \in BOOLEAN /\ due' \in BOOLEAN
    BY <1>2 DEF RequestRebuild, DataInv
  <1>3. CASE MavlinkLine
    <2>1. lines' \in 0..MaxLines /\ snap' \in States /\ net' = net /\ UNCHANGED <<coordVars, wish, clean>>
      BY <1>3 DEF MavlinkLine, DataInv, States
    <2>2. pending' \in BOOLEAN /\ due' \in BOOLEAN
      BY <1>3, <1>2 DEF MavlinkLine
    <2>3. DataInv'
      BY <1>0, <2>1, <2>2 DEF DataInv
    <2>4. CoordInv' /\ SwitchInv'
      BY <1>0, <2>1 DEF CoordInv, SwitchInv, coordVars
    <2> QED
      BY <1>1, <2>3, <2>4
  <1>4. CASE NetworkLine
    <2>1. lines' \in 0..MaxLines /\ net' \in 0..MaxPeers /\ snap' = snap /\ UNCHANGED <<coordVars, wish, clean>>
      BY <1>4 DEF NetworkLine, DataInv
    <2>2. pending' \in BOOLEAN /\ due' \in BOOLEAN
      BY <1>4, <1>2 DEF NetworkLine
    <2>3. DataInv'
      BY <1>0, <2>1, <2>2 DEF DataInv
    <2>4. CoordInv' /\ SwitchInv'
      BY <1>0, <2>1 DEF CoordInv, SwitchInv, coordVars
    <2> QED
      BY <1>1, <2>3, <2>4
  <1>5. CASE CoordsLine
    <2>1. /\ flight # <<>> /\ flight' = Tail(flight) /\ coords' = Head(flight)
          /\ switch' = (IF "osd" \in handles THEN coords' ELSE FALSE)
          /\ UNCHANGED <<pending, due, snap, net, held, mapFile, wish, clean, lines>>
      BY <1>5 DEF CoordsLine
    <2>2. CoordInv'
      BY <1>0, <2>1, Returned
    <2>3. DataInv'
      BY <1>0, <2>1 DEF DataInv
    <2>4. SwitchInv'
      BY <1>0, <2>1, <2>2 DEF SwitchInv, CoordInv, ScreenInv
    <2> QED
      BY <1>1, <2>2, <2>3, <2>4
  <1> QED
    BY <1>3, <1>4, <1>5 DEF Line

LEMMA PollKeeps == ASSUME OverlayInv, PollEnd \/ Elapsed PROVE OverlayInv'
  <1>1. CASE PollEnd /\ pending /\ due
    <2>1. GoTo(panel, net) /\ Rest /\ panel \in Names /\ net \in 0..MaxPeers
      BY <1>1 DEF PollEnd, Rest, OverlayInv, DataInv
    <2> QED
      BY <2>1, GoToKeeps
  <1>2. CASE PollEnd /\ ~(pending /\ due)
    <2>1. /\ polling' = FALSE /\ KeepCoords
          /\ UNCHANGED <<backend, narrow, due, snap, net, lines, mode, switch>>
          /\ UNCHANGED <<panel, focus, row, shown, handles, tree, pending, drawn>>
      BY <1>2 DEF PollEnd, panelVars, screenVars
    <2>2. CoordInv'
      BY <2>1, Unchanged DEF OverlayInv
    <2>3. DataInv'
      BY <2>1 DEF OverlayInv, DataInv
    <2>4. ScreenInv'
      BY <2>1 DEF OverlayInv, ScreenInv
    <2>5. SwitchInv'
      BY <2>1 DEF OverlayInv, SwitchInv, KeepCoords
    <2> QED
      BY <2>2, <2>3, <2>4, <2>5 DEF OverlayInv
  <1>3. CASE Elapsed
    <2>1. /\ due' = TRUE /\ UNCHANGED <<backend, narrow, mode, panel, focus, row>>
          /\ UNCHANGED <<shown, handles, tree, pending, drawn, polling, snap, net, lines>>
          /\ UNCHANGED <<coords, switch, held, mapFile, flight, wish, clean>>
      BY <1>3 DEF Elapsed, panelVars, screenVars, coordVars
    <2> QED
      BY <2>1 DEF OverlayInv, DataInv, ScreenInv, SwitchInv, CoordInv
  <1> QED
    BY <1>1, <1>2, <1>3

\* A restart begins with nothing, or with the map that was open.
LEMMA RestartKeeps == ASSUME OverlayInv, Restart PROVE OverlayInv'
  <1> USE Bounds DEF OverlayInv
  <1>0. /\ backend' = backend /\ narrow' = narrow /\ wish' = wish /\ lines' = lines
        /\ panel' = "dashboard" /\ focus' = FALSE /\ row' = 0 /\ shown' = NoPanel
        /\ pending' = FALSE /\ due' = TRUE /\ polling' = FALSE /\ snap' = Unknown /\ net' = 0
        /\ switch' = FALSE /\ handles' = tree' /\ drawn' = Drawn(mode')
        /\ clean' = (clean /\ ~mapFile /\ flight = <<>>)
        /\ mode' = (IF mapFile THEN "minimap" ELSE "hidden")
        /\ tree' = (IF mapFile THEN {"map"} ELSE {})
    BY DEF Restart
  <1>1. DataInv'
    <2>1. snap' \in States
      BY <1>0 DEF States
    <2>2. mode' \in Modes /\ panel' \in Names
      BY <1>0 DEF Modes, Names
    <2>3. 0 \in 0..MaxPeers /\ 0 \in 0..(18 + MaxPeers)
      OBVIOUS
    <2> QED
      BY <1>0, <2>1, <2>2, <2>3 DEF DataInv
  <1>2. ScreenInv' /\ SwitchInv'
    <2>1. CASE mapFile
      <3>1. tree' = {"map"} /\ mode' = "minimap" /\ drawn' = (backend = "buffer")
        BY <1>0, <2>1 DEF Drawn
      <3> QED
        BY <1>0, <3>1 DEF ScreenInv, SwitchInv, Objects
    <2>2. CASE ~mapFile
      <3>1. tree' = {} /\ mode' = "hidden" /\ drawn' = FALSE
        BY <1>0, <2>2 DEF Drawn
      <3> QED
        BY <1>0, <3>1 DEF ScreenInv, SwitchInv, Objects
    <2> QED
      BY <2>1, <2>2
  <1>3. CoordInv'
    <2>1. PICK v \in {coords} \cup ToSet(flight) :
             IF mapFile THEN Suppress(coords, <<v>>)
             ELSE flight' = <<v>> /\ held' = {} /\ UNCHANGED <<coords, mapFile>>
      BY DEF Restart
    <2>2. /\ flight \in Seq(BOOLEAN) /\ coords \in BOOLEAN /\ wish \in BOOLEAN
          /\ clean \in BOOLEAN /\ mapFile = (mode = "minimap")
      BY DEF CoordInv
    <2>3. v \in BOOLEAN /\ (flight = <<>> => v = coords)
      BY <2>1, <2>2, ElementOfSeq, LenProperties, EmptySeq DEF ToSet
    <2>4. CASE mapFile
      <3>1. held' = {coords} /\ mapFile' = TRUE /\ coords' = FALSE
            /\ flight' = IF coords THEN Append(<<v>>, FALSE) ELSE <<v>>
        BY <2>1, <2>4 DEF Suppress, Remembered
      <3> DEFINE one == <<v>>
      <3>2. one \in Seq(BOOLEAN) /\ Len(one) = 1
        BY <2>3
      <3> HIDE DEF one
      <3> DEFINE two == Append(one, FALSE)
      <3>3. two \in Seq(BOOLEAN) /\ Len(two) = Len(one) + 1
        BY <3>2, Sent, FALSE \in BOOLEAN, Zenon
      <3>4. flight' = one \/ flight' = two
        BY <3>1, Zenon DEF one
      <3> HIDE DEF two
      <3>5. flight' \in Seq(BOOLEAN) /\ Len(flight') <= MaxFlight
        <4>1. Len(one) <= MaxFlight
          BY <3>2
        <4>2. Len(two) <= MaxFlight
          BY <3>2, <3>3
        <4> QED
          BY <3>2, <3>3, <3>4, <4>1, <4>2, Zenon
      <3>6. clean' = FALSE /\ mode' = "minimap"
        BY <1>0, <2>4
      <3>7. \E w \in BOOLEAN : held' = {w}
        BY <2>2, <3>1, Zenon
      <3> QED
        BY <1>0, <2>2, <3>1, <3>5, <3>6, <3>7 DEF CoordInv
    <2>5. CASE ~mapFile
      <3>1. flight' = <<v>> /\ held' = {} /\ coords' = coords /\ mapFile' = FALSE
        BY <2>1, <2>2, <2>5
      <3>2. /\ flight' \in Seq(BOOLEAN) /\ Len(flight') = 1 /\ Ends(flight', v)
            /\ flight' # <<>>
        BY <2>3, <3>1 DEF Ends
      <3>3. ASSUME clean' PROVE v = wish
        BY <1>0, <2>2, <2>3, <2>5, <3>3 DEF CoordInv
      <3>4. mode' = "hidden" /\ clean' \in BOOLEAN
        BY <1>0, <2>2, <2>5
      <3> QED
        <4>1. clean' => Ends(flight', wish')
          BY <1>0, <3>2, <3>3, Zenon
        <4>2. wish' \in BOOLEAN /\ coords' \in BOOLEAN /\ Len(flight') <= MaxFlight
          BY <1>0, <2>2, <3>1, <3>2
        <4> QED
          BY <3>1, <3>2, <3>4, <4>1, <4>2 DEF CoordInv
    <2> QED
      BY <2>4, <2>5
  <1> QED
    BY <1>1, <1>2, <1>3

LEMMA InitHolds == ASSUME Init PROVE OverlayInv
  <1> USE Bounds
  <1>1. DataInv
    <2>1. <<backend, narrow>> \in Setups
      <3>1. PICK s \in Setups : backend = s[1] /\ narrow = s[2]
        BY DEF Init
      <3>2. s = <<s[1], s[2]>>
        BY OverlayAssumption DEF OverlayAssumption
      <3> QED
        BY <3>1, <3>2
    <2>2. snap \in States /\ mode \in Modes /\ panel \in Names
      BY DEF Init, Modes, Names, States
    <2>3. 0 \in 0..MaxPeers /\ 0 \in 0..(18 + MaxPeers) /\ MaxLines \in 0..MaxLines
      OBVIOUS
    <2>4. row = 0 /\ net = 0 /\ lines = MaxLines /\ focus = FALSE /\ pending = FALSE
          /\ due = TRUE /\ polling = FALSE
      BY DEF Init
    <2> QED
      BY <2>1, <2>2, <2>3, <2>4 DEF DataInv
  <1>2. ScreenInv /\ SwitchInv
    BY DEF Init, ScreenInv, SwitchInv, Objects
  <1>3. CoordInv
    <2>1. coords \in BOOLEAN /\ flight = <<coords>> /\ wish = coords /\ clean = TRUE
          /\ held = {} /\ mapFile = FALSE /\ mode = "hidden"
      BY DEF Init
    <2>2. flight \in Seq(BOOLEAN) /\ Len(flight) = 1 /\ flight # <<>> /\ Ends(flight, wish)
      BY <2>1 DEF Ends
    <2>3. Len(flight) <= MaxFlight /\ wish \in BOOLEAN /\ clean \in BOOLEAN /\ mapFile \in BOOLEAN
          /\ mapFile = (mode = "minimap") /\ mode # "minimap"
      <3>1. Len(flight) <= MaxFlight
        BY <2>2
      <3>2. mode # "minimap"
        BY <2>1
      <3> QED
        BY <2>1, <3>1, <3>2, Zenon
    <2> QED
      BY <2>1, <2>2, <2>3, Zenon DEF CoordInv
  <1> QED
    BY <1>1, <1>2, <1>3 DEF OverlayInv

LEMMA OverlayInductive == Spec => []OverlayInv
  <1>1. Init => OverlayInv
    BY InitHolds
  <1>2. OverlayInv /\ [Next]_vars => OverlayInv'
    <2> SUFFICES ASSUME OverlayInv, [Next]_vars PROVE OverlayInv'
      OBVIOUS
    <2>1. CASE UNCHANGED vars
      BY <2>1 DEF vars, panelVars, screenVars, coordVars, OverlayInv, DataInv, ScreenInv,
                  SwitchInv, CoordInv
    <2> QED
      BY <2>1, KeyKeeps, MouseKeeps, LineKeeps, PollKeeps, RestartKeeps DEF Next
  <1> QED
    BY <1>1, <1>2, PTL DEF Spec

----
(* The theorems.                                                            *)

\* No pointer to an LVGL object that was deleted is kept, whatever builds the
\* screen and in whatever order (invalidate_ui_handles, clear_panel), but for the
\* one to the address field, which is good where the developer panel is shown.
THEOREM NoDanglingHandle == Spec => []HandlesLive
  <1>1. OverlayInv => HandlesLive
    BY DEF OverlayInv, ScreenInv, HandlesLive
  <1> QED
    BY <1>1, OverlayInductive, PTL

\* The mode, the map the compositor draws, the setting held back, MAP_OPEN and the
\* panel and switch on the screen agree (rebuild_ui, set_active_panel, send_gpu_map_state).
THEOREM Agreement == Spec => []OverlayAgrees
  <1>1. OverlayInv => OverlayAgrees
    <2> SUFFICES ASSUME OverlayInv PROVE OverlayAgrees
      OBVIOUS
    <2> USE DEF OverlayInv
    <2>1. TypeOK
      <3>1. {focus, pending, due, polling, coords, switch, mapFile, drawn, wish, clean} \subseteq BOOLEAN
        BY DEF DataInv, ScreenInv, SwitchInv, CoordInv
      <3>2. held \in SUBSET BOOLEAN
        BY DEF CoordInv
      <3> QED
        BY <3>1, <3>2, PanelNames DEF TypeOK, DataInv, CoordInv, Modes, States
    <2>2. Cardinality(held) = IF mode = "minimap" THEN 1 ELSE 0
      <3>1. CASE mode = "minimap"
        <4>1. PICK v \in BOOLEAN : held = {v}
          BY <3>1 DEF CoordInv
        <4> QED
          BY <3>1, <4>1, FS_Singleton
      <3>2. CASE mode # "minimap"
        BY <3>2, FS_EmptySet DEF CoordInv
      <3> QED
        BY <3>1, <3>2
    <2>3. shown # NoPanel => mode = "menu" /\ shown.panel = panel
      BY DEF ScreenInv, Panel
    <2> QED
      BY <2>1, <2>2, <2>3 DEF OverlayAgrees, ScreenInv, SwitchInv, CoordInv
  <1> QED
    BY <1>1, OverlayInductive, PTL

\* Enter does what the focused row's control says, the tables of apply_terminal_key
\* and of the build functions being two, on the panels and rows where they agree
\* and that are built from the telemetry at hand.
THEOREM EnterOnFocusedRow == Spec => []EnterActsOnFocusedRow
  <1>1. OverlayInv => EnterActsOnFocusedRow
    <2> SUFFICES ASSUME OverlayInv,
                        shown # NoPanel, shown.snap = snap, panel \notin {"link", "developer"},
                        ~(panel = "colors" /\ row >= 2), row + 1 \in DOMAIN shown.rows
                 PROVE  EnterAction(panel, row, snap) = shown.rows[row + 1]
      BY DEF EnterActsOnFocusedRow
    <2>1. PICK s \in States, n \in 0..MaxPeers : shown = Panel(panel, s, n)
      BY DEF OverlayInv, ScreenInv
    <2>2. shown.rows = Rows(panel, s, n) /\ s = snap
      BY <2>1 DEF Panel
    <2>3. panel \in Names \ {"link", "developer"} /\ row \in Nat /\ n \in Nat
      BY Bounds DEF OverlayInv, DataInv
    <2> QED
      BY <2>2, <2>3, EnterAgrees
  <1> QED
    BY <1>1, OverlayInductive, PTL

\* Closing the map gives the user's choice of the coordinates read-out back
\* (suppress_ and restore_separate_coordinates_..._map), unless the map was opened
\* while earlier changes were under way or glide-ui restarted with the map open.
THEOREM ChoiceReturns == Spec => []CoordinatesReturn
  <1>1. OverlayInv => CoordinatesReturn
    BY DEF OverlayInv, CoordInv, CoordinatesReturn
  <1> QED
    BY <1>1, OverlayInductive, PTL
====

---- MODULE Overlay ----
(***************************************************************************)
(* glide-ui's overlay (src/glide_ui/main.cpp): the menu with its panels,   *)
(* the minimap, and nothing, moved between by keys, by the mouse and by    *)
(* lines of the controller; the LVGL objects it keeps raw pointers to; and *)
(* the coordinates read-out it switches off while the minimap is open.     *)
(*                                                                         *)
(* The connection to the controller is up throughout (ControlBus has its   *)
(* losses).  A row of a panel is named for what its control does, "none"   *)
(* for a row that only shows a value.                                      *)
(***************************************************************************)
EXTENDS Integers, Sequences, FiniteSets, SequencesExt

CONSTANTS
    Setups,           \* --buffer or --preview, and whether the screen is too narrow for a panel
    Snaps,            \* what telemetry says: an ARTOSYN radio, and rows there is data for
    MaxLines,         \* telemetry and network lines the controller sends
    MaxPeers,         \* peers the network discovery reports
    MaxFlight         \* changes of the coordinates setting under way at once

ASSUME OverlayAssumption ==
    /\ Setups \subseteq {"buffer", "sdl"} \X BOOLEAN
    /\ Snaps \subseteq [artosyn : BOOLEAN, extra : 0..5]  \* the rows build_rc_panel shows at times
    /\ MaxLines \in Nat /\ MaxPeers \in Nat /\ MaxFlight \in Nat \ {0, 1}

VARIABLES
    backend, narrow,  \* the member of Setups
    mode,             \* overlay_mode
    panel, focus, row,\* active_panel, focus_panel, selected_row
    shown,            \* the panel on the screen: its rows and the data they show
    handles,          \* groups of lv_obj_t pointers of UiState that are not null
    tree,             \* groups whose objects exist
    pending, due,     \* panel_rebuild_pending, now >= next_panel_rebuild
    polling,          \* within poll_ipc
    snap, net,        \* what glide-ui knows of the link, and of the network
    coords, switch,   \* coordinates_enabled, and the position of its switch
    held,             \* {coordinates_before_map} while map_coordinates_suppressed, or {}
    mapFile,          \* MAP_OPEN in the settings file, map_restore_open
    drawn,            \* the compositor draws the map
    flight,           \* "set coords" lines whose "state coords" has not come back
    wish, clean,      \* history: the user's choice; it must come back
    lines             \* what is left of MaxLines

panelVars == <<panel, focus, row>>
screenVars == <<shown, handles, tree, pending, drawn>>
coordVars == <<coords, switch, held, mapFile, flight>>
vars == <<backend, narrow, mode, panelVars, screenVars, due, polling, snap, net,
          coordVars, wish, clean, lines>>

Panels == <<"dashboard", "link", "video", "camera", "osd", "telemetry", "recording",
            "system", "developer", "colors">>

Unknown == [artosyn |-> FALSE, extra |-> 0]
NoPanel == [panel |-> "none", rows |-> <<>>, snap |-> Unknown, net |-> 0]

----
(* What the panels show, from the top, and what Enter does in each row.     *)
(* advanced_visible and the messages it lists in the developer panel, below *)
(* everything else, are left out.                                           *)

Values(n) == [i \in 1..n |-> "none"]

DashboardRows(s) == Values(4) \o (IF s.artosyn THEN <<"reset", "pair">> ELSE <<"scan">>)

LinkRows(s, n) ==
    Values(9 + IF n = 0 THEN 1 ELSE n)
    \o <<"net_scan", "p2p_ground", "p2p_air">>
    \o (IF s.artosyn THEN <<"reset", "pair">>
        ELSE <<"width", "mcs", "power", "pit_on", "pit_off">>)

VideoRows == <<"resolution", "display_hz", "flow_fps", "flow_scale">> \o Values(4)
CameraRows == Values(3) \o <<"cycle_mode", "cycle_rotation", "intra_off", "intra_cyclic">>
OsdRows == <<"layout", "topbar", "fps", "coords", "map_position", "compact">>
TelemetryRows(s) == Values(8 + s.extra)
RecordingRows == Values(2) \o <<"record_off", "record_on", "record_arm">>
DeveloperRows == Values(1) \o <<"connect", "disconnect">> \o Values(6) \o <<"messages">>
ColorsRows == <<"bar_text", "bar_background", "primary", "secondary">>

Rows(p, s, n) ==
    CASE p = "dashboard" -> DashboardRows(s)
      [] p = "link"      -> LinkRows(s, n)
      [] p = "video"     -> VideoRows
      [] p = "camera"    -> CameraRows
      [] p = "osd"       -> OsdRows
      [] p = "telemetry" -> TelemetryRows(s)
      [] p = "recording" -> RecordingRows
      [] p = "system"    -> Values(4)
      [] p = "developer" -> DeveloperRows
      [] p = "colors"    -> ColorsRows

\* The first row Enter acts on, and what it does in that row and the next ones.
EnterRows_CameraOneUp(p, s) ==
    CASE p = "camera" ->
            [from |-> 2, acts |-> <<"cycle_mode", "cycle_rotation", "intra_off", "intra_cyclic">>]
      [] OTHER -> [from |-> 0, acts |-> <<>>]

EnterRows(p, s) ==
    CASE p = "dashboard" ->
            [from |-> 4, acts |-> IF s.artosyn THEN <<"reset", "pair">> ELSE <<"scan">>]
      [] p = "link" ->
            [from |-> 4, acts |-> <<"width", "mcs", "power", "pit_on", "pit_off">>]
      [] p = "video" ->
            [from |-> 0, acts |-> <<"resolution", "display_hz", "flow_fps", "flow_scale">>]
      [] p = "camera" ->
            [from |-> 3, acts |-> <<"cycle_mode", "cycle_rotation", "intra_off", "intra_cyclic">>]
      [] p = "osd" ->
            [from |-> 0, acts |-> <<"layout", "topbar", "fps", "coords", "map_position", "compact">>]
      [] p = "recording" ->
            [from |-> 2, acts |-> <<"record_off", "record_on", "record_arm">>]
      [] p = "developer" -> [from |-> 5, acts |-> <<"messages">>]
      [] p = "colors"    -> [from |-> 0, acts |-> <<"bar_text", "bar_background">>]
      [] OTHER           -> [from |-> 0, acts |-> <<>>]

EnterAction(p, r, s) ==
    LET t == EnterRows(p, s)
        i == r - t.from + 1
    IN  IF i \in DOMAIN t.acts THEN t.acts[i] ELSE "none"

\* The controls of a panel that UiState has pointers to.
Controls(p, s) ==
    CASE p = "osd"       -> {"osd"}
      [] p = "colors"    -> {"theme"}
      [] p = "video"     -> {"video"}
      [] p = "dashboard" -> IF s.artosyn THEN {} ELSE {"scan"}
      [] p = "developer" -> {"host"}
      [] OTHER           -> {}

\* Panels a line of telemetry, or of the network, asks to build again.
UsesMavlink_NotLink(p) ==
    p \in {"dashboard", "video", "camera", "telemetry", "recording", "system"}

UsesMavlink(p) ==
    p \in {"dashboard", "link", "video", "camera", "telemetry", "recording", "system"}

UsesNetwork(p) == p \in {"link", "system", "developer"}

----
(* Building the screen.  Each operator sets screenVars. *)

Panel(p, s, n) == [panel |-> p, rows |-> Rows(p, s, n), snap |-> s, net |-> n]

\* What is left of the pointers after invalidate_ui_handles and clear_panel;
\* the latter leaves the input field of the developer panel.
Invalidated == {}
Cleared_NotTheme == handles \ {"osd", "video", "scan"}
Cleared == handles \ {"osd", "theme", "video", "scan"}

\* "ui map hidden" is sent without an overlay, the map's state with the minimap;
\* the menu is built without either.
Drawn_MinimapOnly(m) == IF m = "minimap" THEN backend = "buffer" ELSE drawn

Drawn(m) ==
    CASE m = "minimap" -> backend = "buffer"
      [] m = "hidden"  -> FALSE
      [] OTHER         -> drawn

\* rebuild_ui: the whole tree goes, and the overlay m is built.
RebuildUi(m, p) ==
    LET wide  == m = "menu" /\ ~narrow
        built == CASE m = "minimap" -> {"map"}
                   [] m = "hidden"  -> {}
                   [] OTHER -> {"nav"} \cup (IF wide THEN {"panel"} \cup Controls(p, snap) ELSE {})
    IN  /\ shown' = IF wide THEN Panel(p, snap, net) ELSE NoPanel
        /\ tree' = built
        /\ handles' = Invalidated \cup built
        /\ drawn' = Drawn(m)
        /\ pending' = FALSE

\* set_active_panel builds the panel p in place, with the network state n.
SetActivePanel(p, n) ==
    /\ panel' = p /\ row' = 0 /\ focus' = FALSE
    /\ IF "panel" \notin handles
       THEN RebuildUi(mode, p)
       ELSE /\ shown' = Panel(p, snap, n)
            /\ tree' = (tree \cap {"nav", "panel"}) \cup Controls(p, snap)
            /\ handles' = Cleared \cup Controls(p, snap)
            /\ pending' = FALSE
            /\ UNCHANGED drawn

\* sync_coordinates_controls, also when the osd panel is built.
Sync == switch' = IF "osd" \in handles' THEN coords' ELSE FALSE

----
(* The coordinates read-out and the map. *)

SendCoords(v) == flight' = Append(flight, v)

Remembered_AfterHiding(v) == {FALSE}
Remembered(v) == {v}

\* suppress_separate_coordinates_for_map, with the setting at v and the lines
\* inFlight under way.
Suppress(v, inFlight) ==
    /\ held' = Remembered(v) /\ mapFile' = TRUE
    /\ coords' = FALSE
    /\ flight' = IF v THEN Append(inFlight, FALSE) ELSE inFlight

\* restore_separate_coordinates_after_map
Restore ==
    /\ held' = {} /\ mapFile' = FALSE
    /\ coords' \in held
    /\ IF coords' # coords THEN SendCoords(coords') ELSE UNCHANGED flight

KeepCoords == UNCHANGED <<coords, held, mapFile, flight, wish, clean>>

\* show_menu, hide_overlay and the two toggles, to another mode than the present.
SwitchTo(m) ==
    /\ Len(flight) < MaxFlight
    /\ mode' = m /\ focus' = FALSE
    /\ CASE m = "minimap" /\ held = {} ->
              Suppress(coords, flight) /\ clean' = (clean /\ flight = <<>>)
         [] mode = "minimap" /\ held # {} -> Restore /\ UNCHANGED clean
         [] OTHER -> UNCHANGED <<coords, held, mapFile, flight, clean>>
    /\ RebuildUi(m, panel)
    /\ Sync
    /\ UNCHANGED <<panel, row, net, wish>>

\* The user chooses the coordinates setting.
Choose(v) ==
    /\ Len(flight) < MaxFlight
    /\ coords' = v /\ SendCoords(v) /\ wish' = v /\ clean' = TRUE
    /\ UNCHANGED <<mode, panelVars, screenVars, net, held, mapFile>>
    /\ Sync

----
(* Keys: apply_terminal_key. *)

MenuKey == SwitchTo(IF mode = "menu" THEN "hidden" ELSE "menu")
MapKey  == SwitchTo(IF mode = "minimap" THEN "hidden" ELSE "minimap")

ShowKey == mode # "menu" /\ SwitchTo("menu")
HideKey == mode # "hidden" /\ SwitchTo("hidden")

\* The row, or the focus, changes and the whole overlay is built again.
Refocus(f, r) ==
    /\ focus' = f /\ row' = r
    /\ RebuildUi(mode, panel)
    /\ KeepCoords /\ Sync
    /\ UNCHANGED <<mode, panel, net>>

GoTo(p, n) == SetActivePanel(p, n) /\ KeepCoords /\ Sync /\ UNCHANGED mode

Step(by) ==
    LET i == (CHOOSE i \in DOMAIN Panels : Panels[i] = panel) + by
    IN  Panels[IF i < 1 THEN 1 ELSE IF i > Len(Panels) THEN Len(Panels) ELSE i]

RowCount == Len(shown.rows)

Up ==
    /\ mode = "menu"
    /\ IF focus THEN Refocus(TRUE, IF row > 0 THEN row - 1 ELSE 0)
       ELSE GoTo(Step(-1), net) /\ UNCHANGED net

Down ==
    /\ mode = "menu"
    /\ LET last == IF RowCount > 0 THEN RowCount - 1 ELSE 0
       IN  IF focus THEN Refocus(TRUE, IF row < last THEN row + 1 ELSE last)
           ELSE GoTo(Step(1), net) /\ UNCHANGED net

Left ==
    /\ mode = "menu"
    /\ IF focus THEN Refocus(FALSE, row) ELSE SwitchTo("hidden")

Right == mode = "menu" /\ Refocus(TRUE, 0)

\* What an action does here; the other ones are commands and settings on the bus.
Enter ==
    CASE mode = "hidden"          -> SwitchTo("menu")
      [] mode = "minimap"         -> Refocus(focus, row)
      [] mode = "menu" /\ ~focus  -> Refocus(TRUE, 0)
      [] OTHER ->
            LET act == EnterAction(panel, row, snap)
            IN  \/ act = "coords" /\ Choose(~coords)
                \/ act = "messages" /\ Refocus(focus, row)

Key ==
    /\ MenuKey \/ MapKey \/ ShowKey \/ HideKey \/ Up \/ Down \/ Left \/ Right \/ Enter
    /\ UNCHANGED <<backend, narrow, due, polling, snap, lines>>

----
(* The mouse, in lv_timer_handler: the rail, and the controls of the panel. *)

Click(control) ==
    \/ control = "coords" /\ Choose(~switch)
    \/ control = "messages" /\ GoTo("developer", net) /\ UNCHANGED net
    \/ /\ control = "net_scan"
       /\ net' = 0
       /\ GoTo("link", net')

Mouse ==
    /\ backend = "sdl" /\ mode = "menu" /\ ~polling
    /\ \/ \E p \in ToSet(Panels) : GoTo(p, net) /\ UNCHANGED net
       \/ shown # NoPanel /\ \E control \in ToSet(shown.rows) : Click(control)
    /\ UNCHANGED <<backend, narrow, due, polling, snap, lines>>

----
(* Lines of the controller and the rebuild they ask for: poll_ipc. *)

RequestRebuild(wanted) ==
    IF mode = "menu" /\ wanted THEN pending' = TRUE /\ due' = FALSE ELSE UNCHANGED <<pending, due>>

MavlinkLine ==
    /\ lines > 0 /\ lines' = lines - 1
    /\ \E s \in Snaps : snap' = s
    /\ RequestRebuild(UsesMavlink(panel))
    /\ UNCHANGED <<net, coordVars, wish, clean>>

\* apply_network_state_line: "idle" and "done" keep the peers, "scanning" clears
\* them, and "peer" adds one.
NetworkLine ==
    /\ lines > 0 /\ lines' = lines - 1
    /\ \E n \in {net, 0, net + 1} \cap 0..MaxPeers : net' = n
    /\ RequestRebuild(UsesNetwork(panel))
    /\ UNCHANGED <<snap, coordVars, wish, clean>>

CoordsLine ==
    /\ flight # <<>> /\ flight' = Tail(flight)
    /\ coords' = Head(flight)
    /\ switch' = IF "osd" \in handles THEN coords' ELSE FALSE
    /\ UNCHANGED <<pending, due, snap, net, held, mapFile, wish, clean, lines>>

Line ==
    /\ MavlinkLine \/ NetworkLine \/ CoordsLine
    /\ polling' = TRUE
    /\ UNCHANGED <<backend, narrow, mode, panelVars, shown, handles, tree, drawn>>

PollEnd ==
    /\ polling \/ (pending /\ due)
    /\ polling' = FALSE
    /\ IF pending /\ due THEN GoTo(panel, net)
       ELSE KeepCoords /\ UNCHANGED <<mode, panelVars, screenVars, switch>>
    /\ UNCHANGED <<backend, narrow, due, snap, net, lines>>

\* The 100 ms of request_panel_rebuild are over.
Elapsed ==
    /\ ~due /\ ~polling
    /\ due' = TRUE
    /\ UNCHANGED <<backend, narrow, mode, panelVars, screenVars, polling, snap, net,
                   coordVars, wish, clean, lines>>

----
(* Start, and a restart by its service, with the files of the last run. *)

Init ==
    /\ \E s \in Setups : backend = s[1] /\ narrow = s[2]
    /\ mode = "hidden" /\ panel = "dashboard" /\ focus = FALSE /\ row = 0
    /\ shown = NoPanel /\ handles = {} /\ tree = {} /\ pending = FALSE /\ drawn = FALSE
    /\ due = TRUE /\ polling = FALSE
    /\ snap = Unknown /\ net = 0
    /\ coords \in BOOLEAN /\ switch = FALSE
    /\ held = {} /\ mapFile = FALSE /\ flight = <<coords>>
    /\ wish = coords /\ clean = TRUE
    /\ lines = MaxLines

Restart ==
    /\ mode' = IF mapFile THEN "minimap" ELSE "hidden"
    /\ panel' = "dashboard" /\ focus' = FALSE /\ row' = 0
    /\ shown' = NoPanel /\ pending' = FALSE /\ drawn' = Drawn(mode')
    /\ tree' = (IF mapFile THEN {"map"} ELSE {}) /\ handles' = tree'
    /\ due' = TRUE /\ polling' = FALSE
    /\ snap' = Unknown /\ net' = 0
    /\ \E v \in {coords} \cup ToSet(flight) :
          IF mapFile THEN Suppress(coords, <<v>>)
          ELSE flight' = <<v>> /\ held' = {} /\ UNCHANGED <<coords, mapFile>>
    /\ switch' = FALSE
    /\ clean' = (clean /\ ~mapFile /\ flight = <<>>)
    /\ UNCHANGED <<backend, narrow, wish, lines>>

Next == Key \/ Mouse \/ Line \/ PollEnd \/ Elapsed \/ Restart

\* The loop goes on, and time passes.
Spec == Init /\ [][Next]_vars /\ WF_vars(PollEnd) /\ WF_vars(Elapsed)

----
TypeOK ==
    /\ <<backend, narrow>> \in Setups /\ mode \in {"menu", "minimap", "hidden"}
    /\ {focus, pending, due, polling, coords, switch, mapFile, drawn, wish, clean} \subseteq BOOLEAN
    /\ panel \in ToSet(Panels) /\ row \in 0..(18 + MaxPeers)
    /\ snap \in Snaps \cup {Unknown}
    /\ net \in 0..MaxPeers
    /\ held \in SUBSET BOOLEAN /\ flight \in Seq(BOOLEAN) /\ Len(flight) <= MaxFlight /\ lines \in 0..MaxLines

\* No pointer refers to an LVGL object that was deleted, whatever order keys,
\* clicks and lines come in (invalidate_ui_handles: "Never leave raw LVGL pointers
\* referring to that tree").  clear_panel leaves the pointer to the address field,
\* which only the developer panel uses: there it is good.
HandlesLive ==
    /\ handles \ {"host"} \subseteq tree
    /\ mode = "menu" /\ shown # NoPanel /\ panel = "developer" => "host" \in handles \cap tree

\* The overlay, the setting it holds back, the file it starts from and what the
\* compositor draws agree: the map is drawn while it is open and gone when nothing
\* is (send_gpu_map_state), and MAP_OPEN says so; the panel on the screen is the
\* active one, and its coordinates switch is where the setting is.
OverlayAgrees ==
    /\ TypeOK
    /\ Cardinality(held) = (IF mode = "minimap" THEN 1 ELSE 0) /\ mapFile = (mode = "minimap")
    /\ mode = "minimap" => drawn = (backend = "buffer")
    /\ mode = "hidden" => ~drawn
    /\ shown # NoPanel => mode = "menu" /\ shown.panel = panel
    /\ "osd" \in tree => switch = coords

\* Enter does what the row with the focus says (src/README.md:660): two tables, in
\* apply_terminal_key and the build functions.  They disagree on the link and
\* developer panels and on the last two rows of the colors panel; and a panel not
\* yet rebuilt after the radio changed shows the former radio's controls.
EnterActsOnFocusedRow ==
    mode = "menu" /\ focus /\ shown # NoPanel /\ shown.snap = snap
    /\ panel \notin {"link", "developer"} /\ ~(panel = "colors" /\ row >= 2)
    /\ row + 1 \in DOMAIN shown.rows
        => EnterAction(panel, row, snap) = shown.rows[row + 1]

\* Closing the map gives the user the coordinates setting back that was chosen
\* before it was opened, once the lines under way have come back; unless it was
\* opened while some were, or glide-ui was restarted with the map open.
CoordinatesReturn == mode # "minimap" /\ clean /\ flight = <<>> => coords = wish

\* Once telemetry and network lines cease, the open panel shows what they said.
PanelCatchesUp ==
    LET current ==
          /\ panel \notin {"osd", "colors", "developer"} => shown.snap = snap
          /\ panel \in {"link", "developer"} => shown.net = net
    IN  <>[](shown # NoPanel => current)
====

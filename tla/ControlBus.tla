---- MODULE ControlBus ----
(***************************************************************************)
(* The control plane: the controller (openhd-glide) serves settings and    *)
(* telemetry state to glide-ui and glide-flow over a Unix stream socket    *)
(* (src/common/ipc.cpp, poll_runtime_controls and run_preview_stack in     *)
(* src/openhd_glide/main.cpp, poll_ipc in src/glide_ui/main.cpp) and keeps *)
(* a telemetry connection (src/common/mavlink_udp_bridge.cpp) that         *)
(* glide-ui asks it to open again when it is lost.                         *)
(*                                                                         *)
(* One setting stands for fps, coords, compact, topbar, osd and theme,     *)
(* which are handled alike; a line is a tuple of its words.                *)
(***************************************************************************)
EXTENDS Integers, Sequences, FiniteSetsExt, SequencesExt

CONSTANTS
    Bounds,           \* per mode the controller runs in, how often the user toggles a
                      \* setting and acts on telemetry, the telemetry peer goes away,
                      \* and the controller is stopped
    SockCap           \* lines a socket buffer holds

\* "kms": run_kms_video_preview, with glide-ui as a service of its own;
\* "stack": run_preview_stack on Linux, with glide-ui and glide-flow as children.
Modes == DOMAIN Bounds

ASSUME BoundsAssumption ==
    /\ Modes \subseteq {"kms", "stack"}
    /\ \A m \in Modes : Bounds[m] \in [{"toggle", "action", "outage", "restart"} -> Nat]
ASSUME SockCapAssumption == SockCap \in Nat \ {0, 1}  \* a client's first lines fit

VARIABLES
    mode,             \* fixed at start
    ctl,              \* "up", "down", or "killed" by a signal
    ctlPc,            \* the controller's loop: "bridge", "ipc" or "events"
    setting, telem,   \* control_state: the setting, telemetry_connection
    events,           \* what Server::poll returned and is not handled yet
    sock,             \* per client: "none", "open", or "eof" after the server end closed
    known,            \* clients_ of the server
    toCtl, toClient,  \* lines in the two socket buffers of a client
    bridge, tcp,      \* telemetry socket, and the state of its TCP connection
    peerUp,           \* the telemetry peer listens
    view, uiTelem,    \* what a client takes the setting for, telemetry_status
    auto,             \* telemetry_auto_connect
    want, lost,       \* history: what the user chose last, {} if nothing; a line was dropped
    budget            \* what is left of the bounds

ctlVars  == <<setting, telem, events>>
sockVars == <<sock, known, toCtl, toClient, lost>>
telVars  == <<bridge, tcp>>
uiVars   == <<uiTelem, auto>>
vars == <<mode, ctl, ctlPc, ctlVars, sockVars, telVars, peerUp, view, uiVars, want, budget>>

Clients == {"ui", "flow"}
Spend(what) == budget[what] > 0 /\ budget' = [budget EXCEPT ![what] = @ - 1]

\* Only run_preview_stack starts from what the bridge says of itself.
FirstTelemetry == IF mode = "stack" THEN "listening" ELSE "disconnected"

Init ==
    /\ mode \in Modes
    /\ ctl = "up" /\ ctlPc = "bridge"
    /\ setting = TRUE /\ telem = FirstTelemetry /\ events = <<>>
    /\ sock = [c \in Clients |-> "none"] /\ known = {}
    /\ toCtl = [c \in Clients |-> <<>>] /\ toClient = [c \in Clients |-> <<>>]
    /\ bridge = "udp" /\ tcp = "none" /\ peerUp = TRUE
    /\ view \in {f \in [Clients -> BOOLEAN] : f["flow"]}
    /\ uiTelem = "disconnected" /\ auto = FALSE
    /\ want = {} /\ lost = [c \in Clients |-> FALSE]
    /\ budget = Bounds[mode]

----
(* The sockets: nonblocking, a line that does not fit is dropped. *)

Fits(queue, lines) == Len(queue) + Len(lines) <= SockCap

\* Server::send_line of the lines to each client in cs that is still there.
SendTo(cs, lines) ==
    LET reached == {c \in cs \cap known : sock[c] = "open"}
    IN  /\ toClient' = [c \in Clients |->
                          IF c \in reached /\ Fits(toClient[c], lines)
                          THEN toClient[c] \o lines ELSE toClient[c]]
        /\ lost' = [c \in Clients |->
                          lost[c] \/ (c \in reached /\ ~Fits(toClient[c], lines))]

SendNothing == UNCHANGED <<toClient, lost>>

Broadcast_Forgotten(line) == SendNothing

Broadcast(line) == SendTo(known, <<line>>)

\* Client::send_line, whose result no caller looks at.
ClientSends(c, lines) ==
    IF sock[c] = "open" /\ Fits(toCtl[c], lines)
    THEN toCtl' = [toCtl EXCEPT ![c] = @ \o lines] /\ UNCHANGED lost
    ELSE lost' = [lost EXCEPT ![c] = TRUE] /\ UNCHANGED toCtl

----
(* The telemetry connection.  tcp is "ok"; "fin" once the peer closed it,    *)
(* "half" once something was sent after that; "rst" once it was reset; and  *)
(* "dead" when a call has reported the reset, or it answered a "half".      *)

CloseBridge == bridge' = "closed" /\ tcp' = "none"

\* UdpBridge::poll: end of file closes the bridge, an error is only noted.
BridgePolled ==
    CASE tcp \in {"fin", "half", "dead"} -> CloseBridge
      [] tcp = "rst" -> tcp' = "dead" /\ UNCHANGED bridge
      [] OTHER -> UNCHANGED telVars

CheckTelemetry_Never == UNCHANGED telem /\ SendNothing

\* poll_runtime_controls notices that a TCP connection is gone; the loop of
\* run_preview_stack has no such check.
CheckTelemetry ==
    IF mode = "kms" /\ telem = "tcp" /\ bridge' = "closed"
    THEN telem' = "error" /\ Broadcast(<<"telemetry", "error">>)
    ELSE UNCHANGED telem /\ SendNothing

PollBridge ==
    /\ ctl = "up" /\ ctlPc = "bridge"
    /\ BridgePolled
    /\ CheckTelemetry
    /\ ctlPc' = "ipc"
    /\ UNCHANGED <<mode, ctl, setting, events, sock, known, toCtl, peerUp, view, uiVars, want, budget>>

\* What send_packet makes of a connection: without MSG_NOSIGNAL a send on a
\* connection whose reset is already known raises SIGPIPE.
Sent(state) ==
    [ok      |-> state \notin {"rst", "dead"},
     next    |-> CASE state = "fin" -> "half" [] state = "rst" -> "dead" [] OTHER -> state,
     sigpipe |-> state = "dead"]

\* handle_action_line: a parameter is sent as PARAM_EXT_SET and, if that fails
\* and the value is a number, again as PARAM_SET.
AfterAction(numeric) ==
    LET first == Sent(tcp)
    IN  IF ~first.ok /\ ~first.sigpipe /\ numeric THEN Sent(first.next) ELSE first

\* What becomes of the sockets of a controller that is gone.
HangUp ==
    /\ sock' = [c \in Clients |-> IF sock[c] = "open" THEN "eof" ELSE sock[c]]
    /\ known' = {} /\ toCtl' = [c \in Clients |-> <<>>]
    /\ events' = <<>> /\ want' = {}
    /\ bridge' = "closed" /\ tcp' = "none"
    /\ UNCHANGED <<toClient, lost>>

----
(* The controller's loop. *)

\* drain_lines: what a client sent, in the order it was sent.
Lines(c) == [i \in 1..Len(toCtl[c]) |-> [from |-> c, line |-> toCtl[c][i]]]

\* Server::poll accepts everyone who waits and reads all there is to read;
\* glide-flow connects first.
PollIpc ==
    /\ ctl = "up" /\ ctlPc = "ipc"
    /\ known' = {c \in Clients : sock[c] = "open"}
    /\ events' = Lines("flow") \o Lines("ui")
    /\ toCtl' = [c \in Clients |-> <<>>]
    /\ ctlPc' = "events"
    /\ UNCHANGED <<mode, ctl, setting, telem, sock, toClient, lost, telVars, peerUp, view, uiVars, want, budget>>

\* One branch per kind of line; each is the rest of the loop body for it.
Hello(c) ==
    /\ SendTo({c}, << <<"setting", setting>>, <<"telemetry", telem>> >>)
    /\ UNCHANGED <<setting, telem, telVars>>

SetSetting(v) ==
    /\ setting' = v
    /\ Broadcast(<<"setting", v>>)
    /\ UNCHANGED <<telem, telVars>>

\* connect_to closes the old connection whether or not the new one succeeds.
\* UdpBridge::connect_to closes what there was and blocks until it knows.
Connected == IF peerUp THEN bridge' = "tcp" /\ tcp' = "ok" ELSE CloseBridge

ConnectTelemetry ==
    /\ Connected
    /\ telem' = IF peerUp THEN "tcp" ELSE "error"
    /\ Broadcast(<<"telemetry", telem'>>)
    /\ UNCHANGED setting

DisconnectTelemetry ==
    /\ CloseBridge /\ telem' = "disconnected"
    /\ Broadcast(<<"telemetry", telem'>>)
    /\ UNCHANGED setting

SendAction(numeric) ==
    /\ ~AfterAction(numeric).sigpipe
    /\ tcp' = AfterAction(numeric).next
    /\ Broadcast(<<"mav", numeric>>)
    /\ UNCHANGED <<bridge, setting, telem>>

Handled(c, line) ==
    \/ line[1] = "hello"      /\ Hello(c)
    \/ line[1] = "set"        /\ SetSetting(line[2])
    \/ line[1] = "connect"    /\ ConnectTelemetry
    \/ line[1] = "disconnect" /\ DisconnectTelemetry
    \/ line[1] = "mav"        /\ SendAction(line[2])

HandleEvent ==
    /\ ctl = "up" /\ ctlPc = "events" /\ events # <<>>
    /\ Handled(Head(events).from, Head(events).line)
    /\ events' = Tail(events)
    /\ UNCHANGED <<mode, ctl, ctlPc, sock, known, toCtl, peerUp, view, uiVars, want, budget>>

LoopEnd ==
    /\ ctl = "up" /\ ctlPc = "events" /\ events = <<>>
    /\ ctlPc' = "bridge"
    /\ UNCHANGED <<mode, ctl, ctlVars, sockVars, telVars, peerUp, view, uiVars, want, budget>>

\* An action sent into a dead connection: no handler for SIGPIPE is installed.
KilledBySigpipe ==
    /\ ctl = "up" /\ ctlPc = "events" /\ events # <<>>
    /\ Head(events).line[1] = "mav" /\ AfterAction(Head(events).line[2]).sigpipe
    /\ ctl' = "killed" /\ ctlPc' = "bridge"
    /\ HangUp
    /\ UNCHANGED <<mode, setting, telem, peerUp, view, uiVars, budget>>

\* The service is stopped; one that was stopped or killed is started again
\* (openhd-glide.service: Restart=on-failure).  A stack takes its children along.
Stop ==
    /\ mode = "kms" /\ ctl = "up" /\ Spend("restart")
    /\ ctl' = "down" /\ ctlPc' = "bridge"
    /\ HangUp
    /\ UNCHANGED <<mode, setting, telem, peerUp, view, uiVars>>

Start ==
    /\ mode = "kms" /\ ctl \in {"down", "killed"}
    /\ ctl' = "up" /\ setting' = TRUE /\ telem' = FirstTelemetry
    /\ bridge' = "udp"
    /\ UNCHANGED <<mode, ctlPc, events, sockVars, tcp, peerUp, view, uiVars, want, budget>>

----
(* glide-ui and glide-flow. *)

\* What the last line of a kind says; lines are applied in order.
LastOf(lines, kind, default) ==
    LET places == {i \in DOMAIN lines : lines[i][1] = kind}
    IN  IF places = {} THEN default ELSE lines[Max(places)][2]

\* The requests that follow the hello ask for what it is answered with anyway.
InitialRequests == << <<"hello", TRUE>> >>

Retry == << <<"connect", TRUE>> >>

\* The end of poll_ipc: due is whether next_telemetry_reconnect has passed.
\* Bound: its 3 s do not pass while the last attempt is still in the socket.
Retries(due, status) ==
    /\ due /\ auto /\ status # "tcp"
    /\ \A i \in DOMAIN toCtl["ui"] : toCtl["ui"][i] # Retry[1]

\* Client::connect_to, and the first lines sent.
Opened(c, lines) ==
    /\ sock' = [sock EXCEPT ![c] = "open"]
    /\ toCtl' = [toCtl EXCEPT ![c] = lines]

ConnectUi(due) ==
    LET retries == Retries(due, uiTelem)
    IN  /\ sock["ui"] = "none" /\ ctl = "up"
        /\ Opened("ui", IF retries THEN InitialRequests \o Retry ELSE InitialRequests)
        /\ toClient' = [toClient EXCEPT !["ui"] = <<>>]
        /\ lost' = [lost EXCEPT !["ui"] = FALSE]
        /\ uiTelem' = IF retries THEN "connecting" ELSE uiTelem
        /\ want' = {}
        /\ UNCHANGED <<mode, ctl, ctlPc, ctlVars, known, telVars, peerUp, view, auto, budget>>

\* Without the controller the settings are those of the preview_control files,
\* which any process may have written.
ReadControlFiles ==
    /\ sock["ui"] = "none"
    /\ \E v \in BOOLEAN : view' = [view EXCEPT !["ui"] = v]
    /\ UNCHANGED <<mode, ctl, ctlPc, ctlVars, sockVars, telVars, peerUp, uiVars, want, budget>>

AfterEof_Ignored(state) == state

\* Client::poll_lines closes at the end of the file, after the lines before it.
AfterEof(state) == IF state = "eof" THEN "none" ELSE state

PollUi(due) ==
    LET lines   == toClient["ui"]
        status  == LastOf(lines, "telemetry", uiTelem)
        retries == Retries(due, status) /\ sock["ui"] = "open"
    IN  /\ sock["ui"] \in {"open", "eof"}
        /\ sock' = [sock EXCEPT !["ui"] = AfterEof(@)]
        /\ toClient' = [toClient EXCEPT !["ui"] = <<>>]
        /\ view' = [view EXCEPT !["ui"] = LastOf(lines, "setting", @)]
        /\ uiTelem' = IF retries THEN "connecting" ELSE status
        /\ IF retries THEN ClientSends("ui", Retry) ELSE UNCHANGED <<toCtl, lost>>
        /\ UNCHANGED <<mode, ctl, ctlPc, ctlVars, known, telVars, peerUp, auto, want, budget>>

\* The user: a switch, CONNECT TCP, DISCONNECT TELEMETRY, an OpenHD parameter
\* (the last one only while connected).
Toggle ==
    LET v == ~view["ui"]
    IN  /\ Spend("toggle")
        /\ view' = [view EXCEPT !["ui"] = v]
        /\ IF sock["ui"] = "none" THEN UNCHANGED <<toCtl, lost>>
                                  ELSE ClientSends("ui", << <<"set", v>> >>)
        /\ want' = IF sock["ui"] = "open" THEN {v} ELSE {}
        /\ UNCHANGED <<mode, ctl, ctlPc, ctlVars, sock, known, toClient, telVars, peerUp, uiVars>>

AskConnect ==
    /\ Spend("action")
    /\ auto' = TRUE /\ uiTelem' = "connecting"
    /\ ClientSends("ui", Retry)
    /\ UNCHANGED <<mode, ctl, ctlPc, ctlVars, sock, known, toClient, telVars, peerUp, view, want>>

AskDisconnect ==
    /\ Spend("action")
    /\ auto' = FALSE
    /\ ClientSends("ui", << <<"disconnect", TRUE>> >>)
    /\ UNCHANGED <<mode, ctl, ctlPc, ctlVars, sock, known, toClient, telVars, peerUp, view, uiTelem, want>>

AskAction(numeric) ==
    /\ Spend("action") /\ sock["ui"] # "none"
    /\ ClientSends("ui", << <<"mav", numeric>> >>)
    /\ UNCHANGED <<mode, ctl, ctlPc, ctlVars, sock, known, toClient, telVars, peerUp, view, uiVars, want>>

\* glide-flow is a child of the stack only; it connects once.
ConnectFlow ==
    /\ mode = "stack" /\ ctl = "up" /\ sock["flow"] = "none"
    /\ Opened("flow", << <<"hello", TRUE>> >>)
    /\ UNCHANGED <<mode, ctl, ctlPc, ctlVars, known, toClient, lost, telVars, peerUp, view, uiVars, want, budget>>

PollFlow ==
    /\ sock["flow"] # "none"
    /\ sock' = [sock EXCEPT !["flow"] = AfterEof(@)]
    /\ view' = [view EXCEPT !["flow"] = LastOf(toClient["flow"], "setting", @)]
    /\ toClient' = [toClient EXCEPT !["flow"] = <<>>]
    /\ UNCHANGED <<mode, ctl, ctlPc, ctlVars, known, toCtl, lost, telVars, peerUp, uiVars, want, budget>>

----
(* The telemetry peer. *)

PeerDown ==
    /\ peerUp /\ Spend("outage")
    /\ peerUp' = FALSE
    /\ IF tcp = "ok" THEN tcp' \in {"fin", "rst"} ELSE UNCHANGED tcp
    /\ UNCHANGED <<mode, ctl, ctlPc, ctlVars, sockVars, bridge, view, uiVars, want>>

PeerUp ==
    /\ ~peerUp
    /\ peerUp' = TRUE
    /\ UNCHANGED <<mode, ctl, ctlPc, ctlVars, sockVars, telVars, view, uiVars, want, budget>>

\* The reset that answers what was sent after the peer had closed.
PeerResets ==
    /\ tcp = "half" /\ tcp' = "dead"
    /\ UNCHANGED <<mode, ctl, ctlPc, ctlVars, sockVars, bridge, peerUp, view, uiVars, want, budget>>

----

Controller == PollBridge \/ PollIpc \/ HandleEvent \/ LoopEnd \/ KilledBySigpipe

Ui(due) == ConnectUi(due) \/ PollUi(due)

User == Toggle \/ AskConnect \/ AskDisconnect \/ \E numeric \in BOOLEAN : AskAction(numeric)

Next ==
    \/ Controller \/ Stop \/ Start
    \/ \E due \in BOOLEAN : Ui(due)
    \/ ReadControlFiles \/ User \/ ConnectFlow \/ PollFlow
    \/ PeerDown \/ PeerUp \/ PeerResets

\* The loops of the processes go round, a timer that is due is seen, and the
\* service manager starts the service.  The user and the peer owe nothing.
Fairness ==
    /\ WF_vars(Controller) /\ WF_vars(Start)
    /\ WF_vars(Ui(TRUE)) /\ WF_vars(ConnectFlow) /\ WF_vars(PollFlow)

Spec == Init /\ [][Next]_vars /\ Fairness

----
(* Properties. *)

Status == {"disconnected", "listening", "tcp", "error"}

\* The shape of the state; no socket holds more lines than its buffer takes
\* (ipc.cpp, send_line on a nonblocking socket).
TypeOK ==
    /\ mode \in Modes /\ ctl \in {"up", "down", "killed"} /\ ctlPc \in {"bridge", "ipc", "events"}
    /\ setting \in BOOLEAN /\ telem \in Status
    /\ sock \in [Clients -> {"none", "open", "eof"}] /\ known \subseteq Clients
    /\ \A c \in Clients : Len(toCtl[c]) <= SockCap /\ Len(toClient[c]) <= SockCap
    /\ bridge \in {"udp", "tcp", "closed"} /\ tcp \in {"none", "ok", "fin", "half", "rst", "dead"}
    /\ view \in [Clients -> BOOLEAN] /\ uiTelem \in Status \cup {"connecting"} /\ auto \in BOOLEAN
    /\ lost \in [Clients -> BOOLEAN]

\* Nothing between client c and the controller is on its way.
Settled(c) ==
    /\ ctl = "up" /\ sock[c] = "open" /\ c \in known
    /\ toCtl[c] = <<>> /\ toClient[c] = <<>> /\ events = <<>>
    /\ ~lost[c]

\* Once nothing is on its way, a client that lost no line shows what the
\* controller holds, and the switch position the user left is the one the
\* controller ended up with, whatever crossed on the socket before, during and
\* after its hello: a reply that was still on its way does not undo a choice
\* (poll_runtime_controls and run_preview_stack; send_fps_state, poll_ipc).
ViewsAgree ==
    /\ TypeOK
    /\ \A c \in Clients : Settled(c) => view[c] = setting /\ (c = "ui" => uiTelem = telem)
    /\ Settled("ui") => want \subseteq {setting}

\* The controller never believes in a TCP connection it does not have once its
\* loop has come to the messages (handle_telemetry_connection_line and the
\* check after UdpBridge::poll in poll_runtime_controls).
TelemetryIsTrue == mode = "kms" /\ ctl = "up" /\ ctlPc # "bridge" /\ telem = "tcp" => bridge = "tcp"

\* After a restart of the controller glide-ui finds it again and comes to show
\* its settings for good, unless a line was lost to a full socket; and with
\* auto-connect on and the peer back for good, glide-ui and the KMS controller
\* bring the telemetry connection up again, however it went down
\* (connect_ipc_if_needed, Client::poll_lines, poll_ipc's retry,
\* poll_runtime_controls).
UiResyncs ==
    /\ <>[](ctl = "up") => <>[](/\ sock["ui"] = "open" /\ "ui" \in known
                                /\ lost["ui"] \/ view["ui"] = setting)
    /\ mode = "kms" /\ <>[](auto /\ peerUp /\ ctl = "up" /\ sock["ui"] = "open" /\ ~lost["ui"])
          => <>[](tcp = "ok" /\ telem = "tcp" /\ uiTelem = "tcp")
====

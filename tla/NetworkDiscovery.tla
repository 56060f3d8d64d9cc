---- MODULE NetworkDiscovery ----
(***************************************************************************)
(* Finding other Glide hosts on the Ethernet: DiscoveryService of           *)
(* src/common/network_discovery.cpp, the controller's loop that broadcasts  *)
(* its lines and answers glide-ui (poll_runtime_controls,                   *)
(* handle_network_line), and what glide-ui makes of the lines               *)
(* (apply_network_state_line).                                             *)
(*                                                                         *)
(* A peer is its address; what it calls itself, host name and video port,  *)
(* is one name.  Settings and telemetry are in ControlBus.                 *)
(***************************************************************************)
EXTENDS Integers, Sequences, FiniteSetsExt, SequencesExt

CONSTANTS
    Others,           \* the addresses of the other hosts
    Names,            \* what a host may call itself
    Self,             \* the address of this host
    SockCap,          \* lines a socket buffer holds
    Bounds            \* cases: how many scans and set-ups the user asks for, how often a
                      \* probe is repeated, a host changes its name, the controller is
                      \* stopped and glide-ui is started anew

ASSUME HostsAssumption == Self \notin Others
ASSUME BoundsAssumption ==
    /\ Bounds \subseteq [{"scan", "p2p", "probe", "rename", "restart", "ui"} -> Nat]
    /\ SockCap \in Nat \ {0}

VARIABLES
    ctl, ctlPc,       \* the controller: "up" or "down"; its loop: "net", "ipc", "events"
    running,          \* the discovery socket could be bound
    scan,             \* scan_until_: "none", "new" before the first probe, "on", or "over"
    peers, pending,   \* peers_ as pairs of address and name, pending_lines_
    air,              \* packets on their way to this host
    names,            \* what each host calls itself
    sock, known,      \* glide-ui's connection, and whether the server has accepted it
    toCtl, toUi,      \* lines in the two socket buffers
    events,           \* lines read and not handled yet
    scanning, status, shown,   \* net_scanning, net_status, net_peers of glide-ui
    lost, stale,      \* history: a line was dropped; shown may be of an earlier controller
    budget

discVars == <<running, scan, peers, pending>>
sockVars == <<sock, known, toCtl, toUi, lost>>
uiVars   == <<scanning, status, shown, stale>>
vars == <<ctl, ctlPc, discVars, air, names, events, sockVars, uiVars, budget>>

Spend(what) == budget[what] > 0 /\ budget' = [budget EXCEPT ![what] = @ - 1]

FirstName == CHOOSE n \in Names : TRUE

\* DiscoveryService::start: where the port is taken there is no discovery.
Started ==
    /\ running' \in BOOLEAN
    /\ scan' = "none" /\ peers' = {}
    /\ pending' = IF running' THEN << <<"idle">> >> ELSE <<>>

Init ==
    /\ ctl = "up" /\ ctlPc = "net"
    /\ running \in BOOLEAN /\ scan = "none" /\ peers = {}
    /\ pending = IF running THEN << <<"idle">> >> ELSE <<>>
    /\ air = {} /\ names = [p \in Others |-> FirstName]
    /\ sock = "none" /\ known = FALSE /\ toCtl = <<>> /\ toUi = <<>> /\ events = <<>>
    /\ scanning = FALSE /\ status = "Idle" /\ shown = {}
    /\ lost = FALSE /\ stale = FALSE /\ budget \in Bounds

----
(* The sockets to glide-ui: nonblocking, a line that does not fit is lost. *)

Fits(queue, lines) == Len(queue) + Len(lines) <= SockCap

SendUi(lines) ==
    IF known /\ sock = "open" /\ lines # <<>>
    THEN IF Fits(toUi, lines)
         THEN toUi' = toUi \o lines /\ UNCHANGED lost
         ELSE lost' = TRUE /\ UNCHANGED toUi
    ELSE UNCHANGED <<toUi, lost>>

SendCtl(lines) ==
    IF sock = "open" /\ Fits(toCtl, lines)
    THEN toCtl' = toCtl \o lines /\ UNCHANGED lost
    ELSE lost' = TRUE /\ UNCHANGED toCtl

----
(* DiscoveryService. *)

Here(address, name) == [from |-> address, name |-> name]

\* A probe on the broadcast addresses reaches some of the hosts, which announce
\* themselves; so does this host, which hears its own probe (handle_packet).
Probed(reached) == {Here(p, names[p]) : p \in reached} \cup {Here(Self, FirstName)}

\* send_broadcast_probe, when a probe is due.
Sent(probes, reached) == IF probes THEN Probed(reached) ELSE {}

\* Announced by one of this host's own addresses.
Own(packet) == packet.from = Self

Accepted_Own(packet) == TRUE

\* handle_packet: an announcement that is not this host's own.
Accepted(packet) == ~Own(packet)

PeerLine(pair) == <<"peer", pair[1], pair[2]>>

\* upsert_peer: a known address takes the new name.
Upserted(list, pair) == {q \in list : q[1] # pair[1]} \cup {pair}

\* start_scan, which does nothing where there is no socket.
StartScan ==
    IF running
    THEN /\ peers' = {} /\ scan' = "new"
         /\ pending' = Append(pending, <<"scanning">>)
         /\ UNCHANGED running
    ELSE UNCHANGED discVars

\* The scan's 2.5 s pass.
ScanExpires ==
    /\ scan \in {"new", "on"}
    /\ scan' = "over"
    /\ UNCHANGED <<ctl, ctlPc, running, peers, pending, air, names, events, sockVars, uiVars, budget>>

DoneLine_Never == <<>>

DoneLine == << <<"done">> >>

\* poll_state_lines and the broadcast of what it returns: a probe when it is
\* due, then everything received in the order of a list, then the deadline.
\* Bound: a probe is repeated Bounds["probe"] times.
PollNetwork(probes, reached, received) ==
    LET heard == {received[i] : i \in DOMAIN received}
        pairs == LET ok == SelectSeq(received, Accepted)
                 IN  [i \in DOMAIN ok |-> <<ok[i].from, ok[i].name>>]
        over  == scan = "over"
    IN  /\ ctl = "up" /\ ctlPc = "net"
        /\ heard \subseteq air
        /\ IF probes THEN running /\ scan # "none" ELSE scan # "new" /\ reached = {}
        /\ IF probes /\ scan # "new" THEN Spend("probe") ELSE UNCHANGED budget
        /\ running \/ received = <<>>
        /\ air' = (air \ heard) \cup Sent(probes, reached)
        /\ peers' = FoldLeft(Upserted, peers, pairs)
        /\ scan' = IF over THEN "none" ELSE IF scan = "new" THEN "on" ELSE scan
        /\ SendUi(pending \o [i \in DOMAIN pairs |-> PeerLine(pairs[i])]
                          \o (IF over THEN DoneLine ELSE <<>>))
        /\ pending' = <<>>
        /\ ctlPc' = "ipc"
        /\ UNCHANGED <<ctl, running, names, events, sock, known, toCtl, uiVars>>

----
(* The controller's loop. *)

PollIpc ==
    /\ ctl = "up" /\ ctlPc = "ipc"
    /\ known' = (sock = "open")
    /\ events' = toCtl /\ toCtl' = <<>>
    /\ ctlPc' = "events"
    /\ UNCHANGED <<ctl, discVars, air, names, sock, toUi, lost, uiVars, budget>>

NetworkState_IdleOnly == << <<"idle">> >>

\* send_network_state says idle, whether or not a scan goes on.
NetworkState == << <<"idle">> >> \o [i \in 1..Cardinality(peers) |-> PeerLine(SetToSeq(peers)[i])]

\* configure_point_to_point either works or not; if it does, a scan follows.
SetUpLink == SendUi(<< <<"p2p">> >>) /\ (StartScan \/ UNCHANGED discVars)

\* handle_network_line, and the answer to hello.
Handled(line) ==
    \/ line \in {"hello", "get"} /\ SendUi(NetworkState) /\ UNCHANGED discVars
    \/ line = "scan" /\ StartScan /\ SendUi(<<>>)
    \/ line = "p2p" /\ SetUpLink

HandleLine ==
    /\ ctl = "up" /\ ctlPc = "events" /\ events # <<>>
    /\ Handled(Head(events))
    /\ events' = Tail(events)
    /\ UNCHANGED <<ctl, ctlPc, air, names, sock, known, toCtl, uiVars, budget>>

LoopEnd ==
    /\ ctl = "up" /\ ctlPc = "events" /\ events = <<>>
    /\ ctlPc' = "net"
    /\ UNCHANGED <<ctl, discVars, air, names, events, sockVars, uiVars, budget>>

\* The service stops, at any point, and is started again.
Stop ==
    /\ ctl = "up" /\ Spend("restart")
    /\ ctl' = "down" /\ ctlPc' = "net"
    /\ running' = FALSE /\ scan' = "none" /\ peers' = {} /\ pending' = <<>>
    /\ air' = {} /\ events' = <<>> /\ toCtl' = <<>> /\ known' = FALSE
    /\ sock' = IF sock = "open" THEN "eof" ELSE sock
    /\ stale' = TRUE
    /\ UNCHANGED <<names, toUi, lost, scanning, status, shown>>

Start ==
    /\ ctl = "down"
    /\ ctl' = "up" /\ Started
    /\ UNCHANGED <<ctlPc, air, names, events, sockVars, uiVars, budget>>

----
(* glide-ui. *)

Connect ==
    /\ sock = "none" /\ ctl = "up"
    /\ sock' = "open" /\ toCtl' = toCtl \o <<"hello", "get">> /\ toUi' = <<>> /\ lost' = FALSE
    /\ UNCHANGED <<ctl, ctlPc, discVars, air, names, events, known, uiVars, budget>>

View == [scanning |-> scanning, status |-> status, shown |-> shown, stale |-> stale]

\* apply_network_state_line.
Applied(view, line) ==
    CASE line[1] = "idle"     -> [view EXCEPT !.scanning = FALSE, !.status = "Idle"]
      [] line[1] = "scanning" -> [scanning |-> TRUE, status |-> "Scanning", shown |-> {}, stale |-> FALSE]
      [] line[1] = "peer"     -> [view EXCEPT !.shown = @ \cup {<<line[2], line[3]>>}, !.status = "Peer found"]
      [] line[1] = "done"     -> [view EXCEPT !.scanning = FALSE,
                                              !.status = IF view.shown = {} THEN "No peers" ELSE "Ready"]
      [] OTHER                -> [view EXCEPT !.status = "p2p"]

Show(view) ==
    /\ scanning' = view.scanning /\ status' = view.status
    /\ shown' = view.shown /\ stale' = view.stale

\* Client::poll_lines closes at the end of the file, after the lines before it.
PollUi ==
    /\ sock \in {"open", "eof"}
    /\ Show([FoldLeft(Applied, View, toUi) EXCEPT !.stale = @ \/ (sock = "eof" /\ stale)])
    /\ toUi' = <<>>
    /\ sock' = IF sock = "eof" THEN "none" ELSE sock
    /\ UNCHANGED <<ctl, ctlPc, discVars, air, names, events, known, toCtl, lost, budget>>

\* send_network_action, whose result nobody looks at.
Ask(line) ==
    IF sock = "none" THEN UNCHANGED <<toCtl, lost>> ELSE SendCtl(<<line>>)

\* SCAN ETHERNET GLIDE shows a scan at once.
PressScan ==
    /\ Spend("scan")
    /\ Show([scanning |-> TRUE, status |-> "Scanning", shown |-> {}, stale |-> stale])
    /\ Ask("scan")
    /\ UNCHANGED <<ctl, ctlPc, discVars, air, names, events, sock, known, toUi>>

\* P2P GROUND ETH0 and P2P AIR ETH0.
PressP2p ==
    /\ Spend("p2p")
    /\ Ask("p2p")
    /\ UNCHANGED <<ctl, ctlPc, discVars, air, names, events, sock, known, toUi, uiVars>>

Unanswered(lines) == SelectSeq(lines, LAMBDA line : line \in {"scan", "p2p"})

\* glide-ui is a service of its own.  What it asked for is still done when it
\* is gone; replies to it go nowhere.
RestartUi ==
    /\ Spend("ui") /\ sock = "open"
    /\ sock' = "none" /\ known' = FALSE
    /\ toUi' = <<>> /\ toCtl' = Unanswered(toCtl) /\ events' = Unanswered(events)
    /\ Show([scanning |-> FALSE, status |-> "Idle", shown |-> {}, stale |-> FALSE])
    /\ UNCHANGED <<ctl, ctlPc, discVars, air, names, lost>>

----
(* The other hosts and the network. *)

Rename ==
    /\ Spend("rename")
    /\ \E p \in Others : \E n \in Names \ {names[p]} : names' = [names EXCEPT ![p] = n]
    /\ UNCHANGED <<ctl, ctlPc, discVars, air, events, sockVars, uiVars>>

----

PollDiscovery ==
    \E probes \in BOOLEAN, reached \in SUBSET Others, heard \in SUBSET air :
        PollNetwork(probes, reached, SetToSeq(heard))

Controller == PollDiscovery \/ PollIpc \/ HandleLine \/ LoopEnd

User == PressScan \/ PressP2p

Next ==
    \/ Controller \/ ScanExpires \/ Stop \/ Start
    \/ Connect \/ PollUi \/ User \/ Rename \/ RestartUi

\* The loops go round, time passes, and the service manager starts the service.
Fairness ==
    /\ WF_vars(Controller) /\ WF_vars(ScanExpires) /\ WF_vars(Start)
    /\ WF_vars(Connect) /\ WF_vars(PollUi)

Spec == Init /\ [][Next]_vars /\ Fairness

----
(* Properties. *)

\* Nothing between glide-ui and the controller is on its way.
Settled ==
    /\ ctl = "up" /\ running /\ sock = "open" /\ known
    /\ toCtl = <<>> /\ toUi = <<>> /\ events = <<>> /\ pending = <<>>
    /\ ~lost

Addresses(pairs) == {q[1] : q \in pairs}

\* Once nothing is on its way, glide-ui shows every peer the service knows, and
\* no address it does not know unless the controller was restarted since the
\* last scan; a scan that is over is not shown as going on; and no peers are
\* reported only when none is shown: whatever replies to hello, scans, late and
\* repeated announcements crossed (send_network_state, poll_state_lines and its
\* broadcast, the SCAN button's own state, apply_network_state_line).
DisplayAgrees ==
    Settled => /\ peers \subseteq shown
               /\ stale \/ Addresses(shown) = Addresses(peers)
               /\ scan = "none" => ~scanning /\ status # "Scanning"
               /\ status = "No peers" => shown = {}

\* An address is listed once and this host never, although it hears and answers
\* its own probe (upsert_peer, handle_packet).
ListedOnce ==
    /\ peers \subseteq Others \X Names
    /\ \A p, q \in peers : p[1] = q[1] => p = q

\* The SCAN button's display comes to rest, whatever restarts, reconnects and
\* scans overlap, where discovery runs and no line was lost.
ScanEnds == <>[](ctl = "up" /\ running /\ ~lost) => <>[](~scanning /\ status # "Scanning")
====

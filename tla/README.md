# A verification development of OpenHD-Glide

OpenHD-Glide shows the video of an OpenHD drone link on a small Linux board,
with an on-screen display (OSD, "Flow") and a touch user interface ("UI") on
top of it.  The modules here model what runs concurrently, fails or arrives in
the wrong order: buffers shared with the display, the choice of hardware planes,
the control sockets, the reassembly of video from RTP, what is acquired at start
and given up at the end, and the processes themselves.  Paths below are relative
to `src/` of the repository's source tree unless they say otherwise.

## 1. The system

| part | code | state it keeps | what it does, and with whom |
|---|---|---|---|
| atomic compositor | `dev/kms_atomic_compositor.*` | pending, acquired and current Flow buffer, plane ids, framebuffer cache, page-flip flags | commits video, Flow and UI to KMS planes; the Flow thread publishes into it, the presenter commits |
| preview loop | `openhd_glide/main.cpp`, `run_kms_video_preview` | `stop_requested`, the threads, the UI buffer | starts the Flow thread, the presenter and the UI buffer thread, polls a decoder, presents its frames |
| Rockchip decoder | `video/rockchip_mpp_rtp_decoder.*` | `ready_frames_`, `pending_presented_frame_`, `current_frame_`, the picture being assembled | `feed_loop` takes RTP packets, `frame_loop` fetches decoded frames, the presenter polls |
| i.MX and Cedar decoders | `video/imx_vpu_rtp_decoder.*`, `video/cedar_rtp_decoder.*` | the picture being assembled, picture queues | the same in one thread |
| controller | `openhd_glide/main.cpp`, `poll_runtime_controls`, `run_preview_stack`, `run_kms_stack` | `RuntimeControlState`, children | serves settings, telemetry state, network discovery over IPC |
| IPC | `common/ipc.*` | clients, half-read lines | lines over Unix sockets, nonblocking |
| MAVLink bridge | `common/mavlink_udp_bridge.*` | UDP or TCP socket, snapshot | telemetry from OpenHD, actions to it |
| network discovery | `common/network_discovery.*` | peers, scan deadline | UDP probes |
| control files | `common/preview_control.*` | files in the temporary directory | settings when there is no controller |
| glide-ui | `glide_ui/main.cpp` and the minimap | `UiState`: overlay mode, panel, pointers to LVGL objects, settings, telemetry auto-connect | LVGL interface, client of the controller, renders into a shared file |
| glide-flow | `glide_flow/` | settings | OSD process of the desktop stack, client of the controller; its widgets are drawn by the preview loop too |
| the rest | `glide_view/`, `platform/`, `tools/`, the legacy plane and desktop code in `dev/`, packaging and scripts | | see `components` in PROJECT.json |

What makes it hard: three threads and the display share a handful of graphics
buffers; commits may be blocking or nonblocking; an error anywhere must end all
threads without giving a buffer back too early; planes are chosen one after the
other as layers turn up; RTP packets are lost, repeated and overtaken while
16-bit numbers wrap; sockets fill up, processes restart and telemetry comes and
goes; some thirty set-up calls can each fail, and signals reach children that have
hardly started; the UI deletes the objects that its callbacks and keys refer to.  PROJECT.json lists these hazards with their lines and the properties
that watch them.

## 2. Modules

| module | models | state and actions |
|---|---|---|
| `FlowHandoff` | Flow frames in the compositor | one variable per member (`pending_flow_bo_`, `current_flow_bo_`, ...), the set of locked buffer objects (BOs) of the GBM surface, what the plane scans out, and a program counter per thread; an action per critical section or kernel call of publish, acquire, commit, adopt, release and cleanup, with their failures |
| `FlowMailbox` | what the hand-off promises | a single-slot mailbox: frames are published in order, the display moves forward only |
| `RkmppFrames` | decoded frames of the Rockchip decoder | frames numbered in decode order; the queue of MJPEG units, `frame_loop` with its configuration of the output group, `feed_loop`'s failure, `poll`, the presenter, `mark_presented`, `cleanup` and the order of destructors |
| `Pictures` | decoded pictures where one thread decodes and presents: Cedar, i.MX (onto a plane or drawn), GStreamer (DMABUFs, or MJPEG pictures that are copied) | pictures numbered in decode order, the bitstream buffer, the decoder's and the application's queues, `current_*`, `scanout_sample` and which buffers are out; an action per call or branch of `poll` and of the presenter loops |
| `PlaneSelection` | `choose_*_plane` and `commit` | boards as what the kernel reports of each plane; a present is one step, as one thread presents |
| `VideoFramebuffers` | framebuffers of decoded video, their cache and GEM handles, in the atomic compositor and the legacy video plane | the kernel's table of handles and framebuffers, the cache in order of last use, the decoder's buffers by inode number; `present` in four steps (plane, find and evict, import, commit) with their failures, `present_overlay`, `cleanup`; the decoder and Mesa allocate in between |
| `ControlBus` | IPC, settings and telemetry state | sockets as bounded queues of lines; one action per loop step of the controller (bridge, `Server::poll`, one event), of glide-ui and of glide-flow; the user, the telemetry peer, service restarts |
| `NetworkDiscovery` | `DiscoveryService`, the controller's net lines, glide-ui's scan display | peers, scan deadline, pending lines; datagrams that arrive late and in any order, some answers twice; the sockets as in `ControlBus`; the user, other hosts, restarts of both processes |
| `RtpReassembly` | the three depacketizers | the decoder's members in one record, a sender and a network that misbehaves a bounded number of times; one action per packet received |
| `Lifetimes` | everything `run_kms_video_preview` and glide-flow acquire: card, mode, GBM, EGL, dumb buffers, windows, decoders, pipeline, threads and what they capture | per program (output, UI overlay, recorder, decoder) a sequence of set-up steps, what each acquires and undoes when it fails, and the destructors in reverse order; the threads end, fail or are asked to stop at any time |
| `Overlay` | glide-ui's menu, panels and minimap | the overlay mode, the panel with its focus and row, what is built on the screen and which pointers of `UiState` refer to it, the coordinates setting and the one the map holds back; an action per key, click, kind of line, end of `poll_ipc`, and restart |
| `Supervisor` | the three process stacks: `run_preview_stack`, `run_kms_stack` and the Windows stack | a state per child between fork, exec, its own signal handlers, its loop and its end; launch, watch, terminate and wait; signals at any point |

`MC...` modules hold constants for TLC.  `FlowHandoff_proofs`, `RkmppFrames_proofs`,
`PlaneSelection_proofs`, `VideoFramebuffers_proofs`, `ControlBus_proofs`, `Overlay_proofs`,
`Pictures_proofs` and `Supervisor_proofs` hold the theorems about the module each is named for (section 4).  `FlowHandoff` implements `FlowMailbox`
under the refinement mapping `shown <- Shown` (the number of the frame on the
plane) and `on <- presPc # "closed"`.

How they fit together.  `RtpReassembly` produces the access units that `Pictures`
and `RkmppFrames` number; what these present is the frame that
`VideoFramebuffers` imports and puts on the plane that `PlaneSelection` chose;
`FlowHandoff` is the other layer of the same commit.  `Lifetimes` surrounds them:
it says what exists while they run, and that the threads they have are joined.
`ControlBus` and `NetworkDiscovery` are two protocols on the same sockets, `Overlay`
is the client that their lines reach, and `Supervisor` the processes at their ends.  They share no state that one module
would change under another, so that the composition is by these interfaces
rather than by a module.

Abstractions worth knowing.

* A framebuffer id is represented by its BO: the id is created once per BO and
  lives as long (`lock_flow_framebuffer`).
* One setting of `ControlBus` stands for the six that are handled alike.  The
  requests that follow a client's hello ask for what the hello is answered with
  and are merged with it.  A control file is one value.
* `ControlBus` lets glide-ui's reconnect timer fire only when its previous request
  has been read; the timer is 3 s and the controller's loop a few milliseconds.
* `PlaneSelection` puts a fourcc and its modifier into one format.
* In `VideoFramebuffers` the kernel removes and reuses numbers as DRM does: a buffer
  imported twice has one handle without a count, a removed framebuffer turns its
  plane off, the lowest free number is given first (one must be left for an import
  to succeed: bound `MaxId`, which the run never meets), a dma-buf's inode number is
  not reused while a handle or framebuffer refers to it.  A frame is its inode numbers
  and its layout (size, strides, offsets; format and modifier).  Any failure ends the preview, as in the callers.
* In `RtpReassembly` a NAL unit is known by its place in its picture, a timestamp
  counts pictures, and the parameter sets that Cedar repeats before an IDR
  picture and Rockchip submits by themselves are not part of a picture.  Cedar's
  bitstream buffer may refuse any unit, which changes nothing in the depacketizer;
  how full it gets is in `Pictures`.  Any other failure of a hardware decoder ends the
  preview, after which no packet is received.
* In `Pictures` one access unit becomes one picture with the same number, and
  that number also stands for its buffer while it is out.  That the next P picture
  may lack its reference when the VBV buffer was full is a matter of contents and
  said in `RtpReassembly`.
* In `NetworkDiscovery` a peer is its address and the one name it goes by.
* In `Overlay` a row is named for what its control does, and the pointers of `UiState`
  are grouped by the panel that sets them.  The connection is up throughout
  (`ControlBus` has its losses), and the messages that the developer panel lists on
  demand are left out.
* In `Lifetimes` a resource is a pair of an owner and a part; a set-up step acquires
  at most one.  Calls that only configure are steps that may fail, or left out where
  their failure has the effect of the step before.  GStreamer and SDL objects are
  single resources.

## 3. Runs

| run | question | result |
|---|---|---|
| `flow_handoff` | BO ownership (`UniqueOwner`), scan-out safety, starvation, the mailbox, published frames reach the plane, shutdown completes; all modes, the recorder included | pass |
| `rkmpp_frames` | a frame on the plane is held, every frame has one owner, order and lag, a queued frame is shown, a dead decoder ends the preview | pass |
| `pictures` | the same for Cedar, i.MX and GStreamer: one owner per buffer (`BuffersHeld`), order and layout (`ShownInOrder`), progress and stop (`DecodedIsShown`) | pass |
| `planes` | layers keep their planes and Flow spares the video one, on every board of three planes of five kinds, and every combination of plane ids on boards with two | pass |
| `video_framebuffers` | the plane shows the frame presented, eviction never darkens it, no framebuffer or handle leaks (`HandlesAccounted`), both outputs, DMABUF and CPU frames | pass |
| `control_bus` | views converge and the last choice stands (`ViewsAgree`), telemetry state is true, restarts and outages are survived (`UiResyncs`) | pass |
| `network_discovery` | list and scan display agree with the service, one entry per host, scans end | pass |
| `rtp_reassembly` | well-formed, ordered, whole pictures and recovery, for the three depacketizers; Cedar's pictures have their references but for what the bitstream buffer refused (`CedarPictures`) | pass |
| `rtp_partial` | Rockchip never submits a picture that lost a slice | violated, finding |
| `lifetimes` | nothing outlives what it is made of, on any failure of set-up or running; every stop returns with everything released | pass |
| `supervisor` | no child left behind, the end of one ends the stack | pass |
| `overlay` | no pointer to a deleted object (`HandlesLive`), overlay, map and coordinates setting agree (`OverlayAgrees`, `CoordinatesReturn`), Enter acts on the row that is shown, the open panel catches up with telemetry | pass |

Each module's type invariant, `TypeOK`, is a conjunct of its first safety invariant
or of the one that needs it (`LayersKeepPlanes`, `ViewsAgree`, `WellFormedInOrder`,
`NothingDangles`, `BuffersHeld`, `OverlayAgrees`) where it is not listed by itself.

### What was found

The findings in PROJECT.json quote the documentation or comment each of them
contradicts, where there is one.  One has a run (`rtp_partial`).
The others were met while modelling, and the properties of the passing runs are
stated so as to leave out exactly what does not hold.

* Compositor: with the writeback recorder a failed fence releases the Flow BO
  that is on the display (`ScanoutSafe` is claimed without the recorder).  The video
  may take the UI overlay's plane (`LayersKeepPlanes` says nothing of the UI
  plane).  After a format change the primary plane may lose its framebuffer.
* Decoders: `RockchipMppRtpDecoder::cleanup` hands back the frame that the
  compositor, destroyed after it, still shows (`ScanoutHeld` is claimed up to
  there).  Cedar and i.MX hand back the picture on the plane at once.  Cedar drops an
  access unit when its bitstream buffer has no room and does not wait for an IDR
  picture, so that the next P picture lacks its reference (`CedarPictures` asks that
  the picture before was submitted, and leaves out that it was refused).
* Telemetry: only `poll_runtime_controls` notices that the bridge closed, the
  stacks do not (`TelemetryIsTrue` and the telemetry part of `UiResyncs` are claimed
  for it).  A send to a peer that reset the connection raises SIGPIPE.
* Discovery: a scan with no discovery socket never ends on the display
  (`ScanEnds`, `DisplayAgrees` are claimed where discovery runs); after a restart of
  the controller glide-ui lists peers of the earlier one (the disjunct `stale`).
* Lifetimes: the Flow thread captures `control_state`, `mavlink_snapshot` and its mutex,
  which are destroyed before it is joined; it shares the UI buffer with
  `ui_buffer_thread` without a lock, and the mapping has no owner; glide-flow's
  renderers outlive their context; a pipeline that does not start is dropped with
  its probes; `create_egl` forgets the display when a later step fails (`lost`).
* Overlay: going from the map to the menu leaves the map drawn (`OverlayAgrees` says
  nothing of it in the menu); M and N do not cycle as documented; Enter acts on other
  rows than those shown in the link and developer panels (left out of
  `EnterActsOnFocusedRow`); the setting held back by the map is forgotten by a restart
  (`clean` in `CoordinatesReturn`); a telemetry line takes the focus from the panel and
  deletes a button that is being pressed; a steady stream of lines can put off the
  rebuild of the panel.
* Processes: a SIGTERM between fork and exec is forgotten by the child
  (`StackEnds` is claimed where none falls there); the Windows stack names a
  variable that is not declared.

`HandlesAccounted` leaves Mesa's handles out once a buffer was cached in two
layouts.  RKMPP keeps its buffer group when the resolution changes, so one buffer
is cached in two layouts with one handle; evicting both entries closes the number
twice, and in between it can go to a buffer of Mesa's, whose handle is then lost.
Without the disjunct `shared` TLC shows this in some 20 steps.  The framebuffers
themselves are not affected (`PlaneShowsFrame`).

### Bounds

* `flow_handoff`: four BOs, what Mesa allocates, and four frames: one pending,
  one acquired, one current, and one drawn into at once, so that starvation would
  show as a frame that cannot be drawn, and a BO recycled while the others are out.
  The recorder is run in the one mode where both threads are active.
* `rkmpp_frames`: the code's own limits (queue of 4, backlog of 2, 16 buffers, 3 MJPEG
  units); eight frames overflow the queue several times with the presenter at any
  point.
* `pictures`: six access units through queues of two and three buffers (6, 8 and
  the decoder's own number in the code), so that each queue overflows while a
  picture is on the plane and another in hand; two consecutive unusable samples end
  the preview (30 in the code).
* `planes`: three planes are one per layer; conflicts need no more.  Formats
  change at any present.
* `video_framebuffers`: a cache of two (12 in the code) and nine keys, so that every
  third frame may evict; the least number for which an entry is on screen while
  another is evicted.  Frames of one buffer with two planes and of two buffers; a
  format in two sizes and a second one; two generations of each inode number; one
  handle of Mesa's.
* `control_bus`: a socket holds three lines, so that a hello's answer can fill it
  and a broadcast gets lost.  In the KMS mode one toggle, two telemetry actions,
  one outage, one restart; in the stack two toggles, one action and two clients.
* `network_discovery`: two hosts and two names; a socket of five lines, one less
  than two answers.  The cases are those that interfere: two scans, a repeated
  probe and a renamed host, a set-up, a restart of the controller or of glide-ui
  during a scan.
* `lifetimes`: every output with every decoder that differs in what it acquires;
  every set-up step may fail and the stop may come at any time.
* `supervisor`: the three stacks, all with the same three children; nothing is bounded.
* `overlay`: two lines of telemetry or the network, so that one can come before and one
  after the panel is built; one network peer; two changes of the coordinates setting
  under way, the switch-off and the restoration.  A buffer too narrow for a
  panel, and a window with one: the latter has what a wide buffer has and a mouse
  besides, and the map's drawing, the one thing of the buffer alone, does not depend on
  panels.
* `rtp_reassembly`: two pictures of eight packets with single NAL units, an
  aggregate and fragments; sequence numbers modulo 16 and timestamps modulo 16 wrap
  many times; the resync threshold is 4 packets (1000 in the code).  Any two
  losses, repetitions, overtakings or sender restarts.  After a restart with
  numbers a little behind, what is said of order and completeness is not claimed
  (`OneStream`): the old stream's unfinished picture meets the new stream without a
  gap in between; recovery is claimed.

Deadlock is checked but for `video_framebuffers` and `supervisor`, which stop when
the output is closed and when the controller has returned.

### Fairness

* `FlowHandoff`: each thread keeps being scheduled and the kernel delivers a flip
  it accepted.  Both threads loop without waiting for each other except through
  `flow_framebuffer_mutex_`, whose sections are single actions.
* `RkmppFrames`: the three application threads are scheduled; nothing obliges the
  decoder library to decode, nor a thread to fail.
* `Pictures`: the loop goes round.  No packet has to come, no picture to be decoded.
* `ControlBus`: the controller's and the clients' loops go round, a timer that is
  due is noticed, systemd starts the service again.  The user and the telemetry
  peer owe nothing; liveness is conditional on the peer being back for good.
* `NetworkDiscovery`: the same, and time passes, so that a scan expires.  The other
  hosts owe nothing.
* `Overlay`: the loop goes round and time passes.  No key, click or line has to come;
  `PanelCatchesUp` is about the time after the last line.
* `Lifetimes`: calls return, and a thread that has been told to stop comes to look at
  its flag.  Nobody has to send a signal.
* `Supervisor`: controller and children are scheduled; a child that has been told
  to stop comes to the end of its loop.  Nobody has to stop or crash.
* `PlaneSelection`, `VideoFramebuffers` and `RtpReassembly` have safety and action
  properties only; recovery is stated as a number of packets.

## 4. Proofs

TLAPS checks these theorems to the last step.  Each holds for every value of the
constants that satisfies the module's assumptions, where the run looks at one
instance.

| module | theorem | states |
|---|---|---|
| `FlowHandoff_proofs` | `TypeCorrect` | `Spec => []TypeOK` |
| | `OneOwner` | `Spec => []UniqueOwner` |
| | `ScanoutSafety` | `Spec => []ScanoutSafe` |
| | `NoStarvation` | `Spec => []NeverStarved`, with at least four BOs |
| | `MailboxRefinement` | `Spec => ImplementsMailbox`: the hand-off implements `FlowMailbox` |
| `RkmppFrames_proofs` | `TypeCorrect` | `Spec => []TypeOK` |
| | `Scanout` | `Spec => []ScanoutHeld` |
| | `OneOwnerAlways` | `Spec => []OneOwner` |
| | `FreshInOrderAlways` | `Spec => FreshInOrder`, an action property |
| `PlaneSelection_proofs` | `LayersKept` | `Spec => []LayersKeepPlanes` |
| | `VideoSpared` | `Spec => []FlowSparesVideo` |
| `VideoFramebuffers_proofs` | `TypeCorrect` | `Spec => []TypeOK` |
| | `PlaneRight` | `Spec => []PlaneShowsFrame` |
| | `Accounted` | `Spec => []HandlesAccounted` |
| | `NeverDark` | `Spec => StaysLit`, an action property |
| `ControlBus_proofs` | `ViewsAgreeAlways` | `Spec => []ViewsAgree` |
| | `TelemetryTrue` | `Spec => []TelemetryIsTrue` |
| `Overlay_proofs` | `NoDanglingHandle` | `Spec => []HandlesLive` |
| | `Agreement` | `Spec => []OverlayAgrees` |
| | `EnterOnFocusedRow` | `Spec => []EnterActsOnFocusedRow` |
| | `ChoiceReturns` | `Spec => []CoordinatesReturn` |
| `Pictures_proofs` | `PicturesInOrder` | `Spec => [](TypeOK /\ PicInv)` |
| | `BuffersHeldAlways` | `Spec => []BuffersHeld` |
| | `ShownInOrderAlways` | `Spec => ShownInOrder`, an action property |
| `Supervisor_proofs` | `NoChildLeft` | `Spec => []NoneLeftBehind` |

All but `MailboxRefinement` and the three action properties follow one pattern: the initial
states satisfy an inductive invariant, one lemma per action or group of actions shows
that it is kept, and the property follows from it.  TLC checked each inductive
invariant on the module's run before it was proved.

**FlowHandoff.**  Neither `UniqueOwner` nor `ScanoutSafe` is inductive.  That a BO is
released once depends on who holds it at each program point (the Flow thread holds one
only between lock and publish, the presenter only between acquire and adopt), and on
a framebuffer id and its BO slot agreeing.  That the BO on the display is locked
depends on the display showing the acquired frame exactly between commit and
adopt, and on a queued flip showing what is shown already, which holds because
commit may be nonblocking only when no new Flow frame was acquired.  `HandoffInv`
is the conjunction of these facts: `OwnerInv`, and `DisplayInv` when there is no
writeback recorder.  `NoStarvation` adds a count: at the start of a frame only the
pending, the acquired and the current BO can be locked.  The refinement adds that
numbers only grow on the way (`OrderInv`: what is being drawn is newer than what is
pending, that newer than what is acquired, and that newer than what is current) and
that a queued flip does not take a frame off the plane (`FlipInv`).  With them each
step is a step of the mailbox, publishing, showing a later frame or turning the plane
off, or leaves `published` and `shown` alone.  For any set of BOs and options and any
number of frames.

**RkmppFrames.**  That a frame is held once says nothing about what `poll` does next.
`FrameInv` has `OrderInv`: frames are numbered in the order they are decoded, and the
numbers decrease from the decoder over `frame_loop`, the queue and the presenter to the
frame on screen, which is what keeps the owners apart; `PlaceInv`: what each thread
holds at each program point, and that the plane shows the current frame, or the pending
one between present and `mark_presented`; and `LiveInv`.  The counts of `OneOwner`
follow from the queue being increasing, and `FreshInOrder` from the order and what
`poll` leaves of the queue.  For any capacities, number of buffers and frames.

**Pictures.**  `PicInv` has the same idea for the decoders with one thread: the bitstream
buffer, the decoder's queue and the application's are increasing, each is newer than the
next one towards the display, and all are newer than what is in hand, held and shown
(`OrderInv`); nothing that waits is from before the newest stream information (`CutInv`);
which queues a path uses and where in the loop a picture is in hand (`PlaceInv`); and
`LiveInv`.  The lemmas before it say what joining, cutting, bounding and popping a queue
do to its order and its members.  The pictures a decoder gives are the units that it
worked off, some left out, ranked by number; `Ranks` shows by a count that each rank
belongs to one of them, which takes the place of an induction over the queue.  For any
set of paths and any capacities, number of buffers and access units.

**PlaneSelection.**  `PlaneInv` relates the planes chosen so far to each other and to the
format they were chosen for (`ChoiceInv`), to what is on them (`ShownInv`), and keeps of
the choice of the Flow plane what `FlowSparesVideo` needs long afterwards: it took a
plane that cannot show video, or every plane it could take can (`SpareInv`).  For any
number of planes, any boards and any plane ids on the command line.

**VideoFramebuffers.**  None of the three properties is inductive.  That the plane shows
the frame presented last says nothing about the other entries of the cache, one of which
is presented next; that framebuffers and handles are accounted for says nothing about
whose picture they are.  `FbInv` has `LedgerInv`: the framebuffers of the device are
those of the entries, one each, and each shows the picture that the key of its entry
names.  That the names stay right is the point of the key: a framebuffer keeps its
buffers, so that the inode number of none of them goes to another (`BufferReplaced`).
`ApartInv`: no two entries have a handle in common, nor one with Mesa, unless a buffer was
cached in two layouts.  `CacheInv` says which kind of frame each output keeps and that
there is room in the cache, and no entry of the frame, where an import begins.
`PlaneInv`: the plane shows the entry used last, which is the last of the cache.  The
lemma `VictimIsOldest` draws from it that both outputs evict the first entry and that it is
not the one shown, as a full cache has at least two; this is `StaysLit`.  The lemmas before
the actions say what removing entries, importing and closing handles do to a device
and its ledger.  For any buffers, layouts, numbers and any cache of two or more.

**ControlBus.**  `ViewsAgree` is about the states in which nothing is under way;
`BusInv` says what holds in the others.  What a client will show is what the last line on
its way to it says (`WillShow`), and what the controller will hold is what the last
request that it has read or that is still in the socket says (`WillHold`).  For a
connected client that lost no line and has neither a hello nor a request under way, what
it will show is what the controller holds (`ViewInv`, `TelemInv`); whatever is under way,
the controller will hold what the user chose last (`WantInv`).  `SockInv` adds that a
client that has not been accepted has its hello in the socket, so that a broadcast it
misses is made up for, and that what the server read is handled before it reads again.
The lemmas about `LastOf` say what the last line of a kind is when lines are added or
joined; the recursion over the lines is never needed.  `TrueInv`, for `TelemetryIsTrue`,
is inductive by itself.  For any number of toggles, actions, outages and restarts and any
socket that takes a client's first two lines.

**Overlay.**  `OverlayInv` has what is on the screen and which pointers refer to it, in
each mode (`ScreenInv`), the switch of the OSD panel (`SwitchInv`), and the setting held
back by the map together with the lines under way: while the map is open each of them
says off, otherwise the last one says the user's choice (`CoordInv`).  `EnterOnFocusedRow`
compares the two tables of the code row by row.  For every set-up, any number of lines,
peers and changes under way.

**Supervisor.**  `StackInv` adds which children remain to be waited for at each point of
the final loop, and that only the Windows stack gets past a failed launch.  For any of
the stacks.

The assumptions are the named `ASSUME`s of the modules, which TLC evaluates on every
run.  Those that say more than that a constant is a number or a set: `BufsAssumption`
(the buffer objects are not confused with "none" and the solid frame);
`FramesAssumption` (a frame has a plane, all CPU frames are XRGB8888, and no format is the
value for none); `MaxCachedAssumption` (the cache holds two entries; 12 in the code);
`PrimaryAssumption` (the primary plane supports XRGB8888: `create_primary_buffer` takes
no other); `OverlayAssumption` (a radio adds at most five rows, the optional ones of
`build_rc_panel`, and two changes may be under way); `SockCapAssumption` (a socket
buffer takes two lines).  The last three and `FramesAssumption` were found by the
proofs, as was an overlap between two arms of a CASE in `ShowVideo`.

Model-checked only:

* liveness (`UiResyncs`, `PanelCatchesUp`, `QueuedIsShown` and their like): beyond the
  prover;
* `RtpReassembly`: a packet's units are folded into what was received before; what that
  comes to for every picture is an induction over data, which cannot be instantiated;
* `ListedOnce` and `DisplayAgrees` of `NetworkDiscovery`: what a list of announcements
  makes of the peers, and a list of lines of the display, are folds with the same
  difficulty;
* `NothingDangles` of `Lifetimes`: the programs are a finite list that the run covers
  entirely, so a proof would repeat the enumeration.

## 5. Not modelled, and the plan

Next: the sequence-number arithmetic of `RtpReassembly` as lemmas for any modulus, and
`ListedOnce`, with the peers after a list of announcements stated by the last one of
each address as `ControlBus` does with `LastOf`.

Not modelled:

* drawing: the widgets and the text renderer of glide-flow, LVGL, and the minimap's zoom,
  tiles and flight track in glide-ui.  Geometry, fonts and OpenGL calls, each by one
  thread; what a model could say of them is numeric or a matter of taste;
* the decoding of MAVLink and OpenHD messages and the formatting of lines: pure
  functions of their input.  The theme and screen lines, which are handled like the
  settings of `ControlBus`;
* the contents of pictures, and so the copy of a CPU frame into the buffer on
  screen, torn `last_error_` strings and the sizes of RKMPP's buffers, which
  a larger picture may outgrow; a control file read while it is being written;
* the parsing of JPEG payloads and the headers injected for the X20;
* the primary-readback mode and `--flow-static-scanout` of the compositor, which
  are for diagnosis;
* which card, connector, mode and, in the legacy output, which plane is taken;
* the assignment of cores, probes of the platform, logging, command-line tools,
  packaging and scripts.

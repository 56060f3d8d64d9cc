---- MODULE RtpReassembly ----
(***************************************************************************)
(* From RTP packets to access units: handle_rtp_packet, the H.264 and      *)
(* H.265 depacketizers and the grouping of NAL units into pictures in the  *)
(* three native decoders (src/video/rockchip_mpp_rtp_decoder.cpp,          *)
(* imx_vpu_rtp_decoder.cpp, cedar_rtp_decoder.cpp), fed by a sender over a *)
(* network that loses, duplicates and reorders packets.                    *)
(*                                                                         *)
(* Sequence numbers and timestamps keep their modular arithmetic, with a   *)
(* smaller modulus; a timestamp counts pictures.  A NAL unit is known by   *)
(* its place in its picture, a fragment by its place in the NAL unit.      *)
(***************************************************************************)
EXTENDS Integers, Sequences, FiniteSets, SequencesExt

CONSTANTS
    Decoders,         \* the decoders considered
    Stream,           \* the pictures of a group, sent over and over
    SeqModulus, TsModulus,    \* 2^16 and 2^32 in the code
    ResyncSeq,        \* 1000 in the code: further behind is a new stream
    ResyncTs,         \* 90000 in the code, one second
    SeqJumps, TsJumps,\* where the numbers of a restarted sender continue
    Window,           \* packets on the network at a time
    Disturbances,     \* what goes wrong: a subset of Troubles
    MaxDisturbances   \* bound: how often

\* A picture is a sequence of packets [fu, nals]: fu is "none" for single NAL
\* units and aggregates, and the place of a fragment otherwise.  A NAL unit (or
\* fragment) is [kind, unit, part]; units of a picture are numbered from 0.
Kinds == {"param", "idr", "slice"}
Fus == {"none", "start", "middle", "end"}
Troubles == {"lose", "repeat", "delay", "restart"}

ASSUME DecodersAssumption == Decoders \subseteq {"rkmpp", "imx", "cedar"}
ASSUME StreamAssumption ==
    \A pic \in DOMAIN Stream : \A i \in DOMAIN Stream[pic] :
        /\ Stream[pic][i].fu \in Fus
        /\ \A j \in DOMAIN Stream[pic][i].nals : Stream[pic][i].nals[j].kind \in Kinds
ASSUME NumbersAssumption ==
    /\ {SeqModulus, TsModulus, ResyncSeq, ResyncTs, Window} \subseteq Nat \ {0}
    /\ ResyncSeq < SeqModulus \div 2 /\ ResyncTs < TsModulus \div 2
ASSUME DisturbancesAssumption == Disturbances \subseteq Troubles /\ MaxDisturbances \in Nat

VARIABLES
    decoder,          \* fixed at start
    pic, place,       \* sender: picture of the group, packet of the picture
    seq, ts,          \* sender: the next packet's numbers
    net,              \* packets on the network
    budget,           \* disturbances to come
    restarted,        \* history: the sender has begun anew
    rx,               \* the decoder's members
    out,              \* access units the last packet led to be submitted
    refused,          \* those of them, by place, that the decoder had no room for
    last,             \* history: the last access unit submitted before them
    calm              \* history: packets received undisturbed since a disturbance

senderVars == <<pic, place, seq, ts>>
outVars == <<out, refused, last>>
vars == <<decoder, senderVars, net, budget, restarted, rx, outVars, calm>>

----
(* Numbers. *)

\* static_cast<std::int16_t>(a - b) and static_cast<std::int32_t>(a - b).
Signed(difference, modulus) ==
    LET d == difference % modulus
    IN  IF d >= modulus \div 2 THEN d - modulus ELSE d

SeqDelta(r, p) == Signed(p.seq - r.expected, SeqModulus)
TsDelta(r, p) == Signed(p.ts - r.lastTs, TsModulus)

----
(* The sender and the network. *)

Packet ==
    [seq |-> seq, ts |-> ts, fu |-> Stream[pic][place].fu,
     marker |-> place = Len(Stream[pic]),
     nals |-> [i \in DOMAIN Stream[pic][place].nals |->
                 [pic |-> pic, ts |-> ts, nal |-> Stream[pic][place].nals[i]]]]

Send ==
    /\ Len(net) < Window
    /\ net' = Append(net, Packet)
    /\ seq' = (seq + 1) % SeqModulus
    /\ IF Packet.marker
       THEN /\ place' = 1 /\ pic' = (pic % Len(Stream)) + 1
            /\ ts' = (ts + 1) % TsModulus
       ELSE place' = place + 1 /\ UNCHANGED <<pic, ts>>
    /\ UNCHANGED <<decoder, budget, restarted, rx, outVars, calm>>

Spend(trouble) == trouble \in Disturbances /\ budget > 0 /\ budget' = budget - 1

Lose ==
    /\ net # <<>> /\ Spend("lose")
    /\ net' = Tail(net) /\ calm' = 0
    /\ UNCHANGED <<decoder, senderVars, restarted, rx, outVars>>

\* The sender begins anew, at most once, when its packets have arrived.
Restart ==
    /\ net = <<>> /\ ~restarted /\ Spend("restart")
    /\ pic' = 1 /\ place' = 1 /\ restarted' = TRUE
    /\ \E jump \in SeqJumps : seq' = (seq + jump) % SeqModulus
    /\ \E jump \in TsJumps : ts' = (ts + jump) % TsModulus
    /\ calm' = 0 /\ out' = <<>> /\ refused' = {} /\ last' = <<>>
    /\ UNCHANGED <<decoder, net, rx>>

----
(* RockchipMppRtpDecoder and ImxVpuRtpDecoder. *)

\* fragment_.clear(), access_unit_.clear(), have_access_unit_ = false.
Cleared(r) == [r EXCEPT !.fragment = <<>>, !.au = <<>>, !.haveAu = FALSE]

\* submit_access_unit, flush_access_unit.
Flushed(r) ==
    [r EXCEPT !.out = IF r.haveAu /\ r.au # <<>> THEN Append(@, r.au) ELSE @,
              !.au = <<>>, !.haveAu = FALSE]

IsVcl(n) == n.nal.kind # "param"

Grouped(r, unit, time) ==
    [r EXCEPT !.au = @ \o unit, !.haveAu = TRUE, !.auTs = IF r.haveAu THEN @ ELSE time]

\* queue_nal: Rockchip submits other NAL units at once and discards a picture
\* whose end did not come; i.MX submits it.
Queued(r, unit, time) ==
    LET stale == r.haveAu /\ r.auTs # time
    IN  IF decoder = "imx"
        THEN Grouped(IF stale THEN Flushed(r) ELSE r, unit, time)
        ELSE IF ~IsVcl(Head(unit)) THEN r
        ELSE Grouped(IF stale THEN [r EXCEPT !.au = <<>>, !.haveAu = FALSE] ELSE r, unit, time)

AfterMarker(r, p) == IF p.marker THEN Flushed(r) ELSE r

QueuedAll(r, p) ==
    LET queue(state, n) == Queued(state, <<n>>, p.ts) IN AfterMarker(FoldLeft(queue, r, p.nals), p)

\* FU-A of H.264, FU of H.265.
Defragmented(r, p) ==
    IF p.fu # "start" /\ (r.fragment = <<>> \/ r.fragTs # p.ts)
    THEN r
    ELSE LET fragment == IF p.fu = "start" THEN p.nals ELSE r.fragment \o p.nals
             next     == [r EXCEPT !.fragment = fragment,
                                   !.fragTs = IF p.fu = "start" THEN p.ts ELSE @]
         IN  IF p.fu = "end"
             THEN AfterMarker([Queued(next, fragment, p.ts) EXCEPT !.fragment = <<>>], p)
             ELSE next

IsLate_Never(r, p) == FALSE

\* A packet behind the expected one is late, unless it is so far behind, or so
\* much older, that the stream must have begun anew.
IsLate(r, p) ==
    /\ r.haveSeq /\ SeqDelta(r, p) < 0
    /\ ~(SeqDelta(r, p) < -ResyncSeq \/ TsDelta(r, p) < -ResyncTs)

Received(r, p) ==
    IF IsLate(r, p) THEN r
    ELSE LET inOrder == IF r.haveSeq /\ SeqDelta(r, p) # 0 THEN Cleared(r) ELSE r
             next    == [inOrder EXCEPT !.expected = (p.seq + 1) % SeqModulus, !.haveSeq = TRUE,
                                        !.lastTs = p.ts]
         IN  IF p.fu = "none" THEN QueuedAll(next, p) ELSE Defragmented(next, p)

----
(* CedarRtpDecoder. *)

\* reset_access_unit; submit_access_unit leaves the same behind, whether the
\* bitstream buffer takes the unit or not (Refusals).
Reset(r) == [r EXCEPT !.au = <<>>, !.haveTs = FALSE, !.fuStarted = FALSE, !.hasVcl = FALSE]

Submitted(r) == [Reset(r) EXCEPT !.out = Append(@, r.au)]

\* A bitstream buffer without room for a unit (VBV) costs the unit and nothing
\* else: submit_access_unit reports success and requires no IDR picture.  How
\* full the buffer gets is in Pictures; here it may refuse any unit.
Refusals(units) == SUBSET DOMAIN units

\* The rest of a picture is of no use; the loop over an aggregate ends as well.
Dropped(r, p) == [Reset(r) EXCEPT !.dropping = TRUE, !.dropTs = p.ts, !.done = TRUE]

\* first_slice_starts_frame: the first slice of a picture is unit 1.
StartsFrame(r, n) == r.hasVcl \/ n.nal.unit = 1

RequiresIdr_Forgotten(r) == r

RequiresIdr(r) == [r EXCEPT !.requireIdr = TRUE]

\* A NAL unit, or the start of one, is appended or ends the picture.
Taken(r, n, p) ==
    IF r.done THEN r
    ELSE IF IsVcl(n) /\ ((r.requireIdr /\ n.nal.kind # "idr") \/ ~StartsFrame(r, n))
    THEN Dropped(r, p)
    ELSE [r EXCEPT !.au = Append(@, n), !.hasVcl = @ \/ IsVcl(n),
                   !.requireIdr = @ /\ n.nal.kind # "idr"]

TakenAll(r, p) ==
    LET take(state, n) == Taken(state, n, p)
    IN  FoldLeft(take, [r EXCEPT !.fuStarted = FALSE], p.nals)

TakenFragment(r, p) ==
    LET n    == Head(p.nals)
        next == Taken(r, n, p)
    IN  IF p.fu = "start"
        THEN IF next.done THEN next ELSE [next EXCEPT !.fuStarted = TRUE, !.fuTs = p.ts]
        ELSE IF ~r.fuStarted \/ r.fuTs # p.ts THEN [r EXCEPT !.done = TRUE]
        ELSE [r EXCEPT !.au = Append(@, n), !.fuStarted = p.fu # "end"]

\* A picture that ends without a marker is submitted when the next one begins.
NextPicture(r, p) ==
    IF ~r.haveTs \/ p.ts = r.lastTs \/ r.au = <<>> THEN r
    ELSE IF r.fuStarted THEN Reset(r) ELSE Submitted(r)

IsDropped_All(r, p) == r.dropping

IsDropped(r, p) == r.dropping /\ p.ts = r.dropTs

CedarReceived(r, p) ==
    LET awake == [r EXCEPT !.dropping = FALSE]
        gap   == IF r.haveSeq /\ SeqDelta(r, p) > 0 THEN RequiresIdr(Reset(awake)) ELSE awake
        next  == [NextPicture([gap EXCEPT !.expected = (p.seq + 1) % SeqModulus, !.haveSeq = TRUE], p)
                     EXCEPT !.lastTs = p.ts, !.haveTs = TRUE]
        taken == IF p.fu = "none" THEN TakenAll(next, p) ELSE TakenFragment(next, p)
    IN  IF IsDropped(r, p) THEN r
        ELSE IF r.haveSeq /\ SeqDelta(r, p) < 0 THEN awake
        ELSE IF p.marker /\ ~taken.done /\ taken.au # <<>> /\ ~taken.fuStarted
        THEN Submitted(taken)
        ELSE [taken EXCEPT !.done = FALSE]

----
(* A packet arrives. *)

Fresh == [haveSeq |-> FALSE, expected |-> 0, lastTs |-> 0, haveTs |-> FALSE,
          fragment |-> <<>>, fragTs |-> 0, au |-> <<>>, haveAu |-> FALSE, auTs |-> 0,
          dropping |-> FALSE, dropTs |-> 0, requireIdr |-> TRUE, fuStarted |-> FALSE,
          fuTs |-> 0, hasVcl |-> FALSE, done |-> FALSE, out |-> <<>>]

\* handle_rtp_packet of the decoder in use.  Any other failure to submit a unit
\* (Rockchip waits in vain, i.MX refuses, Cedar reports an error) ends the preview.
HandlePacket(p) ==
    LET next == IF decoder = "cedar" THEN CedarReceived(rx, p) ELSE Received(rx, p)
    IN  /\ rx' = [next EXCEPT !.out = <<>>]
        /\ out' = next.out
        /\ refused' \in IF decoder = "cedar" THEN Refusals(next.out) ELSE {{}}
        /\ last' = IF out = <<>> THEN last ELSE out[Len(out)]

\* Bound: no longer than any decoder needs to recover.
CalmCap == SeqModulus + Len(FlattenSeq(Stream))

Receive ==
    /\ net # <<>>
    /\ HandlePacket(Head(net)) /\ net' = Tail(net)
    /\ calm' = IF calm < CalmCap THEN calm + 1 ELSE calm
    /\ UNCHANGED <<decoder, senderVars, budget, restarted>>

\* A packet that overtakes the one before it.
ReceiveEarly ==
    /\ Len(net) > 1 /\ Spend("delay")
    /\ HandlePacket(net[2]) /\ net' = <<net[1]>> \o SubSeq(net, 3, Len(net))
    /\ calm' = 0
    /\ UNCHANGED <<decoder, senderVars, restarted>>

\* A packet that arrives and will arrive again.
ReceiveTwice ==
    /\ net # <<>> /\ Spend("repeat")
    /\ HandlePacket(Head(net)) /\ UNCHANGED net
    /\ calm' = 0
    /\ UNCHANGED <<decoder, senderVars, restarted>>

Init ==
    /\ decoder \in Decoders
    /\ pic = 1 /\ place = 1 /\ seq = SeqModulus - 2 /\ ts = 0
    /\ net = <<>> /\ budget = MaxDisturbances /\ restarted = FALSE
    /\ rx = Fresh /\ out = <<>> /\ refused = {} /\ last = <<>> /\ calm = 0

Next == Send \/ Lose \/ Restart \/ Receive \/ ReceiveEarly \/ ReceiveTwice

Spec == Init /\ [][Next]_vars

----
(* Properties. *)

Nals(unit) == {unit[i].nal : i \in DOMAIN unit}

\* The members the decoders keep; what is being assembled is empty or belongs to
\* the picture its timestamp says (access_unit_timestamp_, current_timestamp_).
TypeOK ==
    /\ decoder \in Decoders /\ pic \in DOMAIN Stream /\ place \in DOMAIN Stream[pic]
    /\ seq \in 0..SeqModulus - 1 /\ ts \in 0..TsModulus - 1 /\ Len(net) <= Window
    /\ rx.expected \in 0..SeqModulus - 1 /\ ~rx.done /\ rx.out = <<>>
    /\ refused \subseteq DOMAIN out /\ (decoder # "cedar" => refused = {})
    /\ rx.haveAu => rx.au # <<>> /\ \A i \in DOMAIN rx.au : rx.au[i].ts = rx.auTs
    /\ \A i \in DOMAIN rx.fragment : rx.fragment[i].ts = rx.fragTs

PictureNals(which) ==
    LET packets == Stream[which]
    IN  FlattenSeq([i \in DOMAIN packets |-> packets[i].nals])

\* An access unit submitted to the decoder is made of whole NAL units of a single
\* picture, in their order, whatever was lost, repeated or overtaken
\* (fragment_, access_unit_ and the sequence check of handle_rtp_packet).
WellFormed(unit) ==
    LET which == unit[1].pic
        units == {n.unit : n \in Nals(unit)}
        whole(n) == n.unit \in units
    IN  /\ \A i \in DOMAIN unit : unit[i].pic = which /\ unit[i].ts = unit[1].ts
        /\ [i \in DOMAIN unit |-> unit[i].nal] = SelectSeq(PictureNals(which), whole)

\* The sender has not begun anew.  A restart whose numbers are a little behind
\* is taken for late packets until it has caught up, and then the picture the old
\* stream broke off in meets the new one with no gap between them: what is
\* said of the order and completeness of pictures holds for one stream.
OneStream == ~restarted

Newer(unit, than) == Signed(unit[1].ts - than[1].ts, TsModulus) > 0

\* What is submitted is well formed, and the pictures of a stream come in the
\* order they were taken, each at most once (handle_rtp_packet, queue_nal).
WellFormedInOrder ==
    /\ TypeOK
    /\ \A i \in DOMAIN out :
        /\ WellFormed(out[i])
        /\ LET previous == IF i = 1 THEN last ELSE out[i - 1]
           IN  OneStream /\ previous # <<>> => Newer(out[i], previous)

IsWhole(unit) ==
    {n \in Nals(unit) : n.kind # "param"} = {n \in Range(PictureNals(unit[1].pic)) : n.kind # "param"}

\* Cedar is given whole pictures only.  One that refers to the picture before it
\* lacks that one only when the bitstream buffer refused it: it was submitted
\* right before, after any loss (first_slice_starts_frame, fu_started_,
\* drop_timestamp_, require_idr_).  submit_access_unit does not set require_idr_
\* when the buffer has no room, so more does not hold.
CedarPictures ==
    OneStream /\ decoder = "cedar" => \A i \in DOMAIN out \ refused :
        LET previous == IF i = 1 THEN last ELSE out[i - 1]
        IN  /\ IsWhole(out[i])
            /\ \/ \E n \in Nals(out[i]) : n.kind = "idr"
               \/ previous # <<>> /\ Signed(out[i][1].ts - previous[1].ts, TsModulus) = 1

LongestPicture == CHOOSE n \in {Len(Stream[i]) : i \in DOMAIN Stream} :
                      \A i \in DOMAIN Stream : Len(Stream[i]) <= n

\* Packets that may be ignored after a disturbance: those up to a resync, and
\* the rest of a picture; Cedar has no resync and waits for an IDR picture.
Patience ==
    IF decoder = "cedar" THEN SeqModulus \div 2 + Len(FlattenSeq(Stream)) + LongestPicture
    ELSE ResyncSeq + 2 * LongestPicture

\* When Patience packets have come undisturbed, the end of a picture is the
\* submission of that picture: the stream goes on within a known number of
\* packets after losses, disorder and a restart of the sender, and at once after
\* a unit that the buffer refused.
RecoversInTime ==
    [][Receive /\ calm >= Patience /\ Head(net).marker
          => Len(out') = 1 /\ IsWhole(out'[1]) /\ out'[1][1].ts = Head(net).ts]_vars

\* A picture that lost a slice is not submitted, as the comment in queue_nal
\* demands ("Submitting a partial multi-slice picture poisons subsequent
\* references, so discard it").
WholePictures == \A i \in DOMAIN out : IsWhole(out[i])
====

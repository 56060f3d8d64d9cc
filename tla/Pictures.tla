---- MODULE Pictures ----
(***************************************************************************)
(* Decoded pictures on their way to the display where one thread decodes   *)
(* and presents: CedarRtpDecoder, ImxVpuRtpDecoder (onto a plane, or drawn *)
(* with GLES) and the GStreamer pipeline with its appsink (DMABUFs, or     *)
(* MJPEG pictures that are copied).  The Rockchip decoder with its threads *)
(* has a module of its own, RkmppFrames.                                   *)
(*                                                                         *)
(* Access units and the pictures decoded from them are numbered; a number  *)
(* also stands for the buffer the picture is in.  While a picture is live  *)
(* nobody has given its buffer back and the decoder cannot write into it.  *)
(***************************************************************************)
EXTENDS Naturals, Sequences, FiniteSets, SequencesExt

CONSTANTS
    Paths,        \* subset of AllPaths
    MaxUnits,     \* bound on the access units sent
    VbvCap,       \* access units that fit the decoder's bitstream buffer
    NumBufs,      \* buffers the decoder has for pictures
    ReadyCap,     \* pictures Cedar and i.MX keep queued (6)
    SinkCap,      \* max-buffers of the appsink (8)
    MaxErrors     \* consecutive samples that may be unusable (30)

AllPaths == {"cedar", "imx", "imxGles", "gst", "gstMjpeg"}

ASSUME PathsAssumption == Paths \subseteq AllPaths
ASSUME CapsAssumption == {VbvCap, NumBufs, ReadyCap, SinkCap, MaxErrors} \subseteq Nat \ {0}
ASSUME UnitsAssumption == MaxUnits \in Nat

VARIABLES
    path,         \* decoder and output of this behaviour
    sent,         \* access units that reached the socket
    received,     \* access units read from it
    vbv,          \* submitted and not decoded yet
    lib,          \* pictures the decoder offers: RequestPicture, the appsink
    ready,        \* ready_pictures_, ready_frames_
    current,      \* current_picture_, current_frame_, sample; 0 for none
    held,         \* scanout_sample; 0 for none
    live,         \* pictures whose buffers have not been given back
    cut,          \* last access unit before the newest stream information
    shown,        \* the picture presented last; 0 before the first
    errors,       \* consecutive_frame_errors
    bus,          \* an ERROR or EOS message waits on the bus
    pc, stop

inVars == <<sent, received, vbv>>
outVars == <<shown, held>>
vars == <<path, inVars, lib, ready, current, held, live, cut, shown, errors, bus, pc, stop>>

None == 0
Pictures == 1..MaxUnits
Gst == path \in {"gst", "gstMjpeg"}
Imx == path \in {"imx", "imxGles"}

Init ==
    /\ path \in Paths
    /\ sent = 0 /\ received = 0 /\ vbv = <<>>
    /\ lib = <<>> /\ ready = <<>> /\ live = {}
    /\ current = None /\ held = None /\ shown = None
    /\ cut = 0 /\ errors = 0 /\ bus = FALSE
    /\ pc = "top" /\ stop = FALSE

\* The depacketizer completes an access unit (see RtpReassembly).
Send ==
    /\ sent < MaxUnits /\ pc # "done"
    /\ sent' = sent + 1
    /\ UNCHANGED <<path, received, vbv, lib, ready, current, outVars, live, cut, errors, bus, pc, stop>>

----
(* The loop of the preview. *)

\* stop_requested is looked at once per pass.
StartPass ==
    /\ pc = "top"
    /\ pc' = IF stop THEN "cleanup" ELSE "poll"
    /\ IF Gst /\ bus /\ ~stop THEN stop' = TRUE /\ bus' = FALSE ELSE UNCHANGED <<stop, bus>>
    /\ UNCHANGED <<path, inVars, lib, ready, current, outVars, live, cut, errors>>

\* The decoder's library, poll, the waiting overlay or present fails.
Fails ==
    /\ pc \in {"poll", "drain", "last", "present"}
    /\ pc' = "cleanup" /\ stop' = (stop \/ Gst)
    /\ UNCHANGED <<path, inVars, lib, ready, current, outVars, live, cut, errors, bus>>

\* mark_presented gives back the picture it has just shown.  A sample is kept
\* until the next one is shown; one that was copied is given back at once.
Returned == IF path = "gst" THEN {held} ELSE {current}

Present ==
    /\ pc = "present"
    /\ shown' = current /\ current' = None
    /\ live' = live \ Returned
    /\ held' = IF path = "gst" THEN current ELSE held
    /\ errors' = 0
    /\ pc' = "top"
    /\ UNCHANGED <<path, inVars, lib, ready, cut, bus, stop>>

RequestStop ==
    /\ ~stop /\ pc # "done"
    /\ stop' = TRUE
    /\ UNCHANGED <<path, inVars, lib, ready, current, outVars, live, cut, errors, bus, pc>>

\* The destructor, or the end of the GStreamer branch.
Cleanup ==
    /\ pc = "cleanup"
    /\ live' = {} /\ vbv' = <<>> /\ lib' = <<>> /\ ready' = <<>>
    /\ current' = None /\ held' = None
    /\ pc' = "done"
    /\ UNCHANGED <<path, sent, received, cut, shown, errors, bus, stop>>

Done == pc = "done" /\ UNCHANGED vars

----
(* Decoding. *)

\* Some of the units the decoder works off, P, give a picture, each of which needs
\* a buffer; pictures come in the order of the units.
Decodes(P) == [i \in 1..Cardinality(P) |-> CHOOSE n \in P : Cardinality({m \in P : m <= n}) = i]

\* The queues drop their oldest pictures.
Newest(s, n) == IF Len(s) > n THEN SubSeq(s, Len(s) - n + 1, Len(s)) ELSE s

----
(* CedarRtpDecoder::poll: read all packets, draining after each submitted   *)
(* access unit; one more drain at the end when nothing was delivered.       *)

\* DecodeVideoStream stops without bitstream or without a free buffer.
CedarDecode(q) ==
    \E k \in 0..Len(q) : \E P \in SUBSET ToSet(SubSeq(q, 1, k)) :
      /\ Cardinality(live) + Cardinality(P) <= NumBufs
      /\ k = Len(q) \/ Cardinality(live) + Cardinality(P) = NumBufs
      /\ vbv' = SubSeq(q, k + 1, Len(q))
      /\ lib' = lib \o Decodes(P) /\ live' = live \cup P

\* A full bitstream buffer costs the access unit, and nothing is drained.
CedarReceive ==
    /\ path = "cedar" /\ pc = "poll" /\ received < sent
    /\ received' = received + 1
    /\ IF Len(vbv) < VbvCap
       THEN CedarDecode(Append(vbv, received + 1)) /\ pc' = "drain"
       ELSE CedarDecode(vbv) /\ pc' = "poll"
    /\ UNCHANGED <<path, sent, ready, current, outVars, cut, errors, bus, stop>>

CedarSocketEmpty ==
    /\ path = "cedar" /\ pc = "poll" /\ received = sent
    /\ pc' = IF current # None THEN "present" ELSE "last"
    /\ UNCHANGED <<path, inVars, lib, ready, current, outVars, live, cut, errors, bus, stop>>

\* One picture at a time: the next waits until mark_presented.
Delivers == current = None

Stale_Forgotten(all) == {}
Stale(all) == ToSet(all) \ ToSet(Newest(all, ReadyCap))

CedarDrain ==
    /\ pc \in {"drain", "last"}
    /\ LET all == ready \o lib
           kept == Newest(all, ReadyCap)
           delivered == kept # <<>> /\ Delivers
       IN /\ live' = live \ Stale(all)
          /\ current' = IF delivered THEN Head(kept) ELSE current
          /\ ready' = IF delivered THEN Tail(kept) ELSE kept
          /\ pc' = CASE pc = "drain" -> "poll"
                     [] pc = "last" /\ delivered -> "present"
                     [] OTHER -> "top"
    /\ lib' = <<>>
    /\ UNCHANGED <<path, inVars, outVars, cut, errors, bus, stop>>

----
(* ImxVpuRtpDecoder::poll: deliver what is queued, else read packets until  *)
(* a picture can be delivered or the socket is empty.                       *)

HasReady_OffByOne == Len(ready) > 1
HasReady == ready # <<>>

ImxDeliver ==
    /\ Imx /\ pc = "poll" /\ HasReady
    /\ current' = Head(ready) /\ ready' = Tail(ready)
    /\ pc' = "present"
    /\ UNCHANGED <<path, inVars, lib, outVars, live, cut, errors, bus, stop>>

\* New stream information before unit i: update_stream_info gives back what
\* is queued, frees the pool and allocates another.
Survives_All(n, newCut) == TRUE
Survives(n, newCut) == n > newCut

ImxReceive ==
    /\ Imx /\ pc = "poll" /\ ~HasReady /\ received < sent
    /\ received' = received + 1
    /\ LET q == Append(vbv, received + 1) IN
       \E k \in 0..Len(q) : \E P \in SUBSET ToSet(SubSeq(q, 1, k)), i \in 0..k :
         /\ cut' = IF i = 0 THEN cut ELSE q[i] - 1
         /\ ready' = Newest(ready \o Decodes({n \in P : Survives(n, cut')}), ReadyCap)
         /\ vbv' = SubSeq(q, k + 1, Len(q))
         /\ live' = live \cup ToSet(ready')
    /\ UNCHANGED <<path, sent, lib, current, outVars, errors, bus, pc, stop>>

ImxSocketEmpty ==
    /\ Imx /\ pc = "poll" /\ ~HasReady /\ received = sent
    /\ pc' = "top"
    /\ UNCHANGED <<path, inVars, lib, ready, current, outVars, live, cut, errors, bus, stop>>

----
(* The GStreamer branch.  The pipeline decodes in threads of its own; queue *)
(* and appsink leak their oldest pictures.                                  *)

GstDecode ==
    /\ Gst /\ pc # "done" /\ received < sent
    /\ received' = received + 1
    /\ \/ UNCHANGED <<lib, live>>
       \/ /\ Cardinality(live) < NumBufs
          /\ lib' = Newest(Append(lib, received + 1), SinkCap)
          /\ live' = (live \cup {received + 1}) \ (ToSet(lib) \ ToSet(lib'))
    /\ UNCHANGED <<path, sent, vbv, ready, current, outVars, cut, errors, bus, pc, stop>>

GstMessage ==
    /\ Gst /\ pc # "done" /\ ~bus
    /\ bus' = TRUE
    /\ UNCHANGED <<path, inVars, lib, ready, current, outVars, live, cut, errors, pc, stop>>

GstTimeout ==
    /\ Gst /\ pc = "poll" /\ lib = <<>>
    /\ pc' = "top"
    /\ UNCHANGED <<path, inVars, lib, ready, current, outVars, live, cut, errors, bus, stop>>

\* Take the newest sample, in place of the one in hand when presenting is
\* paced by sleeping.
Freshest == Last(lib)

GstPull ==
    /\ Gst /\ pc \in {"poll", "present"} /\ lib # <<>>
    /\ current' = Freshest
    /\ live' = live \ ((ToSet(lib) \cup {current}) \ {Freshest})
    /\ lib' = <<>>
    /\ pc' = "present"
    /\ UNCHANGED <<path, inVars, ready, outVars, cut, errors, bus, stop>>

\* extract_dmabuf_frame or extract_bgrx_cpu_frame cannot use the sample.
GstReject ==
    /\ Gst /\ pc = "present"
    /\ live' = live \ {current} /\ current' = None
    /\ errors' = errors + 1
    /\ IF errors + 1 >= MaxErrors THEN stop' = TRUE /\ pc' = "cleanup" ELSE pc' = "top" /\ UNCHANGED stop
    /\ UNCHANGED <<path, inVars, lib, ready, outVars, cut, bus>>

----
Poll == \/ CedarReceive \/ CedarSocketEmpty \/ CedarDrain
        \/ ImxDeliver \/ ImxReceive \/ ImxSocketEmpty
        \/ GstTimeout \/ GstPull
Loop == StartPass \/ Poll \/ Present \/ GstReject \/ Cleanup

Next == Send \/ GstDecode \/ GstMessage \/ RequestStop \/ Loop \/ Fails \/ Done

\* The loop goes round; no packet, no message and no stop has to come.
Spec == Init /\ [][Next]_vars /\ WF_vars(Loop)

----
(* Properties. *)

Queued == ready \o lib
Numbers == Pictures \cup {None}

\* Every variable holds a value the code can give it; in particular the queues
\* keep to their limits.
TypeOK ==
    /\ path \in Paths /\ {sent, received, current, held, cut, shown} \subseteq Numbers
    /\ vbv \in Seq(Pictures) /\ (path = "cedar" => Len(vbv) <= VbvCap)
    /\ lib \in Seq(Pictures) /\ (Gst => Len(lib) <= SinkCap)
    /\ ready \in Seq(Pictures) /\ Len(ready) <= ReadyCap
    /\ live \subseteq Pictures /\ errors \in 0..MaxErrors /\ {bus, stop} \subseteq BOOLEAN
    /\ pc \in {"top", "poll", "drain", "last", "present", "cleanup", "done"}

\* The picture on the video plane is not given back to the decoder; Cedar and i.MX
\* do give it back.
ScanoutHeld == shown # None /\ pc \notin {"cleanup", "done"} => shown \in live

\* Each buffer that is out has exactly one owner, so that it is given back once,
\* also when a queue overflows, the stream changes, a sample is rejected or
\* presenting fails; and the GStreamer branch keeps the sample on the plane
\* until it has presented the next one (return_picture, return_frame,
\* held_sample).
BuffersHeld ==
    /\ TypeOK
    /\ IsInjective(Queued) /\ ToSet(Queued) \cap {current, held} = {}
    /\ current # None => current # held
    /\ live = (ToSet(Queued) \cup {current, held}) \ {None}
    /\ path = "gst" => ScanoutHeld

\* The display never goes back to an earlier picture, and never gets one with
\* the layout of a stream that came after it, whose buffer is gone.
ShownInOrder == [][shown' # shown => shown' > shown /\ shown' > cut]_vars

\* A decoded picture or a later one is presented, unless the stream changes, a
\* sample is unusable or the preview ends; and a stop ends the preview.
DecodedIsShown ==
    /\ \A n \in Pictures : (n \in ToSet(Queued)) ~> (shown >= n \/ cut >= n \/ errors > 0 \/ pc = "done")
    /\ stop ~> (pc = "done")
====

---- MODULE VideoFramebuffers ----
(***************************************************************************)
(* The framebuffers that show decoded video, their cache and their GEM     *)
(* handles: present, find_or_import, import, evict and cleanup of          *)
(* KmsAtomicCompositor (src/dev/kms_atomic_compositor.cpp) and of          *)
(* KmsDmabufVideoPlane (src/dev/kms_dmabuf_video_plane.cpp), which differ  *)
(* in a few lines.  One thread presents; the decoder frees and allocates   *)
(* buffers and Mesa allocates its own on the same device.                  *)
(*                                                                         *)
(* A buffer is known by its inode number; gen tells buffers apart that     *)
(* have the same number one after the other.                               *)
(***************************************************************************)
EXTENDS Naturals, FiniteSetsExt, SequencesExt

CONSTANTS
    FrameBufs,       \* the buffers of a frame, one inode number per plane
    Layouts,         \* format and size of DMABUF frames
    CpuLayouts,      \* of CPU frames
    MaxCached,       \* max_cached_framebuffers
    MaxGbm,          \* bound on the buffers Mesa allocates
    MaxId            \* bound on handle numbers and framebuffer ids

ASSUME MaxCachedAssumption == MaxCached \in Nat /\ MaxCached >= 2
ASSUME NumbersAssumption == MaxGbm \in Nat /\ MaxId \in Nat

\* A frame has a plane at least (make_frame_key), every CPU frame has the one
\* format XRGB8888 (present), and no format is 0, which stands for none.
ASSUME FramesAssumption ==
    /\ FrameBufs \subseteq Seq(Nat) \ {<<>>}
    /\ \A l \in Layouts \cup CpuLayouts : l.format # "none"
    /\ \A l, m \in CpuLayouts : l.format = m.format

Inodes == UNION {Range(bufs) : bufs \in FrameBufs}
Gens == 1..2
Ids == 1..MaxId

NoLayout == [format |-> "none", size |-> 0]
NoFrame == [bufs |-> <<>>, layout |-> NoLayout]
DmabufFrames == [bufs : FrameBufs, layout : Layouts]
CpuFrames == [bufs : {<<>>}, layout : CpuLayouts]
Frames == DmabufFrames \cup CpuFrames

\* What a handle stands for.
NoObject == <<>>
Gbm == <<"gbm">>
Dumb == <<"dumb">>
Dmabufs == {<<"dmabuf", b, g>> : b \in Inodes, g \in Gens}

\* What a framebuffer shows.
NoFb == [objs |-> <<>>, layout |-> NoLayout]

\* A cached framebuffer; the dumb buffer of CPU frames is one too.
NoEntry == [key |-> NoFrame, fb |-> 0, handles |-> <<>>]

VARIABLES
    output,          \* "atomic" or "legacy", fixed
    source,          \* "dmabuf" or "cpu" frames, fixed
    drm,             \* the device: open handles, framebuffers, video plane
    pool,            \* generation of the buffer with an inode number
    gbm,             \* handles Mesa holds
    format,          \* video_plane_format_ and video_plane_modifier_
    cache,           \* video_framebuffer_cache_, least recently used first
    current,         \* current_video_framebuffer_, current_framebuffer_
    cpu,             \* cpu_video_
    pc, frame, target,  \* progress of present
    shown,           \* history: the picture last committed
    shared           \* history: a buffer was cached in two layouts

optionVars == <<output, source>>
videoVars == <<format, cache, current, cpu>>
presentVars == <<pc, frame, target>>
history == <<shown, shared>>
vars == <<optionVars, drm, pool, gbm, videoVars, presentVars, history>>

\* present returns; its locals end.
Return(state) == pc' = state /\ frame' = NoFrame /\ target' = 0

Init ==
    /\ output \in {"atomic", "legacy"} /\ source \in {"dmabuf", "cpu"}
    /\ drm = [handles |-> [i \in Ids |-> NoObject], fbs |-> [i \in Ids |-> NoFb], plane |-> 0]
    /\ pool = [b \in Inodes |-> 1] /\ gbm = {}
    /\ format = "none" /\ cache = <<>> /\ current = 0 /\ cpu = NoEntry
    /\ pc = "idle" /\ frame = NoFrame /\ target = 0
    /\ shown = NoFb /\ shared = FALSE

----
(* The kernel: numbers are reused lowest first, a buffer imported twice has *)
(* one handle, a framebuffer keeps its buffers, and removing a framebuffer  *)
(* turns the plane off that shows it.                                       *)

FirstUnused(table, none) ==
    {n \in Ids : table[n] = none /\ \A m \in 1..(n - 1) : table[m] # none}

\* The handles that objs get, in this order; a number must be left for each
\* new one (bound: MaxId).
Handles(d, objs) ==
    {hs \in [DOMAIN objs -> Ids] :
        \A i \in DOMAIN objs :
            /\ \A j \in DOMAIN objs : hs[i] = hs[j] <=> objs[i] = objs[j]
            /\ \/ d.handles[hs[i]] = objs[i]
               \/ /\ d.handles[hs[i]] = NoObject
                  /\ \A h \in Ids : d.handles[h] # objs[i]
                  /\ \A m \in 1..(hs[i] - 1) :
                        d.handles[m] = NoObject => \E j \in 1..(i - 1) : hs[j] = m}

Opened(d, objs, hs) ==
    [d EXCEPT !.handles = [h \in Ids |-> IF h \in Range(hs)
                                         THEN objs[CHOOSE i \in DOMAIN hs : hs[i] = h]
                                         ELSE @[h]]]
AddedFb(d, id, objs, layout) == [d EXCEPT !.fbs[id] = [objs |-> objs, layout |-> layout]]
Shows(d, id) == [d EXCEPT !.plane = id]

Referenced(obj) == \/ \E h \in Ids : drm.handles[h] = obj
                   \/ \E id \in Ids : obj \in Range(drm.fbs[id].objs)

Closed(d, handles) ==
    [d EXCEPT !.handles = [h \in Ids |-> IF h \in handles THEN NoObject ELSE @[h]]]

\* destroy_imported for each entry: remove the framebuffer, close the handles.
Destroyed(d, entries) ==
    LET ids == {e.fb : e \in entries}
        rest == Closed(d, UNION {Range(e.handles) : e \in entries})
    IN [rest EXCEPT !.fbs = [id \in Ids |-> IF id \in ids THEN NoFb ELSE @[id]],
                    !.plane = IF @ \in ids THEN 0 ELSE @]

\* Import objs and make a framebuffer of them, as an entry for frame f: what
\* that can leave behind.
Imports(d, objs, f) ==
    {[drm |-> AddedFb(Opened(d, objs, hs), id, objs, f.layout),
      entry |-> [key |-> f, fb |-> id, handles |-> hs]] :
        hs \in Handles(d, objs), id \in FirstUnused(d.fbs, NoFb)}

----
Picture(f) ==
    [objs |-> IF f.bufs = <<>> THEN <<Dumb>>
              ELSE [i \in DOMAIN f.bufs |-> <<"dmabuf", f.bufs[i], pool[f.bufs[i]]>>],
     layout |-> f.layout]

\* The video leaves its plane and the cache is emptied; the legacy output
\* turns the plane off first, the atomic one has it turned off.
DropVideo(d) ==
    Destroyed(IF output = "legacy" /\ format # "none" THEN Shows(d, 0) ELSE d, Range(cache))

\* A frame arrives.  In another format than the last it needs a plane.
StartPresent ==
    /\ pc = "idle"
    /\ \E f \in (IF source = "cpu" THEN CpuFrames ELSE DmabufFrames) :
          \/ /\ f.layout.format = format
             /\ pc' = "find" /\ frame' = f /\ UNCHANGED target
             /\ UNCHANGED <<drm, format, cache, current>>
          \/ /\ f.layout.format # format
             /\ drm' = DropVideo(drm) /\ cache' = <<>> /\ current' = 0
             /\ \/ /\ format' = f.layout.format
                   /\ pc' = "find" /\ frame' = f /\ UNCHANGED target
                \/ /\ format' = (IF output = "atomic" THEN "none" ELSE format)
                   /\ Return("failed")
    /\ UNCHANGED <<optionVars, pool, gbm, cpu, history>>

SameKey_IgnoresLayout(e, f) == e.key.bufs = f.bufs
SameKey(e, f) == e.key = f

FindHit ==
    /\ pc = "find" /\ source = "dmabuf"
    /\ \E i \in DOMAIN cache :
          /\ SameKey(cache[i], frame)
          /\ cache' = Append(RemoveAt(cache, i), cache[i])
          /\ target' = cache[i].fb
    /\ pc' = "commit"
    /\ UNCHANGED <<optionVars, drm, pool, gbm, format, current, cpu, frame, history>>

\* The atomic compositor evicts the least recently used entry, the legacy
\* output the least recently used one that it does not show; there is one,
\* as the cache holds at least two entries when it evicts.
Victim_MostRecent == Len(cache)
Victim == IF output = "atomic" THEN 1
          ELSE Min({i \in DOMAIN cache : cache[i].fb # current})

Full_OffByOne == Len(cache) > MaxCached
Full == Len(cache) >= MaxCached

Evict_Forgets ==
    IF Full THEN cache' = RemoveAt(cache, Victim) /\ UNCHANGED drm
    ELSE UNCHANGED <<drm, cache>>

Evict ==
    IF Full THEN /\ drm' = Destroyed(drm, {cache[Victim]})
                 /\ cache' = RemoveAt(cache, Victim)
    ELSE UNCHANGED <<drm, cache>>

FindMiss ==
    /\ pc = "find" /\ source = "dmabuf"
    /\ \A i \in DOMAIN cache : ~SameKey(cache[i], frame)
    /\ Evict
    /\ pc' = "import"
    /\ UNCHANGED <<optionVars, pool, gbm, format, current, cpu, frame, target, history>>

\* Two entries hold the one handle of a buffer.
CachedAgain(f) == \E i \in DOMAIN cache : Range(cache[i].key.bufs) \cap Range(f.bufs) # {}

Import ==
    /\ pc = "import"
    /\ \E imported \in Imports(drm, Picture(frame).objs, frame) :
          /\ drm' = imported.drm
          /\ cache' = Append(cache, imported.entry)
          /\ target' = imported.entry.fb
    /\ shared' = (shared \/ CachedAgain(frame))
    /\ pc' = "commit"
    /\ UNCHANGED <<optionVars, pool, gbm, format, current, cpu, frame, shown>>

\* A handle or, in the end, the framebuffer is refused: the handles opened
\* so far are closed, those the buffer had before included.
ImportFails ==
    /\ pc = "import"
    /\ \E n \in 0..Len(frame.bufs) :
          LET objs == [i \in 1..n |-> Picture(frame).objs[i]]
          IN \E hs \in Handles(drm, objs) : drm' = Closed(Opened(drm, objs, hs), Range(hs))
    /\ shared' = (shared \/ CachedAgain(frame))
    /\ Return("failed")
    /\ UNCHANGED <<optionVars, pool, gbm, videoVars, shown>>

\* The dumb buffer of CPU frames is replaced when their size changes.
CpuFits == cpu.fb # 0 /\ cpu.key.layout = frame.layout

UseCpu ==
    /\ pc = "find" /\ source = "cpu"
    /\ \/ /\ CpuFits
          /\ target' = cpu.fb /\ pc' = "commit" /\ UNCHANGED <<drm, cpu, frame>>
       \/ /\ ~CpuFits
          /\ \E imported \in Imports(Destroyed(drm, {cpu}), <<Dumb>>, frame) :
                /\ drm' = imported.drm /\ cpu' = imported.entry
                /\ target' = imported.entry.fb
          /\ pc' = "commit" /\ UNCHANGED frame
       \/ /\ ~CpuFits
          /\ drm' = Destroyed(drm, {cpu}) /\ cpu' = NoEntry
          /\ Return("failed")
    /\ UNCHANGED <<optionVars, pool, gbm, format, cache, current, history>>

Commit ==
    /\ pc = "commit"
    /\ drm.fbs[target] # NoFb
    /\ drm' = Shows(drm, target)
    /\ current' = target
    /\ shown' = Picture(frame)
    /\ Return("idle")
    /\ UNCHANGED <<optionVars, pool, gbm, format, cache, cpu, shared>>

\* An error ends the preview.
CommitFails ==
    /\ pc = "commit"
    /\ Return("failed")
    /\ UNCHANGED <<optionVars, drm, pool, gbm, videoVars, history>>

\* present_overlay, while no frame arrives, shows the current framebuffer again.
PresentOverlay ==
    /\ pc = "idle" /\ output = "atomic"
    /\ \/ /\ current # 0 => drm.fbs[current] # NoFb
          /\ drm' = Shows(drm, current)
          /\ UNCHANGED presentVars
       \/ Return("failed") /\ UNCHANGED drm
    /\ UNCHANGED <<optionVars, pool, gbm, videoVars, history>>

\* Mesa's buffers go first, then the cache and the dumb buffer.
Cleanup ==
    /\ pc \in {"idle", "failed"}
    /\ drm' = Destroyed(DropVideo(Closed(drm, gbm)), {cpu})
    /\ gbm' = {} /\ cache' = <<>> /\ current' = 0 /\ cpu' = NoEntry
    /\ Return("closed")
    /\ UNCHANGED <<optionVars, pool, format, history>>

----
(* The decoder frees a buffer and allocates one that gets its inode number, *)
(* which happens only when nothing refers to the old one.  present looks at *)
(* no buffer but its own, which the decoder keeps: that this action falls   *)
(* between two presents loses nothing.                                      *)

BufferReplaced ==
    \E b \in Inodes :
        /\ pc = "idle" /\ source = "dmabuf"
        /\ ~Referenced(<<"dmabuf", b, pool[b]>>)
        /\ pool' = [pool EXCEPT ![b] = 3 - @]
        /\ UNCHANGED <<optionVars, drm, gbm, videoVars, presentVars, history>>

\* The Flow thread's surface gets a buffer; the legacy output has none.
GbmAllocates ==
    /\ output = "atomic" /\ pc # "closed" /\ Cardinality(gbm) < MaxGbm
    /\ \E h \in FirstUnused(drm.handles, NoObject) :
          gbm' = gbm \cup {h} /\ drm' = [drm EXCEPT !.handles[h] = Gbm]
    /\ UNCHANGED <<optionVars, pool, videoVars, presentVars, history>>

Next ==
    \/ StartPresent \/ FindHit \/ FindMiss \/ Import \/ ImportFails \/ UseCpu
    \/ Commit \/ CommitFails \/ PresentOverlay \/ Cleanup
    \/ BufferReplaced \/ GbmAllocates

Spec == Init /\ [][Next]_vars

----
Entries == [key : Frames \cup {NoFrame}, fb : {0} \cup Ids, handles : Seq(Ids)]

\* Every variable has a value the code can give it; the cache never holds
\* more than max_cached_framebuffers entries, no two with one key
\* (find_or_import_video_framebuffer, evict_video_framebuffer_if_needed).
TypeOK ==
    /\ output \in {"atomic", "legacy"} /\ source \in {"dmabuf", "cpu"}
    /\ drm.handles \in [Ids -> Dmabufs \cup {NoObject, Gbm, Dumb}]
    /\ \A id \in Ids : drm.fbs[id].layout \in Layouts \cup CpuLayouts \cup {NoLayout}
    /\ drm.plane \in {0} \cup Ids
    /\ pool \in [Inodes -> Gens] /\ gbm \subseteq Ids
    /\ format \in {l.format : l \in Layouts \cup CpuLayouts \cup {NoLayout}}
    /\ Range(cache) \subseteq Entries /\ Len(cache) <= MaxCached
    /\ \A i, j \in DOMAIN cache : cache[i].key = cache[j].key => i = j
    /\ current \in {0} \cup Ids /\ cpu \in Entries
    /\ pc \in {"idle", "find", "import", "commit", "failed", "closed"}
    /\ frame \in Frames \cup {NoFrame} /\ target \in {0} \cup Ids
    /\ shared \in BOOLEAN

\* The plane shows the picture last presented, in its layout, for as long as
\* it shows anything, whatever the decoder frees and allocates in between;
\* what is committed next is the frame at hand, and what present_overlay
\* commits again is what is shown: the key of the cache identifies a buffer.
PlaneShowsFrame ==
    /\ drm.plane # 0 => drm.fbs[drm.plane] = shown
    /\ pc = "commit" => drm.fbs[target] = Picture(frame)
    /\ pc = "idle" /\ current # 0 => drm.plane = current

Owned == {e \in Range(cache) \cup {cpu} : e.fb # 0}

\* Framebuffers and handles are held by a cache entry or cpu_video_, on every
\* path through import and eviction and with their errors: none leaks, none
\* is removed under an entry, and cleanup leaves nothing behind.  No handle of
\* Mesa's is closed, unless some buffer was cached in two layouts: its entries
\* hold the same handle and each closes it, the second one perhaps after the
\* number has gone to Mesa (destroy_imported).
HandlesAccounted ==
    /\ {id \in Ids : drm.fbs[id] # NoFb} = {e.fb : e \in Owned}
    /\ {h \in Ids : drm.handles[h] \notin {NoObject, Gbm}}
          \subseteq UNION {Range(e.handles) : e \in Owned}
    /\ \A e, f \in Owned : e.fb = f.fb => e = f
    /\ shared \/ \A h \in gbm : drm.handles[h] = Gbm

\* Eviction never takes the picture off the plane: it goes dark only for a
\* new format, for CPU frames of a new size or when the output is closed.
StaysLit ==
    [][drm.plane # 0 /\ drm'.plane = 0 =>
          \/ pc = "idle" /\ (format' # format \/ pc' = "failed")
          \/ pc = "find" /\ source = "cpu" /\ cpu.key.layout # frame.layout
          \/ pc' = "closed"]_vars
====

---- MODULE VideoFramebuffers_proofs ----
(***************************************************************************)
(* Theorems about VideoFramebuffers, for any set of buffers and layouts    *)
(* and any size of the cache.  FbInv is the inductive invariant: the       *)
(* framebuffers of the device are those of the entries, each showing the   *)
(* picture of its key, and the framebuffer on the plane is that of the     *)
(* entry used last, which is the one evicted last.                         *)
(***************************************************************************)
EXTENDS VideoFramebuffers, SequenceTheorems, TLAPS

USE MaxCachedAssumption, NumbersAssumption, FramesAssumption
    DEF MaxCachedAssumption, NumbersAssumption, FramesAssumption, Ids

----
(* The inductive invariant. *)

\* Picture, of a given pool.
PictureIn(p, f) ==
    [objs |-> IF f.bufs = <<>> THEN <<Dumb>>
              ELSE [i \in DOMAIN f.bufs |-> <<"dmabuf", f.bufs[i], p[f.bufs[i]]>>],
     layout |-> f.layout]

Pools == [Inodes -> Gens]
Objects == Dmabufs \cup {NoObject, Gbm, Dumb}
Pictured == {NoFb} \cup {PictureIn(p, f) : p \in Pools, f \in Frames}
Devices == [handles : [Ids -> Objects], fbs : [Ids -> Pictured], plane : {0} \cup Ids]

\* The device holds the framebuffers and handles of the entries E and no other.
Ledger(d, E, p) ==
    /\ \A e \in E : /\ e \in Entries /\ e.fb # 0 /\ e.key \in Frames
                    /\ d.fbs[e.fb] = PictureIn(p, e.key)
    /\ \A id \in Ids : d.fbs[id] # NoFb => \E e \in E : e.fb = id
    /\ \A h \in Ids : d.handles[h] \notin {NoObject, Gbm} => \E e \in E : h \in Range(e.handles)
    /\ \A e, f \in E : e.fb = f.fb => e = f

\* No two entries hold one handle, and no entry holds one of Mesa's.
Apart(d, E, G, p) ==
    /\ \A h \in G : d.handles[h] = Gbm
    /\ \A e \in E : /\ DOMAIN e.handles = DOMAIN PictureIn(p, e.key).objs
                    /\ \A i \in DOMAIN e.handles : d.handles[e.handles[i]] = PictureIn(p, e.key).objs[i]
    /\ \A e, f \in E : e # f => Range(PictureIn(p, e.key).objs) \cap Range(PictureIn(p, f.key).objs) = {}

Distinct(s) == \A i, j \in 1..Len(s) : s[i] = s[j] => i = j

\* The cache belongs to DMABUF frames, cpu_video_ to CPU frames.
CacheInv ==
    /\ cache \in Seq(Entries) /\ Distinct(cache) /\ Len(cache) <= MaxCached
    /\ \A e \in Range(cache) : e.fb # 0 /\ e.key \in DmabufFrames
    /\ \A e, f \in Range(cache) : e.key = f.key => e = f
    /\ pc = "import" => /\ source = "dmabuf" /\ Len(cache) < MaxCached
                        /\ \A e \in Range(cache) : e.key # frame
    /\ source = "cpu" => cache = <<>>
    /\ source = "dmabuf" => cpu = NoEntry
    /\ cpu \in Entries /\ (cpu.fb = 0 => cpu = NoEntry)
    /\ cpu.fb # 0 => cpu.key \in CpuFrames

\* The plane shows the entry used last.
PlaneInv ==
    /\ drm.plane # 0 => drm.fbs[drm.plane] = shown /\ shown # NoFb
    /\ pc \in {"idle", "find", "import"} => drm.plane = current
    /\ pc \in {"idle", "find", "import"} /\ source = "dmabuf" /\ current # 0
          => cache # <<>> /\ cache[Len(cache)].fb = current
    /\ pc \in {"find", "import", "commit"}
          => frame \in (IF source = "cpu" THEN CpuFrames ELSE DmabufFrames)
    /\ pc = "commit" => /\ target # 0 /\ drm.fbs[target] = PictureIn(pool, frame)
                        /\ source = "dmabuf" => cache # <<>> /\ cache[Len(cache)].fb = target
    /\ source = "cpu" /\ format = "none" /\ pc = "idle" => current = 0
    /\ source = "cpu" /\ pc \in {"find", "commit"} => format # "none"
    /\ source = "cpu" /\ format # "none" => \A l \in CpuLayouts : l.format = format

TypeInv ==
    /\ output \in {"atomic", "legacy"} /\ source \in {"dmabuf", "cpu"}
    /\ drm \in Devices
    /\ pool \in Pools /\ gbm \subseteq Ids
    /\ format \in {l.format : l \in Layouts \cup CpuLayouts \cup {NoLayout}}
    /\ current \in {0} \cup Ids
    /\ pc \in {"idle", "find", "import", "commit", "failed", "closed"}
    /\ frame \in Frames \cup {NoFrame} /\ target \in {0} \cup Ids
    /\ shared \in BOOLEAN

LedgerInv == Ledger(drm, Owned, pool)

ApartInv == shared \/ Apart(drm, Owned, gbm, pool)

FbInv == TypeInv /\ CacheInv /\ PlaneInv /\ LedgerInv /\ ApartInv

----
(* Objects and pictures. *)

\* The objects a handle can stand for are told apart.
LEMMA Tags ==
    /\ NoObject # Gbm /\ NoObject # Dumb /\ Gbm # Dumb
    /\ \A o \in Dmabufs : o # NoObject /\ o # Gbm /\ o # Dumb
  <1>1. /\ Len(<<>>) = 0 /\ Len(Gbm) = 1 /\ Len(Dumb) = 1
        /\ Gbm[1] = "gbm" /\ Dumb[1] = "dumb"
    BY DEF Gbm, Dumb
  <1>2. ASSUME NEW o \in Dmabufs PROVE Len(o) = 3
    BY <1>2 DEF Dmabufs
  <1>3. "gbm" # "dumb"
    OBVIOUS
  <1>4. NoObject = <<>>
    BY DEF NoObject
  <1> HIDE DEF NoObject, Gbm, Dumb, Dmabufs
  <1>5. NoObject # Gbm /\ NoObject # Dumb
    BY <1>1, <1>4
  <1>6. Gbm # Dumb
    BY <1>1, <1>3
  <1>7. ASSUME NEW o \in Dmabufs PROVE o # NoObject /\ o # Gbm /\ o # Dumb
    BY <1>1, <1>2, <1>4
  <1> QED
    BY <1>5, <1>6, <1>7

\* A frame has planes; a CPU frame has no DMABUF.
LEMMA FrameShape ==
    ASSUME NEW f \in Frames
    PROVE  /\ f = [bufs |-> f.bufs, layout |-> f.layout]
           /\ f.layout \in Layouts \cup CpuLayouts
           /\ f \in CpuFrames <=> f.bufs = <<>>
           /\ f \in DmabufFrames => f.bufs # <<>>
           /\ f.bufs # <<>> => /\ f \in DmabufFrames /\ f.bufs \in FrameBufs
                               /\ Len(f.bufs) \in Nat \ {0} /\ DOMAIN f.bufs = 1..Len(f.bufs)
                               /\ \A i \in DOMAIN f.bufs : f.bufs[i] \in Inodes
  <1>1. f = [bufs |-> f.bufs, layout |-> f.layout] /\ f.layout \in Layouts \cup CpuLayouts
    BY DEF Frames, DmabufFrames, CpuFrames
  <1>2. f \in CpuFrames => f.bufs = <<>>
    BY DEF CpuFrames
  <1>3. f \in DmabufFrames => f.bufs \in FrameBufs /\ f.bufs # <<>>
    BY DEF DmabufFrames
  <1>4. ASSUME f.bufs # <<>>
        PROVE  /\ f \in DmabufFrames /\ f.bufs \in FrameBufs
               /\ Len(f.bufs) \in Nat \ {0} /\ DOMAIN f.bufs = 1..Len(f.bufs)
               /\ \A i \in DOMAIN f.bufs : f.bufs[i] \in Inodes
    <2>1. f \in DmabufFrames /\ f.bufs \in FrameBufs
      BY <1>2, <1>3, <1>4 DEF Frames
    <2>2. f.bufs \in Seq(Nat)
      BY <2>1
    <2>3. Len(f.bufs) \in Nat \ {0} /\ DOMAIN f.bufs = 1..Len(f.bufs)
      BY <1>4, <2>2, EmptySeq, LenProperties
    <2>4. \A i \in DOMAIN f.bufs : f.bufs[i] \in Range(f.bufs)
      BY DEF Range
    <2> QED
      BY <2>1, <2>3, <2>4 DEF Inodes
  <1> QED
    BY <1>1, <1>2, <1>3, <1>4 DEF Frames

LEMMA PictureShape ==
    ASSUME NEW p \in Pools, NEW f \in Frames
    PROVE  /\ PictureIn(p, f) = [objs |-> PictureIn(p, f).objs, layout |-> f.layout]
           /\ PictureIn(p, f) \in Pictured /\ PictureIn(p, f) # NoFb
           /\ \E n \in Nat \ {0} : DOMAIN PictureIn(p, f).objs = 1..n
           /\ \A i \in DOMAIN PictureIn(p, f).objs : PictureIn(p, f).objs[i] \in Dmabufs \cup {Dumb}
           /\ f.bufs = <<>> => PictureIn(p, f).objs = <<Dumb>>
           /\ f.bufs # <<>> => PictureIn(p, f).objs = [i \in DOMAIN f.bufs |-> <<"dmabuf", f.bufs[i], p[f.bufs[i]]>>]
  <1> DEFINE objs == PictureIn(p, f).objs
  <1>1. PictureIn(p, f) = [objs |-> objs, layout |-> f.layout]
    BY DEF PictureIn
  <1>2. /\ f.bufs = <<>> => objs = <<Dumb>>
        /\ f.bufs # <<>> => objs = [i \in DOMAIN f.bufs |-> <<"dmabuf", f.bufs[i], p[f.bufs[i]]>>]
    BY DEF PictureIn
  <1> HIDE DEF objs
  <1>3. PictureIn(p, f) \in Pictured
    BY DEF Pictured
  <1>4. /\ \E n \in Nat \ {0} : DOMAIN objs = 1..n
        /\ \A i \in DOMAIN objs : objs[i] \in Dmabufs \cup {Dumb}
    <2>1. CASE f.bufs = <<>>
      <3>1. objs = <<Dumb>>
        BY <1>2, <2>1
      <3>2. DOMAIN objs = 1..1 /\ objs[1] = Dumb
        BY <3>1
      <3> QED
        BY <3>2
    <2>2. CASE f.bufs # <<>>
      <3>1. /\ Len(f.bufs) \in Nat \ {0} /\ DOMAIN f.bufs = 1..Len(f.bufs)
            /\ \A i \in DOMAIN f.bufs : f.bufs[i] \in Inodes
        BY <2>2, FrameShape
      <3>2. DOMAIN objs = 1..Len(f.bufs)
        BY <1>2, <2>2, <3>1
      <3>3. ASSUME NEW i \in DOMAIN objs PROVE objs[i] \in Dmabufs
        <4>1. f.bufs[i] \in Inodes /\ p[f.bufs[i]] \in Gens
          BY <3>1, <3>2 DEF Pools
        <4>2. objs[i] = <<"dmabuf", f.bufs[i], p[f.bufs[i]]>>
          BY <1>2, <2>2, <3>1, <3>2
        <4> QED
          BY <4>1, <4>2 DEF Dmabufs
      <3> QED
        BY <3>1, <3>2, <3>3
    <2> QED
      BY <2>1, <2>2
  <1>5. PictureIn(p, f) # NoFb
    <2>1. objs # <<>>
      BY <1>4
    <2>2. NoFb.objs = <<>>
      BY DEF NoFb
    <2> QED
      BY <1>1, <2>1, <2>2
  <1> QED
    BY <1>1, <1>2, <1>3, <1>4, <1>5 DEF objs

\* Two pictures with an object in common are of frames with a buffer in common.
LEMMA CommonObject ==
    ASSUME NEW p \in Pools, NEW f \in DmabufFrames, NEW g \in DmabufFrames,
           Range(f.bufs) \cap Range(g.bufs) = {}
    PROVE  Range(PictureIn(p, f).objs) \cap Range(PictureIn(p, g).objs) = {}
  <1>1. /\ f \in Frames /\ g \in Frames /\ f.bufs # <<>> /\ g.bufs # <<>>
    BY FrameShape DEF Frames
  <1>2. /\ PictureIn(p, f).objs = [i \in DOMAIN f.bufs |-> <<"dmabuf", f.bufs[i], p[f.bufs[i]]>>]
        /\ PictureIn(p, g).objs = [i \in DOMAIN g.bufs |-> <<"dmabuf", g.bufs[i], p[g.bufs[i]]>>]
    BY <1>1, PictureShape
  <1>3. ASSUME NEW o \in Range(PictureIn(p, f).objs), o \in Range(PictureIn(p, g).objs) PROVE FALSE
    <2>1. PICK i \in DOMAIN f.bufs : o = <<"dmabuf", f.bufs[i], p[f.bufs[i]]>>
      BY <1>2 DEF Range
    <2>2. PICK j \in DOMAIN g.bufs : o = <<"dmabuf", g.bufs[j], p[g.bufs[j]]>>
      BY <1>2, <1>3 DEF Range
    <2>3. f.bufs[i] = g.bufs[j]
      BY <2>1, <2>2
    <2>4. f.bufs[i] \in Range(f.bufs) /\ g.bufs[j] \in Range(g.bufs)
      BY DEF Range
    <2> QED
      BY <2>3, <2>4
  <1> QED
    BY <1>3

----
(* The cache as a sequence and as a set of entries. *)

LEMMA SeqRange ==
    ASSUME NEW S, NEW s \in Seq(S)
    PROVE  /\ Len(s) \in Nat /\ DOMAIN s = 1..Len(s)
           /\ Range(s) = {s[i] : i \in 1..Len(s)} /\ Range(s) \subseteq S
           /\ \A i \in 1..Len(s) : s[i] \in S
           /\ s # <<>> => Len(s) \in Nat \ {0} /\ s[Len(s)] \in Range(s)
           /\ s = <<>> => Len(s) = 0 /\ Range(s) = {}
  <1>1. /\ Len(s) \in Nat /\ DOMAIN s = 1..Len(s)
        /\ \A i \in 1..Len(s) : s[i] \in S
    BY LenProperties, ElementOfSeq
  <1>2. Range(s) = {s[i] : i \in 1..Len(s)}
    BY <1>1 DEF Range
  <1>3. s # <<>> => Len(s) \in Nat \ {0}
    BY EmptySeq
  <1>4. s = <<>> => Len(s) = 0
    BY EmptySeq
  <1>5. s = <<>> => Range(s) = {}
    BY <1>1, <1>2, <1>4
  <1> QED
    BY <1>1, <1>2, <1>3, <1>4, <1>5

\* A cache without one of its entries: find moves it, evict removes it.
LEMMA OneLess ==
    ASSUME NEW S, NEW s \in Seq(S), Distinct(s), NEW i \in 1..Len(s)
    PROVE  /\ RemoveAt(s, i) \in Seq(S) /\ Len(RemoveAt(s, i)) = Len(s) - 1
           /\ Distinct(RemoveAt(s, i)) /\ Range(RemoveAt(s, i)) = Range(s) \ {s[i]}
           /\ i # Len(s) => /\ RemoveAt(s, i) # <<>>
                            /\ RemoveAt(s, i)[Len(RemoveAt(s, i))] = s[Len(s)]
  <1> DEFINE a == SubSeq(s, 1, i - 1)
             b == SubSeq(s, i + 1, Len(s))
             t == a \o b
  <1>0. /\ Len(s) \in Nat /\ \A k \in 1..Len(s) : s[k] \in S
        /\ Range(s) = {s[k] : k \in 1..Len(s)}
    BY SeqRange
  <1>1. a \in Seq(S) /\ Len(a) = i - 1 /\ \A k \in 1..(i - 1) : a[k] = s[k]
    <2>1. /\ a \in Seq(S) /\ Len(a) = IF 1 <= i - 1 THEN i - 1 - 1 + 1 ELSE 0
          /\ \A k \in 1..(i - 1 - 1 + 1) : a[k] = s[1 + k - 1]
      <3>1. \A k \in 1..(i - 1) : s[k] \in S
        BY <1>0
      <3>2. i - 1 \in Int /\ 1 \in Int
        BY <1>0
      <3> QED
        BY <3>1, <3>2, SubSeqProperties
    <2>2. Len(a) = i - 1
      BY <1>0, <2>1
    <2>3. ASSUME NEW k \in 1..(i - 1) PROVE a[k] = s[k]
      <3>1. k \in 1..(i - 1 - 1 + 1) /\ 1 + k - 1 = k
        BY <1>0
      <3> QED
        BY <2>1, <3>1
    <2> QED
      BY <2>1, <2>2, <2>3
  <1>2. b \in Seq(S) /\ Len(b) = Len(s) - i /\ \A k \in 1..(Len(s) - i) : b[k] = s[i + k]
    <2>1. /\ b \in Seq(S) /\ Len(b) = IF i + 1 <= Len(s) THEN Len(s) - (i + 1) + 1 ELSE 0
          /\ \A k \in 1..(Len(s) - (i + 1) + 1) : b[k] = s[(i + 1) + k - 1]
      <3>1. \A k \in (i + 1)..Len(s) : s[k] \in S
        BY <1>0
      <3>2. i + 1 \in Int /\ Len(s) \in Int
        BY <1>0
      <3> QED
        BY <3>1, <3>2, SubSeqProperties
    <2>2. Len(b) = Len(s) - i
      BY <1>0, <2>1
    <2>3. ASSUME NEW k \in 1..(Len(s) - i) PROVE b[k] = s[i + k]
      <3>1. k \in 1..(Len(s) - (i + 1) + 1) /\ (i + 1) + k - 1 = i + k
        BY <1>0
      <3> QED
        BY <2>1, <3>1
    <2> QED
      BY <2>1, <2>2, <2>3
  <1> HIDE DEF a, b
  <1>3. /\ t \in Seq(S) /\ Len(t) = Len(a) + Len(b)
        /\ \A k \in 1..(Len(a) + Len(b)) : t[k] = IF k <= Len(a) THEN a[k] ELSE b[k - Len(a)]
    <2>1. a \in Seq(S) /\ b \in Seq(S)
      BY <1>1, <1>2
    <2> QED
      BY <2>1, ConcatProperties, Zenon
  <1>4. RemoveAt(s, i) = t
    BY DEF RemoveAt, a, b
  <1> HIDE DEF t
  <1>5. t \in Seq(S) /\ Len(t) = Len(s) - 1
    BY <1>0, <1>1, <1>2, <1>3
  <1>6. \A k \in 1..(Len(s) - 1) : t[k] = IF k < i THEN s[k] ELSE s[k + 1]
    <2> TAKE k \in 1..(Len(s) - 1)
    <2>1. CASE k < i
      <3>1. k \in 1..(Len(a) + Len(b)) /\ k <= Len(a) /\ k \in 1..(i - 1)
        BY <1>0, <1>1, <1>2, <2>1
      <3> QED
        BY <1>1, <1>3, <2>1, <3>1
    <2>2. CASE ~(k < i)
      <3>1. /\ k \in 1..(Len(a) + Len(b)) /\ ~(k <= Len(a))
            /\ k - Len(a) \in 1..(Len(s) - i) /\ i + (k - Len(a)) = k + 1
        BY <1>0, <1>1, <1>2, <2>2
      <3>2. t[k] = b[k - Len(a)]
        BY <1>3, <3>1
      <3>3. b[k - Len(a)] = s[i + (k - Len(a))]
        BY <1>2, <3>1
      <3> QED
        BY <2>2, <3>1, <3>2, <3>3
    <2> QED
      BY <2>1, <2>2
  <1>7. Distinct(t)
    <2>1. ASSUME NEW j \in 1..Len(t), NEW k \in 1..Len(t), t[j] = t[k] PROVE j = k
      <3> DEFINE J == IF j < i THEN j ELSE j + 1
                 K == IF k < i THEN k ELSE k + 1
      <3>1. J \in 1..Len(s) /\ K \in 1..Len(s) /\ (J = K => j = k)
        BY <1>0, <1>5
      <3>2. t[j] = s[J] /\ t[k] = s[K]
        BY <1>0, <1>5, <1>6
      <3> HIDE DEF J, K
      <3> QED
        BY <2>1, <3>1, <3>2 DEF Distinct
    <2> QED
      BY <2>1 DEF Distinct
  <1>8. Range(t) = Range(s) \ {s[i]}
    <2>0. Range(t) = {t[k] : k \in 1..Len(t)}
      BY <1>5, SeqRange
    <2>1. ASSUME NEW e \in Range(t) PROVE e \in Range(s) \ {s[i]}
      <3>1. PICK k \in 1..Len(t) : e = t[k]
        BY <2>0
      <3> DEFINE K == IF k < i THEN k ELSE k + 1
      <3>2. K \in 1..Len(s) /\ K # i
        BY <1>0, <1>5
      <3>3. e = s[K]
        BY <1>5, <1>6, <3>1
      <3> HIDE DEF K
      <3> QED
        BY <1>0, <3>2, <3>3 DEF Distinct
    <2>2. ASSUME NEW e \in Range(s), e # s[i] PROVE e \in Range(t)
      <3>1. PICK k \in 1..Len(s) : e = s[k]
        BY <1>0
      <3>2. k # i
        BY <2>2, <3>1
      <3>3. CASE k < i
        <4>1. k \in 1..Len(t) /\ k \in 1..(Len(s) - 1)
          BY <1>0, <1>5, <3>3
        <4>2. t[k] = e
          BY <1>6, <3>1, <3>3, <4>1
        <4> QED
          BY <2>0, <4>1, <4>2
      <3>4. CASE k > i
        <4>1. k - 1 \in 1..Len(t) /\ k - 1 \in 1..(Len(s) - 1) /\ ~(k - 1 < i) /\ (k - 1) + 1 = k
          BY <1>0, <1>5, <3>4
        <4>2. t[k - 1] = e
          BY <1>6, <3>1, <4>1
        <4> QED
          BY <2>0, <4>1, <4>2
      <3> QED
        BY <1>0, <3>2, <3>3, <3>4
    <2> QED
      BY <2>1, <2>2
  <1>9. ASSUME i # Len(s) PROVE t # <<>> /\ t[Len(t)] = s[Len(s)]
    <2>1. Len(t) \in 1..(Len(s) - 1) /\ ~(Len(t) < i) /\ Len(t) + 1 = Len(s)
      BY <1>0, <1>5, <1>9
    <2>2. t[Len(t)] = s[Len(s)]
      BY <1>6, <2>1
    <2>3. t # <<>>
      BY <1>5, <2>1, EmptySeq
    <2> QED
      BY <2>2, <2>3
  <1> QED
    BY <1>4, <1>5, <1>7, <1>8, <1>9, Zenon

LEMMA OneMore ==
    ASSUME NEW S, NEW s \in Seq(S), Distinct(s), NEW e \in S, e \notin Range(s)
    PROVE  /\ Append(s, e) \in Seq(S) /\ Len(Append(s, e)) = Len(s) + 1
           /\ Distinct(Append(s, e)) /\ Range(Append(s, e)) = Range(s) \cup {e}
           /\ Append(s, e) # <<>> /\ Append(s, e)[Len(Append(s, e))] = e
  <1> DEFINE t == Append(s, e)
  <1>1. /\ t \in Seq(S) /\ t # <<>> /\ Len(t) = Len(s) + 1
        /\ \A i \in 1..Len(s) : t[i] = s[i]
        /\ t[Len(s) + 1] = e
    BY AppendProperties
  <1> HIDE DEF t
  <1>2. /\ Len(s) \in Nat /\ Range(s) = {s[i] : i \in 1..Len(s)}
        /\ Range(t) = {t[i] : i \in 1..Len(t)}
    BY <1>1, SeqRange
  <1>3. \A i \in 1..Len(t) : i \in 1..Len(s) \/ i = Len(s) + 1
    BY <1>1, <1>2
  <1>4. \A i \in 1..Len(s) : i \in 1..Len(t)
    BY <1>1, <1>2
  <1>5. Len(s) + 1 \in 1..Len(t)
    BY <1>1, <1>2
  <1>6. Range(t) = Range(s) \cup {e}
    BY <1>1, <1>2, <1>3, <1>4, <1>5
  <1>7. Distinct(t)
    <2>1. ASSUME NEW i \in 1..Len(t), NEW j \in 1..Len(t), t[i] = t[j] PROVE i = j
      <3>1. \A k \in 1..Len(s) : s[k] # e
        BY <1>2
      <3> QED
        BY <1>1, <1>3, <2>1, <3>1 DEF Distinct
    <2> QED
      BY <2>1 DEF Distinct
  <1>8. t[Len(t)] = e
    BY <1>1
  <1> QED
    BY <1>1, <1>6, <1>7, <1>8 DEF t

----
(* The device: what closing handles, destroying entries and importing do.  *)

LEMMA DeviceShape ==
    ASSUME NEW d \in Devices
    PROVE  /\ d = [handles |-> d.handles, fbs |-> d.fbs, plane |-> d.plane]
           /\ d.handles \in [Ids -> Objects] /\ d.fbs \in [Ids -> Pictured]
           /\ d.plane \in {0} \cup Ids
  BY DEF Devices

LEMMA ClosedDevice ==
    ASSUME NEW d \in Devices, NEW H
    PROVE  /\ Closed(d, H) \in Devices /\ Closed(d, H).fbs = d.fbs /\ Closed(d, H).plane = d.plane
           /\ \A h \in Ids : Closed(d, H).handles[h] = IF h \in H THEN NoObject ELSE d.handles[h]
  <1> DEFINE k == [h \in Ids |-> IF h \in H THEN NoObject ELSE d.handles[h]]
  <1>1. d.handles \in [Ids -> Objects] /\ NoObject \in Objects
    BY DeviceShape DEF Objects
  <1>2. k \in [Ids -> Objects]
    BY <1>1
  <1>3. Closed(d, H) = [d EXCEPT !.handles = k]
    BY DEF Closed
  <1> HIDE DEF k
  <1>4. Closed(d, H) = [handles |-> k, fbs |-> d.fbs, plane |-> d.plane]
    BY <1>3, DeviceShape
  <1>5. Closed(d, H) \in Devices
    BY <1>2, <1>4, DeviceShape DEF Devices
  <1> QED
    BY <1>4, <1>5 DEF k

\* The framebuffers and the handles of a set of entries.
FbsOf(V) == {e.fb : e \in V}
HandlesOf(V) == UNION {Range(e.handles) : e \in V}

LEMMA DestroyedDevice ==
    ASSUME NEW d \in Devices, NEW V
    PROVE  /\ Destroyed(d, V) \in Devices
           /\ \A h \in Ids : Destroyed(d, V).handles[h] = IF h \in HandlesOf(V) THEN NoObject ELSE d.handles[h]
           /\ \A id \in Ids : Destroyed(d, V).fbs[id] = IF id \in FbsOf(V) THEN NoFb ELSE d.fbs[id]
           /\ Destroyed(d, V).plane = IF d.plane \in FbsOf(V) THEN 0 ELSE d.plane
  <1> DEFINE k == Closed(d, HandlesOf(V))
             fbs == [id \in Ids |-> IF id \in FbsOf(V) THEN NoFb ELSE d.fbs[id]]
             plane == IF d.plane \in FbsOf(V) THEN 0 ELSE d.plane
  <1>1. /\ k \in Devices /\ k.fbs = d.fbs /\ k.plane = d.plane
        /\ \A h \in Ids : k.handles[h] = IF h \in HandlesOf(V) THEN NoObject ELSE d.handles[h]
    BY ClosedDevice
  <1>2. Destroyed(d, V) = [k EXCEPT !.fbs = [id \in Ids |-> IF id \in FbsOf(V) THEN NoFb ELSE k.fbs[id]],
                                    !.plane = IF k.plane \in FbsOf(V) THEN 0 ELSE k.plane]
    BY DEF Destroyed, FbsOf, HandlesOf
  <1> HIDE DEF k
  <1>3. k = [handles |-> k.handles, fbs |-> d.fbs, plane |-> d.plane] /\ k.handles \in [Ids -> Objects]
    BY <1>1, DeviceShape
  <1>4. Destroyed(d, V) = [handles |-> k.handles, fbs |-> fbs, plane |-> plane]
    <2>1. Destroyed(d, V) = [k EXCEPT !.fbs = fbs, !.plane = plane]
      BY <1>1, <1>2, Zenon
    <2> HIDE DEF fbs, plane
    <2> QED
      BY <1>3, <2>1
  <1>5. fbs \in [Ids -> Pictured] /\ plane \in {0} \cup Ids
    BY DeviceShape DEF Pictured
  <1>6. Destroyed(d, V) \in Devices
    BY <1>3, <1>4, <1>5 DEF Devices
  <1>7. \A id \in Ids : fbs[id] = IF id \in FbsOf(V) THEN NoFb ELSE d.fbs[id]
    OBVIOUS
  <1> HIDE DEF fbs
  <1> QED
    BY <1>1, <1>4, <1>6, <1>7

LEMMA DestroyedLedger ==
    ASSUME NEW d \in Devices, NEW E, NEW V, NEW p \in Pools,
           Ledger(d, E, p), V \subseteq E \cup {NoEntry}
    PROVE  Ledger(Destroyed(d, V), E \ V, p)
  <1> DEFINE D == Destroyed(d, V)
  <1>1. /\ \A h \in Ids : D.handles[h] = IF h \in HandlesOf(V) THEN NoObject ELSE d.handles[h]
        /\ \A id \in Ids : D.fbs[id] = IF id \in FbsOf(V) THEN NoFb ELSE d.fbs[id]
    BY DestroyedDevice
  <1> HIDE DEF D
  <1>2. NoEntry.fb = 0
    BY DEF NoEntry
  <1>3. ASSUME NEW e \in E \ V PROVE /\ e \in Entries /\ e.fb # 0 /\ e.key \in Frames
                                     /\ D.fbs[e.fb] = PictureIn(p, e.key)
    <2>1. e \in Entries /\ e.fb # 0 /\ e.key \in Frames /\ d.fbs[e.fb] = PictureIn(p, e.key)
      BY DEF Ledger
    <2>2. e.fb \in Ids
      BY <2>1 DEF Entries
    <2>3. e.fb \notin FbsOf(V)
      <3>1. ASSUME NEW v \in V, v.fb = e.fb PROVE FALSE
        <4>1. v \in E
          BY <1>2, <2>1, <3>1
        <4>2. v = e
          BY <3>1, <4>1 DEF Ledger
        <4> QED
          BY <4>2
      <3> QED
        BY <3>1 DEF FbsOf
    <2> QED
      BY <1>1, <2>1, <2>2, <2>3
  <1>4. ASSUME NEW id \in Ids, D.fbs[id] # NoFb PROVE \E e \in E \ V : e.fb = id
    <2>1. id \notin FbsOf(V) /\ d.fbs[id] # NoFb
      BY <1>1, <1>4
    <2>2. PICK e \in E : e.fb = id
      BY <2>1 DEF Ledger
    <2>3. e \notin V
      BY <2>1, <2>2 DEF FbsOf
    <2> QED
      BY <2>2, <2>3
  <1>5. ASSUME NEW h \in Ids, D.handles[h] \notin {NoObject, Gbm} PROVE \E e \in E \ V : h \in Range(e.handles)
    <2>1. h \notin HandlesOf(V) /\ d.handles[h] \notin {NoObject, Gbm}
      BY <1>1, <1>5
    <2>2. PICK e \in E : h \in Range(e.handles)
      BY <2>1 DEF Ledger
    <2>3. e \notin V
      BY <2>1, <2>2 DEF HandlesOf
    <2> QED
      BY <2>2, <2>3
  <1>6. \A e, f \in E \ V : e.fb = f.fb => e = f
    BY DEF Ledger
  <1>7. Ledger(D, E \ V, p)
    BY <1>3, <1>4, <1>5, <1>6 DEF Ledger
  <1> QED
    BY <1>7 DEF D

LEMMA DestroyedApart ==
    ASSUME NEW d \in Devices, NEW E, NEW V, NEW G, NEW p \in Pools, G \subseteq Ids,
           Ledger(d, E, p), Apart(d, E, G, p), V \subseteq E \cup {NoEntry}
    PROVE  Apart(Destroyed(d, V), E \ V, G, p)
  <1> DEFINE D == Destroyed(d, V)
  <1>1. \A h \in Ids : D.handles[h] = IF h \in HandlesOf(V) THEN NoObject ELSE d.handles[h]
    BY DestroyedDevice
  <1> HIDE DEF D
  <1>2. ASSUME NEW h \in HandlesOf(V)
        PROVE  \E v \in V : v \in E /\ d.handles[h] \in Range(PictureIn(p, v.key).objs)
    <2>1. PICK v \in V : h \in Range(v.handles)
      BY <1>2 DEF HandlesOf
    <2>2. PICK i \in DOMAIN v.handles : h = v.handles[i]
      BY <2>1 DEF Range
    <2>3. v # NoEntry
      BY <2>2 DEF NoEntry
    <2>4. v \in E
      BY <2>3
    <2>5. /\ DOMAIN v.handles = DOMAIN PictureIn(p, v.key).objs
          /\ d.handles[v.handles[i]] = PictureIn(p, v.key).objs[i]
      BY <2>2, <2>4 DEF Apart
    <2>6. d.handles[h] \in Range(PictureIn(p, v.key).objs)
      BY <2>2, <2>5 DEF Range
    <2> QED
      BY <2>1, <2>4, <2>6
  <1>3. ASSUME NEW h \in G PROVE D.handles[h] = Gbm
    <2>1. d.handles[h] = Gbm /\ h \in Ids
      BY DEF Apart
    <2>2. h \notin HandlesOf(V)
      <3>1. ASSUME NEW v \in E, Gbm \in Range(PictureIn(p, v.key).objs) PROVE FALSE
        <4>1. v.key \in Frames
          BY DEF Ledger
        <4>2. \A i \in DOMAIN PictureIn(p, v.key).objs : PictureIn(p, v.key).objs[i] \in Dmabufs \cup {Dumb}
          BY <4>1, PictureShape
        <4> QED
          BY <3>1, <4>2, Tags DEF Range
      <3> QED
        BY <1>2, <2>1, <3>1
    <2> QED
      BY <1>1, <2>1, <2>2
  <1>4. ASSUME NEW e \in E \ V
        PROVE  /\ DOMAIN e.handles = DOMAIN PictureIn(p, e.key).objs
               /\ \A i \in DOMAIN e.handles : D.handles[e.handles[i]] = PictureIn(p, e.key).objs[i]
    <2>1. /\ DOMAIN e.handles = DOMAIN PictureIn(p, e.key).objs
          /\ \A i \in DOMAIN e.handles : d.handles[e.handles[i]] = PictureIn(p, e.key).objs[i]
      BY DEF Apart
    <2>2. ASSUME NEW i \in DOMAIN e.handles PROVE D.handles[e.handles[i]] = PictureIn(p, e.key).objs[i]
      <3>1. e.handles[i] \in Ids
        <4>1. e \in Entries
          BY DEF Ledger
        <4>2. e.handles \in Seq(Ids)
          BY <4>1 DEF Entries
        <4>3. DOMAIN e.handles = 1..Len(e.handles)
          BY <4>2, LenProperties
        <4> QED
          BY <4>2, <4>3, ElementOfSeq
      <3>2. e.handles[i] \notin HandlesOf(V)
        <4>1. ASSUME NEW v \in V, v \in E, d.handles[e.handles[i]] \in Range(PictureIn(p, v.key).objs)
              PROVE  FALSE
          <5>1. d.handles[e.handles[i]] \in Range(PictureIn(p, e.key).objs)
            BY <2>1 DEF Range
          <5>2. Range(PictureIn(p, e.key).objs) \cap Range(PictureIn(p, v.key).objs) = {}
            BY <4>1 DEF Apart
          <5> QED
            BY <4>1, <5>1, <5>2
        <4> QED
          BY <1>2, <4>1
      <3> QED
        BY <1>1, <2>1, <3>1, <3>2
    <2> QED
      BY <2>1, <2>2
  <1>5. \A e, f \in E \ V : e # f => Range(PictureIn(p, e.key).objs) \cap Range(PictureIn(p, f.key).objs) = {}
    BY DEF Apart
  <1>6. Apart(D, E \ V, G, p)
    BY <1>3, <1>4, <1>5 DEF Apart
  <1> QED
    BY <1>6 DEF D

\* An import takes a framebuffer id and handles that nobody has, or handles
\* of the very buffers it imports.
ImportsWell(d, imp, p, f) ==
    LET e == imp.entry
        objs == PictureIn(p, f).objs
    IN /\ e \in Entries /\ e.key = f /\ e.fb \in Ids /\ d.fbs[e.fb] = NoFb
       /\ DOMAIN e.handles = DOMAIN objs /\ \A i \in DOMAIN objs : e.handles[i] \in Ids
       /\ imp.drm \in Devices /\ imp.drm.plane = d.plane
       /\ imp.drm.fbs[e.fb] = PictureIn(p, f)
       /\ \A id \in Ids : id # e.fb => imp.drm.fbs[id] = d.fbs[id]
       /\ \A h \in Ids : h \notin Range(e.handles) => imp.drm.handles[h] = d.handles[h]
       /\ \A i \in DOMAIN objs : /\ imp.drm.handles[e.handles[i]] = objs[i]
                                 /\ d.handles[e.handles[i]] \in {objs[i], NoObject}

LEMMA ImportsDevice ==
    ASSUME NEW d \in Devices, NEW p \in Pools, NEW f \in Frames,
           NEW imp \in Imports(d, PictureIn(p, f).objs, f)
    PROVE  ImportsWell(d, imp, p, f)
  <1> DEFINE objs == PictureIn(p, f).objs
  <1>0. /\ PictureIn(p, f) = [objs |-> objs, layout |-> f.layout]
        /\ PictureIn(p, f) \in Pictured
        /\ \E n \in Nat \ {0} : DOMAIN objs = 1..n
        /\ \A i \in DOMAIN objs : objs[i] \in Dmabufs \cup {Dumb}
    BY PictureShape
  <1>1. PICK hs \in Handles(d, objs), id \in FirstUnused(d.fbs, NoFb) :
          imp = [drm |-> AddedFb(Opened(d, objs, hs), id, objs, f.layout),
                 entry |-> [key |-> f, fb |-> id, handles |-> hs]]
    BY DEF Imports
  <1> HIDE DEF objs
  <1>2. id \in Ids /\ d.fbs[id] = NoFb
    BY DEF FirstUnused
  <1>3. /\ hs \in [DOMAIN objs -> Ids]
        /\ \A i \in DOMAIN objs : \A j \in DOMAIN objs : hs[i] = hs[j] <=> objs[i] = objs[j]
        /\ \A i \in DOMAIN objs : d.handles[hs[i]] \in {objs[i], NoObject}
    BY DEF Handles
  <1>4. hs \in Seq(Ids)
    <2>1. PICK n \in Nat : DOMAIN objs = 1..n
      BY <1>0
    <2> QED
      BY <1>3, <2>1, SeqDef
  <1>5. imp.entry \in Entries /\ imp.entry = [key |-> f, fb |-> id, handles |-> hs]
    BY <1>1, <1>2, <1>4 DEF Entries
  <1> DEFINE k == [h \in Ids |-> IF h \in Range(hs) THEN objs[CHOOSE i \in DOMAIN hs : hs[i] = h]
                                                    ELSE d.handles[h]]
  <1>6. \A i \in DOMAIN objs : k[hs[i]] = objs[i]
    <2> TAKE i \in DOMAIN objs
    <2>1. hs[i] \in Ids /\ hs[i] \in Range(hs)
      BY <1>3 DEF Range
    <2> DEFINE c == CHOOSE j \in DOMAIN hs : hs[j] = hs[i]
    <2>2. c \in DOMAIN objs /\ hs[c] = hs[i]
      BY <1>3
    <2>3. k[hs[i]] = objs[c]
      BY <2>1
    <2> HIDE DEF c, k
    <2> QED
      BY <1>3, <2>2, <2>3
  <1>7. \A h \in Ids : h \notin Range(hs) => k[h] = d.handles[h]
    OBVIOUS
  <1>8. k \in [Ids -> Objects]
    <2>1. ASSUME NEW h \in Ids PROVE k[h] \in Objects
      <3>1. CASE h \in Range(hs)
        <4>1. PICK i \in DOMAIN objs : h = hs[i]
          BY <1>3, <3>1 DEF Range
        <4>2. k[h] = objs[i] /\ objs[i] \in Dmabufs \cup {Dumb}
          BY <1>0, <1>6, <4>1
        <4> QED
          BY <4>2 DEF Objects
      <3>2. CASE h \notin Range(hs)
        BY <1>7, <3>2, DeviceShape
      <3> QED
        BY <3>1, <3>2
    <2> QED
      BY <2>1
  <1>9. Opened(d, objs, hs) = [d EXCEPT !.handles = k]
    BY DEF Opened
  <1> HIDE DEF k
  <1>10. Opened(d, objs, hs) = [handles |-> k, fbs |-> d.fbs, plane |-> d.plane]
    BY <1>9, DeviceShape
  <1> DEFINE fbs == [d.fbs EXCEPT ![id] = [objs |-> objs, layout |-> f.layout]]
  <1>11. imp.drm = [handles |-> k, fbs |-> fbs, plane |-> d.plane]
    <2>1. imp.drm = [Opened(d, objs, hs) EXCEPT !.fbs[id] = [objs |-> objs, layout |-> f.layout]]
      BY <1>1 DEF AddedFb
    <2> QED
      BY <1>10, <2>1
  <1>12. fbs \in [Ids -> Pictured] /\ fbs[id] = PictureIn(p, f) /\ \A n \in Ids : n # id => fbs[n] = d.fbs[n]
    BY <1>0, <1>2, DeviceShape
  <1> HIDE DEF fbs
  <1>13. imp.drm \in Devices
    BY <1>8, <1>11, <1>12, DeviceShape DEF Devices
  <1> QED
    BY <1>2, <1>3, <1>5, <1>6, <1>7, <1>11, <1>12, <1>13 DEF ImportsWell, objs

LEMMA ImportedLedger ==
    ASSUME NEW d \in Devices, NEW E, NEW p \in Pools, NEW f \in Frames, Ledger(d, E, p),
           NEW imp, ImportsWell(d, imp, p, f)
    PROVE  Ledger(imp.drm, E \cup {imp.entry}, p) /\ imp.entry \notin E
  <1> DEFINE n == imp.entry
             D == imp.drm
             objs == PictureIn(p, f).objs
  <1>1. /\ n \in Entries /\ n.key = f /\ n.fb \in Ids /\ d.fbs[n.fb] = NoFb
        /\ D.fbs[n.fb] = PictureIn(p, f)
        /\ \A id \in Ids : id # n.fb => D.fbs[id] = d.fbs[id]
        /\ \A h \in Ids : h \notin Range(n.handles) => D.handles[h] = d.handles[h]
    BY DEF ImportsWell
  <1> HIDE DEF n, D, objs
  <1>2. ASSUME NEW e \in E PROVE /\ e \in Entries /\ e.fb \in Ids /\ e.key \in Frames
                                 /\ e.fb # n.fb /\ D.fbs[e.fb] = PictureIn(p, e.key)
    <2>1. e \in Entries /\ e.fb # 0 /\ e.key \in Frames /\ d.fbs[e.fb] = PictureIn(p, e.key)
      BY DEF Ledger
    <2>2. e.fb \in Ids
      BY <2>1 DEF Entries
    <2>3. PictureIn(p, e.key) # NoFb
      BY <2>1, PictureShape
    <2>4. e.fb # n.fb
      BY <1>1, <2>1, <2>3, Zenon
    <2> QED
      BY <1>1, <2>1, <2>2, <2>4
  <1>3. ASSUME NEW id \in Ids, D.fbs[id] # NoFb PROVE \E e \in E \cup {n} : e.fb = id
    <2>1. CASE id = n.fb
      BY <2>1
    <2>2. CASE id # n.fb
      BY <1>1, <1>3, <2>2 DEF Ledger
    <2> QED
      BY <2>1, <2>2
  <1>4. ASSUME NEW h \in Ids, D.handles[h] \notin {NoObject, Gbm}
        PROVE  \E e \in E \cup {n} : h \in Range(e.handles)
    <2>1. CASE h \in Range(n.handles)
      BY <2>1
    <2>2. CASE h \notin Range(n.handles)
      BY <1>1, <1>4, <2>2 DEF Ledger
    <2> QED
      BY <2>1, <2>2
  <1>5. \A e, g \in E \cup {n} : e.fb = g.fb => e = g
    BY <1>2 DEF Ledger
  <1>6. n.fb # 0
    BY <1>1
  <1>7. \A e \in E \cup {n} : e \in Entries /\ e.fb # 0 /\ e.key \in Frames /\ D.fbs[e.fb] = PictureIn(p, e.key)
    <2>1. \A e \in E : e.fb # 0
      BY <1>2
    <2> QED
      BY <1>1, <1>2, <1>6, <2>1
  <1>8. Ledger(D, E \cup {n}, p)
    BY <1>3, <1>4, <1>5, <1>7 DEF Ledger
  <1>9. n \notin E
    BY <1>2
  <1> QED
    BY <1>8, <1>9 DEF n, D

LEMMA ImportedApart ==
    ASSUME NEW d \in Devices, NEW E, NEW G, NEW p \in Pools, NEW f \in Frames, G \subseteq Ids,
           Ledger(d, E, p), Apart(d, E, G, p), NEW imp, ImportsWell(d, imp, p, f),
           \A e \in E : Range(PictureIn(p, e.key).objs) \cap Range(PictureIn(p, f).objs) = {}
    PROVE  Apart(imp.drm, E \cup {imp.entry}, G, p)
  <1> DEFINE n == imp.entry
             D == imp.drm
             objs == PictureIn(p, f).objs
  <1>1. /\ n \in Entries /\ n.key = f
        /\ DOMAIN n.handles = DOMAIN objs
        /\ \A h \in Ids : h \notin Range(n.handles) => D.handles[h] = d.handles[h]
        /\ \A i \in DOMAIN objs : /\ D.handles[n.handles[i]] = objs[i]
                                  /\ d.handles[n.handles[i]] \in {objs[i], NoObject}
    BY DEF ImportsWell
  <1>2. \A i \in DOMAIN objs : objs[i] \in Dmabufs \cup {Dumb}
    BY PictureShape
  <1>3. \A e \in E : Range(PictureIn(p, e.key).objs) \cap Range(objs) = {}
    OBVIOUS
  <1> HIDE DEF n, D, objs
  <1>4. \A h \in Range(n.handles) : d.handles[h] = NoObject \/ d.handles[h] \in Range(objs)
    BY <1>1 DEF Range
  <1>5. ASSUME NEW h \in G PROVE D.handles[h] = Gbm
    <2>1. d.handles[h] = Gbm /\ h \in Ids
      BY DEF Apart
    <2>2. Gbm \notin Range(objs)
      BY <1>2, Tags DEF Range
    <2>3. h \notin Range(n.handles)
      BY <1>4, <2>1, <2>2, Tags
    <2> QED
      BY <1>1, <2>1, <2>3
  <1>6. ASSUME NEW e \in E
        PROVE  /\ DOMAIN e.handles = DOMAIN PictureIn(p, e.key).objs
               /\ \A i \in DOMAIN e.handles : D.handles[e.handles[i]] = PictureIn(p, e.key).objs[i]
    <2>1. /\ DOMAIN e.handles = DOMAIN PictureIn(p, e.key).objs
          /\ \A i \in DOMAIN e.handles : d.handles[e.handles[i]] = PictureIn(p, e.key).objs[i]
      BY DEF Apart
    <2>2. ASSUME NEW i \in DOMAIN e.handles PROVE D.handles[e.handles[i]] = PictureIn(p, e.key).objs[i]
      <3>1. e.handles[i] \in Ids /\ e.key \in Frames
        <4>1. e \in Entries /\ e.key \in Frames
          BY DEF Ledger
        <4>2. e.handles \in Seq(Ids)
          BY <4>1 DEF Entries
        <4>3. DOMAIN e.handles = 1..Len(e.handles)
          BY <4>2, LenProperties
        <4> QED
          BY <4>1, <4>2, <4>3, ElementOfSeq
      <3>2. d.handles[e.handles[i]] \in Range(PictureIn(p, e.key).objs)
        BY <2>1 DEF Range
      <3>3. d.handles[e.handles[i]] # NoObject
        <4>1. PictureIn(p, e.key).objs[i] \in Dmabufs \cup {Dumb}
          BY <2>1, <3>1, PictureShape
        <4> QED
          BY <2>1, <4>1, Tags
      <3>4. e.handles[i] \notin Range(n.handles)
        BY <1>3, <1>4, <3>2, <3>3
      <3> QED
        BY <1>1, <2>1, <3>1, <3>4
    <2> QED
      BY <2>1, <2>2
  <1>7. /\ DOMAIN n.handles = DOMAIN PictureIn(p, n.key).objs
        /\ \A i \in DOMAIN n.handles : D.handles[n.handles[i]] = PictureIn(p, n.key).objs[i]
    BY <1>1 DEF objs
  <1>8. \A e, g \in E \cup {n} : e # g => Range(PictureIn(p, e.key).objs) \cap Range(PictureIn(p, g.key).objs) = {}
    <2>1. \A e, g \in E : e # g => Range(PictureIn(p, e.key).objs) \cap Range(PictureIn(p, g.key).objs) = {}
      BY DEF Apart
    <2>2. \A e \in E : Range(PictureIn(p, e.key).objs) \cap Range(PictureIn(p, n.key).objs) = {}
      BY <1>1, <1>3 DEF objs
    <2> QED
      BY <2>1, <2>2
  <1>9. Apart(D, E \cup {n}, G, p)
    BY <1>5, <1>6, <1>7, <1>8 DEF Apart
  <1> QED
    BY <1>9 DEF n, D

\* Closing handles, whoever has them, leaves the ledger right.
LEMMA ClosedLedger ==
    ASSUME NEW d \in Devices, NEW E, NEW H, NEW p \in Pools, Ledger(d, E, p)
    PROVE  Ledger(Closed(d, H), E, p)
  <1> DEFINE D == Closed(d, H)
  <1>1. /\ D.fbs = d.fbs
        /\ \A h \in Ids : D.handles[h] = IF h \in H THEN NoObject ELSE d.handles[h]
    BY ClosedDevice
  <1> HIDE DEF D
  <1>2. Ledger(D, E, p)
    BY <1>1 DEF Ledger
  <1> QED
    BY <1>2 DEF D

\* The ledger does not look at the plane.
LEMMA ShowsDevice ==
    ASSUME NEW d \in Devices, NEW id \in {0} \cup Ids
    PROVE  /\ Shows(d, id) \in Devices /\ Shows(d, id).plane = id
           /\ Shows(d, id).fbs = d.fbs /\ Shows(d, id).handles = d.handles
  <1>1. Shows(d, id) = [handles |-> d.handles, fbs |-> d.fbs, plane |-> id]
    BY DeviceShape DEF Shows
  <1> QED
    BY <1>1, DeviceShape DEF Devices

LEMMA SameTables ==
    ASSUME NEW d, NEW D, NEW E, NEW G, NEW p, D.fbs = d.fbs, D.handles = d.handles
    PROVE  (Ledger(d, E, p) => Ledger(D, E, p)) /\ (Apart(d, E, G, p) => Apart(D, E, G, p))
  BY DEF Ledger, Apart

----
(* The actions keep the invariant. *)

\* The entries of DMABUF frames are those of the cache, of CPU frames cpu_video_.
LEMMA OwnedEntries ==
    /\ \A c \in Seq(Entries) : (\A e \in Range(c) : e.fb # 0)
          => {e \in Range(c) \cup {NoEntry} : e.fb # 0} = Range(c)
    /\ \A x \in Entries : x.fb # 0 => {e \in Range(<<>>) \cup {x} : e.fb # 0} = {x}
    /\ {e \in Range(<<>>) \cup {NoEntry} : e.fb # 0} = {}
    /\ NoEntry \in Entries /\ NoEntry.fb = 0
  <1>1. NoEntry.fb = 0
    BY DEF NoEntry
  <1>2. Range(<<>>) = {}
    BY EmptySeq, SeqRange
  <1>3. NoEntry \in Entries
    <2>1. <<>> \in Seq(Ids)
      BY EmptySeq
    <2> QED
      BY <2>1 DEF NoEntry, Entries
  <1> QED
    BY <1>1, <1>2, <1>3

LEMMA InitHolds ==
    ASSUME Init
    PROVE  FbInv
  <1> USE DEF Init
  <1>1. NoFb \in Pictured /\ NoObject \in Objects /\ 1 \in Gens
    BY DEF Pictured, Objects, Gens
  <1>2. TypeInv
    <2>1. drm \in Devices
      BY <1>1 DEF Devices
    <2>2. pool \in Pools
      BY <1>1 DEF Pools
    <2>3. format \in {l.format : l \in Layouts \cup CpuLayouts \cup {NoLayout}}
      <3>1. NoLayout.format = "none" /\ format = "none"
        BY DEF NoLayout
      <3>2. NoLayout \in Layouts \cup CpuLayouts \cup {NoLayout}
        OBVIOUS
      <3> QED
        BY <3>1, <3>2, Zenon
    <2> QED
      BY <2>1, <2>2, <2>3 DEF TypeInv
  <1>3. /\ <<>> \in Seq(Entries) /\ Len(<<>>) = 0 /\ Range(<<>>) = {}
    BY EmptySeq, SeqRange
  <1>4. CacheInv
    <2>1. Distinct(cache)
      BY <1>3 DEF Distinct
    <2> QED
      BY <1>3, <2>1, OwnedEntries DEF CacheInv
  <1>5. Owned = {}
    BY OwnedEntries DEF Owned
  <1>6. PlaneInv
    BY DEF PlaneInv
  <1>7. LedgerInv
    BY <1>5 DEF LedgerInv, Ledger
  <1>8. ApartInv
    BY <1>5 DEF ApartInv, Apart
  <1> QED
    BY <1>2, <1>4, <1>6, <1>7, <1>8 DEF FbInv

\* What the steps that leave the device and the entries alone keep.
LEMMA SameEntries ==
    ASSUME LedgerInv, ApartInv, UNCHANGED <<drm, pool, gbm, cpu>>,
           Range(cache') = Range(cache), shared => shared'
    PROVE  LedgerInv' /\ ApartInv'
  <1>1. Owned' = Owned
    BY DEF Owned
  <1> QED
    BY <1>1 DEF LedgerInv, ApartInv

\* The video leaves its plane.
LEMMA DropVideoDevice ==
    ASSUME NEW d \in Devices, NEW E, NEW G \in SUBSET Ids, NEW p \in Pools,
           Ledger(d, E, p), Range(cache) \subseteq E
    PROVE  /\ DropVideo(d) \in Devices
           /\ Ledger(DropVideo(d), E \ Range(cache), p)
           /\ Apart(d, E, G, p) => Apart(DropVideo(d), E \ Range(cache), G, p)
           /\ DropVideo(d).plane # 0 => /\ DropVideo(d).plane = d.plane
                                        /\ DropVideo(d).fbs[d.plane] = d.fbs[d.plane]
           /\ d.plane \in FbsOf(Range(cache)) => DropVideo(d).plane = 0
  <1> DEFINE k == IF output = "legacy" /\ format # "none" THEN Shows(d, 0) ELSE d
             V == Range(cache)
  <1>1. k \in Devices /\ k.fbs = d.fbs /\ k.handles = d.handles /\ k.plane \in {0, d.plane}
    BY ShowsDevice
  <1>2. DropVideo(d) = Destroyed(k, V)
    BY DEF DropVideo
  <1> HIDE DEF k, V
  <1>3. V = Range(cache) /\ V \subseteq E \cup {NoEntry}
    BY DEF V
  <1>4. Ledger(k, E, p) /\ (Apart(d, E, G, p) => Apart(k, E, G, p))
    BY <1>1, SameTables
  <1>5. Ledger(Destroyed(k, V), E \ V, p)
    BY <1>1, <1>3, <1>4, DestroyedLedger
  <1>6. Apart(k, E, G, p) => Apart(Destroyed(k, V), E \ V, G, p)
    <2>1. G \subseteq Ids
      OBVIOUS
    <2> QED
      BY <1>1, <1>3, <1>4, <2>1, DestroyedApart
  <1>7. /\ Destroyed(k, V) \in Devices
        /\ \A id \in Ids : Destroyed(k, V).fbs[id] = IF id \in FbsOf(V) THEN NoFb ELSE k.fbs[id]
        /\ Destroyed(k, V).plane = IF k.plane \in FbsOf(V) THEN 0 ELSE k.plane
    BY <1>1, DestroyedDevice
  <1>8. ASSUME Destroyed(k, V).plane # 0
        PROVE  Destroyed(k, V).plane = d.plane /\ Destroyed(k, V).fbs[d.plane] = d.fbs[d.plane]
    <2>1. d.plane \in Ids /\ d.plane \notin FbsOf(V) /\ Destroyed(k, V).plane = d.plane
      BY <1>1, <1>7, <1>8, DeviceShape
    <2> QED
      BY <1>1, <1>7, <2>1
  <1>9. d.plane \in FbsOf(V) => Destroyed(k, V).plane = 0
    BY <1>1, <1>7
  <1> QED
    BY <1>2, <1>3, <1>4, <1>5, <1>6, <1>7, <1>8, <1>9

LEMMA StartPresentKeeps ==
    ASSUME FbInv, StartPresent
    PROVE  FbInv'
  <1> USE DEF FbInv
  <1>0. /\ pc = "idle" /\ UNCHANGED <<output, source, pool, gbm, cpu, shown, shared>>
    BY DEF StartPresent, optionVars, history
  <1>1. PICK f \in (IF source = "cpu" THEN CpuFrames ELSE DmabufFrames) :
          \/ /\ f.layout.format = format
             /\ pc' = "find" /\ frame' = f /\ UNCHANGED target
             /\ UNCHANGED <<drm, format, cache, current>>
          \/ /\ f.layout.format # format
             /\ drm' = DropVideo(drm) /\ cache' = <<>> /\ current' = 0
             /\ \/ /\ format' = f.layout.format
                   /\ pc' = "find" /\ frame' = f /\ UNCHANGED target
                \/ /\ format' = (IF output = "atomic" THEN "none" ELSE format)
                   /\ Return("failed")
    BY DEF StartPresent
  <1>2. f \in Frames /\ f.layout \in Layouts \cup CpuLayouts /\ (source = "cpu" => f.layout \in CpuLayouts)
    BY FrameShape DEF Frames, DmabufFrames, CpuFrames
  <1>3. CASE /\ f.layout.format = format
             /\ pc' = "find" /\ frame' = f /\ UNCHANGED target
             /\ UNCHANGED <<drm, format, cache, current>>
    <2>1. TypeInv'
      BY <1>0, <1>2, <1>3 DEF TypeInv, Frames
    <2>2. CacheInv'
      BY <1>0, <1>3 DEF CacheInv
    <2>3. PlaneInv'
      BY <1>0, <1>1, <1>2, <1>3 DEF PlaneInv
    <2>4. LedgerInv' /\ ApartInv'
      BY <1>0, <1>3, SameEntries
    <2> QED
      BY <2>1, <2>2, <2>3, <2>4
  <1>4. CASE /\ f.layout.format # format
             /\ drm' = DropVideo(drm) /\ cache' = <<>> /\ current' = 0
             /\ \/ /\ format' = f.layout.format
                   /\ pc' = "find" /\ frame' = f /\ UNCHANGED target
                \/ /\ format' = (IF output = "atomic" THEN "none" ELSE format)
                   /\ Return("failed")
    <2>0. /\ drm \in Devices /\ pool \in Pools /\ gbm \in SUBSET Ids
          /\ cache \in Seq(Entries) /\ \A e \in Range(cache) : e.fb # 0
      BY DEF TypeInv, CacheInv
    <2>1. Range(cache) \subseteq Owned
      BY <2>0 DEF Owned
    <2>2. /\ drm' \in Devices
          /\ Ledger(drm', Owned \ Range(cache), pool)
          /\ Apart(drm, Owned, gbm, pool) => Apart(drm', Owned \ Range(cache), gbm, pool)
          /\ drm'.plane # 0 => /\ drm'.plane = drm.plane
                               /\ drm'.fbs[drm.plane] = drm.fbs[drm.plane]
          /\ drm.plane \in FbsOf(Range(cache)) => drm'.plane = 0
      BY <1>4, <2>0, <2>1, DropVideoDevice DEF LedgerInv
    <2>3. Owned' = Owned \ Range(cache)
      <3>1. Range(<<>>) = {}
        BY EmptySeq, SeqRange
      <3>2. Owned' = {e \in {cpu} : e.fb # 0}
        BY <1>0, <1>4, <3>1 DEF Owned
      <3>3. source = "cpu" => Owned' = Owned /\ Range(cache) = {}
        BY <3>1, <3>2 DEF CacheInv, Owned
      <3>4. source = "dmabuf" => Owned' = {} /\ Owned = Range(cache)
        BY <2>0, <3>2, OwnedEntries DEF CacheInv, Owned
      <3> QED
        BY <3>3, <3>4 DEF TypeInv
    <2>4. LedgerInv' /\ ApartInv'
      BY <1>0, <2>2, <2>3 DEF LedgerInv, ApartInv
    <2>5. drm'.plane = 0
      <3>1. drm.plane = current
        BY <1>0 DEF PlaneInv
      <3>2. CASE source = "dmabuf" /\ current # 0
        <4>1. cache # <<>> /\ cache[Len(cache)].fb = current
          BY <1>0, <3>2 DEF PlaneInv
        <4>2. cache[Len(cache)] \in Range(cache)
          BY <2>0, <4>1, SeqRange
        <4> QED
          BY <2>2, <3>1, <4>1, <4>2 DEF FbsOf
      <3>3. CASE source = "cpu"
        <4>1. format = "none"
          BY <1>2, <1>4, <3>3 DEF PlaneInv
        <4> QED
          BY <1>0, <2>2, <3>1, <3>3, <4>1 DEF PlaneInv
      <3> QED
        BY <2>2, <3>1, <3>2, <3>3 DEF TypeInv
    <2>6. f.layout.format \in {l.format : l \in Layouts \cup CpuLayouts \cup {NoLayout}}
      BY <1>2
    <2>7. "none" \in {l.format : l \in Layouts \cup CpuLayouts \cup {NoLayout}}
      <3>1. NoLayout.format = "none"
        BY DEF NoLayout
      <3>2. NoLayout \in Layouts \cup CpuLayouts \cup {NoLayout}
        OBVIOUS
      <3> QED
        BY <3>1, <3>2, Zenon
    <2>8. TypeInv'
      <3>1. format' \in {l.format : l \in Layouts \cup CpuLayouts \cup {NoLayout}}
        BY <1>4, <2>6, <2>7 DEF TypeInv
      <3>2. frame' \in Frames \cup {NoFrame} /\ target' \in {0} \cup Ids /\ pc' \in {"find", "failed"}
        BY <1>2, <1>4 DEF TypeInv, Return
      <3> QED
        BY <1>0, <1>4, <2>2, <3>1, <3>2 DEF TypeInv
    <2>9. CacheInv'
      <3>1. <<>> \in Seq(Entries) /\ Len(<<>>) = 0 /\ Range(<<>>) = {} /\ Distinct(<<>>)
        BY EmptySeq, SeqRange DEF Distinct
      <3>2. pc' # "import"
        BY <1>4 DEF Return
      <3> QED
        BY <1>0, <1>4, <3>1, <3>2 DEF CacheInv
    <2>10. PlaneInv'
      <3>1. CASE format' = f.layout.format /\ pc' = "find" /\ frame' = f
        BY <1>0, <1>1, <1>2, <1>4, <2>5, <3>1 DEF PlaneInv
      <3>2. CASE format' = (IF output = "atomic" THEN "none" ELSE format) /\ Return("failed")
        BY <1>0, <1>4, <2>5, <3>2 DEF PlaneInv, Return
      <3> QED
        BY <1>4, <3>1, <3>2
    <2> QED
      BY <2>4, <2>8, <2>9, <2>10
  <1> QED
    BY <1>1, <1>3, <1>4

LEMMA FindHitKeeps ==
    ASSUME FbInv, FindHit
    PROVE  FbInv'
  <1> USE DEF FbInv
  <1>0. /\ pc = "find" /\ pc' = "commit" /\ source = "dmabuf"
        /\ UNCHANGED <<output, source, drm, pool, gbm, format, current, cpu, frame, shown, shared>>
    BY DEF FindHit, optionVars, history
  <1>1. PICK i \in DOMAIN cache :
          cache[i].key = frame /\ cache' = Append(RemoveAt(cache, i), cache[i]) /\ target' = cache[i].fb
    BY DEF FindHit, SameKey
  <1>2. /\ cache \in Seq(Entries) /\ Distinct(cache) /\ i \in 1..Len(cache) /\ Len(cache) \in Nat
        /\ cache[i] \in Range(cache) /\ cache[i] \in Entries
    <2>1. cache \in Seq(Entries) /\ Distinct(cache)
      BY DEF CacheInv
    <2> QED
      BY <2>1, SeqRange
  <1> DEFINE rest == RemoveAt(cache, i)
  <1>3. /\ rest \in Seq(Entries) /\ Len(rest) = Len(cache) - 1 /\ Distinct(rest)
        /\ Range(rest) = Range(cache) \ {cache[i]}
    BY <1>2, OneLess
  <1>c. cache' = Append(rest, cache[i])
    BY <1>1
  <1> HIDE DEF rest
  <1>4. /\ cache' \in Seq(Entries) /\ Len(cache') = Len(rest) + 1 /\ Distinct(cache')
        /\ Range(cache') = Range(rest) \cup {cache[i]}
        /\ cache' # <<>> /\ cache'[Len(cache')] = cache[i]
    <2>1. cache[i] \notin Range(rest)
      BY <1>3
    <2>2. /\ Append(rest, cache[i]) \in Seq(Entries) /\ Len(Append(rest, cache[i])) = Len(rest) + 1
          /\ Distinct(Append(rest, cache[i])) /\ Range(Append(rest, cache[i])) = Range(rest) \cup {cache[i]}
          /\ Append(rest, cache[i]) # <<>> /\ Append(rest, cache[i])[Len(Append(rest, cache[i]))] = cache[i]
      BY <1>2, <1>3, <2>1, OneMore
    <2> QED
      BY <1>c, <2>2, Zenon
  <1>5. Range(cache') = Range(cache) /\ Len(cache') = Len(cache)
    BY <1>2, <1>3, <1>4
  <1>6. LedgerInv' /\ ApartInv'
    BY <1>0, <1>5, SameEntries
  <1>7. /\ cache[i].fb # 0 /\ cache[i].fb \in Ids
        /\ drm.fbs[cache[i].fb] = PictureIn(pool, cache[i].key)
    <2>1. cache[i].fb # 0
      BY <1>2 DEF CacheInv
    <2>2. cache[i] \in Owned
      BY <1>2, <2>1 DEF Owned
    <2> QED
      BY <1>2, <2>1, <2>2 DEF LedgerInv, Ledger, Entries
  <1>8. TypeInv'
    BY <1>0, <1>1, <1>7 DEF TypeInv
  <1>9. CacheInv'
    BY <1>0, <1>4, <1>5 DEF CacheInv
  <1>10. PlaneInv'
    BY <1>0, <1>1, <1>4, <1>7 DEF PlaneInv
  <1> QED
    BY <1>6, <1>8, <1>9, <1>10

\* The entry evicted is the one used least recently, and another than the
\* one on the plane, whichever way the output picks it.
LEMMA VictimIsOldest ==
    ASSUME FbInv, pc = "find", source = "dmabuf", Full
    PROVE  Victim = 1 /\ 1 \in 1..Len(cache) /\ 1 # Len(cache) /\ cache[1].fb # drm.plane
  <1> USE DEF FbInv
  <1>1. /\ cache \in Seq(Entries) /\ Distinct(cache) /\ Len(cache) \in Nat /\ DOMAIN cache = 1..Len(cache)
        /\ \A i \in 1..Len(cache) : cache[i] \in Range(cache)
    <2>1. cache \in Seq(Entries) /\ Distinct(cache)
      BY DEF CacheInv
    <2>2. /\ Len(cache) \in Nat /\ DOMAIN cache = 1..Len(cache)
          /\ Range(cache) = {cache[i] : i \in 1..Len(cache)}
      BY <2>1, SeqRange
    <2> QED
      BY <2>1, <2>2
  <1>2. Len(cache) >= 2
    BY <1>1 DEF Full
  <1>3. 1 \in 1..Len(cache) /\ Len(cache) \in 1..Len(cache) /\ 1 # Len(cache)
    BY <1>1, <1>2
  <1>4. cache[1] # cache[Len(cache)]
    BY <1>1, <1>3 DEF Distinct
  <1>5. cache[1].fb # 0 /\ cache[Len(cache)].fb # 0
    BY <1>1, <1>3 DEF CacheInv
  <1>6. cache[1] \in Owned /\ cache[Len(cache)] \in Owned
    BY <1>1, <1>3, <1>5 DEF Owned
  <1>7. cache[1].fb # cache[Len(cache)].fb
    BY <1>4, <1>6 DEF LedgerInv, Ledger
  <1>8. drm.plane = current /\ (current # 0 => cache[Len(cache)].fb = current)
    BY DEF PlaneInv
  <1>9. cache[1].fb # current
    BY <1>5, <1>7, <1>8
  <1>10. Victim = 1
    <2> DEFINE S == {i \in DOMAIN cache : cache[i].fb # current}
    <2>1. 1 \in S /\ \A i \in S : 1 <= i /\ i \in Nat
      BY <1>1, <1>3, <1>9
    <2> HIDE DEF S
    <2>2. Min(S) = 1
      <3> DEFINE m == CHOOSE x \in S : \A y \in S : x =< y
      <3>1. \E x \in S : \A y \in S : x =< y
        BY <2>1
      <3>2. m \in S /\ \A y \in S : m =< y
        BY <3>1, Zenon
      <3>3. Min(S) = m
        BY DEF Min
      <3> HIDE DEF m
      <3>4. m =< 1 /\ 1 <= m /\ m \in Nat
        BY <2>1, <3>2
      <3> QED
        BY <3>3, <3>4
    <2> QED
      BY <2>2 DEF Victim, S
  <1> QED
    BY <1>3, <1>8, <1>9, <1>10

LEMMA FindMissKeeps ==
    ASSUME FbInv, FindMiss
    PROVE  FbInv' /\ (drm.plane # 0 => drm'.plane # 0)
  <1> USE DEF FbInv
  <1>0. /\ pc = "find" /\ pc' = "import" /\ source = "dmabuf" /\ Evict
        /\ \A i \in DOMAIN cache : cache[i].key # frame
        /\ UNCHANGED <<output, source, pool, gbm, format, current, cpu, frame, target, shown, shared>>
    BY DEF FindMiss, SameKey, optionVars, history
  <1>1. /\ cache \in Seq(Entries) /\ Distinct(cache) /\ Len(cache) \in Nat
        /\ DOMAIN cache = 1..Len(cache) /\ Range(cache) = {cache[i] : i \in 1..Len(cache)}
        /\ cpu = NoEntry /\ \A e \in Range(cache) : e.fb # 0
    <2>1. cache \in Seq(Entries) /\ Distinct(cache) /\ cpu = NoEntry /\ \A e \in Range(cache) : e.fb # 0
      BY <1>0 DEF CacheInv
    <2> QED
      BY <2>1, SeqRange
  <1>2. \A e \in Range(cache) : e.key # frame
    BY <1>0, <1>1
  <1>3. CASE ~Full
    <2>1. UNCHANGED <<drm, cache>>
      BY <1>0, <1>3 DEF Evict
    <2>2. Len(cache) < MaxCached
      BY <1>1, <1>3 DEF Full
    <2>3. TypeInv'
      BY <1>0, <2>1 DEF TypeInv
    <2>4. CacheInv'
      BY <1>0, <1>2, <2>1, <2>2 DEF CacheInv
    <2>5. PlaneInv'
      BY <1>0, <2>1 DEF PlaneInv
    <2>6. LedgerInv' /\ ApartInv'
      BY <1>0, <2>1, SameEntries
    <2> QED
      BY <2>1, <2>3, <2>4, <2>5, <2>6
  <1>4. CASE Full
    <2> DEFINE v == cache[1]
    <2>1. Victim = 1 /\ 1 \in 1..Len(cache) /\ 1 # Len(cache) /\ v.fb # drm.plane
      BY <1>0, <1>4, VictimIsOldest
    <2>2. drm' = Destroyed(drm, {v}) /\ cache' = RemoveAt(cache, 1)
      BY <1>0, <1>4, <2>1 DEF Evict
    <2>3. v \in Range(cache)
      BY <1>1, <2>1
    <2> HIDE DEF v
    <2>4. /\ cache' \in Seq(Entries) /\ Len(cache') = Len(cache) - 1 /\ Distinct(cache')
          /\ Range(cache') = Range(cache) \ {v}
          /\ cache' # <<>> /\ cache'[Len(cache')] = cache[Len(cache)]
      <3>1. /\ RemoveAt(cache, 1) \in Seq(Entries) /\ Len(RemoveAt(cache, 1)) = Len(cache) - 1
            /\ Distinct(RemoveAt(cache, 1)) /\ Range(RemoveAt(cache, 1)) = Range(cache) \ {cache[1]}
            /\ 1 # Len(cache) => /\ RemoveAt(cache, 1) # <<>>
                                 /\ RemoveAt(cache, 1)[Len(RemoveAt(cache, 1))] = cache[Len(cache)]
        <4>1. cache \in Seq(Entries) /\ Distinct(cache) /\ 1 \in 1..Len(cache)
          BY <1>1, <2>1
        <4> QED
          BY <4>1, OneLess, Zenon
      <3> QED
        BY <2>1, <2>2, <3>1, Zenon DEF v
    <2>5. drm \in Devices /\ pool \in Pools /\ gbm \subseteq Ids
      BY DEF TypeInv
    <2>6. Owned = Range(cache) /\ Owned' = Owned \ {v}
      <3>1. Owned = Range(cache)
        BY <1>1, OwnedEntries DEF Owned
      <3>2. Owned' = {e \in Range(cache') \cup {NoEntry} : e.fb # 0}
        BY <1>0, <1>1 DEF Owned
      <3>3. \A e \in Range(cache') : e.fb # 0
        BY <1>1, <2>4
      <3>4. Owned' = Range(cache')
        BY <2>4, <3>2, <3>3, OwnedEntries
      <3> QED
        BY <2>4, <3>1, <3>4
    <2>7. {v} \subseteq Owned \cup {NoEntry}
      BY <2>3, <2>6
    <2>8. LedgerInv' /\ ApartInv'
      <3>1. Ledger(drm', Owned', pool)
        BY <2>2, <2>5, <2>6, <2>7, DestroyedLedger DEF LedgerInv
      <3>2. shared \/ Apart(drm', Owned', gbm, pool)
        BY <2>2, <2>5, <2>6, <2>7, DestroyedApart DEF LedgerInv, ApartInv
      <3> QED
        BY <1>0, <3>1, <3>2 DEF LedgerInv, ApartInv
    <2>9. /\ drm' \in Devices
          /\ \A id \in Ids : drm'.fbs[id] = IF id \in FbsOf({v}) THEN NoFb ELSE drm.fbs[id]
          /\ drm'.plane = IF drm.plane \in FbsOf({v}) THEN 0 ELSE drm.plane
      BY <2>2, <2>5, DestroyedDevice
    <2>10. drm.plane \notin FbsOf({v}) /\ drm'.plane = drm.plane
      BY <2>1, <2>9 DEF FbsOf
    <2>11. TypeInv'
      BY <1>0, <2>9 DEF TypeInv
    <2>12. CacheInv'
      <3>1. Len(cache') < MaxCached
        BY <1>1, <2>4 DEF CacheInv
      <3>2. Range(cache') \subseteq Range(cache)
        BY <2>4
      <3> QED
        BY <1>0, <1>1, <1>2, <2>4, <3>1, <3>2 DEF CacheInv
    <2>13. PlaneInv'
      <3>1. drm'.plane # 0 => drm'.fbs[drm'.plane] = shown /\ shown # NoFb
        BY <2>5, <2>9, <2>10, DeviceShape DEF PlaneInv
      <3> QED
        BY <1>0, <2>4, <2>10, <3>1 DEF PlaneInv
    <2> QED
      BY <2>8, <2>10, <2>11, <2>12, <2>13
  <1> QED
    BY <1>3, <1>4

LEMMA ImportKeeps ==
    ASSUME FbInv, Import
    PROVE  FbInv' /\ drm'.plane = drm.plane
  <1> USE DEF FbInv
  <1>0. /\ pc = "import" /\ pc' = "commit" /\ shared' = (shared \/ CachedAgain(frame))
        /\ UNCHANGED <<output, source, pool, gbm, format, current, cpu, frame, shown>>
    BY DEF Import, optionVars
  <1>1. /\ source = "dmabuf" /\ cpu = NoEntry /\ frame \in DmabufFrames /\ frame \in Frames
        /\ cache \in Seq(Entries) /\ Distinct(cache) /\ Len(cache) \in Nat /\ Len(cache) < MaxCached
        /\ DOMAIN cache = 1..Len(cache) /\ Range(cache) = {cache[i] : i \in 1..Len(cache)}
        /\ \A e \in Range(cache) : e.fb # 0 /\ e.key \in DmabufFrames /\ e.key # frame
    <2>1. /\ source = "dmabuf" /\ cpu = NoEntry /\ frame \in DmabufFrames
          /\ cache \in Seq(Entries) /\ Distinct(cache) /\ Len(cache) < MaxCached
          /\ \A e \in Range(cache) : e.fb # 0 /\ e.key \in DmabufFrames /\ e.key # frame
      BY <1>0 DEF CacheInv, PlaneInv
    <2> QED
      BY <2>1, SeqRange DEF Frames
  <1>2. drm \in Devices /\ pool \in Pools /\ gbm \subseteq Ids
    BY DEF TypeInv
  <1>3. PICK imp \in Imports(drm, PictureIn(pool, frame).objs, frame) :
          drm' = imp.drm /\ cache' = Append(cache, imp.entry) /\ target' = imp.entry.fb
    BY DEF Import, Picture, PictureIn
  <1>4. ImportsWell(drm, imp, pool, frame)
    BY <1>1, <1>2, ImportsDevice
  <1> DEFINE n == imp.entry
  <1>5. /\ n \in Entries /\ n.key = frame /\ n.fb \in Ids /\ drm.fbs[n.fb] = NoFb
        /\ drm' \in Devices /\ drm'.plane = drm.plane /\ drm'.fbs[n.fb] = PictureIn(pool, frame)
        /\ \A id \in Ids : id # n.fb => drm'.fbs[id] = drm.fbs[id]
    BY <1>3, <1>4 DEF ImportsWell
  <1>6. Owned = Range(cache)
    BY <1>1, OwnedEntries DEF Owned
  <1>7. Ledger(drm', Owned \cup {n}, pool) /\ n \notin Owned
    BY <1>1, <1>2, <1>3, <1>4, ImportedLedger DEF LedgerInv
  <1>8. ASSUME ~shared' PROVE Apart(drm', Owned \cup {n}, gbm, pool)
    <2>1. Apart(drm, Owned, gbm, pool) /\ ~CachedAgain(frame)
      BY <1>0, <1>8 DEF ApartInv
    <2>2. ASSUME NEW e \in Owned PROVE Range(PictureIn(pool, e.key).objs) \cap Range(PictureIn(pool, frame).objs) = {}
      <3>1. e \in Range(cache) /\ e.key \in DmabufFrames
        BY <1>1, <1>6
      <3>2. Range(e.key.bufs) \cap Range(frame.bufs) = {}
        BY <1>1, <2>1, <3>1 DEF CachedAgain
      <3> QED
        BY <1>1, <1>2, <3>1, <3>2, CommonObject
    <2> QED
      BY <1>1, <1>2, <1>3, <1>4, <2>1, <2>2, ImportedApart DEF LedgerInv
  <1>c. cache' = Append(cache, n) /\ target' = n.fb
    BY <1>3
  <1> HIDE DEF n
  <1>9. /\ cache' \in Seq(Entries) /\ Len(cache') = Len(cache) + 1 /\ Distinct(cache')
        /\ Range(cache') = Range(cache) \cup {n}
        /\ cache' # <<>> /\ cache'[Len(cache')] = n
    <2>1. n \notin Range(cache)
      BY <1>6, <1>7
    <2>2. /\ Append(cache, n) \in Seq(Entries) /\ Len(Append(cache, n)) = Len(cache) + 1
          /\ Distinct(Append(cache, n)) /\ Range(Append(cache, n)) = Range(cache) \cup {n}
          /\ Append(cache, n) # <<>> /\ Append(cache, n)[Len(Append(cache, n))] = n
      BY <1>1, <1>5, <2>1, OneMore
    <2> QED
      BY <1>c, <2>2, Zenon
  <1>10. n.fb # 0
    BY <1>5
  <1>11. Owned' = Owned \cup {n}
    <2>1. Owned' = {e \in Range(cache') \cup {NoEntry} : e.fb # 0}
      BY <1>0, <1>1 DEF Owned
    <2>2. \A e \in Range(cache') : e.fb # 0
      BY <1>1, <1>9, <1>10
    <2>3. Owned' = Range(cache')
      BY <1>9, <2>1, <2>2, OwnedEntries
    <2> QED
      BY <1>6, <1>9, <2>3
  <1>12. LedgerInv' /\ ApartInv'
    BY <1>0, <1>7, <1>8, <1>11 DEF LedgerInv, ApartInv
  <1>13. TypeInv'
    BY <1>0, <1>5, <1>c DEF TypeInv
  <1>14. CacheInv'
    <2>1. Len(cache') <= MaxCached
      BY <1>1, <1>9
    <2>2. \A e \in Range(cache') : e.fb # 0 /\ e.key \in DmabufFrames
      BY <1>1, <1>5, <1>9, <1>10
    <2>3. \A e, f \in Range(cache') : e.key = f.key => e = f
      <3>1. \A e, f \in Range(cache) : e.key = f.key => e = f
        BY DEF CacheInv
      <3> QED
        BY <1>1, <1>5, <1>9, <3>1
    <2> QED
      BY <1>0, <1>1, <1>9, <2>1, <2>2, <2>3 DEF CacheInv
  <1>15. PlaneInv'
    <2>1. drm'.plane # 0 => drm'.fbs[drm'.plane] = shown /\ shown # NoFb
      <3>1. drm.plane # 0 => drm.fbs[drm.plane] = shown /\ shown # NoFb
        BY DEF PlaneInv
      <3>2. drm.plane # 0 => drm.plane # n.fb /\ drm.plane \in Ids
        BY <1>2, <1>5, <3>1, DeviceShape
      <3> QED
        BY <1>5, <3>1, <3>2
    <2> QED
      BY <1>0, <1>1, <1>5, <1>9, <1>10, <1>c, <2>1 DEF PlaneInv
  <1> QED
    BY <1>5, <1>12, <1>13, <1>14, <1>15

\* Closing handles of one frame's buffers leaves the others' alone.
LEMMA ClosedApart ==
    ASSUME NEW d \in Devices, NEW E, NEW G, NEW H, NEW p \in Pools, NEW f \in Frames, G \subseteq Ids,
           Ledger(d, E, p), Apart(d, E, G, p),
           \A h \in H : d.handles[h] = NoObject \/ d.handles[h] \in Range(PictureIn(p, f).objs),
           \A e \in E : Range(PictureIn(p, e.key).objs) \cap Range(PictureIn(p, f).objs) = {}
    PROVE  Apart(Closed(d, H), E, G, p)
  <1> DEFINE D == Closed(d, H)
             objs == PictureIn(p, f).objs
  <1>1. \A h \in Ids : D.handles[h] = IF h \in H THEN NoObject ELSE d.handles[h]
    BY ClosedDevice
  <1>2. \A i \in DOMAIN objs : objs[i] \in Dmabufs \cup {Dumb}
    BY PictureShape
  <1>3. /\ \A e \in E : Range(PictureIn(p, e.key).objs) \cap Range(objs) = {}
        /\ \A h \in H : d.handles[h] = NoObject \/ d.handles[h] \in Range(objs)
    OBVIOUS
  <1> HIDE DEF D, objs
  <1>4. ASSUME NEW h \in G PROVE D.handles[h] = Gbm
    <2>1. d.handles[h] = Gbm /\ h \in Ids
      BY DEF Apart
    <2>2. Gbm \notin Range(objs)
      BY <1>2, Tags DEF Range
    <2>3. h \notin H
      BY <1>3, <2>1, <2>2, Tags
    <2> QED
      BY <1>1, <2>1, <2>3
  <1>5. ASSUME NEW e \in E
        PROVE  /\ DOMAIN e.handles = DOMAIN PictureIn(p, e.key).objs
               /\ \A i \in DOMAIN e.handles : D.handles[e.handles[i]] = PictureIn(p, e.key).objs[i]
    <2>1. /\ DOMAIN e.handles = DOMAIN PictureIn(p, e.key).objs
          /\ \A i \in DOMAIN e.handles : d.handles[e.handles[i]] = PictureIn(p, e.key).objs[i]
      BY DEF Apart
    <2>2. ASSUME NEW i \in DOMAIN e.handles PROVE D.handles[e.handles[i]] = PictureIn(p, e.key).objs[i]
      <3>1. e.handles[i] \in Ids /\ e.key \in Frames
        <4>1. e \in Entries /\ e.key \in Frames
          BY DEF Ledger
        <4>2. e.handles \in Seq(Ids)
          BY <4>1 DEF Entries
        <4>3. DOMAIN e.handles = 1..Len(e.handles)
          BY <4>2, LenProperties
        <4> QED
          BY <4>1, <4>2, <4>3, ElementOfSeq
      <3>2. d.handles[e.handles[i]] \in Range(PictureIn(p, e.key).objs)
        BY <2>1 DEF Range
      <3>3. d.handles[e.handles[i]] # NoObject
        <4>1. PictureIn(p, e.key).objs[i] \in Dmabufs \cup {Dumb}
          BY <2>1, <3>1, PictureShape
        <4> QED
          BY <2>1, <4>1, Tags
      <3>4. e.handles[i] \notin H
        BY <1>3, <3>2, <3>3
      <3> QED
        BY <1>1, <2>1, <3>1, <3>4
    <2> QED
      BY <2>1, <2>2
  <1>6. \A e, g \in E : e # g => Range(PictureIn(p, e.key).objs) \cap Range(PictureIn(p, g.key).objs) = {}
    BY DEF Apart
  <1>7. Apart(D, E, G, p)
    BY <1>4, <1>5, <1>6 DEF Apart
  <1> QED
    BY <1>7 DEF D

\* Handles opened and closed again: what is left is what closing them leaves.
LEMMA OpenedAndClosed ==
    ASSUME NEW d \in Devices, NEW objs, NEW hs
    PROVE  Closed(Opened(d, objs, hs), Range(hs)) = Closed(d, Range(hs))
  <1> DEFINE k == [h \in Ids |-> IF h \in Range(hs) THEN objs[CHOOSE i \in DOMAIN hs : hs[i] = h]
                                                    ELSE d.handles[h]]
             c == [h \in Ids |-> IF h \in Range(hs) THEN NoObject ELSE k[h]]
             b == [h \in Ids |-> IF h \in Range(hs) THEN NoObject ELSE d.handles[h]]
  <1>1. c = b
    <2>1. \A h \in Ids : c[h] = b[h]
      OBVIOUS
    <2> QED
      BY <2>1
  <1>2. Opened(d, objs, hs) = [d EXCEPT !.handles = k]
    BY DEF Opened
  <1> HIDE DEF k
  <1>3. Opened(d, objs, hs) = [handles |-> k, fbs |-> d.fbs, plane |-> d.plane]
    BY <1>2, DeviceShape
  <1>4. Closed(Opened(d, objs, hs), Range(hs))
          = [Opened(d, objs, hs) EXCEPT !.handles = [h \in Ids |-> IF h \in Range(hs) THEN NoObject
                                                                  ELSE Opened(d, objs, hs).handles[h]]]
    BY DEF Closed
  <1>5. Opened(d, objs, hs).handles = k
    BY <1>3
  <1>6. Closed(Opened(d, objs, hs), Range(hs)) = [Opened(d, objs, hs) EXCEPT !.handles = c]
    BY <1>4, <1>5, Zenon
  <1>7. Closed(d, Range(hs)) = [d EXCEPT !.handles = b]
    BY DEF Closed
  <1> HIDE DEF c, b
  <1> QED
    BY <1>1, <1>3, <1>6, <1>7, DeviceShape

LEMMA ImportFailsKeeps ==
    ASSUME FbInv, ImportFails
    PROVE  FbInv' /\ drm'.plane = drm.plane
  <1> USE DEF FbInv
  <1>0. /\ pc = "import" /\ pc' = "failed" /\ frame' = NoFrame /\ target' = 0
        /\ shared' = (shared \/ CachedAgain(frame))
        /\ UNCHANGED <<output, source, pool, gbm, format, cache, current, cpu, shown>>
    BY DEF ImportFails, Return, optionVars, videoVars
  <1>1. /\ source = "dmabuf" /\ cpu = NoEntry /\ frame \in DmabufFrames /\ frame \in Frames
        /\ cache \in Seq(Entries)
        /\ DOMAIN cache = 1..Len(cache) /\ Range(cache) = {cache[i] : i \in 1..Len(cache)}
        /\ \A e \in Range(cache) : e.fb # 0 /\ e.key \in DmabufFrames
    <2>1. /\ source = "dmabuf" /\ cpu = NoEntry /\ frame \in DmabufFrames
          /\ cache \in Seq(Entries)
          /\ \A e \in Range(cache) : e.fb # 0 /\ e.key \in DmabufFrames
      BY <1>0 DEF CacheInv, PlaneInv
    <2> QED
      BY <2>1, SeqRange DEF Frames
  <1>2. drm \in Devices /\ pool \in Pools /\ gbm \subseteq Ids
    BY DEF TypeInv
  <1> DEFINE objs == PictureIn(pool, frame).objs
  <1>3. PICK n \in 0..Len(frame.bufs) :
          \E hs \in Handles(drm, [i \in 1..n |-> objs[i]]) :
              drm' = Closed(Opened(drm, [i \in 1..n |-> objs[i]], hs), Range(hs))
    BY DEF ImportFails, Picture, PictureIn
  <1>4. PICK hs \in Handles(drm, [i \in 1..n |-> objs[i]]) :
              drm' = Closed(Opened(drm, [i \in 1..n |-> objs[i]], hs), Range(hs))
    BY <1>3
  <1>5. drm' = Closed(drm, Range(hs))
    BY <1>2, <1>4, OpenedAndClosed
  <1>6. DOMAIN objs = 1..Len(frame.bufs) /\ Len(frame.bufs) \in Nat
    <2>1. frame.bufs # <<>>
      BY <1>1, FrameShape
    <2>2. /\ DOMAIN frame.bufs = 1..Len(frame.bufs) /\ Len(frame.bufs) \in Nat
          /\ objs = [i \in DOMAIN frame.bufs |-> <<"dmabuf", frame.bufs[i], pool[frame.bufs[i]]>>]
      BY <1>1, <1>2, <2>1, FrameShape, PictureShape
    <2> HIDE DEF objs
    <2> QED
      BY <2>2
  <1> HIDE DEF objs
  <1>7. \A h \in Range(hs) : h \in Ids /\ (drm.handles[h] = NoObject \/ drm.handles[h] \in Range(objs))
    <2> DEFINE some == [i \in 1..n |-> objs[i]]
    <2>1. /\ DOMAIN some = 1..n
          /\ \A i \in DOMAIN some : i \in DOMAIN objs /\ some[i] \in Range(objs)
      BY <1>6 DEF Range
    <2> HIDE DEF some
    <2>2. /\ hs \in [DOMAIN some -> Ids]
          /\ \A i \in DOMAIN some : drm.handles[hs[i]] \in {some[i], NoObject}
      BY DEF Handles, some
    <2> QED
      BY <2>1, <2>2 DEF Range
  <1>8. drm' \in Devices /\ drm'.fbs = drm.fbs /\ drm'.plane = drm.plane
    BY <1>2, <1>5, ClosedDevice
  <1>9. Owned = Range(cache) /\ Owned' = Owned
    BY <1>0, <1>1, OwnedEntries DEF Owned
  <1>10. LedgerInv'
    BY <1>0, <1>2, <1>5, <1>9, ClosedLedger DEF LedgerInv
  <1>11. ApartInv'
    <2>1. ASSUME ~shared' PROVE Apart(drm', Owned, gbm, pool)
      <3>1. Apart(drm, Owned, gbm, pool) /\ ~CachedAgain(frame)
        BY <1>0, <2>1 DEF ApartInv
      <3>2. ASSUME NEW e \in Owned PROVE Range(PictureIn(pool, e.key).objs) \cap Range(objs) = {}
        <4>1. e \in Range(cache) /\ e.key \in DmabufFrames
          BY <1>1, <1>9
        <4>2. Range(e.key.bufs) \cap Range(frame.bufs) = {}
          BY <1>1, <3>1, <4>1 DEF CachedAgain
        <4> QED
          BY <1>1, <1>2, <4>1, <4>2, CommonObject DEF objs
      <3>3. \A h \in Range(hs) : drm.handles[h] = NoObject \/ drm.handles[h] \in Range(PictureIn(pool, frame).objs)
        BY <1>7 DEF objs
      <3>4. \A e \in Owned : Range(PictureIn(pool, e.key).objs) \cap Range(PictureIn(pool, frame).objs) = {}
        BY <3>2 DEF objs
      <3> QED
        BY <1>1, <1>2, <1>5, <3>1, <3>3, <3>4, ClosedApart DEF LedgerInv
    <2> QED
      BY <1>0, <1>9, <2>1 DEF ApartInv
  <1>12. TypeInv'
    BY <1>0, <1>8 DEF TypeInv
  <1>13. CacheInv'
    BY <1>0 DEF CacheInv
  <1>14. PlaneInv'
    BY <1>0, <1>8 DEF PlaneInv
  <1> QED
    BY <1>8, <1>10, <1>11, <1>12, <1>13, <1>14

\* Destroying entries leaves on the plane what it shows, or nothing.
LEMMA DestroyedShows ==
    ASSUME NEW d \in Devices, NEW V, NEW s, d.plane # 0 => d.fbs[d.plane] = s /\ s # NoFb
    PROVE  /\ Destroyed(d, V).plane \in {0, d.plane}
           /\ Destroyed(d, V).plane # 0 => Destroyed(d, V).fbs[Destroyed(d, V).plane] = s /\ s # NoFb
  <1> DEFINE D == Destroyed(d, V)
  <1>1. /\ \A id \in Ids : D.fbs[id] = IF id \in FbsOf(V) THEN NoFb ELSE d.fbs[id]
        /\ D.plane = IF d.plane \in FbsOf(V) THEN 0 ELSE d.plane
    BY DestroyedDevice
  <1> HIDE DEF D
  <1>2. D.plane # 0 => D.plane = d.plane /\ d.plane \in Ids /\ d.plane \notin FbsOf(V)
    BY <1>1, DeviceShape
  <1>3. D.plane \in {0, d.plane} /\ (D.plane # 0 => D.fbs[D.plane] = s /\ s # NoFb)
    BY <1>1, <1>2
  <1> QED
    BY <1>3 DEF D

LEMMA UseCpuKeeps ==
    ASSUME FbInv, UseCpu
    PROVE  /\ FbInv'
           /\ drm.plane # 0 /\ drm'.plane = 0 => cpu.key.layout # frame.layout
  <1> USE DEF FbInv
  <1>0. /\ pc = "find" /\ source = "cpu"
        /\ UNCHANGED <<output, source, pool, gbm, format, cache, current, shown, shared>>
    BY DEF UseCpu, optionVars, history
  <1>1. /\ cache = <<>> /\ cpu \in Entries /\ (cpu.fb = 0 => cpu = NoEntry)
        /\ (cpu.fb # 0 => cpu.key \in CpuFrames)
        /\ frame \in CpuFrames /\ frame \in Frames /\ format # "none"
        /\ drm.plane = current
    BY <1>0 DEF CacheInv, PlaneInv, Frames
  <1>2. drm \in Devices /\ pool \in Pools /\ gbm \subseteq Ids
    BY DEF TypeInv
  <1>3. /\ Range(<<>>) = {} /\ (cpu.fb # 0 => Owned = {cpu}) /\ (cpu.fb = 0 => Owned = {})
        /\ {cpu} \subseteq Owned \cup {NoEntry} /\ Owned \ {cpu} = {}
    <2>1. Range(<<>>) = {}
      BY EmptySeq, SeqRange
    <2>2. Owned = {e \in {cpu} : e.fb # 0}
      BY <1>1, <2>1 DEF Owned
    <2> QED
      BY <1>1, <2>1, <2>2
  <1>4. CASE CpuFits /\ target' = cpu.fb /\ pc' = "commit" /\ UNCHANGED <<drm, cpu, frame>>
    <2>1. cpu.fb # 0 /\ cpu.key.layout = frame.layout
      BY <1>4 DEF CpuFits
    <2>2. cpu.fb \in Ids /\ drm.fbs[cpu.fb] = PictureIn(pool, cpu.key)
      <3>1. cpu \in Owned
        BY <1>3, <2>1
      <3> QED
        BY <1>1, <2>1, <3>1 DEF LedgerInv, Ledger, Entries
    <2>3. PictureIn(pool, cpu.key) = PictureIn(pool, frame)
      BY <1>1, <2>1 DEF PictureIn, CpuFrames
    <2>4. LedgerInv' /\ ApartInv'
      BY <1>0, <1>4, SameEntries
    <2>5. TypeInv'
      BY <1>0, <1>4, <2>2 DEF TypeInv
    <2>6. CacheInv'
      BY <1>0, <1>4 DEF CacheInv
    <2>7. PlaneInv'
      BY <1>0, <1>1, <1>4, <2>1, <2>2, <2>3 DEF PlaneInv
    <2> QED
      BY <1>4, <2>4, <2>5, <2>6, <2>7
  <1> DEFINE d == Destroyed(drm, {cpu})
  <1>5. /\ d \in Devices /\ Ledger(d, {}, pool)
        /\ (shared \/ Apart(d, {}, gbm, pool))
        /\ d.plane \in {0, drm.plane} /\ (d.plane # 0 => d.fbs[d.plane] = shown /\ shown # NoFb)
    <2>1. d \in Devices
      BY <1>2, DestroyedDevice
    <2>2. Ledger(d, Owned \ {cpu}, pool)
      BY <1>2, <1>3, DestroyedLedger DEF LedgerInv
    <2>3. shared \/ Apart(d, Owned \ {cpu}, gbm, pool)
      BY <1>2, <1>3, DestroyedApart DEF LedgerInv, ApartInv
    <2>4. drm.plane # 0 => drm.fbs[drm.plane] = shown /\ shown # NoFb
      BY DEF PlaneInv
    <2>5. d.plane \in {0, drm.plane} /\ (d.plane # 0 => d.fbs[d.plane] = shown /\ shown # NoFb)
      BY <1>2, <2>4, DestroyedShows
    <2> HIDE DEF d
    <2> QED
      BY <1>3, <2>1, <2>2, <2>3, <2>5
  <1>6. ASSUME ~CpuFits, drm.plane # 0, d.plane = 0 PROVE cpu.key.layout # frame.layout
    <2>1. d.plane = IF drm.plane \in FbsOf({cpu}) THEN 0 ELSE drm.plane
      BY <1>2, DestroyedDevice
    <2> HIDE DEF d
    <2>2. cpu.fb = drm.plane
      BY <1>6, <2>1 DEF FbsOf
    <2> QED
      BY <1>6, <2>2 DEF CpuFits
  <1> HIDE DEF d
  <1>7. CASE /\ ~CpuFits
             /\ \E imported \in Imports(d, <<Dumb>>, frame) :
                   /\ drm' = imported.drm /\ cpu' = imported.entry
                   /\ target' = imported.entry.fb
             /\ pc' = "commit" /\ UNCHANGED frame
    <2>1. PictureIn(pool, frame).objs = <<Dumb>>
      BY <1>1, <1>2, FrameShape, PictureShape
    <2>2. PICK imp \in Imports(d, PictureIn(pool, frame).objs, frame) :
             drm' = imp.drm /\ cpu' = imp.entry /\ target' = imp.entry.fb
      BY <1>7, <2>1
    <2>3. ImportsWell(d, imp, pool, frame)
      BY <1>1, <1>2, <1>5, ImportsDevice
    <2>4. /\ cpu' \in Entries /\ cpu'.key = frame /\ cpu'.fb \in Ids /\ d.fbs[cpu'.fb] = NoFb
          /\ drm' \in Devices /\ drm'.plane = d.plane /\ drm'.fbs[cpu'.fb] = PictureIn(pool, frame)
          /\ \A id \in Ids : id # cpu'.fb => drm'.fbs[id] = d.fbs[id]
      BY <2>2, <2>3 DEF ImportsWell
    <2>5. cpu'.fb # 0 /\ target' = cpu'.fb
      BY <2>2, <2>4
    <2>6. Owned' = {} \cup {imp.entry}
      <3>1. Owned' = {e \in Range(<<>>) \cup {cpu'} : e.fb # 0}
        BY <1>0, <1>1 DEF Owned
      <3> QED
        BY <1>3, <2>2, <2>5, <3>1
    <2>7. Ledger(drm', Owned', pool)
      BY <1>1, <1>2, <1>5, <2>2, <2>3, <2>6, ImportedLedger
    <2>8. shared \/ Apart(drm', Owned', gbm, pool)
      BY <1>1, <1>2, <1>5, <2>2, <2>3, <2>6, ImportedApart
    <2>9. LedgerInv' /\ ApartInv'
      BY <1>0, <2>7, <2>8 DEF LedgerInv, ApartInv
    <2>10. TypeInv'
      BY <1>0, <1>7, <2>4, <2>5 DEF TypeInv
    <2>11. CacheInv'
      BY <1>0, <1>1, <1>7, <2>4, <2>5 DEF CacheInv
    <2>12. drm'.plane # 0 => drm'.fbs[drm'.plane] = shown /\ shown # NoFb
      <3>1. d.plane # 0 => d.plane # cpu'.fb /\ d.plane \in Ids
        BY <1>5, <2>4, DeviceShape
      <3> QED
        BY <1>5, <2>4, <3>1
    <2>13. PlaneInv'
      BY <1>0, <1>1, <1>7, <2>4, <2>5, <2>12 DEF PlaneInv
    <2> QED
      BY <1>6, <1>7, <2>4, <2>9, <2>10, <2>11, <2>13
  <1>8. CASE ~CpuFits /\ drm' = d /\ cpu' = NoEntry /\ Return("failed")
    <2>1. pc' = "failed" /\ frame' = NoFrame /\ target' = 0
      BY <1>8 DEF Return
    <2>2. Owned' = {}
      <3>1. Owned' = {e \in Range(<<>>) \cup {NoEntry} : e.fb # 0}
        BY <1>0, <1>1, <1>8 DEF Owned
      <3> QED
        BY <3>1, OwnedEntries
    <2>3. LedgerInv' /\ ApartInv'
      BY <1>0, <1>5, <1>8, <2>2 DEF LedgerInv, ApartInv
    <2>4. TypeInv'
      BY <1>0, <1>5, <1>8, <2>1 DEF TypeInv
    <2>5. CacheInv'
      BY <1>0, <1>8, <2>1, OwnedEntries DEF CacheInv
    <2>6. PlaneInv'
      BY <1>0, <1>5, <1>8, <2>1 DEF PlaneInv
    <2> QED
      BY <1>6, <1>8, <2>3, <2>4, <2>5, <2>6
  <1> QED
    BY <1>4, <1>7, <1>8 DEF UseCpu, d

LEMMA CommitKeeps ==
    ASSUME FbInv, Commit
    PROVE  FbInv' /\ drm'.plane # 0
  <1> USE DEF FbInv
  <1>0. /\ pc = "commit" /\ drm' = Shows(drm, target) /\ current' = target
        /\ shown' = PictureIn(pool, frame)
        /\ pc' = "idle" /\ frame' = NoFrame /\ target' = 0
        /\ UNCHANGED <<output, source, pool, gbm, format, cache, cpu, shared>>
    BY DEF Commit, Return, Picture, PictureIn, optionVars
  <1>1. /\ target # 0 /\ drm.fbs[target] = PictureIn(pool, frame) /\ frame \in Frames
        /\ source = "dmabuf" => cache # <<>> /\ cache[Len(cache)].fb = target
        /\ source = "cpu" => format # "none"
    BY <1>0 DEF PlaneInv, Frames
  <1>2. drm \in Devices /\ pool \in Pools /\ target \in {0} \cup Ids
    BY DEF TypeInv
  <1>3. drm' \in Devices /\ drm'.plane = target /\ drm'.fbs = drm.fbs /\ drm'.handles = drm.handles
    BY <1>0, <1>2, ShowsDevice
  <1>4. Owned' = Owned
    BY <1>0 DEF Owned
  <1>5. LedgerInv' /\ ApartInv'
    BY <1>0, <1>3, <1>4, SameTables DEF LedgerInv, ApartInv
  <1>6. TypeInv'
    BY <1>0, <1>2, <1>3 DEF TypeInv
  <1>7. CacheInv'
    BY <1>0 DEF CacheInv
  <1>8. PictureIn(pool, frame) # NoFb
    BY <1>1, <1>2, PictureShape
  <1>9. PlaneInv'
    BY <1>0, <1>1, <1>3, <1>8 DEF PlaneInv
  <1> QED
    BY <1>1, <1>3, <1>5, <1>6, <1>7, <1>9

LEMMA CommitFailsKeeps ==
    ASSUME FbInv, CommitFails
    PROVE  FbInv' /\ UNCHANGED drm
  <1> USE DEF FbInv
  <1>0. /\ pc' = "failed" /\ frame' = NoFrame /\ target' = 0
        /\ UNCHANGED <<output, source, drm, pool, gbm, format, cache, current, cpu, shown, shared>>
    BY DEF CommitFails, Return, optionVars, videoVars, history
  <1>1. LedgerInv' /\ ApartInv'
    BY <1>0, SameEntries
  <1>2. TypeInv' /\ CacheInv' /\ PlaneInv'
    BY <1>0 DEF TypeInv, CacheInv, PlaneInv
  <1> QED
    BY <1>0, <1>1, <1>2

LEMMA PresentOverlayKeeps ==
    ASSUME FbInv, PresentOverlay
    PROVE  FbInv' /\ drm'.plane = drm.plane
  <1> USE DEF FbInv
  <1>0. /\ pc = "idle" /\ drm.plane = current
        /\ UNCHANGED <<output, source, pool, gbm, format, cache, current, cpu, shown, shared>>
        /\ \/ drm' = Shows(drm, current) /\ UNCHANGED <<pc, frame, target>>
           \/ pc' = "failed" /\ frame' = NoFrame /\ target' = 0 /\ UNCHANGED drm
    BY DEF PresentOverlay, Return, PlaneInv, optionVars, videoVars, presentVars, history
  <1>1. drm \in Devices /\ current \in {0} \cup Ids
    BY DEF TypeInv
  <1>2. drm' \in Devices /\ drm'.plane = drm.plane /\ drm'.fbs = drm.fbs /\ drm'.handles = drm.handles
    BY <1>0, <1>1, ShowsDevice
  <1>3. Owned' = Owned
    BY <1>0 DEF Owned
  <1>4. LedgerInv' /\ ApartInv'
    BY <1>0, <1>2, <1>3, SameTables DEF LedgerInv, ApartInv
  <1>5. TypeInv'
    BY <1>0, <1>2 DEF TypeInv
  <1>6. CacheInv' /\ PlaneInv'
    BY <1>0, <1>2 DEF CacheInv, PlaneInv
  <1> QED
    BY <1>2, <1>4, <1>5, <1>6

LEMMA CleanupKeeps ==
    ASSUME FbInv, Cleanup
    PROVE  FbInv'
  <1> USE DEF FbInv
  <1> DEFINE k == Closed(drm, gbm)
             d == DropVideo(k)
  <1>0. /\ drm' = Destroyed(d, {cpu}) /\ gbm' = {} /\ cache' = <<>> /\ current' = 0 /\ cpu' = NoEntry
        /\ pc' = "closed" /\ frame' = NoFrame /\ target' = 0
        /\ UNCHANGED <<output, source, pool, format, shown, shared>>
    BY DEF Cleanup, Return, optionVars, history
  <1>1. /\ drm \in Devices /\ pool \in Pools /\ {} \in SUBSET Ids /\ cache \in Seq(Entries)
        /\ (cpu.fb = 0 => cpu = NoEntry) /\ \A e \in Range(cache) : e.fb # 0
    BY DEF TypeInv, CacheInv
  <1>2. Range(cache) \subseteq Owned /\ (Owned \ Range(cache)) \ {cpu} = {}
        /\ {cpu} \subseteq (Owned \ Range(cache)) \cup {cpu}
    BY <1>1 DEF Owned
  <1>3. k \in Devices /\ k.fbs = drm.fbs /\ k.plane = drm.plane /\ Ledger(k, Owned, pool)
    BY <1>1, ClosedDevice, ClosedLedger DEF LedgerInv
  <1> HIDE DEF k
  <1>4. /\ d \in Devices /\ Ledger(d, Owned \ Range(cache), pool)
        /\ d.plane # 0 => d.plane = k.plane /\ d.fbs[k.plane] = k.fbs[k.plane]
    BY <1>1, <1>2, <1>3, DropVideoDevice
  <1> HIDE DEF d
  <1>5. {cpu} \subseteq (Owned \ Range(cache)) \cup {NoEntry}
    <2>1. CASE cpu.fb = 0
      BY <1>1, <2>1
    <2>2. CASE cpu.fb # 0
      <3>1. cpu \in Owned
        BY <2>2 DEF Owned
      <3>2. cpu \notin Range(cache)
        <4>1. source = "cpu"
          BY <2>2, OwnedEntries DEF CacheInv, TypeInv
        <4>2. cache = <<>>
          BY <4>1 DEF CacheInv
        <4> QED
          BY <1>1, <4>2, SeqRange
      <3> QED
        BY <3>1, <3>2
    <2> QED
      BY <2>1, <2>2
  <1>6. Ledger(drm', {}, pool)
    BY <1>0, <1>1, <1>2, <1>4, <1>5, DestroyedLedger
  <1>7. Owned' = {}
    <2>1. Owned' = {e \in Range(<<>>) \cup {NoEntry} : e.fb # 0}
      BY <1>0 DEF Owned
    <2> QED
      BY <2>1, OwnedEntries
  <1>8. LedgerInv' /\ ApartInv'
    BY <1>0, <1>6, <1>7 DEF LedgerInv, ApartInv, Apart
  <1>9. drm' \in Devices /\ (drm'.plane # 0 => drm'.fbs[drm'.plane] = shown /\ shown # NoFb)
    <2>1. d.plane # 0 => d.fbs[d.plane] = shown /\ shown # NoFb
      BY <1>3, <1>4 DEF PlaneInv
    <2> QED
      BY <1>0, <1>4, <2>1, DestroyedDevice, DestroyedShows
  <1>10. TypeInv'
    BY <1>0, <1>9 DEF TypeInv
  <1>11. CacheInv'
    <2>1. <<>> \in Seq(Entries) /\ Len(<<>>) = 0 /\ Range(<<>>) = {} /\ Distinct(<<>>)
      BY EmptySeq, SeqRange DEF Distinct
    <2> QED
      BY <1>0, <2>1, OwnedEntries DEF CacheInv
  <1>12. PlaneInv'
    BY <1>0, <1>9 DEF PlaneInv
  <1> QED
    BY <1>8, <1>10, <1>11, <1>12

\* A buffer that is replaced is in no framebuffer, so no key of the cache means
\* another buffer than before.
LEMMA BufferReplacedKeeps ==
    ASSUME FbInv, BufferReplaced
    PROVE  FbInv' /\ UNCHANGED drm
  <1> USE DEF FbInv
  <1>0. /\ pc = "idle" /\ source = "dmabuf"
        /\ UNCHANGED <<output, source, drm, gbm, format, cache, current, cpu, pc, frame, target, shown, shared>>
    BY DEF BufferReplaced, optionVars, videoVars, presentVars, history
  <1>1. PICK b \in Inodes : /\ ~Referenced(<<"dmabuf", b, pool[b]>>)
                            /\ pool' = [pool EXCEPT ![b] = 3 - @]
    BY DEF BufferReplaced
  <1>2. pool \in Pools /\ cache \in Seq(Entries) /\ cpu = NoEntry /\ \A e \in Range(cache) : e.fb # 0
    BY <1>0 DEF TypeInv, CacheInv
  <1>3. pool' \in Pools
    <2>1. 3 - pool[b] \in Gens
      BY <1>2 DEF Pools, Gens
    <2> QED
      BY <1>1, <1>2, <2>1 DEF Pools
  <1>4. Owned = Range(cache) /\ Owned' = Owned
    BY <1>0, <1>2, OwnedEntries DEF Owned
  <1>5. ASSUME NEW e \in Owned PROVE PictureIn(pool', e.key) = PictureIn(pool, e.key)
    <2>1. /\ e.key \in Frames /\ e.key.bufs # <<>> /\ e.fb \in Ids
          /\ drm.fbs[e.fb] = PictureIn(pool, e.key)
      <3>1. e.key \in DmabufFrames
        BY <1>4 DEF CacheInv
      <3>2. e \in Entries /\ e.fb # 0 /\ drm.fbs[e.fb] = PictureIn(pool, e.key)
        BY DEF LedgerInv, Ledger
      <3> QED
        BY <3>1, <3>2, FrameShape DEF Frames, Entries
    <2> DEFINE bufs == e.key.bufs
    <2>2. \A i \in DOMAIN bufs : bufs[i] \in Inodes
      BY <2>1, FrameShape
    <2>3. PictureIn(pool, e.key).objs = [i \in DOMAIN bufs |-> <<"dmabuf", bufs[i], pool[bufs[i]]>>]
      BY <1>2, <2>1, PictureShape
    <2>4. PictureIn(pool', e.key).objs = [i \in DOMAIN bufs |-> <<"dmabuf", bufs[i], pool'[bufs[i]]>>]
      BY <1>3, <2>1, PictureShape
    <2>5. PictureIn(pool, e.key) = [objs |-> PictureIn(pool, e.key).objs, layout |-> e.key.layout]
      BY <1>2, <2>1, PictureShape
    <2>6. PictureIn(pool', e.key) = [objs |-> PictureIn(pool', e.key).objs, layout |-> e.key.layout]
      BY <1>3, <2>1, PictureShape
    <2> HIDE DEF bufs
    <2>7. ASSUME NEW i \in DOMAIN bufs PROVE bufs[i] # b
      <3>1. SUFFICES ASSUME bufs[i] = b PROVE FALSE
        OBVIOUS
      <3>2. PictureIn(pool, e.key).objs[i] = <<"dmabuf", b, pool[b]>> /\ i \in DOMAIN PictureIn(pool, e.key).objs
        BY <2>3, <3>1
      <3>3. <<"dmabuf", b, pool[b]>> \in Range(drm.fbs[e.fb].objs)
        BY <2>1, <3>2 DEF Range
      <3> QED
        BY <1>1, <2>1, <3>3 DEF Referenced
    <2>8. \A i \in DOMAIN bufs : pool'[bufs[i]] = pool[bufs[i]]
      BY <1>1, <1>2, <2>2, <2>7 DEF Pools
    <2>9. PictureIn(pool', e.key).objs = PictureIn(pool, e.key).objs
      BY <2>3, <2>4, <2>8
    <2> QED
      BY <2>5, <2>6, <2>9, Zenon
  <1>6. LedgerInv' /\ ApartInv'
    <2>1. Ledger(drm, Owned, pool') /\ (Apart(drm, Owned, gbm, pool) => Apart(drm, Owned, gbm, pool'))
      <3>1. Ledger(drm, Owned, pool')
        BY <1>5 DEF LedgerInv, Ledger
      <3>2. ASSUME Apart(drm, Owned, gbm, pool) PROVE Apart(drm, Owned, gbm, pool')
        <4>1. \A e \in Owned : /\ DOMAIN e.handles = DOMAIN PictureIn(pool', e.key).objs
                              /\ \A i \in DOMAIN e.handles :
                                    drm.handles[e.handles[i]] = PictureIn(pool', e.key).objs[i]
          BY <1>5, <3>2 DEF Apart
        <4>2. \A e, f \in Owned :
                 e # f => Range(PictureIn(pool', e.key).objs) \cap Range(PictureIn(pool', f.key).objs) = {}
          <5> TAKE e \in Owned, f \in Owned
          <5>1. e # f => Range(PictureIn(pool, e.key).objs) \cap Range(PictureIn(pool, f.key).objs) = {}
            BY <3>2 DEF Apart
          <5>2. PictureIn(pool', e.key) = PictureIn(pool, e.key) /\ PictureIn(pool', f.key) = PictureIn(pool, f.key)
            BY <1>5
          <5> QED
            BY <5>1, <5>2, Zenon
        <4> QED
          BY <3>2, <4>1, <4>2 DEF Apart
      <3> QED
        BY <3>1, <3>2
    <2> QED
      BY <1>0, <1>4, <2>1 DEF LedgerInv, ApartInv
  <1>7. TypeInv'
    BY <1>0, <1>3 DEF TypeInv
  <1>8. CacheInv' /\ PlaneInv'
    BY <1>0 DEF CacheInv, PlaneInv
  <1> QED
    BY <1>0, <1>6, <1>7, <1>8

LEMMA GbmAllocatesKeeps ==
    ASSUME FbInv, GbmAllocates
    PROVE  FbInv' /\ drm'.plane = drm.plane
  <1> USE DEF FbInv
  <1>0. UNCHANGED <<output, source, pool, format, cache, current, cpu, pc, frame, target, shown, shared>>
    BY DEF GbmAllocates, optionVars, videoVars, presentVars, history
  <1>1. PICK h \in FirstUnused(drm.handles, NoObject) :
          gbm' = gbm \cup {h} /\ drm' = [drm EXCEPT !.handles[h] = Gbm]
    BY DEF GbmAllocates
  <1>2. h \in Ids /\ drm.handles[h] = NoObject
    BY DEF FirstUnused
  <1>3. drm \in Devices /\ pool \in Pools /\ gbm \subseteq Ids
    BY DEF TypeInv
  <1>4. /\ drm' \in Devices /\ drm'.fbs = drm.fbs /\ drm'.plane = drm.plane
        /\ drm'.handles[h] = Gbm /\ \A n \in Ids : n # h => drm'.handles[n] = drm.handles[n]
    <2> DEFINE k == [drm.handles EXCEPT ![h] = Gbm]
    <2>1. k \in [Ids -> Objects] /\ k[h] = Gbm /\ \A n \in Ids : n # h => k[n] = drm.handles[n]
      BY <1>2, <1>3, DeviceShape DEF Objects
    <2>0. drm = [handles |-> drm.handles, fbs |-> drm.fbs, plane |-> drm.plane]
      BY <1>3, DeviceShape
    <2>2. drm' = [handles |-> k, fbs |-> drm.fbs, plane |-> drm.plane]
      BY <1>1, <2>0
    <2> HIDE DEF k
    <2> QED
      BY <1>3, <2>1, <2>2, DeviceShape DEF Devices
  <1>5. Owned' = Owned
    BY <1>0 DEF Owned
  <1>6. Ledger(drm', Owned, pool)
    BY <1>2, <1>4 DEF LedgerInv, Ledger
  <1>7. ASSUME Apart(drm, Owned, gbm, pool) PROVE Apart(drm', Owned, gbm', pool)
    <2>1. ASSUME NEW n \in gbm' PROVE drm'.handles[n] = Gbm
      BY <1>1, <1>3, <1>4, <1>7 DEF Apart
    <2>2. ASSUME NEW e \in Owned
          PROVE  /\ DOMAIN e.handles = DOMAIN PictureIn(pool, e.key).objs
                 /\ \A i \in DOMAIN e.handles : drm'.handles[e.handles[i]] = PictureIn(pool, e.key).objs[i]
      <3>1. /\ DOMAIN e.handles = DOMAIN PictureIn(pool, e.key).objs
            /\ \A i \in DOMAIN e.handles : drm.handles[e.handles[i]] = PictureIn(pool, e.key).objs[i]
        BY <1>7 DEF Apart
      <3>2. ASSUME NEW i \in DOMAIN e.handles PROVE drm'.handles[e.handles[i]] = PictureIn(pool, e.key).objs[i]
        <4>1. e \in Entries /\ e.key \in Frames
          BY DEF LedgerInv, Ledger
        <4>2. e.handles \in Seq(Ids)
          BY <4>1 DEF Entries
        <4>3. DOMAIN e.handles = 1..Len(e.handles)
          BY <4>2, LenProperties
        <4>4. e.handles[i] \in Ids
          BY <4>2, <4>3, ElementOfSeq
        <4>5. PictureIn(pool, e.key).objs[i] \in Dmabufs \cup {Dumb}
          BY <1>3, <3>1, <4>1, PictureShape
        <4>6. drm.handles[e.handles[i]] # NoObject
          BY <3>1, <4>5, Tags
        <4> QED
          BY <1>2, <1>4, <3>1, <4>4, <4>6
      <3> QED
        BY <3>1, <3>2
    <2>3. \A e, f \in Owned : e # f => Range(PictureIn(pool, e.key).objs) \cap Range(PictureIn(pool, f.key).objs) = {}
      BY <1>7 DEF Apart
    <2> QED
      BY <2>1, <2>2, <2>3 DEF Apart
  <1>8. LedgerInv' /\ ApartInv'
    BY <1>0, <1>5, <1>6, <1>7 DEF LedgerInv, ApartInv
  <1>9. TypeInv'
    BY <1>0, <1>1, <1>2, <1>4 DEF TypeInv
  <1>10. CacheInv' /\ PlaneInv'
    BY <1>0, <1>4 DEF CacheInv, PlaneInv
  <1> QED
    BY <1>4, <1>8, <1>9, <1>10

LEMMA StutterKeeps ==
    ASSUME FbInv, UNCHANGED vars
    PROVE  FbInv' /\ UNCHANGED drm
  <1>0. UNCHANGED <<output, source, drm, pool, gbm, format, cache, current, cpu, pc, frame, target, shown, shared>>
    BY DEF vars, optionVars, videoVars, presentVars, history
  <1>1. Owned' = Owned
    BY <1>0 DEF Owned
  <1> QED
    BY <1>0, <1>1 DEF FbInv, TypeInv, CacheInv, PlaneInv, LedgerInv, ApartInv

----
(* The theorems. *)

LEMMA NextKeeps ==
    ASSUME FbInv, [Next]_vars
    PROVE  FbInv'
  BY StartPresentKeeps, FindHitKeeps, FindMissKeeps, ImportKeeps, ImportFailsKeeps, UseCpuKeeps,
     CommitKeeps, CommitFailsKeeps, PresentOverlayKeeps, CleanupKeeps, BufferReplacedKeeps,
     GbmAllocatesKeeps, StutterKeeps DEF Next

\* Framebuffers, handles, cache and plane agree at every step of present,
\* import, eviction and cleanup, whatever the decoder and Mesa do in between.
THEOREM Inductive == Spec => []FbInv
  <1>1. FbInv /\ [Next]_vars => FbInv'
    BY NextKeeps
  <1> QED
    BY InitHolds, <1>1, PTL DEF Spec

LEMMA TypeImplied ==
    ASSUME FbInv
    PROVE  TypeOK
  <1> USE DEF FbInv
  <1>1. /\ cache \in Seq(Entries) /\ Distinct(cache) /\ DOMAIN cache = 1..Len(cache)
        /\ Range(cache) \subseteq Entries /\ \A i \in 1..Len(cache) : cache[i] \in Range(cache)
    <2>1. cache \in Seq(Entries) /\ Distinct(cache)
      BY DEF CacheInv
    <2>2. /\ DOMAIN cache = 1..Len(cache) /\ Range(cache) \subseteq Entries
          /\ Range(cache) = {cache[i] : i \in 1..Len(cache)}
      BY <2>1, SeqRange
    <2> QED
      BY <2>1, <2>2
  <1>2. \A i, j \in DOMAIN cache : cache[i].key = cache[j].key => i = j
    BY <1>1 DEF CacheInv, Distinct
  <1>3. ASSUME NEW id \in Ids PROVE drm.fbs[id].layout \in Layouts \cup CpuLayouts \cup {NoLayout}
    <2>1. drm.fbs[id] \in Pictured
      BY DEF TypeInv, Devices
    <2>2. CASE drm.fbs[id] = NoFb
      BY <2>2 DEF NoFb
    <2>3. CASE \E p \in Pools, f \in Frames : drm.fbs[id] = PictureIn(p, f)
      <3>1. PICK p \in Pools, f \in Frames : drm.fbs[id] = PictureIn(p, f)
        BY <2>3
      <3>2. PictureIn(p, f).layout = f.layout
        BY DEF PictureIn
      <3>3. f.layout \in Layouts \cup CpuLayouts
        BY FrameShape
      <3> QED
        BY <3>1, <3>2, <3>3
    <2> QED
      BY <2>1, <2>2, <2>3 DEF Pictured
  <1>4. drm.handles \in [Ids -> Dmabufs \cup {NoObject, Gbm, Dumb}] /\ drm.plane \in {0} \cup Ids
    BY DEF TypeInv, Devices, Objects
  <1> QED
    BY <1>1, <1>2, <1>3, <1>4 DEF TypeOK, TypeInv, CacheInv, Pools

\* Every variable has a value the code can give it; the cache stays within
\* max_cached_framebuffers and never has two entries with one key
\* (find_or_import_video_framebuffer, evict_video_framebuffer_if_needed).
THEOREM TypeCorrect == Spec => []TypeOK
  BY Inductive, TypeImplied, PTL

\* The plane shows the picture presented last, and what is committed is the
\* frame at hand: an entry of the cache never outlives the buffer its key names
\* (make_frame_key), as its framebuffer keeps the buffer.
THEOREM PlaneRight == Spec => []PlaneShowsFrame
  <1>1. FbInv => PlaneShowsFrame
    BY DEF FbInv, PlaneInv, PlaneShowsFrame, Picture, PictureIn
  <1> QED
    BY Inductive, <1>1, PTL

\* No framebuffer and no handle leaks or is removed under an entry, and no
\* handle of Mesa's is closed unless a buffer was cached in two layouts
\* (import_video_frame, destroy_imported, cleanup).
THEOREM Accounted == Spec => []HandlesAccounted
  <1>1. ASSUME FbInv PROVE HandlesAccounted
    <2> USE <1>1 DEF FbInv
    <2>1. ASSUME NEW e \in Owned PROVE e.fb \in Ids /\ drm.fbs[e.fb] # NoFb
      <3>1. e \in Entries /\ e.fb # 0 /\ e.key \in Frames /\ drm.fbs[e.fb] = PictureIn(pool, e.key)
        BY DEF LedgerInv, Ledger
      <3>2. PictureIn(pool, e.key) # NoFb
        BY <3>1, PictureShape DEF TypeInv
      <3> QED
        BY <3>1, <3>2 DEF Entries
    <2>2. {id \in Ids : drm.fbs[id] # NoFb} = {e.fb : e \in Owned}
      BY <2>1 DEF LedgerInv, Ledger
    <2>3. {h \in Ids : drm.handles[h] \notin {NoObject, Gbm}} \subseteq UNION {Range(e.handles) : e \in Owned}
      BY DEF LedgerInv, Ledger
    <2>4. \A e, f \in Owned : e.fb = f.fb => e = f
      BY DEF LedgerInv, Ledger
    <2>5. shared \/ \A h \in gbm : drm.handles[h] = Gbm
      BY DEF ApartInv, Apart
    <2> QED
      BY <2>2, <2>3, <2>4, <2>5 DEF HandlesAccounted
  <1> QED
    BY Inductive, <1>1, PTL

\* Eviction never takes the picture off the plane: the victim is another entry
\* than the one shown, in both outputs (evict_video_framebuffer_if_needed,
\* evict_cached_framebuffer_if_needed).
THEOREM NeverDark == Spec => StaysLit
  <1> DEFINE Lit == drm.plane # 0 /\ drm'.plane = 0 =>
                       \/ pc = "idle" /\ (format' # format \/ pc' = "failed")
                       \/ pc = "find" /\ source = "cpu" /\ cpu.key.layout # frame.layout
                       \/ pc' = "closed"
  <1>1. ASSUME FbInv, [Next]_vars PROVE Lit
    <2>1. CASE StartPresent
      <3>1. pc = "idle" /\ (UNCHANGED drm \/ format' # format \/ pc' = "failed")
        BY <2>1 DEF StartPresent, Return
      <3> QED
        BY <3>1
    <2>2. CASE FindHit
      BY <2>2 DEF FindHit
    <2>3. CASE FindMiss
      BY <1>1, <2>3, FindMissKeeps
    <2>4. CASE Import \/ ImportFails \/ PresentOverlay \/ GbmAllocates
      BY <1>1, <2>4, ImportKeeps, ImportFailsKeeps, PresentOverlayKeeps, GbmAllocatesKeeps
    <2>5. CASE UseCpu
      <3>1. pc = "find" /\ source = "cpu"
        BY <2>5 DEF UseCpu
      <3> QED
        BY <1>1, <2>5, <3>1, UseCpuKeeps
    <2>6. CASE Commit
      BY <1>1, <2>6, CommitKeeps
    <2>7. CASE CommitFails \/ BufferReplaced \/ UNCHANGED vars
      BY <1>1, <2>7, CommitFailsKeeps, BufferReplacedKeeps, StutterKeeps
    <2>8. CASE Cleanup
      BY <2>8 DEF Cleanup, Return
    <2> QED
      BY <1>1, <2>1, <2>2, <2>3, <2>4, <2>5, <2>6, <2>7, <2>8 DEF Next
  <1>2. FbInv /\ [Next]_vars => [Lit]_vars
    BY <1>1
  <1> HIDE DEF Lit
  <1>3. Spec => [][Lit]_vars
    BY Inductive, <1>2, PTL DEF Spec
  <1> QED
    BY <1>3 DEF StaysLit, Lit
====

---- MODULE RkmppFrames_proofs ----
(***************************************************************************)
(* Theorems about RkmppFrames, for any capacities, any number of buffers   *)
(* and frames.  FrameInv is the inductive invariant: frames move through   *)
(* the decoder in the order of their numbers, which keeps the owners of    *)
(* the live frames apart.                                                  *)
(***************************************************************************)
EXTENDS RkmppFrames, TLAPS, FunctionTheorems, FiniteSetTheorems, SequenceTheorems

USE CapAssumption, BufsAssumption DEF CapAssumption, BufsAssumption, None

----
(* Sequences of frames. *)

Elements(s) == {s[i] : i \in 1..Len(s)}

OldestOf(s, n) == {s[i] : i \in 1..n}
Behind(s, n) == SubSeq(s, n + 1, Len(s))

Increasing(s) == \A i, j \in 1..Len(s) : i < j => s[i] < s[j]

\* Dropping the n oldest frames of a queue.
LEMMA DropOldest ==
  ASSUME NEW s \in Seq(Frames), Increasing(s), NEW n \in 0..Len(s)
  PROVE  /\ Behind(s, n) \in Seq(Frames) /\ Len(Behind(s, n)) = Len(s) - n
         /\ \A i \in 1..Len(Behind(s, n)) : Behind(s, n)[i] = s[n + i]
         /\ Increasing(Behind(s, n))
         /\ Elements(Behind(s, n)) = Elements(s) \ OldestOf(s, n)
<1> DEFINE t == Behind(s, n)
<1>t. t = SubSeq(s, n + 1, Len(s))
  BY DEF Behind
<1> HIDE DEF t
<1>0. Len(s) \in Nat /\ \A i \in 1..Len(s) : s[i] \in Frames
  BY ElementOfSeq
<1>1. /\ t \in Seq(Frames) /\ Len(t) = Len(s) - n
      /\ \A i \in 1..Len(t) : t[i] = s[n + i]
  <2>1. \A i \in (n + 1)..Len(s) : s[i] \in Frames
    BY <1>0
  <2>2. /\ t \in Seq(Frames)
        /\ Len(t) = IF n + 1 <= Len(s) THEN Len(s) - (n + 1) + 1 ELSE 0
        /\ \A i \in 1..(Len(s) - (n + 1) + 1) : t[i] = s[(n + 1) + i - 1]
    BY <1>0, <1>t, <2>1, SubSeqProperties
  <2>3. Len(t) = Len(s) - n
    BY <1>0, <2>2
  <2>4. \A i \in 1..Len(t) : t[i] = s[n + i]
    <3> TAKE i \in 1..Len(t)
    <3>1. i \in 1..(Len(s) - (n + 1) + 1) /\ (n + 1) + i - 1 = n + i
      BY <1>0, <2>3
    <3> QED BY <2>2, <3>1
  <2> QED BY <2>2, <2>3, <2>4
<1>2. Increasing(t)
  <2>1. ASSUME NEW i \in 1..Len(t), NEW j \in 1..Len(t), i < j PROVE t[i] < t[j]
    <3>1. n + i \in 1..Len(s) /\ n + j \in 1..Len(s) /\ n + i < n + j
      BY <1>0, <1>1, <2>1
    <3>2. s[n + i] < s[n + j]
      BY <3>1 DEF Increasing
    <3> QED BY <1>1, <3>2
  <2> QED BY <2>1 DEF Increasing
<1>3. \A i \in 1..Len(t), j \in 1..n : s[j] < t[i]
  <2> TAKE i \in 1..Len(t), j \in 1..n
  <2>1. n + i \in 1..Len(s) /\ j \in 1..Len(s) /\ j < n + i
    BY <1>0, <1>1
  <2>2. s[j] < s[n + i]
    BY <2>1 DEF Increasing
  <2> QED BY <1>1, <2>2
<1>4. ASSUME NEW e \in Elements(t) PROVE e \in Elements(s) \ OldestOf(s, n)
  <2>1. PICK i \in 1..Len(t) : e = t[i]
    BY DEF Elements
  <2>2. n + i \in 1..Len(s) /\ e = s[n + i]
    BY <1>0, <1>1, <2>1
  <2>3. ASSUME NEW j \in 1..n PROVE s[j] # e
    <3>1. j \in 1..Len(s) /\ s[j] < e
      BY <1>0, <1>3, <2>1
    <3> QED BY <1>0, <3>1 DEF Frames
  <2> QED BY <2>2, <2>3 DEF Elements, OldestOf
<1>5. ASSUME NEW e \in Elements(s) \ OldestOf(s, n) PROVE e \in Elements(t)
  <2>1. PICK i \in 1..Len(s) : e = s[i]
    BY DEF Elements
  <2>2. i \in (n + 1)..Len(s)
    BY <1>0, <1>5, <2>1 DEF OldestOf
  <2>3. i - n \in 1..Len(t) /\ n + (i - n) = i
    BY <1>0, <1>1, <2>2
  <2>4. t[i - n] = s[i]
    BY <1>1, <2>3
  <2> QED BY <2>1, <2>3, <2>4 DEF Elements
<1> QED BY <1>1, <1>2, <1>4, <1>5 DEF t

\* A newer frame at the end of a queue.
LEMMA AppendNewest ==
  ASSUME NEW s \in Seq(Frames), Increasing(s), NEW e \in Frames,
         \A f \in Elements(s) : f < e, NEW t, t = Append(s, e)
  PROVE  /\ t \in Seq(Frames) /\ Len(t) = Len(s) + 1
         /\ Increasing(t)
         /\ Elements(t) = Elements(s) \cup {e}
<1>0. Len(s) \in Nat /\ \A i \in 1..Len(s) : s[i] \in Frames
  BY ElementOfSeq
<1>1. /\ t \in Seq(Frames) /\ Len(t) = Len(s) + 1
      /\ \A i \in 1..Len(s) : t[i] = s[i]
      /\ t[Len(s) + 1] = e
  BY AppendProperties
<1>2. Increasing(t)
  BY <1>0, <1>1 DEF Increasing, Elements
<1>3. Elements(t) = Elements(s) \cup {e}
  BY <1>0, <1>1 DEF Elements
<1> QED BY <1>1, <1>2, <1>3

----
(* The inductive invariant. *)

\* A frame further up the decoder is newer than those further down.
Newer(n, older) == n # None => \A f \in older : f < n

\* The frames of frame_loop's mailbox, of the presenter and of the decoder, in the
\* order they come in; in MJPEG mode units are numbered before they become frames.
OrderInv ==
    /\ Increasing(ready)
    /\ \A n \in Queued : Newer(n, {pendingPresented, current})
    /\ Newer(pendingPresented, {current})
    /\ Newer(got, {pendingPresented, current} \cup Queued)
    /\ Newer(mppOut, {got, pendingPresented, current} \cup Queued)
    /\ {mppOut, got, pendingPresented, current} \cup Queued \subseteq 0..decoded
    /\ mjpeg => mppOut = None
    /\ ~mjpeg => units = <<>>
    /\ \A i \in 1..Len(units) :
          units[i] <= decoded /\ Newer(units[i], {got, pendingPresented, current} \cup Queued)

\* What each thread holds at each of its program points, and what the plane shows.
PlaceInv ==
    /\ framePc = "check" <=> got # None
    /\ presPc \in {"present", "mark"} => pendingPresented # None
    /\ mainPc # "loop" => presPc = "done"
    /\ mainPc \notin {"loop", "joining"} =>
          framePc = "done" /\ ready = <<>> /\ pendingPresented = None /\ current = None
    /\ mainPc \in {"loop", "joining"} =>
          scan = IF presPc = "mark" THEN pendingPresented ELSE current

LiveInv == live = ({mppOut, got, pendingPresented, current} \cup Queued) \ {None}

FrameInv == OrderInv /\ PlaceInv /\ LiveInv

LEMMA QueuedElements == Queued = Elements(ready)
BY DEF Queued, Oldest, Elements

LEMMA QueuedFrames == TypeOK => Queued \subseteq Frames
BY QueuedElements, ElementOfSeq DEF TypeOK, Elements

\* What is said of the owners by number is about natural numbers.
LEMMA Numbers ==
  ASSUME TypeOK
  PROVE  /\ {mppOut, got, pendingPresented, current, decoded, scan} \subseteq Nat
         /\ Queued \subseteq Nat /\ Frames \subseteq Nat
BY QueuedFrames DEF TypeOK, Frames

LEMMA FrameInit == Init => TypeOK /\ FrameInv
<1> SUFFICES ASSUME Init PROVE TypeOK /\ FrameInv
  OBVIOUS
<1>1. <<>> \in Seq(Frames) /\ Len(<<>>) = 0
  BY EmptySeq
<1>2. Queued = {}
  BY <1>1 DEF Init, Queued, Oldest
<1>3. TypeOK
  <2>1. decoded \in 0..MaxDecoded /\ mppOut \in 0..MaxDecoded /\ got \in 0..MaxDecoded
    BY DEF Init
  <2>2. live \subseteq Frames /\ {mjpeg, mppAlive, running, err, stop} \subseteq BOOLEAN
    BY DEF Init
  <2>3. /\ units \in Seq(Frames) /\ Len(units) <= UnitCap
        /\ ready \in Seq(Frames) /\ Len(ready) <= ReadyCap
    BY <1>1 DEF Init
  <2>4. /\ framePc \in {"get", "check", "done"}
        /\ presPc \in {"poll", "empty", "wait", "present", "mark", "failed", "done"}
        /\ mainPc \in {"loop", "joining", "released", "destroyed", "returned"}
    BY DEF Init
  <2>5. {pendingPresented, current, scan} \subseteq 0..MaxDecoded
    BY DEF Init
  <2> QED BY <2>1, <2>2, <2>3, <2>4, <2>5 DEF TypeOK
<1>4. OrderInv /\ PlaceInv /\ LiveInv
  BY <1>1, <1>2 DEF Init, OrderInv, Newer, Increasing, PlaceInv, LiveInv
<1> QED BY <1>3, <1>4 DEF FrameInv

\* The library and feed_loop.
LEMMA DecodeStep ==
  ASSUME TypeOK, FrameInv, MppDecode \/ QueueUnit \/ FeedFails
  PROVE  TypeOK' /\ FrameInv'
<1> USE DEF FrameInv, mppVars, decVars, frameVars, heldVars
<1>q. Queued' = Queued
  BY DEF MppDecode, QueueUnit, FeedFails, Queued, Oldest
<1>n. /\ {mppOut, got, pendingPresented, current, decoded, scan} \subseteq Nat
      /\ Queued \subseteq Nat
  BY Numbers
<1>1. CASE MppDecode
  <2>1. decoded + 1 \in 1..MaxDecoded
    BY <1>n, <1>1 DEF MppDecode
  <2>2. TypeOK'
    BY <1>1, <2>1 DEF MppDecode, TypeOK, Frames
  <2>3. OrderInv'
    <3>1. Newer(mppOut, {got, pendingPresented, current} \cup Queued)'
      BY <1>1, <1>q, <1>n DEF MppDecode, OrderInv, Newer
    <3>2. ({mppOut, got, pendingPresented, current} \cup Queued \subseteq 0..decoded)'
      BY <1>1, <1>q, <1>n DEF MppDecode, OrderInv
    <3> QED BY <1>1, <1>q, <1>n, <3>1, <3>2 DEF MppDecode, OrderInv, Increasing, Newer
  <2>4. PlaceInv' /\ LiveInv'
    BY <1>1, <1>q, <1>n DEF MppDecode, PlaceInv, LiveInv
  <2> QED BY <2>2, <2>3, <2>4
<1>2. CASE QueueUnit
  <2>1. decoded + 1 \in Frames /\ decoded' = decoded + 1
    BY <1>n, <1>2 DEF QueueUnit, Frames
  <2> DEFINE kept == IF Len(units) >= UnitCap THEN Tail(units) ELSE units
  <2>0. units \in Seq(Frames) /\ Len(units) \in Nat /\ Len(units) <= UnitCap
    BY LenProperties DEF TypeOK
  <2>k. /\ kept \in Seq(Frames) /\ Len(kept) < UnitCap
        /\ \A i \in 1..Len(kept) : \E j \in 1..Len(units) : kept[i] = units[j]
    <3>1. CASE Len(units) >= UnitCap
      <4>1. units # <<>>
        BY <2>0, <3>1, EmptySeq
      <4>2. /\ Tail(units) \in Seq(Frames) /\ Len(Tail(units)) = Len(units) - 1
            /\ \A i \in 1..Len(Tail(units)) : Tail(units)[i] = units[i + 1]
        BY <2>0, <4>1, HeadTailProperties
      <4> QED BY <2>0, <3>1, <4>2
    <3>2. CASE ~(Len(units) >= UnitCap)
      BY <2>0, <3>2
    <3> QED BY <3>1, <3>2
  <2>a. units' = Append(kept, decoded + 1)
    BY <1>2 DEF QueueUnit
  <2> HIDE DEF kept
  <2>b. /\ units' \in Seq(Frames) /\ Len(units') = Len(kept) + 1
        /\ \A i \in 1..Len(kept) : units'[i] = kept[i]
        /\ units'[Len(kept) + 1] = decoded + 1
    BY <2>1, <2>a, <2>k, AppendProperties
  <2>c. Len(kept) \in Nat
    BY <2>k, LenProperties
  <2>2. units' \in Seq(Frames) /\ Len(units') <= UnitCap
    BY <2>b, <2>c, <2>k
  <2>3. \A i \in 1..Len(units') :
           units'[i] = decoded + 1 \/ \E j \in 1..Len(units) : units'[i] = units[j]
    BY <2>b, <2>c, <2>k
  <2>4. TypeOK'
    BY <1>2, <2>1, <2>2 DEF QueueUnit, TypeOK, Frames
  <2>5. OrderInv'
    <3>1. UNCHANGED <<ready, pendingPresented, current, got, mppOut, mjpeg>> /\ mjpeg
      BY <1>2 DEF QueueUnit
    <3>2. ASSUME NEW i \in 1..Len(units')
          PROVE  units'[i] <= decoded + 1 /\ Newer(units'[i], {got, pendingPresented, current} \cup Queued)
      <4>1. CASE units'[i] = decoded + 1
        BY <1>n, <4>1 DEF OrderInv, Newer
      <4>2. CASE units'[i] # decoded + 1
        <5>1. PICK j \in 1..Len(units) : units'[i] = units[j]
          BY <2>3, <4>2
        <5>2. units[j] \in Nat
          BY <1>n, <2>0, ElementOfSeq, Numbers
        <5>3. /\ units[j] <= decoded
              /\ Newer(units[j], {got, pendingPresented, current} \cup Queued)
          BY Zenon DEF OrderInv
        <5>4. units[j] <= decoded + 1
          <6>1. decoded \in Nat /\ units[j] <= decoded
            BY <1>n, <5>3, Zenon
          <6> DEFINE u == units[j]
          <6>2. u \in Nat /\ u <= decoded
            BY <5>2, <6>1
          <6> HIDE DEF u
          <6>3. u <= decoded + 1
            BY <6>1, <6>2
          <6> QED BY <6>3 DEF u
        <5> QED BY <5>1, <5>3, <5>4, Zenon
      <4> QED BY <4>1, <4>2
    <3>3. /\ Increasing(ready)'
          /\ (\A n \in Queued : Newer(n, {pendingPresented, current}))'
          /\ Newer(pendingPresented, {current})'
          /\ Newer(got, {pendingPresented, current} \cup Queued)'
          /\ Newer(mppOut, {got, pendingPresented, current} \cup Queued)'
      BY <1>q, <3>1, Zenon DEF OrderInv, Increasing, Newer
    <3>4. ({mppOut, got, pendingPresented, current} \cup Queued \subseteq 0..decoded)'
      BY <1>n, <1>q, <2>1, <3>1 DEF OrderInv
    <3>5. (mjpeg => mppOut = None)' /\ (~mjpeg => units = <<>>)'
      BY <3>1 DEF OrderInv
    <3>6. (\A i \in 1..Len(units) :
              units[i] <= decoded /\ Newer(units[i], {got, pendingPresented, current} \cup Queued))'
      BY <1>q, <2>1, <3>1, <3>2, Zenon DEF Newer
    <3> QED BY <3>3, <3>4, <3>5, <3>6 DEF OrderInv
  <2>6. PlaceInv' /\ LiveInv'
    BY <1>2, <1>q DEF QueueUnit, PlaceInv, LiveInv
  <2> QED BY <2>4, <2>5, <2>6
<1>3. CASE FeedFails
  <2>1. /\ UNCHANGED <<mppVars, frameVars, ready, presPc, heldVars, scan, mainPc, stop>>
        /\ err' = TRUE /\ running' = FALSE
    BY <1>3 DEF FeedFails, ReportError
  <2>2. TypeOK'
    BY <2>1 DEF TypeOK
  <2>3. OrderInv'
    BY <1>q, <2>1, Zenon DEF OrderInv, Increasing, Newer, mppVars, frameVars, heldVars
  <2>4. PlaceInv'
    BY <1>q, <2>1 DEF PlaceInv
  <2>5. LiveInv'
    BY <1>q, <2>1 DEF LiveInv
  <2> QED BY <2>2, <2>3, <2>4, <2>5
<1> QED BY <1>1, <1>2, <1>3

\* The owners of the frames hold different ones.
LEMMA Apart ==
  ASSUME TypeOK, FrameInv
  PROVE  /\ {got, mppOut, pendingPresented, current} \cap Queued = {}
         /\ got # None => got \notin {mppOut, pendingPresented, current}
         /\ mppOut # None => mppOut \notin {pendingPresented, current}
         /\ pendingPresented # None => pendingPresented # current
<1>n. /\ {mppOut, got, pendingPresented, current} \subseteq Nat
      /\ Queued \subseteq Frames
  BY Numbers, QueuedFrames
<1>1. ASSUME NEW f \in Queued PROVE f \notin {got, mppOut, pendingPresented, current}
  BY <1>n DEF FrameInv, OrderInv, Newer, Frames
<1>2. {got, mppOut, pendingPresented, current} \cap Queued = {}
  BY <1>1
<1>3. /\ got # None => pendingPresented < got /\ current < got
      /\ mppOut # None => got < mppOut /\ pendingPresented < mppOut /\ current < mppOut
      /\ pendingPresented # None => current < pendingPresented
  BY DEF FrameInv, OrderInv, Newer
<1>4. got # None => got \notin {mppOut, pendingPresented, current}
  BY <1>n, <1>3
<1>5. /\ mppOut # None => mppOut \notin {pendingPresented, current}
      /\ pendingPresented # None => pendingPresented # current
  BY <1>n, <1>3
<1> QED BY <1>2, <1>4, <1>5

\* The queue after its n oldest frames went.
LEMMA WithoutOldest ==
  ASSUME TypeOK, FrameInv, NEW n \in 0..Len(ready)
  PROVE  /\ Without(n) \in Seq(Frames) /\ Len(Without(n)) = Len(ready) - n
         /\ \A i \in 1..Len(Without(n)) : Without(n)[i] = ready[n + i]
         /\ Increasing(Without(n))
         /\ Elements(Without(n)) = Queued \ Oldest(n)
         /\ Oldest(n) \subseteq Queued
<1>1. ready \in Seq(Frames) /\ Increasing(ready)
  BY DEF TypeOK, FrameInv, OrderInv
<1>2. Oldest(n) \subseteq Queued
  BY <1>1, LenProperties DEF Queued, Oldest
<1>3. Oldest(n) = OldestOf(ready, n) /\ Without(n) = Behind(ready, n)
  BY DEF Oldest, OldestOf, Without, Behind
<1>4. /\ Behind(ready, n) \in Seq(Frames) /\ Len(Behind(ready, n)) = Len(ready) - n
      /\ \A i \in 1..Len(Behind(ready, n)) : Behind(ready, n)[i] = ready[n + i]
      /\ Increasing(Behind(ready, n))
      /\ Elements(Behind(ready, n)) = Elements(ready) \ OldestOf(ready, n)
  BY <1>1, DropOldest
<1> QED BY <1>2, <1>3, <1>4, QueuedElements

\* frame_loop puts a frame at the end of the queue.
LEMMA EnqueueStep ==
  ASSUME TypeOK, FrameInv, Enqueue
  PROVE  TypeOK' /\ FrameInv'
<1>1. /\ framePc = "check" /\ framePc' = "get" /\ got' = None
      /\ live' = live \ Oldest(Overflow)
      /\ ready' = Append(Without(Overflow), got)
      /\ UNCHANGED <<mjpeg, units, decoded, mppOut, mppAlive, running, err, presPc,
                     pendingPresented, current, scan, mainPc, stop>>
  BY DEF Enqueue, Release, Enqueued, decVars, heldVars
<1>2. Len(ready) \in Nat /\ Len(ready) <= ReadyCap
  BY LenProperties DEF TypeOK
<1>3. Overflow \in 0..Len(ready) /\ Len(ready) - Overflow + 1 <= ReadyCap
  BY <1>2 DEF Overflow
<1>n. /\ {mppOut, got, pendingPresented, current, decoded} \subseteq Nat
      /\ Queued \subseteq Frames /\ Frames \subseteq Nat
  BY Numbers, QueuedFrames
<1>g. got \in Frames
  BY <1>1, <1>n DEF FrameInv, PlaceInv, TypeOK, Frames
<1>4. \A f \in Queued : f < got
  BY <1>g DEF FrameInv, OrderInv, Newer, Frames
<1>5. /\ ready' \in Seq(Frames) /\ Len(ready') = Len(ready) - Overflow + 1
      /\ Increasing(ready')
      /\ Elements(ready') = (Queued \ Oldest(Overflow)) \cup {got}
      /\ Oldest(Overflow) \subseteq Queued
  BY <1>1, <1>3, <1>4, <1>g, WithoutOldest, AppendNewest
<1>6. Queued' = (Queued \ Oldest(Overflow)) \cup {got}
  BY <1>5 DEF Queued, Oldest, Elements
<1>7. TypeOK'
  <2>1. live' \subseteq Frames
    BY <1>1 DEF TypeOK
  <2>2. ready' \in Seq(Frames) /\ Len(ready') <= ReadyCap
    BY <1>3, <1>5
  <2> QED BY <1>1, <2>1, <2>2 DEF TypeOK
<1>8. OrderInv'
  <2>1. \A n \in Queued' : Newer(n, {pendingPresented, current})
    BY <1>6 DEF FrameInv, OrderInv, Newer
  <2>2. Newer(mppOut, {0, pendingPresented, current} \cup Queued')
    BY <1>6, <1>n DEF FrameInv, OrderInv, Newer
  <2>3. {mppOut, 0, pendingPresented, current} \cup Queued' \subseteq 0..decoded
    BY <1>6, <1>n DEF FrameInv, OrderInv
  <2>4. ASSUME NEW i \in 1..Len(units)
        PROVE  units[i] <= decoded /\ Newer(units[i], {0, pendingPresented, current} \cup Queued')
    <3>1. units[i] \in Frames
      BY ElementOfSeq DEF TypeOK
    <3> QED BY <3>1, <1>6 DEF FrameInv, OrderInv, Newer, Frames
  <2> QED BY <1>1, <1>5, <2>1, <2>2, <2>3, <2>4 DEF FrameInv, OrderInv, Newer
<1>9. LiveInv'
  <2>1. {got, mppOut, pendingPresented, current} \cap Queued = {}
    BY Apart
  <2>2. live = ({mppOut, got, pendingPresented, current} \cup Queued) \ {0}
    BY DEF FrameInv, LiveInv
  <2>3. 0 \notin Queued /\ got # 0
    BY <1>n, <1>g DEF Frames
  <2> QED BY <1>1, <1>5, <1>6, <2>1, <2>2, <2>3 DEF LiveInv
<1>10. PlaceInv'
  <2>1. mainPc \in {"loop", "joining"}
    BY <1>1 DEF FrameInv, PlaceInv, TypeOK
  <2> QED BY <1>1, <2>1 DEF FrameInv, PlaceInv
<1> QED BY <1>7, <1>8, <1>9, <1>10 DEF FrameInv

\* frame_loop and mjpeg_task_loop.
LEMMA FrameLoopStep ==
  ASSUME TypeOK, FrameInv, FrameLoop
  PROVE  TypeOK' /\ FrameInv'
<1> USE DEF mppVars, decVars, frameVars, heldVars
<1>n. /\ {mppOut, got, pendingPresented, current, decoded} \subseteq Nat
      /\ Queued \subseteq Frames /\ Frames \subseteq Nat
  BY Numbers, QueuedFrames
<1>0. 0 \notin Queued
  BY <1>n DEF Frames
<1>a. /\ {got, mppOut, pendingPresented, current} \cap Queued = {}
      /\ got # None => got \notin {mppOut, pendingPresented, current}
  BY Apart
<1>1. CASE GetFrame
  <2>q. Queued' = Queued
    BY <1>1 DEF GetFrame, Queued, Oldest
  <2>1. TypeOK'
    BY <1>1 DEF GetFrame, TypeOK
  <2>g. got = None
    BY <1>1 DEF GetFrame, FrameInv, PlaceInv
  <2>u. units = <<>> /\ Len(units) = 0
    BY <1>1, EmptySeq DEF GetFrame, FrameInv, OrderInv
  <2>2. OrderInv'
    BY <1>1, <1>n, <2>q, <2>g, <2>u DEF GetFrame, FrameInv, OrderInv, Newer, Increasing
  <2>3. PlaceInv' /\ LiveInv'
    BY <1>1, <2>q, <2>g DEF GetFrame, FrameInv, PlaceInv, LiveInv
  <2> QED BY <2>1, <2>2, <2>3 DEF FrameInv
<1>2. CASE TakeUnit
  <2>1. /\ mjpeg /\ framePc = "get" /\ framePc' = "check" /\ units # <<>>
        /\ got' = units[Len(units)] /\ units' = <<>> /\ live' = live \cup {got'}
        /\ UNCHANGED <<mjpeg, decoded, mppOut, mppAlive, running, err, ready, presPc,
                       pendingPresented, current, scan, mainPc, stop>>
    BY <1>2 DEF TakeUnit, ChosenUnit
  <2>2. Len(units) \in 1..Len(units) /\ units[Len(units)] \in Frames
    <3>1. units \in Seq(Frames) /\ Len(units) \in Nat /\ Len(units) # 0
      BY <2>1, EmptySeq, LenProperties DEF TypeOK
    <3> QED BY <3>1, ElementOfSeq
  <2>q. Queued' = Queued
    BY <2>1 DEF Queued, Oldest
  <2>g. got = None /\ mppOut = None
    BY <2>1 DEF FrameInv, PlaceInv, OrderInv
  <2>o. got' <= decoded /\ Newer(got', {pendingPresented, current} \cup Queued)
    BY <2>1, <2>2 DEF FrameInv, OrderInv, Newer
  <2>e. <<>> \in Seq(Frames) /\ Len(<<>>) = 0
    BY EmptySeq
  <2>3. TypeOK'
    <3>0. got' \in Frames
      BY <2>1, <2>2
    <3>a. got' \in 0..MaxDecoded
      BY <3>0 DEF Frames
    <3>1. got' \in 0..MaxDecoded /\ live' \subseteq Frames
      BY <2>1, <3>0, <3>a DEF TypeOK
    <3>2. units' \in Seq(Frames) /\ Len(units') <= UnitCap
      BY <2>1, <2>e
    <3> QED BY <2>1, <3>1, <3>2 DEF TypeOK
  <2>4. OrderInv'
    <3>1. got' \in 0..decoded
      BY <2>1, <2>2, <2>o, <1>n DEF Frames
    <3> QED BY <2>1, <2>q, <2>g, <2>o, <2>e, <3>1, <1>n DEF FrameInv, OrderInv, Newer, Increasing
  <2>5. PlaceInv' /\ LiveInv'
    <3>1. got' # 0
      BY <2>1, <2>2 DEF Frames
    <3> QED BY <2>1, <2>q, <2>g, <3>1 DEF FrameInv, PlaceInv, LiveInv
  <2> QED BY <2>3, <2>4, <2>5 DEF FrameInv
<1>3. CASE SkipFrame \/ ConfigureFails
  <2>1. /\ framePc = "check" /\ framePc' \in {"get", "done"}
        /\ got' = None /\ live' = live \ {got}
        /\ UNCHANGED <<mjpeg, units, decoded, mppOut, mppAlive, ready, presPc,
                       pendingPresented, current, scan, mainPc, stop>>
        /\ running' \in {running, FALSE} /\ err' \in {err, TRUE}
    BY <1>3 DEF SkipFrame, ConfigureFails, Release
  <2>q. Queued' = Queued
    BY <2>1 DEF Queued, Oldest
  <2>2. TypeOK'
    <3>1. /\ live' \subseteq Frames /\ got' \in 0..MaxDecoded
          /\ framePc' \in {"get", "check", "done"}
      BY <2>1 DEF TypeOK
    <3>2. {mjpeg, mppAlive, running, err, stop}' \subseteq BOOLEAN
      BY <1>3 DEF SkipFrame, ConfigureFails, TypeOK
    <3> QED BY <2>1, <3>1, <3>2 DEF TypeOK
  <2>3. OrderInv'
    <3>1. Newer(mppOut, {0, pendingPresented, current} \cup Queued)
      BY <1>n DEF FrameInv, OrderInv, Newer
    <3>2. {mppOut, 0, pendingPresented, current} \cup Queued \subseteq 0..decoded
      BY <1>n DEF FrameInv, OrderInv
    <3>3. ASSUME NEW i \in 1..Len(units)
          PROVE  units[i] <= decoded /\ Newer(units[i], {0, pendingPresented, current} \cup Queued)
      <4>1. units[i] \in Frames
        BY ElementOfSeq DEF TypeOK
      <4> QED BY <4>1, <1>n DEF FrameInv, OrderInv, Newer, Frames
    <3> QED BY <2>1, <2>q, <3>1, <3>2, <3>3 DEF FrameInv, OrderInv, Newer, Increasing
  <2>4. PlaceInv'
    BY <2>1 DEF FrameInv, PlaceInv, TypeOK
  <2>5. LiveInv'
    BY <2>1, <2>q, <1>a DEF FrameInv, PlaceInv, LiveInv
  <2> QED BY <2>2, <2>3, <2>4, <2>5 DEF FrameInv
<1>4. CASE Enqueue
  BY <1>4, EnqueueStep
<1>5. CASE FrameLoopEnds
  <2>q. Queued' = Queued
    BY <1>5 DEF FrameLoopEnds, Queued, Oldest
  <2> QED BY <1>5, <2>q DEF FrameLoopEnds, TypeOK, FrameInv, OrderInv, PlaceInv, LiveInv, Increasing, Newer
<1> QED BY <1>1, <1>2, <1>3, <1>4, <1>5 DEF FrameLoop

\* The frame poll takes, the newest but Backlog - 1, and the queue behind it.
LEMMA PollTakes ==
  ASSUME TypeOK, FrameInv, HasFrame
  PROVE  /\ Stale \in 0..Len(ready) /\ Stale + 1 \in 0..Len(ready)
         /\ ready[Stale + 1] \in Queued
         /\ Oldest(Stale + 1) = Oldest(Stale) \cup {ready[Stale + 1]}
         /\ ready[Stale + 1] \notin Oldest(Stale)
         /\ \A n \in Queued \ Oldest(Stale + 1) : ready[Stale + 1] < n
         /\ Len(ready) - (Stale + 1) < Backlog
<1>1. /\ ready \in Seq(Frames) /\ Len(ready) \in Nat /\ Len(ready) # 0
      /\ Increasing(ready)
  BY EmptySeq, LenProperties DEF TypeOK, HasFrame, FrameInv, OrderInv
<1>2. /\ Stale \in 0..Len(ready) /\ Stale + 1 \in 1..Len(ready)
      /\ Len(ready) - (Stale + 1) < Backlog
  BY <1>1 DEF Stale
<1>3. ready[Stale + 1] \in Queued
  BY <1>2 DEF Queued, Oldest
<1>4. Oldest(Stale + 1) = Oldest(Stale) \cup {ready[Stale + 1]}
  <2>1. 1..(Stale + 1) = 1..Stale \cup {Stale + 1}
    BY <1>1, <1>2
  <2> QED BY <2>1 DEF Oldest
<1>5. ready[Stale + 1] \notin Oldest(Stale)
  <2>1. ASSUME NEW i \in 1..Stale PROVE ready[i] # ready[Stale + 1]
    <3>1. i \in 1..Len(ready) /\ i < Stale + 1
      BY <1>1, <1>2
    <3>2. ready[i] < ready[Stale + 1]
      BY <1>1, <1>2, <3>1 DEF Increasing
    <3>3. ready[i] \in Frames /\ ready[Stale + 1] \in Frames
      BY <1>1, <1>2, <3>1, ElementOfSeq
    <3> QED BY <3>2, <3>3 DEF Frames
  <2> QED BY <2>1 DEF Oldest
<1>6. ASSUME NEW n \in Queued \ Oldest(Stale + 1) PROVE ready[Stale + 1] < n
  <2>1. PICK i \in 1..Len(ready) : n = ready[i]
    BY DEF Queued, Oldest
  <2>2. i \notin 1..(Stale + 1)
    BY <2>1 DEF Oldest
  <2>3. Stale + 1 < i
    BY <1>1, <1>2, <2>1, <2>2
  <2> QED BY <1>1, <1>2, <2>1, <2>3 DEF Increasing
<1>7. Stale + 1 \in 0..Len(ready)
  BY <1>1, <1>2
<1> QED BY <1>2, <1>3, <1>4, <1>5, <1>6, <1>7

\* poll, with the frame it takes or with the frame it rejects.
LEMMA PollStep ==
  ASSUME TypeOK, FrameInv, Poll \/ PollRejects
  PROVE  TypeOK' /\ FrameInv'
<1>1. /\ HasFrame /\ presPc = "poll" /\ ~stop
      /\ ready' = Without(Stale + 1)
      /\ UNCHANGED <<mjpeg, units, framePc, got, decoded, mppOut, mppAlive, running, current,
                     scan, mainPc, stop>>
  BY DEF Poll, PollRejects, frameVars, decVars
<1>n. /\ {mppOut, got, pendingPresented, current, decoded} \subseteq Nat
      /\ Queued \subseteq Frames /\ Frames \subseteq Nat
  BY Numbers, QueuedFrames
<1> DEFINE f == ready[Stale + 1]
<1>2. /\ f \in Queued
      /\ Oldest(Stale + 1) = Oldest(Stale) \cup {f}
      /\ f \notin Oldest(Stale)
      /\ \A n \in Queued \ Oldest(Stale + 1) : f < n
      /\ Stale \in 0..Len(ready) /\ Stale + 1 \in 0..Len(ready)
  BY <1>1, PollTakes
<1>3. /\ ready' \in Seq(Frames) /\ Len(ready') = Len(ready) - (Stale + 1)
      /\ Increasing(ready')
      /\ Elements(ready') = Queued \ Oldest(Stale + 1)
      /\ Oldest(Stale + 1) \subseteq Queued
  BY <1>1, <1>2, WithoutOldest
<1>4. Queued' = Queued \ Oldest(Stale + 1)
  BY <1>3 DEF Queued, Oldest, Elements
<1>f. f \in Frames /\ f # 0 /\ f \in Nat
  <2>1. f \in Frames
    BY <1>2, <1>n
  <2> HIDE DEF f
  <2> QED BY <2>1 DEF Frames
<1>p. \/ Poll /\ pendingPresented' = f /\ presPc' = "present" /\ UNCHANGED err
            /\ live' = live \ (Oldest(Stale) \cup {pendingPresented})
      \/ PollRejects /\ pendingPresented' = None /\ presPc' = "failed" /\ err' = TRUE
            /\ live' = live \ (Oldest(Stale + 1) \cup {pendingPresented})
  BY DEF Poll, PollRejects, Release, PollReleases, decVars
<1>5. pendingPresented' \in {0, f}
  BY <1>p
<1> HIDE DEF f
<1>6. TypeOK'
  <2>1. live' \subseteq Frames
    BY <1>p DEF TypeOK
  <2>2. ready' \in Seq(Frames) /\ Len(ready') <= ReadyCap
    BY <1>2, <1>3, LenProperties DEF TypeOK
  <2>3. pendingPresented' \in 0..MaxDecoded
    BY <1>5, <1>f DEF Frames
  <2>4. {mjpeg, mppAlive, running, err, stop}' \subseteq BOOLEAN
    BY <1>1, <1>p DEF TypeOK
  <2>5. presPc' \in {"poll", "empty", "wait", "present", "mark", "failed", "done"}
    BY <1>p
  <2> QED BY <1>1, <2>1, <2>2, <2>3, <2>4, <2>5 DEF TypeOK
<1>7. OrderInv'
  <2>1. \A n \in Queued' : Newer(n, {pendingPresented', current})
    BY <1>2, <1>4, <1>5, <1>n DEF FrameInv, OrderInv, Newer, Frames
  <2>2. Newer(pendingPresented', {current})
    BY <1>2, <1>5, <1>f DEF FrameInv, OrderInv, Newer
  <2>3. ASSUME NEW n \in Nat, Newer(n, {pendingPresented, current} \cup Queued)
        PROVE  Newer(n, {pendingPresented', current} \cup Queued')
    <3>1. {pendingPresented', current} \cup Queued' \subseteq {current, 0} \cup Queued
      BY <1>2, <1>4, <1>5
    <3> QED BY <2>3, <3>1 DEF Newer
  <2>4. /\ Newer(got, {pendingPresented', current} \cup Queued')
        /\ Newer(mppOut, {got, pendingPresented', current} \cup Queued')
    <3>1. Newer(got, {pendingPresented', current} \cup Queued')
      BY <1>n, <2>3 DEF FrameInv, OrderInv
    <3>2. Newer(mppOut, {pendingPresented', current} \cup Queued')
      BY <1>n, <2>3 DEF FrameInv, OrderInv, Newer
    <3> QED BY <3>1, <3>2 DEF FrameInv, OrderInv, Newer
  <2>5. {mppOut, got, pendingPresented', current} \cup Queued' \subseteq 0..decoded
    BY <1>2, <1>4, <1>5, <1>n DEF FrameInv, OrderInv
  <2>6. ASSUME NEW i \in 1..Len(units)
        PROVE  units[i] <= decoded /\ Newer(units[i], {got, pendingPresented', current} \cup Queued')
    <3>1. units[i] \in Nat
      BY <1>n, ElementOfSeq DEF TypeOK
    <3>2. units[i] <= decoded /\ Newer(units[i], {got, pendingPresented, current} \cup Queued)
      BY DEF FrameInv, OrderInv
    <3>3. Newer(units[i], {pendingPresented', current} \cup Queued')
      BY <2>3, <3>1, <3>2 DEF Newer
    <3> QED BY <3>2, <3>3 DEF Newer
  <2> QED
    BY <1>1, <1>3, <2>1, <2>2, <2>4, <2>5, <2>6 DEF FrameInv, OrderInv
<1>8. PlaceInv'
  <2>1. mainPc = "loop" /\ scan = current
    BY <1>1 DEF FrameInv, PlaceInv
  <2> QED BY <1>1, <1>p, <1>f, <2>1 DEF FrameInv, PlaceInv
<1>9. LiveInv'
  <2>1. /\ {got, mppOut, pendingPresented, current} \cap Queued = {}
        /\ got # None => got \notin {mppOut, pendingPresented, current}
        /\ mppOut # None => mppOut \notin {pendingPresented, current}
        /\ pendingPresented # None => pendingPresented # current
    BY Apart
  <2>2. live = ({mppOut, got, pendingPresented, current} \cup Queued) \ {0}
    BY DEF FrameInv, LiveInv
  <2>3. Oldest(Stale) \subseteq Queued /\ Oldest(Stale + 1) \subseteq Queued /\ 0 \notin Queued
    <3>1. 0 \notin Frames
      BY DEF Frames
    <3> QED BY <1>2, <1>3, <1>n, <3>1
  <2>4. CASE Poll
    <3>1. /\ live' = live \ (Oldest(Stale) \cup {pendingPresented})
          /\ pendingPresented' = f
      BY <1>p, <2>4, <1>f, <1>1 DEF Poll, PollRejects
    <3>2. live' = ({mppOut, got, f, current} \cup (Queued \ Oldest(Stale + 1))) \ {0}
      BY <1>2, <1>f, <2>1, <2>2, <2>3, <3>1
    <3> QED BY <1>1, <1>4, <3>1, <3>2 DEF LiveInv
  <2>5. CASE PollRejects
    <3>1. /\ live' = live \ (Oldest(Stale + 1) \cup {pendingPresented})
          /\ pendingPresented' = 0
      BY <2>5 DEF PollRejects, Release
    <3>2. live' = ({mppOut, got, 0, current} \cup (Queued \ Oldest(Stale + 1))) \ {0}
      BY <2>1, <2>2, <2>3, <3>1
    <3> QED BY <1>1, <1>4, <3>1, <3>2 DEF LiveInv
  <2> QED BY <2>4, <2>5
<1> QED BY <1>6, <1>7, <1>8, <1>9 DEF FrameInv

\* The presenter thread.
LEMMA PresenterStep ==
  ASSUME TypeOK, FrameInv, Presenter
  PROVE  TypeOK' /\ FrameInv'
<1> USE DEF mppVars, decVars, frameVars, heldVars
<1>n. /\ {mppOut, got, pendingPresented, current, decoded} \subseteq Nat
      /\ Queued \subseteq Frames /\ Frames \subseteq Nat
  BY Numbers, QueuedFrames
<1>1. CASE PollEmpty \/ WaitForFrame \/ OverlayPresented \/ GiveUp \/ PresenterEnds
  <2>1. /\ presPc' \in {"empty", "wait", "poll", "done"} /\ stop' \in {stop, TRUE}
        /\ presPc \notin {"mark", "done"}
        /\ UNCHANGED <<mppVars, decVars, frameVars, ready, heldVars, scan, mainPc>>
    BY <1>1 DEF PollEmpty, WaitForFrame, OverlayPresented, GiveUp, PresenterEnds
  <2>q. Queued' = Queued
    BY <2>1 DEF Queued, Oldest
  <2>2. TypeOK'
    <3>1. {mjpeg, mppAlive, running, err, stop}' \subseteq BOOLEAN
      BY <2>1 DEF TypeOK
    <3> QED BY <2>1, <3>1 DEF TypeOK
  <2>3. OrderInv' /\ LiveInv'
    BY <2>1, <2>q DEF FrameInv, OrderInv, LiveInv, Increasing, Newer
  <2>4. PlaceInv'
    BY <2>1 DEF FrameInv, PlaceInv
  <2> QED BY <2>2, <2>3, <2>4 DEF FrameInv
<1>2. CASE Poll \/ PollRejects
  BY <1>2, PollStep
<1>3. CASE Present
  <2>1. /\ presPc = "present" /\ presPc' = "mark" /\ scan' = pendingPresented
        /\ UNCHANGED <<mppVars, decVars, frameVars, ready, heldVars, mainPc, stop>>
    BY <1>3 DEF Present
  <2>q. Queued' = Queued
    BY <2>1 DEF Queued, Oldest
  <2>2. TypeOK'
    BY <2>1 DEF TypeOK
  <2>3. OrderInv' /\ LiveInv'
    BY <2>1, <2>q DEF FrameInv, OrderInv, LiveInv, Increasing, Newer
  <2>4. PlaceInv'
    BY <2>1 DEF FrameInv, PlaceInv
  <2> QED BY <2>2, <2>3, <2>4 DEF FrameInv
<1>4. CASE MarkPresented
  <2>1. /\ presPc = "mark" /\ presPc' = "poll" /\ live' = live \ {current}
        /\ current' = pendingPresented /\ pendingPresented' = 0
        /\ UNCHANGED <<decoded, mppOut, mppAlive, decVars, frameVars, ready, scan, mainPc, stop>>
    BY <1>4 DEF MarkPresented, Release
  <2>q. Queued' = Queued
    BY <2>1 DEF Queued, Oldest
  <2>p. pendingPresented # 0 /\ mainPc = "loop" /\ scan = pendingPresented
    BY <2>1 DEF FrameInv, PlaceInv
  <2>2. TypeOK'
    <3>1. live' \subseteq Frames /\ {pendingPresented, current, scan}' \subseteq 0..MaxDecoded
      BY <2>1 DEF TypeOK
    <3> QED BY <2>1, <3>1 DEF TypeOK
  <2>3. OrderInv'
    <3>2. \A n \in Queued : Newer(n, {0, pendingPresented})
      BY <1>n DEF FrameInv, OrderInv, Newer, Frames
    <3>3. Newer(got, {0, pendingPresented} \cup Queued)
      BY <1>n DEF FrameInv, OrderInv, Newer
    <3>4. Newer(mppOut, {got, 0, pendingPresented} \cup Queued)
      BY <1>n DEF FrameInv, OrderInv, Newer
    <3>5. {mppOut, got, 0, pendingPresented} \cup Queued \subseteq 0..decoded
      BY <1>n DEF FrameInv, OrderInv
    <3>6. ASSUME NEW i \in 1..Len(units)
          PROVE  units[i] <= decoded /\ Newer(units[i], {got, 0, pendingPresented} \cup Queued)
      <4>1. units[i] \in Nat
        BY <1>n, ElementOfSeq DEF TypeOK
      <4> QED BY <4>1 DEF FrameInv, OrderInv, Newer
    <3> QED
      BY <2>1, <2>q, <3>2, <3>3, <3>4, <3>5, <3>6 DEF FrameInv, OrderInv, Newer, Increasing
  <2>4. PlaceInv'
    BY <2>1, <2>p DEF FrameInv, PlaceInv
  <2>5. LiveInv'
    <3>1. /\ {got, mppOut, pendingPresented, current} \cap Queued = {}
          /\ got # None => got # current
          /\ mppOut # None => mppOut # current
          /\ pendingPresented # current
      BY <2>p, Apart
    <3> QED BY <2>1, <2>q, <3>1 DEF FrameInv, LiveInv
  <2> QED BY <2>2, <2>3, <2>4, <2>5 DEF FrameInv
<1> QED BY <1>1, <1>2, <1>3, <1>4 DEF Presenter

\* The main thread, and the destructors.
LEMMA MainStep ==
  ASSUME TypeOK, FrameInv, RequestStop \/ Main \/ UNCHANGED vars
  PROVE  TypeOK' /\ FrameInv'
<1> USE DEF mppVars, decVars, frameVars, heldVars
<1>n. /\ {mppOut, got, pendingPresented, current, decoded} \subseteq Nat
      /\ Queued \subseteq Frames /\ Frames \subseteq Nat
  BY Numbers, QueuedFrames
<1>e. <<>> \in Seq(Frames) /\ Len(<<>>) = 0
  BY EmptySeq
<1>1. CASE RequestStop \/ StopDecoder \/ DestroyCompositor \/ UNCHANGED vars
  <2>1. /\ UNCHANGED <<mppVars, frameVars, ready, presPc, heldVars>>
        /\ running' \in {running, FALSE} /\ err' = err /\ stop' \in {stop, TRUE}
        /\ scan' \in {scan, None}
        /\ \/ mainPc' = mainPc /\ scan' = scan
           \/ mainPc = "loop" /\ mainPc' = "joining" /\ presPc = "done" /\ scan' = scan
           \/ mainPc = "destroyed" /\ mainPc' = "returned"
    BY <1>1 DEF RequestStop, StopDecoder, DestroyCompositor, vars
  <2>q. Queued' = Queued
    BY <2>1 DEF Queued, Oldest
  <2>2. TypeOK'
    <3>1. {mjpeg, mppAlive, running, err, stop}' \subseteq BOOLEAN
      BY <2>1 DEF TypeOK
    <3>2. {pendingPresented, current, scan}' \subseteq 0..MaxDecoded
      BY <2>1 DEF TypeOK
    <3> QED BY <2>1, <3>1, <3>2 DEF TypeOK
  <2>3. OrderInv' /\ LiveInv'
    BY <2>1, <2>q DEF FrameInv, OrderInv, LiveInv, Increasing, Newer
  <2>4. PlaceInv'
    BY <2>1 DEF FrameInv, PlaceInv
  <2> QED BY <2>2, <2>3, <2>4 DEF FrameInv
<1>2. CASE ReleaseAll
  <2>1. /\ mainPc = "joining" /\ mainPc' = "released" /\ framePc = "done"
        /\ live' = live \ ({pendingPresented, current} \cup Queued)
        /\ ready' = <<>> /\ pendingPresented' = 0 /\ current' = 0
        /\ UNCHANGED <<decoded, mppOut, mppAlive, decVars, frameVars, presPc, scan, stop>>
    BY <1>2 DEF ReleaseAll, Release, Queued
  <2>q. Queued' = {}
    BY <2>1, <1>e DEF Queued, Oldest
  <2>g. got = 0 /\ presPc = "done"
    BY <2>1 DEF FrameInv, PlaceInv
  <2>2. TypeOK'
    <3>1. live' \subseteq Frames /\ {pendingPresented, current, scan}' \subseteq 0..MaxDecoded
      BY <2>1 DEF TypeOK
    <3>2. ready' \in Seq(Frames) /\ Len(ready') <= ReadyCap
      BY <2>1, <1>e
    <3> QED BY <2>1, <3>1, <3>2 DEF TypeOK
  <2>3. OrderInv'
    <3>1. ASSUME NEW i \in 1..Len(units)
          PROVE  units[i] <= decoded /\ Newer(units[i], {0})
      <4>1. units[i] \in Nat
        BY <1>n, ElementOfSeq DEF TypeOK
      <4> QED BY <4>1 DEF FrameInv, OrderInv, Newer
    <3>2. Newer(mppOut, {0}) /\ {mppOut, 0} \subseteq 0..decoded
      BY <1>n DEF FrameInv, OrderInv, Newer
    <3>3. Increasing(ready')
      BY <2>1, <1>e DEF Increasing
    <3> QED BY <2>1, <2>q, <2>g, <3>1, <3>2, <3>3 DEF FrameInv, OrderInv, Newer
  <2>4. PlaceInv'
    BY <2>1, <2>g DEF FrameInv, PlaceInv
  <2>5. LiveInv'
    BY <2>1, <2>q, <2>g, Apart DEF FrameInv, LiveInv
  <2> QED BY <2>2, <2>3, <2>4, <2>5 DEF FrameInv
<1>3. CASE DestroyMpp
  <2>1. /\ mainPc = "released" /\ mainPc' = "destroyed"
        /\ live' = live \ {mppOut} /\ mppOut' = 0 /\ mppAlive' = FALSE
        /\ UNCHANGED <<decoded, decVars, frameVars, ready, presPc, heldVars, scan, stop>>
    BY <1>3 DEF DestroyMpp
  <2>q. Queued' = Queued
    BY <2>1 DEF Queued, Oldest
  <2>g. framePc = "done" /\ ready = <<>> /\ pendingPresented = 0 /\ current = 0 /\ got = 0
    BY <2>1 DEF FrameInv, PlaceInv
  <2>2. TypeOK'
    <3>1. live' \subseteq Frames /\ mppOut' \in 0..MaxDecoded
      BY <2>1 DEF TypeOK
    <3>2. {mjpeg, mppAlive, running, err, stop}' \subseteq BOOLEAN
      BY <2>1 DEF TypeOK
    <3> QED BY <2>1, <3>1, <3>2 DEF TypeOK
  <2>3. OrderInv'
    BY <2>1, <2>q, <1>n DEF FrameInv, OrderInv, Newer, Increasing
  <2>4. PlaceInv' /\ LiveInv'
    BY <2>1, <2>q, <2>g, Apart DEF FrameInv, PlaceInv, LiveInv
  <2> QED BY <2>2, <2>3, <2>4 DEF FrameInv
<1> QED BY <1>1, <1>2, <1>3 DEF Main

LEMMA FrameStep == TypeOK /\ FrameInv /\ [Next]_vars => TypeOK' /\ FrameInv'
BY DecodeStep, FrameLoopStep, PresenterStep, MainStep DEF Next, Returned

LEMMA FrameInvariant == Spec => [](TypeOK /\ FrameInv)
<1>1. Init => TypeOK /\ FrameInv
  BY FrameInit
<1>2. TypeOK /\ FrameInv /\ [Next]_vars => (TypeOK /\ FrameInv)'
  BY FrameStep
<1> QED BY <1>1, <1>2, PTL DEF Spec

----
(* The theorems. *)

\* Every variable keeps the values the code can give it; in particular frame_loop
\* never lets ready_frames_ grow past its limit.
THEOREM TypeCorrect == Spec => []TypeOK
BY FrameInvariant, PTL

\* Whatever poll, mark_presented and the overflow of ready_frames_ release, the
\* frame on the video plane stays out of the decoder's reach while the preview runs.
THEOREM Scanout == Spec => []ScanoutHeld
<1>1. TypeOK /\ FrameInv => ScanoutHeld
  BY DEF TypeOK, FrameInv, PlaceInv, LiveInv, ScanoutHeld
<1> QED BY <1>1, FrameInvariant, PTL

\* A numbering without repetitions counts what it numbers.
LEMMA Counting ==
  ASSUME NEW D, IsFiniteSet(D), NEW T, NEW f \in [D -> T],
         \A a, b \in D : f[a] = f[b] => a = b,
         \A e \in T : \E d \in D : f[d] = e
  PROVE  IsFiniteSet(T) /\ Cardinality(T) = Cardinality(D)
<1>1. f \in Bijection(D, T)
  BY Fun_IsBij
<1>2. ExistsBijection(D, T)
  BY <1>1 DEF ExistsBijection
<1> QED BY <1>2, FS_Bijection

LEMMA QueueCounted ==
  ASSUME TypeOK, FrameInv
  PROVE  IsFiniteSet(Queued) /\ Cardinality(Queued) = Len(ready)
<1>1. Len(ready) \in Nat /\ \A i \in 1..Len(ready) : ready[i] \in Frames
  BY LenProperties, ElementOfSeq DEF TypeOK
<1> DEFINE D == 1..Len(ready)
           f == [i \in D |-> ready[i]]
<1>2. IsFiniteSet(D) /\ Cardinality(D) = Len(ready)
  <2>0. \A a, b \in Int : Cardinality(a..b) = IF a > b THEN 0 ELSE b - a + 1
    BY FS_Interval
  <2>i. 1 \in Int /\ Len(ready) \in Int
    BY <1>1
  <2>1. Cardinality(1..Len(ready)) = IF 1 > Len(ready) THEN 0 ELSE Len(ready) - 1 + 1
    BY <2>i, <2>0, Zenon
  <2>2. IsFiniteSet(1..Len(ready))
    BY <1>1, FS_Interval
  <2> QED BY <1>1, <2>1, <2>2
<1>3. f \in [D -> Queued] /\ \A e \in Queued : \E d \in D : f[d] = e
  BY DEF Queued, Oldest
<1>4. ASSUME NEW a \in D, NEW b \in D, a < b PROVE f[a] # f[b]
  <2>1. ready[a] < ready[b]
    BY <1>4 DEF FrameInv, OrderInv, Increasing
  <2>2. ready[a] \in Nat /\ ready[b] \in Nat
    BY <1>1 DEF Frames
  <2> QED BY <2>1, <2>2
<1>5. \A a, b \in D : f[a] = f[b] => a = b
  <2> SUFFICES ASSUME NEW a \in D, NEW b \in D, a # b PROVE f[a] # f[b]
    OBVIOUS
  <2>1. a < b \/ b < a
    BY <1>1
  <2> QED BY <2>1, <1>4
<1> HIDE DEF D, f
<1> QED BY <1>2, <1>3, <1>5, Counting

\* The frames held outside the queue, and the places that hold one.
Held == {mppOut, got, pendingPresented, current} \ {None}
Places == {v \in 1..4 : <<mppOut, got, pendingPresented, current>>[v] # None}

LEMMA HeldCounted ==
  ASSUME TypeOK, FrameInv
  PROVE  /\ IsFiniteSet(Held) /\ Cardinality(Held) = Cardinality(Places)
         /\ Held \cap Queued = {}
<1> DEFINE t == <<mppOut, got, pendingPresented, current>>
           f == [v \in Places |-> t[v]]
<1>1. IsFiniteSet(Places)
  <2>1. Places \subseteq 1..4
    BY DEF Places
  <2>i. 1 \in Int /\ 4 \in Int
    OBVIOUS
  <2>2. IsFiniteSet(1..4)
    BY <2>i, FS_Interval, Zenon
  <2> QED BY <2>1, <2>2, FS_Subset
<1>2. /\ \A v \in Places : v \in {1, 2, 3, 4} /\ t[v] # 0
      /\ t[1] = mppOut /\ t[2] = got /\ t[3] = pendingPresented /\ t[4] = current
      /\ \A v \in {1, 2, 3, 4} : t[v] # 0 => v \in Places
  BY DEF Places
<1>3. /\ {got, mppOut, pendingPresented, current} \cap Queued = {}
      /\ got # None => got \notin {mppOut, pendingPresented, current}
      /\ mppOut # None => mppOut \notin {pendingPresented, current}
      /\ pendingPresented # None => pendingPresented # current
  BY Apart
<1> HIDE DEF t
<1>4. \A v \in Places : t[v] \in Held
  BY <1>2 DEF Held
<1>5. f \in [Places -> Held]
  BY <1>4
<1>6. \A a, b \in Places : f[a] = f[b] => a = b
  BY <1>2, <1>3
<1>7. \A e \in Held : \E v \in Places : f[v] = e
  BY <1>2 DEF Held
<1> HIDE DEF f
<1>8. IsFiniteSet(Held) /\ Cardinality(Held) = Cardinality(Places)
  BY <1>1, <1>5, <1>6, <1>7, Counting
<1> QED BY <1>3, <1>8 DEF Held

\* Frames are handed back exactly once: a live frame has exactly one owner, also when
\* poll rejects it, a present fails or the decoder stops; and however long the preview
\* runs the application sits on at most ReadyCap + 3 buffers of the group.
THEOREM OneOwnerAlways == Spec => []OneOwner
<1>1. TypeOK /\ FrameInv => OneOwner
  <2> SUFFICES ASSUME TypeOK, FrameInv PROVE OneOwner
    OBVIOUS
  <2>0. /\ IsFiniteSet(Held) /\ Cardinality(Held) = Cardinality(Places)
        /\ Held \cap Queued = {}
        /\ IsFiniteSet(Queued) /\ Cardinality(Queued) = Len(ready)
    BY HeldCounted, QueueCounted
  <2>1. live = ({mppOut, got, pendingPresented, current} \cup Queued) \ {None}
    BY DEF FrameInv, LiveInv
  <2>2. live = Held \cup Queued
    <3>1. 0 \notin Queued
      BY QueuedFrames DEF Frames
    <3> QED BY <2>1, <3>1 DEF Held
  <2>3. Len(ready) \in Nat /\ Len(ready) <= ReadyCap /\ Cardinality(Held) \in Nat
    BY <2>0, LenProperties, FS_CardinalityType DEF TypeOK
  <2>4. Cardinality(live) = Len(ready) + Cardinality(Places)
    <3>1. Cardinality(live) = Cardinality(Held) + Cardinality(Queued) - Cardinality(Held \cap Queued)
      BY <2>0, <2>2, FS_Union
    <3>2. Cardinality(Held \cap Queued) = 0
      BY <2>0, FS_EmptySet
    <3> QED BY <2>0, <2>3, <3>1, <3>2
  <2>5. Cardinality(live \ {mppOut}) <= ReadyCap + 3
    <3> DEFINE app == {got} \cup {pendingPresented} \cup {current}
    <3>1. IsFiniteSet(app) /\ Cardinality(app) <= 3 /\ Cardinality(app) \in Nat
      <4>1. IsFiniteSet({got}) /\ Cardinality({got}) = 1
        BY FS_Singleton
      <4> DEFINE two == {got} \cup {pendingPresented}
      <4>2. IsFiniteSet(two)
        BY <4>1, FS_AddElement
      <4>3. Cardinality(two) = 1 \/ Cardinality(two) = 2
        BY <4>1, FS_AddElement
      <4>4. app = two \cup {current}
        OBVIOUS
      <4> HIDE DEF two, app
      <4>5. /\ IsFiniteSet(two \cup {current})
            /\ \/ Cardinality(two \cup {current}) = Cardinality(two)
               \/ Cardinality(two \cup {current}) = Cardinality(two) + 1
        BY <4>2, FS_AddElement, Zenon
      <4> QED BY <4>3, <4>4, <4>5
    <3>2. live \ {mppOut} \subseteq app \cup Queued
      BY <2>2 DEF Held
    <3> HIDE DEF app
    <3>3. /\ IsFiniteSet(app \cup Queued)
          /\ Cardinality(app \cup Queued) = Cardinality(app) + Len(ready) - Cardinality(app \cap Queued)
      BY <2>0, <3>1, FS_Union
    <3>4. Cardinality(app \cap Queued) \in Nat
      BY <3>1, FS_Intersection, FS_CardinalityType
    <3>5. Cardinality(app \cup Queued) \in Nat
      BY <3>3, FS_CardinalityType
    <3>6. ReadyCap \in Nat
      OBVIOUS
    <3>7. Cardinality(app \cup Queued) <= ReadyCap + 3
      BY <2>3, <3>1, <3>3, <3>4, <3>6
    <3>8. /\ Cardinality(live \ {mppOut}) <= Cardinality(app \cup Queued)
          /\ Cardinality(live \ {mppOut}) \in Nat
      BY <3>2, <3>3, FS_Subset, FS_CardinalityType
    <3> QED BY <3>5, <3>6, <3>7, <3>8
  <2> QED BY <2>1, <2>4, <2>5 DEF OneOwner, Places
<1> QED BY <1>1, FrameInvariant, PTL

\* The plane never goes back to an earlier frame, whatever poll and the overflow of
\* ready_frames_ drop, and fewer than Backlog frames wait behind the one poll takes.
THEOREM FreshInOrderAlways == Spec => FreshInOrder
<1>1. TypeOK /\ FrameInv /\ [Next]_vars
        => [/\ scan' # None => scan' >= scan
            /\ presPc = "poll" /\ presPc' = "present" => Len(ready') < Backlog]_vars
  <2> SUFFICES ASSUME TypeOK, FrameInv, Next
               PROVE  /\ scan' # None => scan' >= scan
                      /\ presPc = "poll" /\ presPc' = "present" => Len(ready') < Backlog
    BY DEF vars
  <2> USE DEF mppVars, decVars, frameVars, heldVars
  <2>n. {scan, pendingPresented, current} \subseteq Nat
    BY Numbers
  <2>1. CASE MppDecode \/ QueueUnit \/ FrameLoop \/ FeedFails \/ RequestStop \/ Main \/ Returned
    <3>1. presPc' = presPc /\ scan' \in {scan, None}
      BY <2>1 DEF MppDecode, QueueUnit, FrameLoop, GetFrame, TakeUnit, SkipFrame, ConfigureFails,
                  Enqueue, FrameLoopEnds, FeedFails, RequestStop, Main, StopDecoder, ReleaseAll,
                  DestroyMpp, DestroyCompositor, Returned, vars
    <3> QED BY <2>n, <3>1
  <2>2. CASE Poll
    <3>1. HasFrame /\ ready' = Without(Stale + 1) /\ scan' = scan
      BY <2>2 DEF Poll
    <3>2. Stale + 1 \in 0..Len(ready) /\ Len(ready) - (Stale + 1) < Backlog
      BY <3>1, PollTakes
    <3>3. Len(ready') = Len(ready) - (Stale + 1)
      BY <3>1, <3>2, WithoutOldest
    <3> QED BY <2>n, <3>1, <3>2, <3>3
  <2>3. CASE Present
    <3>1. presPc = "present" /\ scan' = pendingPresented
      BY <2>3 DEF Present
    <3>2. mainPc = "loop" /\ scan = current /\ pendingPresented # None
      BY <3>1 DEF FrameInv, PlaceInv
    <3>3. current < pendingPresented
      BY <3>2 DEF FrameInv, OrderInv, Newer
    <3> QED BY <2>n, <3>1, <3>2, <3>3
  <2>4. CASE Presenter /\ ~Poll /\ ~Present
    <3>1. presPc' # "present" /\ scan' = scan
      BY <2>4 DEF Presenter, PollEmpty, WaitForFrame, OverlayPresented, GiveUp, PollRejects,
                  MarkPresented, PresenterEnds
    <3> QED BY <2>n, <3>1
  <2> QED BY <2>1, <2>2, <2>3, <2>4 DEF Next
<1> QED BY <1>1, FrameInvariant, PTL DEF Spec, FreshInOrder
====

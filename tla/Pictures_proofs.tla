---- MODULE Pictures_proofs ----
(***************************************************************************)
(* Theorems about Pictures, for any number of access units and buffers and *)
(* any capacities.  PicInv is the inductive invariant: access units and    *)
(* pictures pass from the bitstream buffer to the display in the order of  *)
(* their numbers, which keeps the owners of the buffers apart.             *)
(***************************************************************************)
EXTENDS Pictures, SequenceTheorems, FiniteSetTheorems, TLAPS

USE CapsAssumption, UnitsAssumption DEF CapsAssumption, UnitsAssumption, None

----
(* The inductive invariant. *)

Increasing(s) == \A i, j \in 1..Len(s) : i < j => s[i] < s[j]

Before(A, B) == \A a \in A, b \in B : a < b

Waiting == ToSet(lib) \cup ToSet(ready)

\* The queues from the bitstream buffer to the display, oldest last.
OrderInv ==
    /\ Increasing(vbv) /\ Increasing(lib) /\ Increasing(ready)
    /\ Before(ToSet(ready), ToSet(lib)) /\ Before(Waiting, ToSet(vbv))
    /\ Before({current, held, shown}, Waiting) /\ Before({current, held, shown}, ToSet(vbv))
    /\ current # None => held < current /\ shown < current
    /\ ToSet(vbv) \cup Waiting \cup {current, held, shown} \subseteq 0..received
    /\ received <= sent

\* Nothing waits from before the newest stream information.
CutInv ==
    /\ Before({cut}, Waiting)
    /\ current # None => cut < current
    /\ ~Imx => cut = 0

\* What is in hand at each place in the loop of each path.
PlaceInv ==
    /\ Imx => lib = <<>>
    /\ Gst => ready = <<>> /\ vbv = <<>>
    /\ pc \in {"drain", "last"} => path = "cedar"
    /\ pc \in {"top", "last"} => current = None
    /\ pc = "poll" /\ path # "cedar" => current = None
    /\ pc = "present" => current # None
    /\ pc \notin {"cleanup", "done"} => errors < MaxErrors
    /\ path # "gst" => held = None
    /\ path = "gst" /\ pc # "done" => held = shown

LiveInv == live = (Waiting \cup {current, held}) \ {None}

PicInv == OrderInv /\ CutInv /\ PlaceInv /\ LiveInv

----
(* Sequences of pictures. *)

LEMMA Members ==
    ASSUME NEW s \in Seq(Pictures)
    PROVE  /\ Len(s) \in Nat /\ DOMAIN s = 1..Len(s)
           /\ ToSet(s) = {s[i] : i \in 1..Len(s)}
           /\ ToSet(s) \subseteq Pictures
           /\ \A i \in 1..Len(s) : s[i] \in Pictures
  BY LenProperties, ElementOfSeq DEF ToSet

LEMMA EmptySet ==
    ASSUME NEW s \in Seq(Pictures)
    PROVE  /\ <<>> \in Seq(Pictures) /\ Len(<<>>) = 0 /\ ToSet(<<>>) = {} /\ Increasing(<<>>)
           /\ s # <<>> => Len(s) \in Nat \ {0}
  BY EmptySeq DEF ToSet, Increasing

\* One queue behind another.
LEMMA JoinedQueues ==
    ASSUME NEW s \in Seq(Pictures), NEW t \in Seq(Pictures)
    PROVE  /\ s \o t \in Seq(Pictures) /\ Len(s \o t) = Len(s) + Len(t)
           /\ ToSet(s \o t) = ToSet(s) \cup ToSet(t)
           /\ Increasing(s) /\ Increasing(t) /\ Before(ToSet(s), ToSet(t)) => Increasing(s \o t)
  <1> DEFINE u == s \o t
  <1>1. /\ u \in Seq(Pictures) /\ Len(u) = Len(s) + Len(t)
        /\ \A i \in 1..Len(s) + Len(t) : u[i] = IF i <= Len(s) THEN s[i] ELSE t[i - Len(s)]
    BY ConcatProperties
  <1> HIDE DEF u
  <1>2. /\ Len(s) \in Nat /\ Len(t) \in Nat
        /\ ToSet(s) = {s[i] : i \in 1..Len(s)} /\ ToSet(t) = {t[i] : i \in 1..Len(t)}
        /\ ToSet(u) = {u[i] : i \in 1..Len(u)}
        /\ \A i \in 1..Len(s) : s[i] \in Pictures
        /\ \A i \in 1..Len(t) : t[i] \in Pictures
    BY <1>1, Members
  <1>3. \A i \in 1..Len(s) : u[i] = s[i]
    BY <1>1, <1>2
  <1>4. \A i \in 1..Len(t) : u[Len(s) + i] = t[i]
    <2> TAKE i \in 1..Len(t)
    <2>1. Len(s) + i \in 1..Len(s) + Len(t) /\ ~(Len(s) + i <= Len(s)) /\ Len(s) + i - Len(s) = i
      BY <1>2
    <2> QED
      BY <1>1, <2>1
  <1>5. \A i \in 1..Len(u) : i \in 1..Len(s) \/ \E j \in 1..Len(t) : i = Len(s) + j
    <2> TAKE i \in 1..Len(u)
    <2>1. CASE i <= Len(s)
      BY <1>2, <2>1
    <2>2. CASE ~(i <= Len(s))
      <3>1. i - Len(s) \in 1..Len(t) /\ i = Len(s) + (i - Len(s))
        BY <1>1, <1>2, <2>2
      <3> QED
        BY <3>1
    <2> QED
      BY <2>1, <2>2
  <1>6. ToSet(u) = ToSet(s) \cup ToSet(t)
    <2>1. ASSUME NEW e \in ToSet(u) PROVE e \in ToSet(s) \cup ToSet(t)
      <3>1. PICK i \in 1..Len(u) : e = u[i]
        BY <1>2
      <3>2. CASE i \in 1..Len(s)
        BY <1>2, <1>3, <3>1, <3>2
      <3>3. CASE \E j \in 1..Len(t) : i = Len(s) + j
        BY <1>2, <1>4, <3>1, <3>3
      <3> QED
        BY <1>5, <3>2, <3>3
    <2>2. ASSUME NEW e \in ToSet(s) PROVE e \in ToSet(u)
      <3>1. PICK i \in 1..Len(s) : e = s[i]
        BY <1>2
      <3>2. i \in 1..Len(u)
        BY <1>1, <1>2
      <3> QED
        BY <1>2, <1>3, <3>1, <3>2
    <2>3. ASSUME NEW e \in ToSet(t) PROVE e \in ToSet(u)
      <3>1. PICK i \in 1..Len(t) : e = t[i]
        BY <1>2
      <3>2. Len(s) + i \in 1..Len(u)
        BY <1>1, <1>2
      <3> QED
        BY <1>2, <1>4, <3>1, <3>2
    <2> QED
      BY <2>1, <2>2, <2>3
  <1>7. ASSUME Increasing(s), Increasing(t), Before(ToSet(s), ToSet(t)) PROVE Increasing(u)
    <2>1. ASSUME NEW i \in 1..Len(u), NEW j \in 1..Len(u), i < j PROVE u[i] < u[j]
      <3>1. CASE i \in 1..Len(s) /\ j \in 1..Len(s)
        BY <1>3, <1>7, <2>1, <3>1 DEF Increasing
      <3>2. CASE i \in 1..Len(s) /\ \E k \in 1..Len(t) : j = Len(s) + k
        <4>1. PICK k \in 1..Len(t) : j = Len(s) + k
          BY <3>2
        <4>2. s[i] \in ToSet(s) /\ t[k] \in ToSet(t)
          BY <1>2, <3>2
        <4>3. s[i] < t[k]
          BY <1>7, <4>2 DEF Before
        <4> QED
          BY <1>3, <1>4, <3>2, <4>1, <4>3
      <3>3. CASE (\E k \in 1..Len(t) : i = Len(s) + k) /\ (\E k \in 1..Len(t) : j = Len(s) + k)
        <4>1. PICK k \in 1..Len(t) : i = Len(s) + k
          BY <3>3
        <4>2. PICK l \in 1..Len(t) : j = Len(s) + l
          BY <3>3
        <4>3. k < l
          BY <1>2, <2>1, <4>1, <4>2
        <4>4. t[k] < t[l]
          BY <1>7, <4>3 DEF Increasing
        <4> QED
          BY <1>4, <4>1, <4>2, <4>4
      <3>4. ~(j \in 1..Len(s)) \/ i \in 1..Len(s)
        BY <1>2, <2>1
      <3> QED
        BY <1>5, <3>1, <3>2, <3>3, <3>4
    <2> QED
      BY <2>1 DEF Increasing
  <1> QED
    BY <1>1, <1>6, <1>7 DEF u

\* A queue and one more.
LEMMA OneMore ==
    ASSUME NEW s \in Seq(Pictures), NEW n \in Pictures
    PROVE  /\ Append(s, n) \in Seq(Pictures) /\ Len(Append(s, n)) = Len(s) + 1
           /\ ToSet(Append(s, n)) = ToSet(s) \cup {n}
           /\ Increasing(s) /\ Before(ToSet(s), {n}) => Increasing(Append(s, n))
  <1> DEFINE o == <<n>>
  <1>1. o \in Seq(Pictures) /\ Len(o) = 1 /\ o[1] = n
    OBVIOUS
  <1>2. Append(s, n) = s \o o
    BY AppendIsConcat
  <1> HIDE DEF o
  <1>3. ToSet(o) = {n}
    BY <1>1, Members
  <1>4. Increasing(o)
    BY <1>1 DEF Increasing
  <1>5. /\ s \o o \in Seq(Pictures) /\ Len(s \o o) = Len(s) + Len(o)
        /\ ToSet(s \o o) = ToSet(s) \cup ToSet(o)
        /\ Increasing(s) /\ Increasing(o) /\ Before(ToSet(s), ToSet(o)) => Increasing(s \o o)
    BY <1>1, JoinedQueues
  <1> QED
    BY <1>1, <1>2, <1>3, <1>4, <1>5, Zenon

\* A queue cut in two after its k oldest.
Oldest(s, k) == SubSeq(s, 1, k)
Rest(s, k) == SubSeq(s, k + 1, Len(s))

LEMMA CutInTwo ==
    ASSUME NEW s \in Seq(Pictures), Increasing(s), NEW k \in 0..Len(s)
    PROVE  /\ Oldest(s, k) \in Seq(Pictures) /\ Increasing(Oldest(s, k))
           /\ Rest(s, k) \in Seq(Pictures) /\ Increasing(Rest(s, k)) /\ Len(Rest(s, k)) = Len(s) - k
           /\ ToSet(Oldest(s, k)) \subseteq ToSet(s) /\ ToSet(Rest(s, k)) \subseteq ToSet(s)
           /\ Before(ToSet(Oldest(s, k)), ToSet(Rest(s, k)))
  <1> DEFINE a == Oldest(s, k)
             b == Rest(s, k)
  <1>s. a = SubSeq(s, 1, k) /\ b = SubSeq(s, k + 1, Len(s))
    BY DEF Oldest, Rest
  <1> HIDE DEF a, b
  <1>0. /\ Len(s) \in Nat /\ ToSet(s) = {s[i] : i \in 1..Len(s)}
        /\ \A i \in 1..Len(s) : s[i] \in Pictures
    BY Members
  <1>1. a \in Seq(Pictures) /\ Len(a) = k /\ \A i \in 1..k : a[i] = s[i]
    <2>1. \A i \in 1..k : s[i] \in Pictures
      BY <1>0
    <2>2. /\ a \in Seq(Pictures) /\ Len(a) = IF 1 <= k THEN k - 1 + 1 ELSE 0
          /\ \A i \in 1..(k - 1 + 1) : a[i] = s[1 + i - 1]
      BY <2>1, <1>0, <1>s, SubSeqProperties
    <2>3. Len(a) = k
      BY <1>0, <2>2
    <2>4. ASSUME NEW i \in 1..k PROVE a[i] = s[i]
      <3>1. i \in 1..(k - 1 + 1) /\ 1 + i - 1 = i
        BY <1>0
      <3> QED
        BY <2>2, <3>1
    <2> QED
      BY <2>2, <2>3, <2>4
  <1>2. b \in Seq(Pictures) /\ Len(b) = Len(s) - k /\ \A i \in 1..Len(b) : b[i] = s[k + i]
    <2>1. \A i \in (k + 1)..Len(s) : s[i] \in Pictures
      BY <1>0
    <2>2. /\ b \in Seq(Pictures) /\ Len(b) = IF k + 1 <= Len(s) THEN Len(s) - (k + 1) + 1 ELSE 0
          /\ \A i \in 1..(Len(s) - (k + 1) + 1) : b[i] = s[(k + 1) + i - 1]
      BY <2>1, <1>0, <1>s, SubSeqProperties
    <2>3. Len(b) = Len(s) - k
      BY <1>0, <2>2
    <2>4. ASSUME NEW i \in 1..Len(b) PROVE b[i] = s[k + i]
      <3>1. i \in 1..(Len(s) - (k + 1) + 1) /\ (k + 1) + i - 1 = k + i
        BY <1>0, <2>3
      <3> QED
        BY <2>2, <3>1
    <2> QED
      BY <2>2, <2>3, <2>4
  <1>3. /\ ToSet(a) = {a[i] : i \in 1..Len(a)}
        /\ ToSet(b) = {b[i] : i \in 1..Len(b)}
    BY <1>1, <1>2, Members
  <1>4. Increasing(a)
    <2>1. ASSUME NEW i \in 1..Len(a), NEW j \in 1..Len(a), i < j PROVE a[i] < a[j]
      <3>1. i \in 1..Len(s) /\ j \in 1..Len(s)
        BY <1>0, <1>1
      <3>2. s[i] < s[j]
        BY <2>1, <3>1 DEF Increasing
      <3> QED
        BY <1>1, <3>2
    <2> QED
      BY <2>1 DEF Increasing
  <1>5. Increasing(b)
    <2>1. ASSUME NEW i \in 1..Len(b), NEW j \in 1..Len(b), i < j PROVE b[i] < b[j]
      <3>1. k + i \in 1..Len(s) /\ k + j \in 1..Len(s) /\ k + i < k + j
        BY <1>0, <1>2, <2>1
      <3>2. s[k + i] < s[k + j]
        BY <3>1 DEF Increasing
      <3> QED
        BY <1>2, <3>2
    <2> QED
      BY <2>1 DEF Increasing
  <1>6. Before(ToSet(a), ToSet(b))
    <2>1. ASSUME NEW m \in ToSet(a), NEW n \in ToSet(b) PROVE m < n
      <3>1. PICK i \in 1..Len(a) : m = a[i]
        BY <1>3
      <3>2. PICK j \in 1..Len(b) : n = b[j]
        BY <1>3
      <3>3. i \in 1..Len(s) /\ k + j \in 1..Len(s) /\ i < k + j
        BY <1>0, <1>1, <1>2
      <3>4. s[i] < s[k + j]
        BY <3>3 DEF Increasing
      <3> QED
        BY <1>1, <1>2, <3>1, <3>2, <3>4
    <2> QED
      BY <2>1 DEF Before
  <1>7. ToSet(a) \subseteq ToSet(s)
    <2>1. ASSUME NEW m \in ToSet(a) PROVE m \in ToSet(s)
      <3>1. PICK i \in 1..Len(a) : m = a[i]
        BY <1>3
      <3>2. i \in 1..Len(s) /\ m = s[i]
        BY <1>0, <1>1, <3>1
      <3> QED
        BY <1>0, <3>2
    <2> QED
      BY <2>1
  <1>8. ToSet(b) \subseteq ToSet(s)
    <2>1. ASSUME NEW m \in ToSet(b) PROVE m \in ToSet(s)
      <3>1. PICK i \in 1..Len(b) : m = b[i]
        BY <1>3
      <3>2. k + i \in 1..Len(s) /\ m = s[k + i]
        BY <1>0, <1>2, <3>1
      <3> QED
        BY <1>0, <3>2
    <2> QED
      BY <2>1
  <1> QED
    BY <1>1, <1>2, <1>4, <1>5, <1>6, <1>7, <1>8 DEF a, b

\* What is left of a queue that drops its oldest pictures.
LEMMA Kept ==
    ASSUME NEW s \in Seq(Pictures), Increasing(s), NEW n \in Nat
    PROVE  /\ Newest(s, n) \in Seq(Pictures) /\ Len(Newest(s, n)) <= n
           /\ Increasing(Newest(s, n)) /\ ToSet(Newest(s, n)) \subseteq ToSet(s)
  <1>0. Len(s) \in Nat
    BY LenProperties
  <1>1. CASE Len(s) > n
    <2> DEFINE k == Len(s) - n
    <2>1. k \in 0..Len(s) /\ Len(s) - k = n
      BY <1>0, <1>1
    <2>2. Newest(s, n) = Rest(s, k)
      BY <1>1 DEF Newest, Rest
    <2> HIDE DEF k
    <2>3. /\ Rest(s, k) \in Seq(Pictures) /\ Len(Rest(s, k)) = Len(s) - k
          /\ Increasing(Rest(s, k)) /\ ToSet(Rest(s, k)) \subseteq ToSet(s)
      BY <2>1, CutInTwo
    <2>4. Len(Rest(s, k)) <= n
      BY <2>1, <2>3
    <2> QED
      BY <2>2, <2>3, <2>4, Zenon
  <1>2. CASE ~(Len(s) > n)
    <2>1. Newest(s, n) = s /\ Len(s) <= n
      BY <1>0, <1>2 DEF Newest
    <2> QED
      BY <2>1, Zenon
  <1> QED
    BY <1>1, <1>2

\* The one that came last is never dropped.
LEMMA NewestStays ==
    ASSUME NEW s \in Seq(Pictures), NEW e \in Pictures, NEW n \in Nat \ {0}
    PROVE  e \in ToSet(Newest(Append(s, e), n))
  <1> DEFINE t == Append(s, e)
  <1>1. /\ t \in Seq(Pictures) /\ Len(t) = Len(s) + 1 /\ t[Len(s) + 1] = e
        /\ Len(s) \in Nat
    BY AppendProperties, LenProperties
  <1> HIDE DEF t
  <1>2. Len(t) \in 1..Len(t) /\ t[Len(t)] = e
    BY <1>1
  <1>3. CASE Len(t) > n
    <2> DEFINE m == Len(t) - n + 1
               u == SubSeq(t, m, Len(t))
    <2>1. m \in 1..Len(t) /\ Len(t) - m + 1 = n /\ m \in Int /\ Len(t) \in Int
      BY <1>1, <1>3
    <2>7. u = Newest(t, n)
      BY <1>3 DEF Newest
    <2> HIDE DEF m
    <2>2. \A i \in m..Len(t) : t[i] \in Pictures
      <3>1. \A i \in 1..Len(t) : t[i] \in Pictures
        BY <1>1, Members
      <3> QED
        BY <1>1, <2>1, <3>1
    <2>3. /\ u \in Seq(Pictures) /\ Len(u) = IF m <= Len(t) THEN Len(t) - m + 1 ELSE 0
          /\ \A i \in 1..(Len(t) - m + 1) : u[i] = t[m + i - 1]
      BY <2>1, <2>2, SubSeqProperties
    <2>4. m + n - 1 = Len(t) /\ n \in 1..(Len(t) - m + 1)
      BY <1>1, <2>1
    <2>5. Len(u) = n
      BY <2>1, <2>3
    <2>6. u[n] = e
      BY <1>2, <2>3, <2>4
    <2> HIDE DEF u
    <2>8. e \in ToSet(u)
      BY <2>3, <2>5, <2>6, Members
    <2> QED
      BY <2>7, <2>8 DEF t
  <1>4. CASE ~(Len(t) > n)
    <2>1. Newest(t, n) = t
      BY <1>4 DEF Newest
    <2>2. e \in ToSet(t)
      BY <1>1, <1>2, Members
    <2> QED
      BY <2>1, <2>2 DEF t
  <1> QED
    BY <1>3, <1>4

\* The oldest picture of a queue, and the others.
LEMMA OldestFirst ==
    ASSUME NEW s \in Seq(Pictures), Increasing(s), s # <<>>
    PROVE  /\ Head(s) \in Pictures /\ Tail(s) \in Seq(Pictures)
           /\ Len(Tail(s)) = Len(s) - 1 /\ Increasing(Tail(s))
           /\ ToSet(s) = {Head(s)} \cup ToSet(Tail(s))
           /\ Before({Head(s)}, ToSet(Tail(s)))
  <1> DEFINE h == Head(s)
             t == Tail(s)
  <1>0. /\ Len(s) \in Nat \ {0} /\ ToSet(s) = {s[i] : i \in 1..Len(s)}
        /\ \A i \in 1..Len(s) : s[i] \in Pictures
    BY EmptySet, Members
  <1>1. h = s[1]
    OBVIOUS
  <1>2. t \in Seq(Pictures) /\ Len(t) = Len(s) - 1 /\ \A i \in 1..Len(t) : t[i] = s[i + 1]
    BY HeadTailProperties
  <1> HIDE DEF h, t
  <1>3. ToSet(t) = {t[i] : i \in 1..Len(t)}
    BY <1>2, Members
  <1>4. Increasing(t)
    <2>1. ASSUME NEW i \in 1..Len(t), NEW j \in 1..Len(t), i < j PROVE t[i] < t[j]
      <3>1. i + 1 \in 1..Len(s) /\ j + 1 \in 1..Len(s) /\ i + 1 < j + 1
        BY <1>0, <1>2, <2>1
      <3>2. s[i + 1] < s[j + 1]
        BY <3>1 DEF Increasing
      <3> QED
        BY <1>2, <3>2
    <2> QED
      BY <2>1 DEF Increasing
  <1>5. Before({h}, ToSet(t))
    <2>1. ASSUME NEW n \in ToSet(t) PROVE h < n
      <3>1. PICK i \in 1..Len(t) : n = t[i]
        BY <1>3
      <3>2. 1 \in 1..Len(s) /\ i + 1 \in 1..Len(s) /\ 1 < i + 1
        BY <1>0, <1>2
      <3>3. s[1] < s[i + 1]
        BY <3>2 DEF Increasing
      <3> QED
        BY <1>1, <1>2, <3>1, <3>3
    <2> QED
      BY <2>1 DEF Before
  <1>6. ASSUME NEW n \in ToSet(s) PROVE n = h \/ n \in ToSet(t)
    <2>1. PICK i \in 1..Len(s) : n = s[i]
      BY <1>0
    <2>2. CASE i # 1
      <3>1. i - 1 \in 1..Len(t) /\ (i - 1) + 1 = i
        BY <1>0, <1>2, <2>2
      <3>2. t[i - 1] = s[i]
        BY <1>2, <3>1
      <3> QED
        BY <1>3, <2>1, <3>1, <3>2
    <2> QED
      BY <1>1, <2>1, <2>2
  <1>7. h \in Pictures /\ h \in ToSet(s)
    <2>1. 1 \in 1..Len(s)
      BY <1>0
    <2> QED
      BY <1>0, <1>1, <2>1
  <1>8. ASSUME NEW n \in ToSet(t) PROVE n \in ToSet(s)
    <2>1. PICK i \in 1..Len(t) : n = t[i]
      BY <1>3
    <2>2. i + 1 \in 1..Len(s)
      BY <1>0, <1>2
    <2>3. n = s[i + 1]
      BY <1>2, <2>1
    <2> QED
      BY <1>0, <2>2, <2>3
  <1>9. ToSet(s) = {h} \cup ToSet(t)
    BY <1>6, <1>7, <1>8
  <1> QED
    BY <1>2, <1>4, <1>5, <1>7, <1>9 DEF h, t

LEMMA FreshestOne ==
    ASSUME NEW s \in Seq(Pictures), s # <<>>
    PROVE  Last(s) \in ToSet(s)
  <1>1. Len(s) \in 1..Len(s)
    BY EmptySet
  <1> QED
    BY <1>1, Members DEF Last

\* A rank in a set of pictures belongs to one picture of the set.
Rank(P, n) == Cardinality({m \in P : m <= n})

LEMMA Ranks ==
    ASSUME NEW P \in SUBSET Pictures
    PROVE  /\ IsFiniteSet(P) /\ Cardinality(P) \in Nat
           /\ \A n \in P : Rank(P, n) \in 1..Cardinality(P)
           /\ \A m, n \in P : m < n => Rank(P, m) < Rank(P, n)
           /\ \A i \in 1..Cardinality(P) : \E n \in P : Rank(P, n) = i
  <1>1. IsFiniteSet(P) /\ Cardinality(P) \in Nat
    <2>1. P \in SUBSET Nat /\ \A n \in P : n <= MaxUnits
      BY DEF Pictures
    <2>2. IsFiniteSet(P)
      BY <2>1, FS_BoundedSetOfNaturals
    <2> QED
      BY <2>2, FS_CardinalityType
  <1>2. ASSUME NEW n \in P PROVE Rank(P, n) \in 1..Cardinality(P)
    <2> DEFINE U == {m \in P : m <= n}
    <2>1. U \in SUBSET P /\ n \in U
      BY DEF Pictures
    <2>2. IsFiniteSet(U) /\ Cardinality(U) <= Cardinality(P)
      BY <1>1, <2>1, FS_Subset
    <2>3. Cardinality(U) \in Nat /\ Cardinality(U) # 0
      BY <2>1, <2>2, FS_CardinalityType, FS_EmptySet
    <2>4. Rank(P, n) = Cardinality(U)
      BY DEF Rank
    <2> HIDE DEF U
    <2> QED
      BY <1>1, <2>2, <2>3, <2>4
  <1>3. ASSUME NEW m \in P, NEW n \in P, m < n PROVE Rank(P, m) < Rank(P, n)
    <2> DEFINE A == {l \in P : l <= m}
               B == {l \in P : l <= n}
    <2>1. A \in SUBSET B /\ n \in B /\ n \notin A /\ B \in SUBSET P
      <3>1. P \subseteq Nat
        BY DEF Pictures
      <3>2. \A l \in P : l <= m => l <= n
        BY <1>3, <3>1
      <3>3. n <= n /\ ~(n <= m)
        BY <1>3, <3>1
      <3> QED
        BY <3>2, <3>3
    <2>2. Rank(P, m) = Cardinality(A) /\ Rank(P, n) = Cardinality(B)
      BY DEF Rank
    <2> HIDE DEF A, B
    <2>3. IsFiniteSet(B)
      BY <1>1, <2>1, FS_Subset
    <2>4. /\ IsFiniteSet(A) /\ Cardinality(A) <= Cardinality(B)
          /\ Cardinality(B) = Cardinality(A) => B = A
      BY <2>1, <2>3, FS_Subset
    <2>5. Cardinality(A) \in Nat /\ Cardinality(B) \in Nat
      BY <2>3, <2>4, FS_CardinalityType
    <2>6. Cardinality(A) # Cardinality(B)
      BY <2>1, <2>4
    <2> QED
      BY <2>2, <2>4, <2>5, <2>6
  <1>4. ASSUME NEW i \in 1..Cardinality(P) PROVE \E n \in P : Rank(P, n) = i
    <2> DEFINE T == 1..Cardinality(P)
               f == [n \in P |-> Rank(P, n)]
    <2>1. f \in [P -> T]
      BY <1>2
    <2>2. \A m, n \in P : f[m] = f[n] => m = n
      <3> TAKE m, n \in P
      <3>1. m \in Nat /\ n \in Nat /\ f[m] = Rank(P, m) /\ f[n] = Rank(P, n)
        BY DEF Pictures
      <3>2. Rank(P, m) \in Nat /\ Rank(P, n) \in Nat
        BY <1>2
      <3> QED
        BY <1>3, <3>1, <3>2
    <2>3. f \in Injection(P, T)
      BY <2>1, <2>2 DEF Injection, IsInjective
    <2>4. IsFiniteSet(T) /\ Cardinality(T) = Cardinality(P)
      <3>0. \A a, b \in Int : Cardinality(a..b) = IF a > b THEN 0 ELSE b - a + 1
        BY FS_Interval
      <3>1. 1 \in Int /\ Cardinality(P) \in Int
        BY <1>1
      <3>2. Cardinality(1..Cardinality(P))
            = IF 1 > Cardinality(P) THEN 0 ELSE Cardinality(P) - 1 + 1
        BY <3>0, <3>1, Zenon
      <3>3. IsFiniteSet(1..Cardinality(P))
        BY <3>1, FS_Interval
      <3> QED
        BY <1>1, <3>2, <3>3
    <2>5. f \in Surjection(P, T)
      BY <2>3, <2>4, FS_Injection
    <2>6. \E n \in P : f[n] = i
      BY <2>5 DEF Surjection
    <2> QED
      BY <2>6
  <1> QED
    BY <1>1, <1>2, <1>3, <1>4

\* The decoder gives the pictures of P, in order.
LEMMA DecodedInOrder ==
    ASSUME NEW P \in SUBSET Pictures
    PROVE  /\ Decodes(P) \in Seq(Pictures)
           /\ Increasing(Decodes(P)) /\ ToSet(Decodes(P)) = P
  <1> DEFINE s == Decodes(P)
             c == Cardinality(P)
  <1>1. c \in Nat
    BY Ranks
  <1>2. s = [i \in 1..c |-> CHOOSE n \in P : Rank(P, n) = i]
    BY DEF Decodes, Rank
  <1> HIDE DEF s, c
  <1>3. ASSUME NEW i \in 1..c PROVE s[i] \in P /\ Rank(P, s[i]) = i
    <2>1. \E n \in P : Rank(P, n) = i
      BY Ranks DEF c
    <2>2. s[i] = CHOOSE n \in P : Rank(P, n) = i
      BY <1>2
    <2> QED
      BY <2>1, <2>2, Zenon
  <1>4. s \in [1..c -> Pictures]
    BY <1>2, <1>3
  <1>5. s \in Seq(Pictures) /\ Len(s) = c
    <2>1. s \in Seq(Pictures)
      BY <1>1, <1>4
    <2> QED
      BY <1>1, <1>4, <2>1, LenProperties
  <1>6. ToSet(s) = {s[i] : i \in 1..c}
    BY <1>5, Members
  <1>7. Increasing(s)
    <2>1. ASSUME NEW i \in 1..c, NEW j \in 1..c, i < j PROVE s[i] < s[j]
      <3>1. s[i] \in P /\ s[j] \in P /\ Rank(P, s[i]) = i /\ Rank(P, s[j]) = j
        BY <1>3
      <3>2. s[i] \in Nat /\ s[j] \in Nat
        <4>1. P \subseteq Nat
          BY DEF Pictures
        <4> QED
          BY <3>1, <4>1
      <3>3. s[j] < s[i] => j < i
        BY <3>1, Ranks
      <3>4. i \in Nat /\ j \in Nat
        BY <1>1
      <3>5. s[i] # s[j]
        BY <2>1, <3>1, <3>4
      <3>6. ~(j < i)
        BY <2>1, <3>4
      <3> QED
        BY <3>2, <3>3, <3>5, <3>6
    <2> QED
      BY <1>5, <2>1 DEF Increasing
  <1>8. ASSUME NEW n \in P PROVE n \in ToSet(s)
    <2>1. Rank(P, n) \in 1..c
      BY Ranks DEF c
    <2>2. s[Rank(P, n)] \in P /\ Rank(P, s[Rank(P, n)]) = Rank(P, n)
      BY <1>3, <2>1
    <2>3. s[Rank(P, n)] = n
      <3> DEFINE m == s[Rank(P, n)]
      <3>1. m \in P /\ Rank(P, m) = Rank(P, n)
        BY <2>2
      <3> HIDE DEF m
      <3>2. m \in Nat /\ n \in Nat /\ Rank(P, n) \in Nat
        BY <2>1, <3>1 DEF Pictures
      <3>3. /\ m < n => Rank(P, m) < Rank(P, n)
            /\ n < m => Rank(P, n) < Rank(P, m)
        BY <3>1, Ranks
      <3>4. m = n
        BY <3>1, <3>2, <3>3
      <3> QED
        BY <3>4 DEF m
    <2> QED
      BY <1>6, <2>1, <2>3
  <1>9. ToSet(s) = P
    BY <1>3, <1>6, <1>8
  <1> QED
    BY <1>5, <1>7, <1>9 DEF s

----
(* The steps that keep the invariant. *)

LEMMA Numbered ==
    ASSUME TypeOK
    PROVE  /\ vbv \in Seq(Pictures) /\ lib \in Seq(Pictures) /\ ready \in Seq(Pictures)
           /\ ToSet(vbv) \subseteq Pictures /\ ToSet(lib) \subseteq Pictures
           /\ ToSet(ready) \subseteq Pictures /\ Waiting \subseteq Pictures
           /\ Pictures \subseteq Nat \ {0}
           /\ {sent, received, current, held, cut, shown} \subseteq 0..MaxUnits
           /\ Len(vbv) \in Nat /\ Len(lib) \in Nat /\ Len(ready) \in Nat
  <1>1. vbv \in Seq(Pictures) /\ lib \in Seq(Pictures) /\ ready \in Seq(Pictures)
    BY DEF TypeOK
  <1>2. /\ ToSet(vbv) \subseteq Pictures /\ ToSet(lib) \subseteq Pictures
        /\ ToSet(ready) \subseteq Pictures
        /\ Len(vbv) \in Nat /\ Len(lib) \in Nat /\ Len(ready) \in Nat
    BY <1>1, Members
  <1>3. Pictures \subseteq Nat \ {0} /\ Numbers = 0..MaxUnits
    BY DEF Pictures, Numbers
  <1> QED
    BY <1>1, <1>2, <1>3 DEF TypeOK, Waiting

LEMMA InitInv ==
    ASSUME Init
    PROVE  TypeOK /\ PicInv
  <1>1. <<>> \in Seq(Pictures) /\ Len(<<>>) = 0 /\ ToSet(<<>>) = {} /\ Increasing(<<>>)
    BY EmptySeq DEF ToSet, Increasing
  <1>2. 0 \in Numbers
    BY DEF Numbers
  <1>3. TypeOK
    <2>1. /\ path \in Paths /\ {sent, received, current, held, cut, shown} \subseteq Numbers
          /\ live \subseteq Pictures /\ {bus, stop} \subseteq BOOLEAN
          /\ pc \in {"top", "poll", "drain", "last", "present", "cleanup", "done"}
      BY <1>2 DEF Init
    <2>2. /\ vbv \in Seq(Pictures) /\ lib \in Seq(Pictures) /\ ready \in Seq(Pictures)
          /\ Len(vbv) = 0 /\ Len(lib) = 0 /\ Len(ready) = 0
      BY <1>1, Zenon DEF Init
    <2>3. errors \in 0..MaxErrors
      BY DEF Init
    <2> QED
      BY <2>1, <2>2, <2>3 DEF TypeOK
  <1>4. Waiting = {} /\ ToSet(vbv) = {} /\ ToSet(lib) = {} /\ ToSet(ready) = {}
    BY <1>1 DEF Init, Waiting
  <1>5. OrderInv
    <2>1. /\ Increasing(vbv) /\ Increasing(lib) /\ Increasing(ready)
      BY <1>1 DEF Init
    <2> QED
      BY <1>4, <2>1 DEF Init, OrderInv, Before
  <1>6. CutInv
    BY <1>4 DEF Init, CutInv, Before
  <1>7. PlaceInv
    BY DEF Init, PlaceInv, Imx, Gst
  <1>8. LiveInv
    BY <1>4 DEF Init, LiveInv
  <1> QED
    BY <1>3, <1>5, <1>6, <1>7, <1>8 DEF PicInv

\* Steps that move no picture and no unit.
Quiet ==
    \/ Send \/ StartPass \/ Fails \/ RequestStop \/ CedarSocketEmpty
    \/ ImxSocketEmpty \/ GstTimeout \/ GstMessage \/ UNCHANGED vars

LEMMA QuietKeeps ==
    ASSUME TypeOK, PicInv, Quiet
    PROVE  TypeOK' /\ PicInv'
  <1> USE DEF PicInv
  <1>1. UNCHANGED <<path, received, vbv, lib, ready, current, held, shown, live, cut, errors>>
    BY DEF Quiet, Send, StartPass, Fails, RequestStop, CedarSocketEmpty, ImxSocketEmpty,
           GstTimeout, GstMessage, vars, inVars, outVars
  <1>2. Waiting' = Waiting /\ Imx' = Imx /\ Gst' = Gst
    BY <1>1 DEF Waiting, Imx, Gst
  <1>3. /\ sent' = sent \/ (sent' = sent + 1 /\ sent < MaxUnits)
        /\ {bus', stop'} \subseteq BOOLEAN
        /\ pc' \in {"top", "poll", "drain", "last", "present", "cleanup", "done"}
    BY DEF Quiet, Send, StartPass, Fails, RequestStop, CedarSocketEmpty, ImxSocketEmpty,
           GstTimeout, GstMessage, vars, inVars, outVars, TypeOK
  <1>n. sent \in 0..MaxUnits /\ received \in 0..MaxUnits
    BY Numbered
  <1>4. sent' \in 0..MaxUnits /\ sent <= sent'
    BY <1>3, <1>n
  <1>5. TypeOK'
    <2>1. sent' \in Numbers
      BY <1>4 DEF Numbers, Pictures
    <2> QED
      BY <1>1, <1>2, <1>3, <2>1 DEF TypeOK, Numbers
  <1>6. OrderInv'
    <2>1. received' <= sent'
      BY <1>1, <1>4, <1>n DEF OrderInv
    <2> QED
      BY <1>1, <1>2, <2>1, Zenon DEF OrderInv
  <1>7. CutInv' /\ LiveInv'
    BY <1>1, <1>2, Zenon DEF CutInv, LiveInv
  <1>8. PlaceInv'
    <2>1. /\ pc' \in {"drain", "last"} => path = "cedar"
          /\ pc' \in {"top", "last"} => current = None
          /\ pc' = "poll" /\ path # "cedar" => current = None
          /\ pc' = "present" => current # None
          /\ pc' \notin {"cleanup", "done"} => pc \notin {"cleanup", "done"}
          /\ pc' # "done" => pc # "done"
      BY DEF Quiet, Send, StartPass, Fails, RequestStop, CedarSocketEmpty, ImxSocketEmpty,
             GstTimeout, GstMessage, vars, inVars, outVars, TypeOK, PlaceInv, Imx, Gst
    <2> QED
      BY <1>1, <1>2, <2>1, Zenon DEF PlaceInv
  <1> QED
    BY <1>5, <1>6, <1>7, <1>8

\* The decoder works off the first k units of q, the bitstream buffer and perhaps
\* one more unit, and gives the pictures of P.
LEMMA CedarDecodes ==
    ASSUME TypeOK, PicInv, CedarReceive
    PROVE  TypeOK' /\ PicInv'
  <1> USE DEF PicInv
  <1>n. /\ vbv \in Seq(Pictures) /\ lib \in Seq(Pictures) /\ ready \in Seq(Pictures)
        /\ ToSet(vbv) \subseteq Pictures /\ ToSet(lib) \subseteq Pictures
        /\ ToSet(ready) \subseteq Pictures /\ Waiting \subseteq Pictures
        /\ Pictures \subseteq Nat \ {0}
        /\ {sent, received, current, held, cut, shown} \subseteq 0..MaxUnits
        /\ Len(vbv) \in Nat
    BY Numbered
  <1>1. /\ path = "cedar" /\ pc = "poll" /\ received < sent /\ received' = received + 1
        /\ UNCHANGED <<path, sent, ready, current, held, shown, cut, errors, bus, stop>>
        /\ pc' \in {"drain", "poll"}
    BY DEF CedarReceive, outVars
  <1>r. received \in Nat /\ sent \in Nat /\ sent <= MaxUnits
    BY <1>n
  <1>2. received + 1 \in Pictures
    BY <1>1, <1>r DEF Pictures
  <1>3. PICK q \in {vbv, Append(vbv, received + 1)} :
            CedarDecode(q) /\ (q = Append(vbv, received + 1) => Len(vbv) < VbvCap)
    BY DEF CedarReceive
  <1>4. /\ q \in Seq(Pictures) /\ Increasing(q) /\ Len(q) <= VbvCap /\ Len(q) \in Nat
        /\ ToSet(q) \subseteq ToSet(vbv) \cup {received + 1}
    <2>0. Len(vbv) <= VbvCap /\ Increasing(vbv)
      BY <1>1 DEF TypeOK, OrderInv
    <2>1. CASE q = vbv
      BY <1>n, <2>0, <2>1
    <2>2. CASE q = Append(vbv, received + 1)
      <3>1. Before(ToSet(vbv), {received + 1})
        <4>1. ToSet(vbv) \subseteq 0..received
          BY DEF OrderInv
        <4>2. \A m \in 0..received : m < received + 1
          BY <1>r
        <4> QED
          BY <4>1, <4>2 DEF Before
      <3>2. /\ Append(vbv, received + 1) \in Seq(Pictures)
            /\ Len(Append(vbv, received + 1)) = Len(vbv) + 1
            /\ ToSet(Append(vbv, received + 1)) = ToSet(vbv) \cup {received + 1}
            /\ Increasing(Append(vbv, received + 1))
        BY <1>n, <1>2, <2>0, <3>1, OneMore
      <3>3. Len(vbv) + 1 <= VbvCap /\ Len(vbv) + 1 \in Nat
        <4>1. Len(vbv) \in Nat
          BY <1>n
        <4>2. Len(vbv) < VbvCap
          BY <1>3, <2>2
        <4> QED
          BY <4>1, <4>2
      <3> QED
        BY <2>2, <3>2, <3>3
    <2> QED
      BY <1>3, <2>1, <2>2
  <1>5. PICK k \in 0..Len(q) : \E P \in SUBSET ToSet(Oldest(q, k)) :
            vbv' = Rest(q, k) /\ lib' = lib \o Decodes(P) /\ live' = live \cup P
    BY <1>3 DEF CedarDecode, Oldest, Rest
  <1>6. PICK P \in SUBSET ToSet(Oldest(q, k)) :
            vbv' = Rest(q, k) /\ lib' = lib \o Decodes(P) /\ live' = live \cup P
    BY <1>5
  <1>7. /\ Rest(q, k) \in Seq(Pictures) /\ Increasing(Rest(q, k)) /\ Len(Rest(q, k)) = Len(q) - k
        /\ ToSet(Oldest(q, k)) \subseteq ToSet(q) /\ ToSet(Rest(q, k)) \subseteq ToSet(q)
        /\ Before(ToSet(Oldest(q, k)), ToSet(Rest(q, k)))
    BY <1>4, CutInTwo
  <1>8. /\ vbv' \in Seq(Pictures) /\ Increasing(vbv') /\ Len(vbv') <= VbvCap
        /\ ToSet(vbv') \subseteq ToSet(vbv) \cup {received + 1}
        /\ P \subseteq ToSet(vbv) \cup {received + 1} /\ Before(P, ToSet(vbv'))
    <2>1. Len(q) - k <= VbvCap
      BY <1>4
    <2>2. Before(P, ToSet(Rest(q, k)))
      BY <1>7 DEF Before
    <2> QED
      BY <1>4, <1>6, <1>7, <2>1, <2>2
  <1>9. P \in SUBSET Pictures
    BY <1>2, <1>8, <1>n
  <1>10. \A m \in Waiting \cup {current, held, shown} :
            \A n \in ToSet(vbv) \cup {received + 1} : m < n
    <2> TAKE m \in Waiting \cup {current, held, shown}
    <2>1. m \in 0..received
      BY DEF OrderInv
    <2>2. m < received + 1
      BY <1>r, <2>1
    <2>3. \A n \in ToSet(vbv) : m < n
      BY DEF OrderInv, Before
    <2> QED
      BY <2>2, <2>3
  <1>11. /\ lib' \in Seq(Pictures) /\ Increasing(lib') /\ ToSet(lib') = ToSet(lib) \cup P
    <2>1. /\ Decodes(P) \in Seq(Pictures) /\ Increasing(Decodes(P)) /\ ToSet(Decodes(P)) = P
      BY <1>9, DecodedInOrder
    <2>2. Before(ToSet(lib), P)
      BY <1>8, <1>10 DEF Before, Waiting
    <2>3. Increasing(lib)
      BY DEF OrderInv
    <2>4. /\ lib \o Decodes(P) \in Seq(Pictures)
          /\ ToSet(lib \o Decodes(P)) = ToSet(lib) \cup ToSet(Decodes(P))
          /\ Increasing(lib \o Decodes(P))
      BY <1>n, <2>1, <2>2, <2>3, JoinedQueues
    <2> QED
      BY <1>6, <2>1, <2>4
  <1>12. Waiting' = Waiting \cup P
    BY <1>1, <1>11 DEF Waiting
  <1>13. TypeOK'
    <2>1. received' \in Numbers
      BY <1>1, <1>2 DEF Numbers
    <2>2. live' \subseteq Pictures
      BY <1>6, <1>9 DEF TypeOK
    <2>3. ~Gst'
      BY <1>1 DEF Gst
    <2> QED
      BY <1>1, <1>8, <1>11, <2>1, <2>2, <2>3 DEF TypeOK, Numbers
  <1>14. OrderInv'
    <2>1. Increasing(vbv') /\ Increasing(lib') /\ Increasing(ready')
      BY <1>1, <1>8, <1>11 DEF OrderInv
    <2>2. Before(ToSet(ready'), ToSet(lib'))
      <3>1. Before(ToSet(ready), P)
        BY <1>8, <1>10 DEF Before, Waiting
      <3>2. Before(ToSet(ready), ToSet(lib))
        BY DEF OrderInv
      <3> QED
        BY <1>1, <1>11, <3>1, <3>2 DEF Before
    <2>3. Before(Waiting', ToSet(vbv'))
      BY <1>8, <1>10, <1>12 DEF Before
    <2>4. Before({current, held, shown}, Waiting') /\ Before({current, held, shown}, ToSet(vbv'))
      BY <1>8, <1>10, <1>12 DEF Before, OrderInv
    <2>5. ToSet(vbv') \cup Waiting' \cup {current, held, shown} \subseteq 0..received'
      <3>1. received + 1 \in 0..received' /\ 0..received \subseteq 0..received'
        BY <1>1, <1>r
      <3> QED
        BY <1>8, <1>12, <3>1 DEF OrderInv
    <2>6. received' <= sent'
      BY <1>1, <1>r
    <2> QED
      BY <1>1, <2>1, <2>2, <2>3, <2>4, <2>5, <2>6 DEF OrderInv
  <1>15. CutInv'
    <2>1. Before({cut}, P)
      <3>1. cut = 0 /\ P \subseteq Nat \ {0}
        BY <1>1, <1>9, <1>n DEF CutInv, Imx
      <3> QED
        BY <3>1 DEF Before
    <2>2. Before({cut}, Waiting')
      BY <1>12, <2>1 DEF CutInv, Before
    <2> QED
      BY <1>1, <2>2 DEF CutInv, Imx
  <1>16. PlaceInv'
    BY <1>1 DEF PlaceInv, Imx, Gst
  <1>17. LiveInv'
    BY <1>1, <1>6, <1>9, <1>12, <1>n DEF LiveInv
  <1> QED
    BY <1>13, <1>14, <1>15, <1>16, <1>17

\* What waits is kept, but for the oldest, and the next picture may be delivered.
LEMMA CedarDrains ==
    ASSUME TypeOK, PicInv, CedarDrain
    PROVE  TypeOK' /\ PicInv'
  <1> USE DEF PicInv
  <1>n. /\ vbv \in Seq(Pictures) /\ lib \in Seq(Pictures) /\ ready \in Seq(Pictures)
        /\ Waiting \subseteq Pictures /\ Pictures \subseteq Nat \ {0}
        /\ {sent, received, current, held, cut, shown} \subseteq 0..MaxUnits
    BY Numbered
  <1> DEFINE all == ready \o lib
             kept == Newest(all, ReadyCap)
             delivered == kept # <<>> /\ Delivers
  <1>1. /\ pc \in {"drain", "last"} /\ lib' = <<>>
        /\ live' = live \ (ToSet(all) \ ToSet(kept))
        /\ current' = IF delivered THEN Head(kept) ELSE current
        /\ ready' = IF delivered THEN Tail(kept) ELSE kept
        /\ pc' = CASE pc = "drain" -> "poll" [] pc = "last" /\ delivered -> "present" [] OTHER -> "top"
        /\ UNCHANGED <<path, sent, received, vbv, held, shown, cut, errors, bus, stop>>
    BY DEF CedarDrain, Stale, inVars, outVars
  <1>2. path = "cedar" /\ held = None
    BY <1>1 DEF PlaceInv
  <1>3. all \in Seq(Pictures) /\ Increasing(all) /\ ToSet(all) = Waiting
    <2>1. /\ all \in Seq(Pictures) /\ ToSet(all) = ToSet(ready) \cup ToSet(lib)
          /\ Increasing(ready) /\ Increasing(lib) /\ Before(ToSet(ready), ToSet(lib)) => Increasing(all)
      BY <1>n, JoinedQueues
    <2> QED
      BY <2>1 DEF OrderInv, Waiting
  <1> HIDE DEF all
  <1>4. /\ kept \in Seq(Pictures) /\ Len(kept) <= ReadyCap /\ Len(kept) \in Nat
        /\ Increasing(kept) /\ ToSet(kept) \subseteq Waiting
    <2>1. ReadyCap \in Nat
      OBVIOUS
    <2> QED
      BY <1>3, <2>1, Kept, LenProperties
  <1>5. live' = (ToSet(kept) \cup {current}) \ {None}
    <2>0. 0 \notin Waiting /\ current \notin Waiting
      <3>1. \A n \in Waiting : current < n
        BY DEF OrderInv, Before
      <3>2. 0 \notin Waiting
        BY <1>n
      <3>3. current \in Nat
        BY <1>n
      <3>4. ~(current < current)
        BY <3>3
      <3> QED
        BY <3>1, <3>2, <3>4
    <2> QED
      BY <1>1, <1>2, <1>3, <1>4, <2>0 DEF LiveInv
  <1> HIDE DEF kept
  <1>6. /\ ready' \in Seq(Pictures) /\ Len(ready') <= ReadyCap /\ Increasing(ready')
        /\ ToSet(kept) \cup {current} \cup {None} = ToSet(ready') \cup {current'} \cup {None}
        /\ ToSet(ready') \subseteq Waiting
        /\ \/ current' = current
           \/ current = None /\ current' \in Waiting /\ Before({current'}, ToSet(ready'))
    <2>1. CASE delivered
      <3>1. /\ Head(kept) \in Pictures /\ Tail(kept) \in Seq(Pictures)
            /\ Len(Tail(kept)) = Len(kept) - 1 /\ Increasing(Tail(kept))
            /\ ToSet(kept) = {Head(kept)} \cup ToSet(Tail(kept))
            /\ Before({Head(kept)}, ToSet(Tail(kept)))
        BY <1>4, <2>1, OldestFirst
      <3>2. current = None
        BY <2>1 DEF Delivers
      <3>3. current' = Head(kept) /\ ready' = Tail(kept)
        BY <1>1, <2>1
      <3>4. Len(Tail(kept)) <= ReadyCap
        BY <1>4, <3>1
      <3>5. ToSet(ready') \subseteq Waiting /\ current' \in Waiting
        BY <1>4, <3>1, <3>3
      <3>6. ToSet(kept) \cup {current} \cup {None} = ToSet(ready') \cup {current'} \cup {None}
        BY <3>1, <3>2, <3>3
      <3> QED
        BY <3>1, <3>2, <3>3, <3>4, <3>5, <3>6
    <2>2. CASE ~delivered
      BY <1>1, <1>4, <2>2
    <2> QED
      BY <2>1, <2>2
  <1>7. delivered <=> current' # current
    <2>1. delivered => kept # <<>> /\ current = None
      BY DEF Delivers
    <2>2. kept # <<>> => Head(kept) \in Pictures
      BY <1>4, OldestFirst
    <2> QED
      BY <1>1, <1>n, <2>1, <2>2
  <1>8. /\ lib' \in Seq(Pictures) /\ ToSet(lib') = {} /\ Increasing(lib')
    BY <1>1, EmptySet, <1>n
  <1>9. Waiting' = ToSet(ready')
    BY <1>8 DEF Waiting
  <1>10. current' \in 0..MaxUnits
    <2>1. Pictures \subseteq 0..MaxUnits
      BY DEF Pictures
    <2>2. current' = current \/ current' \in Waiting
      BY <1>6
    <2> QED
      BY <2>1, <2>2, <1>n
  <1>11. TypeOK'
    <2>1. current' \in Numbers
      BY <1>10 DEF Numbers, Pictures
    <2>2. live' \subseteq Pictures
      BY <1>1 DEF TypeOK
    <2>3. ~Gst'
      BY <1>1, <1>2 DEF Gst
    <2>4. pc' \in {"top", "poll", "drain", "last", "present", "cleanup", "done"}
      BY <1>1
    <2> QED
      BY <1>1, <1>6, <1>8, <2>1, <2>2, <2>3, <2>4 DEF TypeOK, Numbers
  <1>12. OrderInv'
    <2>1. Before(ToSet(ready'), ToSet(lib')) /\ Before(Waiting', ToSet(vbv'))
      BY <1>1, <1>6, <1>8, <1>9 DEF OrderInv, Before
    <2>2. Before({current', held', shown'}, Waiting')
      BY <1>1, <1>6, <1>9 DEF OrderInv, Before
    <2>3. Before({current', held', shown'}, ToSet(vbv'))
      BY <1>1, <1>6 DEF OrderInv, Before
    <2>4. current' # None => held' < current' /\ shown' < current'
      BY <1>1, <1>6 DEF OrderInv, Before
    <2>5. ToSet(vbv') \cup Waiting' \cup {current', held', shown'} \subseteq 0..received'
      BY <1>1, <1>6, <1>9 DEF OrderInv
    <2> QED
      BY <1>1, <1>6, <1>8, <2>1, <2>2, <2>3, <2>4, <2>5 DEF OrderInv
  <1>13. CutInv'
    BY <1>1, <1>6, <1>9, <1>2 DEF CutInv, Before, Imx
  <1>14. PlaceInv'
    <2>1. pc = "last" => current = None
      BY DEF PlaceInv
    <2>2. /\ pc' \in {"poll", "present", "top"}
          /\ pc' = "present" => current' # None
          /\ pc' = "top" => current' = None
      BY <1>1, <1>7, <2>1
    <2>3. errors < MaxErrors
      BY <1>1 DEF PlaceInv
    <2> QED
      BY <1>1, <1>2, <2>2, <2>3 DEF PlaceInv, Imx, Gst
  <1>15. LiveInv'
    BY <1>1, <1>2, <1>5, <1>6, <1>9 DEF LiveInv
  <1> QED
    BY <1>11, <1>12, <1>13, <1>14, <1>15

LEMMA ImxDelivers ==
    ASSUME TypeOK, PicInv, ImxDeliver
    PROVE  TypeOK' /\ PicInv'
  <1> USE DEF PicInv
  <1>n. /\ ready \in Seq(Pictures) /\ Len(ready) \in Nat
        /\ Waiting \subseteq Pictures /\ Pictures \subseteq Nat \ {0}
    BY Numbered
  <1>1. /\ Imx /\ pc = "poll" /\ ready # <<>> /\ pc' = "present"
        /\ current' = Head(ready) /\ ready' = Tail(ready)
        /\ UNCHANGED <<path, sent, received, vbv, lib, held, shown, live, cut, errors, bus, stop>>
    BY DEF ImxDeliver, HasReady, inVars, outVars
  <1>2. /\ path # "cedar" /\ path # "gst" /\ ~Gst /\ lib = <<>> /\ held = None /\ current = None
    BY <1>1 DEF PlaceInv, Imx, Gst
  <1>3. Imx' /\ ~Gst'
    BY <1>1, <1>2 DEF Imx, Gst
  <1>4. /\ current' \in Pictures /\ ready' \in Seq(Pictures)
        /\ Len(ready') = Len(ready) - 1 /\ Increasing(ready')
        /\ ToSet(ready) = {current'} \cup ToSet(ready')
        /\ Before({current'}, ToSet(ready'))
    <2>1. Increasing(ready)
      BY DEF OrderInv
    <2>2. /\ Head(ready) \in Pictures /\ Tail(ready) \in Seq(Pictures)
          /\ Len(Tail(ready)) = Len(ready) - 1 /\ Increasing(Tail(ready))
          /\ ToSet(ready) = {Head(ready)} \cup ToSet(Tail(ready))
          /\ Before({Head(ready)}, ToSet(Tail(ready)))
      BY <1>n, <1>1, <2>1, OldestFirst
    <2> QED
      BY <1>1, <2>2, Zenon
  <1>5. ToSet(lib) = {}
    BY <1>2, EmptySet, <1>n
  <1>6. Waiting = {current'} \cup ToSet(ready') /\ Waiting' = ToSet(ready')
    BY <1>1, <1>4, <1>5 DEF Waiting
  <1>7. TypeOK'
    <2>1. Len(ready') <= ReadyCap
      BY <1>n, <1>4 DEF TypeOK
    <2> QED
      BY <1>1, <1>3, <1>4, <2>1 DEF TypeOK, Numbers
  <1>8. OrderInv'
    <2>1. Before(ToSet(ready'), ToSet(lib')) /\ Before(Waiting', ToSet(vbv'))
      BY <1>1, <1>5, <1>6 DEF OrderInv, Before
    <2>2. /\ Before({current', held', shown'}, Waiting')
          /\ held' < current' /\ shown' < current'
      <3>1. \A m \in {held, shown}, n \in {current'} \cup ToSet(ready') : m < n
        BY <1>6 DEF OrderInv, Before
      <3>2. \A n \in ToSet(ready') : current' < n
        BY <1>4 DEF Before
      <3> QED
        BY <1>1, <1>6, <3>1, <3>2 DEF Before
    <2>4. Before({current', held', shown'}, ToSet(vbv'))
      <3>1. \A m \in {held, shown, current'}, n \in ToSet(vbv) : m < n
        BY <1>6 DEF OrderInv, Before
      <3> QED
        BY <1>1, <3>1 DEF Before
    <2>3. ToSet(vbv') \cup Waiting' \cup {current', held', shown'} \subseteq 0..received'
      BY <1>1, <1>6 DEF OrderInv
    <2> QED
      BY <1>1, <1>4, <2>1, <2>2, <2>3, <2>4 DEF OrderInv
  <1>9. CutInv'
    BY <1>1, <1>3, <1>6 DEF CutInv, Before
  <1>10. PlaceInv'
    <2>1. errors < MaxErrors /\ current' # None
      BY <1>1, <1>4, <1>n DEF PlaceInv
    <2> QED
      BY <1>1, <1>2, <1>3, <2>1 DEF PlaceInv
  <1>11. LiveInv'
    BY <1>1, <1>2, <1>6, <1>n DEF LiveInv
  <1> QED
    BY <1>7, <1>8, <1>9, <1>10, <1>11

\* New stream information lets none of the older pictures wait.
LEMMA ImxReceives ==
    ASSUME TypeOK, PicInv, ImxReceive
    PROVE  TypeOK' /\ PicInv'
  <1> USE DEF PicInv
  <1>n. /\ vbv \in Seq(Pictures) /\ lib \in Seq(Pictures) /\ ready \in Seq(Pictures)
        /\ ToSet(vbv) \subseteq Pictures /\ Waiting \subseteq Pictures
        /\ Pictures \subseteq Nat \ {0}
        /\ {sent, received, current, held, cut, shown} \subseteq 0..MaxUnits
        /\ Len(vbv) \in Nat
    BY Numbered
  <1>r. received \in Nat /\ sent \in Nat /\ sent <= MaxUnits
    BY <1>n
  <1> DEFINE q == Append(vbv, received + 1)
  <1>1. /\ Imx /\ pc = "poll" /\ ready = <<>> /\ received < sent /\ received' = received + 1
        /\ UNCHANGED <<path, sent, lib, current, held, shown, errors, bus, pc, stop>>
    BY DEF ImxReceive, HasReady, outVars
  <1>2. received + 1 \in Pictures
    BY <1>1, <1>r DEF Pictures
  <1>3. PICK k \in 0..Len(q) : \E P \in SUBSET ToSet(Oldest(q, k)), i \in 0..k :
          /\ cut' = IF i = 0 THEN cut ELSE q[i] - 1
          /\ ready' = Newest(ready \o Decodes({n \in P : n > cut'}), ReadyCap)
          /\ vbv' = Rest(q, k) /\ live' = live \cup ToSet(ready')
    BY DEF ImxReceive, Survives, Oldest, Rest
  <1>4. PICK P \in SUBSET ToSet(Oldest(q, k)), i \in 0..k :
          /\ cut' = IF i = 0 THEN cut ELSE q[i] - 1
          /\ ready' = Newest(ready \o Decodes({n \in P : n > cut'}), ReadyCap)
          /\ vbv' = Rest(q, k) /\ live' = live \cup ToSet(ready')
    BY <1>3
  <1> HIDE DEF q
  <1>5. /\ q \in Seq(Pictures) /\ Increasing(q) /\ Len(q) \in Nat
        /\ ToSet(q) = ToSet(vbv) \cup {received + 1}
        /\ \A j \in 1..Len(q) : q[j] \in Pictures
    <2>1. Before(ToSet(vbv), {received + 1})
      <3>1. ToSet(vbv) \subseteq 0..received
        BY DEF OrderInv
      <3>2. \A m \in 0..received : m < received + 1
        BY <1>r
      <3> QED
        BY <3>1, <3>2 DEF Before
    <2>2. Increasing(vbv)
      BY DEF OrderInv
    <2>3. /\ q \in Seq(Pictures) /\ Increasing(q) /\ ToSet(q) = ToSet(vbv) \cup {received + 1}
      BY <1>n, <1>2, <2>1, <2>2, OneMore DEF q
    <2> QED
      BY <2>3, Members
  <1>6. /\ Rest(q, k) \in Seq(Pictures) /\ Increasing(Rest(q, k))
        /\ ToSet(Oldest(q, k)) \subseteq ToSet(q) /\ ToSet(Rest(q, k)) \subseteq ToSet(q)
        /\ Before(ToSet(Oldest(q, k)), ToSet(Rest(q, k)))
    BY <1>5, CutInTwo
  <1>7. cut' \in 0..MaxUnits
    <2>1. CASE i = 0
      BY <1>4, <1>n, <2>1
    <2>2. CASE i # 0
      <3>1. i \in 1..Len(q)
        BY <1>5, <2>2
      <3>2. q[i] \in 1..MaxUnits
        BY <1>5, <3>1 DEF Pictures
      <3> QED
        BY <1>4, <2>2, <3>2
    <2> QED
      BY <2>1, <2>2
  <1> DEFINE new == {n \in P : n > cut'}
             out == Decodes(new)
  <1>8. /\ out \in Seq(Pictures) /\ Increasing(out) /\ ToSet(out) = new
    <2>1. new \in SUBSET Pictures
      BY <1>2, <1>5, <1>6, <1>n
    <2> QED
      BY <2>1, DecodedInOrder
  <1>9. ready' = Newest(out, ReadyCap)
    <2>1. <<>> \o out = out
      BY <1>8, ConcatEmptySeq
    <2> QED
      BY <1>1, <1>4, <2>1
  <1>10. new \subseteq P /\ \A n \in new : n > cut'
    OBVIOUS
  <1> HIDE DEF new, out
  <1>11. /\ ready' \in Seq(Pictures) /\ Len(ready') <= ReadyCap
         /\ Increasing(ready') /\ ToSet(ready') \subseteq new
    <2>1. ReadyCap \in Nat
      OBVIOUS
    <2> QED
      BY <1>8, <1>9, <2>1, Kept
  <1>12. ToSet(lib) = {} /\ ToSet(ready) = {} /\ Waiting = {} /\ Waiting' = ToSet(ready')
    <2>1. lib = <<>> /\ lib' = <<>>
      BY <1>1 DEF PlaceInv
    <2>2. ToSet(<<>>) = {}
      BY EmptySet, <1>n
    <2>3. ToSet(lib) = {} /\ ToSet(lib') = {} /\ ToSet(ready) = {}
      BY <1>1, <2>1, <2>2, Zenon
    <2> QED
      BY <2>3 DEF Waiting
  <1>13. current = None /\ path # "cedar" /\ path # "gst" /\ ~Gst /\ held = None
    BY <1>1 DEF PlaceInv, Imx, Gst
  <1>14. Imx' /\ ~Gst'
    BY <1>1, <1>13 DEF Imx, Gst
  <1>15. /\ ToSet(vbv') \subseteq ToSet(vbv) \cup {received + 1}
         /\ ToSet(ready') \subseteq ToSet(vbv) \cup {received + 1}
         /\ Before(ToSet(ready'), ToSet(vbv'))
    <2>1. ToSet(ready') \subseteq ToSet(Oldest(q, k))
      BY <1>4, <1>10, <1>11
    <2> QED
      BY <1>4, <1>5, <1>6, <2>1 DEF Before
  <1>16. TypeOK'
    <2>1. received' \in Numbers /\ cut' \in Numbers
      BY <1>1, <1>2, <1>7 DEF Numbers, Pictures
    <2>2. ToSet(ready') \subseteq Pictures
      BY <1>2, <1>15, <1>n
    <2>3. live' \subseteq Pictures
      BY <1>4, <2>2 DEF TypeOK
    <2>4. path' # "cedar" /\ vbv' \in Seq(Pictures)
      BY <1>1, <1>4, <1>6, <1>13
    <2> QED
      BY <1>1, <1>11, <1>14, <2>1, <2>3, <2>4 DEF TypeOK, Numbers
  <1>17. OrderInv'
    <2>1. Increasing(vbv') /\ Increasing(lib')
      BY <1>1, <1>4, <1>6 DEF OrderInv
    <2>2. Before(ToSet(ready'), ToSet(lib'))
      BY <1>1, <1>12 DEF Before
    <2>3. \A m \in {current, held, shown} : \A n \in ToSet(vbv) \cup {received + 1} : m < n
      <3> TAKE m \in {current, held, shown}
      <3>1. m \in 0..received /\ \A n \in ToSet(vbv) : m < n
        BY DEF OrderInv, Before
      <3>2. m < received + 1
        BY <1>r, <3>1
      <3> QED
        BY <3>1, <3>2
    <2>4. Before({current, held, shown}, Waiting') /\ Before({current, held, shown}, ToSet(vbv'))
      BY <1>12, <1>15, <2>3 DEF Before
    <2>5. ToSet(vbv') \cup Waiting' \cup {current, held, shown} \subseteq 0..received'
      <3>1. received + 1 \in 0..received' /\ 0..received \subseteq 0..received'
        BY <1>1, <1>r
      <3>2. ToSet(vbv) \cup {current, held, shown} \subseteq 0..received
        BY DEF OrderInv
      <3> QED
        BY <1>12, <1>15, <3>1, <3>2
    <2>6. received' <= sent'
      BY <1>1, <1>r
    <2> QED
      BY <1>1, <1>11, <1>12, <1>13, <1>15, <2>1, <2>2, <2>4, <2>5, <2>6 DEF OrderInv
  <1>18. CutInv'
    <2>1. Before({cut'}, ToSet(ready'))
      <3>1. \A n \in ToSet(ready') : n \in Nat /\ n > cut'
        BY <1>10, <1>11, <1>15, <1>2, <1>n
      <3> QED
        BY <1>7, <3>1 DEF Before
    <2> QED
      BY <1>1, <1>12, <1>13, <1>14, <2>1 DEF CutInv
  <1>19. PlaceInv'
    <2>1. lib' = <<>> /\ errors < MaxErrors
      BY <1>1 DEF PlaceInv
    <2> QED
      BY <1>1, <1>13, <1>14, <2>1 DEF PlaceInv
  <1>20. LiveInv'
    <2>1. 0 \notin ToSet(ready')
      BY <1>2, <1>15, <1>n
    <2> QED
      BY <1>1, <1>4, <1>12, <1>13, <2>1 DEF LiveInv
  <1> QED
    BY <1>16, <1>17, <1>18, <1>19, <1>20

----
(* GStreamer. *)

LEMMA GstDecodes ==
    ASSUME TypeOK, PicInv, GstDecode
    PROVE  TypeOK' /\ PicInv'
  <1> USE DEF PicInv
  <1>n. /\ vbv \in Seq(Pictures) /\ lib \in Seq(Pictures) /\ ready \in Seq(Pictures)
        /\ ToSet(lib) \subseteq Pictures /\ Waiting \subseteq Pictures
        /\ Pictures \subseteq Nat \ {0}
        /\ {sent, received, current, held, cut, shown} \subseteq 0..MaxUnits
    BY Numbered
  <1>r. received \in Nat /\ sent \in Nat /\ sent <= MaxUnits
    BY <1>n
  <1>1. /\ Gst /\ pc # "done" /\ received < sent /\ received' = received + 1
        /\ UNCHANGED <<path, sent, vbv, ready, current, held, shown, cut, errors, bus, pc, stop>>
    BY DEF GstDecode, outVars
  <1>2. received + 1 \in Pictures
    BY <1>1, <1>r DEF Pictures
  <1> DEFINE more == Append(lib, received + 1)
             kept == Newest(more, SinkCap)
  <1>3. \/ UNCHANGED <<lib, live>>
        \/ lib' = kept /\ live' = (live \cup {received + 1}) \ (ToSet(lib) \ ToSet(lib'))
    BY DEF GstDecode
  <1>4. Before({current, held, shown, cut} \cup Waiting, {received + 1})
    <2>1. {current, held, shown} \cup Waiting \subseteq 0..received /\ cut = 0
      BY <1>1 DEF OrderInv, CutInv, Imx, Gst
    <2>2. \A m \in 0..received : m < received + 1
      BY <1>r
    <2>3. 0 \in 0..received
      BY <1>r
    <2> QED
      BY <2>1, <2>2, <2>3 DEF Before
  <1>5. more \in Seq(Pictures) /\ Increasing(more) /\ ToSet(more) = ToSet(lib) \cup {received + 1}
    <2>1. Increasing(lib) /\ Before(ToSet(lib), {received + 1})
      BY <1>4 DEF OrderInv, Before, Waiting
    <2> QED
      BY <1>n, <1>2, <2>1, OneMore
  <1> HIDE DEF more
  <1>6. /\ kept \in Seq(Pictures) /\ Len(kept) <= SinkCap
        /\ Increasing(kept) /\ ToSet(kept) \subseteq ToSet(lib) \cup {received + 1}
    <2>1. SinkCap \in Nat
      OBVIOUS
    <2>2. /\ kept \in Seq(Pictures) /\ Len(kept) <= SinkCap
          /\ Increasing(kept) /\ ToSet(kept) \subseteq ToSet(more)
      BY <1>5, <2>1, Kept
    <2> QED
      BY <1>5, <2>2
  <1> HIDE DEF kept
  <1>7. /\ lib' \in Seq(Pictures) /\ Len(lib') <= SinkCap /\ Increasing(lib')
        /\ ToSet(lib') \subseteq ToSet(lib) \cup {received + 1}
    <2>1. Len(lib) <= SinkCap /\ Increasing(lib)
      BY <1>1 DEF TypeOK, OrderInv
    <2> QED
      BY <1>3, <1>6, <1>n, <2>1
  <1>8. ready = <<>> /\ vbv = <<>> /\ ready' = <<>> /\ vbv' = <<>> /\ Gst' /\ ~Imx'
    BY <1>1 DEF PlaceInv, Gst, Imx
  <1>9. /\ ToSet(ready) = {} /\ ToSet(ready') = {} /\ ToSet(vbv') = {}
        /\ Waiting = ToSet(lib) /\ Waiting' = ToSet(lib')
    <2>1. ToSet(<<>>) = {}
      BY EmptySet, <1>n
    <2>2. ToSet(ready) = {} /\ ToSet(ready') = {} /\ ToSet(vbv') = {}
      BY <1>8, <2>1, Zenon
    <2> QED
      BY <2>2 DEF Waiting
  <1>10. TypeOK'
    <2>1. received' \in Numbers
      BY <1>1, <1>2 DEF Numbers
    <2>2. live' \subseteq Pictures
      BY <1>2, <1>3 DEF TypeOK
    <2>3. path' # "cedar" \/ Len(vbv') <= VbvCap
      BY <1>1 DEF Gst
    <2> QED
      BY <1>1, <1>7, <2>1, <2>2, <2>3 DEF TypeOK, Numbers
  <1>11. OrderInv'
    <2>1. Before({current, held, shown}, Waiting')
      BY <1>4, <1>7, <1>9 DEF OrderInv, Before
    <2>2. Waiting' \cup {current, held, shown} \subseteq 0..received'
      <3>1. received + 1 \in 0..received' /\ 0..received \subseteq 0..received'
        BY <1>1, <1>r
      <3> QED
        BY <1>7, <1>9, <3>1 DEF OrderInv
    <2>3. received' <= sent'
      BY <1>1, <1>r
    <2>4. /\ Increasing(vbv') /\ Increasing(ready')
          /\ current' # None => held' < current' /\ shown' < current'
      BY <1>1 DEF OrderInv
    <2>5. /\ Before(ToSet(ready'), ToSet(lib')) /\ Before(Waiting', ToSet(vbv'))
          /\ Before({current', held', shown'}, ToSet(vbv'))
      BY <1>9 DEF Before
    <2> QED
      BY <1>1, <1>7, <1>9, <2>1, <2>2, <2>3, <2>4, <2>5 DEF OrderInv
  <1>12. CutInv'
    BY <1>1, <1>4, <1>7, <1>8, <1>9 DEF CutInv, Before, Imx
  <1>13. PlaceInv'
    BY <1>1, <1>8 DEF PlaceInv
  <1>14. LiveInv'
    <2>1. CASE UNCHANGED <<lib, live>>
      BY <1>1, <1>9, <2>1 DEF LiveInv
    <2>2. CASE lib' = kept /\ live' = (live \cup {received + 1}) \ (ToSet(lib) \ ToSet(lib'))
      <3>1. received + 1 \in ToSet(lib')
        <4>1. SinkCap \in Nat \ {0}
          OBVIOUS
        <4> QED
          <5>1. received + 1 \in ToSet(Newest(Append(lib, received + 1), SinkCap))
            BY <1>2, <1>n, <4>1, NewestStays
          <5> QED
            BY <2>2, <5>1, Zenon DEF kept, more
      <3>2. ToSet(lib) \cap {current, held, 0} = {}
        <4>1. \A n \in ToSet(lib) : current < n /\ held < n
          BY <1>9 DEF OrderInv, Before
        <4>2. ToSet(lib) \subseteq Nat \ {0}
          BY <1>n, Zenon
        <4> QED
          BY <4>1, <4>2
      <3>3. live = (ToSet(lib) \cup {current, held}) \ {0}
        BY <1>9 DEF LiveInv
      <3>4. live' = (ToSet(lib') \cup {current, held}) \ {0}
        <4>1. received + 1 # 0 /\ 0 \notin ToSet(lib')
          BY <1>2, <1>7, <1>n
        <4> QED
          BY <1>7, <2>2, <3>1, <3>2, <3>3, <4>1
      <3> QED
        BY <1>1, <1>9, <3>4 DEF LiveInv
    <2> QED
      BY <1>3, <2>1, <2>2
  <1> QED
    BY <1>10, <1>11, <1>12, <1>13, <1>14

LEMMA GstPulls ==
    ASSUME TypeOK, PicInv, GstPull
    PROVE  TypeOK' /\ PicInv'
  <1> USE DEF PicInv
  <1>n. /\ vbv \in Seq(Pictures) /\ lib \in Seq(Pictures) /\ ready \in Seq(Pictures)
        /\ ToSet(lib) \subseteq Pictures
        /\ Pictures \subseteq Nat \ {0}
        /\ {sent, received, current, held, cut, shown} \subseteq 0..MaxUnits
    BY Numbered
  <1>1. /\ Gst /\ pc \in {"poll", "present"} /\ lib # <<>> /\ lib' = <<>> /\ pc' = "present"
        /\ current' = Last(lib)
        /\ live' = live \ ((ToSet(lib) \cup {current}) \ {current'})
        /\ UNCHANGED <<path, sent, received, vbv, ready, held, shown, cut, errors, bus, stop>>
    BY DEF GstPull, Freshest, inVars, outVars
  <1>2. current' \in ToSet(lib)
    BY <1>1, <1>n, FreshestOne
  <1>3. ready = <<>> /\ vbv = <<>> /\ Gst' /\ ~Imx /\ ~Imx' /\ path # "cedar"
    BY <1>1 DEF PlaceInv, Gst, Imx
  <1>4. /\ ToSet(ready) = {} /\ ToSet(lib') = {} /\ ToSet(vbv) = {}
        /\ Waiting = ToSet(lib) /\ Waiting' = {}
        /\ lib' \in Seq(Pictures) /\ Len(lib') = 0 /\ Increasing(lib')
    <2>1. <<>> \in Seq(Pictures) /\ Len(<<>>) = 0 /\ ToSet(<<>>) = {} /\ Increasing(<<>>)
      BY EmptySet, <1>n
    <2>2. ToSet(ready) = {} /\ ToSet(lib') = {} /\ ToSet(vbv) = {}
      BY <1>1, <1>3, <2>1, Zenon
    <2> QED
      BY <1>1, <2>1, <2>2 DEF Waiting
  <1>5. TypeOK'
    <2>1. current' \in Numbers
      BY <1>2, <1>n DEF Numbers
    <2>2. live' \subseteq Pictures /\ Len(lib') <= SinkCap
      BY <1>1, <1>4 DEF TypeOK
    <2> QED
      BY <1>1, <1>3, <1>4, <2>1, <2>2 DEF TypeOK, Numbers
  <1>6. OrderInv'
    <2>1. held' < current' /\ shown' < current'
      BY <1>1, <1>2, <1>4 DEF OrderInv, Before
    <2>2. {current', held', shown'} \subseteq 0..received'
      BY <1>1, <1>2, <1>4 DEF OrderInv
    <2>3. Increasing(vbv') /\ Increasing(ready') /\ received' <= sent'
      BY <1>1 DEF OrderInv
    <2> QED
      BY <1>1, <1>4, <2>1, <2>2, <2>3 DEF OrderInv, Before
  <1>7. CutInv'
    BY <1>1, <1>2, <1>3, <1>4, <1>n DEF CutInv, Before
  <1>8. PlaceInv'
    <2>1. errors < MaxErrors /\ current' # None
      BY <1>1, <1>2, <1>n DEF PlaceInv
    <2> QED
      BY <1>1, <1>3, <2>1 DEF PlaceInv
  <1>9. LiveInv'
    <2>1. held \notin ToSet(lib) /\ (current # None => held # current)
      <3>1. \A n \in ToSet(lib) : held < n
        BY <1>4 DEF OrderInv, Before
      <3>2. held \in Nat /\ (current # None => held < current)
        BY <1>n DEF OrderInv
      <3> QED
        BY <3>1, <3>2
    <2>2. live = (ToSet(lib) \cup {current, held}) \ {0}
      BY <1>4 DEF LiveInv
    <2>3. live' = {current', held} \ {0}
      BY <1>1, <1>2, <2>1, <2>2
    <2> QED
      BY <1>1, <1>4, <2>3 DEF LiveInv
  <1> QED
    BY <1>5, <1>6, <1>7, <1>8, <1>9

\* Steps that only use up the picture in hand.
LEMMA UsesCurrent ==
    ASSUME TypeOK, PicInv, Present \/ GstReject
    PROVE  TypeOK' /\ PicInv'
  <1> USE DEF PicInv
  <1>n. /\ Waiting \subseteq Pictures /\ Pictures \subseteq Nat \ {0}
        /\ {sent, received, current, held, cut, shown} \subseteq 0..MaxUnits
    BY Numbered
  <1>1. /\ pc = "present" /\ current # None /\ current' = None
        /\ pc' \in {"top", "cleanup"}
        /\ UNCHANGED <<path, sent, received, vbv, lib, ready, cut, bus>>
    BY DEF Present, GstReject, inVars, outVars, PlaceInv
  <1>2. /\ Waiting' = Waiting /\ Imx' = Imx /\ Gst' = Gst
    BY <1>1 DEF Waiting, Imx, Gst
  <1>3. /\ \/ shown' = shown /\ held' = held /\ live' = live \ {current}
           \/ shown' = current /\ path = "gst" /\ held' = current /\ live' = live \ {held}
           \/ shown' = current /\ path # "gst" /\ held' = held /\ live' = live \ {current}
        /\ GstReject => shown' = shown
    BY DEF Present, GstReject, Returned, outVars
  <1>4. /\ errors' \in 0..MaxErrors /\ {bus', stop'} \subseteq BOOLEAN
        /\ pc' # "cleanup" => errors' < MaxErrors
    <2>1. CASE Present
      BY <2>1 DEF Present, TypeOK
    <2>2. CASE GstReject
      <3>1. errors \in Nat /\ errors < MaxErrors
        BY <1>1 DEF PlaceInv, TypeOK
      <3>2. /\ errors' = errors + 1
            /\ IF errors + 1 >= MaxErrors THEN stop' = TRUE /\ pc' = "cleanup"
               ELSE pc' = "top" /\ UNCHANGED stop
        BY <2>2 DEF GstReject
      <3>3. errors' \in 0..MaxErrors /\ (pc' # "cleanup" => errors' < MaxErrors)
        BY <3>1, <3>2
      <3>4. stop' \in BOOLEAN /\ bus' \in BOOLEAN
        BY <1>1, <3>2 DEF TypeOK
      <3> QED
        BY <3>3, <3>4
    <2> QED
      BY <2>1, <2>2
  <1>5. TypeOK'
    <2>1. {current', held', shown'} \subseteq Numbers /\ live' \subseteq Pictures
      BY <1>1, <1>3 DEF TypeOK, Numbers
    <2> QED
      BY <1>1, <1>2, <1>4, <2>1 DEF TypeOK, Numbers
  <1>6. OrderInv'
    <2>1. {current', held', shown'} \subseteq {current, held, shown, 0}
      BY <1>1, <1>3
    <2>2. Before({0}, Waiting) /\ Before({0}, ToSet(vbv)) /\ 0 \in 0..received
      <3>0. ToSet(vbv) \subseteq Pictures
        BY Numbered
      <3>1. ToSet(vbv) \subseteq Nat \ {0} /\ received \in Nat
        <4>1. received \in 0..MaxUnits
          BY <1>n
        <4>2. received \in Nat
          BY <4>1
        <4>3. ToSet(vbv) \subseteq Nat \ {0}
          BY <3>0, <1>n, Zenon
        <4> QED
          BY <4>2, <4>3
      <3> QED
        BY <3>1, <1>n DEF Before
    <2>3. Before({current', held', shown'}, Waiting) /\ Before({current', held', shown'}, ToSet(vbv))
      BY <2>1, <2>2 DEF OrderInv, Before
    <2>4. ToSet(vbv) \cup Waiting \cup {current', held', shown'} \subseteq 0..received
      BY <2>1, <2>2 DEF OrderInv
    <2> QED
      BY <1>1, <1>2, <2>3, <2>4 DEF OrderInv
  <1>7. CutInv'
    BY <1>1, <1>2 DEF CutInv
  <1>8. PlaceInv'
    <2>1. path # "gst" => held' = None
      BY <1>3 DEF PlaceInv
    <2>2. path = "gst" => held' = shown'
      BY <1>1, <1>3 DEF PlaceInv
    <2>3. /\ Imx => lib = <<>>
          /\ Gst => ready = <<>> /\ vbv = <<>>
      BY DEF PlaceInv
    <2> QED
      BY <1>1, <1>2, <1>4, <2>1, <2>2, <2>3 DEF PlaceInv
  <1>9. LiveInv'
    <2>1. /\ current \notin Waiting /\ held \notin Waiting /\ held # current
      <3>1. \A n \in Waiting : current < n /\ held < n
        BY DEF OrderInv, Before
      <3>2. held < current /\ held \in Nat /\ current \in Nat
        BY <1>1, <1>n DEF OrderInv
      <3> QED
        BY <3>1, <3>2
    <2>2. live = (Waiting \cup {current, held}) \ {0}
      BY DEF LiveInv
    <2>3. path # "gst" => held = 0
      BY DEF PlaceInv
    <2>4. live' = (Waiting \cup {held'}) \ {0}
      BY <1>3, <2>1, <2>2, <2>3
    <2> QED
      BY <1>1, <1>2, <2>4 DEF LiveInv
  <1> QED
    BY <1>5, <1>6, <1>7, <1>8, <1>9

LEMMA CleanupKeeps ==
    ASSUME TypeOK, PicInv, Cleanup
    PROVE  TypeOK' /\ PicInv'
  <1> USE DEF PicInv
  <1>1. /\ live' = {} /\ vbv' = <<>> /\ lib' = <<>> /\ ready' = <<>>
        /\ current' = None /\ held' = None /\ pc' = "done"
        /\ UNCHANGED <<path, sent, received, cut, shown, errors, bus, stop>>
    BY DEF Cleanup
  <1>2. <<>> \in Seq(Pictures) /\ Len(<<>>) = 0 /\ ToSet(<<>>) = {} /\ Increasing(<<>>)
    BY EmptySeq DEF ToSet, Increasing
  <1>3. /\ {vbv', lib', ready'} \subseteq Seq(Pictures)
        /\ Len(vbv') = 0 /\ Len(lib') = 0 /\ Len(ready') = 0
        /\ Increasing(vbv') /\ Increasing(lib') /\ Increasing(ready')
        /\ ToSet(vbv') = {} /\ ToSet(lib') = {} /\ ToSet(ready') = {}
    BY <1>1, <1>2
  <1>4. Waiting' = {} /\ Imx' = Imx /\ Gst' = Gst
    BY <1>1, <1>3 DEF Waiting, Imx, Gst
  <1>5. TypeOK'
    BY <1>1, <1>3, <1>4 DEF TypeOK, Numbers
  <1>6. OrderInv'
    <2>1. received \in Nat /\ shown \in 0..received /\ received <= sent
      BY Numbered DEF OrderInv
    <2> QED
      BY <1>1, <1>3, <1>4, <2>1 DEF OrderInv, Before
  <1>7. CutInv' /\ LiveInv'
    BY <1>1, <1>4 DEF CutInv, LiveInv, Before
  <1>8. PlaceInv'
    BY <1>1, <1>4 DEF PlaceInv
  <1> QED
    BY <1>5, <1>6, <1>7, <1>8

----
(* The theorems. *)

LEMMA StepKeeps ==
    ASSUME TypeOK, PicInv, [Next]_vars
    PROVE  TypeOK' /\ PicInv'
  <1>1. CASE Quiet
    BY <1>1, QuietKeeps
  <1>2. CASE CedarReceive
    BY <1>2, CedarDecodes
  <1>3. CASE CedarDrain
    BY <1>3, CedarDrains
  <1>4. CASE ImxDeliver
    BY <1>4, ImxDelivers
  <1>5. CASE ImxReceive
    BY <1>5, ImxReceives
  <1>6. CASE GstDecode
    BY <1>6, GstDecodes
  <1>7. CASE GstPull
    BY <1>7, GstPulls
  <1>8. CASE Present \/ GstReject
    BY <1>8, UsesCurrent
  <1>9. CASE Cleanup
    BY <1>9, CleanupKeeps
  <1>10. Done => UNCHANGED vars
    BY DEF Done
  <1> QED
    BY <1>1, <1>2, <1>3, <1>4, <1>5, <1>6, <1>7, <1>8, <1>9, <1>10 DEF Next, Loop, Poll, Quiet

\* Every variable has a value the code can give it and the queues keep to their
\* limits; units and pictures pass through them in order (poll, drain_picture,
\* decode_available, mark_presented and the loops of the preview).
THEOREM PicturesInOrder == Spec => [](TypeOK /\ PicInv)
  <1>1. Init => TypeOK /\ PicInv
    BY InitInv
  <1>2. (TypeOK /\ PicInv) /\ [Next]_vars => (TypeOK /\ PicInv)'
    BY StepKeeps
  <1> QED
    BY <1>1, <1>2, PTL DEF Spec

\* Each buffer that is out has exactly one owner, also when a queue overflows, the
\* stream changes, a sample is rejected or presenting fails; and the GStreamer
\* branch keeps the sample on the plane until it has presented the next one
\* (return_picture, return_frame, held_sample).
THEOREM BuffersHeldAlways == Spec => []BuffersHeld
  <1>1. ASSUME TypeOK, PicInv PROVE BuffersHeld
    <2> USE DEF PicInv
    <2>n. /\ lib \in Seq(Pictures) /\ ready \in Seq(Pictures)
          /\ Waiting \subseteq Pictures /\ Pictures \subseteq Nat \ {0}
          /\ {current, held, shown} \subseteq 0..MaxUnits
      BY <1>1, Numbered
    <2>1. Queued \in Seq(Pictures) /\ ToSet(Queued) = Waiting /\ Increasing(Queued)
      <3>1. Increasing(ready) /\ Increasing(lib) /\ Before(ToSet(ready), ToSet(lib))
        BY <1>1 DEF OrderInv
      <3>2. /\ ready \o lib \in Seq(Pictures)
            /\ ToSet(ready \o lib) = ToSet(ready) \cup ToSet(lib) /\ Increasing(ready \o lib)
        BY <2>n, <3>1, JoinedQueues
      <3> QED
        BY <3>2 DEF Queued, Waiting
    <2>2. IsInjective(Queued)
      <3>1. /\ DOMAIN Queued = 1..Len(Queued) /\ Len(Queued) \in Nat
            /\ \A i \in 1..Len(Queued) : Queued[i] \in Pictures
        BY <2>1, Members
      <3>2. ASSUME NEW i \in 1..Len(Queued), NEW j \in 1..Len(Queued), Queued[i] = Queued[j]
            PROVE  i = j
        <4>1. /\ i < j => Queued[i] < Queued[j]
              /\ j < i => Queued[j] < Queued[i]
          BY <2>1 DEF Increasing
        <4>2. Queued[i] \in Nat /\ Queued[j] \in Nat
          BY <2>n, <3>1
        <4> QED
          BY <3>1, <3>2, <4>1, <4>2
      <3> QED
        BY <3>1, <3>2 DEF IsInjective
    <2>3. ToSet(Queued) \cap {current, held} = {}
      <3>1. \A n \in Waiting : current < n /\ held < n
        BY <1>1 DEF OrderInv, Before
      <3> QED
        BY <2>1, <2>n, <3>1
    <2>4. current # None => current # held
      BY <1>1, <2>n DEF OrderInv
    <2>5. live = (ToSet(Queued) \cup {current, held}) \ {None}
      BY <1>1, <2>1 DEF LiveInv
    <2>6. path = "gst" => ScanoutHeld
      BY <1>1, <2>5 DEF ScanoutHeld, PlaceInv
    <2> QED
      BY <1>1, <2>2, <2>3, <2>4, <2>5, <2>6 DEF BuffersHeld
  <1> QED
    BY <1>1, PicturesInOrder, PTL

\* The display never goes back to an earlier picture, and never gets one with the
\* layout of a stream that came after it (deliver_ready_frame, update_stream_info,
\* mark_presented and the presenter loops).
THEOREM ShownInOrderAlways == Spec => ShownInOrder
  <1>1. ASSUME TypeOK, PicInv, [Next]_vars, shown' # shown
        PROVE  shown' > shown /\ shown' > cut
    <2> USE DEF PicInv
    <2>1. CASE Present
      <3>1. pc = "present" /\ shown' = current
        BY <2>1 DEF Present
      <3>2. current # None
        BY <1>1, <3>1 DEF PlaceInv
      <3>3. shown < current /\ cut < current
        BY <1>1, <3>2 DEF OrderInv, CutInv
      <3> QED
        BY <3>1, <3>3
    <2>2. ~Present => shown' = shown
      BY <1>1 DEF Next, Loop, Poll, Send, GstDecode, GstMessage, RequestStop, StartPass, Fails,
                  CedarReceive, CedarSocketEmpty, CedarDrain, ImxDeliver, ImxReceive,
                  ImxSocketEmpty, GstTimeout, GstPull, GstReject, Cleanup, Done, vars, outVars
    <2> QED
      BY <1>1, <2>1, <2>2
  <1>2. (TypeOK /\ PicInv) /\ [Next]_vars => [shown' # shown => shown' > shown /\ shown' > cut]_vars
    BY <1>1
  <1> QED
    BY <1>2, PicturesInOrder, PTL DEF Spec, ShownInOrder
====

---- MODULE ControlBus_proofs ----
(***************************************************************************)
(* Proofs about the control plane, for any number of toggles, actions,     *)
(* outages and restarts and for any size of the socket buffers.            *)
(*                                                                         *)
(* What a client will show is what the last line on its way to it says,    *)
(* and what the controller will hold is what the last request on its way   *)
(* says.  The invariant relates the two, for a client none of whose        *)
(* requests of the kind is still on its way.                               *)
(***************************************************************************)
EXTENDS ControlBus, SequenceTheorems, WellFoundedInduction, NaturalsInduction, TLAPS

----
(* The last line of a kind.                                                 *)

LessThan == {pair \in Nat \X Nat : pair[1] < pair[2]}

\* A set of places in a sequence has a last one.
LEMMA LastPlace ==
    ASSUME NEW n \in Nat, NEW S \in SUBSET (1..n), S # {}
    PROVE  Max(S) \in S /\ \A i \in S : i <= Max(S)
  <1>1. LessThan = OpToRel(<, Nat)
    BY DEF LessThan, OpToRel
  <1>2. IsWellFoundedOn(LessThan, Nat)
    BY <1>1, NatLessThanWellFounded
  <1> HIDE DEF LessThan
  <1> DEFINE T == {n - i : i \in S}
  <1>0. \A i \in S : n - i \in Nat
    OBVIOUS
  <1>3. T \subseteq Nat /\ T # {}
    BY <1>0, Zenon
  <1>4. PICK t \in T : \A u \in T : ~(<<u, t>> \in LessThan)
    BY <1>2, <1>3, WFMin
  <1>5. \A u \in T : ~(u < t)
    BY <1>3, <1>4 DEF LessThan
  <1>6. PICK i \in S : t = n - i
    BY <1>4
  <1>7. \A j \in S : ~(n - j < n - i)
    BY <1>5, <1>6
  <1>8. \A j \in S : i >= j
    BY <1>7
  <1> QED
    BY <1>8 DEF Max

\* The line at i is the last one of its kind; none is of the kind.
LastAt(s, kind, i) ==
    i \in 1..Len(s) /\ s[i][1] = kind /\ \A j \in 1..Len(s) : j > i => s[j][1] # kind
None(s, kind) == \A i \in 1..Len(s) : s[i][1] # kind

Places(s, kind) == {i \in 1..Len(s) : s[i][1] = kind}

LEMMA LastOfPlaces ==
    ASSUME NEW L, NEW s \in Seq(L), NEW kind, NEW d
    PROVE  /\ LastOf(s, kind, d) = IF Places(s, kind) = {} THEN d ELSE s[Max(Places(s, kind))][2]
           /\ Len(s) \in Nat
  BY LenProperties DEF LastOf, Places

LEMMA LastOfIs ==
    ASSUME NEW L, NEW s \in Seq(L), NEW kind, NEW d, NEW i, LastAt(s, kind, i)
    PROVE  LastOf(s, kind, d) = s[i][2]
  <1> DEFINE P == Places(s, kind)
  <1>1. Len(s) \in Nat /\ P \in SUBSET (1..Len(s)) /\ i \in P
    BY LastOfPlaces DEF Places, LastAt
  <1>2. Max(P) \in P /\ i <= Max(P)
    BY <1>1, LastPlace
  <1>3. Max(P) = i
    BY <1>1, <1>2 DEF Places, LastAt
  <1> QED
    BY <1>1, <1>3, LastOfPlaces

LEMMA LastOfNone ==
    ASSUME NEW L, NEW s \in Seq(L), NEW kind, NEW d, None(s, kind)
    PROVE  LastOf(s, kind, d) = d
  <1>1. Places(s, kind) = {}
    BY DEF Places, None
  <1> QED
    BY <1>1, LastOfPlaces, Zenon

\* There is a last one, or none.
LEMMA LastOfSplit ==
    ASSUME NEW L, NEW s \in Seq(L), NEW kind
    PROVE  None(s, kind) \/ \E i : LastAt(s, kind, i)
  <1> DEFINE P == Places(s, kind)
  <1>1. Len(s) \in Nat /\ P \in SUBSET (1..Len(s))
    BY LastOfPlaces DEF Places
  <1>2. CASE P = {}
    BY <1>2 DEF Places, None
  <1>3. CASE P # {}
    <2>1. Max(P) \in P /\ \A j \in P : j <= Max(P)
      BY <1>1, <1>3, LastPlace
    <2> DEFINE m == Max(P)
    <2> HIDE DEF m
    <2>2. m \in 1..Len(s) /\ s[m][1] = kind
      BY <2>1 DEF Places, m
    <2>3. ASSUME NEW j \in 1..Len(s), j > m PROVE s[j][1] # kind
      BY <1>1, <2>1, <2>2, <2>3 DEF Places, m
    <2>4. LastAt(s, kind, m)
      BY <2>2, <2>3 DEF LastAt
    <2> QED
      BY <2>4
  <1> QED
    BY <1>2, <1>3

\* Lines that come after others.
LEMMA LastOfJoined ==
    ASSUME NEW L, NEW s \in Seq(L), NEW t \in Seq(L), NEW kind, NEW d
    PROVE  LastOf(s \o t, kind, d) = LastOf(t, kind, LastOf(s, kind, d))
  <1> DEFINE u == s \o t
  <1>1. /\ u \in Seq(L) /\ Len(u) = Len(s) + Len(t) /\ Len(s) \in Nat /\ Len(t) \in Nat
        /\ \A i \in 1..Len(s) + Len(t) : u[i] = IF i <= Len(s) THEN s[i] ELSE t[i - Len(s)]
    BY ConcatProperties, LenProperties
  <1> HIDE DEF u
  <1>8. u \in Seq(L)
    BY <1>1
  <1>2. \A i \in 1..Len(s) : u[i] = s[i] /\ i \in 1..Len(u)
    BY <1>1
  <1>3. ASSUME NEW i \in 1..Len(t) PROVE u[Len(s) + i] = t[i] /\ Len(s) + i \in 1..Len(u)
    <2>1. Len(s) + i \in 1..Len(s) + Len(t) /\ ~(Len(s) + i <= Len(s)) /\ (Len(s) + i) - Len(s) = i
      BY <1>1
    <2> QED
      BY <1>1, <2>1
  <1>4. ASSUME NEW j \in 1..Len(u), j > Len(s) PROVE j - Len(s) \in 1..Len(t) /\ u[j] = t[j - Len(s)]
    BY <1>1, <1>4
  <1>5. CASE None(t, kind)
    <2>1. LastOf(t, kind, LastOf(s, kind, d)) = LastOf(s, kind, d)
      BY <1>5, LastOfNone, Zenon
    <2>2. CASE None(s, kind)
      <3>1. None(u, kind)
        <4>1. ASSUME NEW i \in 1..Len(u) PROVE u[i][1] # kind
          <5>1. CASE i <= Len(s)
            BY <1>1, <1>2, <2>2, <5>1 DEF None
          <5>2. CASE i > Len(s)
            BY <1>4, <1>5, <5>2 DEF None
          <5> QED
            BY <1>1, <5>1, <5>2
        <4> QED
          BY <4>1 DEF None
      <3>2. LastOf(s, kind, d) = d
        BY <2>2, LastOfNone, Zenon
      <3>3. LastOf(u, kind, d) = d
        BY <1>1, <3>1, LastOfNone, Zenon
      <3> QED
        BY <2>1, <3>2, <3>3, Zenon DEF u
    <2>3. ASSUME NEW i, LastAt(s, kind, i)
          PROVE  LastOf(u, kind, d) = LastOf(s, kind, d)
      <3>0. i \in 1..Len(s)
        BY <2>3 DEF LastAt
      <3>1. ASSUME NEW j \in 1..Len(u), j > i PROVE u[j][1] # kind
        <4>1. CASE j <= Len(s)
          BY <1>1, <1>2, <2>3, <3>1, <4>1 DEF LastAt
        <4>2. CASE j > Len(s)
          BY <1>4, <1>5, <4>2 DEF None
        <4> QED
          BY <1>1, <4>1, <4>2
      <3>2. LastAt(u, kind, i)
        BY <1>2, <2>3, <3>0, <3>1 DEF LastAt
      <3>3. LastOf(u, kind, d) = u[i][2]
        BY <1>8, <3>2, LastOfIs, Zenon
      <3>4. LastOf(s, kind, d) = s[i][2]
        BY <2>3, LastOfIs, Zenon
      <3> QED
        BY <1>2, <3>0, <3>3, <3>4
    <2>4. None(s, kind) \/ \E i : LastAt(s, kind, i)
      BY LastOfSplit, Zenon
    <2> QED
      BY <2>1, <2>2, <2>3, <2>4, Zenon DEF u
  <1>6. ASSUME NEW i, LastAt(t, kind, i)
        PROVE  LastOf(u, kind, d) = LastOf(t, kind, LastOf(s, kind, d))
    <2> DEFINE k == Len(s) + i
    <2>0. i \in 1..Len(t)
      BY <1>6 DEF LastAt
    <2>1. k \in 1..Len(u) /\ u[k] = t[i] /\ k > Len(s)
      BY <1>1, <1>3, <2>0
    <2>2. ASSUME NEW j \in 1..Len(u), j > k PROVE u[j][1] # kind
      <3>1. j > Len(s) /\ j - Len(s) > i
        BY <1>1, <2>0, <2>2
      <3> QED
        BY <1>4, <1>6, <3>1 DEF LastAt
    <2> HIDE DEF k
    <2>3. LastAt(u, kind, k)
      BY <1>6, <2>1, <2>2 DEF LastAt
    <2>4. LastOf(u, kind, d) = u[k][2]
      BY <1>8, <2>3, LastOfIs, Zenon
    <2>5. LastOf(t, kind, LastOf(s, kind, d)) = t[i][2]
      BY <1>6, LastOfIs, Zenon
    <2> QED
      BY <2>1, <2>4, <2>5
  <1>7. None(t, kind) \/ \E i : LastAt(t, kind, i)
    BY LastOfSplit, Zenon
  <1> QED
    BY <1>5, <1>6, <1>7, Zenon DEF u

\* One line, two lines, and lines joined.
LEMMA OneLine ==
    ASSUME NEW L, NEW x \in L, NEW kind, NEW d
    PROVE  /\ <<x>> \in Seq(L)
           /\ None(<<x>>, kind) <=> x[1] # kind
           /\ LastOf(<<x>>, kind, d) = IF x[1] = kind THEN x[2] ELSE d
  <1> DEFINE s == <<x>>
  <1>1. s \in Seq(L) /\ Len(s) = 1 /\ s[1] = x
    OBVIOUS
  <1> HIDE DEF s
  <1>2. None(s, kind) <=> x[1] # kind
    BY <1>1 DEF None
  <1>3. CASE x[1] = kind
    <2>1. LastAt(s, kind, 1)
      BY <1>1, <1>3 DEF LastAt
    <2>2. LastOf(s, kind, d) = s[1][2]
      BY <1>1, <2>1, LastOfIs, Zenon
    <2> QED
      BY <1>1, <1>2, <1>3, <2>2 DEF s
  <1>4. CASE x[1] # kind
    <2>1. LastOf(s, kind, d) = d
      BY <1>1, <1>2, <1>4, LastOfNone, Zenon
    <2> QED
      BY <1>1, <1>2, <1>4, <2>1 DEF s
  <1> QED
    BY <1>3, <1>4

LEMMA NoneJoined ==
    ASSUME NEW L, NEW s \in Seq(L), NEW t \in Seq(L), NEW kind
    PROVE  None(s \o t, kind) <=> None(s, kind) /\ None(t, kind)
  <1> DEFINE u == s \o t
  <1>1. /\ u \in Seq(L) /\ Len(u) = Len(s) + Len(t) /\ Len(s) \in Nat /\ Len(t) \in Nat
        /\ \A i \in 1..Len(s) + Len(t) : u[i] = IF i <= Len(s) THEN s[i] ELSE t[i - Len(s)]
    BY ConcatProperties, LenProperties
  <1> HIDE DEF u
  <1>2. ASSUME None(s, kind), None(t, kind), NEW i \in 1..Len(u) PROVE u[i][1] # kind
    <2>1. CASE i <= Len(s)
      BY <1>1, <1>2, <2>1 DEF None
    <2>2. CASE ~(i <= Len(s))
      <3>1. i - Len(s) \in 1..Len(t) /\ u[i] = t[i - Len(s)]
        BY <1>1, <2>2
      <3> QED
        BY <1>2, <3>1 DEF None
    <2> QED
      BY <2>1, <2>2
  <1>3. ASSUME None(u, kind), NEW i \in 1..Len(s) PROVE s[i][1] # kind
    BY <1>1, <1>3 DEF None
  <1>4. ASSUME None(u, kind), NEW i \in 1..Len(t) PROVE t[i][1] # kind
    <2>1. Len(s) + i \in 1..Len(u) /\ ~(Len(s) + i <= Len(s)) /\ (Len(s) + i) - Len(s) = i
      BY <1>1
    <2>2. u[Len(s) + i] = t[i]
      BY <1>1, <2>1
    <2> QED
      BY <1>4, <2>1, <2>2 DEF None
  <1>5. None(s, kind) /\ None(t, kind) => None(u, kind)
    BY <1>2 DEF None
  <1>6. None(u, kind) => None(s, kind) /\ None(t, kind)
    BY <1>3, <1>4 DEF None
  <1> QED
    BY <1>5, <1>6 DEF u

\* A line added: what it says is the last of its kind, and of no other kind.
LEMMA Added ==
    ASSUME NEW L, NEW s \in Seq(L), NEW x \in L, NEW kind, NEW d
    PROVE  /\ s \o <<x>> \in Seq(L) /\ Len(s \o <<x>>) = Len(s) + 1
           /\ None(s \o <<x>>, kind) <=> None(s, kind) /\ x[1] # kind
           /\ LastOf(s \o <<x>>, kind, d) = IF x[1] = kind THEN x[2] ELSE LastOf(s, kind, d)
  <1> DEFINE t == <<x>>
             e == LastOf(s, kind, d)
  <1>1. t \in Seq(L) /\ (None(t, kind) <=> x[1] # kind)
        /\ LastOf(t, kind, e) = IF x[1] = kind THEN x[2] ELSE e
    BY OneLine
  <1>2. Len(t) = 1
    OBVIOUS
  <1> HIDE DEF t
  <1>7. t \in Seq(L)
    BY <1>1
  <1>3. LastOf(s \o t, kind, d) = LastOf(t, kind, LastOf(s, kind, d))
    BY <1>7, LastOfJoined
  <1> HIDE DEF e
  <1>4. None(s \o t, kind) <=> None(s, kind) /\ None(t, kind)
    BY <1>1, NoneJoined, Zenon
  <1>5. s \o t \in Seq(L) /\ Len(s \o t) = Len(s) + Len(t)
    BY <1>1, ConcatProperties
  <1>6. Len(s \o t) = Len(s) + 1
    BY <1>2, <1>5
  <1> QED
    BY <1>1, <1>3, <1>4, <1>5, <1>6, Zenon DEF t, e

\* What the last line says is what some line says, or the default.
LEMMA LastOfAmong ==
    ASSUME NEW L, NEW s \in Seq(L), NEW kind, NEW d, NEW T, d \in T,
           \A x \in L : x[1] = kind => x[2] \in T
    PROVE  LastOf(s, kind, d) \in T
  <1>1. CASE None(s, kind)
    BY <1>1, LastOfNone, Zenon
  <1>2. ASSUME NEW i, LastAt(s, kind, i) PROVE LastOf(s, kind, d) \in T
    <2>1. i \in 1..Len(s) /\ s[i][1] = kind
      BY <1>2 DEF LastAt
    <2>2. s[i] \in L
      BY <2>1, ElementOfSeq
    <2>3. LastOf(s, kind, d) = s[i][2]
      BY <1>2, LastOfIs, Zenon
    <2> QED
      BY <2>1, <2>2, <2>3
  <1> QED
    BY <1>1, <1>2, LastOfSplit, Zenon

----
(* Requests: lines to the controller, which events holds with their senders. *)

ToLines   == {"hello", "set", "connect", "disconnect", "mav"} \X BOOLEAN
FromLines == ({"setting", "mav"} \X BOOLEAN) \cup ({"telemetry"} \X Status)
Requests  == [from : Clients, line : ToLines]

\* No request in e is from client c and of the kind, and what the requests say.
NoneFrom(e, c, kind) == \A i \in 1..Len(e) : e[i].from = c => e[i].line[1] # kind
Said(e) == [i \in 1..Len(e) |-> e[i].line]

LEMMA SaidLines ==
    ASSUME NEW e \in Seq(Requests)
    PROVE  /\ Said(e) \in Seq(ToLines) /\ Len(Said(e)) = Len(e) /\ Len(e) \in Nat
           /\ \A i \in 1..Len(e) : Said(e)[i] = e[i].line /\ e[i] \in Requests
  <1>1. Len(e) \in Nat /\ \A i \in 1..Len(e) : e[i] \in Requests
    BY LenProperties, ElementOfSeq
  <1>2. \A i \in 1..Len(e) : e[i].line \in ToLines
    BY <1>1 DEF Requests
  <1> DEFINE s == Said(e)
  <1>3. s \in [1..Len(e) -> ToLines] /\ \A i \in 1..Len(e) : s[i] = e[i].line
    BY <1>2 DEF Said
  <1> HIDE DEF s
  <1>4. s \in Seq(ToLines)
    BY <1>1, <1>3
  <1>5. Len(s) = Len(e)
    BY <1>1, <1>3, <1>4, LenProperties
  <1> QED
    BY <1>1, <1>3, <1>4, <1>5 DEF s

\* The first request is taken, and the others stay.
LEMMA Taken ==
    ASSUME NEW e \in Seq(Requests), e # <<>>
    PROVE  /\ Tail(e) \in Seq(Requests) /\ Head(e) \in Requests
           /\ Len(Tail(e)) = Len(e) - 1 /\ Len(e) \in Nat /\ Len(e) >= 1
           /\ Head(e) = e[1] /\ \A i \in 1..Len(Tail(e)) : Tail(e)[i] = e[i + 1]
           /\ \A c, kind : NoneFrom(e, c, kind) <=>
                 NoneFrom(Tail(e), c, kind) /\ ~(Head(e).from = c /\ Head(e).line[1] = kind)
           /\ Said(e) = <<Head(e).line>> \o Said(Tail(e))
  <1>1. Len(e) \in Nat \ {0}
    BY EmptySeq
  <1>2. /\ Head(e) \in Requests /\ Tail(e) \in Seq(Requests) /\ Len(Tail(e)) = Len(e) - 1
        /\ \A i \in 1..Len(Tail(e)) : Tail(e)[i] = e[i + 1]
    BY HeadTailProperties
  <1>3. Head(e) = e[1]
    BY <1>1
  <1> DEFINE h == Head(e)
             t == Tail(e)
  <1> HIDE DEF h, t
  <1>4. ASSUME NEW c, NEW kind
        PROVE  NoneFrom(e, c, kind) <=>
                 NoneFrom(t, c, kind) /\ ~(h.from = c /\ h.line[1] = kind)
    <2>1. ASSUME NoneFrom(e, c, kind)
          PROVE  NoneFrom(t, c, kind) /\ ~(h.from = c /\ h.line[1] = kind)
      <3>1. ~(h.from = c /\ h.line[1] = kind)
        BY <1>1, <1>3, <2>1, 1 \in 1..Len(e) DEF NoneFrom, h
      <3>2. ASSUME NEW i \in 1..Len(t), t[i].from = c PROVE t[i].line[1] # kind
        <4>1. i + 1 \in 1..Len(e) /\ t[i] = e[i + 1]
          BY <1>1, <1>2 DEF t
        <4> QED
          BY <2>1, <3>2, <4>1 DEF NoneFrom
      <3> QED
        BY <3>1, <3>2 DEF NoneFrom
    <2>2. ASSUME NoneFrom(t, c, kind), ~(h.from = c /\ h.line[1] = kind)
          PROVE  NoneFrom(e, c, kind)
      <3>1. ASSUME NEW i \in 1..Len(e), e[i].from = c PROVE e[i].line[1] # kind
        <4>1. CASE i = 1
          BY <1>3, <2>2, <3>1, <4>1 DEF h
        <4>2. CASE i # 1
          <5>1. i - 1 \in 1..Len(t) /\ t[i - 1] = e[(i - 1) + 1] /\ (i - 1) + 1 = i
            BY <1>1, <1>2, <4>2 DEF t
          <5> QED
            BY <2>2, <3>1, <5>1 DEF NoneFrom
        <4> QED
          BY <4>1, <4>2
      <3> QED
        BY <3>1 DEF NoneFrom
    <2> QED
      BY <2>1, <2>2
  <1>5. Said(e) = <<h.line>> \o Said(t)
    <2> DEFINE a == <<h.line>>
               b == Said(t)
               s == Said(e)
    <2>1. h.line \in ToLines
      BY <1>2 DEF Requests, h
    <2>2. a \in Seq(ToLines) /\ Len(a) = 1 /\ a[1] = h.line
      BY <2>1
    <2>3. b \in Seq(ToLines) /\ Len(b) = Len(e) - 1 /\ \A i \in 1..Len(t) : b[i] = t[i].line
      BY <1>2, SaidLines DEF t
    <2>4. s \in Seq(ToLines) /\ Len(s) = Len(e) /\ \A i \in 1..Len(e) : s[i] = e[i].line
      BY SaidLines
    <2> HIDE DEF a, b, s
    <2>5. /\ a \o b \in Seq(ToLines) /\ Len(a \o b) = Len(a) + Len(b)
          /\ \A i \in 1..Len(a) + Len(b) : (a \o b)[i] = IF i <= Len(a) THEN a[i] ELSE b[i - Len(a)]
      BY <2>2, <2>3, ConcatProperties
    <2> DEFINE ab == a \o b
    <2>6. /\ ab \in Seq(ToLines) /\ Len(ab) = Len(e)
          /\ \A i \in 1..Len(e) : ab[i] = IF i <= 1 THEN a[i] ELSE b[i - 1]
      BY <1>1, <2>2, <2>3, <2>5
    <2> HIDE DEF ab
    <2>7. ASSUME NEW i \in 1..Len(e) PROVE s[i] = ab[i]
      <3>1. CASE i = 1
        BY <1>3, <2>2, <2>4, <2>6, <3>1 DEF h
      <3>2. CASE i # 1
        <4>1. i - 1 \in 1..Len(t) /\ t[i - 1] = e[(i - 1) + 1] /\ (i - 1) + 1 = i /\ ~(i <= 1)
          BY <1>1, <1>2, <3>2 DEF t
        <4>2. b[i - 1] = e[i].line
          BY <2>3, <4>1
        <4> QED
          BY <2>4, <2>6, <4>1, <4>2
      <3> QED
        BY <3>1, <3>2
    <2>8. s = ab
      BY <2>4, <2>6, <2>7, SeqEqual
    <2> QED
      BY <2>8 DEF s, ab, a, b
  <1> QED
    BY <1>1, <1>2, <1>3, <1>4, <1>5 DEF h, t

----
(* The invariant. *)

\* The shape of the state, with the lines that may be in a socket.
TypeInv ==
    /\ TypeOK
    /\ toCtl \in [Clients -> Seq(ToLines)] /\ toClient \in [Clients -> Seq(FromLines)]
    /\ events \in Seq(Requests) /\ want \subseteq BOOLEAN

\* The two ends of a socket: who has been accepted is connected, who is
\* connected and not accepted has its hello in the socket, and the controller
\* handles what it read before it reads again.
SockInv ==
    /\ \A c \in known : sock[c] = "open"
    /\ \A c \in Clients : sock[c] # "open" => toCtl[c] = <<>>
    /\ \A c \in Clients : sock[c] = "open" => c \in known \/ ~None(toCtl[c], "hello")
    /\ ctl # "up" => \A c \in Clients : sock[c] # "open"
    /\ ctlPc # "events" => events = <<>>
    /\ None(toCtl["flow"], "set")
    /\ \A i \in 1..Len(events) : events[i].from \in known

\* No request of the kind is on its way from c.
Unasked(c, kind) == None(toCtl[c], kind) /\ NoneFrom(events, c, kind)

\* Client c is connected, and its socket has taken every line.
Whole(c) == sock[c] = "open" /\ ~lost[c]

\* What c will show once it has read its lines, and what the controller will
\* hold once it has handled those of glide-ui.
WillShow(c)   == LastOf(toClient[c], "setting", view[c])
WillReport    == LastOf(toClient["ui"], "telemetry", uiTelem)
WillHold      == LastOf(toCtl["ui"], "set", LastOf(Said(events), "set", setting))

ViewInv ==
    \A c \in Clients : Whole(c) /\ Unasked(c, "hello") /\ Unasked(c, "set")
                         => WillShow(c) = setting

TelemInv ==
    Whole("ui") /\ Unasked("ui", "hello") /\ Unasked("ui", "connect") => WillReport = telem

WantInv == Whole("ui") => \A v \in want : WillHold = v

BusInv == TypeInv /\ SockInv /\ ViewInv /\ TelemInv /\ WantInv

\* A TCP connection the KMS controller believes in is one it has.
TrueInv == mode = "kms" /\ ctl = "up" /\ telem = "tcp" => bridge = "tcp"

----
(* The telemetry connection. *)

LEMMA TrueKeeps ==
    ASSUME TrueInv, [Next]_vars
    PROVE  TrueInv'
  <1> USE DEF TrueInv, telVars, ctlVars, sockVars, uiVars
  <1>1. CASE PollBridge
    BY <1>1 DEF PollBridge, BridgePolled, CheckTelemetry, CloseBridge
  <1>2. CASE PollIpc
    BY <1>2 DEF PollIpc
  <1>3. CASE HandleEvent
    <2>1. CASE Hello(Head(events).from)
      BY <1>3, <2>1 DEF HandleEvent, Hello
    <2>2. CASE SetSetting(Head(events).line[2])
      BY <1>3, <2>2 DEF HandleEvent, SetSetting
    <2>3. CASE ConnectTelemetry
      BY <1>3, <2>3 DEF HandleEvent, ConnectTelemetry, Connected
    <2>4. CASE DisconnectTelemetry
      BY <1>3, <2>4 DEF HandleEvent, DisconnectTelemetry
    <2>5. CASE SendAction(Head(events).line[2])
      BY <1>3, <2>5 DEF HandleEvent, SendAction
    <2> QED
      BY <1>3, <2>1, <2>2, <2>3, <2>4, <2>5, Zenon DEF HandleEvent, Handled
  <1>4. CASE LoopEnd
    BY <1>4 DEF LoopEnd
  <1>5. CASE KilledBySigpipe
    BY <1>5 DEF KilledBySigpipe
  <1>6. CASE Stop
    BY <1>6 DEF Stop
  <1>7. CASE Start
    BY <1>7 DEF Start, FirstTelemetry
  <1>8. ASSUME NEW due \in BOOLEAN, Ui(due) PROVE TrueInv'
    BY <1>8 DEF Ui, ConnectUi, PollUi
  <1>9. CASE ReadControlFiles \/ User \/ ConnectFlow \/ PollFlow
    BY <1>9 DEF ReadControlFiles, User, Toggle, AskConnect, AskDisconnect, AskAction,
                ConnectFlow, PollFlow
  <1>10. CASE PeerDown \/ PeerUp \/ PeerResets
    BY <1>10 DEF PeerDown, PeerUp, PeerResets
  <1>11. CASE UNCHANGED vars
    BY <1>11 DEF vars
  <1> QED
    BY <1>1, <1>2, <1>3, <1>4, <1>5, <1>6, <1>7, <1>8, <1>9, <1>10, <1>11 DEF Next, Controller

\* The KMS controller never believes in a TCP connection it does not have
\* (poll_runtime_controls: the check after UdpBridge::poll, and
\* handle_telemetry_connection_line).
THEOREM TelemetryTrue == Spec => []TelemetryIsTrue
  <1>1. Init => TrueInv
    BY DEF Init, TrueInv, FirstTelemetry
  <1>2. TrueInv /\ [Next]_vars => TrueInv'
    BY TrueKeeps
  <1>3. TrueInv => TelemetryIsTrue
    BY DEF TrueInv, TelemetryIsTrue
  <1> QED
    BY <1>1, <1>2, <1>3, PTL DEF Spec

----
(* Sending: what it does to the two sockets of a client. *)

LEMMA Sending ==
    ASSUME TypeInv, NEW cs, NEW lines \in Seq(FromLines), SendTo(cs, lines)
    PROVE  /\ toClient' \in [Clients -> Seq(FromLines)] /\ lost' \in [Clients -> BOOLEAN]
           /\ \A c \in Clients : Len(toClient'[c]) <= SockCap
           /\ \A c \in Clients : ~lost'[c] => ~lost[c]
           /\ \A c \in Clients : ~(c \in cs /\ c \in known /\ sock[c] = "open")
                  => toClient'[c] = toClient[c]
           /\ \A c \in Clients : c \in cs /\ c \in known /\ sock[c] = "open" /\ ~lost'[c]
                  => toClient'[c] = toClient[c] \o lines
  <1>1. /\ toClient \in [Clients -> Seq(FromLines)] /\ lost \in [Clients -> BOOLEAN]
        /\ \A c \in Clients : Len(toClient[c]) <= SockCap
    BY DEF TypeInv, TypeOK
  <1> DEFINE R(c) == c \in cs /\ c \in known /\ sock[c] = "open"
             F(c) == Len(toClient[c]) + Len(lines) <= SockCap
             J(c) == toClient[c] \o lines
  <1>2. /\ toClient' = [c \in Clients |-> IF R(c) /\ F(c) THEN J(c) ELSE toClient[c]]
        /\ lost' = [c \in Clients |-> lost[c] \/ (R(c) /\ ~F(c))]
    BY DEF SendTo, Fits
  <1>3. \A c \in Clients : J(c) \in Seq(FromLines) /\ Len(J(c)) = Len(toClient[c]) + Len(lines)
    BY <1>1, ConcatProperties
  <1>4. \A c \in Clients : F(c) => Len(J(c)) <= SockCap
    BY <1>3
  <1> HIDE DEF J, R, F
  <1>5. /\ \A c \in Clients : toClient'[c] = IF R(c) /\ F(c) THEN J(c) ELSE toClient[c]
        /\ \A c \in Clients : lost'[c] = (lost[c] \/ (R(c) /\ ~F(c)))
    BY <1>2
  <1>6. toClient' \in [Clients -> Seq(FromLines)]
    BY <1>1, <1>2, <1>3
  <1>7. lost' \in [Clients -> BOOLEAN]
    BY <1>1, <1>2, Zenon
  <1>8. \A c \in Clients : Len(toClient'[c]) <= SockCap
    BY <1>1, <1>4, <1>5
  <1>9. \A c \in Clients : ~lost'[c] => ~lost[c] /\ (R(c) => F(c))
    BY <1>5, Zenon
  <1> QED
    BY <1>5, <1>6, <1>7, <1>8, <1>9 DEF R, J

\* A line broadcast: every client that hears it has it last.
LEMMA Telling ==
    ASSUME TypeInv, SockInv, NEW line \in FromLines, Broadcast(line)
    PROVE  /\ toClient' \in [Clients -> Seq(FromLines)] /\ lost' \in [Clients -> BOOLEAN]
           /\ \A c \in Clients : Len(toClient'[c]) <= SockCap
           /\ \A c \in Clients : ~lost'[c] => ~lost[c]
           /\ \A c \in Clients : c \in known /\ ~lost'[c]
                  => \A kind, d : LastOf(toClient'[c], kind, d)
                        = IF line[1] = kind THEN line[2] ELSE LastOf(toClient[c], kind, d)
  <1>1. <<line>> \in Seq(FromLines)
    BY OneLine
  <1>2. SendTo(known, <<line>>)
    BY DEF Broadcast
  <1> DEFINE lines == <<line>>
  <1> HIDE DEF lines
  <1>3. lines \in Seq(FromLines) /\ SendTo(known, lines)
    BY <1>1, <1>2 DEF lines
  <1>4. /\ toClient' \in [Clients -> Seq(FromLines)] /\ lost' \in [Clients -> BOOLEAN]
        /\ \A c \in Clients : Len(toClient'[c]) <= SockCap
        /\ \A c \in Clients : ~lost'[c] => ~lost[c]
        /\ \A c \in Clients : c \in known /\ c \in known /\ sock[c] = "open" /\ ~lost'[c]
                  => toClient'[c] = toClient[c] \o lines
    BY <1>3, Sending
  <1>5. ASSUME NEW c \in Clients, c \in known, ~lost'[c], NEW kind, NEW d
        PROVE  LastOf(toClient'[c], kind, d)
                        = IF line[1] = kind THEN line[2] ELSE LastOf(toClient[c], kind, d)
    <2>1. sock[c] = "open"
      BY <1>5 DEF SockInv
    <2>2. toClient'[c] = toClient[c] \o <<line>>
      BY <1>4, <1>5, <2>1 DEF lines
    <2>3. toClient[c] \in Seq(FromLines)
      BY DEF TypeInv
    <2>4. LastOf(toClient[c] \o <<line>>, kind, d)
            = IF line[1] = kind THEN line[2] ELSE LastOf(toClient[c], kind, d)
      BY <2>3, Added
    <2> QED
      BY <2>2, <2>4, Zenon
  <1> QED
    BY <1>4, <1>5, Zenon

\* A request of glide-ui is in its socket, or the socket is no longer whole.
LEMMA Asking ==
    ASSUME TypeInv, NEW line \in ToLines, ClientSends("ui", <<line>>)
    PROVE  /\ toCtl' \in [Clients -> Seq(ToLines)] /\ lost' \in [Clients -> BOOLEAN]
           /\ \A c \in Clients : Len(toCtl'[c]) <= SockCap
           /\ \A c \in Clients : ~lost'[c] => ~lost[c]
           /\ toCtl'["flow"] = toCtl["flow"]
           /\ \A c \in Clients : sock[c] # "open" => toCtl'[c] = toCtl[c]
           /\ \A kind : None(toCtl'["ui"], kind) => None(toCtl["ui"], kind)
           /\ ~lost'["ui"] => /\ ~None(toCtl'["ui"], line[1])
                              /\ \A kind, d : LastOf(toCtl'["ui"], kind, d)
                                   = IF line[1] = kind THEN line[2] ELSE LastOf(toCtl["ui"], kind, d)
  <1>1. /\ toCtl \in [Clients -> Seq(ToLines)] /\ lost \in [Clients -> BOOLEAN]
        /\ \A c \in Clients : Len(toCtl[c]) <= SockCap
    BY DEF TypeInv, TypeOK
  <1>2. toCtl["ui"] \in Seq(ToLines) /\ "ui" \in Clients /\ "flow" \in Clients /\ "ui" # "flow"
        /\ Clients = {"ui", "flow"}
    BY <1>1 DEF Clients
  <1> DEFINE J == toCtl["ui"] \o <<line>>
  <1>7. toCtl["ui"] \in Seq(ToLines)
    BY <1>2
  <1>8. J \in Seq(ToLines) /\ Len(J) = Len(toCtl["ui"]) + 1
    BY <1>7, Added
  <1>9. ASSUME NEW kind, NEW d
        PROVE  /\ None(J, kind) <=> None(toCtl["ui"], kind) /\ line[1] # kind
               /\ LastOf(J, kind, d)
                    = IF line[1] = kind THEN line[2] ELSE LastOf(toCtl["ui"], kind, d)
    BY <1>7, Added
  <1>10. \A kind : None(J, kind) <=> None(toCtl["ui"], kind) /\ line[1] # kind
    BY <1>9, Zenon
  <1>11. \A kind, d : LastOf(J, kind, d)
            = IF line[1] = kind THEN line[2] ELSE LastOf(toCtl["ui"], kind, d)
    BY <1>9, Zenon
  <1>3. /\ J \in Seq(ToLines) /\ Len(J) = Len(toCtl["ui"]) + 1
        /\ \A kind : None(J, kind) <=> None(toCtl["ui"], kind) /\ line[1] # kind
        /\ \A kind, d : LastOf(J, kind, d)
              = IF line[1] = kind THEN line[2] ELSE LastOf(toCtl["ui"], kind, d)
    BY <1>8, <1>10, <1>11, Zenon
  <1>4. \/ /\ sock["ui"] = "open" /\ Len(toCtl["ui"]) + 1 <= SockCap
           /\ toCtl' = [toCtl EXCEPT !["ui"] = J] /\ lost' = lost
        \/ toCtl' = toCtl /\ lost' = [lost EXCEPT !["ui"] = TRUE]
    <2>1. Len(<<line>>) = 1
      OBVIOUS
    <2> QED
      BY <2>1 DEF ClientSends, Fits
  <1> HIDE DEF J
  <1>5. CASE /\ sock["ui"] = "open" /\ Len(toCtl["ui"]) + 1 <= SockCap
             /\ toCtl' = [toCtl EXCEPT !["ui"] = J] /\ lost' = lost
    <2>1. toCtl' \in [Clients -> Seq(ToLines)] /\ toCtl'["ui"] = J /\ toCtl'["flow"] = toCtl["flow"]
      BY <1>1, <1>2, <1>3, <1>5
    <2>2. \A c \in Clients : Len(toCtl'[c]) <= SockCap
      BY <1>1, <1>2, <1>3, <1>5, <2>1
    <2>3. \A c \in Clients : sock[c] # "open" => toCtl'[c] = toCtl[c]
      BY <1>2, <1>5, <2>1
    <2>4. \A kind : None(toCtl'["ui"], kind) => None(toCtl["ui"], kind)
      BY <1>3, <2>1
    <2>5. /\ ~None(toCtl'["ui"], line[1])
          /\ \A kind, d : LastOf(toCtl'["ui"], kind, d)
                = IF line[1] = kind THEN line[2] ELSE LastOf(toCtl["ui"], kind, d)
      BY <1>3, <2>1
    <2>6. lost' = lost
      BY <1>5
    <2> QED
      BY <1>1, <2>1, <2>2, <2>3, <2>4, <2>5, <2>6, Zenon
  <1>6. CASE toCtl' = toCtl /\ lost' = [lost EXCEPT !["ui"] = TRUE]
    <2>1. TRUE \in BOOLEAN
      OBVIOUS
    <2>2. lost' \in [Clients -> BOOLEAN] /\ lost'["ui"]
      BY <1>1, <1>2, <1>6, <2>1, Zenon
    <2>3. \A c \in Clients : ~lost'[c] => ~lost[c]
      BY <1>1, <1>2, <1>6, Zenon
    <2> QED
      BY <1>1, <1>6, <2>2, <2>3, Zenon
  <1> QED
    BY <1>4, <1>5, <1>6, Zenon

\* A line broadcast reaches every connected client that has no hello in its socket.
LEMMA Heard ==
    ASSUME TypeInv, SockInv, NEW line \in FromLines, Broadcast(line),
           NEW c \in Clients, sock[c] = "open", ~lost'[c], None(toCtl[c], "hello")
    PROVE  /\ Whole(c)
           /\ \A kind, d : LastOf(toClient'[c], kind, d)
                 = IF line[1] = kind THEN line[2] ELSE LastOf(toClient[c], kind, d)
  <1>1. c \in known
    BY DEF SockInv
  <1>2. /\ \A b \in Clients : ~lost'[b] => ~lost[b]
        /\ \A b \in Clients : b \in known /\ ~lost'[b]
               => \A kind, d : LastOf(toClient'[b], kind, d)
                     = IF line[1] = kind THEN line[2] ELSE LastOf(toClient[b], kind, d)
    BY Telling
  <1> QED
    BY <1>1, <1>2, Zenon DEF Whole

----
(* The actions that leave the lines alone. *)

LEMMA InitOk ==
    ASSUME Init
    PROVE  BusInv
  <1>1. \A c \in Clients : toCtl[c] = <<>> /\ toClient[c] = <<>> /\ sock[c] = "none" /\ ~lost[c]
    BY DEF Init
  <1>2. /\ toCtl \in [Clients -> Seq(ToLines)] /\ toClient \in [Clients -> Seq(FromLines)]
        /\ events \in Seq(Requests) /\ want \subseteq BOOLEAN /\ Len(events) = 0
    BY DEF Init
  <1>3. \A c \in Clients : Len(toCtl[c]) <= SockCap /\ Len(toClient[c]) <= SockCap
    BY <1>1, SockCapAssumption
  <1>4. TypeOK
    <2>1. lost \in [Clients -> BOOLEAN] /\ view \in [Clients -> BOOLEAN] /\ auto \in BOOLEAN
      BY DEF Init
    <2> QED
      BY <1>3, <2>1 DEF Init, TypeOK, Modes, FirstTelemetry, Status
  <1>5. \A kind : None(toCtl["flow"], kind)
    BY <1>1 DEF None, Clients
  <1>6. SockInv
    BY <1>1, <1>2, <1>5 DEF SockInv, Init
  <1> QED
    BY <1>1, <1>2, <1>4, <1>6, "ui" \in Clients
    DEF BusInv, TypeInv, ViewInv, TelemInv, WantInv, Whole, Clients

LEMMA FramedKeeps ==
    ASSUME BusInv, TypeOK', ctlPc' # "events" => events = <<>>,
           UNCHANGED <<setting, telem, events, sock, known, toCtl, toClient, lost, view,
                       uiTelem, want, ctl>>
    PROVE  BusInv'
  <1>1. TypeInv'
    BY DEF BusInv, TypeInv
  <1>2. SockInv'
    BY DEF BusInv, SockInv
  <1>3. ViewInv'
    BY DEF BusInv, ViewInv, Whole, Unasked, WillShow
  <1>4. TelemInv'
    BY DEF BusInv, TelemInv, Whole, Unasked, WillReport
  <1>5. WantInv'
    BY DEF BusInv, WantInv, Whole, WillHold
  <1> QED
    BY <1>1, <1>2, <1>3, <1>4, <1>5 DEF BusInv

LEMMA QuietKeeps ==
    ASSUME BusInv, LoopEnd \/ PeerDown \/ PeerUp \/ PeerResets \/ UNCHANGED vars
    PROVE  BusInv'
  <1> USE DEF ctlVars, sockVars, telVars, uiVars
  <1>1. TypeOK
    BY DEF BusInv, TypeInv
  <1>2. TypeOK'
    BY <1>1 DEF LoopEnd, PeerDown, PeerUp, PeerResets, vars, TypeOK, Spend
  <1>3. ctlPc' # "events" => events = <<>>
    BY DEF LoopEnd, PeerDown, PeerUp, PeerResets, vars, BusInv, SockInv
  <1>4. UNCHANGED <<setting, telem, events, sock, known, toCtl, toClient, lost, view,
                       uiTelem, want, ctl>>
    BY DEF LoopEnd, PeerDown, PeerUp, PeerResets, vars
  <1> QED
    BY <1>2, <1>3, <1>4, FramedKeeps

\* Without the controller nothing is on its way.
LEMMA HangUpKeeps ==
    ASSUME BusInv, HangUp, ctl' \in {"down", "killed"}, ctlPc' = "bridge",
           UNCHANGED <<mode, setting, telem, view, uiTelem, auto>>
    PROVE  BusInv'
  <1>1. TypeInv
    BY DEF BusInv
  <1>2. \A c \in Clients : toCtl'[c] = <<>> /\ sock'[c] \in {"none", "eof"}
    BY <1>1 DEF HangUp, TypeInv, TypeOK
  <1>3. /\ toCtl' \in [Clients -> Seq(ToLines)] /\ toClient' \in [Clients -> Seq(FromLines)]
        /\ events' \in Seq(Requests) /\ want' \subseteq BOOLEAN
        /\ Len(events') = 0 /\ events' = <<>> /\ known' = {}
    BY <1>1 DEF HangUp, TypeInv
  <1>4. \A c \in Clients : Len(toCtl'[c]) <= SockCap /\ Len(toClient'[c]) <= SockCap
    BY <1>1, <1>2, SockCapAssumption DEF HangUp, TypeInv, TypeOK
  <1>5. sock' \in [Clients -> {"none", "open", "eof"}]
    BY <1>1 DEF HangUp, TypeInv, TypeOK
  <1>6. TypeOK'
    BY <1>1, <1>3, <1>4, <1>5 DEF HangUp, TypeInv, TypeOK
  <1>7. None(toCtl'["flow"], "set")
    BY <1>2 DEF None, Clients
  <1>9. \A c \in Clients : sock'[c] # "open" /\ toCtl'[c] = <<>>
    BY <1>2
  <1>10. \A i \in 1..Len(events') : events'[i].from \in known'
    BY <1>3
  <1>11. known' = {} /\ events' = <<>>
    BY <1>3
  <1>8. SockInv'
    BY <1>7, <1>9, <1>10, <1>11, Zenon DEF SockInv
  <1> QED
    BY <1>2, <1>3, <1>6, <1>8
    DEF BusInv, TypeInv, ViewInv, TelemInv, WantInv, Whole, Clients

LEMMA GoneKeeps ==
    ASSUME BusInv, KilledBySigpipe \/ Stop
    PROVE  BusInv'
  BY HangUpKeeps DEF KilledBySigpipe, Stop, uiVars

LEMMA StartKeeps ==
    ASSUME BusInv, Start
    PROVE  BusInv'
  <1> USE DEF Start, sockVars, uiVars
  <1>1. TypeInv /\ SockInv
    BY DEF BusInv
  <1>2. \A c \in Clients : sock'[c] # "open"
    BY <1>1 DEF SockInv
  <1>3. TypeOK'
    BY <1>1 DEF TypeInv, TypeOK, FirstTelemetry, Status
  <1>4. TypeInv'
    BY <1>1, <1>3 DEF TypeInv
  <1>6. ctl' = "up" /\ UNCHANGED <<sock, known, toCtl, events, ctlPc>>
    OBVIOUS
  <1>7. SockInv
    BY <1>1
  <1>5. SockInv'
    BY <1>6, <1>7 DEF SockInv
  <1> QED
    BY <1>2, <1>4, <1>5 DEF BusInv, ViewInv, TelemInv, WantInv, Whole, Clients

LEMMA ReadKeeps ==
    ASSUME BusInv, ReadControlFiles
    PROVE  BusInv'
  <1> USE DEF ReadControlFiles, sockVars, uiVars, ctlVars, telVars
  <1>1. TypeInv /\ SockInv
    BY DEF BusInv
  <1>2. view' \in [Clients -> BOOLEAN] /\ \A c \in Clients : c # "ui" => view'[c] = view[c]
    <2>1. view \in [Clients -> BOOLEAN]
      BY <1>1 DEF TypeInv, TypeOK
    <2>2. PICK v \in BOOLEAN : view' = [view EXCEPT !["ui"] = v]
      OBVIOUS
    <2>3. "ui" \in Clients
      BY DEF Clients
    <2> QED
      BY <2>1, <2>2, <2>3, Zenon
  <1>3. TypeOK'
    BY <1>1, <1>2 DEF TypeInv, TypeOK
  <1>4. TypeInv'
    BY <1>1, <1>3 DEF TypeInv
  <1>5. SockInv'
    BY <1>1 DEF SockInv
  <1>6. ViewInv'
    BY <1>2 DEF BusInv, ViewInv, Whole, Unasked, WillShow
  <1> QED
    BY <1>4, <1>5, <1>6 DEF BusInv, TelemInv, WantInv, Whole

----
(* The controller. *)

LEMMA PollBridgeKeeps ==
    ASSUME BusInv, PollBridge
    PROVE  BusInv'
  <1>1. TypeInv /\ SockInv /\ ViewInv /\ TelemInv /\ WantInv
    BY DEF BusInv
  <1>2. /\ ctlPc = "bridge" /\ ctlPc' = "ipc"
        /\ UNCHANGED <<mode, ctl, setting, events, sock, known, toCtl, view, uiTelem, auto, want>>
    BY DEF PollBridge, uiVars
  <1>3. bridge' \in {"udp", "tcp", "closed"}
        /\ tcp' \in {"none", "ok", "fin", "half", "rst", "dead"}
    BY <1>1 DEF PollBridge, BridgePolled, CloseBridge, telVars, TypeInv, TypeOK
  <1>4. SockInv'
    BY <1>1, <1>2 DEF SockInv
  <1>5. CASE UNCHANGED <<telem, toClient, lost>>
    <2>1. TypeOK'
      BY <1>1, <1>2, <1>3, <1>5 DEF TypeInv, TypeOK
    <2>2. ctlPc' # "events" => events = <<>>
      BY <1>1, <1>2 DEF SockInv
    <2> QED
      BY <1>2, <1>5, <2>1, <2>2, FramedKeeps
  <1>6. CASE telem' = "error" /\ Broadcast(<<"telemetry", "error">>)
    <2> DEFINE line == <<"telemetry", "error">>
    <2>1. line \in FromLines /\ line[1] = "telemetry" /\ line[2] = "error"
      BY DEF FromLines, Status
    <2>2. Broadcast(line)
      BY <1>6
    <2> HIDE DEF line
    <2>3. /\ toClient' \in [Clients -> Seq(FromLines)] /\ lost' \in [Clients -> BOOLEAN]
          /\ \A c \in Clients : Len(toClient'[c]) <= SockCap
      BY <1>1, <2>1, <2>2, Telling
    <2>4. TypeOK'
      BY <1>1, <1>2, <1>3, <1>6, <2>3 DEF TypeInv, TypeOK, Status
    <2>5. TypeInv'
      BY <1>1, <1>2, <2>3, <2>4 DEF TypeInv
    <2>6. ASSUME NEW c \in Clients, Whole(c)', Unasked(c, "hello")'
          PROVE  /\ Whole(c)
                 /\ \A kind, d : LastOf(toClient'[c], kind, d)
                      = IF line[1] = kind THEN line[2] ELSE LastOf(toClient[c], kind, d)
      <3>1. sock[c] = "open" /\ ~lost'[c] /\ None(toCtl[c], "hello")
        BY <1>2, <2>6 DEF Whole, Unasked
      <3> QED
        BY <1>1, <2>1, <2>2, <3>1, Heard, Zenon
    <2>7. ViewInv'
      <3>1. ASSUME NEW c \in Clients, Whole(c)', Unasked(c, "hello")', Unasked(c, "set")'
            PROVE  WillShow(c)' = setting'
        <4>1. Whole(c) /\ LastOf(toClient'[c], "setting", view[c]) = LastOf(toClient[c], "setting", view[c])
          BY <2>1, <2>6, <3>1
        <4>2. Unasked(c, "hello") /\ Unasked(c, "set")
          BY <1>2, <3>1 DEF Unasked
        <4> QED
          BY <1>1, <1>2, <4>1, <4>2 DEF ViewInv, WillShow
      <3> QED
        BY <3>1 DEF ViewInv
    <2>8. TelemInv'
      <3>1. ASSUME Whole("ui")', Unasked("ui", "hello")' PROVE WillReport' = telem'
        <4>1. LastOf(toClient'["ui"], "telemetry", uiTelem) = "error"
          BY <2>1, <2>6, <3>1, "ui" \in Clients DEF Clients
        <4> QED
          BY <1>2, <1>6, <4>1 DEF WillReport
      <3> QED
        BY <3>1 DEF TelemInv
    <2>9. WantInv'
      <3>1. Whole("ui")' => Whole("ui")
        <4>1. ~lost'["ui"] => ~lost["ui"]
          BY <1>1, <2>1, <2>2, Telling DEF Clients
        <4> QED
          BY <1>2, <4>1 DEF Whole
      <3> QED
        BY <1>1, <1>2, <3>1 DEF WantInv, WillHold
    <2> QED
      BY <1>4, <2>5, <2>7, <2>8, <2>9 DEF BusInv
  <1> QED
    BY <1>5, <1>6 DEF PollBridge, CheckTelemetry, SendNothing

\* What the server reads are the lines of glide-flow, then those of glide-ui.
LEMMA Read ==
    ASSUME toCtl \in [Clients -> Seq(ToLines)], NEW e, e = Lines("flow") \o Lines("ui")
    PROVE  /\ e \in Seq(Requests)
           /\ Said(e) = toCtl["flow"] \o toCtl["ui"]
           /\ \A c \in Clients : \A kind : NoneFrom(e, c, kind) => None(toCtl[c], kind)
           /\ \A i \in 1..Len(e) : e[i].from \in Clients /\ toCtl[e[i].from] # <<>>
  <1> DEFINE s == toCtl["flow"]
             t == toCtl["ui"]
             fs == [i \in 1..Len(s) |-> [from |-> "flow", line |-> s[i]]]
             ut == [i \in 1..Len(t) |-> [from |-> "ui", line |-> t[i]]]
  <1>1. /\ s \in Seq(ToLines) /\ t \in Seq(ToLines) /\ Len(s) \in Nat /\ Len(t) \in Nat
        /\ \A i \in 1..Len(s) : s[i] \in ToLines
        /\ \A i \in 1..Len(t) : t[i] \in ToLines
    BY LenProperties, ElementOfSeq DEF Clients
  <1>2. e = fs \o ut
    BY DEF Lines
  <1> HIDE DEF s, t
  <1>3. fs \in Seq(Requests) /\ Len(fs) = Len(s) /\ \A i \in 1..Len(s) : fs[i] = [from |-> "flow", line |-> s[i]]
    <2>1. fs \in [1..Len(s) -> Requests]
      BY <1>1 DEF Requests, Clients
    <2>2. fs \in Seq(Requests)
      BY <1>1, <2>1
    <2> QED
      BY <1>1, <2>1, <2>2, LenProperties
  <1>4. ut \in Seq(Requests) /\ Len(ut) = Len(t) /\ \A i \in 1..Len(t) : ut[i] = [from |-> "ui", line |-> t[i]]
    <2>1. ut \in [1..Len(t) -> Requests]
      BY <1>1 DEF Requests, Clients
    <2>2. ut \in Seq(Requests)
      BY <1>1, <2>1
    <2> QED
      BY <1>1, <2>1, <2>2, LenProperties
  <1> HIDE DEF fs, ut
  <1>5. /\ e \in Seq(Requests) /\ Len(e) = Len(s) + Len(t)
        /\ \A i \in 1..Len(s) + Len(t) : e[i] = IF i <= Len(s) THEN fs[i] ELSE ut[i - Len(s)]
    <2>1. fs \in Seq(Requests)
      BY <1>3
    <2>4. ut \in Seq(Requests)
      BY <1>4
    <2>5. /\ fs \o ut \in Seq(Requests) /\ Len(fs \o ut) = Len(fs) + Len(ut)
          /\ \A i \in 1..Len(fs) + Len(ut) :
                (fs \o ut)[i] = IF i <= Len(fs) THEN fs[i] ELSE ut[i - Len(fs)]
      BY <2>1, <2>4, ConcatProperties
    <2>2. /\ e \in Seq(Requests) /\ Len(e) = Len(fs) + Len(ut)
          /\ \A i \in 1..Len(fs) + Len(ut) : e[i] = IF i <= Len(fs) THEN fs[i] ELSE ut[i - Len(fs)]
      BY <1>2, <2>5, Zenon
    <2>3. Len(fs) = Len(s) /\ Len(ut) = Len(t)
      BY <1>3, <1>4
    <2> QED
      BY <2>2, <2>3
  <1>6. ASSUME NEW i \in 1..Len(s)
        PROVE  i \in 1..Len(e) /\ e[i].from = "flow" /\ e[i].line = s[i]
    <2>1. i \in 1..Len(s) + Len(t) /\ i <= Len(s)
      BY <1>1
    <2>2. e[i] = fs[i] /\ i \in 1..Len(e)
      BY <1>5, <2>1
    <2>3. fs[i] = [from |-> "flow", line |-> s[i]]
      BY <1>3
    <2> QED
      BY <2>2, <2>3
  <1>7. ASSUME NEW i \in 1..Len(t)
        PROVE  Len(s) + i \in 1..Len(e) /\ e[Len(s) + i].from = "ui" /\ e[Len(s) + i].line = t[i]
    <2>1. Len(s) + i \in 1..Len(s) + Len(t) /\ ~(Len(s) + i <= Len(s)) /\ (Len(s) + i) - Len(s) = i
      BY <1>1
    <2>2. e[Len(s) + i] = ut[i] /\ Len(s) + i \in 1..Len(e)
      BY <1>5, <2>1
    <2>3. ut[i] = [from |-> "ui", line |-> t[i]]
      BY <1>4
    <2> QED
      BY <2>2, <2>3
  <1>8. ASSUME NEW i \in 1..Len(e), ~(i <= Len(s))
        PROVE  i - Len(s) \in 1..Len(t) /\ e[i].from = "ui" /\ e[i].line = t[i - Len(s)]
    <2>1. i - Len(s) \in 1..Len(t) /\ i \in 1..Len(s) + Len(t)
      BY <1>1, <1>5, <1>8
    <2>2. e[i] = ut[i - Len(s)]
      BY <1>5, <1>8, <2>1
    <2>3. ut[i - Len(s)] = [from |-> "ui", line |-> t[i - Len(s)]]
      BY <1>4, <2>1
    <2> QED
      BY <2>1, <2>2, <2>3
  <1>9. ASSUME NEW i \in 1..Len(e), i <= Len(s)
        PROVE  i \in 1..Len(s) /\ e[i].from = "flow" /\ e[i].line = s[i]
    BY <1>1, <1>5, <1>6, <1>9
  <1>10. Said(e) = s \o t
    <2> DEFINE a == Said(e)
               b == s \o t
    <2>1. a \in Seq(ToLines) /\ Len(a) = Len(e) /\ \A i \in 1..Len(e) : a[i] = e[i].line
      BY <1>5, SaidLines
    <2>2. /\ b \in Seq(ToLines) /\ Len(b) = Len(e)
          /\ \A i \in 1..Len(e) : b[i] = IF i <= Len(s) THEN s[i] ELSE t[i - Len(s)]
      BY <1>1, <1>5, ConcatProperties
    <2> HIDE DEF a, b
    <2>3. ASSUME NEW i \in 1..Len(e) PROVE a[i] = b[i]
      <3>1. CASE i <= Len(s)
        BY <1>9, <2>1, <2>2, <3>1
      <3>2. CASE ~(i <= Len(s))
        BY <1>8, <2>1, <2>2, <3>2
      <3> QED
        BY <3>1, <3>2
    <2>4. a = b
      BY <2>1, <2>2, <2>3, SeqEqual
    <2> QED
      BY <2>4 DEF a, b
  <1>11. ASSUME NEW c \in Clients, NEW kind, NoneFrom(e, c, kind)
         PROVE  None(toCtl[c], kind)
    <2>1. CASE c = "flow"
      BY <1>6, <1>11, <2>1 DEF None, NoneFrom, s
    <2>2. CASE c = "ui"
      <3>1. ASSUME NEW i \in 1..Len(t) PROVE t[i][1] # kind
        BY <1>7, <1>11, <2>2, <3>1 DEF NoneFrom
      <3> QED
        BY <2>2, <3>1 DEF None, t
    <2> QED
      BY <2>1, <2>2 DEF Clients
  <1>12. ASSUME NEW i \in 1..Len(e)
         PROVE  e[i].from \in Clients /\ toCtl[e[i].from] # <<>>
    <2>1. CASE i <= Len(s)
      BY <1>1, <1>9, <2>1 DEF Clients, s
    <2>2. CASE ~(i <= Len(s))
      BY <1>1, <1>8, <2>2 DEF Clients, t
    <2> QED
      BY <2>1, <2>2
  <1> QED
    BY <1>5, <1>10, <1>11, <1>12, Zenon DEF s, t

LEMMA PollIpcKeeps ==
    ASSUME BusInv, PollIpc
    PROVE  BusInv'
  <1>1. TypeInv /\ SockInv /\ ViewInv /\ TelemInv /\ WantInv
    BY DEF BusInv
  <1>2. /\ ctlPc = "ipc" /\ ctlPc' = "events" /\ ctl = "up"
        /\ known' = {c \in Clients : sock[c] = "open"}
        /\ toCtl' = [c \in Clients |-> <<>>]
        /\ UNCHANGED <<mode, ctl, setting, telem, sock, toClient, lost, bridge, tcp, view,
                       uiTelem, auto, want>>
    BY DEF PollIpc, telVars, uiVars
  <1>3. events = <<>> /\ Len(events) = 0
    BY <1>1, <1>2 DEF SockInv
  <1>4. /\ events' \in Seq(Requests)
        /\ Said(events') = toCtl["flow"] \o toCtl["ui"]
        /\ \A c \in Clients : \A kind : NoneFrom(events', c, kind) => None(toCtl[c], kind)
        /\ \A i \in 1..Len(events') : events'[i].from \in Clients /\ toCtl[events'[i].from] # <<>>
    <2>1. toCtl \in [Clients -> Seq(ToLines)] /\ events' = Lines("flow") \o Lines("ui")
      BY <1>1 DEF TypeInv, PollIpc
    <2> QED
      BY <2>1, Read
  <1>5. \A c \in Clients : toCtl'[c] = <<>> /\ Len(toCtl'[c]) = 0 /\ toCtl'[c] \in Seq(ToLines)
    BY <1>2
  <1>6. TypeOK'
    <2>1. \A c \in Clients : Len(toCtl'[c]) <= SockCap
      BY <1>5, SockCapAssumption
    <2> QED
      BY <1>1, <1>2, <2>1 DEF TypeInv, TypeOK
  <1>7. TypeInv'
    BY <1>1, <1>2, <1>4, <1>6 DEF TypeInv
  <1>8. SockInv'
    <2>1. None(toCtl'["flow"], "set")
      BY <1>5 DEF None, Clients
    <2>2. \A c \in Clients : sock'[c] = "open" => c \in known'
      BY <1>2
    <2>3. \A c \in known' : sock'[c] = "open"
      BY <1>2
    <2>4. \A i \in 1..Len(events') : events'[i].from \in known'
      BY <1>1, <1>2, <1>4 DEF SockInv
    <2> QED
      BY <1>2, <1>5, <2>1, <2>2, <2>3, <2>4 DEF SockInv
  <1>9. ASSUME NEW c \in Clients, NEW kind, Unasked(c, kind)' PROVE Unasked(c, kind)
    <2>1. None(toCtl[c], kind)
      BY <1>4, <1>9 DEF Unasked
    <2>2. NoneFrom(events, c, kind)
      BY <1>3 DEF NoneFrom
    <2> QED
      BY <2>1, <2>2 DEF Unasked
  <1>10. ViewInv'
    BY <1>1, <1>2, <1>9 DEF ViewInv, Whole, WillShow
  <1>11. TelemInv'
    BY <1>1, <1>2, <1>9 DEF TelemInv, Whole, WillReport, Clients
  <1>12. WantInv'
    <2> DEFINE s == toCtl["flow"]
               t == toCtl["ui"]
    <2>1. s \in Seq(ToLines) /\ t \in Seq(ToLines) /\ None(s, "set")
      BY <1>1 DEF TypeInv, SockInv, Clients
    <2>2. LastOf(Said(events), "set", setting) = setting
      <3> DEFINE a == Said(events)
      <3>1. a \in Seq(ToLines) /\ Len(a) = Len(events)
        BY <1>1, SaidLines DEF TypeInv
      <3> HIDE DEF a
      <3>2. None(a, "set")
        BY <1>3, <3>1 DEF None
      <3>3. LastOf(a, "set", setting) = setting
        BY <3>1, <3>2, LastOfNone, Zenon
      <3> QED
        BY <3>3 DEF a
    <2>3. LastOf(s \o t, "set", setting) = LastOf(t, "set", setting)
      <3> HIDE DEF s, t
      <3>1. LastOf(s \o t, "set", setting) = LastOf(t, "set", LastOf(s, "set", setting))
        BY <2>1, LastOfJoined
      <3>2. LastOf(s, "set", setting) = setting
        BY <2>1, LastOfNone, Zenon
      <3> QED
        BY <3>1, <3>2
    <2>4. LastOf(toCtl'["ui"], "set", LastOf(Said(events'), "set", setting))
            = LastOf(Said(events'), "set", setting)
      <3>1. toCtl'["ui"] \in Seq(ToLines) /\ None(toCtl'["ui"], "set")
        BY <1>5 DEF None, Clients
      <3> QED
        BY <3>1, LastOfNone, Zenon
    <2>5. WillHold' = WillHold
      BY <1>2, <1>4, <2>2, <2>3, <2>4 DEF WillHold
    <2> QED
      BY <1>1, <1>2, <2>5 DEF WantInv, Whole
  <1> QED
    BY <1>7, <1>8, <1>10, <1>11, <1>12 DEF BusInv

\* What every request that is handled does: it is gone, its sender was accepted.
LEMMA RequestTaken ==
    ASSUME BusInv, HandleEvent
    PROVE  /\ UNCHANGED <<mode, ctl, ctlPc, sock, known, toCtl, view, uiTelem, auto, want>>
           /\ events' \in Seq(Requests) /\ SockInv'
           /\ Head(events).from \in Clients /\ Head(events).from \in known
           /\ Head(events).line \in ToLines
           /\ \A c \in Clients : \A kind : Unasked(c, kind)'
                 => \/ Unasked(c, kind)
                    \/ Head(events).from = c /\ Head(events).line[1] = kind
           /\ setting' = (IF Head(events).line[1] = "set" THEN Head(events).line[2] ELSE setting)
                 => WillHold' = WillHold
  <1>1. TypeInv /\ SockInv
    BY DEF BusInv
  <1>2. /\ ctlPc = "events" /\ events # <<>> /\ events' = Tail(events)
        /\ UNCHANGED <<mode, ctl, ctlPc, sock, known, toCtl, view, uiTelem, auto, want>>
    BY DEF HandleEvent, uiVars
  <1> DEFINE h == Head(events)
             t == Tail(events)
  <1>3. events \in Seq(Requests) /\ events # <<>>
    BY <1>1, <1>2 DEF TypeInv
  <1>4. /\ t \in Seq(Requests) /\ h \in Requests /\ h = events[1]
        /\ Len(t) = Len(events) - 1 /\ Len(events) \in Nat /\ Len(events) >= 1
        /\ \A i \in 1..Len(t) : t[i] = events[i + 1]
    BY <1>3, Taken
  <1>5. \A c, kind : NoneFrom(events, c, kind) <=>
            NoneFrom(t, c, kind) /\ ~(h.from = c /\ h.line[1] = kind)
    BY <1>3, Taken, Zenon
  <1>6. Said(events) = <<h.line>> \o Said(t)
    BY <1>3, Taken, Zenon
  <1>7. events' = t
    BY <1>2
  <1> HIDE DEF h, t
  <1>8. h.from \in Clients /\ h.line \in ToLines
    BY <1>4 DEF Requests
  <1>9. h.from \in known
    BY <1>1, <1>4, 1 \in 1..Len(events) DEF SockInv
  <1>10. SockInv'
    <2>1. \A i \in 1..Len(t) : t[i].from \in known
      <3>1. \A i \in 1..Len(t) : i + 1 \in 1..Len(events)
        BY <1>4
      <3> QED
        BY <1>1, <1>4, <3>1 DEF SockInv
    <2> QED
      BY <1>1, <1>2, <1>7, <2>1 DEF SockInv
  <1>11. ASSUME NEW c \in Clients, NEW kind, Unasked(c, kind)'
         PROVE  Unasked(c, kind) \/ (h.from = c /\ h.line[1] = kind)
    <2>1. None(toCtl[c], kind) /\ NoneFrom(t, c, kind)
      BY <1>2, <1>7, <1>11 DEF Unasked
    <2> QED
      BY <1>5, <2>1, Zenon DEF Unasked
  <1>12. ASSUME setting' = (IF h.line[1] = "set" THEN h.line[2] ELSE setting)
         PROVE  WillHold' = WillHold
    <2> DEFINE a == <<h.line>>
               b == Said(t)
    <2>1. a \in Seq(ToLines) /\ LastOf(a, "set", setting) = setting'
      BY <1>8, <1>12, OneLine
    <2>2. b \in Seq(ToLines)
      BY <1>4, SaidLines
    <2> HIDE DEF a, b
    <2>3. LastOf(a \o b, "set", setting) = LastOf(b, "set", LastOf(a, "set", setting))
      BY <2>1, <2>2, LastOfJoined
    <2>4. LastOf(Said(events), "set", setting) = LastOf(b, "set", setting')
      BY <1>6, <2>1, <2>3, Zenon DEF a, b
    <2> QED
      BY <1>2, <1>7, <2>4 DEF WillHold, b
  <1> QED
    BY <1>2, <1>4, <1>7, <1>8, <1>9, <1>10, <1>11, <1>12 DEF h

\* The types, whatever the branch does.
LEMMA HandledTypes ==
    ASSUME BusInv, HandleEvent,
           setting' \in BOOLEAN, telem' \in Status, bridge' \in {"udp", "tcp", "closed"},
           tcp' \in {"none", "ok", "fin", "half", "rst", "dead"},
           toClient' \in [Clients -> Seq(FromLines)], lost' \in [Clients -> BOOLEAN],
           \A c \in Clients : Len(toClient'[c]) <= SockCap
    PROVE  TypeInv'
  <1>1. TypeInv
    BY DEF BusInv
  <1>2. /\ UNCHANGED <<mode, ctl, ctlPc, sock, known, toCtl, view, uiTelem, auto, want>>
        /\ events' \in Seq(Requests)
    BY RequestTaken
  <1>3. TypeOK'
    BY <1>1, <1>2 DEF TypeInv, TypeOK
  <1> QED
    BY <1>1, <1>2, <1>3 DEF TypeInv

\* A branch that broadcasts: what it tells is what it changed.
LEMMA ToldKeeps ==
    ASSUME BusInv, HandleEvent, NEW line \in FromLines, Broadcast(line),
           setting' \in BOOLEAN, telem' \in Status, bridge' \in {"udp", "tcp", "closed"},
           tcp' \in {"none", "ok", "fin", "half", "rst", "dead"},
           Head(events).line[1] # "hello",
           setting' = (IF Head(events).line[1] = "set" THEN Head(events).line[2] ELSE setting),
           IF Head(events).line[1] = "set" THEN line[1] = "setting" /\ line[2] = setting'
                                           ELSE line[1] # "setting",
           Head(events).line[1] = "connect" => line[1] = "telemetry",
           IF line[1] = "telemetry" THEN line[2] = telem' ELSE telem' = telem
    PROVE  BusInv'
  <1>1. TypeInv /\ SockInv /\ ViewInv /\ TelemInv /\ WantInv
    BY DEF BusInv
  <1> DEFINE h == Head(events)
  <1>2. /\ UNCHANGED <<mode, ctl, ctlPc, sock, known, toCtl, view, uiTelem, auto, want>>
        /\ SockInv' /\ WillHold' = WillHold
        /\ \A c \in Clients : \A kind : Unasked(c, kind)'
              => Unasked(c, kind) \/ (h.from = c /\ h.line[1] = kind)
    BY RequestTaken
  <1>3. /\ toClient' \in [Clients -> Seq(FromLines)] /\ lost' \in [Clients -> BOOLEAN]
        /\ \A c \in Clients : Len(toClient'[c]) <= SockCap
        /\ \A c \in Clients : ~lost'[c] => ~lost[c]
    BY <1>1, Telling
  <1>4. TypeInv'
    BY <1>3, HandledTypes
  <1>5. h.line[1] # "hello"
    OBVIOUS
  <1>6. ASSUME NEW c \in Clients, Whole(c)', Unasked(c, "hello")'
        PROVE  /\ Whole(c) /\ Unasked(c, "hello")
               /\ \A kind, d : LastOf(toClient'[c], kind, d)
                    = IF line[1] = kind THEN line[2] ELSE LastOf(toClient[c], kind, d)
    <2>1. sock[c] = "open" /\ ~lost'[c]
      BY <1>2, <1>6 DEF Whole
    <2>2. Unasked(c, "hello")
      BY <1>2, <1>5, <1>6
    <2>3. None(toCtl[c], "hello")
      BY <2>2 DEF Unasked
    <2> QED
      BY <1>1, <2>1, <2>2, <2>3, Heard, Zenon
  <1>7. ViewInv'
    <2>1. ASSUME NEW c \in Clients, Whole(c)', Unasked(c, "hello")', Unasked(c, "set")'
          PROVE  WillShow(c)' = setting'
      <3>1. /\ Whole(c) /\ Unasked(c, "hello")
            /\ LastOf(toClient'[c], "setting", view[c])
                 = IF line[1] = "setting" THEN line[2] ELSE LastOf(toClient[c], "setting", view[c])
        BY <1>6, <2>1
      <3>2. CASE h.line[1] = "set"
        BY <1>2, <3>1, <3>2 DEF WillShow
      <3>3. CASE h.line[1] # "set"
        <4>1. Unasked(c, "set")
          BY <1>2, <2>1, <3>3
        <4>2. WillShow(c) = setting
          BY <1>1, <3>1, <4>1 DEF ViewInv
        <4> QED
          BY <1>2, <3>1, <3>3, <4>2 DEF WillShow
      <3> QED
        BY <3>2, <3>3
    <2> QED
      BY <2>1 DEF ViewInv
  <1>8. TelemInv'
    <2>1. ASSUME Whole("ui")', Unasked("ui", "hello")', Unasked("ui", "connect")'
          PROVE  WillReport' = telem'
      <3>0. "ui" \in Clients
        BY DEF Clients
      <3>1. /\ Whole("ui") /\ Unasked("ui", "hello")
            /\ LastOf(toClient'["ui"], "telemetry", uiTelem)
                 = IF line[1] = "telemetry" THEN line[2] ELSE LastOf(toClient["ui"], "telemetry", uiTelem)
        BY <1>6, <2>1, <3>0
      <3>2. CASE line[1] = "telemetry"
        BY <1>2, <3>1, <3>2 DEF WillReport
      <3>3. CASE line[1] # "telemetry"
        <4>1. Unasked("ui", "connect")
          BY <1>2, <2>1, <3>0, <3>3
        <4>2. WillReport = telem
          BY <1>1, <3>1, <4>1 DEF TelemInv
        <4> QED
          BY <1>2, <3>1, <3>3, <4>2 DEF WillReport
      <3> QED
        BY <3>2, <3>3
    <2> QED
      BY <2>1 DEF TelemInv
  <1>9. WantInv'
    <2>1. Whole("ui")' => Whole("ui")
      BY <1>2, <1>3 DEF Whole, Clients
    <2> QED
      BY <1>1, <1>2, <2>1 DEF WantInv
  <1> QED
    BY <1>2, <1>4, <1>7, <1>8, <1>9 DEF BusInv

\* The answer to a hello: the setting, then the telemetry.
LEMMA Answered ==
    ASSUME NEW s \in Seq(FromLines), NEW v \in BOOLEAN, NEW w \in Status, NEW d
    PROVE  /\ << <<"setting", v>>, <<"telemetry", w>> >> \in Seq(FromLines)
           /\ LastOf(s \o << <<"setting", v>>, <<"telemetry", w>> >>, "setting", d) = v
           /\ LastOf(s \o << <<"setting", v>>, <<"telemetry", w>> >>, "telemetry", d) = w
  <1> DEFINE t == << <<"setting", v>>, <<"telemetry", w>> >>
  <1>1. /\ t \in Seq(FromLines) /\ Len(t) = 2
        /\ t[1][1] = "setting" /\ t[1][2] = v /\ t[2][1] = "telemetry" /\ t[2][2] = w
    BY DEF FromLines
  <1> HIDE DEF t
  <1>2. LastAt(t, "setting", 1) /\ LastAt(t, "telemetry", 2)
    BY <1>1 DEF LastAt
  <1>3. t \in Seq(FromLines)
    BY <1>1
  <1>4. ASSUME NEW k PROVE LastOf(s \o t, k, d) = LastOf(t, k, LastOf(s, k, d))
    BY <1>3, LastOfJoined
  <1>5. ASSUME NEW e PROVE LastOf(t, "setting", e) = t[1][2] /\ LastOf(t, "telemetry", e) = t[2][2]
    BY <1>2, <1>3, LastOfIs, Zenon
  <1> QED
    BY <1>1, <1>3, <1>4, <1>5 DEF t

LEMMA HelloKeeps ==
    ASSUME BusInv, HandleEvent, Head(events).line[1] = "hello", Hello(Head(events).from)
    PROVE  BusInv'
  <1>1. TypeInv /\ SockInv /\ ViewInv /\ TelemInv /\ WantInv
    BY DEF BusInv
  <1> DEFINE h == Head(events)
             b == h.from
             lines == << <<"setting", setting>>, <<"telemetry", telem>> >>
  <1>2. /\ UNCHANGED <<mode, ctl, ctlPc, sock, known, toCtl, view, uiTelem, auto, want>>
        /\ SockInv' /\ b \in Clients /\ b \in known
        /\ \A c \in Clients : \A kind : Unasked(c, kind)'
              => Unasked(c, kind) \/ (b = c /\ h.line[1] = kind)
    BY RequestTaken
  <1>3. SendTo({b}, lines) /\ UNCHANGED <<setting, telem, bridge, tcp>>
    BY DEF Hello, telVars
  <1>4. setting \in BOOLEAN /\ telem \in Status
    BY <1>1 DEF TypeInv, TypeOK
  <1>5. lines \in Seq(FromLines)
    BY <1>4 DEF FromLines
  <1> HIDE DEF lines
  <1>6. /\ toClient' \in [Clients -> Seq(FromLines)] /\ lost' \in [Clients -> BOOLEAN]
        /\ \A c \in Clients : Len(toClient'[c]) <= SockCap
        /\ \A c \in Clients : ~lost'[c] => ~lost[c]
        /\ \A c \in Clients : ~(c \in {b} /\ c \in known /\ sock[c] = "open")
              => toClient'[c] = toClient[c]
        /\ \A c \in Clients : c \in {b} /\ c \in known /\ sock[c] = "open" /\ ~lost'[c]
              => toClient'[c] = toClient[c] \o lines
    BY <1>1, <1>3, <1>5, Sending
  <1>7. TypeInv'
    <2>1. /\ setting' \in BOOLEAN /\ telem' \in Status /\ bridge' \in {"udp", "tcp", "closed"}
          /\ tcp' \in {"none", "ok", "fin", "half", "rst", "dead"}
      BY <1>1, <1>3 DEF TypeInv, TypeOK
    <2> QED
      BY <1>6, <2>1, HandledTypes
  <1>8. ASSUME NEW c \in Clients, Whole(c)', c = b
        PROVE  \A d : /\ LastOf(toClient'[c], "setting", d) = setting
                      /\ LastOf(toClient'[c], "telemetry", d) = telem
    <2>1. toClient'[c] = toClient[c] \o lines
      BY <1>2, <1>6, <1>8 DEF Whole
    <2>2. toClient[c] \in Seq(FromLines)
      BY <1>1 DEF TypeInv
    <2> QED
      BY <1>4, <2>1, <2>2, Answered DEF lines
  <1>9. ASSUME NEW c \in Clients, Whole(c)', c # b
        PROVE  /\ Whole(c) /\ toClient'[c] = toClient[c]
               /\ \A kind : Unasked(c, kind)' => Unasked(c, kind)
    BY <1>2, <1>6, <1>9 DEF Whole
  <1>10. ViewInv'
    <2>1. ASSUME NEW c \in Clients, Whole(c)', Unasked(c, "hello")', Unasked(c, "set")'
          PROVE  WillShow(c)' = setting'
      <3>1. CASE c = b
        BY <1>2, <1>3, <1>8, <2>1, <3>1 DEF WillShow
      <3>2. CASE c # b
        <4>1. Whole(c) /\ toClient'[c] = toClient[c] /\ Unasked(c, "hello") /\ Unasked(c, "set")
          BY <1>9, <2>1, <3>2
        <4> QED
          BY <1>1, <1>2, <1>3, <4>1 DEF ViewInv, WillShow
      <3> QED
        BY <3>1, <3>2
    <2> QED
      BY <2>1 DEF ViewInv
  <1>11. TelemInv'
    <2>0. "ui" \in Clients
      BY DEF Clients
    <2>1. ASSUME Whole("ui")', Unasked("ui", "hello")', Unasked("ui", "connect")'
          PROVE  WillReport' = telem'
      <3>1. CASE "ui" = b
        BY <1>2, <1>3, <1>8, <2>0, <2>1, <3>1 DEF WillReport
      <3>2. CASE "ui" # b
        <4>1. Whole("ui") /\ toClient'["ui"] = toClient["ui"] /\ Unasked("ui", "hello") /\ Unasked("ui", "connect")
          BY <1>9, <2>0, <2>1, <3>2
        <4> QED
          BY <1>1, <1>2, <1>3, <4>1 DEF TelemInv, WillReport
      <3> QED
        BY <3>1, <3>2
    <2> QED
      BY <2>1 DEF TelemInv
  <1>12. WantInv'
    <2>1. Whole("ui")' => Whole("ui")
      BY <1>2, <1>6 DEF Whole, Clients
    <2>2. WillHold' = WillHold
      <3>1. setting' = (IF h.line[1] = "set" THEN h.line[2] ELSE setting)
        BY <1>3
      <3> QED
        BY <3>1, RequestTaken
    <2> QED
      BY <1>1, <1>2, <2>1, <2>2 DEF WantInv
  <1> QED
    BY <1>2, <1>7, <1>10, <1>11, <1>12 DEF BusInv

TcpStates == {"none", "ok", "fin", "half", "rst", "dead"}

LEMMA AfterActionType ==
    ASSUME tcp \in TcpStates, NEW numeric
    PROVE  AfterAction(numeric).next \in TcpStates
  <1>1. ASSUME NEW state \in TcpStates PROVE Sent(state).next \in TcpStates
    BY DEF Sent, TcpStates
  <1> QED
    BY <1>1 DEF AfterAction

LEMMA HandleEventKeeps ==
    ASSUME BusInv, HandleEvent
    PROVE  BusInv'
  <1> DEFINE h == Head(events)
             line == h.line
  <1>1. TypeInv
    BY DEF BusInv
  <1>2. line \in ToLines
    BY RequestTaken
  <1>3. /\ line[2] \in BOOLEAN /\ setting \in BOOLEAN /\ telem \in Status
        /\ bridge \in {"udp", "tcp", "closed"} /\ tcp \in TcpStates
    BY <1>1, <1>2 DEF ToLines, TypeInv, TypeOK, TcpStates
  <1>4. CASE line[1] = "hello" /\ Hello(h.from)
    BY <1>4, HelloKeeps
  <1>5. CASE line[1] = "set" /\ SetSetting(line[2])
    <2> DEFINE told == <<"setting", line[2]>>
    <2>1. told \in FromLines /\ told[1] = "setting" /\ told[2] = line[2]
      BY <1>3 DEF FromLines
    <2>2. Broadcast(told) /\ setting' = line[2] /\ UNCHANGED <<telem, bridge, tcp>>
      BY <1>5 DEF SetSetting, telVars
    <2> HIDE DEF told
    <2> QED
      BY <1>3, <1>5, <2>1, <2>2, ToldKeeps DEF TcpStates
  <1>6. CASE (line[1] = "connect" /\ ConnectTelemetry) \/ (line[1] = "disconnect" /\ DisconnectTelemetry)
    <2> DEFINE told == <<"telemetry", telem'>>
    <2>1. telem' \in {"tcp", "error", "disconnected"}
      BY <1>6 DEF ConnectTelemetry, DisconnectTelemetry
    <2>2. told \in FromLines /\ told[1] = "telemetry" /\ told[2] = telem'
      BY <2>1 DEF FromLines, Status
    <2>3. Broadcast(told) /\ UNCHANGED setting
      BY <1>6 DEF ConnectTelemetry, DisconnectTelemetry
    <2>4. bridge' \in {"udp", "tcp", "closed"} /\ tcp' \in TcpStates
      BY <1>6 DEF ConnectTelemetry, DisconnectTelemetry, Connected, CloseBridge, TcpStates
    <2> HIDE DEF told
    <2> QED
      BY <1>3, <1>6, <2>1, <2>2, <2>3, <2>4, ToldKeeps DEF TcpStates, Status
  <1>7. CASE line[1] = "mav" /\ SendAction(line[2])
    <2> DEFINE told == <<"mav", line[2]>>
    <2>1. told \in FromLines /\ told[1] = "mav"
      BY <1>3 DEF FromLines
    <2>2. Broadcast(told) /\ UNCHANGED <<setting, telem, bridge>>
      BY <1>7 DEF SendAction
    <2>3. tcp' \in TcpStates
      BY <1>3, <1>7, AfterActionType DEF SendAction
    <2> HIDE DEF told
    <2> QED
      BY <1>3, <1>7, <2>1, <2>2, <2>3, ToldKeeps DEF TcpStates
  <1> QED
    BY <1>4, <1>5, <1>6, <1>7, Zenon DEF HandleEvent, Handled

----
(* The clients. *)

\* glide-ui sends a request, or tries to.
LEMMA RequestSent ==
    ASSUME BusInv, NEW line \in ToLines, ClientSends("ui", <<line>>),
           UNCHANGED <<ctl, ctlPc, setting, events, sock, known>>
    PROVE  /\ toCtl' \in [Clients -> Seq(ToLines)] /\ lost' \in [Clients -> BOOLEAN]
           /\ \A c \in Clients : Len(toCtl'[c]) <= SockCap
           /\ SockInv'
           /\ \A c \in Clients : Whole(c)' => Whole(c)
           /\ \A c \in Clients : \A kind : Unasked(c, kind)' => Unasked(c, kind)
           /\ Whole("ui")' => /\ ~Unasked("ui", line[1])'
                              /\ WillHold' = IF line[1] = "set" THEN line[2] ELSE WillHold
  <1>1. TypeInv /\ SockInv
    BY DEF BusInv
  <1>2. /\ toCtl' \in [Clients -> Seq(ToLines)] /\ lost' \in [Clients -> BOOLEAN]
        /\ \A c \in Clients : Len(toCtl'[c]) <= SockCap
        /\ \A c \in Clients : ~lost'[c] => ~lost[c]
        /\ toCtl'["flow"] = toCtl["flow"]
        /\ \A c \in Clients : sock[c] # "open" => toCtl'[c] = toCtl[c]
        /\ \A kind : None(toCtl'["ui"], kind) => None(toCtl["ui"], kind)
        /\ ~lost'["ui"] => /\ ~None(toCtl'["ui"], line[1])
                           /\ \A kind, d : LastOf(toCtl'["ui"], kind, d)
                                = IF line[1] = kind THEN line[2] ELSE LastOf(toCtl["ui"], kind, d)
    BY <1>1, Asking
  <1>3. \A c \in Clients : \A kind : None(toCtl'[c], kind) => None(toCtl[c], kind)
    BY <1>2 DEF Clients
  <1>4. SockInv'
    BY <1>1, <1>2, <1>3 DEF SockInv
  <1>5. \A c \in Clients : Whole(c)' => Whole(c)
    BY <1>2 DEF Whole
  <1>6. \A c \in Clients : \A kind : Unasked(c, kind)' => Unasked(c, kind)
    BY <1>3 DEF Unasked
  <1>7. ASSUME Whole("ui")'
        PROVE  /\ ~Unasked("ui", line[1])'
               /\ WillHold' = IF line[1] = "set" THEN line[2] ELSE WillHold
    <2>1. ~lost'["ui"]
      BY <1>7 DEF Whole
    <2> QED
      BY <1>2, <2>1 DEF Unasked, WillHold
  <1> QED
    BY <1>2, <1>4, <1>5, <1>6, <1>7

LEMMA ToggleKeeps ==
    ASSUME BusInv, Toggle
    PROVE  BusInv'
  <1>1. TypeInv /\ SockInv /\ ViewInv /\ TelemInv /\ WantInv
    BY DEF BusInv
  <1> DEFINE v == ~view["ui"]
  <1>2. /\ UNCHANGED <<mode, ctl, ctlPc, setting, telem, events, sock, known, toClient, bridge, tcp,
                       uiTelem, auto>>
        /\ view' = [view EXCEPT !["ui"] = v]
        /\ want' = IF sock["ui"] = "open" THEN {v} ELSE {}
    BY DEF Toggle, ctlVars, telVars, uiVars
  <1>3. v \in BOOLEAN /\ "ui" \in Clients /\ "flow" \in Clients
    BY DEF Clients
  <1>4. view \in [Clients -> BOOLEAN]
    BY <1>1 DEF TypeInv, TypeOK
  <1> HIDE DEF v
  <1>5. view' \in [Clients -> BOOLEAN] /\ \A c \in Clients : c # "ui" => view'[c] = view[c]
    BY <1>2, <1>3, <1>4, Zenon
  <1>6. want' \subseteq BOOLEAN
    BY <1>2, <1>3, Zenon
  <1>7. CASE sock["ui"] = "none"
    <2>1. UNCHANGED <<toCtl, lost>>
      BY <1>7 DEF Toggle
    <2>2. TypeOK'
      BY <1>1, <1>2, <1>5, <2>1 DEF TypeInv, TypeOK
    <2>3. TypeInv'
      BY <1>1, <1>2, <1>6, <2>1, <2>2 DEF TypeInv
    <2>4. SockInv'
      BY <1>1, <1>2, <2>1 DEF SockInv
    <2>5. ~Whole("ui")'
      BY <1>2, <1>7 DEF Whole
    <2>6. ViewInv'
      BY <1>1, <1>2, <1>5, <2>1, <2>5 DEF ViewInv, Whole, Unasked, WillShow
    <2> QED
      BY <2>3, <2>4, <2>5, <2>6 DEF BusInv, TelemInv, WantInv
  <1>8. CASE sock["ui"] # "none"
    <2> DEFINE line == <<"set", v>>
    <2>1. line \in ToLines /\ line[1] = "set" /\ line[2] = v
      BY <1>3 DEF ToLines
    <2>2. ClientSends("ui", <<line>>)
      BY <1>8 DEF Toggle, v
    <2> HIDE DEF line
    <2>3. /\ toCtl' \in [Clients -> Seq(ToLines)] /\ lost' \in [Clients -> BOOLEAN]
          /\ \A c \in Clients : Len(toCtl'[c]) <= SockCap
          /\ SockInv'
          /\ \A c \in Clients : Whole(c)' => Whole(c)
          /\ \A c \in Clients : \A kind : Unasked(c, kind)' => Unasked(c, kind)
          /\ Whole("ui")' => /\ ~Unasked("ui", "set")'
                             /\ WillHold' = v
      BY <1>2, <2>1, <2>2, RequestSent
    <2>4. TypeOK'
      BY <1>1, <1>2, <1>5, <2>3 DEF TypeInv, TypeOK
    <2>5. TypeInv'
      BY <1>1, <1>2, <1>6, <2>3, <2>4 DEF TypeInv
    <2>6. ViewInv'
      <3>1. ASSUME NEW c \in Clients, Whole(c)', Unasked(c, "hello")', Unasked(c, "set")'
            PROVE  WillShow(c)' = setting'
        <4>1. c # "ui"
          BY <2>3, <3>1
        <4>2. Whole(c) /\ Unasked(c, "hello") /\ Unasked(c, "set")
          BY <2>3, <3>1
        <4> QED
          BY <1>1, <1>2, <1>5, <4>1, <4>2 DEF ViewInv, WillShow
      <3> QED
        BY <3>1 DEF ViewInv
    <2>7. TelemInv'
      BY <1>1, <1>2, <1>3, <2>3 DEF TelemInv, WillReport
    <2>8. WantInv'
      BY <1>2, <2>3 DEF WantInv
    <2> QED
      BY <2>3, <2>5, <2>6, <2>7, <2>8 DEF BusInv
  <1> QED
    BY <1>7, <1>8

\* The requests about telemetry; a CONNECT changes the status on the screen.
LEMMA AskKeeps ==
    ASSUME BusInv, AskConnect \/ AskDisconnect \/ \E numeric \in BOOLEAN : AskAction(numeric)
    PROVE  BusInv'
  <1>1. TypeInv /\ SockInv /\ ViewInv /\ TelemInv /\ WantInv
    BY DEF BusInv
  <1>2. PICK line \in ToLines :
          /\ ClientSends("ui", <<line>>)
          /\ UNCHANGED <<mode, ctl, ctlPc, setting, telem, events, sock, known, toClient, bridge,
                         tcp, view, want>>
          /\ line[1] # "set" /\ auto' \in BOOLEAN
          /\ uiTelem' = (IF line[1] = "connect" THEN "connecting" ELSE uiTelem)
    <2> USE DEF ctlVars, telVars, uiVars
    <2>0. auto \in BOOLEAN
      BY <1>1 DEF TypeInv, TypeOK
    <2>1. CASE AskConnect
      <3>1. <<"connect", TRUE>> \in ToLines
        BY DEF ToLines
      <3> WITNESS <<"connect", TRUE>> \in ToLines
      <3> QED
        BY <2>1 DEF AskConnect, Retry
    <2>2. CASE AskDisconnect
      <3>1. <<"disconnect", TRUE>> \in ToLines
        BY DEF ToLines
      <3> WITNESS <<"disconnect", TRUE>> \in ToLines
      <3> QED
        BY <2>2 DEF AskDisconnect
    <2>3. ASSUME NEW numeric \in BOOLEAN, AskAction(numeric)
          PROVE \E line \in ToLines :
            /\ ClientSends("ui", <<line>>)
            /\ UNCHANGED <<mode, ctl, ctlPc, setting, telem, events, sock, known, toClient, bridge,
                           tcp, view, want>>
            /\ line[1] # "set" /\ auto' \in BOOLEAN
            /\ uiTelem' = (IF line[1] = "connect" THEN "connecting" ELSE uiTelem)
      <3>1. <<"mav", numeric>> \in ToLines
        BY DEF ToLines
      <3> WITNESS <<"mav", numeric>> \in ToLines
      <3> QED
        BY <2>0, <2>3 DEF AskAction
    <2> QED
      BY <2>1, <2>2, <2>3, Zenon
  <1>3. /\ toCtl' \in [Clients -> Seq(ToLines)] /\ lost' \in [Clients -> BOOLEAN]
        /\ \A c \in Clients : Len(toCtl'[c]) <= SockCap
        /\ SockInv'
        /\ \A c \in Clients : Whole(c)' => Whole(c)
        /\ \A c \in Clients : \A kind : Unasked(c, kind)' => Unasked(c, kind)
        /\ Whole("ui")' => /\ ~Unasked("ui", line[1])'
                           /\ WillHold' = WillHold
    BY <1>2, RequestSent
  <1>4. TypeOK'
    BY <1>1, <1>2, <1>3 DEF TypeInv, TypeOK
  <1>5. TypeInv'
    BY <1>1, <1>2, <1>3, <1>4 DEF TypeInv
  <1>6. ViewInv'
    BY <1>1, <1>2, <1>3 DEF ViewInv, WillShow
  <1>7. TelemInv'
    BY <1>1, <1>2, <1>3 DEF TelemInv, WillReport, Clients
  <1>8. WantInv'
    BY <1>1, <1>2, <1>3 DEF WantInv, Clients
  <1> QED
    BY <1>3, <1>5, <1>6, <1>7, <1>8 DEF BusInv

LEMMA Pair ==
    ASSUME NEW x, NEW y
    PROVE  <<x>> \o <<y>> = <<x, y>>
  <1> DEFINE a == <<x>>
             b == <<y>>
             c == a \o b
             d == <<x, y>>
             S == {x, y}
  <1>1. a \in Seq(S) /\ Len(a) = 1 /\ a[1] = x /\ b \in Seq(S) /\ Len(b) = 1 /\ b[1] = y
    OBVIOUS
  <1>2. d \in Seq(S) /\ Len(d) = 2 /\ d[1] = x /\ d[2] = y
    OBVIOUS
  <1> HIDE DEF a, b, d, S
  <1>3. /\ c \in Seq(S) /\ Len(c) = Len(a) + Len(b)
        /\ \A i \in 1..Len(a) + Len(b) : c[i] = IF i <= Len(a) THEN a[i] ELSE b[i - Len(a)]
    BY <1>1, ConcatProperties
  <1> HIDE DEF c
  <1>4. Len(c) = 2 /\ c[1] = x /\ c[2] = y
    BY <1>1, <1>3
  <1>5. \A i \in 1..2 : c[i] = d[i]
    <2>1. \A i \in 1..2 : i = 1 \/ i = 2
      OBVIOUS
    <2> QED
      BY <1>2, <1>4, <2>1
  <1>6. c = d
    BY <1>2, <1>3, <1>4, <1>5, SeqEqual
  <1> QED
    BY <1>6 DEF a, b, c, d

\* A client connects, its hello first.
LEMMA HelloFirst ==
    ASSUME NEW lines, lines \in {<< <<"hello", TRUE>> >>, << <<"hello", TRUE>>, <<"connect", TRUE>> >>}
    PROVE  /\ lines \in Seq(ToLines) /\ Len(lines) <= 2 /\ ~None(lines, "hello")
           /\ None(lines, "set")
  <1>1. <<"hello", TRUE>> \in ToLines /\ <<"connect", TRUE>> \in ToLines
    BY DEF ToLines
  <1>2. CASE lines = << <<"hello", TRUE>> >>
    <2>1. /\ lines \in Seq(ToLines) /\ Len(lines) = 1 /\ lines[1][1] = "hello"
      BY <1>1, <1>2
    <2> QED
      BY <2>1 DEF None
  <1>3. CASE lines = << <<"hello", TRUE>>, <<"connect", TRUE>> >>
    <2>1. /\ lines \in Seq(ToLines) /\ Len(lines) = 2 /\ lines[1][1] = "hello"
          /\ lines[2][1] = "connect"
      BY <1>1, <1>3
    <2> QED
      BY <2>1 DEF None
  <1> QED
    BY <1>2, <1>3

LEMMA ConnectKeeps ==
    ASSUME BusInv, NEW b \in Clients, NEW lines,
           lines \in {<< <<"hello", TRUE>> >>, << <<"hello", TRUE>>, <<"connect", TRUE>> >>},
           sock[b] = "none", ctl = "up", Opened(b, lines),
           toClient' \in [Clients -> Seq(FromLines)],
           \A c \in Clients : Len(toClient'[c]) <= SockCap,
           \A c \in Clients : c # b => toClient'[c] = toClient[c] /\ lost'[c] = lost[c],
           lost' \in [Clients -> BOOLEAN], uiTelem' \in Status \cup {"connecting"},
           want' = (IF b = "ui" THEN {} ELSE want),
           b # "ui" => uiTelem' = uiTelem,
           UNCHANGED <<mode, ctl, ctlPc, setting, telem, events, known, bridge, tcp, view, auto>>
    PROVE  BusInv'
  <1>1. TypeInv /\ SockInv /\ ViewInv /\ TelemInv /\ WantInv
    BY DEF BusInv
  <1>2. lines \in Seq(ToLines) /\ Len(lines) <= 2 /\ ~None(lines, "hello") /\ None(lines, "set")
    BY HelloFirst
  <1> HIDE DEF Opened
  <1>3. sock' = [sock EXCEPT ![b] = "open"] /\ toCtl' = [toCtl EXCEPT ![b] = lines]
    BY DEF Opened
  <1>4. /\ sock \in [Clients -> {"none", "open", "eof"}] /\ toCtl \in [Clients -> Seq(ToLines)]
        /\ \A c \in Clients : Len(toCtl[c]) <= SockCap
    BY <1>1 DEF TypeInv, TypeOK
  <1>5. /\ sock' \in [Clients -> {"none", "open", "eof"}] /\ toCtl' \in [Clients -> Seq(ToLines)]
        /\ sock'[b] = "open" /\ toCtl'[b] = lines
        /\ \A c \in Clients : c # b => sock'[c] = sock[c] /\ toCtl'[c] = toCtl[c]
    BY <1>2, <1>3, <1>4
  <1>6. \A c \in Clients : Len(toCtl'[c]) <= SockCap
    <2>1. Len(lines) <= SockCap
      BY <1>2, SockCapAssumption
    <2> QED
      BY <1>4, <1>5, <2>1
  <1>7. TypeOK'
    BY <1>1, <1>5, <1>6 DEF TypeInv, TypeOK
  <1>8. TypeInv'
    BY <1>1, <1>5, <1>7, Zenon DEF TypeInv
  <1>9. SockInv'
    <2>1. b \notin known
      BY <1>1 DEF SockInv
    <2>2. known \subseteq Clients
      BY <1>1 DEF TypeInv, TypeOK
    <2>3. \A c \in known : sock'[c] = "open"
      BY <1>1, <1>5, <2>1, <2>2 DEF SockInv
    <2>4. \A c \in Clients : sock'[c] # "open" => toCtl'[c] = <<>>
      BY <1>1, <1>5 DEF SockInv
    <2>5. \A c \in Clients : sock'[c] = "open" => c \in known \/ ~None(toCtl'[c], "hello")
      BY <1>1, <1>2, <1>5 DEF SockInv
    <2>6. None(toCtl'["flow"], "set")
      BY <1>1, <1>2, <1>5 DEF SockInv, Clients
    <2> QED
      BY <1>1, <2>3, <2>4, <2>5, <2>6 DEF SockInv
  <1>10. ~Unasked(b, "hello")'
    BY <1>2, <1>5 DEF Unasked
  <1>11. ViewInv'
    <2>1. ASSUME NEW c \in Clients, Whole(c)', Unasked(c, "hello")', Unasked(c, "set")'
          PROVE  WillShow(c)' = setting'
      <3>1. c # b
        BY <1>10, <2>1
      <3>2. Whole(c) /\ Unasked(c, "hello") /\ Unasked(c, "set") /\ toClient'[c] = toClient[c]
        BY <1>5, <2>1, <3>1 DEF Whole, Unasked
      <3> QED
        BY <1>1, <3>2 DEF ViewInv, WillShow
    <2> QED
      BY <2>1 DEF ViewInv
  <1>12. TelemInv' /\ WantInv'
    <2>1. CASE b = "ui"
      <3>1. TelemInv'
        BY <1>10, <2>1 DEF TelemInv
      <3>2. want' = {}
        BY <2>1
      <3> QED
        BY <3>1, <3>2 DEF WantInv
    <2>2. CASE b # "ui"
      <3>1. "ui" \in Clients
        BY DEF Clients
      <3>2. /\ sock'["ui"] = sock["ui"] /\ toCtl'["ui"] = toCtl["ui"] /\ lost'["ui"] = lost["ui"]
            /\ toClient'["ui"] = toClient["ui"] /\ uiTelem' = uiTelem /\ want' = want
        BY <1>5, <2>2, <3>1
      <3>3. TelemInv'
        BY <1>1, <3>2 DEF TelemInv, Whole, Unasked, WillReport
      <3>4. WantInv'
        BY <1>1, <3>2 DEF WantInv, Whole, WillHold
      <3> QED
        BY <3>3, <3>4
    <2> QED
      BY <2>1, <2>2
  <1> QED
    BY <1>8, <1>9, <1>11, <1>12 DEF BusInv

LEMMA ConnectUiKeeps ==
    ASSUME BusInv, NEW due \in BOOLEAN, ConnectUi(due)
    PROVE  BusInv'
  <1>1. TypeInv
    BY DEF BusInv
  <1> DEFINE retries == Retries(due, uiTelem)
             lines == IF retries THEN InitialRequests \o Retry ELSE InitialRequests
  <1>2. /\ sock["ui"] = "none" /\ ctl = "up" /\ Opened("ui", lines)
        /\ toClient' = [toClient EXCEPT !["ui"] = <<>>] /\ lost' = [lost EXCEPT !["ui"] = FALSE]
        /\ uiTelem' = (IF retries THEN "connecting" ELSE uiTelem) /\ want' = {}
        /\ UNCHANGED <<mode, ctl, ctlPc, setting, telem, events, known, bridge, tcp, view, auto>>
    BY DEF ConnectUi, ctlVars, telVars
  <1>3. lines \in {<< <<"hello", TRUE>> >>, << <<"hello", TRUE>>, <<"connect", TRUE>> >>}
    <2>1. InitialRequests = << <<"hello", TRUE>> >>
      BY DEF InitialRequests
    <2>2. InitialRequests \o Retry = << <<"hello", TRUE>>, <<"connect", TRUE>> >>
      BY Pair DEF InitialRequests, Retry
    <2> QED
      BY <2>1, <2>2
  <1> HIDE DEF lines, retries
  <1>4. "ui" \in Clients /\ FALSE \in BOOLEAN
    BY DEF Clients
  <1>5. /\ toClient \in [Clients -> Seq(FromLines)] /\ lost \in [Clients -> BOOLEAN]
        /\ \A c \in Clients : Len(toClient[c]) <= SockCap
        /\ uiTelem \in Status \cup {"connecting"}
    BY <1>1 DEF TypeInv, TypeOK
  <1>6. <<>> \in Seq(FromLines) /\ Len(<<>>) = 0
    OBVIOUS
  <1>7. /\ toClient' \in [Clients -> Seq(FromLines)] /\ toClient'["ui"] = <<>>
        /\ \A c \in Clients : c # "ui" => toClient'[c] = toClient[c]
    BY <1>2, <1>4, <1>5, <1>6, Zenon
  <1>8. \A c \in Clients : Len(toClient'[c]) <= SockCap
    BY <1>5, <1>6, <1>7, SockCapAssumption
  <1>9. lost' \in [Clients -> BOOLEAN] /\ \A c \in Clients : c # "ui" => lost'[c] = lost[c]
    BY <1>2, <1>4, <1>5, Zenon
  <1>10. uiTelem' \in Status \cup {"connecting"}
    BY <1>2, <1>5
  <1>11. /\ sock["ui"] = "none" /\ ctl = "up" /\ Opened("ui", lines)
         /\ want' = (IF "ui" = "ui" THEN {} ELSE want)
         /\ UNCHANGED <<mode, ctl, ctlPc, setting, telem, events, known, bridge, tcp, view, auto>>
    BY <1>2
  <1>12. \A c \in Clients : c # "ui" => toClient'[c] = toClient[c] /\ lost'[c] = lost[c]
    BY <1>7, <1>9
  <1>13. toClient' \in [Clients -> Seq(FromLines)] /\ lost' \in [Clients -> BOOLEAN]
    BY <1>7, <1>9
  <1> QED
    BY <1>3, <1>4, <1>8, <1>10, <1>11, <1>12, <1>13, ConnectKeeps

LEMMA ConnectFlowKeeps ==
    ASSUME BusInv, ConnectFlow
    PROVE  BusInv'
  <1>1. TypeInv
    BY DEF BusInv
  <1> DEFINE lines == << <<"hello", TRUE>> >>
  <1>2. /\ sock["flow"] = "none" /\ ctl = "up" /\ Opened("flow", lines)
        /\ UNCHANGED <<mode, ctl, ctlPc, setting, telem, events, known, toClient, lost, bridge, tcp,
                       view, uiTelem, auto, want>>
    BY DEF ConnectFlow, ctlVars, telVars, uiVars
  <1>3. lines \in {<< <<"hello", TRUE>> >>, << <<"hello", TRUE>>, <<"connect", TRUE>> >>}
    OBVIOUS
  <1> HIDE DEF lines
  <1>4. "flow" \in Clients /\ "flow" # "ui"
    BY DEF Clients
  <1>5. /\ toClient' \in [Clients -> Seq(FromLines)] /\ lost' \in [Clients -> BOOLEAN]
        /\ \A c \in Clients : Len(toClient'[c]) <= SockCap
        /\ uiTelem' \in Status \cup {"connecting"}
    BY <1>1, <1>2 DEF TypeInv, TypeOK
  <1> QED
    BY <1>2, <1>3, <1>4, <1>5, ConnectKeeps

\* A client reads its lines; b shows from then on what it was going to show.
LEMMA LinesRead ==
    ASSUME BusInv, NEW b \in Clients, sock[b] # "none",
           sock' = [sock EXCEPT ![b] = AfterEof(@)],
           toClient' = [toClient EXCEPT ![b] = <<>>],
           view' = [view EXCEPT ![b] = LastOf(toClient[b], "setting", @)]
    PROVE  /\ sock' \in [Clients -> {"none", "open", "eof"}]
           /\ toClient' \in [Clients -> Seq(FromLines)]
           /\ \A c \in Clients : Len(toClient'[c]) <= SockCap
           /\ view' \in [Clients -> BOOLEAN]
           /\ \A c \in Clients : sock'[c] = "open" <=> sock[c] = "open"
           /\ \A c \in Clients : WillShow(c)' = WillShow(c)
           /\ \A c \in Clients : c # b => toClient'[c] = toClient[c]
           /\ \A kind, d : LastOf(toClient'[b], kind, d) = d
  <1>1. /\ sock \in [Clients -> {"none", "open", "eof"}]
        /\ toClient \in [Clients -> Seq(FromLines)]
        /\ \A c \in Clients : Len(toClient[c]) <= SockCap
        /\ view \in [Clients -> BOOLEAN]
    BY DEF BusInv, TypeInv, TypeOK
  <1>2. sock' \in [Clients -> {"none", "open", "eof"}]
        /\ \A c \in Clients : sock'[c] = "open" <=> sock[c] = "open"
    BY <1>1 DEF AfterEof
  <1>3. <<>> \in Seq(FromLines) /\ Len(<<>>) = 0
    OBVIOUS
  <1>4. /\ toClient' \in [Clients -> Seq(FromLines)] /\ toClient'[b] = <<>>
        /\ \A c \in Clients : c # b => toClient'[c] = toClient[c]
    BY <1>1, <1>3, Zenon
  <1>5. \A c \in Clients : Len(toClient'[c]) <= SockCap
    BY <1>1, <1>3, <1>4, SockCapAssumption
  <1>6. ASSUME NEW kind, NEW d PROVE LastOf(toClient'[b], kind, d) = d
    <2>1. toClient'[b] \in Seq(FromLines) /\ None(toClient'[b], kind)
      BY <1>3, <1>4 DEF None
    <2> QED
      BY <2>1, LastOfNone, Zenon
  <1> DEFINE w == LastOf(toClient[b], "setting", view[b])
  <1>7. w \in BOOLEAN
    <2>1. toClient[b] \in Seq(FromLines) /\ view[b] \in BOOLEAN
      BY <1>1
    <2>2. \A x \in FromLines : x[1] = "setting" => x[2] \in BOOLEAN
      BY DEF FromLines
    <2> QED
      BY <2>1, <2>2, LastOfAmong, Zenon
  <1>8. view' = [view EXCEPT ![b] = w]
    BY <1>1
  <1> HIDE DEF w
  <1>9. /\ view' \in [Clients -> BOOLEAN] /\ view'[b] = w
        /\ \A c \in Clients : c # b => view'[c] = view[c]
    BY <1>1, <1>7, <1>8, Zenon
  <1>10. ASSUME NEW c \in Clients PROVE WillShow(c)' = WillShow(c)
    <2>1. CASE c = b
      BY <1>6, <1>9, <2>1 DEF WillShow, w
    <2>2. CASE c # b
      BY <1>4, <1>9, <2>2 DEF WillShow
    <2> QED
      BY <2>1, <2>2
  <1> QED
    BY <1>2, <1>4, <1>5, <1>6, <1>9, <1>10

LEMMA PollFlowKeeps ==
    ASSUME BusInv, PollFlow
    PROVE  BusInv'
  <1>1. TypeInv /\ SockInv /\ ViewInv /\ TelemInv /\ WantInv
    BY DEF BusInv
  <1>2. "flow" \in Clients /\ "ui" \in Clients /\ "ui" # "flow"
    BY DEF Clients
  <1>3. /\ sock["flow"] # "none" /\ sock' = [sock EXCEPT !["flow"] = AfterEof(@)]
        /\ toClient' = [toClient EXCEPT !["flow"] = <<>>]
        /\ view' = [view EXCEPT !["flow"] = LastOf(toClient["flow"], "setting", @)]
        /\ UNCHANGED <<mode, ctl, ctlPc, setting, telem, events, known, toCtl, lost, bridge, tcp,
                       uiTelem, auto, want>>
    BY DEF PollFlow, ctlVars, telVars, uiVars
  <1>4. /\ sock' \in [Clients -> {"none", "open", "eof"}]
        /\ toClient' \in [Clients -> Seq(FromLines)]
        /\ \A c \in Clients : Len(toClient'[c]) <= SockCap
        /\ view' \in [Clients -> BOOLEAN]
        /\ \A c \in Clients : sock'[c] = "open" <=> sock[c] = "open"
        /\ \A c \in Clients : WillShow(c)' = WillShow(c)
        /\ \A c \in Clients : c # "flow" => toClient'[c] = toClient[c]
    BY <1>2, <1>3, LinesRead
  <1>5. /\ UNCHANGED <<mode, ctl, ctlPc, setting, telem, events, known, toCtl, lost, bridge, tcp,
                       uiTelem, auto, want>>
        /\ toClient'["ui"] = toClient["ui"]
    BY <1>2, <1>3, <1>4
  <1>6. TypeOK'
    BY <1>1, <1>4, <1>5 DEF TypeInv, TypeOK
  <1>7. TypeInv'
    BY <1>1, <1>4, <1>5, <1>6 DEF TypeInv
  <1>8. SockInv'
    <2>1. known \subseteq Clients
      BY <1>1 DEF TypeInv, TypeOK
    <2> QED
      BY <1>1, <1>4, <1>5, <2>1 DEF SockInv
  <1>9. ViewInv'
    BY <1>1, <1>4, <1>5 DEF ViewInv, Whole, Unasked
  <1>10. TelemInv'
    BY <1>1, <1>2, <1>4, <1>5 DEF TelemInv, Whole, Unasked, WillReport
  <1>11. WantInv'
    BY <1>1, <1>2, <1>4, <1>5 DEF WantInv, Whole, WillHold
  <1> QED
    BY <1>7, <1>8, <1>9, <1>10, <1>11 DEF BusInv

LEMMA PollUiKeeps ==
    ASSUME BusInv, NEW due \in BOOLEAN, PollUi(due)
    PROVE  BusInv'
  <1>1. TypeInv /\ SockInv /\ ViewInv /\ TelemInv /\ WantInv
    BY DEF BusInv
  <1>2. "flow" \in Clients /\ "ui" \in Clients /\ "ui" # "flow"
    BY DEF Clients
  <1> DEFINE status == LastOf(toClient["ui"], "telemetry", uiTelem)
             retries == Retries(due, status) /\ sock["ui"] = "open"
  <1>3. /\ sock["ui"] # "none" /\ sock' = [sock EXCEPT !["ui"] = AfterEof(@)]
        /\ toClient' = [toClient EXCEPT !["ui"] = <<>>]
        /\ view' = [view EXCEPT !["ui"] = LastOf(toClient["ui"], "setting", @)]
        /\ uiTelem' = (IF retries THEN "connecting" ELSE status)
        /\ IF retries THEN ClientSends("ui", Retry) ELSE UNCHANGED <<toCtl, lost>>
        /\ UNCHANGED <<mode, ctl, ctlPc, setting, telem, events, known, bridge, tcp, auto, want>>
    BY DEF PollUi, ctlVars, telVars
  <1>4. /\ sock' \in [Clients -> {"none", "open", "eof"}]
        /\ toClient' \in [Clients -> Seq(FromLines)]
        /\ \A c \in Clients : Len(toClient'[c]) <= SockCap
        /\ view' \in [Clients -> BOOLEAN]
        /\ \A c \in Clients : sock'[c] = "open" <=> sock[c] = "open"
        /\ \A c \in Clients : WillShow(c)' = WillShow(c)
        /\ \A d : LastOf(toClient'["ui"], "telemetry", d) = d
    BY <1>2, <1>3, LinesRead
  <1>5. UNCHANGED <<mode, ctl, ctlPc, setting, telem, events, known, bridge, tcp, auto, want>>
    BY <1>3
  <1>6. status \in Status \cup {"connecting"} /\ status = WillReport
    <2>1. toClient["ui"] \in Seq(FromLines) /\ uiTelem \in Status \cup {"connecting"}
      BY <1>1, <1>2 DEF TypeInv, TypeOK
    <2>2. \A x \in FromLines : x[1] = "telemetry" => x[2] \in Status \cup {"connecting"}
      BY DEF FromLines
    <2>3. status \in Status \cup {"connecting"}
      BY <2>1, <2>2, LastOfAmong, Zenon
    <2> QED
      BY <2>3 DEF WillReport
  <1>7. WillReport' = uiTelem'
    BY <1>4 DEF WillReport
  <1>8. known \subseteq Clients
    BY <1>1 DEF TypeInv, TypeOK
  <1>9. CASE retries
    <2> DEFINE line == <<"connect", TRUE>>
    <2>1. line \in ToLines /\ line[1] = "connect"
      BY DEF ToLines
    <2>2. ClientSends("ui", <<line>>) /\ uiTelem' = "connecting"
      BY <1>3, <1>9 DEF Retry
    <2>3. sock' = sock
      BY <1>1, <1>2, <1>3, <1>9 DEF AfterEof, TypeInv, TypeOK
    <2> HIDE DEF line, retries
    <2>4. /\ toCtl' \in [Clients -> Seq(ToLines)] /\ lost' \in [Clients -> BOOLEAN]
          /\ \A c \in Clients : Len(toCtl'[c]) <= SockCap
          /\ SockInv'
          /\ \A c \in Clients : Whole(c)' => Whole(c)
          /\ \A c \in Clients : \A kind : Unasked(c, kind)' => Unasked(c, kind)
          /\ Whole("ui")' => /\ ~Unasked("ui", "connect")'
                             /\ WillHold' = WillHold
      BY <1>5, <2>1, <2>2, <2>3, RequestSent
    <2>5. TypeOK'
      BY <1>1, <1>4, <1>5, <2>2, <2>4 DEF TypeInv, TypeOK
    <2>6. TypeInv'
      BY <1>1, <1>4, <1>5, <2>4, <2>5 DEF TypeInv
    <2>7. ViewInv'
      BY <1>1, <1>4, <1>5, <2>4 DEF ViewInv
    <2>8. TelemInv'
      BY <2>4 DEF TelemInv
    <2>9. WantInv'
      BY <1>1, <1>2, <1>5, <2>4 DEF WantInv
    <2> QED
      BY <2>4, <2>6, <2>7, <2>8, <2>9 DEF BusInv
  <1>10. CASE ~retries
    <2>1. UNCHANGED <<toCtl, lost>> /\ uiTelem' = status
      BY <1>3, <1>10
    <2> HIDE DEF retries, status
    <2>2. TypeOK'
      BY <1>1, <1>4, <1>5, <1>6, <2>1 DEF TypeInv, TypeOK
    <2>3. TypeInv'
      BY <1>1, <1>4, <1>5, <2>1, <2>2 DEF TypeInv
    <2>4. SockInv'
      BY <1>1, <1>4, <1>5, <1>8, <2>1 DEF SockInv
    <2>5. ViewInv'
      BY <1>1, <1>4, <1>5, <2>1 DEF ViewInv, Whole, Unasked
    <2>6. TelemInv'
      BY <1>1, <1>2, <1>4, <1>5, <1>6, <1>7, <2>1 DEF TelemInv, Whole, Unasked
    <2>7. WantInv'
      BY <1>1, <1>2, <1>4, <1>5, <2>1 DEF WantInv, Whole, WillHold
    <2> QED
      BY <2>3, <2>4, <2>5, <2>6, <2>7 DEF BusInv
  <1> QED
    BY <1>9, <1>10

----
(* The theorem. *)

LEMMA BusKeeps ==
    ASSUME BusInv, [Next]_vars
    PROVE  BusInv'
  <1>1. CASE Controller
    BY <1>1, PollBridgeKeeps, PollIpcKeeps, HandleEventKeeps, QuietKeeps, GoneKeeps, Zenon
    DEF Controller
  <1>2. CASE Stop \/ Start
    BY <1>2, GoneKeeps, StartKeeps, Zenon
  <1>3. ASSUME NEW due \in BOOLEAN, Ui(due) PROVE BusInv'
    BY <1>3, ConnectUiKeeps, PollUiKeeps, Zenon DEF Ui
  <1>4. CASE ReadControlFiles \/ User
    BY <1>4, ReadKeeps, ToggleKeeps, AskKeeps, Zenon DEF User
  <1>5. CASE ConnectFlow \/ PollFlow
    BY <1>5, ConnectFlowKeeps, PollFlowKeeps, Zenon
  <1>6. CASE PeerDown \/ PeerUp \/ PeerResets \/ UNCHANGED vars
    BY <1>6, QuietKeeps, Zenon
  <1> QED
    BY <1>1, <1>2, <1>3, <1>4, <1>5, <1>6, Zenon DEF Next

\* Once nothing is on its way, what is on its way is what there is.
LEMMA BusShows ==
    ASSUME BusInv
    PROVE  ViewsAgree
  <1>1. TypeInv /\ SockInv /\ ViewInv /\ TelemInv /\ WantInv
    BY DEF BusInv
  <1>2. ASSUME NEW c \in Clients, Settled(c)
        PROVE  /\ Whole(c) /\ \A kind : Unasked(c, kind)
               /\ \A kind, d : LastOf(toClient[c], kind, d) = d /\ LastOf(toCtl[c], kind, d) = d
               /\ \A d : LastOf(Said(events), "set", d) = d
    <2>1. /\ toCtl[c] = <<>> /\ toClient[c] = <<>> /\ events = <<>> /\ Whole(c)
          /\ toCtl[c] \in Seq(ToLines) /\ toClient[c] \in Seq(FromLines)
          /\ events \in Seq(Requests) /\ Len(events) = 0
      BY <1>1, <1>2 DEF Settled, Whole, TypeInv
    <2>2. \A kind : None(toCtl[c], kind) /\ None(toClient[c], kind) /\ NoneFrom(events, c, kind)
      BY <2>1 DEF None, NoneFrom
    <2>3. Said(events) \in Seq(ToLines) /\ Len(Said(events)) = 0
      BY <2>1, SaidLines
    <2>4. None(Said(events), "set")
      <3> DEFINE a == Said(events)
      <3>1. Len(a) = 0
        BY <2>3
      <3> HIDE DEF a
      <3>2. None(a, "set")
        BY <3>1 DEF None
      <3> QED
        BY <3>2 DEF a
    <2>5. \A kind, d : LastOf(toClient[c], kind, d) = d /\ LastOf(toCtl[c], kind, d) = d
      BY <2>1, <2>2, LastOfNone, Zenon
    <2>6. \A d : LastOf(Said(events), "set", d) = d
      BY <2>3, <2>4, LastOfNone, Zenon
    <2> QED
      BY <2>1, <2>2, <2>5, <2>6 DEF Unasked
  <1>3. ASSUME NEW c \in Clients, Settled(c) PROVE view[c] = setting
    BY <1>1, <1>2, <1>3 DEF ViewInv, WillShow
  <1>4. ASSUME Settled("ui") PROVE uiTelem = telem
    BY <1>1, <1>2, <1>4 DEF TelemInv, WillReport, Clients
  <1>5. ASSUME Settled("ui") PROVE want \subseteq {setting}
    <2>1. WillHold = setting
      BY <1>2, <1>5 DEF WillHold, Clients
    <2>2. Whole("ui")
      BY <1>2, <1>5 DEF Clients
    <2> QED
      BY <1>1, <2>1, <2>2 DEF WantInv
  <1> QED
    BY <1>1, <1>3, <1>4, <1>5 DEF ViewsAgree, TypeInv

\* A client that lost no line shows, once nothing is on its way, what the
\* controller holds, and the user's last choice is what the controller ended
\* up with, whatever crossed on the sockets (poll_runtime_controls,
\* Server::poll and send_line; send_fps_state and poll_ipc in glide-ui).
THEOREM ViewsAgreeAlways == Spec => []ViewsAgree
  <1>1. Init => BusInv
    BY InitOk
  <1>2. BusInv /\ [Next]_vars => BusInv'
    BY BusKeeps
  <1>3. BusInv => ViewsAgree
    BY BusShows
  <1> QED
    BY <1>1, <1>2, <1>3, PTL DEF Spec
====

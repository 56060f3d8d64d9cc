---- MODULE Supervisor_proofs ----
(***************************************************************************)
(* Theorems about Supervisor, for any set of stacks.  StackInv adds to     *)
(* NoneLeftBehind what holds on the way there: which children the          *)
(* controller has still to wait for, and that it gets past a failed launch *)
(* on Windows only.                                                        *)
(***************************************************************************)
EXTENDS Supervisor, TLAPS, SequenceTheorems

ChildStates == {"none", "forked", "exec", "setup", "loop", "zombie", "reaped"}

TypeOK ==
    /\ pc \in {"launch", "loop", "end", "wait", "returned"}
    /\ todo \in Seq(Children)
    /\ stop \in BOOLEAN /\ failed \in BOOLEAN
    /\ child \in [Children -> ChildStates]
    /\ told \subseteq Children /\ swallowed \subseteq Children

\* The children in todo.
Remaining == {todo[i] : i \in 1..Len(todo)}

\* Nothing of the child is left: it was never launched, or has been waited for.
Over(c) == child[c] \in {"none", "reaped"}

StackInv ==
    /\ TypeOK
    /\ pc = "wait" => \A c \in Children \ Remaining : Over(c)
    /\ failed => (Windows \/ pc = "returned")
    /\ NoneLeftBehind

----
(* The lists of children. *)

LEMMA Orders ==
  /\ LaunchOrder \in Seq(Children)
  /\ WaitOrder \in Seq(Children)
  /\ \A c \in Children : \E i \in 1..Len(WaitOrder) : WaitOrder[i] = c
<1>1. LaunchOrder \in Seq(Children)
  BY DEF LaunchOrder, Children
<1>2. /\ <<"view", "flow", "ui">> \in Seq(Children)
      /\ <<"view", "ui", "flow">> \in Seq(Children)
  BY DEF Children
<1>3. \A c \in Children : \E i \in {1, 2, 3} : <<"view", "flow", "ui">>[i] = c
  BY DEF Children
<1>4. \A c \in Children : \E i \in {1, 2, 3} : <<"view", "ui", "flow">>[i] = c
  BY DEF Children
<1>5. Len(WaitOrder) = 3
  BY DEF WaitOrder
<1> QED BY <1>1, <1>2, <1>3, <1>4, <1>5 DEF WaitOrder

\* Taking the first child off the list.
LEMMA TakeFirst ==
  ASSUME TypeOK, todo # <<>>
  PROVE  /\ Head(todo) \in Children /\ Tail(todo) \in Seq(Children)
         /\ todo' = Tail(todo) => Remaining \subseteq Remaining' \cup {Head(todo)}
<1>1. todo \in Seq(Children) /\ Len(todo) \in Nat /\ Len(todo) # 0
  BY EmptySeq, LenProperties DEF TypeOK
<1>2. /\ Head(todo) = todo[1] /\ Head(todo) \in Children
      /\ Tail(todo) \in Seq(Children) /\ Len(Tail(todo)) = Len(todo) - 1
      /\ \A i \in 1..Len(Tail(todo)) : Tail(todo)[i] = todo[i + 1]
  BY <1>1, HeadTailProperties, ElementOfSeq
<1>3. ASSUME todo' = Tail(todo), NEW c \in Remaining, c # Head(todo)
      PROVE  c \in Remaining'
  <2>1. PICK i \in 1..Len(todo) : c = todo[i]
    BY <1>3 DEF Remaining
  <2>2. i - 1 \in 1..Len(Tail(todo)) /\ (i - 1) + 1 = i
    BY <1>1, <1>2, <1>3, <2>1
  <2>3. todo'[i - 1] = c
    BY <1>2, <1>3, <2>1, <2>2
  <2> QED BY <1>3, <2>2, <2>3 DEF Remaining
<1> QED BY <1>2, <1>3

----
(* The inductive invariant. *)

LEMMA StackInit == Init => StackInv
<1> SUFFICES ASSUME Init PROVE StackInv
  OBVIOUS
<1>1. TypeOK
  BY Orders DEF Init, TypeOK, ChildStates
<1> QED BY <1>1 DEF Init, StackInv, NoneLeftBehind

\* A signal ends a child or leaves it what it is; it starts none.
LEMMA Signals ==
  ASSUME TypeOK, NEW before \in [Children -> ChildStates], NEW cs \in SUBSET Children,
         TerminatedIn(before, cs)
  PROVE  /\ child' \in [Children -> ChildStates]
         /\ told' \subseteq Children /\ swallowed' \subseteq Children
         /\ \A c \in Children : child'[c] = before[c] \/ (before[c] = "exec" /\ child'[c] = "zombie")
         /\ told \subseteq told' /\ swallowed \subseteq swallowed'
<1>1. child' = [c \in Children |-> IF c \in cs /\ before[c] = "exec" THEN "zombie" ELSE before[c]]
  BY DEF TerminatedIn
<1>2. \A c \in Children : before[c] \in ChildStates /\ "zombie" \in ChildStates
  BY DEF ChildStates
<1>3. child' \in [Children -> ChildStates]
  BY <1>1, <1>2
<1>4. \A c \in Children : child'[c] = before[c] \/ (before[c] = "exec" /\ child'[c] = "zombie")
  <2> TAKE c \in Children
  <2>1. child'[c] = IF c \in cs /\ before[c] = "exec" THEN "zombie" ELSE before[c]
    BY <1>1
  <2> QED BY <2>1
<1>5. told' \subseteq Children /\ swallowed' \subseteq Children
  BY DEF TerminatedIn, TypeOK
<1>6. told \subseteq told' /\ swallowed \subseteq swallowed'
  BY DEF TerminatedIn
<1> QED BY <1>3, <1>4, <1>5, <1>6

LEMMA ControllerStep == StackInv /\ Controller => StackInv'
<1> SUFFICES ASSUME StackInv, Controller PROVE StackInv'
  OBVIOUS
<1>t. TypeOK /\ child \in [Children -> ChildStates] /\ todo \in Seq(Children)
  BY DEF StackInv, TypeOK
<1>e. <<>> \in Seq(Children)
  BY EmptySeq
<1>1. CASE Launch
  <2>1. Head(todo) \in Children /\ Tail(todo) \in Seq(Children)
    BY <1>1, <1>t, TakeFirst DEF Launch
  <2>2. child' \in [Children -> ChildStates]
    BY <1>1, <1>t, <2>1 DEF Launch, ChildStates
  <2>3. TypeOK'
    BY <1>1, <1>t, <2>1, <2>2 DEF Launch, TypeOK
  <2> QED BY <1>1, <2>3 DEF Launch, StackInv, NoneLeftBehind, Windows
<1>2. CASE LaunchFails
  <2>0. Alive \in SUBSET Children
    BY DEF Alive
  <2>1. /\ child' \in [Children -> ChildStates]
        /\ told' \subseteq Children /\ swallowed' \subseteq Children
    BY <1>2, <1>t, <2>0, Signals DEF LaunchFails, Terminated
  <2>2. TypeOK'
    BY <1>2, <1>t, <2>1 DEF LaunchFails, TypeOK
  <2>3. ASSUME NEW c \in Alive' PROVE c \in told' \cup swallowed'
    BY <1>2, <1>t, <2>3 DEF LaunchFails, Terminated, TerminatedIn, Alive, ChildStates
  <2> QED BY <1>2, <2>2, <2>3 DEF LaunchFails, StackInv, NoneLeftBehind, Windows
<1>3. CASE WindowsLaunchFails
  <2>1. TypeOK'
    BY <1>3, <1>t, TakeFirst DEF WindowsLaunchFails, TypeOK
  <2> QED BY <1>3, <2>1 DEF WindowsLaunchFails, StackInv, NoneLeftBehind, Windows
<1>4. CASE Launched
  <2>1. TypeOK'
    BY <1>4, <1>t, <1>e, Orders DEF Launched, TypeOK
  <2>2. pc' = "wait" => Remaining' = Children
    <3> SUFFICES ASSUME pc' = "wait" PROVE Remaining' = Children
      OBVIOUS
    <3>1. todo' = WaitOrder
      BY <1>4 DEF Launched
    <3>2. \A i \in 1..Len(WaitOrder) : WaitOrder[i] \in Children
      BY Orders, ElementOfSeq
    <3> QED BY <3>1, <3>2, Orders DEF Remaining
  <2> QED BY <1>4, <2>1, <2>2 DEF Launched, StackInv, NoneLeftBehind, Windows
<1>5. CASE StopSeen \/ WindowsSeesExit
  <2>1. TypeOK' /\ pc' = "end" /\ pc = "loop" /\ failed' = failed /\ mode' = mode
    BY <1>5, <1>t DEF StopSeen, WindowsSeesExit, TypeOK
  <2> QED BY <2>1 DEF StackInv, NoneLeftBehind, Windows
<1>6. CASE ReapOne
  <2>1. TypeOK'
    <3>1. /\ child' \in [Children -> ChildStates] /\ pc' \in {"loop", "end"}
          /\ told' \subseteq Children /\ swallowed' \subseteq Children
      <4>1. PICK c \in Children :
              \/ /\ \E cs \in SUBSET Children : TerminatedIn([child EXCEPT ![c] = "reaped"], cs)
                 /\ pc' = "end"
              \/ /\ child' = [child EXCEPT ![c] = "reaped"]
                 /\ UNCHANGED <<pc, told, swallowed>>
        BY <1>6 DEF ReapOne, EndedBy
      <4>2. [child EXCEPT ![c] = "reaped"] \in [Children -> ChildStates]
        BY <1>t DEF ChildStates
      <4> QED BY <1>6, <1>t, <4>1, <4>2, Signals DEF ReapOne, TypeOK
    <3> QED BY <1>6, <1>t, <3>1 DEF ReapOne, TypeOK
  <2>2. pc' \in {"loop", "end"}
    BY <1>6 DEF ReapOne
  <2> QED BY <1>6, <2>1, <2>2 DEF ReapOne, StackInv, NoneLeftBehind, Windows
<1>7. CASE End
  <2>1. TypeOK'
    <3>1. /\ child' \in [Children -> ChildStates]
          /\ told' \subseteq Children /\ swallowed' \subseteq Children
      BY <1>7, <1>t, Signals DEF End, Terminated, TypeOK
    <3> QED BY <1>7, <1>t, <3>1, Orders DEF End, TypeOK
  <2>2. Remaining' = Children
    <3>1. todo' = WaitOrder
      BY <1>7 DEF End
    <3>2. \A i \in 1..Len(WaitOrder) : WaitOrder[i] \in Children
      BY Orders, ElementOfSeq
    <3> QED BY <3>1, <3>2, Orders DEF Remaining
  <2> QED BY <1>7, <2>1, <2>2 DEF End, StackInv, NoneLeftBehind, Windows
<1>8. CASE Wait \/ CloseWindowsChild
  <2>1. /\ pc = "wait" /\ todo # <<>> /\ todo' = Tail(todo)
        /\ UNCHANGED <<mode, pc, stop, failed, told, swallowed>>
    BY <1>8 DEF Wait, CloseWindowsChild
  <2>2. Head(todo) \in Children /\ Remaining \subseteq Remaining' \cup {Head(todo)}
    BY <1>t, <2>1, TakeFirst
  <2>3. /\ child' \in [Children -> ChildStates]
        /\ child'[Head(todo)] \in {"none", "reaped"}
        /\ \A c \in Children \ {Head(todo)} : child'[c] = child[c]
    BY <1>8, <1>t, <2>2 DEF Wait, Awaited, CloseWindowsChild, ChildStates
  <2>4. TypeOK'
    BY <1>t, <2>1, <2>3, TakeFirst DEF TypeOK
  <2>5. ASSUME NEW c \in Children \ Remaining' PROVE Over(c)'
    BY <2>1, <2>2, <2>3, <2>5 DEF StackInv, Over
  <2> QED BY <2>1, <2>4, <2>5 DEF StackInv, NoneLeftBehind, Windows
<1>9. CASE Return
  <2>1. TypeOK'
    BY <1>9, <1>t DEF Return, TypeOK
  <2>2. Remaining = {}
    BY <1>9, EmptySeq DEF Return, Remaining
  <2>3. \A c \in Children : Over(c)
    BY <1>9, <2>2 DEF Return, StackInv
  <2>4. failed => Windows
    BY <1>9 DEF Return, StackInv
  <2> QED BY <1>9, <2>1, <2>3, <2>4 DEF Return, StackInv, NoneLeftBehind, Windows, Over
<1> QED
  BY <1>1, <1>2, <1>3, <1>4, <1>5, <1>6, <1>7, <1>8, <1>9 DEF Controller

\* Signals from outside and the life of the children start no child and unsettle
\* none that is over.
LEMMA OutsideStep ==
  ASSUME StackInv,
         UNCHANGED <<mode, pc, todo, failed>>, TypeOK',
         told \subseteq told', swallowed \subseteq swallowed',
         \A c \in Children : \/ child'[c] = child[c]
                             \/ c \in Alive
  PROVE  StackInv'
<1>1. UNCHANGED <<Remaining, Windows>>
  BY DEF Remaining, Windows
<1>2. \A c \in Children : Over(c) => Over(c)'
  BY DEF Over, Alive
<1>3. Alive' \subseteq Alive
  BY DEF Alive
<1> QED BY <1>1, <1>2, <1>3 DEF StackInv, NoneLeftBehind, Over, TypeOK

LEMMA StackStep == StackInv /\ [Next]_vars => StackInv'
<1> SUFFICES ASSUME StackInv, [Next]_vars PROVE StackInv'
  OBVIOUS
<1>t. TypeOK /\ child \in [Children -> ChildStates]
  BY DEF StackInv, TypeOK
<1>1. CASE Controller
  BY <1>1, ControllerStep
<1>2. ASSUME NEW group \in BOOLEAN, RequestStop(group) PROVE StackInv'
  <2>1. /\ UNCHANGED <<mode, pc, todo, failed>> /\ stop' = TRUE
        /\ \/ TerminatedIn(child, Children)
           \/ UNCHANGED <<child, told, swallowed>>
    BY <1>2 DEF RequestStop, Terminated
  <2>2. /\ child' \in [Children -> ChildStates]
        /\ told' \subseteq Children /\ swallowed' \subseteq Children
        /\ told \subseteq told' /\ swallowed \subseteq swallowed'
        /\ \A c \in Children : child'[c] = child[c] \/ c \in Alive
    BY <1>t, <2>1, Signals DEF Alive, TypeOK
  <2>3. TypeOK'
    BY <1>t, <2>1, <2>2 DEF TypeOK
  <2> QED BY <2>1, <2>2, <2>3, OutsideStep
<1>3. ASSUME NEW c \in Children, Progress(c) \/ EndByItself(c) \/ Crash(c) PROVE StackInv'
  <2>1. PICK state \in ChildStates : c \in Alive /\ Becomes(c, state)
    BY <1>3 DEF Progress, Exec, InstallHandlers, SetUp, LeaveLoop, EndByItself, Crash, Alive,
                ChildStates
  <2>2. /\ child' = [child EXCEPT ![c] = state]
        /\ UNCHANGED <<mode, pc, todo, stop, failed, told, swallowed>>
    BY <2>1 DEF Becomes
  <2>3. TypeOK'
    BY <1>t, <2>2 DEF TypeOK
  <2> QED BY <1>t, <2>1, <2>2, <2>3, OutsideStep
<1>4. CASE UNCHANGED vars
  BY <1>4, <1>t, OutsideStep DEF vars, TypeOK
<1> QED BY <1>1, <1>2, <1>3, <1>4 DEF Next

LEMMA StackInvariant == Spec => []StackInv
BY StackInit, StackStep, PTL DEF Spec

\* When the controller returns after its loop it has waited for every child it
\* launched, in each of the stacks, whatever ended the loop and whoever died
\* meanwhile; after a failed launch every child that still lives was sent a SIGTERM.
THEOREM NoChildLeft == Spec => []NoneLeftBehind
<1>1. StackInv => NoneLeftBehind
  BY DEF StackInv
<1> QED BY <1>1, StackInvariant, PTL
====

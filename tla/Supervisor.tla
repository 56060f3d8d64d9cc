---- MODULE Supervisor ----
(***************************************************************************)
(* The process stacks of openhd-glide (src/openhd_glide/main.cpp): the      *)
(* controller launches glide-view, glide-flow and glide-ui, watches them    *)
(* and, when one of them ends or it is asked to stop, ends the others and   *)
(* waits for them.  run_preview_stack and run_kms_stack on Linux, and the   *)
(* run_preview_stack of Windows.                                           *)
(*                                                                         *)
(* The messages the processes exchange meanwhile are in ControlBus.         *)
(***************************************************************************)
EXTENDS FiniteSets, Sequences

CONSTANT Modes        \* which of the stacks are run

ASSUME ModesAssumption == Modes \subseteq {"preview", "kms", "windows"}

Children == {"view", "flow", "ui"}

VARIABLES
    mode,
    pc,               \* the controller: "launch", "loop", "end", "wait" or "returned"
    todo,             \* children still to be launched, or to be waited for, in order
    stop,             \* stop_requested of the controller
    failed,           \* it could not launch a child and returns 1
    child,            \* per child: "none", "forked", "exec", "setup", "loop", "zombie" or
                      \* "reaped" (on Windows: its handles are closed)
    told,             \* children whose own stop_requested is set
    swallowed         \* history: children that were sent a SIGTERM before exec

vars == <<mode, pc, todo, stop, failed, child, told, swallowed>>

LaunchOrder == <<"view", "flow", "ui">>

Init ==
    /\ mode \in Modes
    /\ pc = "launch" /\ todo = LaunchOrder
    /\ stop = FALSE /\ failed = FALSE
    /\ child = [c \in Children |-> "none"]
    /\ told = {} /\ swallowed = {}

Windows == mode = "windows"

----
(* Signals.  Between fork and exec the child still has the controller's     *)
(* handler, which sets a flag that exec throws away; until its own main has *)
(* installed a handler SIGTERM ends it; then it sets its stop_requested.    *)

\* terminate_child of each of cs, the children being as in before; one that is
\* gone does not notice.
TerminatedIn(before, cs) ==
    /\ child' = [c \in Children |-> IF c \in cs /\ before[c] = "exec" THEN "zombie" ELSE before[c]]
    /\ told' = told \cup {c \in cs : before[c] \in {"setup", "loop"}}
    /\ swallowed' = swallowed \cup {c \in cs : before[c] = "forked"}

Terminated(cs) == TerminatedIn(child, cs)

Alive == {c \in Children : child[c] \in {"forked", "exec", "setup", "loop"}}
Gone  == {c \in Children : child[c] \in {"zombie", "reaped"}}

----
(* The controller. *)

\* launch_child.
Launch ==
    /\ pc = "launch" /\ todo # <<>>
    /\ child' = [child EXCEPT ![Head(todo)] = IF Windows THEN "exec" ELSE "forked"]
    /\ todo' = Tail(todo)
    /\ UNCHANGED <<mode, pc, stop, failed, told, swallowed>>

\* fork fails: those launched before are sent a SIGTERM and not waited for.
LaunchFails ==
    /\ pc = "launch" /\ todo # <<>> /\ ~Windows
    /\ pc' = "returned" /\ failed' = TRUE
    /\ Terminated(Alive)
    /\ UNCHANGED <<mode, todo, stop>>

\* CreateProcess fails: the others are launched, and then all are closed.
WindowsLaunchFails ==
    /\ pc = "launch" /\ todo # <<>> /\ Windows
    /\ todo' = Tail(todo) /\ failed' = TRUE
    /\ UNCHANGED <<mode, pc, stop, child, told, swallowed>>

WaitOrder == IF Windows THEN <<"view", "flow", "ui">> ELSE <<"view", "ui", "flow">>

Launched ==
    /\ pc = "launch" /\ todo = <<>>
    /\ pc' = IF failed THEN "wait" ELSE "loop"
    /\ todo' = IF failed THEN WaitOrder ELSE <<>>
    /\ UNCHANGED <<mode, stop, failed, child, told, swallowed>>

\* The while condition is false.
StopSeen ==
    /\ pc = "loop" /\ stop
    /\ pc' = "end"
    /\ UNCHANGED <<mode, todo, stop, failed, child, told, swallowed>>

EndedBy_OnlyUi(c) == c = "ui"

\* Which child's exit ends the loop: any.
EndedBy(c) == c \in Children

\* waitpid(-1, WNOHANG) reaps one that is gone, and the loop ends; the preview
\* stack signals the other two, the KMS stack all three.
ReapOne ==
    /\ pc = "loop" /\ ~Windows
    /\ \E c \in Children :
          /\ child[c] = "zombie"
          /\ IF EndedBy(c)
             THEN /\ TerminatedIn([child EXCEPT ![c] = "reaped"],
                                  IF mode = "kms" THEN Children ELSE Children \ {c})
                  /\ pc' = "end"
             ELSE /\ child' = [child EXCEPT ![c] = "reaped"]
                  /\ UNCHANGED <<pc, told, swallowed>>
    /\ UNCHANGED <<mode, todo, stop, failed>>

\* WaitForSingleObject sees that one of the processes has ended.
WindowsSeesExit ==
    /\ pc = "loop" /\ Windows
    /\ \E c \in Children : child[c] = "zombie" /\ EndedBy(c)
    /\ pc' = "end"
    /\ UNCHANGED <<mode, todo, stop, failed, child, told, swallowed>>

\* After the loop every child is signalled, whatever became of it.
End ==
    /\ pc = "end"
    /\ pc' = "wait" /\ todo' = WaitOrder
    /\ IF Windows THEN UNCHANGED <<child, told, swallowed>> ELSE Terminated(Children)
    /\ UNCHANGED <<mode, stop, failed>>

Awaited_Anyone(c) == TRUE

\* waitpid(pid, nullptr, 0) returns when the child is gone, or was reaped before.
Awaited(c) == child[c] \in {"zombie", "reaped"}

Wait ==
    /\ pc = "wait" /\ todo # <<>> /\ ~Windows
    /\ Awaited(Head(todo))
    /\ child' = [child EXCEPT ![Head(todo)] = IF @ = "zombie" THEN "reaped" ELSE @]
    /\ todo' = Tail(todo)
    /\ UNCHANGED <<mode, pc, stop, failed, told, swallowed>>

\* close_windows_child: a process that runs is terminated; its handles, if it
\* has any, are closed.
CloseWindowsChild ==
    /\ pc = "wait" /\ todo # <<>> /\ Windows
    /\ child' = [child EXCEPT ![Head(todo)] = IF @ = "none" THEN @ ELSE "reaped"]
    /\ todo' = Tail(todo)
    /\ UNCHANGED <<mode, pc, stop, failed, told, swallowed>>

Return ==
    /\ pc = "wait" /\ todo = <<>>
    /\ pc' = "returned"
    /\ UNCHANGED <<mode, todo, stop, failed, child, told, swallowed>>

\* SIGTERM or SIGINT to the controller; Ctrl-C reaches its children too.
RequestStop(group) ==
    /\ ~stop
    /\ stop' = TRUE
    /\ IF group /\ ~Windows THEN Terminated(Children) ELSE UNCHANGED <<child, told, swallowed>>
    /\ UNCHANGED <<mode, pc, todo, failed>>

----
(* The children. *)

Becomes(c, state) ==
    /\ child' = [child EXCEPT ![c] = state]
    /\ UNCHANGED <<mode, pc, todo, stop, failed, told, swallowed>>

\* execv, execvp, or _exit(127) when neither finds the program.
Exec(c) == child[c] = "forked" /\ (Becomes(c, "exec") \/ Becomes(c, "zombie"))

\* main's first lines.
InstallHandlers(c) == child[c] = "exec" /\ Becomes(c, "setup")

\* Options, sockets, windows, the GStreamer pipeline of glide-view.
SetUp(c) == child[c] = "setup" /\ (Becomes(c, "loop") \/ Becomes(c, "zombie"))

\* Every main loop runs while its stop_requested is 0.
LeavesLoop(c) == c \in told

LeaveLoop(c) == child[c] = "loop" /\ LeavesLoop(c) /\ Becomes(c, "zombie")

\* glide-view ends when its pipeline fails, glide-flow when its window is closed
\* or the video fails; glide-ui has no such end.
EndByItself(c) == child[c] = "loop" /\ c \in {"view", "flow"} /\ Becomes(c, "zombie")

\* Killed or crashed.
Crash(c) == child[c] \in {"exec", "setup", "loop"} /\ Becomes(c, "zombie")

----

Controller ==
    \/ Launch \/ LaunchFails \/ WindowsLaunchFails \/ Launched
    \/ StopSeen \/ ReapOne \/ WindowsSeesExit \/ End \/ Wait \/ CloseWindowsChild \/ Return

Progress(c) == Exec(c) \/ InstallHandlers(c) \/ SetUp(c) \/ LeaveLoop(c)

Next ==
    \/ Controller
    \/ \E group \in BOOLEAN : RequestStop(group)
    \/ \E c \in Children : Progress(c) \/ EndByItself(c) \/ Crash(c)

\* The processes are scheduled.
Fairness == WF_vars(Controller) /\ \A c \in Children : WF_vars(Progress(c))

Spec == Init /\ [][Next]_vars /\ Fairness

----
(* Properties. *)

\* When the controller returns after its loop no child is left, running or as a
\* zombie; after a failed launch each child it had launched was at least told
\* (launch_child's callers, the three terminate_child and waitpid calls).
NoneLeftBehind ==
    pc = "returned" =>
        IF failed /\ ~Windows
        THEN \A c \in Alive : c \in told \cup swallowed
        ELSE \A c \in Children : child[c] \in {"none", "reaped"}

\* A request to stop, or the end of any child, ends the whole stack: the
\* controller returns and no child goes on, unless a SIGTERM met a child that
\* had not come to exec (request_stop inherited through fork).
StackEnds ==
    [](swallowed = {}) =>
        (stop \/ failed \/ Gone # {} ~> pc = "returned" /\ Alive = {})
====

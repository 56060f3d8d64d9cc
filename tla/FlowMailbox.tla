---- MODULE FlowMailbox ----
(***************************************************************************)
(* What the Flow hand-off of KmsAtomicCompositor promises, without buffer  *)
(* objects, threads or commits: a single-slot mailbox between the thread   *)
(* that draws the OSD and the display.  Frames are numbered in the order   *)
(* they are published; the display only ever moves forward, only to a      *)
(* frame that was published as a whole, and may skip superseded ones.      *)
(***************************************************************************)
EXTENDS Naturals

CONSTANT MaxFrames       \* bound on the number of frames published in a run

VARIABLES
    published,           \* number of the last frame handed to the compositor
    shown,               \* number of the frame on the plane, 0 when it is off
    on                   \* FALSE once the compositor gave the plane up

vars == <<published, shown, on>>

Init == published = 0 /\ shown = 0 /\ on = TRUE

Publish ==
    /\ published < MaxFrames
    /\ published' = published + 1
    /\ UNCHANGED <<shown, on>>

Show ==
    /\ on
    /\ shown' \in (shown + 1)..published
    /\ UNCHANGED <<published, on>>

TurnOff ==
    /\ on
    /\ on' = FALSE
    /\ shown' = 0
    /\ UNCHANGED published

Next == Publish \/ Show \/ TurnOff

Spec == Init /\ [][Next]_vars
====

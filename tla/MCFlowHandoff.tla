---- MODULE MCFlowHandoff ----
(* Instances of FlowHandoff for TLC. *)
EXTENDS FlowHandoff

CONSTANTS b1, b2, b3, b4

FourBufs == {b1, b2, b3, b4}     \* Mesa's GBM surfaces have four color buffers
\* The recorder with the Flow thread only, where both threads run.
EveryMode == {o \in AllOptions : o.writeback => o.flowMode = "async" /\ ~o.cpuVideo}
====

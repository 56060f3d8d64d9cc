---- MODULE MCControlBus ----
(* Bounds for TLC. *)
EXTENDS ControlBus

Bound(toggle, action, outage, restart) ==
    [toggle |-> toggle, action |-> action, outage |-> outage, restart |-> restart]

\* Telemetry is followed through an outage and a restart in the KMS controller;
\* in the stack two clients follow the settings.
BothModes == "kms" :> Bound(1, 2, 1, 1) @@ "stack" :> Bound(2, 1, 0, 0)

====

SPECIFICATION Spec
CONSTANTS
    Bounds <- BothModes
    SockCap = 3
INVARIANTS ViewsAgree TelemetryIsTrue
PROPERTIES UiResyncs

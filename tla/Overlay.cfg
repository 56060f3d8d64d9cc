SPECIFICATION Spec
CONSTANTS
    Setups <- MCSetups
    Snaps <- MCSnaps
    MaxLines = 2
    MaxPeers = 1
    MaxFlight = 2
INVARIANTS HandlesLive OverlayAgrees EnterActsOnFocusedRow CoordinatesReturn
PROPERTIES PanelCatchesUp

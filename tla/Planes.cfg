SPECIFICATION Spec
CONSTANTS
    NumPlanes = 3
    Setups <- EverySetup
INVARIANTS LayersKeepPlanes FlowSparesVideo

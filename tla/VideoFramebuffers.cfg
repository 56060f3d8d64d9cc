SPECIFICATION Spec
CONSTANTS
    FrameBufs <- ThreeFrames
    Layouts <- ThreeLayouts
    CpuLayouts <- TwoSizes
    MaxCached = 2
    MaxGbm = 1
    MaxId = 6
INVARIANTS TypeOK PlaneShowsFrame HandlesAccounted
PROPERTIES StaysLit
CHECK_DEADLOCK FALSE

SPECIFICATION Spec
CONSTANTS
    Others = {p1, p2}
    Names = {n1, n2}
    Self = self
    SockCap = 5
    Bounds <- EveryCase
INVARIANTS ListedOnce DisplayAgrees
PROPERTIES ScanEnds

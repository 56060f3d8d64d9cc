SPECIFICATION FairSpec
CONSTANTS
    ReadyCap = 4
    Backlog = 2
    NumBufs = 16
    UnitCap = 3
    MaxDecoded = 8
INVARIANTS TypeOK ScanoutHeld OneOwner
PROPERTIES FreshInOrder QueuedIsShown DecoderFailureEndsPreview

SPECIFICATION FairSpec
CONSTANTS
    b1 = b1
    b2 = b2
    b3 = b3
    b4 = b4
    NoBuf = NoBuf
    Solid = Solid
    Bufs <- FourBufs
    Options <- EveryMode
    MaxFrames = 4
INVARIANTS TypeOK ScanoutSafe UniqueOwner NeverStarved
PROPERTIES ImplementsMailbox PublishedIsShown ShutdownCompletes

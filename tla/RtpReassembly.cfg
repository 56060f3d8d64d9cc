SPECIFICATION Spec
CONSTANTS
    Decoders = {"rkmpp", "imx", "cedar"}
    Stream <- TwoPictures
    SeqModulus = 16
    TsModulus = 16
    ResyncSeq = 4
    ResyncTs = 2
    SeqJumps <- Jumps
    TsJumps <- TimeJumps
    Window = 2
    Disturbances = {"lose", "repeat", "delay", "restart"}
    MaxDisturbances = 2
INVARIANTS WellFormedInOrder CedarPictures
PROPERTIES RecoversInTime

SPECIFICATION Spec
CONSTANTS
    Decoders = {"rkmpp"}
    Stream <- TwoPictures
    SeqModulus = 16
    TsModulus = 16
    ResyncSeq = 4
    ResyncTs = 2
    SeqJumps <- Jumps
    TsJumps <- TimeJumps
    Window = 2
    Disturbances = {"lose"}
    MaxDisturbances = 1
INVARIANTS WholePictures

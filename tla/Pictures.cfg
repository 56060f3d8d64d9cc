SPECIFICATION Spec
CONSTANTS
    Paths = {"cedar", "imx", "imxGles", "gst", "gstMjpeg"}
    MaxUnits = 6
    VbvCap = 2
    NumBufs = 3
    ReadyCap = 2
    SinkCap = 2
    MaxErrors = 2
INVARIANTS BuffersHeld
PROPERTIES ShownInOrder DecodedIsShown

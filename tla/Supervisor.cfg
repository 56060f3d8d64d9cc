SPECIFICATION Spec
CONSTANT Modes = {"preview", "kms", "windows"}
INVARIANTS NoneLeftBehind
PROPERTIES StackEnds
CHECK_DEADLOCK FALSE

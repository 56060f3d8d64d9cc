SPECIFICATION Spec
CONSTANT Programs <- MCPrograms
INVARIANTS NothingDangles
PROPERTIES StopReturns

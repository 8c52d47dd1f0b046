SPECIFICATION Spec
CONSTANTS
  None = None
  End = End
  Err = Err
  Break = Break
  v1 = v1
  v2 = v2
  Index <- Indices
  Calls <- AllCalls
INVARIANTS WalkInOrder ReadsExact NothingDangles
PROPERTY ReadsEnd
CHECK_DEADLOCK FALSE

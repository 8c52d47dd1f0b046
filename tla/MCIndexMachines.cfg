SPECIFICATION MCSpec
CONSTANTS
  N = 4
  ByteCount = 16
  Elem = {e1, e2, e3}
  Value = {v1, v2}
  Absent = Absent
  ByteBits = 2
  MaxPairs = 4
INVARIANTS RangeExact PairsInOrder ExactSize WireIsCanonical
PROPERTY RefinesMap
CHECK_DEADLOCK FALSE

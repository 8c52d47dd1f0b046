SPECIFICATION Spec
CONSTANTS
  None = None
  Done = Done
  Err = Err
  v1 = v1
  v2 = v2
  Index <- TwoIndices
  Keys <- NestedKeys
  PrefixKeys <- NestedPrefixes
  Data <- OneValue
  Sensitive <- SensitiveInner
  Starts <- OnlyEmpty
INVARIANTS SealedClosed HashIsCanonical SealedHashValid
PROPERTIES CallsReturn

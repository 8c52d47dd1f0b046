SPECIFICATION Spec
CONSTANTS
  None = None
  Done = Done
  Err = Err
  v1 = v1
  v2 = v2
  Index <- TwoIndices
  Keys <- ChainKeys
  PrefixKeys <- ChainPrefixes
  Data <- TwoValues
  Sensitive <- SensitiveRoot
  Starts <- HandBuilt
INVARIANT HashIsCanonical
PROPERTIES RefinesMap

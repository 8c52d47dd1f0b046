SPECIFICATION Spec
CONSTANTS
  None = None
  Done = Done
  Err = Err
  v1 = v1
  v2 = v2
  Index <- ThreeIndices
  Keys <- BranchingKeys
  PrefixKeys <- BranchingPrefixes
  Data <- OneValue
  Sensitive = {}
  Starts <- OnlyEmpty
INVARIANT Settled
PROPERTIES RefinesMap EditsOnlyInline HashNeverFails

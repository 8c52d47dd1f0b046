SPECIFICATION Spec
CONSTANTS N = 4 ByteCount = 16 MaxLen = 2
INVARIANT KeysKeepOrder
CHECK_DEADLOCK FALSE

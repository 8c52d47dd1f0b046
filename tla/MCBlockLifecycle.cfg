SPECIFICATION Spec
CONSTANT Cap = 4
INVARIANTS EverySlotAnswered DroppedOnce
PROPERTY DropFreesBlock
CHECK_DEADLOCK FALSE

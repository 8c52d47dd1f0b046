SPECIFICATION Spec
CONSTANT Size = 6
INVARIANT DropsFlat
CHECK_DEADLOCK FALSE

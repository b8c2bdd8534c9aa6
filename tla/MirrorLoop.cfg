SPECIFICATION Spec
CONSTANTS
    Options <- Looping
    Faults = 0
INVARIANTS NeverStuck
CHECK_DEADLOCK FALSE

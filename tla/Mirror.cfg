SPECIFICATION Spec
CONSTANTS
    Options <- Several
    Faults = 2
INVARIANTS CountExact Mirrored NothingLost NoErrorOfItsOwn NeverStuck
CHECK_DEADLOCK FALSE

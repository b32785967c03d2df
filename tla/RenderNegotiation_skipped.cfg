SPECIFICATION Spec
CONSTANTS
    M = 3
    Kinds = {"foreign", "good"}
    MaxResizes = 1
INVARIANTS
    GivesUpOnlyWithoutUsable
CHECK_DEADLOCK FALSE

CONSTANTS
    NDevs = 4
    Slots = {1, 2}
    MaxBoots = 5
SPECIFICATION Spec
CHECK_DEADLOCK FALSE
INVARIANT Routed

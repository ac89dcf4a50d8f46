\* Caps lock held long enough for the device to repeat its make code: each
\* repeat toggles shift_flag again, and KeysymsMatch fails.
CONSTANTS
    Cap = 6
    Junk = Junk
    Keys <- MCCapsKeys
    Repeat = {"CAPS"}
    MaxEvents = 3
    NakBudget = 0
SPECIFICATION Spec
CHECK_DEADLOCK FALSE
INVARIANT KeysymsMatch

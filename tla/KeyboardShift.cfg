\* Both shift keys held together, the device asking for no resend:
\* KeysymsMatch fails when one of them comes up.
CONSTANTS
    Cap = 6
    Junk = Junk
    Keys <- MCShiftKeys
    Repeat = {}
    MaxEvents = 4
    NakBudget = 0
SPECIFICATION Spec
CHECK_DEADLOCK FALSE
INVARIANT KeysymsMatch

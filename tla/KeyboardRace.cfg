\* keyboard_init's six commands, no key typed, the device asking for no
\* resend: the reset's answers, taken between queue_push's ++size and its
\* store, make two bytes go out at once and OneCommandOutstanding fails.
CONSTANTS
    Cap = 6
    Junk = Junk
    Keys <- MCKeys
    Repeat <- MCRepeat
    MaxEvents = 0
    NakBudget = 0
SPECIFICATION Spec
CHECK_DEADLOCK FALSE
INVARIANT OneCommandOutstanding

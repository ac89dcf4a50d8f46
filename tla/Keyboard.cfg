\* keyboard_init's six commands against a device that may ask for one
\* resend, with two key events typed at any time, left shift repeating.
\* The driver waits for interrupts once init is done and no key is pressed:
\* the end of a behaviour is not a deadlock.
CONSTANTS
    Cap = 6
    Junk = Junk
    Keys <- MCKeys
    Repeat <- MCRepeat
    MaxEvents = 2
    NakBudget = 1
SPECIFICATION Spec
CHECK_DEADLOCK FALSE
INVARIANTS TypeOK KeysymsMatch
PROPERTIES InitDrains

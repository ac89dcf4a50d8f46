------------------------------ MODULE MCKeyboard ------------------------------
(* Keyboard.tla instantiated for TLC: the keys the user may press.        *)
EXTENDS Keyboard

MCKeys == {"A", "LSHIFT"}
MCRepeat == {"LSHIFT"}

\* Both shift keys; caps lock held down long enough to repeat.
MCShiftKeys == {"A", "LSHIFT", "RSHIFT"}
MCCapsKeys == {"A", "CAPS"}
====

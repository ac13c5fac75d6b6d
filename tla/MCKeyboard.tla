----------------------------- MODULE MCKeyboard -----------------------------
\* A key of each kind: a letter, modifiers, locks, a console, arrows, and the
\* two keys of many bytes.
EXTENDS Keyboard
MCKeys == AllKeys \ {"enter", "shift_l", "f1"}
=============================================================================

------------------------------ MODULE Keyboard ------------------------------
(***************************************************************************)
(* The keyboard (kernel/keyboard.c): the interrupt handler puts the bytes of *)
(* the keyboard into kb_in, and TASK TTY puts bytes together to keys, keeps   *)
(* the modifiers, and has in_process act on each key (kernel/tty.c).  A key  *)
(* is one to six bytes; TTY spins until the rest of a key arrives.  For a     *)
(* lock key, TTY sends the keyboard two bytes and polls the data port for     *)
(* the acknowledgement of each, which the interrupt handler reads as well.   *)
(***************************************************************************)
EXTENDS Integers, Sequences, SequencesExt

CONSTANTS
  Keys,         \* the keys the user presses, members of AllKeys
  Arrivals,     \* bound: presses and releases in a behaviour
  KB_IN_BYTES   \* the size of the keyboard buffer (32)

AllKeys == {"a", "enter", "shift_l", "shift_r", "alt_l", "alt_r", "caps", "num", "f1",
            "f2", "up", "pad_up", "print", "pause"}

ASSUME KeyboardAssumption ==
  /\ Keys \subseteq AllKeys
  /\ Arrivals \in Nat /\ KB_IN_BYTES \in Nat \ {0}

ACK == \hFA

VARIABLES
  wire,      \* bytes the keyboard has still to send
  port,      \* the byte last seen at KB_DATA
  kb_in,     \* the keyboard buffer
  at,        \* where TTY is: idle, in keyboard_read, or in kb_ack for set_leds
  seen,      \* the bytes of the key being read
  key,       \* key in keyboard_read, where it keeps PAUSEBREAK or PRINTSCREEN
  make,      \* make in keyboard_read: "unset" (not initialised), "make", "break"
  mods,      \* shift_l, shift_r, alt_l, caps_lock, num_lock
  tty,       \* the terminal keyboard_read was called for
  current,   \* current_console
  got,       \* what in_process has done, and for which terminal
  arrived,   \* presses and releases so far
  user,      \* ghost: the keys held, and what locks and console the user expects
  meant,     \* ghost: what the user meant
  lost       \* ghost: how the code has gone wrong (see below)

readVars == <<at, seen, key, make, mods, tty, current, got>>
userVars == <<arrived, user, meant>>
keyboardVars == <<wire, port, kb_in, readVars, userVars, lost>>

----------------------------------------------------------------------------
(* The keyboard                                                             *)

PauseBreak == <<\hE1, \h1D, \h45, \hE1, \h9D, \hC5>>
PrintMake  == <<\hE0, \h2A, \hE0, \h37>>
PrintBreak == <<\hE0, \hB7, \hE0, \hAA>>

\* keymap: scan code, and the three columns.
keymap ==
  [a |-> <<\h1E, "a", "A", "none">>, enter |-> <<\h1C, "nl", "nl", "nl">>,
   shift_l |-> <<\h2A, "shift_l", "shift_l", "none">>,
   shift_r |-> <<\h36, "shift_r", "shift_r", "none">>,
   alt |-> <<\h38, "alt_l", "alt_l", "alt_r">>, caps |-> <<\h3A, "caps", "caps", "none">>,
   num |-> <<\h45, "num", "num", "none">>, f1 |-> <<\h3B, "f1", "f1", "none">>,
   f2 |-> <<\h3C, "f2", "f2", "none">>, up |-> <<\h48, "pad_up", "8", "up">>]

\* The key that a scan code stands for in a column: keymap[..][column].
KeyAt(code, column) ==
  LET rows == {r \in DOMAIN keymap : keymap[r][1] = code % 128}
  IN IF rows = {} THEN "none" ELSE keymap[CHOOSE r \in rows : TRUE][column + 2]

\* The bytes of a key, pressed and released.
Plain(r) == <<keymap[r][1]>>
MakeBytes(k) ==
  CASE k = "print" -> PrintMake
    [] k = "pause" -> PauseBreak
    [] k = "up"    -> <<\hE0>> \o Plain("up")
    [] k = "alt_r" -> <<\hE0>> \o Plain("alt")
    [] k = "alt_l" -> Plain("alt")
    [] k = "pad_up" -> Plain("up")
    [] OTHER       -> Plain(k)
BreakBytes(k) ==
  CASE k = "print" -> PrintBreak
    [] k = "pause" -> <<>>
    [] OTHER -> [i \in DOMAIN MakeBytes(k) |->
                   IF i = Len(MakeBytes(k)) THEN MakeBytes(k)[i] + 128 ELSE MakeBytes(k)[i]]

\* What the user means by a key: a character, a scrolled screen, a console.
Meaning(k) ==
  LET shift == {"shift_l", "shift_r"} \cap user.down # {}
  IN CASE k = "a" -> IF shift # user.caps THEN "A" ELSE "a"
       [] k = "enter" -> "nl"
       [] k = "pad_up" -> IF shift \/ user.num THEN "8" ELSE "none"
       [] k = "up" -> IF shift THEN "scroll" ELSE "none"
       [] k \in {"f1", "f2"} -> IF user.alt THEN k ELSE "none"
       [] OTHER -> "none"

\* The Alt keys count as one: it is up when either of them was released.  The
\* user goes on as long as nothing has gone wrong.
Type(k, down, bytes) ==
  /\ lost = {} /\ arrived < Arrivals /\ arrived' = arrived + 1
  /\ wire' = wire \o bytes
  /\ user' = [user EXCEPT !.down = IF down THEN @ \cup {k} ELSE @ \ {k},
                          !.alt = IF k \in {"alt_l", "alt_r"} THEN down ELSE @,
                          !.caps = IF k = "caps" /\ down THEN ~@ ELSE @,
                          !.num = IF k = "num" /\ down THEN ~@ ELSE @,
                          !.console = IF down /\ Meaning(k) = k /\ k \in {"f1", "f2"}
                                      THEN k ELSE @]
  /\ UNCHANGED <<port, kb_in, readVars, lost>>

Press(k) ==
  /\ k \notin user.down
  /\ Type(k, TRUE, MakeBytes(k))
  /\ meant' = IF Meaning(k) = "none" THEN meant
              ELSE Append(meant, [to |-> user.console, what |-> Meaning(k)])

Release(k) ==
  /\ k \in user.down
  /\ Type(k, FALSE, BreakBytes(k))
  /\ UNCHANGED meant

----------------------------------------------------------------------------
(* keyboard_handler: drops the byte when the buffer is full.                 *)

KeyboardHandler ==
  /\ wire # <<>>
  /\ port' = Head(wire) /\ wire' = Tail(wire)
  /\ kb_in' = IF Len(kb_in) < KB_IN_BYTES THEN Append(kb_in, port') ELSE kb_in
  /\ lost' = lost \cup (IF Len(kb_in) < KB_IN_BYTES THEN {} ELSE {"full"})
                  \cup (IF at \in {"ack1", "ack2"} /\ port = ACK THEN {"ack"} ELSE {})
  /\ UNCHANGED <<readVars, userVars>>

----------------------------------------------------------------------------
(* TASK TTY                                                                 *)

\* keyboard_read is called.
KeyboardRead ==
  /\ at = "idle" /\ kb_in # <<>>
  /\ at' = "reading" /\ seen' = <<>> /\ key' = "none" /\ make' = "unset"
  /\ tty' = current
  /\ UNCHANGED <<wire, port, kb_in, mods, current, got, userVars, lost>>

KeyboardReadEnds ==
  /\ at = "reading" /\ seen = <<>> /\ kb_in = <<>>
  /\ at' = "idle"
  /\ UNCHANGED <<wire, port, kb_in, seen, key, make, mods, tty, current, got, userVars, lost>>

MoreToReadE1(s) ==
  \/ s[1] = \hE1
  \/ IsStrictPrefix(s, PrintMake)
  \/ IsStrictPrefix(s, PrintBreak)

\* Bytes after which the code calls get_byte_from_kb_buf once more.
MoreToRead(s) ==
  \/ IsStrictPrefix(s, PauseBreak)
  \/ IsStrictPrefix(s, PrintMake)
  \/ IsStrictPrefix(s, PrintBreak)

\* A key is read: what the bytes say.
scan_code(s) == IF s[1] = \hE1 THEN \hE1 ELSE Last(s)
code_with_E0(s) == s[1] = \hE0 /\ Len(s) # 3
Special(s) == IF s = PauseBreak THEN "PAUSEBREAK"
              ELSE IF s \in {PrintMake, PrintBreak} THEN "PRINTSCREEN"
              ELSE key
IsSpecial(k) == k \in {"PAUSEBREAK", "PRINTSCREEN"}
\* Pause leaves make alone, whatever it is.
MakesOf(s) ==
  LET kept == IF make = "unset" THEN {"make", "break"} ELSE {make}
  IN CASE s = PauseBreak -> kept
       [] s = PrintMake  -> {"make"}
       [] s = PrintBreak -> {"break"}
       [] OTHER -> IF IsSpecial(key) THEN kept
                   ELSE IF scan_code(s) < 128 THEN {"make"} ELSE {"break"}

Column(s) ==
  LET shift == mods.shift_l \/ mods.shift_r
      caps == IF mods.caps_lock /\ KeyAt(scan_code(s), 0) = "a" THEN ~shift ELSE shift
  IN IF code_with_E0(s) THEN 2 ELSE IF caps THEN 1 ELSE 0

KeyOf(s) == IF IsSpecial(Special(s)) THEN Special(s) ELSE KeyAt(scan_code(s), Column(s))

ModifiersToggledTwice(k, mk) ==
  CASE k = "shift_l" -> [mods EXCEPT !.shift_l = mk]
    [] k = "shift_r" -> [mods EXCEPT !.shift_r = mk]
    [] k \in {"alt_l", "alt_r"} -> [mods EXCEPT !.alt_l = mk]
    [] k = "caps" -> [mods EXCEPT !.caps_lock = ~@]
    [] k = "num" -> [mods EXCEPT !.num_lock = ~@]
    [] OTHER -> mods

\* Break codes leave the locks alone.
Modifiers(k, mk) ==
  CASE k = "shift_l" -> [mods EXCEPT !.shift_l = mk]
    [] k = "shift_r" -> [mods EXCEPT !.shift_r = mk]
    [] k \in {"alt_l", "alt_r"} -> [mods EXCEPT !.alt_l = mk]
    [] k = "caps" /\ mk -> [mods EXCEPT !.caps_lock = ~@]
    [] k = "num" /\ mk -> [mods EXCEPT !.num_lock = ~@]
    [] OTHER -> mods

\* in_process, with the modifiers m: what the key does.
InProcess(k, m) ==
  CASE k = "pad_up" -> IF m.num_lock THEN "8" ELSE "none"
    [] k \in {"a", "A", "8", "nl"} -> k
    [] k = "up" -> IF m.shift_l \/ m.shift_r THEN "scroll" ELSE "none"
    [] k \in {"f1", "f2"} -> IF m.alt_l THEN k ELSE "none"
    [] OTHER -> "none"

\* A byte, and more to come.
GetByte ==
  /\ at = "reading" /\ kb_in # <<>>
  /\ MoreToRead(Append(seen, Head(kb_in)))
  /\ seen' = Append(seen, Head(kb_in)) /\ kb_in' = Tail(kb_in)
  /\ UNCHANGED <<wire, port, at, key, make, mods, tty, current, got, userVars, lost>>

\* The last byte of a key, and the rest of the loop's body.
GetKey(mk) ==
  LET s == Append(seen, Head(kb_in))
      k == KeyOf(s)  pressed == mk = "make"  m == Modifiers(k, pressed)
      effect == IF pressed THEN InProcess(k, m) ELSE "none"
      swallowed == IsSpecial(key) /\ s \notin {PauseBreak, PrintMake, PrintBreak}
      flags == pressed /\ (m.shift_l \/ m.shift_r \/ m.alt_l)
  IN /\ at = "reading" /\ kb_in # <<>> /\ ~MoreToRead(s)
     /\ mk \in MakesOf(s)
     /\ kb_in' = Tail(kb_in) /\ seen' = <<>>
     /\ make' = mk /\ mods' = m
     /\ key' = IF IsSpecial(k) /\ ~flags THEN k ELSE "none"
     /\ got' = IF effect = "none" THEN got ELSE Append(got, [to |-> tty, what |-> effect])
     /\ current' = IF effect \in {"f1", "f2"} THEN effect ELSE current
     /\ lost' = lost \cup (IF swallowed THEN {"special"} ELSE {})
                     \cup (IF effect # "none" /\ tty # current THEN {"switch"} ELSE {})
     /\ IF k \in {"caps", "num"} /\ pressed
        THEN at' = "ack1" /\ wire' = Append(wire, ACK)
        ELSE UNCHANGED <<at, wire>>
     /\ UNCHANGED <<port, tty, userVars>>

\* kb_ack reads the port until it is the acknowledgement.
KbAck ==
  /\ at \in {"ack1", "ack2"} /\ port = ACK
  /\ at' = IF at = "ack1" THEN "ack2" ELSE "reading"
  /\ wire' = IF at = "ack1" THEN Append(wire, ACK) ELSE wire
  /\ UNCHANGED <<port, kb_in, seen, key, make, mods, tty, current, got, userVars, lost>>

----------------------------------------------------------------------------

\* init_keyboard: NumLock is on, and set_leds has left an acknowledgement at the
\* port, and an interrupt, which is taken when the interrupt is enabled.
InitKeyboard ==
  /\ wire = <<>> /\ port = ACK
  /\ kb_in \in {<<>>, <<ACK>>}
  /\ at = "idle" /\ seen = <<>> /\ key = "none" /\ make = "unset"
  /\ mods = [shift_l |-> FALSE, shift_r |-> FALSE, alt_l |-> FALSE, caps_lock |-> FALSE,
             num_lock |-> TRUE]
  /\ tty = "f1" /\ current = "f1" /\ got = <<>>
  /\ arrived = 0 /\ meant = <<>> /\ lost = {}
  /\ user = [down |-> {}, alt |-> FALSE, caps |-> FALSE, num |-> TRUE, console |-> "f1"]

Tty == \/ KeyboardRead \/ KeyboardReadEnds \/ GetByte \/ KbAck
       \/ \E mk \in {"make", "break"} : GetKey(mk)

Next == (\E k \in Keys : Press(k) \/ Release(k)) \/ KeyboardHandler \/ Tty

\* The keyboard sends what it has, and TTY runs on.
Fairness == WF_keyboardVars(KeyboardHandler) /\ WF_keyboardVars(Tty)

Spec == InitKeyboard /\ [][Next]_keyboardVars /\ Fairness
----------------------------------------------------------------------------
\* Properties.  lost says that the code has gone wrong in a way this module found:
\* "full": the handler has dropped a byte; "special": a key was read in the call
\* of keyboard_read that had read Pause or PrintScreen, and was taken for it;
\* "switch": a key was read in the call that had switched the console, and
\* went to the former one; "ack": a key came between the acknowledgement and
\* the poll of kb_ack, which waits for it ever after.

AllRead == wire = <<>> /\ kb_in = <<>> /\ at = "idle"

\* What in_process does is what the user meant, key for key, in order, with the
\* modifiers held when it was pressed and for the console on screen, however the bytes of
\* the keys and the acknowledgements interleave with TTY; and when all is read,
\* it is all the user meant.
TypedIsReceived ==
  lost = {} => /\ IsPrefix(got, meant)
               /\ AllRead => got = meant

\* When all is read, the modifiers, locks and console are those of the user.
ModifiersFollow ==
  AllRead /\ lost = {} =>
    /\ mods = [shift_l |-> "shift_l" \in user.down, shift_r |-> "shift_r" \in user.down,
               alt_l |-> user.alt, caps_lock |-> user.caps, num_lock |-> user.num]
    /\ current = user.console

\* What the user types arrives, and leaves the keyboard as the user has it.
KeysFollowTheUser == TypedIsReceived /\ ModifiersFollow

\* TTY leaves keyboard_read: it is caught neither in get_byte_from_kb_buf,
\* which spins for the rest of a key, nor in kb_ack.
TtyComesBack == at # "idle" ~> at = "idle" \/ lost # {}
=============================================================================

------------------------------ MODULE Console ------------------------------
(***************************************************************************)
(* The consoles of kernel/console.c: every terminal owns a slice of the      *)
(* video memory that is larger than the screen, its window (crtc_start)      *)
(* moves over the slice, and the hardware shows the window of the current    *)
(* console.  out_char writes at the cursor; at the end of the slice the last *)
(* screen is copied to its start, and from then on the slice is a ring of    *)
(* old lines (is_full).                                                     *)
(*                                                                         *)
(* out_char runs in TASK TTY, for write() and for the echo of keys, and in   *)
(* the kernel, for printx() (kernel/tty.c), which may come between any two   *)
(* steps of TTY but is not itself left before it is done.  TTY also scrolls   *)
(* the current console and selects another, in steps printx() may come        *)
(* between.  The decoding of keys is in module Keyboard.                     *)
(***************************************************************************)
EXTENDS Integers, Sequences, FiniteSetsExt

CONSTANTS
  NR_CONSOLES,  \* 3
  SCR_WIDTH,    \* 80
  SCR_LINES,    \* 25: SCR_SIZE is SCR_LINES * SCR_WIDTH
  V_MEM_SIZE,   \* the size of the video memory, in words (V_MEM_SIZE >> 1)
  Writers,      \* the consoles processes write to
  Texts,        \* what they write
  DispPos,      \* where the loader's and the kernel's first text ends (disp_pos / 2)
  Counts,       \* the counts of reads
  MaxOut        \* bound: characters output after init_tty

Glyphs == {"x"}
Blank == " "
NL == "nl"
BS == "bs"

SCR_SIZE == SCR_LINES * SCR_WIDTH
size_per_con == V_MEM_SIZE \div NR_CONSOLES
con_size == (size_per_con \div SCR_WIDTH) * SCR_WIDTH

Consoles == 0 .. NR_CONSOLES - 1
orig(c) == c * size_per_con

ASSUME ConsoleAssumption ==
  /\ {NR_CONSOLES, SCR_WIDTH, SCR_LINES, V_MEM_SIZE} \subseteq Nat \ {0}
  /\ 2 * SCR_SIZE <= con_size
  /\ Writers \subseteq Consoles
  /\ Texts \subseteq Seq(Glyphs \cup {NL, BS})
  /\ Counts \subseteq 1 .. SCR_SIZE - SCR_WIDTH
  /\ DispPos \in 0 .. SCR_SIZE - 1
  /\ MaxOut \in Nat

\* clear_screen may run past the end of the video memory.
Cells == 0 .. V_MEM_SIZE + SCR_WIDTH

VARIABLES
  con,      \* console_table: crtc_start, cursor and is_full of each console
  cells,    \* the characters in the video memory
  current,  \* current_console
  hw,       \* the CRT controller: cursor position and start address
  job,      \* what TTY and the kernel do: where they are, console, text left
  req,      \* tty_left_cnt and tty_trans_cnt of each terminal
  left,     \* characters that may still be output (MaxOut)
  paper,    \* ghost: what a plain terminal of one screen would show
  hurt      \* ghost: consoles on which the code has gone wrong (see below)

vars == <<con, cells, current, hw, job, req, left, paper, hurt>>

----------------------------------------------------------------------------
(* A plain terminal: a screen that scrolls when the cursor leaves it.        *)

PlainBlank == [scr |-> [i \in 0 .. SCR_SIZE - 1 |-> Blank], at |-> 0]

PlainPut(p, ch) ==
  CASE ch = NL -> [p EXCEPT !.at = (@ \div SCR_WIDTH + 1) * SCR_WIDTH]
    [] ch = BS -> IF p.at = 0 THEN p
                  ELSE [p EXCEPT !.at = @ - 1, !.scr[p.at - 1] = Blank]
    [] OTHER   -> [p EXCEPT !.at = @ + 1, !.scr[p.at] = ch]

PlainOut(p, ch) ==
  LET q == PlainPut(p, ch)
  IN IF q.at < SCR_SIZE THEN q
     ELSE [scr |-> [i \in 0 .. SCR_SIZE - 1 |->
                      IF i + SCR_WIDTH < SCR_SIZE THEN q.scr[i + SCR_WIDTH]
                      ELSE Blank],
           at |-> q.at - SCR_WIDTH]

----------------------------------------------------------------------------
(* The steps of out_char, as operators on a console's record and the cells   *)

Cleared(m, pos, len) == [i \in DOMAIN m |-> IF i \in pos .. pos + len - 1
                                            THEN Blank ELSE m[i]]

\* w_copy.
Copied(m, dst, src, size) ==
  [i \in DOMAIN m |-> IF i \in dst .. dst + size - 1 THEN m[i - dst + src] ELSE m[i]]

\* The character goes to the cursor.
PutCursor(c, k, ch) ==
  CASE ch = NL -> orig(c) + SCR_WIDTH * ((k.cursor - orig(c)) \div SCR_WIDTH + 1)
    [] ch = BS -> IF k.cursor > orig(c) THEN k.cursor - 1 ELSE k.cursor
    [] OTHER   -> k.cursor + 1
PutCells(c, k, m, ch) ==
  CASE ch = NL -> m
    [] ch = BS -> IF k.cursor > orig(c) THEN [m EXCEPT ![k.cursor - 1] = Blank]
                  ELSE m
    [] OTHER   -> [m EXCEPT ![k.cursor] = ch]

\* At the end of the slice: the last screen but one line goes to its start.
Past(c, k) == k.cursor - orig(c) >= con_size
WrapFromNext(c, k) ==
  orig(c) + ((k.cursor - orig(c)) \div SCR_WIDTH + 2) * SCR_WIDTH - SCR_SIZE
WrapFrom(c, k) ==
  orig(c) + ((k.cursor - orig(c)) \div SCR_WIDTH + 1) * SCR_WIDTH - SCR_SIZE
Wrapped(c, k) ==
  [crtc_start |-> orig(c),
   cursor |-> orig(c) + (SCR_SIZE - SCR_WIDTH) + ((k.cursor - orig(c)) % SCR_WIDTH),
   is_full |-> TRUE]
WrapCells(c, k, m) ==
  Cleared(Copied(m, orig(c), WrapFrom(c, k), SCR_SIZE - SCR_WIDTH),
          Wrapped(c, k).cursor, SCR_WIDTH)

\* scroll_screen: offsets in the console.
Newest(c, k) == ((k.cursor - orig(c)) \div SCR_WIDTH) * SCR_WIDTH
Oldest(c, k) == IF k.is_full THEN (Newest(c, k) + SCR_WIDTH) % con_size ELSE 0
ScrTop(c, k) == k.crtc_start - orig(c)

ScrollDown(c, k) ==
  IF ~k.is_full
  THEN IF ScrTop(c, k) > 0 THEN [k EXCEPT !.crtc_start = @ - SCR_WIDTH] ELSE k
  ELSE IF ScrTop(c, k) = Oldest(c, k) THEN k
  ELSE IF k.crtc_start # orig(c) THEN [k EXCEPT !.crtc_start = @ - SCR_WIDTH]
  ELSE IF k.cursor - orig(c) >= con_size - SCR_SIZE THEN k
  ELSE [k EXCEPT !.crtc_start = orig(c) + con_size - SCR_SIZE]

ScrollUpLate(c, k) ==
  IF ~k.is_full
  THEN IF Newest(c, k) > ScrTop(c, k) + SCR_SIZE
       THEN [k EXCEPT !.crtc_start = @ + SCR_WIDTH] ELSE k
  ELSE IF ScrTop(c, k) + SCR_SIZE - SCR_WIDTH = Newest(c, k) THEN k
  ELSE [k EXCEPT !.crtc_start = IF ScrTop(c, k) + SCR_SIZE = con_size THEN orig(c)
                                ELSE @ + SCR_WIDTH]
ScrollUp(c, k) ==
  IF ~k.is_full
  THEN IF Newest(c, k) >= ScrTop(c, k) + SCR_SIZE
       THEN [k EXCEPT !.crtc_start = @ + SCR_WIDTH] ELSE k
  ELSE IF ScrTop(c, k) + SCR_SIZE - SCR_WIDTH = Newest(c, k) THEN k
  ELSE [k EXCEPT !.crtc_start = IF ScrTop(c, k) + SCR_SIZE = con_size THEN orig(c)
                                ELSE @ + SCR_WIDTH]

OffScreen(k) == k.cursor >= k.crtc_start + SCR_SIZE \/ k.cursor < k.crtc_start

\* A Backspace where a plain terminal has no place to go back to: the cursor
\* leaves the screen at the top, and scrolling up does not bring it back, or
\* it goes into the older lines of a screen that is scrolled back.
OverTheTop(c, k, ch) == ch = BS /\ paper[c].at = 0 /\ k.cursor > orig(c)

\* The cursor steps forward onto a screen that is scrolled back around the
\* ring: neither scrolled nor cleared, its old lines are written over.
OntoOldest(k, l) == l.cursor > k.cursor /\ OffScreen(k) /\ ~OffScreen(l)

\* flush: only the current console reaches the hardware.
is_current_console(c) == c = current
Displayed(k) == [cursor |-> k.cursor, start |-> k.crtc_start]
\* At the end of out_char and of its rounds flush is one step: it is still out_char's
\* console that a printx() would hurt.
Flushed(c, k) == IF is_current_console(c) THEN Displayed(k) ELSE hw

----------------------------------------------------------------------------
(* out_char, run by TTY or by the kernel                                     *)

Idle == [at |-> "idle", c |-> 0, out |-> <<>>]
Start(c, text) == [at |-> "put", c |-> c, out |-> text]
Flushing(c) == [at |-> "flush", c |-> c, out |-> <<>>]

\* TTY is not run while a system call is in the kernel.
MayRun(j) == j = "kernel" \/ job["kernel"] = Idle

\* out_char asserts, before and after, that the cursor is in the console.
Put(j) ==
  LET c == job[j].c  ch == Head(job[j].out)
  IN /\ job[j].at = "put" /\ MayRun(j)
     /\ ~Past(c, con[c])
     /\ con' = [con EXCEPT ![c].cursor = PutCursor(c, con[c], ch)]
     /\ cells' = PutCells(c, con[c], cells, ch)
     /\ paper' = [paper EXCEPT ![c] = PlainOut(@, ch)]
     /\ job' = [job EXCEPT ![j].at = "wrap"]
     /\ hurt' = IF OntoOldest(con[c], con'[c]) \/ OverTheTop(c, con[c], ch)
                THEN hurt \cup {c} ELSE hurt
     /\ UNCHANGED <<current, hw, req, left>>

Wrap(j) ==
  LET c == job[j].c
  IN /\ job[j].at = "wrap" /\ MayRun(j)
     /\ IF Past(c, con[c])
        THEN /\ con' = [con EXCEPT ![c] = Wrapped(c, @)]
             /\ cells' = WrapCells(c, con[c], cells)
        ELSE UNCHANGED <<con, cells>>
     /\ job' = [job EXCEPT ![j].at = "scroll"]
     /\ UNCHANGED <<current, hw, req, left, paper, hurt>>

\* One round of the loop that brings the cursor back to the screen.
ScrollRound(j) ==
  LET c == job[j].c  k == ScrollUp(c, con[c])
  IN /\ job[j].at = "scroll" /\ MayRun(j)
     /\ OffScreen(con[c])
     /\ con' = [con EXCEPT ![c] = k]
     /\ cells' = Cleared(cells, k.cursor, SCR_WIDTH)
     /\ hw' = Flushed(c, k)
     /\ hurt' = IF k.cursor + SCR_WIDTH > orig(c) + size_per_con
                THEN hurt \cup ({c + 1} \cap Consoles) ELSE hurt
     /\ UNCHANGED <<current, job, req, left, paper>>

\* The loop is left, and the next character is taken.
Shown(j) ==
  LET c == job[j].c
  IN /\ job[j].at = "scroll" /\ MayRun(j)
     /\ ~OffScreen(con[c])
     /\ hw' = Flushed(c, con[c])
     /\ job' = [job EXCEPT ![j] = IF Len(@.out) = 1 THEN Idle
                                  ELSE Start(c, Tail(@.out))]
     /\ UNCHANGED <<con, cells, current, req, left, paper, hurt>>

OutChar(j) == Put(j) \/ Wrap(j) \/ ScrollRound(j) \/ Shown(j)

----------------------------------------------------------------------------
(* scroll_screen and select_console, run by TTY for a key                    *)

\* scroll_screen has decided by how much, or to where, the window moves.
Moving(c, by) ==
  [at |-> IF by \in {0, SCR_WIDTH, -SCR_WIDTH} THEN "line" ELSE "jump",
   c |-> c, out |-> <<>>, by |-> by]
Move ==
  LET c == job["tty"].c  by == job["tty"].by
  IN /\ job["tty"].at \in {"line", "jump"} /\ MayRun("tty")
     /\ con' = [con EXCEPT ![c].crtc_start =
                  IF job["tty"].at = "line" THEN @ + by
                  ELSE IF by > 0 THEN orig(c) + by ELSE orig(c)]
     /\ job' = [job EXCEPT !["tty"] = Flushing(c)]
     /\ UNCHANGED <<cells, current, hw, req, left, paper, hurt>>

\* flush: the cursor is read, then set, and the start of the window after it.
FlushReads ==
  /\ job["tty"].at = "flush" /\ MayRun("tty")
  /\ job' = [job EXCEPT !["tty"] = [at |-> "cursor", c |-> @.c, out |-> <<>>,
                                    pos |-> con[@.c].cursor]]
  /\ UNCHANGED <<con, cells, current, hw, req, left, paper, hurt>>
FlushCursor ==
  /\ job["tty"].at = "cursor" /\ MayRun("tty")
  /\ hw' = [hw EXCEPT !.cursor = job["tty"].pos]
  /\ job' = [job EXCEPT !["tty"] = [at |-> "start", c |-> @.c, out |-> <<>>,
                                    pos |-> con[@.c].crtc_start]]
  /\ UNCHANGED <<con, cells, current, req, left, paper, hurt>>
FlushStart ==
  /\ job["tty"].at = "start" /\ MayRun("tty")
  /\ hw' = [hw EXCEPT !.start = job["tty"].pos]
  /\ job' = [job EXCEPT !["tty"] = Idle]
  /\ UNCHANGED <<con, cells, current, req, left, paper, hurt>>

ShowWindow == Move \/ FlushReads \/ FlushCursor \/ FlushStart

----------------------------------------------------------------------------
(* Who starts it                                                            *)

TtyIdle == job["tty"] = Idle /\ job["kernel"] = Idle

\* Nothing is begun once a console is hurt; what has begun goes on.
Output(j, c, text) ==
  /\ hurt = {}
  /\ left >= Len(text) /\ left' = left - Len(text)
  /\ job' = [job EXCEPT ![j] = Start(c, text)]

\* tty_do_write: DEV_WRITE of a process.
TtyDoWrite(c, text) ==
  /\ TtyIdle
  /\ Output("tty", c, text)
  /\ UNCHANGED <<con, cells, current, hw, req, paper, hurt>>

\* tty_do_read: a process is to get n characters.
TtyDoRead(c, n) ==
  /\ TtyIdle /\ hurt = {} /\ left > 0
  /\ req' = [req EXCEPT ![c] = [left |-> n, trans |-> 0]]
  /\ UNCHANGED <<con, cells, current, hw, job, left, paper, hurt>>

\* put_key and tty_dev_write: a key typed is echoed to whoever reads the
\* current console; the last one ends the line.
Reader == req[current]
Echoed(ch) ==
  IF ch \in Glyphs
  THEN [left |-> Reader.left - 1, trans |-> Reader.trans + 1]
  ELSE IF ch = BS /\ Reader.trans > 0
  THEN [left |-> Reader.left + 1, trans |-> Reader.trans - 1]
  ELSE Reader
EchoText(ch) ==
  (IF ch \in Glyphs \/ (ch = BS /\ Reader.trans > 0) THEN <<ch>> ELSE <<>>)
    \o (IF ch = NL \/ Echoed(ch).left = 0 THEN <<NL>> ELSE <<>>)

TtyDevWrite(ch) ==
  /\ TtyIdle /\ Reader.left > 0 /\ EchoText(ch) # <<>>
  /\ Output("tty", current, EchoText(ch))
  /\ req' = [req EXCEPT ![current] = IF NL \in {EchoText(ch)[i] : i \in DOMAIN EchoText(ch)}
                                     THEN [left |-> 0, trans |-> Echoed(ch).trans]
                                     ELSE Echoed(ch)]
  /\ UNCHANGED <<con, cells, current, hw, paper, hurt>>

\* in_process: Shift and an arrow, Alt and a function key.  Both are about the
\* console that is current then: flush finds it so.
Scroll(dir) ==
  LET k == IF dir = "up" THEN ScrollUp(current, con[current])
           ELSE ScrollDown(current, con[current])
  IN /\ TtyIdle /\ hurt = {}
     /\ job' = [job EXCEPT !["tty"] = Moving(current, k.crtc_start - con[current].crtc_start)]
     /\ UNCHANGED <<con, cells, current, hw, req, left, paper, hurt>>

SelectConsole(n) ==
  /\ TtyIdle /\ hurt = {}
  /\ current' = n
  /\ job' = [job EXCEPT !["tty"] = Flushing(n)]
  /\ UNCHANGED <<con, cells, hw, req, left, paper, hurt>>

\* sys_printx writes to the first terminal whatever TTY is doing.
SysPrintx(text) ==
  /\ job["kernel"] = Idle
  /\ Output("kernel", 0, text)
  /\ hurt' = IF job["tty"] # Idle /\ job["tty"].c = 0 THEN hurt \cup {0} ELSE hurt
  /\ UNCHANGED <<con, cells, current, hw, req, paper>>

----------------------------------------------------------------------------

\* init_screen: console 0 goes on after the text of the boot; the others are
\* cleared memory with a line of prompt ("[TTY #?]").
Printed(c, off) == IF c = 0 THEN off < DispPos ELSE off = 0
FirstCursor(c) == IF c = 0 THEN DispPos ELSE SCR_WIDTH

Init ==
  /\ con = [c \in Consoles |-> [crtc_start |-> orig(c),
                                cursor |-> orig(c) + FirstCursor(c),
                                is_full |-> FALSE]]
  /\ cells = [i \in Cells |-> IF \E c \in Consoles : i \in orig(c) .. orig(c) + con_size - 1 /\ Printed(c, i - orig(c))
                              THEN "x" ELSE Blank]
  /\ current = 0
  /\ hw = [cursor |-> DispPos, start |-> 0]
  /\ job = [tty |-> Idle, kernel |-> Idle]
  /\ req = [c \in Consoles |-> [left |-> 0, trans |-> 0]]
  /\ left = MaxOut
  /\ paper = [c \in Consoles |->
                [scr |-> [i \in 0 .. SCR_SIZE - 1 |-> IF Printed(c, i) THEN "x" ELSE Blank],
                 at |-> FirstCursor(c)]]
  /\ hurt = {}

Next ==
  \/ \E j \in DOMAIN job : OutChar(j)
  \/ ShowWindow
  \/ \E c \in Writers : \/ \E text \in Texts : TtyDoWrite(c, text)
                        \/ \E n \in Counts : TtyDoRead(c, n)
  \/ \E ch \in Glyphs \cup {NL, BS} : TtyDevWrite(ch)
  \/ \E dir \in {"up", "down"} : Scroll(dir)
  \/ \E n \in Consoles : SelectConsole(n)
  \/ \E text \in Texts : SysPrintx(text)

\* TTY and the kernel run on.
Fairness == \A j \in {"tty", "kernel"} : WF_vars(OutChar(j)) /\ WF_vars(ShowWindow)

Spec == Init /\ [][Next]_vars /\ Fairness

----------------------------------------------------------------------------
\* Properties

\* The variables have their types.
TypeOK ==
  /\ \A c \in Consoles :
       con[c] \in [crtc_start : Int, cursor : Nat, is_full : BOOLEAN]
  /\ cells \in [Cells -> Glyphs \cup {Blank}]
  /\ current \in Consoles
  /\ hurt \subseteq Consoles

\* On a console that is not hurt the two assertions of out_char hold: the cursor is
\* inside the console before and after.  A console is hurt by a printx() that comes
\* while TTY writes, scrolls or selects it, by clear_screen past the end of the one
\* before, by output onto the oldest lines of a ring scrolled back, and by a
\* Backspace over the top of the screen.
CursorInside ==
  \A j \in DOMAIN job :
    /\ job[j].at \in {"put", "scroll"}
    /\ job[j].c \notin hurt
    => ~Past(job[j].c, con[job[j].c])

\* The window is a whole screen inside the console, on a line boundary, and
\* between outputs it is the window of the current console that the hardware
\* shows: lines of another console are never seen.
WindowInside ==
  /\ TypeOK /\ CursorInside
  /\ \A c \in Consoles \ hurt :
       /\ ScrTop(c, con[c]) \in 0 .. con_size - SCR_SIZE
       /\ ScrTop(c, con[c]) % SCR_WIDTH = 0
  /\ TtyIdle /\ current \notin hurt => hw = Displayed(con[current])

\* Between outputs, whenever the cursor is on the screen, the screen shows what
\* a plain terminal shows, below Above cells of older lines: no line is lost,
\* doubled or stale, however far the window was scrolled and across the copy at
\* the end of the console.
Above(c) == con[c].cursor - con[c].crtc_start - paper[c].at
ShowsTheOutput ==
  \A c \in Consoles \ hurt :
    (\A j \in DOMAIN job : job[j] = Idle \/ job[j].c # c) /\ ~OffScreen(con[c])
    => /\ Above(c) >= 0
       /\ \A i \in 0 .. SCR_SIZE - 1 - Above(c) :
            cells[con[c].crtc_start + Above(c) + i] = paper[c].scr[i]

\* Scrolling back a line and forth again is no change, across the end of the
\* ring too, unless the line of the cursor is still seen.
ScrollIsUndone ==
  \A c \in Consoles \ hurt :
    LET k == con[c]  back == ScrollDown(c, k)
    IN back # k /\ OffScreen(back) => ScrollUp(c, back) = k

\* The window stays inside its console, what is on the screen is what was printed,
\* and stays so when it is scrolled away and back.
ScreenIsTrue == WindowInside /\ ShowsTheOutput /\ ScrollIsUndone

\* The loop at the end of out_char ends, unless a console is hurt: TTY is not
\* caught in it.
OutputEnds == \A j \in {"tty", "kernel"} :
                job[j] # Idle ~> (job[j] = Idle \/ hurt # {})

\* What the code does not keep; README, section 5, says how it comes.

\* "assert(con->cursor - con->orig < con->con_size)" (console.c:93, 132), whatever
\* printx() comes between.
OutCharAsserts ==
  \A j \in DOMAIN job : job[j].at \in {"put", "scroll"} /\ MayRun(j)
                           => ~Past(job[j].c, con[job[j].c])

\* "Print a char in a certain console." (console.c:84): when no printx() disturbs it
\* TTY's out_char is done some day.
OutCharPrints ==
  [](job["kernel"] = Idle) => (job["tty"] # Idle ~> job["tty"] = Idle)
============================================================================

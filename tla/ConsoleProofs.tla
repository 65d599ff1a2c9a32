--------------------------- MODULE ConsoleProofs ---------------------------
(***************************************************************************)
(* The consoles, for any number and any size of them.                      *)
(***************************************************************************)
EXTENDS Console, TLAPS

Types ==
    /\ w_cursor \in [Consoles -> Int]
    /\ w_screen_start = [c \in Consoles |-> w_screen_start[c]]
    /\ current_console \in Consoles
    /\ pr = [x \in Printers |-> pr[x]]
    /\ \A x \in Printers : /\ pr[x].at \in {"idle", "store", "full", "show"}
                           /\ pr[x].con \in Consoles
                           /\ pr[x].ch \in Chars
                           /\ pr[x].old \in Int
    /\ pr["kernel"].con = 0
    /\ halted \in BOOLEAN

\* Between the switch of console_print_char and the test behind it, and only
\* then, the cursor of a console may have left it.
CursorInside ==
    \A c \in Consoles :
        \/ Inside(c, w_cursor[c])
        \/ \E x \in Printers : pr[x].at = "full" /\ pr[x].con = c

\* While the TTY task prints on another console, and before it has changed
\* anything, too, the controller shows the current one.
ShownUnlessPrinting ==
    current_console # 0 /\ (pr["tty"].at \in {"full", "show"} => pr["tty"].con # current_console)
        => crtc = [cursor |-> w_cursor[current_console],
                   start |-> w_screen_start[current_console]]

CInv == Types /\ CursorInside /\ AssertsHold /\ ShownUnlessPrinting
-----------------------------------------------------------------------------

(* Positions *)

\* A remainder is no more than what is divided.
LEMMA ModBounds ==
    ASSUME NEW n \in Nat, NEW m \in Nat \ {0}
    PROVE  n % m \in 0 .. m - 1 /\ n % m <= n
<1>1. PICK q \in Int : n = m * q + (n % m)
  <2>1. n \div m \in Int /\ n = m * (n \div m) + (n % m)
    OBVIOUS
  <2> QED
    BY <2>1
<1>2. n % m \in 0 .. m - 1
  OBVIOUS
<1>3. q >= 0
  <2> SUFFICES ASSUME q <= -1 PROVE FALSE
    OBVIOUS
  <2>1. m * q <= m * (-1)
    OBVIOUS
  <2> QED
    BY <1>1, <1>2, <2>1
<1>4. m * q >= 0
  BY <1>3
<1> QED
  BY <1>1, <1>2, <1>4

LEMMA SizeNat == w_console_size \in Int
BY ScreenFits

LEMMA StartInt ==
    ASSUME NEW c \in Consoles
    PROVE  W_TTY_CONSOLE_START(c) \in Int
<1>1. c \in Int /\ c * VIDEO_MEM_SIZE \in Int /\ NR_CONSOLES \in Nat \ {0}
  BY ConsoleAssumption DEF Consoles
<1> DEFINE b == c * VIDEO_MEM_SIZE
<1>2. b \div NR_CONSOLES \in Int
  BY <1>1
<1> QED
  BY <1>2 DEF W_TTY_CONSOLE_START

LEMMA WordInt ==
    ASSUME NEW n \in Int
    PROVE  Word(n) \in Int
BY ConsoleAssumption DEF Word

\* A position that is d words into a console with room for them is inside it.
LEMMA WithinSize ==
    ASSUME NEW c \in Consoles, NEW d \in Nat, d < w_console_size
    PROVE  Inside(c, W_TTY_CONSOLE_START(c) + d)
<1>1. PICK top \in Int : top = W_TTY_CONSOLE_START(c)
  BY StartInt
<1>2. Offset(c, W_TTY_CONSOLE_START(c) + d) = d % WORD_MOD
  <2>1. (top + d) - top = d
    OBVIOUS
  <2>2. Offset(c, top + d) = ((top + d) - top) % WORD_MOD
    BY <1>1 DEF Offset, Word
  <2> QED
    BY <1>1, <2>1, <2>2
<1>3. d % WORD_MOD \in 0 .. WORD_MOD - 1 /\ d % WORD_MOD <= d
  BY ModBounds, ConsoleAssumption
<1>4. d % WORD_MOD \in Int
  BY <1>3, ConsoleAssumption
<1> QED
  BY <1>2, <1>3, <1>4, SizeNat DEF Inside

\* Where the test for a full console puts the cursor: on the last line of the
\* screen, whatever the column was.
LEMMA LastLine ==
    ASSUME NEW c \in Consoles, NEW pos \in Int
    PROVE  LET new == W_TTY_CONSOLE_START(c) + (SCR_SIZE - SCR_WIDTH)
                        + (Offset(c, pos) % SCR_WIDTH)
           IN  new \in Int /\ Inside(c, new)
<1> DEFINE o == Offset(c, pos) % SCR_WIDTH
<1> DEFINE d == SCR_SIZE - SCR_WIDTH + o
<1>1. Offset(c, pos) \in Nat
  BY StartInt, ConsoleAssumption DEF Offset, Word
<1>2. o \in 0 .. SCR_WIDTH - 1
  BY <1>1, ModBounds, ConsoleAssumption
<1>3. d \in Nat /\ d < SCR_SIZE
  BY <1>2, ConsoleAssumption
<1>4. d < w_console_size
  BY <1>3, ScreenFits, SizeNat, ConsoleAssumption
<1>5. Inside(c, W_TTY_CONSOLE_START(c) + d)
  BY <1>3, <1>4, WithinSize
<1>6. W_TTY_CONSOLE_START(c) + (SCR_SIZE - SCR_WIDTH) + o = W_TTY_CONSOLE_START(c) + d
  BY <1>2, StartInt, ConsoleAssumption
<1>7. W_TTY_CONSOLE_START(c) + d \in Int
  BY <1>3, StartInt
<1> QED
  BY <1>5, <1>6, <1>7

-----------------------------------------------------------------------------
(* The invariant holds at first *)

LEMMA InitCInv == Init => CInv
<1> SUFFICES ASSUME Init PROVE CInv
  OBVIOUS
<1>1. 0 \in Consoles /\ 1 \in Consoles
  BY ConsoleAssumption DEF Consoles
<1>2. Types
  <2>1. \A c \in Consoles : (IF c = 0 THEN DispPos ELSE W_TTY_CONSOLE_START(c)) \in Int
    BY StartInt, ConsoleAssumption
  <2>2. w_cursor \in [Consoles -> Int]
    BY <2>1 DEF Init
  <2>3. pr = [x \in Printers |-> Idle] /\ "kernel" \in Printers
    BY DEF Init, Printers
  <2>4. Idle.at = "idle" /\ Idle.con = 0 /\ Idle.ch \in Chars /\ Idle.old \in Int
    BY DEF Idle, Chars
  <2>5. \A x \in Printers : pr[x] = Idle
    BY <2>3
  <2>6. pr = [x \in Printers |-> pr[x]]
    BY <2>3
  <2>7. w_screen_start = [c \in Consoles |-> w_screen_start[c]]
    BY DEF Init
  <2> QED
    BY <1>1, <2>2, <2>3, <2>4, <2>5, <2>6, <2>7 DEF Types, Init
<1>3. CursorInside
  <2> SUFFICES ASSUME NEW c \in Consoles PROVE Inside(c, w_cursor[c])
    BY DEF CursorInside
  <2>1. CASE c = 0
    <3>1. W_TTY_CONSOLE_START(0) = 0
      <4>1. 0 * VIDEO_MEM_SIZE = 0
        BY ConsoleAssumption
      <4>2. 0 \div NR_CONSOLES = 0
        BY ConsoleAssumption
      <4> QED
        BY <4>1, <4>2 DEF W_TTY_CONSOLE_START
    <3>2. w_cursor[c] = W_TTY_CONSOLE_START(c) + DispPos
      BY <2>1, <3>1, ConsoleAssumption DEF Init
    <3> QED
      BY <3>2, WithinSize, ScreenFits, ConsoleAssumption
  <2>2. CASE c # 0
    <3>1. w_cursor[c] = W_TTY_CONSOLE_START(c) + 0
      BY <2>2, StartInt DEF Init
    <3>2. 0 < w_console_size
      BY ScreenFits, SizeNat, ConsoleAssumption
    <3> QED
      BY <3>1, <3>2, WithinSize
  <2> QED
    BY <2>1, <2>2
<1>4. AssertsHold
  BY DEF AssertsHold, Init
<1>5. ShownUnlessPrinting
  BY DEF ShownUnlessPrinting, Init
<1> QED
  BY <1>2, <1>3, <1>4, <1>5 DEF CInv

-----------------------------------------------------------------------------
(* The steps *)

\* What a printer does to its own place leaves the other one's alone.
LEMMA PlaceTypes ==
    ASSUME Types, NEW x \in Printers, NEW p,
           pr' = [pr EXCEPT ![x] = p],
           p.at \in {"idle", "store", "full", "show"}, p.con \in Consoles,
           p.ch \in Chars, p.old \in Int, x = "kernel" => p.con = 0
    PROVE  /\ pr' = [y \in Printers |-> pr'[y]]
           /\ \A y \in Printers : /\ pr'[y].at \in {"idle", "store", "full", "show"}
                                  /\ pr'[y].con \in Consoles
                                  /\ pr'[y].ch \in Chars
                                  /\ pr'[y].old \in Int
           /\ pr'["kernel"].con = 0
           /\ pr'[x] = p
           /\ \A y \in Printers \ {x} : pr'[y] = pr[y]
<1>1. pr = [y \in Printers |-> pr[y]]
  BY DEF Types
<1>2. pr'[x] = p /\ (\A y \in Printers \ {x} : pr'[y] = pr[y])
  BY <1>1
<1>3. pr' = [y \in Printers |-> pr'[y]]
  BY <1>1
<1>4. pr'["kernel"].con = 0
  BY <1>2 DEF Types, Printers
<1> QED
  BY <1>2, <1>3, <1>4 DEF Types

LEMMA GotoTypes ==
    ASSUME Types, NEW x \in Printers, NEW l \in {"idle", "full", "show"}, Goto(x, l)
    PROVE  /\ pr' = [y \in Printers |-> pr'[y]]
           /\ \A y \in Printers : /\ pr'[y].at \in {"idle", "store", "full", "show"}
                                  /\ pr'[y].con \in Consoles
                                  /\ pr'[y].ch \in Chars
                                  /\ pr'[y].old \in Int
           /\ pr'["kernel"].con = 0
           /\ pr'[x].at = l
           /\ l # "idle" => pr'[x].con = pr[x].con
           /\ \A y \in Printers \ {x} : pr'[y] = pr[y]
<1>1. PICK p : p = IF l = "idle" THEN Idle ELSE [Idle EXCEPT !.at = l, !.con = pr[x].con]
  OBVIOUS
<1>2. pr' = [pr EXCEPT ![x] = p]
  BY <1>1 DEF Goto
<1>3. 0 \in Consoles
  BY ConsoleAssumption DEF Consoles
<1>4. /\ p.at = l /\ p.con = (IF l = "idle" THEN 0 ELSE pr[x].con)
      /\ p.ch = "other" /\ p.old = 0
  BY <1>1 DEF Idle
<1>5. p.con \in Consoles /\ (x = "kernel" => p.con = 0)
  BY <1>3, <1>4 DEF Types
<1>6. p.at \in {"idle", "store", "full", "show"} /\ p.ch \in Chars /\ p.old \in Int
  BY <1>4 DEF Chars
<1>7. /\ pr' = [y \in Printers |-> pr'[y]]
      /\ \A y \in Printers : /\ pr'[y].at \in {"idle", "store", "full", "show"}
                             /\ pr'[y].con \in Consoles
                             /\ pr'[y].ch \in Chars
                             /\ pr'[y].old \in Int
      /\ pr'["kernel"].con = 0
      /\ pr'[x] = p
      /\ \A y \in Printers \ {x} : pr'[y] = pr[y]
  BY <1>2, <1>5, <1>6, PlaceTypes
<1> QED
  BY <1>4, <1>7

\* The kernel finds a cursor outside its console only where the TTY task has
\* been preempted between the switch and the test.
LEMMA PrintCharStep ==
    ASSUME CInv, NEW x \in Printers, NEW c \in Consoles, NEW ch \in Chars,
           x = "kernel" => c = 0, PrintChar(x, c, ch)
    PROVE  CInv'
<1> USE DEF CInv
<1>1. ~halted /\ pr[x].at = "idle" /\ (x = "tty" => pr["kernel"].at = "idle")
  BY DEF PrintChar, MayRun
<1>2. UNCHANGED <<w_cursor, w_screen_start, is_full, current_console, crtc>>
  BY DEF PrintChar, conVars
<1>3. CASE Inside(c, w_cursor[c])
  <2>1. PICK p : p = [at |-> "store", con |-> c, ch |-> ch, old |-> w_cursor[c]]
    OBVIOUS
  <2>2. pr' = [pr EXCEPT ![x] = p] /\ halted' = halted
    BY <1>3, <2>1 DEF PrintChar
  <2>3. p.at = "store" /\ p.con = c /\ p.ch = ch /\ p.old = w_cursor[c]
    BY <2>1
  <2>4. w_cursor[c] \in Int
    BY DEF Types
  <2>5. /\ pr' = [y \in Printers |-> pr'[y]]
        /\ \A y \in Printers : /\ pr'[y].at \in {"idle", "store", "full", "show"}
                               /\ pr'[y].con \in Consoles
                               /\ pr'[y].ch \in Chars
                               /\ pr'[y].old \in Int
        /\ pr'["kernel"].con = 0
        /\ pr'[x] = p
        /\ \A y \in Printers \ {x} : pr'[y] = pr[y]
    BY <2>2, <2>3, <2>4, PlaceTypes
  <2>6. Types'
    BY <1>2, <2>2, <2>5 DEF Types
  <2>7. CursorInside'
    <3> SUFFICES ASSUME NEW d \in Consoles, ~Inside(d, w_cursor[d])
                 PROVE  \E y \in Printers : pr'[y].at = "full" /\ pr'[y].con = d
      BY <1>2 DEF CursorInside, Inside, Offset
    <3>1. PICK y \in Printers : pr[y].at = "full" /\ pr[y].con = d
      BY DEF CursorInside
    <3>2. y # x
      BY <1>1, <3>1
    <3> QED
      BY <2>5, <3>1, <3>2
  <2>8. AssertsHold'
    BY <1>1, <2>2 DEF AssertsHold
  <2>9. ShownUnlessPrinting'
    BY <1>1, <1>2, <2>3, <2>5 DEF ShownUnlessPrinting, Printers
  <2> QED
    BY <2>6, <2>7, <2>8, <2>9
<1>4. CASE ~Inside(c, w_cursor[c])
  <2>1. halted' = TRUE /\ pr' = pr
    BY <1>4 DEF PrintChar
  <2>2. PICK y \in Printers : pr[y].at = "full" /\ pr[y].con = c
    BY <1>4 DEF CursorInside
  <2>3. x = "kernel" /\ y = "tty"
    BY <1>1, <2>2 DEF Printers
  <2>4. AssertsHold'
    BY <1>1, <2>1, <2>2, <2>3 DEF AssertsHold
  <2>5. Types' /\ CursorInside' /\ ShownUnlessPrinting'
    BY <1>2, <2>1 DEF Types, CursorInside, ShownUnlessPrinting, Inside, Offset
  <2> QED
    BY <2>4, <2>5
<1> QED
  BY <1>3, <1>4

LEMMA NewCursorInt ==
    ASSUME Types, NEW x \in Printers, NEW n \in NewCursor(x)
    PROVE  n \in Int
<1>1. PICK c : c = pr[x].con
  OBVIOUS
<1>2. PICK old : old = pr[x].old
  OBVIOUS
<1>3. c \in Consoles /\ old \in Int /\ w_cursor[c] \in Int /\ W_TTY_CONSOLE_START(c) \in Int
  BY <1>1, <1>2, StartInt DEF Types
<1>4. CASE pr[x].ch = "newline"
  <2>1. PICK o : o = Offset(c, old)
    OBVIOUS
  <2>2. o \in Int
    BY <1>3, <2>1, ConsoleAssumption DEF Offset, Word
  <2>3. n = W_TTY_CONSOLE_START(c) + SCR_WIDTH * (o \div SCR_WIDTH + 1)
    BY <1>1, <1>2, <1>4, <2>1 DEF NewCursor
  <2>4. SCR_WIDTH \in Int /\ SCR_WIDTH > 0 /\ o \div SCR_WIDTH + 1 \in Int
    BY <2>2, ConsoleAssumption
  <2>5. SCR_WIDTH * (o \div SCR_WIDTH + 1) \in Int
    BY <2>4
  <2> QED
    BY <1>3, <2>3, <2>5
<1>5. CASE pr[x].ch = "backspace"
  <2>1. PICK m \in {old, w_cursor[c]} : n = IF m > W_TTY_CONSOLE_START(c) THEN m - 1 ELSE m
    BY <1>1, <1>2, <1>5 DEF NewCursor
  <2> QED
    BY <1>3, <2>1
<1>6. CASE pr[x].ch = "other"
  <2>1. PICK m \in {old, w_cursor[c]} : n = m + 1
    BY <1>1, <1>2, <1>6 DEF NewCursor
  <2> QED
    BY <1>3, <2>1
<1> QED
  BY <1>4, <1>5, <1>6 DEF Types, Chars

LEMMA StoreCursorStep ==
    ASSUME CInv, NEW x \in Printers, StoreCursor(x)
    PROVE  CInv'
<1> USE DEF CInv
<1>1. PICK c : c = pr[x].con
  OBVIOUS
<1>2. c \in Consoles /\ (x = "kernel" => c = 0)
  BY <1>1 DEF Types
<1>3. ~halted /\ pr[x].at = "store" /\ UNCHANGED <<w_screen_start, current_console, crtc, halted>>
  BY DEF StoreCursor, MayRun
<1>4. PICK n \in NewCursor(x) : w_cursor' = [w_cursor EXCEPT ![c] = Word(n)]
  BY <1>1 DEF StoreCursor
<1>5. Word(n) \in Int
  BY NewCursorInt, WordInt
<1>6. w_cursor' \in [Consoles -> Int] /\ (\A d \in Consoles \ {c} : w_cursor'[d] = w_cursor[d])
  BY <1>2, <1>4, <1>5 DEF Types
<1>7. /\ pr' = [y \in Printers |-> pr'[y]]
      /\ \A y \in Printers : /\ pr'[y].at \in {"idle", "store", "full", "show"}
                             /\ pr'[y].con \in Consoles
                             /\ pr'[y].ch \in Chars
                             /\ pr'[y].old \in Int
      /\ pr'["kernel"].con = 0
      /\ pr'[x].at = "full" /\ pr'[x].con = c
      /\ \A y \in Printers \ {x} : pr'[y] = pr[y]
  BY <1>1, GotoTypes DEF StoreCursor
<1>8. Types'
  BY <1>3, <1>6, <1>7 DEF Types
<1>9. CursorInside'
  <2> SUFFICES ASSUME NEW d \in Consoles, d # c, ~Inside(d, w_cursor'[d])
               PROVE  \E y \in Printers : pr'[y].at = "full" /\ pr'[y].con = d
    BY <1>7 DEF CursorInside, Inside, Offset
  <2>1. PICK y \in Printers : pr[y].at = "full" /\ pr[y].con = d
    BY <1>6 DEF CursorInside
  <2>2. y # x
    BY <1>3, <2>1
  <2> QED
    BY <1>7, <2>1, <2>2
<1>10. AssertsHold'
  BY <1>3 DEF AssertsHold
<1>11. ShownUnlessPrinting'
  <2> SUFFICES ASSUME current_console # 0,
                      pr'["tty"].at \in {"full", "show"} => pr'["tty"].con # current_console
               PROVE  crtc = [cursor |-> w_cursor'[current_console],
                              start |-> w_screen_start[current_console]]
    BY <1>3 DEF ShownUnlessPrinting
  <2>1. current_console # c
    BY <1>2, <1>7 DEF Printers
  <2>2. w_cursor'[current_console] = w_cursor[current_console]
    BY <1>6, <2>1 DEF Types
  <2>3. pr["tty"].at \in {"full", "show"} => pr["tty"].con # current_console
    BY <1>1, <1>3, <1>7, <2>1 DEF Printers
  <2> QED
    BY <2>2, <2>3 DEF ShownUnlessPrinting
<1> QED
  BY <1>8, <1>9, <1>10, <1>11

\* Whatever the cursor was, the test behind the switch leaves it inside: the
\* second assert of console_print_char cannot fail.
LEMMA FullCheckStep ==
    ASSUME CInv, NEW x \in Printers, FullCheck(x)
    PROVE  CInv'
<1> USE DEF CInv
<1>1. PICK c : c = pr[x].con
  OBVIOUS
<1>2. c \in Consoles /\ (x = "kernel" => c = 0) /\ w_cursor[c] \in Int
  BY <1>1 DEF Types
<1>3. ~halted /\ pr[x].at = "full" /\ UNCHANGED <<current_console, crtc>>
  BY DEF FullCheck, MayRun
<1>4. /\ w_cursor' \in [Consoles -> Int]
      /\ \A d \in Consoles \ {c} : /\ w_cursor'[d] = w_cursor[d]
                                   /\ w_screen_start'[d] = w_screen_start[d]
      /\ w_screen_start' = [d \in Consoles |-> w_screen_start'[d]]
      /\ Inside(c, w_cursor'[c])
  <2>1. CASE Inside(c, w_cursor[c])
    <3>1. w_cursor' = w_cursor /\ w_screen_start' = w_screen_start
      BY <1>1, <2>1 DEF FullCheck, conVars
    <3> QED
      BY <2>1, <3>1 DEF Types
  <2>2. CASE ~Inside(c, w_cursor[c])
    <3>1. PICK new : new = W_TTY_CONSOLE_START(c) + (SCR_SIZE - SCR_WIDTH)
                             + (Offset(c, w_cursor[c]) % SCR_WIDTH)
      OBVIOUS
    <3>2. new \in Int /\ Inside(c, new)
      BY <1>2, <3>1, LastLine
    <3>3. /\ w_cursor' = [w_cursor EXCEPT ![c] = new]
          /\ w_screen_start' = [w_screen_start EXCEPT ![c] = W_TTY_CONSOLE_START(c)]
      BY <1>1, <2>2, <3>1 DEF FullCheck
    <3>4. w_cursor' \in [Consoles -> Int] /\ w_cursor'[c] = new
          /\ (\A d \in Consoles \ {c} : w_cursor'[d] = w_cursor[d])
      BY <1>2, <3>2, <3>3 DEF Types
    <3>5. w_screen_start = [d \in Consoles |-> w_screen_start[d]]
      BY DEF Types
    <3>6. /\ w_screen_start' = [d \in Consoles |-> w_screen_start'[d]]
          /\ \A d \in Consoles \ {c} : w_screen_start'[d] = w_screen_start[d]
      BY <3>3, <3>5
    <3> QED
      BY <3>2, <3>4, <3>6
  <2> QED
    BY <2>1, <2>2
<1>5. halted' = FALSE
  BY <1>1, <1>4 DEF FullCheck
<1>6. /\ pr' = [y \in Printers |-> pr'[y]]
      /\ \A y \in Printers : /\ pr'[y].at \in {"idle", "store", "full", "show"}
                             /\ pr'[y].con \in Consoles
                             /\ pr'[y].ch \in Chars
                             /\ pr'[y].old \in Int
      /\ pr'["kernel"].con = 0
      /\ pr'[x].at = "show" /\ pr'[x].con = c
      /\ \A y \in Printers \ {x} : pr'[y] = pr[y]
  BY <1>1, GotoTypes DEF FullCheck
<1>7. Types'
  BY <1>3, <1>4, <1>5, <1>6 DEF Types
<1>8. CursorInside'
  <2> SUFFICES ASSUME NEW d \in Consoles, ~Inside(d, w_cursor'[d])
               PROVE  \E y \in Printers : pr'[y].at = "full" /\ pr'[y].con = d
    BY DEF CursorInside, Inside, Offset
  <2>1. d # c /\ ~Inside(d, w_cursor[d])
    BY <1>4
  <2>2. PICK y \in Printers : pr[y].at = "full" /\ pr[y].con = d
    BY <2>1 DEF CursorInside
  <2>3. y # x
    BY <1>1, <2>1, <2>2
  <2> QED
    BY <1>6, <2>2, <2>3
<1>9. AssertsHold'
  BY <1>5 DEF AssertsHold
<1>10. ShownUnlessPrinting'
  <2> SUFFICES ASSUME current_console # 0,
                      pr'["tty"].at \in {"full", "show"} => pr'["tty"].con # current_console
               PROVE  crtc = [cursor |-> w_cursor'[current_console],
                              start |-> w_screen_start'[current_console]]
    BY <1>3 DEF ShownUnlessPrinting
  <2>1. current_console # c
    BY <1>2, <1>6 DEF Printers
  <2>2. /\ w_cursor'[current_console] = w_cursor[current_console]
        /\ w_screen_start'[current_console] = w_screen_start[current_console]
    BY <1>4, <2>1 DEF Types
  <2>3. pr["tty"].at \in {"full", "show"} => pr["tty"].con # current_console
    BY <1>1, <1>3, <1>6, <2>1 DEF Printers
  <2> QED
    BY <2>2, <2>3 DEF ShownUnlessPrinting
<1> QED
  BY <1>7, <1>8, <1>9, <1>10

\* The turn of the loop on the console that is shown refreshes the controller;
\* any other turn touches what is not shown.
LEMMA ShowCursorStep ==
    ASSUME CInv, NEW x \in Printers, ShowCursor(x)
    PROVE  CInv'
<1> USE DEF CInv
<1>1. PICK c : c = pr[x].con
  OBVIOUS
<1>2. c \in Consoles /\ (x = "kernel" => c = 0)
  BY <1>1 DEF Types
<1>3. /\ ~halted /\ pr[x].at = "show"
      /\ UNCHANGED <<w_cursor, current_console, halted>>
  BY DEF ShowCursor, MayRun, conVars
<1>4. crtc' = IF c = current_console
              THEN [cursor |-> w_cursor'[c], start |-> w_screen_start'[c]] ELSE crtc
  BY <1>1, <1>3 DEF ShowCursor, do_screen_refresh, Shown
<1>5. /\ w_screen_start' = [d \in Consoles |-> w_screen_start'[d]]
      /\ \A d \in Consoles \ {c} : w_screen_start'[d] = w_screen_start[d]
  <2>1. w_screen_start = [d \in Consoles |-> w_screen_start[d]]
    BY DEF Types
  <2>2. \/ w_screen_start' = w_screen_start
        \/ w_screen_start' = [w_screen_start EXCEPT ![c] = ScrolledDown(c)]
    BY <1>1 DEF ShowCursor, conVars
  <2>3. CASE w_screen_start' = w_screen_start
    BY <2>1, <2>3
  <2>4. CASE w_screen_start' = [w_screen_start EXCEPT ![c] = ScrolledDown(c)]
    BY <2>1, <2>4
  <2> QED
    BY <2>2, <2>3, <2>4
<1>6. /\ pr' = [y \in Printers |-> pr'[y]]
      /\ \A y \in Printers : /\ pr'[y].at \in {"idle", "store", "full", "show"}
                             /\ pr'[y].con \in Consoles
                             /\ pr'[y].ch \in Chars
                             /\ pr'[y].old \in Int
      /\ pr'["kernel"].con = 0
      /\ pr'[x].at # "full"
      /\ \A y \in Printers \ {x} : pr'[y] = pr[y]
  <2>1. CASE pr' = pr
    BY <1>3, <2>1 DEF Types
  <2>2. CASE Goto(x, "idle")
    BY <2>2, GotoTypes
  <2> QED
    BY <2>1, <2>2 DEF ShowCursor
<1>7. Types'
  BY <1>3, <1>5, <1>6 DEF Types
<1>8. CursorInside'
  <2> SUFFICES ASSUME NEW d \in Consoles, ~Inside(d, w_cursor[d])
               PROVE  \E y \in Printers : pr'[y].at = "full" /\ pr'[y].con = d
    BY <1>3 DEF CursorInside, Inside, Offset
  <2>1. PICK y \in Printers : pr[y].at = "full" /\ pr[y].con = d
    BY DEF CursorInside
  <2>2. y # x
    BY <1>3, <2>1
  <2> QED
    BY <1>6, <2>1, <2>2
<1>9. AssertsHold'
  BY <1>3 DEF AssertsHold
<1>10. ShownUnlessPrinting'
  <2> SUFFICES ASSUME current_console # 0,
                      pr'["tty"].at \in {"full", "show"} => pr'["tty"].con # current_console
               PROVE  crtc' = [cursor |-> w_cursor[current_console],
                               start |-> w_screen_start'[current_console]]
    BY <1>3 DEF ShownUnlessPrinting
  <2>1. CASE current_console = c
    BY <1>3, <1>4, <2>1
  <2>2. CASE current_console # c
    <3>1. w_screen_start'[current_console] = w_screen_start[current_console]
      BY <1>5, <2>2 DEF Types
    <3>2. pr["tty"].at \in {"full", "show"} => pr["tty"].con # current_console
      BY <1>1, <1>6, <2>2 DEF Printers
    <3> QED
      BY <1>4, <2>2, <3>1, <3>2 DEF ShownUnlessPrinting
  <2> QED
    BY <2>1, <2>2
<1> QED
  BY <1>7, <1>8, <1>9, <1>10

LEMMA ScrollStep ==
    ASSUME CInv, NEW c \in Consoles, NEW up \in BOOLEAN, scroll_screen(c, up)
    PROVE  CInv'
<1> USE DEF CInv
<1>1. /\ ~halted /\ c = current_console
      /\ UNCHANGED <<w_cursor, current_console, pr, halted>>
  BY DEF scroll_screen, MayRun
<1>2. crtc' = [cursor |-> w_cursor'[c], start |-> w_screen_start'[c]]
  BY <1>1 DEF scroll_screen, do_screen_refresh, Shown
<1>3. w_screen_start' = [d \in Consoles |-> w_screen_start'[d]]
  <2>1. w_screen_start = [d \in Consoles |-> w_screen_start[d]]
    BY DEF Types
  <2>2. PICK s : w_screen_start' = [w_screen_start EXCEPT ![c] = s]
    BY DEF scroll_screen
  <2> QED
    BY <2>1, <2>2
<1>4. Types' /\ AssertsHold'
  BY <1>1, <1>3 DEF Types, AssertsHold
<1>5. CursorInside'
  BY <1>1 DEF CursorInside, Inside, Offset
<1>6. ShownUnlessPrinting'
  BY <1>1, <1>2 DEF ShownUnlessPrinting
<1> QED
  BY <1>4, <1>5, <1>6

LEMMA SwitchStep ==
    ASSUME CInv, NEW c \in Consoles, switch_console(c)
    PROVE  CInv'
<1> USE DEF CInv
<1>1. /\ current_console' = c
      /\ UNCHANGED <<w_cursor, w_screen_start, pr, halted>> /\ ~halted
  BY DEF switch_console, conVars, MayRun
<1>2. crtc' = [cursor |-> w_cursor'[c], start |-> w_screen_start'[c]]
  BY <1>1 DEF switch_console, do_screen_refresh, Shown
<1>3. Types' /\ AssertsHold'
  BY <1>1 DEF Types, AssertsHold
<1>4. CursorInside'
  BY <1>1 DEF CursorInside, Inside, Offset
<1>5. ShownUnlessPrinting'
  BY <1>1, <1>2 DEF ShownUnlessPrinting
<1> QED
  BY <1>3, <1>4, <1>5

LEMMA NextCInv == CInv /\ [Next]_vars => CInv'
<1> SUFFICES ASSUME CInv, [Next]_vars PROVE CInv'
  OBVIOUS
<1>1. ASSUME NEW c \in Consoles, NEW ch \in Chars, PrintChar("tty", c, ch)
      PROVE  CInv'
  BY <1>1, PrintCharStep DEF Printers
<1>2. ASSUME NEW ch \in Chars, PrintChar("kernel", 0, ch)
      PROVE  CInv'
  <2>1. 0 \in Consoles /\ "kernel" \in Printers
    BY ConsoleAssumption DEF Consoles, Printers
  <2> QED
    BY <1>2, <2>1, PrintCharStep
<1>3. ASSUME NEW x \in Printers, Step(x)
      PROVE  CInv'
  BY <1>3, StoreCursorStep, FullCheckStep, ShowCursorStep DEF Step
<1>4. ASSUME NEW c \in Consoles, NEW up \in BOOLEAN, scroll_screen(c, up)
      PROVE  CInv'
  BY <1>4, ScrollStep
<1>5. ASSUME NEW c \in Consoles, switch_console(c)
      PROVE  CInv'
  BY <1>5, SwitchStep
<1>6. CASE UNCHANGED vars
  BY <1>6 DEF vars, conVars, CInv, Types, CursorInside, AssertsHold, ShownUnlessPrinting,
              Inside, Offset
<1> QED
  BY <1>1, <1>2, <1>3, <1>4, <1>5, <1>6 DEF Next

-----------------------------------------------------------------------------
(* Theorems *)

LEMMA CInvAlways == Spec => []CInv
<1> QED
  BY InitCInv, NextCInv, PTL DEF Spec

\* The asserts of console_print_char, on consoles of any size with a screen of
\* any size that fits: they fail only for the kernel, on console 0, while the TTY
\* task has moved the cursor there and not yet looked where it is.
THEOREM AssertsAlwaysHold == Spec => []AssertsHold
<1>1. CInv => AssertsHold
  BY DEF CInv
<1> QED
  BY <1>1, CInvAlways, PTL

\* The controller shows the console that was switched to, whatever the TTY task
\* and the kernel printed on the others meanwhile.
THEOREM AlwaysShowsCurrent == Spec => []ShownIsCurrent
<1>1. CInv => ShownIsCurrent
  BY DEF CInv, ShownUnlessPrinting, ShownIsCurrent
<1> QED
  BY <1>1, CInvAlways, PTL
=============================================================================

------------------------------- MODULE Console -------------------------------
(***************************************************************************)
(* The consoles of src/device/console.c: where the cursor of each one is,  *)
(* which part of its text is on the screen and what the CRT controller     *)
(* shows.  Characters themselves are left out, positions are words of      *)
(* video memory as in the code, unsigned and of width WORD_MOD.            *)
(*                                                                         *)
(* Two parties print.  The TTY task prints on any console; the kernel      *)
(* prints on console 0 for whoever calls printl (sys_printx), also while   *)
(* the TTY task has been preempted in the middle of console_print_char.    *)
(* Nothing else runs while the kernel prints.                              *)
(***************************************************************************)
EXTENDS Integers

CONSTANTS NR_CONSOLES,
          VIDEO_MEM_SIZE,   \* in bytes
          SCR_WIDTH, SCR_SIZE,  \* in words
          DispPos,          \* words the boot messages took on console 0
          WORD_MOD          \* 2^32: unsigned int

ASSUME ConsoleAssumption ==
    /\ NR_CONSOLES \in Nat \ {0, 1} /\ VIDEO_MEM_SIZE \in Nat
    /\ SCR_WIDTH \in Nat \ {0, 1} /\ SCR_SIZE \in Nat /\ SCR_SIZE > SCR_WIDTH
    /\ DispPos \in Nat /\ WORD_MOD \in Nat \ {0}

Consoles == 0 .. NR_CONSOLES - 1

\* The macros have no parentheses: the shift that halves a size is applied to
\* all of the product in the first one, and by nothing in the second.
W_TTY_CONSOLE_START(n) == ((n * VIDEO_MEM_SIZE) \div NR_CONSOLES) \div 2
w_console_size ==
    (VIDEO_MEM_SIZE \div NR_CONSOLES) \div 2 ^ ((1 \div SCR_WIDTH) * SCR_WIDTH)

\* A console has room for a screen, and for the messages of the boot loader.
ASSUME ScreenFits ==
    w_console_size \in Nat /\ SCR_SIZE <= w_console_size /\ DispPos < w_console_size

Printers == {"tty", "kernel"}
Chars == {"newline", "backspace", "other"}

VARIABLES w_cursor, w_screen_start, is_full,  \* console_table
          current_console,
          crtc,     \* what the CRT controller was told: cursor and start
          pr,       \* console_print_char of each party: where it is, its locals
          halted    \* has an assert failed?

conVars == <<w_cursor, w_screen_start, is_full>>
vars == <<conVars, current_console, crtc, pr, halted>>

Idle == [at |-> "idle", con |-> 0, ch |-> "other", old |-> 0]

TypeOK ==
    /\ w_cursor \in [Consoles -> 0 .. WORD_MOD - 1]
    /\ w_screen_start \in [Consoles -> 0 .. WORD_MOD - 1]
    /\ is_full \in [Consoles -> BOOLEAN]
    /\ current_console \in Consoles
    /\ crtc \in [cursor : 0 .. WORD_MOD - 1, start : 0 .. WORD_MOD - 1]
    /\ pr \in [Printers -> [at : {"idle", "store", "full", "show"},
                            con : Consoles, ch : Chars, old : 0 .. WORD_MOD - 1]]
    /\ halted \in BOOLEAN

\* init_screen of every console, then switch_console(CONSOLE_2) of task_tty.
\* (The prompt is printed like any other text.)
Init ==
    /\ w_cursor = [c \in Consoles |->
                     IF c = 0 THEN DispPos ELSE W_TTY_CONSOLE_START(c)]
    /\ w_screen_start = [c \in Consoles |-> W_TTY_CONSOLE_START(c)]
    /\ is_full = [c \in Consoles |-> FALSE]
    /\ current_console = 1
    /\ crtc = [cursor |-> w_cursor[1], start |-> w_screen_start[1]]
    /\ pr = [x \in Printers |-> Idle]
    /\ halted = FALSE

-----------------------------------------------------------------------------
(* Positions *)

Word(n) == n % WORD_MOD

\* w_cursor - w_console_start, an unsigned difference.
Offset(c, pos) == Word(pos - W_TTY_CONSOLE_START(c))

\* The same difference held in an int.
IntOffset(c, pos) == IF Offset(c, pos) < WORD_MOD \div 2 THEN Offset(c, pos)
                                                         ELSE Offset(c, pos) - WORD_MOD

Inside(c, pos) == Offset(c, pos) < w_console_size

Visible(c) ==
    ~(w_cursor[c] >= Word(w_screen_start[c] + SCR_SIZE) \/ w_cursor[c] < w_screen_start[c])

\* What scroll_screen makes of w_screen_start, down and up.
LatestOffs(c) == (Offset(c, w_cursor[c]) \div SCR_WIDTH) * SCR_WIDTH
OldestOffs(c) == IF is_full[c] THEN (LatestOffs(c) + SCR_WIDTH) % w_console_size ELSE 0

\* Fault: the text is not taken for a ring when it is full.
ScrolledDown_NoWrap(c) ==
    LET offs == IntOffset(c, w_screen_start[c])
    IN  IF \/ ~is_full[c] /\ LatestOffs(c) >= offs + SCR_SIZE
           \/ /\ is_full[c] /\ offs + SCR_SIZE - SCR_WIDTH # LatestOffs(c)
              /\ offs + SCR_SIZE < w_console_size
        THEN Word(w_screen_start[c] + SCR_WIDTH)
        ELSE w_screen_start[c]

ScrolledDown(c) ==
    LET offs == IntOffset(c, w_screen_start[c])
    IN  IF ~is_full[c]
        THEN IF LatestOffs(c) >= offs + SCR_SIZE
             THEN Word(w_screen_start[c] + SCR_WIDTH) ELSE w_screen_start[c]
        ELSE IF offs + SCR_SIZE - SCR_WIDTH = LatestOffs(c) THEN w_screen_start[c]
        ELSE IF offs + SCR_SIZE = w_console_size THEN W_TTY_CONSOLE_START(c)
        ELSE Word(w_screen_start[c] + SCR_WIDTH)

ScrolledUp(c) ==
    LET offs == IntOffset(c, w_screen_start[c])
        top == W_TTY_CONSOLE_START(c)
    IN  IF ~is_full[c]
        THEN IF offs > 0 THEN Word(w_screen_start[c] - SCR_WIDTH) ELSE w_screen_start[c]
        ELSE IF offs = OldestOffs(c) THEN w_screen_start[c]
        ELSE IF Offset(c, w_cursor[c]) >= w_console_size - SCR_SIZE
             THEN IF w_screen_start[c] # top
                  THEN Word(w_screen_start[c] - SCR_WIDTH) ELSE top
        ELSE IF w_screen_start[c] = top THEN top + w_console_size - SCR_SIZE
        ELSE Word(w_screen_start[c] - SCR_WIDTH)

-----------------------------------------------------------------------------
(* The controller *)

\* set_screen_cursor_position and set_screen_start_position, for the values the
\* console has at the end of the step.
Shown(c) == [cursor |-> w_cursor'[c], start |-> w_screen_start'[c]]

\* Fault: the console that is not shown is refreshed too.
do_screen_refresh_Always(c) == crtc' = Shown(c)

do_screen_refresh(c) == crtc' = IF c = current_console' THEN Shown(c) ELSE crtc

-----------------------------------------------------------------------------
(* console_print_char *)

\* Only the kernel runs until it has printed.
MayRun(x) == ~halted /\ (x = "kernel" \/ pr["kernel"].at = "idle")

\* The locals are not used behind the switch.
Goto(x, l) ==
    pr' = [pr EXCEPT ![x] = IF l = "idle" THEN Idle
                            ELSE [Idle EXCEPT !.at = l, !.con = pr[x].con]]

\* The first assert; the position of the cursor is taken into local variables.
PrintChar(x, c, ch) ==
    /\ MayRun(x) /\ pr[x].at = "idle"
    /\ IF Inside(c, w_cursor[c])
       THEN /\ pr' = [pr EXCEPT ![x] = [at |-> "store", con |-> c, ch |-> ch,
                                        old |-> w_cursor[c]]]
            /\ UNCHANGED halted
       ELSE halted' = TRUE /\ UNCHANGED pr
    /\ UNCHANGED <<conVars, current_console, crtc>>

\* The switch.  w_cursor++ and w_cursor-- are a load and a store: what the
\* other party did in between may be lost.
NewCursor(x) ==
    LET c == pr[x].con
        top == W_TTY_CONSOLE_START(c)
        now == {pr[x].old, w_cursor[c]}
    IN  CASE pr[x].ch = "newline" ->
               {top + SCR_WIDTH * (Offset(c, pr[x].old) \div SCR_WIDTH + 1)}
          [] pr[x].ch = "backspace" -> {IF n > top THEN n - 1 ELSE n : n \in now}
          [] pr[x].ch = "other" -> {n + 1 : n \in now}

StoreCursor(x) ==
    /\ MayRun(x) /\ pr[x].at = "store"
    /\ \E n \in NewCursor(x) : w_cursor' = [w_cursor EXCEPT ![pr[x].con] = Word(n)]
    /\ Goto(x, "full")
    /\ UNCHANGED <<w_screen_start, is_full, current_console, crtc, halted>>

\* Fault: the cursor may stay behind the last word.
FullCheck_OffByOne(x) ==
    LET c == pr[x].con
    IN  /\ MayRun(x) /\ pr[x].at = "full"
        /\ IF Offset(c, w_cursor[c]) > w_console_size
           THEN /\ w_cursor' = [w_cursor EXCEPT ![c] = W_TTY_CONSOLE_START(c)]
                /\ w_screen_start' = [w_screen_start EXCEPT ![c] =
                                        W_TTY_CONSOLE_START(c)]
                /\ is_full' = [is_full EXCEPT ![c] = TRUE]
           ELSE UNCHANGED conVars
        /\ halted' = ~Inside(c, w_cursor'[c])
        /\ Goto(x, "show")
        /\ UNCHANGED <<current_console, crtc>>

\* A console that is full starts again with what is on its screen; the second
\* assert.
FullCheck(x) ==
    LET c == pr[x].con
        top == W_TTY_CONSOLE_START(c)
    IN  /\ MayRun(x) /\ pr[x].at = "full"
        /\ IF ~Inside(c, w_cursor[c])
           THEN /\ w_cursor' = [w_cursor EXCEPT ![c] =
                     top + (SCR_SIZE - SCR_WIDTH) + (Offset(c, @) % SCR_WIDTH)]
                /\ w_screen_start' = [w_screen_start EXCEPT ![c] = top]
                /\ is_full' = [is_full EXCEPT ![c] = TRUE]
           ELSE UNCHANGED conVars
        /\ halted' = ~Inside(c, w_cursor'[c])
        /\ Goto(x, "show")
        /\ UNCHANGED <<current_console, crtc>>

\* A turn of the loop that brings the cursor onto the screen, or its end and
\* the last do_screen_refresh.
ShowCursor(x) ==
    LET c == pr[x].con
    IN  /\ MayRun(x) /\ pr[x].at = "show"
        /\ IF Visible(c)
           THEN Goto(x, "idle") /\ UNCHANGED conVars
           ELSE /\ w_screen_start' = [w_screen_start EXCEPT ![c] = ScrolledDown(c)]
                /\ UNCHANGED <<pr, w_cursor, is_full>>
        /\ UNCHANGED <<current_console, halted>>
        /\ do_screen_refresh(c)

-----------------------------------------------------------------------------
(* Keys of the TTY task: Shift+Up, Shift+Down and Alt+Fn *)

scroll_screen(c, up) ==
    /\ MayRun("tty") /\ pr["tty"].at = "idle" /\ c = current_console
    /\ w_screen_start' = [w_screen_start EXCEPT ![c] =
                            IF up THEN ScrolledUp(c) ELSE ScrolledDown(c)]
    /\ UNCHANGED <<w_cursor, is_full, current_console, pr, halted>>
    /\ do_screen_refresh(c)

switch_console(c) ==
    /\ MayRun("tty") /\ pr["tty"].at = "idle"
    /\ current_console' = c
    /\ UNCHANGED <<conVars, pr, halted>>
    /\ do_screen_refresh(c)

Step(x) == StoreCursor(x) \/ FullCheck(x) \/ ShowCursor(x)

\* tty_do_write and sys_printx print any byte; a line typed at the keyboard may
\* wrap, so that its backspaces cross the beginning of a line.
Next == \/ \E c \in Consoles, ch \in Chars : PrintChar("tty", c, ch)
        \/ \E ch \in Chars : PrintChar("kernel", 0, ch)
        \/ \E x \in Printers : Step(x)
        \/ \E c \in Consoles, up \in BOOLEAN : scroll_screen(c, up)
        \/ \E c \in Consoles : switch_console(c)

\* The kernel goes on once it has begun, and the TTY task is scheduled again and
\* again (Scheduler!NoStarvation), however often the kernel prints meanwhile.
Spec == Init /\ [][Next]_vars /\ WF_vars(Step("kernel")) /\ SF_vars(Step("tty"))

-----------------------------------------------------------------------------
(* Properties *)

\* The asserts of console_print_char hold, however full a console is and
\* however it was scrolled, except where the kernel prints on console 0 while
\* the TTY task is printing there.
AssertsHold == halted => /\ pr["tty"].at = "full" /\ pr["tty"].con = 0
                         /\ pr["kernel"].at = "idle"

\* What the controller shows is the console that is switched to, with its
\* cursor, whatever is printed on the others.
ShownIsCurrent ==
    pr["tty"].at = "idle" /\ current_console # 0 =>
        crtc = [cursor |-> w_cursor[current_console],
                start |-> w_screen_start[current_console]]

\* The cursor is above the screen of a console that was never full: the loop
\* looks for it downwards, and there is nothing to scroll to.
AboveScreen(c) == ~is_full[c] /\ w_cursor[c] < w_screen_start[c]

\* The TTY task ends console_print_char with the cursor on the screen, however
\* full the console is and however it was scrolled: its search for the cursor
\* goes on for ever only when the cursor is above the screen of a console that
\* was never full.  (Console 0, where the kernel may have interfered, and a
\* search of the kernel that does not end are left out.)
PrintEnds ==
    \/ pr["tty"].at = "show" /\ pr["tty"].con # 0 ~>
          (pr["tty"].at = "idle" \/ halted \/ AboveScreen(pr["tty"].con))
    \/ <>[](pr["kernel"].at = "show")

\* The same without the exception.  A backspace behind the first character of a
\* screen that has scrolled refutes it.
PrintAlwaysEnds ==
    pr["tty"].at = "show" /\ pr["tty"].con # 0 ~>
        (pr["tty"].at = "idle" \/ halted \/ pr["kernel"].at = "show")
=============================================================================

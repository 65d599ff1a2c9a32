------------------------------ MODULE Keyboard ------------------------------
(***************************************************************************)
(* The keyboard driver of src/device/keyboard.c: the buffer the interrupt  *)
(* handler fills and the TTY task empties, and what keyboard_read makes of *)
(* the scan codes it finds there.  Module Terminal runs it.                *)
(*                                                                         *)
(* A byte of a scan code is a row of the keymap with the break bit; the    *)
(* rows below stand for the 128 rows of keymap.h, one for each kind of     *)
(* key.  kb_in.p_head and kb_in.p_tail are addresses, and KB_BUF is that   *)
(* of kb_in.buf: nothing sets the two pointers before they are used.       *)
(***************************************************************************)
EXTENDS Integers, Sequences, SequencesExt

CONSTANTS LEN_KB_IN_BUFFER, KB_BUF,
          Texts         \* what may be typed: sequences of keys pressed and let go

ASSUME KeyboardAssumption ==
    LEN_KB_IN_BUFFER \in Nat \ {0} /\ KB_BUF \in Nat

VARIABLES wire,         \* bytes of a key that the keyboard has yet to send
          text,         \* what has yet to be typed
          held,         \* the keys that are down, and the locks that are on
          cell, p_head, p_tail, count,  \* kb_in and kb_state.count
          kb_state,     \* the modifiers and locks the driver knows of
          code,         \* bytes of the scan code keyboard_read is reading
          skipping,     \* is its local variable key PAUSEBREAK or PRINTSCREEN?
          key_pressed,
          meant,        \* history: what was typed and not yet taken by the TTY
          dropped       \* history: was a byte or a key thrown away, because the buffer
                        \* or the queue was full, behind Pause or Print, or by kb_ack?

driverVars == <<wire, text, held, cell, p_head, p_tail, count, kb_state, code,
                meant, dropped>>
keyboardVars == <<driverVars, skipping, key_pressed>>

-----------------------------------------------------------------------------
(* Keys and scan codes *)

nul == "nul"    \* the key of a position of the keymap that is 0
E0 == <<"E0", TRUE>>
E1 == <<"E1", TRUE>>
Byte(row, up) == <<row, up>>

\* Columns: alone, with Shift, behind E0.
keymap ==
    [a |-> <<"a", "A", nul>>, one |-> <<"1", "!", nul>>,
     enter |-> <<"ENTER", "ENTER", "PAD_ENTER">>,
     backspace |-> <<"BACKSPACE", "BACKSPACE", nul>>,
     shift_l |-> <<"SHIFT_L", "SHIFT_L", nul>>, shift_r |-> <<"SHIFT_R", "SHIFT_R", nul>>,
     ctrl |-> <<"CTRL_L", "CTRL_L", "CTRL_R">>, alt |-> <<"ALT_L", "ALT_L", "ALT_R">>,
     caps |-> <<"CAPS_LOCK", "CAPS_LOCK", nul>>, num |-> <<"NUM_LOCK", "NUM_LOCK", nul>>,
     scroll |-> <<"SCROLL_LOCK", "SCROLL_LOCK", nul>>,
     star |-> <<"PAD_STAR", "PAD_STAR", nul>>,
     end |-> <<"PAD_END", "1", "END">>, up |-> <<"PAD_UP", "8", "UP">>,
     f1 |-> <<"F1", "F1", nul>>, f2 |-> <<"F2", "F2", nul>>, f12 |-> <<"F12", "F12", nul>>,
     none |-> <<nul, nul, nul>>, E0 |-> <<nul, nul, nul>>, E1 |-> <<nul, nul, nul>>]
Letters == {"a"}

PAUSE == <<E1, Byte("ctrl", FALSE), Byte("num", FALSE),
           E1, Byte("ctrl", TRUE), Byte("num", TRUE)>>
PRINT == [up \in BOOLEAN |->
            IF up THEN <<E0, Byte("star", TRUE), E0, Byte("shift_l", TRUE)>>
                  ELSE <<E0, Byte("shift_l", FALSE), E0, Byte("star", FALSE)>>]

\* What the keyboard sends (the appendix of keymap.h).
Extended == [alt_r |-> "alt", pad_enter |-> "enter", arrow_up |-> "up", end_key |-> "end"]
Codes(k, up) ==
    CASE k = "pause" -> IF up THEN << >> ELSE PAUSE
      [] k = "print" -> PRINT[up]
      [] k \in DOMAIN Extended -> <<E0, Byte(Extended[k], up)>>
      [] OTHER -> <<Byte(k, up)>>

\* The keys there are, and what is typed on them.
Keys == (DOMAIN keymap \ {"none", "E0", "E1"}) \cup DOMAIN Extended \cup {"pause", "print"}

ASSUME TextsAssumption == Texts \subseteq Seq(Keys \X BOOLEAN)

Locks == {"caps", "num", "scroll"}

\* What somebody who presses k wants to write.
Meaning(k) ==
    LET shift == held \cap {"shift_l", "shift_r"} # {}
    IN  CASE k = "a" -> IF shift # ("caps" \in held) THEN <<"A">> ELSE <<"a">>
          [] k = "one" -> IF shift THEN <<"!">> ELSE <<"1">>
          [] k = "end" -> IF shift \/ "num" \in held THEN <<"1">> ELSE << >>
          [] k = "up" -> IF shift \/ "num" \in held THEN <<"8">> ELSE << >>
          [] k = "star" -> <<"*">>
          [] k \in {"enter", "pad_enter"} -> <<"nl">>
          [] k = "backspace" -> <<"bs">>
          [] OTHER -> << >>

\* The next key of the text is pressed, or let go.
Type ==
    /\ text # << >> /\ wire = << >>
    /\ LET k == Head(text)[1]
           up == Head(text)[2]
       IN  /\ wire' = Codes(k, up)
           /\ held' = IF k \notin Locks THEN IF up THEN held \ {k} ELSE held \cup {k}
                      ELSE IF up THEN held
                      ELSE IF k \in held THEN held \ {k} ELSE held \cup {k}
           /\ meant' = IF dropped \/ up THEN meant ELSE meant \o Meaning(k)
    /\ text' = Tail(text)
    /\ UNCHANGED <<cell, p_head, p_tail, count, kb_state, code, skipping,
                   key_pressed, dropped>>

-----------------------------------------------------------------------------
(* The buffer *)

Empty == Byte("none", TRUE)    \* a byte that was read is of no further use
Cells == 0 .. KB_BUF + LEN_KB_IN_BUFFER - 1

\* Fault: the first byte of the buffer is not used again.
Advance_Second(p) ==
    IF p + 1 = KB_BUF + LEN_KB_IN_BUFFER THEN KB_BUF + 1 ELSE p + 1

Advance(p) == IF p + 1 = KB_BUF + LEN_KB_IN_BUFFER THEN KB_BUF ELSE p + 1

KeyboardInit ==
    /\ wire = << >> /\ text \in Texts /\ held = {"num"}
    /\ cell = [p \in Cells |-> Empty]
    /\ p_head = 0 /\ p_tail = 0 /\ count = 0
    /\ kb_state = [shift_l |-> FALSE, shift_r |-> FALSE, ctrl_l |-> FALSE,
                   ctrl_r |-> FALSE, alt_l |-> FALSE, alt_r |-> FALSE,
                   caps_lock |-> FALSE, num_lock |-> TRUE, scroll_lock |-> FALSE]
    /\ code = << >> /\ skipping = FALSE /\ key_pressed = FALSE
    /\ meant = << >> /\ dropped = FALSE

\* A key was thrown away: from here on what was meant is not followed.
Drop(b) ==
    /\ dropped' = (dropped \/ b)
    /\ meant' = IF b THEN << >> ELSE meant

\* Fault: the TTY task is not told.
keyboard_handler_Silent ==
    /\ wire # << >> /\ wire' = Tail(wire) /\ count < LEN_KB_IN_BUFFER
    /\ count' = count + 1
    /\ cell' = [cell EXCEPT ![p_head] = Head(wire)]
    /\ p_head' = Advance(p_head)
    /\ UNCHANGED <<text, held, p_tail, kb_state, code, skipping, key_pressed,
                   meant, dropped>>

keyboard_handler ==
    /\ wire # << >> /\ wire' = Tail(wire)
    /\ IF count < LEN_KB_IN_BUFFER
       THEN /\ count' = count + 1
            /\ cell' = [cell EXCEPT ![p_head] = Head(wire)]
            /\ p_head' = Advance(p_head)
            /\ Drop(FALSE)
       ELSE UNCHANGED <<count, cell, p_head>> /\ Drop(TRUE)
    /\ key_pressed' = TRUE
    /\ UNCHANGED <<text, held, p_tail, kb_state, code, skipping>>

\* The part of get_byte_from_kb_buf that runs with interrupts off.
get_byte_from_kb_buf ==
    /\ count > 0
    /\ p_tail' = Advance(p_tail)
    /\ count' = count - 1
    /\ cell' = [cell EXCEPT ![p_tail] = Empty]

-----------------------------------------------------------------------------
(* keyboard_read *)

\* handle_pausebreak and handle_printscreen: is g the beginning, or all, of a
\* sequence that they look for?  If not, which byte is left as a regular one, and
\* is it taken for one behind E0?
Specials == {PAUSE, PRINT[TRUE], PRINT[FALSE]}
Unfinished(g) == \E s \in Specials : IsStrictPrefix(g, s)
RegularByte(g) == IF Head(g) = E1 THEN E1 ELSE Last(g)
code_with_E0(g) == Head(g) = E0 /\ Len(g) \in {2, 4}

\* process_regular_key: the key of a byte.
KeyOf(b, e0) ==
    LET shift == kb_state.shift_l \/ kb_state.shift_r
        caps == IF kb_state.caps_lock /\ keymap[b[1]][1] \in Letters THEN ~shift ELSE shift
    IN  keymap[b[1]][IF e0 THEN 3 ELSE IF caps THEN 2 ELSE 1]

\* process_regular_key: the modifiers, and the locks.  The right Alt key is taken
\* for the left one.
StateAfter(key, make) ==
    CASE key = "SHIFT_L" -> [kb_state EXCEPT !.shift_l = make]
      [] key = "SHIFT_R" -> [kb_state EXCEPT !.shift_r = make]
      [] key = "CTRL_L" -> [kb_state EXCEPT !.ctrl_l = make]
      [] key = "CTRL_R" -> [kb_state EXCEPT !.ctrl_r = make]
      [] key \in {"ALT_L", "ALT_R"} -> [kb_state EXCEPT !.alt_l = make]
      [] key = "CAPS_LOCK" /\ make -> [kb_state EXCEPT !.caps_lock = ~@]
      [] key = "NUM_LOCK" /\ make -> [kb_state EXCEPT !.num_lock = ~@]
      [] key = "SCROLL_LOCK" /\ make -> [kb_state EXCEPT !.scroll_lock = ~@]
      [] OTHER -> kb_state

\* The keys for which it calls set_leds.
LockKeys == {"CAPS_LOCK", "NUM_LOCK", "SCROLL_LOCK"}

\* process_numpad_key: what a key of the pad stands for.
PadFixed == [PAD_STAR |-> "*", PAD_ENTER |-> "ENTER"]
PadNum == [PAD_END |-> "1", PAD_UP |-> "8"]
PadNav == [PAD_END |-> "END", PAD_UP |-> "UP"]
process_numpad_key(key) ==
    IF key \in DOMAIN PadFixed THEN PadFixed[key]
    ELSE IF key \in DOMAIN PadNum
         THEN IF kb_state.num_lock THEN PadNum[key] ELSE PadNav[key]
    ELSE key
=============================================================================

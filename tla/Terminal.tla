------------------------------ MODULE Terminal ------------------------------
(***************************************************************************)
(* The TTY task of src/task/task_tty.c with the keyboard driver it calls:  *)
(* the keys it takes from the keyboard's buffer, the queue of keys of each *)
(* terminal, and the lines it makes of them for the processes that read.   *)
(*                                                                         *)
(* FS, which passes a read on and is told to resume the reader, is left    *)
(* out (module Services has it): a process asks the TTY task itself.  What *)
(* the TTY task prints is in module Console.                               *)
(***************************************************************************)
EXTENDS Keyboard

CONSTANTS NR_CONSOLES, TTY_QUEUE_SIZE,
          Readers,      \* processes that read
          TtyOf,        \* the terminal each one has open
          Counts        \* how many bytes they ask for

Ttys == 0 .. NR_CONSOLES - 1
NoReader == "no reader"

ASSUME TerminalAssumption ==
    /\ NoReader \notin Readers
    /\ NR_CONSOLES \in Nat \ {0, 1} /\ TTY_QUEUE_SIZE \in Nat \ {0}
    /\ TtyOf \in [Readers -> Ttys] /\ Counts \subseteq Nat

VARIABLES pc,               \* where the TTY task is, with which terminal
          current_console,
          tty,              \* tty_table
          reader            \* of each process: its buffer and its read

vars == <<keyboardVars, pc, current_console, tty, reader>>

Printable == {"a", "A", "1", "!", "8", "*"}
Chars == Printable \cup {"nl", "bs", nul}

TypeOK ==
    /\ pc \in [at : {"keyboard_read", "set_leds", "dev_write", "resume", "receive"}, tty : Ttys]
    /\ current_console \in Ttys
    /\ \A t \in Ttys :
          /\ Len(tty[t].key_buf) <= TTY_QUEUE_SIZE
          /\ tty[t].tty_procnr \in Readers \cup {NoReader}
          /\ tty[t].tty_left_cnt \in Nat
          /\ tty[t].tty_trans_cnt \in Nat
    /\ count \in 0 .. LEN_KB_IN_BUFFER /\ p_head \in Cells /\ p_tail \in Cells

Init ==
    /\ KeyboardInit
    /\ current_console = 1
    /\ pc = [at |-> "keyboard_read", tty |-> current_console]
    /\ tty = [t \in Ttys |-> [key_buf |-> << >>, tty_procnr |-> NoReader,
                              tty_left_cnt |-> 0, tty_trans_cnt |-> 0]]
    /\ reader = [p \in Readers |-> [suspended |-> FALSE, asked |-> 0, cnt |-> 0,
                                    buf |-> << >>, line |-> << >>]]

-----------------------------------------------------------------------------
(* Keys: tty_process_key for the key of one scan code *)

ExtKeys == {"SHIFT_L", "SHIFT_R", "CTRL_L", "CTRL_R", "ALT_L", "ALT_R", "CAPS_LOCK",
            "NUM_LOCK", "SCROLL_LOCK", "END", "UP"}
FKeys == [F1 |-> 0, F2 |-> 1, F12 |-> 11]

\* What is put into the queue of keys: a sequence of at most one character.
Enqueued(key) ==
    CASE key = "ENTER" -> <<"nl">>
      [] key = "BACKSPACE" -> <<"bs">>
      [] key \in ExtKeys \cup DOMAIN FKeys -> << >>
      [] OTHER -> <<key>>

tty_key_enqueue(t, s) ==
    IF Len(tty[t].key_buf \o s) <= TTY_QUEUE_SIZE
    THEN tty' = [tty EXCEPT ![t].key_buf = @ \o s] /\ Drop(FALSE)
    ELSE UNCHANGED tty /\ Drop(TRUE)

\* (Shift with Up or Down scrolls the screen: module Console.)
tty_process_key(t, key) ==
    /\ tty_key_enqueue(t, Enqueued(key))
    /\ current_console' =
          IF key \in DOMAIN FKeys /\ (kb_state.alt_l \/ kb_state.alt_r)
             /\ FKeys[key] \in Ttys
          THEN FKeys[key] ELSE current_console

\* What follows the last byte of the scan code g.  (A lock key enqueues nothing, so
\* set_leds may as well come last.)
ProcessCode(t, g) ==
    IF g \in Specials \/ skipping
    THEN /\ skipping' = TRUE
         /\ Drop(g \notin Specials)
         /\ UNCHANGED <<kb_state, pc, tty, current_console>>
    ELSE LET b == RegularByte(g)
             key == KeyOf(b, code_with_E0(g))
             make == ~b[2]
         IN  /\ skipping' = FALSE
             /\ kb_state' = StateAfter(key, make)
             /\ pc' = IF make /\ key \in LockKeys THEN [pc EXCEPT !.at = "set_leds"] ELSE pc
             /\ IF make THEN tty_process_key(t, process_numpad_key(key))
                        ELSE Drop(FALSE) /\ UNCHANGED <<tty, current_console>>

-----------------------------------------------------------------------------
(* The TTY task *)

\* The loop over the terminals, from t on: the next one that is shown is read.
\* (At the others nothing is done: tty_dev_read reads no keys and the queue
\* tty_dev_write looks at is empty.)
ScanFrom(t, current) ==
    /\ pc' = IF t <= current THEN [at |-> "keyboard_read", tty |-> current]
                             ELSE [at |-> "receive", tty |-> 0]
    /\ skipping' = FALSE

\* The next byte: it ends a scan code, or keyboard_read waits for another one.
keyboard_read ==
    /\ pc.at = "keyboard_read"
    /\ get_byte_from_kb_buf
    /\ LET g == Append(code, cell[p_tail])
       IN  IF Unfinished(g)
           THEN /\ code' = g
                /\ UNCHANGED <<kb_state, skipping, meant, dropped, pc, current_console, tty>>
           ELSE code' = << >> /\ ProcessCode(pc.tty, g)
    /\ UNCHANGED <<wire, text, held, p_head, key_pressed, reader>>

\* set_leds: kb_ack reads the keyboard's port until it finds an answer there, and
\* what it finds before the answer is lost.
set_leds ==
    /\ pc.at = "set_leds"
    /\ \/ wire # << >> /\ wire' = Tail(wire) /\ Drop(TRUE) /\ UNCHANGED pc
       \/ pc' = [pc EXCEPT !.at = "keyboard_read"] /\ UNCHANGED <<wire, meant, dropped>>
    /\ UNCHANGED <<text, held, cell, p_head, p_tail, count, kb_state, code, skipping,
                   key_pressed, current_console, tty, reader>>

KeyboardEmpty ==
    /\ pc.at = "keyboard_read" /\ code = << >> /\ count = 0
    /\ pc' = [pc EXCEPT !.at = "dev_write"]
    /\ UNCHANGED <<keyboardVars, current_console, tty, reader>>

\* Fault: a backspace is taken at the beginning of the line too.
Taken_BackAlways(d, ch) ==
    IF ch \in Printable
    THEN [d EXCEPT !.tty_trans_cnt = @ + 1, !.tty_left_cnt = @ - 1]
    ELSE IF ch = "bs" THEN [d EXCEPT !.tty_left_cnt = @ + 1] ELSE d

\* A terminal after it has taken ch for the process that reads it.
Taken(d, ch) ==
    IF ch \in Printable
    THEN [d EXCEPT !.tty_trans_cnt = @ + 1, !.tty_left_cnt = @ - 1]
    ELSE IF ch = "bs" /\ d.tty_trans_cnt > 0
         THEN [d EXCEPT !.tty_trans_cnt = @ - 1, !.tty_left_cnt = @ + 1]
    ELSE d

\* A process after ch was copied to place i of its buffer.
Given(r, ch, i) ==
    [r EXCEPT !.line = Append(@, ch),
              !.buf = IF ch \in Printable THEN [@ EXCEPT ![i] = ch] ELSE @]

\* One turn of the loop of tty_dev_write, up to the SEND that ends a read.
TakeKey(t) ==
    LET ch == Head(tty[t].key_buf)
        rest == [tty[t] EXCEPT !.key_buf = Tail(@)]
        d == Taken(rest, ch)
    IN  /\ meant' = IF meant = << >> THEN meant ELSE Tail(meant)
        /\ IF rest.tty_left_cnt = 0
           THEN tty' = [tty EXCEPT ![t] = rest] /\ UNCHANGED <<pc, reader>>
           ELSE /\ tty' = [tty EXCEPT ![t] = d]
                /\ reader' = [reader EXCEPT ![rest.tty_procnr] =
                                Given(@, ch, rest.tty_trans_cnt + 1)]
                /\ pc' = IF ch = "nl" \/ d.tty_left_cnt = 0
                         THEN [pc EXCEPT !.at = "resume"] ELSE pc

tty_dev_write ==
    /\ pc.at = "dev_write"
    /\ IF tty[pc.tty].key_buf # << >>
       THEN TakeKey(pc.tty) /\ UNCHANGED skipping
       ELSE ScanFrom(pc.tty + 1, current_console) /\ UNCHANGED <<meant, tty, reader>>
    /\ UNCHANGED <<wire, text, held, cell, p_head, p_tail, count, kb_state, code,
                   key_pressed, dropped, current_console>>

\* The SEND of RESUME_PROC, and what follows it: FS has the process go on.  (FS may
\* be sending to the TTY task itself, and then the SEND panics, or the TTY task may
\* stay in FS's queue for ever: modules Services and Ipc.)
Resume ==
    /\ pc.at = "resume"
    /\ pc' = [pc EXCEPT !.at = "dev_write"]
    /\ tty' = [tty EXCEPT ![pc.tty].tty_left_cnt = 0]
    /\ reader' = [reader EXCEPT ![tty[pc.tty].tty_procnr].suspended = FALSE,
                                ![tty[pc.tty].tty_procnr].cnt = tty[pc.tty].tty_trans_cnt]
    /\ UNCHANGED <<keyboardVars, current_console>>

Received == pc.at = "receive" /\ ScanFrom(0, current_console)

\* HW_INT, which the clock sends once key_pressed is set.
ReceiveHwInt ==
    /\ Received /\ key_pressed
    /\ key_pressed' = FALSE
    /\ UNCHANGED <<driverVars, current_console, tty, reader>>

\* DEV_OPEN and DEV_WRITE are answered.
ReceiveOther ==
    /\ Received
    /\ UNCHANGED <<driverVars, key_pressed, current_console, tty, reader>>

\* Fault: what an earlier read has left over is kept.
tty_do_read_KeepCount(p, n) ==
    /\ Received /\ ~reader[p].suspended
    /\ tty' = [tty EXCEPT ![TtyOf[p]].tty_procnr = p, ![TtyOf[p]].tty_left_cnt = n]
    /\ reader' = [reader EXCEPT ![p] = [suspended |-> TRUE, asked |-> n, cnt |-> 0,
                                        buf |-> [i \in 1 .. n |-> nul], line |-> << >>]]
    /\ UNCHANGED <<driverVars, key_pressed, current_console>>

\* DEV_READ: the terminal forgets the process it had, if any.
tty_do_read(p, n) ==
    /\ Received /\ ~reader[p].suspended
    /\ tty' = [tty EXCEPT ![TtyOf[p]].tty_procnr = p,
                          ![TtyOf[p]].tty_left_cnt = n,
                          ![TtyOf[p]].tty_trans_cnt = 0]
    /\ reader' = [reader EXCEPT ![p] = [suspended |-> TRUE, asked |-> n, cnt |-> 0,
                                        buf |-> [i \in 1 .. n |-> nul], line |-> << >>]]
    /\ UNCHANGED <<driverVars, key_pressed, current_console>>

-----------------------------------------------------------------------------
(* Everything *)

TtyTask == keyboard_read \/ KeyboardEmpty \/ tty_dev_write

Next == \/ Type /\ UNCHANGED <<pc, current_console, tty, reader>>
        \/ keyboard_handler /\ UNCHANGED <<pc, current_console, tty, reader>>
        \/ TtyTask
        \/ set_leds
        \/ Resume
        \/ ReceiveHwInt
        \/ ReceiveOther
        \/ \E p \in Readers, n \in Counts : tty_do_read(p, n)

\* A byte that the keyboard has sent raises its interrupt; the TTY task is
\* scheduled again and again, and the clock tells it of keys (module Services).
\* That the keyboard answers set_leds and that FS takes RESUME_PROC is not assumed.
Spec == /\ Init /\ [][Next]_vars
        /\ WF_vars(keyboard_handler /\ UNCHANGED <<pc, current_console, tty, reader>>)
        /\ WF_vars(TtyTask) /\ SF_vars(ReceiveHwInt)

-----------------------------------------------------------------------------
(* Properties *)

\* The keys in the queue of a terminal are the ones that were typed and are not
\* taken yet, in their order and as the modifiers stood when they were pressed,
\* as soon as keyboard_read has seen all bytes, unless one was thrown away: by the
\* handler or tty_key_enqueue because the buffer or the queue was full, by
\* keyboard_read because it came behind Pause or Print in the same call, or by
\* kb_ack while set_leds waited for the keyboard's answer.
KeysAsTyped ==
    ~dropped /\ wire = << >> /\ count = 0 /\ code = << >> =>
        \E t \in Ttys : /\ tty[t].key_buf = meant
                        /\ \A u \in Ttys \ {t} : tty[u].key_buf = << >>

\* What one expects of a driver with a buffer and a queue: a byte or a key is thrown
\* away only when one of them is full.  It is not so: keyboard_read does not set its
\* variable key back after Pause or Print, and kb_ack reads bytes of keys.
LostOnlyWhenFull ==
    [][~dropped /\ dropped' => \/ count = LEN_KB_IN_BUFFER
                              \/ Len(tty[pc.tty].key_buf) = TTY_QUEUE_SIZE]_vars

\* The line that a sequence of keys writes.
Edit(s, ch) == IF ch \in Printable THEN Append(s, ch)
               ELSE IF ch = "bs" /\ s # << >> THEN Front(s) ELSE s
Edited(keys) ==
    LET line[n \in 0 .. Len(keys)] ==
            IF n = 0 THEN << >> ELSE Edit(line[n - 1], keys[n])
    IN  line[Len(keys)]

\* A process that was resumed has got the line that the keys taken for it write,
\* and not more than it asked for; one that is waiting has got as much so far.
LineDelivered ==
    \A p \in Readers :
        LET r == reader[p]
            n == IF r.suspended THEN Len(Edited(r.line)) ELSE r.cnt
        IN  /\ n <= r.asked
            /\ SubSeq(r.buf, 1, n) = Edited(r.line)

\* A process that waits for a line is the one its terminal will resume, unless
\* another process has read the same terminal since, or it asked for no bytes
\* at all; and it is resumed as soon as no byte is left.
ReadersKnown ==
    \A p \in Readers : reader[p].suspended =>
        LET d == tty[TtyOf[p]]
        IN  \/ d.tty_procnr = p
               /\ d.tty_left_cnt + d.tty_trans_cnt = reader[p].asked
               /\ (d.tty_left_cnt = 0 => \/ reader[p].asked = 0
                                         \/ pc = [at |-> "resume", tty |-> TtyOf[p]])
            \/ d.tty_procnr # p /\ TtyOf[d.tty_procnr] = TtyOf[p]

\* A key that ends a line, typed for a process that waits, ends its wait, unless
\* keys were thrown away, another process reads the terminal, the console is
\* switched, or the TTY task stays in the SEND that has a process resumed or in
\* kb_ack.  (Keys that keyboard_read finds in the call in which Alt and a function
\* key have switched the console go to the terminal that was shown.)
EnterEndsRead ==
    \A p \in Readers :
        LET t == TtyOf[p]
            Waits == /\ reader[p].suspended /\ tty[t].tty_procnr = p
                     /\ tty[t].tty_left_cnt > 0 \/ pc.at = "resume"
                     /\ current_console = t /\ ~dropped
                     /\ (pc.at = "receive" \/ pc.tty = t)
        IN  \/ Waits /\ "nl" \in ToSet(meant) ~> ~Waits
            \/ <>[](pc.at \in {"resume", "set_leds"})

\* What keyboard.h says of p_head and p_tail: they point into the buffer, so what
\* the handler stores is in it.
BytesInBuffer == \A p \in Cells : cell[p] # Empty => p >= KB_BUF
=============================================================================

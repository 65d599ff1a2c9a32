-------------------------------- MODULE Ipc --------------------------------
(***************************************************************************)
(* Synchronous message passing of the kernel: src/kernel/ipc.c, entered    *)
(* through sys_call (src/kernel/kernel.asm).  One CPU: at most one process *)
(* is inside the kernel (kpc, kcall), but sys_call re-enables interrupts,  *)
(* so an interrupt handler that calls hw_int_notification may run between  *)
(* any two statements of a system call.  A system call is cut into steps   *)
(* exactly where such an interrupt can be told apart.                      *)
(*                                                                         *)
(* The processes are the most general legal clients: a process that is     *)
(* RUNNABLE may be scheduled and issue any SEND or RECEIVE the asserts at  *)
(* the top of sys_send_rcv_handler allow.                                  *)
(***************************************************************************)
EXTENDS Naturals, FiniteSets

CONSTANTS Procs,       \* slots of proc_table
          IrqTasks,    \* the ones hw_int_notification is called for (TTY, HD)
          ANY,         \* source of a RECEIVE that takes any message
          INTERRUPT,   \* source of a RECEIVE that waits for an interrupt
          NO_TASK,     \* "nobody" in pid_recvingfrom and pid_sendingto
          NULL,        \* the null proc pointer
          Bodies,      \* what a message carries besides its source
          HW_INT,      \* the body of an interrupt notification
          OobSending   \* what proc_table[INTERRUPT], which lies outside the
                       \* table, may look like: is it SENDING to the caller?

ASSUME ConstantsAssumption ==
    /\ IrqTasks \subseteq Procs
    /\ {ANY, INTERRUPT, NO_TASK, NULL} \cap Procs = {}
    /\ ANY # INTERRUPT /\ ANY # NO_TASK /\ INTERRUPT # NO_TASK
    /\ HW_INT \in Bodies
    /\ OobSending \subseteq BOOLEAN /\ OobSending # {}

VARIABLES proc_state,      \* set of flags, {} is RUNNABLE
          pending_msg,     \* TRUE: the pointer is set (to msg[p])
          q_pending_proc,  \* head of p's queue AND p's link in another queue
          pid_recvingfrom,
          pid_sendingto,
          has_int_msg,
          msg,             \* header of the buffer p passed to its last call
          kpc,             \* where the system call in progress is
          kcall,           \* its caller and its pid_sender_receiver
          halted           \* "no", or the assert or panic that stopped it all

procVars == <<proc_state, pending_msg, q_pending_proc, pid_recvingfrom,
              pid_sendingto, has_int_msg, msg>>
vars == <<procVars, kpc, kcall, halted>>

SENDING   == "SENDING"
RECEIVING == "RECEIVING"

MsgOf(p, b) == [source |-> p, body |-> b]
HwIntMsg == MsgOf(INTERRUPT, HW_INT)
Messages == [source : Procs \cup {INTERRUPT}, body : Bodies]

NoCall == [who |-> NO_TASK, peer |-> NO_TASK]

KernelPoints == {"user", "snd_assert", "snd_copy", "snd_null", "snd_clear",
                 "rcv_int", "rcv_scan", "rcv_from", "rcv_done"}
Stops == {"no", "check_deadlock", "oob", "hang", "queue_assert", "server_assert",
          "assert_1", "assert_2", "assert_4", "assert_5", "assert_6",
          "assert_8", "assert_9"}

TypeOK ==
    /\ proc_state \in [Procs -> SUBSET {SENDING, RECEIVING}]
    /\ pending_msg \in [Procs -> BOOLEAN]
    /\ q_pending_proc \in [Procs -> Procs \cup {NULL}]
    /\ pid_recvingfrom \in [Procs -> Procs \cup {ANY, INTERRUPT, NO_TASK}]
    /\ pid_sendingto \in [Procs -> Procs \cup {NO_TASK}]
    /\ has_int_msg \in [Procs -> BOOLEAN]
    /\ msg \in [Procs -> Messages]
    /\ kpc \in KernelPoints
    /\ kcall \in [who : Procs \cup {NO_TASK},
                  peer : Procs \cup {ANY, INTERRUPT, NO_TASK}]
    /\ halted \in Stops

Init ==
    /\ proc_state = [p \in Procs |-> {}]
    /\ pending_msg = [p \in Procs |-> FALSE]
    /\ q_pending_proc = [p \in Procs |-> NULL]
    /\ pid_recvingfrom = [p \in Procs |-> NO_TASK]
    /\ pid_sendingto = [p \in Procs |-> NO_TASK]
    /\ has_int_msg = [p \in Procs |-> FALSE]
    /\ msg = [p \in Procs |-> MsgOf(p, HW_INT)]  \* no call has passed one yet
    /\ kpc = "user"
    /\ kcall = NoCall
    /\ halted = "no"

-----------------------------------------------------------------------------
(* Helpers *)

\* A failed assert() spins and panic() executes ud2: nothing runs afterwards.
Halt(why) == halted' = why /\ UNCHANGED <<procVars, kpc, kcall>>

\* p is in user mode and may be the scheduled process.
CanCall(p) == halted = "no" /\ kpc = "user" /\ proc_state[p] = {}

SendsTo(p, d) == SENDING \in proc_state[p] /\ pid_sendingto[p] = d

\* S holds, with every process that is sending, the one it is sending to.
SendClosed(S) == \A p \in S : SENDING \in proc_state[p] => pid_sendingto[p] \in S

\* Fault: only the receiver itself is examined, not the chain behind it.
check_deadlock_OneHop(a, b) == SendsTo(b, a)

\* The walk of check_deadlock visits the least closed set that holds b and
\* reports a deadlock when it meets a process that is sending to a.  (The walk
\* ends because of NoSendCycle.)
check_deadlock(a, b) ==
    \A S \in SUBSET Procs :
        b \in S /\ SendClosed(S) => \E p \in S : SendsTo(p, a)

\* The processes a walk along q_pending_proc meets, r itself included, when it
\* starts at r and ends at stop or at a null pointer.
QueueClosed(S, stop) ==
    \A p \in S \ {stop} : q_pending_proc[p] \in S \cup {NULL}
Walk(r, stop) ==
    {x \in Procs :
       \A S \in SUBSET Procs : r \in S /\ QueueClosed(S, stop) => x \in S}
Chain(r) == Walk(r, NULL)
\* Where the walk ends; there is no such process when the links form a cycle.
IsTail(r, t) == t \in Chain(r) /\ q_pending_proc[t] = NULL
HasTail(r) == \E t \in Procs : IsTail(r, t)
Tail(r) == CHOOSE t \in Procs : IsTail(r, t)

\* q_pending_proc after sender s is appended to the queue of r.
Appended(s, r) == [q_pending_proc EXCEPT ![Tail(r)] = s, ![s] = NULL]

\* q_pending_proc after s is unlinked from the queue of r.  When the walk does
\* not meet s, prev is the last element it saw.
Prev(s, r) == IF s \in Chain(r)
              THEN CHOOSE y \in Walk(r, s) \ {s} : q_pending_proc[y] = s
              ELSE Tail(r)
Unlinked(s, r) ==
    [q_pending_proc EXCEPT ![Prev(s, r)] = q_pending_proc[s], ![s] = NULL]

\* assert_multiple, one definition for each group of operands that it examines.
AllIdle(p) == /\ proc_state[p] = {} /\ ~pending_msg[p]
              /\ pid_recvingfrom[p] = NO_TASK /\ pid_sendingto[p] = NO_TASK
SendingTo(s, r) == /\ proc_state[s] = {SENDING} /\ pending_msg[s]
                   /\ pid_recvingfrom[s] = NO_TASK /\ pid_sendingto[s] = r

-----------------------------------------------------------------------------
(* SEND *)

\* Fault: a waiting receiver takes any message.
SendMatches_AnySource(p, d) == RECEIVING \in proc_state[d]

\* The receiver waits for this message: deliver it, in the steps below.
SendMatches(p, d) == /\ RECEIVING \in proc_state[d]
                     /\ pid_recvingfrom[d] \in {p, ANY}

SysSend(p, d, b) ==
    /\ CanCall(p) /\ d # p
    /\ \/ /\ check_deadlock(p, d)
          /\ Halt("check_deadlock")
       \/ /\ ~check_deadlock(p, d)
          /\ SendMatches(p, d)
          /\ msg' = [msg EXCEPT ![p] = MsgOf(p, b)]
          /\ kpc' = "snd_assert"
          /\ kcall' = [who |-> p, peer |-> d]
          /\ UNCHANGED <<proc_state, pending_msg, q_pending_proc,
                         pid_recvingfrom, pid_sendingto, has_int_msg, halted>>
       \/ /\ ~check_deadlock(p, d)
          /\ ~SendMatches(p, d)
          /\ IF HasTail(d)
             THEN /\ msg' = [msg EXCEPT ![p] = MsgOf(p, b)]
                  /\ proc_state' = [proc_state EXCEPT ![p] = @ \cup {SENDING}]
                  /\ pid_sendingto' = [pid_sendingto EXCEPT ![p] = d]
                  /\ pending_msg' = [pending_msg EXCEPT ![p] = TRUE]
                  /\ q_pending_proc' = Appended(p, d)
                  /\ UNCHANGED <<pid_recvingfrom, has_int_msg, kpc, kcall,
                                 halted>>
             ELSE Halt("hang")

\* assert_multiple(0, receiver, m, 1)
SndAssert ==
    /\ halted = "no" /\ kpc = "snd_assert"
    /\ IF pending_msg[kcall.peer]
       THEN kpc' = "snd_copy" /\ UNCHANGED <<procVars, kcall, halted>>
       ELSE Halt("assert_1")

\* phys_copy; through a null pending_msg it reaches no buffer of the receiver.
SndCopy ==
    /\ halted = "no" /\ kpc = "snd_copy"
    /\ msg' = IF pending_msg[kcall.peer]
              THEN [msg EXCEPT ![kcall.peer] = msg[kcall.who]]
              ELSE msg
    /\ kpc' = "snd_null"
    /\ UNCHANGED <<proc_state, pending_msg, q_pending_proc, pid_recvingfrom,
                   pid_sendingto, has_int_msg, kcall, halted>>

SndNull ==
    /\ halted = "no" /\ kpc = "snd_null"
    /\ pending_msg' = [pending_msg EXCEPT ![kcall.peer] = FALSE]
    /\ kpc' = "snd_clear"
    /\ UNCHANGED <<proc_state, q_pending_proc, pid_recvingfrom,
                   pid_sendingto, has_int_msg, msg, kcall, halted>>

\* Fault: pid_recvingfrom is not reset.
SndClear_KeepsSource ==
    /\ halted = "no" /\ kpc = "snd_clear"
    /\ proc_state' = [proc_state EXCEPT ![kcall.peer] = @ \ {RECEIVING}]
    /\ kpc' = "user" /\ kcall' = NoCall
    /\ UNCHANGED <<pending_msg, q_pending_proc, pid_recvingfrom, pid_sendingto,
                   has_int_msg, msg, halted>>

\* Clear RECEIVING and pid_recvingfrom, unblock, assert_multiple(.., 2), return.
SndClear ==
    /\ halted = "no" /\ kpc = "snd_clear"
    /\ LET p == kcall.who
           d == kcall.peer
       IN  IF /\ proc_state[d] \ {RECEIVING} = {} /\ ~pending_msg[d]
              /\ pid_sendingto[d] = NO_TASK /\ AllIdle(p)
           THEN /\ proc_state' = [proc_state EXCEPT ![d] = @ \ {RECEIVING}]
                /\ pid_recvingfrom' = [pid_recvingfrom EXCEPT ![d] = NO_TASK]
                /\ kpc' = "user" /\ kcall' = NoCall
                /\ UNCHANGED <<pending_msg, q_pending_proc, pid_sendingto,
                               has_int_msg, msg, halted>>
           ELSE Halt("assert_2")

-----------------------------------------------------------------------------
(* RECEIVE *)

\* Sources a process may legally name; only interrupt tasks name INTERRUPT.
Sources(p) == (Procs \ {p}) \cup {ANY}
              \cup (IF p \in IrqTasks THEN {INTERRUPT} ELSE {})

SysReceive(p, s) ==
    /\ CanCall(p) /\ s \in Sources(p)
    /\ kcall' = [who |-> p, peer |-> s]
    /\ IF has_int_msg[p] /\ s \in {ANY, INTERRUPT}
       THEN /\ msg' = [msg EXCEPT ![p] = HwIntMsg]
            /\ has_int_msg' = [has_int_msg EXCEPT ![p] = FALSE]
            /\ kpc' = "rcv_int"
       ELSE /\ msg' = [msg EXCEPT ![p].source = p]
            /\ kpc' = "rcv_scan"
            /\ UNCHANGED has_int_msg
    /\ UNCHANGED <<proc_state, pending_msg, q_pending_proc, pid_recvingfrom,
                   pid_sendingto, halted>>

\* assert_multiple(0, receiver, 0, 4), return.
RcvIntAssert ==
    /\ halted = "no" /\ kpc = "rcv_int"
    /\ LET p == kcall.who
       IN  IF /\ proc_state[p] = {} /\ ~pending_msg[p]
              /\ pid_sendingto[p] = NO_TASK /\ ~has_int_msg[p]
           THEN kpc' = "user" /\ kcall' = NoCall /\ UNCHANGED <<procVars, halted>>
           ELSE Halt("assert_4")

\* Fault: the sender keeps its pending_msg.
TakeFrom_KeepsPending(p, x) ==
    /\ q_pending_proc' = Unlinked(x, p)
    /\ msg' = [msg EXCEPT ![p] = msg[x]]
    /\ pid_sendingto' = [pid_sendingto EXCEPT ![x] = NO_TASK]
    /\ proc_state' = [proc_state EXCEPT ![x] = @ \ {SENDING}]
    /\ kpc' = "user" /\ kcall' = NoCall
    /\ UNCHANGED <<pending_msg, pid_recvingfrom, has_int_msg, halted>>

\* Copy the message of the queued sender x, unblock x and return.
TakeFrom(p, x) ==
    /\ q_pending_proc' = Unlinked(x, p)
    /\ msg' = [msg EXCEPT ![p] = msg[x]]
    /\ pending_msg' = [pending_msg EXCEPT ![x] = FALSE]
    /\ pid_sendingto' = [pid_sendingto EXCEPT ![x] = NO_TASK]
    /\ proc_state' = [proc_state EXCEPT ![x] = @ \ {SENDING}]
    /\ kpc' = "user" /\ kcall' = NoCall
    /\ UNCHANGED <<pid_recvingfrom, has_int_msg, halted>>

\* Nobody is sending: become RECEIVING; pid_recvingfrom is set a step later.
StartReceiving(p) ==
    /\ proc_state' = [proc_state EXCEPT ![p] = @ \cup {RECEIVING}]
    /\ pending_msg' = [pending_msg EXCEPT ![p] = TRUE]
    /\ kpc' = "rcv_from"
    /\ UNCHANGED <<q_pending_proc, pid_recvingfrom, pid_sendingto,
                   has_int_msg, msg, kcall, halted>>

\* Fault: the head of the queue is taken without the asserts of position 5.
ScanAny_NoAssert(p) ==
    IF q_pending_proc[p] = NULL THEN StartReceiving(p)
                                ELSE TakeFrom(p, q_pending_proc[p])

ScanAny(p) ==
    LET x == q_pending_proc[p]
    IN  IF x = NULL THEN StartReceiving(p)
        ELSE IF AllIdle(p) /\ SendingTo(x, p) THEN TakeFrom(p, x)
        ELSE Halt("assert_5")

ScanProc(p, s) ==
    IF ~SendsTo(s, p) THEN StartReceiving(p)
    ELSE IF q_pending_proc[p] = NULL THEN Halt("queue_assert")
    ELSE IF s \notin Chain(p) /\ ~HasTail(p) THEN Halt("hang")
    ELSE IF AllIdle(p) /\ SendingTo(s, p) THEN TakeFrom(p, s)
    ELSE Halt("assert_6")

\* proc_table[INTERRUPT] is read outside the table.
ScanInterrupt(p) ==
    \E sending \in OobSending :
        IF sending THEN Halt("oob") ELSE StartReceiving(p)

RcvScan ==
    /\ halted = "no" /\ kpc = "rcv_scan"
    /\ \/ kcall.peer = ANY       /\ ScanAny(kcall.who)
       \/ kcall.peer \in Procs   /\ ScanProc(kcall.who, kcall.peer)
       \/ kcall.peer = INTERRUPT /\ ScanInterrupt(kcall.who)

\* Fault: the source is stored in the wrong field.
RcvFrom_WrongField ==
    /\ halted = "no" /\ kpc = "rcv_from"
    /\ pid_sendingto' = [pid_sendingto EXCEPT ![kcall.who] = kcall.peer]
    /\ kpc' = "rcv_done"
    /\ UNCHANGED <<proc_state, pending_msg, q_pending_proc, pid_recvingfrom,
                   has_int_msg, msg, kcall, halted>>

RcvFrom ==
    /\ halted = "no" /\ kpc = "rcv_from"
    /\ pid_recvingfrom' = [pid_recvingfrom EXCEPT ![kcall.who] = kcall.peer]
    /\ kpc' = "rcv_done"
    /\ UNCHANGED <<proc_state, pending_msg, q_pending_proc, pid_sendingto,
                   has_int_msg, msg, kcall, halted>>

\* Fault: nothing is checked after pid_recvingfrom has been set.
RcvDone_NoAssert ==
    /\ halted = "no" /\ kpc = "rcv_done"
    /\ kpc' = "user" /\ kcall' = NoCall
    /\ UNCHANGED <<procVars, halted>>

\* block(receiver), assert_multiple(0, receiver, 0, 8), return.
RcvDone ==
    /\ halted = "no" /\ kpc = "rcv_done"
    /\ LET p == kcall.who
       IN  IF /\ proc_state[p] = {RECEIVING} /\ pending_msg[p]
              /\ pid_recvingfrom[p] # NO_TASK /\ pid_sendingto[p] = NO_TASK
              /\ ~has_int_msg[p]
           THEN kpc' = "user" /\ kcall' = NoCall /\ UNCHANGED <<procVars, halted>>
           ELSE Halt("assert_8")

-----------------------------------------------------------------------------
(* Interrupts *)

\* What the header of t's buffer may hold after the handler wrote it.  While a
\* SEND is copying into the same buffer the two writes may land in any order.
HwIntHeaders(t) ==
    IF ~pending_msg[t] THEN {msg[t]}
    ELSE {HwIntMsg} \cup
         (IF kpc = "snd_null" /\ kcall.peer = t
          THEN {msg[t], [msg[t] EXCEPT !.source = INTERRUPT]} ELSE {})

\* hw_int_notification: its interrupt line is masked while it runs and no other
\* handler touches the same process, so it is one step.
HwInt(t) ==
    /\ halted = "no" /\ t \in IrqTasks
    /\ IF RECEIVING \in proc_state[t] /\ pid_recvingfrom[t] \in {INTERRUPT, ANY}
       THEN IF proc_state[t] = {RECEIVING} /\ pid_sendingto[t] = NO_TASK
            THEN /\ \E h \in HwIntHeaders(t) : msg' = [msg EXCEPT ![t] = h]
                 /\ pending_msg' = [pending_msg EXCEPT ![t] = FALSE]
                 /\ has_int_msg' = [has_int_msg EXCEPT ![t] = FALSE]
                 /\ proc_state' = [proc_state EXCEPT ![t] = @ \ {RECEIVING}]
                 /\ pid_recvingfrom' = [pid_recvingfrom EXCEPT ![t] = NO_TASK]
                 /\ UNCHANGED <<q_pending_proc, pid_sendingto, kpc, kcall, halted>>
            ELSE Halt("assert_9")
       ELSE /\ has_int_msg' = [has_int_msg EXCEPT ![t] = TRUE]
            /\ UNCHANGED <<proc_state, pending_msg, q_pending_proc,
                           pid_recvingfrom, pid_sendingto, msg, kpc, kcall,
                           halted>>

\* A stopped system spins for ever (assertion_failure, hlt).
Spin == halted # "no" /\ UNCHANGED vars

KernelStep == \/ SndAssert \/ SndCopy \/ SndNull \/ SndClear
              \/ RcvIntAssert \/ RcvScan \/ RcvFrom \/ RcvDone

Next == \/ \E p, d \in Procs : \E b \in Bodies \ {HW_INT} : SysSend(p, d, b)
        \/ \E p \in Procs : \E s \in Sources(p) : SysReceive(p, s)
        \/ KernelStep
        \/ \E t \in IrqTasks : HwInt(t)
        \/ Spin

Spec == Init /\ [][Next]_vars

-----------------------------------------------------------------------------
(* Properties *)

\* The flags, the two pid fields and pending_msg of every process tell the same
\* story outside the few statements in which a system call is rewriting them:
\* what assert_multiple examines at its nine places, for all processes at once.
FieldsAgree ==
    \A p \in Procs :
        /\ proc_state[p] # {SENDING, RECEIVING}
        /\ SENDING \in proc_state[p] <=> pid_sendingto[p] # NO_TASK
        /\ pid_recvingfrom[p] # NO_TASK => RECEIVING \in proc_state[p]
        /\ RECEIVING \in proc_state[p] =>
             pid_recvingfrom[p] # NO_TASK \/ (kpc = "rcv_from" /\ kcall.who = p)
        /\ ~(kpc = "snd_clear" /\ kcall.peer = p) =>
             (pending_msg[p] <=> proc_state[p] # {})

\* No set of processes waits in a circle of SENDs: what check_deadlock is for.
NoSendCycle ==
    \A S \in (SUBSET Procs) \ {{}} :
        \E p \in S : SENDING \in proc_state[p] => pid_sendingto[p] \notin S

\* The asserts at positions 2, 6 and 9 of assert_multiple never stop the system,
\* whatever the clients do and whenever interrupts arrive.
AssertsThatHold == halted \notin {"assert_2", "assert_6", "assert_9"}

\* No process sleeps in RECEIVE(ANY) or RECEIVE(INTERRUPT) with an interrupt
\* recorded in has_int_msg: nobody would wake it up.
NoMissedInterrupt ==
    halted = "no" /\ kpc = "user" =>
        \A t \in IrqTasks :
            ~(/\ has_int_msg[t] /\ RECEIVING \in proc_state[t]
              /\ pid_recvingfrom[t] \in {ANY, INTERRUPT})

\* When a SEND is over, its message is in the buffer of the process it was sent
\* to: for a sender that had to queue always, for a sender that found the
\* receiver waiting when that receiver is not notified of interrupts.
SendDelivers ==
    [][\A p \in Procs :
         /\ SENDING \in proc_state[p] /\ SENDING \notin proc_state'[p]
              => msg'[pid_sendingto[p]] = MsgOf(p, msg[p].body)
         /\ kpc = "snd_clear" /\ kpc' = "user" /\ kcall.who = p
              /\ kcall.peer \notin IrqTasks
              => msg'[kcall.peer] = MsgOf(p, msg[p].body)]_vars

\* A RECEIVE that names a process ends with a message of that process, even for
\* a task that is notified of interrupts meanwhile.
ReceiveFromNamed ==
    [][\A p \in Procs :
         /\ RECEIVING \in proc_state[p] /\ RECEIVING \notin proc_state'[p]
         /\ pid_recvingfrom[p] \in Procs
         => msg'[p].source = pid_recvingfrom[p]]_vars

\* "pid_receiver has received the msg" (comment where SEND clears RECEIVING).
ReceiverHasMsg ==
    [][kpc = "snd_clear" /\ kpc' = "user"
         => msg'[kcall.peer] = msg[kcall.who]]_vars
=============================================================================

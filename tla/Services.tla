------------------------------ MODULE Services ------------------------------
(***************************************************************************)
(* The message loops that share the kernel's IPC (module Ipc): user        *)
(* processes calling the file system (SEND_RECEIVE of src/lib/sys/ipc.c),  *)
(* the FS server (src/task/task_fs.c, do_read_write_special), the TTY      *)
(* server (src/task/task_tty.c) and the keyboard and clock interrupts that *)
(* wake it up.  Every loop is cut at its IPC calls: between two of them a  *)
(* server touches only its own variables.                                  *)
(*                                                                         *)
(* A key stands for a whole line of input, so every key ends a pending     *)
(* read; one terminal.                                                     *)
(***************************************************************************)
EXTENDS Ipc

CONSTANTS Users, FS, TTY,
          Requests,   \* what users ask FS for
          MaxKeys     \* lines that fit into the keyboard buffer kb_in

\* A message body: its type, and the process on whose behalf it is sent.
Body(t, p) == [type |-> t, proc |-> p]
DeviceRequests == {"FS_READ", "FS_WRITE"}
BodyTypes == DeviceRequests \cup
    {"FS_LSEEK", "DEV_READ", "DEV_WRITE", "SUSPEND_PROC", "RESUME_PROC",
     "SYSCALL_RET", "HW_INT"}

ASSUME ServicesAssumption ==
    /\ Procs = Users \cup {FS, TTY} /\ FS # TTY /\ {FS, TTY} \cap Users = {}
    /\ IrqTasks = {TTY}
    /\ Requests \subseteq DeviceRequests \cup {"FS_LSEEK"}
    /\ Bodies = [type : BodyTypes, proc : Users \cup {NO_TASK}]
    /\ HW_INT = Body("HW_INT", NO_TASK)
    /\ MaxKeys \in Nat

VARIABLES pc,            \* where each process is between two IPC calls
          fs_src,        \* src of task_fs: whom FS will answer
          tty_caller, tty_procnr, tty_left,  \* the read the terminal serves
          keys,          \* lines in kb_in, not yet read by TTY
          key_pressed    \* set by keyboard_handler, cleared by TTY

progVars == <<fs_src, tty_caller, tty_procnr, tty_left, keys, key_pressed>>
svars == <<vars, pc, progVars>>

DevType(t) == IF t = "FS_READ" THEN "DEV_READ" ELSE "DEV_WRITE"

ServicesTypeOK ==
    /\ TypeOK
    /\ pc \in [Procs -> {"run", "sent", "loop", "got", "dev", "dev_got",
                         "reply", "scan", "rcv"}]
    /\ fs_src \in Users \cup {NO_TASK}
    /\ tty_caller \in {FS, NO_TASK}
    /\ tty_procnr \in Users \cup {NO_TASK}
    /\ tty_left \in BOOLEAN
    /\ keys \in 0..MaxKeys
    /\ key_pressed \in BOOLEAN

ServicesInit ==
    /\ Init
    /\ pc = [p \in Procs |-> IF p = FS THEN "loop"
                             ELSE IF p = TTY THEN "scan" ELSE "run"]
    /\ fs_src = NO_TASK /\ tty_caller = NO_TASK /\ tty_procnr = NO_TASK
    /\ tty_left = FALSE /\ keys = 0 /\ key_pressed = FALSE

Goto(p, label) == pc' = [pc EXCEPT ![p] = label]

-----------------------------------------------------------------------------
(* A user process: ipc_msg_send_rcv(SEND_RECEIVE, TASK_FS, ..) in a loop. *)

UserSend(u) ==
    /\ pc[u] = "run"
    /\ \E r \in Requests : SysSend(u, FS, Body(r, u))
    /\ Goto(u, "sent")
    /\ UNCHANGED progVars

UserReceive(u) ==
    /\ pc[u] = "sent"
    /\ SysReceive(u, FS)
    /\ Goto(u, "run")
    /\ UNCHANGED progVars

-----------------------------------------------------------------------------
(* task_fs *)

FsReceive ==
    /\ pc[FS] = "loop"
    /\ SysReceive(FS, ANY)
    /\ Goto(FS, "got")
    /\ UNCHANGED progVars

\* Switch on the type; a request on a device is passed to the terminal.
FsDispatch ==
    /\ pc[FS] = "got" /\ CanCall(FS)
    /\ LET m == msg[FS]
           t == m.body.type
       IN  \/ /\ t \in DeviceRequests
              /\ SysSend(FS, TTY, Body(DevType(t), m.source))
              /\ fs_src' = m.source
              /\ Goto(FS, "dev")
           \/ /\ t = "FS_LSEEK"
              /\ fs_src' = m.source
              /\ Goto(FS, "reply")
              /\ UNCHANGED vars
           \/ /\ t = "RESUME_PROC"
              /\ fs_src' = m.body.proc
              /\ Goto(FS, "reply")
              /\ UNCHANGED vars
           \/ /\ t \notin DeviceRequests \cup {"FS_LSEEK", "RESUME_PROC"}
              /\ Halt("server_assert")
              /\ UNCHANGED <<pc, fs_src>>
    /\ UNCHANGED <<tty_caller, tty_procnr, tty_left, keys, key_pressed>>

\* Fault: SEND instead of SEND_RECEIVE.
FsDevReceive_Skipped ==
    /\ pc[FS] = "dev" /\ CanCall(FS)
    /\ Goto(FS, "reply")
    /\ UNCHANGED <<vars, progVars>>

FsDevReceive ==
    /\ pc[FS] = "dev"
    /\ SysReceive(FS, TTY)
    /\ Goto(FS, "dev_got")
    /\ UNCHANGED progVars

\* Fault: SUSPEND_PROC is taken for an answer.
FsDevGot_IgnoresSuspend ==
    /\ pc[FS] = "dev_got" /\ CanCall(FS)
    /\ Goto(FS, "reply")
    /\ UNCHANGED <<vars, progVars>>

\* assert(fs_msg.CNT == len).  The terminal's answer carries the count it was
\* asked for; the count of a RESUME_PROC is another request's, equal or not.
FsDevGot ==
    /\ pc[FS] = "dev_got" /\ CanCall(FS)
    /\ LET t == msg[FS].body.type
       IN  \/ /\ t = "RESUME_PROC"     \* counts differ
              /\ Halt("server_assert")
              /\ UNCHANGED pc
           \/ /\ t # "SUSPEND_PROC"    \* a RESUME_PROC with an equal count too
              /\ Goto(FS, "reply")
              /\ UNCHANGED vars
           \/ /\ t = "SUSPEND_PROC"
              /\ Goto(FS, "loop")
              /\ UNCHANGED vars
    /\ UNCHANGED progVars

\* fs_msg goes out with PROC_NR as the last RECEIVE left it.
FsReply ==
    /\ pc[FS] = "reply"
    /\ SysSend(FS, fs_src, Body("SYSCALL_RET", msg[FS].body.proc))
    /\ Goto(FS, "loop")
    /\ UNCHANGED progVars

-----------------------------------------------------------------------------
(* task_tty *)

\* tty_dev_read and tty_dev_write for one line: with a read pending it ends
\* that read, otherwise it is dropped.
TtyKey ==
    /\ pc[TTY] = "scan" /\ CanCall(TTY) /\ keys > 0
    /\ keys' = keys - 1
    /\ tty_left' = FALSE
    /\ IF tty_left
       THEN SysSend(TTY, tty_caller, Body("RESUME_PROC", tty_procnr))
       ELSE UNCHANGED vars
    /\ UNCHANGED <<pc, fs_src, tty_caller, tty_procnr, key_pressed>>

TtyDrained ==
    /\ pc[TTY] = "scan" /\ CanCall(TTY) /\ keys = 0
    /\ Goto(TTY, "rcv")
    /\ UNCHANGED <<vars, progVars>>

\* Fault: key_pressed is cleared after the buffer was drained.
TtyReceive_ClearsLate ==
    /\ pc[TTY] = "rcv"
    /\ SysReceive(TTY, ANY)
    /\ Goto(TTY, "got")
    /\ key_pressed' = FALSE
    /\ UNCHANGED <<fs_src, tty_caller, tty_procnr, tty_left, keys>>

TtyReceive ==
    /\ pc[TTY] = "rcv"
    /\ SysReceive(TTY, ANY)
    /\ Goto(TTY, "got")
    /\ UNCHANGED progVars

\* SEND to a source that is not a process writes outside proc_table.
TtyAnswer(d, t, u) ==
    IF d \in Procs THEN SysSend(TTY, d, Body(t, u)) ELSE Halt("oob")

TtyDispatch ==
    /\ pc[TTY] = "got" /\ CanCall(TTY)
    /\ LET m == msg[TTY]
           t == m.body.type
       IN  \/ /\ t = "DEV_READ"
              /\ TtyAnswer(m.source, "SUSPEND_PROC", m.body.proc)
              /\ tty_caller' = IF m.source \in Procs THEN m.source ELSE tty_caller
              /\ tty_procnr' = m.body.proc
              /\ tty_left' = TRUE
              /\ UNCHANGED key_pressed
           \/ /\ t = "DEV_WRITE"
              /\ TtyAnswer(m.source, "SYSCALL_RET", m.body.proc)
              /\ UNCHANGED <<tty_caller, tty_procnr, tty_left, key_pressed>>
           \/ /\ t = "HW_INT"
              /\ key_pressed' = FALSE
              /\ UNCHANGED <<vars, tty_caller, tty_procnr, tty_left>>
    /\ Goto(TTY, "scan")
    /\ UNCHANGED <<fs_src, keys>>

-----------------------------------------------------------------------------
(* Interrupts *)

\* keyboard_handler; what does not fit into the buffer is dropped.
KeyboardIrq ==
    /\ halted = "no"
    /\ keys' = IF keys < MaxKeys THEN keys + 1 ELSE keys
    /\ key_pressed' = TRUE
    /\ UNCHANGED <<vars, pc, fs_src, tty_caller, tty_procnr, tty_left>>

\* clock_handler: wake_up_tty on every tick while key_pressed is set.
ClockIrq ==
    /\ key_pressed
    /\ HwInt(TTY)
    /\ UNCHANGED <<pc, progVars>>

FsStep == FsReceive \/ FsDispatch \/ FsDevReceive \/ FsDevGot \/ FsReply
TtyStep == TtyKey \/ TtyDrained \/ TtyReceive \/ TtyDispatch

ServicesNext ==
    \/ \E u \in Users : UserSend(u) \/ UserReceive(u)
    \/ FsStep \/ TtyStep
    \/ KeyboardIrq \/ ClockIrq
    \/ (KernelStep \/ Spin) /\ UNCHANGED <<pc, progVars>>

ServicesSpec == ServicesInit /\ [][ServicesNext]_svars

\* A system call in progress goes on, the clock ticks, and a server that is
\* RUNNABLE is given the CPU again and again (Scheduler!NoStarvation; ticks do
\* not keep hitting schedule() while it is the candidate).
ServicesFairSpec ==
    /\ ServicesSpec
    /\ WF_svars(KernelStep /\ UNCHANGED <<pc, progVars>>)
    /\ WF_svars(ClockIrq)
    /\ SF_svars(FsStep) /\ SF_svars(TtyStep)

-----------------------------------------------------------------------------
(* Properties *)

\* A user is inside a call to FS: its request was sent, its answer not yet
\* received.
InCall(u) == \/ pc[u] = "sent"
             \/ RECEIVING \in proc_state[u]
             \/ kcall.who = u

\* FS answers only a process that is inside a call: through SUSPEND_PROC and
\* RESUME_PROC, a second reader or a mistaken reply of the terminal, no answer
\* is ever sent twice or to a process that asked for nothing.
AnswersOnlyCallers == pc[FS] = "reply" => InCall(fs_src)

\* What a process gets back from FS is about its own call.  It does not always
\* hold: when the terminal overlooks a request and a RESUME_PROC with an equal
\* count takes the place of its answer, FS passes it to the wrong process.
OwnAnswer ==
    \A u \in Users :
        pc[u] = "run" /\ CanCall(u) /\ msg[u].source = FS => msg[u].body.proc = u

\* Whoever is sending to d can be found in the queue of d: "sender must have
\* been appended to the queue" (kernel_msg_rcv).
SenderQueued ==
    halted = "no" => \A p, d \in Procs : SendsTo(p, d) => p \in Chain(d)

\* What is typed is read by the terminal: no key press is forgotten between the
\* drained buffer and the RECEIVE that waits for the next one.
KeysDrained == keys > 0 ~> (keys = 0 \/ halted # "no")

\* check_deadlock refuses a SEND, and an assert of FS fails over a message it did
\* not expect, only when a read has been suspended: without readers the servers
\* calling each other never meet head on.
StopsOnlyForReads ==
    halted \in {"check_deadlock", "server_assert"} => tty_procnr # NO_TASK
=============================================================================

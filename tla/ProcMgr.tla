------------------------------ MODULE ProcMgr ------------------------------
(***************************************************************************)
(* The process manager: task_pm (src/task/task_pm.c) with do_fork, do_exit,*)
(* do_wait and proc_cleanup (src/task/pm), and the processes that call it  *)
(* with SEND_RECEIVE.  PM is a process like the others: it can be          *)
(* preempted between any two accesses to proc_table, and a process whose   *)
(* SEND it has received may not have reached its RECEIVE yet.              *)
(*                                                                         *)
(* IPC is reduced to rendezvous (module Ipc has the details): a request is *)
(* taken from a process that is SENDING, an answer goes to a process that  *)
(* is RECEIVING, and PM waits at the SEND until that is so.  do_exec       *)
(* changes no proc_state and is left out.  Variables that nothing reads    *)
(* any more (req, src, slot, old) go back to their initial values, so that *)
(* they do not tell states apart.                                          *)
(***************************************************************************)
EXTENDS Naturals, FiniteSets, FiniteSetsExt

CONSTANTS NSlots,    \* user slots of proc_table; slot 1 is INIT
          MemSizes,  \* possible numbers of slots with memory below memory_size
          NO_TASK

ASSUME ProcMgrAssumption ==
    /\ NSlots \in Nat \ {0} /\ MemSizes \subseteq 1..NSlots
    /\ NO_TASK \notin 1..NSlots

Slots == 1..NSlots
INIT == 1

VARIABLES proc_state,  \* set of flags, {} is RUNNABLE
          p_parent,
          upc,         \* in a call to PM: "sent", then "rcv"; otherwise "run"
          req,         \* the type of the last request of each process
          pm,          \* where PM is
          src,         \* source of the request PM is serving
          slot,        \* the slot do_fork fills or proc_cleanup releases
          old,         \* proc_state that do_wait has loaded
          memory_size, \* in slots; init_pm gets it from the boot parameters
          halted       \* "no", or what stopped the system

pmVars == <<pm, src, slot, old>>
vars == <<proc_state, p_parent, upc, req, pmVars, memory_size, halted>>

Flags == {"SENDING", "RECEIVING", "WAITING", "HANGING", "FREE_SLOT"}
PmPoints == {"loop", "FORK", "fork_copy", "fork_mem", "fork_fs", "fork_birth", "reply",
             "EXIT", "exit_mark", "exit_cleanup", "exit_adopt", "adopt_cleanup",
             "WAIT", "wait_cleanup", "wait_store", "wait_none"}

TypeOK ==
    /\ proc_state \in [Slots -> SUBSET Flags]
    /\ p_parent \in [Slots -> Slots \cup {NO_TASK}]
    /\ upc \in [Slots -> {"run", "sent", "rcv"}]
    /\ req \in [Slots -> {"FORK", "EXIT", "WAIT"}]
    /\ pm \in PmPoints
    /\ src \in Slots /\ slot \in Slots
    /\ old \in SUBSET Flags
    /\ memory_size \in MemSizes
    /\ halted \in {"no", "stale_call", "alloc_mem", "assert_2"}

\* INIT runs, every other slot is free and has never been used.
Init ==
    /\ proc_state = [p \in Slots |-> IF p = INIT THEN {} ELSE {"FREE_SLOT"}]
    /\ p_parent = [p \in Slots |-> NO_TASK]
    /\ upc = [p \in Slots |-> "run"]
    /\ req = [p \in Slots |-> "FORK"]
    /\ pm = "loop" /\ src = INIT /\ slot = INIT /\ old = {}
    /\ memory_size \in MemSizes
    /\ halted = "no"

Set(p, flags) == proc_state' = [proc_state EXCEPT ![p] = flags]

-----------------------------------------------------------------------------
(* Callers: fork(), exit() and wait() of src/lib/pm *)

Runs(p) == halted = "no" /\ proc_state[p] = {}

\* INIT never exits.
Call(p, r) ==
    /\ Runs(p) /\ upc[p] = "run"
    /\ r = "EXIT" => p # INIT
    /\ Set(p, {"SENDING"})
    /\ upc' = [upc EXCEPT ![p] = "sent"]
    /\ req' = [req EXCEPT ![p] = r]
    /\ UNCHANGED <<memory_size, p_parent, pmVars, halted>>

Receive(p) ==
    /\ Runs(p) /\ upc[p] = "sent"
    /\ Set(p, {"RECEIVING"})
    /\ upc' = [upc EXCEPT ![p] = "rcv"]
    /\ UNCHANGED <<memory_size, p_parent, req, pmVars, halted>>

\* A process that was scheduled without having been unblocked still has
\* pending_msg and pid_recvingfrom set: the asserts of its next SEND fail.
StaleCall(p) ==
    /\ Runs(p) /\ upc[p] = "rcv"
    /\ halted' = "stale_call"
    /\ UNCHANGED <<memory_size, proc_state, p_parent, upc, req, pmVars>>

-----------------------------------------------------------------------------
(* task_pm *)

At(label) == halted = "no" /\ pm = label

PmReceive(p) ==
    /\ At("loop") /\ "SENDING" \in proc_state[p]
    /\ Set(p, proc_state[p] \ {"SENDING"})
    /\ pm' = req[p] /\ src' = p
    /\ req' = [req EXCEPT ![p] = "FORK"]
    /\ UNCHANGED <<memory_size, p_parent, upc, slot, old, halted>>

\* SEND from PM to d, the other entries becoming others.  The kernel asserts that d
\* is RUNNABLE once RECEIVING is cleared (assert_multiple, position 2).  A child
\* with RECEIVING but with registers from before its RECEIVE is yet to call it.
SendTo(d, others, next) ==
    /\ "RECEIVING" \in proc_state[d]
    /\ IF proc_state[d] = {"RECEIVING"}
       THEN /\ proc_state' = [p \in Slots |-> IF p = d THEN {} ELSE others[p]]
            /\ upc' = [upc EXCEPT ![d] = IF @ = "rcv" THEN "run" ELSE @]
            /\ pm' = next
            /\ slot' = INIT /\ src' = IF next = "loop" THEN INIT ELSE src
            /\ UNCHANGED halted
       ELSE halted' = "assert_2" /\ UNCHANGED <<proc_state, upc, pm, src, slot>>
    /\ UNCHANGED <<memory_size, p_parent, req, old>>

Reply == At("reply") /\ SendTo(src, proc_state, "loop")

-----------------------------------------------------------------------------
(* do_fork *)

FreeSlots == {p \in Slots : proc_state[p] = {"FREE_SLOT"}}

\* Fault: no check that a slot was found; the search ends behind the table.
ForkCopy_NoFullCheck ==
    /\ At("FORK")
    /\ LET c == IF FreeSlots = {} THEN NSlots + 1 ELSE Min(FreeSlots)
       IN  /\ upc' = [upc EXCEPT ![c] = upc[src]]
           /\ slot' = c
           /\ pm' = "fork_copy"
    /\ UNCHANGED <<memory_size, proc_state, p_parent, req, src, old, halted>>

\* The first free slot.  The whole entry of the parent is copied, its registers
\* first (upc: where it will go on); the parent may run in the middle of it.
ForkCopy ==
    /\ At("FORK")
    /\ IF FreeSlots = {}
       THEN pm' = "reply" /\ UNCHANGED <<upc, slot>>
       ELSE LET c == Min(FreeSlots)
            IN  /\ upc' = [upc EXCEPT ![c] = upc[src]]
                /\ slot' = c
                /\ pm' = "fork_copy"
    /\ UNCHANGED <<memory_size, proc_state, p_parent, req, src, old, halted>>

\* The rest of the entry, its proc_state included, and the fields do_fork sets.
ForkCopyState ==
    /\ At("fork_copy")
    /\ Set(slot, proc_state[src])
    /\ p_parent' = [p_parent EXCEPT ![slot] = src]
    /\ pm' = "fork_mem"
    /\ UNCHANGED <<memory_size, upc, req, src, slot, old, halted>>

\* alloc_mem panics when the slot's memory is not there; otherwise the memory
\* is copied and the child's LDT filled.
ForkMem ==
    /\ At("fork_mem")
    /\ IF slot <= memory_size THEN pm' = "fork_fs" /\ UNCHANGED halted
                              ELSE halted' = "alloc_mem" /\ UNCHANGED pm
    /\ UNCHANGED <<memory_size, proc_state, p_parent, upc, req, src, slot, old>>

\* The end of the SEND_RECEIVE to FS (fs_fork).  PM waits at "fork_fs" until FS
\* has answered, which FS may never do: a sender can drop out of its queue.
ForkFs ==
    /\ At("fork_fs")
    /\ pm' = "fork_birth"
    /\ UNCHANGED <<memory_size, proc_state, p_parent, upc, req, src, slot, old, halted>>

ForkBirth == At("fork_birth") /\ SendTo(slot, proc_state, "reply")

-----------------------------------------------------------------------------
(* do_exit *)

\* The end of the SEND_RECEIVE to FS (fs_exit), as in ForkFs.
ExitFs ==
    /\ At("EXIT")
    /\ pm' = "exit_mark"
    /\ UNCHANGED <<memory_size, proc_state, p_parent, upc, req, src, slot, old, halted>>

\* proc_state |= HANGING may lose the RECEIVING of the exiting process; that
\* leaves {HANGING}, as when the process had not reached its RECEIVE.
ExitMark ==
    /\ At("exit_mark")
    /\ LET parent == p_parent[src]
       IN  IF "WAITING" \in proc_state[parent]
           THEN /\ Set(parent, proc_state[parent] \ {"WAITING"})
                /\ slot' = src
                /\ pm' = "exit_cleanup"
           ELSE /\ Set(src, proc_state[src] \cup {"HANGING"})
                /\ pm' = "exit_adopt"
                /\ UNCHANGED slot
    /\ UNCHANGED <<memory_size, p_parent, upc, req, src, old, halted>>

\* Fault: do_wait does not return after proc_cleanup.
Cleanup_NoReturn(label, next) ==
    /\ At(label)
    /\ SendTo(p_parent[slot], [proc_state EXCEPT ![slot] = {"FREE_SLOT"}],
              IF label = "wait_cleanup" THEN "wait_none" ELSE next)

\* proc_cleanup: tell the parent, then release the slot (p_parent is left as it is).
Cleanup(label, next) ==
    /\ At(label)
    /\ SendTo(p_parent[slot], [proc_state EXCEPT ![slot] = {"FREE_SLOT"}], next)

ChildrenOf(p) == {c \in Slots : p_parent[c] = p}
HangingOf(p) == {c \in ChildrenOf(p) : "HANGING" \in proc_state[c]}

\* Fault: the children of the exiting process are not adopted.
ExitAdopt_NoAdoption ==
    /\ At("exit_adopt")
    /\ pm' = "loop"
    /\ UNCHANGED <<memory_size, proc_state, p_parent, upc, req, src, slot, old, halted>>

\* Fault: INIT adopts a dead child but is not told.
ExitAdopt_NoWakeUp ==
    /\ At("exit_adopt")
    /\ p_parent' = [p \in Slots |-> IF p \in ChildrenOf(src) THEN INIT ELSE p_parent[p]]
    /\ pm' = "loop"
    /\ UNCHANGED <<memory_size, proc_state, upc, req, src, slot, old, halted>>

\* Fault: EXIT is answered like the other requests (reply is not cleared).
ExitAdopt_Replies ==
    /\ At("exit_adopt")
    /\ pm' = "reply"
    /\ UNCHANGED <<memory_size, proc_state, p_parent, upc, req, src, slot, old, halted>>

\* INIT becomes the parent; it gets one dead child at once if it is WAITING.
ExitAdopt ==
    /\ At("exit_adopt")
    /\ p_parent' = [p \in Slots |-> IF p \in ChildrenOf(src) THEN INIT ELSE p_parent[p]]
    /\ IF "WAITING" \in proc_state[INIT] /\ HangingOf(src) # {}
       THEN /\ Set(INIT, proc_state[INIT] \ {"WAITING"})
            /\ slot' = Min(HangingOf(src))
            /\ pm' = "adopt_cleanup"
            /\ UNCHANGED src
       ELSE pm' = "loop" /\ src' = INIT /\ UNCHANGED <<proc_state, slot>>
    /\ UNCHANGED <<memory_size, upc, req, old, halted>>

-----------------------------------------------------------------------------
(* do_wait *)

\* has_children counts every slot whose p_parent is the caller.
WaitScan ==
    /\ At("WAIT")
    /\ \/ /\ HangingOf(src) # {}
          /\ slot' = Min(HangingOf(src))
          /\ pm' = "wait_cleanup"
          /\ UNCHANGED old
       \/ /\ HangingOf(src) = {} /\ ChildrenOf(src) # {}
          /\ old' = proc_state[src]
          /\ pm' = "wait_store"
          /\ UNCHANGED slot
       \/ /\ ChildrenOf(src) = {}
          /\ pm' = "wait_none"
          /\ UNCHANGED <<slot, old>>
    /\ UNCHANGED <<memory_size, proc_state, p_parent, upc, req, src, halted>>

\* Fault: WAIT is answered at once (reply is not cleared).
WaitStore_Replies ==
    /\ At("wait_store")
    /\ Set(src, old \cup {"WAITING"})
    /\ pm' = "reply"
    /\ UNCHANGED <<memory_size, p_parent, upc, req, src, slot, old, halted>>

\* proc_state |= WAITING is a load and a store of another process's field.
WaitStore ==
    /\ At("wait_store")
    /\ Set(src, old \cup {"WAITING"})
    /\ pm' = "loop" /\ src' = INIT /\ old' = {}
    /\ UNCHANGED <<memory_size, p_parent, upc, req, slot, halted>>

WaitNone == At("wait_none") /\ SendTo(src, proc_state, "loop")

-----------------------------------------------------------------------------
FsAnswers == ForkFs \/ ExitFs

PmStep == \/ Reply
          \/ ForkCopy \/ ForkCopyState \/ ForkMem \/ ForkBirth
          \/ ExitMark \/ ExitAdopt
          \/ Cleanup("exit_cleanup", "exit_adopt")
          \/ Cleanup("adopt_cleanup", "loop")
          \/ Cleanup("wait_cleanup", "loop")
          \/ WaitScan \/ WaitStore \/ WaitNone

Spin == halted # "no" /\ UNCHANGED vars

Next == \/ \E p \in Slots : \/ \E r \in {"FORK", "EXIT", "WAIT"} : Call(p, r)
                            \/ Receive(p)
                            \/ StaleCall(p)
                            \/ PmReceive(p)
        \/ PmStep \/ FsAnswers
        \/ Spin

Spec == Init /\ [][Next]_vars

\* PM and a process that has sent its request are scheduled again and again
\* (Scheduler!NoStarvation).  Nothing is assumed of FS.
FairSpec == Spec /\ WF_vars(PmStep) /\ \A p \in Slots : WF_vars(Receive(p))

-----------------------------------------------------------------------------
(* Properties *)

Live(p) == "FREE_SLOT" \notin proc_state[p]

\* Whenever PM is idle, the parent of every process and of every zombie exists
\* and has not exited: somebody can still collect the exit status.
ParentsLive ==
    pm = "loop" => \A p \in Slots \ {INIT} : Live(p) =>
        /\ p_parent[p] \in Slots
        /\ Live(p_parent[p]) /\ "HANGING" \notin proc_state[p_parent[p]]

\* Whenever PM is idle, no process waits while one of its children is HANGING:
\* the exit that came before the wait, or with the adoption, is not missed.
NoMissedExit ==
    pm = "loop" => \A p \in Slots : "WAITING" \in proc_state[p] => HangingOf(p) = {}

\* PM never starts a SEND to a process that is not inside a call to PM, where it
\* would wait for ever.
TargetInCall ==
    /\ pm \in {"reply", "wait_none"} => Live(src) /\ upc[src] # "run"
    /\ pm = "fork_birth" => Live(slot) /\ upc[slot] # "run"
    /\ pm \in {"exit_cleanup", "adopt_cleanup", "wait_cleanup"} =>
         Live(p_parent[slot]) /\ upc[p_parent[slot]] # "run"

\* PM's answer never reaches a process that is WAITING or HANGING (position 2 of
\* assert_multiple).
AnswerFindsReceiver == halted # "assert_2"

\* The process PM is sending to, if it is.
SendTarget ==
    IF pm \in {"reply", "wait_none"} THEN src
    ELSE IF pm = "fork_birth" THEN slot
    ELSE IF pm \in {"exit_cleanup", "adopt_cleanup", "wait_cleanup"} THEN p_parent[slot]
    ELSE NO_TASK

\* PM gets back to its loop, unless the system stopped, FS never answers, or PM
\* is stuck in a SEND to a process that do_wait made forget its RECEIVING.  There
\* is no other process and no other point at which PM waits for ever.
PmReturns ==
    \/ pm # "loop" ~> (pm = "loop" \/ halted # "no")
    \/ <>[](pm \in {"fork_fs", "EXIT"})
    \/ <>[](SendTarget \in Slots /\ upc[SendTarget] = "rcv" /\ proc_state[SendTarget] = {})

\* "WAITING: a proc has at least one child" (PM's README).
WaitersHaveChildren ==
    pm = "loop" => \A p \in Slots :
        "WAITING" \in proc_state[p] => \E c \in ChildrenOf(p) : Live(c)

\* "receiver will not be scheduled until it is unblocked" (kernel_msg_rcv).
BlockedUntilUnblocked == \A p \in Slots : upc[p] = "rcv" => proc_state[p] # {}
=============================================================================

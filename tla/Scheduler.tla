----------------------------- MODULE Scheduler -----------------------------
(***************************************************************************)
(* Process scheduling: schedule() of src/kernel/process.c, clock_handler   *)
(* of src/device/timer.c, block() of src/kernel/ipc.c.  schedule() runs    *)
(* with interrupts enabled, so its two loops are modelled one iteration    *)
(* per step: a nested tick or a wake-up may come between two iterations.   *)
(* What a process does between scheduling points is left out; it may block *)
(* (block() in SEND or RECEIVE) or make others runnable.                   *)
(***************************************************************************)
EXTENDS Naturals, FiniteSets

CONSTANTS N,         \* slots of proc_table, 1..N in table order
          priority,  \* priority of every slot
          Spinners   \* APP1..APP3: for(;;), they never block

Slots == 1..N

ASSUME SchedulerAssumption ==
    /\ N \in Nat
    /\ priority \in [Slots -> Nat \ {0}]
    /\ Spinners \subseteq Slots /\ Spinners # {}

VARIABLES runnable,      \* slots with proc_state == RUNNABLE
          ticks,
          p_proc_ready,
          mode,          \* "user"; "call": schedule() in a system call;
                         \* "irq": schedule() in clock_handler
          loop,          \* which for loop of schedule(): "pick" or "fill"
          p,             \* its loop variable
          greatest_ticks

scan == <<loop, p, greatest_ticks>>
vars == <<runnable, ticks, p_proc_ready, mode, scan>>

TypeOK ==
    /\ runnable \in SUBSET Slots
    /\ ticks \in [Slots -> Nat]
    /\ p_proc_ready \in Slots
    /\ mode \in {"user", "call", "irq"}
    /\ loop \in {"pick", "fill"}
    /\ p \in 1..N + 1
    /\ greatest_ticks \in Nat

\* init_process: every native process is runnable with a full quantum.
Init ==
    /\ runnable \in {R \in SUBSET Slots : Spinners \subseteq R /\ 1 \in R}
    /\ ticks = priority
    /\ p_proc_ready = 1
    /\ mode = "user"
    /\ loop = "pick" /\ p = 1 /\ greatest_ticks = 0

\* Entry of schedule(): the first iteration of the while loop.
StartSchedule(m) == mode' = m /\ loop' = "pick" /\ p' = 1 /\ greatest_ticks' = 0

\* Fault: the counter is decremented below zero.
Decrement_Unguarded == [ticks EXCEPT ![p_proc_ready] = @ - 1]

Decrement == IF ticks[p_proc_ready] > 0
             THEN [ticks EXCEPT ![p_proc_ready] = @ - 1]
             ELSE ticks

-----------------------------------------------------------------------------
\* Fault: a used-up quantum does not lead to schedule().
Tick_NoSchedule ==
    /\ mode = "user"
    /\ ticks' = Decrement
    /\ UNCHANGED <<runnable, p_proc_ready, mode, scan>>

\* clock_handler, from user mode: schedule when the quantum is used up.
Tick ==
    /\ mode = "user"
    /\ ticks' = Decrement
    /\ IF ticks'[p_proc_ready] > 0 THEN UNCHANGED <<mode, scan>>
                                   ELSE StartSchedule("irq")
    /\ UNCHANGED <<runnable, p_proc_ready>>

\* clock_handler inside a system call (nested_int # 0); it may come while that
\* call is in schedule().  IRQ 0 is masked inside clock_handler itself.
NestedTick ==
    /\ mode \in {"user", "call"}
    /\ ticks' = Decrement
    /\ UNCHANGED <<runnable, p_proc_ready, mode, scan>>

\* block(): the running process gives up the CPU in SEND or RECEIVE.
Block ==
    /\ mode = "user" /\ p_proc_ready \notin Spinners
    /\ runnable' = runnable \ {p_proc_ready}
    /\ StartSchedule("call")
    /\ UNCHANGED <<ticks, p_proc_ready>>

\* proc_state becomes RUNNABLE: by a system call of the running process, or by
\* hw_int_notification at any time.
Wake(q) ==
    /\ q \notin runnable
    /\ runnable' = runnable \cup {q}
    /\ UNCHANGED <<ticks, p_proc_ready, mode, scan>>

\* The process manager, while it runs, sets WAITING, HANGING or FREE_SLOT of
\* another process that may be RUNNABLE.
Suspend(q) ==
    /\ mode = "user" /\ q \in runnable \ (Spinners \cup {p_proc_ready})
    /\ runnable' = runnable \ {q}
    /\ UNCHANGED <<ticks, p_proc_ready, mode, scan>>

-----------------------------------------------------------------------------
(* schedule() *)

\* Fault: proc_state is not examined.
PickStep_AnyState ==
    /\ mode # "user" /\ loop = "pick" /\ p <= N
    /\ p' = p + 1
    /\ IF ticks[p] > greatest_ticks
       THEN greatest_ticks' = ticks[p] /\ p_proc_ready' = p
       ELSE UNCHANGED <<greatest_ticks, p_proc_ready>>
    /\ UNCHANGED <<runnable, ticks, mode, loop>>

PickStep ==
    /\ mode # "user" /\ loop = "pick" /\ p <= N
    /\ p' = p + 1
    /\ IF p \in runnable /\ ticks[p] > greatest_ticks
       THEN greatest_ticks' = ticks[p] /\ p_proc_ready' = p
       ELSE UNCHANGED <<greatest_ticks, p_proc_ready>>
    /\ UNCHANGED <<runnable, ticks, mode, loop>>

\* Fault: a scan without result is repeated, nothing is refilled.
PickEnd_NoRefill ==
    /\ mode # "user" /\ loop = "pick" /\ p = N + 1
    /\ p' = 1
    /\ mode' = IF greatest_ticks > 0 THEN "user" ELSE mode
    /\ greatest_ticks' = 0
    /\ UNCHANGED <<runnable, ticks, p_proc_ready, loop>>

\* All slots seen: return to user mode, or refill.
PickEnd ==
    /\ mode # "user" /\ loop = "pick" /\ p = N + 1
    /\ p' = 1
    /\ IF greatest_ticks > 0 THEN mode' = "user" /\ greatest_ticks' = 0 /\ UNCHANGED loop
                             ELSE loop' = "fill" /\ UNCHANGED <<mode, greatest_ticks>>
    /\ UNCHANGED <<runnable, ticks, p_proc_ready>>

\* Fault: the refill adds to what is left.
FillStep_Adds ==
    /\ mode # "user" /\ loop = "fill" /\ p <= N
    /\ p' = p + 1
    /\ ticks' = IF p \in runnable THEN [ticks EXCEPT ![p] = @ + priority[p]] ELSE ticks
    /\ UNCHANGED <<runnable, p_proc_ready, mode, loop, greatest_ticks>>

FillStep ==
    /\ mode # "user" /\ loop = "fill" /\ p <= N
    /\ p' = p + 1
    /\ ticks' = IF p \in runnable THEN [ticks EXCEPT ![p] = priority[p]] ELSE ticks
    /\ UNCHANGED <<runnable, p_proc_ready, mode, loop, greatest_ticks>>

FillEnd ==
    /\ mode # "user" /\ loop = "fill" /\ p = N + 1
    /\ loop' = "pick" /\ p' = 1
    /\ UNCHANGED <<runnable, ticks, p_proc_ready, mode, greatest_ticks>>

Schedule == PickStep \/ PickEnd \/ FillStep \/ FillEnd

Next == \/ Tick \/ NestedTick \/ Block \/ Schedule
        \/ \E q \in Slots : Wake(q) \/ Suspend(q)

Spec == Init /\ [][Next]_vars

\* The kernel goes on executing schedule(), and the clock, which knows nothing
\* of system calls, does not hit kernel mode for ever.
FairSpec == Spec /\ WF_vars(Schedule) /\ SF_vars(Tick)

-----------------------------------------------------------------------------
(* Properties *)

\* No process ever has more ticks than its priority.
TicksBounded == \A q \in Slots : ticks[q] <= priority[q]

\* The process that runs in user mode is RUNNABLE, whatever woke up or ticked
\* while schedule() was choosing it.
ReadyIsRunnable == mode = "user" => p_proc_ready \in runnable

\* A tick that hits schedule() in a system call (timer.c decrements the ticks of
\* p_proc_ready whatever is going on) is charged to q, the candidate of the
\* moment, which has not run yet.
Robbed(q) == mode = "call" /\ p_proc_ready = q /\ ticks[q] > 0 /\ NestedTick

\* A runnable process is run sooner or later, however often the others block,
\* wake up and are refilled and wherever ticks fall: the only way to keep it
\* waiting is to charge it again and again, as the candidate of schedule(), for
\* ticks during which it did not run.
NoStarvation ==
    \A q \in Slots :
        \/ q \in runnable ~> (q \notin runnable \/ (mode = "user" /\ p_proc_ready = q))
        \/ []<><<Robbed(q)>>_vars

\* Every call of schedule() ends.
ScheduleEnds == mode # "user" ~> mode = "user"
=============================================================================

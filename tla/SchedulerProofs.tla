-------------------------- MODULE SchedulerProofs --------------------------
(***************************************************************************)
(* Safety of schedule() for any number of processes and any priorities,    *)
(* with ticks and wake-ups between any two iterations of its loops.        *)
(***************************************************************************)
EXTENDS Scheduler, TLAPS

\* Once schedule() has seen a candidate, that candidate stays runnable until it
\* is run: only the running process and, from user mode, the process manager
\* take RUNNABLE away.
CandidateRunnable ==
    /\ mode = "user" \/ greatest_ticks > 0 => p_proc_ready \in runnable
    /\ loop = "fill" => greatest_ticks = 0

SchedInv == TypeOK /\ TicksBounded /\ CandidateRunnable

\* clock_handler takes nothing from a process that has no ticks left.
LEMMA DecrementBounded ==
    ASSUME TypeOK, TicksBounded
    PROVE  /\ Decrement \in [Slots -> Nat]
           /\ \A q \in Slots : Decrement[q] <= priority[q]
BY SchedulerAssumption DEF TypeOK, TicksBounded, Decrement

\* init_process sets up a state that satisfies the invariant.
LEMMA SchedInit == Init => SchedInv
BY SchedulerAssumption DEF Init, SchedInv, TypeOK, TicksBounded, CandidateRunnable, Slots

\* Every iteration of schedule(), every tick, and every change of a proc_state
\* preserves the invariant.
LEMMA SchedNext == SchedInv /\ [Next]_vars => SchedInv'
<1> SUFFICES ASSUME SchedInv, [Next]_vars PROVE SchedInv'
  OBVIOUS
<1> USE SchedulerAssumption DEF SchedInv
<1>1. CASE Tick
  <2>1. ticks' = Decrement /\ UNCHANGED <<runnable, p_proc_ready>>
    BY <1>1 DEF Tick
  <2>2. TicksBounded' /\ ticks' \in [Slots -> Nat]
    BY <2>1, DecrementBounded DEF TicksBounded
  <2>3. \/ UNCHANGED <<mode, scan>>
        \/ mode' = "irq" /\ loop' = "pick" /\ p' = 1 /\ greatest_ticks' = 0
    BY <1>1 DEF Tick, StartSchedule
  <2>4. TypeOK'
    <3>1. runnable' \in SUBSET Slots /\ p_proc_ready' \in Slots
      BY <2>1 DEF TypeOK
    <3>2. /\ mode' \in {"user", "call", "irq"} /\ loop' \in {"pick", "fill"}
          /\ p' \in 1..N + 1 /\ greatest_ticks' \in Nat
      BY <2>3 DEF TypeOK, scan
    <3> QED BY <2>2, <3>1, <3>2 DEF TypeOK
  <2>5. CandidateRunnable'
    BY <2>1, <2>3 DEF CandidateRunnable, scan
  <2> QED BY <2>2, <2>4, <2>5
<1>2. CASE NestedTick
  <2>1. TicksBounded' /\ ticks' \in [Slots -> Nat]
    BY <1>2, DecrementBounded DEF NestedTick, TicksBounded
  <2>2. TypeOK' /\ CandidateRunnable'
    BY <1>2, <2>1 DEF NestedTick, TypeOK, CandidateRunnable, scan
  <2> QED BY <2>1, <2>2
<1>3. CASE Block
  BY <1>3 DEF Block, StartSchedule, TypeOK, TicksBounded, CandidateRunnable, Slots
<1>4. CASE PickStep
  <2>1. TypeOK'
    <3>1. N \in Nat /\ p \in Nat /\ p \in Slots /\ p + 1 \in 1..N + 1
      BY <1>4, SchedulerAssumption DEF PickStep, TypeOK, Slots
    <3>2. p' \in 1..N + 1 /\ greatest_ticks' \in Nat /\ p_proc_ready' \in Slots
      BY <1>4, <3>1 DEF PickStep, TypeOK
    <3> QED BY <1>4, <3>2 DEF PickStep, TypeOK
  <2>2. TicksBounded'
    BY <1>4 DEF PickStep, TicksBounded
  <2>3. CandidateRunnable'
    BY <1>4 DEF PickStep, TypeOK, CandidateRunnable, Slots
  <2> QED BY <2>1, <2>2, <2>3
<1>5. CASE PickEnd
  BY <1>5 DEF PickEnd, TypeOK, TicksBounded, CandidateRunnable, Slots
<1>6. CASE FillStep
  <2>1. p \in Slots
    BY <1>6 DEF FillStep, TypeOK, Slots
  <2>2. TicksBounded' /\ ticks' \in [Slots -> Nat]
    BY <1>6, <2>1 DEF FillStep, TypeOK, TicksBounded
  <2>3. TypeOK' /\ CandidateRunnable'
    BY <1>6, <2>2 DEF FillStep, TypeOK, CandidateRunnable
  <2> QED BY <2>2, <2>3
<1>7. CASE FillEnd
  BY <1>7 DEF FillEnd, TypeOK, TicksBounded, CandidateRunnable, Slots
<1>8. ASSUME NEW q \in Slots, Wake(q) \/ Suspend(q) PROVE SchedInv'
  BY <1>8 DEF Wake, Suspend, TypeOK, TicksBounded, CandidateRunnable, scan
<1>9. CASE UNCHANGED vars
  BY <1>9 DEF vars, scan, TypeOK, TicksBounded, CandidateRunnable
<1> QED BY <1>1, <1>2, <1>3, <1>4, <1>5, <1>6, <1>7, <1>8, <1>9 DEF Next, Schedule

-----------------------------------------------------------------------------
\* schedule() and clock_handler keep every variable within its type; in
\* particular no tick counter falls below zero.
THEOREM SchedTypeCorrect == Spec => []TypeOK
<1>1. SchedInv => TypeOK
  BY DEF SchedInv
<1> QED BY <1>1, SchedInit, SchedNext, PTL DEF Spec

\* However blocking, refilling and nested ticks interleave, no process holds
\* more ticks than its priority.
THEOREM QuantumBounded == Spec => []TicksBounded
<1>1. SchedInv => TicksBounded
  BY DEF SchedInv
<1> QED BY <1>1, SchedInit, SchedNext, PTL DEF Spec

\* schedule() never returns to a process that is not RUNNABLE, for any number
\* of processes and any interleaving with ticks and wake-ups.
THEOREM ScheduledIsRunnable == Spec => []ReadyIsRunnable
<1>1. SchedInv => ReadyIsRunnable
  BY DEF SchedInv, CandidateRunnable, ReadyIsRunnable
<1> QED BY <1>1, SchedInit, SchedNext, PTL DEF Spec
=============================================================================

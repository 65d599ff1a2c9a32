--------------------------- MODULE ProcMgrProofs ---------------------------
(***************************************************************************)
(* Safety of the process manager for any number of slots and any size of   *)
(* memory.                                                                 *)
(***************************************************************************)
EXTENDS ProcMgr, WellFoundedInduction, TLAPS

\* p is in a call to PM whose request has been taken: it runs towards its
\* RECEIVE, or waits there.
InCall(p) ==
    /\ upc[p] # "run"
    /\ proc_state[p] = {} \/ proc_state[p] = {"RECEIVING"}

\* The combinations of flags there are, and where a process with them is.
FlagsAgree ==
    \A p \in Slots :
        \/ proc_state[p] \in {{}, {"FREE_SLOT"}}
        \/ proc_state[p] = {"SENDING"} /\ upc[p] = "sent"
        \/ /\ upc[p] # "run"
           /\ proc_state[p] \in {{"RECEIVING"}, {"WAITING", "RECEIVING"}, {"WAITING"},
                                 {"HANGING", "RECEIVING"}, {"HANGING"}}

\* INIT is there for ever and has no parent.
InitStays ==
    /\ "FREE_SLOT" \notin proc_state[INIT] /\ "HANGING" \notin proc_state[INIT]
    /\ p_parent[INIT] = NO_TASK
    /\ req[INIT] # "EXIT"

ForkPoints == {"fork_mem", "fork_fs", "fork_birth"}
ServingPoints == ForkPoints \cup {"FORK", "fork_copy", "reply", "EXIT", "exit_mark", "exit_cleanup",
                                  "WAIT", "wait_cleanup", "wait_store", "wait_none"}
ExitPoints == {"EXIT", "exit_mark", "exit_cleanup", "exit_adopt", "adopt_cleanup"}

\* What PM has established at each point about the processes it works on; the
\* processes that run meanwhile do not destroy it.
PointState ==
    /\ pm \in ServingPoints => InCall(src)
    /\ pm \in ForkPoints => InCall(slot) /\ slot # src
    /\ pm = "fork_copy" => "FREE_SLOT" \in proc_state[slot] /\ upc[slot] # "run"
    /\ pm \in ExitPoints => src # INIT
    /\ pm = "exit_cleanup" => /\ slot = src
                              /\ p_parent[src] \in Slots /\ InCall(p_parent[src])
    /\ pm = "exit_adopt" => "FREE_SLOT" \in proc_state[src] \/ "HANGING" \in proc_state[src]
    /\ pm = "adopt_cleanup" => /\ "HANGING" \in proc_state[slot]
                               /\ p_parent[slot] = INIT /\ InCall(INIT)
    /\ pm = "wait_cleanup" => "HANGING" \in proc_state[slot] /\ p_parent[slot] = src
    /\ pm = "wait_store" => /\ HangingOf(src) = {}
                            /\ \/ old = {}
                               \/ old = {"RECEIVING"} /\ proc_state[src] = {"RECEIVING"}

\* The parent of a process or zombie is there, except that the children of a
\* process that has just exited are still to be adopted.
ParentsThere ==
    \A p \in Slots \ {INIT} : Live(p) =>
        /\ p_parent[p] \in Slots
        /\ \/ pm = "exit_adopt" /\ p_parent[p] = src
           \/ Live(p_parent[p]) /\ "HANGING" \notin proc_state[p_parent[p]]

NotOwnParent == \A p \in Slots : p_parent[p] # p

\* NoMissedExit at every point of PM.
WaitersMissNothing ==
    \A p, c \in Slots :
        p_parent[c] = p /\ "HANGING" \in proc_state[c] => "WAITING" \notin proc_state[p]

PInv == /\ TypeOK /\ FlagsAgree /\ InitStays /\ PointState /\ ParentsThere
        /\ NotOwnParent /\ WaitersMissNothing /\ AnswerFindsReceiver

-----------------------------------------------------------------------------
(* The smallest slot *)

\* The search for the first entry of the table that is free, or that is a child
\* which hangs, finds one if there is one.
LEMMA MinIsMember ==
    ASSUME NEW S, S \subseteq Slots, S # {}
    PROVE  Min(S) \in S
<1> DEFINE R == OpToRel(<, Nat)
<1>1. S \subseteq Nat
  BY DEF Slots
<1>2. PICK x \in S : \A y \in S : ~(<<y, x>> \in R)
  <2> HIDE DEF R
  <2>1. IsWellFoundedOn(R, Nat)
    BY NatLessThanWellFounded DEF R
  <2> QED BY <1>1, <2>1, WFMin
<1>3. \A y \in S : x <= y
  <2> TAKE y \in S
  <2>1. ~(y < x)
    BY <1>1, <1>2 DEF OpToRel
  <2> QED BY <1>1, <2>1
<1> QED BY <1>3 DEF Min

-----------------------------------------------------------------------------
(* Steps of the processes *)

LEMMA InitPInv == Init => PInv
<1> SUFFICES ASSUME Init PROVE PInv
  OBVIOUS
<1> USE ProcMgrAssumption DEF Init, Slots, INIT
<1>1. TypeOK
  BY DEF TypeOK, Flags, PmPoints
<1>2. FlagsAgree
  BY DEF FlagsAgree
<1>3. InitStays
  BY DEF InitStays
<1>4. PointState
  BY DEF PointState, ServingPoints, ForkPoints, ExitPoints
<1>5. ParentsThere
  BY DEF ParentsThere, Live
<1>6. NotOwnParent /\ WaitersMissNothing /\ AnswerFindsReceiver
  BY DEF NotOwnParent, WaitersMissNothing, AnswerFindsReceiver
<1> QED BY <1>1, <1>2, <1>3, <1>4, <1>5, <1>6 DEF PInv

\* A step of the processes, while PM stays where it is, that leaves the flags
\* PM sets alone and does not end a call that PM has taken.
LEMMA UserStep ==
    ASSUME PInv, TypeOK', FlagsAgree', InitStays', AnswerFindsReceiver',
           UNCHANGED <<p_parent, pm, src, slot, old>>,
           \A q \in Slots : InCall(q) => InCall(q)',
           \A q \in Slots : proc_state[q] = {"RECEIVING"} => proc_state'[q] = {"RECEIVING"},
           \A q \in Slots : \A f \in {"HANGING", "FREE_SLOT", "WAITING"} :
              f \in proc_state'[q] <=> f \in proc_state[q],
           \A q \in Slots : "FREE_SLOT" \in proc_state[q] => upc'[q] = upc[q]
    PROVE  PInv'
<1> USE ProcMgrAssumption DEF PInv
<1>0. INIT \in Slots /\ src \in Slots /\ slot \in Slots
  BY DEF Slots, INIT, TypeOK
<1>1. PointState'
  BY <1>0 DEF PointState, HangingOf, ChildrenOf, ServingPoints, ForkPoints, ExitPoints
<1>2. ParentsThere'
  BY <1>0 DEF ParentsThere, Live
<1>3. NotOwnParent' /\ WaitersMissNothing'
  BY <1>0 DEF NotOwnParent, WaitersMissNothing
<1> QED BY <1>1, <1>2, <1>3

LEMMA CallPInv ==
    ASSUME PInv, NEW p \in Slots, NEW r \in {"FORK", "EXIT", "WAIT"}, Call(p, r)
    PROVE  PInv'
<1> USE ProcMgrAssumption DEF PInv, Call, Set, Runs, pmVars
<1>0. /\ INIT \in Slots /\ proc_state \in [Slots -> SUBSET Flags]
      /\ upc \in [Slots -> {"run", "sent", "rcv"}]
  BY DEF Slots, INIT, TypeOK
<1>1. TypeOK'
  BY DEF TypeOK, Flags
<1>2. FlagsAgree'
  BY <1>0 DEF FlagsAgree
<1>3. InitStays' /\ AnswerFindsReceiver'
  BY <1>0 DEF InitStays, AnswerFindsReceiver, TypeOK
<1>4. \A q \in Slots : InCall(q) => InCall(q)'
  BY <1>0 DEF InCall
<1>5. \A q \in Slots : proc_state[q] = {"RECEIVING"} => proc_state'[q] = {"RECEIVING"}
  BY <1>0
<1>6. \A q \in Slots : \A f \in {"HANGING", "FREE_SLOT", "WAITING"} :
         f \in proc_state'[q] <=> f \in proc_state[q]
  BY <1>0
<1>7. \A q \in Slots : "FREE_SLOT" \in proc_state[q] => upc'[q] = upc[q]
  BY <1>0
<1> QED BY <1>1, <1>2, <1>3, <1>4, <1>5, <1>6, <1>7, UserStep

LEMMA ReceivePInv ==
    ASSUME PInv, NEW p \in Slots, Receive(p)
    PROVE  PInv'
<1> USE ProcMgrAssumption DEF PInv, Receive, Set, Runs, pmVars
<1>0. /\ INIT \in Slots /\ proc_state \in [Slots -> SUBSET Flags]
      /\ upc \in [Slots -> {"run", "sent", "rcv"}]
  BY DEF Slots, INIT, TypeOK
<1>1. TypeOK'
  BY DEF TypeOK, Flags
<1>2. FlagsAgree'
  BY <1>0 DEF FlagsAgree
<1>3. InitStays' /\ AnswerFindsReceiver'
  BY <1>0 DEF InitStays, AnswerFindsReceiver, TypeOK
<1>4. \A q \in Slots : InCall(q) => InCall(q)'
  BY <1>0 DEF InCall
<1>5. \A q \in Slots : proc_state[q] = {"RECEIVING"} => proc_state'[q] = {"RECEIVING"}
  BY <1>0
<1>6. \A q \in Slots : \A f \in {"HANGING", "FREE_SLOT", "WAITING"} :
         f \in proc_state'[q] <=> f \in proc_state[q]
  BY <1>0
<1>7. \A q \in Slots : "FREE_SLOT" \in proc_state[q] => upc'[q] = upc[q]
  BY <1>0
<1> QED BY <1>1, <1>2, <1>3, <1>4, <1>5, <1>6, <1>7, UserStep

LEMMA StaleCallPInv ==
    ASSUME PInv, NEW p \in Slots, StaleCall(p)
    PROVE  PInv'
<1> USE DEF PInv, StaleCall, pmVars
<1>1. TypeOK' /\ FlagsAgree' /\ InitStays' /\ AnswerFindsReceiver'
  BY DEF TypeOK, FlagsAgree, InitStays, AnswerFindsReceiver
<1> QED BY <1>1, UserStep DEF InCall

-----------------------------------------------------------------------------
(* Steps of PM *)

LEMMA PmReceivePInv ==
    ASSUME PInv, NEW p \in Slots, PmReceive(p)
    PROVE  PInv'
<1> USE ProcMgrAssumption DEF PInv, PmReceive, Set, At
<1>0. /\ INIT \in Slots /\ proc_state \in [Slots -> SUBSET Flags]
      /\ upc \in [Slots -> {"run", "sent", "rcv"}]
      /\ req \in [Slots -> {"FORK", "EXIT", "WAIT"}]
  BY DEF Slots, INIT, TypeOK
<1>1. TypeOK'
  BY DEF TypeOK, PmPoints
<1>2. proc_state[p] = {"SENDING"} /\ upc[p] = "sent"
  BY <1>0 DEF FlagsAgree
<1>3. proc_state' = [proc_state EXCEPT ![p] = {}]
  BY <1>2
<1>4. FlagsAgree'
  BY <1>0, <1>3 DEF FlagsAgree
<1>5. InitStays' /\ AnswerFindsReceiver'
  BY <1>0, <1>3 DEF InitStays, AnswerFindsReceiver
<1>6. \A q \in Slots : \A f \in {"HANGING", "FREE_SLOT", "WAITING"} :
         f \in proc_state'[q] <=> f \in proc_state[q]
  BY <1>0, <1>2, <1>3
<1>7. PointState'
  <2>1. InCall(p)'
    BY <1>0, <1>2, <1>3 DEF InCall
  <2>2. pm' = "EXIT" => p # INIT
    BY DEF InitStays
  <2> QED BY <1>0, <2>1, <2>2 DEF PointState, ServingPoints, ForkPoints, ExitPoints
<1>8. ParentsThere'
  BY <1>0, <1>6 DEF ParentsThere, Live
<1>9. NotOwnParent' /\ WaitersMissNothing'
  BY <1>0, <1>6 DEF NotOwnParent, WaitersMissNothing
<1> QED BY <1>1, <1>4, <1>5, <1>7, <1>8, <1>9

\* A SEND of PM to a process in a call takes it out of the call.
LEMMA SendToInCall ==
    ASSUME PInv, NEW d \in Slots, InCall(d), NEW others, NEW next, SendTo(d, others, next)
    PROVE  /\ proc_state[d] = {"RECEIVING"}
           /\ proc_state' = [p \in Slots |-> IF p = d THEN {} ELSE others[p]]
           /\ upc' = [upc EXCEPT ![d] = IF @ = "rcv" THEN "run" ELSE @]
           /\ pm' = next /\ slot' = INIT /\ src' = IF next = "loop" THEN INIT ELSE src
           /\ UNCHANGED <<memory_size, p_parent, req, old, halted>>
BY DEF InCall, SendTo

\* An answer that releases no slot.
LEMMA AnswerPInv ==
    ASSUME PInv, NEW d \in Slots, InCall(d),
           NEW next \in {"loop", "reply"}, SendTo(d, proc_state, next),
           pm # "exit_adopt", next = "reply" => InCall(src) /\ d # src
    PROVE  PInv'
<1> USE ProcMgrAssumption DEF PInv
<1>0. /\ INIT \in Slots /\ proc_state \in [Slots -> SUBSET Flags]
      /\ upc \in [Slots -> {"run", "sent", "rcv"}]
  BY DEF Slots, INIT, TypeOK
<1>1. /\ proc_state[d] = {"RECEIVING"}
      /\ proc_state' = [proc_state EXCEPT ![d] = {}]
      /\ upc' = [upc EXCEPT ![d] = IF @ = "rcv" THEN "run" ELSE @]
      /\ pm' = next /\ slot' = INIT /\ src' = IF next = "loop" THEN INIT ELSE src
      /\ UNCHANGED <<memory_size, p_parent, req, old, halted>>
  BY <1>0, SendToInCall
<1>2. TypeOK'
  BY <1>0, <1>1 DEF TypeOK, PmPoints
<1>3. FlagsAgree'
  BY <1>0, <1>1 DEF FlagsAgree
<1>4. InitStays' /\ AnswerFindsReceiver'
  BY <1>0, <1>1 DEF InitStays, AnswerFindsReceiver
<1>5. \A q \in Slots : \A f \in {"HANGING", "FREE_SLOT", "WAITING"} :
         f \in proc_state'[q] <=> f \in proc_state[q]
  BY <1>0, <1>1
<1>6. PointState'
  <2>1. next = "reply" => InCall(src)'
    BY <1>0, <1>1 DEF InCall, TypeOK
  <2> QED BY <1>1, <2>1 DEF PointState, ServingPoints, ForkPoints, ExitPoints
<1>7. ParentsThere'
  BY <1>0, <1>1, <1>5 DEF ParentsThere, Live
<1>8. NotOwnParent' /\ WaitersMissNothing'
  BY <1>0, <1>1, <1>5 DEF NotOwnParent, WaitersMissNothing
<1> QED BY <1>2, <1>3, <1>4, <1>6, <1>7, <1>8

\* proc_cleanup releases a slot that nobody has for a parent, or that of the
\* process whose children are adopted next.
LEMMA CleanupPInv ==
    ASSUME PInv,
           \/ Cleanup("exit_cleanup", "exit_adopt")
           \/ Cleanup("adopt_cleanup", "loop")
           \/ Cleanup("wait_cleanup", "loop")
    PROVE  PInv'
<1> DEFINE d == p_parent[slot]
           next == IF pm = "exit_cleanup" THEN "exit_adopt" ELSE "loop"
<1> USE ProcMgrAssumption DEF PInv
<1>0. /\ INIT \in Slots /\ proc_state \in [Slots -> SUBSET Flags]
      /\ upc \in [Slots -> {"run", "sent", "rcv"}] /\ slot \in Slots /\ src \in Slots
  BY DEF Slots, INIT, TypeOK
<1>1. /\ pm \in {"exit_cleanup", "adopt_cleanup", "wait_cleanup"}
      /\ SendTo(d, [proc_state EXCEPT ![slot] = {"FREE_SLOT"}], next)
  BY DEF Cleanup, At
<1>2. d \in Slots /\ InCall(d) /\ d # slot /\ slot # INIT
  <2>1. CASE pm = "exit_cleanup"
    BY <1>0, <2>1 DEF PointState, NotOwnParent, ExitPoints
  <2>2. CASE pm = "adopt_cleanup"
    BY <1>0, <2>2 DEF PointState, NotOwnParent, InitStays
  <2>3. CASE pm = "wait_cleanup"
    BY <1>0, <2>3 DEF PointState, NotOwnParent, InitStays, ServingPoints
  <2> QED BY <1>1, <2>1, <2>2, <2>3
<1>3. /\ proc_state[d] = {"RECEIVING"}
      /\ proc_state' = [proc_state EXCEPT ![slot] = {"FREE_SLOT"}, ![d] = {}]
      /\ upc' = [upc EXCEPT ![d] = IF @ = "rcv" THEN "run" ELSE @]
      /\ pm' = next /\ slot' = INIT /\ src' = IF next = "loop" THEN INIT ELSE src
      /\ UNCHANGED <<memory_size, p_parent, req, old, halted>>
  <2> HIDE DEF d, next
  <2> DEFINE others == [proc_state EXCEPT ![slot] = {"FREE_SLOT"}]
  <2>1. others = [p \in Slots |-> IF p = slot THEN {"FREE_SLOT"} ELSE proc_state[p]]
    BY <1>0
  <2>2. SendTo(d, others, next)
    BY <1>1
  <2> HIDE DEF others
  <2>3. /\ proc_state[d] = {"RECEIVING"}
        /\ proc_state' = [p \in Slots |-> IF p = d THEN {} ELSE others[p]]
        /\ upc' = [upc EXCEPT ![d] = IF @ = "rcv" THEN "run" ELSE @]
        /\ pm' = next /\ slot' = INIT /\ src' = IF next = "loop" THEN INIT ELSE src
        /\ UNCHANGED <<memory_size, p_parent, req, old, halted>>
    BY <1>2, <2>2, SendToInCall
  <2> QED BY <1>0, <1>2, <2>1, <2>3
<1>4. /\ \A q \in Slots \ {slot} : \A f \in {"HANGING", "FREE_SLOT", "WAITING"} :
            f \in proc_state'[q] <=> f \in proc_state[q]
      /\ proc_state'[slot] = {"FREE_SLOT"}
  BY <1>0, <1>2, <1>3
<1>5. TypeOK'
  BY <1>0, <1>2, <1>3 DEF TypeOK, PmPoints, Flags
<1>6. FlagsAgree'
  <2> SUFFICES ASSUME NEW q \in Slots
               PROVE  \/ q \in {d, slot} /\ proc_state'[q] \in {{}, {"FREE_SLOT"}}
                      \/ proc_state'[q] = proc_state[q] /\ upc'[q] = upc[q]
    BY <1>3 DEF FlagsAgree
  <2> HIDE DEF d, next
  <2> QED BY <1>0, <1>2, <1>3
<1>7. InitStays' /\ AnswerFindsReceiver'
  <2> HIDE DEF d, next
  <2> QED BY <1>0, <1>2, <1>3 DEF InitStays, AnswerFindsReceiver
<1>8. PointState'
  BY <1>1, <1>3, <1>4 DEF PointState, ServingPoints, ForkPoints, ExitPoints
<1>9. ParentsThere'
  <2> SUFFICES ASSUME NEW q \in Slots \ {INIT}, Live(q)'
               PROVE  /\ p_parent[q] \in Slots
                      /\ \/ pm' = "exit_adopt" /\ p_parent[q] = src'
                         \/ Live(p_parent[q])' /\ "HANGING" \notin proc_state'[p_parent[q]]
    BY <1>3 DEF ParentsThere
  <2>1. q # slot /\ Live(q)
    BY <1>4 DEF Live
  <2>2. p_parent[q] \in Slots /\ Live(p_parent[q]) /\ "HANGING" \notin proc_state[p_parent[q]]
    BY <1>1, <2>1 DEF ParentsThere
  <2>3. CASE p_parent[q] # slot
    BY <1>3, <1>4, <2>2, <2>3 DEF Live
  <2>4. CASE p_parent[q] = slot
    <3>1. pm = "exit_cleanup" /\ slot = src
      BY <1>1, <2>2, <2>4 DEF PointState
    <3> QED BY <1>3, <2>4, <3>1, <2>2
  <2> QED BY <2>3, <2>4
<1>10. NotOwnParent' /\ WaitersMissNothing'
  BY <1>0, <1>3, <1>4 DEF NotOwnParent, WaitersMissNothing
<1> QED BY <1>5, <1>6, <1>7, <1>8, <1>9, <1>10

LEMMA AnswersPInv ==
    ASSUME PInv, Reply \/ WaitNone \/ ForkBirth
    PROVE  PInv'
<1>0. src \in Slots /\ slot \in Slots
  BY DEF PInv, TypeOK
<1>1. CASE Reply
  <2>1. pm = "reply" /\ SendTo(src, proc_state, "loop")
    BY <1>1 DEF Reply, At
  <2>2. InCall(src)
    BY <2>1 DEF PInv, PointState, ServingPoints
  <2> QED BY <1>0, <2>1, <2>2, AnswerPInv
<1>2. CASE WaitNone
  <2>1. pm = "wait_none" /\ SendTo(src, proc_state, "loop")
    BY <1>2 DEF WaitNone, At
  <2>2. InCall(src)
    BY <2>1 DEF PInv, PointState, ServingPoints
  <2> QED BY <1>0, <2>1, <2>2, AnswerPInv
<1>3. CASE ForkBirth
  <2>1. pm = "fork_birth" /\ SendTo(slot, proc_state, "reply")
    BY <1>3 DEF ForkBirth, At
  <2>2. InCall(src) /\ InCall(slot) /\ slot # src
    BY <2>1 DEF PInv, PointState, ServingPoints, ForkPoints
  <2> QED BY <1>0, <2>1, <2>2, AnswerPInv
<1> QED BY <1>1, <1>2, <1>3

LEMMA ForkCopyPInv ==
    ASSUME PInv, ForkCopy
    PROVE  PInv'
<1> USE ProcMgrAssumption DEF PInv, ForkCopy, At
<1>0. /\ INIT \in Slots /\ proc_state \in [Slots -> SUBSET Flags]
      /\ upc \in [Slots -> {"run", "sent", "rcv"}] /\ src \in Slots
  BY DEF Slots, INIT, TypeOK
<1>1. InCall(src)
  BY DEF PointState, ServingPoints
<1>2. CASE FreeSlots = {}
  <2>1. TypeOK' /\ FlagsAgree' /\ InitStays' /\ AnswerFindsReceiver'
    BY <1>2 DEF TypeOK, PmPoints, FlagsAgree, InitStays, AnswerFindsReceiver
  <2>2. PointState'
    BY <1>1, <1>2 DEF PointState, ServingPoints, ForkPoints, ExitPoints, InCall
  <2>3. ParentsThere' /\ NotOwnParent' /\ WaitersMissNothing'
    BY <1>2 DEF ParentsThere, Live, NotOwnParent, WaitersMissNothing
  <2> QED BY <2>1, <2>2, <2>3
<1>3. CASE FreeSlots # {}
  <2>1. PICK c \in Slots : c = Min(FreeSlots) /\ proc_state[c] = {"FREE_SLOT"}
    <3>1. Min(FreeSlots) \in FreeSlots
      BY <1>3, MinIsMember DEF FreeSlots
    <3> QED BY <3>1 DEF FreeSlots
  <2>2. /\ upc' = [upc EXCEPT ![c] = upc[src]]
        /\ slot' = c /\ pm' = "fork_copy"
        /\ UNCHANGED <<memory_size, proc_state, p_parent, req, src, old, halted>>
    BY <1>3, <2>1
  <2>3. c # src
    BY <1>1, <2>1 DEF InCall
  <2>4. TypeOK'
    BY <1>0, <2>1, <2>2 DEF TypeOK, PmPoints
  <2>5. FlagsAgree'
    BY <1>0, <2>1, <2>2 DEF FlagsAgree
  <2>6. InitStays' /\ AnswerFindsReceiver'
    BY <2>2 DEF InitStays, AnswerFindsReceiver
  <2>7. PointState'
    <3>1. InCall(src)' /\ upc'[c] # "run"
      BY <1>0, <1>1, <2>1, <2>2, <2>3 DEF InCall
    <3> QED BY <2>1, <2>2, <3>1 DEF PointState, ServingPoints, ForkPoints, ExitPoints
  <2>8. ParentsThere' /\ NotOwnParent' /\ WaitersMissNothing'
    BY <2>2 DEF ParentsThere, Live, NotOwnParent, WaitersMissNothing
  <2> QED BY <2>4, <2>5, <2>6, <2>7, <2>8
<1> QED BY <1>2, <1>3

LEMMA ForkCopyStatePInv ==
    ASSUME PInv, ForkCopyState
    PROVE  PInv'
<1> USE ProcMgrAssumption DEF PInv, ForkCopyState, Set, At
<1>0. /\ INIT \in Slots /\ proc_state \in [Slots -> SUBSET Flags]
      /\ upc \in [Slots -> {"run", "sent", "rcv"}] /\ src \in Slots /\ slot \in Slots
      /\ p_parent \in [Slots -> Slots \cup {NO_TASK}]
  BY DEF Slots, INIT, TypeOK
<1>c. PICK c \in Slots : c = slot
  BY <1>0
<1>1. InCall(src) /\ upc[c] # "run"
  BY <1>c DEF PointState, ServingPoints
<1>2. proc_state[c] = {"FREE_SLOT"}
  BY <1>c DEF PointState, FlagsAgree
<1>3. /\ proc_state' = [proc_state EXCEPT ![c] = proc_state[src]]
      /\ p_parent' = [p_parent EXCEPT ![c] = src]
      /\ slot' = c /\ pm' = "fork_mem"
      /\ UNCHANGED <<memory_size, upc, req, src, old, halted>>
  BY <1>c
<1>4. c # src /\ c # INIT
  BY <1>1, <1>2 DEF InCall, InitStays
<1>5. /\ \A f \in {"HANGING", "FREE_SLOT", "WAITING"} : f \notin proc_state'[c]
      /\ \A q \in Slots \ {c} : proc_state'[q] = proc_state[q] /\ p_parent'[q] = p_parent[q]
  BY <1>0, <1>1, <1>3 DEF InCall
<1>6. TypeOK'
  BY <1>0, <1>3 DEF TypeOK, PmPoints
<1>7. InCall(c)' /\ InCall(src)'
  BY <1>0, <1>1, <1>3 DEF InCall
<1>8. FlagsAgree'
  BY <1>0, <1>3, <1>5, <1>7 DEF FlagsAgree, InCall
<1>9. InitStays' /\ AnswerFindsReceiver'
  BY <1>0, <1>3, <1>4, <1>5 DEF InitStays, AnswerFindsReceiver
<1>10. PointState'
  BY <1>3, <1>4, <1>7 DEF PointState, ServingPoints, ForkPoints, ExitPoints
<1>11. ParentsThere'
  <2> SUFFICES ASSUME NEW q \in Slots \ {INIT}, Live(q)'
               PROVE  /\ p_parent'[q] \in Slots
                      /\ Live(p_parent[q])' /\ "HANGING" \notin proc_state'[p_parent'[q]]
    BY DEF ParentsThere
  <2>1. CASE q = c
    BY <1>0, <1>1, <1>3, <1>4, <1>5, <2>1 DEF Live, InCall
  <2>2. CASE q # c
    <3>1. /\ p_parent[q] \in Slots
          /\ Live(p_parent[q]) /\ "HANGING" \notin proc_state[p_parent[q]]
      BY <1>5, <2>2 DEF ParentsThere, Live
    <3>2. p_parent[q] # c
      BY <1>2, <3>1 DEF Live
    <3> QED BY <1>5, <2>2, <3>1, <3>2 DEF Live
  <2> QED BY <2>1, <2>2
<1>12. NotOwnParent'
  BY <1>0, <1>3, <1>4 DEF NotOwnParent
<1>13. WaitersMissNothing'
  BY <1>0, <1>3, <1>5 DEF WaitersMissNothing
<1> QED BY <1>6, <1>8, <1>9, <1>10, <1>11, <1>12, <1>13

\* Steps that change only where PM is, or stop the system.
LEMMA ForkMemFsPInv ==
    ASSUME PInv, ForkMem \/ ForkFs \/ ExitFs
    PROVE  PInv'
<1> USE DEF PInv, ForkMem, ForkFs, ExitFs, At
<1>1. TypeOK' /\ FlagsAgree' /\ InitStays' /\ AnswerFindsReceiver'
  BY DEF TypeOK, PmPoints, FlagsAgree, InitStays, AnswerFindsReceiver
<1>2. PointState'
  BY DEF PointState, ServingPoints, ForkPoints, ExitPoints, InCall
<1>3. ParentsThere' /\ NotOwnParent' /\ WaitersMissNothing'
  BY DEF ParentsThere, Live, NotOwnParent, WaitersMissNothing
<1> QED BY <1>1, <1>2, <1>3

\* A process that waits is in a call, and is left in it without its WAITING.
LEMMA WaitingFlags ==
    ASSUME FlagsAgree, NEW q \in Slots, "WAITING" \in proc_state[q],
           NEW rest, \A f : f \in rest <=> f \in proc_state[q] /\ f # "WAITING"
    PROVE  /\ upc[q] # "run"
           /\ rest = {} \/ rest = {"RECEIVING"}
<1>1. CASE proc_state[q] = {"WAITING"} /\ upc[q] # "run"
  <2>1. rest = {}
    BY <1>1
  <2> QED BY <1>1, <2>1
<1>2. CASE proc_state[q] = {"WAITING", "RECEIVING"} /\ upc[q] # "run"
  <2>1. rest = {"RECEIVING"}
    BY <1>2
  <2> QED BY <1>2, <2>1
<1> QED BY <1>1, <1>2 DEF FlagsAgree

LEMMA ExitMarkPInv ==
    ASSUME PInv, ExitMark
    PROVE  PInv'
<1> USE ProcMgrAssumption DEF PInv
<1>0. /\ INIT \in Slots /\ proc_state \in [Slots -> SUBSET Flags]
      /\ upc \in [Slots -> {"run", "sent", "rcv"}] /\ src \in Slots
      /\ p_parent \in [Slots -> Slots \cup {NO_TASK}]
  BY DEF Slots, INIT, TypeOK
<1>1. InCall(src) /\ src # INIT /\ pm = "exit_mark"
  BY DEF ExitMark, At, PointState, ServingPoints, ExitPoints
<1>2. PICK q \in Slots : /\ q = p_parent[src] /\ q # src
                         /\ Live(q) /\ "HANGING" \notin proc_state[q]
  BY <1>0, <1>1 DEF InCall, ParentsThere, Live, NotOwnParent
<1>3. CASE "WAITING" \in proc_state[q]
  <2>1. /\ proc_state' = [proc_state EXCEPT ![q] = proc_state[q] \ {"WAITING"}]
        /\ slot' = src /\ pm' = "exit_cleanup"
        /\ UNCHANGED <<memory_size, p_parent, upc, req, src, old, halted>>
    BY <1>2, <1>3 DEF ExitMark, Set
  <2>2. /\ \/ proc_state'[q] = {}
           \/ proc_state'[q] = {"RECEIVING"}
        /\ upc[q] # "run"
        /\ \A p \in Slots \ {q} : proc_state'[p] = proc_state[p]
    <3> DEFINE rest == proc_state[q] \ {"WAITING"}
    <3>1. /\ proc_state'[q] = rest
          /\ \A p \in Slots \ {q} : proc_state'[p] = proc_state[p]
      BY <1>0, <2>1
    <3>2. /\ upc[q] # "run"
          /\ rest = {} \/ rest = {"RECEIVING"}
      <4>1. \A f : f \in rest <=> f \in proc_state[q] /\ f # "WAITING"
        OBVIOUS
      <4> HIDE DEF rest
      <4> QED BY <1>3, <4>1, WaitingFlags
    <3> HIDE DEF rest
    <3> QED BY <3>1, <3>2
  <2>3. TypeOK'
    BY <1>0, <2>1 DEF TypeOK, PmPoints
  <2>4. FlagsAgree'
    BY <2>1, <2>2 DEF FlagsAgree
  <2>5. InitStays' /\ AnswerFindsReceiver'
    BY <1>0, <2>1, <2>2 DEF InitStays, AnswerFindsReceiver
  <2>6. PointState'
    <3>1. InCall(q)' /\ InCall(src)'
      BY <1>0, <1>1, <1>2, <2>1, <2>2 DEF InCall
    <3> QED BY <1>1, <1>2, <2>1, <3>1 DEF PointState, ServingPoints, ForkPoints, ExitPoints
  <2>7. ParentsThere'
    BY <1>1, <2>1, <2>2 DEF ParentsThere, Live
  <2>8. NotOwnParent' /\ WaitersMissNothing'
    BY <2>1, <2>2 DEF NotOwnParent, WaitersMissNothing
  <2> QED BY <2>3, <2>4, <2>5, <2>6, <2>7, <2>8
<1>4. CASE "WAITING" \notin proc_state[q]
  <2>1. /\ proc_state' = [proc_state EXCEPT ![src] = proc_state[src] \cup {"HANGING"}]
        /\ pm' = "exit_adopt"
        /\ UNCHANGED <<memory_size, p_parent, upc, req, src, slot, old, halted>>
    BY <1>2, <1>4 DEF ExitMark, Set
  <2>2. /\ proc_state'[src] \in {{"HANGING"}, {"HANGING", "RECEIVING"}}
        /\ upc[src] # "run"
        /\ \A p \in Slots \ {src} : proc_state'[p] = proc_state[p]
    BY <1>0, <1>1, <2>1 DEF InCall
  <2>3. TypeOK'
    BY <1>0, <2>1 DEF TypeOK, PmPoints, Flags
  <2>4. FlagsAgree'
    BY <1>0, <2>1, <2>2 DEF FlagsAgree
  <2>5. InitStays' /\ AnswerFindsReceiver'
    BY <1>0, <1>1, <2>1, <2>2 DEF InitStays, AnswerFindsReceiver
  <2>6. PointState'
    BY <1>0, <1>1, <2>1, <2>2 DEF PointState, ServingPoints, ForkPoints, ExitPoints
  <2>7. ParentsThere'
    BY <1>0, <1>1, <2>1, <2>2 DEF ParentsThere, Live, InCall
  <2>8. NotOwnParent' /\ WaitersMissNothing'
    BY <1>0, <1>1, <1>2, <1>4, <2>1, <2>2 DEF NotOwnParent, WaitersMissNothing
  <2> QED BY <2>3, <2>4, <2>5, <2>6, <2>7, <2>8
<1> QED BY <1>3, <1>4

LEMMA ExitAdoptPInv ==
    ASSUME PInv, ExitAdopt
    PROVE  PInv'
<1> USE ProcMgrAssumption DEF PInv
<1>0. /\ INIT \in Slots /\ proc_state \in [Slots -> SUBSET Flags]
      /\ upc \in [Slots -> {"run", "sent", "rcv"}] /\ src \in Slots
      /\ p_parent \in [Slots -> Slots \cup {NO_TASK}] /\ NO_TASK \notin Slots
  BY DEF Slots, INIT, TypeOK
<1>1. src # INIT /\ pm = "exit_adopt"
  BY DEF ExitAdopt, At, PointState, ExitPoints
<1>2. /\ p_parent' = [p \in Slots |-> IF p_parent[p] = src THEN INIT ELSE p_parent[p]]
      /\ UNCHANGED <<memory_size, upc, req, old, halted>>
  BY DEF ExitAdopt, ChildrenOf
<1>3. NotOwnParent'
  BY <1>0, <1>2 DEF NotOwnParent, InitStays
<1>4. CASE "WAITING" \in proc_state[INIT] /\ HangingOf(src) # {}
  <2>1. PICK c \in Slots : /\ c = Min(HangingOf(src))
                           /\ p_parent[c] = src /\ "HANGING" \in proc_state[c]
    <3>1. Min(HangingOf(src)) \in HangingOf(src)
      BY <1>4, MinIsMember DEF HangingOf, ChildrenOf
    <3> QED BY <3>1 DEF HangingOf, ChildrenOf
  <2>2. /\ proc_state' = [proc_state EXCEPT ![INIT] = proc_state[INIT] \ {"WAITING"}]
        /\ slot' = c /\ pm' = "adopt_cleanup" /\ src' = src
    BY <1>4, <2>1 DEF ExitAdopt, Set
  <2>3. /\ \/ proc_state'[INIT] = {}
           \/ proc_state'[INIT] = {"RECEIVING"}
        /\ upc[INIT] # "run"
        /\ \A p \in Slots \ {INIT} : proc_state'[p] = proc_state[p]
    <3> DEFINE rest == proc_state[INIT] \ {"WAITING"}
    <3>1. /\ proc_state'[INIT] = rest
          /\ \A p \in Slots \ {INIT} : proc_state'[p] = proc_state[p]
      BY <1>0, <2>2
    <3>2. /\ upc[INIT] # "run"
          /\ rest = {} \/ rest = {"RECEIVING"}
      <4>1. \A f : f \in rest <=> f \in proc_state[INIT] /\ f # "WAITING"
        OBVIOUS
      <4> HIDE DEF rest
      <4> QED BY <1>0, <1>4, <4>1, WaitingFlags
    <3> HIDE DEF rest
    <3> QED BY <3>1, <3>2
  <2>4. TypeOK'
    BY <1>0, <1>2, <2>1, <2>2 DEF TypeOK, PmPoints
  <2>5. FlagsAgree'
    BY <1>2, <2>3 DEF FlagsAgree
  <2>6. InitStays' /\ AnswerFindsReceiver'
    BY <1>0, <1>2, <2>3 DEF InitStays, AnswerFindsReceiver
  <2>7. PointState'
    <3>1. InCall(INIT)'
      BY <1>2, <2>3 DEF InCall, INIT
    <3>2. c # INIT
      BY <2>1 DEF InitStays
    <3> QED BY <1>0, <1>1, <1>2, <2>1, <2>2, <2>3, <3>1, <3>2
            DEF PointState, ServingPoints, ForkPoints, ExitPoints
  <2>8. ParentsThere'
    BY <1>0, <1>2, <2>2, <2>3 DEF ParentsThere, Live, InitStays
  <2>9. WaitersMissNothing'
    BY <1>0, <1>2, <2>2, <2>3 DEF WaitersMissNothing
  <2> QED BY <1>3, <2>4, <2>5, <2>6, <2>7, <2>8, <2>9
<1>5. CASE ~("WAITING" \in proc_state[INIT] /\ HangingOf(src) # {})
  <2>1. pm' = "loop" /\ src' = INIT /\ UNCHANGED <<proc_state, slot>>
    BY <1>5 DEF ExitAdopt
  <2>2. TypeOK'
    BY <1>0, <1>2, <2>1 DEF TypeOK, PmPoints
  <2>3. FlagsAgree' /\ InitStays' /\ AnswerFindsReceiver'
    BY <1>0, <1>2, <2>1 DEF FlagsAgree, InitStays, AnswerFindsReceiver
  <2>4. PointState'
    BY <2>1 DEF PointState, ServingPoints, ForkPoints, ExitPoints
  <2>5. ParentsThere'
    BY <1>0, <1>2, <2>1 DEF ParentsThere, Live, InitStays
  <2>6. WaitersMissNothing'
    BY <1>0, <1>2, <1>5, <2>1 DEF WaitersMissNothing, HangingOf, ChildrenOf
  <2> QED BY <1>3, <2>2, <2>3, <2>4, <2>5, <2>6
<1> QED BY <1>4, <1>5

LEMMA WaitScanPInv ==
    ASSUME PInv, WaitScan
    PROVE  PInv'
<1> USE ProcMgrAssumption DEF PInv
<1>0. proc_state \in [Slots -> SUBSET Flags] /\ src \in Slots
  BY DEF TypeOK
<1>1. /\ pm = "WAIT" /\ InCall(src)
      /\ UNCHANGED <<memory_size, proc_state, p_parent, upc, req, src, halted>>
  BY DEF WaitScan, At, PointState, ServingPoints
<1>2. FlagsAgree' /\ InitStays' /\ AnswerFindsReceiver'
  BY <1>1 DEF FlagsAgree, InitStays, AnswerFindsReceiver
<1>3. NotOwnParent' /\ WaitersMissNothing'
  BY <1>1 DEF NotOwnParent, WaitersMissNothing
<1>4. InCall(src)'
  BY <1>1 DEF InCall
<1>5. CASE HangingOf(src) # {} /\ slot' = Min(HangingOf(src)) /\ pm' = "wait_cleanup"
           /\ old' = old
  <2>1. /\ slot' \in Slots
        /\ p_parent[slot'] = src /\ "HANGING" \in proc_state[slot']
    <3>1. Min(HangingOf(src)) \in HangingOf(src)
      BY <1>5, MinIsMember DEF HangingOf, ChildrenOf
    <3> QED BY <1>5, <3>1 DEF HangingOf, ChildrenOf
  <2>2. TypeOK'
    BY <1>1, <1>5, <2>1 DEF TypeOK, PmPoints
  <2>3. PointState' /\ ParentsThere'
    BY <1>1, <1>4, <1>5, <2>1
       DEF PointState, ServingPoints, ForkPoints, ExitPoints, ParentsThere, Live
  <2> QED BY <1>2, <1>3, <2>2, <2>3
<1>6. CASE HangingOf(src) = {} /\ old' = proc_state[src] /\ pm' = "wait_store" /\ slot' = slot
  <2>1. TypeOK'
    BY <1>0, <1>1, <1>6 DEF TypeOK, PmPoints
  <2>2. HangingOf(src)' = {}
    BY <1>1, <1>6 DEF HangingOf, ChildrenOf
  <2>3. PointState'
    BY <1>1, <1>4, <1>6, <2>2 DEF PointState, ServingPoints, ForkPoints, ExitPoints, InCall
  <2>4. ParentsThere'
    BY <1>1, <1>6 DEF ParentsThere, Live
  <2> QED BY <1>2, <1>3, <2>1, <2>3, <2>4
<1>7. CASE pm' = "wait_none" /\ slot' = slot /\ old' = old
  <2>1. TypeOK'
    BY <1>1, <1>7 DEF TypeOK, PmPoints
  <2>2. PointState' /\ ParentsThere'
    BY <1>1, <1>4, <1>7
       DEF PointState, ServingPoints, ForkPoints, ExitPoints, ParentsThere, Live
  <2> QED BY <1>2, <1>3, <2>1, <2>2
<1> QED BY <1>5, <1>6, <1>7 DEF WaitScan

LEMMA WaitStorePInv ==
    ASSUME PInv, WaitStore
    PROVE  PInv'
<1> USE ProcMgrAssumption DEF PInv
<1>0. /\ INIT \in Slots /\ proc_state \in [Slots -> SUBSET Flags]
      /\ upc \in [Slots -> {"run", "sent", "rcv"}] /\ src \in Slots
      /\ p_parent \in [Slots -> Slots \cup {NO_TASK}]
  BY DEF Slots, INIT, TypeOK
<1>1. /\ pm = "wait_store" /\ pm' = "loop" /\ src' = INIT /\ old' = {}
      /\ proc_state' = [proc_state EXCEPT ![src] = old \cup {"WAITING"}]
      /\ UNCHANGED <<memory_size, p_parent, upc, req, slot, halted>>
  BY DEF WaitStore, At, Set
<1>2. /\ InCall(src) /\ HangingOf(src) = {}
      /\ \/ old = {}
         \/ old = {"RECEIVING"} /\ proc_state[src] = {"RECEIVING"}
  BY <1>1 DEF PointState, ServingPoints
<1>3. /\ \/ proc_state'[src] = {"WAITING"}
         \/ proc_state'[src] = {"WAITING", "RECEIVING"}
      /\ upc[src] # "run"
      /\ \A p \in Slots \ {src} : proc_state'[p] = proc_state[p]
  BY <1>0, <1>1, <1>2 DEF InCall
<1>4. TypeOK'
  BY <1>0, <1>1, <1>2 DEF TypeOK, PmPoints, Flags
<1>5. FlagsAgree'
  BY <1>0, <1>1, <1>3 DEF FlagsAgree
<1>6. InitStays' /\ AnswerFindsReceiver'
  BY <1>0, <1>1, <1>3 DEF InitStays, AnswerFindsReceiver
<1>7. PointState'
  BY <1>1 DEF PointState, ServingPoints, ForkPoints, ExitPoints
<1>8. ParentsThere'
  BY <1>0, <1>1, <1>2, <1>3 DEF ParentsThere, Live, InCall
<1>9. NotOwnParent' /\ WaitersMissNothing'
  BY <1>0, <1>1, <1>2, <1>3 DEF NotOwnParent, WaitersMissNothing, HangingOf, ChildrenOf
<1> QED BY <1>4, <1>5, <1>6, <1>7, <1>8, <1>9

-----------------------------------------------------------------------------
(* Theorems *)

LEMMA NextPInv == PInv /\ [Next]_vars => PInv'
<1> SUFFICES ASSUME PInv, [Next]_vars PROVE PInv'
  OBVIOUS
<1>1. CASE UNCHANGED vars
  BY <1>1 DEF vars, pmVars, PInv, TypeOK, FlagsAgree, InitStays, PointState, InCall,
              HangingOf, ChildrenOf, ParentsThere, Live, NotOwnParent, WaitersMissNothing,
              AnswerFindsReceiver
<1>2. CASE \E p \in Slots : \/ \E r \in {"FORK", "EXIT", "WAIT"} : Call(p, r)
                            \/ Receive(p) \/ StaleCall(p) \/ PmReceive(p)
  BY <1>2, CallPInv, ReceivePInv, StaleCallPInv, PmReceivePInv
<1>3. CASE PmStep \/ FsAnswers
  BY <1>3, AnswersPInv, ForkCopyPInv, ForkCopyStatePInv, ForkMemFsPInv, ExitMarkPInv, ExitAdoptPInv, CleanupPInv,
     WaitScanPInv, WaitStorePInv DEF PmStep, FsAnswers
<1> QED BY <1>1, <1>2, <1>3 DEF Next, Spin

LEMMA PInvHolds == Spec => []PInv
BY InitPInv, NextPInv, PTL DEF Spec

\* The variables of PM, of its callers and of proc_table have their types.
THEOREM TypeCorrect == Spec => []TypeOK
<1>1. PInv => TypeOK
  BY DEF PInv
<1> QED BY <1>1, PInvHolds, PTL

\* However many processes fork, exit and wait, and whoever runs between two
\* steps of PM: when PM is idle, the parent of every process and of every zombie
\* exists and has not exited, also after a slot has been used again.
THEOREM ParentsAlwaysLive == Spec => []ParentsLive
<1>1. PInv => ParentsLive
  BY DEF PInv, ParentsThere, ParentsLive
<1> QED BY <1>1, PInvHolds, PTL

\* An exit is never missed: when PM is idle nobody waits who has a HANGING child,
\* whichever came first, and whoever adopted the child.
THEOREM ExitNeverMissed == Spec => []NoMissedExit
<1>1. PInv => NoMissedExit
  BY DEF PInv, WaitersMissNothing, NoMissedExit, HangingOf, ChildrenOf
<1> QED BY <1>1, PInvHolds, PTL

\* PM sends only to processes that are inside a call to it.
THEOREM TargetsInCall == Spec => []TargetInCall
<1> SUFFICES ASSUME PInv PROVE TargetInCall
  BY PInvHolds, PTL
<1>1. \A p : InCall(p) => Live(p) /\ upc[p] # "run"
  BY DEF InCall, Live
<1> QED BY <1>1 DEF PInv, PointState, ServingPoints, ForkPoints, TargetInCall

\* The kernel's assert that the receiver of PM's answer is RUNNABLE afterwards
\* never fails.
THEOREM AnswersFindReceivers == Spec => []AnswerFindsReceiver
<1>1. PInv => AnswerFindsReceiver
  BY DEF PInv
<1> QED BY <1>1, PInvHolds, PTL
=============================================================================

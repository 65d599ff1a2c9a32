----------------------------- MODULE IpcProofs -----------------------------
(***************************************************************************)
(* Safety of the IPC, delivery of messages, and the refinement of          *)
(* Rendezvous, for any number of processes and interrupt tasks; then, that *)
(* no answer of the file system goes astray, for any number of users.      *)
(*                                                                         *)
(* The part on the kernel cites ConstantsAssumption alone: it holds of any *)
(* processes that make system calls.  Only the part on the servers uses    *)
(* ServicesAssumption.                                                     *)
(***************************************************************************)
EXTENDS IpcRendezvous, Services, TLAPS

SndPoints == {"snd_assert", "snd_copy", "snd_null", "snd_clear"}

\* Who is in the kernel, and with whom it wants to communicate.
CallOK ==
    /\ kpc # "user" => /\ kcall.who \in Procs
                       /\ kcall.peer \in Sources(kcall.who)
    /\ kpc \in SndPoints => kcall.peer \in Procs

\* What the kernel has established about the caller, and about the receiver of
\* a SEND, at each point of a call; interrupts do not destroy it.
CallerState ==
    /\ kpc \in SndPoints \cup {"rcv_int", "rcv_scan"} => AllIdle(kcall.who)
    /\ kpc \in SndPoints => SENDING \notin proc_state[kcall.peer]
    /\ kpc = "snd_clear" => ~pending_msg[kcall.peer]
    /\ kpc = "rcv_from" => /\ proc_state[kcall.who] = {RECEIVING}
                           /\ pid_recvingfrom[kcall.who] = NO_TASK
    /\ kpc = "rcv_done" => SENDING \notin proc_state[kcall.who]

\* An interrupt is pending for a task that waits for one only until the system
\* call that made it wait examines has_int_msg.
PendingOnlyInCall ==
    \A t \in Procs :
        /\ has_int_msg[t] /\ RECEIVING \in proc_state[t]
        /\ pid_recvingfrom[t] \in {ANY, INTERRUPT}
        => kpc = "rcv_done" /\ kcall.who = t

IInv == /\ TypeOK /\ CallOK /\ FieldsAgree /\ CallerState
        /\ AssertsThatHold /\ PendingOnlyInCall /\ NoSendCycle

USE DEF SENDING, RECEIVING

-----------------------------------------------------------------------------
(* Facts about the graph of SENDs *)

\* A step after which nobody sends who did not, to the same process, before,
\* makes no cycle.
LEMMA NoCycleShrink ==
    ASSUME NoSendCycle,
           \A x \in Procs : SENDING \in proc_state'[x] =>
              SENDING \in proc_state[x] /\ pid_sendingto'[x] = pid_sendingto[x]
    PROVE  NoSendCycle'
BY DEF NoSendCycle

\* A SEND that check_deadlock let pass makes no cycle: a cycle through the new
\* edge would leave, without p, a cycle among the processes that the walk of
\* check_deadlock visited.
LEMMA NoCycleSend ==
    ASSUME NoSendCycle, NEW p \in Procs, NEW d \in Procs, d # p,
           ~check_deadlock(p, d),
           pid_sendingto'[p] = d,
           \A x \in Procs \ {p} : /\ proc_state'[x] = proc_state[x]
                                  /\ pid_sendingto'[x] = pid_sendingto[x]
    PROVE  NoSendCycle'
<1> SUFFICES ASSUME NEW C \in SUBSET Procs, C # {},
                    \A x \in C : SENDING \in proc_state'[x] /\ pid_sendingto'[x] \in C
             PROVE  FALSE
  BY DEF NoSendCycle
<1>1. PICK S \in SUBSET Procs : /\ d \in S /\ SendClosed(S)
                                /\ \A x \in S : ~SendsTo(x, p)
  BY DEF check_deadlock
<1>2. CASE p \notin C
  <2>1. \A x \in C : SENDING \in proc_state[x] /\ pid_sendingto[x] \in C
    BY <1>2
  <2> QED BY <2>1 DEF NoSendCycle
<1>3. CASE p \in C
  <2> DEFINE D == (S \cap C) \ {p}
  <2>1. d \in D
    BY <1>1, <1>3
  <2>2. ASSUME NEW x \in D PROVE SENDING \in proc_state[x] /\ pid_sendingto[x] \in D
    <3>1. SENDING \in proc_state[x] /\ pid_sendingto[x] \in C
      OBVIOUS
    <3>2. pid_sendingto[x] \in S
      BY <1>1, <3>1 DEF SendClosed
    <3>3. pid_sendingto[x] # p
      BY <1>1, <3>1 DEF SendsTo
    <3> QED BY <3>1, <3>2, <3>3
  <2> HIDE DEF D
  <2>3. D \in SUBSET Procs
    BY DEF D
  <2> QED BY <2>1, <2>2, <2>3 DEF NoSendCycle
<1> QED BY <1>2, <1>3

-----------------------------------------------------------------------------
(* Facts about the queue field *)

\* Appending to a queue writes links to processes only.
LEMMA AppendedType ==
    ASSUME NEW s \in Procs, NEW r \in Procs,
           q_pending_proc \in [Procs -> Procs \cup {NULL}]
    PROVE  Appended(s, r) \in [Procs -> Procs \cup {NULL}]
<1> DEFINE q == [q_pending_proc EXCEPT ![Tail(r)] = s]
<1>1. q \in [Procs -> Procs \cup {NULL}]
  OBVIOUS
<1>2. Appended(s, r) = [q EXCEPT ![s] = NULL]
  BY DEF Appended
<1> HIDE DEF q
<1> QED BY <1>1, <1>2

\* So does unlinking a sender, wherever the walk stops.
LEMMA UnlinkedType ==
    ASSUME NEW s \in Procs, NEW r \in Procs,
           q_pending_proc \in [Procs -> Procs \cup {NULL}]
    PROVE  Unlinked(s, r) \in [Procs -> Procs \cup {NULL}]
<1> DEFINE q == [q_pending_proc EXCEPT ![Prev(s, r)] = q_pending_proc[s]]
<1>1. q \in [Procs -> Procs \cup {NULL}]
  OBVIOUS
<1>2. Unlinked(s, r) = [q EXCEPT ![s] = NULL]
  BY DEF Unlinked
<1> HIDE DEF q
<1> QED BY <1>1, <1>2

-----------------------------------------------------------------------------
(* The invariant *)

\* init_process sets up a state that satisfies the invariant.
LEMMA InitInv == Init => IInv
<1> SUFFICES ASSUME Init PROVE IInv
  OBVIOUS
<1> USE ConstantsAssumption DEF Init
<1>1. TypeOK
  BY DEF TypeOK, KernelPoints, Stops, Messages, MsgOf, NoCall
<1>2. CallOK /\ FieldsAgree /\ CallerState /\ AssertsThatHold /\ PendingOnlyInCall
  BY DEF CallOK, FieldsAgree, CallerState, AssertsThatHold, PendingOnlyInCall, SndPoints
<1>3. NoSendCycle
  BY DEF NoSendCycle
<1> QED BY <1>1, <1>2, <1>3 DEF IInv

\* Stopping disturbs nothing but halted.
LEMMA HaltInv ==
    ASSUME IInv, NEW why \in Stops, why \notin {"assert_2", "assert_6", "assert_9"},
           Halt(why)
    PROVE  IInv'
<1> USE DEF IInv, Halt, procVars
<1>1. TypeOK'
  BY DEF TypeOK
<1>2. CallOK' /\ FieldsAgree' /\ CallerState' /\ PendingOnlyInCall'
  BY DEF CallOK, FieldsAgree, CallerState, PendingOnlyInCall, AllIdle, Sources
<1>3. AssertsThatHold'
  BY DEF AssertsThatHold
<1>4. NoSendCycle'
  BY NoCycleShrink
<1> QED BY <1>1, <1>2, <1>3, <1>4

\* The entry of kernel_msg_send: a deadlock panic, a delivery or a place in the
\* receiver's queue preserve the invariant.
LEMMA SysSendInv ==
    ASSUME IInv, NEW p \in Procs, NEW d \in Procs, NEW b \in Bodies, SysSend(p, d, b)
    PROVE  IInv'
<1> USE ConstantsAssumption DEF IInv
<1>1. CASE check_deadlock(p, d)
  <2>1. Halt("check_deadlock")
    BY <1>1 DEF SysSend
  <2> QED BY <2>1, HaltInv DEF Stops
<1>2. CASE ~check_deadlock(p, d) /\ SendMatches(p, d)
  <2> USE <1>2 DEF SysSend, CanCall
  <2>1. TypeOK'
    BY DEF TypeOK, KernelPoints, Messages, MsgOf
  <2>2. CallOK'
    BY DEF CallOK, Sources, SndPoints
  <2>3. FieldsAgree' /\ PendingOnlyInCall' /\ AssertsThatHold'
    BY DEF FieldsAgree, PendingOnlyInCall, AssertsThatHold
  <2>4. CallerState'
    BY DEF CallerState, FieldsAgree, TypeOK, AllIdle, SendMatches, SndPoints
  <2>5. NoSendCycle'
    BY NoCycleShrink
  <2> QED BY <2>1, <2>2, <2>3, <2>4, <2>5
<1>3. CASE ~check_deadlock(p, d) /\ ~SendMatches(p, d) /\ ~HasTail(d)
  <2>1. Halt("hang")
    BY <1>3 DEF SysSend
  <2> QED BY <2>1, HaltInv DEF Stops
<1>4. CASE ~check_deadlock(p, d) /\ ~SendMatches(p, d) /\ HasTail(d)
  <2> USE <1>4 DEF SysSend, CanCall
  <2>0. q_pending_proc' \in [Procs -> Procs \cup {NULL}]
    BY AppendedType DEF TypeOK
  <2>1. TypeOK'
    <3>1. /\ proc_state' \in [Procs -> SUBSET {SENDING, RECEIVING}]
          /\ pid_sendingto' \in [Procs -> Procs \cup {NO_TASK}]
          /\ UNCHANGED <<pid_recvingfrom, has_int_msg, kpc, kcall, halted>>
      BY DEF TypeOK
    <3>2. pending_msg' \in [Procs -> BOOLEAN]
      <4>1. pending_msg \in [Procs -> BOOLEAN]
        BY DEF TypeOK
      <4> QED BY <4>1
    <3>3. msg' \in [Procs -> Messages]
      BY DEF TypeOK, Messages, MsgOf
    <3> QED BY <2>0, <3>1, <3>2, <3>3 DEF TypeOK
  <2>2. CallOK' /\ CallerState' /\ AssertsThatHold'
    BY DEF CallOK, CallerState, AssertsThatHold, SndPoints
  <2>3. FieldsAgree'
    BY DEF FieldsAgree, TypeOK
  <2>4. PendingOnlyInCall'
    BY DEF PendingOnlyInCall, FieldsAgree, TypeOK
  <2>5. NoSendCycle'
    <3>1. /\ d # p /\ pid_sendingto'[p] = d
          /\ \A x \in Procs \ {p} : /\ proc_state'[x] = proc_state[x]
                                    /\ pid_sendingto'[x] = pid_sendingto[x]
      BY DEF TypeOK
    <3> QED BY <3>1, NoCycleSend
  <2> QED BY <2>1, <2>2, <2>3, <2>4, <2>5
<1> QED BY <1>1, <1>2, <1>3, <1>4

\* The asserts on the receiver before a delivery (position 1) change nothing else.
LEMMA SndAssertInv == ASSUME IInv, SndAssert PROVE IInv'
<1> USE ConstantsAssumption DEF IInv
<1>1. CASE ~pending_msg[kcall.peer]
  <2>1. Halt("assert_1")
    BY <1>1 DEF SndAssert
  <2> QED BY <2>1, HaltInv DEF Stops
<1>2. CASE pending_msg[kcall.peer]
  <2> USE <1>2 DEF SndAssert, procVars
  <2>1. TypeOK' /\ CallOK' /\ AssertsThatHold'
    BY DEF TypeOK, KernelPoints, CallOK, Sources, SndPoints, AssertsThatHold
  <2>2. FieldsAgree' /\ CallerState' /\ PendingOnlyInCall'
    BY DEF FieldsAgree, CallerState, PendingOnlyInCall, SndPoints, AllIdle
  <2>3. NoSendCycle'
    BY NoCycleShrink
  <2> QED BY <2>1, <2>2, <2>3
<1> QED BY <1>1, <1>2

\* The copy into the receiver's buffer, which an interrupt may have preceded.
LEMMA SndCopyInv == ASSUME IInv, SndCopy PROVE IInv'
<1> USE ConstantsAssumption DEF IInv, SndCopy
<1>1. TypeOK' /\ CallOK' /\ AssertsThatHold'
  BY DEF TypeOK, KernelPoints, CallOK, Sources, SndPoints, AssertsThatHold
<1>2. FieldsAgree' /\ CallerState' /\ PendingOnlyInCall'
  BY DEF FieldsAgree, CallerState, PendingOnlyInCall, SndPoints, AllIdle
<1>3. NoSendCycle'
  BY NoCycleShrink
<1> QED BY <1>1, <1>2, <1>3

\* SEND clears the receiver's buffer pointer.
LEMMA SndNullInv == ASSUME IInv, SndNull PROVE IInv'
<1> USE ConstantsAssumption DEF IInv, SndNull
<1>0. kcall.who \in Procs /\ kcall.peer \in Procs /\ kcall.who # kcall.peer
  BY DEF CallOK, Sources, SndPoints
<1>1. TypeOK' /\ CallOK' /\ AssertsThatHold'
  BY DEF TypeOK, KernelPoints, CallOK, Sources, SndPoints, AssertsThatHold
<1>2. FieldsAgree' /\ PendingOnlyInCall'
  BY <1>0 DEF FieldsAgree, PendingOnlyInCall, TypeOK
<1>3. CallerState'
  BY <1>0 DEF CallerState, SndPoints, AllIdle, TypeOK
<1>4. NoSendCycle'
  BY NoCycleShrink
<1> QED BY <1>1, <1>2, <1>3, <1>4

\* The last step of a delivery, and the asserts of position 2 hold.
LEMMA SndClearInv == ASSUME IInv, SndClear PROVE IInv'
<1> USE ConstantsAssumption DEF IInv, SndClear
<1>0. kcall.who \in Procs /\ kcall.peer \in Procs /\ kcall.who # kcall.peer
  BY DEF CallOK, Sources, SndPoints
<1>1. /\ proc_state[kcall.peer] \ {RECEIVING} = {} /\ ~pending_msg[kcall.peer]
      /\ pid_sendingto[kcall.peer] = NO_TASK /\ AllIdle(kcall.who)
  BY <1>0 DEF CallerState, FieldsAgree, TypeOK, SndPoints
<1>2. /\ proc_state' = [proc_state EXCEPT ![kcall.peer] = @ \ {RECEIVING}]
      /\ pid_recvingfrom' = [pid_recvingfrom EXCEPT ![kcall.peer] = NO_TASK]
      /\ kpc' = "user" /\ kcall' = NoCall
      /\ UNCHANGED <<pending_msg, q_pending_proc, pid_sendingto, has_int_msg, msg, halted>>
  BY <1>1
<1> HIDE DEF SndClear
<1>3. TypeOK' /\ CallOK' /\ AssertsThatHold'
  BY <1>2 DEF TypeOK, KernelPoints, NoCall, CallOK, SndPoints, AssertsThatHold
<1>4. FieldsAgree'
  BY <1>0, <1>1, <1>2 DEF FieldsAgree, TypeOK, SndClear
<1>5. CallerState' /\ PendingOnlyInCall'
  BY <1>0, <1>1, <1>2 DEF CallerState, PendingOnlyInCall, SndPoints, TypeOK, SndClear
<1>6. NoSendCycle'
  <2>1. \A x \in Procs : SENDING \in proc_state'[x] =>
           SENDING \in proc_state[x] /\ pid_sendingto'[x] = pid_sendingto[x]
    BY <1>0, <1>2 DEF TypeOK
  <2> QED BY <2>1, NoCycleShrink
<1> QED BY <1>3, <1>4, <1>5, <1>6

-----------------------------------------------------------------------------
\* The entry of kernel_msg_rcv: a recorded interrupt is taken, or the scan begins.
LEMMA SysReceiveInv ==
    ASSUME IInv, NEW p \in Procs, NEW s \in Sources(p), SysReceive(p, s)
    PROVE  IInv'
<1> USE ConstantsAssumption DEF IInv, SysReceive, CanCall
<1>1. TypeOK'
  <2>1. msg' \in [Procs -> Messages]
    BY DEF TypeOK, Messages, HwIntMsg, MsgOf
  <2>2. kcall' \in [who : Procs \cup {NO_TASK}, peer : Procs \cup {ANY, INTERRUPT, NO_TASK}]
    BY DEF Sources
  <2>3. has_int_msg' \in [Procs -> BOOLEAN] /\ kpc' \in KernelPoints
    BY DEF TypeOK, KernelPoints
  <2> QED BY <2>1, <2>2, <2>3 DEF TypeOK
<1>2. CallOK' /\ AssertsThatHold'
  BY DEF CallOK, Sources, SndPoints, AssertsThatHold
<1>3. FieldsAgree' /\ CallerState' /\ PendingOnlyInCall'
  BY DEF FieldsAgree, CallerState, PendingOnlyInCall, AllIdle, SndPoints, TypeOK
<1>4. NoSendCycle'
  BY NoCycleShrink
<1> QED BY <1>1, <1>2, <1>3, <1>4

\* The asserts after an interrupt has been taken (position 4 of RECEIVE).
LEMMA RcvIntAssertInv == ASSUME IInv, RcvIntAssert PROVE IInv'
<1> USE ConstantsAssumption DEF IInv, RcvIntAssert
<1>1. CASE Halt("assert_4")
  BY <1>1, HaltInv DEF Stops
<1>2. CASE kpc' = "user" /\ kcall' = NoCall /\ UNCHANGED <<procVars, halted>>
  <2> USE <1>2 DEF procVars
  <2>1. TypeOK' /\ CallOK' /\ AssertsThatHold'
    BY DEF TypeOK, KernelPoints, NoCall, CallOK, SndPoints, AssertsThatHold
  <2>2. FieldsAgree' /\ CallerState' /\ PendingOnlyInCall'
    BY DEF FieldsAgree, CallerState, PendingOnlyInCall, SndPoints
  <2>3. NoSendCycle'
    BY NoCycleShrink
  <2> QED BY <2>1, <2>2, <2>3
<1> QED BY <1>1, <1>2

\* Taking the message of a queued sender unblocks that sender only.
LEMMA TakeFromInv ==
    ASSUME IInv, halted = "no", kpc = "rcv_scan", NEW x \in Procs,
           SendingTo(x, kcall.who), TakeFrom(kcall.who, x)
    PROVE  IInv'
<1> USE ConstantsAssumption DEF IInv, TakeFrom, SendingTo
<1>0. kcall.who \in Procs
  BY DEF CallOK
<1>1. q_pending_proc' \in [Procs -> Procs \cup {NULL}]
  BY <1>0, UnlinkedType DEF TypeOK
<1>2. TypeOK' /\ CallOK' /\ AssertsThatHold'
  BY <1>0, <1>1 DEF TypeOK, KernelPoints, NoCall, CallOK, SndPoints, AssertsThatHold
<1>3. FieldsAgree' /\ CallerState' /\ PendingOnlyInCall'
  BY <1>0 DEF FieldsAgree, CallerState, PendingOnlyInCall, SndPoints, TypeOK
<1>4. NoSendCycle'
  <2>1. \A y \in Procs : SENDING \in proc_state'[y] =>
           SENDING \in proc_state[y] /\ pid_sendingto'[y] = pid_sendingto[y]
    BY DEF TypeOK
  <2> QED BY <2>1, NoCycleShrink
<1> QED BY <1>2, <1>3, <1>4

\* A caller that finds nobody sending becomes RECEIVING.
LEMMA StartReceivingInv ==
    ASSUME IInv, halted = "no", kpc = "rcv_scan", StartReceiving(kcall.who)
    PROVE  IInv'
<1> USE ConstantsAssumption DEF IInv, StartReceiving
<1>0. kcall.who \in Procs /\ AllIdle(kcall.who)
  BY DEF CallOK, CallerState
<1>1. TypeOK' /\ CallOK' /\ AssertsThatHold'
  BY <1>0 DEF TypeOK, KernelPoints, CallOK, SndPoints, AssertsThatHold, Sources
<1>2. FieldsAgree' /\ CallerState' /\ PendingOnlyInCall'
  BY <1>0 DEF FieldsAgree, CallerState, PendingOnlyInCall, SndPoints, TypeOK, AllIdle
<1>3. NoSendCycle'
  <2>1. \A y \in Procs : SENDING \in proc_state'[y] =>
           SENDING \in proc_state[y] /\ pid_sendingto'[y] = pid_sendingto[y]
    BY <1>0 DEF TypeOK
  <2> QED BY <2>1, NoCycleShrink
<1> QED BY <1>1, <1>2, <1>3

\* The scan for a sender; the asserts of position 6 hold.
LEMMA RcvScanInv == ASSUME IInv, RcvScan PROVE IInv'
<1> USE ConstantsAssumption DEF RcvScan
<1> DEFINE p == kcall.who
<1>0. p \in Procs /\ kcall.peer \in Sources(p) /\ AllIdle(p)
  BY DEF IInv, CallOK, CallerState
<1>1. CASE kcall.peer = ANY /\ ScanAny(p)
  <2>1. CASE Halt("assert_5")
    BY <2>1, HaltInv DEF Stops
  <2>2. CASE StartReceiving(p)
    BY <2>2, StartReceivingInv
  <2>3. CASE /\ q_pending_proc[p] # NULL /\ SendingTo(q_pending_proc[p], p)
             /\ TakeFrom(p, q_pending_proc[p])
    <3>1. q_pending_proc[p] \in Procs
      BY <1>0, <2>3 DEF IInv, TypeOK
    <3> QED BY <2>3, <3>1, TakeFromInv
  <2> QED BY <1>1, <2>1, <2>2, <2>3 DEF ScanAny
<1>2. CASE kcall.peer \in Procs /\ ScanProc(p, kcall.peer)
  <2>1. CASE Halt("queue_assert") \/ Halt("hang")
    BY <2>1, HaltInv DEF Stops
  <2>2. CASE StartReceiving(p)
    BY <2>2, StartReceivingInv
  <2>3. CASE SendingTo(kcall.peer, p) /\ TakeFrom(p, kcall.peer)
    BY <1>2, <2>3, TakeFromInv
  <2>4. SendsTo(kcall.peer, p) => SendingTo(kcall.peer, p)
    BY <1>0, <1>2 DEF IInv, FieldsAgree, TypeOK, SendsTo, SendingTo
  <2> QED BY <1>0, <1>2, <2>1, <2>2, <2>3, <2>4 DEF ScanProc
<1>3. CASE kcall.peer = INTERRUPT /\ ScanInterrupt(p)
  <2>1. CASE Halt("oob")
    BY <2>1, HaltInv DEF Stops
  <2>2. CASE StartReceiving(p)
    BY <2>2, StartReceivingInv
  <2> QED BY <1>3, <2>1, <2>2 DEF ScanInterrupt
<1> QED BY <1>1, <1>2, <1>3

\* From here on an interrupt can find the caller waiting.
LEMMA RcvFromInv == ASSUME IInv, RcvFrom PROVE IInv'
<1> USE ConstantsAssumption DEF IInv, RcvFrom
<1>0. /\ kcall.who \in Procs /\ kcall.peer \in Sources(kcall.who)
      /\ proc_state[kcall.who] = {RECEIVING}
  BY DEF CallOK, CallerState
<1>1. TypeOK' /\ CallOK' /\ AssertsThatHold'
  BY <1>0 DEF TypeOK, KernelPoints, CallOK, SndPoints, AssertsThatHold, Sources
<1>2. FieldsAgree' /\ CallerState' /\ PendingOnlyInCall'
  BY <1>0 DEF FieldsAgree, CallerState, PendingOnlyInCall, SndPoints, TypeOK, Sources
<1>3. NoSendCycle'
  BY NoCycleShrink
<1> QED BY <1>1, <1>2, <1>3

\* The asserts of position 8 stop a caller that would sleep through an interrupt.
LEMMA RcvDoneInv == ASSUME IInv, RcvDone PROVE IInv'
<1> USE ConstantsAssumption DEF IInv, RcvDone
<1>1. CASE Halt("assert_8")
  BY <1>1, HaltInv DEF Stops
<1>2. CASE /\ ~has_int_msg[kcall.who]
           /\ kpc' = "user" /\ kcall' = NoCall /\ UNCHANGED <<procVars, halted>>
  <2> USE <1>2 DEF procVars
  <2>1. TypeOK' /\ CallOK' /\ AssertsThatHold'
    BY DEF TypeOK, KernelPoints, NoCall, CallOK, SndPoints, AssertsThatHold
  <2>2. FieldsAgree' /\ CallerState' /\ PendingOnlyInCall'
    BY DEF FieldsAgree, CallerState, PendingOnlyInCall, SndPoints
  <2>3. NoSendCycle'
    BY NoCycleShrink
  <2> QED BY <2>1, <2>2, <2>3
<1> QED BY <1>1, <1>2

-----------------------------------------------------------------------------
\* A notification, at any moment; the asserts of position 9 hold.
LEMMA HwIntInv == ASSUME IInv, NEW t \in IrqTasks, HwInt(t) PROVE IInv'
<1> USE ConstantsAssumption DEF IInv
<1>0. t \in Procs
  OBVIOUS
<1>1. CASE RECEIVING \in proc_state[t] /\ pid_recvingfrom[t] \in {INTERRUPT, ANY}
  <2>1. proc_state[t] = {RECEIVING} /\ pid_sendingto[t] = NO_TASK
    BY <1>0, <1>1 DEF FieldsAgree, TypeOK
  <2>2. /\ \E h \in HwIntHeaders(t) : msg' = [msg EXCEPT ![t] = h]
        /\ pending_msg' = [pending_msg EXCEPT ![t] = FALSE]
        /\ has_int_msg' = [has_int_msg EXCEPT ![t] = FALSE]
        /\ proc_state' = [proc_state EXCEPT ![t] = @ \ {RECEIVING}]
        /\ pid_recvingfrom' = [pid_recvingfrom EXCEPT ![t] = NO_TASK]
        /\ UNCHANGED <<q_pending_proc, pid_sendingto, kpc, kcall, halted>>
    BY <1>1, <2>1 DEF HwInt
  <2>3. HwIntHeaders(t) \subseteq Messages
    BY <1>0 DEF HwIntHeaders, HwIntMsg, MsgOf, Messages, TypeOK
  <2>4. TypeOK'
    BY <1>0, <2>2, <2>3 DEF TypeOK
  <2>5. CallOK' /\ AssertsThatHold'
    BY <2>2 DEF CallOK, AssertsThatHold, Sources
  <2>6. FieldsAgree' /\ PendingOnlyInCall'
    BY <1>0, <2>1, <2>2 DEF FieldsAgree, PendingOnlyInCall, TypeOK
  <2>7. CallerState'
    BY <1>0, <1>1, <2>1, <2>2 DEF CallerState, CallOK, TypeOK, AllIdle, SndPoints
  <2>8. NoSendCycle'
    <3>1. \A y \in Procs : SENDING \in proc_state'[y] =>
             SENDING \in proc_state[y] /\ pid_sendingto'[y] = pid_sendingto[y]
      BY <2>2 DEF TypeOK
    <3> QED BY <3>1, NoCycleShrink
  <2> QED BY <2>4, <2>5, <2>6, <2>7, <2>8
<1>2. CASE ~(RECEIVING \in proc_state[t] /\ pid_recvingfrom[t] \in {INTERRUPT, ANY})
  <2> USE <1>2 DEF HwInt
  <2>1. TypeOK' /\ CallOK' /\ AssertsThatHold'
    <3>1. TypeOK'
      BY DEF TypeOK
    <3>2. CallOK' /\ AssertsThatHold'
      BY DEF CallOK, AssertsThatHold, Sources
    <3> QED BY <3>1, <3>2
  <2>2. FieldsAgree' /\ CallerState'
    BY DEF FieldsAgree, CallerState, AllIdle
  <2>3. PendingOnlyInCall'
    BY DEF PendingOnlyInCall, TypeOK
  <2>4. NoSendCycle'
    BY NoCycleShrink
  <2> QED BY <2>1, <2>2, <2>3, <2>4
<1> QED BY <1>1, <1>2

\* Every step, of a process, of the kernel or of an interrupt handler, preserves
\* the invariant.
LEMMA NextInv == IInv /\ [Next]_vars => IInv'
<1> SUFFICES ASSUME IInv, [Next]_vars PROVE IInv'
  OBVIOUS
<1>1. ASSUME NEW p \in Procs, NEW d \in Procs, NEW b \in Bodies \ {HW_INT},
             SysSend(p, d, b)
      PROVE  IInv'
  BY <1>1, SysSendInv
<1>2. ASSUME NEW p \in Procs, NEW s \in Sources(p), SysReceive(p, s) PROVE IInv'
  BY <1>2, SysReceiveInv
<1>3. CASE KernelStep
  BY <1>3, SndAssertInv, SndCopyInv, SndNullInv, SndClearInv, RcvIntAssertInv,
     RcvScanInv, RcvFromInv, RcvDoneInv DEF KernelStep
<1>4. ASSUME NEW t \in IrqTasks, HwInt(t) PROVE IInv'
  BY <1>4, HwIntInv
<1>5. CASE UNCHANGED vars
  <2> USE <1>5 DEF vars, procVars, IInv
  <2>1. TypeOK' /\ CallOK' /\ FieldsAgree' /\ CallerState' /\ AssertsThatHold' /\ PendingOnlyInCall'
    BY DEF TypeOK, CallOK, FieldsAgree, CallerState, AssertsThatHold,
           PendingOnlyInCall, AllIdle, Sources
  <2>2. NoSendCycle'
    BY NoCycleShrink
  <2> QED BY <2>1, <2>2
<1> QED BY <1>1, <1>2, <1>3, <1>4, <1>5 DEF Next, Spin

\* The invariant holds in every behaviour of the kernel.
LEMMA AlwaysInv == Spec => []IInv
<1> QED BY InitInv, NextInv, PTL DEF Spec

-----------------------------------------------------------------------------
(* Theorems *)

\* Every field of every process keeps its type, whatever system calls are made
\* and wherever an interrupt cuts them.
THEOREM TypeCorrect == Spec => []TypeOK
<1>1. IInv => TypeOK
  BY DEF IInv
<1> QED BY <1>1, AlwaysInv, PTL

\* proc_state, pid_sendingto, pid_recvingfrom and pending_msg always agree, for
\* any number of processes and interrupt tasks.
THEOREM FieldsAlwaysAgree == Spec => []FieldsAgree
<1>1. IInv => FieldsAgree
  BY DEF IInv
<1> QED BY <1>1, AlwaysInv, PTL

\* check_deadlock is enough: no set of processes, however large, ever waits in a
\* circle of SENDs.
THEOREM SendsNeverCycle == Spec => []NoSendCycle
<1>1. IInv => NoSendCycle
  BY DEF IInv
<1> QED BY <1>1, AlwaysInv, PTL

\* assert_multiple never stops the system at positions 2, 6 and 9.
THEOREM AssertsHold == Spec => []AssertsThatHold
<1>1. IInv => AssertsThatHold
  BY DEF IInv
<1> QED BY <1>1, AlwaysInv, PTL

\* A task never sleeps waiting for an interrupt that hw_int_notification has
\* already recorded.
THEOREM InterruptsNotMissed == Spec => []NoMissedInterrupt
<1>1. IInv => NoMissedInterrupt
  BY ConstantsAssumption DEF IInv, PendingOnlyInCall, NoMissedInterrupt
<1> QED BY <1>1, AlwaysInv, PTL

-----------------------------------------------------------------------------
(* What is under way: the invariant that delivery and the refinement need *)

\* A process that sends, queued or not, is the source of its message.
SourceIsSender ==
    /\ \A p \in Procs : SENDING \in proc_state[p] => msg[p].source = p
    /\ kpc \in SndPoints => msg[kcall.who].source = kcall.who

\* While SEND hands a message over, only a notification may end the receiver's
\* wait; as long as it has not, the receiver waits for this sender and, after
\* the copy, has its message.
Handover ==
    kpc \in SndPoints =>
        IF RECEIVING \in proc_state[kcall.peer]
        THEN /\ pid_recvingfrom[kcall.peer] \in {kcall.who, ANY}
             /\ kpc \in {"snd_null", "snd_clear"} => msg[kcall.peer] = msg[kcall.who]
        ELSE kcall.peer \in IrqTasks

\* Interrupts are recorded for interrupt tasks only.
OnlyIrqTasks == \A p \in Procs : has_int_msg[p] => p \in IrqTasks

DInv == IInv /\ SourceIsSender /\ Handover /\ OnlyIrqTasks

-----------------------------------------------------------------------------
(* The invariant *)

\* No message is under way at first.
LEMMA InitDInv == Init => DInv
BY InitInv DEF Init, DInv, SourceIsSender, Handover, OnlyIrqTasks, SndPoints

\* The steps of SEND keep the invariant.
LEMMA SysSendDInv ==
    ASSUME DInv, IInv', NEW p \in Procs, NEW d \in Procs, NEW b \in Bodies, SysSend(p, d, b)
    PROVE  DInv'
<1> USE ConstantsAssumption DEF DInv, SysSend, CanCall
<1>1. SourceIsSender'
  BY DEF SourceIsSender, SndPoints, MsgOf, IInv, TypeOK, Halt, procVars
<1>2. Handover'
  BY DEF Handover, SndPoints, SendMatches, Halt, procVars
<1>3. OnlyIrqTasks'
  BY DEF OnlyIrqTasks, Halt, procVars
<1> QED BY <1>1, <1>2, <1>3

\* So do the steps inside a system call.
LEMMA KernelDInv == ASSUME DInv, IInv', KernelStep PROVE DInv'
<1> USE ConstantsAssumption DEF DInv
<1>0. IInv /\ TypeOK /\ FieldsAgree /\ CallOK /\ CallerState
  BY DEF IInv
<1>1. CASE SndAssert
  BY <1>1 DEF SndAssert, Halt, procVars, SourceIsSender, Handover, OnlyIrqTasks, SndPoints
<1>2. CASE SndCopy
  <2>0. kcall.who \in Procs /\ kcall.peer \in Procs /\ kcall.who # kcall.peer
    BY <1>0, <1>2 DEF SndCopy, CallOK, Sources, SndPoints
  <2>1. SENDING \notin proc_state[kcall.peer] /\ (RECEIVING \in proc_state[kcall.peer] => pending_msg[kcall.peer])
    BY <1>0, <1>2, <2>0 DEF SndCopy, CallerState, FieldsAgree, SndPoints
  <2>2. SourceIsSender'
    BY <1>0, <1>2, <2>0, <2>1 DEF SndCopy, SourceIsSender, SndPoints, TypeOK
  <2>3. Handover' /\ OnlyIrqTasks'
    BY <1>0, <1>2, <2>0, <2>1 DEF SndCopy, Handover, OnlyIrqTasks, SndPoints, TypeOK
  <2> QED BY <2>2, <2>3
<1>3. CASE SndNull
  BY <1>3 DEF SndNull, SourceIsSender, Handover, OnlyIrqTasks, SndPoints
<1>4. CASE SndClear
  <2>1. SourceIsSender'
    BY <1>0, <1>4 DEF SndClear, Halt, procVars, SourceIsSender, SndPoints, TypeOK
  <2>2. Handover' /\ OnlyIrqTasks'
    BY <1>4 DEF SndClear, Halt, procVars, Handover, OnlyIrqTasks, SndPoints
  <2> QED BY <2>1, <2>2
<1>5. CASE RcvIntAssert
  BY <1>5 DEF RcvIntAssert, Halt, procVars, SourceIsSender, Handover, OnlyIrqTasks, SndPoints
<1>6. CASE RcvScan
  <2>0. kcall.who \in Procs /\ AllIdle(kcall.who)
    BY <1>0, <1>6 DEF RcvScan, CallOK, CallerState
  <2>1. ASSUME NEW x \in Procs, TakeFrom(kcall.who, x) PROVE DInv'
    <3>1. SourceIsSender'
      BY <1>0, <2>0, <2>1 DEF TakeFrom, SourceIsSender, SndPoints, TypeOK, AllIdle
    <3>2. Handover' /\ OnlyIrqTasks'
      BY <2>1 DEF TakeFrom, Handover, OnlyIrqTasks, SndPoints
    <3> QED BY <3>1, <3>2
  <2>2. CASE StartReceiving(kcall.who)
    <3>1. SourceIsSender'
      BY <1>0, <2>0, <2>2 DEF StartReceiving, SourceIsSender, SndPoints, TypeOK
    <3>2. Handover' /\ OnlyIrqTasks'
      BY <2>2 DEF StartReceiving, Handover, OnlyIrqTasks, SndPoints
    <3> QED BY <3>1, <3>2
  <2>3. CASE \E why \in Stops : Halt(why)
    BY <2>3 DEF Halt, procVars, SourceIsSender, Handover, OnlyIrqTasks
  <2>4. q_pending_proc[kcall.who] = NULL \/ q_pending_proc[kcall.who] \in Procs
    BY <1>0, <2>0 DEF TypeOK
  <2> QED BY <1>6, <2>1, <2>2, <2>3, <2>4 DEF RcvScan, ScanAny, ScanProc, ScanInterrupt, Stops
<1>7. CASE RcvFrom
  BY <1>7 DEF RcvFrom, SourceIsSender, Handover, OnlyIrqTasks, SndPoints
<1>8. CASE RcvDone
  BY <1>8 DEF RcvDone, Halt, procVars, SourceIsSender, Handover, OnlyIrqTasks, SndPoints
<1> QED BY <1>1, <1>2, <1>3, <1>4, <1>5, <1>6, <1>7, <1>8 DEF KernelStep

\* So does the entry of RECEIVE.
LEMMA SysReceiveDInv ==
    ASSUME DInv, IInv', NEW p \in Procs, NEW s \in Sources(p), SysReceive(p, s)
    PROVE  DInv'
<1> USE ConstantsAssumption DEF DInv, SysReceive, CanCall
<1>1. SourceIsSender'
  BY DEF SourceIsSender, SndPoints, IInv, TypeOK
<1>2. Handover'
  BY DEF Handover, SndPoints
<1>3. OnlyIrqTasks'
  BY DEF OnlyIrqTasks, IInv, TypeOK
<1> QED BY <1>1, <1>2, <1>3

\* A notification may end the wait of a task that a message is being handed to.
LEMMA HwIntDInv == ASSUME DInv, IInv', NEW t \in IrqTasks, HwInt(t) PROVE DInv'
<1> USE ConstantsAssumption DEF DInv
<1>0. t \in Procs /\ TypeOK /\ FieldsAgree /\ CallOK /\ CallerState
  BY DEF IInv
<1>1. CASE RECEIVING \in proc_state[t] /\ pid_recvingfrom[t] \in {INTERRUPT, ANY}
  <2>1. proc_state[t] = {RECEIVING} /\ pid_sendingto[t] = NO_TASK
    BY <1>0, <1>1 DEF FieldsAgree, TypeOK
  <2>2. PICK h \in HwIntHeaders(t) :
           /\ msg' = [msg EXCEPT ![t] = h]
           /\ has_int_msg' = [has_int_msg EXCEPT ![t] = FALSE]
           /\ proc_state' = [proc_state EXCEPT ![t] = @ \ {RECEIVING}]
           /\ pid_recvingfrom' = [pid_recvingfrom EXCEPT ![t] = NO_TASK]
           /\ UNCHANGED <<kpc, kcall>>
    BY <1>1, <2>1 DEF HwInt
  <2>3. kpc \in SndPoints => kcall.who # t /\ kcall.who \in Procs /\ kcall.peer \in Procs
    BY <1>0, <1>1 DEF CallerState, AllIdle, CallOK, SndPoints
  <2>4. SourceIsSender'
    BY <1>0, <2>1, <2>2, <2>3 DEF SourceIsSender, TypeOK
  <2>5. Handover'
    BY <1>0, <2>1, <2>2, <2>3 DEF Handover, TypeOK, SndPoints
  <2>6. OnlyIrqTasks'
    BY <1>0, <2>2 DEF OnlyIrqTasks, TypeOK
  <2> QED BY <2>4, <2>5, <2>6
<1>2. CASE ~(RECEIVING \in proc_state[t] /\ pid_recvingfrom[t] \in {INTERRUPT, ANY})
  <2> USE <1>2 DEF HwInt
  <2>1. SourceIsSender' /\ Handover'
    BY DEF SourceIsSender, Handover
  <2>2. OnlyIrqTasks'
    BY <1>0 DEF OnlyIrqTasks, TypeOK
  <2> QED BY <2>1, <2>2
<1> QED BY <1>1, <1>2

\* Every step keeps the invariant.
LEMMA NextDInv == DInv /\ [Next]_vars => DInv'
<1> SUFFICES ASSUME DInv, [Next]_vars PROVE DInv'
  OBVIOUS
<1>0. IInv'
  BY NextInv DEF DInv
<1>1. ASSUME NEW p \in Procs, NEW d \in Procs, NEW b \in Bodies \ {HW_INT},
             SysSend(p, d, b)
      PROVE  DInv'
  BY <1>0, <1>1, SysSendDInv
<1>2. ASSUME NEW p \in Procs, NEW s \in Sources(p), SysReceive(p, s) PROVE DInv'
  BY <1>0, <1>2, SysReceiveDInv
<1>3. CASE KernelStep
  BY <1>0, <1>3, KernelDInv
<1>4. ASSUME NEW t \in IrqTasks, HwInt(t) PROVE DInv'
  BY <1>0, <1>4, HwIntDInv
<1>5. CASE UNCHANGED vars
  BY <1>0, <1>5 DEF vars, procVars, DInv, SourceIsSender, Handover, OnlyIrqTasks
<1> QED BY <1>1, <1>2, <1>3, <1>4, <1>5 DEF Next, Spin

\* The invariant holds in every behaviour of the kernel.
LEMMA AlwaysDInv == Spec => []DInv
<1> QED BY InitDInv, NextDInv, PTL DEF Spec

-----------------------------------------------------------------------------
(* Delivery *)

\* Only a RECEIVE that takes the message ends a SEND that had to queue.
LEMMA QueuedDelivery ==
    ASSUME DInv, [Next]_vars, NEW p \in Procs,
           SENDING \in proc_state[p], SENDING \notin proc_state'[p]
    PROVE  msg'[pid_sendingto[p]] = MsgOf(p, msg[p].body)
<1> USE ConstantsAssumption
<1>0. TypeOK /\ FieldsAgree /\ CallOK /\ CallerState /\ msg[p].source = p
  BY DEF DInv, IInv, SourceIsSender
<1>1. proc_state \in [Procs -> SUBSET {SENDING, RECEIVING}] /\ proc_state' # proc_state
  BY <1>0 DEF TypeOK
<1>2. CASE RcvScan
  <2>0. kcall.who \in Procs
    BY <1>0, <1>2 DEF RcvScan, CallOK
  <2>1. ~StartReceiving(kcall.who)
    BY <1>0, <1>1, <2>0 DEF StartReceiving
  <2>2. \A why : ~Halt(why)
    BY <1>1 DEF Halt, procVars
  <2>3. PICK x : TakeFrom(kcall.who, x) /\ SendingTo(x, kcall.who)
    BY <1>2, <2>1, <2>2 DEF RcvScan, ScanAny, ScanProc, ScanInterrupt
  <2>4. x = p
    BY <1>1, <2>3 DEF TakeFrom
  <2>5. msg'[kcall.who] = msg[p] /\ pid_sendingto[p] = kcall.who
    BY <1>0, <2>0, <2>3, <2>4 DEF TakeFrom, SendingTo, TypeOK
  <2>6. msg[p] = MsgOf(p, msg[p].body)
    BY <1>0 DEF TypeOK, Messages, MsgOf
  <2> QED BY <2>5, <2>6
<1>3. CASE ~RcvScan
  <2>1. ~SndAssert /\ ~SndCopy /\ ~SndNull /\ ~RcvIntAssert /\ ~RcvFrom /\ ~RcvDone /\ ~Spin
    BY <1>1 DEF SndAssert, SndCopy, SndNull, RcvIntAssert, RcvFrom, RcvDone, Spin, Halt, procVars, vars
  <2>2. ~SndClear
    BY <1>1 DEF SndClear, Halt, procVars
  <2>3. \A t \in IrqTasks : ~HwInt(t)
    BY <1>1 DEF HwInt, Halt, procVars
  <2>4. \A q, d \in Procs : \A b \in Bodies : ~SysSend(q, d, b)
    BY <1>1 DEF SysSend, Halt, procVars
  <2>5. \A q \in Procs : \A s \in Sources(q) : ~SysReceive(q, s)
    BY <1>1 DEF SysReceive
  <2> QED BY <1>1, <1>3, <2>1, <2>2, <2>3, <2>4, <2>5 DEF Next, KernelStep, vars, procVars
<1> QED BY <1>2, <1>3

\* A SEND that found its receiver waiting ends with SndClear.
LEMMA HandoverEnds ==
    ASSUME DInv, [Next]_vars, kpc = "snd_clear", kpc' = "user"
    PROVE  SndClear /\ UNCHANGED msg
<1>1. SndClear
  BY DEF Next, KernelStep, vars, procVars, SndAssert, SndCopy, SndNull, SndClear,
         RcvIntAssert, RcvScan, RcvFrom, RcvDone, HwInt, Halt, Spin, SysSend, SysReceive, CanCall
<1> QED BY <1>1 DEF SndClear, Halt, procVars

\* A message that was accepted arrives: the buffer of the process it was sent to
\* holds it when SEND is over, for queued senders and for all receivers that
\* are not notified of interrupts.
THEOREM SendsDeliver == Spec => SendDelivers
<1>1. ASSUME DInv, [Next]_vars, NEW p \in Procs,
             kpc = "snd_clear", kpc' = "user", kcall.who = p, kcall.peer \notin IrqTasks
      PROVE  msg'[kcall.peer] = MsgOf(p, msg[p].body)
  <2>1. msg[kcall.peer] = msg[p] /\ msg[p].source = p
    BY <1>1 DEF DInv, Handover, SourceIsSender, SndPoints
  <2>2. msg[p] = MsgOf(p, msg[p].body)
    BY <1>1, <2>1 DEF DInv, IInv, TypeOK, Messages, MsgOf
  <2> QED BY <1>1, <2>1, <2>2, HandoverEnds
<1>2. DInv /\ [Next]_vars =>
        [\A p \in Procs :
          /\ SENDING \in proc_state[p] /\ SENDING \notin proc_state'[p]
               => msg'[pid_sendingto[p]] = MsgOf(p, msg[p].body)
          /\ kpc = "snd_clear" /\ kpc' = "user" /\ kcall.who = p
               /\ kcall.peer \notin IrqTasks
               => msg'[kcall.peer] = MsgOf(p, msg[p].body)]_vars
  BY <1>1, QueuedDelivery
<1> QED BY <1>2, AlwaysDInv, PTL DEF Spec, SendDelivers

\* A RECEIVE that names a process ends with a message of that process: an
\* interrupt never takes its place.
THEOREM ReceivesFromNamed == Spec => ReceiveFromNamed
<1>1. ASSUME DInv, [Next]_vars, NEW p \in Procs,
             RECEIVING \in proc_state[p], RECEIVING \notin proc_state'[p],
             pid_recvingfrom[p] \in Procs
      PROVE  msg'[p].source = pid_recvingfrom[p]
  <2> USE ConstantsAssumption
  <2>0. TypeOK /\ FieldsAgree /\ CallOK /\ CallerState
    BY <1>1 DEF DInv, IInv
  <2>1. proc_state \in [Procs -> SUBSET {SENDING, RECEIVING}] /\ proc_state' # proc_state
    BY <1>1, <2>0 DEF TypeOK
  <2>2. CASE SndClear
    <3>1. kcall.peer = p /\ msg' = msg
      BY <1>1, <2>0, <2>1, <2>2 DEF SndClear, Halt, procVars
    <3>2. kpc = "snd_clear"
      BY <2>2 DEF SndClear
    <3>3. pid_recvingfrom[p] = kcall.who /\ msg[p] = msg[kcall.who] /\ msg[kcall.who].source = kcall.who
      BY <1>1, <3>1, <3>2 DEF DInv, Handover, SourceIsSender, SndPoints
    <3> QED BY <3>1, <3>3
  <2>3. CASE ~SndClear
    <3>1. ~SndAssert /\ ~SndCopy /\ ~SndNull /\ ~RcvIntAssert /\ ~RcvFrom /\ ~RcvDone /\ ~Spin
      BY <2>1 DEF SndAssert, SndCopy, SndNull, RcvIntAssert, RcvFrom, RcvDone, Spin, Halt, procVars, vars
    <3>2. ~RcvScan
      <4>1. \A x : ~TakeFrom(kcall.who, x)
        BY <1>1, <2>1 DEF TakeFrom
      <4>2. ~StartReceiving(kcall.who) /\ \A why : ~Halt(why)
        BY <1>1, <2>1 DEF StartReceiving, Halt, procVars
      <4> QED BY <4>1, <4>2 DEF RcvScan, ScanAny, ScanProc, ScanInterrupt
    <3>3. \A t \in IrqTasks : ~HwInt(t)
      BY <1>1, <2>1 DEF HwInt, Halt, procVars
    <3>4. \A q, d \in Procs : \A b \in Bodies : ~SysSend(q, d, b)
      BY <1>1, <2>1 DEF SysSend, Halt, procVars
    <3>5. \A q \in Procs : \A s \in Sources(q) : ~SysReceive(q, s)
      BY <2>1 DEF SysReceive
    <3> QED BY <1>1, <2>1, <2>3, <3>1, <3>2, <3>3, <3>4, <3>5 DEF Next, KernelStep, vars, procVars
  <2> QED BY <2>2, <2>3
<1>2. DInv /\ [Next]_vars =>
        [\A p \in Procs :
          /\ RECEIVING \in proc_state[p] /\ RECEIVING \notin proc_state'[p]
          /\ pid_recvingfrom[p] \in Procs
          => msg'[p].source = pid_recvingfrom[p]]_vars
  BY <1>1
<1> QED BY <1>2, AlwaysDInv, PTL DEF Spec, ReceiveFromNamed

-----------------------------------------------------------------------------
(* Refinement *)

\* What the mapping says of each process, without its CASE.
MappingFacts ==
    /\ offer = [p \in Procs |-> offer[p]] /\ box = [p \in Procs |-> box[p]]
    /\ \A p \in Procs :
         /\ SENDING \in proc_state[p] => offer[p] = R!Send(pid_sendingto[p])
         /\ HandsOver(p) => offer[p] = R!Send(kcall.peer)
         /\ BeginsReceive(p) => offer[p] = R!Receive(kcall.peer)
         /\ RECEIVING \in proc_state[p] /\ ~BeginsReceive(p)
              => offer[p] = R!Receive(pid_recvingfrom[p])
         /\ proc_state[p] = {} /\ ~HandsOver(p) /\ ~BeginsReceive(p) => offer[p] = R!None
         /\ box[p] = IF Receives(p) THEN R!Empty ELSE msg[p]

\* At most one of the cases of the mapping applies to a process.
LEMMA Mapping == DInv => MappingFacts
<1> SUFFICES ASSUME DInv PROVE MappingFacts
  OBVIOUS
<1> USE DEF DInv, IInv
<1>1. offer = [p \in Procs |-> offer[p]] /\ box = [p \in Procs |-> box[p]]
  BY DEF offer, box
<1>2. ASSUME NEW p \in Procs PROVE
         /\ SENDING \in proc_state[p] => offer[p] = R!Send(pid_sendingto[p])
         /\ HandsOver(p) => offer[p] = R!Send(kcall.peer)
         /\ BeginsReceive(p) => offer[p] = R!Receive(kcall.peer)
         /\ RECEIVING \in proc_state[p] /\ ~BeginsReceive(p)
              => offer[p] = R!Receive(pid_recvingfrom[p])
         /\ proc_state[p] = {} /\ ~HandsOver(p) /\ ~BeginsReceive(p) => offer[p] = R!None
  <2>1. /\ SENDING \in proc_state[p] =>
             RECEIVING \notin proc_state[p] /\ ~HandsOver(p) /\ ~BeginsReceive(p)
        /\ HandsOver(p) => proc_state[p] = {} /\ ~BeginsReceive(p)
    BY DEF FieldsAgree, CallerState, TypeOK, HandsOver, BeginsReceive, AllIdle, SndPoints
  <2> QED BY <2>1 DEF offer, R!Send, R!Receive, R!None
<1>3. \A p \in Procs : box[p] = IF Receives(p) THEN R!Empty ELSE msg[p]
  BY DEF box, R!Empty, MsgOf
<1> QED BY <1>1, <1>2, <1>3 DEF MappingFacts

\* The initial state maps to the initial state.
LEMMA InitMaps == Init => R!Init
<1> SUFFICES ASSUME Init PROVE R!Init
  OBVIOUS
<1>1. MappingFacts
  BY InitDInv, Mapping
<1>2. \A p \in Procs : ~Receives(p) /\ ~HandsOver(p) /\ ~BeginsReceive(p)
  BY DEF Init, Receives, HandsOver, BeginsReceive
<1>3. \A p \in Procs : offer[p] = R!None /\ box[p] = R!Message(p, HW_INT)
  BY <1>1, <1>2 DEF MappingFacts, Init, R!Message, MsgOf
<1>4. offer = [p \in Procs |-> R!None] /\ box = [p \in Procs |-> R!Message(p, HW_INT)]
  BY <1>1, <1>3 DEF MappingFacts
<1>5. ~stopped
  BY DEF Init, stopped
<1> QED BY <1>4, <1>5 DEF R!Init

\* Two functions on Procs that agree everywhere are equal.
LEMMA SameFunction ==
    ASSUME NEW f, NEW g, f = [p \in Procs |-> f[p]], g = [p \in Procs |-> g[p]],
           \A p \in Procs : f[p] = g[p]
    PROVE  f = g
<1>1. [p \in Procs |-> f[p]] = [p \in Procs |-> g[p]]
  OBVIOUS
<1> QED BY <1>1

\* A step that changes the offer and the box of nobody is a stutter.
LEMMA Stutters ==
    ASSUME MappingFacts, MappingFacts', stopped' = stopped,
           \A x \in Procs : offer'[x] = offer[x] /\ box'[x] = box[x]
    PROVE  UNCHANGED R!vars
<1>1. offer' = offer /\ box' = box
  BY SameFunction DEF MappingFacts
<1> QED BY <1>1 DEF R!vars

\* A failed assert or a panic stops the abstract system too.
LEMMA HaltMaps ==
    ASSUME DInv, NEW why \in Stops, why # "no", halted = "no", Halt(why)
    PROVE  R!Stop
<1>1. offer' = offer /\ box' = box
  BY DEF Halt, procVars, offer, box, Receives, HandsOver, BeginsReceive
<1> QED BY <1>1 DEF Halt, stopped, R!Stop

\* The entry of SEND is an offer, whether the receiver waits or not.
LEMMA SysSendMaps ==
    ASSUME DInv, MappingFacts, MappingFacts',
           NEW p \in Procs, NEW d \in Procs, NEW b \in Bodies \ {HW_INT}, SysSend(p, d, b)
    PROVE  R!OfferSend(p, d, b) \/ R!Stop
<1> USE ConstantsAssumption
<1>1. CASE \E why \in Stops \ {"no"} : Halt(why)
  BY <1>1, HaltMaps DEF SysSend, CanCall
<1>2. CASE ~\E why \in Stops \ {"no"} : Halt(why)
  <2>1. /\ halted = "no" /\ halted' = "no" /\ kpc = "user" /\ d # p
        /\ proc_state[p] = {}
        /\ msg' = [msg EXCEPT ![p] = MsgOf(p, b)]
        /\ pid_recvingfrom' = pid_recvingfrom
        /\ \/ /\ kpc' = "snd_assert" /\ kcall' = [who |-> p, peer |-> d]
              /\ UNCHANGED <<proc_state, pid_sendingto>>
           \/ /\ proc_state' = [proc_state EXCEPT ![p] = @ \cup {SENDING}]
              /\ pid_sendingto' = [pid_sendingto EXCEPT ![p] = d]
              /\ UNCHANGED <<kpc, kcall>>
    BY <1>2 DEF SysSend, CanCall, Stops
  <2>2. TypeOK
    BY DEF DInv, IInv
  <2>3. offer[p] = R!None /\ offer'[p] = R!Send(d) /\ box'[p] = R!Message(p, b)
    BY <2>1, <2>2 DEF MappingFacts, TypeOK, HandsOver, BeginsReceive, Receives, R!Message, MsgOf
  <2>4. ASSUME NEW x \in Procs, x # p PROVE offer'[x] = offer[x] /\ box'[x] = box[x]
    BY <2>1, <2>2, <2>4 DEF MappingFacts, TypeOK, HandsOver, BeginsReceive, Receives
  <2>5. offer' = [offer EXCEPT ![p] = R!Send(d)]
    BY <2>3, <2>4, SameFunction DEF MappingFacts
  <2>6. box' = [box EXCEPT ![p] = R!Message(p, b)]
    BY <2>3, <2>4, SameFunction DEF MappingFacts
  <2>7. R!OfferSend(p, d, b)
    BY <2>1, <2>3, <2>5, <2>6 DEF R!OfferSend, stopped
  <2> QED BY <2>7
<1> QED BY <1>1, <1>2

\* The entry of RECEIVE is an offer, or takes a recorded interrupt at once.
LEMMA SysReceiveMaps ==
    ASSUME DInv, MappingFacts, MappingFacts',
           NEW p \in Procs, NEW s \in Sources(p), SysReceive(p, s)
    PROVE  R!OfferReceive(p, s) \/ (R!Notify(p) /\ box'[p] = R!HwIntMsg)
<1> USE ConstantsAssumption
<1>0. TypeOK /\ s # p /\ s \in Procs \cup {ANY, INTERRUPT}
  BY DEF DInv, IInv, Sources
<1>1. /\ halted = "no" /\ halted' = "no" /\ kpc = "user" /\ proc_state[p] = {}
      /\ kcall' = [who |-> p, peer |-> s]
      /\ UNCHANGED <<proc_state, pid_recvingfrom, pid_sendingto>>
      /\ \A x \in Procs \ {p} : msg'[x] = msg[x]
      /\ IF has_int_msg[p] /\ s \in {ANY, INTERRUPT}
         THEN kpc' = "rcv_int" /\ msg' = [msg EXCEPT ![p] = HwIntMsg]
         ELSE kpc' = "rcv_scan"
  BY <1>0 DEF SysReceive, CanCall, TypeOK
<1>2. ~stopped /\ stopped' = stopped
  BY <1>1 DEF stopped
<1>3. offer[p] = R!None
  BY <1>1 DEF MappingFacts, HandsOver, BeginsReceive
<1>4. ASSUME NEW x \in Procs, x # p PROVE offer'[x] = offer[x] /\ box'[x] = box[x]
  BY <1>0, <1>1, <1>4 DEF MappingFacts, TypeOK, HandsOver, BeginsReceive, Receives
<1>5. CASE kpc' = "rcv_int"
  <2>1. p \in IrqTasks
    BY <1>1, <1>5 DEF DInv, OnlyIrqTasks
  <2>2. offer'[p] = R!None /\ box'[p] = R!HwIntMsg
    BY <1>0, <1>1, <1>5 DEF MappingFacts, TypeOK, HandsOver, BeginsReceive, Receives,
                            HwIntMsg, MsgOf, R!HwIntMsg, R!Message
  <2>3. offer' = [offer EXCEPT ![p] = R!None]
    BY <1>4, <2>2, SameFunction DEF MappingFacts
  <2>4. box' = [box EXCEPT ![p] = R!HwIntMsg]
    BY <1>4, <2>2, SameFunction DEF MappingFacts
  <2>5. R!Notify(p)
    BY <1>2, <1>3, <2>1, <2>3, <2>4 DEF R!Notify
  <2> QED BY <2>2, <2>5
<1>6. CASE kpc' = "rcv_scan"
  <2>1. offer'[p] = R!Receive(s) /\ box'[p] = R!Empty
    BY <1>1, <1>6 DEF MappingFacts, BeginsReceive, Receives
  <2>2. offer' = [offer EXCEPT ![p] = R!Receive(s)]
    BY <1>4, <2>1, SameFunction DEF MappingFacts
  <2>3. box' = [box EXCEPT ![p] = R!Empty]
    BY <1>4, <2>1, SameFunction DEF MappingFacts
  <2>4. R!OfferReceive(p, s)
    BY <1>0, <1>2, <1>3, <2>2, <2>3 DEF R!OfferReceive
  <2> QED BY <2>4
<1> QED BY <1>1, <1>5, <1>6

\* What the statements of a system call can be for the processes.
Moves == \/ \E p, d \in Procs : R!Meet(p, d)
         \/ \E p \in Procs, t \in IrqTasks : R!Overtaken(p, t)
         \/ R!Stop

\* A meeting happens when SEND clears the flags of the receiver; when a
\* notification has come first, the sender goes on alone.
LEMMA SndClearMaps ==
    ASSUME DInv, MappingFacts, MappingFacts', SndClear
    PROVE  Moves
<1> USE ConstantsAssumption
<1> DEFINE p == kcall.who
           d == kcall.peer
<1>0. TypeOK /\ FieldsAgree /\ CallOK /\ CallerState /\ Handover
  BY DEF DInv, IInv
<1>1. CASE Halt("assert_2")
  BY <1>1, HaltMaps DEF SndClear, Stops, Moves
<1>2. CASE ~Halt("assert_2")
  <2>1. /\ halted = "no" /\ halted' = "no" /\ kpc = "snd_clear" /\ kpc' = "user"
        /\ proc_state' = [proc_state EXCEPT ![d] = @ \ {RECEIVING}]
        /\ pid_recvingfrom' = [pid_recvingfrom EXCEPT ![d] = NO_TASK]
        /\ UNCHANGED <<pid_sendingto, msg>>
        /\ proc_state[p] = {} /\ proc_state[d] \ {RECEIVING} = {}
    BY <1>2 DEF SndClear, AllIdle
  <2>2. p \in Procs /\ d \in Procs /\ p # d /\ HandsOver(p)
    BY <1>0, <2>1 DEF CallOK, Sources, SndPoints, HandsOver
  <2>3. ~stopped /\ stopped' = stopped
    BY <2>1 DEF stopped
  <2>4. offer[p] = R!Send(d) /\ offer'[p] = R!None /\ offer'[d] = R!None
    BY <1>0, <2>1, <2>2 DEF MappingFacts, HandsOver, BeginsReceive, TypeOK
  <2>5. /\ box'[d] = msg[d] /\ box[p] = msg[p] /\ box'[p] = msg[p]
    BY <1>0, <2>1, <2>2 DEF MappingFacts, BeginsReceive, Receives, TypeOK
  <2>6. ASSUME NEW x \in Procs, x # p, x # d PROVE offer'[x] = offer[x] /\ box'[x] = box[x]
    BY <1>0, <2>1, <2>6 DEF MappingFacts, TypeOK, HandsOver, BeginsReceive, Receives
  <2>7. CASE RECEIVING \in proc_state[d]
    <3>1. pid_recvingfrom[d] \in {p, ANY} /\ msg[d] = msg[p]
      BY <1>0, <2>1, <2>7 DEF Handover, SndPoints
    <3>2. offer[d] \in {R!Receive(p), R!Receive(ANY)}
      BY <2>1, <2>2, <2>7, <3>1 DEF MappingFacts, BeginsReceive
    <3>3. offer' = [offer EXCEPT ![p] = R!None, ![d] = R!None]
      BY <2>2, <2>4, <2>6, SameFunction DEF MappingFacts
    <3>4. box' = [box EXCEPT ![d] = box[p]]
      BY <2>2, <2>5, <2>6, <3>1, SameFunction DEF MappingFacts
    <3>5. R!Meet(p, d)
      BY <2>3, <2>4, <3>2, <3>3, <3>4 DEF R!Meet
    <3> QED BY <2>2, <3>5 DEF Moves
  <2>8. CASE RECEIVING \notin proc_state[d]
    <3>1. d \in IrqTasks
      BY <1>0, <2>1, <2>8 DEF Handover, SndPoints
    <3>2. offer[d] = R!None /\ box[d] = msg[d]
      BY <1>0, <2>1, <2>2, <2>8 DEF MappingFacts, HandsOver, BeginsReceive, Receives, TypeOK
    <3>3. offer' = [offer EXCEPT ![p] = R!None]
      BY <2>2, <2>4, <2>6, <3>2, SameFunction DEF MappingFacts
    <3>4. box' = box
      BY <2>2, <2>5, <2>6, <3>2, SameFunction DEF MappingFacts
    <3>5. R!Overtaken(p, d)
      BY <2>3, <2>4, <3>1, <3>2, <3>3, <3>4 DEF R!Overtaken
    <3> QED BY <2>2, <3>1, <3>5 DEF Moves
  <2> QED BY <2>7, <2>8
<1> QED BY <1>1, <1>2

\* RECEIVE meets a queued sender when it takes its message.
LEMMA TakeFromMaps ==
    ASSUME DInv, MappingFacts, MappingFacts', halted = "no", kpc = "rcv_scan",
           NEW x \in Procs, kcall.peer \in {x, ANY},
           SendingTo(x, kcall.who), TakeFrom(kcall.who, x)
    PROVE  Moves
<1> USE ConstantsAssumption DEF TakeFrom, SendingTo
<1> DEFINE p == kcall.who
<1>0. TypeOK /\ p \in Procs /\ proc_state[p] = {} /\ p # x
  BY DEF DInv, IInv, CallOK, CallerState, AllIdle
<1>1. offer[x] = R!Send(p) /\ offer[p] \in {R!Receive(x), R!Receive(ANY)}
  BY <1>0 DEF MappingFacts, BeginsReceive
<1>2. offer'[x] = R!None /\ offer'[p] = R!None /\ box'[p] = msg[x] /\ box[x] = msg[x] /\ box'[x] = msg[x]
  BY <1>0 DEF MappingFacts, HandsOver, BeginsReceive, Receives, TypeOK
<1>3. ASSUME NEW y \in Procs, y # p, y # x PROVE offer'[y] = offer[y] /\ box'[y] = box[y]
  BY <1>0, <1>3 DEF MappingFacts, TypeOK, HandsOver, BeginsReceive, Receives
<1>4. offer' = [offer EXCEPT ![x] = R!None, ![p] = R!None]
  BY <1>0, <1>2, <1>3, SameFunction DEF MappingFacts
<1>5. box' = [box EXCEPT ![p] = box[x]]
  BY <1>0, <1>2, <1>3, SameFunction DEF MappingFacts
<1>6. ~stopped /\ stopped' = stopped
  BY DEF stopped
<1>7. R!Meet(x, p)
  BY <1>1, <1>4, <1>5, <1>6 DEF R!Meet
<1> QED BY <1>0, <1>7 DEF Moves

\* The steps in which SEND or RECEIVE only prepares what the next one shows to
\* other processes are stutters, unless an assert fails.
LEMMA KernelMaps ==
    ASSUME DInv, MappingFacts, MappingFacts', KernelStep
    PROVE  Moves \/ UNCHANGED R!vars
<1> USE ConstantsAssumption
<1>0. TypeOK /\ FieldsAgree /\ CallOK /\ CallerState
  BY DEF DInv, IInv
<1>1. CASE halted = "no" /\ \E why \in Stops \ {"no"} : Halt(why)
  BY <1>1, HaltMaps DEF Moves
<1>2. CASE SndAssert /\ kpc' = "snd_copy" /\ UNCHANGED <<procVars, kcall, halted>>
  <2>1. \A x \in Procs : offer'[x] = offer[x] /\ box'[x] = box[x]
    BY <1>0, <1>2 DEF SndAssert, procVars, MappingFacts, HandsOver, BeginsReceive, Receives, TypeOK
  <2> QED BY <1>2, <2>1, Stutters DEF stopped
<1>3. CASE SndCopy
  <2>0. kcall.who \in Procs /\ kcall.peer \in Procs /\ kcall.who # kcall.peer
    BY <1>0, <1>3 DEF SndCopy, CallOK, Sources, SndPoints
  <2>1. pending_msg[kcall.peer] => RECEIVING \in proc_state[kcall.peer]
    BY <1>0, <1>3, <2>0 DEF SndCopy, CallerState, FieldsAgree, SndPoints, TypeOK
  <2>2. \A x \in Procs : offer'[x] = offer[x]
    BY <1>0, <1>3 DEF SndCopy, MappingFacts, HandsOver, BeginsReceive, TypeOK
  <2>3. \A x \in Procs : box'[x] = box[x]
    BY <1>0, <1>3, <2>0, <2>1 DEF SndCopy, MappingFacts, BeginsReceive, Receives, TypeOK
  <2>4. stopped' = stopped
    BY <1>3 DEF SndCopy, stopped
  <2> QED BY <2>2, <2>3, <2>4, Stutters
<1>4. CASE SndNull
  <2>1. \A x \in Procs : offer'[x] = offer[x] /\ box'[x] = box[x]
    BY <1>0, <1>4 DEF SndNull, MappingFacts, HandsOver, BeginsReceive, Receives, TypeOK
  <2>2. stopped' = stopped
    BY <1>4 DEF SndNull, stopped
  <2> QED BY <2>1, <2>2, Stutters
<1>5. CASE (RcvIntAssert \/ RcvDone) /\ kpc' = "user" /\ UNCHANGED <<procVars, halted>>
  <2>1. kpc \in {"rcv_int", "rcv_done"}
    BY <1>5 DEF RcvIntAssert, RcvDone
  <2>2. \A x \in Procs : offer'[x] = offer[x] /\ box'[x] = box[x]
    BY <1>0, <1>5, <2>1 DEF procVars, MappingFacts, HandsOver, BeginsReceive, Receives, TypeOK
  <2> QED BY <1>5, <2>2, Stutters DEF stopped
<1>6. CASE RcvFrom
  <2>0. kcall.who \in Procs /\ proc_state[kcall.who] = {RECEIVING}
    BY <1>0, <1>6 DEF RcvFrom, CallOK, CallerState
  <2>1. \A x \in Procs : offer'[x] = offer[x] /\ box'[x] = box[x]
    BY <1>0, <1>6, <2>0 DEF RcvFrom, MappingFacts, HandsOver, BeginsReceive, Receives, TypeOK
  <2>2. stopped' = stopped
    BY <1>6 DEF RcvFrom, stopped
  <2> QED BY <2>1, <2>2, Stutters
<1>7. CASE RcvScan
  <2>0. kcall.who \in Procs /\ AllIdle(kcall.who) /\ halted = "no" /\ kpc = "rcv_scan"
    BY <1>0, <1>7 DEF RcvScan, CallOK, CallerState
  <2>1. CASE StartReceiving(kcall.who)
    <3>1. \A x \in Procs : offer'[x] = offer[x] /\ box'[x] = box[x]
      BY <1>0, <2>0, <2>1 DEF StartReceiving, MappingFacts, HandsOver, BeginsReceive, Receives, TypeOK
    <3>2. stopped' = stopped
      BY <2>1 DEF StartReceiving, stopped
    <3> QED BY <3>1, <3>2, Stutters
  <2>2. ASSUME NEW x \in Procs, kcall.peer \in {x, ANY},
               SendingTo(x, kcall.who), TakeFrom(kcall.who, x)
        PROVE  Moves
    BY <2>0, <2>2, TakeFromMaps
  <2>3. q_pending_proc[kcall.who] = NULL \/ q_pending_proc[kcall.who] \in Procs
    BY <1>0, <2>0 DEF TypeOK
  <2> QED BY <1>1, <1>7, <2>0, <2>1, <2>2, <2>3 DEF RcvScan, ScanAny, ScanProc, ScanInterrupt, Stops
<1>8. CASE SndClear
  BY <1>8, SndClearMaps
<1>9. SndAssert => halted = "no" /\ (Halt("assert_1") \/ (kpc' = "snd_copy" /\ UNCHANGED <<procVars, kcall, halted>>))
  BY DEF SndAssert
<1>10. RcvIntAssert => halted = "no" /\ (Halt("assert_4") \/ (kpc' = "user" /\ UNCHANGED <<procVars, halted>>))
  BY DEF RcvIntAssert
<1>11. RcvDone => halted = "no" /\ (Halt("assert_8") \/ (kpc' = "user" /\ UNCHANGED <<procVars, halted>>))
  BY DEF RcvDone
<1> QED BY <1>1, <1>2, <1>3, <1>4, <1>5, <1>6, <1>7, <1>8, <1>9, <1>10, <1>11 DEF KernelStep, Stops

\* A notification that finds the task waiting is one of the abstract system,
\* with the mix of headers an unfinished handover leaves; otherwise it is recorded.
LEMMA HwIntMaps ==
    ASSUME DInv, MappingFacts, MappingFacts', NEW t \in IrqTasks, HwInt(t)
    PROVE  \/ /\ R!Notify(t) /\ offer[t] \in {R!Receive(ANY), R!Receive(INTERRUPT)}
              /\ \/ box'[t] = R!HwIntMsg
                 \/ \E p \in R!Sent(t) :
                      /\ HandsOver(p)
                      /\ box'[t] = box[p] \/ box'[t] = [box[p] EXCEPT !.source = INTERRUPT]
           \/ UNCHANGED R!vars
<1> USE ConstantsAssumption
<1>0. t \in Procs /\ TypeOK /\ FieldsAgree /\ CallOK /\ CallerState /\ Handover
  BY DEF DInv, IInv
<1>1. CASE RECEIVING \in proc_state[t] /\ pid_recvingfrom[t] \in {INTERRUPT, ANY}
  <2>1. proc_state[t] = {RECEIVING} /\ pid_sendingto[t] = NO_TASK
    BY <1>0, <1>1 DEF FieldsAgree, TypeOK
  <2>2. PICK h \in HwIntHeaders(t) :
           /\ msg' = [msg EXCEPT ![t] = h]
           /\ proc_state' = [proc_state EXCEPT ![t] = @ \ {RECEIVING}]
           /\ pid_recvingfrom' = [pid_recvingfrom EXCEPT ![t] = NO_TASK]
           /\ halted = "no"
           /\ UNCHANGED <<pid_sendingto, kpc, kcall, halted>>
    BY <1>1, <2>1 DEF HwInt
  <2>3. ~BeginsReceive(t) /\ ~HandsOver(t)
    BY <1>0, <1>1 DEF BeginsReceive, HandsOver, CallerState, AllIdle, SndPoints
  <2>4. offer[t] \in {R!Receive(ANY), R!Receive(INTERRUPT)}
    BY <1>0, <1>1, <2>3 DEF MappingFacts
  <2>5. offer'[t] = R!None /\ box'[t] = h
    BY <1>0, <2>1, <2>2, <2>3 DEF MappingFacts, BeginsReceive, HandsOver, Receives, TypeOK
  <2>6. ASSUME NEW x \in Procs, x # t PROVE offer'[x] = offer[x] /\ box'[x] = box[x]
    BY <1>0, <2>2, <2>6 DEF MappingFacts, BeginsReceive, HandsOver, Receives, TypeOK
  <2>7. offer' = [offer EXCEPT ![t] = R!None]
    BY <2>5, <2>6, SameFunction DEF MappingFacts
  <2>8. box' = [box EXCEPT ![t] = h]
    BY <2>5, <2>6, SameFunction DEF MappingFacts
  <2>9. \/ h = R!HwIntMsg
        \/ \E p \in R!Sent(t) :
             HandsOver(p) /\ (h = box[p] \/ h = [box[p] EXCEPT !.source = INTERRUPT])
    <3>1. CASE h = HwIntMsg
      BY <3>1 DEF HwIntMsg, MsgOf, R!HwIntMsg, R!Message
    <3>2. CASE h # HwIntMsg
      <4>1. /\ kpc \in {"snd_null", "snd_clear"} /\ kcall.peer = t
            /\ h = msg[t] \/ h = [msg[t] EXCEPT !.source = INTERRUPT]
        BY <1>0, <1>1, <3>2 DEF HwIntHeaders, FieldsAgree, TypeOK
      <4>2. kcall.who \in Procs /\ kcall.who # t /\ proc_state[kcall.who] = {}
        BY <1>0, <4>1 DEF CallOK, CallerState, Sources, SndPoints, AllIdle
      <4>3. msg[t] = msg[kcall.who]
        BY <1>0, <1>1, <4>1 DEF Handover, SndPoints
      <4>4. offer[kcall.who] = R!Send(t) /\ box[kcall.who] = msg[kcall.who]
        BY <4>1, <4>2 DEF MappingFacts, HandsOver, BeginsReceive, Receives
      <4>5. kcall.who \in R!Sent(t) /\ HandsOver(kcall.who)
        BY <4>1, <4>2, <4>4 DEF R!Sent, HandsOver
      <4> QED BY <4>1, <4>3, <4>4, <4>5
    <3> QED BY <3>1, <3>2
  <2>10. ~stopped /\ stopped' = stopped
    BY <2>2 DEF stopped
  <2>11. R!Notify(t)
    BY <2>4, <2>7, <2>8, <2>9, <2>10 DEF R!Notify
  <2> QED BY <2>4, <2>5, <2>9, <2>11
<1>2. CASE ~(RECEIVING \in proc_state[t] /\ pid_recvingfrom[t] \in {INTERRUPT, ANY})
  <2>1. UNCHANGED <<proc_state, pid_recvingfrom, pid_sendingto, msg, kpc, kcall, halted>>
    BY <1>2 DEF HwInt
  <2>2. \A x \in Procs : offer'[x] = offer[x] /\ box'[x] = box[x]
    BY <1>0, <2>1 DEF MappingFacts, BeginsReceive, HandsOver, Receives, TypeOK
  <2>3. stopped' = stopped
    BY <2>1 DEF stopped
  <2> QED BY <2>2, <2>3, Stutters
<1> QED BY <1>1, <1>2

\* Every step of the kernel maps to a step of Rendezvous or to a stutter.
LEMMA NextMaps == DInv /\ MappingFacts /\ MappingFacts' /\ [Next]_vars => [R!Next]_(R!vars)
<1> SUFFICES ASSUME DInv, MappingFacts, MappingFacts', [Next]_vars
             PROVE  R!Next \/ UNCHANGED R!vars
  OBVIOUS
<1>1. ASSUME NEW p \in Procs, NEW d \in Procs, NEW b \in Bodies \ {HW_INT},
             SysSend(p, d, b)
      PROVE  R!Next
  BY <1>1, SysSendMaps DEF R!Next
<1>2. ASSUME NEW p \in Procs, NEW s \in Sources(p), SysReceive(p, s) PROVE R!Next
  <2>1. s \in Procs \cup {ANY, INTERRUPT}
    BY DEF Sources
  <2>2. R!Notify(p) => p \in IrqTasks
    BY DEF R!Notify
  <2> QED BY <1>2, <2>1, <2>2, SysReceiveMaps DEF R!Next
<1>3. CASE KernelStep
  BY <1>3, KernelMaps DEF R!Next, Moves
<1>4. ASSUME NEW t \in IrqTasks, HwInt(t) PROVE R!Next \/ UNCHANGED R!vars
  BY <1>4, HwIntMaps DEF R!Next
<1>5. CASE UNCHANGED vars
  BY <1>5 DEF vars, procVars, R!vars, offer, box, stopped, Receives, HandsOver, BeginsReceive
<1> QED BY <1>1, <1>2, <1>3, <1>4, <1>5 DEF Next, Spin

\* The kernel's queues, flags, pointers and interrupted system calls implement
\* the rendezvous, for any number of processes and interrupt tasks.
THEOREM IpcImplementsRendezvous == Spec => ImplementsRendezvous
<1> QED BY InitMaps, NextMaps, Mapping, AlwaysDInv, PTL DEF Spec, R!Spec, ImplementsRendezvous

-----------------------------------------------------------------------------
(* The servers.  They are looked at through Rendezvous, which the kernel   *)
(* implements: what matters of a process is its program counter, the offer *)
(* it is waiting on and the message of its last call.                      *)

Sends(p, d) == offer[p] = R!Send(d)
Waits(p, s) == offer[p] = R!Receive(s)
Free(p) == offer[p] = R!None

-----------------------------------------------------------------------------
(* The invariant: where everybody is *)

UserPlaces ==
    \A u \in Users :
        \/ pc[u] = "run" /\ (Free(u) \/ Waits(u, FS))
        \/ pc[u] = "sent" /\ (Free(u) \/ Sends(u, FS))

FsPlaces ==
    /\ \/ pc[FS] = "loop" /\ (Free(FS) \/ Sends(FS, fs_src))
       \/ pc[FS] = "got" /\ (Free(FS) \/ Waits(FS, ANY))
       \/ pc[FS] = "dev" /\ (Free(FS) \/ Sends(FS, TTY))
       \/ pc[FS] = "dev_got" /\ (Free(FS) \/ Waits(FS, TTY))
       \/ pc[FS] = "reply" /\ Free(FS)
    /\ fs_src \in Users \cup {NO_TASK}
    /\ pc[FS] \in {"dev", "dev_got", "reply"} \/ (pc[FS] = "loop" /\ ~Free(FS)) => fs_src \in Users

TtyPlaces ==
    /\ \/ pc[TTY] = "scan" /\ (Free(TTY) \/ Sends(TTY, FS))
       \/ pc[TTY] = "rcv" /\ Free(TTY)
       \/ pc[TTY] = "got" /\ (Free(TTY) \/ Waits(TTY, ANY))
    /\ tty_left \in BOOLEAN
    /\ tty_left => tty_caller = FS /\ tty_procnr \in Users

(* What is in the messages *)

RequestOf(m, u) == m.source = u /\ m.body.type \in Requests
TtyTells(m, t, u) == m.source = TTY /\ m.body = Body(t, u)

\* FS has handed a request on, and the terminal has yet to answer it.
FsAsked == pc[FS] = "dev" \/ (pc[FS] = "dev_got" /\ ~Free(FS))

IsDevRequest(b) == b \in {Body("DEV_READ", fs_src), Body("DEV_WRITE", fs_src)}

InTransit ==
    /\ \A u \in Users : Sends(u, FS) => RequestOf(box[u], u)
    /\ Sends(FS, TTY) => box[FS].source = FS /\ IsDevRequest(box[FS].body)
    /\ Sends(TTY, FS) =>
         \E u \in Users :
            \/ TtyTells(box[TTY], "RESUME_PROC", u) /\ ~tty_left /\ tty_procnr \in Users
            \/ /\ TtyTells(box[TTY], "SUSPEND_PROC", u) \/ TtyTells(box[TTY], "SYSCALL_RET", u)
               /\ FsAsked /\ ~Sends(FS, TTY)

Received ==
    /\ pc[FS] = "got" /\ Free(FS) =>
         \E u \in Users : RequestOf(box[FS], u) \/ TtyTells(box[FS], "RESUME_PROC", u)
    /\ pc[FS] = "dev_got" /\ Free(FS) =>
         \E u \in Users : \/ TtyTells(box[FS], "RESUME_PROC", u) /\ tty_procnr \in Users
                          \/ TtyTells(box[FS], "SUSPEND_PROC", u)
                          \/ TtyTells(box[FS], "SYSCALL_RET", u)
    /\ pc[TTY] = "got" /\ Free(TTY) =>
         \/ box[TTY] = R!HwIntMsg
         \/ /\ box[TTY].source \in {FS, INTERRUPT} /\ IsDevRequest(box[TTY].body)
            /\ FsAsked /\ (Sends(FS, TTY) => HandsOver(FS))

(* Who has a user's call *)

\* The user has asked and has not been answered.
Awaits(u) == (pc[u] = "sent" /\ Free(u)) \/ Waits(u, FS)

\* The terminal keeps the call, or is telling FS to go on with it.
AtTty(u) == \/ tty_left /\ tty_procnr = u
            \/ Sends(TTY, FS) /\ box[TTY].body = Body("RESUME_PROC", u)

\* FS has just received it.
Taken(u) == /\ pc[FS] = "got" /\ Free(FS)
            /\ box[FS].source = u \/ box[FS].body = Body("RESUME_PROC", u)

\* FS works on it, or is answering it.
Serves(u) == /\ fs_src = u
             /\ pc[FS] \in {"dev", "dev_got", "reply"} \/ (pc[FS] = "loop" /\ ~Free(FS))

\* The terminal has kept the call that FS works on and FS does not know it yet.
Suspending ==
    \/ pc[FS] = "dev_got" /\ Free(FS) /\ box[FS].body.type = "SUSPEND_PROC"
    \/ FsAsked /\ Sends(TTY, FS) /\ box[TTY].body.type = "SUSPEND_PROC"

OneKeeper ==
    \A u \in Users :
        /\ AtTty(u) \/ Taken(u) \/ Serves(u) => Awaits(u)
        /\ AtTty(u) => ~Taken(u)
        /\ AtTty(u) /\ Serves(u) => Suspending

Running == /\ pc = [p \in Procs |-> pc[p]]
           /\ UserPlaces /\ FsPlaces /\ TtyPlaces /\ InTransit /\ Received /\ OneKeeper

SInv == DInv /\ AnswersOnlyCallers /\ StopsOnlyForReads /\ (halted = "no" => Running)

-----------------------------------------------------------------------------
(* Facts about offers, messages and the mapping *)

LEMMA Offers ==
    /\ \A d : R!Send(d) # R!None /\ R!Receive(d) # R!None
    /\ \A d, e : R!Send(d) # R!Receive(e)
    /\ \A d, e : R!Send(d) = R!Send(e) => d = e
    /\ \A d, e : R!Receive(d) = R!Receive(e) => d = e
<1>1. \A d : R!Send(d).op = "send" /\ R!Send(d).peer = d
  BY DEF R!Send
<1>2. \A d : R!Receive(d).op = "receive" /\ R!Receive(d).peer = d
  BY DEF R!Receive
<1>3. R!None.op = "none"
  BY DEF R!None
<1> QED
  BY <1>1, <1>2, <1>3

LEMMA BodyFacts ==
    /\ \A t, p : Body(t, p).type = t /\ Body(t, p).proc = p
    /\ \A p, b : R!Message(p, b).source = p /\ R!Message(p, b).body = b
    /\ R!HwIntMsg.source = INTERRUPT /\ R!HwIntMsg.body.type = "HW_INT"
    /\ R!Empty.source = ANY
<1>1. \A t, p : Body(t, p).type = t /\ Body(t, p).proc = p
  BY DEF Body
<1>2. \A p, b : R!Message(p, b).source = p /\ R!Message(p, b).body = b
  BY DEF R!Message
<1>3. HW_INT.type = "HW_INT"
  BY <1>1, ServicesAssumption
<1> QED
  BY <1>1, <1>2, <1>3 DEF R!HwIntMsg, R!Empty

\* The processes and the names that stand for none.
LEMMA Names ==
    /\ FS \in Procs /\ TTY \in Procs /\ FS # TTY /\ Users \subseteq Procs
    /\ FS \notin Users /\ TTY \notin Users
    /\ NO_TASK \notin Users /\ ANY \notin Users /\ INTERRUPT \notin Users
    /\ NO_TASK \notin Procs /\ ANY \notin Procs /\ INTERRUPT \notin Procs
    /\ \A p \in Procs : p \in Users \/ p = FS \/ p = TTY
    /\ IrqTasks = {TTY}
BY ConstantsAssumption, ServicesAssumption

\* The bodies that are sent.
LEMMA LegalBody ==
    ASSUME NEW t \in BodyTypes \ {"HW_INT"}, NEW u \in Users \cup {NO_TASK}
    PROVE  Body(t, u) \in Bodies \ {HW_INT}
<1>1. Body(t, u).type # HW_INT.type
  BY BodyFacts, ServicesAssumption
<1> QED
  BY <1>1, ServicesAssumption DEF Body

\* A process in user mode waits for nothing; one that waits for a message is
\* inside a call.
LEMMA CallerFree ==
    ASSUME DInv, NEW p \in Procs, CanCall(p)
    PROVE  Free(p) /\ halted = "no" /\ (\A x \in Procs : ~HandsOver(x)) /\ box[p] = msg[p]
<1>1. kpc = "user" /\ proc_state[p] = {} /\ halted = "no"
  BY DEF CanCall
<1>2. ~BeginsReceive(p) /\ ~Receives(p) /\ (\A x \in Procs : ~HandsOver(x))
  BY <1>1 DEF BeginsReceive, Receives, HandsOver
<1>3. MappingFacts
  BY Mapping
<1> QED
  BY <1>1, <1>2, <1>3 DEF MappingFacts, Free

LEMMA WaiterInCall ==
    ASSUME DInv, NEW u \in Procs, NEW s, Waits(u, s)
    PROVE  InCall(u)
<1>1. MappingFacts /\ TypeOK
  BY Mapping DEF DInv, IInv
<1>2. offer[u] # R!None /\ (\A d : offer[u] # R!Send(d))
  BY Offers DEF Waits
<1>3. SENDING \notin proc_state[u] /\ ~HandsOver(u)
  BY <1>1, <1>2 DEF MappingFacts
<1>4. proc_state[u] # {} \/ BeginsReceive(u)
  BY <1>1, <1>2, <1>3 DEF MappingFacts
<1> QED
  BY <1>1, <1>3, <1>4 DEF InCall, BeginsReceive, TypeOK

\* A process that is queued is one that offers to send.
LEMMA QueuedSends ==
    ASSUME DInv, NEW p \in Procs, SENDING \in proc_state[p]
    PROVE  Sends(p, pid_sendingto[p])
BY Mapping DEF MappingFacts, Sends

\* What the steps of Rendezvous do to each process.
LEMMA OfferSendEffect ==
    ASSUME MappingFacts, NEW p \in Procs, NEW d, NEW b, R!OfferSend(p, d, b)
    PROVE  /\ Free(p) /\ offer'[p] = R!Send(d)
           /\ box'[p].source = p /\ box'[p].body = b
           /\ \A x \in Procs \ {p} : offer'[x] = offer[x] /\ box'[x] = box[x]
           /\ stopped' = stopped
BY BodyFacts DEF R!OfferSend, MappingFacts, Free

LEMMA OfferReceiveEffect ==
    ASSUME MappingFacts, NEW p \in Procs, NEW s, R!OfferReceive(p, s)
    PROVE  /\ Free(p) /\ offer'[p] = R!Receive(s)
           /\ \A x \in Procs \ {p} : offer'[x] = offer[x] /\ box'[x] = box[x]
           /\ stopped' = stopped
BY DEF R!OfferReceive, MappingFacts, Free

LEMMA MeetEffect ==
    ASSUME MappingFacts, NEW p \in Procs, NEW d \in Procs, R!Meet(p, d)
    PROVE  /\ Sends(p, d) /\ (Waits(d, p) \/ Waits(d, ANY))
           /\ p # d
           /\ offer'[p] = R!None /\ offer'[d] = R!None
           /\ box'[d] = box[p] /\ box'[p] = box[p]
           /\ \A x \in Procs \ {p, d} : offer'[x] = offer[x] /\ box'[x] = box[x]
           /\ stopped' = stopped
<1>1. Sends(p, d) /\ (Waits(d, p) \/ Waits(d, ANY))
  BY DEF R!Meet, Sends, Waits
<1>2. p # d
  BY <1>1, Offers DEF Sends, Waits
<1> QED
  BY <1>1, <1>2 DEF R!Meet, MappingFacts

LEMMA NotifyEffect ==
    ASSUME MappingFacts, NEW t \in Procs, R!Notify(t)
    PROVE  /\ t \in IrqTasks
           /\ Free(t) \/ Waits(t, ANY) \/ Waits(t, INTERRUPT)
           /\ offer'[t] = R!None
           /\ \A x \in Procs \ {t} : offer'[x] = offer[x] /\ box'[x] = box[x]
           /\ stopped' = stopped
BY DEF R!Notify, MappingFacts, Free, Waits

LEMMA OvertakenEffect ==
    ASSUME MappingFacts, NEW p \in Procs, NEW t \in IrqTasks, R!Overtaken(p, t)
    PROVE  /\ Sends(p, t) /\ Free(t)
           /\ offer'[p] = R!None
           /\ \A x \in Procs \ {p} : offer'[x] = offer[x]
           /\ \A x \in Procs : box'[x] = box[x]
           /\ stopped' = stopped
BY DEF R!Overtaken, MappingFacts, Free, Sends

-----------------------------------------------------------------------------
(* One process makes or takes up an offer of its own *)

\* Nobody but p changes its place, its offer or its last message.
OnlyMoves(p) ==
    /\ pc' = [x \in Procs |-> pc'[x]]
    /\ \A x \in Procs \ {p} : offer'[x] = offer[x] /\ box'[x] = box[x] /\ pc'[x] = pc[x]

TtyKeeps == UNCHANGED <<tty_caller, tty_procnr, tty_left>>

\* Asking FS: nobody has a call of a user that is not inside one.
LEMMA UserAsks ==
    ASSUME Running, NEW u \in Users, OnlyMoves(u), TtyKeeps, fs_src' = fs_src,
           ~HandsOver(FS),
           pc[u] = "run" /\ Free(u), pc'[u] = "sent", offer'[u] = R!Send(FS),
           RequestOf(box'[u], u)
    PROVE  Running'
<1>1. ~Awaits(u)
  BY Offers DEF Awaits, Free, Waits
<1>2. ~AtTty(u) /\ ~Taken(u) /\ ~Serves(u)
  BY <1>1 DEF Running, OneKeeper
<1> USE Names, Offers DEF Running, OnlyMoves, TtyKeeps, Free, Sends, Waits
<1>3. UserPlaces'
  <2> SUFFICES ASSUME NEW x \in Users
               PROVE  \/ pc'[x] = "run" /\ (offer'[x] = R!None \/ offer'[x] = R!Receive(FS))
                      \/ pc'[x] = "sent" /\ (offer'[x] = R!None \/ offer'[x] = R!Send(FS))
    BY DEF UserPlaces
  <2>1. CASE x = u
    BY <2>1
  <2>2. CASE x # u
    BY <2>2 DEF UserPlaces
  <2> QED
    BY <2>1, <2>2
<1>4. FsPlaces' /\ TtyPlaces'
  BY DEF FsPlaces, TtyPlaces
<1>5. InTransit'
  BY DEF InTransit, RequestOf, TtyTells, FsAsked, IsDevRequest
<1>6. Received'
  BY DEF Received, RequestOf, TtyTells, FsAsked, IsDevRequest
<1>7. OneKeeper'
  <2>1. ASSUME NEW x \in Users
        PROVE  /\ AtTty(x)' => AtTty(x)
               /\ Taken(x)' => Taken(x)
               /\ Serves(x)' => Serves(x)
               /\ x # u /\ Awaits(x) => Awaits(x)'
    BY DEF Awaits, AtTty, Taken, Serves
  <2>2. Suspending => Suspending'
    BY DEF Suspending, FsAsked
  <2> QED
    BY <1>2, <2>1, <2>2 DEF OneKeeper
<1> QED
  BY <1>3, <1>4, <1>5, <1>6, <1>7

\* A user that waits for its answer awaits it as before.
LEMMA UserWaits ==
    ASSUME Running, NEW u \in Users, OnlyMoves(u), TtyKeeps, fs_src' = fs_src,
           ~HandsOver(FS),
           pc[u] = "sent" /\ Free(u), pc'[u] = "run", offer'[u] = R!Receive(FS)
    PROVE  Running'
<1> USE Names, Offers DEF Running, OnlyMoves, TtyKeeps, Free, Sends, Waits
<1>1. UserPlaces'
  <2> SUFFICES ASSUME NEW x \in Users
               PROVE  \/ pc'[x] = "run" /\ (offer'[x] = R!None \/ offer'[x] = R!Receive(FS))
                      \/ pc'[x] = "sent" /\ (offer'[x] = R!None \/ offer'[x] = R!Send(FS))
    BY DEF UserPlaces
  <2>1. CASE x = u
    BY <2>1
  <2>2. CASE x # u
    BY <2>2 DEF UserPlaces
  <2> QED
    BY <2>1, <2>2
<1>2. FsPlaces' /\ TtyPlaces'
  BY DEF FsPlaces, TtyPlaces
<1>3. InTransit'
  BY DEF InTransit, RequestOf, TtyTells, FsAsked, IsDevRequest
<1>4. Received'
  BY DEF Received, RequestOf, TtyTells, FsAsked, IsDevRequest
<1>5. OneKeeper'
  <2>1. ASSUME NEW x \in Users
        PROVE  /\ AtTty(x)' => AtTty(x)
               /\ Taken(x)' => Taken(x)
               /\ Serves(x)' => Serves(x)
               /\ Awaits(x) => Awaits(x)'
    BY DEF Awaits, AtTty, Taken, Serves
  <2>2. Suspending => Suspending'
    BY DEF Suspending, FsAsked
  <2> QED
    BY <2>1, <2>2 DEF OneKeeper
<1> QED
  BY <1>1, <1>2, <1>3, <1>4, <1>5

\* FS in its loop has no call, and the terminal does not answer it.
LEMMA FsWaitsForAny ==
    ASSUME Running, OnlyMoves(FS), TtyKeeps, fs_src' = fs_src,
           pc[FS] = "loop" /\ Free(FS), pc'[FS] = "got", offer'[FS] = R!Receive(ANY)
    PROVE  Running'
<1> USE Names, Offers DEF Running, OnlyMoves, TtyKeeps, Free, Sends, Waits
<1>1. UserPlaces' /\ FsPlaces' /\ TtyPlaces'
  BY DEF UserPlaces, FsPlaces, TtyPlaces
<1>2. ~FsAsked
  BY DEF FsAsked
<1>3. InTransit'
  BY <1>2 DEF InTransit, RequestOf, TtyTells
<1>4. Received'
  BY <1>2 DEF Received
<1>5. OneKeeper'
  <2>1. ASSUME NEW x \in Users
        PROVE  /\ AtTty(x)' => AtTty(x)
               /\ ~Taken(x)' /\ ~Serves(x)'
               /\ Awaits(x) => Awaits(x)'
    BY DEF Awaits, AtTty, Taken, Serves
  <2> QED
    BY <2>1 DEF OneKeeper
<1> QED
  BY <1>1, <1>3, <1>4, <1>5

\* What FS has received becomes what it works on.
LEMMA FsTakesUp ==
    ASSUME Running, NEW u \in Users, OnlyMoves(FS), TtyKeeps, fs_src' = u,
           pc[FS] = "got" /\ Free(FS), Taken(u),
           \/ /\ pc'[FS] = "dev" /\ offer'[FS] = R!Send(TTY) /\ box'[FS].source = FS
              /\ box'[FS].body \in {Body("DEV_READ", u), Body("DEV_WRITE", u)}
           \/ pc'[FS] = "reply" /\ offer'[FS] = R!None
    PROVE  Running'
<1>1. ~FsAsked
  BY DEF FsAsked
<1>2. ~AtTty(u) /\ Awaits(u)
  BY DEF Running, OneKeeper
<1> USE Names, Offers DEF Running, OnlyMoves, TtyKeeps, Free, Sends, Waits
<1>3. UserPlaces' /\ TtyPlaces'
  BY DEF UserPlaces, TtyPlaces
<1>4. FsPlaces'
  BY DEF FsPlaces
<1>5. InTransit'
  BY <1>1 DEF InTransit, RequestOf, TtyTells, IsDevRequest
<1>6. Received'
  BY <1>1 DEF Received
<1>7. OneKeeper'
  <2>1. ASSUME NEW x \in Users
        PROVE  /\ AtTty(x)' => AtTty(x)
               /\ ~Taken(x)' /\ (Serves(x)' => x = u)
               /\ Awaits(x) => Awaits(x)'
    BY DEF Awaits, AtTty, Taken, Serves
  <2> QED
    BY <1>2, <2>1 DEF OneKeeper
<1> QED
  BY <1>3, <1>4, <1>5, <1>6, <1>7

LEMMA FsWaitsForTty ==
    ASSUME Running, OnlyMoves(FS), TtyKeeps, fs_src' = fs_src,
           pc[FS] = "dev" /\ Free(FS), pc'[FS] = "dev_got", offer'[FS] = R!Receive(TTY)
    PROVE  Running'
<1> USE Names, Offers DEF Running, OnlyMoves, TtyKeeps, Free, Sends, Waits
<1>1. UserPlaces' /\ FsPlaces' /\ TtyPlaces'
  BY DEF UserPlaces, FsPlaces, TtyPlaces
<1>2. FsAsked /\ FsAsked'
  BY DEF FsAsked
<1>3. InTransit'
  BY <1>2 DEF InTransit, RequestOf, TtyTells
<1>4. Received'
  BY <1>2 DEF Received, IsDevRequest
<1>5. OneKeeper'
  <2>1. ASSUME NEW x \in Users
        PROVE  /\ AtTty(x)' => AtTty(x)
               /\ ~Taken(x)' /\ (Serves(x)' => Serves(x))
               /\ Awaits(x) => Awaits(x)'
    BY DEF Awaits, AtTty, Taken, Serves
  <2>2. Suspending => Suspending'
    BY <1>2 DEF Suspending
  <2> QED
    BY <2>1, <2>2 DEF OneKeeper
<1> QED
  BY <1>1, <1>3, <1>4, <1>5

\* SUSPEND_PROC leaves the call with the terminal; after any other answer the
\* terminal does not have it.
LEMMA FsHasAnswer ==
    ASSUME Running, OnlyMoves(FS), TtyKeeps, fs_src' = fs_src,
           pc[FS] = "dev_got" /\ Free(FS), offer'[FS] = R!None,
           \/ pc'[FS] = "reply" /\ box[FS].body.type # "SUSPEND_PROC"
           \/ pc'[FS] = "loop"
    PROVE  Running'
<1>1. ~FsAsked
  BY DEF FsAsked
<1> USE Names, Offers DEF Running, OnlyMoves, TtyKeeps, Free, Sends, Waits
<1>2. UserPlaces' /\ FsPlaces' /\ TtyPlaces'
  BY DEF UserPlaces, FsPlaces, TtyPlaces
<1>3. InTransit'
  BY <1>1 DEF InTransit, RequestOf, TtyTells
<1>4. Received'
  BY <1>1 DEF Received
<1>5. OneKeeper'
  <2>1. ASSUME NEW x \in Users
        PROVE  /\ AtTty(x)' => AtTty(x)
               /\ ~Taken(x)' /\ (Serves(x)' => Serves(x) /\ pc'[FS] = "reply")
               /\ Awaits(x) => Awaits(x)'
    BY DEF Awaits, AtTty, Taken, Serves
  <2>2. pc'[FS] = "reply" => ~Suspending
    BY <1>1 DEF Suspending
  <2> QED
    BY <2>1, <2>2 DEF OneKeeper
<1> QED
  BY <1>2, <1>3, <1>4, <1>5

LEMMA FsAnswers ==
    ASSUME Running, OnlyMoves(FS), TtyKeeps, fs_src' = fs_src,
           pc[FS] = "reply" /\ Free(FS), pc'[FS] = "loop", offer'[FS] = R!Send(fs_src)
    PROVE  Running'
<1>1. ~FsAsked /\ fs_src \in Users
  BY DEF FsAsked, Running, FsPlaces
<1> USE Names, Offers DEF Running, OnlyMoves, TtyKeeps, Free, Sends, Waits
<1>2. UserPlaces' /\ FsPlaces' /\ TtyPlaces'
  BY <1>1 DEF UserPlaces, FsPlaces, TtyPlaces
<1>3. InTransit'
  BY <1>1 DEF InTransit, RequestOf, TtyTells
<1>4. Received'
  BY <1>1 DEF Received
<1>5. OneKeeper'
  <2>1. ASSUME NEW x \in Users
        PROVE  /\ AtTty(x)' => AtTty(x)
               /\ ~Taken(x)' /\ (Serves(x)' => Serves(x))
               /\ Awaits(x) => Awaits(x)'
    BY DEF Awaits, AtTty, Taken, Serves
  <2>2. ~Suspending
    BY <1>1 DEF Suspending
  <2> QED
    BY <2>1, <2>2 DEF OneKeeper
<1> QED
  BY <1>2, <1>3, <1>4, <1>5

\* A key for a process that reads: the terminal gives the call back to FS.
LEMMA TtyResumes ==
    ASSUME Running, OnlyMoves(TTY), UNCHANGED <<fs_src, tty_caller, tty_procnr>>,
           tty_left /\ ~tty_left', tty_left' \in BOOLEAN, ~HandsOver(FS),
           pc[TTY] = "scan" /\ Free(TTY), pc'[TTY] = "scan", offer'[TTY] = R!Send(FS),
           TtyTells(box'[TTY], "RESUME_PROC", tty_procnr)
    PROVE  Running'
<1>1. tty_procnr \in Users
  BY DEF Running, TtyPlaces
<1> USE Names, Offers, BodyFacts DEF Running, OnlyMoves, Free, Sends, Waits
<1>2. UserPlaces' /\ FsPlaces'
  BY DEF UserPlaces, FsPlaces
<1>3. TtyPlaces'
  BY DEF TtyPlaces
<1>4. InTransit'
  BY <1>1 DEF InTransit, RequestOf, FsAsked, IsDevRequest
<1>5. Received'
  BY DEF Received, RequestOf, TtyTells
<1>6. OneKeeper'
  <2>1. ASSUME NEW x \in Users
        PROVE  /\ AtTty(x)' => AtTty(x)
               /\ Taken(x)' => Taken(x)
               /\ Serves(x)' => Serves(x)
               /\ Awaits(x) => Awaits(x)'
    <3>1. AtTty(x)' => x = tty_procnr
      BY DEF AtTty, TtyTells
    <3> QED
      BY <3>1 DEF Awaits, AtTty, Taken, Serves
  <2>2. Suspending => Suspending'
    BY DEF Suspending
  <2> QED
    BY <2>1, <2>2 DEF OneKeeper
<1> QED
  BY <1>2, <1>3, <1>4, <1>5, <1>6

\* The terminal goes on without a message.
LEMMA TtyGoesOn ==
    ASSUME Running, OnlyMoves(TTY), TtyKeeps, fs_src' = fs_src,
           pc[TTY] \in {"scan", "got"} /\ Free(TTY), pc'[TTY] \in {"scan", "rcv"},
           offer'[TTY] = R!None
    PROVE  Running'
<1> USE Names, Offers DEF Running, OnlyMoves, TtyKeeps, Free, Sends, Waits
<1>1. UserPlaces' /\ FsPlaces' /\ TtyPlaces'
  BY DEF UserPlaces, FsPlaces, TtyPlaces
<1>2. InTransit'
  BY DEF InTransit, RequestOf, IsDevRequest
<1>3. Received'
  BY DEF Received, RequestOf, TtyTells
<1>4. OneKeeper'
  <2>1. ASSUME NEW x \in Users
        PROVE  /\ AtTty(x)' => AtTty(x)
               /\ Taken(x)' => Taken(x)
               /\ Serves(x)' => Serves(x)
               /\ Awaits(x) => Awaits(x)'
    BY DEF Awaits, AtTty, Taken, Serves
  <2>2. Suspending => Suspending'
    BY DEF Suspending
  <2> QED
    BY <2>1, <2>2 DEF OneKeeper
<1> QED
  BY <1>1, <1>2, <1>3, <1>4

LEMMA TtyWaits ==
    ASSUME Running, OnlyMoves(TTY), TtyKeeps, fs_src' = fs_src,
           pc[TTY] = "rcv" /\ Free(TTY), pc'[TTY] = "got",
           \/ offer'[TTY] = R!Receive(ANY)
           \/ offer'[TTY] = R!None /\ box'[TTY] = R!HwIntMsg
    PROVE  Running'
<1> USE Names, Offers DEF Running, OnlyMoves, TtyKeeps, Free, Sends, Waits
<1>1. UserPlaces' /\ FsPlaces' /\ TtyPlaces'
  BY DEF UserPlaces, FsPlaces, TtyPlaces
<1>2. InTransit'
  BY DEF InTransit, RequestOf, IsDevRequest
<1>3. Received'
  BY DEF Received, RequestOf, TtyTells
<1>4. OneKeeper'
  <2>1. ASSUME NEW x \in Users
        PROVE  /\ AtTty(x)' => AtTty(x)
               /\ Taken(x)' => Taken(x)
               /\ Serves(x)' => Serves(x)
               /\ Awaits(x) => Awaits(x)'
    BY DEF Awaits, AtTty, Taken, Serves
  <2>2. Suspending => Suspending'
    BY DEF Suspending
  <2> QED
    BY <2>1, <2>2 DEF OneKeeper
<1> QED
  BY <1>1, <1>2, <1>3, <1>4

\* A request of FS that the terminal has received is the one FS works on, and is
\* not the terminal's yet.
LEMMA RequestOfFs ==
    ASSUME Running, ~HandsOver(FS), pc[TTY] = "got" /\ Free(TTY),
           box[TTY].body.type \in {"DEV_READ", "DEV_WRITE"}
    PROVE  /\ IsDevRequest(box[TTY].body) /\ box[TTY].body.proc = fs_src
           /\ FsAsked /\ ~Sends(FS, TTY) /\ fs_src \in Users
           /\ ~Suspending
<1>1. IsDevRequest(box[TTY].body) /\ FsAsked /\ ~Sends(FS, TTY)
  BY BodyFacts DEF Running, Received
<1>2. fs_src \in Users
  BY <1>1 DEF Running, FsPlaces, FsAsked
<1>3. ~Suspending
  BY <1>1, Offers DEF Suspending, FsAsked, Free, Sends
<1> QED
  BY <1>1, <1>2, <1>3, BodyFacts DEF IsDevRequest

\* tty_do_read: the terminal keeps the call that FS works on, and tells FS.
LEMMA TtySuspends ==
    ASSUME Running, OnlyMoves(TTY), fs_src' = fs_src, ~HandsOver(FS),
           pc[TTY] = "got" /\ Free(TTY), box[TTY].body.type = "DEV_READ",
           tty_left' = TRUE, tty_caller' = FS, tty_procnr' = fs_src,
           pc'[TTY] = "scan", offer'[TTY] = R!Send(FS),
           TtyTells(box'[TTY], "SUSPEND_PROC", fs_src)
    PROVE  Running'
<1>1. FsAsked /\ ~Sends(FS, TTY) /\ fs_src \in Users
  BY RequestOfFs
<1>2. Serves(fs_src)
  BY <1>1 DEF Serves, FsAsked
<1> USE Names, Offers, BodyFacts DEF Running, OnlyMoves, Free, Sends, Waits
<1>3. UserPlaces' /\ FsPlaces'
  <2>1. UserPlaces'
    BY DEF UserPlaces
  <2>2. FsPlaces'
    BY DEF FsPlaces
  <2> QED
    BY <2>1, <2>2
<1>4. TtyPlaces'
  BY <1>1 DEF TtyPlaces
<1>5. FsAsked'
  BY <1>1 DEF FsAsked
<1>6. InTransit'
  BY <1>1, <1>5 DEF InTransit, RequestOf, IsDevRequest
<1>7. Received'
  <2>1. pc[FS] \in {"dev", "dev_got"} /\ (pc[FS] = "dev_got" => ~Free(FS))
    BY <1>1 DEF FsAsked
  <2> QED
    BY <2>1 DEF Received
<1>8. OneKeeper'
  <2>1. ASSUME NEW x \in Users
        PROVE  /\ AtTty(x)' => x = fs_src
               /\ ~Taken(x)'
               /\ Serves(x)' => Serves(x)
               /\ Awaits(x) => Awaits(x)'
    <3>1. AtTty(x)' => x = fs_src
      BY DEF AtTty, TtyTells
    <3>2. pc[FS] # "got"
      BY <1>1 DEF FsAsked
    <3> QED
      BY <3>1, <3>2 DEF Awaits, Taken, Serves
  <2>2. Suspending'
    BY <1>5 DEF Suspending, TtyTells
  <2> QED
    BY <1>1, <1>2, <2>1, <2>2 DEF OneKeeper
<1> QED
  BY <1>3, <1>4, <1>6, <1>7, <1>8

\* tty_do_write: the terminal answers at once.
LEMMA TtyAnswers ==
    ASSUME Running, OnlyMoves(TTY), TtyKeeps, fs_src' = fs_src, ~HandsOver(FS),
           pc[TTY] = "got" /\ Free(TTY), box[TTY].body.type = "DEV_WRITE",
           pc'[TTY] = "scan", offer'[TTY] = R!Send(FS),
           TtyTells(box'[TTY], "SYSCALL_RET", fs_src)
    PROVE  Running'
<1>1. FsAsked /\ ~Sends(FS, TTY) /\ fs_src \in Users /\ ~Suspending
  BY RequestOfFs
<1> USE Names, Offers, BodyFacts DEF Running, OnlyMoves, TtyKeeps, Free, Sends, Waits
<1>2. UserPlaces' /\ FsPlaces'
  <2>1. UserPlaces'
    BY DEF UserPlaces
  <2>2. FsPlaces'
    BY DEF FsPlaces
  <2> QED
    BY <2>1, <2>2
<1>3. TtyPlaces'
  BY DEF TtyPlaces
<1>4. FsAsked'
  BY <1>1 DEF FsAsked
<1>5. InTransit'
  BY <1>1, <1>4 DEF InTransit, RequestOf, IsDevRequest
<1>6. Received'
  <2>1. pc[FS] \in {"dev", "dev_got"} /\ (pc[FS] = "dev_got" => ~Free(FS))
    BY <1>1 DEF FsAsked
  <2> QED
    BY <2>1 DEF Received
<1>7. OneKeeper'
  <2>1. ASSUME NEW x \in Users
        PROVE  /\ AtTty(x)' => AtTty(x)
               /\ ~Taken(x)'
               /\ Serves(x)' => Serves(x)
               /\ Awaits(x) => Awaits(x)'
    <3>1. AtTty(x)' => AtTty(x)
      BY DEF AtTty, TtyTells
    <3>2. pc[FS] # "got"
      BY <1>1 DEF FsAsked
    <3> QED
      BY <3>1, <3>2 DEF Awaits, Taken, Serves
  <2> QED
    BY <1>1, <2>1 DEF OneKeeper
<1> QED
  BY <1>2, <1>3, <1>5, <1>6, <1>7

-----------------------------------------------------------------------------
(* The kernel lets two offers meet, or notifies the terminal *)

ProgKeeps == TtyKeeps /\ fs_src' = fs_src /\ pc' = pc

\* A handover of FS that was begun and is not over goes on.
HandoverGoesOn == Sends(FS, TTY)' /\ HandsOver(FS) => HandsOver(FS)'

\* The message of p is handed to d.
Meets(p, d) ==
    /\ ProgKeeps
    /\ Sends(p, d) /\ (Waits(d, p) \/ Waits(d, ANY))
    /\ offer'[p] = R!None /\ offer'[d] = R!None
    /\ box'[d] = box[p] /\ box'[p] = box[p]
    /\ \A x \in Procs \ {p, d} : offer'[x] = offer[x] /\ box'[x] = box[x]

\* Nothing that the processes can see happens.
LEMMA NothingSeen ==
    ASSUME Running, ProgKeeps, HandoverGoesOn,
           \A x \in Procs : offer'[x] = offer[x] /\ box'[x] = box[x]
    PROVE  Running'
<1> USE Names, Offers DEF Running, ProgKeeps, TtyKeeps, Free, Sends, Waits
<1>1. UserPlaces' /\ FsPlaces' /\ TtyPlaces'
  BY DEF UserPlaces, FsPlaces, TtyPlaces
<1>2. FsAsked' = FsAsked
  BY DEF FsAsked
<1>3. InTransit'
  BY <1>2 DEF InTransit, RequestOf, TtyTells, IsDevRequest
<1>4. Received'
  BY <1>2 DEF Received, RequestOf, TtyTells, IsDevRequest, HandoverGoesOn
<1>5. OneKeeper'
  BY <1>2 DEF OneKeeper, Awaits, AtTty, Taken, Serves, Suspending
<1> QED
  BY <1>1, <1>3, <1>4, <1>5

\* A notification, mixed at most with the request that FS is handing over.
LEMMA TtyNotified ==
    ASSUME Running, OnlyMoves(TTY), ProgKeeps, HandoverGoesOn,
           Waits(TTY, ANY), offer'[TTY] = R!None,
           \/ box'[TTY] = R!HwIntMsg
           \/ /\ Sends(FS, TTY) /\ HandsOver(FS)
              /\ box'[TTY].source \in {FS, INTERRUPT} /\ box'[TTY].body = box[FS].body
    PROVE  Running'
<1> USE Names, Offers DEF Running, OnlyMoves, ProgKeeps, TtyKeeps, Free, Sends, Waits
<1>1. UserPlaces' /\ FsPlaces' /\ TtyPlaces'
  BY DEF UserPlaces, FsPlaces, TtyPlaces
<1>2. FsAsked' = FsAsked
  BY DEF FsAsked
<1>3. InTransit'
  BY <1>2 DEF InTransit, RequestOf, IsDevRequest
<1>4. Received'
  <2>1. Sends(FS, TTY) => FsAsked /\ IsDevRequest(box[FS].body)
    BY DEF FsPlaces, InTransit, FsAsked
  <2> QED
    BY <1>2, <2>1 DEF Received, RequestOf, TtyTells, IsDevRequest, HandoverGoesOn
<1>5. OneKeeper'
  <2>1. ASSUME NEW x \in Users
        PROVE  /\ AtTty(x)' => AtTty(x)
               /\ Taken(x)' => Taken(x)
               /\ Serves(x)' => Serves(x)
               /\ Awaits(x) => Awaits(x)'
    BY DEF Awaits, AtTty, Taken, Serves
  <2>2. Suspending => Suspending'
    BY <1>2 DEF Suspending
  <2> QED
    BY <2>1, <2>2 DEF OneKeeper
<1> QED
  BY <1>1, <1>3, <1>4, <1>5

\* FS receives the request of a user.
LEMMA MeetRequest ==
    ASSUME Running, NEW u \in Users, Meets(u, FS)
    PROVE  Running'
<1> USE Names, Offers DEF Running, Meets, ProgKeeps, TtyKeeps, Free, Sends, Waits
<1>1. pc[FS] = "got" /\ Waits(FS, ANY) /\ pc[u] = "sent"
  BY DEF FsPlaces, UserPlaces
<1>2. RequestOf(box[u], u) /\ ~Awaits(u)
  BY <1>1 DEF InTransit, Awaits
<1>3. UserPlaces'
  <2> SUFFICES ASSUME NEW x \in Users
               PROVE  \/ pc'[x] = "run" /\ (offer'[x] = R!None \/ offer'[x] = R!Receive(FS))
                      \/ pc'[x] = "sent" /\ (offer'[x] = R!None \/ offer'[x] = R!Send(FS))
    BY DEF UserPlaces
  <2>1. CASE x = u
    BY <1>1, <2>1
  <2>2. CASE x # u
    BY <2>2 DEF UserPlaces
  <2> QED
    BY <2>1, <2>2
<1>4. FsPlaces' /\ TtyPlaces'
  BY <1>1 DEF FsPlaces, TtyPlaces
<1>5. ~FsAsked
  BY <1>1 DEF FsAsked
<1>6. InTransit'
  BY <1>1, <1>5 DEF InTransit, RequestOf, TtyTells
<1>7. Received'
  BY <1>1, <1>2, <1>5 DEF Received, RequestOf
<1>8. OneKeeper'
  <2>1. ASSUME NEW x \in Users
        PROVE  /\ AtTty(x)' => AtTty(x)
               /\ Taken(x)' => x = u
               /\ ~Serves(x)'
               /\ (x = u \/ Awaits(x)) => Awaits(x)'
    <3>1. Taken(x)' => x = u
      <4>1. box[u].body # Body("RESUME_PROC", x)
        BY <1>2, BodyFacts, ServicesAssumption DEF RequestOf, DeviceRequests
      <4> QED
        BY <1>2, <4>1 DEF Taken, RequestOf
    <3> QED
      BY <1>1, <3>1 DEF Awaits, AtTty, Serves
  <2> QED
    BY <1>2, <2>1 DEF OneKeeper
<1> QED
  BY <1>3, <1>4, <1>6, <1>7, <1>8

\* The terminal receives the request that FS hands on.
LEMMA MeetDevRequest ==
    ASSUME Running, Meets(FS, TTY)
    PROVE  Running'
<1> USE Names, Offers DEF Running, Meets, ProgKeeps, TtyKeeps, Free, Sends, Waits
<1>1. pc[FS] = "dev" /\ pc[TTY] = "got" /\ Waits(TTY, ANY)
  BY DEF FsPlaces, TtyPlaces
<1>2. box[FS].source = FS /\ IsDevRequest(box[FS].body)
  BY DEF InTransit
<1>3. UserPlaces' /\ FsPlaces' /\ TtyPlaces'
  BY <1>1 DEF UserPlaces, FsPlaces, TtyPlaces
<1>4. FsAsked /\ FsAsked'
  BY <1>1 DEF FsAsked
<1>5. InTransit'
  BY <1>1 DEF InTransit, RequestOf
<1>6. Received'
  BY <1>1, <1>2, <1>4 DEF Received, IsDevRequest
<1>7. OneKeeper'
  <2>1. ASSUME NEW x \in Users
        PROVE  /\ AtTty(x)' => AtTty(x)
               /\ ~Taken(x)'
               /\ Serves(x)' => Serves(x)
               /\ Awaits(x) => Awaits(x)'
    BY <1>1 DEF Awaits, AtTty, Taken, Serves
  <2>2. ~Suspending
    BY <1>1 DEF Suspending
  <2> QED
    BY <2>1, <2>2 DEF OneKeeper
<1> QED
  BY <1>3, <1>5, <1>6, <1>7

\* The user receives its answer: nobody has its call any more.
LEMMA MeetAnswer ==
    ASSUME Running, NEW u \in Users, Meets(FS, u)
    PROVE  Running'
<1> USE Names, Offers DEF Running, Meets, ProgKeeps, TtyKeeps, Free, Sends, Waits
<1>1. pc[FS] = "loop" /\ fs_src = u /\ pc[u] = "run" /\ Waits(u, FS)
  BY DEF FsPlaces, UserPlaces
<1>2. Serves(u) /\ ~Suspending
  BY <1>1 DEF Serves, Suspending, FsAsked
<1>3. UserPlaces'
  <2> SUFFICES ASSUME NEW x \in Users
               PROVE  \/ pc'[x] = "run" /\ (offer'[x] = R!None \/ offer'[x] = R!Receive(FS))
                      \/ pc'[x] = "sent" /\ (offer'[x] = R!None \/ offer'[x] = R!Send(FS))
    BY DEF UserPlaces
  <2>1. CASE x = u
    BY <1>1, <2>1
  <2>2. CASE x # u
    BY <2>2 DEF UserPlaces
  <2> QED
    BY <2>1, <2>2
<1>4. FsPlaces' /\ TtyPlaces'
  BY <1>1 DEF FsPlaces, TtyPlaces
<1>5. ~FsAsked
  BY <1>1 DEF FsAsked
<1>6. InTransit'
  BY <1>1, <1>5 DEF InTransit, RequestOf, TtyTells
<1>7. Received'
  BY <1>1, <1>5 DEF Received
<1>8. OneKeeper'
  <2>1. ASSUME NEW x \in Users
        PROVE  /\ AtTty(x)' => AtTty(x)
               /\ ~Taken(x)' /\ ~Serves(x)'
               /\ x # u /\ Awaits(x) => Awaits(x)'
    BY <1>1 DEF Awaits, AtTty, Taken, Serves
  <2> QED
    BY <1>2, <2>1 DEF OneKeeper
<1> QED
  BY <1>3, <1>4, <1>6, <1>7, <1>8

\* FS receives the answer of the terminal, or a RESUME_PROC in its place, or a
\* RESUME_PROC in its loop.
LEMMA MeetTty ==
    ASSUME Running, Meets(TTY, FS)
    PROVE  Running'
<1> USE Names, Offers DEF Running, Meets, ProgKeeps, TtyKeeps, Free, Sends, Waits
<1>1. pc[TTY] = "scan" /\ ~Sends(FS, TTY)
  BY DEF TtyPlaces
<1>2. pc[FS] \in {"got", "dev_got"} /\ ~Free(FS) /\ (FsAsked => pc[FS] = "dev_got")
  BY DEF FsPlaces, FsAsked
<1>3. PICK u \in Users :
         \/ TtyTells(box[TTY], "RESUME_PROC", u) /\ ~tty_left /\ tty_procnr \in Users
         \/ /\ TtyTells(box[TTY], "SUSPEND_PROC", u) \/ TtyTells(box[TTY], "SYSCALL_RET", u)
            /\ FsAsked /\ ~Sends(FS, TTY)
  BY DEF InTransit
<1>4. UserPlaces'
  BY DEF UserPlaces
<1>5. FsPlaces'
  BY <1>2 DEF FsPlaces
<1>6. TtyPlaces'
  BY <1>1 DEF TtyPlaces
<1>7. InTransit'
  BY DEF InTransit, RequestOf
<1>8. Received'
  BY <1>1, <1>2, <1>3 DEF Received, TtyTells
<1>9. OneKeeper'
  <2>1. ASSUME NEW x \in Users
        PROVE  /\ AtTty(x)' => tty_left /\ tty_procnr = x
               /\ Taken(x)' => AtTty(x) /\ ~tty_left
               /\ Serves(x)' => Serves(x) /\ pc[FS] = "dev_got"
               /\ Awaits(x) => Awaits(x)'
    <3>1. AtTty(x)' => tty_left /\ tty_procnr = x
      BY DEF AtTty
    <3>2. Taken(x)' => AtTty(x) /\ ~tty_left
      <4> HAVE Taken(x)'
      <4>1. pc[FS] = "got" /\ (box[TTY].source = x \/ box[TTY].body = Body("RESUME_PROC", x))
        BY DEF Taken
      <4>2. TtyTells(box[TTY], "RESUME_PROC", u) /\ ~tty_left
        BY <1>2, <1>3, <4>1
      <4>3. box[TTY].body = Body("RESUME_PROC", x)
        BY <4>1, <4>2 DEF TtyTells
      <4> QED
        BY <4>2, <4>3 DEF AtTty
    <3>3. Serves(x)' => Serves(x) /\ pc[FS] = "dev_got"
      BY <1>2 DEF Serves
    <3>4. Awaits(x) => Awaits(x)'
      BY DEF Awaits
    <3> QED
      BY <3>1, <3>2, <3>3, <3>4
  <2>2. Suspending => Suspending'
    BY <1>2 DEF Suspending, FsAsked
  <2> QED
    BY <2>1, <2>2 DEF OneKeeper, AtTty
<1> QED
  BY <1>4, <1>5, <1>6, <1>7, <1>8, <1>9

\* FS goes on although its request was overtaken by a notification.
LEMMA FsOvertaken ==
    ASSUME Running, OnlyMoves(FS), ProgKeeps, Sends(FS, TTY), Free(TTY),
           offer'[FS] = R!None
    PROVE  Running'
<1> USE Names, Offers DEF Running, OnlyMoves, ProgKeeps, TtyKeeps, Free, Sends, Waits
<1>1. pc[FS] = "dev"
  BY DEF FsPlaces
<1>2. UserPlaces' /\ FsPlaces' /\ TtyPlaces'
  BY <1>1 DEF UserPlaces, FsPlaces, TtyPlaces
<1>3. FsAsked /\ FsAsked'
  BY <1>1 DEF FsAsked
<1>4. InTransit'
  BY DEF InTransit, RequestOf
<1>5. Received'
  BY <1>1, <1>3 DEF Received, IsDevRequest
<1>6. OneKeeper'
  <2>1. ASSUME NEW x \in Users
        PROVE  /\ AtTty(x)' => AtTty(x)
               /\ ~Taken(x)'
               /\ Serves(x)' => Serves(x)
               /\ Awaits(x) => Awaits(x)'
    BY <1>1 DEF Awaits, AtTty, Taken, Serves
  <2>2. ~Suspending
    BY <1>1 DEF Suspending
  <2> QED
    BY <2>1, <2>2 DEF OneKeeper
<1> QED
  BY <1>2, <1>4, <1>5, <1>6

-----------------------------------------------------------------------------
(* What a step of a program gives, seen through the kernel *)

LEMMA MappingPrimed == DInv' => MappingFacts'
<1> QED
  BY Mapping, PTL

LEMMA GotoEffect ==
    ASSUME Running, NEW p \in Procs, NEW l, Goto(p, l)
    PROVE  /\ pc' = [x \in Procs |-> pc'[x]] /\ pc'[p] = l
           /\ \A x \in Procs \ {p} : pc'[x] = pc[x]
<1>1. pc = [x \in Procs |-> pc[x]]
  BY DEF Running
<1> QED
  BY <1>1 DEF Goto

\* SEND offers the message, or the system stops and nothing else happens.
LEMMA SendStep ==
    ASSUME DInv, NEW p \in Procs, NEW d \in Procs, NEW b \in Bodies \ {HW_INT},
           SysSend(p, d, b)
    PROVE  /\ DInv'
           /\ \/ /\ halted' = "no" /\ offer'[p] = R!Send(d)
                 /\ box'[p].source = p /\ box'[p].body = b
                 /\ \A x \in Procs \ {p} : offer'[x] = offer[x] /\ box'[x] = box[x]
              \/ /\ halted' # "no" /\ UNCHANGED <<proc_state, kcall>>
                 /\ halted' # "server_assert"
                 /\ halted' = "check_deadlock" => check_deadlock(p, d)
<1>1. DInv'
  BY NextDInv DEF Next
<1>2. MappingFacts /\ MappingFacts'
  BY <1>1, Mapping, MappingPrimed
<1>3. R!OfferSend(p, d, b) \/ R!Stop
  BY <1>2, SysSendMaps
<1>4. CASE halted' = "no"
  <2>1. ~R!Stop
    BY <1>4 DEF R!Stop, stopped
  <2> QED
    BY <1>1, <1>2, <1>3, <1>4, <2>1, OfferSendEffect
<1>5. CASE halted' # "no"
  BY <1>1, <1>5 DEF SysSend, CanCall, Halt, procVars
<1> QED
  BY <1>4, <1>5

\* RECEIVE offers to receive, or takes an interrupt that was recorded.
LEMMA ReceiveStep ==
    ASSUME DInv, NEW p \in Procs, NEW s \in Sources(p), SysReceive(p, s)
    PROVE  /\ DInv' /\ halted' = "no"
           /\ \A x \in Procs \ {p} : offer'[x] = offer[x] /\ box'[x] = box[x]
           /\ \/ offer'[p] = R!Receive(s)
              \/ p \in IrqTasks /\ offer'[p] = R!None /\ box'[p] = R!HwIntMsg
<1>1. DInv'
  BY NextDInv DEF Next
<1>2. MappingFacts /\ MappingFacts'
  BY <1>1, Mapping, MappingPrimed
<1>3. R!OfferReceive(p, s) \/ (R!Notify(p) /\ box'[p] = R!HwIntMsg)
  BY <1>2, SysReceiveMaps
<1>4. halted' = "no"
  BY DEF SysReceive, CanCall
<1> QED
  BY <1>1, <1>2, <1>3, <1>4, OfferReceiveEffect, NotifyEffect

\* Between two calls the kernel does not move.
LEMMA QuietStep ==
    ASSUME DInv, UNCHANGED vars
    PROVE  /\ DInv' /\ halted' = halted /\ HandsOver(FS)' = HandsOver(FS)
           /\ \A x \in Procs : offer'[x] = offer[x] /\ box'[x] = box[x]
<1>1. DInv'
  BY NextDInv
<1>2. UNCHANGED <<proc_state, pid_sendingto, pid_recvingfrom, msg, kpc, kcall, halted>>
  BY DEF vars, procVars
<1> QED
  BY <1>1, <1>2 DEF offer, box, HandsOver, BeginsReceive, Receives

\* An assert of a server, or a store outside the table, stops the kernel as it is.
LEMMA HaltDInv ==
    ASSUME DInv, NEW why \in {"server_assert", "oob"}, Halt(why)
    PROVE  DInv'
<1>1. IInv'
  BY HaltInv DEF DInv, Stops
<1> QED
  BY <1>1 DEF DInv, Halt, procVars, SourceIsSender, Handover, OnlyIrqTasks

\* A process that FS serves is inside its call.
LEMMA ServedInCall == DInv /\ Running => AnswersOnlyCallers
<1> SUFFICES ASSUME DInv, Running, pc[FS] = "reply"
             PROVE  InCall(fs_src)
  BY DEF AnswersOnlyCallers
<1>1. fs_src \in Users /\ Serves(fs_src)
  BY DEF Running, FsPlaces, Serves
<1>2. Awaits(fs_src)
  BY <1>1 DEF Running, OneKeeper
<1>3. Waits(fs_src, FS) => InCall(fs_src)
  BY <1>1, Names, WaiterInCall
<1> QED
  BY <1>2, <1>3 DEF Awaits, InCall

LEMMA ServedInCallPrimed == DInv' /\ Running' => AnswersOnlyCallers'
<1> QED
  BY ServedInCall, PTL

\* What is left to show of a step: where everybody is when the system goes on,
\* and what it stopped for.
LEMMA Concludes ==
    ASSUME DInv', halted' = "no" => Running',
           halted' # "no" => AnswersOnlyCallers',
           halted' \in {"check_deadlock", "server_assert"} => tty_procnr' # NO_TASK
    PROVE  SInv'
BY ServedInCallPrimed DEF SInv, StopsOnlyForReads

\* A stop leaves everybody where it was; at most a user has asked meanwhile.
LEMMA StopAnswers ==
    ASSUME Running, AnswersOnlyCallers, UNCHANGED <<proc_state, kcall>>,
           pc'[FS] = "reply" => pc[FS] = "reply" /\ fs_src' = fs_src,
           \A x \in Users : pc[x] = "sent" => pc'[x] = "sent"
    PROVE  AnswersOnlyCallers'
<1>1. pc[FS] = "reply" => fs_src \in Users
  BY DEF Running, FsPlaces
<1> QED
  BY <1>1 DEF AnswersOnlyCallers, InCall

\* check_deadlock refuses nothing when the receiver is not sending itself, or
\* when nobody is sending to the sender.
LEMMA NoRefusal ==
    ASSUME DInv, NEW a \in Procs, NEW d \in Procs,
           \/ \A e : ~Sends(d, e)
           \/ \A x \in Procs : ~Sends(x, a)
    PROVE  ~check_deadlock(a, d)
<1>0. TypeOK /\ FieldsAgree
  BY DEF DInv, IInv
<1>1. CASE \A e : ~Sends(d, e)
  <2>1. SENDING \notin proc_state[d]
    BY <1>1, QueuedSends
  <2>2. SendClosed({d}) /\ ~SendsTo(d, a)
    BY <2>1 DEF SendClosed, SendsTo
  <2> QED
    BY <2>2 DEF check_deadlock
<1>2. CASE \A x \in Procs : ~Sends(x, a)
  <2>1. \A x \in Procs : ~SendsTo(x, a)
    BY <1>2, QueuedSends DEF SendsTo
  <2>2. SendClosed(Procs)
    BY <1>0 DEF SendClosed, FieldsAgree, TypeOK
  <2> QED
    BY <2>1, <2>2 DEF check_deadlock
<1> QED
  BY <1>1, <1>2

-----------------------------------------------------------------------------
(* The steps of the users and of FS *)

LEMMA UserSendSInv == ASSUME SInv, NEW u \in Users, UserSend(u) PROVE SInv'
<1> USE Names DEF UserSend, progVars
<1>1. PICK r \in Requests : SysSend(u, FS, Body(r, u))
  OBVIOUS
<1>2. Body(r, u) \in Bodies \ {HW_INT}
  <2>1. r \in BodyTypes \ {"HW_INT"}
    BY ServicesAssumption DEF BodyTypes, DeviceRequests
  <2> QED
    BY <2>1, LegalBody
<1>3. DInv /\ CanCall(u) /\ Running /\ AnswersOnlyCallers
  BY <1>1 DEF SysSend, SInv, CanCall
<1>4. Free(u) /\ ~HandsOver(FS)
  BY <1>3, CallerFree
<1>5. /\ pc' = [x \in Procs |-> pc'[x]] /\ pc'[u] = "sent"
      /\ \A x \in Procs \ {u} : pc'[x] = pc[x]
  BY <1>3, GotoEffect
<1>6. DInv'
  BY <1>1, <1>2, <1>3, SendStep
<1>7. halted' = "no" => Running'
  <2>1. SUFFICES ASSUME halted' = "no" PROVE Running'
    OBVIOUS
  <2>2. OnlyMoves(u) /\ offer'[u] = R!Send(FS) /\ box'[u].source = u /\ box'[u].body = Body(r, u)
    BY <1>1, <1>2, <1>3, <1>5, <2>1, SendStep DEF OnlyMoves
  <2>3. RequestOf(box'[u], u)
    BY <2>2, BodyFacts DEF RequestOf
  <2> QED
    BY <1>3, <1>4, <1>5, <2>2, <2>3, UserAsks DEF TtyKeeps
<1>8. halted' # "no" => AnswersOnlyCallers'
  <2>1. SUFFICES ASSUME halted' # "no" PROVE AnswersOnlyCallers'
    OBVIOUS
  <2>2. UNCHANGED <<proc_state, kcall>>
    BY <1>1, <1>2, <1>3, <2>1, SendStep
  <2> QED
    BY <1>3, <1>5, <2>2, StopAnswers
<1>9. halted' \notin {"check_deadlock", "server_assert"}
  <2>1. ~Awaits(u)
    BY <1>4, Offers DEF Awaits, Free, Waits
  <2>2. \A x \in Procs : ~Sends(x, u)
    <3>1. ~Sends(FS, u)
      BY <1>3, <2>1, Offers DEF Running, OneKeeper, FsPlaces, Serves, Sends, Free, Waits
    <3>2. ~Sends(TTY, u)
      BY <1>3, Offers DEF Running, TtyPlaces, Sends, Free, Waits
    <3>3. \A x \in Users : ~Sends(x, u)
      BY <1>3, Offers DEF Running, UserPlaces, Sends, Free, Waits
    <3> QED
      BY <3>1, <3>2, <3>3
  <2>3. ~check_deadlock(u, FS)
    BY <1>3, <2>2, NoRefusal
  <2> QED
    BY <1>1, <1>2, <1>3, <2>3, SendStep
<1> QED
  BY <1>6, <1>7, <1>8, <1>9, Concludes

LEMMA UserReceiveSInv == ASSUME SInv, NEW u \in Users, UserReceive(u) PROVE SInv'
<1> USE Names DEF UserReceive, progVars
<1>1. FS \in Sources(u)
  BY DEF Sources
<1>2. DInv /\ CanCall(u) /\ Running
  BY DEF SysReceive, SInv, CanCall
<1>3. Free(u) /\ ~HandsOver(FS)
  BY <1>2, CallerFree
<1>4. DInv' /\ halted' = "no" /\ OnlyMoves(u) /\ offer'[u] = R!Receive(FS) /\ pc'[u] = "run"
  BY <1>1, <1>2, ReceiveStep, GotoEffect DEF OnlyMoves
<1>5. Running'
  BY <1>2, <1>3, <1>4, UserWaits DEF TtyKeeps
<1> QED
  BY <1>4, <1>5, Concludes

LEMMA FsReceiveSInv == ASSUME SInv, FsReceive PROVE SInv'
<1> USE Names DEF FsReceive, progVars
<1>1. ANY \in Sources(FS)
  BY DEF Sources
<1>2. DInv /\ CanCall(FS) /\ Running
  BY DEF SysReceive, SInv, CanCall
<1>3. Free(FS)
  BY <1>2, CallerFree
<1>4. DInv' /\ halted' = "no" /\ OnlyMoves(FS) /\ offer'[FS] = R!Receive(ANY) /\ pc'[FS] = "got"
  BY <1>1, <1>2, ReceiveStep, GotoEffect DEF OnlyMoves
<1>5. Running'
  BY <1>2, <1>3, <1>4, FsWaitsForAny DEF TtyKeeps
<1> QED
  BY <1>4, <1>5, Concludes

\* What FS finds in its buffer is a request or RESUME_PROC.
LEMMA FsDispatchSInv == ASSUME SInv, FsDispatch PROVE SInv'
<1> USE Names DEF FsDispatch
<1>1. DInv /\ CanCall(FS) /\ Running /\ AnswersOnlyCallers
  BY DEF SInv, CanCall
<1>2. Free(FS) /\ box[FS] = msg[FS] /\ halted = "no"
  BY <1>1, CallerFree
<1>3. PICK u \in Users :
        \/ RequestOf(msg[FS], u)
        \/ TtyTells(msg[FS], "RESUME_PROC", u)
  BY <1>1, <1>2 DEF Running, Received
<1>4. TtyKeeps
  BY DEF TtyKeeps
<1>5. CASE msg[FS].body.type \in DeviceRequests
  <2>1. RequestOf(msg[FS], u)
    BY <1>3, <1>5, BodyFacts DEF TtyTells, DeviceRequests
  <2>2. msg[FS].source = u /\ Taken(u)
    BY <1>2, <2>1 DEF RequestOf, Taken
  <2>3. PICK t \in {"DEV_READ", "DEV_WRITE"} :
          SysSend(FS, TTY, Body(t, u)) /\ fs_src' = u /\ Goto(FS, "dev")
    BY <1>5, <2>2 DEF DevType, DeviceRequests
  <2>4. Body(t, u) \in Bodies \ {HW_INT}
    <3>1. t \in BodyTypes \ {"HW_INT"}
      BY DEF BodyTypes
    <3> QED
      BY <3>1, LegalBody
  <2>5. /\ pc' = [x \in Procs |-> pc'[x]] /\ pc'[FS] = "dev"
        /\ \A x \in Procs \ {FS} : pc'[x] = pc[x]
    BY <1>1, <2>3, GotoEffect
  <2>6. DInv'
    BY <1>1, <2>3, <2>4, SendStep
  <2>7. halted' = "no" => Running'
    <3>1. SUFFICES ASSUME halted' = "no" PROVE Running'
      OBVIOUS
    <3>2. OnlyMoves(FS) /\ offer'[FS] = R!Send(TTY) /\ box'[FS].source = FS /\ box'[FS].body = Body(t, u)
      BY <1>1, <2>3, <2>4, <2>5, <3>1, SendStep DEF OnlyMoves
    <3>3. box'[FS].body \in {Body("DEV_READ", u), Body("DEV_WRITE", u)}
      BY <3>2
    <3> QED
      BY <1>1, <1>2, <1>4, <2>2, <2>3, <2>5, <3>2, <3>3, FsTakesUp
  <2>8. halted' # "no" => AnswersOnlyCallers'
    BY <2>5 DEF AnswersOnlyCallers
  <2>9. halted' \in {"check_deadlock", "server_assert"} => tty_procnr' # NO_TASK
    <3>1. SUFFICES ASSUME tty_procnr = NO_TASK
                   PROVE  halted' \notin {"check_deadlock", "server_assert"}
      OBVIOUS
    <3>2. ~Sends(TTY, FS)
      BY <1>1, <3>1 DEF Running, InTransit, FsAsked
    <3>3. \A e : ~Sends(TTY, e)
      BY <1>1, <3>2, Offers DEF Running, TtyPlaces, Sends, Free, Waits
    <3>4. ~check_deadlock(FS, TTY)
      BY <1>1, <3>3, NoRefusal
    <3> QED
      BY <1>1, <2>3, <2>4, <3>4, SendStep
  <2> QED
    BY <2>6, <2>7, <2>8, <2>9, Concludes
<1>6. CASE msg[FS].body.type \notin DeviceRequests
  <2>1. PICK v \in Users : fs_src' = v /\ Taken(v) /\ Goto(FS, "reply") /\ UNCHANGED vars
    <3>1. CASE msg[FS].body.type = "FS_LSEEK"
      <4>1. RequestOf(msg[FS], u)
        BY <1>3, <3>1, BodyFacts DEF TtyTells
      <4> QED
        BY <1>2, <1>6, <3>1, <4>1 DEF RequestOf, Taken
    <3>2. CASE msg[FS].body.type # "FS_LSEEK"
      <4>1. TtyTells(msg[FS], "RESUME_PROC", u)
        BY <1>3, <1>6, <3>2, ServicesAssumption DEF RequestOf
      <4>2. msg[FS].body = Body("RESUME_PROC", u) /\ msg[FS].body.type = "RESUME_PROC" /\ msg[FS].body.proc = u
        BY <4>1, BodyFacts DEF TtyTells
      <4> QED
        BY <1>2, <1>6, <3>2, <4>2 DEF Taken
    <3> QED
      BY <3>1, <3>2
  <2>2. DInv' /\ halted' = "no" /\ OnlyMoves(FS) /\ pc'[FS] = "reply" /\ offer'[FS] = R!None
    BY <1>1, <1>2, <2>1, QuietStep, GotoEffect DEF OnlyMoves, Free
  <2>3. Running'
    BY <1>1, <1>2, <1>4, <2>1, <2>2, FsTakesUp
  <2> QED
    BY <2>2, <2>3, Concludes
<1> QED
  BY <1>5, <1>6

LEMMA FsDevReceiveSInv == ASSUME SInv, FsDevReceive PROVE SInv'
<1> USE Names DEF FsDevReceive, progVars
<1>1. TTY \in Sources(FS)
  BY DEF Sources
<1>2. DInv /\ CanCall(FS) /\ Running
  BY DEF SysReceive, SInv, CanCall
<1>3. Free(FS)
  BY <1>2, CallerFree
<1>4. DInv' /\ halted' = "no" /\ OnlyMoves(FS) /\ offer'[FS] = R!Receive(TTY) /\ pc'[FS] = "dev_got"
  BY <1>1, <1>2, ReceiveStep, GotoEffect DEF OnlyMoves
<1>5. Running'
  BY <1>2, <1>3, <1>4, FsWaitsForTty DEF TtyKeeps
<1> QED
  BY <1>4, <1>5, Concludes

\* The assert fails only over a RESUME_PROC, and only a read can be resumed; when
\* the counts are equal FS answers its caller, which still waits.
LEMMA FsDevGotSInv == ASSUME SInv, FsDevGot PROVE SInv'
<1> USE Names DEF FsDevGot, progVars
<1>1. DInv /\ CanCall(FS) /\ Running /\ AnswersOnlyCallers
  BY DEF SInv, CanCall
<1>2. Free(FS) /\ box[FS] = msg[FS] /\ halted = "no"
  BY <1>1, CallerFree
<1>3. CASE Halt("server_assert") /\ msg[FS].body.type = "RESUME_PROC" /\ UNCHANGED pc
  <2>1. tty_procnr \in Users
    BY <1>1, <1>2, <1>3, BodyFacts DEF Running, Received, TtyTells
  <2>2. DInv'
    BY <1>1, <1>3, HaltDInv
  <2>3. AnswersOnlyCallers'
    BY <1>1, <1>3, StopAnswers DEF Halt, procVars
  <2>4. halted' # "no" /\ tty_procnr' # NO_TASK
    BY <1>3, <2>1 DEF Halt
  <2> QED
    BY <2>2, <2>3, <2>4, Concludes
<1>4. CASE /\ UNCHANGED vars
           /\ \/ Goto(FS, "reply") /\ msg[FS].body.type # "SUSPEND_PROC"
              \/ Goto(FS, "loop")
  <2>1. /\ DInv' /\ halted' = "no" /\ OnlyMoves(FS) /\ offer'[FS] = R!None
        /\ \/ pc'[FS] = "reply" /\ box[FS].body.type # "SUSPEND_PROC"
           \/ pc'[FS] = "loop"
    BY <1>1, <1>2, <1>4, QuietStep, GotoEffect DEF OnlyMoves, Free
  <2>2. Running'
    BY <1>1, <1>2, <2>1, FsHasAnswer DEF TtyKeeps
  <2> QED
    BY <2>1, <2>2, Concludes
<1> QED
  BY <1>3, <1>4

LEMMA FsReplySInv == ASSUME SInv, FsReply PROVE SInv'
<1> USE Names DEF FsReply, progVars
<1>1. DInv /\ CanCall(FS) /\ Running /\ AnswersOnlyCallers
  BY DEF SysSend, SInv, CanCall
<1>2. Free(FS) /\ fs_src \in Users
  BY <1>1, CallerFree DEF Running, FsPlaces
<1>3. Body("SYSCALL_RET", msg[FS].body.proc) \in Bodies \ {HW_INT}
  <2>1. "SYSCALL_RET" \in BodyTypes \ {"HW_INT"}
    BY DEF BodyTypes
  <2>2. msg[FS].body \in Bodies
    BY <1>1 DEF DInv, IInv, TypeOK, Messages
  <2>3. msg[FS].body.proc \in Users \cup {NO_TASK}
    BY <2>2, ServicesAssumption
  <2> QED
    BY <2>1, <2>3, LegalBody
<1>4. /\ pc' = [x \in Procs |-> pc'[x]] /\ pc'[FS] = "loop"
      /\ \A x \in Procs \ {FS} : pc'[x] = pc[x]
  BY <1>1, GotoEffect
<1>5. DInv'
  BY <1>1, <1>2, <1>3, SendStep
<1>6. halted' = "no" => Running'
  <2>1. SUFFICES ASSUME halted' = "no" PROVE Running'
    OBVIOUS
  <2>2. OnlyMoves(FS) /\ offer'[FS] = R!Send(fs_src)
    BY <1>1, <1>2, <1>3, <1>4, <2>1, SendStep DEF OnlyMoves
  <2> QED
    BY <1>1, <1>2, <1>4, <2>2, FsAnswers DEF TtyKeeps
<1>7. halted' # "no" => AnswersOnlyCallers'
  BY <1>4 DEF AnswersOnlyCallers
<1>8. halted' \notin {"check_deadlock", "server_assert"}
  <2>1. Awaits(fs_src)
    BY <1>1, <1>2 DEF Running, OneKeeper, Serves
  <2>2. \A e : ~Sends(fs_src, e)
    BY <1>1, <1>2, <2>1, Offers DEF Running, UserPlaces, Awaits, Sends, Free, Waits
  <2>3. ~check_deadlock(FS, fs_src)
    BY <1>1, <1>2, <2>2, NoRefusal
  <2> QED
    BY <1>1, <1>2, <1>3, <2>3, SendStep
<1> QED
  BY <1>5, <1>6, <1>7, <1>8, Concludes

-----------------------------------------------------------------------------
(* The steps of the terminal *)

LEMMA TtyKeySInv == ASSUME SInv, TtyKey PROVE SInv'
<1> USE Names DEF TtyKey
<1>1. DInv /\ CanCall(TTY) /\ Running /\ AnswersOnlyCallers /\ halted = "no"
  BY DEF SInv, CanCall
<1>2. Free(TTY) /\ ~HandsOver(FS)
  BY <1>1, CallerFree
<1>3. tty_left \in BOOLEAN /\ (tty_left => tty_caller = FS /\ tty_procnr \in Users)
  BY <1>1 DEF Running, TtyPlaces
<1>4. pc' = [x \in Procs |-> pc'[x]]
  BY <1>1 DEF Running
<1>5. CASE ~tty_left
  <2>1. UNCHANGED vars /\ ProgKeeps
    BY <1>3, <1>5 DEF ProgKeeps, TtyKeeps
  <2>2. /\ DInv' /\ halted' = "no" /\ HandoverGoesOn
        /\ \A x \in Procs : offer'[x] = offer[x] /\ box'[x] = box[x]
    BY <1>1, <2>1, QuietStep DEF HandoverGoesOn
  <2>3. Running'
    BY <1>1, <2>1, <2>2, NothingSeen
  <2> QED
    BY <2>2, <2>3, Concludes
<1>6. CASE tty_left
  <2>1. SysSend(TTY, FS, Body("RESUME_PROC", tty_procnr))
    BY <1>3, <1>6
  <2>2. Body("RESUME_PROC", tty_procnr) \in Bodies \ {HW_INT}
    <3>1. "RESUME_PROC" \in BodyTypes \ {"HW_INT"}
      BY DEF BodyTypes
    <3> QED
      BY <1>3, <1>6, <3>1, LegalBody
  <2>3. DInv'
    BY <1>1, <2>1, <2>2, SendStep
  <2>4. halted' = "no" => Running'
    <3>1. SUFFICES ASSUME halted' = "no" PROVE Running'
      OBVIOUS
    <3>2. OnlyMoves(TTY) /\ offer'[TTY] = R!Send(FS) /\ TtyTells(box'[TTY], "RESUME_PROC", tty_procnr)
      BY <1>1, <1>4, <2>1, <2>2, <3>1, SendStep DEF OnlyMoves, TtyTells
    <3> QED
      BY <1>1, <1>2, <1>6, <3>2, TtyResumes
  <2>5. halted' # "no" => AnswersOnlyCallers'
    <3>1. SUFFICES ASSUME halted' # "no" PROVE AnswersOnlyCallers'
      OBVIOUS
    <3>2. UNCHANGED <<proc_state, kcall>>
      BY <1>1, <2>1, <2>2, <3>1, SendStep
    <3> QED
      BY <1>1, <3>2, StopAnswers
  <2>6. tty_procnr' # NO_TASK
    BY <1>3, <1>6
  <2> QED
    BY <2>3, <2>4, <2>5, <2>6, Concludes
<1> QED
  BY <1>5, <1>6

LEMMA TtyDrainedSInv == ASSUME SInv, TtyDrained PROVE SInv'
<1> USE Names DEF TtyDrained, progVars
<1>1. DInv /\ CanCall(TTY) /\ Running /\ halted = "no"
  BY DEF SInv, CanCall
<1>2. Free(TTY)
  BY <1>1, CallerFree
<1>3. DInv' /\ halted' = "no" /\ OnlyMoves(TTY) /\ offer'[TTY] = R!None /\ pc'[TTY] = "rcv"
  BY <1>1, <1>2, QuietStep, GotoEffect DEF OnlyMoves, Free
<1>4. Running'
  BY <1>1, <1>2, <1>3, TtyGoesOn DEF TtyKeeps
<1> QED
  BY <1>3, <1>4, Concludes

LEMMA TtyReceiveSInv == ASSUME SInv, TtyReceive PROVE SInv'
<1> USE Names DEF TtyReceive, progVars
<1>1. ANY \in Sources(TTY)
  BY DEF Sources
<1>2. DInv /\ CanCall(TTY) /\ Running
  BY DEF SysReceive, SInv, CanCall
<1>3. Free(TTY)
  BY <1>2, CallerFree
<1>4. /\ DInv' /\ halted' = "no" /\ OnlyMoves(TTY) /\ pc'[TTY] = "got"
      /\ \/ offer'[TTY] = R!Receive(ANY)
         \/ offer'[TTY] = R!None /\ box'[TTY] = R!HwIntMsg
  BY <1>1, <1>2, ReceiveStep, GotoEffect DEF OnlyMoves
<1>5. Running'
  BY <1>2, <1>3, <1>4, TtyWaits DEF TtyKeeps
<1> QED
  BY <1>4, <1>5, Concludes

\* A request of FS is answered to FS; one whose source an interrupt has
\* overwritten is answered outside the table.
LEMMA TtyDispatchSInv == ASSUME SInv, TtyDispatch PROVE SInv'
<1> USE Names DEF TtyDispatch
<1>1. DInv /\ CanCall(TTY) /\ Running /\ AnswersOnlyCallers /\ halted = "no"
  BY DEF SInv, CanCall
<1>2. Free(TTY) /\ box[TTY] = msg[TTY] /\ ~HandsOver(FS)
  BY <1>1, CallerFree
<1>3. /\ pc' = [x \in Procs |-> pc'[x]] /\ pc'[TTY] = "scan"
      /\ \A x \in Procs \ {TTY} : pc'[x] = pc[x]
  BY <1>1, GotoEffect
<1>4. CASE msg[TTY].body.type \notin {"DEV_READ", "DEV_WRITE"}
  <2>1. UNCHANGED vars /\ TtyKeeps
    BY <1>4 DEF TtyKeeps
  <2>2. DInv' /\ halted' = "no" /\ OnlyMoves(TTY) /\ offer'[TTY] = R!None
    BY <1>1, <1>2, <1>3, <2>1, QuietStep DEF OnlyMoves, Free
  <2>3. Running'
    BY <1>1, <1>2, <1>3, <2>1, <2>2, TtyGoesOn
  <2> QED
    BY <2>2, <2>3, Concludes
<1>5. CASE msg[TTY].body.type \in {"DEV_READ", "DEV_WRITE"}
  <2>1. msg[TTY].body.proc = fs_src /\ FsAsked /\ ~Sends(FS, TTY) /\ fs_src \in Users
    BY <1>1, <1>2, <1>5, RequestOfFs
  <2>2. msg[TTY].source \in {FS, INTERRUPT}
    BY <1>1, <1>2, <1>5, BodyFacts DEF Running, Received
  <2>3. CASE msg[TTY].source = INTERRUPT
    <3>1. Halt("oob")
      BY <1>5, <2>3 DEF TtyAnswer
    <3>2. DInv' /\ halted' = "oob" /\ UNCHANGED <<proc_state, kcall>>
      BY <1>1, <3>1, HaltDInv DEF Halt, procVars
    <3>3. AnswersOnlyCallers'
      BY <1>1, <1>3, <3>2, StopAnswers
    <3> QED
      BY <3>2, <3>3, Concludes
  <2>4. CASE msg[TTY].source = FS
    <3>1. PICK t \in {"SUSPEND_PROC", "SYSCALL_RET"} :
            /\ SysSend(TTY, FS, Body(t, fs_src))
            /\ \/ /\ msg[TTY].body.type = "DEV_READ" /\ t = "SUSPEND_PROC"
                  /\ tty_caller' = FS /\ tty_procnr' = fs_src /\ tty_left' = TRUE
               \/ msg[TTY].body.type = "DEV_WRITE" /\ t = "SYSCALL_RET" /\ TtyKeeps
      BY <1>5, <2>1, <2>4 DEF TtyAnswer, TtyKeeps
    <3>2. Body(t, fs_src) \in Bodies \ {HW_INT}
      <4>1. t \in BodyTypes \ {"HW_INT"}
        BY DEF BodyTypes
      <4> QED
        BY <2>1, <4>1, LegalBody
    <3>3. DInv'
      BY <1>1, <3>1, <3>2, SendStep
    <3>4. halted' = "no" => Running'
      <4>1. SUFFICES ASSUME halted' = "no" PROVE Running'
        OBVIOUS
      <4>2. OnlyMoves(TTY) /\ offer'[TTY] = R!Send(FS) /\ TtyTells(box'[TTY], t, fs_src)
        BY <1>1, <1>3, <3>1, <3>2, <4>1, SendStep DEF OnlyMoves, TtyTells
      <4>3. CASE t = "SUSPEND_PROC"
        BY <1>1, <1>2, <1>3, <3>1, <4>2, <4>3, TtySuspends
      <4>4. CASE t = "SYSCALL_RET"
        BY <1>1, <1>2, <1>3, <3>1, <4>2, <4>4, TtyAnswers
      <4> QED
        BY <4>3, <4>4
    <3>5. halted' # "no" => AnswersOnlyCallers'
      <4>1. SUFFICES ASSUME halted' # "no" PROVE AnswersOnlyCallers'
        OBVIOUS
      <4>2. UNCHANGED <<proc_state, kcall>>
        BY <1>1, <3>1, <3>2, <4>1, SendStep
      <4> QED
        BY <1>1, <1>3, <4>2, StopAnswers
    <3>6. halted' \notin {"check_deadlock", "server_assert"}
      <4>1. \A e : ~Sends(FS, e)
        BY <1>1, <2>1, Offers DEF Running, FsPlaces, FsAsked, Sends, Free, Waits
      <4>2. ~check_deadlock(TTY, FS)
        BY <1>1, <4>1, NoRefusal
      <4> QED
        BY <1>1, <3>1, <3>2, <4>2, SendStep
    <3> QED
      BY <3>3, <3>4, <3>5, <3>6, Concludes
  <2> QED
    BY <2>2, <2>3, <2>4
<1> QED
  BY <1>4, <1>5

-----------------------------------------------------------------------------
(* The kernel and the interrupts *)

\* SEND keeps at handing its message over until it clears the receiver's flags.
LEMMA KernelGoesOn ==
    ASSUME DInv, MappingFacts', KernelStep
    PROVE  HandoverGoesOn
<1> USE Names, Offers
<1>1. SUFFICES ASSUME HandsOver(FS), Sends(FS, TTY)' PROVE HandsOver(FS)'
  BY DEF HandoverGoesOn
<1>2. CASE \E why : Halt(why)
  BY <1>1, <1>2 DEF Halt, HandsOver
<1>3. CASE SndClear /\ ~\E why : Halt(why)
  <2>1. /\ kpc' = "user" /\ proc_state' = [proc_state EXCEPT ![kcall.peer] = @ \ {RECEIVING}]
        /\ proc_state[FS] = {} /\ kcall.peer # FS
    BY <1>1, <1>3 DEF SndClear, AllIdle, HandsOver, DInv, IInv, CallOK, Sources, SndPoints
  <2>2. proc_state'[FS] = {} /\ ~HandsOver(FS)' /\ ~BeginsReceive(FS)'
    BY <2>1 DEF HandsOver, BeginsReceive, DInv, IInv, TypeOK
  <2>3. offer'[FS] = R!None
    BY <2>2 DEF MappingFacts
  <2> QED
    BY <1>1, <2>3 DEF Sends
<1>4. CASE ~SndClear /\ ~\E why : Halt(why)
  BY <1>1, <1>4 DEF KernelStep, SndAssert, SndCopy, SndNull, RcvIntAssert, RcvScan, RcvFrom, RcvDone, HandsOver
<1> QED
  BY <1>2, <1>3, <1>4

LEMMA KernelSInv ==
    ASSUME SInv, KernelStep, UNCHANGED <<pc, progVars>>
    PROVE  SInv'
<1> USE Names
<1>1. DInv /\ halted = "no" /\ Running /\ AnswersOnlyCallers
  BY DEF SInv, KernelStep, SndAssert, SndCopy, SndNull, SndClear, RcvIntAssert, RcvScan, RcvFrom, RcvDone
<1>2. DInv'
  BY <1>1, NextDInv DEF Next
<1>3. MappingFacts /\ MappingFacts'
  BY <1>1, <1>2, Mapping, MappingPrimed
<1>4. Moves \/ UNCHANGED R!vars
  BY <1>1, <1>3, KernelMaps
<1>5. ProgKeeps
  BY DEF ProgKeeps, TtyKeeps, progVars
<1>6. HandoverGoesOn
  BY <1>1, <1>3, KernelGoesOn
<1>7. halted' = "no" => Running'
  <2>1. SUFFICES ASSUME halted' = "no" PROVE Running'
    OBVIOUS
  <2>2. ASSUME NEW p \in Procs, NEW d \in Procs, R!Meet(p, d) PROVE Running'
    <3>1. Meets(p, d)
      BY <1>3, <1>5, <2>2, MeetEffect DEF Meets
    <3>2. CASE p \in Users
      <4>1. d = FS
        BY <1>1, <3>1, <3>2, Offers DEF Meets, Running, UserPlaces, Sends, Free, Waits
      <4> QED
        BY <1>1, <3>1, <3>2, <4>1, MeetRequest
    <3>3. CASE p = FS
      <4>1. d \in Users \/ d = TTY
        BY <1>1, <3>1, <3>3, Offers DEF Meets, Running, FsPlaces, Sends, Free, Waits
      <4> QED
        BY <1>1, <3>1, <3>3, <4>1, MeetAnswer, MeetDevRequest
    <3>4. CASE p = TTY
      <4>1. d = FS
        BY <1>1, <3>1, <3>4, Offers DEF Meets, Running, TtyPlaces, Sends, Free, Waits
      <4> QED
        BY <1>1, <3>1, <3>4, <4>1, MeetTty
    <3> QED
      BY <3>2, <3>3, <3>4
  <2>3. ASSUME NEW p \in Procs, NEW t \in IrqTasks, R!Overtaken(p, t) PROVE Running'
    <3>1. /\ t = TTY /\ Sends(p, TTY) /\ Free(TTY) /\ offer'[p] = R!None
          /\ \A x \in Procs \ {p} : offer'[x] = offer[x] /\ box'[x] = box[x]
      BY <1>3, <2>3, OvertakenEffect
    <3>2. p = FS
      BY <1>1, <3>1, Offers DEF Running, UserPlaces, TtyPlaces, Sends, Free, Waits
    <3>3. OnlyMoves(FS)
      BY <1>1, <1>5, <3>1, <3>2 DEF OnlyMoves, ProgKeeps, Running
    <3> QED
      BY <1>1, <1>5, <3>1, <3>2, <3>3, FsOvertaken
  <2>4. CASE UNCHANGED R!vars
    BY <1>1, <1>5, <1>6, <2>4, NothingSeen DEF R!vars
  <2>5. ~R!Stop
    BY <2>1 DEF R!Stop, stopped
  <2> QED
    BY <1>4, <2>2, <2>3, <2>4, <2>5 DEF Moves
<1>8. halted' # "no" => UNCHANGED <<proc_state, kcall>> /\ halted' \notin {"check_deadlock", "server_assert"}
  BY <1>1 DEF KernelStep, SndAssert, SndCopy, SndNull, SndClear, RcvIntAssert, RcvScan,
              ScanAny, ScanProc, ScanInterrupt, TakeFrom, StartReceiving, RcvFrom, RcvDone, Halt, procVars
<1>9. halted' # "no" => AnswersOnlyCallers'
  BY <1>1, <1>5, <1>8, StopAnswers DEF ProgKeeps
<1> QED
  BY <1>2, <1>7, <1>8, <1>9, Concludes

LEMMA ClockIrqSInv == ASSUME SInv, ClockIrq PROVE SInv'
<1> USE Names DEF ClockIrq
<1>1. DInv /\ halted = "no" /\ Running
  BY DEF SInv, HwInt
<1>2. DInv'
  BY <1>1, NextDInv DEF Next
<1>3. MappingFacts /\ MappingFacts'
  BY <1>1, <1>2, Mapping, MappingPrimed
<1>4. ProgKeeps
  BY DEF ProgKeeps, TtyKeeps, progVars
<1>5. HandoverGoesOn
  BY DEF HwInt, Halt, HandoverGoesOn, HandsOver
<1>6. CASE UNCHANGED R!vars
  <2>1. halted' = "no"
    BY <1>1, <1>6 DEF R!vars, stopped
  <2>2. Running'
    BY <1>1, <1>4, <1>5, <1>6, NothingSeen DEF R!vars
  <2> QED
    BY <1>2, <2>1, <2>2, Concludes
<1>7. CASE /\ R!Notify(TTY) /\ offer[TTY] \in {R!Receive(ANY), R!Receive(INTERRUPT)}
           /\ \/ box'[TTY] = R!HwIntMsg
              \/ \E p \in R!Sent(TTY) :
                   /\ HandsOver(p)
                   /\ box'[TTY] = box[p] \/ box'[TTY] = [box[p] EXCEPT !.source = INTERRUPT]
  <2>1. /\ offer'[TTY] = R!None /\ stopped' = stopped
        /\ \A x \in Procs \ {TTY} : offer'[x] = offer[x] /\ box'[x] = box[x]
    BY <1>3, <1>7, NotifyEffect
  <2>2. halted' = "no"
    BY <1>1, <2>1 DEF stopped
  <2>3. Waits(TTY, ANY)
    BY <1>1, <1>7, Offers, ConstantsAssumption DEF Running, TtyPlaces, Waits, Free, Sends
  <2>4. OnlyMoves(TTY)
    BY <1>1, <1>4, <2>1 DEF OnlyMoves, ProgKeeps, Running
  <2>5. \/ box'[TTY] = R!HwIntMsg
        \/ /\ Sends(FS, TTY) /\ HandsOver(FS)
           /\ box'[TTY].source \in {FS, INTERRUPT} /\ box'[TTY].body = box[FS].body
    <3>1. SUFFICES ASSUME NEW p \in Procs, Sends(p, TTY), HandsOver(p),
                          box'[TTY] = box[p] \/ box'[TTY] = [box[p] EXCEPT !.source = INTERRUPT]
                   PROVE  /\ Sends(FS, TTY) /\ HandsOver(FS)
                          /\ box'[TTY].source \in {FS, INTERRUPT} /\ box'[TTY].body = box[FS].body
      BY <1>7 DEF R!Sent, Sends
    <3>2. p = FS
      BY <1>1, <3>1, Offers DEF Running, UserPlaces, TtyPlaces, Sends, Free, Waits
    <3>3. box[FS].source = FS
      BY <1>1, <3>1, <3>2 DEF Running, InTransit
    <3>4. box[FS] \in Messages
      <4>1. ~Receives(FS)
        BY <1>1, <3>1, <3>2 DEF HandsOver, Receives, BeginsReceive, DInv, IInv, CallerState, AllIdle, SndPoints
      <4> QED
        BY <1>1, <1>3, <4>1 DEF MappingFacts, DInv, IInv, TypeOK
    <3> QED
      BY <3>1, <3>2, <3>3, <3>4 DEF Messages
  <2>6. Running'
    BY <1>1, <1>4, <1>5, <2>1, <2>3, <2>4, <2>5, TtyNotified
  <2> QED
    BY <1>2, <2>2, <2>6, Concludes
<1> QED
  BY <1>1, <1>3, <1>6, <1>7, HwIntMaps

\* Neither the keyboard's interrupt nor a stopped system moves anybody.
LEMMA QuietSInv ==
    ASSUME SInv, UNCHANGED <<vars, pc, fs_src, tty_caller, tty_procnr, tty_left>>
    PROVE  SInv'
<1>1. /\ DInv' /\ halted' = halted /\ HandoverGoesOn
      /\ \A x \in Procs : offer'[x] = offer[x] /\ box'[x] = box[x]
  BY QuietStep DEF SInv, HandoverGoesOn
<1>2. ProgKeeps
  BY DEF ProgKeeps, TtyKeeps
<1>3. halted = "no" => Running'
  BY <1>1, <1>2, NothingSeen DEF SInv
<1>4. AnswersOnlyCallers'
  BY DEF SInv, AnswersOnlyCallers, InCall, vars, procVars
<1> QED
  BY <1>1, <1>3, <1>4 DEF SInv, StopsOnlyForReads

-----------------------------------------------------------------------------
(* The theorems *)

\* At first nobody has asked for anything.
LEMMA InitSInv == ServicesInit => SInv
<1> SUFFICES ASSUME ServicesInit PROVE SInv
  OBVIOUS
<1> USE Names, Offers DEF ServicesInit
<1>1. DInv /\ R!Init
  BY InitDInv, InitMaps
<1>2. \A x \in Procs : Free(x)
  BY <1>1 DEF R!Init, Free
<1>3. /\ pc = [x \in Procs |-> pc[x]] /\ pc[FS] = "loop" /\ pc[TTY] = "scan"
      /\ \A u \in Users : pc[u] = "run"
  OBVIOUS
<1>4. UserPlaces /\ FsPlaces /\ TtyPlaces
  BY <1>2, <1>3 DEF UserPlaces, FsPlaces, TtyPlaces
<1>5. InTransit /\ Received
  BY <1>2, <1>3 DEF InTransit, Received, Free, Sends
<1>6. OneKeeper
  BY <1>2, <1>3 DEF OneKeeper, AtTty, Taken, Serves, Free, Sends
<1>7. AnswersOnlyCallers /\ StopsOnlyForReads
  BY <1>3 DEF AnswersOnlyCallers, StopsOnlyForReads, Init
<1> QED
  BY <1>1, <1>3, <1>4, <1>5, <1>6, <1>7 DEF SInv, Running

\* Every step of the users, the servers, the kernel and the interrupts keeps it.
LEMMA NextSInv == SInv /\ [ServicesNext]_svars => SInv'
<1> SUFFICES ASSUME SInv, [ServicesNext]_svars PROVE SInv'
  OBVIOUS
<1>1. ASSUME NEW u \in Users, UserSend(u) \/ UserReceive(u) PROVE SInv'
  BY <1>1, UserSendSInv, UserReceiveSInv
<1>2. CASE FsStep
  BY <1>2, FsReceiveSInv, FsDispatchSInv, FsDevReceiveSInv, FsDevGotSInv, FsReplySInv DEF FsStep
<1>3. CASE TtyStep
  BY <1>3, TtyKeySInv, TtyDrainedSInv, TtyReceiveSInv, TtyDispatchSInv DEF TtyStep
<1>4. CASE KeyboardIrq
  BY <1>4, QuietSInv DEF KeyboardIrq
<1>5. CASE ClockIrq
  BY <1>5, ClockIrqSInv
<1>6. CASE KernelStep /\ UNCHANGED <<pc, progVars>>
  BY <1>6, KernelSInv
<1>7. CASE UNCHANGED svars
  BY <1>7, QuietSInv DEF svars, progVars
<1> QED
  BY <1>1, <1>2, <1>3, <1>4, <1>5, <1>6, <1>7 DEF ServicesNext, Spin, svars

\* The invariant holds in every behaviour of the servers and their users.
LEMMA AlwaysSInv == ServicesSpec => []SInv
<1> QED
  BY InitSInv, NextSInv, PTL DEF ServicesSpec

\* FS is about to answer only a process that is inside a call: suspending and
\* resuming a read never answers a process twice, or one that asked for nothing.
THEOREM AnswersAlwaysAwaited == ServicesSpec => []AnswersOnlyCallers
<1>1. SInv => AnswersOnlyCallers
  BY DEF SInv
<1> QED
  BY <1>1, AlwaysSInv, PTL

\* Without a read that was suspended, check_deadlock refuses no SEND and FS meets
\* no message it does not expect.
THEOREM StopsAlwaysForReads == ServicesSpec => []StopsOnlyForReads
<1>1. SInv => StopsOnlyForReads
  BY DEF SInv
<1> QED
  BY <1>1, AlwaysSInv, PTL
=============================================================================

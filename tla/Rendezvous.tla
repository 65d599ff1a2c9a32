----------------------------- MODULE Rendezvous -----------------------------
(***************************************************************************)
(* What message passing promises to processes (the abstract specification  *)
(* of module Ipc).  A process offers to send a message to another one or   *)
(* to receive one; a sender and a receiver whose offers match meet, the    *)
(* message is handed over and both go on.  Queues, flags, pointers and the *)
(* order in which the kernel works do not appear.                          *)
(*                                                                         *)
(* For tasks that are notified of interrupts the promise is weaker: an     *)
(* interrupt may come in the middle of a meeting (Overtaken).              *)
(***************************************************************************)
CONSTANTS Procs, IrqTasks, ANY, INTERRUPT, Bodies, HW_INT

VARIABLES offer,    \* of each process: what it is waiting for
          box,      \* of each process: the message of its last call
          stopped   \* has an assert or a panic stopped the system?

vars == <<offer, box, stopped>>

None == [op |-> "none"]
Send(d) == [op |-> "send", peer |-> d]
Receive(s) == [op |-> "receive", peer |-> s]
Offers(p) == {Send(d) : d \in Procs \ {p}}
             \cup {Receive(s) : s \in (Procs \ {p}) \cup {ANY, INTERRUPT}}

Empty == [source |-> ANY, body |-> HW_INT]  \* nothing was received yet
Message(p, b) == [source |-> p, body |-> b]
HwIntMsg == Message(INTERRUPT, HW_INT)

Init == /\ offer = [p \in Procs |-> None]
        /\ box = [p \in Procs |-> Message(p, HW_INT)]
        /\ stopped = FALSE

OfferSend(p, d, b) ==
    /\ ~stopped /\ offer[p] = None /\ d # p
    /\ offer' = [offer EXCEPT ![p] = Send(d)]
    /\ box' = [box EXCEPT ![p] = Message(p, b)]
    /\ UNCHANGED stopped

OfferReceive(p, s) ==
    /\ ~stopped /\ offer[p] = None /\ s # p
    /\ offer' = [offer EXCEPT ![p] = Receive(s)]
    /\ box' = [box EXCEPT ![p] = Empty]
    /\ UNCHANGED stopped

Meet(p, d) ==
    /\ ~stopped
    /\ offer[p] = Send(d) /\ offer[d] \in {Receive(p), Receive(ANY)}
    /\ offer' = [offer EXCEPT ![p] = None, ![d] = None]
    /\ box' = [box EXCEPT ![d] = box[p]]
    /\ UNCHANGED stopped

\* Is a message for t under way, so that it may be mixed with a notification?
Sent(t) == {p \in Procs : offer[p] = Send(t)}

\* An interrupt is noticed by a call that waits for it, or that begins.
Notify(t) ==
    /\ ~stopped /\ t \in IrqTasks
    /\ offer[t] \in {None, Receive(ANY), Receive(INTERRUPT)}
    /\ offer' = [offer EXCEPT ![t] = None]
    /\ \E m \in {HwIntMsg}
             \cup {box[p] : p \in Sent(t)}
             \cup {[box[p] EXCEPT !.source = INTERRUPT] : p \in Sent(t)} :
          box' = [box EXCEPT ![t] = m]
    /\ UNCHANGED stopped

\* The sender goes on although a notification has taken the place of its message.
Overtaken(p, t) ==
    /\ ~stopped /\ t \in IrqTasks
    /\ offer[p] = Send(t) /\ offer[t] = None
    /\ offer' = [offer EXCEPT ![p] = None]
    /\ UNCHANGED <<box, stopped>>

Stop == ~stopped /\ stopped' = TRUE /\ UNCHANGED <<offer, box>>

Next == \/ \E p, d \in Procs, b \in Bodies : OfferSend(p, d, b)
        \/ \E p \in Procs : \E s \in Procs \cup {ANY, INTERRUPT} : OfferReceive(p, s)
        \/ \E p, d \in Procs : Meet(p, d)
        \/ \E t \in IrqTasks : Notify(t)
        \/ \E p \in Procs, t \in IrqTasks : Overtaken(p, t)
        \/ Stop

Spec == Init /\ [][Next]_vars
=============================================================================

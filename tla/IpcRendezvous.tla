--------------------------- MODULE IpcRendezvous ---------------------------
(* How the variables of Ipc stand for those of Rendezvous, which it implements. *)
EXTENDS Ipc

\* p is in the statements in which SEND hands its message to a waiting receiver.
HandsOver(p) == kcall.who = p /\ kpc \in {"snd_assert", "snd_copy", "snd_null", "snd_clear"}

\* p has begun to receive, and its fields do not say so yet.
BeginsReceive(p) == kcall.who = p /\ kpc \in {"rcv_scan", "rcv_from"}

Receives(p) == BeginsReceive(p) \/ RECEIVING \in proc_state[p]

offer == [p \in Procs |->
            CASE SENDING \in proc_state[p] -> [op |-> "send", peer |-> pid_sendingto[p]]
              [] HandsOver(p) -> [op |-> "send", peer |-> kcall.peer]
              [] BeginsReceive(p) -> [op |-> "receive", peer |-> kcall.peer]
              [] RECEIVING \in proc_state[p] /\ ~BeginsReceive(p) ->
                    [op |-> "receive", peer |-> pid_recvingfrom[p]]
              [] OTHER -> [op |-> "none"]]

\* The buffer of a process that receives may be written before it goes on.
box == [p \in Procs |-> IF Receives(p) THEN MsgOf(ANY, HW_INT) ELSE msg[p]]

stopped == halted # "no"

R == INSTANCE Rendezvous
         WITH offer <- offer, box <- box, stopped <- stopped

\* Every system call and every interrupt of the kernel is, for the processes, an
\* offer, a meeting of two matching offers, a notification, or nothing: only
\* tasks that are notified of interrupts can miss a message that was sent.
ImplementsRendezvous == R!Spec
=============================================================================

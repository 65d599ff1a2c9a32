------------------------------- MODULE MCIpc -------------------------------
(* Ipc for TLC: user processes are interchangeable. *)
EXTENDS IpcRendezvous, TLC

UserSymmetry == Permutations(Procs \ IrqTasks)
=============================================================================

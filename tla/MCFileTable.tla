---------------------------- MODULE MCFileTable ----------------------------
(* FileTable for TLC: no terminals (the root is a special file, too), a file
   system without files, and names that are interchangeable. *)
EXTENDS FileTable, TLC

MCDevices == <<>>
MCInstalled == <<>>
FileSymmetry == Permutations(Files)
=============================================================================

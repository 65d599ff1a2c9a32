----------------------------- MODULE MCFileData -----------------------------
EXTENDS FileData, TLC
\* Descriptors, and files other than the one mkfs makes, are interchangeable.
Symmetric == Permutations(Fds) \cup Permutations(Files \ {CmdTar})
MCOffsets == {-1, 0}
=============================================================================

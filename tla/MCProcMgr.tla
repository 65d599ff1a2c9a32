----------------------------- MODULE MCProcMgr -----------------------------
(* ProcMgr for TLC. *)
EXTENDS ProcMgr
=============================================================================

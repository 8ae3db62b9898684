---------------------------- MODULE MCProcManager ----------------------------
(* One slot over three generations, with background jobs and recycled ids. *)
EXTENDS ProcManager
==============================================================================

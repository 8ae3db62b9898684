----------------------------- MODULE MCShutdown ------------------------------
(* Three groups, one of them wedged; a short clock with late wake-ups. *)
EXTENDS Shutdown
==============================================================================

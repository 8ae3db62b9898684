--------------------------- MODULE ShutdownMachine ---------------------------
(***************************************************************************)
(* The TERM -> grace -> KILL machine of proc.rs (`ShutdownMachine`), as    *)
(* operators on a machine value.  `Shutdown` drives one machine against a  *)
(* clock; `ProcManager` embeds one in every restart and one in the final   *)
(* shutdown.  The two deadlines are abstracted to one flag, `late`: the    *)
(* grace period is over (while Terminating) or the reap timeout is over    *)
(* (while Killing).                                                        *)
(*                                                                         *)
(* A call of step() is two operators, because the processes run between    *)
(* its effects: FirstEntry is the SIGTERM block of the first call,         *)
(* Harvest is poll_exited() and everything after it.                       *)
(***************************************************************************)

Phase == {"Terminating", "Killing", "Done"}

\* Machines over the slots `procs`.
Machine(procs) ==
  [phase     : Phase,
   live      : SUBSET procs,
   started   : BOOLEAN,
   abandoned : SUBSET procs]

New(live) ==
  [phase     |-> IF live = {} THEN "Done" ELSE "Terminating",
   live      |-> live,
   started   |-> FALSE,
   abandoned |-> {}]

\* step() has returned early or still has to send SIGTERM.
NeedsTerm(m) == m.phase # "Done" /\ ~m.started

TermTargets(m) == m.live

\* Mistake: the clock is not started, and SIGTERM goes out in every call.
FirstEntryUnstarted(m) == m

\* The grace clock is started.
FirstEntry(m)  == [m EXCEPT !.started = TRUE]

\* Mistake: SIGKILL goes out whenever a deadline is over.
KillTargetsAgain(m, exited, late) ==
  IF m.phase # "Done" /\ late THEN m.live \ exited ELSE {}

\* Survivors get SIGKILL in the call that finds the grace period over.
KillTargets(m, exited, late) ==
  IF m.phase = "Terminating" /\ late THEN m.live \ exited ELSE {}

\* Mistake: no surrender after SIGKILL.
HarvestWaitsForever(m, exited, late) ==
  LET left == m.live \ exited
  IN  CASE m.phase = "Done" -> m
        [] m.phase # "Done" /\ left = {} ->
             [m EXCEPT !.live = {}, !.phase = "Done"]
        [] m.phase = "Terminating" /\ left # {} /\ late ->
             [m EXCEPT !.live = left, !.phase = "Killing"]
        [] OTHER -> [m EXCEPT !.live = left]

\* poll_exited() found `exited`; then Done, SIGKILL or surrender, in this order.
Harvest(m, exited, late) ==
  LET left == m.live \ exited
  IN  CASE m.phase = "Done" -> m
        [] m.phase # "Done" /\ left = {} ->
             [m EXCEPT !.live = {}, !.phase = "Done"]
        [] m.phase = "Terminating" /\ left # {} /\ late ->
             [m EXCEPT !.live = left, !.phase = "Killing"]
        [] m.phase = "Killing" /\ left # {} /\ late ->
             [m EXCEPT !.live = {}, !.abandoned = left, !.phase = "Done"]
        [] OTHER -> [m EXCEPT !.live = left]
==============================================================================

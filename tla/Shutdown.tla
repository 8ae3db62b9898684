------------------------------ MODULE Shutdown -------------------------------
(***************************************************************************)
(* ShutdownMachine::run against a clock and process groups that die when   *)
(* they like.  The loop steps, then sleeps one poll interval until the     *)
(* machine is Done.  A step is instantaneous; the time it takes is part of *)
(* the sleep that follows it (Jitter).                                     *)
(***************************************************************************)
EXTENDS ShutdownMachine, Integers

CONSTANTS
  Proc,       \* slots
  Wedged,     \* slots whose group the kernel may never get rid of
  Grace,      \* config.grace_period
  KillReap,   \* KILL_REAP_TIMEOUT
  Poll,       \* sleep between two steps
  Jitter,     \* how much longer a sleep and a step may take
  Prompt      \* a group that is not wedged is gone this long after SIGKILL

ASSUME WedgedAssumption == Wedged \subseteq Proc
ASSUME TimeAssumption ==
  /\ Grace \in Nat
  /\ KillReap \in Nat \ {0}
  /\ Poll \in Nat \ {0}
  /\ Jitter \in Nat
  /\ Prompt \in Nat
  /\ Prompt < KillReap

VARIABLES
  machine,       \* the ShutdownMachine
  pc,            \* run(): "step", "sleep" or "returned"
  now,           \* monotonic clock
  startedAt,     \* machine.started, once set
  killDeadline,  \* machine.kill_deadline, once set
  group,         \* each slot's process group
  termAt,        \* when the group was sent SIGTERM, or Never
  killAt         \* when the group was sent SIGKILL, or Never

vars == <<machine, pc, now, startedAt, killDeadline, group, termAt, killAt>>

Never == -1

\* "leader": the direct child has not been reaped.  "jobs": it has, but
\* background jobs keep the group alive.  "gone": no member left.
Group == {"leader", "jobs", "gone"}

\* Mistake: the leader is reaped, whatever it left behind.
ExitedLeaders == {p \in Proc : group[p] # "leader"}

\* RealEffects::poll_exited: reaped and the group empty.
Exited == {p \in Proc : group[p] = "gone"}

\* Mistake: the grace period ends one poll early.
LateEarly ==
  \/ machine.phase = "Terminating" /\ now - startedAt + Poll >= Grace
  \/ machine.phase = "Killing" /\ now >= killDeadline

\* Mistake: SIGKILL starts no clock of its own.
LateOneClock == now - startedAt >= Grace

\* The deadline of the current phase has passed.
Late ==
  \/ machine.phase = "Terminating" /\ now - startedAt >= Grace
  \/ machine.phase = "Killing" /\ now >= killDeadline

Init ==
  /\ \E live \in SUBSET Proc :
       /\ machine = New(live)
       /\ pc = IF live = {} THEN "returned" ELSE "step"
  /\ now = 0
  /\ startedAt = 0
  /\ killDeadline = 0
  /\ group \in [Proc -> Group]
  /\ termAt = [p \in Proc |-> Never]
  /\ killAt = [p \in Proc |-> Never]

\* First entry of step(): SIGTERM everyone and start the grace clock.
SendTerm ==
  /\ pc = "step"
  /\ NeedsTerm(machine)
  /\ machine' = FirstEntry(machine)
  /\ startedAt' = now
  /\ termAt' = [p \in Proc |-> IF p \in TermTargets(machine) THEN now ELSE termAt[p]]
  /\ UNCHANGED <<pc, now, killDeadline, group, killAt>>

\* The rest of step(): harvest, escalate once, give up at the deadline.
PollStep ==
  /\ pc = "step"
  /\ machine.started
  /\ LET killed == KillTargets(machine, Exited, Late)
     IN  /\ killAt' = [p \in Proc |-> IF p \in killed THEN now ELSE killAt[p]]
         /\ killDeadline' = IF killed = {} THEN killDeadline ELSE now + KillReap
  /\ machine' = Harvest(machine, Exited, Late)
  /\ pc' = IF machine'.phase = "Done" THEN "returned" ELSE "sleep"
  /\ UNCHANGED <<now, startedAt, group, termAt>>

\* The kernel is prompt: no clock reading finds a group that was sent SIGKILL
\* and is not wedged still there after Prompt.
Punctual(t) ==
  \A p \in Proc \ Wedged :
    (killAt[p] # Never /\ group[p] # "gone") => t <= killAt[p] + Prompt

Sleep ==
  /\ pc = "sleep"
  /\ \E d \in Poll .. Poll + Jitter :
       /\ Punctual(now + d)
       /\ now' = now + d
  /\ pc' = "step"
  /\ UNCHANGED <<machine, startedAt, killDeadline, group, termAt, killAt>>

\* The direct child exits and is reaped, leaving background jobs or nothing.
LeaderExits(p) ==
  /\ group[p] = "leader"
  /\ \E g \in {"jobs", "gone"} : group' = [group EXCEPT ![p] = g]
  /\ UNCHANGED <<machine, pc, now, startedAt, killDeadline, termAt, killAt>>

JobsEnd(p) ==
  /\ group[p] = "jobs"
  /\ group' = [group EXCEPT ![p] = "gone"]
  /\ UNCHANGED <<machine, pc, now, startedAt, killDeadline, termAt, killAt>>

Run == SendTerm \/ PollStep \/ Sleep

Next == Run \/ \E p \in Proc : LeaderExits(p) \/ JobsEnd(p)

Spec == Init /\ [][Next]_vars

\* The loop runs on; a group that was sent SIGKILL goes, unless it is wedged.
Killed(p) == killAt[p] # Never /\ (LeaderExits(p) \/ JobsEnd(p))

Fairness ==
  /\ WF_vars(Run)
  /\ \A p \in Proc \ Wedged : WF_vars(Killed(p))

FairSpec == Spec /\ Fairness

------------------------------------------------------------------------------
(* Properties *)

\* The types of the machine's fields, the clock and the groups; the machine is
\* Done exactly when it follows no slot any more.
TypeOK ==
  /\ machine \in Machine(Proc)
  /\ machine.phase = "Done" <=> machine.live = {}
  /\ pc \in {"step", "sleep", "returned"}
  /\ now \in Nat
  /\ startedAt \in Nat
  /\ killDeadline \in Nat
  /\ group \in [Proc -> Group]
  /\ termAt \in [Proc -> Nat \cup {Never}]
  /\ killAt \in [Proc -> Nat \cup {Never}]

\* proc.rs `step`: no group is sent SIGKILL before it was sent SIGTERM and
\* then had the whole grace period, however the polls fall.
KillAfterGrace ==
  \A p \in Proc : killAt[p] # Never =>
    termAt[p] # Never /\ killAt[p] >= termAt[p] + Grace

\* proc.rs `poll_exited`: run() comes back only when every group it was asked
\* to stop is empty -- background jobs of a dead child included -- or has been
\* given up on.
ReturnedMeansGone ==
  pc = "returned" =>
    \A p \in Proc : termAt[p] # Never => group[p] = "gone" \/ p \in machine.abandoned

\* proc.rs `abandoned`: nothing is given up on unless the kernel cannot kill
\* it, since a group that can die is gone before the reap timeout.
AbandonedOnlyWedged == machine.abandoned \subseteq Wedged

\* proc.rs KILL_REAP_TIMEOUT, "Shutdown must stay bounded no matter what the
\* children do": grace, reap timeout, and one overshoot of the poll for each.
ReturnsInTime == now <= Grace + KillReap + 2 * (Poll + Jitter) - 2

\* proc.rs `step`, "escalate to SIGKILL exactly once": no group is sent the
\* same signal twice by one machine.
EachSignalOnce ==
  [][\A p \in Proc :
       /\ termAt[p] # Never => termAt'[p] = termAt[p]
       /\ killAt[p] # Never => killAt'[p] = killAt[p]]_vars

\* proc.rs `run`: the loop ends, with no help from the children.
Returns == <>(pc = "returned")

\* The machine implements the abstract stop: idle, asked, forced, and then
\* settled or given up on.
Stop ==
  INSTANCE OrderlyStop WITH
    stage   <- [p \in Proc |->
                  IF termAt[p] = Never THEN "idle"
                  ELSE IF p \in machine.abandoned THEN "abandoned"
                  ELSE IF p \notin machine.live THEN "settled"
                  ELSE IF killAt[p] = Never THEN "asked" ELSE "forced"],
    present <- [p \in Proc |-> group[p] # "gone"]

\* The orderly stop of OrderlyStop, for every group of the machine.
StopsInOrder == Stop!Spec
==============================================================================

--------------------------- MODULE ShutdownProofs ----------------------------
(***************************************************************************)
(* Safety of ShutdownMachine::run for every set of slots, every grace      *)
(* period, reap timeout, poll interval and jitter.                         *)
(***************************************************************************)
EXTENDS Shutdown, ShutdownMachineProofs

Slack == Poll + Jitter

\* Nothing has happened before the first call of step().
Untouched ==
  ~machine.started =>
    /\ now = 0
    /\ machine.phase # "Killing"
    /\ machine.abandoned = {}
    /\ \A p \in Proc : termAt[p] = Never

\* The clock stamps agree with the machine: one SIGTERM time for all, one
\* SIGKILL time for all, KillReap before the deadline.
Stamps ==
  /\ startedAt = 0
  /\ \A p \in Proc : termAt[p] \in {Never, 0}
  /\ machine.started => \A p \in machine.live : termAt[p] = 0
  /\ machine.phase = "Terminating" => \A p \in Proc : killAt[p] = Never
  /\ machine.phase = "Killing" => \A p \in machine.live : killAt[p] # Never
  /\ machine.phase # "Done" => machine.abandoned = {}
  /\ \A p \in machine.abandoned : killAt[p] # Never
  /\ \A p \in Proc : killAt[p] # Never =>
       /\ termAt[p] # Never
       /\ killAt[p] >= Grace
       /\ killDeadline = killAt[p] + KillReap

\* A slot that left the machine is empty or was given up on.
LeftMeansGone ==
  \A p \in Proc : termAt[p] # Never =>
    p \in machine.live \/ p \in machine.abandoned \/ group[p] = "gone"

\* run() sleeps and steps only before the current deadline, or one poll late.
OnTime ==
  /\ pc = "returned" <=> machine.phase = "Done"
  /\ pc = "sleep" => machine.started
  /\ machine.phase = "Terminating" =>
       /\ now <= Grace + Slack - 1
       /\ pc = "sleep" => now < Grace
  /\ machine.phase = "Killing" =>
       /\ killDeadline <= Grace + Slack - 1 + KillReap
       /\ now <= killDeadline - 1 + Slack
       /\ pc = "sleep" => now < killDeadline
  /\ now <= Grace + KillReap + 2 * Slack - 2

\* The inductive invariant.
IInv ==
  /\ TypeOK
  /\ Untouched
  /\ Stamps
  /\ LeftMeansGone
  /\ OnTime
  /\ Punctual(now)
  /\ AbandonedOnlyWedged

USE DEF Never, Group, Phase, Machine

\* The initial states satisfy the inductive invariant.
LEMMA InitInv == Init => IInv
  <1> SUFFICES ASSUME Init PROVE IInv
    OBVIOUS
  <1>1. PICK live \in SUBSET Proc :
          /\ machine = New(live)
          /\ pc = IF live = {} THEN "returned" ELSE "step"
    BY DEF Init
  <1>2. TypeOK
    BY <1>1, TimeAssumption DEF Init, TypeOK, New
  <1>3. Untouched /\ Stamps /\ LeftMeansGone
    BY <1>1, TimeAssumption DEF Init, Untouched, Stamps, LeftMeansGone, New
  <1>4. OnTime /\ Punctual(now) /\ AbandonedOnlyWedged
    BY <1>1, TimeAssumption DEF Init, OnTime, Slack, Punctual, AbandonedOnlyWedged, New
  <1> QED
    BY <1>2, <1>3, <1>4 DEF IInv

\* The SIGTERM block of the first step() preserves the inductive invariant.
LEMMA SendTermInv == IInv /\ SendTerm => IInv'
  <1> SUFFICES ASSUME IInv, SendTerm PROVE IInv'
    OBVIOUS
  <1> USE DEF IInv, SendTerm, NeedsTerm, FirstEntry, TermTargets
  <1>1. TypeOK'
    BY DEF TypeOK
  <1>2. Untouched' /\ LeftMeansGone'
    BY DEF Untouched, LeftMeansGone, TypeOK
  <1>3. Stamps'
    BY DEF Stamps, Untouched, TypeOK
  <1>4. OnTime' /\ Punctual(now)' /\ AbandonedOnlyWedged'
    BY DEF OnTime, Punctual, AbandonedOnlyWedged, TypeOK
  <1> QED
    BY <1>1, <1>2, <1>3, <1>4

\* The polling part of step() preserves the inductive invariant.
LEMMA PollStepInv == IInv /\ PollStep => IInv'
  <1> SUFFICES ASSUME IInv, PollStep PROVE IInv'
    OBVIOUS
  <1> DEFINE left   == machine.live \ Exited
             killed == KillTargets(machine, Exited, Late)
             next   == Harvest(machine, Exited, Late)
  <1>1. /\ pc = "step" /\ machine.started
        /\ killAt' = [p \in Proc |-> IF p \in killed THEN now ELSE killAt[p]]
        /\ killDeadline' = IF killed = {} THEN killDeadline ELSE now + KillReap
        /\ machine' = next
        /\ pc' = IF machine'.phase = "Done" THEN "returned" ELSE "sleep"
        /\ UNCHANGED <<now, startedAt, group, termAt>>
    BY DEF PollStep
  <1>2. machine.phase # "Done"
    BY <1>1 DEF IInv, OnTime
  <1>3. Exited \in SUBSET Proc /\ Late \in BOOLEAN
    BY DEF Exited, Late
  <1>4. /\ next \in Machine(Proc)
        /\ next.started = machine.started
        /\ \/ /\ left = {} /\ next.phase = "Done" /\ next.live = {}
              /\ next.abandoned = machine.abandoned /\ killed = {}
           \/ /\ left # {} /\ Late /\ machine.phase = "Terminating"
              /\ next.phase = "Killing" /\ next.live = left
              /\ next.abandoned = machine.abandoned /\ killed = left
           \/ /\ left # {} /\ Late /\ machine.phase = "Killing"
              /\ next.phase = "Done" /\ next.live = {}
              /\ next.abandoned = left /\ killed = {}
           \/ /\ left # {} /\ ~Late
              /\ next.phase = machine.phase /\ next.live = left
              /\ next.abandoned = machine.abandoned /\ killed = {}
    <2>1. HarvestOutcome(Proc, machine, Exited, Late)
      BY <1>2, <1>3, HarvestCases DEF IInv, TypeOK
    <2> QED
      BY <2>1 DEF HarvestOutcome
  <1> HIDE DEF next, killed
  <1>5. left \in SUBSET Proc /\ \A p \in machine.live : p \in left \/ group[p] = "gone"
    <2>1. machine.live \in SUBSET Proc
      BY DEF IInv, TypeOK
    <2> QED
      BY <2>1 DEF Exited
  <1>6. TypeOK'
    <2>1. machine'.phase = "Done" <=> machine'.live = {}
      BY <1>1, <1>2, <1>4 DEF IInv, TypeOK
    <2> QED
      BY <1>1, <1>4, <1>5, <2>1, TimeAssumption DEF IInv, TypeOK
  <1>7. Untouched' /\ LeftMeansGone'
    <2>1. Untouched'
      BY <1>1, <1>4 DEF Untouched
    <2> QED
      BY <1>1, <1>4, <1>5, <2>1 DEF IInv, LeftMeansGone, Stamps, TypeOK
  <1>8. Stamps'
    <2>1. killed # {} => now >= Grace /\ \A p \in Proc : killAt[p] = Never
      BY <1>4, TimeAssumption DEF Late, IInv, Stamps, TypeOK
    <2> QED
      BY <1>1, <1>2, <1>4, <1>5, <2>1, TimeAssumption DEF IInv, Stamps, TypeOK
  <1>9. OnTime'
    BY <1>1, <1>2, <1>4, TimeAssumption DEF IInv, OnTime, Stamps, Late, Slack, TypeOK
  <1>10. Punctual(now)'
    BY <1>1, <1>4, TimeAssumption DEF IInv, Punctual, TypeOK
  <1>11. AbandonedOnlyWedged'
    <2>1. Late /\ machine.phase = "Killing" => left \subseteq Wedged
      BY <1>5, TimeAssumption
      DEF Late, IInv, Punctual, Stamps, TypeOK, Exited
    <2> QED
      BY <1>1, <1>4, <2>1 DEF IInv, AbandonedOnlyWedged
  <1> QED
    BY <1>6, <1>7, <1>8, <1>9, <1>10, <1>11 DEF IInv

\* Sleeping one poll interval preserves the inductive invariant.
LEMMA SleepInv == IInv /\ Sleep => IInv'
  <1> SUFFICES ASSUME IInv, Sleep PROVE IInv'
    OBVIOUS
  <1>1. PICK d \in Poll .. Poll + Jitter : Punctual(now + d) /\ now' = now + d
    BY DEF Sleep
  <1>2. /\ pc = "sleep" /\ pc' = "step"
        /\ UNCHANGED <<machine, startedAt, killDeadline, group, termAt, killAt>>
    BY DEF Sleep
  <1>3. TypeOK'
    BY <1>1, <1>2, TimeAssumption DEF IInv, TypeOK
  <1>4. Untouched' /\ Stamps' /\ LeftMeansGone' /\ AbandonedOnlyWedged'
    BY <1>1, <1>2
    DEF IInv, Untouched, Stamps, LeftMeansGone, AbandonedOnlyWedged, OnTime
  <1>5. OnTime'
    BY <1>1, <1>2, TimeAssumption DEF IInv, OnTime, Slack, TypeOK
  <1>6. Punctual(now)'
    BY <1>1, <1>2 DEF Punctual
  <1> QED
    BY <1>3, <1>4, <1>5, <1>6 DEF IInv

\* A group losing members preserves the inductive invariant.
LEMMA GroupInv ==
  ASSUME IInv, NEW p \in Proc, LeaderExits(p) \/ JobsEnd(p)
  PROVE  IInv'
  <1>1. PICK g \in {"jobs", "gone"} : group' = [group EXCEPT ![p] = g]
    BY DEF LeaderExits, JobsEnd
  <1>2. /\ group[p] # "gone"
        /\ UNCHANGED <<machine, pc, now, startedAt, killDeadline, termAt, killAt>>
    BY DEF LeaderExits, JobsEnd
  <1>3. TypeOK'
    BY <1>1, <1>2 DEF IInv, TypeOK
  <1>4. Untouched' /\ Stamps' /\ OnTime' /\ AbandonedOnlyWedged'
    BY <1>2 DEF IInv, Untouched, Stamps, OnTime, AbandonedOnlyWedged
  <1>5. LeftMeansGone' /\ Punctual(now)'
    BY <1>1, <1>2 DEF IInv, LeftMeansGone, Punctual, TypeOK
  <1> QED
    BY <1>3, <1>4, <1>5 DEF IInv

\* Every step preserves the inductive invariant.
LEMMA NextInv == IInv /\ [Next]_vars => IInv'
  <1> SUFFICES ASSUME IInv, [Next]_vars PROVE IInv'
    OBVIOUS
  <1>1. CASE SendTerm
    BY <1>1, SendTermInv
  <1>2. CASE PollStep
    BY <1>2, PollStepInv
  <1>3. CASE Sleep
    BY <1>3, SleepInv
  <1>4. CASE \E p \in Proc : LeaderExits(p) \/ JobsEnd(p)
    BY <1>4, GroupInv
  <1>5. CASE UNCHANGED vars
    BY <1>5 DEF vars, IInv, TypeOK, Untouched, Stamps, LeftMeansGone, OnTime,
                Punctual, AbandonedOnlyWedged
  <1> QED
    BY <1>1, <1>2, <1>3, <1>4, <1>5 DEF Next, Run

\* The inductive invariant holds in every reachable state.
LEMMA Invariance == Spec => []IInv
  BY InitInv, NextInv, PTL DEF Spec

\* Type correctness of the machine, the clock and the groups.
THEOREM TypeCorrect == Spec => []TypeOK
  <1>1. IInv => TypeOK
    BY DEF IInv
  <1> QED
    BY <1>1, Invariance, PTL

\* `step`: SIGKILL only after SIGTERM and the whole grace period.
THEOREM KillWaitsForGrace == Spec => []KillAfterGrace
  <1>1. IInv => KillAfterGrace
    BY TimeAssumption DEF IInv, Stamps, KillAfterGrace, TypeOK
  <1> QED
    BY <1>1, Invariance, PTL

\* `poll_exited`: run() returns only when every group is empty or given up on.
THEOREM ReturnLeavesNothing == Spec => []ReturnedMeansGone
  <1>1. IInv => ReturnedMeansGone
    BY DEF IInv, OnTime, LeftMeansGone, ReturnedMeansGone, TypeOK
  <1> QED
    BY <1>1, Invariance, PTL

\* `abandoned`: only a group the kernel cannot kill is given up on.
THEOREM OnlyWedgedAbandoned == Spec => []AbandonedOnlyWedged
  <1>1. IInv => AbandonedOnlyWedged
    BY DEF IInv
  <1> QED
    BY <1>1, Invariance, PTL

\* KILL_REAP_TIMEOUT: shutdown is bounded whatever the children do.
THEOREM ShutdownIsBounded == Spec => []ReturnsInTime
  <1>1. IInv => ReturnsInTime
    BY TimeAssumption DEF IInv, OnTime, Slack, ReturnsInTime, TypeOK
  <1> QED
    BY <1>1, Invariance, PTL

\* `step`, "escalate to SIGKILL exactly once": no second SIGTERM or SIGKILL.
THEOREM NoSecondSignal == Spec => EachSignalOnce
  <1> DEFINE Once == \A p \in Proc :
                       /\ termAt[p] # Never => termAt'[p] = termAt[p]
                       /\ killAt[p] # Never => killAt'[p] = killAt[p]
  <1>1. IInv /\ [Next]_vars => [Once]_vars
    <2> SUFFICES ASSUME IInv, Next PROVE Once
      OBVIOUS
    <2>1. CASE SendTerm
      BY <2>1 DEF SendTerm, NeedsTerm, IInv, Untouched, TypeOK
    <2>2. CASE PollStep
      <3>1. KillTargets(machine, Exited, Late) # {} =>
              \A p \in Proc : killAt[p] = Never
        BY DEF KillTargets, IInv, Stamps
      <3> QED
        BY <2>2, <3>1 DEF PollStep, IInv, TypeOK
    <2>3. CASE Sleep \/ \E p \in Proc : LeaderExits(p) \/ JobsEnd(p)
      BY <2>3 DEF Sleep, LeaderExits, JobsEnd
    <2> QED
      BY <2>1, <2>2, <2>3 DEF Next, Run
  <1> QED
    BY <1>1, Invariance, PTL DEF Spec, EachSignalOnce

\* The machine, polled against a clock, implements the stop that OrderlyStop
\* promises for every group.
THEOREM StopIsOrderly == Spec => StopsInOrder
  <1> DEFINE stage(p) == IF termAt[p] = Never THEN "idle"
                         ELSE IF p \in machine.abandoned THEN "abandoned"
                         ELSE IF p \notin machine.live THEN "settled"
                         ELSE IF killAt[p] = Never THEN "asked" ELSE "forced"
  <1>1. Init => Stop!Init
    BY DEF Init, Stop!Init
  <1>2. IInv /\ IInv' /\ [Next]_vars => [Stop!Next]_(Stop!vars)
    <2> SUFFICES ASSUME IInv, IInv', [Next]_vars
                 PROVE  Stop!Advance \/ Stop!Vanish \/ UNCHANGED Stop!vars
      BY DEF Stop!Next
    <2>1. CASE SendTerm
      <3>1. \A p \in Proc : stage(p)' = stage(p) \/ (stage(p) = "idle" /\ stage(p)' = "asked")
        BY <2>1 DEF SendTerm, FirstEntry, TermTargets, NeedsTerm, IInv, Untouched, Stamps, TypeOK
      <3> QED
        BY <2>1, <3>1 DEF SendTerm, Stop!Advance, Stop!Stage, Stop!Ask, Stop!Leave
    <2>2. CASE PollStep
      <3> DEFINE left   == machine.live \ Exited
                 killed == KillTargets(machine, Exited, Late)
      <3>1. HarvestOutcome(Proc, machine, Exited, Late)
        BY <2>2, HarvestCases DEF PollStep, IInv, OnTime, TypeOK, Exited, Late
      <3>2. \A p \in Proc :
              \/ stage(p)' = stage(p)
              \/ stage(p) = "asked" /\ stage(p)' = "forced"
              \/ /\ stage(p) \in {"asked", "forced"} /\ stage(p)' = "settled"
                 /\ group[p] = "gone"
              \/ stage(p) = "forced" /\ stage(p)' = "abandoned"
        BY <2>2, <3>1 DEF HarvestOutcome, PollStep, IInv, Stamps, TypeOK, Exited
      <3> QED
        BY <2>2, <3>2 DEF PollStep, Stop!Advance, Stop!Stage, Stop!Force, Stop!Settle,
                          Stop!GiveUp, Stop!Leave
    <2>3. CASE Sleep \/ UNCHANGED vars
      BY <2>3 DEF Sleep, vars, Stop!vars
    <2>4. ASSUME NEW p \in Proc, LeaderExits(p) \/ JobsEnd(p)
          PROVE  Stop!Vanish \/ UNCHANGED Stop!vars
      <3> DEFINE present == [q \in Proc |-> group[q] # "gone"]
      <3>1. PICK g \in {"jobs", "gone"} : group' = [group EXCEPT ![p] = g]
        BY <2>4 DEF LeaderExits, JobsEnd
      <3>2. group[p] # "gone" /\ UNCHANGED <<machine, termAt, killAt>>
        BY <2>4 DEF LeaderExits, JobsEnd
      <3>3. CASE g = "jobs"
        <4>1. present' = present
          BY <3>1, <3>2, <3>3 DEF IInv, TypeOK
        <4> QED
          BY <3>2, <4>1 DEF Stop!vars
      <3>4. CASE g = "gone"
        <4>1. present' = [present EXCEPT ![p] = FALSE]
          BY <3>1, <3>2, <3>4 DEF IInv, TypeOK
        <4> QED
          BY <3>2, <4>1 DEF Stop!Vanish
      <3> QED
        BY <3>1, <3>3, <3>4
    <2> QED
      BY <2>1, <2>2, <2>3, <2>4 DEF Next, Run
  <1> QED
    BY <1>1, <1>2, Invariance, PTL DEF Spec, StopsInOrder, Stop!Spec
==============================================================================

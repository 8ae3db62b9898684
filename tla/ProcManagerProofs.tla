-------------------------- MODULE ProcManagerProofs --------------------------
(***************************************************************************)
(* Safety of the slots for every number of slots and generations: types,   *)
(* one generation alive at a time, no signal from a restart to a           *)
(* generation marked finished, no made-up and no missing exit status, and  *)
(* the refinement of SlotLifecycle.                                        *)
(***************************************************************************)
EXTENDS ProcManager, ShutdownMachineProofs

\* A restart that spawns stays within the bound on generations.
NextIsBounded ==
  \A p \in Proc : IsRestarting(p) /\ restart[p].next # "none" => gen[p] < MaxGen

\* The machine of a slot is Done exactly when it follows nothing, and had not
\* given up on anything before.
MachineIsSound ==
  \A p \in Proc :
    /\ restart[p].machine.phase = "Done" <=> restart[p].machine.live = {}
    /\ restart[p].machine.abandoned = {}

\* A generation not spawned, or not yet, has no process.
UnbornIsEmpty ==
  \A p \in Proc, g \in Gens :
    g > gen[p] \/ (g = gen[p] /\ ~live[p].some) => child[p][g] = NoChild

\* What a teardown has not to kill is over; what it has to kill is unmarked.
TeardownIsSound ==
  mode = "running" =>
    \A p \in Proc : IsRestarting(p) =>
      IF restart[p].machine.live = {}
      THEN live[p].some => live[p].finished
      ELSE live[p].some /\ ~live[p].finished /\ live[p].retired = "no"

\* A generation marked finished but not retired had its leader reaped.
MarkedIsDead ==
  \A p \in Proc :
    live[p].some /\ live[p].finished /\ live[p].retired = "no" => Dead(p, gen[p])

\* A generation that is not up has been retired in no way.
NoGenerationIsBlank ==
  \A p \in Proc : ~live[p].some => live[p] = NoGeneration

\* The inductive invariant.
IInv ==
  /\ TypeOK
  /\ NextIsBounded
  /\ MachineIsSound
  /\ UnbornIsEmpty
  /\ TeardownIsSound
  /\ MarkedIsDead
  /\ NoGenerationIsBlank
  /\ FinishedMeansGone
  /\ OneGenerationAlive
  /\ OutcomeIsRecorded
  /\ RestartSparesFinished

USE SlotAssumption
    DEF Proc, Gens, Command, Kind, Outcome, Mode, Waiter, Members, Generation, Restart,
        Child, Machine, Phase, NoGeneration, NoChild, NewChild, Spawned,
        IsRestarting, Dead, Each

\* NoRestart is a restart whose machine follows nothing.
LEMMA NoRestartIsRestart ==
  /\ NoRestart \in Restart
  /\ ~NoRestart.on
  /\ NoRestart.machine.live = {}
  /\ NoRestart.machine.abandoned = {}
  /\ NoRestart.machine.phase = "Done"
  BY DEF NoRestart, New

\* The initial states satisfy the inductive invariant.
LEMMA InitInv == Init => IInv
  <1> SUFFICES ASSUME Init PROVE IInv
    OBVIOUS
  <1>1. PICK up \in SUBSET Proc :
          /\ live = [p \in Proc |-> IF p \in up THEN Spawned("std") ELSE NoGeneration]
          /\ child = [p \in Proc |-> [g \in Gens |->
                        IF p \in up /\ g = 0 THEN NewChild ELSE NoChild]]
    BY DEF Init
  <1>2. /\ live \in [Proc -> Generation]
        /\ child \in [Proc -> [Gens -> Child]]
    BY <1>1
  <1>3. restart \in [Proc -> Restart] /\ \A p \in Proc : restart[p] = NoRestart
    BY NoRestartIsRestart DEF Init
  <1>4. final \in Machine(Proc)
    BY DEF Init, New
  <1>5. TypeOK
    BY <1>1, <1>2, <1>3, <1>4, NoRestartIsRestart DEF Init, TypeOK
  <1>6. NextIsBounded /\ MachineIsSound /\ TeardownIsSound
    BY <1>3, NoRestartIsRestart DEF NextIsBounded, MachineIsSound, TeardownIsSound
  <1>7. UnbornIsEmpty /\ MarkedIsDead /\ NoGenerationIsBlank
    BY <1>1 DEF Init, UnbornIsEmpty, MarkedIsDead, NoGenerationIsBlank
  <1>8. FinishedMeansGone /\ OneGenerationAlive /\ OutcomeIsRecorded
    BY <1>1 DEF Init, FinishedMeansGone, OneGenerationAlive, OutcomeIsRecorded, Alive
  <1>9. RestartSparesFinished
    BY DEF Init, RestartSparesFinished
  <1> QED
    BY <1>5, <1>6, <1>7, <1>8, <1>9 DEF IInv

\* A step that leaves slots, processes and history alone, and the main thread in
\* the event loop or out of it, preserves everything but the types.
Quiet ==
  /\ UNCHANGED <<slotVars, child, givenUp, hits>>
  /\ mode' = "running" => mode = "running"

LEMMA QuietInv ==
  ASSUME IInv, Quiet, TypeOK'
  PROVE  IInv'
  <1> USE DEF IInv, Quiet, slotVars
  <1>1. NextIsBounded' /\ MachineIsSound' /\ UnbornIsEmpty' /\ TeardownIsSound'
    BY DEF NextIsBounded, MachineIsSound, UnbornIsEmpty, TeardownIsSound
  <1>2. MarkedIsDead' /\ NoGenerationIsBlank' /\ OutcomeIsRecorded' /\ RestartSparesFinished'
    BY DEF MarkedIsDead, NoGenerationIsBlank, OutcomeIsRecorded, RestartSparesFinished
  <1>3. FinishedMeansGone' /\ OneGenerationAlive'
    BY DEF FinishedMeansGone, OneGenerationAlive, Alive
  <1> QED
    BY <1>1, <1>2, <1>3

\* EnterTick, TickIdle and Timeout are quiet.
LEMMA ClockInv ==
  ASSUME IInv, EnterTick \/ (\E p \in Proc : TickIdle(p)) \/ (\E p \in 0 .. N : Timeout(p))
  PROVE  IInv'
  <1>1. TypeOK
    BY DEF IInv
  <1>2. ASSUME EnterTick PROVE IInv'
    <2>1. Quiet
      BY <1>2 DEF EnterTick, Quiet, slotVars, endVars
    <2>2. TypeOK'
      BY <1>1, <1>2, SMTT(30) DEF EnterTick, Advance, TypeOK, slotVars, endVars
    <2> QED
      BY <2>1, <2>2, QuietInv
  <1>3. ASSUME NEW p \in Proc, TickIdle(p) PROVE IInv'
    <2>1. Quiet
      BY <1>3 DEF TickIdle, Quiet, slotVars, endVars
    <2>2. TypeOK'
      BY <1>1, <1>3 DEF TickIdle, AtSlot, Advance, TypeOK, slotVars, endVars
    <2> QED
      BY <2>1, <2>2, QuietInv
  <1>4. ASSUME NEW p \in 0 .. N, Timeout(p) PROVE IInv'
    <2>1. Quiet
      BY <1>4 DEF Timeout, Quiet, slotVars, endVars
    <2>2. TypeOK'
      BY <1>1, <1>4 DEF Timeout, TypeOK, slotVars, endVars
    <2> QED
      BY <2>1, <2>2, QuietInv
  <1> QED
    BY <1>2, <1>3, <1>4

\* A signal of a restart goes only to generations not marked yet.
LEMMA SignalSpares ==
  ASSUME IInv, NEW targets \in SUBSET Proc, Signal("restart", targets),
         \A p \in targets : live[p].some => ~live[p].finished /\ live[p].retired = "no"
  PROVE  hits' = hits
  BY DEF Signal

\* begin() of some slots preserves the inductive invariant.
LEMMA BeginInv ==
  ASSUME IInv, mode = "running", NEW S \in SUBSET Proc, NEW next, NEW knd,
         \A q \in S : next[q] \in Command \cup {"none"} /\ knd[q] \in Kind,
         Begin(S, next, knd), UNCHANGED <<cursor, endVars>>
  PROVE  IInv'
  <1> DEFINE marked(q) == IF Confirmed(q) THEN [live[q] EXCEPT !.finished = TRUE] ELSE live[q]
             torn(q)   == [on |-> TRUE, machine |-> New(ToKill(q)), next |-> next[q],
                           kind |-> knd[q]]
  <1>1. /\ UNCHANGED <<gen, kind, child, mode, cursor, final, statuses, givenUp, hits>>
        /\ \A q \in S : ~IsRestarting(q) /\ (next[q] # "none" => gen[q] < MaxGen)
    BY DEF Begin, endVars
  <1>2. restart \in [Proc -> Restart] /\ live \in [Proc -> Generation]
    BY DEF IInv, TypeOK
  <1>3. late' \in [0 .. N -> BOOLEAN]
    BY DEF Begin, IInv, TypeOK
  <1>4. live' = [q \in Proc |-> IF q \in S THEN marked(q) ELSE live[q]]
    BY Zenon DEF Begin
  <1>5. restart' = [q \in Proc |-> IF q \in S THEN torn(q) ELSE restart[q]]
    BY Zenon DEF Begin
  <1>6. \A q \in Proc : marked(q) \in Generation
    <2> SUFFICES ASSUME NEW q \in Proc PROVE marked(q) \in Generation
      OBVIOUS
    <2>1. live[q] \in Generation
      BY <1>2
    <2>2. [live[q] EXCEPT !.finished = TRUE] \in Generation
      BY <2>1
    <2> HIDE DEF Generation
    <2> QED
      BY <2>1, <2>2
  <1>7. ASSUME NEW q \in S
        PROVE  /\ torn(q) \in Restart
               /\ torn(q).on
               /\ torn(q).next = next[q]
               /\ torn(q).machine.live = ToKill(q)
               /\ torn(q).machine.abandoned = {}
               /\ torn(q).machine.phase = "Done" <=> ToKill(q) = {}
    <2>1. ToKill(q) \in SUBSET Proc
      BY DEF ToKill
    <2>2. /\ New(ToKill(q)) \in Machine(Proc)
          /\ New(ToKill(q)).live = ToKill(q)
          /\ New(ToKill(q)).abandoned = {}
          /\ New(ToKill(q)).phase = "Done" <=> ToKill(q) = {}
      <3> HIDE DEF Machine
      <3> QED
        BY <2>1, NewMachine
    <2> HIDE DEF Machine
    <2> QED
      BY <2>2
  <1>8. \A q \in Proc : /\ marked(q).some = live[q].some
                        /\ marked(q).retired = live[q].retired
                        /\ marked(q).finished <=> live[q].finished \/ Confirmed(q)
                        /\ ~live[q].some => marked(q) = live[q]
    BY <1>2 DEF Confirmed
  <1> HIDE DEF marked, torn
  <1>9. \A q \in Proc : ToKill(q) \subseteq {q}
    BY DEF ToKill
  <1>a. /\ \A q \in Proc : live'[q] = IF q \in S THEN marked(q) ELSE live[q]
        /\ \A q \in Proc : restart'[q] = IF q \in S THEN torn(q) ELSE restart[q]
    BY <1>4, <1>5
  <1>b. \A q \in Proc : /\ live'[q].some = live[q].some
                        /\ live'[q].retired = live[q].retired
                        /\ live[q].finished => live'[q].finished
                        /\ live'[q].finished => live[q].finished \/ (q \in S /\ Confirmed(q))
                        /\ ~live[q].some => live'[q] = live[q]
    BY <1>8, <1>a
  <1>10. TypeOK'
    <2>1. live' \in [Proc -> Generation] /\ restart' \in [Proc -> Restart]
      <3> HIDE DEF Generation, Restart
      <3> QED
        BY <1>2, <1>4, <1>5, <1>6, <1>7
    <2>2. \A p \in Proc : restart'[p].machine.live \cup restart'[p].machine.abandoned \subseteq {p}
      <3>1. \A p \in Proc : restart[p].machine.live \cup restart[p].machine.abandoned \subseteq {p}
        BY DEF IInv, TypeOK
      <3> QED
        BY <1>7, <1>9, <1>a, <3>1
    <2>3. mode' = "running" => \A p \in Proc : live'[p].retired # "no" => live'[p].finished
      BY <1>1, <1>b DEF IInv, TypeOK
    <2> HIDE DEF Generation, Restart, Child, Machine
    <2> QED
      BY <1>1, <1>3, <2>1, <2>2, <2>3 DEF IInv, TypeOK
  <1>11. NextIsBounded' /\ MachineIsSound'
    BY <1>1, <1>7, <1>a DEF IInv, NextIsBounded, MachineIsSound
  <1>12. UnbornIsEmpty' /\ NoGenerationIsBlank' /\ OutcomeIsRecorded' /\ RestartSparesFinished'
    <2> HIDE DEF NoGeneration, NoChild
    <2> QED
      BY <1>1, <1>b
      DEF IInv, UnbornIsEmpty, NoGenerationIsBlank, OutcomeIsRecorded, RestartSparesFinished
  <1>13. TeardownIsSound'
    <2> SUFFICES ASSUME NEW q \in Proc, restart'[q].on
                 PROVE  IF restart'[q].machine.live = {}
                        THEN live'[q].some => live'[q].finished
                        ELSE live'[q].some /\ ~live'[q].finished /\ live'[q].retired = "no"
      BY <1>1 DEF TeardownIsSound
    <2>1. CASE q \notin S
      BY <1>a, <2>1 DEF IInv, TeardownIsSound
    <2>2. CASE q \in S /\ ToKill(q) = {}
      <3>1. live[q].some => marked(q).finished
        BY <1>8, <2>2 DEF ToKill
      <3> QED
        BY <1>7, <1>8, <1>a, <2>2, <3>1
    <2>3. CASE q \in S /\ ToKill(q) # {}
      <3>1. live[q].some /\ ~live[q].finished /\ ~Confirmed(q) /\ live[q].retired = "no"
        BY <2>3 DEF ToKill, IInv, TypeOK
      <3> QED
        BY <1>7, <1>8, <1>a, <2>3, <3>1
    <2> QED
      BY <2>1, <2>2, <2>3
  <1>14. MarkedIsDead' /\ FinishedMeansGone' /\ OneGenerationAlive'
    <2>1. \A p \in Proc, g \in Gens : Alive(p, g)' = Alive(p, g) /\ Dead(p, g)' = Dead(p, g)
      BY <1>1 DEF Alive
    <2>2. \A q \in S : Confirmed(q) => Dead(q, gen[q]) /\ ~Alive(q, gen[q])
      BY DEF Confirmed, GroupGone, Alive
    <2>3. \A p \in Proc : gen[p] \in Gens
      BY DEF IInv, TypeOK
    <2> HIDE DEF Dead
    <2> QED
      BY <1>1, <1>b, <2>1, <2>2, <2>3 DEF IInv, MarkedIsDead, FinishedMeansGone, OneGenerationAlive
  <1> QED
    BY <1>10, <1>11, <1>12, <1>13, <1>14 DEF IInv

\* What the event loop may ask between two calls of tick(): begin() of some slots.
Asks ==
  /\ mode = "running" /\ UNCHANGED <<cursor, endVars>>
  /\ \E S \in SUBSET Proc : \E next, knd :
       /\ \A q \in S : next[q] \in Command \cup {"none"} /\ knd[q] \in Kind
       /\ Begin(S, next, knd)

LEMMA AskIsAsks ==
  ASSUME IInv, NEW p \in Proc, Ask(p)
  PROVE  Asks
  <1>1. mode = "running" /\ UNCHANGED <<cursor, endVars>>
    BY DEF Ask
  <1>2. \E next, knd : /\ next[p] \in Command \cup {"none"} /\ knd[p] \in Kind
                       /\ Begin({p}, next, knd)
    <2>1. kind[p] \in Kind /\ CurrentCommand(p) \in Command
      BY DEF IInv, TypeOK, CurrentCommand
    <2> HIDE DEF Kind, Command
    <2>2. \A v : Each(v)[p] = v
      OBVIOUS
    <2>3. {"std", "ovr"} \subseteq Command /\ {"Standard", "Override"} \subseteq Kind
      BY DEF Command, Kind
    <2> HIDE DEF Each
    <2> QED
      BY <2>1, <2>2, <2>3 DEF Ask, Replace, ReplaceWith, KillSlot, StopSlot
  <1>3. {p} \in SUBSET Proc
    OBVIOUS
  <1> HIDE DEF Command, Kind
  <1>4. \E next, knd : /\ \A q \in {p} : next[q] \in Command \cup {"none"} /\ knd[q] \in Kind
                       /\ Begin({p}, next, knd)
    BY <1>2
  <1> QED
    BY <1>1, <1>3, <1>4 DEF Asks

\* The SIGTERM of a restart preserves the inductive invariant: it goes to a
\* generation that is not marked.
LEMMA TickTermInv ==
  ASSUME IInv, NEW q \in Proc, TickTerm(q)
  PROVE  IInv'
  <1> DEFINE m == restart[q].machine
  <1>1. /\ UNCHANGED <<gen, kind, live, late, child, cursor, mode, final, statuses, givenUp>>
        /\ mode = "running" /\ restart[q].on
        /\ restart' = [restart EXCEPT ![q].machine = FirstEntry(m)]
    BY DEF TickTerm, AtSlot, endVars
  <1>2. restart \in [Proc -> Restart]
    BY DEF IInv, TypeOK
  <1>3. restart' = [restart EXCEPT ![q] = [restart[q] EXCEPT !.machine = FirstEntry(m)]]
    BY <1>1, <1>2
  <1>4. /\ FirstEntry(m) \in Machine(Proc)
        /\ FirstEntry(m).live = m.live
        /\ FirstEntry(m).phase = m.phase
        /\ FirstEntry(m).abandoned = m.abandoned
    <2>1. m \in Machine(Proc)
      BY <1>2
    <2> HIDE DEF m
    <2> QED
      BY <2>1 DEF FirstEntry
  <1>5. restart' \in [Proc -> Restart]
    <2> HIDE DEF Machine, m
    <2>1. [restart[q] EXCEPT !.machine = FirstEntry(m)] \in Restart
      BY <1>2, <1>4
    <2> QED
      BY <1>2, <1>3, <2>1
  <1>6. \A p \in Proc : /\ restart'[p].on = restart[p].on
                        /\ restart'[p].next = restart[p].next
                        /\ restart'[p].machine.live = restart[p].machine.live
                        /\ restart'[p].machine.phase = restart[p].machine.phase
                        /\ restart'[p].machine.abandoned = restart[p].machine.abandoned
    BY <1>2, <1>3, <1>4
  <1>7. hits' = hits
    <2>1. Signal("restart", m.live)
      BY DEF TickTerm, TermTargets
    <2>2. \A p \in m.live : p = q /\ ~live[p].finished /\ live[p].retired = "no"
      BY <1>1 DEF IInv, TypeOK, TeardownIsSound
    <2>3. m.live \in SUBSET Proc
      BY <1>2
    <2> QED
      BY <2>1, <2>2, <2>3, SignalSpares
  <1>8. TypeOK'
    <2> HIDE DEF Machine, Restart
    <2> QED
      BY <1>1, <1>5, <1>6, <1>7 DEF IInv, TypeOK
  <1>9. NextIsBounded' /\ MachineIsSound' /\ TeardownIsSound'
    BY <1>1, <1>6 DEF IInv, NextIsBounded, MachineIsSound, TeardownIsSound
  <1>10. UnbornIsEmpty' /\ MarkedIsDead' /\ NoGenerationIsBlank'
    BY <1>1 DEF IInv, UnbornIsEmpty, MarkedIsDead, NoGenerationIsBlank
  <1>11. FinishedMeansGone' /\ OneGenerationAlive' /\ OutcomeIsRecorded' /\ RestartSparesFinished'
    BY <1>1, <1>7 DEF IInv, FinishedMeansGone, OneGenerationAlive, OutcomeIsRecorded,
                      RestartSparesFinished, Alive
  <1> QED
    BY <1>8, <1>9, <1>10, <1>11 DEF IInv

\* The steps of waiter threads, children and the kernel: they change one
\* generation's entry, never bring a process back, and never undo `dead`.
ChildStep(q, h) ==
  /\ UNCHANGED <<slotVars, late, cursor, endVars, givenUp, hits>>
  /\ child' \in [Proc -> [Gens -> Child]]
  /\ \A p \in Proc, g \in Gens : p # q \/ g # h => child'[p][g] = child[p][g]
  /\ child[q][h] # NoChild
  /\ Alive(q, h)' => Alive(q, h)
  /\ Dead(q, h) => Dead(q, h)'

LEMMA ChildStepInv ==
  ASSUME IInv, NEW q \in Proc, NEW h \in Gens, ChildStep(q, h)
  PROVE  IInv'
  <1>1. /\ UNCHANGED <<gen, kind, live, restart, late, cursor, mode, final, statuses, givenUp, hits>>
        /\ \A p \in Proc, g \in Gens :
             /\ Alive(p, g)' => Alive(p, g)
             /\ Dead(p, g) => Dead(p, g)'
             /\ child[p][g] = NoChild => child'[p][g] = NoChild
    BY DEF ChildStep, slotVars, endVars, Alive
  <1>2. TypeOK'
    <2> HIDE DEF Child, Machine, Restart, Generation
    <2> QED
      BY <1>1 DEF IInv, TypeOK, ChildStep
  <1>3. NextIsBounded' /\ MachineIsSound' /\ TeardownIsSound'
    BY <1>1 DEF IInv, NextIsBounded, MachineIsSound, TeardownIsSound
  <1>4. UnbornIsEmpty' /\ NoGenerationIsBlank'
    BY <1>1 DEF IInv, UnbornIsEmpty, NoGenerationIsBlank
  <1>5. \A p \in Proc : gen[p] \in Gens
    BY DEF IInv, TypeOK
  <1> HIDE DEF Dead
  <1>6. MarkedIsDead' /\ FinishedMeansGone' /\ OneGenerationAlive'
    BY <1>1, <1>5 DEF IInv, MarkedIsDead, FinishedMeansGone, OneGenerationAlive
  <1>7. OutcomeIsRecorded' /\ RestartSparesFinished'
    BY <1>1 DEF IInv, OutcomeIsRecorded, RestartSparesFinished
  <1> QED
    BY <1>2, <1>3, <1>4, <1>6, <1>7 DEF IInv

\* Each step of a waiter thread, a child or the kernel is one of these.
LEMMA ProcessesStep ==
  ASSUME IInv, NEW p \in Proc, NEW g \in Gens,
         \/ WaiterReaps(p, g) \/ WaiterRecords(p, g) \/ WaiterMarks(p, g) \/ WaiterSends(p, g)
         \/ JobsStart(p, g) \/ JobsEnd(p, g) \/ IdRecycled(p, g) \/ StrangerLeaves(p, g)
  PROVE  ChildStep(p, g)
  <1>1. child \in [Proc -> [Gens -> Child]]
    BY DEF IInv, TypeOK
  <1>2. ASSUME NEW c \in Child, SetChild(p, g, c), OnlyChild, child[p][g] # NoChild,
               c.waiter = "waiting" \/ c.members = "jobs" => Alive(p, g),
               Dead(p, g) => c.waiter \in {"dead", "sent"}
        PROVE  ChildStep(p, g)
    <2>1. child' = [child EXCEPT ![p] = [child[p] EXCEPT ![g] = c]]
      BY <1>2 DEF SetChild
    <2>2. child'[p][g] = c
      BY <1>1, <2>1
    <2> HIDE DEF Child
    <2>3. child' \in [Proc -> [Gens -> Child]]
      BY <1>1, <1>2, <2>1
    <2>4. \A q \in Proc, h \in Gens : q # p \/ h # g => child'[q][h] = child[q][h]
      BY <1>1, <2>1
    <2> QED
      BY <1>2, <2>2, <2>3, <2>4 DEF ChildStep, OnlyChild, Alive
  <1>3. child[p][g] \in Child
    BY <1>1
  <1>4. ASSUME NEW from \in Waiter, NEW to \in Waiter, WaiterSteps(from, to, p, g),
               <<from, to>> \in {<<"waiting", "reaped">>, <<"reaped", "recorded">>,
                                 <<"recorded", "dead">>, <<"dead", "sent">>}
        PROVE  ChildStep(p, g)
    <2>1. [child[p][g] EXCEPT !.waiter = to] \in Child
      BY <1>3
    <2> QED
      BY <1>2, <1>3, <1>4, <2>1 DEF WaiterSteps, Alive
  <1>5. CASE WaiterReaps(p, g) \/ WaiterRecords(p, g) \/ WaiterMarks(p, g) \/ WaiterSends(p, g)
    BY <1>4, <1>5 DEF WaiterReaps, WaiterRecords, WaiterMarks, WaiterSends
  <1>6. ASSUME NEW to \in Members, SetChild(p, g, [child[p][g] EXCEPT !.members = to]),
               OnlyChild, child[p][g] # NoChild,
               to = "jobs" => child[p][g].waiter = "waiting"
        PROVE  ChildStep(p, g)
    <2>1. [child[p][g] EXCEPT !.members = to] \in Child
      BY <1>3
    <2> QED
      BY <1>2, <1>3, <1>6, <2>1 DEF Alive
  <1>7. CASE JobsStart(p, g) \/ JobsEnd(p, g) \/ IdRecycled(p, g) \/ StrangerLeaves(p, g)
    BY <1>6, <1>7 DEF JobsStart, JobsEnd, IdRecycled, StrangerLeaves
  <1> QED
    BY <1>5, <1>7

\* Waiter threads, children and the kernel preserve the inductive invariant.
LEMMA ProcessesInv ==
  ASSUME IInv, NEW p \in Proc, NEW g \in Gens,
         \/ WaiterReaps(p, g) \/ WaiterRecords(p, g) \/ WaiterMarks(p, g) \/ WaiterSends(p, g)
         \/ JobsStart(p, g) \/ JobsEnd(p, g) \/ IdRecycled(p, g) \/ StrangerLeaves(p, g)
  PROVE  IInv'
  BY ProcessesStep, ChildStepInv

\* What the generation of a slot has come to when a step of its machine leaves
\* `n`: the machine is Done only with the generation gone or given up on.
PollOutcome(q, n) ==
  LET m == restart[q].machine
  IN  /\ n \in Machine(Proc)
      /\ n.live \subseteq m.live
      /\ n.abandoned \subseteq m.live
      /\ KillTargets(m, Exited, late[q]) \subseteq m.live
      /\ n.phase # "Done" => n.live # {} /\ n.abandoned = {}
      /\ n.phase = "Done" /\ live[q].some =>
           \/ n.abandoned # {}
           \/ ~Alive(q, gen[q]) /\ Dead(q, gen[q])
           \/ <<q, gen[q]>> \in givenUp
      /\ n.phase = "Done" /\ n.abandoned = {} /\ live[q].some /\ live[q].retired = "no" =>
           Dead(q, gen[q])

LEMMA PollCases ==
  ASSUME IInv, NEW q \in Proc, mode = "running", IsRestarting(q),
         NEW n, n = Harvest(restart[q].machine, Exited, late[q])
  PROVE  PollOutcome(q, n)
  <1> DEFINE m == restart[q].machine
  <1>1. /\ m \in Machine(Proc)
        /\ m.phase \in Phase
        /\ m.live \in SUBSET Proc
        /\ m.live \subseteq {q}
        /\ late[q] \in BOOLEAN
        /\ Exited \in SUBSET Proc
    BY DEF IInv, TypeOK, Exited
  <1>2. /\ m.phase = "Done" <=> m.live = {}
        /\ m.abandoned = {}
    BY DEF IInv, MachineIsSound
  <1>3. q \in Exited /\ live[q].some => Dead(q, gen[q]) /\ ~Alive(q, gen[q])
    BY DEF Exited, GroupGone, Alive
  <1> HIDE DEF m, Machine, Dead
  <1>4. CASE m.phase = "Done"
    <2>1. n = m /\ KillTargets(m, Exited, late[q]) = {}
      BY <1>4, HarvestDone DEF m
    <2>2. live[q].some => live[q].finished
      BY <1>2, <1>4 DEF IInv, TeardownIsSound, m
    <2>3. live[q].some => (~Alive(q, gen[q]) /\ Dead(q, gen[q])) \/ <<q, gen[q]>> \in givenUp
      BY <2>2 DEF IInv, FinishedMeansGone
    <2>4. live[q].some /\ live[q].retired = "no" => Dead(q, gen[q])
      BY <2>2 DEF IInv, MarkedIsDead
    <2> QED
      BY <1>1, <1>2, <1>4, <2>1, <2>3, <2>4 DEF PollOutcome, m
  <1>5. CASE m.phase # "Done"
    <2>1. HarvestOutcome(Proc, m, Exited, late[q])
      <3> HIDE DEF Proc
      <3> QED
        BY <1>1, <1>5, HarvestCases
    <2>2. m.live = {q}
      BY <1>1, <1>2, <1>5
    <2>3. n = Harvest(m, Exited, late[q])
      BY DEF m
    <2>4. /\ n \in Machine(Proc)
          /\ n.live \subseteq m.live /\ n.abandoned \subseteq m.live
          /\ KillTargets(m, Exited, late[q]) \subseteq m.live
          /\ n.phase # "Done" => n.live # {} /\ n.abandoned = {}
          /\ n.phase = "Done" /\ n.abandoned = {} => q \in Exited
      BY <1>2, <1>5, <2>1, <2>2, <2>3 DEF HarvestOutcome
    <2> QED
      BY <1>3, <2>4 DEF PollOutcome, m
  <1> QED
    BY <1>4, <1>5

\* A step of a restart's machine that leaves it waiting preserves the invariant.
LEMMA PollGoesOnInv ==
  ASSUME IInv, NEW q \in Proc, IsRestarting(q), mode = "running",
         NEW n, PollOutcome(q, n), n.phase # "Done",
         restart' = [restart EXCEPT ![q].machine = n],
         UNCHANGED <<gen, kind, live, child, givenUp, hits, endVars>>,
         late' \in [0 .. N -> BOOLEAN], cursor' \in 0 .. N
  PROVE  IInv'
  <1> DEFINE m == restart[q].machine
  <1>1. UNCHANGED <<gen, kind, live, child, mode, final, statuses, givenUp, hits>>
    BY DEF endVars
  <1>2. restart \in [Proc -> Restart]
    BY DEF IInv, TypeOK
  <1>3. /\ n \in Machine(Proc)
        /\ n.live \subseteq m.live
        /\ n.live # {}
        /\ n.abandoned = {}
    BY DEF PollOutcome
  <1> HIDE DEF Machine, m
  <1>4. restart' = [restart EXCEPT ![q] = [restart[q] EXCEPT !.machine = n]]
    BY <1>2
  <1>5. restart' \in [Proc -> Restart]
    <2>1. [restart[q] EXCEPT !.machine = n] \in Restart
      BY <1>2, <1>3
    <2> QED
      BY <1>2, <1>4, <2>1
  <1>6. /\ \A p \in Proc \ {q} : restart'[p] = restart[p]
        /\ restart'[q].machine = n
        /\ restart'[q].on = restart[q].on
        /\ restart'[q].next = restart[q].next
    <2>1. restart'[q] = [restart[q] EXCEPT !.machine = n]
      BY <1>2, <1>4
    <2>2. \A p \in Proc \ {q} : restart'[p] = restart[p]
      BY <1>2, <1>4
    <2>3. restart[q] \in Restart
      BY <1>2
    <2>4. /\ restart'[q].machine = n
          /\ restart'[q].on = restart[q].on
          /\ restart'[q].next = restart[q].next
      BY <2>1, <2>3, ZenonT(30)
    <2> QED
      BY <2>2, <2>4
  <1>7. m.live \subseteq {q} /\ m.live # {}
    BY <1>3 DEF IInv, TypeOK, m
  <1>8. TypeOK'
    <2>1. \A p \in Proc : restart'[p].machine.live \cup restart'[p].machine.abandoned \subseteq {p}
      BY <1>3, <1>6, <1>7 DEF IInv, TypeOK
    <2> HIDE DEF Restart, Generation, Child
    <2> QED
      BY <1>1, <1>5, <2>1 DEF IInv, TypeOK
  <1>9. NextIsBounded' /\ MachineIsSound' /\ TeardownIsSound'
    BY <1>1, <1>3, <1>6, <1>7 DEF IInv, NextIsBounded, MachineIsSound, TeardownIsSound, m
  <1>10. UnbornIsEmpty' /\ MarkedIsDead' /\ NoGenerationIsBlank'
    BY <1>1 DEF IInv, UnbornIsEmpty, MarkedIsDead, NoGenerationIsBlank
  <1>11. FinishedMeansGone' /\ OneGenerationAlive' /\ OutcomeIsRecorded' /\ RestartSparesFinished'
    BY <1>1 DEF IInv, FinishedMeansGone, OneGenerationAlive, OutcomeIsRecorded,
                RestartSparesFinished, Alive
  <1> QED
    BY <1>8, <1>9, <1>10, <1>11 DEF IInv

\* A generation that is over or given up on, in the sense of PollOutcome.
Over(q, abandoned) ==
  live[q].some =>
    /\ abandoned \/ (~Alive(q, gen[q]) /\ Dead(q, gen[q])) \/ <<q, gen[q]>> \in givenUp
    /\ ~abandoned /\ live[q].retired = "no" => Dead(q, gen[q])

\* What complete() leaves of the slot's restart, history and kind.
Completed(q, abandoned) ==
  /\ restart' = [restart EXCEPT ![q] = NoRestart]
  /\ kind' \in [Proc -> Kind]
  /\ givenUp' = IF abandoned THEN givenUp \cup {<<q, gen[q]>>} ELSE givenUp
  /\ UNCHANGED <<hits, endVars>>
  /\ late' \in [0 .. N -> BOOLEAN]
  /\ cursor' \in 0 .. N

\* complete() of a restart that spawns nothing preserves the invariant.
LEMMA CompleteStopsInv ==
  ASSUME IInv, NEW q \in Proc, mode = "running", NEW abandoned \in BOOLEAN,
         Over(q, abandoned), Completed(q, abandoned),
         live' = [live EXCEPT ![q] = Retire(q, abandoned)],
         UNCHANGED <<gen, child>>
  PROVE  IInv'
  <1> DEFINE r == Retire(q, abandoned)
  <1>1. /\ UNCHANGED <<gen, child, hits, mode, final, statuses>>
        /\ givenUp \subseteq givenUp' /\ givenUp' \subseteq Proc \X Gens
        /\ abandoned => <<q, gen[q]>> \in givenUp'
    BY DEF Completed, endVars, IInv, TypeOK
  <1>2. /\ restart \in [Proc -> Restart] /\ live \in [Proc -> Generation]
        /\ live[q] \in Generation
    BY DEF IInv, TypeOK
  <1>3. /\ \A p \in Proc \ {q} : live'[p] = live[p] /\ restart'[p] = restart[p]
        /\ live'[q] = r /\ restart'[q] = NoRestart
    <2> HIDE DEF Restart, Generation, r
    <2> QED
      BY <1>2 DEF Completed, r
  <1>4. /\ r \in Generation
        /\ r.some = live[q].some
        /\ r.some => r.finished /\ r.retired # "no"
        /\ r.retired # "unknown"
        /\ ~r.some => r = live[q]
    <2>1. CASE ~live[q].some \/ live[q].retired # "no"
      <3>1. r = live[q]
        BY <2>1 DEF Retire
      <3>2. live[q].retired # "no" => live[q].finished
        BY DEF IInv, TypeOK
      <3>3. live[q].retired # "unknown"
        BY DEF IInv, OutcomeIsRecorded
      <3> QED
        BY <1>2, <2>1, <3>1, <3>2, <3>3
    <2>2. CASE live[q].some /\ live[q].retired = "no"
      <3>1. ~abandoned => HasStatus(q, gen[q])
        BY <2>2 DEF Over, HasStatus
      <3>2. r = [live[q] EXCEPT !.finished = TRUE,
                                !.retired = IF abandoned THEN "abandoned" ELSE "exited"]
        BY <2>2, <3>1 DEF Retire
      <3> QED
        BY <1>2, <2>2, <3>2
    <2> QED
      BY <2>1, <2>2
  <1> HIDE DEF r
  <1>5. TypeOK'
    <2>1. restart' \in [Proc -> Restart]
      <3> HIDE DEF Restart
      <3> QED
        BY <1>2, NoRestartIsRestart DEF Completed
    <2>2. live' \in [Proc -> Generation]
      <3> HIDE DEF Generation
      <3> QED
        BY <1>2, <1>4 DEF r
    <2>3. \A p \in Proc : restart'[p].machine.live \cup restart'[p].machine.abandoned \subseteq {p}
      BY <1>3, NoRestartIsRestart, ZenonT(30) DEF IInv, TypeOK
    <2>4. \A p \in Proc : live'[p].retired # "no" => live'[p].finished
      BY <1>3, <1>4 DEF IInv, TypeOK, NoGenerationIsBlank
    <2> HIDE DEF Restart, Generation, Child, Machine, Kind
    <2> QED
      BY <1>1, <2>1, <2>2, <2>3, <2>4 DEF IInv, TypeOK, Completed
  <1>6. NextIsBounded' /\ MachineIsSound' /\ TeardownIsSound'
    BY <1>1, <1>3, NoRestartIsRestart DEF IInv, NextIsBounded, MachineIsSound, TeardownIsSound
  <1>7. UnbornIsEmpty' /\ MarkedIsDead'
    BY <1>1, <1>3, <1>4 DEF IInv, UnbornIsEmpty, MarkedIsDead
  <1>8. NoGenerationIsBlank' /\ OutcomeIsRecorded' /\ RestartSparesFinished'
    <2> HIDE DEF NoGeneration
    <2> QED
      BY <1>1, <1>3, <1>4 DEF IInv, NoGenerationIsBlank, OutcomeIsRecorded, RestartSparesFinished
  <1>9. FinishedMeansGone' /\ OneGenerationAlive'
    <2>1. \A p \in Proc, g \in Gens : Alive(p, g)' = Alive(p, g) /\ Dead(p, g)' = Dead(p, g)
      BY <1>1 DEF Alive
    <2>2. \A p \in Proc : gen[p] \in Gens
      BY DEF IInv, TypeOK
    <2> HIDE DEF Dead
    <2>3. OneGenerationAlive'
      BY <1>1, <2>1 DEF IInv, OneGenerationAlive
    <2>4. ASSUME NEW p \in Proc \ {q}, live'[p].some, live'[p].finished
          PROVE  (~Alive(p, gen[p]) /\ Dead(p, gen[p])) \/ <<p, gen[p]>> \in givenUp'
      BY <1>1, <1>3, <2>4 DEF IInv, FinishedMeansGone
    <2>5. ASSUME live'[q].some
          PROVE  (~Alive(q, gen[q]) /\ Dead(q, gen[q])) \/ <<q, gen[q]>> \in givenUp'
      BY <1>1, <1>3, <1>4, <2>5 DEF Over
    <2> QED
      BY <1>1, <2>1, <2>2, <2>3, <2>4, <2>5 DEF FinishedMeansGone
  <1> QED
    BY <1>5, <1>6, <1>7, <1>8, <1>9 DEF IInv

\* complete() of a restart that spawns, whether or not the spawn succeeds,
\* preserves the invariant.
LEMMA CompleteSpawnsInv ==
  ASSUME IInv, NEW q \in Proc, mode = "running", NEW abandoned \in BOOLEAN,
         IsRestarting(q), restart[q].next # "none", NEW ok \in BOOLEAN,
         Over(q, abandoned), Completed(q, abandoned),
         gen' = [gen EXCEPT ![q] = @ + 1],
         live' = [live EXCEPT ![q] = IF ok THEN Spawned(restart[q].next) ELSE NoGeneration],
         child' = IF ok THEN [child EXCEPT ![q][gen[q] + 1] = NewChild] ELSE child
  PROVE  IInv'
  <1> DEFINE g1 == gen[q] + 1
             new == IF ok THEN Spawned(restart[q].next) ELSE NoGeneration
  <1>1. /\ UNCHANGED <<hits, mode, final, statuses>>
        /\ givenUp \subseteq givenUp' /\ givenUp' \subseteq Proc \X Gens
        /\ abandoned => <<q, gen[q]>> \in givenUp'
    BY SMTT(30) DEF Completed, endVars, IInv, TypeOK
  <1>2. /\ restart \in [Proc -> Restart] /\ live \in [Proc -> Generation]
        /\ gen \in [Proc -> Gens] /\ child \in [Proc -> [Gens -> Child]]
        /\ gen[q] \in Nat /\ g1 \in Gens /\ MaxGen \in Nat
        /\ \A p \in Proc : gen[p] \in Gens
    BY SMTT(30) DEF IInv, TypeOK, NextIsBounded
  <1>3. /\ new \in Generation
        /\ ~new.finished /\ new.retired = "no" /\ new.some = ok
        /\ ~ok => new = NoGeneration
    <2>1. restart[q].next \in Command
      BY <1>2
    <2> QED
      BY <2>1
  <1> HIDE DEF new
  <1>4. /\ \A p \in Proc \ {q} : /\ live'[p] = live[p] /\ restart'[p] = restart[p]
                                 /\ gen'[p] = gen[p] /\ child'[p] = child[p]
        /\ live'[q] = new /\ restart'[q] = NoRestart /\ gen'[q] = g1
    <2> HIDE DEF Restart, Generation, Child
    <2> QED
      BY <1>2 DEF Completed, new
  <1>5. child' = IF ok THEN [child EXCEPT ![q] = [child[q] EXCEPT ![g1] = NewChild]] ELSE child
    OBVIOUS
  <1>6. /\ child' \in [Proc -> [Gens -> Child]]
        /\ \A g \in Gens : child'[q][g] = IF ok /\ g = g1 THEN NewChild ELSE child[q][g]
    <2>1. NewChild \in Child
      OBVIOUS
    <2> HIDE DEF Child, NewChild
    <2> QED
      BY <1>2, <1>5, <2>1
  <1>7. TypeOK'
    <2>1. restart' \in [Proc -> Restart]
      <3> HIDE DEF Restart
      <3> QED
        BY <1>2, NoRestartIsRestart DEF Completed
    <2>2. live' \in [Proc -> Generation] /\ gen' \in [Proc -> Gens]
      <3> HIDE DEF Generation
      <3> QED
        BY <1>2, <1>3 DEF new
    <2>3. \A p \in Proc : restart'[p].machine.live \cup restart'[p].machine.abandoned \subseteq {p}
      BY <1>4, NoRestartIsRestart, SMTT(30) DEF IInv, TypeOK
    <2>4. \A p \in Proc : live'[p].retired # "no" => live'[p].finished
      BY <1>3, <1>4 DEF IInv, TypeOK
    <2> HIDE DEF Restart, Generation, Child, Machine, Kind
    <2> QED
      BY <1>1, <1>6, <2>1, <2>2, <2>3, <2>4 DEF IInv, TypeOK, Completed
  <1>8. NextIsBounded' /\ MachineIsSound' /\ TeardownIsSound'
    <2> HIDE DEF NoRestart
    <2> QED
      BY <1>1, <1>4, NoRestartIsRestart DEF IInv, NextIsBounded, MachineIsSound, TeardownIsSound
  <1>9. UnbornIsEmpty'
    <2>1. ASSUME NEW g \in Gens, g > g1 \/ (g = g1 /\ ~ok) PROVE child'[q][g] = NoChild
      <3>1. g > gen[q] /\ ~(ok /\ g = g1)
        BY <1>2, <2>1
      <3> QED
        BY <1>6, <3>1 DEF IInv, UnbornIsEmpty
    <2> QED
      BY <1>3, <1>4, <2>1 DEF IInv, UnbornIsEmpty
  <1>10. MarkedIsDead' /\ OutcomeIsRecorded' /\ RestartSparesFinished'
    BY <1>1, <1>3, <1>4 DEF IInv, MarkedIsDead, OutcomeIsRecorded, RestartSparesFinished
  <1>11. NoGenerationIsBlank'
    <2> HIDE DEF NoGeneration
    <2> QED
      BY <1>3, <1>4 DEF IInv, NoGenerationIsBlank
  <1>12. FinishedMeansGone'
    <2>1. ASSUME NEW p \in Proc \ {q}, live'[p].some, live'[p].finished
          PROVE  (~Alive(p, gen[p])' /\ Dead(p, gen[p])') \/ <<p, gen[p]>>' \in givenUp'
      BY <1>1, <1>2, <1>4, <2>1 DEF IInv, FinishedMeansGone, Alive
    <2> QED
      BY <1>3, <1>4, <2>1 DEF FinishedMeansGone
  <1>13. OneGenerationAlive'
    <2>1. ASSUME NEW p \in Proc \ {q}, NEW g \in Gens, g # gen'[p], Alive(p, g)'
          PROVE  <<p, g>> \in givenUp'
      BY <1>1, <1>4, <2>1 DEF IInv, OneGenerationAlive, Alive
    <2>2. ASSUME NEW g \in Gens, g # g1, Alive(q, g)'
          PROVE  <<q, g>> \in givenUp'
      <3>1. Alive(q, g)
        BY <1>6, <2>2 DEF Alive
      <3>2. CASE g # gen[q]
        BY <1>1, <3>1, <3>2 DEF IInv, OneGenerationAlive
      <3>3. CASE g = gen[q] /\ live[q].some
        BY <1>1, <3>1, <3>3 DEF Over
      <3>4. CASE g = gen[q] /\ ~live[q].some
        BY <3>1, <3>4 DEF IInv, UnbornIsEmpty, Alive
      <3> QED
        BY <3>2, <3>3, <3>4
    <2> QED
      BY <1>4, <2>1, <2>2 DEF OneGenerationAlive
  <1> QED
    BY <1>7, <1>8, <1>9, <1>10, <1>11, <1>12, <1>13 DEF IInv

\* A poll of a restart's machine, complete() included, preserves the invariant.
LEMMA TickPollInv ==
  ASSUME IInv, NEW q \in Proc, NEW ok \in BOOLEAN, TickPoll(q, ok)
  PROVE  IInv'
  <1> DEFINE m == Harvest(restart[q].machine, Exited, late[q])
             k == KillTargets(restart[q].machine, Exited, late[q])
  <1>1. /\ mode = "running" /\ IsRestarting(q)
        /\ Signal("restart", k)
        /\ \/ /\ m.phase # "Done"
              /\ restart' = [restart EXCEPT ![q].machine = m]
              /\ UNCHANGED <<gen, kind, live, child, givenUp>>
           \/ /\ m.phase = "Done"
              /\ Complete(q, m.abandoned # {}, ok)
        /\ late' = [late EXCEPT ![q] = @ /\ m.phase = restart[q].machine.phase]
        /\ Advance
        /\ UNCHANGED endVars
    BY DEF TickPoll, AtSlot
  <1> HIDE DEF m
  <1>2. PollOutcome(q, m)
    BY <1>1, PollCases DEF m
  <1>3. hits' = hits
    <2>1. \A p \in restart[q].machine.live : p = q /\ ~live[p].finished /\ live[p].retired = "no"
      BY <1>1 DEF IInv, TypeOK, TeardownIsSound
    <2>2. k \in SUBSET Proc
      BY <1>2 DEF PollOutcome, IInv, TypeOK
    <2>3. \A p \in k : ~live[p].finished /\ live[p].retired = "no"
      BY <1>2, <2>1 DEF PollOutcome
    <2> HIDE DEF k, Proc
    <2> QED
      BY <1>1, <2>2, <2>3, SignalSpares
  <1> HIDE DEF k
  <1>4. late' \in [0 .. N -> BOOLEAN] /\ cursor' \in 0 .. N
    BY <1>1 DEF IInv, TypeOK, Advance
  <1>5. CASE m.phase # "Done"
    BY <1>1, <1>2, <1>3, <1>4, <1>5, PollGoesOnInv
  <1>6. CASE m.phase = "Done"
    <2> DEFINE abandoned == m.abandoned # {}
    <2>1. Complete(q, abandoned, ok)
      BY <1>1, <1>6
    <2>2. Over(q, abandoned)
      BY <1>2, <1>6 DEF PollOutcome, Over
    <2>3. Completed(q, abandoned)
      <3>1. KindAfter(q) \in Kind /\ kind \in [Proc -> Kind]
        BY DEF KindAfter, IInv, TypeOK
      <3> HIDE DEF abandoned, Kind
      <3> QED
        BY <1>1, <1>3, <1>4, <2>1, <3>1 DEF Complete, Completed
    <2> HIDE DEF abandoned
    <2>4. CASE restart[q].next = "none"
      BY <1>1, <2>1, <2>2, <2>3, <2>4, CompleteStopsInv DEF Complete, abandoned
    <2>5. CASE restart[q].next # "none"
      BY <1>1, <2>1, <2>2, <2>3, <2>5, CompleteSpawnsInv DEF Complete, abandoned
    <2> QED
      BY <2>4, <2>5
  <1> QED
    BY <1>5, <1>6

\* A step of shutdown() or Drop leaves the event loop for good and spawns nothing.
Closing ==
  /\ UNCHANGED <<gen, kind, child>>
  /\ mode' # "running"
  /\ restart' = restart \/ restart' = Each(NoRestart)
  /\ givenUp \subseteq givenUp'
  /\ "restart" \in hits' => "restart" \in hits
  /\ \A p \in Proc : /\ live'[p].some = live[p].some
                     /\ live'[p].retired = live[p].retired
                     /\ ~live[p].some => live'[p] = live[p]
                     /\ live'[p].some /\ live'[p].finished =>
                          live[p].finished \/ Confirmed(p)

LEMMA ClosingInv ==
  ASSUME IInv, Closing, TypeOK'
  PROVE  IInv'
  <1>1. /\ UNCHANGED <<gen, child>> /\ mode' # "running" /\ givenUp \subseteq givenUp'
        /\ \A p \in Proc : gen[p] \in Gens
    BY DEF Closing, IInv, TypeOK
  <1>2. \A p \in Proc : restart'[p] = restart[p] \/ restart'[p] = NoRestart
    BY DEF Closing
  <1>3. NextIsBounded' /\ MachineIsSound' /\ TeardownIsSound'
    <2> HIDE DEF NoRestart
    <2> QED
      BY <1>1, <1>2, NoRestartIsRestart DEF IInv, NextIsBounded, MachineIsSound, TeardownIsSound
  <1>4. UnbornIsEmpty' /\ OutcomeIsRecorded' /\ RestartSparesFinished'
    BY <1>1 DEF IInv, UnbornIsEmpty, OutcomeIsRecorded, RestartSparesFinished, Closing
  <1>5. NoGenerationIsBlank'
    <2> HIDE DEF NoGeneration
    <2> QED
      BY DEF IInv, NoGenerationIsBlank, Closing
  <1>6. \A p \in Proc, g \in Gens : Alive(p, g)' = Alive(p, g) /\ Dead(p, g)' = Dead(p, g)
    BY <1>1 DEF Alive
  <1>7. \A p \in Proc : Confirmed(p) => Dead(p, gen[p]) /\ ~Alive(p, gen[p])
    BY DEF Confirmed, GroupGone, Alive
  <1> HIDE DEF Dead
  <1>8. MarkedIsDead' /\ FinishedMeansGone'
    BY <1>1, <1>6, <1>7 DEF IInv, MarkedIsDead, FinishedMeansGone, Closing
  <1>9. OneGenerationAlive'
    BY <1>1, <1>6 DEF IInv, OneGenerationAlive
  <1> QED
    BY <1>3, <1>4, <1>5, <1>8, <1>9 DEF IInv

\* shutdown() and Drop preserve the inductive invariant.
LEMMA ShutdownInv ==
  ASSUME IInv, ShutdownBegin \/ ShutdownStep \/ DropManager
  PROVE  IInv'
  <1>1. TypeOK
    BY DEF IInv
  <1>2. CASE ShutdownBegin
    <2>1. {p \in Proc : live[p].some} \in SUBSET Proc
      OBVIOUS
    <2>2. final' \in Machine(Proc)
      <3> HIDE DEF Machine, Proc
      <3> QED
        BY <1>2, <2>1, NewMachine DEF ShutdownBegin
    <2>3. Closing
      BY <1>2 DEF ShutdownBegin, Closing
    <2>4. /\ restart' \in [Proc -> Restart]
          /\ \A p \in Proc : restart'[p].machine.live \cup restart'[p].machine.abandoned \subseteq {p}
      <3> HIDE DEF Restart, NoRestart
      <3> QED
        BY <1>2, NoRestartIsRestart DEF ShutdownBegin
    <2>5. TypeOK'
      <3> HIDE DEF Restart, NoRestart, Generation, Child, Machine
      <3> QED
        BY <1>1, <1>2, <2>2, <2>4 DEF ShutdownBegin, TypeOK
    <2> QED
      BY <2>3, <2>5, ClosingInv
  <1>3. CASE ShutdownTerm
    <2>1. final' \in Machine(Proc)
      BY <1>1, <1>3 DEF ShutdownTerm, FirstEntry, TypeOK
    <2>2. Closing /\ hits' \subseteq hits \cup {"shutdown"}
      BY <1>3 DEF ShutdownTerm, Closing, Signal, slotVars
    <2>3. TypeOK'
      <3> HIDE DEF Restart, Generation, Child, Machine
      <3> QED
        BY <1>1, <1>3, <2>1, <2>2 DEF ShutdownTerm, TypeOK, slotVars
    <2> QED
      BY <2>2, <2>3, ClosingInv
  <1>4. CASE ShutdownPoll
    <2>1. /\ final \in Machine(Proc) /\ late[0] \in BOOLEAN /\ Exited \in SUBSET Proc
          /\ final' = Harvest(final, Exited, late[0])
      BY <1>1, <1>4, SMTT(30) DEF TypeOK, Exited, ShutdownPoll
    <2>2. final' \in Machine(Proc)
      <3>1. CASE final.phase = "Done"
        <4> HIDE DEF Machine, Proc
        <4> QED
          BY <2>1, <3>1, HarvestDone
      <3>2. CASE final.phase # "Done"
        <4> HIDE DEF Machine, Proc
        <4> QED
          BY <2>1, <3>2, HarvestCases DEF HarvestOutcome
      <3> QED
        BY <3>1, <3>2
    <2>3. givenUp' \subseteq Proc \X Gens
      BY <1>1, <1>4, <2>2 DEF ShutdownPoll, TypeOK
    <2>4. Closing /\ hits' \subseteq hits \cup {"shutdown"}
      BY <1>4 DEF ShutdownPoll, Closing, Signal, slotVars
    <2>5. TypeOK'
      <3> HIDE DEF Restart, Generation, Child, Machine
      <3> QED
        BY <1>1, <1>4, <2>2, <2>3, <2>4 DEF ShutdownPoll, TypeOK, slotVars
    <2> QED
      BY <2>4, <2>5, ClosingInv
  <1>5. CASE ShutdownCollect
    <2>1. live \in [Proc -> Generation]
      BY <1>1 DEF TypeOK
    <2>2. \A p \in Proc : live'[p] = IF live[p].some
                                     THEN [live[p] EXCEPT !.finished = Confirmed(p)]
                                     ELSE live[p]
      BY <1>5 DEF ShutdownCollect
    <2>3. \A p \in Proc : Confirmed(p) \in BOOLEAN
      BY DEF Confirmed, GroupGone, IInv, TypeOK
    <2>4. Closing
      BY <1>5, <2>1, <2>2 DEF ShutdownCollect, Closing
    <2>5. live' \in [Proc -> Generation] /\ statuses' \in [Proc -> BOOLEAN]
      BY <1>5, <2>1, <2>3 DEF ShutdownCollect, HasStatus
    <2>6. TypeOK'
      <3> HIDE DEF Restart, Generation, Child, Machine
      <3> QED
        BY <1>1, <1>5, <2>5 DEF ShutdownCollect, TypeOK
    <2> QED
      BY <2>4, <2>6, ClosingInv
  <1>6. CASE DropManager
    <2>1. Closing /\ hits' \subseteq hits \cup {"drop"}
      BY <1>6 DEF DropManager, Closing, Signal, slotVars
    <2>2. TypeOK'
      <3> HIDE DEF Restart, Generation, Child, Machine
      <3> QED
        BY <1>1, <1>6, <2>1 DEF DropManager, TypeOK, slotVars
    <2> QED
      BY <2>1, <2>2, ClosingInv
  <1> QED
    BY <1>2, <1>3, <1>4, <1>5, <1>6 DEF ShutdownStep

\* What the manager, its threads and the processes do by themselves.
OwnStep == Tick \/ ShutdownBegin \/ ShutdownStep \/ DropManager \/ Environment \/ UNCHANGED vars

\* Every step preserves the inductive invariant.
LEMMA StepInv ==
  ASSUME IInv, Asks \/ OwnStep
  PROVE  IInv'
  <1>1. CASE Asks
    <2> HIDE DEF Command, Kind, Proc
    <2> QED
      BY <1>1, BeginInv DEF Asks
  <1>2. CASE Tick
    <2>1. CASE EnterTick
      BY <2>1, ClockInv
    <2>2. ASSUME NEW p \in Proc, TickIdle(p) PROVE IInv'
      BY <2>2, ClockInv
    <2>3. ASSUME NEW p \in Proc, TickTerm(p) PROVE IInv'
      BY <2>3, TickTermInv
    <2>4. ASSUME NEW p \in Proc, NEW ok \in BOOLEAN, TickPoll(p, ok) PROVE IInv'
      BY <2>4, TickPollInv
    <2> QED
      BY <1>2, <2>1, <2>2, <2>3, <2>4 DEF Tick
  <1>3. CASE ShutdownBegin \/ ShutdownStep \/ DropManager
    BY <1>3, ShutdownInv
  <1>4. CASE Environment
    <2>1. ASSUME NEW p \in 0 .. N, Timeout(p) PROVE IInv'
      BY <2>1, ClockInv
    <2>2. ASSUME NEW p \in Proc, NEW g \in Gens,
                 \/ WaiterReaps(p, g) \/ WaiterRecords(p, g) \/ WaiterMarks(p, g)
                 \/ WaiterSends(p, g)
                 \/ JobsStart(p, g) \/ JobsEnd(p, g) \/ IdRecycled(p, g)
                 \/ StrangerLeaves(p, g)
          PROVE  IInv'
      BY <2>2, ProcessesInv
    <2> HIDE DEF Proc, Gens
    <2> QED
      BY <1>4, <2>1, <2>2 DEF Environment
  <1>5. CASE UNCHANGED vars
    <2>1. Quiet /\ UNCHANGED <<late, cursor, final, statuses>>
      BY <1>5 DEF vars, Quiet, slotVars, endVars
    <2>2. TypeOK'
      <3> HIDE DEF Restart, Generation, Child, Machine
      <3> QED
        BY <1>5 DEF vars, slotVars, endVars, IInv, TypeOK
    <2> QED
      BY <2>1, <2>2, QuietInv
  <1> QED
    BY <1>1, <1>2, <1>3, <1>4, <1>5 DEF OwnStep

LEMMA NextIsSteps == IInv /\ [Next]_vars => Asks \/ OwnStep
  <1> HIDE DEF Proc
  <1> QED
    BY AskIsAsks DEF Next, OwnStep

LEMMA NextInv == IInv /\ [Next]_vars => IInv'
  BY StepInv, NextIsSteps

\* The inductive invariant holds in every reachable state.
LEMMA Invariance == Spec => []IInv
  BY InitInv, NextInv, PTL DEF Spec

------------------------------------------------------------------------------
(* What shutdown() returns *)

\* Whoever is up when shutdown() begins is followed by its machine until the
\* leader is reaped, or given up on.
EndIsAccounted ==
  /\ mode = "stopping" =>
       /\ final.phase # "Done"
       /\ \A p \in Proc : live[p].some => p \in final.live \/ Dead(p, gen[p])
  /\ mode = "collect" =>
       \A p \in Proc : live[p].some => Dead(p, gen[p]) \/ <<p, gen[p]>> \in givenUp
  /\ StatusUnlessAbandoned

\* A step that only lets leaders die leaves the account as it is.
LEMMA AsideAccount ==
  ASSUME EndIsAccounted, UNCHANGED <<gen, live, mode, final, statuses, givenUp>>,
         \A p \in Proc : Dead(p, gen[p]) => Dead(p, gen[p])'
  PROVE  EndIsAccounted'
  <1> HIDE DEF Dead
  <1> QED
    BY DEF EndIsAccounted, StatusUnlessAbandoned

\* shutdown() keeps the account.
LEMMA ShutdownAccounts ==
  ASSUME IInv, EndIsAccounted, ShutdownBegin \/ ShutdownStep \/ DropManager
  PROVE  EndIsAccounted'
  <1> HIDE DEF Dead
  <1>1. CASE ShutdownBegin
    <2> DEFINE up == {p \in Proc : live[p].some}
    <2>1. /\ final' = New(up) /\ UNCHANGED <<gen, live, child, givenUp>>
          /\ mode' = IF final'.phase = "Done" THEN "collect" ELSE "stopping"
      BY <1>1 DEF ShutdownBegin
    <2>2. final'.live = up /\ (final'.phase = "Done" <=> up = {})
      BY <2>1 DEF New
    <2> QED
      BY <2>1, <2>2 DEF EndIsAccounted, StatusUnlessAbandoned
  <1>2. CASE ShutdownTerm
    <2>1. final'.live = final.live /\ final'.phase = final.phase
      BY <1>2 DEF ShutdownTerm, FirstEntry, IInv, TypeOK
    <2>2. UNCHANGED <<gen, live, child, mode, statuses, givenUp>> /\ mode = "stopping"
      BY <1>2 DEF ShutdownTerm, slotVars
    <2> QED
      BY <2>1, <2>2 DEF EndIsAccounted, StatusUnlessAbandoned, Dead
  <1>3. CASE ShutdownPoll
    <2>1. /\ final \in Machine(Proc) /\ late[0] \in BOOLEAN /\ Exited \in SUBSET Proc
          /\ final' = Harvest(final, Exited, late[0])
          /\ mode = "stopping" /\ final.phase # "Done"
          /\ mode' = IF final'.phase = "Done" THEN "collect" ELSE "stopping"
          /\ givenUp' = givenUp \cup {<<p, gen[p]>> : p \in final'.abandoned}
          /\ UNCHANGED <<gen, live, child, statuses>>
      BY <1>3 DEF ShutdownPoll, Exited, IInv, TypeOK, EndIsAccounted, slotVars
    <2>2. HarvestOutcome(Proc, final, Exited, late[0])
      <3> HIDE DEF Machine, Proc
      <3> QED
        BY <2>1, HarvestCases
    <2>3. \A p \in Proc : live[p].some /\ ~Dead(p, gen[p]) => p \in final.live \ Exited
      BY <2>1 DEF EndIsAccounted, Exited
    <2>4. \A p \in Proc : Dead(p, gen[p])' = Dead(p, gen[p])
      BY <2>1 DEF Dead
    <2>5. CASE final'.phase # "Done"
      <3>1. final'.live = final.live \ Exited
        BY <2>1, <2>2, <2>5 DEF HarvestOutcome
      <3> QED
        BY <2>1, <2>3, <2>4, <2>5, <3>1 DEF EndIsAccounted, StatusUnlessAbandoned
    <2>6. CASE final'.phase = "Done"
      <3>1. final.live \ Exited = {} \/ final'.abandoned = final.live \ Exited
        BY <2>1, <2>2, <2>6 DEF HarvestOutcome
      <3>2. \A p \in Proc : live[p].some /\ ~Dead(p, gen[p]) => <<p, gen[p]>> \in givenUp'
        BY <2>1, <2>3, <3>1
      <3> QED
        BY <2>1, <2>4, <2>6, <3>2 DEF EndIsAccounted, StatusUnlessAbandoned
    <2> QED
      BY <2>5, <2>6
  <1>4. CASE ShutdownCollect
    <2>1. \A p \in Proc : live'[p].some = live[p].some
      BY <1>4 DEF ShutdownCollect, IInv, TypeOK
    <2>2. \A p \in Proc : live[p].some /\ Dead(p, gen[p]) => statuses'[p]
      BY <1>4 DEF ShutdownCollect, HasStatus, Dead
    <2>3. /\ mode = "collect" /\ mode' = "returned" /\ UNCHANGED <<gen, child, givenUp>>
      BY <1>4 DEF ShutdownCollect
    <2> QED
      BY <2>1, <2>2, <2>3 DEF EndIsAccounted, StatusUnlessAbandoned
  <1>5. CASE DropManager
    BY <1>5 DEF DropManager, EndIsAccounted, StatusUnlessAbandoned
  <1> QED
    BY <1>1, <1>2, <1>3, <1>4, <1>5 DEF ShutdownStep

LEMMA AccountStep ==
  ASSUME IInv, EndIsAccounted, Asks \/ OwnStep
  PROVE  EndIsAccounted'
  <1>1. CASE Asks \/ Tick
    <2>1. mode' = "running"
      <3> HIDE DEF Proc
      <3> QED
        BY <1>1 DEF Asks, Tick, EnterTick, TickIdle, TickTerm, TickPoll, AtSlot, endVars
    <2> QED
      BY <2>1 DEF EndIsAccounted, StatusUnlessAbandoned
  <1>2. CASE ShutdownBegin \/ ShutdownStep \/ DropManager
    BY <1>2, ShutdownAccounts
  <1>3. CASE Environment
    <2>1. ASSUME NEW p \in Proc, NEW g \in Gens,
                 \/ WaiterReaps(p, g) \/ WaiterRecords(p, g) \/ WaiterMarks(p, g)
                 \/ WaiterSends(p, g)
                 \/ JobsStart(p, g) \/ JobsEnd(p, g) \/ IdRecycled(p, g)
                 \/ StrangerLeaves(p, g)
          PROVE  EndIsAccounted'
      <3>1. PICK c \in Child : /\ child' = [child EXCEPT ![p][g] = c]
                               /\ child[p][g].waiter \in {"dead", "sent"}
                                    => c.waiter \in {"dead", "sent"}
        <4>1. child[p][g] \in Child
          BY DEF IInv, TypeOK
        <4> QED
          BY <2>1, <4>1 DEF WaiterReaps, WaiterRecords, WaiterMarks, WaiterSends, WaiterSteps,
                            JobsStart, JobsEnd, IdRecycled, StrangerLeaves, SetChild
      <3>2. child \in [Proc -> [Gens -> Child]] /\ gen \in [Proc -> Gens]
        BY DEF IInv, TypeOK
      <3>3. UNCHANGED <<gen, live, mode, final, statuses, givenUp>>
        BY <2>1 DEF WaiterReaps, WaiterRecords, WaiterMarks, WaiterSends, WaiterSteps,
                    JobsStart, JobsEnd, IdRecycled, StrangerLeaves, OnlyChild, slotVars, endVars
      <3>4. \A q \in Proc : Dead(q, gen[q]) => Dead(q, gen[q])'
        BY <3>1, <3>2, <3>3
      <3> QED
        BY <3>3, <3>4, AsideAccount
    <2>2. ASSUME NEW p \in 0 .. N, Timeout(p) PROVE EndIsAccounted'
      BY <2>2, AsideAccount DEF Timeout, slotVars, endVars
    <2> HIDE DEF Proc, Gens
    <2> QED
      BY <1>3, <2>1, <2>2 DEF Environment
  <1>4. CASE UNCHANGED vars
    BY <1>4, AsideAccount DEF vars, slotVars, endVars
  <1> QED
    BY <1>1, <1>2, <1>3, <1>4 DEF OwnStep

LEMMA AccountNext == IInv /\ EndIsAccounted /\ [Next]_vars => EndIsAccounted'
  BY AccountStep, NextIsSteps

------------------------------------------------------------------------------
(* The slots implement SlotLifecycle *)

\* What SlotLifecycle sees of the slots.
phaseSeen   == [p \in Proc |-> IF mode # "running" THEN "closed"
                               ELSE IF IsRestarting(p) THEN "tearing" ELSE "settled"]
aliveSeen   == [p \in Proc |-> {g \in Gens : Alive(p, g)}]
givenUpSeen == [p \in Proc |-> {g \in Gens : <<p, g>> \in givenUp}]

\* A step that changes nothing SlotLifecycle sees.
LEMMA LifeStutters ==
  ASSUME UNCHANGED <<gen, child, mode, givenUp>>,
         \A p \in Proc : restart'[p].on = restart[p].on
  PROVE  UNCHANGED Life!vars
  <1>1. phaseSeen' = phaseSeen /\ aliveSeen' = aliveSeen /\ givenUpSeen' = givenUpSeen
    BY DEF phaseSeen, aliveSeen, givenUpSeen, Alive
  <1> QED
    BY <1>1 DEF Life!vars, phaseSeen, aliveSeen, givenUpSeen

\* A step of a child takes the last process of its generation, or shows nothing.
LEMMA LifeOfChild ==
  ASSUME IInv, NEW q \in Proc, NEW h \in Gens, ChildStep(q, h)
  PROVE  Life!Die(q) \/ UNCHANGED Life!vars
  <1>1. /\ UNCHANGED <<gen, restart, mode, givenUp>>
        /\ \A p \in Proc, g \in Gens : p # q \/ g # h => Alive(p, g)' = Alive(p, g)
        /\ Alive(q, h)' => Alive(q, h)
    BY DEF ChildStep, slotVars, endVars, Alive
  <1>2. phaseSeen' = phaseSeen /\ givenUpSeen' = givenUpSeen
    BY <1>1 DEF phaseSeen, givenUpSeen
  <1>3. CASE Alive(q, h)' = Alive(q, h)
    <2>1. aliveSeen' = aliveSeen
      BY <1>1, <1>3 DEF aliveSeen
    <2> QED
      BY <1>1, <1>2, <2>1 DEF Life!vars, phaseSeen, aliveSeen, givenUpSeen
  <1>4. CASE Alive(q, h) /\ ~Alive(q, h)'
    <2>1. h \in aliveSeen[q] /\ aliveSeen' = [aliveSeen EXCEPT ![q] = @ \ {h}]
      BY <1>1, <1>4 DEF aliveSeen
    <2> QED
      BY <1>1, <1>2, <2>1 DEF Life!Die, phaseSeen, aliveSeen, givenUpSeen
  <1> QED
    BY <1>3, <1>4, <1>1 DEF Alive

\* begin() requests a teardown of settled slots.
LEMMA LifeOfBegin ==
  ASSUME IInv, mode = "running", NEW S \in SUBSET Proc, NEW next, NEW knd,
         Begin(S, next, knd), mode' = mode
  PROVE  Life!Request
  <1>1. /\ UNCHANGED <<gen, child, mode, givenUp>>
        /\ \A q \in S : ~restart[q].on
        /\ \A p \in Proc : restart'[p].on = (p \in S \/ restart[p].on)
    BY DEF Begin, IInv, TypeOK
  <1>2. /\ \A q \in S : phaseSeen[q] = "settled"
        /\ phaseSeen' = [p \in Proc |-> IF p \in S THEN "tearing" ELSE phaseSeen[p]]
        /\ aliveSeen' = aliveSeen /\ givenUpSeen' = givenUpSeen
    BY <1>1 DEF phaseSeen, aliveSeen, givenUpSeen, Alive
  <1> QED
    BY <1>1, <1>2 DEF Life!Request, phaseSeen, aliveSeen, givenUpSeen

\* complete() ends a teardown with no process left but of generations given up on.
LEMMA LifeOfComplete ==
  ASSUME IInv, NEW q \in Proc, mode = "running", IsRestarting(q),
         NEW abandoned \in BOOLEAN, NEW ok \in BOOLEAN,
         Over(q, abandoned), Complete(q, abandoned, ok), UNCHANGED endVars
  PROVE  Life!Stop(q) \/ Life!Spawn(q)
  <1>1. /\ mode' = mode /\ restart' = [restart EXCEPT ![q] = NoRestart]
        /\ givenUp' = IF abandoned THEN givenUp \cup {<<q, gen[q]>>} ELSE givenUp
    BY DEF Complete, endVars
  <1>2. /\ restart \in [Proc -> Restart] /\ gen \in [Proc -> Gens] /\ gen[q] \in Gens
        /\ child \in [Proc -> [Gens -> Child]]
    BY DEF IInv, TypeOK
  <1>3. phaseSeen[q] = "tearing" /\ phaseSeen' = [phaseSeen EXCEPT ![q] = "settled"]
    <2>1. \A p \in Proc : restart'[p] = IF p = q THEN NoRestart ELSE restart[p]
      <3> HIDE DEF Restart, NoRestart
      <3> QED
        BY <1>1, <1>2
    <2>2. phaseSeen[q] = "tearing"
      BY DEF phaseSeen
    <2>3. \A p \in Proc : restart'[p].on = IF p = q THEN FALSE ELSE restart[p].on
      <3>1. NoRestart.on = FALSE
        BY DEF NoRestart
      <3> HIDE DEF NoRestart, Restart, Proc
      <3> QED
        BY <2>1, <3>1
    <2>4. /\ phaseSeen = [p \in Proc |-> IF restart[p].on THEN "tearing" ELSE "settled"]
          /\ phaseSeen' = [p \in Proc |-> IF restart'[p].on THEN "tearing" ELSE "settled"]
      BY <1>1 DEF phaseSeen
    <2>5. phaseSeen' = [phaseSeen EXCEPT ![q] = "settled"]
      <3> HIDE DEF phaseSeen, Restart, NoRestart, Proc
      <3> QED
        BY <2>3, <2>4
    <2> QED
      BY <2>2, <2>5
  <1>4. givenUpSeen' \in {givenUpSeen, [givenUpSeen EXCEPT ![q] = @ \cup {gen[q]}]}
    <2>1. CASE ~abandoned
      BY <1>1, <2>1 DEF givenUpSeen
    <2>2. CASE abandoned
      <3>1. givenUpSeen' = [p \in Proc |-> IF p = q THEN givenUpSeen[q] \cup {gen[q]}
                                          ELSE givenUpSeen[p]]
        <4>1. givenUp' = givenUp \cup {<<q, gen[q]>>} /\ gen[q] \in Gens
          BY <1>1, <1>2, <2>2
        <4>2. \A p \in Proc : \A g \in Gens :
                <<p, g>> \in givenUp' <=> <<p, g>> \in givenUp \/ (p = q /\ g = gen[q])
          BY <4>1
        <4>3. \A p \in Proc : givenUpSeen'[p] = IF p = q THEN givenUpSeen[q] \cup {gen[q]}
                                                ELSE givenUpSeen[p]
          BY <4>1, <4>2 DEF givenUpSeen
        <4> QED
          BY <4>3 DEF givenUpSeen
      <3>2. givenUpSeen' = [givenUpSeen EXCEPT ![q] = @ \cup {gen[q]}]
        <4>1. DOMAIN givenUpSeen = Proc
          BY DEF givenUpSeen
        <4> QED
          BY <3>1, <4>1, Zenon
      <3> QED
        BY <3>2
    <2> QED
      BY <2>1, <2>2
  <1>5. aliveSeen[q] \subseteq givenUpSeen'[q]
    <2> SUFFICES ASSUME NEW g \in Gens, Alive(q, g) PROVE <<q, g>> \in givenUp'
      BY DEF aliveSeen, givenUpSeen
    <2>1. CASE g # gen[q]
      BY <1>1, <2>1 DEF IInv, OneGenerationAlive
    <2>2. CASE g = gen[q] /\ live[q].some
      BY <1>1, <2>2 DEF Over
    <2>3. CASE g = gen[q] /\ ~live[q].some
      BY <2>3 DEF IInv, UnbornIsEmpty, Alive
    <2> QED
      BY <2>1, <2>2, <2>3
  <1>6. Life!Ends(q)
    BY <1>3, <1>4, <1>5 DEF Life!Ends, phaseSeen, aliveSeen, givenUpSeen
  <1>7. CASE UNCHANGED <<gen, child>>
    <2>1. aliveSeen' = aliveSeen
      BY <1>7 DEF aliveSeen, Alive
    <2> QED
      BY <1>6, <1>7, <2>1 DEF Life!Stop, aliveSeen
  <1>8. CASE /\ restart[q].next # "none" /\ gen' = [gen EXCEPT ![q] = @ + 1]
             /\ child' = IF ok THEN [child EXCEPT ![q][gen[q] + 1] = NewChild] ELSE child
    <2>1. gen[q] + 1 \in Gens
      BY <1>2, <1>8 DEF IInv, NextIsBounded
    <2>2. aliveSeen' \in {aliveSeen, [aliveSeen EXCEPT ![q] = @ \cup {gen[q] + 1}]}
      <3>1. CASE ok
        <4>1. \A p \in Proc, g \in Gens :
                child'[p][g] = IF p = q /\ g = gen[q] + 1 THEN NewChild ELSE child[p][g]
          <5> HIDE DEF Child, NewChild
          <5> QED
            BY <1>2, <1>8, <2>1, <3>1
        <4>2. \A p \in Proc, g \in Gens :
                Alive(p, g)' <=> (p = q /\ g = gen[q] + 1) \/ Alive(p, g)
          BY <4>1 DEF Alive
        <4>3. aliveSeen' = [aliveSeen EXCEPT ![q] = @ \cup {gen[q] + 1}]
          BY <2>1, <4>2 DEF aliveSeen
        <4> QED
          BY <4>3
      <3>2. CASE ~ok
        BY <1>8, <3>2 DEF aliveSeen, Alive
      <3> QED
        BY <3>1, <3>2
    <2> QED
      BY <1>6, <1>8, <2>2 DEF Life!Spawn, aliveSeen
  <1> QED
    BY <1>7, <1>8 DEF Complete

\* tick() shows nothing, or ends a teardown.
LEMMA LifeOfTick ==
  ASSUME IInv, Tick
  PROVE  Life!Next \/ UNCHANGED Life!vars
  <1>1. CASE EnterTick \/ \E p \in Proc : TickIdle(p)
    BY <1>1, LifeStutters DEF EnterTick, TickIdle, slotVars, endVars
  <1>2. ASSUME NEW q \in Proc, TickTerm(q) PROVE UNCHANGED Life!vars
    <2>1. \A p \in Proc : restart'[p].on = restart[p].on
      BY <1>2 DEF TickTerm, IInv, TypeOK
    <2> QED
      BY <1>2, <2>1, LifeStutters DEF TickTerm, endVars
  <1>3. ASSUME NEW q \in Proc, NEW ok \in BOOLEAN, TickPoll(q, ok)
        PROVE  Life!Next \/ UNCHANGED Life!vars
    <2> DEFINE m == Harvest(restart[q].machine, Exited, late[q])
    <2>1. /\ mode = "running" /\ IsRestarting(q) /\ UNCHANGED endVars
          /\ \/ /\ m.phase # "Done"
                /\ restart' = [restart EXCEPT ![q].machine = m]
                /\ UNCHANGED <<gen, child, givenUp>>
             \/ m.phase = "Done" /\ Complete(q, m.abandoned # {}, ok)
      BY <1>3 DEF TickPoll, AtSlot
    <2>2. PollOutcome(q, m)
      BY <2>1, PollCases
    <2> HIDE DEF m
    <2>3. CASE m.phase # "Done"
      <3>1. \A p \in Proc : restart'[p].on = restart[p].on
        <4>1. restart \in [Proc -> Restart]
          BY DEF IInv, TypeOK
        <4>2. restart' = [restart EXCEPT ![q] = [restart[q] EXCEPT !.machine = m]]
          BY <2>1, <2>3, <4>1
        <4>3. [restart[q] EXCEPT !.machine = m].on = restart[q].on
          BY <4>1
        <4> HIDE DEF Restart
        <4> QED
          BY <4>1, <4>2, <4>3
      <3> QED
        BY <2>1, <2>3, <3>1, LifeStutters DEF endVars
    <2>4. CASE m.phase = "Done"
      <3>1. Over(q, m.abandoned # {})
        BY <2>2, <2>4 DEF PollOutcome, Over
      <3> QED
        BY <2>1, <2>4, <3>1, LifeOfComplete DEF Life!Next
    <2> QED
      BY <2>3, <2>4
  <1> QED
    BY <1>1, <1>2, <1>3 DEF Tick

\* shutdown() and Drop close the slots; the last machine may give up on some.
LEMMA LifeOfShutdown ==
  ASSUME IInv, ShutdownBegin \/ ShutdownStep \/ DropManager
  PROVE  Life!Close \/ Life!Abandon \/ UNCHANGED Life!vars
  <1>1. CASE ShutdownBegin \/ DropManager
    <2>1. UNCHANGED <<gen, child, givenUp>> /\ mode' # "running"
      BY <1>1 DEF ShutdownBegin, DropManager, slotVars
    <2>2. /\ phaseSeen' = [p \in Proc |-> "closed"]
          /\ aliveSeen' = aliveSeen /\ givenUpSeen' = givenUpSeen
      BY <2>1 DEF phaseSeen, aliveSeen, givenUpSeen, Alive
    <2> QED
      BY <2>1, <2>2 DEF Life!Close, phaseSeen, aliveSeen, givenUpSeen
  <1>2. CASE ShutdownTerm \/ ShutdownCollect
    <2>1. UNCHANGED <<gen, child, givenUp>> /\ mode # "running" /\ mode' # "running"
      BY <1>2 DEF ShutdownTerm, ShutdownCollect, slotVars
    <2>2. phaseSeen' = phaseSeen /\ aliveSeen' = aliveSeen /\ givenUpSeen' = givenUpSeen
      BY <2>1 DEF phaseSeen, aliveSeen, givenUpSeen, Alive
    <2> QED
      BY <2>1, <2>2 DEF Life!vars, phaseSeen, aliveSeen, givenUpSeen
  <1>3. CASE ShutdownPoll
    <2>1. /\ UNCHANGED <<gen, child>> /\ mode # "running" /\ mode' # "running"
          /\ givenUp' = givenUp \cup {<<p, gen[p]>> : p \in final'.abandoned}
      BY <1>3 DEF ShutdownPoll, slotVars
    <2>2. PICK S \in SUBSET Proc : S = final'.abandoned
      BY <1>3, ShutdownInv DEF ShutdownStep, IInv, TypeOK
    <2>3. /\ phaseSeen' = phaseSeen /\ aliveSeen' = aliveSeen
          /\ \A p \in Proc : phaseSeen[p] = "closed"
      BY <2>1 DEF phaseSeen, aliveSeen, Alive
    <2>4. gen \in [Proc -> Gens]
      BY DEF IInv, TypeOK
    <2>5. givenUpSeen' = [p \in Proc |-> IF p \in S THEN givenUpSeen[p] \cup {gen[p]}
                                        ELSE givenUpSeen[p]]
      BY <2>1, <2>2, <2>4 DEF givenUpSeen
    <2> QED
      BY <2>1, <2>3, <2>5 DEF Life!Abandon, phaseSeen, aliveSeen, givenUpSeen
  <1> QED
    BY <1>1, <1>2, <1>3 DEF ShutdownStep

LEMMA LifeInit == Init => Life!Init
  <1> SUFFICES ASSUME Init PROVE Life!Init
    OBVIOUS
  <1>1. PICK up \in SUBSET Proc :
          child = [p \in Proc |-> [g \in Gens |->
                     IF p \in up /\ g = 0 THEN NewChild ELSE NoChild]]
    BY DEF Init
  <1>2. aliveSeen = [p \in Proc |-> IF p \in up THEN {0} ELSE {}]
    BY <1>1 DEF aliveSeen, Alive
  <1>3. phaseSeen = [p \in Proc |-> "settled"] /\ givenUpSeen = [p \in Proc |-> {}]
    BY NoRestartIsRestart DEF Init, phaseSeen, givenUpSeen
  <1> QED
    BY <1>2, <1>3 DEF Init, Life!Init, phaseSeen, aliveSeen, givenUpSeen

LEMMA LifeOfStep ==
  ASSUME IInv, Asks \/ OwnStep
  PROVE  Life!Next \/ UNCHANGED Life!vars
  <1>1. CASE Asks
    <2>1. mode = "running" /\ mode' = mode
      BY <1>1 DEF Asks, endVars
    <2> HIDE DEF Command, Kind, Proc
    <2> QED
      BY <1>1, <2>1, LifeOfBegin DEF Asks, Life!Next
  <1>2. CASE Tick
    BY <1>2, LifeOfTick
  <1>3. CASE ShutdownBegin \/ ShutdownStep \/ DropManager
    BY <1>3, LifeOfShutdown DEF Life!Next
  <1>4. CASE Environment
    <2>1. ASSUME NEW p \in Proc, NEW g \in Gens,
                 \/ WaiterReaps(p, g) \/ WaiterRecords(p, g) \/ WaiterMarks(p, g)
                 \/ WaiterSends(p, g)
                 \/ JobsStart(p, g) \/ JobsEnd(p, g) \/ IdRecycled(p, g)
                 \/ StrangerLeaves(p, g)
          PROVE  Life!Next \/ UNCHANGED Life!vars
      BY <2>1, ProcessesStep, LifeOfChild DEF Life!Next
    <2>2. ASSUME NEW p \in 0 .. N, Timeout(p) PROVE UNCHANGED Life!vars
      BY <2>2, LifeStutters DEF Timeout, slotVars, endVars
    <2> HIDE DEF Proc, Gens
    <2> QED
      BY <1>4, <2>1, <2>2 DEF Environment
  <1>5. CASE UNCHANGED vars
    BY <1>5, LifeStutters DEF vars, slotVars, endVars
  <1> QED
    BY <1>1, <1>2, <1>3, <1>4, <1>5 DEF OwnStep

LEMMA LifeNext == IInv /\ [Next]_vars => [Life!Next]_(Life!vars)
  BY LifeOfStep, NextIsSteps

------------------------------------------------------------------------------
(* Theorems *)

\* proc.rs: the slots, machines and generations keep their types; a slot's
\* machine follows that slot only, and a retired generation is marked finished.
THEOREM TypeCorrect == Spec => []TypeOK
  <1>1. IInv => TypeOK
    BY DEF IInv
  <1> QED
    BY <1>1, Invariance, PTL

\* proc.rs `Generation`: whatever is asked of the slots, a generation older than
\* the current one has no process left unless it was given up on after SIGKILL.
THEOREM OneAlive == Spec => []OneGenerationAlive
  <1>1. IInv => OneGenerationAlive
    BY DEF IInv
  <1> QED
    BY <1>1, Invariance, PTL

\* proc.rs `finished`: a generation is marked only once its group is empty and
\* its leader reaped, or it was given up on.
THEOREM MarkedIsGone == Spec => []FinishedMeansGone
  <1>1. IInv => FinishedMeansGone
    BY DEF IInv
  <1> QED
    BY <1>1, Invariance, PTL

\* proc.rs `retire`: a generation that was not given up on has recorded its exit
\* status by the time the teardown reads it.
THEOREM OutcomeIsReal == Spec => []OutcomeIsRecorded
  <1>1. IInv => OutcomeIsRecorded
    BY DEF IInv
  <1> QED
    BY <1>1, Invariance, PTL

\* proc.rs `begin` and `tick`: no restart, kill or stop ever signals a generation
\* that was marked finished.
THEOREM RestartsSpareFinished == Spec => []RestartSparesFinished
  <1>1. IInv => RestartSparesFinished
    BY DEF IInv
  <1> QED
    BY <1>1, Invariance, PTL

\* proc.rs `shutdown`: whoever is up when the program is left comes back with the
\* status of its exit, unless it was given up on after SIGKILL.
THEOREM StatusIsKnown == Spec => []StatusUnlessAbandoned
  <1>1. Init => EndIsAccounted
    BY DEF Init, EndIsAccounted, StatusUnlessAbandoned
  <1>2. EndIsAccounted => StatusUnlessAbandoned
    BY DEF EndIsAccounted
  <1> QED
    BY <1>1, <1>2, AccountNext, Invariance, PTL DEF Spec

\* proc.rs `tick`, `complete` and `shutdown`: the slots implement SlotLifecycle.  A
\* generation is spawned only at the end of a teardown that left no process but
\* those given up on, and none once shutdown() has begun.
THEOREM SlotsLiveInTurn == Spec => OneAtATime
  BY LifeInit, LifeNext, Invariance, PTL DEF Spec, OneAtATime, Life!Spec
==============================================================================

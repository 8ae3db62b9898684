----------------------------- MODULE ProcManager -----------------------------
(***************************************************************************)
(* The slots of proc.rs: one `ProcManager` on the main thread, one waiter  *)
(* thread per spawned generation, and the process groups they watch.       *)
(*                                                                         *)
(* The main thread calls begin() (through replace, replace_with, kill and  *)
(* stop) between two calls of tick(); tick() goes over the slots in order. *)
(* Waiter threads, children and the kernel run at any point in between.    *)
(* Commands are abstracted to "std" (the slot's standard command) and      *)
(* "ovr" (what `krawatte run` puts in its place).  Reader threads and      *)
(* lines are not part of this module.                                      *)
(***************************************************************************)
EXTENDS ShutdownMachine, Integers

CONSTANTS
  N,          \* number of slots
  MaxGen,     \* bound: no slot begins a spawn beyond this generation
  MayFork,    \* slots whose commands leave background jobs in their group
  MaySurvive, \* slots whose processes may outlive SIGKILL by the reap timeout
  Recycles    \* slots whose group id the kernel may hand to a stranger

Proc == 1 .. N
Gens == 0 .. MaxGen

ASSUME SlotAssumption ==
  /\ N \in Nat \ {0}
  /\ MaxGen \in Nat
  /\ MayFork \subseteq Proc
  /\ MaySurvive \subseteq Proc
  /\ Recycles \subseteq Proc

VARIABLES
  gen,       \* Proc.gen: current generation of each slot
  kind,      \* Proc.kind: what the slot is said to run
  live,      \* Proc.live: the generation last spawned, if it spawned
  restart,   \* Proc.restart: the teardown in flight, if any
  late,      \* the current deadline of slot p's machine (0: the final one) is over
  child,     \* waiter thread and process group of every generation
  mode,      \* where the main thread is: see Mode
  cursor,    \* 0 between ticks, else the slot tick() is at
  final,     \* the machine of shutdown()
  statuses,  \* what shutdown() returned: is there a status for the slot?
  givenUp,   \* history: generations abandoned after SIGKILL
  hits       \* history: who signalled a generation after its end was confirmed

slotVars == <<gen, kind, live, restart>>
endVars  == <<mode, final, statuses>>
vars == <<slotVars, late, child, cursor, endVars, givenUp, hits>>

Command == {"std", "ovr"}
Kind    == {"Standard", "Override"}
Outcome == {"no", "exited", "unknown", "abandoned"}

\* "running": in the event loop.  "stopping", "collect": in shutdown().
\* "returned": shutdown() is back.  "dropped": the manager is gone.
Mode == {"running", "stopping", "collect", "returned", "dropped"}

\* The waiter thread of a generation: "none" before the spawn, "waiting" in
\* Child::wait, "reaped" when that has returned, "recorded" once the status is
\* stored, "dead" once the dead flag is, "sent" after Event::Exited.
Waiter == {"none", "waiting", "reaped", "recorded", "dead", "sent"}

\* The rest of the process group: nobody, background jobs, or an unrelated
\* group that was given the same id after this one was empty.
Members == {"none", "jobs", "stranger"}

Generation == [some : BOOLEAN, cmd : Command, finished : BOOLEAN, retired : Outcome]
Restart    == [on : BOOLEAN, machine : Machine(Proc), next : Command \cup {"none"},
               kind : Kind]
Child      == [waiter : Waiter, members : Members]

NoGeneration == [some |-> FALSE, cmd |-> "std", finished |-> FALSE, retired |-> "no"]
Spawned(cmd) == [some |-> TRUE, cmd |-> cmd, finished |-> FALSE, retired |-> "no"]
NoRestart    == [on |-> FALSE, machine |-> New({}), next |-> "none", kind |-> "Standard"]
NoChild      == [waiter |-> "none", members |-> "none"]
NewChild     == [waiter |-> "waiting", members |-> "none"]

------------------------------------------------------------------------------
(* Queries *)

Dead(p, g)      == child[p][g].waiter \in {"dead", "sent"}
HasStatus(p, g) == child[p][g].waiter \in {"recorded", "dead", "sent"}

\* killpg(pgid, 0) says ESRCH: an unreaped leader and a stranger both count.
GroupGone(p, g) ==
  /\ child[p][g].waiter # "waiting"
  /\ child[p][g].members = "none"

\* A process krawatte started is still there.
Alive(p, g) == child[p][g].waiter = "waiting" \/ child[p][g].members = "jobs"

IsRestarting(p)   == restart[p].on
IsOverride(p)     == kind[p] = "Override"
IsDead(p)         == live[p].some => Dead(p, gen[p])
CurrentCommand(p) == IF live[p].some THEN live[p].cmd ELSE "std"

\* Mistake: the leader is reaped, whatever it left behind.
ExitedLeaders == {p \in Proc : live[p].some => Dead(p, gen[p])}

\* Mistake: the group is empty, but the waiter has not published that yet.
ExitedGroups == {p \in Proc : live[p].some => GroupGone(p, gen[p])}

\* RealEffects::poll_exited.
Exited == {p \in Proc : live[p].some => Dead(p, gen[p]) /\ GroupGone(p, gen[p])}

\* `who` sends a signal to the slots in `targets`.  Some of them may have been
\* marked finished or retired before (shutdown() takes the mark off again).
Signal(who, targets) ==
  hits' = IF \E p \in targets : live[p].some /\ (live[p].finished \/ live[p].retired # "no")
          THEN hits \cup {who} ELSE hits

------------------------------------------------------------------------------
(* begin() and its callers *)

\* Mistake: a reaped leader is taken for an empty group.
ConfirmedByLeader(p) == live[p].some /\ Dead(p, gen[p])

\* The slot's generation is seen to be over, group and all.
Confirmed(p) == live[p].some /\ Dead(p, gen[p]) /\ GroupGone(p, gen[p])

\* Mistake: the mark left by an earlier teardown is ignored.
ToKillUnmarked(p) == IF live[p].some /\ ~Confirmed(p) THEN {p} ELSE {}

\* Mistake: a dead leader needs no teardown.
ToKillLeader(p) ==
  IF live[p].some /\ ~live[p].finished /\ ~Dead(p, gen[p]) THEN {p} ELSE {}

\* `to_kill`: what the machine of a restart has to tear down.
ToKill(p) == IF live[p].some /\ ~live[p].finished /\ ~Confirmed(p) THEN {p} ELSE {}

\* begin() on every slot of S, none of which has a restart in flight.
Begin(S, next, knd) ==
  /\ \A p \in S : ~IsRestarting(p)
  /\ \A p \in S : next[p] # "none" => gen[p] < MaxGen   \* bound
  /\ live' = [p \in Proc |-> IF p \in S /\ Confirmed(p)
                             THEN [live[p] EXCEPT !.finished = TRUE] ELSE live[p]]
  /\ restart' = [p \in Proc |->
       IF p \in S
       THEN [on |-> TRUE, machine |-> New(ToKill(p)), next |-> next[p], kind |-> knd[p]]
       ELSE restart[p]]
  /\ late' = [p \in 0 .. N |-> IF p \in S THEN FALSE ELSE late[p]]
  /\ UNCHANGED <<gen, kind, child, givenUp, hits>>

Each(v) == [p \in Proc |-> v]

Replace(p, cmd)          == Begin({p}, Each(cmd), kind)
ReplaceWith(p, cmd, knd) == Begin({p}, Each(cmd), Each(knd))
KillSlot(p)              == Begin({p}, Each("std"), Each("Standard"))
StopSlot(p)              == Begin({p}, Each("none"), Each("Standard"))

------------------------------------------------------------------------------
(* tick() *)

Advance == cursor' = IF cursor = N THEN 0 ELSE cursor + 1

EnterTick ==
  /\ mode = "running"
  /\ cursor = 0
  /\ Advance
  /\ UNCHANGED <<slotVars, late, child, endVars, givenUp, hits>>

AtSlot(p) == mode = "running" /\ cursor = p

TickIdle(p) ==
  /\ AtSlot(p)
  /\ ~IsRestarting(p)
  /\ Advance
  /\ UNCHANGED <<slotVars, late, child, endVars, givenUp, hits>>

\* The first step() of the slot's machine sends SIGTERM.
TickTerm(p) ==
  /\ AtSlot(p)
  /\ IsRestarting(p)
  /\ NeedsTerm(restart[p].machine)
  /\ restart' = [restart EXCEPT ![p].machine = FirstEntry(restart[p].machine)]
  /\ Signal("restart", TermTargets(restart[p].machine))
  /\ UNCHANGED <<gen, kind, live, late, child, cursor, endVars, givenUp>>

\* retire(): close out a generation and remember how it ended.
Retire(p, abandoned) ==
  IF ~live[p].some \/ live[p].retired # "no" THEN live[p]
  ELSE [live[p] EXCEPT !.finished = TRUE,
                       !.retired  = IF abandoned THEN "abandoned"
                                    ELSE IF HasStatus(p, gen[p]) THEN "exited"
                                    ELSE "unknown"]

\* retire() joins the waiter of a dead generation: the thread has sent its
\* Event::Exited before the main thread goes on.
Joined(p) == live[p].some /\ Dead(p, gen[p]) => child[p][gen[p]].waiter = "sent"

\* Mistake: a slot that spawns nothing keeps its kind.
KindAfterSpawn(p) == IF restart[p].next = "none" THEN kind[p] ELSE restart[p].kind

\* "Set even when nothing was spawned".
KindAfter(p) == restart[p].kind

\* complete(): retire the old generation, spawn the next one if there is one;
\* `ok` says whether spawn_one succeeds.
Complete(p, abandoned, ok) ==
  /\ live[p].retired = "no" => Joined(p)
  /\ restart' = [restart EXCEPT ![p] = NoRestart]
  /\ kind' = [kind EXCEPT ![p] = KindAfter(p)]
  /\ givenUp' = IF abandoned THEN givenUp \cup {<<p, gen[p]>>} ELSE givenUp
  /\ \/ /\ restart[p].next = "none"
        /\ live' = [live EXCEPT ![p] = Retire(p, abandoned)]
        /\ UNCHANGED <<gen, child>>
     \/ /\ restart[p].next # "none"
        /\ gen' = [gen EXCEPT ![p] = @ + 1]
        /\ live' = [live EXCEPT ![p] =
             IF ok THEN Spawned(restart[p].next) ELSE NoGeneration]
        /\ child' = IF ok THEN [child EXCEPT ![p][gen[p] + 1] = NewChild] ELSE child

\* A later step() of the slot's machine, and complete() when it is Done.
TickPoll(p, ok) ==
  LET m == Harvest(restart[p].machine, Exited, late[p])
  IN  /\ AtSlot(p)
      /\ IsRestarting(p)
      /\ ~NeedsTerm(restart[p].machine)
      /\ Signal("restart", KillTargets(restart[p].machine, Exited, late[p]))
      /\ \/ /\ m.phase # "Done"
            /\ restart' = [restart EXCEPT ![p].machine = m]
            /\ UNCHANGED <<gen, kind, live, child, givenUp>>
         \/ /\ m.phase = "Done"
            /\ Complete(p, m.abandoned # {}, ok)
      /\ late' = [late EXCEPT ![p] = @ /\ m.phase = restart[p].machine.phase]
      /\ Advance
      /\ UNCHANGED endVars

------------------------------------------------------------------------------
(* shutdown() and Drop *)

ShutdownBegin ==
  /\ mode = "running"
  /\ cursor = 0
  /\ restart' = Each(NoRestart)
  /\ final' = New({p \in Proc : live[p].some})
  /\ mode' = IF final'.phase = "Done" THEN "collect" ELSE "stopping"
  /\ UNCHANGED <<gen, kind, live, late, child, cursor, statuses, givenUp, hits>>

ShutdownTerm ==
  /\ mode = "stopping"
  /\ NeedsTerm(final)
  /\ final' = FirstEntry(final)
  /\ Signal("shutdown", TermTargets(final))
  /\ UNCHANGED <<slotVars, late, child, cursor, mode, statuses, givenUp>>

ShutdownPoll ==
  /\ mode = "stopping"
  /\ ~NeedsTerm(final)
  /\ final' = Harvest(final, Exited, late[0])
  /\ mode' = IF final'.phase = "Done" THEN "collect" ELSE "stopping"
  /\ givenUp' = givenUp \cup {<<p, gen[p]>> : p \in final'.abandoned}
  /\ Signal("shutdown", KillTargets(final, Exited, late[0]))
  /\ late' = [late EXCEPT ![0] = @ /\ final'.phase = final.phase]
  /\ UNCHANGED <<slotVars, child, cursor, statuses>>

\* After the machine: mark what is confirmed empty, collect the statuses.
ShutdownCollect ==
  /\ mode = "collect"
  /\ \A p \in Proc : Joined(p)
  /\ live' = [p \in Proc |->
       IF live[p].some
       THEN [live[p] EXCEPT !.finished = Confirmed(p)]
       ELSE live[p]]
  /\ statuses' = [p \in Proc |-> live[p].some /\ HasStatus(p, gen[p])]
  /\ mode' = "returned"
  /\ UNCHANGED <<gen, kind, restart, late, child, cursor, final, givenUp, hits>>

\* Drop: SIGKILL what is not finished, after shutdown() or when the event loop
\* fails or panics.
DropManager ==
  /\ mode \in {"running", "returned"}
  /\ mode' = "dropped"
  /\ Signal("drop", {p \in Proc : live[p].some /\ ~live[p].finished})
  /\ UNCHANGED <<slotVars, late, child, cursor, final, statuses, givenUp>>

------------------------------------------------------------------------------
(* Waiter threads, children and the kernel *)

SetChild(p, g, c) == child' = [child EXCEPT ![p][g] = c]
OnlyChild == UNCHANGED <<slotVars, late, cursor, endVars, givenUp, hits>>

\* The leader exits and Child::wait returns, then the thread goes on.
WaiterSteps(from, to, p, g) ==
  /\ child[p][g].waiter = from
  /\ SetChild(p, g, [child[p][g] EXCEPT !.waiter = to])
  /\ OnlyChild

WaiterReaps(p, g)   == WaiterSteps("waiting", "reaped", p, g)
WaiterRecords(p, g) == WaiterSteps("reaped", "recorded", p, g)
WaiterMarks(p, g)   == WaiterSteps("recorded", "dead", p, g)
WaiterSends(p, g)   == WaiterSteps("dead", "sent", p, g)

JobsStart(p, g) ==
  /\ p \in MayFork
  /\ child[p][g].waiter = "waiting" /\ child[p][g].members = "none"
  /\ SetChild(p, g, [child[p][g] EXCEPT !.members = "jobs"])
  /\ OnlyChild

JobsEnd(p, g) ==
  /\ child[p][g].members = "jobs"
  /\ SetChild(p, g, [child[p][g] EXCEPT !.members = "none"])
  /\ OnlyChild

IdRecycled(p, g) ==
  /\ p \in Recycles
  /\ child[p][g].waiter # "none" /\ GroupGone(p, g)
  /\ SetChild(p, g, [child[p][g] EXCEPT !.members = "stranger"])
  /\ OnlyChild

StrangerLeaves(p, g) ==
  /\ child[p][g].members = "stranger"
  /\ SetChild(p, g, [child[p][g] EXCEPT !.members = "none"])
  /\ OnlyChild

\* The grace period or the reap timeout of a machine runs out; the latter only
\* over processes that SIGKILL does not rid us of in time.
RunsOut(m) ==
  /\ m.started
  /\ m.phase = "Killing" => \A q \in m.live : Alive(q, gen[q]) => q \in MaySurvive

Timeout(p) ==
  /\ ~late[p]
  /\ IF p = 0 THEN mode = "stopping" /\ RunsOut(final)
              ELSE IsRestarting(p) /\ RunsOut(restart[p].machine)
  /\ late' = [late EXCEPT ![p] = TRUE]
  /\ UNCHANGED <<slotVars, child, cursor, endVars, givenUp, hits>>

------------------------------------------------------------------------------
Init ==
  /\ gen = Each(0)
  /\ kind = Each("Standard")
  /\ restart = Each(NoRestart)
  /\ late = [p \in 0 .. N |-> FALSE]
  /\ \E up \in SUBSET Proc :      \* slots whose initial spawn succeeds
       /\ live = [p \in Proc |-> IF p \in up THEN Spawned("std") ELSE NoGeneration]
       /\ child = [p \in Proc |-> [g \in Gens |->
                     IF p \in up /\ g = 0 THEN NewChild ELSE NoChild]]
  /\ mode = "running"
  /\ cursor = 0
  /\ final = New({})
  /\ statuses = Each(FALSE)
  /\ givenUp = {}
  /\ hits = {}

\* What the event loop asks of a slot between two ticks.
Ask(p) ==
  /\ mode = "running"
  /\ cursor = 0
  /\ \/ Replace(p, CurrentCommand(p))                   \* key r, `restart`
     \/ ~IsOverride(p) /\ Replace(p, "std")             \* Event::Changed
     \/ IsDead(p) /\ ReplaceWith(p, "std", "Standard")  \* `start`, resume
     \/ ReplaceWith(p, "ovr", "Override")               \* `run`
     \/ KillSlot(p)                                     \* key k, `kill`
     \/ ~IsDead(p) /\ StopSlot(p)                       \* `stop`
  /\ UNCHANGED <<cursor, endVars>>

Tick == EnterTick \/ \E p \in Proc : TickIdle(p) \/ TickTerm(p) \/ \E ok \in BOOLEAN : TickPoll(p, ok)

ShutdownStep == ShutdownTerm \/ ShutdownPoll \/ ShutdownCollect

Environment ==
  \/ \E p \in Proc, g \in Gens :
       \/ WaiterReaps(p, g) \/ WaiterRecords(p, g) \/ WaiterMarks(p, g) \/ WaiterSends(p, g)
       \/ JobsStart(p, g) \/ JobsEnd(p, g) \/ IdRecycled(p, g) \/ StrangerLeaves(p, g)
  \/ \E p \in 0 .. N : Timeout(p)

Next ==
  \/ \E p \in Proc : Ask(p)
  \/ Tick
  \/ ShutdownBegin \/ ShutdownStep \/ DropManager
  \/ Environment

Spec == Init /\ [][Next]_vars

\* The event loop keeps ticking, shutdown() keeps polling, time passes, and a
\* waiter thread that has published `dead` runs to its end.
Fairness ==
  /\ WF_vars(Tick)
  /\ \A p \in Proc, g \in Gens : WF_vars(WaiterSends(p, g))
  /\ WF_vars(ShutdownStep)
  /\ \A p \in 0 .. N : WF_vars(Timeout(p))

FairSpec == Spec /\ Fairness

------------------------------------------------------------------------------
(* Properties *)

\* The types of the slots, the machines and the generations; a machine embedded
\* in a slot only ever follows that slot, a retired generation is marked.
TypeOK ==
  /\ gen \in [Proc -> Gens]
  /\ kind \in [Proc -> Kind]
  /\ live \in [Proc -> Generation]
  /\ restart \in [Proc -> Restart]
  /\ \A p \in Proc : restart[p].machine.live \cup restart[p].machine.abandoned \subseteq {p}
  /\ mode = "running" => \A p \in Proc : live[p].retired # "no" => live[p].finished
  /\ late \in [0 .. N -> BOOLEAN]
  /\ child \in [Proc -> [Gens -> Child]]
  /\ mode \in Mode
  /\ cursor \in 0 .. N
  /\ final \in Machine(Proc)
  /\ statuses \in [Proc -> BOOLEAN]
  /\ givenUp \subseteq Proc \X Gens
  /\ hits \subseteq {"restart", "shutdown", "drop"}

\* proc.rs `Generation`, "A slot holds at most one generation that may still be
\* alive": an older one has no process left, background jobs included, unless
\* it was given up on after SIGKILL.
OneGenerationAlive ==
  \A p \in Proc, g \in Gens : g # gen[p] /\ Alive(p, g) => <<p, g>> \in givenUp

\* proc.rs `finished`, "confirmed empty": a generation is marked only when the
\* group has no process of ours left, or was given up on.
FinishedMeansGone ==
  \A p \in Proc : live[p].some /\ live[p].finished =>
    (~Alive(p, gen[p]) /\ Dead(p, gen[p])) \/ <<p, gen[p]>> \in givenUp

\* proc.rs `retire`, unwrap_or(Code(-1)): the made-up status is never used --
\* a generation that was not abandoned has recorded how it ended.
OutcomeIsRecorded ==
  \A p \in Proc : live[p].retired # "unknown"

\* proc.rs `finished`, "so nothing signals the pgid again": no restart signals a
\* generation that was marked finished, whose group id may be a stranger's.
RestartSparesFinished == "restart" \notin hits

\* proc.rs `shutdown`: a slot comes back without a status only if it has no
\* generation or that one was given up on.
StatusUnlessAbandoned ==
  mode = "returned" =>
    \A p \in Proc : live[p].some /\ ~statuses[p] => <<p, gen[p]>> \in givenUp

\* proc.rs `is_override`, "Whether the slot currently runs an override rather
\* than its standard command": it says so of a slot whose current generation is
\* up, not retired, and runs an override's command.
OverrideIsKnown ==
  \A p \in Proc : live[p].some /\ live[p].retired = "no" /\ ~IsDead(p) /\ live[p].cmd = "ovr"
    => IsOverride(p)

\* proc.rs `tick`: every teardown ends, whatever the children do, unless the
\* main thread leaves the event loop.
RestartCompletes ==
  \A p \in Proc : IsRestarting(p) ~> ~IsRestarting(p) \/ mode # "running"

\* proc.rs `shutdown`: it returns.
ShutdownReturns == mode = "stopping" ~> mode = "returned"

\* The slots implement SlotLifecycle.
Life ==
  INSTANCE SlotLifecycle WITH
    phase   <- [p \in Proc |-> IF mode # "running" THEN "closed"
                               ELSE IF IsRestarting(p) THEN "tearing" ELSE "settled"],
    alive   <- [p \in Proc |-> {g \in Gens : Alive(p, g)}],
    givenUp <- [p \in Proc |-> {g \in Gens : <<p, g>> \in givenUp}]

\* proc.rs `tick` and `complete`: generations follow each other one at a time,
\* and nothing is spawned once shutdown() has begun.
OneAtATime == Life!Spec
==============================================================================

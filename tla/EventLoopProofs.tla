---------------------------- MODULE EventLoopProofs ----------------------------
(***************************************************************************)
(* The event loop over any number of slots and clients, requests in any    *)
(* order: who a parked reply waits for, what a slot in a teardown shows,   *)
(* that a stopped slot stays down, and that what the screen says of a slot *)
(* is real; and that the process manager keeps its invariant and runs its  *)
(* slots in turn when it is the loop that drives it.                       *)
(***************************************************************************)
EXTENDS EventLoop, ProcManagerProofs

\* The record of a restart, whatever its machine is.
IsRestart(r) ==
  r = [on |-> r.on, machine |-> r.machine, next |-> r.next, kind |-> r.kind] /\ r.on \in BOOLEAN

IsFunctionOnProc(f) == f = [p \in Proc |-> f[p]]

SlotEvent == [type : {"Exited", "SpawnFailed", "Changed"}, slot : Proc, gen : Int]
Event     == SlotEvent \cup [type : {"Control"}, client : Client]

\* The shapes the properties rest on.
LoopShape ==
  /\ IsFunctionOnProc(restart) /\ IsFunctionOnProc(kind) /\ IsFunctionOnProc(health)
  /\ \A p \in Proc : IsRestart(restart[p])
  /\ gen \in [Proc -> Int]
  /\ queue \in Seq(Event)
  /\ waiters \in [Client -> SUBSET Proc]
  /\ stopped \subseteq Proc
  /\ request \in [Client -> Requests \cup {NoRequest}]

\* A teardown of a stopped slot spawns nothing, and once over it leaves no override
\* whose exit would bring the standard command back.
StoppedRunsNothing ==
  \A p \in stopped :
    IF restart[p].on THEN restart[p].next = "none" /\ restart[p].kind = "Standard"
    ELSE kind[p] = "Standard"

\* While the loop runs, a slot in a teardown shows that, or a spawn that failed.
TeardownIsShown ==
  mode = "running" => \A p \in Proc : restart[p].on => health[p] \in {"Restarting", "SpawnFailed"}

\* Leaving the loop drops the restarts in flight, and none begins after that.
LeftIsQuiet == mode # "running" => \A p \in Proc : ~restart[p].on

LoopInv ==
  /\ LoopShape /\ TeardownIsShown /\ WaitersAreServed /\ LeftIsQuiet
  /\ mode = "running" => StoppedRunsNothing

LEMMA RecordIsRestart ==
  ASSUME NEW a \in BOOLEAN, NEW m, NEW n, NEW k, NEW r,
         r = [on |-> a, machine |-> m, next |-> n, kind |-> k]
  PROVE  IsRestart(r) /\ r.on = a /\ r.next = n /\ r.kind = k
BY DEF IsRestart

LEMMA MachineOfRestart ==
  ASSUME NEW r, IsRestart(r), NEW m, NEW s, s = [r EXCEPT !.machine = m]
  PROVE  IsRestart(s) /\ s.on = r.on /\ s.next = r.next /\ s.kind = r.kind
<1>1. s = [on |-> r.on, machine |-> m, next |-> r.next, kind |-> r.kind]
  BY DEF IsRestart
<1>2. r.on \in BOOLEAN
  BY DEF IsRestart
<1> QED BY <1>1, <1>2, RecordIsRestart

LEMMA NoRestartIs == IsRestart(NoRestart) /\ NoRestart.on = FALSE
<1>1. NoRestart = [on |-> FALSE, machine |-> New({}), next |-> "none", kind |-> "Standard"]
  BY DEF NoRestart
<1> HIDE DEF NoRestart
<1> QED BY <1>1 DEF IsRestart

LEMMA LoopInitInv == LoopInit => LoopInv
<1> SUFFICES ASSUME LoopInit PROVE LoopInv
  OBVIOUS
<1>1. \A p \in Proc : restart[p] = NoRestart
  BY DEF LoopInit, Init, Each
<1>2. LoopShape
  <2>1. queue \in Seq(Event)
    <3>1. PICK n \in 0 .. N : queue \in [1 .. n -> {SpawnFailedEvent(p, 0) : p \in Proc}]
      BY SlotAssumption DEF LoopInit
    <3>2. {SpawnFailedEvent(p, 0) : p \in Proc} \subseteq Event
      BY DEF SpawnFailedEvent, Event, SlotEvent
    <3> QED BY <3>1, <3>2, SlotAssumption
  <2>2. IsFunctionOnProc(restart) /\ IsFunctionOnProc(kind) /\ IsFunctionOnProc(health)
    BY DEF LoopInit, Init, Each, IsFunctionOnProc
  <2>3. \A p \in Proc : IsRestart(restart[p])
    BY <1>1, NoRestartIs
  <2> QED BY <2>1, <2>2, <2>3 DEF LoopInit, Init, Each, LoopShape
<1> QED BY <1>1, <1>2 DEF LoopInit, LoopInv, TeardownIsShown, WaitersAreServed, IsRestarting,
                          StoppedRunsNothing, NoRestart, LeftIsQuiet

------------------------------------------------------------------------------
(* Steps that leave the loop's view of the slots, and steps that leave the loop *)

LEMMA AsideLoop ==
  ASSUME LoopInv, restart' = restart, kind' = kind, health' = health, waiters' = waiters,
         stopped' = stopped, gen' = gen, queue' \in Seq(Event),
         request' \in [Client -> Requests \cup {NoRequest}],
         mode' = "running" <=> mode = "running"
  PROVE  LoopInv'
<1>1. LoopShape'
  BY DEF LoopInv, LoopShape, IsFunctionOnProc, IsRestart
<1>2. TeardownIsShown' /\ WaitersAreServed' /\ LeftIsQuiet' /\ (mode = "running" => StoppedRunsNothing)'
  BY DEF LoopInv, TeardownIsShown, WaitersAreServed, IsRestarting, StoppedRunsNothing, LeftIsQuiet
<1> QED BY <1>1, <1>2 DEF LoopInv

LEMMA LeaveLoopInv == LoopInv /\ LeaveLoop => LoopInv'
<1> SUFFICES ASSUME LoopInv, LeaveLoop PROVE LoopInv'
  OBVIOUS
<1>1. /\ restart' = Each(NoRestart) /\ mode' # "running"
      /\ kind' = kind /\ health' = health /\ stopped' = stopped
      /\ waiters' = [c \in Client |-> {}]
  BY DEF LeaveLoop, ShutdownBegin
<1>2. LoopShape'
  <2>1. IsFunctionOnProc(restart)' /\ \A p \in Proc : IsRestart(restart[p])'
    BY <1>1 DEF Each, NoRestart, IsFunctionOnProc, IsRestart
  <2>2. gen' = gen /\ queue' = queue /\ request' = request
    BY DEF LeaveLoop, ShutdownBegin
  <2> QED BY <1>1, <2>1, <2>2 DEF LoopInv, LoopShape, IsFunctionOnProc
<1>3. LeftIsQuiet'
  BY <1>1, NoRestartIs DEF Each, LeftIsQuiet
<1> QED BY <1>1, <1>2, <1>3 DEF LoopInv, TeardownIsShown, WaitersAreServed

------------------------------------------------------------------------------
(* begin() *)

\* Slots go into a teardown: they show it, those that come up are not stopped any more,
\* and those that stop are asked for nothing.
LEMMA BeginLoop ==
  ASSUME LoopInv, NEW S \in SUBSET Proc, NEW next, NEW knd, Begin(S, next, knd),
         NEW stops \in SUBSET S, NEW starts, Accepted(S, stops, starts),
         mode = "running", mode' = mode,
         \A p \in stops : next[p] = "none" /\ knd[p] = "Standard",
         \A p \in S \ stops : p \in starts \/ p \notin stopped,
         waiters' \in [Client -> SUBSET Proc], queue' \in Seq(Event), request' = request,
         \A c \in Client : waiters'[c] \subseteq waiters[c] \cup S
  PROVE  LoopInv'
<1>0. /\ \A p \in Proc \ S : restart'[p] = restart[p]
      /\ \A p \in S : restart'[p] = [on |-> TRUE, machine |-> New(ToKill(p)),
                                     next |-> next[p], kind |-> knd[p]]
      /\ IsFunctionOnProc(restart)' /\ kind' = kind /\ gen' = gen
  BY DEF Begin, IsFunctionOnProc
<1>1. ASSUME NEW p \in S
      PROVE  /\ restart'[p].on = TRUE /\ IsRestart(restart'[p])
             /\ restart'[p].next = next[p] /\ restart'[p].kind = knd[p]
  <2>1. restart'[p] = [on |-> TRUE, machine |-> New(ToKill(p)), next |-> next[p], kind |-> knd[p]]
    BY <1>0
  <2> QED BY <2>1 DEF IsRestart
<1>2. /\ \A p \in Proc : health'[p] = IF p \in S THEN "Restarting" ELSE health[p]
      /\ IsFunctionOnProc(health)'
      /\ stopped' = (stopped \cup stops) \ starts
  BY DEF Accepted, IsFunctionOnProc
<1>3. LoopShape'
  <2>1. \A p \in Proc : IsRestart(restart[p])'
    BY <1>0, <1>1 DEF LoopInv, LoopShape, IsRestart
  <2>2. IsFunctionOnProc(kind)'
    BY <1>0, <1>1 DEF LoopInv, LoopShape, IsFunctionOnProc
  <2>3. stopped' \subseteq Proc
    BY <1>2 DEF LoopInv, LoopShape
  <2> QED BY <1>0, <1>1, <1>2, <2>1, <2>2, <2>3 DEF LoopInv, LoopShape
<1>4. TeardownIsShown'
  BY <1>0, <1>1, <1>2 DEF LoopInv, TeardownIsShown
<1>5. WaitersAreServed'
  <2> SUFFICES ASSUME NEW c \in Client, mode = "running", NEW p \in waiters'[c]
               PROVE  restart'[p].on
    BY DEF WaitersAreServed, IsRestarting
  <2>1. p \in Proc
    OBVIOUS
  <2> QED BY <1>0, <1>1, <2>1 DEF LoopInv, WaitersAreServed, IsRestarting
<1>6. (mode = "running" => StoppedRunsNothing)'
  <2> SUFFICES ASSUME mode = "running", NEW p \in stopped'
               PROVE  IF restart'[p].on THEN restart'[p].next = "none" /\ restart'[p].kind = "Standard"
                      ELSE kind'[p] = "Standard"
    BY DEF StoppedRunsNothing
  <2>1. CASE p \in S
    <3>1. p \in stops /\ p \in Proc
      BY <1>2, <2>1
    <3> QED BY <1>0, <1>1, <2>1, <3>1, ZenonT(30)
  <2>2. CASE p \notin S
    <3>1. p \in stopped /\ p \in Proc
      BY <1>2, <2>2 DEF LoopInv, LoopShape
    <3> QED BY <1>0, <1>1, <2>2, <3>1 DEF LoopInv, StoppedRunsNothing
  <2> QED BY <2>1, <2>2
<1> QED BY <1>3, <1>4, <1>5, <1>6 DEF LoopInv, LeftIsQuiet

LEMMA KeyInv ==
  ASSUME LoopInv, NEW p \in Proc, Key(p)
  PROVE  LoopInv'
<1>1. PICK next, knd : Begin({p}, next, knd)
  BY DEF Key, Replace, KillSlot
<1>2. Accepted({p}, {}, {p}) /\ waiters' = waiters /\ mode = "running" /\ mode' = mode /\ queue' = queue /\ request' = request
  BY DEF Key, Looping, endVars
<1>3. waiters' \in [Client -> SUBSET Proc] /\ queue' \in Seq(Event)
  BY <1>2 DEF LoopInv, LoopShape
<1> QED BY <1>1, <1>2, <1>3, BeginLoop

------------------------------------------------------------------------------
(* drain_events *)

LEMMA DrainingTypes ==
  ASSUME LoopInv, NEW type \in {"Exited", "SpawnFailed", "Changed"}, Draining(type)
  PROVE  Head(queue) \in SlotEvent /\ queue' \in Seq(Event) /\ request' = request
<1>1. Head(queue) \in Event /\ Tail(queue) \in Seq(Event)
  BY DEF Draining, LoopInv, LoopShape
<1> QED BY <1>1 DEF Draining, Event

LEMMA DrainExitedInv == LoopInv /\ DrainExited => LoopInv'
<1> SUFFICES ASSUME LoopInv, DrainExited PROVE LoopInv'
  OBVIOUS
<1> DEFINE e == Head(queue)
<1>0. waiters' = waiters /\ mode = "running" /\ e \in SlotEvent /\ queue' \in Seq(Event)
      /\ request' = request /\ request \in [Client -> Requests \cup {NoRequest}]
  BY DrainingTypes DEF DrainExited, Draining, Looping, LoopInv, LoopShape
<1>w. waiters' \in [Client -> SUBSET Proc] /\ e.slot \in Proc
  BY <1>0 DEF LoopInv, LoopShape, SlotEvent
<1>1. CASE Untouched
  BY <1>0, <1>1, AsideLoop DEF Untouched, vars, slotVars, endVars
<1>2. CASE /\ ExitCounts(e) /\ IsOverride(e.slot)
           /\ ReplaceWith(e.slot, "std", "Standard")
           /\ Accepted({e.slot}, {}, {})
           /\ UNCHANGED <<cursor, endVars>>
  <2>1. e.slot \notin stopped
    BY <1>0, <1>2 DEF ExitCounts, IsRestarting, IsOverride, LoopInv, StoppedRunsNothing
  <2>2. Begin({e.slot}, Each("std"), Each("Standard")) /\ mode' = mode
    BY <1>2 DEF ReplaceWith, endVars
  <2> HIDE DEF e
  <2> QED BY <1>0, <1>w, <1>2, <2>1, <2>2, BeginLoop
<1>3. CASE /\ ExitCounts(e)
           /\ health' = [health EXCEPT ![e.slot] = "Exited"]
           /\ UNCHANGED <<vars, stopped>>
  <2>1. /\ restart' = restart /\ kind' = kind /\ stopped' = stopped /\ gen' = gen /\ mode' = mode
    BY <1>3 DEF vars, slotVars, endVars
  <2>2. ~restart[e.slot].on
    BY <1>3 DEF ExitCounts, IsRestarting
  <2>3. LoopShape'
    BY <1>0, <1>3, <2>1 DEF LoopInv, LoopShape, IsFunctionOnProc, IsRestart
  <2>4. TeardownIsShown'
    BY <1>3, <2>1, <2>2 DEF LoopInv, LoopShape, IsFunctionOnProc, TeardownIsShown
  <2> QED BY <1>0, <2>1, <2>3, <2>4 DEF LoopInv, WaitersAreServed, IsRestarting, StoppedRunsNothing, LeftIsQuiet
<1> QED BY <1>1, <1>2, <1>3 DEF DrainExited

LEMMA DrainSpawnFailedInv == LoopInv /\ DrainSpawnFailed => LoopInv'
<1> SUFFICES ASSUME LoopInv, DrainSpawnFailed PROVE LoopInv'
  OBVIOUS
<1>1. /\ restart' = restart /\ kind' = kind /\ stopped' = stopped /\ gen' = gen
      /\ mode' = mode /\ waiters' = waiters /\ queue' \in Seq(Event) /\ request' = request
  BY DrainingTypes DEF DrainSpawnFailed, vars, slotVars, endVars
<1>2. \/ health' = health
      \/ health' = [health EXCEPT ![Head(queue).slot] = "SpawnFailed"]
  BY DEF DrainSpawnFailed
<1>3. LoopShape'
  BY <1>1, <1>2 DEF LoopInv, LoopShape, IsFunctionOnProc, IsRestart
<1>4. TeardownIsShown'
  BY <1>1, <1>2 DEF LoopInv, LoopShape, IsFunctionOnProc, TeardownIsShown
<1> QED BY <1>1, <1>3, <1>4 DEF LoopInv, WaitersAreServed, IsRestarting, StoppedRunsNothing, LeftIsQuiet

LEMMA DrainChangedInv == LoopInv /\ DrainChanged => LoopInv'
<1> SUFFICES ASSUME LoopInv, DrainChanged PROVE LoopInv'
  OBVIOUS
<1> DEFINE p == Head(queue).slot
<1>0. /\ waiters' = waiters /\ p \in Proc /\ queue' \in Seq(Event)
      /\ request' = request /\ request \in [Client -> Requests \cup {NoRequest}]
  BY DrainingTypes DEF DrainChanged, SlotEvent, LoopInv, LoopShape
<1>w. waiters' \in [Client -> SUBSET Proc]
  BY <1>0 DEF LoopInv, LoopShape
<1>1. CASE Untouched
  BY <1>0, <1>1, AsideLoop DEF Untouched, vars, slotVars, endVars
<1>2. CASE Replace(p, "std") /\ Accepted({p}, {}, {p}) /\ UNCHANGED <<cursor, endVars>>
  <2>1. Begin({p}, Each("std"), kind) /\ mode = "running" /\ mode' = mode
    BY <1>2 DEF DrainChanged, Draining, Looping, Replace, endVars
  <2> HIDE DEF p
  <2> QED BY <1>0, <1>w, <1>2, <2>1, BeginLoop
<1> QED BY <1>1, <1>2 DEF DrainChanged

LEMMA DrainControlInv == LoopInv /\ DrainControl => LoopInv'
<1> SUFFICES ASSUME LoopInv, DrainControl PROVE LoopInv'
  OBVIOUS
<1> DEFINE c == Head(queue).client
           r == request[c]
           S == Takers(r)
<1>0. c \in Client /\ queue' \in Seq(Event) /\ request' = request
  <2>1. Head(queue) \in Event /\ Tail(queue) \in Seq(Event)
    BY DEF DrainControl, Draining, LoopInv, LoopShape
  <2> QED BY <2>1 DEF DrainControl, Draining, Event, SlotEvent
<1>1. /\ Begin(S, NextCommand(r), NextKind(r))
      /\ IF r.verb = "stop" THEN Accepted(S, S, {}) ELSE Accepted(S, {}, S)
      /\ mode = "running" /\ mode' = mode
      /\ waiters' = waiters \/ waiters' = [waiters EXCEPT ![c] = S]
  BY DEF DrainControl, Draining, Looping, Act, endVars, Awaited
<1>2. S \in SUBSET Proc
  <2>1. r.target \in 0 .. N
    BY <1>0, RequestAssumption, SlotAssumption DEF LoopInv, LoopShape, Request, NoRequest
  <2> QED BY <2>1 DEF Takers, Targets, Proc
<1>3. /\ waiters' \in [Client -> SUBSET Proc]
      /\ \A o \in Client : waiters'[o] \subseteq waiters[o] \cup S
  BY <1>0, <1>1, <1>2 DEF LoopInv, LoopShape
<1>4. r.verb = "stop" => \A p \in S : NextCommand(r)[p] = "none" /\ NextKind(r)[p] = "Standard"
  BY <1>2 DEF NextCommand, NextKind
<1> HIDE DEF S, r
<1>5. CASE r.verb = "stop"
  BY <1>0, <1>1, <1>2, <1>3, <1>4, <1>5, BeginLoop
<1>6. CASE r.verb # "stop"
  BY <1>0, <1>1, <1>2, <1>3, <1>6, BeginLoop
<1> QED BY <1>5, <1>6

LEMMA DrainQuitInv == LoopInv /\ DrainQuit => LoopInv'
<1> SUFFICES ASSUME LoopInv, DrainQuit PROVE LoopInv'
  OBVIOUS
<1>1. queue' \in Seq(Event) /\ request' \in [Client -> Requests \cup {NoRequest}]
  BY DEF DrainQuit, LoopInv, LoopShape
<1> QED BY <1>1, AsideLoop DEF DrainQuit, vars, slotVars, endVars

------------------------------------------------------------------------------
(* tick and apply_transition *)

\* A slot's machine goes on.
LEMMA MachineLoop ==
  ASSUME LoopInv, NEW p \in Proc, NEW m, restart' = [restart EXCEPT ![p].machine = m],
         kind' = kind, health' = health, waiters' = waiters, stopped' = stopped, gen' = gen,
         queue' = queue, request' = request, mode' = mode
  PROVE  LoopInv'
<1>1. \A q \in Proc : IsRestart(restart[q])
  BY DEF LoopInv, LoopShape
<1>2. \A q \in Proc : /\ IsRestart(restart[q])' /\ restart'[q].on = restart[q].on
                      /\ restart'[q].next = restart[q].next /\ restart'[q].kind = restart[q].kind
  <2>1. \A q \in Proc \ {p} : restart'[q] = restart[q]
    BY DEF LoopInv, LoopShape, IsFunctionOnProc
  <2>2. restart'[p] = [restart[p] EXCEPT !.machine = m]
    BY DEF LoopInv, LoopShape, IsFunctionOnProc
  <2>3. /\ IsRestart(restart'[p]) /\ restart'[p].on = restart[p].on
        /\ restart'[p].next = restart[p].next /\ restart'[p].kind = restart[p].kind
    BY <1>1, <2>2, MachineOfRestart
  <2> QED BY <1>1, <2>1, <2>3 DEF IsRestart
<1>3. LoopShape'
  BY <1>2 DEF LoopInv, LoopShape, IsFunctionOnProc
<1>4. TeardownIsShown'
  BY <1>2 DEF LoopInv, TeardownIsShown
<1>5. WaitersAreServed'
  <2>1. \A c \in Client : waiters[c] \subseteq Proc
    BY DEF LoopInv, LoopShape
  <2> QED BY <1>2, <2>1 DEF LoopInv, WaitersAreServed, IsRestarting
<1>6. (mode = "running" => StoppedRunsNothing)'
  BY <1>2 DEF LoopInv, LoopShape, StoppedRunsNothing
<1>7. LeftIsQuiet'
  BY <1>2 DEF LoopInv, LeftIsQuiet
<1> QED BY <1>3, <1>4, <1>5, <1>6, <1>7 DEF LoopInv

\* A transition completes: the slot is out of its teardown, and of every parked reply.
LEMMA CompletesLoop ==
  ASSUME LoopInv, NEW p \in Proc, NEW ok, restart' = [restart EXCEPT ![p] = NoRestart],
         restart[p].on, mode = "running",
         kind' = [kind EXCEPT ![p] = KindAfter(p)], ApplyTransition(p, ok),
         stopped' = stopped, gen' \in [Proc -> Int],
         queue' \in Seq(Event), request' = request, mode' = mode
  PROVE  LoopInv'
<1>1. /\ \A q \in Proc \ {p} : /\ restart'[q] = restart[q] /\ kind'[q] = kind[q]
                               /\ health'[q] = health[q]
      /\ restart'[p] = NoRestart /\ kind'[p] = restart[p].kind
      /\ waiters' = [c \in Client |-> waiters[c] \ {p}]
  BY DEF LoopInv, LoopShape, IsFunctionOnProc, ApplyTransition, KindAfter
<1>2. IsRestart(NoRestart) /\ NoRestart.on = FALSE
  BY NoRestartIs
<1>3. LoopShape'
  <2>1. IsFunctionOnProc(restart)' /\ IsFunctionOnProc(kind)' /\ IsFunctionOnProc(health)'
    BY DEF LoopInv, LoopShape, IsFunctionOnProc, ApplyTransition
  <2>2. \A q \in Proc : IsRestart(restart[q])'
    BY <1>1, <1>2 DEF LoopInv, LoopShape, IsRestart
  <2> QED BY <1>1, <2>1, <2>2 DEF LoopInv, LoopShape
<1>4. TeardownIsShown'
  BY <1>1, <1>2 DEF LoopInv, TeardownIsShown
<1>5. WaitersAreServed'
  <2>1. \A c \in Client : waiters[c] \subseteq Proc
    BY DEF LoopInv, LoopShape
  <2> QED BY <1>1, <2>1 DEF LoopInv, WaitersAreServed, IsRestarting
<1>6. (mode = "running" => StoppedRunsNothing)'
  <2>1. p \in stopped => restart[p].kind = "Standard"
    BY DEF LoopInv, StoppedRunsNothing
  <2> QED BY <1>1, <1>2, <2>1 DEF LoopInv, LoopShape, StoppedRunsNothing
<1> QED BY <1>3, <1>4, <1>5, <1>6 DEF LoopInv, LeftIsQuiet

LEMMA LoopTickPollInv ==
  ASSUME LoopInv, NEW p \in Proc, NEW ok \in BOOLEAN, LoopTickPoll(p, ok)
  PROVE  LoopInv'
<1> DEFINE m == Harvest(restart[p].machine, Exited, late[p])
<1>0. mode = "running" /\ mode' = mode /\ restart[p].on /\ stopped' = stopped /\ request' = request
  BY DEF LoopTickPoll, TickPoll, AtSlot, IsRestarting, endVars
<1>1. CASE /\ restart' = [restart EXCEPT ![p].machine = m]
           /\ UNCHANGED <<gen, kind, live, child, givenUp>>
  <2> HIDE DEF m
  <2>1. restart'[p] = [restart[p] EXCEPT !.machine = m]
    BY <1>1 DEF LoopInv, LoopShape, IsFunctionOnProc
  <2>2. restart'[p].on
    BY <1>0, <2>1, MachineOfRestart DEF LoopInv, LoopShape
  <2>3. UNCHANGED <<health, waiters, reply, queue>>
    BY <2>2 DEF LoopTickPoll
  <2> QED BY <1>0, <1>1, <2>3, MachineLoop
<1>2. CASE Complete(p, m.abandoned # {}, ok)
  <2>1. restart' = [restart EXCEPT ![p] = NoRestart] /\ kind' = [kind EXCEPT ![p] = KindAfter(p)]
    BY <1>2 DEF Complete
  <2>2. ~restart'[p].on
    BY <2>1, NoRestartIs DEF LoopInv, LoopShape, IsFunctionOnProc
  <2>3. /\ ApplyTransition(p, ok)
        /\ queue' = IF restart[p].next # "none" /\ ~ok
                    THEN Append(queue, SpawnFailedEvent(p, gen'[p])) ELSE queue
    BY <2>2 DEF LoopTickPoll
  <2>4. gen' \in [Proc -> Int]
    BY <1>2 DEF Complete, LoopInv, LoopShape
  <2>5. queue' \in Seq(Event)
    <3>1. SpawnFailedEvent(p, gen'[p]) \in Event
      BY <2>4 DEF SpawnFailedEvent, Event, SlotEvent
    <3> QED BY <2>3, <3>1 DEF LoopInv, LoopShape
  <2> QED BY <1>0, <2>1, <2>3, <2>4, <2>5, CompletesLoop
<1> QED BY <1>1, <1>2 DEF LoopTickPoll, TickPoll

LEMMA LoopTickInv == LoopInv /\ LoopTick => LoopInv'
<1> SUFFICES ASSUME LoopInv, LoopTick PROVE LoopInv'
  OBVIOUS
<1>0. queue \in Seq(Event) /\ request \in [Client -> Requests \cup {NoRequest}]
  BY DEF LoopInv, LoopShape
<1>1. ASSUME NEW p \in Proc, TickIdle(p), UNCHANGED loopVars
      PROVE  LoopInv'
  <2>1. UNCHANGED <<restart, kind, gen, mode, health, waiters, stopped, queue, request>>
    BY <1>1 DEF TickIdle, slotVars, endVars, loopVars
  <2> QED BY <1>0, <2>1, AsideLoop
<1>2. ASSUME NEW p \in Proc, TickTerm(p), UNCHANGED loopVars
      PROVE  LoopInv'
  <2>1. /\ restart' = [restart EXCEPT ![p].machine = FirstEntry(restart[p].machine)]
        /\ UNCHANGED <<kind, gen, mode, health, waiters, stopped, queue, request>>
    BY <1>2 DEF TickTerm, endVars, loopVars
  <2> QED BY <2>1, MachineLoop
<1> QED BY <1>1, <1>2, LoopTickPollInv DEF LoopTick

------------------------------------------------------------------------------
(* The other steps *)

LEMMA SendersInv ==
  ASSUME LoopInv,
         \/ \E p \in Proc : SendChanged(p)
         \/ \E c \in Client, r \in Requests : SendRequest(c, r)
         \/ \E p \in Proc, g \in Gens : SendExited(p, g)
  PROVE  LoopInv'
<1>0. queue \in Seq(Event) /\ request \in [Client -> Requests \cup {NoRequest}]
  BY DEF LoopInv, LoopShape
<1>1. ASSUME NEW p \in Proc, SendChanged(p)
      PROVE  LoopInv'
  <2>1. ChangedEvent(p) \in Event
    BY DEF ChangedEvent, Event, SlotEvent
  <2>2. queue' \in Seq(Event) /\ request' = request
    BY <1>0, <1>1, <2>1 DEF SendChanged
  <2> QED BY <1>0, <1>1, <2>2, AsideLoop DEF SendChanged, vars, slotVars, endVars
<1>2. ASSUME NEW c \in Client, NEW r \in Requests, SendRequest(c, r)
      PROVE  LoopInv'
  <2>1. ControlEvent(c) \in Event
    BY DEF ControlEvent, Event
  <2>2. queue' \in Seq(Event) /\ request' \in [Client -> Requests \cup {NoRequest}]
    BY <1>0, <1>2, <2>1 DEF SendRequest
  <2> QED BY <1>2, <2>2, AsideLoop DEF SendRequest, vars, slotVars, endVars
<1>3. ASSUME NEW p \in Proc, NEW g \in Gens, SendExited(p, g)
      PROVE  LoopInv'
  <2>1. ExitedEvent(p, g) \in Event
    BY SlotAssumption DEF ExitedEvent, Event, SlotEvent, Gens
  <2>2. queue' \in Seq(Event) /\ request' = request
    BY <1>0, <1>3, <2>1 DEF SendExited
  <2>3. UNCHANGED <<restart, kind, gen, mode>>
    BY <1>3 DEF SendExited, WaiterSends, WaiterSteps, OnlyChild, slotVars, endVars
  <2> QED BY <1>0, <1>3, <2>2, <2>3, AsideLoop DEF SendExited
<1> QED BY <1>1, <1>2, <1>3

\* What the threads, the children, the kernel and time do without the loop.
ThreadsStep ==
  \/ \E p \in Proc, g \in Gens :
       \/ WaiterReaps(p, g) \/ WaiterRecords(p, g) \/ WaiterMarks(p, g)
       \/ JobsStart(p, g) \/ JobsEnd(p, g) \/ IdRecycled(p, g) \/ StrangerLeaves(p, g)
  \/ \E p \in 0 .. N : Timeout(p)

LEMMA ThreadsInv ==
  ASSUME LoopInv, ThreadsStep, UNCHANGED loopVars
  PROVE  LoopInv'
<1>1. UNCHANGED <<restart, kind, gen, mode>>
  BY DEF ThreadsStep, WaiterReaps, WaiterRecords, WaiterMarks, WaiterSteps, JobsStart, JobsEnd,
         IdRecycled, StrangerLeaves, Timeout, OnlyChild, slotVars, endVars
<1>2. /\ UNCHANGED <<health, waiters, stopped>>
      /\ queue' \in Seq(Event) /\ request' \in [Client -> Requests \cup {NoRequest}]
  BY DEF LoopInv, LoopShape, loopVars
<1> QED BY <1>1, <1>2, AsideLoop

LEMMA EndInv ==
  ASSUME LoopInv, (ShutdownStep /\ UNCHANGED loopVars) \/ Exit
  PROVE  LoopInv'
<1>1. UNCHANGED <<restart, kind, gen, health, waiters, stopped>> /\ mode # "running" /\ mode' # "running"
  BY DEF ShutdownStep, ShutdownTerm, ShutdownPoll, ShutdownCollect, Exit, DropManager,
         slotVars, loopVars
<1>2. queue' \in Seq(Event) /\ request' \in [Client -> Requests \cup {NoRequest}]
  BY DEF LoopInv, LoopShape, loopVars, Exit
<1> QED BY <1>1, <1>2, AsideLoop

LEMMA NoKeyInv == LoopInv /\ NoKey => LoopInv'
<1> SUFFICES ASSUME LoopInv, NoKey PROVE LoopInv'
  OBVIOUS
<1>1. UNCHANGED <<restart, kind, gen, mode, health, waiters, stopped>>
  BY DEF NoKey, vars, slotVars, endVars
<1>2. queue' \in Seq(Event) /\ request' \in [Client -> Requests \cup {NoRequest}]
  BY DEF LoopInv, LoopShape, NoKey
<1> QED BY <1>1, <1>2, AsideLoop

LEMMA EnterTickInv ==
  ASSUME LoopInv, EnterTick, UNCHANGED <<queue, health, waiters, request, stopped>>
  PROVE  LoopInv'
<1>1. UNCHANGED <<restart, kind, gen, mode, health, waiters, stopped>>
  BY DEF EnterTick, slotVars, endVars
<1>2. queue' \in Seq(Event) /\ request' \in [Client -> Requests \cup {NoRequest}]
  BY DEF LoopInv, LoopShape
<1> QED BY <1>1, <1>2, AsideLoop

LEMMA LoopStepInv == LoopInv /\ [LoopNext]_allVars => LoopInv'
<1> SUFFICES ASSUME LoopInv, [LoopNext]_allVars PROVE LoopInv'
  OBVIOUS
<1>1. CASE Drain
  BY <1>1, DrainExitedInv, DrainSpawnFailedInv, DrainChangedInv, DrainControlInv, DrainQuitInv,
     LeaveLoopInv, EnterTickInv DEF Drain, DrainDone
<1>2. CASE NoKey \/ QuitKey \/ \E p \in Proc : Key(p)
  <2>1. CASE NoKey
    BY <2>1, NoKeyInv
  <2>2. CASE QuitKey
    BY <2>2, LeaveLoopInv DEF QuitKey
  <2> QED BY <1>2, <2>1, <2>2, KeyInv
<1>3. CASE LoopTick
  BY <1>3, LoopTickInv
<1>4. CASE (ShutdownStep /\ UNCHANGED loopVars) \/ Exit
  BY <1>4, EndInv
<1>5. CASE Others
  BY <1>5, SendersInv, ThreadsInv DEF Others, ThreadsStep
<1>6. CASE UNCHANGED allVars
  <2>1. queue' \in Seq(Event) /\ request' \in [Client -> Requests \cup {NoRequest}]
    BY <1>6 DEF LoopInv, LoopShape, allVars, loopVars
  <2>2. UNCHANGED <<restart, kind, gen, mode, health, waiters, stopped>>
    BY <1>6 DEF allVars, loopVars, vars, slotVars, endVars
  <2> QED BY <2>1, <2>2, AsideLoop
<1> QED BY <1>1, <1>2, <1>3, <1>4, <1>5, <1>6 DEF LoopNext, MainThread

LEMMA LoopInvHolds == LoopSpec => []LoopInv
<1> QED BY LoopInitInv, LoopStepInv, PTL DEF LoopSpec

------------------------------------------------------------------------------
(* The loop drives the slots as ProcManager allows *)

\* Every begin() of the loop names commands and kinds there are.
LEMMA LoopAsks ==
  ASSUME IInv, LoopInv, DrainExited \/ DrainChanged \/ DrainControl \/ \E p \in Proc : Key(p)
  PROVE  Asks \/ UNCHANGED vars
<1>0. {"std", "ovr"} \subseteq Command /\ {"Standard", "Override"} \subseteq Kind
  BY DEF Command, Kind
<1>1. /\ kind \in [Proc -> Kind] /\ \A p \in Proc : CurrentCommand(p) \in Command
      /\ "std" \in Command /\ "ovr" \in Command /\ "Standard" \in Kind /\ "Override" \in Kind
  <2>1. kind \in [Proc -> Kind] /\ live \in [Proc -> Generation]
    BY DEF IInv, TypeOK
  <2> QED BY <1>0, <2>1 DEF CurrentCommand, Generation
<1> DEFINE Fits(S, next, knd) == \A q \in S : next[q] \in Command \cup {"none"} /\ knd[q] \in Kind
<1>2. ASSUME NEW p \in Proc, NEW next, NEW knd, next[p] \in Command, knd[p] \in Kind,
             Begin({p}, next, knd), mode = "running", UNCHANGED <<cursor, endVars>>
      PROVE  Asks
  <2>1. {p} \in SUBSET Proc /\ Fits({p}, next, knd)
    BY <1>2
  <2> QED BY <1>2, <2>1 DEF Asks
<1>3. \A v : \A p \in Proc : Each(v)[p] = v
  BY DEF Each
<1>4. ASSUME NEW p \in Proc, Key(p)
      PROVE  Asks
  <2>1. mode = "running" /\ UNCHANGED <<cursor, endVars>>
    BY <1>4 DEF Key, Looping
  <2>2. CASE Replace(p, CurrentCommand(p))
    BY <1>1, <1>2, <1>3, <2>1, <2>2 DEF Replace
  <2>3. CASE KillSlot(p)
    BY <1>1, <1>2, <1>3, <2>1, <2>3 DEF KillSlot
  <2> QED BY <1>4, <2>2, <2>3 DEF Key
<1>5. CASE DrainExited
  <2> DEFINE p == Head(queue).slot
  <2>1. p \in Proc /\ mode = "running"
    BY <1>5, DrainingTypes DEF DrainExited, SlotEvent, Draining, Looping
  <2> HIDE DEF p
  <2>2. CASE ReplaceWith(p, "std", "Standard") /\ UNCHANGED <<cursor, endVars>>
    <3> DEFINE next == Each("std")
               knd  == Each("Standard")
    <3>1. next[p] \in Command /\ knd[p] \in Kind
      BY <1>1, <1>3, <2>1
    <3>2. Begin({p}, next, knd)
      BY <2>2 DEF ReplaceWith
    <3> HIDE DEF next, knd
    <3> QED BY <1>2, <2>1, <2>2, <3>1, <3>2
  <2>3. UNCHANGED vars \/ (ReplaceWith(p, "std", "Standard") /\ UNCHANGED <<cursor, endVars>>)
    BY <1>5 DEF DrainExited, Untouched, p
  <2> QED BY <2>2, <2>3
<1>6. CASE DrainChanged
  <2> DEFINE p == Head(queue).slot
  <2>1. p \in Proc /\ mode = "running"
    BY <1>6, DrainingTypes DEF DrainChanged, SlotEvent, Draining, Looping
  <2> HIDE DEF p
  <2>2. CASE Replace(p, "std") /\ UNCHANGED <<cursor, endVars>>
    BY <1>1, <1>2, <1>3, <2>1, <2>2 DEF Replace
  <2>3. UNCHANGED vars \/ (Replace(p, "std") /\ UNCHANGED <<cursor, endVars>>)
    BY <1>6 DEF DrainChanged, Untouched, p
  <2> QED BY <2>2, <2>3
<1>7. CASE DrainControl
  <2> DEFINE c == Head(queue).client
             r == request[c]
             S == Takers(r)
  <2>1. c \in Client
    <3>1. Head(queue) \in Event
      BY <1>7 DEF DrainControl, Draining, LoopInv, LoopShape
    <3> QED BY <1>7, <3>1 DEF DrainControl, Draining, Event, SlotEvent
  <2>2. /\ Begin(S, NextCommand(r), NextKind(r))
        /\ mode = "running" /\ UNCHANGED <<cursor, endVars>>
    BY <1>7 DEF DrainControl, Draining, Looping, Act
  <2>3. r.target \in 0 .. N
    BY <2>1, RequestAssumption, SlotAssumption DEF LoopInv, LoopShape, Request, NoRequest
  <2> HIDE DEF c, r
  <2>4. S \in SUBSET Proc
    BY <2>3 DEF Takers, Targets, Proc
  <2> HIDE DEF S
  <2>5. \A p \in Proc : NextCommand(r)[p] \in Command \cup {"none"} /\ NextKind(r)[p] \in Kind
    BY <1>1 DEF NextCommand, NextKind
  <2>6. Fits(S, NextCommand(r), NextKind(r))
    BY <2>4, <2>5
  <2> QED BY <2>2, <2>4, <2>6 DEF Asks
<1> QED BY <1>4, <1>5, <1>6, <1>7

\* A step of the loop, and of whoever runs beside it, is one of the manager's.
LEMMA LoopIsSteps == IInv /\ LoopInv /\ [LoopNext]_allVars => Asks \/ OwnStep
<1> SUFFICES ASSUME IInv, LoopInv, [LoopNext]_allVars PROVE Asks \/ OwnStep
  OBVIOUS
<1>1. CASE DrainExited \/ DrainChanged \/ DrainControl \/ \E p \in Proc : Key(p)
  BY <1>1, LoopAsks DEF OwnStep
<1>2. CASE DrainSpawnFailed \/ DrainQuit \/ NoKey \/ UNCHANGED allVars
  BY <1>2 DEF DrainSpawnFailed, DrainQuit, NoKey, allVars, OwnStep
<1>3. CASE DrainDone \/ QuitKey
  BY <1>3 DEF DrainDone, QuitKey, LeaveLoop, OwnStep, Tick
<1>4. CASE LoopTick
  BY <1>4 DEF LoopTick, LoopTickPoll, Tick, OwnStep
<1>5. CASE (ShutdownStep /\ UNCHANGED loopVars) \/ Exit
  BY <1>5 DEF Exit, OwnStep
<1>6. CASE \/ \E p \in Proc : SendChanged(p)
           \/ \E c \in Client, r \in Requests : SendRequest(c, r)
  BY <1>6 DEF SendChanged, SendRequest, OwnStep
<1>7. CASE \/ \E p \in Proc, g \in Gens :
              \/ SendExited(p, g)
              \/ WaiterReaps(p, g) \/ WaiterRecords(p, g) \/ WaiterMarks(p, g)
              \/ JobsStart(p, g) \/ JobsEnd(p, g) \/ IdRecycled(p, g) \/ StrangerLeaves(p, g)
           \/ \E p \in 0 .. N : Timeout(p)
  <2>1. Environment
    BY <1>7 DEF SendExited, Environment
  <2> QED BY <2>1 DEF OwnStep
<1>8. Others => \/ \/ \E p \in Proc : SendChanged(p)
                   \/ \E c \in Client, r \in Requests : SendRequest(c, r)
                \/ \/ \E p \in Proc, g \in Gens :
                      \/ SendExited(p, g)
                      \/ WaiterReaps(p, g) \/ WaiterRecords(p, g) \/ WaiterMarks(p, g)
                      \/ JobsStart(p, g) \/ JobsEnd(p, g) \/ IdRecycled(p, g) \/ StrangerLeaves(p, g)
                   \/ \E p \in 0 .. N : Timeout(p)
  BY DEF Others
<1> QED BY <1>1, <1>2, <1>3, <1>4, <1>5, <1>6, <1>7, <1>8 DEF LoopNext, MainThread, Drain

LEMMA ManagerInvHolds == LoopSpec => [](IInv /\ LoopInv)
<1>1. LoopInit => IInv
  BY InitInv DEF LoopInit
<1>2. IInv /\ LoopInv /\ [LoopNext]_allVars => IInv'
  BY LoopIsSteps, StepInv
<1> QED BY <1>1, <1>2, LoopInvHolds, PTL DEF LoopSpec

------------------------------------------------------------------------------
(* What the screen says of a slot and what has become of its generation *)

On(q, e) == \E i \in DOMAIN q : q[i] = e

\* The waiter of a generation has put its Exited on the channel.
Sent(p, g) == g \in Gens /\ child[p][g].waiter = "sent"

ExitsAreSent == \A e : On(queue, e) /\ e.type = "Exited" => Sent(e.slot, e.gen)

ShownInv == ExitsAreSent /\ ExitShownIsReal /\ RunningShownIsReal

LEMMA QueueGrows ==
  ASSUME queue \in Seq(Event), NEW e \in Event, queue' = Append(queue, e)
  PROVE  /\ On(queue', e)
         /\ \A f : On(queue, f) => On(queue', f)
         /\ \A f : On(queue', f) => On(queue, f) \/ f = e
<1> DEFINE q == queue'
<1> HIDE DEF Event
<1>1. /\ q \in Seq(Event) /\ Len(q) = Len(queue) + 1 /\ q[Len(queue) + 1] = e
      /\ \A i \in 1 .. Len(queue) : q[i] = queue[i]
      /\ Len(queue) \in Nat /\ DOMAIN queue = 1 .. Len(queue) /\ DOMAIN q = 1 .. Len(queue) + 1
  OBVIOUS
<1> HIDE DEF q
<1>2. Len(queue) + 1 \in DOMAIN q /\ \A i \in DOMAIN queue : i \in DOMAIN q
  BY <1>1
<1>3. \A i \in DOMAIN q : i \in DOMAIN queue \/ i = Len(queue) + 1
  BY <1>1
<1>4. On(q, e) /\ (\A f : On(queue, f) => On(q, f)) /\ (\A f : On(q, f) => On(queue, f) \/ f = e)
  BY <1>1, <1>2, <1>3 DEF On
<1> QED BY <1>4 DEF q

LEMMA QueueShrinks ==
  ASSUME queue \in Seq(Event), queue # <<>>, queue' = Tail(queue)
  PROVE  /\ On(queue, Head(queue))
         /\ \A f : On(queue, f) => f = Head(queue) \/ On(queue', f)
         /\ \A f : On(queue', f) => On(queue, f)
<1> DEFINE q == queue'
<1> HIDE DEF Event
<1>1. /\ q \in Seq(Event) /\ Head(queue) = queue[1]
      /\ Len(queue) \in Nat /\ DOMAIN queue = 1 .. Len(queue) /\ DOMAIN q = 1 .. Len(queue) - 1
      /\ \A i \in 1 .. Len(queue) - 1 : q[i] = queue[i + 1]
      /\ 1 \in DOMAIN queue
  OBVIOUS
<1> HIDE DEF q
<1>2. \A i \in DOMAIN queue : i = 1 \/ (i - 1 \in DOMAIN q /\ q[i - 1] = queue[i])
  BY <1>1
<1>3. \A i \in DOMAIN q : i + 1 \in DOMAIN queue /\ q[i] = queue[i + 1]
  BY <1>1
<1>4. On(queue, Head(queue)) /\ \A f : On(q, f) => On(queue, f)
  BY <1>1, <1>3 DEF On
<1>5. ASSUME NEW f, On(queue, f)
      PROVE  f = Head(queue) \/ On(q, f)
  <2>1. PICK i \in DOMAIN queue : queue[i] = f
    BY <1>5 DEF On
  <2>2. i # 1 => i - 1 \in DOMAIN q /\ q[i - 1] = f
    BY <1>2, <2>1
  <2> QED BY <1>1, <2>1, <2>2 DEF On
<1> QED BY <1>4, <1>5 DEF q

\* What becomes of a slot in a step: it comes to show something else, an exit that is
\* real, or a process that runs; or it shows what it did, and no event about its
\* generation is lost.
Shows(p) ==
  \/ health'[p] \notin {"Exited", "Running"}
  \/ health'[p] = "Exited" /\ (IsDead(p)' \/ <<p, gen'[p]>> \in givenUp')
  \/ health'[p] = "Running" /\ live'[p].some /\ child'[p][gen'[p]].waiter # "sent"
  \/ /\ health'[p] = health[p] /\ gen'[p] = gen[p] /\ live'[p].some = live[p].some
     /\ Dead(p, gen[p]) => Dead(p, gen[p])'
     /\ child'[p][gen[p]].waiter = "sent" =>
          child[p][gen[p]].waiter = "sent" \/ On(queue', ExitedEvent(p, gen[p]))
     /\ health[p] = "Running" =>
          \A e : On(queue, e) /\ e.type \in {"Exited", "SpawnFailed"} /\ e.slot = p /\ IsCurrent(e)
                 => On(queue', e)

LEMMA ShownKept ==
  ASSUME IInv, ShownInv, mode' = "running" => mode = "running",
         givenUp \subseteq givenUp',
         \A p \in Proc, g \in Gens : Sent(p, g) => Sent(p, g)',
         \A e : On(queue', e) /\ e.type = "Exited" =>
                  (On(queue, e) /\ e.slot \in Proc) \/ Sent(e.slot, e.gen)',
         mode' = "running" => \A p \in Proc : Shows(p)
  PROVE  ShownInv'
<1>1. ExitsAreSent'
  BY DEF ShownInv, ExitsAreSent, Sent
<1>2. ASSUME NEW p \in Proc, mode' = "running", health'[p] = "Exited"
      PROVE  IsDead(p)' \/ <<p, gen'[p]>> \in givenUp'
  <2>1. CASE /\ health'[p] = health[p] /\ gen'[p] = gen[p] /\ live'[p].some = live[p].some
             /\ Dead(p, gen[p]) => Dead(p, gen[p])'
    BY <1>2, <2>1 DEF ShownInv, ExitShownIsReal, IsDead, Dead
  <2> QED BY <1>2, <2>1 DEF Shows
<1>3. ASSUME NEW p \in Proc, mode' = "running", health'[p] = "Running"
      PROVE  \/ live'[p].some /\ child'[p][gen'[p]].waiter # "sent"
             \/ InQueue("Exited", p)' \/ InQueue("SpawnFailed", p)'
  <2>1. CASE /\ health'[p] = health[p] /\ gen'[p] = gen[p] /\ live'[p].some = live[p].some
             /\ child'[p][gen[p]].waiter = "sent" =>
                  child[p][gen[p]].waiter = "sent" \/ On(queue', ExitedEvent(p, gen[p]))
             /\ \A e : On(queue, e) /\ e.type \in {"Exited", "SpawnFailed"} /\ e.slot = p /\ IsCurrent(e)
                       => On(queue', e)
    <3>1. CASE InQueue("Exited", p) \/ InQueue("SpawnFailed", p)
      <4>1. PICK i \in DOMAIN queue :
              queue[i].type \in {"Exited", "SpawnFailed"} /\ queue[i].slot = p /\ IsCurrent(queue[i])
        BY <3>1 DEF InQueue
      <4>2. On(queue', queue[i])
        BY <2>1, <4>1 DEF On
      <4>3. PICK j \in DOMAIN queue' : queue'[j] = queue[i]
        BY <4>2 DEF On
      <4> QED BY <2>1, <4>1, <4>3 DEF InQueue, IsCurrent
    <3>2. CASE live[p].some /\ child[p][gen[p]].waiter # "sent"
      <4>1. CASE child'[p][gen[p]].waiter # "sent"
        BY <2>1, <3>2, <4>1
      <4>2. CASE On(queue', ExitedEvent(p, gen[p]))
        <5>1. PICK j \in DOMAIN queue' : queue'[j] = ExitedEvent(p, gen[p])
          BY <4>2 DEF On
        <5> QED BY <2>1, <5>1 DEF InQueue, IsCurrent, ExitedEvent
      <4> QED BY <2>1, <3>2, <4>1, <4>2
    <3> QED BY <1>3, <2>1, <3>1, <3>2 DEF ShownInv, RunningShownIsReal
  <2> QED BY <1>3, <2>1 DEF Shows
<1> QED BY <1>1, <1>2, <1>3 DEF ShownInv, ExitShownIsReal, RunningShownIsReal

\* Nothing changes but what is on the channel, and no event of a slot is taken from it.
LEMMA AsideShown ==
  ASSUME IInv, ShownInv, UNCHANGED <<gen, live, child, mode, givenUp, health>>,
         \A e : On(queue', e) /\ e.type = "Exited" => On(queue, e) /\ e.slot \in Proc,
         mode = "running" =>
           \A p \in Proc : health[p] = "Running" =>
             \A e : On(queue, e) /\ e.type \in {"Exited", "SpawnFailed"} /\ e.slot = p /\ IsCurrent(e)
                    => On(queue', e)
  PROVE  ShownInv'
<1>1. \A p \in Proc, g \in Gens : Sent(p, g) => Sent(p, g)'
  BY DEF Sent
<1>2. mode' = "running" => \A p \in Proc : Shows(p)
  BY DEF Shows, Dead
<1> QED BY <1>1, <1>2, ShownKept

\* begin() changes what is shown of the slots it takes, and nothing about the others.
LEMMA BeginShown ==
  ASSUME IInv, ShownInv, NEW S \in SUBSET Proc, NEW next, NEW knd, Begin(S, next, knd),
         NEW stops, NEW starts, Accepted(S, stops, starts), mode' = mode,
         \A e : On(queue', e) /\ e.type = "Exited" => On(queue, e) /\ e.slot \in Proc,
         \A p \in Proc \ S :
           \A e : On(queue, e) /\ e.type \in {"Exited", "SpawnFailed"} /\ e.slot = p => On(queue', e)
  PROVE  ShownInv'
<1>1. UNCHANGED <<gen, child, givenUp>>
  BY DEF Begin
<1>2. \A p \in Proc : live'[p].some = live[p].some
  <2>1. live \in [Proc -> Generation]
    BY DEF IInv, TypeOK
  <2> QED BY <2>1 DEF Begin, Generation
<1>3. \A p \in Proc : health'[p] = IF p \in S THEN "Restarting" ELSE health[p]
  BY DEF Accepted
<1>4. \A p \in Proc, g \in Gens : Sent(p, g) => Sent(p, g)'
  BY <1>1 DEF Sent
<1>5. \A p \in Proc : Shows(p)
  BY <1>1, <1>2, <1>3 DEF Shows, Dead
<1> QED BY <1>1, <1>4, <1>5, ShownKept

LEMMA EventsOnQueue ==
  ASSUME LoopInv, NEW e, On(queue, e), e.type # "Control"
  PROVE  e.slot \in Proc /\ e \in SlotEvent
<1>1. queue \in Seq(Event)
  BY DEF LoopInv, LoopShape
<1>2. e \in Event
  BY <1>1 DEF On
<1> QED BY <1>2 DEF Event, SlotEvent

\* What drain_events takes from the channel is the oldest event, and nothing else.
LEMMA DrainedIs ==
  ASSUME LoopInv, queue # <<>>, queue' = Tail(queue)
  PROVE  /\ On(queue, Head(queue))
         /\ \A e : On(queue, e) => e = Head(queue) \/ On(queue', e)
         /\ \A e : On(queue', e) /\ e.type = "Exited" => On(queue, e) /\ e.slot \in Proc
<1>1. queue \in Seq(Event)
  BY DEF LoopInv, LoopShape
<1>2. /\ On(queue, Head(queue))
      /\ \A e : On(queue, e) => e = Head(queue) \/ On(queue', e)
      /\ \A e : On(queue', e) => On(queue, e)
  BY <1>1, QueueShrinks
<1> QED BY <1>2, EventsOnQueue

LEMMA DrainShown ==
  ASSUME IInv, LoopInv, ShownInv, DrainExited \/ DrainSpawnFailed \/ DrainChanged \/ DrainControl \/ DrainQuit
  PROVE  ShownInv'
<1> DEFINE h == Head(queue)
<1>1. /\ mode = "running" /\ queue # <<>> /\ queue' = Tail(queue)
      /\ h.type \in {"Exited", "SpawnFailed", "Changed", "Control"}
  BY DEF DrainExited, DrainSpawnFailed, DrainChanged, DrainControl, DrainQuit, Draining, Looping
<1>2. /\ On(queue, h)
      /\ \A e : On(queue, e) => e = h \/ On(queue', e)
      /\ \A e : On(queue', e) /\ e.type = "Exited" => On(queue, e) /\ e.slot \in Proc
  BY <1>1, DrainedIs
<1>3. ASSUME h.type = "Exited", DrainExited
      PROVE  ShownInv'
  <2>0. h.slot \in Proc /\ h \in SlotEvent /\ Sent(h.slot, h.gen)
    BY <1>2, <1>3, EventsOnQueue DEF ShownInv, ExitsAreSent
  <2>1. PICK p \in Proc : p = h.slot /\ Sent(p, h.gen)
    BY <2>0
  <2> HIDE DEF h
  <2>2. CASE ~ExitCounts(h) /\ Untouched
    <3>1. IsCurrent(h) => restart[p].on /\ health[p] # "Running"
      BY <1>1, <2>1, <2>2 DEF ExitCounts, IsRestarting, LoopInv, TeardownIsShown
    <3>2. UNCHANGED <<gen, live, child, mode, givenUp, health>>
      BY <2>2 DEF Untouched, vars, slotVars, endVars
    <3>3. ASSUME NEW q \in Proc, health[q] = "Running", NEW e, On(queue, e), e.slot = q, IsCurrent(e)
          PROVE  On(queue', e)
      BY <1>2, <2>1, <3>1, <3>3
    <3> QED BY <1>2, <3>2, <3>3, AsideShown
  <2>3. CASE ReplaceWith(p, "std", "Standard") /\ Accepted({p}, {}, {}) /\ UNCHANGED <<cursor, endVars>>
    <3>1. {p} \in SUBSET Proc /\ Begin({p}, Each("std"), Each("Standard")) /\ mode' = mode
      BY <2>1, <2>3 DEF ReplaceWith, endVars
    <3>2. \A q \in Proc \ {p} : \A e : On(queue, e) /\ e.slot = q => On(queue', e)
      BY <1>2, <2>1
    <3> QED BY <1>2, <2>3, <3>1, <3>2, BeginShown
  <2>4. CASE ExitCounts(h) /\ health' = [health EXCEPT ![p] = "Exited"] /\ UNCHANGED <<vars, stopped>>
    <3>1. UNCHANGED <<gen, live, child, mode, givenUp>>
      BY <2>4 DEF vars, slotVars, endVars
    <3>2. \A q \in Proc, g \in Gens : Sent(q, g) => Sent(q, g)'
      BY <3>1 DEF Sent
    <3>3. health'[p] = "Exited" /\ \A q \in Proc \ {p} : health'[q] = health[q]
      BY <2>1, <2>4 DEF LoopInv, LoopShape, IsFunctionOnProc
    <3>4. Shows(p)
      <4>1. child[p][gen[p]].waiter = "sent"
        BY <2>1, <2>4 DEF ExitCounts, IsCurrent, Sent
      <4>2. child'[p][gen'[p]].waiter = "sent"
        BY <3>1, <4>1
      <4> QED BY <3>3, <4>2 DEF Shows, IsDead, Dead
    <3>5. \A q \in Proc \ {p} : Shows(q)
      BY <1>2, <2>1, <3>1, <3>3 DEF Shows, Dead
    <3> QED BY <1>2, <3>1, <3>2, <3>4, <3>5, ShownKept
  <2> QED BY <1>3, <2>1, <2>2, <2>3, <2>4 DEF DrainExited, h
<1>4. ASSUME h.type = "SpawnFailed", DrainSpawnFailed
      PROVE  ShownInv'
  <2>1. h.slot \in Proc
    BY <1>2, <1>4, EventsOnQueue
  <2>2. UNCHANGED <<gen, live, child, mode, givenUp>>
    BY <1>4 DEF DrainSpawnFailed, vars, slotVars, endVars
  <2>3. health' = IF IsCurrent(h) THEN [health EXCEPT ![h.slot] = "SpawnFailed"] ELSE health
    BY <1>4 DEF DrainSpawnFailed
  <2> HIDE DEF h
  <2>4. CASE ~IsCurrent(h)
    <3>1. \A e : On(queue, e) /\ IsCurrent(e) => On(queue', e)
      BY <1>2, <2>4
    <3> QED BY <1>2, <2>2, <2>3, <2>4, <3>1, AsideShown
  <2>5. CASE IsCurrent(h)
    <3>1. \A q \in Proc, g \in Gens : Sent(q, g) => Sent(q, g)'
      BY <2>2 DEF Sent
    <3>2. health'[h.slot] = "SpawnFailed" /\ \A q \in Proc \ {h.slot} : health'[q] = health[q]
      BY <2>1, <2>3, <2>5 DEF LoopInv, LoopShape, IsFunctionOnProc
    <3>3. \A q \in Proc \ {h.slot} : Shows(q)
      BY <1>2, <2>2, <3>2 DEF Shows, Dead
    <3>4. Shows(h.slot)
      BY <3>2 DEF Shows
    <3> QED BY <1>2, <2>2, <3>1, <3>3, <3>4, ShownKept
  <2> QED BY <2>4, <2>5
<1>5. ASSUME h.type \in {"Changed", "Control"}
      PROVE  \A e : On(queue, e) /\ e.type \in {"Exited", "SpawnFailed"} => On(queue', e)
  BY <1>2, <1>5
<1>6. ASSUME h.type = "Changed", DrainChanged
      PROVE  ShownInv'
  <2> DEFINE p == h.slot
  <2>1. p \in Proc
    BY <1>2, <1>6, EventsOnQueue
  <2>2. \/ UNCHANGED <<vars, health>>
        \/ Begin({p}, Each("std"), kind) /\ Accepted({p}, {}, {p}) /\ mode' = mode
    BY <1>6 DEF DrainChanged, Untouched, Replace, endVars
  <2> HIDE DEF h, p
  <2>3. CASE UNCHANGED <<vars, health>>
    <3>1. UNCHANGED <<gen, live, child, mode, givenUp, health>>
      BY <2>3 DEF vars, slotVars, endVars
    <3> QED BY <1>2, <1>5, <1>6, <3>1, AsideShown
  <2>4. CASE Begin({p}, Each("std"), kind) /\ Accepted({p}, {}, {p}) /\ mode' = mode
    <3>1. {p} \in SUBSET Proc
      BY <2>1
    <3> QED BY <1>2, <1>5, <1>6, <2>4, <3>1, BeginShown
  <2> QED BY <2>2, <2>3, <2>4
<1>7. ASSUME h.type = "Control", DrainControl
      PROVE  ShownInv'
  <2> DEFINE r == request[h.client]
             S == Takers(r)
  <2>1. /\ Begin(S, NextCommand(r), NextKind(r)) /\ mode' = mode
        /\ Accepted(S, S, {}) \/ Accepted(S, {}, S)
    BY <1>7 DEF DrainControl, Act, endVars
  <2>2. h.client \in Client
    <3>1. h \in Event
      BY <1>1 DEF LoopInv, LoopShape
    <3> QED BY <1>7, <3>1 DEF Event, SlotEvent
  <2>3. r.target \in 0 .. N
    BY <2>2, RequestAssumption, SlotAssumption DEF LoopInv, LoopShape, Request, NoRequest
  <2> HIDE DEF h, r
  <2>4. S \in SUBSET Proc
    BY <2>3 DEF Takers, Targets, Proc
  <2> HIDE DEF S
  <2> QED BY <1>2, <1>5, <1>7, <2>1, <2>4, BeginShown
<1>8. ASSUME h.type = "Control", DrainQuit
      PROVE  ShownInv'
  <2>1. UNCHANGED <<gen, live, child, mode, givenUp, health>>
    BY <1>8 DEF DrainQuit, vars, slotVars, endVars
  <2> HIDE DEF h
  <2> QED BY <1>2, <1>5, <1>8, <2>1, AsideShown
<1>9. /\ DrainExited => h.type = "Exited"
      /\ DrainSpawnFailed => h.type = "SpawnFailed"
      /\ DrainChanged => h.type = "Changed"
      /\ DrainControl \/ DrainQuit => h.type = "Control"
  BY DEF DrainExited, DrainSpawnFailed, DrainChanged, DrainControl, DrainQuit, Draining
<1> HIDE DEF h
<1> QED BY <1>3, <1>4, <1>6, <1>7, <1>8, <1>9

\* What completing a transition leaves on the screen: an exit only of a generation
\* that is over or was given up on, a running command only with a new generation.
LEMMA CompleteShown ==
  ASSUME IInv, LoopInv, ShownInv, NEW p \in Proc, NEW ok \in BOOLEAN, NEW abandoned \in BOOLEAN,
         mode = "running", mode' = mode, IsRestarting(p),
         live[p].some => \/ abandoned
                         \/ Dead(p, gen[p])
                         \/ <<p, gen[p]>> \in givenUp,
         Complete(p, abandoned, ok), ApplyTransition(p, ok),
         queue' = IF restart[p].next # "none" /\ ~ok
                  THEN Append(queue, SpawnFailedEvent(p, gen'[p])) ELSE queue
  PROVE  ShownInv'
<1>1. /\ gen \in [Proc -> Gens] /\ live \in [Proc -> Generation]
      /\ child \in [Proc -> [Gens -> Child]]
      /\ restart[p].next # "none" => gen[p] < MaxGen
  BY DEF IInv, TypeOK, NextIsBounded
<1>2. /\ health'[p] = HealthAfter(p, ok)
      /\ \A q \in Proc \ {p} : health'[q] = health[q]
  BY DEF ApplyTransition, LoopInv, LoopShape, IsFunctionOnProc
<1>3. givenUp \subseteq givenUp' /\ (abandoned => <<p, gen[p]>> \in givenUp')
  BY DEF Complete
<1>4. /\ \A e : On(queue, e) => On(queue', e)
      /\ \A e : On(queue', e) /\ e.type = "Exited" => On(queue, e) /\ e.slot \in Proc
  <2>1. CASE restart[p].next # "none" /\ ~ok
    <3> DEFINE f == SpawnFailedEvent(p, gen'[p])
    <3>1. gen'[p] \in Int
      BY <1>1, <2>1 DEF Complete, Gens
    <3>2. f \in Event /\ f.type = "SpawnFailed"
      BY <3>1 DEF SpawnFailedEvent, Event, SlotEvent
    <3>3. queue \in Seq(Event) /\ queue' = Append(queue, f)
      BY <2>1 DEF LoopInv, LoopShape
    <3> HIDE DEF f
    <3>4. /\ \A e : On(queue, e) => On(queue', e)
          /\ \A e : On(queue', e) => On(queue, e) \/ e = f
      BY <3>2, <3>3, QueueGrows
    <3> QED BY <3>2, <3>4, EventsOnQueue
  <2>2. CASE queue' = queue
    BY <2>2, EventsOnQueue
  <2> QED BY <2>1, <2>2
<1>5. CASE restart[p].next = "none"
  <2>1. gen' = gen /\ child' = child /\ live' = [live EXCEPT ![p] = Retire(p, abandoned)]
    BY <1>5 DEF Complete
  <2>2. \A q \in Proc : live'[q].some = live[q].some
    <3>1. live[p] \in Generation
      BY <1>1
    <3>2. Retire(p, abandoned).some = live[p].some
      BY <3>1 DEF Retire, Generation
    <3> QED BY <1>1, <2>1, <3>2
  <2>3. \A q \in Proc, g \in Gens : Sent(q, g) => Sent(q, g)'
    BY <2>1 DEF Sent
  <2>4. Shows(p)
    <3>1. CASE live[p].some
      <4>1. health'[p] = "Exited"
        BY <1>2, <1>5, <3>1 DEF HealthAfter
      <4>2. CASE Dead(p, gen[p])
        <5>1. child'[p][gen'[p]].waiter \in {"dead", "sent"}
          BY <2>1, <4>2 DEF Dead
        <5> QED BY <4>1, <5>1 DEF Shows, IsDead, Dead
      <4>3. CASE <<p, gen[p]>> \in givenUp'
        BY <2>1, <4>1, <4>3 DEF Shows
      <4> QED BY <1>3, <3>1, <4>2, <4>3
    <3>2. CASE ~live[p].some
      BY <1>2, <1>5, <3>2 DEF HealthAfter, Shows
    <3> QED BY <3>1, <3>2
  <2>5. \A q \in Proc \ {p} : Shows(q)
    BY <1>2, <1>4, <2>1, <2>2 DEF Shows, Dead
  <2> QED BY <1>3, <1>4, <2>3, <2>4, <2>5, ShownKept
<1>6. CASE restart[p].next # "none"
  <2>1. /\ gen' = [gen EXCEPT ![p] = @ + 1]
        /\ live' = [live EXCEPT ![p] = IF ok THEN Spawned(restart[p].next) ELSE NoGeneration]
        /\ child' = IF ok THEN [child EXCEPT ![p][gen[p] + 1] = NewChild] ELSE child
    BY <1>6 DEF Complete
  <2>2. gen[p] \in Gens /\ gen[p] + 1 \in Gens /\ gen'[p] = gen[p] + 1
    BY <1>1, <1>6, <2>1, SlotAssumption DEF Gens
  <2>3. \A q \in Proc \ {p} : gen'[q] = gen[q] /\ live'[q] = live[q] /\ child'[q] = child[q]
    BY <1>1, <2>1
  <2>4. \A q \in Proc, g \in Gens : Sent(q, g) => Sent(q, g)'
    <3>1. child[p][gen[p] + 1] = NoChild
      <4>1. gen[p] + 1 > gen[p]
        BY <2>2 DEF Gens
      <4> QED BY <2>2, <4>1 DEF IInv, UnbornIsEmpty
    <3>2. \A g \in Gens \ {gen[p] + 1} : child'[p][g] = child[p][g]
      BY <1>1, <2>1
    <3> QED BY <2>3, <3>1, <3>2 DEF Sent, NoChild
  <2>5. Shows(p)
    <3>1. CASE ok
      <4>1. health'[p] = "Running"
        BY <1>2, <1>6, <3>1 DEF HealthAfter
      <4>2. live'[p].some /\ child'[p][gen'[p]] = NewChild
        <5> HIDE DEF NewChild
        <5> QED BY <1>1, <2>1, <2>2, <3>1 DEF Spawned
      <4> QED BY <4>1, <4>2 DEF Shows, NewChild
    <3>2. CASE ~ok
      BY <1>2, <1>6, <3>2 DEF HealthAfter, Shows
    <3> QED BY <3>1, <3>2
  <2>6. \A q \in Proc \ {p} : Shows(q)
    BY <1>2, <1>4, <2>3 DEF Shows, Dead
  <2> QED BY <1>3, <1>4, <2>4, <2>5, <2>6, ShownKept
<1> QED BY <1>5, <1>6

LEMMA TickShown ==
  ASSUME IInv, LoopInv, ShownInv, LoopTick
  PROVE  ShownInv'
<1>1. ASSUME NEW p \in Proc, TickIdle(p) \/ TickTerm(p), UNCHANGED loopVars
      PROVE  ShownInv'
  <2>1. UNCHANGED <<gen, live, child, mode, givenUp, health, queue>>
    BY <1>1 DEF TickIdle, TickTerm, slotVars, endVars, loopVars
  <2> QED BY <2>1, EventsOnQueue, AsideShown
<1>2. ASSUME NEW p \in Proc, NEW ok \in BOOLEAN, LoopTickPoll(p, ok)
      PROVE  ShownInv'
  <2> DEFINE m == Harvest(restart[p].machine, Exited, late[p])
  <2>1. mode = "running" /\ mode' = mode /\ IsRestarting(p)
    BY <1>2 DEF LoopTickPoll, TickPoll, AtSlot, endVars
  <2>2. PollOutcome(p, m)
    BY <2>1, PollCases DEF m
  <2>3. \/ /\ restart' = [restart EXCEPT ![p].machine = m]
           /\ UNCHANGED <<gen, live, child, givenUp>>
        \/ m.phase = "Done" /\ Complete(p, m.abandoned # {}, ok)
    BY <1>2 DEF LoopTickPoll, TickPoll
  <2> HIDE DEF m
  <2>4. CASE restart' = [restart EXCEPT ![p].machine = m] /\ UNCHANGED <<gen, live, child, givenUp>>
    <3>1. restart'[p] = [restart[p] EXCEPT !.machine = m]
      BY <2>4 DEF LoopInv, LoopShape, IsFunctionOnProc
    <3>2. restart'[p].on
      BY <2>1, <3>1, MachineOfRestart DEF LoopInv, LoopShape, IsRestarting
    <3>3. UNCHANGED <<health, queue>>
      BY <1>2, <3>2 DEF LoopTickPoll
    <3> QED BY <2>1, <2>4, <3>3, EventsOnQueue, AsideShown
  <2>5. CASE m.phase = "Done" /\ Complete(p, m.abandoned # {}, ok)
    <3>1. live[p].some => \/ m.abandoned # {}
                          \/ Dead(p, gen[p])
                          \/ <<p, gen[p]>> \in givenUp
      BY <2>2, <2>5 DEF PollOutcome
    <3>2. ~restart'[p].on
      BY <2>5, NoRestartIs DEF Complete, LoopInv, LoopShape, IsFunctionOnProc
    <3>3. /\ ApplyTransition(p, ok)
          /\ queue' = IF restart[p].next # "none" /\ ~ok
                      THEN Append(queue, SpawnFailedEvent(p, gen'[p])) ELSE queue
      BY <1>2, <3>2 DEF LoopTickPoll
    <3> DEFINE abandoned == m.abandoned # {}
    <3>4. abandoned \in BOOLEAN
      OBVIOUS
    <3>5. Complete(p, abandoned, ok) /\ (live[p].some => \/ abandoned
                                                         \/ Dead(p, gen[p])
                                                         \/ <<p, gen[p]>> \in givenUp)
      BY <2>5, <3>1
    <3> HIDE DEF abandoned
    <3> QED BY <2>1, <3>3, <3>4, <3>5, CompleteShown
  <2> QED BY <2>3, <2>4, <2>5
<1> QED BY <1>1, <1>2 DEF LoopTick

\* Threads and children only ever get a generation nearer to its end; the last step
\* of a waiter, which makes the slot's process count no more, leaves its event.
LEMMA ThreadsShown ==
  ASSUME IInv, LoopInv, ShownInv,
         \/ \E p \in Proc, g \in Gens : SendExited(p, g)
         \/ ThreadsStep /\ UNCHANGED loopVars
  PROVE  ShownInv'
<1>1. child \in [Proc -> [Gens -> Child]] /\ gen \in [Proc -> Gens]
  BY DEF IInv, TypeOK
<1>2. ASSUME NEW p \in Proc, NEW g \in Gens, SendExited(p, g)
      PROVE  ShownInv'
  <2> DEFINE e == ExitedEvent(p, g)
  <2>1. /\ UNCHANGED <<gen, live, mode, givenUp, health>>
        /\ child[p][g].waiter = "dead"
        /\ child' = [child EXCEPT ![p][g] = [child[p][g] EXCEPT !.waiter = "sent"]]
        /\ queue' = IF mode = "running" THEN Append(queue, e) ELSE queue
    BY <1>2 DEF SendExited, WaiterSends, WaiterSteps, SetChild, OnlyChild, slotVars, endVars
  <2>2. /\ child'[p][g].waiter = "sent"
        /\ \A q \in Proc, k \in Gens : <<q, k>> # <<p, g>> => child'[q][k] = child[q][k]
    <3>1. child[p][g] \in Child
      BY <1>1
    <3>2. [child[p][g] EXCEPT !.waiter = "sent"].waiter = "sent"
      BY <3>1 DEF Child
    <3> HIDE DEF Child
    <3> QED BY <1>1, <2>1, <3>2
  <2>3. e \in Event /\ e.type = "Exited" /\ e.slot = p /\ e.gen = g
    BY SlotAssumption DEF ExitedEvent, Event, SlotEvent, Gens
  <2>4. /\ \A f : On(queue, f) => On(queue', f)
        /\ \A f : On(queue', f) => On(queue, f) \/ f = e
        /\ mode = "running" => On(queue', e)
    <3>1. queue \in Seq(Event)
      BY DEF LoopInv, LoopShape
    <3> HIDE DEF e
    <3>2. CASE mode = "running"
      BY <2>1, <2>3, <3>1, <3>2, QueueGrows
    <3>3. CASE mode # "running"
      BY <2>1, <3>3
    <3> QED BY <3>2, <3>3
  <2>5. \A q \in Proc, k \in Gens : Sent(q, k) => Sent(q, k)'
    BY <2>1, <2>2 DEF Sent
  <2>6. ASSUME NEW f, On(queue', f), f.type = "Exited"
        PROVE  (On(queue, f) /\ f.slot \in Proc) \/ Sent(f.slot, f.gen)'
    <3>1. CASE On(queue, f)
      BY <2>6, <3>1, EventsOnQueue
    <3>2. CASE f = e
      BY <2>2, <2>3, <3>2 DEF Sent
    <3> QED BY <2>4, <2>6, <3>1, <3>2
  <2>7. ASSUME mode = "running", NEW q \in Proc
        PROVE  Shows(q)
    <3>1. Dead(q, gen[q]) => Dead(q, gen[q])'
      <4>1. CASE q = p /\ gen[q] = g
        BY <2>1, <2>2, <4>1 DEF Dead
      <4>2. CASE ~(q = p /\ gen[q] = g)
        <5>1. child'[q][gen[q]] = child[q][gen[q]]
          BY <1>1, <2>2, <4>2
        <5> QED BY <2>1, <5>1 DEF Dead
      <4> QED BY <4>1, <4>2
    <3>2. child'[q][gen[q]].waiter = "sent" =>
            child[q][gen[q]].waiter = "sent" \/ On(queue', ExitedEvent(q, gen[q]))
      <4>1. CASE q = p /\ gen[q] = g
        BY <2>4, <2>7, <4>1
      <4>2. CASE ~(q = p /\ gen[q] = g)
        BY <1>1, <2>2, <4>2
      <4> QED BY <4>1, <4>2
    <3> QED BY <2>1, <2>4, <3>1, <3>2 DEF Shows
  <2> QED BY <2>1, <2>5, <2>6, <2>7, ShownKept
<1>3. CASE ThreadsStep /\ UNCHANGED loopVars
  <2>1. UNCHANGED <<gen, live, mode, givenUp, health, queue>>
    BY <1>3 DEF ThreadsStep, WaiterReaps, WaiterRecords, WaiterMarks, WaiterSteps, JobsStart, JobsEnd,
                IdRecycled, StrangerLeaves, Timeout, OnlyChild, slotVars, endVars, loopVars
  <2>2. \A q \in Proc, k \in Gens :
          /\ child'[q][k].waiter = "sent" <=> child[q][k].waiter = "sent"
          /\ child[q][k].waiter \in {"dead", "sent"} => child'[q][k].waiter \in {"dead", "sent"}
    <3>1. ASSUME NEW p \in Proc, NEW g \in Gens,
                 \/ WaiterReaps(p, g) \/ WaiterRecords(p, g) \/ WaiterMarks(p, g)
                 \/ JobsStart(p, g) \/ JobsEnd(p, g) \/ IdRecycled(p, g) \/ StrangerLeaves(p, g),
                 NEW q \in Proc, NEW k \in Gens
          PROVE  /\ child'[q][k].waiter = "sent" <=> child[q][k].waiter = "sent"
                 /\ child[q][k].waiter \in {"dead", "sent"} => child'[q][k].waiter \in {"dead", "sent"}
      <4>1. child[p][g] \in Child
        BY <1>1
      <4>2. PICK c \in Child : /\ child' = [child EXCEPT ![p][g] = c]
                               /\ c.waiter = "sent" <=> child[p][g].waiter = "sent"
                               /\ child[p][g].waiter \in {"dead", "sent"} => c.waiter \in {"dead", "sent"}
        BY <3>1, <4>1 DEF WaiterReaps, WaiterRecords, WaiterMarks, WaiterSteps,
                          JobsStart, JobsEnd, IdRecycled, StrangerLeaves, SetChild, Child, Waiter, Members
      <4> HIDE DEF Child
      <4>3. child'[q][k] = IF q = p /\ k = g THEN c ELSE child[q][k]
        BY <1>1, <4>2
      <4> QED BY <4>2, <4>3
    <3>2. ASSUME NEW p \in 0 .. N, Timeout(p)
          PROVE  child' = child
      BY <3>2 DEF Timeout
    <3> HIDE DEF Proc, Gens
    <3> QED BY <1>3, <3>1, <3>2 DEF ThreadsStep
  <2>3. \A q \in Proc, k \in Gens : Sent(q, k) => Sent(q, k)'
    BY <2>2 DEF Sent
  <2>4. \A q \in Proc : Shows(q)
    BY <1>1, <2>1, <2>2 DEF Shows, Dead
  <2> QED BY <2>1, <2>3, <2>4, EventsOnQueue, ShownKept
<1> QED BY <1>2, <1>3

\* Keys and the senders that are not waiters.
LEMMA OutsideShown ==
  ASSUME IInv, LoopInv, ShownInv,
         \/ NoKey \/ \E p \in Proc : Key(p)
         \/ \E p \in Proc : SendChanged(p)
         \/ \E c \in Client, r \in Requests : SendRequest(c, r)
  PROVE  ShownInv'
<1>1. CASE NoKey
  <2>1. UNCHANGED <<gen, live, child, mode, givenUp, health, queue>>
    BY <1>1 DEF NoKey, vars, slotVars, endVars
  <2> QED BY <2>1, EventsOnQueue, AsideShown
<1>2. ASSUME NEW p \in Proc, Key(p)
      PROVE  ShownInv'
  <2>1. Accepted({p}, {}, {p}) /\ mode' = mode /\ queue' = queue /\ {p} \in SUBSET Proc
    BY <1>2 DEF Key, endVars
  <2>2. \/ Begin({p}, Each(CurrentCommand(p)), kind)
        \/ Begin({p}, Each("std"), Each("Standard"))
    BY <1>2 DEF Key, Replace, KillSlot
  <2> QED BY <2>1, <2>2, EventsOnQueue, BeginShown
<1>3. ASSUME NEW e \in Event, e.type # "Exited", queue' = Append(queue, e), UNCHANGED <<vars, health>>
      PROVE  ShownInv'
  <2>1. UNCHANGED <<gen, live, child, mode, givenUp, health>>
    BY <1>3 DEF vars, slotVars, endVars
  <2>2. queue \in Seq(Event)
    BY DEF LoopInv, LoopShape
  <2>3. /\ \A f : On(queue, f) => On(queue', f)
        /\ \A f : On(queue', f) => On(queue, f) \/ f = e
    BY <1>3, <2>2, QueueGrows
  <2> QED BY <1>3, <2>1, <2>3, EventsOnQueue, AsideShown
<1>4. ASSUME NEW p \in Proc, SendChanged(p)
      PROVE  ShownInv'
  <2> DEFINE e == ChangedEvent(p)
  <2>1. e \in Event /\ e.type # "Exited"
    BY DEF ChangedEvent, Event, SlotEvent
  <2>2. queue' = Append(queue, e) /\ UNCHANGED <<vars, health>>
    BY <1>4 DEF SendChanged
  <2> HIDE DEF e
  <2> QED BY <1>3, <2>1, <2>2
<1>5. ASSUME NEW c \in Client, NEW r \in Requests, SendRequest(c, r)
      PROVE  ShownInv'
  <2> DEFINE e == ControlEvent(c)
  <2>1. e \in Event /\ e.type # "Exited"
    BY DEF ControlEvent, Event
  <2>2. queue' = Append(queue, e) /\ UNCHANGED <<vars, health>>
    BY <1>5 DEF SendRequest
  <2> HIDE DEF e
  <2> QED BY <1>3, <2>1, <2>2
<1> QED BY <1>1, <1>2, <1>4, <1>5

\* Once the loop is left nothing is shown any more, and the waiters stay as they are.
LEMMA LeftShown ==
  ASSUME IInv, LoopInv, ShownInv, LeaveLoop \/ (ShutdownStep /\ UNCHANGED loopVars) \/ Exit
  PROVE  ShownInv'
<1>1. /\ mode' # "running" /\ child' = child /\ queue' = queue
      /\ givenUp \subseteq givenUp'
  BY DEF LeaveLoop, ShutdownBegin, ShutdownStep, ShutdownTerm, ShutdownPoll, ShutdownCollect,
         Exit, DropManager, slotVars, loopVars
<1>2. \A p \in Proc, g \in Gens : Sent(p, g) => Sent(p, g)'
  BY <1>1 DEF Sent
<1> QED BY <1>1, <1>2, EventsOnQueue, ShownKept

LEMMA ShownInit == LoopInit => ShownInv
<1> SUFFICES ASSUME LoopInit PROVE ShownInv
  OBVIOUS
<1>1. /\ \E n \in 0 .. N : queue \in [1 .. n -> {SpawnFailedEvent(p, 0) : p \in Proc}]
      /\ \A p \in Proc : ~live[p].some <=> \E i \in DOMAIN queue : queue[i].slot = p
  BY DEF LoopInit
<1>2. \A i \in DOMAIN queue : \E p \in Proc : queue[i] = SpawnFailedEvent(p, 0)
  BY <1>1
<1>3. \A i \in DOMAIN queue : queue[i].type = "SpawnFailed" /\ queue[i].gen = 0
  BY <1>2 DEF SpawnFailedEvent
<1>4. /\ \A p \in Proc : health[p] = "Running" /\ gen[p] = 0
      /\ \A p \in Proc : live[p].some => child[p][0].waiter = "waiting"
  BY SlotAssumption DEF LoopInit, Init, Each, Spawned, NoGeneration, NewChild, Gens
<1>5. ExitsAreSent
  BY <1>3 DEF ExitsAreSent, On
<1>6. ExitShownIsReal
  BY <1>4 DEF ExitShownIsReal
<1>7. RunningShownIsReal
  <2>1. ASSUME NEW p \in Proc, ~live[p].some
        PROVE  InQueue("SpawnFailed", p)
    <3>1. PICK i \in DOMAIN queue : queue[i].slot = p
      BY <1>1, <2>1
    <3> QED BY <1>3, <1>4, <3>1 DEF InQueue, IsCurrent
  <2> QED BY <1>4, <2>1 DEF RunningShownIsReal
<1> QED BY <1>5, <1>6, <1>7 DEF ShownInv

LEMMA ShownStep == IInv /\ LoopInv /\ ShownInv /\ [LoopNext]_allVars => ShownInv'
<1> SUFFICES ASSUME IInv, LoopInv, ShownInv, [LoopNext]_allVars PROVE ShownInv'
  OBVIOUS
<1>1. CASE Drain
  <2>1. ASSUME EnterTick, UNCHANGED <<queue, health>>
        PROVE  ShownInv'
    <3>1. UNCHANGED <<gen, live, child, mode, givenUp, health, queue>>
      BY <2>1 DEF EnterTick, slotVars, endVars
    <3> QED BY <3>1, EventsOnQueue, AsideShown
  <2>2. CASE DrainDone
    BY <2>1, <2>2, LeftShown DEF DrainDone
  <2> QED BY <1>1, <2>2, DrainShown DEF Drain
<1>2. CASE NoKey \/ QuitKey \/ \E p \in Proc : Key(p)
  <2>1. CASE QuitKey
    BY <2>1, LeftShown DEF QuitKey
  <2> QED BY <1>2, <2>1, OutsideShown
<1>3. CASE LoopTick
  BY <1>3, TickShown
<1>4. CASE (ShutdownStep /\ UNCHANGED loopVars) \/ Exit
  BY <1>4, LeftShown
<1>5. CASE Others
  BY <1>5, OutsideShown, ThreadsShown DEF Others, ThreadsStep
<1>6. CASE UNCHANGED allVars
  <2>1. UNCHANGED <<gen, live, child, mode, givenUp, health, queue>>
    BY <1>6 DEF allVars, loopVars, vars, slotVars, endVars
  <2> QED BY <2>1, EventsOnQueue, AsideShown
<1> QED BY <1>1, <1>2, <1>3, <1>4, <1>5, <1>6 DEF LoopNext, MainThread

LEMMA ShownInvHolds == LoopSpec => []ShownInv
<1> QED BY ShownInit, ShownStep, ManagerInvHolds, PTL DEF LoopSpec

------------------------------------------------------------------------------
(* Theorems *)

\* main.rs `Waiter`, any number of slots and clients: every slot a parked reply
\* waits for has the restart in flight that will answer it.
THEOREM WaitersAlwaysServed == LoopSpec => []WaitersAreServed
<1>1. LoopInv => WaitersAreServed
  BY DEF LoopInv
<1> QED BY <1>1, LoopInvHolds, PTL

\* main.rs `drain_events`: when the screen is drawn, a slot in a teardown shows
\* neither an exit nor a running command, whatever events were on the channel.
THEOREM TeardownAlwaysHides == LoopSpec => []TeardownHidesExit
<1>1. LoopInv => TeardownHidesExit
  BY DEF LoopInv, TeardownIsShown, TeardownHidesExit, Looping, IsRestarting
<1> QED BY <1>1, LoopInvHolds, PTL

\* control-cli-design.md, `stop`: while the loop runs, a slot that a client
\* stopped is never torn down to come up again, unless someone asked for it.
THEOREM StoppedAlwaysDown == LoopSpec => []StoppedStaysDown
<1>1. LoopInv => StoppedStaysDown
  <2> SUFFICES ASSUME LoopInv, NEW p \in stopped, IsRestarting(p)
               PROVE  restart[p].next = "none"
    BY DEF StoppedStaysDown
  <2>1. p \in Proc
    BY DEF LoopInv, LoopShape
  <2> QED BY <2>1 DEF LoopInv, StoppedRunsNothing, LeftIsQuiet, IsRestarting
<1> QED BY <1>1, LoopInvHolds, PTL

\* main.rs `drain_events`, any number of slots, clients and late events: while the
\* loop runs, a slot shows an exit only if its current generation has exited or was
\* given up on.
THEOREM ExitShownAlwaysReal == LoopSpec => []ExitShownIsReal
<1>1. ShownInv => ExitShownIsReal
  BY DEF ShownInv
<1> QED BY <1>1, ShownInvHolds, PTL

\* main.rs `drain_events`: a slot shown as running has a process whose exit is not
\* yet reported, or the event that will say otherwise is on the channel.
THEOREM RunningShownAlwaysReal == LoopSpec => []RunningShownIsReal
<1>1. ShownInv => RunningShownIsReal
  BY DEF ShownInv
<1> QED BY <1>1, ShownInvHolds, PTL

\* proc.rs under main.rs: driven by the loop and the verbs of the clients, the slots
\* still live one generation at a time, and nothing is spawned once the loop is left.
THEOREM LoopRunsSlotsInTurn == LoopSpec => OneAtATime
<1>1. LoopInit => Life!Init
  BY LifeInit DEF LoopInit
<1>2. IInv /\ LoopInv /\ [LoopNext]_allVars => [Life!Next]_(Life!vars)
  BY LoopIsSteps, LifeOfStep
<1> QED BY <1>1, <1>2, ManagerInvHolds, PTL DEF LoopSpec, OneAtATime, Life!Spec

\* proc.rs under main.rs: however the loop is left, shutdown() comes back without a
\* status only for slots with no generation, or with one that was given up on.
THEOREM LoopKeepsStatus == LoopSpec => []StatusUnlessAbandoned
<1>1. LoopInit => EndIsAccounted
  BY DEF LoopInit, Init, EndIsAccounted, StatusUnlessAbandoned
<1>2. IInv /\ LoopInv /\ EndIsAccounted /\ [LoopNext]_allVars => EndIsAccounted'
  BY LoopIsSteps, AccountStep
<1>3. EndIsAccounted => StatusUnlessAbandoned
  BY DEF EndIsAccounted
<1> QED BY <1>1, <1>2, <1>3, ManagerInvHolds, PTL DEF LoopSpec
==============================================================================

------------------------------ MODULE EventLoop ------------------------------
(***************************************************************************)
(* The main thread of main.rs over the slots of ProcManager: one key, then *)
(* drain the channel until it is empty, then tick the teardowns and apply  *)
(* their transitions; with the control verbs of control.rs.                *)
(*                                                                         *)
(* The channel is FIFO.  Waiter threads send Exited, complete() sends      *)
(* SpawnFailed, the watch thread Changed, connection threads Control.      *)
(* Line events are left to a module of their own.                          *)
(***************************************************************************)
EXTENDS ProcManager, Sequences, FiniteSets

CONSTANTS
  Client,     \* CLI invocations; each sends one request
  Requests,   \* the requests they may send: records [verb, target, wait]
  MaxInputs   \* bound: keys and file changes the loop acts on

ASSUME InputAssumption ==
  /\ MaxInputs \in Nat
  /\ MaxGen >= MaxInputs + 2 * Cardinality(Client)  \* a run spawns, then resumes

VARIABLES
  queue,     \* the mpsc channel
  pc,        \* between ticks: at the "key" poll or in the "drain"
  quit,      \* drain_events: a client asked to quit
  health,    \* UiState: "Running", "Restarting", "Exited" or "SpawnFailed" per slot
  reply,     \* what each client has heard: "idle", "sent", "parked", "acted",
             \* "error", "bye" (to quit), "dropped" (the sender went away)
  waiters,   \* parked --wait replies: the slots still outstanding
  request,   \* history: what each client asked
  stopped,   \* history: slots a client stopped, not asked for since
  inputs     \* keys and changes so far

loopVars == <<queue, pc, quit, health, reply, waiters, request, stopped, inputs>>
allVars  == <<vars, loopVars>>

Verb == {"restart", "kill", "stop", "start", "run", "quit"}

\* A slot, or 0 for `all`; `run` takes a single slot.
Request == [verb : Verb, target : 0 .. N, wait : BOOLEAN]
ASSUME RequestAssumption == Requests \subseteq Request

NoRequest == [verb |-> "quit", target |-> 0, wait |-> FALSE]

\* Every event is the same shape: the slot or client it is about, a generation.
ExitedEvent(p, g)      == [type |-> "Exited", slot |-> p, gen |-> g]
SpawnFailedEvent(p, g) == [type |-> "SpawnFailed", slot |-> p, gen |-> g]
ChangedEvent(p)        == [type |-> "Changed", slot |-> p, gen |-> 0]
ControlEvent(c)        == [type |-> "Control", client |-> c]

Looping == mode = "running" /\ cursor = 0

\* Mistake: an event of any generation counts.
IsKnownSlot(e) == e.slot \in Proc

\* Mistake: events are matched with the generation before.
IsPrevious(e) == gen[e.slot] = e.gen + 1

\* ProcManager::is_current.
IsCurrent(e) == gen[e.slot] = e.gen

------------------------------------------------------------------------------
(* Senders *)

\* The waiter's last step puts Exited on the channel (nobody reads it any more
\* once the loop is over).
SendExited(p, g) ==
  /\ WaiterSends(p, g)
  /\ queue' = IF mode = "running" THEN Append(queue, ExitedEvent(p, g)) ELSE queue
  /\ UNCHANGED <<pc, quit, health, reply, waiters, request, stopped, inputs>>

SendChanged(p) ==
  /\ mode = "running"
  /\ inputs < MaxInputs
  /\ inputs' = inputs + 1
  /\ queue' = Append(queue, ChangedEvent(p))
  /\ UNCHANGED <<vars, pc, quit, health, reply, waiters, request, stopped>>

\* serve_one: a connection thread forwards a request and waits for the reply.
SendRequest(c, r) ==
  /\ mode = "running"
  /\ reply[c] = "idle"
  /\ request' = [request EXCEPT ![c] = r]
  /\ reply' = [reply EXCEPT ![c] = "sent"]
  /\ queue' = Append(queue, ControlEvent(c))
  /\ UNCHANGED <<vars, pc, quit, health, waiters, stopped, inputs>>

------------------------------------------------------------------------------
(* The key poll *)

NoKey ==
  /\ Looping /\ pc = "key"
  /\ pc' = "drain"
  /\ UNCHANGED <<vars, queue, quit, health, reply, waiters, request, stopped, inputs>>

\* The slots of S go into a teardown; those of `stops` were asked to stay down,
\* those of `starts` to come up.
Accepted(S, stops, starts) ==
  /\ health' = [p \in Proc |-> IF p \in S THEN "Restarting" ELSE health[p]]
  /\ stopped' = (stopped \cup stops) \ starts

\* Action::Restart and Action::Kill; while a restart is in flight they do
\* nothing and the poll is a NoKey.
Key(p) ==
  /\ Looping /\ pc = "key"
  /\ inputs < MaxInputs
  /\ inputs' = inputs + 1
  /\ Replace(p, CurrentCommand(p)) \/ KillSlot(p)
  /\ Accepted({p}, {}, {p})
  /\ pc' = "drain"
  /\ UNCHANGED <<cursor, endVars, queue, quit, reply, waiters, request>>

\* The loop is left: its `waiters` are dropped with their reply senders.
LeaveLoop ==
  /\ ShutdownBegin
  /\ reply' = [c \in Client |-> IF reply[c] = "parked" THEN "dropped" ELSE reply[c]]
  /\ waiters' = [c \in Client |-> {}]
  /\ UNCHANGED <<queue, pc, quit, health, request, stopped, inputs>>

QuitKey ==
  /\ Looping /\ pc = "key"
  /\ LeaveLoop

------------------------------------------------------------------------------
(* drain_events *)

Draining(type) ==
  /\ Looping /\ pc = "drain"
  /\ queue # <<>> /\ Head(queue).type = type
  /\ queue' = Tail(queue)
  /\ UNCHANGED <<pc, quit, request, inputs>>

Untouched == UNCHANGED <<vars, health, stopped>>

\* Mistake: the exit that a teardown brings about counts too.
ExitCountsAlways(e) == IsCurrent(e)

\* The exit is the current generation's, and no teardown's doing.
ExitCounts(e) == IsCurrent(e) /\ ~IsRestarting(e.slot)

\* After an override the standard command resumes, else the slot shows how its
\* command ended.
DrainExited ==
  /\ Draining("Exited")
  /\ LET e == Head(queue)
         p == e.slot
     IN  \/ ~ExitCounts(e) /\ Untouched
         \/ /\ ExitCounts(e) /\ IsOverride(p)
            /\ ReplaceWith(p, "std", "Standard")
            /\ Accepted({p}, {}, {})
            /\ UNCHANGED <<cursor, endVars>>
         \/ /\ ExitCounts(e) /\ ~IsOverride(p)
            /\ health' = [health EXCEPT ![p] = "Exited"]
            /\ UNCHANGED <<vars, stopped>>
  /\ UNCHANGED <<reply, waiters>>

DrainSpawnFailed ==
  /\ Draining("SpawnFailed")
  /\ LET e == Head(queue)
     IN  health' = IF IsCurrent(e) THEN [health EXCEPT ![e.slot] = "SpawnFailed"]
                                   ELSE health
  /\ UNCHANGED <<vars, stopped, reply, waiters>>

DrainChanged ==
  /\ Draining("Changed")
  /\ LET p == Head(queue).slot
     IN  \/ (IsRestarting(p) \/ IsOverride(p)) /\ Untouched
         \/ /\ ~IsRestarting(p) /\ ~IsOverride(p)
            /\ Replace(p, "std")
            /\ Accepted({p}, {}, {p})
            /\ UNCHANGED <<cursor, endVars>>
  /\ UNCHANGED <<reply, waiters>>

\* control::handle for the acting verbs: what each slot refuses ...
InFlight(p) == IsRestarting(p)
Idle(r, p) == \/ r.verb = "stop" /\ IsDead(p)       \* "already stopped"
              \/ r.verb = "start" /\ ~IsDead(p)     \* "already running"
Targets(r) == IF r.target = 0 THEN Proc ELSE {r.target}
Takers(r)  == {p \in Targets(r) : ~InFlight(p) /\ ~Idle(r, p)}

\* ... and what the others are asked to run next.
NextCommand(r) == [p \in Proc |->
  CASE r.verb = "restart" -> CurrentCommand(p)
    [] r.verb = "run"     -> "ovr"
    [] r.verb = "stop"    -> "none"
    [] OTHER              -> "std"]
NextKind(r) == [p \in Proc |->
  CASE r.verb = "restart" -> kind[p]
    [] r.verb = "run"     -> "Override"
    [] OTHER              -> "Standard"]

\* Mistake: a reply waits for the slots that were skipped as well.
AwaitedTargets(r) == Targets(r)

\* With --wait: the slots whose transition the reply waits for.
Awaited(r) == Takers(r)

\* act(): every target in turn; an error only if nothing was started and some
\* slot was in flight; with --wait the reply is parked.
Act(c, r) ==
  LET S == Takers(r)
  IN  /\ Begin(S, NextCommand(r), NextKind(r))
      /\ IF r.verb = "stop" THEN Accepted(S, S, {}) ELSE Accepted(S, {}, S)
      /\ \/ /\ S = {} /\ \E p \in Targets(r) : InFlight(p)
            /\ reply' = [reply EXCEPT ![c] = "error"]
            /\ UNCHANGED waiters
         \/ /\ S # {} \/ \A p \in Targets(r) : ~InFlight(p)
            /\ reply' = [reply EXCEPT ![c] = IF r.wait THEN "parked" ELSE "acted"]
            /\ waiters' = IF r.wait THEN [waiters EXCEPT ![c] = Awaited(r)] ELSE waiters
      /\ UNCHANGED <<cursor, endVars>>

DrainControl ==
  /\ Draining("Control")
  /\ LET c == Head(queue).client
     IN  /\ request[c].verb # "quit"
         /\ Act(c, request[c])

DrainQuit ==
  /\ Looping /\ pc = "drain"
  /\ queue # <<>> /\ Head(queue).type = "Control"
  /\ LET c == Head(queue).client
     IN  /\ request[c].verb = "quit"
         /\ reply' = [reply EXCEPT ![c] = "bye"]
  /\ quit' = TRUE
  /\ queue' = Tail(queue)
  /\ UNCHANGED <<vars, pc, health, waiters, request, stopped, inputs>>

\* The channel is empty: leave the loop on quit, else tick.
DrainDone ==
  /\ Looping /\ pc = "drain"
  /\ queue = <<>>
  /\ \/ quit /\ LeaveLoop
     \/ /\ ~quit /\ EnterTick
        /\ pc' = "key"
        /\ UNCHANGED <<queue, quit, health, reply, waiters, request, stopped, inputs>>

------------------------------------------------------------------------------
(* tick and apply_transition *)

\* Mistake: the (None, Some) arm is forgotten.
HealthUnlessStopped(p, ok) ==
  IF restart[p].next = "none" THEN "Running"
  ELSE IF ok THEN "Running" ELSE "SpawnFailed"

\* The health a completed transition of slot p leaves.
HealthAfter(p, ok) ==
  IF restart[p].next = "none"
  THEN IF live[p].some THEN "Exited" ELSE "SpawnFailed"
  ELSE IF ok THEN "Running" ELSE "SpawnFailed"

\* Mistake: a failed spawn is not reported to the parked replies.
ApplyIfSpawned(p, ok) ==
  /\ health' = [health EXCEPT ![p] = HealthAfter(p, ok)]
  /\ waiters' = [c \in Client |-> IF ok THEN waiters[c] \ {p} ELSE waiters[c]]
  /\ reply' = [c \in Client |-> IF ok /\ waiters[c] = {p} THEN "acted" ELSE reply[c]]

\* A parked reply that waited for p alone is sent.
ApplyTransition(p, ok) ==
  /\ health' = [health EXCEPT ![p] = HealthAfter(p, ok)]
  /\ waiters' = [c \in Client |-> waiters[c] \ {p}]
  /\ reply' = [c \in Client |-> IF waiters[c] = {p} THEN "acted" ELSE reply[c]]

LoopTickPoll(p, ok) ==
  /\ TickPoll(p, ok)
  /\ \/ /\ restart'[p].on
        /\ UNCHANGED <<health, waiters, reply, queue>>
     \/ /\ ~restart'[p].on
        /\ ApplyTransition(p, ok)
        /\ queue' = IF restart[p].next # "none" /\ ~ok
                    THEN Append(queue, SpawnFailedEvent(p, gen'[p])) ELSE queue
  /\ UNCHANGED <<pc, quit, request, stopped, inputs>>

LoopTick ==
  \/ (\E p \in Proc : TickIdle(p) \/ TickTerm(p)) /\ UNCHANGED loopVars
  \/ \E p \in Proc, ok \in BOOLEAN : LoopTickPoll(p, ok)

------------------------------------------------------------------------------
\* run() ends: manager, channel and the replies still on it are dropped.
Exit ==
  /\ mode = "returned"
  /\ DropManager
  /\ reply' = [c \in Client |-> IF reply[c] = "sent" THEN "dropped" ELSE reply[c]]
  /\ UNCHANGED <<queue, pc, quit, health, waiters, request, stopped, inputs>>

LoopInit ==
  /\ Init
  /\ queue \in {q \in UNION {[1 .. n -> {SpawnFailedEvent(p, 0) : p \in Proc}] : n \in 0 .. N} :
                  /\ \A p \in Proc : ~live[p].some <=>
                       \E i \in DOMAIN q : q[i].slot = p
                  /\ \A i, j \in DOMAIN q : i < j => q[i].slot < q[j].slot}
  /\ pc = "key"
  /\ quit = FALSE
  /\ health = Each("Running")
  /\ reply = [c \in Client |-> "idle"]
  /\ waiters = [c \in Client |-> {}]
  /\ request = [c \in Client |-> NoRequest]
  /\ stopped = {}
  /\ inputs = 0

Drain == DrainExited \/ DrainSpawnFailed \/ DrainChanged \/ DrainControl \/ DrainQuit \/ DrainDone

MainThread ==
  \/ NoKey \/ QuitKey \/ \E p \in Proc : Key(p)
  \/ Drain
  \/ LoopTick
  \/ ShutdownStep /\ UNCHANGED loopVars
  \/ Exit

Others ==
  \/ \E p \in Proc : SendChanged(p)
  \/ \E c \in Client, r \in Requests : SendRequest(c, r)
  \/ \E p \in Proc, g \in Gens :
       \/ SendExited(p, g)
       \/ (\/ WaiterReaps(p, g) \/ WaiterRecords(p, g) \/ WaiterMarks(p, g)
           \/ JobsStart(p, g) \/ JobsEnd(p, g) \/ IdRecycled(p, g) \/ StrangerLeaves(p, g))
          /\ UNCHANGED loopVars
  \/ \E p \in 0 .. N : Timeout(p) /\ UNCHANGED loopVars

LoopNext == MainThread \/ Others

LoopSpec == LoopInit /\ [][LoopNext]_allVars

\* The main thread runs on, time passes, and a waiter thread whose child was
\* reaped runs to its end.
LoopFairness ==
  /\ WF_allVars(MainThread)
  /\ \A p \in 0 .. N : WF_allVars(Timeout(p) /\ UNCHANGED loopVars)
  /\ \A p \in Proc, g \in Gens : WF_allVars(SendExited(p, g))

FairLoopSpec == LoopSpec /\ LoopFairness

------------------------------------------------------------------------------
(* Properties *)

InQueue(type, p) ==
  \E i \in DOMAIN queue : queue[i].type = type /\ queue[i].slot = p /\ IsCurrent(queue[i])

\* main.rs `drain_events`, stale events: a slot shows an exit only if its own
\* current generation has exited (or was given up on), never because of a
\* late event of an older one.
ExitShownIsReal ==
  \A p \in Proc : mode = "running" /\ health[p] = "Exited" =>
    IsDead(p) \/ <<p, gen[p]>> \in givenUp

\* main.rs `drain_events`, no exit lost: a slot shown as running has a process
\* whose exit is not yet reported, or the event that will say otherwise is on
\* the channel.
RunningShownIsReal ==
  \A p \in Proc : mode = "running" /\ health[p] = "Running" =>
    \/ live[p].some /\ child[p][gen[p]].waiter # "sent"
    \/ InQueue("Exited", p) \/ InQueue("SpawnFailed", p)

\* main.rs `drain_events`, "its exit is not: the slot is `Restarting`": when the
\* screen is drawn, a slot in a teardown shows neither an exit nor a command
\* that runs.
TeardownHidesExit ==
  \A p \in Proc : Looping /\ pc = "key" /\ IsRestarting(p) =>
    health[p] \in {"Restarting", "SpawnFailed"}

\* main.rs `Waiter`: every slot a parked reply still waits for has the restart
\* in flight whose transition will answer it.
WaitersAreServed ==
  \A c \in Client : mode = "running" => \A p \in waiters[c] : IsRestarting(p)

\* main.rs `Waiter`, "parked until every slot it started has transitioned": no
\* reply stays parked with nothing left to wait for.
NothingLeftMeansAnswered ==
  \A c \in Client : reply[c] = "parked" => waiters[c] # {}

\* control-cli-design.md, `stop`: "only `start`, `restart`, `r`/`k`, or a watch
\* event (spec D) bring it back" a slot that a client stopped -- above all not
\* the late exit of the override it ran.
StoppedStaysDown ==
  \A p \in stopped : IsRestarting(p) => restart[p].next = "none"

\* main.rs `apply_transition`: a parked reply that waits for a slot is answered,
\* or dropped with the loop.
WaitIsAnswered ==
  \A c \in Client : waiters[c] # {} ~> reply[c] \in {"acted", "dropped"}

\* README, `run`, "When it exits, the standard command resumes": an override
\* that exits is followed by a restart, unless the loop is left.
OverrideIsFollowed ==
  \A p \in Proc :
    (live[p].some /\ IsOverride(p) /\ Dead(p, gen[p])) ~> (IsRestarting(p) \/ mode # "running")
==============================================================================

---------------------------- MODULE ControlSocket ----------------------------
(***************************************************************************)
(* The control socket between krawatte processes: instances that start,    *)
(* bind, serve, leave or crash, and the clients that look for them, ask    *)
(* one thing and return an exit code.  control.rs Listener and serve_one,  *)
(* main.rs main and run, cli.rs run_client.                                *)
(*                                                                         *)
(* Instances of the same project share one path; file[dir] is the process  *)
(* whose socket the path leads to.  What a request does to the slots is    *)
(* EventLoop's; here the loop answers, refuses or parks it.                *)
(***************************************************************************)
EXTENDS Launch, Protocol

CONSTANTS
  Run,       \* instances: one process each, started at most once
  Client,    \* clients: one invocation each
  Launches,  \* how an instance may be started: [cwd, file, adhoc, raw]
  Asks,      \* what a client may ask: [cwd, file, v, sub]
  Ghost,     \* an instance of long ago that crashed and left its socket
  NoOne

ASSUME LaunchAssumption ==
  /\ \A l \in Launches : l.raw \in RawFile
  /\ \A a \in Asks : a.sub \in Sub
  /\ Ghost \notin Run /\ NoOne \notin Run /\ Ghost # NoOne

VARIABLES
  file,      \* per project directory: whose socket the path leads to
  phase,     \* per instance: where main is
  ctrl,      \* ControlState: "on", or why it failed: "another", "io"
  launch,    \* per instance: how it was started
  quitting,  \* the instances a client's quit was granted by
  cpc,       \* per client: where run_client is
  ask,       \* per client: what it was invoked with
  at,        \* the instance it is connected to
  thread,    \* serve_one of its connection
  request,   \* its request in the main loop
  answer,    \* the reply the loop gave serve_one
  wire,      \* the reply on the connection
  exit,      \* the client's exit code
  raced,     \* history: the projects two instances of which started at once
  company    \* history: the instances that started beside one of their project

runVars    == <<phase, ctrl, launch, quitting>>
serveVars  == <<thread, request, answer, wire>>
clientVars == <<cpc, ask, at, exit>>
history    == <<raced, company>>
vars       == <<file, runVars, serveVars, clientVars, history>>

NoExit == 99
NoKeys == {}

Dirs == {InstanceDir(l) : l \in {k \in Launches : Launchable(k)}}
          \cup {ClientDir(a) : a \in {b \in Asks : b.file \in Krawattefiles \cup {NoFile}}}

Starting == {"bind", "taken", "remove", "rebind", "bound", "listening"}
Looping  == {"loop", "shutdown"}              \* run(), before the control is dropped
Alive    == Starting \cup Looping \cup {"unlinked", "leaving"}

Key(r) == InstanceDir(launch[r])

\* The accept thread has the listener until the process is gone.
Listens(x) ==
  /\ x \in Run
  /\ \/ phase[x] = "listening"
     \/ phase[x] \in Alive \ Starting /\ ctrl[x] = "on"

\* The bar shows CTRL, and the socket is this instance's to unlink.
Serves(r) == phase[r] \in Looping /\ ctrl[r] = "on"

Init ==
  /\ file \in [Dirs -> {NoOne, Ghost}]
  /\ phase = [r \in Run |-> "off"]
  /\ ctrl = [r \in Run |-> "none"]
  /\ launch = [r \in Run |-> NoOne]
  /\ quitting = {}
  /\ cpc = [c \in Client |-> "start"]
  /\ ask = [c \in Client |-> NoOne]
  /\ at = [c \in Client |-> NoOne]
  /\ thread = [c \in Client |-> "none"]
  /\ request = [c \in Client |-> "none"]
  /\ answer = [c \in Client |-> "none"]
  /\ wire = [c \in Client |-> NoKeys]
  /\ exit = [c \in Client |-> NoExit]
  /\ raced = {}
  /\ company = {}

------------------------------------------------------------------------------
(* An instance starts: main, Listener::bind *)

Beside(dir, phases) == {q \in Run : phase[q] \in phases /\ Key(q) = dir}

\* A launch that is refused exits 2 before it looks at the socket.
StartRefused(r) ==
  /\ phase[r] = "off"
  /\ \E l \in Launches : ~Launchable(l)
  /\ phase' = [phase EXCEPT ![r] = "gone"]
  /\ UNCHANGED <<file, ctrl, launch, quitting, serveVars, clientVars, history>>

Start(r) ==
  /\ phase[r] = "off"
  /\ \E l \in Launches :
       /\ Launchable(l)
       /\ launch' = [launch EXCEPT ![r] = l]
       /\ raced' = IF Beside(InstanceDir(l), Starting) # {} THEN raced \cup {InstanceDir(l)}
                   ELSE raced
       /\ company' = IF Beside(InstanceDir(l), Alive) # {} THEN company \cup {r} ELSE company
  /\ phase' = [phase EXCEPT ![r] = "bind"]
  /\ UNCHANGED <<file, ctrl, quitting, serveVars, clientVars>>

\* bind(2) makes the file; connecting is refused until listen(2).
Bind(r) ==
  /\ phase[r] \in {"bind", "rebind"}
  /\ file[Key(r)] = NoOne
  /\ file' = [file EXCEPT ![Key(r)] = r]
  /\ phase' = [phase EXCEPT ![r] = "bound"]
  /\ UNCHANGED <<ctrl, launch, quitting, serveVars, clientVars, history>>

BindTaken(r) ==
  /\ phase[r] = "bind"
  /\ file[Key(r)] # NoOne
  /\ phase' = [phase EXCEPT ![r] = "taken"]
  /\ UNCHANGED <<file, ctrl, launch, quitting, serveVars, clientVars, history>>

\* The instance runs without a socket.
Without(r, why) ==
  /\ ctrl' = [ctrl EXCEPT ![r] = why]
  /\ phase' = [phase EXCEPT ![r] = "loop"]
  /\ UNCHANGED <<file, launch, quitting, serveVars, clientVars, history>>

ProbeAnswered(r) ==
  /\ phase[r] = "taken"
  /\ Listens(file[Key(r)])
  /\ Without(r, "another")

\* Mistake: a dead socket is reported instead of replaced.
ProbeGivesUp(r) ==
  /\ phase[r] = "taken"
  /\ ~Listens(file[Key(r)])
  /\ Without(r, "io")

ProbeRefused(r) ==
  /\ phase[r] = "taken"
  /\ ~Listens(file[Key(r)])
  /\ phase' = [phase EXCEPT ![r] = "remove"]
  /\ UNCHANGED <<file, ctrl, launch, quitting, serveVars, clientVars, history>>

Remove(r) ==
  /\ phase[r] = "remove"
  /\ file[Key(r)] # NoOne
  /\ file' = [file EXCEPT ![Key(r)] = NoOne]
  /\ phase' = [phase EXCEPT ![r] = "rebind"]
  /\ UNCHANGED <<ctrl, launch, quitting, serveVars, clientVars, history>>

\* remove_file, the second bind and set_permissions report what they find.
BindFails(r) ==
  /\ \/ phase[r] \in {"remove", "listening"} /\ file[Key(r)] = NoOne
     \/ phase[r] = "rebind" /\ file[Key(r)] # NoOne
  /\ Without(r, "io")

Listen(r) ==
  /\ phase[r] = "bound"
  /\ phase' = [phase EXCEPT ![r] = "listening"]
  /\ UNCHANGED <<file, ctrl, launch, quitting, serveVars, clientVars, history>>

\* set_permissions, and serve: the accept thread runs before the slots do.
Serve(r) ==
  /\ phase[r] = "listening"
  /\ file[Key(r)] # NoOne
  /\ ctrl' = [ctrl EXCEPT ![r] = "on"]
  /\ phase' = [phase EXCEPT ![r] = "loop"]
  /\ UNCHANGED <<file, launch, quitting, serveVars, clientVars, history>>

StartStep(r) ==
  \/ StartRefused(r) \/ Start(r) \/ Bind(r) \/ BindTaken(r) \/ ProbeAnswered(r)
  \/ ProbeRefused(r) \/ Remove(r) \/ BindFails(r) \/ Listen(r) \/ Serve(r)

------------------------------------------------------------------------------
(* The loop answers, and is left: event_loop, run *)

Forget(r, states) ==
  request' = [c \in Client |-> IF at[c] = r /\ request[c] \in states THEN "dropped"
                               ELSE request[c]]

\* Event::Control: what handle may make of each verb (which of them a slot verb
\* gets depends on the slots).
Outcomes(r, sub) ==
  LET known  == ResolveSlot(Names(launch[r]), sub.slot) # {}
      single == sub.slot # AllSlots /\ sub.given \in {{"cmd"}, {"wrap"}}
  IN  CASE sub.verb = "status" -> {"Status"}
        [] sub.verb = "quit"   -> {"Done"}
        [] sub.verb = "logs"   -> IF known THEN {"Logs"} ELSE {"Error"}
        [] OTHER -> IF known /\ (sub.verb = "run" => single)
                    THEN {"Error", IF sub.wait THEN "parked" ELSE "Acted"}
                    ELSE {"Error"}

\* Mistake: only a quit that does not wait is carried out.
GrantsQuitNow(c) == ask[c].sub.verb = "quit" /\ ~ask[c].sub.wait

\* Handled::Quit.
GrantsQuit(c) == ask[c].sub.verb = "quit"

Handle(c) ==
  LET r == at[c]
  IN  /\ request[c] = "queued"
      /\ phase[r] = "loop"
      /\ \E o \in Outcomes(r, ask[c].sub) :
           IF o = "parked"
           THEN request' = [request EXCEPT ![c] = "parked"] /\ UNCHANGED answer
           ELSE /\ request' = [request EXCEPT ![c] = "answered"]
                /\ answer' = [answer EXCEPT ![c] = o]
      /\ quitting' = IF GrantsQuit(c) THEN quitting \cup {r} ELSE quitting
      /\ UNCHANGED <<file, phase, ctrl, launch, thread, wire, clientVars, history>>

\* apply_transition: the last slot a parked reply waits for.
FinishParked(c) ==
  /\ request[c] = "parked"
  /\ phase[at[c]] = "loop"
  /\ request' = [request EXCEPT ![c] = "answered"]
  /\ answer' = [answer EXCEPT ![c] = "Acted"]
  /\ UNCHANGED <<file, runVars, thread, wire, clientVars, history>>

\* event_loop returns: the parked replies go with it.  The channel stays.
LeaveLoop(r) ==
  /\ phase[r] = "loop"
  /\ phase' = [phase EXCEPT ![r] = "shutdown"]
  /\ Forget(r, {"parked"})
  /\ UNCHANGED <<file, ctrl, launch, quitting, thread, answer, wire, clientVars, history>>

\* `q`, Ctrl-C, or a draw or a key read that fails.
QuitHere(r) == LeaveLoop(r)

QuitAsked(r) == r \in quitting /\ LeaveLoop(r)

\* Mistake: whatever ends takes the socket with it, its own or not.
DropAnyControl(r) ==
  /\ phase[r] = "shutdown"
  /\ phase' = [phase EXCEPT ![r] = "unlinked"]
  /\ file' = [file EXCEPT ![Key(r)] = NoOne]
  /\ UNCHANGED <<ctrl, launch, quitting, serveVars, clientVars, history>>

\* The children are gone; Listener::drop removes whatever the path leads to.
DropControl(r) ==
  /\ phase[r] = "shutdown"
  /\ phase' = [phase EXCEPT ![r] = "unlinked"]
  /\ file' = IF ctrl[r] = "on" THEN [file EXCEPT ![Key(r)] = NoOne] ELSE file
  /\ UNCHANGED <<ctrl, launch, quitting, serveVars, clientVars, history>>

\* run returns: the receiver goes, and what is still on the channel.
DropReceiver(r) ==
  /\ phase[r] = "unlinked"
  /\ phase' = [phase EXCEPT ![r] = "leaving"]
  /\ Forget(r, {"queued"})
  /\ UNCHANGED <<file, ctrl, launch, quitting, thread, answer, wire, clientVars, history>>

\* print_final_statuses, and main returns.
Exit(r) ==
  /\ phase[r] = "leaving"
  /\ phase' = [phase EXCEPT ![r] = "gone"]
  /\ UNCHANGED <<file, ctrl, launch, quitting, serveVars, clientVars, history>>

\* SIGKILL: nothing is unlinked.
Crash(r) ==
  /\ phase[r] \in Alive
  /\ phase' = [phase EXCEPT ![r] = "gone"]
  /\ UNCHANGED <<file, ctrl, launch, quitting, serveVars, clientVars, history>>

EndStep(r) == QuitAsked(r) \/ DropControl(r) \/ DropReceiver(r) \/ Exit(r)

------------------------------------------------------------------------------
(* A connection thread: serve_one *)

InstanceIs(c, phases) == at[c] # NoOne /\ phase[at[c]] \in phases

Up(c) == InstanceIs(c, Alive)

Put(c, kind, next) ==
  /\ wire' = [wire EXCEPT ![c] = Encode(kind, request[c] = "answered" /\ ask[c].sub.wait)]
  /\ thread' = [thread EXCEPT ![c] = next]

\* The line is there once the client has written it.
ReadRequest(c) ==
  /\ thread[c] = "accepted" /\ Up(c)
  /\ cpc[c] \notin {"start", "connected"}
  /\ IF ask[c].v # PROTOCOL_VERSION \/ phase[at[c]] = "leaving"
     THEN Put(c, "Error", "replied") /\ UNCHANGED request
     ELSE /\ request' = [request EXCEPT ![c] = "queued"]
          /\ thread' = [thread EXCEPT ![c] = "waiting"]
          /\ UNCHANGED wire
  /\ UNCHANGED <<file, runVars, answer, clientVars, history>>

\* recv_timeout: the reply, or the sender went away.
WriteReply(c) ==
  /\ thread[c] = "waiting" /\ Up(c)
  /\ request[c] \in {"answered", "dropped"}
  /\ Put(c, IF request[c] = "answered" THEN answer[c] ELSE "Error", "replied")
  /\ UNCHANGED <<file, runVars, request, answer, clientVars, history>>

\* REPLY_TIMEOUT: the loop still has the request.
ReplyTimeout(c) ==
  /\ thread[c] = "waiting" /\ Up(c)
  /\ request[c] \in {"queued", "parked"}
  /\ Put(c, "Error", "replied")
  /\ UNCHANGED <<file, runVars, request, answer, clientVars, history>>

\* The thread ends, and the stream with it.
Close(c) ==
  /\ thread[c] = "replied" /\ Up(c)
  /\ thread' = [thread EXCEPT ![c] = "closed"]
  /\ UNCHANGED <<file, runVars, request, answer, wire, clientVars, history>>

------------------------------------------------------------------------------
(* A client: run_client *)

Ends(c, code) ==
  /\ cpc' = [cpc EXCEPT ![c] = "done"]
  /\ exit' = [exit EXCEPT ![c] = code]

AsksQuit(c)    == ask[c] # NoOne /\ ask[c].sub.verb = "quit"
QuitAndWait(c) == AsksQuit(c) /\ ask[c].sub.wait

Sendable(a) == HasRequest(a.sub) /\ a.file \in Krawattefiles \cup {NoFile}

\* A request that cannot be made, or a file that is not there.
Refused(c) ==
  /\ cpc[c] = "start"
  /\ \E a \in Asks : ~Sendable(a) /\ ask' = [ask EXCEPT ![c] = a]
  /\ Ends(c, 2)
  /\ UNCHANGED <<file, runVars, serveVars, at, history>>

\* connect(2), with the accept thread taking the connection.
Connect(c) ==
  /\ cpc[c] = "start"
  /\ \E a \in {b \in Asks : Sendable(b)} :
       /\ ask' = [ask EXCEPT ![c] = a]
       /\ LET x == file[ClientDir(a)]
          IN  IF Listens(x)
              THEN /\ at' = [at EXCEPT ![c] = x]
                   /\ thread' = [thread EXCEPT ![c] = "accepted"]
                   /\ cpc' = [cpc EXCEPT ![c] = "connected"]
                   /\ UNCHANGED exit
              ELSE Ends(c, 3) /\ UNCHANGED <<at, thread>>
  /\ UNCHANGED <<file, runVars, request, answer, wire, history>>

Send(c) ==
  /\ cpc[c] = "connected"
  /\ IF Up(c) THEN cpc' = [cpc EXCEPT ![c] = "reading"] /\ UNCHANGED exit ELSE Ends(c, 1)
  /\ UNCHANGED <<file, runVars, serveVars, ask, at, history>>

\* A reply; `quit --wait` then reads on until the connection closes.
ReadReply(c) ==
  /\ cpc[c] = "reading" /\ wire[c] # NoKeys
  /\ IF QuitAndWait(c) THEN cpc' = [cpc EXCEPT ![c] = "draining"] /\ UNCHANGED exit
                       ELSE Ends(c, ExitCode(Decode(wire[c])))
  /\ UNCHANGED <<file, runVars, serveVars, ask, at, history>>

\* The process went away with no reply: an end of file once the thread had read
\* the request (the instance exited, for `quit --wait`), a reset before that.
ReadEnd(c) ==
  /\ cpc[c] = "reading" /\ wire[c] = NoKeys /\ ~Up(c)
  /\ Ends(c, IF QuitAndWait(c) /\ thread[c] = "waiting" THEN 0 ELSE 1)
  /\ UNCHANGED <<file, runVars, serveVars, ask, at, history>>

\* 10 s, or 600 s for a subcommand that waits.
ReadTimeout(c) ==
  /\ cpc[c] = "reading" /\ wire[c] = NoKeys
  /\ Ends(c, 1)
  /\ UNCHANGED <<file, runVars, serveVars, ask, at, history>>

\* The connection closed (serve_one returns after the write, long before the 600 s
\* of the second read are over): the first reply decides.
DrainEnds(c) ==
  /\ cpc[c] = "draining"
  /\ thread[c] = "closed" \/ ~Up(c)
  /\ Ends(c, ExitCode(Decode(wire[c])))
  /\ UNCHANGED <<file, runVars, serveVars, ask, at, history>>

ServeStep(c) == ReadRequest(c) \/ WriteReply(c) \/ Close(c)

ClientStep(c) == Refused(c) \/ Connect(c) \/ Send(c) \/ ReadReply(c) \/ ReadEnd(c) \/ DrainEnds(c)

------------------------------------------------------------------------------
Next ==
  \/ \E r \in Run : StartStep(r) \/ EndStep(r) \/ QuitHere(r) \/ Crash(r)
  \/ \E c \in Client :
       ClientStep(c) \/ ReadTimeout(c) \/ ServeStep(c) \/ ReplyTimeout(c)
         \/ Handle(c) \/ FinishParked(c)

Spec == Init /\ [][Next]_vars

\* The scheduler runs every process; a crash, a key and a timeout need not come.
SocketFairness ==
  /\ \A r \in Run : WF_vars(StartStep(r)) /\ WF_vars(EndStep(r))
  /\ \A c \in Client : WF_vars(Handle(c))

FairSpec == Spec /\ SocketFairness

------------------------------------------------------------------------------
(* Properties *)

\* CTRL means reachable: unless two instances of a project started at once, the
\* path leads to the instance that holds the control, so no instance cuts
\* another off or unlinks its socket, through crashes and shutdowns that overlap
\* the start of the next (control.rs:85-113, 148-152, main.rs:297-302).
SocketIsTheirs ==
  \A r \in Run : Serves(r) /\ Key(r) \notin raced => file[Key(r)] = r

\* NO CTRL has a cause: an instance that started while no other of its project
\* was there gets its socket, whatever a crash left behind (control.rs:81-84).
StaleIsReplaced ==
  \A r \in Run : ctrl[r] \in {"another", "io"} => r \in company \/ Key(r) \in raced

\* An instance and a client that mean the same project: the same Krawattefile, or
\* none above the same directory.  A symlink that the client discovers is left out
\* (RealDir of it is elsewhere).
SameProject(a, l) ==
  IF l.adhoc THEN FileOf(a) = NoFile /\ a.cwd = l.cwd
  ELSE /\ FileOf(a) # NoFile
       /\ RealDir[FileOf(a)] = RealDir[FileOf(l)]
       /\ a.file # NoFile \/ RealDir[FileOf(a)] = FileOf(a)

\* "No krawatte running" is only said when none is: not while an instance of that
\* project serves (cli.rs:178-200, 220-226, README.md:128-130).
FoundWhileServing ==
  [][\A c \in Client : exit[c] # 3 /\ exit'[c] = 3 =>
       ~\E r \in Run : /\ Serves(r) /\ Key(r) \notin raced
                       /\ SameProject(ask'[c], launch[r])]_vars

\* Exit code 0 is a promise kept: the loop answered and did not refuse, or
\* `quit --wait` outlived its instance (cli.rs:202-290).
ExitTellsTruth ==
  \A c \in Client : exit[c] = 0 =>
    \/ request[c] = "answered" /\ answer[c] # "Error"
    \/ QuitAndWait(c) /\ InstanceIs(c, {"gone"})

\* The slots of an instance launched from a file answer to their names.
NamesReachTheirSlot ==
  \A r \in Run : phase[r] \in Alive /\ ~launch[r].adhoc => NamesAreAddresses(Names(launch[r]))

\* A quit that returned 0 ends the instance, and its socket with it
\* (main.rs:446-449, 297-302).
QuitIsObeyed ==
  \A c \in Client : exit[c] = 0 /\ AsksQuit(c) ~> InstanceIs(c, {"gone"})

\* `quit --wait` returns when the instance has exited (cli.rs:284, main.rs:297-298).
QuitWaitSeesExit ==
  \A c \in Client : QuitAndWait(c) /\ exit[c] = 0 => InstanceIs(c, {"leaving", "gone"})
==============================================================================

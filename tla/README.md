# krawatte, verified

krawatte runs several commands side by side in one terminal: it spawns them,
shows their output, restarts them on a key, a file change or a request over a
socket, and stops them in an orderly way. This directory holds TLA+ modules of
the parts of it that are concurrent or stateful, the TLC runs that check them on
small instances, and TLAPS proofs of what matters most for every size.
`PROJECT.json` maps every definition to the lines it stands for, and lists the
runs, the theorems and the hazards.

## 1. The system

| Part | State | Operations | Talks to |
|---|---|---|---|
| Shutdown machine (`proc.rs`) | live groups, when SIGTERM and SIGKILL went out, phase | `new`, `step`, `run` | process groups through `ShutdownEffects`; used by a slot's restart and by the global stop |
| Process manager (`proc.rs`) | per slot: generation, kind, machine in flight, what follows it; per generation: pid, group, `dead`, `status`, `ended`, `finished`, `retired` | `spawn_specs`, `replace`, `replace_with`, `kill`, `stop`, `tick`, `shutdown`, `Drop` | one waiter thread and two reader threads per generation, over atomics, mutexes and the event channel |
| Event loop (`main.rs`) | status-bar health, override marks, parked `--wait` replies | draw, key, `drain_events`, `tick`, `apply_transition`, leave | everything: it is the only thread that changes manager, buffers and UI |
| Control verbs (`control.rs`) | none | `restart`, `kill`, `stop`, `start`, `run`, `quit`, `status`, `logs` | called by the event loop, answer over a reply channel |
| Control socket (`control.rs`) | the socket file, one thread per connection | bind (probe, remove, bind), serve, reply timeout, unlink on drop | other instances through the file system, clients through connections; the loop through `Event::Control` |
| File watching (`watch.rs`) | registered directories, pending changes with their time | registration, `on_new_dir`, debounce, send `Changed` | kernel and `notify` events in, `Event::Changed` out |
| Output path (`proc.rs`, `buffer.rs`) | global line counter, channel, a ring buffer per slot | read, number, send, push, evict, merge | pipes in, UI and `logs` out |
| User interface (`ui.rs`) | view, scroll offset, wrap, anchor, layout of the last frame, health | keys, render | reads the buffers, returns actions to the loop |
| Client (`cli.rs`), protocol (`protocol.rs`) | none that lasts | find the project, one round trip, an exit code | a control socket |
| Configuration (`config.rs`, `watch.rs` `resolve_all`) | none that lasts | discover, parse, validate, name the slots | start-up, clients, `resolve_slot` |
| Marker text (`marker.rs`) | none | formatting | |

What is hard here: the waiter threads publish an exit in four steps while the
main thread polls; process groups outlive their leader, survive SIGKILL and have
their ids recycled; every restart is spread over many ticks with keys, changes,
exits and requests in between; events of old generations arrive late; a tree of
directories changes while it is being registered; reader threads race for
sequence numbers; several instances race for one socket, some crash, and a client
may be early, late or cut off; keys act on a frame that is already old.

What makes each part correct: every stop ends, in bounded time, with nothing
alive that could have been killed, and every group gets SIGTERM, its grace period
and SIGKILL once and in this order (machine); a slot never runs two generations,
and what is marked gone or exited really is (manager); the status bar tells the
truth, a stopped slot stays down, an override comes back to the standard command,
a parked reply is answered (loop); no change is missed, no ignored one fires
(watching); no line is lost, doubled or shown under the wrong generation (output);
`CTRL` means reachable and `NO CTRL` has a cause (socket); an exit code is never
kinder than the truth, and who runs is found (client); a name is an address
(configuration); the tail stays followed, `w` keeps the place, a key acts on the
pane that was seen (user interface).

## 2. Modules

    OrderlyStop        abstract: what stopping a set of groups promises
      ^ refined by
    Shutdown           run() against a clock            ---- ShutdownProofs
      | uses
    ShutdownMachine    the data and step of one machine ---- ShutdownMachineProofs
      | used by
    ProcManager        slots, generations, waiters, groups ---- ProcManagerProofs
      | refines               | extended by
    SlotLifecycle         EventLoop   keys, drain, tick, replies ---- EventLoopProofs
                            ^ inputs SendChanged, SendRequest and Key, and the channel
         Watch --------------+--------------- ControlSocket ---- ControlSocketProofs
         registry, debouncer |                 | extends
         (WatchProofs)       |               Launch, Protocol
         Output  readers, ---+-- View  frames, keys, wrapping ---- ViewProofs
         stale lines, markers     |
         (OutputProofs)           |
              `---- extend ---- BufferSet  ring buffers, all-view

EventLoopProofs extends ProcManagerProofs as EventLoop extends ProcManager.

* **ShutdownMachine** holds the record of `ShutdownMachine` and its `step`
  as operators: `New`, `NeedsTerm`, `Harvest`. `step()` is used in two parts,
  SIGTERM and harvest, because processes run between the signal and the poll.
* **Shutdown** is `run()` with integer time: a poll comes `Poll` ticks after the
  last and up to `Jitter` later. A group consists of a leader and background
  jobs; a killed group that is not in `Wedged` is gone within `Prompt` ticks.
* **OrderlyStop** says what `q` promises, without polls: asked, perhaps forced,
  settled or given up on. Shutdown implements it.
* **ProcManager** models the whole of `begin`, `tick`, `complete`, `retire`,
  `shutdown` and `Drop`, and each of the waiter thread's four steps (status,
  `ended`, `dead`, event). Instead of a clock a machine has a flag `late` that
  may rise at any time after the signal, so all timings are covered. A retired
  generation's waiter is joined, as `retire` does; after that its event is on
  the channel. `MaySurvive` names groups that may survive SIGKILL: that only
  those are given up on is what Shutdown shows (`AbandonedOnlyWedged`).
* **SlotLifecycle** is a slot as a user sees it: one generation at a time, a new
  one after the old one is gone or given up on. ProcManager implements it.
* **EventLoop** extends ProcManager by the channel, clients, health and parked
  replies. `apply_transition` is part of the slot's tick step: nothing reads what
  it writes before the loop is through. `act` over several slots is one step. Health
  merges the two kinds of exit. An `Exited` sent after the loop was left is not
  queued, as nobody reads it.
* **Watch** models `Registry`, the watcher thread and `Debouncer` with a kernel
  that reports changes of watched directories only and forgets the watch of a
  removed directory. Registering a directory and reading it are two steps. Time
  is the age of each stamp, cut off at `Quiet`. A slot has one target; the order
  in which a walk takes directories is left open. `TreeAssumption` says that the paths
  are a tree (from every path the way up ends at `Top`), `StartAssumption` that what
  exists at the start is one. `unseen`, `touched`
  and `since` are history and use `Concerns`, a statement of README.md's rules
  that is independent of `matches` and `ignored`.
* **BufferSet** is the ring buffer's `push` and the merge of the all-view by
  cursors, for lines of any kind that have a number. `Held` is the set of places in
  the buffers that hold a line, so that `interleaved`'s sum of the buffers' lengths
  is its size (`Total`).
* **Output** models a reader thread as *number, then send*, the drain with its
  generation test, and the marker blocks. A stream is a count of lines and perhaps
  one without its newline. A restart (`Respawn`) writes its block under the new
  generation, a stop (`Stop`) under the one that ended and stays the current one. So of
  a stop's marker nothing is claimed about its place: the generation's lines stand
  before it, and what its pipes still hold is shown behind it.
* **Launch** is what is decided from files alone: which Krawattefile an instance
  launches and a client means (a directory is a sequence of names, `RealDir` says
  where a symlink leads), every rule by which `parse` and `resolve_all` refuse a
  file, the slots' names, and `resolve_slot`. A name is a string with three facts
  about it: well formed, digits only, its value as a `usize`.
* **Protocol** has the verbs and what tells one reply from another: `Response`
  carries no tag, so a reply on the wire is the set of its keys, and `Decode` takes
  the first variant whose keys are all there.
* **ControlSocket** has instances and clients. `Listener::bind` is one action per
  system call: `Bind`, `ProbeAnswered` or `ProbeRefused`, `Remove`, `Bind` again,
  `Listen`, `Serve`; `file[dir]` is the instance whose socket a path leads to, which
  may be dead. `DropControl` removes whatever the path leads to, as `Drop` does.
  `Crash` leaves everything as it is. A client's connection has one `serve_one`
  thread; request, answer and bytes on the wire are apart, so that a reply can be
  late for a client that has given up, or a client late for an instance that left.
  What a request does to the slots is EventLoop's; here the loop answers it with
  any reply it might give, or parks it.
* **View** is `UiState` with the loop's order: draw a frame, take one key, drain.
  A pane shows its buffer, the all-view the merge. Readers number a line and send it
  in two steps, whatever the loop is doing, so that a line with a smaller number may
  be merged in above lines that were on the screen before it; `late` records that.
  A key is taken to be pressed when it is handled: what is typed ahead waits in the
  terminal's queue, which is not modelled.
  A line's text is the sequence of its graphemes' widths; `WrapLine` and the row
  layout are computed as in `wrap_line` and `render_body`, by recursive functions
  whose value after each grapheme and each line the proofs can name. `shown` is what
  the last frame showed. Ages are taken to have one digit, slots one-digit tags: all that
  matters of a prefix is its width.

## 3. Runs

| Run | Shows |
|---|---|
| `shutdown` | three groups, one wedged, grace 3, reap timeout 3, poll 1, jitter 1: SIGKILL only after the grace period, nothing left behind, only the wedged one given up, bounded time, each signal once, termination, OrderlyStop |
| `slots` | one slot, two generations, background jobs, survivors, recycled ids: one generation alive at a time, marks and outcomes are true, a restart spares what is marked, every exit status is known unless the generation was abandoned, restarts and shutdown end, SlotLifecycle |
| `event_loop` | one slot, four more generations, two clients with every verb: what is shown is real, a stopped slot stays down, overrides are followed by the standard command, `--wait` is answered |
| `waits` | two slots, one parked reply over both, one key or change: every slot a reply waits for has a restart in flight; an exit inside a teardown stays hidden |
| `watch` | `src/nested` appearing under a watched project, a binary renamed into an ignored `target` that a second slot watches, reads and backend errors: all directories end up watched, every change is reported later, bursts are one restart, ignored trees stay quiet |
| `output` | three readers, a restart, a stop, buffers of two lines, two writes: no stale line behind its successor's marker, streams without gaps, a complete all-view, every line shown |
| `socket` | two instances, by a symlinked file or ad hoc, or with one of eleven files that are refused; a client with five questions from four places: the path belongs to whoever holds the control, a dead socket is replaced, 0 is only said when it is true, 3 only when nobody serves, names are addresses, a quit ends the instance |
| `view` | two panes with lines of one row and of several, tabs and wide graphemes, buffers of three lines, two readers that number and send, two terminals and every key: the tail is followed, `w` keeps the bottom line (the run breaks if either of its exceptions, an eviction and a late line, is dropped), wrapping loses nothing, `r` and `k` act on the pane that was shown |

Four runs end in a violation, each a place where code and documentation part:

* `override_forgotten`: `run`, `stop`, `restart` runs the override's command as if it
  were the standard one.
* `wait_hangs`: `--wait` on a request that starts nothing is parked forever.
* `watch_lost`: a watched directory that is removed and made again is not watched
  any more, because `Registry.dirs` still has it.
* `quit_wait`: `quit --wait` is back before the instance is gone. The connection that
  is to close with the instance is closed by its own thread after the reply. Only
  when the instance goes without a reply does the client really see it go.

More such places were met while modelling and are in the models, without a run:

* The global stop signals the group id of a generation that was already marked
  finished (proc.rs:274), although the mark is there so that "nothing signals the pgid
  again" (proc.rs:61-63, 575): see `ShutdownBegin`. `RestartSparesFinished` is about the
  other signals, those of a restart, kill or stop.
* After a `run` whose spawn failed, `r` brings the standard command back as an
  override (proc.rs:448), whose own exit then restarts it, against README.md:177: see
  `Complete` and `DrainExited`.
* Two instances that start at once over a dead socket may both remove it, the second
  one the socket that the first has just bound (control.rs:95-100); and the first to
  leave unlinks the path of the second. `raced` marks the project; the properties
  say nothing about it.
* A client that discovers a Krawattefile which is a symlink looks in the directory of
  the link, the instance listens for the directory of the target (cli.rs:190-196
  against config.rs:285-302). With `-f` both follow the link. See `SameProject`.
* `w`, then before the next frame a line that is evicted, or in the all-view one that
  was numbered before the last frame, is sent after it and merged in above the bottom
  (proc.rs:748-751, buffer.rs:199-234): the anchor is an index (ui.rs:595-597), so the
  line at the bottom is another one, although "toggling keeps the line you were reading"
  (README.md:166-167). See `evicted` and `late`.

### Bounds

| Bound | Why it is enough |
|---|---|
| `N` = 1, in `waits`, `output` and `view` 2 | slots share the main thread, a reply, the channel, the line counter and the screen; two show every sharing, and the proofs cover all N |
| `MaxGen` 1 to 4 | a restart involves two generations; four let a verb, an override, its resume and one more follow each other |
| `MaxInputs`, `Client`, `Requests` | a client sends one request; `MaxInputs` counts keys and changes. Two clients and all verbs give every pair of requests in flight |
| `MayFork`, `MaySurvive`, `Recycles` | slots whose generations leave jobs, survive SIGKILL, or have their group id reused |
| `MaxOps` 3, `Quiet` 2, `MayRemove`, `MayMoveIn` | make a directory, one in it, a file in that: the longest chain the walk can miss. Two ticks tell the first from the last event of a burst. The `watch` run removes files only; what removing a directory does is `watch_lost` |
| `MaxWrites` 2, `MaxStops` 1, `Cap` 2, `Block` 1, `Restarts`, `Talks` | two lines and the markers of a restart and a stop overflow a buffer of two; one marker line takes part in every race a block of four does |
| `Run` 2, `Client` 1, `Launches`, `Asks`, `Ghost` | every property of the socket is about a path and at most two instances; a path may start with the socket of a third that crashed. Clients meet only through the loop. The proofs cover any number of each |
| `Cap` 3, `MaxLines` 4, `Sizes` 8x2 and 14x3, `Outputs` | four lines overflow a pane of three, and suffice for one that is late and above the bottom of a page that can scroll; a line of 20 cells takes three rows of 8, and the indent is dropped at one width and kept at the other |

Deadlock is not checked: the program stops when the user quits, and the models
stop at their bounds.

### Fairness

The main thread keeps running: its loop polls keys for 50 ms at most and blocks on
nothing but the join of a waiter that has published its exit. Time passes. A waiter
that has published `dead` sends its event. A killed group that may not survive is
gone some time. In Watch the thread is never blocked for good (`recv_timeout`). In
Output every reader thread runs on. In ControlSocket an instance that starts or ends
goes on, and a loop that runs takes what is on its channel; no key, crash, timeout or
client step is assumed. Nothing is assumed of children, users or the filesystem.
View has no liveness.

## 4. Proofs

For every value of the constants that meets the named assumptions.

* `ShutdownProofs`: `TypeCorrect`, `KillWaitsForGrace`, `ReturnLeavesNothing`,
  `OnlyWedgedAbandoned`, `ShutdownIsBounded`, `NoSecondSignal`, `StopIsOrderly`. The
  inductive invariant ties the machine's clocks to the times at which each
  group was signalled; the bound on the running time needs that a poll is never
  further away than `Poll + Jitter`, and *only wedged* needs that `KillReap` leaves
  a killed group the time it takes.
* `ProcManagerProofs`: `TypeCorrect`, `OneAlive`, `MarkedIsGone`, `OutcomeIsReal`,
  `RestartsSpareFinished`, `StatusIsKnown`, `SlotsLiveInTurn`. `OneGenerationAlive` is not inductive: that a respawn finds
  the old group empty follows only if the machine in flight follows the current
  generation and no other (`TeardownIsSound`), if its live set and phase agree
  (`MachineIsSound`), if a mark implies death (`MarkedIsDead`), and if generations
  beyond the current one have no process (`UnbornIsEmpty`). `IInv` is the conjunction.
  What a machine does in one step is stated once in `ShutdownMachineProofs`
  (`HarvestOutcome`), used by both. `StatusIsKnown` needs an account of who is still to
  come back: whoever is up when `shutdown` begins is followed by its machine until its
  leader is reaped, or given up on (`EndIsAccounted`). `SlotsLiveInTurn` is the
  refinement of SlotLifecycle, step by step: `begin` is its Request, `complete` its Stop
  or Spawn, a group's last process its Die, leaving the loop its Close.
* `EventLoopProofs`: `WaitersAlwaysServed`, `TeardownAlwaysHides`, `StoppedAlwaysDown`,
  for any number of slots, clients and requests. `LoopInv` adds to them that a restart
  in flight is shown while the loop runs (`TeardownIsShown`; the property itself is about
  frames only), that leaving the loop drops the restarts and none begins afterwards
  (`LeftIsQuiet`), and why a stopped slot stays down (`StoppedRunsNothing`): its teardown
  spawns nothing and leaves the kind Standard, so that a late exit of the override
  cannot resume anything.
  Every step of the loop is a `begin` with commands and kinds there are, or a step the
  manager takes by itself (`LoopIsSteps`), so `IInv` holds in the loop too, and with it
  `LoopRunsSlotsInTurn` and `LoopKeepsStatus`: what ProcManager promises under any
  requests it promises under those of the loop.
  `ExitShownAlwaysReal` and `RunningShownAlwaysReal` need both invariants and one fact
  more: an `Exited` on the channel was put there by the last step of its generation's
  waiter (`ExitsAreSent`), so that a slot that shows an exit for it is dead. Each step
  either makes a slot show something else, or shows a truth about its new state, or
  leaves what it shows and loses no event about its generation (`Shows`); an `Exited`
  of the current generation is ignored only in a teardown, in which nothing is shown as
  running (`TeardownIsShown` again).
* `ControlSocketProofs`: `SocketStaysTheirs`, `NamesAlwaysReach`, `StaleIsAlwaysReplaced`,
  `ExitsTellTruth` and `FoundAlways`. Whose the path is
  needs the whole start: two that start at once have raced (`OneStarts`), the path is
  its binder's until it serves (`BoundIsTheirs`), and who is about to remove or bind
  again has nobody serving beside it (`ClearsTheDead`). Who starts alone finds the path
  as it left it, so no call of `bind` fails. Names are addresses by the rules
  of `parse` alone: a well-formed name that parses as a number has digits only
  (`NameAssumption`), and those are refused. That an exit code tells the truth follows
  from what each state of a client, its thread and its request implies of the others
  (`Honest`) and from what `Decode` makes of each reply.
* `OutputProofs`: `LateOutputIsDropped`, `BufferHoldsTheTail`, `NumbersAreGivenOnce` and
  `AllViewIsComplete`, for any number of slots, streams, restarts and lines. That a
  buffer has no gap is not inductive: it needs that what a reader has sent and the main
  thread has not taken is on the channel, in order, and for the current generation
  complete (`ChannelIsUnbroken`). That no stale line follows a restart's marker needs that no
  generation has output before it is spawned (`UnbornIsSilent`) and that nothing is
  drained while the block is written (`MarkerComesFirst`); stops come in between
  and leave the generation as it is. No two lines share a number
  although a reader takes it in one step and sends in another (`NumbersAreOwn`). The merge
  is proved by what it has done after k lines (`MergedTo`): its cursors mark a beginning
  of each buffer, its lines are these beginnings, and, if the buffers ascend, each of
  them is before everything that is left.
* `WatchProofs`: `IgnoredAlwaysQuiet`, `BurstsAreOneRestart` and `TreeAlwaysWatched`, for any
  tree, targets and patterns. The first needs that `matches` means what README.md says
  (`MatchesIsConcerns`: the components of a path are the chain of those above it). The last
  needs what the walk owes: every directory a slot should watch and does not has a
  directory at or above it that is on the stack, is registered and not read, has its
  creation reported and not handled, or is the target of a walk to come
  (`TreeIsReached`); whichever of register, read, create and report comes first, one of
  these is passed on. `DirectoriesStay` is its hypothesis: no directory is removed or
  renamed into place, since of these the registry does not hear; `watch_lost` shows it.
* `ViewProofs`: `WrapIsLossless`, `TailIsKept`, `PlaceIsKept` and `ActsOnSeenPane`, for
  any lines, prefixes, terminals and numbers of slots, and `PanesComeRound`, which has
  no state: Tab and Shift-Tab undo each other. That wrapping loses nothing and does not
  overflow is an invariant of the rows after each grapheme (`Wraps`): they hold the
  line so far, and each row's column is where a terminal's cursor is, at the row's start
  only if nothing in it has a width, past the edge only if one thing has
  (`RowIsSound`). The tail is left by an upward scroll only, because at the bottom
  nothing is anchored (`FollowInv`). `w` keeps the place because every line takes a row
  at least, so that the layout ascends strictly and the row before the next line's
  first belongs to the anchored line (`DrawKeepsPlace`), and because until the next
  frame what the view shows does not change up to that line (`PlaceInv`): a pane only
  grows at its end, and of the all-view `MergeGrows` shows that a line numbered after
  a beginning of the merge leaves that beginning as it is. Its proof runs two merges
  side by side, with the line and without it: they agree until the first one is
  through or shows a line that is not numbered before the new one (`Agree`, `AgreeOn`).
  The property asks for a line at the bottom of the frame before: in a body without
  rows there is none.

TLC finds each inductive invariant true on the instance of its module's run. The type
invariants of Shutdown and ProcManager are proved and not run any more; those of the
other modules are conjuncts of the inductive invariants.

What recursive functions compute (`Components`, `MergeOf`, View's `RowsUpTo`,
`SumUpTo` and `Cursor`) is proved from their definition: a witness shows
that the function exists, and the set of arguments at which a statement fails has no
least one, or, in a tree, none whose parent is not in it.

Only model-checked: the liveness properties, which need fairness and ENABLED, and these
the prover does not handle: `Returns`, `RestartCompletes`, `ShutdownReturns`,
`WaitIsAnswered`, `OverrideIsFollowed`, `ChangeIsReported`, `LinesAreShown` and
`QuitIsObeyed`.

The bound on generations sits in `Begin`: a restart that would spawn beyond `MaxGen`
does not begin. In EventLoop it never bites, as `InputAssumption` gives every input the
generations it may use.

## 5. Not modelled

* Commands, environments, pids, runtimes and terminal handling: data.
* Marker text, timestamps, colours, the status bar, the rendering of replies, TOML and
  the encoding of requests: formatting. A reply is the set of its keys.
* What `status` and `logs` list: they read only. `parse_duration` and the conversion of
  timeouts: arithmetic on floats and on 64-bit seconds; both panic on extreme
  values (control.rs:259-264, config.rs:184, main.rs:225), and no state follows them.
* Of the output path, ANSI parsing. `buffer.rs` says that each
  buffer is ascending by number. It is not: a reader numbers a line before it
  sends it, and `apply_transition` numbers the marker after the new readers run. So the
  all-view may be out of arrival order; `ViewIsComplete` states what the merge
  gives regardless, and order only for ascending buffers.
* In View, marker blocks and generations: both are Output's. The main thread numbers a
  marker and pushes it at once, so that a marker is never late; a line may be late with
  respect to a marker as it may to another reader's line, and a marker evicts as a line
  does.
* In ControlSocket a client that connects to an instance between its `listen` and a
  `set_permissions` that fails is still served. That call fails only if the path is gone,
  which takes another instance that started at the same time (`raced`).
* An accept error, after which the accept thread ends and the socket is dead while the
  bar shows `CTRL` (control.rs:125); a request line beyond 64 KiB.
* Overflow of the kernel's event queue, directories renamed into a tree (the code
  registers on create only), and rates (a child that prints faster than the loop
  reads, accesses that keep the watcher from a slot that is due).

## 6. Plan

1. Done: every module above, with its runs and proofs.
2. Left to model: ControlSocket and EventLoop as one system, in place of the replies
   ControlSocket leaves open; the tail and `--since` of `logs` over Output's buffers.

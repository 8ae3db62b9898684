-------------------------------- MODULE Watch --------------------------------
(***************************************************************************)
(* Restart on change (watch.rs): the directory registry, the watcher       *)
(* thread and the debouncer, against a filesystem that changes at any      *)
(* moment and a kernel that reports changes of the directories it was      *)
(* asked to watch.  Every Changed this module sends is the input           *)
(* SendChanged of EventLoop.                                               *)
(*                                                                         *)
(* A path stands for its last component; Parent gives the tree.  Time is   *)
(* kept as ages, counted in ticks and cut off at Quiet.                    *)
(***************************************************************************)
EXTENDS Naturals, Sequences, FiniteSets

CONSTANTS
  Dir,       \* paths that are directories when they exist
  File,      \* paths that are files when they exist
  Top,       \* the one directory that is always there (the project's)
  Parent,    \* the directory of every path but Top
  DirSlot,   \* slots that watch a directory (WatchTarget::Dir)
  FileSlot,  \* slots that watch a file (WatchTarget::File)
  Target,    \* what a slot watches: a directory or a file
  None,      \* no slot, no path, no age
  Ignore,    \* the paths whose name a slot's patterns match
  Quiet,     \* the quiet period, in ticks
  AtStart,   \* what exists when krawatte starts
  MayRemove, \* bound: the paths that may be removed
  MayMoveIn, \* bound: the paths that may be renamed into place
  MaxOps     \* bound: how many times the filesystem changes

Path == Dir \cup File
Slot == DirSlot \cup FileSlot
Kind == {"create", "modify", "rename", "remove", "access", "error"}
Event == [kind : Kind, path : Path]

\* A filesystem is a tree: from every path the way up ends at Top.
ASSUME TreeAssumption ==
  /\ Top \in Dir /\ Dir \cap File = {}
  /\ Parent \in [Path \ {Top} -> Dir]
  /\ \A S \in SUBSET Path :
       S # {} => Top \in S \/ \E p \in S \ {Top} : Parent[p] \notin S
ASSUME StartAssumption ==
  /\ Top \in AtStart /\ AtStart \subseteq Path
  /\ \A p \in AtStart \ {Top} : Parent[p] \in AtStart
ASSUME SlotAssumption ==
  /\ DirSlot \cap FileSlot = {}
  /\ Target \in [Slot -> Path] /\ Ignore \in [Slot -> SUBSET Path]
  /\ \A s \in DirSlot : Target[s] \in Dir
  /\ \A s \in FileSlot : Target[s] \in File
ASSUME NoneAssumption == None \notin Path \cup Slot \cup Nat \cup Event
ASSUME BoundAssumption == Quiet \in Nat \ {0} /\ MaxOps \in Nat

VARIABLES
  exists,   \* the paths that exist
  watched,  \* the directories the kernel watches
  dirs,     \* Registry.dirs: the directories registered, as the code believes
  raw,      \* raw_rx: events the watcher thread has not received yet
  pc,       \* where the watcher thread is
  current,  \* the event it is handling
  walks,    \* the slots whose watch_tree is still to run for it
  walker,   \* the slot whose watch_tree runs
  stack,    \* watch_tree's stack
  listing,  \* the directory watch_tree has registered and not read yet
  stamp,    \* how long ago the event's `now` was taken
  pending,  \* Debouncer.pending: how long ago each slot's `last` was
  ops,      \* how often the filesystem changed
  unseen,   \* history: slots with a change that no Changed came after
  touched,  \* history: slots that had a change at all
  since     \* history: how long ago the kernel last reported one of a slot's

files == <<exists, watched, raw, ops>>
registry == <<dirs, walks, walker, stack, listing>>
history == <<unseen, touched, since>>
vars == <<files, registry, pc, current, stamp, pending, history>>

(* --- the tree ----------------------------------------------------------- *)

\* The components of an absolute path, from the top down to p.
Components[p \in Path] == IF p = Top THEN {Top} ELSE {p} \cup Components[Parent[p]]

Under(p, dir) == dir \in Components[p]

\* Mutant: only the last component is looked at.
IgnoredByName(s, p) == p \in Ignore[s]

\* ignored(): a component of the path relative to the slot's target matches.
Ignored(s, p) ==
  (Components[p] \ Components[Target[s]]) \cap Ignore[s] # {}

Covers(s, p) == s \in DirSlot /\ Under(p, Target[s]) /\ ~Ignored(s, p)

\* SlotWatch::matches
Matches(s, p) == Covers(s, p) \/ (s \in FileSlot /\ p = Target[s])

\* What README promises, for the history variables: nothing that is ignored
\* is at p or above it, below the slot's directory.
Concerns(s, p) ==
  IF s \in FileSlot THEN p = Target[s]
  ELSE /\ Under(p, Target[s])
       /\ \A q \in Ignore[s] :
            Under(q, Target[s]) /\ q # Target[s] => ~Under(p, q)

Children(d) == {p \in exists \ {Top} : Parent[p] = d}

(* --- the filesystem and the kernel -------------------------------------- *)

Older(age) == IF age = Quiet THEN Quiet ELSE age + 1

\* Something happened at p: the kernel reports it if it watches p's directory
\* (or p itself, when p is removed), and the slots that watch p should hear.
Change(kind, p) ==
  LET told == Parent[p] \in watched \/ (kind = "remove" /\ p \in watched)
      mine == {s \in Slot : Concerns(s, p)}
  IN  /\ ops < MaxOps
      /\ ops' = ops + 1
      /\ raw' = IF told THEN Append(raw, [kind |-> kind, path |-> p]) ELSE raw
      /\ unseen' = unseen \cup mine
      /\ touched' = touched \cup mine
      /\ since' = [s \in Slot |-> IF told /\ s \in mine THEN 0 ELSE since[s]]
      /\ UNCHANGED <<registry, pc, current, stamp, pending>>

MkDir(p) == /\ p \in Dir \ exists /\ Parent[p] \in exists
            /\ exists' = exists \cup {p}
            /\ UNCHANGED watched
            /\ Change("create", p)

Write(p) == /\ p \in File /\ Parent[p] \in exists
            /\ exists' = exists \cup {p}
            /\ UNCHANGED watched
            /\ Change(IF p \in exists THEN "modify" ELSE "create", p)

MoveIn(p) == /\ p \in MayMoveIn /\ Parent[p] \in exists
             /\ p \in Dir => p \notin exists
             /\ exists' = exists \cup {p}
             /\ UNCHANGED watched
             /\ Change("rename", p)

\* With a directory goes the kernel's watch of it, but not Registry.dirs.
Remove(p) == /\ p \in exists \cap MayRemove /\ Children(p) = {}
             /\ exists' = exists \ {p}
             /\ watched' = watched \ {p}
             /\ Change("remove", p)

\* Somebody reads a file, or the backend reports an error for a path.
Noise(kind, p) == /\ ops < MaxOps
                  /\ p \in exists \ {Top} /\ Parent[p] \in watched
                  /\ raw' = Append(raw, [kind |-> kind, path |-> p])
                  /\ ops' = ops + 1
                  /\ UNCHANGED <<exists, watched, registry, pc, current, stamp, pending, history>>

Tick == /\ \E s \in Slot : pending[s] \in 0 .. Quiet - 1 \/ since[s] # Quiet
        /\ stamp' = Older(stamp)
        /\ pending' = [s \in Slot |-> IF pending[s] = None THEN None ELSE Older(pending[s])]
        /\ since' = [s \in Slot |-> Older(since[s])]
        /\ UNCHANGED <<files, registry, pc, current, unseen, touched>>

(* --- the registry ------------------------------------------------------- *)

Walking == walker # None

\* start() registers every target; on_new_dir the new directory of an event.
BeginWalk(s) ==
  /\ pc \in {"start", "walk"} /\ ~Walking /\ s \in walks
  /\ walks' = walks \ {s}
  /\ walker' = s
  /\ stack' = {IF pc = "walk" THEN current.path
               ELSE IF s \in DirSlot THEN Target[s] ELSE Parent[Target[s]]}
  /\ UNCHANGED <<files, dirs, listing, pc, current, stamp, pending, history>>

\* Registry::watch_dir of the next directory on the stack.  The kernel refuses
\* one that is gone: on_new_dir gives the tree up, start() refuses to start.
WatchDir(d) ==
  LET known == d \in dirs
      ok == known \/ d \in exists
  IN  /\ Walking /\ listing = None /\ d \in stack
      /\ dirs' = IF ok THEN dirs \cup {d} ELSE dirs
      /\ watched' = IF ok /\ ~known THEN watched \cup {d} ELSE watched
      /\ listing' = IF ok /\ walker \in DirSlot THEN d ELSE None
      /\ stack' = IF ok THEN stack \ {d} ELSE {}
      /\ pc' = IF ~ok /\ pc = "start" THEN "refused" ELSE pc
      /\ UNCHANGED <<exists, raw, ops, walks, walker, current, stamp, pending, history>>

\* Mutant: a new directory is registered without the ones already in it.
DescendAtStart(s, d) ==
  {p \in Children(d) \cap Dir : pc = "start" /\ ~Ignored(s, p)}

\* ... and its subdirectories go on the stack, unless the slot ignores them.
Descend(s, d) == {p \in Children(d) \cap Dir : ~Ignored(s, p)}

ListDir == /\ Walking /\ listing # None
           /\ stack' = stack \cup Descend(walker, listing)
           /\ listing' = None
           /\ UNCHANGED <<files, dirs, walks, walker, pc, current, stamp, pending, history>>

EndWalk == /\ Walking /\ listing = None /\ stack = {} /\ pc # "refused"
           /\ walker' = None
           /\ UNCHANGED <<files, dirs, walks, stack, listing, pc, current, stamp, pending, history>>

\* The processes are spawned from here on, with the files as they are.
Started == /\ pc = "start" /\ walks = {} /\ ~Walking
           /\ pc' = "recv"
           /\ unseen' = {}
           /\ UNCHANGED <<files, registry, current, stamp, pending, touched, since>>

(* --- the watcher thread ------------------------------------------------- *)

\* Mutant: a rename into place counts as metadata.
IsChangeOfContent(kind) == kind \notin {"access", "rename"}

\* is_change: everything but accesses (and changes of metadata alone).
IsChange(kind) == kind # "access"

\* recv_timeout returned an event.  An access goes straight back to receiving,
\* without a look at what is due; an error does look.
Recv ==
  /\ pc = "recv" /\ raw # <<>>
  /\ raw' = Tail(raw)
  /\ current' = Head(raw)
  /\ stamp' = 0
  /\ LET e == Head(raw) IN
     /\ pc' = CASE e.kind = "error" -> "due"
                [] e.kind # "error" /\ IsChange(e.kind) -> "walk"
                [] OTHER -> "recv"
     /\ walks' = IF e.kind = "create" /\ e.path \in Dir \cap exists
                 THEN {s \in DirSlot : Covers(s, e.path)} ELSE {}
  /\ UNCHANGED <<exists, watched, ops, dirs, walker, stack, listing, pending, history>>

\* Mutant: only the first event of a burst sets the time.
ObserveOnce(s) == IF pending[s] = None THEN stamp ELSE pending[s]

\* Debouncer::observe
Observe(s) == stamp

ObserveAll ==
  /\ pc = "walk" /\ walks = {} /\ ~Walking
  /\ pending' = [s \in Slot |-> IF Matches(s, current.path) THEN Observe(s) ELSE pending[s]]
  /\ pc' = "due"
  /\ UNCHANGED <<files, registry, current, stamp, history>>

IsDue(s) == pending[s] = Quiet

TimedOut == /\ pc = "recv" /\ raw = <<>>
            /\ \E s \in Slot : IsDue(s)
            /\ pc' = "due"
            /\ UNCHANGED <<files, registry, current, stamp, pending, history>>

\* Debouncer::due: one Changed for every slot that has been quiet.
Due == /\ pc = "due"
       /\ pending' = [s \in Slot |-> IF IsDue(s) THEN None ELSE pending[s]]
       /\ unseen' = {s \in unseen : ~IsDue(s)}
       /\ pc' = "recv"
       /\ UNCHANGED <<files, registry, current, stamp, touched, since>>

Sends(s) == pending[s] # None /\ pending'[s] = None

(* --- the whole ---------------------------------------------------------- *)

Init ==
  /\ exists = AtStart /\ watched = {} /\ raw = <<>> /\ ops = 0
  /\ dirs = {} /\ walks = Slot /\ walker = None /\ stack = {} /\ listing = None
  /\ pc = "start" /\ current = None /\ stamp = 0
  /\ pending = [s \in Slot |-> None]
  /\ unseen = {} /\ touched = {} /\ since = [s \in Slot |-> Quiet]

Filesystem == \/ \E p \in Path \ {Top} : MkDir(p) \/ Write(p) \/ MoveIn(p) \/ Remove(p)
              \/ \E kind \in {"access", "error"}, p \in Path : Noise(kind, p)

Walk == \/ \E s \in Slot : BeginWalk(s)
        \/ \E d \in Dir : WatchDir(d)
        \/ ListDir
        \/ EndWalk

Watcher == Walk \/ Started \/ Recv \/ ObserveAll \/ TimedOut \/ Due

Next == Filesystem \/ Tick \/ Watcher

Spec == Init /\ [][Next]_vars

\* The watcher thread is never blocked for good, and time passes.
FairSpec == Spec /\ WF_vars(Watcher) /\ WF_vars(Tick)

(* --- what should hold --------------------------------------------------- *)

Idle == pc = "recv" /\ raw = <<>>

\* README "A directory is watched recursively", "A file is watched through its
\* directory": once the thread has caught up, the kernel watches every
\* directory that exists below a slot's target and that the slot does not
\* ignore, however its creation fell between registering and reading the
\* directory above it, and the directory of every file target.
TreeIsWatched ==
  Idle => \A s \in Slot, d \in Dir \cap exists :
            \/ s \in DirSlot /\ Concerns(s, d)
            \/ s \in FileSlot /\ d = Parent[Target[s]]
            => d \in watched

\* A slot is restarted for changes of what it watches only: an ignored
\* directory that another slot made the kernel watch stays quiet.
IgnoredStaysQuiet == \A s \in Slot : pending[s] # None => s \in touched

\* Every change of what a slot watches is followed by a Changed sent later,
\* also one in a new directory before the registry got to it: the restart
\* then finds the files as they are.
ChangeIsReported == \A s \in Slot : s \in unseen ~> s \notin unseen

\* A slot is restarted in the middle of a burst only if the thread is behind:
\* with nothing of the slot's on the channel, a Changed means that the last
\* change the kernel reported is a quiet period ago.
BurstIsOneRestart ==
  [][\A s \in Slot :
       /\ Sends(s)
       /\ \A i \in DOMAIN raw : ~Concerns(s, raw[i].path)
       => since[s] = Quiet]_vars
==============================================================================

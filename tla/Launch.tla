-------------------------------- MODULE Launch --------------------------------
(***************************************************************************)
(* What is decided before a socket or a terminal is touched: which         *)
(* Krawattefile an instance launches and a client talks to (main.rs        *)
(* resolve_launch, cli.rs project_dir_for, config.rs discover and load),   *)
(* whether the file is accepted (config.rs parse, watch.rs resolve_all),   *)
(* and which slots a SLOT argument addresses (control.rs resolve_slot).    *)
(*                                                                         *)
(* A directory is the sequence of its components.  A Krawattefile is named *)
(* by the directory it is found in: d stands for the path d/Krawattefile.  *)
(***************************************************************************)
EXTENDS Naturals, Sequences, FiniteSets

CONSTANTS
  Krawattefiles,  \* the directories with a Krawattefile
  RealDir,        \* where the file of a directory really is: itself, or what a symlink leads to
  NoFile,         \* no -f, or nothing discovered
  AllSlots,       \* the word "all"
  WellFormed,     \* names of letters, digits, `_` and `-`
  AllDigits,      \* names of digits only
  Number          \* [the names that parse as usize -> Nat]

\* A name of legal characters that parses as a number has digits only.
ASSUME NameAssumption ==
  /\ AllDigits \subseteq WellFormed
  /\ DOMAIN Number \cap WellFormed \subseteq AllDigits
  /\ AllSlots \notin DOMAIN Number
  /\ \A n \in DOMAIN Number : Number[n] \in Nat

ASSUME FileAssumption ==
  /\ NoFile \notin Krawattefiles
  /\ DOMAIN RealDir = Krawattefiles

------------------------------------------------------------------------------
(* Which project *)

Ancestors(d) == {SubSeq(d, 1, n) : n \in 0 .. Len(d)}

\* config::discover: the nearest directory, upwards, with a Krawattefile.
Discover(cwd) ==
  LET above == Ancestors(cwd) \cap Krawattefiles
  IN  IF above = {} THEN NoFile
      ELSE CHOOSE d \in above : \A e \in above : Len(e) <= Len(d)

\* The file -f names, else the one found from the working directory.
FileOf(place) == IF place.file # NoFile THEN place.file ELSE Discover(place.cwd)

\* An instance (resolve_launch, config::load): the directory of the file itself,
\* symlinks followed; the working directory when it runs commands ad hoc.
InstanceDir(launch) == IF launch.adhoc THEN launch.cwd ELSE RealDir[FileOf(launch)]

\* Mistake: the client looks only where it is.
ClientDirHere(place) == IF place.file # NoFile THEN RealDir[place.file] ELSE place.cwd

\* A client (project_dir_for): symlinks are followed for -f, but a discovered
\* file counts for the directory it was found in.
ClientDir(place) ==
  IF place.file # NoFile THEN RealDir[place.file]
  ELSE IF Discover(place.cwd) # NoFile THEN Discover(place.cwd)
  ELSE place.cwd

------------------------------------------------------------------------------
(* What a Krawattefile may say *)

\* shape: TOML that deserialises into RawFile.  found: every watch entry, or the
\* directory it is in, exists (for "self", the command's first token is a path).
RawProc == [name : STRING, cwdExists : BOOLEAN,
            watch : {"none", "self", "word", "paths"},
            found : BOOLEAN, globs : BOOLEAN]

RawFile == [shape : BOOLEAN, timeout : {"none", "negative", "given"}, procs : Seq(RawProc)]

\* Mistake: a name of digits is let through.
NameProblemLax(n) == n = AllSlots \/ n \notin WellFormed

\* config::name_problem.
NameProblem(n) ==
  \/ n = AllSlots
  \/ n \notin WellFormed
  \/ n \in AllDigits

IsDuplicate(raw, p) == \E q \in 1 .. p - 1 : raw.procs[q].name = raw.procs[p].name

\* config::parse: every problem at once, except that a shape error stops it.
ParseErrors(raw) ==
  IF ~raw.shape THEN {<<0, "shape">>}
  ELSE LET p(what, Bad(_)) == {<<i, what>> : i \in {j \in DOMAIN raw.procs : Bad(j)}}
       IN  {<<0, "timeout">> : t \in {raw.timeout} \cap {"negative"}}
             \cup {<<0, "no proc">> : n \in {Len(raw.procs)} \cap {0}}
             \cup p("name", LAMBDA i : NameProblem(raw.procs[i].name))
             \cup p("duplicate", LAMBDA i : IsDuplicate(raw, i))
             \cup p("cwd", LAMBDA i : ~raw.procs[i].cwdExists)
             \cup p("watch word", LAMBDA i : raw.procs[i].watch = "word")

\* watch::resolve_all, which only sees a file that parsed.
ResolveErrors(raw) ==
  {<<i, "watch path">> : i \in {j \in DOMAIN raw.procs :
                                 raw.procs[j].watch # "none" /\ ~raw.procs[j].found}}
  \cup {<<i, "ignore">> : i \in {j \in DOMAIN raw.procs :
                                  raw.procs[j].watch # "none" /\ ~raw.procs[j].globs}}

Accepted(raw) == ParseErrors(raw) = {} /\ ResolveErrors(raw) = {}

\* resolve_launch: does this launch give an instance, or exit 2?  The shell
\* commands of an ad-hoc launch are taken as they are.
Launchable(launch) ==
  \/ launch.adhoc
  \/ FileOf(launch) \in Krawattefiles /\ Accepted(launch.raw)

\* The names of the slots: those of the file, or the basenames of the commands.
Names(launch) == [p \in DOMAIN launch.raw.procs |-> launch.raw.procs[p].name]

------------------------------------------------------------------------------
(* Which slots *)

\* control::resolve_slot: `all`, a 1-based index, the first slot of that name;
\* the empty set is the refusal.
ResolveSlot(names, slot) ==
  IF slot = AllSlots THEN DOMAIN names
  ELSE IF slot \in DOMAIN Number THEN {Number[slot]} \cap DOMAIN names
  ELSE {p \in DOMAIN names : names[p] = slot /\ \A q \in 1 .. p - 1 : names[q] # slot}

\* Every slot of an accepted Krawattefile answers to its name, and no other slot
\* does: `krawatte stop web` never stops another slot, or two (config.rs:304-321,
\* 203-208 against control.rs:206-227).
NamesAreAddresses(names) == \A p \in DOMAIN names : ResolveSlot(names, names[p]) = {p}
==============================================================================

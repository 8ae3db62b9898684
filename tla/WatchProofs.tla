----------------------------- MODULE WatchProofs ------------------------------
(***************************************************************************)
(* Restart on change, for any tree of directories, any slots with any      *)
(* targets and ignore patterns, and any quiet period.                      *)
(***************************************************************************)
EXTENDS Watch, SequenceTheorems, TLAPS

------------------------------------------------------------------------------
(* The tree: what is shown of Components by the way up from every path *)

\* The recursion of Components is well-founded.
LEMMA ComponentsIs ==
  /\ Components \in [Path -> SUBSET Path]
  /\ Components[Top] = {Top}
  /\ \A p \in Path \ {Top} : /\ Parent[p] \in Path
                             /\ Components[p] = {p} \cup Components[Parent[p]]
  <1> DEFINE Up(S) == \A r \in S \ {Top} : Parent[r] \in S
             C == [p \in Path |-> {q \in Path : \A S \in SUBSET Path : p \in S /\ Up(S) => q \in S}]
  <1>1. Top \in Path /\ \A p \in Path \ {Top} : Parent[p] \in Path
    BY TreeAssumption DEF Path
  <1>2. C[Top] = {Top}
    <2>1. {Top} \in SUBSET Path /\ Up({Top})
      BY <1>1
    <2>2. \A q \in C[Top] : q \in {Top}
      BY <1>1, <2>1
    <2>3. Top \in C[Top]
      BY <1>1
    <2> HIDE DEF C
    <2> QED
      BY <2>2, <2>3
  <1>3. ASSUME NEW p \in Path \ {Top}
        PROVE  C[p] = {p} \cup C[Parent[p]]
    <2> DEFINE U == {p} \cup C[Parent[p]]
    <2>1. Parent[p] \in Path
      BY <1>1
    <2>2. U \in SUBSET Path
      BY <2>1
    <2>3. \A r \in C[Parent[p]] \ {Top} : Parent[r] \in C[Parent[p]]
      BY <1>1, <2>1
    <2>4. Parent[p] \in C[Parent[p]]
      BY <2>1
    <2>5. Up(U)
      BY <2>3, <2>4
    <2>6. \A q \in C[p] : q \in U
      <3>1. p \in U
        OBVIOUS
      <3> HIDE DEF U, Up
      <3> QED
        BY <2>2, <2>5, <3>1
    <2>7. \A q \in C[Parent[p]] : q \in C[p]
      <3> SUFFICES ASSUME NEW q \in C[Parent[p]], NEW S \in SUBSET Path, p \in S, Up(S)
                   PROVE  q \in S
        BY <2>1
      <3>1. Parent[p] \in S
        OBVIOUS
      <3> QED
        BY <2>1, <3>1
    <2>8. p \in C[p]
      OBVIOUS
    <2> HIDE DEF C
    <2> QED
      BY <2>6, <2>7, <2>8
  <1>4. C \in [Path -> SUBSET Path]
    OBVIOUS
  <1> HIDE DEF C
  <1>5. C = [p \in Path |-> IF p = Top THEN {Top} ELSE {p} \cup C[Parent[p]]]
    <2>1. C = [p \in Path |-> C[p]]
      BY <1>4
    <2>2. \A p \in Path : C[p] = IF p = Top THEN {Top} ELSE {p} \cup C[Parent[p]]
      BY <1>2, <1>3
    <2> QED
      BY <2>1, <2>2
  <1>6. Components = [p \in Path |-> IF p = Top THEN {Top} ELSE {p} \cup Components[Parent[p]]]
    BY <1>5 DEF Components
  <1> HIDE DEF Components
  <1>7. \A p \in Path : Components[p] = IF p = Top THEN {Top} ELSE {p} \cup Components[Parent[p]]
    BY <1>6
  <1>8. \A p \in Path : Components[p] \in SUBSET Path
    <2> DEFINE B == {p \in Path : Components[p] \notin SUBSET Path}
    <2>1. Top \notin B
      <3>1. Components[Top] = {Top} /\ {Top} \in SUBSET Path
        BY <1>1, <1>7
      <3> QED
        BY <3>1
    <2>2. \A p \in B \ {Top} : Parent[p] \in B
      BY <1>1, <1>7
    <2>3. B = {}
      <3> HIDE DEF B
      <3>1. B \in SUBSET Path
        BY DEF B
      <3> QED
        BY <2>1, <2>2, <3>1, TreeAssumption
    <2> QED
      BY <2>3
  <1>9. Components \in [Path -> SUBSET Path]
    BY <1>6, <1>8
  <1> QED
    BY <1>1, <1>7, <1>9

LEMMA SelfIsComponent == \A p \in Path : p \in Components[p]
  BY ComponentsIs

LEMMA UnderIsTransitive ==
  \A p \in Path : \A q \in Components[p] : Components[q] \subseteq Components[p]
  <1> DEFINE B == {p \in Path : \E q \in Components[p] : ~(Components[q] \subseteq Components[p])}
  <1>1. Top \notin B
    BY ComponentsIs
  <1>2. \A p \in B \ {Top} : Parent[p] \in B
    BY ComponentsIs
  <1>3. B = {}
    <2> HIDE DEF B
    <2>1. B \in SUBSET Path
      BY DEF B
    <2> QED
      BY <1>1, <1>2, <2>1, TreeAssumption
  <1> QED
    BY <1>3

LEMMA UnderIsLinear ==
  \A p \in Path : \A q, r \in Components[p] : q \in Components[r] \/ r \in Components[q]
  <1> DEFINE B == {p \in Path : \E q, r \in Components[p] : q \notin Components[r] /\ r \notin Components[q]}
  <1>1. Top \notin B
    BY ComponentsIs
  <1>2. \A p \in B \ {Top} : Parent[p] \in B
    BY ComponentsIs
  <1>3. B = {}
    <2> HIDE DEF B
    <2>1. B \in SUBSET Path
      BY DEF B
    <2> QED
      BY <1>1, <1>2, <2>1, TreeAssumption
  <1> QED
    BY <1>3

LEMMA UnderIsStrict ==
  \A p \in Path \ {Top} : p \notin Components[Parent[p]]
  <1> SUFFICES ASSUME NEW p \in Path \ {Top}, p \in Components[Parent[p]] PROVE FALSE
    OBVIOUS
  <1> DEFINE S == {r \in Components[p] : p \in Components[r]}
  <1>1. S \in SUBSET Path /\ p \in S
    BY ComponentsIs
  <1>2. Top \notin S
    BY ComponentsIs
  <1>3. ASSUME NEW r \in S \ {Top} PROVE Parent[r] \in S
    <2>1. r \in Path \ {Top} /\ Parent[r] \in Path /\ Parent[r] \in Components[r]
      BY <1>1, ComponentsIs
    <2>2. Parent[r] \in Components[p]
      BY <2>1, UnderIsTransitive
    <2>3. p \in Components[Parent[r]]
      BY <2>1, ComponentsIs
    <2> QED
      BY <2>2, <2>3
  <1> HIDE DEF S
  <1> QED
    BY <1>1, <1>2, <1>3, TreeAssumption

LEMMA UnderIsOneWay ==
  \A p \in Path : \A q \in Components[p] : p \in Components[q] => p = q
  <1> SUFFICES ASSUME NEW p \in Path, NEW q \in Components[p], p \in Components[q], p # q
               PROVE  FALSE
    OBVIOUS
  <1>1. p # Top /\ q \in Components[Parent[p]] /\ Parent[p] \in Path
    BY ComponentsIs
  <1>2. p \in Components[Parent[p]]
    BY <1>1, UnderIsTransitive
  <1> QED
    BY <1>1, <1>2, UnderIsStrict

\* Between a path and a directory above it is a child of that directory.
LEMMA ChildBetween ==
  \A p \in Path : \A a \in Components[p] :
    a # p => \E c \in Components[p] \ {Top} : Parent[c] = a
  <1> DEFINE B == {p \in Path : \E a \in Components[p] :
                     a # p /\ \A c \in Components[p] \ {Top} : Parent[c] # a}
  <1>1. Top \notin B
    BY ComponentsIs
  <1>2. \A p \in B \ {Top} : Parent[p] \in B
    BY ComponentsIs
  <1>3. B = {}
    <2> HIDE DEF B
    <2>1. B \in SUBSET Path
      BY DEF B
    <2> QED
      BY <1>1, <1>2, <2>1, TreeAssumption
  <1> QED
    BY <1>3

\* ignored() looks at the components below the target: what the code matches
\* and registers is what README promises.
LEMMA MatchesIsConcerns ==
  ASSUME NEW s \in Slot, NEW p \in Path
  PROVE  /\ Matches(s, p) <=> Concerns(s, p)
         /\ s \in DirSlot => (Covers(s, p) <=> Concerns(s, p))
  <1>1. Target[s] \in Path /\ (s \in FileSlot <=> s \notin DirSlot)
    BY SlotAssumption DEF Slot
  <1>2. s \in DirSlot => (Covers(s, p) <=> Concerns(s, p))
    <2> SUFFICES ASSUME s \in DirSlot PROVE Covers(s, p) <=> Concerns(s, p)
      OBVIOUS
    <2> DEFINE t == Target[s]
    <2> SUFFICES ASSUME t \in Components[p]
                 PROVE  (Components[p] \ Components[t]) \cap Ignore[s] = {}
                        <=> \A q \in Ignore[s] : t \in Components[q] /\ q # t => q \notin Components[p]
      BY <1>1 DEF Covers, Concerns, Under, Ignored
    <2>1. ASSUME NEW q \in Components[p]
          PROVE  q \notin Components[t] <=> t \in Components[q] /\ q # t
      <3>1. q \in Path
        BY ComponentsIs
      <3>2. t \in Components[q] \/ q \in Components[t]
        BY UnderIsLinear
      <3> QED
        BY <1>1, <3>1, <3>2, UnderIsOneWay, SelfIsComponent
    <2> QED
      BY <2>1
  <1>3. Matches(s, p) <=> Concerns(s, p)
    BY <1>1, <1>2 DEF Matches, Concerns, Covers
  <1> QED
    BY <1>2, <1>3

------------------------------------------------------------------------------
(* The invariants *)

WatchType ==
  /\ exists \in SUBSET Path /\ Top \in exists
  /\ \A p \in exists \ {Top} : Parent[p] \in exists
  /\ watched \in SUBSET Dir /\ dirs \in SUBSET Dir
  /\ raw \in Seq(Event)
  /\ pc \in {"start", "refused", "recv", "walk", "due"}
  /\ pc = "walk" => current \in Event
  /\ walks \in SUBSET Slot
  /\ walker \in Slot \cup {None}
  /\ stack \in SUBSET Dir /\ listing \in Dir \cup {None}
  /\ stamp \in 0 .. Quiet
  /\ pending \in [Slot -> (0 .. Quiet) \cup {None}]
  /\ since \in [Slot -> 0 .. Quiet]
  /\ touched \in SUBSET Slot

\* The registry works for start() or for one event, one tree at a time.
WalksInTurn ==
  /\ ~Walking => stack = {} /\ listing = None
  /\ pc \in {"recv", "due"} => walks = {} /\ ~Walking
  /\ pc = "walk" /\ walks # {} => current.path \in Dir
  /\ pc = "walk" => walks \subseteq DirSlot /\ walker \in DirSlot \cup {None}

\* A change, not an access or an error.
IsReport(e) == e.kind \notin {"access", "error"}

\* Whoever a change concerns has been touched.
ReportsAreReal ==
  /\ \A i \in DOMAIN raw : IsReport(raw[i]) =>
       \A s \in Slot : Concerns(s, raw[i].path) => s \in touched
  /\ pc = "walk" => \A s \in Slot : Concerns(s, current.path) => s \in touched

\* A change of the slot's is on the channel.
Told(s) == \E i \in DOMAIN raw : IsReport(raw[i]) /\ Concerns(s, raw[i].path)

\* No slot has waited longer than its last change is old.
AgesAreRight ==
  \A s \in Slot : ~Told(s) =>
    /\ stamp <= since[s]
    /\ ~(pc = "walk" /\ Concerns(s, current.path)) =>
         pending[s] = None \/ pending[s] <= since[s]

WatchInv == WatchType /\ WalksInTurn /\ ReportsAreReal /\ IgnoredStaysQuiet /\ AgesAreRight

\* No directory is removed or renamed into place: of these two the registry
\* is not told.
DirectoriesStay == (MayRemove \cup MayMoveIn) \cap Dir = {}

\* A walk of s starts at the next directory it has to come to, a.
Awaits(s, a) ==
  \/ walker = s /\ (a \in stack \/ (a # Top /\ Parent[a] = listing))
  \/ pc = "start" /\ s \in walks
  \/ pc = "walk" /\ s \in walks /\ current.path = a
  \/ \E i \in DOMAIN raw : raw[i].kind = "create" /\ raw[i].path = a

Root(s) == IF s \in DirSlot THEN Target[s] ELSE Parent[Target[s]]

\* What is not watched yet is below a directory that a walk will come to.
TreeIsReached ==
  pc # "refused" =>
    \A s \in DirSlot : \A d \in Dir \cap exists : Concerns(s, d) =>
      d \in watched \/ \E a \in Components[d] : Under(a, Target[s]) /\ Awaits(s, a)

RootsAreWatched ==
  pc # "refused" =>
    \A s \in Slot :
      \/ Root(s) \in watched
      \/ pc = "start" /\ s \in walks
      \/ walker = s /\ Root(s) \in stack

TreeInv ==
  /\ watched = dirs /\ watched \subseteq exists
  /\ pc = "walk" => stack \subseteq exists /\ (walks # {} => current.path \in exists)
  /\ RootsAreWatched
  /\ TreeIsReached

------------------------------------------------------------------------------
(* The filesystem *)

\* An event joins the channel.
LEMMA RawGrows ==
  ASSUME NEW q \in Seq(Event), NEW e \in Event
  PROVE  /\ Append(q, e) \in Seq(Event)
         /\ DOMAIN Append(q, e) = 1 .. Len(q) + 1 /\ DOMAIN q = 1 .. Len(q) /\ Len(q) \in Nat
         /\ \A i \in DOMAIN q : i \in DOMAIN Append(q, e) /\ Append(q, e)[i] = q[i]
         /\ \A i \in DOMAIN Append(q, e) :
              (i \in DOMAIN q /\ Append(q, e)[i] = q[i]) \/ Append(q, e)[i] = e
         /\ \E i \in DOMAIN Append(q, e) : Append(q, e)[i] = e
  <1>1. /\ Append(q, e) \in Seq(Event) /\ Len(Append(q, e)) = Len(q) + 1
        /\ \A i \in 1 .. Len(q) : Append(q, e)[i] = q[i]
        /\ Append(q, e)[Len(q) + 1] = e
    BY AppendProperties
  <1>2. /\ DOMAIN Append(q, e) = 1 .. Len(q) + 1 /\ DOMAIN q = 1 .. Len(q) /\ Len(q) \in Nat
    BY <1>1, LenProperties
  <1> HIDE DEF Event
  <1> QED
    BY <1>1, <1>2

\* An event leaves the channel.
LEMMA EventTail ==
  ASSUME NEW q \in Seq(Event), q # <<>>
  PROVE  /\ Head(q) = q[1] /\ 1 \in DOMAIN q /\ Head(q) \in Event /\ Tail(q) \in Seq(Event)
         /\ \A i \in DOMAIN Tail(q) : i + 1 \in DOMAIN q /\ Tail(q)[i] = q[i + 1]
         /\ \A i \in DOMAIN q : i = 1 \/ \E j \in DOMAIN Tail(q) : Tail(q)[j] = q[i]
  <1>1. /\ Head(q) = q[1] /\ Tail(q) \in Seq(Event) /\ Len(Tail(q)) = Len(q) - 1
        /\ \A i \in 1 .. Len(Tail(q)) : Tail(q)[i] = q[i + 1]
    BY HeadTailProperties
  <1>2. /\ DOMAIN q = 1 .. Len(q) /\ Len(q) \in Nat \ {0}
        /\ DOMAIN Tail(q) = 1 .. Len(q) - 1
    BY <1>1, LenProperties, EmptySeq
  <1>3. 1 \in DOMAIN q /\ q[1] \in Event
    BY <1>2, ElementOfSeq
  <1>4. ASSUME NEW i \in DOMAIN q, i # 1
        PROVE  \E j \in DOMAIN Tail(q) : Tail(q)[j] = q[i]
    <2>1. i - 1 \in DOMAIN Tail(q) /\ (i - 1) + 1 = i
      BY <1>2, <1>4
    <2> QED
      BY <1>1, <1>2, <2>1
  <1> QED
    BY <1>1, <1>2, <1>3, <1>4

\* What the four operations have in common.
LEMMA OperationIs ==
  ASSUME WatchInv, NEW p \in Path \ {Top}, MkDir(p) \/ Write(p) \/ MoveIn(p) \/ Remove(p)
  PROVE  /\ \E kind \in Kind \ {"access", "error"} :
              Change(kind, p) /\ (MkDir(p) => kind = "create")
         /\ exists' \in SUBSET Path /\ Top \in exists'
         /\ \A q \in exists' \ {Top} : Parent[q] \in exists'
         /\ watched' \in SUBSET Dir
         /\ DirectoriesStay =>
              /\ watched' = watched
              /\ exists' \cap Dir = exists \cap Dir \/ (MkDir(p) /\ exists' = exists \cup {p} /\ p \in Dir)
              /\ \A d \in Dir \cap exists : d \in exists'
  <1>1. /\ exists \in SUBSET Path /\ Top \in exists /\ watched \in SUBSET Dir
        /\ \A q \in exists \ {Top} : Parent[q] \in exists
    BY DEF WatchInv, WatchType
  <1>2. CASE MkDir(p)
    <2>1. /\ p \in Dir /\ exists' = exists \cup {p} /\ watched' = watched
          /\ Change("create", p) /\ Parent[p] \in exists
      BY <1>2 DEF MkDir
    <2>2. "create" \in Kind \ {"access", "error"}
      BY DEF Kind
    <2> HIDE DEF Kind
    <2> QED
      BY <1>1, <1>2, <2>1, <2>2
  <1>3. CASE Write(p)
    <2>1. /\ p \in File /\ exists' = exists \cup {p} /\ watched' = watched
          /\ Change("create", p) \/ Change("modify", p)
          /\ Parent[p] \in exists
      BY <1>3 DEF Write
    <2>2. {"create", "modify"} \subseteq Kind \ {"access", "error"}
      BY DEF Kind
    <2>3. ~MkDir(p) /\ p \notin Dir /\ Parent[p] \in exists
      BY <1>3, <2>1, TreeAssumption DEF MkDir, Write
    <2> HIDE DEF Kind
    <2> QED
      BY <1>1, <2>1, <2>2, <2>3
  <1>4. CASE MoveIn(p)
    <2>1. /\ p \in MayMoveIn /\ exists' = exists \cup {p} /\ watched' = watched
          /\ Change("rename", p) /\ Parent[p] \in exists
      BY <1>4 DEF MoveIn
    <2>2. "rename" \in Kind \ {"access", "error"}
      BY DEF Kind
    <2>3. CASE MkDir(p)
      BY <1>2, <2>3
    <2>4. CASE ~MkDir(p)
      <3>1. DirectoriesStay => p \notin Dir
        BY <2>1 DEF DirectoriesStay
      <3> HIDE DEF Kind
      <3> QED
        BY <1>1, <2>1, <2>2, <2>4, <3>1
    <2> QED
      BY <2>3, <2>4
  <1>5. CASE Remove(p)
    <2>1. /\ p \in MayRemove /\ exists' = exists \ {p} /\ watched' = watched \ {p}
          /\ Change("remove", p) /\ Children(p) = {}
      BY <1>5 DEF Remove
    <2>2. "remove" \in Kind \ {"access", "error"}
      BY DEF Kind
    <2>3. \A q \in exists' \ {Top} : Parent[q] \in exists'
      BY <1>1, <2>1 DEF Children
    <2>4. CASE MkDir(p)
      BY <1>2, <2>4
    <2>5. CASE ~MkDir(p)
      <3>1. DirectoriesStay => p \notin Dir
        BY <2>1 DEF DirectoriesStay
      <3> HIDE DEF Kind
      <3> QED
        BY <1>1, <2>1, <2>2, <2>3, <2>5, <3>1
    <2> QED
      BY <2>4, <2>5
  <1> QED
    BY <1>2, <1>3, <1>4, <1>5

LEMMA ChangeKeeps ==
  ASSUME WatchInv, NEW p \in Path \ {Top}, MkDir(p) \/ Write(p) \/ MoveIn(p) \/ Remove(p)
  PROVE  WatchInv'
  <1>1. /\ exists' \in SUBSET Path /\ Top \in exists'
        /\ \A q \in exists' \ {Top} : Parent[q] \in exists'
        /\ watched' \in SUBSET Dir
    BY OperationIs
  <1>2. PICK kind \in Kind \ {"access", "error"} : Change(kind, p)
    BY OperationIs
  <1> DEFINE e == [kind |-> kind, path |-> p]
             mine == {s \in Slot : Concerns(s, p)}
             told == Parent[p] \in watched \/ (kind = "remove" /\ p \in watched)
  <1>3. /\ raw' = IF told THEN Append(raw, e) ELSE raw
        /\ touched' = touched \cup mine
        /\ since' = [s \in Slot |-> IF told /\ s \in mine THEN 0 ELSE since[s]]
        /\ UNCHANGED <<dirs, walks, walker, stack, listing, pc, current, stamp, pending>>
    BY <1>2 DEF Change, registry
  <1>4. e \in Event /\ IsReport(e) /\ e.path = p
    BY <1>2 DEF Event, IsReport
  <1>5. raw \in Seq(Event) /\ touched \in SUBSET Slot /\ since \in [Slot -> 0 .. Quiet]
    BY DEF WatchInv, WatchType
  <1> HIDE DEF e, told
  <1>6. /\ raw' \in Seq(Event)
        /\ \A i \in DOMAIN raw : i \in DOMAIN raw' /\ raw'[i] = raw[i]
        /\ \A i \in DOMAIN raw' : (i \in DOMAIN raw /\ raw'[i] = raw[i]) \/ raw'[i] = e
        /\ told => \E i \in DOMAIN raw' : raw'[i] = e
    <2>1. CASE told
      <3>1. raw' = Append(raw, e)
        BY <1>3, <2>1
      <3> QED
        BY <1>4, <1>5, <2>1, <3>1, RawGrows
    <2>2. CASE ~told
      BY <1>3, <1>5, <2>2
    <2> QED
      BY <2>1, <2>2
  <1>7. WatchType'
    <2>1. since' \in [Slot -> 0 .. Quiet] /\ touched' \in SUBSET Slot
      BY <1>3, <1>5, BoundAssumption
    <2> QED
      BY <1>1, <1>3, <1>6, <2>1 DEF WatchInv, WatchType
  <1>8. WalksInTurn'
    BY <1>3 DEF WatchInv, WalksInTurn, Walking
  <1>9. ReportsAreReal'
    <2>1. ASSUME NEW i \in DOMAIN raw', IsReport(raw'[i]), NEW s \in Slot, Concerns(s, raw'[i].path)
          PROVE  s \in touched'
      <3>1. CASE i \in DOMAIN raw /\ raw'[i] = raw[i]
        BY <1>3, <2>1, <3>1 DEF WatchInv, ReportsAreReal
      <3>2. CASE raw'[i] = e
        BY <1>3, <1>4, <2>1, <3>2
      <3> QED
        BY <1>6, <3>1, <3>2
    <2> QED
      BY <1>3, <2>1 DEF WatchInv, ReportsAreReal
  <1>10. IgnoredStaysQuiet'
    BY <1>3 DEF WatchInv, IgnoredStaysQuiet
  <1>11. AgesAreRight'
    <2> SUFFICES ASSUME NEW s \in Slot, ~Told(s)'
                 PROVE  /\ stamp <= since'[s]
                        /\ ~(pc = "walk" /\ Concerns(s, current.path)) =>
                             pending[s] = None \/ pending[s] <= since'[s]
      BY <1>3 DEF AgesAreRight
    <2>1. ~Told(s)
      BY <1>6 DEF Told
    <2>2. ~(told /\ s \in mine)
      BY <1>4, <1>6 DEF Told
    <2>3. since'[s] = since[s]
      BY <1>3, <2>2
    <2> QED
      BY <2>1, <2>3 DEF WatchInv, AgesAreRight
  <1> QED
    BY <1>7, <1>8, <1>9, <1>10, <1>11 DEF WatchInv

LEMMA NoiseKeeps ==
  ASSUME WatchInv, NEW kind \in {"access", "error"}, NEW p \in Path, Noise(kind, p)
  PROVE  WatchInv'
  <1> DEFINE e == [kind |-> kind, path |-> p]
  <1>1. /\ raw' = Append(raw, e)
        /\ UNCHANGED <<exists, watched, dirs, walks, walker, stack, listing, pc, current, stamp,
                       pending, unseen, touched, since>>
    BY DEF Noise, registry, history
  <1>2. e \in Event /\ ~IsReport(e)
    BY DEF Event, IsReport, Kind
  <1>3. raw \in Seq(Event)
    BY DEF WatchInv, WatchType
  <1> HIDE DEF e
  <1>4. /\ raw' \in Seq(Event)
        /\ \A i \in DOMAIN raw : i \in DOMAIN raw' /\ raw'[i] = raw[i]
        /\ \A i \in DOMAIN raw' : (i \in DOMAIN raw /\ raw'[i] = raw[i]) \/ raw'[i] = e
    BY <1>1, <1>2, <1>3, RawGrows
  <1>5. WatchType' /\ WalksInTurn' /\ IgnoredStaysQuiet'
    BY <1>1, <1>4 DEF WatchInv, WatchType, WalksInTurn, IgnoredStaysQuiet, Walking
  <1>6. ReportsAreReal'
    BY <1>1, <1>2, <1>4 DEF WatchInv, ReportsAreReal
  <1>7. AgesAreRight'
    <2>1. \A s \in Slot : Told(s)' <=> Told(s)
      BY <1>2, <1>4 DEF Told
    <2> QED
      BY <1>1, <2>1 DEF WatchInv, AgesAreRight
  <1> QED
    BY <1>5, <1>6, <1>7 DEF WatchInv

LEMMA TickKeeps ==
  ASSUME WatchInv, Tick
  PROVE  WatchInv'
  <1>1. /\ stamp' = Older(stamp)
        /\ pending' = [s \in Slot |-> IF pending[s] = None THEN None ELSE Older(pending[s])]
        /\ since' = [s \in Slot |-> Older(since[s])]
        /\ UNCHANGED <<exists, watched, raw, dirs, walks, walker, stack, listing, pc, current,
                       unseen, touched>>
    BY DEF Tick, files, registry
  <1>2. /\ stamp \in 0 .. Quiet /\ pending \in [Slot -> (0 .. Quiet) \cup {None}]
        /\ since \in [Slot -> 0 .. Quiet] /\ None \notin 0 .. Quiet
    BY NoneAssumption, BoundAssumption DEF WatchInv, WatchType
  <1>3. \A a, b \in 0 .. Quiet : Older(a) \in 0 .. Quiet /\ (a <= b => Older(a) <= Older(b))
    BY BoundAssumption DEF Older
  <1>4. \A s \in Slot :
          /\ since'[s] = Older(since[s]) /\ since[s] \in 0 .. Quiet
          /\ pending[s] = None => pending'[s] = None
          /\ pending[s] # None => pending[s] \in 0 .. Quiet /\ pending'[s] = Older(pending[s])
    BY <1>1, <1>2
  <1>5. WatchType'
    <2>1. stamp' \in 0 .. Quiet
      BY <1>1, <1>2, <1>3
    <2>2. since' \in [Slot -> 0 .. Quiet]
      BY <1>1, <1>2, <1>3
    <2>3. pending' \in [Slot -> (0 .. Quiet) \cup {None}]
      <3> HIDE DEF Older
      <3> QED
        BY <1>1, <1>2, <1>3
    <2> QED
      BY <1>1, <2>1, <2>2, <2>3 DEF WatchInv, WatchType
  <1>6. WalksInTurn' /\ ReportsAreReal'
    BY <1>1 DEF WatchInv, WalksInTurn, ReportsAreReal, Walking
  <1>7. IgnoredStaysQuiet'
    <2>1. \A s \in Slot : pending'[s] # None => pending[s] # None
      BY <1>4
    <2> QED
      BY <1>1, <2>1 DEF WatchInv, IgnoredStaysQuiet
  <1>8. AgesAreRight'
    <2>1. \A s \in Slot : Told(s)' <=> Told(s)
      BY <1>1 DEF Told
    <2> SUFFICES ASSUME NEW s \in Slot, ~Told(s)
                 PROVE  /\ stamp' <= since'[s]
                        /\ ~(pc = "walk" /\ Concerns(s, current.path)) =>
                             pending'[s] = None \/ pending'[s] <= since'[s]
      BY <1>1, <2>1 DEF AgesAreRight
    <2>2. /\ stamp <= since[s]
          /\ ~(pc = "walk" /\ Concerns(s, current.path)) =>
               pending[s] = None \/ pending[s] <= since[s]
      BY DEF WatchInv, AgesAreRight
    <2>3. stamp' <= since'[s]
      BY <1>1, <1>2, <1>3, <1>4, <2>2
    <2>4. ASSUME pending[s] = None \/ pending[s] <= since[s]
          PROVE  pending'[s] = None \/ pending'[s] <= since'[s]
      <3>1. CASE pending[s] = None
        BY <1>4, <3>1
      <3>2. CASE pending[s] # None
        BY <1>3, <1>4, <2>4, <3>2
      <3> QED
        BY <3>1, <3>2
    <2> QED
      BY <2>2, <2>3, <2>4
  <1> QED
    BY <1>5, <1>6, <1>7, <1>8 DEF WatchInv

------------------------------------------------------------------------------
(* The watcher thread *)

\* A walk concerns the directories only.
LEMMA WalkKeeps ==
  ASSUME WatchInv, Walk
  PROVE  WatchInv'
  <1>1. /\ UNCHANGED <<exists, raw, current, stamp, pending, unseen, touched, since>>
        /\ pc' = pc \/ (pc' = "refused" /\ pc = "start")
    <2>1. CASE \E s \in Slot : BeginWalk(s)
      BY <2>1 DEF BeginWalk, files, history
    <2>2. CASE \E d \in Dir : WatchDir(d)
      BY <2>2 DEF WatchDir, history
    <2>3. CASE ListDir \/ EndWalk
      BY <2>3 DEF ListDir, EndWalk, files, history
    <2> QED
      BY <2>1, <2>2, <2>3 DEF Walk
  <1>2. /\ watched \in SUBSET Dir /\ dirs \in SUBSET Dir /\ walks \in SUBSET Slot
        /\ walker \in Slot \cup {None} /\ stack \in SUBSET Dir /\ listing \in Dir \cup {None}
        /\ pc = "walk" => current \in Event
        /\ WalksInTurn
    BY DEF WatchInv, WatchType
  <1>3. None \notin Slot /\ None \notin Dir
    BY NoneAssumption DEF Path
  <1> DEFINE Good ==
        /\ watched' \in SUBSET Dir /\ dirs' \in SUBSET Dir /\ walks' \in SUBSET Slot
        /\ walker' \in Slot \cup {None} /\ stack' \in SUBSET Dir /\ listing' \in Dir \cup {None}
        /\ WalksInTurn'
  <1>4. Good
    <2>1. ASSUME NEW s \in Slot, BeginWalk(s)
          PROVE  Good
      <3>1. /\ pc \in {"start", "walk"} /\ ~Walking /\ s \in walks /\ walks' = walks \ {s} /\ walker' = s
            /\ stack' = {IF pc = "walk" THEN current.path
                         ELSE IF s \in DirSlot THEN Target[s] ELSE Parent[Target[s]]}
            /\ UNCHANGED <<watched, dirs, listing, pc, current>>
        BY <2>1 DEF BeginWalk, files
      <3>2. stack' \in SUBSET Dir
        <4>1. s \in DirSlot => Target[s] \in Dir
          BY SlotAssumption
        <4>2. s \notin DirSlot => Target[s] \in Path \ {Top}
          BY SlotAssumption, TreeAssumption DEF Slot, Path
        <4>3. s \notin DirSlot => Parent[Target[s]] \in Dir
          BY <4>2, TreeAssumption
        <4>4. pc = "walk" => current.path \in Dir
          BY <1>2, <3>1 DEF WalksInTurn
        <4> QED
          BY <3>1, <4>1, <4>3, <4>4
      <3>3. WalksInTurn'
        BY <1>2, <1>3, <3>1 DEF WalksInTurn, Walking
      <3> QED
        BY <1>2, <3>1, <3>2, <3>3
    <2>2. ASSUME NEW d \in Dir, WatchDir(d)
          PROVE  Good
      <3>1. /\ walker # None /\ listing = None /\ UNCHANGED <<walks, walker, current>>
            /\ dirs' \in {dirs, dirs \cup {d}} /\ watched' \in {watched, watched \cup {d}}
            /\ listing' \in {None, d} /\ stack' \in {{}, stack \ {d}}
            /\ pc' = pc \/ pc' = "refused"
        BY <2>2 DEF WatchDir, Walking
      <3>2. WalksInTurn'
        BY <1>2, <3>1 DEF WalksInTurn, Walking
      <3> QED
        BY <1>2, <3>1, <3>2
    <2>3. ASSUME ListDir
          PROVE  Good
      <3>1. /\ walker # None /\ UNCHANGED <<watched, dirs, walks, walker, pc, current>>
            /\ stack' = stack \cup Descend(walker, listing) /\ listing' = None
        BY <2>3 DEF ListDir, Walking, files
      <3>2. WalksInTurn'
        BY <1>2, <3>1 DEF WalksInTurn, Walking
      <3>3. Descend(walker, listing) \subseteq Dir
        BY DEF Descend
      <3> QED
        BY <1>2, <3>1, <3>2, <3>3
    <2>4. ASSUME EndWalk
          PROVE  Good
      <3>1. /\ walker' = None /\ stack = {} /\ listing = None
            /\ UNCHANGED <<watched, dirs, walks, stack, listing, pc, current>>
        BY <2>4 DEF EndWalk, files
      <3>2. WalksInTurn'
        BY <1>2, <3>1 DEF WalksInTurn, Walking
      <3> QED
        BY <1>2, <3>1, <3>2
    <2> QED
      BY <2>1, <2>2, <2>3, <2>4 DEF Walk
  <1>5. WatchType'
    BY <1>1, <1>4 DEF WatchInv, WatchType
  <1>6. ReportsAreReal' /\ IgnoredStaysQuiet'
    BY <1>1 DEF WatchInv, ReportsAreReal, IgnoredStaysQuiet
  <1>7. AgesAreRight'
    <2>1. \A s \in Slot : Told(s)' <=> Told(s)
      BY <1>1 DEF Told
    <2> QED
      BY <1>1, <2>1 DEF WatchInv, AgesAreRight
  <1> QED
    BY <1>4, <1>5, <1>6, <1>7 DEF WatchInv

\* An event leaves the channel.
LEMMA RecvKeeps ==
  ASSUME WatchInv, Recv
  PROVE  WatchInv'
  <1> DEFINE e == Head(raw)
  <1>1. /\ pc = "recv" /\ raw # <<>> /\ raw' = Tail(raw) /\ current' = e /\ stamp' = 0
        /\ pc' = CASE e.kind = "error" -> "due"
                   [] e.kind # "error" /\ IsChange(e.kind) -> "walk"
                   [] OTHER -> "recv"
        /\ walks' = IF e.kind = "create" /\ e.path \in Dir \cap exists
                    THEN {s \in DirSlot : Covers(s, e.path)} ELSE {}
        /\ UNCHANGED <<exists, watched, dirs, walker, stack, listing, pending, unseen, touched, since>>
    BY DEF Recv, history
  <1>2. /\ raw \in Seq(Event) /\ ~Walking /\ walker = None
        /\ since \in [Slot -> 0 .. Quiet]
    BY <1>1 DEF WatchInv, WatchType, WalksInTurn, Walking
  <1>3. /\ e = raw[1] /\ 1 \in DOMAIN raw /\ e \in Event /\ raw' \in Seq(Event)
        /\ \A i \in DOMAIN raw' : i + 1 \in DOMAIN raw /\ raw'[i] = raw[i + 1]
        /\ \A i \in DOMAIN raw : i = 1 \/ \E j \in DOMAIN raw' : raw'[j] = raw[i]
    BY <1>1, <1>2, EventTail
  <1> HIDE DEF e
  <1>4. /\ pc' = "walk" <=> IsReport(e)
        /\ pc' \in {"recv", "walk", "due"}
        /\ walks' \subseteq DirSlot /\ (walks' # {} => pc' = "walk" /\ e.path \in Dir)
    BY <1>1 DEF IsReport, IsChange
  <1>5. WatchType'
    <2>1. walks' \in SUBSET Slot
      BY <1>4 DEF Slot
    <2>2. stamp' \in 0 .. Quiet
      BY <1>1, BoundAssumption
    <2> QED
      BY <1>1, <1>3, <1>4, <2>1, <2>2 DEF WatchInv, WatchType
  <1>6. WalksInTurn'
    BY <1>1, <1>2, <1>4 DEF WatchInv, WalksInTurn, Walking
  <1>7. ReportsAreReal'
    <2>1. ASSUME NEW i \in DOMAIN raw', IsReport(raw'[i]), NEW s \in Slot, Concerns(s, raw'[i].path)
          PROVE  s \in touched
      BY <1>3, <2>1 DEF WatchInv, ReportsAreReal
    <2>2. ASSUME IsReport(e), NEW s \in Slot, Concerns(s, e.path)
          PROVE  s \in touched
      BY <1>3, <2>2 DEF WatchInv, ReportsAreReal
    <2> QED
      BY <1>1, <1>4, <2>1, <2>2 DEF ReportsAreReal
  <1>8. IgnoredStaysQuiet'
    BY <1>1 DEF WatchInv, IgnoredStaysQuiet
  <1>9. AgesAreRight'
    <2> SUFFICES ASSUME NEW s \in Slot, ~Told(s)'
                 PROVE  /\ stamp' <= since[s]
                        /\ ~(pc' = "walk" /\ Concerns(s, e.path)) =>
                             pending[s] = None \/ pending[s] <= since[s]
      BY <1>1 DEF AgesAreRight
    <2>1. stamp' <= since[s]
      BY <1>1, <1>2
    <2>2. ASSUME ~(pc' = "walk" /\ Concerns(s, e.path))
          PROVE  pending[s] = None \/ pending[s] <= since[s]
      <3>1. ~Told(s)
        BY <1>3, <1>4, <2>2 DEF Told
      <3> QED
        BY <1>1, <3>1 DEF WatchInv, AgesAreRight
    <2> QED
      BY <2>1, <2>2
  <1> QED
    BY <1>5, <1>6, <1>7, <1>8, <1>9 DEF WatchInv

\* The debouncer takes the time of the event for every slot it concerns.
LEMMA ObserveKeeps ==
  ASSUME WatchInv, ObserveAll
  PROVE  WatchInv'
  <1>1. /\ pc = "walk" /\ walks = {} /\ ~Walking /\ pc' = "due"
        /\ pending' = [s \in Slot |-> IF Matches(s, current.path) THEN stamp ELSE pending[s]]
        /\ UNCHANGED <<exists, watched, raw, dirs, walks, walker, stack, listing, current, stamp,
                       unseen, touched, since>>
    BY DEF ObserveAll, Observe, files, registry, history
  <1>2. /\ pending \in [Slot -> (0 .. Quiet) \cup {None}] /\ stamp \in 0 .. Quiet
        /\ current.path \in Path
    BY <1>1 DEF WatchInv, WatchType, Event
  <1>3. \A s \in Slot : pending'[s] = IF Concerns(s, current.path) THEN stamp ELSE pending[s]
    BY <1>1, <1>2, MatchesIsConcerns
  <1>4. WatchType'
    <2>1. pending' \in [Slot -> (0 .. Quiet) \cup {None}]
      BY <1>1, <1>2
    <2> QED
      BY <1>1, <2>1 DEF WatchInv, WatchType
  <1>5. WalksInTurn' /\ ReportsAreReal'
    BY <1>1 DEF WatchInv, WalksInTurn, ReportsAreReal, Walking
  <1>6. IgnoredStaysQuiet'
    BY <1>1, <1>3 DEF WatchInv, IgnoredStaysQuiet, ReportsAreReal
  <1>7. AgesAreRight'
    <2>1. \A s \in Slot : Told(s)' <=> Told(s)
      BY <1>1 DEF Told
    <2> QED
      BY <1>1, <1>3, <2>1 DEF WatchInv, AgesAreRight
  <1> QED
    BY <1>4, <1>5, <1>6, <1>7 DEF WatchInv

\* What is due is sent and forgotten.
LEMMA OthersKeep ==
  ASSUME WatchInv, Started \/ TimedOut \/ Due \/ UNCHANGED vars
  PROVE  WatchInv'
  <1>1. /\ UNCHANGED <<exists, watched, raw, dirs, walks, walker, stack, listing, current, stamp,
                       touched, since>>
        /\ pending' \in [Slot -> (0 .. Quiet) \cup {None}]
        /\ \A s \in Slot : pending'[s] \in {None, pending[s]}
        /\ pc' = pc \/ (pc # "walk" /\ pc' \in {"recv", "due"} /\ walks = {} /\ ~Walking)
    <2>1. pending \in [Slot -> (0 .. Quiet) \cup {None}]
      BY DEF WatchInv, WatchType
    <2>2. CASE Started
      BY <2>1, <2>2 DEF Started, files, registry
    <2>3. CASE TimedOut
      BY <2>1, <2>3 DEF TimedOut, files, registry, history, WatchInv, WalksInTurn
    <2>4. CASE Due
      BY <2>1, <2>4 DEF Due, files, registry, WatchInv, WalksInTurn
    <2>5. CASE UNCHANGED vars
      BY <2>1, <2>5 DEF vars, files, registry, history
    <2> QED
      BY <2>2, <2>3, <2>4, <2>5
  <1>2. WatchType'
    BY <1>1 DEF WatchInv, WatchType
  <1>3. WalksInTurn' /\ ReportsAreReal'
    BY <1>1 DEF WatchInv, WalksInTurn, ReportsAreReal, Walking
  <1>4. IgnoredStaysQuiet'
    BY <1>1 DEF WatchInv, IgnoredStaysQuiet
  <1>5. AgesAreRight'
    <2>1. \A s \in Slot : Told(s)' <=> Told(s)
      BY <1>1 DEF Told
    <2> QED
      BY <1>1, <2>1 DEF WatchInv, AgesAreRight
  <1> QED
    BY <1>2, <1>3, <1>4, <1>5 DEF WatchInv

LEMMA WatchInit == Init => WatchInv
  <1> SUFFICES ASSUME Init PROVE WatchInv
    OBVIOUS
  <1>1. <<>> \in Seq(Event) /\ DOMAIN <<>> = {}
    OBVIOUS
  <1>2. WatchType
    BY <1>1, StartAssumption, BoundAssumption DEF Init, WatchType
  <1>3. WalksInTurn /\ IgnoredStaysQuiet
    BY DEF Init, WalksInTurn, IgnoredStaysQuiet
  <1>4. ReportsAreReal
    BY <1>1 DEF Init, ReportsAreReal
  <1>5. AgesAreRight
    BY BoundAssumption DEF Init, AgesAreRight
  <1> QED
    BY <1>2, <1>3, <1>4, <1>5 DEF WatchInv

LEMMA WatchStep == WatchInv /\ [Next]_vars => WatchInv'
  <1> SUFFICES ASSUME WatchInv, [Next]_vars PROVE WatchInv'
    OBVIOUS
  <1>1. CASE Filesystem
    BY <1>1, ChangeKeeps, NoiseKeeps DEF Filesystem
  <1>2. CASE Tick
    BY <1>2, TickKeeps
  <1>3. CASE Watcher
    BY <1>3, WalkKeeps, RecvKeeps, ObserveKeeps, OthersKeep DEF Watcher
  <1>4. CASE UNCHANGED vars
    BY <1>4, OthersKeep
  <1> QED
    BY <1>1, <1>2, <1>3, <1>4 DEF Next

LEMMA WatchInvariance == Spec => []WatchInv
  BY WatchInit, WatchStep, PTL DEF Spec

\* A slot waits for a restart only if something it watches has changed: what
\* it ignores stays quiet, whoever made the kernel watch it (watch.rs ignored,
\* matches and observe), for any tree, targets and patterns.
THEOREM IgnoredAlwaysQuiet == Spec => []IgnoredStaysQuiet
  BY WatchInvariance, PTL DEF WatchInv

\* A Changed in the middle of a burst means that the thread is behind: else
\* the last change is a quiet period ago (watch.rs due), for any quiet period.
THEOREM BurstsAreOneRestart == Spec => BurstIsOneRestart
  <1> DEFINE Late(s) == /\ Sends(s)
                        /\ \A i \in DOMAIN raw : ~Concerns(s, raw[i].path)
  <1>1. ASSUME WatchInv, [Next]_vars, NEW s \in Slot, Late(s)
        PROVE  since[s] = Quiet
    <2>1. pending[s] # None /\ pending'[s] = None
      BY <1>1 DEF Sends
    <2>2. /\ stamp \in 0 .. Quiet /\ None \notin 0 .. Quiet
          /\ pending \in [Slot -> (0 .. Quiet) \cup {None}] /\ since[s] \in 0 .. Quiet
      BY <1>1, NoneAssumption, BoundAssumption DEF WatchInv, WatchType
    <2>3. ~Told(s)
      BY <1>1 DEF Told
    <2>4. CASE Due
      <3>1. pc = "due" /\ pending[s] = Quiet
        BY <2>1, <2>2, <2>4 DEF Due, IsDue
      <3>2. Quiet <= since[s]
        BY <1>1, <2>1, <2>3, <3>1 DEF WatchInv, AgesAreRight
      <3> QED
        BY <2>2, <3>2, BoundAssumption
    <2>5. CASE ~Due
      <3>1. CASE Tick
        <4>1. \A a \in 0 .. Quiet : Older(a) \in 0 .. Quiet
          BY BoundAssumption DEF Older
        <4>2. pending'[s] = Older(pending[s])
          BY <2>1, <3>1 DEF Tick
        <4> QED
          BY <2>1, <2>2, <4>1, <4>2
      <3>2. CASE ObserveAll
        <4>1. pending'[s] \in {stamp, pending[s]}
          BY <3>2 DEF ObserveAll, Observe
        <4> QED
          BY <2>1, <2>2, <4>1
      <3>3. CASE ~Tick /\ ~ObserveAll
        <4>1. Next => UNCHANGED pending
          BY <2>5, <3>3 DEF Next, Filesystem, MkDir, Write, MoveIn, Remove, Change, Noise, Watcher,
            Walk, BeginWalk, WatchDir, ListDir, EndWalk, Started, Recv, TimedOut, history
        <4> QED
          BY <1>1, <2>1, <4>1 DEF vars
      <3> QED
        BY <3>1, <3>2, <3>3
    <2> QED
      BY <2>4, <2>5
  <1>2. WatchInv /\ [Next]_vars => [\A s \in Slot : Late(s) => since[s] = Quiet]_vars
    BY <1>1
  <1> QED
    BY <1>2, WatchInvariance, PTL DEF Spec, BurstIsOneRestart

------------------------------------------------------------------------------
(* The registry *)

\* What is above an existing path exists, and is a directory.
LEMMA AboveExists ==
  ASSUME WatchInv, NEW p \in exists, NEW a \in Components[p]
  PROVE  p \in Path /\ a \in exists /\ (a = p \/ a \in Dir)
  <1>1. exists \in SUBSET Path /\ \A q \in exists \ {Top} : Parent[q] \in exists
    BY DEF WatchInv, WatchType
  <1> DEFINE B == {q \in exists : \E b \in Components[q] : b \notin exists \/ (b # q /\ b \notin Dir)}
  <1>2. Top \notin B
    BY <1>1, ComponentsIs
  <1>3. \A q \in B \ {Top} : Parent[q] \in B
    <2> SUFFICES ASSUME NEW q \in B \ {Top} PROVE Parent[q] \in B
      OBVIOUS
    <2>1. q \in Path \ {Top} /\ Parent[q] \in exists /\ Parent[q] \in Dir
      BY <1>1, TreeAssumption
    <2>2. PICK b \in Components[q] : b \notin exists \/ (b # q /\ b \notin Dir)
      OBVIOUS
    <2>3. b \in Components[Parent[q]] /\ (b \notin exists \/ (b # Parent[q] /\ b \notin Dir))
      BY <1>1, <2>1, <2>2, ComponentsIs
    <2> QED
      BY <2>1, <2>3
  <1>4. B = {}
    <2> HIDE DEF B
    <2>1. B \in SUBSET Path
      BY <1>1 DEF B
    <2> QED
      BY <1>2, <1>3, <2>1, TreeAssumption
  <1> QED
    BY <1>1, <1>4

\* Between a slot's target and a directory it watches nothing is ignored.
LEMMA ConcernsAbove ==
  ASSUME NEW s \in DirSlot, NEW d \in Path, Concerns(s, d),
         NEW a \in Components[d], Under(a, Target[s])
  PROVE  Concerns(s, a) /\ a \in Path
  <1>1. s \in Slot /\ s \notin FileSlot /\ a \in Path
    BY SlotAssumption, ComponentsIs DEF Slot
  <1>2. Components[a] \subseteq Components[d]
    BY UnderIsTransitive
  <1> QED
    BY <1>1, <1>2 DEF Concerns, Under

\* A directory and its target: what is under what.
LEMMA TargetIs ==
  ASSUME NEW s \in DirSlot
  PROVE  /\ s \in Slot /\ s \notin FileSlot /\ Target[s] \in Dir /\ Target[s] \in Path
         /\ Root(s) = Target[s] /\ Under(Target[s], Target[s])
         /\ \A d \in Path : Concerns(s, d) => Target[s] \in Components[d]
  BY SlotAssumption, SelfIsComponent DEF Slot, Root, Under, Concerns

\* Whatever happens to files, or is heard: the registry's share stays.
LEMMA ReachStays ==
  ASSUME WatchInv, TreeInv,
         UNCHANGED <<watched, walks, walker, stack, listing, pc, current>>,
         \A i \in DOMAIN raw : \E j \in DOMAIN raw' : raw'[j] = raw[i]
  PROVE  /\ RootsAreWatched'
         /\ \A s, a : Awaits(s, a) => Awaits(s, a)'
  <1>1. RootsAreWatched'
    BY DEF TreeInv, RootsAreWatched
  <1>2. \A s, a : Awaits(s, a) => Awaits(s, a)'
    BY DEF Awaits
  <1> QED
    BY <1>1, <1>2

\* A directory made: its own event, or the walk that will come by, finds it.
LEMMA ChangeReaches ==
  ASSUME WatchInv, TreeInv, DirectoriesStay,
         NEW p \in Path \ {Top}, MkDir(p) \/ Write(p) \/ MoveIn(p) \/ Remove(p)
  PROVE  TreeInv'
  <1>1. /\ watched' = watched
        /\ exists' \cap Dir = exists \cap Dir \/ (MkDir(p) /\ exists' = exists \cup {p} /\ p \in Dir)
        /\ \A d \in Dir \cap exists : d \in exists'
    BY OperationIs
  <1>2. PICK kind \in Kind \ {"access", "error"} : Change(kind, p) /\ (MkDir(p) => kind = "create")
    BY OperationIs
  <1> DEFINE e == [kind |-> kind, path |-> p]
             told == Parent[p] \in watched \/ (kind = "remove" /\ p \in watched)
  <1>3. /\ raw' = IF told THEN Append(raw, e) ELSE raw
        /\ UNCHANGED <<dirs, walks, walker, stack, listing, pc, current>>
    BY <1>2 DEF Change, registry
  <1>4. e \in Event /\ e.kind = kind /\ e.path = p
    BY <1>2 DEF Event
  <1>5. raw \in Seq(Event) /\ stack \subseteq Dir /\ (pc = "walk" => current \in Event)
        /\ (pc = "walk" /\ walks # {} => current.path \in Dir) /\ watched \subseteq Dir
    BY DEF WatchInv, WatchType, WalksInTurn
  <1> HIDE DEF e
  <1>6. /\ \A i \in DOMAIN raw : \E j \in DOMAIN raw' : raw'[j] = raw[i]
        /\ told => \E i \in DOMAIN raw' : raw'[i] = e
    <2>1. CASE told
      <3>1. raw' = Append(raw, e)
        BY <1>3, <2>1
      <3> HIDE DEF told
      <3> QED
        BY <1>4, <1>5, <3>1, RawGrows
    <2>2. CASE ~told
      BY <1>3, <2>2
    <2> QED
      BY <2>1, <2>2
  <1>7. RootsAreWatched' /\ \A s, a : Awaits(s, a) => Awaits(s, a)'
    BY <1>1, <1>3, <1>6, ReachStays
  <1>8. /\ watched' = dirs' /\ watched' \subseteq exists'
        /\ pc' = "walk" => stack' \subseteq exists' /\ (walks' # {} => current'.path \in exists')
    BY <1>1, <1>3, <1>5 DEF TreeInv
  <1>9. TreeIsReached'
    <2> SUFFICES ASSUME pc # "refused", NEW s \in DirSlot, NEW d \in Dir \cap exists', Concerns(s, d)
                 PROVE  d \in watched \/ \E a \in Components[d] : Under(a, Target[s]) /\ Awaits(s, a)'
      BY <1>1, <1>3 DEF TreeIsReached
    <2>1. CASE d \in exists
      BY <1>7, <2>1 DEF TreeInv, TreeIsReached
    <2>2. CASE d \notin exists
      <3>1. MkDir(p) /\ d = p /\ kind = "create" /\ Parent[p] \in exists
        BY <1>1, <1>2, <2>2 DEF MkDir
      <3>2. d \in Path /\ p \in Components[p]
        BY SelfIsComponent DEF Path
      <3>3. CASE d = Target[s]
        <4>1. Root(s) = Target[s] /\ Under(d, Target[s]) /\ s \in Slot
          BY <3>3, TargetIs
        <4>2. Root(s) \notin watched
          BY <2>2, <3>3, <4>1 DEF TreeInv
        <4>3. Awaits(s, d)
          BY <3>3, <4>1, <4>2 DEF TreeInv, RootsAreWatched, Awaits
        <4> QED
          BY <1>7, <3>1, <3>2, <4>1, <4>3
      <3>4. CASE d # Target[s]
        <4> DEFINE u == Parent[p]
        <4>1. u \in Path /\ u \in Dir /\ u \in Components[p] /\ Components[u] \subseteq Components[p]
          BY ComponentsIs, TreeAssumption, UnderIsTransitive, SelfIsComponent
        <4>2. Under(u, Target[s])
          BY <3>1, <3>2, <3>4, TargetIs, ComponentsIs DEF Under
        <4>3. Concerns(s, u)
          BY <3>1, <3>2, <4>1, <4>2, ConcernsAbove
        <4>4. CASE u \in watched
          <5>1. PICK i \in DOMAIN raw' : raw'[i] = e
            BY <1>6, <4>4
          <5>2. Awaits(s, p)'
            BY <1>4, <3>1, <5>1 DEF Awaits
          <5>3. Under(p, Target[s])
            BY <3>1, <3>2, TargetIs DEF Under
          <5> QED
            BY <3>1, <3>2, <5>2, <5>3
        <4>5. CASE u \notin watched
          <5>1. PICK a \in Components[u] : Under(a, Target[s]) /\ Awaits(s, a)
            BY <3>1, <4>1, <4>3, <4>5 DEF TreeInv, TreeIsReached
          <5> QED
            BY <1>7, <3>1, <4>1, <5>1
        <4> QED
          BY <4>4, <4>5
      <3> QED
        BY <3>3, <3>4
    <2> QED
      BY <2>1, <2>2
  <1> QED
    BY <1>7, <1>8, <1>9 DEF TreeInv

\* What neither walks nor makes a directory: the registry's share stays.
LEMMA OthersReach ==
  ASSUME WatchInv, TreeInv,
         UNCHANGED <<exists, watched, dirs, walks, walker, stack, listing>>,
         \/ UNCHANGED <<pc, current>>
         \/ walks = {} /\ pc # "refused" /\ pc' \in {"recv", "due"},
         \A i \in DOMAIN raw : \E j \in DOMAIN raw' : raw'[j] = raw[i]
  PROVE  TreeInv'
  <1>1. pc' # "refused" => pc # "refused"
    OBVIOUS
  <1>2. \A s, a : Awaits(s, a) => Awaits(s, a)'
    BY DEF Awaits
  <1>3. /\ watched' = dirs' /\ watched' \subseteq exists'
        /\ pc' = "walk" => stack' \subseteq exists' /\ (walks' # {} => current'.path \in exists')
    BY DEF TreeInv
  <1>4. RootsAreWatched'
    BY <1>1 DEF TreeInv, RootsAreWatched
  <1>5. TreeIsReached'
    BY <1>1, <1>2 DEF TreeInv, TreeIsReached, Slot
  <1> QED
    BY <1>3, <1>4, <1>5 DEF TreeInv

LEMMA NoiseReaches ==
  ASSUME WatchInv, TreeInv, NEW kind \in {"access", "error"}, NEW p \in Path, Noise(kind, p)
  PROVE  TreeInv'
  <1> DEFINE e == [kind |-> kind, path |-> p]
  <1>1. /\ raw' = Append(raw, e)
        /\ UNCHANGED <<exists, watched, dirs, walks, walker, stack, listing, pc, current>>
    BY DEF Noise, registry
  <1>2. e \in Event
    BY DEF Event, Kind
  <1>3. raw \in Seq(Event)
    BY DEF WatchInv, WatchType
  <1> HIDE DEF e
  <1>4. \A i \in DOMAIN raw : \E j \in DOMAIN raw' : raw'[j] = raw[i]
    BY <1>1, <1>2, <1>3, RawGrows
  <1> QED
    BY <1>1, <1>4, OthersReach

LEMMA QuietReaches ==
  ASSUME WatchInv, TreeInv, Tick \/ ObserveAll \/ Started \/ TimedOut \/ Due \/ UNCHANGED vars
  PROVE  TreeInv'
  <1> DEFINE Same == UNCHANGED <<exists, watched, raw, dirs, walks, walker, stack, listing>>
             Moves == \/ UNCHANGED <<pc, current>>
                      \/ walks = {} /\ pc # "refused" /\ pc' \in {"recv", "due"}
  <1>1. CASE Tick
    BY <1>1, OthersReach DEF Tick, files, registry
  <1>2. CASE ObserveAll
    BY <1>2, OthersReach DEF ObserveAll, files, registry
  <1>3. CASE Started
    BY <1>3, OthersReach DEF Started, files, registry
  <1>4. CASE TimedOut
    BY <1>4, OthersReach DEF TimedOut, files, registry, WatchInv, WalksInTurn
  <1>5. CASE Due
    BY <1>5, OthersReach DEF Due, files, registry, WatchInv, WalksInTurn
  <1>6. CASE UNCHANGED vars
    BY <1>6, OthersReach DEF vars, files, registry
  <1> QED
    BY <1>1, <1>2, <1>3, <1>4, <1>5, <1>6

\* The event of a new directory leaves the channel and its walks are due.
LEMMA RecvReaches ==
  ASSUME WatchInv, TreeInv, Recv
  PROVE  TreeInv'
  <1> DEFINE e == Head(raw)
  <1>1. /\ pc = "recv" /\ raw # <<>> /\ raw' = Tail(raw) /\ current' = e
        /\ pc' = CASE e.kind = "error" -> "due"
                   [] e.kind # "error" /\ IsChange(e.kind) -> "walk"
                   [] OTHER -> "recv"
        /\ walks' = IF e.kind = "create" /\ e.path \in Dir \cap exists
                    THEN {s \in DirSlot : Covers(s, e.path)} ELSE {}
        /\ UNCHANGED <<exists, watched, dirs, walker, stack, listing>>
    BY DEF Recv
  <1>2. raw \in Seq(Event) /\ walker = None /\ stack = {}
    BY <1>1 DEF WatchInv, WatchType, WalksInTurn, Walking
  <1>3. /\ e = raw[1] /\ e \in Event
        /\ \A i \in DOMAIN raw : i = 1 \/ \E j \in DOMAIN raw' : raw'[j] = raw[i]
    BY <1>1, <1>2, EventTail
  <1> HIDE DEF e
  <1>4. /\ pc' # "refused" /\ (e.kind = "create" => pc' = "walk")
        /\ walks' # {} => e.path \in exists
    BY <1>1 DEF IsChange
  <1>5. None \notin Slot
    BY NoneAssumption
  <1>6. /\ watched' = dirs' /\ watched' \subseteq exists'
        /\ pc' = "walk" => stack' \subseteq exists' /\ (walks' # {} => current'.path \in exists')
    BY <1>1, <1>2, <1>4 DEF TreeInv
  <1>7. RootsAreWatched'
    BY <1>1, <1>2, <1>5 DEF TreeInv, RootsAreWatched, Root
  <1>8. TreeIsReached'
    <2> SUFFICES ASSUME NEW s \in DirSlot, NEW d \in Dir \cap exists, Concerns(s, d), d \notin watched
                 PROVE  \E a \in Components[d] : Under(a, Target[s]) /\ Awaits(s, a)'
      BY <1>1 DEF TreeIsReached
    <2>1. PICK a \in Components[d] : Under(a, Target[s]) /\ Awaits(s, a)
      BY <1>1 DEF TreeInv, TreeIsReached
    <2>2. PICK i \in DOMAIN raw : raw[i].kind = "create" /\ raw[i].path = a
      BY <1>1, <1>2, <1>5, <2>1, TargetIs DEF Awaits
    <2>3. CASE i = 1
      <3>1. e.kind = "create" /\ e.path = a
        BY <1>3, <2>2, <2>3
      <3>2. a \in exists /\ a \in Dir /\ a \in Path
        BY AboveExists DEF Path
      <3>3. Concerns(s, a) /\ s \in Slot
        BY <2>1, <3>2, ConcernsAbove, TargetIs DEF Path
      <3>4. Covers(s, a)
        BY <3>2, <3>3, MatchesIsConcerns
      <3>5. s \in walks' /\ pc' = "walk" /\ current'.path = a
        BY <1>1, <1>4, <3>1, <3>2, <3>4
      <3> QED
        BY <2>1, <3>5 DEF Awaits
    <2>4. CASE i # 1
      <3>1. Awaits(s, a)'
        BY <1>3, <2>2, <2>4 DEF Awaits
      <3> QED
        BY <2>1, <3>1
    <2> QED
      BY <2>3, <2>4
  <1> QED
    BY <1>6, <1>7, <1>8 DEF TreeInv

\* A walk begins at the target, or at the directory its event is about.
LEMMA BeginReaches ==
  ASSUME WatchInv, TreeInv, NEW s \in Slot, BeginWalk(s)
  PROVE  TreeInv'
  <1>1. /\ pc \in {"start", "walk"} /\ walker = None /\ listing = None /\ s \in walks
        /\ walks' = walks \ {s} /\ walker' = s
        /\ pc = "walk" => stack' = {current.path}
        /\ pc = "start" => stack' = {Root(s)}
        /\ UNCHANGED <<exists, watched, raw, dirs, listing, pc, current>>
    BY DEF WatchInv, WalksInTurn, BeginWalk, Walking, files, Root
  <1>2. None \notin Slot
    BY NoneAssumption
  <1>3. /\ watched' = dirs' /\ watched' \subseteq exists'
        /\ pc' = "walk" => stack' \subseteq exists' /\ (walks' # {} => current'.path \in exists')
    BY <1>1 DEF TreeInv
  <1>4. RootsAreWatched'
    BY <1>1, <1>2 DEF TreeInv, RootsAreWatched, Root
  <1>5. TreeIsReached'
    <2> SUFFICES ASSUME NEW q \in DirSlot, NEW d \in Dir \cap exists, Concerns(q, d), d \notin watched
                 PROVE  \E a \in Components[d] : Under(a, Target[q]) /\ Awaits(q, a)'
      BY <1>1 DEF TreeIsReached
    <2>1. PICK a \in Components[d] : Under(a, Target[q]) /\ Awaits(q, a)
      BY <1>1 DEF TreeInv, TreeIsReached
    <2>2. CASE q = s /\ pc = "start"
      <3>1. Target[q] \in Components[d] /\ Root(q) = Target[q] /\ Under(Target[q], Target[q])
        BY TargetIs DEF Path
      <3>2. Awaits(q, Target[q])'
        BY <1>1, <2>2, <3>1 DEF Awaits
      <3> QED
        BY <3>1, <3>2
    <2>3. CASE ~(q = s /\ pc = "start")
      <3>1. Awaits(q, a)'
        BY <1>1, <1>2, <2>1, <2>3, TargetIs DEF Awaits
      <3> QED
        BY <2>1, <3>1
    <2> QED
      BY <2>2, <2>3
  <1> QED
    BY <1>3, <1>4, <1>5 DEF TreeInv

\* A directory is registered before it is read: what comes to be in it in
\* between is found by the reading, or reported, or both.
LEMMA WatchDirReaches ==
  ASSUME WatchInv, TreeInv, NEW d \in Dir, WatchDir(d)
  PROVE  TreeInv'
  <1>1. /\ walker # None /\ listing = None /\ d \in stack
        /\ UNCHANGED <<exists, raw, walks, walker, current>>
    BY DEF WatchDir, Walking
  <1>2. /\ pc \in {"start", "refused", "recv", "walk", "due"}
        /\ pc \in {"recv", "due"} => walker = None
    BY DEF WatchInv, WatchType, WalksInTurn, Walking
  <1>3. CASE d \in exists
    <2>1. /\ pc' = pc /\ watched' = watched \cup {d} /\ dirs' = watched'
          /\ stack' = stack \ {d} /\ (walker \in DirSlot => listing' = d)
      BY <1>3 DEF WatchDir, TreeInv
    <2>2. /\ watched' = dirs' /\ watched' \subseteq exists'
          /\ pc' = "walk" => stack' \subseteq exists' /\ (walks' # {} => current'.path \in exists')
      BY <1>1, <1>3, <2>1 DEF TreeInv
    <2>3. RootsAreWatched'
      BY <1>1, <2>1 DEF TreeInv, RootsAreWatched, Root
    <2>4. TreeIsReached'
      <3> SUFFICES ASSUME pc # "refused", NEW s \in DirSlot, NEW x \in Dir \cap exists,
                          Concerns(s, x), x \notin watched, x # d
                   PROVE  \E a \in Components[x] : Under(a, Target[s]) /\ Awaits(s, a)'
        BY <1>1, <2>1 DEF TreeIsReached
      <3>1. PICK a \in Components[x] : Under(a, Target[s]) /\ Awaits(s, a)
        BY DEF TreeInv, TreeIsReached
      <3>2. x \in Path /\ a \in Path
        BY ComponentsIs DEF Path
      <3>3. ~(a # Top /\ Parent[a] = listing)
        BY <1>1, <3>2, TreeAssumption, NoneAssumption DEF Path
      <3>4. CASE walker = s /\ a = d
        <4>1. PICK c \in Components[x] \ {Top} : Parent[c] = d
          BY <3>1, <3>2, <3>4, ChildBetween
        <4>2. c \in Path /\ d \in Components[c]
          BY <3>2, <4>1, ComponentsIs, SelfIsComponent
        <4>3. Under(c, Target[s])
          BY <3>1, <3>4, <4>2, UnderIsTransitive DEF Under
        <4>4. Awaits(s, c)'
          BY <1>1, <2>1, <3>4, <4>1 DEF Awaits
        <4> QED
          BY <4>1, <4>3, <4>4
      <3>5. CASE ~(walker = s /\ a = d)
        <4>1. Awaits(s, a)'
          BY <1>1, <2>1, <3>1, <3>3, <3>5 DEF Awaits
        <4> QED
          BY <3>1, <4>1
      <3> QED
        BY <3>4, <3>5
    <2> QED
      BY <2>2, <2>3, <2>4 DEF TreeInv
  <1>4. CASE d \notin exists
    <2>1. d \notin dirs /\ pc # "walk"
      BY <1>1, <1>4 DEF TreeInv
    <2>2. pc' = "refused" /\ UNCHANGED <<watched, dirs>>
      BY <1>1, <1>2, <1>4, <2>1 DEF WatchDir
    <2> QED
      BY <1>1, <2>2 DEF TreeInv, RootsAreWatched, TreeIsReached
  <1> QED
    BY <1>3, <1>4

\* Whatever of the slot's is in the directory goes on the stack.
LEMMA ListDirReaches ==
  ASSUME WatchInv, TreeInv, ListDir
  PROVE  TreeInv'
  <1>1. /\ walker # None /\ listing # None
        /\ stack' = stack \cup Descend(walker, listing) /\ listing' = None
        /\ UNCHANGED <<exists, watched, raw, dirs, walks, walker, pc, current>>
    BY DEF ListDir, Walking, files
  <1>2. Descend(walker, listing) \subseteq exists
    BY DEF Descend, Children
  <1>3. /\ watched' = dirs' /\ watched' \subseteq exists'
        /\ pc' = "walk" => stack' \subseteq exists' /\ (walks' # {} => current'.path \in exists')
    BY <1>1, <1>2 DEF TreeInv
  <1>4. RootsAreWatched'
    BY <1>1 DEF TreeInv, RootsAreWatched, Root
  <1>5. TreeIsReached'
    <2> SUFFICES ASSUME pc # "refused", NEW s \in DirSlot, NEW d \in Dir \cap exists, Concerns(s, d), d \notin watched
                 PROVE  \E a \in Components[d] : Under(a, Target[s]) /\ Awaits(s, a)'
      BY <1>1 DEF TreeIsReached
    <2>1. PICK a \in Components[d] : Under(a, Target[s]) /\ Awaits(s, a)
      BY DEF TreeInv, TreeIsReached
    <2>2. a \in exists /\ a \in Dir /\ a \in Path /\ d \in Path
      BY AboveExists DEF Path
    <2>3. ~Ignored(s, a)
      <3>1. Concerns(s, a) /\ s \in Slot
        BY <2>1, <2>2, ConcernsAbove, TargetIs
      <3> QED
        BY <2>2, <3>1, MatchesIsConcerns DEF Covers
    <2>4. Awaits(s, a)'
      <3>1. CASE walker = s /\ a # Top /\ Parent[a] = listing
        <4>1. a \in Descend(walker, listing)
          BY <2>2, <2>3, <3>1 DEF Descend, Children
        <4> QED
          BY <1>1, <3>1, <4>1 DEF Awaits
      <3>2. CASE ~(walker = s /\ a # Top /\ Parent[a] = listing)
        BY <1>1, <2>1, <3>2 DEF Awaits
      <3> QED
        BY <3>1, <3>2
    <2> QED
      BY <2>1, <2>4
  <1> QED
    BY <1>3, <1>4, <1>5 DEF TreeInv

LEMMA EndReaches ==
  ASSUME WatchInv, TreeInv, EndWalk
  PROVE  TreeInv'
  <1>1. /\ listing = None /\ stack = {} /\ walker' = None
        /\ UNCHANGED <<exists, watched, raw, dirs, walks, stack, listing, pc, current>>
    BY DEF EndWalk, files
  <1>2. /\ watched' = dirs' /\ watched' \subseteq exists'
        /\ pc' = "walk" => stack' \subseteq exists' /\ (walks' # {} => current'.path \in exists')
    BY <1>1 DEF TreeInv
  <1>3. RootsAreWatched'
    BY <1>1 DEF TreeInv, RootsAreWatched, Root
  <1>4. \A a \in Path \ {Top} : Parent[a] # None
    BY TreeAssumption, NoneAssumption DEF Path
  <1>5. \A s, a : a \in Path /\ Awaits(s, a) => Awaits(s, a)'
    BY <1>1, <1>4 DEF Awaits
  <1>6. TreeIsReached'
    <2>1. \A d \in Dir : \A a \in Components[d] : a \in Path
      BY ComponentsIs DEF Path
    <2> QED
      BY <1>1, <1>5, <2>1 DEF TreeInv, TreeIsReached
  <1> QED
    BY <1>2, <1>3, <1>6 DEF TreeInv

LEMMA TreeInit == Init => TreeInv
  <1> SUFFICES ASSUME Init PROVE TreeInv
    OBVIOUS
  <1>1. RootsAreWatched
    BY DEF Init, RootsAreWatched
  <1>2. TreeIsReached
    <2> SUFFICES ASSUME NEW s \in DirSlot, NEW d \in Dir, Concerns(s, d)
                 PROVE  \E a \in Components[d] : Under(a, Target[s]) /\ Awaits(s, a)
      BY DEF TreeIsReached
    <2>1. Target[s] \in Components[d] /\ Under(Target[s], Target[s]) /\ s \in Slot
      BY TargetIs DEF Path
    <2>2. Awaits(s, Target[s])
      BY <2>1 DEF Init, Awaits
    <2> QED
      BY <2>1, <2>2
  <1> QED
    BY <1>1, <1>2 DEF Init, TreeInv

LEMMA TreeStep == DirectoriesStay /\ WatchInv /\ TreeInv /\ [Next]_vars => TreeInv'
  <1> SUFFICES ASSUME DirectoriesStay, WatchInv, TreeInv, [Next]_vars PROVE TreeInv'
    OBVIOUS
  <1>1. CASE Filesystem
    BY <1>1, ChangeReaches, NoiseReaches DEF Filesystem
  <1>2. CASE Walk
    BY <1>2, BeginReaches, WatchDirReaches, ListDirReaches, EndReaches DEF Walk
  <1>3. CASE Recv
    BY <1>3, RecvReaches
  <1>4. CASE Tick \/ ObserveAll \/ Started \/ TimedOut \/ Due \/ UNCHANGED vars
    BY <1>4, QuietReaches
  <1> QED
    BY <1>1, <1>2, <1>3, <1>4 DEF Next, Watcher

\* Once the thread has caught up, the kernel watches every directory below a
\* slot's target that the slot does not ignore, and the directory of every
\* file target, however the creation of each fell between the registering and
\* the reading of the directory above it (watch.rs watch_tree, watch_dir and
\* on_new_dir); for any tree and any number of slots whose walks share
\* directories.  Of directories removed or renamed into place the registry
\* does not hear: they are the hypothesis.
THEOREM TreeAlwaysWatched == DirectoriesStay => (Spec => []TreeIsWatched)
  <1> SUFFICES ASSUME DirectoriesStay PROVE Spec => []TreeIsWatched
    OBVIOUS
  <1>1. ASSUME WatchInv, TreeInv, Idle,
               NEW s \in Slot, NEW d \in Dir \cap exists,
               \/ s \in DirSlot /\ Concerns(s, d)
               \/ s \in FileSlot /\ d = Parent[Target[s]]
        PROVE  d \in watched
    <2>1. pc = "recv" /\ raw = <<>> /\ walks = {} /\ walker = None /\ None \notin Slot
      BY <1>1, NoneAssumption DEF Idle, WatchInv, WalksInTurn, Walking
    <2>2. CASE s \in DirSlot /\ Concerns(s, d)
      <3>1. \A a : ~Awaits(s, a)
        BY <2>1 DEF Awaits
      <3> QED
        BY <1>1, <2>1, <2>2, <3>1 DEF TreeInv, TreeIsReached
    <2>3. CASE s \in FileSlot /\ d = Parent[Target[s]]
      <3>1. Root(s) = d
        BY <2>3, SlotAssumption DEF Root
      <3> QED
        BY <1>1, <2>1, <3>1 DEF TreeInv, RootsAreWatched
    <2> QED
      BY <1>1, <2>2, <2>3
  <1>2. WatchInv /\ TreeInv => TreeIsWatched
    BY <1>1 DEF TreeIsWatched
  <1>3. WatchInv /\ TreeInv /\ [Next]_vars => TreeInv'
    BY TreeStep
  <1> QED
    BY <1>2, <1>3, TreeInit, WatchInvariance, PTL DEF Spec

==============================================================================

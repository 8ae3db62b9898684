------------------------- MODULE ControlSocketProofs -------------------------
(***************************************************************************)
(* The control socket, for any number of instances and clients, any        *)
(* directories and any Krawattefile: whose the path is and what the names  *)
(* of the slots address; that NO CTRL has a cause; and what the clients'   *)
(* exit codes mean.                                                        *)
(***************************************************************************)
EXTENDS ControlSocket, TLAPS

Phase == {"off", "gone"} \cup Alive

SocketType ==
  /\ file \in [Dirs -> Run \cup {NoOne, Ghost}]
  /\ phase \in [Run -> Phase]
  /\ ctrl \in [Run -> {"none", "on", "another", "io"}]
  /\ launch \in [Run -> Launches \cup {NoOne}]
  /\ \A r \in Run : phase[r] \in Alive => launch[r] \in Launches /\ Launchable(launch[r])

\* Two instances of a project that are both starting have raced.
OneStarts ==
  \A r, q \in Run :
    r # q /\ phase[r] \in Starting /\ phase[q] \in Starting /\ Key(r) = Key(q)
      => Key(r) \in raced

\* Between bind and serve the path is the one that bound it.
BoundIsTheirs ==
  \A r \in Run : phase[r] \in {"bound", "listening"} /\ Key(r) \notin raced
    => file[Key(r)] = r

\* Whoever clears the path has seen that nobody listens, and nobody can begin to.
ClearsTheDead ==
  \A r, q \in Run : phase[r] \in {"remove", "rebind"} /\ Key(r) \notin raced /\ Serves(q)
    => Key(q) # Key(r)

SocketInv ==
  SocketType /\ OneStarts /\ BoundIsTheirs /\ ClearsTheDead /\ SocketIsTheirs

------------------------------------------------------------------------------
(* Keys *)

\* A launch is not revised: a step that leaves it leaves the key.
LEMMA KeySame ==
  ASSUME NEW r, launch'[r] = launch[r]
  PROVE  Key(r)' = Key(r)
BY DEF Key, InstanceDir, FileOf, Discover, Ancestors

LEMMA KeyNew ==
  ASSUME NEW r, NEW l, launch'[r] = l
  PROVE  Key(r)' = InstanceDir(l)
BY DEF Key, InstanceDir, FileOf, Discover, Ancestors

\* An instance that is there has a key, and the key a socket path.
LEMMA KeyInDirs ==
  ASSUME SocketType, NEW r \in Run, phase[r] \in Alive
  PROVE  Key(r) \in Dirs
BY DEF SocketType, Key, Dirs

LEMMA SocketInit == Init => SocketInv
<1> SUFFICES ASSUME Init PROVE SocketInv
  OBVIOUS
<1>1. SocketType
  BY DEF Init, SocketType, Phase, Alive, Starting, Looping
<1>2. \A r \in Run : phase[r] \notin Starting \cup Looping
  BY DEF Init, Starting, Looping
<1>3. OneStarts /\ BoundIsTheirs /\ ClearsTheDead /\ SocketIsTheirs
  BY <1>2 DEF OneStarts, BoundIsTheirs, ClearsTheDead, SocketIsTheirs, Serves, Starting, Looping
<1> QED BY <1>1, <1>3 DEF SocketInv

------------------------------------------------------------------------------
(* Steps that leave the path and whose it is *)

\* Nothing an instance does here brings it nearer to the socket: it stays where it
\* is, goes on serving, or is past both starting and serving.
Fades ==
  /\ UNCHANGED <<file, ctrl, launch, raced>>
  /\ phase' \in [Run -> Phase]
  /\ \A q \in Run :
       \/ phase'[q] = phase[q]
       \/ phase[q] = "loop" /\ phase'[q] = "shutdown"
       \/ phase'[q] \in Phase \ (Starting \cup Looping) /\ (phase'[q] \in Alive => phase[q] \in Alive)

LEMMA FadesKeeps == SocketInv /\ Fades => SocketInv'
<1> SUFFICES ASSUME SocketInv, Fades PROVE SocketInv'
  OBVIOUS
<1>k. \A r \in Run : Key(r)' = Key(r)
  BY KeySame DEF Fades
<1>s. \A r \in Run : Serves(r)' => Serves(r)
  BY DEF Fades, Serves, Looping, Starting
<1>t. \A r \in Run : phase'[r] \in Starting => phase'[r] = phase[r]
  BY DEF Fades, Starting, Looping
<1>1. SocketType'
  <2>1. \A r \in Run : phase'[r] \in Alive => phase[r] \in Alive
    BY DEF Fades, Alive, Looping, Starting
  <2>2. launch' = launch /\ file' = file /\ ctrl' = ctrl
    BY DEF Fades
  <2>3. \A r \in Run : phase'[r] \in Alive => launch'[r] \in Launches /\ Launchable(launch[r])
    BY <2>1, <2>2 DEF SocketInv, SocketType
  <2>4. \A r \in Run : Launchable(launch[r])' = Launchable(launch[r])
    BY <2>2 DEF Launchable, FileOf, Discover, Ancestors, Accepted, ParseErrors, ResolveErrors,
                NameProblem, IsDuplicate
  <2> QED BY <2>2, <2>3, <2>4 DEF SocketInv, SocketType, Fades
<1>2. OneStarts'
  BY <1>k, <1>t DEF SocketInv, OneStarts, Fades
<1>3. BoundIsTheirs'
  BY <1>k, <1>t DEF SocketInv, BoundIsTheirs, Fades, Starting
<1>4. ClearsTheDead'
  BY <1>k, <1>s, <1>t DEF SocketInv, ClearsTheDead, Fades, Starting
<1>5. SocketIsTheirs'
  BY <1>k, <1>s DEF SocketInv, SocketIsTheirs, Fades
<1> QED BY <1>1, <1>2, <1>3, <1>4, <1>5 DEF SocketInv

\* The client's and the connection threads' steps touch none of it.
LEMMA AsideKeeps == SocketInv /\ UNCHANGED <<file, runVars, history>> => SocketInv'
<1> SUFFICES ASSUME SocketInv, UNCHANGED <<file, runVars, history>> PROVE SocketInv'
  OBVIOUS
<1>1. Fades
  BY DEF SocketInv, SocketType, Fades, runVars, history
<1> QED BY <1>1, FadesKeeps

\* A launch that was accepted stays accepted.
LEMMA LaunchableSame ==
  ASSUME NEW r, NEW l, launch'[r] = l
  PROVE  Launchable(launch[r])' = Launchable(l)
BY DEF Launchable, FileOf, Discover, Ancestors, Accepted, ParseErrors, ResolveErrors,
       NameProblem, IsDuplicate

\* Types, for a step of one instance that leaves the launches alone.
LEMMA MovesKeepsType ==
  ASSUME SocketType, NEW r \in Run, phase[r] \in Alive,
         NEW x \in Alive, phase' = [phase EXCEPT ![r] = x], UNCHANGED launch,
         file' \in [Dirs -> Run \cup {NoOne, Ghost}],
         ctrl' \in [Run -> {"none", "on", "another", "io"}]
  PROVE  SocketType'
<1>1. phase' \in [Run -> Phase]
  BY DEF SocketType, Phase
<1>2. \A q \in Run : phase'[q] \in Alive => phase[q] \in Alive
  BY DEF SocketType
<1>3. \A q \in Run : Launchable(launch[q])' = Launchable(launch[q])
  BY LaunchableSame
<1> QED BY <1>1, <1>2, <1>3 DEF SocketType

------------------------------------------------------------------------------
(* Steps of an instance that starts *)

LEMMA StartKeeps ==
  ASSUME SocketInv, NEW r \in Run, Start(r)
  PROVE  SocketInv'
<1> PICK l \in Launches :
      /\ Launchable(l)
      /\ launch' = [launch EXCEPT ![r] = l]
      /\ raced' = IF Beside(InstanceDir(l), Starting) # {} THEN raced \cup {InstanceDir(l)} ELSE raced
  BY DEF Start
<1>p. phase[r] = "off" /\ phase' = [phase EXCEPT ![r] = "bind"] /\ file' = file /\ ctrl' = ctrl
  BY DEF Start
<1>a. /\ phase'[r] = "bind" /\ launch'[r] = l
      /\ \A q \in Run \ {r} : phase'[q] = phase[q] /\ launch'[q] = launch[q]
  BY <1>p DEF SocketInv, SocketType
<1>k. /\ Key(r)' = InstanceDir(l)
      /\ \A q \in Run \ {r} : Key(q)' = Key(q)
  BY <1>a, KeySame, KeyNew
<1>s. \A q \in Run : Serves(q)' => q # r /\ Serves(q)
  BY <1>p, <1>a DEF Serves, Looping
<1>1. SocketType'
  <2>1. phase' \in [Run -> Phase] /\ launch' \in [Run -> Launches \cup {NoOne}]
    BY <1>p DEF SocketInv, SocketType, Phase, Alive, Starting
  <2>2. Launchable(launch[r])'
    BY <1>a, LaunchableSame
  <2>3. \A q \in Run \ {r} : Launchable(launch[q])' = Launchable(launch[q])
    BY <1>a, LaunchableSame
  <2> QED BY <1>p, <1>a, <2>1, <2>2, <2>3 DEF SocketInv, SocketType
<1>2. OneStarts'
  <2> SUFFICES ASSUME NEW p \in Run, NEW q \in Run, p # q,
                      phase'[p] \in Starting, phase'[q] \in Starting, Key(p)' = Key(q)'
               PROVE  Key(p)' \in raced'
    BY DEF OneStarts
  <2>1. CASE p # r /\ q # r
    BY <2>1, <1>a, <1>k DEF SocketInv, OneStarts
  <2>2. CASE p = r \/ q = r
    <3>1. PICK o \in Run \ {r} : phase[o] \in Starting /\ Key(o) = InstanceDir(l)
      BY <2>2, <1>a, <1>k
    <3>2. o \in Beside(InstanceDir(l), Starting)
      BY <3>1 DEF Beside
    <3> QED BY <3>2, <2>2, <1>k
  <2> QED BY <2>1, <2>2
<1>3. BoundIsTheirs'
  BY <1>p, <1>a, <1>k DEF SocketInv, BoundIsTheirs
<1>4. ClearsTheDead'
  BY <1>a, <1>k, <1>s DEF SocketInv, ClearsTheDead
<1>5. SocketIsTheirs'
  BY <1>p, <1>a, <1>k, <1>s DEF SocketInv, SocketIsTheirs
<1> QED BY <1>1, <1>2, <1>3, <1>4, <1>5 DEF SocketInv

\* The frame of the steps below: one instance moves, from and to where it is alive.
LEMMA MoveFacts ==
  ASSUME SocketInv, NEW r \in Run, NEW x, phase' = [phase EXCEPT ![r] = x], UNCHANGED launch
  PROVE  /\ phase'[r] = x
         /\ \A q \in Run \ {r} : phase'[q] = phase[q]
         /\ \A q \in Run : Key(q)' = Key(q)
BY KeySame DEF SocketInv, SocketType

\* bind(2) of a free path.
LEMMA BindKeeps ==
  ASSUME SocketInv, NEW r \in Run, Bind(r)
  PROVE  SocketInv'
<1>p. /\ phase[r] \in {"bind", "rebind"} /\ phase' = [phase EXCEPT ![r] = "bound"]
      /\ file[Key(r)] = NoOne /\ file' = [file EXCEPT ![Key(r)] = r]
      /\ ctrl' = ctrl /\ launch' = launch /\ raced' = raced
  BY DEF Bind, history
<1>a. phase[r] \in Alive /\ "bound" \in Alive /\ phase[r] \in Starting /\ "bound" \in Starting
  BY <1>p DEF Alive, Starting
<1>m. /\ phase'[r] = "bound"
      /\ \A q \in Run \ {r} : phase'[q] = phase[q]
      /\ \A q \in Run : Key(q)' = Key(q)
  BY <1>p, MoveFacts
<1>d. Key(r) \in Dirs
  BY <1>a, KeyInDirs DEF SocketInv
<1>f. file' \in [Dirs -> Run \cup {NoOne, Ghost}] /\ file'[Key(r)] = r
      /\ \A d \in Dirs : d # Key(r) => file'[d] = file[d]
  BY <1>p, <1>d DEF SocketInv, SocketType
<1>s. \A q \in Run : Serves(q)' => q # r /\ Serves(q) /\ Key(q) \in Dirs
  <2>1. \A q \in Run : Serves(q)' => q # r /\ Serves(q)
    BY <1>p, <1>m DEF Serves, Looping
  <2> QED BY <2>1, KeyInDirs DEF SocketInv, Serves, Alive
<1>1. SocketType'
  BY <1>p, <1>a, <1>f, MovesKeepsType DEF SocketInv, SocketType
<1>2. OneStarts'
  BY <1>p, <1>a, <1>m DEF SocketInv, OneStarts
<1>3. BoundIsTheirs'
  <2> SUFFICES ASSUME NEW q \in Run, q # r, phase[q] \in {"bound", "listening"}, Key(q) \notin raced
               PROVE  file'[Key(q)] = q
    BY <1>p, <1>f, <1>m DEF BoundIsTheirs
  <2>1. phase[q] \in Starting /\ phase[q] \in Alive
    BY DEF Starting, Alive
  <2>2. Key(q) # Key(r) /\ Key(q) \in Dirs
    BY <2>1, <1>a, KeyInDirs DEF SocketInv, OneStarts
  <2> QED BY <2>2, <1>f DEF SocketInv, BoundIsTheirs
<1>4. ClearsTheDead'
  BY <1>p, <1>m, <1>s DEF SocketInv, ClearsTheDead
<1>5. SocketIsTheirs'
  <2> SUFFICES ASSUME NEW q \in Run, Serves(q)', Key(q) \notin raced
               PROVE  file'[Key(q)] = q
    BY <1>p, <1>m DEF SocketIsTheirs
  <2>1. file[Key(q)] = q /\ Key(q) \in Dirs
    BY <1>s DEF SocketInv, SocketIsTheirs
  <2>2. Key(q) # Key(r)
    BY <2>1, <1>p, LaunchAssumption
  <2> QED BY <2>1, <2>2, <1>f
<1> QED BY <1>1, <1>2, <1>3, <1>4, <1>5 DEF SocketInv

\* A taken path, and listen(2): the path stays as it is.
LEMMA WaitKeeps ==
  ASSUME SocketInv, NEW r \in Run, BindTaken(r) \/ Listen(r)
  PROVE  SocketInv'
<1>p. /\ \/ phase[r] = "bind" /\ phase' = [phase EXCEPT ![r] = "taken"]
         \/ phase[r] = "bound" /\ phase' = [phase EXCEPT ![r] = "listening"]
      /\ file' = file /\ ctrl' = ctrl /\ launch' = launch /\ raced' = raced
  BY DEF BindTaken, Listen, history
<1> PICK x \in {"taken", "listening"} :
      phase' = [phase EXCEPT ![r] = x] /\ (x = "listening" => phase[r] = "bound")
  BY <1>p
<1>a. phase[r] \in Alive /\ x \in Alive /\ phase[r] \in Starting /\ x \in Starting
  BY <1>p DEF Alive, Starting
<1>m. /\ phase'[r] = x
      /\ \A q \in Run \ {r} : phase'[q] = phase[q]
      /\ \A q \in Run : Key(q)' = Key(q)
  BY <1>p, MoveFacts
<1>s. \A q \in Run : Serves(q)' => Serves(q)
  BY <1>p, <1>m DEF Serves, Looping
<1>1. SocketType'
  BY <1>p, <1>a, MovesKeepsType DEF SocketInv, SocketType
<1>2. OneStarts'
  BY <1>p, <1>a, <1>m DEF SocketInv, OneStarts
<1>3. BoundIsTheirs'
  BY <1>p, <1>m DEF SocketInv, BoundIsTheirs
<1>4. ClearsTheDead'
  BY <1>p, <1>m, <1>s DEF SocketInv, ClearsTheDead
<1>5. SocketIsTheirs'
  BY <1>p, <1>m, <1>s DEF SocketInv, SocketIsTheirs
<1> QED BY <1>1, <1>2, <1>3, <1>4, <1>5 DEF SocketInv

\* A probe that is refused: whoever serves would have answered.
LEMMA ProbeKeeps ==
  ASSUME SocketInv, NEW r \in Run, ProbeRefused(r)
  PROVE  SocketInv'
<1>p. /\ phase[r] = "taken" /\ phase' = [phase EXCEPT ![r] = "remove"] /\ ~Listens(file[Key(r)])
      /\ file' = file /\ ctrl' = ctrl /\ launch' = launch /\ raced' = raced
  BY DEF ProbeRefused, history
<1>a. phase[r] \in Alive /\ "remove" \in Alive /\ phase[r] \in Starting /\ "remove" \in Starting
  BY <1>p DEF Alive, Starting
<1>m. /\ phase'[r] = "remove"
      /\ \A q \in Run \ {r} : phase'[q] = phase[q]
      /\ \A q \in Run : Key(q)' = Key(q)
  BY <1>p, MoveFacts
<1>s. \A q \in Run : Serves(q)' => Serves(q)
  BY <1>p, <1>m DEF Serves, Looping
<1>l. \A q \in Run : Serves(q) => Listens(q)
  BY DEF Serves, Listens, Looping, Alive, Starting
<1>1. SocketType'
  BY <1>p, <1>a, MovesKeepsType DEF SocketInv, SocketType
<1>2. OneStarts'
  BY <1>p, <1>a, <1>m DEF SocketInv, OneStarts
<1>3. BoundIsTheirs'
  BY <1>p, <1>m DEF SocketInv, BoundIsTheirs
<1>4. ClearsTheDead'
  <2> SUFFICES ASSUME NEW p \in Run, NEW q \in Run, phase'[p] \in {"remove", "rebind"},
                      Key(p) \notin raced, Serves(q)'
               PROVE  Key(q) # Key(p)
    BY <1>p, <1>m DEF ClearsTheDead
  <2>1. CASE p = r
    BY <2>1, <1>p, <1>l, <1>s DEF SocketInv, SocketIsTheirs
  <2>2. CASE p # r
    BY <2>2, <1>m, <1>s DEF SocketInv, ClearsTheDead
  <2> QED BY <2>1, <2>2
<1>5. SocketIsTheirs'
  BY <1>p, <1>m, <1>s DEF SocketInv, SocketIsTheirs
<1> QED BY <1>1, <1>2, <1>3, <1>4, <1>5 DEF SocketInv

\* remove_file of what nobody serves, and nobody else is about to.
LEMMA RemoveKeeps ==
  ASSUME SocketInv, NEW r \in Run, Remove(r)
  PROVE  SocketInv'
<1>p. /\ phase[r] = "remove" /\ phase' = [phase EXCEPT ![r] = "rebind"]
      /\ file' = [file EXCEPT ![Key(r)] = NoOne]
      /\ ctrl' = ctrl /\ launch' = launch /\ raced' = raced
  BY DEF Remove, history
<1>a. phase[r] \in Alive /\ "rebind" \in Alive /\ phase[r] \in Starting /\ "rebind" \in Starting
  BY <1>p DEF Alive, Starting
<1>m. /\ phase'[r] = "rebind"
      /\ \A q \in Run \ {r} : phase'[q] = phase[q]
      /\ \A q \in Run : Key(q)' = Key(q)
  BY <1>p, MoveFacts
<1>d. Key(r) \in Dirs
  BY <1>a, KeyInDirs DEF SocketInv
<1>f. file' \in [Dirs -> Run \cup {NoOne, Ghost}]
      /\ \A d \in Dirs : d # Key(r) => file'[d] = file[d]
  BY <1>p, <1>d DEF SocketInv, SocketType
<1>s. \A q \in Run : Serves(q)' => Serves(q) /\ Key(q) \in Dirs
  <2>1. \A q \in Run : Serves(q)' => Serves(q)
    BY <1>p, <1>m DEF Serves, Looping
  <2> QED BY <2>1, KeyInDirs DEF SocketInv, Serves, Alive
<1>1. SocketType'
  BY <1>p, <1>a, <1>f, MovesKeepsType DEF SocketInv, SocketType
<1>2. OneStarts'
  BY <1>p, <1>a, <1>m DEF SocketInv, OneStarts
<1>3. BoundIsTheirs'
  <2> SUFFICES ASSUME NEW q \in Run, q # r, phase[q] \in {"bound", "listening"}, Key(q) \notin raced
               PROVE  file'[Key(q)] = q
    BY <1>p, <1>f, <1>m DEF BoundIsTheirs
  <2>1. phase[q] \in Starting /\ phase[q] \in Alive
    BY DEF Starting, Alive
  <2>2. Key(q) # Key(r) /\ Key(q) \in Dirs
    BY <2>1, <1>a, KeyInDirs DEF SocketInv, OneStarts
  <2> QED BY <2>2, <1>f DEF SocketInv, BoundIsTheirs
<1>4. ClearsTheDead'
  <2> SUFFICES ASSUME NEW p \in Run, NEW q \in Run, phase'[p] \in {"remove", "rebind"},
                      Key(p) \notin raced, Serves(q)'
               PROVE  Key(q) # Key(p)
    BY <1>p, <1>m DEF ClearsTheDead
  <2> QED BY <1>p, <1>m, <1>s DEF SocketInv, ClearsTheDead
<1>5. SocketIsTheirs'
  <2> SUFFICES ASSUME NEW q \in Run, Serves(q)', Key(q) \notin raced
               PROVE  file'[Key(q)] = q
    BY <1>p, <1>m DEF SocketIsTheirs
  <2>1. Key(q) # Key(r)
    BY <1>p, <1>s DEF SocketInv, ClearsTheDead
  <2> QED BY <2>1, <1>f, <1>s DEF SocketInv, SocketIsTheirs
<1> QED BY <1>1, <1>2, <1>3, <1>4, <1>5 DEF SocketInv

\* An instance that goes on without a socket serves nothing.
LEMMA WithoutKeeps ==
  ASSUME SocketInv, NEW r \in Run, phase[r] \in Starting,
         NEW why \in {"another", "io"}, Without(r, why)
  PROVE  SocketInv'
<1>p. /\ phase' = [phase EXCEPT ![r] = "loop"] /\ ctrl' = [ctrl EXCEPT ![r] = why]
      /\ file' = file /\ launch' = launch /\ raced' = raced
  BY DEF Without, history
<1>a. phase[r] \in Alive /\ "loop" \in Alive /\ "loop" \notin Starting
  BY DEF Alive, Starting, Looping
<1>m. /\ phase'[r] = "loop"
      /\ \A q \in Run \ {r} : phase'[q] = phase[q]
      /\ \A q \in Run : Key(q)' = Key(q)
  BY <1>p, MoveFacts
<1>c. /\ ctrl' \in [Run -> {"none", "on", "another", "io"}] /\ ctrl'[r] = why
      /\ \A q \in Run \ {r} : ctrl'[q] = ctrl[q]
  BY <1>p DEF SocketInv, SocketType
<1>s. \A q \in Run : Serves(q)' => Serves(q)
  BY <1>m, <1>c DEF Serves
<1>1. SocketType'
  BY <1>p, <1>a, <1>c, MovesKeepsType DEF SocketInv, SocketType
<1>2. OneStarts'
  BY <1>p, <1>a, <1>m DEF SocketInv, OneStarts
<1>3. BoundIsTheirs'
  BY <1>p, <1>m DEF SocketInv, BoundIsTheirs
<1>4. ClearsTheDead'
  BY <1>p, <1>m, <1>s DEF SocketInv, ClearsTheDead
<1>5. SocketIsTheirs'
  BY <1>p, <1>m, <1>s DEF SocketInv, SocketIsTheirs
<1> QED BY <1>1, <1>2, <1>3, <1>4, <1>5 DEF SocketInv

\* The socket is handed to the control: it is this instance's, nobody is clearing it.
LEMMA ServeKeeps ==
  ASSUME SocketInv, NEW r \in Run, Serve(r)
  PROVE  SocketInv'
<1>p. /\ phase[r] = "listening" /\ phase' = [phase EXCEPT ![r] = "loop"]
      /\ ctrl' = [ctrl EXCEPT ![r] = "on"]
      /\ file' = file /\ launch' = launch /\ raced' = raced
  BY DEF Serve, history
<1>a. phase[r] \in Alive /\ "loop" \in Alive /\ phase[r] \in Starting /\ "loop" \notin Starting
  BY <1>p DEF Alive, Starting, Looping
<1>m. /\ phase'[r] = "loop"
      /\ \A q \in Run \ {r} : phase'[q] = phase[q]
      /\ \A q \in Run : Key(q)' = Key(q)
  BY <1>p, MoveFacts
<1>c. /\ ctrl' \in [Run -> {"none", "on", "another", "io"}]
      /\ \A q \in Run \ {r} : ctrl'[q] = ctrl[q]
  BY <1>p DEF SocketInv, SocketType
<1>s. \A q \in Run : Serves(q)' => q = r \/ Serves(q)
  BY <1>m, <1>c DEF Serves
<1>1. SocketType'
  BY <1>p, <1>a, <1>c, MovesKeepsType DEF SocketInv, SocketType
<1>2. OneStarts'
  BY <1>p, <1>a, <1>m DEF SocketInv, OneStarts
<1>3. BoundIsTheirs'
  BY <1>p, <1>m DEF SocketInv, BoundIsTheirs
<1>4. ClearsTheDead'
  <2> SUFFICES ASSUME NEW p \in Run, NEW q \in Run, p # r, phase[p] \in {"remove", "rebind"},
                      Key(p) \notin raced, Serves(q)'
               PROVE  Key(q) # Key(p)
    BY <1>p, <1>m DEF ClearsTheDead
  <2>1. phase[p] \in Starting
    BY DEF Starting
  <2>2. Key(r) # Key(p)
    BY <2>1, <1>a DEF SocketInv, OneStarts
  <2> QED BY <2>2, <1>s DEF SocketInv, ClearsTheDead
<1>5. SocketIsTheirs'
  <2> SUFFICES ASSUME NEW q \in Run, Serves(q)', Key(q) \notin raced
               PROVE  file[Key(q)] = q
    BY <1>p, <1>m DEF SocketIsTheirs
  <2>1. CASE q = r
    BY <2>1, <1>p DEF SocketInv, BoundIsTheirs
  <2>2. CASE q # r
    BY <2>2, <1>s DEF SocketInv, SocketIsTheirs
  <2> QED BY <2>1, <2>2
<1> QED BY <1>1, <1>2, <1>3, <1>4, <1>5 DEF SocketInv

\* Listener::drop unlinks the instance's own socket.
LEMMA DropKeeps ==
  ASSUME SocketInv, NEW r \in Run, DropControl(r)
  PROVE  SocketInv'
<1>p. /\ phase[r] = "shutdown" /\ phase' = [phase EXCEPT ![r] = "unlinked"]
      /\ file' = IF ctrl[r] = "on" THEN [file EXCEPT ![Key(r)] = NoOne] ELSE file
      /\ ctrl' = ctrl /\ launch' = launch /\ raced' = raced
  BY DEF DropControl, history
<1>a. phase[r] \in Alive /\ "unlinked" \in Alive /\ "unlinked" \notin Starting
  BY <1>p DEF Alive, Looping, Starting
<1>m. /\ phase'[r] = "unlinked"
      /\ \A q \in Run \ {r} : phase'[q] = phase[q]
      /\ \A q \in Run : Key(q)' = Key(q)
  BY <1>p, MoveFacts
<1>d. Key(r) \in Dirs
  BY <1>a, KeyInDirs DEF SocketInv
<1>f. /\ file' \in [Dirs -> Run \cup {NoOne, Ghost}]
      /\ \A d \in Dirs : d # Key(r) \/ ~Serves(r) => file'[d] = file[d]
  BY <1>p, <1>d DEF SocketInv, SocketType, Serves, Looping
<1>s. \A q \in Run : Serves(q)' => q # r /\ Serves(q) /\ Key(q) \in Dirs
  <2>1. \A q \in Run : Serves(q)' => q # r /\ Serves(q)
    BY <1>p, <1>m DEF Serves, Looping
  <2> QED BY <2>1, KeyInDirs DEF SocketInv, Serves, Alive
<1>o. \A q \in Run : q # r /\ Serves(r) /\ Key(r) \notin raced /\ file[Key(q)] = q => Key(q) # Key(r)
  BY DEF SocketInv, SocketIsTheirs
<1>1. SocketType'
  BY <1>p, <1>a, <1>f, MovesKeepsType DEF SocketInv, SocketType
<1>2. OneStarts'
  BY <1>p, <1>a, <1>m DEF SocketInv, OneStarts
<1>3. BoundIsTheirs'
  <2> SUFFICES ASSUME NEW q \in Run, q # r, phase[q] \in {"bound", "listening"}, Key(q) \notin raced
               PROVE  file'[Key(q)] = q
    BY <1>p, <1>m DEF BoundIsTheirs
  <2>1. file[Key(q)] = q /\ Key(q) \in Dirs
    BY KeyInDirs DEF SocketInv, BoundIsTheirs, Alive, Starting
  <2> QED BY <2>1, <1>f, <1>o
<1>4. ClearsTheDead'
  BY <1>p, <1>m, <1>s DEF SocketInv, ClearsTheDead
<1>5. SocketIsTheirs'
  <2> SUFFICES ASSUME NEW q \in Run, Serves(q)', Key(q) \notin raced
               PROVE  file'[Key(q)] = q
    BY <1>p, <1>m DEF SocketIsTheirs
  <2>1. file[Key(q)] = q
    BY <1>s DEF SocketInv, SocketIsTheirs
  <2> QED BY <2>1, <1>f, <1>o, <1>s
<1> QED BY <1>1, <1>2, <1>3, <1>4, <1>5 DEF SocketInv

------------------------------------------------------------------------------
(* Every step *)

LEMMA FadingSteps ==
  ASSUME SocketInv, NEW r \in Run,
         StartRefused(r) \/ LeaveLoop(r) \/ DropReceiver(r) \/ Exit(r) \/ Crash(r)
  PROVE  SocketInv'
<1>1. PICK x \in Phase :
        /\ phase' = [phase EXCEPT ![r] = x]
        /\ \/ phase[r] = "loop" /\ x = "shutdown"
           \/ x = "gone"
           \/ phase[r] = "unlinked" /\ x = "leaving"
  BY DEF StartRefused, LeaveLoop, DropReceiver, Exit, Crash, Phase, Alive, Looping
<1>2. UNCHANGED <<file, ctrl, launch, raced>>
  BY DEF StartRefused, LeaveLoop, DropReceiver, Exit, Crash, history
<1>3. Fades
  BY <1>1, <1>2 DEF Fades, SocketInv, SocketType, Phase, Alive, Starting, Looping
<1> QED BY <1>3, FadesKeeps

LEMMA SocketNext == SocketInv /\ [Next]_vars => SocketInv'
<1> SUFFICES ASSUME SocketInv, [Next]_vars PROVE SocketInv'
  OBVIOUS
<1>1. ASSUME NEW r \in Run, StartStep(r) PROVE SocketInv'
  <2>1. CASE StartRefused(r)
    BY <2>1, FadingSteps
  <2>2. CASE Start(r)
    BY <2>2, StartKeeps
  <2>3. CASE Bind(r)
    BY <2>3, BindKeeps
  <2>4. CASE BindTaken(r) \/ Listen(r)
    BY <2>4, WaitKeeps
  <2>5. CASE ProbeAnswered(r)
    BY <2>5, WithoutKeeps DEF ProbeAnswered, Starting
  <2>6. CASE ProbeRefused(r)
    BY <2>6, ProbeKeeps
  <2>7. CASE Remove(r)
    BY <2>7, RemoveKeeps
  <2>8. CASE BindFails(r)
    BY <2>8, WithoutKeeps DEF BindFails, Starting
  <2>9. CASE Serve(r)
    BY <2>9, ServeKeeps
  <2> QED BY <1>1, <2>1, <2>2, <2>3, <2>4, <2>5, <2>6, <2>7, <2>8, <2>9 DEF StartStep
<1>2. ASSUME NEW r \in Run, EndStep(r) \/ QuitHere(r) \/ Crash(r) PROVE SocketInv'
  <2>1. CASE DropControl(r)
    BY <2>1, DropKeeps
  <2> QED BY <1>2, <2>1, FadingSteps DEF EndStep, QuitHere, QuitAsked
<1>3. ASSUME NEW c \in Client,
             ClientStep(c) \/ ReadTimeout(c) \/ ServeStep(c) \/ ReplyTimeout(c) \/ FinishParked(c)
      PROVE  SocketInv'
  <2>1. UNCHANGED <<file, runVars, history>>
    BY <1>3 DEF ClientStep, Refused, Connect, Send, ReadReply, ReadEnd, DrainEnds, ReadTimeout,
                ServeStep, ReadRequest, WriteReply, Close, ReplyTimeout, FinishParked, history
  <2> QED BY <2>1, AsideKeeps
<1>4. ASSUME NEW c \in Client, Handle(c) PROVE SocketInv'
  <2>1. UNCHANGED <<file, phase, ctrl, launch, raced>>
    BY <1>4 DEF Handle, history
  <2>2. Fades
    BY <2>1 DEF Fades, SocketInv, SocketType
  <2> QED BY <2>2, FadesKeeps
<1>5. CASE UNCHANGED vars
  BY <1>5, AsideKeeps DEF vars, runVars, history
<1> QED BY <1>1, <1>2, <1>3, <1>4, <1>5 DEF Next

LEMMA SocketAlways == Spec => []SocketInv
BY SocketInit, SocketNext, PTL DEF Spec

\* For any instances, projects and launches: an instance whose start did not
\* coincide with that of another of its project holds the path as long as it says
\* CTRL, through every crash, shutdown and start around it (control.rs:85-152).
THEOREM SocketStaysTheirs == Spec => []SocketIsTheirs
<1>1. SocketInv => SocketIsTheirs
  BY DEF SocketInv
<1> QED BY <1>1, SocketAlways, PTL

------------------------------------------------------------------------------
(* Names are addresses *)

\* What parse accepts: a name that is neither an index nor "all", and only once.
LEMMA AcceptedNames ==
  ASSUME NEW raw \in RawFile, Accepted(raw), NEW i \in DOMAIN raw.procs
  PROVE  /\ raw.procs[i].name # AllSlots /\ raw.procs[i].name \notin DOMAIN Number
         /\ \A j \in 1 .. i - 1 : raw.procs[j].name # raw.procs[i].name
<1>1. ParseErrors(raw) = {}
  BY DEF Accepted
<1>2. raw.shape
  BY <1>1 DEF ParseErrors
<1>3. /\ {<<k, "name">> : k \in {j \in DOMAIN raw.procs : NameProblem(raw.procs[j].name)}} = {}
      /\ {<<k, "duplicate">> : k \in {j \in DOMAIN raw.procs : IsDuplicate(raw, j)}} = {}
  BY <1>1, <1>2, Zenon DEF ParseErrors
<1>4. ~NameProblem(raw.procs[i].name)
  BY <1>3
<1>5. ~IsDuplicate(raw, i)
  BY <1>3
<1> QED BY <1>4, <1>5, NameAssumption DEF NameProblem, IsDuplicate

\* For every Krawattefile that is accepted, with any names: each name addresses its slot.
LEMMA AcceptedAreAddresses ==
  ASSUME NEW l, l.raw \in RawFile, Accepted(l.raw)
  PROVE  NamesAreAddresses(Names(l))
<1> DEFINE names == Names(l)
<1>1. DOMAIN names = DOMAIN l.raw.procs /\ \A i \in DOMAIN names : names[i] = l.raw.procs[i].name
  BY DEF Names
<1>2. DOMAIN l.raw.procs = 1 .. Len(l.raw.procs) /\ Len(l.raw.procs) \in Nat
  BY DEF RawFile
<1> SUFFICES ASSUME NEW p \in DOMAIN names PROVE ResolveSlot(names, names[p]) = {p}
  BY DEF NamesAreAddresses
<1>3. names[p] # AllSlots /\ names[p] \notin DOMAIN Number
  BY <1>1, AcceptedNames
<1>4. \A q, o \in DOMAIN names : names[q] = names[o] => q = o
  <2> SUFFICES ASSUME NEW q \in DOMAIN names, NEW o \in DOMAIN names, q < o
               PROVE  names[q] # names[o]
    BY <1>1, <1>2
  <2>1. q \in 1 .. o - 1
    BY <1>1, <1>2
  <2> QED BY <2>1, <1>1, AcceptedNames
<1>5. \A q \in 1 .. p - 1 : q \in DOMAIN names /\ q # p
  BY <1>1, <1>2
<1>6. {o \in DOMAIN names : names[o] = names[p] /\ \A q \in 1 .. o - 1 : names[q] # names[p]} = {p}
  BY <1>4, <1>5
<1> HIDE DEF names
<1> QED BY <1>3, <1>6 DEF ResolveSlot

\* For any Krawattefile an instance may be launched from: each of its slots answers to
\* its name, and no other does (config.rs:148-321, control.rs:206-227).
THEOREM NamesAlwaysReach == Spec => []NamesReachTheirSlot
<1>1. SocketInv => NamesReachTheirSlot
  <2> SUFFICES ASSUME SocketInv, NEW r \in Run, phase[r] \in Alive, ~launch[r].adhoc
               PROVE  NamesAreAddresses(Names(launch[r]))
    BY DEF NamesReachTheirSlot
  <2>1. launch[r].raw \in RawFile /\ Accepted(launch[r].raw)
    BY LaunchAssumption DEF SocketInv, SocketType, Launchable
  <2> QED BY <2>1, AcceptedAreAddresses
<1> QED BY <1>1, SocketAlways, PTL

------------------------------------------------------------------------------
(* NO CTRL has a cause: whoever starts with no other instance of its project
   there gets its socket. *)

\* What a path leads to has bound it.
PathIsOfKey ==
  \A d \in Dirs, q \in Run : file[d] = q => phase[q] # "off" /\ Key(q) = d

\* Starting, with nobody beside.
Alone(r) == phase[r] \in Starting /\ r \notin company /\ Key(r) \notin raced

\* Nobody else is of its project, so the path stays as this instance found or left it.
Undisturbed(r) ==
  /\ \A q \in Run \ {r} : phase[q] \in Alive => Key(q) # Key(r)
  /\ phase[r] \in {"taken", "remove"} => file[Key(r)] # NoOne
  /\ phase[r] = "rebind" => file[Key(r)] = NoOne

AloneIsUndisturbed == \A r \in Run : Alone(r) => Undisturbed(r)

\* An instance that has not started gives no reason.
OffIsSilent == \A r \in Run : phase[r] = "off" => ctrl[r] = "none"

CauseInv == PathIsOfKey /\ AloneIsUndisturbed /\ OffIsSilent /\ StaleIsReplaced

LEMMA CauseInit == Init => CauseInv
<1> SUFFICES ASSUME Init PROVE CauseInv
  OBVIOUS
<1>1. PathIsOfKey
  BY LaunchAssumption DEF Init, PathIsOfKey
<1>2. AloneIsUndisturbed /\ OffIsSilent /\ StaleIsReplaced
  BY DEF Init, AloneIsUndisturbed, Alone, OffIsSilent, StaleIsReplaced, Starting
<1> QED BY <1>1, <1>2 DEF CauseInv

------------------------------------------------------------------------------
(* Frames *)

\* What a step of p leaves alone: the others, and every path but its own.
OthersStay(p) ==
  /\ \A q \in Run \ {p} : phase'[q] = phase[q] /\ launch'[q] = launch[q] /\ ctrl'[q] = ctrl[q]
  /\ raced \subseteq raced' /\ company \subseteq company'
  /\ \A d \in Dirs : file'[d] # file[d] => phase[p] \in Alive /\ d = Key(p)

\* A step of an instance does not disturb the others: it is of another project, or its
\* start is a race.
LEMMA OthersUndisturbed ==
  ASSUME SocketInv, CauseInv, NEW p \in Run, OthersStay(p), NEW r \in Run \ {p}, Alone(r)',
         \/ phase'[p] \in Alive => phase[p] \in Alive /\ launch'[p] = launch[p]
         \/ phase[r] \in Starting /\ Key(p)' = Key(r) => Key(r) \in raced'
  PROVE  Undisturbed(r)'
<1>1. phase'[r] = phase[r] /\ Key(r)' = Key(r)
  BY KeySame DEF OthersStay
<1>2. Alone(r) /\ Undisturbed(r)
  BY <1>1 DEF OthersStay, Alone, CauseInv, AloneIsUndisturbed
<1>3. phase[r] \in Alive /\ Key(r) \in Dirs
  BY <1>2, KeyInDirs DEF Alone, Alive, SocketInv
<1>4. ASSUME NEW q \in Run \ {r}, phase'[q] \in Alive PROVE Key(q)' # Key(r)
  <2>1. CASE q # p
    <3>1. Key(q)' = Key(q) /\ phase'[q] = phase[q]
      BY <2>1, KeySame DEF OthersStay
    <3> QED BY <1>2, <1>4, <3>1 DEF Undisturbed
  <2>2. CASE q = p /\ phase[p] \in Alive /\ launch'[p] = launch[p]
    <3>1. Key(p)' = Key(p)
      BY <2>2, KeySame
    <3> QED BY <1>2, <2>2, <3>1 DEF Undisturbed
  <2>3. CASE q = p /\ ~(phase[p] \in Alive /\ launch'[p] = launch[p])
    BY <1>1, <1>2, <1>4, <2>3 DEF Alone
  <2> QED BY <2>1, <2>2, <2>3
<1>5. file'[Key(r)] = file[Key(r)]
  <2>1. phase[p] \in Alive => Key(p) # Key(r)
    BY <1>2 DEF Undisturbed
  <2> QED BY <1>3, <2>1 DEF OthersStay
<1> QED BY <1>1, <1>2, <1>4, <1>5 DEF Undisturbed

\* A path changes by the instance's bind or remove_file, to itself or to nothing.
LEMMA PathKept ==
  ASSUME SocketInv, CauseInv, NEW p \in Run, OthersStay(p),
         phase'[p] # "off", phase[p] # "off" => launch'[p] = launch[p],
         phase[p] \in Alive => file'[Key(p)] \in {file[Key(p)], p, NoOne}
  PROVE  PathIsOfKey'
<1> SUFFICES ASSUME NEW d \in Dirs, NEW q \in Run, file'[d] = q
             PROVE  phase'[q] # "off" /\ Key(q)' = d
  BY DEF PathIsOfKey
<1>1. CASE file'[d] = file[d]
  <2>1. phase[q] # "off" /\ Key(q) = d
    BY <1>1 DEF CauseInv, PathIsOfKey
  <2>2. launch'[q] = launch[q] /\ phase'[q] # "off"
    BY <2>1 DEF OthersStay
  <2> QED BY <2>1, <2>2, KeySame
<1>2. CASE file'[d] # file[d]
  <2>1. phase[p] \in Alive /\ d = Key(p) /\ phase[p] # "off"
    BY <1>2 DEF OthersStay, Alive, Starting, Looping
  <2>2. q = p
    BY <1>2, <2>1, LaunchAssumption
  <2> QED BY <2>1, <2>2, KeySame
<1> QED BY <1>1, <1>2

\* The reasons already given stay given.
LEMMA ReasonsKept ==
  ASSUME SocketInv, CauseInv, NEW p \in Run, OthersStay(p),
         (ctrl'[p] = ctrl[p] /\ launch'[p] = launch[p])
           \/ ctrl'[p] \notin {"another", "io"} \/ p \in company' \/ Key(p)' \in raced'
  PROVE  StaleIsReplaced'
<1> SUFFICES ASSUME NEW r \in Run, ctrl'[r] \in {"another", "io"}
             PROVE  r \in company' \/ Key(r)' \in raced'
  BY DEF StaleIsReplaced
<1>1. CASE ctrl'[r] = ctrl[r] /\ launch'[r] = launch[r]
  <2>1. Key(r)' = Key(r)
    BY <1>1, KeySame
  <2> QED BY <1>1, <2>1 DEF OthersStay, CauseInv, StaleIsReplaced
<1>2. CASE ~(ctrl'[r] = ctrl[r] /\ launch'[r] = launch[r])
  BY <1>2 DEF OthersStay
<1> QED BY <1>1, <1>2

------------------------------------------------------------------------------
(* Every step *)

\* All steps of an instance but its start leave its launch alone.
LEMMA MovesStay ==
  ASSUME SocketInv, NEW p \in Run,
         \/ StartRefused(p) \/ Bind(p) \/ BindTaken(p) \/ ProbeAnswered(p) \/ ProbeRefused(p)
         \/ Remove(p) \/ BindFails(p) \/ Listen(p) \/ Serve(p) \/ LeaveLoop(p) \/ DropControl(p)
         \/ DropReceiver(p) \/ Exit(p) \/ Crash(p)
  PROVE  /\ OthersStay(p)
         /\ launch' = launch /\ phase'[p] # "off" /\ company' = company /\ raced' = raced
         /\ phase'[p] \in Alive => phase[p] \in Alive
         /\ phase[p] \in Alive => file'[Key(p)] \in {file[Key(p)], p, NoOne}
<1>1. PICK x \in Phase \ {"off"} :
        phase' = [phase EXCEPT ![p] = x] /\ (x \in Alive => phase[p] \in Alive)
  BY DEF StartRefused, Bind, BindTaken, ProbeAnswered, ProbeRefused, Remove, BindFails, Without,
         Listen, Serve, LeaveLoop, DropControl, DropReceiver, Exit, Crash, Phase, Alive,
         Starting, Looping
<1>2. launch' = launch /\ company' = company /\ raced' = raced
  BY DEF StartRefused, Bind, BindTaken, ProbeAnswered, ProbeRefused, Remove, BindFails, Without,
         Listen, Serve, LeaveLoop, DropControl, DropReceiver, Exit, Crash, history
<1>3. \/ file' = file
      \/ phase[p] \in Alive /\ \E v \in {p, NoOne} : file' = [file EXCEPT ![Key(p)] = v]
  BY DEF StartRefused, Bind, BindTaken, ProbeAnswered, ProbeRefused, Remove, BindFails, Without,
         Listen, Serve, LeaveLoop, DropControl, DropReceiver, Exit, Crash, Alive, Starting,
         Looping
<1>4. \A q \in Run \ {p} : ctrl'[q] = ctrl[q]
  <2>1. ctrl' = ctrl \/ \E v \in {"another", "io", "on"} : ctrl' = [ctrl EXCEPT ![p] = v]
    BY DEF StartRefused, Bind, BindTaken, ProbeAnswered, ProbeRefused, Remove, BindFails, Without,
           Listen, Serve, LeaveLoop, DropControl, DropReceiver, Exit, Crash
  <2> QED BY <2>1 DEF SocketInv, SocketType
<1>5. /\ phase'[p] = x
      /\ \A q \in Run \ {p} : phase'[q] = phase[q]
  BY <1>1 DEF SocketInv, SocketType
<1>6. /\ \A d \in Dirs : file'[d] # file[d] => phase[p] \in Alive /\ d = Key(p)
      /\ phase[p] \in Alive => file'[Key(p)] \in {file[Key(p)], p, NoOne}
  BY <1>3, KeyInDirs DEF SocketInv, SocketType
<1> QED BY <1>1, <1>2, <1>4, <1>5, <1>6 DEF OthersStay

\* The reason a moving instance gives, and what it finds where it goes next.
LEMMA MovesKeepCause ==
  ASSUME SocketInv, CauseInv, NEW p \in Run,
         \/ StartRefused(p) \/ Bind(p) \/ BindTaken(p) \/ ProbeAnswered(p) \/ ProbeRefused(p)
         \/ Remove(p) \/ BindFails(p) \/ Listen(p) \/ Serve(p) \/ LeaveLoop(p) \/ DropControl(p)
         \/ DropReceiver(p) \/ Exit(p) \/ Crash(p)
  PROVE  CauseInv'
<1>m. /\ OthersStay(p)
      /\ launch' = launch /\ phase'[p] # "off" /\ company' = company /\ raced' = raced
      /\ phase'[p] \in Alive => phase[p] \in Alive
      /\ phase[p] \in Alive => file'[Key(p)] \in {file[Key(p)], p, NoOne}
  BY MovesStay
<1>k. Key(p)' = Key(p)
  BY <1>m, KeySame
<1>1. PathIsOfKey'
  BY <1>m, PathKept
<1>2. StaleIsReplaced'
  <2>1. ASSUME Alone(p), ProbeAnswered(p) \/ BindFails(p) PROVE FALSE
    <3>1. Key(p) \in Dirs /\ Undisturbed(p)
      BY <2>1, KeyInDirs DEF SocketInv, CauseInv, AloneIsUndisturbed, Alone, Alive
    <3>2. CASE ProbeAnswered(p)
      <4>1. PICK q \in Run : q = file[Key(p)] /\ Listens(q) /\ Key(q) = Key(p)
        BY <3>1, <3>2 DEF ProbeAnswered, Listens, CauseInv, PathIsOfKey
      <4>2. q # p /\ phase[q] \in Alive
        BY <3>2, <4>1 DEF ProbeAnswered, Listens, Alive, Starting
      <4> QED BY <3>1, <4>1, <4>2 DEF Undisturbed
    <3>3. CASE BindFails(p)
      <4>1. phase[p] # "listening"
        BY <2>1, <3>3, LaunchAssumption DEF BindFails, Alone, SocketInv, BoundIsTheirs
      <4> QED BY <3>1, <3>3, <4>1 DEF BindFails, Undisturbed
    <3> QED BY <2>1, <3>2, <3>3
  <2>2. CASE ProbeAnswered(p) \/ BindFails(p)
    <3>1. phase[p] \in Starting
      BY <2>2 DEF ProbeAnswered, BindFails, Starting
    <3> QED BY <2>1, <2>2, <3>1, <1>m, <1>k, ReasonsKept DEF Alone
  <2>3. CASE ~(ProbeAnswered(p) \/ BindFails(p))
    <3>1. ctrl' = ctrl \/ ctrl' = [ctrl EXCEPT ![p] = "on"]
      BY <2>3 DEF StartRefused, Bind, BindTaken, ProbeRefused, Remove, Listen, Serve, LeaveLoop,
                  DropControl, DropReceiver, Exit, Crash
    <3>2. ctrl'[p] = ctrl[p] \/ ctrl'[p] = "on"
      BY <3>1 DEF SocketInv, SocketType
    <3> QED BY <3>2, <1>m, ReasonsKept
  <2> QED BY <2>2, <2>3
<1>3. ASSUME NEW r \in Run, r # p, Alone(r)' PROVE Undisturbed(r)'
  BY <1>3, <1>m, OthersUndisturbed
<1>4. ASSUME Alone(p)' PROVE Undisturbed(p)'
  <2>1. phase[p] \in Starting
    BY <1>4 DEF Alone, StartRefused, Bind, BindTaken, ProbeAnswered, ProbeRefused, Remove,
                BindFails, Without, Listen, Serve, LeaveLoop, DropControl, DropReceiver, Exit,
                Crash, Starting, SocketInv, SocketType
  <2>2. Undisturbed(p) /\ Key(p) \in Dirs
    BY <1>4, <1>m, <1>k, <2>1, KeyInDirs DEF Alone, CauseInv, AloneIsUndisturbed, SocketInv, Alive
  <2>3. \A q \in Run \ {p} : phase'[q] \in Alive => Key(q)' # Key(p)
    BY <1>m, <2>2, KeySame DEF OthersStay, Undisturbed
  <2>4. phase'[p] \in {"taken", "remove"} => file'[Key(p)] # NoOne
    <3>1. phase'[p] \in {"taken", "remove"} => BindTaken(p) \/ ProbeRefused(p)
      BY DEF StartRefused, Bind, BindTaken, ProbeAnswered, ProbeRefused, Remove, BindFails,
             Without, Listen, Serve, LeaveLoop, DropControl, DropReceiver, Exit, Crash,
             SocketInv, SocketType
    <3>2. BindTaken(p) \/ ProbeRefused(p) => file[Key(p)] # NoOne /\ file' = file
      BY <2>2 DEF BindTaken, ProbeRefused, Undisturbed
    <3> QED BY <3>1, <3>2
  <2>5. phase'[p] = "rebind" => file'[Key(p)] = NoOne
    <3>1. phase'[p] = "rebind" => Remove(p)
      BY DEF StartRefused, Bind, BindTaken, ProbeAnswered, ProbeRefused, Remove, BindFails,
             Without, Listen, Serve, LeaveLoop, DropControl, DropReceiver, Exit, Crash,
             SocketInv, SocketType
    <3> QED BY <3>1, <2>2 DEF Remove, SocketInv, SocketType
  <2> QED BY <1>k, <2>3, <2>4, <2>5 DEF Undisturbed
<1>5. OffIsSilent'
  BY <1>m DEF CauseInv, OffIsSilent, OthersStay
<1> QED BY <1>1, <1>2, <1>3, <1>4, <1>5 DEF CauseInv, AloneIsUndisturbed

\* A start beside another is remembered in company, beside one that starts in raced.
LEMMA StartKeepsCause ==
  ASSUME SocketInv, CauseInv, NEW p \in Run, Start(p)
  PROVE  CauseInv'
<1> PICK l \in Launches :
      /\ launch' = [launch EXCEPT ![p] = l]
      /\ raced' = IF Beside(InstanceDir(l), Starting) # {} THEN raced \cup {InstanceDir(l)} ELSE raced
      /\ company' = IF Beside(InstanceDir(l), Alive) # {} THEN company \cup {p} ELSE company
  BY DEF Start
<1>p. /\ phase[p] = "off" /\ phase' = [phase EXCEPT ![p] = "bind"]
      /\ file' = file /\ ctrl' = ctrl
  BY DEF Start
<1>a. /\ phase'[p] = "bind" /\ launch'[p] = l
      /\ \A q \in Run \ {p} : phase'[q] = phase[q] /\ launch'[q] = launch[q]
  BY <1>p DEF SocketInv, SocketType
<1>k. Key(p)' = InstanceDir(l) /\ \A q \in Run \ {p} : Key(q)' = Key(q)
  BY <1>a, KeySame, KeyNew
<1>o. OthersStay(p)
  BY <1>p, <1>a DEF OthersStay
<1>n. phase[p] \notin Alive
  BY <1>p DEF Alive, Starting, Looping
<1>1. PathIsOfKey'
  BY <1>p, <1>a, <1>o, <1>n, PathKept
<1>2. ASSUME NEW r \in Run, r # p, Alone(r)' PROVE Undisturbed(r)'
  <2>1. phase[r] \in Starting /\ InstanceDir(l) = Key(r) => Key(r) \in raced'
    <3> SUFFICES ASSUME phase[r] \in Starting, InstanceDir(l) = Key(r) PROVE Key(r) \in raced'
      OBVIOUS
    <3>1. r \in Beside(InstanceDir(l), Starting)
      BY DEF Beside
    <3> QED BY <3>1
  <2> QED BY <1>2, <1>k, <1>o, <2>1, OthersUndisturbed
<1>3. ASSUME Alone(p)' PROVE Undisturbed(p)'
  <2>1. Beside(InstanceDir(l), Alive) = {}
    BY <1>3 DEF Alone
  <2> QED BY <1>a, <1>k, <2>1 DEF Beside, Undisturbed
<1>4. StaleIsReplaced'
  <2>1. ctrl[p] \notin {"another", "io"}
    BY <1>p DEF CauseInv, OffIsSilent
  <2> QED BY <1>o, <1>p, <2>1, ReasonsKept
<1>5. OffIsSilent'
  BY <1>a, <1>o DEF CauseInv, OffIsSilent, OthersStay
<1> QED BY <1>1, <1>2, <1>3, <1>4, <1>5 DEF CauseInv, AloneIsUndisturbed

LEMMA CauseNext == SocketInv /\ CauseInv /\ [Next]_vars => CauseInv'
<1> SUFFICES ASSUME SocketInv, CauseInv, [Next]_vars PROVE CauseInv'
  OBVIOUS
<1>1. ASSUME NEW r \in Run, StartStep(r) PROVE CauseInv'
  BY <1>1, StartKeepsCause, MovesKeepCause DEF StartStep
<1>2. ASSUME NEW r \in Run, EndStep(r) \/ QuitHere(r) \/ Crash(r) PROVE CauseInv'
  BY <1>2, MovesKeepCause DEF EndStep, QuitHere, QuitAsked
<1>3. ASSUME UNCHANGED <<file, phase, ctrl, launch, history>> PROVE CauseInv'
  <2>1. \A r \in Run : Key(r)' = Key(r)
    BY <1>3, KeySame
  <2>2. /\ file' = file /\ phase' = phase /\ ctrl' = ctrl /\ raced' = raced /\ company' = company
    BY <1>3 DEF history
  <2> QED BY <2>1, <2>2 DEF CauseInv, PathIsOfKey, AloneIsUndisturbed, Alone, Undisturbed,
                            OffIsSilent, StaleIsReplaced
<1>4. ASSUME NEW c \in Client,
             ClientStep(c) \/ ReadTimeout(c) \/ ServeStep(c) \/ ReplyTimeout(c)
               \/ Handle(c) \/ FinishParked(c)
      PROVE  UNCHANGED <<file, phase, ctrl, launch, history>>
  BY <1>4 DEF ClientStep, Refused, Connect, Send, ReadReply, ReadEnd, DrainEnds, ReadTimeout,
              ServeStep, ReadRequest, WriteReply, Close, ReplyTimeout, FinishParked, Handle,
              runVars
<1>5. CASE UNCHANGED vars
  BY <1>3, <1>5 DEF vars, runVars
<1> QED BY <1>1, <1>2, <1>3, <1>4, <1>5 DEF Next

\* For any instances and launches: an instance that comes up without its socket had
\* another of its project beside it when it started; a socket that a crash left behind
\* is replaced (control.rs:81-113).
THEOREM StaleIsAlwaysReplaced == Spec => []StaleIsReplaced
<1>1. SocketInv /\ CauseInv /\ [Next]_vars => (SocketInv /\ CauseInv)'
  BY SocketNext, CauseNext
<1>2. CauseInv => StaleIsReplaced
  BY DEF CauseInv
<1> QED BY SocketInit, CauseInit, <1>1, <1>2, PTL DEF Spec

------------------------------------------------------------------------------
(* The clients' exit codes: 3 is only said when nobody serves, and 0 only when
   the loop agreed. *)

Code == {NoExit, 0, 1, 2, 3}

ClientType ==
  /\ cpc \in [Client -> {"start", "connected", "reading", "draining", "done"}]
  /\ ask \in [Client -> Asks \cup {NoOne}]
  /\ at \in [Client -> Run \cup {NoOne}]
  /\ thread \in [Client -> {"none", "accepted", "waiting", "replied", "closed"}]
  /\ request \in [Client -> {"none", "queued", "parked", "answered", "dropped"}]
  /\ answer \in [Client -> Kind \cup {"none"}]
  /\ exit \in [Client -> Code]
  /\ DOMAIN wire = Client

\* What a client has seen so far, and what the loop has decided.
Honest(c) ==
  /\ cpc[c] = "start" => exit[c] = NoExit /\ thread[c] = "none"
  /\ thread[c] # "none" => at[c] \in Run /\ phase[at[c]] # "off"
  /\ thread[c] \in {"none", "accepted"} => request[c] = "none"
  /\ thread[c] \in {"none", "accepted", "waiting"} => wire[c] = NoKeys
  /\ request[c] = "answered" => answer[c] \in Kind
  /\ cpc[c] = "draining" => wire[c] # NoKeys
  /\ wire[c] # NoKeys /\ Decode(wire[c]) # "Error" => request[c] = "answered" /\ answer[c] # "Error"

ClientInv == ClientType /\ (\A c \in Client : Honest(c)) /\ ExitTellsTruth

------------------------------------------------------------------------------
(* The wire *)

LEMMA VariantsAre ==
  /\ DOMAIN Variants = 1 .. 5
  /\ Variants[1] = [kind |-> "Error",  needs |-> {"ok", "error"}]
  /\ Variants[2] = [kind |-> "Status", needs |-> {"ok", "pid", "dir", "procs"}]
  /\ Variants[3] = [kind |-> "Logs",   needs |-> {"ok", "lines"}]
  /\ Variants[4] = [kind |-> "Acted",  needs |-> {"ok", "started", "skipped"}]
  /\ Variants[5] = [kind |-> "Done",   needs |-> {"ok"}]
BY DEF Variants

LEMMA KindsAre == Kind = {"Error", "Status", "Logs", "Acted", "Done"}
<1>1. \A i \in 1 .. 5 : i = 1 \/ i = 2 \/ i = 3 \/ i = 4 \/ i = 5
  OBVIOUS
<1> QED BY <1>1, VariantsAre DEF Kind

\* The first variant all of whose keys are there.
LEMMA DecodeIs ==
  ASSUME NEW keys, NEW n \in 1 .. 5, Variants[n].needs \subseteq keys,
         \A i \in 1 .. n - 1 : ~(Variants[i].needs \subseteq keys)
  PROVE  Decode(keys) = Variants[n].kind
<1> DEFINE fits == {i \in DOMAIN Variants : Variants[i].needs \subseteq keys}
<1>1. n \in fits /\ \A i \in fits : n <= i
  BY VariantsAre
<1>2. \A i \in fits : (\A j \in fits : i <= j) => i = n
  BY <1>1, VariantsAre
<1>3. (CHOOSE i \in fits : \A j \in fits : i <= j) = n
  BY <1>1, <1>2
<1> QED BY <1>3 DEF Decode

LEMMA EncodeIs ==
  ASSUME NEW n \in 1 .. 5, NEW m \in BOOLEAN
  PROVE  Encode(Variants[n].kind, m)
           = Variants[n].needs \cup (IF Variants[n].kind = "Acted" /\ m THEN {"markers"} ELSE {})
<1> DEFINE all == {Variants[i] : i \in DOMAIN Variants}
<1>1. Variants[n] \in all
  BY VariantsAre
<1>2. \A v \in all : v.kind = Variants[n].kind => v = Variants[n]
  <2>1. \A i, j \in 1 .. 5 : Variants[i].kind = Variants[j].kind => i = j
    BY VariantsAre
  <2> QED BY <2>1, VariantsAre
<1>3. (CHOOSE v \in all : v.kind = Variants[n].kind) = Variants[n]
  BY <1>1, <1>2
<1> QED BY <1>3 DEF Encode

\* A reply is told from every other: no variant declared before its own fits it.
LEMMA ReplyIsRead ==
  ASSUME NEW kind \in Kind, NEW m \in BOOLEAN
  PROVE  Encode(kind, m) # NoKeys /\ Decode(Encode(kind, m)) = kind
<1> PICK n \in 1 .. 5 : kind = Variants[n].kind
  BY VariantsAre DEF Kind
<1> DEFINE keys == Encode(kind, m)
<1>1. keys = Variants[n].needs \cup (IF kind = "Acted" /\ m THEN {"markers"} ELSE {})
  BY EncodeIs
<1>2. Variants[n].needs \subseteq keys /\ "ok" \in keys
  BY <1>1, VariantsAre
<1>3. \A i \in 1 .. n - 1 : ~(Variants[i].needs \subseteq keys)
  <2>1. "error" \in keys => n = 1
    BY <1>1, VariantsAre
  <2>2. "pid" \in keys => n = 2
    BY <1>1, VariantsAre
  <2>3. "lines" \in keys => n = 3
    BY <1>1, VariantsAre
  <2>4. "started" \in keys => n = 4
    BY <1>1, VariantsAre
  <2> QED BY <2>1, <2>2, <2>3, <2>4, VariantsAre
<1> QED BY <1>2, <1>3, DecodeIs DEF NoKeys
------------------------------------------------------------------------------
(* One client's step leaves the others *)

LEMMA ClientInit == Init => ClientInv
<1> SUFFICES ASSUME Init PROVE ClientInv
  OBVIOUS
<1>1. ClientType
  BY DEF Init, ClientType, Code
<1>2. \A c \in Client : Honest(c)
  BY DEF Init, Honest
<1>3. ExitTellsTruth
  BY DEF Init, ExitTellsTruth, NoExit
<1> QED BY <1>1, <1>2, <1>3 DEF ClientInv

\* An exit code of 0 that was earned.
Earned(c) ==
  \/ request[c] = "answered" /\ answer[c] # "Error"
  \/ QuitAndWait(c) /\ InstanceIs(c, {"gone"})

\* The instances' steps: an instance that is there does not come to be "off", one that
\* is gone stays gone, and a request is at most dropped.
PhasesMove ==
  \A r \in Run : /\ phase'[r] = "off" => phase[r] = "off"
                 /\ phase[r] = "gone" => phase'[r] = "gone"

RequestsFade ==
  /\ request' \in [Client -> {"none", "queued", "parked", "answered", "dropped"}]
  /\ \A c \in Client : /\ request[c] \in {"none", "answered"} => request'[c] = request[c]
                       /\ request'[c] = "answered" => request[c] = "answered"
                       /\ request'[c] = "none" => request[c] = "none"

InstancesMove ==
  PhasesMove /\ RequestsFade /\ UNCHANGED <<thread, answer, wire, cpc, ask, at, exit>>

LEMMA InstancesKeep == ClientInv /\ InstancesMove => ClientInv'
<1> SUFFICES ASSUME ClientInv, InstancesMove PROVE ClientInv'
  OBVIOUS
<1>u. /\ thread' = thread /\ answer' = answer /\ wire' = wire
      /\ cpc' = cpc /\ ask' = ask /\ at' = at /\ exit' = exit
  BY DEF InstancesMove
<1>1. ClientType'
  BY <1>u DEF ClientInv, ClientType, InstancesMove, RequestsFade
<1>2. \A c \in Client : Honest(c)'
  BY <1>u DEF ClientInv, Honest, InstancesMove, PhasesMove, RequestsFade, Decode
<1>3. ExitTellsTruth'
  <2> SUFFICES ASSUME NEW c \in Client, exit[c] = 0
               PROVE  \/ request'[c] = "answered" /\ answer'[c] # "Error"
                      \/ QuitAndWait(c)' /\ InstanceIs(c, {"gone"})'
    BY <1>u DEF ExitTellsTruth
  <2>1. CASE request[c] = "answered" /\ answer[c] # "Error"
    BY <2>1, <1>u DEF InstancesMove, RequestsFade
  <2>2. CASE QuitAndWait(c) /\ InstanceIs(c, {"gone"})
    <3>1. at[c] \in Run
      BY <2>2 DEF InstanceIs, ClientInv, ClientType
    <3> QED BY <2>2, <3>1, <1>u DEF InstanceIs, InstancesMove, PhasesMove, QuitAndWait, AsksQuit
  <2> QED BY <2>1, <2>2 DEF ClientInv, ExitTellsTruth
<1> QED BY <1>1, <1>2, <1>3 DEF ClientInv

\* A step of one client or of its connection: the instances stay as they are, and so
\* does all that belongs to the others.
OnlyOf(c) ==
  /\ UNCHANGED phase
  /\ \A o \in Client \ {c} :
       /\ cpc'[o] = cpc[o] /\ ask'[o] = ask[o] /\ at'[o] = at[o] /\ exit'[o] = exit[o]
       /\ thread'[o] = thread[o] /\ request'[o] = request[o] /\ answer'[o] = answer[o]
       /\ wire'[o] = wire[o]

LEMMA OnlyOfKeeps ==
  ASSUME ClientInv, NEW c \in Client, OnlyOf(c), ClientType', Honest(c)',
         exit'[c] = 0 => Earned(c)'
  PROVE  ClientInv'
<1>1. ASSUME NEW o \in Client \ {c} PROVE Honest(o)'
  <2>1. Decode(wire[o])' = Decode(wire[o])
    BY DEF OnlyOf, Decode
  <2> QED BY <2>1 DEF ClientInv, Honest, OnlyOf
<1>2. ASSUME NEW o \in Client \ {c}, exit'[o] = 0 PROVE Earned(o)'
  BY <1>2 DEF ClientInv, ExitTellsTruth, OnlyOf, Earned, QuitAndWait, AsksQuit, InstanceIs
<1>3. ExitTellsTruth'
  BY <1>2 DEF ExitTellsTruth, Earned
<1> QED BY <1>1, <1>3 DEF ClientInv

------------------------------------------------------------------------------
(* Every step *)

LEMMA InstanceSteps ==
  ASSUME SocketInv, ClientInv, NEW r \in Run, StartStep(r) \/ EndStep(r) \/ QuitHere(r) \/ Crash(r)
  PROVE  InstancesMove
<1>1. PICK x \in Phase \ {"off"} : phase' = [phase EXCEPT ![r] = x] /\ phase[r] # "gone"
  BY DEF StartStep, StartRefused, Start, Bind, BindTaken, ProbeAnswered, ProbeRefused, Remove,
         BindFails, Without, Listen, Serve, EndStep, QuitHere, QuitAsked, LeaveLoop, DropControl,
         DropReceiver, Exit, Crash, Phase, Alive, Starting, Looping
<1>2. UNCHANGED <<thread, answer, wire, cpc, ask, at, exit>>
  BY DEF StartStep, StartRefused, Start, Bind, BindTaken, ProbeAnswered, ProbeRefused, Remove,
         BindFails, Without, Listen, Serve, EndStep, QuitHere, QuitAsked, LeaveLoop, DropControl,
         DropReceiver, Exit, Crash, serveVars, clientVars
<1>3. UNCHANGED request \/ Forget(r, {"parked"}) \/ Forget(r, {"queued"})
  BY DEF StartStep, StartRefused, Start, Bind, BindTaken, ProbeAnswered, ProbeRefused, Remove,
         BindFails, Without, Listen, Serve, EndStep, QuitHere, QuitAsked, LeaveLoop, DropControl,
         DropReceiver, Exit, Crash, serveVars
<1>4. PhasesMove
  BY <1>1 DEF PhasesMove, SocketInv, SocketType
<1>5. RequestsFade
  BY <1>3 DEF RequestsFade, Forget, ClientInv, ClientType
<1> QED BY <1>2, <1>4, <1>5 DEF InstancesMove

LEMMA HandleKeeps ==
  ASSUME ClientInv, NEW c \in Client, Handle(c) \/ FinishParked(c)
  PROVE  ClientInv'
<1>1. /\ UNCHANGED <<phase, thread, wire, clientVars>>
      /\ request[c] \in {"queued", "parked"}
      /\ \/ request' = [request EXCEPT ![c] = "parked"] /\ answer' = answer
         \/ /\ request' = [request EXCEPT ![c] = "answered"]
            /\ \E k \in Kind : answer' = [answer EXCEPT ![c] = k]
  <2>1. CASE Handle(c)
    <3>1. \A o \in Outcomes(at[c], ask[c].sub) : o \in Kind \cup {"parked"}
      BY KindsAre DEF Outcomes
    <3> QED BY <2>1, <3>1 DEF Handle, runVars
  <2>2. CASE FinishParked(c)
    BY <2>2, KindsAre DEF FinishParked, runVars
  <2> QED BY <2>1, <2>2
<1>u. /\ cpc' = cpc /\ ask' = ask /\ at' = at /\ exit' = exit
  BY <1>1 DEF clientVars
<1>2. OnlyOf(c)
  BY <1>1, <1>u DEF OnlyOf, ClientInv, ClientType
<1>3. ClientType'
  BY <1>1, <1>u DEF ClientInv, ClientType
<1>4. Honest(c)'
  <2>1. Decode(wire[c])' = Decode(wire[c])
    BY <1>1 DEF Decode
  <2> QED BY <1>1, <1>u, <2>1, KindsAre DEF ClientInv, ClientType, Honest
<1>5. exit'[c] = 0 => Earned(c)'
  BY <1>1, <1>u DEF ClientInv, ClientType, ExitTellsTruth, Earned, QuitAndWait, AsksQuit, InstanceIs
<1> QED BY <1>2, <1>3, <1>4, <1>5, OnlyOfKeeps

\* serve_one writes what the loop answered, or a refusal of its own.
LEMMA ThreadKeeps ==
  ASSUME ClientInv, NEW c \in Client,
         ReadRequest(c) \/ WriteReply(c) \/ ReplyTimeout(c) \/ Close(c)
  PROVE  ClientInv'
<1>u. /\ phase' = phase /\ answer' = answer
      /\ cpc' = cpc /\ ask' = ask /\ at' = at /\ exit' = exit
  BY DEF ReadRequest, WriteReply, ReplyTimeout, Close, runVars, clientVars
<1>a. thread[c] # "none" /\ (thread[c] = "accepted" \/ request' = request)
  BY DEF ReadRequest, WriteReply, ReplyTimeout, Close
<1>w. \A k, n : Put(c, k, n) => DOMAIN wire' = Client
  BY DEF Put, ClientInv, ClientType
<1>t. ClientType' /\ OnlyOf(c)
  <2>1. thread' \in [Client -> {"none", "accepted", "waiting", "replied", "closed"}]
    BY DEF ReadRequest, WriteReply, ReplyTimeout, Close, Put, ClientInv, ClientType
  <2>2. request' \in [Client -> {"none", "queued", "parked", "answered", "dropped"}]
    BY DEF ReadRequest, WriteReply, ReplyTimeout, Close, ClientInv, ClientType
  <2>3. DOMAIN wire' = Client
    BY <1>w DEF ReadRequest, WriteReply, ReplyTimeout, Close, ClientInv, ClientType
  <2>4. \A o \in Client \ {c} :
          thread'[o] = thread[o] /\ request'[o] = request[o] /\ wire'[o] = wire[o]
    BY DEF ReadRequest, WriteReply, ReplyTimeout, Close, Put, ClientInv, ClientType
  <2> QED BY <1>u, <2>1, <2>2, <2>3, <2>4 DEF ClientInv, ClientType, OnlyOf
<1>h. Honest(c)'
  <2>1. ASSUME NEW k \in Kind, Put(c, k, "replied"),
               request' = request,
               k # "Error" => request[c] = "answered" /\ answer[c] # "Error"
        PROVE  Honest(c)'
    <3>1. thread'[c] = "replied"
      BY <2>1 DEF Put, ClientInv, ClientType
    <3>2. wire'[c] # NoKeys /\ Decode(wire'[c]) = k
      <4>1. wire'[c] = Encode(k, request[c] = "answered" /\ ask[c].sub.wait)
        BY <2>1 DEF Put, ClientInv, ClientType
      <4>2. (request[c] = "answered" /\ ask[c].sub.wait) \in BOOLEAN
        OBVIOUS
      <4> QED BY <4>1, <4>2, ReplyIsRead
    <3>3. Decode(wire[c])' = Decode(wire'[c])
      BY DEF Decode
    <3> QED BY <1>u, <1>a, <2>1, <3>1, <3>2, <3>3 DEF ClientInv, Honest
  <2>2. CASE ReadRequest(c) /\ ~Put(c, "Error", "replied")
    <3>1. /\ request'[c] = "queued" /\ thread'[c] = "waiting" /\ wire' = wire
      BY <2>2 DEF ReadRequest, ClientInv, ClientType
    <3>2. wire[c] = NoKeys
      BY <2>2 DEF ReadRequest, ClientInv, Honest
    <3> QED BY <1>u, <1>a, <3>1, <3>2 DEF ClientInv, Honest
  <2>3. CASE ReadRequest(c) /\ Put(c, "Error", "replied")
    BY <2>1, <2>3, KindsAre DEF ReadRequest, ClientInv, ClientType, Put
  <2>4. CASE WriteReply(c)
    <3>1. CASE request[c] = "answered"
      BY <2>1, <2>4, <3>1, KindsAre DEF WriteReply, ClientInv, Honest
    <3>2. CASE request[c] # "answered"
      BY <2>1, <2>4, <3>2, KindsAre DEF WriteReply
    <3> QED BY <3>1, <3>2
  <2>5. CASE ReplyTimeout(c)
    BY <2>1, <2>5, KindsAre DEF ReplyTimeout
  <2>6. CASE Close(c)
    <3>1. Decode(wire[c])' = Decode(wire[c])
      BY <2>6 DEF Close, Decode
    <3> QED BY <1>u, <2>6, <3>1 DEF Close, ClientInv, ClientType, Honest
  <2> QED BY <2>2, <2>3, <2>4, <2>5, <2>6
<1>e. exit'[c] = 0 => Earned(c)'
  <2>1. request[c] = "answered" => request' = request
    BY <1>a DEF ClientInv, Honest
  <2> QED BY <1>u, <2>1 DEF ClientInv, ExitTellsTruth, Earned, QuitAndWait, AsksQuit, InstanceIs
<1> QED BY <1>t, <1>h, <1>e, OnlyOfKeeps

\* A client that starts: it is refused, or connects, or finds nobody.
LEMMA BeginKeeps ==
  ASSUME ClientInv, NEW c \in Client, Refused(c) \/ Connect(c)
  PROVE  ClientInv'
<1>u. /\ phase' = phase /\ request' = request /\ answer' = answer /\ wire' = wire
      /\ cpc[c] = "start" /\ thread[c] = "none" /\ exit[c] = NoExit
  BY DEF Refused, Connect, runVars, serveVars, ClientInv, Honest
<1>1. \/ /\ cpc' = [cpc EXCEPT ![c] = "done"] /\ UNCHANGED <<at, thread>>
         /\ \E e \in {2, 3} : exit' = [exit EXCEPT ![c] = e]
      \/ /\ cpc' = [cpc EXCEPT ![c] = "connected"] /\ UNCHANGED exit
         /\ thread' = [thread EXCEPT ![c] = "accepted"]
         /\ \E x \in Run : phase[x] # "off" /\ at' = [at EXCEPT ![c] = x]
  BY DEF Refused, Connect, Ends, Listens, serveVars, Alive, Starting, Looping
<1>2. \E a \in Asks : ask' = [ask EXCEPT ![c] = a]
  BY DEF Refused, Connect
<1>3. ClientType' /\ OnlyOf(c)
  BY <1>u, <1>1, <1>2 DEF ClientInv, ClientType, OnlyOf, Code
<1>4. Honest(c)'
  <2>1. Decode(wire[c])' = Decode(wire[c])
    BY <1>u DEF Decode
  <2>2. request[c] = "none" /\ wire[c] = NoKeys
    BY <1>u DEF ClientInv, Honest
  <2>3. cpc'[c] \in {"connected", "done"}
    BY <1>1 DEF ClientInv, ClientType
  <2>4. \/ thread'[c] = "none" 
        \/ thread'[c] = "accepted" /\ at'[c] \in Run /\ phase[at'[c]] # "off"
    BY <1>u, <1>1 DEF ClientInv, ClientType
  <2> QED BY <1>u, <2>1, <2>2, <2>3, <2>4 DEF Honest
<1>5. exit'[c] # 0
  BY <1>u, <1>1 DEF ClientInv, ClientType, NoExit
<1> QED BY <1>3, <1>4, <1>5, OnlyOfKeeps

\* A client that reads: it reports 0 for a reply that was no refusal, and for the end
\* of an instance it asked to quit.
LEMMA ReadKeeps ==
  ASSUME SocketInv, ClientInv, NEW c \in Client,
         Send(c) \/ ReadReply(c) \/ ReadEnd(c) \/ ReadTimeout(c) \/ DrainEnds(c)
  PROVE  ClientInv'
<1>u. /\ phase' = phase /\ request' = request /\ answer' = answer /\ wire' = wire
      /\ ask' = ask /\ at' = at /\ thread' = thread /\ cpc[c] # "start"
  BY DEF Send, ReadReply, ReadEnd, ReadTimeout, DrainEnds, runVars, serveVars
<1>1. PICK p \in {"reading", "draining", "done"}, e \in Code :
        /\ cpc' = [cpc EXCEPT ![c] = p] /\ exit' = [exit EXCEPT ![c] = e]
        /\ p = "draining" => wire[c] # NoKeys
        /\ e = 0 => \/ exit[c] = 0
                    \/ wire[c] # NoKeys /\ Decode(wire[c]) # "Error"
                    \/ QuitAndWait(c) /\ thread[c] = "waiting" /\ ~Up(c)
  <2>0. \A k : ExitCode(k) \in {0, 1} /\ (ExitCode(k) = 0 => k # "Error")
    BY DEF ExitCode
  <2>1. exit = [exit EXCEPT ![c] = exit[c]] /\ exit[c] \in Code
    BY DEF ClientInv, ClientType
  <2>2. CASE Send(c)
    BY <2>1, <2>2 DEF Send, Ends, Code
  <2>3. CASE ReadReply(c)
    <3>1. CASE QuitAndWait(c)
      BY <2>1, <2>3, <3>1 DEF ReadReply
    <3>2. CASE ~QuitAndWait(c)
      <4>1. /\ cpc' = [cpc EXCEPT ![c] = "done"]
            /\ exit' = [exit EXCEPT ![c] = ExitCode(Decode(wire[c]))]
            /\ wire[c] # NoKeys
        BY <2>3, <3>2 DEF ReadReply, Ends
      <4> QED BY <2>0, <4>1 DEF Code
    <3> QED BY <3>1, <3>2
  <2>4. CASE ReadEnd(c)
    <3>1. PICK e \in {0, 1} : Ends(c, e) /\ (e = 0 => QuitAndWait(c) /\ thread[c] = "waiting")
      BY <2>4 DEF ReadEnd
    <3> QED BY <2>4, <3>1 DEF ReadEnd, Ends, Code
  <2>5. CASE ReadTimeout(c)
    BY <2>5 DEF ReadTimeout, Ends, Code
  <2>6. CASE DrainEnds(c)
    <3>1. wire[c] # NoKeys
      BY <2>6 DEF DrainEnds, ClientInv, Honest
    <3> QED BY <2>0, <2>6, <3>1 DEF DrainEnds, Ends, Code
  <2> QED BY <2>2, <2>3, <2>4, <2>5, <2>6
<1>a. cpc'[c] = p /\ exit'[c] = e
  BY <1>1 DEF ClientInv, ClientType
<1>2. ClientType' /\ OnlyOf(c)
  BY <1>u, <1>1 DEF ClientInv, ClientType, OnlyOf
<1>3. Honest(c)'
  <2>1. Decode(wire[c])' = Decode(wire[c])
    BY <1>u DEF Decode
  <2> QED BY <1>u, <1>1, <1>a, <2>1 DEF ClientInv, Honest
<1>4. exit'[c] = 0 => Earned(c)'
  <2> SUFFICES ASSUME e = 0 PROVE Earned(c)'
    BY <1>a
  <2>1. CASE exit[c] = 0
    BY <2>1, <1>u DEF ClientInv, ExitTellsTruth, Earned, QuitAndWait, AsksQuit, InstanceIs
  <2>2. CASE wire[c] # NoKeys /\ Decode(wire[c]) # "Error"
    BY <2>2, <1>u DEF ClientInv, Honest, Earned
  <2>3. CASE QuitAndWait(c) /\ thread[c] = "waiting" /\ ~Up(c)
    <3>1. at[c] \in Run /\ phase[at[c]] \in Phase /\ phase[at[c]] # "off" /\ at[c] # NoOne
      BY <2>3, LaunchAssumption DEF ClientInv, Honest, SocketInv, SocketType
    <3>2. phase[at[c]] = "gone"
      BY <2>3, <3>1 DEF Up, InstanceIs, Phase
    <3> QED BY <2>3, <3>1, <3>2, <1>u DEF Earned, QuitAndWait, AsksQuit, InstanceIs
  <2> QED BY <1>1, <2>1, <2>2, <2>3
<1> QED BY <1>2, <1>3, <1>4, OnlyOfKeeps

LEMMA ClientNext == SocketInv /\ ClientInv /\ [Next]_vars => ClientInv'
<1> SUFFICES ASSUME SocketInv, ClientInv, [Next]_vars PROVE ClientInv'
  OBVIOUS
<1>1. ASSUME NEW r \in Run, StartStep(r) \/ EndStep(r) \/ QuitHere(r) \/ Crash(r)
      PROVE  ClientInv'
  BY <1>1, InstanceSteps, InstancesKeep
<1>2. ASSUME NEW c \in Client,
             ClientStep(c) \/ ReadTimeout(c) \/ ServeStep(c) \/ ReplyTimeout(c)
               \/ Handle(c) \/ FinishParked(c)
      PROVE  ClientInv'
  BY <1>2, HandleKeeps, ThreadKeeps, BeginKeeps, ReadKeeps DEF ClientStep, ServeStep
<1>3. CASE UNCHANGED vars
  <2>1. InstancesMove
    BY <1>3 DEF vars, runVars, serveVars, clientVars, InstancesMove, PhasesMove, RequestsFade,
                ClientInv, ClientType
  <2> QED BY <2>1, InstancesKeep
<1> QED BY <1>1, <1>2, <1>3 DEF Next

LEMMA ClientAlways == Spec => [](SocketInv /\ ClientInv)
<1>1. SocketInv /\ ClientInv /\ [Next]_vars => (SocketInv /\ ClientInv)'
  BY SocketNext, ClientNext
<1> QED BY SocketInit, ClientInit, <1>1, PTL DEF Spec

\* For any instances, clients and requests: exit code 0 means that the loop answered
\* and did not refuse, or that the instance `quit --wait` was sent to is gone, through
\* every timeout, crash and shutdown in between (cli.rs:202-290, control.rs:154-182).
THEOREM ExitsTellTruth == Spec => []ExitTellsTruth
<1>1. ClientInv => ExitTellsTruth
  BY DEF ClientInv
<1> QED BY <1>1, ClientAlways, PTL

------------------------------------------------------------------------------
(* Clients find who serves *)

\* An instance and a client that mean the same project mean the same key.
LEMMA SameProjectSameKey ==
  ASSUME NEW a, NEW l, SameProject(a, l)
  PROVE  ClientDir(a) = InstanceDir(l)
BY DEF SameProject, ClientDir, InstanceDir, FileOf

\* Only a failed connect is reported by 3.
LEMMA ThreeIsNobody ==
  ASSUME ClientInv, Next, NEW c \in Client, exit[c] # 3, exit'[c] = 3
  PROVE  /\ ask'[c] \in Asks /\ Sendable(ask'[c])
         /\ ~Listens(file[ClientDir(ask'[c])])
<1>1. ASSUME NEW r \in Run, StartStep(r) \/ EndStep(r) \/ QuitHere(r) \/ Crash(r)
      PROVE  UNCHANGED exit
  BY <1>1 DEF StartStep, StartRefused, Start, Bind, BindTaken, ProbeAnswered, ProbeRefused,
              Remove, BindFails, Without, Listen, Serve, EndStep, QuitHere, QuitAsked, LeaveLoop,
              DropControl, DropReceiver, Exit, Crash, clientVars
<1>2. ASSUME NEW o \in Client, ServeStep(o) \/ ReplyTimeout(o) \/ Handle(o) \/ FinishParked(o)
      PROVE  UNCHANGED exit
  BY <1>2 DEF ServeStep, ReadRequest, WriteReply, Close, ReplyTimeout, Handle, FinishParked,
              clientVars
<1>3. ASSUME NEW o \in Client, NEW e, e # 3, Ends(o, e)
      PROVE  FALSE
  BY <1>3 DEF Ends, ClientInv, ClientType
<1>4. ASSUME NEW o \in Client, ClientStep(o) \/ ReadTimeout(o), ~Connect(o)
      PROVE  FALSE
  <2>1. UNCHANGED exit \/ \E e \in {0, 1, 2} : Ends(o, e)
    BY <1>4 DEF ClientStep, Refused, Send, ReadReply, ReadEnd, DrainEnds, ReadTimeout, ExitCode
  <2> QED BY <2>1, <1>3
<1>5. PICK o \in Client : Connect(o)
  BY <1>1, <1>2, <1>4 DEF Next
<1>6. PICK a \in Asks : /\ Sendable(a) /\ ask' = [ask EXCEPT ![o] = a]
                        /\ Ends(o, 3) /\ ~Listens(file[ClientDir(a)])
  BY <1>5 DEF Connect
<1>7. o = c /\ ask'[c] = a
  BY <1>6 DEF Ends, ClientInv, ClientType
<1> QED BY <1>6, <1>7

\* For any instances, clients and directories: a client that reports that no krawatte
\* is running is not wrong about an instance of its project that serves.
THEOREM FoundAlways == Spec => FoundWhileServing
<1> DEFINE Overlooks(c) == exit[c] # 3 /\ exit'[c] = 3
           Found(c) == ~\E r \in Run : /\ Serves(r) /\ Key(r) \notin raced
                                       /\ SameProject(ask'[c], launch[r])
<1>1. SocketInv /\ ClientInv /\ [Next]_vars => [\A c \in Client : Overlooks(c) => Found(c)]_vars
  <2> SUFFICES ASSUME SocketInv, ClientInv, Next, NEW c \in Client, Overlooks(c),
                      NEW r \in Run, Serves(r), Key(r) \notin raced,
                      SameProject(ask'[c], launch[r])
               PROVE  FALSE
    OBVIOUS
  <2>1. ~Listens(file[ClientDir(ask'[c])])
    BY ThreeIsNobody
  <2>2. ClientDir(ask'[c]) = Key(r)
    BY SameProjectSameKey DEF Key
  <2>3. file[Key(r)] = r /\ Listens(r)
    BY DEF SocketInv, SocketIsTheirs, Serves, Listens, Looping, Alive, Starting
  <2> QED BY <2>1, <2>2, <2>3
<1> QED BY <1>1, ClientAlways, PTL DEF Spec, FoundWhileServing
==============================================================================

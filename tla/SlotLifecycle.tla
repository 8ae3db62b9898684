---------------------------- MODULE SlotLifecycle ----------------------------
(***************************************************************************)
(* What a slot promises whoever watches its generations: they follow each  *)
(* other one at a time.  A new generation begins, or the slot comes to     *)
(* rest, only at the end of a teardown, and only when no process of an     *)
(* earlier generation is left -- except those given up on.  Once the       *)
(* manager closes, nothing is spawned any more.                            *)
(***************************************************************************)
EXTENDS Integers

CONSTANTS Proc, Gens

VARIABLES
  gen,       \* current generation of each slot
  phase,     \* "settled", "tearing" or "closed"
  alive,     \* generations that still have a process
  givenUp    \* generations no longer waited for

vars == <<gen, phase, alive, givenUp>>

Init ==
  /\ gen = [p \in Proc |-> 0]
  /\ phase = [p \in Proc |-> "settled"]
  /\ alive \in [Proc -> {{}, {0}}]
  /\ givenUp = [p \in Proc |-> {}]

\* A teardown is requested of settled slots.
Request ==
  /\ \E S \in SUBSET Proc :
       /\ \A p \in S : phase[p] = "settled"
       /\ phase' = [p \in Proc |-> IF p \in S THEN "tearing" ELSE phase[p]]
  /\ UNCHANGED <<gen, alive, givenUp>>

\* A teardown ends with the slot's generation gone or given up on ...
Ends(p) ==
  /\ phase[p] = "tearing"
  /\ phase' = [phase EXCEPT ![p] = "settled"]
  /\ givenUp' \in {givenUp, [givenUp EXCEPT ![p] = @ \cup {gen[p]}]}
  /\ alive[p] \subseteq givenUp'[p]

\* ... and the slot at rest, or with the next generation, whose spawn may fail.
Stop(p) == Ends(p) /\ UNCHANGED <<gen, alive>>

Spawn(p) ==
  /\ Ends(p)
  /\ gen' = [gen EXCEPT ![p] = @ + 1]
  /\ alive' \in {alive, [alive EXCEPT ![p] = @ \cup {gen[p] + 1}]}

\* A generation loses its last process.
Die(p) ==
  /\ \E g \in alive[p] : alive' = [alive EXCEPT ![p] = @ \ {g}]
  /\ UNCHANGED <<gen, phase, givenUp>>

Close ==
  /\ phase' = [p \in Proc |-> "closed"]
  /\ UNCHANGED <<gen, alive, givenUp>>

\* The final shutdown gives up on some slots.
Abandon ==
  /\ \A p \in Proc : phase[p] = "closed"
  /\ \E S \in SUBSET Proc :
       givenUp' = [p \in Proc |-> IF p \in S THEN givenUp[p] \cup {gen[p]} ELSE givenUp[p]]
  /\ UNCHANGED <<gen, phase, alive>>

Next ==
  \/ Request \/ Close \/ Abandon
  \/ \E p \in Proc : Stop(p) \/ Spawn(p) \/ Die(p)

Spec == Init /\ [][Next]_vars
==============================================================================

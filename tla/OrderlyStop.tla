----------------------------- MODULE OrderlyStop -----------------------------
(***************************************************************************)
(* What an orderly stop promises about each process group, whatever the    *)
(* polling and the clock do: a group is asked (SIGTERM), then forced       *)
(* (SIGKILL), never the other way round; it is settled only once it has    *)
(* vanished, and given up on only after it was forced.                     *)
(***************************************************************************)
CONSTANT Proc

VARIABLES
  stage,     \* how far the stop of each group has got
  present    \* the group still has a member

vars == <<stage, present>>

Stage == {"idle", "asked", "forced", "settled", "abandoned"}

Init ==
  /\ stage = [p \in Proc |-> "idle"]
  /\ present \in [Proc -> BOOLEAN]

Ask(p)     == stage[p] = "idle" /\ stage'[p] = "asked"
Force(p)   == stage[p] = "asked" /\ stage'[p] = "forced"
Settle(p)  == stage[p] \in {"asked", "forced"} /\ ~present[p] /\ stage'[p] = "settled"
GiveUp(p)  == stage[p] = "forced" /\ stage'[p] = "abandoned"
Leave(p)   == stage'[p] = stage[p]

Advance ==
  /\ stage' \in [Proc -> Stage]
  /\ \A p \in Proc : Ask(p) \/ Force(p) \/ Settle(p) \/ GiveUp(p) \/ Leave(p)
  /\ UNCHANGED present

\* A group loses its last member; nothing brings it back.
Vanish ==
  /\ \E p \in Proc : present[p] /\ present' = [present EXCEPT ![p] = FALSE]
  /\ UNCHANGED stage

Next == Advance \/ Vanish

Spec == Init /\ [][Next]_vars
==============================================================================

------------------------ MODULE ShutdownMachineProofs ------------------------
(***************************************************************************)
(* What the operators of the TERM -> grace -> KILL machine return, for any *)
(* set of slots: the lemmas both users of the machine rest on.             *)
(***************************************************************************)
EXTENDS ShutdownMachine, TLAPS

\* ShutdownMachine::new: a new machine is well formed, and Done exactly when it
\* has nothing to stop.
LEMMA NewMachine ==
  ASSUME NEW S, NEW live \in SUBSET S
  PROVE  /\ New(live) \in Machine(S)
         /\ New(live).live = live
         /\ New(live).abandoned = {}
         /\ New(live).phase = "Done" <=> live = {}
  BY DEF New, Machine, Phase

\* What Harvest makes of a machine that is not Done, case by case: everybody is
\* gone, the grace period is over, the reap timeout is over, or it goes on.
HarvestOutcome(S, m, exited, late) ==
  LET n      == Harvest(m, exited, late)
      left   == m.live \ exited
      killed == KillTargets(m, exited, late)
  IN  /\ n \in Machine(S)
      /\ n.started = m.started
      /\ \/ /\ left = {} /\ n.phase = "Done" /\ n.live = {}
            /\ n.abandoned = m.abandoned /\ killed = {}
         \/ /\ left # {} /\ late /\ m.phase = "Terminating"
            /\ n.phase = "Killing" /\ n.live = left
            /\ n.abandoned = m.abandoned /\ killed = left
         \/ /\ left # {} /\ late /\ m.phase = "Killing"
            /\ n.phase = "Done" /\ n.live = {}
            /\ n.abandoned = left /\ killed = {}
         \/ /\ left # {} /\ ~late
            /\ n.phase = m.phase /\ n.live = left
            /\ n.abandoned = m.abandoned /\ killed = {}

\* step() after its SIGTERM block has one of the four outcomes.
LEMMA HarvestCases ==
  ASSUME NEW S, NEW m \in Machine(S), m.phase # "Done", NEW exited \in SUBSET S,
         NEW late \in BOOLEAN
  PROVE  HarvestOutcome(S, m, exited, late)
  <1> USE DEF HarvestOutcome, Machine, Phase
  <1> DEFINE left == m.live \ exited
  <1>1. CASE left = {}
    BY <1>1 DEF Harvest, KillTargets
  <1>2. CASE left # {} /\ late /\ m.phase = "Terminating"
    BY <1>2 DEF Harvest, KillTargets
  <1>3. CASE left # {} /\ late /\ m.phase = "Killing"
    BY <1>3 DEF Harvest, KillTargets
  <1>4. CASE left # {} /\ ~late
    BY <1>4 DEF Harvest, KillTargets
  <1> QED
    BY <1>1, <1>2, <1>3, <1>4

\* step() keeps a machine that is Done as it is.
LEMMA HarvestDone ==
  ASSUME NEW m, m.phase = "Done", NEW exited, NEW late
  PROVE  /\ Harvest(m, exited, late) = m
         /\ KillTargets(m, exited, late) = {}
  BY DEF Harvest, KillTargets
==============================================================================

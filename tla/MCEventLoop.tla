----------------------------- MODULE MCEventLoop -----------------------------
(* The requests the clients of the runs choose from. *)
EXTENDS EventLoop

R(verb, target, wait) == [verb |-> verb, target |-> target, wait |-> wait]

\* One slot: everything that acts on it, parked or not, and quit.
OneSlot == {R(v, 1, FALSE) : v \in {"restart", "run"}}
             \cup {R(v, 1, TRUE) : v \in {"kill", "stop", "start"}}
             \cup {R("quit", 0, FALSE)}

\* One reply parked over both slots, which skips a slot that is down already.
Waits == {R("stop", 0, TRUE)}
==============================================================================

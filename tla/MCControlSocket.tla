--------------------------- MODULE MCControlSocket ---------------------------
(* One project with a subdirectory, and a directory whose Krawattefile is a  *)
(* symlink to the project's; good and bad files; what the clients ask.       *)
EXTENDS ControlSocket, TLC

Project   == <<"project">>
Below     == <<"project", "src">>
Linked    == <<"linked">>
Elsewhere == <<"elsewhere">>
Files     == {Project, Linked}
RealFile  == Project :> Project @@ Linked :> Project
None      == <<"no file">>

Legal     == {"web", "api", "3d", "2"}
Digits    == {"2"}
Numbers   == "2" :> 2 @@ "+2" :> 2

P(name) == [name |-> name, cwdExists |-> TRUE, watch |-> "none", found |-> TRUE, globs |-> TRUE]
F(names) == [shape |-> TRUE, timeout |-> "given", procs |-> [i \in DOMAIN names |-> P(names[i])]]

L(cwd, from, adhoc, raw) == [cwd |-> cwd, file |-> from, adhoc |-> adhoc, raw |-> raw]

\* By the linked file, or ad hoc where there is no file above.
Ways ==
  { L(Linked, None, FALSE, F(<<"web", "3d", "api">>)),
    L(Elsewhere, None, TRUE, F(<<"+2", "sh", "sh">>)) }

\* Refused: the rules of parse and resolve_all, each broken once.
Bad ==
  { L(Project, None, FALSE, raw) : raw \in
     { F(<<>>), F(<<"all">>), F(<<"2", "web">>), F(<<"web", "web">>), F(<<"a b">>),
       [F(<<"web">>) EXCEPT !.shape = FALSE],
       [F(<<"web">>) EXCEPT !.timeout = "negative"],
       [F(<<"web">>) EXCEPT !.procs[1].cwdExists = FALSE],
       [F(<<"web">>) EXCEPT !.procs[1].watch = "word"],
       [F(<<"web">>) EXCEPT !.procs[1].watch = "paths", !.procs[1].found = FALSE],
       [F(<<"web">>) EXCEPT !.procs[1].watch = "self", !.procs[1].globs = FALSE] } }

AllWays == Ways \cup Bad

S(verb, slot, wait) ==
  [verb |-> verb, slot |-> slot, wait |-> wait,
   given |-> IF verb = "run" THEN {"cmd"} ELSE {}, since |-> "none"]
A(cwd, from, sub) == [cwd |-> cwd, file |-> from, v |-> 1, sub |-> sub]

Questions ==
  { A(Below, None, S("stop", "web", TRUE)),
    A(Below, Linked, S("restart", "nosuch", FALSE)),
    A(Project, None, S("quit", AllSlots, TRUE)),
    [A(Elsewhere, None, S("logs", "sh", FALSE)) EXCEPT !.v = 2],
    A(Project, Project, [S("run", "2", FALSE) EXCEPT !.given = {}]) }

QuitWait == { A(Project, None, S("quit", AllSlots, TRUE)) }
==============================================================================

------------------------------- MODULE MCWatch -------------------------------
(* A project: src/nested is watched by one slot, which ignores target; the  *)
(* other watches the binary in target.                                      *)
EXTENDS Watch, TLC

CONSTANTS top, src, nested, target, main, app, build, server

ParentOf == (src :> top) @@ (nested :> src) @@ (target :> top)
              @@ (main :> nested) @@ (app :> target)
TargetOf == (build :> top) @@ (server :> app)
IgnoreOf == (build :> {target}) @@ (server :> {})
==============================================================================

--------------------------- MODULE MCScriptBuild ---------------------------
(***************************************************************************)
(* Instances of ScriptBuild for TLC: which script uses which, the scripts  *)
(* of each project and the order in which all of them were created.        *)
(***************************************************************************)
EXTENDS ScriptBuild, TLC

CONSTANTS app, lib, core, tool, bad, p1, p2

(* app uses lib, both use core; tool, which uses core too, has a dependency  *)
(* that cannot be resolved.  Three ask for lib: app and both projects.       *)
Triangle == (app :> {lib, core}) @@ (lib :> {core}) @@ (core :> {}) @@ (tool :> {core})
TriangleProjects == (p1 :> <<app, lib>>) @@ (p2 :> <<lib, tool>>)
TriangleCreated == <<p1, app, core, p2, lib, tool>>

(* Two scripts share core; one of them uses a script that is rejected.       *)
Shared == (app :> {core}) @@ (tool :> {core, bad}) @@ (core :> {}) @@ (bad :> {})
SharedProject == p1 :> <<app, tool>>
SharedCreated == <<p1, app, core, bad, tool>>

(* Bound: what happens after a build has been spoilt is not followed.        *)
Unspoilt == ~spoilt

(* The threads of the pool take the same steps (for safety properties only). *)
PoolSymmetry == Permutations(Pool)
=============================================================================

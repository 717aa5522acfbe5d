----------------------------- MODULE MCPipeline -----------------------------
(***************************************************************************)
(* Two drop routes and a block route with one worker and one slot each.    *)
(* Four events are enough to fill a route, shed on it or wait for it, and  *)
(* reach another behind it, or to make every route slow.  A stream begins  *)
(* with two events of one route; the drop routes are alike, so those that  *)
(* reach "content" first stand for the others.                             *)
(*                                                                         *)
(* One unit of the clock is 13 seconds: the 25 s of a drain and the 5 s of *)
(* admin.Shutdown are rounded up, the 40 s of grace down.                  *)
(***************************************************************************)
EXTENDS Pipeline

ThreeRoutes == {"content", "engagement", "retraction"}
Policies    == [r \in ThreeRoutes |-> IF r = "retraction" THEN "block" ELSE "drop"]
FourEvents  ==
    {d \in [1..4 -> ThreeRoutes] :
        /\ d[1] = d[2]
        /\ \A e \in 1..4 : d[e] = "engagement" => \E f \in 1..e : d[f] = "content"}
OneEach     == [r \in ThreeRoutes |-> 1]
=============================================================================

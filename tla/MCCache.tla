------------------------------- MODULE MCCache -------------------------------
(***************************************************************************)
(* RouteCache with two pairs that share a destination: the first has a     *)
(* direct route and a detour, the second one route only.                   *)
(***************************************************************************)
EXTENDS RouteCache

MCLinks == {10, 11, 12}
MCEvents == 1 .. 2
MCEvent ==
    <<[start |-> 1, end |-> 2, model |-> "closure", severity |-> 1, scope |-> {10, 12}],
      [start |-> 2, end |-> 3, model |-> "closure", severity |-> 1, scope |-> {10}]>>
MCBlockable == {10, 12}
MCRoutes == <<{<<10>>, <<11, 12>>}, {<<12>>}>>
MCDestOf == <<4, 4>>
MCTrips == 1 .. 3
MCOD == <<1, 1, 2>>
===============================================================================

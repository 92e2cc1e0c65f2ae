------------------------------- MODULE MCRoutes -------------------------------
(***************************************************************************)
(* RouteSearch on four nodes and seven links: two ways from node 1 to node *)
(* 4 that cross at 2 and 3, parallel links 3 -> 4 and a link back, with    *)
(* the turns of one row restricted or not.                                 *)
(***************************************************************************)
EXTENDS RouteSearch, TLC

MCLinks == 10 .. 16
MCNodes == 1 .. 4
MCSrc == 10 :> 1 @@ 11 :> 1 @@ 12 :> 2 @@ 13 :> 2 @@ 14 :> 3 @@ 15 :> 3 @@ 16 :> 3
MCDst == 10 :> 2 @@ 11 :> 3 @@ 12 :> 4 @@ 13 :> 3 @@ 14 :> 4 @@ 15 :> 2 @@ 16 :> 4
MCListed == {<<l, m>> \in MCLinks \X MCLinks : MCDst[l] = MCSrc[m]}
MCRestrictable == {<<10, 12>>, <<11, 14>>}
MCBlockable == {12, 14}
Trips ==
    {[origin |-> 1, dest |-> 4, incoming |-> None],
     [origin |-> 3, dest |-> 4, incoming |-> 11],
     [origin |-> 2, dest |-> 2, incoming |-> None]}

\* One route is wanted by default, three where candidates are ranked.
MCRequests ==
    {[origin |-> t.origin, dest |-> t.dest, incoming |-> t.incoming, wanted |-> w] :
        t \in Trips, w \in {1, 3}}
===============================================================================

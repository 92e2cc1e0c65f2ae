-------------------------------- MODULE MCFlow --------------------------------
(***************************************************************************)
(* FlowAuthority on two networks.                                          *)
(*                                                                         *)
(* Road:  link 1 leads to link 2; trips end on both.                       *)
(* Merge: links 1 and 2 join into 3, which an incident may close.          *)
(***************************************************************************)
EXTENDS FlowAuthority

RoadLinks == {1, 2}
RoadTurns == {<<1, 2>>}
RoadStorage == [l \in RoadLinks |-> 2]
RoadCapacities == [l \in RoadLinks |-> {3}]

RoadMaxQueue == [l \in RoadLinks |-> IF l = 1 THEN 3 ELSE 1]
RoadMaxAsk == [m \in Movements |-> IF m[1] = 1 THEN 3 ELSE 4]

MergeLinks == {1, 2, 3}
MergeTurns == {<<1, 3>>, <<2, 3>>}
MergeStorage == [l \in MergeLinks |-> IF l = 3 THEN 2 ELSE 1]
MergeCapacities == [l \in MergeLinks |-> IF l = 3 THEN {0, 3} ELSE {2}]

MergeMaxQueue == MergeStorage
MergeMaxAsk == [m \in Movements |-> IF m \in {<<1, None>>, <<2, None>>} THEN 0 ELSE 1]

(* Sinks come before turns on the heap, each in the order of their index. *)
MCClass == [m \in Movements |-> IF m[2] = None THEN m[1] ELSE 100 + 10 * m[1] + m[2]]
===============================================================================

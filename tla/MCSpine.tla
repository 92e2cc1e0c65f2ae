-------------------------------- MODULE MCSpine --------------------------------
(***************************************************************************)
(* RuntimeSpine on small networks.                                         *)
(*                                                                         *)
(* Loop:    link 10 forks to 11 and 12, which join into 13; 13 leads back  *)
(*          to 10.  Trip 1 is short, so its slot is soon reused; trip 3 has*)
(*          no route, trips 2 and 4 may lose theirs to a closure; trips 1  *)
(*          and 4 start on the same link of storage 1.                     *)
(* Diamond: the same without the way back (an acyclic network), storage 1  *)
(*          and a slow last link: trips 1, 2 and 4 wait for one another.   *)
(* Merge:   links 10 and 11 join into 12; trip 2 has no route.             *)
(***************************************************************************)
EXTENDS RuntimeSpine

LoopLinks == {10, 11, 12, 13}
LoopTurns == {<<10, 11>>, <<10, 12>>, <<11, 13>>, <<12, 13>>, <<13, 10>>}
LoopDepart == <<1, 1, 1, 1, 3>>
LoopTrips == 1 .. 5
LoopCandidates ==
    <<{<<13>>}, {<<10, 11, 13>>, <<10, 12, 13>>}, {}, {<<13, 10, 11>>}, {<<10, 11, 13>>}>>
LoopCutOff == {2, 4}
LoopTerminals == <<{13}, {13}, {13}, {11, 12}, {13}>>
LoopTails ==
    [l \in LoopLinks |->
        CASE l = 10 -> <<{}, {<<11, 13>>, <<12, 13>>}, {}, {<<11>>, <<12>>}, {<<12, 13>>}>>
          [] l \in {11, 12} -> <<{}, {<<13>>}, {}, {}, {<<13>>}>>
          [] OTHER -> <<{}, {}, {}, {<<10, 12>>}, {}>>]
LoopStorage == [l \in LoopLinks |-> IF l = 10 THEN 2 ELSE 1]
LoopResidence == [l \in LoopLinks |-> IF l = 10 THEN 2 ELSE 1]

DiamondLinks == LoopLinks
DiamondTurns == LoopTurns \ {<<13, 10>>}
DiamondDepart == <<1, 1, 2, 1>>
DiamondTrips == 1 .. 4
DiamondCandidates ==
    <<{<<10, 11, 13>>}, {<<10, 11, 13>>, <<10, 12, 13>>}, {<<11, 13>>}, {<<10, 12, 13>>}>>
DiamondCutOff == {3}
DiamondTerminals == [t \in DiamondTrips |-> {13}]
DiamondTails ==
    [l \in DiamondLinks |-> [t \in DiamondTrips |->
        CASE l = 10 -> {<<11, 13>>, <<12, 13>>}
          [] l \in {11, 12} -> {<<13>>}
          [] OTHER -> {}]]
DiamondStorage == [l \in DiamondLinks |-> 1]
DiamondResidence == [l \in DiamondLinks |-> IF l = 13 THEN 3 ELSE 1]

MergeLinks == {10, 11, 12}
MergeTurns == {<<10, 12>>, <<11, 12>>}
MergeDepart == <<1, 1, 1>>
MergeTrips == 1 .. 3
MergeCandidates == <<{<<10, 12>>}, {}, {<<11, 12>>}>>
MergeCutOff == {}
MergeTerminals == [t \in MergeTrips |-> {12}]
MergeTails == [l \in MergeLinks |-> [t \in MergeTrips |-> IF l = 12 THEN {} ELSE {<<12>>}]]
MergeStorage == [l \in MergeLinks |-> 2]
MergeResidence == [l \in MergeLinks |-> IF l = 11 THEN 1 ELSE 2]
================================================================================

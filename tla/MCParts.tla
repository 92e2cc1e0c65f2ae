------------------------------- MODULE MCParts -------------------------------
(***************************************************************************)
(* The small components, which share no state with each other: a run is    *)
(* about one of them, and the others keep their first state.               *)
(*                                                                         *)
(* Activation: every list of four requests that depart within the first    *)
(* four ticks.  Blend: three options, mix coefficients in quarters bounded *)
(* to 0..3, targets outside the bounds too.  Bandit: four trips under way  *)
(* at once that take one or three ticks, or whose time nobody observed.    *)
(* Reservation: three routes of every combination of four disutilities,    *)
(* one negative, and three slopes, one of them flat; five vehicles.        *)
(* Finalizer: any of seven roads between seven places, among them two      *)
(* streets, two bridges and a third street that cross in one point, and a  *)
(* road that ends on another.  Import: two ways of six shapes (crossing,   *)
(* closed, ending on themselves, parallel) in any direction under four     *)
(* clip boxes, and one way with any lane tags.  City: up to three rings of *)
(* roads within each other on a lattice, the innermost crossed by a bridge *)
(* or not, with roads between them, a fourth ring that meets the first in  *)
(* a node, ramps, and plans that no authority may accept.                  *)
(***************************************************************************)
EXTENDS ActivationClock, PolicyBlend, BanditLearning, Reservation, CityFinalizer, OsmImport,
        LandAllocation

MCTargets == {-2, 1, 5}
MCCosts == {[a \in Arms |-> CASE a = 0 -> 5 [] a = 1 -> 2 [] OTHER -> 3],
            [a \in Arms |-> CASE a = 0 -> 1 [] a = 1 -> 1 [] OTHER -> 4]}
MCScores == {[a \in Arms |-> 0], [a \in Arms |-> CASE a = 0 -> 3 [] a = 1 -> 0 [] OTHER -> 1]}
MCTimes == {Absent, 1, 3}
MCBases == {-1, 0, 2, 3}

MCPlaces == 0 .. 6
MCPosition ==
    [p \in MCPlaces |->
        LET at == <<<<0, 0>>, <<2, 0>>, <<0, 2>>, <<2, 2>>, <<1, 0>>, <<1, 2>>, <<3, 1>>>>[p + 1]
        IN  <<210 * at[1], 210 * at[2]>>]
Road(a, b, twoWay, bridge) == [ends |-> <<a, b>>, twoWay |-> twoWay, bridge |-> bridge]
MCStreets ==
    <<Road(0, 3, TRUE, FALSE), Road(2, 1, FALSE, FALSE), Road(4, 5, TRUE, FALSE),
      Road(0, 3, FALSE, TRUE), Road(1, 2, TRUE, TRUE), Road(6, 0, TRUE, FALSE),
      Road(1, 0, TRUE, FALSE)>>

Way(refs, oneway, total, forward, backward) ==
    [refs |-> refs, oneway |-> oneway, total |-> total, forward |-> forward, backward |-> backward]
MCShapes == {<<1, 2, 3>>, <<4, 2, 5>>, <<1, 2, 3, 1>>, <<3, 4>>, <<5, 2, 3, 4, 2>>, <<3, 2, 4>>}
MCDirections == {"both", "forward", "reverse"}
MCExtracts ==
    {<<Way(a, o, 0, 0, 0), Way(b, p, 0, 0, 0)>> :
        a \in MCShapes, b \in MCShapes, o \in MCDirections, p \in MCDirections}
    \cup {<<Way(<<1, 2>>, o, t, f, b)>> : o \in MCDirections, t \in 0 .. 3, f \in 0 .. 2, b \in 0 .. 2}
MCBoxes ==
    {[inside |-> 1 .. 5, crossed |-> {}], [inside |-> {1, 2, 4}, crossed |-> {}],
     [inside |-> {2, 3}, crossed |-> {{1, 3}}], [inside |-> {5}, crossed |-> {{3, 4}}]}

At(i, j) == <<3 * i, 3 * j>>
PRoad(a, b, facility, points) == [ends |-> <<a, b>>, facility |-> facility, points |-> points]
MCPhysical ==
    <<PRoad(1, 2, "surface", <<At(0, 0), At(5, 0), At(5, 5)>>),
      PRoad(2, 1, "surface", <<At(5, 5), At(0, 5), At(0, 0)>>),
      PRoad(3, 4, "surface", <<At(1, 1), At(4, 1), At(4, 4)>>),
      PRoad(3, 4, "surface", <<At(1, 1), At(1, 4), At(4, 4)>>),
      PRoad(5, 6, "surface", <<At(2, 2), At(3, 2), At(3, 3)>>),
      PRoad(6, 5, "surface", <<At(3, 3), At(2, 3), At(2, 2)>>),
      PRoad(5, 6, "bridge", <<At(2, 2), At(3, 3)>>),
      PRoad(1, 3, "surface", <<At(0, 0), At(1, 1)>>),
      PRoad(4, 2, "surface", <<At(4, 4), At(5, 5)>>),
      PRoad(3, 5, "surface", <<At(1, 1), At(2, 2)>>),
      PRoad(6, 4, "surface", <<At(3, 3), At(4, 4)>>),
      PRoad(2, 7, "surface", <<At(5, 5), At(6, 5), At(6, 6)>>),
      PRoad(7, 2, "surface", <<At(6, 6), At(5, 6), At(5, 5)>>),
      PRoad(3, 7, "ramp", <<At(1, 1), At(6, 6)>>),
      PRoad(8, 9, "mainline", <<At(0, 3), At(6, 3)>>),
      PRoad(1, 5, "surface", <<At(0, 0), At(2, 2)>>),
      PRoad(8, 9, "surface", <<At(2, 3), At(3, 2)>>)>>
MCPlans ==
    {{1, 2} \cup ring \cup core \cup ties :
        ring \in {{}, {3, 4}}, core \in {{}, {5, 6}, {5, 7}, {5, 6, 7}},
        ties \in {{}, {8}, {8, 9}, {8, 10}, {9, 10, 11}, 8 .. 11, 8 .. 10}}
    \cup {1 .. 6 \cup {12, 13} \cup ties : ties \in {{8, 9}, 8 .. 10, 8 .. 11, {8, 9, 11}}}
    \cup {1 .. 4 \cup core \cup annex \cup ramp :
        core \in {{}, {5, 6}, {5, 7, 10, 11}}, annex \in {{}, {12}, {12, 13}},
        ramp \in {{14}, {14, 15}}}
    \cup {{}, {3}, {3, 4, 12, 13}, {1, 2, 16}, {1, 2, 3, 4, 16}, {1, 2, 8, 16}, {7, 17},
          {5, 6, 17}, {1, 2, 7, 17}, {3, 4, 5, 6, 7, 12}}
MCSamples ==
    UNION {{<<3 * i + 2, 3 * j + 1>>, <<3 * i + 1, 3 * j + 2>>} : i \in -1 .. 6, j \in -1 .. 6}
MCLandscapes ==
    {[b \in 1 .. 8 |-> [central |-> 2, intense |-> 2]],
     [b \in 1 .. 8 |-> [central |-> b % 5, intense |-> (3 * b) % 5]],
     [b \in 1 .. 8 |-> [central |-> 4 - (b \div 2), intense |-> b \div 3]]}
MCExposureOf == <<35, 0, 80, 35, 0, 0, 80, 0, 0, 35, 0, 100, 0, 80, 100, 0, 0>>

VARIABLE component

partsVars == <<vars, blendVars, banditVars, reservationVars, finalizerVars, osmVars,
               cityVars, component>>

(* The first state of a component, and the one it keeps in the runs that   *)
(* are about another one.                                                  *)
ActivationFirst ==
    IF component = "activation" THEN Init
    ELSE tick = 0 /\ depart = [i \in 1 .. Requests |-> 0] /\ queued = {}
ReservationFirst ==
    /\ component # "reservation" =>
        base = [c \in Candidates |-> 0] /\ slope = [c \in Candidates |-> 0]
    /\ ReservationInit
FinalizerFirst ==
    IF component = "finalizer" THEN FinalizerInit ELSE planar = FALSE /\ streets = {} /\ Generated
OsmFirst ==
    IF component = "import" THEN OsmInit
    ELSE /\ ways = <<>> /\ box = [inside |-> {}, crossed |-> {}] /\ policy = "strict"
         /\ OsmStart

CityFirst ==
    /\ IF component = "city" THEN FacesInit ELSE built = {} /\ FacesStart
    /\ AllocationInit

PartsInit ==
    /\ component \in {"activation", "blend", "bandit", "reservation", "finalizer", "import", "city"}
    /\ ActivationFirst /\ BlendInit /\ BanditInit /\ ReservationFirst /\ FinalizerFirst /\ OsmFirst
    /\ CityFirst

ActivationStep ==
    /\ component = "activation" /\ Tick
    /\ UNCHANGED <<blendVars, banditVars, reservationVars, finalizerVars, osmVars, cityVars,
                   component>>
BlendStep ==
    /\ component = "blend" /\ BlendNext
    /\ UNCHANGED <<vars, banditVars, reservationVars, finalizerVars, osmVars, cityVars,
                   component>>
BanditStep ==
    /\ component = "bandit" /\ BanditNext
    /\ UNCHANGED <<vars, blendVars, reservationVars, finalizerVars, osmVars, cityVars,
                   component>>
ReservationStep ==
    /\ component = "reservation" /\ ReservationNext
    /\ UNCHANGED <<vars, blendVars, banditVars, finalizerVars, osmVars, cityVars,
                   component>>
FinalizerStep ==
    /\ component = "finalizer" /\ FinalizerNext
    /\ UNCHANGED <<vars, blendVars, banditVars, reservationVars, osmVars, cityVars,
                   component>>
ImportStep ==
    /\ component = "import" /\ OsmNext
    /\ UNCHANGED <<vars, blendVars, banditVars, reservationVars, finalizerVars, cityVars,
                   component>>
CityStep ==
    /\ component = "city" /\ CityBuildNext
    /\ UNCHANGED <<vars, blendVars, banditVars, reservationVars, finalizerVars, osmVars,
                   component>>

PartsNext ==
    \/ ActivationStep \/ BlendStep \/ BanditStep \/ ReservationStep \/ FinalizerStep \/ ImportStep
    \/ CityStep

PartsSpec == PartsInit /\ [][PartsNext]_partsVars /\ WF_partsVars(ActivationStep)
==============================================================================

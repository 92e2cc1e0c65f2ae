----------------------------- MODULE RoadNetwork -----------------------------
(***************************************************************************)
(* The static road network the runtime is stepped on: the ids of its       *)
(* directed links (road_csr.link_ids).  Static data never changes during a *)
(* run, so it is a constant of every model.                                *)
(***************************************************************************)
EXTENDS Integers, FiniteSets

CONSTANT Links      \* link ids

(* The value of an id column that holds nothing. *)
None == -1

ASSUME LinksAssumption == Links \subseteq Nat /\ IsFiniteSet(Links)
=============================================================================

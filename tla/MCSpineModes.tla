----------------------------- MODULE MCSpineModes -----------------------------
(***************************************************************************)
(* The runtime on the cyclic network of MCSpine in both queue models, one  *)
(* of which a run is configured with: spatial_queue_v1 (finite storage and *)
(* residence) and point_queue_v1 (neither), where every vehicle asks to    *)
(* move at once.                                                           *)
(***************************************************************************)
EXTENDS MCSpine

VARIABLE mode

PointQueue == INSTANCE RuntimeSpine WITH Spatial <- FALSE

ModesInit == Init /\ mode \in {"spatial", "point"}

SpatialTick == mode = "spatial" /\ Next /\ UNCHANGED mode
PointTick == mode = "point" /\ PointQueue!Next /\ UNCHANGED mode
ModesNext == SpatialTick \/ PointTick

ModesSpec == ModesInit /\ [][ModesNext]_<<vars, mode>>
===============================================================================

------------------------------- MODULE MCWorld -------------------------------
(***************************************************************************)
(* The world, recorded and replayed, with one edge and four calls: a burst,*)
(* a discharge wider than the capacity, a closed edge, and one without     *)
(* travel times.                                                           *)
(***************************************************************************)
EXTENDS WorldReplay

OneEdge == {"e1"}

Flow(inflow, outflow, capacity, supplied) ==
    [inflow |-> [e \in OneEdge |-> inflow], outflow |-> [e \in OneEdge |-> outflow],
     capacity |-> [e \in OneEdge |-> capacity], supplied |-> supplied]

MCInputs == {Flow(2, 0, 2, TRUE), Flow(1, 3, 2, TRUE), Flow(1, 1, 0, TRUE), Flow(0, 2, 1, FALSE)}

Cadence(f, m, s) == [fast |-> f, medium |-> m, slow |-> s]

\* Every kind of meeting: coprime cadences, slow ticks without fast, medium without fast.
MCSchedules == {Cadence(1, 2, 3), Cadence(1, 3, 4), Cadence(2, 2, 3), Cadence(2, 3, 3)}
=============================================================================

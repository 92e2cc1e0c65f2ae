----------------------------- MODULE WorldReplay -----------------------------
(***************************************************************************)
(* A recorded run of the world and its replay (sim/replay.py): a request   *)
(* names its initial world, the boundary declared for it and the inputs of *)
(* every call; the replay checks the boundary and folds step_world over    *)
(* the inputs.  The recorder is the caller's (tests and benchmarks): it    *)
(* keeps the inputs of the calls that returned, until an edit.             *)
(***************************************************************************)
EXTENDS WorldStep, SequencesExt

CONSTANT MaxRecorded    \* bound: calls in a recording

ASSUME ReplayAssumption == MaxRecorded \in Nat

VARIABLE recording

vars == <<worldVars, recording>>

NoRecording == [open |-> FALSE]

BoundaryOfStep(w) == [step |-> w.step, graph |-> w.graph, policy |-> w.policy]

\* ReplayBoundary; seed, journal and backend are the same in every world of a run.
Boundary(w) ==
    [step |-> w.step, graph |-> w.graph, landuse |-> w.landuse,
     accessibility |-> w.accessibility, policy |-> w.policy]

Accepts(boundary, w) == Valid(w) /\ boundary = Boundary(w)

Replayed(w, s, inputs) ==
    FoldLeft(LAMBDA current, in : IF current = Raised THEN Raised ELSE StepWorld(current, s, in),
             w, inputs)

ReplayInit == WorldInit /\ recording = NoRecording

StartRecording ==
    /\ recording = NoRecording
    /\ recording' = [open |-> TRUE, boundary |-> Boundary(world), inputs |-> <<>>, final |-> world]
    /\ UNCHANGED worldVars

\* The recorder stops by itself at the bound.
RecordedCall(in) ==
    LET recorded == recording.open /\ outcome' = "returned"
        full == recording.open /\ Len(recording.inputs) = MaxRecorded
    IN  /\ Call(in)
        /\ recording' =
              IF full THEN [recording EXCEPT !.open = FALSE]
              ELSE IF recorded
              THEN [recording EXCEPT !.inputs = Append(@, in), !.final = world']
              ELSE recording

RecordedEdit ==
    /\ Edit
    /\ recording' = [recording EXCEPT !.open = FALSE]

StopRecording ==
    /\ recording.open
    /\ recording' = [recording EXCEPT !.open = FALSE]
    /\ UNCHANGED worldVars

CallOnce == \E in \in Inputs : RecordedCall(in)

ReplayNext == StartRecording \/ CallOnce \/ RecordedEdit \/ StopRecording

\* The caller keeps calling with travel times, recorded or not.
SuppliedRecordedCall == \E in \in Inputs : in.supplied /\ RecordedCall(in)

ReplaySpec == ReplayInit /\ [][ReplayNext]_vars /\ WF_vars(SuppliedRecordedCall)

----------------------------------------------------------------------------
\* Whatever the run does after or while it is recorded, a world that passes for the
\* recording's initial one is replayed to the world the recording ended with: the
\* step and the versions of the boundary tell every two worlds of a run apart.
AcceptedReplayReproduces ==
    (recording # NoRecording /\ Accepts(recording.boundary, world))
        => Replayed(world, schedule, recording.inputs) = recording.final
=============================================================================

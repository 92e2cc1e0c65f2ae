--------------------------------- MODULE MCUI ---------------------------------
(***************************************************************************)
(* EventScheduler and UIStream with two events whose windows overlap on    *)
(* two links; link 11 cannot be blocked.                                   *)
(***************************************************************************)
EXTENDS UIStream

MCLinks == {10, 11}
MCEvents == 1 .. 2
MCEvent ==
    <<[start |-> 1, end |-> 2, model |-> "capacity_reduction", severity |-> 1, scope |-> {10, 11}],
      [start |-> 2, end |-> 3, model |-> "closure", severity |-> 1, scope |-> {10, 11}]>>
MCBlockable == {10}

(* The caller may pause for as long as it likes, but not for ever, and     *)
(* not every step that runs asks for a snapshot.                           *)
UnpausedStep == RunSome /\ UNCHANGED uiVars
StreamSpec == Spec /\ WF_streamVars(UnpausedStep)
===============================================================================

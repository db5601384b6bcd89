----------------------------- MODULE MCFlowEuler -----------------------------
(* Small instances of FlowEuler for TLC. *)
EXTENDS FlowEuler

SpecOf(first, transitions) ==
    [sampler |-> "sigmax.flow_euler", rng |-> "none", scheduler_index |-> first,
     requested_transitions |-> transitions,
     requested_model_evaluations |-> transitions]

(* The last three steps of a five-point schedule, all of a longer one.      *)
MCSpecs == {SpecOf(1, 3), SpecOf(0, 5)}

(* Two schedules of the same length, one that is longer than a canonical   *)
(* list when MaxCollection = 5, and one that is refused.                   *)
MCSchedules ==
    {<<9, 6, 4, 2, 0>>, <<9, 7, 5, 3, 0>>, <<9, 8, 6, 5, 1, 0>>, <<9, 9, 4, 2, 0>>}

MCLimits == {1, NoLimit}
=============================================================================

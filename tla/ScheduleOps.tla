----------------------------- MODULE ScheduleOps -----------------------------
(***************************************************************************)
(* The pure steps from which every sigma schedule of the unit-flow domain  *)
(* is built: core/base_grids.py, core/shifts.py, core/terminal_slicing.py  *)
(* and core/validation.py.                                                 *)
(*                                                                         *)
(* A sigma is a whole number of units, One of them being the sigma 1.0;    *)
(* the units stand for the precision of a Python float, in which a step    *)
(* rounds down.  A host tensor holds float32 values, which are fewer:      *)
(* Float32 says to which of them a value is rounded.  A schedule is a      *)
(* sequence, its first element the one of step 0.                          *)
(***************************************************************************)
EXTENDS Integers, Sequences

CONSTANTS
    One,        \* the sigma 1.0
    Float32     \* the host value each value is rounded to

Sigma == 0 .. One

(* What is used of IEEE rounding: a host value is its own host value,      *)
(* order is kept but neighbours may meet, and both ends are exact.         *)
ASSUME RoundingAssumption ==
    /\ One \in Nat \ {0}
    /\ Float32 \in [Sigma -> Sigma]
    /\ \A v \in Sigma : Float32[Float32[v]] = Float32[v]
    /\ \A v, w \in Sigma : v <= w => Float32[v] <= Float32[w]
    /\ Float32[0] = 0 /\ Float32[One] = One

(* FloatTensor(values).tolist()                                            *)
Host(values) == [i \in DOMAIN values |-> Float32[values[i]]]

(* validate_sigma_schedule in the UNIT_FLOW domain, for a schedule of any  *)
(* length                                                                  *)
ValidSchedule(values) ==
    /\ values \in Seq(Sigma) /\ Len(values) >= 2
    /\ \A i \in 1 .. Len(values) - 1 : values[i] > values[i + 1]

Steps(values) == Len(values) - 1

(* validate_sigma_schedule of a newly built schedule, with expected_steps  *)
(* and require_terminal_zero                                               *)
ValidFor(values, steps, terminal_zero) ==
    /\ ValidSchedule(values)
    /\ Steps(values) = steps
    /\ terminal_zero => values[Len(values)] = 0

-----------------------------------------------------------------------------
(* Grids, shift and terminal                                               *)

(* krea_reciprocal_step_grid and flowmatch_reciprocal_step_grid            *)
ReciprocalGrid(steps) ==
    [i \in 1 .. steps |-> (One * (steps - i + 1)) \div steps]

(* linear_endpoint_grid                                                    *)
LinearGrid(points, start, end) ==
    [i \in 1 .. points |-> start + ((end - start) * (i - 1)) \div (points - 1)]

(* direct_ratio_shift; an exponential mu shifts by the ratio e^mu.  Both   *)
(* leave the two ends alone.                                               *)
Shift(values, ratio) ==
    [i \in DOMAIN values |->
        IF values[i] \in {0, One} THEN values[i]
        ELSE (One * ratio * values[i]) \div (One - values[i] + ratio * values[i])]

(* apply_terminal_policy                                                   *)
WithTerminal(values, policy) ==
    IF policy = "append_zero" THEN Append(values, 0) ELSE values

-----------------------------------------------------------------------------
(* Slicing                                                                 *)

(* _slice_bounds: -1 means the last step                                   *)
SliceBounds(first, last, steps) ==
    /\ first \in 0 .. steps - 1
    /\ last # -1 => last \in first + 1 .. steps

EndStep(last, steps) == IF last = -1 THEN steps ELSE last

(* slice_step_range: the transitions first .. last - 1, with both ends     *)
SliceStepRange(values, first, last) == SubSeq(values, first + 1, last + 1)
=============================================================================

----------------------------- MODULE ResumableRun -----------------------------
(***************************************************************************)
(* What execute_deterministic_flow_euler promises to its callers, without  *)
(* its loop, its snapshots and its failures: a call performs some of the   *)
(* transitions that are left of a request, all of them at once, on a       *)
(* tensor of the caller; or nothing happened.  A run that is not finished  *)
(* can be taken up again from where it stopped, by whoever has its result. *)
(*                                                                         *)
(* A tensor is the sequence of what was applied to it.                     *)
(***************************************************************************)
EXTENDS Naturals, Sequences

CONSTANTS
    Requests,   \* records with scheduler_index and requested_transitions
    Sigmas,     \* the schedules
    Spoiled     \* what somebody else writes into a tensor

VARIABLES
    tensors,    \* the tensors of the caller
    runs        \* the runs whose results the caller was given

End(run) == run.start \o run.path

(* The transitions from the first-th on, n of them.                        *)
PathOf(sigmas, first, n) ==
    [i \in 1 .. n |-> <<sigmas[first + i], sigmas[first + i + 1]>>]

(* The schedule has exactly the length the request asks for.               *)
Fits(sigmas, request) ==
    /\ Len(sigmas) = request.scheduler_index + request.requested_transitions + 1
    /\ sigmas[Len(sigmas)] = 0
    /\ \A i \in 1 .. Len(sigmas) - 1 : sigmas[i] > sigmas[i + 1]

Left(run) == run.request.requested_transitions - Len(run.path)

Fresh(request, tensor) ==
    [request |-> request, start |-> tensor, path |-> <<>>, completed |-> FALSE]

Continued(run, sigmas, n) ==
    [run EXCEPT !.path = @ \o PathOf(sigmas, run.request.scheduler_index + Len(run.path), n),
                !.completed = n = Left(run)]

(* One call: a new run, or one that was not finished.                      *)
Perform(request, tensor, sigmas) ==
    \E run \in {Fresh(request, tensor)}
               \cup {r \in runs : r.request = request /\ End(r) = tensor /\ ~r.completed} :
        /\ Fits(sigmas, request)
        /\ \E n \in 1 .. Left(run) :
              /\ runs' = runs \cup {Continued(run, sigmas, n)}
              /\ tensors' = tensors \cup {End(Continued(run, sigmas, n))}

(* A tensor is written into.                                               *)
Spoil(tensor) ==
    /\ tensors' = (tensors \ {tensor}) \cup {Append(tensor, Spoiled)}
    /\ UNCHANGED runs

Init == tensors = {<<>>} /\ runs = {}

Next ==
    \E tensor \in tensors :
        \/ Spoil(tensor)
        \/ \E request \in Requests, sigmas \in Sigmas : Perform(request, tensor, sigmas)

Spec == Init /\ [][Next]_<<tensors, runs>>
=============================================================================

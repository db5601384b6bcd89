-------------------------------- MODULE H4Row --------------------------------
(***************************************************************************)
(* What the H4 validation promises of a row (scripts/                      *)
(* run_minimax_h3_h4_validation.py, _run_rows), seen from outside: its     *)
(* prompts are done one after the other, the trace is read once, after the *)
(* last, the first failure ends the row, and no row stays without an end.  *)
(* The harness and the observer inside its host both implement it.         *)
(***************************************************************************)
EXTENDS Naturals

CONSTANT Prompts    \* the prompts of a row

VARIABLES
    done,   \* the prompts that succeeded
    ended   \* "no" while the row runs, then how it ended

vars == <<done, ended>>

Ends == {"valid", "unavailable"}

Init == done = 0 /\ ended \in {"idle", "no"}

Complete == ended = "no" /\ done < Prompts /\ done' = done + 1 /\ UNCHANGED ended

Fail == ended = "no" /\ ended' = "failed" /\ UNCHANGED done

Read == ended = "no" /\ done = Prompts /\ ended' \in Ends /\ UNCHANGED done

\* another row, in the same host or, after a failure, in another
NextRow == ended # "no" /\ done' = 0 /\ ended' = "no"

Next == Complete \/ Fail \/ Read \/ NextRow

Spec == Init /\ [][Next]_vars

FairSpec == Spec /\ WF_vars(Complete \/ Fail \/ Read)
=============================================================================

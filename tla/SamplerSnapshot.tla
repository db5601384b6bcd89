--------------------------- MODULE SamplerSnapshot ---------------------------
(***************************************************************************)
(* The immutable values of comfyui_sigmax/core/sampler_state.py: an        *)
(* execution specification, the steps of a history, the snapshot, and the  *)
(* execution receipt it can be bound to.  Every method of the snapshot is  *)
(* given by a guard (Can...: the method returns instead of raising) and,   *)
(* where it builds a new snapshot, by the value it builds.                 *)
(*                                                                         *)
(* A specification stands for its fingerprint and a receipt for its own:   *)
(* SHA-256 over canonical JSON is taken to be injective.  next_step_index  *)
(* is left out because the constructor forces it to equal the length of    *)
(* the history.                                                            *)
(***************************************************************************)
EXTENDS CanonicalProjection, FiniteSetsExt

CONSTANTS
    MaxHistory,     \* _MAX_HISTORY: the longest history a snapshot may hold
    NoReceipt       \* execution_receipt_fingerprint is None

ASSUME MaxHistoryAssumption == MaxHistory \in Nat

Statuses == {"ready", "running", "interrupted", "completed"}

(***************************************************************************)
(* The counts a snapshot derives from its history.                         *)
(***************************************************************************)
EffectiveTransitions(h) == Len(h)

EffectiveEvaluations(h) ==
    MapThenSumSet(LAMBDA i : h[i].model_evaluations, DOMAIN h)

(***************************************************************************)
(* A step continues a history when its input is the state the last step    *)
(* produced.                                                               *)
(***************************************************************************)
ContinuesAnyhow(h, step) == TRUE      \* mutant: continuity not checked

Continues(h, step) == h # << >> => h[Len(h)].output = step.input

(***************************************************************************)
(* What the constructor accepts; replace() runs it again on every new      *)
(* snapshot.                                                               *)
(***************************************************************************)
WellFormed(h) ==
    /\ Len(h) <= MaxHistory
    /\ \A i \in 1 .. Len(h) :
        /\ h[i].step_index = i - 1
        /\ Continues(SubSeq(h, 1, i - 1), h[i])

Initial(spec) ==
    [spec |-> spec, history |-> << >>, status |-> "ready", receipt |-> NoReceipt]

MatchesSpec(s, spec) == s.spec = spec

NeverBound(s) == TRUE                 \* mutant: receipts do not seal

ReceiptUnbound(s) == s.receipt = NoReceipt

ValidLifecycle(s, spec) ==
    /\ s.status = "ready" => s.history = << >>
    /\ s.status = "completed" =>
        /\ EffectiveTransitions(s.history) = spec.requested_transitions
        /\ EffectiveEvaluations(s.history) = spec.requested_model_evaluations
    /\ s.status = "running" => ReceiptUnbound(s)

(***************************************************************************)
(* append_step.  The code adds the step's evaluations to the sum over the  *)
(* old history, which is the sum over the new one.                         *)
(***************************************************************************)
WithinTransitions(h, spec) ==         \* mutant: evaluations not budgeted
    EffectiveTransitions(h) <= spec.requested_transitions

WithinRequest(h, spec) ==
    /\ EffectiveTransitions(h) <= spec.requested_transitions
    /\ EffectiveEvaluations(h) <= spec.requested_model_evaluations

CanAppend(s, spec, step) ==
    /\ MatchesSpec(s, spec)
    /\ ReceiptUnbound(s)
    /\ s.status \notin {"interrupted", "completed"}
    /\ step.step_index = Len(s.history)
    /\ step.scheduler_index = spec.scheduler_index + step.step_index
    /\ Continues(s.history, step)
    /\ WithinRequest(Append(s.history, step), spec)
    /\ Len(s.history) < MaxHistory      \* the constructor, run by replace()

Appended(s, step) ==
    [s EXCEPT !.history = Append(@, step), !.status = "running"]

CanAlwaysInterrupt(s, spec) ==        \* mutant: completion is not final
    MatchesSpec(s, spec) /\ ReceiptUnbound(s)

CanInterrupt(s, spec) ==
    MatchesSpec(s, spec) /\ ReceiptUnbound(s) /\ s.status # "completed"

Interrupted(s) == [s EXCEPT !.status = "interrupted"]

CanResume(s, spec) ==
    MatchesSpec(s, spec) /\ ReceiptUnbound(s) /\ s.status = "interrupted"

Resumed(s) == [s EXCEPT !.status = "running"]

CanComplete(s, spec) ==
    /\ MatchesSpec(s, spec)
    /\ ReceiptUnbound(s)
    /\ EffectiveTransitions(s.history) = spec.requested_transitions
    /\ EffectiveEvaluations(s.history) = spec.requested_model_evaluations

Completed(s) == [s EXCEPT !.status = "completed"]

(***************************************************************************)
(* What the constructor of ExecutionReceiptMetadata accepts of the counts  *)
(* and the status of a receipt.                                            *)
(***************************************************************************)
ReceiptStatuses == {"not_executed", "succeeded", "failed", "interrupted"}

UnfinishedReceipt(r) ==               \* mutant: off by one on the counts
    /\ r.requested_model_evaluations > 0
    /\ r.effective_transitions < r.requested_transitions
    /\ r.effective_model_evaluations < r.requested_model_evaluations

CountsAgree(r) ==
    /\ r.effective_transitions <= r.requested_transitions
    /\ r.effective_model_evaluations <= r.requested_model_evaluations
    /\ r.status = "succeeded" =>
        /\ r.effective_transitions = r.requested_transitions
        /\ r.effective_model_evaluations = r.requested_model_evaluations
    /\ r.status = "not_executed" =>
        /\ r.effective_transitions = 0
        /\ r.effective_model_evaluations = 0

ValidReceipt(r) ==
    /\ r.requested_transitions > 0
    /\ r.requested_model_evaluations > 0
    /\ CountsAgree(r)

(***************************************************************************)
(* A receipt is built from an artifact whose schedule takes exactly the    *)
(* transitions requested (build_execution_receipt), and the sigmas of an   *)
(* artifact, one more, are a list of a canonical projection.               *)
(***************************************************************************)
HasArtifact(transitions) == transitions + 1 <= MaxCollection

BuildableReceipt(r) == ValidReceipt(r) /\ HasArtifact(r.requested_transitions)

(***************************************************************************)
(* attach_execution_receipt_evidence: the receipt must tell of this        *)
(* sampler, these counts and this outcome; a bound snapshot takes only the *)
(* receipt it already has, and is returned as it is.                       *)
(***************************************************************************)
ExpectedReceiptStatus(status) ==
    CASE status = "ready"       -> "not_executed"
      [] status = "interrupted" -> "interrupted"
      [] status = "completed"   -> "succeeded"

MayRebind(s, r) == TRUE               \* mutant: a newer receipt replaces

MayBind(s, r) == ReceiptUnbound(s) \/ s.receipt = r

CanAttach(s, spec, r) ==
    /\ MatchesSpec(s, spec)
    /\ ValidLifecycle(s, spec)
    /\ r.sampler = spec.sampler
    /\ r.requested_transitions = spec.requested_transitions
    /\ r.requested_model_evaluations = spec.requested_model_evaluations
    /\ r.effective_transitions = EffectiveTransitions(s.history)
    /\ r.effective_model_evaluations = EffectiveEvaluations(s.history)
    /\ s.status # "running"
    /\ r.rng = spec.rng
    /\ r.status = ExpectedReceiptStatus(s.status)
    /\ MayBind(s, r)

Attached(s, r) == [s EXCEPT !.receipt = r]

(***************************************************************************)
(* serialize_sampler_state_snapshot (and the fingerprint) writes a         *)
(* canonical projection after a look at the lifecycle.  deserialize_...    *)
(* wants the same canonical form and checks everything the constructor     *)
(* does, then the specification, lifecycle and counts.                     *)
(***************************************************************************)
CanSerialize(s, spec) ==
    MatchesSpec(s, spec) /\ ValidLifecycle(s, spec) /\ CanonicalList(s.history)

CanDeserializeAtRest(s, spec) ==      \* mutant: running snapshots are refused
    /\ s.status # "running"
    /\ CanonicalList(s.history)
    /\ MatchesSpec(s, spec)
    /\ ValidLifecycle(s, spec)

CanDeserialize(s, spec) ==
    /\ CanonicalList(s.history)
    /\ WellFormed(s.history)
    /\ MatchesSpec(s, spec)
    /\ ValidLifecycle(s, spec)
    /\ WithinRequest(s.history, spec)
=============================================================================

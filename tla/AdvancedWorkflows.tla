--------------------------- MODULE AdvancedWorkflows ---------------------------
(***************************************************************************)
(* Who is responsible for an advanced feature of a workflow, and may it be *)
(* claimed at all: core/advanced_workflow_compatibility.py.  A request is  *)
(* resolved into a decision, both go into a receipt, and receipts are      *)
(* written and read.                                                       *)
(*                                                                         *)
(* The three fingerprints of a request are those of a snapshot, of the     *)
(* specification the caller has, and of the one the snapshot was made for. *)
(* The required state is left out: it is copied and never looked at.       *)
(***************************************************************************)
EXTENDS BackendReceipts

CONSTANT AdvancedRequests   \* the requests in use

(* AdvancedWorkflowFeature, AdvancedExecutionMode                          *)
HostFeatures == {"inpainting", "controlnet", "model_patches"}
Features == HostFeatures \cup {"image_to_image", "partial_denoise", "interruption", "resume"}
Modes == {"native_host", "deterministic_pure", "stochastic_pure"}
Levels == {"allow", "warn", "reject"}       \* AdvancedDecisionLevel

When(condition, reason) == IF condition THEN {reason} ELSE {}

-----------------------------------------------------------------------------
(* AdvancedWorkflowRequest.__post_init__                                   *)
ValidRequested(r) ==
    /\ r.features # {} /\ r.features \subseteq Features /\ r.host \subseteq Features
    /\ r.mode \in Modes

(* _snapshot_reasons                                                       *)
SnapshotReasons(r) ==
    IF Nothing \in {r.snapshot, r.spec, r.snapshotSpec} THEN {"snapshot_required"}
    ELSE When(r.snapshotSpec # r.spec, "snapshot_mismatch")

(* resolve_advanced_workflow: what speaks against a request, by its mode   *)
NativeReasons(r) ==
    When(~(r.features \subseteq r.host), "host_capability_missing")
    \cup When("resume" \in r.features, "host_resume_unsupported")

StochasticReasons(r) ==
    When(r.features \cap {"partial_denoise", "image_to_image"} # {}, "partial_unsupported")
    \cup When("resume" \in r.features, "resume_unsupported")
    \cup When("interruption" \in r.features, "interruption_unsupported")

DeterministicReasons(r) ==
    When(r.features \cap HostFeatures # {}, "host_feature_unsupported")
    \cup When(r.model \/ r.patch, "model_ownership_unsupported")
    \cup IF r.features \cap {"resume", "interruption"} # {} THEN SnapshotReasons(r) ELSE {}

Reasons(r) ==
    When(r.mode # "native_host" /\ r.host # {}, "contradictory_ownership")
    \cup CASE r.mode = "native_host" -> NativeReasons(r)
           [] r.mode = "stochastic_pure" -> StochasticReasons(r)
           [] r.mode = "deterministic_pure" -> DeterministicReasons(r)

(* A host can be interrupted, but nothing can go on from there; a request  *)
(* that brings a snapshot is not told so.                                  *)
WarnsOfInterruption(r) ==
    /\ r.mode = "native_host" /\ NativeReasons(r) = {} /\ "interruption" \in r.features
    /\ {r.snapshot, r.spec, r.snapshotSpec} = {Nothing}

Owner(r) ==
    CASE r.mode = "native_host" -> "host"
      [] r.mode = "stochastic_pure" -> "unsupported"
      [] r.mode = "deterministic_pure" ->
            IF Reasons(r) = {} THEN "controller" ELSE "unsupported"

(* resolve_advanced_workflow                                               *)
DecisionOn(r) ==
    [request |-> r, ownership |-> Owner(r), snapshot |-> r.snapshot,
     level |-> IF WarnsOfInterruption(r) THEN "warn"
               ELSE IF Reasons(r) # {} THEN "reject" ELSE "allow",
     reasons |-> IF WarnsOfInterruption(r) THEN {"host_interrupt_non_resumable"}
                 ELSE IF Reasons(r) # {} THEN Reasons(r) ELSE {"compatible"}]

(* AdvancedWorkflowDecision.__post_init__                                  *)
ValidDecision(d) ==
    /\ d.level \in Levels /\ d.reasons # {}
    /\ d.level = "allow" => d.reasons = {"compatible"}
    /\ d.level = "warn" => d.reasons = {"host_interrupt_non_resumable"}
    /\ d.level = "reject" => "compatible" \notin d.reasons

-----------------------------------------------------------------------------
(* AdvancedWorkflowCompatibilityReceipt.__post_init__                      *)
ValidAdvancedBody(b) ==
    /\ b.decision.request = b.request
    /\ b.snapshot = b.request.snapshot
    /\ (b.decision.level = "reject") = (b.status = "rejected")
    /\ b.resumable = (b.status = "resumable")
    /\ b.resumable => b.snapshot # Nothing
    /\ b.status = "succeeded" => b.result # Nothing
    /\ b.status \in {"not_executed", "rejected", "interrupted"} => b.result = Nothing

(* serialize_advanced_workflow_receipt                                     *)
AdvancedReceipt(b) ==
    [body |-> b, decision_fingerprint |-> b.decision, receipt_fingerprint |-> b]

(* build_advanced_workflow_receipt: the caller says how it ended           *)
AdvancedReceipts ==
    LET bodies ==
            {[request |-> r, decision |-> DecisionOn(r), status |-> status,
              resumable |-> status = "resumable", snapshot |-> r.snapshot, result |-> result] :
                r \in {x \in AdvancedRequests : ValidRequested(x)},
                status \in {"not_executed", "rejected", "interrupted", "resumable", "succeeded"},
                result \in {Nothing, "result"}}
    IN {AdvancedReceipt(b) : b \in {x \in bodies : ValidAdvancedBody(x)}}

(* _decision_from_projection                                               *)
ReadableDecision(e) ==
    e.decision_fingerprint = e.body.decision /\ ValidDecision(e.body.decision)

(* deserialize_advanced_workflow_receipt: the request is not resolved again *)
ReadableAdvanced(e) ==
    /\ e.receipt_fingerprint = e.body
    /\ ValidRequested(e.body.request)
    /\ ReadableDecision(e)
    /\ ValidAdvancedBody(e.body)

-----------------------------------------------------------------------------
(* A receipt claims a result, or that it can be resumed, only under a      *)
(* decision on its own request, one that did not reject it and says so in  *)
(* one reason.  What can be resumed has the snapshot of its request (the   *)
(* __post_init__ of request, decision and receipt together).  That the     *)
(* decision is the one its request gives is not looked at: somebody may    *)
(* rewrite it into a warning that nothing can be resumed.                  *)
AdvancedClaimHolds(e) ==
    LET b == e.body IN
    b.result # Nothing \/ b.resumable =>
        /\ b.decision.request = b.request
        /\ b.decision.reasons \in {{"compatible"}, {"host_interrupt_non_resumable"}}
        /\ b.resumable => b.request.snapshot # Nothing
        /\ AdvancedReceipt(b) = e
=============================================================================

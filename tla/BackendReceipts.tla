---------------------------- MODULE BackendReceipts ----------------------------
(***************************************************************************)
(* Receipts of the backend that computed a MiniMax H3 run:                 *)
(* core/h3_backend_receipts.py.  A receipt keeps apart what was asked for, *)
(* what was observed and by whom, what was measured, and how it ended.  A  *)
(* written receipt may be edited before it is read.                        *)
(*                                                                         *)
(* The patterns of public text are left out, and the operation backend     *)
(* stands for both axes, which every rule treats alike.                    *)
(***************************************************************************)
EXTENDS Sequences, FiniteSets, Naturals

CONSTANTS
    BackendDrafts,  \* the parts others may put into receipts
    Nothing         \* None

(* OperationBackend and AttentionBackend                                   *)
Unobserved == "not_observed"

(* BackendResultStatus: the states of an execution that ran on a backend,  *)
(* and of one that did not                                                 *)
NeverRan == {"rejected", "unavailable", "not_executed"}
Ran == {"succeeded", "fallback"}

-----------------------------------------------------------------------------
(* CheckpointIdentity, and the projection of an environment's checkpoint   *)
(* and LoRA: a bare name is a name of unavailable version and fingerprint  *)
(* (_identity_projection, _parse_identity)                                 *)
Identified(identity) ==
    IF identity.bare
    THEN [bare |-> FALSE, id |-> identity.id, version |-> "unavailable",
          fingerprint |-> "unavailable"]
    ELSE identity

(* BackendRequest: the launch controls say nothing of the backend used     *)
ValidRequest(request) == ~request.override

(* _tuple_reasons                                                          *)
SortedReasons(reasons) == \A i, j \in DOMAIN reasons : i < j => reasons[i] < reasons[j]

(* BackendObservation                                                      *)
ValidObservation(o) ==
    /\ SortedReasons(o.reasons)
    /\ o.status # "succeeded" => o.reasons # << >>
    /\ o.source # "authorized_host_dispatch" => o.actual = Unobserved
    /\ o.status \in NeverRan => o.actual = Unobserved
    /\ o.status \in Ran => o.source = "authorized_host_dispatch"

(* RunEvidence.has_runtime_metrics                                         *)
Measured(evidence) == evidence.latency # Nothing \/ evidence.output # Nothing

(* BackendResult                                                           *)
ValidResult(result) == result.status = "succeeded" <=> result.reason = Nothing

(* H3BackendExecutionReceipt, of the body without the fingerprint          *)
ValidBackendBody(body) ==
    /\ ValidRequest(body.request)
    /\ ValidObservation(body.observation)
    /\ ValidResult(body.result)
    /\ body.observation.status = body.result.status
    /\ Measured(body.evidence) <=> body.result.status = "succeeded"
    /\ body.result.status = "succeeded" =>
        body.observation.source = "authorized_host_dispatch"

(* _body_projection: an override is never written                          *)
BodyProjection(body) ==
    [checkpoint |-> Identified(body.checkpoint),
     request |-> [operation |-> body.request.operation, override |-> FALSE],
     observation |-> body.observation, evidence |-> body.evidence, result |-> body.result]

(* build_h3_backend_execution_receipt and                                  *)
(* serialize_h3_backend_execution_receipt                                  *)
BackendReceipt(body) ==
    [body |-> BodyProjection(body), fingerprint |-> [sha256 |-> BodyProjection(body)]]

BackendReceipts == {BackendReceipt(body) : body \in {b \in BackendDrafts : ValidBackendBody(b)}}

(* deserialize_h3_backend_execution_receipt: names are identified before   *)
(* the fingerprint is compared                                             *)
ReadableBackendReceipt(written) ==
    /\ ValidBackendBody(written.body)
    /\ written.fingerprint = [sha256 |-> BodyProjection(written.body)]

(* the object read, which is written again                                 *)
Reread(written) ==
    [body |-> BodyProjection(written.body), fingerprint |-> written.fingerprint]

-----------------------------------------------------------------------------
(* A receipt that is read claims no backend that only a plan, a simulation *)
(* or a launch flag names, carries measurements when and only when the     *)
(* authorized host says that the run succeeded, and is written again under *)
(* the same fingerprint (BackendObservation, H3BackendExecutionReceipt,    *)
(* deserialize_h3_backend_execution_receipt).                              *)
BackendClaimIsObserved(written) ==
    LET body == written.body IN
    /\ body.observation.actual # Unobserved \/ Measured(body.evidence) =>
        body.observation.source = "authorized_host_dispatch"
    /\ Measured(body.evidence) =>
        body.result.status = "succeeded" /\ body.result.reason = Nothing
    /\ body.observation.actual # Unobserved => body.result.status \notin NeverRan
    /\ BackendReceipt(body) = written
=============================================================================

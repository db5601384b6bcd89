--------------------------- MODULE ExecutionReceipts ---------------------------
(***************************************************************************)
(* Receipts, bundles and reports: core/execution_receipts.py and           *)
(* core/reports.py.  A receipt records one execution of an artifact's      *)
(* schedule, a bundle carries both, a report shows them to people, and a   *)
(* comparison sets two reports side by side.                               *)
(***************************************************************************)
EXTENDS SamplerSnapshot, ScheduleArtifacts, TLC

CONSTANT NoExecution    \* a report of an artifact alone

Magnitude(x, y) == IF x < y THEN y - x ELSE x - y

-----------------------------------------------------------------------------
(* Receipts                                                                *)

(* requested transitions against the artifact: build_execution_receipt and *)
(* _validate_receipt_projection                                            *)
WholeSchedule(requested, effective) == requested = effective.steps

(* ExecutionReceiptMetadata.__post_init__: the counts (ValidReceipt) and   *)
(* the reason, which failed and interrupted executions have and others not *)
HasReason(r) == r.reason = (r.status \in {"failed", "interrupted"})

ValidMetadata(r) == ValidReceipt(r) /\ HasReason(r)

(* _validate_receipt_projection                                            *)
ValidProjection(r) ==
    /\ ValidMetadata(r)
    /\ r.inputs.profile = r.profile
    /\ WholeSchedule(r.requested_transitions, r.inputs)
    /\ ~(r.status = "succeeded" /\ r.level = "reject")

ReceiptOf(a, metadata) ==
    [artifact |-> ReferenceTo(a), inputs |-> a.construction.effective,
     profile |-> a.construction.effective.profile, sampler |-> metadata.sampler,
     rng |-> metadata.rng, status |-> metadata.status, level |-> metadata.level,
     reason |-> metadata.reason, requested_transitions |-> metadata.requested_transitions,
     requested_model_evaluations |-> metadata.requested_model_evaluations,
     effective_transitions |-> metadata.effective_transitions,
     effective_model_evaluations |-> metadata.effective_model_evaluations]

(* build_execution_receipt                                                 *)
CanBuildReceipt(a, metadata) ==
    /\ WholeSchedule(metadata.requested_transitions, a.construction.effective)
    /\ a.construction.effective.profile # NoProfile
    /\ ValidProjection(ReceiptOf(a, metadata))

(* serialize_execution_receipt and deserialize_execution_receipt           *)
ReceiptEnvelope(r) == [receipt |-> r, receipt_fingerprint |-> Fingerprint(r)]

ReadableReceipt(envelope) ==
    /\ ValidProjection(envelope.receipt)
    /\ envelope.receipt_fingerprint = Fingerprint(envelope.receipt)

-----------------------------------------------------------------------------
(* Bundles                                                                 *)

(* PortableExecutionBundle.__post_init__                                   *)
NumericallyLinked(a, r) ==                \* mutant: the construction may differ
    /\ r.artifact.numerical = a.numerical_fingerprint
    /\ r.inputs = a.construction.effective

Linked(a, r) ==
    /\ r.artifact = ReferenceTo(a)
    /\ r.inputs = a.construction.effective

BundleEnvelope(a, r) == [artifact |-> a, receipt |-> ReceiptEnvelope(r)]

(* deserialize_portable_execution_bundle                                   *)
ReadableBundle(envelope) ==
    /\ ValidArtifact(envelope.artifact)
    /\ ReadableReceipt(envelope.receipt)
    /\ Linked(envelope.artifact, envelope.receipt.receipt)

-----------------------------------------------------------------------------
(* Reports                                                                 *)

(* what a report takes over of a receipt                                   *)
ExecutionOf(r) ==
    [receipt_fingerprint |-> Fingerprint(r), status |-> r.status, reason |-> r.reason,
     requested_transitions |-> r.requested_transitions,
     requested_model_evaluations |-> r.requested_model_evaluations,
     effective_transitions |-> r.effective_transitions,
     effective_model_evaluations |-> r.effective_model_evaluations]

(* the samples: each sigma with the token of its distance to the next one  *)
Samples(n) ==
    [i \in DOMAIN n.sigmas |->
        [sigma |-> n.sigmas[i],
         delta |-> IF i = Len(n.sigmas) THEN 0
                   ELSE Token(n.sigmas[i] - n.sigmas[i + 1], n.precision)]]

ReportOf(a, execution) ==
    [artifact |-> ReferenceTo(a), domain |-> a.numerical.domain,
     precision |-> a.numerical.precision, inputs |-> a.construction.effective,
     samples |-> Samples(a.numerical), execution |-> execution]

(* _validate_execution and _validate_counts                                *)
ValidExecution(execution, steps) ==
    /\ CountsAgree(execution) /\ HasReason(execution)
    /\ execution.requested_transitions = steps

(* _validate_schedule_projection                                           *)
ValidReport(report) ==
    LET sigmas == [i \in DOMAIN report.samples |-> report.samples[i].sigma]
    IN  /\ report.inputs.precision = report.precision
        /\ report.inputs.steps \in Nat \ {0}
        /\ Len(report.samples) = report.inputs.steps + 1
        /\ report.samples =
            Samples([sigmas |-> sigmas, precision |-> report.precision])
        /\ report.execution # NoExecution =>
            ValidExecution(report.execution, report.inputs.steps)

(* build_schedule_report with and without a receipt                        *)
CanReport(a, r) == Linked(a, r) /\ ValidReport(ReportOf(a, ExecutionOf(r)))

ReportEnvelope(report) ==
    [report |-> report, report_fingerprint |-> Fingerprint(report)]

ReadableReport(envelope) ==
    /\ ValidReport(envelope.report)
    /\ envelope.report_fingerprint = Fingerprint(envelope.report)

(* _comparison_source                                                      *)
SourceOf(report) ==
    [artifact |-> report.artifact, domain |-> report.domain,
     precision |-> report.precision, length |-> Len(report.samples),
     report_fingerprint |-> Fingerprint(report)]

(* _comparison_rows_and_summary, of which the rows, the number of exact    *)
(* matches and the first row with the largest difference                   *)
Rows(a, b) ==
    [i \in DOMAIN a |-> [sigma_a |-> a[i].sigma, sigma_b |-> b[i].sigma,
                         difference |-> Magnitude(a[i].sigma, b[i].sigma)]]

Summary(rows) ==
    [exact |-> Cardinality({i \in DOMAIN rows : rows[i].difference = 0}),
     largest |-> CHOOSE i \in DOMAIN rows :
        /\ \A j \in DOMAIN rows : rows[j].difference <= rows[i].difference
        /\ \A j \in 1 .. i - 1 : rows[j].difference < rows[i].difference]

Reason(a, b) ==
    IF a.domain # b.domain THEN "domain_mismatch"
    ELSE IF a.length # b.length THEN "length_mismatch" ELSE "comparable"

(* build_schedule_comparison_report                                        *)
ComparisonOf(a, b) ==
    LET reason == Reason(SourceOf(a), SourceOf(b))
        rows == IF reason = "comparable" THEN Rows(a.samples, b.samples) ELSE << >>
    IN  [a |-> SourceOf(a), b |-> SourceOf(b), reason |-> reason, rows |-> rows,
         summary |-> IF rows = << >> THEN NoExecution ELSE Summary(rows)]

(* _validate_comparison_projection: the reason must be the one its sources *)
(* give, and rows and summary what the rows' own sigmas give               *)
ValidComparison(c) ==
    /\ c.reason = Reason(c.a, c.b)
    /\ IF c.reason # "comparable"
       THEN c.rows = << >> /\ c.summary = NoExecution
       ELSE /\ Len(c.rows) = c.a.length
            /\ \A i \in DOMAIN c.rows :
                c.rows[i].difference = Magnitude(c.rows[i].sigma_a, c.rows[i].sigma_b)
            /\ c.summary = Summary(c.rows)

ReadableComparison(envelope) ==
    /\ ValidComparison(envelope.comparison)
    /\ envelope.fingerprint = Fingerprint(envelope.comparison)

ComparisonEnvelope(c) == [comparison |-> c, fingerprint |-> Fingerprint(c)]
=============================================================================

------------------------------- MODULE Evidence -------------------------------
(***************************************************************************)
(* Evidence on its way through the world.  A run of a schedule is settled  *)
(* with a receipt; artifacts, receipts, bundles, reports and comparisons   *)
(* are written to a paper that others may edit before it is read; metadata *)
(* is attached to a workflow that users edit too.  What can be built is    *)
(* given by constant sets, since building keeps no state.                  *)
(*                                                                         *)
(* Every writer and every reader goes through canonical_projection_bytes,  *)
(* whose limit of one MiB is the smallest: of sizes only the length of a   *)
(* list is modelled (CanonicalProjection).                                 *)
(***************************************************************************)
EXTENDS WorkflowMetadata, AdvancedWorkflows

CONSTANTS
    Results,        \* the schedule results artifacts are built of
    Outcomes,       \* the receipt metadata in use
    NodeLists,      \* the node requirements of workflows
    OtherKeys,      \* keys of others in a workflow's extra
    MaxEdits,       \* bound on the edits of one paper
    NoRun, Blank    \* no run has begun; an empty paper, nothing read

VARIABLES
    run,        \* the artifact whose schedule is run, and the run's snapshot
    paper,      \* what was written, its kind, and the edits since
    read,       \* the kind and the value read from the paper as it is
    workflow    \* the workflow document

evidence == <<run, paper, read, workflow>>

Artifacts ==
    {ArtifactOf(built[1], built[2]) :
        built \in {pair \in Results \X Precisions : CanBuildArtifact(pair[1], pair[2])}}

Receipts ==
    {ReceiptOf(built[1], built[2]) :
        built \in {pair \in Artifacts \X Outcomes : CanBuildReceipt(pair[1], pair[2])}}

Bundles == {pair \in Artifacts \X Receipts : Linked(pair[1], pair[2])}

Reports ==
    {ReportOf(a, NoExecution) : a \in Artifacts}
        \cup {ReportOf(shown[1], ExecutionOf(shown[2])) :
                shown \in {pair \in Bundles : CanReport(pair[1], pair[2])}}

(* workflows name an artifact and some of its receipts                     *)
Metadata ==
    UNION {{[nodes |-> nodes, artifact |-> ReferenceTo(a),
             receipts |-> {ReceiptReference(r) : r \in rs}] :
                nodes \in NodeLists,
                rs \in {{}} \cup {{r} : r \in {x \in Receipts : x.artifact = ReferenceTo(a)}}} :
            a \in Artifacts}

Kinds == {"artifact", "receipt", "bundle", "report", "comparison", "backend", "advanced"}

Writable(kind) ==
    CASE kind = "artifact" -> Artifacts
      [] kind = "receipt" -> {ReceiptEnvelope(r) : r \in Receipts}
      [] kind = "bundle" -> {BundleEnvelope(pair[1], pair[2]) : pair \in Bundles}
      [] kind = "report" -> {ReportEnvelope(report) : report \in Reports}
      [] kind = "comparison" ->
            {ComparisonEnvelope(ComparisonOf(ReportOf(a, NoExecution), ReportOf(b, NoExecution))) :
                a, b \in Artifacts}
      [] kind = "backend" -> BackendReceipts
      [] kind = "advanced" -> AdvancedReceipts

Readable(kind, e) ==
    CASE kind = "artifact" -> ValidArtifact(e)
      [] kind = "receipt" -> ReadableReceipt(e)
      [] kind = "bundle" -> ReadableBundle(e)
      [] kind = "report" -> ReadableReport(e)
      [] kind = "comparison" -> ReadableComparison(e)
      [] kind = "backend" -> ReadableBackendReceipt(e)
      [] kind = "advanced" -> ReadableAdvanced(e)

-----------------------------------------------------------------------------
(* Runs                                                                    *)

SpecOfRun(a, first) ==
    [sampler |-> "euler", rng |-> "none", scheduler_index |-> first,
     requested_transitions |-> Steps(a.numerical.sigmas) - first,
     requested_model_evaluations |-> Steps(a.numerical.sigmas) - first]

NextStep(s) ==
    [step_index |-> Len(s.history), scheduler_index |-> s.spec.scheduler_index + Len(s.history),
     model_evaluations |-> 1, input |-> "latent", output |-> "latent"]

(* execute_deterministic_flow_euler: begin, every transition, and the end   *)
(* of the loop, with a transition limit or without                         *)
BeginRun ==
    /\ run = NoRun
    /\ \E a \in Artifacts : \E first \in 0 .. Steps(a.numerical.sigmas) - 1 :
        run' = [schedule |-> a, snapshot |-> Initial(SpecOfRun(a, first))]

StepRun ==
    /\ run # NoRun
    /\ CanAppend(run.snapshot, run.snapshot.spec, NextStep(run.snapshot))
    /\ run' = [run EXCEPT !.snapshot = Appended(@, NextStep(@))]

EndRun ==
    /\ run # NoRun
    /\ \/ /\ CanComplete(run.snapshot, run.snapshot.spec)
          /\ run' = [run EXCEPT !.snapshot = Completed(@)]
       \/ /\ CanInterrupt(run.snapshot, run.snapshot.spec)
          /\ run' = [run EXCEPT !.snapshot = Interrupted(@)]

Settle ==
    /\ run # NoRun
    /\ \E r \in Receipts :
        /\ CanAttach(run.snapshot, run.snapshot.spec, r)
        /\ run' = [run EXCEPT !.snapshot = Attached(@, r)]

-----------------------------------------------------------------------------
(* Papers                                                                  *)

Write ==
    /\ paper = Blank
    /\ \E kind \in Kinds : \E e \in Writable(kind) :
        paper' = [kind |-> kind, content |-> e, edits |-> 0]
    /\ UNCHANGED read

(* e with one of its fields taken from another one                         *)
Swaps(e, other) == {[e EXCEPT ![field] = other[field]] : field \in DOMAIN e}

Edited(kind, e, other) ==
    Swaps(e, other) \cup
    CASE kind = "receipt" ->
            {[e EXCEPT !.receipt = s] : s \in Swaps(e.receipt, other.receipt)}
      [] kind = "bundle" ->
            {[e EXCEPT !.receipt.receipt = s] :
                s \in Swaps(e.receipt.receipt, other.receipt.receipt)}
      [] kind = "artifact" ->
            {[e EXCEPT !.construction = s] : s \in Swaps(e.construction, other.construction)}
      [] kind = "report" ->
            {[e EXCEPT !.report = s] : s \in Swaps(e.report, other.report)}
      [] kind = "comparison" ->
            {[e EXCEPT !.comparison = s] : s \in Swaps(e.comparison, other.comparison)}
      [] kind = "advanced" ->
            {[e EXCEPT !.body = s] :
                s \in Swaps(e.body, other.body)
                    \cup {[e.body EXCEPT !.decision = d] :
                            d \in Swaps(e.body.decision, other.body.decision)}}
      [] kind = "backend" ->
            UNION {{[e EXCEPT !.body = s] :
                        s \in Swaps(e.body, draft)
                            \cup {[e.body EXCEPT !.observation = o] :
                                    o \in Swaps(e.body.observation, draft.observation)}} :
                    draft \in BackendDrafts}

(* e with the fingerprints its parts ought to have                         *)
SealedArtifact(a) ==
    LET c == [a.construction EXCEPT !.numerical_fingerprint = Fingerprint(a.numerical)]
    IN  [numerical |-> a.numerical, construction |-> c,
         numerical_fingerprint |-> Fingerprint(a.numerical),
         construction_fingerprint |-> Fingerprint(c)]

Sealed(kind, e) ==
    CASE kind = "artifact" -> SealedArtifact(e)
      [] kind = "receipt" -> ReceiptEnvelope(e.receipt)
      [] kind = "bundle" -> BundleEnvelope(SealedArtifact(e.artifact), e.receipt.receipt)
      [] kind = "report" -> ReportEnvelope(e.report)
      [] kind = "comparison" -> ComparisonEnvelope(e.comparison)
      [] kind = "backend" -> BackendReceipt(e.body)
      [] kind = "advanced" -> AdvancedReceipt(e.body)

(* somebody puts a part of another file into this one, and may mend the    *)
(* fingerprints                                                            *)
Edit ==
    /\ paper # Blank
    /\ paper.edits < MaxEdits         \* bound
    /\ \E other \in Writable(paper.kind) :
       \E e \in Edited(paper.kind, paper.content, other) :
       \E content \in {e, Sealed(paper.kind, e)} :
            paper' = [paper EXCEPT !.content = content, !.edits = @ + 1]
    /\ read' = Blank

Read ==
    /\ paper # Blank
    /\ Readable(paper.kind, paper.content)
    /\ read' = [kind |-> paper.kind,
                 value |-> IF paper.kind = "backend" THEN Reread(paper.content)
                           ELSE paper.content]
    /\ UNCHANGED paper

(* a paper is thrown away, as one that is refused                          *)
Discard == paper # Blank /\ paper' = Blank /\ read' = Blank

-----------------------------------------------------------------------------
(* Workflows                                                               *)

AttachMetadata(m) ==
    /\ CanAttachMetadata(workflow, m)
    /\ workflow' = IF workflow.metadata \in {NoMetadata, NullMetadata}
                   THEN WithMetadata(workflow, m) ELSE workflow

DetachMetadata == CanDetachMetadata(workflow) /\ workflow' = Detached(workflow)

(* a user edits the other keys, or empties the namespace                   *)
EditExtra ==
    \/ \E keys \in SUBSET OtherKeys :
        workflow' = [workflow EXCEPT !.others = keys,
                        !.extra = (keys # {} \/ workflow.metadata # NoMetadata)]
    \/ /\ Namespaced(workflow)
       /\ workflow' = [workflow EXCEPT !.metadata = NullMetadata]

-----------------------------------------------------------------------------
EvidenceInit ==
    /\ run = NoRun
    /\ paper = Blank
    /\ read = Blank
    /\ workflow \in [supported : BOOLEAN, extra : {FALSE}, others : {{}},
                     metadata : {NoMetadata}]

RunNext ==
    /\ \/ BeginRun
       \/ StepRun
       \/ EndRun
       \/ Settle
    /\ UNCHANGED <<paper, read, workflow>>

PaperNext ==
    /\ \/ Write
       \/ Edit
       \/ Read
       \/ Discard
    /\ UNCHANGED <<run, workflow>>

WorkflowNext ==
    /\ \/ \E m \in Metadata : AttachMetadata(m)
       \/ DetachMetadata
       \/ EditExtra
    /\ UNCHANGED <<run, paper, read>>

EvidenceNext == RunNext \/ PaperNext \/ WorkflowNext

EvidenceSpec == EvidenceInit /\ [][EvidenceNext]_evidence

-----------------------------------------------------------------------------
(* Whatever is read from a paper that others have pieced together agrees   *)
(* with itself: an artifact's steps are those of its sigmas and its slice; *)
(* the receipt of a bundle is of that bundle's artifact, asked for all of  *)
(* its transitions, and succeeded only when it took them; a report's rows  *)
(* and counts are of one schedule; a backend receipt claims what a host    *)
(* observed, and one about an advanced feature what its decision allows    *)
(* (the __post_init__ of ScheduleArtifact, ExecutionReceipt,               *)
(* PortableExecutionBundle, ScheduleReport, H3BackendExecutionReceipt and  *)
(* AdvancedWorkflowCompatibilityReceipt).                                  *)
ArtifactAgrees(a) ==
    LET steps == a.construction.slicing.end_step - a.construction.slicing.start_step
    IN  /\ Steps(a.numerical.sigmas) = steps
        /\ a.construction.numerical_fingerprint = Fingerprint(a.numerical)
        /\ a.construction.requested.steps # steps => "steps" \in a.construction.overrides

ExecutionAgrees(execution, steps) ==
    /\ execution.requested_transitions = steps
    /\ execution.status = "succeeded" => execution.effective_transitions = steps

ReadAgrees ==
    read # Blank =>
        LET e == read.value IN
        /\ read.kind = "artifact" => ArtifactAgrees(e)
        /\ read.kind = "bundle" =>
            /\ ArtifactAgrees(e.artifact)
            /\ e.receipt.receipt.artifact.construction.sha256 = e.artifact.construction
            /\ ExecutionAgrees(e.receipt.receipt, Steps(e.artifact.numerical.sigmas))
        /\ read.kind = "report" /\ e.report.execution # NoExecution =>
            ExecutionAgrees(e.report.execution, Len(e.report.samples) - 1)
        /\ read.kind = "comparison" /\ e.comparison.reason = "comparable" =>
            Len(e.comparison.rows) = e.comparison.b.length
        /\ read.kind = "backend" => BackendClaimIsObserved(e)
        /\ read.kind = "advanced" => AdvancedClaimHolds(e)

(* A run that is bound to a receipt was a run of a whole schedule: of as   *)
(* many transitions as the receipt's artifact has, all of them taken when  *)
(* it completed.  A partial run is not bound to the receipt of a longer    *)
(* schedule (attach_execution_receipt_evidence with                        *)
(* build_execution_receipt).                                               *)
BoundRunIsWholeSchedule ==
    run # NoRun /\ run.snapshot.receipt # NoReceipt =>
        LET steps == Steps(run.snapshot.receipt.artifact.numerical.sha256.sigmas)
        IN  /\ run.snapshot.spec.requested_transitions = steps
            /\ run.snapshot.status = "completed" => Len(run.snapshot.history) = steps

(* Evidence agrees with itself: what is read of files, and a run bound to  *)
(* a receipt (the __post_init__ methods named above,                       *)
(* attach_execution_receipt_evidence).                                     *)
AcceptedEvidenceAgrees == ReadAgrees /\ BoundRunIsWholeSchedule

(* Metadata in a workflow is never replaced by other metadata, and nothing *)
(* that touches it touches the keys of others in the same step             *)
(* (attach_workflow_metadata, detach_workflow_metadata).                   *)
MetadataStands ==
    [][/\ workflow'.metadata # workflow.metadata => workflow'.others = workflow.others
       /\ workflow.metadata \notin {NoMetadata, NullMetadata} =>
            workflow'.metadata \in {workflow.metadata, NoMetadata, NullMetadata}]_evidence
=============================================================================

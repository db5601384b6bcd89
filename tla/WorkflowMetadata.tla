--------------------------- MODULE WorkflowMetadata ---------------------------
(***************************************************************************)
(* core/workflow_metadata.py: what a saved workflow says of the artifact   *)
(* and the receipts it was made with, kept under one key of the workflow's *)
(* `extra`, beside the keys of others.  Node identifiers are numbers in    *)
(* their alphabetical order.                                               *)
(***************************************************************************)
EXTENDS ExecutionReceipts

CONSTANTS
    MaxRequirements,    \* _MAX_REQUIREMENTS, 128 in the code
    NoMetadata,         \* the workflow has no Sigmax namespace
    NullMetadata        \* the namespace is null

-----------------------------------------------------------------------------
(* Metadata                                                                *)

(* WorkflowReceiptReference                                                *)
ReceiptReference(r) ==
    [receipt |-> Fingerprint(r), artifact |-> r.artifact, status |-> r.status]

(* WorkflowMetadata.__post_init__                                          *)
ValidWorkflowMetadata(m) ==
    /\ Len(m.nodes) \in 1 .. MaxRequirements
    /\ Cardinality({m.nodes[i] : i \in DOMAIN m.nodes}) = Len(m.nodes)
    /\ Cardinality({ref.receipt : ref \in m.receipts}) = Cardinality(m.receipts)
    /\ Cardinality(m.receipts) <= MaxRequirements
    /\ \A ref \in m.receipts : ref.artifact = m.artifact

(* _projection: the nodes are sorted                                       *)
Sorted(m) == [m EXCEPT !.nodes = SortSeq(@, <)]

MetadataEnvelope(m) ==
    [metadata |-> Sorted(m), metadata_fingerprint |-> Fingerprint(Sorted(m))]

(* deserialize_workflow_metadata                                           *)
ReadableMetadata(envelope) ==
    /\ ValidWorkflowMetadata(envelope.metadata)
    /\ envelope.metadata = Sorted(envelope.metadata)
    /\ envelope.metadata_fingerprint = Fingerprint(envelope.metadata)

-----------------------------------------------------------------------------
(* A workflow document: whether its version is a supported one, the other  *)
(* keys of its extra, and the Sigmax namespace.  Extra is absent (or null) *)
(* unless it is an object.                                                 *)

Namespaced(w) == w.extra /\ w.metadata # NoMetadata

(* attach_workflow_metadata: metadata that is there already must be equal, *)
(* and is compared as the caller gave it, before sorting                   *)
CanAttachMetadata(w, m) ==
    /\ w.supported /\ ValidWorkflowMetadata(m)
    /\ w.metadata \notin {NoMetadata, NullMetadata} =>
        ReadableMetadata(w.metadata) /\ w.metadata.metadata = m

WithMetadata(w, m) == [w EXCEPT !.extra = TRUE, !.metadata = MetadataEnvelope(m)]

(* detach_workflow_metadata: an extra that becomes empty is taken out      *)
CanDetachMetadata(w) ==
    /\ w.supported
    /\ Namespaced(w) => w.metadata # NullMetadata /\ ReadableMetadata(w.metadata)

DetachedWithExtra(w) ==               \* mutant: extra goes as a whole
    IF Namespaced(w)
    THEN [w EXCEPT !.metadata = NoMetadata, !.extra = FALSE, !.others = {}] ELSE w

Detached(w) ==
    IF Namespaced(w)
    THEN [w EXCEPT !.metadata = NoMetadata, !.extra = (w.others # {})] ELSE w
=============================================================================

----------------------------- MODULE SamplerState -----------------------------
(***************************************************************************)
(* The life of sampler snapshots in the hands of their callers.  Each      *)
(* holder keeps a reference to one immutable snapshot; holders share       *)
(* snapshots, call the methods of SamplerSnapshot on them with a           *)
(* specification of their choice, bind them to receipts, write them to one *)
(* transport slot and read them back, possibly after the process           *)
(* restarted, when the slot is the only copy and may be an old one.  A     *)
(* call that raises changes nothing and is not a step.                     *)
(***************************************************************************)
EXTENDS SamplerSnapshot

CONSTANTS
    Holders,        \* the callers that hold a snapshot
    Specs,          \* the execution specifications in use
    Fingerprints,   \* the identities of the sampler's numerical states
    SigmaPairs,     \* the (sigma, next_sigma) evidence of a step
    StepEvaluations,\* the model evaluations one step may report
    ReceiptIds,     \* what else tells two receipts apart: host, model, artifact
    SpecReceipts,   \* every receipt that can be built for these specifications
    MaxCount,       \* the bound on counts and indexes, 1_000_000 in the code
    NoSnapshot      \* an empty holder or an empty transport slot

SpecFields(sp) ==
    /\ sp.scheduler_index \in 0 .. MaxCount
    /\ sp.requested_transitions \in 0 .. MaxCount
    /\ sp.requested_model_evaluations \in 0 .. MaxCount
    /\ sp.requested_transitions <= sp.requested_model_evaluations

ASSUME MaxCountAssumption == MaxCount \in Nat
ASSUME SpecsAssumption == \A sp \in Specs : SpecFields(sp)
ASSUME StepEvaluationsAssumption == StepEvaluations \subseteq 1 .. MaxCount
ASSUME ReceiptIdsAssumption == ReceiptIds # {}
ASSUME ReceiptsAssumption ==
    SpecReceipts =
        {r \in [id : ReceiptIds,
                sampler : {sp.sampler : sp \in Specs}, rng : {sp.rng : sp \in Specs},
                requested_transitions : {sp.requested_transitions : sp \in Specs},
                requested_model_evaluations :
                    {sp.requested_model_evaluations : sp \in Specs},
                effective_transitions : 0 .. MaxCount,
                effective_model_evaluations : 0 .. MaxCount,
                status : ReceiptStatuses] : BuildableReceipt(r)}

VARIABLES
    held,   \* the snapshot each holder refers to
    wire    \* the snapshot last serialized

vars == <<held, wire>>

SamplerSteps ==
    [step_index : 0 .. MaxCount, scheduler_index : 0 .. 2 * MaxCount,
     sigmas : SigmaPairs, model_evaluations : StepEvaluations,
     input : Fingerprints, output : Fingerprints]

Snapshots ==
    [spec : Specs, history : Seq(SamplerSteps), status : Statuses,
     receipt : SpecReceipts \cup {NoReceipt}]

Holds(h) == held[h] # NoSnapshot

Put(h, s) == held' = [held EXCEPT ![h] = s] /\ UNCHANGED wire

Init ==
    /\ held = [h \in Holders |-> NoSnapshot]
    /\ wire = NoSnapshot

Begin(h, spec) == ~Holds(h) /\ Put(h, Initial(spec))

AppendStep(h, spec, step) ==
    Holds(h) /\ CanAppend(held[h], spec, step) /\ Put(h, Appended(held[h], step))

Interrupt(h, spec) ==
    Holds(h) /\ CanInterrupt(held[h], spec) /\ Put(h, Interrupted(held[h]))

Resume(h, spec) ==
    Holds(h) /\ CanResume(held[h], spec) /\ Put(h, Resumed(held[h]))

Complete(h, spec) ==
    Holds(h) /\ CanComplete(held[h], spec) /\ Put(h, Completed(held[h]))

AttachReceipt(h, spec, r) ==
    Holds(h) /\ CanAttach(held[h], spec, r) /\ Put(h, Attached(held[h], r))

Serialize(h, spec) ==
    /\ Holds(h)
    /\ CanSerialize(held[h], spec)
    /\ wire' = held[h]
    /\ UNCHANGED held

Deserialize(h, spec) ==
    /\ ~Holds(h)
    /\ wire # NoSnapshot
    /\ CanDeserialize(wire, spec)
    /\ Put(h, wire)

(***************************************************************************)
(* Two callers keep the same immutable value; a caller forgets its value;  *)
(* the process restarts and only the transport survives.                   *)
(***************************************************************************)
Share(h, g) == Holds(h) /\ ~Holds(g) /\ Put(g, held[h])

Drop(h) == Holds(h) /\ Put(h, NoSnapshot)

Restart ==
    /\ held' = [h \in Holders |-> NoSnapshot]
    /\ UNCHANGED wire

(* No step or receipt is tried where each is refused.                      *)
TakesSteps(h, spec) ==
    /\ Holds(h) /\ MatchesSpec(held[h], spec)
    /\ held[h].status \in {"ready", "running"}

TakesReceipts(h, spec) ==
    /\ Holds(h) /\ MatchesSpec(held[h], spec)
    /\ held[h].status # "running"

Next ==
    \/ \E h \in Holders, spec \in Specs :
        \/ Begin(h, spec)
        \/ TakesSteps(h, spec) /\ \E step \in SamplerSteps : AppendStep(h, spec, step)
        \/ Interrupt(h, spec)
        \/ Resume(h, spec)
        \/ Complete(h, spec)
        \/ TakesReceipts(h, spec) /\ \E r \in SpecReceipts : AttachReceipt(h, spec, r)
        \/ Serialize(h, spec)
        \/ Deserialize(h, spec)
    \/ \E h, g \in Holders : Share(h, g)
    \/ \E h \in Holders : Drop(h)
    \/ Restart

Spec == Init /\ [][Next]_vars

-----------------------------------------------------------------------------
(***************************************************************************)
(* Every place a snapshot can be: a holder or the transport slot.          *)
(***************************************************************************)
Live == ({held[h] : h \in Holders} \cup {wire}) \ {NoSnapshot}

(***************************************************************************)
(* Each holder and the transport carry a well-typed snapshot or nothing.   *)
(***************************************************************************)
TypeOK ==
    /\ held \in [Holders -> Snapshots \cup {NoSnapshot}]
    /\ wire \in Snapshots \cup {NoSnapshot}

(***************************************************************************)
(* No snapshot, held or restored, has executed more than its specification *)
(* requested, one that is completed executed exactly that, and one that is *)
(* ready executed nothing (append_step, complete, _validate_lifecycle).    *)
(***************************************************************************)
BudgetKept ==
    \A s \in Live :
        /\ Len(s.history) <= s.spec.requested_transitions
        /\ EffectiveEvaluations(s.history) <= s.spec.requested_model_evaluations
        /\ s.status = "completed" =>
            /\ Len(s.history) = s.spec.requested_transitions
            /\ EffectiveEvaluations(s.history) = s.spec.requested_model_evaluations
        /\ s.status = "ready" => s.history = << >>

(***************************************************************************)
(* The steps of every history are numbered from zero, sit at consecutive   *)
(* scheduler positions from the specification's own, and hand their        *)
(* numerical state on, whatever was interrupted, shared, written and read  *)
(* back in between; reading back rechecks numbers and states but not the   *)
(* scheduler positions.                                                    *)
(***************************************************************************)
HistoryIsOneRun ==
    \A s \in Live : \A i \in 1 .. Len(s.history) :
        /\ s.history[i].step_index = i - 1
        /\ s.history[i].scheduler_index = s.spec.scheduler_index + (i - 1)
        /\ i > 1 => s.history[i - 1].output = s.history[i].input

(***************************************************************************)
(* A receipt stays true of the snapshot it is bound to: sampler, RNG       *)
(* owner, requested and effective counts and outcome agree, so a bound     *)
(* snapshot was never advanced or relabelled afterwards                    *)
(* (_require_receipt_unbound, attach_execution_receipt_evidence).          *)
(***************************************************************************)
ReceiptTellsTheTruth ==
    \A s \in Live : s.receipt # NoReceipt =>
        /\ s.receipt.sampler = s.spec.sampler
        /\ s.receipt.rng = s.spec.rng
        /\ s.receipt.requested_transitions = s.spec.requested_transitions
        /\ s.receipt.requested_model_evaluations = s.spec.requested_model_evaluations
        /\ s.receipt.effective_transitions = Len(s.history)
        /\ s.receipt.effective_model_evaluations = EffectiveEvaluations(s.history)
        /\ <<s.status, s.receipt.status>> \in
            {<<"ready", "not_executed">>, <<"interrupted", "interrupted">>,
             <<"completed", "succeeded">>}

(***************************************************************************)
(* Whatever a holder serialized can be read back under its own             *)
(* specification: the writer looks at status and length only, and what the *)
(* reader checks besides (numbering, continuity, budgets) holds of every   *)
(* snapshot the methods can build.                                         *)
(***************************************************************************)
WireIsReadable == wire # NoSnapshot => CanDeserialize(wire, wire.spec)

(***************************************************************************)
(* A snapshot can be settled when it is bound to a receipt, or a receipt   *)
(* can be built that it accepts now or as soon as it is interrupted.       *)
(* Whether it can is decided by its request alone, however its life went:  *)
(* a request for some work that an artifact can hold is never stranded     *)
(* without evidence, and a longer one, which _MAX_HISTORY allows to run,   *)
(* always is.                                                              *)
(***************************************************************************)
Settleable(s) ==
    \/ s.receipt # NoReceipt
    \/ \E r \in SpecReceipts :
        \/ CanAttach(s, s.spec, r)
        \/ CanInterrupt(s, s.spec) /\ CanAttach(Interrupted(s), s.spec, r)

OnlyOversizedStranded ==
    \A s \in Live :
        Settleable(s) <=>
            /\ s.spec.requested_transitions > 0
            /\ HasArtifact(s.spec.requested_transitions)

(***************************************************************************)
(* Binding is final: the holder of a bound snapshot keeps exactly that     *)
(* snapshot until it lets go of it, whoever else advances a shared copy    *)
(* ("receipt-bound sampler state is terminal").                            *)
(***************************************************************************)
BindingIsFinal ==
    [][\A h \in Holders :
        Holds(h) /\ held[h].receipt # NoReceipt =>
            held'[h] \in {held[h], NoSnapshot}]_vars

(***************************************************************************)
(* Completion is final: a completed snapshot only ever gains its receipt.  *)
(***************************************************************************)
CompletionIsFinal ==
    [][\A h \in Holders :
        Holds(h) /\ held[h].status = "completed" =>
            \/ held'[h] = NoSnapshot
            \/ /\ held'[h].status = "completed"
               /\ held'[h].history = held[h].history
               /\ held'[h].spec = held[h].spec]_vars
=============================================================================

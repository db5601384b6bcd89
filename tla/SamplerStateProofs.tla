-------------------------- MODULE SamplerStateProofs --------------------------
(***************************************************************************)
(* The safety properties of SamplerState and of Evidence for all values of *)
(* their constants.  A snapshot is an immutable value, so the inductive    *)
(* invariant is a predicate SnapshotInv on values: each method turns a     *)
(* good snapshot into a good one, and holders and transport only ever      *)
(* carry good ones.  Evidence comes last.                                  *)
(***************************************************************************)
EXTENDS SamplerState, Evidence, FiniteSetTheorems, InductionFacts

BudgetInv(s) ==
    /\ Len(s.history) <= s.spec.requested_transitions
    /\ EffectiveEvaluations(s.history) <= s.spec.requested_model_evaluations
    /\ s.status = "completed" =>
        /\ Len(s.history) = s.spec.requested_transitions
        /\ EffectiveEvaluations(s.history) = s.spec.requested_model_evaluations
    /\ s.status = "ready" => s.history = << >>

RunInv(s) ==
    /\ Len(s.history) <= MaxHistory
    /\ \A i \in 1 .. Len(s.history) :
        /\ s.history[i].step_index = i - 1
        /\ s.history[i].scheduler_index = s.spec.scheduler_index + (i - 1)
        /\ i > 1 => s.history[i - 1].output = s.history[i].input

ReceiptInv(s) ==
    s.receipt # NoReceipt =>
        /\ s.receipt.sampler = s.spec.sampler
        /\ s.receipt.rng = s.spec.rng
        /\ s.receipt.requested_transitions = s.spec.requested_transitions
        /\ s.receipt.requested_model_evaluations = s.spec.requested_model_evaluations
        /\ s.receipt.effective_transitions = Len(s.history)
        /\ s.receipt.effective_model_evaluations = EffectiveEvaluations(s.history)
        /\ <<s.status, s.receipt.status>> \in
            {<<"ready", "not_executed">>, <<"interrupted", "interrupted">>,
             <<"completed", "succeeded">>}

SnapshotInv(s) == s \in Snapshots /\ BudgetInv(s) /\ RunInv(s) /\ ReceiptInv(s)

(* The inductive invariant: everything that is not empty is good. *)
IInv ==
    /\ held \in [Holders -> Snapshots \cup {NoSnapshot}]
    /\ \A h \in Holders : Holds(h) => SnapshotInv(held[h])
    /\ wire # NoSnapshot => SnapshotInv(wire)

(* The sum over the empty history is zero: the base of the fold. *)
LEMMA EmptyEvaluations == EffectiveEvaluations(<< >>) = 0
<1>1. DOMAIN << >> = {}
  OBVIOUS
<1>2. MapThenSumSet(LAMBDA i : << >>[i].model_evaluations, {}) = 0
  <2> DEFINE body(f) ==
        [s \in SUBSET {} |->
            IF s = {} THEN 0
            ELSE LET x == CHOOSE x \in s : TRUE
                 IN  << >>[x].model_evaluations + f[s \ {x}]]
  <2> DEFINE g == [s \in SUBSET {} |-> 0]
  <2>1. g = body(g)
    OBVIOUS
  <2>2. \E f : f = body(f)
    BY <2>1
  <2> QED
    BY <2>2 DEF MapThenSumSet, MapThenFoldSet
<1> QED
  BY <1>1, <1>2 DEF EffectiveEvaluations

(* A snapshot that was just begun has executed nothing and asks for some   *)
(* natural number of steps.                                                *)
LEMMA InitialIsGood ==
    ASSUME NEW spec \in Specs
    PROVE  SnapshotInv(Initial(spec))
<1>1. Initial(spec) \in Snapshots
  BY DEF Initial, Snapshots, Statuses
<1>2. /\ spec.requested_transitions \in Nat
      /\ spec.requested_model_evaluations \in Nat
  BY SpecsAssumption, MaxCountAssumption DEF SpecFields
<1>3. BudgetInv(Initial(spec))
  BY <1>2, EmptyEvaluations DEF BudgetInv, Initial
<1>4. RunInv(Initial(spec))
  BY MaxHistoryAssumption DEF RunInv, Initial
<1>5. ReceiptInv(Initial(spec))
  BY DEF ReceiptInv, Initial
<1> QED
  BY <1>1, <1>3, <1>4, <1>5 DEF SnapshotInv

(* append_step: the budget is checked before, the numbering and the state  *)
(* of the new step against the old history.                                *)
LEMMA AppendIsGood ==
    ASSUME NEW s, SnapshotInv(s), NEW spec \in Specs, NEW step \in SamplerSteps,
           CanAppend(s, spec, step)
    PROVE  SnapshotInv(Appended(s, step))
<1> DEFINE t == Appended(s, step)
           n == Len(s.history)
<1>1. /\ s \in Snapshots
      /\ s.history \in Seq(SamplerSteps)
      /\ n \in Nat
      /\ s.spec = spec
      /\ s.spec.scheduler_index \in Nat
  BY SpecsAssumption, MaxCountAssumption
     DEF SnapshotInv, Snapshots, CanAppend, MatchesSpec, SpecFields
<1>2. /\ t.history = Append(s.history, step)
      /\ t.spec = s.spec
      /\ t.status = "running"
      /\ t.receipt = s.receipt
  BY <1>1 DEF Appended, Snapshots
<1>3. /\ t.history \in Seq(SamplerSteps)
      /\ Len(t.history) = n + 1
      /\ t.history[n + 1] = step
      /\ \A i \in 1 .. n : t.history[i] = s.history[i]
  BY <1>1, <1>2
<1>4. t \in Snapshots
  BY <1>1, <1>3 DEF Appended, Snapshots, Statuses
<1>5. BudgetInv(t)
  BY <1>1, <1>2 DEF BudgetInv, CanAppend, WithinRequest, EffectiveTransitions
<1>6. RunInv(t)
  <2>1. Len(t.history) <= MaxHistory
    BY <1>1, <1>3, MaxHistoryAssumption DEF CanAppend
  <2>2. ASSUME NEW i \in 1 .. n
        PROVE  /\ t.history[i].step_index = i - 1
               /\ t.history[i].scheduler_index = t.spec.scheduler_index + (i - 1)
               /\ i > 1 => t.history[i - 1].output = t.history[i].input
    BY <1>1, <1>2, <1>3 DEF SnapshotInv, RunInv
  <2>3. /\ t.history[n + 1].step_index = (n + 1) - 1
        /\ t.history[n + 1].scheduler_index = t.spec.scheduler_index + ((n + 1) - 1)
    BY <1>1, <1>2, <1>3 DEF CanAppend, EffectiveTransitions
  <2>4. n + 1 > 1 => t.history[(n + 1) - 1].output = t.history[n + 1].input
    BY <1>1, <1>3 DEF CanAppend, Continues
  <2>5. ASSUME NEW i \in 1 .. (n + 1)
        PROVE  /\ t.history[i].step_index = i - 1
               /\ t.history[i].scheduler_index = t.spec.scheduler_index + (i - 1)
               /\ i > 1 => t.history[i - 1].output = t.history[i].input
    <3>1. CASE i \in 1 .. n
      BY <2>2, <3>1
    <3>2. CASE i = n + 1
      BY <2>3, <2>4, <3>2
    <3> QED
      BY <1>1, <3>1, <3>2
  <2> HIDE DEF t
  <2> QED
    BY <1>1, <1>3, <2>1, <2>5 DEF RunInv
<1>7. ReceiptInv(t)
  BY <1>2 DEF ReceiptInv, CanAppend, ReceiptUnbound
<1> QED
  BY <1>4, <1>5, <1>6, <1>7 DEF SnapshotInv

(* interrupt, resume and complete relabel an unbound snapshot. *)
LEMMA RelabelIsGood ==
    ASSUME NEW s, SnapshotInv(s), s.receipt = NoReceipt,
           NEW st \in {"running", "interrupted", "completed"},
           st = "completed" =>
              /\ Len(s.history) = s.spec.requested_transitions
              /\ EffectiveEvaluations(s.history) = s.spec.requested_model_evaluations
    PROVE  SnapshotInv([s EXCEPT !.status = st])
<1> DEFINE t == [s EXCEPT !.status = st]
<1>1. /\ t.history = s.history
      /\ t.spec = s.spec
      /\ t.status = st
      /\ t.receipt = s.receipt
      /\ t \in Snapshots
  BY DEF SnapshotInv, Snapshots, Statuses
<1>2. BudgetInv(t)
  BY <1>1 DEF SnapshotInv, BudgetInv
<1>3. RunInv(t)
  BY <1>1 DEF SnapshotInv, RunInv
<1>4. ReceiptInv(t)
  BY <1>1 DEF ReceiptInv
<1> QED
  BY <1>1, <1>2, <1>3, <1>4 DEF SnapshotInv

LEMMA AttachIsGood ==
    ASSUME NEW s, SnapshotInv(s), NEW spec \in Specs, NEW r \in SpecReceipts,
           CanAttach(s, spec, r)
    PROVE  SnapshotInv(Attached(s, r))
<1> DEFINE t == Attached(s, r)
<1>1. /\ t.history = s.history
      /\ t.spec = s.spec
      /\ t.status = s.status
      /\ t.receipt = r
      /\ t \in Snapshots
      /\ s.spec = spec
      /\ s.status \in Statuses
  BY DEF SnapshotInv, Snapshots, Attached, CanAttach, MatchesSpec
<1>2. BudgetInv(t)
  BY <1>1 DEF SnapshotInv, BudgetInv
<1>3. RunInv(t)
  BY <1>1 DEF SnapshotInv, RunInv
<1>4. <<t.status, r.status>> \in
          {<<"ready", "not_executed">>, <<"interrupted", "interrupted">>,
           <<"completed", "succeeded">>}
  BY <1>1 DEF CanAttach, Statuses, ExpectedReceiptStatus
<1>5. ReceiptInv(t)
  BY <1>1, <1>4 DEF ReceiptInv, CanAttach, EffectiveTransitions
<1> QED
  BY <1>1, <1>2, <1>3, <1>5 DEF SnapshotInv

(* Putting a good snapshot, or nothing, in a holder's hands. *)
LEMMA PutIsGood ==
    ASSUME IInv, NEW h \in Holders, NEW s, Put(h, s),
           SnapshotInv(s) \/ s = NoSnapshot
    PROVE  IInv'
<1>1. held' \in [Holders -> Snapshots \cup {NoSnapshot}]
  BY DEF IInv, Put, SnapshotInv
<1>2. ASSUME NEW g \in Holders, Holds(g)'
      PROVE  SnapshotInv(held[g])'
  BY <1>2 DEF IInv, Put, Holds, SnapshotInv, BudgetInv, RunInv, ReceiptInv
<1>3. (wire # NoSnapshot => SnapshotInv(wire))'
  BY DEF IInv, Put, SnapshotInv, BudgetInv, RunInv, ReceiptInv
<1> QED
  BY <1>1, <1>2, <1>3 DEF IInv

LEMMA InitIsGood == Init => IInv
BY DEF Init, IInv, Holds

LEMMA NextIsGood == IInv /\ [Next]_vars => IInv'
<1> SUFFICES ASSUME IInv, [Next]_vars PROVE IInv'
  OBVIOUS
<1>0. ASSUME NEW h \in Holders, Holds(h) PROVE SnapshotInv(held[h])
  BY <1>0 DEF IInv
<1>1. ASSUME NEW h \in Holders, NEW spec \in Specs, Begin(h, spec) PROVE IInv'
  BY <1>1, InitialIsGood, PutIsGood DEF Begin
<1>2. ASSUME NEW h \in Holders, NEW spec \in Specs, NEW step \in SamplerSteps,
             AppendStep(h, spec, step)
      PROVE  IInv'
  BY <1>0, <1>2, AppendIsGood, PutIsGood DEF AppendStep
<1>3. ASSUME NEW h \in Holders, NEW spec \in Specs, Interrupt(h, spec) PROVE IInv'
  <2>1. SnapshotInv(Interrupted(held[h]))
    BY <1>0, <1>3, RelabelIsGood
       DEF Interrupt, CanInterrupt, Interrupted, ReceiptUnbound
  <2> QED
    BY <1>3, <2>1, PutIsGood DEF Interrupt
<1>4. ASSUME NEW h \in Holders, NEW spec \in Specs, Resume(h, spec) PROVE IInv'
  <2>1. SnapshotInv(Resumed(held[h]))
    BY <1>0, <1>4, RelabelIsGood DEF Resume, CanResume, Resumed, ReceiptUnbound
  <2> QED
    BY <1>4, <2>1, PutIsGood DEF Resume
<1>5. ASSUME NEW h \in Holders, NEW spec \in Specs, Complete(h, spec) PROVE IInv'
  <2>1. SnapshotInv(Completed(held[h]))
    BY <1>0, <1>5, RelabelIsGood
       DEF Complete, CanComplete, Completed, ReceiptUnbound, MatchesSpec,
           EffectiveTransitions
  <2> QED
    BY <1>5, <2>1, PutIsGood DEF Complete
<1>6. ASSUME NEW h \in Holders, NEW spec \in Specs, NEW r \in SpecReceipts,
             AttachReceipt(h, spec, r)
      PROVE  IInv'
  BY <1>0, <1>6, AttachIsGood, PutIsGood DEF AttachReceipt
<1>7. ASSUME NEW h \in Holders, NEW spec \in Specs, Serialize(h, spec) PROVE IInv'
  BY <1>0, <1>7
     DEF Serialize, IInv, Holds, SnapshotInv, BudgetInv, RunInv, ReceiptInv
<1>8. ASSUME NEW h \in Holders, NEW spec \in Specs, Deserialize(h, spec) PROVE IInv'
  <2>1. SnapshotInv(wire)
    BY <1>8 DEF Deserialize, IInv
  <2> QED
    BY <1>8, <2>1, PutIsGood DEF Deserialize
<1>9. ASSUME NEW h \in Holders, NEW g \in Holders, Share(h, g) PROVE IInv'
  BY <1>0, <1>9, PutIsGood DEF Share
<1>10. ASSUME NEW h \in Holders, Drop(h) PROVE IInv'
  BY <1>10, PutIsGood DEF Drop
<1>11. CASE Restart
  BY <1>11 DEF Restart, IInv, Holds, SnapshotInv, BudgetInv, RunInv, ReceiptInv
<1>12. CASE UNCHANGED vars
  BY <1>12 DEF vars, IInv, Holds, SnapshotInv, BudgetInv, RunInv, ReceiptInv
<1> QED
  BY <1>1, <1>2, <1>3, <1>4, <1>5, <1>6, <1>7, <1>8, <1>9, <1>10, <1>11, <1>12
     DEF Next

(* The invariant holds throughout every execution. *)
THEOREM InvariantHolds == Spec => []IInv
BY InitIsGood, NextIsGood, PTL DEF Spec

(* Type correctness: holders and transport carry typed snapshots.          *)
THEOREM TypeCorrect == Spec => []TypeOK
<1>1. IInv => TypeOK
  BY DEF IInv, TypeOK, SnapshotInv
<1> QED
  BY <1>1, InvariantHolds, PTL

(* No snapshot overspends its request, and completed means exactly done    *)
(* (append_step, complete, _validate_lifecycle).                           *)
THEOREM BudgetIsKept == Spec => []BudgetKept
<1>1. IInv => BudgetKept
  BY DEF IInv, BudgetKept, Live, Holds, SnapshotInv, BudgetInv
<1> QED
  BY <1>1, InvariantHolds, PTL

(* Every history is one run: numbered, aligned with the scheduler and      *)
(* handing its numerical state on (append_step, the constructor).          *)
THEOREM HistoriesAreOneRun == Spec => []HistoryIsOneRun
<1>1. IInv => HistoryIsOneRun
  BY DEF IInv, HistoryIsOneRun, Live, Holds, SnapshotInv, RunInv
<1> QED
  BY <1>1, InvariantHolds, PTL

(* A bound receipt stays true of its snapshot                              *)
(* (attach_execution_receipt_evidence, _require_receipt_unbound).          *)
THEOREM ReceiptsTellTheTruth == Spec => []ReceiptTellsTheTruth
<1>1. IInv => ReceiptTellsTheTruth
  BY DEF IInv, ReceiptTellsTheTruth, Live, Holds, SnapshotInv, ReceiptInv
<1> QED
  BY <1>1, InvariantHolds, PTL

(* A good snapshot whose history fits is accepted by the reader.           *)
LEMMA GoodIsReadable ==
    ASSUME NEW s, SnapshotInv(s), CanonicalList(s.history),
           ValidLifecycle(s, s.spec)
    PROVE  CanDeserialize(s, s.spec)
<1>1. s.history \in Seq(SamplerSteps)
  BY DEF SnapshotInv, Snapshots
<1>2. ASSUME NEW i \in 1 .. Len(s.history)
      PROVE  Continues(SubSeq(s.history, 1, i - 1), s.history[i])
  <2> DEFINE p == SubSeq(s.history, 1, i - 1)
  <2>1. Len(p) = i - 1 /\ \A j \in 1 .. (i - 1) : p[j] = s.history[j]
    BY <1>1
  <2>2. p # << >> => i > 1 /\ p[Len(p)] = s.history[i - 1]
    BY <1>1, <2>1
  <2>3. i > 1 => s.history[i - 1].output = s.history[i].input
    BY DEF SnapshotInv, RunInv
  <2> QED
    BY <2>2, <2>3 DEF Continues
<1>3. WellFormed(s.history)
  BY <1>2 DEF WellFormed, SnapshotInv, RunInv
<1> QED
  BY <1>3 DEF CanDeserialize, MatchesSpec, WithinRequest, EffectiveTransitions,
              SnapshotInv, BudgetInv

(* Whatever was written can be read back: the writer's checks of length    *)
(* and status and the life of the snapshot imply every check of the reader *)
(* (serialize_sampler_state_snapshot, deserialize_sampler_state_snapshot). *)
THEOREM WrittenIsReadable == Spec => []WireIsReadable
<1> DEFINE WInv == wire # NoSnapshot =>
                       ValidLifecycle(wire, wire.spec) /\ CanonicalList(wire.history)
<1>1. Init => WInv
  BY DEF Init
<1>2. WInv /\ [Next]_vars => WInv'
  <2> SUFFICES ASSUME WInv, [Next]_vars PROVE WInv'
    OBVIOUS
  <2>1. CASE UNCHANGED wire
    BY <2>1 DEF ValidLifecycle, ReceiptUnbound, CanonicalList
  <2>2. ASSUME NEW h \in Holders, NEW spec \in Specs, Serialize(h, spec)
        PROVE  WInv'
    BY <2>2 DEF Serialize, CanSerialize, MatchesSpec, ValidLifecycle, ReceiptUnbound,
                CanonicalList
  <2> QED
    BY <2>1, <2>2
       DEF Next, vars, Begin, AppendStep, Interrupt, Resume, Complete,
           AttachReceipt, Deserialize, Share, Drop, Restart, Put
<1>3. IInv /\ WInv => WireIsReadable
  BY GoodIsReadable DEF IInv, WireIsReadable
<1> QED
  BY <1>1, <1>2, <1>3, InvariantHolds, PTL DEF Spec

(* A bound snapshot is never replaced in its holder's hands by another     *)
(* ("receipt-bound sampler state is terminal").                            *)
THEOREM BindingNeverChanges == Spec => BindingIsFinal
<1>1. IInv /\ [Next]_vars =>
        [\A h \in Holders :
            Holds(h) /\ held[h].receipt # NoReceipt =>
                held'[h] \in {held[h], NoSnapshot}]_vars
  <2> SUFFICES ASSUME IInv, [Next]_vars, NEW h \in Holders,
                      Holds(h), held[h].receipt # NoReceipt
               PROVE  held'[h] \in {held[h], NoSnapshot}
    OBVIOUS
  <2>0. held \in [Holders -> Snapshots \cup {NoSnapshot}]
    BY DEF IInv
  <2>1. ASSUME NEW g \in Holders, NEW s, Put(g, s), g # h
        PROVE  held'[h] = held[h]
    BY <2>0, <2>1 DEF Put
  <2>2. ASSUME NEW s, Put(h, s) PROVE held'[h] = s
    BY <2>0, <2>2 DEF Put
  <2>3. ASSUME NEW g \in Holders, NEW spec \in Specs, NEW r \in SpecReceipts,
               AttachReceipt(g, spec, r)
        PROVE  held'[h] = held[h]
    <3>1. CASE g # h
      BY <2>1, <2>3, <3>1 DEF AttachReceipt
    <3>2. CASE g = h
      <4>1. held[h].receipt = r /\ held[h] \in Snapshots
        BY <2>0, <2>3, <3>2
           DEF AttachReceipt, CanAttach, MayBind, ReceiptUnbound, Holds
      <4>2. Attached(held[h], r) = held[h]
        BY <4>1 DEF Attached, Snapshots
      <4> QED
        BY <2>2, <2>3, <3>2, <4>2 DEF AttachReceipt
    <3> QED
      BY <3>1, <3>2
  <2>4. ASSUME NEW g \in Holders, NEW spec \in Specs, NEW s,
               \/ Begin(g, spec)
               \/ \E step \in SamplerSteps : AppendStep(g, spec, step)
               \/ Interrupt(g, spec)
               \/ Resume(g, spec)
               \/ Complete(g, spec)
               \/ Deserialize(g, spec)
        PROVE  g # h
    BY <2>4 DEF Begin, AppendStep, CanAppend, Interrupt, CanInterrupt, Resume,
                CanResume, Complete, CanComplete, Deserialize, ReceiptUnbound, Holds
  <2>5. CASE \E g \in Holders, spec \in Specs :
               \/ Begin(g, spec)
               \/ \E step \in SamplerSteps : AppendStep(g, spec, step)
               \/ Interrupt(g, spec)
               \/ Resume(g, spec)
               \/ Complete(g, spec)
               \/ Deserialize(g, spec)
    BY <2>1, <2>4, <2>5 DEF Begin, AppendStep, Interrupt, Resume, Complete, Deserialize
  <2>6. CASE \E f, g \in Holders : Share(f, g)
    BY <2>1, <2>6 DEF Share, Holds
  <2>7. CASE \E g \in Holders : Drop(g)
    BY <2>1, <2>2, <2>7 DEF Drop
  <2>8. CASE Restart
    BY <2>8 DEF Restart
  <2>9. CASE UNCHANGED held
    BY <2>9
  <2> QED
    BY <2>3, <2>5, <2>6, <2>7, <2>8, <2>9 DEF Next, Serialize, vars
<1> QED
  BY <1>1, InvariantHolds, PTL DEF Spec, BindingIsFinal

(* A completed snapshot only ever gains a receipt in its holder's hands: a *)
(* completed history is full, so no step fits, and interrupting and        *)
(* resuming are refused.                                                   *)
THEOREM CompletionNeverUndone == Spec => CompletionIsFinal
<1>1. IInv /\ [Next]_vars =>
        [\A h \in Holders :
            Holds(h) /\ held[h].status = "completed" =>
                \/ held'[h] = NoSnapshot
                \/ /\ held'[h].status = "completed"
                   /\ held'[h].history = held[h].history
                   /\ held'[h].spec = held[h].spec]_vars
  <2> SUFFICES ASSUME IInv, [Next]_vars, NEW h \in Holders,
                      Holds(h), held[h].status = "completed"
               PROVE  \/ held'[h] = NoSnapshot
                      \/ /\ held'[h].status = "completed"
                         /\ held'[h].history = held[h].history
                         /\ held'[h].spec = held[h].spec
    OBVIOUS
  <2>0. held \in [Holders -> Snapshots \cup {NoSnapshot}] /\ held[h] \in Snapshots
    BY DEF IInv, Holds
  <2>1. ASSUME NEW g \in Holders, NEW s, Put(g, s), g # h
        PROVE  held'[h] = held[h]
    BY <2>0, <2>1 DEF Put
  <2>2. ASSUME NEW s, Put(h, s) PROVE held'[h] = s
    BY <2>0, <2>2 DEF Put
  <2>3. ASSUME NEW g \in Holders, NEW spec \in Specs, NEW r \in SpecReceipts,
               AttachReceipt(g, spec, r)
        PROVE  held'[h] \in {held[h], Attached(held[h], r)}
    BY <2>1, <2>2, <2>3 DEF AttachReceipt
  <2>4. ASSUME NEW r
        PROVE  LET t == Attached(held[h], r)
               IN  /\ t.status = "completed"
                   /\ t.history = held[h].history
                   /\ t.spec = held[h].spec
    BY <2>0 DEF Attached, Snapshots
  <2>5. ASSUME NEW g \in Holders, NEW spec \in Specs, Complete(g, spec)
        PROVE  held'[h] \in {held[h], Completed(held[h])}
    BY <2>1, <2>2, <2>5 DEF Complete
  <2>6. Completed(held[h]) = held[h]
    BY <2>0 DEF Completed, Snapshots
  <2>7. ASSUME NEW g \in Holders, NEW spec \in Specs,
               \/ Begin(g, spec)
               \/ \E step \in SamplerSteps : AppendStep(g, spec, step)
               \/ Interrupt(g, spec)
               \/ Resume(g, spec)
               \/ Deserialize(g, spec)
        PROVE  held'[h] = held[h]
    <3>1. g # h
      BY <2>7 DEF Begin, AppendStep, CanAppend, Interrupt, CanInterrupt, Resume,
                  CanResume, Deserialize, Holds
    <3> QED
      BY <2>1, <2>7, <3>1 DEF Begin, AppendStep, Interrupt, Resume, Deserialize
  <2>8. CASE \E f, g \in Holders : Share(f, g)
    BY <2>1, <2>8 DEF Share, Holds
  <2>9. CASE \E g \in Holders : Drop(g)
    BY <2>1, <2>2, <2>9 DEF Drop
  <2>10. CASE Restart
    BY <2>10 DEF Restart
  <2>11. CASE UNCHANGED held
    BY <2>11
  <2> QED
    BY <2>3, <2>4, <2>5, <2>6, <2>7, <2>8, <2>9, <2>10, <2>11
       DEF Next, Serialize, vars
<1> QED
  BY <1>1, InvariantHolds, PTL DEF Spec, CompletionIsFinal

(* What a history counts as evaluations is a natural number.  The sum is a *)
(* function on the sets of positions, defined by taking one position out;  *)
(* that there is such a function follows by induction on how many          *)
(* positions it is right for, and its values by another.                   *)
LEMMA EvaluationsAreCounted ==
    ASSUME NEW h \in Seq(SamplerSteps)
    PROVE  EffectiveEvaluations(h) \in Nat
<1> DEFINE S == DOMAIN h
           Value(x) == h[x].model_evaluations
           First(s) == CHOOSE x \in s : TRUE
           body(f) ==
             [s \in SUBSET S |->
                IF s = {} THEN 0 ELSE Value(First(s)) + f[s \ {First(s)}]]
           f == CHOOSE f : f = body(f)
<1>1. S = 1 .. Len(h) /\ Len(h) \in Nat
  OBVIOUS
<1>2. IsFiniteSet(S) /\ Cardinality(S) = Len(h)
  BY <1>1, FS_Interval
<1>3. \A x \in S : Value(x) \in Nat
  <2> SUFFICES ASSUME NEW x \in S PROVE h[x].model_evaluations \in Nat
    OBVIOUS
  <2>1. h[x] \in SamplerSteps
    BY <1>1
  <2>2. h[x].model_evaluations \in StepEvaluations
    BY <2>1 DEF SamplerSteps
  <2>3. StepEvaluations \subseteq Nat
    BY StepEvaluationsAssumption, MaxCountAssumption
  <2> QED
    BY <2>2, <2>3
<1>4. EffectiveEvaluations(h) = f[S]
  BY DEF EffectiveEvaluations, MapThenSumSet, MapThenFoldSet, S
<1> HIDE DEF S, Value
<1>5. ASSUME NEW s \in SUBSET S, s # {}
      PROVE  /\ Value(First(s)) \in Nat
             /\ s \ {First(s)} \in SUBSET S
             /\ Cardinality(s) \in Nat /\ Cardinality(s \ {First(s)}) \in Nat
             /\ Cardinality(s) = 1 + Cardinality(s \ {First(s)})
  <2>1. First(s) \in s
    BY <1>5
  <2> HIDE DEF First
  <2>2. IsFiniteSet(s)
    BY <1>2, FS_Subset
  <2>3. IsFiniteSet(s \ {First(s)}) /\ Cardinality(s \ {First(s)}) = Cardinality(s) - 1
    BY <2>1, <2>2, FS_RemoveElement
  <2>4. Cardinality(s) \in Nat /\ Cardinality(s \ {First(s)}) \in Nat
    BY <2>2, <2>3, FS_CardinalityType
  <2>5. First(s) \in S /\ s \ {First(s)} \in SUBSET S
    BY <2>1
  <2>6. Value(First(s)) \in Nat
    BY <1>3, <2>5
  <2>7. Cardinality(s) = 1 + Cardinality(s \ {First(s)})
    BY <2>3, <2>4
  <2> QED
    BY <2>4, <2>5, <2>6, <2>7
<1>6. \A s \in SUBSET S : Cardinality(s) \in Nat /\ (Cardinality(s) = 0 <=> s = {})
  <2> SUFFICES ASSUME NEW s \in SUBSET S
               PROVE  Cardinality(s) \in Nat /\ (Cardinality(s) = 0 <=> s = {})
    OBVIOUS
  <2>1. IsFiniteSet(s)
    BY <1>2, FS_Subset
  <2>2. Cardinality(s) \in Nat
    BY <2>1, FS_CardinalityType
  <2>3. Cardinality(s) = 0 <=> s = {}
    BY <2>1, FS_EmptySet
  <2> QED
    BY <2>2, <2>3
<1> HIDE DEF First
<1>7. \E g : g = body(g)
  <2> DEFINE Right(g, n) ==
               \A s \in SUBSET S : Cardinality(s) <= n => g[s] = body(g)[s]
             T == {n \in Nat : \E g \in [SUBSET S -> Nat] : Right(g, n)}
  <2>1. 0 \in T
    <3> DEFINE g == [s \in SUBSET S |-> 0]
    <3>1. g \in [SUBSET S -> Nat]
      OBVIOUS
    <3>2. ASSUME NEW s \in SUBSET S, Cardinality(s) <= 0 PROVE g[s] = body(g)[s]
      <4>1. s = {}
        BY <1>6, <3>2
      <4> QED
        BY <4>1
    <3> QED
      BY <3>1, <3>2
  <2>2. ASSUME NEW n \in T PROVE n + 1 \in T
    <3>1. n \in Nat /\ \E g \in [SUBSET S -> Nat] : Right(g, n)
      BY <2>2
    <3>2. PICK g \in [SUBSET S -> Nat] : Right(g, n)
      BY <3>1
    <3> DEFINE k == [s \in SUBSET S |-> body(g)[s]]
    <3>3. ASSUME NEW s \in SUBSET S PROVE body(g)[s] \in Nat
      <4>1. CASE s = {}
        BY <4>1
      <4>2. CASE s # {}
        <5>1. Value(First(s)) \in Nat /\ g[s \ {First(s)}] \in Nat
          BY <1>5, <4>2
        <5>2. body(g)[s] = Value(First(s)) + g[s \ {First(s)}]
          BY <4>2
        <5> QED
          BY <5>1, <5>2
      <4> QED
        BY <4>1, <4>2
    <3>4. k \in [SUBSET S -> Nat]
      BY <3>3
    <3>5. ASSUME NEW s \in SUBSET S, Cardinality(s) <= n PROVE k[s] = g[s]
      BY <3>2, <3>5
    <3>6. ASSUME NEW s \in SUBSET S, Cardinality(s) <= n + 1 PROVE k[s] = body(k)[s]
      <4>1. CASE s = {}
        BY <4>1
      <4>2. CASE s # {}
        <5>1. /\ s \ {First(s)} \in SUBSET S
              /\ Cardinality(s \ {First(s)}) \in Nat /\ Cardinality(s) \in Nat
              /\ Cardinality(s) = 1 + Cardinality(s \ {First(s)})
          BY <1>5, <4>2
        <5>2. Cardinality(s \ {First(s)}) <= n
          BY <3>1, <3>6, <5>1
        <5>3. k[s \ {First(s)}] = g[s \ {First(s)}]
          BY <3>5, <5>1, <5>2
        <5>4. k[s] = Value(First(s)) + g[s \ {First(s)}]
          BY <4>2
        <5>5. body(k)[s] = Value(First(s)) + k[s \ {First(s)}]
          BY <4>2
        <5> QED
          BY <5>3, <5>4, <5>5
      <4> QED
        BY <4>1, <4>2
    <3> HIDE DEF k
    <3>7. Right(k, n + 1)
      BY <3>6
    <3> HIDE DEF Right
    <3> QED
      BY <3>1, <3>4, <3>7
  <2>3. T = Nat
    <3>1. T \in SUBSET Nat
      OBVIOUS
    <3> HIDE DEF T
    <3> QED
      BY <2>1, <2>2, <3>1, SetInduction
  <2>4. PICK g \in [SUBSET S -> Nat] : Right(g, Len(h))
    BY <1>1, <2>3
  <2>5. ASSUME NEW s \in SUBSET S PROVE g[s] = body(g)[s]
    <3>1. Cardinality(s) <= Cardinality(S)
      BY <1>2, FS_Subset
    <3> QED
      BY <1>2, <2>4, <3>1
  <2>6. g = [s \in SUBSET S |-> g[s]] /\ body(g) = [s \in SUBSET S |-> body(g)[s]]
    OBVIOUS
  <2> HIDE DEF body
  <2>7. g = body(g)
    BY <2>5, <2>6
  <2> QED
    BY <2>7
<1>8. f = body(f)
  <2> HIDE DEF body
  <2> QED
    BY <1>7
<1> HIDE DEF f
<1>9. \A s \in SUBSET S :
         /\ s = {} => f[s] = 0
         /\ s # {} => f[s] = Value(First(s)) + f[s \ {First(s)}]
  <2> TAKE s \in SUBSET S
  <2>1. f[s] = body(f)[s]
    <3> HIDE DEF body
    <3> QED
      BY <1>8
  <2>2. body(f)[s] = IF s = {} THEN 0 ELSE Value(First(s)) + f[s \ {First(s)}]
    OBVIOUS
  <2> HIDE DEF body
  <2> QED
    BY <2>1, <2>2
<1> HIDE DEF body
<1>10. \A n \in Nat : \A s \in SUBSET S : Cardinality(s) = n => f[s] \in Nat
  <2> DEFINE T == {n \in Nat : \A s \in SUBSET S : Cardinality(s) = n => f[s] \in Nat}
  <2>1. 0 \in T
    <3> SUFFICES ASSUME NEW s \in SUBSET S, Cardinality(s) = 0 PROVE f[s] \in Nat
      OBVIOUS
    <3>1. s = {}
      BY <1>6
    <3>2. f[s] = 0
      BY <1>9, <3>1
    <3> QED
      BY <3>2
  <2>2. ASSUME NEW n \in T PROVE n + 1 \in T
    <3>1. n \in Nat /\ \A s \in SUBSET S : Cardinality(s) = n => f[s] \in Nat
      BY <2>2
    <3> SUFFICES ASSUME NEW s \in SUBSET S, Cardinality(s) = n + 1 PROVE f[s] \in Nat
      BY <3>1
    <3>2. s # {}
      BY <1>6, <3>1
    <3>3. /\ Value(First(s)) \in Nat /\ s \ {First(s)} \in SUBSET S
          /\ Cardinality(s \ {First(s)}) = n
      <4>1. /\ Value(First(s)) \in Nat /\ s \ {First(s)} \in SUBSET S
            /\ Cardinality(s \ {First(s)}) \in Nat
            /\ Cardinality(s) = 1 + Cardinality(s \ {First(s)})
        BY <1>5, <3>2
      <4>2. n \in Nat /\ Cardinality(s) = n + 1
        BY <3>1
      <4> QED
        BY <4>1, <4>2
    <3>4. f[s] = Value(First(s)) + f[s \ {First(s)}]
      BY <1>9, <3>2
    <3>5. f[s \ {First(s)}] \in Nat
      BY <3>1, <3>3
    <3> QED
      BY <3>3, <3>4, <3>5
  <2>3. T \in SUBSET Nat
    OBVIOUS
  <2>4. T = Nat
    <3> HIDE DEF T
    <3> QED
      BY <2>1, <2>2, <2>3, SetInduction
  <2> QED
    BY <2>4
<1> QED
  BY <1>1, <1>2, <1>4, <1>10

(* The receipt that a good, unbound snapshot accepts, now or interrupted,  *)
(* is the one that repeats what it requested and what it executed.         *)
LEMMA GoodIsSettleable ==
    ASSUME NEW s, SnapshotInv(s), s.spec.requested_transitions > 0,
           HasArtifact(s.spec.requested_transitions)
    PROVE  Settleable(s)
<1> SUFFICES ASSUME s.receipt = NoReceipt PROVE Settleable(s)
  BY DEF Settleable
<1> DEFINE Outcome(status) ==
             IF status = "running" THEN "interrupted" ELSE ExpectedReceiptStatus(status)
           r == [id |-> CHOOSE id \in ReceiptIds : TRUE,
                 sampler |-> s.spec.sampler, rng |-> s.spec.rng,
                 requested_transitions |-> s.spec.requested_transitions,
                 requested_model_evaluations |-> s.spec.requested_model_evaluations,
                 effective_transitions |-> EffectiveTransitions(s.history),
                 effective_model_evaluations |-> EffectiveEvaluations(s.history),
                 status |-> Outcome(s.status)]
           t == Interrupted(s)
<1>1. /\ s \in Snapshots /\ s.spec \in Specs /\ s.history \in Seq(SamplerSteps)
      /\ s.status \in Statuses
  BY DEF SnapshotInv, Snapshots
<1>2. /\ s.spec.requested_transitions \in 0 .. MaxCount
      /\ s.spec.requested_model_evaluations \in 0 .. MaxCount
      /\ s.spec.requested_transitions <= s.spec.requested_model_evaluations
  BY <1>1, SpecsAssumption DEF SpecFields
<1>3. /\ EffectiveTransitions(s.history) \in Nat
      /\ EffectiveTransitions(s.history) <= s.spec.requested_transitions
      /\ EffectiveEvaluations(s.history) \in Nat
      /\ EffectiveEvaluations(s.history) <= s.spec.requested_model_evaluations
  BY <1>1, EvaluationsAreCounted DEF SnapshotInv, BudgetInv, EffectiveTransitions
<1>4. /\ s.status = "completed" =>
             /\ EffectiveTransitions(s.history) = s.spec.requested_transitions
             /\ EffectiveEvaluations(s.history) = s.spec.requested_model_evaluations
      /\ s.status = "ready" =>
             /\ s.history = << >>
             /\ EffectiveTransitions(s.history) = 0
             /\ EffectiveEvaluations(s.history) = 0
  BY EmptyEvaluations DEF SnapshotInv, BudgetInv, EffectiveTransitions
<1>5. /\ Outcome(s.status) \in ReceiptStatuses
      /\ Outcome(s.status) = "succeeded" => s.status = "completed"
      /\ Outcome(s.status) = "not_executed" => s.status = "ready"
  BY <1>1 DEF Statuses, ReceiptStatuses, ExpectedReceiptStatus
<1> HIDE DEF Outcome
<1>6. r \in [id : ReceiptIds,
             sampler : {sp.sampler : sp \in Specs}, rng : {sp.rng : sp \in Specs},
             requested_transitions : {sp.requested_transitions : sp \in Specs},
             requested_model_evaluations : {sp.requested_model_evaluations : sp \in Specs},
             effective_transitions : 0 .. MaxCount,
             effective_model_evaluations : 0 .. MaxCount,
             status : ReceiptStatuses]
  <2>1. (CHOOSE id \in ReceiptIds : TRUE) \in ReceiptIds
    BY ReceiptIdsAssumption
  <2>2. /\ EffectiveTransitions(s.history) \in 0 .. MaxCount
        /\ EffectiveEvaluations(s.history) \in 0 .. MaxCount
    BY <1>2, <1>3, MaxCountAssumption
  <2> QED
    BY <1>1, <1>5, <2>1, <2>2
<1>7. BuildableReceipt(r)
  BY <1>2, <1>3, <1>4, <1>5, MaxCountAssumption
     DEF BuildableReceipt, ValidReceipt, CountsAgree
<1>8. r \in SpecReceipts
  BY <1>6, <1>7, ReceiptsAssumption
<1>9. CASE s.status # "running"
  <2>1. CanAttach(s, s.spec, r)
    BY <1>4, <1>9 DEF CanAttach, MatchesSpec, ValidLifecycle, MayBind, ReceiptUnbound, Outcome
  <2> QED
    BY <1>8, <2>1 DEF Settleable
<1>10. CASE s.status = "running"
  <2>1. /\ t.spec = s.spec /\ t.history = s.history /\ t.receipt = s.receipt
        /\ t.status = "interrupted"
    BY <1>1 DEF Interrupted, Snapshots
  <2>2. r.status = ExpectedReceiptStatus("interrupted")
    BY <1>10 DEF Outcome, ExpectedReceiptStatus
  <2>3. CanInterrupt(s, s.spec)
    BY <1>10 DEF CanInterrupt, MatchesSpec, ReceiptUnbound
  <2> HIDE DEF t
  <2>4. CanAttach(t, s.spec, r)
    BY <2>1, <2>2 DEF CanAttach, MatchesSpec, ValidLifecycle, MayBind, ReceiptUnbound
  <2> QED
    BY <1>8, <2>3, <2>4 DEF Settleable, t
<1> QED
  BY <1>9, <1>10

(* The receipt a snapshot is bound to, or accepts, repeats its request and *)
(* was built from an artifact: without one there is no settling.           *)
LEMMA SettleableIsBuildable ==
    ASSUME NEW s, SnapshotInv(s), Settleable(s)
    PROVE  /\ s.spec.requested_transitions > 0
           /\ HasArtifact(s.spec.requested_transitions)
<1>1. ASSUME NEW r \in SpecReceipts,
             r.requested_transitions = s.spec.requested_transitions
      PROVE  /\ s.spec.requested_transitions > 0
             /\ HasArtifact(s.spec.requested_transitions)
  <2>1. BuildableReceipt(r)
    BY ReceiptsAssumption
  <2> QED
    BY <1>1, <2>1 DEF BuildableReceipt, ValidReceipt
<1>2. CASE s.receipt # NoReceipt
  <2>1. s.receipt \in SpecReceipts
    BY <1>2 DEF SnapshotInv, Snapshots
  <2> QED
    BY <1>1, <1>2, <2>1 DEF SnapshotInv, ReceiptInv
<1>3. CASE \E r \in SpecReceipts :
             \/ CanAttach(s, s.spec, r)
             \/ CanInterrupt(s, s.spec) /\ CanAttach(Interrupted(s), s.spec, r)
  BY <1>1, <1>3 DEF CanAttach
<1> QED
  BY <1>2, <1>3 DEF Settleable

(* Whatever calls were made, by whichever holders, a snapshot can be       *)
(* settled exactly if its request is for some work that an artifact can    *)
(* hold: no life strands such a snapshot, and none saves a longer one      *)
(* (attach_execution_receipt_evidence, interrupt, build_execution_receipt).*)
THEOREM OnlyOversizedAreStranded == Spec => []OnlyOversizedStranded
<1>1. IInv => OnlyOversizedStranded
  <2> SUFFICES ASSUME IInv, NEW s \in Live
               PROVE  Settleable(s) <=>
                          /\ s.spec.requested_transitions > 0
                          /\ HasArtifact(s.spec.requested_transitions)
    BY DEF OnlyOversizedStranded
  <2>1. SnapshotInv(s)
    BY DEF IInv, Live, Holds
  <2> QED
    BY <2>1, GoodIsSettleable, SettleableIsBuildable
<1> QED
  BY <1>1, InvariantHolds, PTL

-----------------------------------------------------------------------------
(***************************************************************************)
(* Evidence that travels.  Papers are edited freely, so nothing is known   *)
(* of a paper; what is known of a value that was read is that its reader   *)
(* accepted it.  Each lemma says what one reader's checks are worth.       *)
(***************************************************************************)
LEMMA ArtifactFact == ASSUME NEW a, ValidArtifact(a) PROVE ArtifactAgrees(a)
<1> DEFINE c == a.construction
           steps == c.slicing.end_step - c.slicing.start_step
<1>1. /\ c.numerical_fingerprint = Fingerprint(a.numerical)
      /\ ValidConstruction(c, a.numerical)
  BY DEF ValidArtifact
<1>2. /\ c.effective.steps = Steps(a.numerical.sigmas)
      /\ steps = c.effective.steps
      /\ Changed(c) \subseteq c.overrides
  BY <1>1 DEF ValidConstruction, ValidSlicing
<1>3. ASSUME c.requested.steps # steps PROVE "steps" \in c.overrides
  <2>1. "steps" \in Changed(c)
    BY <1>2, <1>3 DEF Changed
  <2> QED
    BY <2>1, <1>2
<1> QED
  BY <1>1, <1>2, <1>3 DEF ArtifactAgrees

LEMMA BundleFact ==
    ASSUME NEW e, ReadableBundle(e)
    PROVE  /\ ArtifactAgrees(e.artifact)
           /\ e.receipt.receipt.artifact.construction.sha256 = e.artifact.construction
           /\ ExecutionAgrees(e.receipt.receipt, Steps(e.artifact.numerical.sigmas))
<1> DEFINE a == e.artifact
           r == e.receipt.receipt
<1>1. /\ ValidArtifact(a) /\ ValidProjection(r)
      /\ r.artifact = ReferenceTo(a) /\ r.inputs = a.construction.effective
  BY DEF ReadableBundle, ReadableReceipt, Linked
<1>2. /\ a.construction_fingerprint = Fingerprint(a.construction)
      /\ a.construction.effective.steps = Steps(a.numerical.sigmas)
  BY <1>1 DEF ValidArtifact, ValidConstruction
<1>3. r.artifact.construction.sha256 = a.construction
  BY <1>1, <1>2 DEF ReferenceTo, Fingerprint
<1>4. /\ r.requested_transitions = r.inputs.steps
      /\ r.status = "succeeded" => r.effective_transitions = r.requested_transitions
  BY <1>1 DEF ValidProjection, ValidMetadata, ValidReceipt, CountsAgree, WholeSchedule
<1> QED
  BY <1>1, <1>2, <1>3, <1>4, ArtifactFact DEF ExecutionAgrees

LEMMA ReportFact ==
    ASSUME NEW e, ReadableReport(e), e.report.execution # NoExecution
    PROVE  ExecutionAgrees(e.report.execution, Len(e.report.samples) - 1)
<1> DEFINE x == e.report.execution
           steps == e.report.inputs.steps
<1>1. /\ steps \in Nat /\ Len(e.report.samples) = steps + 1
      /\ CountsAgree(x) /\ x.requested_transitions = steps
  BY DEF ReadableReport, ValidReport, ValidExecution
<1>2. Len(e.report.samples) - 1 = steps
  BY <1>1
<1>3. x.status = "succeeded" => x.effective_transitions = x.requested_transitions
  BY <1>1 DEF CountsAgree
<1> QED
  BY <1>1, <1>2, <1>3 DEF ExecutionAgrees

LEMMA ComparisonFact ==
    ASSUME NEW e, ReadableComparison(e), e.comparison.reason = "comparable"
    PROVE  Len(e.comparison.rows) = e.comparison.b.length
<1> DEFINE c == e.comparison
<1>1. c.reason = Reason(c.a, c.b) /\ Len(c.rows) = c.a.length
  BY DEF ReadableComparison, ValidComparison
<1>2. c.a.length = c.b.length
  BY <1>1 DEF Reason
<1> QED
  BY <1>1, <1>2

(* What is read of a backend receipt is written again as it was.           *)
LEMMA BackendFact ==
    ASSUME NEW w, ReadableBackendReceipt(w)
    PROVE  BackendClaimIsObserved(Reread(w))
<1> DEFINE body == BodyProjection(w.body)
<1>1. ValidBackendBody(w.body) /\ w.fingerprint = [sha256 |-> body]
  BY DEF ReadableBackendReceipt
<1>2. Reread(w).body = body /\ Reread(w) = [body |-> body, fingerprint |-> w.fingerprint]
  BY DEF Reread
<1>3. /\ body.observation = w.body.observation /\ body.evidence = w.body.evidence
      /\ body.result = w.body.result
  BY DEF BodyProjection
<1>4. BodyProjection(body) = body
  <2>1. Identified(Identified(w.body.checkpoint)) = Identified(w.body.checkpoint)
    BY DEF Identified
  <2> QED
    BY <2>1 DEF BodyProjection
<1>5. BackendReceipt(body) = Reread(w)
  BY <1>1, <1>2, <1>4 DEF BackendReceipt
<1>6. /\ body.observation.actual # Unobserved \/ Measured(body.evidence) =>
            body.observation.source = "authorized_host_dispatch"
      /\ Measured(body.evidence) =>
            body.result.status = "succeeded" /\ body.result.reason = Nothing
      /\ body.observation.actual # Unobserved => body.result.status \notin NeverRan
  BY <1>1, <1>3 DEF ValidBackendBody, ValidObservation, ValidResult
<1> QED
  BY <1>2, <1>5, <1>6 DEF BackendClaimIsObserved

LEMMA AdvancedFact ==
    ASSUME NEW e, e = [body |-> e.body, decision_fingerprint |-> e.decision_fingerprint,
                       receipt_fingerprint |-> e.receipt_fingerprint],
           ReadableAdvanced(e)
    PROVE  AdvancedClaimHolds(e)
<1> DEFINE b == e.body
<1>1. /\ ValidAdvancedBody(b) /\ ValidDecision(b.decision)
      /\ e.decision_fingerprint = b.decision /\ e.receipt_fingerprint = b
  BY DEF ReadableAdvanced, ReadableDecision
<1>2. AdvancedReceipt(b) = e
  BY <1>1 DEF AdvancedReceipt
<1>3. ASSUME b.result # Nothing \/ b.resumable
      PROVE  b.status # "rejected"
  BY <1>1, <1>3 DEF ValidAdvancedBody
<1>4. ASSUME b.status # "rejected"
      PROVE  b.decision.reasons \in {{"compatible"}, {"host_interrupt_non_resumable"}}
  BY <1>1, <1>4 DEF ValidAdvancedBody, ValidDecision, Levels
<1>5. /\ b.decision.request = b.request
      /\ b.resumable => b.request.snapshot # Nothing
  BY <1>1 DEF ValidAdvancedBody
<1> QED
  BY <1>2, <1>3, <1>4, <1>5 DEF AdvancedClaimHolds

(* A value that was read was accepted by the reader of its kind; of papers *)
(* only the outer form is known, which no edit changes.                    *)
Sheet(e) ==
    e = [body |-> e.body, decision_fingerprint |-> e.decision_fingerprint,
         receipt_fingerprint |-> e.receipt_fingerprint]

PaperInv ==
    paper # Blank =>
        /\ paper = [kind |-> paper.kind, content |-> paper.content, edits |-> paper.edits]
        /\ paper.kind = "advanced" => Sheet(paper.content)

Accepted(kind, value) ==
    \E e : /\ Readable(kind, e)
           /\ value = IF kind = "backend" THEN Reread(e) ELSE e
           /\ kind = "advanced" => Sheet(e)

ReadInv == read # Blank => Accepted(read.kind, read.value)

LEMMA AcceptedFact == ReadInv => ReadAgrees
<1> SUFFICES ASSUME ReadInv, read # Blank PROVE ReadAgrees
  BY DEF ReadAgrees
<1> DEFINE value == read.value
<1>1. PICK e : /\ Readable(read.kind, e)
               /\ value = IF read.kind = "backend" THEN Reread(e) ELSE e
               /\ read.kind = "advanced" => Sheet(e)
  BY DEF ReadInv, Accepted
<1>2. read.kind = "artifact" => ArtifactAgrees(value)
  <2> SUFFICES ASSUME read.kind = "artifact" PROVE ArtifactAgrees(value)
    OBVIOUS
  <2>1. ValidArtifact(value)
    BY <1>1 DEF Readable
  <2> QED
    BY <2>1, ArtifactFact
<1>3. read.kind = "bundle" =>
        /\ ArtifactAgrees(value.artifact)
        /\ value.receipt.receipt.artifact.construction.sha256 = value.artifact.construction
        /\ ExecutionAgrees(value.receipt.receipt, Steps(value.artifact.numerical.sigmas))
  <2> SUFFICES ASSUME read.kind = "bundle"
               PROVE  /\ ArtifactAgrees(value.artifact)
                      /\ value.receipt.receipt.artifact.construction.sha256
                            = value.artifact.construction
                      /\ ExecutionAgrees(value.receipt.receipt,
                                         Steps(value.artifact.numerical.sigmas))
    OBVIOUS
  <2>1. ReadableBundle(value)
    BY <1>1 DEF Readable
  <2> QED
    BY <2>1, BundleFact
<1>4. read.kind = "report" /\ value.report.execution # NoExecution =>
        ExecutionAgrees(value.report.execution, Len(value.report.samples) - 1)
  <2> SUFFICES ASSUME read.kind = "report", value.report.execution # NoExecution
               PROVE  ExecutionAgrees(value.report.execution, Len(value.report.samples) - 1)
    OBVIOUS
  <2>1. ReadableReport(value)
    BY <1>1 DEF Readable
  <2> QED
    BY <2>1, ReportFact
<1>5. read.kind = "comparison" /\ value.comparison.reason = "comparable" =>
        Len(value.comparison.rows) = value.comparison.b.length
  <2> SUFFICES ASSUME read.kind = "comparison", value.comparison.reason = "comparable"
               PROVE  Len(value.comparison.rows) = value.comparison.b.length
    OBVIOUS
  <2>1. ReadableComparison(value)
    BY <1>1 DEF Readable
  <2> QED
    BY <2>1, ComparisonFact
<1>6. read.kind = "backend" => BackendClaimIsObserved(value)
  <2> SUFFICES ASSUME read.kind = "backend" PROVE BackendClaimIsObserved(value)
    OBVIOUS
  <2>1. ReadableBackendReceipt(e) /\ value = Reread(e)
    BY <1>1 DEF Readable
  <2> QED
    BY <2>1, BackendFact
<1>7. read.kind = "advanced" => AdvancedClaimHolds(value)
  <2> SUFFICES ASSUME read.kind = "advanced" PROVE AdvancedClaimHolds(value)
    OBVIOUS
  <2>1. ReadableAdvanced(value) /\ Sheet(value)
    BY <1>1 DEF Readable
  <2> QED
    BY <2>1, AdvancedFact DEF Sheet
<1> QED
  BY <1>2, <1>3, <1>4, <1>5, <1>6, <1>7 DEF ReadAgrees

(* Whatever is put into a sheet and however it is sealed, it is a sheet.   *)
LEMMA SheetFact ==
    ASSUME NEW e, Sheet(e), NEW other, NEW x \in Edited("advanced", e, other)
    PROVE  Sheet(x) /\ Sheet(Sealed("advanced", x))
<1>1. Sheet(Sealed("advanced", x))
  BY DEF Sealed, AdvancedReceipt, Sheet
<1>2. Edited("advanced", e, other) =
        Swaps(e, other) \cup
        {[e EXCEPT !.body = s] :
            s \in Swaps(e.body, other.body)
                \cup {[e.body EXCEPT !.decision = d] :
                        d \in Swaps(e.body.decision, other.body.decision)}}
  BY DEF Edited
<1>3. CASE x \in Swaps(e, other)
  <2>1. PICK field \in DOMAIN e : x = [e EXCEPT ![field] = other[field]]
    BY <1>3 DEF Swaps
  <2>2. field \in {"body", "decision_fingerprint", "receipt_fingerprint"}
    BY DEF Sheet
  <2>3. ASSUME field = "body" PROVE Sheet(x)
    BY <2>1, <2>3 DEF Sheet
  <2>4. ASSUME field = "decision_fingerprint" PROVE Sheet(x)
    BY <2>1, <2>4 DEF Sheet
  <2>5. ASSUME field = "receipt_fingerprint" PROVE Sheet(x)
    BY <2>1, <2>5 DEF Sheet
  <2> QED
    BY <1>1, <2>2, <2>3, <2>4, <2>5
<1>4. CASE \E s : x = [e EXCEPT !.body = s]
  BY <1>1, <1>4 DEF Sheet
<1> QED
  BY <1>2, <1>3, <1>4

LEMMA WrittenSheet ==
    ASSUME NEW e \in Writable("advanced") PROVE Sheet(e)
<1>1. Writable("advanced") = AdvancedReceipts
  BY DEF Writable
<1>2. PICK b : e = AdvancedReceipt(b)
  BY <1>1 DEF AdvancedReceipts
<1> QED
  BY <1>2 DEF AdvancedReceipt, Sheet

LEMMA PaperKeeps ==
    ASSUME PaperInv, ReadInv, PaperNext
    PROVE  PaperInv' /\ ReadInv'
<1>1. CASE Write
  <2>4. PICK kind \in Kinds : \E e \in Writable(kind) :
            paper' = [kind |-> kind, content |-> e, edits |-> 0]
    BY <1>1 DEF Write
  <2>1. PICK e \in Writable(kind) : paper' = [kind |-> kind, content |-> e, edits |-> 0]
    BY <2>4
  <2>2. read' = read
    BY <1>1 DEF Write
  <2>3. kind = "advanced" => Sheet(e)
    BY WrittenSheet
  <2> QED
    BY <2>1, <2>2, <2>3 DEF PaperInv, ReadInv
<1>2. CASE Edit
  <2>1. PICK other \in Writable(paper.kind) :
        \E e \in Edited(paper.kind, paper.content, other) :
        \E content \in {e, Sealed(paper.kind, e)} :
            paper' = [paper EXCEPT !.content = content, !.edits = @ + 1]
    BY <1>2, Zenon DEF Edit
  <2>2. PICK e \in Edited(paper.kind, paper.content, other) :
        \E content \in {e, Sealed(paper.kind, e)} :
            paper' = [paper EXCEPT !.content = content, !.edits = @ + 1]
    BY <2>1
  <2>3. PICK content \in {e, Sealed(paper.kind, e)} :
            paper' = [paper EXCEPT !.content = content, !.edits = @ + 1]
    BY <2>2
  <2>4. /\ paper # Blank /\ read' = Blank
        /\ paper = [kind |-> paper.kind, content |-> paper.content, edits |-> paper.edits]
    BY <1>2 DEF Edit, PaperInv
  <2>5. paper' = [kind |-> paper.kind, content |-> content, edits |-> paper.edits + 1]
    BY <2>3, <2>4
  <2>6. paper.kind = "advanced" => Sheet(content)
    BY <2>4, SheetFact DEF PaperInv
  <2>7. PaperInv'
    BY <2>5, <2>6 DEF PaperInv
  <2> QED
    BY <2>4, <2>7 DEF ReadInv
<1>3. CASE Read
  <2> DEFINE value == IF paper.kind = "backend" THEN Reread(paper.content)
                      ELSE paper.content
  <2>1. /\ paper # Blank /\ Readable(paper.kind, paper.content)
        /\ read' = [kind |-> paper.kind, value |-> value]
        /\ paper' = paper
    BY <1>3 DEF Read
  <2>2. Accepted(paper.kind, value)
    BY <2>1 DEF Accepted, PaperInv
  <2>3. read'.kind = paper.kind /\ read'.value = value
    BY <2>1
  <2> QED
    BY <2>1, <2>2, <2>3 DEF PaperInv, ReadInv
<1>4. CASE Discard
  BY <1>4 DEF Discard, PaperInv, ReadInv
<1> QED
  BY <1>1, <1>2, <1>3, <1>4 DEF PaperNext

(* The receipts in use ask for all transitions of their artifacts, so that *)
(* a run is bound to none that tells of more.                              *)
LEMMA ReceiptFact ==
    ASSUME NEW r \in Receipts
    PROVE  r.requested_transitions = Steps(r.artifact.numerical.sha256.sigmas)
<1>1. PICK built \in Artifacts \X Outcomes :
        /\ CanBuildReceipt(built[1], built[2])
        /\ r = ReceiptOf(built[1], built[2])
  BY DEF Receipts
<1> DEFINE a == built[1]
           n == a.numerical
<1>2. a \in Artifacts
  BY <1>1
<1>3. ValidArtifact(a)
  BY <1>2 DEF Artifacts, CanBuildArtifact
<1>4. /\ a.numerical_fingerprint = Fingerprint(n)
      /\ a.construction.effective.steps = Steps(n.sigmas)
  BY <1>3 DEF ValidArtifact, ValidConstruction
<1>5. r.artifact.numerical.sha256 = n
  BY <1>1, <1>4 DEF ReceiptOf, ReferenceTo, Fingerprint
<1>6. r.requested_transitions = a.construction.effective.steps
  BY <1>1 DEF ReceiptOf, CanBuildReceipt, WholeSchedule
<1> QED
  BY <1>4, <1>5, <1>6

SnapshotForm(s) ==
    s = [spec |-> s.spec, history |-> s.history, status |-> s.status, receipt |-> s.receipt]

SettledInv(s) ==
    /\ SnapshotForm(s)
    /\ s.status = "completed" => Len(s.history) = s.spec.requested_transitions
    /\ s.receipt # NoReceipt =>
        /\ s.receipt \in Receipts
        /\ s.receipt.requested_transitions = s.spec.requested_transitions

BoundInv ==
    run # NoRun =>
        /\ run = [schedule |-> run.schedule, snapshot |-> run.snapshot]
        /\ SettledInv(run.snapshot)

LEMMA BoundFact == BoundInv => BoundRunIsWholeSchedule
BY ReceiptFact DEF BoundInv, SettledInv, BoundRunIsWholeSchedule

LEMMA AppendedForm ==
    ASSUME NEW s, SnapshotForm(s), NEW step
    PROVE  Appended(s, step) = [spec |-> s.spec, history |-> Append(s.history, step),
                                status |-> "running", receipt |-> s.receipt]
<1> DEFINE h == Append(s.history, step)
           u == Appended(s, step)
<1>1. u = [[s EXCEPT !.history = h] EXCEPT !.status = "running"]
  BY DEF Appended
<1>2. h = Append(s.history, step)
  OBVIOUS
<1> HIDE DEF h
<1>3. [s EXCEPT !.history = h] = [spec |-> s.spec, history |-> h, status |-> s.status,
                                  receipt |-> s.receipt]
  BY DEF SnapshotForm
<1>4. u = [spec |-> s.spec, history |-> h, status |-> "running", receipt |-> s.receipt]
  BY <1>1, <1>3
<1> QED
  BY <1>2, <1>4

(* A step of a run replaces the snapshot and nothing else.                 *)
LEMMA Replaced ==
    ASSUME BoundInv, run # NoRun, NEW s, SettledInv(s),
           run' = [run EXCEPT !.snapshot = s]
    PROVE  BoundInv'
<1>1. run' = [schedule |-> run.schedule, snapshot |-> s]
  BY DEF BoundInv
<1> QED
  BY <1>1 DEF BoundInv

LEMMA RunStepKeeps == ASSUME BoundInv, RunNext PROVE BoundInv'
<1> DEFINE s == run.snapshot
<1>1. CASE BeginRun
  <2>1. PICK a \in Artifacts : \E first \in 0 .. Steps(a.numerical.sigmas) - 1 :
            run' = [schedule |-> a, snapshot |-> Initial(SpecOfRun(a, first))]
    BY <1>1 DEF BeginRun
  <2>2. PICK first \in 0 .. Steps(a.numerical.sigmas) - 1 :
            run' = [schedule |-> a, snapshot |-> Initial(SpecOfRun(a, first))]
    BY <2>1
  <2>3. SettledInv(Initial(SpecOfRun(a, first)))
    BY DEF Initial, SettledInv, SnapshotForm
  <2> QED
    BY <2>2, <2>3 DEF BoundInv
<1>2. CASE StepRun
  <2> DEFINE t == Appended(s, NextStep(s))
  <2>1. /\ run # NoRun /\ s.receipt = NoReceipt
        /\ run' = [run EXCEPT !.snapshot = t]
    BY <1>2 DEF StepRun, CanAppend, ReceiptUnbound
  <2>3. t = [spec |-> s.spec, history |-> Append(s.history, NextStep(s)),
             status |-> "running", receipt |-> s.receipt]
    <3>1. SnapshotForm(s)
      BY <2>1 DEF BoundInv, SettledInv
    <3> QED
      BY <3>1, AppendedForm
  <2>2. SettledInv(t)
    <3> HIDE DEF t
    <3> QED
      BY <2>1, <2>3 DEF SettledInv, SnapshotForm
  <2> QED
    BY <2>1, <2>2, Replaced
<1>3. CASE EndRun
  <2>1. run # NoRun
    BY <1>3 DEF EndRun
  <2>2. CASE CanComplete(s, s.spec) /\ run' = [run EXCEPT !.snapshot = Completed(s)]
    <3>1. SettledInv(Completed(s))
      BY <2>1, <2>2 DEF CanComplete, EffectiveTransitions, ReceiptUnbound, Completed, BoundInv,
                       SettledInv, SnapshotForm
    <3> QED
      BY <2>1, <2>2, <3>1, Replaced
  <2>3. CASE CanInterrupt(s, s.spec) /\ run' = [run EXCEPT !.snapshot = Interrupted(s)]
    <3>1. SettledInv(Interrupted(s))
      BY <2>1, <2>3 DEF CanInterrupt, ReceiptUnbound, Interrupted, BoundInv, SettledInv,
                       SnapshotForm
    <3> QED
      BY <2>1, <2>3, <3>1, Replaced
  <2> QED
    BY <1>3, <2>2, <2>3 DEF EndRun
<1>4. CASE Settle
  <2>1. PICK r \in Receipts :
            /\ CanAttach(s, s.spec, r)
            /\ run' = [run EXCEPT !.snapshot = Attached(s, r)]
    BY <1>4 DEF Settle
  <2>2. run # NoRun
    BY <1>4 DEF Settle
  <2>3. SettledInv(Attached(s, r))
    BY <2>1, <2>2 DEF CanAttach, Attached, BoundInv, SettledInv, SnapshotForm
  <2> QED
    BY <2>1, <2>2, <2>3, Replaced
<1> QED
  BY <1>1, <1>2, <1>3, <1>4 DEF RunNext

(* The workflow keeps its form, and no call replaces its metadata.         *)
WorkflowInv ==
    workflow = [supported |-> workflow.supported, extra |-> workflow.extra,
                others |-> workflow.others, metadata |-> workflow.metadata]

MetadataStep ==
    /\ workflow'.metadata # workflow.metadata => workflow'.others = workflow.others
    /\ workflow.metadata \notin {NoMetadata, NullMetadata} =>
        workflow'.metadata \in {workflow.metadata, NoMetadata, NullMetadata}

LEMMA WorkflowKeeps ==
    ASSUME WorkflowInv, WorkflowNext PROVE WorkflowInv' /\ MetadataStep
<1>1. CASE \E m \in Metadata : AttachMetadata(m)
  <2>1. PICK m \in Metadata : AttachMetadata(m)
    BY <1>1
  <2>2. workflow' = IF workflow.metadata \in {NoMetadata, NullMetadata}
                    THEN WithMetadata(workflow, m) ELSE workflow
    BY <2>1 DEF AttachMetadata
  <2> QED
    BY <2>2 DEF WithMetadata, WorkflowInv, MetadataStep
<1>2. CASE DetachMetadata
  BY <1>2 DEF DetachMetadata, Detached, WorkflowInv, MetadataStep
<1>3. CASE EditExtra
  <2>1. CASE \E keys \in SUBSET OtherKeys :
                workflow' = [workflow EXCEPT !.others = keys,
                    !.extra = (keys # {} \/ workflow.metadata # NoMetadata)]
    BY <2>1 DEF WorkflowInv, MetadataStep
  <2>2. CASE workflow' = [workflow EXCEPT !.metadata = NullMetadata]
    BY <2>2 DEF WorkflowInv, MetadataStep
  <2> QED
    BY <1>3, <2>1, <2>2 DEF EditExtra
<1> QED
  BY <1>1, <1>2, <1>3 DEF WorkflowNext

EvidenceInv == PaperInv /\ ReadInv /\ BoundInv /\ WorkflowInv

LEMMA EvidenceBegins == EvidenceInit => EvidenceInv
BY DEF EvidenceInit, EvidenceInv, PaperInv, ReadInv, BoundInv, WorkflowInv

LEMMA EvidenceKeeps ==
    ASSUME EvidenceInv, [EvidenceNext]_evidence PROVE EvidenceInv'
<1>1. CASE RunNext
  <2>1. BoundInv'
    BY <1>1, RunStepKeeps DEF EvidenceInv
  <2> QED
    BY <1>1, <2>1 DEF RunNext, EvidenceInv, PaperInv, ReadInv, WorkflowInv
<1>2. CASE PaperNext
  <2>1. PaperInv' /\ ReadInv'
    BY <1>2, PaperKeeps DEF EvidenceInv
  <2> QED
    BY <1>2, <2>1 DEF PaperNext, EvidenceInv, BoundInv, WorkflowInv
<1>3. CASE WorkflowNext
  <2>1. WorkflowInv'
    BY <1>3, WorkflowKeeps DEF EvidenceInv
  <2> QED
    BY <1>3, <2>1 DEF WorkflowNext, EvidenceInv, PaperInv, ReadInv, BoundInv
<1>4. CASE UNCHANGED evidence
  BY <1>4 DEF evidence, EvidenceInv, PaperInv, ReadInv, BoundInv, WorkflowInv
<1> QED
  BY <1>1, <1>2, <1>3, <1>4 DEF EvidenceNext

(* Whatever others do to the files, what is read of them agrees with       *)
(* itself, and no partial run is bound to the receipt of a whole one (the  *)
(* __post_init__ of ScheduleArtifact, ExecutionReceipt,                    *)
(* PortableExecutionBundle, ScheduleReport, H3BackendExecutionReceipt and  *)
(* AdvancedWorkflowCompatibilityReceipt; attach_execution_receipt_evidence). *)
THEOREM ReadEvidenceAgrees == EvidenceSpec => []AcceptedEvidenceAgrees
<1>1. EvidenceInv => AcceptedEvidenceAgrees
  BY AcceptedFact, BoundFact DEF EvidenceInv, AcceptedEvidenceAgrees
<1> QED
  BY <1>1, EvidenceBegins, EvidenceKeeps, PTL DEF EvidenceSpec

(* Metadata in a workflow is never replaced by other metadata, and no call *)
(* on it touches the keys of others (attach_workflow_metadata,             *)
(* detach_workflow_metadata).                                              *)
THEOREM MetadataAlwaysStands == EvidenceSpec => MetadataStands
<1>1. EvidenceInv /\ [EvidenceNext]_evidence => [MetadataStep]_evidence
  <2> SUFFICES ASSUME EvidenceInv, EvidenceNext PROVE MetadataStep \/ UNCHANGED evidence
    OBVIOUS
  <2>1. CASE WorkflowNext
    BY <2>1, WorkflowKeeps DEF EvidenceInv
  <2>2. CASE RunNext \/ PaperNext
    BY <2>2 DEF RunNext, PaperNext, MetadataStep
  <2> QED
    BY <2>1, <2>2 DEF EvidenceNext
<1>2. MetadataStands <=> [][MetadataStep]_evidence
  BY DEF MetadataStands, MetadataStep
<1> QED
  BY <1>1, <1>2, EvidenceBegins, EvidenceKeeps, PTL DEF EvidenceSpec
=============================================================================

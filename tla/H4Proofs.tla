------------------------------- MODULE H4Proofs -------------------------------
(***************************************************************************)
(* What holds of the H4 validation for every list of rows, every output    *)
(* and every number of dispatches: the observer inside the host first,     *)
(* then the harness around it.                                             *)
(***************************************************************************)
EXTENDS MCH4, TLAPS

-----------------------------------------------------------------------------
(* The observer.  observed is its row.                                     *)

ObserverType ==
    /\ Observer!TypeOK
    /\ prompt = "sampling" => active \in Observers /\ observed.ended \in {"no", "failed"}

(* An observer that is active while a prompt samples is armed, will put    *)
(* the registry's own method back, and has counted every dispatch of this  *)
(* prompt and none of another one.                                         *)
SamplingInv ==
    prompt = "sampling" =>
        /\ status[active] = "ARMED" /\ registry = active /\ method[active] = Original
        /\ calls[active] = made
        /\ observed.ended = "no" => observed.done < Prompts

(* After a good prompt the file has that prompt's final trace.             *)
TraceInv ==
    prompt = "idle" /\ observed.ended \in {"no", "valid"} /\ observed.done > 0 =>
        file = [status |-> "DISARMED", calls |-> made]

(* A trace is accepted after the last prompt.                              *)
AcceptedInv == observed.ended \in {"valid", "unavailable"} => observed.done = Prompts

ObserverInv ==
    /\ ObserverType
    /\ NextPromptCanObserve
    /\ Observer!ActiveAgreesWithRegistry
    /\ SamplingInv /\ TraceInv /\ AcceptedInv

LEMMA ObserverInit == Observer!Init => ObserverInv
<1> SUFFICES ASSUME Observer!Init PROVE ObserverInv
  OBVIOUS
<1> USE ObserverAssumption DEF Observer!Init, Observer!NoCalls, Observer!NewRow, Prompts
<1>1. ObserverType
  BY DEF ObserverType, Observer!TypeOK
<1>2. NextPromptCanObserve /\ Observer!ActiveAgreesWithRegistry
  BY DEF NextPromptCanObserve, Observer!NextPromptCanObserve, Observer!HooksAreNotStacked,
         Observer!ActiveAgreesWithRegistry
<1>3. SamplingInv /\ TraceInv /\ AcceptedInv
  BY DEF SamplingInv, TraceInv, AcceptedInv
<1> QED
  BY <1>1, <1>2, <1>3 DEF ObserverInv

(* Failing writes are counted. *)
LEMMA WriteFact ==
    ASSUME faults \in 0 .. MaxWriteFaults, Observer!WriteFails
    PROVE  faults' \in 0 .. MaxWriteFaults
  BY ObserverAssumption DEF Observer!WriteFails

LEMMA ObserverKeeps ==
    ASSUME ObserverInv, [Observer!Next]_(Observer!vars) PROVE ObserverInv'
<1>0. USE ObserverAssumption
    DEF ObserverInv, ObserverType, Observer!TypeOK, NextPromptCanObserve,
        Observer!NextPromptCanObserve, Observer!HooksAreNotStacked,
        Observer!ActiveAgreesWithRegistry, SamplingInv, TraceInv, AcceptedInv,
        Observer!hook, Observer!NoCalls, Observer!NewRow, Prompts
<1>1. CASE Observer!ObserveRefused
  BY <1>1 DEF Observer!ObserveRefused, Observer!PromptRuns, Observer!RowFails
<1>2. ASSUME NEW o \in Observers, Observer!ArmWriteFails(o) PROVE ObserverInv'
  BY <1>2, WriteFact DEF Observer!ArmWriteFails, Observer!Arm, Observer!MayArm,
     Observer!PromptRuns, Observer!Unhooked, Observer!RowFails
<1>3. ASSUME NEW o \in Observers, Observer!Observe(o) PROVE ObserverInv'
  BY <1>3 DEF Observer!Observe, Observer!Arm, Observer!MayArm,
     Observer!PromptRuns, Observer!Unhooked, Observer!WriteSucceeds
<1>4. ASSUME NEW o \in Observers, Observer!WrapFails(o) PROVE ObserverInv'
  BY <1>4, WriteFact DEF Observer!WrapFails, Observer!MayArm, Observer!PromptRuns,
     Observer!Unhooked, Observer!WriteSucceeds, Observer!RowFails
<1>5. ASSUME NEW k \in Kinds, Observer!Call(k) PROVE ObserverInv'
  BY <1>5, WriteFact DEF Observer!Call, Observer!Counted, Observer!WriteSucceeds,
     Observer!PromptFails, Observer!RowFails
<1>6. CASE Observer!Abort
  BY <1>6 DEF Observer!Abort, Observer!PromptFails, Observer!RowFails
<1>7. CASE Observer!Finalize
  BY <1>7 DEF Observer!Finalize, Observer!Disarm, Observer!WriteSucceeds
<1>8. CASE Observer!FinalizeWriteFails
  BY <1>8, WriteFact DEF Observer!FinalizeWriteFails, Observer!Disarm,
     Observer!PromptFails, Observer!RowFails
<1>9. CASE Observer!ReadTrace
  BY <1>9 DEF Observer!ReadTrace, Observer!TraceValid
<1>10. CASE Observer!NextRow
  BY <1>10 DEF Observer!NextRow
<1>11. CASE Observer!Terminate
  BY <1>11 DEF Observer!Terminate
<1>12. CASE UNCHANGED Observer!vars
  BY <1>12 DEF Observer!vars
<1> QED
  BY <1>1, <1>2, <1>3, <1>4, <1>5, <1>6, <1>7, <1>8, <1>9, <1>10, <1>11, <1>12
     DEF Observer!Next

(* Everything the observer and its row rely on holds in every state.       *)
LEMMA ObserverInvariant == Observer!Spec => []ObserverInv
  BY ObserverInit, ObserverKeeps, PTL DEF Observer!Spec

(* The variables of observer, registry, trace and row stay in range.       *)
THEOREM ObserverTypeCorrect == Observer!Spec => []Observer!TypeOK
<1>1. ObserverInv => Observer!TypeOK
  BY DEF ObserverInv, ObserverType
<1> QED
  BY <1>1, ObserverInvariant, PTL

(* A trace a row accepts counts every dispatch of its last prompt, however *)
(* many observers, kinds, calls, checkpoints and failing writes there were *)
(* (_read_dispatch_trace).                                                 *)
THEOREM AcceptedTracesAreComplete == Observer!Spec => []AcceptedTraceIsComplete
<1>1. ObserverInv => AcceptedTraceIsComplete
  BY DEF ObserverInv, ObserverType, Observer!TypeOK, TraceInv, AcceptedInv,
         AcceptedTraceIsComplete, Observer!AcceptedTraceIsComplete, Prompts
<1> QED
  BY <1>1, ObserverInvariant, PTL

(* After a good prompt nothing is hooked, and what an observer will put    *)
(* back is never another one's hook (install, _arm_registry).              *)
THEOREM NextPromptsCanObserve == Observer!Spec => []NextPromptCanObserve
<1>1. ObserverInv => NextPromptCanObserve
  BY DEF ObserverInv
<1> QED
  BY <1>1, ObserverInvariant, PTL

-----------------------------------------------------------------------------
(* The refinement: what observer and registry do in between, a row sees    *)
(* its prompts succeed one after the other, or one of them fail.           *)

LEMMA ObserverRowInit == Observer!Init => Observer!Row!Init
  BY DEF Observer!Init, Observer!Row!Init, Observer!NewRow

LEMMA ObserverRowStep ==
    ASSUME ObserverInv, [Observer!Next]_(Observer!vars)
    PROVE  [Observer!Row!Next]_(Observer!Row!vars)
<1> USE DEF Observer!Row!Next, Observer!Row!vars, Observer!RowFails, Observer!PromptFails
<1>0. observed \in [done : 0 .. Prompts, ended : {"no", "failed", "valid", "unavailable"}]
  BY DEF ObserverInv, ObserverType, Observer!TypeOK
<1>1. CASE Observer!RowFails /\ observed.ended \in {"no", "failed"}
  BY <1>0, <1>1 DEF Observer!Row!Fail
<1>2. CASE Observer!Finalize
  <2>1. prompt = "sampling"
    BY <1>2 DEF Observer!Finalize
  <2>2. CASE observed.ended = "no"
    BY <1>0, <1>2, <2>1, <2>2
       DEF Observer!Finalize, ObserverInv, SamplingInv, Observer!Row!Complete
  <2>3. CASE observed.ended # "no"
    BY <1>0, <1>2, <2>3 DEF Observer!Finalize
  <2> QED
    BY <2>2, <2>3
<1>3. CASE Observer!ReadTrace
  BY <1>0, <1>3 DEF Observer!ReadTrace, Observer!Row!Read, Observer!Row!Ends
<1>4. CASE Observer!NextRow \/ Observer!Terminate
  BY <1>0, <1>4
     DEF Observer!NextRow, Observer!Terminate, Observer!NewRow, Observer!Row!NextRow
<1>5. CASE UNCHANGED observed
  BY <1>5
<1>6. Observer!Next => \/ Observer!RowFails /\ observed.ended \in {"no", "failed"}
                       \/ Observer!Finalize \/ Observer!ReadTrace
                       \/ Observer!NextRow \/ Observer!Terminate
                       \/ UNCHANGED observed
  BY DEF ObserverInv, ObserverType, Observer!Next, Observer!ObserveRefused,
         Observer!PromptRuns, Observer!ArmWriteFails, Observer!Arm, Observer!MayArm,
         Observer!Observe, Observer!WrapFails, Observer!Call, Observer!Abort,
         Observer!FinalizeWriteFails
<1> QED
  BY <1>1, <1>2, <1>3, <1>4, <1>5, <1>6 DEF Observer!vars

(* With the observer in the host, rows run as H4Row says (_run_rows).      *)
THEOREM ObserverImplementsRow == Observer!Spec => Observer!ObservesRows
  BY ObserverRowInit, ObserverRowStep, ObserverInvariant, PTL
     DEF Observer!Spec, Observer!ObservesRows, Observer!Row!Spec

-----------------------------------------------------------------------------
(* The harness: bags of files first.                                       *)

(* What is new in a bag after a set of files was added is that set ...     *)
LEMMA NewFilesFact ==
    ASSUME NEW before, IsABag(before), NEW added
    PROVE  /\ IsABag(before (+) SetToBag(added))
           /\ (before (+) SetToBag(added)) (-) before = SetToBag(added)
<1> DEFINE after == before (+) SetToBag(added)
<1>1. DOMAIN after = DOMAIN before \cup added
  BY DEF SetToBag, (+)
<1>2. \A e \in DOMAIN before : before[e] \in Nat \ {0}
  BY DEF IsABag
<1>3. \A e \in DOMAIN after :
        after[e] = (IF e \in DOMAIN before THEN before[e] ELSE 0)
                   + (IF e \in added THEN 1 ELSE 0)
  BY DEF SetToBag, (+)
<1>4. \A e \in DOMAIN after : after[e] \in Nat \ {0}
  BY <1>1, <1>2, <1>3
<1>5. after = [e \in DOMAIN after |-> after[e]]
  BY DEF (+)
<1>6. IsABag(after)
  BY <1>4, <1>5 DEF IsABag
<1> DEFINE rest == [e \in DOMAIN after |-> IF e \in DOMAIN before THEN after[e] - before[e]
                                          ELSE after[e]]
<1>7. \A e \in DOMAIN after : rest[e] = IF e \in added THEN 1 ELSE 0
  BY <1>1, <1>2, <1>3
<1>8. {d \in DOMAIN rest : rest[d] > 0} = added
  BY <1>1, <1>7
<1>9. after (-) before = [e \in added |-> rest[e]]
  BY <1>8 DEF (-)
<1>10. after (-) before = SetToBag(added)
  BY <1>1, <1>7, <1>9 DEF SetToBag
<1> QED
  BY <1>6, <1>10

(* ... and different sets are different bags.                              *)
LEMMA SetToBagFact ==
    ASSUME NEW s, NEW t, SetToBag(s) = SetToBag(t) PROVE s = t
<1>1. DOMAIN SetToBag(s) = s /\ DOMAIN SetToBag(t) = t
  BY DEF SetToBag
<1> QED
  BY <1>1

-----------------------------------------------------------------------------
(* The invariant of the harness.                                           *)

BeforeEnd == {"asked", "accepted", "staged", "rows", "measuring", "submitted", "joining"}
AtEnd == {"stopping", "port", "removing"}
Prompting == {"measuring", "submitted", "joining"}

FileBags == UNION {[s -> Nat \ {0}] : s \in SUBSET UNION Outputs}

Sampler == [thread : {"none", "waiting", "reading"}, reads : 0 .. Prompts,
            stop : BOOLEAN, samples : SUBSET Tries, told : SUBSET Tries]

HarnessType ==
    /\ asked \in Requests
    /\ phase \in BeforeEnd \cup AtEnd \cup {"reporting", "exit"}
    /\ todo \in Seq(DOMAIN asked.file)
    /\ row \in [done : 0 .. Prompts, ended : {"idle", "no", "failed"} \cup {"valid", "unavailable"}]
    /\ files \in FileBags /\ seen \in Seq(FileBags)
    /\ samplers \in [Tries -> Sampler]
    /\ failed \in BOOLEAN /\ mutated \in BOOLEAN
    /\ host \in [process : {"none", "up", "gone"}, code : {"none", "zero", "nonzero"}]

(* A row that runs is the first one to do and was admitted, and outside of *)
(* a row nothing is prompted.                                              *)
RowInv ==
    /\ row.ended = "no" =>
          /\ phase \in Prompting \cup {"rows"}
          /\ todo # <<>> /\ Disposition(asked, Head(todo)) = "accepted"
    /\ phase \in Prompting => row.ended = "no" /\ row.done < Prompts
    /\ phase = "joining" => failed

(* What this row saw is what was there, one prompt's files after the other.*)
Wrote(before, after) == \E output \in Outputs : after = before (+) SetToBag(output)

SeenInv ==
    row.ended = "no" =>
        /\ Len(seen) = row.done
        /\ \A k \in 2 .. row.done : Wrote(seen[k - 1], seen[k])
        /\ phase \in {"rows", "measuring"} /\ row.done > 0 => files = seen[row.done]
        /\ phase = "submitted" /\ row.done > 0 => Wrote(seen[row.done], files)

(* A sampler has readings of its own prompt only: one that still begins    *)
(* readings is the one of the prompt that is being measured.               *)
SamplersInv ==
    \A k \in Tries :
        /\ samplers[k].samples \subseteq {k} /\ samplers[k].told \subseteq {k}
        /\ samplers[k].thread = "reading" => samplers[k].reads = k
        /\ samplers[k].thread # "none" /\ ~samplers[k].stop =>
              phase = "measuring" /\ k = Current

(* Every row is answered or still to do; when none is left to do and none  *)
(* failed, all are answered.                                               *)
AnswersInv ==
    /\ phase \in BeforeEnd => Range(asked.rows) = DOMAIN results \cup Range(todo)
    /\ phase \in AtEnd /\ ~failed => Range(asked.rows) = DOMAIN results

(* What the end of the run found is still so when the directory goes.      *)
EndInv ==
    /\ phase \in {"port", "removing"} /\ closing.termination = "graceful" =>
          host.process = "gone"
    /\ phase = "removing" /\ closing.readback = "pass" => ~mutated
    /\ dir \in {"removed", "partial"} => phase \in {"reporting", "exit"}

HarnessInv ==
    /\ HarnessType /\ RowInv /\ SeenInv /\ SamplersInv /\ AnswersInv /\ EndInv
    /\ RunDirOutlivesTrouble /\ RowTellsItsOwn

(* Bags of files are bags, and stay so when a prompt writes.               *)
LEMMA FileBagsFact ==
    /\ EmptyBag \in FileBags
    /\ \A b \in FileBags : IsABag(b)
    /\ \A b \in FileBags, output \in Outputs : b (+) SetToBag(output) \in FileBags
<1>1. EmptyBag \in FileBags
  <2>1. EmptyBag \in [{} -> Nat \ {0}]
    BY DEF EmptyBag, SetToBag
  <2>2. {} \in SUBSET UNION Outputs
    OBVIOUS
  <2> QED
    BY <2>1, <2>2 DEF FileBags
<1>2. ASSUME NEW b \in FileBags PROVE IsABag(b)
  BY DEF FileBags, IsABag
<1>3. ASSUME NEW b \in FileBags, NEW output \in Outputs
      PROVE  b (+) SetToBag(output) \in FileBags
  <2> DEFINE after == b (+) SetToBag(output)
  <2>1. PICK s \in SUBSET UNION Outputs : b \in [s -> Nat \ {0}]
    BY DEF FileBags
  <2>2. after = [e \in s \cup output |-> after[e]]
    BY <2>1 DEF SetToBag, (+)
  <2>3. \A e \in s \cup output : after[e] \in Nat \ {0}
    BY <2>1 DEF SetToBag, (+)
  <2>4. s \cup output \in SUBSET UNION Outputs
    OBVIOUS
  <2>5. after \in [s \cup output -> Nat \ {0}]
    BY <2>2, <2>3
  <2> QED
    BY <2>4, <2>5 DEF FileBags
<1> QED
  BY <1>1, <1>2, <1>3

(* What a sequence has, its head and its tail have.                        *)
LEMMA RangeFact ==
    ASSUME NEW S, NEW s \in Seq(S), s # <<>>
    PROVE  /\ Head(s) \in S /\ Tail(s) \in Seq(S)
           /\ Range(s) = {Head(s)} \cup Range(Tail(s))
<1>1. Head(s) \in S /\ Tail(s) \in Seq(S)
  OBVIOUS
<1>2. Len(s) \in Nat \ {0} /\ Len(Tail(s)) = Len(s) - 1
  OBVIOUS
<1>3. \A i \in 1 .. Len(s) - 1 : Tail(s)[i] = s[i + 1]
  OBVIOUS
<1>4. Range(s) \subseteq {Head(s)} \cup Range(Tail(s))
  <2> SUFFICES ASSUME NEW i \in 1 .. Len(s) PROVE s[i] \in {Head(s)} \cup Range(Tail(s))
    BY DEF Range
  <2>1. CASE i = 1
    BY <2>1
  <2>2. CASE i # 1
    <3>1. i - 1 \in 1 .. Len(s) - 1
      BY <1>2, <2>2
    <3>2. s[i] = Tail(s)[i - 1]
      BY <1>2, <1>3, <3>1
    <3>3. i - 1 \in DOMAIN Tail(s)
      BY <1>1, <1>2, <3>1
    <3> QED
      BY <3>2, <3>3 DEF Range
  <2> QED
    BY <2>1, <2>2
<1>5. {Head(s)} \cup Range(Tail(s)) \subseteq Range(s)
  <2>1. Head(s) \in Range(s)
    BY <1>2 DEF Range
  <2>2. ASSUME NEW i \in 1 .. Len(s) - 1 PROVE Tail(s)[i] \in Range(s)
    BY <1>2, <1>3, i + 1 \in 1 .. Len(s) DEF Range
  <2> QED
    BY <1>1, <1>2, <2>1, <2>2 DEF Range
<1> QED
  BY <1>1, <1>4, <1>5

LEMMA ElementFact ==
    ASSUME NEW S, NEW s \in Seq(S), NEW i \in 1 .. Len(s) PROVE s[i] \in S
  OBVIOUS

LEMMA HarnessInit == Init => HarnessInv
<1> SUFFICES ASSUME Init PROVE HarnessInv
  OBVIOUS
<1> USE DEF Init, Idle, NoSampler, Prompts, Tries, BeforeEnd, AtEnd, Prompting
<1>1. HarnessType
  <2>1. asked \in Requests /\ asked.rows \in Seq(DOMAIN asked.file)
    BY RequestsAssumption
  <2>2. files \in FileBags /\ seen \in Seq(FileBags)
    BY FileBagsFact
  <2>3. NoSampler \in Sampler
    BY DEF Sampler
  <2>4. samplers \in [Tries -> Sampler]
    BY <2>3
  <2>5. row \in [done : 0 .. Prompts,
                 ended : {"idle", "no", "failed"} \cup {"valid", "unavailable"}]
    OBVIOUS
  <2> QED
    BY <2>1, <2>2, <2>4, <2>5 DEF HarnessType
<1>2. RowInv /\ SeenInv
  BY DEF RowInv, SeenInv
<1>3. SamplersInv /\ EndInv
  BY DEF SamplersInv, EndInv
<1>4. AnswersInv
  <2>1. DOMAIN results = {}
    OBVIOUS
  <2> QED
    BY <2>1 DEF AnswersInv
<1>5. RunDirOutlivesTrouble /\ RowTellsItsOwn
  <2>1. DOMAIN results = {} /\ dir = "none"
    OBVIOUS
  <2> QED
    BY <2>1 DEF RunDirOutlivesTrouble, RowTellsItsOwn
<1> QED
  BY <1>1, <1>2, <1>3, <1>4, <1>5 DEF HarnessInv

-----------------------------------------------------------------------------
(* Every step keeps the invariant: one lemma for each part of it.          *)

(* A sampler whose fields are set is one ...                               *)
LEMMA SamplerFact ==
    ASSUME NEW s \in Sampler, NEW thread \in {"none", "waiting", "reading"},
           NEW told \in SUBSET Tries
    PROVE  /\ [s EXCEPT !.thread = thread, !.reads = 0] \in Sampler
           /\ [s EXCEPT !.told = told, !.thread = thread] \in Sampler
<1>1. [s EXCEPT !.thread = thread] \in Sampler /\ [s EXCEPT !.told = told] \in Sampler
  BY DEF Sampler
<1>2. \A u \in Sampler : [u EXCEPT !.reads = 0] \in Sampler
  BY DEF Sampler, Prompts
<1>3. \A u \in Sampler : [u EXCEPT !.thread = thread] \in Sampler
  BY DEF Sampler
<1> QED
  BY <1>1, <1>2, <1>3

(* What an action writes of a sampler leaves the samplers well typed.      *)
LEMMA SamplerUpdates ==
    ASSUME NEW f \in [Tries -> Sampler], NEW k
    PROVE  /\ [f EXCEPT ![k].stop = TRUE] \in [Tries -> Sampler]
           /\ [f EXCEPT ![k].thread = "waiting"] \in [Tries -> Sampler]
           /\ \A n \in 0 .. Prompts :
                 [f EXCEPT ![k].thread = "reading", ![k].reads = n] \in [Tries -> Sampler]
<1>1. CASE k \in Tries
  <2> DEFINE x == f[k]
  <2>1. x \in Sampler
    BY <1>1
  <2> HIDE DEF x
  <2>2. [x EXCEPT !.stop = TRUE] \in Sampler
    BY ONLY <2>1 DEF Sampler
  <2>3. [x EXCEPT !.thread = "waiting"] \in Sampler
    BY ONLY <2>1 DEF Sampler
  <2>4. \A n \in 0 .. Prompts : [x EXCEPT !.thread = "reading", !.reads = n] \in Sampler
    BY ONLY <2>1 DEF Sampler
  <2>5. /\ [f EXCEPT ![k].stop = TRUE] \in [Tries -> Sampler]
        /\ [f EXCEPT ![k].thread = "waiting"] \in [Tries -> Sampler]
    BY <1>1, <2>2, <2>3 DEF x
  <2>6. ASSUME NEW n \in 0 .. Prompts
        PROVE  [f EXCEPT ![k].thread = "reading", ![k].reads = n] \in [Tries -> Sampler]
    <3>1. [x EXCEPT !.thread = "reading", !.reads = n] \in Sampler
      BY <2>4
    <3>2. [f EXCEPT ![k].thread = "reading", ![k].reads = n]
            = [f EXCEPT ![k] = [x EXCEPT !.thread = "reading", !.reads = n]]
      BY <1>1 DEF x
    <3> QED
      BY <1>1, <3>1, <3>2
  <2> QED
    BY <2>5, <2>6
<1>2. CASE k \notin Tries
  BY <1>2
<1> QED
  BY <1>1, <1>2

(* ... and a reading goes to its own sampler, if the tool gave one.        *)
LEMMA RecordFact ==
    ASSUME samplers \in [Tries -> Sampler], NEW k \in Tries, NEW sample \in Tries
    PROVE  /\ Record(k, sample) \in [Tries -> Sampler]
           /\ \A j \in Tries : j # k => Record(k, sample)[j] = samplers[j]
           /\ Record(k, sample)[k] \in
                 {samplers[k], [samplers[k] EXCEPT !.samples = @ \cup {sample}]}
<1> DEFINE grown == [samplers[k] EXCEPT !.samples = @ \cup {sample}]
<1>1. CASE asked.tool
  <2>1. Record(k, sample) = [samplers EXCEPT ![k] = grown]
    BY <1>1 DEF Record, Sampler
  <2>2. grown \in Sampler
    BY DEF Sampler
  <2> HIDE DEF grown
  <2>3. QED
    BY <2>1, <2>2 DEF grown
<1>2. CASE ~asked.tool
  <2>1. Record(k, sample) = samplers
    BY <1>2 DEF Record, Sampler
  <2> QED
    BY <2>1
<1> QED
  BY <1>1, <1>2

LEMMA TypeStep ==
    ASSUME HarnessInv, [Next]_vars PROVE HarnessType'
<1> USE DEF HarnessInv, HarnessType, Prompts, BeforeEnd, AtEnd
<1>1. asked' = asked
  BY DEF vars, Next, Harness, Preflight, StageExtension, StartHost, NotExecuted, BeginRow,
         StageFails, StartSampler, PromptCompletes, PromptFails, StopSampler, FinishRow,
         RowsDone, Terminate, Examine, RemoveRun, Report, Reading, Recorded, HostExits, Mutate
<1>2. CASE NotExecuted \/ FinishRow
  <2>1. todo # <<>>
    BY <1>2 DEF NotExecuted, FinishRow, RowInv
  <2>2. Tail(todo) \in Seq(DOMAIN asked.file)
    BY <2>1
  <2> QED
    BY <1>1, <1>2, <2>2 DEF NotExecuted, FinishRow
<1>3. CASE BeginRow
  <2>1. NoSampler \in Sampler
    BY DEF NoSampler, Sampler
  <2>2. samplers' \in [Tries -> Sampler]
    BY <1>3, <2>1 DEF BeginRow
  <2> QED
    BY <1>1, <1>3, <2>2 DEF BeginRow
<1>4. CASE StartSampler
  <2>1. Current \in Tries
    BY <1>4 DEF StartSampler, Current, Tries
  <2>2. Record(Current, Current) \in [Tries -> Sampler]
    BY <2>1, RecordFact
  <2>3. samplers' \in [Tries -> Sampler]
    BY <1>4, <2>2, SamplerUpdates DEF StartSampler
  <2> QED
    BY <1>1, <1>4, <2>3 DEF StartSampler
<1>5. ASSUME NEW k \in Tries, Reading(k) PROVE HarnessType'
  <2>1. row.done < Prompts => Current \in Tries
    BY DEF Current, Tries
  <2>2. row.done < Prompts
    BY <1>5 DEF Reading, SamplersInv, RowInv, Prompting
  <2>3. samplers' \in [Tries -> Sampler]
    <3>1. samplers' = [samplers EXCEPT ![k].thread = "reading", ![k].reads = Current]
      BY <1>5 DEF Reading
    <3>2. Current \in 0 .. Prompts
      BY <2>1, <2>2 DEF Tries
    <3> QED
      BY <3>1, <3>2, SamplerUpdates
  <2> QED
    BY <1>1, <1>5, <2>3 DEF Reading
<1>6. ASSUME NEW k \in Tries, Recorded(k) PROVE HarnessType'
  <2>1. samplers[k].reads = k
    BY <1>6 DEF Recorded, SamplersInv
  <2>2. samplers' \in [Tries -> Sampler]
    <3> DEFINE kept == Record(k, k)
               one == [kept[k] EXCEPT !.thread = IF samplers[k].stop THEN "none" ELSE "waiting",
                                      !.reads = 0]
    <3>1. kept \in [Tries -> Sampler]
      BY RecordFact
    <3>2. one \in Sampler
      BY <3>1, SamplerFact
    <3>3. samplers' = [kept EXCEPT ![k].thread = IF samplers[k].stop THEN "none" ELSE "waiting",
                                   ![k].reads = 0]
      BY <1>6, <2>1 DEF Recorded
    <3> HIDE DEF kept
    <3>4. samplers' = [kept EXCEPT ![k] = one]
      BY <3>1, <3>3
    <3> HIDE DEF one
    <3> QED
      BY <3>1, <3>2, <3>4
  <2> QED
    BY <1>1, <1>6, <2>2 DEF Recorded
<1>7. CASE PromptCompletes
  <2>1. files' \in FileBags
    BY <1>7, FileBagsFact DEF PromptCompletes
  <2>2. samplers' \in [Tries -> Sampler]
    BY <1>7, SamplerUpdates DEF PromptCompletes
  <2> QED
    BY <1>1, <1>7, <2>1, <2>2 DEF PromptCompletes
<1>8. CASE PromptFails
  <2>1. samplers' \in [Tries -> Sampler]
    BY <1>8, SamplerUpdates DEF PromptFails
  <2> QED
    BY <1>1, <1>8, <2>1 DEF PromptFails
<1>9. CASE StopSampler
  <2>1. row.done < Prompts
    BY <1>9 DEF StopSampler, RowInv, Prompting
  <2>2. Current \in Tries
    BY <2>1 DEF Current, Tries
  <2>3. Record(Current, Current) \in [Tries -> Sampler]
    BY <2>2, RecordFact
  <2>4. samplers' \in [Tries -> Sampler]
    <3> DEFINE kept == Record(Current, Current)
    <3>1. kept[Current].samples \in SUBSET Tries
      BY <2>2, <2>3 DEF Sampler
    <3>2. samplers' = [kept EXCEPT ![Current].told = kept[Current].samples,
                                  ![Current].thread = IF @ = "waiting" THEN "none" ELSE @]
      BY <1>9 DEF StopSampler
    <3>3. kept \in [Tries -> Sampler]
      BY <2>3
    <3> HIDE DEF kept
    <3> DEFINE one == [kept[Current] EXCEPT !.told = kept[Current].samples,
                                            !.thread = IF @ = "waiting" THEN "none" ELSE @]
    <3> DEFINE thread == IF kept[Current].thread = "waiting" THEN "none"
                         ELSE kept[Current].thread
    <3>4. one \in Sampler
      <4>1. thread \in {"none", "waiting", "reading"} /\ kept[Current] \in Sampler
        BY <2>2, <3>3 DEF Sampler
      <4>2. one = [kept[Current] EXCEPT !.told = kept[Current].samples, !.thread = thread]
        BY <4>1 DEF Sampler
      <4> QED
        BY <3>1, <4>1, <4>2, SamplerFact
    <3>5. samplers' = [kept EXCEPT ![Current] = one]
      BY <2>2, <3>2, <3>3
    <3> HIDE DEF one
    <3> QED
      BY <2>2, <3>3, <3>4, <3>5
  <2>5. row' \in [done : 0 .. Prompts,
                  ended : {"idle", "no", "failed"} \cup {"valid", "unavailable"}]
    BY <1>9, <2>1 DEF StopSampler, FailedRow
  <2>6. seen' \in Seq(FileBags)
    <3>1. seen' = seen \/ seen' = Append(seen, files)
      BY <1>9 DEF StopSampler
    <3>2. files \in FileBags /\ seen \in Seq(FileBags)
      BY DEF HarnessType
    <3> QED
      BY ONLY <3>1, <3>2
  <2> QED
    BY <1>1, <1>9, <2>4, <2>5, <2>6 DEF StopSampler
<1>10. CASE Preflight \/ StageExtension \/ StartHost \/ StageFails \/ RowsDone
  <2>1. failed' \in BOOLEAN
    <3>1. CASE StartHost
      BY <3>1, Zenon DEF StartHost
    <3> QED
      BY <1>10, <3>1 DEF Preflight, StageExtension, StageFails, RowsDone
  <2>4. host' \in [process : {"none", "up", "gone"}, code : {"none", "zero", "nonzero"}]
    BY <1>10 DEF Preflight, StageExtension, StartHost, StageFails, RowsDone
  <2>2. phase' \in BeforeEnd \cup AtEnd \cup {"reporting", "exit"}
    BY <1>10 DEF Preflight, StageExtension, StartHost, StageFails, RowsDone
  <2>3. UNCHANGED <<todo, row, files, seen, samplers, mutated>>
    BY <1>10 DEF Preflight, StageExtension, StartHost, StageFails, RowsDone
  <2> QED
    BY <1>1, <2>1, <2>4, <2>2, <2>3
<1>11. CASE Terminate \/ Examine \/ RemoveRun \/ Report \/ HostExits \/ Mutate
  <2>1. failed' \in BOOLEAN /\ mutated' \in BOOLEAN
    BY <1>11 DEF Terminate, Examine, RemoveRun, Report, HostExits, Mutate
  <2>2. host' \in [process : {"none", "up", "gone"}, code : {"none", "zero", "nonzero"}]
    <3>1. CASE Terminate
      <4>1. host' = host \/ \E code \in {"zero", "nonzero"} :
               host' = [host EXCEPT !.code = code] \/ host' = [process |-> "gone", code |-> code]
        BY <3>1, Zenon DEF Terminate
      <4> QED
        BY <4>1
    <3> QED
      BY <1>11, <3>1 DEF Examine, RemoveRun, Report, HostExits, Mutate
  <2>3. phase' \in BeforeEnd \cup AtEnd \cup {"reporting", "exit"}
    BY <1>11 DEF Terminate, Examine, RemoveRun, Report, HostExits, Mutate
  <2>4. UNCHANGED <<todo, row, files, seen, samplers>>
    BY <1>11 DEF Terminate, Examine, RemoveRun, Report, HostExits, Mutate
  <2> QED
    BY <1>1, <2>1, <2>2, <2>3, <2>4
<1>12. CASE UNCHANGED vars
  BY <1>12 DEF vars
<1> QED
  BY <1>2, <1>3, <1>4, <1>5, <1>6, <1>7, <1>8, <1>9, <1>10, <1>11, <1>12
     DEF Next, Harness

LEMMA RowStep ==
    ASSUME HarnessInv, [Next]_vars PROVE RowInv'
<1> USE DEF HarnessInv, HarnessType, RowInv, Prompts, Prompting, BeforeEnd, AtEnd
<1>1. CASE Preflight \/ StageExtension \/ StartHost \/ NotExecuted \/ StageFails \/ RowsDone
  BY <1>1 DEF Preflight, StageExtension, StartHost, NotExecuted, StageFails, RowsDone
<1>2. CASE BeginRow
  BY <1>2 DEF BeginRow, Queueable, Disposition
<1>3. CASE StartSampler
  BY <1>3 DEF StartSampler, Disposition
<1>4. CASE PromptCompletes \/ PromptFails
  BY <1>4 DEF PromptCompletes, PromptFails, Disposition
<1>5. CASE StopSampler
  BY <1>5 DEF StopSampler, FailedRow, Disposition
<1>6. CASE FinishRow
  BY <1>6 DEF FinishRow
<1>7. CASE Terminate \/ Examine \/ RemoveRun \/ Report
  BY <1>7 DEF Terminate, Examine, RemoveRun, Report
<1>8. CASE HostExits \/ Mutate \/ (\E k \in Tries : Reading(k) \/ Recorded(k)) \/ UNCHANGED vars
  <2>1. UNCHANGED <<asked, phase, todo, row, failed>>
    BY <1>8 DEF HostExits, Mutate, Reading, Recorded, vars
  <2> QED
    BY <2>1 DEF Disposition
<1> QED
  BY <1>1, <1>2, <1>3, <1>4, <1>5, <1>6, <1>7, <1>8 DEF Next, Harness

LEMMA SeenStep ==
    ASSUME HarnessInv, [Next]_vars PROVE SeenInv'
<1> USE DEF HarnessInv, HarnessType, RowInv, SeenInv, Prompts, Prompting, BeforeEnd, AtEnd
<1>1. CASE row'.ended # "no"
  BY <1>1
<1>2. CASE UNCHANGED <<row, seen, files>> /\ phase' = phase
  BY <1>2 DEF Wrote
<1>3. CASE BeginRow
  BY <1>3 DEF BeginRow
<1>4. CASE StartSampler
  BY <1>4 DEF StartSampler, Wrote
<1>5. CASE PromptCompletes
  BY <1>5 DEF PromptCompletes, Wrote
<1>6. CASE PromptFails
  BY <1>6 DEF PromptFails, Wrote
<1>7. CASE StopSampler /\ phase = "submitted"
  <2>1. /\ seen' = Append(seen, files) /\ files' = files
        /\ row' = [row EXCEPT !.done = @ + 1] /\ phase' = "rows"
        /\ row.done < Prompts
    BY <1>7 DEF StopSampler
  <2>2. CASE row.ended # "no"
    BY <1>7, <2>2
  <2>3. CASE row.ended = "no"
    <3>1. row'.done = row.done + 1 /\ Len(seen') = Len(seen) + 1 /\ Len(seen) = row.done
      BY <2>1, <2>3
    <3>2. \A k \in 1 .. row.done : seen'[k] = seen[k]
      BY <2>1, <3>1
    <3>3. seen'[row.done + 1] = files
      BY <2>1, <3>1
    <3>4. ASSUME NEW k \in 2 .. row'.done PROVE Wrote(seen'[k - 1], seen'[k])
      <4>1. CASE k \in 2 .. row.done
        BY <2>3, <3>2, <4>1
      <4>2. CASE k = row.done + 1
        <5>1. row.done \in Nat \ {0} /\ row.done = k - 1
          BY <3>1, <4>2
        <5>2. Wrote(seen[row.done], files)
          BY <1>7, <2>3, <5>1
        <5> QED
          BY <3>2, <3>3, <4>2, <5>1, <5>2
      <4> QED
        BY <3>1, <4>1, <4>2
    <3> QED
      BY <2>1, <3>1, <3>3, <3>4 DEF Wrote
  <2> QED
    BY <2>2, <2>3
<1>8. CASE StopSampler /\ phase = "joining"
  BY <1>8 DEF StopSampler, FailedRow
<1> DEFINE Elsewhere == \/ row'.ended # "no"
                        \/ UNCHANGED <<row, seen, files>> /\ phase' = phase
<1>9. Next => \/ Elsewhere \/ BeginRow \/ StartSampler \/ PromptCompletes \/ PromptFails \/ StopSampler
  <2>1. Preflight \/ StageExtension \/ StartHost \/ NotExecuted \/ StageFails \/ FinishRow
           \/ RowsDone \/ Terminate \/ Examine \/ RemoveRun \/ Report => Elsewhere
    BY DEF Preflight, StageExtension, StartHost, NotExecuted, StageFails, FinishRow,
           RowsDone, Terminate, Examine, RemoveRun, Report
  <2>2. HostExits \/ Mutate \/ (\E k \in Tries : Reading(k) \/ Recorded(k)) => Elsewhere
    BY DEF HostExits, Mutate, Reading, Recorded
  <2> QED
    BY <2>1, <2>2 DEF Next, Harness
<1> QED
  BY <1>1, <1>2, <1>3, <1>4, <1>5, <1>6, <1>7, <1>8, <1>9 DEF vars, StopSampler

LEMMA SamplersStep ==
    ASSUME HarnessInv, [Next]_vars PROVE SamplersInv'
<1> USE DEF HarnessInv, HarnessType, RowInv, SamplersInv, Prompts, Prompting
<1>1. row.done < Prompts => Current \in Tries
  BY DEF Current, Tries
<1>2. CASE UNCHANGED <<samplers, row, phase>>
  BY <1>2 DEF Current
<1>3. CASE BeginRow
  BY <1>3 DEF BeginRow, NoSampler
<1>4. CASE StartSampler
  <2> DEFINE kept == Record(Current, Current)
  <2>1. Current \in Tries /\ Current' = Current /\ phase' = "measuring"
    BY <1>1, <1>4 DEF StartSampler, Current
  <2>2. samplers' = [kept EXCEPT ![Current].thread = "waiting"]
    BY <1>4 DEF StartSampler
  <2>3. /\ kept \in [Tries -> Sampler]
        /\ \A j \in Tries : j # Current => kept[j] = samplers[j]
        /\ kept[Current] \in {samplers[Current],
                              [samplers[Current] EXCEPT !.samples = @ \cup {Current}]}
    BY <2>1, RecordFact
  <2>4. kept[Current].samples \subseteq {Current} /\ kept[Current].told \subseteq {Current}
    <3>1. /\ samplers[Current] \in Sampler
          /\ samplers[Current].samples \subseteq {Current}
          /\ samplers[Current].told \subseteq {Current}
      BY <2>1
    <3>2. CASE kept[Current] = samplers[Current]
      BY <3>1, <3>2
    <3>3. CASE kept[Current] = [samplers[Current] EXCEPT !.samples = @ \cup {Current}]
      BY <3>1, <3>3 DEF Sampler
    <3> QED
      BY <2>3, <3>2, <3>3
  <2>5. phase # "measuring"
    BY <1>4 DEF StartSampler
  <2> HIDE DEF kept
  <2>6. ASSUME NEW k \in Tries PROVE SamplersInv!(k)'
    <3>1. CASE k = Current
      BY <2>1, <2>2, <2>3, <2>4, <3>1 DEF Sampler
    <3>2. CASE k # Current
      BY <2>1, <2>2, <2>3, <2>5, <3>2 DEF Sampler
    <3> QED
      BY <3>1, <3>2
  <2> QED
    BY <2>6
<1>5. ASSUME NEW k \in Tries, Reading(k) PROVE SamplersInv'
  <2>1. k = Current /\ phase = "measuring"
    BY <1>5 DEF Reading
  <2>2. samplers' = [samplers EXCEPT ![k].thread = "reading", ![k].reads = k]
    BY <1>5, <2>1 DEF Reading
  <2>3. UNCHANGED <<row, phase>> /\ Current' = Current
    BY <1>5 DEF Reading, Current
  <2>4. ASSUME NEW j \in Tries PROVE SamplersInv!(j)'
    BY <2>1, <2>2, <2>3 DEF Sampler
  <2> QED
    BY <2>4
<1>6. ASSUME NEW k \in Tries, Recorded(k) PROVE SamplersInv'
  <2> DEFINE kept == Record(k, k)
  <2>1. samplers[k].reads = k /\ UNCHANGED <<row, phase>> /\ Current' = Current
    BY <1>6 DEF Recorded, Current
  <2>2. samplers' = [kept EXCEPT ![k].thread = IF samplers[k].stop THEN "none" ELSE "waiting",
                                 ![k].reads = 0]
    BY <1>6, <2>1 DEF Recorded
  <2>3. /\ kept \in [Tries -> Sampler]
        /\ \A j \in Tries : j # k => kept[j] = samplers[j]
        /\ kept[k] \in {samplers[k], [samplers[k] EXCEPT !.samples = @ \cup {k}]}
    BY RecordFact
  <2>4. /\ kept[k].samples \subseteq {k} /\ kept[k].told \subseteq {k}
        /\ kept[k].stop = samplers[k].stop
    BY <2>3, SMTT(30) DEF Sampler
  <2>5. samplers[k].thread = "reading"
    BY <1>6 DEF Recorded
  <2> HIDE DEF kept
  <2>6. ASSUME NEW j \in Tries PROVE SamplersInv!(j)'
    <3>1. CASE j = k
      BY <2>1, <2>2, <2>3, <2>4, <2>5, <3>1 DEF Sampler
    <3>2. CASE j # k
      BY <2>1, <2>2, <2>3, <3>2 DEF Sampler
    <3> QED
      BY <3>1, <3>2
  <2> QED
    BY <2>6
<1>7. CASE PromptCompletes \/ PromptFails
  <2>1. /\ Current \in Tries /\ phase = "measuring"
        /\ samplers' = [samplers EXCEPT ![Current].stop = TRUE]
    BY <1>1, <1>7 DEF PromptCompletes, PromptFails
  <2>2. ASSUME NEW k \in Tries PROVE SamplersInv!(k)'
    BY <2>1 DEF Sampler
  <2> QED
    BY <2>2
<1>8. CASE StopSampler
  <2> DEFINE kept == Record(Current, Current)
  <2>1. Current \in Tries /\ phase # "measuring"
    BY <1>1, <1>8 DEF StopSampler
  <2>2. samplers' = [kept EXCEPT ![Current].told = kept[Current].samples,
                                 ![Current].thread = IF @ = "waiting" THEN "none" ELSE @]
    BY <1>8 DEF StopSampler
  <2>3. /\ kept \in [Tries -> Sampler]
        /\ \A j \in Tries : j # Current => kept[j] = samplers[j]
        /\ kept[Current] \in {samplers[Current],
                              [samplers[Current] EXCEPT !.samples = @ \cup {Current}]}
    BY <2>1, RecordFact
  <2>4. /\ kept[Current].samples \subseteq {Current}
        /\ kept[Current].stop = samplers[Current].stop
        /\ kept[Current].thread = samplers[Current].thread
        /\ kept[Current].reads = samplers[Current].reads
    BY <2>1, <2>3 DEF Sampler
  <2> HIDE DEF kept
  <2>5. ASSUME NEW k \in Tries PROVE SamplersInv!(k)'
    <3>1. CASE k = Current
      BY <2>1, <2>2, <2>3, <2>4, <3>1 DEF Sampler
    <3>2. CASE k # Current
      BY <2>1, <2>2, <2>3, <3>2 DEF Sampler
    <3> QED
      BY <3>1, <3>2
  <2> QED
    BY <2>5
<1>9. CASE UNCHANGED samplers /\ phase # "measuring"
  BY <1>9
<1>10. Next => \/ BeginRow \/ StartSampler \/ (\E k \in Tries : Reading(k) \/ Recorded(k))
               \/ PromptCompletes \/ PromptFails \/ StopSampler
               \/ UNCHANGED <<samplers, row, phase>>
               \/ UNCHANGED samplers /\ phase # "measuring"
  BY DEF Next, Harness, Preflight, StageExtension, StartHost, NotExecuted, StageFails,
         FinishRow, RowsDone, Terminate, Examine, RemoveRun, Report, HostExits, Mutate
<1> QED
  BY <1>2, <1>3, <1>4, <1>5, <1>6, <1>7, <1>8, <1>9, <1>10 DEF vars

LEMMA AnswersStep ==
    ASSUME HarnessInv, [Next]_vars PROVE AnswersInv'
<1> USE DEF HarnessInv, HarnessType, RowInv, AnswersInv, BeforeEnd, AtEnd, Prompting
<1>1. CASE NotExecuted \/ FinishRow
  <2>1. /\ todo # <<>> /\ todo' = Tail(todo) /\ phase' = phase /\ phase = "rows"
        /\ asked' = asked
    BY <1>1 DEF NotExecuted, FinishRow
  <2>2. DOMAIN results' = DOMAIN results \cup {Head(todo)}
    BY <1>1 DEF NotExecuted, FinishRow, Answer
  <2>3. Range(todo) = {Head(todo)} \cup Range(Tail(todo))
    BY <2>1, RangeFact
  <2> QED
    BY <2>1, <2>2, <2>3
<1>2. CASE RowsDone
  <2>1. Range(todo) = {}
    BY <1>2 DEF RowsDone, Range
  <2> QED
    BY <1>2, <2>1 DEF RowsDone
<1>3. CASE Preflight \/ StageExtension \/ StartHost \/ BeginRow \/ StageFails
  BY <1>3 DEF Preflight, StageExtension, StartHost, BeginRow, StageFails
<1>4. CASE StartSampler \/ PromptCompletes \/ PromptFails \/ StopSampler
  BY <1>4 DEF StartSampler, PromptCompletes, PromptFails, StopSampler
<1>5. CASE Terminate \/ Examine \/ RemoveRun \/ Report
  BY <1>5 DEF Terminate, Examine, RemoveRun, Report
<1>6. CASE HostExits \/ Mutate \/ (\E k \in Tries : Reading(k) \/ Recorded(k)) \/ UNCHANGED vars
  BY <1>6 DEF HostExits, Mutate, Reading, Recorded, vars
<1> QED
  BY <1>1, <1>2, <1>3, <1>4, <1>5, <1>6 DEF Next, Harness

LEMMA EndStep ==
    ASSUME HarnessInv, [Next]_vars PROVE EndInv' /\ RunDirOutlivesTrouble'
<1> USE DEF HarnessInv, HarnessType, RowInv, EndInv, RunDirOutlivesTrouble
<1>1. CASE Terminate
  <2>1. /\ phase = "stopping" /\ phase' = "port" /\ dir' = dir
        /\ closing'.termination = "graceful" => host'.process = "gone"
    <3>1. phase = "stopping" /\ phase' = "port" /\ dir' = dir
      BY <1>1 DEF Terminate
    <3>2. CASE host.process = "gone"
      <4>1. PICK code \in {"zero", "nonzero"} : host' = [host EXCEPT !.code = code]
        BY <1>1, <3>2 DEF Terminate
      <4> QED
        BY <3>1, <3>2, <4>1
    <3>3. CASE host.process # "gone"
      <4>1. CASE closing' = [termination |-> "failed"]
        BY <3>1, <4>1
      <4>2. CASE \E code : host' = [process |-> "gone", code |-> code]
        BY <3>1, <4>2
      <4>3. \/ closing' = [termination |-> "failed"]
            \/ \E code : host' = [process |-> "gone", code |-> code]
        BY <1>1, <3>3 DEF Terminate
      <4> QED
        BY <4>1, <4>2, <4>3
    <3> QED
      BY <3>2, <3>3
  <2> QED
    BY <2>1
<1>2. CASE Examine
  BY <1>2 DEF Examine
<1>3. CASE RemoveRun
  <2>1. CASE SafeRemove
    BY <1>3, <2>1 DEF RemoveRun, SafeRemove, CleanupStatus, AnswersInv, AtEnd
  <2>2. CASE ~SafeRemove
    BY <1>3, <2>2 DEF RemoveRun
  <2> QED
    BY <2>1, <2>2
<1>4. CASE Preflight \/ StageExtension \/ StartHost \/ NotExecuted \/ BeginRow \/ StageFails
  BY <1>4 DEF Preflight, StageExtension, StartHost, NotExecuted, BeginRow, StageFails
<1>5. CASE StartSampler \/ PromptCompletes \/ PromptFails \/ StopSampler \/ FinishRow \/ RowsDone
  BY <1>5 DEF StartSampler, PromptCompletes, PromptFails, StopSampler, FinishRow, RowsDone
<1>6. CASE Report \/ HostExits \/ Mutate
  BY <1>6 DEF Report, HostExits, Mutate
<1>7. CASE (\E k \in Tries : Reading(k) \/ Recorded(k)) \/ UNCHANGED vars
  <2>1. UNCHANGED <<asked, phase, results, failed, host, mutated, closing, dir>>
    BY <1>7 DEF Reading, Recorded, vars
  <2> QED
    BY <2>1
<1> QED
  BY <1>1, <1>2, <1>3, <1>4, <1>5, <1>6, <1>7 DEF Next, Harness

LEMMA ToldStep ==
    ASSUME HarnessInv, [Next]_vars PROVE RowTellsItsOwn'
<1> USE DEF HarnessInv, HarnessType
<1>1. asked' = asked
  BY DEF vars, Next, Harness, Preflight, StageExtension, StartHost, NotExecuted, BeginRow,
         StageFails, StartSampler, PromptCompletes, PromptFails, StopSampler, FinishRow,
         RowsDone, Terminate, Examine, RemoveRun, Report, Reading, Recorded, HostExits, Mutate
<1>2. CASE UNCHANGED results
  BY <1>1, <1>2 DEF RowTellsItsOwn, Disposition
<1>3. CASE NotExecuted
  BY <1>1, <1>3 DEF NotExecuted, Answer, RowTellsItsOwn, Disposition
<1>4. CASE FinishRow
  <2> DEFINE r == Head(todo)
             told == [status |-> "succeeded", trace |-> row'.ended,
                      first |-> NewOutputs(2), repeat |-> NewOutputs(3),
                      stable |-> NewOutputs(2) = NewOutputs(3),
                      memory |-> [k \in Tries |-> samplers[k].told]]
  <2>1. results' = [x \in DOMAIN results \cup {r} |-> IF x = r THEN told ELSE results[x]]
    BY <1>4 DEF FinishRow, Answer
  <2>2. Disposition(asked, r) = "accepted"
    BY <1>4 DEF FinishRow, RowInv
  <2>3. \A k \in Tries : samplers[k].told \subseteq {k}
    BY DEF SamplersInv
  <2>4. Len(seen) = 3 /\ Wrote(seen[1], seen[2]) /\ Wrote(seen[2], seen[3])
    BY <1>4 DEF FinishRow, SeenInv, Prompts
  <2>5. IsABag(seen[1]) /\ IsABag(seen[2])
    <3>1. seen \in Seq(FileBags) /\ 1 \in 1 .. Len(seen) /\ 2 \in 1 .. Len(seen)
      BY <2>4
    <3>2. seen[1] \in FileBags /\ seen[2] \in FileBags
      BY <3>1, ElementFact
    <3> QED
      BY <3>2, FileBagsFact
  <2>6. PICK first, repeat \in Outputs :
           NewOutputs(2) = SetToBag(first) /\ NewOutputs(3) = SetToBag(repeat)
    BY <2>4, <2>5, NewFilesFact DEF Wrote, NewOutputs
  <2>7. (NewOutputs(2) = NewOutputs(3)) <=> first = repeat
    BY <2>6, SetToBagFact
  <2> DEFINE Told(x) ==
        results'[x].status = "succeeded" =>
            /\ Disposition(asked', x) = "accepted"
            /\ \E f, g \in Outputs :
                  /\ results'[x].first = SetToBag(f) /\ results'[x].repeat = SetToBag(g)
                  /\ results'[x].stable <=> f = g
            /\ \A k \in Tries : results'[x].memory[k] \subseteq {k}
  <2>8. ASSUME NEW x \in DOMAIN results', x # r PROVE Told(x)
    BY <1>1, <2>1, <2>8 DEF RowTellsItsOwn, Disposition
  <2>9. results'[r] = told
    BY <2>1
  <2>10. Told(r)
    <3>1. Disposition(asked', r) = "accepted"
      BY <1>1, <2>2
    <3>2. /\ told.status = "succeeded" /\ told.first = SetToBag(first)
          /\ told.repeat = SetToBag(repeat)
      BY <2>6
    <3>3. told.stable <=> first = repeat
      BY <2>7
    <3>4. \A k \in Tries : told.memory[k] \subseteq {k}
      BY <2>3
    <3> HIDE DEF told
    <3> QED
      BY <2>9, <3>1, <3>2, <3>3, <3>4
  <2> QED
    <3>1. \A x \in DOMAIN results' : Told(x)
      BY <2>8, <2>10
    <3> HIDE DEF told, r
    <3> QED
      BY <3>1 DEF RowTellsItsOwn
<1>5. Next => UNCHANGED results \/ NotExecuted \/ FinishRow
  BY DEF Next, Harness, Preflight, StageExtension, StartHost, BeginRow, StageFails,
         StartSampler, PromptCompletes, PromptFails, StopSampler, RowsDone, Terminate,
         Examine, RemoveRun, Report, Reading, Recorded, HostExits, Mutate
<1> QED
  BY <1>2, <1>3, <1>4, <1>5 DEF vars

LEMMA HarnessKeeps == ASSUME HarnessInv, [Next]_vars PROVE HarnessInv'
  BY TypeStep, RowStep, SeenStep, SamplersStep, AnswersStep, EndStep, ToldStep DEF HarnessInv

LEMMA HarnessInvariant == Spec => []HarnessInv
  BY HarnessInit, HarnessKeeps, PTL DEF Spec

(* For every list of rows, however their prompts, the host and the tools   *)
(* end: the directory of a run is touched only when every row is answered, *)
(* none failed and the host is gone by itself (safe_remove).               *)
THEOREM RunDirsOutliveTrouble == Spec => []RunDirOutlivesTrouble
<1>1. HarnessInv => RunDirOutlivesTrouble
  BY DEF HarnessInv
<1> QED
  BY <1>1, HarnessInvariant, PTL

(* A row compares the files of its own second and third prompt, whatever   *)
(* files there are, and tells each prompt's own memory                     *)
(* (_new_output_fingerprints, _GpuMemorySampler.stop).                     *)
THEOREM RowsTellTheirOwn == Spec => []RowTellsItsOwn
<1>1. HarnessInv => RowTellsItsOwn
  BY DEF HarnessInv
<1> QED
  BY <1>1, HarnessInvariant, PTL

-----------------------------------------------------------------------------
(* The refinement, for the harness: whatever the run does, its row sees    *)
(* one of the steps of H4Row or none.                                      *)

LEMMA HarnessRowInit == Init => Row!Init
  BY DEF Init, Idle, Row!Init

LEMMA HarnessRowStep ==
    ASSUME HarnessInv, [Next]_vars PROVE [Row!Next]_(Row!vars)
<1> USE DEF HarnessInv, HarnessType, RowInv, Row!Next, Row!vars, Prompting, Prompts
<1>1. CASE StopSampler
  <2>1. row.ended = "no" /\ row.done < Prompts
    BY <1>1 DEF StopSampler
  <2>2. CASE phase = "submitted"
    BY <1>1, <2>1, <2>2 DEF StopSampler, Row!Complete
  <2>3. CASE phase = "joining"
    BY <1>1, <2>1, <2>3 DEF StopSampler, FailedRow, Row!Fail
  <2> QED
    BY <1>1, <2>2, <2>3 DEF StopSampler
<1>2. CASE FinishRow
  BY <1>2 DEF FinishRow, Row!Read, Row!Ends
<1>3. CASE BeginRow
  BY <1>3 DEF BeginRow, Row!NextRow
<1>4. CASE UNCHANGED row
  BY <1>4
<1>5. Next => StopSampler \/ FinishRow \/ BeginRow \/ UNCHANGED row
  BY DEF Next, Harness, Preflight, StageExtension, StartHost, NotExecuted, StageFails,
         StartSampler, PromptCompletes, PromptFails, RowsDone, Terminate, Examine,
         RemoveRun, Report, Reading, Recorded, HostExits, Mutate
<1> QED
  BY <1>1, <1>2, <1>3, <1>4, <1>5 DEF vars

(* The harness runs its rows as H4Row says, which also the observer inside *)
(* its host keeps (_run_rows); that a row ends stays with the runs.        *)
THEOREM HarnessImplementsRow == Spec => Row!Spec
  BY HarnessRowInit, HarnessRowStep, HarnessInvariant, PTL DEF Spec, Row!Spec
=============================================================================

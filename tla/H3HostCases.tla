------------------------------ MODULE H3HostCases ------------------------------
(***************************************************************************)
(* The MiniMax H3 cases of scripts/run_comfyui_e2e.py: what the lane asks  *)
(* of the node in a running host, what the test nodes in                   *)
(* tests/fixtures/comfyui_h3_nodes answer, and what the lane verifies in   *)
(* the history afterwards.                                                 *)
(*                                                                         *)
(* The node is H3Delegation's, on a model from a source that loads no      *)
(* weights.  That the host keeps the submitted graph, and the repetition   *)
(* of each case, are HostLane's.                                           *)
(***************************************************************************)
EXTENDS H3Delegation, FiniteSets

CONSTANT CaseAnswers    \* what the host's schedulers answer, by step count

VARIABLE attempt        \* the case under way

NoSource == [h3 |-> FALSE, shift |-> Unmarked]
Source(shift) == [h3 |-> TRUE, shift |-> shift]
OtherSource(shift) == [h3 |-> FALSE, shift |-> shift]   \* of another family
Tasks == {"fl2va", "ref2va"}
MatrixSteps == {2, 4, 8, 20}
WholeRange == <<0, -1>>

(* An answer is none of NoSchedule; a tensor of type float32 holds float32 *)
(* values; and float32 tells enough points of the endpoint schedule apart  *)
(* for the range 1 .. 4 of its eight steps that the lane asks for.         *)
ASSUME CasesAssumption ==
    /\ \A n \in MatrixSteps : \A a \in CaseAnswers[n] :
          /\ a # NoSchedule
          /\ a.dtype = "float32" /\ a.values \in Seq(Sigma) => Host(a.values) = a.values
    /\ AvailableSteps(NoRecipe, 8) >= 4

-----------------------------------------------------------------------------
(* The cases                                                               *)

NativeCase(lane, task, recipe, scheduler, steps, window, source, expected) ==
    [lane |-> lane, task |-> task, recipe |-> recipe, scheduler |-> scheduler,
     steps |-> steps, window |-> window, source |-> source, expected |-> expected]

(* build_minimax_h3_h2_api_prompt: the node alone                          *)
EndpointCases ==
    {NativeCase("endpoint", task, NoRecipe, "h3_endpoint", 20, WholeRange, NoSource, NoReason) :
        task \in Tasks}

(* build_minimax_h3_native_h2_api_prompt                                   *)
SimpleCases ==
    {NativeCase("simple", task, NoRecipe, "simple", 4, WholeRange,
                Source(BaseShift), NoReason) : task \in Tasks}

TurboRow(task, recipe, steps, video) ==
    [task |-> task, recipe |-> recipe, steps |-> steps,
     shift |-> [video |-> video, audio |-> 3]]

TurboRowsUnderOneShift ==           \* mutant: the recipe for 768p under the shift of the others
    {TurboRow("fl2va", "fl2va-4-v0.1", 4, 12), TurboRow("fl2va", "fl2va-8-v1.0", 8, 12),
     TurboRow("fl2va", "fl2va-4-768p", 4, 12), TurboRow("ref2va", "ref2va-4-v0.1", 4, 12)}

(* _MINIMAX_H3_M7_15_TURBO_CASES: written down here a second time          *)
TurboRows ==
    {TurboRow("fl2va", "fl2va-4-v0.1", 4, 12), TurboRow("fl2va", "fl2va-8-v1.0", 8, 12),
     TurboRow("fl2va", "fl2va-4-768p", 4, 6), TurboRow("ref2va", "ref2va-4-v0.1", 4, 12)}

(* build_minimax_h3_m7_15_cases                                            *)
MatrixCases ==
    {NativeCase("base_full", task, NoRecipe, s, n, WholeRange, Source(BaseShift),
                NoReason) : task \in Tasks, s \in NativeSchedulers, n \in MatrixSteps}
    \cup {NativeCase("base_slice", task, NoRecipe, s, 8, <<1, 4>>, Source(BaseShift),
                     NoReason) : task \in Tasks, s \in NativeSchedulers}
    \cup {NativeCase("turbo_full", r.task, r.recipe, s, r.steps, WholeRange,
                     Source(r.shift), NoReason) :
             r \in TurboRows, s \in NativeSchedulers}

(* MiniMaxH3NativeMatrixCase.validate                                      *)
ValidCase(c) ==
    /\ c.task \in Tasks /\ c.scheduler \in NativeSchedulers
    /\ FiniteShift(c.source.shift.video) /\ FiniteShift(c.source.shift.audio)
    /\ CASE c.lane = "base_full" ->
              c.recipe = NoRecipe /\ c.steps \in MatrixSteps /\ c.window = WholeRange
              /\ c.source.shift = BaseShift
         [] c.lane = "base_slice" ->
              c.recipe = NoRecipe /\ c.steps = 8 /\ c.window = <<1, 4>>
              /\ c.source.shift = BaseShift
         [] c.lane = "turbo_full" ->
              /\ [task |-> c.task, recipe |-> c.recipe, steps |-> c.steps,
                  shift |-> c.source.shift] \in TurboRows
              /\ c.window = WholeRange

ASSUME MatrixAssumption == Cardinality(MatrixCases) = 126 /\ \A c \in MatrixCases : ValidCase(c)

(* build_minimax_h3_native_matrix_rejection_prompt and                     *)
(* _MINIMAX_H3_M7_15_REJECTION_REASONS                                     *)
RejectionCases ==
    {NativeCase("rejection", "fl2va", r[1], "simple", 4, WholeRange, r[2], r[3]) :
        r \in {<<NoRecipe, NoSource, "MODEL_REQUIRED">>,
               <<NoRecipe, OtherSource(BaseShift), "MODEL_FAMILY_MISMATCH">>,
               <<NoRecipe, Source([BaseShift EXCEPT !.video = 6]), "SHIFT_MISMATCH">>,
               <<"fl2va-4-768p", Source(BaseShift), "SHIFT_MISMATCH">>}}

HostCases == EndpointCases \cup SimpleCases \cup MatrixCases \cup RejectionCases

-----------------------------------------------------------------------------
(* What happens in the host                                                *)

(* _SyntheticMiniMaxH3Model: both the markers and the sampling object      *)
SourceModel(source) ==
    LET sampling == IF host.version = "0.30.0" THEN "flow" ELSE "av"
    IN [h3 |-> source.h3, sampling |-> sampling, marked |-> source.shift, patches |-> 0,
        shift |-> [source.shift EXCEPT !.audio = IF sampling = "av" THEN @ ELSE 0]]

(* build_minimax_h3_native_schedule, _model_sampling and                   *)
(* qualify_minimax_h3_scheduler_request: the first thing that is wrong     *)
NativeRefusal(c, m) ==
    IF host.version \notin Pinned THEN "UNSUPPORTED_HOST"
    ELSE LET api == HostSampling[host.version]
             evidence == Evidence(m, c.task, api)
         IN IF m.sampling # api THEN "MODEL_SAMPLING_NOT_AV"
            ELSE IF ~m.h3 THEN "MODEL_FAMILY_MISMATCH"
            ELSE IF ~SamplingAccepted(m, api) THEN "SHIFT_MISMATCH"
            ELSE IF c.steps < Contract[c.scheduler].minimum THEN "INVALID_STEPS"
            ELSE IF c.recipe # NoRecipe /\ c.steps \notin H3Recipe[c.recipe].nfe
                 THEN "UNSUPPORTED_RECIPE_NFE"
            ELSE IF Contract[c.scheduler].handler \notin HandlerNames THEN "MISSING_HANDLER"
            ELSE IF ~RecipeFits(c.recipe, evidence.task) THEN "MODEL_TASK_MISMATCH"
            ELSE IF evidence.shift # ShiftOf(c.recipe) THEN "SHIFT_MISMATCH"
            ELSE NoReason

(* MiniMaxH3SigmaScheduler.build: the own schedule comes first.            *)
Refusal(c) ==
    IF ~CanBuildOwn(c.task, c.recipe, c.steps, c.window) THEN "BUILD"
    ELSE IF c.source = NoSource THEN "MODEL_REQUIRED" ELSE NativeRefusal(c, model)

(* The slice of the tail of what the host answered                         *)
Reference(c, answer) ==
    LET basic == BasicTail(answer.values, c.steps)
    IN SliceStepRange(basic, c.window[1], EndStep(c.window[2], Steps(basic)))

(* MiniMaxH3NativeScheduleProbe.execute: it asks the host once more.       *)
ProbeAccepts(c, answer, result) ==
    /\ answer.dtype = "float32"
    /\ SliceBounds(c.window[1], c.window[2], Steps(BasicTail(answer.values, c.steps)))
    /\ result.values = Reference(c, answer)
    /\ result.info.lane = "native" /\ result.info.recipe = c.recipe
    /\ result.info.task = c.task /\ result.info.requested = c.steps
    /\ result.info.shift = c.source.shift

SubmitCase(c) ==
    /\ attempt = NoSchedule
    /\ attempt' = [case |-> c, answer |-> NoSchedule, state |-> "queued",
                   reason |-> NoReason, verdict |-> NoReason]
    /\ model' = IF c.source = NoSource THEN model ELSE SourceModel(c.source)
    /\ schedule' = NoSchedule
    /\ UNCHANGED host

Ended(state, reason, answer) ==
    attempt' = [attempt EXCEPT !.state = state, !.reason = reason, !.answer = answer]

(* MiniMaxH3ScheduleProbe only writes down what it got.                    *)
RunEndpoint(c) ==
    /\ c.lane = "endpoint"
    /\ schedule' = BoundDelegation(Own(c.task, c.recipe, c.steps, c.window))
    /\ Ended("success", NoReason, NoSchedule)

RunRefused(c) ==
    /\ c.lane # "endpoint" /\ Refusal(c) # NoReason
    /\ Ended("error", Refusal(c), NoSchedule)
    /\ UNCHANGED schedule

RunUnusable(c, answer) ==
    /\ ~AnswerUsable(c.task, c.recipe, c.steps, c.window, c.scheduler, answer)
    /\ Ended("error", "RESULT", answer)
    /\ UNCHANGED schedule

(* MiniMaxH3NativeUnexpectedSuccessProbe ends a rejection that is none.    *)
RunDelivered(c, answer) ==
    /\ AnswerUsable(c.task, c.recipe, c.steps, c.window, c.scheduler, answer)
    /\ LET result == BoundDelegation(NativeOutcome(c.task, c.recipe, c.steps, c.window,
                                                   c.scheduler, answer))
       IN /\ schedule' = result
          /\ IF c.lane # "rejection" /\ ProbeAccepts(c, answer, result)
             THEN Ended("success", NoReason, answer)
             ELSE Ended("error", "PROBE", answer)

RunCase ==
    /\ attempt # NoSchedule /\ attempt.state = "queued"
    /\ LET c == attempt.case
       IN \/ RunEndpoint(c)
          \/ RunRefused(c)
          \/ /\ c.lane # "endpoint" /\ Refusal(c) = NoReason
             /\ \E answer \in CaseAnswers[c.steps] :
                   RunUnusable(c, answer) \/ RunDelivered(c, answer)
    /\ UNCHANGED <<host, model>>

-----------------------------------------------------------------------------
(* What the lane makes of the history                                      *)

(* verify_minimax_h3_h2_history: what the node built here again, unbound   *)
EndpointVerified(c) ==
    /\ attempt.state = "success"
    /\ schedule.values = Own(c.task, c.recipe, c.steps, c.window).values
    /\ schedule.info = Own(c.task, c.recipe, c.steps, c.window).info

(* verify_minimax_h3_native_h2_history                                     *)
SimpleVerified(c) ==
    /\ attempt.state = "success"
    /\ Len(schedule.values) = 5 /\ schedule.values[5] = 0
    /\ schedule.values = Reference(c, attempt.answer)
    /\ schedule.info.task = c.task /\ schedule.info.requested = 4
    /\ host.version \in Pinned

(* verify_minimax_h3_native_matrix_h2_history                              *)
MatrixVerified(c) ==
    /\ attempt.state = "success"
    /\ LET raw == attempt.answer.values
           basic == BasicTail(raw, c.steps)
       IN /\ Len(raw) >= 2 /\ Len(schedule.values) >= 2
          /\ \A i \in 1 .. Len(raw) - 1 : raw[i] >= raw[i + 1]
          /\ schedule.values = Reference(c, attempt.answer)
          /\ schedule.info.start = c.window[1]
          /\ schedule.info.end = EndStep(c.window[2], Steps(basic))
    /\ attempt.answer.dtype = "float32"
    /\ schedule.info.lane = "native" /\ schedule.info.recipe = c.recipe
    /\ schedule.info.task = c.task /\ schedule.info.requested = c.steps
    /\ schedule.info.shift = c.source.shift
    /\ host.version \in Pinned

(* verify_minimax_h3_native_matrix_rejection_history                       *)
RejectionVerified(c) == attempt.state = "error" /\ attempt.reason = c.expected

CaseVerified(c) ==
    CASE c.lane = "endpoint" -> EndpointVerified(c)
      [] c.lane = "simple" -> SimpleVerified(c)
      [] c.lane = "rejection" -> RejectionVerified(c)
      [] OTHER -> MatrixVerified(c)

VerifyCase ==
    /\ attempt # NoSchedule /\ attempt.state \in {"success", "error"}
    /\ attempt.verdict = NoReason
    /\ attempt' = [attempt EXCEPT !.verdict = IF CaseVerified(attempt.case) THEN "verified"
                                              ELSE "drifted"]
    /\ UNCHANGED delegation

(* After a verified case the lane goes on with the next one; a drift ends  *)
(* it, until somebody starts it again.                                     *)
NextCase ==
    /\ attempt # NoSchedule /\ attempt.verdict # NoReason
    /\ attempt' = NoSchedule /\ schedule' = NoSchedule
    /\ UNCHANGED <<host, model>>

CasesInit == attempt = NoSchedule

CasesNext ==
    \/ \E c \in HostCases : SubmitCase(c)
    \/ RunCase
    \/ VerifyCase
    \/ NextCase

cases == <<delegation, attempt>>

CasesSpec == DelegationInit /\ CasesInit /\ [][CasesNext]_cases

-----------------------------------------------------------------------------
(* A host in which nothing stands in the way, and an answer without flaw   *)
Ready == host.version \in Pinned /\ NativeSchedulers \subseteq host.handlers

CompleteAnswer(answer, steps) ==
    /\ answer.dtype = "float32"
    /\ ValidFor(answer.values, steps, TRUE)

(* The lane's verdict is about the node.  A verified case delivered the    *)
(* host's own values, under the shift of its recipe and of the model.  A   *)
(* verified rejection delivered nothing, and what was wrong is the thing   *)
(* the case is named for: on a host that is ready the same graph with the  *)
(* right model is accepted.  And no case is lost to the way it is written: *)
(* on such a host, unless the host's answer has a flaw, each is verified    *)
(* (build_minimax_h3_m7_15_cases repeats the tables of the profiles; the   *)
(* verify functions repeat the node's guards).                             *)
VerdictsFollowNode ==
    attempt # NoSchedule /\ attempt.verdict # NoReason =>
        LET c == attempt.case
            verified == attempt.verdict = "verified"
            mended == SourceModel(Source(ShiftOf(c.recipe)))
        IN /\ verified /\ c.lane \notin {"endpoint", "rejection"} =>
                 /\ Admits(c.task, c.recipe, c.steps, c.scheduler)
                 /\ schedule.values = Reference(c, attempt.answer)
                 /\ schedule.info.shift = ShiftOf(c.recipe)
                 /\ model.shift.video = ShiftOf(c.recipe).video
           /\ verified /\ c.lane = "rejection" =>
                 /\ schedule = NoSchedule
                 /\ Ready => NativeRefusal(c, mended) = NoReason
           /\ Ready /\ (attempt.answer # NoSchedule =>
                           CompleteAnswer(attempt.answer, c.steps)) => verified
=============================================================================

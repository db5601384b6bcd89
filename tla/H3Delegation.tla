----------------------------- MODULE H3Delegation -----------------------------
(***************************************************************************)
(* The MiniMax H3 node with a scheduler of the host:                       *)
(* nodes/minimax_h3_sigma_scheduler.py, adapters/minimax_h3_scheduler.py   *)
(* and profiles/minimax_h3_scheduler_contract.py.  The node first builds   *)
(* the schedule it would deliver itself, then asks the host for another    *)
(* one and puts that into the info of the first.                           *)
(*                                                                         *)
(* The host's schedule is made under the shift the model carries.  That    *)
(* shift is what patch nodes of the host and of other packs left: it is in *)
(* the sampling object, and beside it in two markers from which the model  *)
(* derives the audio.  Nothing forces them to agree.                       *)
(*                                                                         *)
(* A marker that is not there is 0.  The info of a delivered schedule      *)
(* names the values it is bound to where the code writes a fingerprint.    *)
(***************************************************************************)
EXTENDS H3Tables, ScheduleOps

CONSTANTS
    HostVersions,   \* the versions of ComfyUI it is installed in
    Handlers,       \* what a host's scheduler table may hold
    VideoShifts, AudioShifts,   \* what patch nodes set
    H3Steps,        \* the steps asked for
    H3Slices,       \* the pairs start_step, end_step asked for
    Selectors,      \* the pairs turbo, recipe_id asked for
    HostResults,    \* what a host's scheduler may answer, of type ..
    MaxPatches,     \* bound on the patch nodes before the scheduler
    NoSchedule

(* The combos of the node offer nothing else.                              *)
ASSUME SelectorsAssumption ==
    Selectors \subseteq (Recipes \cup {NoRecipe}) \X (Recipes \cup {NoRecipe})

ASSUME DelegationAssumption ==
    /\ Handlers \subseteq SUBSET (NativeSchedulers \cup {"other"})
    /\ \A r \in HostResults : r.dtype \in {"float16", "float32"} /\ r.values \in Seq(Int)

VARIABLES
    host,       \* its version and its scheduler table
    model,      \* what the MODEL link carries
    schedule    \* what the node delivered

delegation == <<host, model, schedule>>

MaxH3Steps == 9999                    \* MINIMAX_H3_MAX_STEPS

-----------------------------------------------------------------------------
(* The recipe                                                              *)

(* _turbo_profile                                                          *)
RecipeFits(recipe, task) == recipe # NoRecipe => Profile[recipe].task = task

(* _resolve_turbo_profile: the selector and its legacy alias may both be   *)
(* set if they say the same.                                               *)
SelectorsAgree(w) == w[1] = w[2] \/ NoRecipe \in {w[1], w[2]}
SelectedRecipe(w) == IF w[1] # NoRecipe THEN w[1] ELSE w[2]

ShiftOf(recipe) == IF recipe = NoRecipe THEN BaseShift ELSE Profile[recipe].shift

(* _unique_consecutive                                                     *)
UniqueConsecutive(values) ==
    LET kept[n \in 0 .. Len(values) - 1] ==
            IF n = 0 THEN <<values[1]>>
            ELSE LET result == kept[n - 1]
                 IN IF values[n + 1] = result[Len(result)] THEN result
                    ELSE Append(result, values[n + 1])
    IN kept[Len(values) - 1]

(* build_minimax_h3_schedule: a grid that ends in zero, in the precision   *)
(* of the host, where neighbours may meet                                  *)
EndpointSchedule(points) ==
    UniqueConsecutive(Host(Shift(Host(LinearGrid(points, One, 0)), BaseShift.video)))

(* build_minimax_h3_turbo_schedule, _direct_ratio_vector: the precision of *)
(* Python, which the values leave when they are bound                      *)
CompleteSchedule(recipe, steps) ==
    IF recipe = NoRecipe THEN EndpointSchedule(steps + 1)
    ELSE WithTerminal(Shift(ReciprocalGrid(steps), ShiftOf(recipe).video), "append_zero")

(* The steps of the constructed schedule                                   *)
AvailableSteps(recipe, steps) == Steps(CompleteSchedule(recipe, steps))

(* MiniMaxH3TurboPublicReceiptV1, as the node writes it                    *)
NodeReceipt(recipe, steps, values) ==
    IF recipe = NoRecipe THEN NoSchedule
    ELSE [recipe |-> recipe, task |-> Profile[recipe].task, nfe |-> steps,
          shift |-> Profile[recipe].shift, schedule |-> values]

-----------------------------------------------------------------------------
(* What the node builds itself                                             *)

(* build_minimax_h3_sigma_schedule: the guards up to the built schedule    *)
CanBuildOwn(task, recipe, steps, w) ==
    /\ steps \in 1 .. MaxH3Steps
    /\ RecipeFits(recipe, task)
    /\ recipe # NoRecipe => steps \in Profile[recipe].nfe
    /\ SliceBounds(w[1], w[2], AvailableSteps(recipe, steps))

(* _build_turbo_schedule, _build_base_schedule                             *)
Own(task, recipe, steps, w) ==
    LET complete == CompleteSchedule(recipe, steps)
        end == EndStep(w[2], Steps(complete))
        output == SliceStepRange(complete, w[1], end)
    IN [values |-> output,
        info |-> [lane |-> "endpoint", task |-> task, recipe |-> recipe, requested |-> steps,
                  effective |-> Steps(complete), shift |-> ShiftOf(recipe),
                  available |-> Steps(complete), start |-> w[1], end |-> end,
                  steps |-> Steps(output), complete |-> complete, output |-> output,
                  native |-> NoSchedule, receipt |-> NodeReceipt(recipe, steps, output)]]

-----------------------------------------------------------------------------
(* What the adapter finds out about the model                              *)

(* _finite_shift                                                           *)
FiniteShift(value) == value > 0

SamplingUnmarked(m, api) ==         \* mutant: the markers are taken as they are
    /\ m.sampling = api
    /\ m.h3
    /\ FiniteShift(m.shift.video)
    /\ IF api = "flow" THEN FiniteShift(m.marked.audio) ELSE FiniteShift(m.shift.audio)

(* _model_sampling: the markers are checked against the sampling object,   *)
(* except for the audio of a host that has no other source for it.         *)
SamplingAccepted(m, api) ==
    /\ m.sampling = api
    /\ m.h3
    /\ FiniteShift(m.shift.video)
    /\ (m.marked.video = 0) = (m.marked.audio = 0)
    /\ IF api = "flow"
       THEN /\ FiniteShift(m.marked.video) /\ FiniteShift(m.marked.audio)
            /\ m.marked.video = m.shift.video
       ELSE /\ FiniteShift(m.shift.audio)
            /\ m.marked.video # 0 => m.marked = m.shift

(* _model_sampling: MiniMaxH3ModelSamplingEvidence                         *)
Evidence(m, task, api) ==
    [task |-> task, api |-> api, shifted |-> TRUE,
     shift |-> [video |-> m.shift.video,
                audio |-> IF api = "flow" THEN m.marked.audio ELSE m.shift.audio]]

(* _handler_names                                                          *)
HandlerNames == host.handlers \cap NativeSchedulers

-----------------------------------------------------------------------------
(* The contract                                                            *)

(* qualify_minimax_h3_scheduler_request; the contract allows every step of *)
(* a recipe, the profile not.                                              *)
Qualifies(scheduler, steps, evidence, recipe, api) ==
    /\ steps \in Contract[scheduler].minimum .. MaxH3Steps
    /\ recipe # NoRecipe => steps \in H3Recipe[recipe].nfe
    /\ Contract[scheduler].handler \in HandlerNames
    /\ recipe # NoRecipe => evidence.task = H3Recipe[recipe].task
    /\ evidence.api = api
    /\ evidence.shifted
    /\ evidence.shift = IF recipe = NoRecipe THEN BaseShift ELSE H3Recipe[recipe].shift

(* MiniMaxH3QualifiedSchedulerRequest                                      *)
Qualified(scheduler, steps, evidence, recipe) ==
    [scheduler |-> scheduler, steps |-> steps, owner |-> Contract[scheduler].owner,
     handler |-> Contract[scheduler].handler, reshift |-> FALSE,
     shift |-> IF recipe = NoRecipe THEN BaseShift ELSE H3Recipe[recipe].shift,
     recipe |-> recipe, task |-> evidence.task, api |-> evidence.api,
     version |-> host.version]

(* _validate_qualification: the request is judged once more by the tables  *)
ValidQualification(q) ==
    /\ q.steps \in Contract[q.scheduler].minimum .. MaxH3Steps
    /\ q.owner = Contract[q.scheduler].owner
    /\ q.handler = Contract[q.scheduler].handler
    /\ q.reshift = Contract[q.scheduler].reshift
    /\ IF q.recipe = NoRecipe THEN q.shift = BaseShift
       ELSE /\ q.steps \in H3Recipe[q.recipe].nfe /\ q.shift = H3Recipe[q.recipe].shift
            /\ q.task = H3Recipe[q.recipe].task
    /\ q.version \in Pinned /\ q.api = HostSampling[q.version]

(* _validate_raw_sigmas: neighbours may be equal                           *)
ValidRaw(values) ==
    /\ Len(values) >= 2
    /\ \A i \in DOMAIN values : values[i] \in Sigma
    /\ \A i \in 1 .. Len(values) - 1 : values[i] >= values[i + 1]
    /\ values[Len(values)] = 0

(* BasicScheduler keeps the last steps + 1 values of what its handler made *)
BasicTail(values, steps) ==
    IF Len(values) <= steps + 1 THEN values
    ELSE SubSeq(values, Len(values) - steps, Len(values))

(* validate_minimax_h3_scheduler_result, _slice_result                     *)
ResultAccepted(q, result, w) ==
    /\ ValidQualification(q)
    /\ result.dtype \in Contract[q.scheduler].dtypes
    /\ ValidRaw(result.values)
    /\ SliceBounds(w[1], w[2], Steps(BasicTail(result.values, q.steps)))

(* MiniMaxH3SchedulerResultValidation and its _schedule_fingerprint        *)
Validation(q, result, w) ==
    LET basic == BasicTail(result.values, q.steps)
        end == EndStep(w[2], Steps(basic))
        output == SliceStepRange(basic, w[1], end)
    IN [basic |-> basic, output |-> output, start |-> w[1], end |-> end,
        fingerprint |-> <<q, result.values, basic, output, w[1], end>>]

NativeResultSameEnd(own, v) ==      \* mutant: the slicing stays the own one
    [values |-> v.output,
     info |-> [own.info EXCEPT !.lane = "native", !.native = v.fingerprint,
                               !.effective = Steps(v.output),
                               !.complete = v.basic, !.output = v.output]]

(* _native_node_result: what the host answered is put into the info of the *)
(* own schedule; the receipt and the requested counts stay.                *)
NativeResult(own, v) ==
    [values |-> v.output,
     info |-> [own.info EXCEPT !.lane = "native", !.native = v.fingerprint,
                               !.effective = Steps(v.output),
                               !.available = Steps(v.basic), !.start = v.start,
                               !.end = v.end, !.steps = Steps(v.output),
                               !.complete = v.basic, !.output = v.output]]

(* bind_minimax_h3_sigma_output_info: here neighbours must differ          *)
BoundDelegation(result) ==
    [result EXCEPT !.values = Host(@), !.info.output = Host(result.values),
                   !.info.receipt = IF @ = NoSchedule THEN @
                                    ELSE [@ EXCEPT !.schedule = Host(result.values)]]

Bindable(result) == ValidSchedule(Host(result.values))

-----------------------------------------------------------------------------
(* The steps                                                               *)

Unmarked == [video |-> 0, audio |-> 0]

(* The host's loader: some model with a sampling this host has             *)
LoadedModels ==
    {[h3 |-> h3, sampling |-> s, marked |-> Unmarked, patches |-> 0,
      shift |-> [video |-> 12, audio |-> IF s = "av" THEN 3 ELSE 0]] :
        h3 \in BOOLEAN, s \in IF host.version = "0.30.0" THEN {"flow"} ELSE {"flow", "av"}}

DelegationInit ==
    /\ host \in [version : HostVersions, handlers : Handlers]
    /\ model \in LoadedModels
    /\ schedule = NoSchedule

Patched(m) ==
    /\ schedule = NoSchedule /\ model.patches < MaxPatches  \* bound
    /\ model' = [m EXCEPT !.patches = @ + 1]
    /\ UNCHANGED <<host, schedule>>

(* The host's H3 node sets the shifts and marks them.                      *)
PatchH3(video, audio) ==
    LET shift == [video |-> video, audio |-> audio]
    IN Patched([model EXCEPT !.marked = shift,
                             !.shift = IF model.sampling = "av" THEN shift
                                       ELSE [shift EXCEPT !.audio = 0]])

(* Any other sampling node replaces the sampling object and knows nothing  *)
(* of markers.                                                             *)
PatchSampling(video) ==
    Patched([model EXCEPT !.sampling = "flow", !.shift = [video |-> video, audio |-> 0]])

(* A node of another pack sets the shifts, or a marker, and not the rest.  *)
PatchShifts(video, audio) ==
    /\ model.sampling = "av"
    /\ Patched([model EXCEPT !.shift = [video |-> video, audio |-> audio]])

PatchMarker(video) == Patched([model EXCEPT !.marked.video = video])

(* MiniMaxH3SigmaScheduler.build with h3_endpoint: a model is refused.     *)
BuildOwn ==
    \E task \in {"fl2va", "ref2va"}, sel \in Selectors, n \in H3Steps, w \in H3Slices :
        /\ SelectorsAgree(sel)
        /\ CanBuildOwn(task, SelectedRecipe(sel), n, w)
        /\ LET own == Own(task, SelectedRecipe(sel), n, w)
           IN /\ Bindable(own)
              /\ schedule' = BoundDelegation(own)

(* build_minimax_h3_native_schedule: the guards up to the call of the host *)
Admits(task, recipe, n, scheduler) ==
    /\ host.version \in Pinned
    /\ LET api == HostSampling[host.version]
       IN /\ SamplingAccepted(model, api)
          /\ Qualifies(scheduler, n, Evidence(model, task, api), recipe, api)

QualifiedHere(task, recipe, n, scheduler) ==
    Qualified(scheduler, n, Evidence(model, task, HostSampling[host.version]), recipe)

(* build_minimax_h3_native_schedule, from the host's answer to the result  *)
NativeOutcome(task, recipe, n, w, scheduler, answer) ==
    NativeResult(Own(task, recipe, n, w),
                 Validation(QualifiedHere(task, recipe, n, scheduler), answer, w))

AnswerUsable(task, recipe, n, w, scheduler, answer) ==
    /\ ResultAccepted(QualifiedHere(task, recipe, n, scheduler), answer, w)
    /\ Bindable(NativeOutcome(task, recipe, n, w, scheduler, answer))

Delegated(task, recipe, n, w, scheduler) ==
    /\ Admits(task, recipe, n, scheduler)
    /\ \E answer \in HostResults :
          /\ AnswerUsable(task, recipe, n, w, scheduler, answer)
          /\ schedule' = BoundDelegation(NativeOutcome(task, recipe, n, w, scheduler, answer))

(* MiniMaxH3SigmaScheduler.build with a scheduler of the host              *)
BuildNative ==
    \E task \in {"fl2va", "ref2va"}, sel \in Selectors, n \in H3Steps, w \in H3Slices,
       scheduler \in NativeSchedulers :
        /\ SelectorsAgree(sel)
        /\ CanBuildOwn(task, SelectedRecipe(sel), n, w)
        /\ Delegated(task, SelectedRecipe(sel), n, w, scheduler)

(* The next prompt starts from the loader.                                 *)
NextPrompt ==
    /\ schedule # NoSchedule
    /\ schedule' = NoSchedule
    /\ model' \in LoadedModels
    /\ UNCHANGED host

DelegationNext ==
    \/ \E v \in VideoShifts, a \in AudioShifts : PatchH3(v, a) \/ PatchShifts(v, a)
    \/ \E v \in VideoShifts : PatchSampling(v) \/ PatchMarker(v)
    \/ schedule = NoSchedule /\ (BuildOwn \/ BuildNative) /\ UNCHANGED <<host, model>>
    \/ NextPrompt

DelegationSpec == DelegationInit /\ [][DelegationNext]_delegation

-----------------------------------------------------------------------------
(* A schedule made by the host is made under one shift: the one its info   *)
(* names, the one in the sampling object the host computed with, and the   *)
(* one the model derives its audio from.  A model whose patches disagree   *)
(* is refused (_model_sampling, qualify_minimax_h3_scheduler_request).     *)
DelegatedUnderOneShift ==
    schedule # NoSchedule /\ schedule.info.lane = "native" =>
        /\ schedule.info.shift.video = model.shift.video
        /\ model.marked.video # 0 => model.marked = schedule.info.shift
        /\ model.sampling = "av" => schedule.info.shift.audio = model.shift.audio
        /\ schedule.info.recipe # NoRecipe =>
              schedule.info.requested \in Profile[schedule.info.recipe].nfe

(* Whoever made the schedule, its info describes the values that left the  *)
(* node: the range is the range of the named complete schedule, the counts *)
(* fit, and the receipt inside names these values and this recipe          *)
(* (_native_node_result writes into the info of another schedule,          *)
(* bind_minimax_h3_sigma_output_info rebinds it).                          *)
DelegatedInfoIsTrue ==
    schedule # NoSchedule =>
        LET info == schedule.info
        IN /\ info.output = schedule.values
           /\ info.steps = Steps(schedule.values) /\ info.available = Steps(info.complete)
           /\ info.end \in info.start + 1 .. info.available
           /\ schedule.values = Host(SliceStepRange(info.complete, info.start, info.end))
           /\ info.end = info.available => schedule.values[Len(schedule.values)] = 0
           /\ info.receipt # NoSchedule =>
                 /\ info.receipt.schedule = schedule.values
                 /\ info.receipt.recipe = info.recipe /\ info.receipt.task = info.task
=============================================================================

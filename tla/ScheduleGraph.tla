---------------------------- MODULE ScheduleGraph ----------------------------
(***************************************************************************)
(* The nodes that make, modify and check schedules in a ComfyUI graph.     *)
(*                                                                         *)
(* Each of them has two outputs: a SIGMAS tensor, which holds float32      *)
(* values, and a schedule_info string, which names the schedule by         *)
(* fingerprints of values.  The user wires the two separately, and to the  *)
(* outputs of different nodes if he likes, so that a node that reads both  *)
(* has to find out whether they belong together.  wired holds the outputs  *)
(* made so far.  A node that raises has no outputs and is no step; the     *)
(* nodes without outputs of their own (inspector, workflow outputs) are    *)
(* operators.                                                              *)
(*                                                                         *)
(* A fingerprint stands for the values it was computed from.  The widgets  *)
(* take their values from Variants, StepWidgets, SliceWidgets and          *)
(* AdvancedWidgets; width and height are fixed, and with them the shift of *)
(* a variant.                                                              *)
(***************************************************************************)
EXTENDS ScheduleOps, FiniteSets, SequencesExt

CONSTANTS
    MaxSteps,       \* _MAX_STEPS
    Ratio,          \* the shift of each variant
    TurboSteps,     \* the steps of the official Turbo recipe
    RawSteps,       \* the steps of the named RAW recipes ...
    RawOfficial,    \* ... and of the official one among them
    SD3Steps,       \* the reference steps of the SD3 source
    H3TurboSteps,   \* the steps an H3 Turbo recipe allows
    Variants,       \* the Krea 2 variants selected
    StepWidgets,    \* the steps asked for
    SliceWidgets,   \* the pairs start_step, end_step asked for
    AdvancedWidgets,\* sigma_start, sigma_end, shift and terminal policy
    HostTensors,    \* tensors made by schedulers of the host itself
    MaxSources,     \* bound: schedules made by scheduler nodes
    MaxOutputs      \* bound: schedules in the graph

VARIABLE wired

ASSUME RecipeAssumption ==
    /\ MaxSteps \in Nat \ {0}
    /\ \A t \in HostTensors : t \in Seq(Sigma) /\ Host(t) = t

(* A schedule_info.  recipe is <<variant, steps, strict>>; parameters are  *)
(* the slice of a scheduler and the parameters of an operation; receipt is *)
(* the schedule named by the receipt inside the info, if it has one.       *)
Described(schema, recipe, complete, parameters, output) ==
    [schema |-> schema, recipe |-> recipe, complete |-> complete,
     parameters |-> parameters, output |-> output,
     receipt |-> <<>>, sources |-> <<>>]

(* The unconnected string input: its default is the empty string.          *)
NoInfo == Described("none", <<"none", 0, FALSE>>, <<>>, <<>>, <<>>)

(* A scheduler slices the schedule it built and names both in its info.    *)
Scheduled(schema, recipe, complete, first, last) ==
    LET end == EndStep(last, Steps(complete))
        output == SliceStepRange(complete, first, end)
    IN [values |-> output,
        info |-> Described(schema, recipe, complete, <<first, end>>, output)]

-----------------------------------------------------------------------------
(* Crossing the host boundary                                              *)

(* bind_krea2_sigma_output_info: the info is rebound to the values of the  *)
(* tensor, which are validated once more.                                  *)
Bound(result) ==
    [values |-> Host(result.values),
     info |-> [result.info EXCEPT !.output = Host(result.values)]]

(* The H3 node rebinds the receipt inside a Turbo info as well.            *)
BoundH3(result) ==
    LET bound == Bound(result)
    IN IF result.info.receipt = <<>> THEN bound
       ELSE [bound EXCEPT !.info.receipt = bound.values]

(* ModelAwareSigmaScheduler and AdvancedFlowMatchScheduler return the      *)
(* tensor beside the info of the values it was made from.                  *)
Unbound(result) == [values |-> Host(result.values), info |-> result.info]

(* An algebra node replaces both fingerprints.                             *)
BoundAlgebra(result) ==
    [Bound(result) EXCEPT !.info.complete = Host(result.values)]

IsSource(o) == o.info.sources = <<>>

Emit(o) ==
    /\ Cardinality(wired) < MaxOutputs                             \* bound
    /\ IsSource(o) => Cardinality({p \in wired : IsSource(p)}) < MaxSources
    /\ wired' = wired \cup {o}

-----------------------------------------------------------------------------
(* The schedulers                                                          *)

Krea2Accepts(variant, steps, strict) ==
    /\ steps \in 1 .. MaxSteps
    /\ variant = "Turbo" => (strict => steps = TurboSteps)
    /\ variant = "RAW" => /\ steps \in RawSteps
                          /\ strict => steps = RawOfficial

Krea2Schedule(variant, steps) ==
    WithTerminal(Shift(ReciprocalGrid(steps), Ratio[variant]), "append_zero")

(* The experimental LoRA variants are never strict.                        *)
Krea2Result(schema, variant, steps, strict, first, last) ==
    Scheduled(schema, <<variant, steps, strict /\ variant # "LoRA">>,
              Krea2Schedule(variant, steps), first, last)

Krea2Builds(variant, steps, strict, first, last) ==
    /\ Krea2Accepts(variant, steps, strict)
    /\ ValidFor(Krea2Schedule(variant, steps), steps, TRUE)
    /\ SliceBounds(first, last, steps)

Krea2SigmaScheduler ==
    \E v \in Variants, n \in StepWidgets, strict \in BOOLEAN, w \in SliceWidgets :
        /\ Krea2Builds(v, n, strict, w[1], w[2])
        /\ LET result == Krea2Result("krea2", v, n, strict, w[1], w[2])
           IN /\ ValidSchedule(Host(result.values))
              /\ Emit(Bound(result))

(* Auto is refused: a model's class alone does not tell its variant.       *)
ModelAwareSigmaScheduler ==
    \E v \in Variants \ {"LoRA"}, n \in StepWidgets, strict \in BOOLEAN,
       w \in SliceWidgets :
        /\ Krea2Builds(v, n, strict, w[1], w[2])
        /\ Emit(Unbound(Krea2Result("modelAware", v, n, strict, w[1], w[2])))

AdvancedSchedule(steps, a) ==
    LET points == IF a.policy = "preserve" THEN steps + 1 ELSE steps
    IN WithTerminal(Shift(LinearGrid(points, a.start, a.end), a.ratio), a.policy)

AdvancedFlowMatchScheduler ==
    \E n \in StepWidgets, a \in AdvancedWidgets, w \in SliceWidgets :
        LET complete == AdvancedSchedule(n, a)
        IN /\ n \in 2 .. MaxSteps
           /\ a.start > a.end
           /\ a.policy = "append_zero" => a.end # 0
           /\ ValidFor(complete, n, a.policy = "append_zero")
           /\ SliceBounds(w[1], w[2], n)
           /\ Emit(Unbound(Scheduled("advanced", <<"advanced", n, FALSE>>,
                                     complete, w[1], w[2])))

(* SD3 stands for the profile nodes that differ from it in grid and shift  *)
(* only; the inspectors do not know their schemas.                         *)
SD3SigmaScheduler ==
    \E n \in StepWidgets, strict \in BOOLEAN, w \in SliceWidgets :
        LET complete ==
              WithTerminal(Shift(ReciprocalGrid(n), Ratio["SD3"]), "append_zero")
            result == Scheduled("sd3", <<"SD3", n, strict>>, complete, w[1], w[2])
        IN /\ n \in 1 .. MaxSteps
           /\ strict => n = SD3Steps
           /\ ValidFor(complete, n, TRUE)
           /\ SliceBounds(w[1], w[2], n)
           /\ ValidSchedule(Host(result.values))
           /\ Emit(Bound(result))

(* _unique_consecutive                                                     *)
UniqueConsecutive(values) ==
    LET Add(kept, v) == IF v = Last(kept) THEN kept ELSE Append(kept, v)
    IN FoldLeft(Add, <<Head(values)>>, Tail(values))

(* The base recipe is computed in float32 and drops values that meet, so   *)
(* it may have fewer steps than asked for.                                 *)
H3BaseSchedule(steps) ==
    UniqueConsecutive(
        Host(Shift(Host(LinearGrid(steps + 1, One, 0)), Ratio["H3"])))

H3TurboSchedule(steps) ==
    WithTerminal(Shift(ReciprocalGrid(steps), Ratio["H3"]), "append_zero")

(* What the Turbo builder demands of a schedule: neighbours may be equal.  *)
NotAscending(values) ==
    /\ values \in Seq(Sigma)
    /\ \A i \in 1 .. Len(values) - 1 : values[i] >= values[i + 1]

H3Result(turbo, steps, first, last) ==
    IF turbo
    THEN LET result == Scheduled("h3Turbo", <<"H3", steps, TRUE>>,
                                 H3TurboSchedule(steps), first, last)
         IN [result EXCEPT !.info.receipt = result.values]
    ELSE Scheduled("h3", <<"H3", steps, FALSE>>, H3BaseSchedule(steps), first, last)

MiniMaxH3SigmaScheduler ==
    \E turbo \in BOOLEAN, n \in StepWidgets, w \in SliceWidgets :
        LET complete == IF turbo THEN H3TurboSchedule(n) ELSE H3BaseSchedule(n)
            result == H3Result(turbo, n, w[1], w[2])
        IN /\ n \in 1 .. MaxSteps
           /\ turbo => n \in H3TurboSteps
           /\ IF turbo THEN NotAscending(complete)
                       ELSE ValidFor(complete, Steps(complete), TRUE)
           /\ SliceBounds(w[1], w[2], Steps(complete))
           /\ ValidSchedule(result.values)
           /\ ValidSchedule(Host(result.values))
           /\ Emit(BoundH3(result))

(* A scheduler of the host itself: a tensor without info                   *)
HostScheduler ==
    \E t \in HostTensors : Emit([values |-> t, info |-> NoInfo])

-----------------------------------------------------------------------------
(* Checking that a tensor and an info belong together                      *)

AlgebraSchemas == {"slice", "concatenate", "resample"}

InspectedSchemas == {"krea2", "modelAware", "advanced"} \cup AlgebraSchemas

VerifiedShape(values, info) ==      \* mutant: fingerprints are not compared
    /\ Steps(values) \in 1 .. MaxSteps
    /\ info.schema \in InspectedSchemas
    /\ ValidSchedule(values)

(* _verified_schedule                                                      *)
Verified(values, info) ==
    /\ Steps(values) \in 1 .. MaxSteps
    /\ info.schema \in InspectedSchemas
    /\ ValidSchedule(values)
    /\ info.output = values

(* What ScheduleInspector reports of a verified pair: not all of the info  *)
Inspection(values, info) ==
    [source_schema |-> info.schema, profile |-> SubSeq(info.recipe, 1, 2),
     advertised_complete |-> info.complete, computed_output |-> values,
     slicing |-> info.parameters]

-----------------------------------------------------------------------------
(* Schedule algebra                                                        *)

Modified(operation, parameters, sources, output) ==
    [values |-> output,
     info |-> [Described(operation, <<"none", 0, FALSE>>, output, parameters, output)
               EXCEPT !.sources = sources]]

(* build_schedule_slice: inclusive sigma indices, and never the whole      *)
CanSlice(values, first, last) ==
    /\ first \in 0 .. Steps(values)
    /\ last \in 0 .. Steps(values)
    /\ first < last
    /\ ~(first = 0 /\ last = Steps(values))

SliceHalfOpen(values, first, last) ==       \* mutant: the end is left out
    Modified("slice", <<first, last>>, <<values>>, SubSeq(values, first + 1, last))

Slice(values, first, last) ==
    Modified("slice", <<first, last>>, <<values>>,
             SubSeq(values, first + 1, last + 1))

(* build_schedule_concatenation                                            *)
CanConcatenate(left, right) ==
    /\ left[Len(left)] = right[1]
    /\ Len(left) + Len(right) - 1 <= MaxSteps + 1

ConcatenateBoth(left, right) ==     \* mutant: the boundary is kept twice
    Modified("concatenate", <<left[Len(left)]>>, <<left, right>>, left \o right)

Concatenate(left, right) ==
    Modified("concatenate", <<left[Len(left)]>>, <<left, right>>,
             left \o Tail(right))

(* build_schedule_resample: index j of the n output steps lies at j * m/n  *)
(* of the m input steps.                                                   *)
Resampled(values, n) ==
    LET m == Steps(values)
        At(j) == LET lower == (j * m) \div n
                 IN IF j = n THEN values[m + 1]
                    ELSE values[lower + 1]
                         + ((values[lower + 2] - values[lower + 1])
                            * (j * m - lower * n)) \div n
    IN [i \in 1 .. n + 1 |-> At(i - 1)]

Resample(values, n) ==
    Modified("resample", <<Steps(values), n>>, <<values>>, Resampled(values, n))

(* ScheduleAlgebraNodeResult validates what was built and _host_result     *)
(* what the tensor holds.                                                  *)
EmitAlgebra(result) ==
    /\ ValidSchedule(result.values)
    /\ ValidSchedule(Host(result.values))
    /\ Emit(BoundAlgebra(result))

ScheduleSlice ==
    \E p, q \in wired :
        /\ Verified(p.values, q.info)
        /\ \E first, last \in 0 .. Steps(p.values) :
              /\ CanSlice(p.values, first, last)
              /\ EmitAlgebra(Slice(p.values, first, last))

ScheduleConcatenate ==
    \E p, q, r, s \in wired :
        /\ Verified(p.values, q.info) /\ Verified(r.values, s.info)
        /\ CanConcatenate(p.values, r.values)
        /\ EmitAlgebra(Concatenate(p.values, r.values))

ScheduleResample ==
    \E p, q \in wired, n \in StepWidgets :
        /\ Verified(p.values, q.info)
        /\ n \in 1 .. MaxSteps /\ n # Steps(p.values)
        /\ EmitAlgebra(Resample(p.values, n))

-----------------------------------------------------------------------------
(* Publication: the workflow outputs build the schedule named by the info  *)
(* again and compare.                                                      *)

Rebuilt(recipe) ==
    Krea2Result("krea2", recipe[1], recipe[2], recipe[3], 0, -1)

PublishesFloat64(values, info, report) ==   \* mutant: the host's rounding is forgotten
    LET rebuilt == Rebuilt(info.recipe)
    IN /\ Verified(values, info)
       /\ report = Inspection(values, info)
       /\ info.parameters = <<0, info.recipe[2]>>
       /\ values = rebuilt.values
       /\ info = [rebuilt.info EXCEPT !.output = values]

PublishesWhole(values, info, report) ==
    LET rebuilt == Rebuilt(info.recipe)
    IN /\ Verified(values, info)
       /\ report = Inspection(values, info)
       /\ info.parameters = <<0, info.recipe[2]>>
       /\ values \in {rebuilt.values, Host(rebuilt.values)}
       /\ info = [rebuilt.info EXCEPT !.output = values]

(* build_turbo_workflow_output                                             *)
TurboPublishes(values, info, report) ==
    /\ info.schema = "krea2"
    /\ info.recipe = <<"Turbo", TurboSteps, TRUE>>
    /\ PublishesWhole(values, info, report)

(* build_raw_workflow_output                                               *)
RawPublishes(values, info, report) ==
    /\ info.schema = "krea2"
    /\ \E n \in RawSteps : info.recipe = <<"RAW", n, n = RawOfficial>>
    /\ PublishesWhole(values, info, report)

-----------------------------------------------------------------------------
Init == wired = {}

Next ==
    \/ Krea2SigmaScheduler
    \/ ModelAwareSigmaScheduler
    \/ AdvancedFlowMatchScheduler
    \/ SD3SigmaScheduler
    \/ MiniMaxH3SigmaScheduler
    \/ HostScheduler
    \/ ScheduleSlice
    \/ ScheduleConcatenate
    \/ ScheduleResample

Spec == Init /\ [][Next]_wired

-----------------------------------------------------------------------------
(* Properties                                                              *)

Schemas == {"none", "krea2", "modelAware", "advanced", "sd3", "h3", "h3Turbo"}
               \cup AlgebraSchemas

(* Every output is a tensor of host values and an info with the fields the *)
(* nodes write.                                                            *)
TypeOK ==
    \A o \in wired :
        /\ o.values \in Seq(Sigma) /\ Host(o.values) = o.values
        /\ o.info.schema \in Schemas
        /\ o.info.complete \in Seq(Sigma)
        /\ o.info.output \in Seq(Sigma) /\ o.info.receipt \in Seq(Sigma)
        /\ o.info.sources \in Seq(Seq(Sigma))

BindingSchemas == {"krea2", "sd3", "h3", "h3Turbo"} \cup AlgebraSchemas

AsDelivered(o) ==
    /\ ValidSchedule(o.values)
    /\ o.info.output = o.values
    /\ o.info.receipt # <<>> => o.info.receipt = o.values

(* What the nodes promise that bind their info to the tensor (Krea 2, the  *)
(* profile nodes, H3 and the algebra): after rounding, slicing and binding *)
(* every pair they deliver is still a schedule, every fingerprint of it in *)
(* the info names the delivered values, and the pair is accepted wherever  *)
(* its schema is known.                                                    *)
BoundPairsVerify ==
    \A o \in wired :
        o.info.schema \in BindingSchemas =>
            /\ AsDelivered(o)
            /\ o.info.schema \in InspectedSchemas => Verified(o.values, o.info)

(* _verified_schedule: however the user crosses the wires of the nodes, an *)
(* info accepted beside a tensor is the info of an output with exactly the *)
(* values of that tensor.  It rests on rounding being idempotent: the info *)
(* of an unbound output names values that are accepted only if rounding    *)
(* left them alone.                                                        *)
AcceptedMeansMadeTogether ==
    \A p, q \in wired : Verified(p.values, q.info) => p.values = q.values

(* _projection and the scheduler infos: the info of an output tells how to *)
(* make its values.  The sources an algebra info names are tensors of the  *)
(* graph, and its operation applied to them with its parameters gives what *)
(* the node delivered; the slice and the complete schedule in a            *)
(* scheduler's info give the tensor, both ends of the slice included.      *)
InfoTellsTheTruth ==
    \A o \in wired :
        LET info == o.info  a == info.parameters  from == info.sources
        IN /\ \A i \in DOMAIN from : \E p \in wired : p.values = from[i]
           /\ CASE info.schema = "none" -> TRUE
                [] info.schema = "slice" ->
                     /\ o.values = SubSeq(from[1], a[1] + 1, a[2] + 1)
                     /\ Steps(o.values) = a[2] - a[1]
                [] info.schema = "concatenate" ->
                     \E k \in DOMAIN o.values :
                         /\ o.values[k] = a[1]
                         /\ SubSeq(o.values, 1, k) = from[1]
                         /\ SubSeq(o.values, k, Len(o.values)) = from[2]
                [] info.schema = "resample" ->
                     /\ Steps(from[1]) = a[1] /\ Steps(o.values) = a[2]
                     /\ o.values[1] = from[1][1]
                     /\ o.values[a[2] + 1] = from[1][a[1] + 1]
                [] OTHER ->
                     /\ Steps(o.values) = a[2] - a[1]
                     /\ \A i \in 0 .. a[2] - a[1] :
                           o.values[i + 1] = Float32[info.complete[a[1] + i + 1]]

(* ScheduleSlice and ScheduleConcatenate are inverse to each other: a      *)
(* schedule split at any step can be joined again, and is then the same.   *)
SplitsRejoin ==
    \A p, q \in wired : Verified(p.values, q.info) =>
        \A k \in 1 .. Steps(p.values) - 1 :
            LET left  == Slice(p.values, 0, k).values
                right == Slice(p.values, k, Steps(p.values)).values
            IN /\ CanSlice(p.values, 0, k) /\ CanSlice(p.values, k, Steps(p.values))
               /\ CanConcatenate(left, right)
               /\ Concatenate(left, right).values = p.values

(* An output of Krea2SigmaScheduler with an official recipe, whole         *)
Official(o) ==
    /\ o.info.schema = "krea2"
    /\ o.info.parameters = <<0, o.info.recipe[2]>>
    /\ \/ o.info.recipe = <<"Turbo", TurboSteps, TRUE>>
       \/ \E n \in RawSteps : o.info.recipe = <<"RAW", n, n = RawOfficial>>

Publishes(values, info, report) ==
    TurboPublishes(values, info, report) \/ RawPublishes(values, info, report)

(* The workflow outputs publish every whole official schedule of the Krea  *)
(* node, although the host rounded it, and nothing else: not a slice, not  *)
(* a modified recipe, not the info of another node or the report of        *)
(* another pair.                                                           *)
OfficialIsPublished ==
    \A p, q, r \in wired :
        LET published == Publishes(p.values, q.info, Inspection(r.values, r.info))
        IN /\ published => Official(q) /\ p.values = q.values /\ r.values = q.values
           /\ p = q /\ r = q /\ Official(q) => published

(* tests/test_inspector_nodes.py:221, "verifies all source schemas": the   *)
(* inspector accepts what a node with a schema it knows has delivered.     *)
EveryPairVerifies ==
    \A o \in wired :
        o.info.schema \in InspectedSchemas => Verified(o.values, o.info)
=============================================================================

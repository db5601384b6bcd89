---------------------------- MODULE ModelProfiles ----------------------------
(***************************************************************************)
(* The built-in model profiles, the schedules their builders make, and the *)
(* scheduler nodes that deliver a slice of them to the host.               *)
(*                                                                         *)
(* What a profile promises is written twice in each file of profiles/: the *)
(* schema declares the recipes, the grid and the transforms, and the       *)
(* builder holds the numbers it works with.  Both are here as they stand,  *)
(* so that a schedule can be compared with the declaration it names.       *)
(*                                                                         *)
(* A builder that refuses its arguments is the empty set, one that does    *)
(* not is the set of the one schedule it makes.  A node that raises ends   *)
(* the prompt and is no step.  delivered is the set of the outputs of the  *)
(* node that was executed, empty until the next prompt executes one.       *)
(***************************************************************************)
EXTENDS ScheduleOps, FiniteSets, SequencesExt

CONSTANTS
    StepWidgets,    \* the steps asked for
    SliceWidgets,   \* the pairs start_step, end_step asked for
    TokenWidgets,   \* the sequence lengths asked for, or derived from sizes
    TerminalWidgets \* the values of the LTX terminal widget

VARIABLE delivered

(* _MAX_STEPS                                                              *)
MaxSteps == 10000

-----------------------------------------------------------------------------
(* Declarations                                                            *)

(* A recipe: its range of steps, its default, the steps of the source it   *)
(* quotes, and whether others are allowed as modified ones.                *)
Recipe(evidence, minimum, maximum, reference, modifiable) ==
    [evidence |-> evidence, minimum |-> minimum, maximum |-> maximum,
     reference |-> reference, modifiable |-> modifiable]

(* A profile as its ProfileSchemaV1 declares it.                           *)
Declared(id, family, variant, grid, shifts, recipes) ==
    [id |-> id, family |-> family, variant |-> variant, grid |-> grid,
     transforms |-> shifts \o <<"terminal.append_zero">>,
     recipes |-> recipes, sampler |-> "flowmatch.euler"]

(* The usual recipe: one source, one number of steps, any other modified.  *)
OneSource(evidence, steps) ==
    {Recipe(evidence, 1, MaxSteps, {steps}, TRUE)}

AuraFlowDeclared ==
    {Declared("auraflow.v0-2", "auraflow", "v0-2", "flowmatch.reciprocal_step",
              <<"direct_ratio.shift">>, OneSource("official", 50))}

Lumina2Declared ==
    {Declared("lumina2.v2", "lumina2", "2-0", "flowmatch.reciprocal_step",
              <<"direct_ratio.shift">>, OneSource("official", 50))}

AnimaSteps ==
    [v \in {"aesthetic", "base", "turbo"} |-> IF v = "turbo" THEN {8, 12} ELSE {30, 50}]

AnimaIds ==
    [aesthetic |-> "anima.aesthetic", base |-> "anima.base", turbo |-> "anima.turbo"]

AnimaDeclared ==
    {Declared(AnimaIds[v], "anima", v, "flowmatch.reciprocal_step",
              <<"rational_shift.fixed">>,
              {Recipe("framework_reference",
                      IF v = "turbo" THEN 8 ELSE 30, IF v = "turbo" THEN 12 ELSE 50,
                      AnimaSteps[v], TRUE)}) : v \in DOMAIN AnimaSteps}

HunyuanImage21Declared ==
    {Declared("hunyuanimage.2-1", "hunyuanimage", "2-1", "flowmatch.reciprocal_step",
              <<"direct_ratio.shift">>, OneSource("official", 50)),
     Declared("hunyuanimage.2-1-distilled", "hunyuanimage", "2-1-distilled",
              "flowmatch.reciprocal_step", <<"direct_ratio.shift">>,
              OneSource("official", 8))}

SD3Declared ==
    {Declared("sd3.publisher", "sd3", "original", "flowmatch.reciprocal_step",
              <<"direct_ratio.shift">>, OneSource("official", 50)),
     Declared("sd3.framework", "sd3", "original", "flowmatch.reciprocal_step",
              <<"direct_ratio.shift">>, OneSource("framework_reference", 28))}

ZImageDeclared ==
    {Declared("z_image.base", "z_image", "base", "flowmatch.reciprocal_step",
              <<"flowmatch.direct_ratio">>, {Recipe("official", 28, 50, {28, 50}, TRUE)}),
     Declared("z_image.turbo", "z_image", "turbo", "flowmatch.reciprocal_step",
              <<"flowmatch.direct_ratio">>, {Recipe("official", 1, MaxSteps, {8}, TRUE)})}

Flux1SchnellDeclared ==
    {Declared("flux1.schnell", "flux1", "schnell", "flowmatch.reciprocal_step",
              <<>>, {Recipe("official", 1, 4, {1, 4}, TRUE)})}

Krea2TurboDeclared ==
    {[Declared("krea2.turbo", "krea2", "turbo", "krea.reciprocal_step",
               <<"krea.exponential_mu">>, {Recipe("official", 1, MaxSteps, {8}, TRUE)})
        EXCEPT !.sampler = "comfy.euler"]}

Krea2RawDeclared ==
    {[Declared("krea2.raw", "krea2", "raw", "krea.reciprocal_step",
               <<"krea.exponential_mu">>,
               {Recipe("framework_reference", 28, 28, {28}, FALSE),
                Recipe("official", 52, 52, {52}, FALSE)})
        EXCEPT !.sampler = "comfy.euler"]}

Krea2LoraDeclared ==
    {[Declared("krea2.raw-turbo-lora", "krea2", "raw_turbo_lora", "krea.reciprocal_step",
               <<"krea.exponential_mu">>,
               {Recipe("experimental", 1, MaxSteps, {12}, TRUE)})
        EXCEPT !.sampler = "comfy.euler"]}

QwenImageDeclared ==
    {Declared("qwen_image.comfy-fixed", "qwen_image", "original",
              "flowmatch.reciprocal_step", <<"comfy.direct_ratio">>,
              OneSource("framework_reference", 50)),
     Declared("qwen_image.diffusers-dynamic", "qwen_image", "original",
              "flowmatch.reciprocal_step", <<"diffusers.exponential_mu">>,
              OneSource("framework_reference", 50))}

QwenNativeDeclared ==
    {Declared("qwen_image.comfy-native", "qwen_image", "original",
              "comfy.simple.flux_table", <<"qwen.exponential_mu">>,
              OneSource("framework_reference", 50)),
     Declared("qwen_image21.comfy-native", "qwen_image21", "v2_1",
              "comfy.simple.flux_table", <<"qwen.exponential_mu">>,
              OneSource("framework_reference", 25)),
     Declared("qwen_image21.diffusers-dynamic", "qwen_image21", "v2_1",
              "flowmatch.reciprocal_step",
              <<"qwen.exponential_mu", "qwen21.stretch_to_terminal">>,
              {Recipe("framework_reference", 2, MaxSteps, {40}, TRUE)})}

LTXDevSteps == [ltxv |-> 20, ltx2 |-> 40, ltx23 |-> 30]

LTXDevIds == [ltxv |-> "ltx.ltxv.dev", ltx2 |-> "ltx.ltx2.dev", ltx23 |-> "ltx.ltx23.dev"]

LTXStageIds ==
    [ltx2 |-> [stage1 |-> "ltx.ltx2.stage1", stage2 |-> "ltx.ltx2.stage2"],
     ltx23 |-> [stage1 |-> "ltx.ltx23.stage1", stage2 |-> "ltx.ltx23.stage2"]]

LTXVector(stage) ==
    LET stage1 == <<1000000, 993750, 987500, 981250, 975000, 909375, 725000, 421875, 0>>
        unit(v) == (v * One) \div 1000000
    IN IF stage = "stage1" THEN [i \in 1 .. 9 |-> unit(stage1[i])]
       ELSE [i \in 1 .. 4 |-> unit(stage1[i + 5])]

LTXDev(g) ==
    Declared(LTXDevIds[g], "ltx", g, "flowmatch.linear_endpoint",
             <<"ltx.flow.exponential_token_shift", "ltx.terminal.stretch">>,
             OneSource("official", LTXDevSteps[g]))

LTXDistilled(g, stage) ==
    LET n == Steps(LTXVector(stage))
    IN Declared(LTXStageIds[g][stage], "ltx", g, "flowmatch.linear_endpoint",
                <<"ltx.distilled.preset">>, {Recipe("official", n, n, {n}, FALSE)})

LTXDeclared ==
    {LTXDev(g) : g \in DOMAIN LTXDevSteps}
    \cup {LTXDistilled(g, stage) : g \in {"ltx2", "ltx23"}, stage \in {"stage1", "stage2"}}

(* A row of _DEFINITIONS.  boundary is in thousandths, 0 if there is none. *)
WanRow(id, evidence, ratio, steps, boundary, sampler, exact) ==
    [id |-> id, evidence |-> evidence, ratio |-> ratio, steps |-> steps,
     boundary |-> boundary, sampler |-> sampler, exact |-> exact]

Wan21Definitions == LET fr == "framework_reference" IN
    {WanRow("wan.21-t2v-comfy", fr, 8, 50, 0, "flowmatch.euler", FALSE),
     WanRow("wan.21-t2v", "official", 5, 50, 0, "flowmatch.euler", FALSE),
     WanRow("wan.21-i2v-480p", "official", 3, 40, 0, "flowmatch.euler", FALSE),
     WanRow("wan.21-i2v-720p", "official", 5, 40, 0, "flowmatch.euler", FALSE),
     WanRow("wan.21-t2v-diffusers", fr, 3, 50, 0, "unipc.multistep", FALSE),
     WanRow("wan.21-i2v-480p-diffusers", fr, 3, 40, 0, "unipc.multistep", FALSE),
     WanRow("wan.21-i2v-720p-diffusers", fr, 5, 40, 0, "unipc.multistep", FALSE)}

Wan22Definitions == LET fr == "framework_reference" IN
    {WanRow("wan.22-ti2v", fr, 5, 50, 0, "flowmatch.euler", FALSE),
     WanRow("wan.22-t2v-a14b", "official", 12, 40, 875, "flowmatch.euler", FALSE),
     WanRow("wan.22-i2v-a14b", "official", 5, 40, 900, "flowmatch.euler", FALSE),
     WanRow("wan.22-ti2v-diffusers", fr, 5, 50, 0, "unipc.multistep", FALSE),
     WanRow("wan.22-t2v-a14b-diffusers", fr, 3, 40, 875, "unipc.multistep", FALSE),
     WanRow("wan.22-i2v-a14b-diffusers", fr, 3, 40, 900, "unipc.multistep", FALSE)}

WanLaterDefinitions ==
    {WanRow("wan.21-flf2v", "official", 16, 50, 0, "unipc.multistep", FALSE),
     WanRow("wan.21-vace-1-3b", "official", 16, 50, 0, "unipc.multistep", FALSE),
     WanRow("wan.21-vace-14b", "official", 16, 50, 0, "unipc.multistep", FALSE),
     WanRow("wan.22-s2v", "official", 3, 40, 0, "unipc.multistep", FALSE),
     WanRow("wan.22-animate", "official", 5, 20, 0, "unipc.multistep", FALSE),
     WanRow("wan.animate2-base", "official", 5, 40, 0, "flow_dpm.multistep", FALSE),
     WanRow("wan.animate2-distilled", "official", 5, 10, 0, "flow_dpm.multistep", FALSE),
     WanRow("wan.animate2-optimized", "framework_reference", 5, 6, 0, "lcm", TRUE)}

WanDefinitions == Wan21Definitions \cup Wan22Definitions \cup WanLaterDefinitions

WanDeclared ==
    {[Declared(d.id, "wan", d.id,
               IF d.exact THEN "comfyui.simple_discrete_flow"
               ELSE "flowmatch.reciprocal_step",
               <<"direct_ratio.shift">>,
               IF d.exact THEN {Recipe(d.evidence, d.steps, d.steps, {d.steps}, FALSE)}
               ELSE OneSource(d.evidence, d.steps))
        EXCEPT !.sampler = d.sampler] : d \in WanDefinitions}

(* The profiles builtin_profile_registry registers                         *)
Builtin ==
    UNION {AuraFlowDeclared, Lumina2Declared, AnimaDeclared, HunyuanImage21Declared,
           SD3Declared, ZImageDeclared, Flux1SchnellDeclared, Krea2TurboDeclared,
           Krea2RawDeclared, Krea2LoraDeclared, QwenImageDeclared,
           QwenNativeDeclared, LTXDeclared, WanDeclared}

(* The profiles whose evidence also depends on controls besides the steps  *)
LTXStretchable == {LTXDevIds[g] : g \in DOMAIN LTXDevSteps}

ProfileOf(id) == CHOOSE p \in Builtin : p.id = id

-----------------------------------------------------------------------------
(* The arithmetic of the builders                                          *)

(* direct_ratio_shift with a ratio num / den                               *)
RatioShift(values, num, den) ==
    [i \in DOMAIN values |->
        IF values[i] \in {0, One} THEN values[i]
        ELSE (One * num * values[i]) \div (den * (One - values[i]) + num * values[i])]

(* exponential_mu_shift with mu in hundredths: the ratio is e^mu, of which *)
(* only is used that it is positive and grows with mu.                     *)
MuShift(values, mu) ==
    RatioShift(values, 100 + mu + (mu * mu) \div 200, 100)

(* The straight line through two anchors, in hundredths; nothing clamps it *)
AffineMu(tokens, base, last, base_mu, last_mu) ==
    base_mu + ((last_mu - base_mu) * (tokens - base)) \div (last - base)

(* comfyui_simple_discrete_flow_grid                                       *)
SimpleGrid(steps, table) ==
    [i \in 1 .. steps |-> ((table - ((i - 1) * table) \div steps) * One) \div table]

(* What a builder returns: the record of its provenance, grid and          *)
(* transforms, and the values if validate_sigma_schedule accepts them.     *)
Built(id, evidence, grid, shifts, steps, official, values) ==
    {s \in {[profile |-> id, evidence |-> IF official THEN evidence ELSE "modified",
             warned |-> ~official, grid |-> grid,
             transforms |-> shifts \o <<"terminal.append_zero">>,
             steps |-> steps, values |-> values, boundary |-> 0]} :
        steps \in 1 .. MaxSteps /\ ValidFor(values, steps, TRUE)}

(* The builders with one fixed ratio and one number of reference steps     *)
FixedRatio(id, evidence, shift, num, den, steps, official, strict) ==
    IF strict /\ ~official THEN {}
    ELSE Built(id, evidence, "flowmatch.reciprocal_step", <<shift>>, steps, official,
               Append(RatioShift(ReciprocalGrid(steps), num, den), 0))

AuraFlowSchedule(steps, strict) ==
    FixedRatio("auraflow.v0-2", "official", "direct_ratio.shift", 173, 100, steps,
               steps = 50, strict)

Lumina2Schedule(steps, strict) ==
    FixedRatio("lumina2.v2", "official", "direct_ratio.shift", 6, 1, steps,
               steps = 50, strict)

AnimaSchedule(variant, steps, strict) ==
    FixedRatio(AnimaIds[variant], "framework_reference", "rational_shift.fixed", 3, 1,
               steps,
               IF variant = "turbo" THEN steps \in 8 .. 12 ELSE steps \in 30 .. 50, strict)

HunyuanImage21Schedule(distilled, steps, strict) ==
    IF distilled
    THEN FixedRatio("hunyuanimage.2-1-distilled", "official", "direct_ratio.shift", 4, 1,
                    steps, steps = 8, strict)
    ELSE FixedRatio("hunyuanimage.2-1", "official", "direct_ratio.shift", 5, 1,
                    steps, steps = 50, strict)

SD3Schedule(publisher, steps, strict) ==
    IF publisher
    THEN FixedRatio("sd3.publisher", "official", "direct_ratio.shift", 1, 1, steps,
                    steps = 50, strict)
    ELSE FixedRatio("sd3.framework", "framework_reference", "direct_ratio.shift", 3, 1,
                    steps, steps = 28, strict)

\* mutant: the lower end of the published range is forgotten
ZImageScheduleOpenBelow(turbo, steps, strict) ==
    IF turbo
    THEN FixedRatio("z_image.turbo", "official", "flowmatch.direct_ratio", 3, 1, steps,
                    steps = 8, strict)
    ELSE FixedRatio("z_image.base", "official", "flowmatch.direct_ratio", 6, 1, steps,
                    steps <= 50, strict)

ZImageSchedule(turbo, steps, strict) ==
    IF turbo
    THEN FixedRatio("z_image.turbo", "official", "flowmatch.direct_ratio", 3, 1, steps,
                    steps = 8, strict)
    ELSE FixedRatio("z_image.base", "official", "flowmatch.direct_ratio", 6, 1, steps,
                    steps \in 28 .. 50, strict)

Flux1SchnellSchedule(steps, strict) ==
    IF strict /\ steps \notin 1 .. 4 THEN {}
    ELSE Built("flux1.schnell", "official", "flowmatch.reciprocal_step", <<>>, steps,
               steps \in 1 .. 4, Append(ReciprocalGrid(steps), 0))

(* build_krea2_*_schedule: the mu shift of the Krea grid                   *)
Krea2Shifted(id, evidence, steps, official, mu) ==
    Built(id, evidence, "krea.reciprocal_step", <<"krea.exponential_mu">>, steps,
          official, Append(MuShift(ReciprocalGrid(steps), mu), 0))

Krea2TurboSchedule(steps) ==
    Krea2Shifted("krea2.turbo", "official", steps, steps = 8, 115)

(* calculate_krea2_raw_mu                                                  *)
Krea2RawMu(tokens) == AffineMu(tokens, 256, 6400, 50, 115)

(* A recipe is selected by its number of steps.                            *)
Krea2RawSchedule(steps, tokens) ==
    IF steps \notin {28, 52} THEN {}
    ELSE Krea2Shifted("krea2.raw",
                      IF steps = 28 THEN "framework_reference" ELSE "official",
                      steps, TRUE, Krea2RawMu(tokens))

(* Always experimental, and always with a warning                          *)
Krea2LoraSchedule(steps, tokens, raw_mu) ==
    {[s EXCEPT !.warned = TRUE] :
        s \in Krea2Shifted("krea2.raw-turbo-lora", "experimental", steps, TRUE,
                           IF raw_mu THEN Krea2RawMu(tokens) ELSE 115)}

(* build_qwen_image_schedule: 0 stands for no sequence length.             *)
QwenImageSchedule(dynamic, steps, tokens, strict) ==
    LET grid == ReciprocalGrid(steps)
        values == IF dynamic THEN MuShift(grid, AffineMu(tokens, 256, 4096, 50, 115))
                  ELSE RatioShift(grid, 115, 100)
    IN IF dynamic # (tokens > 0) \/ (strict /\ steps # 50) THEN {}
       ELSE Built(IF dynamic THEN "qwen_image.diffusers-dynamic"
                  ELSE "qwen_image.comfy-fixed",
                  "framework_reference", "flowmatch.reciprocal_step",
                  <<IF dynamic THEN "diffusers.exponential_mu" ELSE "comfy.direct_ratio">>,
                  steps, steps = 50, Append(values, 0))

(* QwenNativeRequest: each lane has its range, its default and its         *)
(* geometry, which only the dynamic one takes.                             *)
QwenLaneSteps == [original |-> 50, native |-> 25, dynamic |-> 40]

QwenNativeAccepts(lane, steps, tokens, strict) ==
    /\ steps >= (IF lane = "dynamic" THEN 2 ELSE 1)
    /\ (lane = "dynamic") = (tokens > 0)
    /\ strict => steps = QwenLaneSteps[lane]

(* The dynamic lane is stretched until its last sigma is 0.02.             *)
QwenStretched(values) ==
    [i \in DOMAIN values |->
        One - ((One - values[i]) * (One - One \div 50)) \div (One - Last(values))]

QwenNativeSchedule(lane, steps, tokens, strict) ==
    IF ~QwenNativeAccepts(lane, steps, tokens, strict) THEN {}
    ELSE IF lane = "dynamic"
    THEN Built("qwen_image21.diffusers-dynamic", "framework_reference",
               "flowmatch.reciprocal_step",
               <<"qwen.exponential_mu", "qwen21.stretch_to_terminal">>, steps,
               steps = QwenLaneSteps[lane],
               Append(QwenStretched(MuShift(ReciprocalGrid(steps),
                                            AffineMu(tokens, 256, 8192, 50, 90))), 0))
    ELSE Built(IF lane = "original" THEN "qwen_image.comfy-native"
               ELSE "qwen_image21.comfy-native",
               "framework_reference", "comfy.simple.flux_table",
               <<"qwen.exponential_mu">>, steps, steps = QwenLaneSteps[lane],
               Append(MuShift(SimpleGrid(steps, 10000),
                              IF lane = "original" THEN 115 ELSE 69), 0))

(* _stretch_nonzero: the last sigma before the zero becomes terminal.  A   *)
(* schedule whose only other sigma is 1 cannot be stretched.               *)
LTXStretched(values, terminal) ==
    LET nonzero == Front(values)
    IN IF Last(nonzero) \in {0, One} THEN <<>>
       ELSE Append([i \in DOMAIN nonzero |->
                       One - ((One - nonzero[i]) * (One - terminal))
                                 \div (One - Last(nonzero))], 0)

(* _adaptive_schedule: the grid runs to zero by itself; without stretching *)
(* another terminal than the default is refused.                           *)
LTXAdaptive(steps, tokens, stretch, terminal) ==
    LET shifted == MuShift(LinearGrid(steps + 1, One, 0),
                           AffineMu(tokens, 1024, 4096, 95, 205))
    IN IF stretch THEN LTXStretched(shifted, terminal)
       ELSE IF terminal = One \div 10 THEN shifted ELSE <<>>

LTXDevSchedule(generation, steps, tokens, stretch, terminal, strict) ==
    LET official == steps = LTXDevSteps[generation] /\ stretch /\ terminal = One \div 10
    IN IF strict /\ ~official THEN {}
       ELSE Built(LTXDevIds[generation], "official",
                  "flowmatch.linear_endpoint",
                  <<"ltx.flow.exponential_token_shift", "ltx.terminal.stretch">>,
                  steps, official, LTXAdaptive(steps, tokens, stretch, terminal))

(* A distilled stage is one fixed vector.                                  *)
LTXDistilledSchedule(generation, stage, steps) ==
    IF steps # Steps(LTXVector(stage)) THEN {}
    ELSE Built(LTXStageIds[generation][stage], "official",
               "flowmatch.linear_endpoint", <<"ltx.distilled.preset">>, steps, TRUE,
               LTXVector(stage))

\* mutant: the boundary is counted as a position in the sequence
WanBoundaryOneBased(values, boundary) ==
    CHOOSE i \in DOMAIN values :
        values[i] <= boundary /\ \A j \in 1 .. i - 1 : values[j] > boundary

(* derive_wan_boundary: the first step whose sigma is not above the        *)
(* boundary                                                                *)
WanBoundary(values, boundary) ==
    (CHOOSE i \in DOMAIN values :
        values[i] <= boundary /\ \A j \in 1 .. i - 1 : values[j] > boundary) - 1

(* The unit of a row's boundary                                            *)
Boundary(d) == (d.boundary * One) \div 1000

WanSchedule(d, steps, strict) ==
    LET grid == IF d.exact THEN SimpleGrid(steps, 1000) ELSE ReciprocalGrid(steps)
    IN IF (strict \/ d.exact) /\ steps # d.steps THEN {}
       ELSE {[s EXCEPT !.boundary = IF d.boundary = 0 THEN -1
                                    ELSE WanBoundary(s.values, Boundary(d))] :
                s \in Built(d.id, d.evidence,
                            IF d.exact THEN "comfyui.simple_discrete_flow"
                            ELSE "flowmatch.reciprocal_step",
                            <<"direct_ratio.shift">>, steps, steps = d.steps,
                            Append(RatioShift(grid, d.ratio, 1), 0))}

-----------------------------------------------------------------------------
(* The scheduler nodes.  Each asks its builder, slices the schedule, and   *)
(* binds its info to the values of the tensor, which are validated again.  *)

Deliver(schedules, slice) ==
    /\ delivered = {}
    /\ \E s \in schedules :
        /\ SliceBounds(slice[1], slice[2], s.steps)
        /\ LET host == Host(SliceStepRange(s.values, slice[1], EndStep(slice[2], s.steps)))
           IN /\ ValidSchedule(host)
              /\ delivered' = {[schedule |-> s, start |-> slice[1], sigmas |-> host]}

AuraFlowSigmaScheduler ==
    \E n \in StepWidgets, w \in SliceWidgets, strict \in BOOLEAN :
        Deliver(AuraFlowSchedule(n, strict), w)

Lumina2SigmaScheduler ==
    \E n \in StepWidgets, w \in SliceWidgets, strict \in BOOLEAN :
        Deliver(Lumina2Schedule(n, strict), w)

AnimaSigmaScheduler ==
    \E n \in StepWidgets, w \in SliceWidgets, strict \in BOOLEAN, v \in DOMAIN AnimaSteps :
        Deliver(AnimaSchedule(v, n, strict), w)

HunyuanImage21SigmaScheduler ==
    \E n \in StepWidgets, w \in SliceWidgets, strict, distilled \in BOOLEAN :
        Deliver(HunyuanImage21Schedule(distilled, n, strict), w)

SD3SigmaScheduler ==
    \E n \in StepWidgets, w \in SliceWidgets, strict, publisher \in BOOLEAN :
        Deliver(SD3Schedule(publisher, n, strict), w)

ZImageSigmaScheduler ==
    \E n \in StepWidgets, w \in SliceWidgets, strict, turbo \in BOOLEAN :
        Deliver(ZImageSchedule(turbo, n, strict), w)

Flux1SchnellSigmaScheduler ==
    \E n \in StepWidgets, w \in SliceWidgets, strict \in BOOLEAN :
        Deliver(Flux1SchnellSchedule(n, strict), w)

(* build_krea2_sigma_schedule: strict asks for the official recipe, and    *)
(* the experimental variants ignore it.                                    *)
Krea2SigmaScheduler ==
    \E n \in StepWidgets, w \in SliceWidgets, t \in TokenWidgets, strict \in BOOLEAN :
        \/ (strict => n = 8) /\ Deliver(Krea2TurboSchedule(n), w)
        \/ (strict => n = 52) /\ Deliver(Krea2RawSchedule(n, t), w)
        \/ \E raw_mu \in BOOLEAN : Deliver(Krea2LoraSchedule(n, t, raw_mu), w)

QwenImageSigmaScheduler ==
    \E n \in StepWidgets, w \in SliceWidgets, t \in TokenWidgets \cup {0},
       strict, dynamic \in BOOLEAN :
        \/ Deliver(QwenImageSchedule(dynamic, n, t, strict), w)
        \/ Deliver(QwenNativeSchedule("original", n, t, strict), w)

QwenImage21SigmaScheduler ==
    \E n \in StepWidgets, w \in SliceWidgets, t \in TokenWidgets \cup {0},
       strict \in BOOLEAN, lane \in {"native", "dynamic"} :
        Deliver(QwenNativeSchedule(lane, n, t, strict), w)

(* A distilled stage refuses every control but its own values.             *)
LTXSigmaScheduler ==
    \E n \in StepWidgets, w \in SliceWidgets :
        \/ \E g \in DOMAIN LTXDevSteps, t \in TokenWidgets, terminal \in TerminalWidgets,
              stretch, strict \in BOOLEAN :
              Deliver(LTXDevSchedule(g, n, t, stretch, terminal, strict), w)
        \/ \E g \in {"ltx2", "ltx23"}, stage \in {"stage1", "stage2"} :
              Deliver(LTXDistilledSchedule(g, stage, n), w)

(* build_wan_sigma_schedule: the boundary is a step of the whole schedule, *)
(* also when a slice is delivered.                                         *)
WanSigmaScheduler ==
    \E n \in StepWidgets, w \in SliceWidgets, strict \in BOOLEAN, d \in WanDefinitions :
        Deliver(WanSchedule(d, n, strict), w)

(* The next prompt                                                         *)
NewPrompt == delivered # {} /\ delivered' = {}

ScheduleInit == delivered = {}

ScheduleNext ==
    \/ AuraFlowSigmaScheduler \/ Lumina2SigmaScheduler \/ AnimaSigmaScheduler
    \/ HunyuanImage21SigmaScheduler \/ SD3SigmaScheduler \/ ZImageSigmaScheduler
    \/ Flux1SchnellSigmaScheduler \/ Krea2SigmaScheduler \/ QwenImageSigmaScheduler
    \/ QwenImage21SigmaScheduler \/ LTXSigmaScheduler \/ WanSigmaScheduler
    \/ NewPrompt

ScheduleSpec == ScheduleInit /\ [][ScheduleNext]_delivered

-----------------------------------------------------------------------------
(* Properties                                                              *)

LeastOf(S) == CHOOSE n \in S : \A k \in S : n <= k
GreatestOf(S) == CHOOSE n \in S : \A k \in S : n >= k

(* A schedule that is not marked as modified has steps a declared source   *)
(* vouches for and carries the evidence of that source; one outside every  *)
(* declared range is only made where the profile allows modified steps;    *)
(* and grid and transforms are the declared ones.  Most builders and       *)
(* schemas hold these numbers apart; those of Wan and of native Qwen take  *)
(* them from one table (build_*_schedule and _schema of the files in       *)
(* profiles/).                                                             *)
EvidenceFollowsReference ==
    \A made \in delivered :
        LET s == made.schedule
            p == ProfileOf(s.profile)
            vouched(r) == s.steps \in LeastOf(r.reference) .. GreatestOf(r.reference)
            ranged(r) == s.steps \in r.minimum .. r.maximum
        IN /\ s.evidence \notin {"modified", "experimental"} =>
                \E r \in p.recipes : vouched(r) /\ ranged(r) /\ s.evidence = r.evidence
           /\ s.evidence = "modified" =>
                \A r \in p.recipes : vouched(r) => s.profile \in LTXStretchable
           /\ (\A r \in p.recipes : ~ranged(r)) => \E r \in p.recipes : r.modifiable
           /\ s.evidence = "official" => ~s.warned
           /\ s.grid = p.grid /\ s.transforms = p.transforms

(* The caller switches experts at boundary_step of the whole schedule: of  *)
(* the sigmas it was handed, a slice included, those before that step lie  *)
(* above the boundary and the others do not (derive_wan_boundary,          *)
(* build_wan_sigma_schedule).                                              *)
BoundarySplitsDelivered ==
    \A made \in delivered, d \in WanDefinitions :
        d.id = made.schedule.profile /\ d.boundary # 0 =>
            \A i \in DOMAIN made.sigmas :
                IF made.start + i - 1 < made.schedule.boundary
                THEN made.sigmas[i] >= Float32[Boundary(d)]
                ELSE made.sigmas[i] <= Float32[Boundary(d)]
=============================================================================

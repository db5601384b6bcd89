--------------------------- MODULE ScheduleArtifacts ---------------------------
(***************************************************************************)
(* The artifact of a schedule: core/artifacts.py and core/fingerprints.py. *)
(* An artifact joins a numerical projection (the sigmas as tokens of one   *)
(* precision) and a construction projection (how they came about), each    *)
(* with its fingerprint.  A fingerprint is SHA-256 of canonical JSON and   *)
(* is taken to be injective; what is written and read is the projection    *)
(* itself, since canonical JSON loses nothing of it.                       *)
(*                                                                         *)
(* A schedule result is given by the inputs that were requested, those     *)
(* that took effect, its sigmas and how it was sliced.                     *)
(***************************************************************************)
EXTENDS ScheduleOps, CanonicalProjection

CONSTANTS
    Open,           \* slicing.end_step is None
    NoProfile       \* provenance without a profile

Precisions == {"float32", "float64"}
Domains == {"unit_flow", "continuous_edm"}     \* those with external sigmas

(* _sha256_identity                                                        *)
Fingerprint(projection) == [sha256 |-> projection]

(* float_to_ieee_hex: a token keeps a float64, and rounds to a float32     *)
Token(value, precision) == IF precision = "float32" THEN Float32[value] ELSE value

(* build_numerical_projection                                              *)
NumericalOf(result, precision) ==
    [domain |-> result.domain, precision |-> precision,
     sigmas |-> [i \in DOMAIN result.sigmas |-> Token(result.sigmas[i], precision)]]

(* _validate_numerical_projection: the tokens are judged again, so that    *)
(* sigmas that meet in float32 are refused.  canonical_projection_bytes    *)
(* bounds every array.                                                     *)
ValidNumerical(n) ==
    /\ n.precision \in Precisions /\ n.domain \in Domains
    /\ ValidFor(n.sigmas, Steps(n.sigmas), TRUE)
    /\ CanonicalList(n.sigmas)

(* _slice_policy                                                           *)
SlicePolicy(result) ==
    IF result.denoise # One THEN "denoise_tail"
    ELSE IF result.start # 0 \/ result.end # Open THEN "manual_range"
    ELSE "full"

(* the slicing of build_schedule_artifact; an end_step of None becomes the *)
(* number of steps that took effect                                        *)
SlicingOf(result, precision) ==
    [denoise |-> Token(result.denoise, precision), start_step |-> result.start,
     end_step |-> IF result.end = Open THEN result.effective.steps ELSE result.end,
     policy |-> SlicePolicy(result)]

(* _inputs_projection                                                      *)
InputsOf(inputs, result, precision) ==
    [steps |-> inputs.steps, size |-> inputs.size, precision |-> precision,
     profile |-> result.profile]

ConstructionOf(result, precision) ==
    [requested |-> InputsOf(result.requested, result, precision),
     effective |-> InputsOf(result.effective, result, precision),
     overrides |-> result.overrides, transforms |-> result.transforms,
     terminal |-> Token(result.sigmas[Len(result.sigmas)], precision),
     slicing |-> SlicingOf(result, precision), source |-> result.source,
     numerical_fingerprint |-> Fingerprint(NumericalOf(result, precision))]

(* the fields in which requested and effective inputs differ               *)
Changed(c) ==
    {field \in {"steps", "size"} : c.requested[field] # c.effective[field]}

(* validate_transform_chain: each transform takes the domain the one       *)
(* before it gives and has no earlier stage; there is one time shift and   *)
(* one spacing (stages 1 and 2) at most; no transforms, no change of domain *)
Singletons == {1, 2}

Chained(transforms, domain) ==
    /\ \A i \in 1 .. Len(transforms) - 1 :
        /\ transforms[i].to = transforms[i + 1].from
        /\ transforms[i].stage <= transforms[i + 1].stage
        /\ transforms[i].stage \in Singletons => transforms[i].stage # transforms[i + 1].stage
    /\ transforms # << >> => transforms[Len(transforms)].to = domain

(* the slicing part of _validate_construction_projection                   *)
ValidSlicing(slicing, steps) ==
    /\ slicing.denoise \in 0 .. One
    /\ slicing.start_step >= 0 /\ slicing.end_step > slicing.start_step
    /\ slicing.end_step - slicing.start_step = steps
    /\ CASE slicing.policy = "full" -> slicing.denoise = One /\ slicing.start_step = 0
         [] slicing.policy = "manual_range" -> slicing.denoise = One
         [] slicing.policy = "denoise_tail" -> slicing.denoise # One

(* _validate_construction_projection                                       *)
ValidConstruction(c, n) ==
    /\ c.requested.precision = n.precision /\ c.effective.precision = n.precision
    /\ c.effective.steps = Steps(n.sigmas)
    /\ Changed(c) \subseteq c.overrides
    /\ Chained(c.transforms, n.domain)
    /\ c.terminal = n.sigmas[Len(n.sigmas)]
    /\ ValidSlicing(c.slicing, c.effective.steps)

(* ScheduleArtifact.__post_init__: both fingerprints are computed again    *)
ValidArtifact(a) ==
    /\ a.numerical_fingerprint = Fingerprint(a.numerical)
    /\ a.construction_fingerprint = Fingerprint(a.construction)
    /\ a.construction.numerical_fingerprint = a.numerical_fingerprint
    /\ ValidNumerical(a.numerical)
    /\ ValidConstruction(a.construction, a.numerical)

ArtifactOf(result, precision) ==
    LET n == NumericalOf(result, precision)
        c == ConstructionOf(result, precision)
    IN  [numerical |-> n, construction |-> c, numerical_fingerprint |-> Fingerprint(n),
         construction_fingerprint |-> Fingerprint(c)]

(* build_schedule_artifact returns                                         *)
CanBuildArtifact(result, precision) ==
    /\ result.ownership = "external_sigmas"
    /\ ValidFor(result.sigmas, result.effective.steps, TRUE)
    /\ ValidArtifact(ArtifactOf(result, precision))

(* how others refer to an artifact                                         *)
ReferenceTo(a) ==
    [construction |-> a.construction_fingerprint, numerical |-> a.numerical_fingerprint]
=============================================================================

-------------------------- MODULE ProfileResolution --------------------------
(***************************************************************************)
(* May a profile be used with this model, on this host, with this sampler? *)
(* profiles/krea2_variant.py collects what is known of the model and       *)
(* resolves its variant; core/capabilities.py compares profile, sampler    *)
(* and request; profiles/resolution.py joins them and what the host can do *)
(* into one decision.                                                      *)
(*                                                                         *)
(* Evidence is a set of pairs <<source, variant>>; "none" is the variant   *)
(* of evidence for the family only, and of a hash that is not known.       *)
(***************************************************************************)
EXTENDS Naturals, FiniteSets, Sequences

CONSTANTS
    MaxEvidence,    \* bound: pieces of evidence collected
    Profiles,       \* the registered profiles asked for
    Samplers,       \* the samplers asked for
    Hosts           \* what hosts offer

VARIABLE decisions  \* the decision of this prompt, a set of at most one

ASSUME ResolutionAssumption ==
    /\ \A p \in Profiles : {"family", "variant", "reference", "external"} \subseteq DOMAIN p
    /\ \A s \in Samplers : s.terminal \in {"zero", "nonzero", "either"}

Variants == {"raw", "turbo"}

(* Krea2VariantEvidenceSource in the order of _SOURCE_RANK                 *)
SourceOrder ==
    <<"explicit", "profile", "framework", "sha256", "header", "filename", "tensor", "class">>

Resolving == {"explicit", "profile", "framework", "sha256"}
Suggesting == {"header", "filename"}

(* collect_krea2_variant_evidence: what each source can say.  The header   *)
(* has two fields and a name two tokens, which may contradict each other.  *)
Collectable ==
    LET any == (Resolving \cup Suggesting) \X Variants
               \cup {"tensor", "class", "sha256"} \X {"none"}
    IN {e \in SUBSET any :
            /\ Cardinality(e) <= MaxEvidence    \* bound
            /\ \A s \in Resolving : Cardinality({x \in e : x[1] = s}) <= 1}

(* A local file is read for its header, tensors and name only.             *)
FromLocalFile(evidence) == \A x \in evidence : x[1] \in {"header", "tensor", "filename"}

VariantsFrom(evidence, sources) ==
    {x[2] : x \in {y \in evidence : y[1] \in sources}} \ {"none"}

Decisive(evidence, sources) ==
    CHOOSE i \in DOMAIN SourceOrder :
        /\ SourceOrder[i] \in sources
        /\ \E v \in Variants : <<SourceOrder[i], v>> \in evidence
        /\ \A j \in 1 .. i - 1 :
              SourceOrder[j] \in sources => \A v \in Variants : <<SourceOrder[j], v>> \notin evidence

Identity(status, confirmed, suggested) ==
    [status |-> status, confirmed |-> confirmed, suggested |-> suggested]

\* mutant: the source of the highest rank wins without a look at the others
ResolveByRank(evidence) ==
    LET resolving == VariantsFrom(evidence, Resolving)
        suggested == VariantsFrom(evidence, Suggesting)
    IN IF resolving # {} THEN
            Identity("confirmed",
                     CHOOSE v \in Variants :
                        <<SourceOrder[Decisive(evidence, Resolving)], v>> \in evidence, "none")
       ELSE IF Cardinality(suggested) = 1 THEN
            Identity("suggested", "none", CHOOSE v \in suggested : TRUE)
       ELSE Identity("ambiguous", "none", "none")

(* resolve_krea2_variant                                                   *)
Resolve(evidence) ==
    LET resolving == VariantsFrom(evidence, Resolving)
        suggested == VariantsFrom(evidence, Suggesting)
    IN IF Cardinality(resolving) > 1 THEN Identity("conflict", "none", "none")
       ELSE IF resolving # {} THEN
            Identity("confirmed", CHOOSE v \in resolving : TRUE, "none")
       ELSE IF Cardinality(suggested) = 1 THEN
            Identity("suggested", "none", CHOOSE v \in suggested : TRUE)
       ELSE Identity("ambiguous", "none", "none")

(* Where the source that decided stands: sampled for the report            *)
DecidedBy(evidence) ==
    LET identity == Resolve(evidence)
    IN IF identity.status = "confirmed" THEN {SourceOrder[Decisive(evidence, Resolving)]}
       ELSE IF identity.status = "suggested" THEN {SourceOrder[Decisive(evidence, Suggesting)]}
       ELSE {}

(* inspect_local_checkpoint_evidence: the report on one file               *)
Inspect(evidence) ==
    [family |-> IF evidence = {} THEN "none" ELSE "krea2",
     identity |-> Resolve(evidence), source |-> DecidedBy(evidence)]

-----------------------------------------------------------------------------
(* Capabilities                                                            *)

(* _terminal_is_compatible: every profile here ends in zero.               *)
TerminalAccepted(sampler) == sampler.terminal \in {"zero", "either"}

(* A request: does it use partial denoise or timesteps per token?          *)
Requests == [partial : BOOLEAN, per_token : BOOLEAN]

(* evaluate_compatibility: the reasons against this combination.  The      *)
(* model has the capabilities of the profile (adapt_krea2_model_evidence), *)
(* and no profile supports timesteps per token.                            *)
CoreReasons(sampler, request) ==
    {r \in {"prediction", "domain", "ownership", "terminal", "behavior", "noise", "state",
            "partial", "per_token"} :
        \/ r \in sampler.lacks
        \/ r = "terminal" /\ ~TerminalAccepted(sampler)
        \/ r = "behavior" /\ ~sampler.deterministic
        \/ r = "noise" /\ ~sampler.deterministic
        \/ r = "state" /\ sampler.state # {}
        \/ r = "partial" /\ request.partial /\ ~sampler.partial
        \/ r = "per_token" /\ request.per_token}

CoreLevel(profile, sampler, request) ==
    IF CoreReasons(sampler, request) # {} THEN "reject"
    ELSE IF sampler.id \notin profile.reference THEN "warn" ELSE "allow"

(* _required_host_capability_ids and _resolve_host_requirements: what is   *)
(* needed has to be there, and neither experimental nor unsupported.       *)
HostRequirements(profile, sampler, request) ==
    {sampler.id}
        \cup (IF profile.external THEN {"external_sigmas"} ELSE {})
        \cup (IF request.partial THEN {"partial_denoise"} ELSE {})
        \cup (IF request.per_token THEN {"per_token_timesteps"} ELSE {})

HostReasons(host, requirements) ==
    {c \in requirements : c \notin DOMAIN host \/ host[c] # "landed"}

(* _identity_reasons                                                       *)
IdentityReasons(identity, profile) ==
    IF identity.status # "confirmed" THEN {identity.status}
    ELSE (IF profile.family # "krea2" THEN {"family"} ELSE {})
         \cup (IF profile.variant # identity.confirmed THEN {"variant"} ELSE {})

(* resolve_profile_capabilities                                            *)
Decision(profile, evidence, host, sampler, request) ==
    LET additional == IdentityReasons(Resolve(evidence), profile)
                      \cup HostReasons(host, HostRequirements(profile, sampler, request))
    IN IF additional # {} THEN "reject" ELSE CoreLevel(profile, sampler, request)

-----------------------------------------------------------------------------

(* ModelAwareSigmaScheduler and the callers of the resolution              *)
ResolveProfileCapabilities ==
    /\ decisions = {}
    /\ \E p \in Profiles, e \in Collectable, h \in Hosts, s \in Samplers, r \in Requests :
          decisions' = {[profile |-> p, evidence |-> e, sampler |-> s, request |-> r,
                         level |-> Decision(p, e, h, s, r)]}

InspectLocalCheckpoint ==
    /\ decisions = {}
    /\ \E e \in Collectable :
          /\ FromLocalFile(e)
          /\ decisions' = {[report |-> Inspect(e), evidence |-> e]}

NextResolution == decisions # {} /\ decisions' = {}

ResolutionInit == decisions = {}

ResolutionNext ==
    \/ ResolveProfileCapabilities \/ InspectLocalCheckpoint \/ NextResolution

ResolutionSpec == ResolutionInit /\ [][ResolutionNext]_decisions

-----------------------------------------------------------------------------

(* No profile is used against what is known of the model: a decision that  *)
(* does not reject rests on trusted evidence for the variant of the        *)
(* profile, none of the trusted evidence names another variant, and a      *)
(* sampler that is not a reference one is at least warned about.  What a   *)
(* local file says of itself decides nothing (resolve_krea2_variant,       *)
(* _identity_reasons, inspect_local_checkpoint_evidence).                  *)
NoDecisionAgainstEvidence ==
    \A d \in decisions :
        IF "report" \in DOMAIN d
        THEN /\ d.report.identity.confirmed = "none"
             /\ d.report.source \subseteq Suggesting
        ELSE d.level # "reject" =>
                /\ d.profile.family = "krea2"
                /\ VariantsFrom(d.evidence, Resolving) = {d.profile.variant}
                /\ ~d.request.per_token
                /\ d.request.partial => d.sampler.partial
                /\ d.level = "allow" => d.sampler.id \in d.profile.reference
=============================================================================

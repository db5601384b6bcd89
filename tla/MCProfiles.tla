----------------------------- MODULE MCProfiles -----------------------------
(* One instance for the modules about profiles.  They share no state that  *)
(* changes: part says which of them this behavior is about, and the        *)
(* others stay as they began.                                              *)
EXTENDS ModelProfiles, ProfileRegistry, ProfileResolution, H3HostCases, H3Artifacts

VARIABLE part

MCFloat32 == [v \in 0 .. 1000 |-> IF v % 50 = 33 THEN v - 1 ELSE v]
MCSteps == {1, 2, 3, 4, 5, 6, 8, 10, 12, 20, 25, 27, 28, 30, 40, 50, 52}
MCSlices == {<<0, -1>>, <<3, -1>>, <<0, 2>>}

MCSchemaChoices == [evidence : {"official", "modified"}, recipes : {1, 2}]
MCBuiltinSchemas == [k \in {"krea2.raw"} |-> [evidence |-> "official", recipes |-> 1]]

MCProfiles ==
    {[family |-> p.family, variant |-> p.variant, reference |-> {p.sampler},
      external |-> TRUE] : p \in Krea2RawDeclared \cup Krea2TurboDeclared
                                 \cup Krea2LoraDeclared \cup Flux1SchnellDeclared}
MCSamplers ==
    {[id |-> id, terminal |-> t, lacks |-> {}, deterministic |-> det, state |-> st,
      partial |-> det] :
        id \in {"comfy.euler", "lcm"}, t \in {"zero", "nonzero"}, det \in {TRUE},
        st \in {{}, {"history"}}}
    \cup {[id |-> "sde", terminal |-> "either", lacks |-> {"domain"},
           deterministic |-> FALSE, state |-> {}, partial |-> FALSE]}
MCHosts ==
    {[c \in {"comfy.euler", "lcm", "external_sigmas", "partial_denoise"} |->
        IF c = x THEN l ELSE "landed"] :
        x \in {"comfy.euler", "partial_denoise"}, l \in {"landed", "experimental"}}

Answer(dtype, values) == [dtype |-> dtype, values |-> values]
MCHostResults ==
    {Answer("float32", v) :
        v \in {<<1000, 800, 500, 200, 0>>, <<1000, 900, 800, 700, 600, 500, 300, 100, 0>>,
               <<1000, 600, 600, 200, 0>>, <<800, 500, 0>>, <<1000, 990, 700, 500, 200, 0>>,
               <<500, 0, 0>>, <<800, 200>>, <<200, 800, 0>>, <<1000>>, <<1200, 500, 0>>}}
    \cup {Answer("float16", <<800, 500, 0>>)}
MCSelectors ==
    {<<"disabled", "disabled">>, <<"fl2va-4-768p", "disabled">>,
     <<"disabled", "fl2va-4-768p">>, <<"fl2va-8-v1.0", "fl2va-8-v1.0">>,
     <<"ref2va-4-v0.1", "disabled">>, <<"fl2va-4-v0.1", "ref2va-4-v0.1">>}
MCH3Slices == {<<0, -1>>, <<1, -1>>, <<0, 2>>, <<1, 4>>}
MCHandlers == {{"simple", "beta", "other"}, NativeSchedulers}

Complete(n) == Host(LinearGrid(n + 1, One, 0))
MCCaseAnswers ==
    [n \in MatrixSteps |->
        {Answer("float32", v) :
            v \in {Complete(n), Complete(n + 1), Complete(n - 1), <<One>> \o Complete(n - 1),
                   [Complete(n) EXCEPT ![n + 1] = 50]}}
        \cup {Answer("float16", Complete(n))}]

vars == <<delivered, entries, decisions, delegation, attempt, verdict, part>>

Init ==
    /\ ScheduleInit /\ RegistryInit /\ ResolutionInit /\ DelegationInit /\ CasesInit
    /\ ArtifactsInit
    /\ part \in {"nodes", "registry", "resolution", "delegation", "cases", "artifacts"}
    /\ part \notin {"delegation", "cases"} => host.version = "0.30.0"
    /\ part # "delegation" => model.h3 /\ model.sampling = "flow"
    /\ part # "cases" => "other" \in host.handlers

Next ==
    \/ part = "nodes" /\ ScheduleNext
       /\ UNCHANGED <<entries, decisions, delegation, attempt, verdict, part>>
    \/ part = "registry" /\ RegistryNext
       /\ UNCHANGED <<delivered, decisions, delegation, attempt, verdict, part>>
    \/ part = "resolution" /\ ResolutionNext
       /\ UNCHANGED <<delivered, entries, delegation, attempt, verdict, part>>
    \/ part = "delegation" /\ DelegationNext
       /\ UNCHANGED <<delivered, entries, decisions, attempt, verdict, part>>
    \/ part = "cases" /\ CasesNext
       /\ UNCHANGED <<delivered, entries, decisions, verdict, part>>
    \/ part = "artifacts" /\ ArtifactsNext
       /\ UNCHANGED <<delivered, entries, decisions, delegation, attempt, part>>

Spec == Init /\ [][Next]_vars
=============================================================================

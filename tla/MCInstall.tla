------------------------------ MODULE MCInstall ------------------------------
(* One instance for the node registry, for packs that change a host, for    *)
(* loads of the package and for packaged workflows.  They share no state    *)
(* that changes: part says which of them this behavior is about.            *)
EXTENDS NodeRegistry, HostMutation, PackageLoading, WorkflowFixtures

CONSTANT Apis   \* Comfy API modules a host may offer

(* What packs register under a name, the host describes in readable form.   *)
ASSUME ContentsAssumption ==
    \A c \in Contents, id \in NodeNames : NodeOf(id, [c EXCEPT !.name = id]) # Malformed

VARIABLE part

Raw(name, shape, type, options) ==
    [name |-> name, shape |-> shape, type |-> type, options |-> options]

Inputs(required, optional, hidden) ==
    [s \in Sections |-> IF s = "required" THEN required
                        ELSE IF s = "optional" THEN optional ELSE hidden]

V1Payload(name, input, deprecated, experimental) ==
    [form |-> "v1", name |-> name, aligned |-> TRUE, input |-> input,
     outputs |-> <<"SIGMAS">>, deprecated |-> deprecated, experimental |-> experimental]

Modes == Raw("mode", "options", "COMBO", <<"a", "b">>)
Steps == Raw("steps", "list", "INT", << >>)
Prompt == Raw("prompt", "list", "PROMPT", << >>)

(* Inputs as nodes declare them, two in which a name or an option repeats,  *)
(* and a COMBO without options.                                             *)
MCInputs ==
    {Inputs({Modes, Steps}, {}, {Prompt}),
     Inputs({Steps}, {Raw("mode", "typed", "COMBO", <<"a">>)}, {}),
     Inputs({Steps}, {Raw("steps", "text", "INT", << >>)}, {}),
     Inputs({Raw("mode", "options", "COMBO", <<"a", "a">>)}, {}, {}),
     Inputs({Raw("mode", "text", "COMBO", << >>)}, {}, {})}

V2Raw(key, name, type, optional, options) ==
    [key |-> key, name |-> name, type |-> type, isOptional |-> optional, options |-> options]

V2PayloadOf(name, inputs, deprecated, experimental) ==
    [form |-> "v2", name |-> name, aligned |-> TRUE, inputs |-> inputs,
     outputs |-> <<"SIGMAS">>, deprecated |-> deprecated, experimental |-> experimental]

MCV2Inputs ==
    {{V2Raw("mode", "mode", "COMBO", TRUE, <<"a", "b">>),
      V2Raw("steps", "steps", "INT", FALSE, << >>)},
     {V2Raw("steps", "stepz", "INT", FALSE, << >>)}}

Legacy(id, input, deprecated) ==
    [kind |-> "legacy_v1", id |-> id, category |-> "Sigmax",
     payload |-> V1Payload(id, input, deprecated, FALSE),
     deprecated |-> deprecated, experimental |-> FALSE]

V3(id, payload, experimental) ==
    [kind |-> "comfy_v3", id |-> id, category |-> "Sigmax", payload |-> payload,
     deprecated |-> FALSE, experimental |-> experimental]

V2(id, inputs, category) ==
    [kind |-> "node_definition_v2", id |-> id, category |-> category,
     payload |-> V2PayloadOf(id, inputs, TRUE, FALSE),
     deprecated |-> TRUE, experimental |-> FALSE]

MCDeclarations ==
    {Legacy("Sigmax.A", input, FALSE) : input \in MCInputs}
    \cup {Legacy("Sigmax.B", Inputs({Steps}, {}, {}), TRUE),
          Legacy("Other.A", Inputs({Steps}, {}, {}), FALSE),
          V3("Sigmax.B", V1Payload("Sigmax.B", Inputs({Modes}, {}, {Prompt}), FALSE, TRUE), TRUE),
          V3("Sigmax.B", V1Payload("Sigmax.B", Inputs({Modes}, {}, {}), FALSE, TRUE), FALSE),
          V3("Sigmax.A", V1Payload("Sigmax.B", Inputs({Modes}, {}, {}), FALSE, TRUE), TRUE)}
    \cup {V3("Sigmax.B", V2PayloadOf("Sigmax.B", i, FALSE, FALSE), FALSE) : i \in MCV2Inputs}
    \cup {V2("Sigmax.C", i, c) : i \in MCV2Inputs, c \in {"Sigmax", "sampling"}}

MCBatches == {<<d>> : d \in MCDeclarations} \cup {<<d, e>> : d, e \in MCDeclarations}

MCApis ==
    {[module |-> m, version |-> v, stable |-> s, symbols |-> TRUE] :
        m \in {"latest", "v1"}, v \in {"latest", "v1"}, s \in BOOLEAN}

MCParts == <<"adapters", "nodes">>

(* What the host's nodes and those of packs look like, for HostMutation.    *)
MCContents ==
    {V1Payload("any", Inputs({Raw("sigmas", "list", "SIGMAS", << >>)}, {}, {}), d, FALSE) :
        d \in BOOLEAN}

AnyContent == CHOOSE c \in MCContents : ~c.deprecated

MCBaseline ==
    [nodes |-> [id \in NodeNames |->
                  IF id = "Sigmax.A" THEN [provider |-> Sigmax, content |-> AnyContent]
                  ELSE IF id = "SamplerCustom"
                    THEN [provider |-> "comfyui", content |-> AnyContent] ELSE Absent],
     schedulers |-> [n \in SchedulerNames |->
                  IF n = "simple" THEN [provider |-> "comfyui", content |-> AnyContent]
                  ELSE Absent],
     torch |-> "unmodified", patch |-> "unmodified",
     ownership |-> "external_sigmas", shifts |-> 1, native_shifted |-> FALSE]

(* A node with two widgets and a socket, and what its author may declare.   *)
Input(name, type, section, options) ==
    [name |-> name, type |-> type, section |-> section, options |-> options]

MCNodeSchema ==
    [form |-> "v1", deprecated |-> FALSE, experimental |-> FALSE, canonical |-> TRUE,
     inputs |-> <<Input("mode", "COMBO", "required", <<"a", "b">>),
                  Input("steps", "INT", "required", << >>),
                  Input("sigmas", "SIGMAS", "optional", << >>)>>]

MCAuthorInputs ==
    {Input("mode", "COMBO", "required", <<"b">>), Input("mode", "COMBO", "required", << >>),
     Input("count", "INT", "optional", << >>), Input("steps", "FLOAT", "optional", << >>),
     Input("model", "MODEL", "required", << >>)}

MCWidgetValues ==
    {[kind |-> "str", is |-> v] : v \in {"a", "b"}}
    \cup {[kind |-> "int", is |-> v] : v \in {"1", "2"}}

vars == <<registrations, mutation, loader, validation, part>>

Init ==
    /\ RegistrationInit /\ MutationInit /\ LoadingInit /\ ValidationInit
    /\ part \in {"registry", "packs", "package", "workflows"}

Next ==
    \/ part = "registry" /\ RegistrationNext /\ UNCHANGED <<mutation, loader, validation, part>>
    \/ part = "packs" /\ MutationNext /\ UNCHANGED <<registrations, loader, validation, part>>
    \/ part = "package" /\ LoadingNext
       /\ UNCHANGED <<registrations, mutation, validation, part>>
    \/ part = "workflows" /\ ValidationNext
       /\ UNCHANGED <<registrations, mutation, loader, part>>

Spec == Init /\ [][Next]_vars

(***************************************************************************)
(* What adapt_comfyui_host reads off the host's nodes.                     *)
(***************************************************************************)
CapabilitiesOf(h, api) ==
    AdaptHost([id \in {i \in NodeNames : h.nodes[i] # Absent} |->
                [h.nodes[id].content EXCEPT !.name = id]], api, TRUE)

(***************************************************************************)
(* However many packs were accepted one after the other, the host would be *)
(* accepted against the very first snapshot, and no capability was taken   *)
(* from it on the way: what was landed still is, although packs bring      *)
(* deprecated nodes under names the capability looks for                   *)
(* (evaluate_host_mutation, _best_lifecycle).                              *)
(***************************************************************************)
AcceptedChainKeepsHost ==
    /\ ChainIsAllowed
    /\ host # Baseline =>
          \A api \in {a \in Apis : Probeable(a)} :
              LET before == CapabilitiesOf(Baseline, api)
                  now == CapabilitiesOf(host, api)
              IN  \A c \in DOMAIN before : Rank(now[c]) >= Rank(before[c])
=============================================================================

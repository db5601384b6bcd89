----------------------------- MODULE NodeSchemas -----------------------------
(***************************************************************************)
(* comfyui_sigmax/adapters/comfyui.py: what the public descriptions of the *)
(* host's nodes come down to, and which capabilities of the host they are  *)
(* evidence for.                                                           *)
(*                                                                         *)
(* A payload is the description of one node, in the form of /object_info   *)
(* ("v1": inputs by section) or of Node Definition JSON v2 ("v2").  Texts  *)
(* are bounded and counts are below their limits.                          *)
(***************************************************************************)
EXTENDS Integers, Sequences, FiniteSets, SequencesExt

CONSTANT Malformed      \* ComfyAdapterCompatibilityError, NODE_SCHEMA_MALFORMED

Sections == {"required", "optional", "hidden"}

(* _normalize_options *)
GoodOptions(options) == options # << >> /\ IsInjective(options)

(***************************************************************************)
(* _normalize_v1_input.  A declaration is a text, a list that begins with  *)
(* a text, or a list that begins with the options.  A COMBO needs options, *)
(* also in the text form, which has no place for them (ComfyNodeInput).    *)
(***************************************************************************)
V1TypeName(raw) == IF raw.shape = "options" THEN "COMBO" ELSE raw.type

V1InputReadable(raw) ==
    V1TypeName(raw) = "COMBO" => raw.shape # "text" /\ GoodOptions(raw.options)

V1Input(raw, section) ==
    [name |-> raw.name, type |-> V1TypeName(raw), section |-> section,
     options |-> IF V1TypeName(raw) = "COMBO" THEN raw.options ELSE << >>]

(***************************************************************************)
(* ComfyNodeDefinition: inputs are sorted by section and name, so a set    *)
(* stands for them, and no name occurs twice, in whatever sections.        *)
(***************************************************************************)
DistinctNames(inputs) == \A i, j \in inputs : i.name = j.name => i = j

Definition(form, name, inputs, payload) ==
    IF ~DistinctNames(inputs) THEN Malformed
    ELSE [node_id |-> name, form |-> form, inputs |-> inputs,
          outputs |-> payload.outputs,
          deprecated |-> payload.deprecated, experimental |-> payload.experimental]

(* _normalize_v1_node *)
V1Node(payload, expected) ==
    LET raws == UNION {{<<s, raw>> : raw \in payload.input[s]} : s \in Sections}
    IN  IF \/ payload.name # expected
           \/ ~payload.aligned      \* as many output names and flags as types
           \/ \E r \in raws : ~V1InputReadable(r[2])
          THEN Malformed
          ELSE Definition("v1", payload.name, {V1Input(r[2], r[1]) : r \in raws}, payload)

(***************************************************************************)
(* normalize_node_definition_v2.  There are no hidden inputs in this form. *)
(***************************************************************************)
V2InputReadable(raw) ==
    /\ raw.key = raw.name
    /\ raw.type = "COMBO" => GoodOptions(raw.options)

V2Input(raw) ==
    [name |-> raw.name, type |-> raw.type,
     section |-> IF raw.isOptional THEN "optional" ELSE "required",
     options |-> IF raw.type = "COMBO" THEN raw.options ELSE << >>]

V2Node(payload) ==
    IF ~payload.aligned \/ \E raw \in payload.inputs : ~V2InputReadable(raw)
      THEN Malformed
      ELSE Definition("v2", payload.name, {V2Input(raw) : raw \in payload.inputs}, payload)

(***************************************************************************)
(* normalize_object_info, one entry: the key is the node's name in either  *)
(* form.  Of the whole answer nothing is used when one entry is malformed. *)
(***************************************************************************)
NodeOf(key, payload) ==
    IF payload.form = "v1" THEN V1Node(payload, key)
    ELSE IF payload.name = key THEN V2Node(payload) ELSE Malformed

ObjectInfo(info) == {NodeOf(key, info[key]) : key \in DOMAIN info}

-----------------------------------------------------------------------------
(* Lifecycles in the order in which _best_lifecycle prefers them. *)
Lifecycles == <<"unsupported", "experimental", "landed">>

Rank(lifecycle) == CHOOSE i \in DOMAIN Lifecycles : Lifecycles[i] = lifecycle

(* _node_lifecycle, _lifecycle *)
NodeLifecycle(node) ==
    IF node.deprecated THEN "unsupported"
    ELSE IF node.experimental THEN "experimental" ELSE "landed"

(***************************************************************************)
(* _best_lifecycle: unsupported when no node qualifies.                    *)
(***************************************************************************)
BestLifecycle(nodes) ==
    IF nodes = {} THEN "unsupported"
    ELSE Lifecycles[CHOOSE i \in {Rank(NodeLifecycle(n)) : n \in nodes} :
                        \A n \in nodes : i >= Rank(NodeLifecycle(n))]

(***************************************************************************)
(* probe_comfy_api: only a numbered module that calls itself stable has    *)
(* landed.  comfy_api.latest must call its version "latest", a numbered    *)
(* module must be of the version it is named after.                        *)
(***************************************************************************)
Probeable(api) == api.symbols /\ api.version = api.module

ApiLifecycle(api) ==
    IF api.module # "latest" /\ api.stable THEN "landed" ELSE "experimental"

(* require_stable_numbered_api *)
StableNumbered(api) == api.module # "latest" /\ ApiLifecycle(api) = "landed"

(***************************************************************************)
(* adapt_comfyui_host: each capability rests on the nodes that have the    *)
(* input it needs; the host must be in the window of tested versions,      *)
(* which is one version at one revision.                                   *)
(***************************************************************************)
Having(nodes, id, input) ==
    {n \in nodes : n.node_id = id /\ \E i \in n.inputs : i.name = input}

ExternalSigmas(nodes) ==
    {n \in nodes : /\ n.node_id \in {"SamplerCustom", "SamplerCustomAdvanced"}
                   /\ \E i \in n.inputs : i.name = "sigmas" /\ i.type = "SIGMAS"}

PartialDenoise(nodes) ==
    Having(nodes, "BasicScheduler", "denoise")
        \cup Having(nodes, "SplitSigmas", "step")
        \cup Having(nodes, "SplitSigmasDenoise", "denoise")

EulerSelectors(nodes) ==
    {n \in nodes : /\ n.node_id = "KSamplerSelect"
                   /\ \E i \in n.inputs :
                        i.name = "sampler_name" /\ Contains(i.options, "euler")}

HostCapabilities(nodes, api) ==
    [v3 |-> ApiLifecycle(api),
     partial_denoise |-> BestLifecycle(PartialDenoise(nodes)),
     per_token_timesteps |-> "unsupported",
     sampler_euler |-> BestLifecycle(EulerSelectors(nodes)),
     external_sigmas |-> BestLifecycle(ExternalSigmas(nodes))]

AdaptHost(info, api, tested) ==
    IF ~tested \/ ~Probeable(api) \/ Malformed \in ObjectInfo(info) THEN Malformed
    ELSE HostCapabilities(ObjectInfo(info), api)
=============================================================================

---------------------------- MODULE NodeRegistry ----------------------------
(***************************************************************************)
(* comfyui_sigmax/adapters/registration.py: declarations of nodes are      *)
(* discovered, registered one by one or in batches, and shown in two       *)
(* views, that of /object_info and that of Node Definition JSON v2.        *)
(*                                                                         *)
(* The registry is immutable: a batch that fails leaves its holder with    *)
(* the registry it had.                                                    *)
(***************************************************************************)
EXTENDS NodeSchemas

CONSTANTS
    Declarations,   \* node classes and schemas somebody may declare
    Batches,        \* sequences of declarations that are registered at once
    SigmaxIds,      \* the node IDs that match _NODE_ID_PATTERN
    Collision       \* NodeRegistrationError, NODE_ID_COLLISION

(* What classes and schemas declare, in either form; a legacy class is      *)
(* described in that of /object_info.                                      *)
V1Payloads ==
    [form : {"v1"}, name : STRING, aligned : BOOLEAN,
     input : [Sections -> SUBSET [name : STRING, shape : {"text", "list", "options", "typed"},
                                  type : STRING, options : Seq(STRING)]],
     outputs : Seq(STRING), deprecated : BOOLEAN, experimental : BOOLEAN]

V2Payloads ==
    [form : {"v2"}, name : STRING, aligned : BOOLEAN,
     inputs : SUBSET [key : STRING, name : STRING, type : STRING, isOptional : BOOLEAN,
                      options : Seq(STRING)],
     outputs : Seq(STRING), deprecated : BOOLEAN, experimental : BOOLEAN]

TypeNames == STRING \cup {"COMBO"}      \* that of an input with options

NodeInputs == [name : STRING, type : TypeNames, section : Sections, options : Seq(STRING)]

NodeDefinitions ==
    [node_id : STRING, form : {"v1", "v2"}, inputs : SUBSET NodeInputs,
     outputs : Seq(STRING), deprecated : BOOLEAN, experimental : BOOLEAN]

ASSUME DeclarationsAssumption ==
    /\ \A d \in Declarations :
          /\ d.kind \in {"legacy_v1", "comfy_v3", "node_definition_v2"}
          /\ d.id \in STRING /\ d.deprecated \in BOOLEAN /\ d.experimental \in BOOLEAN
          /\ d.payload \in IF d.kind = "legacy_v1" THEN V1Payloads
                           ELSE V1Payloads \cup V2Payloads
    /\ Batches \subseteq Seq(Declarations)
    /\ Malformed \notin NodeDefinitions

VARIABLES
    registry,       \* the registry its holder has
    last            \* the last batch: what was asked and whether it went in

registrations == <<registry, last>>

-----------------------------------------------------------------------------
(***************************************************************************)
(* discover_legacy_registration, discover_v3_registration and              *)
(* registration_from_node_definition_v2.  A legacy class is named by who   *)
(* registers it; a V3 class describes itself twice, by its schema and in   *)
(* the form of /object_info, and both must agree on ID and lifecycle.      *)
(***************************************************************************)
LegacyDefinition(d) == V1Node([d.payload EXCEPT !.name = d.id], d.id)

V3Definition(d) ==
    IF \/ d.payload.name # d.id
       \/ d.deprecated # d.payload.deprecated
       \/ d.experimental # d.payload.experimental
      THEN Malformed
      ELSE NodeOf(d.id, d.payload)

V2Definition(d) ==
    IF d.payload.form = "v2" THEN V2Node(d.payload) ELSE Malformed

DefinitionOf(d) ==
    IF d.kind = "legacy_v1" THEN LegacyDefinition(d)
    ELSE IF d.kind = "comfy_v3" THEN V3Definition(d)
    ELSE V2Definition(d)

(***************************************************************************)
(* The payload that is kept: for a V3 class with the lifecycle flags of    *)
(* its schema, and always with the canonical node module.                  *)
(***************************************************************************)
SourcePayload(d) ==
    IF d.kind = "legacy_v1" THEN [d.payload EXCEPT !.name = d.id]
    ELSE IF d.kind = "comfy_v3"
      THEN [d.payload EXCEPT !.deprecated = d.deprecated, !.experimental = d.experimental]
    ELSE d.payload

(* _registration, NodeRegistration.__post_init__ *)
Discoverable(d) ==
    /\ d.id \in SigmaxIds
    /\ d.category = "Sigmax"
    /\ DefinitionOf(d) # Malformed
    /\ DefinitionOf(d).node_id = d.id

Registration(d) ==
    [node_id |-> d.id, kind |-> d.kind, definition |-> DefinitionOf(d),
     lifecycle |-> NodeLifecycle(DefinitionOf(d)), source |-> SourcePayload(d)]

-----------------------------------------------------------------------------
(***************************************************************************)
(* NodeRegistry.register and register_many.                                *)
(***************************************************************************)
Registered(entries, r) ==
    IF r \in entries THEN entries
    ELSE IF \E e \in entries : e.node_id = r.node_id THEN Collision
    ELSE entries \cup {r}

RegisteredPrefix(entries, batch) ==     \* mutant: a collision ends the batch quietly
    LET done[n \in 0 .. Len(batch)] ==
            IF n = 0 THEN entries
            ELSE IF Registered(done[n - 1], batch[n]) = Collision THEN done[n - 1]
            ELSE Registered(done[n - 1], batch[n])
    IN  done[Len(batch)]

RegisteredMany(entries, batch) ==
    LET done[n \in 0 .. Len(batch)] ==
            IF n = 0 THEN entries
            ELSE IF done[n - 1] = Collision THEN Collision
            ELSE Registered(done[n - 1], batch[n])
    IN  done[Len(batch)]

(***************************************************************************)
(* builtin_node_registry and its like: everything is discovered before     *)
(* anything is registered, and whoever holds the registry keeps it when    *)
(* one of both fails.                                                      *)
(***************************************************************************)
RegisterBatch(batch) ==
    LET found == \A i \in DOMAIN batch : Discoverable(batch[i])
        asked == [i \in DOMAIN batch |-> Registration(batch[i])]
        result == IF found THEN RegisteredMany(registry, asked) ELSE Collision
    IN  /\ registry' = IF result = Collision THEN registry ELSE result
        /\ last' = [asked |-> IF found THEN ToSet(asked) ELSE {},
                    done |-> result # Collision]

RegistrationInit ==
    /\ registry = {}
    /\ last = [asked |-> {}, done |-> TRUE]

RegistrationNext == \E batch \in Batches : RegisterBatch(batch)

RegistrationSpec == RegistrationInit /\ [][RegistrationNext]_registrations

-----------------------------------------------------------------------------
(***************************************************************************)
(* _object_info_projection: the source payload, or the definition written  *)
(* in the form of /object_info.                                            *)
(***************************************************************************)
V1Declaration(input) ==
    [name |-> input.name, type |-> input.type, options |-> input.options,
     shape |-> IF input.options = << >> THEN "list" ELSE "options"]

ObjectInfoView(r) ==
    IF r.kind # "node_definition_v2" THEN r.source
    ELSE [form |-> "v1", name |-> r.node_id, aligned |-> TRUE,
          input |-> [s \in Sections |->
                        {V1Declaration(i) : i \in {j \in r.definition.inputs : j.section = s}}],
          outputs |-> r.definition.outputs,
          deprecated |-> r.definition.deprecated,
          experimental |-> r.definition.experimental]

(***************************************************************************)
(* _node_definition_v2_projection: the source payload, or the definition   *)
(* in the form of Node Definition JSON v2, which has no hidden inputs.     *)
(***************************************************************************)
V2Declaration(input) ==
    [key |-> input.name, name |-> input.name, type |-> input.type,
     isOptional |-> input.section = "optional", options |-> input.options]

V2Payload(r, inputs) ==
    [form |-> "v2", name |-> r.node_id, aligned |-> TRUE,
     inputs |-> {V2Declaration(i) : i \in inputs},
     outputs |-> r.definition.outputs,
     deprecated |-> r.definition.deprecated,
     experimental |-> r.definition.experimental]

V2ViewWithHidden(r) ==      \* mutant: hidden inputs are shown too
    IF r.kind = "node_definition_v2" THEN r.source
    ELSE V2Payload(r, r.definition.inputs)

V2View(r) ==
    IF r.kind = "node_definition_v2" THEN r.source
    ELSE V2Payload(r, {i \in r.definition.inputs : i.section # "hidden"})

-----------------------------------------------------------------------------
(***************************************************************************)
(* A registration is never overwritten or lost, and of a batch everything  *)
(* is there or nothing: a caller that sees one node of a batch sees all    *)
(* (register_many; "existing registrations are never overwritten").        *)
(***************************************************************************)
RegistrationsStand ==
    [][ /\ registry \subseteq registry'
        /\ last'.done => last'.asked \subseteq registry'
        /\ registry' # registry => registry' = registry \cup last'.asked ]_registrations

(***************************************************************************)
(* Who reads a registered node in either view and normalizes it finds the  *)
(* definition it is registered with, with the same lifecycle; only the     *)
(* hidden inputs cannot be seen in the v2 view (_object_info_projection,   *)
(* _node_definition_v2_projection).                                        *)
(***************************************************************************)
ViewsAgree ==
    \A r \in registry :
        LET seen == NodeOf(r.node_id, ObjectInfoView(r))
            seen2 == NodeOf(r.node_id, V2View(r))
            visible == {i \in r.definition.inputs : i.section # "hidden"}
        IN  /\ seen # Malformed /\ seen2 # Malformed
            /\ seen.inputs = r.definition.inputs
            /\ seen2.inputs = visible
            /\ \A s \in {seen, seen2} :
                 /\ s.outputs = r.definition.outputs
                 /\ NodeLifecycle(s) = r.lifecycle
=============================================================================

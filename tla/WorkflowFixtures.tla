--------------------------- MODULE WorkflowFixtures ---------------------------
(***************************************************************************)
(* comfyui_sigmax/workflows/validation.py: are the packaged workflows      *)
(* still good for a host, judged by the host's own description of its      *)
(* nodes.                                                                  *)
(*                                                                         *)
(* A saved workflow holds the values of a node's widgets by position only. *)
(* Whoever loads it gives them to the widgets of the node as it is then,   *)
(* in their order, leaving out the inputs that are linked.  In between the *)
(* author of the node may have done anything to it, and the fixtures may   *)
(* have been edited; the validator runs no node and sees the two           *)
(* descriptions only.                                                      *)
(*                                                                         *)
(* One node type stands for all: nodes are judged one by one.  A value is  *)
(* a record of its JSON kind and what it is.                               *)
(***************************************************************************)
EXTENDS NodeSchemas

CONSTANTS
    NodeSchema,     \* the node as it is at first
    AuthorInputs,   \* inputs its author may come to declare
    WidgetValues,   \* values users put into widgets
    MaxChanges,     \* bound on the changes to the node and to the fixtures
    MaxFixtures,    \* bound on the fixtures
    Gone,           \* the host does not have the node; a fixture without nodes
    NoReport

VARIABLES
    schema,     \* the node in the host, or Gone
    fixtures,   \* the packaged workflows, each with its node contract
    scan,       \* the report of the last scan, while nothing changed since
    changes     \* the number of changes so far

validation == <<schema, fixtures, scan, changes>>

NamesOf(seq) == [k \in DOMAIN seq |-> seq[k].name]

(* A node has inputs of two sections, and no two of one name. *)
NodeInput ==
    [name : STRING, type : STRING, section : {"required", "optional"}, options : Seq(STRING)]

ASSUME SchemaAssumption ==
    /\ NodeSchema \in [form : {"v1", "v2"}, deprecated : BOOLEAN, experimental : BOOLEAN,
                       canonical : BOOLEAN, inputs : Seq(NodeInput)]
    /\ IsInjective(NamesOf(NodeSchema.inputs))
    /\ AuthorInputs \subseteq NodeInput

WidgetTypes == {"STRING", "INT", "FLOAT", "BOOLEAN", "COMBO"}   \* _WIDGET_TYPES

-----------------------------------------------------------------------------
(***************************************************************************)
(* The node in the terms of NodeSchemas.                                   *)
(***************************************************************************)
RawInput(i) ==
    [name |-> i.name, shape |-> IF i.type = "COMBO" THEN "options" ELSE "list",
     type |-> i.type, options |-> i.options]

RawV2Input(i) ==
    [key |-> i.name, name |-> i.name, type |-> i.type,
     isOptional |-> i.section = "optional", options |-> i.options]

PayloadOf(s) ==
    IF s.form = "v1"
    THEN [form |-> "v1", name |-> "node", aligned |-> TRUE, outputs |-> << >>,
          input |-> [sec \in Sections |->
                        {RawInput(i) : i \in {j \in ToSet(s.inputs) : j.section = sec}}],
          deprecated |-> s.deprecated, experimental |-> s.experimental]
    ELSE [form |-> "v2", name |-> "node", aligned |-> TRUE, outputs |-> << >>,
          inputs |-> {RawV2Input(i) : i \in ToSet(s.inputs)},
          deprecated |-> s.deprecated, experimental |-> s.experimental]

HostNode(s) == NodeOf("node", PayloadOf(s))

(* Those inputs of a list that are among the chosen, in its order. *)
Among(list, chosen) ==
    LET kept[n \in 0 .. Len(list)] ==
          IF n = 0 THEN << >>
          ELSE IF list[n] \in chosen THEN Append(kept[n - 1], list[n]) ELSE kept[n - 1]
    IN  kept[Len(list)]

InSection(s, section) == {i \in ToSet(s.inputs) : i.section = section}

(* _host_input_order: v1 lists its required inputs first, v2 has one list. *)
InputOrder(s) ==
    IF s.form = "v2" THEN s.inputs
    ELSE Among(s.inputs, InSection(s, "required"))
            \o Among(s.inputs, InSection(s, "optional"))

(* The widgets that are not linked, in the host's order. *)
Widgets(s, linked) ==
    Among(InputOrder(s),
          {i \in ToSet(s.inputs) : i.name \notin linked /\ i.type \in WidgetTypes})

LinkedOf(f) == {l.name : l \in ToSet(f.links)}

-----------------------------------------------------------------------------
(* _value_matches_type *)
Matches(value, type) ==
    \/ type \in {"STRING", "COMBO"} /\ value.kind = "str"
    \/ type \in {"INT", "FLOAT"} /\ value.kind = "int"
    \/ type = "FLOAT" /\ value.kind = "float"
    \/ type = "BOOLEAN" /\ value.kind = "bool"

SlotsOutOfOrder(f, s) ==            \* mutant: the slots are compared as a set
    ToSet(NamesOf(Widgets(s, LinkedOf(f)))) # ToSet(NamesOf(f.slots))

(* _validate_node: host_widget_order *)
SlotsDrifted(f, s) == NamesOf(Widgets(s, LinkedOf(f))) # NamesOf(f.slots)

(* _validate_node: one saved value against its slot and the host's input *)
SlotIssues(slot, value, inputs) ==
    LET known == {i \in inputs : i.name = slot.name}
    IN  IF known = {} THEN {}
        ELSE LET i == CHOOSE j \in known : TRUE
             IN  {"input_type_drift" : x \in {y \in {i} : y.type # slot.type}}
                 \cup {"widget_slot_drift" : x \in {y \in {value} : ~Matches(y, slot.type)}}
                 \cup {"invalid_fixed_combo_value" : x \in
                        {y \in {value} : /\ slot.type = "COMBO"
                                         /\ \/ slot.fixed # Gone /\ y # slot.fixed
                                            \/ y.is \notin ToSet(i.options)}}

(***************************************************************************)
(* _validate_node.  A link that is saved twice makes it raise, and then    *)
(* nothing else is reported of the node; saved values that are no array    *)
(* end it.                                                                 *)
(***************************************************************************)
NodeIssues(f, s) ==
    LET inputs == HostNode(s).inputs
        names == LinkedOf(f) \cup {slot.name : slot \in ToSet(f.slots)}
        Host(l) == {i \in inputs : i.name = l.name}
        n == IF f.values = Gone THEN 0 ELSE Len(f.values)
    IN  IF ~IsInjective(NamesOf(f.links)) THEN {"workflow_schema_malformed"}
        ELSE UNION {
            IF s.canonical /\ f.canonical THEN {} ELSE {"normalized_directory_failure"},
            IF s.deprecated THEN {"deprecated_node"} ELSE {},
            IF s.experimental THEN {"experimental_node"} ELSE {},
            IF \E l \in ToSet(f.links) : Host(l) = {} THEN {"missing_input"} ELSE {},
            IF \E l \in ToSet(f.links) : \E i \in Host(l) : i.type # l.type
              THEN {"input_type_drift"} ELSE {},
            IF \E i \in inputs : i.section = "required" /\ i.name \notin names
              THEN {"missing_input"} ELSE {},
            IF SlotsDrifted(f, s) \/ f.values = Gone \/ n # Len(f.slots)
              THEN {"widget_slot_drift"} ELSE {},
            UNION {SlotIssues(f.slots[k], f.values[k], inputs) :
                    k \in {j \in DOMAIN f.slots : j <= n}}}

(* _metadata_issues, _validate_fixture *)
FixtureIssues(f, s) ==
    IF f.type = Gone THEN {"workflow_schema_malformed"}
    ELSE (IF f.metadata = "fits" THEN {} ELSE {"malformed_metadata"})
         \cup IF f.type # "node" \/ s = Gone THEN {"missing_node"} ELSE NodeIssues(f, s)

(***************************************************************************)
(* validate_workflow_fixtures: a host that cannot be read is one issue.    *)
(***************************************************************************)
Issues(fs, s) ==
    IF s # Gone /\ HostNode(s) = Malformed THEN {"host_schema_malformed"}
    ELSE UNION {FixtureIssues(fs[k], s) : k \in DOMAIN fs}

(* _report *)
ReportOf(fs, s, lane) ==
    LET issues == Issues(fs, s)
    IN  [lane |-> lane, issues |-> issues, compatible |-> issues = {},
         gate |-> issues = {} \/ lane = "latest_host", observational |-> lane = "latest_host"]

(* WorkflowValidationReport.__post_init__ *)
AdmitsReport(r) ==
    /\ r.compatible = (r.issues = {})
    /\ r.observational = (r.lane = "latest_host")
    /\ r.gate = (r.compatible \/ r.observational)

-----------------------------------------------------------------------------
Changes == changes < MaxChanges /\ changes' = changes + 1    \* bound

(***************************************************************************)
(* The author of the node: inputs come, go, move or are declared anew, in  *)
(* either form; the node is deprecated, becomes experimental, moves to      *)
(* another module, is taken out.                                           *)
(***************************************************************************)
Evolved(s) ==
    {[s EXCEPT !.inputs = InsertAt(@, k, i)] :
        k \in 1 .. Len(s.inputs) + 1,
        i \in {j \in AuthorInputs : j.name \notin {x.name : x \in ToSet(s.inputs)}}}
    \cup {[s EXCEPT !.inputs = RemoveAt(@, k)] : k \in DOMAIN s.inputs}
    \cup {[s EXCEPT !.inputs = ReplaceAt(@, k, i)] :
            k \in DOMAIN s.inputs, i \in AuthorInputs}
    \cup {[s EXCEPT !.inputs = [@ EXCEPT ![k] = s.inputs[k + 1], ![k + 1] = s.inputs[k]]] :
            k \in 1 .. Len(s.inputs) - 1}
    \cup {[s EXCEPT !.form = "v2"], [s EXCEPT !.deprecated = TRUE],
          [s EXCEPT !.experimental = TRUE], [s EXCEPT !.canonical = FALSE], Gone}

Evolve ==
    /\ schema # Gone /\ Changes
    /\ \E s \in Evolved(schema) :
          /\ s # Gone => IsInjective(NamesOf(s.inputs))
          /\ schema' = s
    /\ scan' = NoReport
    /\ UNCHANGED fixtures

(* Values a user may put into a widget of the node as it is. *)
LegalFor(i) ==
    {v \in WidgetValues : Matches(v, i.type) /\ (i.type = "COMBO" => v.is \in ToSet(i.options))}

(* A workflow, saved and packaged with a contract that describes the node  *)
(* as it is now; meant is what the user sees in each widget.               *)
Packaged(widgets, links, values, fix) ==
    [type |-> "node", canonical |-> schema.canonical, metadata |-> "fits",
     links |-> [k \in DOMAIN links |-> [name |-> links[k].name, type |-> links[k].type]],
     slots |-> [k \in DOMAIN widgets |->
                   [name |-> widgets[k].name, type |-> widgets[k].type,
                    fixed |-> IF fix /\ widgets[k].type = "COMBO" THEN values[k] ELSE Gone]],
     values |-> values,
     meant |-> {<<widgets[k].name, values[k]>> : k \in DOMAIN widgets}]

Publish ==
    /\ schema # Gone /\ HostNode(schema) # Malformed
    /\ Len(fixtures) < MaxFixtures      \* bound
    /\ \E linked \in SUBSET ToSet(InputOrder(schema)) :
          /\ \A i \in ToSet(schema.inputs) :
                i.section = "required" /\ i.type \notin WidgetTypes => i \in linked
          /\ LET widgets == Widgets(schema, {i.name : i \in linked})
                 links == Among(InputOrder(schema), linked)
             IN  \E values \in [DOMAIN widgets -> WidgetValues], fix \in BOOLEAN :
                    /\ \A k \in DOMAIN widgets : values[k] \in LegalFor(widgets[k])
                    /\ fixtures' = Append(fixtures, Packaged(widgets, links, values, fix))
    /\ scan' = NoReport
    /\ UNCHANGED <<schema, changes>>

(* What is put into a widget is meant. *)
Refilled(f, k, v) ==
    [f EXCEPT !.values[k] = v,
              !.meant = {m \in @ : m[1] # f.slots[k].name} \cup {<<f.slots[k].name, v>>}]

(***************************************************************************)
(* Somebody edits the bundle: a node is renamed or lost, a value dropped,  *)
(* changed or turned into something else, a link repeated, the metadata    *)
(* changed.                                                                *)
(***************************************************************************)
EditedFixture(f) ==
    {[f EXCEPT !.type = t] : t \in {Gone, "renamed"}}
    \cup {[f EXCEPT !.metadata = m] : m \in {"drifted", "missing"}}
    \cup {[f EXCEPT !.canonical = FALSE], [f EXCEPT !.values = Gone]}
    \cup {[f EXCEPT !.links = Append(@, f.links[k])] : k \in DOMAIN f.links}
    \cup (IF f.values = Gone \/ f.values = << >> THEN {}
          ELSE {[f EXCEPT !.values = Front(@)]}
               \cup {Refilled(f, k, v) : k \in DOMAIN f.values, v \in WidgetValues})

EditFixture ==
    /\ Changes
    /\ \E k \in DOMAIN fixtures :
          \E f \in EditedFixture(fixtures[k]) : fixtures' = [fixtures EXCEPT ![k] = f]
    /\ scan' = NoReport
    /\ UNCHANGED schema

(* validate_pinned_workflow_fixtures, validate_live_workflow_fixtures *)
Scan ==
    /\ fixtures # << >>
    /\ \E lane \in {"known_good", "latest_host"} : scan' = ReportOf(fixtures, schema, lane)
    /\ UNCHANGED <<schema, fixtures, changes>>

(***************************************************************************)
(* The report is stored, its flags edited and its fingerprint mended, and  *)
(* deserialize_workflow_validation_report reads it.                        *)
(***************************************************************************)
Reread ==
    /\ scan # NoReport
    /\ \E lane \in {"known_good", "latest_host"}, flags \in [1 .. 3 -> BOOLEAN] :
          LET r == [scan EXCEPT !.lane = lane, !.compatible = flags[1], !.gate = flags[2],
                                !.observational = flags[3]]
          IN  AdmitsReport(r) /\ scan' = r
    /\ UNCHANGED <<schema, fixtures, changes>>

ValidationInit ==
    /\ schema = NodeSchema /\ fixtures = << >> /\ scan = NoReport
    /\ changes = 0

ValidationNext == Evolve \/ Publish \/ EditFixture \/ Scan \/ Reread

ValidationSpec == ValidationInit /\ [][ValidationNext]_validation

-----------------------------------------------------------------------------
(* What a user finds in the widgets after loading the workflow. *)
Loads(f) ==
    LET widgets == Widgets(schema, LinkedOf(f))
    IN  {<<widgets[k].name, f.values[k]>> : k \in DOMAIN widgets \cap DOMAIN f.values}

(***************************************************************************)
(* A workflow that passed the known-good lane means on this host what it   *)
(* meant when it was saved: every widget holds the value it was given,     *)
(* although only positions were saved, every value is one the host takes,  *)
(* every link ends in an input of its type, and no required input is left  *)
(* without (_validate_node; the report may have been stored and read).     *)
(***************************************************************************)
PassedWorkflowsLoadAsSaved ==
    scan # NoReport /\ scan.lane = "known_good" /\ scan.gate =>
        \A k \in DOMAIN fixtures :
            LET f == fixtures[k]
                inputs == ToSet(schema.inputs)
            IN  /\ Loads(f) = f.meant
                /\ \A m \in f.meant : \E i \in inputs : i.name = m[1] /\ m[2] \in LegalFor(i)
                /\ \A l \in ToSet(f.links) :
                      \E i \in inputs : i.name = l.name /\ i.type = l.type
                /\ \A i \in inputs : i.section = "required" =>
                      i.name \in LinkedOf(f) \cup {m[1] : m \in f.meant}
=============================================================================

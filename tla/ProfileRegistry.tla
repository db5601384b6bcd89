--------------------------- MODULE ProfileRegistry ---------------------------
(***************************************************************************)
(* profiles/registry.py: the registry of profiles.  It starts with the     *)
(* built-in ones; a caller adds profiles of his own, which may name a      *)
(* parent and the fields in which they differ from it, and may replace     *)
(* what callers added.  A registry is immutable in the code: entries is    *)
(* the one the last registration returned.  A registration that raises     *)
(* returns none and is no step.                                            *)
(*                                                                         *)
(* A schema is a record of the fields that are compared; its fingerprint   *)
(* stands for the record.  An inheritance is the set of one record with    *)
(* the parent and the overridden fields, or empty.                         *)
(***************************************************************************)
EXTENDS Naturals, FiniteSets

CONSTANTS
    BuiltinSchemas,     \* the schema of each built-in key
    ExternalKeys,       \* the keys callers use besides
    SchemaChoices       \* the schemas callers register

VARIABLE entries

Keys == DOMAIN BuiltinSchemas \cup ExternalKeys

Entry(schema, origin, inheritance) ==
    [schema |-> schema, origin |-> origin, inheritance |-> inheritance]

(* The fields in which two schemas differ                                  *)
Differing(parent, child) == {f \in DOMAIN child : parent[f] # child[f]}

Inheritances ==
    {{}} \cup {{[parent |-> k, overridden |-> fs]} :
                   k \in Keys, fs \in SUBSET UNION {DOMAIN s : s \in SchemaChoices} \ {{}}}

(* _validate_inheritance                                                   *)
InheritanceHolds(key, schema, inheritance) ==
    \A i \in inheritance :
        /\ i.parent # key
        /\ i.parent \in DOMAIN entries
        /\ schema.evidence = "modified"
        /\ Differing(entries[i.parent].schema, schema) = i.overridden

(* The first registration of a key: the policy must be REJECT.             *)
Register(key, schema, inheritance) ==
    /\ key \notin DOMAIN entries
    /\ InheritanceHolds(key, schema, inheritance)
    /\ entries' = [k \in DOMAIN entries \cup {key} |->
                     IF k = key THEN Entry(schema, "external", inheritance) ELSE entries[k]]

\* mutant: whoever knows the fingerprint may replace any profile
ReplaceAny(key, schema, inheritance, expected) ==
    /\ key \in DOMAIN entries
    /\ InheritanceHolds(key, schema, inheritance)
    /\ <<schema, inheritance>> # <<entries[key].schema, entries[key].inheritance>>
    /\ expected = entries[key].schema
    /\ entries' = [entries EXCEPT ![key] = Entry(schema, "external", inheritance)]

(* REPLACE_EXTERNAL: the caller names the fingerprint of what he replaces. *)
Replace(key, schema, inheritance, expected) ==
    /\ key \in DOMAIN entries /\ entries[key].origin = "external"
    /\ InheritanceHolds(key, schema, inheritance)
    /\ <<schema, inheritance>> # <<entries[key].schema, entries[key].inheritance>>
    /\ expected = entries[key].schema
    /\ entries' = [entries EXCEPT ![key] = Entry(schema, "external", inheritance)]

RegisterExternal ==
    \E k \in Keys, s \in SchemaChoices, i \in Inheritances :
        \/ Register(k, s, i)
        \/ \E e \in SchemaChoices \cup {BuiltinSchemas[b] : b \in DOMAIN BuiltinSchemas} :
              Replace(k, s, i, e)

(* builtin_profile_registry                                                *)
RegistryInit ==
    entries = [k \in DOMAIN BuiltinSchemas |-> Entry(BuiltinSchemas[k], "builtin", {})]

RegistryNext == RegisterExternal

RegistrySpec == RegistryInit /\ [][RegistryNext]_entries

-----------------------------------------------------------------------------
(* What a profile that inherits from a built-in one says of its difference *)
(* stays true through every later registration and replacement: the parent *)
(* cannot change, and the child only together with what it declares        *)
(* (register_external, _validate_inheritance).                             *)
InheritanceFromBuiltinIsTrue ==
    \A k \in DOMAIN entries : \A i \in entries[k].inheritance :
        i.parent \in DOMAIN BuiltinSchemas =>
            /\ entries[i.parent].schema = BuiltinSchemas[i.parent]
            /\ Differing(BuiltinSchemas[i.parent], entries[k].schema) = i.overridden
            /\ entries[k].schema.evidence = "modified"
=============================================================================

---------------------------- MODULE HostMutation ----------------------------
(***************************************************************************)
(* comfyui_sigmax/host_mutation.py and the operations of                   *)
(* scripts/run_synthetic_coinstallation_matrix.py: what a pack changes in  *)
(* a host is judged against the state before it.                           *)
(*                                                                         *)
(* That packs come one after the other is this model's own: the script     *)
(* judges every pack on a fresh baseline.  Here the state a pack left is   *)
(* the state before the next one, and a pack that is rejected is taken out *)
(* again, which asks what the judgements of neighbours say of a host with  *)
(* several packs.                                                          *)
(*                                                                         *)
(* A snapshot maps node IDs and scheduler names to who provides them and   *)
(* what they are; fingerprints stand for what they are taken of.           *)
(***************************************************************************)
EXTENDS FiniteSets, Naturals

CONSTANTS
    NodeNames, SchedulerNames,  \* the IDs nodes and schedulers may have
    ProtectedNames,             \* the node IDs that start with "Sigmax."
    Providers,                  \* who registers nodes and schedulers
    Sigmax,                     \* the provider "comfyui_sigmax"
    Contents,                   \* what is registered under an ID or a name
    Fingerprints,               \* of the torch call path and of the model patches
    Baseline,                   \* the first snapshot
    Absent                      \* nothing is registered under that ID

Entries == [provider : Providers, content : Contents]

ASSUME BaselineAssumption ==
    /\ ProtectedNames \subseteq NodeNames
    /\ Sigmax \in Providers
    /\ Baseline.nodes \in [NodeNames -> Entries \cup {Absent}]
    /\ Baseline.schedulers \in [SchedulerNames -> Entries \cup {Absent}]

VARIABLES
    host,       \* the snapshot of the host
    admitted,   \* <<ID, entry>> of every node an accepted pack brought or the host had
    findings    \* what was found in the last pack

mutation == <<host, admitted, findings>>

-----------------------------------------------------------------------------
(***************************************************************************)
(* evaluate_host_mutation, finding by finding.                             *)
(***************************************************************************)
PresenceOnly(before, after) ==  \* mutant: an ID may get another definition
    \E id \in DOMAIN before : before[id] # Absent /\ after[id] = Absent

Replaced(before, after) ==
    \E id \in DOMAIN before : before[id] # Absent /\ after[id] # before[id]

Hijacked(before, after) ==
    \E id \in ProtectedNames :
        /\ before[id] = Absent /\ after[id] # Absent
        /\ after[id].provider # Sigmax

ShiftedTwice(after) ==
    /\ after.shifts > 0
    /\ after.native_shifted \/ after.ownership = "model_native"

Findings(before, after) ==
    {f \in {"node_registry_collision", "sigmax_namespace_hijack",
            "scheduler_registry_overwrite", "torch_call_path_changed",
            "model_patch_state_changed", "construction_shift_repeated",
            "model_native_external_double_shift"} :
        \/ f = "node_registry_collision" /\ Replaced(before.nodes, after.nodes)
        \/ f = "sigmax_namespace_hijack" /\ Hijacked(before.nodes, after.nodes)
        \/ f = "scheduler_registry_overwrite"
             /\ Replaced(before.schedulers, after.schedulers)
        \/ f = "torch_call_path_changed" /\ before.torch # after.torch
        \/ f = "model_patch_state_changed" /\ before.patch # after.patch
        \/ f = "construction_shift_repeated" /\ after.shifts > 1
        \/ f = "model_native_external_double_shift" /\ ShiftedTwice(after)}

Allowed(before, after) == Findings(before, after) = {}

-----------------------------------------------------------------------------
(***************************************************************************)
(* apply_operation: what one pack does to the host.  Beyond the fixed      *)
(* fixtures a pack may bring any node or scheduler, take one away, or set  *)
(* the shift state; clean_install changes nothing, and a reload brings a   *)
(* node, then the same node again.                                         *)
(***************************************************************************)
WithNode(h, id, entry) == [h EXCEPT !.nodes[id] = entry]

WithScheduler(h, name, entry) == [h EXCEPT !.schedulers[name] = entry]

WithShift(h, ownership, shifts, native) ==
    [h EXCEPT !.ownership = ownership, !.shifts = shifts, !.native_shifted = native]

Operated(h) ==
    {h}
    \cup {WithNode(h, id, e) : id \in NodeNames, e \in Entries \cup {Absent}}
    \cup {WithScheduler(h, n, e) : n \in SchedulerNames, e \in Entries \cup {Absent}}
    \cup {[h EXCEPT !.torch = f] : f \in Fingerprints}
    \cup {[h EXCEPT !.patch = f] : f \in Fingerprints}
    \cup {WithShift(h, o, n, s) :
            o \in {"external_sigmas", "model_native"}, n \in 0 .. 2, s \in BOOLEAN}

NodesOf(h) == {<<id, h.nodes[id]>> : id \in {i \in NodeNames : h.nodes[i] # Absent}}

(***************************************************************************)
(* One pack is installed on top of what is there, judged, and stays or     *)
(* goes: who calls evaluate_host_mutation, as the model assumes it.        *)
(***************************************************************************)
Install(after) ==
    /\ findings' = Findings(host, after)
    /\ IF Allowed(host, after)
         THEN host' = after /\ admitted' = admitted \cup NodesOf(after)
         ELSE UNCHANGED <<host, admitted>>

MutationInit ==
    /\ host = Baseline
    /\ admitted = NodesOf(Baseline)
    /\ findings = {}

MutationNext == \E after \in Operated(host) : Install(after)

MutationSpec == MutationInit /\ [][MutationNext]_mutation

-----------------------------------------------------------------------------
(***************************************************************************)
(* However many packs were accepted one after the other, the host is one   *)
(* that would be accepted against the very first snapshot, and the nodes   *)
(* of no accepted pack were replaced by a later one                        *)
(* (evaluate_host_mutation compares neighbours only).                      *)
(***************************************************************************)
ChainIsAllowed ==
    /\ host # Baseline => Allowed(Baseline, host)
    /\ \A a \in admitted : host.nodes[a[1]] = a[2]
=============================================================================

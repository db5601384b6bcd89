------------------------------- MODULE H3Tables -------------------------------
(***************************************************************************)
(* The frozen tables about MiniMax H3: the Turbo recipes, artifacts and    *)
(* backends of profiles/minimax_h3_acceleration.py, the profiles of        *)
(* minimax_h3_turbo.py, the schedulers and hosts of                        *)
(* minimax_h3_scheduler_contract.py.  Every row is constructed when the    *)
(* package is imported, and its class refuses a row it does not admit.     *)
(***************************************************************************)
EXTENDS Naturals

NoRecipe == "disabled"
NoReason == "none"
BaseShift == [video |-> 12, audio |-> 3]

Recipes == {"fl2va-4-v0.1", "fl2va-8-v1.0", "fl2va-4-768p", "ref2va-4-v0.1"}

(* _recipe: the source's table of steps and shifts                         *)
RecipeRow(task, nfe, default, video) ==
    [task |-> task, loraTask |-> task, nfe |-> nfe, default |-> default,
     shift |-> [video |-> video, audio |-> 3]]

H3Recipe ==
    [r \in Recipes |->
        CASE r = "fl2va-4-v0.1" -> RecipeRow("fl2va", {4}, 4, 12)
          [] r = "fl2va-8-v1.0" -> RecipeRow("fl2va", {4, 8}, 8, 12)
          [] r = "fl2va-4-768p" -> RecipeRow("fl2va", {4}, 4, 6)
          [] r = "ref2va-4-v0.1" -> RecipeRow("ref2va", {4}, 4, 12)]

(* MiniMaxH3AccelerationRecipe.__post_init__                               *)
AdmitsRecipe(row) ==
    /\ row.task \in {"fl2va", "ref2va"} /\ row.task = row.loraTask
    /\ row.nfe # {} /\ row.nfe \subseteq Nat \ {0} /\ row.default \in row.nfe
    /\ row.shift.video > 0 /\ row.shift.audio > 0

ArtifactRow(recipe, sha256, metadata, disposition, reason) ==
    [recipe |-> recipe, sha256 |-> sha256, declared |-> H3Recipe[recipe].task,
     metadata |-> metadata, disposition |-> disposition, reason |-> reason]

Artifacts == {"full-768", "full-8", "full-ref", "reduced-768", "reduced-8", "reduced-ref",
              "local-768", "local-8", "local-ref"}

(* MINIMAX_H3_ACCELERATION_ARTIFACTS; the reason is the first one.  An     *)
(* artifact's own name stands for its hash.                                *)
Artifact ==
    [a \in Artifacts |->
        LET recipe == CASE a \in {"full-768", "reduced-768", "local-768"} -> "fl2va-4-768p"
                        [] a \in {"full-8", "reduced-8", "local-8"} -> "fl2va-8-v1.0"
                        [] OTHER -> "ref2va-4-v0.1"
            metadata == IF a = "local-ref" THEN "fl2va" ELSE H3Recipe[recipe].task
        IN CASE a \in {"full-768", "full-8", "full-ref"} ->
                  ArtifactRow(recipe, a, metadata, "blocked", "unavailable")
             [] a \in {"reduced-768", "reduced-8", "reduced-ref"} ->
                  ArtifactRow(recipe, a, metadata, "blocked", "license")
             [] OTHER -> ArtifactRow(recipe, a, metadata, "rejected", "modified")]

(* MiniMaxH3AccelerationArtifact.__post_init__                             *)
AdmitsArtifact(row) ==
    /\ {row.declared, row.metadata} \subseteq {"fl2va", "ref2va"}
    /\ row.disposition \in {"qualified", "blocked", "rejected"}
    /\ (row.disposition = "qualified") = (row.reason = NoReason)

(* MINIMAX_H3_ACCELERATION_BACKENDS: all are blocked, none is selected     *)
Backends ==
    [b \in {"quantized", "int8", "core", "msa", "sage", "flash"} |->
        [disposition |-> "blocked", selected |-> FALSE,
         reason |-> IF b = "msa" THEN "unproven" ELSE "scope"]]

(* MiniMaxH3AccelerationBackend.__post_init__                              *)
AdmitsBackend(row) ==
    row.disposition \in {"qualified", "blocked", "rejected"} /\ ~row.selected

ProfileRow(recipe, nfe, artifacts) ==
    [task |-> H3Recipe[recipe].task, shift |-> H3Recipe[recipe].shift, nfe |-> nfe,
     default |-> IF H3Recipe[recipe].default \in nfe THEN H3Recipe[recipe].default
                 ELSE CHOOSE n \in nfe : \A k \in nfe : k <= n,
     artifacts |-> artifacts, eligible |-> {}]

(* MINIMAX_H3_TURBO_PROFILES: of the steps of a recipe only those that are *)
(* proven are allowed.                                                     *)
Profile ==
    [r \in Recipes |->
        ProfileRow(r, IF r = "fl2va-8-v1.0" THEN {8} ELSE {4},
                   {a \in Artifacts : Artifact[a].recipe = r})]

(* MiniMaxH3TurboProfile.__post_init__                                     *)
AdmitsProfile(r, row) ==
    /\ row.task = H3Recipe[r].task /\ row.shift = H3Recipe[r].shift
    /\ row.nfe # {} /\ row.nfe \subseteq H3Recipe[r].nfe /\ row.default \in row.nfe
    /\ \A a \in row.artifacts : a \in Artifacts /\ Artifact[a].recipe = r
    /\ row.eligible \subseteq {a \in row.artifacts : Artifact[a].disposition = "qualified"}

-----------------------------------------------------------------------------
NativeSchedulers ==
    {"simple", "sgm_uniform", "karras", "exponential", "ddim_uniform", "beta", "normal",
     "linear_quadratic", "kl_optimal"}
Schedulers == {"h3_endpoint"} \cup NativeSchedulers

(* _native_contract                                                        *)
NativeContract(name) ==
    [owner |-> "host", model |-> "required", handler |-> name, count |-> "tail",
     minimum |-> IF name \in {"beta", "kl_optimal"} THEN 2 ELSE 1,
     dtypes |-> {"float32"}, reshift |-> FALSE]

(* MINIMAX_H3_SCHEDULER_CONTRACTS                                          *)
Contract ==
    [s \in Schedulers |->
        IF s = "h3_endpoint"
        THEN [owner |-> "pure", model |-> "forbidden", handler |-> NoReason, count |-> "exact",
              minimum |-> 1, dtypes |-> {"float64", "float32"}, reshift |-> FALSE]
        ELSE NativeContract(s)]

(* MiniMaxH3SchedulerContract.__post_init__                                *)
AdmitsContract(name, c) ==
    /\ c.minimum > 0 /\ c.dtypes # {} /\ c.dtypes \subseteq {"float32", "float64"}
    /\ IF c.owner = "pure"
       THEN c.model = "forbidden" /\ c.handler = NoReason /\ c.count = "exact"
       ELSE c.model = "required" /\ c.handler = name /\ c.count = "tail" /\ ~c.reshift

(* MINIMAX_H3_SCHEDULER_HOSTS: the seam of each host that is pinned.  What *)
(* is "av" from 0.32 on was a discrete flow with markers before.           *)
Pinned == {"0.30.0", "0.32.0", "0.39.0"}
HostSampling == [v \in Pinned |-> IF v = "0.30.0" THEN "flow" ELSE "av"]

(* What importing the modules has established.                             *)
ASSUME TablesAssumption ==
    /\ \A r \in Recipes : AdmitsRecipe(H3Recipe[r]) /\ AdmitsProfile(r, Profile[r])
    /\ \A a \in Artifacts : AdmitsArtifact(Artifact[a])
    /\ \A b \in DOMAIN Backends : AdmitsBackend(Backends[b])
    /\ \A s \in Schedulers : AdmitsContract(s, Contract[s])
=============================================================================

----------------------------- MODULE H3Artifacts -----------------------------
(***************************************************************************)
(* What the package says of a Turbo LoRA file.  Nobody loads one here:     *)
(* profiles/minimax_h3_turbo_public.py writes a receipt about an artifact  *)
(* the caller names, and the same caller may ask minimax_h3_turbo.py and   *)
(* minimax_h3_acceleration.py whether it may be used.  The two answers are *)
(* computed separately, from the same tables.                              *)
(***************************************************************************)
EXTENDS H3Tables

CONSTANTS
    NoArtifact,     \* no artifact is named
    NoHash,         \* no hash is given
    NoVerdict

VARIABLE verdict    \* the claim of this call and the two answers

Named == Artifacts \cup {"foreign"}
Hashes == Artifacts \cup {"foreign"}    \* an artifact's name stands for its hash

(* None is neither a name nor a hash.                                      *)
ASSUME ClaimsAssumption == NoArtifact \notin Named /\ NoHash \notin Hashes

Claims ==
    [recipe : Recipes, task : {"fl2va", "t2va", "ref2va"}, nfe : {4, 8},
     artifact : Named \cup {NoArtifact}, sha256 : Hashes \cup {NoHash}]

(* _recipe_task_matches: t2va is another name of fl2va                     *)
TaskMatches(recipe, task) ==
    IF Profile[recipe].task = "fl2va" THEN task \in {"fl2va", "t2va"}
    ELSE task = Profile[recipe].task

-----------------------------------------------------------------------------
(* The receipt                                                             *)

(* The record the artifact is looked up in, if it belongs to the recipe    *)
Owned(claim) == claim.artifact \in Artifacts /\ Artifact[claim.artifact].recipe = claim.recipe
HashMatches(claim) == claim.sha256 = Artifact[claim.artifact].sha256

(* build_minimax_h3_turbo_public_receipt: when it raises nothing           *)
CanWriteReceipt(claim) ==
    /\ claim.nfe \in Profile[claim.recipe].nfe
    /\ TaskMatches(claim.recipe, claim.task)
    /\ claim.artifact # NoArtifact /\ Owned(claim) =>
          claim.sha256 = NoHash \/ HashMatches(claim)

Status(claim) ==
    CASE claim.artifact = NoArtifact -> <<"not_provided", "readiness_only">>
      [] claim.artifact # NoArtifact /\ ~Owned(claim) -> <<"rejected", "unknown">>
      [] Owned(claim) /\ claim.sha256 = NoHash -> <<"rejected", "hash_unverified">>
      [] OTHER -> CASE Artifact[claim.artifact].disposition = "qualified" -> <<"eligible", "eligible">>
                    [] Artifact[claim.artifact].disposition = "blocked" -> <<"blocked", "blocked">>
                    [] OTHER -> <<"rejected", "rejected">>

(* MiniMaxH3TurboPublicReceiptV1                                           *)
PublicReceipt(claim) ==
    [recipe |-> claim.recipe, task |-> claim.task, nfe |-> claim.nfe,
     allowed |-> Profile[claim.recipe].nfe, status |-> Status(claim)[1],
     validation |-> Status(claim)[2], artifact |-> claim.artifact,
     sha256 |-> IF claim.artifact # NoArtifact /\ Owned(claim) THEN claim.sha256 ELSE NoHash]

-----------------------------------------------------------------------------
(* The permission                                                          *)

EligibleLater(artifact, task, nfe, shift, sha256) ==    \* mutant: require_eligible is not passed on
    LET row == Artifact[artifact]
    IN task = row.declared /\ sha256 \in {NoHash, row.sha256} /\ row.metadata = row.declared

(* qualify_minimax_h3_candidate with require_eligible                      *)
Eligible(artifact, task, nfe, shift, sha256) ==
    LET row == Artifact[artifact]
        recipe == H3Recipe[row.recipe]
    IN /\ task = row.declared
       /\ nfe \in recipe.nfe
       /\ shift = recipe.shift
       /\ sha256 \in {NoHash, row.sha256}
       /\ row.metadata = row.declared
       /\ row.disposition = "qualified"

(* validate_minimax_h3_turbo_artifact                                      *)
Validated(artifact, recipe, nfe) ==
    /\ artifact \in Artifacts
    /\ Artifact[artifact].recipe = recipe
    /\ nfe \in Profile[recipe].nfe
    /\ artifact \in Profile[recipe].artifacts
    /\ Eligible(artifact, Profile[recipe].task, nfe, Profile[recipe].shift, NoHash)

(* require_minimax_h3_turbo_artifact: first without the hash, then with it *)
Required(claim) ==
    /\ Validated(claim.artifact, claim.recipe, claim.nfe)
    /\ Eligible(claim.artifact, Profile[claim.recipe].task, claim.nfe,
                Profile[claim.recipe].shift, claim.sha256)

-----------------------------------------------------------------------------
ArtifactsInit == verdict = NoVerdict

(* One caller makes both calls about one claim.                            *)
Consider ==
    /\ verdict = NoVerdict
    /\ \E claim \in Claims :
          /\ CanWriteReceipt(claim)
          /\ verdict' = [claim |-> claim, receipt |-> PublicReceipt(claim),
                         required |-> claim.artifact # NoArtifact /\ Required(claim)]

Forget == verdict # NoVerdict /\ verdict' = NoVerdict

ArtifactsNext == Consider \/ Forget

ArtifactsSpec == ArtifactsInit /\ [][ArtifactsNext]_verdict

-----------------------------------------------------------------------------
(* The two answers about an artifact agree: what may be used has a receipt *)
(* that says eligible, a receipt never shows a hash that was not compared  *)
(* with the record, and while the node warns readiness_only_no_eligible_   *)
(* artifact (_build_turbo_schedule) nothing may be used and no receipt     *)
(* says otherwise.                                                         *)
VerdictsAgree ==
    verdict # NoVerdict =>
        LET receipt == verdict.receipt
        IN /\ verdict.required => receipt.status = "eligible"
           /\ receipt.status \in {"eligible", "blocked"} =>
                 receipt.sha256 # NoHash /\ receipt.artifact \in Profile[receipt.recipe].artifacts
           /\ receipt.sha256 # NoHash => receipt.sha256 = Artifact[receipt.artifact].sha256
           /\ ~verdict.required /\ receipt.status # "eligible"
=============================================================================

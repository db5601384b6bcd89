---------------------------- MODULE ProfileProofs ----------------------------
(***************************************************************************)
(* What holds of the profiles, whatever profiles, files, samplers, hosts   *)
(* and answers there are: the registry first, then the decision about a    *)
(* profile, the verdicts about an artifact, the schedules a host makes for *)
(* MiniMax H3, and those the scheduler nodes of the other profiles make.   *)
(***************************************************************************)
EXTENDS MCProfiles, FiniteSetTheorems, InductionFacts

-----------------------------------------------------------------------------
(* The registry.                                                           *)

(* No registration touches what is built in.                               *)
BuiltinsStand ==
    \A b \in DOMAIN BuiltinSchemas :
        /\ b \in DOMAIN entries
        /\ entries[b].schema = BuiltinSchemas[b]
        /\ entries[b].origin = "builtin" /\ entries[b].inheritance = {}

RegistryInv == BuiltinsStand /\ InheritanceFromBuiltinIsTrue

LEMMA EntryFact ==
  ASSUME NEW s, NEW o, NEW i
  PROVE  /\ Entry(s, o, i).schema = s /\ Entry(s, o, i).origin = o
         /\ Entry(s, o, i).inheritance = i
  BY DEF Entry

LEMMA RegistryStarts == RegistryInit => RegistryInv
  BY EntryFact DEF RegistryInit, RegistryInv, BuiltinsStand, InheritanceFromBuiltinIsTrue

(* Both registrations write one entry that is not built in, and what it    *)
(* inherits from a built-in parent was compared with that parent.          *)
LEMMA OneEntryWritten ==
  ASSUME RegistryInv, NEW k, NEW s, NEW inh, NEW others,
         k \in DOMAIN entries => entries[k].origin = "external",
         InheritanceHolds(k, s, inh),
         DOMAIN others = DOMAIN entries \cup {k},
         others[k] = Entry(s, "external", inh),
         \A o \in DOMAIN entries \ {k} : others[o] = entries[o],
         entries' = others
  PROVE  RegistryInv'
<1>1. k \notin DOMAIN BuiltinSchemas
  BY DEF RegistryInv, BuiltinsStand
<1>2. BuiltinsStand'
  BY <1>1 DEF RegistryInv, BuiltinsStand
<1>3. ASSUME NEW o \in DOMAIN entries', NEW i \in entries'[o].inheritance,
             i.parent \in DOMAIN BuiltinSchemas
      PROVE  /\ entries'[i.parent].schema = BuiltinSchemas[i.parent]
             /\ Differing(BuiltinSchemas[i.parent], entries'[o].schema) = i.overridden
             /\ entries'[o].schema.evidence = "modified"
  <2>1. entries'[i.parent].schema = BuiltinSchemas[i.parent]
    BY <1>2, <1>3 DEF BuiltinsStand
  <2>2. CASE o = k
    <3>1. entries'[o].schema = s /\ i \in inh
      BY <1>3, <2>2, EntryFact
    <3>2. /\ s.evidence = "modified"
          /\ Differing(entries[i.parent].schema, s) = i.overridden
      BY <3>1 DEF InheritanceHolds
    <3>3. entries[i.parent].schema = BuiltinSchemas[i.parent]
      BY <1>3 DEF RegistryInv, BuiltinsStand
    <3> QED
      BY <2>1, <3>1, <3>2, <3>3
  <2>3. CASE o # k
    <3>1. o \in DOMAIN entries /\ entries'[o] = entries[o]
      BY <1>3, <2>3
    <3> QED
      BY <1>3, <2>1, <3>1 DEF RegistryInv, InheritanceFromBuiltinIsTrue
  <2> QED
    BY <2>2, <2>3
<1> QED
  BY <1>2, <1>3 DEF RegistryInv, InheritanceFromBuiltinIsTrue

LEMMA RegistryKeeps == ASSUME RegistryInv, [RegistryNext]_entries PROVE RegistryInv'
<1>1. ASSUME NEW k \in Keys, NEW s \in SchemaChoices, NEW inh \in Inheritances,
             Register(k, s, inh)
      PROVE  RegistryInv'
  <2> DEFINE others == [o \in DOMAIN entries \cup {k} |->
                        IF o = k THEN Entry(s, "external", inh) ELSE entries[o]]
  <2>1. /\ k \notin DOMAIN entries /\ InheritanceHolds(k, s, inh)
        /\ entries' = others
    BY <1>1 DEF Register
  <2>2. /\ DOMAIN others = DOMAIN entries \cup {k}
        /\ others[k] = Entry(s, "external", inh)
        /\ \A o \in DOMAIN entries \ {k} : others[o] = entries[o]
    OBVIOUS
  <2> HIDE DEF others
  <2> QED
    BY <2>1, <2>2, OneEntryWritten
<1>2. ASSUME NEW k \in Keys, NEW s \in SchemaChoices, NEW inh \in Inheritances, NEW e,
             Replace(k, s, inh, e)
      PROVE  RegistryInv'
  <2> DEFINE others == [entries EXCEPT ![k] = Entry(s, "external", inh)]
  <2>1. /\ k \in DOMAIN entries /\ entries[k].origin = "external"
        /\ InheritanceHolds(k, s, inh) /\ entries' = others
    BY <1>2 DEF Replace
  <2>2. /\ DOMAIN others = DOMAIN entries \cup {k}
        /\ others[k] = Entry(s, "external", inh)
        /\ \A o \in DOMAIN entries \ {k} : others[o] = entries[o]
    BY <2>1
  <2> HIDE DEF others
  <2> QED
    BY <2>1, <2>2, OneEntryWritten
<1>3. CASE UNCHANGED entries
  BY <1>3 DEF RegistryInv, BuiltinsStand, InheritanceFromBuiltinIsTrue
<1> QED
  BY <1>1, <1>2, <1>3 DEF RegistryNext, RegisterExternal

(* What a profile says of its difference from a built-in parent stays true *)
(* through every registration and replacement, whatever schemas callers    *)
(* bring (register_external, _validate_inheritance).                       *)
THEOREM InheritanceIsAlwaysTrue == RegistrySpec => []InheritanceFromBuiltinIsTrue
<1>1. RegistryInv => InheritanceFromBuiltinIsTrue
  BY DEF RegistryInv
<1> QED
  BY <1>1, RegistryStarts, RegistryKeeps, PTL DEF RegistrySpec

-----------------------------------------------------------------------------
(* The decision about a profile.                                           *)

LEMMA EvidencePairs ==
  ASSUME NEW e \in Collectable, NEW x \in e
  PROVE  /\ x = <<x[1], x[2]>>
         /\ x[1] \in Resolving \cup Suggesting \cup {"tensor", "class"}
         /\ x[2] \in Variants \cup {"none"}
         /\ x[1] \in Suggesting => x[2] \in Variants
<1>1. e \subseteq (Resolving \cup Suggesting) \X Variants
                 \cup {"tensor", "class", "sha256"} \X {"none"}
  BY DEF Collectable
<1> QED
  BY <1>1 DEF Resolving, Suggesting, Variants

LEMMA VariantsAreVariants ==
  ASSUME NEW e \in Collectable, NEW sources
  PROVE  VariantsFrom(e, sources) \subseteq Variants
  BY EvidencePairs DEF VariantsFrom

(* Of two variants a set of at most one is a singleton, or empty.          *)
LEMMA OneOfTwo ==
  ASSUME NEW S, S \subseteq Variants, ~(Cardinality(S) > 1), NEW v \in S
  PROVE  S = {v}
<1> SUFFICES ASSUME NEW w \in S, w # v PROVE FALSE
  OBVIOUS
<1>1. S = {v, w}
  BY DEF Variants
<1>2. Cardinality({v, w}) = 2
  <2>1. IsFiniteSet({v}) /\ Cardinality({v}) = 1
    BY FS_Singleton
  <2>2. w \notin {v} /\ {v, w} = {v} \cup {w}
    OBVIOUS
  <2> QED
    BY <2>1, <2>2, FS_AddElement
<1> QED
  BY <1>1, <1>2

(* A confirmed variant is the only one trusted evidence names.             *)
LEMMA ConfirmedFact ==
  ASSUME NEW e \in Collectable, Resolve(e).status = "confirmed"
  PROVE  VariantsFrom(e, Resolving) = {Resolve(e).confirmed}
<1> DEFINE S == VariantsFrom(e, Resolving)
<1>1. ~(Cardinality(S) > 1) /\ S # {} /\ Resolve(e).confirmed = CHOOSE v \in S : TRUE
  BY DEF Resolve, Identity
<1>2. S \subseteq Variants
  BY VariantsAreVariants
<1> HIDE DEF S
<1>3. Resolve(e).confirmed \in S
  BY <1>1
<1>4. S = {Resolve(e).confirmed}
  BY <1>1, <1>2, <1>3, OneOfTwo
<1> QED
  BY <1>4 DEF S

LEMMA DecisionFact ==
  ASSUME NEW p, NEW e \in Collectable, NEW h, NEW s, NEW r,
         Decision(p, e, h, s, r) # "reject"
  PROVE  /\ p.family = "krea2"
         /\ VariantsFrom(e, Resolving) = {p.variant}
         /\ ~r.per_token
         /\ r.partial => s.partial
         /\ Decision(p, e, h, s, r) = "allow" => s.id \in p.reference
<1>1. /\ IdentityReasons(Resolve(e), p) = {}
      /\ Decision(p, e, h, s, r) = CoreLevel(p, s, r)
  BY DEF Decision
<1>2. CoreReasons(s, r) = {}
  BY <1>1 DEF CoreLevel
<1>3. ~r.per_token /\ (r.partial => s.partial)
  BY <1>2 DEF CoreReasons
<1>4. Decision(p, e, h, s, r) = "allow" => s.id \in p.reference
  BY <1>1, <1>2 DEF CoreLevel
<1>5. /\ Resolve(e).status = "confirmed"
      /\ p.family = "krea2" /\ p.variant = Resolve(e).confirmed
  BY <1>1 DEF IdentityReasons
<1> QED
  BY <1>3, <1>4, <1>5, ConfirmedFact

(* What a file says of itself confirms nothing, and names its source.      *)
LEMMA InspectFact ==
  ASSUME NEW e \in Collectable, FromLocalFile(e)
  PROVE  /\ Inspect(e).identity.confirmed = "none"
         /\ Inspect(e).source \subseteq Suggesting
<1>1. VariantsFrom(e, Resolving) = {}
  BY DEF VariantsFrom, FromLocalFile, Resolving
<1>2. /\ Resolve(e).confirmed = "none"
      /\ Resolve(e).status \in {"suggested", "ambiguous", "conflict"}
      /\ Resolve(e).status = "suggested" => Cardinality(VariantsFrom(e, Suggesting)) = 1
  BY <1>1 DEF Resolve, Identity
<1>3. ASSUME Resolve(e).status = "suggested"
      PROVE  SourceOrder[Decisive(e, Suggesting)] \in Suggesting
  <2>1. PICK v : v \in VariantsFrom(e, Suggesting)
    <3>1. Cardinality({}) = 0
      BY FS_EmptySet
    <3>2. VariantsFrom(e, Suggesting) # {}
      BY <1>2, <1>3, <3>1
    <3> QED
      BY <3>2
  <2>2. PICK x \in e : x[1] \in Suggesting
    BY <2>1 DEF VariantsFrom
  <2>3. x = <<x[1], x[2]>> /\ x[2] \in Variants
    BY <2>2, EvidencePairs
  <2> DEFINE P(i) == /\ SourceOrder[i] \in Suggesting
                     /\ \E w \in Variants : <<SourceOrder[i], w>> \in e
                     /\ \A j \in 1 .. i - 1 :
                           SourceOrder[j] \in Suggesting =>
                              \A w \in Variants : <<SourceOrder[j], w>> \notin e
  <2>4. /\ DOMAIN SourceOrder = 1 .. 8
        /\ SourceOrder[1] = "explicit" /\ SourceOrder[2] = "profile"
        /\ SourceOrder[3] = "framework" /\ SourceOrder[4] = "sha256"
        /\ SourceOrder[5] = "header" /\ SourceOrder[6] = "filename"
    BY DEF SourceOrder
  <2>5. \A j \in 1 .. 4 : SourceOrder[j] \notin Suggesting
    <3> SUFFICES ASSUME NEW j \in 1 .. 4 PROVE SourceOrder[j] \notin Suggesting
      OBVIOUS
    <3>1. j = 1 \/ j = 2 \/ j = 3 \/ j = 4
      OBVIOUS
    <3> QED
      BY <2>4, <3>1 DEF Suggesting
  <2>6. CASE \E w \in Variants : <<"header", w>> \in e
    <3>1. P(5)
      BY <2>4, <2>5, <2>6 DEF Suggesting
    <3> QED
      BY <2>4, <3>1 DEF Decisive
  <2>7. CASE \A w \in Variants : <<"header", w>> \notin e
    <3>1. x[1] = "filename"
      BY <2>2, <2>3, <2>7 DEF Suggesting
    <3>2. SourceOrder[6] \in Suggesting /\ \E w \in Variants : <<SourceOrder[6], w>> \in e
      BY <2>3, <2>4, <3>1 DEF Suggesting
    <3>3. ASSUME NEW j \in 1 .. 5, SourceOrder[j] \in Suggesting
          PROVE  \A w \in Variants : <<SourceOrder[j], w>> \notin e
      <4>1. j = 5
        BY <2>5, <3>3
      <4> QED
        BY <2>4, <2>7, <4>1
    <3>4. P(6)
      BY <3>2, <3>3
    <3> QED
      BY <2>4, <3>4 DEF Decisive
  <2> QED
    BY <2>6, <2>7
<1>4. DecidedBy(e) \subseteq Suggesting
  BY <1>2, <1>3 DEF DecidedBy
<1> QED
  BY <1>2, <1>4 DEF Inspect

(* No profile is used against what is known of the model, whatever         *)
(* profiles, samplers and hosts there are (resolve_krea2_variant,          *)
(* _identity_reasons, inspect_local_checkpoint_evidence).                  *)
THEOREM DecisionsFollowEvidence == ResolutionSpec => []NoDecisionAgainstEvidence
<1>1. ResolutionInit => NoDecisionAgainstEvidence
  BY DEF ResolutionInit, NoDecisionAgainstEvidence
<1>2. ASSUME NoDecisionAgainstEvidence, [ResolutionNext]_decisions
      PROVE  NoDecisionAgainstEvidence'
  <2>1. CASE ResolveProfileCapabilities
    <3>1. PICK p \in Profiles, e \in Collectable, h \in Hosts, s \in Samplers, r \in Requests :
             decisions' = {[profile |-> p, evidence |-> e, sampler |-> s, request |-> r,
                            level |-> Decision(p, e, h, s, r)]}
      BY <2>1 DEF ResolveProfileCapabilities
    <3> DEFINE d == [profile |-> p, evidence |-> e, sampler |-> s, request |-> r,
                     level |-> Decision(p, e, h, s, r)]
    <3>2. /\ "report" \notin DOMAIN d
          /\ d.profile = p /\ d.evidence = e /\ d.sampler = s /\ d.request = r
          /\ d.level = Decision(p, e, h, s, r)
      OBVIOUS
    <3> HIDE DEF d
    <3>3. decisions' = {d}
      BY <3>1 DEF d
    <3> QED
      BY <3>2, <3>3, DecisionFact DEF NoDecisionAgainstEvidence
  <2>2. CASE InspectLocalCheckpoint
    <3>1. PICK e \in Collectable :
             FromLocalFile(e) /\ decisions' = {[report |-> Inspect(e), evidence |-> e]}
      BY <2>2 DEF InspectLocalCheckpoint
    <3> DEFINE d == [report |-> Inspect(e), evidence |-> e]
    <3>2. "report" \in DOMAIN d /\ d.report = Inspect(e)
      OBVIOUS
    <3> HIDE DEF d
    <3>3. decisions' = {d}
      BY <3>1 DEF d
    <3> QED
      BY <3>1, <3>2, <3>3, InspectFact DEF NoDecisionAgainstEvidence
  <2>3. CASE NextResolution
    BY <2>3 DEF NextResolution, NoDecisionAgainstEvidence
  <2>4. CASE UNCHANGED decisions
    BY <1>2, <2>4 DEF NoDecisionAgainstEvidence
  <2> QED
    BY <1>2, <2>1, <2>2, <2>3, <2>4 DEF ResolutionNext
<1> QED
  BY <1>1, <1>2, PTL DEF ResolutionSpec

-----------------------------------------------------------------------------
(* The verdicts about an artifact.                                         *)

(* No artifact of the table is qualified, so each is blocked or rejected.  *)
LEMMA NoneQualified == \A a \in Artifacts : Artifact[a].disposition \in {"blocked", "rejected"}
  BY DEF Artifact, Artifacts, ArtifactRow

LEMMA ReceiptFact ==
  ASSUME NEW claim \in Claims, CanWriteReceipt(claim)
  PROVE  LET receipt == PublicReceipt(claim)
         IN /\ receipt.status # "eligible"
            /\ receipt.status = "blocked" =>
                  /\ receipt.sha256 # NoHash
                  /\ receipt.artifact \in Profile[receipt.recipe].artifacts
            /\ receipt.sha256 # NoHash => receipt.sha256 = Artifact[receipt.artifact].sha256
<1> DEFINE receipt == PublicReceipt(claim)
<1>1. /\ receipt.recipe = claim.recipe /\ receipt.artifact = claim.artifact
      /\ receipt.status = Status(claim)[1]
      /\ receipt.sha256 = IF claim.artifact # NoArtifact /\ Owned(claim) THEN claim.sha256
                           ELSE NoHash
  BY DEF PublicReceipt
<1>2. receipt.sha256 # NoHash => receipt.sha256 = Artifact[receipt.artifact].sha256
  BY <1>1 DEF CanWriteReceipt, HashMatches
<1>3. claim.artifact = NoArtifact => Status(claim)[1] = "not_provided"
  BY ClaimsAssumption DEF Status, Owned, Named
<1>4. claim.artifact # NoArtifact /\ ~Owned(claim) => Status(claim)[1] = "rejected"
  BY DEF Status
<1>5. claim.artifact # NoArtifact /\ Owned(claim) /\ claim.sha256 = NoHash =>
         Status(claim)[1] = "rejected"
  BY DEF Status
<1>6. claim.artifact # NoArtifact /\ Owned(claim) /\ claim.sha256 # NoHash =>
         Status(claim)[1] \in {"blocked", "rejected"}
  BY NoneQualified DEF Status, Owned
<1>7. Owned(claim) => claim.artifact \in Profile[claim.recipe].artifacts
  <2>1. claim.recipe \in Recipes
    BY DEF Claims
  <2> QED
    BY <2>1 DEF Owned, Profile, ProfileRow
<1> HIDE DEF receipt
<1>8. /\ receipt.status # "eligible"
      /\ receipt.status = "blocked" =>
            /\ receipt.sha256 # NoHash
            /\ receipt.artifact \in Profile[receipt.recipe].artifacts
  BY <1>1, <1>3, <1>4, <1>5, <1>6, <1>7
<1> QED
  BY <1>2, <1>8 DEF receipt

LEMMA NothingRequired == ASSUME NEW claim PROVE ~Required(claim)
  BY NoneQualified DEF Required, Validated, Eligible

(* The receipt of an artifact and the permission to use it agree, whatever *)
(* a caller claims (build_minimax_h3_turbo_public_receipt,                 *)
(* require_minimax_h3_turbo_artifact).                                     *)
THEOREM VerdictsAlwaysAgree == ArtifactsSpec => []VerdictsAgree
<1>1. ArtifactsInit => VerdictsAgree
  BY DEF ArtifactsInit, VerdictsAgree
<1>2. ASSUME VerdictsAgree, [ArtifactsNext]_verdict PROVE VerdictsAgree'
  <2>1. CASE Consider
    <3>1. PICK claim \in Claims :
             /\ CanWriteReceipt(claim)
             /\ verdict' = [claim |-> claim, receipt |-> PublicReceipt(claim),
                            required |-> claim.artifact # NoArtifact /\ Required(claim)]
      BY <2>1 DEF Consider
    <3>2. verdict'.receipt = PublicReceipt(claim) /\ ~verdict'.required
      BY <3>1, NothingRequired
    <3> QED
      BY <3>1, <3>2, ReceiptFact DEF VerdictsAgree
  <2>2. CASE Forget
    BY <2>2 DEF Forget, VerdictsAgree
  <2>3. CASE UNCHANGED verdict
    BY <1>2, <2>3 DEF VerdictsAgree
  <2> QED
    BY <1>2, <2>1, <2>2, <2>3 DEF ArtifactsNext
<1> QED
  BY <1>1, <1>2, PTL DEF ArtifactsSpec

-----------------------------------------------------------------------------
(* The schedules of MiniMax H3.                                            *)

LEMMA AppendFact ==
  ASSUME NEW V, NEW s \in Seq(V), NEW v \in V
  PROVE  LET longer == Append(s, v)
         IN /\ longer \in Seq(V) /\ longer # <<>> /\ longer[Len(longer)] = v
            /\ Len(longer) = Len(s) + 1
            /\ s # <<>> => longer[1] = s[1]
<1> DEFINE longer == Append(s, v)
<1>1. longer \in Seq(V) /\ longer # <<>> /\ Len(longer) = Len(s) + 1 /\ longer[Len(longer)] = v
  OBVIOUS
<1>2. ASSUME s # <<>> PROVE longer[1] = s[1]
  <2>1. 1 \in 1 .. Len(s)
    BY <1>2
  <2> QED
    BY <2>1
<1> QED
  BY <1>1, <1>2

(* Dropping the values that repeat the one before keeps both ends.         *)
LEMMA ConsecutiveFact ==
  ASSUME NEW V, NEW x \in Seq(V), x # <<>>
  PROVE  LET kept == UniqueConsecutive(x)
         IN kept \in Seq(V) /\ kept # <<>> /\ kept[Len(kept)] = x[Len(x)] /\ kept[1] = x[1]
<1> DEFINE Step(n, result) == IF n = 0 THEN <<x[1]>>
                              ELSE IF x[n + 1] = result[Len(result)] THEN result
                              ELSE Append(result, x[n + 1])
           Goes(m, f) == f = [n \in 0 .. m |-> Step(n, f[n - 1])]
           kept == CHOOSE f : Goes(Len(x) - 1, f)
           Ends(s, v) == s \in Seq(V) /\ s # <<>> /\ s[Len(s)] = v /\ s[1] = x[1]
           T == {m \in Nat : \E f : Goes(m, f)}
           U == {n \in Nat : n <= Len(x) - 1 => Ends(kept[n], x[n + 1])}
<1>1. Len(x) - 1 \in Nat /\ \A n \in 0 .. Len(x) - 1 : x[n + 1] \in V
  OBVIOUS
<1>2. 0 \in T
  <2>1. Goes(0, [n \in 0 .. 0 |-> <<x[1]>>])
    OBVIOUS
  <2> QED
    BY <2>1
<1>3. ASSUME NEW m \in T PROVE m + 1 \in T
  <2>1. PICK f : Goes(m, f)
    BY <1>3
  <2> DEFINE next == Step(m + 1, f[m])
             g == [n \in 0 .. m + 1 |-> IF n = m + 1 THEN next ELSE f[n]]
  <2>2. \A r : Step(0, r) = <<x[1]>>
    OBVIOUS
  <2> HIDE DEF Step
  <2>3. ASSUME NEW n \in 0 .. m + 1 PROVE g[n] = Step(n, g[n - 1])
    <3>1. CASE n = 0
      <4>1. g[0] = f[0]
        OBVIOUS
      <4>2. f[0] = Step(0, f[0 - 1])
        BY <2>1
      <4>3. f[0] = <<x[1]>> /\ Step(0, g[0 - 1]) = <<x[1]>>
        BY <2>2, <4>2
      <4> QED
        BY <3>1, <4>1, <4>3
    <3>2. CASE n \in 1 .. m
      <4>1. g[n] = f[n] /\ g[n - 1] = f[n - 1]
        BY <3>2
      <4> QED
        BY <2>1, <3>2, <4>1
    <3>3. CASE n = m + 1
      <4>1. g[n] = next /\ g[m] = f[m] /\ n - 1 = m
        BY <3>3
      <4> QED
        BY <3>3, <4>1
    <3> QED
      BY <3>1, <3>2, <3>3
  <2>4. Goes(m + 1, g)
    BY <2>3
  <2> HIDE DEF Goes, g
  <2> QED
    BY <2>4
<1>4. T = Nat
  <2>1. T \in SUBSET Nat
    OBVIOUS
  <2> HIDE DEF T
  <2> QED
    BY <1>2, <1>3, <2>1, SetInduction
<1>5. Goes(Len(x) - 1, kept)
  <2> HIDE DEF Goes
  <2>1. \E f : Goes(Len(x) - 1, f)
    BY <1>1, <1>4
  <2> QED
    BY <2>1
<1>6. UniqueConsecutive(x) = kept[Len(x) - 1]
  BY DEF UniqueConsecutive
<1> HIDE DEF kept
<1>7. \A n \in 0 .. Len(x) - 1 : kept[n] = Step(n, kept[n - 1])
  <2> HIDE DEF Step
  <2> QED
    BY <1>5
<1>8. 0 \in U
  <2>1. kept[0] = <<x[1]>> /\ x[1] \in V
    BY <1>1, <1>7
  <2> DEFINE v == x[1]
  <2>2. v \in V /\ Ends(<<v>>, v)
    BY <2>1
  <2> HIDE DEF Ends
  <2>3. Ends(kept[0], x[0 + 1])
    BY <2>1, <2>2
  <2> QED
    BY <2>3
<1>9. ASSUME NEW n \in U PROVE n + 1 \in U
  <2> SUFFICES ASSUME n + 1 <= Len(x) - 1 PROVE Ends(kept[n + 1], x[n + 2])
    OBVIOUS
  <2>1. Ends(kept[n], x[n + 1]) /\ x[n + 2] \in V
    BY <1>1
  <2>2. kept[n + 1] = Step(n + 1, kept[n])
    <3>1. n + 1 \in 0 .. Len(x) - 1 /\ (n + 1) - 1 = n
      BY <1>1
    <3> HIDE DEF Step
    <3> QED
      BY <1>7, <3>1
  <2>3. kept[n + 1] = IF x[n + 2] = kept[n][Len(kept[n])] THEN kept[n]
                      ELSE Append(kept[n], x[n + 2])
    BY <2>2
  <2> HIDE DEF Step
  <2>4. CASE x[n + 2] = kept[n][Len(kept[n])]
    BY <2>1, <2>3, <2>4
  <2>5. CASE x[n + 2] # kept[n][Len(kept[n])]
    <3> DEFINE s == kept[n] v == x[n + 2]
    <3>1. /\ s \in Seq(V) /\ s # <<>> /\ s[1] = x[1]
          /\ v \in V /\ kept[n + 1] = Append(s, v)
      BY <2>1, <2>3, <2>5
    <3> HIDE DEF s, v
    <3>2. Ends(Append(s, v), v)
      BY <3>1, AppendFact, SMTT(30)
    <3> QED
      BY <3>1, <3>2 DEF v
  <2> QED
    BY <2>4, <2>5
<1>10. U = Nat
  <2>1. U \in SUBSET Nat
    OBVIOUS
  <2> HIDE DEF U
  <2> QED
    BY <1>8, <1>9, <2>1, SetInduction
<1>11. Ends(kept[Len(x) - 1], x[Len(x) - 1 + 1])
  BY <1>1, <1>10
<1> HIDE DEF Step, Goes
<1> QED
  BY <1>1, <1>6, <1>11

(* A function over 1 .. n is a sequence of its values.                     *)
LEMMA FunctionIsSequence ==
  ASSUME NEW n \in Nat, NEW f, f = [i \in 1 .. n |-> f[i]]
  PROVE  /\ f \in Seq({f[i] : i \in 1 .. n}) /\ Len(f) = n
<1>1. f \in [1 .. n -> {f[i] : i \in 1 .. n}]
  OBVIOUS
<1> QED
  BY <1>1

LEMMA WholeDivision == \A m \in Nat \ {0}, k \in Int : (k * m) \div m = k
  OBVIOUS

(* A grid from One to zero has these ends, and shifting and rounding it    *)
(* leave them alone.                                                       *)
LEMMA GridEnds ==
  ASSUME NEW n \in Nat \ {0}
  PROVE  /\ LinearGrid(n + 1, One, 0)[n + 1] = 0 /\ DOMAIN LinearGrid(n + 1, One, 0) = 1 .. n + 1
         /\ LinearGrid(n + 1, One, 0)[1] = One
<1>1. n + 1 \in 1 .. n + 1 /\ (n + 1) - 1 = n
  OBVIOUS
<1>2. ((0 - One) * n) \div n = 0 - One
  BY WholeDivision, RoundingAssumption
<1>3. 1 \in 1 .. n + 1 /\ (0 - One) * (1 - 1) = 0 * n /\ (0 * n) \div n = 0
  BY WholeDivision, RoundingAssumption
<1>4. LinearGrid(n + 1, One, 0)[1] = One
  BY <1>1, <1>3, RoundingAssumption DEF LinearGrid
<1> QED
  BY <1>1, <1>2, <1>4, RoundingAssumption DEF LinearGrid

LEMMA StaysZero ==
  ASSUME NEW m \in Nat \ {0}, NEW x, DOMAIN x = 1 .. m, x[m] = 0, x[1] = One, NEW ratio
  PROVE  /\ DOMAIN Host(x) = 1 .. m /\ Host(x)[m] = 0 /\ Host(x)[1] = One
         /\ DOMAIN Shift(x, ratio) = 1 .. m /\ Shift(x, ratio)[m] = 0
         /\ Shift(x, ratio)[1] = One
  BY RoundingAssumption DEF Host, Shift

(* Whatever the node builds itself ends in zero.                           *)
LEMMA CompleteFact ==
  ASSUME NEW recipe, NEW steps \in Nat \ {0}
  PROVE  LET complete == CompleteSchedule(recipe, steps)
         IN \E V : /\ complete \in Seq(V) /\ complete # <<>> /\ complete[Len(complete)] = 0
                   /\ Len(complete) >= 2
<1>1. CASE recipe = NoRecipe
  <2> DEFINE m == steps + 1
             grid == LinearGrid(m, One, 0)
             x == Host(Shift(Host(grid), BaseShift.video))
             V == {x[i] : i \in 1 .. m}
  <2>1. m \in Nat \ {0} /\ DOMAIN grid = 1 .. m /\ grid[m] = 0 /\ grid[1] = One
    BY GridEnds
  <2> HIDE DEF m, grid
  <2>2. DOMAIN Host(grid) = 1 .. m /\ Host(grid)[m] = 0 /\ Host(grid)[1] = One
    BY <2>1, StaysZero
  <2>3. /\ DOMAIN Shift(Host(grid), BaseShift.video) = 1 .. m
        /\ Shift(Host(grid), BaseShift.video)[m] = 0
        /\ Shift(Host(grid), BaseShift.video)[1] = One
    BY <2>1, <2>2, StaysZero
  <2>4. DOMAIN x = 1 .. m /\ x[m] = 0 /\ x[1] = One
    BY <2>1, <2>3, StaysZero
  <2>5. x = [i \in 1 .. m |-> x[i]]
    BY <2>3 DEF Host
  <2> HIDE DEF x
  <2>6. x \in Seq(V) /\ Len(x) = m /\ x # <<>>
    BY <2>1, <2>5, FunctionIsSequence
  <2>7. CompleteSchedule(recipe, steps) = UniqueConsecutive(x)
    BY <1>1 DEF CompleteSchedule, EndpointSchedule, m, grid, x
  <2> DEFINE kept == UniqueConsecutive(x)
  <2> HIDE DEF V
  <2>8. kept \in Seq(V) /\ kept # <<>> /\ kept[Len(kept)] = 0 /\ kept[1] = One
    BY <2>4, <2>6, ConsecutiveFact
  <2> HIDE DEF kept
  <2>9. Len(kept) >= 2
    BY <2>8, RoundingAssumption
  <2> QED
    BY <2>7, <2>8, <2>9 DEF kept
<1>2. CASE recipe # NoRecipe
  <2> DEFINE x == Shift(ReciprocalGrid(steps), ShiftOf(recipe).video)
             V == {x[i] : i \in 1 .. steps} \cup {0}
  <2>1. x = [i \in 1 .. steps |-> x[i]]
    BY DEF Shift, ReciprocalGrid
  <2> HIDE DEF x
  <2>2. x \in [1 .. steps -> V]
    BY <2>1
  <2>3. 0 \in V
    OBVIOUS
  <2> HIDE DEF V
  <2>5. x \in Seq(V) /\ Len(x) = steps
    BY <2>2
  <2>4. CompleteSchedule(recipe, steps) = Append(x, 0)
    BY <1>2 DEF CompleteSchedule, WithTerminal, x
  <2> QED
    BY <2>3, <2>4, <2>5, AppendFact
<1> QED
  BY <1>1, <1>2

LEMMA SliceFact ==
  ASSUME NEW V, NEW x \in Seq(V), NEW first \in Nat, NEW last \in Nat,
         first < last, last <= Steps(x)
  PROVE  LET output == SliceStepRange(x, first, last)
         IN /\ output \in Seq(V) /\ Len(output) = last - first + 1
            /\ output[Len(output)] = x[last + 1]
<1> DEFINE output == SubSeq(x, first + 1, last + 1)
<1>1. /\ Len(x) \in Nat /\ first + 1 \in 1 .. Len(x) /\ last + 1 \in 1 .. Len(x)
      /\ first + 1 <= last + 1
  BY DEF Steps
<1>2. /\ output \in Seq(V) /\ Len(output) = (last + 1) - (first + 1) + 1
      /\ \A i \in 1 .. Len(output) : output[i] = x[(first + 1) + i - 1]
  BY <1>1
<1> HIDE DEF output
<1>3. Len(output) = last - first + 1 /\ Len(output) \in 1 .. Len(output)
  BY <1>2
<1>4. (first + 1) + Len(output) - 1 = last + 1
  BY <1>3
<1>5. output[Len(output)] = x[last + 1]
  BY <1>2, <1>3, <1>4
<1> QED
  BY <1>2, <1>3, <1>5 DEF output, SliceStepRange

LEMMA HostFact ==
  ASSUME NEW V, NEW x \in Seq(V), x # <<>>
  PROVE  /\ Len(Host(x)) = Len(x)
         /\ Host(x)[Len(Host(x))] = Float32[x[Len(x)]]
<1>1. Len(x) \in Nat /\ DOMAIN x = 1 .. Len(x) /\ Len(x) \in 1 .. Len(x)
  OBVIOUS
<1>2. Host(x) = [i \in 1 .. Len(x) |-> Float32[x[i]]]
  BY <1>1 DEF Host
<1>3. Host(x) = [i \in 1 .. Len(x) |-> Host(x)[i]]
  BY <1>2
<1>4. Len(Host(x)) = Len(x)
  BY <1>1, <1>3, FunctionIsSequence
<1> QED
  BY <1>1, <1>2, <1>4

LEMMA WindowFact ==
  ASSUME NEW steps \in Nat, NEW first, NEW last, SliceBounds(first, last, steps)
  PROVE  /\ first \in Nat /\ EndStep(last, steps) \in Nat
         /\ first < EndStep(last, steps) /\ EndStep(last, steps) <= steps
  BY DEF SliceBounds, EndStep

InfoFields ==
    {"lane", "task", "recipe", "requested", "effective", "shift", "available", "start",
     "end", "steps", "complete", "output", "native", "receipt"}

(* A result before it is bound, from a schedule that ends in zero; its     *)
(* receipt, if it has one, names its recipe.                               *)
Made(r, lane, task, recipe, n) ==
    /\ DOMAIN r = {"values", "info"} /\ DOMAIN r.info = InfoFields
    /\ r.info.lane = lane /\ r.info.task = task /\ r.info.recipe = recipe
    /\ r.info.requested = n /\ r.info.shift = ShiftOf(recipe)
    /\ r.info.receipt = NoSchedule \/ \E values : r.info.receipt = NodeReceipt(recipe, n, values)

Sliced(r) ==
    LET info == r.info
    IN /\ \E V : info.complete \in Seq(V)
       /\ info.complete # <<>> /\ info.complete[Len(info.complete)] = 0
       /\ info.start \in Nat /\ info.end \in Nat
       /\ info.start < info.end /\ info.end <= Steps(info.complete)
       /\ r.values = SliceStepRange(info.complete, info.start, info.end)
       /\ info.output = r.values /\ info.steps = Steps(r.values)
       /\ info.available = Steps(info.complete)

LEMMA OwnFact ==
  ASSUME NEW task, NEW recipe, NEW n, NEW w
  PROVE  LET r == Own(task, recipe, n, w)
         IN /\ Made(r, "endpoint", task, recipe, n)
            /\ r.info.complete = CompleteSchedule(recipe, n)
            /\ r.info.start = w[1] /\ r.info.end = EndStep(w[2], Steps(r.info.complete))
            /\ r.values = SliceStepRange(r.info.complete, r.info.start, r.info.end)
            /\ r.info.output = r.values /\ r.info.steps = Steps(r.values)
            /\ r.info.available = Steps(r.info.complete)
<1> DEFINE complete == CompleteSchedule(recipe, n)
           end == EndStep(w[2], Steps(complete))
           output == SliceStepRange(complete, w[1], end)
           info == [lane |-> "endpoint", task |-> task, recipe |-> recipe, requested |-> n,
                    effective |-> Steps(complete), shift |-> ShiftOf(recipe),
                    available |-> Steps(complete), start |-> w[1], end |-> end,
                    steps |-> Steps(output), complete |-> complete, output |-> output,
                    native |-> NoSchedule, receipt |-> NodeReceipt(recipe, n, output)]
<1>1. Own(task, recipe, n, w) = [values |-> output, info |-> info]
  BY DEF Own
<1>2. /\ info.lane = "endpoint" /\ info.task = task /\ info.recipe = recipe
      /\ info.requested = n /\ info.shift = ShiftOf(recipe)
      /\ info.available = Steps(complete) /\ info.start = w[1] /\ info.end = end
      /\ info.steps = Steps(output) /\ info.complete = complete /\ info.output = output
      /\ info.receipt = NodeReceipt(recipe, n, output)
      /\ DOMAIN info = InfoFields
  BY DEF InfoFields
<1> HIDE DEF info, output, end, complete
<1>3. /\ Own(task, recipe, n, w).info = info /\ Own(task, recipe, n, w).values = output
      /\ DOMAIN Own(task, recipe, n, w) = {"values", "info"}
  BY <1>1
<1> QED
  BY <1>2, <1>3 DEF Made, output, end, complete

(* What the host answered replaces the schedule in the info, and leaves    *)
(* the rest of it as it was.                                               *)
LEMMA NativeFact ==
  ASSUME NEW own, NEW task, NEW recipe, NEW n, Made(own, "endpoint", task, recipe, n), NEW v
  PROVE  LET r == NativeResult(own, v)
         IN /\ Made(r, "native", task, recipe, n)
            /\ r.info.complete = v.basic /\ r.info.start = v.start /\ r.info.end = v.end
            /\ r.values = v.output /\ r.info.output = v.output
            /\ r.info.steps = Steps(v.output) /\ r.info.available = Steps(v.basic)
<1> DEFINE info == [own.info EXCEPT !.lane = "native", !.native = v.fingerprint,
                                    !.effective = Steps(v.output),
                                    !.available = Steps(v.basic), !.start = v.start,
                                    !.end = v.end, !.steps = Steps(v.output),
                                    !.complete = v.basic, !.output = v.output]
<1>1. NativeResult(own, v) = [values |-> v.output, info |-> info]
  BY DEF NativeResult
<1>2. /\ info.lane = "native" /\ info.task = task /\ info.recipe = recipe
      /\ info.requested = n /\ info.shift = ShiftOf(recipe)
      /\ info.available = Steps(v.basic) /\ info.start = v.start /\ info.end = v.end
      /\ info.steps = Steps(v.output) /\ info.complete = v.basic /\ info.output = v.output
      /\ info.receipt = own.info.receipt /\ DOMAIN info = InfoFields
  BY DEF Made, InfoFields
<1> HIDE DEF info
<1>3. /\ NativeResult(own, v).info = info /\ NativeResult(own, v).values = v.output
      /\ DOMAIN NativeResult(own, v) = {"values", "info"}
  BY <1>1
<1> QED
  BY <1>2, <1>3 DEF Made

(* Binding changes the values, and with them the output and the receipt.   *)
LEMMA BoundFact ==
  ASSUME NEW r, NEW lane, NEW task, NEW recipe, NEW n, Made(r, lane, task, recipe, n)
  PROVE  LET b == BoundDelegation(r)
         IN /\ b.values = Host(r.values) /\ b.info.output = Host(r.values)
            /\ b.info.lane = lane /\ b.info.task = task /\ b.info.recipe = recipe
            /\ b.info.requested = n /\ b.info.shift = ShiftOf(recipe)
            /\ b.info.available = r.info.available /\ b.info.steps = r.info.steps
            /\ b.info.complete = r.info.complete
            /\ b.info.start = r.info.start /\ b.info.end = r.info.end
            /\ \/ b.info.receipt = NoSchedule
               \/ /\ recipe # NoRecipe
                  /\ b.info.receipt.schedule = Host(r.values)
                  /\ b.info.receipt.recipe = recipe
                  /\ b.info.receipt.task = Profile[recipe].task
<1> DEFINE receipt == IF r.info.receipt = NoSchedule THEN r.info.receipt
                      ELSE [r.info.receipt EXCEPT !.schedule = Host(r.values)]
           info == [r.info EXCEPT !.output = Host(r.values), !.receipt = receipt]
<1>1. \/ receipt = NoSchedule
      \/ /\ recipe # NoRecipe /\ receipt.schedule = Host(r.values)
         /\ receipt.recipe = recipe /\ receipt.task = Profile[recipe].task
  <2>1. CASE r.info.receipt = NoSchedule
    BY <2>1
  <2>2. CASE r.info.receipt # NoSchedule
    <3>1. PICK values : r.info.receipt = NodeReceipt(recipe, n, values)
      BY <2>2 DEF Made
    <3>2. /\ recipe # NoRecipe
          /\ r.info.receipt = [recipe |-> recipe, task |-> Profile[recipe].task, nfe |-> n,
                               shift |-> Profile[recipe].shift, schedule |-> values]
      BY <2>2, <3>1 DEF NodeReceipt
    <3>3. receipt = [r.info.receipt EXCEPT !.schedule = Host(r.values)]
      BY <2>2
    <3> QED
      BY <3>2, <3>3
  <2> QED
    BY <2>1, <2>2
<1>2. BoundDelegation(r) = [r EXCEPT !.values = Host(r.values), !.info = info]
  BY DEF BoundDelegation, Made, InfoFields
<1> HIDE DEF receipt
<1>3. /\ info.output = Host(r.values) /\ info.receipt = receipt
      /\ info.lane = lane /\ info.task = task /\ info.recipe = recipe
      /\ info.requested = n /\ info.shift = ShiftOf(recipe)
      /\ info.available = r.info.available /\ info.steps = r.info.steps
      /\ info.complete = r.info.complete
      /\ info.start = r.info.start /\ info.end = r.info.end
  BY DEF Made, InfoFields
<1> HIDE DEF info
<1>4. BoundDelegation(r).values = Host(r.values) /\ BoundDelegation(r).info = info
  BY <1>2 DEF Made
<1> QED
  BY <1>1, <1>3, <1>4

(* Binding a slice of a schedule that ends in zero makes an info that      *)
(* describes the values beside it.                                         *)
LEMMA SlicedIsTrue ==
  ASSUME NEW r, NEW lane, NEW task, NEW recipe, NEW n, Made(r, lane, task, recipe, n),
         Sliced(r), RecipeFits(recipe, task), schedule' = BoundDelegation(r)
  PROVE  DelegatedInfoIsTrue'
<1> DEFINE info == r.info  b == BoundDelegation(r)
<1>1. PICK V : info.complete \in Seq(V)
  BY DEF Sliced
<1>2. /\ info.start \in Nat /\ info.end \in Nat
      /\ info.start < info.end /\ info.end <= Steps(info.complete)
      /\ r.values = SliceStepRange(info.complete, info.start, info.end)
  BY DEF Sliced
<1>3. /\ r.values \in Seq(V) /\ Len(r.values) = info.end - info.start + 1
      /\ r.values[Len(r.values)] = info.complete[info.end + 1]
  <2> HIDE DEF info
  <2> QED
    BY <1>1, <1>2, SliceFact
<1>4. r.values # <<>>
  BY <1>2, <1>3
<1>5. /\ Len(Host(r.values)) = Len(r.values)
      /\ Host(r.values)[Len(Host(r.values))] = Float32[r.values[Len(r.values)]]
  BY <1>3, <1>4, HostFact
<1>6. info.end = Steps(info.complete) => Host(r.values)[Len(Host(r.values))] = 0
  <2>1. Len(info.complete) \in Nat
    BY <1>1
  <2>2. info.end = Steps(info.complete) => info.end + 1 = Len(info.complete)
    BY <1>2, <2>1 DEF Steps
  <2> QED
    BY <1>3, <1>5, <2>2, RoundingAssumption DEF Sliced
<1>7. info.end \in info.start + 1 .. info.available
  <2>1. Steps(info.complete) \in Int
    BY <1>1 DEF Steps
  <2> QED
    BY <1>2, <2>1 DEF Sliced
<1>8. Steps(Host(r.values)) = info.steps
  BY <1>5 DEF Sliced, Steps
<1>9. /\ b.values = Host(r.values) /\ b.info.output = Host(r.values)
      /\ b.info.task = task /\ b.info.recipe = recipe
      /\ b.info.available = info.available /\ b.info.steps = info.steps
      /\ b.info.complete = info.complete
      /\ b.info.start = info.start /\ b.info.end = info.end
      /\ \/ b.info.receipt = NoSchedule
         \/ /\ recipe # NoRecipe /\ b.info.receipt.schedule = Host(r.values)
            /\ b.info.receipt.recipe = recipe
            /\ b.info.receipt.task = Profile[recipe].task
  BY BoundFact
<1>10. r.values = SliceStepRange(info.complete, info.start, info.end)
       /\ info.available = Steps(info.complete)
  BY DEF Sliced
<1> HIDE DEF b, info
<1>11. schedule' = b
  BY DEF b
<1> QED
  BY <1>6, <1>7, <1>8, <1>9, <1>10, <1>11 DEF DelegatedInfoIsTrue, RecipeFits

(* The node's own schedule, and the one it makes of an answer it accepts.  *)
LEMMA OwnIsSliced ==
  ASSUME NEW task, NEW recipe, NEW n, NEW w, CanBuildOwn(task, recipe, n, w)
  PROVE  /\ Made(Own(task, recipe, n, w), "endpoint", task, recipe, n)
         /\ Sliced(Own(task, recipe, n, w))
<1> DEFINE r == Own(task, recipe, n, w)
           complete == CompleteSchedule(recipe, n)
<1>1. n \in Nat \ {0} /\ SliceBounds(w[1], w[2], Steps(complete))
  BY DEF CanBuildOwn, AvailableSteps, MaxH3Steps
<1>2. PICK V : complete \in Seq(V) /\ complete # <<>> /\ complete[Len(complete)] = 0
  BY <1>1, CompleteFact
<1>3. Steps(complete) \in Nat
  BY <1>2 DEF Steps
<1>4. /\ Made(r, "endpoint", task, recipe, n) /\ r.info.complete = complete
      /\ r.info.start = w[1] /\ r.info.end = EndStep(w[2], Steps(complete))
      /\ r.values = SliceStepRange(r.info.complete, r.info.start, r.info.end)
      /\ r.info.output = r.values /\ r.info.steps = Steps(r.values)
      /\ r.info.available = Steps(r.info.complete)
  BY OwnFact
<1> HIDE DEF r, complete
<1>5. /\ r.info.start \in Nat /\ r.info.end \in Nat
      /\ r.info.start < r.info.end /\ r.info.end <= Steps(complete)
  BY <1>1, <1>3, <1>4, WindowFact
<1>6. Sliced(r)
  BY <1>2, <1>4, <1>5 DEF Sliced
<1> QED
  BY <1>4, <1>6 DEF r

LEMMA TailFact ==
  ASSUME NEW x \in Seq(Int), Len(x) >= 2, x[Len(x)] = 0, NEW steps \in Nat \ {0}
  PROVE  LET basic == BasicTail(x, steps)
         IN basic \in Seq(Int) /\ Len(basic) >= 2 /\ basic[Len(basic)] = 0
<1>1. CASE Len(x) <= steps + 1
  BY <1>1 DEF BasicTail
<1>2. CASE Len(x) > steps + 1
  <2> DEFINE tail == SubSeq(x, Len(x) - steps, Len(x))
  <2>1. Len(x) \in Nat /\ Len(x) - steps \in 1 .. Len(x) /\ Len(x) \in 1 .. Len(x)
    BY <1>2
  <2>2. tail \in Seq(Int) /\ Len(tail) = steps + 1 /\ tail[steps + 1] = x[Len(x)]
    BY <2>1
  <2>3. BasicTail(x, steps) = tail
    BY <1>2, <2>1 DEF BasicTail
  <2> HIDE DEF tail
  <2> QED
    BY <2>2, <2>3
<1> QED
  BY <1>1, <1>2

LEMMA NativeIsSliced ==
  ASSUME NEW own, NEW task, NEW recipe, NEW n, Made(own, "endpoint", task, recipe, n),
         NEW q, q.steps \in Nat \ {0}, NEW result \in HostResults, NEW w,
         ResultAccepted(q, result, w)
  PROVE  LET r == NativeResult(own, Validation(q, result, w))
         IN Made(r, "native", task, recipe, n) /\ Sliced(r)
<1> DEFINE basic == BasicTail(result.values, q.steps)
           v == Validation(q, result, w)
           r == NativeResult(own, v)
<1>1. /\ result.values \in Seq(Int) /\ Len(result.values) >= 2
      /\ result.values[Len(result.values)] = 0
      /\ SliceBounds(w[1], w[2], Steps(basic))
  BY DelegationAssumption DEF ResultAccepted, ValidRaw
<1>2. basic \in Seq(Int) /\ Len(basic) >= 2 /\ basic[Len(basic)] = 0
  BY <1>1, TailFact
<1>3. /\ v.basic = basic /\ v.start = w[1] /\ v.end = EndStep(w[2], Steps(basic))
      /\ v.output = SliceStepRange(basic, w[1], EndStep(w[2], Steps(basic)))
  BY DEF Validation
<1> HIDE DEF v, basic
<1>4. /\ Made(r, "native", task, recipe, n)
      /\ r.info.complete = v.basic /\ r.info.start = v.start /\ r.info.end = v.end
      /\ r.values = v.output /\ r.info.output = v.output
      /\ r.info.steps = Steps(v.output) /\ r.info.available = Steps(v.basic)
  BY NativeFact
<1> HIDE DEF r
<1>5. Steps(basic) \in Nat /\ basic # <<>>
  BY <1>2 DEF Steps
<1>6. /\ v.start \in Nat /\ v.end \in Nat /\ v.start < v.end /\ v.end <= Steps(basic)
  BY <1>1, <1>3, <1>5, WindowFact DEF basic
<1>7. Sliced(r)
  BY <1>2, <1>3, <1>4, <1>5, <1>6 DEF Sliced
<1> QED
  BY <1>4, <1>7 DEF r, v

(* The two steps of the node.                                              *)
LEMMA OwnKeepsInfo ==
  ASSUME BuildOwn
  PROVE  DelegatedInfoIsTrue' /\ schedule'.info.lane = "endpoint"
<1>1. PICK task \in {"fl2va", "ref2va"}, sel \in Selectors, n \in H3Steps, w \in H3Slices :
         /\ CanBuildOwn(task, SelectedRecipe(sel), n, w)
         /\ schedule' = BoundDelegation(Own(task, SelectedRecipe(sel), n, w))
  BY DEF BuildOwn
<1> DEFINE recipe == SelectedRecipe(sel)  r == Own(task, recipe, n, w)
<1>2. Made(r, "endpoint", task, recipe, n) /\ Sliced(r) /\ RecipeFits(recipe, task)
  BY <1>1, OwnIsSliced DEF CanBuildOwn
<1>3. schedule' = BoundDelegation(r)
  BY <1>1
<1> HIDE DEF r, recipe
<1>4. DelegatedInfoIsTrue'
  BY <1>2, <1>3, SlicedIsTrue
<1>5. BoundDelegation(r).info.lane = "endpoint"
  BY <1>2, BoundFact
<1> QED
  BY <1>3, <1>4, <1>5

LEMMA NativeKeepsInfo ==
  ASSUME BuildNative
  PROVE  /\ DelegatedInfoIsTrue'
         /\ \E recipe \in Recipes \cup {NoRecipe} : \E task, n, scheduler :
               /\ Admits(task, recipe, n, scheduler)
               /\ recipe # NoRecipe => n \in Profile[recipe].nfe
               /\ schedule'.info.shift = ShiftOf(recipe) /\ schedule'.info.recipe = recipe
               /\ schedule'.info.requested = n
<1>1. PICK task \in {"fl2va", "ref2va"}, sel \in Selectors, n \in H3Steps, w \in H3Slices,
           scheduler \in NativeSchedulers :
         /\ CanBuildOwn(task, SelectedRecipe(sel), n, w)
         /\ Delegated(task, SelectedRecipe(sel), n, w, scheduler)
  BY DEF BuildNative
<1> DEFINE recipe == SelectedRecipe(sel)
           own == Own(task, recipe, n, w)
           q == QualifiedHere(task, recipe, n, scheduler)
<1>2. recipe \in Recipes \cup {NoRecipe}
  BY SelectorsAssumption DEF SelectedRecipe
<1>3. /\ CanBuildOwn(task, recipe, n, w) /\ Delegated(task, recipe, n, w, scheduler)
      /\ RecipeFits(recipe, task) /\ n \in Nat \ {0}
      /\ recipe # NoRecipe => n \in Profile[recipe].nfe
  BY <1>1, SMTT(30) DEF CanBuildOwn, MaxH3Steps
<1> HIDE DEF recipe
<1>4. Admits(task, recipe, n, scheduler)
  BY <1>3 DEF Delegated
<1>5. PICK answer \in HostResults :
         /\ AnswerUsable(task, recipe, n, w, scheduler, answer)
         /\ schedule' = BoundDelegation(NativeOutcome(task, recipe, n, w, scheduler, answer))
  BY <1>3 DEF Delegated
<1> DEFINE r == NativeResult(own, Validation(q, answer, w))
<1>6. ResultAccepted(q, answer, w) /\ schedule' = BoundDelegation(r)
  BY <1>5 DEF AnswerUsable, NativeOutcome
<1>7. q.steps = n
  BY DEF QualifiedHere, Qualified
<1>8. Made(own, "endpoint", task, recipe, n)
  BY <1>3, OwnIsSliced
<1> HIDE DEF own, q
<1>9. Made(r, "native", task, recipe, n) /\ Sliced(r)
  BY <1>3, <1>6, <1>7, <1>8, NativeIsSliced
<1> HIDE DEF r
<1>10. DelegatedInfoIsTrue'
  BY <1>3, <1>6, <1>9, SlicedIsTrue
<1>11. /\ schedule'.info.shift = ShiftOf(recipe) /\ schedule'.info.recipe = recipe
       /\ schedule'.info.requested = n
  BY <1>6, <1>9, BoundFact
<1> QED
  BY <1>2, <1>3, <1>4, <1>10, <1>11

-----------------------------------------------------------------------------
(* One shift for a schedule the host made.                                 *)

Shifts == [video : {m.video : m \in {BaseShift, Unmarked}} \cup VideoShifts,
           audio : {m.audio : m \in {BaseShift, Unmarked}} \cup AudioShifts]

Models == [h3 : BOOLEAN, sampling : {"flow", "av"}, marked : Shifts, patches : Nat,
           shift : Shifts]

ModelType == model \in Models

DelegationInv == ModelType /\ DelegatedUnderOneShift /\ DelegatedInfoIsTrue

LEMMA LoadedFact == ASSUME NEW m \in LoadedModels
                    PROVE  m \in Models
<1>1. PICK h3 \in BOOLEAN, s \in {"flow", "av"} :
         m = [h3 |-> h3, sampling |-> s, marked |-> Unmarked, patches |-> 0,
              shift |-> [video |-> 12, audio |-> IF s = "av" THEN 3 ELSE 0]]
  BY DEF LoadedModels
<1>2. Unmarked \in Shifts /\ [video |-> 12, audio |-> IF s = "av" THEN 3 ELSE 0] \in Shifts
  BY DEF Shifts, Unmarked, BaseShift
<1> QED
  BY <1>1, <1>2 DEF Models

(* Where the contract admits a delegation, the three places the shift is   *)
(* in agree.                                                               *)
LEMMA AdmittedShift ==
  ASSUME ModelType, NEW task, NEW recipe \in Recipes \cup {NoRecipe}, NEW n, NEW scheduler,
         Admits(task, recipe, n, scheduler)
  PROVE  /\ ShiftOf(recipe).video = model.shift.video
         /\ model.marked.video # 0 => model.marked = ShiftOf(recipe)
         /\ model.sampling = "av" => ShiftOf(recipe).audio = model.shift.audio
<1> DEFINE api == HostSampling[host.version]
           evidence == [video |-> model.shift.video,
                        audio |-> IF api = "flow" THEN model.marked.audio
                                  ELSE model.shift.audio]
<1>1. SamplingAccepted(model, api) /\ Qualifies(scheduler, n, Evidence(model, task, api), recipe, api)
  BY DEF Admits
<1>2. api \in {"flow", "av"}
  BY DEF Admits, HostSampling, Pinned
<1>3. ShiftOf(recipe) = IF recipe = NoRecipe THEN BaseShift ELSE H3Recipe[recipe].shift
  BY DEF ShiftOf, Profile, ProfileRow
<1>4. ShiftOf(recipe) = evidence
  BY <1>1, <1>3 DEF Qualifies, Evidence
<1>5. model.sampling = api
  BY <1>1 DEF SamplingAccepted
<1>6. model.marked = [video |-> model.marked.video, audio |-> model.marked.audio]
  BY DEF ModelType, Models, Shifts
<1>7. model.shift = [video |-> model.shift.video, audio |-> model.shift.audio]
  BY DEF ModelType, Models, Shifts
<1>8. CASE api = "flow"
  <2>1. model.marked.video = model.shift.video
    BY <1>1, <1>8 DEF SamplingAccepted
  <2> QED
    BY <1>4, <1>5, <1>6, <1>8, <2>1
<1>9. CASE api = "av"
  <2>1. model.marked.video # 0 => model.marked = model.shift
    BY <1>1, <1>9 DEF SamplingAccepted
  <2> QED
    BY <1>4, <1>5, <1>7, <1>9, <2>1
<1> QED
  BY <1>2, <1>8, <1>9

LEMMA PatchedFact ==
  ASSUME DelegationInv, NEW m \in Models, Patched(m)
  PROVE  DelegationInv'
<1>1. /\ schedule' = NoSchedule /\ model' = [m EXCEPT !.patches = @ + 1]
  BY DEF Patched
<1>2. ModelType'
  BY <1>1 DEF ModelType, Models
<1> QED
  BY <1>1, <1>2 DEF DelegationInv, DelegatedUnderOneShift, DelegatedInfoIsTrue

LEMMA PatchesKeep ==
  ASSUME DelegationInv,
         NEW v \in VideoShifts, NEW a,
         \/ a \in AudioShifts /\ (PatchH3(v, a) \/ PatchShifts(v, a))
         \/ PatchSampling(v) \/ PatchMarker(v)
  PROVE  DelegationInv'
<1> DEFINE shift == [video |-> v, audio |-> a]
<1>1. model \in Models
  BY DEF DelegationInv, ModelType
<1>2. /\ a \in AudioShifts => shift \in Shifts /\ [shift EXCEPT !.audio = 0] \in Shifts
      /\ [video |-> v, audio |-> 0] \in Shifts /\ [model.marked EXCEPT !.video = v] \in Shifts
  BY <1>1 DEF Shifts, Models, Unmarked
<1> HIDE DEF shift
<1>3. CASE a \in AudioShifts /\ PatchH3(v, a)
  <2> DEFINE left == IF model.sampling = "av" THEN shift ELSE [shift EXCEPT !.audio = 0]
             m == [model EXCEPT !.marked = shift, !.shift = left]
  <2>1. left \in Shifts
    BY <1>2, <1>3
  <2>2. Patched(m)
    BY <1>3 DEF PatchH3, shift
  <2> HIDE DEF left
  <2>3. m \in Models
    BY <1>1, <1>2, <1>3, <2>1 DEF Models
  <2> HIDE DEF m
  <2> QED
    BY <2>2, <2>3, PatchedFact
<1>4. CASE a \in AudioShifts /\ PatchShifts(v, a)
  <2> DEFINE m == [model EXCEPT !.shift = shift]
  <2>1. Patched(m) /\ m \in Models
    BY <1>1, <1>2, <1>4 DEF PatchShifts, Models, shift
  <2> HIDE DEF m
  <2> QED
    BY <2>1, PatchedFact
<1>5. CASE PatchSampling(v)
  <2> DEFINE m == [model EXCEPT !.sampling = "flow", !.shift = [video |-> v, audio |-> 0]]
  <2>1. Patched(m) /\ m \in Models
    BY <1>1, <1>2, <1>5 DEF PatchSampling, Models
  <2> HIDE DEF m
  <2> QED
    BY <2>1, PatchedFact
<1>6. CASE PatchMarker(v)
  <2> DEFINE marked == [model.marked EXCEPT !.video = v]
             m == [model EXCEPT !.marked = marked]
  <2>1. [model EXCEPT !.marked.video = v] = m
    BY <1>1 DEF Models
  <2>2. Patched(m) /\ m \in Models
    BY <1>1, <1>2, <1>6, <2>1 DEF PatchMarker, Models
  <2> HIDE DEF m
  <2> QED
    BY <2>2, PatchedFact
<1> QED
  BY <1>3, <1>4, <1>5, <1>6

LEMMA DelegationKeeps ==
  ASSUME DelegationInv, [DelegationNext]_delegation PROVE DelegationInv'
<1>1. ASSUME NEW v \in VideoShifts, NEW a \in AudioShifts,
             PatchH3(v, a) \/ PatchShifts(v, a)
      PROVE  DelegationInv'
  BY <1>1, PatchesKeep
<1>2. ASSUME NEW v \in VideoShifts, PatchSampling(v) \/ PatchMarker(v) PROVE DelegationInv'
  BY <1>2, PatchesKeep
<1>3. CASE BuildOwn /\ UNCHANGED <<host, model>>
  BY <1>3, OwnKeepsInfo DEF DelegationInv, ModelType, DelegatedUnderOneShift
<1>4. CASE BuildNative /\ UNCHANGED <<host, model>>
  <2>1. DelegatedInfoIsTrue' /\ ModelType'
    BY <1>4, NativeKeepsInfo DEF DelegationInv, ModelType
  <2>2. PICK recipe \in Recipes \cup {NoRecipe} : \E task, n, scheduler :
           /\ Admits(task, recipe, n, scheduler)
           /\ recipe # NoRecipe => n \in Profile[recipe].nfe
           /\ schedule'.info.shift = ShiftOf(recipe) /\ schedule'.info.recipe = recipe
           /\ schedule'.info.requested = n
    BY <1>4, NativeKeepsInfo
  <2>3. DelegatedUnderOneShift'
    BY <1>4, <2>2, AdmittedShift DEF DelegationInv, DelegatedUnderOneShift
  <2> QED
    BY <2>1, <2>3 DEF DelegationInv
<1>5. CASE NextPrompt
  <2>1. schedule' = NoSchedule /\ model' \in LoadedModels
    BY <1>5 DEF NextPrompt
  <2> QED
    BY <2>1, LoadedFact DEF DelegationInv, ModelType, DelegatedUnderOneShift,
                            DelegatedInfoIsTrue
<1>6. CASE UNCHANGED delegation
  BY <1>6 DEF delegation, DelegationInv, ModelType, DelegatedUnderOneShift,
              DelegatedInfoIsTrue
<1> QED
  BY <1>1, <1>2, <1>3, <1>4, <1>5, <1>6 DEF DelegationNext

LEMMA DelegationInvariant == DelegationSpec => []DelegationInv
<1>1. DelegationInit => DelegationInv
  BY LoadedFact DEF DelegationInit, DelegationInv, ModelType, DelegatedUnderOneShift,
                    DelegatedInfoIsTrue
<1> QED
  BY <1>1, DelegationKeeps, PTL DEF DelegationSpec

(* A schedule a host made for MiniMax H3 is made under one shift, through  *)
(* any patches and prompts and whatever the host answers (_model_sampling, *)
(* qualify_minimax_h3_scheduler_request).                                  *)
THEOREM DelegatedShiftsAgree == DelegationSpec => []DelegatedUnderOneShift
<1>1. DelegationInv => DelegatedUnderOneShift
  BY DEF DelegationInv
<1> QED
  BY <1>1, DelegationInvariant, PTL

(* The info of a schedule for MiniMax H3 describes the values beside it,   *)
(* for every recipe, step count, window, precision and answer              *)
(* (_native_node_result, bind_minimax_h3_sigma_output_info).               *)
THEOREM H3InfoIsAlwaysTrue == DelegationSpec => []DelegatedInfoIsTrue
<1>1. DelegationInv => DelegatedInfoIsTrue
  BY DEF DelegationInv
<1> QED
  BY <1>1, DelegationInvariant, PTL

-----------------------------------------------------------------------------
(* The cases of the lane.                                                  *)

LEMMA TurboTable ==
  /\ \A r \in Recipes : /\ Profile[r].task = H3Recipe[r].task
                        /\ Profile[r].shift = H3Recipe[r].shift
                        /\ Profile[r].nfe \subseteq H3Recipe[r].nfe
  /\ \A r \in Recipes : Profile[r].nfe = IF r = "fl2va-8-v1.0" THEN {8} ELSE {4}
  /\ \A r \in Recipes : H3Recipe[r].task = IF r = "ref2va-4-v0.1" THEN "ref2va" ELSE "fl2va"
  /\ \A r \in Recipes : H3Recipe[r].shift = [video |-> IF r = "fl2va-4-768p" THEN 6 ELSE 12,
                                             audio |-> 3]
<1>1. \A r \in Recipes : /\ Profile[r].task = H3Recipe[r].task
                         /\ Profile[r].shift = H3Recipe[r].shift
                         /\ Profile[r].nfe \subseteq H3Recipe[r].nfe
  BY TablesAssumption DEF AdmitsProfile
<1>2. \A r \in Recipes : Profile[r].nfe = IF r = "fl2va-8-v1.0" THEN {8} ELSE {4}
  BY DEF Profile, ProfileRow
<1>3. \A r \in Recipes :
        /\ H3Recipe[r].task = IF r = "ref2va-4-v0.1" THEN "ref2va" ELSE "fl2va"
        /\ H3Recipe[r].shift = [video |-> IF r = "fl2va-4-768p" THEN 6 ELSE 12, audio |-> 3]
  BY DEF H3Recipe, Recipes, RecipeRow
<1> QED
  BY <1>1, <1>2, <1>3

LEMMA NativeCaseFact ==
  ASSUME NEW lane, NEW task, NEW recipe, NEW scheduler, NEW steps, NEW window, NEW source,
         NEW expected
  PROVE  LET c == NativeCase(lane, task, recipe, scheduler, steps, window, source, expected)
         IN /\ c.lane = lane /\ c.task = task /\ c.recipe = recipe /\ c.scheduler = scheduler
            /\ c.steps = steps /\ c.window = window /\ c.source = source
            /\ c.expected = expected
  BY DEF NativeCase

(* A case for a scheduler of the host that the node can serve              *)
Servable(c) ==
    /\ c.task \in Tasks /\ c.recipe \in Recipes \cup {NoRecipe}
    /\ c.scheduler \in NativeSchedulers /\ c.steps \in MatrixSteps
    /\ RecipeFits(c.recipe, c.task)
    /\ c.recipe # NoRecipe => c.steps \in Profile[c.recipe].nfe
    /\ \/ c.window = WholeRange
       \/ c.window = <<1, 4>> /\ c.recipe = NoRecipe /\ c.steps = 8

Lanes == {"simple", "base_full", "base_slice", "turbo_full"}

(* Its model is the one its recipe was made for.                           *)
Suited(c) ==
    /\ Servable(c) /\ c.lane \in Lanes
    /\ c.source = Source(ShiftOf(c.recipe))
    /\ c.lane = "simple" => c.window = WholeRange /\ c.steps = 4

LEMMA SuitedFact == ASSUME NEW c \in SimpleCases \cup MatrixCases PROVE Suited(c)
<1>0. NoRecipe \notin Recipes /\ ShiftOf(NoRecipe) = BaseShift
  BY DEF NoRecipe, Recipes, ShiftOf
<1>1. CASE c \in SimpleCases
  <2>1. PICK task \in Tasks :
          c = NativeCase("simple", task, NoRecipe, "simple", 4, WholeRange,
                         Source(BaseShift), NoReason)
    BY <1>1 DEF SimpleCases
  <2> QED
    BY <1>0, <2>1, NativeCaseFact DEF Suited, Servable, Lanes, NativeSchedulers, MatrixSteps,
                                      RecipeFits
<1>2. CASE c \in {NativeCase("base_full", task, NoRecipe, s, n, WholeRange,
                             Source(BaseShift), NoReason) :
                    task \in Tasks, s \in NativeSchedulers, n \in MatrixSteps}
  <2>1. PICK task \in Tasks, s \in NativeSchedulers, n \in MatrixSteps :
          c = NativeCase("base_full", task, NoRecipe, s, n, WholeRange,
                         Source(BaseShift), NoReason)
    BY <1>2
  <2> QED
    BY <1>0, <2>1, NativeCaseFact DEF Suited, Servable, Lanes, RecipeFits
<1>3. CASE c \in {NativeCase("base_slice", task, NoRecipe, s, 8, <<1, 4>>,
                             Source(BaseShift), NoReason) :
                    task \in Tasks, s \in NativeSchedulers}
  <2>1. PICK task \in Tasks, s \in NativeSchedulers :
          c = NativeCase("base_slice", task, NoRecipe, s, 8, <<1, 4>>,
                         Source(BaseShift), NoReason)
    BY <1>3
  <2> QED
    BY <1>0, <2>1, NativeCaseFact DEF Suited, Servable, Lanes, RecipeFits, MatrixSteps
<1>4. CASE c \in {NativeCase("turbo_full", r.task, r.recipe, s, r.steps, WholeRange,
                             Source(r.shift), NoReason) :
                    r \in TurboRows, s \in NativeSchedulers}
  <2>1. PICK r \in TurboRows, s \in NativeSchedulers :
          c = NativeCase("turbo_full", r.task, r.recipe, s, r.steps, WholeRange,
                         Source(r.shift), NoReason)
    BY <1>4
  <2>2. /\ r.recipe \in Recipes /\ r.task = H3Recipe[r.recipe].task
        /\ r.shift = H3Recipe[r.recipe].shift /\ r.steps \in Profile[r.recipe].nfe
        /\ r.steps \in MatrixSteps /\ r.task \in Tasks
    BY TurboTable DEF TurboRows, TurboRow, Recipes, MatrixSteps, Tasks
  <2>3. ShiftOf(r.recipe) = r.shift /\ RecipeFits(r.recipe, r.task)
    BY <1>0, <2>2, TurboTable DEF ShiftOf, RecipeFits
  <2>4. /\ c.lane = "turbo_full" /\ c.task = r.task /\ c.recipe = r.recipe /\ c.scheduler = s
        /\ c.steps = r.steps /\ c.window = WholeRange /\ c.source = Source(r.shift)
    BY <2>1, NativeCaseFact, SMTT(30)
  <2>5. Servable(c)
    BY <2>2, <2>3, <2>4 DEF Servable
  <2>6. c.lane \in Lanes /\ c.lane # "simple"
    BY <2>4 DEF Lanes
  <2> QED
    BY <2>3, <2>4, <2>5, <2>6, Zenon DEF Suited
<1> QED
  BY <1>1, <1>2, <1>3, <1>4 DEF MatrixCases

(* What is wrong with a case that is to be rejected is its model.          *)
Flawed(c) ==
    /\ Servable(c) /\ c.lane = "rejection" /\ c.window = WholeRange /\ c.steps = 4
    /\ <<c.recipe, c.source, c.expected>> \in
          {<<NoRecipe, NoSource, "MODEL_REQUIRED">>,
           <<NoRecipe, OtherSource(BaseShift), "MODEL_FAMILY_MISMATCH">>,
           <<NoRecipe, Source([BaseShift EXCEPT !.video = 6]), "SHIFT_MISMATCH">>,
           <<"fl2va-4-768p", Source(BaseShift), "SHIFT_MISMATCH">>}

LEMMA FlawedFact == ASSUME NEW c \in RejectionCases PROVE Flawed(c)
<1> DEFINE Flaws == {<<NoRecipe, NoSource, "MODEL_REQUIRED">>,
                     <<NoRecipe, OtherSource(BaseShift), "MODEL_FAMILY_MISMATCH">>,
                     <<NoRecipe, Source([BaseShift EXCEPT !.video = 6]), "SHIFT_MISMATCH">>,
                     <<"fl2va-4-768p", Source(BaseShift), "SHIFT_MISMATCH">>}
<1>1. PICK r \in Flaws :
        c = NativeCase("rejection", "fl2va", r[1], "simple", 4, WholeRange, r[2], r[3])
  BY DEF RejectionCases
<1>2. /\ r[1] = NoRecipe \/ r[1] = "fl2va-4-768p"
      /\ r = <<r[1], r[2], r[3]>>
  OBVIOUS
<1>3. /\ "fl2va-4-768p" \in Recipes /\ 4 \in Profile["fl2va-4-768p"].nfe
      /\ Profile["fl2va-4-768p"].task = "fl2va"
  BY TurboTable DEF Recipes
<1> HIDE DEF Flaws
<1>4. Servable(c) /\ c.lane = "rejection" /\ c.window = WholeRange /\ c.steps = 4
  BY <1>1, <1>2, <1>3, NativeCaseFact DEF Servable, Tasks, MatrixSteps, NativeSchedulers, RecipeFits
<1>5. <<c.recipe, c.source, c.expected>> = r
  BY <1>1, <1>2, NativeCaseFact
<1> QED
  BY <1>4, <1>5 DEF Flawed, Flaws

LEMMA CasesFact ==
  ASSUME NEW c \in HostCases
  PROVE  \/ c \in EndpointCases /\ c.lane = "endpoint"
         \/ Suited(c) /\ c.lane \notin {"endpoint", "rejection"}
         \/ Flawed(c) /\ c.lane # "endpoint"
<1>1. ASSUME c \in EndpointCases PROVE c.lane = "endpoint"
  BY <1>1, NativeCaseFact DEF EndpointCases
<1> QED
  BY <1>1, SuitedFact, FlawedFact DEF HostCases, Suited, Flawed, Lanes

(* What can be served, the node builds itself; what the adapter does not   *)
(* refuse, the contract admits.                                            *)
LEMMA ServableBuilds ==
  ASSUME NEW c, Servable(c)
  PROVE  CanBuildOwn(c.task, c.recipe, c.steps, c.window)
<1> DEFINE available == AvailableSteps(c.recipe, c.steps)
<1>1. c.steps \in Nat \ {0} /\ c.steps \in 1 .. MaxH3Steps
  <2>1. c.steps \in {2, 4, 8, 20}
    BY DEF Servable, MatrixSteps
  <2>2. \A n \in {2, 4, 8, 20} : n \in Nat \ {0} /\ n \in 1 .. MaxH3Steps
    BY DEF MaxH3Steps
  <2> QED
    BY <2>1, <2>2, Zenon
<1>2. available \in Nat /\ available >= 1
  <2> DEFINE complete == CompleteSchedule(c.recipe, c.steps)
  <2>1. PICK V : complete \in Seq(V) /\ Len(complete) >= 2
    BY <1>1, CompleteFact
  <2>2. available = Len(complete) - 1
    BY DEF AvailableSteps, Steps
  <2> HIDE DEF complete
  <2> QED
    BY <2>1, <2>2
<1>3. SliceBounds(c.window[1], c.window[2], available)
  <2> HIDE DEF available
  <2>1. CASE c.window = WholeRange
    <3>1. c.window[1] = 0 /\ c.window[2] = -1
      BY <2>1 DEF WholeRange
    <3> QED
      BY <1>2, <3>1 DEF SliceBounds
  <2>2. CASE c.window = <<1, 4>> /\ c.recipe = NoRecipe /\ c.steps = 8
    <3>1. c.window[1] = 1 /\ c.window[2] = 4
      BY <2>2
    <3>2. available >= 4
      BY <2>2, CasesAssumption DEF available
    <3> QED
      BY <1>2, <3>1, <3>2 DEF SliceBounds
  <2> QED
    BY <2>1, <2>2 DEF Servable
<1> QED
  BY <1>1, <1>3 DEF CanBuildOwn, Servable

LEMMA NativeAdmits ==
  ASSUME NEW c, Servable(c), NativeRefusal(c, model) = NoReason
  PROVE  Admits(c.task, c.recipe, c.steps, c.scheduler)
<1> DEFINE api == HostSampling[host.version]
           evidence == Evidence(model, c.task, api)
<1>1. /\ host.version \in Pinned /\ model.sampling = api
      /\ SamplingAccepted(model, api)
      /\ ~(c.steps < Contract[c.scheduler].minimum)
      /\ Contract[c.scheduler].handler \in HandlerNames
      /\ evidence.shift = ShiftOf(c.recipe)
  BY DEF NativeRefusal, NoReason
<1>2. evidence.task = c.task /\ evidence.api = api /\ evidence.shifted
  BY DEF Evidence
<1>3. ShiftOf(c.recipe) = IF c.recipe = NoRecipe THEN BaseShift ELSE H3Recipe[c.recipe].shift
  BY TurboTable DEF ShiftOf, Servable
<1>4. c.recipe # NoRecipe =>
        c.steps \in H3Recipe[c.recipe].nfe /\ c.task = H3Recipe[c.recipe].task
  BY TurboTable DEF Servable, RecipeFits
<1>5. c.steps \in Contract[c.scheduler].minimum .. MaxH3Steps
  <2>1. Contract[c.scheduler].minimum \in {1, 2}
    BY DEF Servable, Contract, Schedulers, NativeContract, NativeSchedulers
  <2> QED
    BY <1>1, <2>1 DEF Servable, MatrixSteps, MaxH3Steps
<1> HIDE DEF api, evidence
<1>6. Qualifies(c.scheduler, c.steps, evidence, c.recipe, api)
  BY <1>1, <1>2, <1>3, <1>4, <1>5 DEF Qualifies
<1> QED
  BY <1>1, <1>6 DEF Admits, api, evidence

(* The sampling object and the markers of a source agree.                  *)
LEMMA SourceFact ==
  ASSUME host.version \in Pinned, NEW source, NEW v \in Nat \ {0},
         source.shift = [video |-> v, audio |-> 3]
  PROVE  LET m == SourceModel(source)  api == HostSampling[host.version]
         IN /\ m.sampling = api /\ m.h3 = source.h3 /\ m.shift.video = v
            /\ source.h3 => SamplingAccepted(m, api)
            /\ \A task : Evidence(m, task, api).shift = source.shift
<1> DEFINE m == SourceModel(source)  api == HostSampling[host.version]
<1>1. api = IF host.version = "0.30.0" THEN "flow" ELSE "av"
  BY DEF HostSampling
<1>2. /\ m.sampling = api /\ m.h3 = source.h3 /\ m.marked = source.shift
      /\ m.shift = [video |-> v, audio |-> IF api = "av" THEN 3 ELSE 0]
  BY <1>1 DEF SourceModel
<1>3. m.shift.video = v /\ m.marked.video = v /\ m.marked.audio = 3
  BY <1>2
<1>4. api = "flow" \/ (api = "av" /\ m.shift.audio = 3 /\ m.marked = m.shift)
  BY <1>1, <1>2
<1> HIDE DEF m, api
<1>5. source.h3 => SamplingAccepted(m, api)
  BY <1>2, <1>3, <1>4 DEF SamplingAccepted, FiniteShift
<1>6. ASSUME NEW task PROVE Evidence(m, task, api).shift = source.shift
  <2>1. Evidence(m, task, api).shift =
          [video |-> m.shift.video, audio |-> IF api = "flow" THEN m.marked.audio
                                              ELSE m.shift.audio]
    BY DEF Evidence
  <2> QED
    BY <1>3, <1>4, <2>1
<1> QED
  BY <1>2, <1>3, <1>5, <1>6 DEF m, api

(* On a host that is ready, nothing but the source of the model decides.   *)
LEMMA ReadyFact ==
  ASSUME NEW c, Servable(c), Ready
  PROVE  /\ host.version \in Pinned /\ ~(c.steps < Contract[c.scheduler].minimum)
         /\ Contract[c.scheduler].handler \in HandlerNames
         /\ ~(c.recipe # NoRecipe /\ c.steps \notin H3Recipe[c.recipe].nfe)
         /\ \A api, m : RecipeFits(c.recipe, Evidence(m, c.task, api).task)
         /\ \E v \in {6, 12} : /\ ShiftOf(c.recipe) = [video |-> v, audio |-> 3]
                               /\ v = IF c.recipe = "fl2va-4-768p" THEN 6 ELSE 12
<1>1. /\ Contract[c.scheduler].minimum \in {1, 2}
      /\ Contract[c.scheduler].handler = c.scheduler
  BY DEF Servable, Contract, Schedulers, NativeContract, NativeSchedulers
<1>2. ~(c.steps < Contract[c.scheduler].minimum)
  BY <1>1 DEF Servable, MatrixSteps
<1>3. Contract[c.scheduler].handler \in HandlerNames
  BY <1>1 DEF HandlerNames, Ready, Servable
<1>4. ~(c.recipe # NoRecipe /\ c.steps \notin H3Recipe[c.recipe].nfe)
  BY TurboTable DEF Servable
<1>5. \A api, m : RecipeFits(c.recipe, Evidence(m, c.task, api).task)
  BY DEF Evidence, Servable
<1>6. \E v \in {6, 12} : /\ ShiftOf(c.recipe) = [video |-> v, audio |-> 3]
                         /\ v = IF c.recipe = "fl2va-4-768p" THEN 6 ELSE 12
  BY TurboTable DEF ShiftOf, Servable, BaseShift, NoRecipe
<1> QED
  BY <1>2, <1>3, <1>4, <1>5, <1>6 DEF Ready

LEMMA ReadyAccepts ==
  ASSUME NEW c, Servable(c), Ready
  PROVE  NativeRefusal(c, SourceModel(Source(ShiftOf(c.recipe)))) = NoReason
<1> DEFINE source == Source(ShiftOf(c.recipe))
           m == SourceModel(source)
           api == HostSampling[host.version]
           evidence == Evidence(m, c.task, api)
<1>1. PICK v \in {6, 12} : ShiftOf(c.recipe) = [video |-> v, audio |-> 3]
  BY ReadyFact
<1>2. source.h3 /\ source.shift = ShiftOf(c.recipe)
  BY DEF Source
<1> HIDE DEF source
<1>3. /\ m.sampling = api /\ m.h3 /\ SamplingAccepted(m, api)
      /\ evidence.shift = ShiftOf(c.recipe)
  BY <1>1, <1>2, ReadyFact, SourceFact
<1> HIDE DEF m
<1>4. NativeRefusal(c, m) = NoReason
  BY <1>3, ReadyFact DEF NativeRefusal
<1> QED
  BY <1>4 DEF m, source

LEMMA ReadyRejects ==
  ASSUME NEW c, Flawed(c), Ready, c.source # NoSource => model = SourceModel(c.source)
  PROVE  Refusal(c) = c.expected
<1> DEFINE api == HostSampling[host.version]
<1>1. Servable(c) /\ CanBuildOwn(c.task, c.recipe, c.steps, c.window) /\ host.version \in Pinned
  BY ServableBuilds, ReadyFact DEF Flawed
<1>2. CASE c.source = NoSource /\ c.expected = "MODEL_REQUIRED"
  BY <1>1, <1>2 DEF Refusal
<1>3. CASE c.source = OtherSource(BaseShift) /\ c.expected = "MODEL_FAMILY_MISMATCH"
  <2>1. /\ ~c.source.h3 /\ c.source.shift = [video |-> 12, audio |-> 3]
        /\ c.source # NoSource
    BY <1>3 DEF OtherSource, BaseShift, NoSource, Unmarked
  <2>2. model.sampling = api /\ ~model.h3
    BY <1>1, <2>1, SourceFact
  <2>3. NativeRefusal(c, model) = "MODEL_FAMILY_MISMATCH"
    BY <1>1, <2>2 DEF NativeRefusal
  <2> QED
    BY <1>1, <1>3, <2>1, <2>3 DEF Refusal
<1>4. CASE /\ c.expected = "SHIFT_MISMATCH"
           /\ \/ c.recipe = NoRecipe /\ c.source = Source([BaseShift EXCEPT !.video = 6])
              \/ c.recipe = "fl2va-4-768p" /\ c.source = Source(BaseShift)
  <2>1. PICK v \in {6, 12} :
          /\ ShiftOf(c.recipe) = [video |-> v, audio |-> 3]
          /\ v = IF c.recipe = "fl2va-4-768p" THEN 6 ELSE 12
    BY <1>1, ReadyFact
  <2>2. PICK u \in {6, 12} : u # v /\ c.source = Source([video |-> u, audio |-> 3])
    BY <1>4, <2>1 DEF BaseShift, NoRecipe
  <2>3. /\ c.source.h3 /\ c.source.shift = [video |-> u, audio |-> 3] /\ c.source # NoSource
    BY <2>2 DEF Source, NoSource
  <2>4. /\ model.sampling = api /\ model.h3 /\ SamplingAccepted(model, api)
        /\ Evidence(model, c.task, api).shift # ShiftOf(c.recipe)
    BY <1>1, <2>1, <2>2, <2>3, SourceFact
  <2>5. NativeRefusal(c, model) = "SHIFT_MISMATCH"
    BY <1>1, <2>4, ReadyFact DEF NativeRefusal
  <2> QED
    BY <1>1, <1>4, <2>3, <2>5 DEF Refusal
<1> QED
  BY <1>2, <1>3, <1>4 DEF Flawed

(* A range of a schedule of float32 values is one again.                   *)
LEMMA RangeFact ==
  ASSUME NEW x \in Seq(Sigma), ValidSchedule(x), Host(x) = x,
         NEW first \in Nat, NEW last \in Nat, first < last, last <= Steps(x)
  PROVE  LET output == SliceStepRange(x, first, last)
         IN ValidSchedule(output) /\ Host(output) = output
<1> DEFINE output == SliceStepRange(x, first, last)
<1>1. output \in Seq(Sigma) /\ Len(output) = last - first + 1
  BY SliceFact
<1>2. /\ Len(x) \in Nat /\ first + 1 \in 1 .. Len(x) /\ last + 1 \in 1 .. Len(x)
  BY DEF Steps
<1>3. \A i \in 1 .. Len(output) : output[i] = x[first + i] /\ first + i \in 1 .. Len(x)
  <2>1. \A i \in 1 .. (last + 1) - (first + 1) + 1 :
           SubSeq(x, first + 1, last + 1)[i] = x[(first + 1) + i - 1]
    BY <1>2
  <2> HIDE DEF output
  <2>2. ASSUME NEW i \in 1 .. Len(output)
        PROVE  /\ i \in 1 .. (last + 1) - (first + 1) + 1
               /\ (first + 1) + i - 1 = first + i /\ first + i \in 1 .. Len(x)
    BY <1>1, <1>2, <2>2
  <2> QED
    BY <2>1, <2>2 DEF output, SliceStepRange
<1> HIDE DEF output
<1>4. \A j \in 1 .. Len(x) : Float32[x[j]] = x[j]
  BY DEF Host
<1>5. Host(output) = output
  BY <1>1, <1>3, <1>4 DEF Host
<1>6. Len(output) >= 2
  BY <1>1
<1>7. ASSUME NEW i \in 1 .. Len(output) - 1 PROVE output[i] > output[i + 1]
  <2>1. /\ i \in 1 .. Len(output) /\ i + 1 \in 1 .. Len(output)
        /\ first + i \in 1 .. Len(x) - 1 /\ first + (i + 1) = (first + i) + 1
    BY <1>1, <1>2
  <2>2. x[first + i] > x[(first + i) + 1]
    BY <2>1 DEF ValidSchedule
  <2> QED
    BY <1>3, <2>1, <2>2
<1> QED
  BY <1>1, <1>5, <1>6, <1>7 DEF ValidSchedule, output

(* What a case takes of a complete answer                                  *)
LEMMA CompleteFacts ==
  ASSUME NEW c, Servable(c), NEW answer \in CaseAnswers[c.steps],
         CompleteAnswer(answer, c.steps)
  PROVE  LET end == EndStep(c.window[2], c.steps)
             output == Reference(c, answer)
         IN /\ BasicTail(answer.values, c.steps) = answer.values
            /\ Steps(answer.values) = c.steps /\ Len(answer.values) >= 3
            /\ ValidRaw(answer.values) /\ answer.dtype = "float32"
            /\ SliceBounds(c.window[1], c.window[2], c.steps)
            /\ output = SliceStepRange(answer.values, c.window[1], end)
            /\ ValidSchedule(output) /\ Host(output) = output
            /\ c.window = WholeRange => output = answer.values
<1> DEFINE x == answer.values
           end == EndStep(c.window[2], c.steps)
           output == SliceStepRange(x, c.window[1], end)
<1>1. /\ ValidSchedule(x) /\ Steps(x) = c.steps /\ x[Len(x)] = 0
      /\ answer.dtype = "float32" /\ x \in Seq(Sigma)
  BY DEF CompleteAnswer, ValidFor, ValidSchedule
<1>2. Host(x) = x
  BY <1>1, CasesAssumption DEF Servable
<1>3. c.steps \in Nat /\ c.steps >= 2 /\ Len(x) = c.steps + 1
  BY <1>1 DEF Servable, MatrixSteps, Steps
<1> HIDE DEF x
<1>4. BasicTail(x, c.steps) = x
  BY <1>3 DEF BasicTail
<1>5. ValidRaw(x)
  <2>1. \A i \in DOMAIN x : x[i] \in Sigma
    BY <1>1
  <2>2. \A i \in 1 .. Len(x) - 1 : x[i] >= x[i + 1]
    <3>1. \A i \in 1 .. Len(x) - 1 : i \in DOMAIN x /\ i + 1 \in DOMAIN x
      BY <1>1, <1>3
    <3> QED
      BY <1>1, <2>1, <3>1, RoundingAssumption DEF ValidSchedule, Sigma
  <2> QED
    BY <1>1, <1>3, <2>1, <2>2 DEF ValidRaw
<1>6. SliceBounds(c.window[1], c.window[2], c.steps)
  <2>1. CASE c.window = WholeRange
    <3>1. c.window[1] = 0 /\ c.window[2] = -1
      BY <2>1 DEF WholeRange
    <3> QED
      BY <1>3, <3>1 DEF SliceBounds
  <2>2. CASE c.window = <<1, 4>> /\ c.steps = 8
    <3>1. c.window[1] = 1 /\ c.window[2] = 4
      BY <2>2
    <3> QED
      BY <2>2, <3>1 DEF SliceBounds
  <2> QED
    BY <2>1, <2>2 DEF Servable
<1>7. /\ c.window[1] \in Nat /\ end \in Nat /\ c.window[1] < end /\ end <= Steps(x)
  BY <1>1, <1>3, <1>6, WindowFact
<1>8. Reference(c, answer) = output
  BY <1>1, <1>4 DEF Reference, x
<1>9. ValidSchedule(output) /\ Host(output) = output
  <2> HIDE DEF end
  <2> QED
    BY <1>1, <1>2, <1>7, RangeFact
<1>10. ASSUME c.window = WholeRange PROVE output = x
  <2>1. c.window[1] = 0 /\ end = Len(x) - 1
    BY <1>3, <1>10 DEF WholeRange, EndStep
  <2>2. Len(x) \in Nat /\ c.window[1] + 1 = 1 /\ end + 1 = Len(x)
    BY <1>3, <2>1
  <2>3. SubSeq(x, 1, Len(x)) = x
    BY <1>1
  <2> QED
    BY <2>2, <2>3 DEF SliceStepRange
<1> QED
  BY <1>1, <1>3, <1>4, <1>5, <1>6, <1>8, <1>9, <1>10 DEF x

(* What is delivered when an answer is used                                *)
LEMMA OutcomeFact ==
  ASSUME NEW c, Servable(c), NEW answer
  PROVE  LET b == BoundDelegation(NativeOutcome(c.task, c.recipe, c.steps, c.window,
                                                c.scheduler, answer))
         IN /\ b.values = Host(Reference(c, answer))
            /\ b.info.lane = "native" /\ b.info.task = c.task /\ b.info.recipe = c.recipe
            /\ b.info.requested = c.steps /\ b.info.shift = ShiftOf(c.recipe)
            /\ b.info.start = c.window[1]
            /\ b.info.end = EndStep(c.window[2], Steps(BasicTail(answer.values, c.steps)))
<1> DEFINE own == Own(c.task, c.recipe, c.steps, c.window)
           q == QualifiedHere(c.task, c.recipe, c.steps, c.scheduler)
           v == Validation(q, answer, c.window)
           r == NativeResult(own, v)
<1>1. Made(own, "endpoint", c.task, c.recipe, c.steps)
  BY OwnFact
<1>2. q.steps = c.steps
  BY DEF QualifiedHere, Qualified
<1>3. /\ v.start = c.window[1]
      /\ v.end = EndStep(c.window[2], Steps(BasicTail(answer.values, c.steps)))
      /\ v.output = Reference(c, answer)
  BY <1>2 DEF Validation, Reference
<1> HIDE DEF own, v
<1>4. /\ Made(r, "native", c.task, c.recipe, c.steps)
      /\ r.info.start = v.start /\ r.info.end = v.end /\ r.values = v.output
  BY <1>1, NativeFact
<1>5. NativeOutcome(c.task, c.recipe, c.steps, c.window, c.scheduler, answer) = r
  BY DEF NativeOutcome, own, v
<1> HIDE DEF r
<1> QED
  BY <1>3, <1>4, <1>5, BoundFact

LEMMA CompleteIsUsable ==
  ASSUME NEW c, Servable(c), NEW answer \in CaseAnswers[c.steps],
         CompleteAnswer(answer, c.steps), Admits(c.task, c.recipe, c.steps, c.scheduler)
  PROVE  AnswerUsable(c.task, c.recipe, c.steps, c.window, c.scheduler, answer)
<1> DEFINE q == QualifiedHere(c.task, c.recipe, c.steps, c.scheduler)
           api == HostSampling[host.version]
           shift == IF c.recipe = NoRecipe THEN BaseShift ELSE H3Recipe[c.recipe].shift
<1>1. /\ host.version \in Pinned
      /\ Qualifies(c.scheduler, c.steps, Evidence(model, c.task, api), c.recipe, api)
  BY DEF Admits
<1>2. Evidence(model, c.task, api).task = c.task /\ Evidence(model, c.task, api).api = api
  BY DEF Evidence
<1>3. /\ q.scheduler = c.scheduler /\ q.steps = c.steps /\ q.recipe = c.recipe
      /\ q.owner = Contract[c.scheduler].owner /\ q.handler = Contract[c.scheduler].handler
      /\ q.reshift = FALSE /\ q.shift = shift /\ q.task = c.task /\ q.api = api
      /\ q.version = host.version
  BY <1>2 DEF QualifiedHere, Qualified
<1>4. Contract[c.scheduler].reshift = FALSE /\ Contract[c.scheduler].dtypes = {"float32"}
  BY DEF Servable, Contract, Schedulers, NativeContract, NativeSchedulers
<1> HIDE DEF q
<1>5. ValidQualification(q)
  BY <1>1, <1>2, <1>3, <1>4 DEF ValidQualification, Qualifies
<1>6. ResultAccepted(q, answer, c.window)
  BY <1>3, <1>4, <1>5, CompleteFacts DEF ResultAccepted
<1>7. Bindable(NativeOutcome(c.task, c.recipe, c.steps, c.window, c.scheduler, answer))
  <2> DEFINE r == NativeOutcome(c.task, c.recipe, c.steps, c.window, c.scheduler, answer)
  <2>1. r.values = Reference(c, answer)
    BY <1>3 DEF NativeOutcome, NativeResult, Validation, Reference, q
  <2> HIDE DEF r
  <2> QED
    BY <2>1, CompleteFacts DEF Bindable, r
<1> QED
  BY <1>6, <1>7 DEF AnswerUsable, q

LEMMA ProbeFact ==
  ASSUME NEW c, Suited(c), NEW answer \in CaseAnswers[c.steps], CompleteAnswer(answer, c.steps)
  PROVE  ProbeAccepts(c, answer, BoundDelegation(NativeOutcome(c.task, c.recipe, c.steps,
                                                               c.window, c.scheduler, answer)))
<1>1. Servable(c) /\ c.source.shift = ShiftOf(c.recipe)
  BY DEF Suited, Source
<1> QED
  BY <1>1, CompleteFacts, OutcomeFact DEF ProbeAccepts

(* A quotient lies between the bounds of what is divided.                  *)
LEMMA Quotient ==
  \A d \in Nat \ {0}, y \in Int :
     y \div d \in Int /\ (y \div d) * d <= y /\ y < ((y \div d) + 1) * d
  OBVIOUS

LEMMA ProductOrder ==
  ASSUME NEW a \in Int, NEW b \in Int, NEW d \in Nat \ {0}, a <= b PROVE a * d <= b * d
  OBVIOUS

LEMMA DivisionBounds ==
  ASSUME NEW d \in Nat \ {0}, NEW a \in Int, NEW y \in Int
  PROVE  /\ y <= a * d => y \div d <= a
         /\ a * d <= y => a <= y \div d
<1> DEFINE q == y \div d
<1>1. q \in Int /\ q * d <= y /\ y < (q + 1) * d
  BY Quotient
<1> HIDE DEF q
<1>2. ASSUME a < q PROVE a * d < y
  <2>1. a + 1 <= q /\ (a + 1) * d = a * d + d
    BY <1>1, <1>2
  <2>2. (a + 1) * d <= q * d
    BY <1>1, <2>1, ProductOrder
  <2>3. a * d \in Int /\ q * d \in Int
    BY <1>1
  <2> QED
    BY <1>1, <2>1, <2>2, <2>3
<1>3. ASSUME q < a PROVE y < a * d
  <2>1. q + 1 <= a
    BY <1>1, <1>3
  <2>2. (q + 1) * d <= a * d
    BY <1>1, <2>1, ProductOrder
  <2>3. a * d \in Int /\ (q + 1) * d \in Int
    BY <1>1
  <2> QED
    BY <1>1, <2>2, <2>3
<1>4. a * d \in Int
  OBVIOUS
<1> QED
  BY <1>1, <1>2, <1>3, <1>4 DEF q

(* The grid and its shift stay between zero and One.                       *)
LEMMA GridInRange ==
  ASSUME NEW n \in Nat \ {0}, NEW i \in 1 .. n + 1
  PROVE  LinearGrid(n + 1, One, 0)[i] \in Sigma
<1> DEFINE y == (0 - One) * (i - 1)
           j == i - 1
<1>1. One \in Nat /\ j \in 0 .. n /\ (n + 1) - 1 = n
  BY RoundingAssumption
<1>2. j * One \in Int /\ n * One \in Int /\ j * One <= n * One /\ 0 <= j * One
  <2>1. One \in Nat \ {0}
    BY RoundingAssumption
  <2>2. j \in Int /\ n \in Int /\ j <= n /\ 0 <= j
    BY <1>1
  <2> HIDE DEF j
  <2>3. j * One <= n * One /\ 0 * One <= j * One
    BY <2>1, <2>2, ProductOrder
  <2> QED
    BY <2>1, <2>2, <2>3
<1>3. y \in Int /\ (0 - One) * n <= y /\ y <= 0 * n
  BY <1>1, <1>2
<1>4. 0 - One \in Int /\ 0 \in Int
  BY <1>1
<1> HIDE DEF y
<1>5. 0 - One <= y \div n /\ y \div n <= 0 /\ y \div n \in Int
  BY <1>3, <1>4, DivisionBounds, Quotient
<1>6. LinearGrid(n + 1, One, 0)[i] = One + y \div n
  BY <1>1 DEF LinearGrid, y
<1> QED
  BY <1>1, <1>5, <1>6 DEF Sigma

LEMMA ShiftInRange ==
  ASSUME NEW x, NEW i \in DOMAIN x, x[i] \in Sigma, NEW ratio \in Nat \ {0}
  PROVE  Shift(x, ratio)[i] \in Sigma
<1> DEFINE v == x[i]
           d == One - v + ratio * v
           y == One * ratio * v
<1>1. One \in Nat \ {0} /\ v \in 0 .. One
  BY RoundingAssumption DEF Sigma
<1>2. Shift(x, ratio)[i] = IF v \in {0, One} THEN v ELSE y \div d
  BY DEF Shift
<1>3. CASE v \in {0, One}
  BY <1>1, <1>2, <1>3 DEF Sigma
<1>4. CASE v \notin {0, One}
  <2> HIDE DEF v
  <2>1. ratio * v \in Nat
    BY <1>1
  <2>2. d \in Nat \ {0} /\ ratio * v <= d
    BY <1>1, <1>4, <2>1
  <2>3. y = (ratio * v) * One /\ y \in Nat
    BY <1>1, <2>1
  <2> HIDE DEF d, y
  <2>4. (ratio * v) * One <= d * One
    BY <1>1, <2>1, <2>2, ProductOrder
  <2>5. y <= One * d /\ 0 * d <= y
    BY <1>1, <2>2, <2>3, <2>4
  <2>6. y \div d <= One /\ 0 <= y \div d /\ y \div d \in Int
    BY <1>1, <2>2, <2>3, <2>5, DivisionBounds, Quotient
  <2> QED
    BY <1>1, <1>2, <1>4, <2>6 DEF Sigma
<1> QED
  BY <1>3, <1>4

(* The endpoint schedule is made of float32 values.                        *)
LEMMA EndpointFixed ==
  ASSUME NEW n \in Nat \ {0}
  PROVE  EndpointSchedule(n + 1) \in Seq({v \in Sigma : Float32[v] = v})
<1> DEFINE m == n + 1
           F == {v \in Sigma : Float32[v] = v}
           grid == LinearGrid(m, One, 0)
           rounded == Host(grid)
           shifted == Shift(rounded, 12)
           x == Host(shifted)
<1>1. m \in Nat \ {0} /\ DOMAIN grid = 1 .. m /\ \A i \in 1 .. m : grid[i] \in Sigma
  BY GridEnds, GridInRange
<1> HIDE DEF m, grid
<1>2. DOMAIN rounded = 1 .. m /\ \A i \in 1 .. m : rounded[i] \in Sigma
  BY <1>1, RoundingAssumption DEF Host
<1> HIDE DEF rounded
<1>3. DOMAIN shifted = 1 .. m /\ \A i \in 1 .. m : shifted[i] \in Sigma
  <2>1. DOMAIN shifted = 1 .. m
    BY <1>2 DEF Shift
  <2>2. ASSUME NEW i \in 1 .. m PROVE shifted[i] \in Sigma
    <3>1. i \in DOMAIN rounded /\ rounded[i] \in Sigma /\ 12 \in Nat \ {0}
      BY <1>2
    <3> QED
      BY <3>1, ShiftInRange
  <2> QED
    BY <2>1, <2>2
<1> HIDE DEF shifted
<1>4. x = [i \in 1 .. m |-> Float32[shifted[i]]] /\ \A i \in 1 .. m : Float32[shifted[i]] \in F
  BY <1>3, RoundingAssumption DEF Host
<1> HIDE DEF F
<1>5. x \in [1 .. m -> F]
  BY <1>4
<1> HIDE DEF x
<1>6. x \in Seq(F) /\ x # <<>>
  BY <1>1, <1>5
<1>7. UniqueConsecutive(x) \in Seq(F)
  BY <1>6, ConsecutiveFact
<1>8. EndpointSchedule(m) = UniqueConsecutive(x)
  BY DEF EndpointSchedule, BaseShift, x, shifted, rounded, grid
<1> QED
  BY <1>7, <1>8 DEF F, m

(* So binding leaves what the node made for an endpoint case as it was.    *)
LEMMA EndpointBinds ==
  ASSUME NEW c \in EndpointCases
  PROVE  LET own == Own(c.task, c.recipe, c.steps, c.window)
         IN BoundDelegation(own).values = own.values /\ BoundDelegation(own).info = own.info
<1>1. PICK task \in Tasks :
        c = NativeCase("endpoint", task, NoRecipe, "h3_endpoint", 20, WholeRange, NoSource,
                       NoReason)
  BY DEF EndpointCases
<1>2. /\ c.task = task /\ c.recipe = NoRecipe /\ c.steps = 20
      /\ c.window[1] = 0 /\ c.window[2] = -1
  BY <1>1, NativeCaseFact DEF WholeRange
<1> DEFINE own == Own(c.task, c.recipe, c.steps, c.window)
           complete == CompleteSchedule(c.recipe, c.steps)
           F == {v \in Sigma : Float32[v] = v}
<1>3. complete = EndpointSchedule(20 + 1)
  BY <1>2 DEF CompleteSchedule
<1>4. complete \in Seq(F)
  <2>1. 20 \in Nat \ {0}
    OBVIOUS
  <2>2. EndpointSchedule(20 + 1) \in Seq(F)
    BY <2>1, EndpointFixed
  <2> QED
    BY <1>3, <2>2
<1> HIDE DEF complete
<1>5. own.values = complete /\ own.info.output = complete
  <2>1. /\ own.info.complete = complete /\ own.info.start = 0
        /\ own.info.end = EndStep(-1, Steps(complete))
        /\ own.values = SliceStepRange(own.info.complete, own.info.start, own.info.end)
        /\ own.info.output = own.values
    BY <1>2, OwnFact DEF complete
  <2>2. own.values = SubSeq(complete, 0 + 1, (Len(complete) - 1) + 1)
    BY <2>1 DEF SliceStepRange, EndStep, Steps
  <2>3. 0 + 1 = 1 /\ (Len(complete) - 1) + 1 = Len(complete)
    BY <1>4
  <2>4. SubSeq(complete, 1, Len(complete)) = complete
    BY <1>4
  <2> QED
    BY <2>1, <2>2, <2>3, <2>4
<1>6. Host(complete) = complete
  BY <1>4 DEF Host
<1>7. own.info.receipt = NoSchedule
  BY <1>2 DEF Own, NodeReceipt
<1>8. own = [values |-> own.values, info |-> own.info]
  BY DEF Own
<1>9. own.info = [own.info EXCEPT !.output = complete, !.receipt = NoSchedule]
  <2> DEFINE info == own.info
  <2>1. info = [f \in DOMAIN info |-> info[f]]
    BY DEF Own
  <2> HIDE DEF info, own
  <2>2. info.output = complete /\ info.receipt = NoSchedule
    BY <1>5, <1>7 DEF info
  <2>3. info = [info EXCEPT !.output = complete, !.receipt = NoSchedule]
    BY <2>1, <2>2
  <2> QED
    BY <2>3 DEF info
<1> DEFINE info == own.info
<1>10. BoundDelegation(own) =
         [own EXCEPT !.values = complete, !.info = [info EXCEPT !.output = complete,
                                                                !.receipt = NoSchedule]]
  <2> HIDE DEF own
  <2>1. \A receipt : own.info.receipt = NoSchedule =>
           (IF own.info.receipt = NoSchedule THEN own.info.receipt
            ELSE [own.info.receipt EXCEPT !.schedule = Host(own.values)]) = NoSchedule
    OBVIOUS
  <2> QED
    BY <1>5, <1>6, <1>7, <1>8, <2>1 DEF BoundDelegation
<1> HIDE DEF own, info
<1>11. BoundDelegation(own) = [own EXCEPT !.values = complete, !.info = info]
  BY <1>9, <1>10 DEF info
<1> QED
  BY <1>5, <1>8, <1>11 DEF own, info

(* What became of a case                                                   *)
RanEndpoint(c) ==
    /\ c.lane = "endpoint"
    /\ attempt.state = "success" /\ attempt.answer = NoSchedule
    /\ schedule = BoundDelegation(Own(c.task, c.recipe, c.steps, c.window))

WasRefused(c) ==
    /\ c.lane # "endpoint" /\ Refusal(c) # NoReason
    /\ attempt.state = "error" /\ attempt.reason = Refusal(c)
    /\ attempt.answer = NoSchedule /\ schedule = NoSchedule

WasUnusable(c) ==
    /\ c.lane # "endpoint" /\ Refusal(c) = NoReason
    /\ attempt.state = "error" /\ attempt.reason = "RESULT" /\ schedule = NoSchedule
    /\ attempt.answer \in CaseAnswers[c.steps]
    /\ ~AnswerUsable(c.task, c.recipe, c.steps, c.window, c.scheduler, attempt.answer)

WasDelivered(c) ==
    /\ c.lane # "endpoint" /\ Refusal(c) = NoReason
    /\ attempt.answer \in CaseAnswers[c.steps]
    /\ AnswerUsable(c.task, c.recipe, c.steps, c.window, c.scheduler, attempt.answer)
    /\ schedule = BoundDelegation(NativeOutcome(c.task, c.recipe, c.steps, c.window,
                                                c.scheduler, attempt.answer))
    /\ IF c.lane # "rejection" /\ ProbeAccepts(c, attempt.answer, schedule)
       THEN attempt.state = "success"
       ELSE attempt.state = "error" /\ attempt.reason = "PROBE"

Waiting == attempt.state = "queued" /\ attempt.verdict = NoReason /\ schedule = NoSchedule

Ran(c) == RanEndpoint(c) \/ WasRefused(c) \/ WasUnusable(c) \/ WasDelivered(c)

Verdict(c) == IF CaseVerified(c) THEN "verified" ELSE "drifted"

AttemptInv ==
    attempt # NoSchedule =>
        /\ DOMAIN attempt = {"case", "answer", "state", "reason", "verdict"}
        /\ attempt.case \in HostCases
        /\ attempt.case.source # NoSource => model = SourceModel(attempt.case.source)
        /\ Waiting \/ Ran(attempt.case)
        /\ attempt.verdict # NoReason =>
              Ran(attempt.case) /\ attempt.verdict = Verdict(attempt.case)

LEMMA SubmitKeeps == ASSUME NEW c \in HostCases, SubmitCase(c) PROVE AttemptInv'
<1> DEFINE next == [case |-> c, answer |-> NoSchedule, state |-> "queued",
                    reason |-> NoReason, verdict |-> NoReason]
<1>1. /\ attempt' = next /\ schedule' = NoSchedule /\ host' = host
      /\ model' = IF c.source = NoSource THEN model ELSE SourceModel(c.source)
  BY DEF SubmitCase
<1>2. /\ DOMAIN next = {"case", "answer", "state", "reason", "verdict"}
      /\ next.case = c /\ next.state = "queued" /\ next.verdict = NoReason
  OBVIOUS
<1> HIDE DEF next
<1>3. c.source # NoSource => model' = SourceModel(c.source)'
  BY <1>1 DEF SourceModel
<1> QED
  BY <1>1, <1>2, <1>3 DEF AttemptInv, Waiting

(* A run of the case ends in one of the four ways.                         *)
LEMMA EndedFact ==
  ASSUME AttemptInv, attempt # NoSchedule, NEW state, NEW reason, NEW answer,
         Ended(state, reason, answer)
  PROVE  /\ DOMAIN attempt' = {"case", "answer", "state", "reason", "verdict"}
         /\ attempt'.case = attempt.case /\ attempt'.verdict = attempt.verdict
         /\ attempt'.state = state /\ attempt'.reason = reason /\ attempt'.answer = answer
<1>1. attempt' = [attempt EXCEPT !.state = state, !.reason = reason, !.answer = answer]
  BY DEF Ended
<1>2. DOMAIN attempt = {"case", "answer", "state", "reason", "verdict"}
  BY DEF AttemptInv
<1> QED
  BY <1>1, <1>2

LEMMA RunKeeps == ASSUME AttemptInv, RunCase PROVE AttemptInv'
<1> DEFINE c == attempt.case
           outcome(answer) == NativeOutcome(c.task, c.recipe, c.steps, c.window, c.scheduler,
                                            answer)
           usable(answer) == AnswerUsable(c.task, c.recipe, c.steps, c.window, c.scheduler,
                                          answer)
<1>1. /\ attempt # NoSchedule /\ attempt.state = "queued" /\ host' = host /\ model' = model
      /\ c \in HostCases
      /\ c.source # NoSource => model = SourceModel(c.source)
  BY DEF RunCase, AttemptInv
<1>2. schedule = NoSchedule /\ attempt.verdict = NoReason
  BY <1>1 DEF AttemptInv, Waiting, Ran, RanEndpoint, WasRefused, WasUnusable, WasDelivered
<1>3. ASSUME NEW state, NEW reason, NEW answer, Ended(state, reason, answer),
             attempt'.case = attempt.case => Ran(attempt.case)'
      PROVE  AttemptInv'
  <2>1. /\ DOMAIN attempt' = {"case", "answer", "state", "reason", "verdict"}
        /\ attempt'.case = attempt.case /\ attempt'.verdict = attempt.verdict
    BY <1>1, <1>3, EndedFact
  <2>2. SourceModel(attempt.case.source)' = SourceModel(c.source)
    BY <1>1, <2>1 DEF SourceModel
  <2>3. Ran(attempt.case)'
    BY <1>3, <2>1
  <2> HIDE DEF c
  <2> QED
    BY <1>1, <1>2, <2>1, <2>2, <2>3 DEF AttemptInv, c
<1>4. CASE RunEndpoint(c)
  <2>1. Ended("success", NoReason, NoSchedule) /\ c.lane = "endpoint"
        /\ schedule' = BoundDelegation(Own(c.task, c.recipe, c.steps, c.window))
    BY <1>4 DEF RunEndpoint
  <2>2. /\ attempt'.case = c /\ attempt'.state = "success" /\ attempt'.answer = NoSchedule
    BY <1>1, <2>1, EndedFact
  <2>3. RanEndpoint(attempt.case)'
    BY <2>1, <2>2 DEF RanEndpoint
  <2> QED
    BY <1>3, <2>1, <2>3 DEF Ran
<1>5. CASE RunRefused(c)
  <2>1. /\ Ended("error", Refusal(c), NoSchedule) /\ c.lane # "endpoint"
        /\ Refusal(c) # NoReason /\ schedule' = schedule
    BY <1>5 DEF RunRefused
  <2>2. /\ attempt'.case = c /\ attempt'.state = "error" /\ attempt'.reason = Refusal(c)
        /\ attempt'.answer = NoSchedule
    BY <1>1, <2>1, EndedFact
  <2>3. Refusal(attempt.case)' = Refusal(c)
    BY <1>1, <2>2 DEF Refusal, NativeRefusal, HandlerNames
  <2>4. WasRefused(attempt.case)'
    BY <1>2, <2>1, <2>2, <2>3 DEF WasRefused
  <2> QED
    BY <1>3, <2>1, <2>4 DEF Ran
<1>6. ASSUME c.lane # "endpoint", Refusal(c) = NoReason, NEW answer \in CaseAnswers[c.steps],
             attempt'.case = c
      PROVE  /\ Refusal(attempt.case)' = NoReason
             /\ attempt'.answer = answer =>
                  /\ AnswerUsable(attempt.case.task, attempt.case.recipe, attempt.case.steps,
                                  attempt.case.window, attempt.case.scheduler,
                                  attempt.answer)' = usable(answer)
                  /\ NativeOutcome(attempt.case.task, attempt.case.recipe, attempt.case.steps,
                                   attempt.case.window, attempt.case.scheduler,
                                   attempt.answer)' = outcome(answer)
  <2>1. Refusal(attempt.case)' = Refusal(c)
    BY <1>1, <1>6 DEF Refusal, NativeRefusal, HandlerNames
  <2> QED
    BY <1>1, <1>6, <2>1 DEF AnswerUsable, NativeOutcome, QualifiedHere, Qualified
<1>7. ASSUME c.lane # "endpoint", Refusal(c) = NoReason, NEW answer \in CaseAnswers[c.steps],
             RunUnusable(c, answer)
      PROVE  AttemptInv'
  <2>1. Ended("error", "RESULT", answer) /\ ~usable(answer) /\ schedule' = schedule
    BY <1>7 DEF RunUnusable
  <2>2. /\ attempt'.case = c /\ attempt'.state = "error" /\ attempt'.reason = "RESULT"
        /\ attempt'.answer = answer
    BY <1>1, <2>1, EndedFact
  <2>3. WasUnusable(attempt.case)'
    BY <1>2, <1>6, <1>7, <2>1, <2>2 DEF WasUnusable
  <2> QED
    BY <1>3, <2>1, <2>3 DEF Ran
<1>8. ASSUME c.lane # "endpoint", Refusal(c) = NoReason, NEW answer \in CaseAnswers[c.steps],
             RunDelivered(c, answer)
      PROVE  AttemptInv'
  <2> DEFINE result == BoundDelegation(outcome(answer))
             accepted == c.lane # "rejection" /\ ProbeAccepts(c, answer, result)
  <2>1. /\ usable(answer) /\ schedule' = result
        /\ IF accepted THEN Ended("success", NoReason, answer)
           ELSE Ended("error", "PROBE", answer)
    BY <1>8 DEF RunDelivered
  <2>2. /\ attempt'.case = c /\ attempt'.answer = answer
        /\ IF accepted THEN attempt'.state = "success"
           ELSE attempt'.state = "error" /\ attempt'.reason = "PROBE"
    BY <1>1, <2>1, EndedFact
  <2>3. ProbeAccepts(attempt.case, attempt.answer, schedule)' = ProbeAccepts(c, answer, result)
    BY <2>1, <2>2 DEF ProbeAccepts, Reference
  <2>4. WasDelivered(attempt.case)'
    <3>1. /\ Refusal(attempt.case)' = NoReason
          /\ AnswerUsable(attempt.case.task, attempt.case.recipe, attempt.case.steps,
                          attempt.case.window, attempt.case.scheduler, attempt.answer)'
          /\ schedule' = BoundDelegation(NativeOutcome(attempt.case.task, attempt.case.recipe,
                           attempt.case.steps, attempt.case.window, attempt.case.scheduler,
                           attempt.answer)')
      BY <1>6, <1>8, <2>1, <2>2
    <3> HIDE DEF result
    <3> QED
      BY <1>8, <2>2, <2>3, <3>1 DEF WasDelivered, BoundDelegation
  <2> QED
    BY <1>3, <2>1, <2>4 DEF Ran
<1> QED
  BY <1>4, <1>5, <1>7, <1>8 DEF RunCase

LEMMA VerifyKeeps == ASSUME AttemptInv, VerifyCase PROVE AttemptInv'
<1> DEFINE c == attempt.case
           verdict1 == IF CaseVerified(attempt.case) THEN "verified" ELSE "drifted"
<1>1. /\ attempt # NoSchedule /\ attempt.state \in {"success", "error"}
      /\ attempt.verdict = NoReason
      /\ attempt' = [attempt EXCEPT !.verdict = verdict1]
      /\ host' = host /\ model' = model /\ schedule' = schedule
  BY DEF VerifyCase, delegation
<1>2. /\ DOMAIN attempt = {"case", "answer", "state", "reason", "verdict"}
      /\ c \in HostCases
      /\ c.source # NoSource => model = SourceModel(c.source)
      /\ Ran(c)
  BY <1>1 DEF AttemptInv, Waiting
<1> HIDE DEF verdict1
<1>3. /\ DOMAIN attempt' = {"case", "answer", "state", "reason", "verdict"}
      /\ attempt'.case = c /\ attempt'.state = attempt.state
      /\ attempt'.reason = attempt.reason /\ attempt'.answer = attempt.answer
      /\ attempt'.verdict = verdict1
  BY <1>1, <1>2
<1>4. (SourceModel(c.source) = SourceModel(attempt.case.source)')
  BY <1>1, <1>3 DEF SourceModel
<1>5. Refusal(attempt.case)' = Refusal(c)
  BY <1>1, <1>3 DEF Refusal, NativeRefusal, HandlerNames
<1>6. Ran(attempt.case)'
  BY <1>1, <1>2, <1>3, <1>5 DEF Ran, RanEndpoint, WasRefused, WasUnusable, WasDelivered,
        AnswerUsable, NativeOutcome, QualifiedHere, Qualified, ProbeAccepts, Reference
<1>7. Verdict(attempt.case)' = verdict1
  BY <1>1, <1>3, SMTT(30) DEF verdict1, Verdict, CaseVerified, EndpointVerified, SimpleVerified,
        MatrixVerified, RejectionVerified, Reference
<1> HIDE DEF c
<1> QED
  BY <1>1, <1>2, <1>3, <1>4, <1>6, <1>7 DEF AttemptInv, c

LEMMA CasesKeep == ASSUME AttemptInv, [CasesNext]_cases PROVE AttemptInv'
<1>1. CASE NextCase
  BY <1>1 DEF NextCase, AttemptInv
<1>2. CASE UNCHANGED cases
  <2>1. /\ attempt' = attempt /\ host' = host /\ model' = model /\ schedule' = schedule
    BY <1>2 DEF cases, delegation
  <2> DEFINE c == attempt.case
  <2>2. Refusal(attempt.case)' = Refusal(c) /\ SourceModel(attempt.case.source)' = SourceModel(c.source)
    BY <2>1 DEF Refusal, NativeRefusal, HandlerNames, SourceModel
  <2>3. Ran(attempt.case)' = Ran(c)
    BY <2>1, <2>2 DEF Ran, RanEndpoint, WasRefused, WasUnusable, WasDelivered,
          AnswerUsable, NativeOutcome, QualifiedHere, Qualified, ProbeAccepts, Reference
  <2>4. Verdict(attempt.case)' = Verdict(c)
    BY <2>1 DEF Verdict, CaseVerified, EndpointVerified, SimpleVerified, MatrixVerified,
          RejectionVerified, Reference
  <2> QED
    BY <2>1, <2>2, <2>3, <2>4 DEF AttemptInv, Waiting
<1> QED
  BY <1>1, <1>2, SubmitKeeps, RunKeeps, VerifyKeeps DEF CasesNext

(* A suited case that was delivered was admitted, under its recipe's shift. *)
LEMMA DeliveredFact ==
  ASSUME AttemptInv, attempt # NoSchedule, NEW c, c = attempt.case, Suited(c),
         WasDelivered(c)
  PROVE  /\ Admits(c.task, c.recipe, c.steps, c.scheduler)
         /\ schedule.info.shift = ShiftOf(c.recipe)
         /\ model.shift.video = ShiftOf(c.recipe).video
<1>1. Servable(c) /\ c.source.h3 /\ c.source.shift = ShiftOf(c.recipe) /\ c.source # NoSource
  BY DEF Suited, Source, NoSource
<1>2. model = SourceModel(c.source)
  BY <1>1 DEF AttemptInv
<1>3. NativeRefusal(c, model) = NoReason
  BY <1>1, ServableBuilds DEF WasDelivered, Refusal, NoReason
<1>4. Admits(c.task, c.recipe, c.steps, c.scheduler)
  BY <1>1, <1>3, NativeAdmits
<1>5. PICK v \in {6, 12} : ShiftOf(c.recipe) = [video |-> v, audio |-> 3]
  BY <1>1, TurboTable DEF ShiftOf, Servable, BaseShift
<1>6. model.shift.video = v
  <2>1. host.version \in Pinned /\ v \in Nat \ {0} /\ c.source.shift = [video |-> v, audio |-> 3]
    BY <1>1, <1>4, <1>5 DEF Admits
  <2> QED
    BY <1>2, <2>1, SourceFact
<1>7. schedule.info.shift = ShiftOf(c.recipe)
  BY <1>1, OutcomeFact DEF WasDelivered
<1> QED
  BY <1>4, <1>5, <1>6, <1>7

(* What is verified was delivered as the lane expects it.                  *)
LEMMA VerifiedIsDelivered ==
  ASSUME NEW c, Suited(c), Ran(c), CaseVerified(c)
  PROVE  WasDelivered(c) /\ schedule.values = Reference(c, attempt.answer)
<1>1. c.lane \notin {"endpoint", "rejection"}
  BY DEF Suited, Lanes
<1>2. attempt.state = "success" /\ schedule.values = Reference(c, attempt.answer)
  BY <1>1 DEF CaseVerified, SimpleVerified, MatrixVerified
<1> QED
  BY <1>1, <1>2 DEF Ran, RanEndpoint, WasRefused, WasUnusable

(* On a host that is ready, a complete answer makes a case verified.       *)
LEMMA CompleteIsVerified ==
  ASSUME NEW c, Suited(c), WasDelivered(c), host.version \in Pinned,
         CompleteAnswer(attempt.answer, c.steps)
  PROVE  CaseVerified(c)
<1> DEFINE answer == attempt.answer
           end == EndStep(c.window[2], c.steps)
<1>1. /\ Servable(c) /\ c.source.shift = ShiftOf(c.recipe)
      /\ c.lane \notin {"endpoint", "rejection"} /\ answer \in CaseAnswers[c.steps]
  BY DEF Suited, Source, Lanes, WasDelivered
<1>2. /\ BasicTail(answer.values, c.steps) = answer.values
      /\ Steps(answer.values) = c.steps /\ Len(answer.values) >= 3
      /\ ValidRaw(answer.values) /\ answer.dtype = "float32"
      /\ ValidSchedule(Reference(c, answer)) /\ Host(Reference(c, answer)) = Reference(c, answer)
      /\ c.window = WholeRange => Reference(c, answer) = answer.values
  BY <1>1, CompleteFacts
<1>3. /\ schedule.values = Reference(c, answer)
      /\ schedule.info.lane = "native" /\ schedule.info.task = c.task
      /\ schedule.info.recipe = c.recipe /\ schedule.info.requested = c.steps
      /\ schedule.info.shift = c.source.shift /\ schedule.info.start = c.window[1]
      /\ schedule.info.end = EndStep(c.window[2], Steps(BasicTail(answer.values, c.steps)))
  BY <1>1, <1>2, OutcomeFact DEF WasDelivered
<1>4. attempt.state = "success"
  BY <1>1, ProbeFact DEF WasDelivered
<1> HIDE DEF answer
<1>5. CASE c.lane = "simple"
  <2>1. c.window = WholeRange /\ c.steps = 4
    BY <1>5 DEF Suited
  <2>2. Len(answer.values) = 5
    BY <1>2, <2>1 DEF Steps
  <2>3. schedule.values = answer.values /\ answer.values[5] = 0
    BY <1>2, <1>3, <2>1, <2>2 DEF ValidRaw
  <2> QED
    BY <1>3, <1>4, <1>5, <2>1, <2>2, <2>3 DEF CaseVerified, SimpleVerified, answer
<1>6. CASE c.lane # "simple"
  <2>1. Len(schedule.values) >= 2 /\ Len(answer.values) >= 2
    BY <1>2, <1>3 DEF ValidSchedule
  <2>2. \A i \in 1 .. Len(answer.values) - 1 : answer.values[i] >= answer.values[i + 1]
    BY <1>2 DEF ValidRaw
  <2>3. MatrixVerified(c)
    BY <1>2, <1>3, <1>4, <2>1, <2>2 DEF MatrixVerified, answer
  <2> QED
    BY <1>1, <1>6, <2>3 DEF CaseVerified
<1> QED
  BY <1>5, <1>6

(* The three parts of VerdictsFollowNode                                   *)
LEMMA NoCaseIsLost ==
  ASSUME AttemptInv, attempt # NoSchedule, attempt.verdict # NoReason, Ready,
         attempt.answer # NoSchedule => CompleteAnswer(attempt.answer, attempt.case.steps)
  PROVE  CaseVerified(attempt.case)
<1> DEFINE c == attempt.case
<1>1. /\ c \in HostCases /\ Ran(c)
      /\ c.source # NoSource => model = SourceModel(c.source)
  BY DEF AttemptInv
<1>2. CASE c \in EndpointCases /\ c.lane = "endpoint"
  <2>1. RanEndpoint(c)
    BY <1>1, <1>2 DEF Ran, WasRefused, WasUnusable, WasDelivered
  <2>2. EndpointVerified(c)
    BY <1>2, <2>1, EndpointBinds DEF RanEndpoint, EndpointVerified
  <2> QED
    BY <1>2, <2>2 DEF CaseVerified
<1>3. CASE Flawed(c)
  <2>1. Refusal(c) = c.expected /\ c.lane = "rejection" /\ c.expected # NoReason
    BY <1>1, <1>3, ReadyRejects DEF Flawed, NoReason
  <2>2. WasRefused(c)
    BY <1>1, <2>1 DEF Ran, RanEndpoint, WasUnusable, WasDelivered
  <2>3. RejectionVerified(c)
    BY <2>1, <2>2 DEF WasRefused, RejectionVerified
  <2> QED
    BY <2>1, <2>3 DEF CaseVerified
<1>4. CASE Suited(c)
  <2>1. Servable(c) /\ c.source # NoSource /\ c.lane \notin {"endpoint", "rejection"}
    BY <1>4 DEF Suited, Source, NoSource, Lanes
  <2>2. NativeRefusal(c, model) = NoReason
    BY <1>1, <1>4, <2>1, ReadyAccepts DEF Suited
  <2>3. Refusal(c) = NoReason /\ Admits(c.task, c.recipe, c.steps, c.scheduler)
    BY <2>1, <2>2, ServableBuilds, NativeAdmits DEF Refusal
  <2>4. WasUnusable(c) \/ WasDelivered(c)
    BY <1>1, <2>1, <2>3 DEF Ran, RanEndpoint, WasRefused
  <2>5. attempt.answer \in CaseAnswers[c.steps] /\ c.steps \in MatrixSteps
    BY <2>1, <2>4 DEF WasUnusable, WasDelivered, Servable
  <2>6. CompleteAnswer(attempt.answer, c.steps)
    BY <2>5, CasesAssumption
  <2>7. WasDelivered(c)
    BY <2>1, <2>3, <2>4, <2>5, <2>6, CompleteIsUsable DEF WasUnusable
  <2> QED
    BY <1>4, <2>6, <2>7, CompleteIsVerified DEF Ready
<1> QED
  BY <1>1, <1>2, <1>3, <1>4, CasesFact

LEMMA AttemptSays == AttemptInv => VerdictsFollowNode
<1> SUFFICES ASSUME AttemptInv, attempt # NoSchedule, attempt.verdict # NoReason
             PROVE  VerdictsFollowNode
  BY DEF VerdictsFollowNode
<1> DEFINE c == attempt.case
           verified == attempt.verdict = "verified"
           mended == SourceModel(Source(ShiftOf(c.recipe)))
<1>1. c \in HostCases /\ Ran(c) /\ attempt.verdict = Verdict(c)
  BY DEF AttemptInv
<1>2. verified <=> CaseVerified(c)
  BY <1>1 DEF Verdict
<1>3. ASSUME verified, c.lane \notin {"endpoint", "rejection"}
      PROVE  /\ Admits(c.task, c.recipe, c.steps, c.scheduler)
             /\ schedule.values = Reference(c, attempt.answer)
             /\ schedule.info.shift = ShiftOf(c.recipe)
             /\ model.shift.video = ShiftOf(c.recipe).video
  <2>1. Suited(c)
    BY <1>1, <1>3, CasesFact DEF Flawed
  <2> QED
    BY <1>1, <1>2, <1>3, <2>1, VerifiedIsDelivered, DeliveredFact
<1>4. ASSUME verified, c.lane = "rejection"
      PROVE  schedule = NoSchedule /\ (Ready => NativeRefusal(c, mended) = NoReason)
  <2>1. Flawed(c)
    BY <1>1, <1>4, CasesFact
  <2>2. RejectionVerified(c)
    BY <1>2, <1>4 DEF CaseVerified
  <2>3. attempt.state = "error" /\ attempt.reason \notin {"RESULT", "PROBE"}
    BY <2>1, <2>2 DEF RejectionVerified, Flawed
  <2>4. WasRefused(c)
    BY <1>1, <1>4, <2>3 DEF Ran, RanEndpoint, WasUnusable, WasDelivered
  <2> QED
    BY <2>1, <2>4, ReadyAccepts DEF WasRefused, Flawed
<1>5. ASSUME Ready, attempt.answer # NoSchedule => CompleteAnswer(attempt.answer, c.steps)
      PROVE  verified
  BY <1>2, <1>5, NoCaseIsLost
<1> HIDE DEF verified, mended
<1> QED
  BY <1>3, <1>4, <1>5 DEF VerdictsFollowNode, verified, mended

(* The verdicts of the lane are verdicts about the node, in every order of *)
(* cases, on every host and for every answer: verified means delivered     *)
(* under the right shift or rejected for the reason named, and no case is  *)
(* lost on a host that is ready (build_minimax_h3_m7_15_cases, the verify  *)
(* functions of scripts/run_comfyui_e2e.py).                               *)
THEOREM VerdictsAlwaysFollow == CasesSpec => []VerdictsFollowNode
<1>1. CasesInit => AttemptInv
  BY DEF CasesInit, AttemptInv
<1>2. AttemptInv /\ [CasesNext]_cases => AttemptInv'
  BY CasesKeep
<1> QED
  BY <1>1, <1>2, AttemptSays, PTL DEF CasesSpec

-----------------------------------------------------------------------------
(* The model profiles.  Both properties speak of what one node delivered,  *)
(* so that it is enough that every schedule of every builder is sound: it  *)
(* is whole, told by the profile of its name, and parted by the boundary   *)
(* of that profile.                                                        *)

(* What the name of a row of the Wan table says about it.                  *)
LEMMA WanTable ==
  /\ \A d \in WanDefinitions : d.id \in
        {"wan.21-t2v-comfy", "wan.21-t2v", "wan.21-i2v-480p", "wan.21-i2v-720p",
         "wan.21-t2v-diffusers", "wan.21-i2v-480p-diffusers", "wan.21-i2v-720p-diffusers",
         "wan.22-ti2v", "wan.22-t2v-a14b", "wan.22-i2v-a14b", "wan.22-ti2v-diffusers",
         "wan.22-t2v-a14b-diffusers", "wan.22-i2v-a14b-diffusers",
         "wan.21-flf2v", "wan.21-vace-1-3b", "wan.21-vace-14b", "wan.22-s2v",
         "wan.22-animate", "wan.animate2-base", "wan.animate2-distilled",
         "wan.animate2-optimized"}
  /\ \A d \in WanDefinitions : d.boundary =
        IF d.id \in {"wan.22-t2v-a14b", "wan.22-t2v-a14b-diffusers"} THEN 875
        ELSE IF d.id \in {"wan.22-i2v-a14b", "wan.22-i2v-a14b-diffusers"} THEN 900 ELSE 0
  /\ \A d \in WanDefinitions : d.steps =
        IF d.id \in {"wan.22-animate"} THEN 20
        ELSE IF d.id \in {"wan.animate2-distilled"} THEN 10
        ELSE IF d.id \in {"wan.animate2-optimized"} THEN 6
        ELSE IF d.id \in {"wan.21-t2v-comfy", "wan.21-t2v", "wan.21-t2v-diffusers",
                          "wan.22-ti2v", "wan.22-ti2v-diffusers", "wan.21-flf2v",
                          "wan.21-vace-1-3b", "wan.21-vace-14b"} THEN 50 ELSE 40
  /\ \A d \in WanDefinitions : d.evidence =
        IF d.id \in {"wan.21-t2v-comfy", "wan.21-t2v-diffusers",
                     "wan.21-i2v-480p-diffusers", "wan.21-i2v-720p-diffusers",
                     "wan.22-ti2v", "wan.22-ti2v-diffusers", "wan.22-t2v-a14b-diffusers",
                     "wan.22-i2v-a14b-diffusers", "wan.animate2-optimized"}
        THEN "framework_reference" ELSE "official"
  /\ \A d \in WanDefinitions : d.exact <=> d.id = "wan.animate2-optimized"
<1>1. \A d \in WanDefinitions : d.id \in
        {"wan.21-t2v-comfy", "wan.21-t2v", "wan.21-i2v-480p", "wan.21-i2v-720p",
         "wan.21-t2v-diffusers", "wan.21-i2v-480p-diffusers", "wan.21-i2v-720p-diffusers",
         "wan.22-ti2v", "wan.22-t2v-a14b", "wan.22-i2v-a14b", "wan.22-ti2v-diffusers",
         "wan.22-t2v-a14b-diffusers", "wan.22-i2v-a14b-diffusers",
         "wan.21-flf2v", "wan.21-vace-1-3b", "wan.21-vace-14b", "wan.22-s2v",
         "wan.22-animate", "wan.animate2-base", "wan.animate2-distilled",
         "wan.animate2-optimized"}
  BY DEF WanDefinitions, Wan21Definitions, Wan22Definitions, WanLaterDefinitions, WanRow
<1>2. \A d \in WanDefinitions : d.boundary =
        IF d.id \in {"wan.22-t2v-a14b", "wan.22-t2v-a14b-diffusers"} THEN 875
        ELSE IF d.id \in {"wan.22-i2v-a14b", "wan.22-i2v-a14b-diffusers"} THEN 900 ELSE 0
  BY DEF WanDefinitions, Wan21Definitions, Wan22Definitions, WanLaterDefinitions, WanRow
<1>3. \A d \in WanDefinitions : d.steps =
        IF d.id \in {"wan.22-animate"} THEN 20
        ELSE IF d.id \in {"wan.animate2-distilled"} THEN 10
        ELSE IF d.id \in {"wan.animate2-optimized"} THEN 6
        ELSE IF d.id \in {"wan.21-t2v-comfy", "wan.21-t2v", "wan.21-t2v-diffusers",
                          "wan.22-ti2v", "wan.22-ti2v-diffusers", "wan.21-flf2v",
                          "wan.21-vace-1-3b", "wan.21-vace-14b"} THEN 50 ELSE 40
  BY DEF WanDefinitions, Wan21Definitions, Wan22Definitions, WanLaterDefinitions, WanRow
<1>4. \A d \in WanDefinitions : d.evidence =
        IF d.id \in {"wan.21-t2v-comfy", "wan.21-t2v-diffusers",
                     "wan.21-i2v-480p-diffusers", "wan.21-i2v-720p-diffusers",
                     "wan.22-ti2v", "wan.22-ti2v-diffusers", "wan.22-t2v-a14b-diffusers",
                     "wan.22-i2v-a14b-diffusers", "wan.animate2-optimized"}
        THEN "framework_reference" ELSE "official"
  BY DEF WanDefinitions, Wan21Definitions, Wan22Definitions, WanLaterDefinitions, WanRow
<1>5. \A d \in WanDefinitions : d.exact <=> d.id = "wan.animate2-optimized"
  BY DEF WanDefinitions, Wan21Definitions, Wan22Definitions, WanLaterDefinitions, WanRow
<1> QED
  BY <1>1, <1>2, <1>3, <1>4, <1>5

(* The four rows with a boundary have one that is a sigma.                 *)
LEMMA WanBoundaries ==
  ASSUME NEW d \in WanDefinitions, d.boundary # 0
  PROVE  /\ d.id \in {"wan.22-t2v-a14b", "wan.22-i2v-a14b", "wan.22-t2v-a14b-diffusers",
                      "wan.22-i2v-a14b-diffusers"}
         /\ Boundary(d) \in Sigma
<1>1. d.boundary \in {875, 900} /\ d.id \in
         {"wan.22-t2v-a14b", "wan.22-i2v-a14b", "wan.22-t2v-a14b-diffusers",
          "wan.22-i2v-a14b-diffusers"}
  BY WanTable
<1>2. One \in Nat
  BY RoundingAssumption
<1>3. (875 * One) \div 1000 \in 0 .. One /\ (900 * One) \div 1000 \in 0 .. One
  BY <1>2
<1> QED
  BY <1>1, <1>3 DEF Boundary, Sigma

(* What a node is handed: a complete schedule, for its number of steps.    *)
Whole(s) == s.steps \in 1 .. MaxSteps /\ ValidFor(s.values, s.steps, TRUE)

(* A schedule falls all the way.                                           *)
LEMMA ScheduleFalls ==
  ASSUME NEW v, ValidSchedule(v), NEW i \in DOMAIN v, NEW j \in DOMAIN v, i <= j
  PROVE  v[j] <= v[i]
<1> DEFINE T == {k \in Nat : i + k \in DOMAIN v => v[i + k] <= v[i]}
<1>1. v \in Seq(Sigma) /\ DOMAIN v = 1 .. Len(v) /\ Len(v) \in Nat
      /\ \A k \in 1 .. Len(v) - 1 : v[k] > v[k + 1]
  BY DEF ValidSchedule
<1>2. \A k \in DOMAIN v : v[k] \in Int
  BY <1>1, RoundingAssumption DEF Sigma
<1>3. 0 \in T
  BY <1>1, <1>2
<1>4. ASSUME NEW k \in T PROVE k + 1 \in T
  <2>1. CASE i + (k + 1) \in DOMAIN v
    <3>1. i + k \in 1 .. Len(v) - 1 /\ i + k \in DOMAIN v /\ i + (k + 1) = (i + k) + 1
      BY <1>1, <2>1
    <3>2. v[i + k] > v[i + (k + 1)] /\ v[i + k] <= v[i]
      BY <1>1, <1>4, <3>1
    <3> QED
      BY <1>2, <2>1, <3>1, <3>2
  <2> QED
    BY <2>1
<1>5. T = Nat
  <2> HIDE DEF T
  <2>1. T \subseteq Nat
    BY DEF T
  <2> QED
    BY <1>3, <1>4, <2>1, SetInduction
<1>6. j - i \in Nat /\ i + (j - i) = j
  BY <1>1
<1> QED
  BY <1>5, <1>6

(* The first sigma that is not above a bound.                              *)
LEMMA FirstBelow ==
  ASSUME NEW v \in Seq(Sigma), Len(v) >= 1, NEW bound \in Nat, v[Len(v)] <= bound
  PROVE  \E i \in DOMAIN v : v[i] <= bound /\ \A j \in 1 .. i - 1 : v[j] > bound
<1> SUFFICES ASSUME \A i \in DOMAIN v : v[i] <= bound =>
                       \E j \in 1 .. i - 1 : ~(v[j] > bound)
             PROVE  FALSE
  OBVIOUS
<1> DEFINE T == {k \in Nat : \A j \in DOMAIN v : j <= k => v[j] > bound}
<1>1. DOMAIN v = 1 .. Len(v) /\ Len(v) \in Nat
  OBVIOUS
<1>2. \A k \in DOMAIN v : v[k] \in Int
  BY <1>1, RoundingAssumption DEF Sigma
<1>3. 0 \in T
  BY <1>1
<1>4. ASSUME NEW k \in T PROVE k + 1 \in T
  <2>1. ASSUME NEW j \in DOMAIN v, j <= k + 1 PROVE v[j] > bound
    <3>1. CASE j <= k
      BY <1>4, <3>1
    <3>2. CASE j = k + 1
      <4>1. \A i \in 1 .. j - 1 : i \in DOMAIN v /\ i <= k
        BY <1>1, <3>2
      <4>2. \A i \in 1 .. j - 1 : v[i] > bound
        BY <1>4, <4>1
      <4>3. ~(v[j] <= bound)
        BY <2>1, <4>2
      <4> QED
        BY <1>2, <2>1, <4>3
    <3> QED
      BY <1>1, <2>1, <3>1, <3>2
  <2> QED
    BY <2>1
<1>5. T = Nat
  <2> HIDE DEF T
  <2>1. T \subseteq Nat
    BY DEF T
  <2> QED
    BY <1>3, <1>4, <2>1, SetInduction
<1>6. Len(v) \in T /\ Len(v) \in DOMAIN v
  BY <1>1, <1>5
<1> QED
  BY <1>2, <1>6

(* The boundary's step parts a whole schedule in those above and the rest. *)
LEMMA BoundaryParts ==
  ASSUME NEW v, NEW steps, ValidFor(v, steps, TRUE), NEW bound \in Nat
  PROVE  /\ WanBoundary(v, bound) \in Nat
         /\ \A i \in DOMAIN v :
              IF i <= WanBoundary(v, bound) THEN v[i] > bound ELSE v[i] <= bound
<1>1. v \in Seq(Sigma) /\ Len(v) >= 2 /\ v[Len(v)] <= bound /\ ValidSchedule(v)
  BY DEF ValidFor, ValidSchedule
<1> DEFINE First(i) == v[i] <= bound /\ \A j \in 1 .. i - 1 : v[j] > bound
           f == CHOOSE i \in DOMAIN v : First(i)
<1>2. f \in DOMAIN v /\ First(f)
  BY <1>1, FirstBelow
<1>3. WanBoundary(v, bound) = f - 1
  BY DEF WanBoundary
<1>4. DOMAIN v = 1 .. Len(v) /\ Len(v) \in Nat /\ \A i \in DOMAIN v : v[i] \in Int
  BY <1>1, RoundingAssumption DEF Sigma
<1> HIDE DEF f
<1>5. ASSUME NEW i \in DOMAIN v, i >= f PROVE v[i] <= bound
  BY <1>1, <1>2, <1>4, <1>5, ScheduleFalls
<1> QED
  BY <1>2, <1>3, <1>4, <1>5

(* Of a profile with a boundary, the schedule is parted by it.             *)
Parted(s) ==
    \A d \in WanDefinitions : d.id = s.profile /\ d.boundary # 0 =>
        /\ s.boundary \in Nat
        /\ \A i \in DOMAIN s.values :
              IF i <= s.boundary THEN s.values[i] > Boundary(d)
              ELSE s.values[i] <= Boundary(d)

(* A slice of a parted schedule is parted where the whole one is.          *)
LEMMA DeliverParts ==
  ASSUME NEW S, NEW w, Deliver(S, w), \A s \in S : Whole(s) /\ Parted(s)
  PROVE  BoundarySplitsDelivered'
<1>1. PICK s \in S :
         /\ SliceBounds(w[1], w[2], s.steps)
         /\ delivered' = {[schedule |-> s, start |-> w[1],
               sigmas |-> Host(SliceStepRange(s.values, w[1], EndStep(w[2], s.steps)))]}
  BY Zenon DEF Deliver
<1> DEFINE a == w[1]  b == EndStep(w[2], s.steps)
           piece == SliceStepRange(s.values, a, b)
           made == [schedule |-> s, start |-> a, sigmas |-> Host(piece)]
<1>2. s.steps \in Nat /\ s.values \in Seq(Sigma) /\ Len(s.values) = s.steps + 1
  BY DEF Whole, ValidFor, ValidSchedule, Steps
<1>3. a \in Nat /\ b \in Nat /\ a < b /\ b <= s.steps
  BY <1>1, <1>2 DEF SliceBounds, EndStep
<1>4. made.schedule = s /\ made.start = a /\ made.sigmas = Host(piece)
  OBVIOUS
<1> HIDE DEF a, b, made
<1>5. DOMAIN piece = 1 .. b - a + 1
      /\ \A i \in DOMAIN piece : a + i \in DOMAIN s.values /\ piece[i] = s.values[a + i]
  <2> DEFINE v == s.values  n == s.steps
  <2>1. v \in Seq(Sigma) /\ Len(v) = n + 1 /\ n \in Nat /\ b <= n
    BY <1>2, <1>3
  <2> HIDE DEF v, n
  <2>2. DOMAIN v = 1 .. Len(v)
    BY ONLY <2>1
  <2>3. /\ DOMAIN SliceStepRange(v, a, b) = 1 .. b - a + 1
        /\ \A i \in 1 .. b - a + 1 :
              a + i \in DOMAIN v /\ SliceStepRange(v, a, b)[i] = v[a + i]
    BY ONLY <1>3, <2>1, <2>2 DEF SliceStepRange
  <2> QED
    BY <2>3 DEF v
<1>6. DOMAIN Host(piece) = DOMAIN piece
      /\ \A i \in DOMAIN piece : Host(piece)[i] = Float32[piece[i]]
  BY DEF Host
<1> HIDE DEF piece
<1>7. ASSUME NEW d \in WanDefinitions, d.id = s.profile, d.boundary # 0,
             NEW i \in DOMAIN piece
      PROVE  IF a + i - 1 < s.boundary
             THEN Host(piece)[i] >= Float32[Boundary(d)]
             ELSE Host(piece)[i] <= Float32[Boundary(d)]
  <2>1. s.boundary \in Nat /\ IF a + i <= s.boundary THEN s.values[a + i] > Boundary(d)
                              ELSE s.values[a + i] <= Boundary(d)
    BY <1>5, <1>7 DEF Parted
  <2>2. Boundary(d) \in Sigma /\ s.values[a + i] \in Sigma
    BY <1>2, <1>5, <1>7, WanBoundaries
  <2>3. i \in Nat
    BY <1>3, <1>5
  <2>4. \A x, y \in Sigma : x <= y => Float32[x] <= Float32[y]
    BY RoundingAssumption
  <2>5. \A x \in Sigma : x \in Int /\ Float32[x] \in Int
    BY RoundingAssumption DEF Sigma
  <2>6. CASE a + i - 1 < s.boundary
    <3>1. s.values[a + i] > Boundary(d)
      BY <1>3, <2>1, <2>3, <2>6
    <3> HIDE DEF Boundary
    <3> QED
      BY <1>5, <1>6, <2>2, <2>4, <2>5, <2>6, <3>1
  <2>7. CASE ~(a + i - 1 < s.boundary)
    <3>1. s.values[a + i] <= Boundary(d)
      BY <1>3, <2>1, <2>3, <2>7
    <3> QED
      BY <1>5, <1>6, <2>2, <2>4, <2>7, <3>1
  <2> QED
    BY <2>6, <2>7
<1>8. delivered' = {made}
  BY <1>1 DEF made, piece, a, b
<1> QED
  BY <1>4, <1>6, <1>7, <1>8 DEF BoundarySplitsDelivered

(* What EvidenceFollowsReference asks of one schedule and one profile      *)
Vouches(p, s) ==
    LET vouched(r) == s.steps \in LeastOf(r.reference) .. GreatestOf(r.reference)
        ranged(r) == s.steps \in r.minimum .. r.maximum
    IN /\ s.evidence \notin {"modified", "experimental"} =>
            \E r \in p.recipes : vouched(r) /\ ranged(r) /\ s.evidence = r.evidence
       /\ s.evidence = "modified" =>
            \A r \in p.recipes : vouched(r) => s.profile \in LTXStretchable
       /\ (\A r \in p.recipes : ~ranged(r)) => \E r \in p.recipes : r.modifiable
       /\ s.evidence = "official" => ~s.warned
       /\ s.grid = p.grid /\ s.transforms = p.transforms

(* A schedule is what the profile of its name declares.                    *)
Told(s) ==
    /\ \E p \in Builtin : p.id = s.profile
    /\ \A p \in Builtin : p.id = s.profile => Vouches(p, s)

(* The least and the greatest of two numbers and of one                    *)
LEMMA Extremes ==
  ASSUME NEW a \in Int, NEW b \in Int, a <= b
  PROVE  LeastOf({a, b}) = a /\ GreatestOf({a, b}) = b
  BY DEF LeastOf, GreatestOf

LEMMA Extreme ==
  ASSUME NEW a \in Int
  PROVE  LeastOf({a}) = a /\ GreatestOf({a}) = a
  BY DEF LeastOf, GreatestOf

(* What a declaration holds, read from its arguments; a sampler written    *)
(* into it afterwards changes nothing else.                                *)
LEMMA DeclaredFact ==
  ASSUME NEW id, NEW family, NEW variant, NEW grid, NEW shifts, NEW recipes
  PROVE  LET p == Declared(id, family, variant, grid, shifts, recipes)
         IN  /\ p.id = id /\ p.grid = grid /\ p.recipes = recipes
             /\ p.transforms = shifts \o <<"terminal.append_zero">>
  BY DEF Declared

LEMMA SampledFact ==
  ASSUME NEW id, NEW family, NEW variant, NEW grid, NEW shifts, NEW recipes, NEW sampler
  PROVE  LET p == [Declared(id, family, variant, grid, shifts,
                            recipes) EXCEPT !.sampler = sampler]
         IN  /\ p.id = id /\ p.grid = grid /\ p.recipes = recipes
             /\ p.transforms = shifts \o <<"terminal.append_zero">>
  BY DEF Declared

(* The names of the profiles, family by family.                            *)
WanNames ==
    {"wan.21-t2v-comfy", "wan.21-t2v", "wan.21-i2v-480p", "wan.21-i2v-720p",
     "wan.21-t2v-diffusers", "wan.21-i2v-480p-diffusers", "wan.21-i2v-720p-diffusers",
     "wan.22-ti2v", "wan.22-t2v-a14b", "wan.22-i2v-a14b", "wan.22-ti2v-diffusers",
     "wan.22-t2v-a14b-diffusers", "wan.22-i2v-a14b-diffusers",
     "wan.21-flf2v", "wan.21-vace-1-3b", "wan.21-vace-14b", "wan.22-s2v",
     "wan.22-animate", "wan.animate2-base", "wan.animate2-distilled",
     "wan.animate2-optimized"}

AnimaNames == {"anima.aesthetic", "anima.base", "anima.turbo"}
HunyuanNames == {"hunyuanimage.2-1", "hunyuanimage.2-1-distilled"}
SD3Names == {"sd3.publisher", "sd3.framework"}
ZImageNames == {"z_image.base", "z_image.turbo"}
QwenImageNames == {"qwen_image.comfy-fixed", "qwen_image.diffusers-dynamic"}
QwenNativeNames ==
    {"qwen_image.comfy-native", "qwen_image21.comfy-native",
     "qwen_image21.diffusers-dynamic"}
LTXNames ==
    {"ltx.ltxv.dev", "ltx.ltx2.dev", "ltx.ltx23.dev", "ltx.ltx2.stage1",
     "ltx.ltx2.stage2", "ltx.ltx23.stage1", "ltx.ltx23.stage2"}

(* Every profile of a family has one of the names of the family.           *)
LEMMA SingleNames ==
  /\ \A p \in AuraFlowDeclared : p.id = "auraflow.v0-2"
  /\ \A p \in Lumina2Declared : p.id = "lumina2.v2"
  /\ \A p \in Flux1SchnellDeclared : p.id = "flux1.schnell"
  /\ \A p \in Krea2TurboDeclared : p.id = "krea2.turbo"
  /\ \A p \in Krea2RawDeclared : p.id = "krea2.raw"
  /\ \A p \in Krea2LoraDeclared : p.id = "krea2.raw-turbo-lora"
  BY DEF AuraFlowDeclared, Lumina2Declared, Flux1SchnellDeclared, Krea2TurboDeclared,
         Krea2RawDeclared, Krea2LoraDeclared, Declared

LEMMA FamilyNames ==
  /\ \A p \in HunyuanImage21Declared : p.id \in HunyuanNames
  /\ \A p \in SD3Declared : p.id \in SD3Names
  /\ \A p \in ZImageDeclared : p.id \in ZImageNames
  /\ \A p \in QwenImageDeclared : p.id \in QwenImageNames
  /\ \A p \in QwenNativeDeclared : p.id \in QwenNativeNames
  BY DEF HunyuanImage21Declared, SD3Declared, ZImageDeclared, QwenImageDeclared,
         QwenNativeDeclared, Declared, HunyuanNames, SD3Names, ZImageNames,
         QwenImageNames, QwenNativeNames

(* The rows of the families that are tables                                *)
LEMMA AnimaRow ==
  ASSUME NEW p \in AnimaDeclared
  PROVE  \E v \in {"aesthetic", "base", "turbo"} :
           /\ p.id = AnimaIds[v] /\ p.grid = "flowmatch.reciprocal_step"
           /\ p.transforms = <<"rational_shift.fixed">> \o <<"terminal.append_zero">>
           /\ p.recipes = {Recipe("framework_reference",
                             IF v = "turbo" THEN 8 ELSE 30, IF v = "turbo" THEN 12 ELSE 50,
                             AnimaSteps[v], TRUE)}
<1>1. DOMAIN AnimaSteps = {"aesthetic", "base", "turbo"}
  BY DEF AnimaSteps
<1>2. PICK v \in DOMAIN AnimaSteps : p = Declared(AnimaIds[v], "anima", v,
              "flowmatch.reciprocal_step", <<"rational_shift.fixed">>,
              {Recipe("framework_reference",
                      IF v = "turbo" THEN 8 ELSE 30, IF v = "turbo" THEN 12 ELSE 50,
                      AnimaSteps[v], TRUE)})
  BY Zenon DEF AnimaDeclared
<1> DEFINE rs == {Recipe("framework_reference",
                      IF v = "turbo" THEN 8 ELSE 30, IF v = "turbo" THEN 12 ELSE 50,
                      AnimaSteps[v], TRUE)}
<1>3. p = Declared(AnimaIds[v], "anima", v, "flowmatch.reciprocal_step",
                   <<"rational_shift.fixed">>, rs)
  BY <1>2
<1>4. \A x : x = rs => x = {Recipe("framework_reference",
                      IF v = "turbo" THEN 8 ELSE 30, IF v = "turbo" THEN 12 ELSE 50,
                      AnimaSteps[v], TRUE)}
  BY Zenon
<1> HIDE DEF rs
<1>5. /\ p.id = AnimaIds[v] /\ p.grid = "flowmatch.reciprocal_step" /\ p.recipes = rs
      /\ p.transforms = <<"rational_shift.fixed">> \o <<"terminal.append_zero">>
  BY <1>3, DeclaredFact
<1> QED
  BY <1>1, <1>4, <1>5, Zenon

LEMMA LTXRow ==
  ASSUME NEW p \in LTXDeclared
  PROVE  \/ \E g \in {"ltxv", "ltx2", "ltx23"} : p = LTXDev(g)
         \/ \E g \in {"ltx2", "ltx23"}, stage \in {"stage1", "stage2"} :
              p = LTXDistilled(g, stage)
<1>1. DOMAIN LTXDevSteps = {"ltxv", "ltx2", "ltx23"}
  BY DEF LTXDevSteps
<1> QED
  BY <1>1 DEF LTXDeclared

(* The two kinds of LTX profile, read from their arguments                 *)
LEMMA LTXDevFact ==
  ASSUME NEW g
  PROVE  /\ LTXDev(g).id = LTXDevIds[g] /\ LTXDev(g).grid = "flowmatch.linear_endpoint"
         /\ LTXDev(g).transforms =
              <<"ltx.flow.exponential_token_shift", "ltx.terminal.stretch">>
                 \o <<"terminal.append_zero">>
         /\ LTXDev(g).recipes = OneSource("official", LTXDevSteps[g])
  BY DeclaredFact, SMTT(30) DEF LTXDev

LEMMA LTXDistilledFact ==
  ASSUME NEW g, NEW stage
  PROVE  LET p == LTXDistilled(g, stage)  n == Steps(LTXVector(stage))
         IN /\ p.id = LTXStageIds[g][stage] /\ p.grid = "flowmatch.linear_endpoint"
            /\ p.transforms = <<"ltx.distilled.preset">> \o <<"terminal.append_zero">>
            /\ p.recipes = {Recipe("official", n, n, {n}, FALSE)}
<1> DEFINE n == Steps(LTXVector(stage))  rs == {Recipe("official", n, n, {n}, FALSE)}
<1>1. LTXDistilled(g, stage) =
        Declared(LTXStageIds[g][stage], "ltx", g, "flowmatch.linear_endpoint",
                 <<"ltx.distilled.preset">>, rs)
  BY Zenon DEF LTXDistilled
<1>2. \A x : x = rs => x = {Recipe("official", n, n, {n}, FALSE)}
  BY Zenon
<1> HIDE DEF rs
<1>3. /\ LTXDistilled(g, stage).id = LTXStageIds[g][stage]
      /\ LTXDistilled(g, stage).grid = "flowmatch.linear_endpoint"
      /\ LTXDistilled(g, stage).transforms =
            <<"ltx.distilled.preset">> \o <<"terminal.append_zero">>
      /\ LTXDistilled(g, stage).recipes = rs
  BY <1>1, DeclaredFact
<1> QED
  BY <1>2, <1>3, Zenon

(* The names of the families, of one profile or of several, are apart: a   *)
(* profile with a name of a family is of that family.                      *)
LEMMA TableNames ==
  /\ \A p \in AnimaDeclared : p.id \in AnimaNames
  /\ \A p \in LTXDeclared : p.id \in LTXNames
  /\ \A p \in WanDeclared : p.id \in WanNames
<1>1. ASSUME NEW p \in AnimaDeclared PROVE p.id \in AnimaNames
  <2>1. PICK v \in {"aesthetic", "base", "turbo"} : p.id = AnimaIds[v]
    BY <1>1, AnimaRow, Zenon
  <2> QED
    BY <2>1 DEF AnimaIds, AnimaNames
<1>2. ASSUME NEW p \in LTXDeclared PROVE p.id \in LTXNames
  <2>1. \A g : LTXDev(g).id = LTXDevIds[g]
    BY LTXDevFact
  <2>2. \A g, stage : LTXDistilled(g, stage).id = LTXStageIds[g][stage]
    BY LTXDistilledFact, Zenon
  <2>3. \/ \E g \in {"ltxv", "ltx2", "ltx23"} : p.id = LTXDevIds[g]
        \/ \E g \in {"ltx2", "ltx23"}, stage \in {"stage1", "stage2"} :
              p.id = LTXStageIds[g][stage]
    BY <1>2, <2>1, <2>2, LTXRow
  <2>4. CASE \E g \in {"ltxv", "ltx2", "ltx23"} : p.id = LTXDevIds[g]
    BY <2>4 DEF LTXDevIds, LTXNames
  <2>5. CASE \E g \in {"ltx2", "ltx23"}, stage \in {"stage1", "stage2"} :
              p.id = LTXStageIds[g][stage]
    BY <2>5 DEF LTXStageIds, LTXNames
  <2> QED
    BY <2>3, <2>4, <2>5
<1>3. ASSUME NEW p \in WanDeclared PROVE p.id \in WanNames
  <2>1. PICK d \in WanDefinitions : p.id = d.id
    BY <1>3 DEF WanDeclared, Declared
  <2> QED
    BY <2>1, WanTable DEF WanNames
<1> QED
  BY <1>1, <1>2, <1>3

(* A profile belongs to the family its name says.                          *)
LEMMA NamedIn ==
  ASSUME NEW p \in Builtin
  PROVE  /\ p.id = "auraflow.v0-2" => p \in AuraFlowDeclared
         /\ p.id = "lumina2.v2" => p \in Lumina2Declared
         /\ p.id = "flux1.schnell" => p \in Flux1SchnellDeclared
         /\ p.id = "krea2.turbo" => p \in Krea2TurboDeclared
         /\ p.id = "krea2.raw" => p \in Krea2RawDeclared
         /\ p.id = "krea2.raw-turbo-lora" => p \in Krea2LoraDeclared
         /\ p.id \in HunyuanNames => p \in HunyuanImage21Declared
         /\ p.id \in SD3Names => p \in SD3Declared
         /\ p.id \in ZImageNames => p \in ZImageDeclared
         /\ p.id \in QwenImageNames => p \in QwenImageDeclared
         /\ p.id \in QwenNativeNames => p \in QwenNativeDeclared
         /\ p.id \in AnimaNames => p \in AnimaDeclared
         /\ p.id \in LTXNames => p \in LTXDeclared
         /\ p.id \in WanNames => p \in WanDeclared
<1>1. \E F \in {AuraFlowDeclared, Lumina2Declared, AnimaDeclared, HunyuanImage21Declared,
           SD3Declared, ZImageDeclared, Flux1SchnellDeclared, Krea2TurboDeclared,
           Krea2RawDeclared, Krea2LoraDeclared, QwenImageDeclared,
           QwenNativeDeclared, LTXDeclared, WanDeclared} : p \in F
  BY Zenon DEF Builtin
<1> QED
  BY <1>1, SingleNames, FamilyNames, TableNames
     DEF HunyuanNames, SD3Names, ZImageNames, QwenImageNames, QwenNativeNames, AnimaNames,
         LTXNames, WanNames

(* A profile with one recipe, whose published steps are lo .. hi.          *)
Says(p, grid, shifts, evidence, minimum, maximum, lo, hi) ==
    /\ p.grid = grid /\ p.transforms = shifts \o <<"terminal.append_zero">>
    /\ \E r : /\ p.recipes = {r}
              /\ r.evidence = evidence /\ r.minimum = minimum /\ r.maximum = maximum
              /\ LeastOf(r.reference) = lo /\ GreatestOf(r.reference) = hi

(* There is a profile of this name, and every one of this name says        *)
(* this.                                                                   *)
Declares(id, grid, shifts, evidence, minimum, maximum, lo, hi) ==
    /\ \E p \in Builtin : p.id = id
    /\ \A p \in Builtin :
          p.id = id => Says(p, grid, shifts, evidence, minimum, maximum, lo, hi)

(* Every recipe of the profile of this name allows modified steps.         *)
Modifiable(id) ==
    \A p \in Builtin : p.id = id => \A r \in p.recipes : r.modifiable

(* A recipe, read from its arguments                                       *)
LEMMA RecipeFact ==
  ASSUME NEW evidence, NEW minimum, NEW maximum, NEW reference
  PROVE  /\ \A r \in {Recipe(evidence, minimum, maximum, reference, TRUE)} :
              /\ r.evidence = evidence /\ r.minimum = minimum /\ r.maximum = maximum
              /\ r.reference = reference /\ r.modifiable
         /\ \A r \in {Recipe(evidence, minimum, maximum, reference, FALSE)} :
              /\ r.evidence = evidence /\ r.minimum = minimum /\ r.maximum = maximum
              /\ r.reference = reference
  BY DEF Recipe

(* The recipe with one source: any number of steps, one of them            *)
(* published                                                               *)
LEMMA OneSourceFact ==
  ASSUME NEW evidence, NEW n \in Nat
  PROVE  \E r : /\ OneSource(evidence, n) = {r}
                /\ r.evidence = evidence /\ r.minimum = 1 /\ r.maximum = MaxSteps
                /\ LeastOf(r.reference) = n /\ GreatestOf(r.reference) = n
                /\ r.modifiable
<1> DEFINE r == Recipe(evidence, 1, MaxSteps, {n}, TRUE)
<1>1. OneSource(evidence, n) = {r}
  BY Zenon DEF OneSource
<1>2. r \in {Recipe(evidence, 1, MaxSteps, {n}, TRUE)}
  BY Zenon
<1>3. /\ r.evidence = evidence /\ r.minimum = 1 /\ r.maximum = MaxSteps
      /\ r.reference = {n} /\ r.modifiable
  BY <1>2, RecipeFact, Zenon
<1> HIDE DEF r
<1>4. LeastOf(r.reference) = n /\ GreatestOf(r.reference) = n
  BY <1>3, Extreme
<1> QED
  BY <1>1, <1>3, <1>4

(* Every family is built in.                                               *)
LEMMA Families ==
  \A F \in {AuraFlowDeclared, Lumina2Declared, AnimaDeclared, HunyuanImage21Declared,
           SD3Declared, ZImageDeclared, Flux1SchnellDeclared, Krea2TurboDeclared,
           Krea2RawDeclared, Krea2LoraDeclared, QwenImageDeclared,
           QwenNativeDeclared, LTXDeclared, WanDeclared} : F \subseteq Builtin
  BY Zenon DEF Builtin

(* The one profile of its name                                             *)
Unique(q) == q \in Builtin /\ \A p \in Builtin : p.id = q.id => p = q

(* The only profile of its name, and what it says if it has one recipe     *)
LEMMA DeclaredName ==
  \A id, family, variant, grid, shifts, recipes :
      Declared(id, family, variant, grid, shifts, recipes).id = id
  BY DEF Declared

LEMMA OneSourceDeclares ==
  ASSUME NEW id, NEW family, NEW variant, NEW grid, NEW shifts, NEW evidence, NEW n \in Nat,
         Unique(Declared(id, family, variant, grid, shifts, OneSource(evidence, n)))
  PROVE  Declares(id, grid, shifts, evidence, 1, MaxSteps, n, n) /\ Modifiable(id)
<1> DEFINE q == Declared(id, family, variant, grid, shifts, OneSource(evidence, n))
<1>1. PICK r : /\ OneSource(evidence, n) = {r}
               /\ r.evidence = evidence /\ r.minimum = 1 /\ r.maximum = MaxSteps
               /\ LeastOf(r.reference) = n /\ GreatestOf(r.reference) = n
               /\ r.modifiable
  BY OneSourceFact
<1>2. /\ q.id = id /\ q.grid = grid /\ q.recipes = OneSource(evidence, n)
      /\ q.transforms = shifts \o <<"terminal.append_zero">>
  BY DeclaredFact
<1>3. Unique(q)
  OBVIOUS
<1> HIDE DEF q
<1>4. Says(q, grid, shifts, evidence, 1, MaxSteps, n,
           n) /\ \A x \in q.recipes : x.modifiable
  BY <1>1, <1>2 DEF Says
<1> QED
  BY <1>2, <1>3, <1>4 DEF Declares, Modifiable, Unique

(* What each built-in profile declares, under its own name only            *)
LEMMA AuraFlowDeclares ==
  /\ Declares("auraflow.v0-2", "flowmatch.reciprocal_step", <<"direct_ratio.shift">>,
              "official", 1, MaxSteps, 50, 50)
  /\ Modifiable("auraflow.v0-2")
<1>1. Unique(Declared("auraflow.v0-2", "auraflow", "v0-2", "flowmatch.reciprocal_step",
                <<"direct_ratio.shift">>, OneSource("official", 50)))
  BY Families, NamedIn, DeclaredName
     DEF Unique, AuraFlowDeclared
<1>2. Declares("auraflow.v0-2", "flowmatch.reciprocal_step", <<"direct_ratio.shift">>,
              "official", 1, MaxSteps, 50, 50) /\ Modifiable("auraflow.v0-2")
  BY <1>1, OneSourceDeclares
<1> QED
  BY <1>2

LEMMA Lumina2Declares ==
  /\ Declares("lumina2.v2", "flowmatch.reciprocal_step", <<"direct_ratio.shift">>,
              "official", 1, MaxSteps, 50, 50)
  /\ Modifiable("lumina2.v2")
<1>1. Unique(Declared("lumina2.v2", "lumina2", "2-0", "flowmatch.reciprocal_step",
                <<"direct_ratio.shift">>, OneSource("official", 50)))
  BY Families, NamedIn, DeclaredName
     DEF Unique, Lumina2Declared
<1>2. Declares("lumina2.v2", "flowmatch.reciprocal_step", <<"direct_ratio.shift">>,
              "official", 1, MaxSteps, 50, 50) /\ Modifiable("lumina2.v2")
  BY <1>1, OneSourceDeclares
<1> QED
  BY <1>2

LEMMA HunyuanImage21Declares ==
  /\ Declares("hunyuanimage.2-1", "flowmatch.reciprocal_step", <<"direct_ratio.shift">>,
              "official", 1, MaxSteps, 50, 50)
  /\ Modifiable("hunyuanimage.2-1")
  /\ Declares("hunyuanimage.2-1-distilled", "flowmatch.reciprocal_step",
              <<"direct_ratio.shift">>,
              "official", 1, MaxSteps, 8, 8)
  /\ Modifiable("hunyuanimage.2-1-distilled")
<1>1. Unique(Declared("hunyuanimage.2-1", "hunyuanimage", "2-1",
                      "flowmatch.reciprocal_step",
                <<"direct_ratio.shift">>, OneSource("official", 50)))
  BY Families, NamedIn, DeclaredName
     DEF Unique, HunyuanImage21Declared, HunyuanNames
<1>2. Declares("hunyuanimage.2-1", "flowmatch.reciprocal_step", <<"direct_ratio.shift">>,
              "official", 1, MaxSteps, 50, 50) /\ Modifiable("hunyuanimage.2-1")
  BY <1>1, OneSourceDeclares
<1>3. Unique(Declared("hunyuanimage.2-1-distilled", "hunyuanimage", "2-1-distilled",
                      "flowmatch.reciprocal_step",
                <<"direct_ratio.shift">>, OneSource("official", 8)))
  BY Families, NamedIn, DeclaredName
     DEF Unique, HunyuanImage21Declared, HunyuanNames
<1>4. Declares("hunyuanimage.2-1-distilled", "flowmatch.reciprocal_step",
               <<"direct_ratio.shift">>,
              "official", 1, MaxSteps, 8, 8) /\ Modifiable("hunyuanimage.2-1-distilled")
  BY <1>3, OneSourceDeclares
<1> QED
  BY <1>2, <1>4

LEMMA SD3Declares ==
  /\ Declares("sd3.publisher", "flowmatch.reciprocal_step", <<"direct_ratio.shift">>,
              "official", 1, MaxSteps, 50, 50)
  /\ Modifiable("sd3.publisher")
  /\ Declares("sd3.framework", "flowmatch.reciprocal_step", <<"direct_ratio.shift">>,
              "framework_reference", 1, MaxSteps, 28, 28)
  /\ Modifiable("sd3.framework")
<1>1. Unique(Declared("sd3.publisher", "sd3", "original", "flowmatch.reciprocal_step",
                <<"direct_ratio.shift">>, OneSource("official", 50)))
  BY Families, NamedIn, DeclaredName
     DEF Unique, SD3Declared, SD3Names
<1>2. Declares("sd3.publisher", "flowmatch.reciprocal_step", <<"direct_ratio.shift">>,
              "official", 1, MaxSteps, 50, 50) /\ Modifiable("sd3.publisher")
  BY <1>1, OneSourceDeclares
<1>3. Unique(Declared("sd3.framework", "sd3", "original", "flowmatch.reciprocal_step",
                <<"direct_ratio.shift">>, OneSource("framework_reference", 28)))
  BY Families, NamedIn, DeclaredName
     DEF Unique, SD3Declared, SD3Names
<1>4. Declares("sd3.framework", "flowmatch.reciprocal_step", <<"direct_ratio.shift">>,
              "framework_reference", 1, MaxSteps, 28, 28) /\ Modifiable("sd3.framework")
  BY <1>3, OneSourceDeclares
<1> QED
  BY <1>2, <1>4

LEMMA QwenImageDeclares ==
  /\ Declares("qwen_image.comfy-fixed", "flowmatch.reciprocal_step",
              <<"comfy.direct_ratio">>,
              "framework_reference", 1, MaxSteps, 50, 50)
  /\ Modifiable("qwen_image.comfy-fixed")
  /\ Declares("qwen_image.diffusers-dynamic", "flowmatch.reciprocal_step",
              <<"diffusers.exponential_mu">>,
              "framework_reference", 1, MaxSteps, 50, 50)
  /\ Modifiable("qwen_image.diffusers-dynamic")
<1>1. Unique(Declared("qwen_image.comfy-fixed", "qwen_image", "original",
                      "flowmatch.reciprocal_step",
                <<"comfy.direct_ratio">>, OneSource("framework_reference", 50)))
  BY Families, NamedIn, DeclaredName
     DEF Unique, QwenImageDeclared, QwenImageNames
<1>2. Declares("qwen_image.comfy-fixed", "flowmatch.reciprocal_step",
               <<"comfy.direct_ratio">>,
              "framework_reference", 1, MaxSteps, 50, 50)
      /\ Modifiable("qwen_image.comfy-fixed")
  BY <1>1, OneSourceDeclares
<1>3. Unique(Declared("qwen_image.diffusers-dynamic", "qwen_image", "original",
                      "flowmatch.reciprocal_step",
                <<"diffusers.exponential_mu">>, OneSource("framework_reference", 50)))
  BY Families, NamedIn, DeclaredName
     DEF Unique, QwenImageDeclared, QwenImageNames
<1>4. Declares("qwen_image.diffusers-dynamic", "flowmatch.reciprocal_step",
               <<"diffusers.exponential_mu">>,
              "framework_reference", 1, MaxSteps, 50, 50)
      /\ Modifiable("qwen_image.diffusers-dynamic")
  BY <1>3, OneSourceDeclares
<1> QED
  BY <1>2, <1>4

LEMMA QwenNativeDeclares ==
  /\ Declares("qwen_image.comfy-native", "comfy.simple.flux_table",
              <<"qwen.exponential_mu">>,
              "framework_reference", 1, MaxSteps, 50, 50)
  /\ Modifiable("qwen_image.comfy-native")
  /\ Declares("qwen_image21.comfy-native", "comfy.simple.flux_table",
              <<"qwen.exponential_mu">>,
              "framework_reference", 1, MaxSteps, 25, 25)
  /\ Modifiable("qwen_image21.comfy-native")
<1>1. Unique(Declared("qwen_image.comfy-native", "qwen_image", "original",
                      "comfy.simple.flux_table",
                <<"qwen.exponential_mu">>, OneSource("framework_reference", 50)))
  BY Families, NamedIn, DeclaredName
     DEF Unique, QwenNativeDeclared, QwenNativeNames
<1>2. Declares("qwen_image.comfy-native", "comfy.simple.flux_table",
               <<"qwen.exponential_mu">>,
              "framework_reference", 1, MaxSteps, 50, 50)
      /\ Modifiable("qwen_image.comfy-native")
  BY <1>1, OneSourceDeclares
<1>3. Unique(Declared("qwen_image21.comfy-native", "qwen_image21", "v2_1",
                      "comfy.simple.flux_table",
                <<"qwen.exponential_mu">>, OneSource("framework_reference", 25)))
  BY Families, NamedIn, DeclaredName
     DEF Unique, QwenNativeDeclared, QwenNativeNames
<1>4. Declares("qwen_image21.comfy-native", "comfy.simple.flux_table",
               <<"qwen.exponential_mu">>,
              "framework_reference", 1, MaxSteps, 25, 25)
      /\ Modifiable("qwen_image21.comfy-native")
  BY <1>3, OneSourceDeclares
<1> QED
  BY <1>2, <1>4

(* What a unique profile says is what its name declares.                   *)
LEMMA SaysDeclares ==
  ASSUME NEW q, Unique(q), NEW grid, NEW shifts, NEW evidence, NEW minimum, NEW maximum,
         NEW lo, NEW hi, Says(q, grid, shifts, evidence, minimum, maximum, lo, hi)
  PROVE  Declares(q.id, grid, shifts, evidence, minimum, maximum, lo, hi)
  BY DEF Declares, Unique

LEMMA FreeDeclares ==
  ASSUME NEW q, Unique(q), \A r \in q.recipes : r.modifiable
  PROVE  Modifiable(q.id)
  BY DEF Modifiable, Unique

(* A declaration with one recipe says what the recipe holds.               *)
LEMMA OneRecipeSays ==
  ASSUME NEW id, NEW family, NEW variant, NEW grid, NEW shifts, NEW r, NEW lo, NEW hi,
         LeastOf(r.reference) = lo, GreatestOf(r.reference) = hi,
         NEW q, q = Declared(id, family, variant, grid, shifts, {r})
  PROVE  /\ q.id = id /\ q.recipes = {r}
         /\ Says(q, grid, shifts, r.evidence, r.minimum, r.maximum, lo, hi)
<1>1. /\ q.id = id /\ q.grid = grid /\ q.recipes = {r}
      /\ q.transforms = shifts \o <<"terminal.append_zero">>
  BY DeclaredFact
<1> QED
  BY <1>1 DEF Says

LEMMA ZImageDeclares ==
  /\ Declares("z_image.base", "flowmatch.reciprocal_step", <<"flowmatch.direct_ratio">>,
              "official", 28, 50, 28, 50)
  /\ Modifiable("z_image.base")
  /\ Declares("z_image.turbo", "flowmatch.reciprocal_step", <<"flowmatch.direct_ratio">>,
              "official", 1, MaxSteps, 8, 8)
  /\ Modifiable("z_image.turbo")
<1> DEFINE r == Recipe("official", 28, 50, {28, 50}, TRUE)
           u == Recipe("official", 1, MaxSteps, {8}, TRUE)
           b == Declared("z_image.base", "z_image", "base", "flowmatch.reciprocal_step",
                  <<"flowmatch.direct_ratio">>, {r})
           t == Declared("z_image.turbo", "z_image", "turbo", "flowmatch.reciprocal_step",
                  <<"flowmatch.direct_ratio">>, {u})
<1>1. /\ r.evidence = "official" /\ r.minimum = 28 /\ r.maximum = 50
      /\ r.reference = {28, 50} /\ r.modifiable
      /\ u.evidence = "official" /\ u.minimum = 1 /\ u.maximum = MaxSteps
      /\ u.reference = {8} /\ u.modifiable
  BY DEF Recipe
<1>2. ZImageDeclared = {b, t}
  BY Zenon DEF ZImageDeclared
<1> HIDE DEF r, u
<1>3. /\ LeastOf(r.reference) = 28 /\ GreatestOf(r.reference) = 50
      /\ LeastOf(u.reference) = 8 /\ GreatestOf(u.reference) = 8
  BY <1>1, Extremes, Extreme
<1>4. /\ b.id = "z_image.base" /\ b.recipes = {r}
      /\ b.grid = "flowmatch.reciprocal_step"
      /\ b.transforms = <<"flowmatch.direct_ratio">> \o <<"terminal.append_zero">>
  BY DeclaredFact, SMTT(30)
<1>5. /\ t.id = "z_image.turbo" /\ t.recipes = {u}
      /\ t.grid = "flowmatch.reciprocal_step"
      /\ t.transforms = <<"flowmatch.direct_ratio">> \o <<"terminal.append_zero">>
  BY DeclaredFact, SMTT(30)
<1> HIDE DEF b, t
<1>6. /\ b.id = "z_image.base" /\ b.recipes = {r}
      /\ Says(b, "flowmatch.reciprocal_step", <<"flowmatch.direct_ratio">>,
              "official", 28, 50, 28, 50)
      /\ t.id = "z_image.turbo" /\ t.recipes = {u}
      /\ Says(t, "flowmatch.reciprocal_step", <<"flowmatch.direct_ratio">>,
              "official", 1, MaxSteps, 8, 8)
  BY <1>1, <1>3, <1>4, <1>5 DEF Says
<1> HIDE DEF b, t
<1>7. Unique(b) /\ Unique(t)
  BY <1>2, <1>6, Families, NamedIn DEF Unique, ZImageNames
<1> QED
  BY <1>1, <1>6, <1>7, SaysDeclares, FreeDeclares

LEMMA Flux1SchnellDeclares ==
  /\ Declares("flux1.schnell", "flowmatch.reciprocal_step", << >>, "official", 1, 4, 1, 4)
  /\ Modifiable("flux1.schnell")
<1> DEFINE r == Recipe("official", 1, 4, {1, 4}, TRUE)
           q == Declared("flux1.schnell", "flux1", "schnell", "flowmatch.reciprocal_step",
                         << >>, {r})
<1>1. /\ r.evidence = "official" /\ r.minimum = 1 /\ r.maximum = 4
      /\ r.reference = {1, 4} /\ r.modifiable
  BY DEF Recipe
<1>2. Flux1SchnellDeclared = {q}
  BY Zenon DEF Flux1SchnellDeclared
<1> HIDE DEF r
<1>3. LeastOf(r.reference) = 1 /\ GreatestOf(r.reference) = 4
  BY <1>1, Extremes
<1>4. /\ q.id = "flux1.schnell" /\ q.recipes = {r}
      /\ q.grid = "flowmatch.reciprocal_step"
      /\ q.transforms = << >> \o <<"terminal.append_zero">>
  BY DeclaredFact
<1> HIDE DEF q
<1>5. /\ q.id = "flux1.schnell" /\ q.recipes = {r}
      /\ Says(q, "flowmatch.reciprocal_step", << >>, "official", 1, 4, 1, 4)
  BY <1>1, <1>3, <1>4 DEF Says
<1> HIDE DEF q
<1>6. Unique(q)
  BY <1>2, <1>5, Families, NamedIn DEF Unique
<1> QED
  BY <1>1, <1>5, <1>6, SaysDeclares, FreeDeclares

LEMMA Qwen21DynamicDeclares ==
  /\ Declares("qwen_image21.diffusers-dynamic", "flowmatch.reciprocal_step",
              <<"qwen.exponential_mu", "qwen21.stretch_to_terminal">>,
              "framework_reference", 2, MaxSteps, 40, 40)
  /\ Modifiable("qwen_image21.diffusers-dynamic")
<1> DEFINE r == Recipe("framework_reference", 2, MaxSteps, {40}, TRUE)
           shifts == <<"qwen.exponential_mu", "qwen21.stretch_to_terminal">>
           q == Declared("qwen_image21.diffusers-dynamic", "qwen_image21", "v2_1",
                         "flowmatch.reciprocal_step", shifts, {r})
           v == Declared("qwen_image.comfy-native", "qwen_image", "original",
                         "comfy.simple.flux_table", <<"qwen.exponential_mu">>,
                         OneSource("framework_reference", 50))
           w == Declared("qwen_image21.comfy-native", "qwen_image21", "v2_1",
                         "comfy.simple.flux_table", <<"qwen.exponential_mu">>,
                         OneSource("framework_reference", 25))
<1>1. /\ r.evidence = "framework_reference" /\ r.minimum = 2 /\ r.maximum = MaxSteps
      /\ r.reference = {40} /\ r.modifiable
  BY DEF Recipe
<1>2. QwenNativeDeclared = {v, w, q}
  BY Zenon DEF QwenNativeDeclared
<1> HIDE DEF r
<1>3. LeastOf(r.reference) = 40 /\ GreatestOf(r.reference) = 40
  BY <1>1, Extreme
<1>4. /\ q.id = "qwen_image21.diffusers-dynamic" /\ q.recipes = {r}
      /\ q.grid = "flowmatch.reciprocal_step"
      /\ q.transforms = shifts \o <<"terminal.append_zero">>
  BY DEF Declared
<1> HIDE DEF q, shifts
<1>5. /\ q.id = "qwen_image21.diffusers-dynamic" /\ q.recipes = {r}
      /\ Says(q, "flowmatch.reciprocal_step", shifts,
              "framework_reference", 2, MaxSteps, 40, 40)
  BY <1>1, <1>3, <1>4 DEF Says
<1>6. v.id = "qwen_image.comfy-native" /\ w.id = "qwen_image21.comfy-native"
  BY DeclaredName
<1> HIDE DEF q, v, w
<1>7. Unique(q)
  BY <1>2, <1>5, <1>6, Families, NamedIn DEF Unique, QwenNativeNames
<1>8. /\ Declares("qwen_image21.diffusers-dynamic", "flowmatch.reciprocal_step", shifts,
                  "framework_reference", 2, MaxSteps, 40, 40)
      /\ Modifiable("qwen_image21.diffusers-dynamic")
  BY <1>1, <1>5, <1>7, SaysDeclares, FreeDeclares
<1> QED
  BY <1>8 DEF shifts

LEMMA AnimaDeclares ==
  ASSUME NEW v \in {"aesthetic", "base", "turbo"}, NEW lo, NEW hi,
         lo = IF v = "turbo" THEN 8 ELSE 30, hi = IF v = "turbo" THEN 12 ELSE 50
  PROVE  /\ Declares(AnimaIds[v], "flowmatch.reciprocal_step", <<"rational_shift.fixed">>,
                     "framework_reference", lo, hi, lo, hi)
         /\ Modifiable(AnimaIds[v])
<1> DEFINE r == Recipe("framework_reference", lo, hi, AnimaSteps[v], TRUE)
           q == Declared(AnimaIds[v], "anima", v, "flowmatch.reciprocal_step",
                         <<"rational_shift.fixed">>, {r})
<1>1. /\ r.evidence = "framework_reference" /\ r.minimum = lo /\ r.maximum = hi
      /\ r.reference = AnimaSteps[v] /\ r.modifiable
  BY DEF Recipe
<1>2. DOMAIN AnimaSteps = {"aesthetic", "base", "turbo"} /\ AnimaSteps[v] = {lo, hi}
      /\ lo \in Int /\ hi \in Int /\ lo <= hi
  BY DEF AnimaSteps
<1>3. LeastOf(AnimaSteps[v]) = lo /\ GreatestOf(AnimaSteps[v]) = hi
  BY <1>2, Extremes
<1>4. q \in AnimaDeclared
  BY <1>2, Zenon DEF AnimaDeclared
<1>5. ASSUME NEW p \in AnimaDeclared, p.id = AnimaIds[v] PROVE p = q
  <2>1. PICK x \in {"aesthetic", "base", "turbo"} : p = Declared(AnimaIds[x], "anima", x,
              "flowmatch.reciprocal_step", <<"rational_shift.fixed">>,
              {Recipe("framework_reference",
                      IF x = "turbo" THEN 8 ELSE 30, IF x = "turbo" THEN 12 ELSE 50,
                      AnimaSteps[x], TRUE)})
    BY <1>2, <1>5, Zenon DEF AnimaDeclared
  <2>2. p.id = AnimaIds[x]
    <3> DEFINE rs == {Recipe("framework_reference",
                      IF x = "turbo" THEN 8 ELSE 30, IF x = "turbo" THEN 12 ELSE 50,
                      AnimaSteps[x], TRUE)}
    <3>1. p = Declared(AnimaIds[x], "anima", x, "flowmatch.reciprocal_step",
                       <<"rational_shift.fixed">>, rs)
      BY <2>1, Zenon
    <3> HIDE DEF rs
    <3> QED
      BY ONLY <3>1, DeclaredName
  <2>3. x = v
    <3>1. AnimaIds[x] = AnimaIds[v]
      BY <1>5, <2>2, Zenon
    <3> QED
      BY ONLY <3>1, <2>1 DEF AnimaIds
  <2> QED
    BY <2>1, <2>3, Zenon
<1> HIDE DEF r
<1>6. q.id = AnimaIds[v] /\ q.recipes = {r}
      /\ Says(q, "flowmatch.reciprocal_step", <<"rational_shift.fixed">>,
              "framework_reference", lo, hi, lo, hi)
  BY <1>1, <1>3, OneRecipeSays
<1> HIDE DEF q
<1>7. AnimaIds[v] \in AnimaNames
  BY DEF AnimaIds, AnimaNames
<1>8. Unique(q)
  BY <1>4, <1>5, <1>6, <1>7, Families, NamedIn DEF Unique
<1> QED
  BY <1>1, <1>6, <1>8, SaysDeclares, FreeDeclares

(* The ids of the LTX profiles are told apart by generation and stage.     *)
LEMMA LTXIds ==
  /\ DOMAIN LTXDevSteps = {"ltxv", "ltx2", "ltx23"}
  /\ \A g \in {"ltxv", "ltx2", "ltx23"} : LTXDevIds[g] \in LTXNames
       /\ LTXDevSteps[g] \in 1 .. MaxSteps
  /\ \A g, h \in {"ltxv", "ltx2", "ltx23"} : LTXDevIds[g] = LTXDevIds[h] => g = h
  /\ \A g \in {"ltx2", "ltx23"}, x \in {"stage1", "stage2"} : LTXStageIds[g][x] \in LTXNames
  /\ \A g \in {"ltxv", "ltx2", "ltx23"}, h \in {"ltx2", "ltx23"},
        x \in {"stage1", "stage2"} :
        LTXDevIds[g] # LTXStageIds[h][x]
  /\ \A g, h \in {"ltx2", "ltx23"}, x, y \in {"stage1", "stage2"} :
        LTXStageIds[g][x] = LTXStageIds[h][y] => g = h /\ x = y
<1>1. DOMAIN LTXDevSteps = {"ltxv", "ltx2", "ltx23"}
  BY DEF LTXDevSteps
<1>2. \A g \in {"ltxv", "ltx2", "ltx23"} : LTXDevIds[g] \in LTXNames
  BY DEF LTXDevIds, LTXNames
<1>3. \A g \in {"ltxv", "ltx2", "ltx23"} : LTXDevSteps[g] \in 1 .. MaxSteps
  <2>1. /\ LTXDevSteps["ltxv"] = 20 /\ LTXDevSteps["ltx2"] = 40
        /\ LTXDevSteps["ltx23"] = 30
    BY DEF LTXDevSteps
  <2>2. 20 \in 1 .. MaxSteps /\ 40 \in 1 .. MaxSteps /\ 30 \in 1 .. MaxSteps
    BY DEF MaxSteps
  <2> QED
    BY <2>1, <2>2
<1>4. \A g, h \in {"ltxv", "ltx2", "ltx23"} : LTXDevIds[g] = LTXDevIds[h] => g = h
  BY DEF LTXDevIds
<1>5. \A g \in {"ltx2", "ltx23"}, x \in {"stage1", "stage2"} :
        LTXStageIds[g][x] \in LTXNames
  BY DEF LTXStageIds, LTXNames
<1>6. \A g \in {"ltxv", "ltx2", "ltx23"}, h \in {"ltx2", "ltx23"},
        x \in {"stage1", "stage2"} :
        LTXDevIds[g] # LTXStageIds[h][x]
  BY DEF LTXDevIds, LTXStageIds
<1>7. \A g, h \in {"ltx2", "ltx23"}, x, y \in {"stage1", "stage2"} :
        LTXStageIds[g][x] = LTXStageIds[h][y] => g = h /\ x = y
  BY DEF LTXStageIds
<1> QED
  BY <1>1, <1>2, <1>3, <1>4, <1>5, <1>6, <1>7

LEMMA LTXDevDeclares ==
  ASSUME NEW g \in {"ltxv", "ltx2", "ltx23"}
  PROVE  /\ Declares(LTXDevIds[g], "flowmatch.linear_endpoint",
                     <<"ltx.flow.exponential_token_shift", "ltx.terminal.stretch">>,
                     "official", 1, MaxSteps, LTXDevSteps[g], LTXDevSteps[g])
         /\ Modifiable(LTXDevIds[g])
<1>1. \A h : LTXDev(h).id = LTXDevIds[h]
  BY LTXDevFact
<1>2. \A h, x : LTXDistilled(h, x).id = LTXStageIds[h][x]
  BY LTXDistilledFact, Zenon
<1>3. \A p \in Builtin : p.id \in LTXNames => p \in LTXDeclared
  BY NamedIn
<1>4. LTXDev(g) \in LTXDeclared /\ LTXDeclared \subseteq Builtin
  BY LTXIds, Families DEF LTXDeclared
<1>5. ASSUME NEW p \in LTXDeclared, p.id = LTXDevIds[g] PROVE p = LTXDev(g)
  BY <1>1, <1>2, <1>5, LTXRow, LTXIds
<1>6. Unique(LTXDev(g))
  BY <1>1, <1>3, <1>4, <1>5, LTXIds DEF Unique
<1>7. LTXDevSteps[g] \in Nat
  BY LTXIds
<1> QED
  BY <1>6, <1>7, OneSourceDeclares DEF LTXDev

LEMMA LTXDistilledDeclares ==
  ASSUME NEW g \in {"ltx2", "ltx23"}, NEW stage \in {"stage1", "stage2"},
         NEW n \in Nat, n = Steps(LTXVector(stage))
  PROVE  Declares(LTXStageIds[g][stage], "flowmatch.linear_endpoint",
                  <<"ltx.distilled.preset">>, "official", n, n, n, n)
<1>1. \A h : LTXDev(h).id = LTXDevIds[h]
  BY LTXDevFact
<1>2. \A h, x : LTXDistilled(h, x).id = LTXStageIds[h][x]
  BY LTXDistilledFact, Zenon
<1>3. \A p \in Builtin : p.id \in LTXNames => p \in LTXDeclared
  BY NamedIn
<1>4. LTXDistilled(g, stage) \in LTXDeclared /\ LTXDeclared \subseteq Builtin
  BY LTXIds, Families DEF LTXDeclared
<1>5. ASSUME NEW p \in LTXDeclared, p.id = LTXStageIds[g][stage]
      PROVE  p = LTXDistilled(g, stage)
  BY <1>1, <1>2, <1>5, LTXRow, LTXIds
<1>6. Unique(LTXDistilled(g, stage))
  BY <1>2, <1>3, <1>4, <1>5, LTXIds DEF Unique
<1> DEFINE r == Recipe("official", n, n, {n}, FALSE)
<1>7. r.evidence = "official" /\ r.minimum = n /\ r.maximum = n /\ r.reference = {n}
  BY DEF Recipe
<1>8. /\ LTXDistilled(g, stage).grid = "flowmatch.linear_endpoint"
      /\ LTXDistilled(g, stage).transforms =
            <<"ltx.distilled.preset">> \o <<"terminal.append_zero">>
      /\ LTXDistilled(g, stage).recipes = {r}
  BY LTXDistilledFact, Zenon
<1> HIDE DEF r
<1>9. LeastOf(r.reference) = n /\ GreatestOf(r.reference) = n
  BY <1>7, Extreme
<1>10. Says(LTXDistilled(g, stage), "flowmatch.linear_endpoint", <<"ltx.distilled.preset">>,
            "official", n, n, n, n)
  BY <1>7, <1>8, <1>9 DEF Says
<1> QED
  BY <1>2, <1>6, <1>10, SaysDeclares

(* The profiles of the Wan table                                           *)
LEMMA WanDeclares ==
  ASSUME NEW d \in WanDefinitions
  PROVE  /\ d.exact =>
              Declares(d.id, "comfyui.simple_discrete_flow", <<"direct_ratio.shift">>,
                       d.evidence, d.steps, d.steps, d.steps, d.steps)
         /\ ~d.exact =>
              /\ Declares(d.id, "flowmatch.reciprocal_step", <<"direct_ratio.shift">>,
                          d.evidence, 1, MaxSteps, d.steps, d.steps)
              /\ Modifiable(d.id)
<1> DEFINE Row(e) == [Declared(e.id, "wan", e.id,
               IF e.exact THEN "comfyui.simple_discrete_flow"
               ELSE "flowmatch.reciprocal_step",
               <<"direct_ratio.shift">>,
               IF e.exact THEN {Recipe(e.evidence, e.steps, e.steps, {e.steps}, FALSE)}
               ELSE OneSource(e.evidence, e.steps))
        EXCEPT !.sampler = e.sampler]
<1>1. WanDeclared = {Row(e) : e \in WanDefinitions}
  BY Zenon DEF WanDeclared
<1>2. ASSUME NEW e \in WanDefinitions
      PROVE  /\ Row(e).id = e.id
             /\ Row(e).transforms = <<"direct_ratio.shift">> \o <<"terminal.append_zero">>
             /\ e.exact =>
                  /\ Row(e).grid = "comfyui.simple_discrete_flow"
                  /\ Row(e).recipes =
                        {Recipe(e.evidence, e.steps, e.steps, {e.steps}, FALSE)}
             /\ ~e.exact =>
                  /\ Row(e).grid = "flowmatch.reciprocal_step"
                  /\ Row(e).recipes = OneSource(e.evidence, e.steps)
  BY DEF Declared
<1> HIDE DEF Row
<1>3. ASSUME NEW e \in WanDefinitions, e.id = d.id
      PROVE  e.steps = d.steps /\ e.evidence = d.evidence /\ (e.exact <=> d.exact)
             /\ d.steps \in Nat
  BY <1>3, WanTable
<1>4. d.id \in WanNames
  BY WanTable DEF WanNames
<1>5. ASSUME NEW p \in Builtin, p.id = d.id
      PROVE  \E e \in WanDefinitions : e.id = d.id /\ p = Row(e)
  <2>1. p \in WanDeclared
    BY <1>4, <1>5, NamedIn
  <2> QED
    BY <1>1, <1>2, <1>5, <2>1, ZenonT(30)
<1>6. \E p \in Builtin : p.id = d.id
  BY <1>1, <1>2, Families
<1>7. CASE d.exact
  <2>1. ASSUME NEW p \in Builtin, p.id = d.id
        PROVE  Says(p, "comfyui.simple_discrete_flow", <<"direct_ratio.shift">>,
                    d.evidence, d.steps, d.steps, d.steps, d.steps)
    <3>1. PICK e \in WanDefinitions : e.id = d.id /\ p = Row(e)
      BY <1>5, <2>1
    <3>2. d.steps \in Nat /\ e.steps = d.steps /\ e.evidence = d.evidence /\ e.exact
      BY <1>3, <1>7, <3>1
    <3> DEFINE r == Recipe(e.evidence, e.steps, e.steps, {e.steps}, FALSE)
    <3>3. r.evidence = e.evidence /\ r.minimum = e.steps /\ r.maximum = e.steps
          /\ r.reference = {e.steps}
      BY DEF Recipe
    <3>4. p.recipes = {r}
      BY <1>2, <3>1, <3>2, Zenon
    <3> HIDE DEF r
    <3>5. p.grid = "comfyui.simple_discrete_flow"
          /\ p.transforms = <<"direct_ratio.shift">> \o <<"terminal.append_zero">>
      BY <1>2, <3>1, <3>2, Zenon
    <3>6. LeastOf(r.reference) = d.steps /\ GreatestOf(r.reference) = d.steps
      BY <3>2, <3>3, Extreme
    <3> QED
      BY <3>2, <3>3, <3>4, <3>5, <3>6 DEF Says
  <2> QED
    BY <1>6, <1>7, <2>1 DEF Declares
<1>8. CASE ~d.exact
  <2>1. ASSUME NEW p \in Builtin, p.id = d.id
        PROVE  /\ Says(p, "flowmatch.reciprocal_step", <<"direct_ratio.shift">>,
                       d.evidence, 1, MaxSteps, d.steps, d.steps)
               /\ \A r \in p.recipes : r.modifiable
    <3>1. PICK e \in WanDefinitions : e.id = d.id /\ p = Row(e)
      BY <1>5, <2>1
    <3>2. d.steps \in Nat /\ e.steps = d.steps /\ e.evidence = d.evidence /\ ~e.exact
      BY <1>3, <1>8, <3>1
    <3>3. p.grid = "flowmatch.reciprocal_step"
          /\ p.transforms = <<"direct_ratio.shift">> \o <<"terminal.append_zero">>
          /\ p.recipes = OneSource(d.evidence, d.steps)
      BY <1>2, <3>1, <3>2, Zenon
    <3>4. PICK r : /\ OneSource(d.evidence, d.steps) = {r}
                   /\ r.evidence = d.evidence /\ r.minimum = 1 /\ r.maximum = MaxSteps
                   /\ LeastOf(r.reference) = d.steps /\ GreatestOf(r.reference) = d.steps
                   /\ r.modifiable
      BY <3>2, OneSourceFact
    <3> QED
      BY <3>3, <3>4 DEF Says
  <2> QED
    BY <1>6, <1>8, <2>1 DEF Declares, Modifiable
<1> QED
  BY <1>7, <1>8

(* The Krea profiles, whose sampler is written in afterwards               *)
LEMMA Krea2TurboDeclares ==
  /\ Declares("krea2.turbo", "krea.reciprocal_step", <<"krea.exponential_mu">>,
              "official", 1, MaxSteps, 8, 8)
  /\ Modifiable("krea2.turbo")
<1> DEFINE r == Recipe("official", 1, MaxSteps, {8}, TRUE)
           q == [Declared("krea2.turbo", "krea2", "turbo", "krea.reciprocal_step",
                          <<"krea.exponential_mu">>, {r}) EXCEPT !.sampler = "comfy.euler"]
<1>1. /\ r.evidence = "official" /\ r.minimum = 1 /\ r.maximum = MaxSteps
      /\ r.reference = {8} /\ r.modifiable
  BY DEF Recipe
<1>2. Krea2TurboDeclared = {q}
  BY Zenon DEF Krea2TurboDeclared
<1> HIDE DEF r
<1>3. LeastOf(r.reference) = 8 /\ GreatestOf(r.reference) = 8
  BY <1>1, Extreme
<1>4. /\ q.id = "krea2.turbo" /\ q.recipes = {r}
      /\ q.grid = "krea.reciprocal_step"
      /\ q.transforms = <<"krea.exponential_mu">> \o <<"terminal.append_zero">>
  BY SampledFact
<1> HIDE DEF q
<1>5. Says(q, "krea.reciprocal_step", <<"krea.exponential_mu">>, "official",
           1, MaxSteps, 8, 8)
  BY <1>1, <1>3, <1>4 DEF Says
<1>6. Unique(q)
  BY <1>2, <1>4, Families, NamedIn DEF Unique
<1> QED
  BY <1>1, <1>4, <1>5, <1>6, SaysDeclares, FreeDeclares

LEMMA Krea2LoraDeclares ==
  /\ \E p \in Builtin : p.id = "krea2.raw-turbo-lora"
  /\ \A p \in Builtin : p.id = "krea2.raw-turbo-lora" =>
        /\ p.grid = "krea.reciprocal_step"
        /\ p.transforms = <<"krea.exponential_mu">> \o <<"terminal.append_zero">>
        /\ \E r \in p.recipes : r.modifiable
<1> DEFINE r == Recipe("experimental", 1, MaxSteps, {12}, TRUE)
           q == [Declared("krea2.raw-turbo-lora", "krea2", "raw_turbo_lora",
                          "krea.reciprocal_step", <<"krea.exponential_mu">>, {r})
                   EXCEPT !.sampler = "comfy.euler"]
<1>1. r.modifiable
  BY DEF Recipe
<1>2. Krea2LoraDeclared = {q}
  BY Zenon DEF Krea2LoraDeclared
<1> HIDE DEF r
<1>3. /\ q.id = "krea2.raw-turbo-lora" /\ q.recipes = {r}
      /\ q.grid = "krea.reciprocal_step"
      /\ q.transforms = <<"krea.exponential_mu">> \o <<"terminal.append_zero">>
  BY SampledFact
<1> HIDE DEF q
<1>4. Unique(q)
  BY <1>2, <1>3, Families, NamedIn DEF Unique
<1> QED
  BY <1>1, <1>3, <1>4 DEF Unique

LEMMA Krea2RawDeclares ==
  /\ \E p \in Builtin : p.id = "krea2.raw"
  /\ \A p \in Builtin : p.id = "krea2.raw" =>
        /\ p.grid = "krea.reciprocal_step"
        /\ p.transforms = <<"krea.exponential_mu">> \o <<"terminal.append_zero">>
        /\ \E r \in p.recipes :
              /\ r.evidence = "framework_reference" /\ r.minimum = 28 /\ r.maximum = 28
              /\ LeastOf(r.reference) = 28 /\ GreatestOf(r.reference) = 28
        /\ \E r \in p.recipes :
              /\ r.evidence = "official" /\ r.minimum = 52 /\ r.maximum = 52
              /\ LeastOf(r.reference) = 52 /\ GreatestOf(r.reference) = 52
<1> DEFINE r == Recipe("framework_reference", 28, 28, {28}, FALSE)
           u == Recipe("official", 52, 52, {52}, FALSE)
           q == [Declared("krea2.raw", "krea2", "raw", "krea.reciprocal_step",
                          <<"krea.exponential_mu">>, {r, u})
                   EXCEPT !.sampler = "comfy.euler"]
<1>1. /\ r.evidence = "framework_reference" /\ r.minimum = 28 /\ r.maximum = 28
      /\ r.reference = {28}
      /\ u.evidence = "official" /\ u.minimum = 52 /\ u.maximum = 52 /\ u.reference = {52}
  BY DEF Recipe
<1>2. Krea2RawDeclared = {q}
  BY Zenon DEF Krea2RawDeclared
<1> HIDE DEF r, u
<1>3. /\ LeastOf(r.reference) = 28 /\ GreatestOf(r.reference) = 28
      /\ LeastOf(u.reference) = 52 /\ GreatestOf(u.reference) = 52
  BY <1>1, Extreme
<1>4. /\ q.id = "krea2.raw" /\ q.recipes = {r, u}
      /\ q.grid = "krea.reciprocal_step"
      /\ q.transforms = <<"krea.exponential_mu">> \o <<"terminal.append_zero">>
  BY SampledFact
<1> HIDE DEF q
<1>5. Unique(q)
  BY <1>2, <1>4, Families, NamedIn DEF Unique
<1> QED
  BY <1>1, <1>3, <1>4, <1>5 DEF Unique

-----------------------------------------------------------------------------
(* What a node is handed by its builder: a whole schedule, told by the     *)
(* profile of its name and parted by that profile's boundary.              *)
Sound(s) == Whole(s) /\ Told(s) /\ Parted(s)

(* The profiles with a boundary; of the others nothing is parted.          *)
Bounded ==
    {"wan.22-t2v-a14b", "wan.22-i2v-a14b", "wan.22-t2v-a14b-diffusers",
     "wan.22-i2v-a14b-diffusers"}

LEMMA UnboundedParts ==
  ASSUME NEW s, s.profile \notin Bounded
  PROVE  Parted(s)
  BY WanBoundaries DEF Parted, Bounded

(* A schedule of a profile with one recipe                                 *)
LEMMA ToldByOne ==
  ASSUME NEW grid, NEW shifts, NEW evidence \in {"official", "framework_reference"},
         NEW minimum \in Nat, NEW maximum \in Nat, NEW lo \in Nat, NEW hi \in Nat,
         minimum <= lo, hi <= maximum, NEW s, s.steps \in Nat,
         Declares(s.profile, grid, shifts, evidence, minimum, maximum, lo, hi),
         s.grid = grid, s.transforms = shifts \o <<"terminal.append_zero">>,
         \/ s.evidence = evidence /\ ~s.warned /\ s.steps \in lo .. hi
         \/ /\ s.evidence = "modified" /\ Modifiable(s.profile)
            /\ s.steps \notin lo .. hi \/ s.profile \in LTXStretchable
  PROVE  Told(s)
<1>1. ASSUME NEW p \in Builtin, p.id = s.profile PROVE Vouches(p, s)
  <2>1. Says(p, grid, shifts, evidence, minimum, maximum, lo, hi)
    BY <1>1 DEF Declares
  <2>2. PICK r : /\ p.recipes = {r}
                 /\ r.evidence = evidence /\ r.minimum = minimum /\ r.maximum = maximum
                 /\ LeastOf(r.reference) = lo /\ GreatestOf(r.reference) = hi
    BY <2>1 DEF Says
  <2>3. s.grid = p.grid /\ s.transforms = p.transforms
    BY <2>1 DEF Says
  <2>4. CASE s.evidence = evidence /\ ~s.warned /\ s.steps \in lo .. hi
    BY <2>2, <2>3, <2>4, SMTT(30) DEF Vouches
  <2>5. CASE /\ s.evidence = "modified" /\ Modifiable(s.profile)
             /\ s.steps \notin lo .. hi \/ s.profile \in LTXStretchable
    <3>1. r.modifiable
      BY <1>1, <2>2, <2>5 DEF Modifiable
    <3> QED
      BY <2>2, <2>3, <2>5, <3>1 DEF Vouches
  <2> QED
    BY <2>4, <2>5
<1> QED
  BY <1>1 DEF Told, Declares

(* A schedule built as a profile with one recipe says                      *)
BuiltAs(s, id, grid, shifts, evidence, lo, hi) ==
    /\ Whole(s) /\ s.profile = id /\ s.grid = grid
    /\ s.transforms = shifts \o <<"terminal.append_zero">>
    /\ \/ s.evidence = evidence /\ ~s.warned /\ s.steps \in lo .. hi
       \/ /\ s.evidence = "modified" /\ Modifiable(id)
          /\ s.steps \notin lo .. hi \/ id \in LTXStretchable

(* A schedule built as a profile with one recipe is told by it.            *)
LEMMA BuiltIsTold ==
  ASSUME NEW id, NEW grid, NEW shifts,
         NEW evidence \in {"official", "framework_reference"},
         NEW minimum \in Nat, NEW maximum \in Nat, NEW lo \in Nat, NEW hi \in Nat,
         minimum <= lo, hi <= maximum,
         Declares(id, grid, shifts, evidence, minimum, maximum, lo, hi),
         NEW s, BuiltAs(s, id, grid, shifts, evidence, lo, hi)
  PROVE  Told(s)
<1>1. s.steps \in Nat
  BY DEF BuiltAs, Whole
<1> QED
  BY <1>1, ToldByOne DEF BuiltAs

(* A schedule built as a profile with one recipe is sound.                 *)
LEMMA BuiltIsSound ==
  ASSUME NEW id, id \notin Bounded, NEW grid, NEW shifts,
         NEW evidence \in {"official", "framework_reference"},
         NEW minimum \in Nat, NEW maximum \in Nat, NEW lo \in Nat, NEW hi \in Nat,
         minimum <= lo, hi <= maximum,
         Declares(id, grid, shifts, evidence, minimum, maximum, lo, hi),
         NEW s, BuiltAs(s, id, grid, shifts, evidence, lo, hi)
  PROVE  Sound(s)
<1>1. Told(s)
  BY BuiltIsTold
<1>2. Parted(s)
  BY UnboundedParts DEF BuiltAs
<1> QED
  BY <1>1, <1>2 DEF Sound, BuiltAs

(* What Built makes of its arguments                                       *)
BuiltOf(s, id, evidence, grid, shifts, steps, official) ==
         /\ s.profile = id /\ s.grid = grid /\ s.steps = steps /\ steps \in Nat /\ Whole(s)
         /\ s.transforms = shifts \o <<"terminal.append_zero">>
         /\ s.evidence = IF official THEN evidence ELSE "modified"
         /\ s.warned <=> ~official
LEMMA BuiltOfFact ==
  ASSUME NEW id, NEW evidence, NEW grid, NEW shifts, NEW steps, NEW official,
         NEW values, NEW s \in Built(id, evidence, grid, shifts, steps, official, values)
  PROVE  BuiltOf(s, id, evidence, grid, shifts, steps, official)
<1> DEFINE t == [profile |-> id, evidence |-> IF official THEN evidence ELSE "modified",
                 warned |-> ~official, grid |-> grid,
                 transforms |-> shifts \o <<"terminal.append_zero">>,
                 steps |-> steps, values |-> values, boundary |-> 0]
<1>1. s = t /\ steps \in 1 .. MaxSteps /\ ValidFor(values, steps, TRUE)
  BY DEF Built
<1>2. /\ t.profile = id /\ t.grid = grid /\ t.steps = steps /\ t.boundary = 0
      /\ t.values = values
      /\ t.transforms = shifts \o <<"terminal.append_zero">>
      /\ t.evidence = IF official THEN evidence ELSE "modified"
      /\ t.warned <=> ~official
  OBVIOUS
<1> HIDE DEF t
<1>3. steps \in 1 .. MaxSteps => steps \in Nat
  OBVIOUS
<1>4. steps \in Nat
  BY <1>1, <1>3, Zenon
<1> QED
  BY <1>1, <1>2, <1>4 DEF Whole, BuiltOf

(* The builders. Each makes sound schedules: the range of steps it takes   *)
(* for the published one is the range its profile declares, and so are     *)
(* its grid and its transforms.                                            *)
LEMMA AuraFlowSound ==
  ASSUME NEW n, NEW strict \in BOOLEAN, NEW s \in AuraFlowSchedule(n, strict)
  PROVE  Sound(s)
<1>1. BuiltOf(s, "auraflow.v0-2", "official", "flowmatch.reciprocal_step",
              <<"direct_ratio.shift">>, n, n = 50)
  BY BuiltOfFact, Zenon DEF AuraFlowSchedule, FixedRatio
<1>2. BuiltAs(s, "auraflow.v0-2", "flowmatch.reciprocal_step", <<"direct_ratio.shift">>,
              "official", 50, 50)
  BY <1>1, AuraFlowDeclares DEF BuiltAs, BuiltOf
<1>3. MaxSteps = 10000 /\ "auraflow.v0-2" \notin Bounded
  BY DEF MaxSteps, Bounded
<1> QED
  BY <1>2, <1>3, AuraFlowDeclares, BuiltIsSound

LEMMA Lumina2Sound ==
  ASSUME NEW n, NEW strict \in BOOLEAN, NEW s \in Lumina2Schedule(n, strict)
  PROVE  Sound(s)
<1>1. BuiltOf(s, "lumina2.v2", "official", "flowmatch.reciprocal_step",
              <<"direct_ratio.shift">>, n, n = 50)
  BY BuiltOfFact, Zenon DEF Lumina2Schedule, FixedRatio
<1>2. BuiltAs(s, "lumina2.v2", "flowmatch.reciprocal_step", <<"direct_ratio.shift">>,
              "official", 50, 50)
  BY <1>1, Lumina2Declares DEF BuiltAs, BuiltOf
<1>3. MaxSteps = 10000 /\ "lumina2.v2" \notin Bounded
  BY DEF MaxSteps, Bounded
<1> QED
  BY <1>2, <1>3, Lumina2Declares, BuiltIsSound

LEMMA HunyuanImage21Sound ==
  ASSUME NEW n, NEW strict \in BOOLEAN, NEW distilled \in BOOLEAN,
         NEW s \in HunyuanImage21Schedule(distilled, n, strict)
  PROVE  Sound(s)
<1>1. CASE distilled
  <2>1. BuiltOf(s, "hunyuanimage.2-1-distilled", "official", "flowmatch.reciprocal_step",
                <<"direct_ratio.shift">>, n, n = 8)
    BY <1>1, BuiltOfFact, Zenon DEF HunyuanImage21Schedule, FixedRatio
  <2>2. BuiltAs(s, "hunyuanimage.2-1-distilled", "flowmatch.reciprocal_step",
                <<"direct_ratio.shift">>,
                "official", 8, 8)
    BY <2>1, HunyuanImage21Declares DEF BuiltAs, BuiltOf
  <2>3. MaxSteps = 10000 /\ "hunyuanimage.2-1-distilled" \notin Bounded
    BY DEF MaxSteps, Bounded
  <2> QED
    BY <2>2, <2>3, HunyuanImage21Declares, BuiltIsSound
<1>2. CASE ~distilled
  <2>1. BuiltOf(s, "hunyuanimage.2-1", "official", "flowmatch.reciprocal_step",
                <<"direct_ratio.shift">>, n, n = 50)
    BY <1>2, BuiltOfFact, Zenon DEF HunyuanImage21Schedule, FixedRatio
  <2>2. BuiltAs(s, "hunyuanimage.2-1", "flowmatch.reciprocal_step",
                <<"direct_ratio.shift">>,
                "official", 50, 50)
    BY <2>1, HunyuanImage21Declares DEF BuiltAs, BuiltOf
  <2>3. MaxSteps = 10000 /\ "hunyuanimage.2-1" \notin Bounded
    BY DEF MaxSteps, Bounded
  <2> QED
    BY <2>2, <2>3, HunyuanImage21Declares, BuiltIsSound
<1> QED
  BY <1>1, <1>2

LEMMA SD3Sound ==
  ASSUME NEW n, NEW strict \in BOOLEAN, NEW publisher \in BOOLEAN,
         NEW s \in SD3Schedule(publisher, n, strict)
  PROVE  Sound(s)
<1>1. CASE publisher
  <2>1. BuiltOf(s, "sd3.publisher", "official", "flowmatch.reciprocal_step",
                <<"direct_ratio.shift">>, n, n = 50)
    BY <1>1, BuiltOfFact, Zenon DEF SD3Schedule, FixedRatio
  <2>2. BuiltAs(s, "sd3.publisher", "flowmatch.reciprocal_step", <<"direct_ratio.shift">>,
                "official", 50, 50)
    BY <2>1, SD3Declares DEF BuiltAs, BuiltOf
  <2>3. MaxSteps = 10000 /\ "sd3.publisher" \notin Bounded
    BY DEF MaxSteps, Bounded
  <2> QED
    BY <2>2, <2>3, SD3Declares, BuiltIsSound
<1>2. CASE ~publisher
  <2>1. BuiltOf(s, "sd3.framework", "framework_reference", "flowmatch.reciprocal_step",
                <<"direct_ratio.shift">>, n, n = 28)
    BY <1>2, BuiltOfFact, Zenon DEF SD3Schedule, FixedRatio
  <2>2. BuiltAs(s, "sd3.framework", "flowmatch.reciprocal_step", <<"direct_ratio.shift">>,
                "framework_reference", 28, 28)
    BY <2>1, SD3Declares DEF BuiltAs, BuiltOf
  <2>3. MaxSteps = 10000 /\ "sd3.framework" \notin Bounded
    BY DEF MaxSteps, Bounded
  <2> QED
    BY <2>2, <2>3, SD3Declares, BuiltIsSound
<1> QED
  BY <1>1, <1>2

LEMMA ZImageSound ==
  ASSUME NEW n, NEW strict \in BOOLEAN, NEW turbo \in BOOLEAN,
         NEW s \in ZImageSchedule(turbo, n, strict)
  PROVE  Sound(s)
<1>1. CASE turbo
  <2>1. BuiltOf(s, "z_image.turbo", "official", "flowmatch.reciprocal_step",
                <<"flowmatch.direct_ratio">>, n, n = 8)
    BY <1>1, BuiltOfFact, Zenon DEF ZImageSchedule, FixedRatio
  <2>2. BuiltAs(s, "z_image.turbo", "flowmatch.reciprocal_step",
                <<"flowmatch.direct_ratio">>,
                "official", 8, 8)
    BY <2>1, ZImageDeclares DEF BuiltAs, BuiltOf
  <2>3. MaxSteps = 10000 /\ "z_image.turbo" \notin Bounded
    BY DEF MaxSteps, Bounded
  <2> QED
    BY <2>2, <2>3, ZImageDeclares, BuiltIsSound
<1>2. CASE ~turbo
  <2>1. BuiltOf(s, "z_image.base", "official", "flowmatch.reciprocal_step",
                <<"flowmatch.direct_ratio">>, n, n \in 28 .. 50)
    BY <1>2, BuiltOfFact, Zenon DEF ZImageSchedule, FixedRatio
  <2>2. BuiltAs(s, "z_image.base", "flowmatch.reciprocal_step",
                <<"flowmatch.direct_ratio">>,
                "official", 28, 50)
    BY <2>1, ZImageDeclares DEF BuiltAs, BuiltOf
  <2>3. MaxSteps = 10000 /\ "z_image.base" \notin Bounded
    BY DEF MaxSteps, Bounded
  <2> QED
    BY <2>2, <2>3, ZImageDeclares, BuiltIsSound
<1> QED
  BY <1>1, <1>2

LEMMA Flux1SchnellSound ==
  ASSUME NEW n, NEW strict \in BOOLEAN, NEW s \in Flux1SchnellSchedule(n, strict)
  PROVE  Sound(s)
<1> DEFINE none == << >>
<1>1. BuiltOf(s, "flux1.schnell", "official", "flowmatch.reciprocal_step", none, n,
              n \in 1 .. 4)
  BY BuiltOfFact, Zenon DEF Flux1SchnellSchedule
<1>2. Declares("flux1.schnell", "flowmatch.reciprocal_step", none, "official", 1, 4, 1, 4)
      /\ Modifiable("flux1.schnell")
  BY Flux1SchnellDeclares
<1> HIDE DEF none
<1>3. BuiltAs(s, "flux1.schnell", "flowmatch.reciprocal_step", none, "official", 1, 4)
  BY <1>1, <1>2 DEF BuiltAs, BuiltOf
<1>4. "flux1.schnell" \notin Bounded
  BY DEF Bounded
<1> QED
  BY <1>2, <1>3, <1>4, BuiltIsSound

LEMMA Krea2TurboSound ==
  ASSUME NEW n, NEW s \in Krea2TurboSchedule(n)
  PROVE  Sound(s)
<1>1. BuiltOf(s, "krea2.turbo", "official", "krea.reciprocal_step",
              <<"krea.exponential_mu">>, n, n = 8)
  BY BuiltOfFact, Zenon DEF Krea2TurboSchedule, Krea2Shifted
<1>2. BuiltAs(s, "krea2.turbo", "krea.reciprocal_step", <<"krea.exponential_mu">>,
              "official", 8, 8)
  BY <1>1, Krea2TurboDeclares DEF BuiltAs, BuiltOf
<1>3. MaxSteps = 10000 /\ "krea2.turbo" \notin Bounded
  BY DEF MaxSteps, Bounded
<1> QED
  BY <1>2, <1>3, Krea2TurboDeclares, BuiltIsSound

LEMMA QwenImageSound ==
  ASSUME NEW n, NEW strict \in BOOLEAN, NEW tokens, NEW dynamic \in BOOLEAN,
         NEW s \in QwenImageSchedule(dynamic, n, tokens, strict)
  PROVE  Sound(s)
<1> DEFINE id == IF dynamic THEN "qwen_image.diffusers-dynamic"
                 ELSE "qwen_image.comfy-fixed"
           shift == IF dynamic THEN "diffusers.exponential_mu" ELSE "comfy.direct_ratio"
           values == IF dynamic
                     THEN MuShift(ReciprocalGrid(n), AffineMu(tokens, 256, 4096, 50, 115))
                     ELSE RatioShift(ReciprocalGrid(n), 115, 100)
           built == Built(id, "framework_reference", "flowmatch.reciprocal_step",
                          <<shift>>, n, n = 50, Append(values, 0))
           refused == dynamic # (tokens > 0) \/ (strict /\ n # 50)
<1>1. QwenImageSchedule(dynamic, n, tokens, strict) = IF refused THEN {} ELSE built
  BY Zenon DEF QwenImageSchedule
<1> HIDE DEF id, shift, values, refused
<1>2. s \in built
  <2> HIDE DEF built
  <2> QED
    BY <1>1, Zenon
<1>3. BuiltOf(s, id, "framework_reference", "flowmatch.reciprocal_step", <<shift>>, n,
              n = 50)
  BY <1>2, BuiltOfFact, Zenon
<1>4. /\ Declares(id, "flowmatch.reciprocal_step", <<shift>>, "framework_reference",
                  1, MaxSteps, 50, 50)
      /\ Modifiable(id)
  BY QwenImageDeclares DEF id, shift
<1>5. MaxSteps = 10000 /\ id \notin Bounded
  BY DEF MaxSteps, Bounded, id
<1>6. BuiltAs(s, id, "flowmatch.reciprocal_step", <<shift>>, "framework_reference", 50, 50)
  BY <1>3, <1>4 DEF BuiltAs, BuiltOf
<1> QED
  BY <1>4, <1>5, <1>6, BuiltIsSound

LEMMA QwenNativeSound ==
  ASSUME NEW n, NEW strict \in BOOLEAN, NEW tokens,
         NEW lane \in {"original", "native", "dynamic"},
         NEW s \in QwenNativeSchedule(lane, n, tokens, strict)
  PROVE  Sound(s)
<1> DEFINE k == QwenLaneSteps[lane]
           official == n = k
           shifts == <<"qwen.exponential_mu", "qwen21.stretch_to_terminal">>
           stretched == QwenStretched(MuShift(ReciprocalGrid(n),
                                              AffineMu(tokens, 256, 8192, 50, 90)))
           shifted == MuShift(SimpleGrid(n, 10000), IF lane = "original" THEN 115 ELSE 69)
           dynamic == Built("qwen_image21.diffusers-dynamic", "framework_reference",
                            "flowmatch.reciprocal_step", shifts, n, official,
                            Append(stretched, 0))
           id == IF lane = "original" THEN "qwen_image.comfy-native"
                 ELSE "qwen_image21.comfy-native"
           single == <<"qwen.exponential_mu">>
           table == Built(id, "framework_reference", "comfy.simple.flux_table", single, n,
                          official,
                          Append(shifted, 0))
<1>1. QwenNativeSchedule(lane, n, tokens, strict) =
        IF ~QwenNativeAccepts(lane, n, tokens, strict) THEN {}
        ELSE IF lane = "dynamic" THEN dynamic ELSE table
  BY DEF QwenNativeSchedule
<1>2. /\ lane = "dynamic" => s \in dynamic
      /\ lane # "dynamic" => s \in table
  <2> HIDE DEF dynamic, table
  <2> QED
    BY <1>1, Zenon
<1>3. /\ QwenLaneSteps["original"] = 50 /\ QwenLaneSteps["native"] = 25
      /\ QwenLaneSteps["dynamic"] = 40
  BY DEF QwenLaneSteps
<1> HIDE DEF k, official, stretched, shifted
<1>4. CASE lane = "dynamic"
  <2> HIDE DEF shifts
  <2>1. BuiltOf(s, "qwen_image21.diffusers-dynamic", "framework_reference",
                "flowmatch.reciprocal_step", shifts, n, official)
    <3>1. s \in dynamic
      <4> HIDE DEF dynamic
      <4> QED
        BY <1>2, <1>4
    <3> QED
      BY <3>1, BuiltOfFact, Zenon
  <2>2. k = 40
    BY <1>3, <1>4 DEF k
  <2>3. BuiltAs(s, "qwen_image21.diffusers-dynamic", "flowmatch.reciprocal_step", shifts,
                "framework_reference", 40, 40)
    BY <2>1, <2>2, Qwen21DynamicDeclares DEF BuiltAs, BuiltOf, official, shifts
  <2>4. MaxSteps = 10000 /\ "qwen_image21.diffusers-dynamic" \notin Bounded
    BY DEF MaxSteps, Bounded
  <2>5. Declares("qwen_image21.diffusers-dynamic", "flowmatch.reciprocal_step", shifts,
                 "framework_reference", 2, MaxSteps, 40, 40)
    BY Qwen21DynamicDeclares DEF shifts
  <2> QED
    BY <2>3, <2>4, <2>5, BuiltIsSound
<1>5. CASE lane # "dynamic"
  <2> HIDE DEF id, single
  <2>1. BuiltOf(s, id, "framework_reference", "comfy.simple.flux_table",
                single, n, official)
    <3>1. s \in table
      <4> HIDE DEF table
      <4> QED
        BY <1>2, <1>5
    <3> QED
      BY <3>1, BuiltOfFact, Zenon
  <2> DEFINE declared == /\ Declares(id, "comfy.simple.flux_table", single,
                                     "framework_reference", 1, MaxSteps, k, k)
                         /\ Modifiable(id) /\ k \in 1 .. 10000
  <2>2. declared
    <3>1. CASE lane = "original"
      <4>1. id = "qwen_image.comfy-native" /\ k = 50
        BY <1>3, <3>1 DEF id, k
      <4>2. 50 \in 1 .. 10000
        OBVIOUS
      <4> QED
        BY ONLY <4>1, <4>2, QwenNativeDeclares, SMTT(30) DEF single, declared
    <3>2. CASE lane = "native"
      <4>1. id = "qwen_image21.comfy-native" /\ k = 25
        BY <1>3, <3>2 DEF id, k
      <4>2. 25 \in 1 .. 10000
        OBVIOUS
      <4> QED
        BY ONLY <4>1, <4>2, QwenNativeDeclares, SMTT(30) DEF single, declared
    <3>3. lane = "original" \/ lane = "native"
      BY <1>5
    <3> HIDE DEF declared
    <3> QED
      BY ONLY <3>1, <3>2, <3>3
  <2>3. MaxSteps = 10000 /\ id \notin Bounded
    BY DEF MaxSteps, Bounded, id
  <2>4. BuiltAs(s, id, "comfy.simple.flux_table", single,
                "framework_reference", k, k)
    <3>1. /\ Modifiable(id) /\ k \in 1 .. 10000
          /\ official => n \in k .. k
          /\ ~official => n \notin k .. k
      BY <2>2 DEF official
    <3> HIDE DEF official, k
    <3>2. /\ Whole(s) /\ s.profile = id /\ s.grid = "comfy.simple.flux_table"
          /\ s.transforms = single \o <<"terminal.append_zero">>
      BY ONLY <2>1 DEF BuiltOf
    <3>3. /\ s.steps = n
          /\ s.evidence = IF official THEN "framework_reference" ELSE "modified"
          /\ s.warned <=> ~official
      BY ONLY <2>1 DEF BuiltOf
    <3>4. CASE official
      <4>1. s.evidence = "framework_reference" /\ ~s.warned /\ s.steps \in k .. k
        BY ONLY <3>1, <3>3, <3>4
      <4> QED
        BY ONLY <3>2, <4>1, Zenon DEF BuiltAs
    <3>5. CASE ~official
      <4>1. s.evidence = "modified" /\ Modifiable(id) /\ s.steps \notin k .. k
        BY ONLY <3>1, <3>3, <3>5
      <4> QED
        BY ONLY <3>2, <4>1, Zenon DEF BuiltAs
    <3> QED
      BY ONLY <3>4, <3>5
  <2> QED
    <3>1. 1 \in Nat /\ MaxSteps \in Nat /\ k \in Nat /\ 1 <= k /\ k <= MaxSteps
          /\ "framework_reference" \in {"official", "framework_reference"}
      BY <2>2, <2>3
    <3> QED
      <4>1. /\ Declares(id, "comfy.simple.flux_table", single,
                        "framework_reference", 1, MaxSteps, k, k)
            /\ id \notin Bounded
        BY <2>2, <2>3
      <4> QED
        BY ONLY <3>1, <4>1, <2>4, BuiltIsSound, SMTT(30)
<1> QED
  BY <1>4, <1>5

LEMMA AnimaSound ==
  ASSUME NEW n, NEW strict \in BOOLEAN, NEW v \in {"aesthetic", "base", "turbo"},
         NEW s \in AnimaSchedule(v, n, strict)
  PROVE  Sound(s)
<1> DEFINE lo == IF v = "turbo" THEN 8 ELSE 30
           hi == IF v = "turbo" THEN 12 ELSE 50
           official == IF v = "turbo" THEN n \in 8 .. 12 ELSE n \in 30 .. 50
           shifts == <<"rational_shift.fixed">>
           id == AnimaIds[v]
           built == Built(id, "framework_reference", "flowmatch.reciprocal_step", shifts, n,
                          official, Append(RatioShift(ReciprocalGrid(n), 3, 1), 0))
<1>1. AnimaSchedule(v, n, strict) = IF strict /\ ~official THEN {} ELSE built
  BY DEF AnimaSchedule, FixedRatio
<1>2. official <=> n \in lo .. hi
  OBVIOUS
<1>3. lo \in Nat /\ hi \in Nat
  OBVIOUS
<1>4. Declares(id, "flowmatch.reciprocal_step", shifts, "framework_reference", lo, hi, lo,
               hi)
      /\ Modifiable(id)
  BY AnimaDeclares
<1>5. id \notin Bounded
  BY DEF Bounded, AnimaIds
<1> HIDE DEF official, shifts, id, lo, hi
<1>6. s \in built
  <2> HIDE DEF built
  <2> QED
    BY <1>1, Zenon
<1>7. BuiltOf(s, id, "framework_reference", "flowmatch.reciprocal_step", shifts, n,
              official)
  BY <1>6, BuiltOfFact, Zenon
<1>8. BuiltAs(s, id, "flowmatch.reciprocal_step", shifts, "framework_reference", lo, hi)
  BY <1>2, <1>4, <1>7 DEF BuiltAs, BuiltOf
<1>9. lo <= lo /\ hi <= hi
  BY <1>3
<1>10. "framework_reference" \in {"official", "framework_reference"}
  OBVIOUS
<1> HIDE DEF built
<1> QED
  BY ONLY <1>3, <1>4, <1>5, <1>8, <1>9, <1>10, BuiltIsSound, SMTT(30)

(* The raw profile has two recipes, each with one number of steps.         *)
LEMMA Krea2RawSound ==
  ASSUME NEW n, NEW tokens, NEW s \in Krea2RawSchedule(n, tokens)
  PROVE  Sound(s)
<1> DEFINE evidence == IF n = 28 THEN "framework_reference" ELSE "official"
           shifts == <<"krea.exponential_mu">>
           accepted == TRUE
           values == MuShift(ReciprocalGrid(n), Krea2RawMu(tokens))
           built == Built("krea2.raw", evidence, "krea.reciprocal_step", shifts, n,
                          accepted, Append(values, 0))
<1>1. Krea2RawSchedule(n, tokens) = IF n \notin {28, 52} THEN {} ELSE built
  BY Zenon DEF Krea2RawSchedule, Krea2Shifted
<1> HIDE DEF evidence, shifts, accepted, values
<1>2. n \in {28, 52} /\ s \in built
  <2> HIDE DEF built
  <2> QED
    BY <1>1, Zenon
<1>3. BuiltOf(s, "krea2.raw", evidence, "krea.reciprocal_step", shifts, n, accepted)
  BY <1>2, BuiltOfFact, Zenon
<1>4. /\ s.profile = "krea2.raw" /\ s.grid = "krea.reciprocal_step" /\ s.steps = n
      /\ s.transforms = <<"krea.exponential_mu">> \o <<"terminal.append_zero">>
      /\ s.evidence = (IF n = 28 THEN "framework_reference" ELSE "official")
      /\ ~s.warned /\ Whole(s)
  BY <1>3 DEF BuiltOf, evidence, shifts, accepted
<1>5. ASSUME NEW p \in Builtin, p.id = "krea2.raw" PROVE Vouches(p, s)
  <2>1. PICK r \in p.recipes :
           /\ r.evidence = "framework_reference" /\ r.minimum = 28 /\ r.maximum = 28
           /\ LeastOf(r.reference) = 28 /\ GreatestOf(r.reference) = 28
    BY <1>5, Krea2RawDeclares
  <2>2. PICK u \in p.recipes :
           /\ u.evidence = "official" /\ u.minimum = 52 /\ u.maximum = 52
           /\ LeastOf(u.reference) = 52 /\ GreatestOf(u.reference) = 52
    BY <1>5, Krea2RawDeclares
  <2>3. s.grid = p.grid /\ s.transforms = p.transforms
    BY <1>4, <1>5, Krea2RawDeclares
  <2>4. CASE n = 28
    BY <1>4, <2>1, <2>3, <2>4 DEF Vouches
  <2>5. CASE n = 52
    BY <1>4, <2>2, <2>3, <2>5 DEF Vouches
  <2> QED
    BY <1>2, <2>4, <2>5
<1>6. Told(s)
  BY <1>4, <1>5, Krea2RawDeclares DEF Told
<1>7. Parted(s)
  BY <1>4, UnboundedParts DEF Bounded
<1> QED
  BY <1>4, <1>6, <1>7 DEF Sound

(* A builder's record with one field changed                               *)
Alike(s, t) ==
    /\ s.profile = t.profile /\ s.evidence = t.evidence /\ s.grid = t.grid
    /\ s.transforms = t.transforms /\ s.steps = t.steps /\ s.values = t.values

(* A warning or a boundary written into a schedule afterwards leaves the   *)
(* rest of it alone.                                                       *)
LEMMA BuiltExceptWarned ==
  ASSUME NEW id, NEW evidence, NEW grid, NEW shifts, NEW steps, NEW official,
         NEW values, NEW s \in Built(id, evidence, grid, shifts, steps, official, values),
         NEW x, NEW t, t = [s EXCEPT !.warned = x]
  PROVE  Alike(t, s)
<1>1. s = [profile |-> id, evidence |-> IF official THEN evidence ELSE "modified",
           warned |-> ~official, grid |-> grid,
           transforms |-> shifts \o <<"terminal.append_zero">>,
           steps |-> steps, values |-> values, boundary |-> 0]
  BY DEF Built
<1> QED
  BY <1>1 DEF Alike

(* A schedule with the boundary written into it                            *)
WithBoundary(t, s, x) == Alike(t, s) /\ (t.warned <=> s.warned) /\ t.boundary = x

LEMMA BuiltExceptBoundary ==
  ASSUME NEW id, NEW evidence, NEW grid, NEW shifts, NEW steps, NEW official,
         NEW values, NEW s \in Built(id, evidence, grid, shifts, steps, official, values),
         NEW x, NEW t, t = [s EXCEPT !.boundary = x]
  PROVE  WithBoundary(t, s, x)
<1>1. s = [profile |-> id, evidence |-> IF official THEN evidence ELSE "modified",
           warned |-> ~official, grid |-> grid,
           transforms |-> shifts \o <<"terminal.append_zero">>,
           steps |-> steps, values |-> values, boundary |-> 0]
  BY DEF Built
<1> QED
  BY <1>1 DEF Alike, WithBoundary

(* Always experimental, so that no source is quoted; the profile allows    *)
(* every number of steps.                                                  *)
LEMMA Krea2LoraSound ==
  ASSUME NEW n, NEW tokens, NEW raw_mu \in BOOLEAN,
         NEW s \in Krea2LoraSchedule(n, tokens, raw_mu)
  PROVE  Sound(s)
<1> DEFINE shifts == <<"krea.exponential_mu">>
           accepted == TRUE
           values == MuShift(ReciprocalGrid(n), IF raw_mu THEN Krea2RawMu(tokens) ELSE 115)
           built == Built("krea2.raw-turbo-lora", "experimental", "krea.reciprocal_step",
                          shifts, n, accepted, Append(values, 0))
<1>1. Krea2LoraSchedule(n, tokens, raw_mu) = {[b EXCEPT !.warned = accepted] : b \in built}
  BY Zenon DEF Krea2LoraSchedule, Krea2Shifted
<1> HIDE DEF shifts, accepted, values
<1>2. PICK b \in built : s = [b EXCEPT !.warned = accepted]
  <2> HIDE DEF built
  <2> QED
    BY <1>1, Zenon
<1>3. BuiltOf(b, "krea2.raw-turbo-lora", "experimental", "krea.reciprocal_step", shifts, n,
              accepted)
  BY <1>2, BuiltOfFact, Zenon
<1>4. Alike(s, b)
  BY <1>2, BuiltExceptWarned, Zenon
<1>5. /\ s.profile = "krea2.raw-turbo-lora" /\ s.grid = "krea.reciprocal_step"
      /\ s.transforms = <<"krea.exponential_mu">> \o <<"terminal.append_zero">>
      /\ s.evidence = "experimental" /\ s.steps = b.steps /\ s.values = b.values
  BY <1>3, <1>4 DEF BuiltOf, Alike, shifts, accepted
<1>6. Whole(s)
  BY <1>3, <1>5 DEF BuiltOf, Whole
<1>7. ASSUME NEW p \in Builtin, p.id = "krea2.raw-turbo-lora" PROVE Vouches(p, s)
  BY <1>5, <1>7, Krea2LoraDeclares DEF Vouches
<1>8. Told(s)
  BY <1>5, <1>7, Krea2LoraDeclares DEF Told
<1>9. Parted(s)
  BY <1>5, UnboundedParts DEF Bounded
<1> QED
  BY <1>6, <1>8, <1>9 DEF Sound

(* The official steps stretched to another terminal are modified too.      *)
LEMMA LTXDevSound ==
  ASSUME NEW g \in {"ltxv", "ltx2", "ltx23"}, NEW n, NEW tokens, NEW terminal,
         NEW stretch \in BOOLEAN, NEW strict \in BOOLEAN,
         NEW s \in LTXDevSchedule(g, n, tokens, stretch, terminal, strict)
  PROVE  Sound(s)
<1> DEFINE k == LTXDevSteps[g]
           id == LTXDevIds[g]
           official == n = LTXDevSteps[g] /\ stretch /\ terminal = One \div 10
           shifts == <<"ltx.flow.exponential_token_shift", "ltx.terminal.stretch">>
           built == Built(id, "official", "flowmatch.linear_endpoint", shifts, n, official,
                          LTXAdaptive(n, tokens, stretch, terminal))
<1>1. LTXDevSchedule(g, n, tokens, stretch, terminal, strict) =
        IF strict /\ ~official THEN {} ELSE built
  BY Zenon DEF LTXDevSchedule
<1>2. official => n = k
  OBVIOUS
<1>3. /\ Declares(id, "flowmatch.linear_endpoint", shifts, "official", 1, MaxSteps, k, k)
      /\ Modifiable(id)
  BY LTXDevDeclares
<1>4. id \notin Bounded
  BY DEF Bounded, LTXDevIds
<1>5. id \in LTXStretchable
  BY LTXIds DEF LTXStretchable
<1>6. MaxSteps = 10000
  BY DEF MaxSteps
<1>7. k \in 1 .. MaxSteps
  BY LTXIds
<1> HIDE DEF k, id, official, shifts
<1>8. s \in built
  <2> HIDE DEF built
  <2> QED
    BY <1>1, Zenon
<1>9. BuiltOf(s, id, "official", "flowmatch.linear_endpoint", shifts, n, official)
  BY <1>8, BuiltOfFact, Zenon
<1> HIDE DEF built
<1>10. BuiltAs(s, id, "flowmatch.linear_endpoint", shifts, "official", k, k)
  BY <1>2, <1>3, <1>5, <1>7, <1>9 DEF BuiltAs, BuiltOf
<1>11. 1 \in Nat /\ MaxSteps \in Nat /\ k \in Nat /\ 1 <= k /\ k <= MaxSteps
       /\ "official" \in {"official", "framework_reference"}
  BY <1>6, <1>7
<1> QED
  BY ONLY <1>3, <1>4, <1>10, <1>11, BuiltIsSound, SMTT(30)

(* The length of the vector is the number of steps declared for it.        *)
LEMMA LTXDistilledSound ==
  ASSUME NEW g \in {"ltx2", "ltx23"}, NEW stage \in {"stage1", "stage2"}, NEW n,
         NEW s \in LTXDistilledSchedule(g, stage, n)
  PROVE  Sound(s)
<1> DEFINE id == LTXStageIds[g][stage]
           shifts == <<"ltx.distilled.preset">>
           accepted == TRUE
           values == LTXVector(stage)
           built == Built(id, "official", "flowmatch.linear_endpoint", shifts, n, accepted,
                          values)
<1>1. LTXDistilledSchedule(g, stage, n) = IF n # Steps(LTXVector(stage)) THEN {} ELSE built
  BY Zenon DEF LTXDistilledSchedule
<1>2. id \notin Bounded
  BY DEF Bounded, LTXStageIds
<1> HIDE DEF shifts, accepted, values
<1>3. s \in built /\ n = Steps(LTXVector(stage))
  <2> HIDE DEF built
  <2> QED
    BY <1>1, Zenon
<1>4. BuiltOf(s, id, "official", "flowmatch.linear_endpoint", shifts, n, accepted)
  BY <1>3, BuiltOfFact, Zenon
<1> HIDE DEF built
<1>5. n \in Nat /\ s.steps = n
  BY <1>4 DEF BuiltOf
<1>6. Declares(id, "flowmatch.linear_endpoint", shifts, "official", n, n, n, n)
  BY <1>3, <1>5, LTXDistilledDeclares DEF shifts
<1> HIDE DEF id
<1>7. BuiltAs(s, id, "flowmatch.linear_endpoint", shifts, "official", n, n)
  BY <1>4, <1>5 DEF BuiltAs, BuiltOf, accepted
<1>8. n <= n /\ "official" \in {"official", "framework_reference"}
  BY <1>5
<1> QED
  BY ONLY <1>2, <1>5, <1>6, <1>7, <1>8, BuiltIsSound, SMTT(30)

(* A row of the Wan table has its own boundary, and the step found for     *)
(* it parts the whole schedule.                                            *)
LEMMA WanSound ==
  ASSUME NEW d \in WanDefinitions, NEW n, NEW strict \in BOOLEAN,
         NEW s \in WanSchedule(d, n, strict)
  PROVE  Sound(s)
<1> DEFINE grid == IF d.exact THEN "comfyui.simple_discrete_flow"
                   ELSE "flowmatch.reciprocal_step"
           shifts == <<"direct_ratio.shift">>
           official == n = d.steps
           values == RatioShift(IF d.exact THEN SimpleGrid(n, 1000) ELSE ReciprocalGrid(n),
                                d.ratio, 1)
           refused == (strict \/ d.exact) /\ n # d.steps
           Step(b) == IF d.boundary = 0 THEN -1 ELSE WanBoundary(b.values, Boundary(d))
           built == Built(d.id, d.evidence, grid, shifts, n, official, Append(values, 0))
<1>1. WanSchedule(d, n, strict) =
        IF refused THEN {} ELSE {[b EXCEPT !.boundary = Step(b)] : b \in built}
  BY Zenon DEF WanSchedule
<1>2. d.exact /\ ~refused => official
  OBVIOUS
<1>3. official <=> n = d.steps
  OBVIOUS
<1> HIDE DEF grid, shifts, official, values, refused, Step
<1>4. ~refused /\ \E b \in built : s = [b EXCEPT !.boundary = Step(b)]
  <2> HIDE DEF built
  <2> QED
    BY <1>1, Zenon
<1>5. PICK b \in built : s = [b EXCEPT !.boundary = Step(b)]
  <2> HIDE DEF built
  <2> QED
    BY <1>4
<1>6. BuiltOf(b, d.id, d.evidence, grid, shifts, n, official)
  BY <1>5, BuiltOfFact, Zenon
<1>7. Alike(s, b) /\ (s.warned <=> b.warned) /\ s.boundary = Step(b)
  <2> DEFINE tail == Append(values, 0)  step == Step(b)  id == d.id  evidence == d.evidence
  <2>1. b \in Built(id, evidence, grid, shifts, n, official, tail)
    BY <1>5
  <2>2. s = [b EXCEPT !.boundary = step]
    BY <1>5
  <2> HIDE DEF tail, step, id, evidence
  <2>3. WithBoundary(s, b, step)
    BY ONLY <2>1, <2>2, BuiltExceptBoundary, Zenon
  <2> QED
    BY <2>3 DEF step, WithBoundary
<1> HIDE DEF built
<1>8. d.steps \in 1 .. MaxSteps /\ d.evidence \in {"official", "framework_reference"}
  <2>1. d.steps \in {6, 10, 20, 40, 50}
    BY WanTable
  <2>2. d.evidence \in {"official", "framework_reference"}
    BY WanTable
  <2>3. \A k \in {6, 10, 20, 40, 50} : k \in 1 .. MaxSteps
    BY DEF MaxSteps
  <2> QED
    BY <2>1, <2>2, <2>3, Zenon
<1>9. BuiltOf(s, d.id, d.evidence, grid, shifts, n, official)
  BY <1>6, <1>7 DEF BuiltOf, Alike, Whole
<1>10. Parted(s)
  <2> SUFFICES ASSUME NEW e \in WanDefinitions, e.id = s.profile, e.boundary # 0
               PROVE  /\ s.boundary \in Nat
                      /\ \A i \in DOMAIN s.values :
                            IF i <= s.boundary THEN s.values[i] > Boundary(e)
                            ELSE s.values[i] <= Boundary(e)
    BY DEF Parted
  <2>1. e.id = d.id
    BY <1>9 DEF BuiltOf
  <2>2. e.boundary = d.boundary
    BY <2>1, WanTable
  <2>3. s.boundary = WanBoundary(s.values, Boundary(e))
    BY <1>7, <2>2 DEF Step, Alike, Boundary
  <2>4. Boundary(e) \in Nat
    BY WanBoundaries, RoundingAssumption DEF Sigma
  <2>5. ValidFor(s.values, s.steps, TRUE)
    BY <1>9 DEF BuiltOf, Whole
  <2> DEFINE bound == Boundary(e)  v == s.values
  <2> HIDE DEF bound, v
  <2>6. /\ WanBoundary(v, bound) \in Nat
        /\ \A i \in DOMAIN v :
              IF i <= WanBoundary(v, bound) THEN v[i] > bound ELSE v[i] <= bound
    BY <2>4, <2>5, BoundaryParts DEF v, bound
  <2> QED
    BY <2>3, <2>6 DEF v, bound
<1>11. Told(s)
  <2>1. CASE d.exact
    <3>1. n = d.steps
      BY <1>2, <1>3, <1>4, <2>1
    <3>2. grid = "comfyui.simple_discrete_flow"
      BY <2>1 DEF grid
    <3>3. Declares(s.profile, grid, shifts, d.evidence, d.steps, d.steps, d.steps, d.steps)
      BY <1>9, <2>1, <3>2, WanDeclares DEF BuiltOf, shifts
    <3>4. /\ s.steps \in Nat /\ s.grid = grid
          /\ s.transforms = shifts \o <<"terminal.append_zero">>
          /\ s.evidence = d.evidence /\ ~s.warned /\ s.steps = d.steps
      <4>1. official
        BY <1>3, <3>1, Zenon
      <4> QED
        BY ONLY <1>9, <3>1, <4>1 DEF BuiltOf
    <3> DEFINE k == d.steps  evidence == d.evidence
    <3>5. k \in 1 .. MaxSteps
      BY <1>8, Zenon
    <3>6. evidence \in {"official", "framework_reference"}
      BY <1>8, Zenon
    <3> HIDE DEF k, evidence
    <3>7. k \in Nat /\ k <= k /\ k \in k .. k
      BY ONLY <3>5 DEF MaxSteps
    <3>8. /\ Declares(d.id, grid, shifts, evidence, k, k, k, k)
          /\ BuiltAs(s, d.id, grid, shifts, evidence, k, k)
      BY <1>9, <3>3, <3>4, <3>7 DEF k, evidence, BuiltAs, BuiltOf
    <3> QED
      BY ONLY <3>7, <3>8, <3>6, BuiltIsTold, Zenon
  <2>2. CASE ~d.exact
    <3>1. grid = "flowmatch.reciprocal_step"
      BY <2>2 DEF grid
    <3>2. /\ Declares(s.profile, grid, shifts, d.evidence, 1, MaxSteps, d.steps, d.steps)
          /\ Modifiable(s.profile)
      BY <1>9, <2>2, <3>1, WanDeclares DEF BuiltOf, shifts
    <3>3. /\ s.steps \in Nat /\ s.grid = grid
          /\ s.transforms = shifts \o <<"terminal.append_zero">>
          /\ \/ s.evidence = d.evidence /\ ~s.warned /\ s.steps = d.steps
             \/ s.evidence = "modified" /\ s.steps # d.steps
      <4>1. CASE official
        BY ONLY <1>3, <1>9, <4>1 DEF BuiltOf
      <4>2. CASE ~official
        BY ONLY <1>3, <1>9, <4>2 DEF BuiltOf
      <4> QED
        BY <4>1, <4>2, Zenon
    <3> DEFINE k == d.steps  evidence == d.evidence  least == 1
    <3>4. k \in 1 .. MaxSteps
      BY <1>8, Zenon
    <3>5. evidence \in {"official", "framework_reference"}
      BY <1>8, Zenon
    <3> HIDE DEF k, evidence, least
    <3>6. least \in Nat /\ MaxSteps \in Nat /\ k \in Nat /\ least <= k /\ k <= MaxSteps
          /\ \A x \in Nat : x \in k .. k <=> x = k
      BY ONLY <3>4 DEF MaxSteps, least
    <3>7. /\ Declares(d.id, grid, shifts, evidence, least, MaxSteps, k, k)
          /\ BuiltAs(s, d.id, grid, shifts, evidence, k, k)
      BY <1>9, <3>2, <3>3, <3>6 DEF k, evidence, least, BuiltAs, BuiltOf
    <3> QED
      BY ONLY <3>5, <3>6, <3>7, BuiltIsTold, Zenon
  <2> QED
    BY <2>1, <2>2
<1> QED
  BY <1>9, <1>10, <1>11 DEF Sound, BuiltOf

(* What holds of every profile of a name holds of the one that is found.   *)
LEMMA ToldIsTrue ==
  ASSUME NEW s, Told(s)
  PROVE  Vouches(ProfileOf(s.profile), s)
<1> DEFINE p == ProfileOf(s.profile)
<1>1. p \in Builtin /\ p.id = s.profile
  BY DEF Told, ProfileOf
<1> HIDE DEF p
<1>2. Vouches(p, s)
  BY <1>1 DEF Told
<1> QED
  BY <1>2 DEF p

(* A node whose builder makes sound schedules keeps both promises.         *)
LEMMA DeliverTells ==
  ASSUME NEW S, NEW w, Deliver(S, w), \A s \in S : Sound(s)
  PROVE  EvidenceFollowsReference' /\ BoundarySplitsDelivered'
<1>1. BoundarySplitsDelivered'
  BY DeliverParts DEF Sound
<1>2. PICK s \in S : \E a, v : delivered' = {[schedule |-> s, start |-> a, sigmas |-> v]}
  BY Zenon DEF Deliver
<1>3. PICK a, v : delivered' = {[schedule |-> s, start |-> a, sigmas |-> v]}
  BY <1>2
<1>4. \A made \in delivered' : made.schedule = s
  BY <1>3
<1>5. Vouches(ProfileOf(s.profile), s)
  BY ToldIsTrue DEF Sound
<1>6. \A made \in delivered' : Vouches(ProfileOf(made.schedule.profile), made.schedule)
  BY <1>4, <1>5, Zenon
<1>7. EvidenceFollowsReference'
  BY <1>6, Zenon DEF EvidenceFollowsReference, Vouches
<1> QED
  BY <1>1, <1>7

(* Every node of the package is such a node.                               *)
LEMMA NodeTells ==
  ASSUME ScheduleNext
  PROVE  EvidenceFollowsReference' /\ BoundarySplitsDelivered'
<1> DEFINE Kept == EvidenceFollowsReference' /\ BoundarySplitsDelivered'
<1> SUFFICES Kept
  OBVIOUS
<1> HIDE DEF Kept
<1>1. ASSUME NEW S, NEW w, Deliver(S, w), \A s \in S : Sound(s) PROVE Kept
  BY <1>1, DeliverTells DEF Kept
<1>2. CASE AuraFlowSigmaScheduler
  <2>1. PICK n \in StepWidgets, w \in SliceWidgets, strict \in BOOLEAN :
           Deliver(AuraFlowSchedule(n, strict), w)
    BY <1>2, Zenon DEF AuraFlowSigmaScheduler
  <2> QED
    BY <1>1, <2>1, AuraFlowSound, Zenon
<1>3. CASE Lumina2SigmaScheduler
  <2>1. PICK n \in StepWidgets, w \in SliceWidgets, strict \in BOOLEAN :
           Deliver(Lumina2Schedule(n, strict), w)
    BY <1>3, Zenon DEF Lumina2SigmaScheduler
  <2> QED
    BY <1>1, <2>1, Lumina2Sound, Zenon
<1>4. CASE AnimaSigmaScheduler
  <2>1. PICK n \in StepWidgets, w \in SliceWidgets, strict \in BOOLEAN,
             v \in DOMAIN AnimaSteps : Deliver(AnimaSchedule(v, n, strict), w)
    BY <1>4, Zenon DEF AnimaSigmaScheduler
  <2>2. v \in {"aesthetic", "base", "turbo"}
    BY DEF AnimaSteps
  <2> QED
    BY <1>1, <2>1, <2>2, AnimaSound, Zenon
<1>5. CASE HunyuanImage21SigmaScheduler
  <2>1. PICK n \in StepWidgets, w \in SliceWidgets, strict, distilled \in BOOLEAN :
           Deliver(HunyuanImage21Schedule(distilled, n, strict), w)
    BY <1>5, Zenon DEF HunyuanImage21SigmaScheduler
  <2> QED
    BY <1>1, <2>1, HunyuanImage21Sound, Zenon
<1>6. CASE SD3SigmaScheduler
  <2>1. PICK n \in StepWidgets, w \in SliceWidgets, strict, publisher \in BOOLEAN :
           Deliver(SD3Schedule(publisher, n, strict), w)
    BY <1>6, Zenon DEF SD3SigmaScheduler
  <2> QED
    BY <1>1, <2>1, SD3Sound, Zenon
<1>7. CASE ZImageSigmaScheduler
  <2>1. PICK n \in StepWidgets, w \in SliceWidgets, strict, turbo \in BOOLEAN :
           Deliver(ZImageSchedule(turbo, n, strict), w)
    BY <1>7, Zenon DEF ZImageSigmaScheduler
  <2> QED
    BY <1>1, <2>1, ZImageSound, Zenon
<1>8. CASE Flux1SchnellSigmaScheduler
  <2>1. PICK n \in StepWidgets, w \in SliceWidgets, strict \in BOOLEAN :
           Deliver(Flux1SchnellSchedule(n, strict), w)
    BY <1>8, Zenon DEF Flux1SchnellSigmaScheduler
  <2> QED
    BY <1>1, <2>1, Flux1SchnellSound, Zenon
<1>9. CASE Krea2SigmaScheduler
  <2>1. PICK n \in StepWidgets, w \in SliceWidgets, t \in TokenWidgets :
           \/ Deliver(Krea2TurboSchedule(n), w)
           \/ Deliver(Krea2RawSchedule(n, t), w)
           \/ \E raw_mu \in BOOLEAN : Deliver(Krea2LoraSchedule(n, t, raw_mu), w)
    BY <1>9, Zenon DEF Krea2SigmaScheduler
  <2> QED
    BY <1>1, <2>1, Krea2TurboSound, Krea2RawSound, Krea2LoraSound, Zenon
<1>10. CASE QwenImageSigmaScheduler
  <2>1. PICK n \in StepWidgets, w \in SliceWidgets, t \in TokenWidgets \cup {0},
             strict, dynamic \in BOOLEAN :
           \/ Deliver(QwenImageSchedule(dynamic, n, t, strict), w)
           \/ Deliver(QwenNativeSchedule("original", n, t, strict), w)
    BY <1>10, Zenon DEF QwenImageSigmaScheduler
  <2>2. "original" \in {"original", "native", "dynamic"}
    OBVIOUS
  <2> QED
    BY <1>1, <2>1, <2>2, QwenImageSound, QwenNativeSound, Zenon
<1>11. CASE QwenImage21SigmaScheduler
  <2>1. PICK n \in StepWidgets, w \in SliceWidgets, t \in TokenWidgets \cup {0},
             strict \in BOOLEAN, lane \in {"native", "dynamic"} :
           Deliver(QwenNativeSchedule(lane, n, t, strict), w)
    BY <1>11, Zenon DEF QwenImage21SigmaScheduler
  <2>2. lane \in {"original", "native", "dynamic"}
    OBVIOUS
  <2> QED
    BY <1>1, <2>1, <2>2, QwenNativeSound, Zenon
<1>12. CASE LTXSigmaScheduler
  <2>1. PICK n \in StepWidgets, w \in SliceWidgets :
           \/ \E g \in DOMAIN LTXDevSteps, t \in TokenWidgets, terminal \in TerminalWidgets,
                 stretch, strict \in BOOLEAN :
                 Deliver(LTXDevSchedule(g, n, t, stretch, terminal, strict), w)
           \/ \E g \in {"ltx2", "ltx23"}, stage \in {"stage1", "stage2"} :
                 Deliver(LTXDistilledSchedule(g, stage, n), w)
    BY <1>12, Zenon DEF LTXSigmaScheduler
  <2>2. DOMAIN LTXDevSteps = {"ltxv", "ltx2", "ltx23"}
    BY LTXIds
  <2> QED
    BY <1>1, <2>1, <2>2, LTXDevSound, LTXDistilledSound, Zenon
<1>13. CASE WanSigmaScheduler
  <2>1. PICK n \in StepWidgets, w \in SliceWidgets, strict \in BOOLEAN,
             d \in WanDefinitions : Deliver(WanSchedule(d, n, strict), w)
    BY <1>13, Zenon DEF WanSigmaScheduler
  <2> QED
    BY <1>1, <2>1, WanSound, Zenon
<1>14. CASE NewPrompt
  <2>1. delivered' = {}
    BY <1>14, Zenon DEF NewPrompt
  <2> QED
    BY <2>1, Zenon DEF Kept, EvidenceFollowsReference, BoundarySplitsDelivered
<1> QED
  BY <1>2, <1>3, <1>4, <1>5, <1>6, <1>7, <1>8, <1>9, <1>10, <1>11, <1>12, <1>13, <1>14, Zenon
     DEF ScheduleNext

(* Both promises hold of the output of every node, for every number of     *)
(* steps, slice, sequence length and terminal asked for.                   *)
LEMMA SchedulesStayTrue ==
  ScheduleSpec => [](EvidenceFollowsReference /\ BoundarySplitsDelivered)
<1>1. ScheduleInit => EvidenceFollowsReference /\ BoundarySplitsDelivered
  BY Zenon DEF ScheduleInit, EvidenceFollowsReference, BoundarySplitsDelivered
<1>2. EvidenceFollowsReference /\ BoundarySplitsDelivered /\ [ScheduleNext]_delivered
        => (EvidenceFollowsReference /\ BoundarySplitsDelivered)'
  <2>1. CASE ScheduleNext
    BY <2>1, NodeTells, Zenon
  <2>2. CASE UNCHANGED delivered
    BY <2>2, Zenon DEF EvidenceFollowsReference, BoundarySplitsDelivered
  <2> QED
    BY <2>1, <2>2, Zenon
<1> QED
  BY <1>1, <1>2, PTL DEF ScheduleSpec

(* A schedule that is not marked as modified has steps a declared source   *)
(* vouches for and carries the evidence of that source; grid and           *)
(* transforms are the declared ones. Except for Wan and native Qwen, which *)
(* share a table, the builders and the schemas in profiles/ hold these     *)
(* numbers apart.                                                          *)
THEOREM EvidenceAlwaysFollows == ScheduleSpec => []EvidenceFollowsReference
  BY SchedulesStayTrue, PTL

(* The sigmas a Wan node delivers before the boundary step it names lie    *)
(* above the boundary of the profile and the others do not, a slice        *)
(* included (derive_wan_boundary, build_wan_sigma_schedule).               *)
THEOREM BoundariesAlwaysSplit == ScheduleSpec => []BoundarySplitsDelivered
  BY SchedulesStayTrue, PTL

-----------------------------------------------------------------------------
(* What a profile declares is served.                                      *)

(* Dividends g divisors apart have quotients at least g apart.             *)
LEMMA DivisionGap ==
  ASSUME NEW d \in Nat \ {0}, NEW a \in Int, NEW b \in Int, NEW g \in Int, b + g * d <= a
  PROVE  (b \div d) + g <= a \div d
<1> DEFINE q == b \div d
<1>1. q \in Int /\ q * d <= b
  BY Quotient
<1> HIDE DEF q
<1>2. q + g \in Int /\ (q + g) * d = q * d + g * d /\ q * d \in Int /\ g * d \in Int
  BY <1>1
<1>3. (q + g) * d <= a
  BY <1>1, <1>2
<1> QED
  BY <1>2, <1>3, DivisionBounds DEF q

(* A dividend of at most k divisors has a quotient of at most k.           *)
LEMMA QuotientWithin ==
  ASSUME NEW d \in Nat \ {0}, NEW k \in Nat, NEW m \in Nat, m <= k * d
  PROVE  m \div d \in 0 .. k
<1>1. 0 * d <= m /\ m \in Int
  OBVIOUS
<1>2. m \div d \in Int /\ 0 <= m \div d
  BY <1>1, DivisionBounds, Quotient
<1>3. m \div d <= k
  BY <1>1, DivisionBounds
<1> QED
  BY <1>2, <1>3

(* The ratio shift of one value                                            *)
Ratioed(v, num, den) == (One * num * v) \div (den * (One - v) + num * v)

(* The shift stays on the scale and keeps its two ends.                    *)
LEMMA RatioedAt ==
  ASSUME NEW num \in Nat \ {0}, NEW den \in Nat \ {0}, NEW v \in Sigma
  PROVE  /\ den * (One - v) + num * v \in Nat \ {0}
         /\ Ratioed(v, num, den) \in Sigma
         /\ v \in {0, One} => Ratioed(v, num, den) = v
<1>0. One \in Nat \ {0} /\ v \in 0 .. One
  BY RoundingAssumption DEF Sigma
<1> DEFINE c == One - v
           a == den * c
           b == num * v
<1>1. c \in Nat /\ (c = 0 => v = One)
  BY <1>0
<1>2. a \in Nat /\ b \in Nat /\ (c # 0 => a # 0) /\ (v # 0 => b # 0)
  <2> HIDE DEF c
  <2> QED
    BY <1>0, <1>1
<1>3. a + b \in Nat \ {0}
  <2> HIDE DEF a, b, c
  <2> QED
    BY <1>0, <1>1, <1>2
<1>4. One * num * v = b * One /\ b * One \in Nat
  BY <1>0
<1>5. Ratioed(v, num, den) = (b * One) \div (a + b)
  BY <1>4 DEF Ratioed
<1>6. b * One <= One * (a + b) /\ 0 * (a + b) <= b * One
  <2> HIDE DEF a, b, c
  <2>1. b * One <= (a + b) * One
    BY <1>0, <1>2, <1>3, ProductOrder
  <2>2. (a + b) * One = One * (a + b)
    BY <1>0, <1>3
  <2>3. 0 * (a + b) = 0
    BY <1>3
  <2> QED
    BY <1>4, <2>1, <2>2, <2>3
<1>7. (b * One) \div (a + b) \in 0 .. One
  <2>1. One \in Nat
    BY <1>0
  <2> HIDE DEF a, b, c
  <2> QED
    BY <1>3, <1>4, <1>6, <2>1, QuotientWithin, Zenon
<1>8. v = 0 => (b * One) \div (a + b) = 0
  <2>1. SUFFICES ASSUME v = 0 PROVE b * One <= 0 * (a + b)
    <3> HIDE DEF a, b, c
    <3> QED
      BY <1>3, <1>4, <1>7, <2>1, DivisionBounds
  <2>2. b = 0
    BY <2>1
  <2> HIDE DEF a, b, c
  <2> QED
    BY <1>0, <1>3, <2>2
<1>9. v = One => One <= (b * One) \div (a + b)
  <2>1. SUFFICES ASSUME v = One PROVE One * (a + b) <= b * One
    <3> HIDE DEF a, b, c
    <3> QED
      BY <1>0, <1>3, <1>4, <2>1, DivisionBounds
  <2>2. a = 0
    BY <1>0, <2>1
  <2> HIDE DEF a, b, c
  <2> QED
    BY <1>0, <1>2, <2>2
<1>10. Ratioed(v, num, den) \in 0 .. One
  <2> HIDE DEF a, b, c
  <2> QED
    BY <1>5, <1>7
<1>11. v \in {0, One} => Ratioed(v, num, den) = v
  <2> HIDE DEF a, b, c
  <2> QED
    BY <1>0, <1>5, <1>7, <1>8, <1>9
<1> QED
  BY <1>3, <1>10, <1>11 DEF Sigma

(* The ratio shift keeps values apart that are far enough apart.           *)
LEMMA RatioFalls ==
  ASSUME NEW num \in Nat \ {0}, NEW den \in Nat \ {0}, NEW k \in Nat, NEW g \in Nat,
         g * num <= k * den, g * den <= k * num,
         NEW v \in Sigma, NEW w \in Sigma, w + k <= v
  PROVE  Ratioed(w, num, den) + g <= Ratioed(v, num, den)
<1> DEFINE e == v - w
           q == Ratioed(w, num, den)
           Den(u) == den * (One - u) + num * u
           c == Den(w)
           d == Den(v)
           y == One * num * w
           z == One * num * v
<1>0. One \in Nat \ {0} /\ v \in 0 .. One /\ w \in 0 .. One /\ e \in Nat /\ k <= e
  BY RoundingAssumption DEF Sigma
<1>1. c \in Nat \ {0} /\ d \in Nat \ {0} /\ q \in 0 .. One /\ y \in Int /\ z \in Int
  <2>1. c \in Nat \ {0} /\ d \in Nat \ {0} /\ q \in Sigma
    BY RatioedAt, Zenon
  <2>2. y \in Int /\ z \in Int
    BY <1>0
  <2> QED
    BY <2>1, <2>2 DEF Sigma
<1>2. q = y \div c /\ Ratioed(v, num, den) = z \div d
  BY DEF Ratioed
<1>3. q * c <= y
  <2> HIDE DEF q, c, y
  <2> QED
    BY <1>1, <1>2, Quotient
<1>4. z = y + (One * num) * e
  BY <1>0
<1>5. d = c + (num - den) * e
  BY <1>0
<1>6. (q + g) * d = q * c + (q * (num - den)) * e + g * d
  <2> HIDE DEF q, c, d, e
  <2>1. (q + g) * d = q * d + g * d
    BY <1>1
  <2>2. q * d = q * c + q * ((num - den) * e)
    BY <1>0, <1>1, <1>5
  <2>3. q * ((num - den) * e) = (q * (num - den)) * e
    BY <1>0, <1>1
  <2> QED
    BY <1>0, <1>1, <2>1, <2>2, <2>3
<1>7. (q * (num - den)) * e + g * d <= (One * num) * e
  <2>1. CASE den <= num
    <3>1. d <= num * One
      <4>1. den * (One - v) <= num * (One - v)
        <5> DEFINE f == One - v
        <5>1. f \in Nat
          BY <1>0
        <5> HIDE DEF f
        <5>2. den * f <= num * f
          BY <2>1, <5>1
        <5> QED
          BY <5>2 DEF f
      <4>2. num * (One - v) + num * v = num * One
        BY <1>0
      <4> QED
        BY <1>0, <4>1, <4>2
    <3> HIDE DEF q, c, d, e, y, z
    <3>2. g * d <= g * (num * One)
      BY <1>0, <1>1, <3>1
    <3>3. g * (num * One) = (g * num) * One /\ (k * den) * One = k * (den * One)
      BY <1>0
    <3>4. (g * num) * One <= (k * den) * One
      BY <1>0, ProductOrder
    <3>5. k * (den * One) <= e * (den * One)
      BY <1>0
    <3>6. q * (num - den) <= One * (num - den)
      BY <1>0, <1>1, <2>1
    <3>7. (q * (num - den)) * e <= (One * (num - den)) * e
      BY <1>0, <1>1, <3>6
    <3>8. (One * (num - den)) * e = (One * num) * e - e * (den * One)
      BY <1>0
    <3>9. /\ g * d \in Int /\ (q * (num - den)) * e \in Int /\ (One * num) * e \in Int
          /\ e * (den * One) \in Int /\ k * (den * One) \in Int /\ (g * num) * One \in Int
      BY <1>0, <1>1
    <3> QED
      BY ONLY <3>2, <3>3, <3>4, <3>5, <3>7, <3>8, <3>9
  <2>2. CASE num < den
    <3>1. d <= den * One
      <4>1. num * v <= den * v
        BY <1>0, <2>2
      <4>2. den * (One - v) + den * v = den * One
        BY <1>0
      <4> QED
        BY <1>0, <4>1, <4>2
    <3> HIDE DEF q, c, d, e, y, z
    <3>2. g * d <= g * (den * One)
      BY <1>0, <1>1, <3>1
    <3>3. g * (den * One) = (g * den) * One /\ (k * num) * One = k * (One * num)
      BY <1>0
    <3>4. (g * den) * One <= (k * num) * One
      BY <1>0, ProductOrder
    <3>5. k * (One * num) <= e * (One * num)
      BY <1>0
    <3>6. (q * (num - den)) * e <= 0
      <4>1. q * (num - den) <= 0
        BY <1>0, <1>1, <2>2
      <4>2. q * (num - den) \in Int
        BY <1>0, <1>1
      <4> QED
        BY <1>0, <4>1, <4>2
    <3>7. e * (One * num) = (One * num) * e
      BY <1>0
    <3>9. /\ g * d \in Int /\ (q * (num - den)) * e \in Int /\ (One * num) * e \in Int
          /\ k * (One * num) \in Int /\ (g * den) * One \in Int
      BY <1>0, <1>1
    <3> QED
      BY ONLY <3>2, <3>3, <3>4, <3>5, <3>6, <3>7, <3>9
  <2> QED
    BY <2>1, <2>2
<1>8. (q + g) * d <= z
  <2>1. /\ q * c \in Int /\ (q * (num - den)) * e \in Int /\ g * d \in Int
        /\ (One * num) * e \in Int
    BY <1>0, <1>1
  <2> HIDE DEF q, c, d, e, y, z
  <2> QED
    BY ONLY <1>1, <1>3, <1>4, <1>6, <1>7, <2>1
<1> HIDE DEF q, c, d, e, y, z
<1>9. q + g <= z \div d
  BY <1>0, <1>1, <1>8, DivisionBounds
<1> QED
  BY <1>2, <1>9 DEF q

-----------------------------------------------------------------------------
(* Grids that run down from One with gaps of k at least, the one to zero   *)
(* included                                                                *)
Spaced(x, n, k) ==
    /\ x = [i \in 1 .. n |-> x[i]] /\ \A i \in 1 .. n : x[i] \in Sigma
    /\ \A i \in 1 .. n - 1 : x[i + 1] + k <= x[i]
    /\ k <= x[n]

(* A shift of ratio k to g at most keeps g of the k units between          *)
(* two values (direct_ratio_shift).                                        *)
LEMMA RatioSpaced ==
  ASSUME NEW num \in Nat \ {0}, NEW den \in Nat \ {0}, NEW k \in Nat, NEW g \in Nat,
         g * num <= k * den, g * den <= k * num,
         NEW n \in Nat \ {0}, NEW x, Spaced(x, n, k)
  PROVE  Spaced(RatioShift(x, num, den), n, g)
<1> DEFINE y == RatioShift(x, num, den)
<1>1. DOMAIN x = 1 .. n /\ 1 .. n \subseteq DOMAIN x
  BY DEF Spaced
<1>2. y = [i \in 1 .. n |-> y[i]]
  BY <1>1 DEF RatioShift
<1>3. ASSUME NEW i \in 1 .. n PROVE y[i] = Ratioed(x[i], num, den) /\ y[i] \in Sigma
  <2>1. x[i] \in Sigma
    BY DEF Spaced
  <2>2. /\ Ratioed(x[i], num, den) \in Sigma
        /\ x[i] \in {0, One} => Ratioed(x[i], num, den) = x[i]
    BY <2>1, RatioedAt, Zenon
  <2>3. y[i] = IF x[i] \in {0, One} THEN x[i] ELSE Ratioed(x[i], num, den)
    BY <1>1 DEF RatioShift, Ratioed
  <2> HIDE DEF y
  <2> QED
    BY <2>2, <2>3
<1> HIDE DEF y
<1>4. ASSUME NEW i \in 1 .. n - 1 PROVE y[i + 1] + g <= y[i]
  <2>1. i \in 1 .. n /\ i + 1 \in 1 .. n
    OBVIOUS
  <2>2. x[i] \in Sigma /\ x[i + 1] \in Sigma /\ x[i + 1] + k <= x[i]
    BY <2>1 DEF Spaced
  <2>3. Ratioed(x[i + 1], num, den) + g <= Ratioed(x[i], num, den)
    BY <2>2, RatioFalls
  <2> QED
    BY <1>3, <2>1, <2>3
<1>5. g <= y[n]
  <2>1. n \in 1 .. n
    OBVIOUS
  <2>2. x[n] \in Sigma /\ 0 \in Sigma /\ 0 + k <= x[n]
    BY <2>1, RoundingAssumption DEF Spaced, Sigma
  <2>3. Ratioed(0, num, den) + g <= Ratioed(x[n], num, den)
    BY <2>2, RatioFalls
  <2>4. Ratioed(0, num, den) = 0
    BY <2>2, RatioedAt
  <2>5. y[n] = Ratioed(x[n], num, den)
    BY <1>3, <2>1
  <2> QED
    BY <2>3, <2>4, <2>5
<1>6. \A i \in 1 .. n : y[i] \in Sigma
  BY <1>3
<1> QED
  BY <1>2, <1>4, <1>5, <1>6 DEF Spaced, y

(* A spaced grid with its terminal is a schedule nobody refuses.           *)
LEMMA SpacedIsValid ==
  ASSUME NEW n \in Nat \ {0}, NEW k \in Nat \ {0}, NEW x, Spaced(x, n, k)
  PROVE  ValidFor(Append(x, 0), n, TRUE)
<1> DEFINE v == Append(x, 0)
<1>1. x \in Seq(Sigma) /\ Len(x) = n
  BY DEF Spaced
<1>2. 0 \in Sigma /\ \A i \in 1 .. n : x[i] \in Int
  BY RoundingAssumption DEF Spaced, Sigma
<1>3. /\ v \in Seq(Sigma) /\ Len(v) = n + 1 /\ v[n + 1] = 0
      /\ \A i \in 1 .. n : v[i] = x[i]
  BY <1>1, <1>2
<1> HIDE DEF v
<1>4. ASSUME NEW i \in 1 .. Len(v) - 1 PROVE v[i] > v[i + 1]
  <2>1. CASE i = n
    BY <1>2, <1>3, <2>1 DEF Spaced
  <2>2. CASE i # n
    <3>1. i \in 1 .. n - 1 /\ i + 1 \in 1 .. n /\ i \in 1 .. n
      BY <1>3, <2>2
    <3>2. x[i + 1] + k <= x[i] /\ x[i] \in Int /\ x[i + 1] \in Int
      BY <1>2, <3>1 DEF Spaced
    <3> QED
      BY <1>3, <3>1, <3>2
  <2> QED
    BY <2>1, <2>2
<1>5. ValidSchedule(v)
  BY <1>3, <1>4 DEF ValidSchedule
<1>6. Steps(v) = n /\ v[Len(v)] = 0
  BY <1>3 DEF Steps
<1> QED
  BY <1>5, <1>6 DEF ValidFor, v

(* The reciprocal grid of n steps is k units apart when                    *)
(* the unit holds n times k.                                               *)
LEMMA ReciprocalSpaced ==
  ASSUME NEW n \in Nat \ {0}, NEW k \in Nat, k * n <= One
  PROVE  Spaced(ReciprocalGrid(n), n, k)
<1> DEFINE x == ReciprocalGrid(n)
           y(i) == One * (n - i + 1)
<1>0. One \in Nat \ {0}
  BY RoundingAssumption
<1>1. x = [i \in 1 .. n |-> x[i]] /\ \A i \in 1 .. n : x[i] = y(i) \div n
  BY DEF ReciprocalGrid
<1>2. ASSUME NEW i \in 1 .. n
      PROVE  y(i) \in Nat /\ y(i) <= One * n /\ x[i] \in Sigma /\ One <= y(i)
  <2>1. n - i + 1 \in Nat /\ n - i + 1 <= n /\ 1 <= n - i + 1
    OBVIOUS
  <2>2. y(i) \in Nat /\ y(i) <= One * n /\ One <= y(i)
    <3> DEFINE c == n - i + 1
    <3> HIDE DEF c
    <3>1. c \in Nat /\ c <= n /\ 1 <= c
      BY <2>1 DEF c
    <3>2. One * c \in Nat /\ One * c <= One * n /\ One * 1 <= One * c
      BY <1>0, <3>1
    <3> QED
      BY <1>0, <3>2 DEF c
  <2>3. One \in Nat
    BY <1>0
  <2> HIDE DEF y
  <2>4. y(i) \div n \in 0 .. One
    BY <2>2, <2>3, QuotientWithin, Zenon
  <2> QED
    BY <1>1, <2>2, <2>4 DEF Sigma
<1>3. ASSUME NEW i \in 1 .. n - 1 PROVE x[i + 1] + k <= x[i]
  <2>1. i \in 1 .. n /\ i + 1 \in 1 .. n
    OBVIOUS
  <2>2. y(i) = y(i + 1) + One
    BY <1>0
  <2>3. y(i) \in Nat /\ y(i + 1) \in Nat /\ x[i] = y(i) \div n /\ x[i + 1] = y(i + 1) \div n
    BY <1>1, <1>2, <2>1
  <2> HIDE DEF x, y
  <2>4. y(i + 1) + k * n <= y(i)
    BY <1>0, <2>2, <2>3
  <2>5. (y(i + 1) \div n) + k <= y(i) \div n
    BY <2>3, <2>4, DivisionGap
  <2> QED
    BY <2>3, <2>5
<1>4. k <= x[n]
  <2>1. n \in 1 .. n /\ y(n) = One
    BY <1>0
  <2>2. x[n] = One \div n
    BY <1>1, <2>1
  <2>3. k <= One \div n
    BY <1>0, DivisionBounds
  <2> QED
    BY <2>2, <2>3
<1>5. \A i \in 1 .. n : x[i] \in Sigma
  BY <1>2
<1> HIDE DEF x
<1> QED
  BY <1>1, <1>3, <1>4, <1>5 DEF Spaced, x

(* So is the grid of a table with h entries to a step.                     *)
LEMMA SimpleSpaced ==
  ASSUME NEW n \in Nat \ {0}, NEW table \in Nat \ {0}, NEW h \in Nat, h * n <= table,
         NEW k \in Nat, k * table <= h * One
  PROVE  Spaced(SimpleGrid(n, table), n, k)
<1> DEFINE x == SimpleGrid(n, table)
           a(i) == ((i - 1) * table) \div n
           b(i) == table - a(i)
<1>0. One \in Nat \ {0} /\ h * n \in Nat
  BY RoundingAssumption
<1>1. x = [i \in 1 .. n |-> x[i]] /\ \A i \in 1 .. n : x[i] = (b(i) * One) \div table
  BY DEF SimpleGrid
<1>2. ASSUME NEW i \in 1 .. n + 1 PROVE a(i) \in 0 .. table
  <2> DEFINE c == i - 1
  <2>1. c \in 0 .. n
    OBVIOUS
  <2> HIDE DEF c
  <2>2. c * table \in Nat /\ c * table <= table * n /\ 0 * n <= c * table
    BY <2>1
  <2> DEFINE m == c * table
  <2>3. m \in Int /\ m <= table * n /\ 0 * n <= m
    BY <2>2
  <2> HIDE DEF m
  <2>4. m \div n \in 0 .. table
    BY <2>3, DivisionBounds, Quotient
  <2> QED
    BY <2>4 DEF c, m
<1>3. ASSUME NEW i \in 1 .. n PROVE a(i) + h <= a(i + 1)
  <2> DEFINE c == i - 1
  <2>1. c \in Nat /\ (i + 1) - 1 = c + 1
    OBVIOUS
  <2> HIDE DEF c
  <2>2. c * table \in Int /\ (c + 1) * table \in Int /\ c * table + h * n <= (c + 1) * table
    BY <1>0, <2>1
  <2>3. ((c * table) \div n) + h <= ((c + 1) * table) \div n
    BY <2>2, DivisionGap
  <2> QED
    BY <2>1, <2>3 DEF c
<1>4. a(n + 1) = table
  <2>1. table * n <= ((n + 1) - 1) * table
    OBVIOUS
  <2>2. ((n + 1) - 1) * table \in Int
    OBVIOUS
  <2>3. table <= a(n + 1)
    <3> DEFINE m == ((n + 1) - 1) * table
    <3> HIDE DEF m
    <3>1. table <= m \div n
      BY <2>1, <2>2, DivisionBounds DEF m
    <3> QED
      BY <3>1 DEF m
  <2>4. a(n + 1) \in 0 .. table
    BY <1>2
  <2> HIDE DEF a
  <2> QED
    BY <2>3, <2>4
<1> HIDE DEF a, x
<1>5. ASSUME NEW i \in 1 .. n + 1
      PROVE  b(i) * One \in Nat /\ (b(i) * One) \div table \in 0 .. One
  <2>1. b(i) \in 0 .. table
    BY <1>2
  <2> HIDE DEF b
  <2>2. b(i) * One \in Nat /\ b(i) * One <= One * table /\ One \in Nat
    BY <1>0, <2>1
  <2> QED
    BY <2>2, QuotientWithin, Zenon
<1>6. ASSUME NEW i \in 1 .. n
      PROVE  ((b(i + 1) * One) \div table) + k <= (b(i) * One) \div table
  <2>1. b(i + 1) + h <= b(i) /\ b(i) \in Nat /\ b(i + 1) \in Nat
    BY <1>2, <1>3
  <2> HIDE DEF b
  <2>2. b(i + 1) * One + h * One <= b(i) * One
    <3>1. (b(i + 1) + h) * One <= b(i) * One
      BY <1>0, <2>1, ProductOrder
    <3> QED
      BY <1>0, <2>1, <3>1
  <2>3. b(i + 1) * One \in Int /\ b(i) * One \in Int /\ h * One \in Int /\ k * table \in Int
    BY <1>0, <2>1
  <2>4. b(i + 1) * One + k * table <= b(i) * One
    BY <2>2, <2>3
  <2> QED
    BY <2>3, <2>4, DivisionGap
<1>7. \A i \in 1 .. n : x[i] \in Sigma
  BY <1>1, <1>5 DEF Sigma
<1>8. \A i \in 1 .. n - 1 : x[i + 1] + k <= x[i]
  <2> HIDE DEF b
  <2> QED
    BY <1>1, <1>6
<1>9. k <= x[n]
  <2>1. b(n + 1) * One = 0
    BY <1>0, <1>4
  <2>2. 0 \div table = 0
    BY DivisionBounds, Quotient
  <2> HIDE DEF b
  <2> QED
    BY <1>1, <1>6, <2>1, <2>2
<1> QED
  BY <1>1, <1>7, <1>8, <1>9 DEF Spaced, x

(* The linear grid runs to zero by itself: it is the spaced one, with the  *)
(* terminal.                                                               *)
LEMMA LinearSpaced ==
  ASSUME NEW n \in Nat \ {0}, NEW k \in Nat, k * n <= One
  PROVE  LET x == [i \in 1 .. n |-> LinearGrid(n + 1, One, 0)[i]]
         IN  LinearGrid(n + 1, One, 0) = Append(x, 0) /\ Spaced(x, n, k)
<1> DEFINE grid == LinearGrid(n + 1, One, 0)
           x == [i \in 1 .. n |-> grid[i]]
           y(i) == (0 - One) * (i - 1)
<1>0. One \in Nat \ {0} /\ (n + 1) - 1 = n
  BY RoundingAssumption
<1>1. /\ grid = [i \in 1 .. n + 1 |-> grid[i]] /\ grid[n + 1] = 0
      /\ \A i \in 1 .. n + 1 : grid[i] \in Sigma
  <2>1. grid = [i \in 1 .. n + 1 |-> grid[i]]
    BY DEF LinearGrid
  <2> QED
    BY <2>1, GridEnds, GridInRange
<1>2. ASSUME NEW i \in 1 .. n + 1
      PROVE  grid[i] = One + (y(i) \div n) /\ y(i) \in Int /\ y(i) \div n \in Int
  <2>1. grid[i] = One + (y(i) \div n)
    BY <1>0 DEF LinearGrid
  <2>2. y(i) \in Int
    BY <1>0
  <2> HIDE DEF grid, y
  <2> QED
    BY <2>1, <2>2, Quotient
<1>3. ASSUME NEW i \in 1 .. n PROVE grid[i + 1] + k <= grid[i]
  <2>1. i \in 1 .. n + 1 /\ i + 1 \in 1 .. n + 1
    OBVIOUS
  <2>2. y(i) = y(i + 1) + One
    BY <1>0
  <2>3. y(i + 1) + k * n <= y(i)
    <3> HIDE DEF y, grid
    <3>1. k * n \in Int /\ y(i + 1) \in Int
      BY <1>2, <2>1
    <3> QED
      BY <1>0, <2>2, <3>1
  <2> HIDE DEF grid, y
  <2>4. (y(i + 1) \div n) + k <= y(i) \div n
    BY <1>2, <2>1, <2>3, DivisionGap
  <2> QED
    BY <1>0, <1>2, <2>1, <2>4
<1> HIDE DEF grid
<1>4. x \in Seq(Sigma) /\ Len(x) = n /\ DOMAIN x = 1 .. n /\ \A i \in 1 .. n : x[i] = grid[i]
  <2>1. x = [i \in 1 .. n |-> x[i]] /\ \A i \in 1 .. n : x[i] = grid[i]
    OBVIOUS
  <2>2. \A i \in 1 .. n : grid[i] \in Sigma
    BY <1>1
  <2> HIDE DEF x
  <2> QED
    BY ONLY <2>1, <2>2
<1>5. grid = Append(x, 0)
  <2>1. grid \in Seq(Sigma) /\ Len(grid) = n + 1
    BY <1>1
  <2>2. 0 \in Sigma
    BY <1>0 DEF Sigma
  <2>3. Append(x, 0) \in Seq(Sigma) /\ Len(Append(x, 0)) = n + 1
        /\ Append(x, 0)[n + 1] = 0 /\ \A i \in 1 .. n : Append(x, 0)[i] = x[i]
    BY <1>4, <2>2
  <2>4. ASSUME NEW i \in 1 .. n + 1 PROVE grid[i] = Append(x, 0)[i]
    <3>1. CASE i = n + 1
      BY <1>1, <2>3, <3>1
    <3>2. CASE i \in 1 .. n
      BY <1>4, <2>3, <3>2
    <3> QED
      BY <3>1, <3>2
  <2> HIDE DEF x
  <2> QED
    BY <2>1, <2>3, <2>4
<1>6. Spaced(x, n, k)
  <2>1. x = [i \in 1 .. n |-> x[i]]
    OBVIOUS
  <2>2. \A i \in 1 .. n - 1 : x[i + 1] + k <= x[i]
    BY <1>3, <1>4
  <2>3. n \in 1 .. n /\ k <= x[n]
    <3>1. n \in 1 .. n /\ 0 + k <= grid[n]
      BY <1>1, <1>3
    <3> QED
      BY <1>4, <3>1
  <2>4. \A i \in 1 .. n : x[i] \in Sigma
    BY <1>1, <1>4
  <2> HIDE DEF x
  <2> QED
    BY <2>1, <2>2, <2>3, <2>4 DEF Spaced
<1> QED
  BY <1>5, <1>6 DEF grid

(* The shift leaves the terminal alone.                                    *)
LEMMA RatioOfTerminal ==
  ASSUME NEW n \in Nat \ {0}, NEW x, NEW k, Spaced(x, n, k), NEW num, NEW den
  PROVE  RatioShift(Append(x, 0), num, den) = Append(RatioShift(x, num, den), 0)
<1> DEFINE y == RatioShift(x, num, den)
           w == RatioShift(Append(x, 0), num, den)
<1>1. x \in Seq(Sigma) /\ Len(x) = n /\ DOMAIN x = 1 .. n
  BY DEF Spaced
<1>2. /\ DOMAIN Append(x, 0) = 1 .. n + 1 /\ Append(x, 0)[n + 1] = 0
      /\ \A i \in 1 .. n : Append(x, 0)[i] = x[i]
  BY <1>1
<1>3. w = [i \in 1 .. n + 1 |-> w[i]] /\ w[n + 1] = 0 /\ \A i \in 1 .. n : w[i] = y[i]
  <2> DEFINE z == Append(x, 0)
  <2>1. w = [i \in 1 .. n + 1 |-> w[i]]
    BY <1>2 DEF RatioShift
  <2>2. z[n + 1] = 0 /\ n + 1 \in DOMAIN z /\ \A i \in 1 .. n : z[i] = x[i] /\ i \in DOMAIN z
    BY <1>2
  <2> HIDE DEF z
  <2>3. RatioShift(z, num, den)[n + 1] = 0
    BY <2>2 DEF RatioShift
  <2>4. \A i \in 1 .. n : RatioShift(z, num, den)[i] = RatioShift(x, num, den)[i]
    BY <1>1, <2>2 DEF RatioShift
  <2> QED
    BY <2>1, <2>3, <2>4 DEF z
<1>4. y = [i \in 1 .. n |-> y[i]]
  BY <1>1 DEF RatioShift
<1> HIDE DEF w, y
<1>5. Append(y, 0) = [i \in 1 .. n + 1 |-> IF i = n + 1 THEN 0 ELSE y[i]]
  BY <1>4
<1>6. \A i \in 1 .. n + 1 : w[i] = IF i = n + 1 THEN 0 ELSE y[i]
  <2>1. \A i \in 1 .. n + 1 : i = n + 1 \/ (i # n + 1 /\ i \in 1 .. n)
    OBVIOUS
  <2> QED
    BY <1>3, <2>1, Zenon
<1> QED
  BY <1>3, <1>5, <1>6 DEF w, y

(* A stretched sigma                                                       *)
StretchedTo(v, last, terminal) == One - ((One - v) * (One - terminal)) \div (One - last)

(* Stretching keeps a grid apart whose values are two units apart.         *)
LEMMA StretchSpaced ==
  ASSUME NEW n \in Nat, n >= 2, NEW y, Spaced(y, n, 2), NEW t \in Nat \ {0}, 2 * t <= One,
         NEW z, z = [i \in 1 .. n |-> StretchedTo(y[i], y[n], t)]
  PROVE  y[n] \notin {0, One} /\ Spaced(z, n, 1)
<1> DEFINE last == One - y[n]
           total == One - t
           u(i) == One - y[i]
           q(i) == (u(i) * total) \div last
<1>0. One \in Nat \ {0} /\ total \in Nat /\ total <= One
  BY RoundingAssumption
<1>1. \A i \in 1 .. n : y[i] \in 0 .. One
  BY DEF Spaced, Sigma
<1>2. y[n] \notin {0, One} /\ y[n] \in 0 .. One
  <2>1. n \in 1 .. n /\ n - 1 \in 1 .. n - 1 /\ n - 1 \in 1 .. n /\ (n - 1) + 1 = n
    OBVIOUS
  <2>2. y[n] + 2 <= y[n - 1] /\ 2 <= y[n]
    BY <2>1 DEF Spaced
  <2> QED
    BY <1>0, <1>1, <2>1, <2>2
<1>3. last \in Nat \ {0} /\ last <= 2 * total
  BY <1>0, <1>2
<1>4. ASSUME NEW i \in 1 .. n PROVE u(i) \in 0 .. last
  <2> DEFINE v == Append(y, 0)
  <2>1. ValidSchedule(v)
    BY SpacedIsValid DEF ValidFor
  <2>2. y \in Seq(Sigma) /\ Len(y) = n
    BY DEF Spaced
  <2>3. v[i] = y[i] /\ v[n] = y[n] /\ DOMAIN v = 1 .. n + 1 /\ n \in 1 .. n
    BY <2>2
  <2> HIDE DEF v
  <2>4. v[n] <= v[i]
    BY <2>1, <2>3, ScheduleFalls
  <2> QED
    BY <1>0, <1>1, <1>2, <2>3, <2>4
<1>5. ASSUME NEW i \in 1 .. n PROVE q(i) \in 0 .. total
  <2>1. u(i) \in 0 .. last
    BY <1>4
  <2> HIDE DEF u, last, total
  <2> DEFINE m == u(i) * total
  <2>2. m \in Int /\ m <= total * last /\ 0 * last <= m
    BY <1>0, <1>3, <2>1
  <2> HIDE DEF m
  <2>3. m \div last \in Int /\ m \div last <= total /\ 0 <= m \div last
    BY <1>0, <1>3, <2>2, DivisionBounds, Quotient
  <2>4. m \div last \in 0 .. total
    BY <1>0, <2>3
  <2> QED
    BY <2>4 DEF m
<1>6. ASSUME NEW i \in 1 .. n - 1 PROVE q(i) + 1 <= q(i + 1)
  <2>1. i \in 1 .. n /\ i + 1 \in 1 .. n
    OBVIOUS
  <2>2. u(i) \in 0 .. last /\ u(i + 1) \in 0 .. last
    BY <1>4, <2>1
  <2>8. y[i + 1] + 2 <= y[i]
    BY DEF Spaced
  <2>7. y[i] \in Int /\ y[i + 1] \in Int /\ y[i + 1] + 2 <= y[i]
    BY <1>0, <1>1, <2>1, <2>8
  <2>3. u(i) + 2 <= u(i + 1)
    BY <1>0, <2>7
  <2> HIDE DEF u, last, total
  <2>4. (u(i) + 2) * total <= u(i + 1) * total
    BY <1>0, <1>3, <2>2, <2>3
  <2>5. u(i) * total + 1 * last <= u(i + 1) * total
    BY <1>0, <1>3, <2>2, <2>4
  <2>6. u(i) * total \in Int /\ u(i + 1) * total \in Int
    BY <1>0, <1>3, <2>2
  <2> DEFINE a == u(i + 1) * total
             b == u(i) * total
  <2>9. a \in Int /\ b \in Int /\ b + 1 * last <= a
    BY <2>5, <2>6
  <2> HIDE DEF a, b
  <2>10. (b \div last) + 1 <= a \div last
    BY <1>3, <2>9, DivisionGap
  <2> QED
    BY <2>10 DEF a, b
<1>7. q(n) = total
  <2>1. (total * last) \div last = total
    BY <1>0, <1>3, WholeDivision
  <2>2. u(n) = last /\ last * total = total * last
    BY <1>0, <1>3
  <2> HIDE DEF u, last, total
  <2> QED
    BY <2>1, <2>2
<1>8. \A i \in 1 .. n : z[i] = One - q(i)
  BY DEF StretchedTo
<1>9. z = [i \in 1 .. n |-> z[i]]
  OBVIOUS
<1> HIDE DEF q, u
<1>10. \A i \in 1 .. n : z[i] \in Sigma
  BY <1>0, <1>5, <1>8 DEF Sigma
<1>11. \A i \in 1 .. n - 1 : z[i + 1] + 1 <= z[i]
  <2> SUFFICES ASSUME NEW i \in 1 .. n - 1 PROVE z[i + 1] + 1 <= z[i]
    OBVIOUS
  <2>1. i \in 1 .. n /\ i + 1 \in 1 .. n
    OBVIOUS
  <2>2. q(i) \in Int /\ q(i + 1) \in Int /\ z[i] = One - q(i) /\ z[i + 1] = One - q(i + 1)
    BY <1>0, <1>5, <1>8, <2>1
  <2> QED
    BY <1>0, <1>6, <2>2
<1>12. 1 <= z[n]
  <2>1. n \in 1 .. n
    OBVIOUS
  <2> QED
    BY <1>0, <1>7, <1>8, <2>1
<1> QED
  BY <1>2, <1>9, <1>10, <1>11, <1>12 DEF Spaced

(* A straight line stays between its anchors.                              *)
LEMMA MuBetween ==
  ASSUME NEW base \in Nat, NEW last \in Nat, base < last, NEW low \in Nat, NEW high \in Nat,
         low <= high, NEW tokens \in base .. last
  PROVE  AffineMu(tokens, base, last, low, high) \in low .. high
<1> DEFINE d == last - base
           c == tokens - base
           y == (high - low) * c
<1>1. d \in Nat \ {0} /\ c \in 0 .. d /\ high - low \in Nat
  OBVIOUS
<1>2. AffineMu(tokens, base, last, low, high) = low + y \div d
  BY DEF AffineMu
<1>3. y \in Nat /\ y <= (high - low) * d /\ 0 * d <= y
  <2> HIDE DEF c, d
  <2> QED
    BY <1>1
<1> HIDE DEF c, d, y
<1>4. y \div d <= high - low /\ 0 <= y \div d /\ y \div d \in Int
  BY <1>1, <1>3, DivisionBounds, Quotient
<1> QED
  BY <1>2, <1>4

(* The schedules of S serve n steps of a recipe: one of them is of that    *)
(* profile, has n steps and is whole; with steps the recipe quotes a       *)
(* source for, it carries the evidence of the recipe.                      *)
Serves(S, id, evidence, reference, n) ==
    \E s \in S :
        /\ s.profile = id /\ s.steps = n /\ ValidFor(s.values, n, TRUE)
        /\ n \in reference => s.evidence = evidence

(* The unit is fine enough for n steps: a float has 2^53 of them.          *)
FineFor(n) == n \in 1 .. MaxSteps /\ 160 <= One /\ 16 * n <= One

(* A shift in this range keeps values that are 16 units apart distinct.    *)
Gentle(num, den) ==
    num \in Nat \ {0} /\ den \in Nat \ {0} /\ num <= 16 * den /\ den <= 16 * num

(* What a builder returns for a whole schedule serves the profile it names.*)
LEMMA BuiltServes ==
  ASSUME NEW id, NEW evidence, NEW grid, NEW shifts, NEW n \in 1 .. MaxSteps, NEW official,
         NEW values, ValidFor(values, n, TRUE), NEW reference, n \in reference => official
  PROVE  Serves(Built(id, evidence, grid, shifts, n, official, values),
                id, evidence, reference, n)
<1> DEFINE t == [profile |-> id, evidence |-> IF official THEN evidence ELSE "modified",
                 warned |-> ~official, grid |-> grid,
                 transforms |-> shifts \o <<"terminal.append_zero">>,
                 steps |-> n, values |-> values, boundary |-> 0]
<1>1. t \in Built(id, evidence, grid, shifts, n, official, values)
  BY Zenon DEF Built
<1>2. /\ t.profile = id /\ t.steps = n /\ t.values = values
      /\ t.evidence = IF official THEN evidence ELSE "modified"
  OBVIOUS
<1> HIDE DEF t
<1> QED
  BY <1>1, <1>2, Zenon DEF Serves

(* A gentle shift of the reciprocal grid is a schedule.                    *)
LEMMA ReciprocalServes ==
  ASSUME NEW n, FineFor(n), NEW num, NEW den, Gentle(num, den)
  PROVE  ValidFor(Append(RatioShift(ReciprocalGrid(n), num, den), 0), n, TRUE)
<1>1. n \in Nat \ {0} /\ 16 * n <= One
  BY DEF FineFor
<1>2. Spaced(ReciprocalGrid(n), n, 16)
  BY <1>1, ReciprocalSpaced
<1>3. num \in Nat \ {0} /\ den \in Nat \ {0} /\ 1 * num <= 16 * den /\ 1 * den <= 16 * num
  BY DEF Gentle
<1>4. Spaced(RatioShift(ReciprocalGrid(n), num, den), n, 1)
  BY <1>1, <1>2, <1>3, RatioSpaced
<1>5. 1 \in Nat \ {0}
  OBVIOUS
<1> QED
  BY <1>1, <1>4, <1>5, SpacedIsValid, Zenon

(* The mu of every profile is one of these, and its shift is gentle.       *)
MuRatio(mu) == 100 + mu + (mu * mu) \div 200

(* The shift of these mu is gentle, and keeps two of sixteen units.        *)
LEMMA GentleMu ==
  ASSUME NEW mu \in 50 .. 205
  PROVE  Gentle(MuRatio(mu), 100) /\ 2 * MuRatio(mu) <= 16 * 100 /\ 2 * 100 <= 16 * MuRatio(mu)
<1> DEFINE m == mu * mu
<1>1. m \in Int /\ 0 * 200 <= m /\ m <= 212 * 200
  <2>1. mu * mu <= 205 * mu /\ 205 * mu <= 205 * 205 /\ mu * mu \in Nat
    OBVIOUS
  <2> QED
    BY <2>1
<1> HIDE DEF m
<1>2. m \div 200 \in Int /\ 0 <= m \div 200 /\ m \div 200 <= 212
  BY <1>1, DivisionBounds, Quotient
<1>3. MuRatio(mu) \in 150 .. 517
  BY <1>2 DEF MuRatio, m
<1> QED
  BY <1>3 DEF Gentle

(* A mu shift is a ratio shift.                                            *)
LEMMA MuOf == \A x, mu : MuShift(x, mu) = RatioShift(x, MuRatio(mu), 100)
  BY Zenon DEF MuShift, MuRatio

(* n steps are asked of recipe r of profile p; a strict request asks for   *)
(* the steps of its source.                                                *)
Asks(p, r, n, strict) ==
    /\ r \in p.recipes /\ n \in r.minimum .. r.maximum /\ FineFor(n)
    /\ strict => n \in r.reference

ServesRecipe(S, p, r, n) == Serves(S, p.id, r.evidence, r.reference, n)

(* What a recipe with one source says                                      *)
LEMMA SourceOf ==
  ASSUME NEW evidence, NEW k, NEW r \in OneSource(evidence, k)
  PROVE  r.evidence = evidence /\ r.reference = {k}
<1> DEFINE source == {k}
<1>1. r = Recipe(evidence, 1, MaxSteps, source, TRUE)
  BY Zenon DEF OneSource
<1> HIDE DEF source
<1>2. r.evidence = evidence /\ r.reference = source
  BY <1>1 DEF Recipe
<1> QED
  BY <1>2 DEF source

(* p has this name, and its recipe quotes a source for these steps.        *)
Quotes(p, id, evidence, reference) ==
    /\ p.id = id
    /\ \A r \in p.recipes : r.evidence = evidence /\ r.reference = reference

(* The steps of the source are taken for published ones.                   *)
Accepts(official, n, reference) == n \in reference => official

(* A strict request is for steps of the source.                            *)
LEMMA StrictAsksSource ==
  ASSUME NEW evidence, NEW reference, NEW id, NEW p, Quotes(p, id, evidence, reference),
         NEW r, NEW n, NEW strict, Asks(p, r, n, strict)
  PROVE  strict => n \in reference
<1>1. r \in p.recipes /\ (strict => n \in r.reference)
  BY Zenon DEF Asks
<1>2. r.reference = reference
  BY <1>1, Zenon DEF Quotes
<1> QED
  BY <1>1, <1>2

(* A builder serves its profile when it takes the steps of the source for  *)
(* published ones and its values are a schedule.                           *)
LEMMA BuiltForRecipe ==
  ASSUME NEW evidence, NEW reference, NEW id, NEW p, Quotes(p, id, evidence, reference),
         NEW r, NEW n, NEW strict, Asks(p, r, n, strict),
         NEW official, Accepts(official, n, reference),
         NEW grid, NEW shifts, NEW values, ValidFor(values, n, TRUE)
  PROVE  ServesRecipe(Built(id, evidence, grid, shifts, n, official, values), p, r, n)
<1>1. r \in p.recipes /\ n \in 1 .. MaxSteps /\ (strict => n \in r.reference)
  BY Zenon DEF Asks, FineFor
<1>2. p.id = id /\ r.evidence = evidence /\ r.reference = reference
  BY <1>1, Zenon DEF Quotes
<1>3. n \in reference => official
  BY DEF Accepts
<1>4. Serves(Built(id, evidence, grid, shifts, n, official, values), id, evidence,
             reference, n)
  BY <1>1, <1>3, BuiltServes, Zenon
<1> QED
  BY <1>1, <1>2, <1>3, <1>4, Zenon DEF ServesRecipe

(* The same for the builders with one fixed ratio                          *)
LEMMA FixedForRecipe ==
  ASSUME NEW evidence, NEW reference, NEW id, NEW p, Quotes(p, id, evidence, reference),
         NEW r, NEW n, NEW strict, Asks(p, r, n, strict),
         NEW official, Accepts(official, n, reference),
         NEW shift, NEW num, NEW den, Gentle(num, den)
  PROVE  ServesRecipe(FixedRatio(id, evidence, shift, num, den, n, official, strict), p, r, n)
<1> DEFINE values == Append(RatioShift(ReciprocalGrid(n), num, den), 0)
           grid == "flowmatch.reciprocal_step"
           shifts == <<shift>>
<1>1. ValidFor(values, n, TRUE)
  BY ReciprocalServes, Zenon DEF Asks
<1>2. FixedRatio(id, evidence, shift, num, den, n, official, strict)
        = IF strict /\ ~official THEN {}
          ELSE Built(id, evidence, grid, shifts, n, official, values)
  BY Zenon DEF FixedRatio
<1> HIDE DEF values, grid, shifts
<1>3. ServesRecipe(Built(id, evidence, grid, shifts, n, official, values), p, r, n)
  BY <1>1, BuiltForRecipe, Zenon
<1>4. strict => n \in reference
  BY StrictAsksSource
<1>5. n \in reference => official
  BY DEF Accepts
<1> QED
  BY <1>2, <1>3, <1>4, <1>5, Zenon

(* The fixed ratios of the profiles are gentle.                            *)
LEMMA GentleRatios ==
  /\ Gentle(173, 100) /\ Gentle(115, 100) /\ \A k \in 1 .. 16 : Gentle(k, 1)
  BY DEF Gentle

(* AuraFlow (auraflow.py)                                                  *)
LEMMA AuraFlowServes ==
  ASSUME NEW p \in AuraFlowDeclared, NEW r, NEW n, NEW strict, Asks(p, r, n, strict)
  PROVE  ServesRecipe(AuraFlowSchedule(n, strict), p, r, n)
<1> DEFINE official == n = 50
           shifts == <<"direct_ratio.shift">>
           num == 173
           den == 100
<1>1. p = Declared("auraflow.v0-2", "auraflow", "v0-2", "flowmatch.reciprocal_step",
                   shifts, OneSource("official", 50))
  BY Zenon DEF AuraFlowDeclared
<1>5. Quotes(p, "auraflow.v0-2", "official", {50})
  <2> HIDE DEF official, shifts
  <2> QED
    BY <1>1, DeclaredFact, SourceOf DEF Quotes
<1>2. AuraFlowSchedule(n, strict) = FixedRatio(
           "auraflow.v0-2", "official", "direct_ratio.shift", num, den, n, official, strict)
  BY Zenon DEF AuraFlowSchedule
<1>3. Accepts(official, n, {50})
  BY DEF Accepts
<1>4. Gentle(num, den)
  BY GentleRatios
<1> HIDE DEF official, shifts, num, den
<1>6. ServesRecipe(FixedRatio(
           "auraflow.v0-2", "official", "direct_ratio.shift", num, den,
           n, official, strict), p, r, n)
  BY <1>3, <1>4, <1>5, FixedForRecipe, Zenon
<1> QED
  BY <1>2, <1>6, Zenon

(* Lumina Image 2 (lumina2.py)                                             *)
LEMMA Lumina2Serves ==
  ASSUME NEW p \in Lumina2Declared, NEW r, NEW n, NEW strict, Asks(p, r, n, strict)
  PROVE  ServesRecipe(Lumina2Schedule(n, strict), p, r, n)
<1> DEFINE official == n = 50
           shifts == <<"direct_ratio.shift">>
<1>1. p = Declared("lumina2.v2", "lumina2", "2-0", "flowmatch.reciprocal_step",
                   shifts, OneSource("official", 50))
  BY Zenon DEF Lumina2Declared
<1>5. Quotes(p, "lumina2.v2", "official", {50})
  <2> HIDE DEF official, shifts
  <2> QED
    BY <1>1, DeclaredFact, SourceOf DEF Quotes
<1>2. Lumina2Schedule(n, strict) = FixedRatio(
           "lumina2.v2", "official", "direct_ratio.shift", 6, 1, n, official, strict)
  BY Zenon DEF Lumina2Schedule
<1>3. Accepts(official, n, {50})
  BY DEF Accepts
<1>4. Gentle(6, 1)
  BY GentleRatios
<1> HIDE DEF official, shifts
<1>6. ServesRecipe(FixedRatio(
           "lumina2.v2", "official", "direct_ratio.shift", 6, 1,
           n, official, strict), p, r, n)
  BY <1>3, <1>4, <1>5, FixedForRecipe, Zenon
<1> QED
  BY <1>2, <1>6, Zenon

(* HunyuanImage 2.1: the base and the distilled profile                    *)
LEMMA HunyuanImage21Serves ==
  ASSUME NEW p \in HunyuanImage21Declared, NEW r, NEW n, NEW strict, Asks(p, r, n, strict)
  PROVE  \E distilled \in BOOLEAN :
            ServesRecipe(HunyuanImage21Schedule(distilled, n, strict), p, r, n)
<1> DEFINE shifts == <<"direct_ratio.shift">>
<1>1. CASE p = Declared("hunyuanimage.2-1", "hunyuanimage", "2-1",
                        "flowmatch.reciprocal_step", shifts,
                        OneSource("official", 50))
  <2> DEFINE official == n = 50
  <2>1. HunyuanImage21Schedule(FALSE, n, strict)
           = FixedRatio("hunyuanimage.2-1", "official", "direct_ratio.shift", 5, 1,
                        n, official, strict)
    BY Zenon DEF HunyuanImage21Schedule
  <2>2. Accepts(official, n, {50})
    BY DEF Accepts
  <2>3. Gentle(5, 1)
    BY GentleRatios
  <2> HIDE DEF official, shifts
  <2>5. Quotes(p, "hunyuanimage.2-1", "official", {50})
    BY <1>1, DeclaredFact, SourceOf DEF Quotes
  <2>6. ServesRecipe(FixedRatio("hunyuanimage.2-1", "official", "direct_ratio.shift", 5, 1,
                        n, official, strict), p, r, n)
    BY <2>2, <2>3, <2>5, FixedForRecipe, Zenon
  <2>4. ServesRecipe(HunyuanImage21Schedule(FALSE, n, strict), p, r, n)
    BY <2>1, <2>6, Zenon
  <2> QED
    BY <2>4, Zenon
<1>2. CASE p = Declared("hunyuanimage.2-1-distilled", "hunyuanimage", "2-1-distilled",
                        "flowmatch.reciprocal_step", shifts,
                        OneSource("official", 8))
  <2> DEFINE official == n = 8
  <2>1. HunyuanImage21Schedule(TRUE, n, strict)
           = FixedRatio("hunyuanimage.2-1-distilled", "official", "direct_ratio.shift", 4, 1,
                        n, official, strict)
    BY Zenon DEF HunyuanImage21Schedule
  <2>2. Accepts(official, n, {8})
    BY DEF Accepts
  <2>3. Gentle(4, 1)
    BY GentleRatios
  <2> HIDE DEF official, shifts
  <2>5. Quotes(p, "hunyuanimage.2-1-distilled", "official", {8})
    BY <1>2, DeclaredFact, SourceOf DEF Quotes
  <2>6. ServesRecipe(FixedRatio("hunyuanimage.2-1-distilled", "official",
                        "direct_ratio.shift", 4, 1, n, official, strict), p, r, n)
    BY <2>2, <2>3, <2>5, FixedForRecipe, Zenon
  <2>4. ServesRecipe(HunyuanImage21Schedule(TRUE, n, strict), p, r, n)
    BY <2>1, <2>6, Zenon
  <2> QED
    BY <2>4, Zenon
<1> QED
  BY <1>1, <1>2, Zenon DEF HunyuanImage21Declared

(* Stable Diffusion 3: the recipe of the publisher and the framework one   *)
LEMMA SD3Serves ==
  ASSUME NEW p \in SD3Declared, NEW r, NEW n, NEW strict, Asks(p, r, n, strict)
  PROVE  \E publisher \in BOOLEAN :
            ServesRecipe(SD3Schedule(publisher, n, strict), p, r, n)
<1> DEFINE shifts == <<"direct_ratio.shift">>
<1>1. CASE p = Declared("sd3.publisher", "sd3", "original",
                        "flowmatch.reciprocal_step", shifts,
                        OneSource("official", 50))
  <2> DEFINE official == n = 50
  <2>1. SD3Schedule(TRUE, n, strict)
           = FixedRatio("sd3.publisher", "official", "direct_ratio.shift", 1, 1,
                        n, official, strict)
    BY Zenon DEF SD3Schedule
  <2>2. Accepts(official, n, {50})
    BY DEF Accepts
  <2>3. Gentle(1, 1)
    BY GentleRatios
  <2> HIDE DEF official, shifts
  <2>5. Quotes(p, "sd3.publisher", "official", {50})
    BY <1>1, DeclaredFact, SourceOf DEF Quotes
  <2>6. ServesRecipe(FixedRatio("sd3.publisher", "official", "direct_ratio.shift", 1, 1,
                        n, official, strict), p, r, n)
    BY <2>2, <2>3, <2>5, FixedForRecipe, Zenon
  <2>4. ServesRecipe(SD3Schedule(TRUE, n, strict), p, r, n)
    BY <2>1, <2>6, Zenon
  <2> QED
    BY <2>4, Zenon
<1>2. CASE p = Declared("sd3.framework", "sd3", "original",
                        "flowmatch.reciprocal_step", shifts,
                        OneSource("framework_reference", 28))
  <2> DEFINE official == n = 28
  <2>1. SD3Schedule(FALSE, n, strict)
           = FixedRatio("sd3.framework", "framework_reference", "direct_ratio.shift", 3, 1,
                        n, official, strict)
    BY Zenon DEF SD3Schedule
  <2>2. Accepts(official, n, {28})
    BY DEF Accepts
  <2>3. Gentle(3, 1)
    BY GentleRatios
  <2> HIDE DEF official, shifts
  <2>5. Quotes(p, "sd3.framework", "framework_reference", {28})
    BY <1>2, DeclaredFact, SourceOf DEF Quotes
  <2>6. ServesRecipe(FixedRatio("sd3.framework", "framework_reference",
                        "direct_ratio.shift", 3, 1, n, official, strict), p, r, n)
    BY <2>2, <2>3, <2>5, FixedForRecipe, Zenon
  <2>4. ServesRecipe(SD3Schedule(FALSE, n, strict), p, r, n)
    BY <2>1, <2>6, Zenon
  <2> QED
    BY <2>4, Zenon
<1> QED
  BY <1>1, <1>2, Zenon DEF SD3Declared

(* A profile with one recipe quotes what the recipe says.                  *)
LEMMA QuotesOf ==
  ASSUME NEW id, NEW evidence, NEW minimum, NEW maximum, NEW reference, NEW modifiable,
         NEW p, p.id = id,
         p.recipes = {Recipe(evidence, minimum, maximum, reference, modifiable)}
  PROVE  Quotes(p, id, evidence, reference)
<1> SUFFICES ASSUME NEW r \in p.recipes
             PROVE  r.evidence = evidence /\ r.reference = reference
  BY DEF Quotes
<1>1. r = Recipe(evidence, minimum, maximum, reference, modifiable)
  BY Zenon
<1> QED
  BY <1>1 DEF Recipe

(* Anima: a recipe covers a range of steps and quotes its two ends.        *)
LEMMA AnimaServes ==
  ASSUME NEW p \in AnimaDeclared, NEW r, NEW n, NEW strict, Asks(p, r, n, strict)
  PROVE  \E v \in DOMAIN AnimaSteps : ServesRecipe(AnimaSchedule(v, n, strict), p, r, n)
<1>1. PICK v \in {"aesthetic", "base", "turbo"} :
         /\ p.id = AnimaIds[v]
         /\ p.recipes = {Recipe("framework_reference",
                           IF v = "turbo" THEN 8 ELSE 30, IF v = "turbo" THEN 12 ELSE 50,
                           AnimaSteps[v], TRUE)}
  BY AnimaRow, Zenon
<1> DEFINE official == IF v = "turbo" THEN n \in 8 .. 12 ELSE n \in 30 .. 50
           reference == AnimaSteps[v]
           id == AnimaIds[v]
           least == IF v = "turbo" THEN 8 ELSE 30
           most == IF v = "turbo" THEN 12 ELSE 50
           modifiable == TRUE
<1>2. AnimaSchedule(v, n, strict)
         = FixedRatio(id, "framework_reference", "rational_shift.fixed", 3, 1, n, official,
                      strict)
  BY Zenon DEF AnimaSchedule
<1>3. reference = IF v = "turbo" THEN {8, 12} ELSE {30, 50}
  BY DEF AnimaSteps
<1>4. Accepts(official, n, reference)
  BY <1>3 DEF Accepts
<1>5. Gentle(3, 1)
  BY GentleRatios
<1>6. p.id = id /\ p.recipes = {Recipe("framework_reference", least, most, reference,
                                       modifiable)}
  BY <1>1, Zenon
<1>7. v \in DOMAIN AnimaSteps
  BY DEF AnimaSteps
<1> HIDE DEF official, reference, id, least, most, modifiable
<1>8. Quotes(p, id, "framework_reference", reference)
  BY <1>6, QuotesOf, Zenon
<1>9. ServesRecipe(FixedRatio(id, "framework_reference", "rational_shift.fixed", 3, 1, n,
                              official, strict), p, r, n)
  BY <1>4, <1>5, <1>8, FixedForRecipe, Zenon
<1> QED
  BY <1>2, <1>7, <1>9, Zenon

(* Z-Image: the base and the turbo profile                                 *)
LEMMA ZImageServes ==
  ASSUME NEW p \in ZImageDeclared, NEW r, NEW n, NEW strict, Asks(p, r, n, strict)
  PROVE  \E turbo \in BOOLEAN : ServesRecipe(ZImageSchedule(turbo, n, strict), p, r, n)
<1> DEFINE shifts == <<"flowmatch.direct_ratio">>
           base == Recipe("official", 28, 50, {28, 50}, TRUE)
           turbo == Recipe("official", 1, MaxSteps, {8}, TRUE)
<1>0. Gentle(3, 1) /\ Gentle(6, 1)
  BY GentleRatios
<1>1. CASE p = Declared("z_image.base", "z_image", "base", "flowmatch.reciprocal_step",
                        shifts, {base})
  <2> DEFINE official == n \in 28 .. 50
  <2>1. ZImageSchedule(FALSE, n, strict)
           = FixedRatio("z_image.base", "official", "flowmatch.direct_ratio", 6, 1, n,
                        official, strict)
    BY Zenon DEF ZImageSchedule
  <2>2. Accepts(official, n, {28, 50})
    BY DEF Accepts
  <2>3. base.evidence = "official" /\ base.reference = {28, 50}
    BY DEF Recipe
  <2> HIDE DEF official, shifts, base
  <2>4. p.id = "z_image.base" /\ p.recipes = {base}
    BY <1>1, DeclaredFact
  <2>5. Quotes(p, "z_image.base", "official", {28, 50})
    BY <2>3, <2>4 DEF Quotes
  <2>6. ServesRecipe(FixedRatio("z_image.base", "official", "flowmatch.direct_ratio", 6, 1,
                                n, official, strict), p, r, n)
    BY <1>0, <2>2, <2>5, FixedForRecipe, Zenon
  <2> QED
    BY <2>1, <2>6, Zenon
<1>2. CASE p = Declared("z_image.turbo", "z_image", "turbo", "flowmatch.reciprocal_step",
                        shifts, {turbo})
  <2> DEFINE official == n = 8
  <2>1. ZImageSchedule(TRUE, n, strict)
           = FixedRatio("z_image.turbo", "official", "flowmatch.direct_ratio", 3, 1, n,
                        official, strict)
    BY Zenon DEF ZImageSchedule
  <2>2. Accepts(official, n, {8})
    BY DEF Accepts
  <2>3. turbo.evidence = "official" /\ turbo.reference = {8}
    BY DEF Recipe
  <2> HIDE DEF official, shifts, turbo
  <2>4. p.id = "z_image.turbo" /\ p.recipes = {turbo}
    BY <1>2, DeclaredFact
  <2>5. Quotes(p, "z_image.turbo", "official", {8})
    BY <2>3, <2>4 DEF Quotes
  <2>6. ServesRecipe(FixedRatio("z_image.turbo", "official", "flowmatch.direct_ratio", 3, 1,
                                n, official, strict), p, r, n)
    BY <1>0, <2>2, <2>5, FixedForRecipe, Zenon
  <2> QED
    BY <2>1, <2>6, Zenon
<1> QED
  BY <1>1, <1>2, Zenon DEF ZImageDeclared

(* The range of this profile is the range its builder takes for published  *)
(* steps, so that a strict request of it is never refused.                 *)
LEMMA Flux1SchnellServes ==
  ASSUME NEW p \in Flux1SchnellDeclared, NEW r, NEW n, NEW strict, Asks(p, r, n, strict)
  PROVE  ServesRecipe(Flux1SchnellSchedule(n, strict), p, r, n)
<1> DEFINE official == n \in 1 .. 4
           shifts == <<>>
           grid == "flowmatch.reciprocal_step"
           only == Recipe("official", 1, 4, {1, 4}, TRUE)
           values == Append(ReciprocalGrid(n), 0)
<1>1. p = Declared("flux1.schnell", "flux1", "schnell", grid, shifts, {only})
  BY Zenon DEF Flux1SchnellDeclared
<1>2. Flux1SchnellSchedule(n, strict)
         = IF strict /\ n \notin 1 .. 4 THEN {}
           ELSE Built("flux1.schnell", "official", grid, shifts, n, official, values)
  BY Zenon DEF Flux1SchnellSchedule
<1>3. Accepts(official, n, {1, 4})
  BY DEF Accepts
<1>4. only.evidence = "official" /\ only.reference = {1, 4}
  BY DEF Recipe
<1>5. n \in Nat \ {0} /\ 16 * n <= One
  BY DEF Asks, FineFor
<1>6. ValidFor(values, n, TRUE)
  <2>1. Spaced(ReciprocalGrid(n), n, 16) /\ 16 \in Nat \ {0}
    BY <1>5, ReciprocalSpaced
  <2> QED
    BY <1>5, <2>1, SpacedIsValid, Zenon
<1> HIDE DEF grid, shifts, only, values
<1>7. p.id = "flux1.schnell" /\ p.recipes = {only}
  BY <1>1, DeclaredFact
<1>8. Quotes(p, "flux1.schnell", "official", {1, 4})
  BY <1>4, <1>7 DEF Quotes
<1>9. strict => n \in {1, 4}
  <2> HIDE DEF official
  <2> QED
    BY <1>8, StrictAsksSource
<1>10. ~(strict /\ n \notin 1 .. 4)
  BY <1>9
<1> HIDE DEF official
<1>11. ServesRecipe(Built("flux1.schnell", "official", grid, shifts, n, official, values),
                    p, r, n)
  BY <1>3, <1>6, <1>8, BuiltForRecipe, Zenon
<1> QED
  BY <1>2, <1>10, <1>11, Zenon

(* A mu shift of the reciprocal grid is a schedule.                        *)
LEMMA MuServes ==
  ASSUME NEW n, FineFor(n), NEW mu \in 50 .. 205
  PROVE  ValidFor(Append(MuShift(ReciprocalGrid(n), mu), 0), n, TRUE)
<1>1. Gentle(MuRatio(mu), 100)
  BY GentleMu
<1> QED
  BY <1>1, MuOf, ReciprocalServes, Zenon

(* The sequence lengths every token shift is made for                      *)
Tokens == 1024 .. 4096

(* The token shifts stay between their anchors.                            *)
LEMMA TokenMus ==
  ASSUME NEW tokens \in Tokens
  PROVE  /\ Krea2RawMu(tokens) \in 50 .. 205
         /\ AffineMu(tokens, 256, 4096, 50, 115) \in 50 .. 205
         /\ AffineMu(tokens, 256, 8192, 50, 90) \in 50 .. 205
         /\ AffineMu(tokens, 1024, 4096, 95, 205) \in 50 .. 205
<1>1. AffineMu(tokens, 256, 6400, 50, 115) \in 50 .. 205
  <2> DEFINE base == 256  last == 6400  low == 50  high == 115
  <2>1. /\ base \in Nat /\ last \in Nat /\ base < last /\ low \in Nat /\ high \in Nat
        /\ low <= high /\ 50 <= low /\ high <= 205 /\ tokens \in base .. last
    BY DEF Tokens
  <2> HIDE DEF base, last, low, high
  <2>2. AffineMu(tokens, base, last, low, high) \in low .. high
    BY <2>1, MuBetween
  <2>3. AffineMu(tokens, base, last, low, high) \in 50 .. 205
    BY <2>1, <2>2
  <2> QED
    BY <2>3 DEF base, last, low, high
<1>2. AffineMu(tokens, 256, 4096, 50, 115) \in 50 .. 205
  <2> DEFINE base == 256  last == 4096  low == 50  high == 115
  <2>1. /\ base \in Nat /\ last \in Nat /\ base < last /\ low \in Nat /\ high \in Nat
        /\ low <= high /\ 50 <= low /\ high <= 205 /\ tokens \in base .. last
    BY DEF Tokens
  <2> HIDE DEF base, last, low, high
  <2>2. AffineMu(tokens, base, last, low, high) \in low .. high
    BY <2>1, MuBetween
  <2>3. AffineMu(tokens, base, last, low, high) \in 50 .. 205
    BY <2>1, <2>2
  <2> QED
    BY <2>3 DEF base, last, low, high
<1>3. AffineMu(tokens, 256, 8192, 50, 90) \in 50 .. 205
  <2> DEFINE base == 256  last == 8192  low == 50  high == 90
  <2>1. /\ base \in Nat /\ last \in Nat /\ base < last /\ low \in Nat /\ high \in Nat
        /\ low <= high /\ 50 <= low /\ high <= 205 /\ tokens \in base .. last
    BY DEF Tokens
  <2> HIDE DEF base, last, low, high
  <2>2. AffineMu(tokens, base, last, low, high) \in low .. high
    BY <2>1, MuBetween
  <2>3. AffineMu(tokens, base, last, low, high) \in 50 .. 205
    BY <2>1, <2>2
  <2> QED
    BY <2>3 DEF base, last, low, high
<1>4. AffineMu(tokens, 1024, 4096, 95, 205) \in 50 .. 205
  <2> DEFINE base == 1024  last == 4096  low == 95  high == 205
  <2>1. /\ base \in Nat /\ last \in Nat /\ base < last /\ low \in Nat /\ high \in Nat
        /\ low <= high /\ 50 <= low /\ high <= 205 /\ tokens \in base .. last
    BY DEF Tokens
  <2> HIDE DEF base, last, low, high
  <2>2. AffineMu(tokens, base, last, low, high) \in low .. high
    BY <2>1, MuBetween
  <2>3. AffineMu(tokens, base, last, low, high) \in 50 .. 205
    BY <2>1, <2>2
  <2> QED
    BY <2>3 DEF base, last, low, high
<1> QED
  BY <1>1, <1>2, <1>3, <1>4 DEF Krea2RawMu

(* Krea 2 turbo, whose builder has no strict control                       *)
LEMMA Krea2TurboServes ==
  ASSUME NEW p \in Krea2TurboDeclared, NEW r, NEW n, NEW strict, Asks(p, r, n, strict)
  PROVE  ServesRecipe(Krea2TurboSchedule(n), p, r, n)
<1> DEFINE official == n = 8
           shifts == <<"krea.exponential_mu">>
           grid == "krea.reciprocal_step"
           only == Recipe("official", 1, MaxSteps, {8}, TRUE)
           values == Append(MuShift(ReciprocalGrid(n), 115), 0)
<1>1. p = [Declared("krea2.turbo", "krea2", "turbo", grid, shifts, {only})
             EXCEPT !.sampler = "comfy.euler"]
  BY Zenon DEF Krea2TurboDeclared
<1>2. Krea2TurboSchedule(n)
         = Built("krea2.turbo", "official", grid, shifts, n, official, values)
  BY Zenon DEF Krea2TurboSchedule, Krea2Shifted
<1>3. Accepts(official, n, {8})
  BY DEF Accepts
<1>4. only.evidence = "official" /\ only.reference = {8}
  BY DEF Recipe
<1>5. FineFor(n)
  BY Zenon DEF Asks
<1>6. ValidFor(values, n, TRUE)
  <2>1. 115 \in 50 .. 205
    OBVIOUS
  <2> QED
    BY <1>5, <2>1, MuServes, Zenon
<1> HIDE DEF official, grid, shifts, only, values
<1>7. p.id = "krea2.turbo" /\ p.recipes = {only}
  BY <1>1, SampledFact
<1>8. Quotes(p, "krea2.turbo", "official", {8})
  BY <1>4, <1>7 DEF Quotes
<1>9. ServesRecipe(Built("krea2.turbo", "official", grid, shifts, n, official, values),
                   p, r, n)
  BY <1>3, <1>6, <1>8, BuiltForRecipe, Zenon
<1> QED
  BY <1>2, <1>9, Zenon

(* Each of the two recipes is selected by its number of steps.             *)
LEMMA Krea2RawServes ==
  ASSUME NEW p \in Krea2RawDeclared, NEW r, NEW n, NEW strict, Asks(p, r, n, strict),
         NEW tokens \in Tokens
  PROVE  ServesRecipe(Krea2RawSchedule(n, tokens), p, r, n)
<1> DEFINE official == TRUE
           shifts == <<"krea.exponential_mu">>
           grid == "krea.reciprocal_step"
           short == Recipe("framework_reference", 28, 28, {28}, FALSE)
           long == Recipe("official", 52, 52, {52}, FALSE)
           evidence == IF n = 28 THEN "framework_reference" ELSE "official"
           values == Append(MuShift(ReciprocalGrid(n), Krea2RawMu(tokens)), 0)
<1>1. p = [Declared("krea2.raw", "krea2", "raw", grid, shifts, {short, long})
             EXCEPT !.sampler = "comfy.euler"]
  BY Zenon DEF Krea2RawDeclared
<1>2. Krea2RawSchedule(n, tokens)
         = IF n \notin {28, 52} THEN {}
           ELSE Built("krea2.raw", evidence, grid, shifts, n, official, values)
  BY Zenon DEF Krea2RawSchedule, Krea2Shifted
<1>3. /\ short.evidence = "framework_reference" /\ short.reference = {28}
      /\ short.minimum = 28 /\ short.maximum = 28
      /\ long.evidence = "official" /\ long.reference = {52}
      /\ long.minimum = 52 /\ long.maximum = 52
  BY DEF Recipe
<1>4. FineFor(n) /\ n \in r.minimum .. r.maximum /\ r \in p.recipes
  BY Zenon DEF Asks
<1>5. ValidFor(values, n, TRUE)
  <2>1. Krea2RawMu(tokens) \in 50 .. 205
    BY TokenMus
  <2> QED
    BY <1>4, <2>1, MuServes, Zenon
<1> HIDE DEF grid, shifts, short, long, values
<1>6. p.id = "krea2.raw" /\ p.recipes = {short, long}
  BY <1>1, SampledFact
<1>7. n \in {28, 52} /\ r.evidence = evidence
  BY <1>3, <1>4, <1>6
<1>8. n \in r.reference => official
  OBVIOUS
<1>9. n \in 1 .. MaxSteps
  BY <1>4 DEF FineFor
<1> HIDE DEF evidence, official
<1>10. Serves(Built("krea2.raw", evidence, grid, shifts, n, official, values),
              "krea2.raw", evidence, r.reference, n)
  BY <1>5, <1>8, <1>9, BuiltServes, Zenon
<1> QED
  BY <1>2, <1>6, <1>7, <1>10, Zenon DEF ServesRecipe

(* The turbo LoRA over Krea 2 raw, always with a warning                   *)
LEMMA Krea2LoraServes ==
  ASSUME NEW p \in Krea2LoraDeclared, NEW r, NEW n, NEW strict, Asks(p, r, n, strict),
         NEW tokens \in Tokens, NEW raw_mu \in BOOLEAN
  PROVE  ServesRecipe(Krea2LoraSchedule(n, tokens, raw_mu), p, r, n)
<1> DEFINE official == TRUE
           warned == TRUE
           shifts == <<"krea.exponential_mu">>
           grid == "krea.reciprocal_step"
           only == Recipe("experimental", 1, MaxSteps, {12}, TRUE)
           mu == IF raw_mu THEN Krea2RawMu(tokens) ELSE 115
           values == Append(MuShift(ReciprocalGrid(n), mu), 0)
           built == Built("krea2.raw-turbo-lora", "experimental", grid, shifts, n, official,
                          values)
<1>1. p = [Declared("krea2.raw-turbo-lora", "krea2", "raw_turbo_lora", grid, shifts, {only})
             EXCEPT !.sampler = "comfy.euler"]
  BY Zenon DEF Krea2LoraDeclared
<1>2. Krea2LoraSchedule(n, tokens, raw_mu) = {[s EXCEPT !.warned = warned] : s \in built}
  BY Zenon DEF Krea2LoraSchedule, Krea2Shifted
<1>3. Accepts(official, n, {12})
  BY DEF Accepts
<1>4. only.evidence = "experimental" /\ only.reference = {12}
  BY DEF Recipe
<1>5. FineFor(n)
  BY Zenon DEF Asks
<1>6. mu \in 50 .. 205
  <2>1. Krea2RawMu(tokens) \in 50 .. 205 /\ 115 \in 50 .. 205
    BY TokenMus
  <2> QED
    BY <2>1, Zenon
<1>7. ValidFor(values, n, TRUE)
  BY <1>5, <1>6, MuServes, Zenon
<1> HIDE DEF official, warned, grid, shifts, only, values
<1>8. p.id = "krea2.raw-turbo-lora" /\ p.recipes = {only}
  BY <1>1, SampledFact
<1>9. Quotes(p, "krea2.raw-turbo-lora", "experimental", {12})
  BY <1>4, <1>8 DEF Quotes
<1>10. ServesRecipe(built, p, r, n)
  BY <1>3, <1>7, <1>9, BuiltForRecipe, Zenon
<1>11. PICK s \in built : /\ s.profile = p.id /\ s.steps = n /\ ValidFor(s.values, n, TRUE)
                          /\ n \in r.reference => s.evidence = r.evidence
  BY <1>10, Zenon DEF ServesRecipe, Serves
<1> DEFINE t == [s EXCEPT !.warned = warned]
<1>12. Alike(t, s)
  BY BuiltExceptWarned, Zenon
<1>13. t \in Krea2LoraSchedule(n, tokens, raw_mu)
  BY <1>2, Zenon
<1> HIDE DEF t, built
<1> QED
  BY <1>11, <1>12, <1>13, Zenon DEF ServesRecipe, Serves, Alike

(* Qwen Image: the fixed shift, and the dynamic one                        *)
LEMMA QwenImageServes ==
  ASSUME NEW p \in QwenImageDeclared, NEW r, NEW n, NEW strict, Asks(p, r, n, strict),
         NEW tokens \in Tokens
  PROVE  \/ ServesRecipe(QwenImageSchedule(FALSE, n, 0, strict), p, r, n)
         \/ ServesRecipe(QwenImageSchedule(TRUE, n, tokens, strict), p, r, n)
<1> DEFINE official == n = 50
           evidence == "framework_reference"
           grid == "flowmatch.reciprocal_step"
           fixed == Append(RatioShift(ReciprocalGrid(n), 115, 100), 0)
           mu == AffineMu(tokens, 256, 4096, 50, 115)
           dynamic == Append(MuShift(ReciprocalGrid(n), mu), 0)
<1>1. FineFor(n)
  BY Zenon DEF Asks
<1>2. ValidFor(fixed, n, TRUE)
  BY <1>1, GentleRatios, ReciprocalServes, Zenon
<1>3. ValidFor(dynamic, n, TRUE)
  <2>1. mu \in 50 .. 205
    BY TokenMus
  <2> HIDE DEF mu
  <2> QED
    BY <1>1, <2>1, MuServes, Zenon
<1>4. Accepts(official, n, {50})
  BY DEF Accepts
<1>5. CASE p = Declared("qwen_image.comfy-fixed", "qwen_image", "original", grid,
                        <<"comfy.direct_ratio">>, OneSource("framework_reference", 50))
  <2> DEFINE shifts == <<"comfy.direct_ratio">>  id == "qwen_image.comfy-fixed"
  <2>1. QwenImageSchedule(FALSE, n, 0, strict)
          = IF strict /\ n # 50 THEN {}
            ELSE Built(id, evidence, grid, shifts, n, official, fixed)
    <3>1. FALSE = (0 > 0)
      OBVIOUS
    <3> QED
      BY <3>1, Zenon DEF QwenImageSchedule
  <2> HIDE DEF shifts, grid, official, fixed
  <2>2. Quotes(p, id, evidence, {50})
    BY <1>5, DeclaredFact, SourceOf DEF Quotes
  <2> HIDE DEF id, evidence
  <2>3. ServesRecipe(Built(id, evidence, grid, shifts, n, official, fixed), p, r, n)
    BY <1>2, <1>4, <2>2, BuiltForRecipe, Zenon
  <2>4. strict => n \in {50}
    BY <2>2, StrictAsksSource
  <2> QED
    BY <2>1, <2>3, <2>4, Zenon
<1>6. CASE p = Declared("qwen_image.diffusers-dynamic", "qwen_image", "original", grid,
                        <<"diffusers.exponential_mu">>, OneSource("framework_reference", 50))
  <2> DEFINE shifts == <<"diffusers.exponential_mu">>  id == "qwen_image.diffusers-dynamic"
  <2>1. QwenImageSchedule(TRUE, n, tokens, strict)
          = IF strict /\ n # 50 THEN {}
            ELSE Built(id, evidence, grid, shifts, n, official, dynamic)
    <3> DEFINE on == TRUE
               name == IF on THEN id ELSE "qwen_image.comfy-fixed"
               shift == IF on THEN "diffusers.exponential_mu" ELSE "comfy.direct_ratio"
               values == IF on THEN MuShift(ReciprocalGrid(n), mu)
                         ELSE RatioShift(ReciprocalGrid(n), 115, 100)
               refused == on # (tokens > 0) \/ (strict /\ n # 50)
    <3>1. on \in BOOLEAN /\ on /\ tokens > 0
      BY DEF Tokens
    <3> HIDE DEF on
    <3>2. QwenImageSchedule(on, n, tokens, strict)
            = IF refused THEN {}
              ELSE Built(name, evidence, grid, <<shift>>, n, official, Append(values, 0))
      BY Zenon DEF QwenImageSchedule
    <3>3. /\ name = id /\ shift = "diffusers.exponential_mu"
          /\ values = MuShift(ReciprocalGrid(n), mu)
      BY <3>1
    <3>4. refused <=> strict /\ n # 50
      BY <3>1
    <3> DEFINE tail == Append(values, 0)  made == <<shift>>
    <3> HIDE DEF name, shift, values, refused
    <3>5. made = shifts /\ tail = dynamic /\ name = id
      BY <3>3, Zenon
    <3> HIDE DEF made, shifts, tail, dynamic, id, mu, evidence, grid, official
    <3>6. QwenImageSchedule(on, n, tokens, strict)
            = IF refused THEN {} ELSE Built(name, evidence, grid, made, n, official, tail)
      BY <3>2, Zenon DEF made, tail
    <3>7. QwenImageSchedule(on, n, tokens, strict)
            = IF strict /\ n # 50 THEN {}
              ELSE Built(id, evidence, grid, shifts, n, official, dynamic)
      BY ONLY <3>4, <3>5, <3>6, Zenon
    <3> QED
      BY <3>7, Zenon DEF on
  <2> HIDE DEF shifts, grid, official, dynamic
  <2>2. Quotes(p, id, evidence, {50})
    BY <1>6, DeclaredFact, SourceOf DEF Quotes
  <2> HIDE DEF id, evidence
  <2>3. ServesRecipe(Built(id, evidence, grid, shifts, n, official, dynamic), p, r, n)
    BY <1>3, <1>4, <2>2, BuiltForRecipe, Zenon
  <2>4. strict => n \in {50}
    BY <2>2, StrictAsksSource
  <2> QED
    BY <2>1, <2>3, <2>4, Zenon
<1> QED
  BY <1>5, <1>6, Zenon DEF QwenImageDeclared

(* The mu of the two profiles that sample a table                          *)
TableMu(mu) == mu \in {69, 115}

TableSize == 10000

(* The table of 10000 sigmas: up to 10000 steps take different ones.       *)
LEMMA TableServes ==
  ASSUME NEW n, FineFor(n), NEW mu, TableMu(mu)
  PROVE  ValidFor(Append(MuShift(SimpleGrid(n, TableSize), mu), 0), n, TRUE)
<1> DEFINE table == TableSize
           h == table \div n
           num == MuRatio(mu)
           x == SimpleGrid(n, table)
<1>1. n \in Nat \ {0} /\ n <= table /\ 16 * n <= One /\ One \in Nat
  BY RoundingAssumption DEF FineFor, MaxSteps, TableSize
<1>2. table \in Nat \ {0}
  BY DEF TableSize
<1>3. num \in 102 .. 300 /\ num \in Nat \ {0}
  <2>1. (69 * 69) \div 200 = 23 /\ (115 * 115) \div 200 = 66
    OBVIOUS
  <2> QED
    BY <2>1 DEF MuRatio, TableMu
<1> HIDE DEF table, num, x
<1>4. h \in Int /\ h * n <= table /\ table < (h + 1) * n
  BY <1>1, <1>2, Quotient
<1> HIDE DEF h
<1>5. h \in Nat \ {0}
  <2>1. CASE h <= 0
    <3>1. (h + 1) * n <= 1 * n
      BY <1>1, <1>4, <2>1, ProductOrder
    <3> QED
      BY <1>1, <1>2, <1>4, <3>1
  <2> QED
    BY <1>4, <2>1
<1>6. 3 * table <= h * One
  <2>1. n <= h * n /\ (h + 1) * n = h * n + n /\ h * n \in Nat
    BY <1>1, <1>5
  <2>2. table <= 2 * (h * n)
    BY <1>1, <1>2, <1>4, <2>1
  <2>3. h * (16 * n) <= h * One /\ h * (16 * n) = 16 * (h * n) /\ h * One \in Nat
    BY <1>1, <1>5
  <2> QED
    BY <1>2, <2>1, <2>2, <2>3
<1>7. Spaced(x, n, 3)
  <2> DEFINE three == 3
  <2>1. three \in Nat /\ three * table <= h * One /\ h \in Nat
    BY <1>5, <1>6
  <2> HIDE DEF three
  <2>2. Spaced(SimpleGrid(n, table), n, three)
    BY <1>1, <1>2, <1>4, <2>1, SimpleSpaced, Zenon
  <2> QED
    BY <2>2 DEF three, x
<1>8. Spaced(RatioShift(x, num, 100), n, 1)
  <2> DEFINE den == 100  k == 3  g == 1
  <2>1. /\ den \in Nat \ {0} /\ k \in Nat /\ g \in Nat
        /\ g * num <= k * den /\ g * den <= k * num
    BY <1>3
  <2>2. Spaced(x, n, k)
    BY <1>7
  <2> HIDE DEF den, k, g
  <2>3. Spaced(RatioShift(x, num, den), n, g)
    BY <1>1, <1>3, <2>1, <2>2, RatioSpaced
  <2> QED
    BY <2>3 DEF den, g
<1> DEFINE y == RatioShift(x, num, 100)
<1>9. MuShift(SimpleGrid(n, TableSize), mu) = y
  BY MuOf, Zenon DEF num, x, table
<1>10. n \in Nat \ {0} /\ 1 \in Nat \ {0} /\ Spaced(y, n, 1)
  BY <1>1, <1>8
<1> HIDE DEF y
<1>11. ValidFor(Append(y, 0), n, TRUE)
  BY <1>10, SpacedIsValid, Zenon
<1> DEFINE w == MuShift(SimpleGrid(n, TableSize), mu)
<1>12. w = y
  BY <1>9
<1> HIDE DEF w
<1>13. ValidFor(Append(w, 0), n, TRUE)
  BY <1>11, <1>12
<1> QED
  BY <1>13, Zenon DEF w

(* The mu shift of the reciprocal grid leaves room for the stretch.        *)
LEMMA MuSpaced ==
  ASSUME NEW n \in Nat \ {0}, NEW x, Spaced(x, n, 16), NEW mu \in 50 .. 205
  PROVE  Spaced(MuShift(x, mu), n, 2)
<1> DEFINE num == MuRatio(mu)  den == 100  k == 16  g == 2
<1>1. /\ num \in Nat \ {0} /\ den \in Nat \ {0} /\ k \in Nat /\ g \in Nat
      /\ g * num <= k * den /\ g * den <= k * num
  BY GentleMu DEF Gentle
<1>2. Spaced(x, n, k) /\ MuShift(x, mu) = RatioShift(x, num, den)
  BY MuOf, Zenon
<1> HIDE DEF num, den, k, g
<1>3. Spaced(RatioShift(x, num, den), n, g)
  BY <1>1, <1>2, RatioSpaced
<1> QED
  BY <1>2, <1>3 DEF g

(* The stretched schedule of the Diffusers lane is one.                    *)
LEMMA QwenStretchServes ==
  ASSUME NEW n, n >= 2, FineFor(n), NEW mu \in 50 .. 205
  PROVE  ValidFor(Append(QwenStretched(MuShift(ReciprocalGrid(n), mu)), 0), n, TRUE)
<1> DEFINE x == ReciprocalGrid(n)
           y == MuShift(x, mu)
           t == One \div 50
           z == [i \in 1 .. n |-> StretchedTo(y[i], y[n], t)]
<1>1. n \in Nat \ {0} /\ n \in Nat /\ 16 * n <= One /\ One \in Nat /\ 160 <= One
  BY RoundingAssumption DEF FineFor
<1>2. Spaced(x, n, 16)
  BY <1>1, ReciprocalSpaced
<1> HIDE DEF x
<1>3. Spaced(y, n, 2)
  BY <1>1, <1>2, MuSpaced
<1> HIDE DEF y
<1>4. t \in Nat \ {0} /\ 2 * t <= One
  BY <1>1
<1>5. QwenStretched(y) = z
  <2>1. Len(y) = n /\ DOMAIN y = 1 .. n
    BY <1>1, <1>3 DEF Spaced
  <2>2. Last(y) = y[n]
    BY <2>1 DEF Last
  <2> QED
    BY <2>1, <2>2 DEF QwenStretched, StretchedTo
<1> HIDE DEF t, z
<1>6. Spaced(z, n, 1)
  <2>1. z = [i \in 1 .. n |-> StretchedTo(y[i], y[n], t)]
    BY DEF z
  <2> QED
    BY <1>1, <1>3, <1>4, <2>1, StretchSpaced
<1>7. ValidFor(Append(z, 0), n, TRUE)
  <2>1. 1 \in Nat \ {0}
    OBVIOUS
  <2> QED
    BY <1>1, <1>6, <2>1, SpacedIsValid, Zenon
<1> QED
  BY <1>5, <1>7 DEF x, y

(* The name and the mu of a lane that samples the table, and the mu of     *)
(* the dynamic lane                                                        *)
TableName(lane) ==
    IF lane = "original" THEN "qwen_image.comfy-native" ELSE "qwen_image21.comfy-native"
TableMuOf(lane) == IF lane = "original" THEN 115 ELSE 69
Qwen21Mu(tokens) == AffineMu(tokens, 256, 8192, 50, 90)

(* The builder of the two lanes with a table                               *)
LEMMA QwenTableBuilds ==
  ASSUME NEW lane, lane # "dynamic", NEW n, NEW tokens, NEW strict,
         QwenNativeAccepts(lane, n, tokens, strict)
  PROVE  \E official :
           /\ official => n = QwenLaneSteps[lane]
           /\ n = QwenLaneSteps[lane] => official
           /\ QwenNativeSchedule(lane, n, tokens, strict)
                = Built(TableName(lane), "framework_reference", "comfy.simple.flux_table",
                        <<"qwen.exponential_mu">>, n, official,
                        Append(MuShift(SimpleGrid(n, TableSize), TableMuOf(lane)), 0))
<1> DEFINE official == n = QwenLaneSteps[lane]
           values == Append(MuShift(SimpleGrid(n, TableSize), TableMuOf(lane)), 0)
           built == Built(TableName(lane), "framework_reference", "comfy.simple.flux_table",
                          <<"qwen.exponential_mu">>, n, official, values)
<1>1. QwenNativeSchedule(lane, n, tokens, strict) = built
  BY DEF QwenNativeSchedule, TableSize, TableName, TableMuOf
<1>2. /\ official => n = QwenLaneSteps[lane]
      /\ n = QwenLaneSteps[lane] => official
  OBVIOUS
<1> HIDE DEF official
<1> QED
  BY <1>1, <1>2, Zenon

(* The builder of the Diffusers lane                                       *)
LEMMA QwenDynamicBuilds ==
  ASSUME NEW n, NEW tokens, NEW strict, QwenNativeAccepts("dynamic", n, tokens, strict)
  PROVE  \E official :
           /\ official => n = QwenLaneSteps["dynamic"]
           /\ n = QwenLaneSteps["dynamic"] => official
           /\ QwenNativeSchedule("dynamic", n, tokens, strict)
                = Built("qwen_image21.diffusers-dynamic", "framework_reference",
                        "flowmatch.reciprocal_step",
                        <<"qwen.exponential_mu", "qwen21.stretch_to_terminal">>, n, official,
                        Append(QwenStretched(MuShift(ReciprocalGrid(n), Qwen21Mu(tokens))),
                               0))
<1> DEFINE official == n = QwenLaneSteps["dynamic"]
           built == Built("qwen_image21.diffusers-dynamic", "framework_reference",
                          "flowmatch.reciprocal_step",
                          <<"qwen.exponential_mu", "qwen21.stretch_to_terminal">>, n,
                          official,
                          Append(QwenStretched(MuShift(ReciprocalGrid(n), Qwen21Mu(tokens))), 0))
<1>1. QwenNativeSchedule("dynamic", n, tokens, strict) = built
  BY DEF QwenNativeSchedule, Qwen21Mu
<1>2. /\ official => n = QwenLaneSteps["dynamic"]
      /\ n = QwenLaneSteps["dynamic"] => official
  OBVIOUS
<1> HIDE DEF official
<1> QED
  BY <1>1, <1>2, Zenon

(* The steps of the three lanes                                            *)
LEMMA QwenLanes ==
  /\ QwenLaneSteps["original"] = 50 /\ QwenLaneSteps["native"] = 25
  /\ QwenLaneSteps["dynamic"] = 40
  BY DEF QwenLaneSteps

(* A lane that samples the table, for any of its two profiles              *)
LEMMA QwenTableServes ==
  ASSUME NEW lane \in {"original", "native"},
         NEW p, Quotes(p, TableName(lane), "framework_reference", {QwenLaneSteps[lane]}),
         NEW r, NEW n, NEW strict, Asks(p, r, n, strict)
  PROVE  ServesRecipe(QwenNativeSchedule(lane, n, 0, strict), p, r, n)
<1> DEFINE k == QwenLaneSteps[lane]
           mu == TableMuOf(lane)
           id == TableName(lane)
           evidence == "framework_reference"
           grid == "comfy.simple.flux_table"
           shifts == <<"qwen.exponential_mu">>
           values == Append(MuShift(SimpleGrid(n, TableSize), mu), 0)
<1>1. FineFor(n) /\ n >= 1
  BY DEF Asks, FineFor
<1>2. TableMu(mu)
  BY DEF TableMu, TableMuOf
<1>3. strict => n = k
  <2> HIDE DEF k
  <2>1. strict => n \in {k}
    BY StrictAsksSource DEF k
  <2> QED
    BY <2>1
<1>4. QwenNativeAccepts(lane, n, 0, strict)
  <2> HIDE DEF k
  <2> QED
    BY <1>1, <1>3 DEF QwenNativeAccepts, k
<1>5. PICK official :
         /\ official => n = k
         /\ n = k => official
         /\ QwenNativeSchedule(lane, n, 0, strict)
              = Built(id, evidence, grid, shifts, n, official, values)
  <2>1. lane # "dynamic"
    OBVIOUS
  <2> QED
    BY <1>4, <2>1, QwenTableBuilds, Zenon
<1> HIDE DEF k, mu
<1>6. ValidFor(values, n, TRUE)
  BY <1>1, <1>2, TableServes, Zenon
<1>7. Accepts(official, n, {k})
  BY <1>5 DEF Accepts
<1> HIDE DEF evidence, grid, shifts, values, id
<1>8. Quotes(p, id, evidence, {k})
  BY Zenon DEF evidence, k, id
<1>9. ServesRecipe(Built(id, evidence, grid, shifts, n, official, values), p, r, n)
  BY <1>6, <1>7, <1>8, BuiltForRecipe, Zenon
<1> QED
  BY <1>5, <1>9, Zenon

(* The Diffusers lane; a stretch needs two steps.                          *)
LEMMA QwenDynamicServes ==
  ASSUME NEW p, Quotes(p, "qwen_image21.diffusers-dynamic", "framework_reference", {40}),
         NEW r, NEW n, NEW strict, Asks(p, r, n, strict), n >= 2, NEW tokens \in Tokens
  PROVE  ServesRecipe(QwenNativeSchedule("dynamic", n, tokens, strict), p, r, n)
<1> DEFINE id == "qwen_image21.diffusers-dynamic"
           k == QwenLaneSteps["dynamic"]
           evidence == "framework_reference"
           grid == "flowmatch.reciprocal_step"
           shifts == <<"qwen.exponential_mu", "qwen21.stretch_to_terminal">>
           values == Append(QwenStretched(MuShift(ReciprocalGrid(n), Qwen21Mu(tokens))), 0)
<1>1. k = 40
  BY QwenLanes
<1>2. strict => n = k
  <2>1. strict => n \in {40}
    BY StrictAsksSource
  <2> QED
    BY <1>1, <2>1
<1>3. QwenNativeAccepts("dynamic", n, tokens, strict)
  <2>1. tokens > 0
    BY DEF Tokens
  <2> HIDE DEF k
  <2> QED
    BY <1>2, <2>1 DEF QwenNativeAccepts, k
<1>4. PICK official :
         /\ official => n = k
         /\ n = k => official
         /\ QwenNativeSchedule("dynamic", n, tokens, strict)
              = Built(id, evidence, grid, shifts, n, official, values)
  BY <1>3, QwenDynamicBuilds, Zenon
<1>5. Qwen21Mu(tokens) \in 50 .. 205
  BY TokenMus DEF Qwen21Mu
<1>6. FineFor(n)
  BY Zenon DEF Asks
<1>7. ValidFor(values, n, TRUE)
  BY <1>5, <1>6, QwenStretchServes, Zenon
<1>8. Accepts(official, n, {k})
  <2> HIDE DEF k
  <2> QED
    BY <1>4 DEF Accepts
<1>9. Quotes(p, id, evidence, {k})
  BY <1>1
<1> HIDE DEF evidence, grid, shifts, values, id, k
<1>10. ServesRecipe(Built(id, evidence, grid, shifts, n, official, values), p, r, n)
  BY <1>7, <1>8, <1>9, BuiltForRecipe, Zenon
<1> QED
  BY <1>4, <1>10, Zenon

(* Qwen Image native and Qwen Image 2.1: their three lanes                 *)
LEMMA QwenNativeServes ==
  ASSUME NEW p \in QwenNativeDeclared, NEW r, NEW n, NEW strict, Asks(p, r, n, strict),
         NEW tokens \in Tokens
  PROVE  \/ ServesRecipe(QwenNativeSchedule("original", n, 0, strict), p, r, n)
         \/ ServesRecipe(QwenNativeSchedule("native", n, 0, strict), p, r, n)
         \/ ServesRecipe(QwenNativeSchedule("dynamic", n, tokens, strict), p, r, n)
<1> DEFINE evidence == "framework_reference"
           table == "comfy.simple.flux_table"
           grid == "flowmatch.reciprocal_step"
           shifted == <<"qwen.exponential_mu">>
           stretched == <<"qwen.exponential_mu", "qwen21.stretch_to_terminal">>
           long == Recipe(evidence, 2, MaxSteps, {40}, TRUE)
<1>1. CASE p = Declared("qwen_image.comfy-native", "qwen_image", "original", table, shifted,
                        OneSource(evidence, 50))
  <2> DEFINE lane == "original"
  <2>1. TableName(lane) = "qwen_image.comfy-native" /\ {QwenLaneSteps[lane]} = {50}
    BY QwenLanes DEF TableName
  <2> HIDE DEF table, grid, shifted, stretched, evidence
  <2>2. Quotes(p, "qwen_image.comfy-native", evidence, {50})
    BY <1>1, DeclaredFact, SourceOf DEF Quotes
  <2>3. lane \in {"original", "native"}
    OBVIOUS
  <2> HIDE DEF lane
  <2>4. Quotes(p, TableName(lane), evidence, {QwenLaneSteps[lane]})
    BY <2>1, <2>2
  <2>5. ServesRecipe(QwenNativeSchedule(lane, n, 0, strict), p, r, n)
    BY <2>3, <2>4, QwenTableServes, Zenon DEF evidence
  <2> QED
    BY <2>5, Zenon DEF lane
<1>2. CASE p = Declared("qwen_image21.comfy-native", "qwen_image21", "v2_1", table, shifted,
                        OneSource(evidence, 25))
  <2> DEFINE lane == "native"
  <2>1. TableName(lane) = "qwen_image21.comfy-native" /\ {QwenLaneSteps[lane]} = {25}
    BY QwenLanes DEF TableName
  <2> HIDE DEF table, grid, shifted, stretched, evidence
  <2>2. Quotes(p, "qwen_image21.comfy-native", evidence, {25})
    BY <1>2, DeclaredFact, SourceOf DEF Quotes
  <2>3. lane \in {"original", "native"}
    OBVIOUS
  <2> HIDE DEF lane
  <2>4. Quotes(p, TableName(lane), evidence, {QwenLaneSteps[lane]})
    BY <2>1, <2>2
  <2>5. ServesRecipe(QwenNativeSchedule(lane, n, 0, strict), p, r, n)
    BY <2>3, <2>4, QwenTableServes, Zenon DEF evidence
  <2> QED
    BY <2>5, Zenon DEF lane
<1>3. CASE p = Declared("qwen_image21.diffusers-dynamic", "qwen_image21", "v2_1", grid,
                        stretched, {long})
  <2>1. /\ long.evidence = evidence /\ long.reference = {40}
        /\ long.minimum = 2 /\ long.maximum = MaxSteps
    BY DEF Recipe
  <2> HIDE DEF table, grid, shifted, stretched, evidence, long
  <2>2. p.id = "qwen_image21.diffusers-dynamic" /\ p.recipes = {long}
    BY <1>3, DeclaredFact
  <2>3. Quotes(p, "qwen_image21.diffusers-dynamic", evidence, {40})
    BY <2>1, <2>2 DEF Quotes
  <2>4. r \in p.recipes /\ n \in r.minimum .. r.maximum
    BY Zenon DEF Asks
  <2>5. n >= 2
    BY <2>1, <2>2, <2>4 DEF MaxSteps
  <2>6. ServesRecipe(QwenNativeSchedule("dynamic", n, tokens, strict), p, r, n)
    BY <2>3, <2>5, QwenDynamicServes, Zenon DEF evidence
  <2> QED
    BY <2>6, Zenon
<1> QED
  BY <1>1, <1>2, <1>3, Zenon DEF QwenNativeDeclared

(* The line from one to zero, shifted: the zero is its own last value.     *)
LEMMA LineShifted ==
  ASSUME NEW n, FineFor(n), NEW mu \in 50 .. 205
  PROVE  \E y : /\ Spaced(y, n, 2)
                /\ MuShift(LinearGrid(n + 1, One, 0), mu) = Append(y, 0)
<1> DEFINE grid == LinearGrid(n + 1, One, 0)
           x == [i \in 1 .. n |-> grid[i]]
           y == MuShift(x, mu)
<1>1. n \in Nat \ {0} /\ 16 * n <= One
  BY DEF FineFor
<1>2. grid = Append(x, 0) /\ Spaced(x, n, 16)
  BY <1>1, LinearSpaced
<1> HIDE DEF grid, x
<1>3. Spaced(y, n, 2)
  BY <1>1, <1>2, MuSpaced
<1>4. MuShift(Append(x, 0), mu) = Append(y, 0)
  BY <1>1, <1>2, RatioOfTerminal, MuOf
<1> QED
  BY <1>2, <1>3, <1>4 DEF grid

(* The values before the terminal zero                                     *)
LEMMA FrontOfTerminal ==
  ASSUME NEW n \in Nat \ {0}, NEW y, Spaced(y, n, 2)
  PROVE  Front(Append(y, 0)) = y /\ Last(y) = y[n]
<1> DEFINE w == Append(y, 0)
<1>1. y \in Seq(Sigma) /\ Len(y) = n /\ y = [i \in 1 .. n |-> y[i]]
  BY DEF Spaced
<1>2. Len(w) = n + 1 /\ (\A i \in 1 .. n : w[i] = y[i]) /\ (n + 1) - 1 = n
  BY <1>1
<1> HIDE DEF w
<1>3. SubSeq(w, 1, n) = [i \in 1 .. n |-> w[i]]
  OBVIOUS
<1>4. Front(w) = SubSeq(w, 1, n)
  BY <1>2 DEF Front
<1>5. [i \in 1 .. n |-> w[i]] = [i \in 1 .. n |-> y[i]]
  BY <1>2
<1> QED
  BY <1>1, <1>3, <1>4, <1>5 DEF w, Last

(* The stretched line is a schedule from two steps on.                     *)
LEMMA LTXStretchServes ==
  ASSUME NEW n, n >= 2, FineFor(n), NEW y, Spaced(y, n, 2)
  PROVE  ValidFor(LTXStretched(Append(y, 0), One \div 10), n, TRUE)
<1> DEFINE t == One \div 10
           z == [i \in 1 .. n |-> StretchedTo(y[i], y[n], t)]
<1>1. n \in Nat \ {0} /\ n \in Nat /\ One \in Nat /\ 160 <= One
  BY RoundingAssumption DEF FineFor
<1>2. t \in Nat \ {0} /\ 2 * t <= One
  BY <1>1
<1>3. Front(Append(y, 0)) = y /\ Last(y) = y[n]
  BY <1>1, FrontOfTerminal
<1>4. y[n] \notin {0, One} /\ Spaced(z, n, 1)
  <2> HIDE DEF t
  <2>1. z = [i \in 1 .. n |-> StretchedTo(y[i], y[n], t)]
    OBVIOUS
  <2> HIDE DEF z
  <2> QED
    BY <1>1, <1>2, <2>1, StretchSpaced
<1>5. DOMAIN y = 1 .. n
  BY DEF Spaced
<1>6. LTXStretched(Append(y, 0), t) = Append(z, 0)
  <2> HIDE DEF t
  <2>1. z = [i \in DOMAIN y |-> One - ((One - y[i]) * (One - t)) \div (One - y[n])]
    BY <1>5 DEF StretchedTo
  <2> HIDE DEF z
  <2> QED
    BY <1>3, <1>4, <2>1 DEF LTXStretched
<1> HIDE DEF t, z
<1>7. ValidFor(Append(z, 0), n, TRUE)
  <2>1. 1 \in Nat \ {0}
    OBVIOUS
  <2> QED
    BY <1>1, <1>4, <2>1, SpacedIsValid, Zenon
<1> QED
  BY <1>6, <1>7, Zenon DEF t

(* The mu of the adaptive schedules                                        *)
LTXMu(tokens) == AffineMu(tokens, 1024, 4096, 95, 205)

LTXTransforms == <<"ltx.flow.exponential_token_shift", "ltx.terminal.stretch">>

(* Without a stretch the shifted line is the schedule; with one it is      *)
(* stretched to the terminal.                                              *)
LEMMA LTXAdapts ==
  ASSUME NEW n, NEW tokens, NEW t, t = One \div 10,
         NEW line, MuShift(LinearGrid(n + 1, One, 0), LTXMu(tokens)) = line
  PROVE  \A stretch : LTXAdaptive(n, tokens, stretch, t)
                         = IF stretch THEN LTXStretched(line, t) ELSE line
  BY DEF LTXAdaptive, LTXMu

(* The builder of a dev profile                                            *)
LEMMA LTXDevBuilds ==
  ASSUME NEW g, NEW n, NEW tokens, NEW strict, NEW t, t = One \div 10, NEW stretch,
         NEW values, LTXAdaptive(n, tokens, stretch, t) = values
  PROVE  \E official :
           /\ stretch => (n = LTXDevSteps[g] => official)
           /\ LTXDevSchedule(g, n, tokens, stretch, t, strict)
                = IF strict /\ ~official THEN {}
                  ELSE Built(LTXDevIds[g], "official", "flowmatch.linear_endpoint",
                             LTXTransforms, n, official, values)
<1> DEFINE official == n = LTXDevSteps[g] /\ stretch /\ t = One \div 10
           adaptive == LTXAdaptive(n, tokens, stretch, t)
<1>1. LTXDevSchedule(g, n, tokens, stretch, t, strict)
        = IF strict /\ ~official THEN {}
          ELSE Built(LTXDevIds[g], "official", "flowmatch.linear_endpoint", LTXTransforms, n,
                     official, adaptive)
  BY Zenon DEF LTXDevSchedule, LTXTransforms
<1>2. adaptive = values
  OBVIOUS
<1>3. stretch => (n = LTXDevSteps[g] => official)
  OBVIOUS
<1> HIDE DEF official, adaptive
<1> QED
  BY <1>1, <1>2, <1>3, Zenon

(* LTX dev: the reference steps stretched, any other unstretched, at the   *)
(* default terminal                                                        *)
LEMMA LTXDevServes ==
  ASSUME NEW g \in {"ltxv", "ltx2", "ltx23"}, NEW p, p = LTXDev(g),
         NEW r, NEW n, NEW strict, Asks(p, r, n, strict), NEW tokens \in Tokens,
         NEW t, t = One \div 10
  PROVE  \E stretch \in BOOLEAN :
            ServesRecipe(LTXDevSchedule(g, n, tokens, stretch, t, strict), p, r, n)
<1> DEFINE k == LTXDevSteps[g]
           id == LTXDevIds[g]
           grid == "flowmatch.linear_endpoint"
           on == TRUE
           off == FALSE
<1>1. FineFor(n) /\ LTXMu(tokens) \in 50 .. 205
  <2>1. FineFor(n)
    BY Zenon DEF Asks
  <2>2. LTXMu(tokens) \in 50 .. 205
    BY TokenMus DEF LTXMu
  <2> QED
    BY <2>1, <2>2
<1>2. PICK y : Spaced(y, n, 2) /\ MuShift(LinearGrid(n + 1, One, 0), LTXMu(tokens))
                                    = Append(y, 0)
  BY <1>1, LineShifted, Zenon
<1> DEFINE line == Append(y, 0)
<1>7. on \in BOOLEAN /\ on /\ off \in BOOLEAN /\ ~off
  OBVIOUS
<1> HIDE DEF on, off
<1>3. Quotes(p, id, "official", {k})
  <2>1. p.id = id /\ p.recipes = OneSource("official", k)
    BY LTXDevFact
  <2> HIDE DEF id, k
  <2> QED
    BY <2>1, SourceOf DEF Quotes
<1>4. strict => n = k
  <2> HIDE DEF k, id
  <2>1. strict => n \in {k}
    BY <1>3, StrictAsksSource
  <2> QED
    BY <2>1
<1>5. CASE n = k
  <2>1. PICK official :
          /\ n = k => official
          /\ LTXDevSchedule(g, n, tokens, on, t, strict)
               = IF strict /\ ~official THEN {}
                 ELSE Built(id, "official", grid, LTXTransforms, n, official,
                            LTXStretched(line, t))
    <3>1. LTXAdaptive(n, tokens, on, t) = LTXStretched(line, t)
      <4>1. MuShift(LinearGrid(n + 1, One, 0), LTXMu(tokens)) = line
        BY <1>2
      <4> HIDE DEF line
      <4>2. LTXAdaptive(n, tokens, on, t) = IF on THEN LTXStretched(line, t) ELSE line
        BY <4>1, LTXAdapts
      <4> QED
        BY <1>7, <4>2
    <3> DEFINE values == LTXStretched(line, t)
    <3>3. LTXAdaptive(n, tokens, on, t) = values
      BY <3>1
    <3> HIDE DEF values, id, k, grid
    <3>2. \E official :
            /\ on => (n = k => official)
            /\ LTXDevSchedule(g, n, tokens, on, t, strict)
                 = IF strict /\ ~official THEN {}
                   ELSE Built(id, "official", grid, LTXTransforms, n, official, values)
      BY <3>3, LTXDevBuilds DEF id, k, grid
    <3> QED
      BY <1>7, <3>2 DEF values
  <2>2. n >= 2
    <3>1. k \in {20, 30, 40}
      BY DEF LTXDevSteps
    <3> QED
      BY <1>5, <3>1
  <2>3. ValidFor(LTXStretched(line, t), n, TRUE)
    BY <1>1, <1>2, <2>2, LTXStretchServes, Zenon
  <2> HIDE DEF k, id, grid, line
  <2>4. Accepts(official, n, {k})
    BY <2>1 DEF Accepts
  <2>5. ServesRecipe(Built(id, "official", grid, LTXTransforms, n, official,
                           LTXStretched(line, t)), p, r, n)
    BY <1>3, <2>3, <2>4, BuiltForRecipe, Zenon
  <2>6. ServesRecipe(LTXDevSchedule(g, n, tokens, on, t, strict), p, r, n)
    BY <1>5, <2>1, <2>5, Zenon
  <2> QED
    BY <1>7, <2>6
<1>6. CASE n # k
  <2>1. PICK official :
          LTXDevSchedule(g, n, tokens, off, t, strict)
            = IF strict /\ ~official THEN {}
              ELSE Built(id, "official", grid, LTXTransforms, n, official, line)
    <3>1. LTXAdaptive(n, tokens, off, t) = line
      <4>1. MuShift(LinearGrid(n + 1, One, 0), LTXMu(tokens)) = line
        BY <1>2
      <4> HIDE DEF line
      <4> QED
        BY <1>7, <4>1, LTXAdapts
    <3> HIDE DEF line, id, k, grid
    <3> QED
      BY <1>7, <3>1, LTXDevBuilds DEF id, k, grid
  <2>2. n \in Nat \ {0} /\ 2 \in Nat \ {0}
    BY <1>1 DEF FineFor
  <2>3. ValidFor(line, n, TRUE)
    BY <1>2, <2>2, SpacedIsValid, Zenon
  <2> HIDE DEF k, id, grid, line
  <2>4. Accepts(official, n, {k})
    BY <1>6 DEF Accepts
  <2>5. ServesRecipe(Built(id, "official", grid, LTXTransforms, n, official, line), p, r, n)
    BY <1>3, <2>3, <2>4, BuiltForRecipe, Zenon
  <2>6. ServesRecipe(LTXDevSchedule(g, n, tokens, off, t, strict), p, r, n)
    BY <1>4, <1>6, <2>1, <2>5, Zenon
  <2> QED
    BY <1>7, <2>6
<1> QED
  BY <1>5, <1>6, Zenon

(* A millionth part of the unit, rounded down                              *)
Million == 1000000
Millionths(v) == (v * One) \div Million

(* The unit of the vectors, and the sigmas they list                       *)
LEMMA MillionFact == Million \in Nat \ {0} /\ Million <= 6250 * 160
  BY SMT DEF Million

(* The sigmas of the vectors are at most the unit.                         *)
LEMMA MillionBounds ==
  /\ 1000000 <= Million /\ 993750 <= Million /\ 987500 <= Million
  /\ 981250 <= Million /\ 975000 <= Million /\ 909375 <= Million
  /\ 725000 <= Million /\ 421875 <= Million /\ 0 <= Million
  BY SMT DEF Million

(* Sigmas 6250 millionths apart are a unit apart on a scale of 160.        *)
LEMMA MillionthsFall ==
  ASSUME NEW v \in 0 .. Million, NEW w \in 0 .. Million, w + 6250 <= v, 160 <= One
  PROVE  Millionths(w) + 1 <= Millionths(v)
<1> DEFINE d == Million  a == v * One  b == w * One
<1>1. One \in Nat
  BY RoundingAssumption
<1>2. (w + 6250) * One <= v * One
  <2> DEFINE x == w + 6250
  <2>1. x \in Int /\ x <= v /\ v \in Int /\ One \in Nat \ {0}
    BY RoundingAssumption
  <2> HIDE DEF x
  <2>2. x * One <= v * One
    BY <2>1, ProductOrder
  <2> QED
    BY <2>2 DEF x
<1>3. (w + 6250) * One = w * One + 6250 * One
  BY <1>1
<1>6. d \in Nat \ {0} /\ d <= 6250 * One
  BY <1>1, MillionFact
<1> HIDE DEF d
<1>4. a \in Int /\ b \in Int /\ b + 1 * d <= a
  BY <1>1, <1>2, <1>3, <1>6
<1> HIDE DEF d, a, b
<1>5. (b \div d) + 1 <= a \div d
  BY <1>4, <1>6, DivisionGap
<1> QED
  BY <1>5 DEF a, b, d, Millionths

(* Millionths are on the scale, and nothing is nothing.                    *)
LEMMA MillionthsInRange ==
  ASSUME NEW v \in 0 .. Million
  PROVE  Millionths(v) \in Sigma /\ (v = 0 => Millionths(v) = 0)
<1> DEFINE d == Million  a == v * One
<1>1. One \in Nat
  BY RoundingAssumption
<1>5. d \in Nat \ {0}
  BY MillionFact
<1>2. a \in Int /\ 0 * d <= a /\ a <= One * d /\ (v = 0 => a <= 0 * d)
  BY <1>1, <1>5
<1> HIDE DEF d, a
<1>3. /\ a \div d \in Int /\ 0 <= a \div d /\ a \div d <= One
      /\ v = 0 => a \div d <= 0
  BY <1>1, <1>2, <1>5, DivisionBounds, Quotient
<1>4. a \div d \in 0 .. One /\ (v = 0 => a \div d = 0)
  BY <1>1, <1>3
<1> QED
  BY <1>4 DEF a, d, Millionths, Sigma

(* The sigmas of the two stages, in millionths                             *)
StageSigmas(stage) ==
    LET stage1 == <<1000000, 993750, 987500, 981250, 975000, 909375, 725000, 421875, 0>>
    IN IF stage = "stage1" THEN stage1 ELSE [i \in 1 .. 4 |-> stage1[i + 5]]

StageLength(stage) == IF stage = "stage1" THEN 9 ELSE 4

(* The vectors fall by 6250 millionths or more down to zero.               *)
LEMMA StageFalls ==
  ASSUME NEW stage \in {"stage1", "stage2"}, NEW n, n = StageLength(stage)
  PROVE  /\ \A i \in 1 .. n : StageSigmas(stage)[i] \in 0 .. Million
         /\ \A i \in 1 .. n - 1 : StageSigmas(stage)[i + 1] + 6250 <= StageSigmas(stage)[i]
         /\ StageSigmas(stage)[n] = 0
         /\ LTXVector(stage) = [i \in 1 .. n |-> Millionths(StageSigmas(stage)[i])]
<1> DEFINE s == <<1000000, 993750, 987500, 981250, 975000, 909375, 725000, 421875, 0>>
<1>1. /\ s[1] = 1000000 /\ s[2] = 993750 /\ s[3] = 987500 /\ s[4] = 981250
      /\ s[5] = 975000 /\ s[6] = 909375 /\ s[7] = 725000 /\ s[8] = 421875 /\ s[9] = 0
  BY SMT
<1>4. \A i \in 1 .. 9 : s[i] \in 0 .. Million
  <2>1. \A i \in 1 .. 9 : s[i] \in Nat /\ s[i] <= Million
    BY <1>1, MillionBounds, SMT
  <2> HIDE DEF s
  <2> QED
    BY <2>1, MillionFact, SMT
<1>5. \A i \in 1 .. 8 : s[i + 1] + 6250 <= s[i]
  BY <1>1, SMT
<1>6. s[9] = 0
  BY <1>1, SMT
<1>2. CASE stage = "stage1"
  <2>1. n = 9 /\ StageSigmas(stage) = s
    BY <1>2, SMT DEF StageSigmas, StageLength
  <2>2. LTXVector(stage) = [i \in 1 .. 9 |-> Millionths(s[i])]
    BY <1>2, SMT DEF LTXVector, Millionths, Million
  <2> HIDE DEF s
  <2> QED
    BY <1>4, <1>5, <1>6, <2>1, <2>2
<1>3. CASE stage = "stage2"
  <2> DEFINE u == [i \in 1 .. 4 |-> s[i + 5]]
  <2>1. n = 4 /\ StageSigmas(stage) = u
    BY <1>3, SMT DEF StageSigmas, StageLength
  <2>2. LTXVector(stage) = [i \in 1 .. 4 |-> Millionths(s[i + 5])]
    BY <1>3, SMT DEF LTXVector, Millionths, Million
  <2> HIDE DEF s
  <2>3. \A i \in 1 .. 4 : u[i] = s[i + 5]
    OBVIOUS
  <2>4. [i \in 1 .. 4 |-> Millionths(s[i + 5])] = [i \in 1 .. 4 |-> Millionths(u[i])]
    BY <2>3
  <2> HIDE DEF u
  <2>5. \A i \in 1 .. 4 : u[i] \in 0 .. Million
    BY <1>4, <2>3
  <2>6. \A i \in 1 .. 3 : u[i + 1] + 6250 <= u[i]
    <3> SUFFICES ASSUME NEW i \in 1 .. 3 PROVE u[i + 1] + 6250 <= u[i]
      OBVIOUS
    <3>1. i \in 1 .. 4 /\ i + 1 \in 1 .. 4 /\ i + 5 \in 1 .. 8 /\ (i + 1) + 5 = (i + 5) + 1
      OBVIOUS
    <3> QED
      BY <1>5, <2>3, <3>1
  <2>7. u[4] = 0
    BY <1>6, <2>3
  <2> QED
    BY <2>1, <2>2, <2>4, <2>5, <2>6, <2>7
<1> HIDE DEF s
<1> QED
  BY <1>2, <1>3

(* The vector of a stage is a schedule.                                    *)
LEMMA VectorIsValid ==
  ASSUME NEW stage \in {"stage1", "stage2"}, 160 <= One
  PROVE  LET v == LTXVector(stage) IN ValidFor(v, Steps(v), TRUE) /\ Steps(v) \in Nat
<1> DEFINE n == StageLength(stage)  s == StageSigmas(stage)  v == LTXVector(stage)
<1>1. n \in Nat /\ n >= 2
  BY DEF StageLength
<1>2. /\ \A i \in 1 .. n : s[i] \in 0 .. Million
      /\ \A i \in 1 .. n - 1 : s[i + 1] + 6250 <= s[i]
      /\ s[n] = 0 /\ v = [i \in 1 .. n |-> Millionths(s[i])]
  BY StageFalls
<1> HIDE DEF n, s, v
<1>3. \A i \in 1 .. n : v[i] = Millionths(s[i]) /\ v[i] \in Sigma
  BY <1>2, MillionthsInRange
<1>4. v \in Seq(Sigma) /\ Len(v) = n
  BY <1>1, <1>2, <1>3
<1>5. ASSUME NEW i \in 1 .. n - 1 PROVE v[i] > v[i + 1]
  <2>1. i \in 1 .. n /\ i + 1 \in 1 .. n
    BY <1>1
  <2>2. v[i + 1] + 1 <= v[i]
    BY <1>2, <1>3, <2>1, MillionthsFall
  <2>3. v[i] \in Int /\ v[i + 1] \in Int
    BY <1>3, <2>1, RoundingAssumption DEF Sigma
  <2> QED
    BY <2>2, <2>3
<1>6. v[n] = 0
  <2>1. n \in 1 .. n
    BY <1>1
  <2> QED
    BY <1>2, <1>3, <2>1, MillionthsInRange
<1> QED
  BY <1>1, <1>4, <1>5, <1>6 DEF ValidFor, ValidSchedule, Steps, v

(* A distilled stage serves the number of steps its vector has             *)
LEMMA LTXDistilledServes ==
  ASSUME NEW g \in {"ltx2", "ltx23"}, NEW stage \in {"stage1", "stage2"},
         NEW p, p = LTXDistilled(g, stage),
         NEW r, NEW n, NEW strict, Asks(p, r, n, strict)
  PROVE  ServesRecipe(LTXDistilledSchedule(g, stage, n), p, r, n)
<1> DEFINE vector == LTXVector(stage)
           k == Steps(vector)
           id == LTXStageIds[g][stage]
           grid == "flowmatch.linear_endpoint"
           shifts == <<"ltx.distilled.preset">>
           official == TRUE
<1>1. LTXDistilledSchedule(g, stage, n)
        = IF n # k THEN {} ELSE Built(id, "official", grid, shifts, n, official, vector)
  BY Zenon DEF LTXDistilledSchedule
<1>2. p.id = id /\ p.recipes = {Recipe("official", k, k, {k}, FALSE)}
  <2>1. p.id = LTXStageIds[g][stage]
        /\ p.recipes = {Recipe("official", Steps(LTXVector(stage)), Steps(LTXVector(stage)),
                               {Steps(LTXVector(stage))}, FALSE)}
    BY LTXDistilledFact, Zenon
  <2> QED
    BY <2>1, Zenon
<1>3. Asks(p, r, n, strict) /\ 160 <= One
  BY Zenon DEF Asks, FineFor
<1>4. ValidFor(vector, k, TRUE) /\ k \in Nat
  BY <1>3, VectorIsValid, Zenon
<1>9. Accepts(official, n, {k})
  BY DEF Accepts
<1> HIDE DEF vector, k, id, grid, shifts, official
<1> DEFINE reference == {k}
           only == Recipe("official", k, k, reference, FALSE)
<1>5. /\ only.evidence = "official" /\ only.reference = reference
      /\ only.minimum = k /\ only.maximum = k
  <2> HIDE DEF reference
  <2> QED
    BY DEF Recipe
<1>6. p.id = id /\ p.recipes = {only}
  BY <1>2
<1> HIDE DEF only
<1>7. Quotes(p, id, "official", reference)
  <2> HIDE DEF reference
  <2> QED
    BY <1>5, <1>6 DEF Quotes
<1>8. n = k
  <2>1. r \in p.recipes /\ n \in r.minimum .. r.maximum
    BY <1>3, Zenon DEF Asks
  <2>2. r = only
    BY <1>6, <2>1
  <2>3. n \in k .. k
    BY <1>5, <2>1, <2>2
  <2> QED
    BY <1>4, <2>3
<1>10. ValidFor(vector, n, TRUE)
  BY <1>4, <1>8, Zenon
<1> HIDE DEF reference
<1>11. Accepts(official, n, reference)
  BY <1>9 DEF reference
<1>12. ServesRecipe(Built(id, "official", grid, shifts, n, official, vector), p, r, n)
  BY <1>3, <1>7, <1>10, <1>11, BuiltForRecipe, Zenon
<1> QED
  BY <1>1, <1>8, <1>12, Zenon

(* The ratios of the table; the one row with a fixed number of steps       *)
LEMMA WanRatios ==
  /\ \A d \in WanDefinitions : d.ratio \in 1 .. 16
  /\ \A d \in WanDefinitions : d.exact => d.ratio = 5 /\ d.steps = 6
<1>1. \A d \in WanDefinitions : d.ratio \in {3, 5, 8, 12, 16}
  BY DEF WanDefinitions, Wan21Definitions, Wan22Definitions, WanLaterDefinitions, WanRow
<1>2. \A d \in WanDefinitions : d.exact => d.ratio = 5 /\ d.steps = 6
  BY DEF WanDefinitions, Wan21Definitions, Wan22Definitions, WanLaterDefinitions, WanRow
<1> QED
  BY <1>1, <1>2

(* The table of the exact row                                              *)
ExactTable == 1000

(* The grid of a row                                                       *)
WanGrid(d, n) == IF d.exact THEN SimpleGrid(n, ExactTable) ELSE ReciprocalGrid(n)

(* The one Wan recipe with an exact grid is a schedule.                    *)
LEMMA ExactServes ==
  ASSUME 160 <= One
  PROVE  ValidFor(Append(RatioShift(SimpleGrid(6, ExactTable), 5, 1), 0), 6, TRUE)
<1> DEFINE n == 6  table == ExactTable  h == 166  k == 5  g == 1  num == 5  den == 1
<1>1. One \in Nat
  BY RoundingAssumption
<1>2. /\ n \in Nat \ {0} /\ table \in Nat \ {0} /\ h \in Nat /\ h * n <= table
      /\ k \in Nat /\ k * table <= h * One
  BY <1>1 DEF ExactTable
<1>3. /\ num \in Nat \ {0} /\ den \in Nat \ {0} /\ g \in Nat \ {0} /\ g \in Nat
      /\ g * num <= k * den /\ g * den <= k * num
  OBVIOUS
<1> DEFINE x == SimpleGrid(n, table)
           y == RatioShift(x, num, den)
<1>5. x = SimpleGrid(n, table) /\ y = RatioShift(x, num, den)
  OBVIOUS
<1>6. y = RatioShift(SimpleGrid(6, ExactTable), 5, 1) /\ n = 6
  BY Zenon
<1> HIDE DEF n, table, h, k, g, num, den, x, y
<1>7. Spaced(x, n, k)
  BY <1>2, <1>5, SimpleSpaced, Zenon
<1>8. Spaced(y, n, g)
  BY <1>2, <1>3, <1>5, <1>7, RatioSpaced
<1>9. ValidFor(Append(y, 0), n, TRUE)
  BY <1>2, <1>3, <1>8, SpacedIsValid, Zenon
<1> QED
  BY <1>6, <1>9, Zenon

(* The values of every row are a schedule.                                 *)
LEMMA WanValues ==
  ASSUME NEW d \in WanDefinitions, NEW n, FineFor(n), d.exact => n = d.steps
  PROVE  ValidFor(Append(RatioShift(WanGrid(d, n), d.ratio, 1), 0), n, TRUE)
<1>1. CASE d.exact
  <2>1. n = 6 /\ d.ratio = 5
    BY <1>1, WanRatios
  <2>2. WanGrid(d, n) = SimpleGrid(6, ExactTable)
    BY <1>1, <2>1, Zenon DEF WanGrid
  <2>3. 160 <= One
    BY Zenon DEF FineFor
  <2> QED
    BY <2>1, <2>2, <2>3, ExactServes, Zenon
<1>2. CASE ~d.exact
  <2>1. WanGrid(d, n) = ReciprocalGrid(n)
    BY <1>2, Zenon DEF WanGrid
  <2>2. Gentle(d.ratio, 1)
    BY WanRatios, GentleRatios
  <2>3. ValidFor(Append(RatioShift(ReciprocalGrid(n), d.ratio, 1), 0), n, TRUE)
    BY <2>2, ReciprocalServes, Zenon
  <2> QED
    BY <2>1, <2>3, Zenon
<1> QED
  BY <1>1, <1>2, Zenon

(* What a profile of the table quotes; an exact row has no other steps.    *)
LEMMA WanQuotes ==
  ASSUME NEW p \in WanDeclared
  PROVE  \E d \in WanDefinitions :
            /\ Quotes(p, d.id, d.evidence, {d.steps})
            /\ d.exact => \A r \in p.recipes : r.minimum = d.steps /\ r.maximum = d.steps
<1> DEFINE Only(e) == {Recipe(e.evidence, e.steps, e.steps, {e.steps}, FALSE)}
           RowRecipes(e) == IF e.exact THEN Only(e) ELSE OneSource(e.evidence, e.steps)
           Grid(e) == IF e.exact THEN "comfyui.simple_discrete_flow"
                      ELSE "flowmatch.reciprocal_step"
           shifts == <<"direct_ratio.shift">>
<1>1. WanDeclared = {[Declared(e.id, "wan", e.id, Grid(e), shifts, RowRecipes(e))
                        EXCEPT !.sampler = e.sampler] : e \in WanDefinitions}
  BY Zenon DEF WanDeclared
<1>2. \A e : (e.exact => RowRecipes(e) = Only(e))
             /\ (~e.exact => RowRecipes(e) = OneSource(e.evidence, e.steps))
  BY Zenon
<1>3. ASSUME NEW e, NEW r \in Only(e)
      PROVE  r.evidence = e.evidence /\ r.reference = {e.steps}
             /\ r.minimum = e.steps /\ r.maximum = e.steps
  <2> DEFINE k == e.steps  evidence == e.evidence  reference == {k}  off == FALSE
  <2>1. r = Recipe(evidence, k, k, reference, off)
    BY Zenon
  <2> HIDE DEF k, evidence, reference, off
  <2>2. r.evidence = evidence /\ r.reference = reference /\ r.minimum = k /\ r.maximum = k
    BY <2>1 DEF Recipe
  <2> QED
    BY <2>2 DEF k, evidence, reference
<1> HIDE DEF Only, RowRecipes, Grid, shifts
<1>4. PICK d \in WanDefinitions :
         p = [Declared(d.id, "wan", d.id, Grid(d), shifts, RowRecipes(d))
                EXCEPT !.sampler = d.sampler]
  BY <1>1, Zenon
<1>5. p.id = d.id /\ p.recipes = RowRecipes(d)
  <2> DEFINE id == d.id  grid == Grid(d)  recipes == RowRecipes(d)  sampler == d.sampler
  <2>1. p = [Declared(id, "wan", id, grid, shifts, recipes) EXCEPT !.sampler = sampler]
    BY <1>4, Zenon
  <2> HIDE DEF id, grid, recipes, sampler
  <2>2. p.id = id /\ p.recipes = recipes
    BY <2>1, SampledFact
  <2> QED
    BY <2>2 DEF id, recipes
<1>6. CASE d.exact
  <2>1. \A r \in p.recipes : r.evidence = d.evidence /\ r.reference = {d.steps}
                             /\ r.minimum = d.steps /\ r.maximum = d.steps
    BY <1>2, <1>3, <1>5, <1>6, Zenon
  <2>2. Quotes(p, d.id, d.evidence, {d.steps})
    BY <1>5, <2>1, Zenon DEF Quotes
  <2> QED
    BY <2>1, <2>2, Zenon
<1>7. CASE ~d.exact
  <2>1. \A r \in p.recipes : r.evidence = d.evidence /\ r.reference = {d.steps}
    <3> DEFINE k == d.steps  evidence == d.evidence
    <3>1. p.recipes = OneSource(evidence, k)
      BY <1>2, <1>5, <1>7, Zenon
    <3> HIDE DEF k, evidence
    <3>2. \A r \in p.recipes : r.evidence = evidence /\ r.reference = {k}
      BY <3>1, SourceOf
    <3> QED
      BY <3>2 DEF k, evidence
  <2>2. Quotes(p, d.id, d.evidence, {d.steps})
    BY <1>5, <2>1, Zenon DEF Quotes
  <2> QED
    BY <1>7, <2>2, Zenon
<1> QED
  BY <1>6, <1>7, Zenon

(* Wan: the row of the profile serves it.                                  *)
LEMMA WanServes ==
  ASSUME NEW p \in WanDeclared, NEW r, NEW n, NEW strict, Asks(p, r, n, strict)
  PROVE  \E d \in WanDefinitions : ServesRecipe(WanSchedule(d, n, strict), p, r, n)
<1>1. PICK d \in WanDefinitions :
        /\ Quotes(p, d.id, d.evidence, {d.steps})
        /\ d.exact => \A q \in p.recipes : q.minimum = d.steps /\ q.maximum = d.steps
  BY WanQuotes, Zenon
<1> DEFINE grid == IF d.exact THEN "comfyui.simple_discrete_flow"
                   ELSE "flowmatch.reciprocal_step"
           shifts == <<"direct_ratio.shift">>
           official == n = d.steps
           values == Append(RatioShift(WanGrid(d, n), d.ratio, 1), 0)
           refused == (strict \/ d.exact) /\ n # d.steps
           Step(b) == IF d.boundary = 0 THEN -1 ELSE WanBoundary(b.values, Boundary(d))
           id == d.id
           evidence == d.evidence
           k == d.steps
           reference == {k}
           built == Built(id, evidence, grid, shifts, n, official, values)
<1>2. WanSchedule(d, n, strict) =
        IF refused THEN {} ELSE {[b EXCEPT !.boundary = Step(b)] : b \in built}
  BY Zenon DEF WanSchedule, WanGrid, ExactTable
<1>3. k \in Nat
  <2>1. d.steps \in {6, 10, 20, 40, 50}
    BY WanTable
  <2> QED
    BY <2>1
<1>4. d.exact => n = k
  <2>1. r \in p.recipes /\ n \in r.minimum .. r.maximum
    BY Zenon DEF Asks
  <2> HIDE DEF k
  <2>2. d.exact => n \in k .. k
    BY <1>1, <2>1 DEF k
  <2> QED
    BY <1>3, <2>2
<1>5. Quotes(p, id, evidence, reference)
  BY <1>1, Zenon
<1>6. strict => n = k
  <2>1. strict => n \in reference
    <3> HIDE DEF id, evidence, reference
    <3> QED
      BY <1>5, StrictAsksSource
  <2> QED
    BY <2>1, Zenon
<1>7. ~refused
  BY <1>4, <1>6, Zenon
<1>8. Accepts(official, n, reference)
  BY DEF Accepts
<1>9. FineFor(n)
  BY Zenon DEF Asks
<1>10. ValidFor(values, n, TRUE)
  BY <1>4, <1>9, WanValues, Zenon
<1> HIDE DEF grid, shifts, official, values, refused, Step, id, evidence, k, reference
<1>11. ServesRecipe(built, p, r, n)
  BY <1>5, <1>8, <1>10, BuiltForRecipe, Zenon
<1>12. PICK s \in built : /\ s.profile = p.id /\ s.steps = n /\ ValidFor(s.values, n, TRUE)
                          /\ n \in r.reference => s.evidence = r.evidence
  BY <1>11, Zenon DEF ServesRecipe, Serves
<1> DEFINE step == Step(s)
           t == [s EXCEPT !.boundary = step]
<1>13. t \in WanSchedule(d, n, strict)
  BY <1>2, <1>7, Zenon
<1>14. Alike(t, s)
  <2> HIDE DEF step
  <2>1. WithBoundary(t, s, step)
    BY BuiltExceptBoundary, Zenon
  <2> QED
    BY <2>1, Zenon DEF WithBoundary
<1> HIDE DEF t, step, built
<1>15. ServesRecipe(WanSchedule(d, n, strict), p, r, n)
  BY <1>12, <1>13, <1>14, Zenon DEF ServesRecipe, Serves, Alike
<1> QED
  BY <1>15, Zenon

(* s is a schedule some node delivers for these steps, this sequence       *)
(* length and strictness, at the default terminal of LTX                   *)
Offered(s, n, tokens, strict) ==
    \/ s \in AuraFlowSchedule(n, strict)
    \/ s \in Lumina2Schedule(n, strict)
    \/ s \in Flux1SchnellSchedule(n, strict)
    \/ \E v \in DOMAIN AnimaSteps : s \in AnimaSchedule(v, n, strict)
    \/ \E distilled \in BOOLEAN : s \in HunyuanImage21Schedule(distilled, n, strict)
    \/ \E publisher \in BOOLEAN : s \in SD3Schedule(publisher, n, strict)
    \/ \E turbo \in BOOLEAN : s \in ZImageSchedule(turbo, n, strict)
    \/ (strict => n = 8) /\ s \in Krea2TurboSchedule(n)
    \/ (strict => n = 52) /\ s \in Krea2RawSchedule(n, tokens)
    \/ \E raw_mu \in BOOLEAN : s \in Krea2LoraSchedule(n, tokens, raw_mu)
    \/ \E dynamic \in BOOLEAN, t \in {0, tokens} :
          s \in QwenImageSchedule(dynamic, n, t, strict)
    \/ \E lane \in {"original", "native", "dynamic"}, t \in {0, tokens} :
          s \in QwenNativeSchedule(lane, n, t, strict)
    \/ \E g \in DOMAIN LTXDevSteps, stretch \in BOOLEAN :
          s \in LTXDevSchedule(g, n, tokens, stretch, One \div 10, strict)
    \/ \E g \in {"ltx2", "ltx23"}, stage \in {"stage1", "stage2"} :
          s \in LTXDistilledSchedule(g, stage, n)
    \/ \E d \in WanDefinitions : s \in WanSchedule(d, n, strict)

(* Recipe r of profile p is served for n steps.                            *)
Served(p, r, n, tokens, strict) ==
    \E s : /\ Offered(s, n, tokens, strict)
           /\ s.profile = p.id /\ s.steps = n /\ ValidFor(s.values, n, TRUE)
           /\ n \in r.reference => s.evidence = r.evidence

(* A strict request asks for the steps of the source, and the node of      *)
(* Krea 2 takes strict to mean the official recipe.                        *)
StrictlyFor(p, r, n) ==
    n \in r.reference /\ (p \in Krea2RawDeclared => r.evidence = "official")

(* A builder the nodes offer serves what its schedules serve.              *)
LEMMA ServedBy ==
  ASSUME NEW S, NEW p, NEW r, NEW n, NEW tokens, NEW strict, ServesRecipe(S, p, r, n),
         \A s \in S : Offered(s, n, tokens, strict)
  PROVE  Served(p, r, n, tokens, strict)
  BY Zenon DEF ServesRecipe, Serves, Served

(* Strict requests the node of Krea 2 does not refuse                      *)
LEMMA Krea2Strict ==
  ASSUME NEW p, NEW r \in p.recipes, NEW n, StrictlyFor(p, r, n)
  PROVE  /\ p \in Krea2TurboDeclared => n = 8
         /\ p \in Krea2RawDeclared => n = 52
<1>1. n \in r.reference /\ (p \in Krea2RawDeclared => r.evidence = "official")
  BY Zenon DEF StrictlyFor
<1> DEFINE on == TRUE
           off == FALSE
           shifts == <<"krea.exponential_mu">>
           grid == "krea.reciprocal_step"
<1>2. ASSUME p \in Krea2TurboDeclared PROVE n = 8
  <2> DEFINE only == Recipe("official", 1, MaxSteps, {8}, on)
  <2>1. p = [Declared("krea2.turbo", "krea2", "turbo", grid, shifts, {only})
               EXCEPT !.sampler = "comfy.euler"]
    BY <1>2, Zenon DEF Krea2TurboDeclared
  <2> HIDE DEF on, shifts, grid
  <2>2. only.reference = {8}
    BY DEF Recipe
  <2> HIDE DEF only
  <2>3. p.recipes = {only}
    BY <2>1, SampledFact
  <2> QED
    BY <1>1, <2>2, <2>3
<1>3. ASSUME p \in Krea2RawDeclared PROVE n = 52
  <2> DEFINE first == Recipe("framework_reference", 28, 28, {28}, off)
             second == Recipe("official", 52, 52, {52}, off)
  <2>1. p = [Declared("krea2.raw", "krea2", "raw", grid, shifts, {first, second})
               EXCEPT !.sampler = "comfy.euler"]
    BY <1>3, Zenon DEF Krea2RawDeclared
  <2> HIDE DEF off, shifts, grid
  <2>2. first.evidence = "framework_reference" /\ second.reference = {52}
    BY DEF Recipe
  <2> HIDE DEF first, second
  <2>3. p.recipes = {first, second}
    BY <2>1, SampledFact
  <2>4. r.evidence = "official"
    BY <1>1, <1>3
  <2> QED
    BY <1>1, <2>2, <2>3, <2>4
<1> QED
  BY <1>2, <1>3

(* Every number of steps a recipe of a registered profile declares is      *)
(* served: some node delivers a whole schedule of that profile with that   *)
(* many steps, under the evidence of the recipe when its source vouches    *)
(* for them, and a strict request for those is not refused. Schemas and    *)
(* builders in profiles/ hold the numbers apart, except for Wan and native *)
(* Qwen, which share a table.                                              *)
THEOREM DeclaredStepsAreServed ==
  ASSUME NEW p \in Builtin, NEW r \in p.recipes, NEW n \in r.minimum .. r.maximum,
         FineFor(n), NEW tokens \in Tokens, NEW strict \in BOOLEAN,
         strict => StrictlyFor(p, r, n)
  PROVE  Served(p, r, n, tokens, strict)
<1>1. Asks(p, r, n, strict)
  BY Zenon DEF Asks, StrictlyFor
<1>2. CASE p \in AuraFlowDeclared
  <2>1. \A s \in AuraFlowSchedule(n, strict) : Offered(s, n, tokens, strict)
    BY Zenon DEF Offered
  <2> QED
    BY <1>1, <1>2, <2>1, AuraFlowServes, ServedBy, Zenon
<1>3. CASE p \in Lumina2Declared
  <2>1. \A s \in Lumina2Schedule(n, strict) : Offered(s, n, tokens, strict)
    BY Zenon DEF Offered
  <2> QED
    BY <1>1, <1>3, <2>1, Lumina2Serves, ServedBy, Zenon
<1>4. CASE p \in Flux1SchnellDeclared
  <2>1. \A s \in Flux1SchnellSchedule(n, strict) : Offered(s, n, tokens, strict)
    BY Zenon DEF Offered
  <2> QED
    BY <1>1, <1>4, <2>1, Flux1SchnellServes, ServedBy, Zenon
<1>5. CASE p \in AnimaDeclared
  <2>1. PICK v \in DOMAIN AnimaSteps : ServesRecipe(AnimaSchedule(v, n, strict), p, r, n)
    BY <1>1, <1>5, AnimaServes, Zenon
  <2>2. \A s \in AnimaSchedule(v, n, strict) : Offered(s, n, tokens, strict)
    BY Zenon DEF Offered
  <2> QED
    BY <2>1, <2>2, ServedBy, Zenon
<1>6. CASE p \in HunyuanImage21Declared
  <2>1. PICK distilled \in BOOLEAN :
           ServesRecipe(HunyuanImage21Schedule(distilled, n, strict), p, r, n)
    BY <1>1, <1>6, HunyuanImage21Serves, Zenon
  <2>2. \A s \in HunyuanImage21Schedule(distilled, n, strict) : Offered(s, n, tokens, strict)
    BY Zenon DEF Offered
  <2> QED
    BY <2>1, <2>2, ServedBy, Zenon
<1>7. CASE p \in SD3Declared
  <2>1. PICK publisher \in BOOLEAN : ServesRecipe(SD3Schedule(publisher, n, strict), p, r, n)
    BY <1>1, <1>7, SD3Serves, Zenon
  <2>2. \A s \in SD3Schedule(publisher, n, strict) : Offered(s, n, tokens, strict)
    BY Zenon DEF Offered
  <2> QED
    BY <2>1, <2>2, ServedBy, Zenon
<1>8. CASE p \in ZImageDeclared
  <2>1. PICK turbo \in BOOLEAN : ServesRecipe(ZImageSchedule(turbo, n, strict), p, r, n)
    BY <1>1, <1>8, ZImageServes, Zenon
  <2>2. \A s \in ZImageSchedule(turbo, n, strict) : Offered(s, n, tokens, strict)
    BY Zenon DEF Offered
  <2> QED
    BY <2>1, <2>2, ServedBy, Zenon
<1>9. CASE p \in Krea2TurboDeclared
  <2>1. strict => n = 8
    BY <1>9, Krea2Strict, Zenon
  <2>2. \A s \in Krea2TurboSchedule(n) : Offered(s, n, tokens, strict)
    BY <2>1, Zenon DEF Offered
  <2> QED
    BY <1>1, <1>9, <2>2, Krea2TurboServes, ServedBy, Zenon
<1>10. CASE p \in Krea2RawDeclared
  <2>1. strict => n = 52
    BY <1>10, Krea2Strict, Zenon
  <2>2. \A s \in Krea2RawSchedule(n, tokens) : Offered(s, n, tokens, strict)
    BY <2>1, Zenon DEF Offered
  <2> QED
    BY <1>1, <1>10, <2>2, Krea2RawServes, ServedBy, Zenon
<1>11. CASE p \in Krea2LoraDeclared
  <2>1. PICK raw_mu \in BOOLEAN : TRUE
    OBVIOUS
  <2>2. \A s \in Krea2LoraSchedule(n, tokens, raw_mu) : Offered(s, n, tokens, strict)
    BY Zenon DEF Offered
  <2>3. ServesRecipe(Krea2LoraSchedule(n, tokens, raw_mu), p, r, n)
    BY <1>1, <1>11, Krea2LoraServes, Zenon
  <2> QED
    BY <2>2, <2>3, ServedBy, Zenon
<1>12. CASE p \in QwenImageDeclared
  <2>1. PICK dynamic \in BOOLEAN, t \in {0, tokens} :
           ServesRecipe(QwenImageSchedule(dynamic, n, t, strict), p, r, n)
    BY <1>1, <1>12, QwenImageServes, Zenon
  <2>2. \A s \in QwenImageSchedule(dynamic, n, t, strict) : Offered(s, n, tokens, strict)
    BY Zenon DEF Offered
  <2> QED
    BY <2>1, <2>2, ServedBy, Zenon
<1>13. CASE p \in QwenNativeDeclared
  <2>1. PICK lane \in {"original", "native", "dynamic"}, t \in {0, tokens} :
           ServesRecipe(QwenNativeSchedule(lane, n, t, strict), p, r, n)
    BY <1>1, <1>13, QwenNativeServes, Zenon
  <2>2. \A s \in QwenNativeSchedule(lane, n, t, strict) : Offered(s, n, tokens, strict)
    BY Zenon DEF Offered
  <2> QED
    BY <2>1, <2>2, ServedBy, Zenon
<1>14. CASE p \in LTXDeclared
  <2> DEFINE terminal == One \div 10
  <2>1. terminal = One \div 10
    OBVIOUS
  <2>2. CASE \E g \in {"ltxv", "ltx2", "ltx23"} : p = LTXDev(g)
    <3>1. PICK g \in {"ltxv", "ltx2", "ltx23"} : p = LTXDev(g)
      BY <2>2
    <3> HIDE DEF terminal
    <3>2. PICK stretch \in BOOLEAN :
             ServesRecipe(LTXDevSchedule(g, n, tokens, stretch, terminal, strict), p, r, n)
      BY <1>1, <2>1, <3>1, LTXDevServes
    <3>3. g \in DOMAIN LTXDevSteps
      BY LTXIds
    <3>4. \A s \in LTXDevSchedule(g, n, tokens, stretch, terminal, strict) :
             Offered(s, n, tokens, strict)
      BY <3>3, Zenon DEF Offered, terminal
    <3> QED
      BY <3>2, <3>4, ServedBy, Zenon
  <2>3. CASE \E g \in {"ltx2", "ltx23"}, stage \in {"stage1", "stage2"} :
                p = LTXDistilled(g, stage)
    <3>1. PICK g \in {"ltx2", "ltx23"}, stage \in {"stage1", "stage2"} :
                p = LTXDistilled(g, stage)
      BY <2>3
    <3>2. ServesRecipe(LTXDistilledSchedule(g, stage, n), p, r, n)
      BY <1>1, <3>1, LTXDistilledServes, Zenon
    <3>3. \A s \in LTXDistilledSchedule(g, stage, n) : Offered(s, n, tokens, strict)
      BY Zenon DEF Offered
    <3> QED
      BY <3>2, <3>3, ServedBy, Zenon
  <2> QED
    BY <1>14, <2>2, <2>3, LTXRow, Zenon
<1>15. CASE p \in WanDeclared
  <2>1. PICK d \in WanDefinitions : ServesRecipe(WanSchedule(d, n, strict), p, r, n)
    BY <1>1, <1>15, WanServes, Zenon
  <2>2. \A s \in WanSchedule(d, n, strict) : Offered(s, n, tokens, strict)
    BY Zenon DEF Offered
  <2> QED
    BY <2>1, <2>2, ServedBy, Zenon
<1>16. p \in UNION {AuraFlowDeclared, Lumina2Declared, AnimaDeclared, HunyuanImage21Declared,
           SD3Declared, ZImageDeclared, Flux1SchnellDeclared, Krea2TurboDeclared,
           Krea2RawDeclared, Krea2LoraDeclared, QwenImageDeclared,
           QwenNativeDeclared, LTXDeclared, WanDeclared}
  BY Zenon DEF Builtin
<1> QED
  BY <1>2, <1>3, <1>4, <1>5, <1>6, <1>7, <1>8, <1>9, <1>10, <1>11, <1>12, <1>13, <1>14,
     <1>15, <1>16, Zenon
=============================================================================

---------------------------- MODULE InstallProofs ----------------------------
(***************************************************************************)
(* What holds of the installation of the package, whatever checkouts,      *)
(* packs, declarations and nodes there are: loads of the package first,    *)
(* then packs that change the host, then the registry of the nodes, then   *)
(* the packaged workflows.                                                 *)
(***************************************************************************)
EXTENDS MCInstall, InductionFacts

-----------------------------------------------------------------------------
(* Loads of the package.                                                   *)

LoadingType ==
    /\ package \in Checkouts \cup {Nobody}
    /\ parts \in [1 .. Len(Parts) -> Checkouts \cup {Nobody}]
    /\ loading \in [checkout : Checkouts, done : 0 .. Len(Parts)] \cup {Nobody}

(* The parts a load has behind it are in the table, and while it lasts the *)
(* package is its own.                                                     *)
LoadingInv ==
    /\ LoadingType
    /\ loading # Nobody =>
          /\ package = loading.checkout
          /\ \A i \in 1 .. loading.done : parts[i] # Nobody
    /\ ExistingIsComplete

LEMMA PartsFact == Len(Parts) \in Nat /\ DOMAIN Parts = 1 .. Len(Parts)
  BY LoadingAssumption

LEMMA LoadingStarts == LoadingInit => LoadingInv
  BY PartsFact DEF LoadingInit, LoadingInv, LoadingType, ExistingIsComplete

LEMMA LoadingKeeps == ASSUME LoadingInv, [LoadingNext]_loader PROVE LoadingInv'
<1> USE PartsFact, LoadingAssumption DEF LoadingInv, LoadingType, ExistingIsComplete
<1>1. loading # Nobody => loading \in [checkout : Checkouts, done : 0 .. Len(Parts)]
  OBVIOUS
<1>2. ASSUME NEW c \in Checkouts, Load(c) PROVE LoadingInv'
  <2>1. CASE Existing(c)
    BY <1>2, <2>1 DEF Load, Existing
  <2>2. CASE Begin(c)
    BY <1>2, <2>2 DEF Load, Begin
  <2> QED
    BY <1>2, <2>1, <2>2 DEF Load
<1>3. CASE Import
  <2>1. /\ loading # Nobody /\ loading.done < Len(Parts)
        /\ loading' = [loading EXCEPT !.done = @ + 1]
        /\ UNCHANGED <<package, served>>
    BY <1>3 DEF Import
  <2>2. /\ loading' \in [checkout : Checkouts, done : 0 .. Len(Parts)]
        /\ loading'.done = loading.done + 1 /\ loading'.checkout = loading.checkout
    BY <1>1, <2>1
  <2>3. /\ parts' \in [1 .. Len(Parts) -> Checkouts \cup {Nobody}]
        /\ parts'[loading.done + 1] # Nobody
        /\ \A i \in 1 .. Len(Parts) : parts[i] # Nobody => parts'[i] # Nobody
    BY <1>1, <1>3, <2>1 DEF Import
  <2>4. \A i \in 1 .. loading'.done : parts'[i] # Nobody
    BY <1>1, <2>1, <2>2, <2>3
  <2> QED
    BY <2>1, <2>2, <2>3, <2>4
<1>4. CASE ImportFails
  BY <1>4 DEF ImportFails
<1>5. CASE Loaded
  BY <1>1, <1>5 DEF Loaded
<1>6. CASE UNCHANGED loader
  BY <1>6 DEF loader
<1> QED
  BY <1>2, <1>3, <1>4, <1>5, <1>6 DEF LoadingNext

(* Whatever checkouts are loaded in whatever order and however many loads  *)
(* fail, the package that is found and every mapping the host was given    *)
(* are of a load that came to its end (_load_checkout_package).            *)
THEOREM FoundPackagesAreComplete == LoadingSpec => []ExistingIsComplete
<1>1. LoadingInv => ExistingIsComplete
  BY DEF LoadingInv
<1> QED
  BY <1>1, LoadingStarts, LoadingKeeps, PTL DEF LoadingSpec

-----------------------------------------------------------------------------
(* Packs that change the host.                                             *)

MutationType ==
    /\ host.nodes \in [NodeNames -> Entries \cup {Absent}]
    /\ host.schedulers \in [SchedulerNames -> Entries \cup {Absent}]

MutationInv ==
    /\ MutationType
    /\ ChainIsAllowed
    /\ \A a \in admitted : a[1] \in NodeNames /\ a[2] # Absent

(* What is not found of a change.                                          *)
LEMMA AllowedFact ==
    ASSUME NEW before, NEW after
    PROVE  Allowed(before, after) <=>
              /\ ~Replaced(before.nodes, after.nodes)
              /\ ~Hijacked(before.nodes, after.nodes)
              /\ ~Replaced(before.schedulers, after.schedulers)
              /\ before.torch = after.torch /\ before.patch = after.patch
              /\ ~(after.shifts > 1) /\ ~ShiftedTwice(after)
  BY DEF Allowed, Findings

(* A change that is allowed after one that was is one that would have been *)
(* allowed at once.                                                        *)
LEMMA AllowedIsTransitive ==
    ASSUME NEW first, NEW second, NEW third,
           DOMAIN first.nodes = NodeNames, DOMAIN second.nodes = NodeNames,
           DOMAIN first.schedulers = SchedulerNames, DOMAIN second.schedulers = SchedulerNames,
           Allowed(first, second), Allowed(second, third)
    PROVE  Allowed(first, third)
<1>1. ~Replaced(first.nodes, third.nodes)
  BY AllowedFact DEF Replaced
<1>2. ~Hijacked(first.nodes, third.nodes)
  BY AllowedFact, BaselineAssumption DEF Replaced, Hijacked
<1>3. ~Replaced(first.schedulers, third.schedulers)
  BY AllowedFact DEF Replaced
<1> QED
  BY <1>1, <1>2, <1>3, AllowedFact

LEMMA MutationStarts == MutationInit => MutationInv
  BY BaselineAssumption DEF MutationInit, MutationInv, MutationType, ChainIsAllowed, NodesOf

LEMMA MutationKeeps == ASSUME MutationInv, [MutationNext]_mutation PROVE MutationInv'
<1> USE DEF MutationInv, MutationType, ChainIsAllowed
<1>1. CASE UNCHANGED <<host, admitted>>
  BY <1>1
<1>2. ASSUME NEW after \in Operated(host), Install(after), Allowed(host, after)
      PROVE  MutationInv'
  <2>1. host' = after /\ admitted' = admitted \cup NodesOf(after)
    BY <1>2 DEF Install
  <2>2. /\ after.nodes \in [NodeNames -> Entries \cup {Absent}]
        /\ after.schedulers \in [SchedulerNames -> Entries \cup {Absent}]
    <3>1. ASSUME NEW id \in NodeNames, NEW e \in Entries \cup {Absent},
                 after = WithNode(host, id, e)
          PROVE  <2>2
      BY <3>1 DEF WithNode
    <3>2. ASSUME NEW n \in SchedulerNames, NEW e \in Entries \cup {Absent},
                 after = WithScheduler(host, n, e)
          PROVE  <2>2
      BY <3>2 DEF WithScheduler
    <3>3. ASSUME NEW o \in {"external_sigmas", "model_native"}, NEW n \in 0 .. 2,
                 NEW s \in BOOLEAN, after = WithShift(host, o, n, s)
          PROVE  <2>2
      <4>1. after.nodes = host.nodes /\ after.schedulers = host.schedulers
        BY <3>3 DEF WithShift
      <4> QED
        BY <4>1
    <3>4. ASSUME NEW f \in Fingerprints,
                 after = [host EXCEPT !.torch = f] \/ after = [host EXCEPT !.patch = f]
          PROVE  <2>2
      <4>1. CASE after = [host EXCEPT !.torch = f]
        BY <4>1
      <4>2. CASE after = [host EXCEPT !.patch = f]
        BY <4>2
      <4> QED
        BY <3>4, <4>1, <4>2
    <3>5. CASE after = host
      BY <3>5
    <3> QED
      BY <1>2, <3>1, <3>2, <3>3, <3>4, <3>5 DEF Operated
  <2>3. Allowed(Baseline, after)
    BY <1>2, <2>2, BaselineAssumption, AllowedIsTransitive
  <2>4. \A a \in admitted : after.nodes[a[1]] = a[2]
    BY <1>2, AllowedFact DEF Replaced
  <2>5. \A a \in NodesOf(after) :
           a[1] \in NodeNames /\ a[2] # Absent /\ after.nodes[a[1]] = a[2]
    BY DEF NodesOf
  <2> QED
    BY <2>1, <2>2, <2>3, <2>4, <2>5
<1> QED
  BY <1>1, <1>2 DEF MutationNext, Install, mutation

LEMMA MutationInvariant == MutationSpec => []MutationInv
  BY MutationStarts, MutationKeeps, PTL DEF MutationSpec

-----------------------------------------------------------------------------
(* What a host can do: the more of its nodes qualify, the better.          *)

LEMMA RankFact ==
    Rank("unsupported") = 1 /\ Rank("experimental") = 2 /\ Rank("landed") = 3
<1>1. DOMAIN Lifecycles = 1 .. 3
  BY DEF Lifecycles
<1>2. /\ Lifecycles[1] = "unsupported" /\ Lifecycles[2] = "experimental"
      /\ Lifecycles[3] = "landed"
  BY DEF Lifecycles
<1>3. ASSUME NEW k \in 1 .. 3 PROVE Rank(Lifecycles[k]) = k
  BY <1>1, <1>2 DEF Rank
<1> QED
  BY <1>2, <1>3

(* _best_lifecycle is as good as the best of the nodes.                    *)
LEMMA BestFact ==
    ASSUME NEW nodes
    PROVE  /\ Rank(BestLifecycle(nodes)) \in 1 .. 3
           /\ \A n \in nodes : Rank(BestLifecycle(nodes)) >= Rank(NodeLifecycle(n))
           /\ nodes # {} =>
                 \E n \in nodes : Rank(BestLifecycle(nodes)) = Rank(NodeLifecycle(n))
<1>1. CASE nodes = {}
  BY <1>1, RankFact DEF BestLifecycle
<1>2. CASE nodes # {}
  <2> DEFINE ranks == {Rank(NodeLifecycle(n)) : n \in nodes}
             best == CHOOSE i \in ranks : \A n \in nodes : i >= Rank(NodeLifecycle(n))
  <2>1. ranks \subseteq 1 .. 3 /\ ranks # {}
    BY <1>2, RankFact DEF NodeLifecycle
  <2>2. \E i \in ranks : \A j \in ranks : i >= j
    <3> HIDE DEF ranks
    <3>1. CASE 3 \in ranks
      BY <2>1, <3>1
    <3>2. CASE 3 \notin ranks /\ 2 \in ranks
      BY <2>1, <3>2
    <3>3. CASE 3 \notin ranks /\ 2 \notin ranks
      <4>1. ranks \subseteq {1}
        BY <2>1, <3>3
      <4>2. 1 \in ranks
        BY <2>1, <4>1
      <4> QED
        BY <4>1, <4>2
    <3> QED
      BY <3>1, <3>2, <3>3
  <2>3. best \in ranks /\ \A n \in nodes : best >= Rank(NodeLifecycle(n))
    BY <2>2
  <2>4. BestLifecycle(nodes) = Lifecycles[best]
    BY <1>2 DEF BestLifecycle
  <2> HIDE DEF best
  <2>5. Rank(Lifecycles[best]) = best
    BY <2>1, <2>3, RankFact DEF Lifecycles
  <2> QED
    BY <2>1, <2>3, <2>4, <2>5
<1> QED
  BY <1>1, <1>2

LEMMA BestIsMonotone ==
    ASSUME NEW few, NEW many, few \subseteq many
    PROVE  Rank(BestLifecycle(many)) >= Rank(BestLifecycle(few))
<1>1. CASE few = {}
  <2>1. Rank(BestLifecycle(few)) = 1
    BY <1>1, RankFact DEF BestLifecycle
  <2> QED
    BY <2>1, BestFact
<1>2. CASE few # {}
  <2>1. PICK n \in few : Rank(BestLifecycle(few)) = Rank(NodeLifecycle(n))
    BY <1>2, BestFact
  <2>2. Rank(BestLifecycle(many)) >= Rank(NodeLifecycle(n))
    BY <2>1, BestFact
  <2> QED
    BY <2>1, <2>2
<1> QED
  BY <1>1, <1>2

LEMMA CapabilitiesAreMonotone ==
    ASSUME NEW few, NEW many, few \subseteq many, NEW api
    PROVE  \A c \in DOMAIN HostCapabilities(few, api) :
              Rank(HostCapabilities(many, api)[c]) >= Rank(HostCapabilities(few, api)[c])
<1>1. /\ PartialDenoise(few) \subseteq PartialDenoise(many)
      /\ EulerSelectors(few) \subseteq EulerSelectors(many)
      /\ ExternalSigmas(few) \subseteq ExternalSigmas(many)
  BY DEF PartialDenoise, Having, EulerSelectors, ExternalSigmas
<1>2. /\ Rank(BestLifecycle(PartialDenoise(many))) >= Rank(BestLifecycle(PartialDenoise(few)))
      /\ Rank(BestLifecycle(EulerSelectors(many))) >= Rank(BestLifecycle(EulerSelectors(few)))
      /\ Rank(BestLifecycle(ExternalSigmas(many))) >= Rank(BestLifecycle(ExternalSigmas(few)))
  BY <1>1, BestIsMonotone
<1>3. Rank(ApiLifecycle(api)) \in 1 .. 3 /\ Rank("unsupported") \in 1 .. 3
  BY RankFact DEF ApiLifecycle
<1> QED
  BY <1>2, <1>3 DEF HostCapabilities

LEMMA HostKeepsCapabilities ==
    ASSUME MutationInv, NEW api \in Apis, Probeable(api)
    PROVE  \A c \in DOMAIN CapabilitiesOf(Baseline, api) :
              Rank(CapabilitiesOf(host, api)[c]) >= Rank(CapabilitiesOf(Baseline, api)[c])
<1> DEFINE Present(h) == {i \in NodeNames : h.nodes[i] # Absent}
           Info(h) == [id \in Present(h) |-> [h.nodes[id].content EXCEPT !.name = id]]
           Nodes(h) == {NodeOf(id, Info(h)[id]) : id \in Present(h)}
<1>1. \A id \in NodeNames : Baseline.nodes[id] # Absent => host.nodes[id] = Baseline.nodes[id]
  <2>1. CASE host = Baseline
    BY <2>1
  <2>2. CASE Allowed(Baseline, host)
    BY <2>2, AllowedFact, BaselineAssumption DEF Replaced
  <2> QED
    BY <2>1, <2>2 DEF MutationInv, ChainIsAllowed
<1>2. ASSUME NEW h, h.nodes \in [NodeNames -> Entries \cup {Absent}]
      PROVE  CapabilitiesOf(h, api) = HostCapabilities(Nodes(h), api)
  <2>1. \A id \in Present(h) : NodeOf(id, Info(h)[id]) # Malformed
    BY <1>2, ContentsAssumption DEF Entries
  <2>2. DOMAIN Info(h) = Present(h)
    OBVIOUS
  <2>3. CapabilitiesOf(h, api) = AdaptHost(Info(h), api, TRUE)
    BY DEF CapabilitiesOf
  <2> HIDE DEF Info
  <2>4. ObjectInfo(Info(h)) = Nodes(h)
    BY <2>1, <2>2 DEF ObjectInfo
  <2> HIDE DEF Present
  <2> QED
    BY <1>2, <2>1, <2>3, <2>4 DEF AdaptHost
<1>3. Nodes(Baseline) \subseteq Nodes(host)
  <2> SUFFICES ASSUME NEW id \in Present(Baseline)
               PROVE  id \in Present(host) /\ Info(Baseline)[id] = Info(host)[id]
    OBVIOUS
  <2> QED
    BY <1>1
<1>4. /\ host.nodes \in [NodeNames -> Entries \cup {Absent}]
      /\ Baseline.nodes \in [NodeNames -> Entries \cup {Absent}]
  BY BaselineAssumption DEF MutationInv, MutationType
<1> HIDE DEF Nodes
<1> QED
  BY <1>2, <1>3, <1>4, CapabilitiesAreMonotone

(* However many packs were accepted one after the other, whatever they     *)
(* register, the host would be accepted against the first snapshot and can *)
(* do what it could (evaluate_host_mutation, adapt_comfyui_host).          *)
THEOREM AcceptedChainsKeepHosts == MutationSpec => []AcceptedChainKeepsHost
<1>1. MutationInv => AcceptedChainKeepsHost
  BY HostKeepsCapabilities DEF MutationInv, AcceptedChainKeepsHost
<1> QED
  BY <1>1, MutationInvariant, PTL

-----------------------------------------------------------------------------
(* The registry.  What a batch does to it, in one step.                    *)

LEMMA RegisteredManyFact ==
    ASSUME NEW entries, NEW batch, Len(batch) \in Nat, DOMAIN batch = 1 .. Len(batch)
    PROVE  RegisteredMany(entries, batch) \in {Collision, entries \cup ToSet(batch)}
<1> DEFINE Step(n, before) == IF n = 0 THEN entries
                              ELSE IF before = Collision THEN Collision
                              ELSE Registered(before, batch[n])
           Goes(m, f) == f = [n \in 0 .. m |-> Step(n, f[n - 1])]
           done == CHOOSE f : Goes(Len(batch), f)
           Upto(n) == entries \cup {batch[i] : i \in 1 .. n}
           T == {m \in Nat : \E f : Goes(m, f)}
           U == {n \in Nat : n <= Len(batch) => done[n] \in {Collision, Upto(n)}}
<1>1. \A before : Step(0, before) = entries
  OBVIOUS
<1>2. 0 \in T
  <2>1. Goes(0, [n \in 0 .. 0 |-> entries])
    OBVIOUS
  <2> QED
    BY <2>1
<1>3. ASSUME NEW m \in T PROVE m + 1 \in T
  <2>1. PICK f : Goes(m, f)
    BY <1>3
  <2> DEFINE next == Step(m + 1, f[m])
             g == [n \in 0 .. m + 1 |-> IF n = m + 1 THEN next ELSE f[n]]
  <2> HIDE DEF Step
  <2>2. ASSUME NEW n \in 0 .. m + 1 PROVE g[n] = Step(n, g[n - 1])
    <3>1. CASE n = 0
      BY <1>1, <2>1, <3>1
    <3>2. CASE n \in 1 .. m
      <4>1. g[n] = f[n] /\ g[n - 1] = f[n - 1]
        BY <3>2
      <4> QED
        BY <2>1, <3>2, <4>1
    <3>3. CASE n = m + 1
      <4>1. g[n] = next /\ g[m] = f[m] /\ n - 1 = m
        BY <3>3
      <4> QED
        BY <3>3, <4>1
    <3> QED
      BY <3>1, <3>2, <3>3
  <2>3. Goes(m + 1, g)
    BY <2>2
  <2> HIDE DEF Goes, g
  <2> QED
    BY <2>3
<1>4. T = Nat
  <2>1. T \in SUBSET Nat
    OBVIOUS
  <2> HIDE DEF T
  <2> QED
    BY <1>2, <1>3, <2>1, SetInduction
<1>5. Goes(Len(batch), done)
  <2>1. \E f : Goes(Len(batch), f)
    BY <1>4
  <2> HIDE DEF Goes
  <2> QED
    BY <2>1
<1>6. RegisteredMany(entries, batch) = done[Len(batch)]
  BY DEF RegisteredMany
<1> HIDE DEF done
<1>7. \A n \in 0 .. Len(batch) : done[n] = Step(n, done[n - 1])
  <2> HIDE DEF Step
  <2> QED
    BY <1>5
<1>8. 0 \in U
  <2>1. done[0] = entries
    BY <1>7
  <2> QED
    BY <2>1
<1>9. ASSUME NEW n \in U PROVE n + 1 \in U
  <2> SUFFICES ASSUME n + 1 <= Len(batch) PROVE done[n + 1] \in {Collision, Upto(n + 1)}
    OBVIOUS
  <2>1. done[n] \in {Collision, Upto(n)}
    BY <1>9
  <2>2. done[n + 1] = IF done[n] = Collision THEN Collision
                      ELSE Registered(done[n], batch[n + 1])
    <3>1. n + 1 \in 0 .. Len(batch) /\ n + 1 # 0 /\ (n + 1) - 1 = n
      OBVIOUS
    <3> QED
      BY <1>7, <3>1
  <2>3. Upto(n + 1) = Upto(n) \cup {batch[n + 1]}
    OBVIOUS
  <2> HIDE DEF Upto
  <2> QED
    BY <2>1, <2>2, <2>3 DEF Registered
<1>10. U = Nat
  <2>1. U \in SUBSET Nat
    OBVIOUS
  <2> HIDE DEF U
  <2> QED
    BY <1>8, <1>9, <2>1, SetInduction
<1>11. Upto(Len(batch)) = entries \cup ToSet(batch)
  BY DEF ToSet
<1> QED
  BY <1>6, <1>10, <1>11

LEMMA BatchFact ==
    ASSUME NEW batch \in Batches, RegisterBatch(batch)
    PROVE  /\ registry' \in {registry, registry \cup last'.asked}
           /\ last'.done => registry' = registry \cup last'.asked
           /\ \A r \in last'.asked :
                 \E d \in Declarations : Discoverable(d) /\ r = Registration(d)
<1> DEFINE asked == [i \in DOMAIN batch |-> Registration(batch[i])]
           found == \A i \in DOMAIN batch : Discoverable(batch[i])
           result == IF found THEN RegisteredMany(registry, asked) ELSE Collision
<1>1. batch \in Seq(Declarations)
  BY DeclarationsAssumption
<1>2. Len(asked) = Len(batch) /\ Len(batch) \in Nat /\ DOMAIN asked = 1 .. Len(batch)
  BY <1>1
<1>3. /\ registry' = IF result = Collision THEN registry ELSE result
      /\ last' = [asked |-> IF found THEN ToSet(asked) ELSE {}, done |-> result # Collision]
  BY DEF RegisterBatch
<1>4. ASSUME NEW r \in ToSet(asked), found
      PROVE  \E d \in Declarations : Discoverable(d) /\ r = Registration(d)
  BY <1>1, <1>4 DEF ToSet
<1> HIDE DEF asked
<1>5. found => result \in {Collision, registry \cup ToSet(asked)}
  BY <1>2, RegisteredManyFact
<1> HIDE DEF found
<1> QED
  BY <1>3, <1>4, <1>5

(* Whatever is declared, in whatever batches: no registration is ever      *)
(* overwritten or lost, and of a batch everything is registered or nothing *)
(* (register, register_many).                                              *)
THEOREM RegistrationsAlwaysStand == RegistrationSpec => RegistrationsStand
<1>1. ASSUME [RegistrationNext]_registrations
      PROVE  [ /\ registry \subseteq registry'
               /\ last'.done => last'.asked \subseteq registry'
               /\ registry' # registry => registry' = registry \cup last'.asked
             ]_registrations
  BY <1>1, BatchFact DEF RegistrationNext
<1> QED
  BY <1>1, PTL DEF RegistrationSpec, RegistrationsStand

-----------------------------------------------------------------------------
(* The views of what is registered.                                        *)

(* Inputs of a definition say what they say once: options are those of a   *)
(* COMBO, which has some.                                                  *)
GoodInputs ==
    {i \in NodeInputs : IF i.type = "COMBO" THEN GoodOptions(i.options) ELSE i.options = <<>>}

LEMMA V1Fact ==
    ASSUME NEW payload \in V1Payloads, NEW name \in STRING,
           V1Node(payload, name) # Malformed
    PROVE  /\ V1Node(payload, name) \in NodeDefinitions
           /\ V1Node(payload, name).node_id = name
           /\ V1Node(payload, name).inputs \subseteq GoodInputs
           /\ DistinctNames(V1Node(payload, name).inputs)
           /\ V1Node(payload, name).deprecated = payload.deprecated
           /\ V1Node(payload, name).experimental = payload.experimental
<1> DEFINE raws == UNION {{<<s, raw>> : raw \in payload.input[s]} : s \in Sections}
           inputs == {V1Input(r[2], r[1]) : r \in raws}
<1>1. /\ payload.name = name
      /\ \A r \in raws : V1InputReadable(r[2])
      /\ V1Node(payload, name) = Definition("v1", payload.name, inputs, payload)
  BY DEF V1Node
<1>2. DistinctNames(inputs)
  BY <1>1 DEF Definition
<1>3. ASSUME NEW r \in raws PROVE V1Input(r[2], r[1]) \in GoodInputs
  <2>1. r[1] \in Sections /\ r[2] \in payload.input[r[1]]
    OBVIOUS
  <2>2. r[2] \in [name : STRING, shape : {"text", "list", "options", "typed"},
                  type : STRING, options : Seq(STRING)]
    BY <2>1 DEF V1Payloads
  <2>3. V1Input(r[2], r[1]) \in NodeInputs
    <3>1. V1TypeName(r[2]) \in TypeNames
      BY <2>2 DEF V1TypeName, TypeNames
    <3>2. (IF V1TypeName(r[2]) = "COMBO" THEN r[2].options ELSE <<>>) \in Seq(STRING)
      <4>1. <<>> \in Seq(STRING) /\ r[2].options \in Seq(STRING)
        BY <2>2
      <4> QED
        BY <4>1
    <3>3. r[2].name \in STRING
      BY <2>2
    <3> QED
      BY <2>1, <3>1, <3>2, <3>3 DEF V1Input, NodeInputs
  <2>4. V1TypeName(r[2]) = "COMBO" => GoodOptions(r[2].options)
    BY <1>1 DEF V1InputReadable
  <2> QED
    BY <2>3, <2>4 DEF V1Input, GoodInputs
<1>4. inputs \subseteq GoodInputs
  BY <1>3
<1> HIDE DEF inputs
<1>5. V1Node(payload, name) =
         [node_id |-> name, form |-> "v1", inputs |-> inputs, outputs |-> payload.outputs,
          deprecated |-> payload.deprecated, experimental |-> payload.experimental]
  BY <1>1, <1>2 DEF Definition
<1>6. inputs \in SUBSET NodeInputs
  BY <1>4 DEF GoodInputs
<1>7. /\ payload.outputs \in Seq(STRING)
      /\ payload.deprecated \in BOOLEAN /\ payload.experimental \in BOOLEAN
  BY DEF V1Payloads
<1> QED
  BY <1>2, <1>4, <1>5, <1>6, <1>7 DEF NodeDefinitions, NodeInputs

LEMMA V2Fact ==
    ASSUME NEW payload \in V2Payloads, V2Node(payload) # Malformed
    PROVE  /\ V2Node(payload) \in NodeDefinitions
           /\ V2Node(payload).node_id = payload.name
           /\ V2Node(payload).inputs \subseteq {i \in GoodInputs : i.section # "hidden"}
           /\ DistinctNames(V2Node(payload).inputs)
           /\ V2Node(payload).deprecated = payload.deprecated
           /\ V2Node(payload).experimental = payload.experimental
<1> DEFINE inputs == {V2Input(raw) : raw \in payload.inputs}
<1>1. /\ \A raw \in payload.inputs : V2InputReadable(raw)
      /\ V2Node(payload) = Definition("v2", payload.name, inputs, payload)
  BY DEF V2Node
<1>2. DistinctNames(inputs)
  BY <1>1 DEF Definition
<1>3. ASSUME NEW raw \in payload.inputs
      PROVE  V2Input(raw) \in {i \in GoodInputs : i.section # "hidden"}
  <2>1. raw \in [key : STRING, name : STRING, type : STRING, isOptional : BOOLEAN,
                 options : Seq(STRING)]
    BY DEF V2Payloads
  <2>2. V2Input(raw) \in NodeInputs
    <3>1. (IF raw.type = "COMBO" THEN raw.options ELSE <<>>) \in Seq(STRING)
      <4>1. <<>> \in Seq(STRING) /\ raw.options \in Seq(STRING)
        BY <2>1
      <4> QED
        BY <4>1
    <3>2. (IF raw.isOptional THEN "optional" ELSE "required") \in Sections
      BY DEF Sections
    <3>3. raw.name \in STRING /\ raw.type \in TypeNames
      BY <2>1 DEF TypeNames
    <3> QED
      BY <3>1, <3>2, <3>3 DEF V2Input, NodeInputs
  <2> QED
    BY <1>1, <2>2 DEF V2Input, V2InputReadable, GoodInputs
<1>4. inputs \subseteq {i \in GoodInputs : i.section # "hidden"}
  BY <1>3
<1> HIDE DEF inputs
<1>5. V2Node(payload) =
         [node_id |-> payload.name, form |-> "v2", inputs |-> inputs,
          outputs |-> payload.outputs,
          deprecated |-> payload.deprecated, experimental |-> payload.experimental]
  BY <1>1, <1>2 DEF Definition
<1>6. inputs \in SUBSET NodeInputs
  BY <1>4 DEF GoodInputs
<1>7. /\ payload.name \in STRING /\ payload.outputs \in Seq(STRING)
      /\ payload.deprecated \in BOOLEAN /\ payload.experimental \in BOOLEAN
  BY DEF V2Payloads
<1> QED
  BY <1>2, <1>4, <1>5, <1>6, <1>7 DEF NodeDefinitions, NodeInputs

(* What is kept of a registration.                                         *)
LEMMA RegistrationFact ==
    ASSUME NEW d \in Declarations, Discoverable(d)
    PROVE  /\ Registration(d).definition = DefinitionOf(d)
           /\ Registration(d).node_id = d.id /\ d.id \in STRING
           /\ Registration(d).kind = d.kind
           /\ Registration(d).lifecycle = NodeLifecycle(DefinitionOf(d))
           /\ DefinitionOf(d) \in NodeDefinitions /\ DefinitionOf(d).node_id = d.id
           /\ DefinitionOf(d).inputs \subseteq GoodInputs
           /\ DistinctNames(DefinitionOf(d).inputs)
           /\ NodeOf(d.id, SourcePayload(d)) = DefinitionOf(d)
           /\ d.kind = "node_definition_v2" =>
                 \A i \in DefinitionOf(d).inputs : i.section # "hidden"
<1> USE DEF Discoverable
<1>1. /\ d.id \in STRING /\ d.kind \in {"legacy_v1", "comfy_v3", "node_definition_v2"}
      /\ d.deprecated \in BOOLEAN /\ d.experimental \in BOOLEAN
      /\ d.kind = "legacy_v1" => d.payload \in V1Payloads
      /\ d.payload \in V1Payloads \cup V2Payloads
  BY DeclarationsAssumption
<1>2. CASE d.kind = "legacy_v1"
  <2> DEFINE payload == [d.payload EXCEPT !.name = d.id]
  <2>1. payload \in V1Payloads /\ payload.form = "v1"
    BY <1>1, <1>2 DEF V1Payloads
  <2>2. DefinitionOf(d) = V1Node(payload, d.id) /\ SourcePayload(d) = payload
    BY <1>2 DEF DefinitionOf, LegacyDefinition, SourcePayload
  <2> HIDE DEF payload
  <2> QED
    BY <1>1, <1>2, <2>1, <2>2, V1Fact DEF Registration, NodeOf
<1>3. CASE d.kind = "comfy_v3"
  <2>1. /\ d.payload.name = d.id /\ DefinitionOf(d) = NodeOf(d.id, d.payload)
        /\ d.deprecated = d.payload.deprecated /\ d.experimental = d.payload.experimental
    BY <1>3 DEF DefinitionOf, V3Definition
  <2>2. SourcePayload(d) = d.payload
    BY <1>1, <1>3, <2>1 DEF SourcePayload, V1Payloads, V2Payloads
  <2>3. CASE d.payload \in V1Payloads
    <3>1. DefinitionOf(d) = V1Node(d.payload, d.id)
      BY <2>1, <2>3 DEF NodeOf, V1Payloads
    <3> QED
      BY <1>1, <1>3, <2>1, <2>2, <2>3, <3>1, V1Fact DEF Registration
  <2>4. CASE d.payload \in V2Payloads
    <3>1. DefinitionOf(d) = V2Node(d.payload)
      BY <2>1, <2>4 DEF NodeOf, V2Payloads
    <3> QED
      BY <1>1, <1>3, <2>1, <2>2, <2>4, <3>1, V2Fact DEF Registration
  <2> QED
    BY <1>1, <2>3, <2>4
<1>4. CASE d.kind = "node_definition_v2"
  <2>1. /\ d.payload.form = "v2" /\ DefinitionOf(d) = V2Node(d.payload)
        /\ SourcePayload(d) = d.payload
    BY <1>4 DEF DefinitionOf, V2Definition, SourcePayload
  <2>2. d.payload \in V2Payloads
    BY <1>1, <2>1 DEF V1Payloads
  <2>3. d.payload.name = d.id
    BY <2>1, <2>2, V2Fact
  <2> QED
    BY <1>1, <1>4, <2>1, <2>2, <2>3, V2Fact DEF Registration, NodeOf
<1> QED
  BY <1>1, <1>2, <1>3, <1>4

(* An input that is written in the form of /object_info reads as it was ... *)
LEMMA V1RoundTrip ==
    ASSUME NEW i \in GoodInputs
    PROVE  /\ V1InputReadable(V1Declaration(i))
           /\ V1Input(V1Declaration(i), i.section) = i
<1>1. i = [name |-> i.name, type |-> i.type, section |-> i.section, options |-> i.options]
  BY DEF GoodInputs, NodeInputs
<1>2. CASE i.type = "COMBO"
  <2>1. GoodOptions(i.options) /\ i.options # <<>>
    BY <1>2 DEF GoodInputs, GoodOptions
  <2> QED
    BY <1>1, <1>2, <2>1 DEF V1InputReadable, V1Declaration, V1TypeName, V1Input
<1>3. CASE i.type # "COMBO"
  <2>1. i.options = <<>>
    BY <1>3 DEF GoodInputs
  <2> QED
    BY <1>1, <1>3, <2>1 DEF V1InputReadable, V1Declaration, V1TypeName, V1Input
<1> QED
  BY <1>2, <1>3

(* ... and so does one in the form of v2, unless it is hidden.             *)
LEMMA V2RoundTrip ==
    ASSUME NEW i \in GoodInputs, i.section # "hidden"
    PROVE  /\ V2InputReadable(V2Declaration(i))
           /\ V2Input(V2Declaration(i)) = i
<1>1. /\ i = [name |-> i.name, type |-> i.type, section |-> i.section, options |-> i.options]
      /\ i.section \in {"required", "optional"}
  BY DEF GoodInputs, NodeInputs, Sections
<1>2. (IF i.section = "optional" THEN "optional" ELSE "required") = i.section
  BY <1>1
<1>3. (IF i.type = "COMBO" THEN i.options ELSE <<>>) = i.options
  BY DEF GoodInputs
<1>4. V2Input(V2Declaration(i)) = i
  BY <1>1, <1>2, <1>3 DEF V2Declaration, V2Input
<1>5. V2InputReadable(V2Declaration(i))
  BY DEF GoodInputs, V2Declaration, V2InputReadable
<1> QED
  BY <1>4, <1>5

RegistryInv ==
    \A r \in registry : \E d \in Declarations : Discoverable(d) /\ r = Registration(d)

LEMMA RegistryKeeps ==
    ASSUME RegistryInv, [RegistrationNext]_registrations PROVE RegistryInv'
<1>1. CASE UNCHANGED registrations
  BY <1>1 DEF RegistryInv, registrations
<1>2. ASSUME NEW batch \in Batches, RegisterBatch(batch) PROVE RegistryInv'
  <2>1. ASSUME NEW r \in registry'
        PROVE  \E d \in Declarations : Discoverable(d) /\ r = Registration(d)
    <3>1. r \in registry \/ r \in last'.asked
      BY <1>2, <2>1, BatchFact
    <3> QED
      BY <1>2, <3>1, BatchFact DEF RegistryInv
  <2> QED
    BY <2>1 DEF RegistryInv
<1> QED
  BY <1>1, <1>2 DEF RegistrationNext

(* The two views of a registered node, for ViewsAgree.                     *)
Visible(r) == {i \in r.definition.inputs : i.section # "hidden"}

Shows(node, r, inputs) ==
    /\ node # Malformed
    /\ node.inputs = inputs
    /\ node.outputs = r.definition.outputs
    /\ NodeLifecycle(node) = r.lifecycle

LEMMA DefinitionShows ==
    ASSUME NEW d \in Declarations, Discoverable(d), NEW node \in NodeDefinitions,
           NEW inputs, node.inputs = inputs, node.outputs = DefinitionOf(d).outputs,
           node.deprecated = DefinitionOf(d).deprecated,
           node.experimental = DefinitionOf(d).experimental
    PROVE  Shows(node, Registration(d), inputs)
  BY RegistrationFact, DeclarationsAssumption DEF Shows, NodeLifecycle

LEMMA ObjectInfoShows ==
    ASSUME NEW d \in Declarations, Discoverable(d)
    PROVE  Shows(NodeOf(d.id, ObjectInfoView(Registration(d))), Registration(d),
                 DefinitionOf(d).inputs)
<1> DEFINE r == Registration(d)
           definition == DefinitionOf(d)
           view == ObjectInfoView(r)
<1>1. CASE d.kind # "node_definition_v2"
  <2>1. view = SourcePayload(d)
    BY <1>1, RegistrationFact DEF ObjectInfoView, Registration
  <2> QED
    BY <2>1, RegistrationFact, DefinitionShows
<1>2. CASE d.kind = "node_definition_v2"
  <2> DEFINE Declared(s) == {V1Declaration(i) : i \in {j \in definition.inputs : j.section = s}}
             raws == UNION {{<<s, raw>> : raw \in view.input[s]} : s \in Sections}
             inputs == {V1Input(x[2], x[1]) : x \in raws}
  <2>1. /\ view.form = "v1" /\ view.name = d.id /\ view.aligned = TRUE
        /\ view.input = [s \in Sections |-> Declared(s)]
        /\ view.outputs = definition.outputs
        /\ view.deprecated = definition.deprecated
        /\ view.experimental = definition.experimental
    BY <1>2, RegistrationFact DEF ObjectInfoView
  <2>2. definition.inputs \subseteq GoodInputs /\ GoodInputs \subseteq NodeInputs
    BY RegistrationFact DEF GoodInputs
  <2>3. ASSUME NEW x \in raws
        PROVE  V1InputReadable(x[2]) /\ V1Input(x[2], x[1]) \in definition.inputs
    <3>1. x[1] \in Sections /\ x[2] \in Declared(x[1])
      BY <2>1
    <3>2. PICK i \in definition.inputs : i.section = x[1] /\ x[2] = V1Declaration(i)
      BY <3>1
    <3> QED
      BY <2>2, <3>2, V1RoundTrip
  <2>4. ASSUME NEW i \in definition.inputs PROVE i \in inputs
    <3>1. i.section \in Sections
      BY <2>2 DEF NodeInputs
    <3>2. <<i.section, V1Declaration(i)>> \in raws
      BY <2>1, <3>1
    <3>3. V1Input(V1Declaration(i), i.section) = i
      BY <2>2, V1RoundTrip
    <3> HIDE DEF raws
    <3> QED
      BY <3>2, <3>3
  <2>5. inputs = definition.inputs
    BY <2>3, <2>4
  <2> HIDE DEF inputs
  <2>6. NodeOf(d.id, view) = Definition("v1", d.id, inputs, view)
    <3> HIDE DEF view
    <3>1. \A x \in raws : V1InputReadable(x[2])
      BY <2>3
    <3> QED
      BY <2>1, <3>1 DEF NodeOf, V1Node, inputs
  <2>7. NodeOf(d.id, view) =
          [node_id |-> d.id, form |-> "v1", inputs |-> definition.inputs,
           outputs |-> definition.outputs, deprecated |-> definition.deprecated,
           experimental |-> definition.experimental]
    BY <2>1, <2>5, <2>6, RegistrationFact DEF Definition
  <2>8. NodeOf(d.id, view) \in NodeDefinitions
    BY <2>7, RegistrationFact DEF NodeDefinitions
  <2> HIDE DEF view, definition
  <2> QED
    BY <2>7, <2>8, DefinitionShows DEF definition, view
<1> QED
  BY <1>1, <1>2

LEMMA V2Shows ==
    ASSUME NEW d \in Declarations, Discoverable(d)
    PROVE  Shows(NodeOf(d.id, V2View(Registration(d))), Registration(d),
                 Visible(Registration(d)))
<1> DEFINE r == Registration(d)
           definition == DefinitionOf(d)
           view == V2View(r)
           visible == Visible(r)
<1>1. visible = {i \in definition.inputs : i.section # "hidden"}
  BY RegistrationFact DEF Visible
<1>2. CASE d.kind = "node_definition_v2"
  <2>1. view = SourcePayload(d) /\ visible = definition.inputs
    BY <1>1, <1>2, RegistrationFact DEF V2View, Registration
  <2> QED
    BY <2>1, RegistrationFact, DefinitionShows
<1>3. CASE d.kind # "node_definition_v2"
  <2> DEFINE inputs == {V2Input(raw) : raw \in view.inputs}
  <2>1. /\ view.form = "v2" /\ view.name = d.id /\ view.aligned = TRUE
        /\ view.inputs = {V2Declaration(i) : i \in visible}
        /\ view.outputs = definition.outputs
        /\ view.deprecated = definition.deprecated
        /\ view.experimental = definition.experimental
    BY <1>1, <1>3, RegistrationFact DEF V2View, V2Payload
  <2>2. visible \subseteq {i \in GoodInputs : i.section # "hidden"}
    BY <1>1, RegistrationFact
  <2> HIDE DEF visible, view
  <2>3. \A raw \in view.inputs : V2InputReadable(raw)
    BY <2>1, <2>2, V2RoundTrip
  <2>4. inputs = visible
    BY <2>1, <2>2, V2RoundTrip
  <2>5. DistinctNames(visible)
    BY <1>1, RegistrationFact DEF DistinctNames
  <2>6. NodeOf(d.id, view) = Definition("v2", d.id, inputs, view)
    BY <2>1, <2>3 DEF NodeOf, V2Node
  <2>7. NodeOf(d.id, view) =
          [node_id |-> d.id, form |-> "v2", inputs |-> visible,
           outputs |-> definition.outputs, deprecated |-> definition.deprecated,
           experimental |-> definition.experimental]
    BY <2>1, <2>4, <2>5, <2>6 DEF Definition
  <2>8. visible \in SUBSET NodeInputs
    BY <2>2 DEF GoodInputs
  <2>9. NodeOf(d.id, view) \in NodeDefinitions
    BY <2>7, <2>8, RegistrationFact DEF NodeDefinitions, NodeInputs
  <2> HIDE DEF definition
  <2> QED
    BY <2>7, <2>9, DefinitionShows DEF definition, view, visible
<1> QED
  BY <1>2, <1>3

(* Whatever was declared and how: a registered node reads the same in      *)
(* either view, but for its hidden inputs (_object_info_projection,        *)
(* _node_definition_v2_projection).                                        *)
THEOREM ViewsAlwaysAgree == RegistrationSpec => []ViewsAgree
<1>1. RegistrationInit => RegistryInv
  BY DEF RegistrationInit, RegistryInv
<1>2. ASSUME RegistryInv PROVE ViewsAgree
  <2> SUFFICES ASSUME NEW r \in registry
               PROVE  /\ Shows(NodeOf(r.node_id, ObjectInfoView(r)), r, r.definition.inputs)
                      /\ Shows(NodeOf(r.node_id, V2View(r)), r, Visible(r))
    BY DEF ViewsAgree, Shows, Visible
  <2>1. PICK d \in Declarations : Discoverable(d) /\ r = Registration(d)
    BY <1>2 DEF RegistryInv
  <2>2. r.node_id = d.id /\ r.definition = DefinitionOf(d)
    BY <2>1, RegistrationFact
  <2> QED
    BY <2>1, <2>2, ObjectInfoShows, V2Shows
<1> QED
  BY <1>1, <1>2, RegistryKeeps, PTL DEF RegistrationSpec

-----------------------------------------------------------------------------
(* Packaged workflows.                                                     *)

(* A list of inputs in which no name occurs twice                          *)
InputList(list) == list \in Seq(NodeInput) /\ IsInjective(NamesOf(list))

(* Choosing from a list neither invents inputs nor repeats them.           *)
LEMMA AmongFact ==
    ASSUME NEW list, InputList(list), NEW chosen
    PROVE  /\ InputList(Among(list, chosen))
           /\ ToSet(Among(list, chosen)) \subseteq ToSet(list) \cap chosen
<1> DEFINE Step(n, before) == IF n = 0 THEN << >>
                              ELSE IF list[n] \in chosen THEN Append(before, list[n])
                              ELSE before
           Goes(m, f) == f = [n \in 0 .. m |-> Step(n, f[n - 1])]
           kept == CHOOSE f : Goes(Len(list), f)
           Good(s, n) == /\ s \in Seq(NodeInput)
                         /\ \A a \in 1 .. Len(s) : \E j \in 1 .. n :
                               list[j] \in chosen /\ s[a] = list[j]
                         /\ \A a, b \in 1 .. Len(s) : s[a].name = s[b].name => a = b
           T == {m \in Nat : \E f : Goes(m, f)}
           U == {n \in Nat : n <= Len(list) => Good(kept[n], n)}
<1>0. /\ Len(list) \in Nat /\ DOMAIN list = 1 .. Len(list)
      /\ \A i \in 1 .. Len(list) : list[i] \in NodeInput
      /\ \A i, j \in 1 .. Len(list) : list[i].name = list[j].name => i = j
  BY DEF InputList, IsInjective, NamesOf
<1>1. \A before : Step(0, before) = << >>
  OBVIOUS
<1>2. 0 \in T
  <2>1. Goes(0, [n \in 0 .. 0 |-> << >>])
    OBVIOUS
  <2> QED
    BY <2>1
<1>3. ASSUME NEW m \in T PROVE m + 1 \in T
  <2>1. PICK f : Goes(m, f)
    BY <1>3
  <2> DEFINE next == Step(m + 1, f[m])
             g == [n \in 0 .. m + 1 |-> IF n = m + 1 THEN next ELSE f[n]]
  <2> HIDE DEF Step
  <2>2. ASSUME NEW n \in 0 .. m + 1 PROVE g[n] = Step(n, g[n - 1])
    <3>1. CASE n = 0
      BY <1>1, <2>1, <3>1
    <3>2. CASE n \in 1 .. m
      <4>1. g[n] = f[n] /\ g[n - 1] = f[n - 1]
        BY <3>2
      <4> QED
        BY <2>1, <3>2, <4>1
    <3>3. CASE n = m + 1
      <4>1. g[n] = next /\ g[m] = f[m] /\ n - 1 = m
        BY <3>3
      <4> QED
        BY <3>3, <4>1
    <3> QED
      BY <3>1, <3>2, <3>3
  <2>3. Goes(m + 1, g)
    BY <2>2
  <2> HIDE DEF Goes, g
  <2> QED
    BY <2>3
<1>4. T = Nat
  <2>1. T \in SUBSET Nat
    OBVIOUS
  <2> HIDE DEF T
  <2> QED
    BY <1>2, <1>3, <2>1, SetInduction
<1>5. Goes(Len(list), kept)
  <2>1. \E f : Goes(Len(list), f)
    BY <1>0, <1>4
  <2> HIDE DEF Goes
  <2> QED
    BY <2>1
<1>6. Among(list, chosen) = kept[Len(list)]
  BY DEF Among
<1> HIDE DEF kept
<1>7. \A n \in 0 .. Len(list) : kept[n] = Step(n, kept[n - 1])
  <2> HIDE DEF Step
  <2> QED
    BY <1>5
<1>8. 0 \in U
  <2>1. kept[0] = << >>
    BY <1>0, <1>7
  <2>2. Good(<< >>, 0)
    OBVIOUS
  <2> HIDE DEF Good
  <2> QED
    BY <2>1, <2>2
<1>9. ASSUME NEW n \in U PROVE n + 1 \in U
  <2> SUFFICES ASSUME n + 1 <= Len(list) PROVE Good(kept[n + 1], n + 1)
    <3> HIDE DEF Good
    <3> QED
      OBVIOUS
  <2> DEFINE s == kept[n]
             x == list[n + 1]
  <2>1. Good(s, n)
    <3>1. n \in Nat /\ n <= Len(list) => Good(s, n)
      <4> HIDE DEF Good
      <4> QED
        BY <1>9
    <3>2. n \in Nat
      <4> HIDE DEF Good
      <4> QED
        BY <1>9
    <3> HIDE DEF Good
    <3> QED
      BY <1>0, <3>1, <3>2
  <2>2. kept[n + 1] = IF x \in chosen THEN Append(s, x) ELSE s
    <3>1. n + 1 \in 0 .. Len(list) /\ n + 1 # 0 /\ (n + 1) - 1 = n
      BY <1>0
    <3> QED
      BY <1>7, <3>1
  <2>3. n + 1 \in 1 .. Len(list) /\ x \in NodeInput
    BY <1>0
  <2> HIDE DEF s
  <2>4. CASE x \notin chosen
    <3>1. \A j \in 1 .. n : j \in 1 .. n + 1
      OBVIOUS
    <3> QED
      BY <2>1, <2>2, <2>4, <3>1
  <2>5. CASE x \in chosen
    <3> DEFINE t == Append(s, x)
    <3>1. /\ t \in Seq(NodeInput) /\ Len(t) = Len(s) + 1 /\ Len(s) \in Nat
          /\ \A a \in 1 .. Len(s) : t[a] = s[a]
          /\ t[Len(s) + 1] = x
      BY <2>1, <2>3
    <3> HIDE DEF t
    <3>2. \A a \in 1 .. Len(t) : a \in 1 .. Len(s) \/ a = Len(s) + 1
      BY <3>1
    <3>3. ASSUME NEW a \in 1 .. Len(t)
          PROVE  \E j \in 1 .. n + 1 : list[j] \in chosen /\ t[a] = list[j]
      <4>1. CASE a \in 1 .. Len(s)
        <5>1. PICK j \in 1 .. n : list[j] \in chosen /\ s[a] = list[j]
          BY <2>1, <4>1
        <5> QED
          BY <3>1, <4>1, <5>1
      <4>2. CASE a = Len(s) + 1
        BY <2>5, <3>1, <4>2
      <4> QED
        BY <3>2, <4>1, <4>2
    <3>4. ASSUME NEW a \in 1 .. Len(s) PROVE s[a].name # x.name
      <4>1. PICK j \in 1 .. n : s[a] = list[j]
        BY <2>1
      <4>2. j \in 1 .. Len(list) /\ j # n + 1
        BY <1>0
      <4> QED
        BY <1>0, <2>3, <4>1, <4>2
    <3>5. ASSUME NEW a \in 1 .. Len(t), NEW b \in 1 .. Len(t), t[a].name = t[b].name
          PROVE  a = b
      BY <2>1, <3>1, <3>2, <3>4, <3>5
    <3>6. kept[n + 1] = t
      BY <2>2, <2>5 DEF t
    <3> QED
      BY <3>1, <3>3, <3>5, <3>6
  <2> QED
    BY <2>4, <2>5
<1>10. U = Nat
  <2>1. U \in SUBSET Nat
    OBVIOUS
  <2> HIDE DEF U
  <2> QED
    BY <1>8, <1>9, <2>1, SetInduction
<1> DEFINE some == Among(list, chosen)
<1>11. Good(some, Len(list))
  <2> HIDE DEF Good
  <2> QED
    BY <1>0, <1>6, <1>10
<1> HIDE DEF some
<1>12. InputList(some)
  <2>1. /\ some \in Seq(NodeInput)
        /\ \A a, b \in DOMAIN some : some[a].name = some[b].name => a = b
    BY <1>11
  <2> QED
    BY <2>1 DEF InputList, IsInjective, NamesOf
<1>13. ToSet(some) \subseteq ToSet(list) \cap chosen
  BY <1>0, <1>11 DEF ToSet
<1> QED
  BY <1>12, <1>13 DEF some

SchemaInv(s) ==
    s # Gone =>
        /\ s \in [form : {"v1", "v2"}, deprecated : BOOLEAN, experimental : BOOLEAN,
                  canonical : BOOLEAN, inputs : Seq(NodeInput)]
        /\ IsInjective(NamesOf(s.inputs))

LEMMA InputOrderFact ==
    ASSUME NEW s, s # Gone, SchemaInv(s)
    PROVE  InputList(InputOrder(s)) /\ ToSet(InputOrder(s)) \subseteq ToSet(s.inputs)
<1> DEFINE first == Among(s.inputs, InSection(s, "required"))
           second == Among(s.inputs, InSection(s, "optional"))
           both == first \o second
<1>0. InputList(s.inputs)
  BY DEF SchemaInv, InputList
<1>1. CASE s.form = "v2"
  BY <1>0, <1>1 DEF InputOrder
<1>2. CASE s.form = "v1"
  <2>1. InputOrder(s) = both
    BY <1>2 DEF InputOrder
  <2>2. /\ InputList(first) /\ ToSet(first) \subseteq ToSet(s.inputs)
        /\ \A i \in ToSet(first) : i.section = "required"
    BY <1>0, AmongFact DEF InSection
  <2>3. /\ InputList(second) /\ ToSet(second) \subseteq ToSet(s.inputs)
        /\ \A i \in ToSet(second) : i.section = "optional"
    BY <1>0, AmongFact DEF InSection
  <2>4. \A i, j \in ToSet(s.inputs) : i.name = j.name => i = j
    BY <1>0 DEF InputList, IsInjective, NamesOf, ToSet
  <2> HIDE DEF first, second
  <2>5. /\ both \in Seq(NodeInput) /\ Len(both) = Len(first) + Len(second)
        /\ Len(first) \in Nat /\ Len(second) \in Nat
        /\ \A a \in 1 .. Len(first) : both[a] = first[a]
        /\ \A a \in 1 .. Len(second) : both[Len(first) + a] = second[a]
    BY <2>2, <2>3 DEF InputList
  <2>6. /\ \A a \in 1 .. Len(first) : first[a] \in ToSet(first)
        /\ \A a \in 1 .. Len(second) : second[a] \in ToSet(second)
    BY <2>2, <2>3 DEF InputList, ToSet
  <2> HIDE DEF both
  <2>7. ASSUME NEW a \in 1 .. Len(both)
        PROVE  \/ a \in 1 .. Len(first) /\ both[a] = first[a]
               \/ a - Len(first) \in 1 .. Len(second) /\ both[a] = second[a - Len(first)]
    <3>1. CASE a <= Len(first)
      BY <2>5, <3>1
    <3>2. CASE a > Len(first)
      <4>1. a - Len(first) \in 1 .. Len(second) /\ Len(first) + (a - Len(first)) = a
        BY <2>5, <3>2
      <4> QED
        BY <2>5, <4>1
    <3> QED
      BY <2>5, <3>1, <3>2
  <2>8. ASSUME NEW a \in 1 .. Len(first), NEW b \in 1 .. Len(second)
        PROVE  first[a].name # second[b].name
    <3>1. first[a] # second[b]
      BY <2>2, <2>3, <2>6
    <3> QED
      BY <2>2, <2>3, <2>4, <2>6, <3>1
  <2>9. /\ \A a, b \in 1 .. Len(first) : first[a].name = first[b].name => a = b
        /\ \A a, b \in 1 .. Len(second) : second[a].name = second[b].name => a = b
    BY <2>2, <2>3 DEF InputList, IsInjective, NamesOf
  <2>10. ASSUME NEW a \in 1 .. Len(both), NEW b \in 1 .. Len(both),
                both[a].name = both[b].name
         PROVE  a = b
    <3>1. CASE a \in 1 .. Len(first) /\ both[a] = first[a]
      BY <2>5, <2>7, <2>8, <2>9, <2>10, <3>1, SMTT(30)
    <3>2. CASE a - Len(first) \in 1 .. Len(second) /\ both[a] = second[a - Len(first)]
      <4>1. CASE b \in 1 .. Len(first) /\ both[b] = first[b]
        BY <2>8, <2>10, <3>2, <4>1
      <4>2. CASE b - Len(first) \in 1 .. Len(second) /\ both[b] = second[b - Len(first)]
        <5>1. a - Len(first) = b - Len(first)
          BY <2>9, <2>10, <3>2, <4>2
        <5> QED
          BY <2>5, <5>1
      <4> QED
        BY <2>7, <4>1, <4>2
    <3> QED
      BY <2>7, <3>1, <3>2
  <2>11. InputList(both)
    BY <2>5, <2>10 DEF InputList, IsInjective, NamesOf
  <2>12. ToSet(both) \subseteq ToSet(s.inputs)
    <3> SUFFICES ASSUME NEW a \in 1 .. Len(both) PROVE both[a] \in ToSet(s.inputs)
      BY <2>5 DEF ToSet
    <3> QED
      BY <2>2, <2>3, <2>6, <2>7
  <2> QED
    BY <2>1, <2>11, <2>12
<1> QED
  BY <1>1, <1>2 DEF SchemaInv

LEMMA WidgetsFact ==
    ASSUME NEW s, s # Gone, SchemaInv(s), NEW linked
    PROVE  /\ InputList(Widgets(s, linked))
           /\ ToSet(Widgets(s, linked)) \subseteq ToSet(s.inputs)
  BY InputOrderFact, AmongFact DEF Widgets

-----------------------------------------------------------------------------
(* The host's description of the node: each of its inputs, once.           *)

HostInput(i) ==
    [name |-> i.name, type |-> i.type, section |-> i.section,
     options |-> IF i.type = "COMBO" THEN i.options ELSE << >>]

LEMMA HostNodeFact ==
    ASSUME NEW s, s # Gone, SchemaInv(s), HostNode(s) # Malformed
    PROVE  /\ HostNode(s).inputs = {HostInput(i) : i \in ToSet(s.inputs)}
           /\ DistinctNames(HostNode(s).inputs)
<1>0. /\ s.form \in {"v1", "v2"} /\ ToSet(s.inputs) \subseteq NodeInput
  BY DEF SchemaInv, ToSet
<1> DEFINE S == ToSet(s.inputs)
           payload == PayloadOf(s)
<1>1. ASSUME NEW form, NEW name, NEW inputs, Definition(form, name, inputs, payload) # Malformed
      PROVE  /\ DistinctNames(inputs)
             /\ Definition(form, name, inputs, payload).inputs = inputs
  BY <1>1 DEF Definition
<1>2. CASE s.form = "v1"
  <2> DEFINE raws == UNION {{<<sec, raw>> : raw \in payload.input[sec]} : sec \in Sections}
             inputs == {V1Input(r[2], r[1]) : r \in raws}
  <2>1. payload.form = "v1" /\ payload.name = "node"
        /\ payload.input = [sec \in Sections |->
                               {RawInput(i) : i \in {j \in S : j.section = sec}}]
    BY <1>2 DEF PayloadOf
  <2>2. HostNode(s) = V1Node(payload, "node")
    BY <2>1 DEF HostNode, NodeOf
  <2>3. HostNode(s) = Definition("v1", payload.name, inputs, payload)
    BY <2>2 DEF V1Node
  <2>4. raws = {<<i.section, RawInput(i)>> : i \in S}
    <3>1. ASSUME NEW sec \in Sections
          PROVE  payload.input[sec] = {RawInput(i) : i \in {j \in S : j.section = sec}}
      BY <2>1
    <3>2. \A i \in S : i.section \in Sections
      BY <1>0 DEF NodeInput, Sections
    <3> HIDE DEF payload, S
    <3> QED
      BY <3>1, <3>2
  <2>5. ASSUME NEW i \in S PROVE V1Input(RawInput(i), i.section) = HostInput(i)
    BY <1>0 DEF V1Input, V1TypeName, RawInput, HostInput
  <2>6. inputs = {HostInput(i) : i \in S}
    <3>1. ASSUME NEW r \in raws PROVE \E i \in S : V1Input(r[2], r[1]) = HostInput(i)
      <4>1. PICK i \in S : r = <<i.section, RawInput(i)>>
        BY <2>4
      <4>2. r[2] = RawInput(i) /\ r[1] = i.section
        BY <4>1
      <4> QED
        BY <2>5, <4>2
    <3>2. ASSUME NEW i \in S PROVE \E r \in raws : HostInput(i) = V1Input(r[2], r[1])
      <4> DEFINE r == <<i.section, RawInput(i)>>
      <4>1. r \in raws
        BY <2>4
      <4>2. HostInput(i) = V1Input(r[2], r[1])
        BY <2>5
      <4> QED
        BY <4>1, <4>2
    <3> HIDE DEF raws, S
    <3> QED
      BY <3>1, <3>2
  <2> HIDE DEF inputs, payload, S
  <2> QED
    BY <1>1, <2>3, <2>6 DEF S
<1>3. CASE s.form = "v2"
  <2> DEFINE inputs == {V2Input(raw) : raw \in payload.inputs}
  <2>1. payload.form = "v2" /\ payload.name = "node"
        /\ payload.inputs = {RawV2Input(i) : i \in S}
    BY <1>3 DEF PayloadOf
  <2>2. HostNode(s) = V2Node(payload)
    BY <2>1 DEF HostNode, NodeOf
  <2>3. HostNode(s) = Definition("v2", payload.name, inputs, payload)
    BY <2>2 DEF V2Node
  <2>4. ASSUME NEW i \in S PROVE V2Input(RawV2Input(i)) = HostInput(i)
    BY <1>0 DEF V2Input, RawV2Input, HostInput, NodeInput
  <2>5. inputs = {HostInput(i) : i \in S}
    <3> HIDE DEF S
    <3> QED
      BY <2>1, <2>4
  <2> HIDE DEF inputs, payload, S
  <2> QED
    BY <1>1, <2>3, <2>5 DEF S
<1> QED
  BY <1>0, <1>2, <1>3

(* What is saved in a workflow is in step with its contract, and meant is  *)
(* what the saved values say, as long as none of them is missing.          *)
Link == [name : STRING, type : STRING]

Slot == [name : STRING, type : STRING, fixed : WidgetValues \cup {Gone}]

Fixture ==
    [type : {"node", "renamed", Gone}, canonical : BOOLEAN,
     metadata : {"fits", "drifted", "missing"}, links : Seq(Link), slots : Seq(Slot),
     values : Seq(WidgetValues) \cup {Gone},
     meant : SUBSET (STRING \X WidgetValues)]

FixtureInv(f) ==
    /\ f \in Fixture
    /\ IsInjective(NamesOf(f.slots))
    /\ f.values # Gone =>
          /\ Len(f.values) <= Len(f.slots)
          /\ Len(f.values) = Len(f.slots) =>
                f.meant = {<<f.slots[k].name, f.values[k]>> : k \in DOMAIN f.slots}

(* A workflow in whose node nothing was found                              *)
LEMMA CleanFixture ==
    ASSUME NEW f, FixtureInv(f), SchemaInv(schema),
           schema # Gone => HostNode(schema) # Malformed,
           FixtureIssues(f, schema) = {}
    PROVE  /\ schema # Gone
           /\ NodeIssues(f, schema) = {}
           /\ NamesOf(Widgets(schema, LinkedOf(f))) = NamesOf(f.slots)
           /\ f.values # Gone /\ Len(f.values) = Len(f.slots)
<1>1. f.type # Gone /\ schema # Gone /\ NodeIssues(f, schema) = {}
  BY DEF FixtureIssues
<1>2. IsInjective(NamesOf(f.links))
  BY <1>1 DEF NodeIssues
<1>3. ~ (\/ SlotsDrifted(f, schema) \/ f.values = Gone
         \/ (IF f.values = Gone THEN 0 ELSE Len(f.values)) # Len(f.slots))
  <2> DEFINE bad == \/ SlotsDrifted(f, schema) \/ f.values = Gone
                    \/ (IF f.values = Gone THEN 0 ELSE Len(f.values)) # Len(f.slots)
  <2>1. (IF bad THEN {"widget_slot_drift"} ELSE {}) \subseteq NodeIssues(f, schema)
    BY <1>2 DEF NodeIssues
  <2> HIDE DEF bad
  <2>2. ~ bad
    BY <1>1, <2>1
  <2> QED
    BY <2>2 DEF bad
<1> QED
  BY <1>1, <1>3 DEF SlotsDrifted

(* What the report of the last scan says is about what is there.           *)
ScanInv ==
    scan # NoReport =>
        /\ scan \in [lane : {"known_good", "latest_host"}, issues : {Issues(fixtures, schema)},
                    compatible : BOOLEAN, gate : BOOLEAN, observational : BOOLEAN]
        /\ AdmitsReport(scan)

ValidationInv ==
    /\ SchemaInv(schema)
    /\ fixtures \in Seq(Fixture)
    /\ \A k \in DOMAIN fixtures : FixtureInv(fixtures[k])
    /\ ScanInv

LEMMA ValidationStarts == ValidationInit => ValidationInv
  BY SchemaAssumption DEF ValidationInit, ValidationInv, SchemaInv, ScanInv

(* Whatever the author makes of the node, it is one.                       *)
LEMMA EvolvedFact ==
    ASSUME NEW s, s # Gone, SchemaInv(s), NEW t \in Evolved(s),
           t # Gone => IsInjective(NamesOf(t.inputs))
    PROVE  SchemaInv(t)
<1> DEFINE Schema == [form : {"v1", "v2"}, deprecated : BOOLEAN, experimental : BOOLEAN,
                      canonical : BOOLEAN, inputs : Seq(NodeInput)]
           list == s.inputs
           new == {j \in AuthorInputs : j.name \notin {x.name : x \in ToSet(s.inputs)}}
           Inserted == {[s EXCEPT !.inputs = InsertAt(@, k, i)] :
                           k \in 1 .. Len(s.inputs) + 1, i \in new}
           Removed == {[s EXCEPT !.inputs = RemoveAt(@, k)] : k \in DOMAIN s.inputs}
           Declared == {[s EXCEPT !.inputs = ReplaceAt(@, k, i)] :
                           k \in DOMAIN s.inputs, i \in AuthorInputs}
           Swapped == {[s EXCEPT !.inputs = [@ EXCEPT ![k] = s.inputs[k + 1],
                                                      ![k + 1] = s.inputs[k]]] :
                          k \in 1 .. Len(s.inputs) - 1}
           Marked == {[s EXCEPT !.form = "v2"], [s EXCEPT !.deprecated = TRUE],
                      [s EXCEPT !.experimental = TRUE], [s EXCEPT !.canonical = FALSE], Gone}
<1> SUFFICES t \in Schema \cup {Gone}
  BY DEF SchemaInv
<1>0. s \in Schema
  BY DEF SchemaInv
<1>1. /\ list \in Seq(NodeInput) /\ Len(list) \in Nat /\ DOMAIN list = 1 .. Len(list)
  BY <1>0
<1>2. ASSUME NEW other \in Seq(NodeInput) PROVE [s EXCEPT !.inputs = other] \in Schema
  BY <1>0, <1>2
<1>3. AuthorInputs \subseteq NodeInput
  BY SchemaAssumption
<1>4. CASE t \in Inserted
  <2>1. PICK k \in 1 .. Len(list) + 1, i \in AuthorInputs :
           t = [s EXCEPT !.inputs = InsertAt(list, k, i)]
    BY <1>4
  <2>2. InsertAt(list, k, i) \in Seq(NodeInput)
    <3>1. SubSeq(list, 1, k - 1) \in Seq(NodeInput) /\ SubSeq(list, k, Len(list)) \in Seq(NodeInput)
      BY <1>1
    <3>2. <<i>> \in Seq(NodeInput)
      BY <1>3
    <3> QED
      BY <3>1, <3>2 DEF InsertAt
  <2> QED
    BY <1>2, <2>1, <2>2
<1>5. CASE t \in Removed
  <2>1. PICK k \in DOMAIN list : t = [s EXCEPT !.inputs = RemoveAt(list, k)]
    BY <1>5
  <2>2. RemoveAt(list, k) \in Seq(NodeInput)
    <3>1. /\ SubSeq(list, 1, k - 1) \in Seq(NodeInput)
          /\ SubSeq(list, k + 1, Len(list)) \in Seq(NodeInput)
      BY <1>1
    <3> QED
      BY <3>1 DEF RemoveAt
  <2> QED
    BY <1>2, <2>1, <2>2
<1>6. CASE t \in Declared
  <2>1. PICK k \in DOMAIN list, i \in AuthorInputs :
           t = [s EXCEPT !.inputs = ReplaceAt(list, k, i)]
    BY <1>6
  <2>2. ReplaceAt(list, k, i) \in Seq(NodeInput)
    BY <1>1, <1>3 DEF ReplaceAt
  <2> QED
    BY <1>2, <2>1, <2>2
<1>7. CASE t \in Swapped
  <2>1. PICK k \in 1 .. Len(list) - 1 :
           t = [s EXCEPT !.inputs = [list EXCEPT ![k] = list[k + 1], ![k + 1] = list[k]]]
    BY <1>7
  <2>2. list[k] \in NodeInput /\ list[k + 1] \in NodeInput
    BY <1>1
  <2>3. [list EXCEPT ![k] = list[k + 1], ![k + 1] = list[k]] \in Seq(NodeInput)
    BY <1>1, <2>2
  <2> QED
    BY <1>2, <2>1, <2>3
<1>8. CASE t \in Marked
  BY <1>0, <1>8
<1>9. Evolved(s) = Inserted \cup Removed \cup Declared \cup Swapped \cup Marked
  BY DEF Evolved
<1> HIDE DEF Inserted, Removed, Declared, Swapped, Marked
<1> QED
  BY <1>4, <1>5, <1>6, <1>7, <1>8, <1>9

(* One edit leaves saved values and meaning in step.                       *)
LEMMA EditFact ==
    ASSUME NEW f, FixtureInv(f), NEW g \in EditedFixture(f)
    PROVE  FixtureInv(g)
<1> DEFINE Renamed == {[f EXCEPT !.type = t] : t \in {Gone, "renamed"}}
           Remade == {[f EXCEPT !.metadata = m] : m \in {"drifted", "missing"}}
           Relinked == {[f EXCEPT !.links = Append(@, f.links[k])] : k \in DOMAIN f.links}
           Changed == {Refilled(f, k, v) : k \in DOMAIN f.values, v \in WidgetValues}
<1>0. /\ f \in Fixture
      /\ \A j, k \in DOMAIN f.slots : f.slots[j].name = f.slots[k].name => j = k
  BY DEF FixtureInv, IsInjective, NamesOf
<1>1. ASSUME g \in Fixture, g.slots = f.slots, g.values = f.values, g.meant = f.meant
      PROVE  FixtureInv(g)
  BY <1>1 DEF FixtureInv
<1>7. CASE g \in Renamed
  <2>1. PICK t \in {Gone, "renamed"} : g = [f EXCEPT !.type = t]
    BY <1>7
  <2> QED
    BY <1>0, <1>1, <2>1 DEF Fixture
<1>8. CASE g \in Remade
  <2>1. PICK m \in {"drifted", "missing"} : g = [f EXCEPT !.metadata = m]
    BY <1>8
  <2> QED
    BY <1>0, <1>1, <2>1 DEF Fixture
<1>9. CASE g = [f EXCEPT !.canonical = FALSE]
  BY <1>0, <1>1, <1>9 DEF Fixture
<1>2. CASE g = [f EXCEPT !.values = Gone]
  <2>1. g \in Fixture /\ g.slots = f.slots /\ g.values = Gone
    BY <1>0, <1>2 DEF Fixture
  <2> QED
    BY <2>1 DEF FixtureInv
<1>3. CASE g \in Relinked
  <2>1. PICK k \in DOMAIN f.links : g = [f EXCEPT !.links = Append(f.links, f.links[k])]
    BY <1>3
  <2>2. Append(f.links, f.links[k]) \in Seq(Link)
    <3>1. f.links \in Seq(Link)
      BY <1>0 DEF Fixture
    <3> QED
      BY <3>1
  <2>3. /\ g \in Fixture
        /\ g.slots = f.slots /\ g.values = f.values /\ g.meant = f.meant
    BY <1>0, <2>1, <2>2 DEF Fixture
  <2> QED
    BY <2>3 DEF FixtureInv
<1>4. CASE f.values # Gone /\ f.values # << >> /\ g = [f EXCEPT !.values = Front(@)]
  <2>1. /\ f.values \in Seq(WidgetValues) /\ Len(f.values) \in Nat /\ Len(f.values) # 0
        /\ Len(f.slots) \in Nat /\ Len(f.values) <= Len(f.slots)
    BY <1>0, <1>4 DEF Fixture, FixtureInv
  <2>2. Front(f.values) \in Seq(WidgetValues) /\ Len(Front(f.values)) = Len(f.values) - 1
    BY <2>1 DEF Front
  <2>3. g \in Fixture /\ g.slots = f.slots /\ g.values = Front(f.values)
    BY <1>0, <1>4, <2>2 DEF Fixture
  <2>4. Len(g.values) < Len(g.slots)
    BY <2>1, <2>2, <2>3
  <2>5. Len(g.values) <= Len(g.slots) /\ Len(g.values) # Len(g.slots)
    BY <2>1, <2>2, <2>3
  <2> QED
    BY <2>3, <2>5 DEF FixtureInv
<1>5. CASE f.values # Gone /\ g \in Changed
  <2>0. PICK k \in DOMAIN f.values, v \in WidgetValues : g = Refilled(f, k, v)
    BY <1>5
  <2> HIDE DEF Changed
  <2>1. g = [f EXCEPT !.values = [f.values EXCEPT ![k] = v],
                      !.meant = {m \in f.meant : m[1] # f.slots[k].name}
                                   \cup {<<f.slots[k].name, v>>}]
    BY <1>0, <2>0 DEF Fixture, Refilled
  <2> DEFINE values == [f.values EXCEPT ![k] = v]
             meant == {m \in f.meant : m[1] # f.slots[k].name} \cup {<<f.slots[k].name, v>>}
  <2>2. /\ f.values \in Seq(WidgetValues) /\ Len(f.values) \in Nat /\ Len(f.slots) \in Nat
        /\ Len(f.values) <= Len(f.slots) /\ DOMAIN f.slots = 1 .. Len(f.slots)
        /\ k \in DOMAIN f.slots
    BY <1>0, <1>5 DEF Fixture, FixtureInv
  <2>3. values \in Seq(WidgetValues) /\ Len(values) = Len(f.values)
    BY <2>2
  <2>4. f.slots[k].name \in STRING /\ f.meant \in SUBSET (STRING \X WidgetValues)
    <3>1. f.slots \in Seq(Slot) /\ f.meant \in SUBSET (STRING \X WidgetValues)
      BY <1>0 DEF Fixture
    <3>2. f.slots[k] \in Slot
      BY <2>2, <3>1
    <3> QED
      BY <3>1, <3>2 DEF Slot
  <2>5. meant \in SUBSET (STRING \X WidgetValues)
    BY <2>4
  <2>6. Len(f.values) = Len(f.slots) =>
           meant = {<<f.slots[j].name, values[j]>> : j \in DOMAIN f.slots}
    <3> SUFFICES ASSUME Len(f.values) = Len(f.slots)
                 PROVE  meant = {<<f.slots[j].name, values[j]>> : j \in DOMAIN f.slots}
      OBVIOUS
    <3>1. f.meant = {<<f.slots[j].name, f.values[j]>> : j \in DOMAIN f.slots}
      BY <1>5 DEF FixtureInv
    <3>2. /\ values[k] = v
          /\ \A j \in DOMAIN f.slots : j # k => values[j] = f.values[j]
      BY <2>2
    <3> HIDE DEF values
    <3>3. ASSUME NEW m \in meant
          PROVE  \E j \in DOMAIN f.slots : m = <<f.slots[j].name, values[j]>>
      <4>1. CASE m = <<f.slots[k].name, v>>
        BY <2>2, <3>2, <4>1
      <4>2. CASE m \in f.meant /\ m[1] # f.slots[k].name
        <5>1. PICK j \in DOMAIN f.slots : m = <<f.slots[j].name, f.values[j]>>
          BY <3>1, <4>2
        <5> QED
          BY <3>2, <4>2, <5>1
      <4> QED
        BY <4>1, <4>2
    <3>4. ASSUME NEW j \in DOMAIN f.slots PROVE <<f.slots[j].name, values[j]>> \in meant
      <4>1. CASE j = k
        BY <3>2, <4>1
      <4>2. CASE j # k
        <5>1. f.slots[j].name # f.slots[k].name
          BY <1>0, <2>2, <4>2
        <5> QED
          BY <3>1, <3>2, <4>2, <5>1
      <4> QED
        BY <4>1, <4>2
    <3> HIDE DEF meant
    <3> QED
      BY <3>3, <3>4
  <2> HIDE DEF values, meant
  <2>7. g \in Fixture /\ g.slots = f.slots /\ g.values = values /\ g.meant = meant
    <3>1. g = [f EXCEPT !.values = values, !.meant = meant]
      BY <2>1 DEF values, meant
    <3> QED
      BY <1>0, <2>3, <2>5, <3>1 DEF Fixture
  <2> QED
    BY <2>2, <2>3, <2>6, <2>7 DEF FixtureInv
<1>6. \/ g \in Renamed \/ g \in Remade \/ g = [f EXCEPT !.canonical = FALSE]
      \/ g = [f EXCEPT !.values = Gone] \/ g \in Relinked
      \/ /\ f.values # Gone /\ f.values # << >>
         /\ g = [f EXCEPT !.values = Front(@)] \/ g \in Changed
  <2> DEFINE Rest == IF f.values = Gone \/ f.values = << >> THEN {}
                     ELSE {[f EXCEPT !.values = Front(@)]} \cup Changed
  <2>1. EditedFixture(f) = Renamed \cup Remade
           \cup {[f EXCEPT !.canonical = FALSE], [f EXCEPT !.values = Gone]}
           \cup Relinked \cup Rest
    BY DEF EditedFixture
  <2> HIDE DEF Renamed, Remade, Relinked, Changed
  <2> QED
    BY <2>1
<1> HIDE DEF Renamed, Remade, Relinked, Changed
<1> QED
  BY <1>2, <1>3, <1>4, <1>5, <1>6, <1>7, <1>8, <1>9

LEMMA NewFixture ==
    ASSUME NEW canonical \in BOOLEAN, NEW links \in Seq(Link), NEW slots \in Seq(Slot),
           NEW values \in Seq(WidgetValues), NEW meant \in SUBSET (STRING \X WidgetValues)
    PROVE  [type |-> "node", canonical |-> canonical, metadata |-> "fits", links |-> links,
            slots |-> slots, values |-> values, meant |-> meant] \in Fixture
  BY DEF Fixture

(* A workflow is packaged with a contract that fits it.                    *)
LEMMA PublishedFact ==
    ASSUME SchemaInv(schema), schema # Gone,
           NEW linked, NEW names, NEW fix,
           NEW widgets, widgets = Widgets(schema, names),
           NEW links, links = Among(InputOrder(schema), linked),
           NEW values \in [DOMAIN widgets -> WidgetValues]
    PROVE  FixtureInv(Packaged(widgets, links, values, fix))
<1> DEFINE theLinks == [k \in DOMAIN links |-> [name |-> links[k].name, type |-> links[k].type]]
           slots == [k \in DOMAIN widgets |->
                        [name |-> widgets[k].name, type |-> widgets[k].type,
                         fixed |-> IF fix /\ widgets[k].type = "COMBO"
                                   THEN values[k] ELSE Gone]]
           meant == {<<widgets[k].name, values[k]>> : k \in DOMAIN widgets}
<1>1. InputList(widgets) /\ InputList(links)
  BY WidgetsFact, InputOrderFact, AmongFact
<1>2. /\ Len(widgets) \in Nat /\ DOMAIN widgets = 1 .. Len(widgets)
      /\ Len(links) \in Nat /\ DOMAIN links = 1 .. Len(links)
      /\ \A k \in DOMAIN widgets : widgets[k] \in NodeInput
      /\ \A k \in DOMAIN links : links[k] \in NodeInput
  BY <1>1 DEF InputList
<1>3. theLinks \in Seq(Link)
  <2>1. \A k \in DOMAIN links : [name |-> links[k].name, type |-> links[k].type] \in Link
    BY <1>2 DEF NodeInput, Link
  <2> QED
    BY <1>2, <2>1
<1>4. slots \in Seq(Slot) /\ Len(slots) = Len(widgets)
  <2>1. \A k \in DOMAIN widgets :
           [name |-> widgets[k].name, type |-> widgets[k].type,
            fixed |-> IF fix /\ widgets[k].type = "COMBO" THEN values[k] ELSE Gone] \in Slot
    BY <1>2 DEF NodeInput, Slot
  <2> QED
    BY <1>2, <2>1
<1>5. values \in Seq(WidgetValues) /\ Len(values) = Len(widgets)
  BY <1>2
<1>6. meant \in SUBSET (STRING \X WidgetValues)
  BY <1>2 DEF NodeInput
<1>7. schema.canonical \in BOOLEAN
  BY DEF SchemaInv
<1>8. /\ \A k \in DOMAIN widgets : slots[k].name = widgets[k].name
      /\ DOMAIN slots = DOMAIN widgets
  OBVIOUS
<1>9. IsInjective(NamesOf(slots))
  <2>1. \A j, k \in DOMAIN widgets : widgets[j].name = widgets[k].name => j = k
    BY <1>1 DEF InputList, IsInjective, NamesOf
  <2> HIDE DEF slots
  <2> QED
    BY <1>8, <2>1 DEF IsInjective, NamesOf
<1>10. meant = {<<slots[k].name, values[k]>> : k \in DOMAIN slots}
  <2> HIDE DEF slots
  <2> QED
    BY <1>8
<1> DEFINE f == Packaged(widgets, links, values, fix)
<1> HIDE DEF theLinks, slots, meant
<1>11. f = [type |-> "node", canonical |-> schema.canonical, metadata |-> "fits",
            links |-> theLinks, slots |-> slots, values |-> values, meant |-> meant]
  BY DEF theLinks, slots, meant, Packaged
<1> HIDE DEF f
<1>12. f \in Fixture
  BY <1>3, <1>4, <1>5, <1>6, <1>7, <1>11, NewFixture
<1>13. Len(values) <= Len(slots)
  BY <1>2, <1>4, <1>5
<1>14. f.slots = slots /\ f.values = values /\ f.meant = meant
  BY <1>11
<1> QED
  BY <1>9, <1>10, <1>12, <1>13, <1>14 DEF FixtureInv, f

(* A report whose fields are exchanged is one still.                       *)
LEMMA ExchangedReport ==
    ASSUME NEW I, NEW R,
           R = [lane : {"known_good", "latest_host"}, issues : I,
                compatible : BOOLEAN, gate : BOOLEAN, observational : BOOLEAN],
           NEW r \in R, NEW l \in {"known_good", "latest_host"},
           NEW x \in BOOLEAN, NEW y \in BOOLEAN, NEW z \in BOOLEAN
    PROVE  [r EXCEPT !.lane = l, !.compatible = x, !.gate = y, !.observational = z] \in R
<1>1. ASSUME NEW q \in R PROVE [q EXCEPT !.lane = l] \in R
  OBVIOUS
<1>2. ASSUME NEW q \in R PROVE [q EXCEPT !.compatible = x] \in R
  OBVIOUS
<1>3. ASSUME NEW q \in R PROVE [q EXCEPT !.gate = y] \in R
  OBVIOUS
<1>4. ASSUME NEW q \in R PROVE [q EXCEPT !.observational = z] \in R
  OBVIOUS
<1> DEFINE r1 == [r EXCEPT !.lane = l]
           r2 == [r1 EXCEPT !.compatible = x]
           r3 == [r2 EXCEPT !.gate = y]
           r4 == [r3 EXCEPT !.observational = z]
<1>5. [r EXCEPT !.lane = l, !.compatible = x, !.gate = y, !.observational = z] = r4
  OBVIOUS
<1>6. r4 \in R
  <2>1. r1 \in R
    BY <1>1
  <2> HIDE DEF r1
  <2>2. r2 \in R
    BY <1>2, <2>1
  <2> HIDE DEF r2
  <2>3. r3 \in R
    BY <1>3, <2>2
  <2> HIDE DEF r3
  <2> QED
    BY <1>4, <2>3
<1> QED
  BY <1>5, <1>6

LEMMA ValidationKeeps ==
    ASSUME ValidationInv, [ValidationNext]_validation
    PROVE  ValidationInv'
<1>0. fixtures \in Seq(Fixture) /\ \A k \in DOMAIN fixtures : FixtureInv(fixtures[k])
  BY DEF ValidationInv
<1>1. CASE UNCHANGED validation
  BY <1>1 DEF validation, ValidationInv, SchemaInv, ScanInv, Issues, FixtureIssues,
              NodeIssues, SlotsDrifted
<1>2. CASE Evolve
  <2>1. PICK s \in Evolved(schema) :
           (s # Gone => IsInjective(NamesOf(s.inputs))) /\ schema' = s
    BY <1>2 DEF Evolve
  <2>2. schema # Gone /\ scan' = NoReport /\ fixtures' = fixtures
    BY <1>2 DEF Evolve
  <2>3. SchemaInv(s)
    BY <2>1, <2>2, EvolvedFact DEF ValidationInv
  <2> QED
    BY <1>0, <2>1, <2>2, <2>3 DEF ValidationInv, SchemaInv, ScanInv
<1>3. CASE Publish
  <2>1. /\ schema # Gone /\ schema' = schema /\ scan' = NoReport
        /\ \E f : FixtureInv(f) /\ fixtures' = Append(fixtures, f)
    <3>1. PICK linked \in SUBSET ToSet(InputOrder(schema)) :
             LET widgets == Widgets(schema, {i.name : i \in linked})
                 links == Among(InputOrder(schema), linked)
             IN  \E values \in [DOMAIN widgets -> WidgetValues], fix \in BOOLEAN :
                    fixtures' = Append(fixtures, Packaged(widgets, links, values, fix))
      BY <1>3, Zenon DEF Publish
    <3> DEFINE widgets == Widgets(schema, {i.name : i \in linked})
               links == Among(InputOrder(schema), linked)
    <3>2. PICK values \in [DOMAIN widgets -> WidgetValues], fix \in BOOLEAN :
             fixtures' = Append(fixtures, Packaged(widgets, links, values, fix))
      BY <3>1, Zenon
    <3>3. schema # Gone /\ schema' = schema /\ scan' = NoReport /\ SchemaInv(schema)
      BY <1>3 DEF Publish, ValidationInv
    <3>4. FixtureInv(Packaged(widgets, links, values, fix))
      BY <3>2, <3>3, PublishedFact
    <3> HIDE DEF widgets, links
    <3> QED
      BY <3>2, <3>3, <3>4
  <2>2. PICK f : FixtureInv(f) /\ fixtures' = Append(fixtures, f)
    BY <2>1
  <2>3. f \in Fixture
    BY <2>2 DEF FixtureInv
  <2>4. /\ fixtures' \in Seq(Fixture)
        /\ \A k \in DOMAIN fixtures' :
              \/ fixtures'[k] = f
              \/ k \in DOMAIN fixtures /\ fixtures'[k] = fixtures[k]
    BY <1>0, <2>2, <2>3
  <2>5. \A k \in DOMAIN fixtures' : FixtureInv(fixtures'[k])
    BY <1>0, <2>2, <2>4
  <2>6. SchemaInv(schema)' /\ ScanInv'
    BY <2>1 DEF ValidationInv, SchemaInv, ScanInv
  <2> QED
    BY <2>4, <2>5, <2>6 DEF ValidationInv, FixtureInv
<1>4. CASE EditFixture
  <2>1. PICK k \in DOMAIN fixtures : \E f \in EditedFixture(fixtures[k]) :
           fixtures' = [fixtures EXCEPT ![k] = f]
    BY <1>4 DEF EditFixture
  <2>2. PICK f \in EditedFixture(fixtures[k]) : fixtures' = [fixtures EXCEPT ![k] = f]
    BY <2>1
  <2>3. FixtureInv(f) /\ f \in Fixture
    <3>1. FixtureInv(f)
      BY <1>0, EditFact
    <3> QED
      BY <3>1 DEF FixtureInv
  <2>4. fixtures' \in Seq(Fixture)
    BY <1>0, <2>2, <2>3
  <2>5. \A j \in DOMAIN fixtures' : FixtureInv(fixtures'[j])
    BY <1>0, <2>2, <2>3
  <2>6. schema' = schema /\ scan' = NoReport
    BY <1>4 DEF EditFixture
  <2>7. SchemaInv(schema)' /\ ScanInv'
    BY <2>6 DEF ValidationInv, SchemaInv, ScanInv
  <2> QED
    BY <2>4, <2>5, <2>7 DEF ValidationInv, FixtureInv
<1>5. CASE Scan \/ Reread
  <2>1. UNCHANGED <<schema, fixtures>>
    BY <1>5 DEF Scan, Reread
  <2>2. Issues(fixtures, schema)' = Issues(fixtures, schema)
    BY <2>1 DEF Issues, FixtureIssues, NodeIssues, SlotsDrifted
  <2>3. CASE Scan
    <3>1. PICK lane \in {"known_good", "latest_host"} :
             scan' = ReportOf(fixtures, schema, lane)
      BY <2>3 DEF Scan
    <3> DEFINE issues == Issues(fixtures, schema)
    <3>2. scan' = [lane |-> lane, issues |-> issues, compatible |-> issues = {},
                   gate |-> issues = {} \/ lane = "latest_host",
                   observational |-> lane = "latest_host"]
      BY <3>1 DEF ReportOf
    <3>3. Issues(fixtures, schema)' = issues
      BY <2>2
    <3> HIDE DEF issues
    <3>4. ScanInv'
      <4>1. AdmitsReport(scan)'
        BY <3>2 DEF AdmitsReport
      <4> QED
        BY <3>2, <3>3, <4>1 DEF ScanInv
    <3> QED
      BY <2>1, <3>4 DEF ValidationInv, SchemaInv, FixtureInv
  <2>4. CASE Reread
    <3> DEFINE issues == Issues(fixtures, schema)
               Edited(lane, flags) ==
                  [scan EXCEPT !.lane = lane, !.compatible = flags[1], !.gate = flags[2],
                               !.observational = flags[3]]
    <3>1. PICK lane \in {"known_good", "latest_host"}, flags \in [1 .. 3 -> BOOLEAN] :
             AdmitsReport(Edited(lane, flags)) /\ scan' = Edited(lane, flags)
      BY <2>4 DEF Reread
    <3>2. scan \in [lane : {"known_good", "latest_host"}, issues : {issues},
                    compatible : BOOLEAN, gate : BOOLEAN, observational : BOOLEAN]
      BY <2>4 DEF Reread, ValidationInv, ScanInv
    <3>3. Issues(fixtures, schema)' = issues
      BY <2>2
    <3> HIDE DEF issues
    <3>4. scan' \in [lane : {"known_good", "latest_host"}, issues : {issues},
                     compatible : BOOLEAN, gate : BOOLEAN, observational : BOOLEAN]
      <4>1. flags[1] \in BOOLEAN /\ flags[2] \in BOOLEAN /\ flags[3] \in BOOLEAN
        BY <3>1
      <4> QED
        BY <3>1, <3>2, <4>1, ExchangedReport
    <3>5. ScanInv'
      <4>1. AdmitsReport(scan)'
        BY <3>1 DEF AdmitsReport
      <4> QED
        BY <3>3, <3>4, <4>1 DEF ScanInv
    <3> QED
      BY <2>1, <3>5 DEF ValidationInv, SchemaInv, FixtureInv
  <2> QED
    BY <1>5, <2>3, <2>4
<1> QED
  BY <1>1, <1>2, <1>3, <1>4, <1>5 DEF ValidationNext

(* What nothing found means for the links, the required inputs and the     *)
(* saved values.                                                           *)
LEMMA CleanNode ==
    ASSUME NEW f, NEW s, NodeIssues(f, s) = {}, f.values # Gone
    PROVE  /\ \A l \in ToSet(f.links) :
                 /\ \E h \in HostNode(s).inputs : h.name = l.name
                 /\ \A h \in HostNode(s).inputs : h.name = l.name => h.type = l.type
           /\ \A h \in HostNode(s).inputs : h.section = "required" =>
                 h.name \in LinkedOf(f) \cup {slot.name : slot \in ToSet(f.slots)}
           /\ \A k \in DOMAIN f.slots : k <= Len(f.values) =>
                 SlotIssues(f.slots[k], f.values[k], HostNode(s).inputs) = {}
<1> DEFINE inputs == HostNode(s).inputs
           names == LinkedOf(f) \cup {slot.name : slot \in ToSet(f.slots)}
           Host(l) == {i \in inputs : i.name = l.name}
           n == IF f.values = Gone THEN 0 ELSE Len(f.values)
           loose == \E l \in ToSet(f.links) : Host(l) = {}
           drifted == \E l \in ToSet(f.links) : \E i \in Host(l) : i.type # l.type
           without == \E i \in inputs : i.section = "required" /\ i.name \notin names
           saved == UNION {SlotIssues(f.slots[k], f.values[k], inputs) :
                            k \in {j \in DOMAIN f.slots : j <= n}}
<1>1. IsInjective(NamesOf(f.links))
  BY DEF NodeIssues
<1>2. (IF loose THEN {"missing_input"} ELSE {}) \subseteq NodeIssues(f, s)
  BY <1>1 DEF NodeIssues
<1>3. (IF drifted THEN {"input_type_drift"} ELSE {}) \subseteq NodeIssues(f, s)
  BY <1>1 DEF NodeIssues
<1>4. (IF without THEN {"missing_input"} ELSE {}) \subseteq NodeIssues(f, s)
  BY <1>1 DEF NodeIssues
<1>5. saved \subseteq NodeIssues(f, s)
  BY <1>1 DEF NodeIssues
<1>6. ~ loose /\ ~ drifted /\ ~ without /\ saved = {}
  <2> HIDE DEF loose, drifted, without, saved
  <2> QED
    BY <1>2, <1>3, <1>4, <1>5
<1>7. ASSUME NEW k \in DOMAIN f.slots, k <= Len(f.values)
      PROVE  SlotIssues(f.slots[k], f.values[k], inputs) = {}
  <2>1. SlotIssues(f.slots[k], f.values[k], inputs) \subseteq saved
    BY <1>7
  <2> QED
    BY <1>6, <2>1
<1>8. ~ loose /\ ~ drifted
  BY <1>6
<1>9. ~ without
  BY <1>6
<1>10. \A l \in ToSet(f.links) :
          /\ \E h \in inputs : h.name = l.name
          /\ \A h \in inputs : h.name = l.name => h.type = l.type
  <2> HIDE DEF inputs
  <2> QED
    BY <1>8
<1>11. \A h \in inputs : h.section = "required" => h.name \in names
  <2> HIDE DEF inputs, names
  <2> QED
    BY <1>9
<1> QED
  BY <1>7, <1>10, <1>11

(* A saved value in which nothing was found is one the input takes.        *)
LEMMA CleanSlot ==
    ASSUME NEW slot, NEW value, NEW inputs, NEW h \in inputs, h.name = slot.name,
           DistinctNames(inputs), SlotIssues(slot, value, inputs) = {}
    PROVE  /\ h.type = slot.type
           /\ Matches(value, slot.type)
           /\ slot.type = "COMBO" => value.is \in ToSet(h.options)
<1> DEFINE known == {i \in inputs : i.name = slot.name}
           Types(i) == {"input_type_drift" : x \in {y \in {i} : y.type # slot.type}}
           drifted == {"widget_slot_drift" : x \in {y \in {value} : ~Matches(y, slot.type)}}
           Untaken(i) == {"invalid_fixed_combo_value" : x \in
                            {y \in {value} : /\ slot.type = "COMBO"
                                             /\ \/ slot.fixed # Gone /\ y # slot.fixed
                                                \/ y.is \notin ToSet(i.options)}}
<1>1. known = {h}
  BY DEF DistinctNames
<1>2. (CHOOSE j \in known : TRUE) = h
  BY <1>1
<1>3. SlotIssues(slot, value, inputs) = Types(h) \cup drifted \cup Untaken(h)
  BY <1>1, <1>2, Zenon DEF SlotIssues
<1>4. Types(h) = {} /\ drifted = {} /\ Untaken(h) = {}
  <2> HIDE DEF Types, drifted, Untaken
  <2> QED
    BY <1>3
<1> QED
  BY <1>4

(* A workflow in whose node nothing was found loads as it was meant.       *)
LEMMA CleanLoads ==
    ASSUME NEW f, FixtureInv(f), SchemaInv(schema),
           schema # Gone => HostNode(schema) # Malformed,
           FixtureIssues(f, schema) = {}
    PROVE  /\ Loads(f) = f.meant
           /\ \A m \in f.meant : \E i \in ToSet(schema.inputs) :
                 i.name = m[1] /\ m[2] \in LegalFor(i)
           /\ \A l \in ToSet(f.links) :
                 \E i \in ToSet(schema.inputs) : i.name = l.name /\ i.type = l.type
           /\ \A i \in ToSet(schema.inputs) : i.section = "required" =>
                 i.name \in LinkedOf(f) \cup {m[1] : m \in f.meant}
<1> DEFINE widgets == Widgets(schema, LinkedOf(f))
           S == ToSet(schema.inputs)
           inputs == HostNode(schema).inputs
<1>1. /\ schema # Gone /\ NodeIssues(f, schema) = {}
      /\ NamesOf(widgets) = NamesOf(f.slots)
      /\ f.values # Gone /\ Len(f.values) = Len(f.slots)
  BY CleanFixture
<1>2. inputs = {HostInput(i) : i \in S} /\ DistinctNames(inputs)
  BY <1>1, HostNodeFact
<1>3. InputList(widgets) /\ ToSet(widgets) \subseteq S
  BY <1>1, WidgetsFact
<1>4. /\ f.slots \in Seq(Slot) /\ f.values \in Seq(WidgetValues)
      /\ f.meant = {<<f.slots[k].name, f.values[k]>> : k \in DOMAIN f.slots}
  BY <1>1 DEF FixtureInv, Fixture
<1>5. /\ DOMAIN f.slots = 1 .. Len(f.slots) /\ DOMAIN f.values = DOMAIN f.slots
      /\ Len(f.slots) \in Nat
  BY <1>1, <1>4
<1> HIDE DEF widgets
<1>6. DOMAIN widgets = DOMAIN f.slots /\ \A k \in DOMAIN f.slots : widgets[k].name = f.slots[k].name
  BY <1>1 DEF NamesOf
<1>7. ASSUME NEW k \in DOMAIN f.slots PROVE widgets[k] \in S
  BY <1>3, <1>6 DEF ToSet
<1>8. Loads(f) = f.meant
  <2>1. Loads(f) = {<<widgets[k].name, f.values[k]>> : k \in DOMAIN widgets \cap DOMAIN f.values}
    BY DEF Loads, widgets
  <2> QED
    BY <1>4, <1>5, <1>6, <2>1
<1> HIDE DEF S, inputs
<1>9. ASSUME NEW m \in f.meant PROVE \E i \in S : i.name = m[1] /\ m[2] \in LegalFor(i)
  <2>1. PICK k \in DOMAIN f.slots : m = <<f.slots[k].name, f.values[k]>>
    BY <1>4
  <2> DEFINE i == widgets[k]
             h == HostInput(i)
  <2>2. i \in S /\ i.name = m[1] /\ m[2] = f.values[k] /\ m[2] \in WidgetValues
    BY <1>4, <1>5, <1>6, <1>7, <2>1
  <2>3. SlotIssues(f.slots[k], f.values[k], inputs) = {}
    <3>1. k <= Len(f.values)
      BY <1>1, <1>5
    <3> QED
      BY <1>1, <3>1, CleanNode DEF inputs
  <2> HIDE DEF i
  <2>4. /\ h \in inputs /\ h.name = i.name /\ h.type = i.type
        /\ i.type = "COMBO" => h.options = i.options
    BY <1>2, <2>2 DEF HostInput
  <2> HIDE DEF h
  <2>5. h.name = f.slots[k].name
    BY <2>1, <2>2, <2>4
  <2>6. /\ h.type = f.slots[k].type
        /\ Matches(f.values[k], f.slots[k].type)
        /\ f.slots[k].type = "COMBO" => f.values[k].is \in ToSet(h.options)
    BY <1>2, <2>3, <2>4, <2>5, CleanSlot
  <2>7. m[2] \in LegalFor(i)
    BY <2>2, <2>4, <2>6 DEF LegalFor
  <2> QED
    BY <2>2, <2>7
<1>10. ASSUME NEW l \in ToSet(f.links) PROVE \E i \in S : i.name = l.name /\ i.type = l.type
  <2>1. /\ \E h \in inputs : h.name = l.name
        /\ \A h \in inputs : h.name = l.name => h.type = l.type
    BY <1>1, CleanNode DEF inputs
  <2>2. PICK i \in S : HostInput(i).name = l.name
    BY <1>2, <2>1
  <2>3. HostInput(i).type = l.type
    BY <1>2, <2>1, <2>2
  <2> QED
    BY <2>2, <2>3 DEF HostInput
<1>11. ASSUME NEW i \in S, i.section = "required"
       PROVE  i.name \in LinkedOf(f) \cup {m[1] : m \in f.meant}
  <2>1. /\ HostInput(i) \in inputs /\ HostInput(i).section = "required"
        /\ HostInput(i).name = i.name
    BY <1>2, <1>11 DEF HostInput
  <2>2. i.name \in LinkedOf(f) \cup {slot.name : slot \in ToSet(f.slots)}
    BY <1>1, <2>1, CleanNode DEF inputs
  <2>3. CASE i.name \in {slot.name : slot \in ToSet(f.slots)}
    <3>1. PICK k \in DOMAIN f.slots : i.name = f.slots[k].name
      BY <2>3 DEF ToSet
    <3> DEFINE m == <<f.slots[k].name, f.values[k]>>
    <3>2. m \in f.meant /\ m[1] = i.name
      BY <1>4, <3>1
    <3> HIDE DEF m
    <3> QED
      BY <3>2
  <2> QED
    BY <2>2, <2>3
<1> QED
  BY <1>8, <1>9, <1>10, <1>11 DEF S

(***************************************************************************)
(* A workflow that passed the known-good lane holds in every widget of     *)
(* this host's node the value it was given when it was saved, although     *)
(* only positions were saved; every value is one the host takes, every     *)
(* link ends in an input of its type and no required input is left without *)
(* (_validate_node), for every node, every way of changing it and every    *)
(* editing of the bundle.                                                  *)
(***************************************************************************)
THEOREM PassedWorkflowsMeanWhatTheyMeant ==
    ValidationSpec => []PassedWorkflowsLoadAsSaved
<1>1. ValidationInv => PassedWorkflowsLoadAsSaved
  <2> SUFFICES ASSUME ValidationInv, scan # NoReport, scan.lane = "known_good", scan.gate,
                      NEW k \in DOMAIN fixtures
               PROVE  LET f == fixtures[k]
                          inputs == ToSet(schema.inputs)
                      IN  /\ Loads(f) = f.meant
                          /\ \A m \in f.meant : \E i \in inputs :
                                i.name = m[1] /\ m[2] \in LegalFor(i)
                          /\ \A l \in ToSet(f.links) :
                                \E i \in inputs : i.name = l.name /\ i.type = l.type
                          /\ \A i \in inputs : i.section = "required" =>
                                i.name \in LinkedOf(f) \cup {m[1] : m \in f.meant}
    BY DEF PassedWorkflowsLoadAsSaved
  <2>1. Issues(fixtures, schema) = {}
    <3> DEFINE issues == Issues(fixtures, schema)
    <3>1. /\ scan \in [lane : {"known_good", "latest_host"}, issues : {issues},
                       compatible : BOOLEAN, gate : BOOLEAN, observational : BOOLEAN]
          /\ AdmitsReport(scan)
      BY DEF ValidationInv, ScanInv
    <3> HIDE DEF issues
    <3>2. issues = {}
      BY <3>1 DEF AdmitsReport
    <3> QED
      BY <3>2 DEF issues
  <2>2. /\ schema # Gone => HostNode(schema) # Malformed
        /\ FixtureIssues(fixtures[k], schema) = {}
    BY <2>1 DEF Issues
  <2>3. FixtureInv(fixtures[k]) /\ SchemaInv(schema)
    BY DEF ValidationInv
  <2> QED
    BY <2>2, <2>3, CleanLoads
<1>2. ValidationInit => ValidationInv
  BY ValidationStarts
<1>3. ValidationInv /\ [ValidationNext]_validation => ValidationInv'
  BY ValidationKeeps
<1> QED
  BY <1>1, <1>2, <1>3, PTL DEF ValidationSpec
=============================================================================

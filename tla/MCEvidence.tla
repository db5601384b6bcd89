------------------------------ MODULE MCEvidence ------------------------------
(* One instance for sampler snapshots in the hands of one caller, in those  *)
(* of two that share them, and for the evidence of runs.  part says which   *)
(* of them this behavior is about.                                          *)
EXTENDS SamplerState, Evidence

VARIABLE part

SpecOf(sampler, rng, first, transitions, evaluations) ==
    [sampler |-> sampler, rng |-> rng, scheduler_index |-> first,
     requested_transitions |-> transitions,
     requested_model_evaluations |-> evaluations]

(* A partial run of two steps that may spend three evaluations, which two   *)
(* callers may share; a run of three steps, whose four sigmas no artifact   *)
(* holds when MaxCollection = 3; and one of five steps, more than a history *)
(* of MaxHistory = 4 holds, which can be written until its fourth step.     *)
MCSharedSpec == SpecOf("euler", "none", 1, 2, 3)
MCSpecs ==
    {MCSharedSpec, SpecOf("heun", "caller", 0, 3, 3), SpecOf("heun", "caller", 0, 5, 5)}

ReceiptsFor(ids, specs, max) ==
    {r \in {[id |-> id, sampler |-> sampler, rng |-> rng, requested_transitions |-> wanted,
             requested_model_evaluations |-> allowed, effective_transitions |-> done,
             effective_model_evaluations |-> spent, status |-> status] :
                id \in ids, sampler \in {sp.sampler : sp \in specs},
                rng \in {sp.rng : sp \in specs},
                wanted \in {sp.requested_transitions : sp \in specs},
                allowed \in {sp.requested_model_evaluations : sp \in specs},
                done \in 0 .. max, spent \in 0 .. max, status \in ReceiptStatuses} :
        BuildableReceipt(r)}

(* Host values are the even ones: 3 and 4 meet, and 7 is taken for 1.0.     *)
MCFloat32 == [v \in 0 .. One |-> 2 * ((v + 1) \div 2)]

Size == "1024x1024"

Result(sigmas, requested, overrides, denoise, start, end, source, profile) ==
    [sigmas |-> sigmas, domain |-> "unit_flow", ownership |-> "external_sigmas",
     requested |-> [steps |-> requested, size |-> Size],
     effective |-> [steps |-> Len(sigmas) - 1, size |-> Size],
     overrides |-> overrides, denoise |-> denoise, start |-> start, end |-> end,
     source |-> source, profile |-> profile,
     transforms |-> <<[stage |-> 1, from |-> "unit_flow", to |-> "unit_flow"]>>]

Full(sigmas, source, profile) ==
    Result(sigmas, Len(sigmas) - 1, {}, One, 0, Open, source, profile)

(* Two whole schedules of one form from different sources, one of a single  *)
(* step, one of another domain without a profile whose sigmas meet in       *)
(* float32, one that is too long, a tail, a tail that float32 takes for the *)
(* whole, a range with an end and one without, and one the model owns.      *)
MCResults ==
    {Full(<<8, 4, 0>>, "paper", "p"), Full(<<8, 4, 0>>, "code", "p"),
     Full(<<8, 0>>, "paper", "p"),
     [Full(<<8, 7, 0>>, "paper", NoProfile) EXCEPT !.domain = "continuous_edm", !.transforms = << >>],
     Full(<<8, 6, 4, 0>>, "paper", "p"),
     Result(<<4, 2, 0>>, 2, {}, 4, 0, Open, "paper", "p"),
     Result(<<6, 3, 0>>, 2, {}, 7, 0, Open, "paper", "p"),
     Result(<<6, 4, 0>>, 3, {"steps"}, One, 1, 3, "paper", "p"),
     Result(<<6, 4, 0>>, 3, {"steps"}, One, 1, Open, "paper", "p"),
     [Full(<<8, 4, 0>>, "paper", "p") EXCEPT !.ownership = "model_native"]}

(* requirements in order, one of them, and out of order                     *)
MCNodeLists == {<<1>>, <<1, 2>>, <<2, 1>>}

Outcome(requested, effective, status, level) ==
    [sampler |-> "euler", rng |-> "none", requested_transitions |-> requested,
     requested_model_evaluations |-> requested, effective_transitions |-> effective,
     effective_model_evaluations |-> effective, status |-> status, level |-> level,
     reason |-> status \in {"failed", "interrupted"}]

MCOutcomes ==
    {Outcome(n, n, "succeeded", level) : n \in 1 .. 2, level \in {"allow", "reject"}}
        \cup {Outcome(n, 0, "not_executed", "allow") : n \in 1 .. 2}
        \cup {Outcome(2, 1, "interrupted", "allow")}

(* Drafts of backend receipts: of every status and source, by a backend or  *)
(* none, measured or not, with a bare name, an unsorted reason, an override *)
MCBackendDrafts ==
    {[checkpoint |-> [bare |-> status = "failed", id |-> "h3", version |-> "unavailable",
                      fingerprint |-> IF status = "failed" THEN "" ELSE "unavailable"],
      request |-> [operation |-> "triton", override |-> status = "rejected"],
      observation |-> [source |-> source, status |-> status, actual |-> actual,
                       reasons |-> CASE status = "succeeded" -> << >>
                                     [] status = "fallback" /\ actual = "triton" -> <<1, 2>>
                                     [] status = "fallback" -> <<2, 1>>
                                     [] OTHER -> <<1>>],
      evidence |-> [latency |-> Nothing,
                    output |-> IF status = "succeeded" THEN "image" ELSE Nothing],
      result |-> [status |-> status,
                  reason |-> IF status = "succeeded" THEN Nothing ELSE 1]] :
        status \in {"succeeded", "fallback", "rejected", "failed", "not_executed"},
        source \in {"synthetic", "authorized_host_dispatch"},
        actual \in {"triton", "not_observed"}}

(* Requests for advanced features: allowed, warned of and rejected ones of  *)
(* every mode, with the snapshot of the right and of another specification  *)
Requested(features, mode, hosts, snapshot, spec, owner) ==
    [features |-> features, mode |-> mode, host |-> hosts, snapshot |-> snapshot,
     spec |-> spec, snapshotSpec |-> owner, model |-> FALSE, patch |-> FALSE]

MCAdvancedRequests ==
    {Requested({"interruption"}, "native_host", {"interruption"}, Nothing, Nothing, Nothing),
     Requested({"interruption"}, "native_host", {"interruption"}, "s", "a", "a"),
     Requested({"resume"}, "deterministic_pure", {}, "s", "a", "a"),
     Requested({"resume"}, "deterministic_pure", {}, "s", "a", "b"),
     Requested({"partial_denoise"}, "stochastic_pure", {}, Nothing, Nothing, Nothing),
     Requested({"controlnet"}, "stochastic_pure", {}, Nothing, Nothing, Nothing),
     [Requested({"image_to_image"}, "deterministic_pure", {}, Nothing, Nothing, Nothing)
        EXCEPT !.model = TRUE]}

MCHolders == {"h1", "h2"}

(* Every receipt of these specifications, computed once.                    *)
AllReceipts == ReceiptsFor(ReceiptIds, MCSpecs, MaxCount)
MCReceipts == AllReceipts

MCvars == <<vars, evidence, part>>

(* Steps that change nothing in the latent.                                 *)
Idle(s) == \A i \in DOMAIN s.history : {s.history[i].input, s.history[i].output} = {"x"}

(* One caller, to whom two receipts need not differ in identity and whose   *)
(* longer runs can only be taken one way ...                                *)
Alone ==
    /\ held["h2"] = NoSnapshot
    /\ \A s \in Live :
        /\ s.receipt # NoReceipt => s.receipt.id = "a"
        /\ s.spec # MCSharedSpec =>
              Idle(s) /\ \A i \in DOMAIN s.history : s.history[i].model_evaluations = 1

(* ... and two, who share one run whose steps can only be taken one way.    *)
Sharing ==
    \A s \in Live :
        /\ s.spec = MCSharedSpec /\ Idle(s)
        /\ \A i \in DOMAIN s.history : s.history[i].model_evaluations = i

MCInit ==
    /\ part \in {"alone", "sharing", "run", "paper", "workflow"}
    /\ Init
    /\ EvidenceInit
    /\ part # "workflow" => workflow.supported

MCNext ==
    \/ part = "alone" /\ Next /\ Alone' /\ UNCHANGED <<evidence, part>>
    \/ part = "sharing" /\ Next /\ Sharing' /\ UNCHANGED <<evidence, part>>
    \/ part = "run" /\ RunNext /\ UNCHANGED <<vars, part>>
    \/ part = "paper" /\ PaperNext /\ UNCHANGED <<vars, part>>
    \/ part = "workflow" /\ WorkflowNext /\ UNCHANGED <<vars, part>>

MCSpec == MCInit /\ [][MCNext]_MCvars
=============================================================================

# A verification development for ComfyUI-Sigmax

ComfyUI-Sigmax adds model-aware sigma schedules to ComfyUI, and beside them keeps
internal contracts for executing a schedule: sampler state that can be interrupted,
stored, resumed and tied to an execution receipt, and Flow Euler controllers that
drive it. Its scripts run real ComfyUI hosts against these contracts. This directory
holds TLA+ models of the parts of that code in which *something happens over time*,
the TLC runs that check them on small instances, and proofs, checked by TLAPS, of what
they promise, for every value of the constants: the safety of the sampler state, the
controllers, the end-to-end lane, the schedule graph, the dispatch observer and the H4
harness, of installation, profiles and MiniMax H3, and three refinements.

`PROJECT.json` says for every definition which lines it models ("map"), what each run
checks ("runs"), a change of the code that each property catches ("mutants"), what is
hard to test and where ("hazards"), disagreements between code and documentation
("findings"), and what is proved ("theorems").

    tlc -workers 2 -config MCEvidence.cfg MCEvidence
    tlapm SamplerStateProofs.tla

## 1. The system

Paths are relative to `src/`; `core/` is `comfyui_sigmax/core/` and so on.

| component | state it keeps | operations | what makes it hard |
|---|---|---|---|
| sampler state (`core/sampler_state.py`) | immutable snapshots, shared by reference; one JSON transport | initial, append_step, interrupt, resume, complete, attach a receipt, serialize, deserialize | any sequence of calls by several callers; restarts that bring back old copies; a history may have 10,000 steps, what is written or proved of it 1,024 |
| Flow Euler controllers (`core/flow_euler.py`) | loop state of one call; the caller's mutable tensors | deterministic (partial, resumable) and stochastic execution | callbacks that fail or write into their input; resuming with a tensor others have held; results that are handed out only at the end |
| Torch adapter (`adapters/comfyui_flow_euler.py`) | the caller's seeded generator | fingerprint, derivative, Euler step, noise, interpolation | a generator that outlives failed runs |
| artifacts, receipts, reports (`core/artifacts.py`, `fingerprints.py`, `execution_receipts.py`, `reports.py`, `h3_backend_receipts.py`) | immutable records and their files | build, write, read, join, compare | records that hold copies of parts of each other, each valid alone, and that others edit in between |
| workflow metadata (`core/workflow_metadata.py`) | one key in a saved workflow | attach, find, detach | a document that belongs to users and to other packs |
| capabilities, advanced workflows (`core/capabilities.py`, `advanced_workflow_compatibility.py`) | none; receipts of decisions | decide over feature combinations | many combinations, order of refusals |
| schedule pipeline (`core/request_result.py`, `schedule_contracts.py`, `base_grids.py`, `shifts.py`, `terminal_slicing.py`, `validation.py`) | none | resolve a request, build, shift, slice and validate a grid | boundaries: step counts, denoise, terminal zero, duplicates |
| model profiles (`profiles/*.py`) | none | a schema that declares and a builder that makes, for each family | the same numbers written twice; slices of schedules with boundaries |
| profile registry and resolution (`profiles/registry.py`, `resolution.py`, `krea2_variant.py`) | an immutable registry, passed on | register, replace, inherit; collect evidence, decide | parents under their children; evidence of unequal worth that contradicts itself |
| MiniMax H3 (`profiles/minimax_h3*.py`, `adapters/minimax_h3_scheduler.py`, its node) | the patches of the host's model | own schedule, the host's schedule, two verdicts about an artifact | a shift kept in three places any node may patch; an info made for another schedule first |
| schedule nodes (`nodes/`) | none; the outputs of executed nodes are kept by the host | build, slice, round to a host tensor, bind the info, verify, split, join, resample, publish | a tensor and its info travel over two wires that a user connects as he likes; the host rounds to float32 after the schedule was validated |
| node registry, host adapter (`adapters/registration.py`, `adapters/comfyui.py`) | copy-on-write node map | register, register_many; two views, normalized | collisions, batches that fail half way, two formats of one node |
| host mutation, co-installation (`host_mutation.py`, `scripts/run_synthetic_coinstallation_matrix.py`) | snapshots of host state | compare, accept or take out again | chains of decisions, each about neighbours only |
| package bootstrap (`__init__.py`) | the interpreter's module table | load, refuse, fail | loads that fail half way, two checkouts in one process |
| workflow fixtures (`workflows/validation.py`) | packaged workflows and reports | validate against a host's description | values saved by position, nodes that change |
| dispatch observer (`scripts/h4_dispatch_observer.py`) | the process-wide active observer, the hooked kernel registry, a trace file | observe, wrap and count, checkpoint, finalize | a global hook and a file written between its steps; failures in between |
| H4 harness (`scripts/run_minimax_h3_h4_validation.py`) | rows, host process, run directory, memory sampler thread | run rows, read traces, terminate, clean up | three prompts to a row and one trace file; cleanup decided twice |
| host end-to-end harness (`scripts/run_comfyui_e2e.py`) | host process, port, run directory, evidence | stage, start, await, submit twice, verify, stop, clean | a process and a port that move on their own, bounded waits, a finally block that can fail; tables of cases that repeat the node's |
| conditioning, matrices, release scripts, generators, frontend | none worth the name | arithmetic, JSON and file checks | - |

How they meet: a node resolves a profile and yields a schedule and its artifact; a
controller takes the schedule's sigmas and a specification, drives a model through
callbacks, and records each transition in a snapshot; the caller binds the finished
or interrupted snapshot to a receipt and transports both. The end-to-end harness
starts a host with the nodes installed and asks it for all this twice; the H4 harness
does so for one model, with the dispatch observer inside the host and the trace file
between them.

What must hold, component by component:

* **Sampler state.** A history is one run: consecutive, continuous, within what was
  requested, whatever was interrupted, shared, stored and restored. A receipt stays
  true of the snapshot it is bound to; binding and completing are final. What was
  written can be read, and a snapshot can be settled exactly when its request fits an
  artifact.
* **Controllers.** A result is exactly its recorded history applied to the recorded
  start, and can be written and settled; a call never works on a state its history did
  not end in, and is never stopped by the checks of its own snapshot; noise is consumed in
  order and never twice.
* **Observer.** No stacked hooks; the process's record of an observer agrees with the
  registry; a trace that a row accepts counts every call of a listed operation
  of the prompt it is about.
* **End-to-end lane.** A failed attempt is never hidden by a repeat; success means that
  everything ran twice alike and nothing was left behind; a failure leaves its
  artifacts; the lane ends.
* **Evidence.** What is read from a file agrees with itself, whoever edited it; a run
  that is bound to a receipt took the whole schedule of the receipt's artifact; metadata
  in a workflow is not replaced, and the keys of others are left alone.
* **Schedule nodes.** After rounding, an output is still a schedule and its info names
  exactly its values and how they came about; no info is accepted beside values it was
  not made for; splitting and joining are inverse; what is published as official is an
  unmodified official schedule, and every such schedule is.
* **Profiles.** A schedule carries the evidence of a declared source that vouches for its
  steps; a boundary splits what was delivered where it says; what a profile says of its
  parent stays true; no profile is used against what is known of the model.
* **MiniMax H3.** A schedule of the host is made under one shift, the one its info names;
  every field of that info is about the delivered values; two verdicts about an artifact
  agree; the host lane's verdict is about the node.
* **Installation.** Batches of registrations are all or nothing and both views of a node
  describe it; a chain of accepted packs is acceptable as a whole; a package that is
  found was loaded to its end; a packaged workflow that passed means on the host what it
  meant when it was saved.
* **H4 harness.** A row tells of its own prompts only; the run directory stays as long as
  something is left to explain; every row that began ends.

## 2. The modules

    CanonicalProjection          how long a list that is written or fingerprinted may be
      +- ScheduleArtifacts       (below)
      +- SamplerSnapshot         (next)
    SamplerSnapshot              values and guards: specification, step, snapshot, receipt
      +- SamplerState            callers, sharing, transport, restart
      |    +- SamplerStateProofs
      +- FlowEuler               the deterministic controller, its caller and model
      |    .. implements ResumableRun
      +- StochasticFlowEuler     the stochastic controller and the caller's generator
      |    +- ControllerProofs   of both controllers  (with MCControllers)
      +- ExecutionReceipts       receipts, bundles, reports  (with ScheduleArtifacts)
           +- WorkflowMetadata   what a saved workflow says of them
                +- Evidence      runs, papers and workflows  (with AdvancedWorkflows)
    BackendReceipts              what a backend computed
      +- AdvancedWorkflows       who owns an advanced feature
    ScheduleOps                  sigmas, grids, shift, terminal, slicing, rounding
      +- ScheduleArtifacts       artifact and fingerprints
      +- ScheduleGraph           the schedule nodes and the wires between them
      |    +- ScheduleGraphProofs
      +- ModelProfiles           schemas, builders and nodes of the model families
      +- H3Delegation            the H3 node and the host's schedulers  (with H3Tables)
           +- H3HostCases        the cases of the host lane, and its verdict
    H3Tables                     recipes, artifacts, backends, hosts
      +- H3Artifacts             two verdicts about an artifact
           +- ProfileProofs      of registry, resolution and MiniMax H3  (with MCProfiles)
    ProfileRegistry              registration, replacement, inheritance
    ProfileResolution            evidence, variant, decision
    NodeSchemas                  node descriptions and their normal form
      +- NodeRegistry            registering nodes, and the two views of them
      +- WorkflowFixtures        packaged workflows and their validator
    HostMutation                 packs that change a host
    PackageLoading               checkouts loaded into one interpreter
      +- InstallProofs           of registry, packs and package  (with MCInstall)
    H4Row                        what the H4 validation promises of a row
      .. implemented by H4Harness            the harness, its host and its thread
      .. implemented by DispatchObserver     observer, registry, trace file
      +- H4Proofs                of both, and of both refinements  (with MCH4)
    HostLane                     one lane of the end-to-end harness, host, port
      +- HostLaneProofs
    InductionFacts               induction, as the proofs of loops and sums use it

The instances: `MCEvidence` (sampler state, evidence), `MCControllers`, `MCScheduleGraph`,
`MCProfiles` (all modules about profiles), `MCInstall` (registry, packs, package,
workflows), `MCH4` (harness and observer), `MCHostLane`. Where an instance has parts that
share no state, `part` says which of them a behaviour is about, and the other variables
stay as they began.

**SamplerSnapshot** has no variables. Every method of `SamplerStateSnapshot` is a guard
`Can...` (the method returns) and a value (what it returns); `WellFormed` is what
`__post_init__` checks and `replace()` therefore checks again. `ValidReceipt` is the
constructor of `ExecutionReceiptMetadata`. The controllers use the same operators, so a
step of a controller goes through the same checks as in the code.
Abstractions: a specification stands for its fingerprint and a receipt for its own
(SHA-256 over canonical JSON is taken to be injective); the numerical state is an
element of a set, its fingerprint itself; provenance texts are not modelled.

**SamplerState** lets callers (`Holders`) use these methods in any order, each with a
specification of its own choice. `Share` copies a reference, `Serialize` writes the one
transport slot, `Restart` empties every holder, `Deserialize` may then restore an old
copy. A call that raises is no step, since nothing is changed by it.

**FlowEuler** splits `execute_deterministic_flow_euler` at its calls of the model:
`Start` is everything up to the loop, `Transition` one turn of it, `Finish` what follows, `FingerprintFails` what follows
when the schedule is too long to be fingerprinted: the call raises with its work done.
`ModelFails` and `ModelWrites` are the two ways a model breaks a call; the caller's own
tensor is the loop's state until the first transition (`owned`), which is why a
detected write can still reach the caller. Between calls, `OutsideWrite` is another node
writing into a tensor the caller kept and `Settle` is a receipt being bound. The caller
may pass any kept tensor with any kept snapshot, any schedule and any limit, so that
stale snapshots, repeated calls and mismatched tensors are all tried. A numerical state
is the list of what was applied to it; an Euler step is thus injective, which makes
"same result" mean "same transitions in the same order".

**ResumableRun** is what `execute_deterministic_flow_euler` promises without its loop,
snapshots and failures: a call performs some of the transitions that are left of a
request, in order, or nothing happened. `FlowEuler` implements it (`KeepsPromise`): a
result maps to the request it serves and the transitions its history records, a caller's
tensor to itself.

**StochasticFlowEuler** does the same for the stochastic controller and the Torch noise
provider: a draw is its seed and its position in the generator's stream; a failed run
leaves the generator where it got to, also one whose schedule cannot be fingerprinted at
its end; the interpolation to zero mixes in no noise. A run's schedule is given by its
length (`Lengths`).

**DispatchObserver** has one action per node execution of the host: `Observe` (install,
wrap, first write) with its failures `ObserveRefused`, `ArmWriteFails`, `WrapFails`;
`Call` for each wrapped dispatch, with its checkpoint; `Abort`; `Finalize` and
`FinalizeWriteFails`; and the row around it: `ReadTrace`, `NextRow`, `Terminate`. A host
executes one node at a time, which is why a node is a step. A failing write leaves the old
file or a torn one.

**H4Harness** is the whole of the H4 validation: the preflight of the rows and of the
files they name, staging and start of the host, each row's warm-up, first and repeated
prompt with the files they write, the thread that samples the memory of the GPU, the
trace, and, however the rows ended, the stop of the host, the receipts about port and
checkout, `safe_remove`, the cleanup projection and the exit code. The host exits and
files change when they like; a request may time out. A B row's file is judged at a fixed
path while its prompt names the file of the arguments; the model takes them for one.

**H4Row** is what both sides of a row promise: prompts one after the other, one reading
of the trace, an end. `H4Harness` and `DispatchObserver` each implement it, the first
with the fairness that makes every row end; so the row that the observer sees and the
row that the harness runs are the same.

**HostLane** follows `run` (and `run_conditioning`, `run_minimax_h3`, which differ in
their cases) from staging to the end of its finally block. A case runs, fails or is
refused; which prompt it builds and how its history is verified, field by field, is
abstracted to the summary the verification yields or its failure (`Wrong`);
`H3HostCases` has both for MiniMax H3. `Attempted`
is `execute_verified_host_repeat`. The host binds, answers, finishes prompts and exits
when it likes, the port is taken and lingers when it likes; a request may fail even
though the host would answer. Whoever else holds the port does not answer as a ComfyUI
host.

**CanonicalProjection** is the one bound of `canonical_projection_bytes` that decides
anything here: a list has at most `MaxCollection` entries (1,024). Writers, readers and
fingerprints share it, since the readers run the same function again, and it is far below
the lengths a schedule and a history may have. The limit of one MiB is not reached by
records within it.

**ScheduleOps** has the pure steps of the schedule pipeline. A sigma is a whole number of
units; a Python float's step rounds down to a unit, and `Float32` is any idempotent,
order-keeping rounding to fewer values that is exact at 0 and 1, which is all the code
can rely on in a float32 tensor. Two different floats may become one, and that is the
point: strictness holds before rounding and may be lost by it.

**ScheduleGraph** has one action per node, and one variable: the outputs made so far,
each a tensor of host values and an info. A node takes its inputs from *any* outputs, the
tensor from one and the info from another. The schedulers build, validate, slice and
round; `Bound`, `BoundH3` and `BoundAlgebra` are the three ways the info is rebound to
the rounded values, `Unbound` is what two nodes do instead. `Verified` is the check in
front of the inspector and the algebra; `TurboPublishes` and `RawPublishes` rebuild the
schedule named by the info and compare. Abstractions: a fingerprint stands for the
values it is computed from (and the two Krea nodes' infos for their fields the readers
look at); image size is fixed, and with it the shift of a variant; one LoRA variant
stands for both; SD3 stands for the profile nodes that differ from it in grid and
shift; a node that raises has no output and is no step. The lane of the H3 node
that asks the host's own scheduler is in `H3Delegation`. Left out: the comparison node
and the profile inspector.

**ScheduleArtifacts**, **ExecutionReceipts**, **BackendReceipts**, **AdvancedWorkflows**,
**WorkflowMetadata** have no variables either: what can be built, what is written, and
what a reader checks again (`CanBuild...`, `...Envelope`, `Readable...`). Hashes are
taken to be injective and stand for what they are taken of; canonical JSON loses
nothing. **Evidence** puts them to use: a run of an artifact's schedule is settled with a
receipt; any of seven kinds of paper is written, edited field by field, also with the
fields of another one, and read; metadata is attached to a workflow that its user and
other packs edit.

**ModelProfiles** holds both numbers of each file in `profiles/`, those of the schema
and those of the builder (one table for both in Wan and the native Qwen profile), with the scheduler nodes that slice and deliver; sigmas are
those of `ScheduleOps`; a shift by a ratio is computed in whole units, the exponential one
with a ratio that grows with its parameter, since no property is about the curve itself. **ProfileRegistry** registers, replaces
and inherits in any order. **ProfileResolution** collects evidence, resolves the variant
and joins profile, sampler, request and host into a decision, for every set of evidence
and every combination.

**H3Tables** are the frozen tables. **H3Delegation** is the H3 node with its own
schedules and with one of the host: the model passes through nodes that patch its
sampling object and its markers, and the host's schedulers may answer anything.
**H3HostCases** runs the cases that the host lane sends to this node, through the test
nodes of `tests/fixtures/comfyui_h3_nodes`, and compares as the lane does.
**H3Artifacts** asks both verdicts about every claim.

**NodeSchemas** describes nodes in both forms and normalizes them; **NodeRegistry**
registers them one by one and in batches; **WorkflowFixtures** packages workflows,
changes the node afterwards in every way its author may, edits the fixtures and runs the
validator. **HostMutation** installs packs one after the other, each judged against the
state before it. The judgement (`host_mutation.py`) is the code's, the chain is the
model's own environment: the script that uses it gives every fixture a fresh baseline. **PackageLoading** loads the package from two checkouts, with failures
at any submodule.

Variants of a definition marked `mutant:` are the plausible faults of the code that
the properties must notice; nothing else uses them.

## 3. The runs

| run | states | what it shows |
|---|---|---|
| `evidence` | 77,207 | *Alone*: one holder, three specifications: a partial run (starting at scheduler position 1) of two transitions with three evaluations, so that the two budgets run out at different times; one of three transitions, whose four sigmas no artifact holds (`MaxCollection` = 3), although its history can be written; and one of five, longer than `MaxHistory` = 4, whose fourth step can be taken and not be written; two fingerprints, so that discontinuous steps are offered: `BudgetKept`, `HistoryIsOneRun`, `WireIsReadable`, `OnlyOversizedStranded`, `ReceiptTellsTheTruth`, `CompletionIsFinal`. *Sharing*: two holders, one transport and two receipts that differ in identity only, over the partial run taken in one way: the same properties, and `BindingIsFinal`, which needs the second caller. *Papers*: results that are whole, sliced, collapsing in float32, of another domain and too long; receipts of every status; backend receipts of every status and source; requests of every mode; one edit to a paper: `AcceptedEvidenceAgrees`, which also holds of runs settled with receipts. *Workflows*: `MetadataStands` |
| `controllers` | 152,503 | *Deterministic*: two specifications (three transitions after the first, the last of five), two valid schedules of the same length, a longer one of six sigmas and an invalid one, limits 1 and none, one fault, up to three results; a canonical list has at most five entries, so the longer schedule is carried out and cannot be fingerprinted: `StepsAreAccepted`, `ResultsAreEvidence`, `KeepsPromise`. *Stochastic*: two seeds, runs of one transition (without noise), of two (one with noise) and of five, which draw and then raise; two failures, one reseeding, three results: `NoiseIsOneStream` |
| `flow_euler_two_schedules` | - | finding: `MatchesUninterrupted` is violated |
| `h4` | 524,902 | *Harness*: requests that are refused, that only ask for the preflight, that queue two rows of which one may name another file, and one that needs an image; outputs that differ between prompts: `RunDirOutlivesTrouble`, `RowTellsItsOwn`. *Observer*: two observers, two kinds of dispatch, three prompts to a row, a checkpoint every second call, up to three calls a kind, two failing writes: `AcceptedTraceIsComplete`, `NextPromptCanObserve`. Both: `RowsRunAsPromised` |
| `dispatch_observer_leak` | - | finding: `HookHasOwner` is violated |
| `host_lane` | 6,408 | one case of each kind, two summaries and the wrong one, two iterations to a wait: `FirstAttemptDecides`, `SuccessIsComplete`, `ArtifactsSurviveFailure`, `LaneEnds` |
| `host_lane_exit` | - | finding: `WaitsStopWithHost` is violated |
| `schedule_graph` | 8,291 | 24 units of which every third is a host value, so that schedules are left alone, changed or made to collapse; two and four steps, slices in front, behind and whole, flat and steep shifts, a host tensor without info; up to two schedulers and one node that works on their outputs, wired in every way: `BoundPairsVerify`, `AcceptedMeansMadeTogether`, `InfoTellsTheTruth`, `SplitsRejoin`, `OfficialIsPublished` |
| `schedule_graph_unbound` | - | finding: `EveryPairVerifies` is violated |
| `profiles` | 90,666 | *Nodes*: every built-in profile and node at the step counts around what the profiles declare, three slices: `EvidenceFollowsReference`, `BoundarySplitsDelivered`. *Registry*: a built-in key and two of callers, schemas that differ in evidence and recipes: `InheritanceFromBuiltinIsTrue`. *Resolution*: up to three pieces of evidence of every source and variant against profiles, samplers, requests and hosts: `NoDecisionAgainstEvidence`. *Delegation*: three host versions, two shifts of each kind, two patches, answers of the host that are good, too long, too short, not decreasing, of another type: `DelegatedUnderOneShift`, `DelegatedInfoIsTrue`. *Cases*: every case of the lane on hosts with and without what it needs: `VerdictsFollowNode`. *Artifacts*: every claim: `VerdictsAgree` |
| `install` | 153,236 | *Registry*: well-formed and malformed declarations of each kind, alone and in pairs: `RegistrationsStand`, `ViewsAgree`. *Packs*: every single change of a host, one after the other: `AcceptedChainKeepsHost`. *Package*: two checkouts, two submodules, three loads: `ExistingIsComplete`. *Workflows*: a node with two widgets and a socket, two changes (which may mark it experimental), one fixture that may be edited: `PassedWorkflowsLoadAsSaved` |
| `install_two_checkouts` | - | finding: `ServesItsOwn` is violated |

Why the bounds suffice. In the sampler state nothing depends on how long a history is
except its limits, and these are reached, a list's before a history's as in the code:
`MaxCollection` is 3, `MaxHistory` 4, and the requests are for 2, 3 and 5 transitions, the
first with 3 evaluations. A paper's
reader looks at one paper, and what must agree in it are pairs of fields, so one edit
that takes a field of another paper shows every disagreement (`MaxEdits`). The
deterministic controller is unlike itself only in its first turn (the caller's tensor),
in a later turn, and in its last, so three transitions, resumed at any of them, cover
it; the third result lets a call start from a snapshot that another call has already
moved past. In the observer two observers are enough because a third can only be armed
in a state in which one of the two is no longer referred to (`New`); three prompts and
two rows are what the harness has. In the lane three
cases have a first, a middle and a last one, and two polls a repetition. In the schedule
graph every property is about one output, or about a reader with at most two or three
inputs; an output is judged by the node that delivers it, whose inputs are two pairs at
most, so two sources and one operation on them (`MaxSources`, `MaxOutputs`) show every
kind of node on every kind of input, operations on the outputs of operations excepted:
of those the proofs take care (section 4), for graphs of any size. Profiles are checked
at every step count at which a declared range begins, ends or has a neighbour; a model's
shift is patched twice, so that one patch can undo another. A registry's
batches of two contain the first collision there can be; loads of two checkouts, three
of them, contain a failed one between two others; two changes of a node can move an
input out of the way of another. `MaxCount`,
`MaxSigmas` and `MaxCollection` stand for the code's own limits (1,000,000; 10,001; 1,024);
`MaxFaults`, `MaxResults`, `MaxReseeds`, `MaxCalls`, `MaxWriteFaults`, `MaxPatches`,
`MaxChanges`, `MaxFixtures` and `MaxLoads` bound the
behaviour and are marked `bound` where they guard, as are `MaxSources` and `MaxOutputs`. They
are why the runs of controllers, observer, schedule graph and installation switch deadlock
checking off: once the last result is out nothing else may happen.

### Fairness

* `HostLane`, `H4Harness`: weak fairness of the driver, one thread in which every
  request, signal and wait has a timeout. Nothing is assumed of the host, its port, the
  memory sampler's thread or the machine: `LaneEnds` and the end of rows hold for a host
  that never comes up, never answers or never dies.
* All others: none; what they promise is safety.

### Findings

1. **Two schedules** (`flow_euler_two_schedules`). An interrupted run can be resumed with
   another sigma tuple of the same length: neither specification nor snapshot names the
   schedule. The result then names the last schedule only, although its earlier
   transitions followed another, so it is not what an uninterrupted run gives. What does
   hold, and `controllers` checks it, is that the recorded history tells the truth: it
   performs each transition of the request once and in order (`KeepsPromise`).
2. **Leaked hook** (`dispatch_observer_leak`). A trace write that fails inside `install`
   leaves the registry hooked and no active observer, so `disarm` returns at once and no
   later prompt of the process can be observed. The rows notice: the next install is
   refused, and the harness then ends the host.
3. **Waiting for a dead host** (`host_lane_exit`). `_wait_for_history` does not look at the
   process, unlike `_readiness`, so a host that exits while it runs a prompt is noticed
   at the execution deadline only, against `tests/E2E_TESTING_SOP.md`, lines 240-241.

4. **Unbound outputs** (`schedule_graph_unbound`). `ModelAwareSigmaScheduler` and
   `AdvancedFlowMatchScheduler` return the float32 tensor beside an info that names the
   float64 values it was made from, while every other scheduler of the pack rebinds it.
   The inspector, which knows the schemas of both and is tested with both (but with
   float64 tuples in place of a tensor), refuses the pair unless all values happen to be
   float32 values already. The advanced node also hands out schedules that rounding made
   collapse.
5. **Two checkouts** (`install_two_checkouts`). A load that fails takes only the package
   out of `sys.modules`; its submodules stay, and a second checkout's mappings are then
   made of the first one's classes, which the check for "a different package" does not
   see.

Met while modelling, modelled as the code does it, and listed among the hazards without a
run of their own: the controllers accept 10,001 sigmas but fingerprint a schedule as a
list of a canonical projection, which holds 1,024, so that a longer schedule is carried
out, every evaluation of it, and then the call raises (`core/fingerprints.py`, line 191,
says that "scheduler inputs permit 10,000 transitions" and gives another fingerprint a
larger limit for it; what *is* returned can be written and settled, `ResultsAreEvidence`);
re-attaching the same workflow metadata raises when its nodes were not sorted; an open
range that begins above step zero cannot become an artifact; a stochastic request for
features nobody supports is allowed as compatible; a host that returned an error has its
log removed before cleanup reports a failure.

## 4. The proofs

**SamplerStateProofs**, for all holders, specifications, fingerprints, receipts and
limits: `TypeOK`, `BudgetKept`, `HistoryIsOneRun`, `ReceiptTellsTheTruth`,
`WireIsReadable`, `OnlyOversizedStranded`, `BindingIsFinal` and `CompletionIsFinal`.
The invariants do not hold one by one - a receipt's counts stay right only because
budgets and histories do, and reading back rechecks less than writing assumed - so they
are proved together. Since snapshots are immutable values, the inductive invariant is
a predicate on *values*, `SnapshotInv` (in range, within budget, one run, true
receipt), and says of the state only that every holder and the transport carry such a
value. One lemma per method shows that it turns a good snapshot into a good one
(`InitialIsGood`, `AppendIsGood`, `RelabelIsGood` for interrupt, resume and complete,
`AttachIsGood`), `PutIsGood` that storing one keeps the invariant. The sum of the
evaluations is a fold over the history; what these proofs need of it is only that the
guard bounds the sum of the appended history, which the code computes, and that the
empty sum is zero. The two action properties follow from the guards under the
invariant. `WireIsReadable` rests on the same invariant: writer and reader share the lifecycle check
and the limit of a list, but numbering, continuity and budgets are looked at by the reader
only. `OnlyOversizedStranded` says which snapshots can be settled, in both directions: the
request decides it, whatever became of the run. Where an artifact can hold the requested
transitions, the proof constructs the receipt from the snapshot's own counts, for which
the sum has to be a natural number (`EvaluationsAreCounted`, by induction over the
history); where none can, there is no receipt, since one is only built from an artifact
(`SettleableIsBuildable`). So a run of 1,024 transitions or more is never settled, not even
as interrupted, although the snapshot's own limit of 10,000 lets it run.

The same module proves **Evidence**, for all results, outcomes, requests and any number of
edits: `AcceptedEvidenceAgrees` with `BoundRunIsWholeSchedule`, and `MetadataStands`.
Nothing is known of a paper that others edit, so the invariant is about what was read:
the reader of its kind accepted it (`ReadInv`). One lemma per reader says what its checks
are worth (`ArtifactFact`, `BundleFact`, `ReportFact`, `ComparisonFact`, `BackendFact`,
`AdvancedFact`). A run is bound only to receipts that were built, which ask for every
transition of their artifact (`ReceiptFact`, `SettledInv`). The proof has set one claim
right that held only for a single edit: that a resumable receipt never rests on a
decision that warns of interruption. The decision's own rule is checked when it is read,
but the request is not resolved again, so two edits can put a warning under a receipt that
says it can be resumed; the property no longer says otherwise.

**HostLaneProofs**, for every lane, every deadline and every set of summaries: `TypeOK`,
`FirstAttemptDecides`, `SuccessIsComplete`, `ArtifactsSurviveFailure`. The properties
speak of the host's prompts and of the end; what carries them is where the driver is.
The inductive invariant says that the recorded cases are exactly those before the
current one and ended alike (`RecordInv`), that nothing after the current attempt has
been submitted (`PendingInv`), that a repeat's kept summary is the one of a good first
attempt (`FirstInv`), and what each stage of the finally block has established
(`EndingInv`). `QuietStep` disposes of the steps that touch none of the bookkeeping,
`HostStep` shows that a host can only change what is still queued, `AttemptStep` is the
judgement of an attempt, and `NextStep` puts the actions together.

**ScheduleGraphProofs**, for every rounding that satisfies `RoundingAssumption`, all
recipes, widgets and bounds: `TypeOK`, `BoundPairsVerify`, `AcceptedMeansMadeTogether`,
`SplitsRejoin`, `InfoTellsTheTruth` and `OfficialIsPublished`. Outputs never change, so each of these is settled by the step that
delivers an output, and the inductive invariant `IInv` says of every output that it is
well-formed and `Delivered`: its values are the rounding of some values, which its info
names either before or after rounding, and a node that binds has validated them. The
interesting one is `AcceptedMeansMadeTogether`: an accepted info names values that are
host values, and since rounding is idempotent the output it came with holds those same
values, whether or not its node bound it. `SliceFacts` and `BoundsFacts` carry slicing,
`SplitThenJoin` is the algebra of a split. For the last two properties a second
invariant, `TInv`, remembers how an output came about: that its info is `Truthful` about
its own values, that the tensors it names as sources are in the graph (which only
grows), and that a Krea 2 info belongs to a schedule built with some admissible widgets.
`SliceIsTold`, `JoinIsTold` and `ResampleIsTold` follow the algebra through the rounding:
the values an algebra node takes are host values already, so of slices and joins nothing
is lost, and a resampled schedule keeps its ends. `RebuildsTheSame` is what publication
rests on: the recipe in an info is all that is needed to make the same values and the
same info again.

**ControllerProofs**, for all schedules, specifications, limits and faults: `TypeOK`,
`StepsAreAccepted`, `ResultsAreEvidence` and `KeepsPromise` of the deterministic controller, `TypeOK` and
`NoiseIsOneStream` of the stochastic one. `ControllerInv` ties everything the caller
keeps to the results: every snapshot was in a result or is one that has been settled
since (`SnapshotsInv`), every result tells of transitions of its own schedule
(`ResultsInv`), and the loop is where its snapshot is (`CallInv`). That a step is never
refused needs the sums: the evaluations of a history are as many as its transitions
(`EvaluationsFact`). The same sum shows that what is returned can be settled
(`FinishedIsEvident`): a schedule that was fingerprinted fits an artifact too, and its
history is no longer. `KeepsPromise` maps a history to the transitions it records
(`TakenFact`, `TakenAppend`); each step of the loop is a stutter and `Finish` is the call
that happens at once (`FinishPerforms`). The noise invariant says that the draws behind
a call are those between the generator's position when it began and now
(`StreamFact`, `MixtureFact`), so that later failures and reseedings change nothing in a
result that is out (`ResultsApart`).

**H4Proofs**, for all observers, kinds, prompts and requests: `TypeOK`,
`AcceptedTraceIsComplete` and `NextPromptCanObserve` of the observer,
`RunDirOutlivesTrouble` and `RowTellsItsOwn` of the harness, and that both implement
`H4Row`. The observer's invariant relates what is hooked, what is active and what the
file holds (`SamplingInv`, `TraceInv`); the harness's follows a row (`RowInv`, `SeenInv`,
`SamplersInv`, `AnswersInv`) to its result (`ToldStep`) and the run to its end (`EndInv`).
Files in a directory are a bag; `SetToBagFact`, `FileBagsFact` and `NewFilesFact` are
what is needed of bags. Both refinements are of safety: that every row ends stays with
TLC.

**InstallProofs**, for all checkouts, packs, declarations and batches:
`ExistingIsComplete`, `AcceptedChainKeepsHost`, `RegistrationsStand`, `ViewsAgree`,
`PassedWorkflowsLoadAsSaved`. A package that is found was loaded to its end because a load that fails takes it out
(`LoadingInv`). The judgement of neighbours is transitive along accepted chains
(`AllowedIsTransitive`), and a capability rests on the best node, so more nodes can only
raise it (`BestIsMonotone`, `CapabilitiesAreMonotone`). A batch is a fold whose
induction (`RegisteredManyFact`) says that it is the union of what was there with the
batch, or nothing. The two views agree because normalizing what the V1 and the V2 view
show of a definition gives the definition again (`V1RoundTrip`, `V2RoundTrip`).
`PassedWorkflowsLoadAsSaved` holds whatever the author makes of the node and however the
bundle is edited: a fixture's slots, values and meaning stay in step unless a value is
lost, which the validator counts (`FixtureInv`, `EditFact`), and a report that is not
withdrawn is about what is there (`ScanInv`). No issue then means that the widgets of the
node as it is now bear the names of the slots, in order, so that positions and names give
the same values (`CleanLoads`). The one fact about the node is that no name occurs twice
in its inputs, whose choice and concatenation keep that (`AmongFact`, `InputOrderFact`).

**ProfileProofs**, for all keys, schemas, sets of evidence, shifts, patches, claims and
answers: `InheritanceFromBuiltinIsTrue`, `NoDecisionAgainstEvidence`, `VerdictsAgree`,
`DelegatedUnderOneShift`, `DelegatedInfoIsTrue`, `VerdictsFollowNode`,
`EvidenceFollowsReference`, `BoundarySplitsDelivered`. Built-in entries stand, so a child that
was true of its parent when it was registered stays true (`RegistryInv`). A decision
confirms the one variant that the evidence of the highest rank names (`InspectFact`,
`DecisionFact`). Of a schedule of the host, the invariant remembers that the model's
three copies of the shift agreed when it was made (`AdmittedShift`), and the info is
followed through building, slicing, rounding and binding for both lanes
(`OwnIsSliced`, `NativeIsSliced`, `SlicedIsTrue`). `VerdictsFollowNode` is about the
lane, the host and the node together, under `CasesSpec`. Its invariant `AttemptInv` says
what became of the case, by the four ways a prompt can end (an endpoint schedule, a
refusal, an answer that cannot be used, a delivery), and that a verdict is
`CaseVerified` of that. Verified cases were therefore delivered by the contract
(`NativeAdmits`, `DeliveredFact`). That no case is lost is the longer half: every case
names something the node can build and the contract admits (`ServableBuilds`,
`ReadyAccepts`), a complete answer is used and its probe agrees (`CompleteIsUsable`,
`ProbeFact`), a rejection meets the refusal it was written for (`ReadyRejects`), and
binding leaves the endpoint schedule as it is, since it is float32 already
(`EndpointBinds`, from the bounds of the shift's divisions).
The two properties of the model profiles speak of what a single node delivered, for every
number of steps, sequence length, terminal and slice. It is enough that every schedule a
builder makes is `Sound`: whole, `Told` by each profile of its name, and `Parted` by the
boundary of its row. There is a lemma per builder (`AuraFlowSound` ... `WanSound`). It
rests on what `Built` makes of its arguments (`BuiltOfFact`), on what the schema declares
under that name (`AuraFlowDeclares` ... `WanDeclares`), and on no other schema declaring
the same name (`SingleNames`, `FamilyNames`, `NamedIn`). `BoundaryParts` is the
arithmetic of the Wan boundary: a schedule that falls to zero passes every bound at a
first step (`FirstBelow`), and `DeliverParts` carries that through slicing and rounding,
which keeps the order. The arithmetic of the shifts plays no part in these two: a node
validates its values and delivers nothing else.

It plays its part in `DeclaredStepsAreServed`, the converse: whatever number of steps a
recipe of a built-in profile declares, some node delivers a whole schedule of that
profile with that many steps, under the evidence of the recipe when its source vouches
for them, and a strict request for those is not refused. A profile whose declared steps
its own builder would reject, or hand out as modified, is what `profiles/` could get
wrong without a test: declaration and builder hold the numbers apart (Wan and the native Qwen
profile excepted, where they share a table), and a validation
that is too strict for the values of a builder refuses them only at some step counts.
There is a lemma per family (`AuraFlowServes` ... `WanServes`). A grid whose values are
`k` units apart (`Spaced`) stays apart after a shift, by how far the ratio is from one
(`RatioFalls`, `RatioSpaced`) and after a stretch (`StretchSpaced`); the grids are apart
by `ReciprocalSpaced`, `SimpleSpaced` and `LinearSpaced`, the fixed vectors of LTX by
`StageFalls`; values apart are a schedule (`SpacedIsValid`). Three hypotheses bound what
is said. `FineFor(n)` asks for 16 units to a step: the model rounds down to a whole unit,
the code computes in floats, which have 2^53 of them for at most 10,000 steps, and how
the floats round is not modelled. `Tokens` are the sequence lengths between the anchors
of LTX (1024 to 4096), where the line of every dynamic profile gives a mu between 0.50
and 2.05; nothing in the code clamps it outside. `StrictlyFor` says what strict asks:
the steps of the source, and for Krea 2 raw its official recipe, because the node takes
strict to mean that one and refuses the 28 steps of the framework. The terminal is the
default one of LTX. Builders are what the theorem is about; that the host then runs the
node is not claimed.

**InductionFacts**. The library's induction theorems take an operator, which the
provers at hand cannot instantiate; `SetInduction` states induction over sets (a set
that has zero and every successor has every number) and follows from the order of the
naturals being well founded. Loops and sums are followed with it: the set is that of
the indices up to which the fold does what it should.

Assumptions, all of them named and evaluated in the runs: limits are natural numbers;
specifications are in range and request no more transitions than evaluations (their
constructor's checks); a step reports at least one evaluation; a lane has at least one
case of a known kind; `Wrong` and `Nothing` are no summaries; rounding is idempotent, keeps
the order and both ends; a tensor of the host holds host values (`RecipeAssumption`).
Bounds and counters of the controllers are natural numbers, schedules are sequences of
numbers, and a snapshot has room for the longest schedule (`MaxSigmasAssumption`: 10,001
sigmas in `core/flow_euler.py`, 10,000 transitions in `core/sampler_state.py`). There is
a receipt identity (`ReceiptIdsAssumption`), the receipts are all that can be built for
the specifications, from artifacts within the limit (`ReceiptsAssumption`), and the
stochastic runs have at least one transition (`LengthsAssumption`); the original functions and "none" are no
observers (`ObserverAssumption`), and a request's rows are rows that exist
(`RequestsAssumption`). Nobody is a checkout (`LoadingAssumption`); the host's first
nodes and schedulers are in the form snapshots have (`BaselineAssumption`) and readable
(`ContentsAssumption`); declarations are of the declared kinds with payloads of the two
forms, none of which is `Malformed` (`DeclarationsAssumption`); no two inputs of a node have one
name (`SchemaAssumption`: they are the keys of one mapping). Selectors are recipes or
none (`SelectorsAssumption`), the host's answers are numbers of one of two types
(`DelegationAssumption`), and the two marks for "nothing claimed" are no artifact and no
hash (`ClaimsAssumption`). The answers the host gives to the lane's cases are answers,
float32 tensors among them hold float32 values, and the endpoint schedule of eight steps
has the four transitions the lane asks for (`CasesAssumption`).

**Checked by TLC only** are the liveness properties (`LaneEnds`, the end of
rows in `RowsRunAsPromised`): liveness under fairness is out of the prover's reach.
Every safety property a passing run checks is a theorem.

## 5. What is not modelled

Floating-point arithmetic and tensors (shifts, conditioning, interpolation) beyond the
rounding of `ScheduleOps`: TLC has integers only, and the repository pins these numbers by
golden vectors. JSON walking, hashing, file formats and formatting; the header of a
weights file. The prompts and verifications of the model families other than MiniMax H3 in the
end-to-end harness, abstracted to outcomes. The interior of ComfyUI, of which only what
the code relies on is modelled (one node at a time, prompts queued, run and reported).
The generic profile and the Wan qualification tables, which repeat the
pattern of the others without boundaries of their own. Matrices, generators, release scripts
and the frontend, which run once and keep no state.

## 6. The plan

The modules of the plan are written, and every safety property their runs check is proved
for all constants. What may come next:

1. `DeclaredStepsAreServed` for sequence lengths outside 1024 to 4096 and for other
   terminals of LTX, with the lengths and terminals for which a builder does refuse.
2. The parts listed in section 5 whose code is control rather than data: the gates that
   accept a release, once they keep state between their steps.

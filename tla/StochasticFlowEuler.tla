------------------------- MODULE StochasticFlowEuler -------------------------
(***************************************************************************)
(* execute_stochastic_flow_euler of comfyui_sigmax/core/flow_euler.py with *)
(* the generator-backed noise provider of adapters/comfyui_flow_euler.py.  *)
(* A run always covers the whole schedule in one call.  Its noise comes    *)
(* from a generator the caller owns, seeds and passes to one run after     *)
(* another; a run that fails keeps nothing but leaves the generator where  *)
(* its draws took it.                                                      *)
(*                                                                         *)
(* A draw is named by the seed and its position in the generator's stream. *)
(* A numerical state is the sequence of what the transitions since the run *)
(* began mixed into it: everything else is a function of the schedule. The *)
(* schedule ends in zero, where interpolation gives the draw no weight, so *)
(* the last transition mixes in nothing, the noise it drew included.       *)
(***************************************************************************)
EXTENDS SamplerSnapshot

CONSTANTS
    Seeds,          \* the seeds callers use
    Lengths,        \* Len(sigmas) - 1 of the schedules in use
    MaxFaults,      \* bound on calls that fail or are going to
    MaxResults,     \* bound on the results of a behaviour
    MaxReseeds,     \* bound on the times the generator is seeded anew
    NoNoise,        \* what the last transition mixes in
    NoCall

VARIABLES
    generator,  \* its seed, how often it was seeded, draws taken since
    call,       \* the run in progress
    results,    \* the results returned, in order
    faults

vars == <<generator, call, results, faults>>

(* What _validate_stochastic_spec wants of a schedule of n transitions.    *)
SpecFor(n) ==
    [sampler |-> "sigmax.flow_euler_stochastic", rng |-> "caller",
     scheduler_index |-> 0,
     requested_transitions |-> n,
     requested_model_evaluations |-> n]

(* The transitions the loop of a run or a result goes through.             *)
Transitions(c) == c.snapshot.spec.requested_transitions

Init ==
    /\ generator \in [seed : Seeds, epoch : {0}, drawn : {0}]
    /\ call = NoCall
    /\ results = << >>
    /\ faults = 0

(***************************************************************************)
(* _schedule_fingerprint: a schedule, one sigma longer than the loop, is a *)
(* list of a canonical projection.                                         *)
(***************************************************************************)
HasFingerprint(n) == n + 1 <= MaxCollection

(***************************************************************************)
(* The run starts from the caller's state, always the same here, with a    *)
(* fresh snapshot.  at is the phase of the loop body, mixed is the state.  *)
(***************************************************************************)
Start(n) ==
    /\ call = NoCall
    /\ Len(results) < MaxResults                                 \* bound
    /\ call' = [at |-> "model", snapshot |-> Initial(SpecFor(n)), mixed |-> << >>,
                noise |-> << >>, drawn |-> << >>, from |-> generator]
    /\ faults' = IF HasFingerprint(n) THEN faults ELSE faults + 1
    /\ faults' <= MaxFaults                                      \* bound
    /\ UNCHANGED <<generator, results>>

(***************************************************************************)
(* The model gives a velocity, from which the denoised x0 follows.         *)
(***************************************************************************)
Model ==
    /\ call # NoCall
    /\ call.at = "model"
    /\ Len(call.snapshot.history) < Transitions(call)
    /\ call' = [call EXCEPT !.at = "noise"]
    /\ UNCHANGED <<generator, results, faults>>

(***************************************************************************)
(* The provider draws from the generator; the draw stays taken whatever    *)
(* happens to the call afterwards.                                         *)
(***************************************************************************)
NothingDrawn == generator' = generator      \* mutant: the generator is copied

Drawn == generator' = [generator EXCEPT !.drawn = @ + 1]

Draw ==
    /\ call # NoCall
    /\ call.at = "noise"
    /\ call' = [call EXCEPT !.at = "mix", !.drawn = <<generator.seed, generator.drawn>>]
    /\ Drawn
    /\ UNCHANGED <<results, faults>>

(***************************************************************************)
(* x0 and noise are interpolated and the transition is recorded.           *)
(***************************************************************************)
StepOf(c, next) ==
    [step_index |-> Len(c.snapshot.history),
     scheduler_index |-> Len(c.snapshot.history),
     model_evaluations |-> 1,
     input |-> c.mixed,
     output |-> next]

MixedIn(c) ==
    IF Len(c.snapshot.history) = Transitions(c) - 1 THEN NoNoise ELSE c.drawn

NoiseSeeds(c) == Append(c.noise, c.drawn[1])        \* mutant: position lost

NoiseRecorded(c) == Append(c.noise, c.drawn)

Mix ==
    /\ call # NoCall
    /\ call.at = "mix"
    /\ LET next == Append(call.mixed, MixedIn(call))
           step == StepOf(call, next)
       IN  /\ CanAppend(call.snapshot, call.snapshot.spec, step)
           /\ call' = [call EXCEPT !.at = "model",
                                   !.snapshot = Appended(@, step),
                                   !.mixed = next,
                                   !.noise = NoiseRecorded(call)]
    /\ UNCHANGED <<generator, results, faults>>

(***************************************************************************)
(* A callback raises, returns something invalid, or wrote into a state it  *)
(* was shown and is found out by the fingerprint: the call is over.        *)
(***************************************************************************)
Fails ==
    /\ call # NoCall
    /\ Len(call.snapshot.history) < Transitions(call)
    /\ faults < MaxFaults
    /\ call' = NoCall
    /\ faults' = faults + 1
    /\ UNCHANGED <<generator, results>>

(***************************************************************************)
(* The constructor of the result accepts a completed snapshot with one     *)
(* noise fingerprint per transition and the state its history ends in.     *)
(***************************************************************************)
ResultAccepted(c) ==
    /\ c.snapshot.history # << >>
    /\ c.snapshot.history[Len(c.snapshot.history)].output = c.mixed
    /\ Len(c.noise) = Len(c.snapshot.history)
    /\ Len(c.noise) = Transitions(c)

(***************************************************************************)
(* The schedule is fingerprinted at the very end: if it is too long, the   *)
(* run raises after every evaluation and every draw.                       *)
(***************************************************************************)
Ended ==
    /\ call # NoCall
    /\ Len(call.snapshot.history) = Transitions(call)
    /\ CanComplete(call.snapshot, call.snapshot.spec)

FingerprintFails ==
    /\ Ended
    /\ ~HasFingerprint(Transitions(call))
    /\ call' = NoCall
    /\ UNCHANGED <<generator, results, faults>>

Finish ==
    /\ Ended
    /\ HasFingerprint(Transitions(call))
    /\ ResultAccepted(call)
    /\ results' = Append(results,
            [state |-> call.mixed, snapshot |-> Completed(call.snapshot),
             noise |-> call.noise, from |-> call.from])
    /\ call' = NoCall
    /\ UNCHANGED <<generator, faults>>

(***************************************************************************)
(* The caller seeds its generator anew between runs.                       *)
(***************************************************************************)
Reseed(seed) ==
    /\ call = NoCall
    /\ generator.epoch < MaxReseeds                              \* bound
    /\ generator' = [seed |-> seed, epoch |-> generator.epoch + 1, drawn |-> 0]
    /\ UNCHANGED <<call, results, faults>>

Next ==
    \/ \E n \in Lengths : Start(n)
    \/ Model
    \/ Draw
    \/ Mix
    \/ Fails
    \/ Finish
    \/ FingerprintFails
    \/ \E seed \in Seeds : Reseed(seed)

Spec == Init /\ [][Next]_vars

-----------------------------------------------------------------------------
Draws == Seeds \X Nat

(***************************************************************************)
(* The run in progress and the results are well formed.                    *)
(***************************************************************************)
TypeOK ==
    /\ generator \in [seed : Seeds, epoch : 0 .. MaxReseeds, drawn : Nat]
    /\ faults \in 0 .. MaxFaults
    /\ call # NoCall =>
        /\ call.at \in {"model", "noise", "mix"}
        /\ call.mixed \in Seq(Draws \cup {NoNoise})
        /\ call.noise \in Seq(Draws)
        /\ call.from \in [seed : Seeds, epoch : 0 .. MaxReseeds, drawn : Nat]
    /\ \A i \in 1 .. Len(results) : results[i].snapshot.status = "completed"

(***************************************************************************)
(* Noise is one stream: a result names consecutive draws of one generator, *)
(* starting where the generator stood when the run was called, and its     *)
(* state was mixed from exactly those draws in that order, the last one    *)
(* left out; and until the caller seeds again no draw is used twice, of    *)
(* two results the later one starts past the draws of the earlier one,     *)
(* whatever attempts failed in between, after all their draws included.    *)
(***************************************************************************)
NoiseIsOneStream ==
    /\ \A i \in 1 .. Len(results) :
        LET r == results[i]
        IN  /\ r.noise = [k \in 1 .. Transitions(r) |->
                            <<r.from.seed, r.from.drawn + k - 1>>]
            /\ r.state = [r.noise EXCEPT ![Transitions(r)] = NoNoise]
    /\ \A i, j \in 1 .. Len(results) :
        LET a == results[i].from
            b == results[j].from
        IN  i # j /\ a.epoch = b.epoch /\ b.drawn >= a.drawn =>
                b.drawn >= a.drawn + Transitions(results[i])
=============================================================================

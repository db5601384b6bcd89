------------------------------ MODULE FlowEuler ------------------------------
(***************************************************************************)
(* execute_deterministic_flow_euler of comfyui_sigmax/core/flow_euler.py   *)
(* and the caller around it.  The caller keeps numerical states (mutable   *)
(* tensors) and snapshots (immutable), and calls the controller with any   *)
(* pair of them, any schedule and any transition limit.  The controller    *)
(* calls the model once per transition; the model may fail, or write into  *)
(* the tensor it was given.                                                *)
(*                                                                         *)
(* A numerical state is the sequence of what was applied to it: the        *)
(* (sigma, next_sigma) pairs of Euler transitions and Overwritten for a    *)
(* write from outside.  Two states are equal when and only when their      *)
(* fingerprints are, and the model is a function of state and pair.        *)
(***************************************************************************)
EXTENDS SamplerSnapshot

CONSTANTS
    Specs,          \* the execution specifications in use
    Schedules,      \* the sigma tuples callers pass, valid or not
    Limits,         \* the transition limits callers pass, NoLimit for None
    NoLimit,
    MaxSigmas,      \* _MAX_SIGMAS
    MaxFaults,      \* bound: model failures and outside writes in a behaviour
    MaxResults,     \* bound: no call is made once so many results are out
    Overwritten,    \* the mark an outside write leaves in a state
    NoSnapshot, NoCall

ASSUME LimitsAssumption == Limits \subseteq (Nat \ {0}) \cup {NoLimit}
ASSUME SchedulesAssumption == Schedules \subseteq Seq(Nat)
ASSUME SpecsAssumption ==
    \A spec \in Specs :
        /\ spec.scheduler_index \in Nat
        /\ spec.requested_transitions \in Nat
        /\ spec.requested_model_evaluations \in Nat

(* A snapshot has room for the transitions of the longest schedule:        *)
(* _MAX_SIGMAS is 10001, _MAX_HISTORY of the snapshot is 10000.            *)
ASSUME MaxSigmasAssumption == MaxSigmas \in Nat /\ MaxSigmas <= MaxHistory + 1

ASSUME MaxFaultsAssumption == MaxFaults \in Nat

VARIABLES
    latents,    \* the numerical states the caller owns
    snapshots,  \* the snapshots the caller keeps
    results,    \* the results returned so far
    call,       \* the call in progress
    faults      \* counts failures and outside writes

vars == <<latents, snapshots, results, call, faults>>

-----------------------------------------------------------------------------
(***************************************************************************)
(* _validate_sigmas: bounded, strictly descending, ending in zero.         *)
(***************************************************************************)
ValidSigmas(sigmas) ==
    /\ 2 <= Len(sigmas) /\ Len(sigmas) <= MaxSigmas
    /\ \A i \in 1 .. Len(sigmas) - 1 : sigmas[i] > sigmas[i + 1]
    /\ sigmas[Len(sigmas)] = 0

(***************************************************************************)
(* _validate_spec: the specification asks for exactly the transitions left *)
(* in the schedule from its begin index.  The capability checks accept     *)
(* every specification in Specs.                                           *)
(***************************************************************************)
ValidSpec(spec, sigmas) ==
    /\ spec.scheduler_index < Len(sigmas) - 1
    /\ spec.requested_transitions = Len(sigmas) - 1 - spec.scheduler_index
    /\ spec.requested_model_evaluations = spec.requested_transitions

(***************************************************************************)
(* The snapshot a call starts from, for the snapshot it was given: a fresh *)
(* one, or an interrupted one resumed with the state it stopped at.        *)
(***************************************************************************)
Executable(given, spec, state) ==
    /\ MatchesSpec(given, spec)
    /\ ReceiptUnbound(given)
    /\ \/ /\ given.status = "interrupted"
          /\ given.history # << >>
          /\ given.history[Len(given.history)].output = state
          /\ CanResume(given, spec)
       \/ given.status = "ready" /\ given.history = << >>

EnteredAsGiven(given) == given      \* mutant: resume() is not called

Entered(given) == IF given.status = "interrupted" THEN Resumed(given) ELSE given

Remaining(spec, snapshot) == spec.requested_transitions - Len(snapshot.history)

Invocations(remaining, limit) ==
    IF limit = NoLimit \/ limit > remaining THEN remaining ELSE limit

(***************************************************************************)
(* The pair of sigmas of the next transition and the step it records.      *)
(***************************************************************************)
SigmaPair(c) ==
    LET at == c.spec.scheduler_index + Len(c.snapshot.history)
    IN  <<c.sigmas[at + 1], c.sigmas[at + 2]>>

Velocity(state, pair) == Append(state, pair)

StepOf(c, output) ==
    [step_index |-> Len(c.snapshot.history),
     scheduler_index |-> c.spec.scheduler_index + Len(c.snapshot.history),
     sigmas |-> SigmaPair(c),
     model_evaluations |-> 1,
     input |-> c.state,
     output |-> output]

-----------------------------------------------------------------------------
Init ==
    /\ latents = {<< >>}
    /\ snapshots = {}
    /\ results = {}
    /\ call = NoCall
    /\ faults = 0

(***************************************************************************)
(* Everything up to the loop.  owned says that the state the loop works on *)
(* is still the caller's own tensor.                                       *)
(***************************************************************************)
Start(spec, sigmas, state, given, limit) ==
    LET base == IF given = NoSnapshot THEN Initial(spec) ELSE given
    IN  /\ call = NoCall
        /\ ValidSigmas(sigmas)
        /\ ValidSpec(spec, sigmas)
        /\ Executable(base, spec, state)
        /\ Remaining(spec, base) > 0
        /\ call' = [spec |-> spec, sigmas |-> sigmas, snapshot |-> Entered(base),
                    state |-> state, owned |-> TRUE,
                    left |-> Invocations(Remaining(spec, base), limit)]
        /\ UNCHANGED <<latents, snapshots, results, faults>>

(***************************************************************************)
(* One turn of the loop in which the model returns a velocity and leaves   *)
(* its input alone.                                                        *)
(***************************************************************************)
Transition ==
    /\ call # NoCall
    /\ call.left > 0
    /\ LET next == Velocity(call.state, SigmaPair(call))
           step == StepOf(call, next)
       IN  /\ CanAppend(call.snapshot, call.spec, step)
           /\ call' = [call EXCEPT !.snapshot = Appended(@, step),
                                   !.state = next,
                                   !.owned = FALSE,
                                   !.left = @ - 1]
    /\ UNCHANGED <<latents, snapshots, results, faults>>

(***************************************************************************)
(* The model raises, or returns a velocity that leads to an invalid state: *)
(* the call is over, and its steps are gone with it.                       *)
(***************************************************************************)
ModelFails ==
    /\ call # NoCall
    /\ call.left > 0
    /\ faults < MaxFaults
    /\ call' = NoCall
    /\ faults' = faults + 1
    /\ UNCHANGED <<latents, snapshots, results>>

(***************************************************************************)
(* The model writes into its input.  The fingerprint taken before gives it *)
(* away and the call raises, but if the input was the caller's tensor, the *)
(* caller is left with what was written.                                   *)
(***************************************************************************)
OverwrittenState(state) == Append(state, Overwritten)

WriteInto(state) == latents' = (latents \ {state}) \cup {OverwrittenState(state)}

ModelWriteGoesOn ==     \* mutant: the input is not fingerprinted again
    /\ call # NoCall
    /\ call.left > 0
    /\ faults < MaxFaults
    /\ LET next == Velocity(OverwrittenState(call.state), SigmaPair(call))
           step == StepOf(call, next)
       IN  call' = [call EXCEPT !.snapshot = Appended(@, step), !.state = next,
                                !.owned = FALSE, !.left = @ - 1]
    /\ faults' = faults + 1
    /\ UNCHANGED <<latents, snapshots, results>>

ModelWrites ==
    /\ call # NoCall
    /\ call.left > 0
    /\ faults < MaxFaults
    /\ IF call.owned THEN WriteInto(call.state) ELSE UNCHANGED latents
    /\ call' = NoCall
    /\ faults' = faults + 1
    /\ UNCHANGED <<snapshots, results>>

(***************************************************************************)
(* After the loop: complete or interrupt, fingerprint the schedule, and    *)
(* hand the result out.  _schedule_fingerprint is one list of a canonical  *)
(* projection, which is shorter than the schedules _validate_sigmas lets   *)
(* pass: with a longer one the call raises after all its evaluations.      *)
(***************************************************************************)
Finished(c) ==
    IF Len(c.snapshot.history) = c.spec.requested_transitions
      THEN Completed(c.snapshot)
      ELSE Interrupted(c.snapshot)

AnyFingerprint(sigmas) == Len(sigmas) <= MaxSigmas  \* mutant: a limit of its own

HasFingerprint(sigmas) == CanonicalList(sigmas)

Finish ==
    /\ call # NoCall
    /\ call.left = 0
    /\ HasFingerprint(call.sigmas)
    /\ latents' = latents \cup {call.state}
    /\ snapshots' = snapshots \cup {Finished(call)}
    /\ results' = results \cup
          {[state |-> call.state, sigmas |-> call.sigmas, snapshot |-> Finished(call)]}
    /\ call' = NoCall
    /\ UNCHANGED faults

FingerprintFails ==
    /\ call # NoCall
    /\ call.left = 0
    /\ ~HasFingerprint(call.sigmas)
    /\ call' = NoCall
    /\ UNCHANGED <<latents, snapshots, results, faults>>

(***************************************************************************)
(* Between calls the caller settles a snapshot with a receipt, and other   *)
(* nodes may write into a tensor the caller still holds.                   *)
(***************************************************************************)
ReceiptFor(s) ==
    [sampler |-> s.spec.sampler, rng |-> s.spec.rng,
     requested_transitions |-> s.spec.requested_transitions,
     requested_model_evaluations |-> s.spec.requested_model_evaluations,
     effective_transitions |-> EffectiveTransitions(s.history),
     effective_model_evaluations |-> EffectiveEvaluations(s.history),
     status |-> ExpectedReceiptStatus(s.status)]

Settle(s) ==
    /\ call = NoCall
    /\ BuildableReceipt(ReceiptFor(s))
    /\ CanAttach(s, s.spec, ReceiptFor(s))
    /\ snapshots' = (snapshots \ {s}) \cup {Attached(s, ReceiptFor(s))}
    /\ UNCHANGED <<latents, results, call, faults>>

OutsideWrite(state) ==
    /\ call = NoCall
    /\ faults < MaxFaults
    /\ WriteInto(state)
    /\ faults' = faults + 1
    /\ UNCHANGED <<snapshots, results, call>>

Next ==
    \/ /\ call = NoCall /\ Cardinality(results) < MaxResults    \* bound
       /\ \E spec \in Specs, sigmas \in Schedules, state \in latents,
             given \in snapshots \cup {NoSnapshot}, limit \in Limits :
               /\ given = NoSnapshot => Len(state) <= MaxFaults    \* bound
               /\ Start(spec, sigmas, state, given, limit)
    \/ Transition
    \/ ModelFails
    \/ ModelWrites
    \/ Finish
    \/ FingerprintFails
    \/ \E s \in snapshots : Settle(s)
    \/ \E state \in latents : OutsideWrite(state)

Spec == Init /\ [][Next]_vars

-----------------------------------------------------------------------------
States == Seq({Overwritten} \cup (Nat \X Nat))

(***************************************************************************)
(* Calls, results and what the caller keeps are well formed.               *)
(***************************************************************************)
TypeOK ==
    /\ latents \subseteq States
    /\ faults \in 0 .. MaxFaults
    /\ call # NoCall =>
        /\ call.spec \in Specs
        /\ call.sigmas \in Schedules
        /\ call.state \in States
        /\ call.left \in 0 .. MaxSigmas
        /\ call.snapshot.status \in {"ready", "running"}
    /\ \A s \in snapshots : s.spec \in Specs /\ s.status \in {"interrupted", "completed"}
    /\ \A r \in results : r.sigmas \in Schedules /\ r.state \in States

(***************************************************************************)
(* A call never gets stuck in its loop: as long as transitions are left,   *)
(* append_step accepts the step the controller built, so no progress is    *)
(* lost to the snapshot's own checks.                                      *)
(***************************************************************************)
StepsAreAccepted ==
    call # NoCall /\ call.left > 0 =>
        CanAppend(call.snapshot, call.spec,
                  StepOf(call, Velocity(call.state, SigmaPair(call))))

(***************************************************************************)
(* The loop, its snapshots, the failures inside of it, retries from old    *)
(* snapshots and outside writes between calls implement atomic calls that  *)
(* perform some of what is left of a run, each transition once and in      *)
(* order, or nothing (execute_deterministic_flow_euler).                   *)
(***************************************************************************)
RunOf(result) ==
    LET h == result.snapshot.history
    IN  [request |-> result.snapshot.spec, start |-> h[1].input,
         path |-> [i \in 1 .. Len(h) |-> h[i].sigmas],
         completed |-> result.snapshot.status = "completed"]

Promise == INSTANCE ResumableRun
             WITH Requests <- Specs, Sigmas <- Schedules, Spoiled <- Overwritten,
                  tensors <- latents, runs <- {RunOf(r) : r \in results}

KeepsPromise == Promise!Spec

(***************************************************************************)
(* What a call returns can be kept and proved: its snapshot can be written *)
(* and fingerprinted, and a receipt can be built that it accepts.  Neither *)
(* is true of every run the controller carries out: the runs that are too  *)
(* long for either are those that return nothing.                          *)
(***************************************************************************)
ResultsAreEvidence ==
    \A r \in results :
        LET s == r.snapshot
        IN  /\ CanSerialize(s, s.spec)
            /\ BuildableReceipt(ReceiptFor(s))
            /\ CanAttach(s, s.spec, ReceiptFor(s))

Slice(sigmas, first, n) ==
    [i \in 1 .. n |-> <<sigmas[first + i], sigmas[first + i + 1]>>]

(***************************************************************************)
(* Every result is what one uninterrupted call on the same start and the   *)
(* result's own schedule would have computed                               *)
(* (test_interrupt_then_resume_matches_uninterrupted_result).              *)
(***************************************************************************)
MatchesUninterrupted ==
    \A r \in results :
        LET h == r.snapshot.history
        IN  r.state = h[1].input \o
                Slice(r.sigmas, r.snapshot.spec.scheduler_index, Len(h))
=============================================================================

---------------------------- MODULE MCControllers ----------------------------
(* One instance for the deterministic and the stochastic controller.  They  *)
(* share no state: part says which of them this behavior is about.          *)
EXTENDS MCFlowEuler

CONSTANTS Seeds, Lengths, MaxReseeds, NoNoise

ASSUME LengthsAssumption == Lengths \subseteq Nat \ {0}
ASSUME MaxReseedsAssumption == MaxReseeds \in Nat

VARIABLES part, generator, running, runs, failures

Stochastic == INSTANCE StochasticFlowEuler
                WITH call <- running, results <- runs, faults <- failures,
                     MaxFaults <- 2

stochastic == <<generator, running, runs, failures>>
MCvars == <<vars, stochastic, part>>

MCInit ==
    /\ part \in {"deterministic", "stochastic"}
    /\ Init
    /\ Stochastic!Init
    /\ part = "deterministic" => generator.seed = CHOOSE seed \in Seeds : TRUE

DeterministicStep(A) == part = "deterministic" /\ A /\ UNCHANGED <<stochastic, part>>
StochasticStep(A) == part = "stochastic" /\ A /\ UNCHANGED <<vars, part>>

MCNext == DeterministicStep(Next) \/ StochasticStep(Stochastic!Next)

MCSpec == MCInit /\ [][MCNext]_MCvars

(* The noise of a result is that of consecutive draws, and no draw serves   *)
(* two results of one seeding (execute_stochastic_flow_euler).              *)
NoiseIsOneStream == Stochastic!NoiseIsOneStream
=============================================================================

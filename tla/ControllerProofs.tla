--------------------------- MODULE ControllerProofs ---------------------------
(***************************************************************************)
(* The two Flow Euler controllers for all values of their constants: the   *)
(* noise of the stochastic one, and for the deterministic one that its     *)
(* steps are accepted, that what it returns can be kept and proved, and    *)
(* that it keeps the promise of atomic calls.                              *)
(***************************************************************************)
EXTENDS MCControllers, FiniteSetTheorems, SequenceTheorems, InductionFacts

-----------------------------------------------------------------------------
(***************************************************************************)
(* The stochastic controller.  While a run is in progress nobody else      *)
(* draws, so what the generator has given since the run was called is what *)
(* the run has recorded, plus the draw it has not mixed yet.               *)
(***************************************************************************)
Generators == [seed : Seeds, epoch : 0 .. MaxReseeds, drawn : Nat]

Stream(from, n) == [k \in 1 .. n |-> <<from.seed, from.drawn + k - 1>>]

Total(c) == Stochastic!Transitions(c)

(* What n transitions of a total have mixed: the last one left out.        *)
Mixture(from, n, total) ==
    [k \in 1 .. n |-> IF k = total THEN NoNoise
                                   ELSE <<from.seed, from.drawn + k - 1>>]

Mixtures == Seq(Stochastic!Draws \cup {NoNoise})

StochasticSteps ==
    [step_index : Nat, scheduler_index : Nat, model_evaluations : {1},
     input : Mixtures, output : Mixtures]

StochasticSnapshots(statuses) ==
    [spec : {Stochastic!SpecFor(n) : n \in Lengths}, history : Seq(StochasticSteps), status : statuses,
     receipt : {NoReceipt}]

StochasticCalls ==
    [at : {"model", "noise", "mix"}, snapshot : StochasticSnapshots({"ready", "running"}),
     mixed : Mixtures, noise : Seq(Stochastic!Draws),
     drawn : Stochastic!Draws \cup {<< >>}, from : Generators]

StochasticResults ==
    [state : Mixtures, snapshot : StochasticSnapshots({"completed"}),
     noise : Seq(Stochastic!Draws), from : Generators]

StochasticType ==
    /\ generator \in Generators
    /\ running # NoCall => running \in StochasticCalls
    /\ runs \in Seq(StochasticResults)
    /\ failures \in 0 .. 2

(* The run in progress and the generator tell the same number of draws.    *)
InStep(c, n) ==
    /\ n <= Total(c)
    /\ c.from.seed = generator.seed
    /\ c.from.epoch = generator.epoch
    /\ c.noise = Stream(c.from, n)
    /\ c.mixed = Mixture(c.from, n, Total(c))
    /\ c.at # "model" => n < Total(c)
    /\ c.at = "mix" => c.drawn = <<c.from.seed, c.from.drawn + n>>
    /\ generator.drawn = c.from.drawn + n + (IF c.at = "mix" THEN 1 ELSE 0)

CallInStep == running # NoCall => InStep(running, Len(running.snapshot.history))

(* Of one seeding, a result's draws lie before those of every later result *)
(* and of the run in progress, and none was drawn twice.                   *)
ResultsApart ==
    /\ \A i \in 1 .. Len(runs) :
        /\ runs[i].noise = Stream(runs[i].from, Total(runs[i]))
        /\ runs[i].state = Mixture(runs[i].from, Total(runs[i]), Total(runs[i]))
        /\ runs[i].from.epoch <= generator.epoch
        /\ runs[i].from.epoch = generator.epoch =>
              /\ runs[i].from.drawn + Total(runs[i]) <= generator.drawn
              /\ running # NoCall =>
                    runs[i].from.drawn + Total(runs[i]) <= running.from.drawn
    /\ \A i, j \in 1 .. Len(runs) :
          i < j /\ runs[i].from.epoch = runs[j].from.epoch =>
              runs[i].from.drawn + Total(runs[i]) <= runs[j].from.drawn

StochasticInv == StochasticType /\ CallInStep /\ ResultsApart

LEMMA AppendFact ==
    ASSUME NEW S, NEW s \in Seq(S), NEW e \in S
    PROVE  /\ Append(s, e) \in Seq(S)
           /\ Len(Append(s, e)) = Len(s) + 1
           /\ Append(s, e)[Len(s) + 1] = e
           /\ \A k \in 1 .. Len(s) : Append(s, e)[k] = s[k]
  OBVIOUS

LEMMA ElementFact ==
    ASSUME NEW S, NEW s \in Seq(S), NEW k \in 1 .. Len(s)
    PROVE  s[k] \in S
  OBVIOUS

LEMMA SameSequence ==
    ASSUME NEW S, NEW s \in Seq(S), NEW t \in Seq(S), Len(s) = Len(t),
           \A k \in 1 .. Len(s) : s[k] = t[k]
    PROVE  s = t
  OBVIOUS

(* A sequence is its beginning with its last element appended.             *)
LEMMA LastAppended ==
    ASSUME NEW S, NEW n \in Nat, NEW s \in Seq(S), NEW t \in Seq(S), NEW e \in S,
           Len(s) = n, Len(t) = n + 1, t[n + 1] = e, \A k \in 1 .. n : t[k] = s[k]
    PROVE  Append(s, e) = t
<1> DEFINE u == Append(s, e)
<1>1. /\ u \in Seq(S) /\ Len(u) = n + 1 /\ u[n + 1] = e
      /\ \A k \in 1 .. n : u[k] = s[k]
  BY AppendFact
<1>2. ASSUME NEW k \in 1 .. n + 1 PROVE u[k] = t[k]
  <2>1. k \in 1 .. n \/ k = n + 1
    OBVIOUS
  <2> HIDE DEF u
  <2> QED
    BY <1>1, <2>1
<1> HIDE DEF u
<1>3. u = t
  BY <1>1, <1>2, SameSequence
<1> QED
  BY <1>3 DEF u

(* One more draw on the stream, and in the mixture.                        *)
LEMMA StreamFact ==
    ASSUME NEW from \in Generators, NEW n \in Nat
    PROVE  /\ Stream(from, n) \in Seq(Stochastic!Draws)
           /\ Len(Stream(from, n)) = n
           /\ Append(Stream(from, n), <<from.seed, from.drawn + n>>) = Stream(from, n + 1)
<1>1. from.seed \in Seeds /\ from.drawn \in Nat
  BY DEF Generators
<1>2. \A m \in Nat : Stream(from, m) \in Seq(Stochastic!Draws) /\ Len(Stream(from, m)) = m
  BY <1>1 DEF Stream, Stochastic!Draws
<1>3. \A m \in Nat : \A k \in 1 .. m :
          Stream(from, m)[k] = <<from.seed, from.drawn + k - 1>>
  BY DEF Stream
<1> DEFINE e == <<from.seed, from.drawn + n>>
<1>4. n + 1 \in Nat /\ from.drawn + (n + 1) - 1 = from.drawn + n
  BY <1>1
<1>5. Stream(from, n + 1)[n + 1] = e
  <2>1. n + 1 \in 1 .. n + 1
    OBVIOUS
  <2> QED
    BY <1>3, <1>4, <2>1
<1>6. ASSUME NEW k \in 1 .. n PROVE Stream(from, n + 1)[k] = Stream(from, n)[k]
  <2>1. k \in 1 .. n + 1
    OBVIOUS
  <2> QED
    BY <1>3, <1>4, <2>1
<1>7. e \in Stochastic!Draws
  BY <1>1 DEF Stochastic!Draws
<1> HIDE DEF e
<1>8. Append(Stream(from, n), e) = Stream(from, n + 1)
  BY <1>2, <1>4, <1>5, <1>6, <1>7, LastAppended
<1> QED
  BY <1>2, <1>8 DEF e

LEMMA MixtureFact ==
    ASSUME NEW from \in Generators, NEW n \in Nat, NEW total \in Nat
    PROVE  /\ Mixture(from, n, total) \in Mixtures
           /\ Len(Mixture(from, n, total)) = n
           /\ Append(Mixture(from, n, total),
                     IF n = total - 1 THEN NoNoise
                                            ELSE <<from.seed, from.drawn + n>>)
                = Mixture(from, n + 1, total)
<1>1. from.seed \in Seeds /\ from.drawn \in Nat
  BY DEF Generators
<1> DEFINE e == IF n = total - 1 THEN NoNoise ELSE <<from.seed, from.drawn + n>>
<1>2. \A m \in Nat : \A k \in 1 .. m :
         Mixture(from, m, total)[k] = IF k = total THEN NoNoise
                               ELSE <<from.seed, from.drawn + k - 1>>
  BY DEF Mixture
<1>3. \A m \in Nat : Mixture(from, m, total) \in Mixtures /\ Len(Mixture(from, m, total)) = m
  BY <1>1 DEF Mixture, Mixtures, Stochastic!Draws
<1>4. e \in Stochastic!Draws \cup {NoNoise}
  BY <1>1 DEF Stochastic!Draws
<1>5. /\ n + 1 \in Nat /\ from.drawn + (n + 1) - 1 = from.drawn + n
      /\ n + 1 = total <=> n = total - 1
  BY <1>1
<1>6. Mixture(from, n + 1, total)[n + 1] = e
  <2>1. n + 1 \in 1 .. n + 1
    OBVIOUS
  <2> QED
    BY <1>2, <1>5, <2>1
<1>7. ASSUME NEW k \in 1 .. n PROVE Mixture(from, n + 1, total)[k] = Mixture(from, n, total)[k]
  <2>1. k \in 1 .. n + 1
    OBVIOUS
  <2> QED
    BY <1>2, <1>5, <2>1
<1> HIDE DEF e
<1>8. Append(Mixture(from, n, total), e) = Mixture(from, n + 1, total)
  BY <1>3, <1>4, <1>5, <1>6, <1>7, LastAppended DEF Mixtures
<1> QED
  BY <1>3, <1>8 DEF e

(* A run and a result go through a schedule of their own length.           *)
LEMMA TotalFact ==
    ASSUME NEW statuses, NEW c, c.snapshot \in StochasticSnapshots(statuses)
    PROVE  Total(c) \in Nat \ {0}
<1>1. PICK n \in Lengths : c.snapshot.spec = Stochastic!SpecFor(n)
  BY DEF StochasticSnapshots
<1> QED
  BY <1>1, LengthsAssumption DEF Total, Stochastic!Transitions, Stochastic!SpecFor

LEMMA StochasticInit == Stochastic!Init => StochasticInv
<1> SUFFICES ASSUME Stochastic!Init PROVE StochasticInv
  OBVIOUS
<1>1. StochasticType
  BY MaxReseedsAssumption DEF Stochastic!Init, StochasticType, Generators
<1>2. CallInStep
  BY DEF Stochastic!Init, CallInStep
<1>3. ResultsApart
  BY DEF Stochastic!Init, ResultsApart
<1> QED
  BY <1>1, <1>2, <1>3 DEF StochasticInv

LEMMA RelabelledFact ==
    ASSUME NEW s \in StochasticSnapshots({"ready", "running"}), NEW h, NEW status
    PROVE  [s EXCEPT !.history = h, !.status = status] =
              [spec |-> s.spec, history |-> h, status |-> status, receipt |-> s.receipt]
<1> DEFINE t == [s EXCEPT !.history = h, !.status = status]
<1>1. t \in [spec : {s.spec}, history : {h}, status : {status}, receipt : {s.receipt}]
  BY DEF StochasticSnapshots
<1> HIDE DEF t
<1>2. t = [spec |-> s.spec, history |-> h, status |-> status, receipt |-> s.receipt]
  BY <1>1
<1> QED
  BY <1>2 DEF t

LEMMA AppendedFact ==
    ASSUME NEW s \in StochasticSnapshots({"ready", "running"}), NEW step
    PROVE  Stochastic!Appended(s, step) =
              [spec |-> s.spec, history |-> Append(s.history, step),
               status |-> "running", receipt |-> s.receipt]
  BY RelabelledFact DEF Stochastic!Appended, StochasticSnapshots

(* The snapshot of a run that has taken a step.                            *)
LEMMA StochasticAppendFact ==
    ASSUME NEW c \in StochasticCalls, NEW next \in Mixtures
    PROVE  LET s == Stochastic!Appended(c.snapshot, Stochastic!StepOf(c, next))
           IN  /\ s \in StochasticSnapshots({"ready", "running"})
               /\ Len(s.history) = Len(c.snapshot.history) + 1
               /\ s.spec = c.snapshot.spec
<1> DEFINE step == Stochastic!StepOf(c, next)
<1>1. c.snapshot \in StochasticSnapshots({"ready", "running"}) /\ c.mixed \in Mixtures
  BY DEF StochasticCalls
<1>2. c.snapshot.history \in Seq(StochasticSteps)
  BY <1>1 DEF StochasticSnapshots
<1>3. step \in StochasticSteps
  BY <1>1, <1>2 DEF Stochastic!StepOf, StochasticSteps
<1>4. Append(c.snapshot.history, step) \in Seq(StochasticSteps)
  BY <1>2, <1>3
<1>5. Stochastic!Appended(c.snapshot, step) =
          [spec |-> c.snapshot.spec, history |-> Append(c.snapshot.history, step),
           status |-> "running", receipt |-> c.snapshot.receipt]
  BY <1>1, AppendedFact
<1>6. Len(Append(c.snapshot.history, step)) = Len(c.snapshot.history) + 1
  BY <1>2, <1>3, AppendFact
<1> HIDE DEF step
<1>7. Stochastic!Appended(c.snapshot, step) \in StochasticSnapshots({"ready", "running"})
  BY <1>1, <1>4, <1>5 DEF StochasticSnapshots
<1>8. /\ Len(Stochastic!Appended(c.snapshot, step).history) = Len(c.snapshot.history) + 1
      /\ Stochastic!Appended(c.snapshot, step).spec = c.snapshot.spec
  BY <1>5, <1>6
<1> QED
  BY <1>7, <1>8 DEF step

(* A run that is mixed goes on in step: what it drew is the next draw, and *)
(* the next of the mixture follows from it.                                *)
LEMMA MixInStep ==
    ASSUME StochasticInv, running # NoCall, running.at = "mix"
    PROVE  LET n == Len(running.snapshot.history)
               next == Append(running.mixed, Stochastic!MixedIn(running))
           IN  /\ n \in Nat /\ n < Total(running)
               /\ next = Mixture(running.from, n + 1, Total(running))
               /\ next \in Mixtures
               /\ Stochastic!NoiseRecorded(running) = Stream(running.from, n + 1)
               /\ Stochastic!NoiseRecorded(running) \in Seq(Stochastic!Draws)
<1> DEFINE n == Len(running.snapshot.history)
           from == running.from
           total == Total(running)
<1>1. /\ running \in StochasticCalls /\ from \in Generators
      /\ running.snapshot.history \in Seq(StochasticSteps)
  BY DEF StochasticInv, StochasticType, StochasticCalls, StochasticSnapshots
<1>2. n \in Nat /\ InStep(running, n)
  BY <1>1 DEF StochasticInv, CallInStep
<1>3. /\ n < total /\ running.drawn = <<from.seed, from.drawn + n>>
      /\ running.noise = Stream(from, n) /\ running.mixed = Mixture(from, n, total)
  BY <1>2 DEF InStep
<1>4. Stochastic!MixedIn(running) = IF n = total - 1 THEN NoNoise
                                    ELSE <<from.seed, from.drawn + n>>
  BY <1>3 DEF Stochastic!MixedIn, Total
<1>5. n + 1 \in Nat /\ total \in Nat
  BY <1>1, <1>2, TotalFact DEF StochasticCalls
<1> HIDE DEF n, from, total
<1>6. /\ Append(running.mixed, Stochastic!MixedIn(running)) = Mixture(from, n + 1, total)
      /\ Mixture(from, n + 1, total) \in Mixtures
  <2>1. /\ Append(Mixture(from, n, total),
                  IF n = total - 1 THEN NoNoise ELSE <<from.seed, from.drawn + n>>)
             = Mixture(from, n + 1, total)
        /\ \A k \in Nat : Mixture(from, k, total) \in Mixtures
    BY <1>1, <1>2, <1>5, MixtureFact
  <2> QED
    BY <1>3, <1>4, <1>5, <2>1
<1>7. /\ Stochastic!NoiseRecorded(running) = Stream(from, n + 1)
      /\ Stream(from, n + 1) \in Seq(Stochastic!Draws)
  BY <1>1, <1>2, <1>3, <1>5, StreamFact DEF Stochastic!NoiseRecorded, Stochastic!Draws
<1> QED
  BY <1>2, <1>3, <1>6, <1>7 DEF n, from, total

LEMMA StartKeepsNoise ==
    ASSUME StochasticInv, NEW n \in Lengths, Stochastic!Start(n)
    PROVE  StochasticInv'
<1> USE DEF Stochastic!Start
<1> DEFINE c == [at |-> "model", snapshot |-> Stochastic!Initial(Stochastic!SpecFor(n)),
                 mixed |-> << >>, noise |-> << >>, drawn |-> << >>, from |-> generator]
<1>1. /\ running' = c /\ generator' = generator /\ runs' = runs
      /\ failures' \in 0 .. 2 /\ running = NoCall
  BY DEF StochasticInv, StochasticType
<1>2. c.snapshot \in StochasticSnapshots({"ready", "running"}) /\ c.snapshot.history = << >>
  BY DEF Stochastic!Initial, StochasticSnapshots
<1>3. c \in StochasticCalls
  BY <1>2 DEF StochasticCalls, StochasticInv, StochasticType, Mixtures
<1>4. StochasticType'
  BY <1>1, <1>3 DEF StochasticInv, StochasticType
<1>5. Stream(generator, 0) = << >> /\ Mixture(generator, 0, Total(c)) = << >>
  BY DEF Stream, Mixture
<1>6. CallInStep'
  <2>1. Len(c.snapshot.history) = 0 /\ c.at = "model" /\ c.from = generator
        /\ c.noise = << >> /\ c.mixed = << >>
    BY <1>2
  <2>2. generator.drawn \in Nat /\ Total(c) \in Nat
    BY <1>2, TotalFact DEF StochasticInv, StochasticType, Generators
  <2> HIDE DEF c
  <2> QED
    BY <1>1, <1>5, <2>1, <2>2 DEF CallInStep, InStep
<1>7. ResultsApart'
  <2>1. c.from = generator
    OBVIOUS
  <2> HIDE DEF c
  <2> QED
    BY <1>1, <2>1 DEF ResultsApart, StochasticInv
<1> QED
  BY <1>4, <1>6, <1>7 DEF StochasticInv

(* Velocity and draw: the history does not grow, at most the stream does.  *)
LEMMA ModelKeepsNoise == StochasticInv /\ Stochastic!Model => StochasticInv'
<1> SUFFICES ASSUME StochasticInv, Stochastic!Model PROVE StochasticInv'
  OBVIOUS
<1> USE DEF Stochastic!Model
<1>1. /\ running # NoCall /\ generator' = generator /\ runs' = runs
      /\ failures' = failures /\ running.at = "model"
  OBVIOUS
<1>2. running \in StochasticCalls
  BY <1>1 DEF StochasticInv, StochasticType
<1>3. /\ running' \in StochasticCalls /\ running'.at = "noise"
      /\ running'.snapshot = running.snapshot /\ running'.mixed = running.mixed
      /\ running'.noise = running.noise /\ running'.from = running.from
  BY <1>2 DEF StochasticCalls
<1>4. StochasticType'
  BY <1>1, <1>3 DEF StochasticInv, StochasticType
<1>5. CallInStep'
  <2> DEFINE n == Len(running.snapshot.history)
  <2>1. n < Total(running) /\ Total(running') = Total(running)
    BY <1>3 DEF Total, Stochastic!Transitions
  <2>2. InStep(running, n)
    BY <1>1 DEF CallInStep, StochasticInv
  <2> HIDE DEF n
  <2>3. InStep(running, n)'
    <3>1. (running' # NoCall) => n' = n
      BY <1>3 DEF n
    <3> SUFFICES ASSUME n' = n PROVE InStep(running, n)'
      BY <1>3 DEF n
    <3> QED
      BY <1>1, <1>3, <2>1, <2>2 DEF InStep
  <2> QED
    BY <2>3 DEF CallInStep, n
<1>6. ResultsApart'
  BY <1>1, <1>3 DEF ResultsApart, StochasticInv
<1> QED
  BY <1>4, <1>5, <1>6 DEF StochasticInv

LEMMA DrawKeepsNoise == StochasticInv /\ Stochastic!Draw => StochasticInv'
<1> SUFFICES ASSUME StochasticInv, Stochastic!Draw PROVE StochasticInv'
  OBVIOUS
<1> USE DEF Stochastic!Draw, Stochastic!Drawn
<1>1. /\ running # NoCall /\ runs' = runs /\ failures' = failures
      /\ running.at = "noise"
  OBVIOUS
<1>2. running \in StochasticCalls /\ generator \in Generators
  BY <1>1 DEF StochasticInv, StochasticType
<1>3. /\ generator' \in Generators /\ generator'.drawn = generator.drawn + 1
      /\ generator'.seed = generator.seed /\ generator'.epoch = generator.epoch
      /\ generator.drawn \in Nat
  BY <1>2 DEF Generators
<1>4. <<generator.seed, generator.drawn>> \in Stochastic!Draws
  BY <1>2 DEF Generators, Stochastic!Draws
<1>5. /\ running' \in StochasticCalls /\ running'.at = "mix"
      /\ running'.snapshot = running.snapshot /\ running'.mixed = running.mixed
      /\ running'.noise = running.noise /\ running'.from = running.from
      /\ running'.drawn = <<generator.seed, generator.drawn>>
  BY <1>2, <1>4 DEF StochasticCalls
<1>6. StochasticType'
  BY <1>1, <1>3, <1>5 DEF StochasticInv, StochasticType
<1>7. CallInStep'
  <2> DEFINE n == Len(running.snapshot.history)
  <2>1. n \in Nat
    BY <1>2 DEF StochasticCalls, StochasticSnapshots
  <2>2. running.from.drawn \in Nat
    BY <1>2 DEF StochasticCalls, Generators
  <2>3. InStep(running, n)
    BY <1>1 DEF CallInStep, StochasticInv
  <2> HIDE DEF n
  <2>4. n < Total(running) /\ Total(running') = Total(running) /\ generator.drawn = running.from.drawn + n
    BY <1>1, <1>5, <2>1, <2>2, <2>3 DEF InStep, Total, Stochastic!Transitions
  <2>5. InStep(running, n)'
    <3>1. (running' # NoCall) => n' = n
      BY <1>5 DEF n
    <3> SUFFICES ASSUME n' = n PROVE InStep(running, n)'
      BY <1>5 DEF n
    <3> QED
      BY <1>1, <1>3, <1>5, <2>1, <2>2, <2>3, <2>4 DEF InStep
  <2> QED
    BY <2>5 DEF CallInStep, n
<1>8. ResultsApart'
  <2>1. ASSUME NEW i \in 1 .. Len(runs)
        PROVE  runs[i].from.drawn \in Nat /\ Total(runs[i]) \in Nat
    <3>1. runs[i] \in StochasticResults
      BY ElementFact DEF StochasticInv, StochasticType
    <3> QED
      BY <3>1, TotalFact DEF StochasticResults, Generators
  <2> QED
    BY <1>1, <1>3, <1>5, <2>1 DEF ResultsApart, StochasticInv
<1> QED
  BY <1>6, <1>7, <1>8 DEF StochasticInv

LEMMA MixKeepsNoise == StochasticInv /\ Stochastic!Mix => StochasticInv'
<1> SUFFICES ASSUME StochasticInv, Stochastic!Mix PROVE StochasticInv'
  OBVIOUS
<1> DEFINE n == Len(running.snapshot.history)
           next == Append(running.mixed, Stochastic!MixedIn(running))
           snapshot == Stochastic!Appended(running.snapshot, Stochastic!StepOf(running, next))
           noise == Stochastic!NoiseRecorded(running)
<1>1. /\ running # NoCall /\ running.at = "mix" /\ generator' = generator
      /\ runs' = runs /\ failures' = failures
      /\ running' = [running EXCEPT !.at = "model", !.snapshot = snapshot,
                                    !.mixed = next, !.noise = noise]
  BY DEF Stochastic!Mix
<1>2. running \in StochasticCalls /\ generator \in Generators
  BY <1>1 DEF StochasticInv, StochasticType
<1>3. /\ n \in Nat /\ n < Total(running)
      /\ next = Mixture(running.from, n + 1, Total(running)) /\ next \in Mixtures
      /\ noise = Stream(running.from, n + 1) /\ noise \in Seq(Stochastic!Draws)
  BY <1>1, MixInStep
<1>4. /\ snapshot \in StochasticSnapshots({"ready", "running"})
      /\ Len(snapshot.history) = n + 1
      /\ snapshot.spec = running.snapshot.spec
  <2> HIDE DEF next
  <2> QED
    BY <1>2, <1>3, StochasticAppendFact
<1>5. InStep(running, n)
  BY <1>1 DEF StochasticInv, CallInStep
<1> HIDE DEF n, next, snapshot, noise
<1>6. /\ running' \in StochasticCalls
      /\ running'.at = "model" /\ running'.snapshot = snapshot
      /\ running'.mixed = next /\ running'.noise = noise
      /\ running'.from = running.from
  BY <1>1, <1>2, <1>3, <1>4 DEF StochasticCalls
<1>7. StochasticType'
  BY <1>1, <1>6 DEF StochasticInv, StochasticType
<1>8. CallInStep'
  <2>1. Len(running'.snapshot.history) = n + 1
    BY <1>4, <1>6
  <2>2. running.from.drawn \in Nat /\ Total(running) \in Nat
    BY <1>2, TotalFact DEF StochasticCalls, Generators
  <2>3. generator.drawn = running.from.drawn + (n + 1)
    BY <1>1, <1>3, <1>5, <2>2, SMTT(30) DEF InStep
  <2>4. n + 1 <= Total(running) /\ Total(running') = Total(running)
    BY <1>3, <1>4, <1>6, <2>2 DEF Total, Stochastic!Transitions
  <2>5. /\ running'.noise = Stream(running.from, n + 1)
        /\ running'.mixed = Mixture(running.from, n + 1, Total(running))
    BY <1>3, <1>6
  <2>6. running.from.seed = generator.seed /\ running.from.epoch = generator.epoch
    BY <1>5 DEF InStep
  <2> QED
    BY <1>1, <1>3, <1>6, <2>1, <2>2, <2>3, <2>4, <2>5, <2>6
       DEF CallInStep, InStep
<1>9. ResultsApart'
  BY <1>1, <1>6 DEF ResultsApart, StochasticInv
<1> QED
  BY <1>7, <1>8, <1>9 DEF StochasticInv

LEMMA FailKeepsNoise == StochasticInv /\ Stochastic!Fails => StochasticInv'
<1> SUFFICES ASSUME StochasticInv, Stochastic!Fails PROVE StochasticInv'
  OBVIOUS
<1>1. running' = NoCall /\ generator' = generator /\ runs' = runs
  BY DEF Stochastic!Fails
<1>2. failures' \in 0 .. 2
  BY DEF Stochastic!Fails, StochasticInv, StochasticType
<1> QED
  BY <1>1, <1>2 DEF StochasticInv, StochasticType, CallInStep, ResultsApart

LEMMA FingerprintFailKeepsNoise ==
    StochasticInv /\ Stochastic!FingerprintFails => StochasticInv'
  BY DEF Stochastic!FingerprintFails, StochasticInv, StochasticType, CallInStep, ResultsApart

(* The result that is appended has the newest draws of its seeding.        *)
LEMMA FinishKeepsNoise == StochasticInv /\ Stochastic!Finish => StochasticInv'
<1> SUFFICES ASSUME StochasticInv, Stochastic!Finish PROVE StochasticInv'
  OBVIOUS
<1> DEFINE r == [state |-> running.mixed,
                 snapshot |-> Stochastic!Completed(running.snapshot),
                 noise |-> running.noise, from |-> running.from]
           m == Len(runs)
           total == Total(running)
<1>1. /\ running # NoCall /\ Len(running.snapshot.history) = total
      /\ runs' = Append(runs, r) /\ running' = NoCall
      /\ generator' = generator /\ failures' = failures
  BY DEF Stochastic!Finish, Stochastic!Ended, Total
<1>2. /\ running \in StochasticCalls /\ generator \in Generators
      /\ runs \in Seq(StochasticResults)
  BY <1>1 DEF StochasticInv, StochasticType
<1>3. InStep(running, total)
  BY <1>1 DEF StochasticInv, CallInStep
<1>4. /\ total \in Nat /\ running.from.drawn \in Nat
      /\ running.from \in Generators /\ running.mixed \in Mixtures
      /\ running.noise \in Seq(Stochastic!Draws)
      /\ running.snapshot \in StochasticSnapshots({"ready", "running"})
  BY <1>2, TotalFact DEF StochasticCalls, Generators
<1>5. /\ running.from.epoch = generator.epoch
      /\ running.noise = Stream(running.from, total)
      /\ running.mixed = Mixture(running.from, total, total)
      /\ generator.drawn = running.from.drawn + total
  BY <1>3, <1>4 DEF InStep
<1>6. Stochastic!Completed(running.snapshot) \in StochasticSnapshots({"completed"})
  BY <1>4 DEF Stochastic!Completed, StochasticSnapshots
<1>7. /\ r \in StochasticResults
      /\ r.from = running.from /\ r.noise = running.noise /\ r.state = running.mixed
      /\ Total(r) = total
  BY <1>4, <1>6 DEF StochasticResults, StochasticSnapshots, Stochastic!Completed, Total,
                    Stochastic!Transitions
<1> HIDE DEF r, total
<1>8. /\ runs' \in Seq(StochasticResults) /\ Len(runs') = m + 1 /\ runs'[m + 1] = r
      /\ \A k \in 1 .. m : runs'[k] = runs[k]
      /\ m \in Nat
  <2>1. m \in Nat
    BY <1>2
  <2> QED
    BY <1>1, <1>2, <1>7, <2>1, AppendFact
<1> HIDE DEF m
<1>9. StochasticType'
  BY <1>1, <1>8 DEF StochasticInv, StochasticType
<1>10. CallInStep'
  BY <1>1 DEF CallInStep
<1>11. \A k \in 1 .. m : /\ runs[k].from.drawn \in Nat /\ runs[k].from.epoch \in Nat
                          /\ Total(runs[k]) \in Nat
  <2> SUFFICES ASSUME NEW k \in 1 .. m
               PROVE  /\ runs[k].from.drawn \in Nat /\ runs[k].from.epoch \in Nat
                      /\ Total(runs[k]) \in Nat
    OBVIOUS
  <2>1. runs[k] \in StochasticResults
    BY <1>2, ElementFact DEF m
  <2> QED
    BY <2>1, TotalFact, MaxReseedsAssumption DEF StochasticResults, Generators
<1>12. ASSUME NEW i \in 1 .. m + 1
       PROVE  /\ runs'[i].noise = Stream(runs'[i].from, Total(runs'[i]))
              /\ runs'[i].state = Mixture(runs'[i].from, Total(runs'[i]), Total(runs'[i]))
              /\ runs'[i].from.epoch <= generator.epoch
              /\ runs'[i].from.epoch = generator.epoch =>
                    runs'[i].from.drawn + Total(runs'[i]) <= generator.drawn
  <2>1. CASE i = m + 1
    <3>1. generator.epoch \in Nat
      BY <1>2, MaxReseedsAssumption DEF Generators
    <3> QED
      BY <1>4, <1>5, <1>7, <1>8, <2>1, <3>1
  <2>2. CASE i \in 1 .. m
    BY <1>8, <2>2 DEF StochasticInv, ResultsApart, m
  <2> QED
    BY <1>8, <2>1, <2>2
<1>13. ASSUME NEW i \in 1 .. m + 1, NEW j \in 1 .. m + 1, i < j,
              runs'[i].from.epoch = runs'[j].from.epoch
       PROVE  runs'[i].from.drawn + Total(runs'[i]) <= runs'[j].from.drawn
  <2>1. i \in 1 .. m
    BY <1>8, <1>13
  <2>2. CASE j = m + 1
    <3>1. runs[i].from.epoch = generator.epoch
      BY <1>5, <1>7, <1>8, <1>13, <2>1, <2>2
    <3> QED
      BY <1>1, <1>7, <1>8, <2>1, <2>2, <3>1 DEF StochasticInv, ResultsApart, m
  <2>3. CASE j \in 1 .. m
    BY <1>8, <1>13, <2>1, <2>3 DEF StochasticInv, ResultsApart, m
  <2> QED
    BY <1>8, <2>2, <2>3
<1>14. ResultsApart'
  BY <1>1, <1>8, <1>12, <1>13 DEF ResultsApart
<1> QED
  BY <1>9, <1>10, <1>14 DEF StochasticInv

LEMMA ReseedKeepsNoise ==
    ASSUME StochasticInv, NEW seed \in Seeds, Stochastic!Reseed(seed)
    PROVE  StochasticInv'
<1>1. /\ running = NoCall /\ running' = NoCall /\ runs' = runs /\ failures' = failures
      /\ generator' = [seed |-> seed, epoch |-> generator.epoch + 1, drawn |-> 0]
      /\ generator.epoch < MaxReseeds
  BY DEF Stochastic!Reseed
<1>2. generator.epoch \in Nat /\ generator.epoch + 1 \in 0 .. MaxReseeds
  BY <1>1, MaxReseedsAssumption DEF StochasticInv, StochasticType, Generators
<1>3. generator' \in Generators /\ generator'.epoch = generator.epoch + 1
  BY <1>1, <1>2 DEF Generators
<1>4. StochasticType'
  BY <1>1, <1>3 DEF StochasticInv, StochasticType
<1>5. CallInStep'
  BY <1>1 DEF CallInStep
<1>6. ResultsApart'
  <2>1. ASSUME NEW i \in 1 .. Len(runs)
        PROVE  runs[i].from.epoch \in Nat /\ runs[i].from.epoch <= generator.epoch
    <3>1. runs[i] \in StochasticResults
      BY ElementFact DEF StochasticInv, StochasticType
    <3> QED
      BY <3>1, MaxReseedsAssumption
         DEF StochasticResults, Generators, StochasticInv, ResultsApart
  <2> QED
    BY <1>1, <1>2, <1>3, <2>1 DEF ResultsApart, StochasticInv
<1> QED
  BY <1>4, <1>5, <1>6 DEF StochasticInv

LEMMA StochasticNext ==
    StochasticInv /\ [Stochastic!Next]_(Stochastic!vars) => StochasticInv'
<1> SUFFICES ASSUME StochasticInv, [Stochastic!Next]_(Stochastic!vars) PROVE StochasticInv'
  OBVIOUS
<1>1. CASE \E n \in Lengths : Stochastic!Start(n)
  BY <1>1, StartKeepsNoise
<1>2. CASE Stochastic!Model
  BY <1>2, ModelKeepsNoise
<1>3. CASE Stochastic!Draw
  BY <1>3, DrawKeepsNoise
<1>4. CASE Stochastic!Mix
  BY <1>4, MixKeepsNoise
<1>5. CASE Stochastic!Fails
  BY <1>5, FailKeepsNoise
<1>6. CASE Stochastic!Finish
  BY <1>6, FinishKeepsNoise
<1>7. CASE \E seed \in Seeds : Stochastic!Reseed(seed)
  BY <1>7, ReseedKeepsNoise
<1>8. CASE Stochastic!FingerprintFails
  BY <1>8, FingerprintFailKeepsNoise
<1>9. CASE UNCHANGED Stochastic!vars
  BY <1>9 DEF Stochastic!vars, StochasticInv, StochasticType, CallInStep, ResultsApart,
              InStep
<1> QED
  BY <1>1, <1>2, <1>3, <1>4, <1>5, <1>6, <1>7, <1>8, <1>9 DEF Stochastic!Next

(* Every run of the stochastic controller, and every result it returned,   *)
(* is well formed.                                                         *)
THEOREM StochasticTypeCorrect == Stochastic!Spec => []Stochastic!TypeOK
<1>1. StochasticInv => Stochastic!TypeOK
  <2> SUFFICES ASSUME StochasticInv PROVE Stochastic!TypeOK
    OBVIOUS
  <2>1. running # NoCall =>
            /\ running.at \in {"model", "noise", "mix"}
            /\ running.mixed \in Seq(Stochastic!Draws \cup {NoNoise})
            /\ running.noise \in Seq(Stochastic!Draws)
            /\ running.from \in [seed : Seeds, epoch : 0 .. MaxReseeds, drawn : Nat]
    BY DEF StochasticInv, StochasticType, StochasticCalls, Mixtures, Generators
  <2>2. ASSUME NEW i \in 1 .. Len(runs) PROVE runs[i].snapshot.status = "completed"
    <3>1. runs[i] \in StochasticResults
      BY ElementFact DEF StochasticInv, StochasticType
    <3> QED
      BY <3>1 DEF StochasticResults, StochasticSnapshots
  <2>3. generator \in [seed : Seeds, epoch : 0 .. MaxReseeds, drawn : Nat]
        /\ failures \in 0 .. 2
    BY DEF StochasticInv, StochasticType, Generators
  <2> QED
    BY <2>1, <2>2, <2>3 DEF Stochastic!TypeOK
<1> QED
  BY <1>1, StochasticInit, StochasticNext, PTL DEF Stochastic!Spec

(* Noise is one stream: whatever attempts fail in between and however the  *)
(* caller reseeds, a result names consecutive draws from where the         *)
(* generator stood when it was called, and no two results of one seeding   *)
(* share a draw (the loop of execute_stochastic_flow_euler).               *)
THEOREM NoiseIsAlwaysOneStream == Stochastic!Spec => []NoiseIsOneStream
<1>1. StochasticInv => NoiseIsOneStream
  <2> SUFFICES ASSUME StochasticInv PROVE NoiseIsOneStream
    OBVIOUS
  <2>1. ASSUME NEW i \in 1 .. Len(runs)
        PROVE  /\ runs[i].noise = [k \in 1 .. Total(runs[i]) |->
                                      <<runs[i].from.seed, runs[i].from.drawn + k - 1>>]
               /\ runs[i].state = [runs[i].noise EXCEPT ![Total(runs[i])] = NoNoise]
    <3> DEFINE from == runs[i].from
               total == Total(runs[i])
    <3>0. total \in Nat \ {0}
      <4>1. runs[i] \in StochasticResults
        BY ElementFact DEF StochasticInv, StochasticType
      <4> QED
        BY <4>1, TotalFact DEF StochasticResults
    <3>1. runs[i].noise = Stream(from, total) /\ runs[i].state = Mixture(from, total, total)
      BY DEF StochasticInv, ResultsApart
    <3> HIDE DEF total
    <3>2. Mixture(from, total, total) = [Stream(from, total) EXCEPT ![total] = NoNoise]
      BY <3>0 DEF Mixture, Stream
    <3> QED
      BY <3>1, <3>2 DEF Stream, total
  <2>2. ASSUME NEW i \in 1 .. Len(runs), NEW j \in 1 .. Len(runs), i # j,
               runs[i].from.epoch = runs[j].from.epoch,
               runs[j].from.drawn >= runs[i].from.drawn
        PROVE  runs[j].from.drawn >= runs[i].from.drawn + Total(runs[i])
    <3>1. runs[i] \in StochasticResults /\ runs[j] \in StochasticResults
      BY ElementFact DEF StochasticInv, StochasticType
    <3>2. /\ runs[i].from.drawn \in Nat /\ runs[j].from.drawn \in Nat
          /\ Total(runs[j]) \in Nat \ {0}
      BY <3>1, TotalFact DEF StochasticResults, Generators
    <3>3. i < j \/ j < i
      BY <2>2
    <3> QED
      BY <2>2, <3>2, <3>3 DEF StochasticInv, ResultsApart
  <2> QED
    BY <2>1, <2>2 DEF NoiseIsOneStream, Stochastic!NoiseIsOneStream, Total
<1> QED
  BY <1>1, StochasticInit, StochasticNext, PTL DEF Stochastic!Spec

-----------------------------------------------------------------------------
(***************************************************************************)
(* The deterministic controller.  A history leads from the state it began  *)
(* with along the pairs of sigmas it records to the state it ends in; a    *)
(* kept snapshot tells of a result; and a call in progress began, m steps  *)
(* back, with one of the caller's tensors, fresh or where an interrupted   *)
(* result ended.                                                           *)
(***************************************************************************)
Taken(h) == [i \in 1 .. Len(h) |-> h[i].sigmas]

Steps ==
    [step_index : Nat, scheduler_index : Nat, sigmas : Nat \X Nat,
     model_evaluations : {1}, input : States, output : States]

SnapshotsWith(statuses) ==
    [spec : Specs, history : Seq(Steps), status : statuses, receipt : {NoReceipt}]

Calls ==
    [spec : Specs, sigmas : Schedules, snapshot : SnapshotsWith({"ready", "running"}),
     state : States, owned : BOOLEAN, left : Nat]

Results ==
    [state : States, sigmas : Schedules,
     snapshot : SnapshotsWith({"interrupted", "completed"})]

LeadsTo(h, state) ==
    h # << >> => h[Len(h)].output = state /\ state = h[1].input \o Taken(h)

ResultsInv ==
    /\ results \subseteq Results
    /\ \A r \in results :
          r.snapshot.history # << >> /\ LeadsTo(r.snapshot.history, r.state)

TellsOf(s, r) ==
    /\ s = [spec |-> s.spec, history |-> s.history, status |-> s.status,
            receipt |-> s.receipt]
    /\ s.spec = r.snapshot.spec
    /\ s.history = r.snapshot.history
    /\ s.status = r.snapshot.status

SnapshotsInv == \A s \in snapshots : \E r \in results : TellsOf(s, r)

(* The first m steps are those of an earlier result, the others of c.      *)
StepsFrom(c, m) ==
    \A i \in m + 1 .. Len(c.snapshot.history) :
        c.snapshot.history[i].sigmas =
            <<c.sigmas[c.spec.scheduler_index + i], c.sigmas[c.spec.scheduler_index + i + 1]>>

Origin(h, state) == IF h = << >> THEN state ELSE h[1].input

TakesUp(c, m, r) ==
    /\ r.snapshot.spec = c.spec
    /\ r.snapshot.status = "interrupted"
    /\ Len(r.snapshot.history) = m
    /\ \A i \in 1 .. m : r.snapshot.history[i] = c.snapshot.history[i]
    /\ r.state \in latents

Began(c, m) ==
    /\ m <= Len(c.snapshot.history)
    /\ c.left = 0 => m < Len(c.snapshot.history)
    /\ StepsFrom(c, m)
    /\ m = 0 => Origin(c.snapshot.history, c.state) \in latents
    /\ m # 0 => \E r \in results : TakesUp(c, m, r)

CallInv ==
    call # NoCall =>
        /\ call \in Calls
        /\ ValidSigmas(call.sigmas)
        /\ ValidSpec(call.spec, call.sigmas)
        /\ call.snapshot.spec = call.spec
        /\ Len(call.snapshot.history) + call.left <= call.spec.requested_transitions
        /\ LeadsTo(call.snapshot.history, call.state)
        /\ call.owned => call.state \in latents
        /\ \E m \in Nat : Began(call, m)

ControllerInv ==
    /\ latents \subseteq States
    /\ faults \in 0 .. MaxFaults
    /\ ResultsInv
    /\ SnapshotsInv
    /\ CallInv

LEMMA TakenFact ==
    ASSUME NEW h \in Seq(Steps)
    PROVE  Taken(h) \in Seq(Nat \X Nat) /\ Taken(h) \in States /\ Len(Taken(h)) = Len(h)
<1>1. \A i \in 1 .. Len(h) : h[i].sigmas \in Nat \X Nat
  <2> SUFFICES ASSUME NEW i \in 1 .. Len(h) PROVE h[i].sigmas \in Nat \X Nat
    OBVIOUS
  <2>1. h[i] \in Steps
    BY ElementFact
  <2> QED
    BY <2>1 DEF Steps
<1>2. Taken(h) \in Seq(Nat \X Nat) /\ Len(Taken(h)) = Len(h)
  BY <1>1 DEF Taken
<1>3. Nat \X Nat \subseteq {Overwritten} \cup (Nat \X Nat)
  OBVIOUS
<1>4. Taken(h) \in Seq({Overwritten} \cup (Nat \X Nat))
  BY <1>2, <1>3, SeqMonotonic
<1> QED
  BY <1>2, <1>4 DEF States

LEMMA TakenAppend ==
    ASSUME NEW h \in Seq(Steps), NEW step \in Steps
    PROVE  Taken(Append(h, step)) = Append(Taken(h), step.sigmas)
<1> DEFINE g == Append(h, step)
           n == Len(h)
<1>1. /\ g \in Seq(Steps) /\ Len(g) = n + 1 /\ g[n + 1] = step /\ n \in Nat
      /\ \A i \in 1 .. n : g[i] = h[i]
  BY AppendFact
<1>2. step.sigmas \in Nat \X Nat
  BY DEF Steps
<1> HIDE DEF g
<1>3. Taken(g) \in Seq(Nat \X Nat) /\ Taken(h) \in Seq(Nat \X Nat)
      /\ Len(Taken(g)) = n + 1 /\ Len(Taken(h)) = n
  BY <1>1, TakenFact
<1>4. Taken(g)[n + 1] = step.sigmas
  BY <1>1 DEF Taken
<1>5. \A i \in 1 .. n : Taken(g)[i] = Taken(h)[i]
  BY <1>1 DEF Taken
<1> HIDE DEF n
<1>6. Append(Taken(h), step.sigmas) = Taken(g)
  BY <1>1, <1>2, <1>3, <1>4, <1>5, LastAppended
<1> QED
  BY <1>6 DEF g

(* Appending to a state and appending to the path that led to it.          *)
LEMMA ConcatAppend ==
    ASSUME NEW S, NEW s \in Seq(S), NEW t \in Seq(S), NEW e \in S
    PROVE  s \o Append(t, e) = Append(s \o t, e)
<1> DEFINE u == s \o t
           v == s \o Append(t, e)
           n == Len(u)
<1>1. /\ Append(t, e) \in Seq(S) /\ Len(Append(t, e)) = Len(t) + 1
      /\ Append(t, e)[Len(t) + 1] = e
      /\ \A k \in 1 .. Len(t) : Append(t, e)[k] = t[k]
  BY AppendFact
<1>2. u \in Seq(S) /\ n = Len(s) + Len(t)
      /\ \A i \in 1 .. n : u[i] = IF i <= Len(s) THEN s[i] ELSE t[i - Len(s)]
  BY ConcatProperties
<1>3. Len(s) \in Nat /\ Len(t) \in Nat
  OBVIOUS
<1>4. v \in Seq(S) /\ Len(v) = Len(s) + (Len(t) + 1)
      /\ \A i \in 1 .. Len(s) + (Len(t) + 1) :
            v[i] = IF i <= Len(s) THEN s[i] ELSE Append(t, e)[i - Len(s)]
  BY <1>1, ConcatProperties
<1> HIDE DEF u, v, n
<1>5. v[n + 1] = e
  <2> DEFINE j == n + 1
  <2>1. j \in 1 .. Len(s) + (Len(t) + 1) /\ ~(j <= Len(s)) /\ j - Len(s) = Len(t) + 1
    BY <1>2, <1>3
  <2> HIDE DEF j
  <2>2. v[j] = Append(t, e)[j - Len(s)]
    BY <1>4, <2>1
  <2>3. v[j] = e
    BY <1>1, <2>1, <2>2
  <2> QED
    BY <2>3 DEF j
<1>6. ASSUME NEW k \in 1 .. n PROVE v[k] = u[k]
  <2>1. k \in 1 .. Len(s) + (Len(t) + 1)
    BY <1>2, <1>3
  <2>2. CASE k <= Len(s)
    BY <1>2, <1>4, <2>1, <2>2
  <2>3. CASE ~(k <= Len(s))
    <3>1. k - Len(s) \in 1 .. Len(t)
      BY <1>2, <1>3, <2>3
    <3> QED
      BY <1>1, <1>2, <1>4, <2>1, <2>3, <3>1
  <2> QED
    BY <2>2, <2>3
<1>7. n \in Nat /\ Len(v) = n + 1
  BY <1>2, <1>3, <1>4
<1>8. Append(u, e) = v
  BY <1>2, <1>4, <1>5, <1>6, <1>7, LastAppended DEF n
<1> QED
  BY <1>8 DEF u, v

(* A history of steps of one evaluation each counts as many evaluations as *)
(* it has steps.  The fold is the function its recursion defines, and that *)
(* function is the cardinality, by induction on the number of elements.    *)
LEMMA EvaluationsFact ==
    ASSUME NEW h \in Seq(Steps)
    PROVE  EffectiveEvaluations(h) = Len(h)
<1> DEFINE S == DOMAIN h
           body(f) ==
             [s \in SUBSET S |->
                IF s = {} THEN 0
                ELSE LET x == CHOOSE x \in s : TRUE
                     IN  h[x].model_evaluations + f[s \ {x}]]
           f == CHOOSE f : f = body(f)
<1>1. S = 1 .. Len(h) /\ Len(h) \in Nat
  OBVIOUS
<1>2. IsFiniteSet(S) /\ Cardinality(S) = Len(h)
  BY <1>1, FS_Interval, SMTT(30)
<1>3. \A x \in S : h[x].model_evaluations = 1
  <2> SUFFICES ASSUME NEW x \in 1 .. Len(h) PROVE h[x].model_evaluations = 1
    BY <1>1
  <2>1. h[x] \in Steps
    BY ElementFact
  <2> QED
    BY <2>1 DEF Steps
<1>4. ASSUME NEW s \in SUBSET S, s # {}
      PROVE  LET x == CHOOSE x \in s : TRUE
             IN  /\ x \in s /\ h[x].model_evaluations = 1
                 /\ s \ {x} \in SUBSET S
                 /\ Cardinality(s) \in Nat /\ Cardinality(s \ {x}) \in Nat
                 /\ Cardinality(s) = 1 + Cardinality(s \ {x})
  <2> DEFINE x == CHOOSE x \in s : TRUE
  <2>1. x \in s
    BY <1>4
  <2> HIDE DEF x
  <2>2. IsFiniteSet(s)
    BY <1>2, FS_Subset
  <2>3. IsFiniteSet(s \ {x}) /\ Cardinality(s \ {x}) = Cardinality(s) - 1
    BY <2>1, <2>2, FS_RemoveElement
  <2>4. Cardinality(s) \in Nat /\ Cardinality(s \ {x}) \in Nat
    BY <2>2, <2>3, FS_CardinalityType
  <2>5. h[x].model_evaluations = 1 /\ s \ {x} \in SUBSET S
    <3>1. x \in S
      BY <2>1
    <3> QED
      BY <1>3, <3>1
  <2>6. Cardinality(s) = 1 + Cardinality(s \ {x})
    BY <2>3, <2>4
  <2> HIDE DEF S
  <2> QED
    BY <2>1, <2>4, <2>5, <2>6 DEF x
<1> HIDE DEF S
<1>5. f = body(f)
  <2> DEFINE g == [s \in SUBSET S |-> Cardinality(s)]
  <2>1. g = body(g)
    <3> SUFFICES ASSUME NEW s \in SUBSET S PROVE g[s] = body(g)[s]
      OBVIOUS
    <3>1. CASE s = {}
      BY <3>1, FS_EmptySet
    <3>2. CASE s # {}
      <4> DEFINE x == CHOOSE x \in s : TRUE
      <4>1. /\ h[x].model_evaluations = 1 /\ s \ {x} \in SUBSET S
            /\ Cardinality(s) = 1 + Cardinality(s \ {x})
        BY <1>4, <3>2
      <4>2. body(g)[s] = h[x].model_evaluations + g[s \ {x}]
        BY <3>2
      <4> HIDE DEF x
      <4>3. g[s \ {x}] = Cardinality(s \ {x}) /\ g[s] = Cardinality(s)
        BY <4>1
      <4> HIDE DEF g, body
      <4> QED
        BY <4>1, <4>2, <4>3
    <3> QED
      BY <3>1, <3>2
  <2> HIDE DEF g, body
  <2> QED
    BY <2>1
<1>6. \A n \in Nat : \A s \in SUBSET S : Cardinality(s) = n => f[s] = n
  <2> DEFINE T == {n \in Nat : \A s \in SUBSET S : Cardinality(s) = n => f[s] = n}
  <2>1. \A s \in SUBSET S : f[s] = body(f)[s]
    BY <1>5
  <2> HIDE DEF f
  <2>2. 0 \in T
    <3> SUFFICES ASSUME NEW s \in SUBSET S, Cardinality(s) = 0 PROVE f[s] = 0
      OBVIOUS
    <3>1. IsFiniteSet(s)
      BY <1>2, FS_Subset
    <3>2. s = {}
      BY <3>1, FS_EmptySet
    <3> QED
      BY <2>1, <3>2
  <2>3. ASSUME NEW n \in T PROVE n + 1 \in T
    <3>1. n \in Nat /\ \A s \in SUBSET S : Cardinality(s) = n => f[s] = n
      BY <2>3
    <3> SUFFICES ASSUME NEW s \in SUBSET S, Cardinality(s) = n + 1 PROVE f[s] = n + 1
      BY <3>1
    <3> DEFINE x == CHOOSE x \in s : TRUE
    <3>2. s # {}
      <4>1. Cardinality({}) = 0
        BY FS_EmptySet
      <4>2. n + 1 # 0
        BY <3>1
      <4> QED
        BY <4>1, <4>2
    <3>3. /\ h[x].model_evaluations = 1 /\ s \ {x} \in SUBSET S
          /\ Cardinality(s \ {x}) \in Nat
          /\ Cardinality(s) = 1 + Cardinality(s \ {x})
      BY <1>4, <3>2
    <3>4. f[s] = h[x].model_evaluations + f[s \ {x}]
      BY <2>1, <3>2
    <3> HIDE DEF x
    <3>5. Cardinality(s \ {x}) = n
      BY <3>1, <3>3
    <3> QED
      BY <3>1, <3>3, <3>4, <3>5
  <2>4. T \in SUBSET Nat
    OBVIOUS
  <2>5. T = Nat
    <3> HIDE DEF T
    <3> QED
      BY <2>2, <2>3, <2>4, SetInduction
  <2> QED
    BY <2>5
<1>7. f[S] = Len(h)
  BY <1>1, <1>2, <1>6
<1>8. EffectiveEvaluations(h) = f[S]
  BY DEF EffectiveEvaluations, MapThenSumSet, MapThenFoldSet, S
<1> QED
  BY <1>7, <1>8

LEMMA CallFact ==
    ASSUME ControllerInv, call # NoCall
    PROVE  /\ call \in Calls /\ call.spec \in Specs /\ call.sigmas \in Seq(Nat)
           /\ call.sigmas \in Schedules
           /\ call.snapshot \in SnapshotsWith({"ready", "running"})
           /\ call.snapshot.history \in Seq(Steps) /\ Len(call.snapshot.history) \in Nat
           /\ call.state \in States /\ call.left \in Nat
           /\ call.spec.scheduler_index \in Nat /\ call.spec.requested_transitions \in Nat
           /\ call.spec.requested_model_evaluations \in Nat
           /\ Len(call.sigmas) \in Nat
<1>1. call \in Calls
  BY DEF ControllerInv, CallInv
<1>2. /\ call.spec \in Specs /\ call.sigmas \in Schedules /\ call.state \in States
      /\ call.left \in Nat /\ call.snapshot \in SnapshotsWith({"ready", "running"})
  BY <1>1 DEF Calls
<1>3. call.sigmas \in Seq(Nat)
  BY <1>2, SchedulesAssumption
<1>4. call.snapshot.history \in Seq(Steps)
  BY <1>2 DEF SnapshotsWith
<1> QED
  BY <1>1, <1>2, <1>3, <1>4, SpecsAssumption

(* The transition a call has left is one of its schedule, and its step     *)
(* goes on from the state the history ends in.                             *)
LEMMA StepFact ==
    ASSUME ControllerInv, call # NoCall, call.left > 0
    PROVE  LET n == Len(call.snapshot.history)
               next == Velocity(call.state, SigmaPair(call))
               step == StepOf(call, next)
           IN  /\ SigmaPair(call) = <<call.sigmas[call.spec.scheduler_index + (n + 1)],
                                      call.sigmas[call.spec.scheduler_index + (n + 1) + 1]>>
               /\ SigmaPair(call) \in Nat \X Nat
               /\ next \in States
               /\ step \in Steps
               /\ step.sigmas = SigmaPair(call) /\ step.output = next
               /\ step.input = call.state
<1> DEFINE n == Len(call.snapshot.history)
           first == call.spec.scheduler_index
           next == Velocity(call.state, SigmaPair(call))
<1>1. /\ first \in Nat /\ n \in Nat /\ Len(call.sigmas) \in Nat
      /\ call.sigmas \in Seq(Nat) /\ call.state \in States /\ call.left \in Nat
      /\ call.spec.requested_transitions \in Nat
  BY CallFact
<1>2. first + (n + 1) + 1 <= Len(call.sigmas)
  <2>1. call.spec.requested_transitions = Len(call.sigmas) - 1 - first
        /\ n + call.left <= call.spec.requested_transitions
    BY <1>1 DEF ControllerInv, CallInv, ValidSpec
  <2> HIDE DEF n, first
  <2> QED
    BY <1>1, <2>1
<1>3. SigmaPair(call) = <<call.sigmas[first + (n + 1)], call.sigmas[first + (n + 1) + 1]>>
  <2>1. first + n + 1 = first + (n + 1) /\ first + n + 2 = first + (n + 1) + 1
    <3> HIDE DEF n, first
    <3> QED
      BY <1>1
  <2> QED
    BY <2>1 DEF SigmaPair
<1>4. SigmaPair(call) \in Nat \X Nat
  <2>1. first + (n + 1) \in 1 .. Len(call.sigmas) /\ first + (n + 1) + 1 \in 1 .. Len(call.sigmas)
    <3> HIDE DEF n, first
    <3> QED
      BY <1>1, <1>2
  <2>2. call.sigmas[first + (n + 1)] \in Nat /\ call.sigmas[first + (n + 1) + 1] \in Nat
    BY <1>1, <2>1, ElementFact
  <2> HIDE DEF n, first
  <2> QED
    BY <1>3, <2>2
<1>5. next \in States
  BY <1>1, <1>4, AppendFact DEF Velocity, States
<1> HIDE DEF next
<1>6. StepOf(call, next) \in Steps
  BY <1>1, <1>4, <1>5, SMTT(30) DEF StepOf, Steps
<1>7. /\ StepOf(call, next).sigmas = SigmaPair(call) /\ StepOf(call, next).output = next
      /\ StepOf(call, next).input = call.state
  BY DEF StepOf
<1> QED
  BY <1>3, <1>4, <1>5, <1>6, <1>7 DEF next

(* A call never gets stuck in its loop: append_step accepts every step the *)
(* controller builds (execute_deterministic_flow_euler), which needs that  *)
(* a snapshot has room for the longest schedule.                           *)
LEMMA AcceptedFact == ControllerInv => StepsAreAccepted
<1> SUFFICES ASSUME ControllerInv, call # NoCall, call.left > 0
             PROVE  CanAppend(call.snapshot, call.spec,
                              StepOf(call, Velocity(call.state, SigmaPair(call))))
  BY DEF StepsAreAccepted
<1> DEFINE h == call.snapshot.history
           n == Len(h)
           step == StepOf(call, Velocity(call.state, SigmaPair(call)))
<1>1. /\ h \in Seq(Steps) /\ n \in Nat /\ call.left \in Nat
      /\ call.spec.requested_transitions \in Nat
      /\ call.spec.scheduler_index \in Nat
      /\ call.snapshot \in SnapshotsWith({"ready", "running"})
      /\ Len(call.sigmas) \in Nat
  BY CallFact
<1>2. step \in Steps /\ step.input = call.state
  BY StepFact
<1>3. step.step_index = n /\ step.scheduler_index = call.spec.scheduler_index + n
  BY DEF StepOf
<1>4. /\ n + call.left <= call.spec.requested_transitions
      /\ call.spec.requested_transitions = Len(call.sigmas) - 1 - call.spec.scheduler_index
      /\ call.spec.requested_model_evaluations = call.spec.requested_transitions
      /\ Len(call.sigmas) <= MaxSigmas
      /\ call.snapshot.spec = call.spec
      /\ LeadsTo(h, call.state)
  BY <1>1 DEF ControllerInv, CallInv, ValidSpec, ValidSigmas
<1> HIDE DEF step
<1>5. /\ Append(h, step) \in Seq(Steps) /\ Len(Append(h, step)) = n + 1
      /\ EffectiveEvaluations(Append(h, step)) = n + 1
  <2> HIDE DEF h
  <2>1. Append(h, step) \in Seq(Steps) /\ Len(Append(h, step)) = n + 1
    BY <1>1, <1>2, AppendFact
  <2> QED
    BY <2>1, EvaluationsFact
<1>6. Continues(h, step)
  BY <1>2, <1>4 DEF Continues, LeadsTo
<1>7. call.snapshot.receipt = NoReceipt /\ call.snapshot.status \in {"ready", "running"}
  BY <1>1 DEF SnapshotsWith
<1> HIDE DEF h, n
<1>8. WithinRequest(Append(h, step), call.spec)
  BY <1>1, <1>4, <1>5 DEF WithinRequest, EffectiveTransitions
<1>9. n < MaxHistory
  BY <1>1, <1>4, MaxHistoryAssumption, MaxSigmasAssumption, SMTT(30)
<1> QED
  BY <1>3, <1>4, <1>6, <1>7, <1>8, <1>9
     DEF CanAppend, MatchesSpec, ReceiptUnbound, h, n, step

LEMMA ControllerInit == Init => ControllerInv
  BY MaxFaultsAssumption
     DEF Init, ControllerInv, ResultsInv, SnapshotsInv, CallInv, States

(* What a call starts from: nothing, or the history of an interrupted      *)
(* result that ended in the state the call was given.                      *)
LEMMA EnteredFact ==
    ASSUME ControllerInv, NEW spec \in Specs, NEW state \in latents,
           NEW given \in snapshots \cup {NoSnapshot},
           NEW base, base = IF given = NoSnapshot THEN Initial(spec) ELSE given,
           Executable(base, spec, state)
    PROVE  /\ Entered(base) \in SnapshotsWith({"ready", "running"})
           /\ Entered(base).spec = spec
           /\ Entered(base).history = base.history
           /\ LeadsTo(base.history, state)
           /\ base.history # << >> =>
                 \E r \in results :
                    /\ r.snapshot.spec = spec /\ r.snapshot.status = "interrupted"
                    /\ r.snapshot.history = base.history /\ r.state = state
<1>1. CASE given = NoSnapshot
  <2>1. base = [spec |-> spec, history |-> << >>, status |-> "ready", receipt |-> NoReceipt]
    BY <1>1 DEF Initial
  <2>2. /\ base.spec = spec /\ base.history = << >> /\ base.status = "ready"
        /\ base.receipt = NoReceipt
    BY <2>1
  <2>3. base \in SnapshotsWith({"ready", "running"})
    <3>1. << >> \in Seq(Steps)
      OBVIOUS
    <3>2. [spec |-> spec, history |-> << >>, status |-> "ready", receipt |-> NoReceipt]
             \in SnapshotsWith({"ready", "running"})
      BY <3>1 DEF SnapshotsWith
    <3> QED
      BY <2>1, <3>2
  <2>4. Entered(base) = base
    BY <2>2 DEF Entered
  <2> QED
    BY <2>2, <2>3, <2>4 DEF LeadsTo
<1>2. CASE given # NoSnapshot
  <2>1. base \in snapshots /\ base.spec = spec /\ base.receipt = NoReceipt
    BY <1>2 DEF Executable, MatchesSpec, ReceiptUnbound
  <2>2. PICK r \in results : TellsOf(base, r)
    BY <2>1 DEF ControllerInv, SnapshotsInv
  <2>3. /\ r.snapshot \in SnapshotsWith({"interrupted", "completed"})
        /\ r.snapshot.history # << >> /\ LeadsTo(r.snapshot.history, r.state)
    BY DEF ControllerInv, ResultsInv, Results
  <2>4. /\ base.history = r.snapshot.history /\ base.status = r.snapshot.status
        /\ base.history \in Seq(Steps) /\ base.status \in {"interrupted", "completed"}
        /\ base = [spec |-> spec, history |-> base.history, status |-> base.status,
                   receipt |-> NoReceipt]
    BY <2>1, <2>2, <2>3 DEF TellsOf, SnapshotsWith
  <2>5. base.status = "interrupted" /\ base.history[Len(base.history)].output = state
    BY <2>4 DEF Executable
  <2>6. r.state = state
    BY <2>3, <2>4, <2>5 DEF LeadsTo
  <2>7. base \in SnapshotsWith({"interrupted"})
    BY <2>4, <2>5 DEF SnapshotsWith
  <2>8. /\ Entered(base) \in SnapshotsWith({"ready", "running"})
        /\ Entered(base).spec = spec /\ Entered(base).history = base.history
    BY <2>1, <2>5, <2>7 DEF Entered, Resumed, SnapshotsWith
  <2> QED
    BY <2>1, <2>2, <2>3, <2>4, <2>5, <2>6, <2>8 DEF TellsOf
<1> QED
  BY <1>1, <1>2

LEMMA StartKeeps ==
    ASSUME ControllerInv, NEW spec \in Specs, NEW sigmas \in Schedules,
           NEW state \in latents, NEW given \in snapshots \cup {NoSnapshot},
           NEW limit \in Limits, Start(spec, sigmas, state, given, limit)
    PROVE  ControllerInv'
<1> DEFINE base == IF given = NoSnapshot THEN Initial(spec) ELSE given
           left == Invocations(Remaining(spec, base), limit)
           c == [spec |-> spec, sigmas |-> sigmas, snapshot |-> Entered(base),
                 state |-> state, owned |-> TRUE, left |-> left]
           n == Len(base.history)
<1>1. /\ ValidSigmas(sigmas) /\ ValidSpec(spec, sigmas) /\ Executable(base, spec, state)
      /\ Remaining(spec, base) > 0 /\ call' = c
      /\ latents' = latents /\ snapshots' = snapshots /\ results' = results
      /\ faults' = faults
  BY DEF Start
<1>2. /\ Entered(base) \in SnapshotsWith({"ready", "running"})
      /\ Entered(base).spec = spec /\ Entered(base).history = base.history
      /\ LeadsTo(base.history, state)
      /\ base.history # << >> =>
            \E r \in results :
               /\ r.snapshot.spec = spec /\ r.snapshot.status = "interrupted"
               /\ r.snapshot.history = base.history /\ r.state = state
  BY <1>1, EnteredFact
<1> HIDE DEF base
<1>3. base.history \in Seq(Steps) /\ n \in Nat /\ state \in States
      /\ spec.requested_transitions \in Nat
  BY <1>2, SpecsAssumption DEF SnapshotsWith, ControllerInv
<1>4. left \in Nat /\ left > 0 /\ n + left <= spec.requested_transitions
  <2>1. Remaining(spec, base) \in Nat /\ n + Remaining(spec, base) = spec.requested_transitions
    BY <1>1, <1>3 DEF Remaining
  <2>2. limit = NoLimit \/ limit \in Nat \ {0}
    BY LimitsAssumption
  <2> HIDE DEF n
  <2> QED
    BY <1>1, <1>3, <2>1, <2>2 DEF Invocations
<1> HIDE DEF left
<1>5. c \in Calls
  BY <1>2, <1>3, <1>4 DEF Calls
<1>6. /\ c.spec = spec /\ c.sigmas = sigmas /\ c.snapshot = Entered(base)
      /\ c.state = state /\ c.left = left
  OBVIOUS
<1> HIDE DEF c
<1>7. Len(c.snapshot.history) = n /\ c.snapshot.history = base.history
  BY <1>2, <1>6
<1>8. Began(c, n)
  <2>1. StepsFrom(c, n)
    BY <1>3, <1>7 DEF StepsFrom
  <2>2. n = 0 => Origin(c.snapshot.history, c.state) \in latents
    <3>1. n = 0 => base.history = << >>
      BY <1>3
    <3> QED
      BY <1>6, <1>7, <3>1 DEF Origin
  <2>3. ASSUME n # 0 PROVE \E r \in results : TakesUp(c, n, r)
    <3>1. base.history # << >>
      BY <2>3
    <3>2. PICK r \in results :
              /\ r.snapshot.spec = spec /\ r.snapshot.status = "interrupted"
              /\ r.snapshot.history = base.history /\ r.state = state
      BY <1>2, <3>1
    <3> QED
      BY <1>6, <1>7, <3>2 DEF TakesUp
  <2>4. n <= Len(c.snapshot.history) /\ (c.left = 0 => n < Len(c.snapshot.history))
    BY <1>3, <1>4, <1>6, <1>7
  <2> HIDE DEF n
  <2> QED
    BY <2>1, <2>2, <2>3, <2>4 DEF Began
<1>9. CallInv'
  BY <1>1, <1>2, <1>3, <1>4, <1>5, <1>6, <1>7, <1>8 DEF CallInv, Began, TakesUp
<1> QED
  BY <1>1, <1>9 DEF ControllerInv, ResultsInv, SnapshotsInv

(* A call that takes a step.                                               *)
LEMMA TransitionKeeps == ControllerInv /\ Transition => ControllerInv'
<1> SUFFICES ASSUME ControllerInv, Transition PROVE ControllerInv'
  OBVIOUS
<1> DEFINE h == call.snapshot.history
           n == Len(h)
           first == call.spec.scheduler_index
           next == Velocity(call.state, SigmaPair(call))
           step == StepOf(call, next)
           g == Append(h, step)
           snapshot == Appended(call.snapshot, step)
<1>1. /\ call # NoCall /\ call.left > 0
      /\ call' = [call EXCEPT !.snapshot = snapshot, !.state = next, !.owned = FALSE,
                              !.left = call.left - 1]
      /\ latents' = latents /\ snapshots' = snapshots /\ results' = results
      /\ faults' = faults
  BY DEF Transition
<1>2. /\ call \in Calls /\ h \in Seq(Steps) /\ n \in Nat /\ call.left \in Nat
      /\ call.state \in States /\ call.snapshot \in SnapshotsWith({"ready", "running"})
      /\ call.spec.requested_transitions \in Nat
  BY <1>1, CallFact
<1>3. /\ SigmaPair(call) = <<call.sigmas[first + (n + 1)], call.sigmas[first + (n + 1) + 1]>>
      /\ SigmaPair(call) \in Nat \X Nat
      /\ next \in States /\ step \in Steps
      /\ step.sigmas = SigmaPair(call) /\ step.output = next /\ step.input = call.state
  BY <1>1, StepFact
<1>4. next = Append(call.state, SigmaPair(call))
  BY DEF Velocity
<1> HIDE DEF h, n, first, next, step
<1>5. /\ g \in Seq(Steps) /\ Len(g) = n + 1 /\ g[n + 1] = step
      /\ \A i \in 1 .. n : g[i] = h[i]
  BY <1>2, <1>3, AppendFact DEF n
<1>6. /\ snapshot.spec = call.snapshot.spec /\ snapshot.history = g
      /\ snapshot \in SnapshotsWith({"ready", "running"})
  BY <1>2, <1>5 DEF Appended, SnapshotsWith, h
<1> HIDE DEF g, snapshot
<1>7. /\ call' \in Calls /\ call'.spec = call.spec /\ call'.sigmas = call.sigmas
      /\ call'.snapshot = snapshot /\ call'.state = next /\ call'.left = call.left - 1
      /\ call'.owned = FALSE
  <2> DEFINE left == call.left - 1
  <2>1. left \in Nat
    BY <1>1, <1>2
  <2>2. call' = [call EXCEPT !.snapshot = snapshot, !.state = next, !.owned = FALSE,
                             !.left = left]
    BY <1>1
  <2> HIDE DEF left
  <2>3. /\ call' \in Calls /\ call'.spec = call.spec /\ call'.sigmas = call.sigmas
        /\ call'.snapshot = snapshot /\ call'.state = next /\ call'.left = left
        /\ call'.owned = FALSE
    BY <1>2, <1>3, <1>6, <2>1, <2>2 DEF Calls
  <2> QED
    BY <2>3 DEF left
<1>8. LeadsTo(h, call.state) /\ call.state = Origin(h, call.state) \o Taken(h)
      /\ Origin(h, call.state) \in States
  <2>1. LeadsTo(h, call.state)
    BY <1>1 DEF ControllerInv, CallInv, h
  <2>2. CASE h = << >>
    <3>1. Taken(h) = << >> /\ Origin(h, call.state) = call.state
      BY <2>2 DEF Taken, Origin
    <3>2. call.state \o << >> = call.state
      BY <1>2, ConcatEmptySeq DEF States
    <3> QED
      BY <1>2, <2>1, <3>1, <3>2
  <2>3. CASE h # << >>
    <3>1. Origin(h, call.state) = h[1].input
      BY <2>3 DEF Origin
    <3>2. h[1] \in Steps
      <4>1. 1 \in 1 .. Len(h)
        BY <1>2, <2>3
      <4> QED
        BY <1>2, <4>1, ElementFact
    <3> QED
      BY <2>1, <2>3, <3>1, <3>2 DEF LeadsTo, Steps
  <2> QED
    BY <2>2, <2>3
<1>9. g # << >> /\ g[1].input = Origin(h, call.state)
  <2>1. g # << >>
    BY <1>2, <1>5
  <2>2. CASE h = << >>
    <3>1. n = 0 /\ Origin(h, call.state) = call.state
      BY <2>2 DEF n, Origin
    <3> QED
      BY <1>3, <1>5, <2>1, <3>1
  <2>3. CASE h # << >>
    <3>1. 1 \in 1 .. n /\ Origin(h, call.state) = h[1].input
      BY <1>2, <2>3 DEF n, Origin
    <3> QED
      BY <1>5, <2>1, <3>1
  <2> QED
    BY <2>2, <2>3
<1>10. LeadsTo(g, next)
  <2>1. Taken(g) = Append(Taken(h), SigmaPair(call))
    BY <1>2, <1>3, TakenAppend DEF g
  <2>2. Taken(h) \in States /\ SigmaPair(call) \in {Overwritten} \cup (Nat \X Nat)
    BY <1>2, <1>3, TakenFact
  <2>3. Origin(h, call.state) \o Append(Taken(h), SigmaPair(call))
          = Append(Origin(h, call.state) \o Taken(h), SigmaPair(call))
    BY <1>8, <2>2, ConcatAppend DEF States
  <2>4. Origin(h, call.state) \o Taken(g) = next
    BY <1>4, <1>8, <2>1, <2>3
  <2> QED
    BY <1>3, <1>5, <1>9, <2>4 DEF LeadsTo
<1>11. PICK m \in Nat : Began(call, m)
  BY <1>1 DEF ControllerInv, CallInv
<1>12. /\ m <= n /\ StepsFrom(call, m)
       /\ m = 0 => Origin(h, call.state) \in latents
       /\ m # 0 => \E r \in results : TakesUp(call, m, r)
  BY <1>11 DEF Began, h, n
<1>13. StepsFrom(call', m)
  <2>1. ASSUME NEW i \in m + 1 .. n + 1
        PROVE  g[i].sigmas = <<call.sigmas[first + i], call.sigmas[first + i + 1]>>
    <3>1. CASE i = n + 1
      BY <1>3, <1>5, <3>1
    <3>2. CASE i # n + 1
      <4>1. i \in 1 .. n /\ i \in m + 1 .. n
        BY <1>2, <3>2
      <4> QED
        BY <1>5, <1>12, <4>1 DEF StepsFrom, h, n, first
    <3> QED
      BY <3>1, <3>2
  <2> QED
    BY <1>5, <1>6, <1>7, <2>1 DEF StepsFrom, first
<1>14. Origin(g, next) = Origin(h, call.state)
  BY <1>9 DEF Origin
<1>15. ASSUME NEW r \in results, TakesUp(call, m, r) PROVE TakesUp(call', m, r)
  <2>1. \A i \in 1 .. m : i \in 1 .. n
    BY <1>2, <1>12
  <2> QED
    BY <1>1, <1>5, <1>6, <1>7, <1>15, <2>1 DEF TakesUp, h
<1>16. m <= n + 1 /\ m < n + 1
  BY <1>2, <1>12
<1>17. Began(call', m)
  BY <1>5, <1>6, <1>7, <1>12, <1>13, <1>14, <1>15, <1>16 DEF Began
<1>18. (n + 1) + (call.left - 1) <= call.spec.requested_transitions
  <2>1. n + call.left <= call.spec.requested_transitions
    BY <1>1 DEF ControllerInv, CallInv, h, n
  <2> QED
    BY <1>1, <1>2, <2>1
<1>19. CallInv'
  <2>1. /\ ValidSigmas(call.sigmas) /\ ValidSpec(call.spec, call.sigmas)
        /\ call.snapshot.spec = call.spec
    BY <1>1 DEF ControllerInv, CallInv
  <2>2. Began(call, m)'
    BY <1>1, <1>17 DEF Began, TakesUp
  <2> QED
    BY <1>5, <1>6, <1>7, <1>10, <1>18, <2>1, <2>2 DEF CallInv
<1> QED
  BY <1>1, <1>19 DEF ControllerInv, ResultsInv, SnapshotsInv

(* The result of a call: a history that is not empty, finished when it has *)
(* all the transitions that were requested.                                *)
LEMMA FinishedFact ==
    ASSUME ControllerInv, Finish
    PROVE  LET s == Finished(call)
               r == [state |-> call.state, sigmas |-> call.sigmas, snapshot |-> s]
           IN  /\ s \in SnapshotsWith({"interrupted", "completed"})
               /\ s.spec = call.spec /\ s.history = call.snapshot.history
               /\ (s.status = "completed") <=>
                     (Len(s.history) = call.spec.requested_transitions)
               /\ s.history # << >>
               /\ r \in Results
<1> DEFINE s == Finished(call)
<1>1. /\ call # NoCall /\ call.left = 0
      /\ call.snapshot \in SnapshotsWith({"ready", "running"})
      /\ call.snapshot.spec = call.spec
      /\ call.state \in States /\ call.sigmas \in Schedules
      /\ call.snapshot.history \in Seq(Steps)
      /\ Len(call.snapshot.history) \in Nat
  BY CallFact DEF Finish, ControllerInv, CallInv
<1>2. /\ s \in SnapshotsWith({"interrupted", "completed"})
      /\ s.spec = call.spec /\ s.history = call.snapshot.history
      /\ s.status = IF Len(call.snapshot.history) = call.spec.requested_transitions
                      THEN "completed" ELSE "interrupted"
  BY <1>1 DEF Finished, Completed, Interrupted, SnapshotsWith
<1>3. PICK m \in Nat : Began(call, m)
  BY <1>1 DEF ControllerInv, CallInv
<1>4. s.history # << >>
  <2>1. m < Len(call.snapshot.history)
    BY <1>1, <1>3 DEF Began
  <2> QED
    BY <1>1, <1>2, <2>1
<1>5. [state |-> call.state, sigmas |-> call.sigmas, snapshot |-> s] \in Results
  BY <1>1, <1>2 DEF Results
<1> QED
  BY <1>2, <1>4, <1>5

LEMMA FinishKeeps == ControllerInv /\ Finish => ControllerInv'
<1> SUFFICES ASSUME ControllerInv, Finish PROVE ControllerInv'
  OBVIOUS
<1> DEFINE s == Finished(call)
           r == [state |-> call.state, sigmas |-> call.sigmas, snapshot |-> s]
<1>1. /\ latents' = latents \cup {call.state} /\ snapshots' = snapshots \cup {s}
      /\ results' = results \cup {r} /\ call' = NoCall /\ faults' = faults
      /\ call # NoCall
  BY DEF Finish
<1>2. /\ s \in SnapshotsWith({"interrupted", "completed"})
      /\ s.history = call.snapshot.history /\ s.history # << >> /\ r \in Results
  BY FinishedFact
<1>3. LeadsTo(call.snapshot.history, call.state) /\ call.state \in States
  BY <1>1, CallFact DEF ControllerInv, CallInv
<1> HIDE DEF s
<1>4. ResultsInv'
  <2>1. r.snapshot = s /\ r.state = call.state
    OBVIOUS
  <2> HIDE DEF r
  <2> QED
    BY <1>1, <1>2, <1>3, <2>1 DEF ControllerInv, ResultsInv
<1>5. SnapshotsInv'
  <2>1. TellsOf(s, r)
    BY <1>2 DEF TellsOf, SnapshotsWith
  <2> HIDE DEF r
  <2> QED
    BY <1>1, <2>1 DEF ControllerInv, SnapshotsInv
<1> QED
  BY <1>1, <1>3, <1>4, <1>5 DEF ControllerInv, CallInv

(* A receipt is bound to a snapshot, which tells of the same result.       *)
LEMMA SettleKeeps ==
    ASSUME ControllerInv, NEW s \in snapshots, Settle(s)
    PROVE  ControllerInv'
<1> DEFINE receipt == ReceiptFor(s)
           t == [s EXCEPT !.receipt = receipt]
<1>1. /\ snapshots' = (snapshots \ {s}) \cup {t}
      /\ latents' = latents /\ results' = results /\ call' = call /\ faults' = faults
      /\ call = NoCall
  BY DEF Settle, Attached
<1>2. PICK r \in results : TellsOf(s, r)
  BY DEF ControllerInv, SnapshotsInv
<1> HIDE DEF receipt
<1>3. TellsOf(t, r)
  <2>1. s = [spec |-> s.spec, history |-> s.history, status |-> s.status,
             receipt |-> s.receipt]
    BY <1>2 DEF TellsOf
  <2>2. t = [spec |-> s.spec, history |-> s.history, status |-> s.status,
             receipt |-> receipt]
    BY <2>1
  <2> HIDE DEF t
  <2>3. t.spec = s.spec /\ t.history = s.history /\ t.status = s.status /\ t.receipt = receipt
    BY <2>2
  <2> QED
    BY <1>2, <2>2, <2>3 DEF TellsOf
<1> HIDE DEF t
<1>4. SnapshotsInv'
  BY <1>1, <1>3 DEF ControllerInv, SnapshotsInv
<1> QED
  BY <1>1, <1>4 DEF ControllerInv, ResultsInv, CallInv

LEMMA WriteFact ==
    ASSUME ControllerInv, NEW state \in States, WriteInto(state)
    PROVE  latents' \subseteq States
<1>1. OverwrittenState(state) \in States
  BY AppendFact DEF OverwrittenState, States
<1> QED
  BY <1>1 DEF WriteInto, ControllerInv

LEMMA FaultsKeep ==
    ASSUME ControllerInv,
           ModelFails \/ ModelWrites \/ \E state \in latents : OutsideWrite(state)
    PROVE  ControllerInv'
<1>1. /\ snapshots' = snapshots /\ results' = results /\ call' = NoCall
      /\ faults' = faults + 1 /\ faults < MaxFaults
  BY DEF ModelFails, ModelWrites, OutsideWrite
<1>2. latents' \subseteq States
  <2>1. CASE ModelFails
    BY <2>1 DEF ModelFails, ControllerInv
  <2>2. CASE ModelWrites
    <3>1. call.state \in States
      BY <2>2, CallFact DEF ModelWrites
    <3> QED
      BY <2>2, <3>1, WriteFact DEF ModelWrites, ControllerInv
  <2>3. CASE \E state \in latents : OutsideWrite(state)
    <3>1. PICK state \in latents : WriteInto(state)
      BY <2>3 DEF OutsideWrite
    <3>2. state \in States
      BY DEF ControllerInv
    <3> QED
      BY <3>1, <3>2, WriteFact
  <2> QED
    BY <2>1, <2>2, <2>3
<1>3. faults' \in 0 .. MaxFaults
  BY <1>1, MaxFaultsAssumption DEF ControllerInv
<1> QED
  BY <1>1, <1>2, <1>3 DEF ControllerInv, ResultsInv, SnapshotsInv, CallInv

LEMMA ControllerStep == ControllerInv /\ [Next]_vars => ControllerInv'
<1> SUFFICES ASSUME ControllerInv, [Next]_vars PROVE ControllerInv'
  OBVIOUS
<1>1. CASE \E spec \in Specs, sigmas \in Schedules, state \in latents,
             given \in snapshots \cup {NoSnapshot}, limit \in Limits :
               Start(spec, sigmas, state, given, limit)
  BY <1>1, StartKeeps
<1>2. CASE Transition
  BY <1>2, TransitionKeeps
<1>3. CASE FingerprintFails
  BY <1>3 DEF FingerprintFails, ControllerInv, ResultsInv, SnapshotsInv, CallInv
<1>4. CASE ModelFails \/ ModelWrites \/ \E state \in latents : OutsideWrite(state)
  BY <1>4, FaultsKeep
<1>5. CASE Finish
  BY <1>5, FinishKeeps
<1>6. CASE \E s \in snapshots : Settle(s)
  BY <1>6, SettleKeeps
<1>7. CASE UNCHANGED vars
  BY <1>7 DEF vars, ControllerInv, ResultsInv, SnapshotsInv, CallInv, Began, TakesUp
<1> QED
  BY <1>1, <1>2, <1>3, <1>4, <1>5, <1>6, <1>7 DEF Next

(* append_step accepts every step the controller builds, so a call does    *)
(* not lose its progress to the checks of the snapshot.                    *)
THEOREM StepsAreAlwaysAccepted == Spec => []StepsAreAccepted
  BY ControllerInit, ControllerStep, AcceptedFact, PTL DEF Spec

(* Calls, results and what the caller keeps are well formed.               *)
THEOREM ControllerTypeCorrect == Spec => []TypeOK
<1>1. ControllerInv => TypeOK
  <2> SUFFICES ASSUME ControllerInv PROVE TypeOK
    OBVIOUS
  <2>1. call # NoCall =>
          /\ call.spec \in Specs /\ call.sigmas \in Schedules /\ call.state \in States
          /\ call.left \in 0 .. MaxSigmas
          /\ call.snapshot.status \in {"ready", "running"}
    <3> SUFFICES ASSUME call # NoCall
                 PROVE  /\ call.spec \in Specs /\ call.sigmas \in Schedules
                        /\ call.state \in States /\ call.left \in 0 .. MaxSigmas
                        /\ call.snapshot.status \in {"ready", "running"}
      OBVIOUS
    <3>1. /\ call.left \in Nat /\ Len(call.snapshot.history) \in Nat
          /\ call.spec.scheduler_index \in Nat /\ Len(call.sigmas) \in Nat
          /\ call.snapshot \in SnapshotsWith({"ready", "running"})
          /\ call.spec \in Specs /\ call.sigmas \in Schedules /\ call.state \in States
      BY CallFact
    <3>2. /\ Len(call.snapshot.history) + call.left <= call.spec.requested_transitions
          /\ call.spec.requested_transitions = Len(call.sigmas) - 1 - call.spec.scheduler_index
          /\ Len(call.sigmas) <= MaxSigmas
      BY DEF ControllerInv, CallInv, ValidSpec, ValidSigmas
    <3>3. call.left \in 0 .. MaxSigmas
      BY <3>1, <3>2, MaxSigmasAssumption, SMTT(30)
    <3> QED
      BY <3>1, <3>3 DEF SnapshotsWith
  <2>2. \A s \in snapshots : s.spec \in Specs /\ s.status \in {"interrupted", "completed"}
    BY DEF ControllerInv, SnapshotsInv, TellsOf, ResultsInv, Results, SnapshotsWith
  <2>3. \A r \in results : r.sigmas \in Schedules /\ r.state \in States
    BY DEF ControllerInv, ResultsInv, Results
  <2> QED
    BY <2>1, <2>2, <2>3 DEF TypeOK, ControllerInv
<1> QED
  BY <1>1, ControllerInit, ControllerStep, PTL DEF Spec

(* A call that returns has a schedule that fits a list of a canonical      *)
(* projection, and its history is no longer; nothing else is needed to     *)
(* write the snapshot and to settle it, since its counts are those of its  *)
(* own transitions.                                                        *)
Evident(r) ==
    LET s == r.snapshot
    IN  /\ CanSerialize(s, s.spec)
        /\ BuildableReceipt(ReceiptFor(s))
        /\ CanAttach(s, s.spec, ReceiptFor(s))

LEMMA FinishedIsEvident ==
    ASSUME ControllerInv, Finish
    PROVE  Evident([state |-> call.state, sigmas |-> call.sigmas,
                    snapshot |-> Finished(call)])
<1> DEFINE s == Finished(call)
           h == s.history
           n == Len(h)
           spec == call.spec
           receipt == ReceiptFor(s)
<1>1. /\ s \in SnapshotsWith({"interrupted", "completed"})
      /\ s.spec = spec /\ h = call.snapshot.history
      /\ (s.status = "completed") <=> (n = spec.requested_transitions)
      /\ h # << >>
  BY FinishedFact
<1>2. /\ call # NoCall /\ call.left = 0 /\ Len(call.sigmas) <= MaxCollection
  BY DEF Finish, HasFingerprint, CanonicalList
<1>3. /\ h \in Seq(Steps) /\ n \in Nat /\ Len(call.sigmas) \in Nat
      /\ spec.requested_transitions \in Nat /\ spec.scheduler_index \in Nat
  BY <1>1, <1>2, CallFact
<1>4. /\ n + call.left <= spec.requested_transitions
      /\ spec.requested_transitions = Len(call.sigmas) - 1 - spec.scheduler_index
      /\ spec.requested_model_evaluations = spec.requested_transitions
  BY <1>1, <1>2 DEF ControllerInv, CallInv, ValidSpec
<1>5. EffectiveTransitions(h) = n /\ EffectiveEvaluations(h) = n
  BY <1>3, EvaluationsFact DEF EffectiveTransitions
<1>6. n > 0
  BY <1>1, <1>3
<1>7. s.receipt = NoReceipt /\ s.status \in {"interrupted", "completed"}
  BY <1>1 DEF SnapshotsWith
<1> HIDE DEF s, h, n, spec
<1>8. /\ n <= spec.requested_transitions /\ spec.requested_transitions > 0
      /\ spec.requested_transitions + 1 <= MaxCollection /\ n <= MaxCollection
  BY <1>2, <1>3, <1>4, <1>6, MaxCollectionAssumption
<1>9. ValidLifecycle(s, spec)
  BY <1>1, <1>4, <1>5, <1>7 DEF ValidLifecycle, h
<1>10. /\ receipt.sampler = spec.sampler /\ receipt.rng = spec.rng
       /\ receipt.requested_transitions = spec.requested_transitions
       /\ receipt.requested_model_evaluations = spec.requested_transitions
       /\ receipt.effective_transitions = n
       /\ receipt.effective_model_evaluations = n
       /\ receipt.status = IF s.status = "completed" THEN "succeeded" ELSE "interrupted"
  BY <1>1, <1>4, <1>5, <1>7 DEF ReceiptFor, ExpectedReceiptStatus, h
<1> HIDE DEF receipt
<1>11. CanSerialize(s, spec)
  BY <1>1, <1>8, <1>9 DEF CanSerialize, MatchesSpec, CanonicalList, h, n
<1>12. BuildableReceipt(receipt)
  BY <1>1, <1>3, <1>8, <1>10 DEF BuildableReceipt, ValidReceipt, CountsAgree, HasArtifact
<1>13. CanAttach(s, spec, receipt)
  BY <1>1, <1>4, <1>5, <1>7, <1>9, <1>10
     DEF CanAttach, MatchesSpec, MayBind, ReceiptUnbound, ExpectedReceiptStatus, h
<1> QED
  BY <1>1, <1>11, <1>12, <1>13 DEF Evident, s, receipt

(* What a call returns can be written, and settled with a receipt that can *)
(* be built: the controller returns nothing of a schedule that is too long *)
(* for its fingerprint, although it carries it out (_schedule_fingerprint).*)
THEOREM ResultsAreAlwaysEvidence == Spec => []ResultsAreEvidence
<1>1. Init => ResultsAreEvidence
  BY DEF Init, ResultsAreEvidence
<1>2. ControllerInv /\ ResultsAreEvidence /\ [Next]_vars => ResultsAreEvidence'
  <2> SUFFICES ASSUME ControllerInv, ResultsAreEvidence, [Next]_vars
               PROVE  ResultsAreEvidence'
    OBVIOUS
  <2>1. \A r \in results : Evident(r)
    BY DEF ResultsAreEvidence, Evident
  <2>2. \A r \in results' : Evident(r)
    <3>1. CASE Finish
      <4>1. results' = results \cup {[state |-> call.state, sigmas |-> call.sigmas,
                                      snapshot |-> Finished(call)]}
        BY <3>1 DEF Finish
      <4> QED
        BY <2>1, <3>1, <4>1, FinishedIsEvident
    <3>2. CASE ~Finish
      <4>1. results' = results
        BY <3>2 DEF Next, vars, Start, Transition, ModelFails, ModelWrites,
                    FingerprintFails, Settle, OutsideWrite
      <4> QED
        BY <2>1, <4>1
    <3> QED
      BY <3>1, <3>2
  <2> QED
    BY <2>2 DEF ResultsAreEvidence, Evident
<1> QED
  BY <1>1, <1>2, ControllerInit, ControllerStep, PTL DEF Spec

-----------------------------------------------------------------------------
(***************************************************************************)
(* The refinement: a call happens at once when its result is returned; all *)
(* its earlier steps are stuttering.                                       *)
(***************************************************************************)
Runs == {RunOf(r) : r \in results}

(* A path goes on along the schedule.                                      *)
LEMMA PathFact ==
    ASSUME NEW g \in Seq(Steps), NEW h \in Seq(Steps), NEW first \in Nat,
           NEW sigmas \in Seq(Nat), Len(g) <= Len(h),
           \A i \in 1 .. Len(g) : g[i] = h[i],
           \A i \in Len(g) + 1 .. Len(h) :
               h[i].sigmas = <<sigmas[first + i], sigmas[first + i + 1]>>
    PROVE  Taken(g) \o Promise!PathOf(sigmas, first + Len(g), Len(h) - Len(g)) = Taken(h)
<1> DEFINE m == Len(g)
           n == Len(h)
           path == Promise!PathOf(sigmas, first + m, n - m)
<1>1. m \in Nat /\ n \in Nat /\ n - m \in Nat
  OBVIOUS
<1>2. /\ Taken(g) \in Seq(Nat \X Nat) /\ Taken(h) \in Seq(Nat \X Nat)
      /\ Len(Taken(g)) = m /\ Len(Taken(h)) = n
  BY TakenFact
<1>3. ASSUME NEW i \in 1 .. n - m PROVE path[i] = Taken(h)[m + i] /\ path[i] \in Nat \X Nat
  <2>1. m + i \in m + 1 .. n /\ m + i \in 1 .. n /\ (first + m) + i = first + (m + i)
        /\ (first + m) + i + 1 = first + (m + i) + 1
    BY <1>1
  <2>2. path[i] = <<sigmas[(first + m) + i], sigmas[(first + m) + i + 1]>>
    BY DEF Promise!PathOf
  <2>3. Taken(h)[m + i] = h[m + i].sigmas
    BY <2>1 DEF Taken
  <2>4. h[m + i].sigmas = <<sigmas[first + (m + i)], sigmas[first + (m + i) + 1]>>
    BY <2>1
  <2>5. Taken(h)[m + i] \in Nat \X Nat
    BY <1>2, <2>1, ElementFact
  <2> HIDE DEF path, m, n
  <2> QED
    BY <2>1, <2>2, <2>3, <2>4, <2>5
<1>4. path \in Seq(Nat \X Nat) /\ Len(path) = n - m
  <2> DEFINE k == n - m
  <2>1. path = [i \in 1 .. k |-> path[i]]
    BY DEF Promise!PathOf
  <2>2. k \in Nat /\ \A i \in 1 .. k : path[i] \in Nat \X Nat
    BY <1>1, <1>3
  <2> HIDE DEF path, k
  <2>3. path \in [1 .. k -> Nat \X Nat]
    BY <2>1, <2>2
  <2>4. path \in Seq(Nat \X Nat) /\ Len(path) = k
    BY <2>2, <2>3
  <2> QED
    BY <2>4 DEF k
<1> DEFINE whole == Taken(g) \o path
<1> HIDE DEF path
<1>5. /\ whole \in Seq(Nat \X Nat) /\ Len(whole) = n
      /\ \A i \in 1 .. n : whole[i] = IF i <= m THEN Taken(g)[i] ELSE path[i - m]
  <2> HIDE DEF m, n
  <2>1. /\ whole \in Seq(Nat \X Nat) /\ Len(whole) = m + (n - m)
        /\ \A i \in 1 .. m + (n - m) :
              whole[i] = IF i <= m THEN Taken(g)[i] ELSE path[i - m]
    <3> DEFINE t == Taken(g)
    <3> HIDE DEF path
    <3>1. t \in Seq(Nat \X Nat) /\ path \in Seq(Nat \X Nat) /\ Len(t) = m /\ Len(path) = n - m
      BY <1>2, <1>4
    <3> HIDE DEF t
    <3>2. /\ t \o path \in Seq(Nat \X Nat) /\ Len(t \o path) = Len(t) + Len(path)
          /\ \A i \in 1 .. Len(t) + Len(path) :
                (t \o path)[i] = IF i <= Len(t) THEN t[i] ELSE path[i - Len(t)]
      BY <3>1, ConcatProperties
    <3> QED
      BY <3>1, <3>2 DEF t
  <2>2. m + (n - m) = n
    BY <1>1
  <2> HIDE DEF whole, m, n
  <2> QED
    BY <2>1, <2>2
<1> HIDE DEF whole
<1>6. ASSUME NEW i \in 1 .. n PROVE whole[i] = Taken(h)[i]
  <2>1. CASE i <= m
    <3>1. i \in 1 .. m
      BY <1>1, <2>1
    <3>2. Taken(g)[i] = g[i].sigmas /\ Taken(h)[i] = h[i].sigmas /\ g[i] = h[i]
      BY <3>1 DEF Taken
    <3> QED
      BY <1>5, <2>1, <3>2
  <2>2. CASE ~(i <= m)
    <3>1. i - m \in 1 .. n - m /\ m + (i - m) = i
      BY <1>1, <2>2
    <3>2. path[i - m] = Taken(h)[m + (i - m)]
      BY <1>3, <3>1
    <3>3. path[i - m] = Taken(h)[i]
      BY <3>1, <3>2
    <3> QED
      BY <1>5, <2>2, <3>3
  <2> QED
    BY <2>1, <2>2
<1>7. whole = Taken(h)
  BY <1>2, <1>5, <1>6, SameSequence
<1> QED
  BY <1>7 DEF whole, path, m, n

(* What a call has done since it began is one atomic step of the run it    *)
(* goes on with: g is what that run had done before.                       *)
LEMMA ContinuedFact ==
    ASSUME ControllerInv, Finish, NEW g \in Seq(Steps), NEW m \in Nat, m = Len(g),
           m < Len(call.snapshot.history), StepsFrom(call, m),
           \A i \in 1 .. m : g[i] = call.snapshot.history[i]
    PROVE  LET h == call.snapshot.history
               run == [request |-> call.spec, start |-> h[1].input, path |-> Taken(g),
                       completed |-> FALSE]
               r == [state |-> call.state, sigmas |-> call.sigmas,
                     snapshot |-> Finished(call)]
               n == Len(h) - m
           IN  /\ n \in 1 .. Promise!Left(run)
               /\ RunOf(r) = Promise!Continued(run, call.sigmas, n)
               /\ Promise!End(Promise!Continued(run, call.sigmas, n)) = call.state
<1> DEFINE h == call.snapshot.history
           run == [request |-> call.spec, start |-> h[1].input, path |-> Taken(g),
                   completed |-> FALSE]
           s == Finished(call)
           r == [state |-> call.state, sigmas |-> call.sigmas, snapshot |-> s]
           n == Len(h) - m
           requested == call.spec.requested_transitions
           path == Taken(g) \o Promise!PathOf(call.sigmas, call.spec.scheduler_index + m, n)
<1>1. /\ call # NoCall /\ h \in Seq(Steps) /\ Len(h) \in Nat
      /\ call.spec.scheduler_index \in Nat /\ call.sigmas \in Seq(Nat)
      /\ requested \in Nat
  BY CallFact DEF Finish
<1>2. s.spec = call.spec /\ s.history = h
      /\ ((s.status = "completed") <=> (Len(h) = requested))
  BY FinishedFact
<1>3. Len(h) <= requested /\ LeadsTo(h, call.state) /\ h # << >>
  <2>1. Len(h) + call.left <= requested /\ call.left = 0
    BY <1>1 DEF ControllerInv, CallInv, Finish
  <2> QED
    BY <1>1, <2>1, FinishedFact DEF ControllerInv, CallInv
<1>4. Len(Taken(g)) = m /\ m < Len(h)
  BY TakenFact
<1>5. path = Taken(h)
  <2> DEFINE first == call.spec.scheduler_index
  <2>1. \A i \in m + 1 .. Len(h) :
           h[i].sigmas = <<call.sigmas[first + i], call.sigmas[first + i + 1]>>
    BY DEF StepsFrom
  <2>2. (\A i \in 1 .. m : g[i] = h[i]) /\ m <= Len(h) /\ first \in Nat
    BY <1>1, <1>4
  <2> HIDE DEF h, first
  <2>3. Taken(g) \o Promise!PathOf(call.sigmas, first + m, Len(h) - m) = Taken(h)
    BY <1>1, <2>1, <2>2, PathFact
  <2> QED
    BY <2>3 DEF first
<1>6. Promise!Left(run) = requested - m /\ n \in 1 .. requested - m
      /\ ((n = requested - m) <=> (Len(h) = requested))
  <2>1. Promise!Left(run) = requested - m
    BY <1>4 DEF Promise!Left
  <2> HIDE DEF run, requested, h
  <2>2. n \in 1 .. requested - m /\ ((n = requested - m) <=> (Len(h) = requested))
    BY <1>1, <1>3, <1>4
  <2> QED
    BY <2>1, <2>2
<1>7. Promise!Continued(run, call.sigmas, n) =
         [request |-> call.spec, start |-> h[1].input, path |-> path,
          completed |-> n = requested - m]
  <2>1. Promise!Left(run) = requested - m
    BY <1>6
  <2>2. run.path = Taken(g) /\ run.request = call.spec /\ run.start = h[1].input
    OBVIOUS
  <2>3. \A x, y : [run EXCEPT !.path = x, !.completed = y] =
                      [request |-> call.spec, start |-> h[1].input, path |-> x,
                       completed |-> y]
    <3> SUFFICES ASSUME NEW x, NEW y
                 PROVE  [run EXCEPT !.path = x, !.completed = y] =
                          [request |-> call.spec, start |-> h[1].input, path |-> x,
                           completed |-> y]
      OBVIOUS
    <3> DEFINE t == [run EXCEPT !.path = x, !.completed = y]
    <3> HIDE DEF h
    <3>1. t \in [request : {call.spec}, start : {h[1].input}, path : {x}, completed : {y}]
      OBVIOUS
    <3> HIDE DEF t
    <3>2. t = [request |-> call.spec, start |-> h[1].input, path |-> x, completed |-> y]
      BY <3>1
    <3> QED
      BY <3>2 DEF t
  <2> HIDE DEF n, requested, h, run
  <2> DEFINE y == (n = requested - m)
  <2>4. Promise!Continued(run, call.sigmas, n) = [run EXCEPT !.path = path, !.completed = y]
    BY <1>4, <2>1, <2>2 DEF Promise!Continued
  <2> HIDE DEF path, y
  <2>5. [run EXCEPT !.path = path, !.completed = y] =
           [request |-> call.spec, start |-> h[1].input, path |-> path, completed |-> y]
    BY <2>3
  <2> QED
    BY <2>4, <2>5 DEF y
<1>8. RunOf(r) = [request |-> call.spec, start |-> h[1].input, path |-> Taken(h),
                  completed |-> s.status = "completed"]
  <2>1. r.snapshot = s
    OBVIOUS
  <2> HIDE DEF r, s, h
  <2> QED
    BY <1>2, <2>1 DEF RunOf, Taken
<1>9. (s.status = "completed") = (n = requested - m)
  <2> HIDE DEF n, s, requested, h
  <2> QED
    BY <1>2, <1>6
<1>10. RunOf(r) = Promise!Continued(run, call.sigmas, n)
  <2> HIDE DEF n, r, s, requested, h, path, run
  <2> QED
    BY <1>5, <1>7, <1>8, <1>9
<1>11. Promise!End(Promise!Continued(run, call.sigmas, n)) = call.state
  <2>1. call.state = h[1].input \o Taken(h)
    BY <1>3 DEF LeadsTo
  <2> HIDE DEF n, run, requested, h, path
  <2> QED
    BY <1>5, <1>7, <2>1 DEF Promise!End
<1> HIDE DEF h, run, r, n
<1>12. n \in 1 .. Promise!Left(run)
  BY <1>6
<1> QED
  BY <1>10, <1>11, <1>12 DEF h, run, r, n

LEMMA FitsFact ==
    ASSUME ControllerInv, call # NoCall
    PROVE  Promise!Fits(call.sigmas, call.spec)
<1>1. /\ Len(call.sigmas) \in Nat /\ call.spec.scheduler_index \in Nat
      /\ call.spec.requested_transitions \in Nat
  BY CallFact
<1>2. /\ call.spec.requested_transitions = Len(call.sigmas) - 1 - call.spec.scheduler_index
      /\ \A i \in 1 .. Len(call.sigmas) - 1 : call.sigmas[i] > call.sigmas[i + 1]
      /\ call.sigmas[Len(call.sigmas)] = 0
  BY DEF ControllerInv, CallInv, ValidSpec, ValidSigmas
<1>3. Len(call.sigmas) = call.spec.scheduler_index + call.spec.requested_transitions + 1
  BY <1>1, <1>2
<1> QED
  BY <1>2, <1>3 DEF Promise!Fits

LEMMA FinishPerforms ==
    ASSUME ControllerInv, Finish
    PROVE  \E tensor \in latents :
              \E request \in Specs, sigmas \in Schedules :
                 Promise!Perform(request, tensor, sigmas)
<1> DEFINE h == call.snapshot.history
           r == [state |-> call.state, sigmas |-> call.sigmas, snapshot |-> Finished(call)]
<1>1. /\ call # NoCall /\ call.left = 0 /\ h \in Seq(Steps)
      /\ call.spec \in Specs /\ call.sigmas \in Schedules
  BY CallFact DEF Finish
<1>2. Promise!Fits(call.sigmas, call.spec)
  BY <1>1, FitsFact
<1>3. latents' = latents \cup {call.state} /\ results' = results \cup {r}
  BY DEF Finish
<1>4. Runs' = Runs \cup {RunOf(r)}
  BY <1>3 DEF Runs
<1>5. PICK m \in Nat : Began(call, m)
  BY <1>1 DEF ControllerInv, CallInv
<1>6. m < Len(h) /\ StepsFrom(call, m) /\ Len(h) \in Nat
  BY <1>1, <1>5 DEF Began
<1> HIDE DEF r
<1>7. ASSUME NEW g \in Seq(Steps), m = Len(g), \A i \in 1 .. m : g[i] = h[i],
             NEW tensor \in latents, NEW run,
             run = [request |-> call.spec, start |-> h[1].input, path |-> Taken(g),
                    completed |-> FALSE],
             run = Promise!Fresh(call.spec, tensor)
             \/ (run \in Runs /\ Promise!End(run) = tensor)
      PROVE  Promise!Perform(call.spec, tensor, call.sigmas)
  <2> DEFINE n == Len(h) - m
  <2>1. /\ n \in 1 .. Promise!Left(run)
        /\ RunOf(r) = Promise!Continued(run, call.sigmas, n)
        /\ Promise!End(Promise!Continued(run, call.sigmas, n)) = call.state
    BY <1>6, <1>7, ContinuedFact DEF r
  <2>2. run.request = call.spec /\ ~run.completed
    BY <1>7
  <2>3. run \in {Promise!Fresh(call.spec, tensor)}
               \cup {q \in Runs : q.request = call.spec /\ Promise!End(q) = tensor
                                 /\ ~q.completed}
    BY <1>7, <2>2
  <2>4. Runs' = Runs \cup {Promise!Continued(run, call.sigmas, n)}
    BY <1>4, <2>1
  <2>5. latents' = latents \cup {Promise!End(Promise!Continued(run, call.sigmas, n))}
    BY <1>3, <2>1
  <2> HIDE DEF n
  <2> QED
    BY <1>2, <2>1, <2>3, <2>4, <2>5 DEF Promise!Perform, Runs
<1>8. CASE m = 0
  <2>1. h # << >> /\ Origin(h, call.state) = h[1].input
    BY <1>1, <1>6, <1>8 DEF Origin
  <2>2. h[1].input \in latents
    BY <1>5, <1>8, <2>1 DEF Began
  <2>3. Promise!Fresh(call.spec, h[1].input) =
          [request |-> call.spec, start |-> h[1].input, path |-> Taken(<< >>),
           completed |-> FALSE]
    <3>1. Taken(<< >>) = << >>
      BY DEF Taken
    <3> QED
      BY <3>1 DEF Promise!Fresh
  <2>4. << >> \in Seq(Steps) /\ m = Len(<< >>) /\ \A i \in 1 .. m : << >>[i] = h[i]
    BY <1>8
  <2>5. Promise!Perform(call.spec, h[1].input, call.sigmas)
    <3> HIDE DEF h
    <3> QED
      BY <1>7, <2>2, <2>3, <2>4
  <2> QED
    BY <1>1, <2>2, <2>5
<1>9. CASE m # 0
  <2>1. PICK q \in results : TakesUp(call, m, q)
    BY <1>5, <1>9 DEF Began
  <2> DEFINE g == q.snapshot.history
  <2>2. /\ g # << >> /\ LeadsTo(g, q.state) /\ g \in Seq(Steps)
    BY DEF ControllerInv, ResultsInv, Results, SnapshotsWith
  <2>3. /\ q.snapshot.spec = call.spec /\ q.snapshot.status = "interrupted"
        /\ Len(g) = m /\ (\A i \in 1 .. m : g[i] = h[i]) /\ q.state \in latents
    BY <2>1 DEF TakesUp
  <2>4. g[1] = h[1]
    BY <1>9, <2>3
  <2>5. RunOf(q) = [request |-> call.spec, start |-> h[1].input, path |-> Taken(g),
                    completed |-> FALSE]
    <3>1. (q.snapshot.status = "completed") = FALSE
      BY <2>3
    <3>2. RunOf(q) = [request |-> q.snapshot.spec, start |-> g[1].input, path |-> Taken(g),
                      completed |-> (q.snapshot.status = "completed")]
      BY DEF RunOf, Taken
    <3> HIDE DEF g, h
    <3> QED
      BY <2>3, <2>4, <3>1, <3>2
  <2>6. RunOf(q) \in Runs
    BY DEF Runs
  <2>7. Promise!End(RunOf(q)) = q.state
    <3>1. q.state = h[1].input \o Taken(g)
      BY <2>2, <2>4 DEF LeadsTo
    <3> HIDE DEF g, h
    <3> QED
      BY <2>5, <3>1 DEF Promise!End
  <2>8. Promise!Perform(call.spec, q.state, call.sigmas)
    <3> HIDE DEF g, h
    <3> QED
      BY <1>7, <2>2, <2>3, <2>5, <2>6, <2>7
  <2> QED
    BY <1>1, <2>3, <2>8
<1> QED
  BY <1>8, <1>9

LEMMA PromiseStep ==
    ControllerInv /\ [Next]_vars => [Promise!Next]_<<latents, Runs>>
<1> SUFFICES ASSUME ControllerInv, [Next]_vars PROVE [Promise!Next]_<<latents, Runs>>
  OBVIOUS
<1>1. results' = results => Runs' = Runs
  BY DEF Runs
<1>2. ASSUME NEW state \in latents, WriteInto(state), results' = results
      PROVE  Promise!Next
  <2>1. Promise!Spoil(state)
    BY <1>1, <1>2 DEF Promise!Spoil, WriteInto, OverwrittenState, Runs
  <2> QED
    BY <2>1 DEF Promise!Next
<1>3. CASE Finish
  BY <1>3, FinishPerforms DEF Promise!Next
<1>4. CASE ModelWrites
  <2>1. call.owned => call.state \in latents
    BY <1>4 DEF ModelWrites, ControllerInv, CallInv
  <2> QED
    BY <1>1, <1>2, <1>4, <2>1 DEF ModelWrites
<1>5. CASE \E state \in latents : OutsideWrite(state)
  BY <1>2, <1>5 DEF OutsideWrite
<1>6. CASE latents' = latents /\ results' = results
  BY <1>1, <1>6
<1>7. CASE Transition \/ ModelFails \/ FingerprintFails \/ UNCHANGED vars
  BY <1>6, <1>7 DEF Transition, ModelFails, FingerprintFails, vars
<1>8. CASE \E s \in snapshots : Settle(s)
  BY <1>6, <1>8 DEF Settle
<1>9. CASE \E spec \in Specs, sigmas \in Schedules, state \in latents,
             given \in snapshots \cup {NoSnapshot}, limit \in Limits :
               Start(spec, sigmas, state, given, limit)
  BY <1>6, <1>9 DEF Start
<1> QED
  BY <1>3, <1>4, <1>5, <1>7, <1>8, <1>9 DEF Next

(* The loop, its snapshots, the failures inside of it, retries from old    *)
(* snapshots and outside writes between calls implement atomic calls:      *)
(* whatever happens, a result is a run that did each of its transitions    *)
(* once and in order (execute_deterministic_flow_euler).                   *)
THEOREM ControllerKeepsPromise == Spec => KeepsPromise
<1>1. Init => Promise!Init
  BY DEF Init, Promise!Init
<1> QED
  BY <1>1, ControllerInit, ControllerStep, PromiseStep, PTL
     DEF Spec, KeepsPromise, Promise!Spec, Runs
=============================================================================

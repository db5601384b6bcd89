-------------------------------- MODULE MCH4 --------------------------------
(* One instance for the harness and for the observer inside its host, which *)
(* meet in H4Row: part says which of them this behavior is about.           *)
EXTENDS H4Harness

CONSTANTS Observers, Kinds, CheckpointEvery, MaxCalls, MaxWriteFaults, Original, Torn, None

VARIABLES part, registry, method, status, calls, active, file, prompt, made, observed, faults

(* The observer's marks are no observers, and its bounds are numbers.       *)
ASSUME ObserverAssumption ==
    /\ Original \notin Observers /\ None \notin Observers /\ Original # None
    /\ MaxCalls \in Nat /\ MaxWriteFaults \in Nat /\ CheckpointEvery \in Nat \ {0}

Observer == INSTANCE DispatchObserver WITH row <- observed

MCAsked(rows, bf16, artifact, image) ==
    [rows |-> rows, file |-> [r \in TurboRows \cup {"B-BF16", "B-INT8"} |->
                                IF r = "B-BF16" THEN bf16 ELSE "published"],
     artifact |-> artifact, source |-> "publisher-full", image |-> image,
     tool |-> image, allowed |-> TRUE, preflight |-> FALSE]

MCRequests ==
    {MCAsked(<<"B-BF16", "B-INT8">>, f, "none", FALSE) : f \in {"published", "other"}}
    \cup {MCAsked(<<"R4-544">>, "published", "R4-544", i) : i \in BOOLEAN}
    \cup {[MCAsked(<<"T4-768">>, "published", "T4-768", FALSE) EXCEPT !.preflight = TRUE],
          [MCAsked(<<"T4-768">>, "published", "T4-768", FALSE) EXCEPT !.allowed = FALSE]}

MCOutputs == {{"a"}, {"a", "b"}}

observer == <<registry, method, status, calls, active, file, prompt, made, observed, faults>>
MCvars == <<vars, observer, part>>

MCInit ==
    /\ Init /\ Observer!Init
    /\ \/ part = "harness"
       \/ part = "observer" /\ ~asked.allowed

HarnessStep == part = "harness" /\ Next /\ UNCHANGED <<observer, part>>
HarnessMain == part = "harness" /\ Harness /\ UNCHANGED <<observer, part>>
ObserverStep == part = "observer" /\ Observer!Next /\ UNCHANGED <<vars, part>>

MCSpec == MCInit /\ [][HarnessStep \/ ObserverStep]_MCvars /\ WF_MCvars(HarnessMain)

(* A trace a row accepts is the complete one of its last prompt             *)
(* (_read_dispatch_trace).                                                  *)
AcceptedTraceIsComplete == Observer!AcceptedTraceIsComplete

(* After a good prompt the next one can observe (install), and no failed    *)
(* one has left a hook that a later observer puts its own on top of         *)
(* (_arm_registry).                                                         *)
NextPromptCanObserve == Observer!NextPromptCanObserve /\ Observer!HooksAreNotStacked

(* Harness and observer both run rows as H4Row says, and a row the harness  *)
(* began comes to an end, since all its waits have deadlines (_run_rows).   *)
RowsRunAsPromised == RunsRows /\ Observer!ObservesRows
=============================================================================

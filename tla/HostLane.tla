------------------------------- MODULE HostLane -------------------------------
(***************************************************************************)
(* One lane of scripts/run_comfyui_e2e.py: the driver stages a run         *)
(* directory, starts a ComfyUI host on a port it found free, waits until   *)
(* the host answers, submits every case of the lane twice and compares the *)
(* two verified summaries, then stops the host, waits for its port, writes *)
(* the evidence and removes the directory.  run, run_conditioning and      *)
(* run_minimax_h3 differ in their cases only.                              *)
(*                                                                         *)
(* The host, its port and the other programs of the machine move on their  *)
(* own: the host may answer late or not at all, refuse, fail or finish a   *)
(* prompt, and exit at any time; the port may be taken before the host     *)
(* binds it and stay busy after the host is gone.  Whoever else holds the  *)
(* port does not answer as a ComfyUI host.                                 *)
(***************************************************************************)
EXTENDS Naturals, Sequences

CONSTANTS
    Lane,       \* the kind of each case: a sequence over Kinds
    Summaries,  \* what verifying a prompt's history can yield
    Wrong,      \* a history whose verification raises
    Nothing,    \* no summary, no prompt
    MaxPolls    \* the iterations a deadline leaves to a wait, at most

(***************************************************************************)
(* A case is expected to run, to fail while it runs, or to be refused when *)
(* it is submitted.                                                        *)
(***************************************************************************)
Kinds == {"runs", "fails", "refused"}

ASSUME LaneAssumption == Lane \in Seq(Kinds) /\ Lane # << >>
ASSUME PollsAssumption == MaxPolls \in Nat \ {0}
ASSUME SummariesAssumption == Wrong \notin Summaries /\ Nothing \notin Summaries

Cases == DOMAIN Lane
Prompts == Cases \X {1, 2}

VARIABLES
    pc,         \* where the driver is
    polls,      \* the iterations of the wait it is in
    current,    \* the case and the attempt it is at
    first,      \* the verified summary of the first attempt
    recorded,   \* the cases whose repeat transition was accepted
    evidence,   \* what the evidence file says of the run directory
    dir,        \* the run directory
    proc,       \* the host process
    port,       \* who has the selected port
    prompts     \* what the host made of each submitted prompt

driver == <<pc, polls, current, first, recorded, evidence, dir>>
host == <<proc, port, prompts>>
vars == <<pc, polls, current, first, recorded, evidence, dir, proc, port, prompts>>

Outcomes == [status : {"completed", "error"}, summary : Summaries \cup {Wrong}]
Unknown == [status |-> "unknown", summary |-> Nothing]
Queued == [status |-> "queued", summary |-> Nothing]
Interrupted == [status |-> "error", summary |-> Wrong]

Reachable == proc = "alive" /\ port = "host"

SomeRecorded == recorded # {}       \* mutant: one accepted case is enough

Succeeded == recorded = Cases

Wanted == [runs |-> "completed", fails |-> "error"]

Goto(where) == pc' = where /\ polls' = 0

Init ==
    /\ pc = "stage"
    /\ polls = 0
    /\ current = <<1, 1>>
    /\ first = Nothing
    /\ recorded = {}
    /\ evidence = "none"
    /\ dir = "absent"
    /\ proc = "none"
    /\ port = "free"
    /\ prompts = [p \in Prompts |-> Unknown]

-----------------------------------------------------------------------------
(***************************************************************************)
(* The driver up to the finally block.  Whatever raises inside the try     *)
(* block goes to "terminate".                                              *)
(***************************************************************************)
Stage ==
    /\ pc = "stage"
    /\ dir' = "present"
    /\ Goto("start") \/ Goto("raised")
    /\ UNCHANGED <<current, first, recorded, evidence, host>>

Start ==
    /\ pc = "start"
    /\ \/ proc' = "alive" /\ Goto("readiness")
       \/ UNCHANGED proc /\ Goto("terminate")
    /\ UNCHANGED <<current, first, recorded, evidence, dir, port, prompts>>

Fail ==
    /\ pc \in {"h1", "submit"}
    /\ Goto("terminate")
    /\ UNCHANGED <<current, first, recorded, evidence, dir, host>>

(***************************************************************************)
(* The head of a wait: its deadline, and in _readiness the process.        *)
(***************************************************************************)
ReadinessHead ==
    /\ pc = "readiness"
    /\ \/ polls < MaxPolls /\ proc = "alive" /\ pc' = "readiness_get" /\ UNCHANGED polls
       \/ Goto("terminate")
    /\ UNCHANGED <<current, first, recorded, evidence, dir, host>>

ReadinessGet ==
    /\ pc = "readiness_get"
    /\ \/ Reachable /\ Goto("h1")
       \/ pc' = "readiness" /\ polls' = polls + 1
    /\ UNCHANGED <<current, first, recorded, evidence, dir, host>>

RepeatH1 ==
    /\ pc = "h1"
    /\ Reachable
    /\ Goto("submit")
    /\ UNCHANGED <<current, first, recorded, evidence, dir, host>>

(***************************************************************************)
(* POST /prompt: the host queues the prompt, and the driver waits for its  *)
(* history unless the answer got lost.  A prompt that is to be refused and *)
(* is queued all the same fails the lane.                                  *)
(***************************************************************************)
Submit ==
    /\ pc = "submit"
    /\ Reachable
    /\ prompts' = [prompts EXCEPT ![current] = Queued]
    /\ \/ Lane[current[1]] # "refused" /\ Goto("history")
       \/ Goto("terminate")
    /\ UNCHANGED <<current, first, recorded, evidence, dir, proc, port>>

HistoryHead ==
    /\ pc = "history"
    /\ \/ polls < MaxPolls /\ pc' = "history_get" /\ UNCHANGED polls
       \/ Goto("terminate")
    /\ UNCHANGED <<current, first, recorded, evidence, dir, host>>

HistoryRepeatsUncounted ==          \* mutant: the wait has no deadline
    /\ pc = "history_get"
    /\ pc' = "history"
    /\ UNCHANGED <<polls, current, first, recorded, evidence, dir, host>>

HistoryRepeats ==
    /\ pc = "history_get"
    /\ pc' = "history"
    /\ polls' = polls + 1
    /\ UNCHANGED <<current, first, recorded, evidence, dir, host>>

Verified(summary) == summary # Wrong

(***************************************************************************)
(* execute_verified_host_repeat with the summary of the current attempt:   *)
(* the first attempt is kept and the repeat submitted; the repeat must     *)
(* give the same summary.                                                  *)
(***************************************************************************)
Repeated(summary) ==                \* mutant: a failed first attempt is retried
    /\ current' = <<current[1], 2>>
    /\ first' = summary
    /\ IF current[2] = 1 THEN Goto("submit") ELSE Goto("terminate")
    /\ UNCHANGED recorded

Attempted(summary) ==
    IF ~Verified(summary) THEN
        Goto("terminate") /\ UNCHANGED <<current, first, recorded>>
    ELSE IF current[2] = 1 THEN
        /\ first' = summary
        /\ current' = <<current[1], 2>>
        /\ Goto("submit")
        /\ UNCHANGED recorded
    ELSE IF summary # first THEN
        Goto("terminate") /\ UNCHANGED <<current, first, recorded>>
    ELSE
        /\ recorded' = recorded \cup {current[1]}
        /\ first' = Nothing
        /\ IF current[1] = Len(Lane)
             THEN Goto("terminate") /\ UNCHANGED current
             ELSE Goto("submit") /\ current' = <<current[1] + 1, 1>>

HistoryGet ==
    /\ pc = "history_get"
    /\ Reachable
    /\ prompts[current].status = Wanted[Lane[current[1]]]
    /\ Attempted(prompts[current].summary)
    /\ UNCHANGED <<evidence, dir, host>>

SubmitRefused ==
    /\ pc = "submit"
    /\ Reachable
    /\ Lane[current[1]] = "refused"
    /\ \E summary \in Summaries \cup {Wrong} : Attempted(summary)
    /\ UNCHANGED <<evidence, dir, host>>

-----------------------------------------------------------------------------
(***************************************************************************)
(* The finally block.  A step of it that raises skips the rest.            *)
(***************************************************************************)
Running == {p \in Prompts : prompts[p] = Queued}

Interrupt ==
    /\ pc = "terminate"
    /\ Goto(IF proc = "alive" THEN "signal" ELSE "port")
    /\ \/ UNCHANGED prompts
       \/ /\ Reachable
          /\ prompts' = [p \in Prompts |->
                IF p \in Running THEN Interrupted ELSE prompts[p]]
    /\ UNCHANGED <<current, first, recorded, evidence, dir, proc, port>>

(***************************************************************************)
(* A signal and a bounded wait: the process is gone, or the next, harder   *)
(* step follows.  A process that outlives SIGKILL or taskkill, or for      *)
(* which neither is available, makes the block raise.                      *)
(***************************************************************************)
AwaitExit ==
    /\ pc \in {"signal", "kill"}
    /\ proc = "exited"
    /\ Goto("port")
    /\ UNCHANGED <<current, first, recorded, evidence, dir, host>>

AwaitTimesOut ==
    /\ pc \in {"signal", "kill"}
    /\ \/ Goto("raised")
       \/ pc = "signal" /\ Goto("kill")
    /\ UNCHANGED <<current, first, recorded, evidence, dir, host>>

PortRelease ==
    /\ pc = "port"
    /\ \/ polls < MaxPolls /\ port = "free" /\ Goto("evidence")
       \/ polls < MaxPolls /\ port # "free" /\ polls' = polls + 1 /\ UNCHANGED pc
       \/ Goto("raised")
    /\ UNCHANGED <<current, first, recorded, evidence, dir, host>>

WriteEvidenceAndClean ==            \* mutant: every lane removes its directory
    /\ pc = "evidence"
    /\ evidence' = IF Succeeded THEN "removed" ELSE "retained_failure_artifacts"
    /\ Goto("remove")
    /\ UNCHANGED <<current, first, recorded, dir, host>>

WriteEvidence ==
    /\ pc = "evidence"
    /\ evidence' = IF Succeeded THEN "removed" ELSE "retained_failure_artifacts"
    /\ Goto(IF Succeeded THEN "remove" ELSE "raised")
    /\ UNCHANGED <<current, first, recorded, dir, host>>

EvidenceFails ==
    /\ pc = "evidence"
    /\ Goto("raised")
    /\ UNCHANGED <<current, first, recorded, evidence, dir, host>>

RemoveRun ==
    /\ pc = "remove"
    /\ \/ dir' = "removed" /\ Goto("returned")
       \/ dir' = "partial" /\ Goto("raised")
    /\ UNCHANGED <<current, first, recorded, evidence, host>>

-----------------------------------------------------------------------------
(***************************************************************************)
(* The host and its machine.                                               *)
(***************************************************************************)
HostBinds ==
    /\ proc = "alive"
    /\ port = "free"
    /\ port' = "host"
    /\ UNCHANGED <<driver, proc, prompts>>

HostFinishes(p) ==
    /\ Reachable
    /\ p \in Running
    /\ \E outcome \in Outcomes : prompts' = [prompts EXCEPT ![p] = outcome]
    /\ UNCHANGED <<driver, proc, port>>

HostExits ==
    /\ proc = "alive"
    /\ proc' = "exited"
    /\ port' \in IF port = "host" THEN {"free", "lingering"} ELSE {port}
    /\ UNCHANGED <<driver, prompts>>

OthersUsePort ==
    /\ \/ port = "free" /\ port' = "other"
       \/ port \in {"other", "lingering"} /\ port' = "free"
    /\ UNCHANGED <<driver, proc, prompts>>

Terminated == pc \in {"returned", "raised"} /\ UNCHANGED vars

Driver ==
    \/ Stage \/ Start \/ Fail
    \/ ReadinessHead \/ ReadinessGet \/ RepeatH1
    \/ Submit \/ SubmitRefused \/ HistoryHead \/ HistoryRepeats \/ HistoryGet
    \/ Interrupt \/ AwaitExit \/ AwaitTimesOut \/ PortRelease
    \/ WriteEvidence \/ EvidenceFails \/ RemoveRun

Machine ==
    \/ HostBinds
    \/ \E p \in Prompts : HostFinishes(p)
    \/ HostExits
    \/ OthersUsePort

Next == Driver \/ Machine \/ Terminated

(***************************************************************************)
(* The driver is one thread whose requests and waits all time out; nothing *)
(* is assumed of the host or of its machine.                               *)
(***************************************************************************)
Spec == Init /\ [][Next]_vars /\ WF_vars(Driver)

-----------------------------------------------------------------------------
(***************************************************************************)
(* Every variable stays in its range.                                      *)
(***************************************************************************)
TypeOK ==
    /\ pc \in {"stage", "start", "readiness", "readiness_get", "h1", "submit",
               "history", "history_get", "terminate", "signal", "kill", "port",
               "evidence", "remove", "returned", "raised"}
    /\ polls \in 0 .. MaxPolls
    /\ current \in Prompts
    /\ first \in Summaries \cup {Nothing}
    /\ recorded \subseteq Cases
    /\ evidence \in {"none", "removed", "retained_failure_artifacts"}
    /\ dir \in {"absent", "present", "removed", "partial"}
    /\ proc \in {"none", "alive", "exited"}
    /\ port \in {"free", "other", "host", "lingering"}
    /\ prompts \in [Prompts -> Outcomes \cup {Unknown, Queued}]

(***************************************************************************)
(* "A failed first attempt is never retried": the host sees a second       *)
(* attempt only after a first one that ended as its case expects, and the  *)
(* next case only after both agreed (execute_verified_host_repeat).        *)
(***************************************************************************)
EndedWell(p) ==
    IF Lane[p[1]] = "refused"
      THEN prompts[p] = Unknown
      ELSE /\ prompts[p].status = Wanted[Lane[p[1]]]
           /\ Verified(prompts[p].summary)

FirstAttemptDecides ==
    \A p \in Prompts : prompts[p] # Unknown =>
        /\ p[2] = 2 => EndedWell(<<p[1], 1>>)
        /\ \A c \in 1 .. p[1] - 1 :
            /\ EndedWell(<<c, 1>>)
            /\ prompts[<<c, 1>>] = prompts[<<c, 2>>]

(***************************************************************************)
(* A lane that returns, and so exits with zero, ran every case twice with  *)
(* the same outcome, left no host behind and removed what it staged.       *)
(***************************************************************************)
SuccessIsComplete ==
    pc = "returned" =>
        /\ \A p \in Prompts : EndedWell(p) /\ prompts[p] = prompts[<<p[1], 1>>]
        /\ proc = "exited" /\ port # "host"
        /\ dir = "removed" /\ evidence = "removed"

(***************************************************************************)
(* What a failed lane staged is still there to be looked at: nothing of    *)
(* the run directory goes before the lane succeeded, its host is gone and  *)
(* the evidence is written.                                                *)
(***************************************************************************)
ArtifactsSurviveFailure ==
    dir \in {"removed", "partial"} =>
        Succeeded /\ proc = "exited" /\ evidence = "removed"

(***************************************************************************)
(* Every lane returns or raises, whatever its host does.                   *)
(***************************************************************************)
LaneEnds == <>(pc \in {"returned", "raised"})

(***************************************************************************)
(* "A retry loop must ... fail immediately if the host exits": no wait     *)
(* begins another request after its host has exited.                       *)
(***************************************************************************)
WaitsStopWithHost ==
    [][proc = "exited" =>
        /\ pc = "readiness" => pc' # "readiness_get"
        /\ pc = "history" => pc' # "history_get"]_vars
=============================================================================

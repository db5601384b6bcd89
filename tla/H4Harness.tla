------------------------------ MODULE H4Harness ------------------------------
(***************************************************************************)
(* scripts/run_minimax_h3_h4_validation.py: the run of a list of rows in   *)
(* a host of its own.  A row is queued when the artifact it names is the   *)
(* published one; a queued row submits one prompt three times, while a     *)
(* thread samples the memory of the GPU, and compares the files of the     *)
(* second and the third.  However the rows end, the host is stopped, port  *)
(* and checkout are examined, and the run directory is removed or kept.    *)
(*                                                                         *)
(* A file of a model is known by what its hash is: "published", "reduced", *)
(* "local", "other", or "missing", or "invalid" when its header cannot be  *)
(* read.  A sample of the memory is the prompt that ran when it was read;  *)
(* asked.tool says whether the tool that reads it is there.                *)
(* Every wait of the harness has a deadline.                               *)
(***************************************************************************)
EXTENDS Naturals, Sequences, FiniteSets, Bags, SequencesExt

CONSTANTS
    Requests,   \* the arguments the harness is started with
    Outputs     \* the files a prompt can write, by content

(* Every row asked for has a file, be it a missing one.                    *)
ASSUME RequestsAssumption == \A a \in Requests : a.rows \in Seq(DOMAIN a.file)

VARIABLES
    asked,      \* the arguments
    phase,      \* where the harness is
    todo,       \* the rows left
    row,        \* the prompts of this row that are done, and how it ended
    files,      \* the files in the output directory, a bag
    seen,       \* what this row found there after each of its prompts
    samplers,   \* the memory sampler of each prompt of this row
    results,    \* the results of the rows
    failed,     \* run_failed
    host,       \* the process, and the code it exited with
    mutated,    \* is the checkout or an artifact other than before the run?
    closing,    \* what the end of the run found
    dir         \* the run directory

vars == <<asked, phase, todo, row, files, seen, samplers, results, failed, host,
          mutated, closing, dir>>

Prompts == 3
Tries == 1 .. Prompts       \* warm-up, first and repeat

-----------------------------------------------------------------------------
(* Which rows may be queued                                                *)

TurboRows == {"T4-768", "T8-544", "T4-544", "R4-544"}

(* The turbo artifacts the publisher offers in full: none for T4-544       *)
PublishedRows == {"T4-768", "T8-544", "R4-544"}

Readable(a, r) == a.file[r] # "invalid"

(* _artifact_observation of a file whose hash is expected                  *)
Expected(file) ==
    IF file = "missing" THEN "blocked"
    ELSE IF file = "published" THEN "accepted" ELSE "rejected"

(* classify_turbo_artifact                                                 *)
Classified(file, r, source) ==
    IF file = "missing" THEN "blocked"
    ELSE IF file = "local" \/ source = "local-modified" THEN "rejected"
    ELSE IF file = "reduced" \/ source = "kijai-reduced" THEN "blocked"
    ELSE IF r \notin PublishedRows THEN "blocked"
    ELSE Expected(file)

(* _row_artifact: one run has arguments for one turbo artifact.  A B row   *)
(* is judged by the file at a fixed path, while its prompt names the       *)
(* diffusion model of the arguments; they are one file here.               *)
Disposition(a, r) ==
    IF r \notin TurboRows THEN Expected(a.file[r])
    ELSE IF \E i, j \in DOMAIN a.rows : i # j /\ {a.rows[i], a.rows[j]} \subseteq TurboRows
    THEN "rejected"
    ELSE IF a.artifact = "none" THEN "blocked"
    ELSE IF a.artifact # r THEN "rejected"
    ELSE Classified(a.file[r], r, a.source)

(* _queueable_rows and _reference_image_preflight_reason                   *)
Queueable(a, r) ==
    Disposition(a, r) = "accepted" /\ (r = "R4-544" => a.image)

-----------------------------------------------------------------------------
NoSampler ==
    [thread |-> "none", reads |-> 0, stop |-> FALSE, samples |-> {}, told |-> {}]

Idle == [done |-> 0, ended |-> "idle"]

Init ==
    /\ asked \in Requests
    /\ phase = "asked"
    /\ todo = asked.rows
    /\ row = Idle
    /\ files = EmptyBag
    /\ seen = <<>>
    /\ samplers = [k \in Tries |-> NoSampler]
    /\ results = [r \in {} |-> {}]
    /\ failed = FALSE
    /\ host = [process |-> "none", code |-> "none"]
    /\ mutated = FALSE
    /\ closing = [r \in {} |-> {}]
    /\ dir = "none"

(* run: a missing consent, a protocol or a host of another revision, or an *)
(* unreadable header ends it before anything is made; --preflight-only     *)
(* reports and ends it.                                                    *)
Preflight ==
    /\ phase = "asked"
    /\ phase' = IF asked.allowed /\ \A i \in DOMAIN todo : Readable(asked, todo[i])
                THEN IF asked.preflight THEN "reporting" ELSE "accepted"
                ELSE "exit"
    /\ UNCHANGED <<asked, todo, row, files, seen, samplers, results, failed, host,
                   mutated, closing, dir>>

(* The run directory with the extension and the observer in it: a copy     *)
(* that fails ends the run and leaves what is there.                       *)
StageExtension ==
    /\ phase = "accepted"
    /\ dir' = "present"
    /\ phase' \in {"staged", "exit"}
    /\ UNCHANGED <<asked, todo, row, files, seen, samplers, results, failed, host,
                   mutated, closing>>

(* The host is started, answers, and has the version asked for, or not.    *)
StartHost ==
    /\ phase = "staged"
    /\ \/ /\ host' = [process |-> "up", code |-> "none"]
          /\ phase' \in {"rows", "stopping"} /\ failed' = (phase' # "rows")
       \/ UNCHANGED host /\ failed' = TRUE /\ phase' = "stopping"
    /\ UNCHANGED <<asked, todo, row, files, seen, samplers, results, mutated, closing, dir>>

HostExits ==
    /\ host.process = "up"
    /\ host' = [process |-> "gone", code |-> "none"]
    /\ UNCHANGED <<asked, phase, todo, row, files, seen, samplers, results, failed,
                   mutated, closing, dir>>

(* Somebody changed the checkout or an artifact meanwhile: nothing looks    *)
(* before the end.                                                         *)
Mutate ==
    /\ phase = "stopping" /\ ~mutated
    /\ mutated' = TRUE
    /\ UNCHANGED <<asked, phase, todo, row, files, seen, samplers, results, failed, host,
                   closing, dir>>

-----------------------------------------------------------------------------
(* The rows                                                                *)

Answer(r, result) == results' = [x \in DOMAIN results \cup {r} |->
                                    IF x = r THEN result ELSE results[x]]

(* A row that may not be queued is answered at once.                       *)
NotExecuted ==
    /\ phase = "rows" /\ row.ended # "no" /\ todo # <<>>
    /\ ~Queueable(asked, Head(todo))
    /\ Answer(Head(todo), [status |-> "not_executed"])
    /\ todo' = Tail(todo)
    /\ UNCHANGED <<asked, phase, row, files, seen, samplers, failed, host, mutated,
                   closing, dir>>

(* The image is staged, schedule and prompt are built.                     *)
BeginRow ==
    /\ phase = "rows" /\ row.ended # "no" /\ todo # <<>>
    /\ Queueable(asked, Head(todo))
    /\ row' = [done |-> 0, ended |-> "no"]
    /\ seen' = <<>>
    /\ samplers' = [k \in Tries |-> NoSampler]
    /\ UNCHANGED <<asked, phase, todo, files, results, failed, host, mutated, closing, dir>>

StageFails ==
    /\ phase = "rows" /\ row.ended # "no" /\ todo # <<>>
    /\ Queueable(asked, Head(todo)) /\ Head(todo) = "R4-544"
    /\ failed' = TRUE /\ phase' = "stopping"
    /\ UNCHANGED <<asked, todo, row, files, seen, samplers, results, host, mutated,
                   closing, dir>>

Current == row.done + 1

\* mutant: the samplers of a row share one list of samples
RecordIntoAll(k, sample) ==
    [j \in Tries |-> [samplers[j] EXCEPT !.samples = IF asked.tool THEN @ \cup {sample} ELSE @]]

(* _record: a reading is kept when the tool gave one.                      *)
Record(k, sample) == [samplers EXCEPT ![k].samples = IF asked.tool THEN @ \cup {sample} ELSE @]

(* _GpuMemorySampler.start: a first reading, then the thread               *)
StartSampler ==
    /\ phase = "rows" /\ row.ended = "no" /\ row.done < Prompts
    /\ samplers' = [Record(Current, Current) EXCEPT ![Current].thread = "waiting"]
    /\ phase' = "measuring"
    /\ UNCHANGED <<asked, todo, row, files, seen, results, failed, host, mutated, closing, dir>>

(* _poll, for every thread that is still alive: the reading begins ...     *)
Reading(k) ==
    /\ samplers[k].thread = "waiting" /\ ~samplers[k].stop
    /\ samplers' = [samplers EXCEPT ![k].thread = "reading", ![k].reads = Current]
    /\ UNCHANGED <<asked, phase, todo, row, files, seen, results, failed, host, mutated,
                   closing, dir>>

(* ... and is recorded, up to five seconds later.                          *)
Recorded(k) ==
    /\ samplers[k].thread = "reading"
    /\ samplers' = [Record(k, samplers[k].reads) EXCEPT
                       ![k].thread = IF samplers[k].stop THEN "none" ELSE "waiting",
                       ![k].reads = 0]
    /\ UNCHANGED <<asked, phase, todo, row, files, seen, results, failed, host, mutated,
                   closing, dir>>

(* _submit and _wait_history: the prompt is completed and has written its  *)
(* files, or a request fails, the prompt has an error, or time is up.      *)
PromptCompletes ==
    /\ phase = "measuring" /\ host.process = "up"
    /\ \E made \in Outputs : files' = files (+) SetToBag(made)
    /\ phase' = "submitted"
    /\ samplers' = [samplers EXCEPT ![Current].stop = TRUE]
    /\ UNCHANGED <<asked, todo, row, seen, results, failed, host, mutated, closing, dir>>

PromptFails ==
    /\ phase = "measuring"
    /\ failed' = TRUE
    /\ phase' = "joining"
    /\ samplers' = [samplers EXCEPT ![Current].stop = TRUE]
    /\ UNCHANGED <<asked, todo, row, files, seen, results, host, mutated, closing, dir>>

\* mutant: a prompt counts when it is submitted
FailedRowCounts == [row EXCEPT !.ended = "failed", !.done = @ + 1]

FailedRow == [row EXCEPT !.ended = "failed"]

(* stop: a thread that waits ends at once, one that reads is waited for,   *)
(* but not for as long as a reading may take; then a last reading and the  *)
(* projection.  The caller looks at the output directory.                  *)
StopSampler ==
    /\ phase \in {"submitted", "joining"}
    /\ samplers' = LET kept == Record(Current, Current)
                   IN [kept EXCEPT ![Current].told = kept[Current].samples,
                                   ![Current].thread = IF @ = "waiting" THEN "none" ELSE @]
    /\ IF phase = "submitted"
       THEN /\ seen' = Append(seen, files)
            /\ row' = [row EXCEPT !.done = @ + 1]
            /\ phase' = "rows"
       ELSE /\ row' = FailedRow
            /\ phase' = "stopping"
            /\ UNCHANGED seen
    /\ UNCHANGED <<asked, todo, files, results, failed, host, mutated, closing, dir>>

(* _new_output_fingerprints                                                *)
NewOutputs(k) == seen[k] (-) seen[k - 1]

(* The trace is read, and the row has its result.                          *)
FinishRow ==
    /\ phase = "rows" /\ row.ended = "no" /\ row.done = Prompts
    /\ \E trace \in {"valid", "unavailable"} :
          /\ row' = [row EXCEPT !.ended = trace]
          /\ Answer(Head(todo),
                    [status |-> "succeeded", trace |-> trace,
                     first |-> NewOutputs(2), repeat |-> NewOutputs(3),
                     stable |-> NewOutputs(2) = NewOutputs(3),
                     memory |-> [k \in Tries |-> samplers[k].told]])
    /\ todo' = Tail(todo)
    /\ UNCHANGED <<asked, phase, files, seen, samplers, failed, host, mutated, closing, dir>>

RowsDone ==
    /\ phase = "rows" /\ row.ended # "no" /\ todo = <<>>
    /\ phase' = "stopping"
    /\ UNCHANGED <<asked, todo, row, files, seen, samplers, results, failed, host,
                   mutated, closing, dir>>

-----------------------------------------------------------------------------
(* The end of the run                                                      *)

(* _terminate: the host has exited, or exits when it is asked to, or is    *)
(* killed, or survives; a call that raises counts as a failure.            *)
Terminate ==
    /\ phase = "stopping"
    /\ \/ /\ host.process = "none"
          /\ closing' = [termination |-> "failed"] /\ UNCHANGED <<host, failed>>
       \/ /\ host.process = "gone"
          /\ \E code \in {"zero", "nonzero"} : host' = [host EXCEPT !.code = code]
          /\ closing' = [termination |-> "graceful"] /\ UNCHANGED failed
       \/ /\ host.process = "up"
          /\ \E how \in {"graceful", "forced"}, code \in {"zero", "nonzero"} :
                /\ closing' = [termination |-> how]
                /\ host' = [process |-> "gone", code |-> code]
          /\ UNCHANGED failed
       \/ /\ host.process = "up"
          /\ closing' = [termination |-> "failed"]
          /\ failed' \in {failed, TRUE} /\ UNCHANGED host
    /\ phase' = "port"
    /\ UNCHANGED <<asked, todo, row, files, seen, samplers, results, mutated, dir>>

(* _port_release_receipt and _host_readback_projection: what they can find *)
Examine ==
    /\ phase = "port"
    /\ \E port \in {"pass", "fail"}, readback \in {"pass", "fail", "unavailable"} :
          /\ host.process = "up" => port = "fail"
          /\ readback = "pass" => host.process # "up" /\ ~mutated
          /\ readback = "fail" => host.process = "up" \/ mutated \/ port = "fail"
          /\ closing' = [termination |-> closing.termination, port |-> port,
                         readback |-> readback]
    /\ phase' = "removing"
    /\ UNCHANGED <<asked, todo, row, files, seen, samplers, results, failed, host,
                   mutated, dir>>

\* mutant: a run whose rows failed is removed like any other
SafeRemoveAlways ==
    closing.termination = "graceful" /\ closing.port = "pass" /\ closing.readback = "pass"

(* safe_remove                                                             *)
SafeRemove ==
    /\ ~failed
    /\ closing.termination = "graceful" /\ closing.port = "pass" /\ closing.readback = "pass"

(* _cleanup_projection                                                     *)
CleanupStatus(removed) ==
    IF /\ closing.termination = "graceful" /\ host.code # "nonzero"
       /\ closing.port = "pass" /\ removed /\ closing.readback = "pass"
    THEN "pass"
    ELSE IF closing.readback = "unavailable" THEN "unavailable" ELSE "fail"

(* _temp_root_receipt; a removal that fails leaves some of the directory.  *)
RemoveRun ==
    /\ phase = "removing"
    /\ dir' \in IF SafeRemove THEN {"removed", "partial"} ELSE {dir}
    /\ closing' = [termination |-> closing.termination, port |-> closing.port,
                   readback |-> closing.readback,
                   cleanup |-> CleanupStatus(dir' = "removed")]
    /\ phase' = "reporting"
    /\ UNCHANGED <<asked, todo, row, files, seen, samplers, results, failed, host, mutated>>

(* main: the evidence is written, if it can be, and printed.               *)
Report ==
    /\ phase = "reporting"
    /\ phase' = "exit"
    /\ UNCHANGED <<asked, todo, row, files, seen, samplers, results, failed, host,
                   mutated, closing, dir>>

Harness ==
    \/ Preflight \/ StageExtension \/ StartHost
    \/ NotExecuted \/ BeginRow \/ StageFails \/ StartSampler
    \/ PromptCompletes \/ PromptFails \/ StopSampler \/ FinishRow \/ RowsDone
    \/ Terminate \/ Examine \/ RemoveRun \/ Report

Next ==
    \/ Harness
    \/ \E k \in Tries : Reading(k) \/ Recorded(k)
    \/ HostExits \/ Mutate

(* Every wait of the harness has a deadline, so it always goes on.         *)
Spec == Init /\ [][Next]_vars /\ WF_vars(Harness)

-----------------------------------------------------------------------------
(* The run directory, with the log of the host and the traces, is touched  *)
(* only when nothing is left to explain: every row asked for has its       *)
(* answer, none failed, the host has gone by itself, and neither checkout  *)
(* nor artifacts changed (safe_remove, _temp_root_receipt).                *)
RunDirOutlivesTrouble ==
    dir \in {"removed", "partial"} =>
        /\ ~failed /\ ~mutated /\ host.process = "gone"
        /\ DOMAIN results = Range(asked.rows)
        /\ closing.cleanup = "pass" => dir = "removed"

(* The result of a row is about its own prompts: the files it compares are *)
(* those its second and third prompt wrote, whatever earlier prompts and   *)
(* rows left in the directory, and the memory told for a prompt was read   *)
(* while that prompt was measured, although the thread of an earlier one   *)
(* may outlive it (_new_output_fingerprints, _GpuMemorySampler.stop).      *)
RowTellsItsOwn ==
    \A r \in DOMAIN results :
        LET told == results[r]
        IN told.status = "succeeded" =>
            /\ Disposition(asked, r) = "accepted"
            /\ \E first, repeat \in Outputs :
                  /\ told.first = SetToBag(first) /\ told.repeat = SetToBag(repeat)
                  /\ told.stable <=> first = repeat
            /\ \A k \in Tries : told.memory[k] \subseteq {k}

(* The harness runs its rows as H4Row says.                                *)
Row == INSTANCE H4Row WITH done <- row.done, ended <- row.ended

RunsRows == Row!FairSpec
=============================================================================

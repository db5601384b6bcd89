--------------------------- MODULE DispatchObserver ---------------------------
(***************************************************************************)
(* scripts/h4_dispatch_observer.py inside the validation host, and the     *)
(* row of scripts/run_minimax_h3_h4_validation.py that uses it: the row    *)
(* submits the same prompt several times, every prompt runs the observer   *)
(* node, samples, and runs the finalizer node; all of them write one trace *)
(* file, which the row reads after the last prompt.                        *)
(*                                                                         *)
(* The observer replaces the registry's get_implementation by a hook and   *)
(* keeps one process-wide active state.  The trace is written in the       *)
(* middle of these steps, and a write may fail, leaving the old bytes or a *)
(* torn file.  The host executes one node at a time, so a node is a step.  *)
(* A row stops at its first failed prompt; the nodes are guarded without   *)
(* relying on that, so the host may be given more prompts afterwards.      *)
(***************************************************************************)
EXTENDS Naturals

CONSTANTS
    Observers,      \* the _TraceState objects that can exist at a time
    Kinds,          \* operation and attention dispatch, of listed operations
    Prompts,        \* the prompts of a row: warm-up, first and repeat
    CheckpointEvery,\* MAX_EVENTS, the calls between two checkpoints
    MaxCalls,       \* bound: the calls of each kind in a prompt
    MaxWriteFaults, \* bound: the failing writes of a host
    Original,       \* the registry's own get_implementation
    Torn,           \* the trace file after a write that failed half-way
    None

VARIABLES
    registry,   \* what get_implementation is: Original or an observer's hook
    method,     \* registry_method: what each observer will put back
    status,     \* NEW, ARMED or DISARMED
    calls,      \* the calls each observer recorded, by kind
    active,     \* _ACTIVE_STATE
    file,       \* the trace file
    prompt,     \* is a prompt between its observer and its finalizer node?
    made,       \* the dispatches of the current or last prompt, by kind
    row,        \* prompts that succeeded, and how the row ended
    faults      \* failing writes so far

hook == <<registry, method, status>>
vars == <<hook, calls, active, file, prompt, made, row, faults>>

NoCalls == [k \in Kinds |-> 0]

NewRow == [done |-> 0, ended |-> "no"]

Init ==
    /\ registry = Original
    /\ method = [o \in Observers |-> None]
    /\ status = [o \in Observers |-> "NEW"]
    /\ calls = [o \in Observers |-> NoCalls]
    /\ active = None
    /\ file = None
    /\ prompt = "idle"
    /\ made = NoCalls
    /\ row = NewRow
    /\ faults = 0

-----------------------------------------------------------------------------
(***************************************************************************)
(* write: the projection of an observer, or a failure that leaves the file *)
(* as it was or torn.                                                      *)
(***************************************************************************)
WriteSucceeds(st, counts) ==
    /\ file' = [status |-> st, calls |-> counts]
    /\ UNCHANGED faults

WriteFails ==
    /\ faults < MaxWriteFaults                                   \* bound
    /\ faults' = faults + 1
    /\ file' \in {file, Torn}

(***************************************************************************)
(* _arm_registry up to the write: a new observer hooks a registry that     *)
(* nobody hooks, and remembers what it replaced.                           *)
(***************************************************************************)
Unhooked == registry = Original

New(o) == active # o /\ registry # o /\ \A p \in Observers : method[p] # o

PromptRuns == prompt = "idle" /\ row.ended \in {"no", "failed"} /\ row.done < Prompts

MayArm(o) == PromptRuns /\ active = None /\ Unhooked /\ New(o)

Arm(o) ==
    /\ MayArm(o)
    /\ registry' = o
    /\ method' = [method EXCEPT ![o] = registry]
    /\ status' = [status EXCEPT ![o] = "ARMED"]
    /\ calls' = [calls EXCEPT ![o] = NoCalls]

(***************************************************************************)
(* _disarm_registry up to the write.  An observer that is DISARMED already *)
(* is left as it is.                                                       *)
(***************************************************************************)
DisarmKeepsHook(o) ==                   \* mutant: only the status changes
    /\ status' = [status EXCEPT ![o] = "DISARMED"]
    /\ UNCHANGED <<registry, method>>

Disarm(o) ==
    /\ status[o] = "ARMED" /\ registry = o
    /\ registry' = method[o]
    /\ status' = [status EXCEPT ![o] = "DISARMED"]
    /\ UNCHANGED method

RowFails == row' = [row EXCEPT !.ended = "failed"]

-----------------------------------------------------------------------------
(***************************************************************************)
(* The observer node.  install refuses while an observer is active or the  *)
(* registry is hooked.                                                     *)
(***************************************************************************)
ObserveRefused ==
    /\ PromptRuns
    /\ active # None \/ ~Unhooked
    /\ RowFails
    /\ made' = NoCalls
    /\ UNCHANGED <<hook, calls, active, file, prompt, faults>>

(***************************************************************************)
(* The hook is in place, but the write that follows fails inside install,  *)
(* before the state becomes the active one and outside the clean-up of     *)
(* install_model.                                                          *)
(***************************************************************************)
ArmWriteFails(o) ==
    /\ Arm(o)
    /\ WriteFails
    /\ RowFails
    /\ made' = NoCalls
    /\ UNCHANGED <<active, prompt>>

(***************************************************************************)
(* The observer is armed, the model clone wrapped, the trace written.      *)
(***************************************************************************)
Observe(o) ==
    /\ Arm(o)
    /\ WriteSucceeds("ARMED", NoCalls)
    /\ active' = o
    /\ prompt' = "sampling"
    /\ made' = NoCalls
    /\ UNCHANGED row

(***************************************************************************)
(* The observer is armed, then wrapping the clone (or the second write)    *)
(* fails: disarm puts the registry back at once.  When the write of disarm *)
(* fails too, the state stays the active one.                              *)
(***************************************************************************)
WrapFails(o) ==
    /\ MayArm(o)
    /\ method' = [method EXCEPT ![o] = registry]
    /\ status' = [status EXCEPT ![o] = "DISARMED"]
    /\ calls' = [calls EXCEPT ![o] = NoCalls]
    /\ \/ WriteSucceeds("DISARMED", NoCalls) /\ UNCHANGED active
       \/ WriteFails /\ active' = o
    /\ RowFails
    /\ made' = NoCalls
    /\ UNCHANGED <<registry, prompt>>

(***************************************************************************)
(* A wrapped implementation is called.  However it ends, the call is       *)
(* counted, and the first and every CheckpointEvery-th write a checkpoint. *)
(* A call that raises, or whose checkpoint fails, ends the prompt.         *)
(***************************************************************************)
CountedOnce(o, k) == [calls EXCEPT ![o][k] = 1]    \* mutant: a flag, no count

Counted(o, k) == [calls EXCEPT ![o][k] = @ + 1]

Checkpoint(n) == n = 1 \/ n % CheckpointEvery = 0

PromptFails == prompt' = "idle" /\ RowFails

Call(k) ==
    /\ prompt = "sampling"
    /\ made[k] < MaxCalls                                        \* bound
    /\ made' = [made EXCEPT ![k] = @ + 1]
    /\ calls' = Counted(active, k)
    /\ LET n == calls'[active][k] IN
       \/ /\ IF Checkpoint(n) THEN WriteSucceeds("ARMED", calls'[active])
                              ELSE UNCHANGED <<file, faults>>
          /\ PromptFails \/ UNCHANGED <<prompt, row>>
       \/ Checkpoint(n) /\ WriteFails /\ PromptFails
    /\ UNCHANGED <<hook, active>>

(***************************************************************************)
(* A node between observer and finalizer fails or the prompt is            *)
(* interrupted: the finalizer does not run.                                *)
(***************************************************************************)
Abort ==
    /\ prompt = "sampling"
    /\ PromptFails
    /\ UNCHANGED <<hook, calls, active, file, made, faults>>

(***************************************************************************)
(* The finalizer node: disarm, write the final trace, forget the state.    *)
(***************************************************************************)
Finalize ==
    /\ prompt = "sampling"
    /\ Disarm(active)
    /\ WriteSucceeds("DISARMED", calls[active])
    /\ active' = None
    /\ prompt' = "idle"
    /\ row' = [row EXCEPT !.done = IF row.ended = "no" THEN @ + 1 ELSE @]
    /\ UNCHANGED <<calls, made>>

FinalizeWriteFails ==
    /\ prompt = "sampling"
    /\ Disarm(active)
    /\ WriteFails
    /\ PromptFails
    /\ UNCHANGED <<calls, active, made>>

(***************************************************************************)
(* The row: once its last prompt succeeded, the trace is read, and a trace *)
(* that is not DISARMED yields an unavailable observation.                 *)
(***************************************************************************)
TraceValid == file # None /\ file # Torn /\ file.status = "DISARMED"

ReadTrace ==
    /\ prompt = "idle" /\ row.ended = "no" /\ row.done = Prompts
    /\ row' = [row EXCEPT !.ended = IF TraceValid THEN "valid" ELSE "unavailable"]
    /\ UNCHANGED <<hook, calls, active, file, prompt, made, faults>>

(***************************************************************************)
(* The next row runs in the same host with a trace file of its own, unless *)
(* a row failed: then the host is terminated, whatever its state is.       *)
(***************************************************************************)
NextRow ==
    /\ row.ended \in {"valid", "unavailable"}
    /\ row' = NewRow
    /\ file' = None
    /\ UNCHANGED <<hook, calls, active, prompt, made, faults>>

Terminate ==
    /\ row.ended = "failed"
    /\ registry' = Original
    /\ method' = [o \in Observers |-> None]
    /\ status' = [o \in Observers |-> "NEW"]
    /\ calls' = [o \in Observers |-> NoCalls]
    /\ active' = None
    /\ file' = None
    /\ prompt' = "idle"
    /\ made' = NoCalls
    /\ row' = NewRow
    /\ faults' = 0

Next ==
    \/ ObserveRefused
    \/ \E o \in Observers : ArmWriteFails(o) \/ Observe(o) \/ WrapFails(o)
    \/ \E k \in Kinds : Call(k)
    \/ Abort
    \/ Finalize
    \/ FinalizeWriteFails
    \/ ReadTrace
    \/ NextRow
    \/ Terminate

Spec == Init /\ [][Next]_vars

-----------------------------------------------------------------------------
(***************************************************************************)
(* Registry, observers and file are well formed, and no observer counts    *)
(* more calls than a prompt makes.                                         *)
(***************************************************************************)
TypeOK ==
    /\ registry \in Observers \cup {Original}
    /\ method \in [Observers -> Observers \cup {Original, None}]
    /\ status \in [Observers -> {"NEW", "ARMED", "DISARMED"}]
    /\ calls \in [Observers -> [Kinds -> 0 .. MaxCalls]]
    /\ active \in Observers \cup {None}
    /\ prompt \in {"idle", "sampling"}
    /\ made \in [Kinds -> 0 .. MaxCalls]
    /\ row \in [done : 0 .. Prompts, ended : {"no", "failed", "valid", "unavailable"}]
    /\ faults \in 0 .. MaxWriteFaults

(***************************************************************************)
(* Hooks are never stacked, even when an earlier failure left one behind:  *)
(* what an observer puts back is the registry's own method, so disarming   *)
(* never brings an older hook back.                                        *)
(***************************************************************************)
HooksAreNotStacked == \A o \in Observers : method[o] \in {Original, None}

(***************************************************************************)
(* The active state agrees with the registry: an ARMED one has its hook in *)
(* place, and one whose final write failed has already put the method      *)
(* back, so that only the state is left to be cleared.                     *)
(***************************************************************************)
ActiveAgreesWithRegistry ==
    active # None =>
        \/ status[active] = "ARMED" /\ registry = active
        \/ status[active] = "DISARMED" /\ registry = Original

(***************************************************************************)
(* A trace a row accepts is the complete one of its last prompt: every     *)
(* dispatch of that prompt is counted in it, although the three prompts    *)
(* and all the checkpoints share the file.  Dispatches are those the       *)
(* observer wraps: operations that are not listed, or whose backend cannot *)
(* be told, are served unwrapped (wrap_operation).                         *)
(***************************************************************************)
AcceptedTraceIsComplete ==
    row.ended = "valid" => file.status = "DISARMED" /\ file.calls = made

(***************************************************************************)
(* As long as no prompt failed, nothing is left hooked between prompts: the*)
(* next prompt can observe.                                                *)
(***************************************************************************)
NextPromptCanObserve ==
    prompt = "idle" /\ row.ended # "failed" => registry = Original /\ active = None

(***************************************************************************)
(* The registry is hooked only by the active observer, the one disarm      *)
(* knows of ("Restore the registry method and write the final bounded      *)
(* trace").                                                                *)
(***************************************************************************)
HookHasOwner == registry # Original => active = registry

(***************************************************************************)
(* Seen from the row, the prompts with their observers are those of H4Row: *)
(* a prompt counts once, when its finalizer node is through.               *)
(***************************************************************************)
Row == INSTANCE H4Row WITH done <- row.done, ended <- row.ended

ObservesRows == Row!Spec
=============================================================================

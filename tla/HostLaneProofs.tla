---------------------------- MODULE HostLaneProofs ----------------------------
(***************************************************************************)
(* The safety properties of HostLane for every lane, every deadline and    *)
(* every set of summaries.                                                 *)
(***************************************************************************)
EXTENDS HostLane, TLAPS

Finally ==
    {"terminate", "signal", "kill", "port", "evidence", "remove", "returned", "raised"}

Waiting == {"history", "history_get"}

After(p, q) == p[1] > q[1] \/ (p[1] = q[1] /\ p[2] > q[2])

(* Both attempts at a case ended as they should, and alike. *)
Agreed(c) == EndedWell(<<c, 1>>) /\ prompts[<<c, 2>>] = prompts[<<c, 1>>]

(* A request is only made while the deadline leaves room for it. *)
PollInv == pc \in {"readiness_get", "history_get"} => polls < MaxPolls

(* The recorded cases are the ones before the current one, or all. *)
RecordInv ==
    /\ \A c \in recorded : Agreed(c)
    /\ \/ recorded = 1 .. current[1] - 1
       \/ recorded = Cases /\ pc \in Finally

(* What lies after the current attempt has not been submitted. *)
PendingInv ==
    /\ \A p \in Prompts : After(p, current) => prompts[p] = Unknown
    /\ pc \notin Finally \cup Waiting => prompts[current] = Unknown
    /\ pc \in Waiting => Lane[current[1]] # "refused"

(* The current repeat follows a good first attempt, whose summary is kept. *)
FirstInv ==
    current[2] = 2 =>
        /\ EndedWell(<<current[1], 1>>)
        /\ pc \notin Finally /\ Lane[current[1]] # "refused" =>
            first = prompts[<<current[1], 1>>].summary

(* What the finally block has established so far. *)
EndingInv ==
    /\ port = "host" => proc = "alive"
    /\ proc = "none" =>
        recorded = {} /\ pc \in {"stage", "start", "terminate", "port", "evidence", "raised"}
    /\ pc \in {"stage", "start"} => proc = "none" /\ current = <<1, 1>>
    /\ pc \in {"port", "evidence", "remove", "returned"} => proc # "alive"
    /\ pc \in {"remove", "returned"} => Succeeded /\ evidence = "removed"
    /\ dir \in {"removed", "partial"} =>
        /\ pc \in {"returned", "raised"}
        /\ Succeeded /\ evidence = "removed" /\ proc = "exited"
    /\ pc = "returned" => dir = "removed"

IInv == TypeOK /\ PollInv /\ RecordInv /\ PendingInv /\ FirstInv /\ EndingInv

(* The first case exists, and cases are numbered. *)
LEMMA CasesFact == Cases = 1 .. Len(Lane) /\ Len(Lane) \in Nat \ {0} /\ Cases # {}
<1>1. Len(Lane) \in Nat /\ Cases = 1 .. Len(Lane)
  BY LaneAssumption DEF Cases
<1>2. Len(Lane) # 0
  BY LaneAssumption
<1> QED
  BY <1>1, <1>2

LEMMA KindFact == \A c \in Cases : Lane[c] \in Kinds
  BY LaneAssumption DEF Cases

(* The initial state: nothing has happened yet. *)
LEMMA InitFact == Init => IInv
<1> SUFFICES ASSUME Init PROVE IInv
  OBVIOUS
<1> USE CasesFact, PollsAssumption
<1>1. <<1, 1>> \in Prompts
  BY DEF Prompts
<1>2. TypeOK
  BY <1>1 DEF Init, TypeOK
<1>3. PollInv
  BY DEF Init, PollInv
<1>4. RecordInv
  BY DEF Init, RecordInv
<1>5. PendingInv
  BY <1>1 DEF Init, PendingInv, Waiting
<1>6. FirstInv
  BY DEF Init, FirstInv
<1>7. EndingInv
  BY DEF Init, EndingInv
<1> QED
  BY <1>2, <1>3, <1>4, <1>5, <1>6, <1>7 DEF IInv

(* A step that leaves the bookkeeping alone and does not go back from the  *)
(* finally block, nor from a wait to something else of the try block.      *)
LEMMA QuietStep ==
    ASSUME IInv, UNCHANGED <<current, first, recorded, prompts>>,
           pc \in Finally => pc' \in Finally,
           pc' \notin Finally \cup Waiting => pc \notin Finally \cup Waiting,
           pc' \in Waiting => pc \in Waiting
    PROVE  RecordInv' /\ PendingInv' /\ FirstInv'
<1>1. RecordInv'
  BY DEF IInv, RecordInv, Agreed, EndedWell, Cases, Verified
<1>2. PendingInv'
  BY DEF IInv, PendingInv, After, Prompts, Cases
<1>3. FirstInv'
  BY DEF IInv, FirstInv, EndedWell, Verified
<1> QED
  BY <1>1, <1>2, <1>3

(* A prompt that ended is not queued, and one never submitted neither. *)
LEMMA EndedIsSettled ==
    ASSUME NEW p \in Prompts, EndedWell(p) \/ prompts[p] = Unknown
    PROVE  prompts[p] # Queued
<1>1. Lane[p[1]] \in Kinds
  BY KindFact DEF Prompts
<1>2. Unknown # Queued
  BY DEF Unknown, Queued
<1>3. Lane[p[1]] # "refused" => Wanted[Lane[p[1]]] \in {"completed", "error"}
  BY <1>1 DEF Kinds, Wanted
<1> QED
  BY <1>1, <1>2, <1>3 DEF EndedWell, Queued

(* The host decides what is queued only: whatever ended stays as it is. *)
LEMMA HostStep ==
    ASSUME IInv, UNCHANGED <<current, first, recorded>>,
           pc' = pc \/ pc' \in Finally,
           \A p \in Prompts : prompts[p] # Queued => prompts'[p] = prompts[p],
           pc \in Finally => pc' \in Finally
    PROVE  RecordInv' /\ PendingInv' /\ FirstInv'
<1>1. ASSUME NEW p \in Prompts, EndedWell(p)
      PROVE  EndedWell(p)' /\ prompts'[p] = prompts[p]
  BY <1>1, EndedIsSettled DEF EndedWell, Verified
<1>2. ASSUME NEW p \in Prompts, prompts[p] = Unknown
      PROVE  prompts'[p] = Unknown
  BY <1>2, EndedIsSettled
<1>3. \A c \in Cases : <<c, 1>> \in Prompts /\ <<c, 2>> \in Prompts
  BY DEF Prompts
<1>4. current \in Prompts /\ current[1] \in Cases /\ recorded \subseteq Cases
  BY DEF IInv, TypeOK, Prompts
<1>5. RecordInv'
  <2>1. ASSUME NEW c \in recorded PROVE Agreed(c)'
    <3>1. EndedWell(<<c, 1>>) /\ prompts[<<c, 2>>] = prompts[<<c, 1>>]
      BY DEF IInv, RecordInv, Agreed
    <3>2. EndedWell(<<c, 2>>)
      BY <3>1 DEF EndedWell, Verified
    <3> QED
      BY <1>1, <1>3, <1>4, <3>1, <3>2 DEF Agreed
  <2> QED
    BY <2>1 DEF IInv, RecordInv, Cases
<1>6. PendingInv'
  <2>1. ASSUME NEW p \in Prompts, After(p, current)' PROVE prompts'[p] = Unknown
    BY <1>2, <2>1 DEF IInv, PendingInv, After
  <2>2. pc' \notin Finally \cup Waiting => prompts'[current'] = Unknown
    BY <1>2, <1>4 DEF IInv, PendingInv
  <2>3. pc' \in Waiting => pc' \notin Finally
    BY DEF Waiting, Finally
  <2>4. pc' \in Waiting => Lane[current'[1]] # "refused"
    BY <2>3 DEF IInv, PendingInv
  <2> QED
    BY <2>1, <2>2, <2>4 DEF PendingInv, Prompts, Cases
<1>7. FirstInv'
  BY <1>1, <1>3, <1>4 DEF IInv, FirstInv
<1> QED
  BY <1>5, <1>6, <1>7

(* Two attempts at a case that ended well with one summary ended alike. *)
LEMMA Alike ==
    ASSUME IInv, NEW p \in Prompts, NEW q \in Prompts, p[1] = q[1],
           EndedWell(p), EndedWell(q),
           Lane[p[1]] # "refused" => prompts[p].summary = prompts[q].summary
    PROVE  prompts[p] = prompts[q]
<1>1. CASE Lane[p[1]] = "refused"
  BY <1>1 DEF EndedWell
<1>2. CASE Lane[p[1]] # "refused"
  <2>1. Wanted[Lane[p[1]]] \in {"completed", "error"}
    BY <1>2, KindFact DEF Prompts, Kinds, Wanted
  <2>2. prompts[p].status = prompts[q].status /\ prompts[p].status \in {"completed", "error"}
    BY <1>2, <2>1 DEF EndedWell
  <2>3. prompts[p] \in Outcomes /\ prompts[q] \in Outcomes
    BY <2>2 DEF IInv, TypeOK, Unknown, Queued
  <2> QED
    BY <1>2, <2>2, <2>3 DEF Outcomes
<1> QED
  BY <1>1, <1>2

(* POST /prompt disturbs the current attempt only, which nobody relies on. *)
LEMMA SubmitStep == ASSUME IInv, Submit PROVE RecordInv' /\ PendingInv' /\ FirstInv'
<1> USE DEF Submit, Goto
<1>1. current \in Prompts /\ current[1] \in Nat /\ current[2] \in {1, 2}
      /\ current = <<current[1], current[2]>> /\ current[1] \in Cases
  BY CasesFact DEF IInv, TypeOK, Prompts
<1>2. pc \notin Finally /\ pc' \in Finally \cup Waiting
  BY DEF Finally, Waiting
<1>3. \A p \in Prompts : p # current => prompts'[p] = prompts[p]
  BY DEF IInv, TypeOK
<1>4. RecordInv'
  <2>1. recorded = 1 .. current[1] - 1
    BY <1>2 DEF IInv, RecordInv
  <2>2. ASSUME NEW c \in recorded PROVE Agreed(c)'
    <3>1. Agreed(c) /\ c # current[1] /\ <<c, 1>> \in Prompts /\ <<c, 2>> \in Prompts
      BY <1>1, <2>1, CasesFact DEF IInv, TypeOK, RecordInv, Prompts
    <3>2. prompts'[<<c, 1>>] = prompts[<<c, 1>>] /\ prompts'[<<c, 2>>] = prompts[<<c, 2>>]
      BY <1>1, <1>3, <3>1
    <3> QED
      BY <3>1, <3>2 DEF Agreed, EndedWell, Verified
  <2> QED
    BY <2>1, <2>2 DEF RecordInv
<1>5. PendingInv'
  <2>1. ASSUME NEW p \in Prompts, After(p, current)' PROVE prompts'[p] = Unknown
    <3>1. After(p, current) /\ p # current
      BY <1>1, <2>1 DEF After
    <3> QED
      BY <1>3, <3>1 DEF IInv, PendingInv
  <2>2. pc' \in Waiting => Lane[current'[1]] # "refused"
    BY DEF Waiting
  <2> QED
    BY <1>2, <2>1, <2>2 DEF PendingInv, Prompts, Cases
<1>6. FirstInv'
  <2>1. CASE current[2] = 2
    <3>1. <<current[1], 1>> \in Prompts /\ <<current[1], 1>> # current
      BY <1>1, <2>1 DEF Prompts
    <3>2. prompts'[<<current[1], 1>>] = prompts[<<current[1], 1>>]
      BY <1>3, <3>1
    <3> QED
      BY <1>2, <2>1, <3>2 DEF IInv, FirstInv, EndedWell, Verified
  <2> QED
    BY <2>1 DEF FirstInv
<1> QED
  BY <1>4, <1>5, <1>6

(* An attempt was made: the summary is that of an attempt that ended well, *)
(* or it is not verified.                                                  *)
LEMMA AttemptStep ==
    ASSUME IInv, NEW s \in Summaries \cup {Wrong}, Attempted(s), UNCHANGED host,
           pc \in {"submit", "history_get"},
           Verified(s) => EndedWell(current),
           Lane[current[1]] # "refused" => s = prompts[current].summary
    PROVE  RecordInv' /\ PendingInv' /\ FirstInv'
<1> USE DEF Goto
<1>0. PICK c \in Cases : c = current[1]
  BY DEF IInv, TypeOK, Prompts
<1>1. current \in Prompts /\ c = current[1] /\ c \in Nat /\ current[2] \in {1, 2}
      /\ current = <<c, current[2]>> /\ <<c, 1>> \in Prompts /\ <<c, 2>> \in Prompts
  BY <1>0, CasesFact DEF IInv, TypeOK, Prompts
<1>2. pc \notin Finally /\ recorded = 1 .. c - 1
  BY <1>0 DEF IInv, RecordInv, Finally
<1>3. prompts' = prompts
  BY DEF host
<1>4. \A k \in recorded : Agreed(k)'
  BY <1>3 DEF IInv, RecordInv, Agreed, EndedWell, Verified
<1>5. \A p \in Prompts : EndedWell(p) => EndedWell(p)'
  BY <1>3 DEF EndedWell, Verified
<1>6. \A p \in Prompts : After(p, current) => prompts'[p] = Unknown
  BY <1>3 DEF IInv, PendingInv
<1>7. CASE pc' = "terminate" /\ UNCHANGED <<current, first, recorded>>
  BY <1>3, <1>7, QuietStep DEF Finally, Waiting
<1>8. CASE Verified(s) /\ current[2] = 1
  <2>1. first' = s /\ current' = <<c, 2>> /\ pc' = "submit" /\ recorded' = recorded
    BY <1>0, <1>8 DEF Attempted
  <2>2. RecordInv'
    BY <1>2, <1>4, <2>1 DEF RecordInv
  <2>3. PendingInv'
    <3>1. \A p \in Prompts : After(p, current') => After(p, current)
      BY <1>1, <1>8, <2>1, CasesFact DEF After, Prompts
    <3>2. After(current', current)
      BY <1>1, <1>8, <2>1 DEF After
    <3> QED
      BY <1>1, <1>6, <2>1, <3>1, <3>2 DEF PendingInv, Waiting, After, Prompts, Cases
  <2>4. FirstInv'
    BY <1>1, <1>3, <1>5, <1>8, <2>1 DEF FirstInv
  <2> QED
    BY <2>2, <2>3, <2>4
<1>9. CASE Verified(s) /\ current[2] = 2 /\ s = first
  <2>1. recorded' = recorded \cup {c} /\ first' = Nothing
    BY <1>0, <1>9 DEF Attempted
  <2>2. EndedWell(<<c, 1>>) /\ EndedWell(<<c, 2>>)
    BY <1>1, <1>9 DEF IInv, FirstInv, Finally
  <2>3. Lane[c] # "refused" => prompts[<<c, 1>>].summary = prompts[<<c, 2>>].summary
    BY <1>1, <1>2, <1>9 DEF IInv, FirstInv
  <2>4. Agreed(c)'
    BY <1>1, <1>3, <1>5, <2>2, <2>3, Alike DEF Agreed
  <2>5. \A k \in recorded' : Agreed(k)'
    BY <1>4, <2>1, <2>4
  <2>6. recorded' = 1 .. c
    <3>1. c >= 1
      BY CasesFact
    <3> QED
      BY <1>1, <1>2, <2>1, <3>1
  <2>7. CASE c = Len(Lane)
    <3>1. pc' = "terminate" /\ current' = current
      BY <1>0, <1>9, <2>7 DEF Attempted
    <3>2. RecordInv'
      BY <2>5, <2>6, <2>7, <3>1, CasesFact DEF RecordInv, Finally, Cases
    <3>3. PendingInv'
      BY <1>6, <3>1 DEF PendingInv, Finally, Waiting, After, Prompts, Cases
    <3>4. FirstInv'
      BY <1>1, <1>5, <2>2, <3>1 DEF FirstInv, Finally
    <3> QED
      BY <3>2, <3>3, <3>4
  <2>8. CASE c # Len(Lane)
    <3>1. pc' = "submit" /\ current' = <<c + 1, 1>>
      BY <1>0, <1>9, <2>8 DEF Attempted
    <3>2. current' \in Prompts /\ c + 1 \in Nat
      BY <1>1, <2>8, <3>1, CasesFact DEF Prompts
    <3>3. RecordInv'
      BY <1>1, <2>5, <2>6, <3>1 DEF RecordInv
    <3>4. PendingInv'
      <4>1. \A p \in Prompts : After(p, current') => After(p, current)
        BY <1>1, <3>1, CasesFact DEF After, Prompts
      <4>2. After(current', current)
        BY <1>1, <3>1 DEF After
      <4> QED
        BY <1>6, <3>1, <3>2, <4>1, <4>2 DEF PendingInv, Waiting, After, Prompts, Cases
    <3>5. FirstInv'
      BY <3>1 DEF FirstInv
    <3> QED
      BY <3>3, <3>4, <3>5
  <2> QED
    BY <2>7, <2>8
<1> QED
  BY <1>1, <1>7, <1>8, <1>9 DEF Attempted

(* The answer to a history request, and the refusal of a submission.       *)
LEMMA HistoryGetStep ==
    ASSUME IInv, HistoryGet
    PROVE  /\ RecordInv' /\ PendingInv' /\ FirstInv'
           /\ prompts[current].summary \in Summaries \cup {Wrong}
<1>1. current \in Prompts /\ current[1] \in Cases /\ Lane[current[1]] \in Kinds
  BY KindFact DEF IInv, TypeOK, Prompts
<1>2. Lane[current[1]] # "refused"
  BY DEF IInv, PendingInv, HistoryGet, Waiting
<1>3. prompts[current].status \in {"completed", "error"}
  BY <1>1, <1>2 DEF HistoryGet, Kinds, Wanted
<1>4. prompts[current] \in Outcomes
  BY <1>1, <1>3 DEF IInv, TypeOK, Unknown, Queued
<1>5. prompts[current].summary \in Summaries \cup {Wrong}
  BY <1>4 DEF Outcomes
<1>6. Verified(prompts[current].summary) => EndedWell(current)
  BY <1>2 DEF EndedWell, HistoryGet
<1> QED
  BY <1>5, <1>6, AttemptStep DEF HistoryGet

LEMMA RefusalStep ==
    ASSUME IInv, SubmitRefused PROVE RecordInv' /\ PendingInv' /\ FirstInv'
<1>1. PICK s \in Summaries \cup {Wrong} : Attempted(s)
  BY DEF SubmitRefused
<1>2. EndedWell(current)
  BY DEF IInv, PendingInv, SubmitRefused, EndedWell, Finally, Waiting
<1> QED
  BY <1>1, <1>2, AttemptStep DEF SubmitRefused

(* Ranges, and what an accepted or rejected attempt does to them. *)
LEMMA AttemptRanges ==
    ASSUME IInv, NEW s \in Summaries \cup {Wrong}, Attempted(s),
           UNCHANGED <<evidence, dir, host>>, pc \in {"submit", "history_get"}
    PROVE  TypeOK' /\ PollInv' /\ EndingInv'
<1> USE DEF Goto, host
<1>1. /\ current \in Prompts /\ current[1] \in 1 .. Len(Lane) /\ Len(Lane) \in Nat
      /\ current[1] \in Cases /\ current[2] \in {1, 2}
  BY CasesFact DEF IInv, TypeOK, Prompts
<1>2. pc' \in {"terminate", "submit"} /\ polls' = 0
  BY DEF Attempted
<1>3. current' \in Prompts
  <2>1. \/ current' = current
        \/ current' = <<current[1], 2>>
        \/ current[1] # Len(Lane) /\ current' = <<current[1] + 1, 1>>
    BY DEF Attempted
  <2> QED
    BY <1>1, <2>1, CasesFact DEF Prompts
<1>4. first' \in Summaries \cup {Nothing}
  BY DEF Attempted, Verified, IInv, TypeOK
<1>5. recorded' \subseteq Cases
  BY <1>1 DEF Attempted, IInv, TypeOK
<1>6. TypeOK'
  BY <1>2, <1>3, <1>4, <1>5, PollsAssumption DEF IInv, TypeOK
<1>7. PollInv'
  BY <1>2 DEF PollInv
<1>8. proc # "none" /\ dir \notin {"removed", "partial"}
  BY DEF IInv, EndingInv
<1>9. EndingInv'
  BY <1>2, <1>8 DEF IInv, EndingInv
<1> QED
  BY <1>6, <1>7, <1>9

(***************************************************************************)
(* The steps of the driver that neither submit nor judge an attempt.       *)
(***************************************************************************)
Quiet ==
    \/ Stage \/ Start \/ Fail
    \/ ReadinessHead \/ ReadinessGet \/ RepeatH1
    \/ HistoryHead \/ HistoryRepeats
    \/ AwaitExit \/ AwaitTimesOut \/ PortRelease
    \/ WriteEvidence \/ EvidenceFails \/ RemoveRun

LEMMA QuietDriver == ASSUME IInv, Quiet PROVE IInv'
<1> USE PollsAssumption DEF Goto, host, IInv
<1>0. /\ UNCHANGED <<current, first, recorded, prompts>>
      /\ pc \in Finally => pc' \in Finally
      /\ pc' \notin Finally \cup Waiting => pc \notin Finally \cup Waiting
      /\ pc' \in Waiting => pc \in Waiting
  <2>1. CASE Stage
    BY <2>1 DEF Stage, Finally, Waiting
  <2>2. CASE Start
    BY <2>2 DEF Start, Finally, Waiting
  <2>3. CASE Fail
    BY <2>3 DEF Fail, Finally, Waiting
  <2>4. CASE ReadinessHead
    BY <2>4 DEF ReadinessHead, Finally, Waiting
  <2>5. CASE ReadinessGet
    BY <2>5 DEF ReadinessGet, Finally, Waiting
  <2>6. CASE RepeatH1
    BY <2>6 DEF RepeatH1, Finally, Waiting
  <2>7. CASE HistoryHead
    BY <2>7 DEF HistoryHead, Finally, Waiting
  <2>8. CASE HistoryRepeats
    BY <2>8 DEF HistoryRepeats, Finally, Waiting
  <2>9. CASE AwaitExit
    BY <2>9 DEF AwaitExit, Finally, Waiting
  <2>10. CASE AwaitTimesOut
    BY <2>10 DEF AwaitTimesOut, Finally, Waiting
  <2>11. CASE PortRelease
    BY <2>11 DEF PortRelease, Finally, Waiting
  <2>12. CASE WriteEvidence
    BY <2>12 DEF WriteEvidence, Finally, Waiting
  <2>13. CASE EvidenceFails
    BY <2>13 DEF EvidenceFails, Finally, Waiting
  <2>14. CASE RemoveRun
    BY <2>14 DEF RemoveRun, Finally, Waiting
  <2> QED
    BY <2>1, <2>2, <2>3, <2>4, <2>5, <2>6, <2>7, <2>8, <2>9, <2>10, <2>11, <2>12, <2>13, <2>14 DEF Quiet
<1>1. RecordInv' /\ PendingInv' /\ FirstInv'
  BY <1>0, QuietStep
<1>2. TypeOK' /\ PollInv' /\ EndingInv'
  <2>1. CASE Stage
    BY <2>1, CasesFact DEF Stage, TypeOK, PollInv, EndingInv, Succeeded
  <2>2. CASE Start
    BY <2>2, CasesFact DEF Start, TypeOK, PollInv, EndingInv, Succeeded
  <2>3. CASE Fail
    BY <2>3, CasesFact DEF Fail, TypeOK, PollInv, EndingInv, Succeeded
  <2>4. CASE ReadinessHead
    BY <2>4, CasesFact DEF ReadinessHead, TypeOK, PollInv, EndingInv, Succeeded
  <2>5. CASE ReadinessGet
    BY <2>5, CasesFact DEF ReadinessGet, TypeOK, PollInv, EndingInv, Succeeded
  <2>6. CASE RepeatH1
    BY <2>6, CasesFact DEF RepeatH1, TypeOK, PollInv, EndingInv, Succeeded
  <2>7. CASE HistoryHead
    BY <2>7, CasesFact DEF HistoryHead, TypeOK, PollInv, EndingInv, Succeeded
  <2>8. CASE HistoryRepeats
    BY <2>8, CasesFact DEF HistoryRepeats, TypeOK, PollInv, EndingInv, Succeeded
  <2>9. CASE AwaitExit
    BY <2>9, CasesFact DEF AwaitExit, TypeOK, PollInv, EndingInv, Succeeded
  <2>10. CASE AwaitTimesOut
    BY <2>10, CasesFact DEF AwaitTimesOut, TypeOK, PollInv, EndingInv, Succeeded
  <2>11. CASE PortRelease
    BY <2>11, CasesFact DEF PortRelease, TypeOK, PollInv, EndingInv, Succeeded
  <2>12. CASE WriteEvidence
    BY <2>12, CasesFact DEF WriteEvidence, TypeOK, PollInv, EndingInv, Succeeded
  <2>13. CASE EvidenceFails
    BY <2>13, CasesFact DEF EvidenceFails, TypeOK, PollInv, EndingInv, Succeeded
  <2>14. CASE RemoveRun
    BY <2>14, CasesFact DEF RemoveRun, TypeOK, PollInv, EndingInv, Succeeded
  <2> QED
    BY <2>1, <2>2, <2>3, <2>4, <2>5, <2>6, <2>7, <2>8, <2>9, <2>10, <2>11, <2>12, <2>13, <2>14 DEF Quiet
<1> QED
  BY <1>1, <1>2

(* Submitting a prompt and interrupting the running ones. *)
LEMMA PromptsRange ==
    ASSUME IInv PROVE Queued \in Outcomes \cup {Unknown, Queued} /\ Interrupted \in Outcomes
BY DEF Interrupted, Outcomes

LEMMA SubmitIInv == ASSUME IInv, Submit PROVE IInv'
<1>1. RecordInv' /\ PendingInv' /\ FirstInv'
  BY SubmitStep
<1>2. TypeOK' /\ PollInv' /\ EndingInv'
  BY PollsAssumption DEF IInv, TypeOK, PollInv, EndingInv, Submit, Goto, Succeeded
<1> QED
  BY <1>1, <1>2 DEF IInv

LEMMA InterruptIInv == ASSUME IInv, Interrupt PROVE IInv'
<1>1. UNCHANGED <<current, first, recorded>> /\ pc \in Finally /\ pc' \in Finally
  BY DEF Interrupt, Goto, Finally
<1>2. \A p \in Prompts : prompts[p] # Queued => prompts'[p] = prompts[p]
  BY DEF Interrupt, Running
<1>3. RecordInv' /\ PendingInv' /\ FirstInv'
  BY <1>1, <1>2, HostStep
<1>4. prompts' \in [Prompts -> Outcomes \cup {Unknown, Queued}]
  BY PromptsRange DEF IInv, TypeOK, Interrupt
<1>5. TypeOK' /\ PollInv' /\ EndingInv'
  BY <1>4, PollsAssumption DEF IInv, TypeOK, PollInv, EndingInv, Interrupt, Goto, Succeeded
<1> QED
  BY <1>3, <1>5 DEF IInv

(* What the host and its machine do on their own. *)
LEMMA MachineIInv == ASSUME IInv, Machine PROVE IInv'
<1>1. UNCHANGED driver /\ UNCHANGED <<current, first, recorded>> /\ UNCHANGED pc
  BY DEF Machine, HostBinds, HostFinishes, HostExits, OthersUsePort, driver
<1>2. \A p \in Prompts : prompts[p] # Queued => prompts'[p] = prompts[p]
  BY DEF Machine, HostBinds, HostFinishes, HostExits, OthersUsePort, driver, Running,
         IInv, TypeOK
<1>3. RecordInv' /\ PendingInv' /\ FirstInv'
  BY <1>1, <1>2, HostStep
<1>4. TypeOK' /\ PollInv' /\ EndingInv'
  <2> USE <1>1 DEF IInv, TypeOK, PollInv, EndingInv, driver, Succeeded
  <2>1. CASE HostBinds
    BY <2>1 DEF HostBinds
  <2>2. ASSUME NEW p \in Prompts, HostFinishes(p) PROVE TypeOK' /\ PollInv' /\ EndingInv'
    BY <2>2 DEF HostFinishes
  <2>3. CASE HostExits
    BY <2>3 DEF HostExits
  <2>4. CASE OthersUsePort
    BY <2>4 DEF OthersUsePort
  <2> QED
    BY <2>1, <2>2, <2>3, <2>4 DEF Machine
<1> QED
  BY <1>3, <1>4 DEF IInv

LEMMA StutterIInv == ASSUME IInv, UNCHANGED vars PROVE IInv'
BY DEF vars, IInv, TypeOK, PollInv, RecordInv, PendingInv, FirstInv, EndingInv, Agreed,
       EndedWell, Verified, Cases, Prompts, Succeeded

(* Every step keeps the invariant. *)
LEMMA NextStep == IInv /\ [Next]_vars => IInv'
<1> SUFFICES ASSUME IInv, [Next]_vars PROVE IInv'
  OBVIOUS
<1>1. CASE Quiet
  BY <1>1, QuietDriver
<1>2. CASE Submit
  BY <1>2, SubmitIInv
<1>3. CASE HistoryGet
  <2>1. RecordInv' /\ PendingInv' /\ FirstInv'
        /\ prompts[current].summary \in Summaries \cup {Wrong}
    BY <1>3, HistoryGetStep
  <2>2. TypeOK' /\ PollInv' /\ EndingInv'
    BY <1>3, <2>1, AttemptRanges DEF HistoryGet
  <2> QED
    BY <2>1, <2>2 DEF IInv
<1>4. CASE SubmitRefused
  <2>1. TypeOK' /\ PollInv' /\ EndingInv'
    BY <1>4, AttemptRanges DEF SubmitRefused
  <2> QED
    BY <1>4, <2>1, RefusalStep DEF IInv
<1>5. CASE Interrupt
  BY <1>5, InterruptIInv
<1>6. CASE Machine
  BY <1>6, MachineIInv
<1>7. CASE UNCHANGED vars
  BY <1>7, StutterIInv
<1> QED
  BY <1>1, <1>2, <1>3, <1>4, <1>5, <1>6, <1>7 DEF Next, Driver, Quiet, Terminated

LEMMA IInvHolds == Spec => []IInv
BY InitFact, NextStep, PTL DEF Spec

(***************************************************************************)
(* Every variable of the driver, the host and the machine stays in range.  *)
(***************************************************************************)
THEOREM TypeCorrect == Spec => []TypeOK
<1>1. IInv => TypeOK
  BY DEF IInv
<1> QED
  BY <1>1, IInvHolds, PTL

(***************************************************************************)
(* The host sees a second attempt only after a first one that ended as its *)
(* case expects, and the next case only after both agreed.                 *)
(***************************************************************************)
THEOREM FirstAttemptIsFinal == Spec => []FirstAttemptDecides
<1>1. IInv => FirstAttemptDecides
  <2> SUFFICES ASSUME IInv, NEW p \in Prompts, prompts[p] # Unknown
               PROVE  /\ p[2] = 2 => EndedWell(<<p[1], 1>>)
                      /\ \A c \in 1 .. p[1] - 1 :
                           /\ EndedWell(<<c, 1>>)
                           /\ prompts[<<c, 1>>] = prompts[<<c, 2>>]
    BY DEF FirstAttemptDecides
  <2>1. /\ current \in Prompts /\ current[1] \in Cases /\ current[2] \in {1, 2}
        /\ p[1] \in Cases /\ p[2] \in {1, 2}
    BY DEF IInv, TypeOK, Prompts
  <2>2. p[1] \in Nat /\ current[1] \in Nat
    BY <2>1, CasesFact
  <2>3. ~After(p, current)
    BY DEF IInv, PendingInv
  <2>4. p[1] < current[1] \/ (p[1] = current[1] /\ p[2] <= current[2])
    BY <2>1, <2>2, <2>3 DEF After
  <2>5. \A c \in 1 .. current[1] - 1 : c \in recorded
    BY <2>1, <2>2, CasesFact DEF IInv, RecordInv
  <2>6. \A c \in 1 .. current[1] - 1 : Agreed(c)
    BY <2>5 DEF IInv, RecordInv
  <2>7. p[2] = 2 => EndedWell(<<p[1], 1>>)
    <3>1. CASE p[1] < current[1]
      <4>1. p[1] >= 1
        BY <2>1, CasesFact
      <4>2. p[1] \in 1 .. current[1] - 1
        BY <2>2, <3>1, <4>1
      <4> QED
        BY <2>6, <4>2 DEF Agreed
    <3>2. CASE p[1] = current[1] /\ p[2] <= current[2]
      BY <2>1, <3>2 DEF IInv, FirstInv
    <3> QED
      BY <2>4, <3>1, <3>2
  <2>8. ASSUME NEW c \in 1 .. p[1] - 1
        PROVE  EndedWell(<<c, 1>>) /\ prompts[<<c, 1>>] = prompts[<<c, 2>>]
    <3>1. c \in 1 .. current[1] - 1
      BY <2>2, <2>4
    <3> QED
      BY <2>6, <3>1 DEF Agreed
  <2> QED
    BY <2>7, <2>8
<1> QED
  BY <1>1, IInvHolds, PTL

(***************************************************************************)
(* A lane that returns ran every case twice with one outcome, left no host *)
(* behind and removed what it staged.                                      *)
(***************************************************************************)
THEOREM ReturningIsComplete == Spec => []SuccessIsComplete
<1>1. IInv => SuccessIsComplete
  <2> SUFFICES ASSUME IInv, pc = "returned" PROVE SuccessIsComplete
    BY DEF SuccessIsComplete
  <2>1. proc \in {"none", "alive", "exited"}
    BY DEF IInv, TypeOK
  <2>2. proc = "exited" /\ port # "host" /\ dir = "removed" /\ evidence = "removed"
    BY <2>1 DEF IInv, EndingInv
  <2>3. recorded = Cases
    BY DEF IInv, EndingInv, Succeeded
  <2>4. ASSUME NEW p \in Prompts
        PROVE  EndedWell(p) /\ prompts[p] = prompts[<<p[1], 1>>]
    <3>1. p[1] \in Cases /\ (p = <<p[1], 1>> \/ p = <<p[1], 2>>)
      BY DEF Prompts
    <3>2. Agreed(p[1])
      BY <2>3, <3>1 DEF IInv, RecordInv
    <3> QED
      BY <3>1, <3>2 DEF Agreed, EndedWell, Verified
  <2> QED
    BY <2>2, <2>4 DEF SuccessIsComplete
<1> QED
  BY <1>1, IInvHolds, PTL

(***************************************************************************)
(* Nothing of the run directory goes before the lane succeeded, its host   *)
(* is gone and the evidence is written.                                    *)
(***************************************************************************)
THEOREM FailureKeepsArtifacts == Spec => []ArtifactsSurviveFailure
<1>1. IInv => ArtifactsSurviveFailure
  BY DEF IInv, EndingInv, ArtifactsSurviveFailure
<1> QED
  BY <1>1, IInvHolds, PTL
=============================================================================

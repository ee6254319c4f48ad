----------------------------- MODULE LedgerProofs -----------------------------
(***************************************************************************)
(* The import implements the ledger: every step of the importer, of its    *)
(* resumes and of DIGIweb is a step of SubmissionLedger or leaves its      *)
(* claims, its posted records and its jobs alone.  And the ledger by       *)
(* itself forbids a second job of a record that may still count.           *)
(***************************************************************************)
EXTENDS ImportSafetyProofs

Claims == [i \in Records |-> ClaimOf(disk.records[i])]

\* How a claim may change: it is opened before a record is sent, and settled.
ClaimStep(old, new) ==
  \/ old = new
  \/ old \in {"unsent", "failed"} /\ new = "open"
  \/ old = "open" /\ new \in {"done", "failed"}

\* A step that writes at most record i, and leaves DIGIweb and the network alone.
Writes(i, r) ==
  /\ disk'.records = [disk.records EXCEPT ![i] = r]
  /\ ClaimStep(ClaimOf(disk.records[i]), ClaimOf(r))
  /\ UNCHANGED <<inflight, remote>>

WritesNothing ==
  /\ Claims' = Claims
  /\ UNCHANGED <<inflight, remote>>

LEMMA ClaimFacts ==
  ASSUME NEW r
  PROVE  /\ ClaimOf(r) = "done" => r.status = "Success"
         /\ ClaimOf(r) = "failed" => r.status = "Failed"
         /\ r.status = "NotAttempted" => ClaimOf(r) = "unsent"
         /\ r.status = "Failed" => ClaimOf(r) = "failed"
         /\ r.status = "Success" => ClaimOf(r) = "done"
         /\ r.status \notin {"NotAttempted", "Failed", "Success"} => ClaimOf(r) = "open"
BY DEF ClaimOf

\* A written record that claims more than before is a step of the ledger.
LEMMA WriteIsLedgerStep ==
  ASSUME FailureIsSaid, SuccessIsSaid, IInv, IInv', NEW i \in Records, NEW r, Writes(i, r)
  PROVE  [Ledger!Next]_(Ledger!vars)
<1> DEFINE old == ClaimOf(disk.records[i])
           new == ClaimOf(r)
<1>1. disk.records \in [Records -> PluManifestRecord] BY DEF IInv, TypeOK, ImportManifest
<1>2. Claims' = [Claims EXCEPT ![i] = new] BY <1>1 DEF Writes, Claims
<1>3. disk'.records[i] = r BY <1>1 DEF Writes
<1>4. /\ manifest' = disk' /\ Truthful(r, remote[i], i \in inflight)
  BY <1>3 DEF IInv, ProcessKnows, RecordsTruthful, Writes
<1>5. remote[i] \in Seq(JobState) BY DEF IInv, TypeOK
<1>6. Claims[i] = old BY DEF Claims
<1>7. inflight' = inflight /\ remote' = remote /\ ClaimStep(old, new) BY DEF Writes
<1> HIDE DEF old, new
<1>8. CASE old = new
  <2>1. Claims' = Claims BY <1>2, <1>6, <1>8 DEF Claims
  <2> QED BY <1>7, <2>1 DEF Ledger!vars, Claims
<1>9. CASE old \in {"unsent", "failed"} /\ new = "open"
  <2>1. Ledger!Claim(i) BY <1>2, <1>6, <1>7, <1>9 DEF Ledger!Claim, Claims
  <2> QED BY <2>1 DEF Ledger!Next
<1>10. CASE old = "open" /\ new = "done"
  <2>1. r.status = "Success" BY <1>10, ClaimFacts DEF new
  <2>2. r.request_id # NoRequest /\ r.request_id = Len(remote[i])
          /\ remote[i][Len(remote[i])] = "success"
    BY <1>4, <2>1 DEF Truthful, SuccessIsSaid
  <2>3. remote[i] # <<>> BY <1>5, <2>2 DEF NoRequest
  <2>4. Ledger!Succeed(i)
    BY <1>2, <1>6, <1>7, <1>10, <2>2, <2>3 DEF Ledger!Succeed, Claims
  <2> QED BY <2>4 DEF Ledger!Next
<1>11. CASE old = "open" /\ new = "failed"
  <2>1. r.status = "Failed" BY <1>11, ClaimFacts DEF new
  <2>2. i \notin inflight /\ \A n \in DOMAIN remote[i] : remote[i][n] = "fail"
    BY <1>4, <2>1 DEF Truthful, AllFailed
  <2>3. Ledger!Fail(i)
    BY <1>2, <1>6, <1>7, <1>11, <2>2 DEF Ledger!Fail, Ledger!AllFailed, Claims
  <2> QED BY <2>3 DEF Ledger!Next
<1> QED BY <1>7, <1>8, <1>9, <1>10, <1>11 DEF ClaimStep

LEMMA NothingIsLedgerStep == WritesNothing => [Ledger!Next]_(Ledger!vars)
BY DEF WritesNothing, Ledger!vars, Claims

-----------------------------------------------------------------------------
(* The pieces of the runner's steps *)

\* The record a process works on is open.
LEMMA CurIsOpen ==
  ASSUME IInv, pc \in OnRecord
  PROVE  cur \in Records /\ ClaimOf(Rec) = "open" /\ disk = manifest
<1>1. cur \in Records BY CurFacts
<1>2. Rec.status \in {"SubmissionStarted", "RequestAccepted", "Processing"}
  BY DEF IInv, ProcessKnows, OnRecord
<1> QED BY <1>1, <1>2, ClaimFacts DEF IInv, ProcessKnows

Settled(r) ==
  /\ r \in PluManifestRecord
  /\ r.status \notin {"NotAttempted", "SubmissionStarted"}

LEMMA SettledClaims ==
  ASSUME NEW r, Settled(r), NEW old, old = "open"
  PROVE  ClaimStep(old, ClaimOf(r))
BY ClaimFacts DEF Settled, ClaimStep

LEMMA EndedOnDisk ==
  ASSUME IInv, NEW d, NEW how, Ended(d, how), d.records = disk.records
  PROVE  WritesNothing
BY DEF Ended, WritesNothing, Claims

LEMMA InternalErrorWrites == ASSUME IInv, InternalError PROVE WritesNothing
BY EndedOnDisk DEF InternalError

LEMMA EndedWithSummaryWrites ==
  ASSUME IInv, NEW m, m.records = manifest.records, EndedWithSummary(m)
  PROVE  WritesNothing
BY EndedOnDisk DEF EndedWithSummary, IInv, ProcessKnows

LEMMA SavedWrites ==
  ASSUME IInv, pc \in OnRecord, NEW r, Settled(r), SaveRecord(cur, r),
         UNCHANGED <<inflight, remote>>
  PROVE  Writes(cur, r)
<1>1. cur \in Records /\ ClaimOf(Rec) = "open" /\ disk = manifest BY CurIsOpen
<1>2. disk'.records = [manifest.records EXCEPT ![cur] = r]
  BY <1>1, SaveRecordType DEF IInv, Settled
<1>3. ClaimStep(ClaimOf(Rec), ClaimOf(r)) BY <1>1, SettledClaims
<1> QED BY <1>1, <1>2, <1>3 DEF Writes, Rec

LEMMA RecordDoneWrites ==
  ASSUME IInv, pc \in OnRecord, NEW r, Settled(r), RecordDone(r) \/ RecordDoneIfLegal(r)
  PROVE  Writes(cur, r) \/ WritesNothing
<1>1. CASE RecordDone(r) BY <1>1, SavedWrites DEF RecordDone
<1>2. CASE RecordDoneIfLegal(r)
  BY <1>1, <1>2, InternalErrorWrites DEF RecordDoneIfLegal
<1> QED BY <1>1, <1>2

LEMMA AuthStopsWrites ==
  ASSUME IInv, pc \in OnRecord, NEW r, Settled(r), AuthStops(r)
  PROVE  Writes(cur, r) \/ WritesNothing
<1> DEFINE m == RecalculateSummaryForActiveRun(SetRecord(manifest, cur, r))
<1>1. cur \in Records /\ ClaimOf(Rec) = "open" /\ disk = manifest BY CurIsOpen
<1>2. manifest \in ImportManifest BY DEF IInv, TypeOK
<1>3. m.records = [manifest.records EXCEPT ![cur] = r]
  BY <1>1, <1>2, SetRecordType, Recalculated DEF Settled
<1>4. Ended(m, "error") \/ InternalError BY DEF AuthStops
<1> HIDE DEF m
<1>5. CASE Ended(m, "error")
  <2>1. ClaimStep(ClaimOf(Rec), ClaimOf(r)) BY <1>1, SettledClaims
  <2> QED BY <1>1, <1>3, <1>5, <2>1 DEF Ended, Writes, Rec
<1> QED BY <1>4, <1>5, InternalErrorWrites

-----------------------------------------------------------------------------
(* The steps *)

\* Whatever becomes of a submission or a poll, at most its record is written.
LEMMA OutcomeWrites ==
  ASSUME IInv, Outcome
  PROVE  WritesNothing \/ \E r : Writes(cur, r)
<1>0. pc \in OnRecord
  BY DEF Outcome, RefreshRefused, RefreshUnreachable, RefreshUnlogged,
         ReceiveUnauthorized, ReceiveHttpError, PostNetworkError,
         ReceiveTracked, AfterAccepted, ReceiveUntracked,
         PollSucceeds, PollFails, PollUnresolved, PollUnauthorized, OnRecord
<1>1. cur \in Records /\ Rec \in PluManifestRecord /\ remote[cur] \in Seq(JobState)
  BY <1>0, CurFacts
<1>2. "clean" \in ErrorMessage /\ \A text \in Texts : text \in ErrorMessage
  BY TextsAssumption DEF ErrorMessage
<1>3. /\ Settled(MarkSuccess(Rec)) /\ Settled(MarkProcessing(Rec))
      /\ \A text \in ErrorMessage :
           Settled(MarkFailed(Rec, text)) /\ Settled(MarkUnknown(Rec, text))
             /\ Settled(MarkAmbiguous(Rec, text))
  BY <1>1, <1>2, MarkFacts DEF Settled
<1>4. ASSUME NEW r, Settled(r), RecordDone(r) \/ RecordDoneIfLegal(r) \/ AuthStops(r)
      PROVE  WritesNothing \/ \E s : Writes(cur, s)
  BY <1>0, <1>4, RecordDoneWrites, AuthStopsWrites
<1>5. CASE RefreshRefused \/ RefreshUnreachable \/ RefreshUnlogged \/ PostNetworkError
  BY <1>2, <1>3, <1>4, <1>5
  DEF RefreshRefused, RefreshUnreachable, RefreshUnlogged, PostNetworkError
<1>6. CASE ReceiveUnauthorized
  <2>1. CASE AuthStops(MarkFailed(Rec, "clean")) BY <1>2, <1>3, <1>4, <2>1
  <2>2. CASE UNCHANGED <<disk, inflight, remote>> BY <2>2 DEF WritesNothing, Claims
  <2> QED BY <1>6, <2>1, <2>2 DEF ReceiveUnauthorized
<1>7. CASE ReceiveHttpError BY <1>2, <1>3, <1>4, <1>7 DEF ReceiveHttpError
<1>8. CASE ReceiveTracked
  <2> DEFINE id == IF reply.form = "blank" THEN BlankId ELSE Len(remote[cur])
             r == MarkRequestAccepted(Rec, id)
  <2>1. id \in RequestId BY <1>1 DEF RequestId
  <2>2. Settled(r) BY <1>1, <2>1, MarkRequestAcceptedFacts DEF Settled
  <2>3. InternalError \/ (SaveRecord(cur, r) /\ UNCHANGED digiweb)
    BY <1>8 DEF ReceiveTracked
  <2> HIDE DEF r
  <2> QED BY <1>0, <2>2, <2>3, SavedWrites, InternalErrorWrites DEF digiweb
<1>9. CASE AfterAccepted
  <2>1. CASE InternalError BY <2>1, InternalErrorWrites
  <2>2. CASE StartPoll(cur) /\ UNCHANGED <<inflight, remote>>
    <3>1. SaveRecord(cur, MarkProcessing(Rec)) BY <2>2 DEF StartPoll, Rec
    <3>2. Writes(cur, MarkProcessing(Rec)) BY <1>0, <1>3, <2>2, <3>1, SavedWrites
    <3> QED BY <3>2
  <2>3. ASSUME NEW r, Settled(r), RecordDoneIfLegal(r)
        PROVE  WritesNothing \/ \E s : Writes(cur, s)
    BY <1>4, <2>3
  <2> QED BY <1>2, <1>3, <1>9, <2>1, <2>2, <2>3 DEF AfterAccepted
<1>10. CASE ReceiveUntracked BY <1>2, <1>3, <1>4, <1>10 DEF ReceiveUntracked
<1>11. CASE PollSucceeds \/ PollFails \/ PollUnresolved \/ PollUnauthorized
  BY <1>2, <1>3, <1>4, <1>11 DEF PollSucceeds, PollFails, PollUnresolved, PollUnauthorized
<1> QED BY <1>5, <1>6, <1>7, <1>8, <1>9, <1>10, <1>11 DEF Outcome

\* A record is claimed when an attempt begins, and polled where it is open.
LEMMA ItemWrites ==
  ASSUME IInv, NEW i \in Records, SubmitItem(i) \/ PollItem(i)
  PROVE  WritesNothing \/ \E r : Writes(i, r)
<1> DEFINE old == manifest.records[i]
<1>1. old \in PluManifestRecord /\ disk = manifest
  BY DEF IInv, TypeOK, ImportManifest, ProcessKnows
<1>2. old.status # "SubmissionStarted"
  BY DEF SubmitItem, PollItem, IInv, ProcessKnows
<1>3. CASE InternalError BY <1>3, InternalErrorWrites
<1>4. ASSUME NEW r \in PluManifestRecord, SaveRecord(i, r), UNCHANGED <<inflight, remote>>,
             ClaimStep(ClaimOf(old), ClaimOf(r))
      PROVE  Writes(i, r)
  BY <1>1, <1>4, SaveRecordType DEF IInv, Writes
<1>5. CASE /\ TransitionOk(old, "SubmissionStarted")
           /\ SaveRecord(i, BeginAttempt(old))
           /\ UNCHANGED digiweb
  <2> DEFINE new == BeginAttempt(old)
  <2>1. new \in PluManifestRecord /\ new.status = "SubmissionStarted" BY <1>1, BeginAttemptFacts
  <2> HIDE DEF old
  <2>2. old.status \in {"NotAttempted", "Failed"}
    BY <1>2, <1>5 DEF TransitionOk, MayTransitionTo
  <2>3. ClaimOf(old) \in {"unsent", "failed"} BY <2>2, ClaimFacts
  <2> HIDE DEF new
  <2>4. ClaimOf(new) = "open" BY <2>1, ClaimFacts
  <2>5. Writes(i, new) BY <1>4, <1>5, <2>1, <2>3, <2>4 DEF ClaimStep, digiweb, new
  <2> QED BY <2>5
<1>6. CASE /\ TransitionOk(old, "Processing")
           /\ SaveRecord(i, MarkProcessing(old))
           /\ UNCHANGED <<inflight, remote>>
  <2> DEFINE new == MarkProcessing(old)
  <2>1. new \in PluManifestRecord /\ new.status = "Processing"
    BY <1>1, MarkFacts DEF ErrorMessage
  <2> HIDE DEF old
  <2>2. old.status \in {"RequestAccepted", "Processing", "UnknownStatus"}
    BY <1>6 DEF TransitionOk, MayTransitionTo
  <2>3. ClaimOf(old) = "open" BY <2>2, ClaimFacts
  <2> HIDE DEF new
  <2>4. ClaimOf(new) = "open" BY <2>1, ClaimFacts
  <2>5. Writes(i, new) BY <1>4, <1>6, <2>1, <2>3, <2>4 DEF ClaimStep, new
  <2> QED BY <2>5
<1> QED BY <1>3, <1>5, <1>6 DEF SubmitItem, PollItem, StartPoll

\* A resume closes attempts, which claims nothing new.
LEMMA ResumeWrites ==
  ASSUME IInv, NEW retry \in BOOLEAN, NEW continue \in BOOLEAN, StartResume(retry, continue)
  PROVE  WritesNothing
<1> DEFINE m == MarkRestartedTransientsAmbiguous(disk)
<1>1. disk \in ImportManifest BY DEF IInv, TypeOK
<1>2. /\ m \in ImportManifest
      /\ \A i \in Records :
           m.records[i].status # disk.records[i].status =>
             /\ m.records[i].status = "AmbiguousSubmission"
             /\ disk.records[i].status \in {"SubmissionStarted", "UnknownStatus"}
  BY <1>1, RestartFacts
<1>3. disk' \in {m, RecalculateSummaryForActiveRun(m)} /\ UNCHANGED digiweb
  BY DEF StartResume
<1> HIDE DEF m
<1>4. disk'.records = m.records BY <1>2, <1>3, Recalculated
<1>5. ASSUME NEW i \in Records PROVE ClaimOf(m.records[i]) = ClaimOf(disk.records[i])
  BY <1>2 DEF ClaimOf
<1>6. Claims' = Claims BY <1>4, <1>5 DEF Claims
<1> QED BY <1>3, <1>6 DEF WritesNothing, digiweb

\* The POST leaves only while no job of its record can count.
LEMMA SendIsLedgerStep ==
  ASSUME FailureIsSaid, SuccessIsSaid, IInv, SendPost
  PROVE  Ledger!Next
<1>1. pc = "sending" /\ pc \in OnRecord /\ Unsent BY DEF SendPost, OnRecord, Unsent
<1>2. cur \in Records /\ ClaimOf(Rec) = "open" /\ disk = manifest BY <1>1, CurIsOpen
<1>3. AllFailed(remote[cur]) /\ cur \notin inflight BY <1>1 DEF IInv, ProcessKnows
<1>4. Claims[cur] = "open" BY <1>2 DEF Claims, Rec
<1>5. Claims' = Claims /\ remote' = remote /\ inflight' = inflight \cup {cur}
  BY DEF SendPost, Claims
<1>6. Ledger!Send(cur)
  BY <1>3, <1>4, <1>5 DEF Ledger!Send, Ledger!AllFailed, AllFailed, Claims
<1> QED BY <1>2, <1>6 DEF Ledger!Next

\* DIGIweb creates and ends jobs as the ledger lets it.
LEMMA DigiwebIsLedgerStep ==
  ASSUME NEW i \in Records,
         DigiwebAccepts(i) \/ DigiwebRefuses(i) \/ PostLost(i) \/ DigiwebFinishes(i)
  PROVE  Ledger!Next
<1>1. Claims' = Claims
  BY DEF DigiwebAccepts, DigiwebRefuses, PostLost, DigiwebFinishes, Claims
<1>2. CASE DigiwebAccepts(i)
  <2>1. PICK state \in JobState : remote' = [remote EXCEPT ![i] = Append(@, state)]
    BY <1>2 DEF DigiwebAccepts
  <2>2. state \in Ledger!JobState BY DEF JobState, Ledger!JobState
  <2>3. Ledger!Create(i) BY <1>1, <1>2, <2>1, <2>2 DEF DigiwebAccepts, Ledger!Create, Claims
  <2> QED BY <2>3 DEF Ledger!Next
<1>3. CASE DigiwebRefuses(i) \/ PostLost(i)
  <2>1. Ledger!Lose(i) BY <1>1, <1>3 DEF DigiwebRefuses, PostLost, Ledger!Lose, Claims
  <2> QED BY <2>1 DEF Ledger!Next
<1>4. CASE DigiwebFinishes(i)
  <2>1. Ledger!End(i) BY <1>1, <1>4 DEF DigiwebFinishes, Ledger!End, Claims
  <2> QED BY <2>1 DEF Ledger!Next
<1> QED BY <1>2, <1>3, <1>4

LEMMA StepIsLedgerStep ==
  ASSUME FailureIsSaid, SuccessIsSaid, IInv, IInv', [Next]_vars
  PROVE  [Ledger!Next]_(Ledger!vars)
<1>1. ASSUME WritesNothing \/ \E i \in Records : \E r : Writes(i, r)
      PROVE  [Ledger!Next]_(Ledger!vars)
  BY <1>1, WriteIsLedgerStep, NothingIsLedgerStep
<1>2. CASE Outcome
  <2>1. pc \in OnRecord
    BY <1>2 DEF Outcome, RefreshRefused, RefreshUnreachable, RefreshUnlogged, ReceiveUnauthorized,
         ReceiveHttpError, PostNetworkError, ReceiveTracked, AfterAccepted, ReceiveUntracked,
         PollSucceeds, PollFails, PollUnresolved, PollUnauthorized, OnRecord
  <2>2. cur \in Records BY <2>1, CurIsOpen
  <2> QED BY <1>1, <1>2, <2>2, OutcomeWrites
<1>3. CASE Authenticated \/ CtrlC \/ \E i \in Records : SkipItem(i)
  <2>1. WritesNothing BY <1>3 DEF Authenticated, CtrlC, SkipItem, digiweb, WritesNothing, Claims
  <2> QED BY <1>1, <2>1
<1>4. CASE AuthenticationFails \/ Crash
  <2>1. WritesNothing BY <1>4, EndedOnDisk DEF AuthenticationFails, Crash
  <2> QED BY <1>1, <2>1
<1>5. ASSUME NEW i \in Records, PollItem(i) \/ SubmitItem(i)
      PROVE  [Ledger!Next]_(Ledger!vars)
  BY <1>1, <1>5, ItemWrites
<1>6. CASE (\E i \in Records : InterruptItem(i)) \/ InterruptRecord \/ FinishRun
  <2>1. manifest \in ImportManifest BY DEF IInv, TypeOK
  <2>2. /\ MarkInterrupted(manifest).records = manifest.records
        /\ RecalculateSummary(manifest).records = manifest.records
    BY <2>1, Recalculated
  <2>3. WritesNothing
    BY <1>6, <2>2, EndedWithSummaryWrites DEF InterruptItem, InterruptRecord, FinishRun
  <2> QED BY <1>1, <2>3
<1>7. CASE SendPost BY <1>7, SendIsLedgerStep
<1>8. CASE Resume
  <2>1. WritesNothing BY <1>8, ResumeWrites DEF Resume
  <2> QED BY <1>1, <2>1
<1>9. CASE DigiwebStep BY <1>9, DigiwebIsLedgerStep DEF DigiwebStep
<1>10. CASE UNCHANGED vars
  <2>1. WritesNothing BY <1>10 DEF vars, process, digiweb, WritesNothing, Claims
  <2> QED BY <1>1, <2>1
<1> QED
  BY <1>2, <1>3, <1>4, <1>5, <1>6, <1>7, <1>8, <1>9, <1>10 DEF Next, RunnerStep, Outcome

\* Where every accepted POST is answered readably, no request id is blank and a status
\* request is answered by more than an empty 202, an import with all its resumes
\* keeps the ledger, for every number of records, crashes, interrupts and retries.
THEOREM LedgerKept ==
  ASSUME FailureIsSaid, SuccessIsSaid
  PROVE  Spec => KeepsLedger
<1>1. Init => Ledger!Init
  <2> SUFFICES ASSUME Init PROVE Ledger!Init OBVIOUS
  <2>1. \A i \in Records : ClaimOf(disk.records[i]) = "unsent"
    BY DEF Init, NewManifest, NewRecord, ClaimOf
  <2> QED BY <2>1 DEF Init, Ledger!Init
<1>2. IInv /\ IInv' /\ [Next]_vars => [Ledger!Next]_(Ledger!vars) BY StepIsLedgerStep
<1> QED BY Safe, <1>1, <1>2, PTL DEF Spec, KeepsLedger, Ledger!Spec

-----------------------------------------------------------------------------
(* What the ledger is worth: its guards alone, without runs, plans and       *)
(* request ids, leave room for one job that counts.                          *)

\* What the ledger keeps of record i.
Kept(i) ==
  /\ Claims[i] = "unsent" => remote[i] = <<>> /\ i \notin inflight
  /\ Claims[i] = "failed" => i \notin inflight /\ Ledger!AllFailed(i)
  /\ Claims[i] = "done" => remote[i] # <<>> /\ remote[i][Len(remote[i])] = "success"
  /\ i \in inflight => Ledger!AllFailed(i)
  /\ \A n \in DOMAIN remote[i] : n < Len(remote[i]) => remote[i][n] = "fail"

LedgerInv ==
  /\ remote \in [Records -> Seq(JobState)]
  /\ \A i \in Records : Kept(i)

\* A record whose claim, posts and jobs stay is kept.
LEMMA KeptStays ==
  ASSUME NEW i, Kept(i), Claims'[i] = Claims[i], remote'[i] = remote[i],
         i \in inflight' => i \in inflight
  PROVE  Kept(i)'
BY DEF Kept, Ledger!AllFailed

LEMMA LedgerStepKeeps ==
  ASSUME LedgerInv, [Ledger!Next]_(Ledger!vars)
  PROVE  LedgerInv'
<1>0. /\ remote \in [Records -> Seq(JobState)] /\ \A i \in Records : Kept(i)
      /\ \A i \in Records : Claims[i] = ClaimOf(disk.records[i])
  BY DEF LedgerInv, Claims
<1>1. CASE UNCHANGED Ledger!vars
  <2>1. Claims' = Claims /\ inflight' = inflight /\ remote' = remote
    BY <1>1 DEF Ledger!vars, Claims
  <2> QED BY <1>0, <2>1, KeptStays DEF LedgerInv
<1>2. ASSUME NEW i \in Records, NEW c, Claims' = [Claims EXCEPT ![i] = c],
             remote' = remote, inflight' = inflight, Kept(i)'
      PROVE  LedgerInv'
  <2>1. ASSUME NEW j \in Records, j # i PROVE Kept(j)'
    <3>1. Claims'[j] = Claims[j] BY <1>2, <2>1 DEF Claims
    <3> QED BY <1>0, <1>2, <2>1, <3>1, KeptStays
  <2> QED BY <1>0, <1>2, <2>1 DEF LedgerInv
<1>3. ASSUME NEW i \in Records, NEW jobs \in Seq(JobState), Claims' = Claims,
             remote' = [remote EXCEPT ![i] = jobs], inflight' \subseteq inflight, Kept(i)'
      PROVE  LedgerInv'
  <2>1. ASSUME NEW j \in Records, j # i PROVE Kept(j)'
    <3>1. remote'[j] = remote[j] /\ Claims'[j] = Claims[j] BY <1>0, <1>3, <2>1
    <3> QED BY <1>0, <1>3, <3>1, KeptStays
  <2>2. remote' \in [Records -> Seq(JobState)] BY <1>0, <1>3
  <2> QED BY <1>3, <2>1, <2>2 DEF LedgerInv
<1>4. SUFFICES ASSUME NEW i \in Records,
                      \/ Ledger!Claim(i) \/ Ledger!Send(i) \/ Ledger!Create(i)
                      \/ Ledger!Lose(i) \/ Ledger!End(i) \/ Ledger!Succeed(i)
                      \/ Ledger!Fail(i)
               PROVE  LedgerInv'
  BY <1>1 DEF Ledger!Next
<1>5. Kept(i) /\ remote[i] \in Seq(JobState) BY <1>0
<1>6. CASE Ledger!Claim(i)
  <2>1. /\ Claims' = [Claims EXCEPT ![i] = "open"] /\ Claims[i] \in {"unsent", "failed"}
        /\ remote' = remote /\ inflight' = inflight
    BY <1>6 DEF Ledger!Claim, Claims
  <2>2. Claims'[i] = "open" BY <2>1 DEF Claims
  <2>3. Kept(i)' BY <1>5, <2>1, <2>2 DEF Kept, Ledger!AllFailed
  <2> QED BY <1>2, <2>1, <2>3
<1>7. CASE Ledger!Succeed(i)
  <2>1. /\ Claims' = [Claims EXCEPT ![i] = "done"]
        /\ remote[i] # <<>> /\ remote[i][Len(remote[i])] = "success"
        /\ remote' = remote /\ inflight' = inflight
    BY <1>7 DEF Ledger!Succeed, Claims
  <2>2. Claims'[i] = "done" BY <2>1 DEF Claims
  <2>3. Kept(i)' BY <1>5, <2>1, <2>2 DEF Kept, Ledger!AllFailed
  <2> QED BY <1>2, <2>1, <2>3
<1>8. CASE Ledger!Fail(i)
  <2>1. /\ Claims' = [Claims EXCEPT ![i] = "failed"]
        /\ i \notin inflight /\ Ledger!AllFailed(i)
        /\ remote' = remote /\ inflight' = inflight
    BY <1>8 DEF Ledger!Fail, Claims
  <2>2. Claims'[i] = "failed" BY <2>1 DEF Claims
  <2>3. Kept(i)' BY <1>5, <2>1, <2>2 DEF Kept, Ledger!AllFailed
  <2> QED BY <1>2, <2>1, <2>3
<1>9. CASE Ledger!Send(i)
  <2>1. /\ Claims[i] = "open" /\ Ledger!AllFailed(i)
        /\ Claims' = Claims /\ remote' = remote /\ inflight' = inflight \cup {i}
    BY <1>9 DEF Ledger!Send, Claims
  <2>2. Kept(i)' BY <1>5, <2>1 DEF Kept, Ledger!AllFailed
  <2>3. ASSUME NEW j \in Records, j # i PROVE Kept(j)' BY <1>0, <2>1, <2>3, KeptStays
  <2> QED BY <1>0, <2>1, <2>2, <2>3 DEF LedgerInv
<1>10. CASE Ledger!Lose(i)
  <2>1. Claims' = Claims /\ remote' = remote /\ inflight' \subseteq inflight
    BY <1>10 DEF Ledger!Lose, Claims
  <2> QED BY <1>0, <2>1, KeptStays DEF LedgerInv
<1>11. CASE Ledger!Create(i)
  <2>1. PICK state \in JobState : remote' = [remote EXCEPT ![i] = Append(@, state)]
    BY <1>11 DEF Ledger!Create, Ledger!JobState, JobState
  <2>2. i \in inflight /\ inflight' = inflight \ {i} /\ Claims' = Claims
    BY <1>11 DEF Ledger!Create, Claims
  <2> DEFINE jobs == Append(remote[i], state)
  <2>3. /\ jobs \in Seq(JobState) /\ remote' = [remote EXCEPT ![i] = jobs] /\ remote'[i] = jobs
        /\ Len(jobs) = Len(remote[i]) + 1 /\ Len(remote[i]) \in Nat
        /\ \A n \in DOMAIN remote[i] : jobs[n] = remote[i][n]
        /\ DOMAIN jobs = 1 .. Len(jobs) /\ DOMAIN remote[i] = 1 .. Len(remote[i])
    BY <1>0, <1>5, <2>1
  <2> HIDE DEF jobs
  <2>4. Claims[i] # "unsent" /\ Claims[i] # "failed" BY <1>5, <2>2 DEF Kept
  <2>5. Claims[i] # "done"
    <3>1. SUFFICES ASSUME Claims[i] = "done" PROVE FALSE OBVIOUS
    <3>2. remote[i] # <<>> /\ remote[i][Len(remote[i])] = "success" BY <1>5, <3>1 DEF Kept
    <3>3. Len(remote[i]) \in DOMAIN remote[i] BY <1>5, <3>2
    <3> QED BY <1>5, <2>2, <3>2, <3>3 DEF Kept, Ledger!AllFailed
  <2>6. ASSUME NEW n \in DOMAIN jobs, n < Len(jobs) PROVE jobs[n] = "fail"
    <3>1. n \in DOMAIN remote[i] BY <2>3, <2>6
    <3>2. remote[i][n] = "fail" BY <1>5, <2>2, <3>1 DEF Kept, Ledger!AllFailed
    <3> QED BY <2>3, <3>1, <3>2
  <2>7. Kept(i)' BY <2>2, <2>3, <2>4, <2>5, <2>6 DEF Kept
  <2> QED BY <1>3, <2>2, <2>3, <2>7
<1>12. CASE Ledger!End(i)
  <2>1. PICK n \in DOMAIN remote[i], state \in {"success", "fail"} :
          remote[i][n] = "processing" /\ remote' = [remote EXCEPT ![i][n] = state]
    BY <1>12 DEF Ledger!End
  <2>2. inflight' = inflight /\ Claims' = Claims BY <1>12 DEF Ledger!End, Claims
  <2> DEFINE jobs == [remote[i] EXCEPT ![n] = state]
  <2>3. /\ jobs \in Seq(JobState) /\ remote' = [remote EXCEPT ![i] = jobs] /\ remote'[i] = jobs
        /\ Len(jobs) = Len(remote[i]) /\ Len(remote[i]) \in Nat
        /\ DOMAIN jobs = 1 .. Len(remote[i]) /\ DOMAIN remote[i] = 1 .. Len(remote[i])
        /\ \A k \in DOMAIN jobs : k # n => jobs[k] = remote[i][k]
    <3>1. state \in JobState BY DEF JobState
    <3> QED BY <1>0, <1>5, <2>1, <3>1
  <2> HIDE DEF jobs
  <2>4. n = Len(remote[i]) /\ remote[i] # <<>>
    <3>1. ~ (n < Len(remote[i])) BY <1>5, <2>1 DEF Kept
    <3> QED BY <2>1, <2>3, <3>1
  <2>5. ~ Ledger!AllFailed(i) BY <2>1 DEF Ledger!AllFailed
  <2>6. /\ Claims[i] \notin {"unsent", "failed", "done"}
        /\ i \notin inflight
    BY <1>5, <2>1, <2>4, <2>5 DEF Kept
  <2>7. \A k \in DOMAIN jobs : k < Len(jobs) => jobs[k] = "fail"
    BY <1>5, <2>3, <2>4 DEF Kept
  <2>8. Kept(i)' BY <2>2, <2>3, <2>6, <2>7 DEF Kept
  <2> QED BY <1>3, <2>2, <2>3, <2>8
<1> QED BY <1>4, <1>6, <1>7, <1>8, <1>9, <1>10, <1>11, <1>12

\* Whatever keeps the ledger leaves DIGIweb without two jobs of one record unless the
\* earlier one failed: the guards on the claims alone see to it, with no request id,
\* no plan and no run.
THEOREM LedgerForbidsDuplicates == KeepsLedger => []NoDuplicateJob
<1>1. Ledger!Init => LedgerInv
  <2> SUFFICES ASSUME Ledger!Init PROVE LedgerInv OBVIOUS
  <2>1. remote = [i \in Records |-> <<>>] /\ inflight = {} /\ Claims = [i \in Records |-> "unsent"]
    BY DEF Ledger!Init, Claims
  <2> QED BY <2>1 DEF LedgerInv, Kept
<1>2. LedgerInv /\ [Ledger!Next]_(Ledger!vars) => LedgerInv' BY LedgerStepKeeps
<1>3. LedgerInv => NoDuplicateJob
  BY DEF LedgerInv, Kept, NoDuplicateJob, Ledger!AllFailed
<1> QED BY <1>1, <1>2, <1>3, PTL DEF KeepsLedger, Ledger!Spec
=============================================================================

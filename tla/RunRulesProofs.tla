---------------------------- MODULE RunRulesProofs ----------------------------
(***************************************************************************)
(* The rules the runner keeps on the way: its plan stays true while it is  *)
(* worked off, what it writes over a record is a step of the record's      *)
(* state machine, no outcome ends it with an internal error, polls precede *)
(* submissions, it stops where it should and nowhere else, its exit code   *)
(* is what became of the records, the next run can resume it, and all runs *)
(* together submit a record once and once more for each --retry-failed.    *)
(***************************************************************************)
EXTENDS ImportSafetyProofs

-----------------------------------------------------------------------------
(* What may be written over a record *)

LegalRewrite(old, new) ==
  /\ TransitionOk(old, new.status)
  /\ old.request_id # NoRequest /\ new.request_id # old.request_id => old.status = "Failed"
  /\ new.attempt_count # old.attempt_count => old.status \in {"NotAttempted", "Failed"}

LegalWrite == \A i \in Records : LegalRewrite(disk.records[i], disk'.records[i])

\* A record left as it is.
LEMMA LegalStutter == ASSUME NEW r PROVE LegalRewrite(r, r)
BY DEF LegalRewrite, TransitionOk

LEMMA NothingWrittenLegal == disk'.records = disk.records => LegalWrite
BY LegalStutter DEF LegalWrite

LEMMA OneWrittenLegal ==
  ASSUME TypeOK, NEW i \in Records, NEW r, LegalRewrite(disk.records[i], r),
         disk'.records = [disk.records EXCEPT ![i] = r]
  PROVE  LegalWrite
<1>1. disk.records \in [Records -> PluManifestRecord] BY DEF TypeOK, ImportManifest
<1> QED BY <1>1, LegalStutter DEF LegalWrite

\* The mark_* operations count no attempt; only the one that stores a request id
\* changes it.
LEMMA MarksKeep ==
  ASSUME NEW r \in PluManifestRecord, NEW text, NEW id
  PROVE  /\ MarkRequestAccepted(r, id).attempt_count = r.attempt_count
         /\ MarkProcessing(r).attempt_count = r.attempt_count
         /\ MarkSuccess(r).attempt_count = r.attempt_count
         /\ MarkFailed(r, text).attempt_count = r.attempt_count
         /\ MarkUnknown(r, text).attempt_count = r.attempt_count
         /\ MarkAmbiguous(r, text).attempt_count = r.attempt_count
BY DEF PluManifestRecord, MarkRequestAccepted, MarkProcessing, MarkSuccess, MarkFailed,
       MarkUnknown, MarkAmbiguous

\* What becomes of the current record where its status lets it become so.
LEMMA MarksLegal ==
  ASSUME NEW r \in PluManifestRecord, NEW text \in ErrorMessage, NEW id \in RequestId
  PROVE  /\ TransitionOk(r, "RequestAccepted") /\ r.request_id = NoRequest =>
              LegalRewrite(r, MarkRequestAccepted(r, id))
         /\ TransitionOk(r, "Processing") => LegalRewrite(r, MarkProcessing(r))
         /\ TransitionOk(r, "Success") => LegalRewrite(r, MarkSuccess(r))
         /\ TransitionOk(r, "Failed") => LegalRewrite(r, MarkFailed(r, text))
         /\ TransitionOk(r, "UnknownStatus") => LegalRewrite(r, MarkUnknown(r, text))
         /\ r.status = "SubmissionStarted" => LegalRewrite(r, MarkAmbiguous(r, text))
<1>1. r.status = "SubmissionStarted" => TransitionOk(r, "AmbiguousSubmission")
  BY DEF TransitionOk, MayTransitionTo
<1> QED BY <1>1, MarksKeep, MarkFacts, MarkRequestAcceptedFacts DEF LegalRewrite

\* The sanitizer leaves no marker in a text of DIGIweb.
TextsClean == Texts \subseteq {"clean"}

\* What an outcome makes of a record: a legal rewrite that leaves it attempted, as
\* often as it was, and its attempts as sound as they were.
Rewrites(old, new) ==
  /\ new \in PluManifestRecord
  /\ LegalRewrite(old, new)
  /\ new.status # "NotAttempted" /\ Len(new.attempts) = Len(old.attempts)
  /\ TextsClean /\ AttemptsSound(old) => AttemptsSound(new)

LEMMA MarksRewrite ==
  ASSUME NEW r \in PluManifestRecord, NEW text \in Texts \cup {"clean"}, NEW id \in RequestId
  PROVE  /\ TransitionOk(r, "RequestAccepted") /\ r.request_id = NoRequest =>
              Rewrites(r, MarkRequestAccepted(r, id))
         /\ TransitionOk(r, "Processing") => Rewrites(r, MarkProcessing(r))
         /\ TransitionOk(r, "Success") => Rewrites(r, MarkSuccess(r))
         /\ TransitionOk(r, "Failed") => Rewrites(r, MarkFailed(r, text))
         /\ TransitionOk(r, "UnknownStatus") => Rewrites(r, MarkUnknown(r, text))
         /\ r.status = "SubmissionStarted" => Rewrites(r, MarkAmbiguous(r, text))
<1>1. text \in ErrorMessage /\ (TextsClean => text = "clean")
  BY TextsAssumption DEF ErrorMessage, TextsClean
<1> QED BY <1>1, MarksLegal, MarksSound, MarkFacts, MarkRequestAcceptedFacts DEF Rewrites

-----------------------------------------------------------------------------
(* The shapes of an outcome *)

\* The process ends with r saved.
StopsWith(r) ==
  Ended(RecalculateSummaryForActiveRun(SetRecord(manifest, cur, r)), "error")

\* The process goes on with its record, saved as r.
GoesOnWith(r) ==
  /\ SaveRecord(cur, r)
  /\ pc' \in {"accepted", "polling"}
  /\ UNCHANGED <<run, plan, todo, cur, exit, retryRuns>>

Resends ==
  /\ pc = "awaiting" /\ pc' = "sending"
  /\ UNCHANGED <<disk, manifest, run, plan, todo, cur, exit, retryRuns>>

Settles(r) ==
  /\ Rewrites(Rec, r)
  /\ \/ RecordDone(r) /\ r.status \in {"Success", "Failed", "UnknownStatus", "AmbiguousSubmission"}
     \/ StopsWith(r)
     \/ GoesOnWith(r)

\* Whatever becomes of a submission or a poll, the record is rewritten legally,
\* sent again as it is, or left by a process that ends.
LEMMA OutcomeShape ==
  ASSUME IInv, Outcome
  PROVE  /\ pc \in OnRecord
         /\ InternalError \/ Resends \/ \E r : Settles(r)
<1>0. pc \in OnRecord
  BY DEF Outcome, RefreshRefused, RefreshUnreachable, RefreshUnlogged,
         ReceiveUnauthorized, ReceiveHttpError, PostNetworkError,
         ReceiveTracked, AfterAccepted, ReceiveUntracked,
         PollSucceeds, PollFails, PollUnresolved, PollUnauthorized, OnRecord
<1> SUFFICES InternalError \/ Resends \/ \E r : Settles(r) BY <1>0
<1>1. /\ cur \in Records /\ Rec \in PluManifestRecord /\ remote[cur] \in Seq(JobState)
      /\ Truthful(Rec, remote[cur], cur \in inflight)
  BY <1>0, CurFacts
<1>2. /\ "clean" \in ErrorMessage /\ \A text \in Texts : text \in ErrorMessage
  BY TextsAssumption DEF ErrorMessage
<1>3. pc \in {"sending", "awaiting"} =>
        Rec.status = "SubmissionStarted" /\ Rec.request_id = NoRequest
  BY <1>1 DEF IInv, ProcessKnows, Truthful
<1>4. ASSUME NEW text \in Texts \cup {"clean"}, RecordDoneIfLegal(MarkFailed(Rec, text))
      PROVE  InternalError \/ \E r : Settles(r)
  <2>0. text \in ErrorMessage BY <1>2
  <2>1. MarkFailed(Rec, text) \in PluManifestRecord /\ MarkFailed(Rec, text).status = "Failed"
    BY <1>1, <2>0, MarkFacts
  <2>2. TransitionOk(Rec, "Failed") => Rewrites(Rec, MarkFailed(Rec, text))
    BY <1>1, MarksRewrite DEF RequestId
  <2>3. InternalError \/ Settles(MarkFailed(Rec, text))
    BY <1>4, <2>1, <2>2 DEF RecordDoneIfLegal, Settles
  <2> QED BY <2>3
<1>5. ASSUME NEW text \in Texts \cup {"clean"},
             RecordDoneIfLegal(MarkUnknown(Rec, text)) \/ AuthStops(MarkUnknown(Rec, text))
      PROVE  InternalError \/ \E r : Settles(r)
  <2>0. text \in ErrorMessage BY <1>2
  <2>1. /\ MarkUnknown(Rec, text) \in PluManifestRecord
        /\ MarkUnknown(Rec, text).status = "UnknownStatus"
    BY <1>1, <2>0, MarkFacts
  <2>2. TransitionOk(Rec, "UnknownStatus") => Rewrites(Rec, MarkUnknown(Rec, text))
    BY <1>1, MarksRewrite DEF RequestId
  <2>3. InternalError \/ Settles(MarkUnknown(Rec, text))
    BY <1>5, <2>1, <2>2 DEF RecordDoneIfLegal, AuthStops, StopsWith, Settles
  <2> QED BY <2>3
<1>6. ASSUME RecordDoneIfLegal(MarkSuccess(Rec))
      PROVE  InternalError \/ \E r : Settles(r)
  <2>1. MarkSuccess(Rec) \in PluManifestRecord /\ MarkSuccess(Rec).status = "Success"
    BY <1>1, <1>2, MarkFacts
  <2>2. TransitionOk(Rec, "Success") => Rewrites(Rec, MarkSuccess(Rec))
    BY <1>1, <1>2, MarksRewrite DEF RequestId
  <2>3. InternalError \/ Settles(MarkSuccess(Rec))
    BY <1>6, <2>1, <2>2 DEF RecordDoneIfLegal, Settles
  <2> QED BY <2>3
<1>7. ASSUME NEW text \in Texts \cup {"clean"}, pc \in {"sending", "awaiting"},
             RecordDone(MarkAmbiguous(Rec, text))
      PROVE  \E r : Settles(r)
  <2>0. text \in ErrorMessage BY <1>2
  <2>1. /\ MarkAmbiguous(Rec, text) \in PluManifestRecord
        /\ MarkAmbiguous(Rec, text).status = "AmbiguousSubmission"
    BY <1>1, <2>0, MarkFacts
  <2>2. Rewrites(Rec, MarkAmbiguous(Rec, text)) BY <1>1, <1>3, <1>7, MarksRewrite DEF RequestId
  <2>3. Settles(MarkAmbiguous(Rec, text)) BY <1>7, <2>1, <2>2 DEF Settles
  <2> QED BY <2>3
<1>8. ASSUME AuthStops(MarkFailed(Rec, "clean"))
      PROVE  InternalError \/ \E r : Settles(r)
  <2>1. /\ MarkFailed(Rec, "clean") \in PluManifestRecord
        /\ MarkFailed(Rec, "clean").status = "Failed"
    BY <1>1, <1>2, MarkFacts
  <2>2. TransitionOk(Rec, "Failed") => Rewrites(Rec, MarkFailed(Rec, "clean"))
    BY <1>1, <1>2, MarksRewrite DEF RequestId
  <2>3. InternalError \/ Settles(MarkFailed(Rec, "clean"))
    BY <1>8, <2>1, <2>2 DEF AuthStops, StopsWith, Settles
  <2> QED BY <2>3
<1>9. CASE RefreshRefused \/ RefreshUnreachable \/ RefreshUnlogged \/ PostNetworkError
  BY <1>2, <1>4, <1>7, <1>8, <1>9
  DEF RefreshRefused, RefreshUnreachable, RefreshUnlogged, PostNetworkError
<1>10. CASE ReceiveUnauthorized
  <2>1. CASE AuthStops(MarkFailed(Rec, "clean")) BY <1>8, <2>1
  <2>2. CASE /\ pc' = "sending"
             /\ UNCHANGED <<disk, manifest, run, plan, todo, cur, exit, retryRuns>>
    BY <1>10, <2>2 DEF Resends, ReceiveUnauthorized
  <2> QED BY <1>10, <2>1, <2>2 DEF ReceiveUnauthorized
<1>11. CASE ReceiveHttpError BY <1>2, <1>4, <1>11 DEF ReceiveHttpError
<1>12. CASE ReceiveTracked
  <2> DEFINE id == IF reply.form = "blank" THEN BlankId ELSE Len(remote[cur])
             r == MarkRequestAccepted(Rec, id)
  <2>1. id \in RequestId BY <1>1 DEF RequestId
  <2>2. r \in PluManifestRecord /\ r.status = "RequestAccepted"
    BY <1>1, <2>1, MarkRequestAcceptedFacts
  <2>3. TransitionOk(Rec, "RequestAccepted") => Rewrites(Rec, r)
    BY <1>1, <1>2, <1>3, <1>12, <2>1, MarksRewrite DEF ReceiveTracked
  <2>4. \/ InternalError
        \/ /\ TransitionOk(Rec, r.status) /\ SaveRecord(cur, r) /\ pc' = "accepted"
           /\ UNCHANGED <<run, plan, todo, cur, exit, retryRuns>>
    BY <1>12 DEF ReceiveTracked
  <2> HIDE DEF r
  <2>5. InternalError \/ Settles(r) BY <2>2, <2>3, <2>4 DEF Settles, GoesOnWith
  <2> QED BY <2>5
<1>13. CASE AfterAccepted
  <2>1. CASE InternalError BY <2>1
  <2>2. CASE /\ TransitionOk(Rec, "Processing") /\ StartPoll(cur)
             /\ UNCHANGED <<run, plan, todo, exit, retryRuns>>
    <3>1. MarkProcessing(Rec) \in PluManifestRecord BY <1>1, <1>2, MarkFacts
    <3>2. Rewrites(Rec, MarkProcessing(Rec)) BY <1>1, <1>2, <2>2, MarksRewrite DEF RequestId
    <3>3. GoesOnWith(MarkProcessing(Rec)) BY <2>2 DEF GoesOnWith, StartPoll, Rec
    <3>4. Settles(MarkProcessing(Rec)) BY <3>1, <3>2, <3>3 DEF Settles
    <3> QED BY <3>4
  <2> QED BY <1>2, <1>4, <1>5, <1>6, <1>13, <2>1, <2>2 DEF AfterAccepted
<1>14. CASE ReceiveUntracked
  BY <1>2, <1>4, <1>6, <1>7, <1>14 DEF ReceiveUntracked
<1>15. CASE PollSucceeds \/ PollFails \/ PollUnresolved \/ PollUnauthorized
  BY <1>2, <1>4, <1>5, <1>6, <1>15
     DEF PollSucceeds, PollFails, PollUnresolved, PollUnauthorized
<1> QED BY <1>9, <1>10, <1>11, <1>12, <1>13, <1>14, <1>15 DEF Outcome

\* The records on disk after a record has been settled.
LEMMA SettledRecords ==
  ASSUME IInv, pc \in OnRecord, NEW r, Settles(r)
  PROVE  /\ disk'.records = [disk.records EXCEPT ![cur] = r]
         /\ manifest' = disk'
<1>1. cur \in Records /\ disk = manifest /\ manifest \in ImportManifest /\ TypeOK
  BY CurFacts DEF IInv, ProcessKnows, TypeOK
<1>2. CASE StopsWith(r)
  <2>1. /\ SetRecord(manifest, cur, r) \in ImportManifest
        /\ SetRecord(manifest, cur, r).records = [manifest.records EXCEPT ![cur] = r]
    BY <1>1, SetRecordType DEF Settles, Rewrites
  <2> QED BY <1>1, <1>2, <2>1, Recalculated DEF StopsWith, Ended
<1>3. CASE SaveRecord(cur, r) BY <1>1, <1>3, SaveRecordType DEF Settles, Rewrites
<1> QED BY <1>2, <1>3 DEF Settles, RecordDone, GoesOnWith

-----------------------------------------------------------------------------
(* Every write is legal *)

LEMMA OutcomeLegal == ASSUME IInv, Outcome PROVE LegalWrite
<1>1. pc \in OnRecord BY OutcomeShape
<1>2. cur \in Records /\ disk = manifest BY <1>1, CurFacts DEF IInv, ProcessKnows
<1>3. CASE InternalError \/ Resends
  BY <1>3, NothingWrittenLegal DEF InternalError, Ended, Resends
<1>4. ASSUME NEW r, Settles(r) PROVE LegalWrite
  <2>1. disk'.records = [disk.records EXCEPT ![cur] = r] BY <1>1, <1>4, SettledRecords
  <2>2. LegalRewrite(disk.records[cur], r) BY <1>2, <1>4 DEF Settles, Rewrites, Rec
  <2> QED BY <1>2, <2>1, <2>2, OneWrittenLegal DEF IInv
<1> QED BY <1>3, <1>4, OutcomeShape

LEMMA ItemLegal ==
  ASSUME IInv, NEW i \in Records, SubmitItem(i) \/ PollItem(i)
  PROVE  LegalWrite
<1> DEFINE old == manifest.records[i]
<1>1. /\ old \in PluManifestRecord /\ disk = manifest /\ TypeOK
      /\ old.status # "SubmissionStarted"
      /\ Truthful(old, remote[i], i \in inflight) /\ remote[i] \in Seq(JobState)
  BY DEF IInv, TypeOK, ImportManifest, ProcessKnows, RecordsTruthful, SubmitItem, PollItem
<1>2. CASE InternalError BY <1>2, NothingWrittenLegal DEF InternalError, Ended
<1>3. ASSUME NEW r \in PluManifestRecord, SaveRecord(i, r), LegalRewrite(old, r)
      PROVE  LegalWrite
  <2>1. disk'.records = [disk.records EXCEPT ![i] = r] BY <1>1, <1>3, SaveRecordType
  <2> QED BY <1>1, <1>3, <2>1, OneWrittenLegal
<1> HIDE DEF old
<1>4. ASSUME TransitionOk(old, "SubmissionStarted")
      PROVE  LegalRewrite(old, BeginAttempt(old))
  <2>1. old.status \in {"NotAttempted", "Failed"}
    BY <1>1, <1>4 DEF TransitionOk, MayTransitionTo
  <2>2. old.status = "NotAttempted" => old.request_id = NoRequest
    BY <1>1 DEF Truthful, NoRequest
  <2>3. BeginAttempt(old).status = "SubmissionStarted" BY <1>1, BeginAttemptFacts
  <2> QED BY <1>4, <2>1, <2>2, <2>3 DEF LegalRewrite
<1>5. BeginAttempt(old) \in PluManifestRecord BY <1>1, BeginAttemptFacts
<1>6. CASE TransitionOk(old, "SubmissionStarted") /\ SaveRecord(i, BeginAttempt(old))
  BY <1>3, <1>4, <1>5, <1>6
<1>7. CASE TransitionOk(old, "Processing") /\ SaveRecord(i, MarkProcessing(old))
  <2>1. "clean" \in ErrorMessage BY DEF ErrorMessage
  <2>2. MarkProcessing(old) \in PluManifestRecord BY <1>1, <2>1, MarkFacts
  <2>3. LegalRewrite(old, MarkProcessing(old)) BY <1>1, <1>7, <2>1, MarksLegal DEF RequestId
  <2> QED BY <1>3, <1>7, <2>2, <2>3
<1>8. \/ InternalError
      \/ TransitionOk(old, "SubmissionStarted") /\ SaveRecord(i, BeginAttempt(old))
      \/ TransitionOk(old, "Processing") /\ SaveRecord(i, MarkProcessing(old))
  BY DEF SubmitItem, PollItem, StartPoll, old
<1> QED BY <1>2, <1>6, <1>7, <1>8

\* A restart closes attempts; an unknown status it could close has a request id.
LEMMA ResumeLegal ==
  ASSUME IInv, NEW retry \in BOOLEAN, NEW continue \in BOOLEAN, StartResume(retry, continue)
  PROVE  LegalWrite
<1> DEFINE m == MarkRestartedTransientsAmbiguous(disk)
<1>1. disk \in ImportManifest /\ disk = manifest BY DEF IInv, TypeOK, ProcessKnows
<1>2. m \in ImportManifest BY <1>1, RestartFacts
<1>3. ASSUME NEW i \in Records
      PROVE  m.records[i] \in {disk.records[i], RestartRecord(disk.records[i])}
  <2> DEFINE recs == [j \in Records |-> RestartRecord(disk.records[j])]
             changed == [disk EXCEPT !.records = recs]
  <2>1. changed.records = recs BY <1>1 DEF ImportManifest
  <2> HIDE DEF changed
  <2>2. RecalculateSummary(changed).records = recs
    <3>1. \A j \in Records : RestartRecord(disk.records[j]) \in PluManifestRecord
      <4> SUFFICES ASSUME NEW j \in Records
                   PROVE  RestartRecord(disk.records[j]) \in PluManifestRecord
        OBVIOUS
      <4>1. disk.records[j] \in PluManifestRecord BY <1>1 DEF ImportManifest
      <4>2. MarkAmbiguous(disk.records[j], "clean") \in PluManifestRecord
        BY <4>1, MarkFacts DEF ErrorMessage
      <4> QED BY <4>1, <4>2 DEF RestartRecord, PluManifestRecord, RecordStatus
    <3>2. changed \in ImportManifest BY <1>1, <3>1 DEF changed, ImportManifest
    <3> QED BY <2>1, <3>2, Recalculated
  <2> QED BY <2>2 DEF MarkRestartedTransientsAmbiguous, changed
<1>4. disk'.records = m.records
  <2>1. disk' \in {m, RecalculateSummaryForActiveRun(m)} BY DEF StartResume
  <2> HIDE DEF m
  <2> QED BY <1>2, <2>1, Recalculated
<1> HIDE DEF m
<1>5. ASSUME NEW i \in Records PROVE LegalRewrite(disk.records[i], disk'.records[i])
  <2> DEFINE old == disk.records[i]
  <2>1. old \in PluManifestRecord /\ Truthful(old, remote[i], i \in inflight)
    BY <1>1 DEF ImportManifest, IInv, RecordsTruthful
  <2> HIDE DEF old
  <2>2. RestartRecord(old) \in {old, MarkAmbiguous(old, "clean")}
        /\ (RestartRecord(old) = MarkAmbiguous(old, "clean") =>
              old.status = "SubmissionStarted" \/ RestartRecord(old) = old)
    BY <2>1 DEF RestartRecord, Truthful
  <2>3. LegalRewrite(old, RestartRecord(old))
    BY <2>1, <2>2, MarksLegal, LegalStutter DEF RequestId, ErrorMessage
  <2>4. disk'.records[i] \in {old, RestartRecord(old)} BY <1>3, <1>4 DEF old
  <2> QED BY <2>3, <2>4, LegalStutter DEF old
<1> QED BY <1>5 DEF LegalWrite

LEMMA StepIsLegalWrite == IInv /\ [Next]_vars => LegalWrite
<1> SUFFICES ASSUME IInv, [Next]_vars PROVE LegalWrite OBVIOUS
<1>1. CASE Outcome BY <1>1, OutcomeLegal
<1>2. CASE \E i \in Records : SubmitItem(i) \/ PollItem(i) BY <1>2, ItemLegal
<1>3. CASE Resume BY <1>3, ResumeLegal DEF Resume
<1>4. CASE (\E i \in Records : InterruptItem(i)) \/ InterruptRecord \/ FinishRun
  <2>1. /\ manifest \in ImportManifest
        /\ disk = manifest \/ pc = "idle"
        /\ pc # "idle"
    BY <1>4 DEF IInv, TypeOK, ProcessKnows, InterruptItem, InterruptRecord, FinishRun, Waiting
  <2>2. disk' \in {MarkInterrupted(manifest), RecalculateSummary(manifest)}
    BY <1>4 DEF InterruptItem, InterruptRecord, FinishRun, EndedWithSummary, Ended
  <2> QED BY <2>1, <2>2, Recalculated, NothingWrittenLegal
<1>5. CASE AuthenticationFails \/ Crash
  BY <1>5, NothingWrittenLegal DEF AuthenticationFails, Crash, Ended
<1>6. CASE \/ Authenticated \/ SendPost \/ CtrlC \/ DigiwebStep
           \/ \E i \in Records : SkipItem(i)
           \/ UNCHANGED vars
  <2>1. disk' = disk
    BY <1>6 DEF Authenticated, SendPost, CtrlC, DigiwebStep, SkipItem, vars, DigiwebAccepts,
         DigiwebRefuses, PostLost, DigiwebFinishes
  <2> QED BY <2>1, NothingWrittenLegal
<1> QED BY <1>1, <1>2, <1>3, <1>4, <1>5, <1>6 DEF Next, RunnerStep, Outcome

\* What is written over a record is a step of its state machine, and a request id
\* is given up only after a failure, whatever crashes, is interrupted or resumed.
THEOREM WrittenLegally == Spec => WrittenStepsAreLegal
<1>1. IInv /\ [Next]_vars =>
        [\A i \in Records :
           /\ TransitionOk(disk.records[i], disk'.records[i].status)
           /\ disk.records[i].request_id # NoRequest
                /\ disk'.records[i].request_id # disk.records[i].request_id =>
                disk.records[i].status = "Failed"]_disk
  BY StepIsLegalWrite DEF LegalWrite, LegalRewrite
<1> QED BY <1>1, Safe, PTL DEF Spec, WrittenStepsAreLegal

\* A new attempt starts only from NOT_ATTEMPTED or FAILED, in every run.
THEOREM ResentSafely == Spec => ResentOnlyIfSafe
<1>1. IInv /\ [Next]_vars =>
        [\A i \in Records :
           disk'.records[i].attempt_count # disk.records[i].attempt_count =>
             disk.records[i].status \in {"NotAttempted", "Failed"}]_disk
  BY StepIsLegalWrite DEF LegalWrite, LegalRewrite
<1> QED BY <1>1, Safe, PTL DEF Spec, ResentOnlyIfSafe

-----------------------------------------------------------------------------
(* The plan stays true while it is worked off *)

\* Before the plan is made a new import has sent nothing; afterwards a record whose
\* item has not been taken is as the plan found it.
PlanInv ==
  /\ pc = "auth" /\ ~run.resume =>
       /\ ~run.retry_failed
       /\ \A i \in Records : manifest.records[i].status = "NotAttempted"
  /\ pc \in OnRecord \cup {"loop"} =>
       /\ cur \notin todo
       /\ \A i \in todo : plan[i].kind = KindOf(manifest.records[i], run.retry_failed)

\* A step of the loop that takes items and leaves the records of the others alone.
LEMMA PlanKept ==
  ASSUME PlanInv, pc \in OnRecord \cup {"loop"}, pc' # "auth",
         run' = run, plan' = plan, todo' \subseteq todo, cur' \notin todo',
         \A i \in todo' : manifest'.records[i] = manifest.records[i]
  PROVE  PlanInv'
BY DEF PlanInv

LEMMA PlanEnded == ASSUME NEW d, NEW how, Ended(d, how) PROVE PlanInv'
BY DEF Ended, PlanInv, OnRecord

LEMMA OutcomeKeepsPlan == ASSUME IInv, PlanInv, Outcome PROVE PlanInv'
<1>1. pc \in OnRecord BY OutcomeShape
<1>2. cur \in Records /\ todo \subseteq Records /\ cur \notin todo /\ disk = manifest
  BY <1>1, CurFacts DEF IInv, TypeOK, PlanInv, ProcessKnows
<1>3. manifest.records \in [Records -> PluManifestRecord]
  BY DEF IInv, TypeOK, ImportManifest
<1>4. CASE InternalError BY <1>4, PlanEnded DEF InternalError
<1>5. CASE Resends BY <1>1, <1>2, <1>5, PlanKept DEF Resends, OnRecord
<1>6. ASSUME NEW r, Settles(r) PROVE PlanInv'
  <2>1. manifest'.records = [manifest.records EXCEPT ![cur] = r]
    BY <1>1, <1>2, <1>6, SettledRecords
  <2>2. \A i \in todo : manifest'.records[i] = manifest.records[i] BY <1>2, <1>3, <2>1
  <2>3. CASE RecordDone(r)
    <3>1. /\ run' = run /\ plan' = plan /\ todo' = todo /\ cur' = 0
          /\ pc' \in {"finishing", "loop"}
      BY <2>3 DEF RecordDone, NextStop
    <3>2. cur' \notin todo' BY <1>2, <3>1 DEF Records
    <3> QED BY <1>1, <2>2, <3>1, <3>2, PlanKept
  <2>4. CASE StopsWith(r) BY <2>4, PlanEnded DEF StopsWith
  <2>5. CASE GoesOnWith(r) BY <1>1, <1>2, <2>2, <2>5, PlanKept DEF GoesOnWith, OnRecord
  <2> QED BY <1>6, <2>3, <2>4, <2>5 DEF Settles
<1> QED BY <1>4, <1>5, <1>6, OutcomeShape

LEMMA ItemKeepsPlan ==
  ASSUME IInv, PlanInv, NEW i \in Records, SubmitItem(i) \/ PollItem(i)
  PROVE  PlanInv'
<1>1. pc = "loop" /\ todo \subseteq Records /\ manifest.records \in [Records -> PluManifestRecord]
  BY DEF SubmitItem, PollItem, IInv, TypeOK, ImportManifest
<1>2. CASE InternalError BY <1>2, PlanEnded DEF InternalError
<1>3. CASE \E r \in PluManifestRecord :
             /\ SaveRecord(i, r) /\ run' = run /\ plan' = plan
             /\ todo' = todo \ {i} /\ cur' = i /\ pc' \in OnRecord
  <2>1. PICK r \in PluManifestRecord : SaveRecord(i, r) BY <1>3
  <2>2. manifest'.records = [manifest.records EXCEPT ![i] = r]
    BY <2>1, SaveRecordType DEF IInv
  <2>3. \A j \in todo' : manifest'.records[j] = manifest.records[j] BY <1>1, <1>3, <2>2
  <2> QED BY <1>1, <1>3, <2>3, PlanKept DEF OnRecord
<1>4. manifest.records[i] \in PluManifestRecord BY <1>1
<1>5. /\ BeginAttempt(manifest.records[i]) \in PluManifestRecord
      /\ MarkProcessing(manifest.records[i]) \in PluManifestRecord
  BY <1>4, BeginAttemptFacts, MarkFacts DEF ErrorMessage
<1>6. CASE SubmitItem(i) BY <1>2, <1>3, <1>5, <1>6 DEF SubmitItem, OnRecord
<1>7. CASE PollItem(i) BY <1>2, <1>3, <1>5, <1>7 DEF PollItem, StartPoll, OnRecord
<1> QED BY <1>6, <1>7

LEMMA AuthenticatedMakesPlan == ASSUME IInv, PlanInv, Authenticated PROVE PlanInv'
<1>1. pc = "auth" /\ pc' = "loop" /\ UNCHANGED <<manifest, run, cur>> BY DEF Authenticated
<1>2. cur = 0 BY <1>1 DEF IInv, TypeOK, OnRecord
<1>3. todo' \subseteq Records BY DEF Authenticated, PlannedRecords
<1>4. cur' \notin todo' BY <1>1, <1>2, <1>3 DEF Records
<1>5. ASSUME NEW i \in todo'
      PROVE  plan'[i].kind = KindOf(manifest'.records[i], run'.retry_failed)
  <2>1. i \in Records BY <1>3, <1>5
  <2>2. CASE run.resume
    <3>1. plan' = BuildResumePlan(manifest, run.retry_failed) BY <2>2 DEF Authenticated
    <3> QED BY <1>1, <2>1, <3>1 DEF BuildResumePlan
  <2>3. CASE ~run.resume
    <3>1. plan' = FreshPlan BY <2>3 DEF Authenticated
    <3>2. manifest.records[i].status = "NotAttempted" BY <1>1, <2>1, <2>3 DEF PlanInv
    <3>3. KindOf(manifest.records[i], run.retry_failed) = "SubmitNotAttempted"
      BY <3>2 DEF KindOf
    <3> QED BY <1>1, <2>1, <3>1, <3>3 DEF FreshPlan
  <2> QED BY <2>2, <2>3
<1> QED BY <1>1, <1>4, <1>5 DEF PlanInv

LEMMA StepKeepsPlan == IInv /\ PlanInv /\ [Next]_vars => PlanInv'
<1> SUFFICES ASSUME IInv, PlanInv, [Next]_vars PROVE PlanInv' OBVIOUS
<1>1. CASE Outcome BY <1>1, OutcomeKeepsPlan
<1>2. CASE \E i \in Records : SubmitItem(i) \/ PollItem(i) BY <1>2, ItemKeepsPlan
<1>3. CASE Authenticated BY <1>3, AuthenticatedMakesPlan
<1>4. CASE \/ AuthenticationFails \/ Crash \/ InterruptRecord \/ FinishRun
           \/ \E i \in Records : InterruptItem(i)
  BY <1>4, PlanEnded DEF AuthenticationFails, Crash, InterruptRecord, FinishRun,
     InterruptItem, EndedWithSummary
<1>5. CASE Resume
  <2>1. pc' = "auth" /\ run'.resume = TRUE BY <1>5 DEF Resume, StartResume
  <2> QED BY <2>1 DEF PlanInv, OnRecord
<1>6. CASE \E i \in Records : SkipItem(i)
  <2>1. /\ pc = "loop" /\ pc' \in {"loop", "finishing"} /\ todo' \subseteq todo
        /\ UNCHANGED <<manifest, run, plan, cur>>
    BY <1>6 DEF SkipItem
  <2>2. cur \notin todo BY <2>1 DEF PlanInv
  <2> QED BY <2>1, <2>2, PlanKept
<1>7. CASE SendPost
  <2>1. pc \in OnRecord /\ pc' # "auth" /\ UNCHANGED <<manifest, run, plan, todo, cur>>
    BY <1>7 DEF SendPost, OnRecord
  <2>2. cur \notin todo BY <2>1 DEF PlanInv
  <2> QED BY <2>1, <2>2, PlanKept
<1>8. CASE CtrlC \/ DigiwebStep \/ UNCHANGED vars
  <2>1. UNCHANGED <<manifest, pc, run, plan, todo, cur>>
    BY <1>8 DEF CtrlC, DigiwebStep, vars, process, DigiwebAccepts, DigiwebRefuses, PostLost,
         DigiwebFinishes
  <2> QED BY <2>1 DEF PlanInv
<1> QED BY <1>1, <1>2, <1>3, <1>4, <1>5, <1>6, <1>7, <1>8 DEF Next, RunnerStep, Outcome

LEMMA PlanTrue == Spec => [](IInv /\ PlanInv)
<1>1. Init => PlanInv
  <2> SUFFICES ASSUME Init PROVE PlanInv OBVIOUS
  <2>1. \A i \in Records : manifest.records[i].status = "NotAttempted"
    BY DEF Init, NewManifest, NewRecord
  <2> QED BY <2>1 DEF Init, PlanInv, OnRecord
<1> QED BY <1>1, Safe, StepKeepsPlan, PTL DEF Spec

\* The plan is made once and its records change under it; still each item, when it
\* is taken, says what its record asks for, in every run of any length.
THEOREM PlanValid == Spec => []PlanStaysValid
<1>1. PlanInv => PlanStaysValid BY DEF PlanInv, PlanStaysValid
<1> QED BY <1>1, PlanTrue, PTL

-----------------------------------------------------------------------------
(* No internal error *)

\* A success that DIGIweb reports comes with a request id.
NoBareSuccess == "bare" \notin AnswerForms

ExitInv ==
  /\ exit # "internal"
  /\ reply.form # "bare"
  /\ reply.form = "untracked" => reply.status # "success"

LEMMA OutcomeExits ==
  ASSUME IInv, ExitInv, Outcome
  PROVE  exit' # "internal" /\ (reply' = NoReply \/ reply' = reply)
<1>0. pc \in OnRecord BY OutcomeShape
<1>1. Rec \in PluManifestRecord BY <1>0, CurFacts
<1>2. "clean" \in ErrorMessage /\ \A text \in Texts : text \in ErrorMessage
  BY TextsAssumption DEF ErrorMessage
<1>3. /\ pc \in {"sending", "awaiting"} => Rec.status = "SubmissionStarted"
      /\ pc = "accepted" => Rec.status = "RequestAccepted"
      /\ pc = "polling" => Rec.status = "Processing"
  BY DEF IInv, ProcessKnows
<1>4. /\ Rec.status = "SubmissionStarted" =>
           TransitionOk(Rec, "Failed") /\ TransitionOk(Rec, "RequestAccepted")
      /\ Rec.status \in {"RequestAccepted", "Processing"} =>
           /\ TransitionOk(Rec, "Success") /\ TransitionOk(Rec, "Failed")
           /\ TransitionOk(Rec, "UnknownStatus") /\ TransitionOk(Rec, "Processing")
  BY DEF TransitionOk, MayTransitionTo
<1> DEFINE Fine == exit' # "internal" /\ (reply' = NoReply \/ reply' = reply)
<1>5. ASSUME NEW r, RecordDone(r) PROVE Fine BY <1>5 DEF RecordDone, ExitInv
<1>6. ASSUME NEW r, StopsWith(r) PROVE Fine BY <1>6 DEF StopsWith, Ended
<1>7. ASSUME NEW r, TransitionOk(Rec, r.status), RecordDoneIfLegal(r) \/ AuthStops(r)
      PROVE  Fine
  BY <1>5, <1>6, <1>7 DEF RecordDoneIfLegal, AuthStops, StopsWith
<1> SUFFICES Fine OBVIOUS
<1> HIDE DEF Fine
<1>8. ASSUME NEW text \in ErrorMessage
      PROVE  /\ MarkFailed(Rec, text).status = "Failed"
             /\ MarkUnknown(Rec, text).status = "UnknownStatus"
             /\ MarkSuccess(Rec).status = "Success"
  BY <1>1, <1>8, MarkFacts
<1>9. CASE RefreshRefused \/ RefreshUnreachable \/ RefreshUnlogged \/ PostNetworkError
  BY <1>2, <1>3, <1>4, <1>5, <1>7, <1>8, <1>9
     DEF RefreshRefused, RefreshUnreachable, RefreshUnlogged, PostNetworkError
<1>10. CASE ReceiveUnauthorized
  <2>1. pc = "awaiting" BY <1>10 DEF ReceiveUnauthorized
  <2>2. CASE AuthStops(MarkFailed(Rec, "clean"))
    BY <1>2, <1>3, <1>4, <1>7, <1>8, <2>1, <2>2
  <2>3. CASE reply' = NoReply /\ exit' = exit BY <2>3 DEF Fine, ExitInv
  <2> QED BY <1>10, <2>2, <2>3 DEF ReceiveUnauthorized
<1>11. CASE ReceiveHttpError
  BY <1>2, <1>3, <1>4, <1>7, <1>8, <1>11 DEF ReceiveHttpError
<1>12. CASE ReceiveTracked
  <2> DEFINE id == IF reply.form = "blank" THEN BlankId ELSE Len(remote[cur])
             r == MarkRequestAccepted(Rec, id)
  <2>1. r.status = "RequestAccepted"
    <3>1. id \in RequestId BY <1>0, CurFacts DEF RequestId
    <3> QED BY <1>1, <3>1, MarkRequestAcceptedFacts
  <2>2. TransitionOk(Rec, r.status) BY <1>3, <1>4, <1>12, <2>1 DEF ReceiveTracked
  <2>3. exit' = exit /\ reply' = reply BY <1>12, <2>2 DEF ReceiveTracked, digiweb
  <2> QED BY <2>3 DEF Fine, ExitInv
<1>13. CASE AfterAccepted
  <2>1. pc = "accepted" BY <1>13 DEF AfterAccepted
  <2>2. CASE StartPoll(cur) /\ exit' = exit BY <2>2 DEF StartPoll, Fine, ExitInv
  <2>3. \/ RecordDoneIfLegal(MarkSuccess(Rec))
        \/ \E text \in Texts : \/ RecordDoneIfLegal(MarkFailed(Rec, text))
                               \/ RecordDoneIfLegal(MarkUnknown(Rec, text))
        \/ StartPoll(cur) /\ exit' = exit
    BY <1>3, <1>4, <1>13, <2>1 DEF AfterAccepted
  <2> QED BY <1>2, <1>3, <1>4, <1>7, <1>8, <2>1, <2>2, <2>3
<1>14. CASE ReceiveUntracked
  <2>1. pc = "awaiting" /\ reply.status # "success"
    BY <1>14 DEF ReceiveUntracked, ExitInv
  <2>2. \E text \in Texts : \/ RecordDoneIfLegal(MarkFailed(Rec, text))
                            \/ RecordDone(MarkAmbiguous(Rec, text))
    BY <1>14, <2>1 DEF ReceiveUntracked
  <2> QED BY <1>2, <1>3, <1>4, <1>5, <1>7, <1>8, <2>1, <2>2
<1>15. CASE PollSucceeds \/ PollFails \/ PollUnresolved \/ PollUnauthorized
  BY <1>2, <1>3, <1>4, <1>7, <1>8, <1>15
     DEF PollSucceeds, PollFails, PollUnresolved, PollUnauthorized
<1> QED BY <1>9, <1>10, <1>11, <1>12, <1>13, <1>14, <1>15 DEF Outcome

\* An item is taken only from a record its plan kind allows it for.
LEMMA ItemExits ==
  ASSUME IInv, PlanInv, ExitInv, NEW i \in Records, SubmitItem(i) \/ PollItem(i)
  PROVE  exit' = exit /\ (reply' = NoReply \/ reply' = reply)
<1> DEFINE r == manifest.records[i]
<1>1. /\ r \in PluManifestRecord /\ Truthful(r, remote[i], i \in inflight)
      /\ plan[i].kind = KindOf(r, run.retry_failed)
  BY DEF IInv, TypeOK, ImportManifest, RecordsTruthful, PlanInv, SubmitItem, PollItem, IsNext
<1> HIDE DEF r
<1>2. r.status \in RecordStatus BY <1>1 DEF PluManifestRecord
<1>3. CASE SubmitItem(i)
  <2>1. r.status \in {"NotAttempted", "Failed"}
    BY <1>1, <1>2, <1>3 DEF SubmitItem, KindOf, RecordStatus
  <2>2. TransitionOk(r, "SubmissionStarted") BY <2>1 DEF TransitionOk, MayTransitionTo
  <2> QED BY <1>3, <2>2 DEF SubmitItem, r, digiweb
<1>4. CASE PollItem(i)
  <2>1. r.status \in {"RequestAccepted", "Processing", "UnknownStatus"}
    BY <1>1, <1>2, <1>4 DEF PollItem, KindOf, RecordStatus
  <2>2. r.request_id # NoRequest BY <1>1, <2>1 DEF Truthful
  <2>3. TransitionOk(r, "Processing") BY <2>1 DEF TransitionOk, MayTransitionTo
  <2> QED BY <1>4, <2>2, <2>3 DEF PollItem, StartPoll, r
<1> QED BY <1>3, <1>4

LEMMA StepExits ==
  ASSUME NoBareSuccess
  PROVE  IInv /\ PlanInv /\ ExitInv /\ [Next]_vars => ExitInv'
<1> SUFFICES ASSUME IInv, PlanInv, ExitInv, [Next]_vars PROVE ExitInv' OBVIOUS
<1>1. ASSUME exit' # "internal", reply' = NoReply \/ reply' = reply PROVE ExitInv'
  BY <1>1 DEF ExitInv, NoReply
<1>2. CASE Outcome BY <1>1, <1>2, OutcomeExits
<1>3. CASE \E i \in Records : SubmitItem(i) \/ PollItem(i)
  BY <1>1, <1>3, ItemExits DEF ExitInv
<1>4. CASE \/ AuthenticationFails \/ Crash \/ InterruptRecord \/ FinishRun
           \/ \E i \in Records : InterruptItem(i)
  BY <1>1, <1>4 DEF AuthenticationFails, Crash, InterruptRecord, FinishRun, InterruptItem,
     EndedWithSummary, Ended
<1>5. CASE Resume BY <1>1, <1>5 DEF Resume, StartResume, digiweb
<1>6. CASE \/ Authenticated \/ SendPost \/ CtrlC \/ UNCHANGED vars
           \/ \E i \in Records : SkipItem(i) \/ PostLost(i) \/ DigiwebFinishes(i)
  <2>1. exit' = exit /\ reply' = reply
    BY <1>6 DEF Authenticated, SendPost, CtrlC, SkipItem, PostLost, DigiwebFinishes, vars,
         process, digiweb
  <2> QED BY <1>1, <2>1 DEF ExitInv
<1>7. ASSUME NEW i \in Records, DigiwebAccepts(i) PROVE ExitInv'
  <2>1. PICK form \in AnswerForms, status \in JobState \cup {"unknown"} :
          /\ form = "untracked" => status # "success"
          /\ AnswerTo(i, [form |-> form, status |-> status])
    BY <1>7 DEF DigiwebAccepts
  <2>2. form # "bare" BY DEF NoBareSuccess
  <2>3. reply' = [form |-> form, status |-> status] \/ reply' = reply BY <2>1 DEF AnswerTo
  <2>4. exit' = exit BY <1>7 DEF DigiwebAccepts, process
  <2> QED BY <2>1, <2>2, <2>3, <2>4 DEF ExitInv
<1>8. ASSUME NEW i \in Records, DigiwebRefuses(i) PROVE ExitInv'
  <2>1. \/ reply' = reply
        \/ \E form \in {"rejected", "unauthorized"} :
             reply' = [form |-> form, status |-> "unknown"]
    BY <1>8 DEF DigiwebRefuses, AnswerTo
  <2>2. exit' = exit BY <1>8 DEF DigiwebRefuses, process
  <2> QED BY <2>1, <2>2 DEF ExitInv
<1> QED
  BY <1>2, <1>3, <1>4, <1>5, <1>6, <1>7, <1>8 DEF Next, RunnerStep, Outcome, DigiwebStep

\* Where every success comes with a request id, nothing DIGIweb answers, no crash,
\* interrupt or resume drives a record through a transition it may not make.
THEOREM NeverInternal ==
  ASSUME NoBareSuccess
  PROVE  Spec => []NoInternalError
<1>1. Init => ExitInv BY DEF Init, ExitInv, NoReply
<1>2. IInv /\ PlanInv /\ ExitInv /\ [Next]_vars => ExitInv' BY StepExits
<1>3. ExitInv => NoInternalError BY DEF ExitInv, NoInternalError
<1> QED BY <1>1, <1>2, <1>3, PlanTrue, PTL DEF Spec

-----------------------------------------------------------------------------
(* Order and stop *)

Submits == {"SubmitNotAttempted", "RetryConfirmedFailure"}

\* Polls come before submissions in the plan and in the run, and without
\* continue-on-error whatever the run has dealt with has succeeded.
OrderInv ==
  pc \in OnRecord \cup {"loop"} =>
    /\ \A i, j \in Records :
         plan[i].kind = "PollExistingRequest" /\ plan[j].kind \in Submits =>
           plan[i].group < plan[j].group
    /\ pc \in {"sending", "awaiting"} =>
         \A i \in todo : plan[i].kind # "PollExistingRequest"
    /\ ~run.continue =>
         \A i \in Records \ (todo \cup {cur}) :
           plan[i].kind \in ActiveKind => manifest.records[i].status = "Success"

\* The groups of a resume's plan.
LEMMA ResumePlanOrder ==
  ASSUME NEW m \in ImportManifest, NEW retry \in BOOLEAN, NEW i \in Records
  PROVE  LET item == BuildResumePlan(m, retry)[i]
         IN  /\ item.kind = "PollExistingRequest" => item.group \in 1 .. 3
             /\ item.kind \in Submits => item.group \in 4 .. 5
             /\ i \notin PlannedRecords(m) => item.kind \notin ActiveKind
<1> DEFINE r == m.records[i]
<1>1. r.status \in RecordStatus BY DEF ImportManifest, PluManifestRecord
<1>2. /\ KindOf(r, retry) = "PollExistingRequest" =>
           r.status \in {"RequestAccepted", "Processing", "UnknownStatus"}
      /\ KindOf(r, retry) \in Submits => r.status \in {"NotAttempted", "Failed"}
      /\ r.status = "SubmissionStarted" => KindOf(r, retry) = "SkipAmbiguous"
  BY <1>1 DEF KindOf, Submits, RecordStatus
<1>3. BuildResumePlan(m, retry)[i] = [kind |-> KindOf(r, retry), group |-> PlanGroup[r.status]]
  BY DEF BuildResumePlan
<1>4. i \notin PlannedRecords(m) => r.status = "SubmissionStarted" BY DEF PlannedRecords
<1> HIDE DEF r
<1>5. /\ r.status \in {"RequestAccepted", "Processing", "UnknownStatus"} =>
           PlanGroup[r.status] \in 1 .. 3
      /\ r.status \in {"NotAttempted", "Failed"} => PlanGroup[r.status] \in 4 .. 5
  BY DEF PlanGroup
<1> QED BY <1>2, <1>3, <1>4, <1>5 DEF ActiveKind

LEMMA AuthenticatedOrders == ASSUME IInv, Authenticated PROVE OrderInv'
<1>1. /\ pc' = "loop" /\ manifest \in ImportManifest /\ run.retry_failed \in BOOLEAN
  BY DEF Authenticated, IInv, TypeOK, RunOptions
<1>2. CASE run.resume
  <2>1. plan' = BuildResumePlan(manifest, run.retry_failed) /\ todo' = PlannedRecords(manifest)
    BY <1>2 DEF Authenticated
  <2>2. \A i \in Records : /\ plan'[i].kind = "PollExistingRequest" => plan'[i].group \in 1 .. 3
                           /\ plan'[i].kind \in Submits => plan'[i].group \in 4 .. 5
                           /\ i \notin todo' => plan'[i].kind \notin ActiveKind
    BY <1>1, <2>1, ResumePlanOrder
  <2>3. \A i, j \in Records :
          plan'[i].kind = "PollExistingRequest" /\ plan'[j].kind \in Submits =>
            plan'[i].group < plan'[j].group
    <3> SUFFICES ASSUME NEW i \in Records, NEW j \in Records,
                        plan'[i].kind = "PollExistingRequest", plan'[j].kind \in Submits
                 PROVE  plan'[i].group < plan'[j].group
      OBVIOUS
    <3>1. plan'[i].group \in 1 .. 3 /\ plan'[j].group \in 4 .. 5 BY <2>2
    <3> QED BY <3>1
  <2> QED BY <1>1, <2>2, <2>3 DEF OrderInv
<1>3. CASE ~run.resume
  <2>1. plan' = FreshPlan /\ todo' = Records BY <1>3 DEF Authenticated
  <2> QED BY <1>1, <2>1 DEF OrderInv, FreshPlan
<1> QED BY <1>2, <1>3

LEMMA ItemOrders ==
  ASSUME IInv, OrderInv, NEW i \in Records, SubmitItem(i) \/ PollItem(i)
  PROVE  OrderInv'
<1>1. /\ pc = "loop" /\ cur = 0 /\ todo \subseteq Records
      /\ manifest.records \in [Records -> PluManifestRecord]
      /\ plan \in [Records -> PlanItem]
  BY DEF SubmitItem, PollItem, IInv, TypeOK, ImportManifest, OnRecord
<1>2. CASE InternalError BY <1>2 DEF InternalError, Ended, OrderInv, OnRecord
<1>3. ASSUME NEW r \in PluManifestRecord, SaveRecord(i, r), run' = run, plan' = plan,
             todo' = todo \ {i}, cur' = i,
             pc' \in {"sending", "awaiting"} =>
               \A j \in todo' : plan[j].kind # "PollExistingRequest"
      PROVE  OrderInv'
  <2>1. manifest'.records = [manifest.records EXCEPT ![i] = r]
    BY <1>3, SaveRecordType DEF IInv
  <2>2. \A j \in Records \ (todo' \cup {cur'}) :
          j \notin todo \cup {cur} /\ manifest'.records[j] = manifest.records[j]
    BY <1>1, <1>3, <2>1 DEF Records
  <2> QED BY <1>1, <1>3, <2>2 DEF OrderInv
<1>4. manifest.records[i] \in PluManifestRecord BY <1>1
<1>5. /\ BeginAttempt(manifest.records[i]) \in PluManifestRecord
      /\ MarkProcessing(manifest.records[i]) \in PluManifestRecord
  BY <1>4, BeginAttemptFacts, MarkFacts DEF ErrorMessage
<1>6. CASE SubmitItem(i)
  <2>1. plan[i].kind \in Submits /\ IsNext(i) BY <1>6 DEF SubmitItem, Submits
  <2>2. ASSUME NEW j \in todo \ {i} PROVE plan[j].kind # "PollExistingRequest"
    <3>1. j \in Records /\ plan[i].group <= plan[j].group
      <4>1. j \in Records BY <1>1, <2>2
      <4>2. plan[i].group \in 0 .. 7 /\ plan[j].group \in 0 .. 7 BY <1>1, <4>1 DEF PlanItem
      <4> QED BY <2>1, <2>2, <4>1, <4>2 DEF IsNext
    <3>2. plan[i].group \in 0 .. 7 /\ plan[j].group \in 0 .. 7 BY <1>1, <3>1 DEF PlanItem
    <3>3. plan[j].kind = "PollExistingRequest" => plan[j].group < plan[i].group
      BY <1>1, <2>1, <3>1 DEF OrderInv
    <3> QED BY <3>1, <3>2, <3>3
  <2> QED BY <1>2, <1>3, <1>5, <1>6, <2>2 DEF SubmitItem
<1>7. CASE PollItem(i) BY <1>2, <1>3, <1>5, <1>7 DEF PollItem, StartPoll
<1> QED BY <1>6, <1>7

LEMMA OutcomeOrders == ASSUME IInv, OrderInv, Outcome PROVE OrderInv'
<1>1. pc \in OnRecord BY OutcomeShape
<1>2. cur \in Records /\ manifest.records \in [Records -> PluManifestRecord] /\ disk = manifest
  BY <1>1, CurFacts DEF IInv, TypeOK, ImportManifest, ProcessKnows
<1>3. CASE InternalError BY <1>3 DEF InternalError, Ended, OrderInv, OnRecord
<1>4. CASE Resends BY <1>1, <1>4 DEF Resends, OrderInv
<1>5. ASSUME NEW r, Settles(r) PROVE OrderInv'
  <2>1. manifest'.records = [manifest.records EXCEPT ![cur] = r]
    BY <1>1, <1>2, <1>5, SettledRecords
  <2>2. manifest'.records[cur] = r
        /\ \A i \in Records \ {cur} : manifest'.records[i] = manifest.records[i]
    BY <1>2, <2>1
  <2>3. CASE /\ RecordDone(r)
             /\ r.status \in {"Success", "Failed", "UnknownStatus", "AmbiguousSubmission"}
    <3>1. run' = run /\ plan' = plan /\ todo' = todo /\ cur' = 0 /\ pc' = NextStop(r)
      BY <2>3 DEF RecordDone
    <3>2. pc' \in {"loop", "finishing"} BY <3>1 DEF NextStop
    <3>3. pc' = "loop" /\ ~run.continue => r.status = "Success" BY <2>3, <3>1 DEF NextStop
    <3>4. ASSUME pc' = "loop", ~run'.continue,
                 NEW i \in Records \ (todo' \cup {cur'}), plan'[i].kind \in ActiveKind
          PROVE  manifest'.records[i].status = "Success"
      <4>1. CASE i = cur BY <2>2, <3>1, <3>3, <3>4, <4>1
      <4>2. CASE i # cur BY <1>1, <2>2, <3>1, <3>4, <4>2 DEF OrderInv
      <4> QED BY <4>1, <4>2
    <3> QED BY <1>1, <3>1, <3>2, <3>4 DEF OrderInv, OnRecord
  <2>4. CASE StopsWith(r) BY <2>4 DEF StopsWith, Ended, OrderInv, OnRecord
  <2>5. CASE GoesOnWith(r) BY <1>1, <2>2, <2>5 DEF GoesOnWith, OrderInv
  <2> QED BY <1>5, <2>3, <2>4, <2>5 DEF Settles
<1> QED BY <1>3, <1>4, <1>5, OutcomeShape

LEMMA StepKeepsOrder == IInv /\ OrderInv /\ [Next]_vars => OrderInv'
<1> SUFFICES ASSUME IInv, OrderInv, [Next]_vars PROVE OrderInv' OBVIOUS
<1>1. CASE Outcome BY <1>1, OutcomeOrders
<1>2. CASE \E i \in Records : SubmitItem(i) \/ PollItem(i) BY <1>2, ItemOrders
<1>3. CASE Authenticated BY <1>3, AuthenticatedOrders
<1>4. CASE \/ AuthenticationFails \/ Crash \/ InterruptRecord \/ FinishRun
           \/ \E i \in Records : InterruptItem(i)
  BY <1>4 DEF AuthenticationFails, Crash, InterruptRecord, FinishRun, InterruptItem,
     EndedWithSummary, Ended, OrderInv, OnRecord
<1>5. CASE Resume BY <1>5 DEF Resume, StartResume, OrderInv, OnRecord
<1>6. ASSUME NEW i \in Records, SkipItem(i) PROVE OrderInv'
  <2>1. /\ pc = "loop" /\ pc' \in {"loop", "finishing"} /\ todo' = todo \ {i}
        /\ plan[i].kind \notin ActiveKind /\ UNCHANGED <<manifest, run, plan, cur>>
    BY <1>6 DEF SkipItem, ActiveKind
  <2> QED BY <2>1 DEF OrderInv
<1>7. CASE SendPost
  <2>1. /\ pc = "sending" /\ pc' = "awaiting" /\ UNCHANGED <<manifest, run, plan, todo, cur>>
    BY <1>7 DEF SendPost
  <2> QED BY <2>1 DEF OrderInv, OnRecord
<1>8. CASE CtrlC \/ DigiwebStep \/ UNCHANGED vars
  <2>1. UNCHANGED <<manifest, pc, run, plan, todo, cur>>
    BY <1>8 DEF CtrlC, DigiwebStep, vars, process, DigiwebAccepts, DigiwebRefuses, PostLost,
         DigiwebFinishes
  <2> QED BY <2>1 DEF OrderInv
<1> QED BY <1>1, <1>2, <1>3, <1>4, <1>5, <1>6, <1>7, <1>8 DEF Next, RunnerStep, Outcome

LEMMA OrderKept == Spec => []OrderInv
<1>1. Init => OrderInv BY DEF Init, OrderInv, OnRecord
<1> QED BY <1>1, Safe, StepKeepsOrder, PTL DEF Spec

\* A resume asks for the fate of every open request before it submits anything,
\* over any mix of statuses that earlier runs left.
THEOREM PollsFirst == Spec => []PollsBeforeSubmits
<1>1. OrderInv => PollsBeforeSubmits BY DEF OrderInv, PollsBeforeSubmits, OnRecord
<1> QED BY <1>1, OrderKept, PTL

\* Without continue-on-error nothing is submitted or polled any more once a record
\* of the run has failed or stayed unresolved.
THEOREM StopsFirst == Spec => []StopsAtFirstUnresolved
<1>1. OrderInv => StopsAtFirstUnresolved BY DEF OrderInv, StopsAtFirstUnresolved
<1> QED BY <1>1, OrderKept, PTL

-----------------------------------------------------------------------------
(* Every record is attempted *)

\* What the run has taken from its plan has been attempted, and with
\* continue-on-error the loop is left only at its end.
AttemptedInv ==
  /\ pc \in OnRecord \cup {"loop"} =>
       \A i \in Records \ todo : manifest.records[i].status # "NotAttempted"
  /\ pc = "finishing" => ~run.continue

LEMMA ItemAttempts ==
  ASSUME IInv, AttemptedInv, NEW i \in Records, SubmitItem(i) \/ PollItem(i)
  PROVE  AttemptedInv'
<1>1. pc = "loop" /\ manifest.records \in [Records -> PluManifestRecord]
  BY DEF SubmitItem, PollItem, IInv, TypeOK, ImportManifest
<1>2. CASE InternalError BY <1>2 DEF InternalError, Ended, AttemptedInv, OnRecord
<1>3. ASSUME NEW r \in PluManifestRecord, SaveRecord(i, r), r.status # "NotAttempted",
             todo' = todo \ {i}, pc' \in OnRecord
      PROVE  AttemptedInv'
  <2>1. manifest'.records = [manifest.records EXCEPT ![i] = r]
    BY <1>3, SaveRecordType DEF IInv
  <2>2. \A j \in Records \ todo' : manifest'.records[j].status # "NotAttempted"
    BY <1>1, <1>3, <2>1 DEF AttemptedInv
  <2> QED BY <1>3, <2>2 DEF AttemptedInv, OnRecord
<1>4. manifest.records[i] \in PluManifestRecord BY <1>1
<1>5. /\ BeginAttempt(manifest.records[i]) \in PluManifestRecord
      /\ BeginAttempt(manifest.records[i]).status # "NotAttempted"
      /\ MarkProcessing(manifest.records[i]) \in PluManifestRecord
      /\ MarkProcessing(manifest.records[i]).status # "NotAttempted"
  BY <1>4, BeginAttemptFacts, MarkFacts DEF ErrorMessage
<1>6. CASE SubmitItem(i) BY <1>2, <1>3, <1>5, <1>6 DEF SubmitItem, OnRecord
<1>7. CASE PollItem(i) BY <1>2, <1>3, <1>5, <1>7 DEF PollItem, StartPoll, OnRecord
<1> QED BY <1>6, <1>7

LEMMA OutcomeAttempts == ASSUME IInv, AttemptedInv, Outcome PROVE AttemptedInv'
<1>1. pc \in OnRecord BY OutcomeShape
<1>2. cur \in Records /\ manifest.records \in [Records -> PluManifestRecord] /\ disk = manifest
  BY <1>1, CurFacts DEF IInv, TypeOK, ImportManifest, ProcessKnows
<1>3. CASE InternalError BY <1>3 DEF InternalError, Ended, AttemptedInv, OnRecord
<1>4. CASE Resends BY <1>1, <1>4 DEF Resends, AttemptedInv
<1>5. ASSUME NEW r, Settles(r) PROVE AttemptedInv'
  <2>1. manifest'.records = [manifest.records EXCEPT ![cur] = r] /\ r.status # "NotAttempted"
    BY <1>1, <1>2, <1>5, SettledRecords DEF Settles, Rewrites
  <2>2. \A i \in Records \ todo : manifest'.records[i].status # "NotAttempted"
    BY <1>1, <1>2, <2>1 DEF AttemptedInv
  <2>3. CASE RecordDone(r)
    <3>1. todo' = todo /\ run' = run /\ pc' = NextStop(r) BY <2>3 DEF RecordDone
    <3> QED BY <2>2, <3>1 DEF AttemptedInv, NextStop
  <2>4. CASE StopsWith(r) BY <2>4 DEF StopsWith, Ended, AttemptedInv, OnRecord
  <2>5. CASE GoesOnWith(r) BY <2>2, <2>5 DEF GoesOnWith, AttemptedInv
  <2> QED BY <1>5, <2>3, <2>4, <2>5 DEF Settles
<1> QED BY <1>3, <1>4, <1>5, OutcomeShape

\* An item is skipped only over a record that its plan kind calls attempted.
LEMMA SkipAttempts ==
  ASSUME IInv, PlanInv, AttemptedInv, NEW i \in Records, SkipItem(i)
  PROVE  AttemptedInv'
<1>1. /\ pc = "loop" /\ todo' = todo \ {i} /\ manifest' = manifest /\ run' = run
      /\ plan[i].kind = KindOf(manifest.records[i], run.retry_failed)
      /\ plan[i].kind \in {"SkipAlreadySuccessful", "SkipFailed", "SkipAmbiguous"}
      /\ pc' = IF plan[i].kind = "SkipAmbiguous" /\ ~run.continue THEN "finishing" ELSE "loop"
  BY DEF SkipItem, PlanInv, IsNext
<1>2. manifest.records[i].status # "NotAttempted"
  BY <1>1 DEF KindOf
<1> QED BY <1>1, <1>2 DEF AttemptedInv, OnRecord

LEMMA StepAttempts == IInv /\ PlanInv /\ AttemptedInv /\ [Next]_vars => AttemptedInv'
<1> SUFFICES ASSUME IInv, PlanInv, AttemptedInv, [Next]_vars PROVE AttemptedInv' OBVIOUS
<1>1. CASE Outcome BY <1>1, OutcomeAttempts
<1>2. CASE \E i \in Records : SubmitItem(i) \/ PollItem(i) BY <1>2, ItemAttempts
<1>3. CASE \E i \in Records : SkipItem(i) BY <1>3, SkipAttempts
<1>4. CASE Authenticated
  <2>1. pc' = "loop" /\ manifest' = manifest /\ todo' \in {PlannedRecords(manifest), Records}
    BY <1>4 DEF Authenticated
  <2>2. \A i \in Records \ todo' : manifest'.records[i].status # "NotAttempted"
    BY <2>1 DEF PlannedRecords
  <2> QED BY <2>1, <2>2 DEF AttemptedInv
<1>5. CASE \/ AuthenticationFails \/ Crash \/ InterruptRecord \/ FinishRun
           \/ \E i \in Records : InterruptItem(i)
  BY <1>5 DEF AuthenticationFails, Crash, InterruptRecord, FinishRun, InterruptItem,
     EndedWithSummary, Ended, AttemptedInv, OnRecord
<1>6. CASE Resume BY <1>6 DEF Resume, StartResume, AttemptedInv, OnRecord
<1>7. CASE SendPost
  <2>1. pc \in OnRecord /\ pc' = "awaiting" /\ manifest' = manifest /\ todo' = todo
    BY <1>7 DEF SendPost, OnRecord
  <2> QED BY <2>1 DEF AttemptedInv, OnRecord
<1>8. CASE CtrlC \/ DigiwebStep \/ UNCHANGED vars
  <2>1. UNCHANGED <<manifest, pc, run, todo>>
    BY <1>8 DEF CtrlC, DigiwebStep, vars, process, DigiwebAccepts, DigiwebRefuses, PostLost,
         DigiwebFinishes
  <2> QED BY <2>1 DEF AttemptedInv
<1> QED BY <1>1, <1>2, <1>3, <1>4, <1>5, <1>6, <1>7, <1>8 DEF Next, RunnerStep, Outcome

\* With continue-on-error a run that comes to the end of its plan has attempted every
\* record, whatever became of those before.
THEOREM ContinuesThroughAll == Spec => []ContinueAttemptsAll
<1>1. Init => AttemptedInv BY DEF Init, AttemptedInv, OnRecord
<1>2. AttemptedInv => ContinueAttemptsAll BY DEF AttemptedInv, ContinueAttemptsAll, OnRecord
<1> QED BY <1>1, <1>2, StepAttempts, PlanTrue, PTL DEF Spec

-----------------------------------------------------------------------------
(* What the exit code says *)

LEMMA StepKeepsExit ==
  IInv /\ ExitZeroMeansAllDone /\ [Next]_vars => ExitZeroMeansAllDone'
<1> SUFFICES ASSUME IInv, ExitZeroMeansAllDone, [Next]_vars PROVE ExitZeroMeansAllDone' OBVIOUS
<1>1. manifest \in ImportManifest BY DEF IInv, TypeOK
<1>2. ASSUME NEW m \in ImportManifest, m.summary = SummaryOf(m.records), EndedWithSummary(m)
      PROVE  ExitZeroMeansAllDone'
  <2>1. disk' = m /\ (exit' = "ok" => FinalStatusIsSuccess(m.summary))
    BY <1>2 DEF EndedWithSummary, Ended
  <2>2. m.records \in [Records -> PluManifestRecord] BY DEF ImportManifest
  <2> QED BY <1>2, <2>1, <2>2, FinalSuccessMeansAll DEF ExitZeroMeansAllDone
<1>3. CASE (\E i \in Records : InterruptItem(i)) \/ InterruptRecord \/ FinishRun
  <2>1. /\ RecalculateSummary(manifest).summary = SummaryOf(manifest.records)
        /\ MarkInterrupted(manifest).summary = SummaryOf(manifest.records)
    BY <1>1 DEF RecalculateSummary, MarkInterrupted, ImportManifest
  <2>2. EndedWithSummary(RecalculateSummary(manifest)) \/ EndedWithSummary(MarkInterrupted(manifest))
    BY <1>3 DEF InterruptItem, InterruptRecord, FinishRun
  <2> QED BY <1>1, <1>2, <2>1, <2>2, Recalculated
<1>4. ASSUME pc' # "idle" \/ exit' # "ok" \/ UNCHANGED <<pc, exit, disk>>
      PROVE  ExitZeroMeansAllDone'
  BY <1>4 DEF ExitZeroMeansAllDone
<1>5. CASE Outcome
  <2>1. pc \in OnRecord BY <1>5, OutcomeShape
  <2>2. ASSUME NEW r, Settles(r) PROVE ExitZeroMeansAllDone'
    <3>1. CASE RecordDone(r) BY <1>4, <3>1 DEF RecordDone, NextStop
    <3>2. CASE StopsWith(r) BY <1>4, <3>2 DEF StopsWith, Ended
    <3>3. CASE GoesOnWith(r) BY <1>4, <3>3 DEF GoesOnWith
    <3> QED BY <2>2, <3>1, <3>2, <3>3 DEF Settles
  <2>3. CASE InternalError BY <1>4, <2>3 DEF InternalError, Ended
  <2>4. CASE Resends BY <1>4, <2>4 DEF Resends
  <2> QED BY <1>5, <2>2, <2>3, <2>4, OutcomeShape
<1>6. CASE AuthenticationFails \/ Crash
  BY <1>4, <1>6 DEF AuthenticationFails, Crash, Ended
<1>7. CASE \E i \in Records : SubmitItem(i) \/ PollItem(i) \/ SkipItem(i)
  BY <1>4, <1>7 DEF SubmitItem, PollItem, SkipItem, StartPoll, InternalError, Ended
<1>8. CASE Authenticated \/ Resume \/ SendPost
  BY <1>4, <1>8 DEF Authenticated, Resume, StartResume, SendPost
<1>9. CASE CtrlC \/ DigiwebStep \/ UNCHANGED vars
  <2>1. UNCHANGED <<pc, exit, disk>>
    BY <1>9 DEF CtrlC, DigiwebStep, vars, process, DigiwebAccepts, DigiwebRefuses, PostLost,
         DigiwebFinishes
  <2> QED BY <1>4, <2>1
<1> QED BY <1>3, <1>5, <1>6, <1>7, <1>8, <1>9 DEF Next, RunnerStep, Outcome

\* Exit code 0 is given only where DIGIweb has completed every selected record: no
\* interrupt, skipped record or recount of a resume can make it lie.
THEOREM ExitZeroIsTrue == Spec => []ExitZeroMeansAllDone
<1>1. Init => ExitZeroMeansAllDone BY DEF Init, ExitZeroMeansAllDone
<1> QED BY <1>1, Safe, StepKeepsExit, PTL DEF Spec

-----------------------------------------------------------------------------
(* What a run leaves behind is accepted by the next *)

\* Attempts counted, no marker, the counts and the run status those of the records.
SoundManifest(m) ==
  /\ \A i \in Records : AttemptsSound(m.records[i])
  /\ m.summary = SummaryOf(m.records)
  /\ m.run_status \in {DerivedRunStatus(m.summary), "InProgress", "Interrupted"}

LEMMA RecalculatedSound ==
  ASSUME NEW m \in ImportManifest, \A i \in Records : AttemptsSound(m.records[i])
  PROVE  /\ SoundManifest(RecalculateSummary(m))
         /\ SoundManifest(RecalculateSummaryForActiveRun(m))
         /\ SoundManifest(MarkInterrupted(m))
<1>1. /\ RecalculateSummary(m).summary = SummaryOf(m.records)
      /\ RecalculateSummary(m).run_status = DerivedRunStatus(SummaryOf(m.records))
      /\ RecalculateSummaryForActiveRun(m).summary = SummaryOf(m.records)
      /\ RecalculateSummaryForActiveRun(m).run_status = "InProgress"
      /\ MarkInterrupted(m).summary = SummaryOf(m.records)
      /\ MarkInterrupted(m).run_status = "Interrupted"
  BY DEF RecalculateSummary, RecalculateSummaryForActiveRun, MarkInterrupted, ImportManifest
<1> QED BY <1>1, Recalculated DEF SoundManifest

LEMMA SetRecordSound ==
  ASSUME NEW m \in ImportManifest, SoundManifest(m), NEW i \in Records,
         NEW r \in PluManifestRecord, AttemptsSound(r)
  PROVE  SoundManifest(RecalculateSummaryForActiveRun(SetRecord(m, i, r)))
<1>1. /\ SetRecord(m, i, r) \in ImportManifest
      /\ SetRecord(m, i, r).records = [m.records EXCEPT ![i] = r]
  BY SetRecordType
<1>2. m.records \in [Records -> PluManifestRecord] BY DEF ImportManifest
<1>3. \A j \in Records : AttemptsSound(SetRecord(m, i, r).records[j])
  BY <1>1, <1>2 DEF SoundManifest
<1> QED BY <1>1, <1>3, RecalculatedSound

LEMMA RestartSound ==
  ASSUME NEW m \in ImportManifest, SoundManifest(m)
  PROVE  SoundManifest(MarkRestartedTransientsAmbiguous(m))
<1> DEFINE recs == [i \in Records |-> RestartRecord(m.records[i])]
           changed == [m EXCEPT !.records = recs]
<1>1. ASSUME NEW i \in Records
      PROVE  RestartRecord(m.records[i]) \in PluManifestRecord /\ AttemptsSound(recs[i])
  <2> DEFINE r == m.records[i]
  <2>1. r \in PluManifestRecord /\ AttemptsSound(r) BY DEF ImportManifest, SoundManifest
  <2> HIDE DEF r
  <2>2. MarkAmbiguous(r, "clean") \in PluManifestRecord BY <2>1, MarkFacts DEF ErrorMessage
  <2>3. RestartRecord(r) \in PluManifestRecord
    BY <2>1, <2>2 DEF RestartRecord, PluManifestRecord, RecordStatus
  <2>4. AttemptsSound(RestartRecord(r)) BY <2>1, MarksSound DEF RequestId
  <2> QED BY <2>3, <2>4 DEF r
<1>2. changed \in ImportManifest /\ changed.records = recs BY <1>1 DEF ImportManifest
<1> HIDE DEF changed
<1>3. SoundManifest(RecalculateSummary(changed)) BY <1>1, <1>2, RecalculatedSound
<1> QED BY <1>3 DEF MarkRestartedTransientsAmbiguous, changed

\* The manifest after an outcome.
LEMMA SettledManifest ==
  ASSUME NEW r, Settles(r)
  PROVE  manifest' = RecalculateSummaryForActiveRun(SetRecord(manifest, cur, r))
BY DEF Settles, RecordDone, GoesOnWith, SaveRecord, StopsWith, Ended

\* What the steps of a process write, if they write anything but what was there.
LEMMA WhatIsWritten ==
  ASSUME IInv, [Next]_vars
  PROVE  \/ manifest' = manifest
         \/ \E i \in Records, r \in PluManifestRecord :
              /\ manifest' = RecalculateSummaryForActiveRun(SetRecord(manifest, i, r))
              /\ TextsClean /\ AttemptsSound(manifest.records[i]) => AttemptsSound(r)
         \/ FinishRun /\ manifest' = RecalculateSummary(manifest)
         \/ /\ InterruptRecord \/ \E i \in Records : InterruptItem(i)
            /\ manifest' = MarkInterrupted(manifest)
         \/ /\ Resume
            /\ LET m == MarkRestartedTransientsAmbiguous(manifest)
               IN  manifest' = m \/ manifest' = RecalculateSummaryForActiveRun(m)
<1>0. disk = manifest /\ manifest \in ImportManifest BY DEF IInv, ProcessKnows, TypeOK
<1> DEFINE Saves(i, r) ==
             /\ manifest' = RecalculateSummaryForActiveRun(SetRecord(manifest, i, r))
             /\ TextsClean /\ AttemptsSound(manifest.records[i]) => AttemptsSound(r)
<1>1. CASE Outcome
  <2>1. pc \in OnRecord BY <1>1, OutcomeShape
  <2>2. cur \in Records BY <2>1, CurFacts
  <2>3. CASE InternalError BY <1>0, <2>3 DEF InternalError, Ended
  <2>4. CASE Resends BY <2>4 DEF Resends
  <2>5. ASSUME NEW r, Settles(r)
        PROVE  r \in PluManifestRecord /\ Saves(cur, r)
    <3>1. Rewrites(manifest.records[cur], r) BY <2>5 DEF Settles, Rec
    <3> QED BY <2>5, <3>1, SettledManifest DEF Rewrites
  <2> QED BY <1>1, <2>2, <2>3, <2>4, <2>5, OutcomeShape
<1>2. ASSUME NEW i \in Records, SubmitItem(i) \/ PollItem(i)
      PROVE  manifest' = manifest \/ \E r \in PluManifestRecord : Saves(i, r)
  <2>1. manifest.records[i] \in PluManifestRecord BY <1>0 DEF ImportManifest
  <2>2. CASE InternalError BY <1>0, <2>2 DEF InternalError, Ended
  <2>3. CASE SaveRecord(i, BeginAttempt(manifest.records[i]))
    <3>1. Saves(i, BeginAttempt(manifest.records[i]))
      BY <2>1, <2>3, MarksSound DEF SaveRecord, RequestId
    <3> QED BY <2>1, <3>1, BeginAttemptFacts
  <2>4. CASE SaveRecord(i, MarkProcessing(manifest.records[i]))
    <3>1. Saves(i, MarkProcessing(manifest.records[i]))
      BY <2>1, <2>4, MarksSound DEF SaveRecord, RequestId
    <3> QED BY <2>1, <3>1, MarkFacts DEF ErrorMessage
  <2> QED BY <1>2, <2>2, <2>3, <2>4 DEF SubmitItem, PollItem, StartPoll
<1>3. CASE FinishRun BY <1>3 DEF FinishRun, EndedWithSummary, Ended
<1>4. CASE InterruptRecord \/ \E i \in Records : InterruptItem(i)
  BY <1>4 DEF InterruptRecord, InterruptItem, EndedWithSummary, Ended
<1>5. CASE Resume
  <2>1. LET m == MarkRestartedTransientsAmbiguous(disk)
        IN  manifest' = m \/ manifest' = RecalculateSummaryForActiveRun(m)
    BY <1>5 DEF Resume, StartResume
  <2> QED BY <1>0, <1>5, <2>1
<1>6. CASE AuthenticationFails \/ Crash
  BY <1>0, <1>6 DEF AuthenticationFails, Crash, Ended
<1>7. CASE \/ Authenticated \/ SendPost \/ CtrlC \/ DigiwebStep \/ UNCHANGED vars
           \/ \E i \in Records : SkipItem(i)
  BY <1>7 DEF Authenticated, SendPost, CtrlC, DigiwebStep, SkipItem, vars, process,
     DigiwebAccepts, DigiwebRefuses, PostLost, DigiwebFinishes
<1>8. \/ Outcome \/ FinishRun \/ InterruptRecord \/ Resume
      \/ \E i \in Records : InterruptItem(i) \/ SubmitItem(i) \/ PollItem(i)
      \/ AuthenticationFails \/ Crash
      \/ Authenticated \/ SendPost \/ CtrlC \/ DigiwebStep \/ UNCHANGED vars
      \/ \E i \in Records : SkipItem(i)
  BY DEF Next, RunnerStep, Outcome
<1> QED BY <1>1, <1>2, <1>3, <1>4, <1>5, <1>6, <1>7, <1>8

LEMMA StepKeepsSound ==
  ASSUME TextsClean
  PROVE  IInv /\ SoundManifest(manifest) /\ [Next]_vars => SoundManifest(manifest)'
<1> SUFFICES ASSUME IInv, SoundManifest(manifest), [Next]_vars
             PROVE  SoundManifest(manifest')
  BY DEF SoundManifest
<1>1. manifest \in ImportManifest /\ \A i \in Records : AttemptsSound(manifest.records[i])
  BY DEF IInv, TypeOK, SoundManifest
<1>2. SoundManifest(RecalculateSummary(manifest)) /\ SoundManifest(MarkInterrupted(manifest))
  BY <1>1, RecalculatedSound
<1>3. LET m == MarkRestartedTransientsAmbiguous(manifest)
      IN  SoundManifest(m) /\ SoundManifest(RecalculateSummaryForActiveRun(m))
  <2> DEFINE m == MarkRestartedTransientsAmbiguous(manifest)
  <2>1. m \in ImportManifest /\ SoundManifest(m) BY <1>1, RestartFacts, RestartSound
  <2> HIDE DEF m
  <2>2. SoundManifest(RecalculateSummaryForActiveRun(m))
    BY <2>1, RecalculatedSound DEF SoundManifest
  <2> QED BY <2>1, <2>2 DEF m
<1>4. \A i \in Records : \A r \in PluManifestRecord :
        AttemptsSound(r) => SoundManifest(RecalculateSummaryForActiveRun(SetRecord(manifest, i, r)))
  BY <1>1, SetRecordSound
<1> QED BY <1>1, <1>2, <1>3, <1>4, WhatIsWritten

LEMMA SoundAtFirst == Init => SoundManifest(manifest)
<1> SUFFICES ASSUME Init PROVE SoundManifest(manifest) OBVIOUS
<1>1. PICK continue \in BOOLEAN : manifest = NewManifest(continue) BY DEF Init
<1>2. /\ manifest.records = [i \in Records |-> NewRecord]
      /\ manifest.summary = SummaryOf(manifest.records)
      /\ manifest.run_status = "InProgress"
  BY <1>1 DEF NewManifest
<1>3. AttemptsSound(NewRecord) BY DEF AttemptsSound, NewRecord
<1> QED BY <1>2, <1>3 DEF SoundManifest

\* Of a truthful and sound manifest only its run status can be refused, and a
\* blank request id.
LEMMA SoundIsValid ==
  ASSUME IInv, SoundManifest(manifest)
  PROVE  /\ AcceptedButForBlankIds(disk) <=> ValidateRunStatus(disk)
         /\ IdsNameJobs => (ValidateManifest(disk) <=> ValidateRunStatus(disk))
         /\ DerivedRunStatus(disk.summary) = "Incomplete" <=>
              \E i \in Records : disk.records[i].status \notin {"Success", "Failed"}
<1>1. disk = manifest /\ manifest.records \in [Records -> PluManifestRecord]
  BY DEF IInv, ProcessKnows, TypeOK, ImportManifest
<1>2. ASSUME NEW i \in Records
      PROVE  /\ RecordIsSound(manifest.records[i])
             /\ HasIdToPoll(manifest.records[i]) \/ manifest.records[i].request_id = BlankId
             /\ IdsNameJobs => ValidateRecord(manifest.records[i])
  <2> DEFINE r == manifest.records[i]
             jobs == remote[i]
  <2>1. Truthful(r, jobs, i \in inflight) /\ AttemptsSound(r)
    BY DEF IInv, RecordsTruthful, SoundManifest
  <2> HIDE DEF r, jobs
  <2>2. r.status = "NotAttempted" => r.request_id = NoRequest
    BY <2>1 DEF Truthful, NoRequest
  <2>3. RecordIsSound(r) BY <2>1, <2>2 DEF AttemptsSound, RecordIsSound
  <2>4. HasIdToPoll(r) \/ r.request_id = BlankId BY <2>1 DEF Truthful, HasIdToPoll
  <2>5. IdsNameJobs => r.request_id # BlankId BY <2>1 DEF Truthful
  <2> QED BY <2>3, <2>4, <2>5 DEF r, ValidateRecord
<1>3. manifest.summary = SummaryOf(manifest.records) BY DEF SoundManifest
<1> QED BY <1>1, <1>2, <1>3, IncompleteMeansUnsettled
  DEF ValidateManifest, AcceptedButForBlankIds

\* Without --retry-failed an interrupt finds something to settle.
OpenInv ==
  retryRuns = 0 =>
    /\ ~run.retry_failed
    /\ manifest.run_status = "Interrupted" =>
         \E i \in Records : manifest.records[i].status \notin {"Success", "Failed"}

\* Only a resume changes the options or counts a run with --retry-failed.
LEMMA OptionsKept ==
  ASSUME IInv, [Next]_vars, ~Resume
  PROVE  run' = run /\ retryRuns' = retryRuns
<1>1. Outcome => run' = run /\ retryRuns' = retryRuns
  BY OutcomeShape DEF InternalError, Resends, Settles, RecordDone, StopsWith, GoesOnWith, Ended
<1> QED
  BY <1>1
  DEF Next, RunnerStep, Outcome, Authenticated, AuthenticationFails, SkipItem, PollItem,
      SubmitItem, InterruptItem, InternalError, FinishRun, SendPost, InterruptRecord, CtrlC,
      Crash, DigiwebStep, DigiwebAccepts, DigiwebRefuses, PostLost, DigiwebFinishes,
      EndedWithSummary, Ended, vars, process

LEMMA StepKeepsOpen == IInv /\ PlanInv /\ OpenInv /\ [Next]_vars => OpenInv'
<1> SUFFICES ASSUME IInv, PlanInv, OpenInv, [Next]_vars, retryRuns' = 0
             PROVE  /\ ~run'.retry_failed
                    /\ manifest'.run_status = "Interrupted" =>
                         \E i \in Records : manifest'.records[i].status \notin {"Success", "Failed"}
  BY DEF OpenInv
<1>0. /\ manifest \in ImportManifest /\ disk = manifest
      /\ manifest.records \in [Records -> PluManifestRecord]
  BY DEF IInv, TypeOK, ImportManifest, ProcessKnows
<1>1. retryRuns = 0 /\ ~run'.retry_failed
  <2>1. CASE Resume
    <3>1. PICK retry \in BOOLEAN, continue \in BOOLEAN : StartResume(retry, continue)
      BY <2>1 DEF Resume
    <3>2. retryRuns \in Nat BY DEF IInv, TypeOK
    <3>3. retryRuns' = IF retry THEN retryRuns + 1 ELSE retryRuns BY <3>1 DEF StartResume
    <3>4. retry = FALSE BY <3>2, <3>3
    <3> QED BY <3>1, <3>3, <3>4 DEF StartResume
  <2>2. CASE ~Resume BY <2>2, OptionsKept DEF OpenInv
  <2> QED BY <2>1, <2>2
<1>2. ASSUME manifest'.run_status = "Interrupted"
      PROVE  \E i \in Records : manifest'.records[i].status \notin {"Success", "Failed"}
  <2>1. CASE manifest' = manifest BY <1>1, <1>2, <2>1 DEF OpenInv
  <2>2. ASSUME NEW m \in ImportManifest, manifest' = RecalculateSummaryForActiveRun(m) PROVE FALSE
    BY <1>2, <2>2 DEF RecalculateSummaryForActiveRun, ImportManifest
  <2>3. ASSUME manifest' = RecalculateSummary(manifest) PROVE FALSE
    <3>1. manifest'.run_status = DerivedRunStatus(SummaryOf(manifest.records))
      BY <1>0, <2>3 DEF RecalculateSummary, ImportManifest
    <3> QED BY <1>2, <3>1 DEF DerivedRunStatus
  <2>4. CASE /\ InterruptRecord \/ \E i \in Records : InterruptItem(i)
             /\ manifest' = MarkInterrupted(manifest)
    <3>1. manifest'.records = manifest.records BY <1>0, <2>4, Recalculated
    <3>2. CASE InterruptRecord
      <4>1. pc \in Waiting /\ pc \in OnRecord BY <3>2 DEF InterruptRecord, Waiting, OnRecord
      <4>2. cur \in Records BY <4>1, CurFacts
      <4>3. manifest.records[cur].status \in {"SubmissionStarted", "Processing"}
        BY <4>1 DEF Waiting, IInv, ProcessKnows, Rec
      <4> QED BY <3>1, <4>2, <4>3
    <3>3. ASSUME NEW i \in Records, InterruptItem(i)
          PROVE  manifest'.records[i].status \notin {"Success", "Failed"}
      <4>1. /\ plan[i].kind = KindOf(manifest.records[i], run.retry_failed)
            /\ plan[i].kind \in ActiveKind
        BY <3>3 DEF InterruptItem, IsNext, PlanInv
      <4>2. manifest.records[i].status \in RecordStatus BY <1>0 DEF PluManifestRecord
      <4>3. manifest.records[i].status \notin {"Success", "Failed"}
        BY <1>1, <4>1, <4>2 DEF OpenInv, KindOf, ActiveKind, RecordStatus
      <4> QED BY <3>1, <4>3
    <3> QED BY <2>4, <3>2, <3>3
  <2>5. CASE /\ Resume
             /\ LET m == MarkRestartedTransientsAmbiguous(manifest)
                IN  manifest' = m \/ manifest' = RecalculateSummaryForActiveRun(m)
    <3> DEFINE m == MarkRestartedTransientsAmbiguous(manifest)
    <3>1. m \in ImportManifest BY <1>0, RestartFacts
    <3>2. manifest' = m BY <2>2, <2>5, <3>1
    <3>3. \A i \in Records :
            m.records[i].status = manifest.records[i].status
              \/ m.records[i].status = "AmbiguousSubmission"
      BY <1>0, RestartFacts
    <3>4. CASE m = manifest BY <2>1, <3>2, <3>4
    <3>5. CASE m # manifest
      <4>1. PICK i \in Records : RestartedTransient(manifest.records[i])
        BY <3>5 DEF MarkRestartedTransientsAmbiguous, RestartChanges
      <4>2. manifest.records[i].status \notin {"Success", "Failed"}
        BY <4>1 DEF RestartedTransient
      <4> QED BY <3>2, <3>3, <4>2
    <3> QED BY <3>4, <3>5
  <2>6. \A i \in Records, r \in PluManifestRecord : SetRecord(manifest, i, r) \in ImportManifest
    BY <1>0, SetRecordType
  <2> QED BY <2>1, <2>2, <2>3, <2>4, <2>5, <2>6, WhatIsWritten
<1> QED BY <1>1, <1>2 DEF OpenInv

LEMMA OpenKept ==
  ASSUME TextsClean
  PROVE  Spec => [](IInv /\ SoundManifest(manifest) /\ OpenInv)
<1>1. Init => OpenInv BY DEF Init, OpenInv, NewManifest
<1> QED BY <1>1, Safe, PlanTrue, SoundAtFirst, StepKeepsSound, StepKeepsOpen, PTL DEF Spec

\* Where the sanitizer leaves no marker, a resume refuses a manifest for a blank
\* request id that a record waits under; otherwise it refuses none that holds
\* something to settle, and none at all before a run was given --retry-failed:
\* whatever runs, answers, crashes and interrupts wrote it.
THEOREM RefusedWhenSettled ==
  ASSUME TextsClean
  PROVE  Spec => []RefusedOnlyWhenSettled
<1>1. IInv /\ SoundManifest(manifest) /\ OpenInv => RefusedOnlyWhenSettled
  <2> SUFFICES ASSUME IInv, SoundManifest(manifest), OpenInv, ~AcceptedButForBlankIds(disk)
               PROVE  /\ retryRuns > 0
                      /\ \A i \in Records : disk.records[i].status \in {"Success", "Failed"}
    BY DEF RefusedOnlyWhenSettled
  <2>1. /\ disk = manifest /\ retryRuns \in Nat
        /\ disk.run_status \in {DerivedRunStatus(disk.summary), "InProgress", "Interrupted"}
    BY DEF IInv, ProcessKnows, TypeOK, SoundManifest
  <2>2. /\ disk.run_status = "Interrupted"
        /\ DerivedRunStatus(disk.summary) # "Incomplete"
    BY <2>1, SoundIsValid DEF ValidateRunStatus
  <2>3. \A i \in Records : disk.records[i].status \in {"Success", "Failed"}
    BY <2>2, SoundIsValid
  <2>4. retryRuns # 0 BY <2>1, <2>2, <2>3 DEF OpenInv
  <2> QED BY <2>1, <2>3, <2>4
<1> QED BY <1>1, OpenKept, PTL

\* Where the sanitizer leaves no marker, no request id is blank and no run is given
\* --retry-failed, a resume accepts every manifest that is ever on disk.
THEOREM StaysResumable ==
  ASSUME TextsClean, IdsNameJobs, RetryRuns = 0
  PROVE  Spec => []ValidateManifest(disk)
<1>1. IInv /\ SoundManifest(manifest) /\ OpenInv => ValidateManifest(disk)
  <2> SUFFICES ASSUME IInv, SoundManifest(manifest), OpenInv PROVE ValidateManifest(disk)
    OBVIOUS
  <2>1. /\ disk = manifest /\ retryRuns = 0
        /\ disk.run_status \in {DerivedRunStatus(disk.summary), "InProgress", "Interrupted"}
    BY DEF IInv, ProcessKnows, TypeOK, SoundManifest
  <2>2. disk.run_status = "Interrupted" => DerivedRunStatus(disk.summary) = "Incomplete"
    BY <2>1, SoundIsValid DEF OpenInv
  <2> QED BY <2>1, <2>2, SoundIsValid DEF ValidateRunStatus
<1> QED BY <1>1, OpenKept, PTL

-----------------------------------------------------------------------------
(* How often a record may be submitted at all *)

\* A resume that retries owes one attempt to each record whose item it has not taken.
Owed(i) ==
  IF run.retry_failed /\ (pc = "auth" \/ (pc \in OnRecord \cup {"loop"} /\ i \in todo))
  THEN 1 ELSE 0

\* The attempts made and owed: one, and one for each resume with --retry-failed.
BudgetInv ==
  \A i \in Records :
    /\ manifest.records[i].status = "NotAttempted" => Len(manifest.records[i].attempts) = 0
    /\ Len(manifest.records[i].attempts) + Owed(i) <= 1 + retryRuns

\* Record i has as many attempts as before, and is not called unsent again.
AttemptsKept(i) ==
  /\ Len(manifest'.records[i].attempts) = Len(manifest.records[i].attempts)
  /\ manifest'.records[i].status = "NotAttempted" => manifest.records[i].status = "NotAttempted"

\* No new retry, and no item comes back.
NothingOwedAnew ==
  /\ run' = run /\ retryRuns' = retryRuns
  /\ \/ pc = "auth" /\ todo' \subseteq Records
     \/ pc' \notin OnRecord \cup {"loop", "auth"}
     \/ pc \in OnRecord \cup {"loop"} /\ pc' # "auth" /\ todo' \subseteq todo
     \/ pc' = pc /\ todo' = todo

LEMMA OwedFalls == NothingOwedAnew => \A i \in Records : Owed(i)' <= Owed(i)
BY DEF NothingOwedAnew, Owed

LEMMA BudgetKept ==
  ASSUME IInv, BudgetInv, NothingOwedAnew, \A i \in Records : AttemptsKept(i)
  PROVE  BudgetInv'
<1> SUFFICES ASSUME NEW i \in Records
             PROVE  /\ manifest'.records[i].status = "NotAttempted" =>
                         Len(manifest'.records[i].attempts) = 0
                    /\ Len(manifest'.records[i].attempts) + Owed(i)' <= 1 + retryRuns'
  BY DEF BudgetInv
<1>1. /\ Owed(i)' <= Owed(i) /\ Owed(i) \in Nat /\ Owed(i)' \in Nat
      /\ retryRuns' = retryRuns /\ retryRuns \in Nat
  BY OwedFalls DEF Owed, NothingOwedAnew, IInv, TypeOK
<1>2. Len(manifest.records[i].attempts) \in Nat
  BY DEF IInv, TypeOK, ImportManifest, PluManifestRecord
<1>3. /\ manifest.records[i].status = "NotAttempted" => Len(manifest.records[i].attempts) = 0
      /\ Len(manifest.records[i].attempts) + Owed(i) <= 1 + retryRuns
  BY DEF BudgetInv
<1>4. /\ Len(manifest'.records[i].attempts) = Len(manifest.records[i].attempts)
      /\ manifest'.records[i].status = "NotAttempted" => manifest.records[i].status = "NotAttempted"
  BY DEF AttemptsKept
<1> HIDE DEF Owed
<1> QED BY <1>1, <1>2, <1>3, <1>4

LEMMA SameRecordsKeepAttempts ==
  manifest'.records = manifest.records => \A i \in Records : AttemptsKept(i)
BY DEF AttemptsKept

\* A process that ends leaves nothing owed.
LEMMA BudgetEnded ==
  ASSUME IInv, BudgetInv, NEW d, NEW how, Ended(d, how), d.records = manifest.records
  PROVE  BudgetInv'
<1>1. NothingOwedAnew BY DEF Ended, NothingOwedAnew, OnRecord
<1>2. manifest'.records = manifest.records BY DEF Ended
<1> QED BY <1>1, <1>2, SameRecordsKeepAttempts, BudgetKept

LEMMA OutcomeKeepsBudget == ASSUME IInv, BudgetInv, Outcome PROVE BudgetInv'
<1>1. pc \in OnRecord BY OutcomeShape
<1>2. cur \in Records /\ disk = manifest /\ manifest.records \in [Records -> PluManifestRecord]
  BY <1>1, CurFacts DEF IInv, ProcessKnows, TypeOK, ImportManifest
<1>3. CASE InternalError BY <1>2, <1>3, BudgetEnded DEF InternalError
<1>4. CASE Resends
  <2>1. NothingOwedAnew BY <1>1, <1>4 DEF Resends, NothingOwedAnew
  <2>2. manifest' = manifest BY <1>4 DEF Resends
  <2> QED BY <2>1, <2>2, SameRecordsKeepAttempts, BudgetKept
<1>5. ASSUME NEW r, Settles(r) PROVE BudgetInv'
  <2>1. manifest'.records = [manifest.records EXCEPT ![cur] = r]
    BY <1>1, <1>2, <1>5, SettledRecords
  <2>2. r.status # "NotAttempted" /\ Len(r.attempts) = Len(manifest.records[cur].attempts)
    BY <1>5 DEF Settles, Rewrites, Rec
  <2>3. \A i \in Records : AttemptsKept(i) BY <1>2, <2>1, <2>2 DEF AttemptsKept
  <2>4. NothingOwedAnew
    <3>1. CASE RecordDone(r)
      BY <1>1, <3>1 DEF RecordDone, NextStop, NothingOwedAnew
    <3>2. CASE StopsWith(r) BY <3>2 DEF StopsWith, Ended, NothingOwedAnew, OnRecord
    <3>3. CASE GoesOnWith(r) BY <1>1, <3>3 DEF GoesOnWith, NothingOwedAnew
    <3> QED BY <1>5, <3>1, <3>2, <3>3 DEF Settles
  <2> QED BY <2>3, <2>4, BudgetKept
<1> QED BY <1>3, <1>4, <1>5, OutcomeShape

LEMMA PollKeepsBudget ==
  ASSUME IInv, BudgetInv, NEW i \in Records, PollItem(i)
  PROVE  BudgetInv'
<1>1. /\ pc = "loop" /\ disk = manifest
      /\ manifest.records \in [Records -> PluManifestRecord]
  BY DEF PollItem, IInv, TypeOK, ImportManifest, ProcessKnows
<1>2. CASE InternalError BY <1>1, <1>2, BudgetEnded DEF InternalError
<1>3. CASE StartPoll(i) /\ todo' = todo \ {i} /\ UNCHANGED <<run, retryRuns>>
  <2> DEFINE r == MarkProcessing(manifest.records[i])
  <2>1. /\ r \in PluManifestRecord /\ r.status = "Processing"
        /\ Len(r.attempts) = Len(manifest.records[i].attempts)
    BY <1>1, MarkFacts DEF ErrorMessage
  <2>2. SaveRecord(i, r) /\ pc' = "polling" BY <1>3 DEF StartPoll
  <2> HIDE DEF r
  <2>3. manifest'.records = [manifest.records EXCEPT ![i] = r]
    BY <2>1, <2>2, SaveRecordType DEF IInv
  <2>4. \A j \in Records : AttemptsKept(j) BY <1>1, <2>1, <2>3 DEF AttemptsKept
  <2>5. NothingOwedAnew BY <1>1, <1>3, <2>2 DEF NothingOwedAnew
  <2> QED BY <2>4, <2>5, BudgetKept
<1> QED BY <1>2, <1>3 DEF PollItem

\* The one step that makes an attempt takes it from what was owed, or is the first.
LEMMA SubmitKeepsBudget ==
  ASSUME IInv, PlanInv, BudgetInv, NEW i \in Records, SubmitItem(i)
  PROVE  BudgetInv'
<1> DEFINE old == manifest.records[i]
           new == BeginAttempt(manifest.records[i])
<1>1. /\ pc = "loop" /\ i \in todo /\ disk = manifest /\ run \in RunOptions
      /\ manifest.records \in [Records -> PluManifestRecord]
      /\ plan[i].kind \in {"SubmitNotAttempted", "RetryConfirmedFailure"}
      /\ plan[i].kind = KindOf(old, run.retry_failed)
  BY DEF SubmitItem, IsNext, IInv, TypeOK, ImportManifest, ProcessKnows, PlanInv
<1>2. CASE InternalError BY <1>1, <1>2, BudgetEnded DEF InternalError
<1>3. CASE /\ SaveRecord(i, new) /\ pc' = "sending" /\ todo' = todo \ {i}
           /\ UNCHANGED <<run, retryRuns>>
  <2>1. /\ new \in PluManifestRecord /\ new.status = "SubmissionStarted"
        /\ Len(new.attempts) = Len(old.attempts) + 1
        /\ old \in PluManifestRecord /\ old.status \in RecordStatus
        /\ Len(old.attempts) \in Nat
    BY <1>1, BeginAttemptFacts DEF PluManifestRecord
  <2>2. old.status = "NotAttempted" \/ (old.status = "Failed" /\ run.retry_failed)
    BY <1>1, <2>1 DEF KindOf, RecordStatus, RunOptions
  <2>3. /\ old.status = "NotAttempted" => Len(old.attempts) = 0
        /\ Len(old.attempts) + Owed(i) <= 1 + retryRuns
    BY DEF BudgetInv
  <2> HIDE DEF old, new
  <2>4. manifest'.records = [manifest.records EXCEPT ![i] = new]
    BY <1>3, <2>1, SaveRecordType DEF IInv
  <2>5. /\ retryRuns \in Nat /\ retryRuns' = retryRuns
        /\ run.retry_failed => Owed(i) = 1
        /\ Owed(i)' = 0
    BY <1>1, <1>3 DEF Owed, IInv, TypeOK
  <2>6. Len(new.attempts) + Owed(i)' <= 1 + retryRuns' BY <2>1, <2>2, <2>3, <2>5
  <2>7. NothingOwedAnew BY <1>1, <1>3 DEF NothingOwedAnew
  <2>8. ASSUME NEW j \in Records
        PROVE  /\ manifest'.records[j].status = "NotAttempted" =>
                    Len(manifest'.records[j].attempts) = 0
               /\ Len(manifest'.records[j].attempts) + Owed(j)' <= 1 + retryRuns'
    <3>1. CASE j = i
      <4>1. manifest'.records[j] = new BY <1>1, <2>4, <3>1
      <4> QED BY <2>1, <2>6, <3>1, <4>1
    <3>2. CASE j # i
      <4>1. manifest'.records[j] = manifest.records[j] BY <1>1, <2>4, <3>2
      <4>2. Owed(j)' <= Owed(j) /\ Owed(j) \in Nat /\ Owed(j)' \in Nat
        BY <2>7, OwedFalls DEF Owed
      <4>3. Len(manifest.records[j].attempts) \in Nat BY <1>1 DEF PluManifestRecord
      <4>4. /\ manifest.records[j].status = "NotAttempted" =>
                 Len(manifest.records[j].attempts) = 0
            /\ Len(manifest.records[j].attempts) + Owed(j) <= 1 + retryRuns
        BY DEF BudgetInv
      <4> HIDE DEF Owed
      <4> QED BY <2>5, <4>1, <4>2, <4>3, <4>4
    <3> QED BY <3>1, <3>2
  <2> QED BY <2>8 DEF BudgetInv
<1> QED BY <1>2, <1>3 DEF SubmitItem

LEMMA ResumeKeepsBudget == ASSUME IInv, BudgetInv, Resume PROVE BudgetInv'
<1>1. PICK retry \in BOOLEAN, continue \in BOOLEAN : StartResume(retry, continue) BY DEF Resume
<1>2. disk = manifest /\ manifest \in ImportManifest /\ retryRuns \in Nat /\ pc = "idle"
  BY <1>1 DEF IInv, ProcessKnows, TypeOK, StartResume
<1>3. /\ run'.retry_failed = retry /\ pc' = "auth"
      /\ retryRuns' = IF retry THEN retryRuns + 1 ELSE retryRuns
  BY <1>1 DEF StartResume
<1> DEFINE m == MarkRestartedTransientsAmbiguous(manifest)
<1>4. m \in ImportManifest /\ manifest' \in {m, RecalculateSummaryForActiveRun(m)}
  BY <1>1, <1>2, RestartFacts DEF StartResume
<1>5. \A i \in Records :
        /\ Len(m.records[i].attempts) = Len(manifest.records[i].attempts)
        /\ m.records[i].status = "NotAttempted" => manifest.records[i].status = "NotAttempted"
  BY <1>2, RestartFacts
<1> HIDE DEF m
<1>6. manifest'.records = m.records BY <1>4, Recalculated
<1>7. ASSUME NEW i \in Records
      PROVE  /\ manifest'.records[i].status = "NotAttempted" =>
                  Len(manifest'.records[i].attempts) = 0
             /\ Len(manifest'.records[i].attempts) + Owed(i)' <= 1 + retryRuns'
  <2>1. Owed(i) = 0 /\ Owed(i)' = IF retry THEN 1 ELSE 0 BY <1>2, <1>3 DEF Owed, OnRecord
  <2>2. Len(manifest.records[i].attempts) \in Nat
    BY <1>2 DEF ImportManifest, PluManifestRecord
  <2>3. /\ manifest.records[i].status = "NotAttempted" =>
             Len(manifest.records[i].attempts) = 0
        /\ Len(manifest.records[i].attempts) + Owed(i) <= 1 + retryRuns
    BY DEF BudgetInv
  <2>4. Len(manifest'.records[i].attempts) = Len(manifest.records[i].attempts)
    BY <1>5, <1>6
  <2>5. manifest'.records[i].status = "NotAttempted" => manifest.records[i].status = "NotAttempted"
    BY <1>5, <1>6
  <2> HIDE DEF Owed
  <2>6. Len(manifest'.records[i].attempts) <= 1 + retryRuns BY <1>2, <2>1, <2>2, <2>3, <2>4
  <2>7. Owed(i)' + retryRuns = retryRuns' BY <1>2, <1>3, <2>1
  <2>8. Owed(i)' \in Nat /\ retryRuns' \in Nat BY <1>2, <1>3, <2>1
  <2>9. Len(manifest'.records[i].attempts) + Owed(i)' <= 1 + retryRuns'
    BY <1>2, <2>2, <2>4, <2>6, <2>7, <2>8
  <2> QED BY <2>3, <2>4, <2>5, <2>9
<1> QED BY <1>7 DEF BudgetInv

LEMMA StepKeepsBudget == IInv /\ PlanInv /\ BudgetInv /\ [Next]_vars => BudgetInv'
<1> SUFFICES ASSUME IInv, PlanInv, BudgetInv, [Next]_vars PROVE BudgetInv' OBVIOUS
<1>0. disk = manifest /\ manifest \in ImportManifest BY DEF IInv, ProcessKnows, TypeOK
<1>1. CASE Outcome BY <1>1, OutcomeKeepsBudget
<1>2. CASE \E i \in Records : SubmitItem(i) \/ PollItem(i)
  BY <1>2, SubmitKeepsBudget, PollKeepsBudget
<1>3. CASE Resume BY <1>3, ResumeKeepsBudget
<1>4. CASE \/ AuthenticationFails \/ Crash \/ InterruptRecord \/ FinishRun
           \/ \E i \in Records : InterruptItem(i)
  <2>1. PICK d \in {disk, MarkInterrupted(manifest), RecalculateSummary(manifest)},
             how \in {"error", "killed", "ok", "unresolved"} : Ended(d, how)
    BY <1>4 DEF AuthenticationFails, Crash, InterruptRecord, FinishRun, InterruptItem,
       EndedWithSummary
  <2>2. d.records = manifest.records BY <1>0, Recalculated
  <2> QED BY <2>1, <2>2, BudgetEnded
<1>5. CASE \/ Authenticated \/ SendPost \/ CtrlC \/ DigiwebStep \/ UNCHANGED vars
           \/ \E i \in Records : SkipItem(i)
  <2>1. manifest' = manifest
    BY <1>5 DEF Authenticated, SendPost, CtrlC, DigiwebStep, SkipItem, vars, process,
       DigiwebAccepts, DigiwebRefuses, PostLost, DigiwebFinishes
  <2>2. NothingOwedAnew
    BY <1>5 DEF Authenticated, SendPost, CtrlC, DigiwebStep, SkipItem, vars, process,
       DigiwebAccepts, DigiwebRefuses, PostLost, DigiwebFinishes, NothingOwedAnew,
       PlannedRecords, OnRecord
  <2> QED BY <2>1, <2>2, SameRecordsKeepAttempts, BudgetKept
<1> QED BY <1>1, <1>2, <1>3, <1>4, <1>5 DEF Next, RunnerStep, Outcome

\* DIGIweb never holds more jobs of a record than one and one for each resume that was
\* given --retry-failed, counting what is still on its way: whatever it answers,
\* unreadable answers included, and however often runs crash, are interrupted or
\* are resumed.
JobsWithinBudget ==
  \A i \in Records : Len(remote[i]) + (IF i \in inflight THEN 1 ELSE 0) <= 1 + retryRuns

THEOREM SubmittedOncePerRetry == Spec => []JobsWithinBudget
<1>1. IInv /\ BudgetInv => JobsWithinBudget
  <2> SUFFICES ASSUME IInv, BudgetInv, NEW i \in Records
               PROVE  Len(remote[i]) + (IF i \in inflight THEN 1 ELSE 0) <= 1 + retryRuns
    BY DEF JobsWithinBudget
  <2> DEFINE jobs == Len(remote[i]) + (IF i \in inflight THEN 1 ELSE 0)
             attempts == Len(manifest.records[i].attempts)
  <2>1. jobs <= attempts BY DEF IInv, RecordsTruthful, Truthful
  <2>2. jobs \in Nat /\ attempts \in Nat /\ retryRuns \in Nat
    BY DEF IInv, TypeOK, ImportManifest, PluManifestRecord
  <2>3. attempts + Owed(i) <= 1 + retryRuns BY DEF BudgetInv
  <2>4. Owed(i) \in Nat BY DEF Owed
  <2> HIDE DEF jobs, attempts, Owed
  <2>5. jobs <= 1 + retryRuns BY <2>1, <2>2, <2>3, <2>4
  <2> QED BY <2>5 DEF jobs
<1>2. Init => BudgetInv
  <2> SUFFICES ASSUME Init, NEW i \in Records
               PROVE  /\ Len(manifest.records[i].attempts) = 0
                      /\ Owed(i) = 0 /\ retryRuns = 0
    BY DEF BudgetInv
  <2>1. PICK continue \in BOOLEAN : manifest = NewManifest(continue) BY DEF Init
  <2>2. manifest.records[i].attempts = <<>> BY <2>1 DEF NewManifest, NewRecord
  <2> QED BY <2>2 DEF Init, Owed
<1> QED BY <1>1, <1>2, Safe, PlanTrue, StepKeepsBudget, PTL DEF Spec

\* Without --retry-failed DIGIweb never holds two jobs of a record, whatever it answers:
\* also where an answer that cannot be read makes a record FAILED that it accepted.
THEOREM NoDuplicatesWithoutRetry ==
  ASSUME RetryRuns = 0
  PROVE  Spec => []NoDuplicateJob
<1>1. TypeOK /\ JobsWithinBudget => NoDuplicateJob
  <2> SUFFICES ASSUME TypeOK, JobsWithinBudget, NEW i \in Records, NEW n \in DOMAIN remote[i],
                      n < Len(remote[i]) \/ i \in inflight
               PROVE  FALSE
    BY DEF NoDuplicateJob
  <2> DEFINE length == Len(remote[i])
             flying == IF i \in inflight THEN 1 ELSE 0
  <2>1. length \in Nat /\ n \in 1 .. length /\ retryRuns = 0 BY DEF TypeOK
  <2>2. length + flying <= 1 + retryRuns BY DEF JobsWithinBudget
  <2>3. flying \in {0, 1} /\ (n < length \/ flying = 1) OBVIOUS
  <2> HIDE DEF length, flying
  <2> QED BY <2>1, <2>2, <2>3
<1>2. Spec => []TypeOK BY Safe, PTL DEF IInv
<1> QED BY <1>1, <1>2, SubmittedOncePerRetry, PTL
=============================================================================

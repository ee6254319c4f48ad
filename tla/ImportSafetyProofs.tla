-------------------------- MODULE ImportSafetyProofs --------------------------
(***************************************************************************)
(* No duplicate submission: the inductive invariant, and that it is one.   *)
(***************************************************************************)
EXTENDS ImportRunProofs

-----------------------------------------------------------------------------
(* The inductive invariant behind the safety of resubmission.  It has two   *)
(* halves: what a record on disk says of its jobs, whatever the process     *)
(* does, and what the process knows of the record it works on.              *)

\* A status request with a blank id is answered about no job of the record.
IdsNameJobs == "blank" \notin AnswerForms

\* An answer that cannot be read makes the runner call FAILED what DIGIweb may
\* have accepted: what FAILED promises is promised only without such answers.
FailureIsSaid == "unreadable" \notin AnswerForms /\ IdsNameJobs

\* An empty 202 makes it call SUCCESS a job of which nothing was said.
SuccessIsSaid == ~EmptyAccepted /\ IdsNameJobs

AllFailed(jobs) == FailureIsSaid => \A n \in DOMAIN jobs : jobs[n] = "fail"

\* r is a truthful record of jobs, of which one more may come if flying.
Truthful(r, jobs, flying) ==
  /\ r.status = "NotAttempted" =>
       jobs = <<>> /\ ~flying /\ r.request_id = NoRequest
  /\ r.status = "SubmissionStarted" => r.request_id = NoRequest
  /\ r.status \in {"RequestAccepted", "Processing", "UnknownStatus"} =>
       r.request_id # NoRequest
  /\ r.status = "Failed" => AllFailed(jobs) /\ ~flying
  /\ r.status = "Success" =>
       r.request_id # NoRequest /\ (SuccessIsSaid => jobs[Len(jobs)] = "success")
  /\ r.request_id # NoRequest => ~flying
  /\ r.request_id \notin {NoRequest, BlankId} => r.request_id = Len(jobs)
  /\ IdsNameJobs => r.request_id # BlankId
  /\ \A n \in DOMAIN jobs :
       FailureIsSaid /\ (n < Len(jobs) \/ flying) => jobs[n] = "fail"
  /\ Len(jobs) + (IF flying THEN 1 ELSE 0) <= Len(r.attempts)

RecordsTruthful ==
  \A i \in Records : Truthful(manifest.records[i], remote[i], i \in inflight)

\* The POST of the current attempt has not left, or created no job.
Unsent ==
  \/ pc = "sending"
  \/ pc = "awaiting" /\ reply.form \in {"unauthorized", "rejected"}

Answered == pc \in {"awaiting", "accepted"} /\ reply.form \in AllAnswerForms

ProcessKnows ==
  /\ disk = manifest
  /\ pc \in {"sending", "awaiting"} => Rec.status = "SubmissionStarted"
  /\ pc = "accepted" =>
       Rec.status = "RequestAccepted" /\ reply.form \in {"tracked", "blank"}
  /\ pc = "polling" => Rec.status = "Processing"
  /\ pc # "idle" => \A i \in Records :
       manifest.records[i].status = "SubmissionStarted" =>
         pc \in {"sending", "awaiting"} /\ i = cur
  /\ pc \notin {"awaiting", "accepted"} => reply = NoReply
  /\ FailureIsSaid => reply.form # "unreadable"
  /\ IdsNameJobs => reply.form # "blank"
  /\ Unsent => /\ AllFailed(remote[cur]) /\ cur \notin inflight
               /\ Len(remote[cur]) < Len(Rec.attempts)
  /\ Answered => /\ cur \notin inflight /\ remote[cur] # <<>>
                 /\ reply.status \in {"success", "fail"} =>
                      remote[cur][Len(remote[cur])] = reply.status

IInv == TypeOK /\ RecordsTruthful /\ ProcessKnows

-----------------------------------------------------------------------------
(* What the operations on a record make of its truthfulness *)

\* A record may only be marked successful when its newest job is.
LEMMA TruthfulSuccess ==
  ASSUME NEW r \in PluManifestRecord, NEW jobs \in Seq(JobState), NEW flying \in BOOLEAN,
         Truthful(r, jobs, flying), r.request_id # NoRequest,
         SuccessIsSaid => jobs[Len(jobs)] = "success"
  PROVE  Truthful(MarkSuccess(r), jobs, flying)
BY DEF Truthful, MarkSuccess, PluManifestRecord

\* A record may only be marked failed when no job of it is open or succeeded.
LEMMA TruthfulFailed ==
  ASSUME NEW r \in PluManifestRecord, NEW jobs \in Seq(JobState), NEW flying \in BOOLEAN,
         NEW text \in ErrorMessage,
         Truthful(r, jobs, flying), AllFailed(jobs), ~flying
  PROVE  Truthful(MarkFailed(r, text), jobs, flying)
<1> DEFINE s == MarkFailed(r, text)
<1>1. s.status = "Failed" /\ s.request_id = r.request_id
        /\ Len(s.attempts) = Len(r.attempts)
  BY MarkFacts
<1> HIDE DEF s
<1>2. Truthful(s, jobs, flying) BY <1>1 DEF Truthful
<1> QED BY <1>2 DEF s

\* An unresolved poll keeps a pollable record truthful.
LEMMA TruthfulUnknown ==
  ASSUME NEW r \in PluManifestRecord, NEW jobs \in Seq(JobState), NEW flying \in BOOLEAN,
         NEW text \in ErrorMessage,
         Truthful(r, jobs, flying), r.request_id # NoRequest
  PROVE  Truthful(MarkUnknown(r, text), jobs, flying)
<1> DEFINE s == MarkUnknown(r, text)
<1>1. s.status = "UnknownStatus" /\ s.request_id = r.request_id
        /\ Len(s.attempts) = Len(r.attempts)
  BY MarkFacts
<1> HIDE DEF s
<1>2. Truthful(s, jobs, flying) BY <1>1 DEF Truthful
<1> QED BY <1>2 DEF s

\* An ambiguous record claims nothing of its jobs.
LEMMA TruthfulAmbiguous ==
  ASSUME NEW r \in PluManifestRecord, NEW jobs \in Seq(JobState), NEW flying \in BOOLEAN,
         NEW text \in ErrorMessage, Truthful(r, jobs, flying)
  PROVE  Truthful(MarkAmbiguous(r, text), jobs, flying)
<1> DEFINE s == MarkAmbiguous(r, text)
<1>1. s.status = "AmbiguousSubmission" /\ s.request_id = r.request_id
        /\ Len(s.attempts) = Len(r.attempts)
  BY MarkFacts
<1> HIDE DEF s
<1>2. Truthful(s, jobs, flying) BY <1>1 DEF Truthful
<1> QED BY <1>2 DEF s

\* A poll starts from a record with a request id.
LEMMA TruthfulProcessing ==
  ASSUME NEW r \in PluManifestRecord, NEW jobs \in Seq(JobState), NEW flying \in BOOLEAN,
         Truthful(r, jobs, flying), r.request_id # NoRequest
  PROVE  Truthful(MarkProcessing(r), jobs, flying)
BY DEF Truthful, MarkProcessing, PluManifestRecord

\* A request id is recorded as that of the newest job, once it exists, or blank.
LEMMA TruthfulAccepted ==
  ASSUME NEW r \in PluManifestRecord, NEW jobs \in Seq(JobState), NEW id \in RequestId,
         Truthful(r, jobs, FALSE), jobs # <<>>,
         id = Len(jobs) \/ (id = BlankId /\ ~IdsNameJobs)
  PROVE  Truthful(MarkRequestAccepted(r, id), jobs, FALSE)
<1> DEFINE s == MarkRequestAccepted(r, id)
<1>1. id # NoRequest /\ (id = BlankId => ~IdsNameJobs) BY DEF NoRequest, BlankId
<1>2. s.status = "RequestAccepted" /\ s.request_id = id
        /\ Len(s.attempts) = Len(r.attempts)
  BY <1>1, MarkRequestAcceptedFacts
<1> HIDE DEF s
<1>3. Truthful(s, jobs, FALSE) BY <1>1, <1>2 DEF Truthful
<1> QED BY <1>3 DEF s

\* An attempt is opened only where nothing is open at DIGIweb, and makes room
\* for one more job.
LEMMA TruthfulBegin ==
  ASSUME NEW r \in PluManifestRecord, NEW jobs \in Seq(JobState), NEW flying \in BOOLEAN,
         Truthful(r, jobs, flying), r.status \in {"NotAttempted", "Failed"}
  PROVE  /\ Truthful(BeginAttempt(r), jobs, flying)
         /\ AllFailed(jobs) /\ ~flying
         /\ Len(jobs) < Len(BeginAttempt(r).attempts)
<1> DEFINE s == BeginAttempt(r)
<1>1. s.status = "SubmissionStarted" /\ s.request_id = NoRequest
        /\ Len(s.attempts) = Len(r.attempts) + 1
  BY BeginAttemptFacts
<1>2. AllFailed(jobs) /\ ~flying BY DEF Truthful, AllFailed
<1>3. Len(jobs) \in Nat /\ Len(r.attempts) \in Nat BY DEF PluManifestRecord
<1>4. Len(jobs) <= Len(r.attempts) BY <1>2, <1>3 DEF Truthful
<1> HIDE DEF s
<1>5. Len(jobs) + (IF flying THEN 1 ELSE 0) <= Len(s.attempts)
  BY <1>1, <1>2, <1>3, <1>4
<1>6. \A n \in DOMAIN jobs :
        FailureIsSaid /\ (n < Len(jobs) \/ flying) => jobs[n] = "fail"
  BY DEF Truthful
<1>7. Truthful(s, jobs, flying)
  BY <1>1, <1>5, <1>6 DEF Truthful, NoRequest, BlankId
<1>8. Len(jobs) < Len(s.attempts) BY <1>1, <1>3, <1>4
<1> QED BY <1>2, <1>7, <1>8 DEF s

\* Restarting claims nothing new.
LEMMA TruthfulRestart ==
  ASSUME NEW r \in PluManifestRecord, NEW s \in PluManifestRecord,
         NEW jobs \in Seq(JobState), NEW flying \in BOOLEAN,
         Truthful(r, jobs, flying), s.request_id = r.request_id,
         Len(s.attempts) = Len(r.attempts),
         s.status = r.status \/ s.status = "AmbiguousSubmission"
  PROVE  Truthful(s, jobs, flying)
BY DEF Truthful

-----------------------------------------------------------------------------
(* What DIGIweb does to the truthfulness of a record *)

\* A POST may leave when every earlier job of the record has failed.
LEMMA TruthfulSend ==
  ASSUME NEW r \in PluManifestRecord, NEW jobs \in Seq(JobState),
         Truthful(r, jobs, FALSE), r.status = "SubmissionStarted",
         AllFailed(jobs), Len(jobs) < Len(r.attempts)
  PROVE  Truthful(r, jobs, TRUE)
<1>1. Len(jobs) \in Nat /\ Len(r.attempts) \in Nat BY DEF PluManifestRecord
<1>2. Len(jobs) + 1 <= Len(r.attempts) BY <1>1
<1> QED BY <1>2 DEF Truthful, AllFailed

\* The job of a POST on its way belongs to a record that claims nothing of it.
LEMMA TruthfulAccept ==
  ASSUME NEW r \in PluManifestRecord, NEW jobs \in Seq(JobState), NEW state \in JobState,
         Truthful(r, jobs, TRUE)
  PROVE  Truthful(r, Append(jobs, state), FALSE)
<1> DEFINE new == Append(jobs, state)
<1>1. Len(new) = Len(jobs) + 1 /\ Len(jobs) \in Nat BY DEF JobState
<1>2. \A n \in DOMAIN new : n < Len(new) => n \in DOMAIN jobs /\ new[n] = jobs[n]
  BY <1>1
<1>3. \A n \in DOMAIN new : FailureIsSaid /\ n < Len(new) => new[n] = "fail"
  BY <1>2 DEF Truthful
<1>4. Len(new) <= Len(r.attempts) BY <1>1 DEF Truthful
<1>5. r.request_id = NoRequest /\ r.status \in {"SubmissionStarted", "AmbiguousSubmission"}
  BY DEF Truthful, PluManifestRecord, RecordStatus
<1> HIDE DEF new
<1>6. Len(new) + 0 <= Len(r.attempts) BY <1>1, <1>4
<1>7. Truthful(r, new, FALSE) BY <1>3, <1>5, <1>6 DEF Truthful
<1> QED BY <1>7 DEF new

\* A POST that created no job.
LEMMA TruthfulLost ==
  ASSUME NEW r \in PluManifestRecord, NEW jobs \in Seq(JobState), Truthful(r, jobs, TRUE)
  PROVE  Truthful(r, jobs, FALSE) /\ AllFailed(jobs) /\ Len(jobs) < Len(r.attempts)
<1>1. Len(jobs) \in Nat /\ Len(r.attempts) \in Nat BY DEF PluManifestRecord
<1>2. Len(jobs) + 1 <= Len(r.attempts) BY DEF Truthful
<1>3. Len(jobs) + 0 <= Len(r.attempts) /\ Len(jobs) < Len(r.attempts) BY <1>1, <1>2
<1>4. AllFailed(jobs) BY DEF Truthful, AllFailed
<1> QED BY <1>3, <1>4 DEF Truthful, AllFailed

\* A job that ends was open, so that nothing was claimed of it.
LEMMA TruthfulFinish ==
  ASSUME NEW r \in PluManifestRecord, NEW jobs \in Seq(JobState), NEW flying \in BOOLEAN,
         NEW n \in DOMAIN jobs, jobs[n] = "processing", NEW state \in JobState,
         Truthful(r, jobs, flying)
  PROVE  Truthful(r, [jobs EXCEPT ![n] = state], flying)
<1> DEFINE new == [jobs EXCEPT ![n] = state]
<1>1. DOMAIN new = DOMAIN jobs /\ Len(new) = Len(jobs) /\ jobs # <<>> OBVIOUS
<1>2. r.status # "NotAttempted" BY <1>1 DEF Truthful
<1>3. r.status = "Failed" => AllFailed(new) BY DEF Truthful, AllFailed
<1>4. r.status = "Success" => (SuccessIsSaid => new[Len(new)] = "success")
  <2>1. r.status = "Success" /\ SuccessIsSaid => n # Len(jobs) BY DEF Truthful
  <2> QED BY <1>1, <2>1 DEF Truthful
<1>5. \A k \in DOMAIN new :
        FailureIsSaid /\ (k < Len(new) \/ flying) => new[k] = "fail"
  BY <1>1 DEF Truthful
<1> HIDE DEF new
<1>6. Truthful(r, new, flying) BY <1>1, <1>2, <1>3, <1>4, <1>5 DEF Truthful
<1> QED BY <1>6 DEF new

-----------------------------------------------------------------------------
(* The pieces of the runner's steps *)

\* What the process knows of the record it works on, and of its jobs.
LEMMA CurFacts ==
  ASSUME IInv, pc \in OnRecord
  PROVE  /\ cur \in Records
         /\ Rec \in PluManifestRecord
         /\ remote[cur] \in Seq(JobState)
         /\ Truthful(Rec, remote[cur], cur \in inflight)
<1>1. cur \in Records /\ Rec \in PluManifestRecord BY CurIsRecord DEF IInv
<1>2. remote[cur] \in Seq(JobState) BY <1>1 DEF IInv, TypeOK
<1> QED BY <1>1, <1>2 DEF IInv, RecordsTruthful, Rec

\* A process may end at any point: what it leaves on disk is truthful.
LEMMA EndedSafe ==
  ASSUME IInv, NEW d \in ImportManifest, NEW how \in ExitKind, Ended(d, how),
         \A i \in Records : Truthful(d.records[i], remote[i], i \in inflight)
  PROVE  IInv'
<1>1. TypeOK' BY EndedType DEF IInv
<1>2. RecordsTruthful' BY DEF Ended, RecordsTruthful
<1>3. ProcessKnows'
  BY DEF Ended, ProcessKnows, Unsent, Answered, NoReply
<1> QED BY <1>1, <1>2, <1>3 DEF IInv

\* The end of a run that leaves the records as they are.
LEMMA EndedWithSummarySafe ==
  ASSUME IInv, NEW m \in ImportManifest, m.records = manifest.records,
         EndedWithSummary(m)
  PROVE  IInv'
<1> DEFINE how == IF FinalStatusIsSuccess(m.summary) THEN "ok" ELSE "unresolved"
<1>1. how \in ExitKind BY DEF ExitKind
<1>2. Ended(m, how) BY DEF EndedWithSummary
<1>3. \A i \in Records : Truthful(m.records[i], remote[i], i \in inflight)
  BY DEF IInv, RecordsTruthful
<1> HIDE DEF how
<1> QED BY <1>1, <1>2, <1>3, EndedSafe

\* A process that dies, or returns an error, leaves what was last written.
LEMMA DiskIsSafe ==
  ASSUME IInv, NEW how \in ExitKind, Ended(disk, how)
  PROVE  IInv'
<1>1. disk \in ImportManifest BY DEF IInv, TypeOK
<1>2. \A i \in Records : Truthful(disk.records[i], remote[i], i \in inflight)
  BY DEF IInv, RecordsTruthful, ProcessKnows
<1> QED BY <1>1, <1>2, EndedSafe

\* An internal error is such an end.
LEMMA InternalErrorSafe == ASSUME IInv, InternalError PROVE IInv'
BY DiskIsSafe DEF InternalError, ExitKind

\* The work on a record ends with a truthful record that is not left open.
LEMMA RecordDoneSafe ==
  ASSUME IInv, pc \in OnRecord, NEW r \in PluManifestRecord,
         r.status # "SubmissionStarted",
         Truthful(r, remote[cur], cur \in inflight), RecordDone(r)
  PROVE  IInv'
<1>1. TypeOK' BY RecordDoneType DEF IInv
<1>2. cur \in Records BY CurFacts
<1>3. /\ disk' = manifest'
      /\ manifest'.records = [manifest.records EXCEPT ![cur] = r]
  BY <1>2, SaveRecordType DEF IInv, RecordDone
<1>4. remote' = remote /\ inflight' = inflight /\ reply' = NoReply BY DEF RecordDone
<1>5. manifest.records \in [Records -> PluManifestRecord]
  BY DEF IInv, TypeOK, ImportManifest
<1>6. RecordsTruthful'
  BY <1>2, <1>3, <1>4, <1>5 DEF IInv, RecordsTruthful
<1>7. pc' \in {"finishing", "loop"} BY DEF RecordDone, NextStop
<1>8. \A i \in Records : manifest'.records[i].status # "SubmissionStarted"
  BY <1>2, <1>3, <1>5 DEF IInv, ProcessKnows, OnRecord
<1>9. ProcessKnows'
  BY <1>3, <1>4, <1>7, <1>8 DEF ProcessKnows, Unsent, Answered, NoReply
<1> QED BY <1>1, <1>6, <1>9 DEF IInv

\* The same, through transition_to.
LEMMA RecordDoneIfLegalSafe ==
  ASSUME IInv, pc \in OnRecord, NEW r \in PluManifestRecord, RecordDoneIfLegal(r),
         TransitionOk(Rec, r.status) =>
           /\ r.status # "SubmissionStarted"
           /\ Truthful(r, remote[cur], cur \in inflight)
  PROVE  IInv'
BY RecordDoneSafe, InternalErrorSafe DEF RecordDoneIfLegal

\* An authentication failure saves a truthful record and ends the run.
LEMMA AuthStopsSafe ==
  ASSUME IInv, pc \in OnRecord, NEW r \in PluManifestRecord, AuthStops(r),
         Truthful(r, remote[cur], cur \in inflight)
  PROVE  IInv'
<1> DEFINE m == RecalculateSummaryForActiveRun(SetRecord(manifest, cur, r))
<1>1. cur \in Records BY CurFacts
<1>2. manifest \in ImportManifest BY DEF IInv, TypeOK
<1>3. /\ SetRecord(manifest, cur, r) \in ImportManifest
      /\ SetRecord(manifest, cur, r).records = [manifest.records EXCEPT ![cur] = r]
  BY <1>1, <1>2, SetRecordType
<1>4. m \in ImportManifest /\ m.records = [manifest.records EXCEPT ![cur] = r]
  BY <1>3, Recalculated
<1>5. Ended(m, "error") \/ InternalError BY DEF AuthStops
<1> HIDE DEF m
<1>6. \A i \in Records : Truthful(m.records[i], remote[i], i \in inflight)
  BY <1>1, <1>2, <1>4 DEF IInv, RecordsTruthful, ImportManifest
<1> QED BY <1>4, <1>5, <1>6, EndedSafe, InternalErrorSafe DEF ExitKind

\* A poll starts where no record is open, on one with a request id.
LEMMA StartPollSafe ==
  ASSUME IInv, NEW i \in Records, StartPoll(i), pc \in {"loop", "accepted"},
         manifest.records[i].request_id # NoRequest,
         run' = run, plan' = plan, todo' \subseteq Records, exit' = exit,
         retryRuns' = retryRuns, inflight' = inflight, remote' = remote,
         signal' \in {"unarmed", "armed", "pending"}
  PROVE  IInv'
<1> DEFINE r == manifest.records[i]
           s == MarkProcessing(r)
<1>1. TypeOK' BY StartPollType DEF IInv
<1>2. manifest.records \in [Records -> PluManifestRecord] /\ r \in PluManifestRecord
  BY DEF IInv, TypeOK, ImportManifest
<1>3. s \in PluManifestRecord /\ s.status = "Processing"
  <2>1. "clean" \in ErrorMessage BY DEF ErrorMessage
  <2> QED BY <1>2, <2>1, MarkFacts
<1>4. /\ disk' = manifest'
      /\ manifest'.records = [manifest.records EXCEPT ![i] = s]
  BY <1>3, SaveRecordType DEF IInv, StartPoll
<1>5. Truthful(s, remote[i], i \in inflight)
  <2> DEFINE flying == i \in inflight
  <2>1. /\ remote[i] \in Seq(JobState) /\ flying \in BOOLEAN
        /\ Truthful(r, remote[i], flying)
    BY DEF IInv, RecordsTruthful, TypeOK
  <2> HIDE DEF r, flying
  <2>2. r.request_id # NoRequest BY DEF r
  <2>3. Truthful(MarkProcessing(r), remote[i], flying)
    BY <1>2, <2>1, <2>2, TruthfulProcessing
  <2> QED BY <2>3 DEF flying
<1> HIDE DEF s, r
<1>6. RecordsTruthful' BY <1>2, <1>4, <1>5 DEF IInv, RecordsTruthful
<1>7. pc' = "polling" /\ cur' = i /\ reply' = NoReply BY DEF StartPoll
<1>8. \A j \in Records : manifest'.records[j].status # "SubmissionStarted"
  BY <1>2, <1>3, <1>4 DEF IInv, ProcessKnows
<1>9. Rec'.status = "Processing" BY <1>2, <1>3, <1>4, <1>7 DEF Rec
<1>10. ProcessKnows'
  BY <1>4, <1>7, <1>8, <1>9 DEF ProcessKnows, Unsent, Answered, NoReply
<1> QED BY <1>1, <1>6, <1>10 DEF IInv

-----------------------------------------------------------------------------
(* The steps *)

Outcome ==
  \/ RefreshRefused \/ RefreshUnreachable \/ RefreshUnlogged
  \/ ReceiveUnauthorized \/ ReceiveHttpError \/ PostNetworkError
  \/ ReceiveTracked \/ AfterAccepted \/ ReceiveUntracked
  \/ PollSucceeds \/ PollFails \/ PollUnresolved \/ PollUnauthorized

\* Whatever becomes of a submission or a poll, the record tells the truth.
LEMMA OutcomeSafe ==
  ASSUME IInv, TypeOK', Outcome
  PROVE  IInv'
<1> DEFINE jobs == remote[cur]
           flying == cur \in inflight
<1>0. pc \in OnRecord
  BY DEF Outcome, RefreshRefused, RefreshUnreachable, RefreshUnlogged,
         ReceiveUnauthorized, ReceiveHttpError, PostNetworkError,
         ReceiveTracked, AfterAccepted, ReceiveUntracked,
         PollSucceeds, PollFails, PollUnresolved, PollUnauthorized, OnRecord
<1>1. /\ cur \in Records /\ Rec \in PluManifestRecord
      /\ jobs \in Seq(JobState) /\ flying \in BOOLEAN
      /\ Truthful(Rec, jobs, flying)
  BY <1>0, CurFacts
<1>2. "clean" \in ErrorMessage /\ \A text \in Texts : text \in ErrorMessage
  BY TextsAssumption DEF ErrorMessage
<1>3. /\ MarkSuccess(Rec) \in PluManifestRecord /\ MarkSuccess(Rec).status = "Success"
      /\ \A text \in ErrorMessage :
           /\ MarkFailed(Rec, text) \in PluManifestRecord
           /\ MarkFailed(Rec, text).status = "Failed"
           /\ MarkUnknown(Rec, text) \in PluManifestRecord
           /\ MarkUnknown(Rec, text).status = "UnknownStatus"
           /\ MarkAmbiguous(Rec, text) \in PluManifestRecord
           /\ MarkAmbiguous(Rec, text).status = "AmbiguousSubmission"
  BY <1>1, <1>2, MarkFacts
<1>4. Unsent => AllFailed(jobs) /\ ~flying
  BY DEF IInv, ProcessKnows
<1>5. Answered => /\ ~flying /\ jobs # <<>>
                  /\ reply.status \in {"success", "fail"} => jobs[Len(jobs)] = reply.status
  BY DEF IInv, ProcessKnows
<1>6. /\ pc \in {"sending", "awaiting"} => Rec.status = "SubmissionStarted"
      /\ pc = "accepted" => Rec.status = "RequestAccepted" /\ Answered
      /\ pc = "polling" => Rec.status = "Processing"
      /\ FailureIsSaid => reply.form # "unreadable"
      /\ IdsNameJobs => reply.form # "blank"
  BY DEF IInv, ProcessKnows, Answered, AllAnswerForms
<1>7. Rec.status \in {"RequestAccepted", "Processing"} =>
        /\ Rec.request_id # NoRequest /\ ~flying
        /\ Rec.request_id # BlankId => Rec.request_id = Len(jobs)
        /\ IdsNameJobs => Rec.request_id # BlankId
  BY <1>1 DEF Truthful
<1> HIDE DEF jobs, flying
<1>8. jobs # <<>> /\ (FailureIsSaid => jobs[Len(jobs)] = "fail") => AllFailed(jobs)
  BY <1>1 DEF Truthful, AllFailed
<1>9. ASSUME NEW text \in ErrorMessage, AllFailed(jobs), ~flying
      PROVE  Truthful(MarkFailed(Rec, text), jobs, flying)
  BY <1>1, <1>9, TruthfulFailed
<1>10. ASSUME NEW text \in ErrorMessage
       PROVE  Truthful(MarkAmbiguous(Rec, text), jobs, flying)
  BY <1>1, TruthfulAmbiguous
<1>11. ASSUME NEW text \in ErrorMessage, Rec.request_id # NoRequest
       PROVE  Truthful(MarkUnknown(Rec, text), jobs, flying)
  BY <1>1, <1>11, TruthfulUnknown
<1>12. ASSUME Rec.request_id # NoRequest, SuccessIsSaid => jobs[Len(jobs)] = "success"
       PROVE  Truthful(MarkSuccess(Rec), jobs, flying)
  BY <1>1, <1>12, TruthfulSuccess
<1>13. CASE RefreshRefused \/ RefreshUnlogged
  <2>1. Truthful(MarkFailed(Rec, "clean"), jobs, flying)
    BY <1>2, <1>4, <1>9, <1>13 DEF RefreshRefused, RefreshUnlogged, Unsent
  <2> QED
    BY <1>0, <1>2, <1>3, <1>13, <2>1, AuthStopsSafe, RecordDoneIfLegalSafe
    DEF RefreshRefused, RefreshUnlogged, jobs, flying
<1>14. CASE RefreshUnreachable \/ PostNetworkError
  <2>1. Truthful(MarkAmbiguous(Rec, "clean"), jobs, flying) BY <1>2, <1>10
  <2>2. RecordDone(MarkAmbiguous(Rec, "clean"))
    BY <1>14 DEF RefreshUnreachable, PostNetworkError
  <2> QED BY <1>0, <1>2, <1>3, <2>1, <2>2, RecordDoneSafe DEF jobs, flying
<1>15. CASE ReceiveUnauthorized
  <2>0. Unsent BY <1>15 DEF ReceiveUnauthorized, Unsent
  <2>1. CASE AuthStops(MarkFailed(Rec, "clean"))
    <3>1. Truthful(MarkFailed(Rec, "clean"), jobs, flying) BY <1>2, <1>4, <1>9, <2>0
    <3> QED BY <1>0, <1>2, <1>3, <2>1, <3>1, AuthStopsSafe DEF jobs, flying
  <2>2. CASE /\ tries < MaxAuthAttempts
             /\ pc' = "sending" /\ tries' = tries + 1 /\ reply' = NoReply
             /\ UNCHANGED <<disk, manifest, run, plan, todo, cur, signal, exit, retryRuns,
                            inflight, remote>>
    <3>1. RecordsTruthful' BY <2>2 DEF IInv, RecordsTruthful
    <3>2. pc = "awaiting" BY <1>15 DEF ReceiveUnauthorized
    <3>3. ProcessKnows'
      BY <2>0, <2>2, <3>2 DEF IInv, ProcessKnows, Unsent, Answered, Rec, NoReply
    <3> QED BY <3>1, <3>3 DEF IInv
  <2> QED BY <1>15, <2>1, <2>2 DEF ReceiveUnauthorized
<1>16. CASE ReceiveHttpError
  <2>1. AllFailed(jobs) /\ ~flying
    <3>1. CASE reply.form = "rejected" BY <1>4, <1>16, <3>1 DEF ReceiveHttpError, Unsent
    <3>2. CASE reply.form = "unreadable"
      BY <1>5, <1>6, <1>16, <3>2 DEF ReceiveHttpError, Answered, AllAnswerForms, AllFailed
    <3> QED BY <1>16, <3>1, <3>2 DEF ReceiveHttpError
  <2>2. PICK text \in Texts : RecordDoneIfLegal(MarkFailed(Rec, text))
    BY <1>16 DEF ReceiveHttpError
  <2>3. Truthful(MarkFailed(Rec, text), jobs, flying) BY <1>2, <1>9, <2>1
  <2> QED BY <1>0, <1>2, <1>3, <2>2, <2>3, RecordDoneIfLegalSafe DEF jobs, flying
<1>17. CASE ReceiveTracked
  <2> DEFINE id == IF reply.form = "blank" THEN BlankId ELSE Len(jobs)
             r == MarkRequestAccepted(Rec, id)
  <2>0. pc = "awaiting" /\ reply.form \in {"tracked", "blank"} BY <1>17 DEF ReceiveTracked
  <2>1. Answered BY <2>0 DEF Answered, AllAnswerForms
  <2>2. flying = FALSE /\ jobs # <<>> BY <1>1, <1>5, <2>1
  <2>4. id \in RequestId /\ (id = Len(jobs) \/ (id = BlankId /\ ~IdsNameJobs))
    BY <1>1, <1>6, <2>0 DEF RequestId
  <2> HIDE DEF id
  <2>3. Truthful(r, jobs, flying) BY <1>1, <2>2, <2>4, TruthfulAccepted
  <2>5. r \in PluManifestRecord /\ r.status = "RequestAccepted"
    BY <1>1, <2>4, MarkRequestAcceptedFacts
  <2> HIDE DEF r
  <2>6. CASE InternalError BY <2>6, InternalErrorSafe
  <2>7. CASE /\ SaveRecord(cur, r)
             /\ pc' = "accepted"
             /\ UNCHANGED <<run, plan, todo, cur, tries, signal, exit, retryRuns, digiweb>>
    <3>1. /\ disk' = manifest'
          /\ manifest'.records = [manifest.records EXCEPT ![cur] = r]
      BY <1>1, <2>5, <2>7, SaveRecordType DEF IInv
    <3>2. manifest.records \in [Records -> PluManifestRecord]
      BY DEF IInv, TypeOK, ImportManifest
    <3>3. remote' = remote /\ inflight' = inflight /\ reply' = reply /\ cur' = cur
      BY <2>7 DEF digiweb
    <3>4. RecordsTruthful'
      BY <1>1, <2>3, <3>1, <3>2, <3>3 DEF IInv, RecordsTruthful, jobs, flying
    <3>5. Rec' = r BY <1>1, <3>1, <3>2, <3>3 DEF Rec
    <3>6. \A i \in Records : manifest'.records[i].status # "SubmissionStarted"
      BY <1>1, <2>0, <2>5, <3>1, <3>2 DEF IInv, ProcessKnows
    <3>7. ProcessKnows'
      BY <2>0, <2>1, <2>5, <2>7, <3>1, <3>3, <3>5, <3>6
      DEF IInv, ProcessKnows, Unsent, Answered
    <3> QED BY <3>4, <3>7 DEF IInv
  <2> QED BY <1>17, <2>6, <2>7 DEF ReceiveTracked, r, id, jobs
<1>18. CASE AfterAccepted
  <2>1. /\ pc = "accepted" /\ Answered /\ Rec.request_id # NoRequest
        /\ jobs # <<>> /\ ~flying
    BY <1>5, <1>6, <1>7, <1>18 DEF AfterAccepted
  <2>2. CASE reply.status = "success" /\ RecordDoneIfLegal(MarkSuccess(Rec))
    <3>1. Truthful(MarkSuccess(Rec), jobs, flying) BY <1>5, <1>12, <2>1, <2>2
    <3> QED BY <1>0, <1>3, <2>2, <3>1, RecordDoneIfLegalSafe DEF jobs, flying
  <2>3. ASSUME reply.status = "fail", NEW text \in Texts,
               RecordDoneIfLegal(MarkFailed(Rec, text))
        PROVE  IInv'
    <3>1. Truthful(MarkFailed(Rec, text), jobs, flying)
      BY <1>2, <1>5, <1>8, <1>9, <2>1, <2>3
    <3> QED BY <1>0, <1>2, <1>3, <2>3, <3>1, RecordDoneIfLegalSafe DEF jobs, flying
  <2>4. ASSUME NEW text \in Texts, RecordDoneIfLegal(MarkUnknown(Rec, text))
        PROVE  IInv'
    <3>1. Truthful(MarkUnknown(Rec, text), jobs, flying) BY <1>2, <1>11, <2>1
    <3> QED BY <1>0, <1>2, <1>3, <2>4, <3>1, RecordDoneIfLegalSafe DEF jobs, flying
  <2>5. CASE InternalError BY <2>5, InternalErrorSafe
  <2>6. CASE /\ StartPoll(cur)
             /\ UNCHANGED <<run, plan, todo, signal, exit, retryRuns, inflight, remote>>
    <3>1. todo' \subseteq Records /\ signal' \in {"unarmed", "armed", "pending"}
      BY <2>6 DEF IInv, TypeOK
    <3>2. manifest.records[cur].request_id # NoRequest BY <2>1 DEF Rec
    <3> QED BY <1>1, <2>1, <2>6, <3>1, <3>2, StartPollSafe
  <2> QED BY <1>18, <2>2, <2>3, <2>4, <2>5, <2>6 DEF AfterAccepted
<1>19. CASE ReceiveUntracked
  <2>1. pc = "awaiting" /\ reply.form \in {"untracked", "bare"} BY <1>19 DEF ReceiveUntracked
  <2>2. Answered /\ Rec.status = "SubmissionStarted"
    BY <1>6, <2>1 DEF Answered, AllAnswerForms
  <2>3. CASE RecordDoneIfLegal(MarkSuccess(Rec))
    <3>1. ~TransitionOk(Rec, "Success") BY <2>2 DEF TransitionOk, MayTransitionTo
    <3> QED BY <1>3, <2>3, <3>1, InternalErrorSafe DEF RecordDoneIfLegal
  <2>4. ASSUME reply.status = "fail", NEW text \in Texts,
               RecordDoneIfLegal(MarkFailed(Rec, text))
        PROVE  IInv'
    <3>1. Truthful(MarkFailed(Rec, text), jobs, flying)
      BY <1>2, <1>5, <1>8, <1>9, <2>2, <2>4
    <3> QED BY <1>0, <1>2, <1>3, <2>4, <3>1, RecordDoneIfLegalSafe DEF jobs, flying
  <2>5. ASSUME NEW text \in Texts, RecordDone(MarkAmbiguous(Rec, text)) PROVE IInv'
    <3>1. Truthful(MarkAmbiguous(Rec, text), jobs, flying) BY <1>2, <1>10
    <3> QED BY <1>0, <1>2, <1>3, <2>5, <3>1, RecordDoneSafe DEF jobs, flying
  <2> QED BY <1>19, <2>3, <2>4, <2>5 DEF ReceiveUntracked
<1>20. CASE PollSucceeds \/ PollFails \/ PollUnresolved \/ PollUnauthorized
  <2>1. pc = "polling"
    BY <1>20 DEF PollSucceeds, PollFails, PollUnresolved, PollUnauthorized
  <2>2. /\ Rec.request_id # NoRequest /\ ~flying
        /\ Rec.request_id # BlankId => Rec.request_id = Len(jobs)
        /\ IdsNameJobs => Rec.request_id # BlankId
    BY <1>6, <1>7, <2>1
  <2>3. IdsNameJobs => jobs # <<>> BY <1>1, <2>2 DEF NoRequest
  <2>4. \A state \in JobState :
          IdsNameJobs /\ JobIs(state) => jobs[Len(jobs)] = state
    BY <2>2 DEF JobIs, jobs
  <2>5. CASE PollSucceeds
    <3>1. SuccessIsSaid => jobs[Len(jobs)] = "success"
      BY <2>4, <2>5 DEF PollSucceeds, SuccessIsSaid, JobState
    <3>2. Truthful(MarkSuccess(Rec), jobs, flying) BY <1>12, <2>2, <3>1
    <3> QED BY <1>0, <1>3, <2>5, <3>2, RecordDoneIfLegalSafe DEF PollSucceeds, jobs, flying
  <2>6. CASE PollFails
    <3>1. PICK text \in Texts : RecordDoneIfLegal(MarkFailed(Rec, text))
      BY <2>6 DEF PollFails
    <3>2. AllFailed(jobs)
      BY <1>8, <2>3, <2>4, <2>6 DEF PollFails, FailureIsSaid, AllFailed, JobState
    <3>3. Truthful(MarkFailed(Rec, text), jobs, flying) BY <1>2, <1>9, <2>2, <3>2
    <3> QED BY <1>0, <1>2, <1>3, <3>1, <3>3, RecordDoneIfLegalSafe DEF jobs, flying
  <2>7. CASE PollUnresolved
    <3>1. PICK text \in Texts : RecordDoneIfLegal(MarkUnknown(Rec, text))
      BY <2>7 DEF PollUnresolved
    <3>2. Truthful(MarkUnknown(Rec, text), jobs, flying) BY <1>2, <1>11, <2>2
    <3> QED BY <1>0, <1>2, <1>3, <3>1, <3>2, RecordDoneIfLegalSafe DEF jobs, flying
  <2>8. CASE PollUnauthorized
    <3>1. Truthful(MarkUnknown(Rec, "clean"), jobs, flying) BY <1>2, <1>11, <2>2
    <3> QED BY <1>0, <1>2, <1>3, <2>8, <3>1, AuthStopsSafe DEF PollUnauthorized, jobs, flying
  <2> QED BY <1>20, <2>5, <2>6, <2>7, <2>8
<1> QED BY <1>13, <1>14, <1>15, <1>16, <1>17, <1>18, <1>19, <1>20 DEF Outcome

\* Taking up a record: only what is unsent or failed is submitted.
LEMMA SubmitSafe ==
  ASSUME IInv, TypeOK', NEW i \in Records, SubmitItem(i)
  PROVE  IInv'
<1> DEFINE r == manifest.records[i]
           s == BeginAttempt(r)
           jobs == remote[i]
           flying == i \in inflight
<1>1. /\ manifest.records \in [Records -> PluManifestRecord] /\ r \in PluManifestRecord
      /\ jobs \in Seq(JobState) /\ flying \in BOOLEAN /\ Truthful(r, jobs, flying)
  BY DEF IInv, TypeOK, ImportManifest, RecordsTruthful
<1>2. pc = "loop" /\ r.status # "SubmissionStarted" BY DEF SubmitItem, IInv, ProcessKnows
<1>3. CASE InternalError BY <1>3, InternalErrorSafe
<1>4. CASE /\ TransitionOk(r, "SubmissionStarted")
           /\ SaveRecord(i, s)
           /\ pc' = "sending" /\ cur' = i
           /\ UNCHANGED digiweb
  <2> HIDE DEF r, jobs, flying
  <2>1. r.status \in {"NotAttempted", "Failed"}
    BY <1>2, <1>4 DEF TransitionOk, MayTransitionTo
  <2>2. s \in PluManifestRecord /\ s.status = "SubmissionStarted"
    BY <1>1, BeginAttemptFacts
  <2>3. /\ Truthful(s, jobs, flying) /\ AllFailed(jobs) /\ ~flying
        /\ Len(jobs) < Len(s.attempts)
    BY <1>1, <2>1, TruthfulBegin
  <2> HIDE DEF s
  <2>4. /\ disk' = manifest'
        /\ manifest'.records = [manifest.records EXCEPT ![i] = s]
    BY <1>4, <2>2, SaveRecordType DEF IInv
  <2>5. remote' = remote /\ inflight' = inflight /\ reply' = reply BY <1>4 DEF digiweb
  <2>6. RecordsTruthful'
    BY <1>1, <2>3, <2>4, <2>5 DEF IInv, RecordsTruthful, jobs, flying
  <2>7. Rec' = s BY <1>1, <1>4, <2>4 DEF Rec
  <2>8. reply' = NoReply BY <1>2, <2>5 DEF IInv, ProcessKnows
  <2>9. \A j \in Records : manifest'.records[j].status = "SubmissionStarted" => j = i
    BY <1>1, <1>2, <2>4 DEF IInv, ProcessKnows
  <2>10. ProcessKnows'
    BY <1>4, <2>2, <2>3, <2>4, <2>5, <2>7, <2>8, <2>9
    DEF ProcessKnows, Unsent, Answered, NoReply, AllAnswerForms, jobs, flying
  <2> QED BY <2>6, <2>10 DEF IInv
<1> QED BY <1>3, <1>4 DEF SubmitItem

\* Polling takes up a record with a request id.
LEMMA PollItemSafe ==
  ASSUME IInv, NEW i \in Records, PollItem(i)
  PROVE  IInv'
<1>1. pc = "loop" BY DEF PollItem
<1>2. CASE InternalError BY <1>2, InternalErrorSafe
<1>3. CASE /\ manifest.records[i].request_id # NoRequest
           /\ StartPoll(i)
           /\ todo' = todo \ {i}
           /\ InstallHandler
           /\ UNCHANGED <<run, plan, exit, retryRuns, inflight, remote>>
  <2>1. todo' \subseteq Records /\ signal' \in {"unarmed", "armed", "pending"}
    BY <1>3 DEF IInv, TypeOK, InstallHandler
  <2> QED BY <1>1, <1>3, <2>1, StartPollSafe
<1> QED BY <1>2, <1>3 DEF PollItem

\* A resume closes what the last process left open.
LEMMA ResumeSafe ==
  ASSUME IInv, TypeOK', NEW retry \in BOOLEAN, NEW continue \in BOOLEAN,
         StartResume(retry, continue)
  PROVE  IInv'
<1> DEFINE m == MarkRestartedTransientsAmbiguous(disk)
<1>1. disk \in ImportManifest /\ disk = manifest BY DEF IInv, TypeOK, ProcessKnows
<1>2. /\ m \in ImportManifest
      /\ \A i \in Records :
           /\ m.records[i].request_id = disk.records[i].request_id
           /\ Len(m.records[i].attempts) = Len(disk.records[i].attempts)
           /\ m.records[i].status # "SubmissionStarted"
           /\ m.records[i].status # disk.records[i].status =>
                m.records[i].status = "AmbiguousSubmission"
  BY <1>1, RestartFacts
<1>3. manifest' \in {m, RecalculateSummaryForActiveRun(m)} /\ disk' = manifest'
  BY DEF StartResume
<1> HIDE DEF m
<1>4. manifest'.records = m.records BY <1>2, <1>3, Recalculated
<1>5. /\ pc = "idle" /\ pc' = "auth"
      /\ remote' = remote /\ inflight' = inflight /\ reply' = reply
  BY DEF StartResume, digiweb
<1>6. ASSUME NEW i \in Records
      PROVE  Truthful(m.records[i], remote[i], i \in inflight)
  <2> DEFINE r == disk.records[i]
             s == m.records[i]
             jobs == remote[i]
             flying == i \in inflight
  <2>1. /\ r \in PluManifestRecord /\ s \in PluManifestRecord
        /\ jobs \in Seq(JobState) /\ flying \in BOOLEAN /\ Truthful(r, jobs, flying)
    BY <1>1, <1>2 DEF IInv, TypeOK, ImportManifest, RecordsTruthful
  <2>2. /\ s.request_id = r.request_id /\ Len(s.attempts) = Len(r.attempts)
        /\ s.status = r.status \/ s.status = "AmbiguousSubmission"
    BY <1>2
  <2> HIDE DEF r, s, jobs, flying
  <2>3. Truthful(s, jobs, flying) BY <2>1, <2>2, TruthfulRestart
  <2> QED BY <2>3 DEF s, jobs, flying
<1>7. RecordsTruthful' BY <1>4, <1>5, <1>6 DEF RecordsTruthful
<1>8. ProcessKnows'
  BY <1>2, <1>3, <1>4, <1>5 DEF IInv, ProcessKnows, Unsent, Answered, NoReply
<1> QED BY <1>7, <1>8 DEF IInv

\* The POST leaves with its attempt on disk and nothing else open.
LEMMA SendSafe ==
  ASSUME IInv, TypeOK', SendPost
  PROVE  IInv'
<1>1. pc = "sending" /\ pc \in OnRecord /\ Unsent BY DEF SendPost, OnRecord, Unsent
<1> DEFINE jobs == remote[cur]
<1>2. /\ cur \in Records /\ Rec \in PluManifestRecord /\ jobs \in Seq(JobState)
      /\ Truthful(Rec, jobs, cur \in inflight)
  BY <1>1, CurFacts
<1>3. /\ AllFailed(jobs) /\ cur \notin inflight /\ Len(jobs) < Len(Rec.attempts)
      /\ Rec.status = "SubmissionStarted"
  BY <1>1 DEF IInv, ProcessKnows
<1> HIDE DEF jobs
<1>4. Truthful(Rec, jobs, FALSE) BY <1>2, <1>3 DEF Truthful
<1>5. Truthful(Rec, jobs, TRUE) BY <1>2, <1>3, <1>4, TruthfulSend
<1>6. /\ inflight' = inflight \cup {cur} /\ pc' = "awaiting"
      /\ UNCHANGED <<disk, manifest, cur, remote, reply>>
  BY DEF SendPost
<1>7. ASSUME NEW i \in Records
      PROVE  Truthful(manifest'.records[i], remote'[i], i \in inflight')
  <2>1. CASE i = cur
    <3>1. (i \in inflight') = TRUE BY <1>6, <2>1
    <3> QED BY <1>5, <1>6, <2>1, <3>1 DEF Rec, jobs
  <2>2. CASE i # cur
    <3>1. (i \in inflight') = (i \in inflight) BY <1>6, <2>2
    <3> QED BY <1>6, <3>1 DEF IInv, RecordsTruthful
  <2> QED BY <2>1, <2>2
<1>8. RecordsTruthful' BY <1>7 DEF RecordsTruthful
<1>9. reply' = NoReply BY <1>1, <1>6 DEF IInv, ProcessKnows
<1>10. ProcessKnows'
  BY <1>1, <1>6, <1>9
  DEF IInv, ProcessKnows, Unsent, Answered, NoReply, Rec, AllAnswerForms
<1> QED BY <1>8, <1>10 DEF IInv

\* DIGIweb creates a job: only of a record whose POST is on its way.
LEMMA AcceptSafe ==
  ASSUME IInv, TypeOK', NEW i \in Records, DigiwebAccepts(i)
  PROVE  IInv'
<1> DEFINE r == manifest.records[i]
           jobs == remote[i]
<1>1. i \in inflight BY DEF DigiwebAccepts
<1>2. /\ r \in PluManifestRecord /\ jobs \in Seq(JobState) /\ Truthful(r, jobs, TRUE)
  BY <1>1 DEF IInv, TypeOK, ImportManifest, RecordsTruthful
<1>3. PICK state \in JobState, form \in AnswerForms, status \in JobState \cup {"unknown"} :
        /\ status \in {state, "unknown"}
        /\ remote' = [remote EXCEPT ![i] = Append(jobs, state)]
        /\ AnswerTo(i, [form |-> form, status |-> status])
  BY DEF DigiwebAccepts
<1>4. inflight' = inflight \ {i} /\ UNCHANGED <<disk, process>> BY DEF DigiwebAccepts
<1>5. /\ form \in AllAnswerForms
      /\ FailureIsSaid => form # "unreadable"
      /\ IdsNameJobs => form # "blank"
  BY <1>3, AnswerFormsAssumption DEF FailureIsSaid, IdsNameJobs
<1>6. remote'[i] = Append(jobs, state) /\ \A j \in Records \ {i} : remote'[j] = remote[j]
  BY <1>3 DEF IInv, TypeOK
<1>7. /\ Append(jobs, state) # <<>>
      /\ Append(jobs, state)[Len(Append(jobs, state))] = state
  BY <1>2
<1>8. manifest' = manifest /\ disk' = disk /\ pc' = pc /\ cur' = cur
  BY <1>4 DEF process
<1> HIDE DEF r, jobs
<1>9. Truthful(r, Append(jobs, state), FALSE) BY <1>2, TruthfulAccept
<1>10. ASSUME NEW j \in Records
       PROVE  Truthful(manifest'.records[j], remote'[j], j \in inflight')
  <2>1. CASE j = i
    <3>1. (j \in inflight') = FALSE BY <1>4, <2>1
    <3> QED BY <1>6, <1>8, <1>9, <2>1, <3>1 DEF r
  <2>2. CASE j # i
    <3>1. (j \in inflight') = (j \in inflight) BY <1>4, <2>2
    <3> QED BY <1>6, <1>8, <2>2, <3>1 DEF IInv, RecordsTruthful
  <2> QED BY <2>1, <2>2
<1>11. RecordsTruthful' BY <1>10 DEF RecordsTruthful
<1>12. CASE pc = "awaiting" /\ cur = i
  <2>1. reply' = [form |-> form, status |-> status] BY <1>3, <1>12 DEF AnswerTo
  <2>2. reply'.form = form /\ reply'.status = status BY <2>1
  <2>3. reply'.form \notin {"unauthorized", "rejected"}
    BY <1>5, <2>2 DEF AllAnswerForms
  <2>4. reply'.status \in {"success", "fail"} => reply'.status = state BY <1>3, <2>2
  <2>5. cur \notin inflight' BY <1>4, <1>12
  <2>6. ProcessKnows'
    BY <1>5, <1>6, <1>7, <1>8, <1>12, <2>2, <2>3, <2>4, <2>5
    DEF IInv, ProcessKnows, Unsent, Answered, Rec
  <2> QED BY <1>11, <2>6 DEF IInv
<1>13. CASE ~(pc = "awaiting" /\ cur = i)
  <2>1. reply' = reply BY <1>3, <1>13 DEF AnswerTo
  <2>2. Unsent \/ Answered => cur # i /\ cur \in Records
    <3>1. Unsent \/ Answered => pc \in OnRecord BY DEF Unsent, Answered, OnRecord
    <3>2. Unsent \/ Answered => cur \in Records BY <3>1, CurFacts
    <3>3. Unsent \/ Answered => cur # i BY <1>1 DEF IInv, ProcessKnows
    <3> QED BY <3>2, <3>3
  <2>3. Unsent' = Unsent /\ Answered' = Answered /\ Rec' = Rec
    BY <1>8, <2>1 DEF Unsent, Answered, Rec
  <2>4. Unsent \/ Answered => remote'[cur] = remote[cur] /\ (cur \in inflight' => cur \in inflight)
    BY <1>4, <1>6, <2>2
  <2>5. ProcessKnows' BY <1>8, <2>1, <2>3, <2>4 DEF IInv, ProcessKnows
  <2> QED BY <1>11, <2>5 DEF IInv
<1> QED BY <1>12, <1>13

\* A POST is refused or lost: it created no job.
LEMMA RefuseSafe ==
  ASSUME IInv, TypeOK', NEW i \in Records, DigiwebRefuses(i) \/ PostLost(i)
  PROVE  IInv'
<1> DEFINE r == manifest.records[i]
           jobs == remote[i]
<1>1. /\ i \in inflight /\ inflight' = inflight \ {i}
      /\ UNCHANGED <<disk, process, remote>>
  BY DEF DigiwebRefuses, PostLost
<1>2. /\ manifest' = manifest /\ disk' = disk /\ pc' = pc /\ cur' = cur /\ remote' = remote
  BY <1>1 DEF process
<1>3. r \in PluManifestRecord /\ jobs \in Seq(JobState) /\ Truthful(r, jobs, TRUE)
  BY <1>1 DEF IInv, TypeOK, ImportManifest, RecordsTruthful
<1> HIDE DEF r, jobs
<1>4. Truthful(r, jobs, FALSE) /\ AllFailed(jobs) /\ Len(jobs) < Len(r.attempts)
  BY <1>3, TruthfulLost
<1>5. ASSUME NEW j \in Records
      PROVE  Truthful(manifest'.records[j], remote'[j], j \in inflight')
  <2>1. CASE j = i
    <3>1. (j \in inflight') = FALSE BY <1>1, <2>1
    <3> QED BY <1>2, <1>4, <2>1, <3>1 DEF r, jobs
  <2>2. CASE j # i
    <3>1. (j \in inflight') = (j \in inflight) BY <1>1, <2>2
    <3> QED BY <1>2, <2>2, <3>1 DEF IInv, RecordsTruthful
  <2> QED BY <2>1, <2>2
<1>6. RecordsTruthful' BY <1>5 DEF RecordsTruthful
<1>7. CASE reply' = reply
  <2>1. Unsent' = Unsent /\ Answered' = Answered /\ Rec' = Rec
    BY <1>2, <1>7 DEF Unsent, Answered, Rec
  <2>2. cur \in inflight' => cur \in inflight BY <1>1
  <2>3. ProcessKnows' BY <1>2, <1>7, <2>1, <2>2 DEF IInv, ProcessKnows
  <2> QED BY <1>6, <2>3 DEF IInv
<1>8. CASE reply' # reply
  <2>1. pc = "awaiting" /\ cur = i /\ reply'.form \in {"rejected", "unauthorized"}
    BY <1>1, <1>8 DEF DigiwebRefuses, PostLost, AnswerTo
  <2>2. Rec = r /\ remote'[cur] = jobs BY <1>2, <2>1 DEF Rec, r, jobs
  <2>3. cur \notin inflight' BY <1>1, <2>1
  <2>4. ProcessKnows'
    BY <1>2, <1>4, <2>1, <2>2, <2>3
    DEF IInv, ProcessKnows, Unsent, Answered, AllAnswerForms, Rec
  <2> QED BY <1>6, <2>4 DEF IInv
<1> QED BY <1>7, <1>8

\* A job ends: the process knew nothing final of it.
LEMMA FinishSafe ==
  ASSUME IInv, TypeOK', NEW i \in Records, DigiwebFinishes(i)
  PROVE  IInv'
<1> DEFINE r == manifest.records[i]
           jobs == remote[i]
           flying == i \in inflight
<1>1. PICK n \in DOMAIN jobs, state \in {"success", "fail"} :
        jobs[n] = "processing" /\ remote' = [remote EXCEPT ![i][n] = state]
  BY DEF DigiwebFinishes
<1>2. /\ manifest' = manifest /\ disk' = disk /\ pc' = pc /\ cur' = cur
      /\ inflight' = inflight /\ reply' = reply
  BY DEF DigiwebFinishes, process
<1>3. /\ r \in PluManifestRecord /\ jobs \in Seq(JobState) /\ flying \in BOOLEAN
      /\ Truthful(r, jobs, flying)
  BY DEF IInv, TypeOK, ImportManifest, RecordsTruthful
<1>4. /\ remote'[i] = [jobs EXCEPT ![n] = state]
      /\ \A j \in Records \ {i} : remote'[j] = remote[j]
  BY <1>1 DEF IInv, TypeOK
<1> HIDE DEF r, jobs, flying
<1>5. state \in JobState BY DEF JobState
<1>6. Truthful(r, [jobs EXCEPT ![n] = state], flying) BY <1>1, <1>3, <1>5, TruthfulFinish
<1>7. RecordsTruthful'
  BY <1>2, <1>4, <1>6 DEF IInv, RecordsTruthful, r, flying
<1>8. Unsent' = Unsent /\ Answered' = Answered /\ Rec' = Rec
  BY <1>2 DEF Unsent, Answered, Rec
<1>9. Unsent \/ Answered => cur \in Records
  <2>1. Unsent \/ Answered => pc \in OnRecord BY DEF Unsent, Answered, OnRecord
  <2> QED BY <2>1, CurFacts
<1>10. Unsent => /\ AllFailed(remote'[cur])
                 /\ Len(remote'[cur]) = Len(remote[cur])
  <2>1. CASE cur = i
    <3>1. Unsent => ~FailureIsSaid
      BY <1>1, <2>1 DEF IInv, ProcessKnows, AllFailed, jobs
    <3>2. Len([jobs EXCEPT ![n] = state]) = Len(jobs) BY <1>3
    <3> QED BY <1>4, <1>9, <2>1, <3>1, <3>2 DEF AllFailed, jobs
  <2>2. CASE cur # i BY <1>4, <1>9, <2>2 DEF IInv, ProcessKnows
  <2> QED BY <2>1, <2>2
<1>11. Answered /\ reply.status \in {"success", "fail"} =>
         remote'[cur][Len(remote'[cur])] = reply.status
  <2>1. CASE cur = i
    <3> DEFINE new == [jobs EXCEPT ![n] = state]
    <3>1. jobs # <<>> /\ Len(new) = Len(jobs) BY <1>3
    <3>2. Answered /\ reply.status \in {"success", "fail"} =>
            jobs[Len(jobs)] = reply.status
      BY <2>1 DEF IInv, ProcessKnows, jobs
    <3>3. Answered /\ reply.status \in {"success", "fail"} => n # Len(jobs)
      BY <1>1, <3>2
    <3>4. n # Len(jobs) => new[Len(jobs)] = jobs[Len(jobs)] BY <1>3, <3>1
    <3> QED BY <1>4, <1>9, <2>1, <3>1, <3>2, <3>3, <3>4
  <2>2. CASE cur # i BY <1>4, <1>9, <2>2 DEF IInv, ProcessKnows
  <2> QED BY <2>1, <2>2
<1>12. Answered => remote'[cur] # <<>>
  <2>1. [jobs EXCEPT ![n] = state] # <<>> BY <1>3
  <2> QED BY <1>4, <1>9, <2>1 DEF IInv, ProcessKnows
<1>13. ProcessKnows'
  BY <1>2, <1>8, <1>10, <1>11, <1>12 DEF IInv, ProcessKnows
<1> QED BY <1>7, <1>13 DEF IInv

-----------------------------------------------------------------------------
(* The invariant holds *)

\* A new import starts with records that claim nothing.
LEMMA InitSafe == Init => IInv
<1> SUFFICES ASSUME Init PROVE IInv OBVIOUS
<1>1. TypeOK BY InitType
<1>2. \A i \in Records : /\ manifest.records[i] = NewRecord
                         /\ remote[i] = <<>> /\ i \notin inflight
  BY DEF Init, NewManifest
<1>3. Truthful(NewRecord, <<>>, FALSE)
  <2> DEFINE jobs == <<>>
  <2>1. jobs \in Seq(JobState) /\ Len(jobs) = 0 /\ DOMAIN jobs = {} OBVIOUS
  <2>2. AllFailed(jobs) BY <2>1 DEF AllFailed
  <2>3. Len(NewRecord.attempts) = 0 BY DEF NewRecord
  <2> HIDE DEF jobs
  <2>4. Truthful(NewRecord, jobs, FALSE)
    BY <2>1, <2>2, <2>3 DEF Truthful, NewRecord, NoRequest, BlankId, jobs
  <2> QED BY <2>4 DEF jobs
<1>5. RecordsTruthful
  <2> SUFFICES ASSUME NEW i \in Records
               PROVE  Truthful(manifest.records[i], remote[i], i \in inflight)
    BY DEF RecordsTruthful
  <2>1. (i \in inflight) = FALSE BY <1>2
  <2> QED BY <1>2, <1>3, <2>1
<1>4. ProcessKnows
  BY <1>2 DEF Init, ProcessKnows, Unsent, Answered, NoReply, NewRecord, AllAnswerForms
<1> QED BY <1>1, <1>4, <1>5 DEF IInv

\* Steps that change neither the records nor what the process knows of them.
LEMMA QuietSafe ==
  ASSUME IInv, TypeOK',
         UNCHANGED <<disk, manifest, cur, inflight, remote, reply>>,
         pc' = pc \/ (pc \in {"auth", "loop"} /\ pc' \in {"loop", "finishing"})
  PROVE  IInv'
<1>1. RecordsTruthful' BY DEF IInv, RecordsTruthful
<1>2. ProcessKnows' BY DEF IInv, ProcessKnows, Unsent, Answered, Rec
<1> QED BY <1>1, <1>2 DEF IInv

\* Every step of the importer, the operator and DIGIweb keeps the records
\* truthful.
LEMMA StepSafe == IInv /\ [Next]_vars => IInv'
<1> SUFFICES ASSUME IInv, [Next]_vars PROVE IInv' OBVIOUS
<1>1. TypeOK' BY StepType DEF IInv
<1>2. CASE Outcome BY <1>1, <1>2, OutcomeSafe
<1>3. CASE Authenticated
  BY <1>1, <1>3, QuietSafe DEF Authenticated, digiweb
<1>4. CASE AuthenticationFails \/ Crash
  BY <1>4, DiskIsSafe DEF AuthenticationFails, Crash, ExitKind
<1>5. ASSUME NEW i \in Records, SkipItem(i) PROVE IInv'
  BY <1>1, <1>5, QuietSafe DEF SkipItem, digiweb
<1>6. ASSUME NEW i \in Records, PollItem(i) \/ SubmitItem(i) PROVE IInv'
  BY <1>1, <1>6, PollItemSafe, SubmitSafe
<1>7. CASE (\E i \in Records : InterruptItem(i)) \/ InterruptRecord \/ FinishRun
  <2>1. manifest \in ImportManifest BY DEF IInv, TypeOK
  <2>2. /\ MarkInterrupted(manifest) \in ImportManifest
        /\ MarkInterrupted(manifest).records = manifest.records
        /\ RecalculateSummary(manifest) \in ImportManifest
        /\ RecalculateSummary(manifest).records = manifest.records
    BY <2>1, Recalculated
  <2> QED BY <1>7, <2>2, EndedWithSummarySafe DEF InterruptItem, InterruptRecord, FinishRun
<1>8. CASE SendPost BY <1>1, <1>8, SendSafe
<1>9. CASE Resume BY <1>1, <1>9, ResumeSafe DEF Resume
<1>10. CASE CtrlC BY <1>1, <1>10, QuietSafe DEF CtrlC, digiweb
<1>11. CASE DigiwebStep
  BY <1>1, <1>11, AcceptSafe, RefuseSafe, FinishSafe DEF DigiwebStep
<1>12. CASE UNCHANGED vars
  BY <1>1, <1>12, QuietSafe DEF vars, process, digiweb
<1> QED
  BY <1>2, <1>3, <1>4, <1>5, <1>6, <1>7, <1>8, <1>9, <1>10, <1>11, <1>12
  DEF Next, RunnerStep, Outcome

\* The inductive invariant.
LEMMA Safe == Spec => []IInv
BY InitSafe, StepSafe, PTL DEF Spec

\* At every await the file holds what the process believes.
THEOREM NothingUnsaved == Spec => []NothingUnsavedAtAwait
<1>1. IInv => NothingUnsavedAtAwait BY DEF IInv, ProcessKnows, NothingUnsavedAtAwait
<1> QED BY <1>1, Safe, PTL

\* NOT_ATTEMPTED on disk: nothing of the record reached, or may yet reach,
\* DIGIweb, so that a resume may submit it.
THEOREM NotAttemptedSafe == Spec => []NotAttemptedIsSafe
<1>1. IInv => NotAttemptedIsSafe
  BY DEF IInv, ProcessKnows, RecordsTruthful, Truthful, NotAttemptedIsSafe
<1> QED BY <1>1, Safe, PTL

\* The attempts on disk bound the jobs DIGIweb holds or may yet create.
THEOREM JobsHaveAttempts == Spec => []EveryJobHasAnAttempt
<1>1. IInv => EveryJobHasAnAttempt
  BY DEF IInv, ProcessKnows, RecordsTruthful, Truthful, EveryJobHasAnAttempt
<1> QED BY <1>1, Safe, PTL

\* Where no request id is blank and a status request is answered by more than
\* an empty 202, SUCCESS on disk names a job that succeeded.
THEOREM SuccessConfirmed ==
  ASSUME SuccessIsSaid
  PROVE  Spec => []SuccessIsConfirmed
<1>1. IInv => SuccessIsConfirmed
  <2> SUFFICES ASSUME IInv, NEW i \in Records, disk.records[i].status = "Success"
               PROVE  /\ disk.records[i].request_id \in DOMAIN remote[i]
                      /\ remote[i][disk.records[i].request_id] = "success"
    BY DEF SuccessIsConfirmed
  <2> DEFINE r == manifest.records[i]
             jobs == remote[i]
  <2>1. disk = manifest /\ Truthful(r, jobs, i \in inflight)
    BY DEF IInv, ProcessKnows, RecordsTruthful
  <2>2. jobs \in Seq(JobState) BY DEF IInv, TypeOK
  <2> HIDE DEF jobs
  <2>3. /\ r.request_id # NoRequest /\ r.request_id = Len(jobs)
        /\ jobs[Len(jobs)] = "success"
    BY <2>1 DEF Truthful, SuccessIsSaid
  <2>4. Len(jobs) \in DOMAIN jobs BY <2>2, <2>3 DEF NoRequest
  <2> QED BY <2>1, <2>3, <2>4 DEF jobs
<1> QED BY <1>1, Safe, PTL

\* A request id on disk that names a job names the newest, and every record that
\* waits for DIGIweb has one: whatever the answers.
THEOREM RequestIdIsNewest == Spec => []RequestIdNamesNewestJob
<1>1. IInv => RequestIdNamesNewestJob
  BY DEF IInv, ProcessKnows, RecordsTruthful, Truthful, RequestIdNamesNewestJob
<1> QED BY <1>1, Safe, PTL

\* Where every accepted POST is answered readably and no request id is blank,
\* FAILED on disk is final:
\* --retry-failed may submit the record again.
THEOREM FailedConfirmed ==
  ASSUME FailureIsSaid
  PROVE  Spec => []FailedIsConfirmed
<1>1. IInv => FailedIsConfirmed
  BY DEF IInv, ProcessKnows, RecordsTruthful, Truthful, AllFailed, FailedIsConfirmed
<1> QED BY <1>1, Safe, PTL

\* Where every accepted POST is answered readably and no request id is blank,
\* DIGIweb never holds two jobs of a record unless the earlier one failed: for
\* every number of records, resumes, retries, crashes, interrupts and lost
\* answers.
THEOREM NoDuplicates ==
  ASSUME FailureIsSaid
  PROVE  Spec => []NoDuplicateJob
<1>1. IInv => NoDuplicateJob
  BY DEF IInv, RecordsTruthful, Truthful, NoDuplicateJob
<1> QED BY <1>1, Safe, PTL
===============================================================================

------------------------ MODULE ManifestRecordProofs ------------------------
(***************************************************************************)
(* Facts about the operations on records and manifests, cited by the       *)
(* proofs about the machines that use them.                                *)
(***************************************************************************)
EXTENDS ManifestRecord, FiniteSetTheorems, TLAPS

\* recalculate_summary counts: every count is a natural number.
LEMMA SummaryType ==
  ASSUME NEW records
  PROVE  SummaryOf(records) \in ManifestSummary
<1>1. ASSUME NEW s \in RecordStatus
      PROVE  Cardinality({i \in Records : records[i].status = s}) \in Nat
  <2>1. IsFiniteSet(Records)
    BY FS_Interval, NumRecordsAssumption DEF Records
  <2>2. IsFiniteSet({i \in Records : records[i].status = s})
    BY <2>1, FS_Subset
  <2> QED BY <2>2, FS_CardinalityType
<1> QED BY <1>1 DEF SummaryOf, ManifestSummary

\* derived_run_status is one of the run statuses.
LEMMA DerivedType == ASSUME NEW s PROVE DerivedRunStatus(s) \in RunStatus
BY DEF DerivedRunStatus, RunStatus

\* The three ways a manifest is brought up to date before it is written leave
\* the records and the continue option alone.
LEMMA Recalculated ==
  ASSUME NEW m \in ImportManifest
  PROVE  /\ RecalculateSummary(m) \in ImportManifest
         /\ RecalculateSummary(m).records = m.records
         /\ RecalculateSummaryForActiveRun(m) \in ImportManifest
         /\ RecalculateSummaryForActiveRun(m).records = m.records
         /\ MarkInterrupted(m) \in ImportManifest
         /\ MarkInterrupted(m).records = m.records
<1>1. SummaryOf(m.records) \in ManifestSummary BY SummaryType
<1>2. DerivedRunStatus(SummaryOf(m.records)) \in RunStatus BY DerivedType
<1>3. {"InProgress", "Interrupted"} \subseteq RunStatus BY DEF RunStatus
<1> HIDE DEF RunStatus, ManifestSummary
<1> QED BY <1>1, <1>2, <1>3
        DEF ImportManifest, RecalculateSummary, RecalculateSummaryForActiveRun, MarkInterrupted

\* Changing one record leaves the others as they are.
LEMMA SetRecordType ==
  ASSUME NEW m \in ImportManifest, NEW i \in Records, NEW r \in PluManifestRecord
  PROVE  /\ SetRecord(m, i, r) \in ImportManifest
         /\ SetRecord(m, i, r).records = [m.records EXCEPT ![i] = r]
BY DEF ImportManifest, SetRecord

\* A new import's manifest.
LEMMA NewManifestType ==
  ASSUME NEW c \in BOOLEAN
  PROVE  /\ NewManifest(c) \in ImportManifest
         /\ NewManifest(c).records = [i \in Records |-> NewRecord]
<1>1. NewRecord \in PluManifestRecord
  BY DEF NewRecord, PluManifestRecord, RecordStatus, RequestId, NoRequest
<1>2. SummaryOf([i \in Records |-> NewRecord]) \in ManifestSummary BY SummaryType
<1> QED BY <1>1, <1>2 DEF NewManifest, ImportManifest, RunStatus

-----------------------------------------------------------------------------
(* Record operations *)

\* Replacing the last element of a sequence leaves a sequence of that length.
LEMMA ReplaceLast ==
  ASSUME NEW S, NEW s \in Seq(S), s # <<>>, NEW e \in S
  PROVE  /\ [s EXCEPT ![Len(s)] = e] \in Seq(S)
         /\ Len([s EXCEPT ![Len(s)] = e]) = Len(s)
<1>1. Len(s) \in 1 .. Len(s) OBVIOUS
<1> QED BY <1>1

\* Rewriting the last attempt, if there is one, keeps the number of attempts.
LEMMA WithLastAttemptType ==
  ASSUME NEW r \in PluManifestRecord, NEW a, r.attempts # <<>> => a \in AttemptRecord
  PROVE  /\ WithLastAttempt(r, a) \in Seq(AttemptRecord)
         /\ Len(WithLastAttempt(r, a)) = Len(r.attempts)
<1>1. r.attempts \in Seq(AttemptRecord) BY DEF PluManifestRecord
<1>2. CASE r.attempts = <<>> BY <1>1, <1>2 DEF WithLastAttempt
<1>3. CASE r.attempts # <<>>
  <2>1. WithLastAttempt(r, a) = [r.attempts EXCEPT ![Len(r.attempts)] = a]
    BY <1>3 DEF WithLastAttempt
  <2> QED BY <1>1, <1>3, <2>1, ReplaceLast
<1> QED BY <1>2, <1>3

\* The last attempt of a record that has one is an attempt.
LEMMA LastAttemptType ==
  ASSUME NEW r \in PluManifestRecord, r.attempts # <<>>
  PROVE  LastAttempt(r) \in AttemptRecord
BY DEF PluManifestRecord, LastAttempt

\* begin_attempt opens one more attempt and forgets the request id.
LEMMA BeginAttemptFacts ==
  ASSUME NEW r \in PluManifestRecord
  PROVE  /\ BeginAttempt(r) \in PluManifestRecord
         /\ BeginAttempt(r).status = "SubmissionStarted"
         /\ BeginAttempt(r).request_id = NoRequest
         /\ Len(BeginAttempt(r).attempts) = Len(r.attempts) + 1
<1>1. NewAttempt \in AttemptRecord
  BY DEF NewAttempt, AttemptRecord, RequestId, NoRequest, ErrorMessage
<1> QED BY <1>1 DEF PluManifestRecord, BeginAttempt, RecordStatus, RequestId, NoRequest

\* mark_request_accepted takes the request id over.
LEMMA MarkRequestAcceptedFacts ==
  ASSUME NEW r \in PluManifestRecord, NEW id \in RequestId
  PROVE  /\ MarkRequestAccepted(r, id) \in PluManifestRecord
         /\ MarkRequestAccepted(r, id).status = "RequestAccepted"
         /\ MarkRequestAccepted(r, id).request_id = id
         /\ Len(MarkRequestAccepted(r, id).attempts) = Len(r.attempts)
<1> DEFINE a == [LastAttempt(r) EXCEPT !.request_id = id, !.submission_result = "Accepted"]
           atts == WithLastAttempt(r, a)
<1>1. r.attempts # <<>> => a \in AttemptRecord BY LastAttemptType DEF AttemptRecord
<1> HIDE DEF a
<1>2. atts \in Seq(AttemptRecord) /\ Len(atts) = Len(r.attempts)
  BY <1>1, WithLastAttemptType
<1>3. MarkRequestAccepted(r, id) =
        [r EXCEPT !.status = "RequestAccepted", !.request_id = id, !.attempts = atts]
  BY DEF MarkRequestAccepted, a
<1> HIDE DEF atts
<1> QED BY <1>2, <1>3 DEF PluManifestRecord, RecordStatus

\* The operations that end or continue an attempt keep the request id and the
\* number of attempts.
LEMMA MarkFacts ==
  ASSUME NEW r \in PluManifestRecord, NEW text \in ErrorMessage
  PROVE  /\ MarkProcessing(r) \in PluManifestRecord
         /\ MarkProcessing(r).status = "Processing"
         /\ MarkProcessing(r).request_id = r.request_id
         /\ MarkProcessing(r).attempts = r.attempts
         /\ MarkSuccess(r) \in PluManifestRecord
         /\ MarkSuccess(r).status = "Success"
         /\ MarkSuccess(r).request_id = r.request_id
         /\ MarkSuccess(r).attempts = r.attempts
         /\ MarkFailed(r, text) \in PluManifestRecord
         /\ MarkFailed(r, text).status = "Failed"
         /\ MarkFailed(r, text).request_id = r.request_id
         /\ Len(MarkFailed(r, text).attempts) = Len(r.attempts)
         /\ MarkUnknown(r, text) \in PluManifestRecord
         /\ MarkUnknown(r, text).status = "UnknownStatus"
         /\ MarkUnknown(r, text).request_id = r.request_id
         /\ Len(MarkUnknown(r, text).attempts) = Len(r.attempts)
         /\ MarkAmbiguous(r, text) \in PluManifestRecord
         /\ MarkAmbiguous(r, text).status = "AmbiguousSubmission"
         /\ MarkAmbiguous(r, text).request_id = r.request_id
         /\ Len(MarkAmbiguous(r, text).attempts) = Len(r.attempts)
<1> USE DEF PluManifestRecord, RecordStatus
<1>1. /\ MarkProcessing(r) \in PluManifestRecord
      /\ MarkProcessing(r).status = "Processing"
      /\ MarkProcessing(r).request_id = r.request_id
      /\ MarkProcessing(r).attempts = r.attempts
  BY DEF MarkProcessing
<1>2. /\ MarkSuccess(r) \in PluManifestRecord
      /\ MarkSuccess(r).status = "Success"
      /\ MarkSuccess(r).request_id = r.request_id
      /\ MarkSuccess(r).attempts = r.attempts
  BY DEF MarkSuccess
<1>3. /\ MarkFailed(r, text) \in PluManifestRecord
      /\ MarkFailed(r, text).status = "Failed"
      /\ MarkFailed(r, text).request_id = r.request_id
      /\ Len(MarkFailed(r, text).attempts) = Len(r.attempts)
  <2> DEFINE a == [LastAttempt(r) EXCEPT !.submission_result =
                IF LastAttempt(r).request_id # NoRequest THEN "Accepted" ELSE "Rejected",
                !.error_message = text]
             atts == WithLastAttempt(r, a)
  <2>1. r.attempts # <<>> => a \in AttemptRecord
    BY LastAttemptType DEF AttemptRecord, ErrorMessage
  <2> HIDE DEF a
  <2>2. atts \in Seq(AttemptRecord) /\ Len(atts) = Len(r.attempts)
    BY <2>1, WithLastAttemptType
  <2>3. MarkFailed(r, text) = [r EXCEPT !.status = "Failed", !.attempts = atts]
    BY DEF MarkFailed, a
  <2> HIDE DEF atts
  <2> QED BY <2>2, <2>3
<1>4. /\ MarkUnknown(r, text) \in PluManifestRecord
      /\ MarkUnknown(r, text).status = "UnknownStatus"
      /\ MarkUnknown(r, text).request_id = r.request_id
      /\ Len(MarkUnknown(r, text).attempts) = Len(r.attempts)
  <2> DEFINE a == [LastAttempt(r) EXCEPT !.error_message = text]
             atts == WithLastAttempt(r, a)
  <2>1. r.attempts # <<>> => a \in AttemptRecord
    BY LastAttemptType DEF AttemptRecord, ErrorMessage
  <2> HIDE DEF a
  <2>2. atts \in Seq(AttemptRecord) /\ Len(atts) = Len(r.attempts)
    BY <2>1, WithLastAttemptType
  <2>3. MarkUnknown(r, text) = [r EXCEPT !.status = "UnknownStatus", !.attempts = atts]
    BY DEF MarkUnknown, a
  <2> HIDE DEF atts
  <2> QED BY <2>2, <2>3
<1>5. /\ MarkAmbiguous(r, text) \in PluManifestRecord
      /\ MarkAmbiguous(r, text).status = "AmbiguousSubmission"
      /\ MarkAmbiguous(r, text).request_id = r.request_id
      /\ Len(MarkAmbiguous(r, text).attempts) = Len(r.attempts)
  <2> DEFINE a == [LastAttempt(r) EXCEPT !.submission_result = "Unknown",
                !.error_message = text]
             atts == WithLastAttempt(r, a)
  <2>1. r.attempts # <<>> => a \in AttemptRecord
    BY LastAttemptType DEF AttemptRecord, ErrorMessage
  <2> HIDE DEF a
  <2>2. atts \in Seq(AttemptRecord) /\ Len(atts) = Len(r.attempts)
    BY <2>1, WithLastAttemptType
  <2>3. MarkAmbiguous(r, text) = [r EXCEPT !.status = "AmbiguousSubmission", !.attempts = atts]
    BY DEF MarkAmbiguous, a
  <2> HIDE DEF atts
  <2> QED BY <2>2, <2>3
<1> QED BY <1>1, <1>2, <1>3, <1>4, <1>5

-----------------------------------------------------------------------------
(* What validate_record asks of the attempts of a record *)

AttemptsSound(r) ==
  /\ r.attempt_count = Len(r.attempts)
  /\ \A n \in DOMAIN r.attempts : r.attempts[n].error_message # "marked"

\* Rewriting the last attempt without a marker leaves none.
LEMMA WithLastAttemptSound ==
  ASSUME NEW r \in PluManifestRecord, AttemptsSound(r), NEW a,
         r.attempts # <<>> => a.error_message # "marked"
  PROVE  \A n \in DOMAIN WithLastAttempt(r, a) :
           WithLastAttempt(r, a)[n].error_message # "marked"
<1>1. CASE r.attempts = <<>> BY <1>1 DEF WithLastAttempt, AttemptsSound
<1>2. CASE r.attempts # <<>>
  <2> DEFINE atts == r.attempts
  <2>1. WithLastAttempt(r, a) = [atts EXCEPT ![Len(atts)] = a] BY <1>2 DEF WithLastAttempt
  <2>2. atts \in Seq(AttemptRecord) BY DEF PluManifestRecord
  <2>3. \A n \in DOMAIN atts : atts[n].error_message # "marked" BY DEF AttemptsSound
  <2> HIDE DEF atts
  <2> QED BY <1>2, <2>1, <2>2, <2>3 DEF atts
<1> QED BY <1>1, <1>2

\* No operation miscounts the attempts, and a marker comes only from a text.
LEMMA MarksSound ==
  ASSUME NEW r \in PluManifestRecord, AttemptsSound(r), NEW id \in RequestId
  PROVE  /\ AttemptsSound(BeginAttempt(r))
         /\ AttemptsSound(MarkRequestAccepted(r, id))
         /\ AttemptsSound(MarkProcessing(r))
         /\ AttemptsSound(MarkSuccess(r))
         /\ AttemptsSound(MarkFailed(r, "clean"))
         /\ AttemptsSound(MarkUnknown(r, "clean"))
         /\ AttemptsSound(MarkAmbiguous(r, "clean"))
         /\ AttemptsSound(RestartRecord(r))
<1>1. r.attempts \in Seq(AttemptRecord) BY DEF PluManifestRecord
<1>2. r.attempts # <<>> =>
        LastAttempt(r) \in AttemptRecord /\ LastAttempt(r).error_message # "marked"
  BY <1>1 DEF LastAttempt, AttemptsSound
<1>3. ASSUME NEW new \in PluManifestRecord, NEW a,
             new.attempts = WithLastAttempt(r, a), new.attempt_count = r.attempt_count,
             Len(new.attempts) = Len(r.attempts),
             r.attempts # <<>> => a.error_message # "marked"
      PROVE  AttemptsSound(new)
  BY <1>3, WithLastAttemptSound DEF AttemptsSound
<1>4. AttemptsSound(BeginAttempt(r))
  <2>1. BeginAttempt(r).attempts = Append(r.attempts, NewAttempt)
        /\ BeginAttempt(r).attempt_count = r.attempt_count + 1
    BY DEF BeginAttempt
  <2>2. NewAttempt.error_message # "marked" BY DEF NewAttempt
  <2> QED BY <1>1, <2>1, <2>2 DEF AttemptsSound
<1>5. AttemptsSound(MarkRequestAccepted(r, id))
  <2> DEFINE a == [LastAttempt(r) EXCEPT !.request_id = id, !.submission_result = "Accepted"]
  <2>1. r.attempts # <<>> => a.error_message # "marked" BY <1>2 DEF AttemptRecord
  <2> HIDE DEF a
  <2>2. /\ MarkRequestAccepted(r, id).attempts = WithLastAttempt(r, a)
        /\ MarkRequestAccepted(r, id).attempt_count = r.attempt_count
    BY DEF MarkRequestAccepted, PluManifestRecord, a
  <2> QED BY <1>3, <2>1, <2>2, MarkRequestAcceptedFacts
<1>6. AttemptsSound(MarkProcessing(r)) /\ AttemptsSound(MarkSuccess(r))
  BY DEF MarkProcessing, MarkSuccess, PluManifestRecord, AttemptsSound
<1>7. AttemptsSound(MarkFailed(r, "clean"))
  <2> DEFINE a == [LastAttempt(r) EXCEPT !.submission_result =
                     IF LastAttempt(r).request_id # NoRequest THEN "Accepted" ELSE "Rejected",
                     !.error_message = "clean"]
  <2>1. r.attempts # <<>> => a.error_message # "marked" BY <1>2 DEF AttemptRecord
  <2> HIDE DEF a
  <2>2. /\ MarkFailed(r, "clean").attempts = WithLastAttempt(r, a)
        /\ MarkFailed(r, "clean").attempt_count = r.attempt_count
    BY DEF MarkFailed, PluManifestRecord, a
  <2> QED BY <1>3, <2>1, <2>2, MarkFacts DEF ErrorMessage
<1>8. AttemptsSound(MarkUnknown(r, "clean"))
  <2> DEFINE a == [LastAttempt(r) EXCEPT !.error_message = "clean"]
  <2>1. r.attempts # <<>> => a.error_message # "marked" BY <1>2 DEF AttemptRecord
  <2> HIDE DEF a
  <2>2. /\ MarkUnknown(r, "clean").attempts = WithLastAttempt(r, a)
        /\ MarkUnknown(r, "clean").attempt_count = r.attempt_count
    BY DEF MarkUnknown, PluManifestRecord, a
  <2> QED BY <1>3, <2>1, <2>2, MarkFacts DEF ErrorMessage
<1>9. AttemptsSound(MarkAmbiguous(r, "clean"))
  <2> DEFINE a == [LastAttempt(r) EXCEPT !.submission_result = "Unknown",
                                         !.error_message = "clean"]
  <2>1. r.attempts # <<>> => a.error_message # "marked" BY <1>2 DEF AttemptRecord
  <2> HIDE DEF a
  <2>2. /\ MarkAmbiguous(r, "clean").attempts = WithLastAttempt(r, a)
        /\ MarkAmbiguous(r, "clean").attempt_count = r.attempt_count
    BY DEF MarkAmbiguous, PluManifestRecord, a
  <2> QED BY <1>3, <2>1, <2>2, MarkFacts DEF ErrorMessage
<1>10. AttemptsSound(RestartRecord(r))
  <2>1. AttemptsSound([r EXCEPT !.status = "AmbiguousSubmission"])
    BY DEF PluManifestRecord, AttemptsSound
  <2>2. RestartRecord(r) \in {MarkAmbiguous(r, "clean"),
                              [r EXCEPT !.status = "AmbiguousSubmission"], r}
    BY DEF RestartRecord
  <2> QED BY <1>9, <2>1, <2>2
<1> QED BY <1>4, <1>5, <1>6, <1>7, <1>8, <1>9, <1>10

-----------------------------------------------------------------------------
(* What the summary says of the records *)

\* A count is zero exactly when no record has the status.
LEMMA SummaryCounts ==
  ASSUME NEW records, NEW s \in RecordStatus
  PROVE  /\ SummaryOf(records)[s] \in Nat
         /\ SummaryOf(records)[s] = 0 <=> \A i \in Records : records[i].status # s
<1> DEFINE having == {i \in Records : records[i].status = s}
<1>1. IsFiniteSet(Records) BY FS_Interval, NumRecordsAssumption DEF Records
<1>2. IsFiniteSet(having) BY <1>1, FS_Subset
<1>3. Cardinality(having) \in Nat /\ (Cardinality(having) = 0 <=> having = {})
  BY <1>2, FS_CardinalityType, FS_EmptySet
<1>4. SummaryOf(records)[s] = Cardinality(having) BY DEF SummaryOf
<1> QED BY <1>3, <1>4

\* derived_run_status: incomplete exactly while a record is not settled.
LEMMA IncompleteMeansUnsettled ==
  ASSUME NEW records \in [Records -> PluManifestRecord]
  PROVE  DerivedRunStatus(SummaryOf(records)) = "Incomplete" <=>
           \E i \in Records : records[i].status \notin {"Success", "Failed"}
<1>1. \A s \in RecordStatus : SummaryOf(records)[s] > 0 <=> \E i \in Records : records[i].status = s
  <2> SUFFICES ASSUME NEW s \in RecordStatus
               PROVE  SummaryOf(records)[s] > 0 <=> \E i \in Records : records[i].status = s
    OBVIOUS
  <2> HIDE DEF SummaryOf
  <2> QED BY SummaryCounts
<1>2. \A i \in Records : records[i].status \in RecordStatus BY DEF PluManifestRecord
<1>3. DerivedRunStatus(SummaryOf(records)) = "Incomplete" <=>
        \E s \in RecordStatus \ {"Success", "Failed"} : SummaryOf(records)[s] > 0
  BY DEF DerivedRunStatus
<1> QED BY <1>1, <1>2, <1>3

\* final_status: exit code 0 exactly when every record has succeeded.
LEMMA FinalSuccessMeansAll ==
  ASSUME NEW records \in [Records -> PluManifestRecord], FinalStatusIsSuccess(SummaryOf(records))
  PROVE  \A i \in Records : records[i].status = "Success"
<1>1. \A s \in RecordStatus \ {"Success"} : SummaryOf(records)[s] = 0
  BY DEF FinalStatusIsSuccess, RecordStatus
<1>2. \A s \in RecordStatus \ {"Success"} : \A i \in Records : records[i].status # s
  BY <1>1, SummaryCounts
<1>3. \A i \in Records : records[i].status \in RecordStatus BY DEF PluManifestRecord
<1> QED BY <1>2, <1>3

-----------------------------------------------------------------------------
(* Restart and plan *)

\* Restarting closes every attempt that was open and leaves no record in
\* SUBMISSION_STARTED; other records keep their status, and all keep their
\* request id and the number of their attempts.
LEMMA RestartFacts ==
  ASSUME NEW m \in ImportManifest
  PROVE  LET n == MarkRestartedTransientsAmbiguous(m)
         IN  /\ n \in ImportManifest
             /\ \A i \in Records :
                  /\ n.records[i].request_id = m.records[i].request_id
                  /\ Len(n.records[i].attempts) = Len(m.records[i].attempts)
                  /\ n.records[i].status # "SubmissionStarted"
                  /\ n.records[i].status # m.records[i].status =>
                       /\ n.records[i].status = "AmbiguousSubmission"
                       /\ m.records[i].status \in {"SubmissionStarted", "UnknownStatus"}
<1> DEFINE recs == [i \in Records |-> RestartRecord(m.records[i])]
           changed == [m EXCEPT !.records = recs]
<1>1. ASSUME NEW i \in Records
      PROVE  /\ RestartRecord(m.records[i]) \in PluManifestRecord
             /\ RestartRecord(m.records[i]).request_id = m.records[i].request_id
             /\ Len(RestartRecord(m.records[i]).attempts) = Len(m.records[i].attempts)
             /\ RestartRecord(m.records[i]).status # "SubmissionStarted"
             /\ RestartRecord(m.records[i]).status # m.records[i].status =>
                  /\ RestartRecord(m.records[i]).status = "AmbiguousSubmission"
                  /\ m.records[i].status \in {"SubmissionStarted", "UnknownStatus"}
  <2> DEFINE r == m.records[i]
  <2>1. r \in PluManifestRecord BY DEF ImportManifest
  <2> HIDE DEF r
  <2>2. CASE r.status = "SubmissionStarted"
    <3>1. RestartRecord(r) = MarkAmbiguous(r, "clean") BY <2>2 DEF RestartRecord
    <3>2. "clean" \in ErrorMessage BY DEF ErrorMessage
    <3> QED BY <2>1, <2>2, <3>1, <3>2, MarkFacts DEF r
  <2>3. CASE r.status = "UnknownStatus" /\ r.request_id = NoRequest
    <3>1. RestartRecord(r) = [r EXCEPT !.status = "AmbiguousSubmission"]
      BY <2>3 DEF RestartRecord
    <3> QED BY <2>1, <2>3, <3>1 DEF r, PluManifestRecord, RecordStatus
  <2>4. CASE ~RestartedTransient(r)
    <3>1. RestartRecord(r) = r BY <2>4 DEF RestartRecord, RestartedTransient
    <3> QED BY <2>1, <2>4, <3>1 DEF r, RestartedTransient
  <2> QED BY <2>2, <2>3, <2>4 DEF RestartedTransient
<1>2. changed \in ImportManifest /\ changed.records = recs
  BY <1>1 DEF ImportManifest
<1>3. CASE RestartChanges(m)
  <2>1. MarkRestartedTransientsAmbiguous(m) = RecalculateSummary(changed)
    BY <1>3 DEF MarkRestartedTransientsAmbiguous
  <2> HIDE DEF changed
  <2>2. /\ RecalculateSummary(changed) \in ImportManifest
        /\ RecalculateSummary(changed).records = recs
    BY <1>2, Recalculated
  <2> QED BY <2>1, <2>2, <1>1
<1>4. CASE ~RestartChanges(m)
  <2>1. MarkRestartedTransientsAmbiguous(m) = m
    BY <1>4 DEF MarkRestartedTransientsAmbiguous
  <2> QED BY <1>4, <2>1 DEF RestartChanges, RestartedTransient
<1> QED BY <1>3, <1>4

\* Every record has one of the planner's kinds and a group.
LEMMA PlanType ==
  ASSUME NEW m \in ImportManifest, NEW retry \in BOOLEAN
  PROVE  BuildResumePlan(m, retry) \in [Records -> PlanItem]
<1>1. ASSUME NEW i \in Records
      PROVE  [kind |-> KindOf(m.records[i], retry),
              group |-> PlanGroup[m.records[i].status]] \in PlanItem
  <2> DEFINE r == m.records[i]
  <2>1. r.status \in RecordStatus BY DEF ImportManifest, PluManifestRecord
  <2> HIDE DEF r
  <2>2. KindOf(r, retry) \in PlanKind
    BY <2>1 DEF KindOf, PlanKind, RecordStatus
  <2>3. PlanGroup[r.status] \in 0 .. 7
    BY <2>1 DEF PlanGroup, RecordStatus
  <2> QED BY <2>2, <2>3 DEF PlanItem, r
<1> QED BY <1>1 DEF BuildResumePlan

\* The plan of a new import.
LEMMA FreshPlanType == FreshPlan \in [Records -> PlanItem]
BY DEF FreshPlan, PlanItem, PlanKind
=============================================================================

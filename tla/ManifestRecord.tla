--------------------------- MODULE ManifestRecord ---------------------------
(***************************************************************************)
(* The recovery manifest of one import: its records, the transitions a     *)
(* record may make, the summary and run status derived from the records,   *)
(* the checks a manifest passes before it is used, and the plan a resume   *)
(* builds from it.  src/src/recovery/{mod,model,planner,validator}.rs.     *)
(*                                                                         *)
(* Pure definitions only.  Left out: timestamps, hashes, and the identity  *)
(* of source and target, which never change in a run; of an error text is  *)
(* kept what validate_record looks at.  A record is named by its selection *)
(* index: PLU numbers are unique in a manifest and the index is the order  *)
(* the runner works in.                                                    *)
(***************************************************************************)
EXTENDS Integers, Sequences, FiniteSets

CONSTANT NumRecords          \* records selected by the import

ASSUME NumRecordsAssumption == NumRecords \in Nat

Records == 1 .. NumRecords

RecordStatus == {"NotAttempted", "SubmissionStarted", "RequestAccepted",
                 "Processing", "Success", "Failed", "UnknownStatus",
                 "AmbiguousSubmission"}

RunStatus == {"InProgress", "Success", "CompletedWithFailures", "Incomplete",
              "Interrupted"}

\* A request id is the ordinal, among the jobs DIGIweb created for the record,
\* of the job it names; NoRequest stands for None.  BlankId is Some of a blank
\* text: is_some() holds of it, but it names no job.
NoRequest == 0
BlankId   == -1
RequestId == Nat \cup {BlankId}

\* A text as sanitize_manifest_error leaves it.  The sanitizer replaces its
\* markers as they are spelled, validate_record looks for them in any case:
\* "marked" is a text that still has one, in capitals say.  None is "clean".
ErrorMessage == {"clean", "marked"}

AttemptRecord == [request_id        : RequestId,
                  submission_result : {"Started", "Accepted", "Rejected", "Unknown"},
                  error_message     : ErrorMessage]

NewAttempt == [request_id |-> NoRequest, submission_result |-> "Started",
               error_message |-> "clean"]

PluManifestRecord == [status        : RecordStatus,
                      request_id    : RequestId,
                      attempt_count : Nat,
                      attempts      : Seq(AttemptRecord)]

ManifestSummary == [RecordStatus -> Nat]

ImportManifest == [records           : [Records -> PluManifestRecord],
                   summary           : ManifestSummary,
                   run_status        : RunStatus,
                   continue_on_error : BOOLEAN]

-----------------------------------------------------------------------------
(* Records *)

\* Mutant: UNKNOWN_STATUS is final, so that it cannot be polled again.
UnknownIsFinal ==
  {<<"NotAttempted", "SubmissionStarted">>, <<"Failed", "SubmissionStarted">>}
  \cup ({"SubmissionStarted"} \X {"RequestAccepted", "AmbiguousSubmission", "Failed"})
  \cup ({"RequestAccepted", "Processing"}
          \X {"Processing", "Success", "Failed", "UnknownStatus"})

MayTransitionTo ==
  {<<"NotAttempted", "SubmissionStarted">>, <<"Failed", "SubmissionStarted">>}
  \cup ({"SubmissionStarted"} \X {"RequestAccepted", "AmbiguousSubmission", "Failed"})
  \cup ({"RequestAccepted", "Processing", "UnknownStatus"}
          \X {"Processing", "Success", "Failed", "UnknownStatus"})

\* transition_to returns Ok; otherwise the run ends with an internal error.
TransitionOk(r, next) == r.status = next \/ <<r.status, next>> \in MayTransitionTo

NewRecord == [status |-> "NotAttempted", request_id |-> NoRequest,
              attempt_count |-> 0, attempts |-> <<>>]

LastAttempt(r) == r.attempts[Len(r.attempts)]

\* if let Some(attempt) = attempts.last_mut(): the last attempt becomes a.
WithLastAttempt(r, a) ==
  IF r.attempts = <<>> THEN r.attempts ELSE [r.attempts EXCEPT ![Len(r.attempts)] = a]

\* Mutant: a new attempt keeps the request id of the attempt that failed.
BeginAttemptKeepingId(r) ==
  [r EXCEPT !.status = "SubmissionStarted",
            !.attempt_count = @ + 1,
            !.attempts = Append(@, NewAttempt)]

BeginAttempt(r) ==
  [status        |-> "SubmissionStarted",
   request_id    |-> NoRequest,
   attempt_count |-> r.attempt_count + 1,
   attempts      |-> Append(r.attempts, NewAttempt)]

MarkRequestAccepted(r, id) ==
  [r EXCEPT !.status = "RequestAccepted",
            !.request_id = id,
            !.attempts = WithLastAttempt(r, [LastAttempt(r) EXCEPT
                                               !.request_id = id,
                                               !.submission_result = "Accepted"])]

MarkProcessing(r) == [r EXCEPT !.status = "Processing"]

MarkSuccess(r) == [r EXCEPT !.status = "Success"]

MarkFailed(r, text) ==
  [r EXCEPT !.status = "Failed",
            !.attempts = WithLastAttempt(r, [LastAttempt(r) EXCEPT
              !.submission_result =
                IF LastAttempt(r).request_id # NoRequest THEN "Accepted" ELSE "Rejected",
              !.error_message = text])]

MarkUnknown(r, text) ==
  [r EXCEPT !.status = "UnknownStatus",
            !.attempts = WithLastAttempt(r, [LastAttempt(r) EXCEPT !.error_message = text])]

MarkAmbiguous(r, text) ==
  [r EXCEPT !.status = "AmbiguousSubmission",
            !.attempts = WithLastAttempt(r, [LastAttempt(r) EXCEPT
                                               !.submission_result = "Unknown",
                                               !.error_message = text])]

-----------------------------------------------------------------------------
(* The manifest *)

SummaryOf(records) ==
  [s \in RecordStatus |-> Cardinality({i \in Records : records[i].status = s})]

DerivedRunStatus(summary) ==
  IF \E s \in RecordStatus \ {"Success", "Failed"} : summary[s] > 0 THEN "Incomplete"
  ELSE IF summary["Failed"] > 0 THEN "CompletedWithFailures"
  ELSE "Success"

RecalculateSummary(m) ==
  [m EXCEPT !.summary = SummaryOf(m.records),
            !.run_status = DerivedRunStatus(SummaryOf(m.records))]

\* Mutant: the run status is set, the counts are not.
ActiveRunWithoutSummary(m) == [m EXCEPT !.run_status = "InProgress"]

RecalculateSummaryForActiveRun(m) ==
  [m EXCEPT !.summary = SummaryOf(m.records), !.run_status = "InProgress"]

MarkInterrupted(m) ==
  [m EXCEPT !.summary = SummaryOf(m.records), !.run_status = "Interrupted"]

NewManifest(continue) ==
  LET records == [i \in Records |-> NewRecord]
  IN  [records |-> records, summary |-> SummaryOf(records),
       run_status |-> "InProgress", continue_on_error |-> continue]

SetRecord(m, i, r) == [m EXCEPT !.records = [@ EXCEPT ![i] = r]]

RestartedTransient(r) ==
  \/ r.status = "SubmissionStarted"
  \/ r.status = "UnknownStatus" /\ r.request_id = NoRequest

\* Mutant: an attempt cut short by a crash is taken for one never made.
RestartAsNotAttempted(r) ==
  IF r.status = "SubmissionStarted" THEN [r EXCEPT !.status = "NotAttempted"] ELSE r

\* Mutant: every unknown status is closed, also one that can be polled.
RestartEveryUnknown(r) ==
  CASE r.status = "SubmissionStarted" -> MarkAmbiguous(r, "clean")
    [] r.status = "UnknownStatus"     -> [r EXCEPT !.status = "AmbiguousSubmission"]
    [] OTHER -> r

RestartRecord(r) ==
  CASE r.status = "SubmissionStarted" -> MarkAmbiguous(r, "clean")
    [] r.status = "UnknownStatus" /\ r.request_id = NoRequest ->
         [r EXCEPT !.status = "AmbiguousSubmission"]
    [] OTHER -> r

RestartChanges(m) == \E i \in Records : RestartedTransient(m.records[i])

MarkRestartedTransientsAmbiguous(m) ==
  IF RestartChanges(m)
  THEN RecalculateSummary([m EXCEPT !.records = [i \in Records |-> RestartRecord(m.records[i])]])
  ELSE m

-----------------------------------------------------------------------------
(* validate_manifest *)

HasIdToPoll(r) ==
  r.status \in {"RequestAccepted", "Processing"} => r.request_id \notin {NoRequest, BlankId}

RecordIsSound(r) ==
  /\ r.attempt_count = Len(r.attempts)
  /\ r.status = "NotAttempted" => r.request_id = NoRequest
  /\ \A n \in DOMAIN r.attempts : r.attempts[n].error_message # "marked"

ValidateRecord(r) == RecordIsSound(r) /\ HasIdToPoll(r)

\* Mutant: a manifest marked interrupted must have nothing left to do.
InterruptedMeansDone(m) ==
  m.run_status \in {DerivedRunStatus(m.summary), "InProgress"}

ValidateRunStatus(m) ==
  LET derived == DerivedRunStatus(m.summary)
  IN  \/ m.run_status \in {derived, "InProgress"}
      \/ m.run_status = "Interrupted" /\ derived = "Incomplete"

ValidateManifest(m) ==
  /\ \A i \in Records : ValidateRecord(m.records[i])
  /\ m.summary = SummaryOf(m.records)
  /\ ValidateRunStatus(m)

-----------------------------------------------------------------------------
(* build_resume_plan.  The list of items is represented by the kind and     *)
(* the group of each record: items are taken by group, within a group by    *)
(* selection index.  SubmissionStarted is in no group: such a record gets   *)
(* no item.                                                                 *)

PlanKind == {"PollExistingRequest", "SubmitNotAttempted", "RetryConfirmedFailure",
             "SkipAlreadySuccessful", "SkipFailed", "SkipAmbiguous"}

ActiveKind == {"PollExistingRequest", "SubmitNotAttempted", "RetryConfirmedFailure"}

PlanItem == [kind : PlanKind, group : 0 .. 7]

\* Mutant: what was never sent goes first.
SubmitsFirst ==
  [SubmissionStarted |-> 0, NotAttempted |-> 1, RequestAccepted |-> 2, Processing |-> 3,
   UnknownStatus |-> 4, Failed |-> 5, AmbiguousSubmission |-> 6, Success |-> 7]

PlanGroup ==
  [SubmissionStarted |-> 0, RequestAccepted |-> 1, Processing |-> 2, UnknownStatus |-> 3,
   NotAttempted |-> 4, Failed |-> 5, AmbiguousSubmission |-> 6, Success |-> 7]

KindOf(r, retryFailed) ==
  CASE r.status \in {"RequestAccepted", "Processing"}            -> "PollExistingRequest"
    [] r.status = "UnknownStatus" /\ r.request_id # NoRequest -> "PollExistingRequest"
    [] r.status = "UnknownStatus" /\ r.request_id = NoRequest -> "SkipAmbiguous"
    [] r.status = "NotAttempted"                                 -> "SubmitNotAttempted"
    [] r.status = "Failed" /\ retryFailed                        -> "RetryConfirmedFailure"
    [] r.status = "Failed" /\ ~retryFailed                       -> "SkipFailed"
    [] r.status \in {"AmbiguousSubmission", "SubmissionStarted"} -> "SkipAmbiguous"
    [] r.status = "Success"                                      -> "SkipAlreadySuccessful"

BuildResumePlan(m, retryFailed) ==
  [i \in Records |-> [kind  |-> KindOf(m.records[i], retryFailed),
                      group |-> PlanGroup[m.records[i].status]]]

PlannedRecords(m) == {i \in Records : m.records[i].status # "SubmissionStarted"}

\* The plan of a new import: every record, in selection order.
FreshPlan == [i \in Records |-> [kind |-> "SubmitNotAttempted", group |-> 0]]

\* Mutant: records that were never attempted are not counted.
SuccessDespiteNotAttempted(summary) ==
  \A s \in {"Failed", "UnknownStatus", "AmbiguousSubmission", "Processing",
            "RequestAccepted", "SubmissionStarted"} : summary[s] = 0

\* summary_from_manifest and final_status: the process exits with 0.
FinalStatusIsSuccess(summary) ==
  /\ summary["Failed"] = 0
  /\ \A s \in {"UnknownStatus", "AmbiguousSubmission", "Processing",
               "RequestAccepted", "SubmissionStarted"} : summary[s] = 0
  /\ summary["NotAttempted"] = 0
=============================================================================

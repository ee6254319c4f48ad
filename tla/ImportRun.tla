------------------------------ MODULE ImportRun ------------------------------
(***************************************************************************)
(* One import and all its resumes: the importer process, the manifest it   *)
(* keeps in memory and the one on disk, and DIGIweb.                       *)
(* src/src/import/runner.rs over recovery/ and digiweb/client.rs.          *)
(*                                                                         *)
(* The runner is sequential: it runs without a pause from one await to the *)
(* next, and nothing but an await or a manifest write can be seen from     *)
(* outside.  An action is one such stretch with the write that ends it.    *)
(* A process may die between any two actions; the disk then holds the      *)
(* manifest last written (the atomic replacement of the file is            *)
(* recovery/store.rs).  An I/O error of a manifest write, of the payload   *)
(* preview, or of the log outside the client's requests ends the process   *)
(* with an error and no further write, so Crash stands for it too.  One of *)
(* the log inside a request is an outcome of that request.                 *)
(*                                                                         *)
(* DIGIweb is not in the repository.  It is modelled from what client.rs   *)
(* distinguishes: it creates at most one job per POST it accepts, jobs end *)
(* in success or failure, and a POST may be handled after the client gave  *)
(* up on it.                                                               *)
(***************************************************************************)
EXTENDS ManifestRecord

CONSTANTS
  AnswerForms,      \* the forms DIGIweb's answer to an accepted POST may take
  Texts,            \* what the sanitizer may leave of a text that DIGIweb sent
  EmptyAccepted,    \* may DIGIweb answer a status request with an empty 202?
  RetryRuns,        \* bound: how many resumes are given --retry-failed
  MaxAuthAttempts   \* MAX_AUTHENTICATED_REQUEST_ATTEMPTS

(* "tracked"    2xx with a request id                                       *)
(* "blank"      2xx with a request-id header that is blank, and no id in    *)
(*              the body: unlike a body's, a header's id is taken as it is  *)
(* "untracked"  2xx without one, and not reporting success                  *)
(* "bare"       2xx without one that reports success: 204, an empty 200, or *)
(*              JSON with status SUCCESS                                    *)
(* "unreadable" a body that cannot be read or is not JSON, an answer whose  *)
(*              lines the log does not take, or a non-2xx status (a         *)
(*              gateway's 502, say) for a POST that was accepted            *)
AllAnswerForms == {"tracked", "blank", "untracked", "bare", "unreadable"}

ASSUME AnswerFormsAssumption == AnswerForms \subseteq AllAnswerForms
ASSUME EmptyAcceptedAssumption == EmptyAccepted \in BOOLEAN
ASSUME TextsAssumption == Texts \subseteq ErrorMessage
ASSUME RetryRunsAssumption == RetryRuns \in Nat
ASSUME MaxAuthAttemptsAssumption == MaxAuthAttempts \in Nat \ {0}

VARIABLES
  disk,       \* import-results.json
  manifest,   \* the manifest in the memory of the process (disk, if there is none)
  pc,         \* where the process waits
  run,        \* its options: resume, retry_failed, continue_after_record_failure
  plan,       \* its plan items
  todo,       \* records whose plan item has not been taken
  cur,        \* the record being submitted or polled, or 0
  tries,      \* authenticated attempts of the current POST
  signal,     \* the Ctrl-C handler: not installed, installed, or triggered
  exit,       \* how the last process ended
  retryRuns,  \* resumes started with --retry-failed
  inflight,   \* records with a POST on its way to DIGIweb
  remote,     \* remote[i]: the jobs DIGIweb created for record i, oldest first
  reply       \* DIGIweb's answer to the POST the process waits for

process == <<manifest, pc, run, plan, todo, cur, tries, signal, exit, retryRuns>>
digiweb == <<inflight, remote, reply>>
vars    == <<disk, process, digiweb>>

JobState == {"processing", "success", "fail"}

NoReply == [form |-> "none", status |-> "unknown"]
Reply == [form   : AllAnswerForms \cup {"none", "unauthorized", "rejected"},
          status : JobState \cup {"unknown"}]

RunOptions == [resume : BOOLEAN, retry_failed : BOOLEAN, continue : BOOLEAN]

Running  == {"auth", "loop", "sending", "awaiting", "accepted", "polling", "finishing"}
OnRecord == {"sending", "awaiting", "accepted", "polling"}
Waiting  == {"sending", "awaiting", "polling"}     \* awaits inside tokio::select!

TypeOK ==
  /\ disk \in ImportManifest
  /\ manifest \in ImportManifest
  /\ pc \in Running \cup {"idle"}
  /\ run \in RunOptions
  /\ plan \in [Records -> PlanItem]
  /\ todo \subseteq Records
  /\ cur \in 0 .. NumRecords
  /\ pc \in OnRecord <=> cur # 0
  /\ tries \in 0 .. MaxAuthAttempts
  /\ signal \in {"unarmed", "armed", "pending"}
  /\ exit \in {"none", "ok", "unresolved", "error", "internal", "killed"}
  /\ retryRuns \in 0 .. RetryRuns
  /\ inflight \subseteq Records
  /\ remote \in [Records -> Seq(JobState)]
  /\ reply \in Reply

\* A new import has built its manifest, written it and taken the lock.
Init ==
  \E continue \in BOOLEAN :
    /\ manifest = NewManifest(continue)
    /\ disk = NewManifest(continue)
    /\ pc = "auth"
    /\ run = [resume |-> FALSE, retry_failed |-> FALSE, continue |-> continue]
    /\ plan = FreshPlan /\ todo = {} /\ cur = 0 /\ tries = 0
    /\ signal = "unarmed" /\ exit = "none" /\ retryRuns = 0
    /\ inflight = {} /\ remote = [i \in Records |-> <<>>] /\ reply = NoReply

-----------------------------------------------------------------------------
(* Pieces of the runner's steps *)

Rec == manifest.records[cur]

\* Mutant: the record changes in memory, the file is not written.
SaveRecordInMemory(i, r) ==
  /\ manifest' = RecalculateSummaryForActiveRun(SetRecord(manifest, i, r))
  /\ disk' = disk

\* The manifest with record i changed to r, recalculated and written.
SaveRecord(i, r) ==
  LET m == RecalculateSummaryForActiveRun(SetRecord(manifest, i, r))
  IN  manifest' = m /\ disk' = m

\* The process is gone; d is the manifest it leaves on disk.
Ended(d, how) ==
  /\ disk' = d /\ manifest' = d
  /\ pc' = "idle" /\ exit' = how
  /\ plan' = FreshPlan /\ todo' = {} /\ cur' = 0 /\ tries' = 0
  /\ signal' = "unarmed" /\ reply' = NoReply
  /\ UNCHANGED <<run, retryRuns, inflight, remote>>

\* m is written and the run reports its summary: exit code 0 or 1.
EndedWithSummary(m) ==
  Ended(m, IF FinalStatusIsSuccess(m.summary) THEN "ok" ELSE "unresolved")

\* An error returned from a mark_* operation: nothing is written.
InternalError == Ended(disk, "internal")

\* Mutant: an unknown status does not stop the run.
NextStopUnlessUnknown(r) ==
  IF r.status \in {"Failed", "AmbiguousSubmission"} /\ ~run.continue
  THEN "finishing" ELSE "loop"

\* Mutant: the run stops at a failure even with continue-on-error.
NextStopDespiteContinue(r) ==
  IF r.status \in {"Failed", "UnknownStatus", "AmbiguousSubmission"}
  THEN "finishing" ELSE "loop"

\* should_stop_after_manifest_record, after record r has been dealt with.
NextStop(r) ==
  IF r.status \in {"Failed", "UnknownStatus", "AmbiguousSubmission"} /\ ~run.continue
  THEN "finishing" ELSE "loop"

\* The current record ends this run as r.
RecordDone(r) ==
  /\ SaveRecord(cur, r)
  /\ pc' = NextStop(r)
  /\ cur' = 0 /\ tries' = 0 /\ reply' = NoReply
  /\ UNCHANGED <<run, plan, todo, signal, exit, retryRuns, inflight, remote>>

\* A record operation that goes through transition_to.
RecordDoneIfLegal(r) ==
  IF TransitionOk(Rec, r.status) THEN RecordDone(r) ELSE InternalError

\* An authentication failure: the record is saved as r and the run returns it.
AuthStops(r) ==
  IF TransitionOk(Rec, r.status)
  THEN Ended(RecalculateSummaryForActiveRun(SetRecord(manifest, cur, r)), "error")
  ELSE InternalError

\* poll_manifest_record up to its first await.
StartPoll(i) ==
  /\ SaveRecord(i, MarkProcessing(manifest.records[i]))
  /\ pc' = "polling" /\ cur' = i /\ tries' = 0 /\ reply' = NoReply

\* The first await of a tokio::select! installs the Ctrl-C handler.
InstallHandler == signal' = IF signal = "unarmed" THEN "armed" ELSE signal

IsNext(i) ==
  /\ i \in todo
  /\ \A j \in todo \ {i} : \/ plan[i].group < plan[j].group
                           \/ plan[i].group = plan[j].group /\ i < j

-----------------------------------------------------------------------------
(* Start and authentication *)

\* import --resume: load, check, close the open attempts of the last process.
StartResume(retry, continue) ==
  /\ pc = "idle"
  /\ ValidateManifest(disk)
  /\ retry => retryRuns < RetryRuns
  /\ retryRuns' = IF retry THEN retryRuns + 1 ELSE retryRuns
  /\ LET m == MarkRestartedTransientsAmbiguous(disk)
         resumePlan == BuildResumePlan(m, retry)
         activeWork == \E i \in PlannedRecords(m) : resumePlan[i].kind \in ActiveKind
         started == IF activeWork THEN RecalculateSummaryForActiveRun(m) ELSE m
     IN  manifest' = started /\ disk' = started
  /\ run' = [resume |-> TRUE, retry_failed |-> retry,
             continue |-> continue \/ disk.continue_on_error]
  /\ pc' = "auth" /\ exit' = "none"
  /\ UNCHANGED <<plan, todo, cur, tries, signal, digiweb>>

\* Mutant: a resume submits every record of the manifest, as a new import does.
AuthenticatedAsNew ==
  /\ pc = "auth"
  /\ pc' = "loop" /\ plan' = FreshPlan /\ todo' = Records
  /\ UNCHANGED <<disk, manifest, run, cur, tries, signal, exit, retryRuns, digiweb>>

Authenticated ==
  /\ pc = "auth"
  /\ pc' = "loop"
  /\ plan' = IF run.resume THEN BuildResumePlan(manifest, run.retry_failed) ELSE FreshPlan
  /\ todo' = IF run.resume THEN PlannedRecords(manifest) ELSE Records
  /\ UNCHANGED <<disk, manifest, run, cur, tries, signal, exit, retryRuns, digiweb>>

AuthenticationFails == pc = "auth" /\ Ended(disk, "error")

-----------------------------------------------------------------------------
(* The plan loop *)

SkipItem(i) ==
  /\ pc = "loop" /\ IsNext(i)
  /\ plan[i].kind \in {"SkipAlreadySuccessful", "SkipFailed", "SkipAmbiguous"}
  /\ todo' = todo \ {i}
  /\ pc' = IF plan[i].kind = "SkipAmbiguous" /\ ~run.continue THEN "finishing" ELSE "loop"
  /\ UNCHANGED <<disk, manifest, run, plan, cur, tries, signal, exit, retryRuns, digiweb>>

PollItem(i) ==
  /\ pc = "loop" /\ IsNext(i)
  /\ plan[i].kind = "PollExistingRequest"
  /\ IF /\ manifest.records[i].request_id # NoRequest
        /\ TransitionOk(manifest.records[i], "Processing")
     THEN /\ StartPoll(i)
          /\ todo' = todo \ {i}
          /\ InstallHandler
          /\ UNCHANGED <<run, plan, exit, retryRuns, inflight, remote>>
     ELSE InternalError

\* Mutant: the attempt is recorded in memory and written with its outcome.
SubmitItemUnsaved(i) ==
  /\ pc = "loop" /\ IsNext(i)
  /\ plan[i].kind \in {"SubmitNotAttempted", "RetryConfirmedFailure"}
  /\ manifest' = RecalculateSummaryForActiveRun(
                   SetRecord(manifest, i, BeginAttempt(manifest.records[i])))
  /\ pc' = "sending" /\ cur' = i /\ tries' = 1
  /\ todo' = todo \ {i}
  /\ InstallHandler
  /\ UNCHANGED <<disk, run, plan, exit, retryRuns, digiweb>>

SubmitItem(i) ==
  /\ pc = "loop" /\ IsNext(i)
  /\ plan[i].kind \in {"SubmitNotAttempted", "RetryConfirmedFailure"}
  /\ IF TransitionOk(manifest.records[i], "SubmissionStarted")
     THEN /\ SaveRecord(i, BeginAttempt(manifest.records[i]))
          /\ pc' = "sending" /\ cur' = i /\ tries' = 1
          /\ todo' = todo \ {i}
          /\ InstallHandler
          /\ UNCHANGED <<run, plan, exit, retryRuns, digiweb>>
     ELSE InternalError

\* A pending Ctrl-C may win the race before the item's future is polled at all.
InterruptItem(i) ==
  /\ pc = "loop" /\ IsNext(i) /\ plan[i].kind \in ActiveKind
  /\ signal = "pending"
  /\ EndedWithSummary(MarkInterrupted(manifest))

\* The plan is exhausted or was left with break.
FinishRun ==
  /\ pc = "finishing" \/ (pc = "loop" /\ todo = {})
  /\ EndedWithSummary(RecalculateSummary(manifest))

-----------------------------------------------------------------------------
(* submit_manifest_record: the POST and its outcomes *)

SendPost ==
  /\ pc = "sending"
  /\ pc' = "awaiting"
  /\ inflight' = inflight \cup {cur}
  /\ UNCHANGED <<disk, manifest, run, plan, todo, cur, tries, signal, exit, retryRuns,
                 remote, reply>>

\* The token needs a refresh first, and it is refused or the server is away.
RefreshRefused     == pc = "sending" /\ AuthStops(MarkFailed(Rec, "clean"))
RefreshUnreachable == pc = "sending" /\ RecordDone(MarkAmbiguous(Rec, "clean"))

\* The log does not take the lines about a refresh, or about the 401 before it:
\* an error of the submission like any other, and the run goes on.
RefreshUnlogged == pc = "sending" /\ RecordDoneIfLegal(MarkFailed(Rec, "clean"))

\* Mutant: one retry too many.
UnauthorizedOffByOne ==
  /\ pc = "awaiting" /\ reply.form = "unauthorized"
  /\ IF tries <= MaxAuthAttempts
     THEN /\ pc' = "sending" /\ tries' = tries + 1 /\ reply' = NoReply
          /\ UNCHANGED <<disk, manifest, run, plan, todo, cur, signal, exit, retryRuns,
                         inflight, remote>>
     ELSE AuthStops(MarkFailed(Rec, "clean"))

\* Mutant: the retries are not counted.
UnauthorizedUncounted ==
  /\ pc = "awaiting" /\ reply.form = "unauthorized"
  /\ pc' = "sending" /\ reply' = NoReply
  /\ UNCHANGED <<disk, manifest, run, plan, todo, cur, tries, signal, exit, retryRuns,
                 inflight, remote>>

\* Mutant: every retry is a new attempt of the record.
UnauthorizedBeginsAgain ==
  /\ pc = "awaiting" /\ reply.form = "unauthorized" /\ tries < MaxAuthAttempts
  /\ SaveRecord(cur, BeginAttempt(Rec))
  /\ pc' = "sending" /\ tries' = tries + 1 /\ reply' = NoReply
  /\ UNCHANGED <<run, plan, todo, cur, signal, exit, retryRuns, inflight, remote>>

\* HTTP 401: refresh and POST again, a bounded number of times.
ReceiveUnauthorized ==
  /\ pc = "awaiting" /\ reply.form = "unauthorized"
  /\ IF tries < MaxAuthAttempts
     THEN /\ pc' = "sending" /\ tries' = tries + 1 /\ reply' = NoReply
          /\ UNCHANGED <<disk, manifest, run, plan, todo, cur, signal, exit, retryRuns,
                         inflight, remote>>
     ELSE AuthStops(MarkFailed(Rec, "clean"))

\* A non-2xx status, or an answer that cannot be interpreted or logged.
ReceiveHttpError ==
  /\ pc = "awaiting" /\ reply.form \in {"rejected", "unreadable"}
  /\ \E text \in Texts : RecordDoneIfLegal(MarkFailed(Rec, text))

\* Mutant: a network error is taken for a failure of the submission.
NetworkErrorFails == pc = "awaiting" /\ RecordDone(MarkFailed(Rec, "clean"))

\* Mutant: after a network error the POST is sent again.
NetworkErrorResends ==
  /\ pc = "awaiting" /\ pc' = "sending" /\ reply' = NoReply
  /\ UNCHANGED <<disk, manifest, run, plan, todo, cur, tries, signal, exit, retryRuns,
                 inflight, remote>>

\* The connection is lost or times out, whatever DIGIweb did with the POST.
PostNetworkError == pc = "awaiting" /\ RecordDone(MarkAmbiguous(Rec, "clean"))

\* An answer with a request id, were it blank: the id is written before anything
\* else is done.
ReceiveTracked ==
  /\ pc = "awaiting" /\ reply.form \in {"tracked", "blank"}
  /\ LET id == IF reply.form = "blank" THEN BlankId ELSE Len(remote[cur])
         r  == MarkRequestAccepted(Rec, id)
     IN  IF TransitionOk(Rec, r.status)
         THEN /\ SaveRecord(cur, r)
              /\ pc' = "accepted"
              /\ UNCHANGED <<run, plan, todo, cur, tries, signal, exit, retryRuns, digiweb>>
         ELSE InternalError

\* The status that came with the request id.
AfterAccepted ==
  /\ pc = "accepted"
  /\ \/ reply.status = "success"    /\ RecordDoneIfLegal(MarkSuccess(Rec))
     \/ /\ reply.status = "fail"
        /\ \E text \in Texts : RecordDoneIfLegal(MarkFailed(Rec, text))
     \/ /\ reply.status = "unknown"
        /\ \E text \in Texts : RecordDoneIfLegal(MarkUnknown(Rec, text))
     \/ /\ reply.status = "processing"
        /\ IF TransitionOk(Rec, "Processing")
           THEN /\ StartPoll(cur)
                /\ UNCHANGED <<run, plan, todo, signal, exit, retryRuns, inflight, remote>>
           ELSE InternalError

\* An answer without a request id.
ReceiveUntracked ==
  /\ pc = "awaiting" /\ reply.form \in {"untracked", "bare"}
  /\ \/ reply.status = "success" /\ RecordDoneIfLegal(MarkSuccess(Rec))
     \/ /\ reply.status = "fail"
        /\ \E text \in Texts : RecordDoneIfLegal(MarkFailed(Rec, text))
     \/ /\ reply.status \in {"processing", "unknown"}
        /\ \E text \in Texts : RecordDone(MarkAmbiguous(Rec, text))

-----------------------------------------------------------------------------
(* poll_manifest_record: the outcomes of polling *)

\* A status answer is about the job the request id names; with a blank id the
\* request asks for none, and the answer is about none.
JobIs(state) == Rec.request_id # BlankId => remote[cur][Rec.request_id] = state

\* interpret_status_response takes an empty body for success, also that of a 202,
\* which says nothing of the job.
PollSucceeds ==
  /\ pc = "polling" /\ (EmptyAccepted \/ JobIs("success"))
  /\ RecordDoneIfLegal(MarkSuccess(Rec))

PollFails ==
  /\ pc = "polling" /\ JobIs("fail")
  /\ \E text \in Texts : RecordDoneIfLegal(MarkFailed(Rec, text))

\* Mutant: a status answer that says nothing is taken for success.
PollUnresolvedIsSuccess == pc = "polling" /\ RecordDoneIfLegal(MarkSuccess(Rec))

\* The poll deadline, an HTTP, network or log error, an unrecognised status.
PollUnresolved ==
  pc = "polling" /\ \E text \in Texts : RecordDoneIfLegal(MarkUnknown(Rec, text))

PollUnauthorized == pc = "polling" /\ AuthStops(MarkUnknown(Rec, "clean"))

-----------------------------------------------------------------------------
(* The operator and the operating system *)

CtrlC ==
  /\ pc # "idle" /\ signal = "armed"
  /\ signal' = "pending"
  /\ UNCHANGED <<disk, manifest, pc, run, plan, todo, cur, tries, exit, retryRuns, digiweb>>

\* tokio::select! drops the submission or the poll where it waits.
InterruptRecord ==
  /\ pc \in Waiting /\ signal = "pending"
  /\ EndedWithSummary(MarkInterrupted(manifest))

Crash == pc # "idle" /\ Ended(disk, "killed")

-----------------------------------------------------------------------------
(* DIGIweb *)

AnswerTo(i, answer) == reply' = IF pc = "awaiting" /\ cur = i THEN answer ELSE reply

DigiwebAccepts(i) ==
  /\ i \in inflight
  /\ \E state \in JobState, form \in AnswerForms :
       \E status \in {state, "unknown"} :
         /\ form = "bare" => status = "success"
         /\ form = "untracked" => status # "success"
         /\ form = "unreadable" => status = "unknown"
         /\ remote' = [remote EXCEPT ![i] = Append(@, state)]
         /\ AnswerTo(i, [form |-> form, status |-> status])
  /\ inflight' = inflight \ {i}
  /\ UNCHANGED <<disk, process>>

\* An HTTP error or a 401 for a POST that created no job.
DigiwebRefuses(i) ==
  /\ i \in inflight
  /\ inflight' = inflight \ {i}
  /\ \E form \in {"rejected", "unauthorized"} :
       AnswerTo(i, [form |-> form, status |-> "unknown"])
  /\ UNCHANGED <<disk, process, remote>>

PostLost(i) ==
  /\ i \in inflight
  /\ inflight' = inflight \ {i}
  /\ UNCHANGED <<disk, process, remote, reply>>

DigiwebFinishes(i) ==
  /\ \E n \in DOMAIN remote[i], state \in {"success", "fail"} :
       /\ remote[i][n] = "processing"
       /\ remote' = [remote EXCEPT ![i][n] = state]
  /\ UNCHANGED <<disk, process, inflight, reply>>

-----------------------------------------------------------------------------

RunnerStep ==
  \/ Authenticated \/ AuthenticationFails
  \/ \E i \in Records : SkipItem(i) \/ PollItem(i) \/ SubmitItem(i) \/ InterruptItem(i)
  \/ FinishRun
  \/ SendPost \/ RefreshRefused \/ RefreshUnreachable \/ RefreshUnlogged
  \/ ReceiveUnauthorized \/ ReceiveHttpError \/ PostNetworkError
  \/ ReceiveTracked \/ AfterAccepted \/ ReceiveUntracked
  \/ PollSucceeds \/ PollFails \/ PollUnresolved \/ PollUnauthorized
  \/ InterruptRecord

Resume == \E retry, continue \in BOOLEAN : StartResume(retry, continue)

DigiwebStep ==
  \E i \in Records : DigiwebAccepts(i) \/ DigiwebRefuses(i) \/ PostLost(i) \/ DigiwebFinishes(i)

Next == RunnerStep \/ Resume \/ CtrlC \/ Crash \/ DigiwebStep

Spec == Init /\ [][Next]_vars

\* Every await of the runner ends: a request has a timeout, polling a deadline.
FairSpec == Spec /\ WF_vars(RunnerStep)

-----------------------------------------------------------------------------
(* Properties *)

\* At every await the file holds exactly what the process believes: a crash
\* there loses nothing the process knew.
NothingUnsavedAtAwait == pc # "idle" => disk = manifest

\* A record the manifest calls NOT_ATTEMPTED, which resume submits without
\* asking, was never sent: no job, and no POST still on its way.
NotAttemptedIsSafe ==
  \A i \in Records : disk.records[i].status = "NotAttempted" =>
    remote[i] = <<>> /\ i \notin inflight

\* Every POST has its attempt on disk before it leaves, so the attempts
\* recorded bound the jobs DIGIweb may hold, whatever crashes in between.
EveryJobHasAnAttempt ==
  \A i \in Records :
    Len(remote[i]) + (IF i \in inflight THEN 1 ELSE 0) <= Len(disk.records[i].attempts)

\* FAILED, which --retry-failed submits again, is a confirmed failure: no job
\* of the record is open or has succeeded, and none can still be created.
FailedIsConfirmed ==
  \A i \in Records : disk.records[i].status = "Failed" =>
    /\ i \notin inflight
    /\ \A n \in DOMAIN remote[i] : remote[i][n] = "fail"

\* Crashes, interrupts, lost answers, resumes and retries never leave DIGIweb
\* with two jobs of one record unless the earlier one failed.
NoDuplicateJob ==
  \A i \in Records : \A n \in DOMAIN remote[i] :
    n < Len(remote[i]) \/ i \in inflight => remote[i][n] = "fail"

\* SUCCESS on disk: the job the record names has succeeded.
SuccessIsConfirmed ==
  \A i \in Records : disk.records[i].status = "Success" =>
    disk.records[i].request_id \in DOMAIN remote[i]
      /\ remote[i][disk.records[i].request_id] = "success"

\* A record that waits for DIGIweb can be polled, and a request id on disk that
\* names a job names the newest of its record: polling never reports an earlier
\* attempt.
RequestIdNamesNewestJob ==
  \A i \in Records :
    /\ disk.records[i].status \in {"RequestAccepted", "Processing", "UnknownStatus"} =>
         disk.records[i].request_id # NoRequest
    /\ disk.records[i].request_id \notin {NoRequest, BlankId} =>
         disk.records[i].request_id = Len(remote[i])

\* ValidateManifest, but that a record may wait for DIGIweb under a blank id.
AcceptedButForBlankIds(m) ==
  /\ \A i \in Records :
       /\ RecordIsSound(m.records[i])
       /\ HasIdToPoll(m.records[i]) \/ m.records[i].request_id = BlankId
  /\ m.summary = SummaryOf(m.records)
  /\ ValidateRunStatus(m)

\* README.md: "If the run is interrupted or incomplete, resume the printed
\* manifest path": the manifest of such a run is accepted by the next resume.
IncompleteRunResumes ==
  disk.run_status \in {"Interrupted", "Incomplete"} => ValidateManifest(disk)

\* However the earlier runs ended, resume refuses their manifest for one reason
\* only, a record that waits under a blank request id; or, once a run was given
\* --retry-failed, when nothing is left to settle: every record has succeeded or
\* failed.
RefusedOnlyWhenSettled ==
  \/ AcceptedButForBlankIds(disk)
  \/ retryRuns > 0 /\ \A i \in Records : disk.records[i].status \in {"Success", "Failed"}

\* No outcome of DIGIweb drives a record through a transition it may not make.
NoInternalError == exit # "internal"

\* README.md: "--continue-on-error keeps submitting later selected PLUs"; only
\* an authentication failure stops such a run.
ContinueKeepsSubmitting == run.continue => exit # "internal"

\* Exit code 0: every selected record was completed by DIGIweb.
ExitZeroMeansAllDone ==
  pc = "idle" /\ exit = "ok" => \A i \in Records : disk.records[i].status = "Success"

\* The plan is made once, before the loop; each item not yet taken still says
\* what its record asks for when it is taken.
PlanStaysValid ==
  pc \in OnRecord \cup {"loop"} => \A i \in todo :
    plan[i].kind = KindOf(manifest.records[i], run.retry_failed)

\* Resume polls every open request before it submits anything.
PollsBeforeSubmits ==
  pc \in {"sending", "awaiting"} =>
    \A i \in todo : plan[i].kind # "PollExistingRequest"

\* Without continue-on-error nothing more is submitted or polled once a record
\* of this run failed or stayed unresolved.
StopsAtFirstUnresolved ==
  pc \in OnRecord /\ ~run.continue =>
    \A i \in Records \ (todo \cup {cur}) :
      plan[i].kind \in ActiveKind => manifest.records[i].status = "Success"

\* With continue-on-error a run that completes has attempted every record.
ContinueAttemptsAll ==
  run.continue /\ (pc = "finishing" \/ (pc = "loop" /\ todo = {})) =>
    \A i \in Records : manifest.records[i].status # "NotAttempted"

\* A new attempt starts only from NOT_ATTEMPTED or FAILED: whatever may have
\* reached DIGIweb is never sent again, by this run or any later one.
ResentOnlyIfSafe ==
  [][\A i \in Records :
       disk'.records[i].attempt_count # disk.records[i].attempt_count =>
         disk.records[i].status \in {"NotAttempted", "Failed"}]_disk

\* Whatever is written over a record is a step of the record's state machine,
\* and a request id is given up only after the failure of its job.
WrittenStepsAreLegal ==
  [][\A i \in Records :
       /\ TransitionOk(disk.records[i], disk'.records[i].status)
       /\ disk.records[i].request_id # NoRequest
            /\ disk'.records[i].request_id # disk.records[i].request_id =>
            disk.records[i].status = "Failed"]_disk

\* What the status of a record on disk claims of its submission.
ClaimOf(r) ==
  CASE r.status = "NotAttempted" -> "unsent"
    [] r.status = "Success"      -> "done"
    [] r.status = "Failed"       -> "failed"
    [] OTHER                     -> "open"

Ledger == INSTANCE SubmissionLedger WITH
  Record <- Records,
  claim  <- [i \in Records |-> ClaimOf(disk.records[i])],
  posted <- inflight,
  jobs   <- remote

\* The import and its resumes implement the ledger: a record is claimed on disk
\* before it is sent, sent only while no earlier job of it can count, and its
\* claim is settled only when DIGIweb has settled it.
KeepsLedger == Ledger!Spec

\* Every run ends.
RunEnds == pc # "idle" ~> pc = "idle"
=============================================================================

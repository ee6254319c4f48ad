# Formal models of to-digi-rs

`to-digi-rs` reads PLUs (price look-up records) from an Access database,
normalizes, sanitizes and validates them, and submits them one by one to the
DIGIweb service. What can go wrong in a way a shop would notice is the last
step: a PLU sent twice, or never, or reported as done when it is not, after the
process died, was interrupted, lost its connection or was resumed. The program
answers with a recovery manifest, `import-results.json`. The core of this project
is that manifest: who writes it and when, what it promises, and how a resume
acts on it. Around the core lie the HTTP client and its tokens, the files that
several processes share, and the commands from a row of `plu.mdb` to the payload
that is sent.

Paths below are relative to the repository, which lies in `src/`; `runner.rs`
is `src/src/import/runner.rs` from here.

## The system and its parts

| Part | State | Operations | Interacts with | Modelled in |
|---|---|---|---|---|
| `recovery/model` | records with status, request id, attempts; summary; run status | `begin_attempt`, `mark_*`, `recalculate_summary*`, `mark_interrupted`, `mark_restarted_transients_ambiguous` | called by the runner | `ManifestRecord` |
| `recovery/planner` | none | `build_resume_plan` | manifest in, plan out | `ManifestRecord` |
| `recovery/validator` | none | `validate_manifest`, `validate_resume_compatibility` | on load and on resume | `ManifestRecord`, `Command` |
| `recovery/store`, `recovery/lock` | manifest file, temporary, backup, lock file | `load_manifest`, `atomic_write_manifest`, `ManifestLock::acquire` | file system, other processes | `ManifestSharing`, `AtomicManifest` |
| `import/runner` | manifest in memory, plan, position in the plan, Ctrl-C future | `run_import`, `submit_manifest_record`, `poll_manifest_record` | store, client, terminal signal | `ImportRun`, `SubmissionLedger` |
| `import/result` | counters | `final_status`, `exit_code` | summary of the manifest | `ManifestRecord`, `Command` |
| `digiweb/auth` | token, its expiry, refresh count | start, refresh before expiry or after a 401 | token endpoint | `SubmitClient` |
| `digiweb/client`, `digiweb/status` | none between calls | submit with bounded 401 retry, poll until a deadline, interpret answers | DIGIweb | `SubmitClient`, `DigiwebResponse` |
| `digiweb/payload` | none | payload of a PLU | selection in, payload out | `Validation` |
| `main`, `cli`, `config` | none | effective command, choice of profile on resume, exit codes | everything | `Command` |
| `source/mapping`, `source/mdb_tools` | none | tables exported, rows to PLUs, row issues | pure, but for the export | `Normalization`, `SourceContext` |
| `validation` | none | issues, duplicates, selection | pure | `Validation` |
| `sanitization` | profile | rules applied to a data set, snapshot of the profile | before validation, on resume | `Sanitization`, `SourceContext` |
| `analysis` | counters | requirements, ingredient matching, status | presentation | `SourceContext` |
| `logging`, `deploy`, scripts, CI | log file, packages | log lines, packaging | nothing reads them back | not modelled |

The runner is a sequential `async` function. What makes it hard is everything it
does not control: it may die between any two steps; Ctrl-C drops the running
submission at whatever await it has reached (`tokio::select!`,
`import/runner.rs:293`); a POST may be lost, refused, answered late, answered
unreadably, or handled after the client gave up; a token may expire in the
middle; and the next resume sees only what the last write left.

What makes each part correct:

- **manifest**: its summary and run status agree with its records; a record
  moves only along `may_transition_to`; what one run writes the next can read.
- **planner**: open requests first, then what was never sent; nothing ambiguous
  is ever sent; the plan stays true while it is worked off.
- **runner**: what it knows is on disk before every await; no second POST for a
  record that may have reached DIGIweb; it stops, continues and exits as
  documented; it ends.
- **client and auth**: bounded retries; a token that outlives the request it is
  on; a SUCCESS or FAILED that is what became of the job, whatever form the answer
  had; a request id that is never dropped; every operation ends.
- **store and lock**: one writer at a time; the file is replaced whole or not at
  all, at every crash point; nobody writes over what it has not read.
- **sanitization, mapping, validation**: a PLU that is sent is unambiguous and has
  a payload; a profile changes only what it may; the reports count one thing once.
- **commands**: what is wrong locally is refused before DIGIweb is contacted; what
  is sent is what was recorded, whatever is edited meanwhile.

## The modules

| Module | What it is |
|---|---|
| `ManifestRecord` | The manifest as data: records, transitions, summary, restart, validation, resume plan. Pure definitions. |
| `ImportRun` | The state machine of one import and all its resumes: disk, memory, Ctrl-C, crash, and DIGIweb as environment. |
| `SubmissionLedger` | Abstract specification: what the manifest promises of each record, without runs, plans or request ids. `ImportRun` implements it. |
| `ManifestSharing` | Several processes on one manifest path, one action per file operation, with deaths and power failures. |
| `AtomicManifest` | Abstract specification of the manifest file: replaced whole or not at all. `ManifestSharing` implements it. |
| `DigiwebResponse` | How an HTTP answer is read: the interpretation of every combination of status, header, body and state. Pure definitions. |
| `SubmitClient` | One PLU submitted and polled: token, refreshes, 401, the deadline, what the caller is told. |
| `Normalization` | A row of `plu.mdb` becomes a PLU or an issue. Pure definitions. |
| `Validation` | Limits, duplicates, the selection, and the payload of a PLU. Pure definitions. |
| `Sanitization` | Which profiles are valid and what they do to the rows. Pure definitions. |
| `SourceContext` | `read_source_context`: export, two passes, the figures of the reports. Pure definitions. |
| `Command` | The five commands as a state machine over files that may be replaced between any two steps; composes the four modules above. |
| `MCImportRun`, `MCManifestSharing`, `MCSubmitClient`, `MCCommand` | Values of the constants for TLC. |
| `ManifestRecordProofs` | Lemmas about the operators of `ManifestRecord`. |
| `ImportRunProofs`, `ImportSafetyProofs`, `RunRulesProofs`, `LedgerProofs` | Theorems about `ImportRun`: types, safety, the run's own rules, the refinement. |
| `SharingProofs`, `SubmitClientProofs`, `CommandProofs` | Theorems about `ManifestSharing`, `SubmitClient` and `Command`. |

The models meet at three joints. `ImportRun` takes a manifest write for one step;
`ManifestSharing` opens that step, and `AtomicManifest` says what of it a single
writer may rely on. `ImportRun` takes the outcome of a submission from a set of
answer forms; `SubmitClient` shows where these come from. `ImportRun` numbers
its records; `Command` has the PLUs and payloads behind the numbers, and cuts
what happens once a record is sent down to one success.

### How `ImportRun` corresponds to the code

`disk` is `import-results.json`, `manifest` the copy in the memory of the
process. `pc` is the await the process sits at:

| `pc` | Where the process is |
|---|---|
| `idle` | no process runs |
| `auth` | `AuthSession::start` |
| `loop` | between two plan items (no await; visible because the next item is chosen here) |
| `sending` | `submit_plu_with_auth_session` before the POST has left: token refresh, connection |
| `awaiting` | the POST is out, its answer is not in |
| `accepted` | the request id has been written, what came with it has not been acted on |
| `polling` | `poll_request_status_with_auth_session` |
| `finishing` | the loop was left with `break` |

An action is the stretch of code from one await to the next, with the manifest
write in it: `SubmitItem` is the choice of the item, `begin_attempt`,
`recalculate_summary_for_active_run` and `atomic_write_manifest`;
`AfterAccepted` is the match on `initial_status`, the `mark_*` call, the final
recalculation and write, and `should_stop_after_manifest_record`. A stretch with
two writes is two actions (`ReceiveTracked`, `AfterAccepted`), since a crash can
fall between them. `Ended` forgets the variables of the dead process.

Errors returned with `?` end the run without a write: an illegal transition is
`InternalError`; authentication that cannot be restored is `AuthStops`, which
writes the record first. An I/O error of a manifest write, of the payload preview or
of the log outside a request is `Crash`: it ends the process with nothing further on
disk. An error of the log inside a request returns through the client like any other
outcome: before the POST it is `RefreshUnlogged`, after it the answer is `unreadable`,
and in the polling it is `PollUnresolved`.

Ctrl-C is a flag in three states, since `tokio::signal::ctrl_c()` is created
before the loop but installs its handler when it is first polled, in the first
`select!`. Before that a Ctrl-C kills the process (`Crash`). Afterwards it stays
pending between items, and the `select!` of the next item, which polls its
branches in random order, may take it before that item has begun
(`InterruptItem`).

DIGIweb is not in the repository. `remote[i]` are the jobs it created for record
`i`, `inflight` the POSTs that it may still handle. It creates at most one job
for a POST, refuses, or loses it; a job processes until it succeeds or fails. A
POST may be handled after the process that sent it is gone. What it answers is
one of the forms `client.rs` tells apart, `AnswerForms`:

| form | in `client.rs` |
|---|---|
| `tracked` | 2xx with a request id in body or header |
| `blank` | 2xx whose request-id header is there but blank, and no id in the body |
| `untracked` | 2xx without one, not reporting success |
| `bare` | 2xx without one that reports success: 204, an empty 200, or status SUCCESS |
| `unreadable` | the POST was accepted, but the body breaks off or is not JSON, the log does not take it, or a gateway answers |

A 401 and an HTTP error for a POST that created no job are always possible. A blank
header is `Some("")` to the program (`request_id_header`, `client.rs:1087`), so it is
stored and polled with like an id: `BlankId`. A status request with it asks for no job,
and the answer may name any outcome (`JobIs`). `EmptyAccepted` says whether DIGIweb may
answer a status request with an empty 202, which `client.rs:879` takes for success.

Abstracted: timestamps, hashes, source and target identity (constant in a run;
`validate_resume_compatibility` compares them), log lines, payload previews,
the authentication retry counters. A record is named by its selection index. An
error text is either `clean` or `marked`, the latter if it still holds, after
`sanitize_manifest_error`, a marker that `validate_record` refuses.

`SubmissionLedger` keeps of a record its claim (`unsent`, `open`, `done`,
`failed`), whether a submission of it is under way, and its jobs. `Ledger` in
`ImportRun` maps the statuses on disk to claims (`ClaimOf`); `posted` are the
records in `inflight`. `disk` and not memory is what the claim is read from: the
ledger is what a reader of the file may rely on, at any moment, with or without
a process.

### How `ManifestSharing` corresponds to the code

A file is an inode with contents (`data`), and a name is a reference to an inode
(`path`, `temp`), since the temporary file of `atomic_write_manifest` has one
name for all processes and a rename moves it under a writer that has it open.
`synced` and `diskPath` are what a power failure cannot take back. A process goes
through the labels of its function in their order: a new import `snapshot`,
`profile`, a first write, `lock`; a resume `ready` (the load of `main.rs:664`, for
the profile), `profile`, `load` (the load of `runner.rs:52`), `lock`; both then
`begin`, `submit`, `post`, `settle`, `finish`, with a write between each two. A
write is `open`, `write`, `sync`, `check`, `backup`, `rename`, `syncdir`, the file
operations of `store.rs:26`. `lock` is the `flock`, which the operating system frees
when its holder ends. `Dies` may come between any two steps and leaves a partly
written file or backup behind; `PowerFails` ends every process, may undo a rename
that was not flushed, and may tear whatever was not flushed.

The import is cut down to one record, which is sent when its status says so, and
to the profile its payload is built with, which stands for its hash. `current[p]`
is a history variable: nobody else has replaced the file since `p` read or wrote
it; `lostUpdate` records that somebody has written over what it had not read.

`ReusesPath` says whether an import may be given a path where a manifest is, as
with the default path in one working directory. With `FALSE` every import has a
directory of its own, as `deploy/import.sh` arranges; resumes still meet.

### How `SubmitClient` corresponds to the code

An action is a request with its answer, or a sleep. Time is what is left of the
token and of the polling: each request takes one of `Latencies` and `Elapse`
subtracts it. `Bearer` is `bearer_token_for_request`, with the refresh before
expiry; `Unauthorized` a 401, which refreshes and tries again until
`MAX_AUTHENTICATED_REQUEST_ATTEMPTS`; `Submitted` and `Polled` take any `Response`
that is true of the job and act on its interpretation; `AnswerNotTaken` is a body
that breaks off or an answer that the log does not take. Without an `AuthSession` (`session = FALSE`) a 401 is an error at
once. `Response` has every combination of what the interpretation tells apart: the
HTTP status, a request id in header or body, in the header a blank one too, a place to
look for the status, an empty, HTML or malformed body, and the two fields in which a state may be named.

An answer is *truthful* (`Truthful`): a settled status in it is the job's, and an empty
answer means that the job is done, unless it is a 202, which says only that the request
was taken. Beyond that nothing is assumed of DIGIweb: it may leave out anything, use
other spellings, and change its mind about form between two answers. Two status answers
say nothing of the job, and yet the client may take them for its end: an empty 202
(`SaysNothing`), and any answer to a request built from a blank id (`AsksForNoJob`).
`silent` remembers that the last one was such; `ResultIsTrue` says that what the caller
is told is so unless it was. Finding 7 shows where the first leads, and *Blank request ids* below where the second.

### How `Command` and its parts correspond to the code

`Command` has the files of a deployment directory, a manifest, and one process at
a time. `pc` is the function that runs next: `config`, `profile`, `source` (the
hash), `export` (mdb-tools), `context` (both passes), then the command. Each reads
the files when it is its turn, so a file that is replaced in between is read in
two versions. A hash is what is hashed. Retries, interruption, and what DIGIweb
makes of a payload belong to `ImportRun`; here a record is saved as submitted,
sent, and succeeds, or the process dies in between.

A cell of a table is a member of a small set: what the code tells apart of its
text (`Absent`, `Blank`, `Padding`, `Words`, `Long`, a number, a sequence of digits
for a barcode). `Normalization` turns a row into a PLU in the order of the checks
of `source/mapping.rs`, so a row with two defects has the issue of the first.
`Validation` has the checks of `validate_plus`, the duplicate rules with their
`SeenBefore`, and `valid_plu_candidates`; `FromPlu` is the payload.
`Sanitization` fills cells as `apply_profile` does, before anything is parsed.
`SourceContext` counts as `main.rs`, the collector and the sanitization report do,
each from the list that the code takes. What the code keeps of a list, in its order,
is `AtPositions`: a sequence given by its positions, where the library's `SelectSeq`
would be recursive and closed to the provers. So are the rows that PluIng has of a key
(`Joined`); where only their number counts, it is the cardinality of their positions.

## The bounds, and why they are enough

- `ImportRun`. `NumRecords` 2: the properties concern one record, or a record and one
  before or after it in the plan; with two there is a settled and an open one, in both
  orders. `RetryRuns` 0
  or 1: how many resumes are given `--retry-failed`. It is the only way a record is
  sent again, so it bounds the attempts and with them the request ids; one retry
  gives a record two jobs, which is what the properties speak about. Crashes,
  interrupts and plain resumes are not bounded. `MaxAuthAttempts` 3, as in
  `client.rs`. `Texts`: `clean` except in `texts`. `AnswerForms` and `EmptyAccepted`
  are in the table of the runs; `forms` has them all.
- `ManifestSharing`. Two resumes, and two imports one after the other, are every
  pair that can meet: import and resume, two resumes, a resume of the first import
  and the second import's file. Every process dies anywhere, and the power fails
  any number of times. The two resumes are symmetric. `stale` needs one import and
  one resume, `reuse` two imports with `ReusesPath = TRUE`.
- `SubmitClient`. `MaxAuthAttempts` 3. With a skew of 1, lifetimes 1, 4 and no
  expiry are a token that is stale when it is issued, one that becomes stale during
  the polling, and one that never does; requests take no time or one unit; the
  polling has time for two rounds. Longer times repeat these cases; the theorems
  hold for all.
- `Command`. Databases of two rows: the first differs from a good row in one field,
  taking every value that field is told apart by, the second is one of seven rows
  that may collide with it in number, barcode or department, or is a placeholder.
  Beside these, missing tables and columns, an empty table, every kind of odd
  configuration, and profiles that are invalid. In one database two rows share a
  barcode, and the profile takes the first of them out of the way (`SameBarcode`,
  `Reformat`). One scenario has three commands,
  one edit of any file between any two steps and one death: an import, a resume,
  and something in between.

No state constraint is used; with these bounds every state space is finite.

## Fairness and deadlock

`ImportRun`'s `FairSpec` adds weak fairness of `RunnerStep` only: the process,
while it runs, goes on. At an await this is what timeouts give: the HTTP client has
a request timeout (`digiweb/client.rs:100`) and polling a deadline
(`poll_url_with_auth_session`), so `PostNetworkError` and `PollUnresolved` happen if
nothing else does. `SubmitClient`'s `FairSpec` adds weak fairness of `ClientStep` for
the same reason: a request ends by its timeout, a sleep by its interval. Nothing is
assumed of DIGIweb, of a job ever ending, of the operator, or of anyone starting
a resume. `ManifestSharing` and `Command` are checked for safety only: their
processes are straight-line programs that may die anywhere.

`CHECK_DEADLOCK FALSE` stands where the system may really stop: a client that has
told its caller the outcome, processes and commands that have all ended, and
manifests that no resume accepts (`retry`, `forms`, `interrupted`, `texts`, `empty`).
`continue` and `failed` check for deadlock. Elsewhere two properties say more
than that check would: a process that is stuck would not end (`RunEnds`, in `forms`), and
a manifest that cannot be resumed is one that `RefusedOnlyWhenSettled` describes
(`retry` and `forms`).

## The runs

| Run | Instance | States | Shows |
|---|---|---|---|
| `retry` | 2 records, one `--retry-failed`, `tracked` and `untracked` answers | 361,072 | what the manifest says is true; no second job unless the first failed; order, stop, plan and exit rules; what resume refuses is settled; `ImportRun` implements `SubmissionLedger` |
| `forms` | 2 records, no retry, every form of answer, empty 202s | 125,297 | no duplicates, however DIGIweb answers; what resume refuses has a record that waits under a blank request id; every run ends |
| `sharing` | 2 imports, 2 resumes, own directories | 771,531 | one writer; whole or not at all (implements `AtomicManifest`); the backup is what was replaced; the snapshot is the manifest's; a record is sent twice only after a lost update |
| `client` | one PLU, every form of answer | 101,149 | the caller is told the truth unless a status answer that says nothing was taken for the end of the job, keeps the request id, refreshes boundedly, carries a token that outlives its request, and the operation ends |
| `command` | see the bounds | 207,708 | unambiguous PLUs, what a profile may change, exit code 0 of `sanitize`, sums of the reports, refusal before contact, sent as recorded, accepted stays accepted |
| `interrupted` | 2 records, one retry, readable answers | violation | finding 1 |
| `texts` | 2 records, marked texts | violation | finding 2 |
| `continue` | 2 records, bare success | violation | finding 3 |
| `failed` | 2 records, unreadable answers | violation | finding 4 |
| `empty` | 2 records, no retry, readable answers, empty 202s | violation | finding 7 |
| `stale` | 1 import, 1 resume | violation | finding 5 |
| `reuse` | 2 imports into one path | violation | finding 6 |

`retry` leaves out `unreadable`, `bare`, `blank` and empty 202s because findings 3, 4 and
7 and the blank ids below are exactly about them: `FailedIsConfirmed`, `NoInternalError`
and `SuccessIsConfirmed` do not hold otherwise. `forms` has them all, and shows that
without `--retry-failed` even those answers never lead to a second job
(`NoDuplicateJob`). In `retry` a second job is what the
refinement rules out, since the ledger sends only what has no job that may still count
(`Send`, and the theorem `LedgerForbidsDuplicates`). Likewise `sharing` gives each
import its directory, since finding 6 is about two in one, and its
`SentOnceUnlessUpdateLost` leaves room for exactly finding 5: deaths and power failures
alone never make a record be sent twice.

Definitions marked *Mutant* in the modules are not part of the model: each is a
plausible mistake in the code, put in the place of the definition that follows it
to see that a property notices.

### Findings

1. `interrupted`: `README.md:80` has an interrupted run resumed; a Ctrl-C taken
   just before a confirmed failure is retried writes the run status
   `Interrupted` over records that are all settled, which `validate_run_status`
   refuses (`recovery/validator.rs:196`). Nothing is left open in such a manifest
   (the second half of `RefusedOnlyWhenSettled`), but `--retry-failed` cannot be tried again.
2. `texts`: `sanitize_manifest_error` replaces its markers as spelled,
   `validate_record` refuses them in any case. A DIGIweb message with
   `AUTHORIZATION` in it makes the manifest unreadable, open records or not.
3. `continue`: a success without a request id asks for `SUBMISSION_STARTED` to
   `SUCCESS`, which `may_transition_to` does not have. The run ends with an
   internal error although `--continue-on-error` was given (`README.md:43`).
4. `failed`: `FAILED` is said to be confirmed by DIGIweb (`README.md:210`), but
   every submission error other than a network or authentication error is
   recorded as `FAILED`, unreadable answers to accepted POSTs included.
5. `stale`: a resume loads the manifest (`runner.rs:52`) before it takes the lock
   (`runner.rs:109`). If an import or another resume is at work in between, it goes on with what
   it loaded, sends a record the file by then calls `SUCCESS`, and writes the older
   manifest over the newer one, against "NOT_ATTEMPTED = safe to submit during
   resume" (`README.md:211`).
6. `reuse`: a new import writes its manifest (`runner.rs:90`) before it takes the
   lock. Two imports into one path share the temporary file: one renames what the
   other has just truncated, and the live manifest is empty or torn, against
   "Manifest updates are atomic" (`README.md:220`).
7. `empty`: every empty 2xx answer to a status request is taken for success
   (`client.rs:879`), a 202 too, though a 202 to a POST is not (`client.rs:788`). The
   record of a job that is still processing becomes `SUCCESS`, "confirmed completed by
   DIGIweb" (`README.md:209`).

**Blank request ids.** A request-id header is taken as it is (`client.rs:1087`), where
ids of a body are trimmed and blank ones passed over (`client.rs:1046`). A blank one is
stored with `REQUEST_ACCEPTED` or `PROCESSING`, and after an interrupt or a crash in the
polling `validate_record` refuses the manifest (`recovery/validator.rs:152`), open record
and all. `RefusedOnlyWhenSettled` says that this is the one reason, a text with a marker
(finding 2) apart, for which a manifest with something left to settle is refused;
`forms` has such answers, and the theorem `RefusedWhenSettled` holds with them. With a
blank id the client asks DIGIweb for the status of no job in particular, and takes what
it is told for the outcome of this one, which is why the theorems on `SUCCESS` and
`FAILED` assume that there are none.

## What is proved

`tlapm` checks the eight proof modules to the last leaf. The theorems hold for
every number of records, processes and attempts, every bound and every set of
answers, lifetimes and texts, from the `ASSUME`s in the modules that declare the
constants, which TLC evaluates on every run. What a theorem assumes beyond them
is named in it.

| Theorem | Module | States | Assumes in addition |
|---|---|---|---|
| `TypeCorrect` | `ImportRunProofs` | `TypeOK` | |
| `RunsAreBounded` | `ImportRunProofs` | a run has a bounded number of steps left, and each uses up one | |
| `OneItemIsNext` | `ImportRunProofs` | as long as items are left, exactly one is next | |
| `NothingUnsaved` | `ImportSafetyProofs` | `NothingUnsavedAtAwait` | |
| `NotAttemptedSafe` | `ImportSafetyProofs` | `NotAttemptedIsSafe` | |
| `JobsHaveAttempts` | `ImportSafetyProofs` | `EveryJobHasAnAttempt` | |
| `SuccessConfirmed` | `ImportSafetyProofs` | `SuccessIsConfirmed` | `SuccessIsSaid` |
| `RequestIdIsNewest` | `ImportSafetyProofs` | `RequestIdNamesNewestJob` | |
| `FailedConfirmed` | `ImportSafetyProofs` | `FailedIsConfirmed` | `FailureIsSaid` |
| `NoDuplicates` | `ImportSafetyProofs` | `NoDuplicateJob` | `FailureIsSaid` |
| `WrittenLegally` | `RunRulesProofs` | `WrittenStepsAreLegal` | |
| `ResentSafely` | `RunRulesProofs` | `ResentOnlyIfSafe` | |
| `PlanValid` | `RunRulesProofs` | `PlanStaysValid` | |
| `NeverInternal` | `RunRulesProofs` | `NoInternalError` | `NoBareSuccess` |
| `PollsFirst` | `RunRulesProofs` | `PollsBeforeSubmits` | |
| `StopsFirst` | `RunRulesProofs` | `StopsAtFirstUnresolved` | |
| `ContinuesThroughAll` | `RunRulesProofs` | `ContinueAttemptsAll` | |
| `ExitZeroIsTrue` | `RunRulesProofs` | `ExitZeroMeansAllDone` | |
| `RefusedWhenSettled` | `RunRulesProofs` | `RefusedOnlyWhenSettled` | `TextsClean` |
| `StaysResumable` | `RunRulesProofs` | every manifest on disk passes `ValidateManifest` | `TextsClean`, `IdsNameJobs`, no `--retry-failed` |
| `NoDuplicatesWithoutRetry` | `RunRulesProofs` | `NoDuplicateJob` | no `--retry-failed` |
| `SubmittedOncePerRetry` | `RunRulesProofs` | a record has at most one job, and one for each `--retry-failed` | |
| `LedgerKept` | `LedgerProofs` | `KeepsLedger`: `ImportRun` implements `SubmissionLedger` | `FailureIsSaid`, `SuccessIsSaid` |
| `LedgerForbidsDuplicates` | `LedgerProofs` | `KeepsLedger` implies `NoDuplicateJob` | |
| `TypesCorrect` | `SharingProofs` | `TypeOK` | |
| `WritersExclude` | `SharingProofs` | `OneWriter` | `~ReusesPath` |
| `ManifestIsWhole` | `SharingProofs` | `LiveManifestIsWhole` | `~ReusesPath` |
| `PreviousIsKept` | `SharingProofs` | `ReplacedIsBackedUp` | `~ReusesPath` |
| `SnapshotStaysOwn` | `SharingProofs` | `SnapshotIsOwn` | `~ReusesPath` |
| `SentTwiceOnlyAfterLoss` | `SharingProofs` | `SentOnceUnlessUpdateLost` | `~ReusesPath` |
| `ImplementsAtomicManifest` | `SharingProofs` | `ReplacesAtomically`: `ManifestSharing` implements `AtomicManifest` | `~ReusesPath` |
| `TypeCorrect` | `SubmitClientProofs` | `TypeOK` | |
| `ResultTrue` | `SubmitClientProofs` | `ResultIsTrue` | |
| `IdKept` | `SubmitClientProofs` | `RequestIdIsKept` | |
| `BoundedRefreshes` | `SubmitClientProofs` | `RefreshesAreBounded` | |
| `OperationsAreBounded` | `SubmitClientProofs` | an operation has a bounded number of steps left, and each uses up one | |
| `TokenOutlives` | `SubmitClientProofs` | `TokenOutlivesItsRequest` | no latency above `Skew` |
| `TypesCorrect` | `CommandProofs` | `TypeOK` | `AbsentIsNoRecord` |
| `RefusalsAreLocal` | `CommandProofs` | `RefusedBeforeContact` | |
| `NothingAmbiguousIsValid` | `CommandProofs` | `ValidPlusAreUnambiguous` | |
| `WhatIsSentWasRecorded` | `CommandProofs` | `SentAsRecorded` | |
| `NothingAcceptedIsRefused` | `CommandProofs` | `AcceptedStaysAccepted` | `AbsentIsNoRecord` |
| `NothingElseIsFilled` | `CommandProofs` | `FillsOnlyEmpty` | |
| `ExitZeroIsImportable` | `CommandProofs` | `ExitZeroMeansImportable` | |
| `WhatIsReportedAddsUp` | `CommandProofs` | `ReportsAddUp` | |

`IdsNameJobs`: no answer is `blank`. `FailureIsSaid`: that, and no accepted POST is
answered `unreadable`. `SuccessIsSaid`: that no answer is `blank`, and `~EmptyAccepted`.
`NoBareSuccess`: no answer is `bare`. `TextsClean`: no text of DIGIweb holds a marker that
`sanitize_manifest_error` leaves in. Findings 4, 7, 3, 2 and 6 and the blank ids above
show that without `FailureIsSaid`, `SuccessIsSaid`, `NoBareSuccess`, `TextsClean`,
`~ReusesPath` and `IdsNameJobs` theorems of the table are false, and finding 1 that
`StaysResumable` needs `RetryRuns = 0`.
`AbsentIsNoRecord` says that `Absent`, the `None` of an `Option`, is no function and so
no record. The configuration makes it a model value, for which this holds; TLC cannot
evaluate the formula, which quantifies over every set, so it is a hypothesis of the two
theorems that need it. It says nothing of the code.

**The safety invariant of `ImportRun`.** The properties are not inductive: that
`NOT_ATTEMPTED` on disk is true of DIGIweb depends on what a process at an await
is about to write, and that in turn on what the answer in its hands says. `IInv`
has two halves. *Truthful* relates each record on disk to DIGIweb, status by
status: what `NOT_ATTEMPTED`, `SUCCESS`, `FAILED` and the statuses with a request
id promise, and how many jobs the attempts allow. What it says of `SUCCESS` and `FAILED`
it says under `SuccessIsSaid` and `FailureIsSaid`, so that the rest of it, and the
theorems without an assumption, hold for every answer. It holds between runs and does
not mention the process, so a crash preserves it with nothing to prove.
*ProcessKnows* says what the process may rely on at each await: at `sending` its
record has an attempt that has not been sent; at `awaiting` with an answer, the
answer describes the newest job or says there is none; at `accepted` and `polling`
the request id names the newest job or is blank; and memory equals disk. Every outcome the
runner writes is then one lemma (`OutcomeSafe`): a new record that is true of
DIGIweb, written over the current one, keeps both halves. The proof of each action
is the reason why its outcome is true.

**The rules of the run.** `OutcomeShape` says what every outcome has in common: it
rewrites the current record by a legal transition and leaves the others alone;
`WrittenStepsAreLegal` and `ResentOnlyIfSafe` follow step by step. `PlanInv` says that
what is still to do is planned as its record asks, `ExitInv` that no answer in hand
can ask for a transition that does not exist, and `OrderInv` that polls come first in
the plan, that none is left when something is submitted, and that without
`--continue-on-error` everything done so far succeeded. Each is proved on top of
`IInv`.

**What a run leaves behind.** `ExitZeroMeansAllDone` is about a count: `SummaryCounts`
in `ManifestRecordProofs` has that a count is zero exactly when no record has the
status, for any number of records, so the exit code computed from the summary
(`FinalSuccessMeansAll`) and the run status derived from it
(`IncompleteMeansUnsettled`) speak of the records. `AttemptedInv` says that what the
loop has passed is no longer `NOT_ATTEMPTED`; a `SkipItem` does not break it, because
what is skipped is planned from a status that is not `NOT_ATTEMPTED` (`PlanInv`).
`SoundManifest` is what `validate_manifest` asks for beyond `Truthful`: attempts
counted, no marker in a text, the summary that of the records, and a run status that
is the derived one, `InProgress` or `Interrupted`. Every write keeps it; what it leaves
open is a blank id of a record that waits, and an `Interrupted` with
nothing unsettled, which is finding 1. `OpenInv` closes the second as long as
`--retry-failed` was never given: a Ctrl-C is then taken only while some record is
unsettled. `RefusedWhenSettled` and `StaysResumable` follow.

**How often a record is sent.** `NoDuplicates` needs answers that tell what became of the job (`FailureIsSaid`); what
holds of any answer is a count. `BudgetInv` says that the attempts a record has, and
the one that a resume with `--retry-failed` still owes it until it has taken its item
(`Owed`), are at most one and one for each such resume. An attempt is the first of its
record or is taken from what is owed, because an item is planned as a submission only
if the record is unsent or the run retries (`PlanInv`); since `Truthful` bounds the jobs
by the attempts, `SubmittedOncePerRetry` follows, and for no retries
`NoDuplicatesWithoutRetry`, which is the question of `forms` for any number of
records. With one retry an unreadable answer does give two jobs: finding 4.

**That a run ends.** Liveness is out of the prover's reach, but what makes it true is
not. `StepsLeft` counts down what a run may still do: for each item left
`2 * MaxAuthAttempts + 3` steps (the item taken, a POST and an answer for each
authenticated attempt, a request id, a poll), and what is left of the current one.
Every step of the runner lowers it, a step of DIGIweb, a Ctrl-C or a crash never raises
it, and it is zero exactly at `idle` (`RunsAreBounded`). So a run that keeps moving ends;
that it keeps moving is fairness, and TLC's. That the loop is never stuck for want of an
item is `OneItemIsNext`: `IsNext` picks one item whatever kinds and groups the records
of a resume have, because the place of an item is a number and no two have the same
(`PlacesOrder`).

**The refinement.** `LedgerProofs` shows that a step which writes one record moves its
claim along unsent, open, done or failed (`ClaimStep`), that a step of DIGIweb writes
none, and that the guards of the ledger's `Send`, `Succeed` and `Fail` are what `IInv`
promises when `ImportRun` sends or settles a record. `LedgerForbidsDuplicates` is what
the ledger is worth: from `SubmissionLedger` alone, all jobs of a record but the
newest have failed, and so has the newest while another is on its way (`Kept`).

**One writer.** The lock alone does not give `OneWriter`, since a new import writes
before it takes it. `LockInv` has the reason why that is harmless where nobody
reuses a path: an import that creates the manifest is alone while there is none,
since a resume cannot load, and everything written later is written under the lock.

**The files.** With one writer the temporary file has one owner. `WriterAt` follows it
through `atomic_write_manifest`: what it has open is the file of that name, from the
write on it holds the manifest in its memory, from the sync on it survives a power
failure, and at the rename the backup is what is about to go. `NamesInv` says
what comes of it: the live name, and the name that a power failure would fall back to, stand for
whole and flushed manifests. `FormInv` says which manifest a process holds at which
label. From these follow `LiveManifestIsWhole`, `ReplacedIsBackedUp` and, step by
step, that `ManifestSharing` implements `AtomicManifest`: the rename replaces, the sync
of the directory makes it last, a power failure falls back to the durable manifest, and
the rest of a write offers its manifest or takes it back. `SnapInv` carries the profile from the manifest into every copy of it, on
disk, in memory and under the name a power failure restores; a snapshot is written
only by the creator, before there is a manifest that could name another. `SendInv`
needs the history variables: while no update is lost, a process whose memory says
`NOT_ATTEMPTED` and that nobody has overtaken (`current`) has memory equal to the
file, so two of them cannot both come to the POST, and once one has, no manifest that
is or could again become the live one says `NOT_ATTEMPTED`.

**The commands.** `StageInv` says which commands reach which stage and that none
before `send` has contacted DIGIweb; the refusals are before it. `PassInv` says that the
context at work is `Context(dataset, profile)` for *some* dataset whose rows have an
order: files may be edited under the process, so it is not that of the files. What is
true of one pass over any table, a lemma about `Context`, is then true of every state.
These lemmas need `AtPositions` for tables of any length: the k-th element of a set of
positions exists, is unique and keeps the order (`PlaceExists`, `PlaceOnto`), by the
least-element principle of the well-founded order on `Nat` rather than induction over
rows. From there:
a number with an issue is out of the valid PLUs, so of two PLUs that share number or
barcode at least one is gone, and none is left that has no payload
(`CandidatesUnambiguous`); rows and issues partition the table, so the counts of
`counted_invalid_rows` add up, and zero invalid means that every position is a
placeholder or valid (`RowsCounted`, `PassCounted`). `SendInv` has the comparison of
`validate_resume_compatibility` as an invariant from `secret` on: what is sent is built
from memory, which no edit reaches. `AcceptedStaysAccepted` relates two commands: while
nothing was edited since the first (`accepted`, `pristine`), the second has gone
through the same stages with the same files (`UntouchedInv`, `ResumeInv`, `FreshInv`),
so a stage that passed then passes now; `AcceptedInv` and `PristineInv` keep, as
predicates of the files alone, what the first one found.

`ReportsAddUp` is about two sums. Each is the size of a set, partitioned: the rows of
PluIng with the number and department of a valid PLU by the PLU, the valid PLUs by the
group or department that they name. `SumOfParts` says that over any finite index
set the sum of the sizes of disjoint parts is the size of their union. The library's sum
is a fold, defined as *some* solution of its equation (`Summing`); the sizes of unions
are one, and there is only one, since a smallest set on which two solutions differ
would have a smaller (`SummedOnce`): the least-element principle again, in place of
induction. The parts are disjoint because valid PLUs have distinct numbers
(`CandidatesUnambiguous`) and because a group is found by its key.

The proof of `FillsOnlyEmpty` corrected the property. It had said that a number which
becomes valid is listed as changed or lost its padding. There is a third way: a row
whose barcode collided with that of another becomes valid when the profile changes the
*other* row, and only the other is listed. The property now names that case (`FreedBy`)
and the `command` run reaches it.

**The client.** `Allowance` is how many refreshes a request may have made when it is
at a given place of a given attempt; it never exceeds two for each attempt but the
first, where the proactive one is the only one before the request goes out.
`FreshWhenSent` says that a token of a session is fresher than the skew when it is
put on a request, unless it never was. `OperationsAreBounded` is the counterpart of
`RunsAreBounded`: the requests left are the submission and one poll for each unit of
polling time, each of at most four steps per attempt, and the pair falls with every
step. It is why a refresh that is answered by another 401 cannot go on for ever.

### Only model-checked

- Liveness (`RunEnds`, `OperationEnds`): fairness and `ENABLED` are out of the
  prover's reach. Their safety halves, the bounds on the steps left, are theorems; that a
  process which has a step takes it is what TLC adds.
- The violated properties of the findings are false, and shown so by their runs.

Every invariant and action property of the passing runs has its theorem, and so
have the two refinements. Within the theorems about `Command`, what single operators
return on odd cells is reached only as far as the properties need it: that the
translation of a cell's text is the right one is a matter of reading the source, for
TLC's values as for the proof.

## Not modelled

- *Text*: console, log and report rendering (`analysis/text_report.rs`,
  `json_report.rs`, the sanitization report), log redaction, previews of payloads
  and bodies, the printed preflight. Nobody in the program reads them back.
- *Statistics of the analysis* on prices, barcodes and nutrition, and the names of
  departments and groups looked up in the reference tables: they decide nothing.
- *Data below what the code tells apart*: timestamps, decimal formatting, the
  spellings under which a column is found, numbers too large for 32 bits (a cell of
  `Words`, like any text that is no number), the form of a hash and of the schema
  version in an edited manifest.
- `authentication_retries` in a manifest record: diagnostic, overwritten by the
  polling of the same attempt (`runner.rs:637`), read by nobody.
- *External code*: clap's and TOML's parsing, the mdb-tools programs and the CSV
  reader, reqwest. They appear as failures and as values.
- *DIGIweb* beyond what the client can observe of it.
- `deploy`, scripts, CI and Docker: packaging around the program, with no state it
  reads back but files that `Command` and `ManifestSharing` already let change.

---------------------------- MODULE SubmitClient ----------------------------
(***************************************************************************)
(* One PLU sent and polled over HTTP: the access token and its refreshes,  *)
(* HTTP 401, the polling deadline, and what the caller is told.            *)
(* src/src/digiweb/{auth,client}.rs with submit_manifest_record and        *)
(* poll_manifest_record of src/src/import/runner.rs.                       *)
(*                                                                         *)
(* ImportRun keeps of all this the classes of outcome; here is where they  *)
(* come from.  A request and its answer are one action that takes some     *)
(* time; time is counted in what is left of the token and of the polling.  *)
(* The paths without an AuthSession (upsert_plu, poll_request_status) are  *)
(* those of a client with session = FALSE.                                 *)
(***************************************************************************)
EXTENDS DigiwebResponse

CONSTANTS
  MaxAuthAttempts,    \* MAX_AUTHENTICATED_REQUEST_ATTEMPTS
  Skew,               \* TOKEN_REFRESH_SKEW
  Lifetimes,          \* the expires_in DIGIweb may give a token
  Never,              \* no expires_in
  Latencies,          \* how long a request may take
  PollInterval, PollTimeout

ASSUME AttemptsAssumption == MaxAuthAttempts \in Nat \ {0}
ASSUME TimesAssumption ==
  /\ Skew \in Nat /\ Lifetimes \subseteq Nat \cup {Never} /\ Never \notin Nat
  /\ Latencies \subseteq Nat /\ PollInterval \in Nat \ {0} /\ PollTimeout \in Nat \ {0}

VARIABLES
  session,       \* is there an AuthSession?
  template,      \* is request_status_path_template configured?
  pc,            \* where the client is
  op,            \* "submit" or "poll"
  attempt,       \* authenticated attempts of the current request
  why,           \* the refresh under way, or just made, is "proactive" or "unauthorized"
  lifetime,      \* the lifetime of the current token
  tokenLeft,     \* what is left of it
  refreshes,     \* refresh_count
  before,        \* refresh_count when the current request began
  pollLeft,      \* time to the polling deadline
  id,            \* the request id the caller has: none, a blank one, or the job's
  result,        \* what the caller is told in the end
  job,           \* the job DIGIweb created, or "none"
  told,          \* DIGIweb has named the request in an answer that can be read
  silent         \* the last status answer was about no job, or an empty 202

auth == <<lifetime, tokenLeft, refreshes>>
vars == <<session, template, pc, op, attempt, why, auth, before, pollLeft,
          id, result, job, told, silent>>

Times == Nat \cup {Never}

Error == {"Network", "Auth", "Http", "Config", "Logging"}

TypeOK ==
  /\ session \in BOOLEAN /\ template \in BOOLEAN
  /\ pc \in {"start", "idle", "bearer", "refresh", "send", "sleep", "done"}
  /\ op \in {"submit", "poll"}
  /\ attempt \in 1 .. MaxAuthAttempts
  /\ why \in {"none", "proactive", "unauthorized"}
  /\ lifetime \in Times /\ tokenLeft \in Times
  /\ refreshes \in Nat /\ before \in 0 .. refreshes /\ pollLeft \in 0 .. PollTimeout
  /\ id \in RequestIdText /\ told \in BOOLEAN /\ silent \in BOOLEAN
  /\ result \in Error \cup JobState \cup {"none", "unknown", "timeout"}
  /\ job \in JobState \cup {"none"}

Init ==
  /\ session \in BOOLEAN /\ template \in BOOLEAN
  /\ pc = "start" /\ op = "submit" /\ attempt = 1 /\ why = "none"
  /\ lifetime = Never /\ tokenLeft = Never
  /\ refreshes = 0 /\ before = 0 /\ pollLeft = 0
  /\ id = "none" /\ result = "none" /\ job = "none" /\ told = FALSE /\ silent = FALSE

-----------------------------------------------------------------------------
(* Pieces *)

Minus(t, d) == IF t = Never THEN Never ELSE IF t > d THEN t - d ELSE 0

Elapse(d) ==
  /\ tokenLeft' = Minus(tokenLeft, d)
  /\ pollLeft' = Minus(pollLeft, d)

Done(outcome) ==
  /\ pc' = "done"
  /\ result' = outcome
  /\ UNCHANGED <<session, template, attempt, why, before>>

\* The request fails.  Without a session an error of the polling becomes a
\* status that is not known, beside the request id.
Fails(error) ==
  /\ Done(IF ~session /\ op = "poll" THEN "unknown" ELSE error)
  /\ UNCHANGED op

-----------------------------------------------------------------------------
(* The access token *)

\* request_token: 200 with a token, and with or without expires_in.
TokenIssued ==
  \E life \in Lifetimes : lifetime' = life /\ tokenLeft' = life

\* AuthSession::start, or authenticate without a session.
Start ==
  /\ pc = "start"
  /\ pc' = "idle"
  /\ TokenIssued
  /\ UNCHANGED <<session, template, op, attempt, why, refreshes, before, pollLeft,
                 id, result, job, told, silent>>

\* No connection, a status other than 200, a body that is no token response, or
\* an empty token.
StartFails ==
  /\ pc = "start"
  /\ pc' = "done"
  /\ result' \in {"Network", "Auth"}
  /\ UNCHANGED <<session, template, op, attempt, why, auth, before, pollLeft,
                 id, job, told, silent>>

\* Mutant: the token is used until it has expired.
ExpiredOnly == tokenLeft # Never /\ tokenLeft = 0

TokenNeedsProactiveRefresh == tokenLeft # Never /\ tokenLeft <= Skew

\* bearer_value_for_request
Bearer ==
  /\ pc = "bearer"
  /\ IF session /\ TokenNeedsProactiveRefresh
     THEN pc' = "refresh" /\ why' = "proactive"
     ELSE pc' = "send" /\ why' = "none"
  /\ UNCHANGED <<session, template, op, attempt, auth, before, pollLeft,
                 id, result, job, told, silent>>

RefreshSucceeds ==
  /\ pc = "refresh"
  /\ TokenIssued
  /\ refreshes' = refreshes + 1
  /\ pc' = IF why = "proactive" THEN "send" ELSE "bearer"
  /\ \E d \in Latencies : pollLeft' = Minus(pollLeft, d)
  /\ UNCHANGED <<session, template, op, attempt, why, before, id, result, job, told, silent>>

\* As StartFails, or the log does not take the lines about it.
RefreshFails ==
  /\ pc = "refresh"
  /\ \E error \in {"Network", "Auth", "Logging"} : Fails(error)
  /\ UNCHANGED <<auth, pollLeft, id, job, told, silent>>

-----------------------------------------------------------------------------
(* Requests *)

BeginSubmit ==
  /\ pc = "idle"
  /\ pc' = "bearer" /\ op' = "submit" /\ attempt' = 1
  /\ before' = refreshes
  /\ UNCHANGED <<session, template, why, auth, pollLeft, id, result, job, told, silent>>

\* poll_request_status and poll_url: a deadline of its own.
BeginPoll ==
  /\ pc' = "bearer" /\ op' = "poll" /\ attempt' = 1
  /\ before' = refreshes
  /\ pollLeft' = PollTimeout
  /\ UNCHANGED <<session, template, why, result>>

\* What DIGIweb may have done with a request nobody heard the answer of.
Unheard == IF op = "submit" THEN job' \in JobState \cup {"none"} ELSE job' = job

NetworkError ==
  /\ pc = "send"
  /\ \E d \in Latencies : Elapse(d)
  /\ Unheard
  /\ Fails("Network")
  /\ UNCHANGED <<lifetime, refreshes, id, told, silent>>

\* capture_response: the body breaks off, whatever the status was; or the log does
\* not take the lines about the answer, those written after it included.
AnswerNotTaken ==
  /\ pc = "send"
  /\ \E d \in Latencies : Elapse(d)
  /\ Unheard
  /\ \E error \in {"Http", "Logging"} : Fails(error)
  /\ UNCHANGED <<lifetime, refreshes, id, told, silent>>

\* Mutant: one attempt more than allowed.
UnauthorizedOffByOne ==
  /\ pc = "send" /\ session
  /\ \E d \in Latencies : Elapse(d)
  /\ IF attempt > MaxAuthAttempts
     THEN Done("Auth") /\ UNCHANGED op
     ELSE /\ attempt' = attempt + 1
          /\ pc' = "refresh" /\ why' = "unauthorized"
          /\ UNCHANGED <<session, template, op, before, result>>
  /\ UNCHANGED <<lifetime, refreshes, id, job, told, silent>>

\* HTTP 401 with a session: the same request again, a bounded number of times.
Unauthorized ==
  /\ pc = "send" /\ session
  /\ \E d \in Latencies : Elapse(d)
  /\ IF attempt = MaxAuthAttempts
     THEN Done("Auth") /\ UNCHANGED op
     ELSE /\ attempt' = attempt + 1
          /\ pc' = "refresh" /\ why' = "unauthorized"
          /\ UNCHANGED <<session, template, op, before, result>>
  /\ UNCHANGED <<lifetime, refreshes, id, job, told, silent>>

\* Any other status that is not 2xx, and a 401 without a session.  It may come
\* from a gateway in front of a DIGIweb that did accept the request.
Refused ==
  /\ pc = "send"
  /\ \E d \in Latencies : Elapse(d)
  /\ Unheard
  /\ Fails("Http")
  /\ UNCHANGED <<lifetime, refreshes, id, told, silent>>

\* Is there a place to ask for the status of the request?  With a session only
\* the configured one counts; without one, the answer's will do.
Pollable(r) == template \/ (~session /\ r.location)

\* A 2xx answer to the POST: interpret_plu_submission and the runner after it.
Submitted ==
  /\ pc = "send" /\ op = "submit"
  /\ \E d \in Latencies : tokenLeft' = Minus(tokenLeft, d)
  /\ \E r \in Response, state \in JobState :
       LET seen == InterpretPluSubmission(r)
       IN  /\ Truthful(r, state)
           /\ job' = state
           /\ id' = seen.id
           /\ told' = (RequestIdOf(r) = "id" /\ seen.kind # "HttpError")
           /\ IF seen.kind = "Async" /\ Pollable(r)
              THEN BeginPoll
              ELSE /\ Done(CASE seen.kind = "HttpError"               -> "Http"
                             [] seen.kind = "Async" /\ session        -> "Config"
                             [] seen.kind = "Async" /\ ~session       -> "unknown"
                             [] seen.kind \in {"Final", "Unknown"}    -> seen.status)
                   /\ op' = IF seen.kind = "Async" /\ session THEN "poll" ELSE "submit"
                   /\ UNCHANGED pollLeft
  /\ UNCHANGED <<lifetime, refreshes, silent>>

\* The configured status path with a blank id in it asks for no job in particular.
AsksForNoJob == template /\ id = "blank"

\* A 2xx answer to a status request.
Polled ==
  /\ pc = "send" /\ op = "poll"
  /\ \E d \in Latencies : Elapse(d)
  /\ \E r \in StatusResponse :
       /\ AsksForNoJob \/ Truthful(r, job)
       /\ silent' = (AsksForNoJob \/ SaysNothing(r))
       /\ CASE InterpretStatus(r) = "error" -> Fails("Http")
            [] InterpretStatus(r) \in {"success", "fail", "unknown"} ->
                 Done(InterpretStatus(r)) /\ UNCHANGED op
            [] InterpretStatus(r) = "processing" ->
                 IF pollLeft' = 0 THEN Done("timeout") /\ UNCHANGED op
                 ELSE /\ pc' = "sleep"
                      /\ UNCHANGED <<session, template, op, attempt, why, before, result>>
  /\ UNCHANGED <<lifetime, refreshes, id, job, told>>

\* Mutant: every round of polling starts a new deadline.
SleepNewDeadline ==
  /\ pc = "sleep"
  /\ tokenLeft' = Minus(tokenLeft, PollInterval) /\ pollLeft' = PollTimeout
  /\ pc' = "bearer" /\ attempt' = 1
  /\ before' = refreshes
  /\ UNCHANGED <<session, template, op, why, lifetime, refreshes, id, result, job, told, silent>>

Sleep ==
  /\ pc = "sleep"
  /\ Elapse(PollInterval)
  /\ pc' = "bearer" /\ attempt' = 1 /\ before' = refreshes
  /\ UNCHANGED <<session, template, op, why, lifetime, refreshes, id, result, job, told, silent>>

\* DIGIweb
JobEnds ==
  /\ job = "processing" /\ pc # "done"
  /\ job' \in {"success", "fail"}
  /\ UNCHANGED <<session, template, pc, op, attempt, why, auth, before, pollLeft,
                 id, result, told, silent>>

ClientStep ==
  \/ Start \/ StartFails \/ BeginSubmit
  \/ Bearer \/ RefreshSucceeds \/ RefreshFails
  \/ NetworkError \/ AnswerNotTaken \/ Unauthorized \/ Refused
  \/ Submitted \/ Polled \/ Sleep

Next == ClientStep \/ JobEnds

Spec == Init /\ [][Next]_vars

\* Every await ends: requests have a timeout, sleeps an interval.
FairSpec == Spec /\ WF_vars(ClientStep)

-----------------------------------------------------------------------------
(* Properties *)

\* What the caller is told of the job is so: SUCCESS and FAIL are final in the
\* manifest.  Only a status answer that says nothing of the job, taken for its end,
\* can be wrong: an empty 202, or one to a status request that asked for no job.
ResultIsTrue == result \in {"success", "fail"} => job = result \/ silent

\* A request id that DIGIweb has given in an answer that could be read is in the
\* caller's hands, and whatever fails from then on is a failure to poll, never one
\* to submit: the runner marks the record STATUS_UNKNOWN, and a resume polls it.
RequestIdIsKept == told => id = "id" /\ (result \in Error => op = "poll")

\* The skew covers the time a request takes: by the client's clock a token never
\* expires on a request that carries it, unless it was issued with less than the
\* skew to live.
TokenOutlivesItsRequest ==
  [][pc = "send" /\ pc' # "send" /\ session =>
       tokenLeft' = Never \/ tokenLeft' > 0 \/ lifetime <= Skew]_vars

\* README.md: "If authentication cannot be restored after bounded retries": one
\* request asks for at most two tokens per attempt, however short they last.
RefreshesAreBounded == refreshes - before <= 2 * MaxAuthAttempts - 1

\* Submitting and polling end.
OperationEnds == pc # "done" ~> pc = "done"
=============================================================================

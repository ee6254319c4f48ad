-------------------------- MODULE SubmitClientProofs --------------------------
(***************************************************************************)
(* SubmitClient for every number of attempts and any lifetimes, latencies  *)
(* and polling times: what the caller is told is true, a request id is     *)
(* kept, refreshes are bounded, a token outlives its request, and an       *)
(* operation has a bounded number of steps.                                *)
(***************************************************************************)
EXTENDS SubmitClient, TLAPS

-----------------------------------------------------------------------------
(* How an answer is read *)

LEMMA ProcessingStatusType ==
  ASSUME NEW r \in Response
  PROVE  ProcessingStatus(r.body) \in JobState \cup {"unknown", "none"}
BY DEF ProcessingStatus, ParseProcessingStatus, JobState

\* The status that is read is one of the two texts.
LEMMA ProcessingStatusIsSaid ==
  ASSUME NEW r, ProcessingStatus(r.body) \in {"success", "fail"}
  PROVE  \/ r.body.status = ProcessingStatus(r.body)
         \/ r.body.state = ProcessingStatus(r.body)
BY DEF ProcessingStatus, ParseProcessingStatus, JobState

LEMMA BodyOfResponse ==
  ASSUME NEW r \in Response
  PROVE  /\ r.http \in HttpStatus /\ r.header \in RequestIdText /\ r.location \in BOOLEAN
         /\ r.body.kind \in {"json", "empty", "html", "malformed"}
         /\ r.body.id \in BOOLEAN
         /\ r.body.kind # "json" => r.body.id = FALSE
         /\ r.http = "NO_CONTENT" => r.body.kind = "empty"
BY DEF Response, JsonBody, OtherBody, HttpStatus

LEMMA RequestIdOfType ==
  ASSUME NEW r \in Response
  PROVE  RequestIdOf(r) \in RequestIdText
BY BodyOfResponse DEF RequestIdOf, RequestIdText

Faithful(seen, r, state) ==
  /\ seen \in Interpretation
  /\ seen.kind # "HttpError" => seen.id = RequestIdOf(r)
  /\ seen.status \in {"success", "fail"} => state = seen.status

\* An interpretation is well formed, keeps the id of an answer that could be
\* read, and names a settled state only if DIGIweb said so.
LEMMA InterpretationFacts ==
  ASSUME NEW r \in Response, NEW state \in JobState, Truthful(r, state)
  PROVE  Faithful(InterpretPluSubmission(r), r, state)
<1> DEFINE seen == InterpretPluSubmission(r)
<1>0. /\ r.header \in RequestIdText /\ RequestIdOf(r) \in RequestIdText
      /\ r.body.kind \in {"json", "empty", "html", "malformed"}
      /\ r.body.id \in BOOLEAN
      /\ r.body.kind # "json" => r.body.id = FALSE
      /\ r.http = "NO_CONTENT" => r.body.kind = "empty"
  BY BodyOfResponse, RequestIdOfType
<1> USE <1>0 DEF Faithful, RequestIdText
<1>1. CASE r.http = "NO_CONTENT"
  <2>1. seen = Final(r.header, "success") BY <1>1 DEF InterpretPluSubmission
  <2>2. state = "success" BY <1>1 DEF Truthful, SaysDone
  <2> QED BY <1>1, <2>1, <2>2 DEF Final, Interpretation, RequestIdOf, JobState
<1>2. CASE r.http # "NO_CONTENT" /\ r.body.kind = "empty"
  <2>1. seen = InterpretEmpty(r) BY <1>2 DEF InterpretPluSubmission
  <2>2. r.http # "ACCEPTED" => state = "success" BY <1>2 DEF Truthful, SaysDone
  <2> QED BY <1>2, <2>1, <2>2
          DEF InterpretEmpty, Final, Async, Unknown, Interpretation, RequestIdOf, JobState
<1>3. CASE r.body.kind \in {"html", "malformed"}
  <2>1. seen = HttpError BY <1>3 DEF InterpretPluSubmission
  <2> QED BY <2>1 DEF HttpError, Interpretation
<1>4. CASE r.body.kind = "json"
  <2>1. seen = InterpretJson(r) BY <1>4 DEF InterpretPluSubmission
  <2> DEFINE status == ProcessingStatus(r.body)
  <2>2. status \in {"success", "fail"} => state = status
    BY ProcessingStatusIsSaid DEF Truthful, Says
  <2>3. HasRequestId(r) <=> RequestIdOf(r) # "none" BY DEF HasRequestId
  <2>4. status \in JobState \cup {"unknown", "none"} BY ProcessingStatusType
  <2> HIDE DEF status
  <2>5. CASE status \in {"success", "fail"}
    <3>1. seen = Final(RequestIdOf(r), status) BY <2>1, <2>5 DEF InterpretJson, status
    <3> QED BY <3>1, <2>2, <2>3, <2>5 DEF Final, Interpretation, JobState
  <2>6. CASE status = "processing"
    <3>1. seen = IF HasRequestId(r) THEN Async(RequestIdOf(r)) ELSE Unknown("none")
      BY <2>1, <2>6 DEF InterpretJson, status
    <3> QED BY <3>1, <2>3 DEF Async, Unknown, Interpretation, JobState
  <2>7. CASE status = "unknown"
    <3>1. seen = Unknown(RequestIdOf(r)) BY <2>1, <2>7 DEF InterpretJson, status
    <3> QED BY <3>1, <2>3 DEF Unknown, Interpretation, JobState
  <2>8. CASE status = "none"
    <3>1. seen = IF r.http = "ACCEPTED" /\ HasRequestId(r) THEN Async(RequestIdOf(r))
                 ELSE Unknown(RequestIdOf(r))
      BY <2>1, <2>8 DEF InterpretJson, status
    <3> QED BY <3>1, <2>3 DEF Async, Unknown, Interpretation, JobState
  <2> QED BY <2>4, <2>5, <2>6, <2>7, <2>8 DEF JobState
<1> QED BY <1>1, <1>2, <1>3, <1>4

\* A status answer that settles the job is true of it, if it says anything.
LEMMA StatusIsTrue ==
  ASSUME NEW r \in Response, NEW state, Truthful(r, state), ~SaysNothing(r),
         InterpretStatus(r) \in {"success", "fail"}
  PROVE  state = InterpretStatus(r)
<1>1. CASE r.http = "NO_CONTENT" \/ r.body.kind = "empty"
  BY <1>1 DEF InterpretStatus, Truthful, SaysDone, SaysNothing
<1>2. CASE ~(r.http = "NO_CONTENT" \/ r.body.kind = "empty")
  <2>1. InterpretStatus(r) = ProcessingStatus(r.body) BY <1>2 DEF InterpretStatus
  <2> QED BY <2>1, ProcessingStatusIsSaid DEF Truthful, Says
<1> QED BY <1>1, <1>2

LEMMA InterpretStatusType ==
  ASSUME NEW r \in Response
  PROVE  InterpretStatus(r) \in {"error", "success", "fail", "unknown", "processing"}
BY ProcessingStatusType DEF InterpretStatus, JobState

-----------------------------------------------------------------------------
(* Types *)

LEMMA MinusTypes ==
  ASSUME NEW d \in Nat
  PROVE  /\ \A t \in Times : Minus(t, d) \in Times
         /\ \A t \in 0 .. PollTimeout : Minus(t, d) \in 0 .. PollTimeout
BY TimesAssumption DEF Minus, Times

LEMMA ElapseTypes ==
  ASSUME TypeOK, NEW d \in Nat, Elapse(d)
  PROVE  tokenLeft' \in Times /\ pollLeft' \in 0 .. PollTimeout
BY MinusTypes DEF Elapse, TypeOK

LEMMA FailsTypes ==
  ASSUME TypeOK, NEW error \in Error, Fails(error)
  PROVE  /\ pc' = "done" /\ op' = op
         /\ result' \in Error \cup {"unknown"}
         /\ result' = error \/ (op = "poll" /\ result' = "unknown")
         /\ UNCHANGED <<session, template, attempt, why, before>>
BY DEF Fails, Done

\* What a 2xx answer r to the POST, read as seen, does.
Reads(seen, r, state) ==
  /\ Faithful(seen, r, state)
  /\ job' = state /\ id' = seen.id
  /\ told' = (RequestIdOf(r) = "id" /\ seen.kind # "HttpError")
  /\ \/ BeginPoll
     \/ /\ \/ seen.kind = "HttpError" /\ Done("Http") /\ op' = "submit"
           \/ Done("Config") /\ op' = "poll"
           \/ Done("unknown") /\ op' = "submit"
           \/ Done(seen.status) /\ op' = "submit"
        /\ UNCHANGED pollLeft

LEMMA SubmittedReads ==
  ASSUME Submitted
  PROVE  \E r \in Response, state \in JobState : Reads(InterpretPluSubmission(r), r, state)
<1> DEFINE Outcome(seen) == CASE seen.kind = "HttpError"            -> "Http"
                              [] seen.kind = "Async" /\ session     -> "Config"
                              [] seen.kind = "Async" /\ ~session    -> "unknown"
                              [] seen.kind \in {"Final", "Unknown"} -> seen.status
<1>1. PICK r \in Response, state \in JobState :
        LET seen == InterpretPluSubmission(r)
        IN  /\ Truthful(r, state)
            /\ job' = state
            /\ id' = seen.id
            /\ told' = (RequestIdOf(r) = "id" /\ seen.kind # "HttpError")
            /\ IF seen.kind = "Async" /\ Pollable(r)
               THEN BeginPoll
               ELSE /\ Done(Outcome(seen))
                    /\ op' = IF seen.kind = "Async" /\ session THEN "poll" ELSE "submit"
                    /\ UNCHANGED pollLeft
  BY DEF Submitted
<1> DEFINE seen == InterpretPluSubmission(r)
<1>2. Faithful(seen, r, state) BY <1>1, InterpretationFacts
<1>3. seen.kind \in {"Final", "Async", "Unknown", "HttpError"}
  BY <1>2 DEF Faithful, Interpretation
<1> HIDE DEF seen
<1>4. \/ seen.kind = "HttpError" /\ Outcome(seen) = "Http"
      \/ seen.kind = "Async" /\ session /\ Outcome(seen) = "Config"
      \/ seen.kind = "Async" /\ ~session /\ Outcome(seen) = "unknown"
      \/ seen.kind \in {"Final", "Unknown"} /\ Outcome(seen) = seen.status
  BY <1>3
<1> HIDE DEF Outcome
<1> QED BY <1>1, <1>2, <1>4 DEF Reads, seen

\* What a 2xx answer r to a status request does.
PolledTo(r) ==
  /\ AsksForNoJob \/ Truthful(r, job)
  /\ silent' = (AsksForNoJob \/ SaysNothing(r))
  /\ \/ Fails("Http")
     \/ Done(InterpretStatus(r)) /\ InterpretStatus(r) \in {"success", "fail", "unknown"} /\ UNCHANGED op
     \/ Done("timeout") /\ UNCHANGED op
     \/ /\ pc' = "sleep" /\ pollLeft' # 0
        /\ UNCHANGED <<session, template, op, attempt, why, before, result>>

LEMMA PolledReads ==
  ASSUME Polled
  PROVE  \E r \in Response : PolledTo(r)
<1>1. PICK r \in Response :
        /\ AsksForNoJob \/ Truthful(r, job)
        /\ silent' = (AsksForNoJob \/ SaysNothing(r))
        /\ CASE InterpretStatus(r) = "error" -> Fails("Http")
             [] InterpretStatus(r) \in {"success", "fail", "unknown"} ->
                  Done(InterpretStatus(r)) /\ UNCHANGED op
             [] InterpretStatus(r) = "processing" ->
                  IF pollLeft' = 0 THEN Done("timeout") /\ UNCHANGED op
                  ELSE /\ pc' = "sleep"
                       /\ UNCHANGED <<session, template, op, attempt, why, before, result>>
  BY DEF Polled, StatusResponse
<1>2. InterpretStatus(r) \in {"error", "success", "fail", "unknown", "processing"}
  BY InterpretStatusType
<1> QED BY <1>1, <1>2 DEF PolledTo

LEMMA TypeStep == ASSUME TypeOK, [Next]_vars PROVE TypeOK'
<1> USE AttemptsAssumption, TimesAssumption
<1> USE DEF TypeOK, auth
<1>1. CASE Start BY <1>1 DEF Start, TokenIssued, Times
<1>2. CASE StartFails BY <1>2 DEF StartFails, Error
<1>3. CASE BeginSubmit BY <1>3 DEF BeginSubmit
<1>4. CASE Bearer BY <1>4 DEF Bearer
<1>5. CASE RefreshSucceeds
  <2>1. PICK d \in Latencies : pollLeft' = Minus(pollLeft, d) BY <1>5 DEF RefreshSucceeds
  <2>2. d \in Nat OBVIOUS
  <2>3. pollLeft' \in 0 .. PollTimeout BY <2>1, <2>2, MinusTypes
  <2> QED BY <1>5, <2>3 DEF RefreshSucceeds, TokenIssued, Times
<1>6. CASE RefreshFails
  <2>1. PICK error \in {"Network", "Auth", "Logging"} : Fails(error) BY <1>6 DEF RefreshFails
  <2>2. error \in Error BY DEF Error
  <2> QED BY <1>6, <2>1, <2>2, FailsTypes DEF RefreshFails
<1>7. ASSUME NEW error \in Error, Fails(error), Unheard,
             \E d \in Latencies : Elapse(d),
             UNCHANGED <<lifetime, refreshes, id, told, silent>>
      PROVE  TypeOK'
  <2>1. tokenLeft' \in Times /\ pollLeft' \in 0 .. PollTimeout BY <1>7, ElapseTypes
  <2>2. job' \in JobState \cup {"none"} BY <1>7 DEF Unheard
  <2> QED BY <1>7, <2>1, <2>2, FailsTypes
<1>8. CASE NetworkError BY <1>7, <1>8 DEF NetworkError, Error
<1>9. CASE AnswerNotTaken BY <1>7, <1>9 DEF AnswerNotTaken, Error
<1>10. CASE Refused BY <1>7, <1>10 DEF Refused, Error
<1>11. CASE Unauthorized
  <2>1. tokenLeft' \in Times /\ pollLeft' \in 0 .. PollTimeout
    BY <1>11, ElapseTypes DEF Unauthorized
  <2>2. /\ session \in BOOLEAN /\ session' = session /\ template' = template
        /\ UNCHANGED <<lifetime, refreshes, id, job, told, silent>>
        /\ op' = op /\ before' = before
    BY <1>11 DEF Unauthorized, Done
  <2>3. CASE attempt = MaxAuthAttempts
    <3>1. /\ pc' = "done" /\ result' = "Auth" /\ why' = why /\ attempt' = attempt
      BY <1>11, <2>3 DEF Unauthorized, Done
    <3> QED BY <2>1, <2>2, <3>1 DEF Error
  <2>4. CASE attempt # MaxAuthAttempts
    <3>1. /\ attempt' = attempt + 1 /\ pc' = "refresh" /\ why' = "unauthorized"
          /\ result' = result
      BY <1>11, <2>4 DEF Unauthorized
    <3>2. attempt' \in 1 .. MaxAuthAttempts BY <2>4, <3>1
    <3> QED BY <2>1, <2>2, <3>1, <3>2
  <2> QED BY <2>3, <2>4
<1>12. CASE Submitted
  <2>1. tokenLeft' \in Times BY <1>12, MinusTypes DEF Submitted
  <2>2. PICK r \in Response, state \in JobState : Reads(InterpretPluSubmission(r), r, state)
    BY <1>12, SubmittedReads
  <2> DEFINE seen == InterpretPluSubmission(r)
  <2>3. /\ seen.id \in RequestIdText /\ seen.status \in JobState \cup {"unknown"}
        /\ (RequestIdOf(r) = "id" /\ seen.kind # "HttpError") \in BOOLEAN
    BY <2>2 DEF Reads, Faithful, Interpretation
  <2> HIDE DEF seen
  <2>4. job' \in JobState /\ id' \in RequestIdText /\ told' \in BOOLEAN
    BY <2>2, <2>3 DEF Reads, seen
  <2>5. CASE BeginPoll
    BY <1>12, <2>1, <2>4, <2>5 DEF Submitted, BeginPoll
  <2>6. CASE /\ \E how \in Error \cup JobState \cup {"unknown"} : Done(how)
             /\ op' \in {"submit", "poll"} /\ UNCHANGED pollLeft
    BY <1>12, <2>1, <2>4, <2>6 DEF Submitted, Done
  <2> QED BY <2>2, <2>3, <2>5, <2>6 DEF Reads, seen, Error
<1>13. CASE Polled
  <2>1. tokenLeft' \in Times /\ pollLeft' \in 0 .. PollTimeout BY <1>13, ElapseTypes DEF Polled
  <2>2. PICK r \in Response : PolledTo(r) BY <1>13, PolledReads
  <2>3. silent' \in BOOLEAN BY <2>2 DEF PolledTo, SaysNothing, AsksForNoJob
  <2> QED BY <1>13, <2>1, <2>2, <2>3, FailsTypes DEF Polled, PolledTo, Done, Error, JobState
<1>14. CASE Sleep
  <2>1. tokenLeft' \in Times /\ pollLeft' \in 0 .. PollTimeout BY <1>14, ElapseTypes DEF Sleep
  <2> QED BY <1>14, <2>1 DEF Sleep
<1>15. CASE JobEnds BY <1>15 DEF JobEnds, JobState
<1>16. CASE UNCHANGED vars BY <1>16 DEF vars
<1> QED BY <1>1, <1>2, <1>3, <1>4, <1>5, <1>6, <1>8, <1>9, <1>10, <1>11, <1>12, <1>13,
           <1>14, <1>15, <1>16 DEF Next, ClientStep

\* The state of the client keeps its types, whatever the number of attempts, the
\* lifetimes and the times: the attempts of one request never exceed their maximum.
THEOREM TypeCorrect == Spec => []TypeOK
<1>1. ASSUME Init PROVE TypeOK
  <2>1. attempt \in 1 .. MaxAuthAttempts /\ pollLeft \in 0 .. PollTimeout
    BY <1>1, AttemptsAssumption, TimesAssumption DEF Init
  <2>2. lifetime \in Times /\ tokenLeft \in Times BY <1>1 DEF Init, Times
  <2>3. refreshes \in Nat /\ before \in 0 .. refreshes BY <1>1 DEF Init
  <2> QED BY <1>1, <2>1, <2>2, <2>3 DEF Init, TypeOK, RequestIdText
<1>2. TypeOK /\ [Next]_vars => TypeOK' BY TypeStep
<1> QED BY <1>1, <1>2, PTL DEF Spec

-----------------------------------------------------------------------------
(* Refreshes *)

\* How many refreshes the current request may have made where the client stands.
Allowance ==
  CASE pc \in {"start", "idle"} -> 0
    [] pc = "bearer" -> 2 * (attempt - 1)
    [] pc = "refresh" /\ why = "proactive" -> 2 * (attempt - 1)
    [] pc = "refresh" /\ why # "proactive" -> 2 * (attempt - 1) - 1
    [] pc = "send" -> 2 * (attempt - 1) + 1
    [] pc \in {"sleep", "done"} -> 2 * attempt - 1

WithinAllowance == refreshes - before <= Allowance

LEMMA AllowanceStep ==
  ASSUME TypeOK, TypeOK', WithinAllowance, [Next]_vars
  PROVE  WithinAllowance'
<1> USE AttemptsAssumption
<1> USE DEF TypeOK, WithinAllowance, Allowance, auth
<1>1. CASE Start BY <1>1 DEF Start
<1>2. CASE StartFails BY <1>2 DEF StartFails
<1>3. CASE BeginSubmit BY <1>3 DEF BeginSubmit
<1>4. CASE Bearer BY <1>4 DEF Bearer
<1>5. CASE RefreshSucceeds BY <1>5 DEF RefreshSucceeds
<1>6. CASE RefreshFails BY <1>6, FailsTypes DEF RefreshFails, Fails, Done
<1>7. ASSUME NEW error \in Error, Fails(error), pc = "send", refreshes' = refreshes
      PROVE  WithinAllowance'
  BY <1>7 DEF Fails, Done
<1>8. CASE NetworkError BY <1>7, <1>8 DEF NetworkError, Error
<1>9. CASE AnswerNotTaken BY <1>7, <1>9 DEF AnswerNotTaken, Error
<1>10. CASE Refused BY <1>7, <1>10 DEF Refused, Error
<1>11. CASE Unauthorized
  <2>1. pc = "send" /\ refreshes' = refreshes /\ before' = before
    BY <1>11 DEF Unauthorized, Done
  <2>2. \/ pc' = "done" /\ attempt' = attempt
        \/ pc' = "refresh" /\ why' = "unauthorized" /\ attempt' = attempt + 1
    BY <1>11 DEF Unauthorized, Done
  <2> QED BY <2>1, <2>2
<1>12. CASE Submitted
  <2>1. refreshes' = refreshes /\ pc = "send" BY <1>12 DEF Submitted
  <2>2. \/ pc' = "bearer" /\ attempt' = 1 /\ before' = refreshes
        \/ pc' = "done" /\ attempt' = attempt /\ before' = before
    BY <1>12, SubmittedReads DEF Reads, BeginPoll, Done
  <2> QED BY <2>1, <2>2
<1>13. CASE Polled
  <2>1. refreshes' = refreshes /\ pc = "send" BY <1>13 DEF Polled
  <2>2. pc' \in {"sleep", "done"} /\ attempt' = attempt /\ before' = before
    BY <1>13, PolledReads DEF PolledTo, Fails, Done
  <2> QED BY <2>1, <2>2
<1>14. CASE Sleep BY <1>14 DEF Sleep
<1>15. CASE JobEnds BY <1>15 DEF JobEnds
<1>16. CASE UNCHANGED vars BY <1>16 DEF vars
<1> QED BY <1>1, <1>2, <1>3, <1>4, <1>5, <1>6, <1>8, <1>9, <1>10, <1>11, <1>12, <1>13,
           <1>14, <1>15, <1>16 DEF Next, ClientStep

\* One request asks for at most two tokens per attempt, one before it is sent and
\* one after HTTP 401, however short the lifetimes DIGIweb gives them.
THEOREM BoundedRefreshes == Spec => []RefreshesAreBounded
<1>1. Init => WithinAllowance BY DEF Init, WithinAllowance, Allowance
<1>2. TypeOK /\ TypeOK' /\ WithinAllowance /\ [Next]_vars => WithinAllowance' BY AllowanceStep
<1>3. TypeOK /\ WithinAllowance => RefreshesAreBounded
  BY AttemptsAssumption DEF TypeOK, WithinAllowance, Allowance, RefreshesAreBounded
<1> QED BY TypeCorrect, <1>1, <1>2, <1>3, PTL DEF Spec

-----------------------------------------------------------------------------
(* What the caller is told *)

Unfinished == pc # "done" => result = "none"

TruthStep == ResultIsTrue /\ Unfinished

LEMMA TruthIsKept ==
  ASSUME TypeOK, TruthStep, [Next]_vars
  PROVE  TruthStep'
<1> USE DEF TruthStep, ResultIsTrue, Unfinished, TypeOK
<1>1. CASE Start BY <1>1 DEF Start
<1>2. CASE StartFails BY <1>2 DEF StartFails
<1>3. CASE BeginSubmit BY <1>3 DEF BeginSubmit
<1>4. CASE Bearer BY <1>4 DEF Bearer
<1>5. CASE RefreshSucceeds BY <1>5 DEF RefreshSucceeds
<1>6. ASSUME NEW error \in Error, Fails(error) PROVE TruthStep'
  BY <1>6, FailsTypes DEF Error
<1>7. CASE RefreshFails BY <1>6, <1>7 DEF RefreshFails, Error
<1>8. CASE NetworkError BY <1>6, <1>8 DEF NetworkError, Error
<1>9. CASE AnswerNotTaken BY <1>6, <1>9 DEF AnswerNotTaken, Error
<1>10. CASE Refused BY <1>6, <1>10 DEF Refused, Error
<1>11. CASE Unauthorized
  <2>1. \/ pc' = "done" /\ result' = "Auth"
        \/ pc' # "done" /\ result' = result /\ pc = "send"
    BY <1>11 DEF Unauthorized, Done
  <2> QED BY <2>1
<1>12. CASE Submitted
  <2>1. PICK r \in Response, state \in JobState : Reads(InterpretPluSubmission(r), r, state)
    BY <1>12, SubmittedReads
  <2> DEFINE seen == InterpretPluSubmission(r)
  <2>2. seen.status \in {"success", "fail"} => job' = seen.status
    BY <2>1 DEF Reads, Faithful
  <2>3. \/ pc' = "bearer" /\ result' = result
        \/ pc' = "done" /\ result' \in {"Http", "Config", "unknown"}
        \/ pc' = "done" /\ result' = seen.status
    BY <2>1 DEF Reads, BeginPoll, Done
  <2>4. pc = "send" BY <1>12 DEF Submitted
  <2> HIDE DEF seen
  <2> QED BY <2>2, <2>3, <2>4
<1>13. CASE Polled
  <2>1. PICK r \in Response : PolledTo(r) BY <1>13, PolledReads
  <2>2. InterpretStatus(r) \in {"success", "fail"} => job = InterpretStatus(r) \/ silent'
    BY <2>1, StatusIsTrue DEF PolledTo
  <2>3. pc = "send" /\ job' = job BY <1>13 DEF Polled
  <2>4. CASE Fails("Http") BY <1>6, <2>4 DEF Error
  <2>5. CASE Done(InterpretStatus(r)) BY <2>2, <2>3, <2>5 DEF Done
  <2>6. CASE Done("timeout") BY <2>6 DEF Done
  <2>7. CASE pc' = "sleep" /\ result' = result BY <2>3, <2>7
  <2> QED BY <2>1, <2>4, <2>5, <2>6, <2>7 DEF PolledTo
<1>14. CASE Sleep BY <1>14 DEF Sleep
<1>15. CASE JobEnds BY <1>15 DEF JobEnds
<1>16. CASE UNCHANGED vars BY <1>16 DEF vars
<1> QED BY <1>1, <1>2, <1>3, <1>4, <1>5, <1>7, <1>8, <1>9, <1>10, <1>11, <1>12, <1>13,
           <1>14, <1>15, <1>16 DEF Next, ClientStep

\* SUCCESS and FAIL, which are final in the manifest, are so of the job, in whatever
\* form DIGIweb says it and however submission and polling interleave with the job,
\* unless a status answer that said nothing of the job was read as its end.
THEOREM ResultTrue == Spec => []ResultIsTrue
<1>1. Init => TruthStep BY DEF Init, TruthStep, ResultIsTrue, Unfinished
<1>2. TypeOK /\ TruthStep /\ [Next]_vars => TruthStep' BY TruthIsKept
<1>3. TruthStep => ResultIsTrue BY DEF TruthStep
<1> QED BY TypeCorrect, <1>1, <1>2, <1>3, PTL DEF Spec

-----------------------------------------------------------------------------
(* The request id *)

\* A request that was named is being polled; before the first POST none is.
IdInv ==
  /\ RequestIdIsKept
  /\ Unfinished
  /\ told /\ pc # "done" => op = "poll"
  /\ pc \in {"start", "idle"} => op = "submit"

LEMMA IdInvStep ==
  ASSUME TypeOK, IdInv, [Next]_vars
  PROVE  IdInv'
<1> USE DEF IdInv, RequestIdIsKept, Unfinished, TypeOK
<1>1. CASE Start BY <1>1 DEF Start
<1>2. CASE StartFails BY <1>2 DEF StartFails
<1>3. CASE BeginSubmit BY <1>3 DEF BeginSubmit
<1>4. CASE Bearer BY <1>4 DEF Bearer
<1>5. CASE RefreshSucceeds BY <1>5 DEF RefreshSucceeds
<1>6. ASSUME NEW error \in Error, Fails(error), pc # "done", UNCHANGED <<id, told>>
      PROVE  IdInv'
  BY <1>6, FailsTypes
<1>7. CASE RefreshFails BY <1>6, <1>7 DEF RefreshFails, Error
<1>8. CASE NetworkError BY <1>6, <1>8 DEF NetworkError, Error
<1>9. CASE AnswerNotTaken BY <1>6, <1>9 DEF AnswerNotTaken, Error
<1>10. CASE Refused BY <1>6, <1>10 DEF Refused, Error
<1>11. CASE Unauthorized
  <2>1. pc = "send" /\ op' = op /\ id' = id /\ told' = told
    BY <1>11 DEF Unauthorized
  <2>2. \/ pc' = "done"
        \/ pc' = "refresh" /\ result' = result
    BY <1>11 DEF Unauthorized, Done
  <2> QED BY <2>1, <2>2
<1>12. CASE Submitted
  <2>1. PICK r \in Response, state \in JobState : Reads(InterpretPluSubmission(r), r, state)
    BY <1>12, SubmittedReads
  <2> DEFINE seen == InterpretPluSubmission(r)
  <2>2. told' => id' = "id" /\ seen.kind # "HttpError" BY <2>1 DEF Reads, Faithful
  <2>3. seen.status \notin Error BY <2>1 DEF Reads, Faithful, Interpretation, JobState, Error
  <2>4. \/ pc' = "bearer" /\ op' = "poll" /\ result' = result
        \/ pc' = "done" /\ seen.kind = "HttpError"
        \/ pc' = "done" /\ op' = "poll"
        \/ pc' = "done" /\ result' \in {"unknown", seen.status}
    BY <2>1 DEF Reads, BeginPoll, Done
  <2>5. pc = "send" BY <1>12 DEF Submitted
  <2>6. told' \in BOOLEAN /\ "unknown" \notin Error BY <2>1 DEF Reads, Error
  <2> HIDE DEF seen
  <2> QED BY <2>2, <2>3, <2>4, <2>5, <2>6 DEF Error
<1>13. CASE Polled
  <2>1. pc = "send" /\ op = "poll" /\ id' = id /\ told' = told BY <1>13 DEF Polled
  <2>2. /\ op' = op
        /\ \/ pc' = "done"
           \/ pc' = "sleep" /\ result' = result
    BY <1>13, PolledReads DEF PolledTo, Fails, Done
  <2> QED BY <2>1, <2>2
<1>14. CASE Sleep BY <1>14 DEF Sleep
<1>15. CASE JobEnds BY <1>15 DEF JobEnds
<1>16. CASE UNCHANGED vars BY <1>16 DEF vars
<1> QED BY <1>1, <1>2, <1>3, <1>4, <1>5, <1>7, <1>8, <1>9, <1>10, <1>11, <1>12, <1>13,
           <1>14, <1>15, <1>16 DEF Next, ClientStep

\* A request id that DIGIweb gave in an answer that could be read is with the
\* caller, and what fails from then on is a failure to poll.
THEOREM IdKept == Spec => []RequestIdIsKept
<1>1. Init => IdInv BY DEF Init, IdInv, RequestIdIsKept, Unfinished
<1>2. TypeOK /\ IdInv /\ [Next]_vars => IdInv' BY IdInvStep
<1>3. IdInv => RequestIdIsKept BY DEF IdInv
<1> QED BY TypeCorrect, <1>1, <1>2, <1>3, PTL DEF Spec

-----------------------------------------------------------------------------
(* The token *)

\* A token that is about to be used lives longer than the skew, or never did.
FreshEnough == tokenLeft = Never \/ tokenLeft > Skew \/ lifetime <= Skew

FreshWhenSent == pc = "send" /\ session => FreshEnough

LEMMA FreshStep ==
  ASSUME TypeOK, FreshWhenSent, [Next]_vars
  PROVE  FreshWhenSent'
<1> USE TimesAssumption
<1> USE DEF FreshWhenSent, FreshEnough, TypeOK, auth
<1>1. CASE Bearer BY <1>1 DEF Bearer, TokenNeedsProactiveRefresh, Times
<1>2. CASE RefreshSucceeds
  <2>1. PICK life \in Lifetimes : lifetime' = life /\ tokenLeft' = life
    BY <1>2 DEF RefreshSucceeds, TokenIssued
  <2>2. life = Never \/ life > Skew \/ life <= Skew OBVIOUS
  <2> QED BY <2>1, <2>2
<1>3. CASE JobEnds BY <1>3 DEF JobEnds
<1>4. CASE UNCHANGED vars BY <1>4 DEF vars
<1>5. CASE Start \/ StartFails \/ BeginSubmit \/ RefreshFails \/ NetworkError
             \/ AnswerNotTaken \/ Refused \/ Sleep
  BY <1>5 DEF Start, StartFails, BeginSubmit, RefreshFails, NetworkError, AnswerNotTaken,
              Refused, Sleep, Fails, Done
<1>6. CASE Unauthorized BY <1>6 DEF Unauthorized, Done
<1>7. CASE Submitted
  <2>1. pc' # "send" BY <1>7, SubmittedReads DEF Reads, BeginPoll, Done
  <2> QED BY <2>1
<1>8. CASE Polled
  <2>1. pc' # "send" BY <1>8, PolledReads DEF PolledTo, Fails, Done
  <2> QED BY <2>1
<1> QED BY <1>1, <1>2, <1>3, <1>4, <1>5, <1>6, <1>7, <1>8 DEF Next, ClientStep

TokenLasts ==
  pc = "send" /\ pc' # "send" /\ session => tokenLeft' = Never \/ tokenLeft' > 0 \/ lifetime <= Skew

LEMMA RequestTime ==
  ASSUME pc = "send", pc' # "send", [Next]_vars
  PROVE  \E d \in Latencies : tokenLeft' = Minus(tokenLeft, d)
BY DEF Next, ClientStep, Start, StartFails, BeginSubmit, Bearer, RefreshSucceeds, RefreshFails,
       NetworkError, AnswerNotTaken, Unauthorized, Refused, Submitted, Polled, Sleep, JobEnds,
       Elapse, vars

\* When no request takes longer than the skew, a token of an AuthSession does not
\* expire on a request that carries it, unless it was issued with no more than the
\* skew to live.
THEOREM TokenOutlives ==
  ASSUME \A d \in Latencies : d <= Skew
  PROVE  Spec => TokenOutlivesItsRequest
<1>1. Init => FreshWhenSent BY DEF Init, FreshWhenSent
<1>2. TypeOK /\ FreshWhenSent /\ [Next]_vars => FreshWhenSent' BY FreshStep
<1>3. TypeOK /\ FreshWhenSent /\ [Next]_vars => TokenLasts
  <2> SUFFICES ASSUME TypeOK, FreshWhenSent, [Next]_vars, pc = "send", pc' # "send", session
               PROVE  tokenLeft' = Never \/ tokenLeft' > 0 \/ lifetime <= Skew
    BY DEF TokenLasts
  <2>1. PICK d \in Latencies : tokenLeft' = Minus(tokenLeft, d) BY RequestTime
  <2>2. d \in Nat /\ Skew \in Nat /\ d <= Skew BY TimesAssumption
  <2> QED BY <2>1, <2>2 DEF FreshWhenSent, FreshEnough, TypeOK, Times, Minus
<1>4. TokenLasts => [TokenLasts]_vars OBVIOUS
<1> QED BY TypeCorrect, <1>1, <1>2, <1>3, PTL DEF Spec, TokenOutlivesItsRequest, TokenLasts

-----------------------------------------------------------------------------
(* How long an operation can last: the safety half of OperationEnds.         *)

\* What one request may cost: for each of its attempts a refresh after HTTP 401, a look
\* at the token, a refresh before it expires, and the request.
StepsPerRequest == 4 * MaxAuthAttempts

\* How far the client is with its request, counted down.
StepsAt(at, reason, attempts) ==
  CASE at = "start"   -> 1
    [] at = "refresh" -> 4 * (MaxAuthAttempts - attempts) + (IF reason = "proactive" THEN 2 ELSE 4)
    [] at = "bearer"  -> 4 * (MaxAuthAttempts - attempts) + 3
    [] at = "send"    -> 4 * (MaxAuthAttempts - attempts) + 1
    [] OTHER          -> 0

\* The requests that may still be made: the one to submit, and a poll for each unit of
\* time that is left of the polling.
RequestsAt(at, what, left) ==
  CASE at \in {"start", "idle"}    -> PollTimeout + 2
    [] at = "done"                 -> 0
    [] at = "sleep"                -> left
    [] OTHER                       -> IF what = "submit" THEN PollTimeout + 1 ELSE left

StepsOnRequest == StepsAt(pc, why, attempt)

RequestsLeft == RequestsAt(pc, op, pollLeft)

StepsLeft == RequestsLeft * StepsPerRequest + StepsOnRequest

\* A sleeping client polls, and has time left for it.
SleepsInTime == pc = "sleep" => pollLeft > 0 /\ op = "poll"

\* Fewer requests, or no more of them and nearer to the end of this one.
LEMMA Lexicographic ==
  ASSUME NEW m \in Nat, NEW n \in Nat, NEW k \in Nat, NEW v \in Nat, NEW w \in Nat,
         (m < n /\ v < k + w) \/ (m <= n /\ v < w)
  PROVE  m * k + v < n * k + w
<1>1. CASE m = n BY <1>1
<1>2. CASE m < n
  <2>1. PICK d \in Nat : n = m + 1 + d
    <3>1. n - m - 1 \in Nat /\ n = m + 1 + (n - m - 1) BY <1>2
    <3> QED BY <3>1
  <2>2. n * k = m * k + k + d * k BY <2>1
  <2>3. m * k \in Nat /\ d * k \in Nat OBVIOUS
  <2> QED BY <1>2, <2>2, <2>3
<1> QED BY <1>1, <1>2

LEMMA StepsType ==
  ASSUME NEW at, NEW reason, NEW what, NEW attempts \in 1 .. MaxAuthAttempts,
         NEW left \in 0 .. PollTimeout
  PROVE  /\ StepsPerRequest \in Nat /\ StepsPerRequest >= 4
         /\ StepsAt(at, reason, attempts) \in 0 .. StepsPerRequest
         /\ RequestsAt(at, what, left) \in Nat
         /\ RequestsAt(at, what, left) * StepsPerRequest \in Nat
         /\ RequestsAt(at, what, left) * StepsPerRequest + StepsAt(at, reason, attempts) \in Nat
<1>1. StepsPerRequest \in Nat /\ StepsPerRequest >= 4 BY AttemptsAssumption DEF StepsPerRequest
<1>2. StepsAt(at, reason, attempts) \in 0 .. StepsPerRequest
  BY AttemptsAssumption DEF StepsAt, StepsPerRequest
<1>3. RequestsAt(at, what, left) \in Nat BY TimesAssumption DEF RequestsAt
<1> HIDE DEF StepsPerRequest, StepsAt, RequestsAt
<1>4. RequestsAt(at, what, left) * StepsPerRequest \in Nat BY <1>1, <1>3
<1> QED BY <1>1, <1>2, <1>3, <1>4

LEMMA StepsFacts ==
  /\ TypeOK =>
       /\ StepsPerRequest \in Nat /\ StepsPerRequest >= 4
       /\ RequestsLeft \in Nat /\ StepsOnRequest \in 0 .. StepsPerRequest /\ StepsLeft \in Nat
  /\ TypeOK' =>
       RequestsLeft' \in Nat /\ StepsOnRequest' \in 0 .. StepsPerRequest /\ StepsLeft' \in Nat
BY StepsType DEF TypeOK, StepsOnRequest, RequestsLeft, StepsLeft

LEMMA NoStepsMeansDone ==
  ASSUME TypeOK, SleepsInTime
  PROVE  StepsLeft = 0 <=> pc = "done"
<1>1. pc # "done" => RequestsLeft > 0 \/ StepsOnRequest > 0
  BY AttemptsAssumption, TimesAssumption
     DEF TypeOK, SleepsInTime, RequestsLeft, RequestsAt, StepsOnRequest, StepsAt
<1>2. pc = "done" => RequestsLeft = 0 /\ StepsOnRequest = 0
  BY DEF RequestsLeft, RequestsAt, StepsOnRequest, StepsAt
<1>3. /\ RequestsLeft \in Nat /\ StepsOnRequest \in Nat
      /\ StepsPerRequest \in Nat /\ StepsPerRequest >= 4
  BY StepsFacts
<1> HIDE DEF RequestsLeft, StepsOnRequest, StepsPerRequest
<1>4. CASE RequestsLeft > 0
  <2>1. 0 * StepsPerRequest + 0 < RequestsLeft * StepsPerRequest + StepsOnRequest
    BY <1>3, <1>4, Lexicographic
  <2> QED BY <1>2, <1>3, <1>4, <2>1 DEF StepsLeft
<1>5. CASE RequestsLeft = 0 BY <1>1, <1>2, <1>3, <1>5 DEF StepsLeft
<1> QED BY <1>3, <1>4, <1>5

\* How a step comes nearer to the end.
Nearer ==
  \/ pc # "done" /\ pc' = "done"
  \/ RequestsLeft' < RequestsLeft /\ StepsOnRequest' < StepsPerRequest
  \/ RequestsLeft' <= RequestsLeft /\ StepsOnRequest' < StepsOnRequest

LEMMA NearerIsLess ==
  ASSUME TypeOK, TypeOK', SleepsInTime, Nearer
  PROVE  StepsLeft' < StepsLeft
<1>1. /\ StepsPerRequest \in Nat /\ StepsLeft \in Nat
      /\ RequestsLeft \in Nat /\ StepsOnRequest \in Nat
      /\ RequestsLeft' \in Nat /\ StepsOnRequest' \in Nat
  BY StepsFacts
<1>2. CASE pc # "done" /\ pc' = "done"
  <2>1. StepsLeft # 0 BY <1>2, NoStepsMeansDone
  <2>2. RequestsLeft' = 0 /\ StepsOnRequest' = 0
    BY <1>2 DEF RequestsLeft, RequestsAt, StepsOnRequest, StepsAt
  <2> HIDE DEF RequestsLeft, StepsOnRequest, StepsPerRequest
  <2>3. StepsLeft' = 0 BY <1>1, <2>2 DEF StepsLeft
  <2> QED BY <1>1, <2>1, <2>3
<1>3. CASE \/ RequestsLeft' < RequestsLeft /\ StepsOnRequest' < StepsPerRequest
           \/ RequestsLeft' <= RequestsLeft /\ StepsOnRequest' < StepsOnRequest
  <2> HIDE DEF RequestsLeft, StepsOnRequest, StepsPerRequest
  <2>1. \/ RequestsLeft' < RequestsLeft /\ StepsOnRequest' < StepsPerRequest + StepsOnRequest
        \/ RequestsLeft' <= RequestsLeft /\ StepsOnRequest' < StepsOnRequest
    BY <1>1, <1>3
  <2>2. PICK m \in Nat, n \in Nat, v \in Nat, w \in Nat :
          m = RequestsLeft' /\ n = RequestsLeft /\ v = StepsOnRequest' /\ w = StepsOnRequest
    BY <1>1
  <2>3. PICK k \in Nat : k = StepsPerRequest BY <1>1
  <2>4. (m < n /\ v < k + w) \/ (m <= n /\ v < w) BY <2>1, <2>2, <2>3
  <2>5. m * k + v < n * k + w BY <2>4, Lexicographic
  <2> QED BY <2>2, <2>3, <2>5 DEF StepsLeft
<1> QED BY <1>2, <1>3 DEF Nearer

LEMMA MinusFalls ==
  ASSUME NEW t \in Nat, NEW d \in Nat
  PROVE  Minus(t, d) <= t /\ (t > 0 /\ d > 0 => Minus(t, d) < t)
BY TimesAssumption DEF Minus

LEMMA ClientStepIsNearer ==
  ASSUME TypeOK, TypeOK', SleepsInTime, ClientStep
  PROVE  Nearer
<1> USE AttemptsAssumption, TimesAssumption
<1> USE DEF StepsOnRequest, StepsAt, RequestsLeft, RequestsAt, StepsPerRequest
<1>1. /\ attempt \in 1 .. MaxAuthAttempts /\ attempt' \in 1 .. MaxAuthAttempts
      /\ pollLeft \in 0 .. PollTimeout /\ pollLeft' \in 0 .. PollTimeout
      /\ op \in {"submit", "poll"}
  BY DEF TypeOK
<1>2. CASE StartFails \/ RefreshFails \/ NetworkError \/ AnswerNotTaken \/ Refused
  BY <1>2 DEF StartFails, RefreshFails, NetworkError, AnswerNotTaken, Refused, Fails, Done, Nearer
<1>3. CASE Start BY <1>1, <1>3 DEF Start, Nearer
<1>4. CASE BeginSubmit BY <1>1, <1>4 DEF BeginSubmit, Nearer
<1>5. CASE Bearer BY <1>1, <1>5 DEF Bearer, Nearer
<1>6. CASE RefreshSucceeds
  <2>1. PICK d \in Latencies : pollLeft' = Minus(pollLeft, d) BY <1>6 DEF RefreshSucceeds
  <2>2. d \in Nat OBVIOUS
  <2>3. pollLeft' <= pollLeft BY <1>1, <2>1, <2>2, MinusFalls
  <2>4. /\ pc = "refresh" /\ op' = op /\ attempt' = attempt
        /\ pc' = IF why = "proactive" THEN "send" ELSE "bearer"
    BY <1>6 DEF RefreshSucceeds
  <2> QED BY <1>1, <2>3, <2>4 DEF Nearer
<1>7. CASE Unauthorized
  <2>1. PICK d \in Latencies : pollLeft' = Minus(pollLeft, d)
    BY <1>7 DEF Unauthorized, Elapse
  <2>2. d \in Nat OBVIOUS
  <2>3. pollLeft' <= pollLeft BY <1>1, <2>1, <2>2, MinusFalls
  <2>4. pc = "send" BY <1>7 DEF Unauthorized
  <2>5. \/ pc' = "done"
        \/ /\ op' = op /\ attempt' = attempt + 1 /\ pc' = "refresh" /\ why' = "unauthorized"
    BY <1>7 DEF Unauthorized, Done
  <2> QED BY <1>1, <2>3, <2>4, <2>5 DEF Nearer
<1>8. CASE Submitted
  <2>1. pc = "send" /\ op = "submit" BY <1>8 DEF Submitted
  <2>2. \/ pc' = "done"
        \/ pc' = "bearer" /\ op' = "poll" /\ attempt' = 1 /\ pollLeft' = PollTimeout
    BY <1>8, SubmittedReads DEF Reads, BeginPoll, Done
  <2> QED BY <1>1, <2>1, <2>2 DEF Nearer
<1>9. CASE Polled
  <2>1. PICK d \in Latencies : pollLeft' = Minus(pollLeft, d) BY <1>9 DEF Polled, Elapse
  <2>2. d \in Nat OBVIOUS
  <2>3. pollLeft' <= pollLeft BY <1>1, <2>1, <2>2, MinusFalls
  <2>4. pc = "send" /\ op = "poll" BY <1>9 DEF Polled
  <2>5. pc' \in {"sleep", "done"} BY <1>9, PolledReads DEF PolledTo, Fails, Done
  <2> QED BY <1>1, <2>3, <2>4, <2>5 DEF Nearer
<1>10. CASE Sleep
  <2>1. /\ pc = "sleep" /\ pc' = "bearer" /\ attempt' = 1
        /\ pollLeft' = Minus(pollLeft, PollInterval)
    BY <1>10 DEF Sleep, Elapse
  <2>2. pollLeft > 0 /\ op = "poll" BY <2>1 DEF SleepsInTime
  <2>3. pollLeft' < pollLeft BY <1>1, <2>1, <2>2, MinusFalls
  <2>4. op' = op BY <1>10 DEF Sleep
  <2> QED BY <1>1, <2>1, <2>2, <2>3, <2>4 DEF Nearer
<1> QED BY <1>2, <1>3, <1>4, <1>5, <1>6, <1>7, <1>8, <1>9, <1>10 DEF ClientStep

LEMMA SleepsInTimeStep == ASSUME TypeOK, TypeOK', SleepsInTime, [Next]_vars PROVE SleepsInTime'
<1>1. CASE Polled
  <2>1. pc' = "sleep" => pollLeft' # 0 /\ op' = "poll"
    BY <1>1, PolledReads DEF Polled, PolledTo, Fails, Done
  <2> QED BY <2>1 DEF SleepsInTime, TypeOK
<1>2. CASE Submitted
  <2>1. pc' # "sleep" BY <1>2, SubmittedReads DEF Reads, BeginPoll, Done
  <2> QED BY <2>1 DEF SleepsInTime
<1>3. CASE JobEnds \/ UNCHANGED vars BY <1>3 DEF JobEnds, vars, SleepsInTime
<1>4. CASE ClientStep /\ ~Polled /\ ~Submitted
  <2>1. pc' # "sleep"
    BY <1>4 DEF ClientStep, Start, StartFails, BeginSubmit, Bearer, RefreshSucceeds,
       RefreshFails, NetworkError, AnswerNotTaken, Unauthorized, Refused, Sleep, Fails, Done
  <2> QED BY <2>1 DEF SleepsInTime
<1> QED BY <1>1, <1>2, <1>3, <1>4 DEF Next

\* Submitting a PLU and polling its job has a bounded number of steps left, none only
\* when it has ended; every step of the client uses up one at least, and what DIGIweb
\* does meanwhile gives it no more: retries, refreshes and polls cannot go on for ever.
StepsRunOut ==
  [][/\ ClientStep => StepsLeft' < StepsLeft
     /\ StepsLeft' <= StepsLeft]_vars

THEOREM OperationsAreBounded == Spec => [](StepsLeft \in Nat /\ (StepsLeft = 0 <=> pc = "done"))
                                        /\ StepsRunOut
<1>1. Init => SleepsInTime BY DEF Init, SleepsInTime
<1>2. TypeOK /\ TypeOK' /\ SleepsInTime /\ [Next]_vars => SleepsInTime' BY SleepsInTimeStep
<1>3. TypeOK /\ SleepsInTime => StepsLeft \in Nat /\ (StepsLeft = 0 <=> pc = "done")
  BY StepsFacts, NoStepsMeansDone
<1>4. TypeOK /\ TypeOK' /\ SleepsInTime /\ [Next]_vars =>
        [/\ ClientStep => StepsLeft' < StepsLeft
         /\ StepsLeft' <= StepsLeft]_vars
  <2> SUFFICES ASSUME TypeOK, TypeOK', SleepsInTime, Next
               PROVE  (ClientStep => StepsLeft' < StepsLeft) /\ StepsLeft' <= StepsLeft
    OBVIOUS
  <2>1. StepsLeft \in Nat /\ StepsLeft' \in Nat BY StepsFacts
  <2>2. ClientStep => StepsLeft' < StepsLeft BY ClientStepIsNearer, NearerIsLess
  <2>3. CASE JobEnds
    <3>1. pc' = pc /\ op' = op /\ attempt' = attempt /\ why' = why /\ pollLeft' = pollLeft
      BY <2>3 DEF JobEnds
    <3>2. StepsLeft' = StepsLeft BY <3>1 DEF StepsLeft, RequestsLeft, StepsOnRequest
    <3> QED BY <2>1, <2>2, <3>2
  <2> QED BY <2>1, <2>2, <2>3 DEF Next
<1> QED BY TypeCorrect, <1>1, <1>2, <1>3, <1>4, PTL DEF Spec, StepsRunOut
=============================================================================

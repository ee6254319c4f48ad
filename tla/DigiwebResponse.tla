--------------------------- MODULE DigiwebResponse ---------------------------
(***************************************************************************)
(* How src/src/digiweb/client.rs reads DIGIweb's answers.  Of a response   *)
(* is kept what the interpretation tells apart: the class of the HTTP      *)
(* status, the request id a header carries, whether the answer has a place *)
(* to look for its status, and of the body whether it is empty, an HTML    *)
(* page, not JSON, or JSON with a request id, a status and a state.        *)
(***************************************************************************)
EXTENDS Naturals

\* The statuses of an answer that is read at all: is_success.
HttpStatus == {"OK", "CREATED", "ACCEPTED", "NO_CONTENT", "OTHER_SUCCESS"}

\* The text of a status field, by the arm of parse_processing_status it takes;
\* "absent" is a field that is missing or blank, "other" one that is not known.
StatusText == {"absent", "success", "fail", "processing", "unknown", "other"}

JobState == {"processing", "success", "fail"}

\* request_id_header: the first header there is, as it stands.  A blank one is an
\* id to the program, Some(""), and hides those after it; blank ids of a JSON body
\* are passed over.
RequestIdText == {"none", "blank", "id"}

JsonBody == [kind : {"json"}, id : BOOLEAN, status : StatusText, state : StatusText]

OtherBody == [kind : {"empty", "html", "malformed"}, id : {FALSE},
              status : {"absent"}, state : {"absent"}]

\* CapturedHttpResponse; HTTP gives a 204 no body.
Response ==
  [http : {"NO_CONTENT"}, header : RequestIdText, location : BOOLEAN,
   body : {b \in OtherBody : b.kind = "empty"}]
  \cup [http : HttpStatus \ {"NO_CONTENT"}, header : RequestIdText, location : BOOLEAN,
        body : JsonBody \cup OtherBody]

\* Of the answer to a status request, the id and the location are not looked at.
StatusResponse == {r \in Response : r.header = "none" /\ ~r.location /\ ~r.body.id}

\* The id of the body, or the header's.
RequestIdOf(r) == IF r.body.id THEN "id" ELSE r.header

HasRequestId(r) == RequestIdOf(r) # "none"

\* Mutant: a status nobody knows is a failure, as ProcessingStatus::deserialize has it.
UnknownTextIsFailure(text) ==
  IF text = "absent" THEN "none" ELSE IF text = "other" THEN "fail" ELSE text

\* parse_processing_status; "none" is None.
ParseProcessingStatus(text) ==
  IF text \in JobState \cup {"unknown"} THEN text ELSE "none"

\* status, or state if there is no status: a status that is not known hides the state.
ProcessingStatus(body) ==
  ParseProcessingStatus(IF body.status # "absent" THEN body.status ELSE body.state)

-----------------------------------------------------------------------------
(* interpret_plu_submission.  An interpretation is the outcome the caller    *)
(* sees: the kind, the id it names the request by, and its status.           *)

Interpretation == [kind   : {"Final", "Async", "Unknown", "HttpError"},
                   id     : RequestIdText,
                   status : JobState \cup {"unknown"}]

Final(id, status) == [kind |-> "Final", id |-> id, status |-> status]
Async(id)         == [kind |-> "Async", id |-> id, status |-> "processing"]
Unknown(id)       == [kind |-> "Unknown", id |-> id, status |-> "unknown"]
HttpError         == [kind |-> "HttpError", id |-> "none", status |-> "unknown"]

\* An empty body says that the work is done, unless the status is 202.
InterpretEmpty(r) ==
  IF r.http # "ACCEPTED" THEN Final(r.header, "success")
  ELSE IF r.header # "none" THEN Async(r.header) ELSE Unknown("none")

\* Mutant: the request id is looked for only where it is needed for polling.
InterpretJsonWithoutId(r) ==
  CASE ProcessingStatus(r.body) \in {"success", "fail"} ->
         Final(RequestIdOf(r), ProcessingStatus(r.body))
    [] ProcessingStatus(r.body) = "processing" ->
         IF HasRequestId(r) THEN Async(RequestIdOf(r)) ELSE Unknown("none")
    [] ProcessingStatus(r.body) = "unknown" -> Unknown("none")
    [] ProcessingStatus(r.body) = "none" ->
         IF r.http = "ACCEPTED" /\ HasRequestId(r) THEN Async(RequestIdOf(r)) ELSE Unknown("none")

InterpretJson(r) ==
  CASE ProcessingStatus(r.body) \in {"success", "fail"} ->
         Final(RequestIdOf(r), ProcessingStatus(r.body))
    [] ProcessingStatus(r.body) = "processing" ->
         IF HasRequestId(r) THEN Async(RequestIdOf(r)) ELSE Unknown("none")
    [] ProcessingStatus(r.body) = "unknown" -> Unknown(RequestIdOf(r))
    [] ProcessingStatus(r.body) = "none" ->
         IF r.http = "ACCEPTED" /\ HasRequestId(r) THEN Async(RequestIdOf(r))
         ELSE Unknown(RequestIdOf(r))

InterpretPluSubmission(r) ==
  IF r.http = "NO_CONTENT" THEN Final(r.header, "success")
  ELSE CASE r.body.kind = "empty"                  -> InterpretEmpty(r)
         [] r.body.kind \in {"html", "malformed"}  -> HttpError
         [] r.body.kind = "json"                   -> InterpretJson(r)

\* interpret_status_response: "error" is AppError::Http.
InterpretStatus(r) ==
  IF r.http = "NO_CONTENT" \/ r.body.kind = "empty" THEN "success"
  ELSE IF r.body.kind # "json" \/ ProcessingStatus(r.body) = "none" THEN "error"
  ELSE ProcessingStatus(r.body)

-----------------------------------------------------------------------------
(* DIGIweb: what a 2xx answer says of the job it is about is so.  A settled  *)
(* status is true of it, and an empty answer means that it is done, but for  *)
(* a 202 Accepted, which says no more than that the request was taken.       *)

SaysDone(r) == r.http = "NO_CONTENT" \/ (r.body.kind = "empty" /\ r.http # "ACCEPTED")

\* Both fields of a JSON body are about the same job.
Says(text, job) == text \in {"success", "fail"} => text = job

Truthful(r, job) ==
  /\ SaysDone(r) => job = "success"
  /\ Says(r.body.status, job) /\ Says(r.body.state, job)

SaysNothing(r) == r.body.kind = "empty" /\ r.http = "ACCEPTED"
=============================================================================

-------------------------- MODULE SubmissionLedger --------------------------
(***************************************************************************)
(* What an import with all its resumes promises to whoever reads the       *)
(* manifest, without runs, plans, attempts or request ids: for each record *)
(* a claim, which may lag behind DIGIweb but never runs ahead of it, and   *)
(* at most one job that is not known to have failed.                       *)
(***************************************************************************)
EXTENDS Naturals, Sequences

CONSTANT Record

VARIABLES
  claim,     \* what the manifest says of each record
  posted,    \* records with a submission on its way
  jobs       \* the jobs DIGIweb holds for each record, oldest first

vars == <<claim, posted, jobs>>

JobState == {"processing", "success", "fail"}

AllFailed(i) == \A n \in DOMAIN jobs[i] : jobs[i][n] = "fail"

Init ==
  /\ claim = [i \in Record |-> "unsent"]
  /\ posted = {}
  /\ jobs = [i \in Record |-> <<>>]

\* The record is claimed before it is sent.
Claim(i) ==
  /\ claim[i] \in {"unsent", "failed"}
  /\ claim' = [claim EXCEPT ![i] = "open"]
  /\ UNCHANGED <<posted, jobs>>

\* Only a record without a job that may still count is sent.
Send(i) ==
  /\ claim[i] = "open" /\ i \notin posted /\ AllFailed(i)
  /\ posted' = posted \cup {i}
  /\ UNCHANGED <<claim, jobs>>

Create(i) ==
  /\ i \in posted
  /\ posted' = posted \ {i}
  /\ \E state \in JobState : jobs' = [jobs EXCEPT ![i] = Append(@, state)]
  /\ UNCHANGED claim

Lose(i) ==
  /\ i \in posted
  /\ posted' = posted \ {i}
  /\ UNCHANGED <<claim, jobs>>

End(i) ==
  /\ \E n \in DOMAIN jobs[i], state \in {"success", "fail"} :
       /\ jobs[i][n] = "processing"
       /\ jobs' = [jobs EXCEPT ![i][n] = state]
  /\ UNCHANGED <<claim, posted>>

\* A claim is settled when nothing can contradict it any more.
Succeed(i) ==
  /\ claim[i] = "open"
  /\ jobs[i] # <<>> /\ jobs[i][Len(jobs[i])] = "success"
  /\ claim' = [claim EXCEPT ![i] = "done"]
  /\ UNCHANGED <<posted, jobs>>

Fail(i) ==
  /\ claim[i] = "open" /\ i \notin posted /\ AllFailed(i)
  /\ claim' = [claim EXCEPT ![i] = "failed"]
  /\ UNCHANGED <<posted, jobs>>

Next ==
  \E i \in Record :
    Claim(i) \/ Send(i) \/ Create(i) \/ Lose(i) \/ End(i) \/ Succeed(i) \/ Fail(i)

Spec == Init /\ [][Next]_vars
=============================================================================

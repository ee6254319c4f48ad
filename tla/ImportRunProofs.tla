--------------------------- MODULE ImportRunProofs ---------------------------
(***************************************************************************)
(* What holds of every import, whatever the number of records, of retries  *)
(* and of crashes: type correctness, that a run has a bounded number of    *)
(* steps, and that the items of its plan stand in one order.               *)
(***************************************************************************)
EXTENDS ImportRun, ManifestRecordProofs, WellFoundedInduction

\* What every step leaves alone of the types below is cited as TypeOK; the
\* steps of the runner are built from the pieces of the next four lemmas.

ExitKind == {"none", "ok", "unresolved", "error", "internal", "killed"}

\* While a record is being submitted or polled, cur names it.
LEMMA CurIsRecord ==
  ASSUME TypeOK, pc \in OnRecord
  PROVE  cur \in Records /\ Rec \in PluManifestRecord
BY NumRecordsAssumption DEF TypeOK, Records, Rec, ImportManifest

\* A saved record is on disk and in memory, the other records stay.
LEMMA SaveRecordType ==
  ASSUME TypeOK, NEW i \in Records, NEW r \in PluManifestRecord, SaveRecord(i, r)
  PROVE  /\ manifest' \in ImportManifest
         /\ disk' = manifest'
         /\ manifest'.records = [manifest.records EXCEPT ![i] = r]
<1>1. manifest \in ImportManifest BY DEF TypeOK
<1>2. /\ SetRecord(manifest, i, r) \in ImportManifest
      /\ SetRecord(manifest, i, r).records = [manifest.records EXCEPT ![i] = r]
  BY <1>1, SetRecordType
<1> QED BY <1>2, Recalculated DEF SaveRecord

\* The end of a process keeps the types of what it leaves.
LEMMA EndedType ==
  ASSUME TypeOK, NEW d \in ImportManifest, NEW how \in ExitKind, Ended(d, how)
  PROVE  TypeOK'
<1>1. NoReply \in Reply BY DEF NoReply, Reply
<1>2. 0 \in 0 .. NumRecords /\ 0 \in 0 .. MaxAuthAttempts
  BY NumRecordsAssumption, MaxAuthAttemptsAssumption
<1> QED BY <1>1, <1>2, FreshPlanType DEF TypeOK, Ended, ExitKind, OnRecord

\* The end of a run that reports its summary.
LEMMA EndedWithSummaryType ==
  ASSUME TypeOK, NEW m \in ImportManifest, EndedWithSummary(m)
  PROVE  TypeOK'
<1> DEFINE how == IF FinalStatusIsSuccess(m.summary) THEN "ok" ELSE "unresolved"
<1>1. how \in ExitKind BY DEF ExitKind
<1>2. Ended(m, how) BY DEF EndedWithSummary
<1> HIDE DEF how
<1> QED BY <1>1, <1>2, EndedType

\* The end of a run that fails with an internal error.
LEMMA InternalErrorType == ASSUME TypeOK, InternalError PROVE TypeOK'
<1>1. disk \in ImportManifest BY DEF TypeOK
<1>2. "internal" \in ExitKind BY DEF ExitKind
<1> QED BY <1>1, <1>2, EndedType DEF InternalError

\* The end of the work on one record.
LEMMA RecordDoneType ==
  ASSUME TypeOK, pc \in OnRecord, NEW r \in PluManifestRecord, RecordDone(r)
  PROVE  TypeOK'
<1>1. cur \in Records BY CurIsRecord
<1>2. manifest' \in ImportManifest /\ disk' = manifest'
  BY <1>1, SaveRecordType DEF RecordDone
<1>3. pc' \in {"finishing", "loop"} BY DEF RecordDone, NextStop
<1>4. NoReply \in Reply BY DEF NoReply, Reply
<1>5. 0 \in 0 .. NumRecords /\ 0 \in 0 .. MaxAuthAttempts
  BY NumRecordsAssumption, MaxAuthAttemptsAssumption
<1> QED BY <1>2, <1>3, <1>4, <1>5 DEF TypeOK, RecordDone, OnRecord, Running

\* The same, through transition_to.
LEMMA RecordDoneIfLegalType ==
  ASSUME TypeOK, pc \in OnRecord, NEW r \in PluManifestRecord, RecordDoneIfLegal(r)
  PROVE  TypeOK'
BY RecordDoneType, InternalErrorType DEF RecordDoneIfLegal

\* The end of a run that cannot authenticate.
LEMMA AuthStopsType ==
  ASSUME TypeOK, pc \in OnRecord, NEW r \in PluManifestRecord, AuthStops(r)
  PROVE  TypeOK'
<1>1. cur \in Records BY CurIsRecord
<1> DEFINE m == RecalculateSummaryForActiveRun(SetRecord(manifest, cur, r))
<1>2. manifest \in ImportManifest BY DEF TypeOK
<1>3. SetRecord(manifest, cur, r) \in ImportManifest BY <1>1, <1>2, SetRecordType
<1>4. m \in ImportManifest BY <1>3, Recalculated
<1>5. "error" \in ExitKind BY DEF ExitKind
<1>6. Ended(m, "error") \/ InternalError BY DEF AuthStops
<1> HIDE DEF m
<1> QED BY <1>4, <1>5, <1>6, EndedType, InternalErrorType

\* The beginning of a poll.
LEMMA StartPollType ==
  ASSUME TypeOK, NEW i \in Records, StartPoll(i), 
         run' = run, plan' = plan, todo' \subseteq Records, exit' = exit,
         retryRuns' = retryRuns, inflight' = inflight, remote' = remote,
         signal' \in {"unarmed", "armed", "pending"}
  PROVE  TypeOK'
<1>1. manifest.records[i] \in PluManifestRecord BY DEF TypeOK, ImportManifest
<1>2. MarkProcessing(manifest.records[i]) \in PluManifestRecord 
  <2>1. "clean" \in ErrorMessage BY DEF ErrorMessage
  <2> QED BY <1>1, <2>1, MarkFacts
<1>3. manifest' \in ImportManifest /\ disk' = manifest'
  BY <1>2, SaveRecordType DEF StartPoll
<1>4. NoReply \in Reply BY DEF NoReply, Reply
<1>5. i \in 0 .. NumRecords /\ i # 0 BY NumRecordsAssumption DEF Records
<1>6. tries' \in 0 .. MaxAuthAttempts BY MaxAuthAttemptsAssumption DEF StartPoll
<1> QED BY <1>3, <1>4, <1>5, <1>6 DEF TypeOK, StartPoll, OnRecord, Running

-----------------------------------------------------------------------------

\* A new import has the types.
LEMMA InitType == Init => TypeOK
<1> SUFFICES ASSUME Init PROVE TypeOK OBVIOUS
<1>1. manifest \in ImportManifest /\ disk \in ImportManifest
  BY NewManifestType DEF Init
<1>2. /\ run \in RunOptions
      /\ cur = 0 /\ tries = 0 /\ retryRuns = 0
  BY DEF Init, RunOptions
<1>3. NoReply \in Reply BY DEF NoReply, Reply
<1> QED BY <1>1, <1>2, <1>3, FreshPlanType, NumRecordsAssumption, RetryRunsAssumption,
           MaxAuthAttemptsAssumption
        DEF Init, TypeOK, OnRecord, Running, JobState

\* Every action preserves the types.
LEMMA StepType == TypeOK /\ [Next]_vars => TypeOK'
<1> SUFFICES ASSUME TypeOK, [Next]_vars PROVE TypeOK' OBVIOUS
<1>1. manifest \in ImportManifest /\ disk \in ImportManifest BY DEF TypeOK
<1>2. CASE Authenticated
  <2>1. plan' \in [Records -> PlanItem]
    BY <1>1, <1>2, PlanType, FreshPlanType DEF Authenticated, TypeOK, RunOptions
  <2>2. todo' \subseteq Records
    BY <1>2 DEF Authenticated, PlannedRecords
  <2> QED BY <1>2, <2>1, <2>2 DEF Authenticated, TypeOK, OnRecord, Running, digiweb
<1>3. CASE AuthenticationFails
  BY <1>1, <1>3, EndedType DEF AuthenticationFails, ExitKind
<1>4. ASSUME NEW i \in Records, SkipItem(i) PROVE TypeOK'
  <2>1. pc' \in {"finishing", "loop"} BY <1>4 DEF SkipItem
  <2> QED BY <1>4, <2>1 DEF SkipItem, TypeOK, OnRecord, Running, digiweb
<1>5. ASSUME NEW i \in Records, PollItem(i) PROVE TypeOK'
  <2>1. CASE InternalError BY <2>1, InternalErrorType
  <2>2. CASE /\ StartPoll(i)
             /\ todo' = todo \ {i}
             /\ InstallHandler
             /\ UNCHANGED <<run, plan, exit, retryRuns, inflight, remote>>
    <3>1. signal' \in {"unarmed", "armed", "pending"} BY <2>2 DEF InstallHandler, TypeOK
    <3>2. todo' \subseteq Records BY <2>2 DEF TypeOK
    <3> QED BY <2>2, <3>1, <3>2, StartPollType
  <2> QED BY <1>5, <2>1, <2>2 DEF PollItem
<1>6. ASSUME NEW i \in Records, SubmitItem(i) PROVE TypeOK'
  <2>1. CASE InternalError BY <2>1, InternalErrorType
  <2>2. CASE /\ SaveRecord(i, BeginAttempt(manifest.records[i]))
             /\ pc' = "sending" /\ cur' = i /\ tries' = 1
             /\ todo' = todo \ {i}
             /\ InstallHandler
             /\ UNCHANGED <<run, plan, exit, retryRuns, digiweb>>
    <3>1. manifest.records[i] \in PluManifestRecord BY <1>1 DEF ImportManifest
    <3>2. BeginAttempt(manifest.records[i]) \in PluManifestRecord BY <3>1, BeginAttemptFacts
    <3>3. manifest' \in ImportManifest /\ disk' = manifest' BY <2>2, <3>2, SaveRecordType
    <3>4. signal' \in {"unarmed", "armed", "pending"} BY <2>2 DEF InstallHandler, TypeOK
    <3>5. i \in 0 .. NumRecords /\ i # 0 BY NumRecordsAssumption DEF Records
    <3>6. 1 \in 0 .. MaxAuthAttempts BY MaxAuthAttemptsAssumption
    <3> QED BY <2>2, <3>3, <3>4, <3>5, <3>6 DEF TypeOK, OnRecord, Running, digiweb
  <2> QED BY <1>6, <2>1, <2>2 DEF SubmitItem
<1>7. ASSUME NEW i \in Records, InterruptItem(i) PROVE TypeOK'
  BY <1>1, <1>7, Recalculated, EndedWithSummaryType DEF InterruptItem
<1>8. CASE FinishRun
  BY <1>1, <1>8, Recalculated, EndedWithSummaryType DEF FinishRun
<1>9. CASE SendPost
  <2>1. cur \in Records BY <1>9, CurIsRecord DEF SendPost, OnRecord
  <2> QED BY <1>9, <2>1 DEF SendPost, TypeOK, OnRecord, Running
<1>10. CASE pc \in OnRecord /\ (RefreshRefused \/ RefreshUnreachable \/ RefreshUnlogged
            \/ ReceiveUnauthorized
            \/ ReceiveHttpError \/ PostNetworkError \/ ReceiveTracked \/ AfterAccepted
            \/ ReceiveUntracked \/ PollSucceeds \/ PollFails \/ PollUnresolved
            \/ PollUnauthorized)
  <2>1. cur \in Records /\ Rec \in PluManifestRecord BY <1>10, CurIsRecord
  <2>2. /\ MarkSuccess(Rec) \in PluManifestRecord
        /\ \A text \in ErrorMessage :
             /\ MarkFailed(Rec, text) \in PluManifestRecord
             /\ MarkUnknown(Rec, text) \in PluManifestRecord
             /\ MarkAmbiguous(Rec, text) \in PluManifestRecord
    <3>1. ErrorMessage # {} BY DEF ErrorMessage
    <3> QED BY <2>1, <3>1, MarkFacts
  <2>0. "clean" \in ErrorMessage /\ \A text \in Texts : text \in ErrorMessage
    BY TextsAssumption DEF ErrorMessage
  <2>3. CASE RefreshRefused \/ PollUnauthorized
    BY <1>10, <2>2, <2>0, <2>3, AuthStopsType DEF RefreshRefused, PollUnauthorized
  <2>4. CASE RefreshUnreachable \/ PostNetworkError
    BY <1>10, <2>2, <2>0, <2>4, RecordDoneType DEF RefreshUnreachable, PostNetworkError
  <2>5. CASE RefreshUnlogged \/ ReceiveHttpError \/ PollSucceeds \/ PollFails \/ PollUnresolved
    BY <1>10, <2>2, <2>0, <2>5, RecordDoneIfLegalType
    DEF RefreshUnlogged, ReceiveHttpError, PollSucceeds, PollFails, PollUnresolved
  <2>6. CASE ReceiveUntracked
    BY <1>10, <2>2, <2>0, <2>6, RecordDoneIfLegalType, RecordDoneType DEF ReceiveUntracked
  <2>7. CASE ReceiveUnauthorized
    <3>1. CASE AuthStops(MarkFailed(Rec, "clean"))
      BY <1>10, <2>0, <2>2, <3>1, AuthStopsType
    <3>2. CASE /\ tries < MaxAuthAttempts
               /\ pc' = "sending" /\ tries' = tries + 1 /\ reply' = NoReply
               /\ UNCHANGED <<disk, manifest, run, plan, todo, cur, signal, exit, retryRuns,
                              inflight, remote>>
      <4>1. NoReply \in Reply BY DEF NoReply, Reply
      <4>2. tries' \in 0 .. MaxAuthAttempts
        BY <3>2, MaxAuthAttemptsAssumption DEF TypeOK
      <4> QED BY <1>10, <3>2, <4>1, <4>2 DEF TypeOK, OnRecord, Running
    <3> QED BY <2>7, <3>1, <3>2 DEF ReceiveUnauthorized
  <2>8. CASE ReceiveTracked
    <3> DEFINE newId == IF reply.form = "blank" THEN BlankId ELSE Len(remote[cur])
               r     == MarkRequestAccepted(Rec, newId)
    <3>1. newId \in RequestId BY <2>1 DEF TypeOK, RequestId
    <3> HIDE DEF newId
    <3>2. r \in PluManifestRecord BY <2>1, <3>1, MarkRequestAcceptedFacts
    <3>3. CASE InternalError BY <3>3, InternalErrorType
    <3>4. CASE /\ SaveRecord(cur, r)
               /\ pc' = "accepted"
               /\ UNCHANGED <<run, plan, todo, cur, tries, signal, exit, retryRuns, digiweb>>
      <4>1. manifest' \in ImportManifest /\ disk' = manifest'
        BY <2>1, <3>2, <3>4, SaveRecordType
      <4> QED BY <1>10, <3>4, <4>1 DEF TypeOK, OnRecord, Running, digiweb
    <3> QED BY <2>8, <3>3, <3>4 DEF ReceiveTracked, newId
  <2>9. CASE AfterAccepted
    <3>1. CASE \/ RecordDoneIfLegal(MarkSuccess(Rec))
               \/ \E text \in Texts : \/ RecordDoneIfLegal(MarkFailed(Rec, text))
                                     \/ RecordDoneIfLegal(MarkUnknown(Rec, text))
      BY <1>10, <2>0, <2>2, <3>1, RecordDoneIfLegalType
    <3>2. CASE InternalError BY <3>2, InternalErrorType
    <3>3. CASE StartPoll(cur)
               /\ UNCHANGED <<run, plan, todo, signal, exit, retryRuns, inflight, remote>>
      <4>1. todo' \subseteq Records /\ signal' \in {"unarmed", "armed", "pending"}
        BY <3>3 DEF TypeOK
      <4> QED BY <2>1, <3>3, <4>1, StartPollType
    <3> QED BY <2>9, <3>1, <3>2, <3>3 DEF AfterAccepted
  <2> QED BY <1>10, <2>3, <2>4, <2>5, <2>6, <2>7, <2>8, <2>9
<1>11. CASE InterruptRecord
  BY <1>1, <1>11, Recalculated, EndedWithSummaryType DEF InterruptRecord
<1>12. ASSUME NEW retry \in BOOLEAN, NEW continue \in BOOLEAN, StartResume(retry, continue)
       PROVE  TypeOK'
  <2> DEFINE m == MarkRestartedTransientsAmbiguous(disk)
  <2>1. m \in ImportManifest BY <1>1, RestartFacts
  <2>2. manifest' \in {m, RecalculateSummaryForActiveRun(m)} /\ disk' = manifest'
    BY <1>12 DEF StartResume
  <2>3. manifest' \in ImportManifest /\ disk' \in ImportManifest
    BY <2>1, <2>2, Recalculated
  <2>4. retryRuns' \in 0 .. RetryRuns
    BY <1>12, RetryRunsAssumption DEF StartResume, TypeOK
  <2>5. run' \in RunOptions
    BY <1>1, <1>12 DEF StartResume, RunOptions, ImportManifest
  <2>6. /\ pc = "idle" /\ pc' = "auth" /\ exit' = "none"
        /\ UNCHANGED <<plan, todo, cur, tries, signal, digiweb>>
    BY <1>12 DEF StartResume
  <2> QED BY <2>3, <2>4, <2>5, <2>6 DEF TypeOK, OnRecord, Running, digiweb
<1>13. CASE CtrlC
  BY <1>13 DEF CtrlC, TypeOK, digiweb
<1>14. CASE Crash
  BY <1>1, <1>14, EndedType DEF Crash, ExitKind
<1>15. ASSUME NEW i \in Records, DigiwebAccepts(i) PROVE TypeOK'
  <2>1. PICK state \in JobState, form \in AnswerForms : \E status \in {state, "unknown"} :
          /\ remote' = [remote EXCEPT ![i] = Append(@, state)]
          /\ AnswerTo(i, [form |-> form, status |-> status])
    BY <1>15 DEF DigiwebAccepts
  <2>2. remote' \in [Records -> Seq(JobState)] BY <2>1 DEF TypeOK
  <2>3. reply' \in Reply
    BY <2>1, AnswerFormsAssumption DEF AnswerTo, Reply, TypeOK, AllAnswerForms
  <2> QED BY <1>15, <2>2, <2>3 DEF DigiwebAccepts, TypeOK, process
<1>16. ASSUME NEW i \in Records, DigiwebRefuses(i) PROVE TypeOK'
  <2>1. reply' \in Reply BY <1>16 DEF DigiwebRefuses, AnswerTo, Reply, TypeOK
  <2> QED BY <1>16, <2>1 DEF DigiwebRefuses, TypeOK, process
<1>17. ASSUME NEW i \in Records, PostLost(i) PROVE TypeOK'
  BY <1>17 DEF PostLost, TypeOK, process
<1>18. ASSUME NEW i \in Records, DigiwebFinishes(i) PROVE TypeOK'
  <2>1. PICK n \in DOMAIN remote[i], state \in {"success", "fail"} :
          remote' = [remote EXCEPT ![i][n] = state]
    BY <1>18 DEF DigiwebFinishes
  <2>2. remote[i] \in Seq(JobState) BY DEF TypeOK
  <2>3. [remote[i] EXCEPT ![n] = state] \in Seq(JobState) BY <2>2 DEF JobState
  <2>4. remote' \in [Records -> Seq(JobState)] BY <2>1, <2>3 DEF TypeOK
  <2> QED BY <1>18, <2>4 DEF DigiwebFinishes, TypeOK, process
<1>19. CASE UNCHANGED vars
  BY <1>19 DEF vars, process, digiweb, TypeOK
<1>20. \/ RefreshRefused \/ RefreshUnreachable \/ RefreshUnlogged
       \/ ReceiveUnauthorized \/ ReceiveHttpError
       \/ PostNetworkError \/ ReceiveTracked \/ AfterAccepted \/ ReceiveUntracked
       \/ PollSucceeds \/ PollFails \/ PollUnresolved \/ PollUnauthorized
       => pc \in OnRecord
  BY DEF RefreshRefused, RefreshUnreachable, RefreshUnlogged, ReceiveUnauthorized, ReceiveHttpError,
         PostNetworkError, ReceiveTracked, AfterAccepted, ReceiveUntracked,
         PollSucceeds, PollFails, PollUnresolved, PollUnauthorized, OnRecord
<1> QED
  BY <1>2, <1>3, <1>4, <1>5, <1>6, <1>7, <1>8, <1>9, <1>10, <1>11, <1>12, <1>13, <1>14,
     <1>15, <1>16, <1>17, <1>18, <1>19, <1>20
  DEF Next, RunnerStep, Resume, DigiwebStep

\* The importer, the manifest and DIGIweb keep their types for every number of
\* records, of retries and of authenticated attempts.
THEOREM TypeCorrect == Spec => []TypeOK
BY InitType, StepType, PTL DEF Spec

-----------------------------------------------------------------------------
(* How long a run can last: the safety half of RunEnds.  Every step of the   *)
(* runner uses up some of a number that no other step but a resume raises.   *)

\* What one record may cost: an item taken, a POST sent and answered for each
\* authenticated attempt, a request id stored, a poll.
StepsPerRecord == 2 * MaxAuthAttempts + 3

\* How far a process at a pc is with its record, counted down.
StepsAt(at, attempts) ==
  CASE at = "sending"  -> 6 + 2 * (MaxAuthAttempts - attempts)
    [] at = "awaiting" -> 5 + 2 * (MaxAuthAttempts - attempts)
    [] at = "accepted" -> 4
    [] at = "polling"  -> 3
    [] OTHER           -> 2

StepsFrom(at, items, attempts) ==
  CASE at = "idle"      -> 0
    [] at = "finishing" -> 1
    [] at = "auth"      -> NumRecords * StepsPerRecord + 3
    [] OTHER            -> Cardinality(items) * StepsPerRecord + StepsAt(at, attempts)

StepsOnRecord == StepsAt(pc, tries)

StepsLeft == StepsFrom(pc, todo, tries)

\* A product grows with its first factor, by the second for each one more.
LEMMA Products ==
  ASSUME NEW m \in Nat, NEW n \in Nat, NEW k \in Nat
  PROVE  /\ n * k \in Nat
         /\ m <= n => m * k <= n * k
         /\ m < n => m * k + k <= n * k
<1>1. CASE m = n BY <1>1
<1>2. CASE m < n
  <2>1. PICK d \in Nat : n = m + 1 + d
    <3>1. n - m - 1 \in Nat /\ n = m + 1 + (n - m - 1) BY <1>2
    <3> QED BY <3>1
  <2>2. n * k = m * k + k + d * k BY <2>1
  <2>3. m * k \in Nat /\ d * k \in Nat OBVIOUS
  <2> QED BY <1>2, <2>2, <2>3
<1> QED BY <1>1, <1>2

LEMMA StepsType ==
  ASSUME NEW at \in Running \cup {"idle"}, NEW items \in SUBSET Records,
         NEW attempts \in 0 .. MaxAuthAttempts
  PROVE  /\ StepsPerRecord \in Nat /\ NumRecords * StepsPerRecord \in Nat
         /\ IsFiniteSet(items) /\ Cardinality(items) \in Nat /\ Cardinality(items) <= NumRecords
         /\ Cardinality(items) * StepsPerRecord \in Nat
         /\ StepsAt(at, attempts) \in Nat /\ StepsAt(at, attempts) >= 2
         /\ StepsFrom(at, items, attempts) \in Nat
         /\ StepsFrom(at, items, attempts) = 0 <=> at = "idle"
<1>1. StepsPerRecord \in Nat BY MaxAuthAttemptsAssumption DEF StepsPerRecord
<1>2. /\ IsFiniteSet(items) /\ Cardinality(items) \in Nat /\ Cardinality(items) <= NumRecords
      /\ NumRecords \in Nat
  <2>1. NumRecords \in Nat BY NumRecordsAssumption
  <2>2. IsFiniteSet(Records) /\ Cardinality(Records) = NumRecords
    BY <2>1, FS_Interval DEF Records
  <2>3. IsFiniteSet(items) /\ Cardinality(items) <= NumRecords BY <2>2, FS_Subset
  <2> QED BY <2>1, <2>3, FS_CardinalityType
<1>3. StepsAt(at, attempts) \in Nat /\ StepsAt(at, attempts) >= 2
  BY MaxAuthAttemptsAssumption DEF StepsAt
<1>4. Cardinality(items) * StepsPerRecord \in Nat /\ NumRecords * StepsPerRecord \in Nat
  BY <1>1, <1>2, Products
<1> HIDE DEF StepsPerRecord, StepsAt
<1>5. StepsFrom(at, items, attempts) \in Nat /\ (StepsFrom(at, items, attempts) = 0 <=> at = "idle")
  BY <1>3, <1>4 DEF StepsFrom
<1> QED BY <1>1, <1>2, <1>3, <1>4, <1>5

\* Now, and after the step.
LEMMA StepsFacts ==
  /\ TypeOK =>
       /\ StepsPerRecord \in Nat /\ NumRecords * StepsPerRecord \in Nat
       /\ IsFiniteSet(todo) /\ Cardinality(todo) \in Nat
       /\ Cardinality(todo) * StepsPerRecord \in Nat
       /\ StepsOnRecord \in Nat /\ StepsOnRecord >= 2
       /\ StepsLeft \in Nat /\ (StepsLeft = 0 <=> pc = "idle")
  /\ TypeOK' =>
       /\ Cardinality(todo') \in Nat /\ Cardinality(todo') <= NumRecords
       /\ Cardinality(todo') * StepsPerRecord \in Nat
       /\ StepsOnRecord' \in Nat /\ StepsOnRecord' >= 2
       /\ StepsLeft' \in Nat
BY StepsType DEF TypeOK, StepsOnRecord, StepsLeft

\* The ways a step of the runner goes on: it ends the process, leaves the loop, or
\* comes nearer to the end of its record without taking another.
Nearer ==
  \/ pc # "idle" /\ pc' = "idle"
  \/ pc \in OnRecord \cup {"loop"} /\ pc' = "finishing"
  \/ /\ pc \in OnRecord /\ pc' \in OnRecord \cup {"loop"}
     /\ todo' = todo /\ StepsOnRecord' < StepsOnRecord

LEMMA NearerIsLess == ASSUME TypeOK, TypeOK', Nearer PROVE StepsLeft' < StepsLeft
<1>1. /\ StepsOnRecord \in Nat /\ StepsOnRecord >= 2 /\ StepsOnRecord' \in Nat
      /\ Cardinality(todo) * StepsPerRecord \in Nat /\ NumRecords * StepsPerRecord \in Nat
  BY StepsFacts
<1> HIDE DEF StepsPerRecord, StepsAt
<1>2. CASE pc # "idle" /\ pc' = "idle" BY <1>1, <1>2 DEF StepsLeft, StepsFrom, StepsOnRecord
<1>3. CASE pc \in OnRecord \cup {"loop"} /\ pc' = "finishing"
  BY <1>1, <1>3 DEF StepsLeft, StepsFrom, StepsOnRecord, OnRecord
<1>4. CASE /\ pc \in OnRecord /\ pc' \in OnRecord \cup {"loop"}
           /\ todo' = todo /\ StepsOnRecord' < StepsOnRecord
  BY <1>1, <1>4 DEF StepsLeft, StepsFrom, StepsOnRecord, OnRecord
<1> QED BY <1>2, <1>3, <1>4 DEF Nearer

LEMMA OutcomesAreNearer ==
  ASSUME TypeOK,
         \/ RefreshRefused \/ RefreshUnreachable \/ RefreshUnlogged
         \/ ReceiveUnauthorized \/ ReceiveHttpError
         \/ PostNetworkError \/ ReceiveTracked \/ AfterAccepted \/ ReceiveUntracked
         \/ PollSucceeds \/ PollFails \/ PollUnresolved \/ PollUnauthorized
         \/ SendPost \/ InterruptRecord
  PROVE  Nearer
<1>1. /\ pc \in OnRecord /\ pc # "idle"
      /\ tries \in 0 .. MaxAuthAttempts /\ MaxAuthAttempts \in Nat
  BY MaxAuthAttemptsAssumption
     DEF RefreshRefused, RefreshUnreachable, RefreshUnlogged, ReceiveUnauthorized, ReceiveHttpError,
         PostNetworkError, ReceiveTracked, AfterAccepted, ReceiveUntracked,
         PollSucceeds, PollFails, PollUnresolved, PollUnauthorized, SendPost,
         InterruptRecord, Waiting, OnRecord, TypeOK
<1>2. StepsOnRecord >= 3 /\ StepsOnRecord \in Nat BY <1>1 DEF StepsOnRecord, StepsAt, OnRecord
<1>3. ASSUME NEW d, NEW how, Ended(d, how) PROVE Nearer BY <1>1, <1>3 DEF Ended, Nearer
<1>4. ASSUME NEW r, RecordDone(r) PROVE Nearer
  <2>1. pc' \in {"finishing", "loop"} /\ todo' = todo BY <1>4 DEF RecordDone, NextStop
  <2>2. pc' = "loop" => StepsOnRecord' = 2 BY DEF StepsOnRecord, StepsAt
  <2> QED BY <1>1, <1>2, <2>1, <2>2 DEF Nearer
<1>5. ASSUME NEW r, RecordDoneIfLegal(r) PROVE Nearer
  BY <1>3, <1>4, <1>5 DEF RecordDoneIfLegal, InternalError
<1>6. ASSUME NEW r, AuthStops(r) PROVE Nearer BY <1>3, <1>6 DEF AuthStops, InternalError
<1>7. CASE RefreshRefused \/ RefreshUnreachable \/ RefreshUnlogged
           \/ PostNetworkError \/ ReceiveHttpError
  BY <1>4, <1>5, <1>6, <1>7
     DEF RefreshRefused, RefreshUnreachable, RefreshUnlogged, PostNetworkError, ReceiveHttpError
<1>8. CASE PollSucceeds \/ PollFails \/ PollUnresolved \/ PollUnauthorized \/ ReceiveUntracked
  BY <1>4, <1>5, <1>6, <1>8
     DEF PollSucceeds, PollFails, PollUnresolved, PollUnauthorized, ReceiveUntracked
<1>9. CASE InterruptRecord BY <1>3, <1>9 DEF InterruptRecord, EndedWithSummary
<1>10. CASE SendPost
  <2>1. pc = "sending" /\ pc' = "awaiting" /\ todo' = todo /\ tries' = tries
    BY <1>10 DEF SendPost
  <2> QED BY <1>1, <2>1 DEF Nearer, StepsOnRecord, StepsAt, OnRecord
<1>11. CASE ReceiveUnauthorized
  <2>1. CASE AuthStops(MarkFailed(Rec, "clean")) BY <1>6, <2>1
  <2>2. CASE /\ pc = "awaiting" /\ tries < MaxAuthAttempts
             /\ pc' = "sending" /\ tries' = tries + 1 /\ todo' = todo
    BY <1>1, <2>2 DEF Nearer, StepsOnRecord, StepsAt, OnRecord
  <2> QED BY <1>11, <2>1, <2>2 DEF ReceiveUnauthorized
<1>12. CASE ReceiveTracked
  <2>1. CASE InternalError BY <1>3, <2>1 DEF InternalError
  <2>2. CASE pc = "awaiting" /\ pc' = "accepted" /\ todo' = todo
    BY <1>1, <2>2 DEF Nearer, StepsOnRecord, StepsAt, OnRecord
  <2> QED BY <1>12, <2>1, <2>2 DEF ReceiveTracked
<1>13. CASE AfterAccepted
  <2>1. CASE InternalError BY <1>3, <2>1 DEF InternalError
  <2>2. CASE pc = "accepted" /\ StartPoll(cur) /\ todo' = todo
    BY <1>1, <2>2 DEF Nearer, StepsOnRecord, StepsAt, OnRecord, StartPoll
  <2> QED BY <1>5, <1>13, <2>1, <2>2 DEF AfterAccepted
<1> QED BY <1>7, <1>8, <1>9, <1>10, <1>11, <1>12, <1>13

LEMMA ItemsAreLess ==
  ASSUME TypeOK, TypeOK', NEW i \in Records, SkipItem(i) \/ PollItem(i) \/ SubmitItem(i)
  PROVE  StepsLeft' < StepsLeft
<1>1. pc = "loop" /\ i \in todo BY DEF SkipItem, PollItem, SubmitItem, IsNext
<1>2. CASE InternalError \/ pc' = "finishing"
  BY <1>1, <1>2, NearerIsLess DEF Nearer, InternalError, Ended
<1>3. CASE todo' = todo \ {i} /\ StepsOnRecord' <= StepsPerRecord + 1
           /\ pc' \in OnRecord \cup {"loop"}
  <2> DEFINE n == Cardinality(todo)
             m == Cardinality(todo')
  <2>1. n \in Nat /\ m \in Nat /\ m = n - 1 /\ StepsPerRecord \in Nat
    BY <1>1, <1>3, StepsFacts, FS_RemoveElement
  <2>2. StepsLeft = n * StepsPerRecord + 2
    BY <1>1 DEF StepsLeft, StepsFrom, StepsAt
  <2>3. StepsLeft' = m * StepsPerRecord + StepsOnRecord' /\ StepsOnRecord' \in Nat
    BY <1>3, StepsFacts DEF StepsLeft, StepsFrom, StepsOnRecord, OnRecord
  <2> HIDE DEF n, m, StepsLeft, StepsOnRecord, StepsPerRecord
  <2>4. PICK x \in Nat, y \in Nat :
          x = m * StepsPerRecord /\ y = n * StepsPerRecord /\ x + StepsPerRecord <= y
    BY <2>1, Products
  <2>5. StepsLeft = y + 2 BY <2>2, <2>4
  <2>6. PICK k \in Nat : k = StepsOnRecord' BY <2>3
  <2>7. StepsLeft' = x + k BY <2>3, <2>4, <2>6
  <2>8. k <= StepsPerRecord + 1 BY <1>3, <2>6
  <2> QED BY <2>1, <2>4, <2>5, <2>7, <2>8
<1>4. \/ InternalError \/ pc' = "finishing"
      \/ /\ todo' = todo \ {i}
         /\ pc' \in {"loop", "polling"} \/ (pc' = "sending" /\ tries' = 1)
  BY DEF SkipItem, PollItem, SubmitItem, StartPoll
<1>5. pc' \in {"loop", "polling"} \/ (pc' = "sending" /\ tries' = 1) =>
        StepsOnRecord' <= StepsPerRecord + 1 /\ pc' \in OnRecord \cup {"loop"}
  BY MaxAuthAttemptsAssumption DEF StepsOnRecord, StepsAt, StepsPerRecord, OnRecord
<1> QED BY <1>2, <1>3, <1>4, <1>5

LEMMA RunnerStepIsLess == ASSUME TypeOK, TypeOK', RunnerStep PROVE StepsLeft' < StepsLeft
<1>1. CASE Authenticated
  <2>1. pc = "auth" /\ pc' = "loop" BY <1>1 DEF Authenticated
  <2> DEFINE m == Cardinality(todo')
  <2>2. StepsPerRecord \in Nat /\ m \in Nat /\ NumRecords \in Nat /\ m <= NumRecords
    BY StepsFacts, NumRecordsAssumption
  <2>3. StepsLeft = NumRecords * StepsPerRecord + 3 BY <2>1 DEF StepsLeft, StepsFrom
  <2>4. StepsLeft' = m * StepsPerRecord + 2 BY <2>1 DEF StepsLeft, StepsFrom, StepsAt
  <2> HIDE DEF m, StepsLeft, StepsPerRecord
  <2>5. PICK x \in Nat, y \in Nat :
          x = m * StepsPerRecord /\ y = NumRecords * StepsPerRecord /\ x <= y
    BY <2>2, Products
  <2> QED BY <2>3, <2>4, <2>5
<1>2. CASE AuthenticationFails \/ FinishRun \/ \E i \in Records : InterruptItem(i)
  <2>1. Nearer
    BY <1>2 DEF AuthenticationFails, FinishRun, InterruptItem, EndedWithSummary, Ended, Nearer
  <2> QED BY <2>1, NearerIsLess
<1>3. CASE \E i \in Records : SkipItem(i) \/ PollItem(i) \/ SubmitItem(i) BY <1>3, ItemsAreLess
<1>4. CASE \/ RefreshRefused \/ RefreshUnreachable \/ RefreshUnlogged
           \/ ReceiveUnauthorized \/ ReceiveHttpError
           \/ PostNetworkError \/ ReceiveTracked \/ AfterAccepted \/ ReceiveUntracked
           \/ PollSucceeds \/ PollFails \/ PollUnresolved \/ PollUnauthorized
           \/ SendPost \/ InterruptRecord
  BY <1>4, OutcomesAreNearer, NearerIsLess
<1> QED BY <1>1, <1>2, <1>3, <1>4 DEF RunnerStep

\* A run has a bounded number of steps left, none only when it has ended; each of its
\* steps uses up one at least, and nothing that happens around it, no answer of DIGIweb,
\* no Ctrl-C, no crash, gives it more.
StepsRunOut ==
  [][/\ RunnerStep => StepsLeft' < StepsLeft
     /\ ~Resume => StepsLeft' <= StepsLeft]_vars

THEOREM RunsAreBounded == Spec => [](StepsLeft \in Nat /\ (StepsLeft = 0 <=> pc = "idle"))
                                  /\ StepsRunOut
<1>1. TypeOK => StepsLeft \in Nat /\ (StepsLeft = 0 <=> pc = "idle")
  BY StepsFacts
<1>2. TypeOK /\ TypeOK' /\ [Next]_vars =>
        [/\ RunnerStep => StepsLeft' < StepsLeft
         /\ ~Resume => StepsLeft' <= StepsLeft]_vars
  <2> SUFFICES ASSUME TypeOK, TypeOK', Next
               PROVE  /\ RunnerStep => StepsLeft' < StepsLeft
                      /\ ~Resume => StepsLeft' <= StepsLeft
    OBVIOUS
  <2>1. StepsLeft \in Nat BY StepsFacts
  <2>2. StepsLeft' \in Nat BY StepsFacts
  <2>3. CASE RunnerStep BY <2>1, <2>2, <2>3, RunnerStepIsLess
  <2>4. CASE Crash
    <3>1. Nearer BY <2>4 DEF Crash, Ended, Nearer
    <3> QED BY <2>1, <2>2, <3>1, NearerIsLess
  <2>5. CASE CtrlC \/ DigiwebStep
    <3>1. pc' = pc /\ todo' = todo /\ tries' = tries
      BY <2>5 DEF CtrlC, DigiwebStep, DigiwebAccepts, DigiwebRefuses, PostLost,
         DigiwebFinishes, process
    <3>2. StepsLeft' = StepsLeft BY <3>1 DEF StepsLeft
    <3> QED BY <2>1, <3>2, RunnerStepIsLess
  <2> QED BY <2>3, <2>4, <2>5, RunnerStepIsLess DEF Next
<1> QED BY <1>1, <1>2, TypeCorrect, PTL DEF Spec, StepsRunOut

-----------------------------------------------------------------------------
(* The loop always knows its next item *)

\* Where record i stands in the plan: by group, then by selection index.
Place(i) == plan[i].group * (NumRecords + 1) + i

LEMMA GroupType ==
  ASSUME TypeOK, NEW i \in Records
  PROVE  plan[i].group \in Nat /\ i \in Nat /\ i <= NumRecords /\ NumRecords \in Nat
<1>1. plan[i] \in PlanItem BY DEF TypeOK
<1>2. plan[i].group \in 0 .. 7 BY <1>1 DEF PlanItem
<1>3. i \in Nat /\ i <= NumRecords BY NumRecordsAssumption DEF Records
<1> QED BY <1>2, <1>3, NumRecordsAssumption

LEMMA PlacesOrder ==
  ASSUME TypeOK, NEW i \in Records, NEW j \in Records
  PROVE  /\ Place(i) \in Nat
         /\ Place(i) <= Place(j) /\ i # j =>
              \/ plan[i].group < plan[j].group
              \/ plan[i].group = plan[j].group /\ i < j
<1>1. /\ i \in Nat /\ j \in Nat /\ j <= NumRecords /\ NumRecords \in Nat
      /\ plan[i].group \in Nat /\ plan[j].group \in Nat
  BY GroupType
<1>2. PICK x \in Nat, y \in Nat :
        /\ x = plan[i].group * (NumRecords + 1) /\ y = plan[j].group * (NumRecords + 1)
        /\ plan[j].group < plan[i].group => y + (NumRecords + 1) <= x
  BY <1>1, Products
<1>3. Place(i) = x + i /\ Place(j) = y + j BY <1>2 DEF Place
<1>4. plan[i].group = plan[j].group => x = y BY <1>2
<1>5. Place(i) \in Nat /\ Place(j) \in Nat BY <1>1, <1>2, <1>3
<1>6. ASSUME Place(i) <= Place(j) PROVE ~ (plan[j].group < plan[i].group)
  <2>1. x + i <= y + j BY <1>3, <1>6
  <2> QED BY <1>1, <1>2, <2>1
<1>7. ASSUME Place(i) <= Place(j), i # j, plan[i].group = plan[j].group PROVE i < j
  BY <1>1, <1>3, <1>4, <1>7
<1> QED BY <1>1, <1>5, <1>6, <1>7

LEMMA LeastPlace ==
  ASSUME NEW S \in SUBSET Nat, S # {}
  PROVE  \E m \in S : \A x \in S : m <= x
<1> DEFINE R == OpToRel(<, Nat)
<1>1. IsWellFoundedOn(R, Nat) BY NatLessThanWellFounded
<1>2. \A x, y \in Nat : <<x, y>> \in R <=> x < y BY DEF OpToRel
<1> HIDE DEF R
<1>3. PICK m \in S : \A x \in S : ~ (<<x, m>> \in R) BY <1>1, WFMin
<1>4. ASSUME NEW x \in S PROVE m <= x
  <2>1. m \in Nat /\ x \in Nat OBVIOUS
  <2>2. ~ (<<x, m>> \in R) BY <1>3
  <2>3. ~ (x < m) BY Zenon, <1>2, <2>1, <2>2
  <2> QED BY <2>1, <2>3
<1> QED BY <1>4

\* The items not yet taken stand in one order: as long as there are any there is a next
\* one, and only one, whatever kinds and groups the records of a resume have.
PlanIsAList ==
  todo # {} => \E i \in Records : IsNext(i) /\ \A j \in Records : IsNext(j) => j = i

THEOREM OneItemIsNext == Spec => []PlanIsAList
<1>1. TypeOK => PlanIsAList
  <2> SUFFICES ASSUME TypeOK, todo # {}
               PROVE  \E i \in Records : IsNext(i) /\ \A j \in Records : IsNext(j) => j = i
    BY DEF PlanIsAList
  <2>1. todo \subseteq Records BY DEF TypeOK
  <2> DEFINE places == {Place(j) : j \in todo}
  <2>2. places \subseteq Nat /\ places # {} BY <2>1, PlacesOrder
  <2>3. PICK least \in places : \A x \in places : least <= x BY <2>2, LeastPlace
  <2>4. PICK i \in todo : least = Place(i) BY <2>3
  <2>5. i \in Records /\ \A j \in todo : Place(i) <= Place(j) BY <2>1, <2>3, <2>4
  <2>6. IsNext(i) BY <2>1, <2>4, <2>5, PlacesOrder DEF IsNext
  <2>7. ASSUME NEW j \in Records, IsNext(j) PROVE j = i
    <3>1. /\ i \in Nat /\ j \in Nat
          /\ plan[i].group \in Nat /\ plan[j].group \in Nat
      BY <2>5, GroupType
    <3> QED BY <2>4, <2>6, <2>7, <3>1 DEF IsNext
  <2> QED BY <2>5, <2>6, <2>7
<1> QED BY <1>1, TypeCorrect, PTL
=============================================================================

---------------------------- MODULE SharingProofs ----------------------------
(***************************************************************************)
(* Several processes and one manifest, for every number of imports and     *)
(* resumes.  One writes at a time: the lock is taken only after the first  *)
(* write, so the proof has to say why nobody else can be writing before    *)
(* that.  With one writer every name stands for a flushed, whole manifest, *)
(* and what the file says of a record is what was done about it.           *)
(***************************************************************************)
EXTENDS ManifestSharing, FiniteSetTheorems, TLAPS

(* One writer *)

Label == {"ready", "snapshot", "profile", "load", "lock", "begin",
          "submit", "post", "syncdir", "settle", "finish", "ended"} \cup Writing
Goal  == {"lock", "submit", "post", "finish", "ended"}

\* At l, going on at n after a write: what is done only under the lock.
UnderLock(l, n) ==
  \/ l \in {"begin", "submit", "post", "settle", "finish"}
  \/ l \in Writing \cup {"syncdir"} /\ n # "lock"

\* What an import does before the manifest is there: it has no lock yet.
BeforeFile(p, l, n) ==
  /\ p \in Imports
  /\ \/ l \in {"snapshot", "profile"}
     \/ l \in Writing /\ n = "lock"

Creates(p) == BeforeFile(p, pc[p], next[p])

LockInv ==
  /\ pc \in [Processes -> Label] /\ next \in [Processes -> Goal]
  /\ \A p \in Processes : UnderLock(pc[p], next[p]) => lock = p
  /\ \A p \in Processes :
       pc[p] = "snapshot" \/ (pc[p] \in Writing /\ next[p] = "lock") => p \in Imports
  /\ \A p \in Processes : Creates(p) => path = NoInode
  /\ \A p, q \in Processes : Creates(p) /\ Creates(q) => p = q
  /\ path = NoInode => \A p \in Processes : pc[p] \in {"ready", "ended"} \/ Creates(p)

\* A file without a manifest has only its creator; later every writer has the lock.
LEMMA LockInvOneWriter == LockInv => OneWriter
<1> SUFFICES ASSUME LockInv, NEW p \in Processes, NEW q \in Processes,
                    pc[p] \in Writing, pc[q] \in Writing
             PROVE  p = q
  BY DEF OneWriter
<1>1. CASE path = NoInode
  <2>1. Creates(p) /\ Creates(q) BY <1>1 DEF LockInv, Writing
  <2> QED BY <2>1 DEF LockInv
<1>2. CASE path # NoInode
  <2>1. ~Creates(p) /\ ~Creates(q) BY <1>2 DEF LockInv
  <2>2. next[p] # "lock" /\ next[q] # "lock" BY <2>1 DEF LockInv, Creates, BeforeFile
  <2>3. lock = p /\ lock = q BY <2>2 DEF LockInv, UnderLock
  <2> QED BY <2>3
<1> QED BY <1>1, <1>2

\* A step of p from one place to another that leaves the path and the lock alone.
LEMMA Moves ==
  ASSUME LockInv, NEW p \in Processes, NEW l \in Label, NEW n \in Goal,
         pc' = [pc EXCEPT ![p] = l], next' = [next EXCEPT ![p] = n],
         path' = path, lock' = lock,
         UnderLock(l, n) => lock = p,
         l = "snapshot" \/ (l \in Writing /\ n = "lock") => p \in Imports,
         BeforeFile(p, l, n) => Creates(p),
         path = NoInode => l = "ended" \/ BeforeFile(p, l, n)
  PROVE  LockInv'
<1>1. pc' \in [Processes -> Label] /\ next' \in [Processes -> Goal] BY DEF LockInv
<1>2. pc'[p] = l /\ next'[p] = n BY DEF LockInv
<1>3. \A q \in Processes \ {p} : pc'[q] = pc[q] /\ next'[q] = next[q] BY DEF LockInv
<1>4. \A q \in Processes : Creates(q)' => Creates(q) BY <1>2, <1>3 DEF Creates, BeforeFile
<1>5. \A q \in Processes \ {p} : Creates(q) => Creates(q)' BY <1>3 DEF Creates, BeforeFile
<1>6. \A q \in Processes : UnderLock(pc'[q], next'[q]) => lock' = q
  BY <1>2, <1>3 DEF LockInv
<1>7. \A q \in Processes :
        pc'[q] = "snapshot" \/ (pc'[q] \in Writing /\ next'[q] = "lock") => q \in Imports
  BY <1>2, <1>3 DEF LockInv
<1>8. path' = NoInode => \A q \in Processes : pc'[q] \in {"ready", "ended"} \/ Creates(q)'
  BY <1>2, <1>3, <1>5 DEF LockInv, Creates
<1> QED BY <1>1, <1>4, <1>6, <1>7, <1>8 DEF LockInv

\* A process that ends gives back its lock and nobody else's.
LEMMA EndsKeepsLockInv ==
  ASSUME LockInv, NEW p \in Processes, Ends(p), path' = path
  PROVE  LockInv'
<1>1. /\ pc' = [pc EXCEPT ![p] = "ended"] /\ next' = [next EXCEPT ![p] = "ended"]
      /\ lock' = IF lock = p THEN None ELSE lock
  BY DEF Ends, Goto
<1>2. pc' \in [Processes -> Label] /\ next' \in [Processes -> Goal]
  BY <1>1 DEF LockInv, Label, Goal
<1>3. pc'[p] = "ended" BY <1>1 DEF LockInv
<1>4. \A q \in Processes \ {p} : pc'[q] = pc[q] /\ next'[q] = next[q] BY <1>1 DEF LockInv
<1>5. ~Creates(p)' /\ ~UnderLock(pc'[p], next'[p])
  BY <1>3 DEF Creates, BeforeFile, UnderLock, Writing
<1>6. \A q \in Processes \ {p} : Creates(q)' <=> Creates(q) BY <1>4 DEF Creates, BeforeFile
<1>7. \A q \in Processes : UnderLock(pc'[q], next'[q]) => lock' = q
  BY <1>1, <1>4, <1>5 DEF LockInv
<1>8. \A q \in Processes :
        pc'[q] = "snapshot" \/ (pc'[q] \in Writing /\ next'[q] = "lock") => q \in Imports
  BY <1>3, <1>4 DEF LockInv, Writing
<1>9. path' = NoInode => \A q \in Processes : pc'[q] \in {"ready", "ended"} \/ Creates(q)'
  BY <1>3, <1>4, <1>6 DEF LockInv
<1> QED BY <1>2, <1>5, <1>6, <1>7, <1>8, <1>9 DEF LockInv

LEMMA StepKeepsLockInv ==
  ASSUME ~ReusesPath, LockInv, NEW p \in Processes, ProcessStep(p) \/ Dies(p)
  PROVE  LockInv'
<1> USE DEF Goto, files
<1>0. pc[p] \in Label /\ next[p] \in Goal BY DEF LockInv
<1>1. next = [next EXCEPT ![p] = next[p]] BY DEF LockInv
<1>2. ASSUME Loadable PROVE path # NoInode BY <1>2 DEF Loadable
<1>3. CASE StartImport(p)
  <2>1. path = NoInode /\ p \in Imports /\ pc[p] = "ready"
        /\ \A q \in Imports : pc[q] \in {"ready", "ended"}
    BY <1>3 DEF StartImport
  <2>2. pc' = [pc EXCEPT ![p] = "snapshot"] /\ next' = next /\ path' = path /\ lock' = lock
    BY <1>3 DEF StartImport
  <2>3. pc' \in [Processes -> Label] /\ pc'[p] = "snapshot"
        /\ \A q \in Processes \ {p} : pc'[q] = pc[q]
    BY <2>2 DEF LockInv, Label
  <2>4. \A q \in Processes : ~Creates(q)
    BY <2>1 DEF Creates, BeforeFile, Writing
  <2>5. \A q \in Processes : Creates(q)' <=> q = p
    BY <2>1, <2>2, <2>3, <2>4 DEF Creates, BeforeFile
  <2>6. \A q \in Processes : UnderLock(pc'[q], next'[q]) => lock' = q
    BY <2>2, <2>3 DEF LockInv, UnderLock, Writing
  <2>7. \A q \in Processes :
          pc'[q] = "snapshot" \/ (pc'[q] \in Writing /\ next'[q] = "lock") => q \in Imports
    BY <2>1, <2>2, <2>3 DEF LockInv, Writing
  <2>8. \A q \in Processes : pc'[q] \in {"ready", "ended"} \/ Creates(q)'
    BY <2>1, <2>3, <2>4, <2>5 DEF LockInv
  <2> QED BY <2>1, <2>2, <2>3, <2>5, <2>6, <2>7, <2>8 DEF LockInv
<1>4. CASE CreateUnsanitized(p)
  <2>1. pc' = [pc EXCEPT ![p] = "open"] /\ next' = [next EXCEPT ![p] = "lock"]
        /\ path' = path /\ lock' = lock /\ pc[p] = "snapshot"
    BY <1>4 DEF CreateUnsanitized, CreateManifest, Save
  <2>2. p \in Imports BY <2>1 DEF LockInv
  <2>3. Creates(p) /\ BeforeFile(p, "open", "lock") BY <2>1, <2>2 DEF Creates, BeforeFile, Writing
  <2> QED BY <2>1, <2>2, <2>3, Moves DEF Label, Goal, UnderLock, Writing
<1>5. CASE TruncateSnapshot(p)
  <2>1. pc' = [pc EXCEPT ![p] = "profile"] /\ next' = next
        /\ path' = path /\ lock' = lock /\ pc[p] = "snapshot"
    BY <1>5 DEF TruncateSnapshot
  <2>2. p \in Imports BY <2>1 DEF LockInv
  <2>3. Creates(p) /\ BeforeFile(p, "profile", next[p]) BY <2>1, <2>2 DEF Creates, BeforeFile
  <2> QED BY <1>0, <1>1, <2>1, <2>2, <2>3, Moves DEF Label, UnderLock, Writing
<1>6. CASE WriteSnapshot(p)
  <2>1. pc' = [pc EXCEPT ![p] = "open"] /\ next' = [next EXCEPT ![p] = "lock"]
        /\ path' = path /\ lock' = lock /\ pc[p] = "profile" /\ p \in Imports
    BY <1>6 DEF WriteSnapshot, CreateManifest, Save
  <2>2. Creates(p) /\ BeforeFile(p, "open", "lock") BY <2>1 DEF Creates, BeforeFile, Writing
  <2> QED BY <2>1, <2>2, Moves DEF Label, Goal, UnderLock, Writing
<1>7. CASE LoadForProfile(p) \/ CheckSnapshot(p) \/ LoadForRun(p)
  <2>1. CASE Ends(p) /\ path' = path BY <2>1, EndsKeepsLockInv
  <2>2. ASSUME NEW l \in {"profile", "load", "lock"}, pc' = [pc EXCEPT ![p] = l],
               next' = next, path' = path, lock' = lock,
               l = "profile" => p \notin Imports, path # NoInode
        PROVE  LockInv'
    <3>1. ~UnderLock(l, next[p]) /\ ~BeforeFile(p, l, next[p])
      BY <2>2 DEF UnderLock, BeforeFile, Writing
    <3> QED BY <1>0, <1>1, <2>2, <3>1, Moves DEF Label, Writing
  <2>3. CASE LoadForProfile(p)
    <3>1. p \notin Imports BY <2>3, ProcessesAssumption DEF LoadForProfile
    <3> QED BY <1>2, <2>1, <2>2, <2>3, <3>1 DEF LoadForProfile
  <2>4. CASE CheckSnapshot(p)
    <3>1. p \notin Imports BY <2>4, ProcessesAssumption DEF CheckSnapshot
    <3>2. path # NoInode BY <2>4, <3>1 DEF LockInv, CheckSnapshot, Creates, BeforeFile
    <3> QED BY <2>1, <2>2, <2>4, <3>2 DEF CheckSnapshot
  <2>5. CASE LoadForRun(p) BY <1>2, <2>1, <2>2, <2>5 DEF LoadForRun
  <2> QED BY <1>7, <2>3, <2>4, <2>5
<1>8. CASE Acquire(p)
  <2>1. CASE Ends(p) /\ path' = path BY <2>1, EndsKeepsLockInv
  <2>2. CASE /\ pc[p] = "lock" /\ lock = None /\ lock' = p /\ path' = path /\ next' = next
             /\ pc' = [pc EXCEPT ![p] = "begin"]
    <3>1. pc' \in [Processes -> Label] /\ pc'[p] = "begin"
          /\ \A q \in Processes \ {p} : pc'[q] = pc[q]
      BY <2>2 DEF LockInv, Label
    <3>2. \A q \in Processes : ~UnderLock(pc[q], next[q])
      BY <2>2, ContentsAssumption DEF LockInv
    <3>3. \A q \in Processes : UnderLock(pc'[q], next'[q]) => q = p
      BY <2>2, <3>1, <3>2
    <3>4. \A q \in Processes : Creates(q)' => Creates(q)
      BY <2>2, <3>1 DEF Creates, BeforeFile, Writing
    <3>5. path # NoInode BY <2>2 DEF LockInv, Creates, BeforeFile, Writing
    <3>6. \A q \in Processes :
            pc'[q] = "snapshot" \/ (pc'[q] \in Writing /\ next'[q] = "lock") => q \in Imports
      BY <2>2, <3>1 DEF LockInv, Writing
    <3> QED BY <2>2, <3>1, <3>3, <3>4, <3>5, <3>6 DEF LockInv
  <2> QED BY <1>8, <2>1, <2>2 DEF Acquire
<1>9. ASSUME UnderLock(pc[p], next[p]), NEW l \in Label, NEW n \in Goal, UnderLock(l, n),
             pc' = [pc EXCEPT ![p] = l], next' = [next EXCEPT ![p] = n],
             path' = path, lock' = lock
      PROVE  LockInv'
  <2>1. ~Creates(p) /\ pc[p] \notin {"ready", "ended"}
    BY <1>9 DEF UnderLock, Creates, BeforeFile, Writing
  <2>2. path # NoInode BY <2>1 DEF LockInv
  <2>3. l # "snapshot" /\ ~(l \in Writing /\ n = "lock") BY <1>9 DEF UnderLock, Writing
  <2>4. ~BeforeFile(p, l, n) \/ l = "profile" BY <2>3 DEF BeforeFile
  <2>5. l # "profile" BY <1>9 DEF UnderLock, Writing
  <2> QED BY <1>9, <2>2, <2>3, <2>4, <2>5, Moves DEF LockInv
<1>10. CASE Begin(p)
  <2>1. pc[p] = "begin" BY <1>10 DEF Begin
  <2>2. UnderLock(pc[p], next[p]) /\ \A n : UnderLock("submit", n) /\ UnderLock("finish", n)
    BY <2>1 DEF UnderLock
  <2>3. UnderLock("open", "submit") /\ UnderLock("open", "finish") BY DEF UnderLock, Writing
  <2>4. CASE Ends(p) /\ path' = path BY <2>4, EndsKeepsLockInv
  <2>5. CASE \E l \in {"submit", "finish"} : /\ pc' = [pc EXCEPT ![p] = l]
                                             /\ next' = next /\ path' = path /\ lock' = lock
    BY <1>0, <1>1, <1>9, <2>2, <2>5 DEF Label
  <2>6. CASE \E n \in {"submit", "finish"} : /\ pc' = [pc EXCEPT ![p] = "open"]
                                             /\ next' = [next EXCEPT ![p] = n]
                                             /\ path' = path /\ lock' = lock
    BY <1>9, <2>2, <2>3, <2>6 DEF Label, Goal, Writing
  <2> QED BY <1>10, <2>4, <2>5, <2>6 DEF Begin, Save
<1>11. CASE Submit(p) \/ Settle(p) \/ Finish(p)
  <2>1. UnderLock(pc[p], next[p])
    BY <1>11 DEF Submit, Settle, Finish, UnderLock
  <2>2. \A n \in Goal \ {"lock"} : UnderLock("open", n) BY DEF UnderLock, Writing
  <2>3. PICK n \in Goal \ {"lock"} :
          /\ pc' = [pc EXCEPT ![p] = "open"] /\ next' = [next EXCEPT ![p] = n]
          /\ path' = path /\ lock' = lock
    BY <1>11 DEF Submit, Settle, Finish, Save, Goal
  <2> QED BY <1>9, <2>1, <2>2, <2>3 DEF Label, Writing
<1>12. CASE Post(p)
  <2>1. UnderLock(pc[p], next[p]) /\ UnderLock("settle", next[p]) BY <1>12 DEF Post, UnderLock
  <2> QED BY <1>0, <1>1, <1>9, <1>12, <2>1 DEF Post, Label
<1>13. ASSUME pc[p] \in Writing, NEW l \in Writing, pc' = [pc EXCEPT ![p] = l],
              next' = next, path' = path, lock' = lock
       PROVE  LockInv'
  <2>1. UnderLock(l, next[p]) <=> UnderLock(pc[p], next[p]) BY <1>13 DEF UnderLock, Writing
  <2>2. BeforeFile(p, l, next[p]) <=> Creates(p)
    BY <1>13 DEF BeforeFile, Creates, Writing
  <2>3. (l \in Writing /\ next[p] = "lock" => p \in Imports) /\ l # "snapshot"
    BY <1>13 DEF LockInv, Writing
  <2>4. path = NoInode => Creates(p) BY <1>13 DEF LockInv, Writing
  <2>5. UnderLock(l, next[p]) => lock = p BY <2>1 DEF LockInv
  <2> QED BY <1>0, <1>1, <1>13, <2>2, <2>3, <2>4, <2>5, Moves DEF Label
<1>14. CASE OpenTemp(p) \/ WriteTemp(p) \/ SyncTemp(p) \/ BackUp(p)
  BY <1>13, <1>14 DEF OpenTemp, WriteTemp, SyncTemp, BackUp, Writing
<1>15. CASE CheckTemp(p)
  BY <1>13, <1>15, EndsKeepsLockInv DEF CheckTemp, Writing
<1>16. CASE RenameTemp(p)
  <2>1. CASE Ends(p) /\ path' = path BY <2>1, EndsKeepsLockInv
  <2>2. CASE /\ pc[p] = "rename" /\ path' # NoInode /\ lock' = lock /\ next' = next
             /\ pc' = [pc EXCEPT ![p] = "syncdir"]
    <3>1. pc' \in [Processes -> Label] /\ pc'[p] = "syncdir"
          /\ \A q \in Processes \ {p} : pc'[q] = pc[q]
      BY <2>2 DEF LockInv, Label
    <3>2. \A q \in Processes : ~Creates(q)'
      <4>1. ~Creates(p)' BY <3>1 DEF Creates, BeforeFile, Writing
      <4>2. ASSUME NEW q \in Processes \ {p}, Creates(q) PROVE FALSE
        <5>1. path = NoInode /\ pc[p] \notin {"ready", "ended"} BY <2>2, <4>2 DEF LockInv
        <5>2. Creates(p) BY <5>1 DEF LockInv
        <5> QED BY <4>2, <5>2 DEF LockInv
      <4> QED BY <2>2, <3>1, <4>1, <4>2 DEF Creates
    <3>3. \A q \in Processes : UnderLock(pc'[q], next'[q]) => lock' = q
      BY <2>2, <3>1 DEF LockInv, UnderLock, Writing
    <3>4. \A q \in Processes :
            pc'[q] = "snapshot" \/ (pc'[q] \in Writing /\ next'[q] = "lock") => q \in Imports
      BY <2>2, <3>1 DEF LockInv, Writing
    <3> QED BY <2>2, <3>1, <3>2, <3>3, <3>4 DEF LockInv
  <2> QED BY <1>16, <2>1, <2>2 DEF RenameTemp
<1>17. CASE SyncDir(p)
  <2>1. CASE Ends(p) /\ path' = path BY <2>1, EndsKeepsLockInv
  <2>2. CASE /\ pc[p] = "syncdir" /\ path' = path /\ lock' = lock /\ next' = next
             /\ next[p] # "ended" /\ pc' = [pc EXCEPT ![p] = next[p]]
    <3>1. CASE next[p] = "lock"
      <4>1. path # NoInode BY <2>2 DEF LockInv, Creates, BeforeFile, Writing
      <4>2. ~UnderLock("lock", "lock") /\ ~BeforeFile(p, "lock", "lock") /\ "lock" \notin Writing
        BY DEF UnderLock, BeforeFile, Writing
      <4> QED BY <1>0, <1>1, <2>2, <3>1, <4>1, <4>2, Moves DEF Label
    <3>2. CASE next[p] # "lock"
      <4>1. next[p] \in {"submit", "post", "finish"} BY <1>0, <2>2, <3>2 DEF Goal
      <4>2. UnderLock(pc[p], next[p]) /\ UnderLock(next[p], next[p])
        BY <2>2, <3>2, <4>1 DEF UnderLock
      <4> QED BY <1>0, <1>1, <1>9, <2>2, <4>1, <4>2 DEF Label
    <3> QED BY <3>1, <3>2
  <2> QED BY <1>17, <2>1, <2>2 DEF SyncDir, Continue
<1>18. CASE Dies(p) BY <1>18, EndsKeepsLockInv DEF Dies
<1> QED
  BY <1>3, <1>4, <1>5, <1>6, <1>7, <1>8, <1>10, <1>11, <1>12, <1>14, <1>15, <1>16, <1>17,
     <1>18 DEF ProcessStep

LEMMA PowerFailsKeepsLockInv == LockInv /\ PowerFails => LockInv'
<1> SUFFICES ASSUME LockInv, PowerFails PROVE LockInv' OBVIOUS
<1>1. /\ pc' = [p \in Processes |-> IF pc[p] = "ready" THEN "ready" ELSE "ended"]
      /\ next' = [p \in Processes |-> "ended"]
  BY DEF PowerFails
<1>2. \A p \in Processes : pc'[p] \in {"ready", "ended"} BY <1>1
<1>3. \A p \in Processes : ~Creates(p)' /\ ~UnderLock(pc'[p], next'[p])
  BY <1>2 DEF Creates, BeforeFile, UnderLock, Writing
<1>4. pc' \in [Processes -> Label] /\ next' \in [Processes -> Goal] BY <1>1 DEF Label, Goal
<1> QED BY <1>2, <1>3, <1>4 DEF LockInv, Writing

LEMMA InitLocked == Init => LockInv
BY DEF Init, LockInv, Label, Goal, Creates, BeforeFile, UnderLock, Writing

\* Where every import has a directory of its own, never two processes write the
\* manifest, its temporary file or its backup at once, however many start,
\* whichever dies and whenever the power fails.
THEOREM WritersExclude ==
  ASSUME ~ReusesPath
  PROVE  Spec => []OneWriter
<1>1. Init => LockInv BY InitLocked
<1>2. LockInv /\ [Next]_vars => LockInv'
  <2> SUFFICES ASSUME LockInv, [Next]_vars PROVE LockInv' OBVIOUS
  <2>1. CASE PowerFails BY <2>1, PowerFailsKeepsLockInv
  <2>2. CASE \E p \in Processes : ProcessStep(p) \/ Dies(p) BY <2>2, StepKeepsLockInv
  <2>3. CASE UNCHANGED vars
    <3>1. pc' = pc /\ next' = next /\ path' = path /\ lock' = lock BY <2>3 DEF vars, files
    <3> QED BY <3>1 DEF LockInv, Creates
  <2> QED BY <2>1, <2>2, <2>3 DEF Next
<1> QED BY <1>1, <1>2, LockInvOneWriter, PTL DEF Spec

-----------------------------------------------------------------------------
(* Types *)

\* Where a process has a manifest in its memory.
Placed == {"lock", "begin", "submit", "post", "syncdir", "settle", "finish"} \cup Writing
Holds(p) == pc[p] \in Placed \/ (p \in Resumes /\ pc[p] \in {"profile", "load"})

\* What a process must have where it is, for its next step to be defined.
FormAt(p) ==
  /\ pc[p] \in {"write", "sync"} => fd[p] \in Inodes
  /\ pc[p] = "snapshot" => p \in Imports
  /\ p \in Imports => profile[p] \in {p, None}
  /\ Holds(p) => mem[p] \in Manifest

FormInv == \A p \in Processes : FormAt(p)

\* A step of p is nothing to the others.
Alone(p) ==
  \A q \in Processes \ {p} :
    /\ pc'[q] = pc[q] /\ next'[q] = next[q] /\ fd'[q] = fd[q]
    /\ mem'[q] = mem[q] /\ profile'[q] = profile[q]

LEMMA StepsAlone ==
  ASSUME TypeOK, NEW p \in Processes, ProcessStep(p) \/ Dies(p)
  PROVE  Alone(p)
<1> USE DEF Goto, Alone, TypeOK
<1>1. Ends(p) => Alone(p) BY DEF Ends
<1>2. CASE StartImport(p) \/ CreateUnsanitized(p) \/ TruncateSnapshot(p) \/ WriteSnapshot(p)
  BY <1>2 DEF StartImport, CreateUnsanitized, TruncateSnapshot, WriteSnapshot, CreateManifest, Save
<1>3. CASE LoadForProfile(p) \/ CheckSnapshot(p) \/ LoadForRun(p) \/ Acquire(p)
  BY <1>1, <1>3 DEF LoadForProfile, CheckSnapshot, LoadForRun, Acquire
<1>4. CASE Begin(p) \/ Submit(p) \/ Post(p) \/ Settle(p) \/ Finish(p)
  BY <1>1, <1>4 DEF Begin, Submit, Post, Settle, Finish, Save
<1>5. CASE OpenTemp(p) \/ WriteTemp(p) \/ SyncTemp(p) \/ CheckTemp(p) \/ BackUp(p)
  BY <1>1, <1>5 DEF OpenTemp, WriteTemp, SyncTemp, CheckTemp, BackUp
<1>6. CASE RenameTemp(p) \/ SyncDir(p) \/ Dies(p)
  BY <1>1, <1>6 DEF RenameTemp, SyncDir, Continue, Dies
<1> QED BY <1>2, <1>3, <1>4, <1>5, <1>6 DEF ProcessStep

LEMMA WithStatus ==
  ASSUME NEW m \in Manifest, NEW s \in Status
  PROVE  /\ [m EXCEPT !.status = s] \in Manifest
         /\ [m EXCEPT !.status = s].import = m.import
         /\ [m EXCEPT !.status = s].profile = m.profile
         /\ [m EXCEPT !.status = s].status = s
BY DEF Manifest

LEMMA NewManifest ==
  ASSUME NEW p \in Imports, NEW r \in {p, None}
  PROVE  [import |-> p, profile |-> r, status |-> "NotAttempted"] \in Manifest
BY DEF Manifest, Status

\* There is an inode for a new temporary file: the others have a name or are
\* open, and a process has at most one open.
LEMMA AnInodeIsFree == TypeOK /\ temp = NoInode => FreeInodes # {}
<1> SUFFICES ASSUME TypeOK, temp = NoInode, FreeInodes = {} PROVE FALSE OBVIOUS
<1>1. IsFiniteSet(Processes) /\ Cardinality(Processes) \in Nat
  BY ProcessesAssumption, FS_Union, FS_CardinalityType DEF Processes
<1>2. fd \in Surjection(Processes, Open) BY DEF TypeOK, Open, Surjection
<1>3. IsFiniteSet(Open) /\ Cardinality(Open) <= Cardinality(Processes) /\ Cardinality(Open) \in Nat
  BY <1>1, <1>2, FS_Surjection, FS_CardinalityType
<1>4. ASSUME NEW S, NEW x, IsFiniteSet(S)
      PROVE  /\ IsFiniteSet(S \cup {x}) /\ Cardinality(S \cup {x}) \in Nat
             /\ Cardinality(S \cup {x}) <= Cardinality(S) + 1 /\ Cardinality(S) \in Nat
  <2>1. IsFiniteSet(S \cup {x}) /\ Cardinality(S) \in Nat
        /\ Cardinality(S \cup {x}) = IF x \in S THEN Cardinality(S) ELSE Cardinality(S) + 1
    BY <1>4, FS_AddElement, FS_CardinalityType
  <2> QED BY <2>1
<1> DEFINE A == Open \cup {path}
           B == A \cup {diskPath}
<1>5. IsFiniteSet(B) /\ Cardinality(B) <= Cardinality(Processes) + 2 /\ Cardinality(B) \in Nat
  <2>1. IsFiniteSet(A) /\ Cardinality(A) <= Cardinality(Open) + 1 BY <1>3, <1>4
  <2> HIDE DEF A
  <2>2. /\ IsFiniteSet(B) /\ Cardinality(B) \in Nat /\ Cardinality(A) \in Nat
        /\ Cardinality(B) <= Cardinality(A) + 1
    BY <2>1, <1>4
  <2> HIDE DEF B
  <2> QED BY <1>1, <1>3, <2>1, <2>2
<1>6. Inodes \subseteq B BY DEF FreeInodes, A, Inodes, NoInode
<1>7. Cardinality(Inodes) = Cardinality(Processes) + 3
  BY <1>1, FS_Interval DEF Inodes
<1>8. Cardinality(Inodes) <= Cardinality(B) BY <1>5, <1>6, FS_Subset
<1> QED BY <1>1, <1>5, <1>7, <1>8

\* The file a process opens has an inode of its own kind.
LEMMA OpensAnInode ==
  ASSUME TypeOK, NEW p \in Processes, OpenTemp(p)
  PROVE  /\ temp' \in Inodes /\ fd' = [fd EXCEPT ![p] = temp']
         /\ data' = [data EXCEPT ![temp'] = Empty] /\ synced' = synced \ {temp'}
         /\ temp = NoInode => temp' \notin {path, diskPath} \cup Open
         /\ temp # NoInode => temp' = temp
<1>1. temp' = IF temp # NoInode THEN temp ELSE CHOOSE i \in FreeInodes : TRUE BY DEF OpenTemp
<1>2. temp = NoInode => temp' \in FreeInodes BY <1>1, AnInodeIsFree
<1>3. /\ fd' = [fd EXCEPT ![p] = temp'] /\ data' = [data EXCEPT ![temp'] = Empty]
      /\ synced' = synced \ {temp'}
  BY DEF OpenTemp
<1> QED BY <1>1, <1>2, <1>3 DEF FreeInodes, TypeOK

LEMMA EndsTyped ==
  ASSUME TypeOK, NEW p \in Processes, Ends(p)
  PROVE  /\ lock' \in Processes \cup {None}
         /\ pc' \in [Processes -> Label]
         /\ next' \in [Processes -> Goal]
         /\ fd' \in [Processes -> Inodes \cup {NoInode}]
         /\ mem' \in [Processes -> Manifest \cup {None}]
         /\ profile' \in [Processes -> Imports \cup {None}]
         /\ current' \in [Processes -> BOOLEAN]
         /\ sent' \in [Imports -> Nat]
         /\ lostUpdate' \in BOOLEAN
BY DEF Ends, Goto, TypeOK, Label, Goal

\* What Begin comes to: an end, a move, or a write that keeps the profile and
\* makes nothing of the record that may be sent again.
LEMMA BeginMoves ==
  ASSUME NEW p \in Processes, Begin(p)
  PROVE  /\ pc[p] = "begin" /\ UNCHANGED <<files, snapshot>>
         /\ \/ Ends(p)
            \/ /\ Goto(p, "submit") /\ p \in Imports
               /\ UNCHANGED <<lock, next, fd, mem, profile, current, sent, lostUpdate>>
            \/ /\ Goto(p, "finish")
               /\ UNCHANGED <<lock, next, fd, mem, profile, current, sent, lostUpdate>>
            \/ /\ Save(p, mem[p], "submit") /\ mem[p].status = "NotAttempted"
               /\ UNCHANGED <<lock, fd, profile, current, sent, lostUpdate>>
            \/ /\ Save(p, [mem[p] EXCEPT !.status = "AmbiguousSubmission"], "finish")
               /\ UNCHANGED <<lock, fd, profile, current, sent, lostUpdate>>
BY Zenon DEF Begin

LEMMA StepTyped ==
  ASSUME TypeOK, FormInv, NEW p \in Processes, ProcessStep(p) \/ Dies(p)
  PROVE  TypeOK'
<1> USE DEF Goto, files, FormInv, FormAt
<1>0. "ended" \in Label /\ TypeOK /\ FormAt(p) BY DEF Label
<1>1. CASE StartImport(p) BY <1>1 DEF StartImport, TypeOK
<1>2. CASE CreateUnsanitized(p)
  <2>1. [import |-> p, profile |-> profile[p], status |-> "NotAttempted"] \in Manifest
    BY <1>2, NewManifest DEF CreateUnsanitized
  <2> QED BY <1>2, <2>1 DEF CreateUnsanitized, CreateManifest, Save, TypeOK, Writing
<1>3. CASE TruncateSnapshot(p) BY <1>3 DEF TruncateSnapshot, TypeOK
<1>4. CASE WriteSnapshot(p)
  <2>1. [import |-> p, profile |-> profile[p], status |-> "NotAttempted"] \in Manifest
    BY <1>4, NewManifest DEF WriteSnapshot
  <2> QED BY <1>4, <2>1 DEF WriteSnapshot, CreateManifest, Save, TypeOK, Writing
<1>5. CASE LoadForProfile(p)
  BY <1>5, EndsTyped DEF LoadForProfile, Loadable, TypeOK, Label, Goal
<1>6. CASE CheckSnapshot(p)
  <2>1. mem[p].profile \in Imports \cup {None}
    BY <1>6 DEF CheckSnapshot, Holds, Manifest
  <2> QED BY <1>6, <2>1, EndsTyped DEF CheckSnapshot, TypeOK, Label, Goal
<1>7. CASE LoadForRun(p)
  BY <1>7, EndsTyped DEF LoadForRun, Loadable, TypeOK, Label, Goal
<1>8. CASE Acquire(p) BY <1>8, EndsTyped DEF Acquire, TypeOK, Label, Goal
<1>9. CASE Begin(p)
  <2>1. mem[p] \in Manifest /\ [mem[p] EXCEPT !.status = "AmbiguousSubmission"] \in Manifest
    BY <1>9, WithStatus DEF Begin, Holds, Placed, Status
  <2>2. CASE Ends(p) BY <1>9, <2>2, BeginMoves, EndsTyped DEF TypeOK, Label, Goal
  <2> QED BY <1>9, <2>1, <2>2, BeginMoves DEF Save, TypeOK, Writing
<1>10. CASE Submit(p)
  <2>1. [mem[p] EXCEPT !.status = "SubmissionStarted"] \in Manifest
    BY <1>10, WithStatus DEF Submit, Holds, Placed, Status
  <2> QED BY <1>10, <2>1 DEF Submit, Save, TypeOK, Writing
<1>11. CASE Post(p)
  <2>1. mem[p].import \in Imports BY <1>11 DEF Post, Holds, Placed, Manifest
  <2> QED BY <1>11, <2>1 DEF Post, TypeOK
<1>12. CASE Settle(p)
  <2>1. \A s \in {"Success", "AmbiguousSubmission"} : [mem[p] EXCEPT !.status = s] \in Manifest
    BY <1>12, WithStatus DEF Settle, Holds, Placed, Status
  <2> QED BY <1>12, <2>1 DEF Settle, Save, TypeOK, Writing
<1>13. CASE Finish(p) BY <1>13 DEF Finish, Save, TypeOK, Writing
<1>14. CASE OpenTemp(p)
  BY <1>14, OpensAnInode DEF OpenTemp, TypeOK, Writing
<1>15. CASE WriteTemp(p)
  BY <1>15 DEF WriteTemp, TypeOK, Writing, Holds, Placed
<1>16. CASE SyncTemp(p) BY <1>16 DEF SyncTemp, TypeOK, Writing
<1>17. CASE CheckTemp(p) BY <1>17, EndsTyped DEF CheckTemp, TypeOK, Writing, Label, Goal
<1>18. CASE BackUp(p) BY <1>18 DEF BackUp, TypeOK, Writing
<1>19. CASE RenameTemp(p)
  <2>1. current' \in [Processes -> BOOLEAN] /\ lostUpdate' \in BOOLEAN
    <3>1. CASE Ends(p) BY <3>1, EndsTyped
    <3>2. CASE /\ lostUpdate' = (lostUpdate \/ ~current[p])
               /\ current' = [q \in Processes |-> q = p]
      BY Zenon, <3>2
    <3> QED BY <1>19, <3>1, <3>2 DEF RenameTemp
  <2>2. pc' \in [Processes -> Label] BY <1>19, EndsTyped DEF RenameTemp, TypeOK, Label
  <2>3. CASE Ends(p) /\ UNCHANGED <<path, temp>>
    BY <1>19, <2>3, EndsTyped DEF RenameTemp, TypeOK, Label, Goal
  <2>4. CASE /\ path' = temp /\ temp' = NoInode
             /\ UNCHANGED <<lock, next, fd, mem, profile, sent>>
    BY <1>19, <2>1, <2>2, <2>4 DEF RenameTemp, TypeOK, Label
  <2> QED BY <1>19, <2>3, <2>4 DEF RenameTemp
<1>20. CASE SyncDir(p)
  <2>1. next[p] \in {"lock", "submit", "post", "finish", "ended"} BY DEF TypeOK
  <2>2. data' \in [Inodes -> Manifest \cup {Empty, Torn}] BY <1>20 DEF SyncDir, TypeOK
  <2> QED BY <1>20, <2>1, <2>2, EndsTyped DEF SyncDir, Continue, TypeOK, Label, Goal
<1>21. CASE Dies(p)
  BY <1>21, EndsTyped DEF Dies, TypeOK, Label, Goal
<1> QED
  BY <1>1, <1>2, <1>3, <1>4, <1>5, <1>6, <1>7, <1>8, <1>9, <1>10, <1>11, <1>12, <1>13, <1>14,
     <1>15, <1>16, <1>17, <1>18, <1>19, <1>20, <1>21 DEF ProcessStep

LEMMA StepFormed ==
  ASSUME TypeOK, FormInv, NEW p \in Processes, ProcessStep(p) \/ Dies(p)
  PROVE  FormInv'
<1>1. FormAt(p)'
  <2> USE DEF Goto, FormAt, TypeOK, FormInv, Holds, Placed, Writing
  <2>0. Ends(p) => FormAt(p)' BY DEF Ends
  <2>1. CASE StartImport(p) BY <2>1, ProcessesAssumption DEF StartImport
  <2>2. CASE CreateUnsanitized(p)
    BY <2>2, NewManifest, ProcessesAssumption DEF CreateUnsanitized, CreateManifest, Save
  <2>3. CASE TruncateSnapshot(p) BY <2>3, ProcessesAssumption DEF TruncateSnapshot
  <2>4. CASE WriteSnapshot(p)
    BY <2>4, NewManifest, ProcessesAssumption DEF WriteSnapshot, CreateManifest, Save
  <2>5. CASE LoadForProfile(p)
    BY <2>0, <2>5, ProcessesAssumption DEF LoadForProfile, Loadable
  <2>6. CASE CheckSnapshot(p) BY <2>0, <2>6, ProcessesAssumption DEF CheckSnapshot
  <2>7. CASE LoadForRun(p) BY <2>0, <2>7 DEF LoadForRun, Loadable
  <2>8. CASE Acquire(p) BY <2>0, <2>8 DEF Acquire
  <2>9. CASE Begin(p)
    <3>1. mem[p] \in Manifest /\ [mem[p] EXCEPT !.status = "AmbiguousSubmission"] \in Manifest
      BY <2>9, WithStatus DEF Begin, Status
    <3> QED BY <2>0, <2>9, <3>1, BeginMoves DEF Save
  <2>10. CASE Submit(p) \/ Settle(p)
    <3>1. \A s \in {"SubmissionStarted", "Success", "AmbiguousSubmission"} :
            [mem[p] EXCEPT !.status = s] \in Manifest
      BY <2>10, WithStatus DEF Submit, Settle, Status
    <3> QED BY <2>10, <3>1 DEF Submit, Settle, Save
  <2>11. CASE Post(p) \/ Finish(p) BY <2>11 DEF Post, Finish, Save
  <2>12. CASE OpenTemp(p) BY <2>12, OpensAnInode DEF OpenTemp
  <2>13. CASE WriteTemp(p) \/ SyncTemp(p) \/ CheckTemp(p) \/ BackUp(p)
    BY <2>0, <2>13 DEF WriteTemp, SyncTemp, CheckTemp, BackUp
  <2>14. CASE RenameTemp(p) BY <2>0, <2>14 DEF RenameTemp
  <2>15. CASE SyncDir(p) BY <2>0, <2>15 DEF SyncDir, Continue
  <2>16. CASE Dies(p) BY <2>0, <2>16 DEF Dies
  <2> QED
    BY <2>1, <2>2, <2>3, <2>4, <2>5, <2>6, <2>7, <2>8, <2>9, <2>10, <2>11, <2>12, <2>13, <2>14,
       <2>15, <2>16 DEF ProcessStep
<1>2. ASSUME NEW q \in Processes \ {p} PROVE FormAt(q)'
  BY <1>2, StepsAlone DEF Alone, FormInv, FormAt, Holds
<1> QED BY <1>1, <1>2 DEF FormInv

LEMMA PowerFailsTyped == TypeOK /\ FormInv /\ PowerFails => TypeOK' /\ FormInv'
<1> SUFFICES ASSUME TypeOK, PowerFails PROVE TypeOK' /\ FormInv' OBVIOUS
<1>1. \A p \in Processes : pc'[p] \in {"ready", "ended"} BY DEF PowerFails
<1>2. path' \in Inodes \cup {NoInode} /\ temp' \in Inodes \cup {NoInode}
  BY DEF PowerFails, TypeOK
<1>3. data' \in [Inodes -> Manifest \cup {Empty, Torn}] BY DEF PowerFails, TypeOK
<1>4. backup' \in Manifest \cup {None, Empty, Torn} /\ snapshot' \in Imports \cup {None, Torn}
  BY DEF PowerFails, TypeOK
<1>5. profile' = [p \in Processes |-> None] /\ current' \in [Processes -> BOOLEAN]
  BY DEF PowerFails
<1>6. TypeOK' BY <1>2, <1>3, <1>4, <1>5 DEF PowerFails, TypeOK
<1>7. FormInv' BY <1>1, <1>5 DEF FormInv, FormAt, Holds, Placed, Writing
<1> QED BY <1>6, <1>7

LEMMA InitFormed == Init => TypeOK /\ FormInv
<1> SUFFICES ASSUME Init PROVE TypeOK /\ FormInv OBVIOUS
<1>1. current \in [Processes -> BOOLEAN] BY DEF Init
<1> QED BY <1>1 DEF Init, TypeOK, FormInv, FormAt, Holds, Placed, Writing

\* TypeOK alone is not inductive: what a process does with the manifest in its
\* memory or its open file is defined only because it has one by then.
LEMMA Formed == Spec => [](TypeOK /\ FormInv)
<1>1. Init => TypeOK /\ FormInv BY InitFormed
<1>2. TypeOK /\ FormInv /\ [Next]_vars => TypeOK' /\ FormInv'
  <2> SUFFICES ASSUME TypeOK, FormInv, [Next]_vars PROVE TypeOK' /\ FormInv' OBVIOUS
  <2>1. CASE PowerFails BY <2>1, PowerFailsTyped
  <2>2. CASE \E p \in Processes : ProcessStep(p) \/ Dies(p) BY <2>2, StepTyped, StepFormed
  <2>3. CASE UNCHANGED vars BY <2>3 DEF vars, files, TypeOK, FormInv, FormAt, Holds
  <2> QED BY <2>1, <2>2, <2>3 DEF Next
<1> QED BY <1>1, <1>2, PTL DEF Spec

\* Whoever shares the file, and also where an import may be given the path of
\* another, every variable has its type: no process ever opens a file for which
\* no inode is left.
THEOREM TypesCorrect == Spec => []TypeOK
BY Formed, PTL

-----------------------------------------------------------------------------
(* The files, where there is one writer *)

\* What is under the three names.
NamesInv ==
  /\ temp # NoInode => temp \notin {path, diskPath}
  /\ path # NoInode => data[path] \in Manifest /\ path \in synced
  /\ diskPath # NoInode => /\ data[diskPath] \in Manifest /\ diskPath \in synced
                           /\ path # NoInode

\* How far the writer has got: the temporary file is its own, and from the write
\* on it holds the writer's manifest.
WriterAt(p) ==
  /\ pc[p] \in {"write", "sync"} => temp # NoInode /\ fd[p] = temp
  /\ pc[p] = "write" => data[temp] = Empty
  /\ pc[p] = "sync" => data[temp] = mem[p]
  /\ pc[p] \in {"check", "backup", "rename"} =>
       temp # NoInode /\ data[temp] = mem[p] /\ temp \in synced
  /\ pc[p] = "rename" /\ path # NoInode => backup = data[path]

FilesInv == NamesInv /\ \A p \in Processes : WriterAt(p)

\* A step that leaves the named files as they are.
FilesKept ==
  /\ UNCHANGED <<path, temp, backup>>
  /\ \A i \in {path, temp} \ {NoInode} : data'[i] = data[i] /\ (i \in synced => i \in synced')

LEMMA OnlyWritersWrite ==
  ASSUME TypeOK, NEW p \in Processes, ProcessStep(p) \/ Dies(p), pc[p] \notin Writing
  PROVE  /\ FilesKept
         /\ \/ UNCHANGED files
            \/ /\ pc[p] = "syncdir" /\ diskPath' = path
               /\ data' = [i \in Inodes |-> IF i \in {path, temp} \cup Open THEN data[i] ELSE Empty]
<1> USE DEF files, FilesKept, Writing
<1>1. CASE SyncDir(p)
  <2>1. /\ path' = path /\ temp' = temp /\ backup' = backup
        /\ data' = [i \in Inodes |-> IF i \in {path, temp} \cup Open THEN data[i] ELSE Empty]
        /\ synced' = synced \cap ({path, temp} \cup Open)
        /\ pc[p] = "syncdir" /\ diskPath' = path
    BY <1>1 DEF SyncDir
  <2>2. {path, temp} \ {NoInode} \subseteq Inodes BY DEF TypeOK
  <2>3. \A i \in {path, temp} \ {NoInode} : data'[i] = data[i] BY <2>1, <2>2
  <2>4. \A i \in {path, temp} : i \in synced => i \in synced' BY <2>1
  <2> QED BY <2>1, <2>3, <2>4
<1>2. UNCHANGED files => FilesKept OBVIOUS
<1>3. CASE StartImport(p) \/ CreateUnsanitized(p) \/ TruncateSnapshot(p) \/ WriteSnapshot(p)
  BY <1>2, <1>3 DEF StartImport, CreateUnsanitized, TruncateSnapshot, WriteSnapshot, CreateManifest
<1>4. CASE LoadForProfile(p) \/ CheckSnapshot(p) \/ LoadForRun(p) \/ Acquire(p)
  BY <1>2, <1>4 DEF LoadForProfile, CheckSnapshot, LoadForRun, Acquire
<1>5. CASE Begin(p) \/ Submit(p) \/ Post(p) \/ Settle(p) \/ Finish(p)
  BY <1>2, <1>5 DEF Begin, Submit, Post, Settle, Finish
<1>6. CASE Dies(p)
  <2>1. data' = data /\ backup' = backup BY <1>6 DEF Dies
  <2> QED BY <1>2, <1>6, <2>1 DEF Dies
<1>7. CASE OpenTemp(p) \/ WriteTemp(p) \/ SyncTemp(p) \/ CheckTemp(p) \/ BackUp(p) \/ RenameTemp(p)
  BY <1>7 DEF OpenTemp, WriteTemp, SyncTemp, CheckTemp, BackUp, RenameTemp
<1> QED BY <1>1, <1>3, <1>4, <1>5, <1>6, <1>7 DEF ProcessStep

\* Another writer is nowhere near the files, or nothing happens to them.
LEMMA OthersKeepWriting ==
  ASSUME TypeOK, FilesInv, OneWriter,
         NEW p \in Processes, ProcessStep(p) \/ Dies(p), NEW q \in Processes \ {p}
  PROVE  WriterAt(q)'
<1>1. pc'[q] = pc[q] /\ fd'[q] = fd[q] /\ mem'[q] = mem[q] BY StepsAlone DEF Alone
<1>2. WriterAt(q) BY DEF FilesInv
<1>3. CASE pc[p] \in Writing
  <2>1. pc[q] \notin Writing BY <1>3 DEF OneWriter
  <2> QED BY <1>1, <2>1 DEF WriterAt, Writing
<1>4. CASE pc[p] \notin Writing
  <2>1. FilesKept BY <1>4, OnlyWritersWrite
  <2> QED BY <1>1, <1>2, <2>1 DEF WriterAt, FilesKept
<1> QED BY <1>3, <1>4

\* A step of the writer, one file operation at a time.
LEMMA WriterStepKeepsFiles ==
  ASSUME TypeOK, FormInv, FilesInv, NEW p \in Processes, ProcessStep(p) \/ Dies(p),
         pc[p] \in Writing
  PROVE  NamesInv' /\ WriterAt(p)'
<1> USE DEF FilesInv, NamesInv
<1>0. TypeOK /\ WriterAt(p) /\ mem[p] \in Manifest BY DEF FormInv, FormAt, Holds, Placed
<1>1. NoInode \notin Inodes BY DEF Inodes, NoInode
<1>2. CASE Ends(p) /\ UNCHANGED files
  <2>1. pc'[p] = "ended" BY <1>2 DEF Ends, Goto, TypeOK
  <2> QED BY <1>2, <2>1 DEF files, WriterAt
<1>3. CASE OpenTemp(p)
  <2>1. /\ temp' \in Inodes /\ fd'[p] = temp' /\ pc'[p] = "write" /\ data'[temp'] = Empty
        /\ \A i \in Inodes \ {temp'} : data'[i] = data[i]
        /\ synced' = synced \ {temp'} /\ path' = path /\ diskPath' = diskPath
    BY <1>3, OpensAnInode DEF OpenTemp, Goto, TypeOK
  <2>2. temp' \notin {path, diskPath} BY <1>0, <1>1, <1>3, OpensAnInode DEF TypeOK
  <2>3. NamesInv' BY <2>1, <2>2 DEF TypeOK
  <2>4. WriterAt(p)' BY <1>1, <2>1 DEF WriterAt
  <2> QED BY <2>3, <2>4
<1>4. CASE WriteTemp(p)
  <2>1. pc[p] = "write" /\ temp \in Inodes /\ fd[p] = temp /\ data[temp] = Empty /\ temp # NoInode
    BY <1>0, <1>4 DEF WriteTemp, WriterAt, TypeOK
  <2>2. /\ data' = [data EXCEPT ![temp] = mem[p]] /\ synced' = synced \ {temp}
        /\ UNCHANGED <<path, temp, diskPath, fd, mem>> /\ pc'[p] = "sync"
    BY <1>4, <2>1 DEF WriteTemp, Goto, TypeOK
  <2> QED BY <2>1, <2>2 DEF WriterAt, TypeOK
<1>5. CASE SyncTemp(p)
  <2>1. temp # NoInode /\ fd[p] = temp /\ data[temp] = mem[p]
    BY <1>0, <1>5 DEF SyncTemp, WriterAt
  <2>2. /\ synced' = synced \cup {temp} /\ UNCHANGED <<path, temp, data, diskPath, mem>>
        /\ pc'[p] = "check"
    BY <1>5, <2>1 DEF SyncTemp, Goto, TypeOK
  <2> QED BY <2>1, <2>2 DEF WriterAt
<1>6. CASE CheckTemp(p) /\ Goto(p, "backup") /\ UNCHANGED <<files, mem>>
  BY <1>0, <1>6 DEF CheckTemp, Goto, TypeOK, files, WriterAt
<1>7. CASE BackUp(p)
  BY <1>0, <1>7 DEF BackUp, Goto, TypeOK, WriterAt
<1>8. CASE RenameTemp(p)
  <2>1. temp # NoInode /\ data[temp] = mem[p] /\ temp \in synced
    BY <1>0, <1>8 DEF RenameTemp, WriterAt
  <2>2. /\ path' = temp /\ temp' = NoInode /\ UNCHANGED <<data, synced, diskPath, mem>>
        /\ pc'[p] = "syncdir"
    BY <1>8, <2>1 DEF RenameTemp, Goto, TypeOK
  <2> QED BY <1>0, <2>1, <2>2 DEF WriterAt
<1>9. CASE Dies(p)
  <2>1. pc'[p] = "ended" /\ UNCHANGED <<path, temp, synced, diskPath>>
    BY <1>9 DEF Dies, Ends, Goto, TypeOK
  <2>2. CASE data' = data BY <2>1, <2>2 DEF WriterAt
  <2>3. CASE pc[p] = "write" /\ data' = [data EXCEPT ![fd[p]] = Torn]
    <3>1. temp # NoInode /\ fd[p] = temp BY <1>0, <2>3 DEF WriterAt
    <3> QED BY <2>1, <2>3, <3>1 DEF WriterAt, TypeOK
  <2> QED BY <1>9, <2>2, <2>3 DEF Dies
<1>10. pc[p] \notin {"ready", "snapshot", "profile", "load", "lock", "begin", "submit", "post",
                    "settle", "finish", "syncdir"}
  BY DEF Writing
<1>11. CheckTemp(p) => (Ends(p) /\ UNCHANGED files)
                       \/ (Goto(p, "backup") /\ UNCHANGED <<files, mem>>)
  BY DEF CheckTemp, files
<1> QED
  BY <1>2, <1>3, <1>4, <1>5, <1>6, <1>7, <1>8, <1>9, <1>10, <1>11
     DEF ProcessStep, StartImport, CreateUnsanitized, TruncateSnapshot, WriteSnapshot,
         LoadForProfile, CheckSnapshot, LoadForRun, Acquire, Begin, Submit, Post, Settle, Finish,
         SyncDir

LEMMA StepKeepsFiles ==
  ASSUME TypeOK, FormInv, FilesInv, OneWriter, NEW p \in Processes, ProcessStep(p) \/ Dies(p)
  PROVE  FilesInv'
<1>1. \A q \in Processes \ {p} : WriterAt(q)' BY OthersKeepWriting
<1>2. CASE pc[p] \in Writing BY <1>1, <1>2, WriterStepKeepsFiles DEF FilesInv
<1>3. CASE pc[p] \notin Writing
  <2>1. FilesKept BY <1>3, OnlyWritersWrite
  <2>2. UNCHANGED files => NamesInv' BY DEF FilesInv, NamesInv, files
  <2>3. diskPath' = path => NamesInv' BY <2>1 DEF FilesInv, NamesInv, FilesKept
  <2>4. NamesInv' BY <1>3, <2>2, <2>3, OnlyWritersWrite DEF FilesInv
  <2>5. pc'[p] \notin Writing \/ pc'[p] = "open"
    <3> USE DEF Goto, TypeOK, Writing
    <3>1. Ends(p) => pc'[p] = "ended" BY DEF Ends
    <3>2. CASE StartImport(p) \/ CreateUnsanitized(p) \/ TruncateSnapshot(p) \/ WriteSnapshot(p)
      BY <3>2 DEF StartImport, CreateUnsanitized, TruncateSnapshot, WriteSnapshot,
                  CreateManifest, Save
    <3>3. CASE LoadForProfile(p) \/ CheckSnapshot(p) \/ LoadForRun(p) \/ Acquire(p)
      BY <3>1, <3>3 DEF LoadForProfile, CheckSnapshot, LoadForRun, Acquire
    <3>4. CASE Begin(p) \/ Submit(p) \/ Post(p) \/ Settle(p) \/ Finish(p)
      BY <3>1, <3>4 DEF Begin, Submit, Post, Settle, Finish, Save
    <3>5. CASE Dies(p) BY <3>1, <3>5 DEF Dies
    <3>6. CASE SyncDir(p) BY <3>1, <3>6 DEF SyncDir, Continue
    <3>7. CASE OpenTemp(p) \/ WriteTemp(p) \/ SyncTemp(p) \/ CheckTemp(p) \/ BackUp(p)
               \/ RenameTemp(p)
      BY <1>3, <3>7 DEF OpenTemp, WriteTemp, SyncTemp, CheckTemp, BackUp, RenameTemp
    <3> QED BY <3>2, <3>3, <3>4, <3>5, <3>6, <3>7 DEF ProcessStep
  <2>6. WriterAt(p)' BY <2>5 DEF WriterAt, Writing
  <2> QED BY <1>1, <2>4, <2>6 DEF FilesInv
<1> QED BY <1>2, <1>3

\* A power failure leaves the manifest or the one that was replaced last: both
\* were flushed before they got the name.
LEMMA PowerFailsKeepsNames ==
  ASSUME TypeOK, FilesInv, PowerFails
  PROVE  /\ FilesInv'
         /\ path' \in {path, diskPath} /\ diskPath' = path'
         /\ path' # NoInode => data'[path'] = data[path']
<1>1. /\ path' \in {path, diskPath} /\ diskPath' = path' /\ temp' \in {temp, NoInode}
      /\ synced' = synced /\ pc' = [p \in Processes |-> IF pc[p] = "ready" THEN "ready" ELSE "ended"]
  BY DEF PowerFails
<1>2. PICK lost \in SUBSET ({path', temp'} \ (synced \cup {NoInode})) :
        data' = [i \in Inodes |-> IF i \in lost THEN Torn ELSE data[i]]
  BY DEF PowerFails
<1>3. path' # NoInode => path' \in Inodes /\ path' \in synced /\ data[path'] \in Manifest
  BY <1>1 DEF FilesInv, NamesInv, TypeOK
<1>4. path' # NoInode => data'[path'] = data[path'] BY <1>2, <1>3
<1>5. NamesInv' BY <1>1, <1>3, <1>4 DEF FilesInv, NamesInv
<1>6. \A p \in Processes : WriterAt(p)' BY <1>1 DEF WriterAt
<1> QED BY <1>1, <1>4, <1>5, <1>6 DEF FilesInv

-----------------------------------------------------------------------------
(* What a reader of the file sees of a step *)

\* Nothing: the manifest and the one on the disk stay, or the manifest is now the
\* one on the disk.
Leaves(p) ==
  /\ path' = path /\ lostUpdate' = lostUpdate
  /\ path # NoInode => data'[path] = data[path]
  /\ \/ diskPath' = path
     \/ diskPath' = diskPath /\ (diskPath # NoInode => data'[diskPath] = data[diskPath])
  /\ ~(pc[p] = "rename" /\ pc'[p] = "syncdir")
  /\ \A q \in Processes \ {p} : current'[q] = current[q]

\* The manifest of p in place of what was there.
Replaces(p) ==
  /\ pc[p] = "rename" /\ pc'[p] = "syncdir"
  /\ path' = temp /\ path' # NoInode /\ data'[path'] = mem[p] /\ data' = data
  /\ lostUpdate' = (lostUpdate \/ ~current[p])
  /\ \A q \in Processes \ {p} : ~current'[q]
  /\ UNCHANGED <<diskPath, snapshot, next, mem, sent>>

LEMMA LeavesOrReplaces ==
  ASSUME TypeOK, FilesInv, NEW p \in Processes, ProcessStep(p) \/ Dies(p)
  PROVE  Leaves(p) \/ Replaces(p)
<1>0. TypeOK /\ WriterAt(p) /\ NamesInv BY DEF FilesInv
<1>1. ASSUME UNCHANGED <<path, data, diskPath>>, lostUpdate' = lostUpdate,
             ~(pc[p] = "rename" /\ pc'[p] = "syncdir"),
             \A q \in Processes \ {p} : current'[q] = current[q]
      PROVE  Leaves(p)
  BY <1>1 DEF Leaves
<1>2. CASE Ends(p) /\ UNCHANGED <<path, data, diskPath>>
  BY <1>1, <1>2 DEF Ends, Goto, TypeOK
<1>3. CASE StartImport(p) \/ TruncateSnapshot(p) \/ Submit(p) \/ Post(p) \/ Finish(p)
           \/ Settle(p) \/ SyncTemp(p) \/ BackUp(p)
  BY <1>1, <1>3 DEF StartImport, TruncateSnapshot, Submit, Post, Finish, Settle, SyncTemp, BackUp,
                    files, Goto, TypeOK
<1>4. CASE CreateUnsanitized(p) \/ WriteSnapshot(p)
  BY <1>1, <1>4 DEF CreateUnsanitized, WriteSnapshot, CreateManifest, Save, files, Goto, TypeOK
<1>5. CASE LoadForProfile(p) \/ CheckSnapshot(p) \/ LoadForRun(p) \/ Acquire(p) \/ CheckTemp(p)
  BY <1>1, <1>2, <1>5 DEF LoadForProfile, CheckSnapshot, LoadForRun, Acquire, CheckTemp,
                    files, Goto, TypeOK
<1>6. CASE Begin(p)
  BY <1>1, <1>2, <1>6, BeginMoves DEF files
<1>7. CASE OpenTemp(p)
  <2>1. /\ temp' \in Inodes /\ path' = path /\ diskPath' = diskPath /\ lostUpdate' = lostUpdate
        /\ current' = current /\ pc[p] = "open"
        /\ \A i \in Inodes \ {temp'} : data'[i] = data[i]
    BY <1>7, OpensAnInode DEF OpenTemp, TypeOK
  <2>2. temp' \notin {path, diskPath} BY <1>0, <1>7, OpensAnInode DEF NamesInv
  <2> QED BY <2>1, <2>2 DEF Leaves, TypeOK
<1>8. ASSUME pc[p] = "write", NEW c, data' = [data EXCEPT ![fd[p]] = c],
             UNCHANGED <<path, diskPath, lostUpdate>>,
             \A q \in Processes \ {p} : current'[q] = current[q]
      PROVE  Leaves(p)
  <2>1. fd[p] = temp /\ temp \notin {path, diskPath} BY <1>0, <1>8 DEF WriterAt, NamesInv
  <2> QED BY <1>8, <2>1 DEF Leaves, TypeOK
<1>9. CASE WriteTemp(p) BY <1>8, <1>9 DEF WriteTemp
<1>10. CASE Dies(p)
  <2>1. UNCHANGED <<path, diskPath, lostUpdate>> /\ pc'[p] = "ended"
        /\ \A q \in Processes \ {p} : current'[q] = current[q]
    BY <1>10 DEF Dies, Ends, Goto, TypeOK
  <2>2. CASE data' = data BY <1>1, <2>1, <2>2
  <2>3. CASE pc[p] = "write" /\ data' = [data EXCEPT ![fd[p]] = Torn] BY <1>8, <2>1, <2>3
  <2> QED BY <1>10, <2>2, <2>3 DEF Dies
<1>11. CASE RenameTemp(p)
  <2>1. temp # NoInode /\ data[temp] = mem[p] BY <1>0, <1>11 DEF RenameTemp, WriterAt
  <2> QED BY <1>11, <2>1 DEF RenameTemp, Replaces, Goto, TypeOK
<1>12. CASE SyncDir(p)
  <2>1. /\ pc[p] = "syncdir" /\ path' = path /\ diskPath' = path
        /\ data' = [i \in Inodes |-> IF i \in {path, temp} \cup Open THEN data[i] ELSE Empty]
    BY <1>12 DEF SyncDir
  <2>2. path # NoInode => data'[path] = data[path] BY <2>1 DEF TypeOK
  <2>3. lostUpdate' = lostUpdate /\ \A q \in Processes \ {p} : current'[q] = current[q]
    BY <1>12 DEF SyncDir, Continue, Ends, TypeOK
  <2> QED BY <2>1, <2>2, <2>3 DEF Leaves
<1> QED
  BY <1>3, <1>4, <1>5, <1>6, <1>7, <1>9, <1>10, <1>11, <1>12 DEF ProcessStep

-----------------------------------------------------------------------------
(* The snapshot *)

\* A manifest made with a profile, and the snapshot it was made with.
OwnProfile(m) == m.profile # None => snapshot \in {m.profile, Torn}

SnapInv ==
  /\ path # NoInode => OwnProfile(data[path])
  /\ diskPath # NoInode => OwnProfile(data[diskPath])
  /\ \A p \in Processes : Holds(p) => OwnProfile(mem[p])

\* A manifest comes into memory as one just made, as the file, or from the
\* manifest that was there, with the same profile.
LEMMA MemoryComesFrom ==
  ASSUME TypeOK, FormInv, NEW p \in Processes, ProcessStep(p) \/ Dies(p), Holds(p)'
  PROVE  \/ /\ Holds(p) /\ mem'[p].profile = mem[p].profile
            /\ snapshot' = snapshot
         \/ path # NoInode /\ mem'[p] = data[path] /\ snapshot' = snapshot
         \/ /\ pc[p] = "snapshot" /\ mem'[p].profile = None /\ snapshot' = snapshot
         \/ /\ pc[p] = "profile" /\ p \in Imports /\ mem'[p].profile \in {p, None}
            /\ snapshot' = p
<1> USE DEF Goto, files
<1>0. TypeOK /\ FormAt(p) BY DEF FormInv
<1>1. CASE Ends(p)
  <2>1. pc'[p] = "ended" BY <1>1 DEF Ends, TypeOK
  <2> QED BY <2>1 DEF Holds, Placed, Writing
<1>2. CASE StartImport(p) \/ TruncateSnapshot(p)
  <2>1. p \in Imports /\ pc'[p] \in {"snapshot", "profile"}
    BY <1>0, <1>2 DEF StartImport, TruncateSnapshot, FormAt, TypeOK
  <2> QED BY <2>1, ProcessesAssumption DEF Holds, Placed, Writing
<1>3. CASE CreateUnsanitized(p)
  BY <1>3 DEF CreateUnsanitized, CreateManifest, Save, TypeOK
<1>4. CASE WriteSnapshot(p)
  BY <1>0, <1>4 DEF WriteSnapshot, CreateManifest, Save, TypeOK, FormAt
<1>5. CASE LoadForProfile(p) \/ LoadForRun(p)
  BY <1>1, <1>5 DEF LoadForProfile, LoadForRun, Loadable, TypeOK
<1>6. CASE CheckSnapshot(p) \/ Acquire(p)
  BY <1>1, <1>6 DEF CheckSnapshot, Acquire, Holds, Placed
<1>7. CASE Begin(p)
  <2>1. Holds(p) /\ mem[p] \in Manifest BY <1>0, <1>7 DEF Begin, FormAt, Holds, Placed
  <2>2. [mem[p] EXCEPT !.status = "AmbiguousSubmission"].profile = mem[p].profile
    BY <2>1, WithStatus DEF Status
  <2> QED BY <1>1, <1>7, <2>1, <2>2, BeginMoves DEF Save, TypeOK
<1>8. CASE Submit(p) \/ Settle(p)
  <2>1. Holds(p) /\ mem[p] \in Manifest BY <1>0, <1>8 DEF Submit, Settle, FormAt, Holds, Placed
  <2>2. \A s \in {"SubmissionStarted", "Success", "AmbiguousSubmission"} :
          [mem[p] EXCEPT !.status = s].profile = mem[p].profile
    BY <2>1, WithStatus DEF Status
  <2>3. snapshot' = snapshot /\ \E s \in {"SubmissionStarted", "Success", "AmbiguousSubmission"} :
          mem' = [mem EXCEPT ![p] = [mem[p] EXCEPT !.status = s]]
    BY <1>8 DEF Submit, Settle, Save
  <2> QED BY <2>1, <2>2, <2>3 DEF TypeOK
<1>9. CASE Post(p) \/ Finish(p)
  BY <1>9 DEF Post, Finish, Save, TypeOK, Holds, Placed
<1>10. CASE OpenTemp(p) \/ WriteTemp(p) \/ SyncTemp(p) \/ BackUp(p)
  BY <1>10 DEF OpenTemp, WriteTemp, SyncTemp, BackUp, Holds, Placed, Writing
<1>11. CASE CheckTemp(p) \/ RenameTemp(p)
  BY <1>1, <1>11 DEF CheckTemp, RenameTemp, Holds, Placed, Writing
<1>12. CASE SyncDir(p)
  BY <1>1, <1>12 DEF SyncDir, Continue, Holds, Placed, Writing
<1>13. CASE Dies(p) BY <1>1, <1>13 DEF Dies
<1> QED
  BY <1>2, <1>3, <1>4, <1>5, <1>6, <1>7, <1>8, <1>9, <1>10, <1>11, <1>12, <1>13 DEF ProcessStep

\* The snapshot is written only by the import that creates the manifest.
LEMMA SnapshotWriter ==
  ASSUME TypeOK, FormInv, NEW p \in Processes, ProcessStep(p) \/ Dies(p)
  PROVE  \/ snapshot' = snapshot
         \/ snapshot' = Torn
         \/ snapshot' = p /\ pc[p] = "profile" /\ p \in Imports
BY DEF ProcessStep, Dies, StartImport, CreateUnsanitized, TruncateSnapshot, WriteSnapshot,
       LoadForProfile, CheckSnapshot, LoadForRun, Acquire, Begin, Submit, Post, Settle, Finish,
       OpenTemp, WriteTemp, SyncTemp, CheckTemp, BackUp, RenameTemp, SyncDir

LEMMA StepKeepsSnapshot ==
  ASSUME TypeOK, FormInv, LockInv, FilesInv, SnapInv, NEW p \in Processes,
         ProcessStep(p) \/ Dies(p)
  PROVE  SnapInv'
<1>1. CASE pc[p] = "profile" /\ p \in Imports /\ snapshot' = p
  <2>1. path = NoInode /\ diskPath = NoInode /\ \A q \in Processes \ {p} : pc[q] \in {"ready", "ended"}
    <3>1. Creates(p) BY <1>1 DEF Creates, BeforeFile
    <3> QED BY <3>1 DEF LockInv, FilesInv, NamesInv
  <2>2. path' = NoInode /\ diskPath' = NoInode
    <3>1. ~Replaces(p) BY <1>1 DEF Replaces
    <3> QED BY <2>1, <3>1, LeavesOrReplaces DEF Leaves
  <2>3. \A q \in Processes \ {p} : ~Holds(q)'
    BY <2>1, StepsAlone DEF Alone, Holds, Placed, Writing
  <2>4. Holds(p)' => OwnProfile(mem[p])'
    <3> SUFFICES ASSUME Holds(p)' PROVE OwnProfile(mem[p])' OBVIOUS
    <3>1. ~Holds(p) BY <1>1, ProcessesAssumption DEF Holds, Placed, Writing
    <3> QED BY <1>1, <2>1, <3>1, MemoryComesFrom DEF OwnProfile
  <2> QED BY <2>2, <2>3, <2>4 DEF SnapInv
<1>2. CASE snapshot' \in {snapshot, Torn} /\ ~(pc[p] = "profile" /\ p \in Imports /\ snapshot' = p)
  <2>1. \A m : OwnProfile(m) => (m.profile # None => snapshot' \in {m.profile, Torn})
    BY <1>2 DEF OwnProfile
  <2>2. path' # NoInode => OwnProfile(data[path])'
    <3>1. CASE Leaves(p) BY <2>1, <3>1 DEF SnapInv, Leaves, OwnProfile
    <3>2. CASE Replaces(p)
      <4>1. OwnProfile(mem[p]) BY <3>2 DEF Replaces, SnapInv, Holds, Placed, Writing
      <4> QED BY <2>1, <3>2, <4>1 DEF Replaces, OwnProfile
    <3> QED BY <3>1, <3>2, LeavesOrReplaces
  <2>3. diskPath' # NoInode => OwnProfile(data[diskPath])'
    <3>1. CASE Leaves(p) BY <2>1, <3>1 DEF SnapInv, Leaves, OwnProfile
    <3>2. CASE Replaces(p) BY <2>1, <3>2 DEF Replaces, SnapInv, OwnProfile
    <3> QED BY <3>1, <3>2, LeavesOrReplaces
  <2>4. \A q \in Processes \ {p} : Holds(q)' => OwnProfile(mem[q])'
    <3>1. \A q \in Processes \ {p} : (Holds(q)' <=> Holds(q)) /\ mem'[q] = mem[q]
      BY StepsAlone DEF Alone, Holds
    <3> QED BY <2>1, <3>1 DEF SnapInv, OwnProfile
  <2>5. Holds(p)' => OwnProfile(mem[p])'
    <3> SUFFICES ASSUME Holds(p)' PROVE OwnProfile(mem[p])' OBVIOUS
    <3>1. CASE Holds(p) /\ mem'[p].profile = mem[p].profile
      BY <2>1, <3>1 DEF SnapInv, OwnProfile
    <3>2. CASE path # NoInode /\ mem'[p] = data[path]
      BY <2>1, <3>2 DEF SnapInv, OwnProfile
    <3>3. CASE mem'[p].profile = None BY <3>3 DEF OwnProfile
    <3> QED BY <1>2, <3>1, <3>2, <3>3, MemoryComesFrom
  <2> QED BY <2>2, <2>3, <2>4, <2>5 DEF SnapInv
<1> QED BY <1>1, <1>2, SnapshotWriter

LEMMA PowerFailsKeepsSnapshot ==
  ASSUME TypeOK, FilesInv, SnapInv, PowerFails
  PROVE  SnapInv'
<1>1. path' \in {path, diskPath} /\ diskPath' = path'
      /\ (path' # NoInode => data'[path'] = data[path'])
  BY PowerFailsKeepsNames
<1>2. \A p \in Processes : pc'[p] \in {"ready", "ended"} BY DEF PowerFails
<1>3. \A p \in Processes : ~Holds(p)' BY <1>2 DEF Holds, Placed, Writing
<1>4. snapshot' \in {snapshot, IF snapshot = None THEN None ELSE Torn} BY DEF PowerFails
<1>5. path' # NoInode => data[path'] \in Manifest /\ OwnProfile(data[path'])
  BY <1>1 DEF FilesInv, NamesInv, SnapInv
<1>6. \A m \in Manifest : OwnProfile(m) => (m.profile # None => snapshot' \in {m.profile, Torn})
  BY <1>4, ContentsAssumption DEF OwnProfile, Manifest
<1> QED BY <1>1, <1>3, <1>5, <1>6 DEF SnapInv, OwnProfile

-----------------------------------------------------------------------------
(* What was sent *)

Unsent == \A i \in Imports : sent[i] = 0

\* On the way through a manifest write to l.
Towards(p, l) == pc[p] \in Writing \cup {"syncdir"} /\ next[p] = l

\* The status of the record in the memory of p, where it decides what p does.
StatusAt(p) ==
  /\ pc[p] = "load" => p \in Resumes
  /\ pc[p] = "submit" \/ Towards(p, "lock") \/ Towards(p, "submit")
       \/ (p \in Imports /\ pc[p] \in {"lock", "begin"}) => mem[p].status = "NotAttempted"
  /\ pc[p] = "post" \/ Towards(p, "post") => mem[p].status = "SubmissionStarted"

\* Once a record was sent, no manifest with the file's name says it was not.
SentIsRecorded ==
  ~Unsent => /\ diskPath # NoInode
             /\ data[path].status # "NotAttempted" /\ data[diskPath].status # "NotAttempted"

\* A process nobody has written after that thinks the record was not attempted has
\* read so, and when it comes to send it, the manifest says that it will.
SendAt(p) ==
  /\ current[p] /\ pc[p] \in Placed /\ mem[p].status = "NotAttempted" /\ path # NoInode =>
       data[path] = mem[p]
  /\ current[p] /\ pc[p] \in Writing /\ next[p] = "post" => data[path].status = "NotAttempted"
  /\ pc[p] = "syncdir" /\ next[p] = "post" => Unsent /\ data[path] = mem[p]
  /\ pc[p] = "post" => Unsent /\ data[path] = mem[p] /\ diskPath = path

SendInv ==
  /\ \A p \in Processes : StatusAt(p)
  /\ ~lostUpdate => SentOnce /\ SentIsRecorded /\ \A p \in Processes : SendAt(p)

LEMMA StepKeepsStatus ==
  ASSUME TypeOK, FormInv, NEW p \in Processes, ProcessStep(p) \/ Dies(p),
         \A q \in Processes : StatusAt(q)
  PROVE  \A q \in Processes : StatusAt(q)'
<1>1. \A q \in Processes \ {p} : StatusAt(q)'
  BY StepsAlone DEF Alone, StatusAt, Towards
<1>2. StatusAt(p)'
  <2> USE DEF Goto, StatusAt, Towards, Writing
  <2>0. TypeOK /\ FormAt(p) /\ StatusAt(p) BY DEF FormInv
  <2>1. Ends(p) => StatusAt(p)' BY DEF Ends, TypeOK
  <2>2. CASE StartImport(p) \/ TruncateSnapshot(p)
    BY <2>2 DEF StartImport, TruncateSnapshot, TypeOK
  <2>3. CASE CreateUnsanitized(p) \/ WriteSnapshot(p)
    BY <2>3 DEF CreateUnsanitized, WriteSnapshot, CreateManifest, Save, TypeOK
  <2>4. CASE LoadForProfile(p) \/ CheckSnapshot(p)
    BY <2>1, <2>4, ProcessesAssumption DEF LoadForProfile, CheckSnapshot, TypeOK
  <2>5. CASE LoadForRun(p)
    BY <2>0, <2>1, <2>5, ProcessesAssumption DEF LoadForRun, TypeOK
  <2>6. CASE Acquire(p) BY <2>0, <2>1, <2>6 DEF Acquire, TypeOK
  <2>7. CASE Begin(p) BY <2>0, <2>1, <2>7, BeginMoves DEF Save, TypeOK
  <2>8. CASE Submit(p) \/ Settle(p)
    <3>1. mem[p] \in Manifest BY <2>0, <2>8 DEF Submit, Settle, FormAt, Holds, Placed
    <3>2. [mem[p] EXCEPT !.status = "SubmissionStarted"].status = "SubmissionStarted"
      BY <3>1, WithStatus DEF Status
    <3> QED BY <2>8, <3>2 DEF Submit, Settle, Save, TypeOK
  <2>9. CASE Post(p) \/ Finish(p) BY <2>9 DEF Post, Finish, Save, TypeOK
  <2>10. CASE OpenTemp(p) \/ WriteTemp(p) \/ SyncTemp(p) \/ BackUp(p)
    BY <2>0, <2>10 DEF OpenTemp, WriteTemp, SyncTemp, BackUp, TypeOK
  <2>11. CASE CheckTemp(p) \/ RenameTemp(p)
    BY <2>0, <2>1, <2>11 DEF CheckTemp, RenameTemp, TypeOK
  <2>12. CASE SyncDir(p)
    <3>1. next[p] \in {"lock", "submit", "post", "finish", "ended"} BY DEF TypeOK
    <3> QED BY <2>0, <2>1, <2>12, <3>1 DEF SyncDir, Continue, TypeOK
  <2>13. CASE Dies(p) BY <2>1, <2>13 DEF Dies
  <2> QED
    BY <2>2, <2>3, <2>4, <2>5, <2>6, <2>7, <2>8, <2>9, <2>10, <2>11, <2>12, <2>13
       DEF ProcessStep
<1> QED BY <1>1, <1>2

\* A POST is made only where the manifest says that it will be.
LEMMA Sends ==
  ASSUME TypeOK, NEW p \in Processes, ProcessStep(p) \/ Dies(p), sent' # sent
  PROVE  pc[p] = "post" /\ sent' = [sent EXCEPT ![mem[p].import] = @ + 1] /\ data' = data
BY DEF ProcessStep, Dies, Ends, Continue, StartImport, CreateUnsanitized, TruncateSnapshot,
       WriteSnapshot, CreateManifest, LoadForProfile, CheckSnapshot, LoadForRun, Acquire, Begin,
       Submit, Post, Settle, Finish, OpenTemp, WriteTemp, SyncTemp, CheckTemp, BackUp, RenameTemp,
       SyncDir, files

\* Whoever is about to send has the lock, so nobody else writes or sends.
LEMMA SenderIsAlone ==
  ASSUME LockInv, NEW p \in Processes, NEW q \in Processes \ {p},
         pc[q] = "post" \/ (pc[q] = "syncdir" /\ next[q] = "post")
  PROVE  /\ pc[p] \notin Writing /\ pc[p] # "post" /\ path # NoInode
<1>1. UnderLock(pc[q], next[q]) /\ ~Creates(q) /\ pc[q] \notin {"ready", "ended"}
  BY DEF UnderLock, Creates, BeforeFile, Writing
<1>2. lock = q /\ path # NoInode BY <1>1 DEF LockInv
<1>3. ~UnderLock(pc[p], next[p]) /\ ~Creates(p) BY <1>2 DEF LockInv
<1> QED BY <1>2, <1>3 DEF LockInv, UnderLock, Creates, BeforeFile

\* Where p goes and with what, for a step that leaves the file to readers.
LEMMA StepKeepsSendAt ==
  ASSUME TypeOK, FormInv, FilesInv, LockInv, SendInv, ~lostUpdate,
         NEW p \in Processes, ProcessStep(p) \/ Dies(p), Leaves(p)
  PROVE  SendAt(p)'
<1> USE DEF Goto, Writing, Placed
<1>0. TypeOK /\ FormAt(p) /\ StatusAt(p) /\ SendAt(p) BY DEF FormInv, SendInv
<1>1. CASE Ends(p)
  <2>1. pc'[p] = "ended" BY <1>1 DEF Ends, TypeOK
  <2> QED BY <2>1 DEF SendAt
<1>2. CASE StartImport(p) \/ TruncateSnapshot(p) \/ LoadForProfile(p) \/ CheckSnapshot(p)
  <2>1. pc'[p] \in {"snapshot", "profile", "load", "ended"}
    BY <1>1, <1>2 DEF StartImport, TruncateSnapshot, LoadForProfile, CheckSnapshot, Ends, TypeOK
  <2> QED BY <2>1 DEF SendAt
<1>3. CASE CreateUnsanitized(p) \/ WriteSnapshot(p)
  <2>1. Creates(p)
    BY <1>3 DEF CreateUnsanitized, WriteSnapshot, LockInv, Creates, BeforeFile
  <2>2. path' = NoInode BY <2>1 DEF LockInv, Leaves
  <2>3. pc'[p] = "open" /\ next'[p] = "lock"
    BY <1>3 DEF CreateUnsanitized, WriteSnapshot, CreateManifest, Save, TypeOK
  <2> QED BY <2>2, <2>3 DEF SendAt
<1>4. CASE LoadForRun(p)
  <2>1. CASE mem' = [mem EXCEPT ![p] = data[path]] /\ Goto(p, "lock") /\ UNCHANGED files
    BY <2>1 DEF SendAt, TypeOK, files
  <2> QED BY <1>1, <1>4, <2>1 DEF LoadForRun
<1>5. CASE Acquire(p)
  <2>1. CASE Goto(p, "begin") /\ pc[p] = "lock" /\ UNCHANGED <<files, mem, current>>
    BY <1>0, <2>1 DEF SendAt, TypeOK, files
  <2> QED BY <1>1, <1>5, <2>1 DEF Acquire
<1>6. CASE Begin(p)
  <2>1. pc[p] = "begin" /\ UNCHANGED files BY <1>6, BeginMoves
  <2>2. CASE \E l \in {"submit", "finish"} : Goto(p, l) /\ UNCHANGED <<mem, current>>
    BY <1>0, <2>1, <2>2 DEF SendAt, TypeOK, files
  <2>3. CASE Save(p, mem[p], "submit") /\ UNCHANGED current
    BY <1>0, <2>1, <2>3 DEF SendAt, Save, TypeOK, files
  <2>4. CASE Save(p, [mem[p] EXCEPT !.status = "AmbiguousSubmission"], "finish")
    <3>1. mem[p] \in Manifest BY <1>0, <2>1 DEF FormAt, Holds
    <3>2. [mem[p] EXCEPT !.status = "AmbiguousSubmission"].status = "AmbiguousSubmission"
      BY <3>1, WithStatus DEF Status
    <3> QED BY <2>1, <2>4, <3>2 DEF SendAt, Save, TypeOK
  <2> QED BY <1>1, <1>6, <2>2, <2>3, <2>4, BeginMoves
<1>7. CASE Submit(p)
  <2>1. pc[p] = "submit" /\ mem[p].status = "NotAttempted" /\ mem[p] \in Manifest
    BY <1>0, <1>7 DEF Submit, StatusAt, FormAt, Holds
  <2>2. path # NoInode
    BY <2>1 DEF LockInv, Creates, BeforeFile
  <2>3. [mem[p] EXCEPT !.status = "SubmissionStarted"].status = "SubmissionStarted"
    BY <2>1, WithStatus DEF Status
  <2>4. /\ pc'[p] = "open" /\ current' = current /\ UNCHANGED files
        /\ mem'[p].status = "SubmissionStarted"
    BY <1>7, <2>3 DEF Submit, Save, TypeOK
  <2> QED BY <1>0, <2>1, <2>2, <2>4 DEF SendAt, files
<1>8. CASE Post(p)
  <2>1. mem'[p].status = "SubmissionStarted" /\ pc'[p] = "settle"
    BY <1>0, <1>8 DEF Post, StatusAt, TypeOK
  <2> QED BY <2>1 DEF SendAt
<1>9. CASE Settle(p)
  <2>1. mem[p] \in Manifest BY <1>0, <1>9 DEF Settle, FormAt, Holds
  <2>2. \A s \in {"Success", "AmbiguousSubmission"} : [mem[p] EXCEPT !.status = s].status = s
    BY <2>1, WithStatus DEF Status
  <2>3. \E s \in {"Success", "AmbiguousSubmission"} :
          mem' = [mem EXCEPT ![p] = [mem[p] EXCEPT !.status = s]]
    BY <1>9 DEF Settle, Save
  <2>4. mem'[p].status # "NotAttempted" BY <2>2, <2>3 DEF TypeOK
  <2>5. pc'[p] = "open" /\ next'[p] = "finish" BY <1>9 DEF Settle, Save, TypeOK
  <2> QED BY <2>4, <2>5 DEF SendAt
<1>10. CASE Finish(p)
  <2>1. /\ pc[p] = "finish" /\ pc'[p] = "open" /\ next'[p] = "ended" /\ mem'[p] = mem[p]
        /\ current' = current /\ UNCHANGED files
    BY <1>10 DEF Finish, Save, TypeOK
  <2> QED BY <1>0, <2>1 DEF SendAt, files
<1>11. CASE OpenTemp(p) \/ WriteTemp(p) \/ SyncTemp(p) \/ BackUp(p) \/ CheckTemp(p)
  <2>1. CASE /\ pc[p] \in Writing /\ pc'[p] \in Writing /\ UNCHANGED <<mem, next, current>>
    <3>1. next[p] = "post" => path # NoInode
      BY <2>1 DEF LockInv, Creates, BeforeFile
    <3> QED BY <1>0, <2>1, <3>1 DEF SendAt, Leaves
  <2> QED
    BY <1>1, <1>11, <2>1 DEF OpenTemp, WriteTemp, SyncTemp, BackUp, CheckTemp, TypeOK
<1>12. CASE RenameTemp(p)
  BY <1>1, <1>12 DEF RenameTemp, Leaves, TypeOK
<1>13. CASE SyncDir(p)
  <2>1. CASE /\ pc[p] = "syncdir" /\ Goto(p, next[p]) /\ diskPath' = path
             /\ UNCHANGED <<mem, next, current, sent>>
    <3>1. path # NoInode BY <2>1 DEF LockInv, Creates, BeforeFile
    <3>2. pc'[p] = next[p] /\ next[p] \in {"lock", "submit", "post", "finish", "ended"}
      BY <2>1 DEF TypeOK
    <3> QED BY <1>0, <2>1, <3>1, <3>2 DEF SendAt, Leaves, Unsent
  <2> QED BY <1>1, <1>13, <2>1 DEF SyncDir, Continue
<1>14. CASE Dies(p) BY <1>1, <1>14 DEF Dies
<1> QED
  BY <1>2, <1>3, <1>4, <1>5, <1>6, <1>7, <1>8, <1>9, <1>10, <1>11, <1>12, <1>13, <1>14
     DEF ProcessStep

LEMMA StepKeepsSent ==
  ASSUME TypeOK, FormInv, FilesInv, LockInv, SendInv, NEW p \in Processes,
         ProcessStep(p) \/ Dies(p)
  PROVE  SendInv'
<1>1. \A q \in Processes : StatusAt(q)' BY StepKeepsStatus DEF SendInv
<1> SUFFICES ASSUME ~lostUpdate'
             PROVE  SentOnce' /\ SentIsRecorded' /\ \A q \in Processes : SendAt(q)'
  BY <1>1 DEF SendInv
<1>2. ~lostUpdate BY LeavesOrReplaces DEF Leaves, Replaces
<1>3. SentOnce /\ SentIsRecorded /\ \A q \in Processes : SendAt(q) BY <1>2 DEF SendInv
<1>4. path \in Inodes \cup {NoInode} /\ sent \in [Imports -> Nat] BY DEF TypeOK
<1>5. CASE Leaves(p) /\ sent' = sent
  <2>1. SentOnce' /\ Unsent' = Unsent BY <1>3, <1>5 DEF SentOnce, Unsent
  <2>2. SentIsRecorded'
    BY <1>3, <1>5, <2>1 DEF SentIsRecorded, Leaves, FilesInv, NamesInv
  <2>3. ASSUME NEW q \in Processes \ {p} PROVE SendAt(q)'
    <3>1. /\ pc'[q] = pc[q] /\ next'[q] = next[q] /\ mem'[q] = mem[q]
          /\ current'[q] = current[q]
      BY <1>5, <2>3, StepsAlone DEF Alone, Leaves
    <3>2. pc[q] \in Writing /\ next[q] = "post" => path # NoInode
      BY DEF LockInv, Creates, BeforeFile, Writing
    <3>3. pc[q] = "post" \/ (pc[q] = "syncdir" /\ next[q] = "post") => path # NoInode
      BY DEF LockInv, Creates, BeforeFile, Writing
    <3> QED BY <1>3, <1>5, <2>1, <3>1, <3>2, <3>3 DEF SendAt, Leaves
  <2>4. SendAt(p)' BY <1>2, <1>5, StepKeepsSendAt
  <2> QED BY <2>1, <2>2, <2>3, <2>4
<1>6. CASE Leaves(p) /\ sent' # sent
  <2>1. pc[p] = "post" /\ sent' = [sent EXCEPT ![mem[p].import] = @ + 1] /\ data' = data
    BY <1>6, Sends
  <2>2. /\ Unsent /\ data[path] = mem[p] /\ diskPath = path /\ path # NoInode
        /\ mem[p].status = "SubmissionStarted"
    <3>1. path # NoInode BY <2>1 DEF LockInv, Creates, BeforeFile, Writing
    <3> QED BY <1>3, <2>1, <3>1 DEF SendAt, SendInv, StatusAt
  <2>3. SentOnce' BY <1>4, <2>1, <2>2 DEF SentOnce, Unsent
  <2>4. path' = path /\ diskPath' = path BY <1>6, <2>2 DEF Leaves
  <2>5. SentIsRecorded' BY <2>1, <2>2, <2>4 DEF SentIsRecorded
  <2>6. ASSUME NEW q \in Processes \ {p} PROVE SendAt(q)'
    <3>1. pc[q] # "post" /\ ~(pc[q] = "syncdir" /\ next[q] = "post")
      BY <2>1, SenderIsAlone
    <3>2. ~(pc[q] \in Writing) BY <2>1, SenderIsAlone
    <3>3. /\ pc'[q] = pc[q] /\ next'[q] = next[q] /\ mem'[q] = mem[q]
          /\ current'[q] = current[q]
      BY <1>6, StepsAlone DEF Alone, Leaves
    <3> QED BY <1>3, <2>1, <2>4, <3>1, <3>2, <3>3 DEF SendAt
  <2>7. SendAt(p)' BY <1>2, <1>6, StepKeepsSendAt
  <2> QED BY <2>3, <2>5, <2>6, <2>7
<1>7. CASE Replaces(p)
  <2>1. SentOnce' /\ Unsent' = Unsent BY <1>3, <1>7 DEF Replaces, SentOnce, Unsent
  <2>2. current[p] BY <1>7 DEF Replaces
  <2>3. pc[p] \in Writing /\ pc[p] \in Placed BY <1>7 DEF Replaces, Writing, Placed
  <2>4. ASSUME ~Unsent PROVE mem[p].status # "NotAttempted"
    <3>1. path # NoInode /\ data[path].status # "NotAttempted"
      BY <1>3, <2>4 DEF SentIsRecorded, FilesInv, NamesInv
    <3> QED BY <1>3, <2>2, <2>3, <3>1 DEF SendAt
  <2>5. SentIsRecorded' BY <1>3, <1>7, <2>1, <2>4 DEF SentIsRecorded, Replaces
  <2>6. ASSUME next[p] = "post" PROVE Unsent
    BY <1>3, <2>2, <2>3, <2>6 DEF SendAt, SentIsRecorded
  <2>7. SendAt(p)'
    BY <1>7, <2>1, <2>6 DEF SendAt, Replaces, Writing
  <2>8. ASSUME NEW q \in Processes \ {p} PROVE SendAt(q)'
    <3>1. pc[q] # "post" /\ ~(pc[q] = "syncdir" /\ next[q] = "post")
      BY <2>3, SenderIsAlone
    <3>2. pc'[q] = pc[q] /\ next'[q] = next[q] /\ ~current'[q]
      BY <1>7, StepsAlone DEF Alone, Replaces
    <3> QED BY <3>1, <3>2 DEF SendAt
  <2> QED BY <2>1, <2>5, <2>7, <2>8
<1> QED BY <1>5, <1>6, <1>7, LeavesOrReplaces

LEMMA PowerFailsKeepsSent ==
  ASSUME TypeOK, FilesInv, SendInv, PowerFails
  PROVE  SendInv'
<1>1. path' \in {path, diskPath} /\ diskPath' = path'
      /\ (path' # NoInode => data'[path'] = data[path'])
  BY PowerFailsKeepsNames
<1>2. \A p \in Processes : pc'[p] \in {"ready", "ended"} BY DEF PowerFails
<1>3. sent' = sent /\ lostUpdate' = lostUpdate BY DEF PowerFails
<1>4. \A p \in Processes : StatusAt(p)' /\ SendAt(p)'
  BY <1>2 DEF StatusAt, SendAt, Towards, Placed, Writing
<1>5. SentOnce => SentOnce' BY <1>3 DEF SentOnce
<1>6. SentIsRecorded => SentIsRecorded'
  BY <1>1, <1>3 DEF SentIsRecorded, Unsent, FilesInv, NamesInv
<1> QED BY <1>3, <1>4, <1>5, <1>6 DEF SendInv

-----------------------------------------------------------------------------
(* The invariant, and what follows from it *)

Inv == TypeOK /\ FormInv /\ LockInv /\ FilesInv /\ SnapInv /\ SendInv

LEMMA InitInv == Init => Inv
<1> SUFFICES ASSUME Init PROVE Inv OBVIOUS
<1>1. TypeOK /\ FormInv BY InitFormed
<1>2. LockInv BY InitLocked
<1>3. FilesInv BY DEF Init, FilesInv, NamesInv, WriterAt, NoInode
<1>4. SnapInv BY DEF Init, SnapInv, Holds, Placed, Writing
<1>5. SendInv
  BY DEF Init, SendInv, StatusAt, Towards, SentOnce, SentIsRecorded, Unsent, SendAt, Placed, Writing
<1> QED BY <1>1, <1>2, <1>3, <1>4, <1>5 DEF Inv

LEMMA NextKeepsInv == ASSUME ~ReusesPath, Inv, [Next]_vars PROVE Inv'
<1> USE DEF Inv
<1>1. CASE PowerFails
  BY <1>1, PowerFailsTyped, PowerFailsKeepsLockInv, PowerFailsKeepsNames,
     PowerFailsKeepsSnapshot, PowerFailsKeepsSent
<1>2. CASE \E p \in Processes : ProcessStep(p) \/ Dies(p)
  <2>1. OneWriter BY LockInvOneWriter
  <2> QED
    BY <1>2, <2>1, StepTyped, StepFormed, StepKeepsLockInv, StepKeepsFiles, StepKeepsSnapshot,
       StepKeepsSent
<1>3. CASE UNCHANGED vars
  <2> USE DEF vars, files
  <2>1. TypeOK' /\ FormInv' BY <1>3 DEF TypeOK, FormInv, FormAt, Holds
  <2>2. LockInv' BY <1>3 DEF LockInv, Creates
  <2>3. FilesInv' BY <1>3 DEF FilesInv, NamesInv, WriterAt
  <2>4. SnapInv' BY <1>3 DEF SnapInv, OwnProfile, Holds
  <2>5. SendInv'
    BY <1>3 DEF SendInv, StatusAt, Towards, SentOnce, SentIsRecorded, Unsent, SendAt
  <2> QED BY <2>1, <2>2, <2>3, <2>4, <2>5
<1> QED BY <1>1, <1>2, <1>3 DEF Next

LEMMA InvHolds == ASSUME ~ReusesPath PROVE Spec => []Inv
BY InitInv, NextKeepsInv, PTL DEF Spec

\* README.md: "Manifest updates are atomic": whoever dies and whenever the power
\* fails, the file is a whole manifest as soon as it is there.
THEOREM ManifestIsWhole == ASSUME ~ReusesPath PROVE Spec => []LiveManifestIsWhole
<1>1. Inv => LiveManifestIsWhole BY DEF Inv, FilesInv, NamesInv, LiveManifestIsWhole
<1> QED BY <1>1, InvHolds, PTL

\* README.md: "the previous valid manifest is preserved as import-results.json.bak":
\* no rename takes away a manifest that is not in the backup.
THEOREM PreviousIsKept == ASSUME ~ReusesPath PROVE Spec => ReplacedIsBackedUp
<1>1. Inv => (\A p \in Processes : pc[p] = "rename" /\ pc'[p] = "syncdir" /\ path # NoInode =>
                backup = data[path])
  BY DEF Inv, FilesInv, WriterAt
<1> QED BY <1>1, InvHolds, PTL DEF ReplacedIsBackedUp

\* The profile snapshot beside a sanitized manifest is that of its import or
\* visibly damaged: a resume never builds its payloads with another one.
THEOREM SnapshotStaysOwn == ASSUME ~ReusesPath PROVE Spec => []SnapshotIsOwn
<1>1. Inv => SnapshotIsOwn
  BY DEF Inv, SnapInv, OwnProfile, SnapshotIsOwn, Loadable
<1> QED BY <1>1, InvHolds, PTL

\* Any number of processes, crashes and power failures send no record twice,
\* unless a process wrote over a manifest that was replaced after it had read it.
THEOREM SentTwiceOnlyAfterLoss == ASSUME ~ReusesPath PROVE Spec => []SentOnceUnlessUpdateLost
<1>1. Inv => SentOnceUnlessUpdateLost BY DEF Inv, SendInv, SentOnceUnlessUpdateLost
<1> QED BY <1>1, InvHolds, PTL

-----------------------------------------------------------------------------
(* atomic_write_manifest implements the file that is replaced whole *)

Offered == {mem[p] : p \in {q \in Processes : pc[q] \in Writing}}

LEMMA OfferedAreManifests == FormInv => Offered \in SUBSET Manifest
BY DEF FormInv, FormAt, Holds, Placed, Offered

LEMMA InitPromise == Init => Promise!Init
BY DEF Init, Promise!Init, ContentsOf, Writing

\* A rename puts an offered manifest into place; what the other writers offer stays.
LEMMA ReplaceImplementsReplace ==
  ASSUME Inv, NEW p \in Processes, ProcessStep(p) \/ Dies(p), Replaces(p)
  PROVE  Promise!Replace
<1>1. ContentsOf(path)' = mem[p] BY DEF Replaces, ContentsOf
<1>2. ContentsOf(diskPath)' = ContentsOf(diskPath) BY DEF Replaces, ContentsOf
<1>3. mem[p] \in Offered BY DEF Replaces, Offered, Writing
<1>4. Offered' \subseteq Offered
  <2>1. \A q \in Processes : pc'[q] \in Writing => pc[q] \in Writing
    BY StepsAlone DEF Inv, Alone, Replaces, Writing
  <2>2. mem' = mem BY DEF Replaces
  <2> QED BY <2>1, <2>2 DEF Offered
<1> QED BY <1>1, <1>2, <1>3, <1>4 DEF Promise!Replace, Offered

\* Any other step leaves what a reader finds, or makes it durable.
LEMMA LeavesImplementsOffer ==
  ASSUME Inv, NEW p \in Processes, Leaves(p), FormInv'
  PROVE  Promise!Offer \/ Promise!Harden
<1>1. ContentsOf(path)' = ContentsOf(path) BY DEF Leaves, ContentsOf
<1>2. Offered' \in SUBSET Manifest
  BY OfferedAreManifests DEF Offered, FormInv, FormAt, Holds, Placed
<1>3. CASE diskPath' = path
  <2>1. ContentsOf(diskPath)' = ContentsOf(path) BY <1>3 DEF Leaves, ContentsOf
  <2> QED BY <1>1, <1>2, <2>1 DEF Promise!Harden, Offered
<1>4. CASE diskPath' = diskPath /\ (diskPath # NoInode => data'[diskPath] = data[diskPath])
  <2>1. ContentsOf(diskPath)' = ContentsOf(diskPath) BY <1>4 DEF ContentsOf
  <2> QED BY <1>1, <1>2, <2>1 DEF Promise!Offer, Offered
<1> QED BY <1>3, <1>4 DEF Leaves

LEMMA PowerFailsImplementsPowerFailure == ASSUME Inv, PowerFails PROVE Promise!PowerFailure
<1>1. path' \in {path, diskPath} /\ diskPath' = path'
      /\ (path' # NoInode => data'[path'] = data[path'])
  BY PowerFailsKeepsNames DEF Inv
<1>2. \A p \in Processes : pc'[p] \notin Writing BY DEF PowerFails, Writing
<1>3. Offered' = {} BY <1>2 DEF Offered
<1>4. ContentsOf(path)' \in {ContentsOf(path), ContentsOf(diskPath)}
      /\ ContentsOf(diskPath)' = ContentsOf(path)'
  BY <1>1 DEF ContentsOf
<1> QED BY <1>3, <1>4 DEF Promise!PowerFailure, Offered

\* Of all file operations of all processes, with crashes and power failures in
\* between, readers see a file that is replaced whole or not at all, and after a
\* power failure the one replaced last or the one last known to be on the disk.
THEOREM ImplementsAtomicManifest == ASSUME ~ReusesPath PROVE Spec => ReplacesAtomically
<1>1. Inv /\ Inv' /\ [Next]_vars => [Promise!Next]_(Promise!vars)
  <2> SUFFICES ASSUME Inv, Inv', [Next]_vars PROVE [Promise!Next]_(Promise!vars) OBVIOUS
  <2>1. CASE PowerFails
    BY <2>1, PowerFailsImplementsPowerFailure DEF Promise!Next
  <2>2. CASE \E p \in Processes : ProcessStep(p) \/ Dies(p)
    <3>1. PICK p \in Processes : ProcessStep(p) \/ Dies(p) BY <2>2
    <3>2. Leaves(p) \/ Replaces(p) BY <3>1, LeavesOrReplaces DEF Inv
    <3>3. FormInv' BY DEF Inv
    <3> QED
      BY <3>1, <3>2, <3>3, ReplaceImplementsReplace, LeavesImplementsOffer DEF Promise!Next
  <2>3. CASE UNCHANGED vars
    BY <2>3 DEF vars, files, Promise!vars, ContentsOf
  <2> QED BY <2>1, <2>2, <2>3 DEF Next
<1> QED BY <1>1, InitPromise, InvHolds, PTL DEF Spec, Promise!Spec, ReplacesAtomically
=============================================================================

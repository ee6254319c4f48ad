--------------------------- MODULE ManifestSharing ---------------------------
(***************************************************************************)
(* Several importer processes given one manifest path: the order in which  *)
(* they load, lock and replace the file, one action per file operation of  *)
(* atomic_write_manifest, with processes that die and power that fails.    *)
(* src/src/recovery/{store,lock}.rs as src/src/import/runner.rs and        *)
(* src/src/main.rs use them.                                               *)
(*                                                                         *)
(* ImportRun takes a manifest write for one step of one process; here the  *)
(* import is cut down to one record and the states in which it matters     *)
(* whether the record is sent.  A file is an inode with contents: the      *)
(* temporary file has one name for all writers, so two of them may hold    *)
(* the same inode, and a rename moves it under a writer that has it open.  *)
(***************************************************************************)
EXTENDS Naturals, FiniteSets

CONSTANTS
  Imports,       \* processes that run a new import
  Resumes,       \* processes that run import --resume
  ReusesPath,    \* may an import be given a path where a manifest already is?
  None,          \* no file, no process, nothing
  Empty,         \* a file just truncated
  Torn           \* a file that holds part of a manifest, or parts of two

ASSUME ProcessesAssumption ==
  /\ Imports \cap Resumes = {}
  /\ IsFiniteSet(Imports) /\ IsFiniteSet(Resumes)
ASSUME ReusesPathAssumption == ReusesPath \in BOOLEAN

Processes == Imports \cup Resumes

Status == {"NotAttempted", "SubmissionStarted", "Success", "AmbiguousSubmission"}

\* A manifest: the import that created it, the profile of that import, if it had
\* one, and the status of its record.
Manifest == {m \in [import : Imports, profile : Imports \cup {None}, status : Status] :
               m.profile \in {m.import, None}}

ASSUME ContentsAssumption ==
  /\ {None, Empty, Torn} \cap (Processes \cup Manifest) = {}
  /\ None # Empty /\ None # Torn /\ Empty # Torn

\* The manifest, its temporary file, the manifest a power failure brings back,
\* and what each process may hold open after it lost its name.
Inodes == 1 .. (Cardinality(Processes) + 3)
NoInode == 0

VARIABLES
  path,        \* the inode named import-results.json
  temp,        \* the inode named import-results.json.tmp
  data,        \* the contents of each inode
  synced,      \* inodes whose contents are on the disk
  diskPath,    \* the name of the manifest as it is on the disk
  backup,      \* the contents of import-results.json.bak
  snapshot,    \* the import whose profile sanitization-profile.snapshot.toml holds
  lock,        \* the process that holds the flock of import-results.json.lock
  pc,          \* where each process is
  next,        \* where it goes on after a manifest write
  fd,          \* the inode it has open as its temporary file
  mem,         \* the manifest in its memory
  profile,     \* the profile its payloads are built with
  current,     \* nobody else has replaced the file since it made or read mem
  sent,        \* POSTs of the record of each import
  lostUpdate   \* a process has replaced a manifest it had not seen

files == <<path, temp, data, synced, diskPath, backup>>
vars == <<files, snapshot, lock, pc, next, fd, mem, profile, current, sent, lostUpdate>>

Writing == {"open", "write", "sync", "check", "backup", "rename"}

TypeOK ==
  /\ path \in Inodes \cup {NoInode} /\ temp \in Inodes \cup {NoInode}
  /\ diskPath \in Inodes \cup {NoInode}
  /\ data \in [Inodes -> Manifest \cup {Empty, Torn}]
  /\ synced \in SUBSET Inodes
  /\ backup \in Manifest \cup {None, Empty, Torn}
  /\ snapshot \in Imports \cup {None, Torn}
  /\ lock \in Processes \cup {None}
  /\ pc \in [Processes -> {"ready", "snapshot", "profile", "load", "lock", "begin",
                           "submit", "post", "syncdir", "settle", "finish", "ended"} \cup Writing]
  /\ next \in [Processes -> {"lock", "submit", "post", "finish", "ended"}]
  /\ fd \in [Processes -> Inodes \cup {NoInode}]
  /\ mem \in [Processes -> Manifest \cup {None}]
  /\ profile \in [Processes -> Imports \cup {None}]
  /\ current \in [Processes -> BOOLEAN]
  /\ sent \in [Imports -> Nat]
  /\ lostUpdate \in BOOLEAN

Init ==
  /\ path = NoInode /\ temp = NoInode /\ diskPath = NoInode
  /\ data = [i \in Inodes |-> Empty] /\ synced = {}
  /\ backup = None /\ snapshot = None /\ lock = None
  /\ pc = [p \in Processes |-> "ready"]
  /\ next = [p \in Processes |-> "ended"]
  /\ fd = [p \in Processes |-> NoInode]
  /\ mem = [p \in Processes |-> None]
  /\ profile = [p \in Processes |-> None]
  /\ current = [p \in Processes |-> FALSE]
  /\ sent = [i \in Imports |-> 0]
  /\ lostUpdate = FALSE

-----------------------------------------------------------------------------
(* Steps of a process *)

Goto(p, l) == pc' = [pc EXCEPT ![p] = l]

\* The process returns, fails or dies: its files are closed and its lock is free.
Ends(p) ==
  /\ Goto(p, "ended")
  /\ lock' = IF lock = p THEN None ELSE lock
  /\ fd' = [fd EXCEPT ![p] = NoInode]
  /\ next' = [next EXCEPT ![p] = "ended"]
  /\ mem' = [mem EXCEPT ![p] = None]
  /\ profile' = [profile EXCEPT ![p] = None]
  /\ current' = [current EXCEPT ![p] = FALSE]
  /\ UNCHANGED <<sent, lostUpdate>>

\* atomic_write_manifest of m, after which the process goes on at l.
Save(p, m, l) ==
  /\ Goto(p, "open")
  /\ next' = [next EXCEPT ![p] = l]
  /\ mem' = [mem EXCEPT ![p] = m]

\* What load_manifest accepts: a file that can be read and parsed.
Loadable == path # NoInode /\ data[path] \in Manifest

-----------------------------------------------------------------------------
(* A new import: profile snapshot, manifest, and only then the lock *)

\* The deployment script gives every import a directory of its own; the default
\* path is one for all imports.
StartImport(p) ==
  /\ p \in Imports /\ pc[p] = "ready"
  /\ ~ReusesPath => /\ path = NoInode
                    /\ \A q \in Imports : pc[q] \in {"ready", "ended"}
  /\ Goto(p, "snapshot")
  /\ \E chosen \in {p, None} : profile' = [profile EXCEPT ![p] = chosen]
  /\ UNCHANGED <<files, snapshot, lock, next, fd, mem, current, sent, lostUpdate>>

CreateManifest(p) ==
  /\ Save(p, [import |-> p, profile |-> profile[p], status |-> "NotAttempted"], "lock")
  /\ current' = [current EXCEPT ![p] = TRUE]
  /\ UNCHANGED <<files, lock, fd, profile, sent, lostUpdate>>

CreateUnsanitized(p) ==
  /\ pc[p] = "snapshot" /\ profile[p] = None
  /\ CreateManifest(p)
  /\ UNCHANGED snapshot

\* Mutant: a snapshot that is there already is kept.
KeepOldSnapshot(p) ==
  /\ pc[p] = "snapshot" /\ profile[p] # None
  /\ IF snapshot = None
     THEN /\ snapshot' = Torn
          /\ Goto(p, "profile")
          /\ UNCHANGED <<files, lock, next, fd, mem, profile, current, sent, lostUpdate>>
     ELSE CreateManifest(p) /\ UNCHANGED snapshot

\* fs::write truncates the snapshot and fills it; a crash may come in between.
TruncateSnapshot(p) ==
  /\ pc[p] = "snapshot" /\ profile[p] # None
  /\ snapshot' = Torn
  /\ Goto(p, "profile")
  /\ UNCHANGED <<files, lock, next, fd, mem, profile, current, sent, lostUpdate>>

WriteSnapshot(p) ==
  /\ pc[p] = "profile" /\ p \in Imports
  /\ snapshot' = p
  /\ CreateManifest(p)

-----------------------------------------------------------------------------
(* A resume: the manifest is loaded for its profile, loaded again for the   *)
(* run, and only then locked                                                *)

LoadForProfile(p) ==
  /\ p \in Resumes /\ pc[p] = "ready"
  /\ IF Loadable
     THEN /\ mem' = [mem EXCEPT ![p] = data[path]]
          /\ Goto(p, "profile")
          /\ UNCHANGED <<lock, next, fd, profile, current, sent, lostUpdate>>
     ELSE Ends(p)
  /\ UNCHANGED <<files, snapshot>>

\* Mutant: the snapshot is used without comparing its hash.
UseSnapshot(p) ==
  /\ p \in Resumes /\ pc[p] = "profile"
  /\ profile' = [profile EXCEPT ![p] = IF mem[p].profile # None THEN snapshot ELSE None]
  /\ Goto(p, "load")
  /\ UNCHANGED <<files, snapshot, lock, next, fd, mem, current, sent, lostUpdate>>

\* The snapshot must have the hash the manifest recorded.
CheckSnapshot(p) ==
  /\ p \in Resumes /\ pc[p] = "profile"
  /\ IF mem[p].profile \in {None, snapshot}
     THEN /\ profile' = [profile EXCEPT ![p] = mem[p].profile]
          /\ Goto(p, "load")
          /\ UNCHANGED <<lock, next, fd, mem, current, sent, lostUpdate>>
     ELSE Ends(p)
  /\ UNCHANGED <<files, snapshot>>

LoadForRun(p) ==
  /\ pc[p] = "load"
  /\ IF Loadable
     THEN /\ mem' = [mem EXCEPT ![p] = data[path]]
          /\ current' = [current EXCEPT ![p] = TRUE]
          /\ Goto(p, "lock")
          /\ UNCHANGED <<lock, next, fd, profile, sent, lostUpdate>>
     ELSE Ends(p)
  /\ UNCHANGED <<files, snapshot>>

-----------------------------------------------------------------------------
(* Both: the lock, and the record under it *)

\* Mutant: the lock is taken whoever holds it.
AcquireShared(p) ==
  /\ pc[p] = "lock"
  /\ lock' = p /\ Goto(p, "begin")
  /\ UNCHANGED <<files, snapshot, next, fd, mem, profile, current, sent, lostUpdate>>

Acquire(p) ==
  /\ pc[p] = "lock"
  /\ IF lock = None
     THEN /\ lock' = p /\ Goto(p, "begin")
          /\ UNCHANGED <<next, fd, mem, profile, current, sent, lostUpdate>>
     ELSE Ends(p)
  /\ UNCHANGED <<files, snapshot>>

\* validate_resume_compatibility: the payloads must be those of the manifest.
Compatible(p) == mem[p].profile = profile[p]

Begin(p) ==
  /\ pc[p] = "begin"
  /\ IF Compatible(p)
     THEN /\ \/ /\ p \in Imports
                /\ Goto(p, "submit")
                /\ UNCHANGED <<next, mem>>
             \/ /\ p \in Resumes /\ mem[p].status = "NotAttempted"
                /\ Save(p, mem[p], "submit")
             \/ /\ p \in Resumes /\ mem[p].status = "SubmissionStarted"
                /\ Save(p, [mem[p] EXCEPT !.status = "AmbiguousSubmission"], "finish")
             \/ /\ p \in Resumes /\ mem[p].status \in {"Success", "AmbiguousSubmission"}
                /\ Goto(p, "finish")
                /\ UNCHANGED <<next, mem>>
          /\ UNCHANGED <<lock, fd, profile, current, sent, lostUpdate>>
     ELSE Ends(p)
  /\ UNCHANGED <<files, snapshot>>

Submit(p) ==
  /\ pc[p] = "submit"
  /\ Save(p, [mem[p] EXCEPT !.status = "SubmissionStarted"], "post")
  /\ UNCHANGED <<files, snapshot, lock, fd, profile, current, sent, lostUpdate>>

Post(p) ==
  /\ pc[p] = "post"
  /\ sent' = [sent EXCEPT ![mem[p].import] = @ + 1]
  /\ Goto(p, "settle")
  /\ UNCHANGED <<files, snapshot, lock, next, fd, mem, profile, current, lostUpdate>>

Settle(p) ==
  /\ pc[p] = "settle"
  /\ \E status \in {"Success", "AmbiguousSubmission"} :
       Save(p, [mem[p] EXCEPT !.status = status], "finish")
  /\ UNCHANGED <<files, snapshot, lock, fd, profile, current, sent, lostUpdate>>

Finish(p) ==
  /\ pc[p] = "finish"
  /\ Save(p, mem[p], "ended")
  /\ UNCHANGED <<files, snapshot, lock, fd, profile, current, sent, lostUpdate>>

-----------------------------------------------------------------------------
(* atomic_write_manifest *)

Open == {fd[q] : q \in Processes}

\* Inodes without a name and not open anywhere.
FreeInodes == Inodes \ ({path, temp, diskPath} \cup Open)

\* create, truncate: the file another writer left or has open is taken over.
OpenTemp(p) ==
  /\ pc[p] = "open"
  /\ LET i == IF temp # NoInode THEN temp ELSE CHOOSE i \in FreeInodes : TRUE
     IN  /\ temp' = i
         /\ data' = [data EXCEPT ![i] = Empty]
         /\ synced' = synced \ {i}
         /\ fd' = [fd EXCEPT ![p] = i]
  /\ Goto(p, "write")
  /\ UNCHANGED <<path, diskPath, backup, snapshot, lock, next, mem, profile, current, sent,
                 lostUpdate>>

\* From the start of the file: what is already there may be longer.
WriteTemp(p) ==
  /\ pc[p] = "write"
  /\ \E contents \in {mem[p]} \cup (IF data[fd[p]] = Empty THEN {} ELSE {Torn}) :
       data' = [data EXCEPT ![fd[p]] = contents]
  /\ synced' = synced \ {fd[p]}
  /\ Goto(p, "sync")
  /\ UNCHANGED <<path, temp, diskPath, backup, snapshot, lock, next, fd, mem, profile,
                 current, sent, lostUpdate>>

\* Mutant: the temporary file is closed without having been flushed.
CloseTemp(p) ==
  /\ pc[p] = "sync"
  /\ fd' = [fd EXCEPT ![p] = NoInode]
  /\ Goto(p, "check")
  /\ UNCHANGED <<files, snapshot, lock, next, mem, profile, current, sent, lostUpdate>>

SyncTemp(p) ==
  /\ pc[p] = "sync"
  /\ synced' = synced \cup {fd[p]}
  /\ fd' = [fd EXCEPT ![p] = NoInode]
  /\ Goto(p, "check")
  /\ UNCHANGED <<path, temp, data, diskPath, backup, snapshot, lock, next, mem, profile,
                 current, sent, lostUpdate>>

\* What is under the temporary name, whoever wrote it, must parse.
CheckTemp(p) ==
  /\ pc[p] = "check"
  /\ IF temp # NoInode /\ data[temp] \in Manifest
     THEN /\ Goto(p, "backup")
          /\ UNCHANGED <<lock, next, fd, mem, profile, current, sent, lostUpdate>>
     ELSE Ends(p)
  /\ UNCHANGED <<files, snapshot>>

\* Mutant: a backup that exists is kept.
BackUpOnce(p) ==
  /\ pc[p] = "backup"
  /\ backup' = IF path = NoInode \/ backup # None THEN backup ELSE data[path]
  /\ Goto(p, "rename")
  /\ UNCHANGED <<path, temp, data, synced, diskPath, snapshot, lock, next, fd, mem, profile,
                 current, sent, lostUpdate>>

BackUp(p) ==
  /\ pc[p] = "backup"
  /\ backup' = IF path = NoInode THEN backup ELSE data[path]
  /\ Goto(p, "rename")
  /\ UNCHANGED <<path, temp, data, synced, diskPath, snapshot, lock, next, fd, mem, profile,
                 current, sent, lostUpdate>>

RenameTemp(p) ==
  /\ pc[p] = "rename"
  /\ IF temp # NoInode
     THEN /\ path' = temp /\ temp' = NoInode
          /\ lostUpdate' = (lostUpdate \/ ~current[p])
          /\ current' = [q \in Processes |-> q = p]
          /\ Goto(p, "syncdir")
          /\ UNCHANGED <<lock, next, fd, mem, profile, sent>>
     ELSE /\ Ends(p)
          /\ UNCHANGED <<path, temp>>
  /\ UNCHANGED <<data, synced, diskPath, backup, snapshot>>

Continue(p) ==
  IF next[p] = "ended" THEN Ends(p)
  ELSE /\ Goto(p, next[p])
       /\ UNCHANGED <<lock, next, fd, mem, profile, current, sent, lostUpdate>>

\* Mutant: the directory is not flushed.
SkipSyncDir(p) ==
  /\ pc[p] = "syncdir"
  /\ Continue(p)
  /\ UNCHANGED <<files, snapshot>>

SyncDir(p) ==
  /\ pc[p] = "syncdir"
  /\ diskPath' = path
  /\ data' = [i \in Inodes |-> IF i \in {path, temp} \cup Open THEN data[i] ELSE Empty]
  /\ synced' = synced \cap ({path, temp} \cup Open)
  /\ Continue(p)
  /\ UNCHANGED <<path, temp, backup, snapshot>>

-----------------------------------------------------------------------------
(* Faults *)

\* A process dies, or an I/O error, a refused authentication or Ctrl-C ends it.
Dies(p) ==
  /\ pc[p] \notin {"ready", "ended"}
  /\ Ends(p)
  /\ data' \in {data} \cup
       (IF pc[p] = "write" THEN {[data EXCEPT ![fd[p]] = Torn]} ELSE {})
  /\ backup' \in {backup} \cup
       (IF pc[p] = "backup" /\ path # NoInode THEN {Torn} ELSE {})
  /\ UNCHANGED <<path, temp, synced, diskPath, snapshot>>

\* The power fails: every process is gone, a rename that was not flushed may be
\* undone, and a file that was not flushed may hold anything.
PowerFails ==
  /\ \E p \in Processes : pc[p] \notin {"ready", "ended"}
  /\ pc' = [p \in Processes |-> IF pc[p] = "ready" THEN "ready" ELSE "ended"]
  /\ fd' = [p \in Processes |-> NoInode]
  /\ lock' = None
  /\ path' \in {path, diskPath}
  /\ diskPath' = path'
  /\ temp' \in {temp, NoInode}
  /\ \E lost \in SUBSET ({path', temp'} \ (synced \cup {NoInode})) :
       data' = [i \in Inodes |-> IF i \in lost THEN Torn ELSE data[i]]
  /\ backup' \in {backup, IF backup = None THEN None ELSE Torn}
  /\ snapshot' \in {snapshot, IF snapshot = None THEN None ELSE Torn}
  /\ next' = [p \in Processes |-> "ended"]
  /\ mem' = [p \in Processes |-> None]
  /\ profile' = [p \in Processes |-> None]
  /\ current' = [p \in Processes |-> FALSE]
  /\ UNCHANGED <<synced, sent, lostUpdate>>

-----------------------------------------------------------------------------

ProcessStep(p) ==
  \/ StartImport(p) \/ CreateUnsanitized(p) \/ TruncateSnapshot(p) \/ WriteSnapshot(p)
  \/ LoadForProfile(p) \/ CheckSnapshot(p) \/ LoadForRun(p)
  \/ Acquire(p) \/ Begin(p) \/ Submit(p) \/ Post(p) \/ Settle(p) \/ Finish(p)
  \/ OpenTemp(p) \/ WriteTemp(p) \/ SyncTemp(p) \/ CheckTemp(p) \/ BackUp(p)
  \/ RenameTemp(p) \/ SyncDir(p)

Next == PowerFails \/ \E p \in Processes : ProcessStep(p) \/ Dies(p)

Spec == Init /\ [][Next]_vars

-----------------------------------------------------------------------------
(* Properties *)

\* README.md: "Manifest updates are atomic": the file, once there, is a whole
\* manifest.
LiveManifestIsWhole == path = NoInode \/ data[path] \in Manifest

\* lock.rs: "Only one import or resume process may update a manifest at a time":
\* never two processes inside atomic_write_manifest, whose temporary file and
\* backup have one name for all.
OneWriter ==
  \A p, q \in Processes : pc[p] \in Writing /\ pc[q] \in Writing => p = q

\* README.md: "the previous valid manifest is preserved as import-results.json.bak":
\* what a rename takes away is in the backup at that moment.
ReplacedIsBackedUp ==
  [][\A p \in Processes : pc[p] = "rename" /\ pc'[p] = "syncdir" /\ path # NoInode =>
       backup = data[path]]_<<pc, path>>

\* README.md: "NOT_ATTEMPTED = safe to submit during resume": no record is sent twice.
SentOnce == \A i \in Imports : sent[i] <= 1

\* Crashes and power failures alone never make a record be sent twice: it takes
\* a process that writes over a manifest it has not read.
SentOnceUnlessUpdateLost == lostUpdate \/ SentOnce

\* The snapshot beside a sanitized manifest is the profile of that import or is
\* visibly damaged; it is never a valid profile of another import.
SnapshotIsOwn ==
  Loadable /\ data[path].profile # None => snapshot \in {data[path].profile, Torn}

\* The file is replaced whole or not at all, also by crashes and power failures.
ContentsOf(i) == IF i = NoInode THEN None ELSE data[i]

Promise == INSTANCE AtomicManifest WITH
  Manifests <- Manifest, NoFile <- None,
  live <- ContentsOf(path), durable <- ContentsOf(diskPath),
  offered <- {mem[p] : p \in {q \in Processes : pc[q] \in Writing}}

ReplacesAtomically == Promise!Spec
=============================================================================

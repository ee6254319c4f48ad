-------------------------------- MODULE Command --------------------------------
(***************************************************************************)
(* main.rs with cli.rs, config.rs and the first half of run_import: the    *)
(* commands of one deployment directory, one process after the other, on   *)
(* files that a user may replace at any moment.                            *)
(*                                                                         *)
(* A hash is represented by what is hashed: two different contents have    *)
(* different hashes.  What happens to a record once it is sent is the      *)
(* subject of ImportRun; here a record is sent once and succeeds, unless   *)
(* the process dies.                                                       *)
(***************************************************************************)
EXTENDS SourceContext, TLC

CONSTANTS
    CommandLines,   \* the command lines that a user may enter
    Scenarios,      \* the files at first, and how many commands and edits follow
    Databases,      \* what plu.mdb may be replaced with, Absent for no file
    Configs,        \* what config.toml may be replaced with
    Profiles        \* what a profile or the snapshot may be replaced with

Kinds == {"analyze", "sanitize", "verify", "test-connection", "import", "none"}

\* The command lines that clap accepts: only an import resumes.
ASSUME CommandLinesAssumption ==
    \A cli \in CommandLines : cli.kind \in Kinds /\ (cli.resume => cli.kind = "import")

\* A deployment directory, and a database whose rows have an order.
InOrder(rows) == Len(rows) \in Nat /\ DOMAIN rows = 1 .. Len(rows)
RowsInOrder(db) ==
    db # Absent => /\ InOrder(db.plu_rows) /\ InOrder(db.ingredient_rows)
                   /\ \A i \in DOMAIN db.plu_rows : IsRow(db.plu_rows[i])

ASSUME ScenariosAssumption ==
    \A s \in Scenarios : /\ DOMAIN s.files = {"db", "config", "profiles", "snapshot"}
                         /\ RowsInOrder(s.files.db)
                         /\ s.left \in [commands : Nat, edits : Nat, deaths : Nat]

ASSUME DatabasesAssumption == \A db \in Databases : RowsInOrder(db)

VARIABLES
    files,      \* plu.mdb, config.toml, the profiles and the profile snapshot
    manifest,   \* import-results.json, Absent before the first import
    run,        \* the process at work
    sent,       \* the payloads that DIGIweb received for this manifest
    last,       \* how the last command ended
    accepted,   \* the import that a verify found ready, Absent when something changed since
    pristine,   \* nothing that the manifest depends on has changed since
    left        \* the commands and edits that are still to come

vars == <<files, manifest, run, sent, last, accepted, pristine, left>>

Idle == [pc |-> "idle"]
Never == [kind |-> "none", resume |-> FALSE, profile |-> Absent, exit |-> 0,
          contacted |-> FALSE, refused |-> FALSE]

(***************************************************************************)
(* effective_command: without a command the deprecated flags of            *)
(* config.toml choose between analyze and import.                          *)
(***************************************************************************)
DefaultConfig == [parses |-> TRUE, startup_ok |-> TRUE, token_url |-> "unset", upsert_path |-> TRUE,
                  secret |-> FALSE, store_number |-> 1, target |-> "default",
                  plu_barcode_type |-> Blank, plu_barcode_ref_no |-> Blank,
                  nutrition_table |-> FALSE, dry_run_inspect_only |-> FALSE, send_only_first_plu |-> FALSE]

LoadedConfig == IF files.config = Absent THEN DefaultConfig ELSE files.config

LegacyCommand(config) ==
    [kind |-> IF config.dry_run_inspect_only THEN "analyze" ELSE "import",
     first_only |-> ~config.dry_run_inspect_only /\ config.send_only_first_plu,
     resume |-> FALSE, profile |-> Absent]

EffectiveCommand(cli, config) == IF cli.kind = "none" THEN LegacyCommand(config) ELSE cli

IsOffline(cmd) == cmd.kind \in {"analyze", "sanitize"}

(***************************************************************************)
(* A command ends: with the code of an error (2 when it is found locally,  *)
(* 3 when DIGIweb cannot be reached), or with the code of its outcome.     *)
(***************************************************************************)
End(exit, refused) ==
    /\ run' = Idle
    /\ last' = [kind |-> run.cmd.kind, resume |-> run.cmd.resume, profile |-> run.cmd.profile,
                exit |-> exit, contacted |-> run.contacted, refused |-> refused]

Refuse == End(2, TRUE) /\ UNCHANGED <<files, manifest, sent, accepted, pristine>>
Goto(pc) == run' = [run EXCEPT !.pc = pc]

(***************************************************************************)
(* run_inner: the configuration, which only the online commands need.      *)
(***************************************************************************)
StartCommand(cli) ==
    /\ run.pc = "idle"
    /\ left.commands > 0
    /\ left' = [left EXCEPT !.commands = @ - 1]
    /\ run' = [pc |-> "config", cmd |-> cli, config |-> Absent, profile |-> Absent, source |-> Absent,
               dataset |-> Absent, context |-> Absent, contacted |-> FALSE, touched |-> FALSE,
               at |-> 0]
    /\ last' = Never
    /\ UNCHANGED <<files, manifest, sent, accepted, pristine>>

ConfigAccepted(cmd, config) ==
    /\ config.parses
    /\ IsOffline(cmd) \/ (files.config # Absent /\ config.startup_ok)

LoadConfig ==
    /\ run.pc = "config"
    /\ LET config == LoadedConfig
           cmd == EffectiveCommand(run.cmd, config)
       IN IF ConfigAccepted(cmd, config)
          THEN /\ run' = [run EXCEPT !.pc = IF cmd.kind = "test-connection" THEN "connection" ELSE "profile",
                                     !.cmd = cmd, !.config = config]
               /\ UNCHANGED <<files, manifest, sent, last, accepted, pristine>>
          ELSE Refuse
    /\ UNCHANGED left

(***************************************************************************)
(* profile_for_import_or_resume: a resume takes the profile of its         *)
(* manifest, from the snapshot beside it, whatever the profile says today. *)
(***************************************************************************)
ProfileReadable(cmd) ==
    IF cmd.resume
    THEN /\ manifest # Absent
         /\ manifest.profile # Absent => files.snapshot = manifest.profile
    ELSE cmd.profile # Absent => ProfileOk(files.profiles[cmd.profile])

ProfileFor(cmd) ==
    IF cmd.resume THEN manifest.profile
    ELSE IF cmd.profile = Absent THEN Absent ELSE files.profiles[cmd.profile]

LoadProfile ==
    /\ run.pc = "profile"
    /\ IF ProfileReadable(run.cmd)
       THEN /\ run' = [run EXCEPT !.pc = "source", !.profile = ProfileFor(run.cmd)]
            /\ UNCHANGED <<files, manifest, sent, last, accepted, pristine>>
       ELSE Refuse
    /\ UNCHANGED left

(***************************************************************************)
(* read_source_context: plu.mdb is hashed, then exported by mdbtools: the  *)
(* two may see different files.  A table that is missing, a required       *)
(* column that is missing, or a profile that names a missing column, ends  *)
(* the command.                                                            *)
(***************************************************************************)
HashSource ==
    /\ run.pc = "source"
    /\ IF files.db # Absent
       THEN /\ run' = [run EXCEPT !.pc = "export", !.source = files.db]
            /\ UNCHANGED <<files, manifest, sent, last, accepted, pristine>>
       ELSE Refuse
    /\ UNCHANGED left

ExportReadable == IF files.db = Absent THEN FALSE ELSE ReadsDataset(files.db)

ExportSource ==
    /\ run.pc = "export"
    /\ IF ExportReadable
       THEN /\ run' = [run EXCEPT !.pc = "context", !.dataset = ReadDataset(files.db, run.config)]
            /\ UNCHANGED <<files, manifest, sent, last, accepted, pristine>>
       ELSE Refuse
    /\ UNCHANGED left

BuildContext ==
    /\ run.pc = "context"
    /\ IF ContextBuilds(run.dataset, run.profile)
       THEN /\ run' = [run EXCEPT !.pc = run.cmd.kind, !.dataset = Absent,
                                  !.context = Context(run.dataset, run.profile)]
            /\ UNCHANGED <<files, manifest, sent, last, accepted, pristine>>
       ELSE Refuse
    /\ UNCHANGED left

ValidPlus == run.context.after.valid_plus

(***************************************************************************)
(* analyze and sanitize.  sanitize also writes the profile it previews as  *)
(* sanitization-profile.snapshot.toml, the name under which an import into *)
(* the same directory keeps its own.                                       *)
(***************************************************************************)
Analyze ==
    /\ run.pc = "analyze"
    /\ End(AnalysisExit(run.context), FALSE)
    /\ UNCHANGED <<files, manifest, sent, accepted, pristine, left>>

Sanitize ==
    /\ run.pc = "sanitize"
    /\ End(SanitizeExit(run.context), FALSE)
    /\ files' = [files EXCEPT !.snapshot = run.profile]
    /\ pristine' = (pristine /\ run.profile = manifest.profile)
    /\ UNCHANGED <<manifest, sent, accepted, left>>

(***************************************************************************)
(* verify and test-connection: the local checks, then the authentication.  *)
(* verify does not look at digiweb.plu_upsert_path, which import needs.    *)
(***************************************************************************)
UrlsParse(config) == config.token_url = "set"
BuildPayloads(plus) == [i \in DOMAIN plus |-> FromPlu(plus[i], run.config)]
AllBuild(plus) == \A i \in DOMAIN plus : PayloadBuilds(plus[i])

Verify ==
    /\ run.pc = "verify"
    /\ IF AllBuild(ValidPlus) /\ UrlsParse(run.config) /\ run.config.secret
       THEN /\ Goto("authenticate")
            /\ UNCHANGED <<files, manifest, sent, last, accepted, pristine>>
       ELSE Refuse
    /\ UNCHANGED left

TestConnection ==
    /\ run.pc = "connection"
    /\ IF UrlsParse(run.config) /\ run.config.secret
       THEN /\ Goto("authenticate")
            /\ UNCHANGED <<files, manifest, sent, last, accepted, pristine>>
       ELSE Refuse
    /\ UNCHANGED left

(***************************************************************************)
(* run_import_command and the first half of run_import.  A new import      *)
(* writes its profile snapshot and its manifest before it looks for the    *)
(* client secret.                                                          *)
(***************************************************************************)
ImportReady ==
    /\ ValidPlus # <<>>
    /\ run.config.token_url # "unset"
    /\ run.config.upsert_path

TargetIdentity(config) == <<config.target, config.store_number>>
SelectRecordsToSend(plus) == IF run.cmd.first_only THEN SubSeq(plus, 1, 1) ELSE plus

ManifestFor(payloads) ==
    [source |-> run.source, target |-> TargetIdentity(run.config), profile |-> run.profile,
     records |-> [i \in DOMAIN payloads |->
                    [plu_number |-> payloads[i].pluno, payload_sha256 |-> payloads[i],
                     status |-> "NOT_ATTEMPTED"]]]

CreateManifest ==
    /\ run.pc = "import"
    /\ ~run.cmd.resume
    /\ LET selected == SelectRecordsToSend(ValidPlus)
       IN IF ImportReady /\ AllBuild(selected)
          THEN /\ manifest' = ManifestFor(BuildPayloads(selected))
               /\ files' = IF run.profile = Absent THEN files
                           ELSE [files EXCEPT !.snapshot = run.profile]
               /\ sent' = {}
               /\ pristine' = ~run.touched
               /\ Goto("compatibility")
               /\ UNCHANGED <<last, accepted>>
          ELSE Refuse
    /\ UNCHANGED left

\* Mutant: a resume authenticates before it compares.
LoadManifestOnline ==
    /\ run.pc = "import"
    /\ run.cmd.resume
    /\ run' = [run EXCEPT !.pc = "compatibility", !.contacted = TRUE]
    /\ UNCHANGED <<files, manifest, sent, last, accepted, pristine, left>>

LoadManifest ==
    /\ run.pc = "import"
    /\ run.cmd.resume
    /\ IF ImportReady
       THEN /\ Goto("compatibility")
            /\ UNCHANGED <<files, manifest, sent, last, accepted, pristine>>
       ELSE Refuse
    /\ UNCHANGED left

(***************************************************************************)
(* selected_plus_from_manifest and validate_resume_compatibility, which a  *)
(* new import passes too: the same source, the same target, and for every  *)
(* record a PLU that is still valid and has the same payload.              *)
(***************************************************************************)
PluFor(record) == ValidPlus[CHOOSE i \in DOMAIN ValidPlus : ValidPlus[i].plu_number = record.plu_number]

\* Mutant: the payload is not compared with the one that was recorded.
PluStillValid(record) ==
    record.plu_number \in Numbers(ValidPlus) /\ PayloadBuilds(PluFor(record))

PayloadMatches(record) ==
    /\ record.plu_number \in Numbers(ValidPlus)
    /\ PayloadBuilds(PluFor(record))
    /\ FromPlu(PluFor(record), run.config) = record.payload_sha256

Compatible ==
    /\ manifest.source = run.source
    /\ manifest.target = TargetIdentity(run.config)
    /\ \A i \in DOMAIN manifest.records : PayloadMatches(manifest.records[i])

Restarted(record) ==
    IF record.status = "SUBMISSION_STARTED" THEN [record EXCEPT !.status = "AMBIGUOUS_SUBMISSION"] ELSE record

CheckCompatibility ==
    /\ run.pc = "compatibility"
    /\ IF Compatible
       THEN /\ manifest' = [manifest EXCEPT !.records = [i \in DOMAIN @ |-> Restarted(@[i])]]
            /\ Goto("secret")
            /\ UNCHANGED <<files, sent, last, accepted, pristine>>
       ELSE Refuse
    /\ UNCHANGED left

LoadSecret ==
    /\ run.pc = "secret"
    /\ IF run.config.secret
       THEN /\ Goto("authenticate")
            /\ UNCHANGED <<files, manifest, sent, last, accepted, pristine>>
       ELSE Refuse
    /\ UNCHANGED left

(***************************************************************************)
(* The authentication: the first contact with DIGIweb.                     *)
(***************************************************************************)
EndContacted(exit) ==
    /\ run' = Idle
    /\ last' = [kind |-> run.cmd.kind, resume |-> run.cmd.resume, profile |-> run.cmd.profile,
                exit |-> exit, contacted |-> TRUE, refused |-> FALSE]

\* Mutant: PLUs that were normalized make the import ready, valid or not.
SourceIsReady == run.context.after.normalized.plus # <<>>

ImportIsReady == ValidPlus # <<>>

Authenticate ==
    /\ run.pc = "authenticate"
    /\ UrlsParse(run.config)
    /\ CASE run.cmd.kind = "import" ->
              /\ run' = [run EXCEPT !.pc = "send", !.contacted = TRUE]
              /\ UNCHANGED <<last, accepted>>
         [] run.cmd.kind = "verify" ->
              /\ EndContacted(IF ImportIsReady THEN 0 ELSE 2)
              /\ accepted' = IF ImportIsReady /\ ~run.touched THEN [profile |-> run.cmd.profile]
                             ELSE Absent
         [] OTHER ->
              /\ EndContacted(0)
              /\ UNCHANGED accepted
    /\ UNCHANGED <<files, manifest, sent, pristine, left>>

AuthenticationFails ==
    /\ run.pc = "authenticate"
    /\ EndContacted(3)
    /\ UNCHANGED <<files, manifest, sent, accepted, pristine, left>>

(***************************************************************************)
(* The records, in the order of the manifest: a record is saved as         *)
(* SUBMISSION_STARTED, then the payload of this run is sent.               *)
(***************************************************************************)
Unsent == {i \in DOMAIN manifest.records : manifest.records[i].status = "NOT_ATTEMPTED"}

\* Mutant: the record is sent before it is saved as SUBMISSION_STARTED.
BeginAttemptUnsaved ==
    /\ run.pc = "send"
    /\ Unsent # {}
    /\ run' = [run EXCEPT !.pc = "post", !.at = Min(Unsent)]
    /\ UNCHANGED <<files, manifest, sent, last, accepted, pristine, left>>

BeginAttempt ==
    /\ run.pc = "send"
    /\ Unsent # {}
    /\ manifest' = [manifest EXCEPT !.records[Min(Unsent)].status = "SUBMISSION_STARTED"]
    /\ run' = [run EXCEPT !.pc = "post", !.at = Min(Unsent)]
    /\ UNCHANGED <<files, sent, last, accepted, pristine, left>>

Post ==
    /\ run.pc = "post"
    /\ LET record == manifest.records[run.at]
       IN sent' = sent \cup {[at |-> run.at, target |-> TargetIdentity(run.config),
                              payload |-> FromPlu(PluFor(record), run.config)]}
    /\ manifest' = [manifest EXCEPT !.records[run.at].status = "SUCCESS"]
    /\ Goto("send")
    /\ UNCHANGED <<files, last, accepted, pristine, left>>

AllSent == \A i \in DOMAIN manifest.records : manifest.records[i].status = "SUCCESS"

Finish ==
    /\ run.pc = "send"
    /\ Unsent = {}
    /\ End(IF AllSent THEN 0 ELSE 1, FALSE)
    /\ UNCHANGED <<files, manifest, sent, accepted, pristine, left>>

(***************************************************************************)
(* The process dies between two steps, and a file is replaced at any time. *)
(***************************************************************************)
Dies ==
    /\ run.pc # "idle"
    /\ left.deaths > 0
    /\ left' = [left EXCEPT !.deaths = @ - 1]
    /\ run' = Idle
    /\ UNCHANGED <<files, manifest, sent, last, accepted, pristine>>

Edited(newFiles) ==
    /\ left.edits > 0
    /\ newFiles # files
    /\ left' = [left EXCEPT !.edits = @ - 1]
    /\ files' = newFiles
    /\ run' = IF run.pc = "idle" THEN run ELSE [run EXCEPT !.touched = TRUE]
    /\ accepted' = Absent
    /\ pristine' = FALSE
    /\ UNCHANGED <<manifest, sent, last>>

ReplaceDatabase == \E db \in Databases : Edited([files EXCEPT !.db = db])
ReplaceConfig == \E config \in Configs : Edited([files EXCEPT !.config = config])
ReplaceProfile == \E profile \in Profiles : Edited([files EXCEPT !.profiles[1] = profile])
ReplaceSnapshot == \E profile \in Profiles : Edited([files EXCEPT !.snapshot = profile])

(***************************************************************************)
(* Specification                                                           *)
(***************************************************************************)
Init ==
    /\ \E s \in Scenarios : files = s.files /\ left = s.left
    /\ manifest = Absent
    /\ run = Idle
    /\ sent = {}
    /\ last = Never
    /\ accepted = Absent
    /\ pristine = FALSE

Next ==
    \/ \E cli \in CommandLines : StartCommand(cli)
    \/ LoadConfig \/ LoadProfile \/ HashSource \/ ExportSource \/ BuildContext
    \/ Analyze \/ Sanitize \/ Verify \/ TestConnection
    \/ CreateManifest \/ LoadManifest \/ CheckCompatibility \/ LoadSecret
    \/ Authenticate \/ AuthenticationFails \/ BeginAttempt \/ Post \/ Finish
    \/ Dies \/ ReplaceDatabase \/ ReplaceConfig \/ ReplaceProfile \/ ReplaceSnapshot

Spec == Init /\ [][Next]_vars

(***************************************************************************)
(* Properties                                                              *)
(***************************************************************************)
Stages == {"idle", "config", "profile", "source", "export", "context", "analyze", "sanitize",
           "verify", "import", "connection", "compatibility", "secret", "authenticate", "send", "post"}
HasContext == run.pc \in {"analyze", "sanitize", "verify", "import", "compatibility", "secret",
                          "send", "post"}

(* TypeOK: the stage of the process, the file that a manifest needs, and   *)
(* what a run, a record and the last exit code may be.                     *)
TypeOK ==
    /\ run.pc \in Stages
    /\ run.pc \in {"compatibility", "secret", "send", "post"} => manifest # Absent
    /\ HasContext => run.context # Absent
    /\ run.pc = "post" => manifest.records[run.at].status = "SUBMISSION_STARTED"
    /\ manifest # Absent =>
          \A i \in DOMAIN manifest.records :
              manifest.records[i].status \in
                {"NOT_ATTEMPTED", "SUBMISSION_STARTED", "SUCCESS", "AMBIGUOUS_SUBMISSION"}
    /\ last.exit \in 0 .. 3
    /\ pristine => manifest # Absent
    /\ left \in [commands : Nat, edits : Nat, deaths : Nat]

(* ValidPlusAreUnambiguous: a PLU that a command counts as valid is the    *)
(* only PLU of its number among those that were normalized, shares its     *)
(* barcode with no other valid PLU, and has a payload: what import sends   *)
(* never overwrites another row, and never fails for its payload halfway   *)
(* (validate_plus, valid_plu_candidates, from_plu).                        *)
ValidPlusAreUnambiguous ==
    HasContext =>
        LET plus == run.context.after.normalized.plus
            valid == ValidPlus
        IN \A i \in DOMAIN valid :
              /\ Cardinality({j \in DOMAIN plus : plus[j].plu_number = valid[i].plu_number}) = 1
              /\ \A j \in DOMAIN valid : valid[j].barcode = valid[i].barcode => i = j
              /\ PayloadBuilds(valid[i])

(* FillsOnlyEmpty: a profile changes no cell that holds a value, except a  *)
(* selling date that its rule does not allow (a value that only loses its  *)
(* padding stays the same number), and a PLU that becomes valid through it *)
(* is one that the sanitization report lists as changed, unless only       *)
(* padding was removed, or it shared its barcode with one that the report  *)
(* lists (apply_profile, integration_from_parts).                          *)
KeepsTerm(raw, value, rule) == value = CleanMdbValue(raw) \/ ~(raw \in Int /\ TermAllowed(rule, raw))

FreedBy(raw, j, changed) ==
    \E k \in DOMAIN raw : /\ raw[k].number \in changed
                          /\ Normalizes(raw[j]) /\ Normalizes(raw[k])
                          /\ BarcodeData(raw[j]) = BarcodeData(raw[k])

FillsOnlyEmpty ==
    HasContext /\ run.profile # Absent =>
        LET raw == run.context.raw.plu_rows
            rows == run.context.dataset.plu_rows
            summary == run.context.summary
        IN /\ Len(rows) = Len(raw)
           /\ \A i \in DOMAIN raw : \A f \in DOMAIN raw[i] :
                 rows[i][f] # raw[i][f] =>
                    \/ f \in TargetFields /\ raw[i][f] \in {Blank, Padding}
                    \/ /\ f = "bestBefore"
                       /\ HasTermRule(run.profile)
                       /\ KeepsTerm(raw[i][f], rows[i][f], run.profile.term)
           /\ \A i \in DOMAIN raw :
                 raw[i].number \in summary.recovered_numbers \ summary.changed_numbers =>
                    \E j \in DOMAIN raw :
                       /\ raw[j].number = raw[i].number
                       /\ raw[j].bestBefore = PaddedFive \/ FreedBy(raw, j, summary.changed_numbers)

(***************************************************************************)
(* ExitZeroMeansImportable: every row is counted once, as a placeholder,   *)
(* as invalid or as valid, and sanitize exits 0 only when every row that   *)
(* is no placeholder can be imported and no record that it changed is      *)
(* marked invalid: the exit code is computed from the counts, the marks    *)
(* from the issues and the numbers (build_sanitization_report).            *)
ExitZeroMeansImportable ==
    HasContext =>
        LET context == run.context
            rows == context.dataset.plu_rows
        IN /\ Len(rows) = context.after.placeholder_ignored + context.after.invalid_source_rows
                           + Len(ValidPlus)
           /\ SanitizeExit(context) = 0 =>
                 /\ \A i \in DOMAIN rows :
                       \/ Normalizes(rows[i]) /\ rows[i].number \in Numbers(ValidPlus)
                       \/ rows[i].number = 0 /\ Name(rows[i]) = <<>>
                 /\ run.profile # Absent => context.summary.invalid_records = {}

(* ReportsAddUp: what analyze reports agrees with the valid PLUs: the      *)
(* PluIng rows matched to them are those the PLUs themselves count, their  *)
(* groups hold each of them once, and the departments and groups that the  *)
(* user is asked to confirm are theirs (analysis/collector.rs).            *)
ReportsAddUp ==
    HasContext =>
        LET context == run.context
            valid == ValidPlus
            groups == GroupRequirements(valid)
            departments == DepartmentRequirements(valid)
        IN /\ IngredientAnalysis(context).rows_matched_to_valid_plus
                 = SumFunction([i \in DOMAIN valid |-> valid[i].source_pluing_row_count])
           /\ Len(valid) = SumFunction([g \in DOMAIN groups |-> groups[g].explicit + groups[g].defaulted])
           /\ UNION {departments[d] : d \in DOMAIN departments} = Numbers(valid)
           /\ {g[1] : g \in DOMAIN groups} = DOMAIN departments

(* RefusedBeforeContact: a command that is refused for what is wrong       *)
(* locally has not contacted DIGIweb, and an offline command never does    *)
(* (README.md: "If any identity check fails, resume stops before           *)
(* authentication or API submission.").                                    *)
RefusedBeforeContact ==
    /\ last.refused => ~last.contacted
    /\ last.kind \in {"analyze", "sanitize"} => ~last.contacted

(* SentAsRecorded: whatever is edited between the steps of an import, of   *)
(* its resumes and of other commands, DIGIweb receives for a record the    *)
(* payload that was recorded when the PLUs were selected, at the target    *)
(* that was recorded (validate_resume_compatibility).                      *)
SentAsRecorded ==
    \A s \in sent :
        /\ s.at \in DOMAIN manifest.records
        /\ s.payload = manifest.records[s.at].payload_sha256
        /\ s.target = manifest.target

(* AcceptedStaysAccepted: what a command accepted is not refused by the    *)
(* next one while nothing has changed: an import that verify found ready   *)
(* starts, if digiweb.plu_upsert_path is set, and a resume of a manifest   *)
(* goes on, as soon as there is a client secret.                           *)
AcceptedStaysAccepted ==
    last.kind = "import" /\ last.refused =>
        IF last.resume
        THEN pristine => ~LoadedConfig.secret
        ELSE accepted # Absent /\ accepted.profile = last.profile => ~LoadedConfig.upsert_path
=============================================================================

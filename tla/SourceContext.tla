----------------------------- MODULE SourceContext -----------------------------
(***************************************************************************)
(* read_source_context of main.rs: what every command that reads plu.mdb   *)
(* computes from it.  analysis/collector.rs and sanitization/report.rs     *)
(* derive the two reports from the same rows.                              *)
(*                                                                         *)
(* A database is [has_main_table, columns, plu_rows, ingredient_rows,      *)
(* nutrition_rows, Department, Maingroup]: the columns of the main table,  *)
(* the rows of the three tables, and the status of the reference tables.   *)
(***************************************************************************)
EXTENDS Validation, Sanitization

(***************************************************************************)
(* MdbTools::read_dataset and validate_source_schema.  Without a nutrition *)
(* table of its own the nutrition comes from the rows of PluIng.           *)
(***************************************************************************)
ReadsDataset(db) == db.has_main_table /\ SchemaOk(db.columns)

ReadDataset(db, config) ==
    [plu_rows |-> db.plu_rows,
     ingredient_rows |-> db.ingredient_rows,
     nutrition_rows |-> IF config.nutrition_table THEN db.nutrition_rows ELSE db.ingredient_rows,
     Department |-> db.Department,
     Maingroup |-> db.Maingroup]

(***************************************************************************)
(* One pass over the rows: normalized, validated, counted.                 *)
(***************************************************************************)
Placeholders(issues) == {i \in DOMAIN issues : IsPlaceholderIssue(issues[i])}

\* Mutant: the PLUs that the validation leaves out are not counted.
CountedIssues(report, valid) ==
    Len(report.row_issues) - Cardinality(Placeholders(report.row_issues))

CountedInvalidRows(report, valid) ==
    (Len(report.row_issues) - Cardinality(Placeholders(report.row_issues)))
        + (Len(report.plus) - Len(valid))

Validated(dataset) ==
    LET report == NormalizeDataset(dataset)
        valid == ValidPluCandidates(report.plus)
    IN [normalized |-> report,
        valid_plus |-> valid,
        placeholder_ignored |-> Cardinality(Placeholders(report.row_issues)),
        invalid_source_rows |-> CountedInvalidRows(report, valid)]

(***************************************************************************)
(* still_invalid_plu_numbers: every number an issue names, a warning's     *)
(* too, unless a PLU of that number is valid.                              *)
(***************************************************************************)
StillInvalidNumbers(pass) ==
    LET issues == pass.normalized.row_issues
        plus == pass.normalized.plus
    IN ({issues[i].number : i \in DOMAIN issues} \cup InvalidNumbers(plus)
          \cup {plus[i].plu_number : i \in {j \in DOMAIN plus : WarningFields(plus[j]) # {}}})
       \ (Numbers(pass.valid_plus) \cup {Absent})

(***************************************************************************)
(* The context: the rows as they were and as they are used, both passes,   *)
(* and with a profile what the sanitization report says.                   *)
(***************************************************************************)
Context(dataset, profile) ==
    IF profile = Absent
    THEN LET pass == Validated(dataset)
         IN [raw |-> dataset, dataset |-> dataset, before |-> pass, after |-> pass, summary |-> Absent]
    ELSE LET sanitized == ApplyProfile(dataset, profile)
             before == Validated(dataset)
             after == Validated(sanitized.dataset)
         IN [raw |-> dataset, dataset |-> sanitized.dataset, before |-> before, after |-> after,
             summary |->
                 [source_plus |-> Len(dataset.plu_rows),
                  changed_numbers |-> sanitized.changed_numbers,
                  unchanged_plus |-> Len(dataset.plu_rows) - Cardinality(sanitized.changed_numbers),
                  placeholder_plus |-> sanitized.placeholder_plus,
                  nonempty_values_changed |-> sanitized.nonempty_values_changed,
                  recovered_numbers |-> Numbers(after.valid_plus) \ Numbers(before.valid_plus),
                  invalid_records |-> sanitized.changed_numbers \cap StillInvalidNumbers(after)]]

ContextBuilds(dataset, profile) == profile = Absent \/ Applies(dataset.plu_rows, profile)

SanitizeExit(context) == IF context.after.invalid_source_rows = 0 THEN 0 ELSE 1

(***************************************************************************)
(* ingredient_analysis: where the rows of PluIng belong.  A row that       *)
(* matches a placeholder is also an orphan of the normalization.           *)
(***************************************************************************)
KeysOf(plus) == {<<plus[i].plu_number, plus[i].department_number>> : i \in DOMAIN plus}

PlaceholderKeys(context) ==
    LET rows == context.dataset.plu_rows
        placeholder == \E i \in DOMAIN context.after.normalized.row_issues :
                           IsPlaceholderIssue(context.after.normalized.row_issues[i])
    IN {JoinKey(rows[i]) : i \in {j \in DOMAIN rows : placeholder /\ HasKey(rows[j]) /\ rows[j].number = 0}}

IngredientAnalysis(context) ==
    LET rows == context.dataset.ingredient_rows
        valid == KeysOf(context.after.valid_plus)
        placeholders == PlaceholderKeys(context) \ valid
        invalid == (KeysOf(context.after.normalized.plus) \ valid) \ placeholders
        matching(keys) ==
            Cardinality({i \in DOMAIN rows : HasKey(rows[i]) /\ JoinKey(rows[i]) \in keys})
        unmatched == Len(rows) - matching(valid \cup placeholders \cup invalid)
        orphans == context.after.normalized.orphan_pluing_rows
    IN [total_pluing_rows |-> Len(rows),
        rows_matched_to_valid_plus |-> matching(valid),
        rows_matched_to_placeholders |-> matching(placeholders),
        rows_matched_to_invalid_plus |-> matching(invalid),
        unmatched_rows |-> IF orphans > unmatched THEN orphans ELSE unmatched,
        duplicate_matches |-> {k \in valid : Len(Joined(rows, k)) > 1}]

(***************************************************************************)
(* What a valid PLU refers to in DIGIweb: the departments and the groups   *)
(* that the report asks to confirm.                                        *)
(***************************************************************************)
DepartmentRequirements(plus) ==
    [d \in {plus[i].department_number : i \in DOMAIN plus} |->
        {plus[i].plu_number : i \in {j \in DOMAIN plus : plus[j].department_number = d}}]

GroupKey(plu) == <<plu.department_number, plu.group_number>>
GroupRequirements(plus) ==
    [g \in {GroupKey(plus[i]) : i \in DOMAIN plus} |->
        LET members == {j \in DOMAIN plus : GroupKey(plus[j]) = g}
        IN [plu_numbers |-> {plus[j].plu_number : j \in members},
            explicit |-> Cardinality({j \in members : ~plus[j].group_default_applied}),
            defaulted |-> Cardinality({j \in members : plus[j].group_default_applied})]]

Warnings(context) ==
    LET normalized == context.after.normalized
        ingredient == IngredientAnalysis(context)
        applies == [SOURCE_MAINGROUP_EMPTY |-> context.dataset.Maingroup = "EMPTY",
                    SOURCE_DEPARTMENT_EMPTY |-> context.dataset.Department = "EMPTY",
                    UNMATCHED_PLUING_ROWS |-> ingredient.unmatched_rows > 0,
                    PLUING_DUPLICATE_MATCH |-> ingredient.duplicate_matches # {},
                    PLACEHOLDER_ROWS_IGNORED |-> context.after.placeholder_ignored > 0,
                    DEFAULT_GROUP_APPLIED |-> normalized.defaulted_group_references > 0,
                    INVALID_GROUP_VALUES |-> normalized.invalid_group_values > 0]
    IN {w \in DOMAIN applies : applies[w]}

AnalysisStatus(context) ==
    IF context.after.valid_plus = <<>> THEN "FAIL"
    ELSE IF Warnings(context) # {} THEN "PASS_WITH_WARNINGS" ELSE "PASS"
AnalysisExit(context) == IF AnalysisStatus(context) = "FAIL" THEN 2 ELSE 0
=============================================================================

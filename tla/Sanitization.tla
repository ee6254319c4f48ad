----------------------------- MODULE Sanitization -----------------------------
(***************************************************************************)
(* sanitization/profile.rs and engine.rs: what a profile may say, and how  *)
(* it fills the empty fields of the rows in memory.                        *)
(*                                                                         *)
(* A profile is [safety, rules, term]: whether its two safety switches are *)
(* on, a sequence of rules [field, action, value], and the rule of the     *)
(* selling date or Absent.                                                 *)
(***************************************************************************)
EXTENDS Normalization

(* PaddedFive: the text 5 followed by NUL characters. *)
CONSTANT PaddedFive

ASSUME PaddedFiveAssumption == PaddedFive \notin Int /\ PaddedFive \notin {Absent, Blank}

TargetFields == {"dept", "barcode", "format", "label"}

IsEmpty(v) == v \in {Blank, Padding}

(***************************************************************************)
(* SanitizationProfile::validate.                                          *)
(***************************************************************************)
TermAllowed(rule, value) == (rule.allow_zero /\ value = 0) \/ value \in rule.minimum .. rule.maximum

TermRuleOk(rule) ==
    /\ rule.minimum > 0
    /\ rule.maximum >= rule.minimum
    /\ TermAllowed(rule, rule.empty_value)
    /\ TermAllowed(rule, rule.invalid_value)

ConstantOk(rule) ==
    CASE rule.field = "dept" -> PositiveU32(rule.value)
      [] rule.field = "barcode" -> IsDigits(rule.value)
      [] OTHER -> IsU32(rule.value)

ProfileOk(profile) ==
    /\ profile.safety
    /\ \A i, j \in DOMAIN profile.rules : profile.rules[i].field = profile.rules[j].field => i = j
    /\ \A i \in DOMAIN profile.rules :
           profile.rules[i].action = "set_constant" => ConstantOk(profile.rules[i])
    /\ profile.term # Absent => TermRuleOk(profile.term)

(***************************************************************************)
(* Only a row with a positive number and a name is filled; a product whose *)
(* name is in Name 2 to Name 4 only passes for a placeholder here.         *)
(***************************************************************************)
IsCandidateProduct(row) ==
    /\ PositiveU32(row.number)
    /\ LET name == IF row.name1 # Absent THEN row.name1 ELSE row.altName
       IN name # Absent /\ ~IsEmpty(name)

RuleValue(row, rule) ==
    IF rule.action = "set_constant" THEN rule.value
    ELSE IF rule.field = "barcode" THEN DigitsOf(row.number) ELSE row.number

\* Mutant: a value that is no number is filled like an empty one.
FilledUnlessNumber(row, rule) == IsEmpty(row[rule.field]) \/ row[rule.field] = Words

FilledBy(row, rule) == IsEmpty(row[rule.field])

(***************************************************************************)
(* The selling date: an empty value is replaced by the rule's empty_value, *)
(* a value that is no number or outside the range by its invalid_value.    *)
(* A value that is kept is written back without its padding.               *)
(***************************************************************************)
HasTermRule(profile) == IF profile.term = Absent THEN FALSE ELSE profile.term.enabled
CleanMdbValue(v) == IF v = Padding THEN Blank ELSE IF v = PaddedFive THEN 5 ELSE v

TermOutcome(value, rule) ==
    IF value = Blank THEN "empty_defaulted"
    ELSE IF value \notin Int THEN "malformed_value"
    ELSE IF TermAllowed(rule, value) THEN "preserved"
    ELSE "outside_allowed_range"

ApplyTerm(original, rule) ==
    LET cleaned == CleanMdbValue(original)
        outcome == TermOutcome(cleaned, rule)
    IN CASE outcome = "preserved" -> cleaned
         [] outcome = "empty_defaulted" -> rule.empty_value
         [] OTHER -> rule.invalid_value

TermChanges(row, rule) == TermOutcome(CleanMdbValue(row.bestBefore), rule) # "preserved"

(***************************************************************************)
(* apply_profile: the columns a rule names must exist as soon as there is  *)
(* a row to fill; the fields that changed in a row are those it records.   *)
(***************************************************************************)
RuleFor(profile, field) == CHOOSE i \in DOMAIN profile.rules : profile.rules[i].field = field

ColumnsExist(row, profile) ==
    /\ \A i \in DOMAIN profile.rules : row[profile.rules[i].field] # Absent
    /\ HasTermRule(profile) => row.bestBefore # Absent

Applies(rows, profile) ==
    /\ ProfileOk(profile)
    /\ \A i \in DOMAIN rows : IsCandidateProduct(rows[i]) => ColumnsExist(rows[i], profile)

ChangedFields(row, profile) ==
    IF ~IsCandidateProduct(row) THEN {}
    ELSE {f \in TargetFields : \E i \in DOMAIN profile.rules :
                                   profile.rules[i].field = f /\ FilledBy(row, profile.rules[i])}
         \cup (IF HasTermRule(profile) /\ TermChanges(row, profile.term) THEN {"bestBefore"} ELSE {})

SanitizedRow(row, profile) ==
    IF ~IsCandidateProduct(row) THEN row
    ELSE [f \in DOMAIN row |->
            IF f = "bestBefore" /\ HasTermRule(profile) THEN ApplyTerm(row.bestBefore, profile.term)
            ELSE IF f \in ChangedFields(row, profile)
                 THEN RuleValue(row, profile.rules[RuleFor(profile, f)])
                 ELSE row[f]]

NonemptyCorrected(row, profile) ==
    "bestBefore" \in ChangedFields(row, profile) /\ ~IsEmpty(row.bestBefore)

ApplyProfile(dataset, profile) ==
    LET rows == dataset.plu_rows
        changed(r) == ChangedFields(r, profile) # {}
    IN [dataset |-> [dataset EXCEPT !.plu_rows = [i \in DOMAIN rows |-> SanitizedRow(rows[i], profile)]],
        changed_numbers |-> {rows[i].number : i \in {j \in DOMAIN rows : changed(rows[j])}},
        placeholder_plus |-> Len(SelectSeq(rows, LAMBDA r : ~IsCandidateProduct(r))),
        nonempty_values_changed |-> Len(SelectSeq(rows, LAMBDA r : NonemptyCorrected(r, profile)))]
=============================================================================

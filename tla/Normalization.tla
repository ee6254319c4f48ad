---------------------------- MODULE Normalization ----------------------------
(***************************************************************************)
(* source/mapping.rs and source/schema.rs: how a row of plu.mdb becomes a  *)
(* PLU, or the one issue it is reported for.                               *)
(*                                                                         *)
(* A cell of a table is what the code tells apart of its text:             *)
(*   Absent   the table has none of the columns that the code looks for    *)
(*   Blank    empty or only white space                                    *)
(*   Padding  only NUL characters: not blank for trim(), empty for a rule  *)
(*            of a sanitization profile                                    *)
(*   Words    a text that is neither empty nor a number                    *)
(*   Long     the same, longer than DIGIweb accepts                        *)
(*   an integer, the text of that number, or, for a barcode, a sequence of *)
(*   digits (leading zeros matter there until the text is padded).         *)
(***************************************************************************)
EXTENDS Integers, Sequences, FiniteSets, FiniteSetsExt

CONSTANTS Absent, Blank, Padding, Words, Long

ASSUME TextsAssumption == \A text \in {Absent, Blank, Padding, Words, Long} : text \notin Int

\* A row: the cell that the code finds for each name it looks for.
Cells == {"number", "dept", "price", "category", "mode", "quantity", "symbol", "name1", "names",
          "altName", "group", "barcode", "format", "flag", "tare", "discount", "bestBefore", "label",
          "shortDesc", "keyLabel", "expiration"}
IsRow(row) == row = [f \in Cells |-> row[f]]

Found(v) == v \notin {Absent, Blank}
Trimmed(v) == IF Found(v) THEN v ELSE Blank
IsU32(v) == v \in Nat
IsDecimal(v) == v \in Int
OptionalU32(v) == Found(v) => IsU32(v)
PositiveU32(v) == IF IsU32(v) THEN v > 0 ELSE FALSE
ValueOr(v, default) == IF Found(v) THEN v ELSE default

(***************************************************************************)
(* The columns without which a main table is refused as a whole.           *)
(***************************************************************************)
RequiredColumns == {"number", "dept", "group", "name1", "price", "barcode", "format", "flag"}
SchemaOk(columns) == RequiredColumns \subseteq columns

(***************************************************************************)
(* Digits of a number, and the barcode of a PLU: the flag data padded to   *)
(* two digits, then the barcode padded to five, or to six in format 4.     *)
(***************************************************************************)
IsDigits(v) == v \notin {Absent, Blank, Padding, Words, Long}
DigitsOf(n) ==
    LET width == CHOOSE w \in 1 .. 9 : n < 10^w /\ (w = 1 \/ n >= 10^(w - 1))
    IN [i \in 1 .. width |-> (n \div 10^(width - i)) % 10]
LeftPad(text, width) ==
    IF Len(text) >= width THEN text ELSE [i \in 1 .. width - Len(text) |-> 0] \o text

BarcodeOk(row) ==
    /\ IsDigits(row.barcode)
    /\ OptionalU32(row.format)
    /\ OptionalU32(row.flag)
BarcodeFormat(row) == ValueOr(row.format, 5)
BarcodeData(row) ==
    LeftPad(DigitsOf(ValueOr(row.flag, 0)), 2)
        \o LeftPad(row.barcode, IF BarcodeFormat(row) = 4 THEN 6 ELSE 5)
BarcodeReference(row) == IF BarcodeFormat(row) = 0 THEN 1 ELSE BarcodeFormat(row)

(***************************************************************************)
(* The price mode: the Category column decides when the table has it, a    *)
(* PriceMode column otherwise.                                             *)
(***************************************************************************)
HasCategory(row) == row.category # Absent
CategoryOf(row) == IF Trimmed(row.category) = Blank THEN 0 ELSE row.category
PriceModeOk(row) ==
    HasCategory(row) =>
        /\ OptionalU32(row.symbol)
        /\ CategoryOf(row) = 1 => OptionalU32(row.quantity)
PriceModeFromSource(v) ==
    IF v = 0 THEN "ByWeight" ELSE IF v = 1 THEN "ByEach"
    ELSE IF v = 2 THEN "FixedWeight" ELSE "Unknown"
PriceMode(row) ==
    IF ~HasCategory(row) THEN PriceModeFromSource(row.mode)
    ELSE IF CategoryOf(row) \in {0, 3} THEN "ByWeight"
    ELSE IF CategoryOf(row) = 1 THEN "ByEach" ELSE "Unknown"
PriceCalcMethod(row) ==
    IF ~HasCategory(row) \/ PriceMode(row) = "Unknown" THEN Absent
    ELSE IF CategoryOf(row) = 3 THEN 1 ELSE 0
Quantity(row) ==
    IF PriceCalcMethod(row) = Absent THEN Absent
    ELSE IF CategoryOf(row) = 1 THEN ValueOr(row.quantity, 0) ELSE 0
QuantitySymbol(row) == IF HasCategory(row) THEN ValueOr(row.symbol, 0) ELSE Absent

(***************************************************************************)
(* The name: the nonempty lines among Name 1 to Name 4 (the lines after    *)
(* the first as one sequence), or one of the older name columns.           *)
(***************************************************************************)
NameLines(row) == SelectSeq(<<row.name1>> \o row.names, Found)
Name(row) == IF NameLines(row) # <<>> THEN NameLines(row) ELSE SelectSeq(<<row.altName>>, Found)

DefaultGroup == 997
GroupDefaulted(row) == ~Found(row.group)

(***************************************************************************)
(* What stays of a sequence is given by its positions, not by SelectSeq,   *)
(* of which the provers know nothing.                                      *)
(***************************************************************************)
AtPositions(s, S) ==
    [k \in 1 .. Cardinality(S) |-> s[CHOOSE i \in S : Cardinality({j \in S : j <= i}) = k]]

(***************************************************************************)
(* The rows of PluIng join a PLU by its number and department.             *)
(***************************************************************************)
HasKey(row) == IsU32(row.number) /\ PositiveU32(row.dept)
JoinKey(row) == <<row.number, row.dept>>
\* Mutant: the department of a row is not compared.
JoinedByNumber(rows, key) ==
    AtPositions(rows, {i \in DOMAIN rows : HasKey(rows[i]) /\ rows[i].number = key[1]})

Joined(rows, key) ==
    AtPositions(rows, {i \in DOMAIN rows : HasKey(rows[i]) /\ JoinKey(rows[i]) = key})
Ingredients(rows, key) ==
    LET texts == SelectSeq(Joined(rows, key), LAMBDA r : Found(r.text))
    IN [i \in DOMAIN texts |-> texts[i].text]
NutritionFacts(rows, key) ==
    LET facts == SelectSeq(Joined(rows, key), LAMBDA r : Found(r.fact))
    IN [i \in DOMAIN facts |-> facts[i].fact]

(***************************************************************************)
(* normalize_plu reads the fields in this order and stops at the first one *)
(* that is wrong.  The days of expiration are no such field: a value that  *)
(* is no number is dropped.                                                *)
(***************************************************************************)
FieldChecks(row) ==
    << <<"plu_number", IsU32(row.number)>>,
       <<"department_number", PositiveU32(row.dept)>>,
       <<"price", IsDecimal(row.price)>>,
       <<"price_mode", PriceModeOk(row)>>,
       <<"name", Name(row) # <<>> >>,
       <<"group_number", Found(row.group) => PositiveU32(row.group)>>,
       <<"barcode", BarcodeOk(row)>>,
       <<"tare", Found(row.tare) => IsDecimal(row.tare)>>,
       <<"discount_type", OptionalU32(row.discount)>>,
       <<"selling_date_term", OptionalU32(row.bestBefore)>>,
       <<"label_format", OptionalU32(row.label)>> >>

WrongFields(row) == {i \in 1 .. 11 : ~FieldChecks(row)[i][2]}
Normalizes(row) == WrongFields(row) = {}

RowIssue(row) ==
    LET field == FieldChecks(row)[Min(WrongFields(row))][1]
    IN [number |-> IF field = "plu_number" THEN Absent ELSE row.number, field |-> field]

NormalizedPlu(row, dataset) ==
    [plu_number |-> row.number,
     department_number |-> row.dept,
     group_number |-> ValueOr(row.group, DefaultGroup),
     group_default_applied |-> GroupDefaulted(row),
     name |-> Name(row),
     barcode |-> BarcodeData(row),
     barcode_type |-> BarcodeFormat(row),
     barcode_ref_no |-> BarcodeReference(row),
     price |-> row.price,
     price_mode |-> PriceMode(row),
     price_calc_method |-> PriceCalcMethod(row),
     quantity |-> Quantity(row),
     quantity_symbol |-> QuantitySymbol(row),
     tare |-> ValueOr(row.tare, 0),
     discount_type |-> ValueOr(row.discount, 0),
     selling_date_term |-> ValueOr(row.bestBefore, 0),
     label_format |-> ValueOr(row.label, Absent),
     short_description |-> ValueOr(row.shortDesc, Absent),
     key_label |-> ValueOr(row.keyLabel, Absent),
     expiration_days |-> IF IsU32(row.expiration) THEN row.expiration ELSE Absent,
     ingredients |-> Ingredients(dataset.ingredient_rows, JoinKey(row)),
     nutrition_facts |-> NutritionFacts(dataset.nutrition_rows, JoinKey(row)),
     source_pluing_row_count |-> Len(Joined(dataset.ingredient_rows, JoinKey(row)))]

(***************************************************************************)
(* normalize_dataset: the PLUs in the order of their rows, the issues of   *)
(* the other rows, and the counters of the log and of the analysis.        *)
(***************************************************************************)
NormalizeDataset(dataset) ==
    LET rows == dataset.plu_rows
        normalizing == {i \in DOMAIN rows : Normalizes(rows[i])}
        good == AtPositions(rows, normalizing)
        bad == AtPositions(rows, DOMAIN rows \ normalizing)
        plus == [i \in DOMAIN good |-> NormalizedPlu(good[i], dataset)]
        activeKeys == {JoinKey(good[i]) : i \in DOMAIN good}
        orphan(r) == ~HasKey(r) \/ JoinKey(r) \notin activeKeys
    IN [plus |-> plus,
        row_issues |-> [i \in DOMAIN bad |-> RowIssue(bad[i])],
        orphan_pluing_rows |-> Len(SelectSeq(dataset.ingredient_rows, orphan)),
        explicit_group_references |-> Cardinality({i \in DOMAIN plus : ~plus[i].group_default_applied}),
        defaulted_group_references |-> Cardinality({i \in DOMAIN plus : plus[i].group_default_applied}),
        invalid_group_values |-> Len(SelectSeq(bad, LAMBDA r : RowIssue(r).field = "group_number"))]

(***************************************************************************)
(* is_empty_placeholder_issue: number 0 and no name.  Only the issue of    *)
(* the name counts, so a placeholder whose department or price is empty,   *)
(* which is found first, is an invalid row.                                *)
(***************************************************************************)
IsPlaceholderIssue(issue) == issue.number = 0 /\ issue.field = "name"
=============================================================================

------------------------------- MODULE MCCommand -------------------------------
(***************************************************************************)
(* The rows, files and command lines of the model checking of Command.     *)
(* Every database has a row that differs from a good one in one field, and *)
(* a second row that may collide with it.                                  *)
(***************************************************************************)
EXTENDS Command

Good(n) ==
    [number |-> n, dept |-> 1, price |-> 100, category |-> 0, mode |-> Absent, quantity |-> Blank,
     symbol |-> Blank, name1 |-> Words, names |-> <<>>, altName |-> Absent, group |-> 5,
     barcode |-> <<n>>, format |-> 5, flag |-> 2, tare |-> Blank, discount |-> Blank,
     bestBefore |-> 10, label |-> 3, shortDesc |-> Absent, keyLabel |-> Absent, expiration |-> Blank]

Values ==
    [number |-> {Blank, Words, 0, 1000000}, dept |-> {Blank, Padding, Words, 0, 2, 100},
     price |-> {Blank, Words, -1}, category |-> {Blank, Padding, 1, 3, 7},
     quantity |-> {Words, 4}, symbol |-> {Words}, name1 |-> {Blank, Padding, Long},
     names |-> {<<Words, Blank, Words>>}, group |-> {Blank, Words, 0},
     barcode |-> {Blank, Padding, Words, <<0, 2>>, [i \in 1 .. 33 |-> 1]},
     format |-> {Blank, Words, 0, 4}, flag |-> {Blank, Words, 21}, tare |-> {Words, 3},
     discount |-> {Words, 1}, bestBefore |-> {Blank, Padding, Words, -1, 0, 1500, PaddedFive},
     label |-> {Blank, Words}, expiration |-> {Words, 7, 1500}]

Perturbed(row) == {row} \cup UNION {{[row EXCEPT ![f] = v] : v \in Values[f]} : f \in DOMAIN Values}

NoName(row) == [row EXCEPT !.name1 = Blank]
SecondRows ==
    {Good(2), [Good(2) EXCEPT !.dept = Blank], [Good(2) EXCEPT !.barcode = Blank],
     [Good(1) EXCEPT !.dept = 3, !.barcode = <<9>>], [Good(2) EXCEPT !.barcode = <<1>>],
     [Good(2) EXCEPT !.category = Absent, !.mode = 2], NoName(Good(0))}

PluIng(n, d, text, fact) == [number |-> n, dept |-> d, text |-> text, fact |-> fact]
IngredientRows == <<PluIng(1, 1, Words, 4), PluIng(1, 1, Blank, Blank), PluIng(0, 1, Words, Blank),
                    PluIng(7, Blank, Words, Blank)>>

Database(rows) ==
    [has_main_table |-> TRUE, columns |-> RequiredColumns, plu_rows |-> rows,
     ingredient_rows |-> IngredientRows, nutrition_rows |-> <<>>,
     Department |-> "EMPTY", Maingroup |-> "ABSENT"]

Plain == Database(<<Good(1), Good(2)>>)
Fillable == Database(<<[Good(1) EXCEPT !.barcode = Blank], Good(2)>>)
Unusable == Database(<<[Good(1) EXCEPT !.price = -1], [Good(1) EXCEPT !.barcode = <<9>>]>>)
SameBarcode == Database(<<[Good(1) EXCEPT !.format = Blank], [Good(2) EXCEPT !.barcode = <<1>>]>>)
LongText == [Plain EXCEPT !.ingredient_rows = <<PluIng(1, 1, Long, Blank)>>,
                           !.nutrition_rows = <<PluIng(2, 1, Blank, 5)>>]
Odd == {[Plain EXCEPT !.has_main_table = FALSE], [Plain EXCEPT !.columns = @ \ {"flag"}],
        Database(<<>>), LongText}

Rule(field, action, value) == [field |-> field, action |-> action, value |-> value]
TermRule == [enabled |-> TRUE, allow_zero |-> TRUE, minimum |-> 1, maximum |-> 999,
             invalid_value |-> 0, empty_value |-> 0]
Starsky == [safety |-> TRUE, term |-> TermRule,
            rules |-> <<Rule("dept", "set_constant", 1), Rule("barcode", "copy_field", Absent),
                        Rule("format", "set_constant", 5), Rule("label", "set_constant", 0)>>]
Narrow == [safety |-> TRUE, rules |-> <<Rule("barcode", "set_constant", <<9>>)>>,
           term |-> [TermRule EXCEPT !.enabled = FALSE]]
Reformat == [Narrow EXCEPT !.rules = <<Rule("format", "set_constant", 4)>>]
Wrong == [Starsky EXCEPT !.term.empty_value = 1000]
Twice == [Narrow EXCEPT !.rules = @ \o @]
Unsafe == [Narrow EXCEPT !.safety = FALSE]

Online == [DefaultConfig EXCEPT !.token_url = "set", !.secret = TRUE]
OddConfigs == {Absent, [Online EXCEPT !.startup_ok = FALSE], [Online EXCEPT !.parses = FALSE],
               [Online EXCEPT !.secret = FALSE], [Online EXCEPT !.upsert_path = FALSE],
               [Online EXCEPT !.token_url = "malformed"], [Online EXCEPT !.nutrition_table = TRUE],
               [Online EXCEPT !.dry_run_inspect_only = TRUE], [Online EXCEPT !.send_only_first_plu = TRUE]}

Line(kind, profile) == [kind |-> kind, first_only |-> FALSE, resume |-> FALSE, profile |-> profile]

MCCommandLines ==
    {Line("analyze", Absent), Line("analyze", 1), Line("sanitize", 1), Line("sanitize", 2), Line("verify", Absent),
     Line("verify", 1), Line("test-connection", Absent), Line("import", Absent), Line("import", 1),
     [Line("import", Absent) EXCEPT !.first_only = TRUE],
     [Line("import", Absent) EXCEPT !.resume = TRUE], Line("none", Absent)}

Scenario(db, config, profile, commands, edits, deaths) ==
    [files |-> [db |-> db, config |-> config, profiles |-> <<profile, Narrow>>, snapshot |-> Absent],
     left |-> [commands |-> commands, edits |-> edits, deaths |-> deaths]]

MCScenarios ==
    {Scenario(Database(<<a, b>>), Online, Starsky, 1, 0, 0) : a \in Perturbed(Good(1)), b \in SecondRows}
        \cup {Scenario(db, Online, Starsky, 1, 0, 0) : db \in Odd \cup {Absent}}
        \cup {Scenario(Fillable, config, Starsky, 2, 0, 0) : config \in OddConfigs}
        \cup {Scenario(Fillable, Online, profile, 1, 0, 0) : profile \in {Wrong, Twice, Unsafe}}
        \cup {Scenario(SameBarcode, Online, Reformat, 1, 0, 0)}
        \cup {Scenario(Unusable, Online, Starsky, 2, 0, 0), Scenario(Fillable, Online, Starsky, 3, 1, 1)}

MCDatabases == {Absent, Plain, Fillable}
MCConfigs == {[Online EXCEPT !.plu_barcode_type = 7], [Online EXCEPT !.target = "other"],
              [Online EXCEPT !.store_number = 2]}
MCProfiles == {Narrow}
=============================================================================

------------------------------ MODULE Validation ------------------------------
(***************************************************************************)
(* validation/validator.rs: the limits that DIGIweb sets, the numbers and  *)
(* barcodes that two PLUs must not share, and the PLUs that remain.        *)
(* digiweb/payload.rs: what such a PLU is sent as.                         *)
(***************************************************************************)
EXTENDS Normalization

MaxPluNumber == 999999
MaxCommodityLines == 5
MaxDays == 999
MaxBarcodeLength == 32

Departments == 1 .. 99

(***************************************************************************)
(* What validate_plus reports of the i-th PLU.  Of two PLUs that share a   *)
(* number or a barcode only the later one is reported, and an earlier one  *)
(* counts even when it is itself wrong.                                    *)
(***************************************************************************)
SeenBefore(plus, i, field) == \E j \in 1 .. i - 1 : plus[j][field] = plus[i][field]

IssueFields(plus, i) ==
    LET plu == plus[i]
        wrong ==
            [plu_number |-> \/ plu.plu_number \notin 1 .. MaxPluNumber
                            \/ SeenBefore(plus, i, "plu_number"),
             name |-> \/ Len(plu.name) > MaxCommodityLines
                      \/ \E l \in DOMAIN plu.name : plu.name[l] = Long,
             price |-> plu.price < 0,
             price_mode |-> plu.price_mode = "Unknown",
             department_number |-> plu.department_number \notin Departments,
             barcode |-> \/ Len(plu.barcode) > MaxBarcodeLength
                         \/ SeenBefore(plus, i, "barcode"),
             expiration_days |-> plu.expiration_days # Absent /\ plu.expiration_days > MaxDays,
             selling_date_term |-> plu.selling_date_term > MaxDays,
             ingredients |-> \E l \in DOMAIN plu.ingredients : plu.ingredients[l] = Long]
    IN {f \in DOMAIN wrong : wrong[f]}

WarningFields(plu) == {f \in {"short_description", "key_label"} : plu[f] = Long}

(***************************************************************************)
(* valid_plu_candidates: an error of one PLU takes every PLU of the same   *)
(* number out, because an issue carries only the number.                   *)
(***************************************************************************)
InvalidNumbers(plus) == {plus[i].plu_number : i \in {j \in DOMAIN plus : IssueFields(plus, j) # {}}}

\* Mutant: only the PLU that an issue was found in is taken out.
UnflaggedPlus(plus) == AtPositions(plus, {i \in DOMAIN plus : IssueFields(plus, i) = {}})

ValidPluCandidates(plus) ==
    LET invalid == InvalidNumbers(plus)
    IN AtPositions(plus, {i \in DOMAIN plus : plus[i].plu_number \notin invalid})

Numbers(plus) == {plus[i].plu_number : i \in DOMAIN plus}

(***************************************************************************)
(* DigiwebPluPayload::from_plu.  The department, the group and the barcode *)
(* are always there in a PLU that has been normalized; the price mode may  *)
(* be one that DIGIweb does not have.  config.toml may override the two    *)
(* barcode references.                                                     *)
(***************************************************************************)
PayloadBuilds(plu) == plu.price_mode # "Unknown"
PriceModeToDigiweb(mode) == IF mode = "ByWeight" THEN 0 ELSE 1

FromPlu(plu, config) ==
    [storeno |-> config.store_number,
     pluno |-> plu.plu_number,
     pludepartmentno |-> plu.department_number,
     plugroupno |-> plu.group_number,
     plubarcodetype |-> ValueOr(config.plu_barcode_type, plu.barcode_type),
     plubarcoderefno |-> ValueOr(config.plu_barcode_ref_no, plu.barcode_ref_no),
     plubarcodedata |-> plu.barcode,
     plucommname |-> plu.name,
     plutexts |-> plu.short_description,
     pluingredients |-> plu.ingredients,
     plupricemode |-> PriceModeToDigiweb(plu.price_mode),
     plupricecalcmethod |-> plu.price_calc_method,
     pluunitprice |-> plu.price,
     pluquantity |-> plu.quantity,
     pluquantitysymbol |-> plu.quantity_symbol,
     plutare |-> plu.tare,
     pludiscounttype |-> plu.discount_type,
     plusellingdateterm |-> plu.selling_date_term,
     pluusingdateterm |-> plu.expiration_days,
     plulabelformat |-> plu.label_format,
     keylabel |-> plu.key_label,
     plunft |-> plu.nutrition_facts]
=============================================================================

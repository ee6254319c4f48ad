---------------------------- MODULE CommandProofs ----------------------------
(***************************************************************************)
(* The commands of one deployment directory, for every set of command      *)
(* lines, databases, configurations and profiles, and any number of        *)
(* commands, edits and deaths: what is refused is refused in time, what is *)
(* sent was recorded and can be told apart, what was accepted stays        *)
(* accepted, what a profile changes is accounted for, and the reports add  *)
(* up.                                                                     *)
(*                                                                         *)
(* A stage knows three things.  StageInv: where it is and for which        *)
(* command.  PassInv: its context is that of some dataset in the order of  *)
(* the table, so what a lemma says of one pass over any table holds of it. *)
(* SendInv: from the comparison on, memory agrees with the manifest.       *)
(* While nothing is edited they also stand on the files as they are        *)
(* (AcceptInv), which is why two commands cannot disagree.                 *)
(***************************************************************************)
EXTENDS Command, FiniteSetTheorems, WellFoundedInduction, TLAPS

(* What AtPositions picks *)

\* The largest element of S is not needed: n bounds S from above.
UpTo(S, i) == {j \in S : j <= i}
Place(S, k) == CHOOSE i \in S : Cardinality(UpTo(S, i)) = k

\* A bounded set of positions, and its part up to a position, can be counted.
LEMMA Countable ==
  ASSUME NEW n \in Nat, NEW S, S \subseteq 1 .. n, NEW i
  PROVE  /\ IsFiniteSet(S) /\ IsFiniteSet(UpTo(S, i))
         /\ Cardinality(S) \in Nat /\ Cardinality(UpTo(S, i)) \in Nat
<1>1. IsFiniteSet(1 .. n) BY FS_Interval
<1>2. IsFiniteSet(S) BY <1>1, FS_Subset
<1>3. UpTo(S, i) \subseteq S BY DEF UpTo
<1>4. IsFiniteSet(UpTo(S, i)) BY <1>2, <1>3, FS_Subset
<1> QED BY <1>2, <1>4, FS_CardinalityType

\* Natural numbers: of those with a property there is a least one.
LEMMA LeastNat ==
  ASSUME NEW S \in SUBSET Nat, S # {}
  PROVE  \E m \in S : \A x \in S : m <= x
<1> DEFINE R == OpToRel(<, Nat)
<1>1. IsWellFoundedOn(R, Nat) BY NatLessThanWellFounded
<1>2. \A x, y \in Nat : <<x, y>> \in R <=> x < y BY DEF OpToRel
<1> HIDE DEF R
<1>3. PICK m \in S : \A x \in S : ~ (<<x, m>> \in R) BY <1>1, WFMin
<1>4. ASSUME NEW x \in S PROVE m <= x
  <2>1. m \in Nat /\ x \in Nat OBVIOUS
  <2>2. ~ (<<x, m>> \in R) BY <1>3
  <2>3. ~ (x < m) BY Zenon, <1>2, <2>1, <2>2
  <2> QED BY <2>1, <2>3
<1> QED BY <1>4

\* There is a k-th position for every k: the first one up to which there are k.
LEMMA PlaceExists ==
  ASSUME NEW n \in Nat, NEW S, S \subseteq 1 .. n, NEW k \in 1 .. Cardinality(S)
  PROVE  Place(S, k) \in S /\ Cardinality(UpTo(S, Place(S, k))) = k
<1> SUFFICES \E i \in S : Cardinality(UpTo(S, i)) = k BY Zenon DEF Place
<1> DEFINE Many == {m \in Nat : Cardinality(UpTo(S, m)) >= k}
<1>0. \A j \in S : j \in Nat /\ j > 0 /\ j <= n OBVIOUS
<1>1. k \in Nat /\ k > 0 /\ k <= Cardinality(S) BY Countable
<1>2. UpTo(S, n) = S BY <1>0 DEF UpTo
<1>3. n \in Many BY <1>1, <1>2, Countable
<1>4. PICK m \in Many : \A x \in Many : m <= x BY <1>3, LeastNat
<1>5. m # 0
  <2>0. \A x \in S : ~ (x <= 0) BY <1>0
  <2>1. UpTo(S, 0) = {} BY <2>0 DEF UpTo
  <2>2. Cardinality(UpTo(S, 0)) = 0 BY <2>1, FS_EmptySet
  <2> QED BY <2>2, <1>1
<1>6. m - 1 \in Nat /\ m - 1 \notin Many BY <1>4, <1>5
<1>7. Cardinality(UpTo(S, m - 1)) < k
  <2>1. ~ (Cardinality(UpTo(S, m - 1)) >= k) BY <1>6
  <2>2. Cardinality(UpTo(S, m - 1)) \in Nat BY Countable
  <2> QED BY <2>1, <2>2, <1>1
<1>8. CASE m \in S
  <2>0. \A x \in S : x <= m <=> x <= m - 1 \/ x = m BY <1>0, <1>6
  <2>1. UpTo(S, m) = UpTo(S, m - 1) \cup {m} BY <1>8, <2>0 DEF UpTo
  <2>2. m \notin UpTo(S, m - 1) BY <1>0, <1>6 DEF UpTo
  <2>3. Cardinality(UpTo(S, m)) = Cardinality(UpTo(S, m - 1)) + 1
    BY <2>1, <2>2, Countable, FS_AddElement
  <2>4. Cardinality(UpTo(S, m)) >= k /\ Cardinality(UpTo(S, m - 1)) \in Nat BY Countable
  <2>5. Cardinality(UpTo(S, m)) = k BY <2>3, <2>4, <1>7, <1>1
  <2> QED BY <1>8, <2>5
<1>9. CASE m \notin S
  <2>0. \A x \in S : x <= m <=> x <= m - 1 BY <1>0, <1>9, <1>6
  <2>1. UpTo(S, m) = UpTo(S, m - 1) BY <2>0 DEF UpTo
  <2>2. Cardinality(UpTo(S, m)) >= k /\ Cardinality(UpTo(S, m)) \in Nat BY Countable
  <2> QED BY <2>1, <2>2, <1>7, <1>1
<1> QED BY <1>8, <1>9

\* A position comes before another one: so does its rank.
LEMMA RankGrows ==
  ASSUME NEW n \in Nat, NEW S, S \subseteq 1 .. n, NEW i \in S, NEW j \in S, i < j
  PROVE  Cardinality(UpTo(S, i)) < Cardinality(UpTo(S, j))
<1>0. \A x \in S : x \in Nat OBVIOUS
<1>1. UpTo(S, i) \subseteq UpTo(S, j)
  <2>1. \A x \in S : x <= i => x <= j BY <1>0
  <2> QED BY <2>1 DEF UpTo
<1>2. j \in UpTo(S, j) /\ j \notin UpTo(S, i)
  <2>1. j <= j /\ ~ (j <= i) BY <1>0
  <2> QED BY <2>1 DEF UpTo
<1>3. UpTo(S, i) # UpTo(S, j) BY <1>2
<1>4. IsFiniteSet(UpTo(S, j)) BY Countable
<1>5. /\ Cardinality(UpTo(S, i)) <= Cardinality(UpTo(S, j))
      /\ Cardinality(UpTo(S, i)) # Cardinality(UpTo(S, j))
  BY <1>1, <1>3, <1>4, FS_Subset
<1>6. Cardinality(UpTo(S, i)) \in Nat /\ Cardinality(UpTo(S, j)) \in Nat BY Countable
<1> QED BY <1>5, <1>6

\* Every position is the k-th one for some k.
LEMMA PlaceOnto ==
  ASSUME NEW n \in Nat, NEW S, S \subseteq 1 .. n, NEW i \in S
  PROVE  \E k \in 1 .. Cardinality(S) : Place(S, k) = i
<1> DEFINE k == Cardinality(UpTo(S, i))
<1>0. \A x \in S : x \in Nat OBVIOUS
<1>1. k \in Nat /\ Cardinality(S) \in Nat BY Countable
<1>2. i \in UpTo(S, i) BY <1>0 DEF UpTo
<1>3. k # 0 BY <1>2, Countable, FS_EmptySet
<1>4. UpTo(S, i) \subseteq S BY DEF UpTo
<1>5. k <= Cardinality(S) BY <1>4, Countable, FS_Subset
<1>6. k \in 1 .. Cardinality(S) BY <1>1, <1>3, <1>5
<1> HIDE DEF k
<1>7. Place(S, k) \in S /\ Cardinality(UpTo(S, Place(S, k))) = k BY <1>6, PlaceExists
<1>8. ~ (Place(S, k) < i) /\ ~ (i < Place(S, k))
  <2>1. k = Cardinality(UpTo(S, i)) BY DEF k
  <2>2. Cardinality(UpTo(S, Place(S, k))) = Cardinality(UpTo(S, i)) BY <1>7, <2>1
  <2>3. ~ (Cardinality(UpTo(S, i)) < Cardinality(UpTo(S, i))) BY <1>1, <2>1
  <2> QED BY <1>7, <2>2, <2>3, RankGrows
<1>9. Place(S, k) \in Nat /\ i \in Nat BY <1>0, <1>7
<1>10. Place(S, k) = i BY <1>8, <1>9
<1> QED BY <1>6, <1>10

\* The k-th element is the one at the k-th position.
LEMMA AtPositionsPicks ==
  ASSUME NEW n \in Nat, NEW S, S \subseteq 1 .. n, NEW s
  PROVE  /\ Cardinality(S) \in Nat
         /\ AtPositions(s, S) = [k \in 1 .. Cardinality(S) |-> s[Place(S, k)]]
         /\ DOMAIN AtPositions(s, S) = 1 .. Cardinality(S)
         /\ \A k \in 1 .. Cardinality(S) : Place(S, k) \in S /\ AtPositions(s, S)[k] = s[Place(S, k)]
         /\ \A k, l \in 1 .. Cardinality(S) : Place(S, k) = Place(S, l) => k = l
         /\ \A i \in S : \E k \in 1 .. Cardinality(S) : AtPositions(s, S)[k] = s[i]
<1>1. Cardinality(S) \in Nat BY Countable
<1>2. AtPositions(s, S) = [k \in 1 .. Cardinality(S) |-> s[Place(S, k)]] BY DEF AtPositions, Place, UpTo
<1>3. \A k \in 1 .. Cardinality(S) : Place(S, k) \in S /\ Cardinality(UpTo(S, Place(S, k))) = k BY PlaceExists
<1>4. \A i \in S : \E k \in 1 .. Cardinality(S) : Place(S, k) = i BY PlaceOnto
<1>5. \A k, l \in 1 .. Cardinality(S) : Place(S, k) = Place(S, l) => k = l BY <1>3
<1> HIDE DEF Place
<1> QED BY <1>1, <1>2, <1>3, <1>4, <1>5

\* Together they are the elements at the positions.
LEMMA PickedAll ==
  ASSUME NEW n \in Nat, NEW S, S \subseteq 1 .. n, NEW s, NEW picked, picked = AtPositions(s, S)
  PROVE  /\ \A k \in DOMAIN picked : \E i \in S : picked[k] = s[i]
         /\ \A i \in S : \E k \in DOMAIN picked : picked[k] = s[i]
<1>1. Cardinality(S) \in Nat BY AtPositionsPicks
<1>2. picked = [k \in 1 .. Cardinality(S) |-> s[Place(S, k)]] BY DEF AtPositions, Place, UpTo
<1>3. \A k \in 1 .. Cardinality(S) : Place(S, k) \in S BY PlaceExists
<1>4. \A i \in S : \E k \in 1 .. Cardinality(S) : Place(S, k) = i BY PlaceOnto
<1> QED BY <1>1, <1>2, <1>3, <1>4

(* The PLUs that remain *)

\* What an error of a PLU is reported for, as far as it is about other PLUs.
LEMMA Flagged ==
  ASSUME NEW plus, NEW i
  PROVE  /\ SeenBefore(plus, i, "plu_number") => IssueFields(plus, i) # {}
         /\ SeenBefore(plus, i, "barcode") => IssueFields(plus, i) # {}
         /\ plus[i].price_mode = "Unknown" => IssueFields(plus, i) # {}
<1>1. SeenBefore(plus, i, "plu_number") => "plu_number" \in IssueFields(plus, i)
  BY DEF IssueFields
<1>2. SeenBefore(plus, i, "barcode") => "barcode" \in IssueFields(plus, i)
  BY DEF IssueFields
<1>3. plus[i].price_mode = "Unknown" => "price_mode" \in IssueFields(plus, i)
  BY DEF IssueFields
<1> QED BY <1>1, <1>2, <1>3

\* The positions of the PLUs that remain.
Remaining(plus) == {i \in DOMAIN plus : plus[i].plu_number \notin InvalidNumbers(plus)}

\* A PLU remains when no PLU of its number is reported.
LEMMA RemainingUnflagged ==
  ASSUME NEW plus, NEW i \in Remaining(plus), NEW j \in DOMAIN plus,
         plus[j].plu_number = plus[i].plu_number
  PROVE  IssueFields(plus, j) = {}
BY DEF Remaining, InvalidNumbers

\* No two of them have one number, or one barcode.
LEMMA RemainingAlone ==
  ASSUME NEW n \in Nat, NEW plus, DOMAIN plus = 1 .. n, NEW i \in Remaining(plus)
  PROVE  /\ \A j \in DOMAIN plus : plus[j].plu_number = plus[i].plu_number => j = i
         /\ \A j \in Remaining(plus) : plus[j].barcode = plus[i].barcode => j = i
         /\ PayloadBuilds(plus[i])
<1>1. i \in 1 .. n /\ Remaining(plus) \subseteq 1 .. n BY DEF Remaining
<1>2. ASSUME NEW j \in DOMAIN plus, plus[j].plu_number = plus[i].plu_number PROVE j = i
  <2>1. IssueFields(plus, j) = {} /\ IssueFields(plus, i) = {} BY <1>1, <1>2, RemainingUnflagged
  <2>2. ~ SeenBefore(plus, j, "plu_number") /\ ~ SeenBefore(plus, i, "plu_number") BY <2>1, Flagged
  <2>3. ~ (i < j) /\ ~ (j < i) BY <1>1, <1>2, <2>2 DEF SeenBefore
  <2> QED BY <1>1, <2>3
<1>3. ASSUME NEW j \in Remaining(plus), plus[j].barcode = plus[i].barcode PROVE j = i
  <2>1. IssueFields(plus, j) = {} /\ IssueFields(plus, i) = {} BY <1>1, <1>3, RemainingUnflagged
  <2>2. ~ SeenBefore(plus, j, "barcode") /\ ~ SeenBefore(plus, i, "barcode") BY <2>1, Flagged
  <2>3. ~ (i < j) /\ ~ (j < i) BY <1>1, <1>3, <2>2 DEF SeenBefore
  <2> QED BY <1>1, <2>3
<1>4. IssueFields(plus, i) = {} BY <1>1, RemainingUnflagged
<1>5. PayloadBuilds(plus[i]) BY <1>4, Flagged DEF PayloadBuilds
<1> QED BY <1>2, <1>3, <1>5

\* valid_plu_candidates keeps the PLUs at those positions, each once.
LEMMA CandidatesRemain ==
  ASSUME NEW n \in Nat, NEW plus, DOMAIN plus = 1 .. n
  PROVE  \E m \in Nat :
           /\ ValidPluCandidates(plus) = [k \in 1 .. m |-> plus[Place(Remaining(plus), k)]]
           /\ \A k \in 1 .. m : Place(Remaining(plus), k) \in Remaining(plus)
           /\ \A k, l \in 1 .. m : Place(Remaining(plus), k) = Place(Remaining(plus), l) => k = l
<1>1. Remaining(plus) \subseteq 1 .. n BY DEF Remaining
<1>2. ValidPluCandidates(plus) = AtPositions(plus, Remaining(plus)) BY DEF ValidPluCandidates, Remaining
<1> QED BY <1>1, <1>2, AtPositionsPicks

\* What normalize_dataset makes of rows that have an order has one, too.
LEMMA NormalizedInOrder ==
  ASSUME NEW n \in Nat, NEW dataset, DOMAIN dataset.plu_rows = 1 .. n
  PROVE  \E m \in Nat : DOMAIN NormalizeDataset(dataset).plus = 1 .. m
<1> DEFINE rows == dataset.plu_rows
           S == {i \in DOMAIN rows : Normalizes(rows[i])}
<1>1. S \subseteq 1 .. n OBVIOUS
<1>2. DOMAIN NormalizeDataset(dataset).plus = DOMAIN AtPositions(rows, S) BY DEF NormalizeDataset
<1> HIDE DEF S
<1> QED BY <1>1, <1>2, AtPositionsPicks

\* What a command may send: one PLU of a number, one of a barcode, with a payload.
UnambiguousIn(plus, valid) ==
  \A i \in DOMAIN valid :
     /\ Cardinality({j \in DOMAIN plus : plus[j].plu_number = valid[i].plu_number}) = 1
     /\ \A j \in DOMAIN valid : valid[j].barcode = valid[i].barcode => i = j
     /\ \A j \in DOMAIN valid : valid[j].plu_number = valid[i].plu_number => i = j
     /\ PayloadBuilds(valid[i])

LEMMA CandidatesUnambiguous ==
  ASSUME NEW n \in Nat, NEW plus, DOMAIN plus = 1 .. n
  PROVE  UnambiguousIn(plus, ValidPluCandidates(plus))
<1> DEFINE valid == ValidPluCandidates(plus)
           P(k) == Place(Remaining(plus), k)
<1>1. PICK m \in Nat :
           /\ valid = [k \in 1 .. m |-> plus[P(k)]]
           /\ \A k \in 1 .. m : P(k) \in Remaining(plus)
           /\ \A k, l \in 1 .. m : P(k) = P(l) => k = l
  BY CandidatesRemain
<1> HIDE DEF valid, P
<1>2. DOMAIN valid = 1 .. m /\ \A k \in 1 .. m : valid[k] = plus[P(k)] BY <1>1
<1>3. ASSUME NEW i \in DOMAIN valid
      PROVE  /\ Cardinality({j \in DOMAIN plus : plus[j].plu_number = valid[i].plu_number}) = 1
             /\ \A j \in DOMAIN valid : valid[j].barcode = valid[i].barcode => i = j
             /\ \A j \in DOMAIN valid : valid[j].plu_number = valid[i].plu_number => i = j
             /\ PayloadBuilds(valid[i])
  <2>1. P(i) \in Remaining(plus) /\ P(i) \in DOMAIN plus /\ valid[i] = plus[P(i)]
    BY <1>1, <1>2, <1>3 DEF Remaining
  <2>2. /\ \A j \in DOMAIN plus : plus[j].plu_number = plus[P(i)].plu_number => j = P(i)
        /\ \A j \in Remaining(plus) : plus[j].barcode = plus[P(i)].barcode => j = P(i)
        /\ PayloadBuilds(plus[P(i)])
    BY <2>1, RemainingAlone
  <2>3. {j \in DOMAIN plus : plus[j].plu_number = valid[i].plu_number} = {P(i)} BY <2>1, <2>2
  <2>4. Cardinality({P(i)}) = 1 BY FS_Singleton
  <2>5. ASSUME NEW j \in DOMAIN valid, valid[j].barcode = valid[i].barcode PROVE i = j
    <3>1. P(j) \in Remaining(plus) /\ valid[j] = plus[P(j)] BY <1>1, <1>2
    <3>2. P(j) = P(i) BY <2>1, <2>2, <2>5, <3>1
    <3> QED BY <1>1, <1>2, <3>2
  <2>6. ASSUME NEW j \in DOMAIN valid, valid[j].plu_number = valid[i].plu_number PROVE i = j
    <3>1. P(j) \in DOMAIN plus /\ valid[j] = plus[P(j)] BY <1>1, <1>2 DEF Remaining
    <3>2. P(j) = P(i) BY <2>1, <2>2, <2>6, <3>1
    <3> QED BY <1>1, <1>2, <3>2
  <2> QED BY <2>1, <2>2, <2>3, <2>4, <2>5, <2>6
<1> QED BY <1>3 DEF UnambiguousIn, valid

(* The stages of a command *)

RunFields == {"pc", "cmd", "config", "profile", "source", "dataset", "context",
              "contacted", "touched", "at"}
IsRun(r) == DOMAIN r = RunFields

\* A run, field by field.
Fields(r, pc, cmd, config, profile, source, dataset, context, contacted, touched, at) ==
  /\ IsRun(r)
  /\ r.pc = pc /\ r.cmd = cmd /\ r.config = config /\ r.profile = profile /\ r.source = source
  /\ r.dataset = dataset /\ r.context = context /\ r.contacted = contacted
  /\ r.touched = touched /\ r.at = at

\* A run goes to another stage, and nothing else changes, or little does.
LEMMA SetsPc ==
  ASSUME NEW r, IsRun(r), NEW pc, NEW n, n = [r EXCEPT !.pc = pc]
  PROVE  Fields(n, pc, r.cmd, r.config, r.profile, r.source, r.dataset, r.context, r.contacted,
                r.touched, r.at)
<1>1. \A f \in RunFields : f \in DOMAIN r BY DEF IsRun
<1> QED BY <1>1 DEF IsRun, Fields, RunFields

\* So with its command and its configuration.
LEMMA SetsConfig ==
  ASSUME NEW r, IsRun(r), NEW pc, NEW x, NEW y, NEW n, n = [r EXCEPT !.pc = pc, !.cmd = x, !.config = y]
  PROVE  Fields(n, pc, x, y, r.profile, r.source, r.dataset, r.context, r.contacted, r.touched,
                r.at)
<1>1. \A f \in RunFields : f \in DOMAIN r BY DEF IsRun
<1> QED BY <1>1 DEF IsRun, Fields, RunFields

\* So with its profile.
LEMMA SetsProfile ==
  ASSUME NEW r, IsRun(r), NEW pc, NEW x, NEW n, n = [r EXCEPT !.pc = pc, !.profile = x]
  PROVE  Fields(n, pc, r.cmd, r.config, x, r.source, r.dataset, r.context, r.contacted,
                r.touched, r.at)
<1>1. \A f \in RunFields : f \in DOMAIN r BY DEF IsRun
<1> QED BY <1>1 DEF IsRun, Fields, RunFields

\* So with its source.
LEMMA SetsSource ==
  ASSUME NEW r, IsRun(r), NEW pc, NEW x, NEW n, n = [r EXCEPT !.pc = pc, !.source = x]
  PROVE  Fields(n, pc, r.cmd, r.config, r.profile, x, r.dataset, r.context, r.contacted,
                r.touched, r.at)
<1>1. \A f \in RunFields : f \in DOMAIN r BY DEF IsRun
<1> QED BY <1>1 DEF IsRun, Fields, RunFields

\* So with its dataset.
LEMMA SetsDataset ==
  ASSUME NEW r, IsRun(r), NEW pc, NEW x, NEW n, n = [r EXCEPT !.pc = pc, !.dataset = x]
  PROVE  Fields(n, pc, r.cmd, r.config, r.profile, r.source, x, r.context, r.contacted,
                r.touched, r.at)
<1>1. \A f \in RunFields : f \in DOMAIN r BY DEF IsRun
<1> QED BY <1>1 DEF IsRun, Fields, RunFields

\* So with its contact with DIGIweb.
LEMMA SetsContacted ==
  ASSUME NEW r, IsRun(r), NEW pc, NEW x, NEW n, n = [r EXCEPT !.pc = pc, !.contacted = x]
  PROVE  Fields(n, pc, r.cmd, r.config, r.profile, r.source, r.dataset, r.context, x, r.touched,
                r.at)
<1>1. \A f \in RunFields : f \in DOMAIN r BY DEF IsRun
<1> QED BY <1>1 DEF IsRun, Fields, RunFields

\* So with its record.
LEMMA SetsRecord ==
  ASSUME NEW r, IsRun(r), NEW pc, NEW x, NEW n, n = [r EXCEPT !.pc = pc, !.at = x]
  PROVE  Fields(n, pc, r.cmd, r.config, r.profile, r.source, r.dataset, r.context, r.contacted,
                r.touched, x)
<1>1. \A f \in RunFields : f \in DOMAIN r BY DEF IsRun
<1> QED BY <1>1 DEF IsRun, Fields, RunFields

\* So with its context.
LEMMA SetsContext ==
  ASSUME NEW r, IsRun(r), NEW pc, NEW x, NEW y, NEW n, n = [r EXCEPT !.pc = pc, !.dataset = x, !.context = y]
  PROVE  Fields(n, pc, r.cmd, r.config, r.profile, r.source, x, y, r.contacted, r.touched, r.at)
<1>1. \A f \in RunFields : f \in DOMAIN r BY DEF IsRun
<1> QED BY <1>1 DEF IsRun, Fields, RunFields

\* Or it is touched, where it is.
LEMMA SetsTouched ==
  ASSUME NEW r, IsRun(r), NEW x, NEW n, n = [r EXCEPT !.touched = x]
  PROVE  Fields(n, r.pc, r.cmd, r.config, r.profile, r.source, r.dataset, r.context, r.contacted,
                x, r.at)
<1>1. \A f \in RunFields : f \in DOMAIN r BY DEF IsRun
<1> QED BY <1>1 DEF IsRun, Fields, RunFields

\* The command that may be at a stage.
KindAt(pc) ==
  CASE pc = "config" -> Kinds
    [] pc \in {"profile", "source", "export", "context"} -> {"analyze", "sanitize", "verify", "import"}
    [] pc \in {"analyze", "sanitize", "verify"} -> {pc}
    [] pc = "connection" -> {"test-connection"}
    [] pc = "authenticate" -> {"verify", "test-connection", "import"}
    [] OTHER -> {"import"}

StageInv ==
  /\ run.pc \in Stages
  /\ run = Idle \/ (run.pc # "idle" /\ IsRun(run))
  /\ run.pc # "idle" => /\ last = Never
                        /\ run.cmd.kind \in KindAt(run.pc)
                        /\ run.cmd.resume => run.cmd.kind = "import"
  /\ run.pc \notin {"idle", "send", "post"} => run.contacted = FALSE

\* The command that a step finds at work.
LEMMA AtWork ==
  ASSUME StageInv, run.pc # "idle"
  PROVE  /\ IsRun(run) /\ last = Never /\ run.pc \in Stages
         /\ run.cmd.kind \in KindAt(run.pc)
         /\ run.cmd.resume => run.cmd.kind = "import"
         /\ run.pc \notin {"send", "post"} => run.contacted = FALSE
BY DEF StageInv, Idle

\* How a step of a command ends it, or goes on.
Refused == Refuse /\ UNCHANGED left
OnlyRun == UNCHANGED <<files, manifest, sent, last, accepted, pristine, left>>

\* The configuration is loaded, or refused.
LEMMA ConfigLoaded ==
  ASSUME StageInv, LoadConfig
  PROVE  /\ run.pc = "config"
         /\ IF ConfigAccepted(EffectiveCommand(run.cmd, LoadedConfig), LoadedConfig)
            THEN OnlyRun /\ Fields(run', IF EffectiveCommand(run.cmd,
                        LoadedConfig).kind = "test-connection" THEN "connection" ELSE "profile",
                        EffectiveCommand(run.cmd, LoadedConfig), LoadedConfig, run.profile,
                        run.source, run.dataset, run.context, run.contacted, run.touched, run.at)
            ELSE Refused
<1>1. /\ run.pc = "config"
      /\ IF ConfigAccepted(EffectiveCommand(run.cmd, LoadedConfig), LoadedConfig)
         THEN OnlyRun /\ run' = [run EXCEPT
                   !.pc = IF EffectiveCommand(run.cmd, LoadedConfig).kind = "test-connection"
                          THEN "connection" ELSE "profile",
                   !.cmd = EffectiveCommand(run.cmd, LoadedConfig), !.config = LoadedConfig]
         ELSE Refused
  BY DEF LoadConfig, OnlyRun, Refused
<1>2. IsRun(run) BY <1>1, AtWork
<1> QED BY <1>1, <1>2, SetsConfig

\* The profile is loaded, or refused.
LEMMA ProfileLoaded ==
  ASSUME StageInv, LoadProfile
  PROVE  /\ run.pc = "profile"
         /\ IF ProfileReadable(run.cmd)
            THEN OnlyRun /\ Fields(run', "source", run.cmd, run.config, ProfileFor(run.cmd), run.source,
                        run.dataset, run.context, run.contacted, run.touched, run.at)
            ELSE Refused
<1>1. /\ run.pc = "profile"
      /\ IF ProfileReadable(run.cmd)
         THEN OnlyRun /\ run' = [run EXCEPT !.pc = "source", !.profile = ProfileFor(run.cmd)]
         ELSE Refused
  BY DEF LoadProfile, OnlyRun, Refused
<1>2. IsRun(run) BY <1>1, AtWork
<1> QED BY <1>1, <1>2, SetsProfile

\* The database is hashed, or it is not there.
LEMMA SourceHashed ==
  ASSUME StageInv, HashSource
  PROVE  /\ run.pc = "source"
         /\ IF files.db # Absent
            THEN OnlyRun /\ Fields(run', "export", run.cmd, run.config, run.profile, files.db, run.dataset,
                        run.context, run.contacted, run.touched, run.at)
            ELSE Refused
<1>1. /\ run.pc = "source"
      /\ IF files.db # Absent
         THEN OnlyRun /\ run' = [run EXCEPT !.pc = "export", !.source = files.db]
         ELSE Refused
  BY DEF HashSource, OnlyRun, Refused
<1>2. IsRun(run) BY <1>1, AtWork
<1> QED BY <1>1, <1>2, SetsSource

\* The database is exported, or cannot be.
LEMMA SourceExported ==
  ASSUME StageInv, ExportSource
  PROVE  /\ run.pc = "export"
         /\ IF ExportReadable
            THEN OnlyRun /\ Fields(run', "context", run.cmd, run.config, run.profile, run.source,
                        ReadDataset(files.db, run.config), run.context, run.contacted,
                        run.touched, run.at)
            ELSE Refused
<1>1. /\ run.pc = "export"
      /\ IF ExportReadable
         THEN OnlyRun /\ run' = [run EXCEPT !.pc = "context", !.dataset = ReadDataset(files.db, run.config)]
         ELSE Refused
  BY DEF ExportSource, OnlyRun, Refused
<1>2. IsRun(run) BY <1>1, AtWork
<1> QED BY <1>1, <1>2, SetsDataset

\* The rows are validated, or the profile does not apply.
LEMMA ContextBuilt ==
  ASSUME StageInv, BuildContext
  PROVE  /\ run.pc = "context"
         /\ IF ContextBuilds(run.dataset, run.profile)
            THEN OnlyRun /\ Fields(run', run.cmd.kind, run.cmd, run.config, run.profile, run.source, Absent,
                        Context(run.dataset, run.profile), run.contacted, run.touched, run.at)
            ELSE Refused
<1>1. /\ run.pc = "context"
      /\ IF ContextBuilds(run.dataset, run.profile)
         THEN OnlyRun /\ run' = [run EXCEPT !.pc = run.cmd.kind, !.dataset = Absent,
                                 !.context = Context(run.dataset, run.profile)]
         ELSE Refused
  BY DEF BuildContext, OnlyRun, Refused
<1>2. IsRun(run) BY <1>1, AtWork
<1> QED BY <1>1, <1>2, SetsContext

\* A verify goes on to DIGIweb, or is refused.
LEMMA Verified ==
  ASSUME StageInv, Verify
  PROVE  /\ run.pc = "verify"
         /\ IF AllBuild(ValidPlus) /\ UrlsParse(run.config) /\ run.config.secret
            THEN OnlyRun /\ Fields(run', "authenticate", run.cmd, run.config, run.profile, run.source,
                        run.dataset, run.context, run.contacted, run.touched, run.at)
            ELSE Refused
<1>1. /\ run.pc = "verify"
      /\ IF AllBuild(ValidPlus) /\ UrlsParse(run.config) /\ run.config.secret
         THEN OnlyRun /\ run' = [run EXCEPT !.pc = "authenticate"]
         ELSE Refused
  BY DEF Verify, OnlyRun, Refused, Goto
<1>2. IsRun(run) BY <1>1, AtWork
<1> QED BY <1>1, <1>2, SetsPc

\* A test-connection goes on to DIGIweb, or is refused.
LEMMA ConnectionTested ==
  ASSUME StageInv, TestConnection
  PROVE  /\ run.pc = "connection"
         /\ IF UrlsParse(run.config) /\ run.config.secret
            THEN OnlyRun /\ Fields(run', "authenticate", run.cmd, run.config, run.profile, run.source,
                        run.dataset, run.context, run.contacted, run.touched, run.at)
            ELSE Refused
<1>1. /\ run.pc = "connection"
      /\ IF UrlsParse(run.config) /\ run.config.secret
         THEN OnlyRun /\ run' = [run EXCEPT !.pc = "authenticate"]
         ELSE Refused
  BY DEF TestConnection, OnlyRun, Refused, Goto
<1>2. IsRun(run) BY <1>1, AtWork
<1> QED BY <1>1, <1>2, SetsPc

\* A resume takes the manifest, or is refused.
LEMMA ManifestLoaded ==
  ASSUME StageInv, LoadManifest
  PROVE  /\ run.pc = "import"
         /\ IF ImportReady
            THEN OnlyRun /\ Fields(run', "compatibility", run.cmd, run.config, run.profile, run.source,
                        run.dataset, run.context, run.contacted, run.touched, run.at)
            ELSE Refused
<1>1. /\ run.pc = "import"
      /\ IF ImportReady
         THEN OnlyRun /\ run' = [run EXCEPT !.pc = "compatibility"]
         ELSE Refused
  BY DEF LoadManifest, OnlyRun, Refused, Goto
<1>2. IsRun(run) BY <1>1, AtWork
<1> QED BY <1>1, <1>2, SetsPc

\* The secret is there, or it is not.
LEMMA SecretLoaded ==
  ASSUME StageInv, LoadSecret
  PROVE  /\ run.pc = "secret"
         /\ IF run.config.secret
            THEN OnlyRun /\ Fields(run', "authenticate", run.cmd, run.config, run.profile, run.source,
                        run.dataset, run.context, run.contacted, run.touched, run.at)
            ELSE Refused
<1>1. /\ run.pc = "secret"
      /\ IF run.config.secret
         THEN OnlyRun /\ run' = [run EXCEPT !.pc = "authenticate"]
         ELSE Refused
  BY DEF LoadSecret, OnlyRun, Refused, Goto
<1>2. IsRun(run) BY <1>1, AtWork
<1> QED BY <1>1, <1>2, SetsPc

\* A new import writes its manifest, or is refused.
LEMMA ManifestCreated ==
  ASSUME StageInv, CreateManifest
  PROVE  /\ run.pc = "import" /\ ~run.cmd.resume
         /\ IF ImportReady /\ AllBuild(SelectRecordsToSend(ValidPlus))
            THEN /\ manifest' = ManifestFor(BuildPayloads(SelectRecordsToSend(ValidPlus)))
                 /\ files' = IF run.profile = Absent THEN files
                             ELSE [files EXCEPT !.snapshot = run.profile]
                 /\ sent' = {}
                 /\ pristine' = ~run.touched
                 /\ UNCHANGED <<last, accepted, left>>
                 /\ Fields(run', "compatibility", run.cmd, run.config, run.profile, run.source,
                            run.dataset, run.context, run.contacted, run.touched, run.at)
            ELSE Refused
<1>1. /\ run.pc = "import" /\ ~run.cmd.resume
      /\ IF ImportReady /\ AllBuild(SelectRecordsToSend(ValidPlus))
         THEN /\ manifest' = ManifestFor(BuildPayloads(SelectRecordsToSend(ValidPlus)))
              /\ files' = IF run.profile = Absent THEN files
                          ELSE [files EXCEPT !.snapshot = run.profile]
              /\ sent' = {}
              /\ pristine' = ~run.touched
              /\ UNCHANGED <<last, accepted, left>>
              /\ run' = [run EXCEPT !.pc = "compatibility"]
         ELSE Refused
  BY DEF CreateManifest, Refused, Goto
<1>2. IsRun(run) BY <1>1, AtWork
<1> QED BY <1>1, <1>2, SetsPc

\* The manifest is compared with what was read.
LEMMA CompatibilityChecked ==
  ASSUME StageInv, CheckCompatibility
  PROVE  /\ run.pc = "compatibility"
         /\ IF Compatible
            THEN /\ manifest' = [manifest EXCEPT !.records = [i \in DOMAIN @ |-> Restarted(@[i])]]
                 /\ UNCHANGED <<files, sent, last, accepted, pristine, left>>
                 /\ Fields(run', "secret", run.cmd, run.config, run.profile, run.source,
                            run.dataset, run.context, run.contacted, run.touched, run.at)
            ELSE Refused
<1>1. /\ run.pc = "compatibility"
      /\ IF Compatible
         THEN /\ manifest' = [manifest EXCEPT !.records = [i \in DOMAIN @ |-> Restarted(@[i])]]
              /\ UNCHANGED <<files, sent, last, accepted, pristine, left>>
              /\ run' = [run EXCEPT !.pc = "secret"]
         ELSE Refused
  BY DEF CheckCompatibility, Refused, Goto
<1>2. IsRun(run) BY <1>1, AtWork
<1> QED BY <1>1, <1>2, SetsPc

\* An import goes on to its records after the authentication; other commands end.
LEMMA Authenticated ==
  ASSUME StageInv, Authenticate
  PROVE  /\ run.pc = "authenticate" /\ UrlsParse(run.config)
         /\ UNCHANGED <<files, manifest, sent, pristine, left>>
         /\ \/ /\ run.cmd.kind = "import" /\ UNCHANGED <<last, accepted>>
               /\ Fields(run', "send", run.cmd, run.config, run.profile, run.source, run.dataset,
                          run.context, TRUE, run.touched, run.at)
            \/ /\ run.cmd.kind = "verify"
               /\ EndContacted(IF ImportIsReady THEN 0 ELSE 2)
               /\ accepted' = IF ImportIsReady /\ ~run.touched THEN [profile |-> run.cmd.profile]
                              ELSE Absent
            \/ /\ run.cmd.kind = "test-connection" /\ EndContacted(0)
               /\ UNCHANGED accepted
<1>1. /\ run.pc = "authenticate" /\ UrlsParse(run.config)
      /\ UNCHANGED <<files, manifest, sent, pristine, left>>
      /\ \/ /\ run.cmd.kind = "import" /\ UNCHANGED <<last, accepted>>
            /\ run' = [run EXCEPT !.pc = "send", !.contacted = TRUE]
         \/ /\ run.cmd.kind = "verify"
            /\ EndContacted(IF ImportIsReady THEN 0 ELSE 2)
            /\ accepted' = IF ImportIsReady /\ ~run.touched THEN [profile |-> run.cmd.profile]
                           ELSE Absent
         \/ /\ run.cmd.kind = "test-connection" /\ EndContacted(0)
            /\ UNCHANGED accepted
  <2>1. run.pc = "authenticate" BY DEF Authenticate
  <2>2. run.cmd.kind \in {"verify", "test-connection", "import"} BY <2>1, AtWork DEF KindAt
  <2> QED BY <2>2 DEF Authenticate
<1>2. IsRun(run) BY <1>1, AtWork
<1> QED BY <1>1, <1>2, SetsContacted

\* A record is saved as SUBMISSION_STARTED.
LEMMA AttemptBegun ==
  ASSUME StageInv, BeginAttempt
  PROVE  /\ run.pc = "send" /\ Unsent # {}
         /\ manifest' = [manifest EXCEPT !.records[Min(Unsent)].status = "SUBMISSION_STARTED"]
         /\ UNCHANGED <<files, sent, last, accepted, pristine, left>>
         /\ Fields(run', "post", run.cmd, run.config, run.profile, run.source, run.dataset,
                    run.context, run.contacted, run.touched, Min(Unsent))
<1>1. /\ run.pc = "send" /\ Unsent # {}
      /\ manifest' = [manifest EXCEPT !.records[Min(Unsent)].status = "SUBMISSION_STARTED"]
      /\ UNCHANGED <<files, sent, last, accepted, pristine, left>>
      /\ run' = [run EXCEPT !.pc = "post", !.at = Min(Unsent)]
  BY DEF BeginAttempt
<1>2. IsRun(run) BY <1>1, AtWork
<1> QED BY <1>1, <1>2, SetsRecord

\* The payload of this run is sent, and the record saved as SUCCESS.
LEMMA Posted ==
  ASSUME StageInv, Post
  PROVE  /\ run.pc = "post"
         /\ sent' = sent \cup {[at |-> run.at, target |-> TargetIdentity(run.config),
                               payload |-> FromPlu(PluFor(manifest.records[run.at]), run.config)]}
         /\ manifest' = [manifest EXCEPT !.records[run.at].status = "SUCCESS"]
         /\ UNCHANGED <<files, last, accepted, pristine, left>>
         /\ Fields(run', "send", run.cmd, run.config, run.profile, run.source, run.dataset,
                    run.context, run.contacted, run.touched, run.at)
<1>1. /\ run.pc = "post"
      /\ sent' = sent \cup {[at |-> run.at, target |-> TargetIdentity(run.config),
                            payload |-> FromPlu(PluFor(manifest.records[run.at]), run.config)]}
      /\ manifest' = [manifest EXCEPT !.records[run.at].status = "SUCCESS"]
      /\ UNCHANGED <<files, last, accepted, pristine, left>>
      /\ run' = [run EXCEPT !.pc = "send"]
  BY DEF Post, Goto
<1>2. IsRun(run) BY <1>1, AtWork
<1> QED BY <1>1, <1>2, SetsPc

\* A file is replaced: a command at work knows nothing of it.
LEMMA RunTouched ==
  ASSUME StageInv, NEW f, Edited(f)
  PROVE  \/ run = Idle /\ run' = Idle
         \/ /\ run.pc # "idle"
            /\ Fields(run', run.pc, run.cmd, run.config, run.profile, run.source, run.dataset,
                      run.context, run.contacted, TRUE, run.at)
<1>1. CASE run.pc = "idle" BY <1>1 DEF Edited, StageInv
<1>2. CASE run.pc # "idle"
  <2>1. run' = [run EXCEPT !.touched = TRUE] BY <1>2 DEF Edited
  <2> QED BY <1>2, <2>1, AtWork, SetsTouched
<1> QED BY <1>1, <1>2

\* A step that ends the command, or that leaves an idle directory idle.
LEMMA IdleStaged == ASSUME run' = Idle PROVE StageInv'
BY DEF StageInv, Idle, Stages

\* A step of the command to another stage.
LEMMA GoesStaged ==
  ASSUME run'.pc \in Stages \ {"idle"}, IsRun(run'), last' = Never,
         run'.cmd.kind \in KindAt(run'.pc), run'.cmd.resume => run'.cmd.kind = "import",
         run'.pc \notin {"send", "post"} => run'.contacted = FALSE
  PROVE  StageInv'
BY DEF StageInv

LEMMA StepStaged == ASSUME StageInv, [Next]_vars PROVE StageInv'
<1>0. ASSUME Refused PROVE StageInv' BY <1>0, IdleStaged DEF Refused, Refuse, End
<1>1. ASSUME NEW cli \in CommandLines, StartCommand(cli) PROVE StageInv'
  <2>1. cli.kind \in Kinds /\ (cli.resume => cli.kind = "import") BY CommandLinesAssumption
  <2>2. /\ IsRun(run') /\ run'.pc = "config" /\ run'.cmd = cli /\ run'.contacted = FALSE
        /\ last' = Never
    BY <1>1 DEF StartCommand, IsRun, RunFields
  <2> QED BY <2>1, <2>2, GoesStaged DEF KindAt, Stages
<1>2. CASE LoadConfig
  <2> DEFINE cmd == EffectiveCommand(run.cmd, LoadedConfig)
  <2>1. CASE ConfigAccepted(cmd, LoadedConfig)
    <3>1. run.pc = "config" BY <1>2, ConfigLoaded
    <3>2. run.cmd.kind \in Kinds /\ (run.cmd.resume => run.cmd.kind = "import") /\ last = Never
          /\ run.contacted = FALSE
      BY <3>1, AtWork DEF KindAt
    <3>3. cmd.kind \in Kinds \ {"none"} /\ (cmd.resume => cmd.kind = "import")
      BY <3>2 DEF EffectiveCommand, LegacyCommand, Kinds
    <3> HIDE DEF cmd
    <3>4. /\ IsRun(run') /\ run'.cmd = cmd /\ run'.contacted = FALSE /\ last' = Never
          /\ run'.pc = IF cmd.kind = "test-connection" THEN "connection" ELSE "profile"
      BY <1>2, <2>1, <3>2, ConfigLoaded DEF Fields, OnlyRun, cmd
    <3> QED BY <3>3, <3>4, GoesStaged DEF KindAt, Stages, Kinds
  <2> QED BY <1>2, <1>0, <2>1, ConfigLoaded
<1>3. CASE LoadProfile
  <2>1. Refused \/ (IsRun(run') /\ run'.cmd = run.cmd /\ run'.contacted = run.contacted /\ last' = last
                     /\ run.pc # "idle" /\ run'.pc \in Stages \ {"idle"}
                     /\ run.pc \notin {"send", "post"} /\ run.cmd.kind \in KindAt(run'.pc))
    BY <1>3, ProfileLoaded, AtWork DEF Fields, OnlyRun, KindAt, Stages
  <2> QED BY <2>1, <1>0, AtWork, GoesStaged
<1>4. CASE HashSource
  <2>1. Refused \/ (IsRun(run') /\ run'.cmd = run.cmd /\ run'.contacted = run.contacted /\ last' = last
                     /\ run.pc # "idle" /\ run'.pc \in Stages \ {"idle"}
                     /\ run.pc \notin {"send", "post"} /\ run.cmd.kind \in KindAt(run'.pc))
    BY <1>4, SourceHashed, AtWork DEF Fields, OnlyRun, KindAt, Stages
  <2> QED BY <2>1, <1>0, AtWork, GoesStaged
<1>5. CASE ExportSource
  <2>1. Refused \/ (IsRun(run') /\ run'.cmd = run.cmd /\ run'.contacted = run.contacted /\ last' = last
                     /\ run.pc # "idle" /\ run'.pc \in Stages \ {"idle"}
                     /\ run.pc \notin {"send", "post"} /\ run.cmd.kind \in KindAt(run'.pc))
    BY <1>5, SourceExported, AtWork DEF Fields, OnlyRun, KindAt, Stages
  <2> QED BY <2>1, <1>0, AtWork, GoesStaged
<1>6. CASE BuildContext
  <2>1. Refused \/ (IsRun(run') /\ run'.cmd = run.cmd /\ run'.contacted = run.contacted /\ last' = last
                     /\ run.pc # "idle" /\ run'.pc \in Stages \ {"idle"}
                     /\ run.pc \notin {"send", "post"} /\ run.cmd.kind \in KindAt(run'.pc))
    BY <1>6, ContextBuilt, AtWork DEF Fields, OnlyRun, KindAt, Stages
  <2> QED BY <2>1, <1>0, AtWork, GoesStaged
<1>7. CASE Verify
  <2>1. Refused \/ (IsRun(run') /\ run'.cmd = run.cmd /\ run'.contacted = run.contacted /\ last' = last
                     /\ run.pc # "idle" /\ run'.pc \in Stages \ {"idle"}
                     /\ run.pc \notin {"send", "post"} /\ run.cmd.kind \in KindAt(run'.pc))
    BY <1>7, Verified, AtWork DEF Fields, OnlyRun, KindAt, Stages
  <2> QED BY <2>1, <1>0, AtWork, GoesStaged
<1>8. CASE TestConnection
  <2>1. Refused \/ (IsRun(run') /\ run'.cmd = run.cmd /\ run'.contacted = run.contacted /\ last' = last
                     /\ run.pc # "idle" /\ run'.pc \in Stages \ {"idle"}
                     /\ run.pc \notin {"send", "post"} /\ run.cmd.kind \in KindAt(run'.pc))
    BY <1>8, ConnectionTested, AtWork DEF Fields, OnlyRun, KindAt, Stages
  <2> QED BY <2>1, <1>0, AtWork, GoesStaged
<1>9. CASE LoadManifest
  <2>1. Refused \/ (IsRun(run') /\ run'.cmd = run.cmd /\ run'.contacted = run.contacted /\ last' = last
                     /\ run.pc # "idle" /\ run'.pc \in Stages \ {"idle"}
                     /\ run.pc \notin {"send", "post"} /\ run.cmd.kind \in KindAt(run'.pc))
    BY <1>9, ManifestLoaded, AtWork DEF Fields, OnlyRun, KindAt, Stages
  <2> QED BY <2>1, <1>0, AtWork, GoesStaged
<1>10. CASE LoadSecret
  <2>1. Refused \/ (IsRun(run') /\ run'.cmd = run.cmd /\ run'.contacted = run.contacted /\ last' = last
                     /\ run.pc # "idle" /\ run'.pc \in Stages \ {"idle"}
                     /\ run.pc \notin {"send", "post"} /\ run.cmd.kind \in KindAt(run'.pc))
    BY <1>10, SecretLoaded, AtWork DEF Fields, OnlyRun, KindAt, Stages
  <2> QED BY <2>1, <1>0, AtWork, GoesStaged
<1>11. CASE CreateManifest
  <2>1. Refused \/ (IsRun(run') /\ run'.cmd = run.cmd /\ run'.contacted = run.contacted /\ last' = last
                     /\ run.pc # "idle" /\ run'.pc \in Stages \ {"idle"}
                     /\ run.pc \notin {"send", "post"} /\ run.cmd.kind \in KindAt(run'.pc))
    BY <1>11, ManifestCreated, AtWork DEF Fields, OnlyRun, KindAt, Stages
  <2> QED BY <2>1, <1>0, AtWork, GoesStaged
<1>12. CASE CheckCompatibility
  <2>1. Refused \/ (IsRun(run') /\ run'.cmd = run.cmd /\ run'.contacted = run.contacted /\ last' = last
                     /\ run.pc # "idle" /\ run'.pc \in Stages \ {"idle"}
                     /\ run.pc \notin {"send", "post"} /\ run.cmd.kind \in KindAt(run'.pc))
    BY <1>12, CompatibilityChecked, AtWork DEF Fields, OnlyRun, KindAt, Stages
  <2> QED BY <2>1, <1>0, AtWork, GoesStaged
<1>13. CASE Analyze \/ Sanitize \/ Finish \/ AuthenticationFails \/ Dies
  BY <1>13, IdleStaged DEF Analyze, Sanitize, Finish, AuthenticationFails, End, EndContacted, Dies
<1>14. CASE Authenticate
  <2>1. CASE run.cmd.kind = "import"
    <3>1. IsRun(run') /\ run'.cmd = run.cmd /\ run.pc = "authenticate" /\ run'.pc = "send" /\ last' = last
      BY <1>14, <2>1, Authenticated DEF Fields
    <3> QED BY <2>1, <3>1, AtWork, GoesStaged DEF KindAt, Stages
  <2>2. CASE run.cmd.kind # "import"
    BY <1>14, <2>2, Authenticated, IdleStaged DEF EndContacted
  <2> QED BY <2>1, <2>2
<1>15. CASE BeginAttempt
  <2>1. IsRun(run') /\ run'.cmd = run.cmd /\ run.pc = "send" /\ run'.pc = "post" /\ last' = last
    BY <1>15, AttemptBegun DEF Fields
  <2> QED BY <2>1, AtWork, GoesStaged DEF KindAt, Stages
<1>16. CASE Post
  <2>1. IsRun(run') /\ run'.cmd = run.cmd /\ run.pc = "post" /\ run'.pc = "send" /\ last' = last
    BY <1>16, Posted DEF Fields
  <2> QED BY <2>1, AtWork, GoesStaged DEF KindAt, Stages
<1>17. ASSUME NEW f, Edited(f) PROVE StageInv'
  <2>1. CASE run' = Idle BY <2>1, IdleStaged
  <2>2. CASE run.pc # "idle" /\ IsRun(run') /\ run'.cmd = run.cmd /\ run'.pc = run.pc
             /\ run'.contacted = run.contacted
    BY <1>17, <2>2, AtWork, GoesStaged DEF Edited
  <2> QED BY <1>17, <2>1, <2>2, RunTouched DEF Fields
<1>18. CASE UNCHANGED vars BY <1>18 DEF vars, StageInv
<1> QED
  BY <1>1, <1>2, <1>3, <1>4, <1>5, <1>6, <1>7, <1>8, <1>9, <1>10, <1>11, <1>12, <1>13, <1>14, <1>15, <1>16, <1>17, <1>18
  DEF Next, ReplaceDatabase, ReplaceConfig, ReplaceProfile, ReplaceSnapshot

\* The steps that end a command because of what is wrong locally.
Local ==
  LoadConfig \/ LoadProfile \/ HashSource \/ ExportSource \/ BuildContext \/ Verify \/ TestConnection
  \/ CreateManifest \/ LoadManifest \/ CheckCompatibility \/ LoadSecret

LEMMA LocalSteps ==
  ASSUME StageInv, Local
  PROVE  /\ run.pc \notin {"idle", "send", "post", "authenticate"}
         /\ Refused \/ (last' = last /\ accepted' = accepted /\ left' = left)
<1>1. ASSUME LoadConfig PROVE run.pc \notin {"idle", "send", "post", "authenticate"} /\ (Refused \/ (last' = last /\ accepted' = accepted /\ left' = left))
  BY <1>1, ConfigLoaded DEF OnlyRun
<1>2. ASSUME LoadProfile PROVE run.pc \notin {"idle", "send", "post", "authenticate"} /\ (Refused \/ (last' = last /\ accepted' = accepted /\ left' = left))
  BY <1>2, ProfileLoaded DEF OnlyRun
<1>3. ASSUME HashSource PROVE run.pc \notin {"idle", "send", "post", "authenticate"} /\ (Refused \/ (last' = last /\ accepted' = accepted /\ left' = left))
  BY <1>3, SourceHashed DEF OnlyRun
<1>4. ASSUME ExportSource PROVE run.pc \notin {"idle", "send", "post", "authenticate"} /\ (Refused \/ (last' = last /\ accepted' = accepted /\ left' = left))
  BY <1>4, SourceExported DEF OnlyRun
<1>5. ASSUME BuildContext PROVE run.pc \notin {"idle", "send", "post", "authenticate"} /\ (Refused \/ (last' = last /\ accepted' = accepted /\ left' = left))
  BY <1>5, ContextBuilt DEF OnlyRun
<1>6. ASSUME Verify PROVE run.pc \notin {"idle", "send", "post", "authenticate"} /\ (Refused \/ (last' = last /\ accepted' = accepted /\ left' = left))
  BY <1>6, Verified DEF OnlyRun
<1>7. ASSUME TestConnection PROVE run.pc \notin {"idle", "send", "post", "authenticate"} /\ (Refused \/ (last' = last /\ accepted' = accepted /\ left' = left))
  BY <1>7, ConnectionTested DEF OnlyRun
<1>8. ASSUME CreateManifest PROVE run.pc \notin {"idle", "send", "post", "authenticate"} /\ (Refused \/ (last' = last /\ accepted' = accepted /\ left' = left))
  BY <1>8, ManifestCreated DEF OnlyRun
<1>9. ASSUME LoadManifest PROVE run.pc \notin {"idle", "send", "post", "authenticate"} /\ (Refused \/ (last' = last /\ accepted' = accepted /\ left' = left))
  BY <1>9, ManifestLoaded DEF OnlyRun
<1>10. ASSUME CheckCompatibility PROVE run.pc \notin {"idle", "send", "post", "authenticate"} /\ (Refused \/ (last' = last /\ accepted' = accepted /\ left' = left))
  BY <1>10, CompatibilityChecked DEF OnlyRun
<1>11. ASSUME LoadSecret PROVE run.pc \notin {"idle", "send", "post", "authenticate"} /\ (Refused \/ (last' = last /\ accepted' = accepted /\ left' = left))
  BY <1>11, SecretLoaded DEF OnlyRun
<1> QED BY <1>1, <1>2, <1>3, <1>4, <1>5, <1>6, <1>7, <1>8, <1>9, <1>10, <1>11 DEF Local

LEMMA StepRefusedBefore ==
  ASSUME StageInv, RefusedBeforeContact, [Next]_vars
  PROVE  RefusedBeforeContact'
<1>1. CASE Local
  <2>1. CASE Refused
    <3>1. run.contacted = FALSE BY <1>1, LocalSteps, AtWork
    <3> QED BY <2>1, <3>1 DEF Refused, Refuse, End, RefusedBeforeContact
  <2>2. CASE last' = last BY <2>2 DEF RefusedBeforeContact
  <2> QED BY <1>1, <2>1, <2>2, LocalSteps
<1>2. CASE Analyze \/ Sanitize
  <2>1. run.contacted = FALSE BY <1>2, AtWork DEF Analyze, Sanitize
  <2> QED BY <1>2, <2>1 DEF Analyze, Sanitize, End, RefusedBeforeContact
<1>3. CASE Finish
  <2>1. run.cmd.kind = "import" BY <1>3, AtWork DEF Finish, KindAt
  <2> QED BY <1>3, <2>1 DEF Finish, End, RefusedBeforeContact
<1>4. CASE Authenticate \/ AuthenticationFails
  <2>1. run.pc = "authenticate" BY <1>4 DEF Authenticate, AuthenticationFails
  <2>2. run.cmd.kind \in {"verify", "test-connection", "import"} BY <2>1, AtWork DEF KindAt
  <2>3. CASE AuthenticationFails
    BY <2>2, <2>3 DEF AuthenticationFails, EndContacted, RefusedBeforeContact
  <2>4. CASE Authenticate
    <3>1. last' = last \/ EndContacted(0) \/ EndContacted(2) BY <2>4, Authenticated
    <3> QED BY <2>2, <3>1 DEF EndContacted, RefusedBeforeContact
  <2> QED BY <1>4, <2>3, <2>4
<1>5. ASSUME NEW cli \in CommandLines, StartCommand(cli) PROVE RefusedBeforeContact'
  BY <1>5 DEF StartCommand, Never, RefusedBeforeContact
<1>6. CASE BeginAttempt \/ Post \/ Dies BY <1>6 DEF BeginAttempt, Post, Dies, RefusedBeforeContact
<1>7. ASSUME NEW f, Edited(f) PROVE RefusedBeforeContact' BY <1>7 DEF Edited, RefusedBeforeContact
<1>8. CASE UNCHANGED vars BY <1>8 DEF vars, RefusedBeforeContact
<1> QED
  BY <1>1, <1>2, <1>3, <1>4, <1>5, <1>6, <1>7, <1>8
  DEF Next, Local, ReplaceDatabase, ReplaceConfig, ReplaceProfile, ReplaceSnapshot

LEMMA InitStaged == Init => StageInv /\ RefusedBeforeContact
BY DEF Init, StageInv, RefusedBeforeContact, Idle, Never, Stages

(* What is refused for what is wrong locally, and whatever an offline      *)
(* command does, happened without a contact with DIGIweb: until the        *)
(* authentication no stage has one, and after it nothing is refused.       *)
THEOREM RefusalsAreLocal == Spec => []RefusedBeforeContact
<1>1. StageInv /\ RefusedBeforeContact /\ [Next]_vars => (StageInv /\ RefusedBeforeContact)'
  BY StepStaged, StepRefusedBefore
<1> QED BY InitStaged, <1>1, PTL DEF Spec

(* What a command has read *)

Ordered(rows) == \E n \in Nat : DOMAIN rows = 1 .. n

\* The stages at which the rows have been read and validated.
HasPass ==
  \/ run.pc \in {"analyze", "sanitize", "verify", "import", "compatibility", "secret", "send", "post"}
  \/ run.pc = "authenticate" /\ run.cmd.kind # "test-connection"

IsRecordOf(c) == c = [f \in DOMAIN c |-> c[f]]

IsRows(rows) == Ordered(rows) /\ \A i \in DOMAIN rows : IsRow(rows[i])
IsDataset(dataset) ==
  /\ {"plu_rows", "ingredient_rows", "nutrition_rows"} \subseteq DOMAIN dataset
  /\ IsRows(dataset.plu_rows) /\ Ordered(dataset.ingredient_rows)

FilesInv ==
  /\ DOMAIN files = {"db", "config", "profiles", "snapshot"}
  /\ files.db # Absent => IsRows(files.db.plu_rows) /\ Ordered(files.db.ingredient_rows)

\* The context is that of a dataset to which the profile of the run applies.
PassInv ==
  /\ run.pc = "context" => IsDataset(run.dataset)
  /\ HasPass => \E dataset : /\ IsDataset(dataset) /\ ContextBuilds(dataset, run.profile)
                             /\ run.context = Context(dataset, run.profile)

\* A profile changes the cells, never the rows: there are as many as before.
LEMMA ContextInOrder ==
  ASSUME NEW dataset, NEW profile, {"plu_rows", "ingredient_rows"} \subseteq DOMAIN dataset,
         Ordered(dataset.plu_rows), Ordered(dataset.ingredient_rows)
  PROVE  /\ IsRecordOf(Context(dataset, profile))
         /\ Ordered(Context(dataset, profile).dataset.plu_rows)
         /\ Ordered(Context(dataset, profile).dataset.ingredient_rows)
         /\ Context(dataset, profile).after = Validated(Context(dataset, profile).dataset)
<1>1. CASE profile = Absent BY <1>1 DEF Context, IsRecordOf
<1>2. CASE profile # Absent
  <2> DEFINE sanitized == ApplyProfile(dataset, profile).dataset
  <2>1. sanitized = [dataset EXCEPT !.plu_rows =
                       [i \in DOMAIN dataset.plu_rows |-> SanitizedRow(dataset.plu_rows[i], profile)]]
    BY DEF ApplyProfile
  <2> HIDE DEF sanitized
  <2>2. /\ DOMAIN sanitized.plu_rows = DOMAIN dataset.plu_rows
        /\ sanitized.ingredient_rows = dataset.ingredient_rows
    BY <2>1
  <2>3. /\ Context(dataset, profile).dataset = sanitized
        /\ Context(dataset, profile).after = Validated(sanitized)
    BY <1>2 DEF Context, sanitized
  <2>4. IsRecordOf(Context(dataset, profile)) BY <1>2 DEF Context, IsRecordOf
  <2> QED BY <2>2, <2>3, <2>4 DEF Ordered
<1> QED BY <1>1, <1>2

LEMMA StepFiles == ASSUME FilesInv, [Next]_vars PROVE FilesInv'
<1>1. ASSUME files' = files PROVE FilesInv' BY <1>1 DEF FilesInv
<1>2. ASSUME NEW x, files' = [files EXCEPT !.snapshot = x] PROVE FilesInv' BY <1>2 DEF FilesInv
<1>3. CASE Sanitize BY <1>2, <1>3 DEF Sanitize
<1>4. CASE CreateManifest BY <1>1, <1>2, <1>4 DEF CreateManifest, Refuse
<1>5. CASE ReplaceDatabase
  <2>1. PICK db \in Databases : files' = [files EXCEPT !.db = db] BY <1>5 DEF ReplaceDatabase, Edited
  <2>2. files'.db = db /\ DOMAIN files' = DOMAIN files BY <2>1 DEF FilesInv
  <2>3. db # Absent => IsRows(db.plu_rows) /\ Ordered(db.ingredient_rows)
    BY DatabasesAssumption DEF RowsInOrder, InOrder, IsRows, Ordered
  <2> QED BY <2>2, <2>3 DEF FilesInv
<1>6. CASE ReplaceConfig BY <1>6 DEF ReplaceConfig, Edited, FilesInv
<1>7. CASE ReplaceProfile
  <2>1. PICK x : files' = [files EXCEPT !.profiles = x] BY <1>7 DEF ReplaceProfile, Edited
  <2> QED BY <2>1 DEF FilesInv
<1>8. CASE ReplaceSnapshot BY <1>2, <1>8 DEF ReplaceSnapshot, Edited
<1>9. CASE \/ \E cli \in CommandLines : StartCommand(cli)
           \/ LoadConfig \/ LoadProfile \/ HashSource \/ ExportSource \/ BuildContext
           \/ Analyze \/ Verify \/ TestConnection \/ LoadManifest \/ CheckCompatibility \/ LoadSecret
           \/ Authenticate \/ AuthenticationFails \/ BeginAttempt \/ Post \/ Finish \/ Dies
           \/ UNCHANGED vars
  BY <1>1, <1>9
  DEF StartCommand, LoadConfig, LoadProfile, HashSource, ExportSource, BuildContext, Analyze, Verify,
      TestConnection, LoadManifest, CheckCompatibility, LoadSecret, Authenticate, AuthenticationFails,
      BeginAttempt, Post, Finish, Dies, vars, Refuse
<1> QED BY <1>3, <1>4, <1>5, <1>6, <1>7, <1>8, <1>9 DEF Next

\* A stage with the context of the stage before, or without one.
LEMMA KeepsPass ==
  ASSUME PassInv, run'.pc # "context",
         HasPass' => HasPass /\ run'.context = run.context /\ run'.profile = run.profile
  PROVE  PassInv'
BY DEF PassInv

LEMMA IdlePassed == ASSUME run' = Idle PROVE PassInv'
BY DEF PassInv, HasPass, Idle

LEMMA StepPassed == ASSUME StageInv, FilesInv, PassInv, [Next]_vars PROVE PassInv'
<1>0. ASSUME Refused PROVE PassInv' BY <1>0, IdlePassed DEF Refused, Refuse, End
<1>1. ASSUME NEW cli \in CommandLines, StartCommand(cli) PROVE PassInv'
  <2>1. run'.pc = "config" BY <1>1 DEF StartCommand
  <2> QED BY <2>1 DEF PassInv, HasPass
<1>2. CASE LoadConfig \/ LoadProfile \/ HashSource
  <2>1. Refused \/ run'.pc \in {"connection", "profile", "source", "export"}
    BY <1>2, ConfigLoaded, ProfileLoaded, SourceHashed DEF Fields
  <2> QED BY <1>0, <2>1 DEF PassInv, HasPass
<1>3. CASE ExportSource
  <2>1. CASE ExportReadable
    <3>1. run'.pc = "context" /\ run'.dataset = ReadDataset(files.db, run.config)
      BY <1>3, <2>1, SourceExported DEF Fields
    <3>2. /\ {"plu_rows", "ingredient_rows", "nutrition_rows"}
               \subseteq DOMAIN ReadDataset(files.db, run.config)
          /\ ReadDataset(files.db, run.config).plu_rows = files.db.plu_rows
          /\ ReadDataset(files.db, run.config).ingredient_rows = files.db.ingredient_rows
      BY DEF ReadDataset
    <3>3. IsRows(files.db.plu_rows) /\ Ordered(files.db.ingredient_rows)
      BY <2>1 DEF ExportReadable, FilesInv
    <3> QED BY <3>1, <3>2, <3>3 DEF PassInv, HasPass, IsDataset
  <2> QED BY <1>0, <1>3, <2>1, SourceExported
<1>4. CASE BuildContext
  <2>1. CASE ContextBuilds(run.dataset, run.profile)
    <3>1. /\ run.pc = "context" /\ run'.pc = run.cmd.kind
          /\ run'.context = Context(run.dataset, run.profile) /\ run'.profile = run.profile
      BY <1>4, <2>1, ContextBuilt DEF Fields
    <3>2. run.cmd.kind # "context" BY <3>1, AtWork DEF KindAt
    <3> QED BY <2>1, <3>1, <3>2 DEF PassInv
  <2> QED BY <1>0, <1>4, <2>1, ContextBuilt
<1>5. CASE Analyze \/ Sanitize \/ Finish \/ AuthenticationFails \/ Dies
  BY <1>5, IdlePassed DEF Analyze, Sanitize, Finish, AuthenticationFails, End, EndContacted, Dies
<1>6. CASE Verify \/ CreateManifest \/ LoadManifest \/ CheckCompatibility \/ LoadSecret
  <2>1. Refused \/ (/\ HasPass /\ run'.context = run.context /\ run'.profile = run.profile
                    /\ run'.pc # "context")
    BY <1>6, Verified, ManifestCreated, ManifestLoaded, CompatibilityChecked, SecretLoaded
    DEF Fields, HasPass
  <2> QED BY <1>0, <2>1, KeepsPass
<1>7. CASE TestConnection
  <2>1. Refused \/ (run.pc = "connection" /\ run'.pc = "authenticate" /\ run'.cmd = run.cmd)
    BY <1>7, ConnectionTested DEF Fields
  <2>2. run.pc = "connection" => run.cmd.kind = "test-connection" BY AtWork DEF KindAt
  <2> QED BY <1>0, <2>1, <2>2 DEF PassInv, HasPass
<1>8. CASE Authenticate
  <2>1. CASE run.cmd.kind = "import"
    <3>1. HasPass /\ run'.context = run.context /\ run'.profile = run.profile /\ run'.pc # "context"
      BY <1>8, <2>1, Authenticated DEF Fields, HasPass
    <3> QED BY <3>1, KeepsPass
  <2> QED BY <1>8, <2>1, IdlePassed, Authenticated DEF EndContacted
<1>9. CASE BeginAttempt \/ Post
  <2>1. HasPass /\ run'.context = run.context /\ run'.profile = run.profile /\ run'.pc # "context"
    BY <1>9, AttemptBegun, Posted DEF Fields, HasPass
  <2> QED BY <2>1, KeepsPass
<1>10. ASSUME NEW f, Edited(f) PROVE PassInv'
  <2>1. CASE run' = Idle BY <2>1, IdlePassed
  <2>2. CASE run'.pc = run.pc /\ run'.cmd = run.cmd /\ run'.dataset = run.dataset
             /\ run'.context = run.context /\ run'.profile = run.profile
    BY <2>2 DEF PassInv, HasPass
  <2> QED BY <1>10, <2>1, <2>2, RunTouched DEF Fields
<1>11. CASE UNCHANGED vars BY <1>11 DEF vars, PassInv, HasPass
<1> QED
  BY <1>1, <1>2, <1>3, <1>4, <1>5, <1>6, <1>7, <1>8, <1>9, <1>10, <1>11
  DEF Next, ReplaceDatabase, ReplaceConfig, ReplaceProfile, ReplaceSnapshot

ReadInv == StageInv /\ FilesInv /\ PassInv

LEMMA InitRead == Init => ReadInv
<1> SUFFICES ASSUME Init PROVE ReadInv OBVIOUS
<1>1. PICK s \in Scenarios : files = s.files BY DEF Init
<1>2. FilesInv BY <1>1, ScenariosAssumption DEF FilesInv, RowsInOrder, InOrder, IsRows, Ordered
<1>3. PassInv BY DEF Init, PassInv, HasPass, Idle
<1> QED BY <1>2, <1>3, InitStaged DEF ReadInv

LEMMA StepRead == ReadInv /\ [Next]_vars => ReadInv'
BY StepStaged, StepFiles, StepPassed DEF ReadInv

LEMMA AlwaysRead == Spec => []ReadInv
BY InitRead, StepRead, PTL DEF Spec

\* What has been read at these stages.
LEMMA PassRead ==
  ASSUME PassInv, HasPass
  PROVE  /\ IsRecordOf(run.context)
         /\ Ordered(run.context.dataset.plu_rows)
         /\ Ordered(run.context.dataset.ingredient_rows)
         /\ run.context.after = Validated(run.context.dataset)
<1>1. PICK dataset : IsDataset(dataset) /\ run.context = Context(dataset, run.profile) BY DEF PassInv
<1>2. /\ {"plu_rows", "ingredient_rows"} \subseteq DOMAIN dataset
      /\ Ordered(dataset.plu_rows) /\ Ordered(dataset.ingredient_rows)
  BY <1>1 DEF IsDataset, IsRows
<1> QED BY <1>1, <1>2, ContextInOrder

\* The valid PLUs of a pass are unambiguous among those that were normalized.
LEMMA PassUnambiguous ==
  ASSUME PassInv, HasPass
  PROVE  UnambiguousIn(run.context.after.normalized.plus, ValidPlus)
<1> DEFINE report == NormalizeDataset(run.context.dataset)
<1>1. PICK n \in Nat : DOMAIN report.plus = 1 .. n BY PassRead, NormalizedInOrder DEF Ordered
<1>2. /\ run.context.after.normalized.plus = report.plus
      /\ ValidPlus = ValidPluCandidates(report.plus)
  BY PassRead DEF Validated, ValidPlus
<1> HIDE DEF report
<1> QED BY <1>1, <1>2, CandidatesUnambiguous

(* A PLU that a command counts as valid is the only one of its number,     *)
(* shares its barcode with no other valid one and has a payload, whatever  *)
(* the rows, and whatever the profile did to them: of two PLUs with one    *)
(* number or barcode the later is reported, and that takes its number out. *)
THEOREM NothingAmbiguousIsValid == Spec => []ValidPlusAreUnambiguous
<1>1. ReadInv => ValidPlusAreUnambiguous
  <2> SUFFICES ASSUME ReadInv, HasContext PROVE ValidPlusAreUnambiguous BY DEF ValidPlusAreUnambiguous
  <2>1. HasPass BY DEF HasContext, HasPass
  <2> QED BY <2>1, PassUnambiguous DEF ReadInv, UnambiguousIn, ValidPlusAreUnambiguous
<1> QED BY <1>1, AlwaysRead, PTL

(* The manifest and what is sent for it *)

ManifestFields == {"source", "target", "profile", "records"}
Statuses == {"NOT_ATTEMPTED", "SUBMISSION_STARTED", "SUCCESS", "AMBIGUOUS_SUBMISSION"}

IsRecord(r) == DOMAIN r = {"plu_number", "payload_sha256", "status"} /\ r.status \in Statuses
IsManifest(m) ==
  /\ m = [f \in ManifestFields |-> m[f]]
  /\ Ordered(m.records)
  /\ \A i \in DOMAIN m.records : IsRecord(m.records[i])

\* Two manifests of the same PLUs, whatever became of them.
SamePlus(m, n) ==
  /\ n.source = m.source /\ n.target = m.target /\ n.profile = m.profile
  /\ DOMAIN n.records = DOMAIN m.records
  /\ \A i \in DOMAIN m.records : /\ n.records[i].plu_number = m.records[i].plu_number
                                /\ n.records[i].payload_sha256 = m.records[i].payload_sha256

\* A new status of one record.
LEMMA StatusSet ==
  ASSUME NEW m, IsManifest(m), NEW k \in DOMAIN m.records, NEW x \in Statuses,
         NEW n, n = [m EXCEPT !.records[k].status = x]
  PROVE  IsManifest(n) /\ SamePlus(m, n) /\ n.records[k].status = x
<1>1. n = [f \in ManifestFields |-> n[f]] BY DEF IsManifest
<1>2. n.records = [m.records EXCEPT ![k] = [m.records[k] EXCEPT !.status = x]]
  BY DEF IsManifest, ManifestFields
<1>3. n.source = m.source /\ n.target = m.target /\ n.profile = m.profile
  BY DEF IsManifest, ManifestFields
<1>4. DOMAIN n.records = DOMAIN m.records BY <1>2
<1>5. ASSUME NEW i \in DOMAIN m.records
      PROVE  /\ IsRecord(n.records[i])
             /\ n.records[i].plu_number = m.records[i].plu_number
             /\ n.records[i].payload_sha256 = m.records[i].payload_sha256
             /\ i = k => n.records[i].status = x
  <2>1. IsRecord(m.records[i]) BY DEF IsManifest
  <2>2. CASE i = k
    <3>1. n.records[i] = [m.records[i] EXCEPT !.status = x] BY <1>2, <2>2
    <3> QED BY <2>1, <3>1 DEF IsRecord
  <2>3. CASE i # k BY <1>2, <2>1, <2>3
  <2> QED BY <2>2, <2>3
<1> QED BY <1>1, <1>3, <1>4, <1>5 DEF IsManifest, SamePlus, Ordered

\* A resume turns the attempts that were not answered into ambiguous ones.
LEMMA RestartedManifest ==
  ASSUME NEW m, IsManifest(m),
         NEW n, n = [m EXCEPT !.records = [i \in DOMAIN @ |-> Restarted(@[i])]]
  PROVE  IsManifest(n) /\ SamePlus(m, n)
<1>1. n = [f \in ManifestFields |-> n[f]] BY DEF IsManifest
<1>2. n.records = [i \in DOMAIN m.records |-> Restarted(m.records[i])]
  BY DEF IsManifest, ManifestFields
<1>3. n.source = m.source /\ n.target = m.target /\ n.profile = m.profile
  BY DEF IsManifest, ManifestFields
<1>4. DOMAIN n.records = DOMAIN m.records BY <1>2
<1>5. ASSUME NEW i \in DOMAIN m.records
      PROVE  /\ IsRecord(n.records[i])
             /\ n.records[i].plu_number = m.records[i].plu_number
             /\ n.records[i].payload_sha256 = m.records[i].payload_sha256
  <2>1. IsRecord(m.records[i]) BY DEF IsManifest
  <2>2. n.records[i] = Restarted(m.records[i]) BY <1>2
  <2> QED BY <2>1, <2>2 DEF Restarted, IsRecord, Statuses
<1> QED BY <1>1, <1>3, <1>4, <1>5 DEF IsManifest, SamePlus, Ordered

\* A new manifest: a record for each payload.
LEMMA NewManifest ==
  ASSUME NEW payloads, Ordered(payloads), NEW m, m = ManifestFor(payloads)
  PROVE  /\ IsManifest(m)
         /\ m.source = run.source /\ m.target = TargetIdentity(run.config) /\ m.profile = run.profile
         /\ DOMAIN m.records = DOMAIN payloads
         /\ \A i \in DOMAIN payloads : /\ m.records[i].plu_number = payloads[i].pluno
                                      /\ m.records[i].payload_sha256 = payloads[i]
<1>1. m = [f \in ManifestFields |-> m[f]] BY DEF ManifestFor, ManifestFields
<1>2. m.records = [i \in DOMAIN payloads |->
                     [plu_number |-> payloads[i].pluno, payload_sha256 |-> payloads[i],
                      status |-> "NOT_ATTEMPTED"]]
  BY DEF ManifestFor
<1>3. \A i \in DOMAIN m.records : IsRecord(m.records[i]) BY <1>2 DEF IsRecord, Statuses
<1>4. DOMAIN m.records = DOMAIN payloads BY <1>2
<1>5. IsManifest(m) BY <1>1, <1>3, <1>4 DEF IsManifest, Ordered
<1>6. m.source = run.source /\ m.target = TargetIdentity(run.config) /\ m.profile = run.profile
  BY DEF ManifestFor
<1> QED BY <1>2, <1>4, <1>5, <1>6

\* The first of the records that are still to be sent.
LEMMA MinOfSome == ASSUME NEW S \in SUBSET Nat, S # {} PROVE Min(S) \in S
<1>1. \E m \in S : \A x \in S : m <= x BY LeastNat
<1> QED BY <1>1 DEF Min

LEMMA NextUnsent ==
  ASSUME IsManifest(manifest), Unsent # {}
  PROVE  Min(Unsent) \in DOMAIN manifest.records
<1>1. PICK n \in Nat : DOMAIN manifest.records = 1 .. n BY DEF IsManifest, Ordered
<1>2. Unsent \in SUBSET Nat BY <1>1 DEF Unsent
<1>3. Min(Unsent) \in Unsent BY <1>2, MinOfSome
<1> QED BY <1>3 DEF Unsent

\* The PLUs that a command may send have an order, and so has what it selects.
LEMMA ValidInOrder ==
  ASSUME PassInv, HasPass
  PROVE  \E m \in Nat : DOMAIN ValidPlus = 1 .. m /\ ValidPlus = [k \in 1 .. m |-> ValidPlus[k]]
<1> DEFINE report == NormalizeDataset(run.context.dataset)
<1>1. PICK n \in Nat : DOMAIN report.plus = 1 .. n BY PassRead, NormalizedInOrder DEF Ordered
<1>2. ValidPlus = ValidPluCandidates(report.plus) BY PassRead DEF Validated, ValidPlus
<1> HIDE DEF report
<1>3. PICK m \in Nat : ValidPluCandidates(report.plus)
                         = [k \in 1 .. m |-> report.plus[Place(Remaining(report.plus), k)]]
  BY <1>1, CandidatesRemain
<1> QED BY <1>2, <1>3

LEMMA SelectedAmongValid ==
  ASSUME PassInv, HasPass, ValidPlus # <<>>
  PROVE  /\ Ordered(SelectRecordsToSend(ValidPlus))
         /\ \A i \in DOMAIN SelectRecordsToSend(ValidPlus) :
               i \in DOMAIN ValidPlus /\ SelectRecordsToSend(ValidPlus)[i] = ValidPlus[i]
<1>1. PICK m \in Nat : DOMAIN ValidPlus = 1 .. m /\ ValidPlus = [k \in 1 .. m |-> ValidPlus[k]]
  BY ValidInOrder
<1>2. m # 0 BY <1>1
<1>3. CASE run.cmd.first_only
  <2>1. DOMAIN SubSeq(ValidPlus, 1, 1) = 1 .. 1 /\ SubSeq(ValidPlus, 1, 1)[1] = ValidPlus[1]
    BY <1>1, <1>2
  <2>2. SelectRecordsToSend(ValidPlus) = SubSeq(ValidPlus, 1, 1) BY <1>3 DEF SelectRecordsToSend
  <2>3. 1 \in DOMAIN ValidPlus BY <1>1, <1>2
  <2>4. 1 \in Nat /\ \A i \in 1 .. 1 : i = 1 OBVIOUS
  <2>5. Ordered(SelectRecordsToSend(ValidPlus)) BY <2>1, <2>2, <2>4 DEF Ordered
  <2> QED BY <2>1, <2>2, <2>3, <2>4, <2>5
<1>4. CASE ~run.cmd.first_only BY <1>1, <1>4 DEF SelectRecordsToSend, Ordered
<1> QED BY <1>3, <1>4

\* The stages of an import that has a manifest, and those after the comparison.
Compared ==
  \/ run.pc \in {"secret", "send", "post"}
  \/ run.pc = "authenticate" /\ run.cmd.kind = "import"
Resuming == run.cmd.resume /\ run.pc \in {"source", "export", "context", "import"}

SendInv ==
  /\ manifest # Absent => IsManifest(manifest)
  /\ run.pc = "compatibility" \/ Compared \/ Resuming => IsManifest(manifest)
  /\ Compared => Compatible
  /\ run.pc = "post" => /\ run.at \in DOMAIN manifest.records
                        /\ manifest.records[run.at].status = "SUBMISSION_STARTED"

\* What the comparison compares: it stays true while none of it changes.
LEMMA StaysCompatible ==
  ASSUME Compatible, SamePlus(manifest, manifest'), run'.source = run.source,
         run'.config = run.config, run'.context = run.context
  PROVE  Compatible'
<1>1. ValidPlus' = ValidPlus BY DEF ValidPlus
<1>2. ASSUME NEW i \in DOMAIN manifest.records
      PROVE  PayloadMatches(manifest.records[i]) => PayloadMatches(manifest.records[i])'
  <2>1. /\ manifest'.records[i].plu_number = manifest.records[i].plu_number
        /\ manifest'.records[i].payload_sha256 = manifest.records[i].payload_sha256
    BY DEF SamePlus
  <2>2. PluFor(manifest.records[i])' = PluFor(manifest.records[i]) BY <1>1, <2>1 DEF PluFor
  <2> QED BY <1>1, <2>1, <2>2 DEF PayloadMatches
<1> QED BY <1>2 DEF Compatible, SamePlus

\* A stage after the comparison follows one, with the same manifest or a new status in it.
LEMMA KeepsSend ==
  ASSUME SendInv, Compared \/ Compatible, SamePlus(manifest, manifest'), IsManifest(manifest'),
         run'.source = run.source, run'.config = run.config, run'.context = run.context,
         run'.pc = "post" => /\ run'.at \in DOMAIN manifest'.records
                             /\ manifest'.records[run'.at].status = "SUBMISSION_STARTED"
  PROVE  SendInv'
<1>1. Compatible BY DEF SendInv
<1>2. Compatible' BY <1>1, StaysCompatible
<1> QED BY <1>2 DEF SendInv

\* A stage that needs no manifest, or that needs one and had it.
LEMMA BeforeSend ==
  ASSUME SendInv, manifest' = manifest,
         ~Compared', run'.pc \in {"compatibility"} \/ Resuming' => IsManifest(manifest)
  PROVE  SendInv'
BY DEF SendInv, Compared

LEMMA IdleSent == ASSUME SendInv, manifest' = manifest, run' = Idle PROVE SendInv'
BY BeforeSend DEF Compared, Resuming, Idle

LEMMA StepSent == ASSUME ReadInv, SendInv, [Next]_vars PROVE SendInv'
<1>0. ASSUME Refused PROVE SendInv' BY <1>0, IdleSent DEF Refused, Refuse, End
<1> StageInv /\ PassInv BY DEF ReadInv
<1>1. ASSUME NEW cli \in CommandLines, StartCommand(cli) PROVE SendInv'
  <2>1. run'.pc = "config" /\ manifest' = manifest BY <1>1 DEF StartCommand
  <2> QED BY <2>1, BeforeSend DEF Compared, Resuming
<1>2. CASE LoadConfig
  <2>1. Refused \/ (run'.pc \in {"connection", "profile"} /\ manifest' = manifest)
    BY <1>2, ConfigLoaded DEF Fields, OnlyRun
  <2> QED BY <1>0, <2>1, BeforeSend DEF Compared, Resuming
<1>3. CASE LoadProfile
  <2>1. CASE ProfileReadable(run.cmd)
    <3>1. run'.pc = "source" /\ run'.cmd = run.cmd /\ manifest' = manifest
      BY <1>3, <2>1, ProfileLoaded DEF Fields, OnlyRun
    <3>2. run.cmd.resume => IsManifest(manifest) BY <2>1 DEF ProfileReadable, SendInv
    <3> QED BY <3>1, <3>2, BeforeSend DEF Compared, Resuming
  <2> QED BY <1>0, <1>3, <2>1, ProfileLoaded
<1>4. CASE HashSource \/ ExportSource \/ BuildContext
  <2>1. Refused \/ (/\ run.pc \in {"source", "export", "context"} /\ manifest' = manifest
                    /\ run'.pc \in {"export", "context", run.cmd.kind} /\ run'.cmd = run.cmd)
    BY <1>4, SourceHashed, SourceExported, ContextBuilt DEF Fields, OnlyRun
  <2>2. run.pc \in {"source", "export", "context"} => run.cmd.kind \in {"analyze", "sanitize", "verify", "import"}
    BY AtWork DEF KindAt
  <2>3. run.pc \in {"source", "export", "context"} /\ run.cmd.resume => IsManifest(manifest)
    BY DEF SendInv, Resuming
  <2> QED BY <1>0, <2>1, <2>2, <2>3, BeforeSend DEF Compared, Resuming
<1>5. CASE Analyze \/ Sanitize \/ Finish \/ AuthenticationFails \/ Dies
  BY <1>5, IdleSent DEF Analyze, Sanitize, Finish, AuthenticationFails, End, EndContacted, Dies
<1>6. CASE Verify \/ TestConnection
  <2>1. Refused \/ (run.pc \in {"verify", "connection"} /\ run'.pc = "authenticate"
                    /\ run'.cmd = run.cmd /\ manifest' = manifest)
    BY <1>6, Verified, ConnectionTested DEF Fields, OnlyRun
  <2>2. run.pc \in {"verify", "connection"} => run.cmd.kind # "import" BY AtWork DEF KindAt
  <2> QED BY <1>0, <2>1, <2>2, BeforeSend DEF Compared, Resuming
<1>7. CASE CreateManifest
  <2>1. CASE ImportReady /\ AllBuild(SelectRecordsToSend(ValidPlus))
    <3> DEFINE selected == SelectRecordsToSend(ValidPlus)
    <3>1. /\ run.pc = "import" /\ run'.pc = "compatibility"
          /\ manifest' = ManifestFor(BuildPayloads(selected))
      BY <1>7, <2>1, ManifestCreated DEF Fields
    <3>2. Ordered(selected) BY <2>1, <3>1, SelectedAmongValid DEF HasPass, ImportReady
    <3>3. Ordered(BuildPayloads(selected)) BY <3>2 DEF BuildPayloads, Ordered
    <3>4. IsManifest(manifest') BY <3>1, <3>3, NewManifest
    <3> QED BY <3>1, <3>4 DEF SendInv, Compared
  <2> QED BY <1>0, <1>7, <2>1, ManifestCreated
<1>8. CASE LoadManifest
  <2>1. CASE ImportReady
    <3>1. run.pc = "import" /\ run.cmd.resume /\ run'.pc = "compatibility" /\ manifest' = manifest
      BY <1>8, <2>1, ManifestLoaded DEF Fields, OnlyRun, LoadManifest
    <3>2. IsManifest(manifest) BY <3>1 DEF SendInv, Resuming
    <3> QED BY <3>1, <3>2, BeforeSend DEF Compared, Resuming
  <2> QED BY <1>0, <1>8, <2>1, ManifestLoaded
<1>9. CASE CheckCompatibility
  <2>1. CASE Compatible
    <3>1. /\ run.pc = "compatibility" /\ run'.pc = "secret"
          /\ run'.source = run.source /\ run'.config = run.config /\ run'.context = run.context
          /\ manifest' = [manifest EXCEPT !.records = [i \in DOMAIN @ |-> Restarted(@[i])]]
      BY <1>9, <2>1, CompatibilityChecked DEF Fields
    <3>2. IsManifest(manifest) BY <3>1 DEF SendInv
    <3>3. IsManifest(manifest') /\ SamePlus(manifest, manifest') BY <3>1, <3>2, RestartedManifest
    <3> QED BY <2>1, <3>1, <3>3, KeepsSend
  <2> QED BY <1>0, <1>9, <2>1, CompatibilityChecked
<1>10. CASE LoadSecret
  <2>1. CASE run.config.secret
    <3>1. /\ run.pc = "secret" /\ run'.pc = "authenticate" /\ manifest' = manifest
          /\ run'.source = run.source /\ run'.config = run.config /\ run'.context = run.context
      BY <1>10, <2>1, SecretLoaded DEF Fields, OnlyRun
    <3>2. Compared /\ IsManifest(manifest) BY <3>1 DEF SendInv, Compared
    <3> QED BY <3>1, <3>2, KeepsSend DEF SamePlus
  <2> QED BY <1>0, <1>10, <2>1, SecretLoaded
<1>11. CASE Authenticate
  <2>1. CASE run.cmd.kind = "import"
    <3>1. /\ run.pc = "authenticate" /\ run'.pc = "send" /\ manifest' = manifest
          /\ run'.source = run.source /\ run'.config = run.config /\ run'.context = run.context
      BY <1>11, <2>1, Authenticated DEF Fields
    <3>2. Compared /\ IsManifest(manifest) BY <2>1, <3>1 DEF SendInv, Compared
    <3> QED BY <3>1, <3>2, KeepsSend DEF SamePlus
  <2>2. CASE run.cmd.kind # "import"
    BY <1>11, <2>2, IdleSent, Authenticated DEF EndContacted
  <2> QED BY <2>1, <2>2
<1>12. CASE BeginAttempt
  <2>1. /\ run.pc = "send" /\ Unsent # {} /\ run'.pc = "post" /\ run'.at = Min(Unsent)
        /\ manifest' = [manifest EXCEPT !.records[Min(Unsent)].status = "SUBMISSION_STARTED"]
        /\ run'.source = run.source /\ run'.config = run.config /\ run'.context = run.context
    BY <1>12, AttemptBegun DEF Fields
  <2>2. Compared /\ IsManifest(manifest) BY <2>1 DEF SendInv, Compared
  <2>3. Min(Unsent) \in DOMAIN manifest.records BY <2>1, <2>2, NextUnsent
  <2>4. /\ IsManifest(manifest') /\ SamePlus(manifest, manifest')
        /\ manifest'.records[Min(Unsent)].status = "SUBMISSION_STARTED"
    BY <2>1, <2>2, <2>3, StatusSet DEF Statuses
  <2>5. Min(Unsent) \in DOMAIN manifest'.records BY <2>3, <2>4 DEF SamePlus
  <2> QED BY <2>1, <2>2, <2>4, <2>5, KeepsSend
<1>13. CASE Post
  <2>1. /\ run.pc = "post" /\ run'.pc = "send"
        /\ manifest' = [manifest EXCEPT !.records[run.at].status = "SUCCESS"]
        /\ run'.source = run.source /\ run'.config = run.config /\ run'.context = run.context
    BY <1>13, Posted DEF Fields
  <2>2. Compared /\ IsManifest(manifest) /\ run.at \in DOMAIN manifest.records
    BY <2>1 DEF SendInv, Compared
  <2>3. IsManifest(manifest') /\ SamePlus(manifest, manifest') BY <2>1, <2>2, StatusSet DEF Statuses
  <2> QED BY <2>1, <2>2, <2>3, KeepsSend
<1>14. ASSUME NEW f, Edited(f) PROVE SendInv'
  <2>1. manifest' = manifest BY <1>14 DEF Edited
  <2>2. CASE run' = Idle BY <2>1, <2>2, IdleSent
  <2>3. CASE /\ run'.pc = run.pc /\ run'.cmd = run.cmd /\ run'.at = run.at
             /\ run'.source = run.source /\ run'.config = run.config /\ run'.context = run.context
    <3>1. Compared' = Compared /\ Resuming' = Resuming BY <2>3 DEF Compared, Resuming
    <3>2. CASE Compared BY <2>1, <2>3, <3>1, <3>2, KeepsSend DEF SendInv, SamePlus
    <3>3. CASE ~Compared BY <2>1, <2>3, <3>1, <3>3, BeforeSend DEF SendInv
    <3> QED BY <3>2, <3>3
  <2> QED BY <1>14, <2>2, <2>3, RunTouched DEF Fields
<1>15. CASE UNCHANGED vars
  <2>1. run' = run /\ manifest' = manifest BY <1>15 DEF vars
  <2>2. Compared' = Compared /\ Resuming' = Resuming BY <2>1 DEF Compared, Resuming
  <2>3. CASE Compared BY <2>1, <2>2, <2>3, KeepsSend DEF SendInv, SamePlus
  <2>4. CASE ~Compared BY <2>1, <2>2, <2>4, BeforeSend DEF SendInv
  <2> QED BY <2>3, <2>4
<1> QED
  BY <1>1, <1>2, <1>3, <1>4, <1>5, <1>6, <1>7, <1>8, <1>9, <1>10, <1>11, <1>12, <1>13, <1>14, <1>15
  DEF Next, ReplaceDatabase, ReplaceConfig, ReplaceProfile, ReplaceSnapshot

LEMMA InitSent == Init => SendInv
BY DEF Init, SendInv, Compared, Resuming, Idle

LEMMA AlwaysSent == Spec => [](ReadInv /\ SendInv)
<1>1. Init => ReadInv /\ SendInv BY InitRead, InitSent
<1>2. (ReadInv /\ SendInv) /\ [Next]_vars => (ReadInv /\ SendInv)' BY StepRead, StepSent
<1> QED BY <1>1, <1>2, PTL DEF Spec

\* What was sent stays what was recorded while the manifest is one of the same PLUs.
LEMMA StaysRecorded ==
  ASSUME SentAsRecorded, SamePlus(manifest, manifest'), sent' = sent
  PROVE  SentAsRecorded'
BY DEF SentAsRecorded, SamePlus

LEMMA StepRecorded ==
  ASSUME ReadInv, SendInv, SentAsRecorded, [Next]_vars
  PROVE  SentAsRecorded'
<1> StageInv /\ PassInv BY DEF ReadInv
<1>1. ASSUME manifest' = manifest, sent' = sent PROVE SentAsRecorded'
  BY <1>1, StaysRecorded DEF SamePlus
<1>2. CASE CreateManifest BY <1>1, <1>2 DEF CreateManifest, Refuse, SentAsRecorded
<1>3. CASE CheckCompatibility
  <2>1. CASE Compatible
    <3>1. /\ run.pc = "compatibility" /\ sent' = sent
          /\ manifest' = [manifest EXCEPT !.records = [i \in DOMAIN @ |-> Restarted(@[i])]]
      BY <1>3, <2>1, CompatibilityChecked
    <3>2. IsManifest(manifest) BY <3>1 DEF SendInv
    <3> QED BY <3>1, <3>2, RestartedManifest, StaysRecorded
  <2> QED BY <1>1, <1>3, <2>1, CompatibilityChecked DEF Refused, Refuse
<1>4. CASE BeginAttempt
  <2>1. /\ run.pc = "send" /\ Unsent # {} /\ sent' = sent
        /\ manifest' = [manifest EXCEPT !.records[Min(Unsent)].status = "SUBMISSION_STARTED"]
    BY <1>4 DEF BeginAttempt
  <2>2. IsManifest(manifest) BY <2>1 DEF SendInv, Compared
  <2>3. Min(Unsent) \in DOMAIN manifest.records BY <2>1, <2>2, NextUnsent
  <2> QED BY <2>1, <2>2, <2>3, StatusSet, StaysRecorded DEF Statuses
<1>5. CASE Post
  <2> DEFINE record == manifest.records[run.at]
             s == [at |-> run.at, target |-> TargetIdentity(run.config),
                   payload |-> FromPlu(PluFor(record), run.config)]
  <2>1. /\ run.pc = "post" /\ sent' = sent \cup {s}
        /\ manifest' = [manifest EXCEPT !.records[run.at].status = "SUCCESS"]
    BY <1>5, Posted
  <2>2. /\ IsManifest(manifest) /\ run.at \in DOMAIN manifest.records
        /\ Compatible
    BY <2>1 DEF SendInv, Compared
  <2>3. /\ s.at = run.at
        /\ s.target = manifest.target
        /\ s.payload = record.payload_sha256
    BY <2>2 DEF Compatible, PayloadMatches
  <2>4. SamePlus(manifest, manifest') BY <2>1, <2>2, StatusSet DEF Statuses
  <2> HIDE DEF s
  <2> QED BY <2>1, <2>2, <2>3, <2>4 DEF SentAsRecorded, SamePlus
<1>6. CASE \/ \E cli \in CommandLines : StartCommand(cli)
           \/ LoadConfig \/ LoadProfile \/ HashSource \/ ExportSource \/ BuildContext
           \/ Analyze \/ Sanitize \/ Verify \/ TestConnection \/ LoadManifest \/ LoadSecret
           \/ Authenticate \/ AuthenticationFails \/ Finish \/ Dies
           \/ ReplaceDatabase \/ ReplaceConfig \/ ReplaceProfile \/ ReplaceSnapshot
           \/ UNCHANGED vars
  BY <1>1, <1>6
  DEF StartCommand, LoadConfig, LoadProfile, HashSource, ExportSource, BuildContext, Analyze, Sanitize,
      Verify, TestConnection, LoadManifest, LoadSecret, Authenticate, AuthenticationFails, Finish, Dies,
      ReplaceDatabase, ReplaceConfig, ReplaceProfile, ReplaceSnapshot, Edited, vars, Refuse
<1> QED BY <1>2, <1>3, <1>4, <1>5, <1>6 DEF Next

(* DIGIweb receives for a record the payload that was recorded when the    *)
(* PLUs were selected, at the target that was recorded, whatever is edited *)
(* between the steps of an import, of its resumes and of other commands.   *)
(* What is sent is compared with the manifest after the last moment at     *)
(* which it is read, and nothing is read again.                            *)
THEOREM WhatIsSentWasRecorded == Spec => []SentAsRecorded
<1>1. Init => SentAsRecorded BY DEF Init, SentAsRecorded
<1>2. (ReadInv /\ SendInv) /\ SentAsRecorded /\ [Next]_vars => SentAsRecorded' BY StepRecorded
<1> QED BY <1>1, <1>2, AlwaysSent, PTL DEF Spec

(* Types *)

\* A model value, which is how Absent is given its value, is no function.
AbsentIsNoRecord == \A S, f : Absent # [x \in S |-> f[x]]

RestInv ==
  /\ last.exit \in 0 .. 3
  /\ left \in [commands : Nat, edits : Nat, deaths : Nat]
  /\ pristine => IsManifest(manifest)

LEMMA InitRest == Init => RestInv
<1> SUFFICES ASSUME Init PROVE RestInv OBVIOUS
<1>1. PICK s \in Scenarios : left = s.left BY DEF Init
<1>2. left \in [commands : Nat, edits : Nat, deaths : Nat] BY <1>1, ScenariosAssumption
<1> QED BY <1>2 DEF Init, RestInv, Never

\* How a command may end.
LEMMA StepExits == ASSUME StageInv, last.exit \in 0 .. 3, [Next]_vars PROVE last'.exit \in 0 .. 3
<1>1. CASE Local BY <1>1, LocalSteps DEF Refused, Refuse, End
<1>2. CASE Analyze BY <1>2 DEF Analyze, End, AnalysisExit
<1>3. CASE Sanitize BY <1>3 DEF Sanitize, End, SanitizeExit
<1>4. CASE Finish BY <1>4 DEF Finish, End
<1>5. CASE Authenticate
  <2>1. last' = last \/ EndContacted(0) \/ EndContacted(2) BY <1>5, Authenticated
  <2> QED BY <2>1 DEF EndContacted
<1>6. CASE AuthenticationFails BY <1>6 DEF AuthenticationFails, EndContacted
<1>7. CASE \E cli \in CommandLines : StartCommand(cli) BY <1>7 DEF StartCommand, Never
<1>8. CASE \/ BeginAttempt \/ Post \/ Dies \/ UNCHANGED vars
           \/ ReplaceDatabase \/ ReplaceConfig \/ ReplaceProfile \/ ReplaceSnapshot
  BY <1>8 DEF BeginAttempt, Post, Dies, vars,
              ReplaceDatabase, ReplaceConfig, ReplaceProfile, ReplaceSnapshot, Edited
<1> QED BY <1>1, <1>2, <1>3, <1>4, <1>5, <1>6, <1>7, <1>8 DEF Next, Local

\* Commands, edits and deaths are only ever used up.
LEMMA StepLeft ==
  ASSUME StageInv, left \in [commands : Nat, edits : Nat, deaths : Nat], [Next]_vars
  PROVE  left' \in [commands : Nat, edits : Nat, deaths : Nat]
<1>1. CASE \E cli \in CommandLines : StartCommand(cli) BY <1>1 DEF StartCommand
<1>2. CASE Dies BY <1>2 DEF Dies
<1>3. ASSUME NEW f, Edited(f) PROVE left' \in [commands : Nat, edits : Nat, deaths : Nat]
  BY <1>3 DEF Edited
<1>4. CASE Local BY <1>4, LocalSteps DEF Refused
<1>5. CASE Analyze \/ Sanitize \/ Finish \/ Authenticate \/ AuthenticationFails \/ BeginAttempt \/ Post
           \/ UNCHANGED vars
  BY <1>5 DEF Analyze, Sanitize, Finish, Authenticate, AuthenticationFails, BeginAttempt, Post, vars
<1> QED
  BY <1>1, <1>2, <1>3, <1>4, <1>5
  DEF Next, Local, ReplaceDatabase, ReplaceConfig, ReplaceProfile, ReplaceSnapshot

\* A manifest that has been made is there for good.
LEMMA ManifestStays ==
  ASSUME ReadInv, SendInv, IsManifest(manifest), [Next]_vars
  PROVE  IsManifest(manifest') /\ (SamePlus(manifest, manifest') \/ CreateManifest)
<1> StageInv /\ PassInv BY DEF ReadInv
<1>1. ASSUME manifest' = manifest PROVE IsManifest(manifest') /\ SamePlus(manifest, manifest')
  BY <1>1 DEF SamePlus
<1>2. CASE CreateManifest
  <2>1. CASE ImportReady /\ AllBuild(SelectRecordsToSend(ValidPlus))
    <3>1. run'.pc = "compatibility" BY <1>2, <2>1, ManifestCreated DEF Fields
    <3> QED BY <1>2, <3>1, StepSent DEF SendInv
  <2> QED BY <1>1, <1>2, <2>1, ManifestCreated DEF Refused, Refuse
<1>3. CASE CheckCompatibility
  <2>1. CASE Compatible BY <1>3, <2>1, CompatibilityChecked, RestartedManifest
  <2> QED BY <1>1, <1>3, <2>1, CompatibilityChecked DEF Refused, Refuse
<1>4. CASE BeginAttempt
  <2>1. Unsent # {} /\ manifest' = [manifest EXCEPT !.records[Min(Unsent)].status = "SUBMISSION_STARTED"]
    BY <1>4 DEF BeginAttempt
  <2>2. Min(Unsent) \in DOMAIN manifest.records BY <2>1, NextUnsent
  <2> QED BY <2>1, <2>2, StatusSet DEF Statuses
<1>5. CASE Post
  <2>1. run.pc = "post" /\ manifest' = [manifest EXCEPT !.records[run.at].status = "SUCCESS"]
    BY <1>5, Posted
  <2>2. run.at \in DOMAIN manifest.records BY <2>1 DEF SendInv
  <2> QED BY <2>1, <2>2, StatusSet DEF Statuses
<1>6. CASE \/ \E cli \in CommandLines : StartCommand(cli)
           \/ LoadConfig \/ LoadProfile \/ HashSource \/ ExportSource \/ BuildContext
           \/ Analyze \/ Sanitize \/ Verify \/ TestConnection \/ LoadManifest \/ LoadSecret
           \/ Authenticate \/ AuthenticationFails \/ Finish \/ Dies
           \/ ReplaceDatabase \/ ReplaceConfig \/ ReplaceProfile \/ ReplaceSnapshot
           \/ UNCHANGED vars
  BY <1>1, <1>6
  DEF StartCommand, LoadConfig, LoadProfile, HashSource, ExportSource, BuildContext, Analyze, Sanitize,
      Verify, TestConnection, LoadManifest, LoadSecret, Authenticate, AuthenticationFails, Finish, Dies,
      ReplaceDatabase, ReplaceConfig, ReplaceProfile, ReplaceSnapshot, Edited, vars, Refuse
<1> QED BY <1>2, <1>3, <1>4, <1>5, <1>6 DEF Next

\* pristine becomes true with a new manifest only.
LEMMA PristineBefore ==
  ASSUME StageInv, [Next]_vars, pristine'
  PROVE  pristine \/ (/\ CreateManifest /\ run'.pc = "compatibility" /\ ~run.touched
                      /\ ImportReady /\ AllBuild(SelectRecordsToSend(ValidPlus)))
<1>1. CASE CreateManifest BY <1>1, ManifestCreated DEF Refused, Refuse, Fields
<1>2. CASE \/ \E cli \in CommandLines : StartCommand(cli)
           \/ LoadConfig \/ LoadProfile \/ HashSource \/ ExportSource \/ BuildContext
           \/ Analyze \/ Sanitize \/ Verify \/ TestConnection \/ LoadManifest \/ LoadSecret
           \/ CheckCompatibility \/ Authenticate \/ AuthenticationFails \/ BeginAttempt \/ Post
           \/ Finish \/ Dies
           \/ ReplaceDatabase \/ ReplaceConfig \/ ReplaceProfile \/ ReplaceSnapshot
           \/ UNCHANGED vars
  BY <1>2
  DEF StartCommand, LoadConfig, LoadProfile, HashSource, ExportSource, BuildContext, Analyze, Sanitize,
      Verify, TestConnection, LoadManifest, LoadSecret, CheckCompatibility, Authenticate,
      AuthenticationFails, BeginAttempt, Post, Finish, Dies,
      ReplaceDatabase, ReplaceConfig, ReplaceProfile, ReplaceSnapshot, Edited, vars, Refuse
<1> QED BY <1>1, <1>2 DEF Next

LEMMA StepRest == ASSUME ReadInv, SendInv, RestInv, [Next]_vars PROVE RestInv'
<1> StageInv /\ PassInv BY DEF ReadInv
<1>1. last'.exit \in 0 .. 3 BY StepExits DEF RestInv
<1>2. left' \in [commands : Nat, edits : Nat, deaths : Nat] BY StepLeft DEF RestInv
<1>3. ASSUME pristine' PROVE IsManifest(manifest')
  <2>1. CASE pristine BY <2>1, ManifestStays DEF RestInv
  <2>2. CASE run'.pc = "compatibility" BY <2>2, StepSent DEF SendInv
  <2> QED BY <1>3, <2>1, <2>2, PristineBefore
<1> QED BY <1>1, <1>2, <1>3 DEF RestInv

LEMMA AlwaysRest == Spec => [](ReadInv /\ SendInv /\ RestInv)
<1>1. Init => ReadInv /\ SendInv /\ RestInv BY InitRead, InitSent, InitRest
<1>2. (ReadInv /\ SendInv /\ RestInv) /\ [Next]_vars => (ReadInv /\ SendInv /\ RestInv)'
  BY StepRead, StepSent, StepRest
<1> QED BY <1>1, <1>2, PTL DEF Spec

(* Every stage has what it works with: the manifest, the context, a record *)
(* that is saved as started before it is sent.                             *)
THEOREM TypesCorrect == ASSUME AbsentIsNoRecord PROVE Spec => []TypeOK
<1>1. ReadInv /\ SendInv /\ RestInv => TypeOK
  <2> SUFFICES ASSUME ReadInv, SendInv, RestInv PROVE TypeOK OBVIOUS
  <2>1. ASSUME NEW m, IsManifest(m) PROVE m # Absent BY <2>1 DEF IsManifest, AbsentIsNoRecord
  <2>2. ASSUME NEW c, IsRecordOf(c) PROVE c # Absent BY <2>2 DEF IsRecordOf, AbsentIsNoRecord
  <2>3. run.pc \in {"compatibility", "secret", "send", "post"} => manifest # Absent
    BY <2>1 DEF SendInv, Compared
  <2>4. HasContext => run.context # Absent BY <2>2, PassRead DEF ReadInv, HasContext, HasPass
  <2>5. run.pc = "post" => manifest.records[run.at].status = "SUBMISSION_STARTED" BY DEF SendInv
  <2>6. manifest # Absent => \A i \in DOMAIN manifest.records :
          manifest.records[i].status \in {"NOT_ATTEMPTED", "SUBMISSION_STARTED", "SUCCESS", "AMBIGUOUS_SUBMISSION"}
    BY DEF SendInv, IsManifest, IsRecord, Statuses
  <2>7. pristine => manifest # Absent BY <2>1 DEF RestInv
  <2> QED BY <2>3, <2>4, <2>5, <2>6, <2>7 DEF ReadInv, StageInv, RestInv, TypeOK
<1> QED BY <1>1, AlwaysRest, PTL

(* What was accepted once *)

\* What a command finds in the files f: its configuration, its profile, its PLUs.
ConfigIn(f) == IF f.config = Absent THEN DefaultConfig ELSE f.config
ProfileIn(f, name) == IF name = Absent THEN Absent ELSE f.profiles[name]
DatasetIn(f) == ReadDataset(f.db, ConfigIn(f))
PlusIn(f, profile) == Context(DatasetIn(f), profile).after.valid_plus

\* The files let an online command with this profile come to its PLUs.
ReadyIn(f, profile) ==
  /\ ConfigIn(f).parses /\ f.config # Absent /\ ConfigIn(f).startup_ok
  /\ f.db # Absent /\ ReadsDataset(f.db)
  /\ ContextBuilds(DatasetIn(f), profile)
  /\ PlusIn(f, profile) # <<>>

\* What a verify of the profile that is named has found.
VerifiedIn(f, name) ==
  /\ name # Absent => ProfileOk(f.profiles[name])
  /\ ReadyIn(f, ProfileIn(f, name))
  /\ ConfigIn(f).token_url = "set" /\ ConfigIn(f).secret

\* What the manifest m recorded of these files.
PluOf(valid, record) == valid[CHOOSE i \in DOMAIN valid : valid[i].plu_number = record.plu_number]
Matches(valid, config, record) ==
  /\ record.plu_number \in Numbers(valid)
  /\ PayloadBuilds(PluOf(valid, record))
  /\ FromPlu(PluOf(valid, record), config) = record.payload_sha256
RecordedIn(source, target, valid, config, m) ==
  /\ m.source = source /\ m.target = target
  /\ \A i \in DOMAIN m.records : Matches(valid, config, m.records[i])
MadeIn(f, m) ==
  /\ IsManifest(m)
  /\ ReadyIn(f, m.profile)
  /\ ConfigIn(f).token_url # "unset" /\ ConfigIn(f).upsert_path
  /\ m.profile # Absent => f.snapshot = m.profile
  /\ RecordedIn(f.db, TargetIdentity(ConfigIn(f)), PlusIn(f, m.profile), ConfigIn(f), m)

LEMMA CompatibleIs ==
  Compatible <=> RecordedIn(run.source, TargetIdentity(run.config), ValidPlus, run.config, manifest)
BY DEF Compatible, RecordedIn, PayloadMatches, Matches, PluFor, PluOf

\* The snapshot is not among the files that matter to a verify.
SameInput(f, g) == g.db = f.db /\ g.config = f.config /\ g.profiles = f.profiles

LEMMA SameFound ==
  ASSUME NEW f, NEW g, SameInput(f, g)
  PROVE  /\ ConfigIn(g) = ConfigIn(f) /\ DatasetIn(g) = DatasetIn(f)
         /\ \A x : ProfileIn(g, x) = ProfileIn(f, x) /\ PlusIn(g, x) = PlusIn(f, x)
         /\ \A x : ReadyIn(f, x) => ReadyIn(g, x)
         /\ \A x : VerifiedIn(f, x) => VerifiedIn(g, x)
         /\ \A m : MadeIn(f, m) /\ (m.profile # Absent => g.snapshot = m.profile) => MadeIn(g, m)
<1>1. ConfigIn(g) = ConfigIn(f) BY DEF ConfigIn, SameInput
<1>2. DatasetIn(g) = DatasetIn(f) BY <1>1 DEF DatasetIn, SameInput
<1>3. \A x : ProfileIn(g, x) = ProfileIn(f, x) /\ PlusIn(g, x) = PlusIn(f, x)
  BY <1>2 DEF ProfileIn, PlusIn, SameInput
<1>4. \A x : ReadyIn(f, x) => ReadyIn(g, x) BY <1>1, <1>2, <1>3 DEF ReadyIn, SameInput
<1>5. ASSUME NEW x, VerifiedIn(f, x) PROVE VerifiedIn(g, x)
  BY <1>1, <1>3, <1>4, <1>5 DEF VerifiedIn, SameInput
<1>6. ASSUME NEW m, MadeIn(f, m), m.profile # Absent => g.snapshot = m.profile PROVE MadeIn(g, m)
  <2>1. g.db = f.db BY DEF SameInput
  <2> QED BY <1>1, <1>3, <1>4, <1>6, <2>1 DEF MadeIn
<1> QED BY <1>1, <1>2, <1>3, <1>4, <1>5, <1>6

\* A manifest with new statuses was made of the same files.
LEMMA StillMade ==
  ASSUME NEW f, NEW m, NEW n, MadeIn(f, m), SamePlus(m, n), IsManifest(n)
  PROVE  MadeIn(f, n)
<1>1. n.source = m.source /\ n.target = m.target /\ n.profile = m.profile BY DEF SamePlus
<1>2. ASSUME NEW valid, NEW config, NEW i \in DOMAIN m.records, Matches(valid, config, m.records[i])
      PROVE  Matches(valid, config, n.records[i])
  <2>1. /\ n.records[i].plu_number = m.records[i].plu_number
        /\ n.records[i].payload_sha256 = m.records[i].payload_sha256
    BY DEF SamePlus
  <2>2. PluOf(valid, n.records[i]) = PluOf(valid, m.records[i]) BY <2>1 DEF PluOf
  <2> QED BY <1>2, <2>1, <2>2 DEF Matches
<1>3. DOMAIN n.records = DOMAIN m.records BY DEF SamePlus
<1> QED BY <1>1, <1>2, <1>3 DEF MadeIn, RecordedIn

\* The stages after the profile, after the hash, and after the export.
ProfileStage == run.pc \in {"source", "export", "context"} \/ HasPass
HashStage == run.pc \in {"export", "context"} \/ HasPass
ReadStage == run.pc = "context" \/ HasPass

\* A command that no edit has touched goes by the files as they are now.
UntouchedInv ==
  run.pc # "idle" /\ ~run.touched =>
    /\ run.pc # "config" => run.config = ConfigIn(files) /\ ConfigAccepted(run.cmd, run.config)
    /\ ProfileStage /\ ~run.cmd.resume =>
          /\ run.profile = ProfileIn(files, run.cmd.profile)
          /\ run.cmd.profile # Absent => ProfileOk(files.profiles[run.cmd.profile])
    /\ HashStage => files.db # Absent /\ run.source = files.db
    /\ ReadStage => ReadsDataset(files.db)
    /\ run.pc = "context" => run.dataset = DatasetIn(files)
    /\ HasPass => /\ ContextBuilds(DatasetIn(files), run.profile)
                  /\ run.context = Context(DatasetIn(files), run.profile)
    /\ run.pc = "authenticate" => run.config.secret

ResumeInv == ProfileStage /\ run.cmd.resume => run.profile = manifest.profile

\* A new import has just made the manifest that it compares.
FreshInv == run.pc = "compatibility" /\ ~run.cmd.resume => Compatible

AcceptedInv ==
  accepted # Absent => /\ VerifiedIn(files, accepted.profile)
                       /\ run.pc # "idle" => ~run.touched

PristineInv ==
  pristine => /\ MadeIn(files, manifest)
              /\ run.pc # "idle" => ~run.touched

\* A stage with everything that the stage before had, or with less.
LEMMA KeepsUntouched ==
  ASSUME UntouchedInv, run.pc \notin {"idle", "config"}, SameInput(files, files'),
         run'.cmd = run.cmd, run'.config = run.config, run'.profile = run.profile,
         run'.source = run.source, run'.context = run.context, run'.touched = run.touched,
         HasPass' => HasPass, run'.pc \notin {"source", "export", "context"},
         run'.pc = "authenticate" => run.config.secret
  PROVE  UntouchedInv'
<1>1. /\ ConfigIn(files') = ConfigIn(files) /\ DatasetIn(files') = DatasetIn(files)
      /\ ProfileIn(files', run.cmd.profile) = ProfileIn(files, run.cmd.profile)
      /\ files'.db = files.db /\ files'.profiles = files.profiles
  BY SameFound DEF SameInput
<1>2. /\ ProfileStage' => ProfileStage /\ HasPass
      /\ HashStage' => HashStage /\ HasPass
      /\ ReadStage' => ReadStage /\ HasPass
  BY DEF ProfileStage, HashStage, ReadStage
<1>3. ConfigAccepted(run.cmd, run.config)' <=> ConfigAccepted(run.cmd, run.config)
  BY DEF ConfigAccepted, IsOffline, SameInput
<1> QED BY <1>1, <1>2, <1>3 DEF UntouchedInv

LEMMA IdleUntouched == ASSUME run' = Idle PROVE UntouchedInv'
BY DEF UntouchedInv, Idle

LEMMA SameFiles == SameInput(files, files)
BY DEF SameInput

LEMMA StepUntouched == ASSUME StageInv, FilesInv, UntouchedInv, [Next]_vars PROVE UntouchedInv'
<1>0. ASSUME Refused PROVE UntouchedInv' BY <1>0, IdleUntouched DEF Refused, Refuse, End
<1>a. LoadedConfig = ConfigIn(files) BY DEF LoadedConfig, ConfigIn
<1>1. ASSUME NEW cli \in CommandLines, StartCommand(cli) PROVE UntouchedInv'
  <2>1. run'.pc = "config" BY <1>1 DEF StartCommand
  <2> QED BY <2>1 DEF UntouchedInv, ProfileStage, HashStage, ReadStage, HasPass
<1>2. CASE LoadConfig
  <2> DEFINE cmd == EffectiveCommand(run.cmd, LoadedConfig)
  <2>1. CASE ConfigAccepted(cmd, LoadedConfig)
    <3>1. /\ run'.pc \in {"connection", "profile"} /\ run'.cmd = cmd /\ run'.config = ConfigIn(files)
          /\ files' = files
      BY <1>2, <1>a, <2>1, ConfigLoaded DEF Fields, OnlyRun
    <3>2. ConfigAccepted(run.cmd, run.config)' BY <1>a, <2>1, <3>1 DEF ConfigAccepted, IsOffline
    <3>3. ~ProfileStage' /\ ~HashStage' /\ ~ReadStage' /\ ~HasPass'
      BY <3>1 DEF ProfileStage, HashStage, ReadStage, HasPass
    <3> QED BY <3>1, <3>2, <3>3 DEF UntouchedInv
  <2> QED BY <1>0, <1>2, <2>1, ConfigLoaded
<1>3. CASE LoadProfile
  <2>1. CASE ProfileReadable(run.cmd)
    <3>1. /\ run.pc = "profile" /\ run'.pc = "source" /\ run'.cmd = run.cmd /\ run'.config = run.config
          /\ run'.profile = ProfileFor(run.cmd) /\ run'.touched = run.touched /\ files' = files
      BY <1>3, <2>1, ProfileLoaded DEF Fields, OnlyRun
    <3>2. ~run.cmd.resume => /\ ProfileFor(run.cmd) = ProfileIn(files, run.cmd.profile)
                             /\ run.cmd.profile # Absent => ProfileOk(files.profiles[run.cmd.profile])
      BY <2>1 DEF ProfileReadable, ProfileFor, ProfileIn
    <3>3. ConfigAccepted(run.cmd, run.config)' = ConfigAccepted(run.cmd, run.config)
      BY <3>1 DEF ConfigAccepted, IsOffline
    <3>4. ~HashStage' /\ ~ReadStage' /\ ~HasPass' BY <3>1 DEF HashStage, ReadStage, HasPass
    <3> QED BY <3>1, <3>2, <3>3, <3>4 DEF UntouchedInv
  <2> QED BY <1>0, <1>3, <2>1, ProfileLoaded
<1>4. CASE HashSource
  <2>1. CASE files.db # Absent
    <3>1. /\ run.pc = "source" /\ run'.pc = "export" /\ run'.cmd = run.cmd /\ run'.config = run.config
          /\ run'.profile = run.profile /\ run'.source = files.db
          /\ run'.touched = run.touched /\ files' = files
      BY <1>4, <2>1, SourceHashed DEF Fields, OnlyRun
    <3>2. ConfigAccepted(run.cmd, run.config)' = ConfigAccepted(run.cmd, run.config)
      BY <3>1 DEF ConfigAccepted, IsOffline
    <3>3. ProfileStage /\ ~ReadStage' /\ ~HasPass' BY <3>1 DEF ProfileStage, ReadStage, HasPass
    <3> QED BY <2>1, <3>1, <3>2, <3>3 DEF UntouchedInv
  <2> QED BY <1>0, <1>4, <2>1, SourceHashed
<1>5. CASE ExportSource
  <2>1. CASE ExportReadable
    <3>1. /\ run.pc = "export" /\ run'.pc = "context" /\ run'.cmd = run.cmd /\ run'.config = run.config
          /\ run'.profile = run.profile /\ run'.source = run.source
          /\ run'.dataset = ReadDataset(files.db, run.config)
          /\ run'.touched = run.touched /\ files' = files
      BY <1>5, <2>1, SourceExported DEF Fields, OnlyRun
    <3>2. ConfigAccepted(run.cmd, run.config)' = ConfigAccepted(run.cmd, run.config)
      BY <3>1 DEF ConfigAccepted, IsOffline
    <3>3. ProfileStage /\ HashStage /\ ~HasPass' BY <3>1 DEF ProfileStage, HashStage, HasPass
    <3>4. ReadsDataset(files.db) BY <2>1 DEF ExportReadable
    <3> QED BY <3>1, <3>2, <3>3, <3>4 DEF UntouchedInv, DatasetIn
  <2> QED BY <1>0, <1>5, <2>1, SourceExported
<1>6. CASE BuildContext
  <2>1. CASE ContextBuilds(run.dataset, run.profile)
    <3>1. /\ run.pc = "context" /\ run'.pc = run.cmd.kind /\ run'.cmd = run.cmd
          /\ run'.config = run.config /\ run'.profile = run.profile /\ run'.source = run.source
          /\ run'.context = Context(run.dataset, run.profile)
          /\ run'.touched = run.touched /\ files' = files
      BY <1>6, <2>1, ContextBuilt DEF Fields, OnlyRun
    <3>2. ConfigAccepted(run.cmd, run.config)' = ConfigAccepted(run.cmd, run.config)
      BY <3>1 DEF ConfigAccepted, IsOffline
    <3>3. ProfileStage /\ HashStage /\ ReadStage BY <3>1 DEF ProfileStage, HashStage, ReadStage
    <3>4. run.cmd.kind \notin {"context", "authenticate"} BY <3>1, AtWork DEF KindAt
    <3> QED BY <2>1, <3>1, <3>2, <3>3, <3>4 DEF UntouchedInv
  <2> QED BY <1>0, <1>6, <2>1, ContextBuilt
<1>7. CASE Analyze \/ Sanitize \/ Finish \/ AuthenticationFails \/ Dies
  BY <1>7, IdleUntouched DEF Analyze, Sanitize, Finish, AuthenticationFails, End, EndContacted, Dies
<1>8. CASE Verify \/ TestConnection \/ LoadSecret
  <2>1. Refused \/ (/\ run.pc \in {"verify", "connection", "secret"} /\ run'.pc = "authenticate"
                    /\ run.config.secret /\ files' = files
                    /\ run'.cmd = run.cmd /\ run'.config = run.config /\ run'.profile = run.profile
                    /\ run'.source = run.source /\ run'.context = run.context
                    /\ run'.touched = run.touched)
    BY <1>8, Verified, ConnectionTested, SecretLoaded DEF Fields, OnlyRun
  <2>2. run.pc = "connection" => run.cmd.kind = "test-connection" BY AtWork DEF KindAt
  <2>3. Refused \/ (HasPass' => HasPass) BY <2>1, <2>2 DEF HasPass
  <2> QED BY <1>0, <2>1, <2>3, SameFiles, KeepsUntouched
<1>9. CASE CreateManifest
  <2>1. Refused \/ (/\ run.pc = "import" /\ run'.pc = "compatibility"
                    /\ files' = IF run.profile = Absent THEN files
                                ELSE [files EXCEPT !.snapshot = run.profile]
                    /\ run'.cmd = run.cmd /\ run'.config = run.config /\ run'.profile = run.profile
                    /\ run'.source = run.source /\ run'.context = run.context
                    /\ run'.touched = run.touched)
    BY <1>9, ManifestCreated DEF Fields
  <2>2. Refused \/ SameInput(files, files') BY <2>1 DEF FilesInv, SameInput
  <2>3. Refused \/ (HasPass' => HasPass) BY <2>1 DEF HasPass
  <2> QED BY <1>0, <2>1, <2>2, <2>3, KeepsUntouched
<1>10. CASE LoadManifest \/ CheckCompatibility
  <2>1. Refused \/ (/\ run.pc \in {"import", "compatibility"} /\ run'.pc \in {"compatibility", "secret"}
                    /\ files' = files
                    /\ run'.cmd = run.cmd /\ run'.config = run.config /\ run'.profile = run.profile
                    /\ run'.source = run.source /\ run'.context = run.context
                    /\ run'.touched = run.touched)
    BY <1>10, ManifestLoaded, CompatibilityChecked DEF Fields, OnlyRun
  <2>2. Refused \/ (HasPass' => HasPass) BY <2>1 DEF HasPass
  <2> QED BY <1>0, <2>1, <2>2, SameFiles, KeepsUntouched
<1>11. CASE Authenticate
  <2>1. run' = Idle \/ (/\ run.pc = "authenticate" /\ run.cmd.kind = "import" /\ run'.pc = "send"
                        /\ files' = files
                        /\ run'.cmd = run.cmd /\ run'.config = run.config /\ run'.profile = run.profile
                        /\ run'.source = run.source /\ run'.context = run.context
                        /\ run'.touched = run.touched)
    BY <1>11, Authenticated DEF Fields, EndContacted
  <2>2. run' = Idle \/ (HasPass' => HasPass) BY <2>1 DEF HasPass
  <2> QED BY <2>1, <2>2, SameFiles, IdleUntouched, KeepsUntouched
<1>12. CASE BeginAttempt \/ Post
  <2>1. /\ run.pc \in {"send", "post"} /\ run'.pc \in {"send", "post"} /\ files' = files
        /\ run'.cmd = run.cmd /\ run'.config = run.config /\ run'.profile = run.profile
        /\ run'.source = run.source /\ run'.context = run.context /\ run'.touched = run.touched
    BY <1>12, AttemptBegun, Posted DEF Fields
  <2>2. HasPass' => HasPass BY <2>1 DEF HasPass
  <2> QED BY <2>1, <2>2, SameFiles, KeepsUntouched
<1>13. ASSUME NEW f, Edited(f) PROVE UntouchedInv'
  <2>1. run' = Idle \/ run'.touched = TRUE BY <1>13, RunTouched DEF Fields
  <2> QED BY <2>1, IdleUntouched DEF UntouchedInv
<1>14. CASE UNCHANGED vars
  <2>1. run' = run /\ files' = files BY <1>14 DEF vars
  <2> QED BY <2>1 DEF UntouchedInv, ProfileStage, HashStage, ReadStage, HasPass, ConfigAccepted, IsOffline
<1> QED
  BY <1>1, <1>2, <1>3, <1>4, <1>5, <1>6, <1>7, <1>8, <1>9, <1>10, <1>11, <1>12, <1>13, <1>14
  DEF Next, ReplaceDatabase, ReplaceConfig, ReplaceProfile, ReplaceSnapshot

\* A resume goes on with the profile of the manifest that it read.
LEMMA StepResume == ASSUME ReadInv, SendInv, ResumeInv, [Next]_vars PROVE ResumeInv'
<1> StageInv /\ PassInv BY DEF ReadInv
<1>0. ASSUME run' = Idle PROVE ResumeInv' BY <1>0 DEF ResumeInv, ProfileStage, HasPass, Idle
<1>1. ASSUME Refused PROVE ResumeInv' BY <1>0, <1>1 DEF Refused, Refuse, End
<1>2. ASSUME run'.profile = run.profile, run'.cmd = run.cmd, ProfileStage' => ProfileStage,
             run.cmd.resume /\ ProfileStage => manifest'.profile = manifest.profile
      PROVE  ResumeInv'
  BY <1>2 DEF ResumeInv
<1>3. ASSUME NEW cli \in CommandLines, StartCommand(cli) PROVE ResumeInv'
  <2>1. run'.pc = "config" BY <1>3 DEF StartCommand
  <2> QED BY <2>1 DEF ResumeInv, ProfileStage, HasPass
<1>4. CASE LoadConfig
  <2>1. Refused \/ run'.pc \in {"connection", "profile"} BY <1>4, ConfigLoaded DEF Fields
  <2> QED BY <1>1, <2>1 DEF ResumeInv, ProfileStage, HasPass
<1>5. CASE LoadProfile
  <2>1. Refused \/ (run'.profile = ProfileFor(run.cmd) /\ run'.cmd = run.cmd /\ manifest' = manifest)
    BY <1>5, ProfileLoaded DEF Fields, OnlyRun
  <2> QED BY <1>1, <2>1 DEF ResumeInv, ProfileFor
<1>6. CASE \/ HashSource \/ ExportSource \/ BuildContext \/ Verify \/ TestConnection \/ LoadManifest
           \/ LoadSecret
  <2>1. Refused \/ (/\ run'.profile = run.profile /\ run'.cmd = run.cmd /\ manifest' = manifest
                    /\ run.pc # "idle"
                    /\ \/ run.pc \in {"source", "export", "context", "verify", "import", "secret"}
                       \/ run.pc = "connection" /\ run'.pc = "authenticate")
    BY <1>6, SourceHashed, SourceExported, ContextBuilt, Verified, ConnectionTested, ManifestLoaded,
       SecretLoaded
    DEF Fields, OnlyRun
  <2>2. run.pc = "connection" => run.cmd.kind = "test-connection" BY AtWork DEF KindAt
  <2>3. Refused \/ (ProfileStage' => ProfileStage) BY <2>1, <2>2 DEF ProfileStage, HasPass
  <2> QED BY <1>1, <1>2, <2>1, <2>3
<1>7. CASE CreateManifest
  <2>1. Refused \/ (run'.cmd = run.cmd /\ ~run.cmd.resume) BY <1>7, ManifestCreated DEF Fields
  <2> QED BY <1>1, <2>1 DEF ResumeInv
<1>8. CASE CheckCompatibility \/ BeginAttempt \/ Post
  <2>1. Refused \/ (/\ run.pc \in {"compatibility", "send", "post"} /\ ~CreateManifest
                    /\ run'.profile = run.profile /\ run'.cmd = run.cmd)
    BY <1>8, CompatibilityChecked, AttemptBegun, Posted DEF Fields, CreateManifest
  <2>2. Refused \/ ProfileStage BY <2>1 DEF ProfileStage, HasPass
  <2>3. run.pc \in {"compatibility", "send", "post"} => IsManifest(manifest) BY DEF SendInv, Compared
  <2>4. Refused \/ manifest'.profile = manifest.profile BY <2>1, <2>3, ManifestStays DEF SamePlus
  <2> QED BY <1>1, <1>2, <2>1, <2>2, <2>4
<1>9. CASE Authenticate
  <2>1. run' = Idle \/ (/\ run.pc = "authenticate" /\ run.cmd.kind = "import"
                        /\ run'.profile = run.profile /\ run'.cmd = run.cmd /\ manifest' = manifest)
    BY <1>9, Authenticated DEF Fields, EndContacted
  <2>2. run' = Idle \/ ProfileStage BY <2>1 DEF ProfileStage, HasPass
  <2> QED BY <1>0, <1>2, <2>1, <2>2
<1>10. CASE Analyze \/ Sanitize \/ Finish \/ AuthenticationFails \/ Dies
  BY <1>0, <1>10 DEF Analyze, Sanitize, Finish, AuthenticationFails, End, EndContacted, Dies
<1>11. ASSUME NEW f, Edited(f) PROVE ResumeInv'
  <2>1. run' = Idle \/ (/\ run'.profile = run.profile /\ run'.cmd = run.cmd /\ run'.pc = run.pc
                        /\ manifest' = manifest)
    BY <1>11, RunTouched DEF Fields, Edited
  <2>2. run' = Idle \/ (ProfileStage' => ProfileStage) BY <2>1 DEF ProfileStage, HasPass
  <2> QED BY <1>0, <1>2, <2>1, <2>2
<1>12. CASE UNCHANGED vars BY <1>12 DEF vars, ResumeInv, ProfileStage, HasPass
<1> QED
  BY <1>3, <1>4, <1>5, <1>6, <1>7, <1>8, <1>9, <1>10, <1>11, <1>12
  DEF Next, ReplaceDatabase, ReplaceConfig, ReplaceProfile, ReplaceSnapshot

\* A PLU that was selected is the one that its record finds again.
LEMMA SelectedMatches ==
  ASSUME PassInv, HasPass, ValidPlus # <<>>,
         NEW i \in DOMAIN SelectRecordsToSend(ValidPlus),
         NEW record, record.plu_number = BuildPayloads(SelectRecordsToSend(ValidPlus))[i].pluno,
         record.payload_sha256 = BuildPayloads(SelectRecordsToSend(ValidPlus))[i]
  PROVE  Matches(ValidPlus, run.config, record)
<1> DEFINE plu == SelectRecordsToSend(ValidPlus)[i]
<1>1. i \in DOMAIN ValidPlus /\ plu = ValidPlus[i] BY SelectedAmongValid
<1>2. BuildPayloads(SelectRecordsToSend(ValidPlus))[i] = FromPlu(plu, run.config) BY DEF BuildPayloads
<1>3. record.plu_number = ValidPlus[i].plu_number BY <1>1, <1>2 DEF FromPlu
<1>4. /\ \A j \in DOMAIN ValidPlus : ValidPlus[j].plu_number = ValidPlus[i].plu_number => i = j
      /\ PayloadBuilds(ValidPlus[i])
  BY <1>1, PassUnambiguous DEF UnambiguousIn
<1> HIDE DEF plu
<1>5. (CHOOSE j \in DOMAIN ValidPlus : ValidPlus[j].plu_number = record.plu_number) = i
  BY <1>1, <1>3, <1>4
<1>6. PluOf(ValidPlus, record) = ValidPlus[i] BY <1>5 DEF PluOf
<1>7. record.plu_number \in Numbers(ValidPlus) BY <1>1, <1>3 DEF Numbers
<1> QED BY <1>1, <1>2, <1>4, <1>6, <1>7 DEF Matches

\* The manifest that an import makes records what this import read.
LEMMA FreshlyRecorded ==
  ASSUME ReadInv, CreateManifest, ImportReady, AllBuild(SelectRecordsToSend(ValidPlus))
  PROVE  RecordedIn(run.source, TargetIdentity(run.config), ValidPlus, run.config, manifest')
<1> StageInv /\ PassInv BY DEF ReadInv
<1> DEFINE payloads == BuildPayloads(SelectRecordsToSend(ValidPlus))
<1>1. run.pc = "import" /\ manifest' = ManifestFor(payloads) BY ManifestCreated
<1>2. HasPass /\ ValidPlus # <<>> BY <1>1 DEF HasPass, ImportReady
<1>3. DOMAIN payloads = DOMAIN SelectRecordsToSend(ValidPlus) BY DEF BuildPayloads
<1>4. Ordered(payloads) BY <1>2, <1>3, SelectedAmongValid DEF Ordered
<1>5. /\ manifest'.source = run.source /\ manifest'.target = TargetIdentity(run.config)
      /\ DOMAIN manifest'.records = DOMAIN payloads
      /\ \A i \in DOMAIN payloads : /\ manifest'.records[i].plu_number = payloads[i].pluno
                                   /\ manifest'.records[i].payload_sha256 = payloads[i]
  BY <1>1, <1>4, NewManifest
<1>6. ASSUME NEW i \in DOMAIN payloads PROVE Matches(ValidPlus, run.config, manifest'.records[i])
  BY <1>2, <1>3, <1>5, SelectedMatches
<1> QED BY <1>5, <1>6 DEF RecordedIn

LEMMA StepFresh == ASSUME ReadInv, FreshInv, [Next]_vars PROVE FreshInv'
<1> StageInv /\ PassInv BY DEF ReadInv
<1>1. CASE CreateManifest
  <2>1. CASE ImportReady /\ AllBuild(SelectRecordsToSend(ValidPlus))
    <3>1. run'.source = run.source /\ run'.config = run.config /\ run'.context = run.context
      BY <1>1, <2>1, ManifestCreated DEF Fields
    <3>2. ValidPlus' = ValidPlus BY <3>1 DEF ValidPlus
    <3>3. RecordedIn(run.source, TargetIdentity(run.config), ValidPlus, run.config, manifest')
      BY <1>1, <2>1, FreshlyRecorded
    <3>4. RecordedIn(run'.source, TargetIdentity(run'.config), ValidPlus', run'.config, manifest')
      BY <3>1, <3>2, <3>3
    <3> QED BY <3>4, CompatibleIs DEF FreshInv, Compatible, RecordedIn, PayloadMatches, Matches, PluFor, PluOf
  <2>2. CASE run' = Idle BY <2>2 DEF FreshInv, Idle
  <2> QED BY <1>1, <2>1, <2>2, ManifestCreated DEF Refused, Refuse, End
<1>2. CASE LoadManifest
  <2>1. run' = Idle \/ (run'.cmd = run.cmd /\ run.cmd.resume)
    BY <1>2, ManifestLoaded DEF Fields, Refused, Refuse, End, LoadManifest
  <2> QED BY <2>1 DEF FreshInv, Idle
<1>3. ASSUME NEW f, Edited(f) PROVE FreshInv'
  <2>1. run' = Idle \/ (/\ run'.pc = run.pc /\ run'.cmd = run.cmd /\ run'.source = run.source
                        /\ run'.config = run.config /\ run'.context = run.context
                        /\ manifest' = manifest)
    BY <1>3, RunTouched DEF Fields, Edited
  <2>2. CASE run' = Idle BY <2>2 DEF FreshInv, Idle
  <2> QED BY <2>1, <2>2, StaysCompatible DEF FreshInv, SamePlus
<1>4. CASE UNCHANGED vars
  <2>1. run' = run /\ manifest' = manifest BY <1>4 DEF vars
  <2> QED BY <2>1, StaysCompatible DEF FreshInv, SamePlus
<1>5. CASE \/ \E cli \in CommandLines : StartCommand(cli)
           \/ LoadConfig \/ LoadProfile \/ HashSource \/ ExportSource \/ BuildContext
           \/ Verify \/ TestConnection \/ LoadSecret \/ CheckCompatibility \/ BeginAttempt \/ Post
  <2>1. Refused \/ run'.pc \in {"config", "connection", "profile", "source", "export", "context",
                                "authenticate", "secret", "send", "post"}
                \/ (run.pc = "context" /\ run'.pc = run.cmd.kind)
    BY <1>5, ConfigLoaded, ProfileLoaded, SourceHashed, SourceExported, ContextBuilt, Verified,
       ConnectionTested, SecretLoaded, CompatibilityChecked, AttemptBegun, Posted
    DEF Fields, StartCommand
  <2>2. run.pc = "context" => run.cmd.kind # "compatibility" BY AtWork DEF KindAt
  <2>3. Refused => run' = Idle BY DEF Refused, Refuse, End
  <2> QED BY <2>1, <2>2, <2>3 DEF FreshInv, Idle
<1>6. CASE Analyze \/ Sanitize \/ Finish \/ AuthenticationFails \/ Dies \/ Authenticate
  <2>1. run' = Idle \/ run'.pc = "send"
    BY <1>6, Authenticated
    DEF Analyze, Sanitize, Finish, AuthenticationFails, End, EndContacted, Dies, Fields
  <2> QED BY <2>1 DEF FreshInv, Idle
<1> QED
  BY <1>1, <1>2, <1>3, <1>4, <1>5, <1>6
  DEF Next, ReplaceDatabase, ReplaceConfig, ReplaceProfile, ReplaceSnapshot

\* A step that is no edit leaves what a command reads, and whether it was touched.
Unedited ==
  /\ SameInput(files, files')
  /\ \/ run' = Idle
     \/ run'.touched = FALSE
     \/ run.pc # "idle" /\ run'.touched = run.touched

LEMMA StepUnedited ==
  ASSUME StageInv, FilesInv, [Next]_vars
  PROVE  Unedited \/ (accepted' = Absent /\ pristine' = FALSE)
<1>0. ASSUME files' = files, run' = Idle \/ (run.pc # "idle" /\ run'.touched = run.touched) PROVE Unedited
  BY <1>0, SameFiles DEF Unedited
<1>1. CASE \E cli \in CommandLines : StartCommand(cli)
  BY <1>1, SameFiles DEF StartCommand, Unedited
<1>2. CASE Refused BY <1>0, <1>2 DEF Refused, Refuse, End
<1>3. CASE Sanitize
  <2>1. run' = Idle /\ files' = [files EXCEPT !.snapshot = run.profile] BY <1>3 DEF Sanitize, End
  <2>2. SameInput(files, files') BY <2>1 DEF FilesInv, SameInput
  <2> QED BY <2>1, <2>2 DEF Unedited
<1>4. CASE CreateManifest
  <2>1. Refused \/ (/\ run.pc = "import" /\ run'.touched = run.touched
                    /\ files' = IF run.profile = Absent THEN files
                                ELSE [files EXCEPT !.snapshot = run.profile])
    BY <1>4, ManifestCreated DEF Fields
  <2>2. Refused \/ SameInput(files, files') BY <2>1 DEF FilesInv, SameInput
  <2> QED BY <1>2, <2>1, <2>2 DEF Unedited
<1>5. CASE \/ LoadConfig \/ LoadProfile \/ HashSource \/ ExportSource \/ BuildContext
           \/ Verify \/ TestConnection \/ LoadManifest \/ CheckCompatibility \/ LoadSecret
  <2>1. Refused \/ (files' = files /\ run.pc # "idle" /\ run'.touched = run.touched)
    BY <1>5, ConfigLoaded, ProfileLoaded, SourceHashed, SourceExported, ContextBuilt, Verified,
       ConnectionTested, ManifestLoaded, CompatibilityChecked, SecretLoaded
    DEF Fields, OnlyRun
  <2> QED BY <1>0, <1>2, <2>1
<1>6. CASE Authenticate \/ BeginAttempt \/ Post
  <2>1. files' = files /\ (run' = Idle \/ (run.pc # "idle" /\ run'.touched = run.touched))
    BY <1>6, Authenticated, AttemptBegun, Posted DEF Fields, EndContacted
  <2> QED BY <1>0, <2>1
<1>7. CASE Analyze \/ Finish \/ AuthenticationFails \/ Dies
  BY <1>0, <1>7 DEF Analyze, Finish, AuthenticationFails, End, EndContacted, Dies
<1>8. CASE UNCHANGED vars BY <1>0, <1>8 DEF vars, StageInv
<1> QED
  BY <1>1, <1>3, <1>4, <1>5, <1>6, <1>7, <1>8
  DEF Next, ReplaceDatabase, ReplaceConfig, ReplaceProfile, ReplaceSnapshot, Edited

\* What an online command without resume has found when nothing was edited under it.
LEMMA FoundReady ==
  ASSUME StageInv, UntouchedInv, HasPass, ~run.touched, run.cmd.kind \in {"verify", "import"},
         ValidPlus # <<>>
  PROVE  /\ ReadyIn(files, run.profile) /\ run.config = ConfigIn(files)
         /\ ValidPlus = PlusIn(files, run.profile) /\ run.source = files.db
<1>1. run.pc \notin {"idle", "config"} BY DEF HasPass
<1>2. run.config = ConfigIn(files) /\ ConfigAccepted(run.cmd, run.config) BY <1>1 DEF UntouchedInv
<1>3. /\ files.db # Absent /\ run.source = files.db /\ ReadsDataset(files.db)
      /\ ContextBuilds(DatasetIn(files), run.profile)
      /\ run.context = Context(DatasetIn(files), run.profile)
  BY <1>1 DEF UntouchedInv, HashStage, ReadStage
<1>4. ValidPlus = PlusIn(files, run.profile) BY <1>3 DEF ValidPlus, PlusIn
<1>5. ConfigIn(files).parses /\ files.config # Absent /\ ConfigIn(files).startup_ok
  BY <1>2 DEF ConfigAccepted, IsOffline
<1> QED BY <1>2, <1>3, <1>4, <1>5 DEF ReadyIn

LEMMA StepAccepted ==
  ASSUME ReadInv, UntouchedInv, AcceptedInv, [Next]_vars
  PROVE  AcceptedInv'
<1> StageInv /\ FilesInv /\ PassInv BY DEF ReadInv
<1>1. ASSUME accepted' = accepted, Unedited PROVE AcceptedInv'
  BY <1>1, SameFound DEF AcceptedInv, Unedited, Idle
<1>2. CASE accepted' = Absent BY <1>2 DEF AcceptedInv
<1>3. CASE Authenticate
  <2>1. files' = files /\ run.pc = "authenticate" /\ UrlsParse(run.config) BY <1>3, Authenticated
  <2>2. CASE /\ run.cmd.kind = "verify" /\ ImportIsReady /\ ~run.touched /\ run' = Idle
             /\ accepted' = [profile |-> run.cmd.profile]
    <3>1. HasPass /\ ProfileStage BY <2>1, <2>2 DEF HasPass, ProfileStage
    <3>2. ~run.cmd.resume BY <2>1, <2>2, AtWork
    <3>3. /\ ReadyIn(files, run.profile) /\ run.config = ConfigIn(files)
      BY <2>2, <3>1, FoundReady DEF ImportIsReady
    <3>4. /\ run.profile = ProfileIn(files, run.cmd.profile)
          /\ run.cmd.profile # Absent => ProfileOk(files.profiles[run.cmd.profile])
          /\ run.config.secret
      BY <2>1, <2>2, <3>1, <3>2 DEF UntouchedInv
    <3>5. VerifiedIn(files, run.cmd.profile) BY <2>1, <3>3, <3>4 DEF VerifiedIn, UrlsParse
    <3>6. accepted'.profile = run.cmd.profile BY <2>2
    <3> QED BY <2>1, <2>2, <3>5, <3>6 DEF AcceptedInv, Idle
  <2> QED BY <1>1, <1>2, <1>3, <2>2, Authenticated, StepUnedited DEF EndContacted
<1>4. CASE Local \/ Analyze \/ Sanitize \/ Finish \/ AuthenticationFails \/ BeginAttempt \/ Post \/ Dies
           \/ (\E cli \in CommandLines : StartCommand(cli)) \/ UNCHANGED vars
  <2>1. accepted' = accepted
    BY <1>4, LocalSteps
    DEF Refused, Refuse, Analyze, Sanitize, Finish, AuthenticationFails, BeginAttempt, Post, Dies,
        StartCommand, vars
  <2> QED BY <1>1, <1>2, <2>1, StepUnedited
<1>5. CASE ReplaceDatabase \/ ReplaceConfig \/ ReplaceProfile \/ ReplaceSnapshot
  BY <1>2, <1>5 DEF ReplaceDatabase, ReplaceConfig, ReplaceProfile, ReplaceSnapshot, Edited
<1> QED BY <1>3, <1>4, <1>5 DEF Next, Local

\* A manifest that stays pristine has its profile in the snapshot.
LEMMA StepSnapshot ==
  ASSUME StageInv, FilesInv, [Next]_vars, pristine', CreateManifest => Refused
  PROVE  files'.snapshot = files.snapshot \/ files'.snapshot = manifest.profile
<1>1. CASE Sanitize
  <2>1. files' = [files EXCEPT !.snapshot = run.profile] /\ run.profile = manifest.profile
    BY <1>1 DEF Sanitize
  <2> QED BY <2>1 DEF FilesInv
<1>2. CASE ~Sanitize
  BY <1>2
  DEF Next, StartCommand, LoadConfig, LoadProfile, HashSource, ExportSource, BuildContext, Analyze,
      Verify, TestConnection, LoadManifest, CheckCompatibility, LoadSecret, Authenticate,
      AuthenticationFails, BeginAttempt, Post, Finish, Dies, ReplaceDatabase, ReplaceConfig,
      ReplaceProfile, ReplaceSnapshot, Edited, vars, Refused, Refuse
<1> QED BY <1>1, <1>2

LEMMA StepPristine ==
  ASSUME ReadInv, SendInv, UntouchedInv, PristineInv, [Next]_vars
  PROVE  PristineInv'
<1> StageInv /\ FilesInv /\ PassInv BY DEF ReadInv
<1> SUFFICES ASSUME pristine' PROVE PristineInv' BY DEF PristineInv
<1>1. Unedited BY StepUnedited
<1>2. CASE /\ CreateManifest /\ run'.pc = "compatibility" /\ ~run.touched
           /\ ImportReady /\ AllBuild(SelectRecordsToSend(ValidPlus))
  <2>1. /\ run.pc = "import" /\ ~run.cmd.resume /\ run'.touched = run.touched
        /\ manifest' = ManifestFor(BuildPayloads(SelectRecordsToSend(ValidPlus)))
        /\ files' = IF run.profile = Absent THEN files ELSE [files EXCEPT !.snapshot = run.profile]
    BY <1>2, ManifestCreated DEF Fields
  <2>2. run.cmd.kind = "import" BY <2>1, AtWork DEF KindAt
  <2>3. HasPass /\ ValidPlus # <<>> BY <1>2, <2>1 DEF HasPass, ImportReady
  <2>4. /\ ReadyIn(files, run.profile) /\ run.config = ConfigIn(files)
        /\ ValidPlus = PlusIn(files, run.profile) /\ run.source = files.db
    BY <1>2, <2>2, <2>3, FoundReady
  <2>5. RecordedIn(run.source, TargetIdentity(run.config), ValidPlus, run.config, manifest')
    BY <1>2, FreshlyRecorded
  <2>6. IsManifest(manifest') BY <1>2, StepSent DEF SendInv
  <2>7. manifest'.profile = run.profile BY <2>1 DEF ManifestFor
  <2>8. MadeIn([files EXCEPT !.snapshot = run.profile], manifest')
    <3>1. /\ SameInput(files, [files EXCEPT !.snapshot = run.profile])
          /\ [files EXCEPT !.snapshot = run.profile].snapshot = run.profile
          /\ [files EXCEPT !.snapshot = run.profile].db = files.db
      BY DEF FilesInv, SameInput
    <3> QED BY <1>2, <2>4, <2>5, <2>6, <2>7, <3>1, SameFound DEF MadeIn, ImportReady
  <2>9. run.profile = Absent => MadeIn(files, manifest')
    BY <1>2, <2>4, <2>5, <2>6, <2>7 DEF MadeIn, ImportReady
  <2>10. MadeIn(files', manifest') BY <2>1, <2>8, <2>9
  <2> QED BY <1>2, <2>1, <2>10 DEF PristineInv
<1>3. CASE pristine /\ (CreateManifest => Refused)
  <2>1. MadeIn(files, manifest) /\ (run.pc # "idle" => ~run.touched) BY <1>3 DEF PristineInv
  <2>2. IsManifest(manifest') /\ SamePlus(manifest, manifest')
    BY <1>3, <2>1, ManifestStays DEF MadeIn, Refused, Refuse, SamePlus
  <2>3. MadeIn(files, manifest') BY <2>1, <2>2, StillMade
  <2>4. manifest'.profile # Absent => files'.snapshot = manifest'.profile
    BY <1>3, <2>1, <2>2, StepSnapshot DEF MadeIn, SamePlus
  <2>5. MadeIn(files', manifest') BY <1>1, <2>3, <2>4, SameFound DEF Unedited
  <2> QED BY <1>1, <2>1, <2>5 DEF PristineInv, Unedited, Idle
<1>4. CASE CreateManifest /\ ~Refused
  <2>1. /\ ImportReady /\ AllBuild(SelectRecordsToSend(ValidPlus))
        /\ run'.pc = "compatibility" /\ ~run.touched
    BY <1>4, ManifestCreated DEF Fields
  <2> QED BY <1>2, <1>4, <2>1
<1> QED BY <1>2, <1>3, <1>4, PristineBefore

\* What each stage of an import is refused for.
LEMMA WhyRefused ==
  ASSUME StageInv, Local, Refused, run.cmd.kind = "import"
  PROVE  \/ run.pc = "config" /\ ~ConfigAccepted(run.cmd, LoadedConfig)
         \/ run.pc = "profile" /\ ~ProfileReadable(run.cmd)
         \/ run.pc = "source" /\ files.db = Absent
         \/ run.pc = "export" /\ ~ExportReadable
         \/ run.pc = "context" /\ ~ContextBuilds(run.dataset, run.profile)
         \/ /\ run.pc = "import" /\ ~run.cmd.resume
            /\ ~(ImportReady /\ AllBuild(SelectRecordsToSend(ValidPlus)))
         \/ run.pc = "import" /\ run.cmd.resume /\ ~ImportReady
         \/ run.pc = "compatibility" /\ ~Compatible
         \/ run.pc = "secret" /\ ~run.config.secret
<1>1. run'.pc = "idle" BY DEF Refused, Refuse, End, Idle
<1>2. CASE LoadConfig
  <2>1. EffectiveCommand(run.cmd, LoadedConfig) = run.cmd BY DEF EffectiveCommand
  <2>2. run.cmd.kind # "test-connection" OBVIOUS
  <2> QED BY <1>1, <1>2, <2>1, <2>2, ConfigLoaded DEF Fields
<1>3. CASE LoadProfile BY <1>1, <1>3, ProfileLoaded DEF Fields
<1>4. CASE HashSource BY <1>1, <1>4, SourceHashed DEF Fields
<1>5. CASE ExportSource BY <1>1, <1>5, SourceExported DEF Fields
<1>6. CASE BuildContext BY <1>1, <1>6, ContextBuilt DEF Fields
<1>7. CASE Verify BY <1>7, Verified, AtWork DEF KindAt
<1>8. CASE TestConnection BY <1>8, ConnectionTested, AtWork DEF KindAt
<1>9. CASE CreateManifest BY <1>1, <1>9, ManifestCreated DEF Fields
<1>10. CASE LoadManifest
  <2>1. run.cmd.resume BY <1>10 DEF LoadManifest
  <2> QED BY <1>1, <1>10, <2>1, ManifestLoaded DEF Fields
<1>11. CASE CheckCompatibility BY <1>1, <1>11, CompatibilityChecked DEF Fields
<1>12. CASE LoadSecret BY <1>1, <1>12, SecretLoaded DEF Fields
<1> QED
  BY <1>2, <1>3, <1>4, <1>5, <1>6, <1>7, <1>8, <1>9, <1>10, <1>11, <1>12 DEF Local

\* An import that no edit touched stands on the files as they are.
LEMMA StandsOnFiles ==
  ASSUME StageInv, UntouchedInv, run.pc # "idle", ~run.touched
  PROVE  /\ run.pc # "config" => run.config = ConfigIn(files)
         /\ run.pc = "context" => run.dataset = DatasetIn(files)
         /\ HasPass => run.source = files.db /\ ValidPlus = PlusIn(files, run.profile)
         /\ ProfileStage /\ ~run.cmd.resume => run.profile = ProfileIn(files, run.cmd.profile)
BY DEF UntouchedInv, HashStage, ValidPlus, PlusIn

\* A new import that a verify found ready is refused for the path only.
LEMMA RefusedNew ==
  ASSUME ReadInv, UntouchedInv, FreshInv, AcceptedInv, Local, Refused, run.cmd.kind = "import",
         ~run.cmd.resume, accepted # Absent, accepted.profile = run.cmd.profile
  PROVE  ~ConfigIn(files).upsert_path
<1> DEFINE profile == ProfileIn(files, run.cmd.profile)
<1> StageInv /\ FilesInv /\ PassInv BY DEF ReadInv
<1>1. run.pc # "idle" /\ ~run.touched BY LocalSteps DEF AcceptedInv
<1>2. VerifiedIn(files, run.cmd.profile) BY DEF AcceptedInv
<1>3. /\ ConfigIn(files).parses /\ files.config # Absent /\ ConfigIn(files).startup_ok
      /\ files.db # Absent /\ ReadsDataset(files.db)
      /\ ContextBuilds(DatasetIn(files), profile) /\ PlusIn(files, profile) # <<>>
      /\ ConfigIn(files).token_url = "set" /\ ConfigIn(files).secret
      /\ run.cmd.profile # Absent => ProfileOk(files.profiles[run.cmd.profile])
  BY <1>2 DEF VerifiedIn, ReadyIn
<1> HIDE DEF profile
<1>4. run.pc # "config" => run.config = ConfigIn(files) BY <1>1, StandsOnFiles
<1>5. ProfileStage => run.profile = profile BY <1>1, StandsOnFiles DEF profile
<1>6. CASE run.pc = "config" /\ ~ConfigAccepted(run.cmd, LoadedConfig)
  BY <1>3, <1>6 DEF ConfigAccepted, LoadedConfig, ConfigIn
<1>7. CASE run.pc = "profile" /\ ~ProfileReadable(run.cmd) BY <1>3, <1>7 DEF ProfileReadable
<1>8. CASE run.pc = "export" /\ ~ExportReadable BY <1>3, <1>8 DEF ExportReadable
<1>9. CASE run.pc = "context" /\ ~ContextBuilds(run.dataset, run.profile)
  <2>1. run.dataset = DatasetIn(files) BY <1>1, <1>9, StandsOnFiles
  <2> QED BY <1>3, <1>5, <1>9, <2>1 DEF ProfileStage
<1>10. CASE run.pc = "import" /\ ~(ImportReady /\ AllBuild(SelectRecordsToSend(ValidPlus)))
  <2>1. HasPass /\ ProfileStage BY <1>10 DEF HasPass, ProfileStage
  <2>2. ValidPlus = PlusIn(files, run.profile) BY <1>1, <2>1, StandsOnFiles
  <2>3. ValidPlus # <<>> BY <1>3, <1>5, <2>1, <2>2
  <2>4. AllBuild(SelectRecordsToSend(ValidPlus))
    BY <2>1, <2>3, SelectedAmongValid, PassUnambiguous DEF AllBuild, UnambiguousIn
  <2>5. ~run.config.upsert_path BY <1>3, <1>4, <1>10, <2>3, <2>4 DEF ImportReady
  <2> QED BY <1>4, <1>10, <2>5
<1>11. CASE run.pc = "compatibility" /\ ~Compatible BY <1>11 DEF FreshInv
<1>12. CASE run.pc = "secret" /\ ~run.config.secret BY <1>3, <1>4, <1>12
<1> QED BY <1>3, <1>6, <1>7, <1>8, <1>9, <1>10, <1>11, <1>12, WhyRefused

\* A resume of a manifest that nothing has changed since is refused for the secret only.
LEMMA RefusedResume ==
  ASSUME AbsentIsNoRecord, ReadInv, UntouchedInv, ResumeInv, PristineInv, Local, Refused,
         run.cmd.kind = "import", run.cmd.resume, pristine
  PROVE  ~ConfigIn(files).secret
<1> StageInv /\ FilesInv /\ PassInv BY DEF ReadInv
<1>1. run.pc # "idle" /\ ~run.touched /\ MadeIn(files, manifest) BY LocalSteps DEF PristineInv
<1>2. /\ ReadyIn(files, manifest.profile) /\ IsManifest(manifest)
      /\ ConfigIn(files).token_url # "unset" /\ ConfigIn(files).upsert_path
      /\ manifest.profile # Absent => files.snapshot = manifest.profile
      /\ RecordedIn(files.db, TargetIdentity(ConfigIn(files)), PlusIn(files, manifest.profile),
                    ConfigIn(files), manifest)
  BY <1>1 DEF MadeIn
<1>3. /\ ConfigIn(files).parses /\ files.config # Absent /\ ConfigIn(files).startup_ok
      /\ files.db # Absent /\ ReadsDataset(files.db)
      /\ ContextBuilds(DatasetIn(files), manifest.profile) /\ PlusIn(files, manifest.profile) # <<>>
  BY <1>2 DEF ReadyIn
<1>4. run.pc # "config" => run.config = ConfigIn(files) BY <1>1, StandsOnFiles
<1>5. ProfileStage => run.profile = manifest.profile BY DEF ResumeInv
<1>6. CASE run.pc = "config" /\ ~ConfigAccepted(run.cmd, LoadedConfig)
  BY <1>3, <1>6 DEF ConfigAccepted, LoadedConfig, ConfigIn
<1>7. CASE run.pc = "profile" /\ ~ProfileReadable(run.cmd)
  <2>1. manifest # Absent BY <1>2 DEF IsManifest, AbsentIsNoRecord
  <2> QED BY <1>2, <1>7, <2>1 DEF ProfileReadable
<1>8. CASE run.pc = "export" /\ ~ExportReadable BY <1>3, <1>8 DEF ExportReadable
<1>9. CASE run.pc = "context" /\ ~ContextBuilds(run.dataset, run.profile)
  <2>1. run.dataset = DatasetIn(files) BY <1>1, <1>9, StandsOnFiles
  <2> QED BY <1>3, <1>5, <1>9, <2>1 DEF ProfileStage
<1>10. HasPass => /\ run.source = files.db /\ ValidPlus = PlusIn(files, manifest.profile)
  BY <1>1, <1>5, StandsOnFiles DEF ProfileStage
<1>11. CASE run.pc = "import" /\ ~ImportReady
  <2>1. HasPass BY <1>11 DEF HasPass
  <2> QED BY <1>2, <1>3, <1>4, <1>10, <1>11, <2>1 DEF ImportReady
<1>12. CASE run.pc = "compatibility" /\ ~Compatible
  <2>1. HasPass BY <1>12 DEF HasPass
  <2> QED BY <1>2, <1>4, <1>10, <1>12, <2>1, CompatibleIs
<1>13. CASE run.pc = "secret" /\ ~run.config.secret BY <1>4, <1>13
<1> QED BY <1>3, <1>6, <1>7, <1>8, <1>9, <1>11, <1>12, <1>13, WhyRefused

\* The other steps end no import with a refusal: a command starts with a clean slate,
\* and an edit takes back what was accepted.
LEMMA StepStaysAccepted ==
  ASSUME AbsentIsNoRecord, ReadInv, UntouchedInv, ResumeInv, FreshInv, AcceptedInv, PristineInv,
         AcceptedStaysAccepted, [Next]_vars
  PROVE  AcceptedStaysAccepted'
<1> StageInv /\ FilesInv /\ PassInv BY DEF ReadInv
<1>1. CASE Local
  <2>1. CASE Refused
    <3>1. /\ last' = [kind |-> run.cmd.kind, resume |-> run.cmd.resume, profile |-> run.cmd.profile,
                       exit |-> 2, contacted |-> run.contacted, refused |-> TRUE]
          /\ files' = files /\ accepted' = accepted /\ pristine' = pristine
      BY <2>1 DEF Refused, Refuse, End
    <3>2. LoadedConfig' = ConfigIn(files) BY <3>1 DEF LoadedConfig, ConfigIn
    <3>3. last'.kind = run.cmd.kind /\ last'.resume = run.cmd.resume /\ last'.profile = run.cmd.profile
      BY <3>1
    <3> QED BY <1>1, <2>1, <3>1, <3>2, <3>3, RefusedNew, RefusedResume DEF AcceptedStaysAccepted
  <2>2. CASE last' = last
    <3>1. run.pc # "idle" BY <1>1, LocalSteps
    <3>2. last = Never BY <3>1, AtWork
    <3> QED BY <2>2, <3>2 DEF AcceptedStaysAccepted, Never
  <2> QED BY <1>1, <2>1, <2>2, LocalSteps
<1>2. CASE Analyze \/ Sanitize \/ Finish
  <2>1. ~last'.refused BY <1>2 DEF Analyze, Sanitize, Finish, End
  <2> QED BY <2>1 DEF AcceptedStaysAccepted
<1>3. CASE Authenticate \/ AuthenticationFails
  <2>1. run.pc # "idle" BY <1>3 DEF Authenticate, AuthenticationFails
  <2>2. last' = last \/ EndContacted(0) \/ EndContacted(2) \/ EndContacted(3)
    BY <1>3, Authenticated DEF AuthenticationFails
  <2>3. ~last'.refused BY <2>1, <2>2, AtWork DEF EndContacted, Never
  <2> QED BY <2>3 DEF AcceptedStaysAccepted
<1>4. CASE (\E cli \in CommandLines : StartCommand(cli)) \/ BeginAttempt \/ Post \/ Dies
  <2>1. last' = Never BY <1>4, AtWork DEF StartCommand, BeginAttempt, Post, Dies
  <2> QED BY <2>1 DEF AcceptedStaysAccepted, Never
<1>5. ASSUME NEW f, Edited(f) PROVE AcceptedStaysAccepted'
  BY <1>5 DEF Edited, AcceptedStaysAccepted
<1>6. CASE UNCHANGED vars
  BY <1>6 DEF vars, AcceptedStaysAccepted, LoadedConfig
<1> QED
  BY <1>1, <1>2, <1>3, <1>4, <1>5, <1>6
  DEF Next, Local, ReplaceDatabase, ReplaceConfig, ReplaceProfile, ReplaceSnapshot

AcceptInv == UntouchedInv /\ ResumeInv /\ FreshInv /\ AcceptedInv /\ PristineInv

LEMMA InitAccept == Init => AcceptInv /\ AcceptedStaysAccepted
BY DEF Init, AcceptInv, UntouchedInv, ResumeInv, FreshInv, AcceptedInv, PristineInv, Idle, Never,
       AcceptedStaysAccepted, ProfileStage, HasPass

LEMMA StepAccept ==
  (ReadInv /\ SendInv) /\ AcceptInv /\ [Next]_vars => AcceptInv'
BY StepUntouched, StepResume, StepFresh, StepAccepted, StepPristine DEF AcceptInv, ReadInv

(* An import that verify found ready starts, unless the path of the upsert *)
(* is missing, and a manifest that nothing has changed since is resumed,   *)
(* unless the secret is: no two commands disagree about the same files,    *)
(* whatever commands, deaths and edits came before.                        *)
THEOREM NothingAcceptedIsRefused ==
  ASSUME AbsentIsNoRecord PROVE Spec => []AcceptedStaysAccepted
<1>1. (ReadInv /\ SendInv) /\ AcceptInv /\ AcceptedStaysAccepted /\ [Next]_vars
        => AcceptedStaysAccepted'
  BY StepStaysAccepted DEF AcceptInv
<1> QED BY InitAccept, StepAccept, <1>1, AlwaysSent, PTL DEF Spec

(* What a profile changes *)

\* The fields that a profile fills are those of its rules, and the selling date.
LEMMA FieldsChanged ==
  ASSUME NEW row, NEW profile, NEW f \in ChangedFields(row, profile)
  PROVE  \/ f \in TargetFields /\ row[f] \in {Blank, Padding}
         \/ f = "bestBefore" /\ HasTermRule(profile)
BY DEF ChangedFields, FilledBy, IsEmpty

\* A selling date that the rule allows stays the same number.
LEMMA TermKept ==
  ASSUME NEW value, NEW rule
  PROVE  KeepsTerm(value, ApplyTerm(value, rule), rule)
<1> DEFINE cleaned == CleanMdbValue(value)
<1>1. CASE TermOutcome(cleaned, rule) = "preserved" BY <1>1 DEF ApplyTerm, KeepsTerm
<1>2. CASE TermOutcome(cleaned, rule) # "preserved"
  <2>1. ~(cleaned \in Int /\ TermAllowed(rule, cleaned))
    BY <1>2, TextsAssumption DEF TermOutcome
  <2>2. value \in Int => cleaned = value BY TextsAssumption, PaddedFiveAssumption DEF CleanMdbValue
  <2> QED BY <2>1, <2>2 DEF KeepsTerm
<1> QED BY <1>1, <1>2

\* No other cell of a row is changed.
LEMMA CellsKept ==
  ASSUME NEW row, IsRow(row), NEW profile, NEW f \in Cells, SanitizedRow(row, profile)[f] # row[f]
  PROVE  \/ f \in TargetFields /\ row[f] \in {Blank, Padding}
         \/ /\ f = "bestBefore" /\ HasTermRule(profile)
            /\ KeepsTerm(row[f], SanitizedRow(row, profile)[f], profile.term)
<1>1. DOMAIN row = Cells BY DEF IsRow
<1>2. IsCandidateProduct(row) BY DEF SanitizedRow
<1>3. SanitizedRow(row, profile)[f] =
        IF f = "bestBefore" /\ HasTermRule(profile) THEN ApplyTerm(row.bestBefore, profile.term)
        ELSE IF f \in ChangedFields(row, profile)
             THEN RuleValue(row, profile.rules[RuleFor(profile, f)])
             ELSE row[f]
  BY <1>1, <1>2 DEF SanitizedRow
<1>4. CASE f = "bestBefore" /\ HasTermRule(profile) BY <1>3, <1>4, TermKept
<1>5. CASE ~(f = "bestBefore" /\ HasTermRule(profile))
  <2>1. f \in ChangedFields(row, profile) BY <1>3, <1>5
  <2> QED BY <1>5, <2>1, FieldsChanged
<1> QED BY <1>4, <1>5

LEMMA NumberKept ==
  ASSUME NEW row, IsRow(row), NEW profile
  PROVE  SanitizedRow(row, profile).number = row.number
<1>1. "number" \in Cells /\ "number" \notin TargetFields BY DEF Cells, TargetFields
<1> QED BY <1>1, CellsKept

\* A row that is not listed as changed loses the padding of its selling date at most.
LEMMA UnlistedRow ==
  ASSUME NEW row, IsRow(row), NEW profile, ChangedFields(row, profile) = {}
  PROVE  SanitizedRow(row, profile) = row \/ row.bestBefore = PaddedFive
<1> SUFFICES ASSUME IsCandidateProduct(row), row.bestBefore # PaddedFive
             PROVE  SanitizedRow(row, profile) = row
  BY DEF SanitizedRow
<1>1. DOMAIN row = Cells BY DEF IsRow
<1>2. SanitizedRow(row, profile) =
        [f \in Cells |-> IF f = "bestBefore" /\ HasTermRule(profile)
                         THEN ApplyTerm(row.bestBefore, profile.term) ELSE row[f]]
  BY <1>1 DEF SanitizedRow
<1>3. HasTermRule(profile) => ApplyTerm(row.bestBefore, profile.term) = row.bestBefore
  <2> SUFFICES ASSUME HasTermRule(profile)
               PROVE  ApplyTerm(row.bestBefore, profile.term) = row.bestBefore
    OBVIOUS
  <2>1. TermOutcome(CleanMdbValue(row.bestBefore), profile.term) = "preserved"
    BY DEF ChangedFields, TermChanges
  <2>2. row.bestBefore # Padding BY <2>1 DEF TermOutcome, CleanMdbValue
  <2>3. CleanMdbValue(row.bestBefore) = row.bestBefore BY <2>2 DEF CleanMdbValue
  <2> QED BY <2>1, <2>3 DEF ApplyTerm
<1> QED BY <1>2, <1>3 DEF IsRow

(* What a PLU is reported for *)

Normalizing(dataset) == {i \in DOMAIN dataset.plu_rows : Normalizes(dataset.plu_rows[i])}

\* Every PLU is that of a row that normalizes, in the order of the rows.
LEMMA PlusInOrder ==
  ASSUME NEW n \in Nat, NEW dataset, DOMAIN dataset.plu_rows = 1 .. n,
         NEW S, S = Normalizing(dataset), NEW plus, plus = NormalizeDataset(dataset).plus
  PROVE  /\ S \subseteq 1 .. n /\ Cardinality(S) \in Nat /\ DOMAIN plus = 1 .. Cardinality(S)
         /\ \A k \in DOMAIN plus :
               /\ Place(S, k) \in S
               /\ plus[k] = NormalizedPlu(dataset.plu_rows[Place(S, k)], dataset)
         /\ \A i \in S : \E k \in DOMAIN plus : Place(S, k) = i
         /\ \A k, l \in DOMAIN plus : Place(S, k) < Place(S, l) <=> k < l
<1> DEFINE good == AtPositions(dataset.plu_rows, S)
<1>1. S \subseteq 1 .. n BY DEF Normalizing
<1>2. plus = [i \in DOMAIN good |-> NormalizedPlu(good[i], dataset)]
  BY DEF NormalizeDataset, Normalizing
<1> HIDE DEF good
<1>3. /\ Cardinality(S) \in Nat /\ DOMAIN good = 1 .. Cardinality(S)
      /\ \A k \in 1 .. Cardinality(S) : Place(S, k) \in S /\ good[k] = dataset.plu_rows[Place(S, k)]
  <2>1. Cardinality(S) \in Nat BY <1>1, Countable
  <2>2. good = [k \in 1 .. Cardinality(S) |-> dataset.plu_rows[Place(S, k)]]
    BY DEF good, AtPositions, Place, UpTo
  <2>3. \A k \in 1 .. Cardinality(S) : Place(S, k) \in S BY <1>1, PlaceExists
  <2> QED BY <2>1, <2>2, <2>3
<1>4. DOMAIN plus = 1 .. Cardinality(S) BY <1>2, <1>3
<1>5. ASSUME NEW k \in DOMAIN plus, NEW l \in DOMAIN plus PROVE Place(S, k) < Place(S, l) <=> k < l
  <2>1. k \in 1 .. Cardinality(S) /\ l \in 1 .. Cardinality(S) BY <1>4
  <2>2. /\ Place(S, k) \in S /\ Cardinality(UpTo(S, Place(S, k))) = k
        /\ Place(S, l) \in S /\ Cardinality(UpTo(S, Place(S, l))) = l
    BY <1>1, <2>1, PlaceExists
  <2>3. Place(S, k) < Place(S, l) => k < l BY <1>1, <2>2, RankGrows
  <2>4. Place(S, l) < Place(S, k) => l < k BY <1>1, <2>2, RankGrows
  <2>5. Place(S, k) \in Nat /\ Place(S, l) \in Nat BY <1>1, <2>2
  <2>6. Place(S, k) = Place(S, l) => k = l BY <2>2
  <2>7. k \in Nat /\ l \in Nat BY <1>3, <2>1
  <2> HIDE DEF Place
  <2> QED BY <2>3, <2>4, <2>5, <2>6, <2>7
<1>6. \A i \in S : \E k \in DOMAIN plus : Place(S, k) = i BY <1>1, <1>4, PlaceOnto
<1> QED BY <1>1, <1>2, <1>3, <1>4, <1>5, <1>6

\* What is reported of one PLU here and not there is what it shares with an earlier one.
LEMMA ReportedForEarlier ==
  ASSUME NEW plus, NEW i, NEW others, NEW j, plus[i] = others[j],
         IssueFields(plus, i) # {}, IssueFields(others, j) = {}
  PROVE  \E field \in {"plu_number", "barcode"} :
            SeenBefore(plus, i, field) /\ ~SeenBefore(others, j, field)
<1>1. ~SeenBefore(others, j, "plu_number") /\ ~SeenBefore(others, j, "barcode") BY Flagged
<1> SUFFICES ASSUME ~SeenBefore(plus, i, "plu_number"), ~SeenBefore(plus, i, "barcode")
             PROVE  IssueFields(plus, i) = IssueFields(others, j)
  BY <1>1
<1> QED BY <1>1 DEF IssueFields

\* A number is valid when it is the number of a PLU and nothing is reported of it.
LEMMA NumberRemains ==
  ASSUME NEW n \in Nat, NEW plus, DOMAIN plus = 1 .. n, NEW number
  PROVE  number \in Numbers(ValidPluCandidates(plus)) <=>
           number \in Numbers(plus) /\ number \notin InvalidNumbers(plus)
<1> DEFINE S == Remaining(plus)
           valid == AtPositions(plus, S)
<1>1. S \subseteq 1 .. n BY DEF Remaining
<1>2. ValidPluCandidates(plus) = valid BY DEF ValidPluCandidates, Remaining
<1> valid = AtPositions(plus, S) OBVIOUS
<1> HIDE DEF S, valid
<1>3. /\ \A k \in DOMAIN valid : \E i \in S : valid[k] = plus[i]
      /\ \A i \in S : \E k \in DOMAIN valid : valid[k] = plus[i]
  BY <1>1, PickedAll
<1>4. number \in Numbers(valid) <=> \E i \in S : plus[i].plu_number = number
  <2>1. ASSUME NEW k \in DOMAIN valid, valid[k].plu_number = number
        PROVE  \E i \in S : plus[i].plu_number = number
    BY <1>3, <2>1
  <2>2. ASSUME NEW i \in S, plus[i].plu_number = number
        PROVE  \E k \in DOMAIN valid : valid[k].plu_number = number
    BY <1>3, <2>2
  <2>3. number \in Numbers(valid) <=> \E k \in DOMAIN valid : valid[k].plu_number = number
    BY DEF Numbers
  <2> QED BY <2>1, <2>2, <2>3
<1>5. (\E i \in S : plus[i].plu_number = number)
        <=> number \in Numbers(plus) /\ number \notin InvalidNumbers(plus)
  BY DEF S, Remaining, Numbers
<1> QED BY <1>2, <1>4, <1>5

\* The rows before and after a profile: the same rows in the same order.
LEMMA RowsKept ==
  ASSUME NEW dataset, IsDataset(dataset), NEW profile,
         NEW filled, filled = ApplyProfile(dataset, profile).dataset,
         NEW changed, changed = ApplyProfile(dataset, profile).changed_numbers
  PROVE  /\ DOMAIN filled.plu_rows = DOMAIN dataset.plu_rows
         /\ filled.ingredient_rows = dataset.ingredient_rows
         /\ filled.nutrition_rows = dataset.nutrition_rows
         /\ \A i \in DOMAIN dataset.plu_rows :
               /\ filled.plu_rows[i] = SanitizedRow(dataset.plu_rows[i], profile)
               /\ filled.plu_rows[i].number = dataset.plu_rows[i].number
               /\ \/ dataset.plu_rows[i].number \in changed
                  \/ filled.plu_rows[i] = dataset.plu_rows[i]
                  \/ dataset.plu_rows[i].bestBefore = PaddedFive
<1> DEFINE rows == dataset.plu_rows
<1>1. filled = [dataset EXCEPT !.plu_rows = [i \in DOMAIN rows |-> SanitizedRow(rows[i], profile)]]
  BY DEF ApplyProfile
<1>2. changed = {rows[i].number : i \in {j \in DOMAIN rows : ChangedFields(rows[j], profile) # {}}}
  BY DEF ApplyProfile
<1>3. /\ filled.plu_rows = [i \in DOMAIN rows |-> SanitizedRow(rows[i], profile)]
      /\ filled.ingredient_rows = dataset.ingredient_rows
      /\ filled.nutrition_rows = dataset.nutrition_rows
  BY <1>1 DEF IsDataset
<1>4. ASSUME NEW i \in DOMAIN rows
      PROVE  /\ SanitizedRow(rows[i], profile).number = rows[i].number
             /\ \/ rows[i].number \in changed
                \/ SanitizedRow(rows[i], profile) = rows[i]
                \/ rows[i].bestBefore = PaddedFive
  <2>1. IsRow(rows[i]) BY DEF IsDataset, IsRows
  <2>2. CASE ChangedFields(rows[i], profile) = {} BY <2>1, <2>2, NumberKept, UnlistedRow
  <2>3. CASE ChangedFields(rows[i], profile) # {} BY <1>2, <2>1, <2>3, NumberKept
  <2> QED BY <2>2, <2>3
<1> QED BY <1>3, <1>4

\* A row that normalizes has no padded selling date.
LEMMA NormalizesUnpadded == ASSUME NEW row, Normalizes(row) PROVE row.bestBefore # PaddedFive
<1>1. FieldChecks(row)[10][2] = OptionalU32(row.bestBefore) BY DEF FieldChecks
<1>2. 10 \notin WrongFields(row) BY DEF Normalizes
<1>3. OptionalU32(row.bestBefore) BY <1>1, <1>2 DEF WrongFields
<1> QED BY <1>3, PaddedFiveAssumption DEF OptionalU32, Found, IsU32

\* A PLU is made of its row and of the rows of the other two tables.
LEMMA PluOfRow ==
  ASSUME NEW row, NEW dataset, NEW other, other.ingredient_rows = dataset.ingredient_rows,
         other.nutrition_rows = dataset.nutrition_rows
  PROVE  /\ NormalizedPlu(row, other) = NormalizedPlu(row, dataset)
         /\ NormalizedPlu(row, dataset).plu_number = row.number
         /\ NormalizedPlu(row, dataset).barcode = BarcodeData(row)
BY DEF NormalizedPlu

\* The PLUs of a number become valid for one of three reasons.
LEMMA WhyRecovered ==
  ASSUME NEW dataset, IsDataset(dataset), NEW profile,
         NEW filled, filled = ApplyProfile(dataset, profile).dataset,
         NEW changed, changed = ApplyProfile(dataset, profile).changed_numbers,
         NEW number, number \notin changed,
         number \in Numbers(Validated(filled).valid_plus),
         number \notin Numbers(Validated(dataset).valid_plus)
  PROVE  \E j \in DOMAIN dataset.plu_rows :
            /\ dataset.plu_rows[j].number = number
            /\ dataset.plu_rows[j].bestBefore = PaddedFive \/ FreedBy(dataset.plu_rows, j, changed)
<1> DEFINE raw == dataset.plu_rows
           rows == filled.plu_rows
           before == NormalizeDataset(dataset).plus
           after == NormalizeDataset(filled).plus
           S == Normalizing(dataset)
           T == Normalizing(filled)
<1> SUFFICES ASSUME \A j \in DOMAIN raw : raw[j].number = number =>
                       raw[j].bestBefore # PaddedFive /\ ~FreedBy(raw, j, changed)
             PROVE  FALSE
  OBVIOUS
<1>1. PICK n \in Nat : DOMAIN raw = 1 .. n BY DEF IsDataset, IsRows, Ordered
<1>2. /\ DOMAIN rows = 1 .. n
      /\ filled.ingredient_rows = dataset.ingredient_rows
      /\ filled.nutrition_rows = dataset.nutrition_rows
      /\ \A i \in 1 .. n :
            /\ rows[i].number = raw[i].number
            /\ raw[i].number \in changed \/ rows[i] = raw[i] \/ raw[i].bestBefore = PaddedFive
  BY <1>1, RowsKept
<1>3. /\ S = {i \in 1 .. n : Normalizes(raw[i])}
      /\ T = {i \in 1 .. n : Normalizes(rows[i])}
  BY <1>1, <1>2 DEF Normalizing
<1>4. /\ Cardinality(S) \in Nat /\ DOMAIN before = 1 .. Cardinality(S)
      /\ \A k \in DOMAIN before : Place(S, k) \in S /\ before[k] = NormalizedPlu(raw[Place(S, k)], dataset)
      /\ \A i \in S : \E k \in DOMAIN before : Place(S, k) = i
      /\ \A k, l \in DOMAIN before : Place(S, k) < Place(S, l) <=> k < l
  BY <1>1, PlusInOrder
<1>5. /\ Cardinality(T) \in Nat /\ DOMAIN after = 1 .. Cardinality(T)
      /\ \A k \in DOMAIN after : Place(T, k) \in T /\ after[k] = NormalizedPlu(rows[Place(T, k)], filled)
      /\ \A i \in T : \E k \in DOMAIN after : Place(T, k) = i
      /\ \A k, l \in DOMAIN after : Place(T, k) < Place(T, l) <=> k < l
  BY <1>2, PlusInOrder
<1>6. /\ number \in Numbers(after) /\ number \notin InvalidNumbers(after)
      /\ number \in Numbers(before) => number \in InvalidNumbers(before)
  BY <1>4, <1>5, NumberRemains DEF Validated
<1> HIDE DEF raw, rows, before, after, S, T
<1>7. ASSUME NEW i \in 1 .. n, raw[i].number = number PROVE rows[i] = raw[i]
  BY <1>1, <1>2, <1>7
\* The PLU before a profile at k is the one after it at some l, when its row is the same.
<1>8. ASSUME NEW k \in DOMAIN before, rows[Place(S, k)] = raw[Place(S, k)]
      PROVE  \E l \in DOMAIN after : Place(T, l) = Place(S, k) /\ after[l] = before[k]
  <2>1. Place(S, k) \in T BY <1>3, <1>4, <1>8
  <2>2. PICK l \in DOMAIN after : Place(T, l) = Place(S, k) BY <1>5, <2>1
  <2>3. after[l] = before[k] BY <1>2, <1>4, <1>5, <1>8, <2>2, PluOfRow
  <2> QED BY <2>2, <2>3
<1>9. number \in InvalidNumbers(before)
  <2>1. PICK l \in DOMAIN after : after[l].plu_number = number BY <1>6 DEF Numbers
  <2>2. Place(T, l) \in 1 .. n /\ rows[Place(T, l)].number = number BY <1>3, <1>5, <2>1, PluOfRow
  <2>3. rows[Place(T, l)] = raw[Place(T, l)] BY <1>2, <1>7, <2>2
  <2>4. Place(T, l) \in S BY <1>3, <1>5, <2>2, <2>3
  <2>5. PICK k \in DOMAIN before : Place(S, k) = Place(T, l) BY <1>4, <2>4
  <2>6. before[k].plu_number = number BY <1>4, <2>2, <2>3, <2>5, PluOfRow
  <2> QED BY <1>6, <2>6 DEF Numbers
<1>10. PICK k \in DOMAIN before : before[k].plu_number = number /\ IssueFields(before, k) # {}
  BY <1>9 DEF InvalidNumbers
<1>11. /\ Place(S, k) \in 1 .. n /\ raw[Place(S, k)].number = number /\ Normalizes(raw[Place(S, k)])
       /\ before[k].barcode = BarcodeData(raw[Place(S, k)])
  BY <1>3, <1>4, <1>10, PluOfRow
<1>12. PICK l \in DOMAIN after : Place(T, l) = Place(S, k) /\ after[l] = before[k] BY <1>7, <1>8, <1>11
<1>13. IssueFields(after, l) = {} BY <1>6, <1>10, <1>12 DEF InvalidNumbers
<1>14. PICK field \in {"plu_number", "barcode"} :
           SeenBefore(before, k, field) /\ ~SeenBefore(after, l, field)
  BY <1>10, <1>12, <1>13, ReportedForEarlier
<1>15. PICK e \in 1 .. k - 1 : before[e][field] = before[k][field] BY <1>14 DEF SeenBefore
<1>16. e \in DOMAIN before /\ e < k BY <1>4, <1>15
<1>17. /\ Place(S, e) \in 1 .. n /\ Normalizes(raw[Place(S, e)])
       /\ before[e].plu_number = raw[Place(S, e)].number
       /\ before[e].barcode = BarcodeData(raw[Place(S, e)])
  BY <1>3, <1>4, <1>16, PluOfRow
<1>18. raw[Place(S, e)].number \notin changed
  <2>1. CASE field = "plu_number" BY <1>10, <1>15, <1>17, <2>1
  <2>2. CASE field = "barcode"
    <3>1. BarcodeData(raw[Place(S, k)]) = BarcodeData(raw[Place(S, e)]) BY <1>11, <1>15, <1>17, <2>2
    <3>2. ~FreedBy(raw, Place(S, k), changed) BY <1>1, <1>11
    <3> QED BY <1>1, <1>11, <1>17, <3>1, <3>2 DEF FreedBy
  <2> QED BY <2>1, <2>2
<1>19. rows[Place(S, e)] = raw[Place(S, e)] BY <1>2, <1>17, <1>18, NormalizesUnpadded
<1>20. PICK f \in DOMAIN after : Place(T, f) = Place(S, e) /\ after[f] = before[e] BY <1>8, <1>16, <1>19
<1>21. f < l
  <2>1. Place(S, e) < Place(S, k) BY <1>4, <1>16
  <2> QED BY <1>5, <1>12, <1>20, <2>1
<1>22. f \in 1 .. l - 1 BY <1>5, <1>21
<1>23. SeenBefore(after, l, field) BY <1>12, <1>15, <1>20, <1>22 DEF SeenBefore
<1> QED BY <1>14, <1>23

\* What a profile does to the rows of one dataset.
LEMMA ProfileFills ==
  ASSUME PassInv, HasContext, run.profile # Absent
  PROVE  FillsOnlyEmpty
<1>0. HasPass BY DEF HasContext, HasPass
<1>1. PICK dataset : IsDataset(dataset) /\ run.context = Context(dataset, run.profile)
  BY <1>0 DEF PassInv
<1> DEFINE applied == ApplyProfile(dataset, run.profile)
           raw == dataset.plu_rows
           rows == applied.dataset.plu_rows
<1>2. /\ run.context.raw.plu_rows = raw
      /\ run.context.dataset.plu_rows = rows
      /\ run.context.summary.changed_numbers = applied.changed_numbers
      /\ run.context.summary.recovered_numbers =
            Numbers(Validated(applied.dataset).valid_plus) \ Numbers(Validated(dataset).valid_plus)
  BY <1>1 DEF Context
<1>3. /\ DOMAIN rows = DOMAIN raw
      /\ \A i \in DOMAIN raw : rows[i] = SanitizedRow(raw[i], run.profile)
  BY <1>1, RowsKept
<1>4. PICK n \in Nat : DOMAIN raw = 1 .. n BY <1>1 DEF IsDataset, IsRows, Ordered
<1>5. \A i \in DOMAIN raw : IsRow(raw[i]) BY <1>1 DEF IsDataset, IsRows
<1>6. ASSUME NEW number \in run.context.summary.recovered_numbers \ applied.changed_numbers
      PROVE  \E j \in DOMAIN raw :
                /\ raw[j].number = number
                /\ raw[j].bestBefore = PaddedFive \/ FreedBy(raw, j, applied.changed_numbers)
  BY <1>1, <1>2, <1>6, WhyRecovered
<1> HIDE DEF applied, raw, rows
<1>7. Len(rows) = Len(raw) BY <1>3, <1>4
<1>8. ASSUME NEW i \in DOMAIN raw, NEW f \in DOMAIN raw[i], rows[i][f] # raw[i][f]
      PROVE  \/ f \in TargetFields /\ raw[i][f] \in {Blank, Padding}
             \/ /\ f = "bestBefore" /\ HasTermRule(run.profile)
                /\ KeepsTerm(raw[i][f], rows[i][f], run.profile.term)
  <2>1. IsRow(raw[i]) /\ f \in Cells BY <1>5, <1>8 DEF IsRow
  <2> QED BY <1>3, <1>8, <2>1, CellsKept
<1> QED BY <1>2, <1>6, <1>7, <1>8 DEF FillsOnlyEmpty

(* A profile changes the cells that are empty and the selling dates that   *)
(* its rule does not allow, in whatever rows, and what it makes valid is   *)
(* accounted for: the number is listed as changed, or the padding of its   *)
(* selling date went, or the barcode it shared was that of a listed one.   *)
THEOREM NothingElseIsFilled == Spec => []FillsOnlyEmpty
<1>1. ReadInv => FillsOnlyEmpty BY ProfileFills DEF ReadInv, FillsOnlyEmpty
<1> QED BY <1>1, AlwaysRead, PTL

(* What the exit code of sanitize counts *)

\* The positions in S and the others are all of them.
LEMMA PartsCount ==
  ASSUME NEW n \in Nat, NEW S, S \subseteq 1 .. n
  PROVE  /\ Cardinality(S) \in Nat /\ Cardinality((1 .. n) \ S) \in Nat
         /\ Cardinality(S) + Cardinality((1 .. n) \ S) = n
         /\ Cardinality(S) = n => S = 1 .. n
<1>1. IsFiniteSet(1 .. n) /\ Cardinality(1 .. n) = n
  <2>1. Cardinality(1 .. n) = IF 1 > n THEN 0 ELSE n - 1 + 1 BY FS_Interval
  <2> QED BY <2>1, FS_Interval
<1>2. (1 .. n) \cap S = S OBVIOUS
<1>3. Cardinality((1 .. n) \ S) = Cardinality(1 .. n) - Cardinality((1 .. n) \cap S)
  BY <1>1, FS_Difference
<1>4. Cardinality(S) \in Nat /\ Cardinality((1 .. n) \ S) \in Nat
  <2>1. (1 .. n) \ S \subseteq 1 .. n OBVIOUS
  <2> QED BY <2>1, Countable
<1>5. Cardinality(S) = n => S = 1 .. n BY <1>1, FS_Subset
<1>6. Cardinality((1 .. n) \ S) = n - Cardinality(S) BY <1>1, <1>2, <1>3
<1> QED BY <1>4, <1>5, <1>6

\* A row that is reported is reported for one of its wrong fields.
LEMMA ReportedField ==
  ASSUME NEW row, ~Normalizes(row), IsPlaceholderIssue(RowIssue(row))
  PROVE  row.number = 0 /\ Name(row) = <<>>
<1> DEFINE wrong == Min(WrongFields(row))
<1>1. wrong \in WrongFields(row)
  <2>1. WrongFields(row) \in SUBSET Nat BY DEF WrongFields
  <2>2. WrongFields(row) # {} BY DEF Normalizes
  <2> QED BY <2>1, <2>2, MinOfSome
<1>2. wrong \in 1 .. 11 /\ ~FieldChecks(row)[wrong][2] BY <1>1 DEF WrongFields
<1>3. /\ FieldChecks(row)[wrong][1] = "name"
      /\ row.number = 0
  BY DEF IsPlaceholderIssue, RowIssue
<1> HIDE DEF wrong
<1>4. wrong = 5
  <2>1. wrong \in {1, 2, 3, 4, 5, 6, 7, 8, 9, 10, 11} BY <1>2
  <2> QED BY <1>3, <2>1 DEF FieldChecks
<1>5. FieldChecks(row)[5][2] = (Name(row) # <<>>) BY DEF FieldChecks
<1> QED BY <1>2, <1>3, <1>4, <1>5

Reported(report, row) == \E k \in DOMAIN report.row_issues : report.row_issues[k] = RowIssue(row)

\* Every row is a PLU or has an issue.
LEMMA RowsCounted ==
  ASSUME NEW n \in Nat, NEW dataset, DOMAIN dataset.plu_rows = 1 .. n,
         NEW report, report = NormalizeDataset(dataset), NEW S, S = Normalizing(dataset)
  PROVE  /\ Len(dataset.plu_rows) = n
         /\ Len(report.plus) \in Nat /\ DOMAIN report.plus = 1 .. Len(report.plus)
         /\ Len(report.row_issues) \in Nat /\ DOMAIN report.row_issues = 1 .. Len(report.row_issues)
         /\ Len(report.plus) + Len(report.row_issues) = n
         /\ \A i \in 1 .. n : i \notin S => Reported(report, dataset.plu_rows[i])
<1> DEFINE others == (1 .. n) \ S
           rows == dataset.plu_rows
           bad == AtPositions(rows, others)
           plus == report.plus
           issues == report.row_issues
<1>1. S \subseteq 1 .. n /\ others \subseteq 1 .. n BY DEF Normalizing
<1>2. issues = [k \in DOMAIN bad |-> RowIssue(bad[k])] BY DEF NormalizeDataset, Normalizing
<1>3. DOMAIN plus = 1 .. Cardinality(S) BY PlusInOrder
<1> HIDE DEF others, rows, bad, plus, issues
<1>a. bad = AtPositions(rows, others) BY DEF bad
<1>4. \A i \in others : \E k \in DOMAIN bad : bad[k] = rows[i]
  <2>1. others \subseteq 1 .. n /\ Cardinality(others) \in Nat BY <1>1, Countable
  <2>2. bad = [k \in 1 .. Cardinality(others) |-> rows[Place(others, k)]]
    BY <1>a DEF AtPositions, Place, UpTo
  <2>3. \A i \in others : \E k \in 1 .. Cardinality(others) : Place(others, k) = i BY <2>1, PlaceOnto
  <2> QED BY <2>1, <2>2, <2>3
<1>5. DOMAIN bad = 1 .. Cardinality(others) BY <1>1, <1>a, AtPositionsPicks
<1>6. /\ Cardinality(S) \in Nat /\ Cardinality(others) \in Nat
      /\ Cardinality(S) + Cardinality(others) = n
  BY <1>1, PartsCount DEF others
<1>7. Len(plus) = Cardinality(S)
  <2>1. plus = [k \in 1 .. Cardinality(S) |-> plus[k]] BY <1>3 DEF plus, NormalizeDataset
  <2> QED BY <1>3, <1>6, <2>1
<1>8. Len(issues) = Cardinality(others) BY <1>2, <1>5, <1>6
<1>9. DOMAIN issues = DOMAIN bad /\ \A k \in DOMAIN bad : issues[k] = RowIssue(bad[k]) BY <1>2
<1>10. \A i \in 1 .. n : i \notin S => Reported(report, rows[i])
  BY <1>4, <1>9 DEF others, issues, Reported
<1>11. Len(rows) = n BY DEF rows
<1> QED
  BY <1>3, <1>5, <1>6, <1>7, <1>8, <1>9, <1>10, <1>11 DEF plus, issues, others, rows

\* The PLUs that remain are no more than there are, and as many only when they are the same.
LEMMA ValidCounted ==
  ASSUME NEW n \in Nat, NEW plus, DOMAIN plus = 1 .. n
  PROVE  /\ Len(ValidPluCandidates(plus)) \in 0 .. n
         /\ Len(ValidPluCandidates(plus)) = n => Numbers(ValidPluCandidates(plus)) = Numbers(plus)
<1> DEFINE S == Remaining(plus)
<1>1. S \subseteq 1 .. n BY DEF Remaining
<1>2. ValidPluCandidates(plus) = AtPositions(plus, S) BY DEF ValidPluCandidates, Remaining
<1> HIDE DEF S
<1>3. AtPositions(plus, S) = [k \in 1 .. Cardinality(S) |-> plus[Place(S, k)]]
  BY DEF AtPositions, Place, UpTo
<1>4. /\ Cardinality(S) \in Nat /\ Cardinality((1 .. n) \ S) \in Nat
      /\ Cardinality(S) + Cardinality((1 .. n) \ S) = n
      /\ Cardinality(S) = n => S = 1 .. n
  BY <1>1, PartsCount
<1>5. Len(ValidPluCandidates(plus)) = Cardinality(S) BY <1>2, <1>3, <1>4
<1>6. ASSUME S = 1 .. n PROVE Numbers(ValidPluCandidates(plus)) = Numbers(plus)
  <2>1. ASSUME NEW number \in Numbers(plus) PROVE number \notin InvalidNumbers(plus)
    BY <1>6, <2>1 DEF Numbers, S, Remaining
  <2>2. \A number : number \in Numbers(ValidPluCandidates(plus)) <=>
           number \in Numbers(plus) /\ number \notin InvalidNumbers(plus)
    BY NumberRemains
  <2> QED BY <2>1, <2>2
<1> QED BY <1>4, <1>5, <1>6

\* The counts of one pass over n rows, and what they say when none is invalid.
LEMMA PassCounted ==
  ASSUME NEW n \in Nat, NEW dataset, DOMAIN dataset.plu_rows = 1 .. n,
         NEW pass, pass = Validated(dataset)
  PROVE  /\ Len(dataset.plu_rows)
              = pass.placeholder_ignored + pass.invalid_source_rows + Len(pass.valid_plus)
         /\ pass.invalid_source_rows = 0 =>
              /\ \A k \in DOMAIN pass.normalized.row_issues :
                    IsPlaceholderIssue(pass.normalized.row_issues[k])
              /\ Numbers(pass.valid_plus) = Numbers(pass.normalized.plus)
<1>0. PICK report, S : report = NormalizeDataset(dataset) /\ S = Normalizing(dataset) OBVIOUS
<1>a. /\ Len(dataset.plu_rows) = n
      /\ Len(report.plus) \in Nat /\ DOMAIN report.plus = 1 .. Len(report.plus)
      /\ Len(report.row_issues) \in Nat /\ DOMAIN report.row_issues = 1 .. Len(report.row_issues)
      /\ Len(report.plus) + Len(report.row_issues) = n
  BY <1>0, RowsCounted
<1> DEFINE plus == report.plus
           issues == report.row_issues
           valid == ValidPluCandidates(plus)
           P == Placeholders(issues)
<1>1. /\ Len(dataset.plu_rows) = n
      /\ Len(plus) \in Nat /\ DOMAIN plus = 1 .. Len(plus)
      /\ Len(issues) \in Nat /\ DOMAIN issues = 1 .. Len(issues)
      /\ Len(plus) + Len(issues) = n
  BY <1>a
<1>2. /\ Len(valid) \in 0 .. Len(plus)
      /\ Len(valid) = Len(plus) => Numbers(valid) = Numbers(plus)
  BY <1>1, ValidCounted
<1>3. P \subseteq 1 .. Len(issues) BY <1>1 DEF Placeholders
<1>4. /\ pass.normalized = report /\ pass.valid_plus = valid
      /\ pass.placeholder_ignored = Cardinality(P)
      /\ pass.invalid_source_rows = (Len(issues) - Cardinality(P)) + (Len(plus) - Len(valid))
  BY <1>0 DEF Validated, CountedInvalidRows
<1> HIDE DEF plus, issues, valid, P
<1>5. /\ Cardinality(P) \in Nat /\ Cardinality(P) <= Len(issues)
      /\ Cardinality(P) = Len(issues) => P = 1 .. Len(issues)
  <2>1. /\ Cardinality(P) \in Nat /\ Cardinality((1 .. Len(issues)) \ P) \in Nat
        /\ Cardinality(P) + Cardinality((1 .. Len(issues)) \ P) = Len(issues)
        /\ Cardinality(P) = Len(issues) => P = 1 .. Len(issues)
    BY <1>1, <1>3, PartsCount
  <2> QED BY <1>1, <2>1
<1>6. Len(valid) \in Nat /\ Len(valid) <= Len(plus) BY <1>1, <1>2
<1>7. Len(dataset.plu_rows)
        = pass.placeholder_ignored + pass.invalid_source_rows + Len(pass.valid_plus)
  <2>1. \A c, i, p, v \in Nat : i + p = c + ((i - c) + (p - v)) + v OBVIOUS
  <2>2. Len(issues) \in Nat /\ Len(plus) \in Nat /\ Cardinality(P) \in Nat /\ Len(valid) \in Nat
    BY <1>1, <1>5, <1>6
  <2>3. Len(issues) + Len(plus)
          = Cardinality(P) + ((Len(issues) - Cardinality(P)) + (Len(plus) - Len(valid))) + Len(valid)
    BY <2>1, <2>2
  <2>4. Len(issues) + Len(plus) = Len(dataset.plu_rows) BY <1>1, <2>2
  <2> QED BY Zenon, <1>4, <2>3, <2>4
<1>8. ASSUME pass.invalid_source_rows = 0
      PROVE  /\ \A k \in DOMAIN issues : IsPlaceholderIssue(issues[k])
             /\ Numbers(valid) = Numbers(plus)
  <2>1. Cardinality(P) = Len(issues) /\ Len(valid) = Len(plus) BY <1>1, <1>4, <1>5, <1>6, <1>8
  <2>2. \A k \in DOMAIN issues : k \in P BY <1>1, <1>5, <2>1
  <2>3. \A k \in DOMAIN issues : IsPlaceholderIssue(issues[k])
    BY <2>2 DEF P, Placeholders
  <2> QED BY <1>2, <2>1, <2>3
<1> QED BY <1>4, <1>7, <1>8 DEF plus, issues

\* When a pass counts nothing as invalid, only number 0 is still invalid.
LEMMA NothingStillInvalid ==
  ASSUME NEW n \in Nat, NEW dataset, DOMAIN dataset.plu_rows = 1 .. n,
         NEW pass, pass = Validated(dataset), pass.invalid_source_rows = 0,
         NEW number \in StillInvalidNumbers(pass)
  PROVE  number = 0
<1> DEFINE issues == pass.normalized.row_issues
           plus == pass.normalized.plus
<1>1. /\ \A k \in DOMAIN issues : IsPlaceholderIssue(issues[k])
      /\ Numbers(pass.valid_plus) = Numbers(plus)
  BY PassCounted
<1>2. InvalidNumbers(plus) \subseteq Numbers(plus) BY DEF InvalidNumbers, Numbers
<1>3. {plus[i].plu_number : i \in {j \in DOMAIN plus : WarningFields(plus[j]) # {}}} \subseteq Numbers(plus)
  BY DEF Numbers
<1>4. /\ number \notin Numbers(pass.valid_plus)
      /\ \/ number \in {issues[i].number : i \in DOMAIN issues}
         \/ number \in InvalidNumbers(plus)
         \/ number \in {plus[i].plu_number : i \in {j \in DOMAIN plus : WarningFields(plus[j]) # {}}}
  BY DEF StillInvalidNumbers
<1>5. PICK i \in DOMAIN issues : number = issues[i].number BY <1>1, <1>2, <1>3, <1>4
<1> QED BY <1>1, <1>5 DEF IsPlaceholderIssue

\* A record that a profile changes has a number.
LEMMA ChangedPositive ==
  ASSUME NEW dataset, NEW profile
  PROVE  0 \notin ApplyProfile(dataset, profile).changed_numbers
<1> DEFINE rows == dataset.plu_rows
<1>1. ApplyProfile(dataset, profile).changed_numbers
        = {rows[i].number : i \in {j \in DOMAIN rows : ChangedFields(rows[j], profile) # {}}}
  BY DEF ApplyProfile
<1>2. \A row : ChangedFields(row, profile) # {} => PositiveU32(row.number)
  BY DEF ChangedFields, IsCandidateProduct
<1>3. ~PositiveU32(0) BY DEF PositiveU32
<1> QED BY <1>1, <1>2, <1>3

LEMMA ExitCounted ==
  ASSUME PassInv, HasContext
  PROVE  ExitZeroMeansImportable
<1> DEFINE dataset == run.context.dataset
           rows == dataset.plu_rows
           pass == run.context.after
<1>0. HasPass BY DEF HasContext, HasPass
<1>1. PICK source : run.context = Context(source, run.profile) BY <1>0 DEF PassInv
<1>2. PICK n \in Nat : DOMAIN rows = 1 .. n BY <1>0, PassRead DEF Ordered
<1>3. pass = Validated(dataset) BY <1>0, PassRead
<1>4. run.profile # Absent =>
         run.context.summary.invalid_records =
            ApplyProfile(source, run.profile).changed_numbers \cap StillInvalidNumbers(pass)
  BY <1>1 DEF Context
<1>5. SanitizeExit(run.context) = 0 => pass.invalid_source_rows = 0 BY DEF SanitizeExit
<1>6. ValidPlus = pass.valid_plus BY DEF ValidPlus
<1> HIDE DEF dataset, pass
<1>7. Len(rows) = pass.placeholder_ignored + pass.invalid_source_rows + Len(pass.valid_plus)
  BY <1>2, <1>3, PassCounted
<1>8. ASSUME pass.invalid_source_rows = 0, NEW i \in DOMAIN rows
      PROVE  \/ Normalizes(rows[i]) /\ rows[i].number \in Numbers(pass.valid_plus)
             \/ rows[i].number = 0 /\ Name(rows[i]) = <<>>
  <2>0. PICK report, S : report = NormalizeDataset(dataset) /\ S = Normalizing(dataset) OBVIOUS
  <2>1. /\ \A k \in DOMAIN pass.normalized.row_issues :
               IsPlaceholderIssue(pass.normalized.row_issues[k])
        /\ Numbers(pass.valid_plus) = Numbers(pass.normalized.plus)
    BY <1>2, <1>3, <1>8, PassCounted
  <2>2. pass.normalized = report BY <1>3, <2>0 DEF Validated
  <2>3. i \in S <=> Normalizes(rows[i]) BY <2>0 DEF Normalizing
  <2>4. /\ \A k \in DOMAIN report.plus :
               report.plus[k] = NormalizedPlu(rows[Place(S, k)], dataset)
        /\ \A j \in S : \E k \in DOMAIN report.plus : Place(S, k) = j
    BY <1>2, <2>0, PlusInOrder
  <2>5. i \notin S => Reported(report, dataset.plu_rows[i]) BY <1>2, <1>8, <2>0, RowsCounted
  <2>6. CASE i \in S
    <3>1. PICK k \in DOMAIN report.plus : Place(S, k) = i BY <2>4, <2>6
    <3>2. report.plus[k].plu_number = rows[i].number BY <2>4, <3>1, PluOfRow
    <3>3. rows[i].number \in Numbers(report.plus) BY <3>2 DEF Numbers
    <3> QED BY <2>1, <2>2, <2>3, <2>6, <3>3
  <2>7. CASE i \notin S
    <3>1. PICK k \in DOMAIN report.row_issues : report.row_issues[k] = RowIssue(rows[i])
      BY <2>5, <2>7 DEF Reported
    <3>2. IsPlaceholderIssue(RowIssue(rows[i])) BY <2>1, <2>2, <3>1
    <3> QED BY <2>3, <2>7, <3>2, ReportedField
  <2> QED BY <2>6, <2>7
<1>9. ASSUME pass.invalid_source_rows = 0, run.profile # Absent
      PROVE  run.context.summary.invalid_records = {}
  BY <1>2, <1>3, <1>4, <1>9, NothingStillInvalid, ChangedPositive
<1> QED BY <1>5, <1>6, <1>7, <1>8, <1>9 DEF ExitZeroMeansImportable, dataset, pass

(* Every row is counted once, and sanitize exits 0 only when every row can *)
(* be imported or is a placeholder, and nothing that the profile changed   *)
(* is still marked invalid: the counts, the issues and the numbers agree,  *)
(* whatever the rows are.                                                  *)
THEOREM ExitZeroIsImportable == Spec => []ExitZeroMeansImportable
<1>1. ReadInv => ExitZeroMeansImportable BY ExitCounted DEF ReadInv, ExitZeroMeansImportable
<1> QED BY <1>1, AlwaysRead, PTL

(* Sums *)

\* The sums over the parts of the domain of f, by the equation of FoldFunctionOnSet.
Some(s) == CHOOSE x \in s : TRUE
Summing(f, sum) ==
  sum = [s \in SUBSET DOMAIN f |-> IF s = {} THEN 0 ELSE f[Some(s)] + sum[s \ {Some(s)}]]

\* What such a function returns.
LEMMA SummedParts ==
  ASSUME NEW f, NEW sum, Summing(f, sum), NEW s \in SUBSET DOMAIN f
  PROVE  /\ s = {} => sum[s] = 0
         /\ s # {} => Some(s) \in s /\ sum[s] = f[Some(s)] + sum[s \ {Some(s)}]
<1>1. s # {} => Some(s) \in s BY DEF Some
<1>2. sum[s] = IF s = {} THEN 0 ELSE f[Some(s)] + sum[s \ {Some(s)}]
  <2> HIDE DEF Some
  <2> QED BY DEF Summing
<1> QED BY <1>1, <1>2

\* The equation has one solution: a smallest part on which two differ is not empty,
\* and without one of its elements they would still differ.
LEMMA SummedOnce ==
  ASSUME NEW f, IsFiniteSet(DOMAIN f), NEW sum, Summing(f, sum), NEW other, Summing(f, other)
  PROVE  \A s \in SUBSET DOMAIN f : sum[s] = other[s]
<1> DEFINE Differ == {s \in SUBSET DOMAIN f : sum[s] # other[s]}
           Sizes == {Cardinality(s) : s \in Differ}
<1> SUFFICES ASSUME Differ # {} PROVE FALSE OBVIOUS
<1>1. \A s \in Differ : IsFiniteSet(s) /\ Cardinality(s) \in Nat BY FS_Subset, FS_CardinalityType
<1>2. Sizes \in SUBSET Nat /\ Sizes # {} BY <1>1
<1>3. PICK m \in Sizes : \A x \in Sizes : m <= x
  <2> HIDE DEF Sizes
  <2> QED BY <1>2, LeastNat
<1>4. PICK s \in Differ : Cardinality(s) = m BY <1>3
<1>5. s # {} /\ Some(s) \in s BY <1>4, SummedParts
<1>6. s \ {Some(s)} \in Differ BY <1>4, <1>5, SummedParts
<1>7. Cardinality(s \ {Some(s)}) = Cardinality(s) - 1 BY <1>1, <1>5, FS_RemoveElement
<1>8. m <= Cardinality(s \ {Some(s)}) BY <1>3, <1>6
<1>9. Cardinality(s) \in Nat BY <1>1
<1> QED BY <1>4, <1>7, <1>8, <1>9

\* Summing the sizes of disjoint parts counts their union.
Together(P, s) == UNION {P[t] : t \in s}

LEMMA SumOfParts ==
  ASSUME NEW f, IsFiniteSet(DOMAIN f), NEW U, IsFiniteSet(U), NEW P,
         \A t \in DOMAIN f : P[t] \subseteq U /\ f[t] = Cardinality(P[t]),
         \A t, u \in DOMAIN f : t # u => P[t] \cap P[u] = {}
  PROVE  SumFunction(f) = Cardinality(Together(P, DOMAIN f))
<1> DEFINE Whole(s) == Together(P, s)
           count == [s \in SUBSET DOMAIN f |-> Cardinality(Whole(s))]
<1>1. ASSUME NEW s \in SUBSET DOMAIN f
      PROVE  Cardinality(Whole(s)) =
               IF s = {} THEN 0 ELSE f[Some(s)] + Cardinality(Whole(s \ {Some(s)}))
  <2>1. CASE s = {}
    <3>1. Whole(s) = {} BY <2>1 DEF Together
    <3> QED BY <2>1, <3>1, FS_EmptySet
  <2>2. CASE s # {}
    <3> DEFINE x == Some(s)
               rest == Whole(s \ {x})
    <3>1. x \in s /\ x \in DOMAIN f BY <2>2 DEF Some
    <3> HIDE DEF x
    <3>2. Whole(s) = P[x] \cup rest BY <3>1 DEF Together
    <3>3. P[x] \cap rest = {} BY <3>1 DEF Together
    <3>4. P[x] \subseteq U /\ rest \subseteq U BY <3>1 DEF Together
    <3> HIDE DEF rest
    <3>5. IsFiniteSet(P[x]) /\ IsFiniteSet(rest) BY <3>4, FS_Subset
    <3>6. Cardinality(P[x] \cap rest) = 0 BY <3>3, FS_EmptySet
    <3>7. /\ Cardinality(P[x] \cup rest) = Cardinality(P[x]) + Cardinality(rest) - Cardinality(P[x] \cap rest)
          /\ Cardinality(P[x]) \in Nat /\ Cardinality(rest) \in Nat
      BY <3>5, FS_Union, FS_CardinalityType
    <3>8. f[x] = Cardinality(P[x]) BY <3>1
    <3>9. Cardinality(P[x] \cup rest) = f[x] + Cardinality(rest) BY <3>6, <3>7, <3>8
    <3>10. Cardinality(Whole(s)) = f[x] + Cardinality(rest) BY <3>2, <3>9
    <3> QED BY <2>2, <3>10 DEF x, rest
  <2> QED BY <2>1, <2>2
<1>2. \A s \in SUBSET DOMAIN f : s \ {Some(s)} \in SUBSET DOMAIN f OBVIOUS
<1> HIDE DEF Whole
<1>3. \A s \in SUBSET DOMAIN f : count[s] = Cardinality(Whole(s)) OBVIOUS
<1>4. Summing(f, count)
  <2>1. \A s \in SUBSET DOMAIN f :
           Cardinality(Whole(s)) = IF s = {} THEN 0 ELSE f[Some(s)] + count[s \ {Some(s)}]
    BY <1>1, <1>2, <1>3
  <2>2. count = [s \in SUBSET DOMAIN f |-> IF s = {} THEN 0 ELSE f[Some(s)] + count[s \ {Some(s)}]]
    <3> HIDE DEF count
    <3>1. count = [s \in SUBSET DOMAIN f |-> Cardinality(Whole(s))] BY DEF count
    <3> QED BY <2>1, <3>1
  <2> QED BY <2>2 DEF Summing
<1> DEFINE sum == CHOOSE g : Summing(f, g)
<1>5. SumFunction(f) = sum[DOMAIN f]
  BY DEF SumFunction, SumFunctionOnSet, FoldFunctionOnSet, MapThenFoldSet, Summing, Some
<1>6. Summing(f, sum) BY <1>4
<1> HIDE DEF count, sum
<1>7. sum[DOMAIN f] = count[DOMAIN f] BY <1>4, <1>6, SummedOnce
<1> QED BY <1>3, <1>5, <1>7 DEF Whole

(* What the analysis adds up *)

\* The rows of PluIng that join a PLU of this number and department.
JoiningRows(rows, key) == {i \in DOMAIN rows : HasKey(rows[i]) /\ JoinKey(rows[i]) = key}
KeyOf(plu) == <<plu.plu_number, plu.department_number>>

\* What a PLU counts of them is their number.
LEMMA JoinedCounted ==
  ASSUME NEW n \in Nat, NEW row, NEW dataset, DOMAIN dataset.ingredient_rows = 1 .. n
  PROVE  /\ KeyOf(NormalizedPlu(row, dataset)) = JoinKey(row)
         /\ NormalizedPlu(row, dataset).source_pluing_row_count
              = Cardinality(JoiningRows(dataset.ingredient_rows, JoinKey(row)))
<1> DEFINE rows == dataset.ingredient_rows
           S == JoiningRows(rows, JoinKey(row))
<1>1. S \subseteq 1 .. n BY DEF JoiningRows
<1>2. Joined(rows, JoinKey(row)) = AtPositions(rows, S) BY DEF Joined, JoiningRows
<1>3. /\ KeyOf(NormalizedPlu(row, dataset)) = JoinKey(row)
      /\ NormalizedPlu(row, dataset).source_pluing_row_count = Len(Joined(rows, JoinKey(row)))
  BY DEF KeyOf, NormalizedPlu, JoinKey
<1> HIDE DEF S, rows
<1>4. Cardinality(S) \in Nat BY <1>1, Countable
<1>5. AtPositions(rows, S) = [k \in 1 .. Cardinality(S) |-> rows[Place(S, k)]]
  BY DEF AtPositions, Place, UpTo
<1>6. Len(AtPositions(rows, S)) = Cardinality(S) BY <1>4, <1>5
<1> QED BY <1>2, <1>3, <1>6 DEF S, rows

\* A valid PLU is that of a row, and no other valid PLU has its number.
CountsJoining(plus, rows) ==
  /\ \A k \in DOMAIN plus :
        plus[k].source_pluing_row_count = Cardinality(JoiningRows(rows, KeyOf(plus[k])))
  /\ \A k, l \in DOMAIN plus : KeyOf(plus[k]) = KeyOf(plus[l]) => k = l

LEMMA ValidJoined ==
  ASSUME NEW n \in Nat, NEW dataset, DOMAIN dataset.plu_rows = 1 .. n,
         NEW m \in Nat, NEW rows, rows = dataset.ingredient_rows, DOMAIN rows = 1 .. m,
         NEW valid, valid = Validated(dataset).valid_plus
  PROVE  /\ Len(valid) \in Nat /\ DOMAIN valid = 1 .. Len(valid)
         /\ CountsJoining(valid, rows)
<1>0. PICK plus, S : plus = NormalizeDataset(dataset).plus /\ S = Normalizing(dataset) OBVIOUS
<1>1. valid = ValidPluCandidates(plus) BY <1>0 DEF Validated
<1>2. /\ Cardinality(S) \in Nat /\ DOMAIN plus = 1 .. Cardinality(S)
      /\ \A k \in DOMAIN plus : plus[k] = NormalizedPlu(dataset.plu_rows[Place(S, k)], dataset)
  BY <1>0, PlusInOrder
<1>3. PICK v \in Nat : /\ valid = [k \in 1 .. v |-> plus[Place(Remaining(plus), k)]]
                       /\ \A k \in 1 .. v : Place(Remaining(plus), k) \in Remaining(plus)
  BY <1>1, <1>2, CandidatesRemain
<1>4. Len(valid) = v /\ DOMAIN valid = 1 .. v BY <1>3
<1>5. ASSUME NEW k \in DOMAIN valid
      PROVE  valid[k].source_pluing_row_count
               = Cardinality(JoiningRows(rows, KeyOf(valid[k])))
  <2>1. PICK i \in DOMAIN plus : valid[k] = plus[i] BY <1>3, <1>4 DEF Remaining
  <2>2. valid[k] = NormalizedPlu(dataset.plu_rows[Place(S, i)], dataset) BY <1>2, <2>1
  <2> QED BY <2>2, JoinedCounted
<1>6. UnambiguousIn(plus, valid) BY <1>1, <1>2, CandidatesUnambiguous
<1>7. \A k, l \in DOMAIN valid : KeyOf(valid[k]) = KeyOf(valid[l]) => k = l
  BY <1>6 DEF UnambiguousIn, KeyOf
<1> QED BY <1>3, <1>4, <1>5, <1>7 DEF CountsJoining

\* The rows of PluIng that match a valid PLU.
MatchingRows(rows, valid) ==
  {i \in DOMAIN rows : HasKey(rows[i]) /\ JoinKey(rows[i]) \in KeysOf(valid)}

\* What each valid PLU counts of them; no row joins two.
CountedApart(rows, valid, counts) ==
  /\ \E m \in Nat : DOMAIN rows = 1 .. m
  /\ \E n \in Nat : DOMAIN valid = 1 .. n
  /\ DOMAIN counts = DOMAIN valid
  /\ \A k \in DOMAIN valid : counts[k] = Cardinality(JoiningRows(rows, KeyOf(valid[k])))
  /\ \A k, l \in DOMAIN valid : KeyOf(valid[k]) = KeyOf(valid[l]) => k = l

LEMMA MatchesAddUp ==
  ASSUME NEW rows, NEW valid, NEW counts, CountedApart(rows, valid, counts)
  PROVE  Cardinality(MatchingRows(rows, valid)) = SumFunction(counts)
<1> PICK m \in Nat : DOMAIN rows = 1 .. m BY DEF CountedApart
<1> PICK n \in Nat : DOMAIN valid = 1 .. n BY DEF CountedApart
<1> /\ DOMAIN counts = DOMAIN valid
    /\ \A k \in DOMAIN valid : counts[k] = Cardinality(JoiningRows(rows, KeyOf(valid[k])))
    /\ \A k, l \in DOMAIN valid : KeyOf(valid[k]) = KeyOf(valid[l]) => k = l
  BY DEF CountedApart
<1>0. PICK P : P = [k \in DOMAIN valid |-> JoiningRows(rows, KeyOf(valid[k]))] OBVIOUS
<1>1. IsFiniteSet(1 .. m) /\ IsFiniteSet(DOMAIN counts) BY FS_Interval
<1>2. \A k \in DOMAIN counts : P[k] \subseteq 1 .. m /\ counts[k] = Cardinality(P[k])
  BY <1>0 DEF JoiningRows
<1>3. \A k, l \in DOMAIN counts : k # l => P[k] \cap P[l] = {} BY <1>0 DEF JoiningRows
<1>4. MatchingRows(rows, valid) = Together(P, DOMAIN counts)
  <2>1. KeysOf(valid) = {KeyOf(valid[k]) : k \in DOMAIN valid} BY DEF KeysOf, KeyOf
  <2> QED BY <1>0, <2>1 DEF MatchingRows, JoiningRows, Together
<1>5. SumFunction(counts) = Cardinality(Together(P, DOMAIN counts))
  BY <1>1, <1>2, <1>3, SumOfParts
<1> QED BY <1>4, <1>5

\* The groups hold each PLU once.
LEMMA GroupsAddUp ==
  ASSUME NEW n \in Nat, NEW plus, DOMAIN plus = 1 .. n,
         NEW groups, groups = GroupRequirements(plus),
         NEW sizes, sizes = [g \in DOMAIN groups |-> groups[g].explicit + groups[g].defaulted]
  PROVE  SumFunction(sizes) = n
<1> DEFINE Members(g) == {j \in DOMAIN plus : GroupKey(plus[j]) = g}
<1>0. PICK P : P = [g \in DOMAIN groups |-> Members(g)] OBVIOUS
<1>1. DOMAIN groups = {GroupKey(plus[i]) : i \in DOMAIN plus} BY DEF GroupRequirements
<1>2. IsFiniteSet(1 .. n) /\ Cardinality(1 .. n) = n
  <2>1. Cardinality(1 .. n) = IF 1 > n THEN 0 ELSE n - 1 + 1 BY FS_Interval
  <2> QED BY <2>1, FS_Interval
<1>3. IsFiniteSet(DOMAIN groups)
  <2> DEFINE key == [i \in 1 .. n |-> GroupKey(plus[i])]
  <2>1. key \in Surjection(1 .. n, DOMAIN groups) BY <1>1 DEF Surjection
  <2> HIDE DEF key
  <2> QED BY <1>2, <2>1, FS_Surjection
<1>4. ASSUME NEW g \in DOMAIN groups PROVE sizes[g] = Cardinality(Members(g))
  <2> DEFINE explicit == {j \in Members(g) : ~plus[j].group_default_applied}
             defaulted == {j \in Members(g) : plus[j].group_default_applied}
  <2>1. groups[g].explicit = Cardinality(explicit) /\ groups[g].defaulted = Cardinality(defaulted)
    BY <1>1 DEF GroupRequirements
  <2>2. Members(g) = explicit \cup defaulted /\ explicit \cap defaulted = {} OBVIOUS
  <2>3. explicit \subseteq 1 .. n /\ defaulted \subseteq 1 .. n OBVIOUS
  <2> HIDE DEF explicit, defaulted, Members
  <2>4. IsFiniteSet(explicit) /\ IsFiniteSet(defaulted) BY <1>2, <2>3, FS_Subset
  <2>5. Cardinality(explicit \cap defaulted) = 0 BY <2>2, FS_EmptySet
  <2>6. /\ Cardinality(explicit \cup defaulted)
            = Cardinality(explicit) + Cardinality(defaulted) - Cardinality(explicit \cap defaulted)
        /\ Cardinality(explicit) \in Nat /\ Cardinality(defaulted) \in Nat
    BY <2>4, FS_Union, FS_CardinalityType
  <2>7. Cardinality(Members(g)) = Cardinality(explicit) + Cardinality(defaulted)
    BY <2>2, <2>5, <2>6
  <2> QED BY <2>1, <2>7
<1>5. DOMAIN sizes = DOMAIN groups OBVIOUS
<1>6. /\ \A g \in DOMAIN sizes : P[g] \subseteq 1 .. n /\ sizes[g] = Cardinality(P[g])
      /\ \A g, h \in DOMAIN sizes : g # h => P[g] \cap P[h] = {}
  BY <1>0, <1>4, <1>5
<1>7. Together(P, DOMAIN sizes) = 1 .. n
  <2>1. \A i \in 1 .. n : GroupKey(plus[i]) \in DOMAIN sizes /\ i \in P[GroupKey(plus[i])]
    BY <1>0, <1>1, <1>5
  <2>2. \A g \in DOMAIN sizes : P[g] \subseteq 1 .. n BY <1>6
  <2> QED BY <2>1, <2>2 DEF Together
<1>8. SumFunction(sizes) = Cardinality(Together(P, DOMAIN sizes))
  BY <1>2, <1>3, <1>5, <1>6, SumOfParts
<1> QED BY <1>2, <1>7, <1>8

\* The departments hold the numbers, and are those of the groups.
Agree(departments, groups, plus) ==
  /\ UNION {departments[d] : d \in DOMAIN departments} = Numbers(plus)
  /\ {g[1] : g \in DOMAIN groups} = DOMAIN departments

LEMMA DepartmentsAddUp ==
  ASSUME NEW plus, NEW groups, groups = GroupRequirements(plus),
         NEW departments, departments = DepartmentRequirements(plus)
  PROVE  Agree(departments, groups, plus)
<1>1. /\ DOMAIN departments = {plus[i].department_number : i \in DOMAIN plus}
      /\ \A d \in DOMAIN departments :
            departments[d] = {plus[i].plu_number : i \in {j \in DOMAIN plus : plus[j].department_number = d}}
  BY DEF DepartmentRequirements
<1>2. DOMAIN groups = {GroupKey(plus[i]) : i \in DOMAIN plus} BY DEF GroupRequirements
<1>3. \A d \in DOMAIN departments : departments[d] \subseteq Numbers(plus) BY <1>1 DEF Numbers
<1>4. ASSUME NEW i \in DOMAIN plus
      PROVE  /\ plus[i].department_number \in DOMAIN departments
             /\ plus[i].plu_number \in departments[plus[i].department_number]
  BY <1>1
<1>5. UNION {departments[d] : d \in DOMAIN departments} = Numbers(plus)
  BY <1>3, <1>4 DEF Numbers
<1>6. \A i \in DOMAIN plus : GroupKey(plus[i])[1] = plus[i].department_number BY DEF GroupKey
<1>7. {g[1] : g \in DOMAIN groups} = DOMAIN departments BY <1>1, <1>2, <1>6
<1> QED BY <1>5, <1>7 DEF Agree

LEMMA ReportAddsUp ==
  ASSUME PassInv, HasContext
  PROVE  ReportsAddUp
<1>0. HasPass BY DEF HasContext, HasPass
<1>1. PICK dataset, rows, valid : /\ dataset = run.context.dataset /\ rows = dataset.ingredient_rows
                                  /\ valid = ValidPlus
  OBVIOUS
<1>2. PICK counts, groups, sizes, departments :
         /\ counts = [i \in DOMAIN valid |-> valid[i].source_pluing_row_count]
         /\ groups = GroupRequirements(valid)
         /\ sizes = [g \in DOMAIN groups |-> groups[g].explicit + groups[g].defaulted]
         /\ departments = DepartmentRequirements(valid)
  OBVIOUS
<1>3. PICK n \in Nat : DOMAIN dataset.plu_rows = 1 .. n BY <1>0, <1>1, PassRead DEF Ordered
<1>4. PICK m \in Nat : DOMAIN rows = 1 .. m BY <1>0, <1>1, PassRead DEF Ordered
<1>5. valid = Validated(dataset).valid_plus BY <1>0, <1>1, PassRead DEF ValidPlus
<1>6. /\ Len(valid) \in Nat /\ DOMAIN valid = 1 .. Len(valid)
      /\ CountsJoining(valid, rows)
  BY <1>1, <1>3, <1>4, <1>5, ValidJoined
<1>7. IngredientAnalysis(run.context).rows_matched_to_valid_plus
        = Cardinality(MatchingRows(rows, valid))
  BY <1>1 DEF IngredientAnalysis, ValidPlus, MatchingRows
<1>8. IngredientAnalysis(run.context).rows_matched_to_valid_plus = SumFunction(counts)
  <2>1. CountedApart(rows, valid, counts)
    BY <1>2, <1>4, <1>6 DEF CountsJoining, CountedApart
  <2>2. Cardinality(MatchingRows(rows, valid)) = SumFunction(counts) BY <2>1, MatchesAddUp
  <2> QED BY <1>7, <2>2
<1>9. SumFunction(sizes) = Len(valid) BY <1>2, <1>6, GroupsAddUp
<1>10. Agree(departments, groups, valid) BY <1>2, DepartmentsAddUp
<1> QED BY <1>1, <1>2, <1>8, <1>9, <1>10 DEF ReportsAddUp, Agree

(* What analyze reports adds up for every table: a row of PluIng matches   *)
(* at most one valid PLU, because no two share a number, and each valid    *)
(* PLU is in the one group, and in the one department, that it names.      *)
THEOREM WhatIsReportedAddsUp == Spec => []ReportsAddUp
<1>1. ReadInv => ReportsAddUp BY ReportAddsUp DEF ReadInv, ReportsAddUp
<1> QED BY <1>1, AlwaysRead, PTL

=============================================================================

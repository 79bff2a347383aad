-------------------------- MODULE KeyTyping_proofs --------------------------
(***************************************************************************)
(* Proofs about modify_report() and its user, for every number of key      *)
(* slots, and every choice of keys and modifiers.                          *)
(***************************************************************************)
EXTENDS KeyTyping, NaturalsInduction, WellFoundedInduction, FiniteSetTheorems,
        SequenceTheorems, TLAPS

\* A set with 0 and the successor of each of its members holds them all.
LEMMA Induction ==
  ASSUME NEW set, 0 \in set, \A n \in Nat : n \in set => n + 1 \in set
  PROVE  Nat \subseteq set
<1> DEFINE Out == Nat \ set
           Less == OpToRel(<, Nat)
<1> SUFFICES ASSUME Out # {} PROVE FALSE
  OBVIOUS
<1>1. IsWellFoundedOn(Less, Nat)
  BY NatLessThanWellFounded
<1>2. \A m, n \in Nat : m < n => <<m, n>> \in Less
  BY DEF OpToRel
<1>3. Out \subseteq Nat
  OBVIOUS
<1> HIDE DEF Less, Out
<1>4. PICK n \in Out : \A m \in Out : ~(<<m, n>> \in Less)
  BY <1>1, <1>3, WFMin
<1> USE DEF Out
<1>5. n \in Nat /\ n # 0 /\ n - 1 \in Nat /\ n - 1 < n
  BY <1>4
<1>6. n - 1 \in set
  BY <1>2, <1>4, <1>5
<1>7. (n - 1) + 1 \in set
  BY <1>5, <1>6
<1> QED
  BY <1>4, <1>5, <1>7

\* A set of numbers has a least one, ...
LEMMA LeastExists ==
  ASSUME NEW set \in SUBSET Nat, set # {}
  PROVE  Min(set) \in set /\ \A n \in set : Min(set) <= n
<1> DEFINE Less == OpToRel(<, Nat)
<1>1. IsWellFoundedOn(Less, Nat)
  BY NatLessThanWellFounded
<1>2. \A m, n \in Nat : m < n => <<m, n>> \in Less
  BY DEF OpToRel
<1> HIDE DEF Less
<1>3. set \subseteq Nat /\ set # {}
  OBVIOUS
<1>4. PICK least \in set : \A n \in set : ~(<<n, least>> \in Less)
  BY <1>1, <1>3, WFMin
<1>5. \A n \in set : ~(n < least)
  BY <1>2, <1>3, <1>4
<1>6. \A n \in set : least <= n
  BY <1>3, <1>5
<1> QED
  BY <1>6 DEF Min

\* ... and one with a bound a greatest one.
LEMMA GreatestExists ==
  ASSUME NEW bound \in Nat, NEW set \in SUBSET (0 .. bound), set # {}
  PROVE  Max(set) \in set /\ \A n \in set : Max(set) >= n
<1> DEFINE Left == {bound - n : n \in set}
<1>1. Left \in SUBSET Nat /\ Left # {}
  <2>1. \A n \in 0 .. bound : bound - n \in Nat
    OBVIOUS
  <2>2. \A n \in set : bound - n \in Nat
    BY <2>1
  <2> QED
    BY <2>2
<1>2. Min(Left) \in Left /\ \A n \in Left : Min(Left) <= n
  <2> HIDE DEF Left
  <2> QED BY <1>1, LeastExists
<1>3. PICK greatest \in set : Min(Left) = bound - greatest
  BY <1>2
<1>4. \A n \in set : greatest >= n
  <2> TAKE n \in set
  <2>1. bound - greatest <= bound - n
    BY <1>2, <1>3
  <2> QED BY <2>1
<1> QED
  BY <1>4 DEF Max

-----------------------------------------------------------------------------
(***************************************************************************)
(* Ranks: Before(set, i) numbers the members of set from 0.                    *)
(***************************************************************************)
LEMMA RankIsNat ==
  ASSUME NEW set, IsFiniteSet(set), NEW i
  PROVE  /\ IsFiniteSet({j \in set : j < i})
         /\ Before(set, i) \in Nat /\ Before(set, i) <= Cardinality(set)
         /\ Cardinality(set) \in Nat
<1> DEFINE T == {j \in set : j < i}
<1>1. T \in SUBSET set
  OBVIOUS
<1> HIDE DEF T
<1>2. IsFiniteSet(T) /\ Cardinality(T) <= Cardinality(set)
  BY <1>1, FS_Subset
<1>3. Cardinality(T) \in Nat /\ Cardinality(set) \in Nat
  BY <1>2, FS_CardinalityType
<1> USE DEF T
<1> QED
  BY <1>2, <1>3 DEF Before

\* A member counts itself for those after it, ...
LEMMA RankGrows ==
  ASSUME NEW set \in SUBSET Nat, IsFiniteSet(set), NEW i \in set, NEW j \in Nat, i < j
  PROVE  Before(set, i) < Before(set, j)
<1> DEFINE T == {k \in set : k < i}
           U == {k \in set : k < j}
<1>1. T \in SUBSET U /\ i \in U /\ i \notin T
  <2>1. \A k \in Nat : k < i => k < j
    OBVIOUS
  <2>2. ~(i < i)
    OBVIOUS
  <2> QED
    BY <2>1, <2>2
<1>2. IsFiniteSet(U) /\ Cardinality(U) \in Nat /\ Cardinality(T) \in Nat
  BY RankIsNat DEF Before
<1> HIDE DEF T, U
<1>3. Cardinality(T) <= Cardinality(U) /\ Cardinality(T) # Cardinality(U)
  BY <1>1, <1>2, FS_Subset
<1> USE DEF T, U
<1> QED
  BY <1>2, <1>3 DEF Before

\* ... and for the whole set.
LEMMA RankIsSmaller ==
  ASSUME NEW set \in SUBSET Nat, IsFiniteSet(set), NEW i \in set
  PROVE  Before(set, i) < Cardinality(set)
<1> DEFINE T == {k \in set : k < i}
<1>1. T \in SUBSET set /\ i \notin T
  OBVIOUS
<1>2. Cardinality(set) \in Nat /\ Cardinality(T) \in Nat
  BY RankIsNat DEF Before
<1> HIDE DEF T
<1>3. Cardinality(T) <= Cardinality(set) /\ Cardinality(T) # Cardinality(set)
  BY <1>1, <1>2, FS_Subset
<1> USE DEF T
<1> QED
  BY <1>2, <1>3 DEF Before

\* Every rank is that of a member.
LEMMA RankIsTaken ==
  ASSUME NEW set \in SUBSET Nat, IsFiniteSet(set), NEW n \in Nat, n < Cardinality(set)
  PROVE  \E i \in set : Before(set, i) = n
<1> DEFINE Ranks == 0 .. Cardinality(set) - 1
           rank == [i \in set |-> Before(set, i)]
<1>1. Cardinality(set) \in Nat
  BY FS_CardinalityType
<1>2. IsFiniteSet(Ranks) /\ Cardinality(Ranks) = Cardinality(set)
  <2>1. 0 \in Int /\ Cardinality(set) - 1 \in Int
    BY <1>1
  <2>2. IF 0 > Cardinality(set) - 1 THEN 0 = Cardinality(set)
        ELSE (Cardinality(set) - 1) - 0 + 1 = Cardinality(set)
    BY <1>1
  <2> QED
    BY <2>1, <2>2, FS_Interval
<1>3. rank \in [set -> Ranks]
  <2> SUFFICES ASSUME NEW i \in set PROVE Before(set, i) \in Ranks
    OBVIOUS
  <2>1. Before(set, i) \in Nat
    BY RankIsNat
  <2>2. Before(set, i) < Cardinality(set)
    BY RankIsSmaller
  <2> QED
    BY <1>1, <2>1, <2>2
<1>4. \A i, j \in set : rank[i] = rank[j] => i = j
  <2> TAKE i, j \in set
  <2>1. Before(set, i) \in Nat /\ Before(set, j) \in Nat
    BY RankIsNat
  <2>2. i < j => Before(set, i) < Before(set, j)
    BY RankGrows
  <2>3. j < i => Before(set, j) < Before(set, i)
    BY RankGrows
  <2> QED
    BY <2>1, <2>2, <2>3
<1>5. rank \in Injection(set, Ranks)
  BY <1>3, <1>4 DEF Injection, IsInjective
<1> HIDE DEF rank, Ranks
<1>6. rank \in Surjection(set, Ranks)
  BY <1>2, <1>5, FS_Injection
<1>7. n \in Ranks
  BY <1>1 DEF Ranks
<1>8. PICK i \in set : rank[i] = n
  BY <1>6, <1>7 DEF Surjection
<1> QED
  BY <1>8 DEF rank

-----------------------------------------------------------------------------
(***************************************************************************)
(* modify_report_by_key_table().                                           *)
(***************************************************************************)
Table == [KeyIds -> UsageId]

LEMMA SlotsAreNat == KeyCount \in Nat /\ KeyCount > 0 /\ Slot \subseteq Nat
BY KeyCountAssumption DEF Slot

LEMMA FieldsOfReport ==
  ASSUME NEW report \in Report
  PROVE  /\ report.mod \subseteq ModifierKey /\ report.key \in [Slot -> UsageId]
         /\ report = [mod |-> report.mod, key |-> report.key]
BY DEF Report

\* Positions of the scan that are not skipped are numbers, they have an entry
\* in the table.
LEMMA ScanIsTyped ==
  ASSUME NEW table \in Table, NEW report \in Report
  PROVE  /\ Pressed(report) \subseteq Nat /\ IsFiniteSet(Pressed(report))
         /\ \A i \in Pressed(report) :
              ScanId(report, i) \in KeyIds /\ Image(table, report, i) \in UsageId
<1>1. IsFiniteSet(Scan) /\ Scan \subseteq Nat
  <2>1. 8 + KeyCount \in Int
    BY SlotsAreNat
  <2> QED
    BY <2>1, FS_Interval DEF Scan
<1>2. Pressed(report) \in SUBSET Scan
  BY DEF Pressed
<1>3. ASSUME NEW i \in Pressed(report)
      PROVE  ScanId(report, i) \in KeyIds
  <2>1. i \in 1 .. 8 + KeyCount /\ ScanId(report, i) # 0
    BY <1>3 DEF Pressed, Scan
  <2>2. CASE i <= 8
    BY <2>1, <2>2, SlotsAreNat DEF ScanId, PseudoUsageId, KeyIds
  <2>3. CASE ~(i <= 8)
    BY <2>1, <2>3, SlotsAreNat DEF ScanId, ValidUsageId, KeyIds
  <2> QED
    BY <2>2, <2>3
<1> QED
  BY <1>1, <1>2, <1>3, FS_Subset DEF Image, Table

\* The pressed keys that ask for a slot, and those of them that get one.
Filled(table, report) == Visited(table, report) \cap Normal(table, report)

LEMMA PositionsAreFinite ==
  ASSUME NEW table \in Table, NEW report \in Report
  PROVE  /\ Normal(table, report) \in SUBSET Nat /\ IsFiniteSet(Normal(table, report))
         /\ Filled(table, report) \in SUBSET Nat /\ IsFiniteSet(Filled(table, report))
         /\ Filled(table, report) \subseteq Pressed(report)
<1>1. /\ Normal(table, report) \in SUBSET Pressed(report)
      /\ Filled(table, report) \in SUBSET Pressed(report)
  BY DEF Filled, Normal, Visited
<1> QED
  BY <1>1, ScanIsTyped, FS_Subset

\* The scan does not stop between two keys that get a slot.
LEMMA RankAmongFilled ==
  ASSUME NEW table \in Table, NEW report \in Report, NEW i \in Filled(table, report)
  PROVE  /\ Before(Filled(table, report), i) = Before(Normal(table, report), i)
         /\ Before(Normal(table, report), i) \in 0 .. KeyCount - 1
<1> DEFINE N == Normal(table, report)
           F == Filled(table, report)
<1>1. N \in SUBSET Nat /\ IsFiniteSet(N) /\ i \in N /\ F \subseteq N
  BY PositionsAreFinite DEF Filled
<1>2. Before(N, i) \in Nat /\ Before(N, i) < KeyCount
  BY <1>1, RankIsNat DEF Filled, Visited
<1>3. ASSUME NEW j \in N, j < i
      PROVE  j \in F
  <2>1. i \in Nat /\ j \in Nat
    BY <1>1
  <2> HIDE DEF N, F
  <2>2. Before(N, j) < Before(N, i)
    BY <1>1, <1>3, <2>1, RankGrows
  <2>3. Before(N, j) \in Nat
    BY <1>1, RankIsNat
  <2>4. Before(N, j) < KeyCount
    BY <1>2, <2>2, <2>3, SlotsAreNat
  <2> QED
    BY <1>3, <2>4 DEF N, F, Filled, Visited, Normal
<1>4. {j \in F : j < i} = {j \in N : j < i}
  BY <1>1, <1>3
<1> QED
  BY <1>2, <1>4, SlotsAreNat DEF Before

LEMMA RanksDiffer ==
  ASSUME NEW set \in SUBSET Nat, IsFiniteSet(set), NEW i \in set, NEW j \in set,
         Before(set, i) = Before(set, j)
  PROVE  i = j
<1>1. Before(set, i) \in Nat /\ Before(set, j) \in Nat
  BY RankIsNat
<1>2. i < j => Before(set, i) < Before(set, j)
  BY RankGrows
<1>3. j < i => Before(set, j) < Before(set, i)
  BY RankGrows
<1> QED
  BY <1>1, <1>2, <1>3

\* Slot s holds the key of rank s - 1, if there is one.
Nth(table, report, s) ==
  {i \in Filled(table, report) : Before(Filled(table, report), i) = s - 1}

LEMMA SlotOfRank ==
  ASSUME NEW table \in Table, NEW report \in Report, NEW s \in Slot
  PROVE  modify_report_by_key_table(table, report).key[s] =
           IF Nth(table, report, s) = {} THEN 0
           ELSE Image(table, report, CHOOSE i \in Nth(table, report, s) : TRUE)
BY DEF modify_report_by_key_table, Nth, Filled

\* A slot holds nothing or a pressed key's image; every key that gets a slot
\* is in one; with enough keys there is no hole.
LEMMA SlotsHoldFilled ==
  ASSUME NEW table \in Table, NEW report \in Report
  PROVE  LET F == Filled(table, report)
             key == modify_report_by_key_table(table, report).key
         IN  /\ \A s \in Slot : key[s] = 0 \/ \E i \in F : key[s] = Image(table, report, i)
             /\ \A i \in F : \E s \in Slot : key[s] = Image(table, report, i)
             /\ Cardinality(Normal(table, report)) >= KeyCount =>
                  \A s \in Slot : \E i \in F : key[s] = Image(table, report, i)
<1> DEFINE F == Filled(table, report)
           N == Normal(table, report)
           key == modify_report_by_key_table(table, report).key
<1>1. \A s \in Slot :
        Nth(table, report, s) # {} => \E i \in Nth(table, report, s) : key[s] = Image(table, report, i)
  BY SlotOfRank
<1>2. \A s \in Slot : Nth(table, report, s) = {} => key[s] = 0
  BY SlotOfRank
<1>3. \A s \in Slot : Nth(table, report, s) \subseteq F
  BY DEF Nth
<1>4. ASSUME NEW i \in F
      PROVE  \E s \in Slot : key[s] = Image(table, report, i)
  <2> DEFINE s == Before(F, i) + 1
  <2>1. Before(F, i) \in 0 .. KeyCount - 1
    BY <1>4, RankAmongFilled
  <2>2. s \in Slot /\ s - 1 = Before(F, i)
    BY <2>1, SlotsAreNat DEF Slot
  <2> HIDE DEF s
  <2>3. i \in Nth(table, report, s)
    BY <1>4, <2>2 DEF Nth
  <2>4. PICK j \in Nth(table, report, s) : key[s] = Image(table, report, j)
    BY <1>1, <2>2, <2>3
  <2>5. j \in F /\ Before(F, j) = Before(F, i)
    BY <2>2, <2>4 DEF Nth
  <2>6. j = i
    BY <1>4, <2>5, PositionsAreFinite, RanksDiffer
  <2> QED
    BY <2>2, <2>4, <2>6
<1>5. ASSUME Cardinality(N) >= KeyCount, NEW s \in Slot
      PROVE  Nth(table, report, s) # {}
  <2>1. N \in SUBSET Nat /\ IsFiniteSet(N) /\ Cardinality(N) \in Nat
    BY PositionsAreFinite, FS_CardinalityType
  <2>2. s - 1 \in Nat /\ s - 1 < KeyCount /\ s - 1 < Cardinality(N)
    BY <1>5, <2>1, SlotsAreNat DEF Slot
  <2> HIDE DEF N
  <2>3. PICK i \in N : Before(N, i) = s - 1
    BY <2>1, <2>2, RankIsTaken
  <2>4. i \in F
    BY <2>2, <2>3 DEF N, Filled, Visited, Normal
  <2> QED
    BY <2>3, <2>4, RankAmongFilled DEF N, Nth
<1> QED
  BY <1>1, <1>2, <1>3, <1>4, <1>5

\* While slots are left the scan goes on to the end.
LEMMA ScanIsComplete ==
  ASSUME NEW table \in Table, NEW report \in Report
  PROVE  LET count == Cardinality(Normal(table, report))
         IN  /\ count <= KeyCount => Filled(table, report) = Normal(table, report)
             /\ count < KeyCount => Visited(table, report) = Pressed(report)
<1> DEFINE N == Normal(table, report)
<1>1. N \in SUBSET Nat /\ IsFiniteSet(N) /\ Cardinality(N) \in Nat
  BY PositionsAreFinite, FS_CardinalityType
<1>2. ASSUME NEW i \in Pressed(report)
      PROVE  /\ Before(N, i) \in Nat /\ Before(N, i) <= Cardinality(N)
             /\ i \in N => Before(N, i) < Cardinality(N)
  <2> HIDE DEF N
  <2> QED
    BY <1>1, RankIsNat, RankIsSmaller
<1>3. ASSUME Cardinality(N) <= KeyCount, NEW i \in N
      PROVE  i \in Visited(table, report)
  <2>1. i \in Pressed(report)
    BY <1>3 DEF Normal
  <2>2. Before(N, i) < KeyCount
    BY <1>1, <1>2, <1>3, <2>1, SlotsAreNat
  <2> QED
    BY <2>1, <2>2 DEF Visited
<1>4. ASSUME Cardinality(N) < KeyCount, NEW i \in Pressed(report)
      PROVE  i \in Visited(table, report)
  <2>1. Before(N, i) < KeyCount
    BY <1>1, <1>2, <1>4, SlotsAreNat
  <2> QED
    BY <1>4, <2>1 DEF Visited
<1> QED
  BY <1>3, <1>4 DEF Filled, Visited

LEMMA TableKeepsReport ==
  ASSUME NEW table \in Table, NEW report \in Report
  PROVE  modify_report_by_key_table(table, report) \in Report
<1> DEFINE r == modify_report_by_key_table(table, report)
<1>1. r.mod \subseteq ModifierKey
  BY DEF modify_report_by_key_table, ModifierBit
<1>2. r.key = [s \in Slot |-> r.key[s]]
  BY DEF modify_report_by_key_table
<1>3. \A s \in Slot : r.key[s] \in UsageId
  <2>1. \A i \in Filled(table, report) : Image(table, report, i) \in UsageId
    BY ScanIsTyped, PositionsAreFinite
  <2>2. 0 \in UsageId
    BY DEF UsageId
  <2> QED
    BY <2>1, <2>2, SlotsHoldFilled
<1>4. r = [mod |-> r.mod, key |-> r.key]
  BY DEF modify_report_by_key_table
<1> QED
  BY <1>1, <1>2, <1>3, <1>4 DEF Report

-----------------------------------------------------------------------------
(***************************************************************************)
(* Layout conversion.                                                      *)
(***************************************************************************)
Strokes == 0 .. 2 * S - 1
Character == 1 .. 95

LEMMA LayoutsAreTyped ==
  /\ ASCII_TO_JAPANESE_USAGEID \in [Character -> Strokes \ {0}]
  /\ ASCII_TO_ENGLISH_USAGEID \in [Character -> Strokes \ {0}]
<1>1. /\ ASCII_TO_JAPANESE_USAGEID \in Seq(1 .. 511)
      /\ Len(ASCII_TO_JAPANESE_USAGEID) = 95
  BY DEF ASCII_TO_JAPANESE_USAGEID, S
<1>2. /\ ASCII_TO_ENGLISH_USAGEID \in Seq(1 .. 511)
      /\ Len(ASCII_TO_ENGLISH_USAGEID) = 95
  BY DEF ASCII_TO_ENGLISH_USAGEID, S
<1>3. ASSUME NEW layout \in Seq(1 .. 511), Len(layout) = 95
      PROVE  layout \in [1 .. 95 -> 1 .. 511]
  <2>1. layout \in [1 .. Len(layout) -> 1 .. 511]
    BY LenProperties
  <2> QED
    BY <1>3, <2>1, Zenon
<1>4. 1 .. 95 = Character /\ 1 .. 511 = Strokes \ {0}
  BY DEF Character, Strokes, S
<1> QED
  BY <1>1, <1>2, <1>3, <1>4

LEMMA StrokeIsTyped ==
  ASSUME NEW id \in UsageId, NEW mods
  PROVE  Stroke(id, mods) \in Strokes
BY DEF Stroke, UsageId, Strokes, S

\* The characters that are looked up are in the tables; none is that of the
\* empty slot without modifiers.
LEMMA IndexIsTyped ==
  ASSUME NEW id \in UsageId, NEW mods
  PROVE  /\ ja_usageid_to_ascii_tableindex(id, mods) \subseteq Character
         /\ en_usageid_to_ascii_tableindex(id, mods) \subseteq Character
<1>1. Stroke(id, mods) \in 0 .. 2 * S - 1
  BY StrokeIsTyped DEF Strokes
<1>2. BackSlash \in Character
  BY DEF BackSlash, Character
<1>3. JapaneseChars[Stroke(id, mods)] \subseteq Character
  BY <1>1, LayoutsAreTyped DEF JapaneseChars, CharsOf
<1>4. EnglishChars[Stroke(id, mods)] \subseteq Character
  BY <1>1, LayoutsAreTyped DEF EnglishChars, CharsOf
<1> QED
  BY <1>2, <1>3, <1>4
  DEF ja_usageid_to_ascii_tableindex, en_usageid_to_ascii_tableindex

LEMMA EmptySlotHasNoCharacter ==
  /\ ja_usageid_to_ascii_tableindex(0, {}) = {}
  /\ en_usageid_to_ascii_tableindex(0, {}) = {}
<1>1. Stroke(0, {}) = 0 /\ 0 \in 0 .. 2 * S - 1
  BY DEF Stroke, IsShifted, S
<1>2. JapaneseChars[0] = {} /\ EnglishChars[0] = {}
  BY <1>1, LayoutsAreTyped DEF JapaneseChars, EnglishChars, CharsOf, Strokes
<1> QED
  BY <1>1, <1>2 DEF ja_usageid_to_ascii_tableindex, en_usageid_to_ascii_tableindex

LEMMA RestrokeIsTyped ==
  ASSUME NEW layout \in [Character -> Strokes \ {0}], NEW index \in SUBSET Character,
         NEW id \in UsageId, NEW mods \in SUBSET ModifierKey
  PROVE  /\ Restroke(layout, index, id, mods).id \in UsageId
         /\ Restroke(layout, index, id, mods).mod \in SUBSET ModifierKey
<1>1. CASE index = {}
  BY <1>1 DEF Restroke
<1>2. CASE index # {}
  <2>1. index \in SUBSET Nat
    BY DEF Character
  <2>2. Min(index) \in index
    BY <1>2, <2>1, LeastExists
  <2>3. layout[Min(index)] \in Strokes
    BY <2>2
  <2>4. layout[Min(index)] < S => layout[Min(index)] \in UsageId
    BY <2>3 DEF Strokes, S, UsageId
  <2>5. ~(layout[Min(index)] < S) => layout[Min(index)] - S \in UsageId
    BY <2>3 DEF Strokes, S, UsageId
  <2>6. LeftShift \in ModifierKey
    BY DEF LeftShift, ModifierKey
  <2> DEFINE stroke == layout[Min(index)]
  <2>7. CASE stroke < S
    BY <1>2, <2>4, <2>7 DEF Restroke
  <2>8. CASE ~(stroke < S)
    BY <1>2, <2>5, <2>6, <2>8 DEF Restroke
  <2> QED
    BY <2>7, <2>8
<1> QED
  BY <1>1, <1>2

\* What is converted, in either direction, and the step of the loop over the
\* slots.
Converting == {"ja_to_en", "en_to_ja"}

Converted(mode, id, mods) ==
  IF mode = "ja_to_en" THEN ja_to_en_usage_id(id, mods) ELSE en_to_ja_usage_id(id, mods)

SlotConverted(mode, r, n) ==
  [mod |-> Converted(mode, r.key[n], r.mod).mod,
   key |-> [r.key EXCEPT ![n] = Converted(mode, r.key[n], r.mod).id]]

ReportConverted(mode, report) ==
  IF mode = "ja_to_en" THEN convert_ja_report_to_en(report) ELSE convert_en_report_to_ja(report)

LEMMA SlotStepIsTyped ==
  ASSUME NEW mode, NEW r \in Report, NEW n \in Slot
  PROVE  SlotConverted(mode, r, n) \in Report
<1> DEFINE c == Converted(mode, r.key[n], r.mod)
<1>1. r.mod \in SUBSET ModifierKey /\ r.key \in [Slot -> UsageId] /\ r.key[n] \in UsageId
  BY FieldsOfReport
<1>2. /\ ja_to_en_usage_id(r.key[n], r.mod).id \in UsageId
      /\ ja_to_en_usage_id(r.key[n], r.mod).mod \in SUBSET ModifierKey
  BY <1>1, IndexIsTyped, LayoutsAreTyped, RestrokeIsTyped DEF ja_to_en_usage_id
<1>3. /\ en_to_ja_usage_id(r.key[n], r.mod).id \in UsageId
      /\ en_to_ja_usage_id(r.key[n], r.mod).mod \in SUBSET ModifierKey
  BY <1>1, IndexIsTyped, LayoutsAreTyped, RestrokeIsTyped DEF en_to_ja_usage_id
<1>4. c.id \in UsageId /\ c.mod \in SUBSET ModifierKey
  BY <1>2, <1>3 DEF Converted
<1> HIDE DEF c
<1>5. [mod |-> c.mod, key |-> [r.key EXCEPT ![n] = c.id]] \in Report
  BY <1>1, <1>4 DEF Report
<1> QED
  BY <1>5 DEF SlotConverted, c

LEMMA SlotStepKeepsZero ==
  ASSUME NEW mode, NEW n \in Slot
  PROVE  SlotConverted(mode, ZeroReport, n) = ZeroReport
<1>1. /\ ja_to_en_usage_id(0, {}) = [id |-> 0, mod |-> {}]
      /\ en_to_ja_usage_id(0, {}) = [id |-> 0, mod |-> {}]
  BY EmptySlotHasNoCharacter DEF ja_to_en_usage_id, en_to_ja_usage_id, Restroke
<1>2. /\ ZeroReport.mod = {} /\ ZeroReport.key[n] = 0
      /\ [ZeroReport.key EXCEPT ![n] = 0] = ZeroReport.key
      /\ ZeroReport = [mod |-> {}, key |-> ZeroReport.key]
  BY DEF ZeroReport
<1> QED
  BY <1>1, <1>2 DEF SlotConverted, Converted

\* The values that a loop of n steps goes through: it has a result.
IsLoop(f, n, start, step) ==
  \A i \in 0 .. n : f[i] = IF i = 0 THEN start ELSE step[i][f[i - 1]]

LEMMA LoopExists ==
  ASSUME NEW n \in Nat, NEW set, NEW start \in set, NEW step \in [1 .. n -> [set -> set]]
  PROVE  \E f \in [0 .. n -> set] : IsLoop(f, n, start, step)
<1> DEFINE Result(m, f) == IsLoop(f, m, start, step)
           Reached == {m \in Nat : m <= n => \E f \in [0 .. m -> set] : Result(m, f)}
<1>1. 0 \in Reached
  <2>1. [i \in 0 .. 0 |-> start] \in [0 .. 0 -> set] /\ Result(0, [i \in 0 .. 0 |-> start])
    BY DEF IsLoop
  <2> HIDE DEF Result
  <2> QED
    BY <2>1
<1>2. ASSUME NEW m \in Nat, m \in Reached, m + 1 <= n
      PROVE  \E f \in [0 .. m + 1 -> set] : Result(m + 1, f)
  <2>1. m <= n /\ m + 1 \in 1 .. n
    BY <1>2
  <2>2. PICK f \in [0 .. m -> set] : Result(m, f)
    <3> HIDE DEF Result
    <3> QED BY <1>2, <2>1
  <2> DEFINE g == [i \in 0 .. m + 1 |-> IF i = m + 1 THEN step[m + 1][f[m]] ELSE f[i]]
  <2>3. step[m + 1][f[m]] \in set
    BY <2>1
  <2>4. g \in [0 .. m + 1 -> set]
    BY <2>3
  <2>5. \A i \in 0 .. m : g[i] = f[i] /\ (i # 0 => g[i - 1] = f[i - 1])
    OBVIOUS
  <2>6. g[m + 1] = step[m + 1][g[m]] /\ m + 1 - 1 = m /\ m + 1 # 0
    OBVIOUS
  <2> HIDE DEF g
  <2>7. ASSUME NEW i \in 0 .. m + 1
        PROVE  g[i] = IF i = 0 THEN start ELSE step[i][g[i - 1]]
    <3>1. CASE i = m + 1
      BY <2>6, <3>1
    <3>2. CASE i # m + 1
      <4>1. i \in 0 .. m
        BY <3>2
      <4>2. f[i] = IF i = 0 THEN start ELSE step[i][f[i - 1]]
        BY <2>2, <4>1 DEF IsLoop
      <4> QED
        BY <2>5, <4>1, <4>2
    <3> QED
      BY <3>1, <3>2
  <2> QED
    BY <2>4, <2>7 DEF IsLoop
<1> HIDE DEF Result
<1>3. Nat \subseteq Reached
  <2>1. \A m \in Nat : m \in Reached => m + 1 \in Reached
    BY <1>2
  <2> HIDE DEF Reached
  <2> QED
    BY <1>1, <2>1, Induction
<1>4. \E f \in [0 .. n -> set] : Result(n, f)
  BY <1>3
<1> QED
  BY <1>4 DEF Result

\* The loop has a result, that of the steps in turn; ...
LEMMA ConversionLoops ==
  ASSUME NEW mode \in Converting, NEW set, NEW report \in set,
         \A r \in set, n \in Slot : SlotConverted(mode, r, n) \in set
  PROVE  \E f \in [0 .. KeyCount -> set] :
           /\ f[0] = report
           /\ \A n \in Slot : f[n] = SlotConverted(mode, f[n - 1], n)
<1> DEFINE step == [n \in 1 .. KeyCount |-> [r \in set |-> SlotConverted(mode, r, n)]]
<1>1. KeyCount \in Nat /\ Slot = 1 .. KeyCount
  BY SlotsAreNat DEF Slot
<1>2. step \in [1 .. KeyCount -> [set -> set]]
  BY <1>1
<1>3. \A n \in 1 .. KeyCount, r \in set : step[n][r] = SlotConverted(mode, r, n)
  OBVIOUS
<1> HIDE DEF step
<1>4. PICK f \in [0 .. KeyCount -> set] : IsLoop(f, KeyCount, report, step)
  BY <1>1, <1>2, LoopExists
<1>5. \A n \in 0 .. KeyCount : f[n] = IF n = 0 THEN report ELSE step[n][f[n - 1]]
  BY <1>4 DEF IsLoop
<1>6. f[0] = report /\ \A n \in Slot : f[n] = SlotConverted(mode, f[n - 1], n)
  <2>1. 0 \in 0 .. KeyCount
    BY <1>1
  <2>2. \A n \in Slot : n \in 0 .. KeyCount /\ n # 0 /\ n - 1 \in 0 .. KeyCount
    BY <1>1
  <2> QED
    BY <1>1, <1>3, <1>5, <2>1, <2>2
<1> QED
  BY <1>6

\* ... and no other.
LEMMA LoopIsUnique ==
  ASSUME NEW n \in Nat, NEW f, NEW g, f[0] = g[0],
         \A i \in 1 .. n : f[i - 1] = g[i - 1] => f[i] = g[i]
  PROVE  f[n] = g[n]
<1> DEFINE same == {m \in Nat : m <= n => f[m] = g[m]}
<1>1. 0 \in same
  OBVIOUS
<1>2. ASSUME NEW m \in Nat, m \in same
      PROVE  m + 1 \in same
  <2>1. CASE m + 1 <= n
    <3>1. m + 1 \in 1 .. n /\ (m + 1) - 1 = m /\ f[m] = g[m]
      BY <1>2, <2>1
    <3>2. f[m + 1] = g[m + 1]
      BY <3>1
    <3> QED
      BY <3>2
  <2>2. CASE ~(m + 1 <= n)
    BY <2>2
  <2> QED
    BY <2>1, <2>2
<1>3. Nat \subseteq same
  <2> HIDE DEF same
  <2> QED BY <1>1, <1>2, Induction
<1> QED
  BY <1>3

LEMMA LoopIs ==
  ASSUME NEW mode \in Converting, NEW report, NEW h, h[0] = report,
         \A n \in Slot : h[n] = SlotConverted(mode, h[n - 1], n)
  PROVE  ReportConverted(mode, report) = h[KeyCount]
<1> DEFINE f == [n \in 0 .. KeyCount |-> h[n]]
           loop == CHOOSE g : g = [n \in 0 .. KeyCount |->
                                     IF n = 0 THEN report ELSE SlotConverted(mode, g[n - 1], n)]
<1>1. KeyCount \in Nat /\ Slot = 1 .. KeyCount
  BY SlotsAreNat DEF Slot
<1>2. \A n \in 0 .. KeyCount :
        f[n] = IF n = 0 THEN report ELSE SlotConverted(mode, f[n - 1], n)
  <2>1. \A n \in 0 .. KeyCount : n # 0 => n \in Slot /\ n - 1 \in 0 .. KeyCount
    BY <1>1
  <2> QED
    BY <2>1
<1>3. f = [n \in 0 .. KeyCount |-> IF n = 0 THEN report ELSE SlotConverted(mode, f[n - 1], n)]
  <2>1. f = [n \in 0 .. KeyCount |-> f[n]]
    OBVIOUS
  <2> HIDE DEF f
  <2> QED
    BY <1>2, <2>1
<1>4. loop = [n \in 0 .. KeyCount |-> IF n = 0 THEN report ELSE SlotConverted(mode, loop[n - 1], n)]
  BY <1>3
<1>5. mode = "ja_to_en" => convert_ja_report_to_en(report) = loop[KeyCount]
  BY DEF convert_ja_report_to_en, ConvertReport, SlotConverted, Converted
<1>6. mode = "en_to_ja" => convert_en_report_to_ja(report) = loop[KeyCount]
  BY DEF convert_en_report_to_ja, ConvertReport, SlotConverted, Converted
<1> HIDE DEF loop
<1>7. \A n \in 0 .. KeyCount :
        loop[n] = IF n = 0 THEN report ELSE SlotConverted(mode, loop[n - 1], n)
  BY <1>4
<1>8. /\ loop[0] = h[0]
      /\ \A n \in 1 .. KeyCount : loop[n - 1] = h[n - 1] => loop[n] = h[n]
  <2>1. 0 \in 0 .. KeyCount
    BY <1>1
  <2>2. loop[0] = h[0]
    BY <1>7, <2>1
  <2>3. \A n \in 1 .. KeyCount : n \in 0 .. KeyCount /\ n # 0 /\ n \in Slot
    BY <1>1
  <2> QED
    BY <1>7, <2>2, <2>3
<1>9. loop[KeyCount] = h[KeyCount]
  BY <1>1, <1>8, LoopIsUnique
<1> QED
  BY <1>5, <1>6, <1>9 DEF ReportConverted, Converting

\* Every set of reports that the conversion of a slot keeps is kept by the
\* conversion of the report.
LEMMA ConversionKeeps ==
  ASSUME NEW mode \in Converting, NEW set, NEW report \in set,
         \A r \in set, n \in Slot : SlotConverted(mode, r, n) \in set
  PROVE  ReportConverted(mode, report) \in set
<1>1. PICK f \in [0 .. KeyCount -> set] :
        /\ f[0] = report
        /\ \A n \in Slot : f[n] = SlotConverted(mode, f[n - 1], n)
  BY ConversionLoops
<1>2. ReportConverted(mode, report) = f[KeyCount]
  BY <1>1, LoopIs
<1> QED
  BY <1>1, <1>2, SlotsAreNat

LEMMA ConversionKeepsReport ==
  ASSUME NEW mode \in Converting, NEW report \in Report
  PROVE  ReportConverted(mode, report) \in Report
BY SlotStepIsTyped, ConversionKeeps

LEMMA ZeroIsReport == ZeroReport \in Report
BY DEF ZeroReport, Report, UsageId

LEMMA ConversionKeepsZero ==
  ASSUME NEW mode \in Converting
  PROVE  ReportConverted(mode, ZeroReport) = ZeroReport
<1> DEFINE set == {ZeroReport}
<1>1. ZeroReport \in set /\ \A r \in set, n \in Slot : SlotConverted(mode, r, n) \in set
  BY SlotStepKeepsZero
<1>2. \A r \in set : r = ZeroReport
  OBVIOUS
<1> HIDE DEF set
<1> QED
  BY <1>1, <1>2, ConversionKeeps

LEMMA ModifyKeepsReport ==
  ASSUME NEW table \in Table, NEW mode \in LangMode, NEW report \in Report
  PROVE  modify_report(table, mode, report) \in Report
BY TableKeepsReport, ConversionKeepsReport DEF modify_report, LangMode, ReportConverted, Converting

LEMMA ModifyKeepsZero ==
  ASSUME NEW table \in Table, NEW mode \in LangMode
  PROVE  modify_report(table, mode, ZeroReport) = ZeroReport
<1>1. Pressed(ZeroReport) = {}
  BY SlotsAreNat DEF Pressed, Scan, ScanId, ZeroReport, Slot, ValidUsageId
<1>2. Visited(table, ZeroReport) = {} /\ Filled(table, ZeroReport) = {}
  BY <1>1 DEF Visited, Filled
<1>3. modify_report_by_key_table(table, ZeroReport) = ZeroReport
  <2> DEFINE r == modify_report_by_key_table(table, ZeroReport)
  <2>1. r.mod = {}
    BY <1>2 DEF modify_report_by_key_table
  <2>2. \A s \in Slot : r.key[s] = 0
    BY <1>2, SlotsHoldFilled, ZeroIsReport
  <2>3. r \in Report
    BY TableKeepsReport, ZeroIsReport
  <2> HIDE DEF r
  <2>4. r.key \in [Slot -> UsageId] /\ r = [mod |-> r.mod, key |-> r.key]
    BY <2>3, FieldsOfReport
  <2>5. r.key = [s \in Slot |-> 0]
    BY <2>2, <2>4
  <2> QED
    BY <2>1, <2>4, <2>5 DEF r, ZeroReport
<1> QED
  BY <1>3, ConversionKeepsZero DEF modify_report, ReportConverted, Converting

-----------------------------------------------------------------------------
(***************************************************************************)
(* The user: types, and that the last report is what modify_report() makes *)
(* of the keys held, with the table and the mode of now.                   *)
(***************************************************************************)
Distinct(keys) == \A i, j \in DOMAIN keys : keys[i] = keys[j] => i = j

KeysOK ==
  /\ down \in Seq(TypedKeys) /\ Len(down) <= MaxDown /\ Distinct(down)
  /\ mod \in SUBSET TypedMods
  /\ pressed \in Physical \cup {NoKey}

TablesOK ==
  /\ keyTable \in Table /\ langMode \in LangMode
  /\ wish \in [Physical -> Physical] /\ hasty \in BOOLEAN

HeldIsSent == dst = modify_report(keyTable, langMode, KeyboardReport(down, mod))

Inv == KeysOK /\ TablesOK /\ HeldIsSent

LEMMA KeyboardReportIsTyped ==
  ASSUME NEW keys \in Seq(TypedKeys), NEW mods \in SUBSET TypedMods
  PROVE  KeyboardReport(keys, mods) \in Report
<1>1. TypedKeys \subseteq UsageId /\ TypedMods \subseteq ModifierKey /\ 0 \in UsageId
  BY TypingAssumption DEF ValidUsageId, UsageId
<1>2. ASSUME NEW s \in Slot
      PROVE  (IF s <= Len(keys) THEN keys[s] ELSE 0) \in UsageId
  <2>1. s \in Nat /\ s > 0 /\ Len(keys) \in Nat
    BY SlotsAreNat, LenProperties DEF Slot
  <2> QED
    BY <1>1, <2>1
<1> QED
  BY <1>1, <1>2 DEF KeyboardReport, Report

LEMMA NoKeysAreZero == KeyboardReport(<<>>, {}) = ZeroReport
<1>1. \A s \in Slot : ~(s <= Len(<<>>))
  BY SlotsAreNat DEF Slot
<1> QED
  BY <1>1 DEF KeyboardReport, ZeroReport

\* extract_one_key_from_report() gives a usage id, ...
LEMMA ExtractIsTyped ==
  ASSUME NEW report \in Report
  PROVE  extract_one_key_from_report(report) \in UsageId
<1> DEFINE used == {s \in Slot : report.key[s] \in ValidUsageId}
<1>1. report.key \in [Slot -> UsageId] /\ report.mod \subseteq ModifierKey
  BY FieldsOfReport
<1>2. CASE used # {}
  <2>1. used \in SUBSET (0 .. KeyCount) /\ KeyCount \in Nat
    BY SlotsAreNat DEF Slot
  <2>2. Max(used) \in used
    <3> HIDE DEF used
    <3> QED BY <1>2, <2>1, GreatestExists
  <2>3. report.key[Max(used)] \in UsageId
    BY <1>1, <2>2
  <2> QED
    BY <1>2, <2>3 DEF extract_one_key_from_report
<1>3. CASE used = {} /\ report.mod # {}
  <2>1. report.mod \in SUBSET Nat
    BY <1>1 DEF ModifierKey
  <2>2. Min(report.mod) \in ModifierKey
    BY <1>1, <1>3, <2>1, LeastExists
  <2>3. PseudoUsageId(Min(report.mod)) \in UsageId
    BY <2>2 DEF PseudoUsageId, ModifierKey, UsageId
  <2> QED
    BY <1>3, <2>3 DEF extract_one_key_from_report
<1>4. CASE used = {} /\ report.mod = {}
  BY <1>4 DEF extract_one_key_from_report, UsageId
<1> QED
  BY <1>2, <1>3, <1>4

LEMMA PhysicalIsTyped ==
  ASSUME NEW p \in Physical
  PROVE  \/ p[1] = "key" /\ p[2] \in TypedKeys /\ p = Key(p[2])
         \/ p[1] = "mod" /\ p[2] \in TypedMods /\ p = Mod(p[2])
BY DEF Physical, Key, Mod

\* What is held when a key is entered.
EntryHeld == [keys : Seq(TypedKeys), mods : SUBSET TypedMods]

LEMMA WithIsTyped ==
  ASSUME NEW held \in EntryHeld, NEW p \in Physical
  PROVE  With(held, p) \in EntryHeld
<1>1. held.keys \in Seq(TypedKeys) /\ held.mods \in SUBSET TypedMods
  BY DEF EntryHeld
<1>2. CASE p[1] = "key"
  <2>1. Append(held.keys, p[2]) \in Seq(TypedKeys)
    BY <1>1, <1>2, PhysicalIsTyped, AppendProperties
  <2> QED
    BY <1>1, <1>2, <2>1 DEF With, EntryHeld
<1>3. CASE p[1] = "mod"
  <2>1. held.mods \cup {p[2]} \in SUBSET TypedMods
    BY <1>1, <1>3, PhysicalIsTyped
  <2> QED
    BY <1>1, <1>3, <2>1 DEF With, EntryHeld
<1> QED
  BY <1>2, <1>3, PhysicalIsTyped

LEMMA EntryIsTyped ==
  ASSUME NEW held \in EntryHeld, NEW p \in Physical
  PROVE  EntryReport(held, p) \in Report
<1>1. With(held, p).keys \in Seq(TypedKeys) /\ With(held, p).mods \in SUBSET TypedMods
  BY WithIsTyped DEF EntryHeld
<1> QED
  BY <1>1, KeyboardReportIsTyped DEF EntryReport

\* A key less.
LEMMA WithoutIsTyped ==
  ASSUME NEW keys \in Seq(TypedKeys), NEW i \in DOMAIN keys
  PROVE  Without(keys, i) \in Seq(TypedKeys)
<1>1. /\ Len(keys) \in Nat /\ DOMAIN keys = 1 .. Len(keys)
      /\ keys \in [1 .. Len(keys) -> TypedKeys]
  BY LenProperties
<1>2. Len(keys) - 1 \in Nat
  BY <1>1
<1>3. \A j \in 1 .. Len(keys) - 1 : j \in 1 .. Len(keys) /\ j + 1 \in 1 .. Len(keys)
  BY <1>1
<1>4. Without(keys, i) \in [1 .. Len(keys) - 1 -> TypedKeys]
  BY <1>1, <1>3 DEF Without
<1> QED
  BY <1>2, <1>4

LEMMA ReleasesAreTyped ==
  ASSUME NEW held \in EntryHeld
  PROVE  Releases(held) \subseteq Report
<1>1. held.keys \in Seq(TypedKeys) /\ held.mods \in SUBSET TypedMods
  BY DEF EntryHeld
<1>2. \A i \in DOMAIN held.keys : KeyboardReport(Without(held.keys, i), held.mods) \in Report
  BY <1>1, WithoutIsTyped, KeyboardReportIsTyped
<1>3. \A m \in held.mods : KeyboardReport(held.keys, held.mods \ {m}) \in Report
  BY <1>1, KeyboardReportIsTyped
<1> QED
  BY <1>2, <1>3 DEF Releases

LEMMA HeldIsTyped == Inv => Nothing \in EntryHeld /\ HeldNow \in EntryHeld
BY DEF Nothing, HeldNow, EntryHeld, Inv, KeysOK

LEMMA DefaultTableIsTyped == DefaultKeyTable \in Table
BY DEF DefaultKeyTable, Table, KeyIds, UsageId

LEMMA Starts == Init => Inv
<1> SUFFICES ASSUME Init PROVE Inv
  OBVIOUS
<1>1. KeysOK
  <2>1. down = <<>> /\ <<>> \in Seq(TypedKeys) /\ Len(<<>>) = 0 /\ DOMAIN <<>> = {}
    BY DEF Init
  <2> QED
    BY <2>1, TypingAssumption DEF Init, KeysOK, Distinct
<1>2. TablesOK
  BY DefaultTableIsTyped DEF Init, TablesOK, LangMode
<1>3. HeldIsSent
  <2>1. KeyboardReport(down, mod) = ZeroReport /\ dst = ZeroReport
    BY NoKeysAreZero DEF Init
  <2> QED
    BY <1>2, <2>1, ModifyKeepsZero DEF HeldIsSent, TablesOK
<1> QED
  BY <1>1, <1>2, <1>3 DEF Inv

\* A key goes down or up.
LEMMA SendKeepsInv ==
  ASSUME Inv, NEW keys \in Seq(TypedKeys), Len(keys) <= MaxDown, Distinct(keys),
         NEW mods \in SUBSET TypedMods, NEW cause \in Physical \cup {NoKey},
         Send(keys, mods, cause)
  PROVE  Inv'
BY DEF Inv, Send, Convert, KeysOK, TablesOK, HeldIsSent

LEMMA PressIsTyped ==
  ASSUME Inv, NEW u \in TypedKeys, \A i \in DOMAIN down : down[i] # u, Len(down) < MaxDown
  PROVE  /\ Append(down, u) \in Seq(TypedKeys)
         /\ Len(Append(down, u)) <= MaxDown /\ Distinct(Append(down, u))
<1>1. down \in Seq(TypedKeys) /\ Distinct(down)
  BY DEF Inv, KeysOK
<1>2. Len(down) \in Nat /\ DOMAIN down = 1 .. Len(down) /\ MaxDown \in Nat
  BY <1>1, LenProperties, TypingAssumption, SlotsAreNat
<1> DEFINE keys == Append(down, u)
<1>3. /\ keys \in Seq(TypedKeys) /\ Len(keys) = Len(down) + 1
      /\ \A i \in 1 .. Len(down) : keys[i] = down[i]
      /\ keys[Len(down) + 1] = u
  BY <1>1, AppendProperties
<1>4. DOMAIN keys = 1 .. Len(down) + 1
  BY <1>3, LenProperties
<1> HIDE DEF keys
<1>5. ASSUME NEW i \in DOMAIN keys, NEW j \in DOMAIN keys, keys[i] = keys[j]
      PROVE  i = j
  <2>1. i \in 1 .. Len(down) \/ i = Len(down) + 1
    BY <1>2, <1>4
  <2>2. j \in 1 .. Len(down) \/ j = Len(down) + 1
    BY <1>2, <1>4
  <2>3. \A k \in 1 .. Len(down) : keys[k] # u
    BY <1>2, <1>3
  <2> QED
    BY <1>1, <1>2, <1>3, <1>5, <2>1, <2>2, <2>3 DEF Distinct
<1> QED
  BY <1>2, <1>3, <1>5 DEF Distinct, keys

LEMMA ReleaseIsTyped ==
  ASSUME Inv, NEW i \in DOMAIN down
  PROVE  LET keys == [j \in 1 .. Len(down) - 1 |-> IF j < i THEN down[j] ELSE down[j + 1]]
         IN  keys \in Seq(TypedKeys) /\ Len(keys) <= MaxDown /\ Distinct(keys)
<1> DEFINE keys == [j \in 1 .. Len(down) - 1 |-> IF j < i THEN down[j] ELSE down[j + 1]]
<1>1. down \in Seq(TypedKeys) /\ Distinct(down) /\ Len(down) <= MaxDown
  BY DEF Inv, KeysOK
<1>2. /\ Len(down) \in Nat /\ DOMAIN down = 1 .. Len(down) /\ MaxDown \in Nat
      /\ down \in [1 .. Len(down) -> TypedKeys]
  BY <1>1, LenProperties, TypingAssumption, SlotsAreNat
<1>3. i \in 1 .. Len(down) /\ Len(down) - 1 \in Nat
  BY <1>2
<1>4. \A j \in 1 .. Len(down) - 1 : j \in 1 .. Len(down) /\ j + 1 \in 1 .. Len(down)
  BY <1>2
<1>5. keys \in [1 .. Len(down) - 1 -> TypedKeys]
  BY <1>2, <1>4
<1>6. keys \in Seq(TypedKeys) /\ Len(keys) = Len(down) - 1
  BY <1>3, <1>5
<1>7. ASSUME NEW j \in 1 .. Len(down) - 1, NEW k \in 1 .. Len(down) - 1, keys[j] = keys[k]
      PROVE  j = k
  <2> DEFINE old(n) == IF n < i THEN n ELSE n + 1
  <2>1. keys[j] = down[old(j)] /\ keys[k] = down[old(k)]
    OBVIOUS
  <2>2. old(j) \in DOMAIN down /\ old(k) \in DOMAIN down
    BY <1>2, <1>4
  <2> HIDE DEF keys
  <2>3. old(j) = old(k)
    <3> HIDE DEF old
    <3> QED BY <1>1, <1>7, <2>1, <2>2 DEF Distinct
  <2> QED
    BY <1>3, <2>3
<1>8. DOMAIN keys = 1 .. Len(down) - 1
  OBVIOUS
<1> HIDE DEF keys
<1>9. Len(keys) <= MaxDown /\ Distinct(keys)
  BY <1>1, <1>2, <1>6, <1>7, <1>8 DEF Distinct
<1> QED
  BY <1>6, <1>9 DEF keys

\* The other commands are done while no key is held: the PC has the zero report.
LEMMA ConfigureKeepsInv ==
  ASSUME Inv, Configure, TablesOK'
  PROVE  Inv'
<1>1. dst' = ZeroReport
  BY NoKeysAreZero, ModifyKeepsZero DEF Inv, TablesOK, HeldIsSent, Configure
<1>2. modify_report(keyTable', langMode', ZeroReport) = ZeroReport
  BY ModifyKeepsZero DEF TablesOK
<1>3. KeyboardReport(down', mod') = ZeroReport
  BY NoKeysAreZero DEF Configure
<1>4. HeldIsSent'
  BY <1>1, <1>2, <1>3 DEF HeldIsSent
<1>5. KeysOK'
  BY DEF Inv, KeysOK, Configure
<1> QED
  BY <1>4, <1>5 DEF Inv

\* When the update command is over, whatever it read, the PC gets the zero
\* report.
LEMMA UpdateKeepsInv ==
  ASSUME Inv, NEW first \in Report, NEW second \in Report, update_key_table(first, second),
         wish' \in [Physical -> Physical], hasty' \in BOOLEAN
  PROVE  Inv' /\ struck' = {} /\ pressed' = NoKey
<1>1. keyTable \in Table /\ langMode \in LangMode
  BY DEF Inv, TablesOK
<1>2. extract_one_key_from_report(second) \in UsageId
  BY ExtractIsTyped
<1>3. TablesOK'
  BY <1>1, <1>2 DEF update_key_table, Convert, TablesOK, Table
<1>4. /\ down' = <<>> /\ mod' = {} /\ pressed' = NoKey /\ langMode' = langMode
      /\ dst' = modify_report(keyTable', langMode, ZeroReport)
      /\ struck' = {<<u, IsShifted(dst'.mod)>> : u \in Ids(dst') \ Ids(dst)}
  BY NoKeysAreZero DEF update_key_table, Convert
<1>5. dst' = ZeroReport
  BY <1>3, <1>4, ModifyKeepsZero DEF TablesOK
<1>6. Ids(dst') = {}
  BY <1>5 DEF Ids, ZeroReport
<1>7. KeysOK'
  <2>1. <<>> \in Seq(TypedKeys) /\ Len(<<>>) = 0 /\ DOMAIN <<>> = {}
    OBVIOUS
  <2> QED
    BY <1>4, <2>1, TypingAssumption DEF KeysOK, Distinct
<1>8. HeldIsSent'
  BY <1>3, <1>4, <1>5, NoKeysAreZero, ModifyKeepsZero DEF HeldIsSent, TablesOK
<1> QED
  BY <1>3, <1>4, <1>6, <1>7, <1>8 DEF Inv

\* The keys of an Update.
LEMMA UpdateIsTyped ==
  ASSUME Inv, Update
  PROVE  \E p, q \in Physical, a, b \in EntryHeld :
           /\ CanPress(a, p) /\ MayEnter(a, p)
           /\ CanPress(b, q) /\ MayEnter(b, q)
           /\ update_key_table(EntryReport(a, p), EntryReport(b, q))
           /\ wish' = [wish EXCEPT ![p] = q] /\ hasty' = hasty
<1> DEFINE Does(p, q, a, b) ==
             /\ CanPress(a, p) /\ MayEnter(a, p)
             /\ CanPress(b, q) /\ MayEnter(b, q)
             /\ update_key_table(EntryReport(a, p), EntryReport(b, q))
             /\ wish' = [wish EXCEPT ![p] = q] /\ hasty' = hasty
<1>1. PICK p \in Physical, q \in Physical :
        \E a \in {Nothing, HeldNow} : \E b \in {Nothing, With(a, p)} : Does(p, q, a, b)
  BY DEF Update
<1> HIDE DEF Does
<1>2. PICK a \in {Nothing, HeldNow} : \E b \in {Nothing, With(a, p)} : Does(p, q, a, b)
  BY <1>1
<1>3. PICK b \in {Nothing, With(a, p)} : Does(p, q, a, b)
  BY <1>2
<1>4. a \in EntryHeld /\ b \in EntryHeld
  BY HeldIsTyped, WithIsTyped
<1>5. \E x, y \in Physical, c, d \in EntryHeld : Does(x, y, c, d)
  BY <1>3, <1>4
<1> QED
  BY <1>5 DEF Does

\* The reports of an UpdateInHaste.
LEMMA HasteIsTyped ==
  ASSUME Inv, UpdateInHaste
  PROVE  \E first, second \in Report :
           update_key_table(first, second) /\ wish' = wish /\ hasty' = TRUE
<1>1. PICK p \in Physical, q \in Physical, a \in {Nothing, HeldNow} :
        \E b \in {Nothing, With(a, p)} :
          \E first \in {EntryReport(a, p)} \cup Releases(a),
             second \in {EntryReport(b, q)} \cup Releases(With(a, p)) :
            update_key_table(first, second) /\ wish' = wish /\ hasty' = TRUE
  BY DEF UpdateInHaste
<1>2. PICK b \in {Nothing, With(a, p)} :
        \E first \in {EntryReport(a, p)} \cup Releases(a),
           second \in {EntryReport(b, q)} \cup Releases(With(a, p)) :
          update_key_table(first, second) /\ wish' = wish /\ hasty' = TRUE
  BY <1>1
<1>3. a \in EntryHeld /\ With(a, p) \in EntryHeld /\ b \in EntryHeld
  BY HeldIsTyped, WithIsTyped
<1>4. {EntryReport(a, p)} \cup Releases(a) \subseteq Report
  BY <1>3, EntryIsTyped, ReleasesAreTyped
<1>5. {EntryReport(b, q)} \cup Releases(With(a, p)) \subseteq Report
  BY <1>3, EntryIsTyped, ReleasesAreTyped
<1> QED
  BY <1>2, <1>4, <1>5

LEMMA EntriesKeepInv ==
  ASSUME Inv, Update \/ UpdateInHaste
  PROVE  Inv' /\ struck' = {} /\ pressed' = NoKey
<1>1. wish \in [Physical -> Physical] /\ hasty \in BOOLEAN
  BY DEF Inv, TablesOK
<1>2. CASE Update
  <2>1. PICK p \in Physical, q \in Physical, a \in EntryHeld, b \in EntryHeld :
          /\ update_key_table(EntryReport(a, p), EntryReport(b, q))
          /\ wish' = [wish EXCEPT ![p] = q] /\ hasty' = hasty
    BY <1>2, UpdateIsTyped
  <2>2. EntryReport(a, p) \in Report /\ EntryReport(b, q) \in Report
    BY EntryIsTyped
  <2> QED
    BY <1>1, <2>1, <2>2, UpdateKeepsInv
<1>3. CASE UpdateInHaste
  BY <1>1, <1>3, HasteIsTyped, UpdateKeepsInv
<1> QED
  BY <1>2, <1>3

LEMMA CommandKeepsInv ==
  ASSUME Inv,
         \/ Update \/ UpdateInHaste \/ reset_key_table
         \/ \E mode \in Modes : set_lang_convert_mode(mode)
  PROVE  Inv'
<1>1. /\ keyTable \in Table /\ langMode \in LangMode
      /\ wish \in [Physical -> Physical] /\ hasty \in BOOLEAN
  BY DEF Inv, TablesOK
<1>2. CASE Update \/ UpdateInHaste
  BY <1>2, EntriesKeepInv
<1>3. CASE reset_key_table
  <2>1. TablesOK'
    BY <1>1, <1>3, DefaultTableIsTyped DEF reset_key_table, TablesOK
  <2> QED
    BY <1>3, <2>1, ConfigureKeepsInv DEF reset_key_table
<1>4. ASSUME NEW mode \in Modes, set_lang_convert_mode(mode)
      PROVE  Inv'
  <2>1. TablesOK'
    BY <1>1, <1>4, TypingAssumption DEF set_lang_convert_mode, TablesOK
  <2> QED
    BY <1>4, <2>1, ConfigureKeepsInv DEF set_lang_convert_mode
<1> QED
  BY <1>2, <1>3, <1>4

LEMMA TypingKeepsInv ==
  ASSUME Inv,
         \/ \E u \in TypedKeys : Press(u)
         \/ \E m \in TypedMods : PressModifier(m) \/ ReleaseModifier(m)
         \/ \E i \in DOMAIN down : Release(i)
  PROVE  Inv'
<1>1. down \in Seq(TypedKeys) /\ Len(down) <= MaxDown /\ Distinct(down) /\ mod \in SUBSET TypedMods
  BY DEF Inv, KeysOK
<1>2. NoKey \in Physical \cup {NoKey}
  OBVIOUS
<1>3. ASSUME NEW u \in TypedKeys, Press(u)
      PROVE  Inv'
  <2>1. Key(u) \in Physical \cup {NoKey}
    BY DEF Physical
  <2> QED
    BY <1>1, <1>3, <2>1, PressIsTyped, SendKeepsInv DEF Press
<1>4. ASSUME NEW m \in TypedMods, PressModifier(m)
      PROVE  Inv'
  <2>1. Mod(m) \in Physical \cup {NoKey} /\ mod \cup {m} \in SUBSET TypedMods
    BY <1>1 DEF Physical
  <2> QED
    BY <1>1, <1>4, <2>1, SendKeepsInv DEF PressModifier
<1>5. ASSUME NEW m \in TypedMods, ReleaseModifier(m)
      PROVE  Inv'
  <2>1. mod \ {m} \in SUBSET TypedMods
    BY <1>1
  <2> QED
    BY <1>1, <1>2, <1>5, <2>1, SendKeepsInv DEF ReleaseModifier
<1>6. ASSUME NEW i \in DOMAIN down, Release(i)
      PROVE  Inv'
  BY <1>1, <1>2, <1>6, ReleaseIsTyped, SendKeepsInv DEF Release, Without
<1> QED
  BY <1>3, <1>4, <1>5, <1>6

LEMMA StutterKeepsInv == Inv /\ UNCHANGED vars => Inv'
BY DEF Inv, KeysOK, TablesOK, HeldIsSent, vars

LEMMA TypingInvariant == Spec => []Inv
<1>1. Inv /\ [Next]_vars => Inv'
  <2> SUFFICES ASSUME Inv, Next PROVE Inv'
    BY StutterKeepsInv
  <2> QED
    BY TypingKeepsInv, CommandKeepsInv DEF Next
<1> QED
  BY <1>1, Starts, PTL DEF Spec

\* modify_report() never leaves a byte or a slot with a value it cannot
\* have, whatever is converted: key table, layouts and reports keep their
\* types.
THEOREM TypeCorrect == Spec => []TypeOK
<1>1. Inv => TypeOK
  <2> SUFFICES ASSUME Inv PROVE TypeOK
    OBVIOUS
  <2>1. dst \in Report
    BY KeyboardReportIsTyped, ModifyKeepsReport DEF Inv, KeysOK, TablesOK, HeldIsSent
  <2>2. \A i \in DOMAIN down : down[i] \in TypedKeys
    BY LenProperties DEF Inv, KeysOK
  <2> QED
    BY <2>1, <2>2 DEF Inv, KeysOK, TablesOK, Table, TypeOK
<1> QED
  BY <1>1, TypingInvariant, PTL

-----------------------------------------------------------------------------
(***************************************************************************)
(* The wishes: the key table holds what the user entered, if nothing was   *)
(* entered in haste.  The entry of the last modifier key is not set by     *)
(* set_default_to_key_table().                                             *)
(***************************************************************************)
Id(p) == IF p[1] = "mod" THEN PseudoUsageId(p[2]) ELSE p[2]

TableIsWished == \A p \in Physical : keyTable[Id(p)] = Id(wish[p])

EntriesOK == ~hasty => TableIsWished

LEMMA IdIsTyped ==
  ASSUME NEW p \in Physical
  PROVE  /\ Id(p) \in KeyIds
         /\ p[1] = "key" => Id(p) = p[2] /\ Id(p) \in ValidUsageId /\ ~IsModifierId(Id(p))
         /\ p[1] = "mod" => /\ p[2] \in ModifierKey /\ Id(p) = p[2] + \hE8
                            /\ IsModifierId(Id(p)) /\ ModifierBit(Id(p)) = {p[2]}
<1>1. CASE p[1] = "key"
  <2>1. Id(p) = p[2] /\ p[2] \in ValidUsageId
    BY <1>1, PhysicalIsTyped, TypingAssumption DEF Id
  <2> QED
    BY <1>1, <2>1 DEF ValidUsageId, KeyIds, IsModifierId
<1>2. CASE p[1] = "mod"
  <2>1. Id(p) = p[2] + \hE8 /\ p[2] \in ModifierKey
    BY <1>2, PhysicalIsTyped, TypingAssumption DEF Id, PseudoUsageId
  <2>2. Id(p) - \hE8 = p[2]
    BY <2>1 DEF ModifierKey
  <2>3. ModifierBit(Id(p)) = {p[2]}
    BY <2>1, <2>2, Zenon DEF ModifierBit
  <2> QED
    BY <1>2, <2>1, <2>3 DEF KeyIds, IsModifierId, ModifierKey
<1> QED
  BY <1>1, <1>2, PhysicalIsTyped

LEMMA IdIsUnique ==
  ASSUME NEW p \in Physical, NEW q \in Physical, Id(p) = Id(q)
  PROVE  p = q
<1>1. p[1] = "key" => Id(p) = p[2] /\ ~IsModifierId(Id(p))
  BY IdIsTyped
<1>2. q[1] = "key" => Id(q) = q[2] /\ ~IsModifierId(Id(q))
  BY IdIsTyped
<1>3. p[1] = "mod" => p[2] \in ModifierKey /\ Id(p) = p[2] + \hE8 /\ IsModifierId(Id(p))
  BY IdIsTyped
<1>4. q[1] = "mod" => q[2] \in ModifierKey /\ Id(q) = q[2] + \hE8 /\ IsModifierId(Id(q))
  BY IdIsTyped
<1>5. p[1] = q[1] /\ p[1] \in {"key", "mod"}
  BY <1>1, <1>2, <1>3, <1>4, PhysicalIsTyped
<1>6. p[2] = q[2]
  BY <1>1, <1>2, <1>3, <1>4, <1>5 DEF ModifierKey
<1> QED
  BY <1>5, <1>6, PhysicalIsTyped

\* A command reads the key that the user enters, also while others are held.
LEMMA EntryIsRead ==
  ASSUME NEW held \in EntryHeld, NEW p \in Physical, CanPress(held, p), MayEnter(held, p)
  PROVE  extract_one_key_from_report(EntryReport(held, p)) = Id(p)
<1> DEFINE report == EntryReport(held, p)
           used == {s \in Slot : report.key[s] \in ValidUsageId}
           n == Len(held.keys)
<1>1. KeyCount \in Nat /\ 0 \notin ValidUsageId /\ TypedKeys \subseteq ValidUsageId
  BY SlotsAreNat, TypingAssumption DEF ValidUsageId
<1>2. held.keys \in Seq(TypedKeys) /\ held.mods \subseteq ModifierKey /\ n \in Nat
  BY TypingAssumption, LenProperties DEF EntryHeld
<1>3. CASE p[1] = "mod"
  <2>1. report = KeyboardReport(<<>>, held.mods \cup {p[2]}) /\ \A m \in held.mods : p[2] < m
    BY <1>3 DEF EntryReport, With, MayEnter
  <2>2. \A s \in Slot : report.key[s] = 0
    BY <2>1, SlotsAreNat DEF KeyboardReport, Slot
  <2>3. report.mod = held.mods \cup {p[2]} /\ report.mod \in SUBSET Nat /\ p[2] \in Nat
    BY <1>2, <1>3, <2>1, IdIsTyped DEF KeyboardReport, ModifierKey
  <2>4. used = {} /\ report.mod # {}
    BY <1>1, <2>2, <2>3
  <2>5. Min(report.mod) = p[2]
    <3> DEFINE mods == report.mod
    <3>1. mods = held.mods \cup {p[2]} /\ mods \in SUBSET Nat /\ mods # {}
      BY <2>3, <2>4
    <3> HIDE DEF mods
    <3>2. Min(mods) \in mods /\ \A m \in mods : Min(mods) <= m
      BY <3>1, LeastExists
    <3> DEFINE least == Min(mods)
    <3>3. least \in mods /\ least <= p[2] /\ least \in Nat
      BY <3>1, <3>2
    <3> HIDE DEF least
    <3>4. least = p[2]
      BY <2>1, <2>3, <3>1, <3>3
    <3> QED
      BY <3>4 DEF least, mods
  <2> QED
    BY <1>3, <2>4, <2>5 DEF extract_one_key_from_report, Id
<1>4. CASE p[1] = "key"
  <2> DEFINE keys == Append(held.keys, p[2])
  <2>1. report = KeyboardReport(keys, held.mods) /\ p[2] \in TypedKeys /\ n < KeyCount
    BY <1>4, PhysicalIsTyped DEF EntryReport, With, CanPress
  <2>2. Len(keys) = n + 1 /\ keys[n + 1] = p[2]
    BY <1>2, <2>1, AppendProperties
  <2> HIDE DEF keys
  <2>3. n + 1 \in Slot /\ report.key[n + 1] = p[2] /\ \A s \in Slot : s > n + 1 => report.key[s] = 0
    BY <1>1, <1>2, <2>1, <2>2, SlotsAreNat DEF KeyboardReport, Slot
  <2>4. n + 1 \in used /\ \A s \in used : s <= n + 1
    BY <1>1, <1>2, <2>1, <2>3 DEF Slot
  <2>5. Max(used) = n + 1
    <3>1. used \in SUBSET (0 .. KeyCount) /\ \A s \in used : s <= n + 1 /\ s \in Nat
      BY <1>1, <2>4 DEF Slot
    <3> HIDE DEF used
    <3>2. Max(used) \in used /\ Max(used) >= n + 1
      BY <1>1, <2>4, <3>1, GreatestExists
    <3> DEFINE greatest == Max(used)
    <3>3. greatest <= n + 1 /\ greatest >= n + 1 /\ greatest \in Nat
      BY <3>1, <3>2
    <3> HIDE DEF greatest
    <3>4. greatest = n + 1
      BY <1>2, <3>3
    <3> QED
      BY <3>4 DEF greatest
  <2> QED
    BY <1>4, <2>3, <2>4, <2>5 DEF extract_one_key_from_report, Id
<1> QED
  BY <1>3, <1>4, PhysicalIsTyped

LEMMA DefaultIsWished ==
  ASSUME 7 \notin TypedMods, NEW p \in Physical
  PROVE  DefaultKeyTable[Id(p)] = Id(p)
<1>1. Id(p) \in KeyIds /\ Id(p) < \hE7 + 8
  <2>1. CASE p[1] = "key"
    BY <2>1, IdIsTyped DEF ValidUsageId, KeyIds
  <2>2. CASE p[1] = "mod"
    <3>1. p[2] # 7
      BY <2>2, PhysicalIsTyped
    <3> QED
      BY <2>2, <3>1, IdIsTyped DEF ModifierKey
  <2> QED
    BY <2>1, <2>2, PhysicalIsTyped
<1> QED
  BY <1>1 DEF DefaultKeyTable

LEMMA WishedStarts == 7 \notin TypedMods /\ Init => EntriesOK
BY DefaultIsWished DEF Init, TableIsWished, EntriesOK

LEMMA WishedKept ==
  ASSUME 7 \notin TypedMods, Inv, EntriesOK, [Next]_vars
  PROVE  EntriesOK'
<1>1. keyTable \in [KeyIds -> UsageId] /\ wish \in [Physical -> Physical]
  BY DEF Inv, TablesOK, Table
<1>2. CASE UNCHANGED <<keyTable, wish, hasty>>
  BY <1>2 DEF TableIsWished, EntriesOK
<1>3. CASE Update /\ ~hasty
  <2>1. PICK p \in Physical, q \in Physical :
          keyTable' = [keyTable EXCEPT ![Id(p)] = Id(q)] /\ wish' = [wish EXCEPT ![p] = q]
    <3>1. PICK p \in Physical, q \in Physical, a \in EntryHeld, b \in EntryHeld :
            /\ CanPress(a, p) /\ MayEnter(a, p)
            /\ CanPress(b, q) /\ MayEnter(b, q)
            /\ update_key_table(EntryReport(a, p), EntryReport(b, q))
            /\ wish' = [wish EXCEPT ![p] = q]
      BY <1>3, UpdateIsTyped
    <3> QED
      BY <3>1, EntryIsRead DEF update_key_table
  <2>2. ASSUME NEW r \in Physical
        PROVE  keyTable'[Id(r)] = Id(wish'[r])
    <3>1. CASE r = p
      BY <1>1, <2>1, <3>1, IdIsTyped
    <3>2. CASE r # p
      <4>1. Id(r) # Id(p) /\ Id(r) \in KeyIds
        BY <3>2, IdIsUnique, IdIsTyped
      <4> QED
        BY <1>1, <1>3, <2>1, <3>2, <4>1 DEF TableIsWished, EntriesOK
    <3> QED
      BY <3>1, <3>2
  <2> QED
    BY <2>2 DEF TableIsWished, EntriesOK
<1>4. CASE reset_key_table
  BY <1>4, DefaultIsWished DEF reset_key_table, TableIsWished, EntriesOK
<1>5. CASE hasty'
  BY <1>5 DEF EntriesOK
<1>6. CASE Update /\ hasty
  BY <1>6, UpdateIsTyped DEF EntriesOK
<1>7. CASE UpdateInHaste
  BY <1>7, HasteIsTyped DEF EntriesOK
<1> QED
  BY <1>2, <1>3, <1>4, <1>5, <1>6, <1>7
  DEF Next, vars, Press, PressModifier, Release, ReleaseModifier, Send, Convert, set_lang_convert_mode

LEMMA WishedInvariant ==
  ASSUME 7 \notin TypedMods
  PROVE  Spec => []EntriesOK
<1>1. Inv /\ EntriesOK /\ [Next]_vars => EntriesOK'
  BY WishedKept
<1>2. Init => EntriesOK
  BY WishedStarts
<1> QED
  BY <1>1, <1>2, TypingInvariant, PTL DEF Spec

-----------------------------------------------------------------------------
(***************************************************************************)
(* The keys held and the positions of the scan.                            *)
(***************************************************************************)
Now == KeyboardReport(down, mod)
At(i) == IF i <= 8 THEN Mod(i - 1) ELSE Key(down[i - 8])

LEMMA HeldIsPhysical ==
  ASSUME Inv
  PROVE  Held \subseteq Physical
<1>1. down \in [DOMAIN down -> TypedKeys] /\ mod \in SUBSET TypedMods
  BY LenProperties DEF Inv, KeysOK
<1> QED
  BY <1>1 DEF Held, Physical

\* A position is pressed if it is that of a modifier or of a key held.
LEMMA PressedIsHeld ==
  ASSUME Inv
  PROVE  /\ \A i \in Pressed(Now) :
              \/ i <= 8 /\ i \in Nat /\ i - 1 \in mod
              \/ ~(i <= 8) /\ i \in Nat /\ i - 8 \in DOMAIN down
         /\ \A i \in Pressed(Now) : At(i) \in Held /\ ScanId(Now, i) = Id(At(i))
         /\ \A p \in Held : \E i \in Pressed(Now) : At(i) = p
<1>1. /\ down \in [1 .. Len(down) -> TypedKeys] /\ DOMAIN down = 1 .. Len(down)
      /\ Len(down) \in Nat /\ mod \in SUBSET (0 .. 7)
      /\ TypedKeys \subseteq ValidUsageId /\ 0 \notin ValidUsageId
  BY LenProperties, TypingAssumption DEF Inv, KeysOK, ModifierKey, ValidUsageId
<1>2. Len(down) <= KeyCount /\ KeyCount \in Nat
  BY <1>1, TypingAssumption, SlotsAreNat DEF Inv, KeysOK
<1>3. Now.mod = mod /\ \A s \in 1 .. KeyCount : Now.key[s] = IF s <= Len(down) THEN down[s] ELSE 0
  BY DEF Now, KeyboardReport, Slot
<1>4. ASSUME NEW i \in Scan, i <= 8
      PROVE  /\ i \in Nat
             /\ ScanId(Now, i) # 0 <=> i - 1 \in mod
             /\ i - 1 \in mod => ScanId(Now, i) = Id(At(i)) /\ At(i) = Mod(i - 1)
  <2>1. i \in 1 .. 8
    BY <1>2, <1>4 DEF Scan
  <2>2. ScanId(Now, i) = IF i - 1 \in mod THEN PseudoUsageId(i - 1) ELSE 0
    BY <1>3, <1>4 DEF ScanId
  <2>3. PseudoUsageId(i - 1) # 0
    BY <2>1 DEF PseudoUsageId
  <2>4. At(i) = Mod(i - 1) /\ Id(Mod(i - 1)) = PseudoUsageId(i - 1)
    BY <1>4 DEF At, Id, Mod
  <2> QED
    BY <2>1, <2>2, <2>3, <2>4
<1>5. ASSUME NEW i \in Scan, ~(i <= 8)
      PROVE  /\ i \in Nat
             /\ ScanId(Now, i) # 0 <=> i - 8 \in DOMAIN down
             /\ i - 8 \in DOMAIN down => ScanId(Now, i) = Id(At(i)) /\ At(i) = Key(down[i - 8])
  <2>1. i \in Nat /\ i - 8 \in 1 .. KeyCount
    BY <1>2, <1>5 DEF Scan
  <2>2. i - 8 \in DOMAIN down <=> i - 8 <= Len(down)
    BY <1>1, <2>1
  <2>3. i - 8 \in DOMAIN down => down[i - 8] \in ValidUsageId /\ down[i - 8] # 0
    BY <1>1
  <2>4. i - 8 \in DOMAIN down => ScanId(Now, i) = down[i - 8]
    BY <1>3, <1>5, <2>1, <2>2, <2>3 DEF ScanId
  <2>5. i - 8 \notin DOMAIN down => ScanId(Now, i) = 0
    BY <1>1, <1>3, <1>5, <2>1, <2>2 DEF ScanId
  <2>6. At(i) = Key(down[i - 8]) /\ Id(At(i)) = down[i - 8]
    BY <1>5 DEF At, Id, Key
  <2> QED
    BY <2>1, <2>3, <2>4, <2>5, <2>6
<1>6. \A i \in Pressed(Now) : i \in Scan /\ ScanId(Now, i) # 0
  BY DEF Pressed
<1>7. \A i \in Pressed(Now) : At(i) \in Held
  BY <1>4, <1>5, <1>6 DEF Held
<1>8. ASSUME NEW p \in Held
      PROVE  \E i \in Pressed(Now) : At(i) = p
  <2>1. CASE \E m \in mod : p = Mod(m)
    <3>1. PICK m \in mod : p = Mod(m)
      BY <2>1
    <3>2. m + 1 \in Scan /\ m + 1 <= 8 /\ (m + 1) - 1 = m
      BY <1>1, <1>2 DEF Scan
    <3>3. m + 1 \in Pressed(Now) /\ At(m + 1) = p
      BY <1>4, <3>1, <3>2 DEF Pressed
    <3> QED
      BY <3>3
  <2>2. CASE \E k \in DOMAIN down : p = Key(down[k])
    <3>1. PICK k \in DOMAIN down : p = Key(down[k])
      BY <2>2
    <3>2. k + 8 \in Scan /\ ~(k + 8 <= 8) /\ (k + 8) - 8 = k
      BY <1>1, <1>2 DEF Scan
    <3>3. k + 8 \in Pressed(Now) /\ At(k + 8) = p
      BY <1>5, <3>1, <3>2 DEF Pressed
    <3> QED
      BY <3>3
  <2> QED
    BY <1>8, <2>1, <2>2 DEF Held
<1> QED
  BY <1>4, <1>5, <1>6, <1>7, <1>8

LEMMA PositionIsUnique ==
  ASSUME Inv, NEW i \in Pressed(Now), NEW j \in Pressed(Now), At(i) = At(j)
  PROVE  i = j
<1>1. Distinct(down)
  BY DEF Inv, KeysOK
<1>2. i \in Nat /\ j \in Nat
  BY PressedIsHeld
<1>3. CASE i <= 8 /\ j <= 8
  <2>1. i - 1 = j - 1
    BY <1>3 DEF At, Mod
  <2> QED
    BY <1>2, <2>1
<1>4. CASE ~(i <= 8) /\ ~(j <= 8)
  <2>1. down[i - 8] = down[j - 8] /\ i - 8 \in DOMAIN down /\ j - 8 \in DOMAIN down
    BY <1>4, PressedIsHeld DEF At, Key
  <2>2. i - 8 = j - 8
    BY <1>1, <2>1 DEF Distinct
  <2> QED
    BY <1>2, <2>2
<1>5. CASE (i <= 8) # (j <= 8)
  BY <1>5 DEF At, Key, Mod
<1> QED
  BY <1>3, <1>4, <1>5

\* What the table makes of a position is what the user wants for the key
\* there; it asks for a slot if that is a key.
LEMMA ImageIsWished ==
  ASSUME Inv, TableIsWished, NEW i \in Pressed(Now)
  PROVE  /\ At(i) \in Held /\ wish[At(i)] \in Physical
         /\ Image(keyTable, Now, i) = Id(wish[At(i)])
         /\ i \in Normal(keyTable, Now) <=> wish[At(i)][1] = "key"
<1>1. At(i) \in Held /\ At(i) \in Physical
  BY PressedIsHeld, HeldIsPhysical
<1>2. wish[At(i)] \in Physical
  BY <1>1 DEF Inv, TablesOK
<1>3. Image(keyTable, Now, i) = Id(wish[At(i)])
  BY <1>1, PressedIsHeld DEF TableIsWished, Image
<1>4. IsModifierId(Id(wish[At(i)])) <=> wish[At(i)][1] # "key"
  BY <1>2, PhysicalIsTyped, IdIsTyped
<1> QED
  BY <1>1, <1>2, <1>3, <1>4 DEF Normal

LEMMA NowIsTyped == Inv => keyTable \in Table /\ Now \in Report
BY KeyboardReportIsTyped DEF Inv, KeysOK, TablesOK, Now

LEMMA NormalIsAsked ==
  ASSUME Inv, TableIsWished
  PROVE  Cardinality(Normal(keyTable, Now)) = SlotsAsked /\ SlotsAsked \in Nat
<1> DEFINE N == Normal(keyTable, Now)
           Asking == {p \in Held : wish[p][1] = "key"}
           at == [i \in N |-> At(i)]
<1>1. N \subseteq Pressed(Now) /\ IsFiniteSet(N)
  BY NowIsTyped, PositionsAreFinite DEF Normal
<1>2. at \in [N -> Asking]
  BY <1>1, ImageIsWished
<1>3. \A i, j \in N : at[i] = at[j] => i = j
  BY <1>1, PositionIsUnique
<1>4. ASSUME NEW p \in Asking
      PROVE  \E i \in N : at[i] = p
  <2>1. PICK i \in Pressed(Now) : At(i) = p
    BY <1>4, PressedIsHeld
  <2>2. i \in N
    BY <1>4, <2>1, ImageIsWished
  <2> QED
    BY <2>1, <2>2
<1>5. at \in Bijection(N, Asking)
  BY <1>2, <1>3, <1>4 DEF Bijection, Injection, IsInjective, Surjection
<1> HIDE DEF at, N, Asking
<1>6. Cardinality(Asking) = Cardinality(N)
  BY <1>1, <1>5, FS_Bijection DEF ExistsBijection
<1>7. Cardinality(N) \in Nat
  BY <1>1, FS_CardinalityType
<1> QED
  BY <1>6, <1>7 DEF N, Asking, SlotsAsked

-----------------------------------------------------------------------------
(***************************************************************************)
(* Without layout conversion the PC gets what the user wants.              *)
(***************************************************************************)
\* Nothing is sent that no held key stands for; ...
OnlyWished ==
  Promised =>
    /\ \A u \in Ids(dst) : \E p \in Held : wish[p] = Key(u)
    /\ \A m \in dst.mod : \E p \in Held : wish[p] = Mod(m)

\* ... all keys are sent while they fit, modifiers while a slot is left; ...
AllWished ==
  Promised =>
    \A p \in Held :
      /\ SlotsAsked <= KeyCount /\ wish[p][1] = "key" => wish[p][2] \in Ids(dst)
      /\ SlotsAsked < KeyCount /\ wish[p][1] = "mod" => wish[p][2] \in dst.mod

\* ... and too many keys fill all slots.
NoHoles ==
  Promised /\ SlotsAsked >= KeyCount => \A s \in Slot : dst.key[s] # 0

Delivered == OnlyWished /\ AllWished /\ NoHoles

\* The two fields of the report that is sent.
LEMMA FieldsSent ==
  ASSUME Inv, TableIsWished, langMode = "none"
  PROVE  LET F == Filled(keyTable, Now)
             V == Visited(keyTable, Now)
         IN  /\ F \subseteq Pressed(Now) /\ V \subseteq Pressed(Now)
             /\ F = V \cap Normal(keyTable, Now)
             /\ dst.mod = UNION {ModifierBit(Image(keyTable, Now, i)) : i \in V \ F}
             /\ \A s \in Slot : dst.key[s] = 0 \/ \E i \in F : dst.key[s] = Image(keyTable, Now, i)
             /\ \A i \in F : \E s \in Slot : dst.key[s] = Image(keyTable, Now, i)
             /\ SlotsAsked >= KeyCount =>
                  \A s \in Slot : \E i \in F : dst.key[s] = Image(keyTable, Now, i)
<1>1. dst = modify_report_by_key_table(keyTable, Now)
  BY DEF Inv, HeldIsSent, modify_report, Now
<1>2. keyTable \in Table /\ Now \in Report
  BY NowIsTyped
<1>3. Cardinality(Normal(keyTable, Now)) = SlotsAsked
  BY NormalIsAsked
<1>4. Visited(keyTable, Now) \subseteq Pressed(Now)
  BY DEF Visited
<1>5. dst.mod = UNION {ModifierBit(Image(keyTable, Now, i)) :
                         i \in Visited(keyTable, Now) \ Filled(keyTable, Now)}
  BY <1>1 DEF modify_report_by_key_table, Filled
<1> QED
  BY <1>1, <1>2, <1>3, <1>4, <1>5, SlotsHoldFilled DEF Filled

\* Ids of keys are no empty slots.
LEMMA FilledIsKey ==
  ASSUME Inv, TableIsWished, NEW i \in Pressed(Now), i \in Normal(keyTable, Now)
  PROVE  /\ Image(keyTable, Now, i) = wish[At(i)][2] /\ Image(keyTable, Now, i) # 0
         /\ wish[At(i)] = Key(Image(keyTable, Now, i))
<1>1. /\ wish[At(i)] \in Physical /\ wish[At(i)][1] = "key"
      /\ Image(keyTable, Now, i) = Id(wish[At(i)])
  BY ImageIsWished
<1>2. Id(wish[At(i)]) = wish[At(i)][2] /\ Id(wish[At(i)]) \in ValidUsageId
  BY <1>1, IdIsTyped
<1>3. wish[At(i)] = Key(wish[At(i)][2])
  BY <1>1, PhysicalIsTyped DEF Mod
<1> QED
  BY <1>1, <1>2, <1>3 DEF ValidUsageId

LEMMA OthersAreModifiers ==
  ASSUME Inv, TableIsWished, NEW i \in Pressed(Now), i \notin Normal(keyTable, Now)
  PROVE  /\ ModifierBit(Image(keyTable, Now, i)) = {wish[At(i)][2]}
         /\ wish[At(i)] = Mod(wish[At(i)][2])
<1>1. /\ wish[At(i)] \in Physical /\ wish[At(i)][1] # "key"
      /\ Image(keyTable, Now, i) = Id(wish[At(i)])
  BY ImageIsWished
<1>2. wish[At(i)][1] = "mod" /\ wish[At(i)] = Mod(wish[At(i)][2])
  BY <1>1, PhysicalIsTyped
<1> QED
  BY <1>1, <1>2, IdIsTyped

LEMMA WishesAreDelivered == Inv /\ EntriesOK => Delivered
<1> SUFFICES ASSUME Inv, TableIsWished, langMode = "none" PROVE Delivered
  BY DEF Delivered, OnlyWished, AllWished, NoHoles, EntriesOK, Promised
<1> DEFINE F == Filled(keyTable, Now)
           V == Visited(keyTable, Now)
           N == Normal(keyTable, Now)
<1>1. /\ F \subseteq Pressed(Now) /\ V \subseteq Pressed(Now) /\ F = V \cap N
      /\ dst.mod = UNION {ModifierBit(Image(keyTable, Now, i)) : i \in V \ F}
      /\ \A s \in Slot : dst.key[s] = 0 \/ \E i \in F : dst.key[s] = Image(keyTable, Now, i)
      /\ \A i \in F : \E s \in Slot : dst.key[s] = Image(keyTable, Now, i)
      /\ SlotsAsked >= KeyCount =>
           \A s \in Slot : \E i \in F : dst.key[s] = Image(keyTable, Now, i)
  BY FieldsSent
<1>2. /\ SlotsAsked <= KeyCount => F = N
      /\ SlotsAsked < KeyCount => V = Pressed(Now)
  BY NowIsTyped, NormalIsAsked, ScanIsComplete
<1> HIDE DEF F, V, N
<1>3. \A i \in Pressed(Now) : At(i) \in Held
  BY PressedIsHeld
<1>4. \A i \in F : /\ wish[At(i)] = Key(Image(keyTable, Now, i))
                   /\ Image(keyTable, Now, i) = wish[At(i)][2]
                   /\ Image(keyTable, Now, i) # 0
  BY <1>1, FilledIsKey DEF N
<1>5. \A i \in V \ F : /\ ModifierBit(Image(keyTable, Now, i)) = {wish[At(i)][2]}
                       /\ wish[At(i)] = Mod(wish[At(i)][2])
  BY <1>1, OthersAreModifiers DEF N
<1>6. OnlyWished
  <2>1. ASSUME NEW u \in Ids(dst)
        PROVE  \E p \in Held : wish[p] = Key(u)
    <3>1. PICK i \in F : u = Image(keyTable, Now, i)
      BY <1>1, <2>1 DEF Ids
    <3> QED
      BY <1>1, <1>3, <1>4, <3>1
  <2>2. ASSUME NEW m \in dst.mod
        PROVE  \E p \in Held : wish[p] = Mod(m)
    <3>1. PICK i \in V \ F : m \in ModifierBit(Image(keyTable, Now, i))
      BY <1>1, <2>2
    <3> QED
      BY <1>1, <1>3, <1>5, <3>1
  <2> QED
    BY <2>1, <2>2 DEF OnlyWished
<1>7. AllWished
  <2> SUFFICES ASSUME NEW p \in Held
               PROVE  /\ SlotsAsked <= KeyCount /\ wish[p][1] = "key" => wish[p][2] \in Ids(dst)
                      /\ SlotsAsked < KeyCount /\ wish[p][1] = "mod" => wish[p][2] \in dst.mod
    BY DEF AllWished
  <2>1. PICK i \in Pressed(Now) : At(i) = p
    BY PressedIsHeld
  <2>2. i \in N <=> wish[p][1] = "key"
    BY <2>1, ImageIsWished DEF N
  <2>3. ASSUME SlotsAsked <= KeyCount, wish[p][1] = "key"
        PROVE  wish[p][2] \in Ids(dst)
    <3>1. i \in F
      BY <1>2, <2>2, <2>3
    <3>2. PICK s \in Slot : dst.key[s] = Image(keyTable, Now, i)
      BY <1>1, <3>1
    <3> QED
      BY <1>4, <2>1, <3>1, <3>2 DEF Ids
  <2>4. ASSUME SlotsAsked < KeyCount, wish[p][1] = "mod"
        PROVE  wish[p][2] \in dst.mod
    <3>1. i \in V \ F
      BY <1>1, <1>2, <2>2, <2>4
    <3> QED
      BY <1>1, <1>5, <2>1, <3>1
  <2> QED
    BY <2>3, <2>4
<1>8. NoHoles
  BY <1>1, <1>4 DEF NoHoles
<1> QED
  BY <1>6, <1>7, <1>8 DEF Delivered

LEMMA DeliveredInvariant ==
  ASSUME 7 \notin TypedMods
  PROVE  Spec => [](Inv /\ EntriesOK /\ Delivered)
<1>1. Spec => []EntriesOK
  BY WishedInvariant
<1> QED
  BY <1>1, TypingInvariant, WishesAreDelivered, PTL

LEMMA PhysicalPair ==
  /\ \A u : Key(u)[1] = "key" /\ Key(u)[2] = u
  /\ \A m : Mod(m)[1] = "mod" /\ Mod(m)[2] = m
BY DEF Key, Mod

\* However many keys are held, the PC sees no key or modifier that the user
\* does not want for one of them, and no slot is empty while a key is left
\* out: for every key table that update_key_table() can make, any number of
\* slots.  Right Win is excepted, whose default entry is missing.
THEOREM SendsOnly ==
  ASSUME 7 \notin TypedMods
  PROVE  Spec => []SendsOnlyWished
<1>1. Inv /\ Delivered => SendsOnlyWished
  BY PhysicalPair
  DEF Delivered, OnlyWished, NoHoles, SendsOnlyWished, WishedIds, WishedMods, Wished
<1>2. Spec => [](Inv /\ EntriesOK /\ Delivered)
  BY DeliveredInvariant
<1> QED
  BY <1>1, <1>2, PTL

\* While a slot is left the PC sees all that the user wants: also keys for
\* modifiers, modifiers for keys, and several keys for one.
THEOREM SendsAll ==
  ASSUME 7 \notin TypedMods
  PROVE  Spec => []SendsAllWished
<1>1. Inv /\ EntriesOK /\ Delivered => SendsAllWished
  <2> SUFFICES ASSUME Inv, EntriesOK, Delivered, Promised, SlotsAsked < KeyCount
               PROVE  Ids(dst) = WishedIds /\ dst.mod = WishedMods
    BY DEF SendsAllWished
  <2>1. SlotsAsked <= KeyCount
    BY NormalIsAsked, SlotsAreNat DEF EntriesOK, Promised
  <2>2. Ids(dst) \subseteq WishedIds /\ dst.mod \subseteq WishedMods
    BY PhysicalPair DEF Delivered, OnlyWished, WishedIds, WishedMods, Wished
  <2>3. WishedIds \subseteq Ids(dst) /\ WishedMods \subseteq dst.mod
    BY <2>1 DEF Delivered, AllWished, WishedIds, WishedMods, Wished
  <2> QED
    BY <2>2, <2>3
<1>2. Spec => [](Inv /\ EntriesOK /\ Delivered)
  BY DeliveredInvariant
<1> QED
  BY <1>1, <1>2, PTL

\* A key goes down: what is held is the keys of before and its cause; a key
\* goes up: nothing new is held.
LEMMA HeldGrows ==
  ASSUME Inv, NEW p,
         \/ \E u \in TypedKeys : Press(u)
         \/ \E m \in TypedMods : PressModifier(m) \/ ReleaseModifier(m)
         \/ \E i \in DOMAIN down : Release(i),
         p \in Held', p \notin Held
  PROVE  p = pressed' /\ wish' = wish
<1>1. /\ down \in Seq(TypedKeys) /\ Len(down) \in Nat /\ DOMAIN down = 1 .. Len(down)
  BY LenProperties DEF Inv, KeysOK
<1>2. Held' = {Key(down'[i]) : i \in DOMAIN down'} \cup {Mod(m) : m \in mod'}
  BY DEF Held
<1>3. ASSUME NEW u \in TypedKeys, Press(u)
      PROVE  p = pressed' /\ wish' = wish
  <2>1. /\ down' = Append(down, u) /\ mod' = mod /\ pressed' = Key(u) /\ wish' = wish
    BY <1>3 DEF Press, Send, Convert
  <2>2. \A i \in DOMAIN down' : down'[i] = u \/ \E j \in DOMAIN down : down'[i] = down[j]
    <3>1. /\ Append(down, u) \in Seq(TypedKeys) /\ Len(Append(down, u)) = Len(down) + 1
          /\ \A i \in 1 .. Len(down) : Append(down, u)[i] = down[i]
          /\ Append(down, u)[Len(down) + 1] = u
      BY <1>1, AppendProperties
    <3>2. DOMAIN Append(down, u) = 1 .. Len(down) + 1
      BY <3>1, LenProperties
    <3>3. \A i \in 1 .. Len(down) + 1 : i \in 1 .. Len(down) \/ i = Len(down) + 1
      BY <1>1
    <3> QED
      BY <1>1, <2>1, <3>1, <3>2, <3>3
  <2> QED
    BY <1>2, <2>1, <2>2 DEF Held
<1>4. ASSUME NEW m \in TypedMods, PressModifier(m) \/ ReleaseModifier(m)
      PROVE  p = pressed' /\ wish' = wish
  BY <1>2, <1>4 DEF PressModifier, ReleaseModifier, Send, Convert, Held
<1>5. ASSUME NEW i \in DOMAIN down, Release(i)
      PROVE  p = pressed' /\ wish' = wish
  <2>1. /\ down' = [j \in 1 .. Len(down) - 1 |-> IF j < i THEN down[j] ELSE down[j + 1]]
        /\ mod' = mod
    BY <1>5 DEF Release, Without, Send, Convert
  <2>2. \A j \in DOMAIN down' : \E k \in DOMAIN down : down'[j] = down[k]
    <3> TAKE j \in DOMAIN down'
    <3>1. j \in DOMAIN down /\ j + 1 \in DOMAIN down /\ j \in 1 .. Len(down) - 1
      BY <1>1, <2>1
    <3> QED
      BY <2>1, <3>1
  <2>3. p \in Held
    BY <1>2, <2>1, <2>2 DEF Held
  <2> QED
    BY <2>3
<1> QED
  BY <1>3, <1>4, <1>5

\* A stroke that the PC makes of two reports is the key that the user wants
\* for the one just pressed: letting go of a key, or pressing one while
\* others are held, in any order, makes no stroke of another.
THEOREM StrikesOnly ==
  ASSUME 7 \notin TypedMods
  PROVE  Spec => StrikesOnlyPressed
<1> DEFINE Right ==
             Promised /\ Promised' /\ SlotsAsked <= KeyCount =>
               \A stroke \in struck' : <<"key", stroke[1]>> = wish[pressed']
<1>1. Inv /\ EntriesOK /\ Delivered /\ Delivered' /\ [Next]_vars => [Right]_vars
  <2> SUFFICES ASSUME Inv, EntriesOK, Delivered, Delivered', Next,
                      Promised, Promised', SlotsAsked <= KeyCount,
                      NEW stroke \in struck'
               PROVE  <<"key", stroke[1]>> = wish[pressed']
    OBVIOUS
  <2>1. CASE struck' = {}
    BY <2>1
  <2>2. CASE \/ \E u \in TypedKeys : Press(u)
             \/ \E m \in TypedMods : PressModifier(m) \/ ReleaseModifier(m)
             \/ \E i \in DOMAIN down : Release(i)
    <3>1. struck' = {<<u, IsShifted(dst'.mod)>> : u \in Ids(dst') \ Ids(dst)}
      BY <2>2 DEF Press, PressModifier, ReleaseModifier, Release, Send, Convert
    <3>2. PICK u \in Ids(dst') \ Ids(dst) : stroke = <<u, IsShifted(dst'.mod)>>
      BY <3>1
    <3>3. PICK p \in Held' : wish'[p] = Key(u)
      BY <3>2 DEF Delivered, OnlyWished, Ids
    <3>4. wish' = wish
      BY <2>2 DEF Press, PressModifier, ReleaseModifier, Release, Send, Convert
    <3>5. p \notin Held
      BY <3>2, <3>3, <3>4, PhysicalPair DEF Delivered, AllWished
    <3>6. p = pressed'
      BY <2>2, <3>3, <3>5, HeldGrows
    <3> QED
      BY <3>2, <3>3, <3>4, <3>6 DEF Key
  <2> QED
    BY <2>1, <2>2, EntriesKeepInv DEF Next, reset_key_table, set_lang_convert_mode, Configure
<1>2. Spec => [](Inv /\ EntriesOK /\ Delivered)
  BY DeliveredInvariant
<1>3. Spec => [][Right]_vars
  BY <1>1, <1>2, PTL DEF Spec
<1> QED
  BY <1>3 DEF StrikesOnlyPressed

-----------------------------------------------------------------------------
(***************************************************************************)
(* The layouts: a stroke of the tables of KeyTable.c types, in the system  *)
(* of that layout, the character it is listed for, and what is engraved    *)
(* on a key is listed.                                                     *)
(***************************************************************************)
\* The characters, from space to ~, as in Layouts.
Ascii == <<
  "space", "!", "quote", "#", "$", "%", "&", "apostrophe", "lpar", "rpar", "star", "+",
  "comma", "-", ".", "/", "0", "1", "2", "3", "4", "5", "6", "7", "8", "9", ":", "semicolon",
  "<", "=", ">", "?", "@", "A", "B", "C", "D", "E", "F", "G", "H", "I", "J", "K", "L", "M",
  "N", "O", "P", "Q", "R", "S", "T", "U", "V", "W", "X", "Y", "Z", "[", "backslash", "]",
  "^", "underscore", "backquote", "a", "b", "c", "d", "e", "f", "g", "h", "i", "j", "k", "l",
  "m", "n", "o", "p", "q", "r", "s", "t", "u", "v", "w", "x", "y", "z", "lbrace", "|",
  "rbrace", "~" >>

\* Rows of symbols and letters against the entries of the tables.
LEMMA JisSpells ==
  \A r \in JisSymbols, c \in Character :
     /\ ASCII_TO_JAPANESE_USAGEID[c] = r[1] => Ascii[c] = r[2]
     /\ ASCII_TO_JAPANESE_USAGEID[c] = S + r[1] => Ascii[c] = r[3]
BY DEF ASCII_TO_JAPANESE_USAGEID, S, JisSymbols, Character, Ascii
LEMMA UsSpells ==
  \A r \in UsSymbols, c \in Character :
     /\ ASCII_TO_ENGLISH_USAGEID[c] = r[1] => Ascii[c] = r[2]
     /\ ASCII_TO_ENGLISH_USAGEID[c] = S + r[1] => Ascii[c] = r[3]
BY DEF ASCII_TO_ENGLISH_USAGEID, S, UsSymbols, Character, Ascii

LEMMA JisLettersSpell ==
  \A c \in Character, k \in LetterKeys :
     /\ ASCII_TO_JAPANESE_USAGEID[c] = k => Ascii[c] = Small[k - 3]
     /\ ASCII_TO_JAPANESE_USAGEID[c] = S + k => Ascii[c] = Letters[k - 3]
BY DEF ASCII_TO_JAPANESE_USAGEID, S, Character, Ascii, LetterKeys, Small, Letters
LEMMA UsLettersSpell ==
  \A c \in Character, k \in LetterKeys :
     /\ ASCII_TO_ENGLISH_USAGEID[c] = k => Ascii[c] = Small[k - 3]
     /\ ASCII_TO_ENGLISH_USAGEID[c] = S + k => Ascii[c] = Letters[k - 3]
BY DEF ASCII_TO_ENGLISH_USAGEID, S, Character, Ascii, LetterKeys, Small, Letters

\* A stroke of a table is a key of its layout.
LEMMA JisHas ==
  \A c \in Character : \E k \in Keys(JisSymbols) :
    ASCII_TO_JAPANESE_USAGEID[c] = k \/ ASCII_TO_JAPANESE_USAGEID[c] = S + k
BY DEF ASCII_TO_JAPANESE_USAGEID, S, Character, LetterKeys, Keys, JisSymbols
LEMMA UsHas ==
  \A c \in Character : \E k \in Keys(UsSymbols) :
    ASCII_TO_ENGLISH_USAGEID[c] = k \/ ASCII_TO_ENGLISH_USAGEID[c] = S + k
BY DEF ASCII_TO_ENGLISH_USAGEID, S, Character, LetterKeys, Keys, UsSymbols

\* A key has one row.
LEMMA RowsAreUnique ==
  /\ \A r, q \in JisSymbols : r[1] = q[1] => r = q
  /\ \A r, q \in UsSymbols : r[1] = q[1] => r = q
  /\ \A r \in JisSymbols \cup UsSymbols : r[1] \in UsageId /\ r[1] \notin LetterKeys
<1>1. \A r, q \in JisSymbols : r[1] = q[1] => r = q
  BY DEF JisSymbols
<1>2. \A r, q \in UsSymbols : r[1] = q[1] => r = q
  BY DEF UsSymbols
<1>3. \A r \in JisSymbols : r[1] \in UsageId /\ r[1] \notin LetterKeys
  BY DEF JisSymbols, UsageId, LetterKeys
<1>4. \A r \in UsSymbols : r[1] \in UsageId /\ r[1] \notin LetterKeys
  BY DEF UsSymbols, UsageId, LetterKeys
<1> QED
  BY <1>1, <1>2, <1>3, <1>4

\* What Char() reads.
LEMMA CharIsRead ==
  ASSUME NEW symbols, \A r, q \in symbols : r[1] = q[1] => r = q,
         \A r \in symbols : r[1] \notin LetterKeys
  PROVE  /\ \A r \in symbols : /\ Char(symbols, r[1], FALSE) = r[2]
                               /\ Char(symbols, r[1], TRUE) = r[3]
         /\ \A k \in LetterKeys : /\ Char(symbols, k, FALSE) = Small[k - 3]
                                 /\ Char(symbols, k, TRUE) = Letters[k - 3]
         /\ \A k : k \notin Keys(symbols) =>
                       Char(symbols, k, FALSE) = "none" /\ Char(symbols, k, TRUE) = "none"
<1>1. ASSUME NEW r \in symbols
      PROVE  Char(symbols, r[1], FALSE) = r[2] /\ Char(symbols, r[1], TRUE) = r[3]
  <2> DEFINE rows == {row \in symbols : row[1] = r[1]}
  <2>1. r \in rows /\ r[1] \notin LetterKeys
    OBVIOUS
  <2>2. \A row \in rows : row = r
    OBVIOUS
  <2>3. (CHOOSE row \in rows : TRUE) = r
    BY <2>1, <2>2
  <2> QED
    BY <2>1, <2>3 DEF Char
<1>2. \A k : k \notin Keys(symbols) =>
                       Char(symbols, k, FALSE) = "none" /\ Char(symbols, k, TRUE) = "none"
  <2> TAKE k
  <2> DEFINE rows == {row \in symbols : row[1] = k}
  <2>1. k \notin Keys(symbols) => k \notin LetterKeys /\ rows = {}
    BY DEF Keys
  <2> QED
    BY <2>1 DEF Char
<1> QED
  BY <1>1, <1>2 DEF Char

LEMMA SymbolsAreRead ==
  /\ \A r \in JisSymbols : /\ Char(JisSymbols, r[1], FALSE) = r[2]
                           /\ Char(JisSymbols, r[1], TRUE) = r[3]
  /\ \A r \in UsSymbols : /\ Char(UsSymbols, r[1], FALSE) = r[2]
                          /\ Char(UsSymbols, r[1], TRUE) = r[3]
  /\ \A k \in LetterKeys : /\ Char(JisSymbols, k, FALSE) = Small[k - 3]
                          /\ Char(JisSymbols, k, TRUE) = Letters[k - 3]
                          /\ Char(UsSymbols, k, FALSE) = Small[k - 3]
                          /\ Char(UsSymbols, k, TRUE) = Letters[k - 3]
  /\ \A k : /\ k \notin Keys(JisSymbols) =>
                  Char(JisSymbols, k, FALSE) = "none" /\ Char(JisSymbols, k, TRUE) = "none"
            /\ k \notin Keys(UsSymbols) =>
                  Char(UsSymbols, k, FALSE) = "none" /\ Char(UsSymbols, k, TRUE) = "none"
<1> DEFINE Read(symbols) ==
             /\ \A r \in symbols : /\ Char(symbols, r[1], FALSE) = r[2]
                                  /\ Char(symbols, r[1], TRUE) = r[3]
             /\ \A k \in LetterKeys : /\ Char(symbols, k, FALSE) = Small[k - 3]
                                     /\ Char(symbols, k, TRUE) = Letters[k - 3]
             /\ \A k : k \notin Keys(symbols) =>
                       Char(symbols, k, FALSE) = "none" /\ Char(symbols, k, TRUE) = "none"
<1>1. \A r \in JisSymbols \cup UsSymbols : r[1] \notin LetterKeys
  BY RowsAreUnique
<1>2. \A r, q \in JisSymbols : r[1] = q[1] => r = q
  BY RowsAreUnique
<1>3. \A r, q \in UsSymbols : r[1] = q[1] => r = q
  BY RowsAreUnique
<1>4. Read(JisSymbols)
  BY <1>1, <1>2, CharIsRead
<1>5. Read(UsSymbols)
  BY <1>1, <1>3, CharIsRead
<1> QED
  BY <1>4, <1>5

\* A stroke of the layout types the character it is listed for.
Spells(symbols, layout) ==
  \A c \in Character, k \in UsageId :
    /\ layout[c] = k => Char(symbols, k, FALSE) = Ascii[c]
    /\ layout[c] = S + k => Char(symbols, k, TRUE) = Ascii[c]

LEMMA LayoutsSpell ==
  /\ Spells(JisSymbols, ASCII_TO_JAPANESE_USAGEID)
  /\ Spells(UsSymbols, ASCII_TO_ENGLISH_USAGEID)
<1>1. ASSUME NEW k \in UsageId, NEW l \in UsageId
      PROVE  /\ k = S + l => FALSE
             /\ S + k = S + l => k = l
  BY DEF UsageId, S
<1>2. LetterKeys \subseteq UsageId
  BY DEF LetterKeys, UsageId
<1>3. Spells(JisSymbols, ASCII_TO_JAPANESE_USAGEID)
  <2> SUFFICES ASSUME NEW c \in Character, NEW k \in UsageId
               PROVE  LET stroke == ASCII_TO_JAPANESE_USAGEID[c]
                      IN  /\ stroke = k => Char(JisSymbols, k, FALSE) = Ascii[c]
                          /\ stroke = S + k => Char(JisSymbols, k, TRUE) = Ascii[c]
    BY DEF Spells
  <2> DEFINE stroke == ASCII_TO_JAPANESE_USAGEID[c]
  <2>1. PICK l \in Keys(JisSymbols) : stroke = l \/ stroke = S + l
    BY JisHas
  <2>2. l \in UsageId
    BY <1>2, RowsAreUnique DEF Keys
  <2> SUFFICES ASSUME stroke = k \/ stroke = S + k
               PROVE  /\ stroke = k => Char(JisSymbols, k, FALSE) = Ascii[c]
                      /\ stroke = S + k => Char(JisSymbols, k, TRUE) = Ascii[c]
    OBVIOUS
  <2> HIDE DEF stroke
  <2>3. k = l
    BY <1>1, <2>1, <2>2
  <2> USE DEF stroke
  <2>4. CASE k \in LetterKeys
    BY <2>4, JisLettersSpell, SymbolsAreRead
  <2>5. CASE \E r \in JisSymbols : k = r[1]
    BY <2>5, JisSpells, SymbolsAreRead
  <2> QED
    BY <2>1, <2>3, <2>4, <2>5 DEF Keys
<1>4. Spells(UsSymbols, ASCII_TO_ENGLISH_USAGEID)
  <2> SUFFICES ASSUME NEW c \in Character, NEW k \in UsageId
               PROVE  LET stroke == ASCII_TO_ENGLISH_USAGEID[c]
                      IN  /\ stroke = k => Char(UsSymbols, k, FALSE) = Ascii[c]
                          /\ stroke = S + k => Char(UsSymbols, k, TRUE) = Ascii[c]
    BY DEF Spells
  <2> DEFINE stroke == ASCII_TO_ENGLISH_USAGEID[c]
  <2>1. PICK l \in Keys(UsSymbols) : stroke = l \/ stroke = S + l
    BY UsHas
  <2>2. l \in UsageId
    BY <1>2, RowsAreUnique DEF Keys
  <2> SUFFICES ASSUME stroke = k \/ stroke = S + k
               PROVE  /\ stroke = k => Char(UsSymbols, k, FALSE) = Ascii[c]
                      /\ stroke = S + k => Char(UsSymbols, k, TRUE) = Ascii[c]
    OBVIOUS
  <2> HIDE DEF stroke
  <2>3. k = l
    BY <1>1, <2>1, <2>2
  <2> USE DEF stroke
  <2>4. CASE k \in LetterKeys
    BY <2>4, UsLettersSpell, SymbolsAreRead
  <2>5. CASE \E r \in UsSymbols : k = r[1]
    BY <2>5, UsSpells, SymbolsAreRead
  <2> QED
    BY <2>1, <2>3, <2>4, <2>5 DEF Keys
<1> QED
  BY <1>3, <1>4

\* What is engraved has a stroke in the table, but for the Yen key and space
\* with shift.
Lists(symbols, layout) ==
  \A k :
    /\ Char(symbols, k, FALSE) # "none" => k = \h89 \/ \E c \in Character : layout[c] = k
    /\ Char(symbols, k, TRUE) # "none" => k = \h2c \/ \E c \in Character : layout[c] = S + k

LEMMA LettersAreListed ==
  \A k \in LetterKeys :
    /\ \E c \in Character : ASCII_TO_JAPANESE_USAGEID[c] = k
    /\ \E c \in Character : ASCII_TO_JAPANESE_USAGEID[c] = S + k
    /\ \E c \in Character : ASCII_TO_ENGLISH_USAGEID[c] = k
    /\ \E c \in Character : ASCII_TO_ENGLISH_USAGEID[c] = S + k
BY DEF ASCII_TO_JAPANESE_USAGEID, ASCII_TO_ENGLISH_USAGEID, S, Character, LetterKeys

LEMMA JisIsListed ==
  \A r \in JisSymbols :
    /\ r[1] # \h89 => \E c \in Character : ASCII_TO_JAPANESE_USAGEID[c] = r[1]
    /\ r[3] # "none" /\ r[1] # \h2c =>
         \E c \in Character : ASCII_TO_JAPANESE_USAGEID[c] = S + r[1]
BY DEF ASCII_TO_JAPANESE_USAGEID, S, Character, JisSymbols

LEMMA UsIsListed ==
  \A r \in UsSymbols :
    /\ \E c \in Character : ASCII_TO_ENGLISH_USAGEID[c] = r[1]
    /\ r[1] # \h2c => \E c \in Character : ASCII_TO_ENGLISH_USAGEID[c] = S + r[1]
BY DEF ASCII_TO_ENGLISH_USAGEID, S, Character, UsSymbols

LEMMA EngravedIsListed ==
  /\ Lists(JisSymbols, ASCII_TO_JAPANESE_USAGEID)
  /\ Lists(UsSymbols, ASCII_TO_ENGLISH_USAGEID)
<1>1. ASSUME NEW k, k \in LetterKeys
      PROVE  /\ \E c \in Character : ASCII_TO_JAPANESE_USAGEID[c] = k
             /\ \E c \in Character : ASCII_TO_JAPANESE_USAGEID[c] = S + k
             /\ \E c \in Character : ASCII_TO_ENGLISH_USAGEID[c] = k
             /\ \E c \in Character : ASCII_TO_ENGLISH_USAGEID[c] = S + k
  BY <1>1, LettersAreListed
<1>2. ASSUME NEW k, NEW r \in JisSymbols, k = r[1]
      PROVE  /\ k # \h89 => \E c \in Character : ASCII_TO_JAPANESE_USAGEID[c] = k
             /\ Char(JisSymbols, k, TRUE) # "none" /\ k # \h2c =>
                  \E c \in Character : ASCII_TO_JAPANESE_USAGEID[c] = S + k
  <2>1. Char(JisSymbols, k, TRUE) = r[3]
    BY <1>2, SymbolsAreRead
  <2> QED
    BY <1>2, <2>1, JisIsListed
<1>3. ASSUME NEW k, NEW r \in UsSymbols, k = r[1]
      PROVE  /\ \E c \in Character : ASCII_TO_ENGLISH_USAGEID[c] = k
             /\ k # \h2c => \E c \in Character : ASCII_TO_ENGLISH_USAGEID[c] = S + k
  BY <1>3, UsIsListed
<1>4. \A k : /\ Char(JisSymbols, k, FALSE) # "none" => k \in Keys(JisSymbols)
             /\ Char(JisSymbols, k, TRUE) # "none" => k \in Keys(JisSymbols)
             /\ Char(UsSymbols, k, FALSE) # "none" => k \in Keys(UsSymbols)
             /\ Char(UsSymbols, k, TRUE) # "none" => k \in Keys(UsSymbols)
  BY SymbolsAreRead
<1>5. \A k : /\ k \in Keys(JisSymbols) => k \in LetterKeys \/ \E r \in JisSymbols : k = r[1]
             /\ k \in Keys(UsSymbols) => k \in LetterKeys \/ \E r \in UsSymbols : k = r[1]
  BY DEF Keys
<1>6. Lists(JisSymbols, ASCII_TO_JAPANESE_USAGEID)
  <2> SUFFICES ASSUME NEW k
               PROVE  /\ Char(JisSymbols, k, FALSE) # "none" =>
                           k = \h89 \/ \E c \in Character : ASCII_TO_JAPANESE_USAGEID[c] = k
                      /\ Char(JisSymbols, k, TRUE) # "none" =>
                           k = \h2c \/ \E c \in Character : ASCII_TO_JAPANESE_USAGEID[c] = S + k
    BY DEF Lists
  <2>1. CASE k \in LetterKeys
    BY <1>1, <2>1
  <2>2. CASE \E r \in JisSymbols : k = r[1]
    BY <1>2, <2>2
  <2> QED
    BY <1>4, <1>5, <2>1, <2>2
<1>7. Lists(UsSymbols, ASCII_TO_ENGLISH_USAGEID)
  <2> SUFFICES ASSUME NEW k
               PROVE  /\ Char(UsSymbols, k, FALSE) # "none" =>
                           k = \h89 \/ \E c \in Character : ASCII_TO_ENGLISH_USAGEID[c] = k
                      /\ Char(UsSymbols, k, TRUE) # "none" =>
                           k = \h2c \/ \E c \in Character : ASCII_TO_ENGLISH_USAGEID[c] = S + k
    BY DEF Lists
  <2>1. CASE k \in LetterKeys
    BY <1>1, <2>1
  <2>2. CASE \E r \in UsSymbols : k = r[1]
    BY <1>3, <2>2
  <2> QED
    BY <1>4, <1>5, <2>1, <2>2
<1> QED
  BY <1>6, <1>7

-----------------------------------------------------------------------------
(***************************************************************************)
(* The conversion of one key.                                              *)
(***************************************************************************)
\* The symbols on the keyboard and those of the system.
Keyboard(mode) == IF mode = "ja_to_en" THEN JisSymbols ELSE UsSymbols
System(mode) == IF mode = "ja_to_en" THEN UsSymbols ELSE JisSymbols

LEMMA NoCharacterIsEmpty ==
  \A c \in Character : /\ ASCII_TO_JAPANESE_USAGEID[c] \notin {0, S}
                       /\ ASCII_TO_ENGLISH_USAGEID[c] \notin {0, S}
BY DEF ASCII_TO_JAPANESE_USAGEID, ASCII_TO_ENGLISH_USAGEID, S, Character

\* The characters that are looked up.
LEMMA IndexIs ==
  ASSUME NEW id \in UsageId, NEW mods
  PROVE  /\ EnglishChars[Stroke(id, mods)] =
              {c \in Character : ASCII_TO_ENGLISH_USAGEID[c] = IF IsShifted(mods) THEN S + id ELSE id}
         /\ JapaneseChars[Stroke(id, mods)] =
              {c \in Character : ASCII_TO_JAPANESE_USAGEID[c] = IF IsShifted(mods) THEN S + id ELSE id}
<1>1. Stroke(id, mods) \in 0 .. 2 * S - 1
  BY StrokeIsTyped DEF Strokes
<1>2. DOMAIN ASCII_TO_ENGLISH_USAGEID = Character /\ DOMAIN ASCII_TO_JAPANESE_USAGEID = Character
  BY LayoutsAreTyped
<1>3. Stroke(id, mods) = IF IsShifted(mods) THEN S + id ELSE id
  BY DEF Stroke
<1> QED
  BY <1>1, <1>2, <1>3 DEF EnglishChars, JapaneseChars, CharsOf

\* An empty slot stays empty, whatever modifiers are held.
LEMMA EmptySlotStays ==
  ASSUME NEW mode, NEW mods
  PROVE  Converted(mode, 0, mods) = [id |-> 0, mod |-> mods]
<1>1. 0 \in UsageId /\ S + 0 = S /\ 0 # \h89
  BY DEF UsageId, S
<1>2. EnglishChars[Stroke(0, mods)] = {} /\ JapaneseChars[Stroke(0, mods)] = {}
  BY <1>1, IndexIs, NoCharacterIsEmpty
<1> QED
  BY <1>1, <1>2
  DEF Converted, ja_to_en_usage_id, en_to_ja_usage_id, Restroke,
      ja_usageid_to_ascii_tableindex, en_usageid_to_ascii_tableindex

\* A character that was looked up is typed.
LEMMA RestrokeTypes ==
  ASSUME NEW symbols, NEW layout \in [Character -> Strokes \ {0}], Spells(symbols, layout),
         \A c \in Character : layout[c] \notin {0, S},
         NEW index \in SUBSET Character, index # {},
         NEW id \in UsageId, NEW mods \in SUBSET ModifierKey
  PROVE  LET new == Restroke(layout, index, id, mods)
         IN  /\ Min(index) \in index
             /\ new.id \in UsageId \ {0}
             /\ Char(symbols, new.id, IsShifted(new.mod)) = Ascii[Min(index)]
             /\ new.mod \ ShiftKeys = mods \ ShiftKeys
             /\ IsShifted(new.mod) = IsShifted(mods) => new.mod = mods
<1> DEFINE new == Restroke(layout, index, id, mods)
           stroke == layout[Min(index)]
<1>1. Min(index) \in index /\ Min(index) \in Character
  <2>1. index \in SUBSET Nat
    BY DEF Character
  <2> QED
    BY <2>1, LeastExists
<1>2. stroke \in Strokes /\ stroke # 0 /\ stroke # S
  BY <1>1
<1>3. LeftShift \in ShiftKeys
  BY DEF LeftShift, ShiftKeys
<1>4. CASE stroke < S
  <2>1. new.id = stroke /\ new.mod = mods \ ShiftKeys
    BY <1>4 DEF Restroke
  <2>2. stroke \in UsageId \ {0}
    BY <1>2, <1>4 DEF Strokes, S, UsageId
  <2>3. IsShifted(new.mod) = FALSE
    BY <2>1 DEF IsShifted
  <2>4. Char(symbols, stroke, FALSE) = Ascii[Min(index)]
    BY <1>1, <2>2 DEF Spells
  <2>5. Char(symbols, new.id, IsShifted(new.mod)) = Ascii[Min(index)]
    BY <2>1, <2>3, <2>4
  <2>6. ~IsShifted(mods) => new.mod = mods
    BY <2>1 DEF IsShifted
  <2> HIDE DEF new, stroke
  <2> QED
    BY <1>1, <2>1, <2>2, <2>3, <2>5, <2>6 DEF new
<1>5. CASE ~(stroke < S)
  <2>1. new.id = stroke - S /\ new.mod = IF IsShifted(mods) THEN mods ELSE mods \cup {LeftShift}
    BY <1>5 DEF Restroke
  <2>2. stroke - S \in UsageId \ {0} /\ S + (stroke - S) = stroke
    BY <1>2, <1>5 DEF Strokes, S, UsageId
  <2>3. IsShifted(new.mod) = TRUE
    BY <1>3, <2>1 DEF IsShifted
  <2>4. Char(symbols, stroke - S, TRUE) = Ascii[Min(index)]
    BY <1>1, <2>2 DEF Spells
  <2>5. Char(symbols, new.id, IsShifted(new.mod)) = Ascii[Min(index)]
    BY <2>1, <2>3, <2>4
  <2>6. new.mod \ ShiftKeys = mods \ ShiftKeys
    BY <1>3, <2>1
  <2>7. IsShifted(mods) => new.mod = mods
    BY <2>1
  <2> HIDE DEF new, stroke
  <2> QED
    BY <1>1, <2>1, <2>2, <2>3, <2>5, <2>6, <2>7 DEF new
<1> QED
  BY <1>4, <1>5

\* The characters that are looked up for a key are the one engraved on it;
\* only space with shift has none.
LEMMA JaIndexIsEngraved ==
  ASSUME NEW id \in UsageId, NEW mods, Char(JisSymbols, id, IsShifted(mods)) # "none"
  PROVE  LET index == ja_usageid_to_ascii_tableindex(id, mods)
         IN  /\ \A c \in index : Ascii[c] = Char(JisSymbols, id, IsShifted(mods))
             /\ index = {} => IsShifted(mods) = TRUE /\ id = \h2c
<1> DEFINE index == ja_usageid_to_ascii_tableindex(id, mods)
<1>1. CASE IsShifted(mods) = TRUE
  <2>1. index = {c \in Character : ASCII_TO_JAPANESE_USAGEID[c] = S + id}
    BY <1>1, IndexIs DEF ja_usageid_to_ascii_tableindex
  <2>2. \A c \in index : Ascii[c] = Char(JisSymbols, id, TRUE)
    BY <2>1, LayoutsSpell DEF Spells
  <2>3. index = {} => id = \h2c
    BY <1>1, <2>1, EngravedIsListed DEF Lists
  <2> QED
    BY <1>1, <2>2, <2>3
<1>2. CASE IsShifted(mods) = FALSE /\ id # \h89
  <2>1. index = {c \in Character : ASCII_TO_JAPANESE_USAGEID[c] = id}
    BY <1>2, IndexIs DEF ja_usageid_to_ascii_tableindex
  <2>2. \A c \in index : Ascii[c] = Char(JisSymbols, id, FALSE)
    BY <2>1, LayoutsSpell DEF Spells
  <2>3. index # {}
    BY <1>2, <2>1, EngravedIsListed DEF Lists
  <2> QED
    BY <1>2, <2>2, <2>3
<1>3. CASE IsShifted(mods) = FALSE /\ id = \h89
  <2>1. index = {BackSlash}
    BY <1>3 DEF ja_usageid_to_ascii_tableindex
  <2>2. Ascii[BackSlash] = "backslash"
    BY DEF Ascii, BackSlash
  <2>3. <<\h89, "backslash", "|">> \in JisSymbols
    BY DEF JisSymbols
  <2>4. Char(JisSymbols, \h89, FALSE) = "backslash"
    BY <2>3, SymbolsAreRead
  <2> QED
    BY <1>3, <2>1, <2>2, <2>4
<1>4. IsShifted(mods) = TRUE \/ IsShifted(mods) = FALSE
  BY DEF IsShifted
<1> QED
  BY <1>1, <1>2, <1>3, <1>4

LEMMA EnIndexIsEngraved ==
  ASSUME NEW id \in UsageId, NEW mods, Char(UsSymbols, id, IsShifted(mods)) # "none"
  PROVE  LET index == en_usageid_to_ascii_tableindex(id, mods)
         IN  /\ \A c \in index : Ascii[c] = Char(UsSymbols, id, IsShifted(mods))
             /\ index = {} => IsShifted(mods) = TRUE /\ id = \h2c
<1> DEFINE index == en_usageid_to_ascii_tableindex(id, mods)
<1>1. CASE IsShifted(mods) = TRUE
  <2>1. index = {c \in Character : ASCII_TO_ENGLISH_USAGEID[c] = S + id}
    BY <1>1, IndexIs DEF en_usageid_to_ascii_tableindex
  <2>2. \A c \in index : Ascii[c] = Char(UsSymbols, id, TRUE)
    BY <2>1, LayoutsSpell DEF Spells
  <2>3. index = {} => id = \h2c
    BY <1>1, <2>1, EngravedIsListed DEF Lists
  <2> QED
    BY <1>1, <2>2, <2>3
<1>2. CASE IsShifted(mods) = FALSE
  <2>1. index = {c \in Character : ASCII_TO_ENGLISH_USAGEID[c] = id}
    BY <1>2, IndexIs DEF en_usageid_to_ascii_tableindex
  <2>2. \A c \in index : Ascii[c] = Char(UsSymbols, id, FALSE)
    BY <2>1, LayoutsSpell DEF Spells
  <2>3. id # \h89
    <3>1. \h89 \notin Keys(UsSymbols)
      BY DEF Keys, UsSymbols, LetterKeys
    <3>2. Char(UsSymbols, \h89, FALSE) = "none"
      BY <3>1, SymbolsAreRead
    <3> QED
      BY <1>2, <3>2
  <2>4. index # {}
    BY <1>2, <2>1, <2>3, EngravedIsListed DEF Lists
  <2> QED
    BY <1>2, <2>2, <2>4
<1>3. IsShifted(mods) = TRUE \/ IsShifted(mods) = FALSE
  BY DEF IsShifted
<1> QED
  BY <1>1, <1>2, <1>3

\* The converted key types what is engraved on the key.
LEMMA KeyIsConverted ==
  ASSUME NEW mode \in Converting, NEW id \in UsageId \ {0}, NEW mods \in SUBSET ModifierKey,
         Char(Keyboard(mode), id, IsShifted(mods)) # "none"
  PROVE  LET new == Converted(mode, id, mods)
         IN  /\ new.id \in UsageId \ {0}
             /\ Char(System(mode), new.id, IsShifted(new.mod)) =
                  Char(Keyboard(mode), id, IsShifted(mods))
             /\ new.mod \ ShiftKeys = mods \ ShiftKeys
             /\ IsShifted(new.mod) = IsShifted(mods) => new.mod = mods
<1> DEFINE Goal(new) == /\ new.id \in UsageId \ {0}
                        /\ Char(System(mode), new.id, IsShifted(new.mod)) =
                             Char(Keyboard(mode), id, IsShifted(mods))
                        /\ new.mod \ ShiftKeys = mods \ ShiftKeys
                        /\ IsShifted(new.mod) = IsShifted(mods) => new.mod = mods
           J == ja_usageid_to_ascii_tableindex(id, mods)
           E == en_usageid_to_ascii_tableindex(id, mods)
<1>1. J \in SUBSET Character /\ E \in SUBSET Character
  BY IndexIsTyped
<1>2. <<\h2c, "space", "space">> \in JisSymbols /\ <<\h2c, "space", "space">> \in UsSymbols
  BY DEF JisSymbols, UsSymbols
<1>3. Char(JisSymbols, \h2c, TRUE) = "space" /\ Char(UsSymbols, \h2c, TRUE) = "space"
  BY <1>2, SymbolsAreRead
<1>4. CASE mode = "ja_to_en"
  <2>1. Keyboard(mode) = JisSymbols /\ System(mode) = UsSymbols
    BY <1>4 DEF Keyboard, System
  <2>2. Converted(mode, id, mods) = Restroke(ASCII_TO_ENGLISH_USAGEID, J, id, mods)
    BY <1>4 DEF Converted, ja_to_en_usage_id
  <2>3. CASE J = {}
    <3>1. Converted(mode, id, mods) = [id |-> id, mod |-> mods]
      BY <2>2, <2>3 DEF Restroke
    <3>2. IsShifted(mods) = TRUE /\ id = \h2c
      BY <2>1, <2>3, JaIndexIsEngraved
    <3>3. Char(JisSymbols, id, IsShifted(mods)) = "space" /\ Char(UsSymbols, id, IsShifted(mods)) = "space"
      BY <1>3, <3>2, Zenon
    <3> QED
      BY <2>1, <3>1, <3>3
  <2>4. CASE J # {}
    <3>1. \A c \in J : Ascii[c] = Char(JisSymbols, id, IsShifted(mods))
      BY <2>1, JaIndexIsEngraved
    <3> HIDE DEF J
    <3> DEFINE new == Restroke(ASCII_TO_ENGLISH_USAGEID, J, id, mods)
    <3>2. /\ Min(J) \in J /\ new.id \in UsageId \ {0}
          /\ Char(UsSymbols, new.id, IsShifted(new.mod)) = Ascii[Min(J)]
          /\ new.mod \ ShiftKeys = mods \ ShiftKeys
          /\ IsShifted(new.mod) = IsShifted(mods) => new.mod = mods
      <4>1. ASCII_TO_ENGLISH_USAGEID \in [Character -> Strokes \ {0}]
        BY LayoutsAreTyped
      <4>2. Spells(UsSymbols, ASCII_TO_ENGLISH_USAGEID)
        BY LayoutsSpell
      <4>3. \A c \in Character : ASCII_TO_ENGLISH_USAGEID[c] \notin {0, S}
        BY NoCharacterIsEmpty
      <4>4. id \in UsageId
        OBVIOUS
      <4> QED
        BY <1>1, <2>4, <4>1, <4>2, <4>3, <4>4, RestrokeTypes
    <3> HIDE DEF new
    <3>3. Char(UsSymbols, new.id, IsShifted(new.mod)) = Char(JisSymbols, id, IsShifted(mods))
      BY <3>1, <3>2
    <3>4. Goal(new)
      BY <2>1, <3>2, <3>3
    <3> QED
      BY <2>2, <3>4 DEF new
  <2> QED
    BY <2>3, <2>4
<1>5. CASE mode = "en_to_ja"
  <2>1. Keyboard(mode) = UsSymbols /\ System(mode) = JisSymbols
    BY <1>5 DEF Keyboard, System
  <2>2. Converted(mode, id, mods) = Restroke(ASCII_TO_JAPANESE_USAGEID, E, id, mods)
    BY <1>5 DEF Converted, en_to_ja_usage_id
  <2>3. CASE E = {}
    <3>1. Converted(mode, id, mods) = [id |-> id, mod |-> mods]
      BY <2>2, <2>3 DEF Restroke
    <3>2. IsShifted(mods) = TRUE /\ id = \h2c
      BY <2>1, <2>3, EnIndexIsEngraved
    <3>3. Char(JisSymbols, id, IsShifted(mods)) = "space" /\ Char(UsSymbols, id, IsShifted(mods)) = "space"
      BY <1>3, <3>2, Zenon
    <3> QED
      BY <2>1, <3>1, <3>3
  <2>4. CASE E # {}
    <3>1. \A c \in E : Ascii[c] = Char(UsSymbols, id, IsShifted(mods))
      BY <2>1, EnIndexIsEngraved
    <3> HIDE DEF E
    <3> DEFINE new == Restroke(ASCII_TO_JAPANESE_USAGEID, E, id, mods)
    <3>2. /\ Min(E) \in E /\ new.id \in UsageId \ {0}
          /\ Char(JisSymbols, new.id, IsShifted(new.mod)) = Ascii[Min(E)]
          /\ new.mod \ ShiftKeys = mods \ ShiftKeys
          /\ IsShifted(new.mod) = IsShifted(mods) => new.mod = mods
      <4>1. ASCII_TO_JAPANESE_USAGEID \in [Character -> Strokes \ {0}]
        BY LayoutsAreTyped
      <4>2. Spells(JisSymbols, ASCII_TO_JAPANESE_USAGEID)
        BY LayoutsSpell
      <4>3. \A c \in Character : ASCII_TO_JAPANESE_USAGEID[c] \notin {0, S}
        BY NoCharacterIsEmpty
      <4>4. id \in UsageId
        OBVIOUS
      <4> QED
        BY <1>1, <2>4, <4>1, <4>2, <4>3, <4>4, RestrokeTypes
    <3> HIDE DEF new
    <3>3. Char(JisSymbols, new.id, IsShifted(new.mod)) = Char(UsSymbols, id, IsShifted(mods))
      BY <3>1, <3>2
    <3>4. Goal(new)
      BY <2>1, <3>2, <3>3
    <3> QED
      BY <2>2, <3>4 DEF new
  <2> QED
    BY <2>3, <2>4
<1> QED
  BY <1>4, <1>5 DEF Converting

-----------------------------------------------------------------------------
(***************************************************************************)
(* The conversion of a report.                                             *)
(***************************************************************************)
\* After a reset the table changes nothing, as long as Right Win is not held:
\* every key has its slot, every modifier its bit.
LEMMA DefaultChangesNothing ==
  ASSUME 7 \notin TypedMods, NEW keys \in Seq(TypedKeys), Len(keys) <= KeyCount,
         NEW mods \in SUBSET TypedMods
  PROVE  LET report == KeyboardReport(keys, mods)
         IN  modify_report_by_key_table(DefaultKeyTable, report) = report
<1> DEFINE report == KeyboardReport(keys, mods)
           P == Pressed(report)
           N == Normal(DefaultKeyTable, report)
           V == Visited(DefaultKeyTable, report)
           F == Filled(DefaultKeyTable, report)
           out == modify_report_by_key_table(DefaultKeyTable, report)
           n == Len(keys)
<1>1. /\ n \in Nat /\ KeyCount \in Nat /\ keys \in [1 .. n -> TypedKeys]
      /\ mods \subseteq 0 .. 6
  <2>1. mods \subseteq ModifierKey \ {7}
    BY TypingAssumption
  <2> QED
    BY <2>1, LenProperties, SlotsAreNat DEF ModifierKey
<1>2. \A i \in 1 .. n : keys[i] \in ValidUsageId
  BY <1>1, TypingAssumption
<1>3. DefaultKeyTable \in Table /\ report \in Report
  BY DefaultTableIsTyped, KeyboardReportIsTyped
<1>4. report.mod = mods /\ \A s \in 1 .. KeyCount : report.key[s] = IF s <= n THEN keys[s] ELSE 0
  BY DEF KeyboardReport, Slot
<1>5. ASSUME NEW i \in 1 .. 8
      PROVE  /\ i \in P <=> i - 1 \in mods
             /\ i \in P => /\ Image(DefaultKeyTable, report, i) = i - 1 + \hE8
                           /\ ModifierBit(Image(DefaultKeyTable, report, i)) = {i - 1}
                           /\ i \notin N
  <2>1. i \in Scan /\ i <= 8
    BY <1>1 DEF Scan
  <2>2. ScanId(report, i) = IF i - 1 \in mods THEN i - 1 + \hE8 ELSE 0
    BY <1>4, <2>1 DEF ScanId, PseudoUsageId
  <2>3. i - 1 + \hE8 # 0
    OBVIOUS
  <2>4. i \in P <=> i - 1 \in mods
    BY <2>1, <2>2, <2>3 DEF Pressed
  <2>5. ASSUME i \in P
        PROVE  Image(DefaultKeyTable, report, i) = i - 1 + \hE8
    <3>1. i - 1 \in 0 .. 6 /\ i - 1 + \hE8 \in KeyIds /\ i - 1 + \hE8 < \hE7 + 8
      BY <1>1, <2>4, <2>5 DEF KeyIds
    <3> QED
      BY <2>2, <2>4, <2>5, <3>1 DEF Image, DefaultKeyTable
  <2>6. ModifierBit(i - 1 + \hE8) = {i - 1} /\ IsModifierId(i - 1 + \hE8)
    <3>1. (i - 1 + \hE8) - \hE8 = i - 1 /\ i - 1 \in ModifierKey
      BY DEF ModifierKey
    <3>2. {i - 1} \cap ModifierKey = {i - 1}
      BY <3>1
    <3> QED
      BY <3>1, <3>2 DEF ModifierBit, IsModifierId
  <2> QED
    BY <2>4, <2>5, <2>6 DEF Normal
<1>6. ASSUME NEW i \in 9 .. 8 + KeyCount
      PROVE  /\ i \in P <=> i <= 8 + n
             /\ i \in P => Image(DefaultKeyTable, report, i) = keys[i - 8] /\ i \in N
  <2>1. i \in Scan /\ ~(i <= 8) /\ i - 8 \in 1 .. KeyCount
    BY <1>1 DEF Scan
  <2>2. CASE i <= 8 + n
    <3>1. i - 8 \in 1 .. n /\ report.key[i - 8] = keys[i - 8] /\ keys[i - 8] \in ValidUsageId
      BY <1>1, <1>2, <1>4, <2>1, <2>2
    <3>2. ScanId(report, i) = keys[i - 8]
      BY <2>1, <3>1 DEF ScanId
    <3>3. /\ keys[i - 8] # 0 /\ keys[i - 8] \in KeyIds /\ keys[i - 8] < \hE7 + 8
          /\ ~IsModifierId(keys[i - 8])
      <4>1. \A u \in ValidUsageId : u # 0 /\ u \in KeyIds /\ u < \hE7 + 8 /\ ~IsModifierId(u)
        BY DEF ValidUsageId, KeyIds, IsModifierId
      <4> QED
        BY <3>1, <4>1
    <3>4. i \in P /\ Image(DefaultKeyTable, report, i) = keys[i - 8]
      BY <2>1, <3>2, <3>3 DEF Pressed, Image, DefaultKeyTable
    <3> QED
      BY <2>2, <3>3, <3>4 DEF Normal
  <2>3. CASE ~(i <= 8 + n)
    <3>1. report.key[i - 8] = 0 /\ 0 \notin ValidUsageId
      BY <1>1, <1>4, <2>1, <2>3 DEF ValidUsageId
    <3>2. ScanId(report, i) = 0
      BY <2>1, <3>1 DEF ScanId
    <3> QED
      BY <2>3, <3>2 DEF Pressed
  <2> QED
    BY <2>2, <2>3
<1>7. \A i \in P : i \in 1 .. 8 \/ i \in 9 .. 8 + KeyCount
  BY <1>1 DEF Pressed, Scan
<1>8. N = 9 .. 8 + n
  <2>1. N \subseteq P
    BY DEF Normal
  <2>2. \A i \in N : i \in 9 .. 8 + n
    BY <1>1, <1>5, <1>6, <1>7, <2>1
  <2>3. \A i \in 9 .. 8 + n : i \in 9 .. 8 + KeyCount /\ i <= 8 + n
    BY <1>1
  <2>4. \A i \in 9 .. 8 + n : i \in N
    BY <1>6, <2>3
  <2> QED
    BY <2>2, <2>4
<1>9. Cardinality(N) = n
  <2>1. 9 \in Int /\ 8 + n \in Int /\ (9 > 8 + n => n = 0) /\ (8 + n) - 9 + 1 = n
    BY <1>1
  <2> QED
    BY <1>8, <2>1, FS_Interval
<1>10. F = N /\ V \ F = {i \in P : i \in 1 .. 8}
  <2>1. F = N
    BY <1>1, <1>3, <1>9, ScanIsComplete
  <2>2. ASSUME NEW i \in P, i \in 1 .. 8
        PROVE  i \in V /\ i \notin F
    <3>1. {j \in N : j < i} = {}
      BY <1>1, <1>8, <2>2
    <3>2. Before(N, i) = 0
      BY <3>1, FS_EmptySet DEF Before
    <3> QED
      BY <1>5, <2>1, <2>2, <3>2, SlotsAreNat DEF Visited
  <2>3. ASSUME NEW i \in V \ F
        PROVE  i \in P /\ i \in 1 .. 8
    <3>1. i \in P /\ i \notin N
      BY <2>1, <2>3 DEF Visited
    <3> QED
      BY <1>6, <1>7, <3>1
  <2> QED
    BY <2>1, <2>2, <2>3
<1>11. out.mod = mods
  <2>1. out.mod = UNION {ModifierBit(Image(DefaultKeyTable, report, i)) : i \in V \ F}
    BY DEF modify_report_by_key_table, Filled
  <2>2. \A i \in V \ F : ModifierBit(Image(DefaultKeyTable, report, i)) = {i - 1} /\ i - 1 \in mods
    BY <1>5, <1>10
  <2>3. ASSUME NEW m \in mods
        PROVE  m + 1 \in V \ F /\ (m + 1) - 1 = m
    <3>1. m + 1 \in 1 .. 8 /\ (m + 1) - 1 = m
      BY <1>1
    <3> QED
      BY <1>5, <1>10, <3>1
  <2> HIDE DEF V, F, out, report
  <2>4. \A m \in mods : m \in out.mod
    BY <2>1, <2>2, <2>3
  <2>5. \A m \in out.mod : m \in mods
    BY <2>1, <2>2
  <2> QED
    BY <2>4, <2>5
<1>12. ASSUME NEW t \in 1 .. n
       PROVE  8 + t \in F /\ Before(F, 8 + t) = t - 1
  <2>1. 8 + t \in N
    BY <1>1, <1>8
  <2>2. {j \in N : j < 8 + t} = 9 .. 8 + (t - 1)
    BY <1>1, <1>8
  <2>3. 9 \in Int /\ 8 + (t - 1) \in Int /\ (9 > 8 + (t - 1) => t - 1 = 0)
        /\ (8 + (t - 1)) - 9 + 1 = t - 1
    BY <1>1
  <2>4. Cardinality(9 .. 8 + (t - 1)) = t - 1
    BY <2>3, FS_Interval
  <2> QED
    BY <1>10, <2>1, <2>2, <2>4 DEF Before
<1>13. ASSUME NEW s \in Slot
       PROVE  out.key[s] = IF s <= n THEN keys[s] ELSE 0
  <2>1. out.key[s] = IF Nth(DefaultKeyTable, report, s) = {} THEN 0
                     ELSE Image(DefaultKeyTable, report, CHOOSE i \in Nth(DefaultKeyTable, report, s) : TRUE)
    BY <1>3, SlotOfRank
  <2>2. s \in 1 .. KeyCount
    BY DEF Slot
  <2>3. ASSUME NEW i \in Nth(DefaultKeyTable, report, s)
        PROVE  i = 8 + s /\ s \in 1 .. n
    <3>1. i \in 9 .. 8 + n /\ Before(F, i) = s - 1
      BY <1>8, <1>10, <2>3 DEF Nth
    <3>2. i - 8 \in 1 .. n /\ 8 + (i - 8) = i
      BY <1>1, <3>1
    <3>3. Before(F, i) = (i - 8) - 1
      BY <1>12, <3>2
    <3> QED
      BY <1>1, <2>2, <3>1, <3>2, <3>3
  <2>4. CASE s <= n
    <3>1. s \in 1 .. n
      BY <1>1, <2>2, <2>4
    <3>2. 8 + s \in Nth(DefaultKeyTable, report, s)
      BY <1>12, <3>1 DEF Nth
    <3>3. (CHOOSE i \in Nth(DefaultKeyTable, report, s) : TRUE) = 8 + s
      BY <2>3, <3>2
    <3>4. Image(DefaultKeyTable, report, 8 + s) = keys[s]
      <4>1. 8 + s \in 9 .. 8 + KeyCount /\ 8 + s <= 8 + n /\ (8 + s) - 8 = s
        BY <1>1, <2>2, <2>4
      <4> QED
        BY <1>6, <4>1
    <3> QED
      BY <2>1, <2>4, <3>2, <3>3, <3>4
  <2>5. CASE ~(s <= n)
    <3>1. Nth(DefaultKeyTable, report, s) = {}
      BY <1>1, <2>2, <2>3, <2>5
    <3> QED
      BY <2>1, <2>5, <3>1
  <2> QED
    BY <2>4, <2>5
<1> QED
  <2>1. out.key = [s \in Slot |-> out.key[s]] /\ out = [mod |-> out.mod, key |-> out.key]
    BY DEF modify_report_by_key_table
  <2>2. report = [mod |-> mods, key |-> [s \in Slot |-> IF s <= n THEN keys[s] ELSE 0]]
    BY DEF KeyboardReport
  <2> HIDE DEF out, report
  <2>3. out.key = [s \in Slot |-> IF s <= n THEN keys[s] ELSE 0]
    BY <1>13, <2>1
  <2> QED
    BY <1>11, <2>1, <2>2, <2>3 DEF out, report

\* No key changes the modifiers, or there is only one.
LeavesModifiers(mode, keys, mods, after) ==
  /\ Len(keys) # 1 => after = mods
  /\ \A s \in 1 .. Len(keys) : /\ Converted(mode, keys[s], mods).mod = after
                              /\ Converted(mode, keys[s], mods).id # 0

\* Then the conversion of the report is that of its keys, each with the
\* modifiers held.
LEMMA ReportIsConverted ==
  ASSUME 7 \notin TypedMods, NEW mode \in Converting,
         NEW keys \in Seq(TypedKeys), Len(keys) <= KeyCount,
         NEW mods \in SUBSET TypedMods, NEW after, LeavesModifiers(mode, keys, mods, after)
  PROVE  modify_report(DefaultKeyTable, mode, KeyboardReport(keys, mods)) =
           [mod |-> after,
            key |-> [s \in Slot |-> IF s <= Len(keys)
                                    THEN Converted(mode, keys[s], mods).id ELSE 0]]
<1> DEFINE report == KeyboardReport(keys, mods)
           new(s) == Converted(mode, keys[s], mods)
           slots(n) == [s \in Slot |-> IF s <= Len(keys)
                                       THEN IF s <= n THEN new(s).id ELSE keys[s]
                                       ELSE 0]
           h == [n \in 0 .. KeyCount |-> [mod |-> IF n = 0 THEN mods ELSE after, key |-> slots(n)]]
<1>1. KeyCount \in Nat /\ KeyCount # 0 /\ Slot = 1 .. KeyCount /\ Len(keys) \in Nat
  BY SlotsAreNat, LenProperties DEF Slot
<1> USE DEF LeavesModifiers
<1>2. h[0] = report
  <2>1. 0 \in 0 .. KeyCount /\ \A s \in Slot : ~(s <= 0)
    BY <1>1
  <2>2. slots(0) = [s \in Slot |-> IF s <= Len(keys) THEN keys[s] ELSE 0]
    BY <2>1
  <2>3. h[0] = [mod |-> mods, key |-> slots(0)]
    BY <2>1
  <2> HIDE DEF h, slots
  <2> QED
    BY <2>2, <2>3 DEF KeyboardReport
<1>3. ASSUME NEW n \in Slot
      PROVE  h[n] = SlotConverted(mode, h[n - 1], n)
  <2>1. n \in 0 .. KeyCount /\ n # 0 /\ n - 1 \in 0 .. KeyCount /\ (n - 1 = 0 <=> n = 1)
    BY <1>1
  <2> DEFINE r == [mod |-> IF n = 1 THEN mods ELSE after, key |-> slots(n - 1)]
             c == Converted(mode, r.key[n], r.mod)
  <2>2. h[n] = [mod |-> after, key |-> slots(n)] /\ h[n - 1] = r
    BY <2>1
  <2>3. ~(n <= n - 1)
    BY <2>1
  <2>4. c.mod = after /\ c.id = IF n <= Len(keys) THEN new(n).id ELSE 0
    <3>1. CASE n <= Len(keys)
      <4>1. r.key[n] = keys[n]
        BY <2>3, <3>1
      <4>2. r.mod = mods /\ n \in 1 .. Len(keys)
        BY <1>1, <3>1
      <4> QED
        BY <3>1, <4>1, <4>2
    <3>2. CASE ~(n <= Len(keys))
      <4>1. r.key[n] = 0
        BY <3>2
      <4>2. c = [id |-> 0, mod |-> r.mod]
        BY <4>1, EmptySlotStays
      <4>3. r.mod = after
        BY <1>1, <3>2
      <4> QED
        BY <3>2, <4>2, <4>3
    <3> QED
      BY <3>1, <3>2
  <2> DEFINE id == c.id
  <2>5. slots(n) = [slots(n - 1) EXCEPT ![n] = id]
    <3> SUFFICES ASSUME NEW s \in Slot
                 PROVE  slots(n)[s] = [slots(n - 1) EXCEPT ![n] = id][s]
      OBVIOUS
    <3>1. CASE s = n
      BY <2>1, <2>4, <3>1
    <3>2. CASE s # n
      <4>1. s <= n <=> s <= n - 1
        BY <1>1, <3>2
      <4> QED
        BY <3>2, <4>1
    <3> QED
      BY <3>1, <3>2
  <2>6. SlotConverted(mode, r, n) = [mod |-> c.mod, key |-> [slots(n - 1) EXCEPT ![n] = id]]
    BY DEF SlotConverted
  <2> HIDE DEF h, slots, c, r, id
  <2> QED
    BY <2>2, <2>4, <2>5, <2>6
<1>4. modify_report_by_key_table(DefaultKeyTable, report) = report
  BY DefaultChangesNothing
<1>5. h[KeyCount] = [mod |-> after,
                     key |-> [s \in Slot |-> IF s <= Len(keys) THEN new(s).id ELSE 0]]
  <2>1. KeyCount \in 0 .. KeyCount /\ \A s \in Slot : s <= KeyCount
    BY <1>1
  <2>2. slots(KeyCount) = [s \in Slot |-> IF s <= Len(keys) THEN new(s).id ELSE 0]
    BY <2>1
  <2>3. h[KeyCount] = [mod |-> after, key |-> slots(KeyCount)]
    BY <1>1, <2>1
  <2> HIDE DEF h, slots, new
  <2> QED
    BY <2>2, <2>3
<1> HIDE DEF h, report
<1>6. ReportConverted(mode, report) = h[KeyCount]
  BY <1>2, <1>3, LoopIs
<1>7. modify_report(DefaultKeyTable, mode, report) = h[KeyCount]
  BY <1>4, <1>6 DEF modify_report, ReportConverted, Converting
<1> QED
  BY <1>5, <1>7 DEF report

\* The usage ids in such a report.
LEMMA IdsAreConverted ==
  ASSUME 7 \notin TypedMods, NEW mode \in Converting,
         NEW keys \in Seq(TypedKeys), Len(keys) <= KeyCount,
         NEW mods \in SUBSET TypedMods, NEW after, LeavesModifiers(mode, keys, mods, after)
  PROVE  /\ modify_report(DefaultKeyTable, mode, KeyboardReport(keys, mods)).mod = after
         /\ Ids(modify_report(DefaultKeyTable, mode, KeyboardReport(keys, mods))) =
              {Converted(mode, keys[s], mods).id : s \in 1 .. Len(keys)}
<1> DEFINE report == modify_report(DefaultKeyTable, mode, KeyboardReport(keys, mods))
<1>1. KeyCount \in Nat /\ Slot = 1 .. KeyCount /\ Len(keys) \in Nat
  BY SlotsAreNat, LenProperties DEF Slot
<1>2. \A s \in Slot : s <= Len(keys) <=> s \in 1 .. Len(keys)
  BY <1>1
<1>3. \A s \in 1 .. Len(keys) : s \in Slot
  BY <1>1
<1>4. report = [mod |-> after,
                key |-> [s \in Slot |-> IF s <= Len(keys)
                                        THEN Converted(mode, keys[s], mods).id ELSE 0]]
  BY ReportIsConverted
<1> HIDE DEF report
<1>5. report.mod = after
  BY <1>4
<1>6. \A s \in Slot : report.key[s] = IF s <= Len(keys) THEN Converted(mode, keys[s], mods).id ELSE 0
  BY <1>4
<1> QED
  BY <1>2, <1>3, <1>5, <1>6 DEF Ids, report, LeavesModifiers

-----------------------------------------------------------------------------
(***************************************************************************)
(* The strokes of a press: what the PC has now and would not have without  *)
(* the key that went down last.                                            *)
(***************************************************************************)
StruckIsNew ==
  \A u \in TypedKeys : pressed = Key(u) =>
    \E before \in Seq(TypedKeys) :
      /\ down = Append(before, u)
      /\ struck = {<<v, IsShifted(dst.mod)>> : v \in
                     Ids(dst) \ Ids(modify_report(keyTable, langMode, KeyboardReport(before, mod)))}

LEMMA PressIsNew ==
  ASSUME Inv, [Next]_vars, StruckIsNew
  PROVE  StruckIsNew'
<1>1. \A u : Key(u) # NoKey /\ \A v : Key(u) = Key(v) => u = v
  BY DEF Key, NoKey
<1>2. \A u, m : Key(u) # Mod(m)
  BY DEF Key, Mod
<1>3. ASSUME NEW u \in TypedKeys, Press(u)
      PROVE  StruckIsNew'
  <2>1. down \in Seq(TypedKeys) /\ dst = modify_report(keyTable, langMode, KeyboardReport(down, mod))
    BY DEF Inv, KeysOK, HeldIsSent
  <2>2. /\ down' = Append(down, u) /\ pressed' = Key(u)
        /\ UNCHANGED <<keyTable, langMode, mod>>
        /\ struck' = {<<v, IsShifted(dst'.mod)>> : v \in Ids(dst') \ Ids(dst)}
    BY <1>3 DEF Press, Send, Convert
  <2>3. dst = modify_report(keyTable', langMode', KeyboardReport(down, mod'))
    BY <2>1, <2>2
  <2>4. /\ down' = Append(down, u)
        /\ struck' = {<<v, IsShifted(dst'.mod)>> : v \in
             Ids(dst') \ Ids(modify_report(keyTable', langMode', KeyboardReport(down, mod')))}
    BY <2>2, <2>3
  <2> QED
    BY <1>1, <2>1, <2>2, <2>4 DEF StruckIsNew
<1>4. CASE pressed' = NoKey \/ \E m \in TypedMods : pressed' = Mod(m)
  BY <1>1, <1>2, <1>4 DEF StruckIsNew
<1>5. CASE UNCHANGED vars
  BY <1>5 DEF StruckIsNew, vars
<1> QED
  BY <1>3, <1>4, <1>5, EntriesKeepInv
  DEF Next, PressModifier, ReleaseModifier, Release, Send, Convert, reset_key_table,
      set_lang_convert_mode, Configure

LEMMA StruckInvariant == Spec => [](Inv /\ StruckIsNew)
<1>1. Init => StruckIsNew
  BY DEF Init, StruckIsNew, Key, NoKey
<1>2. Inv /\ StruckIsNew /\ [Next]_vars => StruckIsNew'
  BY PressIsNew
<1> QED
  BY <1>1, <1>2, TypingInvariant, PTL DEF Spec

\* In either direction, when keys are engraved and one is pressed that no
\* other of the held keys has the character of: it alone is struck.
LEMMA PressTypesEngraved ==
  ASSUME 7 \notin TypedMods, Inv, StruckIsNew, NEW u \in TypedKeys, Struck(u),
         Len(down) = 1 \/ \A i \in DOMAIN down : ~ChangesShift(down[i])
  PROVE  TypesEngraved(u) /\ dst.mod \ ShiftKeys = mod \ ShiftKeys
<1> DEFINE new(k) == Converted(langMode, k, mod)
           after == IF Len(down) = 1 THEN new(down[1]).mod ELSE mod
<1>1. /\ down \in Seq(TypedKeys) /\ Len(down) \in Nat /\ DOMAIN down = 1 .. Len(down)
      /\ Distinct(down) /\ Len(down) <= KeyCount
      /\ mod \in SUBSET TypedMods /\ mod \in SUBSET ModifierKey
  BY LenProperties, TypingAssumption, SlotsAreNat DEF Inv, KeysOK
<1>2. langMode \in Converting /\ keyTable = DefaultKeyTable /\ pressed = Key(u)
  BY DEF Struck, Inv, TablesOK, LangMode, Converting
<1>3. Engraved = Keyboard(langMode) /\ OsLayout = System(langMode)
  BY <1>2 DEF Engraved, OsLayout, Keyboard, System
<1>4. TypedKeys \subseteq UsageId \ {0}
  BY TypingAssumption DEF ValidUsageId, UsageId
<1>5. PICK before \in Seq(TypedKeys) :
        /\ down = Append(before, u)
        /\ struck = {<<v, IsShifted(dst.mod)>> : v \in
             Ids(dst) \ Ids(modify_report(keyTable, langMode, KeyboardReport(before, mod)))}
  BY <1>2 DEF StruckIsNew
<1>6. /\ Len(before) \in Nat /\ Len(down) = Len(before) + 1
      /\ \A i \in 1 .. Len(before) : down[i] = before[i]
      /\ down[Len(down)] = u
  BY <1>5, AppendProperties, LenProperties
<1>7. \A i \in 1 .. Len(before) : down[i] # u
  <2>1. \A i \in 1 .. Len(before) : i \in DOMAIN down /\ Len(down) \in DOMAIN down /\ i # Len(down)
    BY <1>1, <1>6
  <2> QED
    BY <1>6, <2>1, <1>1 DEF Distinct
<1>8. ASSUME NEW i \in 1 .. Len(down)
      PROVE  /\ new(down[i]).id \in UsageId \ {0}
             /\ Char(OsLayout, new(down[i]).id, IsShifted(new(down[i]).mod)) = EngravedOn(down[i])
             /\ new(down[i]).mod \ ShiftKeys = mod \ ShiftKeys
             /\ new(down[i]).mod = after
  <2>1. down[i] \in TypedKeys /\ down[i] \in UsageId \ {0}
    BY <1>1, <1>4, LenProperties
  <2>2. EngravedOn(down[i]) # "none"
    BY <1>1, <1>2 DEF Struck
  <2>3. Char(Keyboard(langMode), down[i], IsShifted(mod)) # "none"
    BY <1>3, <2>2 DEF EngravedOn
  <2>4. /\ new(down[i]).id \in UsageId \ {0}
        /\ Char(System(langMode), new(down[i]).id, IsShifted(new(down[i]).mod)) =
             Char(Keyboard(langMode), down[i], IsShifted(mod))
        /\ new(down[i]).mod \ ShiftKeys = mod \ ShiftKeys
        /\ IsShifted(new(down[i]).mod) = IsShifted(mod) => new(down[i]).mod = mod
    BY <1>1, <1>2, <2>1, <2>3, KeyIsConverted
  <2>5. new(down[i]).mod = after
    <3>1. CASE Len(down) = 1
      BY <1>1, <3>1
    <3>2. CASE Len(down) # 1
      <4>1. ~ChangesShift(down[i])
        BY <1>1, <3>2
      <4>2. IsShifted(new(down[i]).mod) = IsShifted(mod)
        BY <4>1 DEF ChangesShift, Converted
      <4> QED
        BY <2>4, <3>2, <4>2
    <3> QED
      BY <3>1, <3>2
  <2> QED
    BY <1>3, <2>4, <2>5 DEF EngravedOn
<1>9. /\ dst.mod = after
      /\ Ids(dst) = {new(down[s]).id : s \in 1 .. Len(down)}
  <2>1. dst = modify_report(DefaultKeyTable, langMode, KeyboardReport(down, mod))
    BY <1>2 DEF Inv, HeldIsSent
  <2>2. \A s \in 1 .. Len(down) : new(down[s]).mod = after /\ new(down[s]).id # 0
    BY <1>8
  <2>3. LeavesModifiers(langMode, down, mod, after)
    BY <2>2 DEF LeavesModifiers
  <2> HIDE DEF after
  <2> QED
    BY <1>1, <1>2, <2>1, <2>3, IdsAreConverted
<1>10. Ids(modify_report(keyTable, langMode, KeyboardReport(before, mod))) =
         {new(before[s]).id : s \in 1 .. Len(before)}
  <2>1. Len(before) # 0 => after = mod
    BY <1>6
  <2>2. \A s \in 1 .. Len(before) : s \in 1 .. Len(down) /\ before[s] = down[s] /\ Len(before) # 0
    BY <1>6
  <2>3. \A s \in 1 .. Len(before) : new(before[s]).mod = mod /\ new(before[s]).id # 0
    BY <1>8, <2>1, <2>2
  <2>4. Len(before) <= KeyCount
    BY <1>1, <1>6, SlotsAreNat
  <2>5. LeavesModifiers(langMode, before, mod, mod)
    BY <2>3 DEF LeavesModifiers
  <2> HIDE DEF after
  <2> QED
    BY <1>1, <1>2, <2>4, <2>5, IdsAreConverted
<1>11. struck = {<<new(u).id, IsShifted(after)>>}
  <2> DEFINE Old == {new(before[s]).id : s \in 1 .. Len(before)}
  <2>1. Len(down) \in 1 .. Len(down)
    BY <1>1, <1>6
  <2>2. new(u).id \in Ids(dst) /\ \A v \in Ids(dst) : v = new(u).id \/ v \in Old
    <3>1. \A s \in 1 .. Len(down) : s = Len(down) \/ s \in 1 .. Len(before)
      BY <1>6
    <3> HIDE DEF new
    <3> QED
      BY <1>6, <1>9, <2>1, <3>1
  <2>3. ASSUME NEW s \in 1 .. Len(before)
        PROVE  new(before[s]).id # new(u).id
    <3>1. s \in 1 .. Len(down) /\ before[s] = down[s] /\ before[s] # u
      BY <1>6, <1>7
    <3>2. EngravedOn(before[s]) # EngravedOn(u)
      BY <1>1, <3>1 DEF Struck
    <3>3. /\ Char(OsLayout, new(before[s]).id, IsShifted(after)) = EngravedOn(before[s])
          /\ Char(OsLayout, new(u).id, IsShifted(after)) = EngravedOn(u)
      BY <1>6, <1>8, <2>1, <3>1
    <3> HIDE DEF new
    <3> QED
      BY <3>2, <3>3
  <2> HIDE DEF new, after
  <2>4. Ids(dst) \ Old = {new(u).id}
    BY <2>2, <2>3
  <2>5. struck = {<<v, IsShifted(after)>> : v \in {new(u).id}}
    BY <1>5, <1>9, <1>10, <2>4
  <2> QED
    BY <2>5
<1>12. TypesEngraved(u)
  <2>1. Len(down) \in 1 .. Len(down)
    BY <1>1, <1>6
  <2>2. Char(OsLayout, new(u).id, IsShifted(after)) = EngravedOn(u)
    BY <1>6, <1>8, <2>1
  <2> HIDE DEF new, after
  <2>3. Typed = {Char(OsLayout, new(u).id, IsShifted(after))}
    BY <1>11 DEF Typed
  <2> QED
    BY <2>2, <2>3 DEF TypesEngraved
<1>13. dst.mod \ ShiftKeys = mod \ ShiftKeys
  <2>1. Len(down) \in 1 .. Len(down)
    BY <1>1, <1>6
  <2> QED
    BY <1>8, <1>9, <2>1
<1> QED
  BY <1>12, <1>13

\* One key at a time: with a keyboard of one layout and a system of the other,
\* every key types the character engraved on it, with shift and without, and
\* the other modifiers are untouched: for all keys and modifiers but Right Win,
\* whose default entry is missing, any number of slots.
THEOREM SingleKey ==
  ASSUME 7 \notin TypedMods
  PROVE  Spec => []SingleKeyIsEngraved
<1>1. Inv /\ StruckIsNew => SingleKeyIsEngraved
  BY PressTypesEngraved DEF SingleKeyIsEngraved
<1> QED
  BY <1>1, StruckInvariant, PTL

\* Fast typing: so does a key that is pressed while others, with different
\* characters, are still held, as many as the report has slots, if none of
\* them needs another shift state in the layout of the system.  A key that was
\* there before is not struck again.
THEOREM FastTyping ==
  ASSUME 7 \notin TypedMods
  PROVE  Spec => []FastTypingIsEngraved
<1>1. Inv /\ StruckIsNew => FastTypingIsEngraved
  BY PressTypesEngraved DEF FastTypingIsEngraved
<1> QED
  BY <1>1, StruckInvariant, PTL

\* Without updates since the last reset the table is the default one.
TableIsReset == updates \in Nat /\ (updates = 0 => keyTable = DefaultKeyTable)

LEMMA ResetInvariant == Spec => []TableIsReset
<1>1. Init => TableIsReset
  BY DEF Init, TableIsReset
<1>2. TableIsReset /\ [Next]_vars => TableIsReset'
  <2> SUFFICES ASSUME TableIsReset, [Next]_vars PROVE TableIsReset'
    OBVIOUS
  <2>1. CASE UNCHANGED <<keyTable, updates>>
    BY <2>1 DEF TableIsReset
  <2>2. CASE updates' = updates + 1
    BY <2>2 DEF TableIsReset
  <2>3. CASE reset_key_table
    BY <2>3 DEF TableIsReset, reset_key_table
  <2> QED
    BY <2>1, <2>2, <2>3
    DEF Next, vars, Press, PressModifier, Release, ReleaseModifier, Send, Convert, Update,
        UpdateInHaste, update_key_table, set_lang_convert_mode
<1> QED
  BY <1>1, <1>2, PTL DEF Spec

\* Right Win is the only key that a reset leaves out (the run that finds it
\* checks the same property): for all others it makes the report of a key the
\* one that the keyboard sent.
THEOREM ResetRestoresOthers ==
  ASSUME 7 \notin TypedMods
  PROVE  Spec => []ResetMapsKeysToThemselves
<1>1. Inv /\ TableIsReset => ResetMapsKeysToThemselves
  <2> SUFFICES ASSUME Inv, langMode = "none", keyTable = DefaultKeyTable
               PROVE  dst = KeyboardReport(down, mod)
    BY DEF TableIsReset, ResetMapsKeysToThemselves
  <2>1. down \in Seq(TypedKeys) /\ Len(down) <= KeyCount /\ mod \in SUBSET TypedMods
    BY LenProperties, TypingAssumption, SlotsAreNat DEF Inv, KeysOK
  <2> QED
    BY <2>1, DefaultChangesNothing DEF Inv, HeldIsSent, modify_report
<1> QED
  BY <1>1, TypingInvariant, ResetInvariant, PTL
=============================================================================

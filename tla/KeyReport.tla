----------------------------- MODULE KeyReport -----------------------------
(***************************************************************************)
(* firmware/KeyTable.c: what is done to one input report.  The operators   *)
(* are named after the C functions.                                        *)
(*                                                                         *)
(* A report is the modifier byte, as the set of its bits, and the key      *)
(* slots.  Byte 1, which is always 0, is left out.                         *)
(***************************************************************************)
EXTENDS Integers, FiniteSets, FiniteSetsExt

CONSTANT KeyCount   \* key slots of a report: INPUT_REPORT_SIZE - 2 = 6

ASSUME KeyCountAssumption == KeyCount \in Nat \ {0}

ModifierKey == 0 .. 7            \* MODIFIER_KEY_ENUM
ShiftKeys == {1, 5}              \* SHIFT_KEY_BITMAP
LeftShift == 1                   \* LEFT_SHIFT_KEY_BIT

UsageId == 0 .. 255              \* uint8
ValidUsageId == \h04 .. \hE7     \* is_usage_id_valid()
\* Mutant: one too low.
PseudoUsageId_Low(m) == m + \hE7
PseudoUsageId(m) == m + \hE8     \* MODIFIRE_KEY_TO_PSEUDO_USAGE_ID
IsModifierId(u) == u > \hE7      \* IS_THIS_USAGE_ID_MODIFIER
KeyIds == \h04 .. \hEF           \* the entries of m_key_table that are read

\* 1 << PSEUDO_USAGE_ID_TO_MODIFIRE_KEY(u), stored in a byte: beyond bit 7
\* nothing is left of it.
ModifierBit(u) == {u - \hE8} \cap ModifierKey

Slot == 1 .. KeyCount
Report == [mod : SUBSET ModifierKey, key : [Slot -> UsageId]]
ZeroReport == [mod |-> {}, key |-> [s \in Slot |-> 0]]

-----------------------------------------------------------------------------
(***************************************************************************)
(* modify_report_by_key_table().  The scan visits the modifier bits first  *)
(* (positions 1 to 8), then the key slots; ScanId is the index into        *)
(* m_key_table at a position, 0 when the position is skipped.              *)
(***************************************************************************)
Scan == 1 .. 8 + KeyCount
ScanId(report, i) ==
  IF i <= 8 THEN IF i - 1 \in report.mod THEN PseudoUsageId(i - 1) ELSE 0
            ELSE IF report.key[i - 8] \in ValidUsageId THEN report.key[i - 8] ELSE 0

Pressed(report) == {i \in Scan : ScanId(report, i) # 0}
Image(table, report, i) == table[ScanId(report, i)]
Normal(table, report) == {i \in Pressed(report) : ~IsModifierId(Image(table, report, i))}

\* Entries of S before i: the slots filled when the scan gets to i.
Before(S, i) == Cardinality({j \in S : j < i})

\* Mutant: the scan stops a slot too early.
Visited_Early(table, report) ==
  {i \in Pressed(report) : Before(Normal(table, report), i) < KeyCount - 1}

\* The scan stops as soon as the last slot is filled.
Visited(table, report) ==
  {i \in Pressed(report) : Before(Normal(table, report), i) < KeyCount}

modify_report_by_key_table(table, report) ==
  LET visited == Visited(table, report)
      normal == visited \cap Normal(table, report)
      nth(s) == {i \in normal : Before(normal, i) = s - 1}
  IN  [mod |-> UNION {ModifierBit(Image(table, report, i)) : i \in visited \ normal},
       key |-> [s \in Slot |->
                  IF nth(s) = {} THEN 0
                  ELSE Image(table, report, CHOOSE i \in nth(s) : TRUE)]]

-----------------------------------------------------------------------------
(***************************************************************************)
(* The two layouts, from space to ~: usage id, plus S when shift is needed. *)
(***************************************************************************)
S == 256

ASCII_TO_JAPANESE_USAGEID == <<
  \h2c, S+\h1e, S+\h1f, S+\h20, S+\h21, S+\h22, S+\h23, S+\h24, S+\h25,
  S+\h26, S+\h34, S+\h33, \h36, \h2d, \h37, \h38, \h27, \h1e, \h1f, \h20,
  \h21, \h22, \h23, \h24, \h25, \h26, \h34, \h33, S+\h36, S+\h2d, S+\h37,
  S+\h38, \h2f, S+\h04, S+\h05, S+\h06, S+\h07, S+\h08, S+\h09, S+\h0a,
  S+\h0b, S+\h0c, S+\h0d, S+\h0e, S+\h0f, S+\h10, S+\h11, S+\h12, S+\h13,
  S+\h14, S+\h15, S+\h16, S+\h17, S+\h18, S+\h19, S+\h1a, S+\h1b, S+\h1c,
  S+\h1d, \h30, \h87, \h32, \h2e, S+\h87, S+\h2f, \h04, \h05, \h06, \h07,
  \h08, \h09, \h0a, \h0b, \h0c, \h0d, \h0e, \h0f, \h10, \h11, \h12, \h13,
  \h14, \h15, \h16, \h17, \h18, \h19, \h1a, \h1b, \h1c, \h1d, S+\h30, S+\h89,
  S+\h32, S+\h2e >>

ASCII_TO_ENGLISH_USAGEID == <<
  \h2c, S+\h1e, S+\h34, S+\h20, S+\h21, S+\h22, S+\h24, \h34, S+\h26, S+\h27,
  S+\h25, S+\h2e, \h36, \h2d, \h37, \h38, \h27, \h1e, \h1f, \h20, \h21, \h22,
  \h23, \h24, \h25, \h26, S+\h33, \h33, S+\h36, \h2e, S+\h37, S+\h38, S+\h1f,
  S+\h04, S+\h05, S+\h06, S+\h07, S+\h08, S+\h09, S+\h0a, S+\h0b, S+\h0c,
  S+\h0d, S+\h0e, S+\h0f, S+\h10, S+\h11, S+\h12, S+\h13, S+\h14, S+\h15,
  S+\h16, S+\h17, S+\h18, S+\h19, S+\h1a, S+\h1b, S+\h1c, S+\h1d, \h2f, \h31,
  \h30, S+\h23, S+\h2d, \h35, \h04, \h05, \h06, \h07, \h08, \h09, \h0a, \h0b,
  \h0c, \h0d, \h0e, \h0f, \h10, \h11, \h12, \h13, \h14, \h15, \h16, \h17,
  \h18, \h19, \h1a, \h1b, \h1c, \h1d, S+\h2f, S+\h31, S+\h30, S+\h35 >>

IsShifted(mod) == mod \cap ShiftKeys # {}
Stroke(id, mod) == IF IsShifted(mod) THEN S + id ELSE id

\* The characters with a stroke; the C functions return the first.
CharsOf(layout) ==
  [stroke \in 0 .. 2 * S - 1 |-> {c \in DOMAIN layout : layout[c] = stroke}]
EnglishChars == CharsOf(ASCII_TO_ENGLISH_USAGEID)
JapaneseChars == CharsOf(ASCII_TO_JAPANESE_USAGEID)

en_usageid_to_ascii_tableindex(id, mod) == EnglishChars[Stroke(id, mod)]

BackSlash == 61                  \* '\\' - ' ' + 1
ja_usageid_to_ascii_tableindex(id, mod) ==
  IF id = \h89 /\ ~IsShifted(mod) THEN {BackSlash} ELSE JapaneseChars[Stroke(id, mod)]

\* Mutant: shift is added, never taken away.
Restroke_KeepShift(layout, index, id, mod) ==
  IF index = {} THEN [id |-> id, mod |-> mod]
  ELSE LET stroke == layout[Min(index)]
       IN  IF stroke < S
           THEN [id |-> stroke, mod |-> mod]
           ELSE [id |-> stroke - S,
                 mod |-> IF IsShifted(mod) THEN mod ELSE mod \cup {LeftShift}]

\* The stroke for the same character in the other layout, and the modifier
\* byte that goes with it.
Restroke(layout, index, id, mod) ==
  IF index = {} THEN [id |-> id, mod |-> mod]
  ELSE LET stroke == layout[Min(index)]
       IN  IF stroke < S
           THEN [id |-> stroke, mod |-> mod \ ShiftKeys]
           ELSE [id |-> stroke - S,
                 mod |-> IF IsShifted(mod) THEN mod ELSE mod \cup {LeftShift}]

ja_to_en_usage_id(id, mod) ==
  Restroke(ASCII_TO_ENGLISH_USAGEID, ja_usageid_to_ascii_tableindex(id, mod), id, mod)

en_to_ja_usage_id(id, mod) ==
  Restroke(ASCII_TO_JAPANESE_USAGEID, en_usageid_to_ascii_tableindex(id, mod), id, mod)

\* Slot after slot, each with the modifier byte the slots before it left.
ConvertReport(convert(_, _), report) ==
  LET upTo[n \in 0 .. KeyCount] ==
        IF n = 0 THEN report
        ELSE LET r == upTo[n - 1]
                 c == convert(r.key[n], r.mod)
             IN  [mod |-> c.mod, key |-> [r.key EXCEPT ![n] = c.id]]
  IN  upTo[KeyCount]

\* Mutant: only the first slot.
convert_ja_report_to_en_First(report) ==
  LET c == ja_to_en_usage_id(report.key[1], report.mod)
  IN  [mod |-> c.mod, key |-> [report.key EXCEPT ![1] = c.id]]

convert_ja_report_to_en(report) == ConvertReport(ja_to_en_usage_id, report)
convert_en_report_to_ja(report) == ConvertReport(en_to_ja_usage_id, report)

LangMode == {"none", "ja_to_en", "en_to_ja"}    \* LANG_CONVERT_MODE

modify_report(table, mode, report) ==
  LET mapped == modify_report_by_key_table(table, report)
  IN  CASE mode = "ja_to_en" -> convert_ja_report_to_en(mapped)
        [] mode = "en_to_ja" -> convert_en_report_to_ja(mapped)
        [] OTHER -> mapped

-----------------------------------------------------------------------------
(***************************************************************************)
(* set_default_to_key_table(): the loop ends before                        *)
(* KEY_CONVERT_TABLE_ENTRY_COUNT = 0xE7 + 8 = 0xEF, the rest of the table  *)
(* keeps the 0 of the memset.                                              *)
(***************************************************************************)
DefaultKeyTable == [u \in KeyIds |-> IF u < \hE7 + 8 THEN u ELSE 0]

\* Mutant: the first slot in use instead of the last.
extract_first_key_from_report(report) ==
  LET used == {s \in Slot : report.key[s] \in ValidUsageId}
  IN  IF used # {} THEN report.key[Min(used)]
      ELSE IF report.mod # {} THEN PseudoUsageId(Min(report.mod))
      ELSE 0

\* extract_one_key_from_report(): the last key slot in use, else the first
\* modifier.
extract_one_key_from_report(report) ==
  LET used == {s \in Slot : report.key[s] \in ValidUsageId}
  IN  IF used # {} THEN report.key[Max(used)]
      ELSE IF report.mod # {} THEN PseudoUsageId(Min(report.mod))
      ELSE 0

get_pressed_key_count(report) == Cardinality(Pressed(report))

is_report_zero(report) == report = ZeroReport

=============================================================================

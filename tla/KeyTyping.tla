----------------------------- MODULE KeyTyping -----------------------------
(***************************************************************************)
(* A person types on the keyboard and configures the converter; the        *)
(* reports go through modify_report() of KeyTable.c, one by one, and an    *)
(* operating system makes keystrokes of what comes out.                    *)
(*                                                                         *)
(* The keyboard is a boot keyboard that fills the key slots in the order   *)
(* in which the keys went down.  The operating system takes a key that is  *)
(* in a report and was not in the one before as a stroke, made with the    *)
(* modifiers of the new report.                                            *)
(***************************************************************************)
EXTENDS KeyReport, Layouts

CONSTANTS
  TypedKeys,   \* usage ids of the keys that are used
  TypedMods,   \* bits of the modifier keys that are used
  Modes,       \* conversion modes that are set
  MaxDown,     \* bound: keys held at once
  MaxUpdates   \* bound: key table updates between resets

\* With more keys down than slots a keyboard reports an error instead of keys.
ASSUME TypingAssumption ==
  /\ TypedKeys \subseteq ValidUsageId
  /\ TypedMods \subseteq ModifierKey
  /\ Modes \subseteq LangMode
  /\ MaxDown \in 0 .. KeyCount
  /\ MaxUpdates \in Nat

VARIABLES
  keyTable,   \* m_key_table
  langMode,   \* m_key_config.lang_convert_mode
  down, mod,  \* keys held, oldest first, and modifiers held
  dst,        \* the last report sent to the PC
  struck,     \* the strokes it made: pairs of usage id and "with shift"
  pressed,    \* the key whose press caused it, or NoKey
  wish,       \* for each key, the key the user wants in its place
  hasty,      \* an entry since the last reset was made in haste
  updates

vars == <<keyTable, langMode, down, mod, dst, struck, pressed, wish, hasty, updates>>

\* The keys as the user sees them.
Key(u) == <<"key", u>>
Mod(m) == <<"mod", m>>
Physical == {Key(u) : u \in TypedKeys} \cup {Mod(m) : m \in TypedMods}
NoKey == <<"none", 0>>

KeyboardReport(keys, mods) ==
  [mod |-> mods, key |-> [s \in Slot |-> IF s <= Len(keys) THEN keys[s] ELSE 0]]

Ids(report) == {report.key[s] : s \in Slot} \ {0}

Init ==
  /\ keyTable = DefaultKeyTable
  /\ langMode = "none"
  /\ down = <<>> /\ mod = {}
  /\ dst = ZeroReport
  /\ struck = {} /\ pressed = NoKey
  /\ wish = [p \in Physical |-> p]
  /\ hasty = FALSE
  /\ updates = 0

-----------------------------------------------------------------------------
\* send_modified_report_to_usb_slave()
Convert(table, keys, mods, cause) ==
  /\ down' = keys
  /\ mod' = mods
  /\ dst' = modify_report(table, langMode, KeyboardReport(keys, mods))
  /\ struck' = {<<u, IsShifted(dst'.mod)>> : u \in Ids(dst') \ Ids(dst)}
  /\ pressed' = cause
  /\ UNCHANGED langMode

Send(keys, mods, cause) ==
  /\ Convert(keyTable, keys, mods, cause)
  /\ UNCHANGED <<keyTable, wish, hasty, updates>>

Press(u) ==
  /\ \A i \in DOMAIN down : down[i] # u
  /\ Len(down) < MaxDown
  /\ Send(Append(down, u), mod, Key(u))

PressModifier(m) == m \notin mod /\ Send(down, mod \cup {m}, Mod(m))

Without(keys, i) ==
  [j \in 1 .. Len(keys) - 1 |-> IF j < i THEN keys[j] ELSE keys[j + 1]]

Release(i) ==
  /\ i \in DOMAIN down
  /\ Send(Without(down, i), mod, NoKey)

ReleaseModifier(m) == m \in mod /\ Send(down, mod \ {m}, NoKey)

-----------------------------------------------------------------------------
(***************************************************************************)
(* The update command reads a key from each of two reports and passes none *)
(* on.  It may come while keys are held, the Enter that started the client *)
(* say.  When the second is read the command is over; the keys then go up  *)
(* together, and that report goes to the PC again.                         *)
(***************************************************************************)
Nothing == [keys |-> <<>>, mods |-> {}]
HeldNow == [keys |-> down, mods |-> mod]

With(held, p) ==
  IF p[1] = "key" THEN [keys |-> Append(held.keys, p[2]), mods |-> held.mods]
  ELSE [keys |-> held.keys, mods |-> held.mods \cup {p[2]}]

EntryReport(held, p) == KeyboardReport(With(held, p).keys, With(held, p).mods)

\* handle_update_keytable_command() and update_key_table()
update_key_table(first, second) ==
  /\ updates' = updates + 1
  /\ keyTable' = [keyTable EXCEPT ![extract_one_key_from_report(first)] =
                                     extract_one_key_from_report(second)]
  /\ Convert(keyTable', <<>>, {}, NoKey)

CanPress(held, p) ==
  IF p[1] = "key" THEN Len(held.keys) < KeyCount /\ \A i \in DOMAIN held.keys : held.keys[i] # p[2]
                  ELSE p[2] \notin held.mods

\* extract_one_key_from_report() takes the last key, or the first modifier if
\* there is no key.
MayEnter(held, p) == p[1] = "mod" => held.keys = <<>> /\ \A m \in held.mods : p[2] < m

\* The user wants q for p and enters them as the client asks (README.md:31):
\* a and b are what is held then.  Before each all keys go up or none does,
\* and a modifier is entered with no key held and no modifier of a lower bit.
Update ==
  /\ updates < MaxUpdates
  /\ \E p, q \in Physical : \E a \in {Nothing, HeldNow} : \E b \in {Nothing, With(a, p)} :
       /\ CanPress(a, p) /\ MayEnter(a, p)
       /\ CanPress(b, q) /\ MayEnter(b, q)
       /\ update_key_table(EntryReport(a, p), EntryReport(b, q))
       /\ wish' = [wish EXCEPT ![p] = q]
       /\ UNCHANGED hasty

\* Any other entry: a modifier with anything held, or, taken for an entry, the
\* report of a release that leaves a key down.
Releases(held) ==
  {KeyboardReport(Without(held.keys, i), held.mods) : i \in DOMAIN held.keys}
    \cup {KeyboardReport(held.keys, held.mods \ {m}) : m \in held.mods}

UpdateInHaste ==
  /\ updates < MaxUpdates
  /\ \E p, q \in Physical : \E a \in {Nothing, HeldNow} : \E b \in {Nothing, With(a, p)} :
       /\ CanPress(a, p) /\ CanPress(b, q)
       /\ \E first \in {EntryReport(a, p)} \cup Releases(a),
             second \in {EntryReport(b, q)} \cup Releases(With(a, p)) :
            ZeroReport \notin {first, second} /\ update_key_table(first, second)
       /\ hasty' = TRUE
       /\ UNCHANGED wish

(***************************************************************************)
(* The other commands, while no key is held.                               *)
(***************************************************************************)
Configure ==
  /\ down = <<>> /\ mod = {}
  /\ struck' = {} /\ pressed' = NoKey
  /\ UNCHANGED <<down, mod, dst>>

reset_key_table ==
  /\ Configure
  /\ keyTable' = DefaultKeyTable
  /\ wish' = [p \in Physical |-> p]
  /\ hasty' = FALSE
  /\ updates' = 0
  /\ UNCHANGED langMode

set_lang_convert_mode(mode) ==
  /\ Configure
  /\ langMode' = mode
  /\ UNCHANGED <<keyTable, wish, hasty, updates>>

Next ==
  \/ \E u \in TypedKeys : Press(u)
  \/ \E m \in TypedMods : PressModifier(m) \/ ReleaseModifier(m)
  \/ \E i \in DOMAIN down : Release(i)
  \/ Update \/ UpdateInHaste
  \/ reset_key_table
  \/ \E mode \in Modes : set_lang_convert_mode(mode)

Spec == Init /\ [][Next]_vars

-----------------------------------------------------------------------------
Held == {Key(down[i]) : i \in DOMAIN down} \cup {Mod(m) : m \in mod}
Wished == {wish[p] : p \in Held}
WishedIds == {q[2] : q \in {w \in Wished : w[1] = "key"}}
WishedMods == {q[2] : q \in {w \in Wished : w[1] = "mod"}}

\* Held keys that ask for a slot of the report.
SlotsAsked == Cardinality({p \in Held : wish[p][1] = "key"})

TypeOK ==
  /\ keyTable \in [KeyIds -> UsageId]
  /\ langMode \in LangMode
  /\ dst \in Report
  /\ mod \subseteq TypedMods
  /\ \A i \in DOMAIN down : down[i] \in TypedKeys
  /\ pressed \in Physical \cup {NoKey}
  /\ wish \in [Physical -> Physical]
  /\ hasty \in BOOLEAN

\* Without conversion, and unless an entry was read that was not made as
\* Update has it: the code then remaps another key than the user wanted,
\* until the next reset.
Promised == langMode = "none" /\ ~hasty

\* While the wishes leave a slot free, the PC sees exactly what the user
\* wants in place of the keys that are held (README.md:34): a modifier for a
\* key, a key for a modifier, several keys for the same one.
SendsAllWished ==
  Promised /\ SlotsAsked < KeyCount =>
    Ids(dst) = WishedIds /\ dst.mod = WishedMods

\* However many keys are held, the PC never sees one that nobody holds, and
\* the report has no hole while keys are left out of it.
SendsOnlyWished ==
  Promised =>
    /\ Ids(dst) \subseteq WishedIds /\ dst.mod \subseteq WishedMods
    /\ SlotsAsked >= KeyCount => \A s \in Slot : dst.key[s] # 0

\* A stroke comes from the key just pressed.  (After an overflow the release
\* of a key makes room for one that was left out.)
StrikesOnlyPressed ==
  [][Promised /\ Promised' /\ SlotsAsked <= KeyCount =>
       \A stroke \in struck' : <<"key", stroke[1]>> = wish[pressed']]_vars

-----------------------------------------------------------------------------
(***************************************************************************)
(* Layout conversion, README.md:44-45: with the keyboard in one layout and *)
(* the operating system in the other, what is engraved is what is typed.   *)
(***************************************************************************)
Engraved == IF langMode = "ja_to_en" THEN JisSymbols ELSE UsSymbols
OsLayout == IF langMode = "ja_to_en" THEN UsSymbols ELSE JisSymbols

Typed == {Char(OsLayout, stroke[1], stroke[2]) : stroke \in struck}

EngravedOn(u) == Char(Engraved, u, IsShifted(mod))

\* A key with an engraved character was just pressed, and no other key with
\* that character (JIS has two for the backslash) or without one is held.
Struck(u) ==
  /\ pressed = Key(u)
  /\ langMode # "none"
  /\ keyTable = DefaultKeyTable
  /\ EngravedOn(u) # "none"
  /\ \A i \in DOMAIN down :
       down[i] # u => EngravedOn(down[i]) \notin {"none", EngravedOn(u)}

TypesEngraved(u) == Typed = {EngravedOn(u)}

\* The key needs another shift state in the layout of the system.
ChangesShift(u) ==
  LET c == IF langMode = "ja_to_en" THEN ja_to_en_usage_id(u, mod)
                                    ELSE en_to_ja_usage_id(u, mod)
  IN  IsShifted(c.mod) # IsShifted(mod)

\* One key at a time, every key types what is engraved on it, with shift and
\* without; ctrl, alt and win keys pass through unchanged.
SingleKeyIsEngraved ==
  \A u \in TypedKeys :
    Struck(u) /\ Len(down) = 1 =>
      TypesEngraved(u) /\ dst.mod \ ShiftKeys = mod \ ShiftKeys

\* So does fast typing, the next key pressed before the last is released, as
\* long as no key held needs another shift state.
FastTypingIsEngraved ==
  \A u \in TypedKeys :
    Struck(u) /\ (\A i \in DOMAIN down : ~ChangesShift(down[i])) => TypesEngraved(u)

\* After a reset every key stands for itself again (README.md:39,
\* KeyTable.h:35): the entries of all eight modifier keys are set.
ResetMapsKeysToThemselves ==
  langMode = "none" /\ updates = 0 /\ Cardinality(Held) = 1 =>
    dst = KeyboardReport(down, mod)

=============================================================================

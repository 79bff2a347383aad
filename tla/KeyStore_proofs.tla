--------------------------- MODULE KeyStore_proofs ---------------------------
(***************************************************************************)
(* Proofs about the configuration store, for every number of macros,       *)
(* commands, boots and power cuts.                                         *)
(***************************************************************************)
EXTENDS KeyStore, SequenceTheorems, TLAPS

\* What the next boot would find in the Flash.
BootConfig ==
  IF flash[KEY_CONFIG_START_PAGE] = Blank THEN DefaultConfig ELSE flash[KEY_CONFIG_START_PAGE]
BootTable == IF flash[1] = Blank THEN DefaultTable ELSE <<flash[1], flash[2]>>
BootSettings == <<BootConfig, BootTable>>

Pending(p) == \E i \in DOMAIN todo : todo[i].page = p
DataPage(n, k) == MacroStart(n) + k
PendingMacro(n) == \E k \in 0 .. 2 : Pending(DataPage(n, k))

\* What the pages of a macro hold when its run key is of that recording.
Recorded(session) == IF session = NoRecording THEN Blank ELSE session

\* Types, with those that TypeOK leaves open.
PageData == {Blank} \cup Config \cup Version
Typed ==
  /\ TypeOK
  /\ flash \in [Pages -> PageData]
  /\ todo \in Seq([page : Pages, data : PageData])
  /\ commands \in 0 .. MaxCommands
  /\ \A i \in DOMAIN todo :
       todo[i].data \in IF todo[i].page = KEY_CONFIG_START_PAGE THEN Config ELSE Version

\* Every page that is still to be written gets what is in RAM, ...
WritesAreFromRam ==
  \A i \in DOMAIN todo :
    /\ todo[i].page = 0 => todo[i].data = config
    /\ todo[i].page \in {1, 2} => phase = "ready" /\ todo[i].data = table[todo[i].page]
    /\ \A n \in Macros, k \in 0 .. 2 :
         todo[i].page = DataPage(n, k) =>
           /\ phase = "ready"
           /\ config.runKey[n] # NoRecording /\ todo[i].data = config.runKey[n]

\* ... and every other one has it, as far as main_thread() has loaded it.
Loaded == phase \in {"load_table", "ready"}
OthersAreWritten ==
  /\ Loaded => /\ Pending(0) \/ flash[0] = config
               /\ \A n \in Macros \ torn, k \in 0 .. 2 :
                    \/ Pending(DataPage(n, k))
                    \/ flash[DataPage(n, k)] = Recorded(config.runKey[n])
  /\ phase = "ready" => /\ table[1] # Blank
                        /\ \A p \in {1, 2} : Pending(p) \/ flash[p] = table[p]

\* The configuration page and the first page of the table come first, and
\* never both.
WriteOrder ==
  /\ \A i \in DOMAIN todo : todo[i].page \in {0, 1} => i = 1
  /\ Pending(0) => ~Pending(1) /\ ~Pending(2)
  /\ ~Loaded => todo = <<>>

\* Run keys and data in the Flash belong together, also while the page with
\* the run keys is still to be written.
FlashIsOneRecording ==
  /\ ~Loaded => \A n \in Macros \ torn, k \in 0 .. 2 :
                  flash[DataPage(n, k)] = Recorded(BootConfig.runKey[n])
  /\ Pending(0) => \A n \in Macros : PendingMacro(n) \/ BootConfig.runKey[n] = config.runKey[n]

\* The next boot finds the settings before or after the last command.
AllOrNothing(settings) ==
  last.kind \in {"update", "mode", "macro"} => settings \in {last.old, last.new}
BootIsAllOrNothing ==
  /\ AllOrNothing(BootSettings)
  /\ phase = "load_table" => config = BootConfig
  /\ phase = "ready" => AllOrNothing(Settings)
  /\ Pending(1) => AllOrNothing(<<config, <<table[1], flash[2]>>>>)

Inv ==
  /\ Typed /\ WritesAreFromRam /\ OthersAreWritten /\ WriteOrder
  /\ FlashIsOneRecording /\ BootIsAllOrNothing

-----------------------------------------------------------------------------
Write == [page : Pages, data : PageData]

USE DEF KEY_CONFIG_START_PAGE, KEY_TABLE_START_PAGE, MACRO_DATA_START_PAGE,
        MACRO_DATA_SIZE_IN_PAGE

\* The macros' pages overlap neither each other nor those of the
\* configuration and the table.
LEMMA PagesAreApart ==
  /\ {0, 1, 2} \subseteq Pages
  /\ \A n \in Macros, k \in 0 .. 2 :
       /\ DataPage(n, k) \in Pages \ {0, 1, 2}
       /\ \A m \in Macros, l \in 0 .. 2 : DataPage(m, l) = DataPage(n, k) => m = n /\ l = k
BY StoreAssumption DEF DataPage, MacroStart, Pages, Macros

LEMMA DefaultsAreTyped ==
  /\ DefaultConfig \in Config
  /\ DefaultTable \in [{1, 2} -> Version]
  /\ DefaultTable[1] # Blank
  /\ 0 \in Version
<1>1. NoRecording \in NoRecording .. MaxCommands
  BY StoreAssumption DEF NoRecording
<1>2. DefaultConfig \in Config
  BY <1>1, StoreAssumption DEF DefaultConfig, Config
<1>3. 0 \in Version
  BY StoreAssumption DEF Version
<1> QED
  BY <1>2, <1>3, StoreAssumption DEF DefaultTable

\* A table is a pair.
LEMMA TableIsPair ==
  ASSUME NEW t \in [{1, 2} -> Version]
  PROVE  t = <<t[1], t[2]>>
OBVIOUS

\* What the three functions leave to be written.
LEMMA ConfigWrites ==
  ASSUME NEW c \in Config, NEW w, w = write_key_config_to_flash(c)
  PROVE  w \in Seq(Write) /\ Len(w) = 1 /\ w[1] = [page |-> 0, data |-> c]
<1>1. w = <<[page |-> 0, data |-> c]>>
  BY DEF write_key_config_to_flash, write_flash
<1>2. [page |-> 0, data |-> c] \in Write
  BY PagesAreApart DEF Write, PageData
<1> QED
  BY <1>1, <1>2

LEMMA TableWrites ==
  ASSUME NEW t \in [{1, 2} -> Version], NEW w, w = write_key_table_to_flash(t)
  PROVE  /\ w \in Seq(Write) /\ Len(w) = 2
         /\ w[1] = [page |-> 1, data |-> t[1]] /\ w[2] = [page |-> 2, data |-> t[2]]
<1>1. w = <<[page |-> 1, data |-> t[1]], [page |-> 2, data |-> t[2]]>>
  BY DEF write_key_table_to_flash, write_flash
<1>2. [page |-> 1, data |-> t[1]] \in Write /\ [page |-> 2, data |-> t[2]] \in Write
  BY PagesAreApart DEF Write, PageData
<1> QED
  BY <1>1, <1>2

LEMMA Triple ==
  ASSUME NEW S, NEW x \in S, NEW y \in S, NEW z \in S
  PROVE  /\ <<x, y, z>> \in Seq(S) /\ Len(<<x, y, z>>) = 3
         /\ <<x, y, z>>[1] = x /\ <<x, y, z>>[2] = y /\ <<x, y, z>>[3] = z
OBVIOUS

write_macro(n, c, v) ==
  write_key_config_to_flash(c) \o write_flash(MacroStart(n), <<v, v, v>>)

LEMMA MacroWrites ==
  ASSUME NEW c \in Config, NEW n \in Macros, NEW v \in Version, NEW w, w = write_macro(n, c, v)
  PROVE  /\ w \in Seq(Write) /\ Len(w) = 4
         /\ w[1] = [page |-> 0, data |-> c]
         /\ w[2] = [page |-> DataPage(n, 0), data |-> v]
         /\ w[3] = [page |-> DataPage(n, 1), data |-> v]
         /\ w[4] = [page |-> DataPage(n, 2), data |-> v]
<1> DEFINE a == write_key_config_to_flash(c)
           b == write_flash(MacroStart(n), <<v, v, v>>)
<1>1. a \in Seq(Write) /\ Len(a) = 1 /\ a[1] = [page |-> 0, data |-> c]
  BY ConfigWrites
<1>2. \A k \in 0 .. 2 : [page |-> DataPage(n, k), data |-> v] \in Write
  BY PagesAreApart DEF Write, PageData
<1>3. b = <<[page |-> DataPage(n, 0), data |-> v], [page |-> DataPage(n, 1), data |-> v],
            [page |-> DataPage(n, 2), data |-> v]>>
  BY StoreAssumption DEF write_flash, DataPage, MacroStart, Macros
<1>4. w = a \o b
  BY DEF write_macro
<1> HIDE DEF a, b
<1>5. /\ [page |-> DataPage(n, 0), data |-> v] \in Write
      /\ [page |-> DataPage(n, 1), data |-> v] \in Write
      /\ [page |-> DataPage(n, 2), data |-> v] \in Write
  BY <1>2
<1>6. /\ b \in Seq(Write) /\ Len(b) = 3
      /\ b[1] = [page |-> DataPage(n, 0), data |-> v]
      /\ b[2] = [page |-> DataPage(n, 1), data |-> v]
      /\ b[3] = [page |-> DataPage(n, 2), data |-> v]
  <2> DEFINE x == [page |-> DataPage(n, 0), data |-> v]
             y == [page |-> DataPage(n, 1), data |-> v]
             z == [page |-> DataPage(n, 2), data |-> v]
  <2> HIDE DEF x, y, z, Write
  <2>1. b = <<x, y, z>> /\ x \in Write /\ y \in Write /\ z \in Write
    BY <1>3, <1>5 DEF x, y, z
  <2>2. b \in Seq(Write) /\ Len(b) = 3 /\ b[1] = x /\ b[2] = y /\ b[3] = z
    BY <2>1, Triple
  <2> QED
    BY <2>2 DEF x, y, z
<1>7. /\ w \in Seq(Write) /\ Len(w) = 1 + 3
      /\ \A i \in 1 .. 1 + 3 : w[i] = IF i <= 1 THEN a[i] ELSE b[i - 1]
  <2> HIDE DEF Write
  <2>1. /\ a \o b \in Seq(Write)
        /\ Len(a \o b) = Len(a) + Len(b)
        /\ \A i \in 1 .. Len(a) + Len(b) :
             (a \o b)[i] = IF i <= Len(a) THEN a[i] ELSE b[i - Len(a)]
    BY <1>1, <1>6, ConcatProperties, Zenon
  <2> QED
    BY <1>1, <1>4, <1>6, <2>1, Zenon
<1> QED
  <2>1. w[1] = a[1] /\ w[2] = b[1] /\ w[3] = b[2] /\ w[4] = b[3]
    BY <1>7
  <2> QED
    BY <1>1, <1>6, <1>7, <2>1

\* What WritePage leaves to be written.
LEMMA TailIsShifted ==
  ASSUME NEW S, NEW s \in Seq(S), s # <<>>
  PROVE  /\ Tail(s) \in Seq(S) /\ Head(s) = s[1] /\ 1 \in DOMAIN s /\ s[1] \in S
         /\ \A i \in DOMAIN Tail(s) : i + 1 \in DOMAIN s /\ Tail(s)[i] = s[i + 1]
         /\ \A i \in DOMAIN s : i # 1 => i - 1 \in DOMAIN Tail(s) /\ Tail(s)[i - 1] = s[i]
OBVIOUS

-----------------------------------------------------------------------------
\* Nothing is pending when nothing is left to be written.
LEMMA NothingIsPending ==
  ASSUME todo = <<>>
  PROVE  (\A p : ~Pending(p)) /\ (\A n : ~PendingMacro(n)) /\ DOMAIN todo = {}
BY DEF Pending, PendingMacro

\* Between commands the Flash ROM has what is in RAM.
LEMMA Quiet ==
  ASSUME Inv, Ready
  PROVE  /\ flash[0] = config /\ flash[1] = table[1] /\ flash[2] = table[2]
         /\ \A n \in Macros \ torn, k \in 0 .. 2 :
              flash[DataPage(n, k)] = Recorded(config.runKey[n])
         /\ BootConfig = config /\ BootTable = table
         /\ AllOrNothing(Settings)
<1>1. \A p : ~Pending(p)
  BY NothingIsPending DEF Ready
<1>2. flash[0] = config /\ flash[1] = table[1] /\ flash[2] = table[2] /\ table[1] # Blank
  BY <1>1 DEF Inv, OthersAreWritten, Loaded, Ready
<1>3. \A n \in Macros \ torn, k \in 0 .. 2 :
        flash[DataPage(n, k)] = Recorded(config.runKey[n])
  BY <1>1 DEF Inv, OthersAreWritten, Loaded, Ready
<1>4. config # Blank
  BY SignatureAssumption DEF Inv, Typed, TypeOK
<1>5. table = <<table[1], table[2]>>
  BY TableIsPair DEF Inv, Typed, TypeOK
<1>6. AllOrNothing(Settings)
  BY DEF Inv, BootIsAllOrNothing, Ready
<1> QED
  BY <1>2, <1>3, <1>4, <1>5, <1>6 DEF BootConfig, BootTable

LEMMA Starts == Init => Inv
<1> SUFFICES ASSUME Init PROVE Inv
  OBVIOUS
<1> USE DEF Init
<1>1. Typed
  <2>1. flash \in [Pages -> PageData] /\ (\A p \in Pages : flash[p] = Blank)
    BY DEF PageData
  <2>2. config \in Config /\ table \in [{1, 2} -> Version]
    BY DefaultsAreTyped
  <2>3. commands \in 0 .. MaxCommands
    BY StoreAssumption
  <2> QED
    BY <2>1, <2>2, <2>3, NothingIsPending DEF Typed, TypeOK
<1>2. WritesAreFromRam
  BY NothingIsPending DEF WritesAreFromRam
<1>3. OthersAreWritten /\ WriteOrder
  BY NothingIsPending DEF OthersAreWritten, WriteOrder, Loaded
<1>4. FlashIsOneRecording
  <2>1. BootConfig = DefaultConfig
    BY PagesAreApart DEF BootConfig
  <2> QED
    BY <2>1, PagesAreApart, NothingIsPending
    DEF FlashIsOneRecording, Recorded, DefaultConfig, Macros
<1>5. BootIsAllOrNothing
  BY NothingIsPending DEF BootIsAllOrNothing, AllOrNothing
<1> QED
  BY <1>1, <1>2, <1>3, <1>4, <1>5 DEF Inv

LEMMA PowerOnKeepsInv == Inv /\ PowerOn => Inv'
<1> SUFFICES ASSUME Inv, PowerOn PROVE Inv'
  OBVIOUS
<1> USE DEF PowerOn, Inv
<1>1. Typed'
  BY DEF Typed, TypeOK
<1>2. todo = <<>>
  BY DEF WriteOrder, Loaded
<1>3. WritesAreFromRam' /\ OthersAreWritten' /\ WriteOrder'
  BY <1>2, NothingIsPending DEF WritesAreFromRam, OthersAreWritten, WriteOrder, Pending, Loaded
<1>4. FlashIsOneRecording'
  BY <1>2, NothingIsPending DEF FlashIsOneRecording, Pending, PendingMacro, BootConfig, Loaded
<1>5. BootIsAllOrNothing'
  BY <1>2, NothingIsPending
  DEF BootIsAllOrNothing, Pending, AllOrNothing, BootSettings, BootConfig, BootTable
<1> QED
  BY <1>1, <1>3, <1>4, <1>5

\* The power cut: macros whose data is still to be written are torn.
LEMMA PowerOffKeepsInv == Inv /\ PowerOff => Inv'
<1> SUFFICES ASSUME Inv, PowerOff PROVE Inv'
  OBVIOUS
<1> USE DEF PowerOff
<1>1. Typed'
  <2>1. config' \in Config /\ table' \in [{1, 2} -> Version]
    BY DefaultsAreTyped
  <2> QED
    BY <2>1 DEF Inv, Typed, TypeOK
<1>2. /\ \A p : ~Pending(p)'
      /\ \A n : ~PendingMacro(n)'
      /\ DOMAIN todo' = {}
  BY DEF Pending, PendingMacro
<1>3. WritesAreFromRam' /\ WriteOrder' /\ OthersAreWritten'
  BY <1>2 DEF WritesAreFromRam, OthersAreWritten, WriteOrder, Loaded
<1>4. FlashIsOneRecording'
  <2> SUFFICES ASSUME NEW n \in Macros, n \notin torn', NEW k \in 0 .. 2
               PROVE  flash[DataPage(n, k)] = Recorded(BootConfig.runKey[n])
    BY <1>2 DEF FlashIsOneRecording, BootConfig
  <2>1. CASE Loaded
    <3>1. ~PendingMacro(n) /\ n \notin torn
      BY DEF PendingMacro, Pending, DataPage, MacroStart, Macros
    <3>2. flash[DataPage(n, k)] = Recorded(config.runKey[n])
      BY <2>1, <3>1 DEF PendingMacro, Inv, OthersAreWritten
    <3>3. CASE Pending(0)
      BY <3>1, <3>2, <3>3 DEF Inv, FlashIsOneRecording
    <3>4. CASE ~Pending(0)
      <4>1. flash[0] = config /\ config # Blank
        BY <2>1, <3>4, SignatureAssumption DEF Inv, OthersAreWritten, Typed, TypeOK
      <4> QED
        BY <3>2, <4>1 DEF BootConfig
    <3> QED
      BY <3>3, <3>4
  <2>2. CASE ~Loaded
    BY <2>2 DEF Inv, FlashIsOneRecording
  <2> QED
    BY <2>1, <2>2
<1>5. BootIsAllOrNothing'
  BY <1>2 DEF Inv, BootIsAllOrNothing, AllOrNothing, BootSettings, BootConfig, BootTable
<1> QED
  BY <1>1, <1>3, <1>4, <1>5 DEF Inv

-----------------------------------------------------------------------------
\* What WritePage writes, and what is pending after it.
LEMMA PageIsWritten ==
  ASSUME Inv, WritePage
  PROVE  /\ 1 \in DOMAIN todo
         /\ todo[1].page \in Pages
         /\ flash' = [flash EXCEPT ![todo[1].page] = todo[1].data]
         /\ \A i \in DOMAIN todo' : i + 1 \in DOMAIN todo /\ todo'[i] = todo[i + 1]
         /\ todo' \in Seq(Write)
         /\ \A p : Pending(p)' => Pending(p)
         /\ \A p : Pending(p) => Pending(p)' \/ todo[1].page = p
         /\ ~Pending(0)' /\ ~Pending(1)'
<1>1. todo \in Seq(Write) /\ todo # <<>> /\ todo' = Tail(todo)
  BY DEF Inv, Typed, Write, WritePage
<1>2. /\ todo' \in Seq(Write) /\ Head(todo) = todo[1] /\ 1 \in DOMAIN todo /\ todo[1] \in Write
      /\ \A i \in DOMAIN todo' : i + 1 \in DOMAIN todo /\ todo'[i] = todo[i + 1]
      /\ \A i \in DOMAIN todo : i # 1 => i - 1 \in DOMAIN todo' /\ todo'[i - 1] = todo[i]
  BY <1>1, TailIsShifted, Zenon
<1>3. \A p : Pending(p)' => Pending(p)
  BY <1>2 DEF Pending
<1>4. \A p : Pending(p) => Pending(p)' \/ todo[1].page = p
  BY <1>2 DEF Pending
<1>5. \A i \in DOMAIN todo' : i \in Nat /\ i # 0
  BY <1>1, <1>2
<1>6. ~Pending(0)' /\ ~Pending(1)'
  BY <1>2, <1>5 DEF Pending, Inv, WriteOrder
<1> QED
  BY <1>2, <1>3, <1>4, <1>6 DEF WritePage, Write

\* One page less is to be written.
LEMMA WritePageKeepsInv == Inv /\ WritePage => Inv'
<1> SUFFICES ASSUME Inv, WritePage PROVE Inv'
  OBVIOUS
<1> DEFINE page == todo[1].page
           data == todo[1].data
<1>1. UNCHANGED <<config, table, phase, commands, last, torn>>
  BY DEF WritePage
<1>2. /\ 1 \in DOMAIN todo /\ page \in Pages
      /\ data \in IF page = 0 THEN Config ELSE Version
  BY PageIsWritten DEF Inv, Typed
<1>3. \A p \in Pages : flash'[p] = IF p = page THEN data ELSE flash[p]
  BY PageIsWritten DEF Inv, Typed
<1>4. Loaded /\ Loaded'
  BY <1>1, NothingIsPending DEF Inv, WriteOrder, WritePage, Loaded
<1>5. config # Blank /\ table = <<table[1], table[2]>>
  BY SignatureAssumption, TableIsPair DEF Inv, Typed, TypeOK
<1>6. Typed'
  <2>1. data \in PageData /\ flash' \in [Pages -> PageData]
    BY <1>2, PageIsWritten DEF Inv, Typed, PageData
  <2>2. \A p \in Pages :
          \/ flash'[p] = Blank
          \/ flash'[p] \in IF p = 0 THEN Config ELSE Version
    BY <1>2, <1>3 DEF Inv, Typed, TypeOK
  <2>3. \A i \in DOMAIN todo' :
          /\ todo'[i].page \in Pages
          /\ todo'[i].data \in IF todo'[i].page = 0 THEN Config ELSE Version
    BY PageIsWritten DEF Inv, Typed, TypeOK
  <2> QED
    BY <1>1, <2>1, <2>2, <2>3, PageIsWritten DEF Inv, Typed, TypeOK, Write
<1>7. WritesAreFromRam'
  <2> SUFFICES ASSUME NEW i \in DOMAIN todo'
      PROVE  (/\ todo[i].page = 0 => todo[i].data = config
              /\ todo[i].page \in {1, 2} => phase = "ready" /\ todo[i].data = table[todo[i].page]
              /\ \A n \in Macros, k \in 0 .. 2 :
                   todo[i].page = DataPage(n, k) =>
                     /\ phase = "ready"
                     /\ config.runKey[n] # NoRecording
                     /\ todo[i].data = config.runKey[n])'
    BY DEF WritesAreFromRam
  <2>1. i + 1 \in DOMAIN todo /\ todo'[i] = todo[i + 1]
    BY PageIsWritten
  <2> QED
    BY <1>1, <2>1 DEF Inv, WritesAreFromRam
<1>8. OthersAreWritten'
  <2>1. flash'[0] = config'
    <3>1. page = 0 => data = config
      BY <1>2 DEF Inv, WritesAreFromRam
    <3>2. page # 0 => flash[0] = config
      BY <1>4, PageIsWritten DEF Inv, OthersAreWritten
    <3> QED
      BY <1>1, <1>3, <3>1, <3>2, PagesAreApart
  <2>2. ASSUME NEW n \in Macros, n \notin torn, NEW k \in 0 .. 2
        PROVE  Pending(DataPage(n, k))' \/ flash'[DataPage(n, k)] = Recorded(config'.runKey[n])
    <3>1. CASE page = DataPage(n, k)
      <4>1. data = config.runKey[n] /\ config.runKey[n] # NoRecording
        BY <1>2, <3>1 DEF Inv, WritesAreFromRam
      <4> QED
        BY <1>1, <1>2, <1>3, <3>1, <4>1 DEF Recorded
    <3>2. CASE page # DataPage(n, k)
      <4>1. Pending(DataPage(n, k)) \/ flash[DataPage(n, k)] = Recorded(config.runKey[n])
        BY <1>4, <2>2 DEF Inv, OthersAreWritten
      <4>2. DataPage(n, k) \in Pages
        BY PagesAreApart
      <4> QED
        BY <1>1, <1>3, <3>2, <4>1, <4>2, PageIsWritten
    <3> QED
      BY <3>1, <3>2
  <2>3. ASSUME phase = "ready", NEW p \in {1, 2}
        PROVE  Pending(p)' \/ flash'[p] = table'[p]
    <3>1. p \in Pages /\ (Pending(p) \/ flash[p] = table[p])
      BY <2>3, PagesAreApart DEF Inv, OthersAreWritten
    <3>2. page = p => data = table[p]
      BY <1>2 DEF Inv, WritesAreFromRam
    <3> QED
      BY <1>1, <1>3, <3>1, <3>2, PageIsWritten
  <2> QED
    BY <1>1, <2>1, <2>2, <2>3 DEF Inv, OthersAreWritten
<1>9. WriteOrder'
  <2>1. \A i \in DOMAIN todo' : todo'[i].page \notin {0, 1}
    BY PageIsWritten DEF Pending
  <2> QED
    BY <1>4, <2>1, PageIsWritten DEF WriteOrder
<1>10. FlashIsOneRecording'
  BY <1>4, PageIsWritten DEF FlashIsOneRecording
<1>11. BootIsAllOrNothing'
  <2>1. /\ AllOrNothing(BootSettings)
        /\ phase = "load_table" => config = BootConfig
        /\ phase = "ready" => AllOrNothing(Settings)
        /\ Pending(1) => AllOrNothing(<<config, <<table[1], flash[2]>>>>)
    BY DEF Inv, BootIsAllOrNothing
  <2>2. Pending(page)
    BY <1>2 DEF Pending
  <2>3. {0, 1, 2} \subseteq Pages
    BY PagesAreApart
  <2>4. page # 0 => BootConfig' = BootConfig /\ BootConfig = config
    BY <1>1, <1>3, <1>4, <1>5, <2>3, PageIsWritten DEF BootConfig, Inv, OthersAreWritten
  <2>5. CASE page = 0
    <3>1. ~Pending(1) /\ ~Pending(2) /\ data = config
      BY <1>2, <2>2, <2>5 DEF Inv, WriteOrder, WritesAreFromRam
    <3>2. BootConfig' = config /\ BootTable' = BootTable
      BY <1>3, <1>5, <2>3, <2>5, <3>1 DEF BootConfig, BootTable
    <3>3. phase = "ready" => BootTable = table
      BY <1>5, <3>1 DEF BootTable, Inv, OthersAreWritten
    <3>4. phase = "load_table" => BootConfig = config
      BY <2>1
    <3>5. AllOrNothing(<<config, BootTable>>)
      BY <1>4, <2>1, <3>3, <3>4 DEF BootSettings, Settings, Loaded
    <3> QED
      BY <1>1, <2>1, <3>2, <3>5, PageIsWritten
      DEF BootIsAllOrNothing, AllOrNothing, BootSettings, Settings
  <2>6. CASE page = 1
    <3>1. data = table[1] /\ table[1] # Blank
      BY <1>2, <2>6 DEF Inv, WritesAreFromRam, OthersAreWritten
    <3>2. BootTable' = <<table[1], flash[2]>> /\ BootConfig' = config
      BY <1>3, <2>3, <2>4, <2>6, <3>1 DEF BootTable
    <3> QED
      BY <1>1, <2>1, <2>2, <2>4, <2>6, <3>2, PageIsWritten
      DEF BootIsAllOrNothing, AllOrNothing, BootSettings, Settings
  <2>7. CASE page = 2
    <3>1. phase = "ready" /\ data = table[2] /\ table[1] # Blank
      BY <1>2, <2>7 DEF Inv, WritesAreFromRam, OthersAreWritten
    <3>2. flash[1] = table[1]
      BY <2>7, <3>1, PageIsWritten DEF Inv, OthersAreWritten
    <3>3. BootTable' = table /\ BootConfig' = config
      BY <1>3, <1>5, <2>3, <2>4, <2>7, <3>1, <3>2 DEF BootTable
    <3> QED
      BY <1>1, <2>1, <2>4, <3>1, <3>3, PageIsWritten
      DEF BootIsAllOrNothing, AllOrNothing, BootSettings, Settings
  <2>8. CASE page \notin {0, 1, 2}
    <3>1. BootTable' = BootTable /\ BootConfig' = BootConfig
      BY <1>3, <2>3, <2>4, <2>8 DEF BootTable
    <3> QED
      BY <1>1, <2>1, <3>1, PageIsWritten
      DEF BootIsAllOrNothing, AllOrNothing, BootSettings, Settings
  <2> QED
    BY <2>5, <2>6, <2>7, <2>8
<1> QED
  BY <1>6, <1>7, <1>8, <1>9, <1>10, <1>11 DEF Inv

-----------------------------------------------------------------------------
\* What a boot reads from the Flash ROM is of the right type.
LEMMA BootIsTyped ==
  ASSUME Inv
  PROVE  /\ BootConfig \in Config
         /\ BootTable \in [{1, 2} -> Version]
         /\ BootTable[1] # Blank
         /\ BootTable = <<BootTable[1], BootTable[2]>>
<1>1. BootConfig \in Config
  BY PagesAreApart, DefaultsAreTyped DEF BootConfig, Inv, Typed, TypeOK
<1>2. flash[1] \in Version /\ flash[2] \in Version
  BY PagesAreApart DEF Inv, Typed, TypeOK, Version
<1>3. BootTable \in [{1, 2} -> Version] /\ BootTable[1] # Blank
  <2>1. CASE flash[1] = Blank
    BY <2>1, DefaultsAreTyped DEF BootTable
  <2>2. CASE flash[1] # Blank
    <3>1. BootTable = <<flash[1], flash[2]>>
      BY <2>2 DEF BootTable
    <3> QED
      BY <1>2, <2>2, <3>1
  <2> QED
    BY <2>1, <2>2
<1> QED
  BY <1>1, <1>3, TableIsPair

\* Pending pages of a sequence of one, two or four writes.
LEMMA PendingInConfigWrites ==
  ASSUME NEW c \in Config, todo' = write_key_config_to_flash(c)
  PROVE  (\A p : Pending(p)' <=> p = 0) /\ DOMAIN todo' = {1}
<1>1. todo' \in Seq(Write) /\ Len(todo') = 1 /\ todo'[1] = [page |-> 0, data |-> c]
  BY ConfigWrites
<1>2. DOMAIN todo' = {1}
  BY <1>1
<1> QED
  BY <1>1, <1>2 DEF Pending

LEMMA PendingInTableWrites ==
  ASSUME NEW t \in [{1, 2} -> Version], todo' = write_key_table_to_flash(t)
  PROVE  (\A p : Pending(p)' <=> p \in {1, 2}) /\ DOMAIN todo' = {1, 2}
<1>1. /\ todo' \in Seq(Write) /\ Len(todo') = 2
      /\ todo'[1] = [page |-> 1, data |-> t[1]] /\ todo'[2] = [page |-> 2, data |-> t[2]]
  BY TableWrites
<1>2. DOMAIN todo' = {1, 2}
  BY <1>1
<1> QED
  BY <1>1, <1>2 DEF Pending

LEMMA PendingInMacroWrites ==
  ASSUME NEW c \in Config, NEW n \in Macros, NEW v \in Version, todo' = write_macro(n, c, v)
  PROVE  /\ \A p : Pending(p)' <=> p = 0 \/ \E k \in 0 .. 2 : p = DataPage(n, k)
         /\ todo' \in Seq(Write)
         /\ \A i \in DOMAIN todo' :
              \/ i = 1 /\ todo'[i].page = 0 /\ todo'[i].data = c
              \/ i # 1 /\ \E k \in 0 .. 2 : todo'[i].page = DataPage(n, k) /\ todo'[i].data = v
<1>1. /\ todo' \in Seq(Write) /\ Len(todo') = 4
      /\ todo'[1] = [page |-> 0, data |-> c]
      /\ todo'[2] = [page |-> DataPage(n, 0), data |-> v]
      /\ todo'[3] = [page |-> DataPage(n, 1), data |-> v]
      /\ todo'[4] = [page |-> DataPage(n, 2), data |-> v]
  BY MacroWrites
<1>2. /\ todo'[1].page = 0 /\ todo'[2].page = DataPage(n, 0)
      /\ todo'[3].page = DataPage(n, 1) /\ todo'[4].page = DataPage(n, 2)
  BY <1>1
<1>3. DOMAIN todo' = {1, 2, 3, 4}
  <2>1. DOMAIN todo' = 1 .. 4
    BY <1>1
  <2> QED
    BY <2>1
<1>4. 0 .. 2 = {0, 1, 2}
  OBVIOUS
<1>5. \A p : Pending(p)' <=> p = 0 \/ \E k \in 0 .. 2 : p = DataPage(n, k)
  BY <1>2, <1>3, <1>4, Zenon DEF Pending
<1>6. \A i \in DOMAIN todo' :
        \/ i = 1 /\ todo'[i].page = 0 /\ todo'[i].data = c
        \/ i # 1 /\ \E k \in 0 .. 2 : todo'[i].page = DataPage(n, k) /\ todo'[i].data = v
  BY <1>1, <1>3, <1>4
<1> QED
  BY <1>1, <1>5, <1>6

\* main_thread() begins.
LEMMA LoadConfigKeepsInv == Inv /\ load_key_config => Inv'
<1> SUFFICES ASSUME Inv, load_key_config PROVE Inv'
  OBVIOUS
<1>1. /\ phase = "load_config" /\ phase' = "load_table"
      /\ UNCHANGED <<flash, table, commands, last, torn>>
      /\ config' = BootConfig
      /\ \/ flash[0] # Blank /\ todo' = <<>> /\ config' = flash[0]
         \/ todo' = write_key_config_to_flash(config')
  BY DEF load_key_config, read_flash, BootConfig
<1>2. config' \in Config /\ BootConfig' = BootConfig /\ BootTable' = BootTable
  BY <1>1, BootIsTyped DEF BootConfig, BootTable
<1>3. /\ \A p : Pending(p)' => p = 0
      /\ Pending(0)' \/ flash[0] = config'
      /\ todo' \in Seq(Write)
      /\ \A i \in DOMAIN todo' : i = 1 /\ todo'[i] = [page |-> 0, data |-> config']
  <2>1. CASE todo' = <<>> /\ config' = flash[0]
    BY <1>1, <2>1 DEF Pending
  <2>2. CASE todo' = write_key_config_to_flash(config')
    <3>1. (\A p : Pending(p)' <=> p = 0) /\ DOMAIN todo' = {1}
      BY <1>2, <2>2, PendingInConfigWrites
    <3>2. todo' \in Seq(Write) /\ todo'[1] = [page |-> 0, data |-> config']
      BY <1>2, <2>2, ConfigWrites
    <3> QED
      BY <3>1, <3>2
  <2> QED
    BY <1>1, <2>1, <2>2
<1>4. Typed'
  BY <1>1, <1>2, <1>3, PagesAreApart DEF Inv, Typed, TypeOK, Write
<1>5. WritesAreFromRam'
  BY <1>3, PagesAreApart DEF WritesAreFromRam
<1>6. OthersAreWritten'
  BY <1>1, <1>3 DEF Inv, OthersAreWritten, FlashIsOneRecording, Loaded
<1>7. WriteOrder'
  BY <1>1, <1>3 DEF WriteOrder, Loaded
<1>8. FlashIsOneRecording'
  BY <1>1, <1>2 DEF FlashIsOneRecording, Loaded
<1>9. BootIsAllOrNothing'
  <2>1. phase' = "load_table" /\ config' = BootConfig' /\ ~Pending(1)'
    BY <1>1, <1>2, <1>3
  <2>2. AllOrNothing(BootSettings)'
    BY <1>1, <1>2 DEF Inv, BootIsAllOrNothing, AllOrNothing, BootSettings
  <2> QED
    BY <2>1, <2>2 DEF BootIsAllOrNothing
<1> QED
  BY <1>4, <1>5, <1>6, <1>7, <1>8, <1>9 DEF Inv

LEMMA LoadTableKeepsInv == Inv /\ load_key_table => Inv'
<1> SUFFICES ASSUME Inv, load_key_table PROVE Inv'
  OBVIOUS
<1>1. /\ phase = "load_table" /\ todo = <<>> /\ phase' = "ready"
      /\ UNCHANGED <<flash, config, commands, torn>>
  BY DEF load_key_table
<1>2. \/ /\ flash[1] = Blank /\ table' = BootTable
         /\ todo' = write_key_table_to_flash(table') /\ last'.kind = "first boot"
      \/ /\ flash[1] # Blank /\ table' = BootTable /\ todo' = <<>> /\ last' = last
  <2>1. read_flash(KEY_TABLE_START_PAGE, 2) = <<flash[1], flash[2]>>
    BY DEF read_flash
  <2>2. read_flash(KEY_TABLE_START_PAGE, 2)[1] = flash[1]
    BY <2>1
  <2>3. CASE flash[1] = Blank
    <3>1. table' = DefaultTable /\ todo' = write_key_table_to_flash(DefaultTable)
      BY <2>2, <2>3 DEF load_key_table
    <3>2. last'.kind = "first boot"
      <4>1. Note("first boot")
        BY <2>2, <2>3 DEF load_key_table
      <4> QED
        BY <4>1 DEF Note
    <3> QED
      BY <2>3, <3>1, <3>2, Zenon DEF BootTable
  <2>4. CASE flash[1] # Blank
    BY <2>1, <2>2, <2>4 DEF load_key_table, BootTable
  <2> QED
    BY <2>3, <2>4
<1>3. /\ table' \in [{1, 2} -> Version] /\ table'[1] # Blank
      /\ BootConfig' = BootConfig /\ BootTable' = BootTable
  BY <1>1, <1>2, BootIsTyped DEF BootConfig, BootTable
<1>4. /\ \A p : Pending(p)' => p \in {1, 2}
      /\ \A p \in {1, 2} : Pending(p)' \/ flash[p] = table'[p]
      /\ todo' \in Seq(Write)
      /\ \A i \in DOMAIN todo' :
           i \in {1, 2} /\ todo'[i] = [page |-> i, data |-> table'[i]]
  <2>1. CASE todo' = <<>> /\ flash[1] # Blank
    <3>1. table' = <<flash[1], flash[2]>>
      BY <1>2, <2>1 DEF BootTable
    <3> QED
      BY <2>1, <3>1 DEF Pending
  <2>2. CASE todo' = write_key_table_to_flash(table')
    <3>1. (\A p : Pending(p)' <=> p \in {1, 2}) /\ DOMAIN todo' = {1, 2}
      BY <1>3, <2>2, PendingInTableWrites
    <3>2. /\ todo' \in Seq(Write) /\ todo'[1] = [page |-> 1, data |-> table'[1]]
          /\ todo'[2] = [page |-> 2, data |-> table'[2]]
      BY <1>3, <2>2, TableWrites
    <3> QED
      BY <3>1, <3>2
  <2> QED
    BY <1>2, <2>1, <2>2
<1>5. /\ config = BootConfig /\ AllOrNothing(BootSettings)
      /\ flash[0] = config
      /\ \A n \in Macros \ torn, k \in 0 .. 2 :
           flash[DataPage(n, k)] = Recorded(config.runKey[n])
  BY <1>1, NothingIsPending DEF Inv, BootIsAllOrNothing, OthersAreWritten, Loaded
<1>6. Typed'
  <2>1. \A i \in DOMAIN todo' :
          todo'[i].page \in Pages /\ todo'[i].page # 0 /\ todo'[i].data \in Version
    BY <1>3, <1>4, PagesAreApart
  <2> QED
    BY <1>1, <1>3, <1>4, <2>1 DEF Inv, Typed, TypeOK, Write
<1>7. WritesAreFromRam'
  BY <1>1, <1>4, PagesAreApart DEF WritesAreFromRam
<1>8. OthersAreWritten'
  BY <1>1, <1>3, <1>4, <1>5 DEF OthersAreWritten
<1>9. WriteOrder' /\ FlashIsOneRecording'
  BY <1>1, <1>4 DEF WriteOrder, FlashIsOneRecording, Loaded
<1>10. BootIsAllOrNothing'
  <2>1. CASE last'.kind = "first boot"
    BY <1>1, <2>1 DEF BootIsAllOrNothing, AllOrNothing
  <2>2. CASE last' = last /\ todo' = <<>>
    <3>1. Settings' = BootSettings /\ BootSettings' = BootSettings /\ ~Pending(1)'
      <4>1. ~Pending(1)'
        BY <2>2 DEF Pending
      <4> QED
        BY <1>1, <1>2, <1>3, <1>5, <4>1, Zenon DEF Settings, BootSettings
    <3> QED
      BY <1>1, <1>5, <2>2, <3>1 DEF BootIsAllOrNothing, AllOrNothing
  <2> QED
    BY <1>2, <2>1, <2>2
<1> QED
  BY <1>6, <1>7, <1>8, <1>9, <1>10 DEF Inv

-----------------------------------------------------------------------------
\* A new value is a version other than a blank page.
LEMMA NewValueIsTyped ==
  ASSUME Inv, NewValue
  PROVE  /\ commands' \in 0 .. MaxCommands /\ commands' # NoRecording
         /\ commands' \in Version /\ commands' # Blank
BY StoreAssumption DEF Inv, Typed, NewValue, NoRecording, Version

\* A command that writes the table, from Ready: what the invariant needs.
LEMMA TableCommandKeepsInv ==
  ASSUME Inv, Ready,
         table' \in [{1, 2} -> Version], table'[1] # Blank,
         todo' = write_key_table_to_flash(table'),
         commands' \in 0 .. MaxCommands,
         UNCHANGED <<flash, config, phase, torn>>,
         AllOrNothing(Settings)', AllOrNothing(<<config, table>>)',
         AllOrNothing(<<config, <<table[1], flash[2]>>>>)', AllOrNothing(BootSettings)'
  PROVE  Inv'
<1>1. /\ \A p : Pending(p)' <=> p \in {1, 2}
      /\ todo' \in Seq(Write)
      /\ DOMAIN todo' = {1, 2}
      /\ todo'[1] = [page |-> 1, data |-> table'[1]]
      /\ todo'[2] = [page |-> 2, data |-> table'[2]]
  <2>1. (\A p : Pending(p)' <=> p \in {1, 2}) /\ DOMAIN todo' = {1, 2}
    BY PendingInTableWrites
  <2>2. /\ todo' \in Seq(Write) /\ todo'[1] = [page |-> 1, data |-> table'[1]]
        /\ todo'[2] = [page |-> 2, data |-> table'[2]]
    BY TableWrites
  <2> QED
    BY <2>1, <2>2
<1>2. \A i \in DOMAIN todo' :
        i \in {1, 2} /\ todo'[i].page = i /\ todo'[i].data = table'[i]
  BY <1>1
<1>3. Typed'
  BY <1>1, <1>2, PagesAreApart DEF Inv, Typed, TypeOK, Write
<1>4. WritesAreFromRam'
  BY <1>2, PagesAreApart DEF WritesAreFromRam, Ready
<1>5. OthersAreWritten'
  <2>1. flash'[0] = config'
    BY Quiet
  <2>2. ASSUME NEW n \in Macros, n \notin torn', NEW k \in 0 .. 2
        PROVE  flash'[DataPage(n, k)] = Recorded(config'.runKey[n])
    <3>1. flash[DataPage(n, k)] = Recorded(config.runKey[n])
      BY <2>2, Quiet
    <3> QED
      BY <3>1
  <2>3. \A p \in {1, 2} : Pending(p)'
    BY <1>1
  <2> QED
    BY <2>1, <2>2, <2>3 DEF OthersAreWritten
<1>6. Loaded' /\ ~Pending(0)'
  BY <1>1 DEF Loaded, Ready
<1>7. WriteOrder'
  BY <1>2, <1>6 DEF WriteOrder
<1>8. FlashIsOneRecording'
  BY <1>6 DEF FlashIsOneRecording
<1>9. BootIsAllOrNothing'
  BY DEF BootIsAllOrNothing, Ready
<1> QED
  BY <1>3, <1>4, <1>5, <1>7, <1>8, <1>9 DEF Inv

LEMMA ResetKeepsInv == Inv /\ reset_key_table => Inv'
<1> SUFFICES ASSUME Inv, reset_key_table PROVE Inv'
  OBVIOUS
<1>1. last'.kind = "reset"
  <2>1. Note("reset")
    BY DEF reset_key_table
  <2> QED
    BY <2>1 DEF Note
<1>2. \A s : AllOrNothing(s)'
  BY <1>1 DEF AllOrNothing
<1> QED
  BY <1>2, DefaultsAreTyped, TableCommandKeepsInv DEF reset_key_table, Inv, Typed

LEMMA UpdateKeepsInv ==
  ASSUME Inv, NEW half \in {1, 2}, update_key_table(half)
  PROVE  Inv'
<1>1. /\ Ready /\ NewValue /\ table' = [table EXCEPT ![half] = commands']
      /\ todo' = write_key_table_to_flash(table')
      /\ UNCHANGED <<flash, config, phase, torn>>
  BY DEF update_key_table
<1>2. last'.old = Settings /\ last'.new = Settings'
  <2>1. Note("update")
    BY DEF update_key_table
  <2> QED
    BY <2>1 DEF Note
<1>3. /\ table \in [{1, 2} -> Version] /\ table[1] # Blank
      /\ flash[2] = table[2] /\ BootConfig = config /\ BootTable = table
  BY <1>1, Quiet DEF Inv, Typed, TypeOK, OthersAreWritten, Ready
<1>4. /\ table' \in [{1, 2} -> Version] /\ table'[1] # Blank
      /\ commands' \in 0 .. MaxCommands
  BY <1>1, <1>3, NewValueIsTyped
<1>5. <<table'[1], flash'[2]>> \in {table, table'}
  <2>1. table = <<table[1], table[2]>> /\ table' = <<table'[1], table'[2]>>
    BY <1>3, <1>4, TableIsPair
  <2>2. CASE half = 1
    <3>1. table'[2] = flash'[2]
      BY <1>1, <1>3, <2>2
    <3> QED
      BY <2>1, <3>1
  <2>3. CASE half = 2
    <3>1. table'[1] = table[1] /\ flash'[2] = table[2]
      BY <1>1, <1>3, <2>3
    <3> QED
      BY <2>1, <3>1
  <2> QED
    BY <2>2, <2>3
<1>6. BootSettings' = Settings
  BY <1>1, <1>3 DEF BootSettings, BootConfig, BootTable, Settings
<1>7. /\ AllOrNothing(Settings)' /\ AllOrNothing(BootSettings)'
      /\ AllOrNothing(<<config, table>>)'
      /\ AllOrNothing(<<config, <<table[1], flash[2]>>>>)'
  BY <1>1, <1>2, <1>5, <1>6 DEF AllOrNothing, Settings
<1> QED
  BY <1>1, <1>4, <1>7, TableCommandKeepsInv

\* A command that writes the configuration, and a macro after it.
LEMMA ConfigCommandKeepsInv ==
  ASSUME Inv, Ready, UNCHANGED <<flash, table, phase>>,
         config' \in Config, commands' \in 0 .. MaxCommands, torn' \subseteq torn,
         last'.old = Settings, last'.new = Settings',
         NEW Changed \in SUBSET Macros,
         torn \subseteq torn' \cup Changed,
         \A n \in Changed : config'.runKey[n] # NoRecording,
         \A n \in Macros \ Changed : config'.runKey[n] = config.runKey[n],
         todo' \in Seq(Write),
         \A i \in DOMAIN todo' :
           \/ i = 1 /\ todo'[i].page = 0 /\ todo'[i].data = config'
           \/ /\ i # 1
              /\ \E n \in Changed, k \in 0 .. 2 :
                   /\ todo'[i].page = DataPage(n, k)
                   /\ todo'[i].data = config'.runKey[n],
         Pending(0)', \A n \in Changed, k \in 0 .. 2 : Pending(DataPage(n, k))'
  PROVE  Inv'
<1>1. Typed'
  <2>1. \A n \in Changed : config'.runKey[n] \in Version
    BY StoreAssumption DEF Config, Version, NoRecording
  <2>2. \A i \in DOMAIN todo' :
          /\ todo'[i].page \in Pages
          /\ todo'[i].data \in IF todo'[i].page = 0 THEN Config ELSE Version
    BY <2>1, PagesAreApart
  <2> QED
    BY <2>2 DEF Inv, Typed, TypeOK, Write
<1>2. WritesAreFromRam'
  BY PagesAreApart DEF WritesAreFromRam, Ready
<1>3. OthersAreWritten'
  <2>1. ASSUME NEW n \in Macros, n \notin torn', NEW k \in 0 .. 2
        PROVE  Pending(DataPage(n, k))' \/ flash'[DataPage(n, k)] = Recorded(config'.runKey[n])
    <3>1. CASE n \in Changed
      BY <3>1
    <3>2. CASE n \notin Changed
      BY <2>1, <3>2, Quiet
    <3> QED
      BY <3>1, <3>2
  <2>2. flash'[1] = table'[1] /\ flash'[2] = table'[2] /\ table'[1] # Blank
    BY Quiet DEF Inv, OthersAreWritten, Ready
  <2> QED
    BY <2>1, <2>2 DEF OthersAreWritten
<1>4. WriteOrder'
  <2>1. \A i \in DOMAIN todo' : todo'[i].page \notin {1, 2} /\ (todo'[i].page = 0 => i = 1)
    BY PagesAreApart
  <2> QED
    BY <2>1 DEF WriteOrder, Pending, Loaded, Ready
<1>5. FlashIsOneRecording'
  <2>1. BootConfig' = config /\ Loaded'
    BY Quiet DEF BootConfig, Ready, Loaded
  <2>2. \A n \in Changed : PendingMacro(n)'
    BY DEF PendingMacro
  <2> QED
    BY <2>1, <2>2 DEF FlashIsOneRecording
<1>6. BootIsAllOrNothing'
  <2>1. BootSettings' = Settings
    BY Quiet DEF BootSettings, BootConfig, BootTable, Settings
  <2>2. ~Pending(1)'
    BY PagesAreApart DEF Pending
  <2>3. AllOrNothing(Settings)' /\ AllOrNothing(BootSettings)'
    BY <2>1 DEF AllOrNothing
  <2> QED
    BY <2>2, <2>3 DEF BootIsAllOrNothing, Ready
<1> QED
  BY <1>1, <1>2, <1>3, <1>4, <1>5, <1>6 DEF Inv

LEMMA ModeKeepsInv ==
  ASSUME Inv, NEW mode \in LangModes, set_lang_convert_mode(mode)
  PROVE  Inv'
<1>1. /\ Ready /\ UNCHANGED <<flash, table, phase, commands, torn>>
      /\ config' = [config EXCEPT !.mode = mode]
      /\ todo' = write_key_config_to_flash(config')
  BY DEF set_lang_convert_mode
<1>2. last'.old = Settings /\ last'.new = Settings'
  <2>1. Note("mode")
    BY DEF set_lang_convert_mode
  <2> QED
    BY <2>1 DEF Note
<1>3. config' \in Config /\ commands' \in 0 .. MaxCommands
  BY <1>1 DEF Inv, Typed, TypeOK, Config
<1>4. config'.runKey = config.runKey
  BY <1>1 DEF Inv, Typed, TypeOK, Config
<1>5. Pending(0)' /\ DOMAIN todo' = {1}
  BY <1>1, <1>3, PendingInConfigWrites
<1>6. todo' \in Seq(Write) /\ todo'[1] = [page |-> 0, data |-> config']
  BY <1>1, <1>3, ConfigWrites
<1>7. \A i \in DOMAIN todo' : i = 1 /\ todo'[i].page = 0 /\ todo'[i].data = config'
  BY <1>5, <1>6
<1>8. \A n \in Macros : config'.runKey[n] = config.runKey[n]
  BY <1>4
<1> DEFINE Changed == {}
<1>9. /\ Changed \in SUBSET Macros /\ torn \subseteq torn' \cup Changed /\ torn' \subseteq torn
      /\ \A n \in Changed : config'.runKey[n] # NoRecording
      /\ \A n \in Macros \ Changed : config'.runKey[n] = config.runKey[n]
      /\ \A i \in DOMAIN todo' :
           \/ i = 1 /\ todo'[i].page = 0 /\ todo'[i].data = config'
           \/ /\ i # 1
              /\ \E n \in Changed, k \in 0 .. 2 :
                   /\ todo'[i].page = DataPage(n, k)
                   /\ todo'[i].data = config'.runKey[n]
      /\ \A n \in Changed, k \in 0 .. 2 : Pending(DataPage(n, k))'
  BY <1>1, <1>7, <1>8
<1> HIDE DEF Changed
<1> QED
  BY <1>1, <1>2, <1>3, <1>5, <1>6, <1>9, ConfigCommandKeepsInv

LEMMA MacroKeepsInv ==
  ASSUME Inv, NEW m \in Macros, set_macro(m)
  PROVE  Inv'
<1> DEFINE v == commands'
           Changed == {m}
<1>1. /\ Ready /\ NewValue /\ UNCHANGED <<flash, table, phase>> /\ torn' = torn \ {m}
      /\ config' = [config EXCEPT !.runKey[m] = v]
      /\ todo' = write_macro(m, config', v)
  BY DEF set_macro, write_macro
<1>2. last'.old = Settings /\ last'.new = Settings'
  <2>1. Note("macro")
    BY DEF set_macro
  <2> QED
    BY <2>1 DEF Note
<1>3. v \in 0 .. MaxCommands /\ v # NoRecording /\ v \in Version
  BY <1>1, NewValueIsTyped
<1> HIDE DEF v
<1>4. v \in NoRecording .. MaxCommands
  BY <1>3, StoreAssumption DEF NoRecording
<1>5. /\ config' \in Config
      /\ config'.runKey[m] = v
      /\ \A n \in Macros \ {m} : config'.runKey[n] = config.runKey[n]
  BY <1>1, <1>4 DEF Inv, Typed, TypeOK, Config
<1>6. /\ \A p : Pending(p)' <=> p = 0 \/ \E k \in 0 .. 2 : p = DataPage(m, k)
      /\ todo' \in Seq(Write)
      /\ \A i \in DOMAIN todo' :
           \/ i = 1 /\ todo'[i].page = 0 /\ todo'[i].data = config'
           \/ i # 1 /\ \E k \in 0 .. 2 : todo'[i].page = DataPage(m, k) /\ todo'[i].data = v
  BY <1>1, <1>3, <1>5, PendingInMacroWrites
<1>7. /\ Changed \in SUBSET Macros /\ torn \subseteq torn' \cup Changed /\ torn' \subseteq torn
      /\ \A n \in Changed : config'.runKey[n] # NoRecording
      /\ \A n \in Macros \ Changed : config'.runKey[n] = config.runKey[n]
      /\ \A i \in DOMAIN todo' :
           \/ i = 1 /\ todo'[i].page = 0 /\ todo'[i].data = config'
           \/ /\ i # 1
              /\ \E n \in Changed, k \in 0 .. 2 :
                   /\ todo'[i].page = DataPage(n, k)
                   /\ todo'[i].data = config'.runKey[n]
      /\ Pending(0)'
      /\ \A n \in Changed, k \in 0 .. 2 : Pending(DataPage(n, k))'
  BY <1>1, <1>3, <1>5, <1>6
<1>8. commands' \in 0 .. MaxCommands
  BY <1>3 DEF v
<1> HIDE DEF Changed
<1> QED
  BY <1>1, <1>2, <1>5, <1>6, <1>7, <1>8, ConfigCommandKeepsInv

-----------------------------------------------------------------------------
LEMMA StutterKeepsInv == Inv /\ UNCHANGED vars => Inv'
BY DEF vars, Inv, Typed, TypeOK, WritesAreFromRam, OthersAreWritten, WriteOrder, Loaded,
       FlashIsOneRecording, BootIsAllOrNothing, AllOrNothing, BootSettings, BootConfig,
       BootTable, Pending, PendingMacro, Settings

\* The invariant, by one step for each action.
THEOREM StoreInvariant == Spec => []Inv
<1>1. Inv /\ [Next]_vars => Inv'
  <2> SUFFICES ASSUME Inv, [Next]_vars PROVE Inv'
    OBVIOUS
  <2>1. CASE PowerOn
    BY <2>1, PowerOnKeepsInv
  <2>2. CASE PowerOff
    BY <2>2, PowerOffKeepsInv
  <2>3. CASE WritePage
    BY <2>3, WritePageKeepsInv
  <2>4. CASE load_key_config
    BY <2>4, LoadConfigKeepsInv
  <2>5. CASE load_key_table
    BY <2>5, LoadTableKeepsInv
  <2>6. CASE reset_key_table
    BY <2>6, ResetKeepsInv
  <2>7. CASE \E half \in {1, 2} : update_key_table(half)
    BY <2>7, UpdateKeepsInv
  <2>8. CASE \E mode \in LangModes : set_lang_convert_mode(mode)
    BY <2>8, ModeKeepsInv
  <2>9. CASE \E n \in Macros : set_macro(n)
    BY <2>9, MacroKeepsInv
  <2>10. CASE UNCHANGED vars
    BY <2>10, StutterKeepsInv
  <2> QED
    BY <2>1, <2>2, <2>3, <2>4, <2>5, <2>6, <2>7, <2>8, <2>9, <2>10 DEF Next
<1> QED
  BY <1>1, Starts, PTL DEF Spec

\* Every variable has its type: also in RAM and in the Flash, whatever was
\* loaded from it.
THEOREM TypeCorrect == Spec => []TypeOK
<1>1. Inv => TypeOK
  BY DEF Inv, Typed
<1> QED
  BY <1>1, StoreInvariant, PTL

\* Between commands the Flash ROM holds what is in RAM.
THEOREM FlashAgrees == Spec => []FlashIsUpToDate
<1>1. Inv => FlashIsUpToDate
  <2> SUFFICES ASSUME Inv, Ready
               PROVE  flash[0] = config /\ read_flash(KEY_TABLE_START_PAGE, 2) = table
    BY DEF FlashIsUpToDate
  <2>1. read_flash(KEY_TABLE_START_PAGE, 2) = <<flash[1], flash[2]>>
    BY DEF read_flash
  <2>2. table = <<table[1], table[2]>>
    BY TableIsPair DEF Inv, Typed, TypeOK
  <2> QED
    BY <2>1, <2>2, Quiet
<1> QED
  BY <1>1, StoreInvariant, PTL

\* After a power cut and the next boot the command that it cut off has
\* happened or has not.
THEOREM CutIsAllOrNothing == Spec => []CutCommandIsAllOrNothing
<1>1. Inv => CutCommandIsAllOrNothing
  BY Quiet DEF CutCommandIsAllOrNothing, AllOrNothing
<1> QED
  BY <1>1, StoreInvariant, PTL

\* A macro's run key and its three pages of data are of one recording.
THEOREM MacroIsWhole == Spec => []MacroIsOneRecording
<1>1. Inv => MacroIsOneRecording
  <2> SUFFICES ASSUME Inv, Ready, NEW n \in Macros \ torn,
                      NEW i \in DOMAIN read_flash(MacroStart(n), MACRO_DATA_SIZE_IN_PAGE)
               PROVE  read_flash(MacroStart(n), MACRO_DATA_SIZE_IN_PAGE)[i]
                        = Recorded(config.runKey[n])
    BY DEF MacroIsOneRecording, Recorded
  <2>1. /\ i \in 1 .. 3
        /\ read_flash(MacroStart(n), MACRO_DATA_SIZE_IN_PAGE)[i] = flash[MacroStart(n) + i - 1]
    BY DEF read_flash
  <2>2. i - 1 \in 0 .. 2 /\ MacroStart(n) + i - 1 = DataPage(n, i - 1)
    BY <2>1, StoreAssumption DEF DataPage, MacroStart, Macros
  <2> QED
    BY <2>1, <2>2, Quiet
<1> QED
  BY <1>1, StoreInvariant, PTL

=============================================================================

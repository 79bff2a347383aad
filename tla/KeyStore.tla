----------------------------- MODULE KeyStore ------------------------------
(***************************************************************************)
(* firmware/KeyTable.c: the key configuration, the key table and the       *)
(* macros in RAM and in the Flash ROM, which is written page by page while *)
(* the power, which comes from the PC's USB port, may go at any moment.    *)
(*                                                                         *)
(* All of this runs in the main thread, so one command finishes its page   *)
(* writes before the next starts.  A page is written entirely or not at    *)
(* all.  The content of a page is abstracted to what it was made for: the  *)
(* table's halves are 0 by default, else the number of the last update to  *)
(* them; a macro's run key and data are the number of the recording.       *)
(***************************************************************************)
EXTENDS Integers, Sequences, SequencesExt

CONSTANTS
  MacroCount,     \* MACRO_DATA_COUNT
  LangModes,      \* values of lang_convert_mode; 0 is LANG_CONVERT_NONE
  Blank,          \* a page never written: 0xFF everywhere, no signature
  MaxCommands     \* bound: commands that write a new value

ASSUME StoreAssumption ==
  /\ MacroCount \in 1 .. 4
  /\ 0 \in LangModes
  /\ MaxCommands \in Nat
  /\ Blank \notin Nat

VARIABLES
  flash,      \* the pages, counted from KEY_CONFIG_START_PAGE
  config,     \* m_key_config
  table,      \* m_key_table: its two pages
  phase,      \* how far main_thread() is
  todo,       \* page writes that the running command still has to do
  commands,   \* number of the last command that wrote a new value
  last,       \* the last command: its kind, settings before and after it
  torn        \* macros whose last recording was cut off by a power failure

vars == <<flash, config, table, phase, todo, commands, last, torn>>

Macros == 0 .. MacroCount - 1

-----------------------------------------------------------------------------
(***************************************************************************)
(* The map of the Flash ROM.                                               *)
(***************************************************************************)
KEY_CONFIG_START_PAGE == 0
KEY_TABLE_START_PAGE == KEY_CONFIG_START_PAGE + 1
MACRO_DATA_START_PAGE == KEY_TABLE_START_PAGE + 2
MACRO_DATA_SIZE_IN_PAGE == 3

\* Mutant: macros overlap.
MacroStart_Overlap(n) == MACRO_DATA_START_PAGE + (MACRO_DATA_SIZE_IN_PAGE - 1) * n

MacroStart(n) == MACRO_DATA_START_PAGE + MACRO_DATA_SIZE_IN_PAGE * n
Pages == 0 .. MACRO_DATA_START_PAGE + MACRO_DATA_SIZE_IN_PAGE * MacroCount - 1

\* write_flash(): what is left to write, in order.
write_flash(start, contents) ==
  [i \in DOMAIN contents |-> [page |-> start + i - 1, data |-> contents[i]]]

read_flash(start, count) == [i \in 1 .. count |-> flash[start + i - 1]]

write_key_config_to_flash(c) == write_flash(KEY_CONFIG_START_PAGE, <<c>>)
write_key_table_to_flash(t) == write_flash(KEY_TABLE_START_PAGE, t)

NoRecording == -1
DefaultConfig == [mode |-> 0, runKey |-> [n \in Macros |-> NoRecording]]
DefaultTable == <<0, 0>>

-----------------------------------------------------------------------------
\* What the user has configured, macros' data apart.
Settings == <<config, table>>

Init ==
  /\ flash = [p \in Pages |-> Blank]
  /\ config = DefaultConfig
  /\ table = DefaultTable
  /\ phase = "off"
  /\ todo = <<>>
  /\ commands = 0
  /\ last = [kind |-> "none", old |-> Settings, new |-> Settings]
  /\ torn = {}

Note(kind) == last' = [kind |-> kind, old |-> Settings, new |-> Settings']

PowerOn ==
  /\ phase = "off"
  /\ phase' = "load_config"
  /\ UNCHANGED <<flash, config, table, todo, commands, last, torn>>

\* The plug is pulled.  RAM is lost; the next boot assigns it before use.
PowerOff ==
  /\ phase # "off"
  /\ phase' = "off"
  /\ todo' = <<>>
  /\ config' = DefaultConfig
  /\ table' = DefaultTable
  /\ torn' = torn \cup {n \in Macros : \E i \in DOMAIN todo : todo[i].page >= MacroStart(n)
                                                     /\ todo[i].page < MacroStart(n + 1)}
  /\ UNCHANGED <<flash, commands, last>>

\* flash_writePage()
WritePage ==
  /\ todo # <<>>
  /\ flash' = [flash EXCEPT ![Head(todo).page] = Head(todo).data]
  /\ todo' = Tail(todo)
  /\ UNCHANGED <<config, table, phase, commands, last, torn>>

load_key_config ==
  /\ phase = "load_config"
  /\ phase' = "load_table"
  /\ LET page == read_flash(KEY_CONFIG_START_PAGE, 1)[1]
     IN  IF page = Blank
         THEN /\ config' = DefaultConfig
              /\ todo' = write_key_config_to_flash(DefaultConfig)
         ELSE config' = page /\ todo' = <<>>
  /\ UNCHANGED <<flash, table, commands, last, torn>>

\* The signature that is tested is in the first page.
load_key_table ==
  /\ phase = "load_table" /\ todo = <<>>
  /\ phase' = "ready"
  /\ UNCHANGED <<flash, config, commands, torn>>
  /\ LET pages == read_flash(KEY_TABLE_START_PAGE, 2)
     IN  IF pages[1] = Blank
         THEN /\ table' = DefaultTable
              /\ todo' = write_key_table_to_flash(DefaultTable)
              /\ Note("first boot")
         ELSE table' = pages /\ todo' = <<>> /\ UNCHANGED last

Ready == phase = "ready" /\ todo = <<>>

NewValue == commands < MaxCommands /\ commands' = commands + 1

reset_key_table ==
  /\ Ready
  /\ table' = DefaultTable
  /\ todo' = write_key_table_to_flash(DefaultTable)
  /\ UNCHANGED <<flash, config, phase, commands, torn>>
  /\ Note("reset")

\* Mutant: the table is built from the default one.
update_key_table_Fresh(half) ==
  /\ Ready
  /\ NewValue
  /\ table' = [DefaultTable EXCEPT ![half] = commands']
  /\ todo' = write_key_table_to_flash(table')
  /\ UNCHANGED <<flash, config, phase, torn>>
  /\ Note("update")

\* update_key_table() for a key whose entry is in the given page.
update_key_table(half) ==
  /\ Ready
  /\ NewValue
  /\ table' = [table EXCEPT ![half] = commands']
  /\ todo' = write_key_table_to_flash(table')
  /\ UNCHANGED <<flash, config, phase, torn>>
  /\ Note("update")

\* Mutant: the mode is set in RAM only.
set_lang_convert_mode_NoWrite(mode) ==
  /\ Ready
  /\ config' = [config EXCEPT !.mode = mode]
  /\ UNCHANGED <<flash, table, phase, todo, commands, torn>>
  /\ Note("mode")

set_lang_convert_mode(mode) ==
  /\ Ready
  /\ config' = [config EXCEPT !.mode = mode]
  /\ todo' = write_key_config_to_flash(config')
  /\ UNCHANGED <<flash, table, phase, commands, torn>>
  /\ Note("mode")

\* The end of handle_set_macro(): set_macro_run_key(), update_macro_data().
set_macro(n) ==
  /\ Ready
  /\ NewValue
  /\ config' = [config EXCEPT !.runKey[n] = commands']
  /\ todo' = write_key_config_to_flash(config')
               \o write_flash(MacroStart(n), <<commands', commands', commands'>>)
  /\ torn' = torn \ {n}
  /\ UNCHANGED <<flash, table, phase>>
  /\ Note("macro")

Next ==
  \/ PowerOn \/ PowerOff \/ WritePage
  \/ load_key_config \/ load_key_table
  \/ reset_key_table
  \/ \E half \in {1, 2} : update_key_table(half)
  \/ \E mode \in LangModes : set_lang_convert_mode(mode)
  \/ \E n \in Macros : set_macro(n)

Spec == Init /\ [][Next]_vars

-----------------------------------------------------------------------------
Version == {Blank} \cup 0 .. MaxCommands
Config == [mode : LangModes, runKey : [Macros -> NoRecording .. MaxCommands]]

\* load_key_config() knows a written page from a blank one by its signature.
ASSUME SignatureAssumption == Blank \notin Config

TypeOK ==
  /\ \A p \in Pages :
       \/ flash[p] = Blank
       \/ flash[p] \in IF p = KEY_CONFIG_START_PAGE THEN Config ELSE Version
  /\ config \in Config
  /\ table \in [{1, 2} -> Version]
  /\ phase \in {"off", "load_config", "load_table", "ready"}
  /\ \A i \in DOMAIN todo : todo[i].page \in Pages
  /\ torn \subseteq Macros

\* Between commands the Flash ROM holds what is in RAM, so that a power cut
\* then loses nothing: after every command, every boot, every mixture of
\* the two, no command overwriting the pages of another one's data.
FlashIsUpToDate ==
  Ready => /\ flash[KEY_CONFIG_START_PAGE] = config
           /\ read_flash(KEY_TABLE_START_PAGE, 2) = table

\* A command that the power failure cuts off has either happened after the
\* next boot or not happened: also update_key_table(), which writes the
\* table in two pages.  (reset_key_table() changes both and may be found
\* half done.)
CutCommandIsAllOrNothing ==
  Ready /\ last.kind \in {"update", "mode", "macro"} => Settings \in {last.old, last.new}

\* Run key and data of a macro come from the same recording, unless the
\* recording's own writes were cut off: its data is three pages, written
\* after the page with the run key.
MacroIsOneRecording ==
  Ready => \A n \in Macros \ torn :
             LET data == read_flash(MacroStart(n), MACRO_DATA_SIZE_IN_PAGE)
                 session == config.runKey[n]
             IN  \A i \in DOMAIN data :
                   data[i] = IF session = NoRecording THEN Blank ELSE session

=============================================================================

----------------------------- MODULE Boot_proofs -----------------------------
(***************************************************************************)
(* Proofs about the two programs of the host port, for all devices that    *)
(* may be plugged in and every amount of memory.                           *)
(***************************************************************************)
EXTENDS Boot, TLAPS

\* Where the keyboard converter is, and what it has told the main thread:
\* in a session the buffer that is not read into is the last entry.
InSession == at \in {"read", "send", "leds", "disconnect"}

KeyboardIsThere ==
  at \in {"connect", "read", "send", "leds"} /\ ~lost => port.is = "keyboard"

EntriesAlternate ==
  /\ ~InSession => out.entry.event \in {"none", "disconnect"}
  /\ InSession => out.entry.event \in {"connect", "input"}

LastEntryIsKept ==
  /\ at \in {"read", "send"} /\ first => out.entry = Session!Connected
  /\ at \in {"read", "send", "leds"} /\ ~first => out.entry = Session!Input(buffer[1 - index])
  /\ at = "send" /\ ~first => buffer[0] # buffer[1]
  /\ at = "leds" => ~first

HostHandles ==
  /\ at = "off" => open = {}
  /\ at \in {"wait", "attach"} => open = {"hostUsb"}

HostInv ==
  /\ HostTypeOK /\ KeyboardIsThere /\ EntriesAlternate /\ LastEntryIsKept /\ HostHandles

\* The same for the update, with what the two programs share.
FwHandles ==
  /\ stage = "off" => handles = {}
  /\ stage \in {"wait", "boms", "delay"} => handles = {"usb"}
  /\ stage \in {"fat", "detach_boms"} => handles = {"usb", "boms"}
  /\ stage \in {"open", "compare", "update", "detach"} => handles = {"usb", "boms", "fat"}

FileIsOpen == stage \in {"compare", "update"} => files >= 1

FwInv == Fw!FwTypeOK /\ FwHandles /\ FileIsOpen /\ UpdateIsNeeded

OneProgramRuns ==
  /\ switch \in {"keyboard", "update"} /\ mode \in {"off", "keyboard", "update"}
  /\ mode # "keyboard" => at = "off"
  /\ mode # "update" => stage = "off"
  /\ broken => mode = "off"

Inv == HostInv /\ FwInv /\ OneProgramRuns

USE DEF session, vars, fwVars, allVars

-----------------------------------------------------------------------------
(***************************************************************************)
(* The keyboard converter.                                                 *)
(***************************************************************************)
\* HostInv holds when the thread is not running yet.
LEMMA HostStarts == HostInit => HostInv
<1> SUFFICES ASSUME HostInit PROVE HostInv
  OBVIOUS
<1>1. at = "off" /\ out.entry.event = "none"
  BY DEF HostInit, Off, Session!Nothing
<1>2. HostTypeOK
  <2>1. index \in 0 .. 1
    BY DEF HostInit, Off
  <2>2. lost \in BOOLEAN /\ first \in BOOLEAN
    BY DEF HostInit, Off
  <2>3. /\ port \in Devices /\ buffer \in [0 .. 1 -> Reports]
        /\ at \in {"off", "wait", "attach", "connect", "read", "send", "leds", "disconnect"}
        /\ open \subseteq {"hostUsb", "hid"}
    BY DEF HostInit, Off
  <2> QED
    BY <2>1, <2>2, <2>3 DEF HostTypeOK
<1>3. KeyboardIsThere /\ EntriesAlternate /\ LastEntryIsKept /\ HostHandles
  BY <1>1 DEF HostInit, Off, KeyboardIsThere, EntriesAlternate, LastEntryIsKept, HostHandles,
              InSession
<1> QED
  BY <1>2, <1>3 DEF HostInv

\* HostInv is inductive for the thread and the user.
LEMMA HostInvariant == HostInv /\ [HostNext]_vars => HostInv'
<1> SUFFICES ASSUME HostInv, [HostNext]_vars PROVE HostInv'
  OBVIOUS
<1> USE DEF HostInv, HostTypeOK, KeyboardIsThere, EntriesAlternate, LastEntryIsKept,
            HostHandles, InSession
<1>1. CASE Start
  BY <1>1 DEF Start
<1>2. CASE wait_for_device_connection
  BY <1>2 DEF wait_for_device_connection
<1>3. CASE AttachFails
  BY <1>3 DEF AttachFails
<1>4. CASE attach_hid_keyboard
  BY <1>4 DEF attach_hid_keyboard
<1>5. CASE notify_connect
  BY <1>5 DEF notify_connect, Session!Send, Session!Connected
<1>6. CASE Read
  <2>1. port.report \in Reports
    BY <1>6, HostAssumption DEF Read
  <2>2. /\ buffer' \in [0 .. 1 -> Reports]
        /\ buffer'[1 - index] = buffer[1 - index]
    BY <1>6, <2>1 DEF Read
  <2>3. CASE IsNew(buffer')
    <3>1. at' = "send" /\ first' = first
      BY <1>6, <2>3 DEF Read
    <3>2. ~first => buffer'[0] # buffer'[1]
      BY <2>3 DEF IsNew
    <3> QED
      BY <1>6, <2>2, <3>1, <3>2 DEF Read
  <2>4. CASE ~IsNew(buffer')
    <3>1. at' = "leds" /\ first' = FALSE /\ ~first
      BY <1>6, <2>4 DEF Read, IsNew
    <3> QED
      BY <1>6, <2>2, <3>1 DEF Read
  <2> QED
    BY <2>3, <2>4
<1>7. CASE ReadFails
  BY <1>7 DEF ReadFails
<1>8. CASE send_input_report_to_main
  <2>1. out'.entry = Session!Input(buffer[index])
    BY <1>8 DEF send_input_report_to_main, Session!Send
  <2>2. index' \in 0 .. 1 /\ 1 - index' = index
    BY <1>8 DEF send_input_report_to_main
  <2>3. out'.entry.event = "input"
    BY <2>1 DEF Session!Input
  <2> QED
    BY <1>8, <2>1, <2>2, <2>3 DEF send_input_report_to_main
<1>9. CASE handle_host_queue
  BY <1>9 DEF handle_host_queue
<1>10. CASE notify_disconnect
  BY <1>10 DEF notify_disconnect, Session!Send, Session!Disconnected
<1>11. CASE PortChanges
  BY <1>11 DEF PortChanges
<1>12. CASE PowerOff
  <2>1. out'.entry.event = "none"
    BY <1>12 DEF PowerOff, Session!Nothing
  <2>2. at' = "off" /\ open' = {} /\ index' \in 0 .. 1
    BY <1>12 DEF PowerOff
  <2>3. lost' \in BOOLEAN /\ first' \in BOOLEAN
    BY <1>12 DEF PowerOff
  <2> QED
    BY <1>12, <2>1, <2>2, <2>3 DEF PowerOff
<1>13. CASE UNCHANGED vars
  BY <1>13
<1> QED
  BY <1>1, <1>2, <1>3, <1>4, <1>5, <1>6, <1>7, <1>8, <1>9, <1>10, <1>11, <1>12, <1>13
  DEF HostNext, Thread

\* Each step of the host port is one of the abstract order of entries.
LEMMA HostImplementsSession ==
  HostInv /\ [HostNext]_vars => [Session!Next]_out
<1> SUFFICES ASSUME HostInv, [HostNext]_vars PROVE Session!Next \/ UNCHANGED out
  OBVIOUS
<1> USE DEF Session!Next
<1>1. CASE notify_connect
  BY <1>1 DEF notify_connect, Session!Connect, HostInv, EntriesAlternate, InSession
<1>2. CASE notify_disconnect
  BY <1>2 DEF notify_disconnect, Session!Disconnect, HostInv, EntriesAlternate, InSession
<1>3. CASE send_input_report_to_main
  <2>1. buffer[index] \in Reports
    BY DEF HostInv, HostTypeOK
  <2>2. out.entry # Session!Input(buffer[index])
    BY <1>3 DEF send_input_report_to_main, HostInv, HostTypeOK, LastEntryIsKept,
                Session!Connected, Session!Input
  <2>3. out.entry.event \in {"connect", "input"}
    BY <1>3 DEF send_input_report_to_main, HostInv, EntriesAlternate, InSession
  <2>4. Session!Report(buffer[index])
    BY <1>3, <2>2, <2>3 DEF send_input_report_to_main, Session!Report
  <2> QED
    BY <2>1, <2>4
<1>4. CASE PowerOff
  BY <1>4 DEF PowerOff, Session!Reset
<1>5. CASE \/ Start \/ wait_for_device_connection \/ AttachFails \/ attach_hid_keyboard
           \/ Read \/ ReadFails \/ handle_host_queue \/ PortChanges \/ UNCHANGED vars
  BY <1>5 DEF Start, wait_for_device_connection, AttachFails, attach_hid_keyboard,
              Read, ReadFails, handle_host_queue, PortChanges
<1> QED
  BY <1>1, <1>2, <1>3, <1>4, <1>5 DEF HostNext, Thread

-----------------------------------------------------------------------------
(***************************************************************************)
(* The firmware update.                                                    *)
(***************************************************************************)
\* FwInv holds at power on.
LEMMA FwStarts == Init => FwInv
<1> SUFFICES ASSUME Init PROVE FwInv
  OBVIOUS
<1>1. stage = "off" /\ handles = {} /\ files = 0
  BY DEF Init, Fw!Off
<1>2. gone \in BOOLEAN /\ broken \in BOOLEAN
  BY DEF Init, Fw!Off
<1>3. rom \in {d.version : d \in Devices}
  BY DEF Init
<1>4. files \in 0 .. MaxFiles
  BY <1>1, BootAssumption
<1> QED
  BY <1>1, <1>2, <1>3, <1>4 DEF FwInv, Fw!FwTypeOK, FwHandles, FileIsOpen, UpdateIsNeeded

\* The comparison of the version words finds every difference.
LEMMA SameVersionIsSeen ==
  ASSUME NEW v PROVE Fw!FileVersion(v) = Fw!RomVersion(v)
BY DEF Fw!FileVersion, Fw!FileBytes, Fw!RomVersion

\* FwInv is inductive for fw_update_main().
LEMMA UpdateKeepsFwInv == FwInv /\ port \in Devices /\ Fw!fw_update_main => FwInv'
<1> SUFFICES ASSUME FwInv, port \in Devices, Fw!fw_update_main PROVE FwInv'
  OBVIOUS
<1>A. MaxFiles \in Nat /\ files \in Int
  BY BootAssumption DEF FwInv, Fw!FwTypeOK
<1> USE DEF FwInv, Fw!FwTypeOK, FwHandles, FileIsOpen, UpdateIsNeeded
<1>1. CASE Fw!Start
  BY <1>1 DEF Fw!Start
<1>2. CASE Fw!wait_usb_connected
  BY <1>2 DEF Fw!wait_usb_connected
<1>3. CASE Fw!attach_boms
  BY <1>3 DEF Fw!attach_boms, Fw!Attach
<1>4. CASE Fw!attach_fat
  BY <1>4 DEF Fw!attach_fat, Fw!Attach
<1>5. CASE Fw!AttachFails
  BY <1>5 DEF Fw!AttachFails
<1>6. CASE Fw!Open
  BY <1>6, <1>A DEF Fw!Open
<1>7. CASE Fw!OpenFails
  BY <1>7 DEF Fw!OpenFails
<1>8. CASE Fw!VersionSame
  BY <1>8 DEF Fw!VersionSame
<1>9. CASE Fw!VersionDiffers
  <2>1. port.version # rom
    BY <1>9, SameVersionIsSeen DEF Fw!VersionDiffers
  <2> QED
    BY <1>9, <2>1 DEF Fw!VersionDiffers
<1>10. CASE Fw!UpdateFails
  <2>1. files' \in 0 .. MaxFiles
    BY <1>10, <1>A DEF Fw!UpdateFails
  <2> QED
    BY <1>10, <2>1 DEF Fw!UpdateFails
<1>11. CASE Fw!Updated
  <2>1. files' \in 0 .. MaxFiles
    BY <1>11, <1>A DEF Fw!Updated
  <2> QED
    BY <1>11, <2>1 DEF Fw!Updated
<1>12. CASE Fw!UpdateBreaks
  <2>1. files' \in 0 .. MaxFiles
    BY <1>12, <1>A DEF Fw!UpdateBreaks
  <2> QED
    BY <1>12, <2>1 DEF Fw!UpdateBreaks
<1>13. CASE Fw!detach_fat
  BY <1>13 DEF Fw!detach_fat
<1>14. CASE Fw!detach_boms
  BY <1>14 DEF Fw!detach_boms
<1>15. CASE Fw!Delay
  BY <1>15 DEF Fw!Delay
<1> QED
  BY <1>1, <1>2, <1>3, <1>4, <1>5, <1>6, <1>7, <1>8, <1>9, <1>10, <1>11, <1>12, <1>13, <1>14,
     <1>15
  DEF Fw!fw_update_main

\* FwInv survives what the user does with the port, and the power switch.
LEMMA WorldKeepsFwInv ==
  FwInv /\ port \in Devices /\ (Fw!PortChanges \/ Fw!PowerOff) => FwInv'
<1> SUFFICES ASSUME FwInv, port \in Devices, Fw!PortChanges \/ Fw!PowerOff PROVE FwInv'
  OBVIOUS
<1> USE DEF FwInv, Fw!FwTypeOK, FwHandles, FileIsOpen, UpdateIsNeeded
<1>1. CASE Fw!PortChanges
  <2>1. gone' \in BOOLEAN
    BY <1>1 DEF Fw!PortChanges
  <2>2. gone' \/ (gone' = gone /\ port'.version = port.version)
    BY <1>1, BootAssumption DEF Fw!PortChanges
  <2> QED
    BY <1>1, <2>1, <2>2 DEF Fw!PortChanges
<1>2. CASE Fw!PowerOff
  <2>1. files' \in 0 .. MaxFiles
    BY <1>2, BootAssumption DEF Fw!PowerOff
  <2>2. gone' \in BOOLEAN /\ broken' \in BOOLEAN
    BY <1>2 DEF Fw!PowerOff
  <2> QED
    BY <1>2, <2>1, <2>2 DEF Fw!PowerOff
<1> QED
  BY <1>1, <1>2

-----------------------------------------------------------------------------
(***************************************************************************)
(* Both programs.                                                          *)
(***************************************************************************)
\* The update leaves the keyboard converter and the port alone.
LEMMA UpdateLeavesPort == Fw!fw_update_main => UNCHANGED port
BY DEF Fw!fw_update_main, Fw!Start, Fw!wait_usb_connected, Fw!attach_boms, Fw!attach_fat,
       Fw!Attach, Fw!AttachFails, Fw!Open, Fw!OpenFails, Fw!VersionSame, Fw!VersionDiffers,
       Fw!UpdateFails, Fw!Updated, Fw!UpdateBreaks, Fw!detach_fat, Fw!detach_boms,
       Fw!Delay

\* To the host port every step of the system is one of HostNext.
LEMMA StepsOfHost == [Next]_allVars => [HostNext]_vars
<1> SUFFICES ASSUME [Next]_allVars PROVE HostNext \/ UNCHANGED vars
  OBVIOUS
<1>1. CASE PowerOn
  BY <1>1 DEF PowerOn
<1>2. CASE KeyboardMode
  BY <1>2 DEF KeyboardMode, HostNext
<1>3. CASE UpdateMode
  BY <1>3, UpdateLeavesPort DEF UpdateMode
<1>4. CASE PlugOrPress
  BY <1>4 DEF PlugOrPress, HostNext
<1>5. CASE SetSwitch
  BY <1>5 DEF SetSwitch
<1>6. CASE Cut
  BY <1>6 DEF Cut, HostNext
<1>7. CASE UNCHANGED allVars
  BY <1>7
<1> QED
  BY <1>1, <1>2, <1>3, <1>4, <1>5, <1>6, <1>7 DEF Next

\* The thread of the converter leaves the port and the user's side alone.
LEMMA ThreadLeavesPort == Thread => UNCHANGED port
BY DEF Thread, Start, wait_for_device_connection, AttachFails, attach_hid_keyboard,
       notify_connect, Read, ReadFails, send_input_report_to_main, handle_host_queue,
       notify_disconnect

\* FwInv is inductive.
LEMMA FwInvariant == FwInv /\ port \in Devices /\ [Next]_allVars => FwInv'
<1> SUFFICES ASSUME FwInv, port \in Devices, [Next]_allVars PROVE FwInv'
  OBVIOUS
<1>1. CASE UNCHANGED <<fwVars, port>>
  BY <1>1 DEF FwInv, Fw!FwTypeOK, FwHandles, FileIsOpen, UpdateIsNeeded
<1>2. CASE Fw!fw_update_main \/ Fw!PortChanges \/ Fw!PowerOff
  BY <1>2, UpdateKeepsFwInv, WorldKeepsFwInv
<1> QED
  BY <1>1, <1>2, ThreadLeavesPort
  DEF Next, PowerOn, KeyboardMode, UpdateMode, PlugOrPress, SetSwitch, Cut

\* How a step of the update changes what the two programs share.
LEMMA UpdateEnds ==
  ASSUME Fw!fw_update_main, ~broken
  PROVE  \/ broken' = broken
         \/ broken' /\ rom' = rom /\ stage' = "off"
BY DEF Fw!fw_update_main, Fw!Start, Fw!wait_usb_connected, Fw!attach_boms, Fw!attach_fat,
       Fw!Attach, Fw!AttachFails, Fw!Open, Fw!OpenFails, Fw!VersionSame, Fw!VersionDiffers,
       Fw!UpdateFails, Fw!Updated, Fw!UpdateBreaks, Fw!detach_fat, Fw!detach_boms,
       Fw!Delay

\* A new firmware begins with its restart.
LEMMA UpdateRestarts ==
  ASSUME Fw!fw_update_main, rom' # rom
  PROVE  stage' = "off" /\ broken' = broken
BY DEF Fw!fw_update_main, Fw!Start, Fw!wait_usb_connected, Fw!attach_boms, Fw!attach_fat,
       Fw!Attach, Fw!AttachFails, Fw!Open, Fw!OpenFails, Fw!VersionSame, Fw!VersionDiffers,
       Fw!UpdateFails, Fw!Updated, Fw!UpdateBreaks, Fw!detach_fat, Fw!detach_boms,
       Fw!Delay

\* OneProgramRuns is inductive.
LEMMA OneProgramInvariant == FwInv /\ OneProgramRuns /\ [Next]_allVars => OneProgramRuns'
<1> SUFFICES ASSUME FwInv, OneProgramRuns, [Next]_allVars PROVE OneProgramRuns'
  OBVIOUS
<1> USE DEF OneProgramRuns
<1>1. CASE PowerOn
  BY <1>1 DEF PowerOn, Choice
<1>2. CASE KeyboardMode
  BY <1>2 DEF KeyboardMode
<1>3. CASE UpdateMode
  <2>1. mode = "update" /\ at' = "off" /\ ~broken /\ Fw!fw_update_main /\ switch' = switch
    BY <1>3 DEF UpdateMode
  <2>2. CASE rom' # rom
    <3>1. mode' \in {"keyboard", "update"} /\ stage' = "off" /\ broken' = broken
      BY <1>3, <2>1, <2>2, UpdateRestarts DEF UpdateMode, Choice
    <3> QED
      BY <2>1, <3>1
  <2>3. CASE rom' = rom /\ broken'
    <3>1. mode' = "off" /\ stage' = "off"
      BY <1>3, <2>1, <2>3, UpdateEnds DEF UpdateMode
    <3> QED
      BY <2>1, <3>1
  <2>4. CASE rom' = rom /\ ~broken'
    <3>1. mode' = "update"
      BY <1>3, <2>1, <2>4 DEF UpdateMode
    <3> QED
      BY <2>1, <2>4, <3>1
  <2> QED
    BY <2>2, <2>3, <2>4
<1>4. CASE PlugOrPress
  BY <1>4 DEF PlugOrPress, PortChanges, Fw!PortChanges
<1>5. CASE SetSwitch
  BY <1>5 DEF SetSwitch
<1>6. CASE Cut
  BY <1>6 DEF Cut, PowerOff, Fw!PowerOff
<1>7. CASE UNCHANGED allVars
  BY <1>7
<1> QED
  BY <1>1, <1>2, <1>3, <1>4, <1>5, <1>6, <1>7 DEF Next

\* All that is said above holds in every state.
LEMMA Invariant == Spec => []Inv
<1>1. Init => Inv
  BY HostStarts, FwStarts DEF Init, Inv, OneProgramRuns, HostInit, Off, Fw!Off
<1>2. Inv /\ [Next]_allVars => Inv'
  BY HostInvariant, StepsOfHost, FwInvariant, OneProgramInvariant DEF Inv, HostInv, HostTypeOK
<1> QED
  BY <1>1, <1>2, PTL DEF Spec

-----------------------------------------------------------------------------
\* The two programs of the host port keep to their types: in particular the
\* number of FILEs in use and the index of the report buffers.
THEOREM TypesAreCorrect == Spec => []TypeOK
<1>1. Inv => TypeOK
  BY DEF Inv, HostInv, FwInv, OneProgramRuns, TypeOK
<1> QED
  BY <1>1, Invariant, PTL

\* Wherever a session or a round of the update is cut off, all handles but
\* that of the controller are returned, and only one program holds handles.
THEOREM HandlesAreReturned == Spec => []RoundsReturnHandles
<1>1. Inv => RoundsReturnHandles
  BY DEF Inv, HostInv, HostHandles, FwInv, FwHandles, OneProgramRuns, RoundsReturnHandles
<1> QED
  BY <1>1, Invariant, PTL

\* compare_rom_and_file_version() lets through only a version that differs
\* from the one in place, for all versions.
THEOREM UpdatesAreNeeded == Spec => []UpdateIsNeeded
<1>1. Inv => UpdateIsNeeded
  BY DEF Inv, FwInv
<1> QED
  BY <1>1, Invariant, PTL

\* usb_host_thread() with its two report buffers puts exactly the entries of
\* KeyboardSession into g_main_thread_queue, for all keyboards.
THEOREM HostSendsSessions == Spec => ImplementsSession
<1>1. Init => Session!Init
  BY DEF Init, HostInit, Off, Session!Init
<1>2. Inv /\ [Next]_allVars => [Session!Next]_out
  BY StepsOfHost, HostImplementsSession DEF Inv
<1> QED
  BY <1>1, <1>2, Invariant, PTL DEF Spec, ImplementsSession, Session!Spec

=============================================================================

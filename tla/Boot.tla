-------------------------------- MODULE Boot --------------------------------
(***************************************************************************)
(* The two lives of the host port: main_thread() of firmware/Hakadorun2.c  *)
(* reads the switch once and then either runs fw_update_main(), which      *)
(* never returns, or creates the threads of the keyboard converter.  Only  *)
(* what is plugged in, the Flash and the switch outlive the power.         *)
(***************************************************************************)
EXTENDS UsbHost

CONSTANT MaxFiles    \* FILEs that the memory is enough for

\* A device is known by its kind and id: what is on a stick is not changed
\* while it is in the port.
ASSUME BootAssumption ==
  /\ MaxFiles \in Nat \ {0}
  /\ \A d, e \in Devices : d.is = e.is /\ d.id = e.id => d.version = e.version

VARIABLES
  switch,     \* the DIP switch: "keyboard" (ON) or "update" (1)
  mode,       \* what main_thread() does; "off" without power
  stage, handles, gone, files, rom, broken    \* see FWUpdate

Fw == INSTANCE FWUpdate

fwVars == <<stage, handles, gone, files, rom, broken>>
allVars == <<vars, fwVars, switch, mode>>

Init ==
  /\ HostInit /\ Fw!Off
  /\ rom \in {d.version : d \in Devices} \ {<<>>} /\ broken = FALSE
  /\ switch \in {"keyboard", "update"} /\ mode = "off"

is_mode_sw_on == switch = "update"
Choice == IF is_mode_sw_on THEN "update" ELSE "keyboard"

\* main_thread() up to the test of the switch.
PowerOn ==
  /\ mode = "off" /\ ~broken
  /\ mode' = Choice
  /\ UNCHANGED <<vars, fwVars, switch>>

KeyboardMode ==
  /\ mode = "keyboard"
  /\ Thread
  /\ UNCHANGED <<fwVars, switch, mode>>

\* After a restart the switch is read again.
UpdateMode ==
  /\ mode = "update"
  /\ Fw!fw_update_main
  /\ mode' = IF rom' # rom THEN Choice ELSE IF broken' THEN "off" ELSE mode
  /\ UNCHANGED <<session, switch>>

PlugOrPress ==
  /\ PortChanges /\ Fw!PortChanges
  /\ UNCHANGED <<switch, mode>>

SetSwitch ==
  /\ switch' \in {"keyboard", "update"}
  /\ UNCHANGED <<vars, fwVars, mode>>

Cut ==
  /\ mode # "off"
  /\ mode' = "off"
  /\ PowerOff /\ Fw!PowerOff
  /\ UNCHANGED switch

Next == PowerOn \/ KeyboardMode \/ UpdateMode \/ PlugOrPress \/ SetSwitch \/ Cut

Spec == Init /\ [][Next]_allVars

\* Both programs run when they can.  Nobody is bound to plug anything in.
FairSpec == Spec /\ WF_allVars(KeyboardMode) /\ WF_allVars(UpdateMode)

-----------------------------------------------------------------------------
TypeOK ==
  /\ HostTypeOK /\ Fw!FwTypeOK
  /\ switch \in {"keyboard", "update"}
  /\ mode \in {"off", "keyboard", "update"}

\* However an attach fails and wherever a keyboard or a stick is pulled out,
\* both programs return to the port with no handle but that of the
\* controller, and only one of them has handles.
RoundsReturnHandles ==
  /\ at = "wait" => open = {"hostUsb"}
  /\ stage \in {"wait", "delay"} => handles = {"usb"}
  /\ handles = {} \/ open = {}

\* README.md, "about every 3 seconds the lamp ... (update complete)": the
\* firmware of the stick is not written again once it is in place, although
\* file and Flash hold the version in a different order of bytes.
UpdateIsNeeded == stage = "update" => gone \/ port.version # rom

\* A stick with another version that stays plugged in is tried again and
\* again, however often the update fails, unless earlier rounds with the
\* same version have used up the memory for FILEs.
Waiting(d) == port = d /\ mode = "update" /\ rom # d.version
StickIsTried ==
  \A d \in {x \in Devices : x.is = "stick" /\ x.version # <<>>} :
    [](files < MaxFiles /\ []Waiting(d) => []<>(stage = "update"))

=============================================================================

------------------------------ MODULE FWUpdate ------------------------------
(***************************************************************************)
(* firmware/FWUpdate.c: the firmware is updated from the file fw.rom of a  *)
(* USB stick.  External: the VNC2 stores the bytes of a 16-bit word in     *)
(* the file in the other order than userDataArea does, and                 *)
(* FirmwareUpdateFATFileFeedback() either returns an error or restarts     *)
(* with the firmware of the file; when it is cut off the Flash holds half  *)
(* a firmware.  A stick whose version is <<>> has no file system or file.  *)
(***************************************************************************)
EXTENDS Integers

CONSTANTS
  Devices,    \* what may be plugged in: is, id, report, version
  MaxFiles    \* FILEs that the memory is enough for

VARIABLES
  port,       \* what is plugged into the host port
  stage,      \* where fw_update_main() is; "off": it does not run
  handles,    \* the handles it holds: usb, boms, fat
  gone,       \* the stick was pulled out since its drivers were attached
  files,      \* FILEs in use
  rom,        \* userDataArea[0..3] of the firmware in Flash
  broken      \* the Flash holds half a firmware

fwVars == <<stage, handles, gone, files, rom, broken>>

Off ==
  /\ stage = "off" /\ handles = {} /\ gone = FALSE /\ files = 0

Start ==
  /\ stage = "off" /\ ~broken
  /\ stage' = "wait" /\ handles' = {"usb"}
  /\ UNCHANGED <<port, gone, files, rom, broken>>

wait_usb_connected ==
  /\ stage = "wait"
  /\ port.is # "none"
  /\ stage' = "boms" /\ gone' = FALSE
  /\ UNCHANGED <<port, handles, files, rom, broken>>

\* attach_boms() and attach_fat().
Attach(from, driver, then) ==
  /\ stage = from
  /\ port.is = "stick" /\ ~gone
  /\ stage' = then /\ handles' = handles \cup {driver}
  /\ UNCHANGED <<port, gone, files, rom, broken>>

\* One of them returns NULL, having closed its driver: no mass storage, no
\* FAT file system, or pulled out.
AttachFails ==
  /\ \/ stage = "boms" /\ (port.is # "stick" \/ gone) /\ stage' = "delay"
     \/ stage = "fat" /\ (gone \/ port.version = <<>>) /\ stage' = "detach_boms"
  /\ UNCHANGED <<port, handles, gone, files, rom, broken>>

attach_boms == Attach("boms", "boms", "fat")
attach_fat == Attach("fat", "fat", "open")

\* fopen() returns NULL also when there is no memory for the FILE.
OpenFails ==
  /\ stage = "open"
  /\ gone \/ port.version = <<>> \/ files = MaxFiles
  /\ stage' = "detach"
  /\ UNCHANGED <<port, handles, gone, files, rom, broken>>

Open ==
  /\ stage = "open"
  /\ ~gone /\ port.version # <<>> /\ files < MaxFiles
  /\ stage' = "compare" /\ files' = files + 1
  /\ UNCHANGED <<port, handles, gone, rom, broken>>

Word(b1, b2, b3, b4) == b1 + 256 * (b2 + 256 * (b3 + 256 * b4))

\* The bytes of the file from 0x30 on, and fread() into a uint32.
FileBytes(v) == <<v[2], v[1], v[4], v[3]>>
FileVersion(v) == LET f == FileBytes(v) IN Word(f[1], f[2], f[3], f[4])

\* Mutant: the bytes in the order in which they are stored.
RomVersion_Straight(u) == Word(u[1], u[2], u[3], u[4])

RomVersion(u) == Word(u[2], u[1], u[4], u[3])

\* compare_rom_and_file_version() is 1, or -1 since the file cannot be
\* read.  The FILE stays open.
VersionSame ==
  /\ stage = "compare"
  /\ ~gone => FileVersion(port.version) = RomVersion(rom)
  /\ stage' = "detach"
  /\ UNCHANGED <<port, handles, gone, files, rom, broken>>

VersionDiffers ==
  /\ stage = "compare"
  /\ ~gone /\ FileVersion(port.version) # RomVersion(rom)
  /\ stage' = "update"
  /\ UNCHANGED <<port, handles, gone, files, rom, broken>>

\* Mutant: the FILE stays open after an update that failed.
UpdateFails_Leak ==
  /\ stage = "update"
  /\ stage' = "detach"
  /\ UNCHANGED <<port, handles, gone, files, rom, broken>>

UpdateFails ==
  /\ stage = "update"
  /\ stage' = "detach" /\ files' = files - 1
  /\ UNCHANGED <<port, handles, gone, rom, broken>>

\* The new firmware is in place and starts.
Updated ==
  /\ stage = "update" /\ ~gone
  /\ rom' = port.version
  /\ stage' = "off" /\ handles' = {} /\ files' = 0
  /\ UNCHANGED <<port, gone, broken>>

\* It cannot read on.
UpdateBreaks ==
  /\ stage = "update" /\ gone
  /\ stage' = "off" /\ handles' = {} /\ files' = 0 /\ broken' = TRUE
  /\ UNCHANGED <<port, gone, rom>>

detach_fat ==
  /\ stage = "detach"
  /\ stage' = "detach_boms" /\ handles' = handles \ {"fat"}
  /\ UNCHANGED <<port, gone, files, rom, broken>>

\* Mutant: the driver is detached, but not closed.
detach_boms_Open ==
  /\ stage = "detach_boms"
  /\ stage' = "delay"
  /\ UNCHANGED <<port, handles, gone, files, rom, broken>>

detach_boms ==
  /\ stage = "detach_boms"
  /\ stage' = "delay" /\ handles' = handles \ {"boms"}
  /\ UNCHANGED <<port, gone, files, rom, broken>>

\* vos_delay_msecs(3000)
Delay ==
  /\ stage = "delay"
  /\ stage' = "wait"
  /\ UNCHANGED <<port, handles, gone, files, rom, broken>>

fw_update_main ==
  \/ Start \/ wait_usb_connected \/ attach_boms \/ attach_fat \/ AttachFails
  \/ Open \/ OpenFails \/ VersionSame \/ VersionDiffers \/ UpdateFails \/ Updated
  \/ UpdateBreaks \/ detach_fat \/ detach_boms \/ Delay

\* Something is plugged in or out.
PortChanges ==
  /\ port' \in Devices
  /\ gone' = (gone \/ port'.is # port.is \/ port'.id # port.id)
  /\ UNCHANGED <<stage, handles, files, rom, broken>>

\* The power goes; if the Flash is being written it holds half a firmware.
PowerOff ==
  /\ stage' = "off" /\ handles' = {} /\ gone' = FALSE /\ files' = 0
  /\ broken' = (broken \/ stage = "update")
  /\ UNCHANGED <<port, rom>>

-----------------------------------------------------------------------------
FwTypeOK ==
  /\ stage \in {"off", "wait", "boms", "fat", "open", "compare", "update", "detach",
              "detach_boms", "delay"}
  /\ handles \subseteq {"usb", "boms", "fat"}
  /\ gone \in BOOLEAN /\ broken \in BOOLEAN
  /\ files \in 0 .. MaxFiles
  /\ rom \in {d.version : d \in Devices}

=============================================================================

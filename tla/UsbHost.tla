------------------------------ MODULE UsbHost ------------------------------
(***************************************************************************)
(* firmware/UsbHost.c: the USB host thread, from the port to the entries   *)
(* that it puts into g_main_thread_queue.  A step goes from one blocking   *)
(* call to the next; the LEDs that handle_host_queue() sets are in module  *)
(* Threads.  A report is a value of its own.  Handles of a device that was *)
(* pulled out stay open, but every call on them fails.                     *)
(***************************************************************************)
EXTENDS Integers

CONSTANTS
  Reports,    \* what a keyboard may report
  Devices     \* what may be plugged in: is, id, report, version

ASSUME HostAssumption ==
  \A d \in Devices : d.is = "keyboard" => d.report \in Reports

VARIABLES
  port,       \* what is plugged into the host port, and what it says now
  at,         \* where the thread is; "off": it does not run
  open,       \* the handles it holds: hostUsb, hid
  lost,       \* the keyboard of this session was pulled out
  buffer,     \* input_report[2]
  index,      \* report_index
  first,      \* first
  out         \* the entry that it sent last

session == <<at, open, lost, buffer, index, first, out>>
vars == <<port, session>>

Session == INSTANCE KeyboardSession

Off ==
  /\ at = "off" /\ open = {} /\ lost = FALSE
  /\ buffer \in [0 .. 1 -> Reports]
  /\ index = 0 /\ first = FALSE
  /\ out = Session!Nothing

\* main_thread() creates the thread, which opens the host controller.
Start ==
  /\ at = "off"
  /\ at' = "wait" /\ open' = {"hostUsb"}
  /\ UNCHANGED <<port, lost, buffer, index, first, out>>

\* wait_for_device_connection(), with a poll every 100 ms.
wait_for_device_connection ==
  /\ at = "wait"
  /\ port.is # "none"
  /\ at' = "attach" /\ lost' = FALSE
  /\ UNCHANGED <<port, open, buffer, index, first, out>>

\* attach_hid_keyboard() returns NULL: no interface of the class was found,
\* or the attach failed.  The thread closes and opens the controller.
AttachFails ==
  /\ at = "attach"
  /\ port.is # "keyboard" \/ lost
  /\ at' = "wait"
  /\ UNCHANGED <<port, open, lost, buffer, index, first, out>>

attach_hid_keyboard ==
  /\ at = "attach"
  /\ port.is = "keyboard" /\ ~lost
  /\ at' = "connect" /\ open' = open \cup {"hid"}
  /\ UNCHANGED <<port, lost, buffer, index, first, out>>

\* notify_connect(), then usb_host_main() with its buffer uninitialised.
notify_connect ==
  /\ at = "connect"
  /\ Session!Send(Session!Connected)
  /\ at' = "read" /\ first' = TRUE /\ index' = 0
  /\ buffer' \in [0 .. 1 -> Reports]
  /\ UNCHANGED <<port, open, lost>>

\* Mutant: the new report is compared with itself.
IsNew_Same(b) == first \/ b[index] # b[index]

\* The test of usb_host_main().
IsNew(b) == first \/ b[0] # b[1]

Read ==
  /\ at = "read" /\ ~lost
  /\ buffer' = [buffer EXCEPT ![index] = port.report]
  /\ IF IsNew(buffer') THEN at' = "send" /\ UNCHANGED first
                       ELSE at' = "leds" /\ first' = FALSE
  /\ UNCHANGED <<port, open, lost, index, out>>

ReadFails ==
  /\ at = "read" /\ lost
  /\ at' = "disconnect"
  /\ UNCHANGED <<port, open, lost, buffer, index, first, out>>

\* Mutant: the next report overwrites the one that was sent.
send_input_report_to_main_NoFlip ==
  /\ at = "send"
  /\ Session!Send(Session!Input(buffer[index]))
  /\ at' = "leds" /\ first' = FALSE
  /\ UNCHANGED <<port, open, lost, buffer, index>>

\* send_input_report_to_main(); the next report goes to the other buffer.
send_input_report_to_main ==
  /\ at = "send"
  /\ Session!Send(Session!Input(buffer[index]))
  /\ index' = 1 - index
  /\ at' = "leds" /\ first' = FALSE
  /\ UNCHANGED <<port, open, lost, buffer>>

handle_host_queue ==
  /\ at = "leds"
  /\ at' = "read"
  /\ UNCHANGED <<port, open, lost, buffer, index, first, out>>

\* notify_disconnect(), detach_hid() and the calls that close the handles.
notify_disconnect ==
  /\ at = "disconnect"
  /\ Session!Send(Session!Disconnected)
  /\ at' = "wait" /\ open' = {"hostUsb"}
  /\ UNCHANGED <<port, lost, buffer, index, first>>

Thread ==
  \/ Start
  \/ wait_for_device_connection \/ AttachFails \/ attach_hid_keyboard
  \/ notify_connect \/ Read \/ ReadFails \/ send_input_report_to_main
  \/ handle_host_queue \/ notify_disconnect

\* The user plugs, unplugs, presses keys: whoever held the device has lost
\* it unless it stays.
PortChanges ==
  /\ port' \in Devices
  /\ lost' = (lost \/ port'.is # port.is \/ port'.id # port.id)
  /\ UNCHANGED <<at, open, buffer, index, first, out>>

\* The power goes.
PowerOff ==
  /\ at' = "off" /\ open' = {} /\ lost' = FALSE /\ first' = FALSE /\ index' = 0
  /\ out' = Session!Nothing
  /\ UNCHANGED <<port, buffer>>

HostInit == port \in Devices /\ Off
HostNext == Thread \/ PortChanges \/ PowerOff
HostSpec == HostInit /\ [][HostNext]_vars

-----------------------------------------------------------------------------
HostTypeOK ==
  /\ port \in Devices
  /\ at \in {"off", "wait", "attach", "connect", "read", "send", "leds", "disconnect"}
  /\ open \subseteq {"hostUsb", "hid"}
  /\ lost \in BOOLEAN /\ first \in BOOLEAN
  /\ buffer \in [0 .. 1 -> Reports]
  /\ index \in 0 .. 1

\* The entries for the main thread are those of KeyboardSession: of the two
\* buffers the one that is not read into holds the report that was sent
\* last, though neither is initialised and the thread may be cut off by an
\* unplugged keyboard anywhere.
ImplementsSession == Session!Spec

\* The last report of a keyboard that stays plugged in arrives, however
\* fast the keys changed before.
Stays(d) == port = d /\ at # "off"
LastReportArrives ==
  \A d \in {x \in Devices : x.is = "keyboard"} :
    <>[]Stays(d) => <>[](out.entry = Session!Input(d.report))

=============================================================================

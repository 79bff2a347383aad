------------------------------ MODULE Threads ------------------------------
(***************************************************************************)
(* The four threads between the two USB buses: the host thread (UsbHost.c),*)
(* the main thread (Hakadorun2.c), the slave thread and the slave control  *)
(* thread, SCT (UsbSlave.c), the three queues that connect them, and the   *)
(* life of the two USB connections.                                        *)
(*                                                                         *)
(* The main thread is reduced to the reports it takes and what it puts     *)
(* into g_usb_slave_queue (module MainThread has its handlers) and a queue *)
(* to the FIFO of module Fifo; a report is "zero" or "keys", the LEDs are  *)
(* "off" or "on".  The slave control thread has the highest priority, so a *)
(* step of it goes from one blocking call to the next, and with Priorities *)
(* the other threads run only while it waits.  A driver call on            *)
(* m_slave_usb = NULL fails at once and without effect, so it is no        *)
(* blocking call; one that was made before that may still succeed until    *)
(* the device is detached.                                                 *)
(***************************************************************************)
EXTENDS Integers, Sequences

CONSTANTS
  MainCapacity, SlaveCapacity, HostCapacity,   \* entries the queues hold
  MacroLen,     \* reports in a macro; 0: no macro is set
  Priorities,   \* TRUE: strict priority of SCT; FALSE: any interleaving
  MaxPresses,   \* bound: changes of the keys held
  MaxUnplugs,   \* bound: times the keyboard is unplugged
  MaxRequests,  \* bound: LED changes and commands from the PC
  MaxConfigs    \* bound: SET_CONFIGURATION requests

ASSUME ThreadsAssumption ==
  /\ {MainCapacity, SlaveCapacity, HostCapacity} \subseteq Nat \ {0}
  /\ {MacroLen, MaxPresses, MaxUnplugs, MaxRequests, MaxConfigs} \subseteq Nat
  /\ Priorities \in BOOLEAN

VARIABLES
  mainQ, slaveQ, hostQ,   \* the queues
  keyboard,   \* on: plugged in, key: its report, led: its LEDs
  host,       \* the host thread: at, last report read, lost: read() will fail
  todo,       \* entries the main thread has yet to put into slaveQ
  main,       \* macro: it waits in run_macro(), takes: a command takes the
              \* reports, shown: the report it passed on last ("stuck": keys,
              \* and a command has taken reports since)
  slave,      \* the slave thread: at, and the report in transfer
  sct,        \* the slave control thread: at, and the LEDs it was sent
  device,     \* usb: m_slave_usb is not NULL, open: not yet closed, ended:
              \* m_control_thread_end_semaphore, valid:
              \* m_interrupt_transfer_valid
  pc,         \* attached, configured, key: the report it saw last, led: what
              \* it last set the LEDs to, request: the one in progress
  counts      \* presses, unplugs, requests and configurations so far

vars == <<mainQ, slaveQ, hostQ, keyboard, host, todo, main, slave, sct, device, pc, counts>>

Detached == [attached |-> FALSE, configured |-> FALSE, key |-> "zero", led |-> "unset",
             request |-> "none"]

Init ==
  /\ mainQ = <<>> /\ slaveQ = <<>> /\ hostQ = <<>>
  /\ keyboard = [on |-> FALSE, key |-> "zero", led |-> "off"]
  /\ host = [at |-> "wait", last |-> "none", lost |-> FALSE]
  /\ todo = <<>>
  /\ main = [macro |-> FALSE, takes |-> FALSE, shown |-> "zero"]
  /\ slave = [at |-> "dequeue", report |-> "zero"]
  /\ sct = [at |-> "none", led |-> "off"]
  /\ device = [usb |-> FALSE, open |-> FALSE, ended |-> 0, valid |-> FALSE]
  /\ pc = Detached
  /\ counts = [presses |-> 0, unplugs |-> 0, requests |-> 0, configs |-> 0]

\* Mutant: one entry too many.
Put_OneMore(queue, capacity, entry) == Len(queue) <= capacity /\ queue' = Append(queue, entry)

\* enqueue(): waits while the queue is full.
Put(queue, capacity, entry) == Len(queue) < capacity /\ queue' = Append(queue, entry)

\* SCT need not wait: neither for the PC nor for room in a queue.
SctReady ==
  \/ sct.at = "recv" /\ pc.request # "none"
  \/ sct.at \in {"recv", "leds", "command", "status"} /\ ~pc.attached
  \/ sct.at = "enqueue_leds" /\ Len(hostQ) < HostCapacity
  \/ sct.at = "enqueue_command" /\ Len(mainQ) < MainCapacity

MayRun == Priorities => ~SctReady

-----------------------------------------------------------------------------
(***************************************************************************)
(* UsbHost.c.  A keyboard that was unplugged is lost for the session, also *)
(* when it is back before read() returns.                                  *)
(***************************************************************************)
HostAttach ==
  /\ host.at = "wait" /\ keyboard.on
  /\ host' = [at |-> "connect", last |-> "none", lost |-> FALSE]
  /\ UNCHANGED <<mainQ, slaveQ, hostQ, keyboard, todo, main, slave, sct, device, pc, counts>>

\* notify_connect(), send_input_report_to_main(), notify_disconnect()
HostSend(at, entry, then) ==
  /\ host.at = at
  /\ Put(mainQ, MainCapacity, entry)
  /\ host' = [host EXCEPT !.at = then]
  /\ UNCHANGED <<slaveQ, hostQ, keyboard, todo, main, slave, sct, device, pc, counts>>

HostSends ==
  \/ HostSend("connect", "connect", "read")
  \/ HostSend("send", host.last, "leds")
  \/ HostSend("disconnect", "disconnect", "wait")

\* The read in usb_host_main(), and the test whether the report is new.
HostRead ==
  /\ host.at = "read"
  /\ host' = IF host.lost THEN [host EXCEPT !.at = "disconnect"]
             ELSE IF keyboard.key = host.last THEN [host EXCEPT !.at = "leds"]
             ELSE [host EXCEPT !.at = "send", !.last = keyboard.key]
  /\ UNCHANGED <<mainQ, slaveQ, hostQ, keyboard, todo, main, slave, sct, device, pc, counts>>

\* handle_host_queue(): at most one entry for each report read.
HostLeds ==
  /\ host.at = "leds"
  /\ host' = [host EXCEPT !.at = "read"]
  /\ IF hostQ = <<>> THEN UNCHANGED <<hostQ, keyboard>>
     ELSE /\ hostQ' = Tail(hostQ)
          /\ keyboard' = [keyboard EXCEPT !.led = IF host.lost THEN @ ELSE Head(hostQ)]
  /\ UNCHANGED <<mainQ, slaveQ, todo, main, slave, sct, device, pc, counts>>

HostThread == MayRun /\ (HostAttach \/ HostSends \/ HostRead \/ HostLeds)

-----------------------------------------------------------------------------
(***************************************************************************)
(* Hakadorun2.c.  A report is passed on, or runs a macro: then the reports *)
(* of the macro follow on the next zero report.  Commands are answered     *)
(* without the slave thread, but an interactive one takes the reports.     *)
(***************************************************************************)
\* Mutant: the last report of a macro leaves the keys pressed.
Macro_NoZero == [i \in 1 .. MacroLen |-> "keys"]

Macro == [i \in 1 .. MacroLen |-> IF i < MacroLen THEN "keys" ELSE "zero"]

\* Mutant: a disconnect event is not passed on.
TakeEvent_NoDisconnect(e) ==
  \/ /\ e \in {"connect", "disconnect"}
     /\ todo' = IF e = "connect" THEN <<e>> ELSE <<>>
     /\ main' = [main EXCEPT !.shown = IF e = "disconnect" THEN "zero" ELSE @]
  \/ /\ e = "command"
     /\ todo' = <<>>
     /\ main' \in {main, [main EXCEPT !.takes = TRUE,
                                     !.shown = IF @ = "keys" THEN "stuck" ELSE @]}

\* handle_non_input_report_event(), which every handler calls: a command is
\* quick, or is there for the user and asks for reports.
TakeEvent(e) ==
  \/ /\ e \in {"connect", "disconnect"}
     /\ todo' = <<e>>
     /\ main' = [main EXCEPT !.shown = IF e = "disconnect" THEN "zero" ELSE @]
  \/ /\ e = "command"
     /\ todo' = <<>>
     /\ main' \in {main, [main EXCEPT !.takes = TRUE,
                                     !.shown = IF @ = "keys" THEN "stuck" ELSE @]}

\* get_input_report() gives it to the command, wait_for_all_key_unpressed()
\* drops it or plays the macro, and handle_input_report_event() passes it on
\* or runs a macro, which has to wait unless its data is invalid.
TakeReport(e) ==
  \/ main.takes /\ todo' = <<>> /\ UNCHANGED main
  \/ /\ ~main.takes /\ main.macro
     /\ \/ e = "keys" /\ todo' = <<>> /\ UNCHANGED main
        \/ e = "zero" /\ todo' = Macro /\ main' = [main EXCEPT !.macro = FALSE, !.shown = "zero"]
  \/ /\ ~main.takes /\ ~main.macro
     /\ \/ todo' = <<e>> /\ main' = [main EXCEPT !.shown = e]
        \/ /\ e = "keys" /\ MacroLen > 0 /\ todo' = <<>>
           /\ main' \in {main, [main EXCEPT !.macro = TRUE]}

MainTake ==
  /\ todo = <<>> /\ mainQ # <<>>
  /\ mainQ' = Tail(mainQ)
  /\ IF Head(mainQ) \in {"zero", "keys"} THEN TakeReport(Head(mainQ))
                                         ELSE TakeEvent(Head(mainQ))
  /\ UNCHANGED <<slaveQ, hostQ, keyboard, host, slave, sct, device, pc, counts>>

\* The user is done, or a wait for a report timed out.  (Nothing makes the
\* user answer a command that waits without a timeout.)
CommandEnds ==
  /\ todo = <<>> /\ main.takes
  /\ main' = [main EXCEPT !.takes = FALSE]
  /\ UNCHANGED <<mainQ, slaveQ, hostQ, keyboard, host, todo, slave, sct, device, pc, counts>>

MainSend ==
  /\ todo # <<>>
  /\ Put(slaveQ, SlaveCapacity, Head(todo))
  /\ todo' = Tail(todo)
  /\ UNCHANGED <<mainQ, hostQ, keyboard, host, main, slave, sct, device, pc, counts>>

MainThread == MayRun /\ (MainTake \/ MainSend)

-----------------------------------------------------------------------------
(***************************************************************************)
(* UsbSlave.c, usb_slave_thread()                                          *)
(***************************************************************************)
connect ==
  IF device.usb THEN UNCHANGED <<slave, sct, device, pc>>
  ELSE /\ device' = [device EXCEPT !.usb = TRUE, !.open = TRUE, !.ended = 0]
       /\ pc' = [Detached EXCEPT !.attached = TRUE]
       /\ sct' = [sct EXCEPT !.at = "recv"]
       /\ UNCHANGED slave

\* disconnect() up to the driver call; SCT may act in between.
disconnect ==
  IF ~device.usb THEN UNCHANGED <<slave, sct, device, pc>>
  ELSE /\ device' = [device EXCEPT !.usb = FALSE, !.valid = FALSE]
       /\ slave' = [slave EXCEPT !.at = "detach"]
       /\ UNCHANGED <<sct, pc>>

\* While the interrupt transfer is not valid the report is dropped.
handle_input_report(report) ==
  /\ slave' = IF device.valid THEN [at |-> "transfer", report |-> report] ELSE slave
  /\ UNCHANGED <<sct, device, pc>>

SlaveTake ==
  /\ slave.at = "dequeue" /\ slaveQ # <<>>
  /\ slaveQ' = Tail(slaveQ)
  /\ CASE Head(slaveQ) = "connect" -> connect
       [] Head(slaveQ) = "disconnect" -> disconnect
       [] OTHER -> handle_input_report(Head(slaveQ))
  /\ UNCHANGED <<mainQ, hostQ, keyboard, host, todo, main, counts>>

\* The interrupt transfer ends when the PC polls the endpoint.
Transfer ==
  /\ slave.at = "transfer"
  /\ pc.configured
  /\ pc' = [pc EXCEPT !.key = slave.report]
  /\ slave' = [slave EXCEPT !.at = "dequeue"]
  /\ UNCHANGED <<mainQ, slaveQ, hostQ, keyboard, host, todo, main, sct, device, counts>>

\* VOS_IOCTL_USBSLAVE_DISCONNECT
Detach ==
  /\ slave.at = "detach"
  /\ pc' = Detached
  /\ slave' = [slave EXCEPT !.at = "join"]
  /\ UNCHANGED <<mainQ, slaveQ, hostQ, keyboard, host, todo, main, sct, device, counts>>

\* Mutant: the device is closed without waiting for the control thread.
Join_NoWait ==
  /\ slave.at = "join"
  /\ device' = [device EXCEPT !.open = FALSE]
  /\ slave' = [slave EXCEPT !.at = "dequeue"]
  /\ UNCHANGED <<mainQ, slaveQ, hostQ, keyboard, host, todo, main, sct, pc, counts>>

\* vos_wait_semaphore(), vos_dev_close()
Join ==
  /\ slave.at = "join" /\ device.ended > 0
  /\ device' = [device EXCEPT !.ended = @ - 1, !.open = FALSE]
  /\ slave' = [slave EXCEPT !.at = "dequeue"]
  /\ UNCHANGED <<mainQ, slaveQ, hostQ, keyboard, host, todo, main, sct, pc, counts>>

SlaveThread == MayRun /\ (SlaveTake \/ Transfer \/ Detach \/ Join)

-----------------------------------------------------------------------------
(***************************************************************************)
(* UsbSlave.c, slave_control_thread().                                     *)
(***************************************************************************)
\* Mutant: the thread ends without the signal.
SctEnd_NoSignal(dev) ==
  /\ sct' = [sct EXCEPT !.at = "none"]
  /\ device' = dev

SctEnd(dev) ==
  /\ sct' = [sct EXCEPT !.at = "none"]
  /\ device' = [dev EXCEPT !.ended = @ + 1]

\* The control transfer or stall that answers a request.  With the handle
\* gone it fails, the PC's request stays as it is and the loop ends.
Answer(dev) ==
  IF device.usb THEN sct' = [sct EXCEPT !.at = "status"] /\ device' = dev ELSE SctEnd(dev)

\* recv_setup_data() fails once the device is detached.
RecvFails ==
  /\ sct.at = "recv" /\ ~pc.attached
  /\ SctEnd(device)
  /\ UNCHANGED <<mainQ, slaveQ, hostQ, keyboard, host, todo, main, slave, pc, counts>>

\* device_req_handler() with SET_CONFIGURATION.
SetConfiguration ==
  /\ sct.at = "recv" /\ pc.request \in {"configure", "deconfigure"}
  /\ Answer([device EXCEPT !.valid = pc.request = "configure"])
  /\ UNCHANGED <<mainQ, slaveQ, hostQ, keyboard, host, todo, main, slave, pc, counts>>

\* class_req_handler() with SET_REPORT, up to the data stage; without a
\* handle there is none, and buf stays zero.
SetReport ==
  /\ sct.at = "recv" /\ pc.request \in {"off", "on", "command"}
  /\ sct' = CASE pc.request = "command" ->
                   [sct EXCEPT !.at = IF device.usb THEN "command" ELSE "enqueue_command"]
              [] pc.request # "command" /\ device.usb -> [sct EXCEPT !.at = "leds"]
              [] OTHER -> [at |-> "enqueue_leds", led |-> "off"]
  /\ UNCHANGED <<mainQ, slaveQ, hostQ, keyboard, host, todo, main, slave, device, pc, counts>>

\* Mutant: the report id in buf[0] is taken for the LEDs in buf[1].
DataStage_Id ==
  /\ \/ sct.at = "leds" /\ sct' = [at |-> "enqueue_leds", led |-> "on"]
     \/ sct.at = "command" /\ sct' = [sct EXCEPT !.at = "enqueue_command"]
  /\ UNCHANGED <<mainQ, slaveQ, hostQ, keyboard, host, todo, main, slave, device, pc, counts>>

\* The data stage, begun while there was a handle.  If it is cut off by a
\* detach, buf is still zero: LEDs off, or the command COMMAND_NOP.
DataStage ==
  /\ \/ /\ sct.at = "leds"
        /\ sct' = [at |-> "enqueue_leds",
                   led |-> IF pc.request \in {"off", "on"} THEN pc.request ELSE "off"]
     \/ sct.at = "command" /\ sct' = [sct EXCEPT !.at = "enqueue_command"]
  /\ UNCHANGED <<mainQ, slaveQ, hostQ, keyboard, host, todo, main, slave, device, pc, counts>>

\* send_output_report_to_host()
EnqueueLeds ==
  /\ sct.at = "enqueue_leds"
  /\ Put(hostQ, HostCapacity, sct.led)
  /\ Answer(device)
  /\ UNCHANGED <<mainQ, slaveQ, keyboard, host, todo, main, slave, pc, counts>>

\* Mutant: the answer to a command is forgotten.
EnqueueCommand_NoAnswer ==
  /\ sct.at = "enqueue_command"
  /\ Put(mainQ, MainCapacity, "command")
  /\ IF device.usb THEN sct' = [sct EXCEPT !.at = "recv"] /\ UNCHANGED device ELSE SctEnd(device)
  /\ UNCHANGED <<slaveQ, hostQ, keyboard, host, todo, main, slave, pc, counts>>

\* notify_recv_command_to_main()
EnqueueCommand ==
  /\ sct.at = "enqueue_command"
  /\ Put(mainQ, MainCapacity, "command")
  /\ Answer(device)
  /\ UNCHANGED <<slaveQ, hostQ, keyboard, host, todo, main, slave, pc, counts>>

\* The status stage, begun while there was a handle, and the test of the
\* loop.  A configuration other than 1
\* is answered by a stall, but it is in force all the same.
Status ==
  /\ sct.at = "status"
  /\ pc' = IF ~pc.attached THEN pc
           ELSE CASE pc.request = "configure" ->
                       [pc EXCEPT !.configured = TRUE, !.request = "none"]
                  [] pc.request = "deconfigure" -> [Detached EXCEPT !.attached = TRUE]
                  [] OTHER -> [pc EXCEPT !.request = "none"]
  /\ IF device.usb THEN sct' = [sct EXCEPT !.at = "recv"] /\ UNCHANGED device
                   ELSE SctEnd(device)
  /\ UNCHANGED <<mainQ, slaveQ, hostQ, keyboard, host, todo, main, slave, counts>>

ControlThread ==
  RecvFails \/ SetConfiguration \/ SetReport \/ DataStage \/ EnqueueLeds
    \/ EnqueueCommand \/ Status

-----------------------------------------------------------------------------
(***************************************************************************)
(* The user and the PC, which has one control request in progress at most. *)
(***************************************************************************)
Plug ==
  /\ ~keyboard.on
  /\ keyboard' = [on |-> TRUE, key |-> "zero", led |-> "off"]
  /\ UNCHANGED <<mainQ, slaveQ, hostQ, host, todo, main, slave, sct, device, pc, counts>>

Unplug ==
  /\ keyboard.on /\ counts.unplugs < MaxUnplugs
  /\ keyboard' = [on |-> FALSE, key |-> "zero", led |-> "off"]
  /\ host' = [host EXCEPT !.lost = host.at # "wait"]
  /\ counts' = [counts EXCEPT !.unplugs = @ + 1]
  /\ UNCHANGED <<mainQ, slaveQ, hostQ, todo, main, slave, sct, device, pc>>

PressOrRelease ==
  /\ keyboard.on
  /\ \/ /\ keyboard.key = "zero" /\ counts.presses < MaxPresses
        /\ keyboard' = [keyboard EXCEPT !.key = "keys"]
        /\ counts' = [counts EXCEPT !.presses = @ + 1]
     \/ /\ keyboard.key = "keys"
        /\ keyboard' = [keyboard EXCEPT !.key = "zero"]
        /\ UNCHANGED counts
  /\ UNCHANGED <<mainQ, slaveQ, hostQ, host, todo, main, slave, sct, device, pc>>

Configure ==
  /\ pc.attached /\ ~pc.configured /\ pc.request = "none"
  /\ pc' = [pc EXCEPT !.request = "configure"]
  /\ UNCHANGED <<mainQ, slaveQ, hostQ, keyboard, host, todo, main, slave, sct, device, counts>>

Deconfigure ==
  /\ pc.configured /\ pc.request = "none" /\ counts.configs < MaxConfigs
  /\ pc' = [pc EXCEPT !.request = "deconfigure"]
  /\ counts' = [counts EXCEPT !.configs = @ + 1]
  /\ UNCHANGED <<mainQ, slaveQ, hostQ, keyboard, host, todo, main, slave, sct, device>>

Request(r) ==
  /\ pc.configured /\ pc.request = "none" /\ counts.requests < MaxRequests
  /\ pc' = [pc EXCEPT !.request = r, !.led = IF r = "command" THEN @ ELSE r]
  /\ counts' = [counts EXCEPT !.requests = @ + 1]
  /\ UNCHANGED <<mainQ, slaveQ, hostQ, keyboard, host, todo, main, slave, sct, device>>

World ==
  \/ Plug \/ Unplug \/ PressOrRelease \/ Deconfigure
  \/ \E r \in {"off", "on", "command"} : Request(r)

Next ==
  \/ HostThread \/ MainThread \/ (MayRun /\ CommandEnds)
  \/ SlaveThread \/ ControlThread
  \/ Configure \/ World

Spec == Init /\ [][Next]_vars

\* Every thread runs when it can, the keyboard answers every read (SET_IDLE),
\* and the PC configures the device and polls it.
Fairness ==
  /\ WF_vars(HostThread) /\ WF_vars(MainThread) /\ WF_vars(SlaveThread)
  /\ WF_vars(ControlThread) /\ WF_vars(Configure)

FairSpec == Spec /\ Fairness

-----------------------------------------------------------------------------
KeyReport == {"zero", "keys"}
Led == {"off", "on"}

TypeOK ==
  /\ mainQ \in Seq(KeyReport \cup {"connect", "disconnect", "command"})
  /\ Len(mainQ) <= MainCapacity
  /\ slaveQ \in Seq(KeyReport \cup {"connect", "disconnect"})
  /\ Len(slaveQ) <= SlaveCapacity
  /\ hostQ \in Seq(Led) /\ Len(hostQ) <= HostCapacity
  /\ todo \in Seq(KeyReport \cup {"connect", "disconnect"})
  /\ main \in [macro : BOOLEAN, takes : BOOLEAN, shown : KeyReport \cup {"stuck"}]
  /\ keyboard \in [on : BOOLEAN, key : KeyReport, led : Led]
  /\ host \in [at : {"wait", "connect", "read", "send", "leds", "disconnect"},
              last : KeyReport \cup {"none"}, lost : BOOLEAN]
  /\ slave \in [at : {"dequeue", "transfer", "detach", "join"}, report : KeyReport]
  /\ sct \in [at : {"none", "recv", "leds", "command", "enqueue_leds",
                     "enqueue_command", "status"}, led : Led]
  /\ device \in [usb : BOOLEAN, open : BOOLEAN, ended : 0 .. 1, valid : BOOLEAN]
  /\ pc \in [attached : BOOLEAN, configured : BOOLEAN, key : KeyReport,
            led : Led \cup {"unset"},
            request : Led \cup {"none", "command", "configure", "deconfigure"}]

\* While the device is open there is exactly one slave control thread,
\* running or ended and not yet waited for; without one it is closed.  So
\* no control thread uses a closed device, none outlives its connection to
\* meet the next one, and connect() never resets a semaphore in use.
OneControlThread ==
  /\ sct.at # "none" => device.open /\ device.ended = 0
  /\ device.open => sct.at # "none" \/ device.ended = 1
  /\ device.usb => device.open

\* Nothing is on its way.
Quiet ==
  /\ mainQ = <<>> /\ slaveQ = <<>> /\ hostQ = <<>> /\ todo = <<>>
  /\ \/ host.at = "wait" /\ ~keyboard.on
     \/ host.at = "read" /\ ~host.lost
  /\ slave.at = "dequeue"
  /\ sct.at \in {"none", "recv"} /\ pc.request = "none"

\* Then the PC sees a device exactly when there is a keyboard, ...
ConnectionIsPassedOn == Quiet => pc.attached = keyboard.on

\* ... no key held that the user has let go, whatever was dropped before
\* the configuration, cut off by an unplugged keyboard, kept back or sent by
\* a macro or taken by a command; except for keys that the PC saw held when
\* a command began to take the reports, until one is passed on again, ...
NoStuckKey ==
  /\ Quiet /\ keyboard.key = "zero"
  /\ host.at = "wait" \/ host.last \in {"zero", "none"}
  /\ main.shown # "stuck"
  => pc.key = "zero"

\* ... and the keyboard shows the LEDs that the PC set last, not those that
\* it set on a keyboard before or on one that came back.
LedsFollowPc == Quiet /\ pc.led # "unset" => keyboard.led = pc.led

\* The slave thread and the control thread keep the promise of the control
\* pipe, wherever a connection ends while a request is served or waits for
\* room in a queue.
Pipe == INSTANCE ControlPipe WITH
  device <- IF device.usb THEN "open" ELSE IF slave.at = "detach" THEN "closing"
            ELSE IF slave.at = "join" THEN "joining" ELSE "closed",
  server <- IF sct.at = "none" THEN "none" ELSE IF sct.at = "recv" THEN "waits" ELSE "serves",
  asked <- pc.request # "none"
ImplementsPipe == Pipe!Spec

\* The PC catches up with a keyboard that is plugged in or pulled out,
\* unless the queues to the main thread and from it are both full: then the
\* slave thread may wait for a control thread that waits for the main
\* thread that waits for the slave thread.
Jam == Len(mainQ) = MainCapacity /\ Len(slaveQ) = SlaveCapacity
PcCatchesUp == keyboard.on # pc.configured ~> keyboard.on = pc.configured \/ Jam

\* README.md:34, 54: keys and macros are sent to the PC: the main thread
\* gets every report to the slave thread.
KeysAreSent == todo # <<>> ~> todo = <<>>

=============================================================================

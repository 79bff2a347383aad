---------------------------- MODULE SlaveControl ----------------------------
(***************************************************************************)
(* firmware/UsbSlave.c: the control requests of the PC, as the slave       *)
(* control thread (SCT) answers them while the slave thread handles the    *)
(* events of the main thread.  SCT has the higher priority, so it may find *)
(* a report half copied, but not the other way round; a step of it goes    *)
(* from one blocking call to the next.  A driver call on m_slave_usb =     *)
(* NULL fails at once and without effect; one that was made before that    *)
(* may still succeed until the device is detached.                         *)
(*                                                                         *)
(* Reports are numbered in the order of their events, each in two halves,  *)
(* to see which part of which report the PC was shown; 0 is the content of *)
(* m_current_input_report at power on.  Data on its way to the PC is a     *)
(* sequence of named parts.  The driver's state is the halted endpoints.   *)
(***************************************************************************)
EXTENDS Integers, Sequences

CONSTANTS
  Requests,       \* the requests of the PC, see NoRequest
  MaxReports      \* bound: input reports

VARIABLES
  usb,        \* m_slave_usb is not NULL
  input,      \* m_current_input_report, by halves
  regs,       \* m_configuration_no, m_interrupt_transfer_valid, m_duration,
              \* m_protocol_no, m_current_output_report, halted endpoints
  slave,      \* the slave thread: at, its report; due: the PC polls for it
  sct,        \* the control thread: at, its setup_data, handled, send_data
  pc          \* attached, its request in progress, what it knows that it set
              \* in this connection, its last interrupt report, the newest
              \* report halves it has seen, and had seen before the request

vars == <<usb, input, regs, slave, sct, pc>>

Unknown == -1
Settings == {"configuration", "idle", "leds", "halt"}
NoRequest ==
  [type |-> "none", to |-> "none", code |-> "none", what |-> "none",
   value |-> 0, index |-> 0, length |-> 0, data |-> 0]

\* The requests of the HID class go to the interface, as the class has it;
\* other endpoints than 0 and 0x81 are in no descriptor.
HidCodes == {"GET_REPORT", "GET_IDLE", "GET_PROTOCOL", "SET_REPORT", "SET_IDLE", "SET_PROTOCOL"}
ASSUME RequestsAssumption ==
  /\ MaxReports \in Nat
  /\ NoRequest \notin Requests
  /\ \A q \in Requests :
       /\ q.value \in 0 .. 255 /\ q.data \in 0 .. 255
       /\ q.index \in Nat /\ q.length \in Nat
       /\ q.code \in HidCodes => q.type = "class"
       /\ q.type = "class" => q.to = "interface"
       /\ q.to = "endpoint" => q.index \in {0, 128, 129}

Detached ==
  [attached |-> FALSE, request |-> NoRequest,
   knows |-> [s \in Settings |-> Unknown],
   shown |-> 0, seen |-> <<0, 0>>, before |-> <<0, 0>>]

Init ==
  /\ usb = FALSE
  /\ input = <<0, 0>>
  /\ regs = [configuration |-> 0, valid |-> FALSE, idle |-> 0, protocol |-> 0,
            leds |-> 0, halted |-> {}]
  /\ slave = [at |-> "idle", report |-> 0, due |-> FALSE]
  /\ sct = [at |-> "none", setup |-> NoRequest, handled |-> FALSE, data |-> <<>>]
  /\ pc = Detached

-----------------------------------------------------------------------------
(***************************************************************************)
(* Data, and the descriptors with their lengths in bytes.                  *)
(***************************************************************************)
Lengths ==
  [byte |-> 1, half |-> 4, client |-> 64, device |-> 18, config |-> 9,
   interface |-> 9, hid |-> 9, endpoint |-> 7, report |-> 89,
   string0 |-> 4, string1 |-> 28, string2 |-> 22, string3 |-> 38]

Byte(b) == <<"byte", b>>
Section(name) == <<name, 0>>
PartSize(data, i) == IF i \in DOMAIN data THEN Lengths[data[i][1]] ELSE 0

\* Of data in at most four parts.
Size(data) == PartSize(data, 1) + PartSize(data, 2) + PartSize(data, 3) + PartSize(data, 4)

\* Handlers: handled, the data to send, and the settings they leave.
Answer(data) == [handled |-> TRUE, data |-> data, regs |-> regs]
Done(new) == [handled |-> TRUE, data |-> <<>>, regs |-> new]
Unhandled == [handled |-> FALSE, data |-> <<>>, regs |-> regs]

get_string_descriptor(index) ==
  IF index \in 0 .. 3
  THEN Answer(<<Section(<<"string0", "string1", "string2", "string3">>[index + 1])>>)
  ELSE Unhandled

Descriptors ==
  [DEVICE |-> <<Section("device")>>,
   CONFIGURATION |-> <<Section("config"), Section("interface"), Section("hid"),
                       Section("endpoint")>>,
   INTERFACE |-> <<Section("interface")>>, ENDPOINT |-> <<Section("endpoint")>>,
   HID |-> <<Section("hid")>>, REPORT |-> <<Section("report")>>]

get_descriptor(type, index) ==
  CASE type = "STRING" -> get_string_descriptor(index)
    [] type \in DOMAIN Descriptors /\ index = 0 -> Answer(Descriptors[type])
    [] OTHER -> Unhandled

-----------------------------------------------------------------------------
(***************************************************************************)
(* The handlers, apart from SET_REPORT.  A configuration other than 1 is   *)
(* answered with a stall, but it is in force all the same.                 *)
(***************************************************************************)
set_configuration(no) == [regs EXCEPT !.configuration = no]
stall_endpoint(ep) == [regs EXCEPT !.halted = IF usb THEN @ \cup {ep} ELSE @]
clear_endpoint(ep) == [regs EXCEPT !.halted = IF usb THEN @ \ {ep} ELSE @]
is_endpoint_stall(ep) == ep \in regs.halted

device_req_handler(q) ==
  CASE q.code = "GET_STATUS" -> Answer(<<Byte(0)>>)
    [] q.code = "SET_ADDRESS" -> Done(regs)
    [] q.code = "GET_DESCRIPTOR" -> get_descriptor(q.what, q.value)
    [] q.code = "GET_CONFIGURATION" -> Answer(<<Byte(regs.configuration)>>)
    [] q.code = "SET_CONFIGURATION" ->
         [Done([set_configuration(q.value) EXCEPT !.valid = q.value = 1])
            EXCEPT !.handled = q.value = 1]
    [] OTHER -> Unhandled

interface_req_handler(q) ==
  CASE q.code = "GET_STATUS" -> Answer(<<Byte(0), Byte(0)>>)
    [] q.code = "GET_DESCRIPTOR" -> get_descriptor(q.what, q.value)
    [] q.code = "GET_INTERFACE" -> Answer(<<Byte(0)>>)
    [] q.code = "SET_INTERFACE" /\ q.value = 0 -> Done(regs)
    [] OTHER -> Unhandled

\* Mutant: the direction bit of the endpoint's address is not masked.
EndpointNo_Raw(q) == q.index

EndpointNo(q) == q.index % 16

endpoint_req_handler(q) ==
  LET ep == EndpointNo(q)
  IN  CASE q.code = "GET_STATUS" ->
             Answer(<<Byte(IF is_endpoint_stall(ep) THEN 1 ELSE 0), Byte(0)>>)
        [] q.code = "CLEAR_FEATURE" /\ q.value = 0 -> Done(clear_endpoint(ep))
        [] q.code = "SET_FEATURE" /\ q.value = 0 -> Done(stall_endpoint(ep))
        [] OTHER -> Unhandled

\* q.data is the high byte of wValue of SET_IDLE and SET_PROTOCOL.
class_req_handler(q) ==
  CASE q.code = "GET_REPORT" /\ q.what = "INPUT" ->
         Answer(<<Byte(1), <<"half", input[1]>>, <<"half", input[2]>>>>)
    [] q.code = "GET_REPORT" /\ q.what = "OUTPUT" -> Answer(<<Byte(1), Byte(regs.leds)>>)
    [] q.code = "GET_REPORT" /\ q.what = "FEATURE" -> Answer(<<Byte(2), Section("client")>>)
    [] q.code = "GET_IDLE" -> Answer(<<Byte(regs.idle)>>)
    [] q.code = "GET_PROTOCOL" -> Answer(<<Byte(regs.protocol)>>)
    [] q.code = "SET_IDLE" -> Done([regs EXCEPT !.idle = q.data])
    [] q.code = "SET_PROTOCOL" -> Done([regs EXCEPT !.protocol = q.data])
    [] OTHER -> Unhandled

Handle(q) ==
  CASE q.type = "standard" /\ q.to = "device" -> device_req_handler(q)
    [] q.type = "standard" /\ q.to = "interface" -> interface_req_handler(q)
    [] q.type = "standard" /\ q.to = "endpoint" -> endpoint_req_handler(q)
    [] q.type = "class" -> class_req_handler(q)
    [] OTHER -> Unhandled

-----------------------------------------------------------------------------
(***************************************************************************)
(* slave_control_thread()                                                  *)
(***************************************************************************)
HasDataStage(q) == q.type = "class" /\ q.code = "SET_REPORT" /\ q.length <= 128

Ended == [at |-> "none", setup |-> NoRequest, handled |-> FALSE, data |-> <<>>]

\* The control transfer or the stall that answers a request.  With the handle
\* gone it fails, the PC's request stays as it is and the loop ends.
Answers(q, handled, data) ==
  sct' = IF usb THEN [at |-> "reply", setup |-> q, handled |-> handled, data |-> data] ELSE Ended

\* Mutant: what is not handled is not stalled.
Recv_NoStall ==
  /\ sct.at = "recv" /\ pc.request # NoRequest /\ ~HasDataStage(pc.request)
  /\ LET h == Handle(pc.request)
     IN  h.handled /\ Answers(pc.request, h.handled, h.data) /\ regs' = h.regs
  /\ UNCHANGED <<usb, input, slave, pc>>

\* recv_setup_data() and a handler that has no data stage.
Recv ==
  /\ sct.at = "recv" /\ pc.request # NoRequest /\ ~HasDataStage(pc.request)
  /\ LET h == Handle(pc.request)
     IN  Answers(pc.request, h.handled, h.data) /\ regs' = h.regs
  /\ UNCHANGED <<usb, input, slave, pc>>

\* The device was detached.
RecvFails ==
  /\ sct.at = "recv" /\ ~pc.attached
  /\ sct' = [sct EXCEPT !.at = "none"]
  /\ UNCHANGED <<usb, input, regs, slave, pc>>

\* Mutant: the report id in buf[0] is taken for the LEDs in buf[1].
Received_Id(q) == IF pc.attached THEN q.value ELSE 0

\* buf[1], which is zero unless that byte arrived before a detach.
Received(q) == IF pc.attached /\ q.length > 1 THEN q.data ELSE 0

\* What SET_REPORT does with buf; the command goes to m_from_client_data.
Stored(q, leds) ==
  \/ /\ <<q.what, q.value>> \in {<<"OUTPUT", 1>>, <<"FEATURE", 2>>}
     /\ regs' = [regs EXCEPT !.leds = IF q.what = "OUTPUT" THEN leds ELSE @]
     /\ sct' = [at |-> "enqueue", setup |-> q, handled |-> TRUE, data |-> <<>>]
  \/ /\ <<q.what, q.value>> \notin {<<"OUTPUT", 1>>, <<"FEATURE", 2>>}
     /\ Answers(q, FALSE, <<>>)
     /\ UNCHANGED regs

\* recv_setup_data() and SET_REPORT; without a handle buf stays zero.
SetReport ==
  /\ sct.at = "recv" /\ HasDataStage(pc.request)
  /\ \/ /\ usb
        /\ sct' = [at |-> "data", setup |-> pc.request, handled |-> FALSE, data |-> <<>>]
        /\ UNCHANGED regs
     \/ ~usb /\ Stored(pc.request, 0)
  /\ UNCHANGED <<usb, input, slave, pc>>

\* The data stage.
DataStage ==
  /\ sct.at = "data"
  /\ Stored(sct.setup, Received(sct.setup))
  /\ UNCHANGED <<usb, input, slave, pc>>

\* send_output_report_to_host() or notify_recv_command_to_main(), which may
\* wait for room in the queue.
Enqueue ==
  /\ sct.at = "enqueue"
  /\ Answers(sct.setup, TRUE, <<>>)
  /\ UNCHANGED <<usb, input, regs, slave, pc>>

\* What a request sets or asks for.
Setting(q) ==
  CASE q.code \in {"GET_CONFIGURATION", "SET_CONFIGURATION"} -> "configuration"
    [] q.code \in {"GET_IDLE", "SET_IDLE"} -> "idle"
    [] q.code \in {"GET_REPORT", "SET_REPORT"} /\ q.what = "OUTPUT" -> "leds"
    [] /\ q.code \in {"GET_STATUS", "SET_FEATURE", "CLEAR_FEATURE"}
       /\ q.to = "endpoint" /\ q.index = 129 -> "halt"
    [] OTHER -> "none"

Changes(q) ==
  /\ Setting(q) \in Settings
  /\ q.code \in {"SET_CONFIGURATION", "SET_IDLE", "SET_REPORT", "SET_FEATURE", "CLEAR_FEATURE"}

\* The value that a request sets if it is successful; a SET_REPORT that ends
\* with its report id says nothing of the LEDs.
NewValue(q) ==
  CASE q.code = "SET_CONFIGURATION" -> q.value
    [] q.code = "SET_IDLE" -> q.data
    [] q.code = "SET_REPORT" /\ q.length > 1 -> q.data
    [] q.code = "CLEAR_FEATURE" -> 0
    [] q.code = "SET_FEATURE" -> 1
    [] OTHER -> Unknown

AsksForInput(q) == q.code = "GET_REPORT" /\ q.what = "INPUT" /\ q.length >= 9

Newest(seen, first, second) ==
  <<IF first > seen[1] THEN first ELSE seen[1], IF second > seen[2] THEN second ELSE seen[2]>>

\* The answer or the stall, begun while there was a handle, has reached the PC
\* or was cut off, and the test of the loop.
Reply ==
  /\ sct.at = "reply"
  /\ LET q == sct.setup
         ok == pc.attached /\ sct.handled
     IN  pc' = [pc EXCEPT !.request = NoRequest,
                  !.knows = IF ok /\ Changes(q) THEN [@ EXCEPT ![Setting(q)] = NewValue(q)] ELSE @,
                  !.seen = IF ok /\ AsksForInput(q)
                           THEN Newest(@, sct.data[2][2], sct.data[3][2]) ELSE @]
  /\ sct' = [Ended EXCEPT !.at = IF usb THEN "recv" ELSE "none"]
  /\ UNCHANGED <<usb, input, regs, slave>>

ControlThread == Recv \/ SetReport \/ RecvFails \/ DataStage \/ Enqueue \/ Reply

\* The PC has set the configuration and is not about to change it.
Polls == pc.knows["configuration"] = 1

-----------------------------------------------------------------------------
(***************************************************************************)
(* usb_slave_thread()                                                      *)
(***************************************************************************)
connect ==
  /\ slave.at = "idle" /\ ~usb
  /\ usb' = TRUE
  /\ regs' = [regs EXCEPT !.halted = {}]
  /\ sct' = [sct EXCEPT !.at = "recv"]
  /\ pc' = [Detached EXCEPT !.attached = TRUE]
  /\ UNCHANGED <<input, slave>>

disconnect ==
  /\ slave.at = "idle" /\ usb
  /\ usb' = FALSE /\ regs' = [regs EXCEPT !.valid = FALSE]
  /\ slave' = [slave EXCEPT !.at = "detach", !.due = FALSE]
  /\ UNCHANGED <<input, sct, pc>>

\* VOS_IOCTL_USBSLAVE_DISCONNECT
Detach ==
  /\ slave.at = "detach"
  /\ slave' = [slave EXCEPT !.at = "join"]
  /\ pc' = Detached
  /\ UNCHANGED <<usb, input, regs, sct>>

\* Mutant: the device is closed without waiting for the control thread.
Join_NoWait ==
  /\ slave.at = "join"
  /\ slave' = [slave EXCEPT !.at = "idle"]
  /\ UNCHANGED <<usb, input, regs, sct, pc>>

\* vos_wait_semaphore(): the control thread has ended.
Join ==
  /\ slave.at = "join" /\ sct.at = "none"
  /\ slave' = [slave EXCEPT !.at = "idle"]
  /\ UNCHANGED <<usb, input, regs, sct, pc>>

\* handle_input_report(): the first half of the copy, ...
CopyFirst ==
  /\ slave.at = "idle" /\ slave.report < MaxReports
  /\ slave' = [at |-> "copy", report |-> slave.report + 1, due |-> Polls]
  /\ input' = [input EXCEPT ![1] = slave.report + 1]
  /\ UNCHANGED <<usb, regs, sct, pc>>

\* Mutant: only a report that is sent to the PC is stored.
CopySecond_Sent ==
  /\ slave.at = "copy"
  /\ slave' = [slave EXCEPT !.at = IF regs.valid THEN "transfer" ELSE "idle"]
  /\ input' = [input EXCEPT ![2] = IF regs.valid THEN slave.report ELSE @]
  /\ UNCHANGED <<usb, regs, sct, pc>>

\* Mutant: a report is dropped while the endpoint is halted.
CopySecond_DropHalted ==
  /\ slave.at = "copy"
  /\ slave' = [slave EXCEPT !.at = IF regs.valid /\ 1 \notin regs.halted THEN "transfer" ELSE "idle"]
  /\ input' = [input EXCEPT ![2] = slave.report]
  /\ UNCHANGED <<usb, regs, sct, pc>>

\* ... the second, and the test whether the PC may be sent reports.
CopySecond ==
  /\ slave.at = "copy"
  /\ slave' = [slave EXCEPT !.at = IF regs.valid THEN "transfer" ELSE "idle"]
  /\ input' = [input EXCEPT ![2] = slave.report]
  /\ UNCHANGED <<usb, regs, sct, pc>>

\* non_control_transfer() ends when the PC has polled the endpoint.
Transfer ==
  /\ slave.at = "transfer"
  /\ Polls /\ 1 \notin regs.halted
  /\ pc' = [pc EXCEPT !.shown = slave.report, !.seen = Newest(@, slave.report, slave.report)]
  /\ slave' = [slave EXCEPT !.at = "idle"]
  /\ UNCHANGED <<usb, input, regs, sct>>

\* A report is handled to its end before the next event is taken.
Events == connect \/ disconnect \/ CopyFirst
Goes == Detach \/ Join \/ CopySecond \/ Transfer

-----------------------------------------------------------------------------
(***************************************************************************)
(* The PC, whose HID driver waits for the configuration.                   *)
(***************************************************************************)
Ask(q) ==
  /\ pc.attached /\ pc.request = NoRequest
  /\ q.code # "SET_CONFIGURATION"
  /\ q.type = "class" => Polls
  /\ pc' = [pc EXCEPT !.request = q, !.before = IF AsksForInput(q) THEN pc.seen ELSE @,
              !.knows = IF Changes(q) THEN [@ EXCEPT ![Setting(q)] = Unknown] ELSE @]
  /\ UNCHANGED <<usb, input, regs, slave, sct>>

\* The PC's drivers start anew with the configuration.
AskConfiguration(q) ==
  /\ pc.attached /\ pc.request = NoRequest
  /\ q.code = "SET_CONFIGURATION"
  /\ pc' = [pc EXCEPT !.request = q, !.shown = 0, !.seen = <<0, 0>>, !.before = <<0, 0>>,
              !.knows = [@ EXCEPT !["configuration"] = Unknown, !["halt"] = Unknown]]
  /\ slave' = [slave EXCEPT !.due = FALSE]
  /\ UNCHANGED <<usb, input, regs, sct>>

Next ==
  \/ ControlThread
  \/ Events \/ Goes
  \/ \E q \in Requests : Ask(q) \/ AskConfiguration(q)

Spec == Init /\ [][Next]_vars

\* Both threads run when they can, the PC polls.  There is room in a queue
\* at some time: module Threads shows when this is so.
\* Nobody is bound to send requests or events.
FairSpec == Spec /\ WF_vars(ControlThread) /\ WF_vars(Goes)

-----------------------------------------------------------------------------
TypeOK ==
  /\ usb \in BOOLEAN /\ regs.valid \in BOOLEAN
  /\ input[1] \in 0 .. MaxReports /\ input[2] \in 0 .. MaxReports
  /\ regs.halted \subseteq 0 .. 15
  /\ slave.at \in {"idle", "copy", "transfer", "detach", "join"}
  /\ sct.at \in {"none", "recv", "data", "enqueue", "reply"}
  /\ Size(sct.data) <= 256
  /\ pc.request \in Requests \cup {NoRequest}
  /\ pc.knows \in [Settings -> {Unknown} \cup 0 .. 255]

\* What the PC has set in this connection and asks for is what it is told,
\* though the values survive from connections before, a request may be cut
\* off by a detach, and an unsuccessful one may have had its effect.
AnswersMatch ==
  LET s == Setting(sct.setup)
  IN  /\ sct.at = "reply" /\ sct.handled /\ sct.data # <<>>
      /\ pc.attached /\ s \in Settings /\ pc.knows[s] # Unknown
      => sct.data[IF s = "leds" THEN 2 ELSE 1] = Byte(pc.knows[s])

\* No part of an answer to GET_REPORT is older than what the PC had seen
\* when it asked, by interrupt or by GET_REPORT, and parts of no more than
\* two reports, one after the other, are mixed.  (It may be older than an
\* interrupt that overtakes it on its way to the PC.)
AnswersAreRecent ==
  sct.at = "reply" /\ pc.attached /\ AsksForInput(sct.setup) =>
    LET first == sct.data[2][2]
        second == sct.data[3][2]
    IN  /\ first >= pc.before[1] /\ second >= pc.before[2]
        /\ first - second \in {0, 1}

\* A report that comes while the device is configured has been sent to the
\* PC when the slave thread goes on to the next event.
DueReportsArrive ==
  slave.at = "idle" /\ slave.due /\ Polls => pc.shown = slave.report

\* slave_control_thread() with all its handlers keeps the promise of the
\* control pipe: the answer to a request of a connection that was cut off
\* never reaches the next one, and no request is answered twice.
Pipe == INSTANCE ControlPipe WITH
  device <- IF usb THEN "open" ELSE IF slave.at = "detach" THEN "closing"
            ELSE IF slave.at = "join" THEN "joining" ELSE "closed",
  server <- IF sct.at = "none" THEN "none" ELSE IF sct.at = "recv" THEN "waits" ELSE "serves",
  asked <- pc.request # NoRequest
ImplementsPipe == Pipe!Spec

\* Every request is answered or cut off: none waits for the interrupt
\* transfer, and all that is not handled is stalled.
RequestsAreAnswered == pc.request # NoRequest ~> pc.request = NoRequest

=============================================================================

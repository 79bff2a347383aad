--------------------------- MODULE Threads_proofs ---------------------------
(***************************************************************************)
(* Proofs about the threads, for all capacities of the queues, macros of   *)
(* every length, with and without the priority of the control thread.      *)
(***************************************************************************)
EXTENDS Threads, Pipes, TLAPS

\* TypeOK, one part for each variable or group of variables.
Event == KeyReport \cup {"connect", "disconnect"}

QueuesOK ==
  /\ mainQ \in Seq(Event \cup {"command"}) /\ Len(mainQ) <= MainCapacity
  /\ slaveQ \in Seq(Event) /\ Len(slaveQ) <= SlaveCapacity
  /\ hostQ \in Seq(Led) /\ Len(hostQ) <= HostCapacity
  /\ todo \in Seq(Event)

KeyboardOK == keyboard \in [on : BOOLEAN, key : KeyReport, led : Led]

\* A report that is to be sent was read.
HostOK ==
  /\ host \in [at : {"wait", "connect", "read", "send", "leds", "disconnect"},
              last : KeyReport \cup {"none"}, lost : BOOLEAN]
  /\ host.at = "send" => host.last \in KeyReport

\* When a command begins to take the reports, keys that are shown are stuck.
\* Only a macro that has data waits.
MainOK ==
  /\ main \in [macro : BOOLEAN, takes : BOOLEAN, shown : KeyReport \cup {"stuck"}]
  /\ main.takes => main.shown # "keys"
  /\ main.macro => MacroLen > 0

SlaveOK ==
  slave \in [at : {"dequeue", "transfer", "detach", "join"}, report : KeyReport]

SctOK ==
  sct \in [at : {"none", "recv", "leds", "command", "enqueue_leds",
                 "enqueue_command", "status"}, led : Led]

DeviceOK == device \in [usb : BOOLEAN, open : BOOLEAN, ended : 0 .. 1, valid : BOOLEAN]

PcOK ==
  pc \in [attached : BOOLEAN, configured : BOOLEAN, key : KeyReport,
          led : Led \cup {"unset"},
          request : Led \cup {"none", "command", "configure", "deconfigure"}]

\* The device is open while m_slave_usb has its handle, and after that until
\* disconnect() has waited for the control thread.
OpenUntilJoin ==
  /\ device.open <=> device.usb \/ slave.at \in {"detach", "join"}
  /\ device.usb => slave.at \notin {"detach", "join"}

Life == OpenUntilJoin /\ OneControlThread

Inv ==
  /\ QueuesOK /\ KeyboardOK /\ HostOK /\ MainOK
  /\ SlaveOK /\ SctOK /\ DeviceOK /\ PcOK /\ Life

-----------------------------------------------------------------------------
LEMMA CapacitiesAreNat ==
  MainCapacity \in Nat /\ SlaveCapacity \in Nat /\ HostCapacity \in Nat
BY ThreadsAssumption

\* enqueue() keeps the queue within its capacity, ...
LEMMA PutIsTyped ==
  ASSUME NEW S, NEW queue \in Seq(S), NEW longer, NEW entry \in S, NEW capacity \in Nat,
         Len(queue) < capacity, longer = Append(queue, entry)
  PROVE  longer \in Seq(S) /\ Len(longer) <= capacity
OBVIOUS

\* ... and dequeue() takes an entry of it.
LEMMA GetIsTyped ==
  ASSUME NEW S, NEW queue \in Seq(S), queue # <<>>, NEW capacity \in Nat,
         Len(queue) <= capacity
  PROVE  Head(queue) \in S /\ Tail(queue) \in Seq(S) /\ Len(Tail(queue)) <= capacity
OBVIOUS

LEMMA HeadIsTyped ==
  ASSUME NEW S, NEW queue \in Seq(S), queue # <<>>
  PROVE  Head(queue) \in S /\ Tail(queue) \in Seq(S)
OBVIOUS

\* The reports of a macro.
LEMMA MacroIsTyped == Macro \in Seq(Event)
<1>1. MacroLen \in Nat
  BY ThreadsAssumption
<1> QED
  BY <1>1 DEF Macro, KeyReport, Event

\* connect() and Join change the number of signals and other fields at once.
LEMMA DeviceChanges ==
  ASSUME NEW Signals, NEW n \in Signals,
         NEW d \in [usb : BOOLEAN, open : BOOLEAN, ended : Signals, valid : BOOLEAN]
  PROVE  /\ [d EXCEPT !.usb = TRUE, !.open = TRUE, !.ended = n]
              \in [usb : BOOLEAN, open : BOOLEAN, ended : Signals, valid : BOOLEAN]
         /\ [d EXCEPT !.ended = n, !.open = FALSE]
              \in [usb : BOOLEAN, open : BOOLEAN, ended : Signals, valid : BOOLEAN]
OBVIOUS

\* Parts of the invariant whose variables a step leaves alone.
LEMMA Frame ==
  ASSUME Inv
  PROVE  /\ UNCHANGED <<mainQ, slaveQ, hostQ, todo>> => QueuesOK'
         /\ UNCHANGED keyboard => KeyboardOK'
         /\ UNCHANGED host => HostOK'
         /\ UNCHANGED main => MainOK'
         /\ UNCHANGED slave => SlaveOK'
         /\ UNCHANGED sct => SctOK'
         /\ UNCHANGED device => DeviceOK'
         /\ UNCHANGED pc => PcOK'
         /\ UNCHANGED <<slave, sct, device>> => Life'
BY DEF Inv, QueuesOK, KeyboardOK, HostOK, MainOK, SlaveOK, SctOK, DeviceOK, PcOK, Life,
       OpenUntilJoin, OneControlThread

-----------------------------------------------------------------------------
\* The invariant holds before the threads run.
LEMMA Starts == Init => Inv
<1> SUFFICES ASSUME Init PROVE Inv
  OBVIOUS
<1> USE DEF Init
<1>1. QueuesOK
  BY CapacitiesAreNat DEF QueuesOK
<1>2. KeyboardOK /\ HostOK /\ MainOK
  BY DEF KeyboardOK, HostOK, MainOK, KeyReport, Led
<1>3. SlaveOK /\ SctOK /\ PcOK
  BY DEF SlaveOK, SctOK, PcOK, Detached, KeyReport, Led
<1>4. DeviceOK
  BY DEF DeviceOK
<1>5. Life
  BY DEF Life, OpenUntilJoin, OneControlThread
<1> QED
  BY <1>1, <1>2, <1>3, <1>4, <1>5 DEF Inv

\* The host thread.
LEMMA HostKeepsInv == Inv /\ HostThread => Inv'
<1> SUFFICES ASSUME Inv, HostThread PROVE Inv'
  OBVIOUS
<1>1. CASE HostAttach
  <2>1. HostOK'
    BY <1>1 DEF HostAttach, Inv, HostOK
  <2> QED
    BY <1>1, <2>1, Frame DEF HostAttach, Inv
<1>2. CASE HostSends
  <2>1. PICK entry \in Event, at \in {"connect", "send", "disconnect"},
             then \in {"read", "leds", "wait"} : HostSend(at, entry, then)
    BY <1>2 DEF HostSends, HostSend, Inv, HostOK, Event
  <2>2. QueuesOK'
    BY <2>1, PutIsTyped, CapacitiesAreNat DEF HostSend, Put, Inv, QueuesOK
  <2>3. HostOK'
    BY <2>1 DEF HostSend, Inv, HostOK
  <2> QED
    BY <2>1, <2>2, <2>3, Frame DEF HostSend, Inv
<1>3. CASE HostRead
  <2>1. keyboard.key \in KeyReport
    BY DEF Inv, KeyboardOK
  <2>2. HostOK'
    BY <1>3, <2>1 DEF HostRead, Inv, HostOK
  <2> QED
    BY <1>3, <2>2, Frame DEF HostRead, Inv
<1>4. CASE HostLeds
  <2>1. HostOK'
    BY <1>4 DEF HostLeds, Inv, HostOK
  <2>2. CASE hostQ = <<>>
    BY <1>4, <2>1, <2>2, Frame DEF HostLeds, Inv
  <2>3. CASE hostQ # <<>>
    <3>1. Head(hostQ) \in Led /\ hostQ' \in Seq(Led) /\ Len(hostQ') <= HostCapacity
      BY <1>4, <2>3, GetIsTyped, CapacitiesAreNat DEF HostLeds, Inv, QueuesOK
    <3>2. QueuesOK'
      BY <1>4, <3>1 DEF HostLeds, Inv, QueuesOK
    <3>3. KeyboardOK'
      BY <1>4, <2>3, <3>1 DEF HostLeds, Inv, KeyboardOK
    <3> QED
      BY <1>4, <2>1, <3>2, <3>3, Frame DEF HostLeds, Inv
  <2> QED
    BY <2>2, <2>3
<1> QED
  BY <1>1, <1>2, <1>3, <1>4 DEF HostThread

\* The main thread takes an event or a report.
LEMMA TakeKeepsMain ==
  ASSUME MainOK, NEW e \in Event \cup {"command"},
         IF e \in {"zero", "keys"} THEN TakeReport(e) ELSE TakeEvent(e)
  PROVE  todo' \in Seq(Event) /\ MainOK'
<1>1. /\ main \in [macro : BOOLEAN, takes : BOOLEAN, shown : KeyReport \cup {"stuck"}]
      /\ main.takes => main.shown # "keys"
      /\ main.macro => MacroLen > 0
  BY DEF MainOK
<1>2. CASE e \in KeyReport
  <2>1. TakeReport(e)
    BY <1>2 DEF KeyReport
  <2>2. todo' \in Seq(Event)
    <3>1. todo' = <<>> \/ todo' = <<e>> \/ todo' = Macro
      BY <2>1 DEF TakeReport
    <3>2. e \in Event
      BY <1>2 DEF Event
    <3>3. <<>> \in Seq(Event) /\ <<e>> \in Seq(Event)
      BY <3>2
    <3> QED
      BY <3>1, <3>3, MacroIsTyped
  <2>3. \/ UNCHANGED main
        \/ ~main.takes /\ main' = [main EXCEPT !.macro = FALSE, !.shown = "zero"]
        \/ ~main.takes /\ main' = [main EXCEPT !.shown = e]
        \/ ~main.takes /\ MacroLen > 0 /\ main' = [main EXCEPT !.macro = TRUE]
    BY <2>1 DEF TakeReport
  <2>4. MainOK'
    BY <1>1, <1>2, <2>3 DEF MainOK, KeyReport
  <2> QED
    BY <2>2, <2>4
<1>3. CASE e \in {"connect", "disconnect", "command"}
  <2>1. TakeEvent(e)
    BY <1>3
  <2>2. todo' \in Seq(Event)
    <3>1. todo' = <<>> \/ (todo' = <<e>> /\ e \in Event)
      BY <2>1 DEF TakeEvent, Event
    <3>2. CASE todo' = <<>>
      BY <3>2
    <3>3. CASE todo' = <<e>> /\ e \in Event
      BY <3>3
    <3> QED
      BY <3>1, <3>2, <3>3
  <2>3. \/ UNCHANGED main
        \/ main' = [main EXCEPT !.shown = IF e = "disconnect" THEN "zero" ELSE @]
        \/ main' = [main EXCEPT !.takes = TRUE, !.shown = IF @ = "keys" THEN "stuck" ELSE @]
    BY <2>1 DEF TakeEvent
  <2>4. MainOK'
    BY <1>1, <2>3 DEF MainOK, KeyReport
  <2> QED
    BY <2>2, <2>4
<1> QED
  BY <1>2, <1>3 DEF Event

\* The main thread.
LEMMA MainKeepsInv == Inv /\ (MainThread \/ CommandEnds) => Inv'
<1> SUFFICES ASSUME Inv, MainThread \/ CommandEnds PROVE Inv'
  OBVIOUS
<1>1. CASE MainTake
  <2>1. /\ Head(mainQ) \in Event \cup {"command"}
        /\ mainQ' \in Seq(Event \cup {"command"}) /\ Len(mainQ') <= MainCapacity
    BY <1>1, GetIsTyped, CapacitiesAreNat DEF MainTake, Inv, QueuesOK
  <2>2. todo' \in Seq(Event) /\ MainOK'
    BY <1>1, <2>1, TakeKeepsMain DEF MainTake, Inv
  <2>3. QueuesOK'
    BY <1>1, <2>1, <2>2 DEF MainTake, Inv, QueuesOK
  <2> QED
    BY <1>1, <2>2, <2>3, Frame DEF MainTake, Inv
<1>2. CASE MainSend
  <2>1. Head(todo) \in Event /\ todo' \in Seq(Event)
    BY <1>2, HeadIsTyped DEF MainSend, Inv, QueuesOK
  <2>2. slaveQ' \in Seq(Event) /\ Len(slaveQ') <= SlaveCapacity
    BY <1>2, <2>1, PutIsTyped, CapacitiesAreNat DEF MainSend, Put, Inv, QueuesOK
  <2>3. QueuesOK'
    BY <1>2, <2>1, <2>2 DEF MainSend, Inv, QueuesOK
  <2> QED
    BY <1>2, <2>3, Frame DEF MainSend, Inv
<1>3. CASE CommandEnds
  <2>1. MainOK'
    BY <1>3 DEF CommandEnds, Inv, MainOK
  <2> QED
    BY <1>3, <2>1, Frame DEF CommandEnds, Inv
<1> QED
  BY <1>1, <1>2, <1>3 DEF MainThread

\* The slave thread: it opens, detaches, waits and closes.
LEMMA SlaveKeepsInv == Inv /\ SlaveThread => Inv'
<1> SUFFICES ASSUME Inv, SlaveThread PROVE Inv'
  OBVIOUS
<1>1. CASE SlaveTake
  <2>1. /\ Head(slaveQ) \in Event
        /\ slaveQ' \in Seq(Event) /\ Len(slaveQ') <= SlaveCapacity
    BY <1>1, GetIsTyped, CapacitiesAreNat DEF SlaveTake, Inv, QueuesOK
  <2>2. QueuesOK' /\ KeyboardOK' /\ HostOK' /\ MainOK'
    BY <1>1, <2>1, Frame DEF SlaveTake, Inv, QueuesOK
  <2>3. CASE connect
    <3>1. CASE device.usb
      BY <2>2, <2>3, <3>1, Frame DEF connect, Inv
    <3>2. CASE ~device.usb
      <4>0. SctOK'
        BY <2>3, <3>2 DEF connect, Inv, SctOK
      <4>1. DeviceOK'
        <5>1. 0 \in 0 .. 1
          OBVIOUS
        <5>2. device' = [device EXCEPT !.usb = TRUE, !.open = TRUE, !.ended = 0]
          BY <2>3, <3>2 DEF connect
        <5> QED
          BY <5>1, <5>2, DeviceChanges DEF Inv, DeviceOK
      <4>2. PcOK'
        BY <2>3, <3>2 DEF connect, PcOK, Detached, KeyReport, Led
      <4>3. Life'
        BY <1>1, <2>3, <3>2
        DEF SlaveTake, connect, Inv, DeviceOK, SctOK, Life, OpenUntilJoin, OneControlThread
      <4>4. SlaveOK'
        BY <2>3, <3>2, Frame DEF connect
      <4> QED
        BY <2>2, <4>0, <4>1, <4>2, <4>3, <4>4 DEF Inv
    <3> QED
      BY <3>1, <3>2
  <2>4. CASE disconnect
    <3>1. CASE ~device.usb
      BY <2>2, <2>4, <3>1, Frame DEF disconnect, Inv
    <3>2. CASE device.usb
      <4>1. DeviceOK' /\ SlaveOK' /\ SctOK' /\ PcOK'
        BY <2>4, <3>2, Frame DEF disconnect, Inv, DeviceOK, SlaveOK
      <4>2. Life'
        BY <2>4, <3>2
        DEF disconnect, Inv, DeviceOK, SlaveOK, Life, OpenUntilJoin, OneControlThread
      <4> QED
        BY <2>2, <4>1, <4>2 DEF Inv
    <3> QED
      BY <3>1, <3>2
  <2>5. CASE handle_input_report(Head(slaveQ)) /\ Head(slaveQ) \in KeyReport
    <3>1. SlaveOK' /\ SctOK' /\ DeviceOK' /\ PcOK'
      BY <2>5, Frame DEF handle_input_report, Inv, SlaveOK
    <3>2. Life'
      BY <1>1, <2>5
      DEF SlaveTake, handle_input_report, Inv, SlaveOK, Life, OpenUntilJoin, OneControlThread
    <3> QED
      BY <2>2, <3>1, <3>2 DEF Inv
  <2> QED
    BY <1>1, <2>1, <2>3, <2>4, <2>5 DEF SlaveTake, Event
<1>2. CASE Transfer
  <2>1. PcOK' /\ SlaveOK'
    BY <1>2 DEF Transfer, Inv, PcOK, SlaveOK
  <2>2. Life'
    BY <1>2 DEF Transfer, Inv, SlaveOK, Life, OpenUntilJoin, OneControlThread
  <2> QED
    BY <1>2, <2>1, <2>2, Frame DEF Transfer, Inv
<1>3. CASE Detach
  <2>1. PcOK'
    BY <1>3 DEF Detach, PcOK, Detached, KeyReport, Led
  <2>2. SlaveOK'
    BY <1>3 DEF Detach, Inv, SlaveOK
  <2>3. Life'
    BY <1>3 DEF Detach, Inv, SlaveOK, Life, OpenUntilJoin, OneControlThread
  <2> QED
    BY <1>3, <2>1, <2>2, <2>3, Frame DEF Detach, Inv
<1>4. CASE Join
  <2>1. device.ended = 1
    BY <1>4 DEF Join, Inv, DeviceOK
  <2>2. DeviceOK'
    <3>1. device.ended - 1 = 0 /\ 0 \in 0 .. 1
      BY <2>1
    <3>2. device' = [device EXCEPT !.ended = 0, !.open = FALSE]
      BY <1>4, <3>1 DEF Join
    <3> QED
      BY <3>1, <3>2, DeviceChanges DEF Inv, DeviceOK
  <2>4. SlaveOK'
    BY <1>4 DEF Join, Inv, SlaveOK
  <2>3. Life'
    BY <1>4, <2>1 DEF Join, Inv, SlaveOK, DeviceOK, Life, OpenUntilJoin, OneControlThread
  <2> QED
    BY <1>4, <2>2, <2>3, <2>4, Frame DEF Join, Inv
<1> QED
  BY <1>1, <1>2, <1>3, <1>4 DEF SlaveThread

\* The control thread signals its end once.
LEMMA EndKeepsInv ==
  ASSUME Inv, sct.at # "none", UNCHANGED slave, NEW dev, SctEnd(dev),
         dev = device \/ \E v \in BOOLEAN : dev = [device EXCEPT !.valid = v]
  PROVE  SctOK' /\ DeviceOK' /\ Life'
<1>1. device.ended = 0 /\ device.open
  BY DEF Inv, Life, OneControlThread
<1>2. SctOK' /\ sct'.at = "none"
  BY DEF SctEnd, Inv, SctOK
<1>0. /\ dev \in [usb : BOOLEAN, open : BOOLEAN, ended : 0 .. 1, valid : BOOLEAN]
      /\ dev.usb = device.usb /\ dev.open = device.open /\ dev.ended = 0
  BY <1>1 DEF Inv, DeviceOK
<1>3. DeviceOK' /\ device'.usb = device.usb /\ device'.open /\ device'.ended = 1
  BY <1>0, <1>1 DEF SctEnd, DeviceOK
<1>4. Life'
  BY <1>1, <1>2, <1>3 DEF Inv, Life, OpenUntilJoin, OneControlThread
<1> QED
  BY <1>2, <1>3, <1>4

\* While it goes on, it changes m_interrupt_transfer_valid at most.
LEMMA GoingOnKeepsLife ==
  ASSUME Inv, sct.at # "none", SctOK', sct'.at # "none", UNCHANGED slave,
         device' = device \/ \E v \in BOOLEAN : device' = [device EXCEPT !.valid = v]
  PROVE  DeviceOK' /\ Life'
<1>1. DeviceOK'
  BY DEF Inv, DeviceOK
<1>2. device'.usb = device.usb /\ device'.open = device.open /\ device'.ended = device.ended
  BY DEF Inv, DeviceOK
<1> QED
  BY <1>1, <1>2 DEF Inv, Life, OpenUntilJoin, OneControlThread

\* It answers the PC, or ends because the handle is gone.
LEMMA AnswerKeepsInv ==
  ASSUME Inv, sct.at # "none", UNCHANGED slave, NEW dev, Answer(dev),
         dev = device \/ \E v \in BOOLEAN : dev = [device EXCEPT !.valid = v]
  PROVE  SctOK' /\ DeviceOK' /\ Life'
<1>1. CASE device.usb
  <2>1. sct' = [sct EXCEPT !.at = "status"] /\ device' = dev
    BY <1>1 DEF Answer
  <2>2. SctOK' /\ sct'.at # "none"
    BY <2>1 DEF Inv, SctOK
  <2> QED
    BY <2>1, <2>2, GoingOnKeepsLife
<1>2. CASE ~device.usb
  BY <1>2, EndKeepsInv DEF Answer
<1> QED
  BY <1>1, <1>2

LEMMA ControlKeepsInv == Inv /\ ControlThread => Inv'
<1> SUFFICES ASSUME Inv, ControlThread PROVE Inv'
  OBVIOUS
<1>1. CASE RecvFails
  <2>1. sct.at # "none" /\ SctEnd(device)
    BY <1>1 DEF RecvFails
  <2>2. SctOK' /\ DeviceOK' /\ Life'
    BY <1>1, <2>1, EndKeepsInv DEF RecvFails
  <2> QED
    BY <1>1, <2>2, Frame DEF RecvFails, Inv
<1>2. CASE SetConfiguration
  <2> DEFINE dev == [device EXCEPT !.valid = pc.request = "configure"]
  <2>1. sct.at # "none" /\ Answer(dev) /\ UNCHANGED slave
    BY <1>2 DEF SetConfiguration
  <2>2. \E v \in BOOLEAN : dev = [device EXCEPT !.valid = v]
    OBVIOUS
  <2> HIDE DEF dev
  <2>3. SctOK' /\ DeviceOK' /\ Life'
    BY <2>1, <2>2, AnswerKeepsInv
  <2> QED
    BY <1>2, <2>3, Frame DEF SetConfiguration, Inv
<1>3. CASE SetReport
  <2>1. SctOK' /\ sct.at # "none" /\ sct'.at # "none"
    BY <1>3 DEF SetReport, Inv, SctOK, Led
  <2> QED
    BY <1>3, <2>1, GoingOnKeepsLife, Frame DEF SetReport, Inv
<1>4. CASE DataStage
  <2>1. SctOK' /\ sct.at # "none" /\ sct'.at # "none"
    BY <1>4 DEF DataStage, Inv, SctOK, Led
  <2> QED
    BY <1>4, <2>1, GoingOnKeepsLife, Frame DEF DataStage, Inv
<1>5. CASE EnqueueLeds
  <2>1. sct.at # "none" /\ sct.led \in Led /\ Answer(device)
    BY <1>5 DEF EnqueueLeds, Inv, SctOK
  <2>2. QueuesOK'
    BY <1>5, <2>1, PutIsTyped, CapacitiesAreNat DEF EnqueueLeds, Put, Inv, QueuesOK
  <2>3. SctOK' /\ DeviceOK' /\ Life'
    BY <1>5, <2>1, AnswerKeepsInv DEF EnqueueLeds
  <2> QED
    BY <1>5, <2>2, <2>3, Frame DEF EnqueueLeds, Inv
<1>6. CASE EnqueueCommand
  <2>1. sct.at # "none" /\ Answer(device)
    BY <1>6 DEF EnqueueCommand
  <2>2. QueuesOK'
    BY <1>6, PutIsTyped, CapacitiesAreNat DEF EnqueueCommand, Put, Inv, QueuesOK
  <2>3. SctOK' /\ DeviceOK' /\ Life'
    BY <1>6, <2>1, AnswerKeepsInv DEF EnqueueCommand
  <2> QED
    BY <1>6, <2>2, <2>3, Frame DEF EnqueueCommand, Inv
<1>7. CASE Status
  <2>1. PcOK'
    BY <1>7 DEF Status, Inv, PcOK, Detached, KeyReport, Led
  <2>2. CASE device.usb
    <3>1. SctOK' /\ sct.at # "none" /\ sct'.at # "none"
      BY <1>7, <2>2 DEF Status, Inv, SctOK
    <3> QED
      BY <1>7, <2>1, <2>2, <3>1, GoingOnKeepsLife, Frame DEF Status, Inv
  <2>3. CASE ~device.usb
    <3>1. sct.at # "none" /\ SctEnd(device)
      BY <1>7, <2>3 DEF Status
    <3>2. SctOK' /\ DeviceOK' /\ Life'
      BY <1>7, <3>1, EndKeepsInv DEF Status
    <3> QED
      BY <1>7, <2>1, <3>2, Frame DEF Status, Inv
  <2> QED
    BY <2>2, <2>3
<1> QED
  BY <1>1, <1>2, <1>3, <1>4, <1>5, <1>6, <1>7 DEF ControlThread

\* The user and the PC.
LEMMA WorldKeepsInv == Inv /\ (World \/ Configure) => Inv'
<1> SUFFICES ASSUME Inv, World \/ Configure PROVE Inv'
  OBVIOUS
<1>1. CASE Plug
  <2>1. KeyboardOK'
    BY <1>1 DEF Plug, KeyboardOK, KeyReport, Led
  <2> QED
    BY <1>1, <2>1, Frame DEF Plug, Inv
<1>2. CASE Unplug
  <2>1. KeyboardOK'
    BY <1>2 DEF Unplug, KeyboardOK, KeyReport, Led
  <2>2. HostOK'
    BY <1>2 DEF Unplug, Inv, HostOK
  <2> QED
    BY <1>2, <2>1, <2>2, Frame DEF Unplug, Inv
<1>3. CASE PressOrRelease
  <2>1. KeyboardOK'
    BY <1>3 DEF PressOrRelease, Inv, KeyboardOK, KeyReport
  <2> QED
    BY <1>3, <2>1, Frame DEF PressOrRelease, Inv
<1>4. CASE Deconfigure
  <2>1. PcOK'
    BY <1>4 DEF Deconfigure, Inv, PcOK
  <2> QED
    BY <1>4, <2>1, Frame DEF Deconfigure, Inv
<1>5. CASE Configure
  <2>1. PcOK'
    BY <1>5 DEF Configure, Inv, PcOK
  <2> QED
    BY <1>5, <2>1, Frame DEF Configure, Inv
<1>6. ASSUME NEW r \in {"off", "on", "command"}, Request(r) PROVE Inv'
  <2>1. PcOK'
    BY <1>6 DEF Request, Inv, PcOK, Led
  <2> QED
    BY <1>6, <2>1, Frame DEF Request, Inv
<1> QED
  BY <1>1, <1>2, <1>3, <1>4, <1>5, <1>6 DEF World

\* Inv holds in every state.
LEMMA Invariant == Spec => []Inv
<1>1. Inv /\ UNCHANGED vars => Inv'
  BY Frame DEF Inv, vars
<1>2. Inv /\ [Next]_vars => Inv'
  BY <1>1, HostKeepsInv, MainKeepsInv, SlaveKeepsInv, ControlKeepsInv, WorldKeepsInv DEF Next
<1> QED
  BY <1>2, Starts, PTL DEF Spec

-----------------------------------------------------------------------------
\* The queues stay within their capacities, and the semaphore of the control
\* thread never counts more than one end.
THEOREM TypesAreCorrect == Spec => []TypeOK
<1>1. Inv => TypeOK
  BY DEF Inv, QueuesOK, KeyboardOK, HostOK, MainOK, SlaveOK, SctOK, DeviceOK, PcOK, TypeOK, Event
<1> QED
  BY <1>1, Invariant, PTL

\* connect() and disconnect() of UsbSlave.c: at any time one control thread
\* for the open device, whatever the PC requests and wherever the keyboard
\* is pulled out.
THEOREM ControlThreadsAreJoined == Spec => []OneControlThread
<1>1. Inv => OneControlThread
  BY DEF Inv, Life
<1> QED
  BY <1>1, Invariant, PTL

-----------------------------------------------------------------------------
(***************************************************************************)
(* What is under way between the threads.                                  *)
(***************************************************************************)
\* A connection as the event that makes it.
Connections == {"connect", "disconnect"}
Told(is) == IF is THEN "connect" ELSE "disconnect"

\* The host thread has sent its connect event and not yet the disconnect.
InSession == host.at \in {"read", "send", "leds", "disconnect"}

\* What the slave thread has received last of a kind when the main queue, the
\* main thread's entries to send and the slave queue are emptied.
Chain(events, sends, slaves, S, initial) ==
  Finally(events, S, Finally(sends, S, Finally(slaves, S, initial)))

\* No connect event comes after another without a disconnect in between.
Separate(queue, last) == Separated(queue, {"connect"}, {"disconnect"}, last = "connect")
Alternate(events, sends, slaves, last) ==
  /\ Separate(slaves, last)
  /\ Separate(sends, Finally(slaves, Connections, last))
  /\ Separate(events, Finally(sends, Connections, Finally(slaves, Connections, last)))

\* The slave thread gets to the connection of the host thread, without a
\* connect event for a device that is connected.
ConnectionArrives ==
  /\ Chain(mainQ, todo, slaveQ, Connections, Told(device.usb)) = Told(InSession)
  /\ Alternate(mainQ, todo, slaveQ, Told(device.usb))

\* The PC sees the device until disconnect() has called the driver; the host
\* thread knows when its keyboard is gone.
AttachedOK ==
  /\ pc.attached <=> device.usb \/ slave.at = "detach"
  /\ ~pc.attached => pc = Detached
  /\ host.at # "wait" /\ ~host.lost => keyboard.on

\* The control thread is where the PC's request has taken it.
RequestOK ==
  /\ pc.request = "configure" => ~pc.configured
  /\ pc.request \in Led \cup {"command", "deconfigure"} => pc.configured
  /\ pc.request \in Led => pc.request = pc.led
  /\ pc.attached =>
       /\ pc.request = "none" => sct.at \in {"recv", "none"}
       /\ sct.at = "leds" => pc.request \in Led
       /\ sct.at = "enqueue_leds" =>
            pc.request \in Led /\ (device.usb => pc.request = sct.led)
       /\ sct.at \in {"command", "enqueue_command"} => pc.request = "command"

\* The control thread runs while the slave thread has the device.  Without a
\* valid interrupt transfer the PC has not configured the device, or is about
\* to forget it.
ValidOK ==
  /\ device.usb => sct.at # "none"
  /\ pc.configured /\ ~device.valid =>
       slave.at = "detach" \/ (sct.at = "status" /\ pc.request = "deconfigure")
  /\ sct.at = "status" /\ pc.request = "configure" => device.valid \/ slave.at = "detach"
  /\ ~pc.configured => pc.key = "zero"

\* The report that the PC has seen or is about to see.
KeyEvents == KeyReport \cup {"disconnect"}
KeyValue ==
  IF slave.at = "transfer" THEN slave.report ELSE IF device.valid THEN pc.key ELSE "zero"

\* What is sent leaves the PC with keys only if the main thread has passed
\* some on, and it passes some on for good only if the keyboard's last
\* report had some.
KeysAreShown ==
  Chain(<<>>, todo, slaveQ, KeyEvents, KeyValue) = "keys" => main.shown # "zero"
KeysAreTaken ==
  Finally(mainQ, KeyEvents, main.shown) = "keys" =>
    host.at = "send" \/ (host.last = "keys" /\ host.at \notin {"wait", "connect"})
KeysArrive == KeysAreShown /\ KeysAreTaken

\* No connection event is under way and the host thread serves its keyboard.
Settled ==
  /\ \A queue \in {mainQ, todo, slaveQ} : Positions(queue, Connections) = {}
  /\ device.usb /\ InSession /\ ~host.lost

\* Then the LEDs that the PC set last are with the control thread, or in
\* hostQ, or on the keyboard.
LedsArrive ==
  Settled /\ pc.led # "unset" =>
    \/ pc.request \in Led /\ sct.at \in {"recv", "leds"}
    \/ sct.at = "enqueue_leds" /\ sct.led = pc.led
    \/ sct.at \notin {"leds", "enqueue_leds"} /\ Finally(hostQ, Led, keyboard.led) = pc.led

Path ==
  /\ ConnectionArrives /\ AttachedOK /\ RequestOK /\ ValidOK
  /\ KeysArrive /\ LedsArrive

-----------------------------------------------------------------------------
\* The last report of a macro is the zero report, no entry of it connects.
LEMMA MacroEndsInZero ==
  ASSUME NEW x
  PROVE  /\ MacroLen > 0 => Finally(Macro, KeyEvents, x) = "zero"
         /\ Positions(Macro, Connections) = {}
         /\ Finally(Macro, Connections, x) = x
<1>1. MacroLen \in Nat /\ Macro \in Seq(Event)
  BY ThreadsAssumption, MacroIsTyped
<1>2. /\ DOMAIN Macro = 1 .. MacroLen
      /\ \A i \in 1 .. MacroLen : Macro[i] = IF i < MacroLen THEN "keys" ELSE "zero"
  BY <1>1 DEF Macro
<1>3. Positions(Macro, Connections) = {}
  BY <1>2 DEF Positions, Connections
<1>4. ASSUME MacroLen > 0 PROVE Finally(Macro, KeyEvents, x) = "zero"
  <2>1. IsLast(Macro, KeyEvents, MacroLen)
    BY <1>1, <1>2, <1>4 DEF IsLast, Positions, KeyEvents, KeyReport
  <2>2. Macro[MacroLen] = "zero"
    BY <1>1, <1>2, <1>4
  <2> QED
    BY <1>1, <2>1, <2>2, LastIsReceived
<1> QED
  BY <1>3, <1>4, NothingIsReceived

\* One entry to send.
LEMMA OneEntry ==
  ASSUME NEW e \in Event, NEW S, NEW x
  PROVE  /\ <<e>> \in Seq(Event)
         /\ Finally(<<e>>, S, x) = IF e \in S THEN e ELSE x
         /\ Positions(<<e>>, S) = {} <=> e \notin S
<1> DEFINE empty == <<>>
           one == <<e>>
<1>1. empty \in Seq(Event) /\ one \in Seq(Event) /\ Append(empty, e) = one /\ Len(empty) + 1 = 1
  OBVIOUS
<1>2. Positions(empty, S) = {} /\ Finally(empty, S, x) = x
  BY EmptyQueue
<1> HIDE DEF empty, one
<1>3. Finally(Append(empty, e), S, x) = IF e \in S THEN e ELSE Finally(empty, S, x)
  <2>1. empty \in Seq(Event)
    BY <1>1
  <2> QED
    BY <2>1, FinallyAfterPut
<1>4. Positions(Append(empty, e), S) = IF e \in S THEN Positions(empty, S) \cup {Len(empty) + 1}
                                       ELSE Positions(empty, S)
  BY <1>1, PositionsAfterPut
<1>5. /\ one \in Seq(Event)
      /\ Finally(one, S, x) = IF e \in S THEN e ELSE x
      /\ Positions(one, S) = {} <=> e \notin S
  BY <1>1, <1>2, <1>3, <1>4
<1> QED
  BY <1>5 DEF one

\* The main thread takes an event and has yet to send what it makes of it:
\* connection events are passed on.
LEMMA TakingKeepsChain ==
  ASSUME NEW events \in Seq(Event \cup {"command"}), events # <<>>,
         NEW sends \in Seq(Event),
         \/ Head(events) # "command" /\ sends = <<Head(events)>>
         \/ Head(events) \notin Connections /\ sends = <<>>
         \/ Head(events) = "zero" /\ sends = Macro,
         NEW slaves, NEW x
  PROVE  Chain(Tail(events), sends, slaves, Connections, x) =
           Chain(events, <<>>, slaves, Connections, x)
<1> DEFINE S == Connections
           y == Finally(slaves, S, x)
<1>1. Head(events) \in Event \cup {"command"}
  BY HeadIsTyped
<1>2. Finally(<<>>, S, y) = y
  BY EmptyQueue
<1>3. Finally(events, S, y) = Finally(Tail(events), S, IF Head(events) \in S THEN Head(events) ELSE y)
  BY FinallyAfterGet
<1>4. Finally(sends, S, y) = IF Head(events) \in S THEN Head(events) ELSE y
  <2>1. CASE Head(events) # "command" /\ sends = <<Head(events)>>
    BY <1>1, <2>1, OneEntry
  <2>2. CASE Head(events) \notin Connections /\ sends = <<>>
    BY <1>2, <2>2
  <2>3. CASE Head(events) = "zero" /\ sends = Macro
    BY <2>3, MacroEndsInZero DEF Connections
  <2> QED
    BY <2>1, <2>2, <2>3
<1> QED
  BY <1>2, <1>3, <1>4 DEF Chain

\* The main thread sends, ...
LEMMA SendingKeepsChain ==
  ASSUME NEW events, NEW sends \in Seq(Event), sends # <<>>, NEW slaves \in Seq(Event),
         NEW S, NEW x
  PROVE  Chain(events, Tail(sends), Append(slaves, Head(sends)), S, x) =
           Chain(events, sends, slaves, S, x)
<1> DEFINE y == Finally(slaves, S, x)
<1>1. Head(sends) \in Event
  BY HeadIsTyped
<1>2. Finally(Append(slaves, Head(sends)), S, x) = IF Head(sends) \in S THEN Head(sends) ELSE y
  BY <1>1, FinallyAfterPut
<1>3. Finally(sends, S, y) = Finally(Tail(sends), S, IF Head(sends) \in S THEN Head(sends) ELSE y)
  BY FinallyAfterGet
<1> QED
  BY <1>2, <1>3 DEF Chain

\* ... the slave thread receives, ...
LEMMA ReceivingKeepsChain ==
  ASSUME NEW events, NEW sends, NEW slaves \in Seq(Event), slaves # <<>>, NEW S, NEW x
  PROVE  Chain(events, sends, slaves, S, x) =
           Chain(events, sends, Tail(slaves), S, IF Head(slaves) \in S THEN Head(slaves) ELSE x)
BY FinallyAfterGet DEF Chain

\* ... and the other threads put events into the main queue.
LEMMA EventJoinsChain ==
  ASSUME NEW events \in Seq(Event \cup {"command"}), NEW e \in Event \cup {"command"},
         NEW sends, NEW slaves, NEW S, NEW x
  PROVE  Chain(Append(events, e), sends, slaves, S, x) =
           IF e \in S THEN e ELSE Chain(events, sends, slaves, S, x)
BY FinallyAfterPut DEF Chain

-----------------------------------------------------------------------------
\* Taking, sending, receiving and putting keep the connect events separate.
LEMMA PuttingSeparates ==
  ASSUME NEW E, NEW queue \in Seq(E), NEW e \in E, NEW last \in Connections,
         Separate(queue, last),
         e = "connect" => Finally(queue, Connections, last) = "disconnect"
  PROVE  Separate(Append(queue, e), last)
<1>1. {"connect"} \cap {"disconnect"} = {} /\ (last = "connect") \in BOOLEAN
  OBVIOUS
<1>2. (IF last = "connect" THEN "connect" ELSE "disconnect") = last
  BY DEF Connections
<1>3. {"connect"} \cup {"disconnect"} = Connections
  BY DEF Connections
<1>4. e \in {"connect"} =>
        Finally(queue, {"connect"} \cup {"disconnect"},
                IF last = "connect" THEN "connect" ELSE "disconnect") \in {"disconnect"}
  BY <1>2, <1>3
<1> QED
  BY <1>1, <1>4, SeparatedAfterPut DEF Separate

LEMMA TakingSeparates ==
  ASSUME NEW E, NEW queue \in Seq(E), queue # <<>>, NEW last \in Connections,
         Separate(queue, last)
  PROVE  /\ Head(queue) = "connect" => last = "disconnect"
         /\ Separate(Tail(queue), IF Head(queue) \in Connections THEN Head(queue) ELSE last)
<1>1. {"connect"} \cap {"disconnect"} = {} /\ (last = "connect") \in BOOLEAN
  OBVIOUS
<1> DEFINE was == Head(queue) \in {"connect"} \/ (last = "connect" /\ Head(queue) \notin {"disconnect"})
<1>2. /\ Head(queue) \in {"connect"} => ~(last = "connect")
      /\ Separated(Tail(queue), {"connect"}, {"disconnect"}, was)
  BY <1>1, SeparatedAfterGet DEF Separate
<1>3. was = ((IF Head(queue) \in Connections THEN Head(queue) ELSE last) = "connect")
  BY DEF Connections
<1> HIDE DEF was
<1> QED
  BY <1>2, <1>3 DEF Separate, Connections

LEMMA AlternateAfterTake ==
  ASSUME NEW events \in Seq(Event \cup {"command"}), events # <<>>,
         NEW sends \in Seq(Event),
         \/ Head(events) # "command" /\ sends = <<Head(events)>>
         \/ Head(events) \notin Connections /\ sends = <<>>
         \/ Head(events) = "zero" /\ sends = Macro,
         NEW slaves \in Seq(Event), NEW last \in Connections,
         Alternate(events, <<>>, slaves, last)
  PROVE  Alternate(Tail(events), sends, slaves, last)
<1> DEFINE y == Finally(slaves, Connections, last)
           empty == <<>>
<1>1. Head(events) \in Event \cup {"command"}
  BY HeadIsTyped
<1>2. y \in Connections
  BY FinallyIsOfKind
<1>3. Finally(empty, Connections, y) = y /\ Separate(empty, y)
  BY EmptyQueue, SeparatedWhenEmpty DEF Separate
<1>4. Separate(slaves, last) /\ Separate(events, y)
  BY <1>3 DEF Alternate
<1>5. /\ Head(events) = "connect" => y = "disconnect"
      /\ Separate(Tail(events), IF Head(events) \in Connections THEN Head(events) ELSE y)
  BY <1>2, <1>4, TakingSeparates
<1>6. /\ Separate(sends, y)
      /\ Finally(sends, Connections, y) = IF Head(events) \in Connections THEN Head(events) ELSE y
  <2>1. CASE Head(events) # "command" /\ sends = <<Head(events)>>
    <3>1. empty \in Seq(Event) /\ Append(empty, Head(events)) = sends /\ Head(events) \in Event
      BY <1>1, <2>1
    <3> HIDE DEF empty, y
    <3>2. empty \in Seq(Event) /\ Head(events) \in Event
      BY <3>1
    <3>3. Separate(Append(empty, Head(events)), y)
      BY <1>2, <1>3, <1>5, <3>2, PuttingSeparates
    <3>4. Separate(sends, y)
      BY <3>1, <3>3
    <3> QED
      BY <2>1, <3>2, <3>4, OneEntry
  <2>2. CASE Head(events) \notin Connections /\ sends = <<>>
    BY <1>3, <2>2
  <2>3. CASE Head(events) = "zero" /\ sends = Macro
    <3>1. Positions(Macro, {"connect"}) = {} /\ Finally(Macro, Connections, y) = y
      BY MacroEndsInZero DEF Positions, Connections
    <3>2. Separate(Macro, y)
      BY <3>1 DEF Separate, Separated
    <3> QED
      BY <2>3, <3>1, <3>2 DEF Connections
  <2> QED
    BY <2>1, <2>2, <2>3
<1> QED
  BY <1>4, <1>5, <1>6 DEF Alternate

LEMMA AlternateAfterSend ==
  ASSUME NEW events, NEW sends \in Seq(Event), sends # <<>>, NEW slaves \in Seq(Event),
         NEW last \in Connections, Alternate(events, sends, slaves, last)
  PROVE  Alternate(events, Tail(sends), Append(slaves, Head(sends)), last)
<1> DEFINE y == Finally(slaves, Connections, last)
           h == Head(sends)
           z == IF h \in Connections THEN h ELSE y
<1>1. h \in Event
  BY HeadIsTyped
<1>2. y \in Connections
  BY FinallyIsOfKind
<1>3. (h = "connect" => y = "disconnect") /\ Separate(Tail(sends), z)
  BY <1>2, TakingSeparates DEF Alternate
<1>4. Separate(Append(slaves, h), last)
  BY <1>1, <1>3, PuttingSeparates DEF Alternate
<1>5. Finally(Append(slaves, h), Connections, last) = z
  BY <1>1, FinallyAfterPut
<1>6. Finally(sends, Connections, y) = Finally(Tail(sends), Connections, z)
  BY FinallyAfterGet
<1> QED
  BY <1>3, <1>4, <1>5, <1>6 DEF Alternate

LEMMA AlternateAfterReceive ==
  ASSUME NEW events, NEW sends, NEW slaves \in Seq(Event), slaves # <<>>,
         NEW last \in Connections, Alternate(events, sends, slaves, last)
  PROVE  /\ Head(slaves) = "connect" => last = "disconnect"
         /\ Alternate(events, sends, Tail(slaves),
                      IF Head(slaves) \in Connections THEN Head(slaves) ELSE last)
<1> DEFINE z == IF Head(slaves) \in Connections THEN Head(slaves) ELSE last
<1>1. (Head(slaves) = "connect" => last = "disconnect") /\ Separate(Tail(slaves), z)
  BY TakingSeparates DEF Alternate
<1>2. Finally(slaves, Connections, last) = Finally(Tail(slaves), Connections, z)
  BY FinallyAfterGet
<1> QED
  BY <1>1, <1>2 DEF Alternate

LEMMA AlternateAfterEvent ==
  ASSUME NEW events \in Seq(Event \cup {"command"}), NEW e \in Event \cup {"command"},
         NEW sends \in Seq(Event), NEW slaves \in Seq(Event), NEW last \in Connections,
         Alternate(events, sends, slaves, last),
         e = "connect" => Chain(events, sends, slaves, Connections, last) = "disconnect"
  PROVE  Alternate(Append(events, e), sends, slaves, last)
<1> DEFINE y == Finally(sends, Connections, Finally(slaves, Connections, last))
<1>1. y \in Connections
  BY FinallyIsOfKind
<1>2. Separate(events, y) /\ (e = "connect" => Finally(events, Connections, y) = "disconnect")
  BY DEF Alternate, Chain
<1>3. Separate(Append(events, e), y)
  BY <1>1, <1>2, PuttingSeparates
<1> QED
  BY <1>3 DEF Alternate

-----------------------------------------------------------------------------
\* Parts of Path whose variables a step leaves alone.
LEMMA PathFrame ==
  ASSUME Path
  PROVE  /\ UNCHANGED <<mainQ, todo, slaveQ>> /\ device'.usb = device.usb /\ InSession' = InSession
              => ConnectionArrives'
         /\ UNCHANGED <<pc, device, slave, host, keyboard>> => AttachedOK'
         /\ UNCHANGED <<pc, sct>> /\ device'.usb = device.usb => RequestOK'
         /\ UNCHANGED <<pc, device, slave, sct>> => ValidOK'
         /\ UNCHANGED <<mainQ, todo, slaveQ, main, slave, device, pc, host>> => KeysArrive'
         /\ UNCHANGED <<mainQ, todo, slaveQ, device, host, pc, sct, hostQ, keyboard>>
              => LedsArrive'
<1>1. UNCHANGED <<mainQ, todo, slaveQ>> /\ device'.usb = device.usb /\ InSession' = InSession
        => ConnectionArrives'
  BY DEF Path, ConnectionArrives
<1>2. UNCHANGED <<pc, device, slave, host, keyboard>> => AttachedOK'
  BY DEF Path, AttachedOK
<1>3. UNCHANGED <<pc, sct>> /\ device'.usb = device.usb => RequestOK'
  BY DEF Path, RequestOK
<1>4. UNCHANGED <<pc, device, slave, sct>> => ValidOK'
  BY DEF Path, ValidOK
<1>5. UNCHANGED <<mainQ, todo, slaveQ, main, slave, device, pc, host>> => KeysArrive'
  BY DEF Path, KeysArrive, KeysAreShown, KeysAreTaken, KeyValue
<1>6. UNCHANGED <<mainQ, todo, slaveQ, device, host, pc, sct, hostQ, keyboard>> => LedsArrive'
  BY DEF Path, LedsArrive, Settled, InSession
<1> QED
  BY <1>1, <1>2, <1>3, <1>4, <1>5, <1>6

\* What leaves the consumer with keys does so with any other value at the end.
LEMMA KeysFromQueue ==
  ASSUME NEW queue, NEW S, NEW a, NEW b, a = b \/ a # "keys", Finally(queue, S, a) = "keys"
  PROVE  Finally(queue, S, b) = "keys"
BY DEF Finally

LEMMA KeysFromQueues ==
  ASSUME NEW events, NEW sends, NEW slaves, NEW S, NEW a, NEW b, a = b \/ a # "keys",
         Chain(events, sends, slaves, S, a) = "keys"
  PROVE  Chain(events, sends, slaves, S, b) = "keys"
<1>1. CASE a = b
  BY <1>1
<1>2. CASE a # "keys"
  BY <1>2 DEF Chain, Finally
<1> QED
  BY <1>1, <1>2

\* A step that leaves the queues, the main thread and the host alone keeps the
\* keys' path if it does not bring keys to the end of it.
LEMMA KeysFrame ==
  ASSUME Path, UNCHANGED <<mainQ, todo, slaveQ, main, host>>,
         KeyValue' = KeyValue \/ KeyValue' # "keys"
  PROVE  KeysArrive'
<1> DEFINE a == KeyValue'
           b == KeyValue
<1>1. Chain(<<>>, todo, slaveQ, KeyEvents, a) = "keys" =>
        Chain(<<>>, todo, slaveQ, KeyEvents, b) = "keys"
  <2> HIDE DEF a, b
  <2>1. a = b \/ a # "keys"
    BY DEF a, b
  <2> QED
    BY <2>1, KeysFromQueues
<1> QED
  BY <1>1 DEF Path, KeysArrive, KeysAreShown, KeysAreTaken

\* A step that leaves the LEDs alone, wherever they are.
LEMMA LedsFrame ==
  ASSUME Path, Settled' => Settled /\ keyboard'.led = keyboard.led, UNCHANGED <<hostQ, sct>>,
         pc'.led = pc.led, pc'.request = pc.request
  PROVE  LedsArrive'
BY DEF Path, LedsArrive

\* The host thread.
LEMMA HostKeepsPath == Inv /\ Path /\ HostThread => Path'
<1> SUFFICES ASSUME Inv, Path, HostThread PROVE Path'
  OBVIOUS
<1>0. host.at \in {"wait", "connect", "read", "send", "leds", "disconnect"}
  BY DEF Inv, HostOK
<1>1. CASE HostAttach
  <2>1. host'.at = "connect" /\ host'.lost = FALSE /\ keyboard.on /\ host.at = "wait"
    BY <1>1 DEF HostAttach
  <2>2. InSession' = InSession /\ ~Settled'
    BY <2>1 DEF InSession, Settled
  <2>3. AttachedOK'
    BY <1>1, <2>1 DEF HostAttach, Path, AttachedOK
  <2>4. KeysArrive'
    BY <1>1, <2>1 DEF HostAttach, Path, KeysArrive, KeysAreShown, KeysAreTaken, KeyValue
  <2>5. LedsArrive'
    BY <2>2 DEF LedsArrive
  <2> QED
    BY <1>1, <2>2, <2>3, <2>4, <2>5, PathFrame DEF HostAttach, Path
<1>2. CASE HostSends
  <2>1. PICK entry \in Event :
          /\ mainQ' = Append(mainQ, entry)
          /\ UNCHANGED <<slaveQ, hostQ, keyboard, todo, main, slave, sct, device, pc, counts>>
          /\ \/ host.at = "connect" /\ entry = "connect" /\ host' = [host EXCEPT !.at = "read"]
             \/ /\ host.at = "send" /\ entry = host.last /\ entry \in KeyReport
                /\ host' = [host EXCEPT !.at = "leds"]
             \/ /\ host.at = "disconnect" /\ entry = "disconnect"
                /\ host' = [host EXCEPT !.at = "wait"]
    BY <1>2 DEF HostSends, HostSend, Put, Inv, HostOK, Event
  <2>2. host'.last = host.last /\ host'.lost = host.lost
    BY <2>1 DEF Inv, HostOK
  <2>3. \/ host.at = "connect" /\ entry = "connect" /\ host'.at = "read"
        \/ host.at = "send" /\ entry = host.last /\ entry \in KeyReport /\ host'.at = "leds"
        \/ host.at = "disconnect" /\ entry = "disconnect" /\ host'.at = "wait"
    BY <2>1 DEF Inv, HostOK
  <2>4. /\ mainQ \in Seq(Event \cup {"command"}) /\ entry \in Event \cup {"command"}
        /\ todo \in Seq(Event) /\ slaveQ \in Seq(Event)
    BY DEF Inv, QueuesOK
  <2>5. ConnectionArrives'
    <3> DEFINE last == Told(device.usb)
    <3>1. last \in Connections
      BY DEF Told, Connections
    <3>2. /\ Chain(mainQ, todo, slaveQ, Connections, last) = Told(InSession)
          /\ Alternate(mainQ, todo, slaveQ, last)
      BY DEF Path, ConnectionArrives
    <3> HIDE DEF last
    <3>3. entry = "connect" => Told(InSession) = "disconnect"
      BY <2>3 DEF InSession, Told, KeyReport
    <3>4. Alternate(Append(mainQ, entry), todo, slaveQ, last)
      BY <2>4, <3>1, <3>2, <3>3, AlternateAfterEvent
    <3>5. Chain(Append(mainQ, entry), todo, slaveQ, Connections, last) =
            IF entry \in Connections THEN entry ELSE Told(InSession)
      BY <2>4, <3>2, EventJoinsChain
    <3>6. (IF entry \in Connections THEN entry ELSE Told(InSession)) = Told(InSession)'
      BY <2>3 DEF InSession, Told, KeyReport, Connections
    <3> QED
      BY <2>1, <3>4, <3>5, <3>6 DEF ConnectionArrives, last
  <2>6. AttachedOK'
    BY <2>1, <2>2, <2>3 DEF Path, AttachedOK
  <2>7. KeysArrive'
    <3>1. KeysAreShown'
      BY <2>1 DEF Path, KeysArrive, KeysAreShown, KeyValue
    <3>2. Finally(Append(mainQ, entry), KeyEvents, main.shown) =
            IF entry \in KeyEvents THEN entry ELSE Finally(mainQ, KeyEvents, main.shown)
      BY <2>4, FinallyAfterPut
    <3>3. KeysAreTaken'
      BY <2>1, <2>2, <2>3, <3>2 DEF Path, KeysArrive, KeysAreTaken, KeyEvents, KeyReport
    <3> QED
      BY <3>1, <3>3 DEF KeysArrive
  <2>8. LedsArrive'
    <3>1. Positions(mainQ', Connections) = {} => entry \notin Connections
                                                 /\ Positions(mainQ, Connections) = {}
      BY <2>1, <2>4, NothingAfterPut
    <3>2. Settled' => Settled
      BY <2>1, <2>2, <2>3, <3>1 DEF Settled, InSession, Connections
    <3> QED
      BY <2>1, <3>2, LedsFrame
  <2> QED
    BY <2>1, <2>5, <2>6, <2>7, <2>8, PathFrame DEF Path
<1>3. CASE HostRead
  <2>1. /\ host.at = "read" /\ host'.lost = host.lost
        /\ \/ host'.at \in {"disconnect", "leds"} /\ host'.last = host.last
           \/ host'.at = "send"
    BY <1>3 DEF HostRead, Inv, HostOK
  <2>2. InSession' = InSession
    BY <2>1 DEF InSession
  <2>3. AttachedOK'
    BY <1>3, <2>1 DEF HostRead, Path, AttachedOK
  <2>4. KeysArrive'
    BY <1>3, <2>1 DEF HostRead, Path, KeysArrive, KeysAreShown, KeysAreTaken, KeyValue
  <2>5. LedsArrive'
    BY <1>3, <2>1, <2>2, LedsFrame DEF HostRead, Settled
  <2> QED
    BY <1>3, <2>2, <2>3, <2>4, <2>5, PathFrame DEF HostRead, Path
<1>4. CASE HostLeds
  <2>1. host.at = "leds" /\ host'.at = "read" /\ host'.lost = host.lost /\ host'.last = host.last
    BY <1>4 DEF HostLeds, Inv, HostOK
  <2>2. InSession' = InSession
    BY <2>1 DEF InSession
  <2>3. keyboard'.on = keyboard.on
    BY <1>4 DEF HostLeds, Inv, KeyboardOK
  <2>4. AttachedOK'
    BY <1>4, <2>1, <2>3 DEF HostLeds, Path, AttachedOK
  <2>5. KeysArrive'
    BY <1>4, <2>1 DEF HostLeds, Path, KeysArrive, KeysAreShown, KeysAreTaken, KeyValue
  <2>6. Settled' => Settled
    BY <1>4, <2>1, <2>2 DEF HostLeds, Settled
  <2>7. LedsArrive'
    <3>1. CASE hostQ = <<>>
      BY <1>4, <2>6, <3>1, LedsFrame DEF HostLeds
    <3>2. CASE hostQ # <<>>
      <4>1. hostQ \in Seq(Led) /\ Head(hostQ) \in Led
        BY <3>2, HeadIsTyped DEF Inv, QueuesOK
      <4>2. Finally(hostQ, Led, keyboard.led) = Finally(Tail(hostQ), Led, Head(hostQ))
        BY <3>2, <4>1, FinallyAfterGet
      <4>3. Settled' => keyboard'.led = Head(hostQ) /\ hostQ' = Tail(hostQ)
        BY <1>4, <2>1, <3>2 DEF HostLeds, Inv, KeyboardOK, Settled
      <4> QED
        BY <1>4, <2>6, <4>2, <4>3 DEF HostLeds, Path, LedsArrive
    <3> QED
      BY <3>1, <3>2
  <2> QED
    BY <1>4, <2>2, <2>4, <2>5, <2>7, PathFrame DEF HostLeds, Path
<1> QED
  BY <1>1, <1>2, <1>3, <1>4 DEF HostThread

\* What the main thread takes: it drops keys, or the zero report while the
\* last report it passed on had none or is given up.
LEMMA TakeKeepsKeys == Inv /\ Path /\ MainTake => KeysArrive'
<1> SUFFICES ASSUME Inv, Path, MainTake PROVE KeysArrive'
  OBVIOUS
<1> DEFINE e == Head(mainQ)
           v == KeyValue
           w == Finally(slaveQ, KeyEvents, v)
<1>1. /\ mainQ \in Seq(Event \cup {"command"}) /\ mainQ # <<>> /\ todo = <<>>
      /\ mainQ' = Tail(mainQ) /\ UNCHANGED <<slaveQ, host, slave, device, pc>>
      /\ IF e \in KeyReport THEN TakeReport(e) ELSE TakeEvent(e)
  BY DEF MainTake, Inv, QueuesOK, KeyReport
<1>2. e \in Event \cup {"command"}
  BY <1>1, HeadIsTyped
<1>3. v' = v /\ w' = w
  BY <1>1 DEF KeyValue
<1>4. w = "keys" => main.shown # "zero"
  BY <1>1, EmptyQueue DEF Path, KeysArrive, KeysAreShown, Chain
<1>5. Finally(mainQ, KeyEvents, main.shown) =
        Finally(Tail(mainQ), KeyEvents, IF e \in KeyEvents THEN e ELSE main.shown)
  BY <1>1, FinallyAfterGet
<1>6. MainOK
  BY DEF Inv
<1> HIDE DEF e, v, w
<1>7. SUFFICES /\ Finally(todo', KeyEvents, w) = "keys" => main'.shown # "zero"
               /\ \/ main'.shown = IF e \in KeyEvents THEN e ELSE main.shown
                  \/ main'.shown # "keys"
  <2>1. KeysAreShown'
    BY <1>1, <1>3, <1>7, EmptyQueue DEF KeysAreShown, Chain, v, w
  <2>2. KeysAreTaken'
    <3> DEFINE a == main'.shown
               b == IF e \in KeyEvents THEN e ELSE main.shown
    <3>1. Finally(Tail(mainQ), KeyEvents, a) = "keys" => Finally(Tail(mainQ), KeyEvents, b) = "keys"
      <4>1. a = b \/ a # "keys"
        BY <1>7
      <4> HIDE DEF a, b
      <4> QED
        BY <4>1, KeysFromQueue
    <3> QED
      BY <1>1, <1>5, <3>1 DEF Path, KeysArrive, KeysAreTaken
  <2> QED
    BY <2>1, <2>2 DEF KeysArrive
<1>8. CASE e \notin KeyReport
  <2>1. /\ e \in {"connect", "disconnect", "command"} /\ TakeEvent(e)
        /\ main \in [macro : BOOLEAN, takes : BOOLEAN, shown : KeyReport \cup {"stuck"}]
    BY <1>1, <1>2, <1>6, <1>8 DEF Event, MainOK
  <2>2. CASE e = "connect"
    <3>1. Finally(todo', KeyEvents, w) = w /\ main'.shown = main.shown
      BY <2>1, <2>2, OneEntry DEF TakeEvent, Event, KeyEvents, KeyReport
    <3> QED
      BY <1>4, <2>2, <3>1 DEF KeyEvents, KeyReport
  <2>3. CASE e = "disconnect"
    <3>1. Finally(todo', KeyEvents, w) = "disconnect" /\ main'.shown = "zero"
      BY <2>1, <2>3, OneEntry DEF TakeEvent, Event, KeyEvents
    <3> QED
      BY <3>1
  <2>4. CASE e = "command"
    <3>1. /\ todo' = <<>>
          /\ main' \in {main, [main EXCEPT !.takes = TRUE,
                                          !.shown = IF @ = "keys" THEN "stuck" ELSE @]}
      BY <2>1, <2>4 DEF TakeEvent
    <3>2. main'.shown = main.shown \/ main'.shown = "stuck"
      BY <2>1, <3>1
    <3>3. Finally(todo', KeyEvents, w) = w
      BY <3>1, EmptyQueue
    <3> QED
      BY <1>4, <2>4, <3>2, <3>3 DEF KeyEvents, KeyReport
  <2> QED
    BY <2>1, <2>2, <2>3, <2>4
<1>9. CASE e \in KeyReport
  <2>1. e \in KeyEvents /\ e \in Event /\ TakeReport(e)
    BY <1>1, <1>9 DEF KeyEvents, Event
  <2>2. CASE todo' = <<>> /\ main'.shown = main.shown /\ (e = "keys" \/ main.shown # "keys")
    BY <1>4, <2>1, <2>2, EmptyQueue
  <2>3. CASE todo' = <<e>> /\ main'.shown = e
    BY <2>1, <2>3, OneEntry
  <2>4. CASE todo' = Macro /\ MacroLen > 0 /\ e = "zero" /\ main'.shown = "zero"
    BY <2>4, MacroEndsInZero
  <2>5. \/ todo' = <<>> /\ main'.shown = main.shown /\ (e = "keys" \/ main.shown # "keys")
        \/ todo' = <<e>> /\ main'.shown = e
        \/ todo' = Macro /\ MacroLen > 0 /\ e = "zero" /\ main'.shown = "zero"
    BY <1>6, <2>1 DEF TakeReport, MainOK
  <2> QED
    BY <2>2, <2>3, <2>4, <2>5
<1> QED
  BY <1>8, <1>9

\* The main thread.
LEMMA MainKeepsPath == Inv /\ Path /\ (MainThread \/ CommandEnds) => Path'
<1>0. CASE Inv /\ Path /\ CommandEnds
  <2>1. main'.shown = main.shown
    BY <1>0 DEF CommandEnds, Inv, MainOK
  <2>2. KeysArrive'
    BY <1>0, <2>1
    DEF CommandEnds, Path, KeysArrive, KeysAreShown, KeysAreTaken, KeyValue
  <2> QED
    BY <1>0, <2>2, PathFrame DEF CommandEnds, Path, InSession
<1> SUFFICES ASSUME Inv, Path, MainThread PROVE Path'
  BY <1>0
<1>8. /\ mainQ \in Seq(Event \cup {"command"}) /\ todo \in Seq(Event) /\ slaveQ \in Seq(Event)
      /\ todo' \in Seq(Event)
  BY MainKeepsInv DEF Inv, QueuesOK
<1>1. UNCHANGED <<hostQ, keyboard, host, slave, sct, device, pc, counts>>
  BY DEF MainThread, MainTake, MainSend
<1> DEFINE last == Told(device.usb)
           v == KeyValue
<1>2. last \in Connections /\ last' = last /\ v' = v /\ InSession' = InSession
  BY <1>1 DEF Told, Connections, KeyValue, InSession
<1>3. Alternate(mainQ, todo, slaveQ, last)
  BY DEF Path, ConnectionArrives
<1> HIDE DEF last, v
<1>4. /\ Alternate(mainQ', todo', slaveQ', last)
      /\ Chain(mainQ', todo', slaveQ', Connections, last) =
           Chain(mainQ, todo, slaveQ, Connections, last)
      /\ /\ Positions(mainQ', Connections) = {} /\ Positions(todo', Connections) = {}
         /\ Positions(slaveQ', Connections) = {}
         => /\ Positions(mainQ, Connections) = {} /\ Positions(todo, Connections) = {}
            /\ Positions(slaveQ, Connections) = {}
  <2>1. CASE MainTake
    <3>1. /\ todo = <<>> /\ mainQ # <<>> /\ mainQ' = Tail(mainQ) /\ slaveQ' = slaveQ
          /\ \/ Head(mainQ) # "command" /\ todo' = <<Head(mainQ)>>
             \/ Head(mainQ) \notin Connections /\ todo' = <<>>
             \/ Head(mainQ) = "zero" /\ todo' = Macro
      BY <2>1 DEF MainTake, TakeReport, TakeEvent, Connections
    <3>2. Alternate(mainQ', todo', slaveQ', last)
      BY <1>8, <1>2, <1>3, <3>1, AlternateAfterTake
    <3>3. Chain(mainQ', todo', slaveQ', Connections, last) =
            Chain(mainQ, todo, slaveQ, Connections, last)
      BY <1>8, <3>1, TakingKeepsChain
    <3>4. Positions(todo, Connections) = {}
      BY <3>1, EmptyQueue
    <3>5. Positions(todo', Connections) = {} => Head(mainQ) \notin Connections
      <4>1. Head(mainQ) \in Event \cup {"command"}
        BY <1>8, <3>1, HeadIsTyped
      <4>2. SUFFICES ASSUME Head(mainQ) \in Connections PROVE Positions(todo', Connections) # {}
        OBVIOUS
      <4>3. Head(mainQ) \in Event /\ todo' = <<Head(mainQ)>>
        BY <3>1, <4>1, <4>2 DEF Connections
      <4> QED
        BY <4>2, <4>3, OneEntry
    <3>6. Positions(Tail(mainQ), Connections) = {} /\ Head(mainQ) \notin Connections
            => Positions(mainQ, Connections) = {}
      BY <1>8, <3>1, NothingAfterGet
    <3> QED
      BY <3>1, <3>2, <3>3, <3>4, <3>5, <3>6
  <2>2. CASE MainSend
    <3>1. /\ todo # <<>> /\ todo' = Tail(todo) /\ slaveQ' = Append(slaveQ, Head(todo))
          /\ mainQ' = mainQ
      BY <2>2 DEF MainSend, Put
    <3>2. Alternate(mainQ', todo', slaveQ', last)
      BY <1>8, <1>2, <1>3, <3>1, AlternateAfterSend
    <3>3. Chain(mainQ', todo', slaveQ', Connections, last) =
            Chain(mainQ, todo, slaveQ, Connections, last)
      BY <1>8, <3>1, SendingKeepsChain
    <3>4. Positions(todo', Connections) = {} /\ Positions(slaveQ', Connections) = {}
            => Positions(todo, Connections) = {} /\ Positions(slaveQ, Connections) = {}
      <4>1. Head(todo) \in Event
        BY <1>8, <3>1, HeadIsTyped
      <4>2. Positions(slaveQ', Connections) = {} =>
              Head(todo) \notin Connections /\ Positions(slaveQ, Connections) = {}
        BY <1>8, <3>1, <4>1, NothingAfterPut
      <4> QED
        BY <1>8, <3>1, <4>2, NothingAfterGet
    <3> QED
      BY <3>1, <3>2, <3>3, <3>4
  <2> QED
    BY <2>1, <2>2 DEF MainThread
<1>5. ConnectionArrives'
  BY <1>1, <1>2, <1>4 DEF Path, ConnectionArrives, last
<1>6. KeysArrive'
  <2>1. CASE MainTake
    BY <2>1, TakeKeepsKeys
  <2>2. CASE MainSend
    <3>1. /\ todo # <<>> /\ todo' = Tail(todo) /\ slaveQ' = Append(slaveQ, Head(todo))
          /\ UNCHANGED <<mainQ, main>>
      BY <2>2 DEF MainSend, Put
    <3>2. Chain(<<>>, todo', slaveQ', KeyEvents, v) = Chain(<<>>, todo, slaveQ, KeyEvents, v)
      BY <1>8, <3>1, SendingKeepsChain
    <3> QED
      BY <1>1, <1>2, <3>1, <3>2 DEF Path, KeysArrive, KeysAreShown, KeysAreTaken, v
  <2> QED
    BY <2>1, <2>2 DEF MainThread
<1>7. LedsArrive'
  BY <1>1, <1>2, <1>4, LedsFrame DEF Settled
<1> QED
  BY <1>1, <1>5, <1>6, <1>7, PathFrame DEF Path

\* The slave thread receives an event.
LEMMA TakeKeepsPath == Inv /\ Path /\ SlaveTake => Path'
<1> SUFFICES ASSUME Inv, Path, SlaveTake PROVE Path'
  OBVIOUS
<1>1. /\ slave.at = "dequeue" /\ slaveQ # <<>> /\ slaveQ' = Tail(slaveQ)
      /\ UNCHANGED <<mainQ, hostQ, keyboard, host, todo, main, counts>>
      /\ slaveQ \in Seq(Event) /\ Head(slaveQ) \in Event /\ slaveQ' \in Seq(Event)
  BY HeadIsTyped DEF SlaveTake, Inv, QueuesOK
<1> DEFINE head == Head(slaveQ)
           last == Told(device.usb)
<1>2. \/ head = "connect" /\ connect
      \/ head = "disconnect" /\ disconnect
      \/ head \in KeyReport /\ handle_input_report(head)
  BY <1>1 DEF SlaveTake, Event, KeyReport
<1>3. last \in Connections /\ Alternate(mainQ, todo, slaveQ, last)
  BY DEF Told, Connections, Path, ConnectionArrives
<1>4. /\ head = "connect" => last = "disconnect"
      /\ Alternate(mainQ, todo, slaveQ', IF head \in Connections THEN head ELSE last)
  BY <1>1, <1>3, AlternateAfterReceive
<1>5. \A events, S, x : Chain(events, todo, slaveQ, S, x) =
                          Chain(events, todo, slaveQ', S, IF head \in S THEN head ELSE x)
  BY <1>1, ReceivingKeepsChain
<1>6. head = "connect" => ~device.usb
  BY <1>4 DEF Told
<1>7. ~device.usb => ~pc.attached /\ ~pc.configured /\ pc.key = "zero" /\ pc.led = "unset"
                     /\ pc.request = "none" /\ ~device.open /\ sct.at = "none"
  BY <1>1 DEF Inv, Life, OpenUntilJoin, OneControlThread, Path, AttachedOK, Detached
<1>8. Positions(slaveQ', Connections) = {} /\ head \notin Connections
        => Positions(slaveQ, Connections) = {}
  BY <1>1, NothingAfterGet
<1> HIDE DEF head, last
<1>9. CASE head = "connect" /\ connect
  <2>1. /\ slave' = slave /\ pc' = [Detached EXCEPT !.attached = TRUE]
        /\ device'.usb = TRUE /\ device'.valid = device.valid /\ sct'.at = "recv"
    BY <1>6, <1>9 DEF connect, Inv, DeviceOK, SctOK
  <2>2. Told(device.usb)' = "connect"
    BY <2>1 DEF Told
  <2>3. ConnectionArrives'
    BY <1>1, <1>4, <1>5, <1>9, <2>2 DEF Path, ConnectionArrives, Connections, last, InSession
  <2>4. AttachedOK' /\ RequestOK' /\ ValidOK'
    BY <1>1, <2>1 DEF Path, AttachedOK, RequestOK, ValidOK, Detached, Led
  <2>5. KeyValue' # "keys"
    BY <1>1, <2>1 DEF KeyValue, Detached
  <2>6. LedsArrive'
    BY <2>1 DEF LedsArrive, Detached
  <2>7. KeysArrive'
    <3> DEFINE v == KeyValue
    <3>1. Chain(<<>>, todo, slaveQ, KeyEvents, v) = Chain(<<>>, todo, slaveQ', KeyEvents, v)
      BY <1>5, <1>9 DEF KeyEvents, KeyReport
    <3>2. Chain(<<>>, todo, slaveQ', KeyEvents, v') = "keys" =>
            Chain(<<>>, todo, slaveQ', KeyEvents, v) = "keys"
      BY <2>5, KeysFromQueues
    <3> QED
      BY <1>1, <3>1, <3>2 DEF Path, KeysArrive, KeysAreShown, KeysAreTaken
  <2> QED
    BY <2>3, <2>4, <2>6, <2>7 DEF Path
<1>10. CASE head = "disconnect" /\ disconnect
  <2>1. /\ device'.usb = FALSE /\ sct' = sct /\ pc' = pc
        /\ \/ device.usb /\ device'.valid = FALSE /\ slave'.at = "detach"
           \/ ~device.usb /\ device'.valid = device.valid /\ slave' = slave
    BY <1>10 DEF disconnect, Inv, DeviceOK, SlaveOK
  <2>2. Told(device.usb)' = "disconnect" /\ KeyValue' # "keys" /\ ~Settled'
    BY <1>1, <1>7, <2>1 DEF Told, KeyValue, Settled
  <2>3. ConnectionArrives'
    BY <1>1, <1>4, <1>5, <1>10, <2>2 DEF Path, ConnectionArrives, Connections, last, InSession
  <2>4. AttachedOK'
    BY <1>1, <1>7, <2>1 DEF Path, AttachedOK
  <2>5. RequestOK' /\ ValidOK'
    BY <1>1, <1>7, <2>1 DEF Path, RequestOK, ValidOK
  <2>6. LedsArrive'
    BY <2>2 DEF LedsArrive
  <2>7. KeysArrive'
    <3> DEFINE v == KeyValue
    <3>1. Chain(<<>>, todo, slaveQ, KeyEvents, v) =
            Chain(<<>>, todo, slaveQ', KeyEvents, "disconnect")
      BY <1>5, <1>10 DEF KeyEvents, KeyReport
    <3>2. Chain(<<>>, todo, slaveQ', KeyEvents, v') = "keys" =>
            Chain(<<>>, todo, slaveQ', KeyEvents, "disconnect") = "keys"
      BY <2>2, KeysFromQueues
    <3> QED
      BY <1>1, <3>1, <3>2 DEF Path, KeysArrive, KeysAreShown, KeysAreTaken
  <2> QED
    BY <2>3, <2>4, <2>5, <2>6, <2>7 DEF Path
<1>11. CASE head \in KeyReport /\ handle_input_report(head)
  <2>1. /\ UNCHANGED <<sct, device, pc>>
        /\ IF device.valid THEN slave'.at = "transfer" /\ slave'.report = head
                           ELSE slave' = slave
    BY <1>11 DEF handle_input_report
  <2>2. head \notin Connections /\ head \in KeyEvents
    BY <1>11 DEF Connections, KeyReport, KeyEvents
  <2>3. ConnectionArrives'
    BY <1>1, <1>4, <1>5, <2>1, <2>2 DEF Path, ConnectionArrives, last, InSession
  <2>4. AttachedOK'
    BY <1>1, <2>1 DEF Path, AttachedOK
  <2>5. RequestOK' /\ ValidOK'
    BY <1>1, <2>1 DEF Path, RequestOK, ValidOK
  <2>6. LedsArrive'
    BY <1>1, <1>8, <2>1, <2>2, LedsFrame DEF Settled, InSession
  <2>7. KeysArrive'
    <3> DEFINE v == KeyValue
    <3>1. Chain(<<>>, todo, slaveQ, KeyEvents, v) =
            Chain(<<>>, todo, slaveQ', KeyEvents, head)
      BY <1>5, <2>2
    <3>2. v' = head \/ v' # "keys"
      BY <1>1, <2>1 DEF KeyValue
    <3>3. Chain(<<>>, todo, slaveQ', KeyEvents, v') = "keys" =>
            Chain(<<>>, todo, slaveQ', KeyEvents, head) = "keys"
      BY <3>2, KeysFromQueues
    <3> QED
      BY <1>1, <3>1, <3>3 DEF Path, KeysArrive, KeysAreShown, KeysAreTaken
  <2> QED
    BY <2>3, <2>4, <2>5, <2>6, <2>7 DEF Path
<1> QED
  BY <1>2, <1>9, <1>10, <1>11

\* The slave thread transfers a report and disconnects.
LEMMA SlaveKeepsPath == Inv /\ Path /\ SlaveThread => Path'
<1> SUFFICES ASSUME Inv, Path, SlaveThread PROVE Path'
  OBVIOUS
<1>1. CASE Transfer
  <2>1. /\ slave.at = "transfer" /\ slave'.at = "dequeue" /\ pc.configured
        /\ pc'.key = slave.report /\ pc'.attached = pc.attached
        /\ pc'.configured = pc.configured /\ pc'.led = pc.led /\ pc'.request = pc.request
        /\ UNCHANGED <<mainQ, slaveQ, hostQ, keyboard, host, todo, main, sct, device, counts>>
    BY <1>1 DEF Transfer, Inv, PcOK, SlaveOK
  <2>2. pc.attached
    BY <2>1 DEF Path, AttachedOK, Detached
  <2>3. AttachedOK' /\ RequestOK' /\ ValidOK'
    BY <2>1, <2>2 DEF Path, AttachedOK, RequestOK, ValidOK
  <2>4. KeysArrive'
    BY <2>1, KeysFrame DEF KeyValue
  <2>5. LedsArrive'
    BY <2>1, LedsFrame DEF Settled, InSession
  <2>6. ConnectionArrives'
    BY <2>1, PathFrame DEF InSession
  <2> QED
    BY <2>3, <2>4, <2>5, <2>6 DEF Path
<1>2. CASE Detach
  <2>1. /\ slave.at = "detach" /\ slave'.at = "join" /\ pc' = Detached
        /\ UNCHANGED <<mainQ, slaveQ, hostQ, keyboard, host, todo, main, sct, device, counts>>
    BY <1>2 DEF Detach, Inv, SlaveOK
  <2>2. ~device.usb
    BY <2>1 DEF Inv, Life, OpenUntilJoin
  <2>3. AttachedOK' /\ RequestOK' /\ ValidOK'
    BY <2>1, <2>2 DEF Path, AttachedOK, RequestOK, ValidOK, Detached, Led
  <2>4. KeysArrive'
    BY <2>1, KeysFrame DEF KeyValue, Detached
  <2>5. LedsArrive'
    BY <2>1 DEF LedsArrive, Detached
  <2>6. ConnectionArrives'
    BY <2>1, PathFrame DEF InSession
  <2> QED
    BY <2>3, <2>4, <2>5, <2>6 DEF Path
<1>3. CASE Join
  <2>1. /\ slave.at = "join" /\ slave'.at = "dequeue"
        /\ device'.usb = device.usb /\ device'.valid = device.valid
        /\ UNCHANGED <<mainQ, slaveQ, hostQ, keyboard, host, todo, main, sct, pc, counts>>
    BY <1>3 DEF Join, Inv, SlaveOK, DeviceOK
  <2>2. AttachedOK' /\ RequestOK' /\ ValidOK'
    BY <2>1 DEF Path, AttachedOK, RequestOK, ValidOK
  <2>3. KeysArrive'
    BY <2>1, KeysFrame DEF KeyValue
  <2>4. LedsArrive'
    BY <2>1, LedsFrame DEF Settled, InSession
  <2>5. ConnectionArrives'
    BY <2>1, PathFrame DEF InSession
  <2> QED
    BY <2>2, <2>3, <2>4, <2>5 DEF Path
<1> QED
  BY <1>1, <1>2, <1>3, TakeKeepsPath DEF SlaveThread

\* The control thread.
LEMMA ControlKeepsPath == Inv /\ Path /\ ControlThread => Path'
<1> SUFFICES ASSUME Inv, Path, ControlThread PROVE Path'
  OBVIOUS
<1>1. CASE RecvFails
  <2>1. /\ ~pc.attached /\ sct'.at = "none"
        /\ device'.usb = device.usb /\ device'.valid = device.valid
        /\ UNCHANGED <<mainQ, slaveQ, hostQ, keyboard, host, todo, main, slave, pc, counts>>
    BY <1>1 DEF RecvFails, SctEnd, Inv, SctOK, DeviceOK
  <2>2. pc = Detached
    BY <2>1 DEF Path, AttachedOK
  <2>3. AttachedOK' /\ RequestOK' /\ ValidOK'
    BY <2>1, <2>2 DEF Path, AttachedOK, RequestOK, ValidOK, Detached, Led
  <2>4. KeysArrive'
    BY <2>1, KeysFrame DEF KeyValue
  <2>5. LedsArrive'
    BY <2>1, <2>2 DEF LedsArrive, Detached
  <2>6. ConnectionArrives'
    BY <2>1, PathFrame DEF InSession
  <2> QED
    BY <2>3, <2>4, <2>5, <2>6 DEF Path
<1>2. CASE SetConfiguration
  <2>1. /\ sct.at = "recv" /\ sct'.at = (IF device.usb THEN "status" ELSE "none")
        /\ pc.request \in {"configure", "deconfigure"}
        /\ device'.usb = device.usb /\ device'.valid = (pc.request = "configure")
        /\ UNCHANGED <<mainQ, slaveQ, hostQ, keyboard, host, todo, main, slave, pc, counts>>
    BY <1>2 DEF SetConfiguration, Answer, SctEnd, Inv, SctOK, DeviceOK
  <2>7. ~device.usb => slave.at = "detach" \/ ~pc.configured
    BY DEF Path, AttachedOK, Detached
  <2>8. AttachedOK' /\ RequestOK'
    BY <2>1 DEF Path, AttachedOK, RequestOK, Led
  <2>9. ValidOK'
    BY <2>1, <2>7 DEF Path, ValidOK
  <2>2. AttachedOK' /\ RequestOK' /\ ValidOK'
    BY <2>8, <2>9
  <2>3. pc.request = "configure" => pc.key = "zero"
    BY DEF Path, RequestOK, ValidOK
  <2>4. KeysArrive'
    BY <2>1, <2>3, KeysFrame DEF KeyValue
  <2>5. LedsArrive'
    BY <2>1 DEF Path, LedsArrive, Settled, InSession, Led
  <2>6. ConnectionArrives'
    BY <2>1, PathFrame DEF InSession
  <2> QED
    BY <2>2, <2>4, <2>5, <2>6 DEF Path
<1>3. CASE SetReport
  <2>1. /\ sct.at = "recv" /\ pc.request \in {"off", "on", "command"}
        /\ sct'.at = CASE pc.request = "command" ->
                           IF device.usb THEN "command" ELSE "enqueue_command"
                      [] pc.request # "command" -> IF device.usb THEN "leds" ELSE "enqueue_leds"
        /\ UNCHANGED <<mainQ, slaveQ, hostQ, keyboard, host, todo, main, slave, device, pc, counts>>
    BY <1>3 DEF SetReport, Inv, SctOK
  <2>2. RequestOK' /\ ValidOK'
    BY <2>1 DEF Path, AttachedOK, RequestOK, ValidOK, Detached, Led
  <2>3. LedsArrive'
    BY <2>1 DEF Path, LedsArrive, Settled, InSession, Led
  <2> QED
    BY <2>1, <2>2, <2>3, PathFrame DEF Path, InSession
<1>4. CASE DataStage
  <2>1. /\ \/ /\ sct.at = "leds" /\ sct'.at = "enqueue_leds"
              /\ pc.request \in Led => sct'.led = pc.request
           \/ sct.at = "command" /\ sct'.at = "enqueue_command"
        /\ UNCHANGED <<mainQ, slaveQ, hostQ, keyboard, host, todo, main, slave, device, pc, counts>>
    BY <1>4 DEF DataStage, Inv, SctOK, Led
  <2>2. RequestOK' /\ ValidOK'
    BY <2>1 DEF Path, AttachedOK, RequestOK, ValidOK, Led
  <2>3. pc.led # "unset" => pc.attached
    BY DEF Path, AttachedOK, Detached
  <2>4. LedsArrive'
    BY <2>1, <2>3 DEF Path, RequestOK, LedsArrive, Settled, InSession, Led
  <2> QED
    BY <2>1, <2>2, <2>4, PathFrame DEF Path, InSession
<1>5. CASE EnqueueLeds
  <2>1. /\ sct.at = "enqueue_leds" /\ sct'.at = (IF device.usb THEN "status" ELSE "none")
        /\ hostQ' = Append(hostQ, sct.led)
        /\ device'.usb = device.usb /\ device'.valid = device.valid
        /\ UNCHANGED <<mainQ, slaveQ, keyboard, host, todo, main, slave, pc, counts>>
    BY <1>5 DEF EnqueueLeds, Put, Answer, SctEnd, Inv, SctOK, DeviceOK
  <2>2. pc.attached => pc.request \in Led
    BY <2>1 DEF Path, RequestOK
  <2>3. RequestOK' /\ ValidOK'
    BY <2>1, <2>2 DEF Path, AttachedOK, RequestOK, ValidOK, Led, Detached
  <2>4. Finally(hostQ', Led, keyboard.led) = sct.led
    <3>1. hostQ \in Seq(Led) /\ sct.led \in Led
      BY DEF Inv, QueuesOK, SctOK
    <3> QED
      BY <2>1, <3>1, FinallyAfterPut
  <2>5. LedsArrive'
    BY <2>1, <2>4 DEF Path, LedsArrive, Settled, InSession, Led
  <2>6. KeysArrive'
    BY <2>1, KeysFrame DEF KeyValue
  <2>7. AttachedOK' /\ ConnectionArrives'
    BY <2>1, PathFrame DEF Path, AttachedOK, InSession
  <2> QED
    BY <2>3, <2>5, <2>6, <2>7 DEF Path
<1>6. CASE EnqueueCommand
  <2>1. /\ sct.at = "enqueue_command" /\ sct'.at = (IF device.usb THEN "status" ELSE "none")
        /\ mainQ' = Append(mainQ, "command")
        /\ device'.usb = device.usb /\ device'.valid = device.valid
        /\ UNCHANGED <<slaveQ, hostQ, keyboard, host, todo, main, slave, pc, counts>>
    BY <1>6 DEF EnqueueCommand, Put, Answer, SctEnd, Inv, SctOK, DeviceOK
  <2>2. pc.attached => pc.request = "command"
    BY <2>1 DEF Path, RequestOK
  <2>3. RequestOK' /\ ValidOK'
    BY <2>1, <2>2 DEF Path, AttachedOK, RequestOK, ValidOK, Led, Detached
  <2>4. /\ mainQ \in Seq(Event \cup {"command"}) /\ "command" \in Event \cup {"command"}
        /\ todo \in Seq(Event) /\ slaveQ \in Seq(Event)
        /\ "command" \notin Connections /\ "command" \notin KeyEvents
    BY DEF Inv, QueuesOK, Connections, KeyEvents, KeyReport
  <2>5. \A S, x : "command" \notin S =>
          Chain(Append(mainQ, "command"), todo, slaveQ, S, x) = Chain(mainQ, todo, slaveQ, S, x)
    BY <2>4, EventJoinsChain
  <2>6. ConnectionArrives'
    <3> DEFINE last == Told(device.usb)
    <3>1. last \in Connections /\ Alternate(mainQ, todo, slaveQ, last)
      BY DEF Told, Connections, Path, ConnectionArrives
    <3> HIDE DEF last
    <3>2. Alternate(Append(mainQ, "command"), todo, slaveQ, last)
      BY <2>4, <3>1, AlternateAfterEvent
    <3> QED
      BY <2>1, <2>4, <2>5, <3>2 DEF Path, ConnectionArrives, InSession, last
  <2>7. KeysArrive'
    <3>1. Finally(Append(mainQ, "command"), KeyEvents, main.shown) =
            Finally(mainQ, KeyEvents, main.shown)
      BY <2>4, FinallyAfterPut
    <3> QED
      BY <2>1, <3>1 DEF Path, KeysArrive, KeysAreShown, KeysAreTaken, KeyValue
  <2>9. AttachedOK'
    BY <2>1 DEF Path, AttachedOK
  <2>8. LedsArrive'
    <3>1. Positions(mainQ', Connections) = {} => Positions(mainQ, Connections) = {}
      BY <2>1, <2>4, NothingAfterPut
    <3> QED
      BY <2>1, <3>1 DEF Path, LedsArrive, Settled, InSession, Led
  <2> QED
    BY <2>3, <2>6, <2>7, <2>8, <2>9 DEF Path
<1>7. CASE Status
  <2>1. /\ sct.at = "status" /\ sct'.at = IF device.usb THEN "recv" ELSE "none"
        /\ device'.usb = device.usb /\ device'.valid = device.valid
        /\ UNCHANGED <<mainQ, slaveQ, hostQ, keyboard, host, todo, main, slave, counts>>
        /\ ~pc.attached => pc' = pc
        /\ pc.attached =>
             CASE pc.request = "configure" -> pc' = [pc EXCEPT !.configured = TRUE, !.request = "none"]
               [] pc.request = "deconfigure" -> pc' = [Detached EXCEPT !.attached = TRUE]
               [] OTHER -> pc' = [pc EXCEPT !.request = "none"]
    BY <1>7 DEF Status, SctEnd, Inv, SctOK, DeviceOK
  <2>2. CASE ~pc.attached
    <3>1. pc = Detached /\ pc' = pc
      BY <2>1, <2>2 DEF Path, AttachedOK
    <3>2. AttachedOK' /\ RequestOK' /\ ValidOK'
      BY <2>1, <3>1 DEF Path, AttachedOK, RequestOK, ValidOK, Detached, Led
    <3>3. KeysArrive'
      BY <2>1, <3>1, KeysFrame DEF KeyValue
    <3>4. LedsArrive'
      BY <3>1 DEF LedsArrive, Detached
    <3> QED
      BY <2>1, <3>2, <3>3, <3>4, PathFrame DEF Path, InSession
  <2>3. CASE pc.attached
    <3>1. /\ pc'.attached = TRUE /\ pc'.request = "none"
          /\ \/ /\ pc.request = "deconfigure" /\ pc'.key = "zero" /\ pc'.led = "unset"
                /\ pc'.configured = FALSE
             \/ /\ pc.request # "deconfigure" /\ pc'.key = pc.key /\ pc'.led = pc.led
                /\ pc'.configured = (pc.configured \/ pc.request = "configure")
      BY <2>1, <2>3 DEF Inv, PcOK, Detached
    <3>2. AttachedOK'
      BY <2>1, <2>3, <3>1 DEF Path, AttachedOK
    <3>3. RequestOK'
      BY <2>1, <3>1 DEF RequestOK, Led
    <3>4. ValidOK'
      BY <2>1, <2>3, <3>1 DEF Path, ValidOK
    <3>5. KeysArrive'
      BY <2>1, <3>1, KeysFrame DEF KeyValue
    <3>6. LedsArrive'
      BY <2>1, <3>1 DEF Path, LedsArrive, Settled, InSession, Led
    <3> QED
      BY <2>1, <3>2, <3>3, <3>4, <3>5, <3>6, PathFrame DEF Path, InSession
  <2> QED
    BY <2>2, <2>3
<1> QED
  BY <1>1, <1>2, <1>3, <1>4, <1>5, <1>6, <1>7 DEF ControlThread

\* The user and the PC.
LEMMA WorldKeepsPath == Inv /\ Path /\ (World \/ Configure) => Path'
<1> SUFFICES ASSUME Inv, Path, World \/ Configure PROVE Path'
  OBVIOUS
<1>1. CASE Plug
  <2>1. /\ ~keyboard.on /\ keyboard'.on = TRUE
        /\ UNCHANGED <<mainQ, slaveQ, hostQ, host, todo, main, slave, sct, device, pc, counts>>
    BY <1>1 DEF Plug
  <2>2. AttachedOK'
    BY <2>1 DEF Path, AttachedOK
  <2>3. ~Settled'
    BY <2>1 DEF Path, AttachedOK, Settled, InSession
  <2>4. LedsArrive'
    BY <2>3 DEF LedsArrive
  <2> QED
    BY <2>1, <2>2, <2>4, PathFrame DEF Path, InSession
<1>2. CASE Unplug
  <2>1. /\ host'.at = host.at /\ host'.last = host.last /\ host'.lost = (host.at # "wait")
        /\ UNCHANGED <<mainQ, slaveQ, hostQ, todo, main, slave, sct, device, pc>>
    BY <1>2 DEF Unplug, Inv, HostOK
  <2>2. AttachedOK'
    BY <2>1 DEF Path, AttachedOK
  <2>3. LedsArrive'
    BY <2>1 DEF LedsArrive, Settled, InSession
  <2>4. KeysArrive'
    BY <2>1 DEF Path, KeysArrive, KeysAreShown, KeysAreTaken, KeyValue
  <2> QED
    BY <2>1, <2>2, <2>3, <2>4, PathFrame DEF Path, InSession
<1>3. CASE PressOrRelease
  <2>1. /\ keyboard'.on = keyboard.on /\ keyboard'.led = keyboard.led
        /\ UNCHANGED <<mainQ, slaveQ, hostQ, host, todo, main, slave, sct, device, pc>>
    BY <1>3 DEF PressOrRelease, Inv, KeyboardOK
  <2>2. AttachedOK'
    BY <2>1 DEF Path, AttachedOK
  <2>3. LedsArrive'
    BY <2>1, LedsFrame DEF Settled, InSession
  <2> QED
    BY <2>1, <2>2, <2>3, PathFrame DEF Path, InSession
<1>4. ASSUME NEW r \in Led \cup {"command", "configure", "deconfigure"}, pc.attached,
             r = "configure" <=> ~pc.configured, pc.request = "none",
             pc' = [pc EXCEPT !.request = r, !.led = IF r \in Led THEN r ELSE @],
             UNCHANGED <<mainQ, slaveQ, hostQ, keyboard, host, todo, main, slave, sct, device>>
      PROVE  Path'
  <2>1. /\ pc'.attached = pc.attached /\ pc'.configured = pc.configured /\ pc'.key = pc.key
        /\ pc'.request = r /\ pc'.led = IF r \in Led THEN r ELSE pc.led
    BY <1>4 DEF Inv, PcOK
  <2>2. sct.at \in {"recv", "none"}
    BY <1>4 DEF Path, RequestOK
  <2>3. AttachedOK' /\ RequestOK' /\ ValidOK'
    BY <1>4, <2>1, <2>2 DEF Path, AttachedOK, RequestOK, ValidOK, Led
  <2>4. KeysArrive'
    BY <1>4, <2>1, KeysFrame DEF KeyValue
  <2>5. Settled' => sct.at = "recv"
    BY <1>4, <2>2 DEF Settled, Path, ValidOK
  <2>6. LedsArrive'
    BY <1>4, <2>1, <2>5 DEF Path, LedsArrive, Settled, InSession, Led
  <2> QED
    BY <1>4, <2>3, <2>4, <2>6, PathFrame DEF Path, InSession
<1>5. CASE Configure
  <2>1. pc' = [pc EXCEPT !.request = "configure", !.led = @]
    BY <1>5 DEF Configure, Inv, PcOK
  <2> QED
    BY <1>4, <1>5, <2>1 DEF Configure, Led
<1>6. pc.configured => pc.attached
  BY DEF Path, AttachedOK, Detached
<1>7. CASE Deconfigure
  <2> DEFINE r == "deconfigure"
  <2>1. r \in Led \cup {"command", "configure", "deconfigure"} /\ r # "configure" /\ r \notin Led
    BY DEF Led
  <2>2. pc' = [pc EXCEPT !.request = r, !.led = IF r \in Led THEN r ELSE @]
    BY <1>7, <2>1 DEF Deconfigure, Inv, PcOK
  <2>3. /\ pc.attached /\ pc.configured /\ pc.request = "none"
        /\ UNCHANGED <<mainQ, slaveQ, hostQ, keyboard, host, todo, main, slave, sct, device>>
    BY <1>6, <1>7 DEF Deconfigure
  <2> HIDE DEF r
  <2> QED
    BY <1>4, <2>1, <2>2, <2>3
<1>8. ASSUME NEW r \in {"off", "on", "command"}, Request(r) PROVE Path'
  <2>1. pc' = [pc EXCEPT !.request = r, !.led = IF r \in Led THEN r ELSE @]
    BY <1>8 DEF Request, Led
  <2> QED
    BY <1>4, <1>6, <1>8, <2>1 DEF Request, Led
<1> QED
  BY <1>1, <1>2, <1>3, <1>5, <1>7, <1>8 DEF World

\* Nothing is under way at first.
LEMMA PathStarts == Init => Path
<1> SUFFICES ASSUME Init PROVE Path
  OBVIOUS
<1>1. mainQ = <<>> /\ todo = <<>> /\ slaveQ = <<>> /\ Told(device.usb) = "disconnect"
  BY DEF Init, Told
<1>2. ConnectionArrives
  <2>1. \A S, x : Finally(<<>>, S, x) = x
    BY EmptyQueue
  <2>2. \A x : Separate(<<>>, x)
    BY SeparatedWhenEmpty DEF Separate
  <2> QED
    BY <1>1, <2>1, <2>2 DEF Init, ConnectionArrives, Chain, Alternate, Told, InSession
<1>3. KeysArrive
  <2>1. KeyValue = "zero"
    BY DEF Init, KeyValue, Detached
  <2> QED
    BY <1>1, <2>1, EmptyQueue DEF Init, KeysArrive, KeysAreShown, KeysAreTaken, Chain
<1>4. AttachedOK /\ RequestOK /\ ValidOK /\ LedsArrive
  BY DEF Init, AttachedOK, RequestOK, ValidOK, LedsArrive, Settled, Detached, Led
<1> QED
  BY <1>2, <1>3, <1>4 DEF Path

\* Path holds in every state.
LEMMA PathInvariant == Spec => [](Inv /\ Path)
<1>1. Inv /\ Path /\ UNCHANGED vars => Path'
  BY PathFrame DEF vars, Path, InSession
<1>2. Inv /\ Path /\ [Next]_vars => Path'
  BY <1>1, HostKeepsPath, MainKeepsPath, SlaveKeepsPath, ControlKeepsPath, WorldKeepsPath
  DEF Next
<1>3. Spec => []Inv
  BY Invariant
<1> QED
  BY <1>2, <1>3, PathStarts, PTL DEF Spec

-----------------------------------------------------------------------------
\* Nothing is under way: every queue hands on what its producer holds.
LEMMA QuietChain ==
  ASSUME Quiet, NEW S, NEW x
  PROVE  Chain(mainQ, todo, slaveQ, S, x) = x
BY EmptyQueue DEF Quiet, Chain

\* connect and disconnect events get through the main thread and both queues
\* in order, none is lost and none finds the device in the wrong state: once
\* nothing is under way the PC sees a device exactly when there is a keyboard.
THEOREM ConnectionGetsThrough == Spec => []ConnectionIsPassedOn
<1>1. Inv /\ Path => ConnectionIsPassedOn
  <2> SUFFICES ASSUME Inv, Path, Quiet PROVE pc.attached = keyboard.on
    BY DEF ConnectionIsPassedOn
  <2>1. Told(device.usb) = Told(InSession)
    BY QuietChain DEF Path, ConnectionArrives
  <2>2. device.usb <=> InSession
    BY <2>1 DEF Told
  <2>3. (pc.attached <=> InSession) /\ (keyboard.on <=> InSession)
    BY <2>2 DEF Quiet, Path, AttachedOK, InSession
  <2>4. pc.attached \in BOOLEAN /\ keyboard.on \in BOOLEAN
    BY DEF Inv, PcOK, KeyboardOK
  <2> QED
    BY <2>3, <2>4
<1> QED
  BY <1>1, PathInvariant, PTL

\* usb_slave_thread() drops reports while the interrupt transfer is not valid
\* and waits with others for the PC, the main thread replaces a zero report by
\* a macro and keeps others for a command: none of it leaves the PC with keys
\* that the user has let go, but for those it saw held when a command began to
\* take the reports, until the next report is passed on.
THEOREM KeysAreReleased == Spec => []NoStuckKey
<1>1. Inv /\ Path => NoStuckKey
  <2> SUFFICES ASSUME Inv, Path, Quiet, main.shown # "stuck",
                      host.at = "wait" \/ host.last \in {"zero", "none"}
               PROVE  pc.key = "zero"
    BY DEF NoStuckKey
  <2>1. KeyValue # "keys"
    <3>1. main.shown # "keys"
      BY EmptyQueue DEF Quiet, Path, KeysArrive, KeysAreTaken
    <3>2. main.shown = "zero"
      BY <3>1 DEF Inv, MainOK, KeyReport
    <3> QED
      BY <3>2, EmptyQueue DEF Quiet, Path, KeysArrive, KeysAreShown, Chain
  <2>2. slave.at = "dequeue" /\ sct.at \in {"none", "recv"}
    BY DEF Quiet
  <2>3. device.valid => pc.key # "keys"
    BY <2>1, <2>2 DEF KeyValue
  <2>4. ~device.valid => pc.key = "zero"
    BY <2>2 DEF Path, ValidOK
  <2> QED
    BY <2>3, <2>4 DEF Inv, PcOK, KeyReport
<1> QED
  BY <1>1, PathInvariant, PTL

\* LED settings wait in g_usb_host_queue for the next report of the keyboard;
\* those of an earlier connection never end up as the LEDs of this one.
THEOREM LedsAreThePcs == Spec => []LedsFollowPc
<1>1. Inv /\ Path => LedsFollowPc
  <2> SUFFICES ASSUME Inv, Path, Quiet, pc.led # "unset" PROVE keyboard.led = pc.led
    BY DEF LedsFollowPc
  <2>1. pc.attached
    BY DEF Path, AttachedOK, Detached
  <2>2. device.usb
    BY <2>1 DEF Quiet, Path, AttachedOK
  <2>3. Told(device.usb) = Told(InSession)
    BY QuietChain DEF Path, ConnectionArrives
  <2>4. InSession
    BY <2>2, <2>3 DEF Told
  <2>5. Settled
    BY <2>2, <2>4, EmptyQueue DEF Quiet, Settled, InSession
  <2>6. Finally(hostQ, Led, keyboard.led) = pc.led
    BY <2>5 DEF Quiet, Path, LedsArrive, Led
  <2> QED
    BY <2>6, EmptyQueue DEF Quiet
<1> QED
  BY <1>1, PathInvariant, PTL

-----------------------------------------------------------------------------
(***************************************************************************)
(* The control pipe.                                                       *)
(***************************************************************************)
\* Each step of the slave thread is one of the control pipe, or changes
\* nothing of it: the device is closed after its control thread has ended.
LEMMA SlaveServesPipe == Inv /\ Path /\ SlaveThread => [Pipe!Next]_(Pipe!vars)
<1> SUFFICES ASSUME Inv, Path, SlaveThread PROVE [Pipe!Next]_(Pipe!vars)
  OBVIOUS
<1> USE DEF Pipe!Next, Pipe!vars
<1>0. SlaveOK /\ SctOK /\ DeviceOK /\ PcOK /\ OpenUntilJoin /\ OneControlThread /\ AttachedOK
  BY DEF Inv, Life, Path
<1>1. CASE SlaveTake
  <2>1. CASE connect /\ ~device.usb
    <3>1. device'.usb = TRUE /\ pc'.request = "none" /\ sct'.at = "recv" /\ slave' = slave
      BY <1>0, <2>1 DEF connect, SctOK, DeviceOK, PcOK, Detached
    <3>2. slave.at = "dequeue" /\ sct.at = "none"
      BY <1>0, <1>1, <2>1 DEF SlaveTake, OpenUntilJoin, OneControlThread
    <3>3. pc.request = "none"
      BY <1>0, <2>1, <3>2 DEF AttachedOK, Detached
    <3>4. Pipe!Connect
      BY <2>1, <3>1, <3>2, <3>3 DEF Pipe!Connect
    <3> QED
      BY <3>4
  <2>2. CASE disconnect /\ device.usb
    <3>1. device'.usb = FALSE /\ slave'.at = "detach" /\ sct' = sct /\ pc' = pc
      BY <1>0, <2>2 DEF disconnect, SlaveOK, DeviceOK
    <3>2. Pipe!Disconnect
      BY <2>2, <3>1 DEF Pipe!Disconnect
    <3> QED
      BY <3>2
  <2>3. CASE UNCHANGED <<device, sct, pc>> /\ slave'.at \notin {"detach", "join"}
    <3>1. slave.at = "dequeue"
      BY <1>1 DEF SlaveTake
    <3> QED
      BY <2>3, <3>1
  <2>4. \/ connect /\ ~device.usb
        \/ disconnect /\ device.usb
        \/ UNCHANGED <<device, sct, pc>> /\ slave'.at \notin {"detach", "join"}
    BY <1>0, <1>1 DEF SlaveTake, connect, disconnect, handle_input_report, SlaveOK
  <2> QED
    BY <2>1, <2>2, <2>3, <2>4
<1>2. CASE Transfer
  <2>1. /\ slave.at = "transfer" /\ slave'.at = "dequeue" /\ pc'.request = pc.request
        /\ UNCHANGED <<device, sct>>
    BY <1>0, <1>2 DEF Transfer, SlaveOK, PcOK
  <2> QED
    BY <2>1
<1>3. CASE Detach
  <2>1. /\ slave.at = "detach" /\ slave'.at = "join" /\ pc'.request = "none"
        /\ UNCHANGED <<device, sct>>
    BY <1>0, <1>3 DEF Detach, SlaveOK, Detached
  <2>2. ~device.usb
    BY <1>0, <2>1 DEF OpenUntilJoin
  <2>3. Pipe!Detach
    BY <2>1, <2>2 DEF Pipe!Detach
  <2> QED
    BY <2>3
<1>4. CASE Join
  <2>1. /\ slave.at = "join" /\ slave'.at = "dequeue" /\ device.ended > 0
        /\ device'.usb = device.usb /\ UNCHANGED <<sct, pc>>
    BY <1>0, <1>4 DEF Join, SlaveOK, DeviceOK
  <2>2. ~device.usb /\ sct.at = "none"
    BY <1>0, <2>1 DEF OpenUntilJoin, OneControlThread
  <2>3. Pipe!Close
    BY <2>1, <2>2 DEF Pipe!Close
  <2> QED
    BY <2>3
<1> QED
  BY <1>1, <1>2, <1>3, <1>4 DEF SlaveThread

\* So is each step of the control thread: it answers what it was asked in
\* this connection.
LEMMA ControlServesPipe == Inv /\ Path /\ ControlThread => [Pipe!Next]_(Pipe!vars)
<1> SUFFICES ASSUME Inv, Path, ControlThread PROVE [Pipe!Next]_(Pipe!vars)
  OBVIOUS
<1> USE DEF Pipe!Next, Pipe!vars
<1>0. /\ SlaveOK /\ SctOK /\ DeviceOK /\ PcOK /\ OpenUntilJoin /\ OneControlThread
      /\ AttachedOK /\ RequestOK
  BY DEF Inv, Life, Path
<1>1. CASE RecvFails
  <2>1. /\ sct.at = "recv" /\ sct'.at = "none" /\ ~pc.attached /\ device'.usb = device.usb
        /\ UNCHANGED <<slave, pc>>
    BY <1>0, <1>1 DEF RecvFails, SctEnd, SctOK, DeviceOK
  <2>2. Pipe!End
    BY <1>0, <2>1 DEF Pipe!End, Pipe!Attached, AttachedOK
  <2> QED
    BY <2>2
<1>5. pc.request # "none" => device.usb \/ slave.at = "detach"
  BY <1>0 DEF AttachedOK, Detached
<1>2. CASE SetConfiguration
  <2>1. /\ sct.at = "recv" /\ sct'.at = (IF device.usb THEN "status" ELSE "none")
        /\ pc.request # "none" /\ device'.usb = device.usb /\ UNCHANGED <<slave, pc>>
    BY <1>0, <1>2 DEF SetConfiguration, Answer, SctEnd, SctOK, DeviceOK
  <2>2. CASE device.usb
    BY <2>1, <2>2 DEF Pipe!Receive
  <2>3. CASE ~device.usb
    BY <1>5, <2>1, <2>3 DEF Pipe!Fail
  <2> QED
    BY <2>2, <2>3
<1>6. CASE SetReport
  <2>1. /\ sct.at = "recv" /\ sct'.at \notin {"recv", "none"} /\ pc.request # "none"
        /\ UNCHANGED <<device, slave, pc>>
    BY <1>0, <1>6 DEF SetReport, SctOK
  <2>2. Pipe!Receive
    BY <2>1 DEF Pipe!Receive
  <2> QED
    BY <2>2
<1>7. CASE DataStage
  <2>1. /\ sct.at \notin {"recv", "none"} /\ sct'.at \notin {"recv", "none"}
        /\ UNCHANGED <<slave, pc, device>>
    BY <1>0, <1>7 DEF DataStage, SctOK
  <2> QED
    BY <2>1
<1>3. CASE EnqueueLeds \/ EnqueueCommand
  <2>1. /\ sct.at \in {"enqueue_leds", "enqueue_command"}
        /\ sct'.at = (IF device.usb THEN "status" ELSE "none")
        /\ device'.usb = device.usb /\ UNCHANGED <<slave, pc>>
    BY <1>0, <1>3 DEF EnqueueLeds, EnqueueCommand, Answer, SctEnd, SctOK, DeviceOK
  <2>2. CASE device.usb
    BY <2>1, <2>2
  <2>3. CASE ~device.usb /\ pc.attached
    <3>1. slave.at = "detach" /\ pc.request # "none"
      BY <1>0, <2>1, <2>3 DEF AttachedOK, RequestOK, Led
    <3>2. Pipe!Fail
      BY <2>1, <2>3, <3>1 DEF Pipe!Fail
    <3> QED
      BY <3>2
  <2>4. CASE ~device.usb /\ ~pc.attached
    <3>1. slave.at = "join" /\ pc.request = "none"
      BY <1>0, <2>1, <2>4 DEF AttachedOK, Detached, OpenUntilJoin, OneControlThread
    <3>2. Pipe!Answer
      BY <2>1, <2>4, <3>1 DEF Pipe!Answer, Pipe!Attached
    <3> QED
      BY <3>2
  <2> QED
    BY <2>2, <2>3, <2>4
<1>4. CASE Status
  <2>1. /\ sct.at = "status" /\ sct'.at = (IF device.usb THEN "recv" ELSE "none")
        /\ device'.usb = device.usb /\ slave' = slave
    BY <1>0, <1>4 DEF Status, SctEnd, SctOK, DeviceOK
  <2>2. pc'.request = "none"
    BY <1>0, <1>4 DEF Status, PcOK, Detached, AttachedOK
  <2>3. pc.attached => pc.request # "none"
    BY <1>0, <2>1 DEF RequestOK
  <2>4. Pipe!Attached => pc.attached
    BY <1>0 DEF Pipe!Attached, AttachedOK
  <2>5. Pipe!Answer
    BY <2>1, <2>2, <2>3, <2>4 DEF Pipe!Answer
  <2> QED
    BY <2>5
<1> QED
  BY <1>1, <1>2, <1>3, <1>4, <1>6, <1>7 DEF ControlThread

\* The PC asks, and the rest of the device does not touch the pipe.
LEMMA OthersServePipe ==
  Inv /\ Path /\ (HostThread \/ MainThread \/ CommandEnds \/ Configure \/ World)
    => [Pipe!Next]_(Pipe!vars)
<1> SUFFICES ASSUME Inv, Path, HostThread \/ MainThread \/ CommandEnds \/ Configure \/ World
             PROVE  [Pipe!Next]_(Pipe!vars)
  OBVIOUS
<1> USE DEF Pipe!Next, Pipe!vars
<1>1. CASE UNCHANGED <<device, slave, sct, pc>>
  BY <1>1
<1>2. CASE /\ UNCHANGED <<device, slave, sct>> /\ pc.attached /\ pc.request = "none"
           /\ pc'.request # "none"
  <2>1. Pipe!Attached
    BY <1>2 DEF Path, AttachedOK, Pipe!Attached
  <2>2. Pipe!Ask
    BY <1>2, <2>1 DEF Pipe!Ask
  <2> QED
    BY <2>2
<1>3. pc.configured => pc.attached
  BY DEF Path, AttachedOK, Detached
<1>4. HostThread \/ MainThread \/ CommandEnds => UNCHANGED <<device, slave, sct, pc>>
  BY DEF HostThread, HostAttach, HostSends, HostSend, HostRead, HostLeds, MainThread, MainTake,
         MainSend, CommandEnds
<1>5. Plug \/ Unplug \/ PressOrRelease => UNCHANGED <<device, slave, sct, pc>>
  BY DEF Plug, Unplug, PressOrRelease
<1>6. Configure \/ Deconfigure \/ (\E r \in {"off", "on", "command"} : Request(r)) =>
        /\ UNCHANGED <<device, slave, sct>> /\ pc.attached /\ pc.request = "none"
        /\ pc'.request # "none"
  BY <1>3 DEF Configure, Deconfigure, Request, Inv, PcOK
<1> QED
  BY <1>1, <1>2, <1>4, <1>5, <1>6 DEF World

\* The slave threads keep the promise of the control pipe, for all capacities
\* of the queues that the control thread waits for while it serves a request.
THEOREM ThreadsServePipe == Spec => ImplementsPipe
<1>1. Init => Pipe!Init
  BY DEF Init, Pipe!Init, Detached
<1>2. UNCHANGED vars => UNCHANGED Pipe!vars
  BY DEF vars, Pipe!vars
<1>3. Inv /\ Path /\ [Next]_vars => [Pipe!Next]_(Pipe!vars)
  BY <1>2, SlaveServesPipe, ControlServesPipe, OthersServePipe DEF Next
<1> QED
  BY <1>1, <1>3, PathInvariant, PTL DEF Spec, ImplementsPipe, Pipe!Spec

=============================================================================

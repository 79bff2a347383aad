------------------------- MODULE SlaveControl_proofs -------------------------
(***************************************************************************)
(* Proofs about the control requests, for every set of requests that the   *)
(* PC may send and any number of reports and connections.                  *)
(***************************************************************************)
EXTENDS SlaveControl, TLAPS

\* Types, with those that TypeOK leaves open.
Reports == 0 .. MaxReports
Halves == [{1, 2} -> Reports]
Data == Seq((DOMAIN Lengths) \X Nat)

Regs ==
  [configuration : 0 .. 255, valid : BOOLEAN, idle : 0 .. 255, protocol : 0 .. 255,
   leds : 0 .. 255, halted : SUBSET (0 .. 15)]
SlaveOK ==
  slave \in [at : {"idle", "copy", "transfer", "detach", "join"}, report : Reports, due : BOOLEAN]
SctOK ==
  /\ sct \in [at : {"none", "recv", "data", "enqueue", "reply"},
              setup : Requests \cup {NoRequest}, handled : BOOLEAN, data : Data]
  /\ Size(sct.data) <= 256
PcOK ==
  pc \in [attached : BOOLEAN, request : Requests \cup {NoRequest},
          knows : [Settings -> {Unknown} \cup 0 .. 255],
          shown : Reports, seen : Halves, before : Halves]
Typed == usb \in BOOLEAN /\ input \in Halves /\ regs \in Regs /\ SlaveOK /\ SctOK /\ PcOK

\* The PC is attached while m_slave_usb is set, and until Detach; the
\* control thread has ended when the slave thread connects again.
Attachment ==
  /\ pc.attached <=> usb \/ slave.at = "detach"
  /\ usb => slave.at \notin {"detach", "join"}
  /\ ~pc.attached => pc = Detached
  /\ sct.at # "none" => usb \/ slave.at \in {"detach", "join"}

\* The request in progress, and that the PC does not know what it changes.
InProgress ==
  /\ pc.request # NoRequest => /\ pc.attached
                               /\ Changes(pc.request) => pc.knows[Setting(pc.request)] = Unknown
  /\ sct.at \in {"data", "enqueue", "reply"} =>
       sct.setup \in Requests /\ (pc.attached => pc.request = sct.setup)
  /\ sct.at \in {"data", "enqueue"} => HasDataStage(sct.setup)
  /\ sct.at = "enqueue" => sct.handled

\* The values behind the settings.
ValueIn(r, s) ==
  CASE s = "configuration" -> r.configuration
    [] s = "idle" -> r.idle
    [] s = "leds" -> r.leds
    [] s = "halt" -> IF 1 \in r.halted THEN 1 ELSE 0
Value(s) == ValueIn(regs, s)

\* What the PC knows is so, ...
KnownIsTrue == \A s \in Settings : pc.knows[s] \in {Unknown, Value(s)}

\* ... and so are what a request in progress asks for or has set.  A report
\* that was received without a handle will never be answered.
HandledIsTrue ==
  LET q == sct.setup
      s == Setting(q)
  IN  sct.at \in {"enqueue", "reply"} /\ sct.handled =>
        /\ sct.at = "reply" /\ s \in Settings /\ ~Changes(q) /\ sct.data # <<>> =>
             sct.data[IF s = "leds" THEN 2 ELSE 1] = Byte(Value(s))
        /\ Changes(q) /\ pc.attached /\ (sct.at = "enqueue" => usb) =>
             NewValue(q) \in {Unknown, Value(s)}
        /\ q.code = "SET_CONFIGURATION" /\ usb => regs.valid

\* The halves of m_current_input_report, and that nobody has seen newer ones.
Copied ==
  /\ input[1] = slave.report
  /\ slave.report = IF slave.at = "copy" THEN input[2] + 1 ELSE input[2]
SeenIsCopied ==
  \A half \in {1, 2} : pc.seen[half] <= input[half] /\ pc.before[half] <= input[half]
AnswerIsCopied ==
  sct.at = "reply" /\ AsksForInput(sct.setup) =>
    /\ sct.data[2][2] \in Reports /\ sct.data[2][2] <= input[1]
    /\ sct.data[3][2] \in Reports /\ sct.data[3][2] <= input[2]
    /\ sct.data[2][2] - sct.data[3][2] \in {0, 1}
    /\ pc.attached => sct.data[2][2] >= pc.before[1] /\ sct.data[3][2] >= pc.before[2]

\* A due report can be sent.
DueIsPolled ==
  /\ Polls /\ usb => regs.valid
  /\ slave.due => Polls /\ usb
  /\ slave.at = "idle" /\ slave.due => pc.shown = slave.report

Inv ==
  /\ Typed /\ Attachment /\ InProgress /\ KnownIsTrue /\ HandledIsTrue
  /\ Copied /\ SeenIsCopied /\ AnswerIsCopied /\ DueIsPolled

-----------------------------------------------------------------------------
\* Lengths of answers.
LEMMA LengthsAreSmall ==
  /\ \A name \in DOMAIN Lengths : Lengths[name] \in 0 .. 89
  /\ {"byte", "half", "client", "device", "config", "interface", "hid", "endpoint", "report",
      "string0", "string1", "string2", "string3"} \subseteq DOMAIN Lengths
  /\ Lengths["half"] = 4
  /\ Lengths["config"] + Lengths["interface"] + Lengths["hid"] + Lengths["endpoint"] = 34
BY DEF Lengths

LEMMA NoParts == <<>> \in Data /\ Size(<<>>) <= 256
BY DEF Data, Size, PartSize

LEMMA OnePart ==
  ASSUME NEW x \in (DOMAIN Lengths) \X Nat
  PROVE  <<x>> \in Data /\ Size(<<x>>) <= 256
<1>1. Lengths[x[1]] \in 0 .. 89
  BY LengthsAreSmall
<1> QED
  BY <1>1 DEF Data, Size, PartSize

LEMMA TwoParts ==
  ASSUME NEW x \in (DOMAIN Lengths) \X Nat, NEW y \in (DOMAIN Lengths) \X Nat
  PROVE  <<x, y>> \in Data /\ Size(<<x, y>>) <= 256
<1>1. Lengths[x[1]] \in 0 .. 89 /\ Lengths[y[1]] \in 0 .. 89
  BY LengthsAreSmall
<1> QED
  BY <1>1 DEF Data, Size, PartSize

LEMMA InputParts ==
  ASSUME NEW x \in (DOMAIN Lengths) \X Nat, NEW first \in Nat, NEW second \in Nat,
         NEW d, d = <<x, <<"half", first>>, <<"half", second>>>>
  PROVE  d \in Data /\ Size(d) <= 256
<1>1. Lengths[x[1]] \in 0 .. 89
  BY LengthsAreSmall
<1>2. <<"half", first>> \in (DOMAIN Lengths) \X Nat /\ <<"half", second>> \in (DOMAIN Lengths) \X Nat
  BY LengthsAreSmall
<1>3. d \in Data
  BY <1>2 DEF Data
<1>4. /\ PartSize(d, 1) = Lengths[x[1]] /\ PartSize(d, 2) = 4
      /\ PartSize(d, 3) = 4 /\ PartSize(d, 4) = 0
  BY LengthsAreSmall DEF PartSize
<1> QED
  BY <1>1, <1>3, <1>4 DEF Size

LEMMA ConfigurationParts ==
  ASSUME NEW d, d = Descriptors["CONFIGURATION"]
  PROVE  d \in Data /\ Size(d) <= 256
<1>1. d = <<<<"config", 0>>, <<"interface", 0>>, <<"hid", 0>>, <<"endpoint", 0>>>>
  BY DEF Descriptors, Section
<1>2. /\ <<"config", 0>> \in (DOMAIN Lengths) \X Nat /\ <<"interface", 0>> \in (DOMAIN Lengths) \X Nat
      /\ <<"hid", 0>> \in (DOMAIN Lengths) \X Nat /\ <<"endpoint", 0>> \in (DOMAIN Lengths) \X Nat
  BY LengthsAreSmall
<1>3. d \in Data
  BY <1>1, <1>2 DEF Data
<1>4. /\ PartSize(d, 1) = Lengths["config"] /\ PartSize(d, 2) = Lengths["interface"]
      /\ PartSize(d, 3) = Lengths["hid"] /\ PartSize(d, 4) = Lengths["endpoint"]
  BY <1>1 DEF PartSize
<1> QED
  BY <1>3, <1>4, LengthsAreSmall DEF Size

-----------------------------------------------------------------------------
\* What a handler's result says of its request, for every setting.
Serves(q, h) ==
  /\ h.handled \in BOOLEAN /\ h.data \in Data /\ Size(h.data) <= 256 /\ h.regs \in Regs
  /\ \A s \in Settings : (Changes(q) /\ Setting(q) = s) \/ ValueIn(h.regs, s) = Value(s)
  /\ q.code # "SET_CONFIGURATION" => h.regs.valid = regs.valid
  /\ usb /\ h.handled /\ Changes(q) => NewValue(q) \in {Unknown, ValueIn(h.regs, Setting(q))}
  /\ h.handled /\ Setting(q) \in Settings /\ ~Changes(q) /\ h.data # <<>> =>
       h.data[IF Setting(q) = "leds" THEN 2 ELSE 1] = Byte(Value(Setting(q)))
  /\ h.handled /\ q.code = "SET_CONFIGURATION" => h.regs.valid
  /\ AsksForInput(q) => h.data = <<Byte(1), <<"half", input[1]>>, <<"half", input[2]>>>>

LEMMA UnhandledServes ==
  ASSUME regs \in Regs, NEW q, ~AsksForInput(q)
  PROVE  Serves(q, Unhandled)
BY NoParts DEF Serves, Unhandled, Value

\* An answer to a request that changes nothing.
LEMMA AnswerServes ==
  ASSUME regs \in Regs, NEW q, ~AsksForInput(q), ~Changes(q), q.code # "SET_CONFIGURATION",
         NEW d \in Data, Size(d) <= 256,
         Setting(q) \in Settings => d[IF Setting(q) = "leds" THEN 2 ELSE 1] = Byte(Value(Setting(q)))
  PROVE  Serves(q, Answer(d))
BY DEF Serves, Answer, Value

\* A request that has no data stage.
LEMMA DoneServes ==
  ASSUME regs \in Regs, NEW q, ~AsksForInput(q), NEW r \in Regs, NEW b \in BOOLEAN,
         \A s \in Settings : (Changes(q) /\ Setting(q) = s) \/ ValueIn(r, s) = Value(s),
         q.code # "SET_CONFIGURATION" => r.valid = regs.valid,
         usb /\ b /\ Changes(q) => NewValue(q) \in {Unknown, ValueIn(r, Setting(q))},
         b /\ q.code = "SET_CONFIGURATION" => r.valid
  PROVE  Serves(q, [handled |-> b, data |-> <<>>, regs |-> r])
BY NoParts DEF Serves

LEMMA BytesAreParts ==
  /\ \A b \in Nat : Byte(b) \in (DOMAIN Lengths) \X Nat
  /\ \A name \in DOMAIN Lengths : Section(name) \in (DOMAIN Lengths) \X Nat
BY LengthsAreSmall DEF Byte, Section

\* No request for a descriptor is about a setting.
LEMMA DescriptorServes ==
  ASSUME regs \in Regs, NEW q \in Requests, q.code = "GET_DESCRIPTOR", q.to # "endpoint"
  PROVE  Serves(q, get_descriptor(q.what, q.value))
<1>1. ~AsksForInput(q) /\ ~Changes(q) /\ Setting(q) \notin Settings
  BY DEF AsksForInput, Changes, Setting, Settings
<1>2. \A name \in DOMAIN Lengths : <<Section(name)>> \in Data /\ Size(<<Section(name)>>) <= 256
  BY OnePart, BytesAreParts
<1>3. CASE q.what = "STRING"
  <2>1. get_descriptor(q.what, q.value) = get_string_descriptor(q.value)
    <3>1. "STRING" \notin DOMAIN Descriptors
      BY DEF Descriptors
    <3> QED
      BY <1>3, <3>1 DEF get_descriptor
  <2>2. CASE q.value \in 0 .. 3
    <3>1. PICK name \in {"string0", "string1", "string2", "string3"} :
            get_string_descriptor(q.value) = Answer(<<Section(name)>>)
      <4>1. q.value = 0 \/ q.value = 1 \/ q.value = 2 \/ q.value = 3
        BY <2>2
      <4> QED
        BY <4>1, <2>2 DEF get_string_descriptor
    <3>2. name \in DOMAIN Lengths
      BY LengthsAreSmall
    <3> QED
      BY <1>1, <1>2, <2>1, <3>1, <3>2, AnswerServes
  <2>3. CASE q.value \notin 0 .. 3
    BY <1>1, <2>1, <2>3, UnhandledServes DEF get_string_descriptor
  <2> QED
    BY <2>2, <2>3
<1>4. CASE q.what # "STRING" /\ q.what \in DOMAIN Descriptors /\ q.value = 0
  <2>1. get_descriptor(q.what, q.value) = Answer(Descriptors[q.what])
    BY <1>4 DEF get_descriptor
  <2>2. Descriptors[q.what] \in Data /\ Size(Descriptors[q.what]) <= 256
    <3>1. CASE q.what = "CONFIGURATION"
      BY <3>1, ConfigurationParts
    <3>2. CASE q.what # "CONFIGURATION"
      <4>1. \E name \in {"device", "interface", "endpoint", "hid", "report"} :
              Descriptors[q.what] = <<Section(name)>>
        BY <1>4, <3>2 DEF Descriptors
      <4> QED
        BY <1>2, <4>1, LengthsAreSmall
    <3> QED
      BY <3>1, <3>2
  <2> QED
    BY <1>1, <2>1, <2>2, AnswerServes
<1>5. CASE q.what # "STRING" /\ ~(q.what \in DOMAIN Descriptors /\ q.value = 0)
  <2>1. get_descriptor(q.what, q.value) = Unhandled
    BY <1>5 DEF get_descriptor
  <2> QED
    BY <1>1, <2>1, UnhandledServes
<1> QED
  BY <1>3, <1>4, <1>5

\* SET_CONFIGURATION changes a number and a flag.
LEMMA ConfigurationChanges ==
  ASSUME NEW Number, NEW Endpoints, NEW no \in Number, NEW b \in BOOLEAN,
         NEW r \in [configuration : Number, valid : BOOLEAN, idle : Number, protocol : Number,
                    leds : Number, halted : Endpoints]
  PROVE  LET new == [r EXCEPT !.configuration = no, !.valid = b]
         IN  /\ new \in [configuration : Number, valid : BOOLEAN, idle : Number,
                         protocol : Number, leds : Number, halted : Endpoints]
             /\ new.configuration = no /\ new.valid = b
             /\ new.idle = r.idle /\ new.leds = r.leds /\ new.halted = r.halted
OBVIOUS

LEMMA DeviceServes ==
  ASSUME regs \in Regs, NEW q \in Requests, q.type = "standard", q.to = "device"
  PROVE  Serves(q, device_req_handler(q))
<1>1. ~AsksForInput(q)
  BY RequestsAssumption DEF AsksForInput, HidCodes
<1>2. \A b \in Nat : <<Byte(b)>> \in Data /\ Size(<<Byte(b)>>) <= 256 /\ <<Byte(b)>>[1] = Byte(b)
  BY OnePart, BytesAreParts
<1>3. CASE q.code = "GET_STATUS"
  <2>1. device_req_handler(q) = Answer(<<Byte(0)>>)
    BY <1>3 DEF device_req_handler
  <2>2. ~Changes(q) /\ Setting(q) \notin Settings
    BY <1>3 DEF Changes, Setting, Settings
  <2> QED
    BY <1>1, <1>2, <1>3, <2>1, <2>2, AnswerServes
<1>4. CASE q.code = "SET_ADDRESS"
  <2>1. device_req_handler(q) = [handled |-> TRUE, data |-> <<>>, regs |-> regs]
    BY <1>4 DEF device_req_handler, Done
  <2>2. ~Changes(q)
    BY <1>4 DEF Changes
  <2> QED
    BY <1>1, <1>4, <2>1, <2>2, DoneServes DEF Value
<1>5. CASE q.code = "GET_DESCRIPTOR"
  BY <1>5, DescriptorServes DEF device_req_handler
<1>6. CASE q.code = "GET_CONFIGURATION"
  <2>1. device_req_handler(q) = Answer(<<Byte(regs.configuration)>>) /\ regs.configuration \in Nat
    BY <1>6 DEF device_req_handler, Regs
  <2>2. ~Changes(q) /\ Setting(q) = "configuration"
    BY <1>6 DEF Changes, Setting
  <2> QED
    BY <1>1, <1>2, <1>6, <2>1, <2>2, AnswerServes DEF Value, ValueIn
<1>7. CASE q.code = "SET_CONFIGURATION"
  <2> DEFINE r == [regs EXCEPT !.configuration = q.value, !.valid = (q.value = 1)]
  <2>1. device_req_handler(q) = [handled |-> (q.value = 1), data |-> <<>>, regs |-> r]
    BY <1>7 DEF device_req_handler, Done, set_configuration, Regs
  <2>2. q.value \in 0 .. 255
    BY RequestsAssumption
  <2>3. /\ r \in Regs /\ r.configuration = q.value /\ (r.valid <=> q.value = 1)
        /\ r.idle = regs.idle /\ r.leds = regs.leds /\ r.halted = regs.halted
    <3> DEFINE Number == 0 .. 255
               Endpoints == SUBSET (0 .. 15)
               b == q.value = 1
               R == [configuration : Number, valid : BOOLEAN, idle : Number, protocol : Number,
                     leds : Number, halted : Endpoints]
    <3>1. regs \in R /\ Regs = R /\ q.value \in Number /\ b \in BOOLEAN
      BY <2>2 DEF Regs
    <3>2. r = [regs EXCEPT !.configuration = q.value, !.valid = b]
      OBVIOUS
    <3> HIDE DEF Number, Endpoints, b, r
    <3>3. /\ r \in R /\ r.configuration = q.value /\ r.valid = b
          /\ r.idle = regs.idle /\ r.leds = regs.leds /\ r.halted = regs.halted
      BY <3>1, <3>2, ConfigurationChanges
    <3> QED
      BY <3>1, <3>3 DEF b
  <2>4. Changes(q) /\ Setting(q) = "configuration" /\ NewValue(q) = q.value
    BY <1>7 DEF Changes, Setting, Settings, NewValue
  <2>5. ValueIn(r, "configuration") = q.value
    BY <2>3 DEF ValueIn
  <2>6. \A s \in Settings \ {"configuration"} : ValueIn(r, s) = Value(s)
    BY <2>3 DEF Value, ValueIn, Settings
  <2>7. \A s \in Settings : (Changes(q) /\ Setting(q) = s) \/ ValueIn(r, s) = Value(s)
    BY <2>4, <2>6
  <2> HIDE DEF r
  <2> QED
    BY <1>1, <1>7, <2>1, <2>3, <2>4, <2>5, <2>7, DoneServes
<1>8. CASE q.code \notin {"GET_STATUS", "SET_ADDRESS", "GET_DESCRIPTOR", "GET_CONFIGURATION",
                          "SET_CONFIGURATION"}
  <2>1. device_req_handler(q) = Unhandled
    BY <1>8 DEF device_req_handler
  <2> QED
    BY <1>1, <2>1, UnhandledServes
<1> QED
  BY <1>3, <1>4, <1>5, <1>6, <1>7, <1>8

LEMMA InterfaceServes ==
  ASSUME regs \in Regs, NEW q \in Requests, q.type = "standard", q.to = "interface"
  PROVE  Serves(q, interface_req_handler(q))
<1>1. ~AsksForInput(q)
  BY RequestsAssumption DEF AsksForInput, HidCodes
<1>2. CASE q.code \in {"GET_STATUS", "GET_INTERFACE"}
  <2>1. \E d \in {<<Byte(0), Byte(0)>>, <<Byte(0)>>} : interface_req_handler(q) = Answer(d)
    BY <1>2 DEF interface_req_handler
  <2>2. \A d \in {<<Byte(0), Byte(0)>>, <<Byte(0)>>} : d \in Data /\ Size(d) <= 256
    BY OnePart, TwoParts, BytesAreParts
  <2>3. ~Changes(q) /\ Setting(q) \notin Settings
    BY <1>2 DEF Changes, Setting, Settings
  <2> QED
    BY <1>1, <1>2, <2>1, <2>2, <2>3, AnswerServes
<1>3. CASE q.code = "GET_DESCRIPTOR"
  BY <1>3, DescriptorServes DEF interface_req_handler
<1>4. CASE q.code = "SET_INTERFACE" /\ q.value = 0
  <2>1. interface_req_handler(q) = [handled |-> TRUE, data |-> <<>>, regs |-> regs]
    BY <1>4 DEF interface_req_handler, Done
  <2>2. ~Changes(q)
    BY <1>4 DEF Changes
  <2> QED
    BY <1>1, <1>4, <2>1, <2>2, DoneServes DEF Value
<1>5. CASE /\ q.code \notin {"GET_STATUS", "GET_INTERFACE", "GET_DESCRIPTOR"}
           /\ ~(q.code = "SET_INTERFACE" /\ q.value = 0)
  <2>1. interface_req_handler(q) = Unhandled
    BY <1>5 DEF interface_req_handler
  <2> QED
    BY <1>1, <2>1, UnhandledServes
<1> QED
  BY <1>2, <1>3, <1>4, <1>5

\* Only requests to 0x81 are about, and change, the endpoint of the reports.
LEMMA EndpointServes ==
  ASSUME regs \in Regs, NEW q \in Requests, q.type = "standard", q.to = "endpoint"
  PROVE  Serves(q, endpoint_req_handler(q))
<1> DEFINE ep == EndpointNo(q)
<1>1. ~AsksForInput(q)
  BY RequestsAssumption DEF AsksForInput, HidCodes
<1>2. ep \in {0, 1} /\ (ep = 1 <=> q.index = 129)
  <2>1. q.index \in {0, 128, 129}
    BY RequestsAssumption
  <2> QED
    BY <2>1 DEF EndpointNo
<1>3. regs.halted \in SUBSET (0 .. 15)
  BY DEF Regs
<1> HIDE DEF ep
<1>4. \A s : Setting(q) = s /\ s \in Settings /\ q.code \in {"GET_STATUS", "SET_FEATURE", "CLEAR_FEATURE"}
             => s = "halt" /\ ep = 1
  BY <1>2 DEF Setting, Settings
<1>5. ep = 1 /\ q.code \in {"GET_STATUS", "SET_FEATURE", "CLEAR_FEATURE"} => Setting(q) = "halt"
  BY <1>2 DEF Setting
<1>6. ASSUME NEW h \in SUBSET (0 .. 15), (1 \in h <=> 1 \in regs.halted) \/ (Changes(q) /\ ep = 1),
             q.code \in {"SET_FEATURE", "CLEAR_FEATURE"},
             usb /\ ep = 1 => NewValue(q) = IF 1 \in h THEN 1 ELSE 0,
             NEW r, r = [regs EXCEPT !.halted = h]
      PROVE  Serves(q, [handled |-> TRUE, data |-> <<>>, regs |-> r])
  <2>1. /\ r \in Regs /\ r.halted = h /\ r.configuration = regs.configuration
        /\ r.idle = regs.idle /\ r.leds = regs.leds /\ r.valid = regs.valid
    BY <1>6 DEF Regs
  <2>2. \A s \in Settings : (Changes(q) /\ Setting(q) = s) \/ ValueIn(r, s) = Value(s)
    BY <1>5, <1>6, <2>1 DEF Value, ValueIn, Settings
  <2>3. Changes(q) => Setting(q) = "halt" /\ ep = 1
    BY <1>4, <1>6 DEF Changes
  <2>4. usb /\ Changes(q) => NewValue(q) \in {Unknown, ValueIn(r, Setting(q))}
    BY <1>6, <2>1, <2>3 DEF ValueIn
  <2> QED
    BY <1>1, <1>6, <2>1, <2>2, <2>4, DoneServes
<1>7. CASE q.code = "GET_STATUS"
  <2> DEFINE b == IF 1 \in regs.halted THEN 1 ELSE 0
             c == IF ep \in regs.halted THEN 1 ELSE 0
  <2>1. endpoint_req_handler(q) = Answer(<<Byte(c), Byte(0)>>)
    BY <1>7 DEF endpoint_req_handler, is_endpoint_stall, ep
  <2>2. /\ <<Byte(c), Byte(0)>> \in Data /\ Size(<<Byte(c), Byte(0)>>) <= 256
        /\ <<Byte(c), Byte(0)>>[1] = Byte(c)
    BY TwoParts, BytesAreParts
  <2>3. Setting(q) \in Settings => Setting(q) = "halt" /\ b = c
    BY <1>4, <1>7
  <2>4. Value("halt") = b
    BY DEF Value, ValueIn
  <2>5. ~Changes(q)
    BY <1>7 DEF Changes
  <2> HIDE DEF b, c
  <2> QED
    BY <1>1, <1>7, <2>1, <2>2, <2>3, <2>4, <2>5, AnswerServes
<1>8. CASE q.code = "SET_FEATURE" /\ q.value = 0
  <2> DEFINE h == IF usb THEN regs.halted \cup {ep} ELSE regs.halted
  <2>1. endpoint_req_handler(q) = [handled |-> TRUE, data |-> <<>>, regs |-> [regs EXCEPT !.halted = h]]
    BY <1>8 DEF endpoint_req_handler, stall_endpoint, Done, ep
  <2>2. h \in SUBSET (0 .. 15)
    BY <1>2, <1>3
  <2>3. NewValue(q) = 1
    BY <1>8 DEF NewValue
  <2>4. (1 \in h <=> 1 \in regs.halted) \/ (Changes(q) /\ ep = 1)
    <3>1. CASE ep = 1
      BY <1>5, <1>8, <3>1 DEF Changes, Settings
    <3>2. CASE ep = 0
      BY <3>2
    <3> QED
      BY <1>2, <3>1, <3>2
  <2>5. usb /\ ep = 1 => NewValue(q) = IF 1 \in h THEN 1 ELSE 0
    BY <2>3
  <2> HIDE DEF h
  <2> QED
    BY <1>6, <1>8, <2>1, <2>2, <2>4, <2>5
<1>9. CASE q.code = "CLEAR_FEATURE" /\ q.value = 0
  <2> DEFINE h == IF usb THEN regs.halted \ {ep} ELSE regs.halted
  <2>1. endpoint_req_handler(q) = [handled |-> TRUE, data |-> <<>>, regs |-> [regs EXCEPT !.halted = h]]
    BY <1>9 DEF endpoint_req_handler, clear_endpoint, Done, ep
  <2>2. h \in SUBSET (0 .. 15)
    BY <1>3
  <2>3. NewValue(q) = 0
    BY <1>9 DEF NewValue
  <2>4. (1 \in h <=> 1 \in regs.halted) \/ (Changes(q) /\ ep = 1)
    <3>1. CASE ep = 1
      BY <1>5, <1>9, <3>1 DEF Changes, Settings
    <3>2. CASE ep = 0
      BY <3>2
    <3> QED
      BY <1>2, <3>1, <3>2
  <2>5. usb /\ ep = 1 => NewValue(q) = IF 1 \in h THEN 1 ELSE 0
    BY <2>3
  <2> HIDE DEF h
  <2> QED
    BY <1>6, <1>9, <2>1, <2>2, <2>4, <2>5
<1>10. CASE /\ q.code # "GET_STATUS"
            /\ ~(q.code \in {"SET_FEATURE", "CLEAR_FEATURE"} /\ q.value = 0)
  <2>1. endpoint_req_handler(q) = Unhandled
    BY <1>10 DEF endpoint_req_handler
  <2> QED
    BY <1>1, <2>1, UnhandledServes
<1> QED
  BY <1>7, <1>8, <1>9, <1>10

LEMMA ClassServes ==
  ASSUME regs \in Regs, input \in Halves, NEW q \in Requests, q.type = "class"
  PROVE  Serves(q, class_req_handler(q))
<1>1. q.to = "interface" /\ q.data \in 0 .. 255
  BY RequestsAssumption
<1>2. /\ q.code = "GET_IDLE" => ~Changes(q) /\ Setting(q) = "idle"
      /\ q.code = "GET_REPORT" /\ q.what = "OUTPUT" => ~Changes(q) /\ Setting(q) = "leds"
      /\ q.code \in {"GET_REPORT", "SET_REPORT"} /\ q.what # "OUTPUT"
           => ~Changes(q) /\ Setting(q) \notin Settings
      /\ q.code \in {"GET_PROTOCOL", "SET_PROTOCOL"} => ~Changes(q) /\ Setting(q) \notin Settings
  BY <1>1 DEF Changes, Setting, Settings
<1>3. q.code # "GET_REPORT" \/ q.what # "INPUT" => ~AsksForInput(q)
  BY DEF AsksForInput
<1>4. \A b \in Nat : <<Byte(b)>> \in Data /\ Size(<<Byte(b)>>) <= 256 /\ <<Byte(b)>>[1] = Byte(b)
  BY OnePart, BytesAreParts
<1>5. /\ regs.idle \in Nat /\ regs.leds \in Nat /\ regs.protocol \in Nat
      /\ Value("idle") = regs.idle /\ Value("leds") = regs.leds
  BY DEF Regs, Value, ValueIn
<1>6. CASE q.code = "GET_REPORT" /\ q.what = "INPUT"
  <2> DEFINE d == <<Byte(1), <<"half", input[1]>>, <<"half", input[2]>>>>
  <2>1. class_req_handler(q) = [handled |-> TRUE, data |-> d, regs |-> regs]
    BY <1>6 DEF class_req_handler, Answer
  <2>2. d \in Data /\ Size(d) <= 256
    <3>1. Byte(1) \in (DOMAIN Lengths) \X Nat /\ input[1] \in Nat /\ input[2] \in Nat
      BY BytesAreParts DEF Halves, Reports
    <3> QED
      BY <3>1, InputParts
  <2> HIDE DEF d
  <2> QED
    BY <1>2, <1>6, <2>1, <2>2 DEF Serves, Value, d
<1>7. CASE q.code = "GET_REPORT" /\ q.what = "OUTPUT"
  <2> DEFINE d == <<Byte(1), Byte(regs.leds)>>
  <2>1. class_req_handler(q) = Answer(d)
    BY <1>7 DEF class_req_handler
  <2>2. d \in Data /\ Size(d) <= 256 /\ d[2] = Byte(regs.leds)
    BY <1>5, TwoParts, BytesAreParts
  <2> HIDE DEF d
  <2> QED
    BY <1>2, <1>3, <1>5, <1>7, <2>1, <2>2, AnswerServes
<1>8. CASE q.code = "GET_REPORT" /\ q.what = "FEATURE"
  <2> DEFINE d == <<Byte(2), Section("client")>>
  <2>1. class_req_handler(q) = Answer(d)
    BY <1>8 DEF class_req_handler
  <2>2. d \in Data /\ Size(d) <= 256
    <3>1. Byte(2) \in (DOMAIN Lengths) \X Nat /\ Section("client") \in (DOMAIN Lengths) \X Nat
      BY BytesAreParts, LengthsAreSmall
    <3> QED
      BY <3>1, TwoParts
  <2> HIDE DEF d
  <2> QED
    BY <1>2, <1>3, <1>8, <2>1, <2>2, AnswerServes
<1>9. CASE q.code = "GET_IDLE"
  <2>1. class_req_handler(q) = Answer(<<Byte(regs.idle)>>)
    BY <1>9 DEF class_req_handler
  <2> QED
    BY <1>2, <1>3, <1>4, <1>5, <1>9, <2>1, AnswerServes
<1>10. CASE q.code = "GET_PROTOCOL"
  <2>1. class_req_handler(q) = Answer(<<Byte(regs.protocol)>>)
    BY <1>10 DEF class_req_handler
  <2> QED
    BY <1>2, <1>3, <1>4, <1>5, <1>10, <2>1, AnswerServes
<1>11. CASE q.code = "SET_IDLE"
  <2> DEFINE r == [regs EXCEPT !.idle = q.data]
  <2>1. class_req_handler(q) = [handled |-> TRUE, data |-> <<>>, regs |-> r]
    BY <1>11 DEF class_req_handler, Done
  <2>2. /\ r \in Regs /\ r.idle = q.data /\ r.configuration = regs.configuration
        /\ r.leds = regs.leds /\ r.halted = regs.halted /\ r.valid = regs.valid
    BY <1>1 DEF Regs
  <2>3. Changes(q) /\ Setting(q) = "idle" /\ NewValue(q) = q.data
    <3>1. NewValue(q) = q.data
      BY <1>11 DEF NewValue
    <3>2. Setting(q) = "idle"
      BY <1>1, <1>11 DEF Setting
    <3> QED
      BY <1>11, <3>1, <3>2 DEF Changes, Settings
  <2>4. \A s \in Settings : (Changes(q) /\ Setting(q) = s) \/ ValueIn(r, s) = Value(s)
    BY <2>2, <2>3 DEF Value, ValueIn, Settings
  <2>5. ValueIn(r, "idle") = q.data
    BY <2>2 DEF ValueIn
  <2> HIDE DEF r
  <2> QED
    BY <1>3, <1>11, <2>1, <2>2, <2>3, <2>4, <2>5, DoneServes
<1>12. CASE q.code = "SET_PROTOCOL"
  <2> DEFINE r == [regs EXCEPT !.protocol = q.data]
  <2>1. class_req_handler(q) = [handled |-> TRUE, data |-> <<>>, regs |-> r]
    BY <1>12 DEF class_req_handler, Done
  <2>2. /\ r \in Regs /\ r.idle = regs.idle /\ r.configuration = regs.configuration
        /\ r.leds = regs.leds /\ r.halted = regs.halted /\ r.valid = regs.valid
    BY <1>1 DEF Regs
  <2>3. \A s \in Settings : ValueIn(r, s) = Value(s)
    BY <2>2 DEF Value, ValueIn, Settings
  <2> HIDE DEF r
  <2> QED
    BY <1>2, <1>3, <1>12, <2>1, <2>2, <2>3, DoneServes
<1>13. CASE /\ q.code \notin {"GET_IDLE", "GET_PROTOCOL", "SET_IDLE", "SET_PROTOCOL"}
            /\ ~(q.code = "GET_REPORT" /\ q.what \in {"INPUT", "OUTPUT", "FEATURE"})
  <2>1. class_req_handler(q) = Unhandled
    BY <1>13 DEF class_req_handler
  <2> QED
    BY <1>3, <1>13, <2>1, UnhandledServes
<1> QED
  BY <1>6, <1>7, <1>8, <1>9, <1>10, <1>11, <1>12, <1>13

LEMMA HandleServes ==
  ASSUME regs \in Regs, input \in Halves, NEW q \in Requests
  PROVE  Serves(q, Handle(q))
<1>1. CASE q.type = "class"
  BY <1>1, ClassServes DEF Handle
<1>2. CASE q.type = "standard" /\ q.to = "device"
  BY <1>2, DeviceServes DEF Handle
<1>3. CASE q.type = "standard" /\ q.to = "interface"
  BY <1>3, InterfaceServes DEF Handle
<1>4. CASE q.type = "standard" /\ q.to = "endpoint"
  BY <1>4, EndpointServes DEF Handle
<1>5. CASE q.type # "class" /\ ~(q.type = "standard" /\ q.to \in {"device", "interface", "endpoint"})
  <2>1. Handle(q) = Unhandled
    BY <1>5 DEF Handle
  <2>2. ~AsksForInput(q)
    BY <1>5, RequestsAssumption DEF AsksForInput, HidCodes
  <2> QED
    BY <2>1, <2>2, UnhandledServes
<1> QED
  BY <1>1, <1>2, <1>3, <1>4, <1>5

-----------------------------------------------------------------------------
\* Parts of the invariant whose variables a step leaves alone.
LEMMA Frame ==
  ASSUME Inv
  PROVE  /\ UNCHANGED slave => SlaveOK'
         /\ UNCHANGED sct => SctOK'
         /\ UNCHANGED pc => PcOK'
         /\ UNCHANGED <<usb, slave, sct, pc>> => Attachment'
         /\ UNCHANGED <<sct, pc>> => InProgress'
         /\ UNCHANGED <<regs, pc>> => KnownIsTrue'
         /\ UNCHANGED <<usb, regs, sct, pc>> => HandledIsTrue'
         /\ UNCHANGED <<input, slave>> => Copied'
         /\ UNCHANGED <<input, pc>> => SeenIsCopied'
         /\ UNCHANGED <<input, sct, pc>> => AnswerIsCopied'
         /\ UNCHANGED <<usb, regs, slave, pc>> => DueIsPolled'
<1>1. UNCHANGED slave => SlaveOK'
  BY DEF Inv, Typed, SlaveOK
<1>2. UNCHANGED sct => SctOK'
  BY DEF Inv, Typed, SctOK
<1>3. UNCHANGED pc => PcOK'
  BY DEF Inv, Typed, PcOK
<1>4. UNCHANGED <<usb, slave, sct, pc>> => Attachment'
  BY DEF Inv, Attachment
<1>5. UNCHANGED <<sct, pc>> => InProgress'
  BY DEF Inv, InProgress
<1>6. UNCHANGED <<regs, pc>> => KnownIsTrue'
  BY DEF Inv, KnownIsTrue, Value
<1>7. UNCHANGED <<usb, regs, sct, pc>> => HandledIsTrue'
  BY DEF Inv, HandledIsTrue, Value
<1>8. UNCHANGED <<input, slave>> => Copied'
  BY DEF Inv, Copied
<1>9. UNCHANGED <<input, pc>> => SeenIsCopied'
  BY DEF Inv, SeenIsCopied
<1>10. UNCHANGED <<input, sct, pc>> => AnswerIsCopied'
  BY DEF Inv, AnswerIsCopied
<1>11. UNCHANGED <<usb, regs, slave, pc>> => DueIsPolled'
  BY DEF Inv, DueIsPolled, Polls
<1> QED
  BY <1>1, <1>2, <1>3, <1>4, <1>5, <1>6, <1>7, <1>8, <1>9, <1>10, <1>11

LEMMA ConfigurationIsSet ==
  ASSUME NEW q \in Requests, q.code = "SET_CONFIGURATION"
  PROVE  Setting(q) = "configuration" /\ Changes(q)
<1>1. Setting(q) = "configuration"
  BY DEF Setting
<1> QED
  BY <1>1 DEF Changes, Settings

\* Nothing is known, and nothing asked, before the PC has attached.
LEMMA DetachedFacts ==
  /\ Detached \in [attached : BOOLEAN, request : Requests \cup {NoRequest},
                   knows : [Settings -> {Unknown} \cup 0 .. 255],
                   shown : Reports, seen : Halves, before : Halves]
  /\ [Detached EXCEPT !.attached = TRUE]
       \in [attached : BOOLEAN, request : Requests \cup {NoRequest},
            knows : [Settings -> {Unknown} \cup 0 .. 255],
            shown : Reports, seen : Halves, before : Halves]
  /\ Detached.request = NoRequest
  /\ \A s \in Settings : Detached.knows[s] = Unknown
  /\ \A half \in {1, 2} : Detached.seen[half] = 0 /\ Detached.before[half] = 0
<1>1. 0 \in Reports /\ <<0, 0>> \in Halves
  BY RequestsAssumption DEF Reports, Halves
<1>2. [s \in Settings |-> Unknown] \in [Settings -> {Unknown} \cup 0 .. 255]
  OBVIOUS
<1>3. /\ Detached \in [attached : BOOLEAN, request : Requests \cup {NoRequest},
                       knows : [Settings -> {Unknown} \cup 0 .. 255],
                       shown : Reports, seen : Halves, before : Halves]
      /\ [Detached EXCEPT !.attached = TRUE]
           \in [attached : BOOLEAN, request : Requests \cup {NoRequest},
                knows : [Settings -> {Unknown} \cup 0 .. 255],
                shown : Reports, seen : Halves, before : Halves]
  BY <1>1, <1>2, Zenon DEF Detached
<1> QED
  BY <1>3 DEF Detached

LEMMA Starts == Init => Inv
<1> SUFFICES ASSUME Init PROVE Inv
  OBVIOUS
<1> USE DEF Init
<1>1. input \in Halves /\ 0 \in Reports
  BY RequestsAssumption DEF Halves, Reports
<1>2. regs \in Regs
  BY DEF Regs
<1>3. SlaveOK /\ PcOK
  BY <1>1, DetachedFacts DEF SlaveOK, PcOK
<1>4. SctOK
  BY NoParts DEF SctOK
<1>5. Typed
  BY <1>1, <1>2, <1>3, <1>4 DEF Typed
<1>6. Attachment /\ InProgress
  BY DetachedFacts DEF Attachment, InProgress, Detached
<1>7. KnownIsTrue /\ HandledIsTrue
  BY DetachedFacts DEF KnownIsTrue, HandledIsTrue
<1>8. Copied /\ SeenIsCopied /\ AnswerIsCopied
  BY DetachedFacts DEF Copied, SeenIsCopied, AnswerIsCopied
<1>9. ~Polls
  BY DetachedFacts DEF Polls, Settings, Unknown
<1>10. DueIsPolled
  BY <1>9 DEF DueIsPolled
<1> QED
  BY <1>5, <1>6, <1>7, <1>8, <1>10 DEF Inv

-----------------------------------------------------------------------------
\* The control thread takes a request that has no data stage, handles it and
\* answers, or ends.
LEMMA RecvKeepsInv == Inv /\ Recv => Inv'
<1> SUFFICES ASSUME Inv, Recv PROVE Inv'
  OBVIOUS
<1>1. sct.at = "recv" /\ pc.request # NoRequest /\ UNCHANGED <<usb, input, slave, pc>>
  BY DEF Recv
<1>2. PICK q \in Requests :
        pc.request = q /\ pc.attached /\ (Changes(q) => pc.knows[Setting(q)] = Unknown)
  BY <1>1 DEF Inv, Typed, PcOK, InProgress
<1> DEFINE h == Handle(q)
<1>3. regs \in Regs /\ input \in Halves
  BY DEF Inv, Typed
<1>4. Serves(q, h)
  BY <1>2, <1>3, HandleServes
<1> HIDE DEF h
<1>5. /\ regs' = h.regs
      /\ sct' = IF usb THEN [at |-> "reply", setup |-> q, handled |-> h.handled, data |-> h.data]
                ELSE Ended
  BY <1>2 DEF Recv, Answers, h
<1>6. SctOK'
  BY <1>2, <1>4, <1>5, NoParts DEF SctOK, Serves, Ended
<1>7. Typed'
  BY <1>1, <1>4, <1>5, <1>6, Frame DEF Inv, Typed, Serves
<1>8. Attachment' /\ InProgress'
  BY <1>1, <1>2, <1>5 DEF Inv, Attachment, InProgress, Ended
<1>9. \A s \in Settings : (Changes(q) /\ Setting(q) = s) \/ Value(s)' = Value(s)
  BY <1>4, <1>5 DEF Serves, Value
<1>10. KnownIsTrue'
  BY <1>1, <1>2, <1>9 DEF Inv, KnownIsTrue
<1>11. HandledIsTrue'
  <2>1. CASE ~usb
    BY <1>5, <2>1 DEF HandledIsTrue, Ended
  <2>2. CASE usb
    <3>1. ASSUME h.handled, Setting(q) \in Settings, ~Changes(q), h.data # <<>>
          PROVE  h.data[IF Setting(q) = "leds" THEN 2 ELSE 1] = Byte(ValueIn(regs', Setting(q)))
      BY <1>4, <1>9, <3>1 DEF Serves, Value
    <3>2. h.handled /\ Changes(q) => NewValue(q) \in {Unknown, ValueIn(regs', Setting(q))}
      BY <1>4, <1>5, <2>2 DEF Serves
    <3>3. h.handled /\ q.code = "SET_CONFIGURATION" => regs'.valid
      BY <1>4, <1>5 DEF Serves
    <3>4. sct'.setup = q /\ sct'.data = h.data /\ sct'.handled = h.handled
      BY <1>5, <2>2
    <3> QED
      BY <1>1, <3>1, <3>2, <3>3, <3>4 DEF HandledIsTrue, Value
  <2> QED
    BY <2>1, <2>2
<1>12. AnswerIsCopied'
  <2>1. CASE ~usb
    BY <1>5, <2>1 DEF AnswerIsCopied, Ended
  <2>2. CASE usb
    <3> SUFFICES ASSUME AsksForInput(q)
                 PROVE  /\ h.data[2][2] = input[1] /\ h.data[3][2] = input[2]
                        /\ input[1] \in Reports /\ input[2] \in Reports
                        /\ input[1] - input[2] \in {0, 1}
                        /\ input[1] >= pc.before[1] /\ input[2] >= pc.before[2]
      BY <1>1, <1>5, <2>2 DEF AnswerIsCopied, Reports
    <3>1. h.data = <<Byte(1), <<"half", input[1]>>, <<"half", input[2]>>>>
      BY <1>4 DEF Serves
    <3>2. h.data[2][2] = input[1] /\ h.data[3][2] = input[2]
      BY <3>1
    <3>3. input[1] \in Reports /\ input[2] \in Reports
      BY <1>3 DEF Halves
    <3>4. input[1] - input[2] \in {0, 1}
      BY <3>3 DEF Inv, Copied, Reports
    <3>5. pc.before[1] \in Reports /\ pc.before[2] \in Reports
      BY DEF Inv, Typed, PcOK, Halves
    <3>6. input[1] >= pc.before[1] /\ input[2] >= pc.before[2]
      BY <3>3, <3>5 DEF Inv, SeenIsCopied, Reports
    <3> QED
      BY <3>2, <3>3, <3>4, <3>6
  <2> QED
    BY <2>1, <2>2
<1>13. DueIsPolled'
  <2>1. ASSUME q.code = "SET_CONFIGURATION" PROVE ~Polls
    <3>1. Setting(q) = "configuration" /\ Changes(q)
      BY <2>1, ConfigurationIsSet
    <3> QED
      BY <1>2, <3>1 DEF Polls, Unknown
  <2>2. Polls' = Polls
    BY <1>1 DEF Polls
  <2>3. q.code # "SET_CONFIGURATION" => regs'.valid = regs.valid
    BY <1>4, <1>5 DEF Serves
  <2> QED
    BY <1>1, <2>1, <2>2, <2>3 DEF Inv, DueIsPolled
<1> QED
  BY <1>1, <1>7, <1>8, <1>10, <1>11, <1>12, <1>13, Frame DEF Inv

\* The device was detached while the control thread waited for a request.
LEMMA RecvFailsKeepsInv == Inv /\ RecvFails => Inv'
<1> SUFFICES ASSUME Inv, RecvFails PROVE Inv'
  OBVIOUS
<1>1. sct' = [sct EXCEPT !.at = "none"] /\ UNCHANGED <<usb, input, regs, slave, pc>>
  BY DEF RecvFails
<1>2. sct'.at = "none" /\ sct'.data = sct.data /\ SctOK'
  BY <1>1 DEF Inv, Typed, SctOK
<1>3. Typed'
  BY <1>1, <1>2, Frame DEF Inv, Typed
<1>4. Attachment' /\ InProgress' /\ HandledIsTrue' /\ AnswerIsCopied'
  BY <1>1, <1>2 DEF Inv, Attachment, InProgress, HandledIsTrue, AnswerIsCopied
<1> QED
  BY <1>1, <1>3, <1>4, Frame DEF Inv

\* A request with a data stage is a SET_REPORT to the interface.
LEMMA DataStageIsReport ==
  ASSUME NEW q \in Requests, HasDataStage(q)
  PROVE  /\ q.code = "SET_REPORT" /\ ~AsksForInput(q)
         /\ q.what = "OUTPUT" => Setting(q) = "leds" /\ Changes(q)
         /\ q.what # "OUTPUT" => ~Changes(q) /\ Setting(q) \notin Settings
<1>1. q.type = "class" /\ q.code = "SET_REPORT"
  BY DEF HasDataStage
<1>2. Setting(q) = IF q.what = "OUTPUT" THEN "leds" ELSE "none"
  BY <1>1 DEF Setting
<1> QED
  BY <1>1, <1>2 DEF AsksForInput, Changes, Settings

\* The control thread stores the LEDs, which are those that the PC sent while
\* the device has its handle, or the command.
LEMMA StoredKeepsInv ==
  ASSUME Inv, sct.at # "none", NEW q \in Requests, HasDataStage(q),
         pc.attached => pc.request = q,
         NEW leds \in 0 .. 255, usb => leds = Received(q), Stored(q, leds),
         UNCHANGED <<usb, input, slave, pc>>
  PROVE  Inv'
<1>1. /\ q.code = "SET_REPORT" /\ ~AsksForInput(q)
      /\ q.what = "OUTPUT" => Setting(q) = "leds" /\ Changes(q)
      /\ q.what # "OUTPUT" => ~Changes(q) /\ Setting(q) \notin Settings
  BY DataStageIsReport
<1>2. /\ \/ sct' = [at |-> "enqueue", setup |-> q, handled |-> TRUE, data |-> <<>>]
         \/ sct' = [at |-> "reply", setup |-> q, handled |-> FALSE, data |-> <<>>]
         \/ sct' = Ended
      /\ sct'.at = "enqueue" /\ q.what = "OUTPUT" => regs' = [regs EXCEPT !.leds = leds]
      /\ regs' = regs \/ (q.what = "OUTPUT" /\ regs' = [regs EXCEPT !.leds = leds])
  <2>1. CASE <<q.what, q.value>> \in {<<"OUTPUT", 1>>, <<"FEATURE", 2>>}
    <3>1. /\ sct' = [at |-> "enqueue", setup |-> q, handled |-> TRUE, data |-> <<>>]
          /\ regs' = [regs EXCEPT !.leds = IF q.what = "OUTPUT" THEN leds ELSE @]
      BY <2>1 DEF Stored
    <3> QED
      BY <3>1 DEF Inv, Typed, Regs
  <2>2. CASE <<q.what, q.value>> \notin {<<"OUTPUT", 1>>, <<"FEATURE", 2>>}
    <3>1. UNCHANGED regs /\ Answers(q, FALSE, <<>>)
      BY <2>2 DEF Stored
    <3> QED
      BY <3>1 DEF Answers, Ended
  <2> QED
    BY <2>1, <2>2
<1>3. /\ regs' \in Regs /\ regs'.valid = regs.valid
      /\ \A s \in Settings \ {"leds"} : Value(s)' = Value(s)
  <2>1. CASE regs' = regs
    BY <2>1 DEF Inv, Typed, Value
  <2>2. CASE regs' = [regs EXCEPT !.leds = leds]
    BY <2>2 DEF Inv, Typed, Regs, Value, ValueIn, Settings
  <2> QED
    BY <1>2, <2>1, <2>2
<1>4. /\ SctOK' /\ sct'.at \in {"enqueue", "reply", "none"}
      /\ sct'.at \in {"enqueue", "reply"} => sct'.setup = q
      /\ sct'.at = "enqueue" => sct'.handled
      /\ sct'.at = "reply" => ~sct'.handled
  <2>1. CASE sct' = [at |-> "enqueue", setup |-> q, handled |-> TRUE, data |-> <<>>]
    BY <2>1, NoParts DEF SctOK
  <2>2. CASE sct' = [at |-> "reply", setup |-> q, handled |-> FALSE, data |-> <<>>]
    BY <2>2, NoParts DEF SctOK
  <2>3. CASE sct' = Ended
    BY <2>3, NoParts DEF SctOK, Ended
  <2> QED
    BY <1>2, <2>1, <2>2, <2>3
<1>5. Typed'
  BY <1>3, <1>4, Frame DEF Inv, Typed
<1>6. Attachment' /\ InProgress'
  BY <1>4 DEF Inv, Attachment, InProgress
<1>7. KnownIsTrue'
  <2>1. regs' # regs /\ pc.attached => pc.knows["leds"] = Unknown
    BY <1>1, <1>2, RequestsAssumption DEF Inv, InProgress
  <2>2. ~pc.attached => \A s \in Settings : pc.knows[s] = Unknown
    BY DetachedFacts DEF Inv, Attachment
  <2>3. \A s \in Settings : pc.knows[s] = Unknown \/ Value(s)' = Value(s)
    BY <1>3, <2>1, <2>2 DEF Value
  <2> QED
    BY <2>3 DEF Inv, KnownIsTrue
<1>8. HandledIsTrue'
  <2>1. ASSUME Changes(q), pc.attached, usb, sct'.at = "enqueue"
        PROVE  NewValue(q) \in {Unknown, ValueIn(regs', Setting(q))}
    <3>1. q.what = "OUTPUT" /\ Setting(q) = "leds"
      BY <1>1, <2>1
    <3>2. regs' = [regs EXCEPT !.leds = Received(q)]
      BY <1>2, <2>1, <3>1
    <3>3. ValueIn(regs', "leds") = Received(q)
      BY <3>2 DEF Inv, Typed, Regs, ValueIn
    <3>4. NewValue(q) = IF q.length > 1 THEN q.data ELSE Unknown
      BY <1>1 DEF NewValue
    <3> QED
      BY <2>1, <3>1, <3>3, <3>4 DEF Received
  <2> QED
    BY <1>1, <1>4, <2>1 DEF HandledIsTrue, Value
<1>9. AnswerIsCopied'
  BY <1>1, <1>4 DEF AnswerIsCopied
<1>10. DueIsPolled'
  BY <1>3 DEF Inv, DueIsPolled, Polls
<1> QED
  BY <1>5, <1>6, <1>7, <1>8, <1>9, <1>10, Frame DEF Inv

\* The control thread takes a SET_REPORT and begins its data stage, or goes on
\* without one.
LEMMA SetReportKeepsInv == Inv /\ SetReport => Inv'
<1> SUFFICES ASSUME Inv, SetReport PROVE Inv'
  OBVIOUS
<1>1. /\ sct.at = "recv" /\ HasDataStage(pc.request) /\ pc.request \in Requests /\ pc.attached
      /\ UNCHANGED <<usb, input, slave, pc>>
  BY DEF SetReport, Inv, Typed, PcOK, InProgress, HasDataStage, NoRequest
<1>2. CASE usb
  <2>1. /\ sct' = [at |-> "data", setup |-> pc.request, handled |-> FALSE, data |-> <<>>]
        /\ UNCHANGED regs
    BY <1>2 DEF SetReport
  <2>2. SctOK'
    BY <1>1, <2>1, NoParts DEF SctOK
  <2>3. Typed'
    BY <1>1, <2>1, <2>2, Frame DEF Inv, Typed
  <2>4. Attachment' /\ InProgress' /\ HandledIsTrue' /\ AnswerIsCopied'
    BY <1>1, <1>2, <2>1 DEF Inv, Attachment, InProgress, HandledIsTrue, AnswerIsCopied
  <2> QED
    BY <1>1, <2>1, <2>3, <2>4, Frame DEF Inv
<1>3. CASE ~usb
  <2>1. Stored(pc.request, 0) /\ 0 \in 0 .. 255
    BY <1>3 DEF SetReport
  <2> QED
    BY <1>1, <1>3, <2>1, StoredKeepsInv
<1> QED
  BY <1>2, <1>3

\* The data stage is over.
LEMMA DataStageKeepsInv == Inv /\ DataStage => Inv'
<1> SUFFICES ASSUME Inv, DataStage PROVE Inv'
  OBVIOUS
<1> DEFINE q == sct.setup
<1>1. /\ sct.at = "data" /\ Stored(q, Received(q)) /\ UNCHANGED <<usb, input, slave, pc>>
      /\ q \in Requests /\ HasDataStage(q) /\ (pc.attached => pc.request = q)
  BY DEF DataStage, Inv, InProgress
<1> HIDE DEF q
<1>2. Received(q) \in 0 .. 255
  BY <1>1, RequestsAssumption DEF Received
<1> QED
  BY <1>1, <1>2, StoredKeepsInv

\* The event or command is in the queue.
LEMMA EnqueueKeepsInv == Inv /\ Enqueue => Inv'
<1> SUFFICES ASSUME Inv, Enqueue PROVE Inv'
  OBVIOUS
<1> DEFINE q == sct.setup
<1>1. /\ sct.at = "enqueue" /\ sct.handled /\ UNCHANGED <<usb, input, regs, slave, pc>>
      /\ q \in Requests /\ HasDataStage(q) /\ (pc.attached => pc.request = q)
      /\ sct' = IF usb THEN [at |-> "reply", setup |-> q, handled |-> TRUE, data |-> <<>>]
                ELSE Ended
  BY DEF Enqueue, Answers, Inv, InProgress
<1>2. /\ q.code = "SET_REPORT" /\ ~AsksForInput(q)
      /\ Setting(q) \in Settings => Changes(q)
  BY <1>1, DataStageIsReport
<1>3. usb /\ Changes(q) /\ pc.attached => NewValue(q) \in {Unknown, Value(Setting(q))}
  BY <1>1 DEF Inv, HandledIsTrue
<1> HIDE DEF q
<1>4. SctOK'
  BY <1>1, NoParts DEF SctOK, Ended
<1>5. Typed'
  BY <1>1, <1>4, Frame DEF Inv, Typed
<1>6. Attachment' /\ InProgress'
  BY <1>1 DEF Inv, Attachment, InProgress, Ended
<1>7. HandledIsTrue' /\ AnswerIsCopied'
  <2>1. CASE ~usb
    BY <1>1, <2>1 DEF HandledIsTrue, AnswerIsCopied, Ended
  <2>2. CASE usb
    BY <1>1, <1>2, <1>3, <2>2 DEF HandledIsTrue, AnswerIsCopied, Value
  <2> QED
    BY <2>1, <2>2
<1> QED
  BY <1>1, <1>5, <1>6, <1>7, Frame DEF Inv

\* What the PC is told becomes what it knows and has seen.
LEMMA ReplyKeepsInv == Inv /\ Reply => Inv'
<1> SUFFICES ASSUME Inv, Reply PROVE Inv'
  OBVIOUS
<1>1. /\ sct.at = "reply" /\ UNCHANGED <<usb, input, regs, slave>>
      /\ sct' = [at |-> IF usb THEN "recv" ELSE "none", setup |-> NoRequest,
                 handled |-> FALSE, data |-> <<>>]
  BY DEF Reply, Ended
<1>2. PICK q \in Requests : q = sct.setup /\ (pc.attached => pc.request = q)
  BY <1>1 DEF Inv, InProgress
<1> DEFINE ok == pc.attached /\ sct.handled
           knows == IF ok /\ Changes(q) THEN [pc.knows EXCEPT ![Setting(q)] = NewValue(q)]
                    ELSE pc.knows
           seen == IF ok /\ AsksForInput(q)
                   THEN Newest(pc.seen, sct.data[2][2], sct.data[3][2]) ELSE pc.seen
<1>3. pc' = [pc EXCEPT !.request = NoRequest, !.knows = knows, !.seen = seen]
  BY <1>2 DEF Reply
<1>4. knows \in [Settings -> {Unknown} \cup 0 .. 255]
  <2>1. NewValue(q) \in {Unknown} \cup 0 .. 255
    BY RequestsAssumption DEF NewValue
  <2>2. pc.knows \in [Settings -> {Unknown} \cup 0 .. 255]
    BY DEF Inv, Typed, PcOK
  <2> QED
    BY <2>1, <2>2
<1>5. seen \in Halves /\ \A half \in {1, 2} : seen[half] <= input[half]
  <2>1. pc.seen \in Halves /\ \A half \in {1, 2} : pc.seen[half] <= input[half]
    BY DEF Inv, Typed, PcOK, SeenIsCopied
  <2>2. CASE ok /\ AsksForInput(q)
    <3> DEFINE first == sct.data[2][2]
               second == sct.data[3][2]
    <3>1. first \in Reports /\ first <= input[1] /\ second \in Reports /\ second <= input[2]
      BY <1>1, <1>2, <2>2 DEF Inv, AnswerIsCopied
    <3>2. seen = Newest(pc.seen, first, second)
      BY <2>2
    <3> HIDE DEF first, second, seen
    <3> QED
      BY <2>1, <3>1, <3>2 DEF Newest, Halves
  <2>3. CASE ~(ok /\ AsksForInput(q))
    BY <2>1, <2>3
  <2> QED
    BY <2>2, <2>3
<1>6. \A s \in Settings : knows[s] \in {Unknown, Value(s)}
  <2> SUFFICES ASSUME NEW s \in Settings PROVE knows[s] \in {Unknown, Value(s)}
    OBVIOUS
  <2>1. pc.knows \in [Settings -> {Unknown} \cup 0 .. 255] /\ pc.knows[s] \in {Unknown, Value(s)}
    BY DEF Inv, Typed, PcOK, KnownIsTrue
  <2>2. ok /\ Changes(q) => NewValue(q) \in {Unknown, Value(Setting(q))}
    BY <1>1, <1>2 DEF Inv, HandledIsTrue
  <2> QED
    BY <2>1, <2>2
<1> HIDE DEF knows, seen
<1>7. /\ pc' \in [attached : BOOLEAN, request : Requests \cup {NoRequest},
                  knows : [Settings -> {Unknown} \cup 0 .. 255],
                  shown : Reports, seen : Halves, before : Halves]
      /\ pc'.attached = pc.attached /\ pc'.request = NoRequest /\ pc'.knows = knows
      /\ pc'.shown = pc.shown /\ pc'.seen = seen /\ pc'.before = pc.before
  BY <1>3, <1>4, <1>5 DEF Inv, Typed, PcOK
<1>8. SctOK' /\ sct'.at \in {"none", "recv"} /\ (sct'.at # "none" => usb)
  BY <1>1, NoParts DEF SctOK, Inv, Typed
<1>9. Typed'
  BY <1>1, <1>7, <1>8, Frame DEF Inv, Typed, PcOK
<1>10. Attachment'
  <2>1. ~pc.attached => pc' = pc
    <3> SUFFICES ASSUME ~pc.attached PROVE pc' = pc
      OBVIOUS
    <3>1. pc = Detached /\ pc.request = NoRequest
      BY DetachedFacts DEF Inv, Attachment
    <3>2. knows = pc.knows /\ seen = pc.seen
      BY DEF knows, seen
    <3>3. pc \in [attached : BOOLEAN, request : Requests \cup {NoRequest},
                  knows : [Settings -> {Unknown} \cup 0 .. 255],
                  shown : Reports, seen : Halves, before : Halves]
      BY DEF Inv, Typed, PcOK
    <3> QED
      BY <1>3, <3>1, <3>2, <3>3
  <2> QED
    BY <1>1, <1>7, <1>8, <2>1 DEF Inv, Attachment
<1>11. InProgress' /\ HandledIsTrue' /\ AnswerIsCopied'
  BY <1>7, <1>8 DEF InProgress, HandledIsTrue, AnswerIsCopied
<1>12. KnownIsTrue'
  BY <1>1, <1>6, <1>7 DEF KnownIsTrue, Value
<1>13. SeenIsCopied'
  BY <1>1, <1>5, <1>7 DEF Inv, SeenIsCopied
<1>14. DueIsPolled'
  <2>1. CASE ok /\ q.code = "SET_CONFIGURATION"
    <3>1. usb => regs.valid
      BY <1>1, <1>2, <2>1 DEF Inv, HandledIsTrue
    <3>2. ~Polls
      <4>1. pc.knows["configuration"] = Unknown
        BY <1>2, <2>1, ConfigurationIsSet, RequestsAssumption DEF Inv, InProgress
      <4> QED
        BY <4>1 DEF Polls, Unknown
    <3> QED
      BY <1>1, <3>1, <3>2 DEF Inv, DueIsPolled
  <2>2. CASE ~(ok /\ q.code = "SET_CONFIGURATION")
    <3>1. Changes(q) /\ Setting(q) = "configuration" => q.code = "SET_CONFIGURATION"
      BY DEF Changes, Setting
    <3>2. knows["configuration"] = pc.knows["configuration"]
      BY <2>2, <3>1 DEF knows, Inv, Typed, PcOK, Settings
    <3>3. Polls' <=> Polls
      BY <1>7, <3>2 DEF Polls
    <3> QED
      BY <1>1, <1>7, <3>3 DEF Inv, DueIsPolled
  <2> QED
    BY <2>1, <2>2
<1> QED
  BY <1>1, <1>9, <1>10, <1>11, <1>12, <1>13, <1>14, Frame DEF Inv

-----------------------------------------------------------------------------
\* The slave thread.
LEMMA ConnectKeepsInv == Inv /\ connect => Inv'
<1> SUFFICES ASSUME Inv, connect PROVE Inv'
  OBVIOUS
<1>1. /\ slave.at = "idle" /\ ~usb /\ usb' = TRUE
      /\ regs' = [regs EXCEPT !.halted = {}] /\ sct' = [sct EXCEPT !.at = "recv"]
      /\ pc' = [Detached EXCEPT !.attached = TRUE]
      /\ UNCHANGED <<input, slave>>
  BY DEF connect
<1>2. regs' \in Regs
  BY <1>1 DEF Inv, Typed, Regs
<1>3. SctOK' /\ sct'.at = "recv"
  BY <1>1 DEF Inv, Typed, SctOK
<1>4. PcOK' /\ pc'.attached
  BY <1>1, DetachedFacts DEF PcOK
<1>5. /\ pc'.request = NoRequest /\ pc'.knows = Detached.knows
      /\ pc'.seen = Detached.seen /\ pc'.before = Detached.before
  BY <1>1 DEF Detached
<1>6. Typed'
  BY <1>1, <1>2, <1>3, <1>4, Frame DEF Inv, Typed
<1>7. Attachment'
  BY <1>1, <1>4 DEF Attachment
<1>8. InProgress' /\ HandledIsTrue' /\ AnswerIsCopied'
  BY <1>3, <1>5 DEF InProgress, HandledIsTrue, AnswerIsCopied
<1>9. KnownIsTrue'
  BY <1>5, DetachedFacts DEF KnownIsTrue
<1>10. SeenIsCopied'
  BY <1>1, <1>5, DetachedFacts DEF SeenIsCopied, Inv, Typed, Halves, Reports
<1>11. DueIsPolled'
  <2>1. ~Polls'
    BY <1>5, DetachedFacts DEF Polls, Settings, Unknown
  <2>2. ~slave.due
    BY <1>1 DEF Inv, DueIsPolled
  <2> QED
    BY <1>1, <2>1, <2>2 DEF DueIsPolled
<1> QED
  BY <1>1, <1>6, <1>7, <1>8, <1>9, <1>10, <1>11, Frame DEF Inv

LEMMA DisconnectKeepsInv == Inv /\ disconnect => Inv'
<1> SUFFICES ASSUME Inv, disconnect PROVE Inv'
  OBVIOUS
<1>1. /\ slave.at = "idle" /\ usb /\ usb' = FALSE /\ regs' = [regs EXCEPT !.valid = FALSE]
      /\ slave' = [slave EXCEPT !.at = "detach", !.due = FALSE]
      /\ UNCHANGED <<input, sct, pc>>
  BY DEF disconnect
<1>2. regs' \in Regs /\ \A s \in Settings : Value(s)' = Value(s)
  BY <1>1 DEF Inv, Typed, Regs, Value, ValueIn, Settings
<1>3. SlaveOK' /\ slave'.at = "detach" /\ slave'.report = slave.report /\ ~slave'.due
  BY <1>1 DEF Inv, Typed, SlaveOK
<1>4. Typed'
  BY <1>1, <1>2, <1>3, Frame DEF Inv, Typed
<1>5. Attachment' /\ Copied'
  BY <1>1, <1>3 DEF Inv, Attachment, Copied
<1>6. KnownIsTrue'
  BY <1>1, <1>2 DEF Inv, KnownIsTrue
<1>7. HandledIsTrue'
  <2>1. Setting(sct.setup) \in Settings => Value(Setting(sct.setup))' = Value(Setting(sct.setup))
    BY <1>1, <1>2
  <2>2. Changes(sct.setup) => Setting(sct.setup) \in Settings
    BY DEF Changes
  <2> QED
    BY <1>1, <2>1, <2>2 DEF Inv, HandledIsTrue
<1>8. DueIsPolled'
  BY <1>1, <1>3 DEF DueIsPolled
<1> QED
  BY <1>1, <1>4, <1>5, <1>6, <1>7, <1>8, Frame DEF Inv

LEMMA DetachKeepsInv == Inv /\ Detach => Inv'
<1> SUFFICES ASSUME Inv, Detach PROVE Inv'
  OBVIOUS
<1>1. /\ slave.at = "detach" /\ slave' = [slave EXCEPT !.at = "join"] /\ pc' = Detached
      /\ UNCHANGED <<usb, input, regs, sct>>
  BY DEF Detach
<1>2. /\ SlaveOK' /\ slave'.at = "join" /\ slave'.report = slave.report
      /\ slave'.due = slave.due /\ ~slave.due
  BY <1>1 DEF Inv, Typed, SlaveOK, DueIsPolled, Attachment
<1>3. PcOK' /\ ~pc'.attached
  BY <1>1, DetachedFacts DEF PcOK, Detached
<1>4. Typed'
  BY <1>1, <1>2, <1>3, Frame DEF Inv, Typed
<1>5. Attachment' /\ Copied'
  BY <1>1, <1>2, <1>3 DEF Inv, Attachment, Copied
<1>6. InProgress' /\ KnownIsTrue'
  BY <1>1, <1>3, DetachedFacts DEF Inv, InProgress, KnownIsTrue
<1>7. HandledIsTrue'
  BY <1>1, <1>3 DEF Inv, HandledIsTrue, Value
<1>8. SeenIsCopied'
  BY <1>1, DetachedFacts DEF Inv, SeenIsCopied, Typed, Halves, Reports
<1>9. AnswerIsCopied'
  BY <1>1, <1>3 DEF Inv, AnswerIsCopied
<1>10. DueIsPolled'
  <2>1. ~Polls'
    BY <1>1, DetachedFacts DEF Polls, Settings, Unknown
  <2> QED
    BY <1>2, <2>1 DEF DueIsPolled
<1> QED
  BY <1>4, <1>5, <1>6, <1>7, <1>8, <1>9, <1>10 DEF Inv

LEMMA JoinKeepsInv == Inv /\ Join => Inv'
<1> SUFFICES ASSUME Inv, Join PROVE Inv'
  OBVIOUS
<1>1. /\ slave.at = "join" /\ sct.at = "none" /\ slave' = [slave EXCEPT !.at = "idle"]
      /\ UNCHANGED <<usb, input, regs, sct, pc>>
  BY DEF Join
<1>2. /\ SlaveOK' /\ slave'.at = "idle" /\ slave'.report = slave.report
      /\ slave'.due = slave.due /\ ~slave.due
  BY <1>1 DEF Inv, Typed, SlaveOK, DueIsPolled, Attachment
<1>3. Typed'
  BY <1>1, <1>2, Frame DEF Inv, Typed
<1>4. Attachment' /\ Copied'
  BY <1>1, <1>2 DEF Inv, Attachment, Copied
<1>5. DueIsPolled'
  BY <1>1, <1>2 DEF Inv, DueIsPolled, Polls
<1> QED
  BY <1>1, <1>3, <1>4, <1>5, Frame DEF Inv

\* handle_input_report() copies the next report, ...
LEMMA CopyFirstKeepsInv == Inv /\ CopyFirst => Inv'
<1> SUFFICES ASSUME Inv, CopyFirst PROVE Inv'
  OBVIOUS
<1>1. /\ slave.at = "idle" /\ slave.report < MaxReports
      /\ slave' = [at |-> "copy", report |-> slave.report + 1, due |-> Polls]
      /\ input' = [input EXCEPT ![1] = slave.report + 1]
      /\ UNCHANGED <<usb, regs, sct, pc>>
  BY DEF CopyFirst
<1>2. slave.report \in Reports /\ slave.report + 1 \in Reports /\ input \in Halves
  BY <1>1, RequestsAssumption DEF Inv, Typed, SlaveOK, Reports
<1>3. /\ input' \in Halves /\ input'[1] = slave.report + 1 /\ input'[2] = input[2]
      /\ input[1] = slave.report /\ input[2] = slave.report
  BY <1>1, <1>2 DEF Inv, Copied, Halves
<1>4. SlaveOK'
  <2>1. Polls \in BOOLEAN
    BY DEF Polls
  <2> QED
    BY <1>1, <1>2, <2>1, Zenon DEF SlaveOK
<1>5. Typed'
  BY <1>1, <1>3, <1>4, Frame DEF Inv, Typed
<1>6. slave'.at = "copy" /\ slave'.report = slave.report + 1 /\ slave'.due = Polls
  BY <1>1
<1>7. Attachment'
  BY <1>1, <1>6 DEF Inv, Attachment
<1>8. Copied'
  BY <1>3, <1>6 DEF Copied
<1>9. SeenIsCopied'
  <2>1. \A half \in {1, 2} : pc.seen[half] \in Reports /\ pc.before[half] \in Reports
    BY DEF Inv, Typed, PcOK, Halves
  <2> QED
    BY <1>1, <1>2, <1>3, <2>1 DEF Inv, SeenIsCopied, Reports
<1>10. AnswerIsCopied'
  BY <1>1, <1>2, <1>3 DEF Inv, AnswerIsCopied, Reports
<1>11. DueIsPolled'
  <2>1. Polls => usb
    <3>1. pc.attached \/ ~Polls
      BY DetachedFacts DEF Polls, Inv, Attachment, Settings, Unknown
    <3> QED
      BY <1>1, <3>1 DEF Inv, Attachment
  <2>2. Polls' <=> Polls
    BY <1>1 DEF Polls
  <2> QED
    BY <1>1, <1>6, <2>1, <2>2 DEF Inv, DueIsPolled
<1> QED
  BY <1>1, <1>5, <1>7, <1>8, <1>9, <1>10, <1>11, Frame DEF Inv

\* ... which a PC that polls is bound to be sent.
LEMMA CopySecondKeepsInv == Inv /\ CopySecond => Inv'
<1> SUFFICES ASSUME Inv, CopySecond PROVE Inv'
  OBVIOUS
<1>1. /\ slave.at = "copy"
      /\ slave' = [slave EXCEPT !.at = IF regs.valid THEN "transfer" ELSE "idle"]
      /\ input' = [input EXCEPT ![2] = slave.report]
      /\ UNCHANGED <<usb, regs, sct, pc>>
  BY DEF CopySecond
<1>2. slave.report \in Reports /\ input \in Halves
  BY DEF Inv, Typed, SlaveOK
<1>3. /\ input' \in Halves /\ input'[1] = input[1] /\ input'[2] = slave.report
      /\ input[1] = slave.report /\ input[2] \in Reports /\ slave.report = input[2] + 1
  BY <1>1, <1>2 DEF Inv, Copied, Halves
<1>4. /\ SlaveOK' /\ slave'.at = IF regs.valid THEN "transfer" ELSE "idle"
      /\ slave'.report = slave.report /\ slave'.due = slave.due
  BY <1>1 DEF Inv, Typed, SlaveOK
<1>5. Typed'
  BY <1>1, <1>3, <1>4, Frame DEF Inv, Typed
<1>6. Attachment'
  BY <1>1, <1>4 DEF Inv, Attachment
<1>7. Copied'
  BY <1>3, <1>4 DEF Copied
<1>8. SeenIsCopied'
  <2>1. \A half \in {1, 2} : pc.seen[half] \in Reports /\ pc.before[half] \in Reports
    BY DEF Inv, Typed, PcOK, Halves
  <2> QED
    BY <1>1, <1>2, <1>3, <2>1 DEF Inv, SeenIsCopied, Reports
<1>9. AnswerIsCopied'
  BY <1>1, <1>2, <1>3 DEF Inv, AnswerIsCopied, Reports
<1>10. DueIsPolled'
  BY <1>1, <1>4 DEF Inv, DueIsPolled, Polls
<1> QED
  BY <1>1, <1>5, <1>6, <1>7, <1>8, <1>9, <1>10, Frame DEF Inv

LEMMA TransferKeepsInv == Inv /\ Transfer => Inv'
<1> SUFFICES ASSUME Inv, Transfer PROVE Inv'
  OBVIOUS
<1> DEFINE seen == Newest(pc.seen, slave.report, slave.report)
<1>1. /\ slave.at = "transfer"
      /\ pc' = [pc EXCEPT !.shown = slave.report, !.seen = seen]
      /\ slave' = [slave EXCEPT !.at = "idle"]
      /\ UNCHANGED <<usb, input, regs, sct>>
  BY DEF Transfer
<1>2. slave.report \in Reports /\ input[1] = slave.report /\ input[2] = slave.report
  BY <1>1 DEF Inv, Typed, SlaveOK, Copied, Halves, Reports
<1>3. pc.seen \in Halves /\ \A half \in {1, 2} : pc.seen[half] <= input[half]
  BY DEF Inv, Typed, PcOK, SeenIsCopied
<1>4. seen \in Halves /\ \A half \in {1, 2} : seen[half] <= input[half]
  BY <1>2, <1>3 DEF Newest, Halves, Reports
<1> HIDE DEF seen
<1>5. /\ PcOK' /\ pc'.attached = pc.attached /\ pc'.request = pc.request /\ pc'.knows = pc.knows
      /\ pc'.shown = slave.report /\ pc'.seen = seen /\ pc'.before = pc.before
  BY <1>1, <1>2, <1>4 DEF Inv, Typed, PcOK
<1>6. /\ SlaveOK' /\ slave'.at = "idle" /\ slave'.report = slave.report
      /\ slave'.due = slave.due
  BY <1>1 DEF Inv, Typed, SlaveOK
<1>7. pc.attached
  BY DetachedFacts DEF Transfer, Polls, Inv, Attachment, Settings, Unknown
<1>8. Typed'
  BY <1>1, <1>5, <1>6, Frame DEF Inv, Typed
<1>9. Attachment' /\ Copied'
  BY <1>1, <1>2, <1>5, <1>6, <1>7 DEF Inv, Attachment, Copied
<1>10. InProgress' /\ KnownIsTrue' /\ HandledIsTrue'
  BY <1>1, <1>5 DEF Inv, InProgress, KnownIsTrue, HandledIsTrue, Value
<1>11. SeenIsCopied' /\ AnswerIsCopied'
  BY <1>1, <1>4, <1>5 DEF Inv, SeenIsCopied, AnswerIsCopied
<1>12. DueIsPolled'
  BY <1>1, <1>5, <1>6 DEF Inv, DueIsPolled, Polls
<1> QED
  BY <1>8, <1>9, <1>10, <1>11, <1>12 DEF Inv

-----------------------------------------------------------------------------
\* The PC.
LEMMA AskKeepsInv ==
  ASSUME Inv, NEW q \in Requests, Ask(q)
  PROVE  Inv'
<1> DEFINE before == IF AsksForInput(q) THEN pc.seen ELSE pc.before
           knows == IF Changes(q) THEN [pc.knows EXCEPT ![Setting(q)] = Unknown] ELSE pc.knows
<1>1. /\ pc.attached /\ pc.request = NoRequest /\ q.code # "SET_CONFIGURATION"
      /\ pc' = [pc EXCEPT !.request = q, !.before = before, !.knows = knows]
      /\ UNCHANGED <<usb, input, regs, slave, sct>>
  BY DEF Ask
<1>2. pc.knows \in [Settings -> {Unknown} \cup 0 .. 255] /\ pc.seen \in Halves /\ pc.before \in Halves
  BY DEF Inv, Typed, PcOK
<1>3. /\ knows \in [Settings -> {Unknown} \cup 0 .. 255]
      /\ \A s \in Settings : knows[s] \in {Unknown, pc.knows[s]}
      /\ Changes(q) => knows[Setting(q)] = Unknown
  BY <1>2 DEF Changes
<1>4. knows["configuration"] = pc.knows["configuration"]
  <2>1. Changes(q) => Setting(q) # "configuration"
    BY <1>1 DEF Changes, Setting
  <2> QED
    BY <1>2, <2>1 DEF Settings
<1>5. before \in Halves /\ \A half \in {1, 2} : before[half] <= input[half]
  BY <1>2 DEF Inv, SeenIsCopied
<1> HIDE DEF before, knows
<1>6. /\ PcOK' /\ pc'.attached = pc.attached /\ pc'.request = q /\ pc'.knows = knows
      /\ pc'.shown = pc.shown /\ pc'.seen = pc.seen /\ pc'.before = before
  BY <1>1, <1>3, <1>5 DEF Inv, Typed, PcOK
<1>7. sct.at \notin {"data", "enqueue", "reply"}
  BY <1>1, RequestsAssumption DEF Inv, InProgress
<1>8. Typed'
  BY <1>1, <1>6, Frame DEF Inv, Typed
<1>9. Attachment'
  BY <1>1, <1>6 DEF Inv, Attachment
<1>10. InProgress' /\ HandledIsTrue' /\ AnswerIsCopied'
  BY <1>1, <1>3, <1>6, <1>7 DEF Inv, InProgress, HandledIsTrue, AnswerIsCopied
<1>11. KnownIsTrue'
  BY <1>1, <1>3, <1>6 DEF Inv, KnownIsTrue, Value
<1>12. SeenIsCopied'
  BY <1>1, <1>5, <1>6 DEF Inv, SeenIsCopied
<1>13. DueIsPolled'
  BY <1>1, <1>4, <1>6 DEF Inv, DueIsPolled, Polls
<1> QED
  BY <1>1, <1>8, <1>9, <1>10, <1>11, <1>12, <1>13, Frame DEF Inv

LEMMA AskConfigurationKeepsInv ==
  ASSUME Inv, NEW q \in Requests, AskConfiguration(q)
  PROVE  Inv'
<1> DEFINE knows == [[pc.knows EXCEPT !["configuration"] = Unknown] EXCEPT !["halt"] = Unknown]
<1>1. /\ pc.attached /\ pc.request = NoRequest /\ q.code = "SET_CONFIGURATION"
      /\ pc' = [pc EXCEPT !.request = q, !.shown = 0, !.seen = <<0, 0>>, !.before = <<0, 0>>,
                          !.knows = knows]
      /\ slave' = [slave EXCEPT !.due = FALSE]
      /\ UNCHANGED <<usb, input, regs, sct>>
  BY DEF AskConfiguration
<1>2. pc.knows \in [Settings -> {Unknown} \cup 0 .. 255]
  BY DEF Inv, Typed, PcOK
<1>3. /\ knows \in [Settings -> {Unknown} \cup 0 .. 255]
      /\ \A s \in Settings : knows[s] \in {Unknown, pc.knows[s]}
      /\ knows["configuration"] = Unknown
  BY <1>2 DEF Settings
<1>4. 0 \in Reports /\ <<0, 0>> \in Halves /\ \A half \in {1, 2} : <<0, 0>>[half] = 0
  BY RequestsAssumption DEF Reports, Halves
<1> HIDE DEF knows
<1>5. /\ PcOK' /\ pc'.attached = pc.attached /\ pc'.request = q /\ pc'.knows = knows
      /\ pc'.seen = <<0, 0>> /\ pc'.before = <<0, 0>>
  BY <1>1, <1>3, <1>4 DEF Inv, Typed, PcOK
<1>6. /\ SlaveOK' /\ slave'.at = slave.at /\ slave'.report = slave.report /\ ~slave'.due
  BY <1>1 DEF Inv, Typed, SlaveOK
<1>7. sct.at \notin {"data", "enqueue", "reply"}
  BY <1>1, RequestsAssumption DEF Inv, InProgress
<1>8. Typed'
  BY <1>1, <1>5, <1>6, Frame DEF Inv, Typed
<1>9. Attachment' /\ Copied'
  BY <1>1, <1>5, <1>6 DEF Inv, Attachment, Copied
<1>10. InProgress' /\ HandledIsTrue' /\ AnswerIsCopied'
  <2>1. Setting(q) = "configuration"
    BY <1>1, ConfigurationIsSet
  <2> QED
    BY <1>1, <1>3, <1>5, <1>7, <2>1 DEF Inv, InProgress, HandledIsTrue, AnswerIsCopied
<1>11. KnownIsTrue'
  BY <1>1, <1>3, <1>5 DEF Inv, KnownIsTrue, Value
<1>12. SeenIsCopied'
  <2>1. \A half \in {1, 2} : input[half] >= 0
    BY DEF Inv, Typed, Halves, Reports
  <2> QED
    BY <1>1, <1>4, <1>5, <2>1 DEF SeenIsCopied
<1>13. DueIsPolled'
  BY <1>3, <1>5, <1>6 DEF DueIsPolled, Polls, Unknown
<1> QED
  BY <1>1, <1>8, <1>9, <1>10, <1>11, <1>12, <1>13, Frame DEF Inv

-----------------------------------------------------------------------------
\* The invariant, by one step for each action.
THEOREM ControlInvariant == Spec => []Inv
<1>1. Inv /\ [Next]_vars => Inv'
  <2> SUFFICES ASSUME Inv, [Next]_vars PROVE Inv'
    OBVIOUS
  <2>1. CASE ControlThread
    BY <2>1, RecvKeepsInv, SetReportKeepsInv, RecvFailsKeepsInv, DataStageKeepsInv,
       EnqueueKeepsInv, ReplyKeepsInv
    DEF ControlThread
  <2>2. CASE Events
    BY <2>2, ConnectKeepsInv, DisconnectKeepsInv, CopyFirstKeepsInv DEF Events
  <2>3. CASE Goes
    BY <2>3, DetachKeepsInv, JoinKeepsInv, CopySecondKeepsInv, TransferKeepsInv DEF Goes
  <2>4. CASE \E q \in Requests : Ask(q) \/ AskConfiguration(q)
    BY <2>4, AskKeepsInv, AskConfigurationKeepsInv
  <2>5. CASE UNCHANGED vars
    <3>1. UNCHANGED <<usb, input, regs, slave, sct, pc>>
      BY <2>5 DEF vars
    <3>2. Typed'
      BY <3>1, Frame DEF Inv, Typed
    <3> QED
      BY <3>1, <3>2, Frame DEF Inv
  <2> QED
    BY <2>1, <2>2, <2>3, <2>4, <2>5 DEF Next
<1> QED
  BY <1>1, Starts, PTL DEF Spec

\* Every variable has its type; in particular no answer is longer than the
\* buffers that the control thread has for it.
THEOREM TypeCorrect == Spec => []TypeOK
<1>1. Inv => TypeOK
  <2> SUFFICES ASSUME Inv PROVE TypeOK
    OBVIOUS
  <2>1. usb \in BOOLEAN /\ regs.valid \in BOOLEAN
    BY DEF Inv, Typed, Regs
  <2>2. input[1] \in 0 .. MaxReports /\ input[2] \in 0 .. MaxReports
    BY DEF Inv, Typed, Halves, Reports
  <2>3. regs.halted \subseteq 0 .. 15 /\ slave.at \in {"idle", "copy", "transfer", "detach", "join"}
    BY DEF Inv, Typed, Regs, SlaveOK
  <2>4. sct.at \in {"none", "recv", "data", "enqueue", "reply"} /\ Size(sct.data) <= 256
    BY DEF Inv, Typed, SctOK
  <2>5. /\ pc.request \in Requests \cup {NoRequest}
        /\ pc.knows \in [Settings -> {Unknown} \cup 0 .. 255]
    BY DEF Inv, Typed, PcOK
  <2> QED
    BY <2>1, <2>2, <2>3, <2>4, <2>5 DEF TypeOK
<1> QED
  BY <1>1, ControlInvariant, PTL

\* What the PC has set in this connection and asks for is what it is told.
THEOREM AnswersAreTrue == Spec => []AnswersMatch
<1>1. Inv => AnswersMatch
  <2> SUFFICES ASSUME Inv, NEW s, s = Setting(sct.setup), sct.at = "reply", sct.handled,
                      sct.data # <<>>, pc.attached, s \in Settings, pc.knows[s] # Unknown
               PROVE  sct.data[IF s = "leds" THEN 2 ELSE 1] = Byte(pc.knows[s])
    BY DEF AnswersMatch
  <2>1. ~Changes(sct.setup)
    BY RequestsAssumption DEF Inv, InProgress
  <2>2. pc.knows[s] = Value(s)
    BY DEF Inv, KnownIsTrue
  <2> QED
    BY <2>1, <2>2 DEF Inv, HandledIsTrue
<1> QED
  BY <1>1, ControlInvariant, PTL

\* No part of an answer to GET_REPORT is older than what the PC had seen
\* when it asked, and at most two consecutive reports are mixed.
THEOREM InputIsRecent == Spec => []AnswersAreRecent
<1>1. Inv => AnswersAreRecent
  BY DEF Inv, AnswerIsCopied, AnswersAreRecent
<1> QED
  BY <1>1, ControlInvariant, PTL

\* A report that comes while the device is configured is sent to the PC
\* before the slave thread goes on.
THEOREM DueReportIsSent == Spec => []DueReportsArrive
<1>1. Inv => DueReportsArrive
  BY DEF Inv, DueIsPolled, DueReportsArrive
<1> QED
  BY <1>1, ControlInvariant, PTL

-----------------------------------------------------------------------------
(***************************************************************************)
(* The control pipe.                                                       *)
(***************************************************************************)
\* Each step of the control thread is one of the control pipe, or changes
\* nothing of it.
LEMMA ControlServesPipe == Inv /\ ControlThread => [Pipe!Next]_(Pipe!vars)
<1> SUFFICES ASSUME Inv, ControlThread PROVE [Pipe!Next]_(Pipe!vars)
  OBVIOUS
<1> USE DEF Pipe!Next, Pipe!vars
<1>0. SlaveOK /\ SctOK /\ PcOK /\ Attachment /\ InProgress
  BY DEF Inv, Typed
<1>5. pc.request # NoRequest => pc.attached /\ (usb \/ slave.at = "detach")
  BY <1>0 DEF Attachment, InProgress
<1>6. CASE /\ sct.at \notin {"recv", "none"} /\ sct'.at = "none" /\ ~usb
           /\ pc.attached => pc.request # NoRequest
           /\ UNCHANGED <<usb, slave, pc>>
  <2>1. CASE pc.attached
    BY <1>5, <1>6, <2>1 DEF Pipe!Fail
  <2>2. CASE ~pc.attached
    <3>1. slave.at = "join" /\ pc.request = NoRequest
      BY <1>0, <1>5, <1>6, <2>2 DEF Attachment
    <3>2. Pipe!Answer
      BY <1>6, <3>1 DEF Pipe!Answer, Pipe!Attached
    <3> QED
      BY <3>2
  <2> QED
    BY <2>1, <2>2
<1>7. CASE /\ sct.at = "recv" /\ pc.request # NoRequest /\ sct'.at = "none" /\ ~usb
           /\ UNCHANGED <<usb, slave, pc>>
  BY <1>5, <1>7 DEF Pipe!Fail
<1>8. CASE /\ sct.at = "recv" /\ pc.request # NoRequest /\ sct'.at \notin {"recv", "none"}
           /\ UNCHANGED <<usb, slave, pc>>
  BY <1>8 DEF Pipe!Receive
<1>1. CASE Recv \/ SetReport
  <2>1. /\ sct.at = "recv" /\ pc.request # NoRequest /\ UNCHANGED <<usb, slave, pc>>
        /\ sct'.at \notin {"recv", "none"} \/ (sct'.at = "none" /\ ~usb)
    BY <1>1 DEF Recv, SetReport, HasDataStage, NoRequest, Stored, Answers, Ended
  <2> QED
    BY <1>7, <1>8, <2>1
<1>2. CASE RecvFails
  <2>1. /\ sct.at = "recv" /\ sct'.at = "none" /\ ~pc.attached /\ UNCHANGED <<usb, slave, pc>>
    BY <1>0, <1>2 DEF RecvFails, SctOK
  <2>2. Pipe!End
    BY <1>0, <2>1 DEF Pipe!End, Pipe!Attached, Attachment
  <2> QED
    BY <2>2
<1>3. CASE DataStage \/ Enqueue
  <2>1. /\ sct.at \notin {"recv", "none"} /\ UNCHANGED <<usb, slave, pc>>
        /\ sct'.at \notin {"recv", "none"} \/ (sct'.at = "none" /\ ~usb)
    BY <1>3 DEF DataStage, Enqueue, Stored, Answers, Ended
  <2>2. pc.attached => pc.request # NoRequest
    BY <1>0, <1>3, RequestsAssumption DEF DataStage, Enqueue, InProgress
  <2>3. CASE sct'.at \notin {"recv", "none"}
    BY <2>1, <2>3
  <2> QED
    BY <1>6, <2>1, <2>2, <2>3
<1>4. CASE Reply
  <2>1. /\ sct.at = "reply" /\ sct'.at = (IF usb THEN "recv" ELSE "none")
        /\ UNCHANGED <<usb, slave>>
    BY <1>4 DEF Reply
  <2>2. pc'.request = NoRequest
    BY <1>0, <1>4 DEF Reply, PcOK
  <2>3. pc.attached => pc.request # NoRequest
    BY <1>0, <2>1, RequestsAssumption DEF InProgress
  <2>4. Pipe!Attached => pc.attached
    BY <1>0 DEF Pipe!Attached, Attachment
  <2>5. Pipe!Answer
    BY <2>1, <2>2, <2>3, <2>4 DEF Pipe!Answer
  <2> QED
    BY <2>5
<1> QED
  BY <1>1, <1>2, <1>3, <1>4 DEF ControlThread

\* So is each step of the slave thread.
LEMMA SlaveServesPipe == Inv /\ (Events \/ Goes) => [Pipe!Next]_(Pipe!vars)
<1> SUFFICES ASSUME Inv, Events \/ Goes PROVE [Pipe!Next]_(Pipe!vars)
  OBVIOUS
<1> USE DEF Pipe!Next, Pipe!vars
<1>0. SlaveOK /\ SctOK /\ PcOK /\ Attachment /\ InProgress
  BY DEF Inv, Typed
<1>1. CASE connect
  <2>1. /\ slave.at = "idle" /\ ~usb /\ usb' /\ sct'.at = "recv" /\ slave' = slave
        /\ pc'.request = NoRequest
    BY <1>0, <1>1 DEF connect, SctOK, Detached
  <2>2. sct.at = "none" /\ pc.request = NoRequest
    BY <1>0, <2>1 DEF Attachment, Detached
  <2>3. Pipe!Connect
    BY <2>1, <2>2 DEF Pipe!Connect
  <2> QED
    BY <2>3
<1>2. CASE disconnect
  <2>1. usb /\ ~usb' /\ slave'.at = "detach" /\ UNCHANGED <<sct, pc>>
    BY <1>0, <1>2 DEF disconnect, SlaveOK
  <2>2. Pipe!Disconnect
    BY <2>1 DEF Pipe!Disconnect
  <2> QED
    BY <2>2
<1>3. CASE Detach
  <2>1. /\ slave.at = "detach" /\ slave'.at = "join" /\ pc'.request = NoRequest
        /\ UNCHANGED <<usb, sct>>
    BY <1>0, <1>3 DEF Detach, SlaveOK, Detached
  <2>2. ~usb
    BY <1>0, <2>1 DEF Attachment
  <2>3. Pipe!Detach
    BY <2>1, <2>2 DEF Pipe!Detach
  <2> QED
    BY <2>3
<1>4. CASE Join
  <2>1. /\ slave.at = "join" /\ slave'.at = "idle" /\ sct.at = "none"
        /\ UNCHANGED <<usb, sct, pc>>
    BY <1>0, <1>4 DEF Join, SlaveOK
  <2>2. ~usb
    BY <1>0, <2>1 DEF Attachment
  <2>3. Pipe!Close
    BY <2>1, <2>2 DEF Pipe!Close
  <2> QED
    BY <2>3
<1>5. CASE CopyFirst
  <2>1. slave.at = "idle" /\ slave'.at = "copy" /\ UNCHANGED <<usb, sct, pc>>
    BY <1>5 DEF CopyFirst
  <2> QED
    BY <2>1
<1>6. CASE CopySecond
  <2>1. slave.at = "copy" /\ slave'.at \in {"transfer", "idle"} /\ UNCHANGED <<usb, sct, pc>>
    BY <1>0, <1>6 DEF CopySecond, SlaveOK
  <2> QED
    BY <2>1
<1>7. CASE Transfer
  <2>1. /\ slave.at = "transfer" /\ slave'.at = "idle" /\ pc'.request = pc.request
        /\ UNCHANGED <<usb, sct>>
    BY <1>0, <1>7 DEF Transfer, SlaveOK, PcOK
  <2> QED
    BY <2>1
<1> QED
  BY <1>1, <1>2, <1>3, <1>4, <1>5, <1>6, <1>7 DEF Events, Goes

\* The PC asks only when it waits for no answer.
LEMMA PcUsesPipe ==
  Inv /\ (\E q \in Requests : Ask(q) \/ AskConfiguration(q)) => [Pipe!Next]_(Pipe!vars)
<1> SUFFICES ASSUME Inv, NEW q \in Requests, Ask(q) \/ AskConfiguration(q)
             PROVE  [Pipe!Next]_(Pipe!vars)
  OBVIOUS
<1>1. PcOK /\ SlaveOK /\ q # NoRequest
  BY RequestsAssumption DEF Inv, Typed
<1>2. /\ pc.attached /\ pc.request = NoRequest /\ pc'.request = q
      /\ slave'.at = slave.at /\ UNCHANGED <<usb, sct>>
  <2>1. CASE Ask(q)
    BY <1>1, <2>1 DEF Ask, PcOK
  <2>2. CASE AskConfiguration(q)
    BY <1>1, <2>2 DEF AskConfiguration, PcOK, SlaveOK
  <2> QED
    BY <2>1, <2>2
<1>3. Pipe!Ask
  BY <1>1, <1>2 DEF Pipe!Ask, Pipe!Attached, Inv, Attachment
<1> QED
  BY <1>3 DEF Pipe!Next

\* All handlers of slave_control_thread() keep the promise of the control
\* pipe, for every set of requests.
THEOREM HandlersServePipe == Spec => ImplementsPipe
<1>1. Init => Pipe!Init
  BY DEF Init, Pipe!Init, Detached
<1>2. UNCHANGED vars => UNCHANGED Pipe!vars
  BY DEF vars, Pipe!vars
<1>3. Inv /\ [Next]_vars => [Pipe!Next]_(Pipe!vars)
  BY <1>2, ControlServesPipe, SlaveServesPipe, PcUsesPipe DEF Next
<1> QED
  BY <1>1, <1>3, ControlInvariant, PTL DEF Spec, ImplementsPipe, Pipe!Spec

=============================================================================

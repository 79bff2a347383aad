---------------------------- MODULE MainThread -----------------------------
(***************************************************************************)
(* firmware/Hakadorun2.c: the main thread, between the USB host thread and *)
(* the slave control thread that put events into g_main_thread_queue and   *)
(* the slave thread it sends reports to.                                   *)
(*                                                                         *)
(* While a command waits for keys it takes events from the same queue and  *)
(* handles those that are not key reports, commands included: the stack    *)
(* holds one frame for each handler that is in progress.  The queue is the *)
(* FIFO of module Fifo; what modify_report() does to a report is reduced   *)
(* to the key table, and a report to the keys of its slots.  The PC end is *)
(* the slave thread's order of events, without the delay of its queue; the *)
(* client reaches Hakadorun2 only while the PC sees the device.            *)
(***************************************************************************)
EXTENDS Integers, Sequences, FiniteSets, SequencesExt

CONSTANTS
  Keys,           \* the keys of the keyboard
  Commands,       \* the commands that clients send
  MacroCount,     \* MACRO_DATA_COUNT
  QueueCapacity,  \* entries g_main_thread_queue holds: its count minus one
  RetryCount,     \* GET_INPUT_TIMEOUT_RETRY_COUNT
  MaxRecord,      \* MACRO_MAX_KEY_COUNT
  MaxPresses,     \* bound: key presses
  MaxUnplugs,     \* bound: times the keyboard is unplugged
  MaxCommands,    \* bound: commands sent
  MaxInputs       \* bound: all of these together

ASSUME MainAssumption ==
  /\ IsFiniteSet(Keys) /\ "none" \notin Keys
  /\ Commands \subseteq {"version", "reset", "lang", "update", "macro"}
  /\ {MacroCount, QueueCapacity, RetryCount, MaxRecord} \subseteq Nat \ {0}
  /\ {MaxPresses, MaxUnplugs, MaxCommands, MaxInputs} \subseteq Nat

VARIABLES
  mainQ,          \* g_main_thread_queue
  fromClient,     \* m_from_client_data
  toClient,       \* m_to_client_data
  stack,          \* the handlers in progress, the innermost first
  keyTable,       \* m_key_table
  macros,         \* macro_run_key and the macro data in Flash
  pc,             \* what the PC was told: keyboard there?, keys held; was a
                  \* command started while it saw keys held?; is the handle
                  \* that the client opened still good?
  keyboard,       \* plugged in?, keys held, oldest first
  host,           \* the USB host thread: its session, the last report sent
  notify,         \* the slave control thread is in notify_recv_command_to_main()
  client,         \* the client program: its state, its command
  runs,           \* times the client's command was started
  counts          \* key presses, unplugs, commands and clients that gave up

vars == <<mainQ, fromClient, toClient, stack, keyTable, macros, pc, keyboard, host,
          notify, client, runs, counts>>
world == <<keyboard, host, notify, client, counts, fromClient>>

Macros == 0 .. MacroCount - 1
NoReport == <<"none">>
NoMacro == [run |-> NoReport, data |-> <<>>]
NoCommand == [command |-> "nop", seq |-> 0, no |-> 0]
Modify(report) == [i \in DOMAIN report |-> keyTable[report[i]]]

Init ==
  /\ mainQ = <<>>
  /\ fromClient = NoCommand
  /\ toClient = [seq |-> 0, command |-> "nop", status |-> "none"]
  /\ stack = <<>>
  /\ keyTable = [k \in Keys |-> k]
  /\ macros = [n \in Macros |-> NoMacro]
  /\ pc = [on |-> FALSE, keys |-> <<>>, dirty |-> FALSE, handle |-> FALSE]
  /\ keyboard = [on |-> FALSE, keys |-> <<>>]
  /\ host = [session |-> "none", sent |-> NoReport]
  /\ notify = FALSE
  /\ client = [state |-> "idle", sent |-> NoCommand]
  /\ runs = 0
  /\ counts = [presses |-> 0, unplugs |-> 0, commands |-> 0, abandoned |-> 0]

-----------------------------------------------------------------------------
(***************************************************************************)
(* Sending: send_main_event_to_usb_slave(), send_modified_report_to_...(), *)
(* update_client_message().                                                *)
(***************************************************************************)
Show(keys) == pc' = [pc EXCEPT !.keys = keys, !.dirty = @ /\ keys # <<>>]

Attach(on) == pc' = [on |-> on, keys |-> <<>>, dirty |-> FALSE, handle |-> FALSE]

Message(c, status) ==
  toClient' = [seq |-> c.seq, command |-> c.command, status |-> status]

Silent == UNCHANGED toClient

\* do_command() of the client is waiting for its result.
Waits == client.state = "waiting"

-----------------------------------------------------------------------------
(***************************************************************************)
(* Frames.  polls counts the failed polls of one get_input_report() call.  *)
(***************************************************************************)
Frame(c, stage) ==
  [command |-> c, stage |-> stage, polls |-> 0, src |-> NoReport, report |-> <<>>,
   data |-> <<>>]

Top == stack[1]
Under == Tail(stack)
Push(frame) == stack' = <<frame>> \o stack

\* The innermost handler goes on with another get_input_report().
Continue(frame) == stack' = <<[frame EXCEPT !.polls = 0]>> \o Under

\* extract_one_key_from_report(): the key in the last slot in use.
KeyOf(report) == Last(report)

-----------------------------------------------------------------------------
(***************************************************************************)
(* command_handler().  The command is the one in m_from_client_data when   *)
(* the event is handled, not the one the event was sent for.               *)
(***************************************************************************)
Quick(c) ==
  /\ c.command \in {"version", "reset", "lang"}
  /\ keyTable' = IF c.command = "reset" THEN [k \in Keys |-> k] ELSE keyTable
  /\ Message(c, "completed")
  /\ UNCHANGED <<stack, pc>>

\* Up to the first get_input_report() of the handler; dst_key and macro
\* handlers keep the state they need in the frame.
Interactive(c) ==
  /\ \/ c.command = "update" /\ Push(Frame(c, "src"))
     \/ c.command = "macro" /\ Push(Frame(c, "run_keys"))
  /\ Message(c, "running")
  /\ pc' = [pc EXCEPT !.dirty = pc.keys # <<>>]
  /\ UNCHANGED keyTable

\* get_macro_data() finds no memory.
MacroWithoutMemory(c) ==
  /\ c.command = "macro"
  /\ Message(c, "completed")
  /\ UNCHANGED <<stack, keyTable, pc>>

command_handler ==
  /\ \/ Quick(fromClient)
     \/ Interactive(fromClient)
     \/ MacroWithoutMemory(fromClient)
  /\ runs' = IF fromClient = client.sent THEN runs + 1 ELSE runs
  /\ UNCHANGED macros

\* Mutant: get_input_report() drops what is not a key report or a command.
handle_non_input_report_event_Drop(event) ==
  \/ /\ event.type \in {"connect", "disconnect"}
     /\ IF stack = <<>> THEN Attach(event.type = "connect") ELSE UNCHANGED pc
     /\ Silent
     /\ UNCHANGED <<stack, keyTable, macros, runs>>
  \/ /\ event.type = "command"
     /\ command_handler

\* handle_non_input_report_event()
handle_non_input_report_event(event) ==
  \/ /\ event.type \in {"connect", "disconnect"}
     /\ Attach(event.type = "connect")
     /\ Silent
     /\ UNCHANGED <<stack, keyTable, macros, runs>>
  \/ /\ event.type = "command"
     /\ command_handler

-----------------------------------------------------------------------------
(***************************************************************************)
(* The three places that take an event: main_thread(), get_input_report()  *)
(* and wait_for_all_key_unpressed().                                       *)
(***************************************************************************)
TakeEvent(event) ==
  /\ mainQ # <<>>
  /\ event = Head(mainQ)
  /\ mainQ' = Tail(mainQ)
  /\ UNCHANGED world

HandleOther ==
  \E event \in ToSet(mainQ) :
    /\ TakeEvent(event)
    /\ handle_non_input_report_event(event)

TakeReport(report) ==
  /\ mainQ # <<>>
  /\ Head(mainQ).type = "input"
  /\ report = Head(mainQ).report
  /\ mainQ' = Tail(mainQ)
  /\ UNCHANGED world

Reports == {e.report : e \in {x \in ToSet(mainQ) : x.type = "input"}}

\* get_macro_no_from_report(): the lowest number wins.
Matching(report) == {n \in Macros : macros[n].run = report}
get_macro_no_from_report(report) ==
  CHOOSE n \in Matching(report) : \A m \in Matching(report) : n <= m

Forward(report) ==
  /\ Matching(report) = {}
  /\ Show(Modify(report))
  /\ UNCHANGED stack

\* run_macro(): the data is read before the wait.  A macro without data, or
\* for which there is no memory, is ignored together with its report.
StartMacro(report) ==
  /\ Matching(report) # {}
  /\ LET data == macros[get_macro_no_from_report(report)].data
     IN  \/ data # <<>> /\ Push([Frame(NoCommand, "wait") EXCEPT !.data = data])
         \/ UNCHANGED stack
  /\ UNCHANGED pc

handle_input_report_event ==
  /\ stack = <<>>
  /\ \E report \in Reports :
       /\ TakeReport(report)
       /\ Forward(report) \/ StartMacro(report)
  /\ Silent
  /\ UNCHANGED <<keyTable, macros, runs>>

Waiting(stages) == stack # <<>> /\ Top.stage \in stages

\* Mutant: no zero report after the macro's last one.
WaitUnpressed_NoZero ==
  /\ Waiting({"wait"})
  /\ \E report \in Reports :
       /\ TakeReport(report)
       /\ IF report = <<>> THEN stack' = Under /\ Show(Modify(Last(Top.data)))
                           ELSE UNCHANGED <<stack, pc>>
  /\ Silent
  /\ UNCHANGED <<keyTable, macros, runs>>

\* wait_for_all_key_unpressed() inside run_macro(), which then sends the
\* reports of the macro and, if the last is not all zero, one that is.
WaitUnpressed ==
  /\ Waiting({"wait"})
  /\ \E report \in Reports :
       /\ TakeReport(report)
       /\ IF report = <<>> THEN stack' = Under /\ Show(<<>>)
                           ELSE UNCHANGED <<stack, pc>>
  /\ Silent
  /\ UNCHANGED <<keyTable, macros, runs>>

\* handle_update_keytable_command(): a report for get_single_input_key().
UpdateGotReport ==
  /\ Waiting({"src", "dst"})
  /\ \E report \in Reports :
       /\ TakeReport(report)
       /\ \/ /\ report = <<>>
             /\ Continue(Top)
             /\ Silent
             /\ UNCHANGED keyTable
          \/ /\ report # <<>> /\ Top.stage = "src"
             /\ Continue([Top EXCEPT !.stage = "dst", !.src = KeyOf(report)])
             /\ Message(Top.command, "running")
             /\ UNCHANGED keyTable
          \/ /\ report # <<>> /\ Top.stage = "dst"
             /\ keyTable' = [keyTable EXCEPT ![Top.src] = KeyOf(report)]
             /\ Message(Top.command, "completed")
             /\ stack' = Under
  /\ UNCHANGED <<macros, pc, runs>>

\* handle_set_macro(): a report for get_input_keys().
RunKeysGotReport ==
  /\ Waiting({"run_keys"})
  /\ \E report \in Reports :
       /\ TakeReport(report)
       /\ LET best == IF Len(report) > Len(Top.report) THEN report ELSE Top.report
          IN  IF report = <<>> /\ best # <<>>
              THEN /\ Continue([Frame(Top.command, "record") EXCEPT !.src = best])
                   /\ Message(Top.command, "running")
              ELSE Continue([Top EXCEPT !.report = best]) /\ Silent
  /\ UNCHANGED <<keyTable, macros, pc, runs>>

\* The end of handle_set_macro().
StoreMacro(data) ==
  /\ macros' = [macros EXCEPT ![Top.command.no] = [run |-> Top.src, data |-> data]]
  /\ Message(Top.command, "completed")
  /\ stack' = Under

\* Mutant: the limit is tested with > instead of >=.
Record_OneMore(report) ==
  LET data == Append(Top.data, report)
  IN  IF Len(data) > MaxRecord
      THEN StoreMacro(data)
      ELSE /\ Continue([Top EXCEPT !.data = data, !.report = report])
           /\ Silent
           /\ UNCHANGED macros

\* One turn of record_key_sequence() after get_input_report() left this
\* report in its buffer.
Record(report) ==
  LET data == Append(Top.data, report)
  IN  IF Len(data) >= MaxRecord
      THEN StoreMacro(data)
      ELSE /\ Continue([Top EXCEPT !.data = data, !.report = report])
           /\ Silent
           /\ UNCHANGED macros

RecordGotReport ==
  /\ Waiting({"record"})
  /\ \E report \in Reports : TakeReport(report) /\ Record(report)
  /\ UNCHANGED <<keyTable, pc, runs>>

-----------------------------------------------------------------------------
(***************************************************************************)
(* get_input_report() finds the queue empty and sleeps for 50 ms; after    *)
(* RetryCount times it returns GET_KEY_TIMEOUT.                            *)
(***************************************************************************)
Polling == Waiting({"src", "dst", "run_keys", "record"}) /\ mainQ = <<>>

Delay ==
  /\ Polling
  /\ Top.polls + 1 < RetryCount
  /\ stack' = <<[Top EXCEPT !.polls = @ + 1]>> \o Under
  /\ Silent
  /\ UNCHANGED <<mainQ, keyTable, macros, pc, runs, world>>

TimesOut == Polling /\ Top.polls + 1 = RetryCount

\* Mutant: get_single_input_key() goes on after a timeout.
UpdateTimeout_Again ==
  /\ TimesOut /\ Top.stage \in {"src", "dst"}
  /\ Continue(Top)
  /\ Silent
  /\ UNCHANGED <<mainQ, keyTable, macros, pc, runs, world>>

\* Mutant: "Aborted" is not reported.
UpdateTimeout_Silent ==
  /\ TimesOut /\ Top.stage \in {"src", "dst"}
  /\ Silent
  /\ stack' = Under
  /\ UNCHANGED <<mainQ, keyTable, macros, pc, runs, world>>

UpdateTimeout ==
  /\ TimesOut /\ Top.stage \in {"src", "dst"}
  /\ Message(Top.command, "completed")
  /\ stack' = Under
  /\ UNCHANGED <<mainQ, keyTable, macros, pc, runs, world>>

RunKeysTimeout ==
  /\ TimesOut /\ Top.stage = "run_keys"
  /\ Continue(Top)
  /\ Silent
  /\ UNCHANGED <<mainQ, keyTable, macros, pc, runs, world>>

\* The recording ends unless a key is held: then the report of the previous
\* turn, still in the buffer, is recorded once more.
RecordTimeout ==
  /\ TimesOut /\ Top.stage = "record"
  /\ IF Top.report = <<>> THEN StoreMacro(Top.data) ELSE Record(Top.report)
  /\ UNCHANGED <<mainQ, keyTable, pc, runs, world>>

Main ==
  \/ HandleOther \/ handle_input_report_event \/ WaitUnpressed
  \/ UpdateGotReport \/ RunKeysGotReport \/ RecordGotReport
  \/ Delay \/ UpdateTimeout \/ RunKeysTimeout \/ RecordTimeout

-----------------------------------------------------------------------------
(***************************************************************************)
(* The other threads and the world.                                        *)
(***************************************************************************)
mainState == <<toClient, stack, keyTable, macros, pc>>

Enqueue(event) ==
  /\ Len(mainQ) < QueueCapacity
  /\ mainQ' = Append(mainQ, event)

\* usb_host_thread(): notify_connect() once a keyboard is enumerated.
HostConnect ==
  /\ host.session = "none" /\ keyboard.on
  /\ Enqueue([type |-> "connect"])
  /\ host' = [session |-> "open", sent |-> NoReport]
  /\ UNCHANGED <<mainState, keyboard, notify, client, counts, fromClient, runs>>

\* usb_host_main(): the first report and every one that differs from the
\* last one sent.
HostReport ==
  /\ host.session = "open" /\ keyboard.on
  /\ keyboard.keys # host.sent
  /\ Enqueue([type |-> "input", report |-> keyboard.keys])
  /\ host' = [host EXCEPT !.sent = keyboard.keys]
  /\ UNCHANGED <<mainState, keyboard, notify, client, counts, fromClient, runs>>

\* The read failed, also when the keyboard is back by now.
HostDisconnect ==
  /\ host.session = "lost"
  /\ Enqueue([type |-> "disconnect"])
  /\ host' = [session |-> "none", sent |-> NoReport]
  /\ UNCHANGED <<mainState, keyboard, notify, client, counts, fromClient, runs>>

MayAct == counts.presses + counts.unplugs + counts.commands < MaxInputs

Plug ==
  /\ ~keyboard.on
  /\ keyboard' = [on |-> TRUE, keys |-> <<>>]
  /\ UNCHANGED <<mainQ, mainState, host, notify, client, counts, fromClient, runs>>

Unplug ==
  /\ keyboard.on
  /\ counts.unplugs < MaxUnplugs /\ MayAct
  /\ keyboard' = [on |-> FALSE, keys |-> <<>>]
  /\ host' = IF host.session = "open" THEN [session |-> "lost", sent |-> NoReport] ELSE host
  /\ counts' = [counts EXCEPT !.unplugs = @ + 1]
  /\ UNCHANGED <<mainQ, mainState, notify, client, fromClient, runs>>

PressKey(k) ==
  /\ keyboard.on
  /\ k \notin ToSet(keyboard.keys)
  /\ counts.presses < MaxPresses /\ MayAct
  /\ keyboard' = [keyboard EXCEPT !.keys = Append(@, k)]
  /\ counts' = [counts EXCEPT !.presses = @ + 1]
  /\ UNCHANGED <<mainQ, mainState, host, notify, client, fromClient, runs>>

ReleaseKey(k) ==
  /\ \E i \in DOMAIN keyboard.keys :
       /\ keyboard.keys[i] = k
       /\ keyboard' = [keyboard EXCEPT !.keys = RemoveAt(@, i)]
  /\ UNCHANGED <<mainQ, mainState, host, notify, client, counts, fromClient, runs>>

\* do_command() of a client: the number it finds in m_to_client_data.  The
\* slave control thread answers no request while it waits for room.
ReadNumber ==
  /\ client.state \notin {"opened", "waiting"} /\ ~notify /\ pc.on
  /\ counts.commands < MaxCommands /\ MayAct
  /\ client' = [state |-> "opened", sent |-> [NoCommand EXCEPT !.seq = toClient.seq]]
  /\ pc' = [pc EXCEPT !.handle = TRUE]
  /\ runs' = 0
  /\ counts' = [counts EXCEPT !.commands = @ + 1]
  /\ UNCHANGED <<mainQ, toClient, stack, keyTable, macros, keyboard, host, notify, fromClient>>

\* The command with the next number, a byte that wraps; the slave control
\* thread stores it.
SendCommand(c, n) ==
  /\ client.state = "opened" /\ ~notify /\ pc.handle
  /\ LET sent == [command |-> c, seq |-> (client.sent.seq + 1) % 256, no |-> n]
     IN  client' = [state |-> "waiting", sent |-> sent] /\ fromClient' = sent
  /\ notify' = TRUE
  /\ UNCHANGED <<mainQ, mainState, keyboard, host, counts, runs>>

\* Mutant: the event may be sent more than once.
NotifyCommand_Again ==
  /\ notify
  /\ Enqueue([type |-> "command"])
  /\ notify' \in BOOLEAN
  /\ UNCHANGED <<mainState, keyboard, host, client, counts, fromClient, runs>>

\* notify_recv_command_to_main()
NotifyCommand ==
  /\ notify
  /\ Enqueue([type |-> "command"])
  /\ notify' = FALSE
  /\ UNCHANGED <<mainState, keyboard, host, client, counts, fromClient, runs>>

\* Mutant: the client does not compare the number of the command.
PollResult_NoSeq ==
  /\ Waits /\ pc.handle /\ ~notify
  /\ toClient.command = client.sent.command /\ toClient.status = "completed"
  /\ client' = [client EXCEPT !.state = "done"]
  /\ UNCHANGED <<mainQ, mainState, keyboard, host, notify, counts, fromClient, runs>>

\* The client polls and finds its command completed.
PollResult ==
  /\ Waits /\ pc.handle /\ ~notify
  /\ toClient = [seq |-> client.sent.seq, command |-> client.sent.command,
                 status |-> "completed"]
  /\ client' = [client EXCEPT !.state = "done"]
  /\ UNCHANGED <<mainQ, mainState, keyboard, host, notify, counts, fromClient, runs>>

ClientGivesUp ==
  /\ client.state \in {"opened", "waiting"}
  /\ client' = [state |-> "failed", sent |-> NoCommand]
  /\ runs' = 0
  /\ counts' = [counts EXCEPT !.abandoned = IF Waits THEN @ + 1 ELSE @]
  /\ UNCHANGED <<mainQ, mainState, keyboard, host, notify, fromClient>>

\* A request fails: the device that the client opened is gone.
ClientFails == ~pc.handle /\ ClientGivesUp

\* The user stops the client.
ClientIsStopped == pc.handle /\ ClientGivesUp

Host == HostConnect \/ HostReport \/ HostDisconnect

Next ==
  \/ Main
  \/ Host
  \/ Plug \/ Unplug
  \/ \E k \in Keys : PressKey(k) \/ ReleaseKey(k)
  \/ \E c \in Commands : \E n \in IF c = "macro" THEN Macros ELSE {0} : SendCommand(c, n)
  \/ ReadNumber \/ NotifyCommand \/ PollResult \/ ClientFails \/ ClientIsStopped

Spec == Init /\ [][Next]_vars

\* Every thread runs when it can, a client that waits keeps polling.  Nobody
\* is bound to press or release a key, to plug or unplug, to start or stop a
\* client.
Fairness ==
  /\ WF_vars(Main) /\ WF_vars(Host) /\ WF_vars(NotifyCommand)
  /\ WF_vars(PollResult \/ ClientFails)

FairSpec == Spec /\ Fairness

-----------------------------------------------------------------------------
Report == UNION {[1 .. n -> Keys] : n \in 0 .. Cardinality(Keys)}
Command == [command : Commands \cup {"nop"}, seq : 0 .. 255, no : Macros]
FrameOK(f) ==
  /\ f.command \in Command
  /\ f.stage \in {"src", "dst", "run_keys", "record", "wait"}
  /\ f.polls \in 0 .. RetryCount - 1
  /\ f.report \in Report
  /\ Len(f.data) < MaxRecord \/ f.stage = "wait"

\* The types; polls stay below the retry count and a recording within the
\* keys[] of its MACRO_DATA.
TypeOK ==
  /\ Len(mainQ) <= QueueCapacity
  /\ fromClient \in Command
  /\ toClient.seq \in 0 .. 255 /\ toClient.status \in {"none", "running", "completed"}
  /\ \A i \in DOMAIN stack : FrameOK(stack[i])
  /\ keyTable \in [Keys -> Keys]
  /\ \A n \in Macros : Len(macros[n].data) <= MaxRecord
  /\ pc.on \in BOOLEAN /\ pc.keys \in Report
  /\ keyboard.on \in BOOLEAN /\ keyboard.keys \in Report
  /\ host.session \in {"none", "open", "lost"}
  /\ notify \in BOOLEAN
  /\ client.state \in {"idle", "opened", "waiting", "done", "failed"}
  /\ runs \in Nat

\* Every event was handled, no handler waits, no key is held.
Quiet ==
  /\ mainQ = <<>> /\ stack = <<>>
  /\ keyboard.keys = <<>> /\ host.sent \in {<<>>, NoReport} /\ host.session # "lost"

\* Once the user has let go of all keys the PC sees none held: whatever was
\* remapped meanwhile, whichever macro ran, whether or not the keyboard was
\* pulled out.  Excepted are keys that the PC saw held when a command was
\* started: the command takes the report of their release for itself.
NoStuckKey == Quiet /\ ~pc.dirty => pc.keys = <<>>

\* Once its events are handled the PC sees a keyboard exactly when the host
\* thread has one: no handler, however deeply nested, loses a connect or
\* disconnect event or lets the two overtake each other.
ConnectionFollowsKeyboard == mainQ = <<>> => (pc.on <=> host.session # "none")

\* Every handler in progress holds a piece of the main thread's stack; there
\* is at most one for a macro that waits for its start, one for the current
\* command and one for each command whose client is gone.
BoundedNesting == Len(stack) <= 2 + counts.abandoned

\* A client that reports success has had its command started, once.  After a
\* client that gave up, whose command may have the same number, the command
\* may start more than once; or it is still to start when success is
\* reported, but then its event is on its way and it is in the mailbox.
CommandRunsOnce ==
  /\ counts.abandoned = 0 => /\ client.state = "done" => runs = 1
                             /\ runs <= 1
  /\ client.state = "done" /\ runs = 0 =>
       /\ fromClient = client.sent
       /\ notify \/ \E i \in DOMAIN mainQ : mainQ[i].type = "command"

\* The client's result is in the mailbox, and is read with the next poll.
ResultIsThere ==
  Waits /\ toClient = [seq |-> client.sent.seq, command |-> client.sent.command,
                      status |-> "completed"]

\* There it stays until the client has read it, which polls every 500 ms: as
\* long as no client before gave up, no handler in progress and no command
\* under way writes its own message over it.
ResultIsKept == [][ResultIsThere /\ counts.abandoned = 0 /\ Waits' => ResultIsThere']_vars

\* The innermost handler waits for the user: for the keys of a macro or for
\* the release of those that start one.  These two have no timeout.
AwaitsUser == stack # <<>> /\ Top.stage \in {"run_keys", "wait"}

\* main_thread() always comes back to forwarding keys: whatever the handlers
\* in progress, only those two keep it waiting.
HandlersReturn == stack # <<>> ~> stack = <<>> \/ AwaitsUser

\* A client gets its result, as long as no client before gave up.
CommandCompletes == Waits /\ counts.abandoned = 0 ~> ~Waits \/ AwaitsUser

-----------------------------------------------------------------------------
\* README.md:26: the version command displays the firmware version.
VersionIsShown ==
  Waits /\ client.sent.command = "version" ~> ~Waits

=============================================================================

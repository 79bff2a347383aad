# Hakadorun2 in TLA+

Hakadorun2 is a USB keyboard converter: a Vinculum-II microcontroller with a
USB host port (the keyboard) and a USB slave port (the PC). Its firmware
(`src/firmware`) reads key reports from the keyboard, remaps keys, converts
between Japanese and English layouts, plays macros, and presents itself to the
PC as a keyboard with a second, vendor defined interface through which a client
program (`src/tool`) configures it. This directory holds TLA+ models of the
firmware and of the part of the client that talks to it, the TLC
configurations that check them, and TLAPS proofs about the queue that all
threads depend on, about what connections, keys and LEDs become on their way
through the threads, about the handlers of the main thread, the conversion of
reports, the configuration store and the control requests, and about the two
programs that share the host port.

## The system

Four threads of the VOS kernel, three queues between them, and one client:

```
 keyboard --> host thread --g_main_thread_queue--> main thread --g_usb_slave_queue--> slave thread --> PC
    ^             |                ^                                                      |
    |   LEDs      |                | commands                                   creates, waits for
    +-------------+<--g_usb_host_queue-- slave control thread (SCT) <---------------------+
                                           ^  control requests
                                           +---------- PC (its driver, the client program)
```

| component | state | operations | what makes it hard | what makes it correct |
| --- | --- | --- | --- | --- |
| Queue (`Queue.c`) | ring, two indices, mutex, two condition variables | `enqueue`, `dequeue`, `try_dequeue` | conditions tested with `if`; signals only on the transition from full or empty; one queue has two producers | a bounded FIFO; nobody waits for what is already there |
| Key conversion (`KeyTable.c`) | key table, layout mode (RAM) | `modify_report`, `update_key_table`, `extract_one_key_from_report`, ... | one report is up to six keys and one modifier byte; converting a key may change the modifiers of all; overflow | the PC sees what the user configured, or what is engraved |
| Configuration store (`KeyTable.c`) | the same, macros, in Flash pages | load at boot, save after each command | power is cut by pulling a plug, between any two pages | RAM equals Flash; a command happens or does not |
| Main thread (`Hakadorun2.c`) | mailbox `m_from_client_data`, `m_to_client_data`; the stack of handlers | events of its queue; commands; macros | a command that waits for keys takes events itself, other commands included | no key stuck, no event lost, every command ends |
| Host thread (`UsbHost.c`) | session with the keyboard, two report buffers, handles | attach, read, LEDs, detach | keyboard pulled and put back before a read fails; attaching fails half-way; which buffer is which | connect and disconnect alternate, the last report and the LEDs arrive, handles are returned |
| Slave threads (`UsbSlave.c`) | `m_slave_usb`, `m_interrupt_transfer_valid`, semaphore, control thread, the settings of the PC | connect, disconnect, reports, control requests | a thread created and joined per connection, by a thread that others wait for; settings that survive a connection; a report read while it is written | one control thread per open device; the PC catches up; every request is answered, with what the PC set |
| Client (`Hakadorun2_Client*.cpp`) | number of its command | read a number, send, poll, give up | loses the device, or is stopped, in the middle; the next one may use the same number | a reported success is one |
| Firmware update (`FWUpdate.c`) | handles of three drivers, FILEs; the Flash outlives the boot | attach, compare versions, reflash, detach, every 3 s | sticks pulled out anywhere, power cuts, failed updates, two byte orders | only another version is written, and it is tried again; handles are returned |

`PROJECT.json` lists these components with their sources, and under `hazards`
each place where one of the hard things above bites.

## The modules

`map` in `PROJECT.json` gives for each definition the lines it stands for.
Definitions named `..._Something` after a comment `Mutant:` are plausible
mistakes, kept beside the right definition: each property is known to fail
when one of them takes its place.

**Fifo, Queue, Queue_proofs.** `Fifo` is what users of a queue count on: `Put`
appends while there is room, `Get` takes the oldest. `Queue` is `Queue.c` at the
granularity of the kernel: a step runs from one point where the mutex is
acquired or released to the next. `EnqFull` is the path into
`vos_wait_cond_var()`, `EnqWake` the re-acquisition of the mutex after a
signal, `EnqResume` the rest of the body, which uses the index read *before* the
wait, kept in `slot`. `Contents` maps the ring to the list of the abstract
queue. `Queue_proofs` has the theorems (below).

**KeyReport, Layouts, KeyTyping, MCKeyTyping, KeyTyping_proofs.** `KeyReport` has the pure
functions of `KeyTable.c` on reports; the loops over the six slots are recursive
functions. The two `ASCII_TO_...` tables are written out. `Layouts` is not the
firmware's: it is what is engraved on JIS and US keyboards, written
independently of the tables, as the reference to compare with. `KeyTyping` is
a person who presses and releases keys, configures the converter and thereby
drives `modify_report()`; strokes are what an operating system makes of two
successive reports. Its properties compare with the user's wishes and with
`Layouts`. An `Update` is one step from the start of the update command to the
report of the last release: `EntryReport` is the report that the keyboard sends
when a key goes down while others are held, and the key read from it is the one
that `extract_one_key_from_report()` finds. `Update` has the entries that do what
the user wants: before each all keys go up or none does, and a modifier is entered
with no key held and no modifier of a lower bit (`MayEnter`). `UpdateInHaste` has
the others, releases that are taken for an entry included; it sets `hasty`, which a
reset clears.

**KeyStore, KeyStore_proofs.** The Flash pages, the RAM copies and the page writes that a command
still has to do (`todo`). `PowerOff` is enabled between any two page writes.
A page's content is abstracted to the number of the command it was made for.

**MainThread, MainThread_proofs.** One frame on `stack` for each handler in progress: `src` and
`dst` are the two key entries of `handle_update_keytable_command()`, `run_keys`
and `record` the two phases of `handle_set_macro()`, `wait` is
`wait_for_all_key_unpressed()` in `run_macro()`. `HandleOther` is
`handle_non_input_report_event()` called from any of them. The host thread, the
control thread's part in a command and the client are actions around it. A
client is `do_command()`: `ReadNumber`, `SendCommand`, `PollResult`; it gives up
when its device is gone (`ClientFails`) or when the user stops it
(`ClientIsStopped`) at any time, and the next one starts while the command of the
first still goes on. What `modify_report()` does is reduced to the key table.

**Threads, Threads_proofs, Pipes.** All four threads with the queues at their limits, the
life of the device on the PC's side, LEDs. The main thread is reduced to the reports
it takes and to what it passes on: `TakeEvent` is a connection or a command, which is
quick or asks for reports (`main.takes`) until it ends (`CommandEnds`); `TakeReport`
gives a report to such a command, to a macro that waits for the release of its keys
(`main.macro`), or to the slave queue. `main.shown` is the last report passed on, and
"stuck" when it had keys and a command began to take what follows. The slave control thread has the highest priority of
all; with `Priorities = TRUE` the others run only while it is blocked. `Pipes` has
the lemmas on what is under way in a chain of FIFO queues, for this proof and that
of `MainThread`.

**ControlPipe** is what the PC counts on when it has a device: one request at a
time, taken once and answered once by a control thread of the same connection, or cut
off by the detach; a device is closed when its control thread has ended. While it is
being closed an answer may fail (`Fail`): the thread ends and the request stays open
until the detach. `Threads` (a
control thread that waits for room in queues) and `SlaveControl` (all its handlers)
both implement it, each as `ImplementsPipe`.

**SlaveControl, MCSlaveControl, SlaveControl_proofs.** `slave_control_thread()` with all its handlers,
next to the slave thread that connects, disconnects and copies reports. A handler
is an operator that gives `handled`, the data and the settings it leaves, in the
form of the code's `switch`es; `Recv` takes a setup packet and calls it, `Reply`
is the answer or the stall. The thread blocks in the data stage of SET_REPORT, in
`enqueue()` and in the answer, and the device may be detached at each of them.
Input reports are numbered and have two halves, so that a report copied half by
`handle_input_report()` (`CopyFirst`, `CopySecond`) and read in between is visible.
The PC is what the operating system's drivers do: one request at a time, any
number of them, configurations and detaches in between. `MCSlaveControl` has the
requests of an enumeration, of the HID and the keyboard driver, and some that the
device does not know.

**KeyboardSession, UsbHost, FWUpdate, Boot, MCBoot, Boot_proofs.** The host port has
two programs. `UsbHost` is `usb_host_thread()` from the port to the entries of
`g_main_thread_queue`: enumeration, the attach that may fail, the two report
buffers with their index, the session's end. `KeyboardSession` is what the main
thread may expect of these entries, and `UsbHost` implements it. `FWUpdate` is
`fw_update_main()`: three drivers that are attached and detached around a
comparison of versions and an update that fails, succeeds (the device restarts),
or is cut off. `Boot` puts both behind the switch that `main_thread()` reads once,
with power cuts anywhere. `MCBoot` has the devices that are plugged in.

## The checks

| run | what it shows | distinct states |
| --- | --- | --- |
| `Queue_spsc` | One producer, ring of 4: implements `Fifo`; the stale index is right (`ResumeSafe`), no lost wake-up, every call returns | 87,000 |
| `Queue_main_fifo` *(violation)* | Two producers, ring of 3: an entry is overwritten | |
| `KeyTyping_remap` | Any two updates of the table, with keys held and in haste, three keys and two modifiers, reports of three slots that overflow | 152,000 |
| `KeyTyping_engraved` | All engraved keys of both layouts, alone and in pairs, with ctrl, left and right shift | 213,000 |
| `KeyTyping_reset` *(violation)* | After a reset one modifier is dead | |
| `KeyStore_power` | Two macros, three commands with new values, any number of boots and power cuts | 117,000 |
| `MainThread_all` | Two keys, a command that answers at once and both interactive ones, nested, an unplugged keyboard, clients that fail or are stopped; handlers return and clients get their results, which wait for them (`ResultIsKept`) | 360,000 |
| `MainThread_version` *(violation)* | An abandoned command overwrites the next one's result | |
| `Threads_all` | Queues of 2, 2 and 1; all requests; one unplugging; implements `ControlPipe`; the PC catches up | 1,078,000 |
| `Threads_jam` *(violation)* | Three threads wait in a circle | |
| `Boot_all` | Keyboards, sticks and another device in any order, the switch, power cuts: sessions, handles, updates | 15,000 |
| `SlaveControl_all` | 29 requests in any order over any number of connections, two reports: answers match and are recent, none is missing; implements `ControlPipe` | 261,000 |

### Bounds, and why they are enough

* *Queue.* A ring of 4 slots wraps, is full, empty and between; two data values
  tell a swapped entry from the right one. Nothing else is bounded; the proofs
  need no bound.
* *KeyTyping.* With three slots per report (`KeyCount`; the code has six) three
  keys and two modifiers that become keys overflow it. Layout conversion
  treats slots one after the other, so two keys show what one does to the other.
  `MaxDown` is at most the number of slots: beyond it a keyboard reports an error.
  Updates come with up to three keys and two modifiers held.
* *KeyStore.* Two macros have a neighbour to damage; three commands are one to
  cut off, one before and one after it. Power cuts are not bounded.
* *MainThread.* `QueueCapacity`, `RetryCount`, `MaxRecord` are small so that the
  queue fills, polls run out and recordings reach their limit. Two commands are
  what it takes for one inside another, one unplugging for a client that loses
  its connection. `MaxInputs` bounds presses, commands and unpluggings together:
  four are three presses in a command, or a press between two commands and an
  unplugging. `seq_no` keeps its width of a byte.
* *Threads.* One unplugging gives two connections, two requests fill the
  LED queue and leave one waiting.
* *SlaveControl.* Two reports (`MaxReports`) can be mixed in one answer; requests,
  configurations and connections are not bounded. Of each kind of request there
  is one, and one for each of its cases: too long, too short, unknown. That the code
  cuts an answer to `wLength` is left out; a GET_REPORT tells the PC the input report
  only if it asks for all of it.
* *Boot.* Two keyboards tell one that was exchanged from one that stayed, and two
  sticks the same; one keyboard has two reports. `MaxFiles = 2` FILEs are one
  that an earlier round has leaked and one in use. Nothing else is bounded.

`MainThread`, `Threads`, `SlaveControl` and `Boot` are checked without TLC's deadlock
check: once the user's and the PC's bounded inputs are used up the device idles,
and should; and a device whose Flash holds half a firmware is dead.
Circular waiting is instead found by the liveness properties.

### Fairness

* *Queue.* Strong fairness of acquiring the mutex: a thread that is ready gets
  it in the end although others take it in between. Weak fairness of a thread
  that owns it. The consumer is a loop that keeps asking; producers need never
  call.
* *MainThread, Threads.* Weak fairness of each thread: the VOS kernel runs a
  ready thread, and no loop of a thread spins without blocking. The user is
  under no obligation at all. The PC configures an attached device and polls its
  endpoint, the client polls its result: their drivers and `do_command()` do.
  The keyboard answers each read, because the host thread sets an idle rate.
* *SlaveControl.* Weak fairness of the control thread and of the slave thread once it
  has taken an event; nobody needs to send requests, reports or to plug anything
  in. `Enqueue` goes on in the end, that is, the queues have room again; where
  they do not is the subject of `Threads`.
* *Boot.* Weak fairness of each of the two programs. `LastReportArrives` and
  `StickIsTried` are about devices that stay plugged in, which nobody must.

## What the models found

* `Queue_main_fifo`: `enqueue()` stores at the index read before the wait.
  `g_main_thread_queue` has two producers, so a report or command can be
  overwritten. In the same setting `CallsReturn` fails too: `dequeue()`
  signals only when it finds the queue full, so of two waiting producers the
  second may sleep while there is room. `MainThread` and `Threads` use a correct
  FIFO all the same, to show what is wrong elsewhere.
* `KeyTyping_reset`: the loop of `set_default_to_key_table()` ends before the
  entry of the last modifier (right Win), which stays dead.
* `MainThread_version`: commands share one mailbox; one whose client is gone
  goes on underneath and later writes its result over that of the next.
* `Threads_jam`: `disconnect()` waits for the control thread, which waits for
  room in the main queue, the main thread for room in the slave queue.

Limits that the properties state as conditions, and that the code does not
promise to be without:

* `SendsAllWished`, `SendsOnlyWished` and `StrikesOnlyPressed` promise nothing after an
  entry in haste, until the next reset (`Promised`). `extract_one_key_from_report()` looks
  at the key slots first (`src/firmware/KeyTable.c:567`): while the Enter that started
  the client is held, a modifier entered as source key is not read, and Enter is
  remapped in its place. In the same way the report of a release that leaves a key down
  is taken for the next entry (`src/firmware/Hakadorun2.c:133`).
* `FastTypingIsEngraved` excepts keys that need another shift state in the other
  layout: one modifier byte serves all keys of a report, so `@` held on a JIS
  keyboard turns a following `a` into `A`. Releasing shift before such a key
  changes its code, which the PC takes for a stroke.
* `NoStuckKey` (MainThread, Threads) excepts keys that the PC saw held when a command
  started: the command takes their release for itself, and the PC sees them held until
  the next report is passed on.
* `MacroIsOneRecording` excepts a macro whose recording the power cut between its run
  keys and its data.
* A power cut within the very first boot leaves the key table's second page
  blank while the signature in the first passes for valid. In `KeyStore` a
  command's settings are still all or nothing then.
* `get_input_keys()` and `wait_for_all_key_unpressed()` have no timeout:
  `HandlersReturn` and `CommandCompletes` end in `AwaitsUser` for these two.
* `CommandRunsOnce` is weaker once a client has given up: the next one may read the
  same number, and the mailbox has room for one command.
* `CommandCompletes` speaks of a client before which none gave up; for the others
  `MainThread_version` shows what happens.
* `AnswersMatch` speaks of what the PC has set in this connection.
  `m_configuration_no` and the other settings keep the values of the connection
  before until then. A SET_CONFIGURATION with a number other than 1 is stalled,
  but it is in force. SET_PROTOCOL takes the high byte of `wValue`, in which the
  PC never puts the protocol, so that GET_PROTOCOL always answers 0.
* `AnswersAreRecent`: an answer to GET_REPORT may mix two successive reports, and
  an interrupt report may overtake it on its way to the PC.
* `StickIsTried` excepts a memory used up by FILEs: `fw_update_main()` does not close
  the file of a stick whose version is the same or cannot be read, so after a
  number of rounds only a restart makes the update possible again.
* A power cut or a pulled stick while the Flash is written leaves half a firmware
  (`broken`). No property forbids it, because no code could.
* A recording ends after 60 polls of 50 ms without a report, not after the 5 s of
  the README (`src/README.md:52`), and the keys that start a macro are compared in
  the order of the slots, so they must go down in the same order as when they
  were entered.
* The client tests a macro's number with `no < 4` only
  (`src/tool/Hakadorun2_Client_Linux.cpp:141`), so a character below `0` passes for
  one. The models send macro numbers that exist.

## The proofs

`Queue_proofs` is checked by TLAPS for every size of the ring in 2 .. 65535, every
set of data and, where it says so, any number of producers.

* `TypeCorrect`, `MutualExclusion`: any number of producers. `LockDiscipline` is
  inductive with `TypeOK`; each action enters, keeps or leaves the locked part.
* `ResumeIsSafe`, `WakeupsAreNotLost`, `RingIsFifo`: for one producer
  (`SingleProducer`), as two of the firmware's queues have. The inductive
  invariant is `WaitInv == TypeOK /\ ResumeSafe /\ NoLostWakeup`. Neither of the
  last two is inductive alone: that a woken thread's index is still right depends
  on who may have moved it meanwhile, and that a waiting thread is signalled
  depends on the condition it waits for still being the one it tested. `Store`
  and `Fetch`, the two bodies that change the ring, have one lemma each for the
  invariant and one each for the refinement (`StoreIsPut`, `FetchIsGet`, which
  need the arithmetic of `UsedFacts`).

These rest on the model's account of the VOS kernel: a wait releases the mutex in
the same step, a signal readies one waiter, none wakes without.

`Boot_proofs` is for all devices, reports, versions of four bytes and amounts of
memory.

* The invariant `Inv` has a part for each program and one for what they share.
  `HostInv`: where the thread is decides which entry it sent last
  (`EntriesAlternate`), and the buffer that is *not* read into holds the last
  report (`LastEntryIsKept`), which is what the comparison of the two buffers
  relies on; `KeyboardIsThere` links an unbroken session to the port. `FwInv`: where
  `fw_update_main()` is decides its handles (`FwHandles`), that a FILE is open
  (`FileIsOpen`) and that an update is needed. `OneProgramRuns`: only the program
  of the present mode has left its start.
* `TypesAreCorrect`, `HandlesAreReturned`, `UpdatesAreNeeded` follow from `Inv`;
  `HostSendsSessions` (the refinement of `KeyboardSession`) from one lemma per step
  of the thread. `SameVersionIsSeen` is why the two byte orders agree.

`Pipes` says what a chain of queues holds. `Finally(queue, S, initial)` is what the
consumer has received last of the kind `S` once it has emptied the queue, if it
has `initial` now; `Count` is the number of entries of a kind, `Separated` says that
two kinds alternate. The lemmas say what putting and taking an entry does to
each. The last entry of a kind, a `CHOOSE`, exists because the natural numbers are
well-founded.

`Threads_proofs` is for all capacities of the queues, lengths of macros, bounds of
the world, with and without thread priorities.

* `OneControlThread` is not inductive: between the ioctl that detaches the device
  and the wait for the semaphore the device is open though `m_slave_usb` is NULL.
  `OpenUntilJoin` says that it is open exactly while one of the two holds, and
  with the types the two are inductive (`Inv`). Each thread has a lemma; `Frame`
  deals with all that a step leaves alone. `TypesAreCorrect` and
  `ControlThreadsAreJoined` follow.
* `ThreadsServePipe`: the refinement of `ControlPipe` has a step for each action of the two
  slave threads. That an answer goes to a request of this connection (`RequestOK`) and
  that `Join` finds the thread ended (`OneControlThread`) come from the invariants. An
  answer on the handle that is NULL already maps to `Fail`.
* `ConnectionIsPassedOn`, `NoStuckKey` and `LedsFollowPc` speak of a device in which
  everything was handled. The invariant `Path` says for every state where the value
  in question is on its way: `ConnectionArrives` that emptying the main queue, the
  main thread's entries and the slave queue leaves the slave thread with the
  host thread's connection, and that connect and disconnect alternate, without
  which `connect()` would find a device; `KeysArrive` that the same chain ends in keys
  only if the keyboard's last report had some or a command took reports
  (`KeysAreShown`, `KeysAreTaken`); `LedsArrive` that the LEDs the PC set
  last are with the control thread, in the LED queue or on the keyboard, unless
  a connection event is under way. `AttachedOK`, `RequestOK` and `ValidOK` link the PC's
  side to the slave threads. `ConnectionGetsThrough`, `KeysAreReleased` and
  `LedsAreThePcs` are `Path` with empty queues.

Boot and Threads rest on their models' account of the drivers: calls on a lost
device fail, a detach ends the wait for a setup packet.

`MainThread_proofs` is for all finite sets of keys, numbers of macros, capacities,
limits of polls and recordings, and any number of presses, unpluggings and clients.

* `Inv` types the state closely: the frames on the stack by stage (`Frames`), a macro's
  replay below everything else (`WaitAtBottom`), a report with distinct keys.
  `TypeCorrect` follows. `Effect` then sorts the steps of the main thread into eight
  kinds by what they do to the queue, the PC, the message and the number of
  handlers, so that the invariants below deal with effects and not with handlers.
* `ConnectionIsRight`: `ConnectionArrives`, as for `Threads`, over one queue and however
  many handlers that take events from it.
* `KeysAreReleased`: `KeysArrive` says that the last event under way takes the keys
  from the PC when the keyboard's last report has none. It is not inductive
  alone, because a handler keeps reports for itself; `DirtyWhileCommanded` says that
  the PC then sees keys only if it saw some when a command was started, which is
  the exception that `NoStuckKey` makes.
* `NestingIsBounded`: handlers are commands whose events were under way before, so
  `PendingBound` counts both together against the clients that gave up
  (`counts.abandoned`). It needs two cases that look at the message: a client
  that reads "completed" with its number leaves no handler of its own behind.
* `CommandIsRun`: `RunsCounted` adds the client's events and its runs up to one while
  no client gave up.
* `ResultWaitsForClient`: `ResultIsKept` is an action property that follows from
  `PendingBound`. With its result in the mailbox a command has left nothing behind, so
  no handler is in progress and no command event under way that could write another.
  It has the condition that no client gave up, and `MainThread_version` shows why.

It rests on two assumptions on `Keys` in `MainAssumption`: the set is finite, as HID
codes are bytes, and "none", which the model uses for a missing report, is not a key.

`KeyStore_proofs` is for one to four macros (what fits the Flash), all contents of
pages and any number of commands, boots and power cuts.

* `Inv` follows the data from RAM to Flash: `WritesAreFromRam` says that a page still to
  be written gets what is in RAM, `OthersAreWritten` that every other has it,
  `WriteOrder` which page comes first. `FlashIsUpToDate` is the case in which nothing
  is to be written.
* `BootIsAllOrNothing` is what makes `CutCommandIsAllOrNothing` inductive: a power cut
  at any point, boot included, finds the settings of before or after. Its last
  conjunct is about the point between the two pages of the key table.
* `FlashIsOneRecording` does the same for `MacroIsOneRecording`. `PagesAreApart`, that no
  command writes the pages of another, is arithmetic on the page numbers.

`SignatureAssumption` says that a configuration page is never blank: it begins with
the signature that `load_key_config()` looks for.

`SlaveControl_proofs` is for every set of requests that satisfies `RequestsAssumption`:
fields of a byte, HID requests addressed to the interface, endpoints 0 and 0x81,
the kinds of requests a USB driver sends. Any number of reports, connections and
requests.

* Each handler has a lemma `...Serves` that says what its answer and the settings it
  leaves have to do with the request (`Serves`); `Recv` uses no more of a handler.
* `AnswersAreTrue`: that the PC knows a setting only as it is (`KnownIsTrue`) is not
  inductive while a request is handled: `InProgress` says that the PC does not
  know what it is changing, `HandledIsTrue` that the answer prepared is still true when
  it is sent, `Attachment` that a thread left over from a lost connection answers
  nobody.
* `InputIsRecent`: `Copied`, `SeenIsCopied` and `AnswerIsCopied` order the halves of the
  report being written, read and seen.
* `DueReportIsSent`: `DueIsPolled`, that a device the PC has configured has a valid
  interrupt transfer, at each point where the slave thread looks at it.
* `HandlersServePipe`: the refinement of `ControlPipe`. `InProgress` says that the request
  being answered is the PC's, `Attachment` that none is left when a device connects, and
  an answer on a NULL handle maps to `Fail`.

`KeyTyping_proofs` is for every number of slots, all keys and modifiers, tables
that commands can make, and any number of commands.

* `modify_report_by_key_table()` is about ranks: slot `s` gets the pressed key with `s - 1`
  others before it. `RankIsTaken` says that every rank below the size of a set is that
  of a member (an injection between sets of the same size), `SlotsHoldFilled` and
  `ScanIsComplete` what is in the slots, when there is no hole, and that the scan stops
  only when they are full.
* The loops of the layout conversion are recursive functions. `LoopExists` shows that
  such a function exists, `LoopIsUnique` and `LoopIs` that it is the sequence of values
  that one writes down for it, `ReportConverted` is that sequence for both directions, and
  `ConversionKeeps` says that the conversion of a report keeps every set of reports that
  the conversion of a slot keeps: the reports, and the zero report. `Induction` is the
  principle they use, stated for a set of numbers instead of a predicate, which the
  provers can instantiate.
* `HeldIsSent` (in `Inv`): the last report is what `modify_report()` makes of the keys held
  with the table and mode of *now*. It survives a command because commands end
  without keys and the zero report is converted to itself in every mode.
  `TypeCorrect` follows.
* `EntriesOK`: without an entry in haste since the last reset the table has the entry of
  each wish (`TableIsWished`), as `EntryIsRead` (also while
  other keys are held, in so far as `MayEnter` allows it) and `IdIsUnique` (keys and pseudo ids of modifiers
  do not overlap) keep it. Positions of the scan and keys held correspond one to one
  (`PressedIsHeld`, `PositionIsUnique`), which gives `Delivered`; `SendsOnly`, `SendsAll` and
  `StrikesOnly` are cases of it.

* `SingleKey`, `FastTyping`: the two tables of `KeyTable.c` against `Layouts`. Both are
  read against a list of the characters with their two strokes (`LayoutsSpell`,
  `EngravedIsListed`), so that `KeyIsConverted` is about one row at a time: the stroke
  that the firmware puts in place of a key types the same character. In a report
  the keys before the last one must not be disturbed by the modifiers that the
  conversion of each slot sets (`ReportIsConverted`, `IdsAreConverted`), which is where
  `FastTypingIsEngraved` needs its condition on the shift state. `DefaultChangesNothing` says
  that the default table gives a report with the same keys in the same order.
  `StruckIsNew` ties the PC's last stroke to the report before: it is new in it, so that
  a stroke is that of the key just pressed.
* `ResetRestoresOthers`: with the table after a reset the PC sees the keyboard's report,
  which is `ResetMapsKeysToThemselves` for all keys but one. `KeyTyping_reset` finds that
  property violated with right Win.

All but `TypeCorrect` assume that right Win (`7 \notin TypedMods`) is not used: its default
entry is missing, see `KeyTyping_reset`, so that the code does not do this for it.
`TypingAssumption` says that no more
keys are down than slots, because a keyboard then reports an error, which the model
leaves out.

Every safety invariant, action property and refinement that a passing run checks has
a theorem. The type invariants of `KeyTyping`, `KeyStore` and `Boot` are proved, and no
run repeats them. Only model-checked:

* All liveness (`CallsReturn`, `HandlersReturn`, `CommandCompletes`, `PcCatchesUp`,
  `LastReportArrives`, `StickIsTried`, `RequestsAreAnswered`), which TLAPS cannot do
  here, like `ENABLED`.

## Assumptions and what is not modelled

* A Flash page is written entirely or not at all.
* Driver calls on a handle that `disconnect()` has set to NULL fail at once and without
  effect: an answer or a stall does not reach the PC and the control thread ends, a
  data stage leaves the zero-filled buffer. A call made before that may still succeed
  until the device is detached; cut off, a data stage leaves the buffer zero as well.
* While an update command runs, the PC sees the keys that were held when it started;
  `KeyTyping` does not show the steps in between. Reset and the layout commands come
  when no key is held.
* A call on a handle whose device was pulled out fails; the handle stays open
  until it is closed. `attach_hid_keyboard()` and `attach_boms()` fail for a device
  of another class, `attach_fat()` for a stick without a file system.
* `FirmwareUpdateFATFileFeedback()` returns an error or restarts the device with the
  firmware of the file. The file holds the bytes of a 16-bit word of the user area
  in the other order than `userDataArea`, as the shifts in
  `compare_rom_and_file_version()` suggest.
* What is on a stick does not change while it is in the port.
* `connect()` is one step: the driver answers no request before the control thread
  exists. `malloc` failures are modelled only for macros.
* SET_ADDRESS, GET_STATUS of the device (one byte, where USB asks for two) and the
  contents of descriptors are constants of the answers; the check of `TypeOK` is
  that they fit in the control buffer.

Not modelled: debug and UART output, which has no effect on the rest; the search of
the client for its device and its usage text, which keep no state; the contents of
the descriptors; `setup_io_mux()` and the start of the VOS kernel, which run once
before anything else; `create_queue()` without memory.

A device that is no keyboard makes `usb_host_thread()` attach again and again without
a delay (`src/firmware/UsbHost.c:150`). Whether the main thread still runs then
depends on how long the host driver blocks, which the sources do not say.

## What could follow

1. *An abstract converter*: what the PC sees is a function of what was typed,
   implemented by `MainThread` with the FIFO queues. It needs a bound on how long a
   handler keeps reports for itself.
2. *Liveness of `ControlPipe`*: that every request is answered or cut off is checked of
   `SlaveControl`, and in `Threads` only as far as the PC's configuration is concerned.

-------------------------- MODULE KeyboardSession --------------------------
(***************************************************************************)
(* What the main thread may expect of the USB host thread: the order of    *)
(* the entries that it puts into g_main_thread_queue.  For each keyboard   *)
(* there is a connect, its reports, and a disconnect; the first report is  *)
(* always passed on, later ones when they differ from the one before.      *)
(* The bit changes with each entry, which tells an entry that is sent      *)
(* twice from a step that sends none.                                      *)
(***************************************************************************)
EXTENDS Integers

CONSTANT Reports

VARIABLE out    \* the entry that was sent last, and the bit

Connected == [event |-> "connect"]
Disconnected == [event |-> "disconnect"]
Input(r) == [event |-> "input", report |-> r]

Send(entry) == out' = [entry |-> entry, bit |-> 1 - out.bit]

\* The power is off, or no entry was sent.
Nothing == [entry |-> [event |-> "none"], bit |-> 0]

Init == out = Nothing

Connect ==
  /\ out.entry.event \in {"none", "disconnect"}
  /\ Send(Connected)

Report(r) ==
  /\ out.entry.event \in {"connect", "input"}
  /\ out.entry # Input(r)
  /\ Send(Input(r))

Disconnect ==
  /\ out.entry.event \in {"connect", "input"}
  /\ Send(Disconnected)

Reset == out' = Nothing

Next == Connect \/ Disconnect \/ Reset \/ \E r \in Reports : Report(r)

Spec == Init /\ [][Next]_out

=============================================================================

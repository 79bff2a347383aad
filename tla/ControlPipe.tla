---------------------------- MODULE ControlPipe ----------------------------
(***************************************************************************)
(* What the PC may expect of the device's control pipe: one request at a   *)
(* time, taken once and answered once by a control thread that belongs to  *)
(* this connection, or cut off when the device is detached.  A device is   *)
(* closed when its control thread has ended, so that no late answer of a   *)
(* connection before is taken for that to a request of the next.  Once it  *)
(* is being closed an answer may fail: the PC sees nothing of it, and its  *)
(* request is cut off by the detach.                                       *)
(***************************************************************************)

VARIABLES
  device,   \* closed, open, closing: the PC still sees it, joining: detached
  server,   \* the control thread: none, waits for a request, or serves one
  asked     \* the PC waits for an answer

vars == <<device, server, asked>>

Attached == device \in {"open", "closing"}

Init == device = "closed" /\ server = "none" /\ asked = FALSE

Connect ==
  /\ device = "closed" /\ server = "none"
  /\ device' = "open" /\ server' = "waits"
  /\ UNCHANGED asked

Ask == Attached /\ ~asked /\ asked' = TRUE /\ UNCHANGED <<device, server>>

Receive ==
  /\ server = "waits" /\ asked
  /\ server' = "serves"
  /\ UNCHANGED <<device, asked>>

\* The answer goes to the one who asked, or nowhere; the control thread goes
\* on as long as the device is open.
Answer ==
  /\ server = "serves"
  /\ Attached => asked
  /\ asked' = FALSE
  /\ server' = IF device = "open" THEN "waits" ELSE "none"
  /\ UNCHANGED device

\* The device's handle is gone before the PC has its answer.
Fail ==
  /\ device = "closing" /\ asked /\ server # "none"
  /\ server' = "none"
  /\ UNCHANGED <<device, asked>>

\* Waiting for a request is over once the device is detached.
End == server = "waits" /\ ~Attached /\ server' = "none" /\ UNCHANGED <<device, asked>>

Disconnect == device = "open" /\ device' = "closing" /\ UNCHANGED <<server, asked>>

Detach ==
  /\ device = "closing"
  /\ device' = "joining" /\ asked' = FALSE
  /\ UNCHANGED server

Close ==
  /\ device = "joining" /\ server = "none"
  /\ device' = "closed"
  /\ UNCHANGED <<server, asked>>

Next ==
  \/ Connect \/ Ask \/ Receive \/ Answer \/ Fail
  \/ End \/ Disconnect \/ Detach \/ Close

Spec == Init /\ [][Next]_vars

=============================================================================

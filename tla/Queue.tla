------------------------------- MODULE Queue -------------------------------
(***************************************************************************)
(* firmware/Queue.c: the ring buffer, mutex and two condition variables    *)
(* behind g_main_thread_queue, g_usb_host_queue and g_usb_slave_queue.     *)
(*                                                                         *)
(* Each queue of the firmware has one consumer thread.  g_usb_slave_queue  *)
(* (main thread) and g_usb_host_queue (slave control thread) have one      *)
(* producer; g_main_thread_queue has two, the USB host thread and the      *)
(* slave control thread.                                                   *)
(*                                                                         *)
(* A step is the code between two points where another thread can act on   *)
(* the queue: acquiring the mutex, the body up to the unlock or the wait,  *)
(* re-acquiring the mutex after a signal, the rest of the body.  The mutex *)
(* and the condition variables are those of the VOS kernel: waiting        *)
(* releases the mutex atomically, a signal readies one waiter (if any),    *)
(* which returns once it owns the mutex again, and no thread wakes without *)
(* a signal.                                                               *)
(***************************************************************************)
EXTENDS Integers, Sequences

CONSTANTS
  EntryCount,  \* entry_count: slots of the ring, one of which stays unused
  Data,        \* the values of an entry (entry_size bytes)
  Producers,   \* the threads that call enqueue()
  Consumer,    \* the thread that calls dequeue() and try_dequeue()
  NoThread,    \* "owner" of an unlocked mutex
  NoData       \* content of a slot or receive buffer never written

\* entry_count is a uint16, so i + 1 in cyclic_increment does not wrap.
ASSUME EntryCountAssumption == EntryCount \in 2 .. 65535

ASSUME ThreadAssumption ==
  /\ Consumer \notin Producers
  /\ NoThread \notin Producers \cup {Consumer}

ASSUME DataAssumption == NoData \notin Data

VARIABLES
  buffer, writeIndex, readIndex,
  lock,    \* the thread that owns queue->lock, or NoThread
  pc,      \* where each thread is in Queue.c
  slot,    \* current_write_index / current_read_index of a waiting thread
  item,    \* *data of a producer's enqueue() call
  out      \* *data of the consumer's last successful call

vars == <<buffer, writeIndex, readIndex, lock, pc, slot, item, out>>

Threads == Producers \cup {Consumer}
Slots == 0 .. EntryCount - 1

\* Mutant: the comparison of line 8 off by one.
CyclicIncrement_OffByOne(i) == IF i + 1 > EntryCount THEN 0 ELSE i + 1

CyclicIncrement(i) == IF i + 1 >= EntryCount THEN 0 ELSE i + 1

IsFull == CyclicIncrement(writeIndex) = readIndex
IsEmpty == readIndex = writeIndex

\* create_queue()
Init ==
  /\ buffer = [s \in Slots |-> NoData]
  /\ writeIndex = 0
  /\ readIndex = 0
  /\ lock = NoThread
  /\ pc = [t \in Threads |-> "idle"]
  /\ slot = [t \in Threads |-> 0]
  /\ item \in [Producers -> Data]
  /\ out = NoData

-----------------------------------------------------------------------------
(***************************************************************************)
(* VOS: vos_lock_mutex(), and the wait of a thread that was signalled for  *)
(* the mutex.                                                              *)
(***************************************************************************)
Acquire(t, from, to) ==
  /\ pc[t] = from
  /\ lock = NoThread
  /\ lock' = t
  /\ pc' = [pc EXCEPT ![t] = to]
  /\ UNCHANGED <<buffer, writeIndex, readIndex, slot, item, out>>

\* VOS: vos_wait_cond_var() by t, whose index of the slot it waits for is s.
Wait(t, s, at) ==
  /\ lock' = NoThread
  /\ pc' = [pc EXCEPT ![t] = at]
  /\ slot' = [slot EXCEPT ![t] = s]
  /\ UNCHANGED <<buffer, writeIndex, readIndex, item, out>>

\* t returns from Queue.c; nobody is signalled.
Return(t) == pc' = [pc EXCEPT ![t] = "idle"]

\* t returns from Queue.c after vos_signal_cond_var() on the condition
\* variable that the threads ws wait for.
ReturnAndSignal(t, ws, woken) ==
  \/ /\ ws = {}
     /\ Return(t)
  \/ \E w \in ws : pc' = [pc EXCEPT ![t] = "idle", ![w] = woken]

NotFullWaiters == {p \in Producers : pc[p] = "enqWait"}
NotEmptyWaiters == {c \in {Consumer} : pc[c] = "deqWait"}

-----------------------------------------------------------------------------
(***************************************************************************)
(* enqueue()                                                               *)
(***************************************************************************)
CallEnqueue(p, d) ==
  /\ pc[p] = "idle"
  /\ item' = [item EXCEPT ![p] = d]
  /\ pc' = [pc EXCEPT ![p] = "enqLock"]
  /\ UNCHANGED <<buffer, writeIndex, readIndex, lock, slot, out>>

EnqLock(p) == Acquire(p, "enqLock", "enqLocked")

\* Mutant: the index kept across the wait is next_write_index.
EnqFull_WrongSlot(p) ==
  /\ pc[p] = "enqLocked"
  /\ IsFull
  /\ Wait(p, CyclicIncrement(writeIndex), "enqWait")

EnqFull(p) ==
  /\ pc[p] = "enqLocked"
  /\ IsFull
  /\ Wait(p, writeIndex, "enqWait")

EnqWake(p) == Acquire(p, "enqWoken", "enqResume")

\* Mutant: the not-empty test of line 47 after the index was advanced.
Store_LateTest(p, s) ==
  /\ buffer' = [buffer EXCEPT ![s] = item[p]]
  /\ writeIndex' = CyclicIncrement(s)
  /\ IF writeIndex' = readIndex THEN ReturnAndSignal(p, NotEmptyWaiters, "deqWoken")
                               ELSE Return(p)
  /\ lock' = NoThread
  /\ UNCHANGED <<readIndex, slot, item, out>>

\* Lines 43-51, with current_write_index = s.
Store(p, s) ==
  /\ buffer' = [buffer EXCEPT ![s] = item[p]]
  /\ writeIndex' = CyclicIncrement(s)
  /\ IF s = readIndex THEN ReturnAndSignal(p, NotEmptyWaiters, "deqWoken")
                      ELSE Return(p)
  /\ lock' = NoThread
  /\ UNCHANGED <<readIndex, slot, item, out>>

\* Mutant: no wait when the ring is full.
EnqStore_NoWait(p) ==
  /\ pc[p] = "enqLocked"
  /\ Store(p, writeIndex)

EnqStore(p) ==
  /\ pc[p] = "enqLocked"
  /\ ~IsFull
  /\ Store(p, writeIndex)

\* The condition is not tested again and the index is the one read before
\* the wait.
EnqResume(p) ==
  /\ pc[p] = "enqResume"
  /\ Store(p, slot[p])

-----------------------------------------------------------------------------
(***************************************************************************)
(* dequeue()                                                               *)
(***************************************************************************)
CallDequeue ==
  /\ pc[Consumer] = "idle"
  /\ pc' = [pc EXCEPT ![Consumer] = "deqLock"]
  /\ UNCHANGED <<buffer, writeIndex, readIndex, lock, slot, item, out>>

DeqLock == Acquire(Consumer, "deqLock", "deqLocked")

DeqEmpty ==
  /\ pc[Consumer] = "deqLocked"
  /\ IsEmpty
  /\ Wait(Consumer, readIndex, "deqWait")

DeqWake == Acquire(Consumer, "deqWoken", "deqResume")

\* Mutant: the full test of lines 68 and 92 without the increment.
Fetch_WrongTest(s) ==
  /\ out' = buffer[s]
  /\ readIndex' = CyclicIncrement(readIndex)
  /\ IF s = writeIndex
     THEN ReturnAndSignal(Consumer, NotFullWaiters, "enqWoken")
     ELSE Return(Consumer)
  /\ lock' = NoThread
  /\ UNCHANGED <<buffer, writeIndex, slot, item>>

\* Lines 64-72 of dequeue() and 88-95 of try_dequeue(), with
\* current_read_index = s.
Fetch(s) ==
  /\ out' = buffer[s]
  /\ readIndex' = CyclicIncrement(readIndex)
  /\ IF s = CyclicIncrement(writeIndex)
     THEN ReturnAndSignal(Consumer, NotFullWaiters, "enqWoken")
     ELSE Return(Consumer)
  /\ lock' = NoThread
  /\ UNCHANGED <<buffer, writeIndex, slot, item>>

DeqFetch ==
  /\ pc[Consumer] = "deqLocked"
  /\ ~IsEmpty
  /\ Fetch(readIndex)

DeqResume ==
  /\ pc[Consumer] = "deqResume"
  /\ Fetch(slot[Consumer])

-----------------------------------------------------------------------------
(***************************************************************************)
(* try_dequeue().  A failed vos_trylock_mutex() returns 0 and changes      *)
(* nothing, which is a stuttering step.                                    *)
(***************************************************************************)
TryLock == Acquire(Consumer, "idle", "tryLocked")

\* Mutant: the early return without the unlock of line 84.
TryEmpty_NoUnlock ==
  /\ pc[Consumer] = "tryLocked"
  /\ IsEmpty
  /\ Return(Consumer)
  /\ UNCHANGED <<buffer, writeIndex, readIndex, lock, slot, item, out>>

TryEmpty ==
  /\ pc[Consumer] = "tryLocked"
  /\ IsEmpty
  /\ Return(Consumer)
  /\ lock' = NoThread
  /\ UNCHANGED <<buffer, writeIndex, readIndex, slot, item, out>>

TryFetch ==
  /\ pc[Consumer] = "tryLocked"
  /\ ~IsEmpty
  /\ Fetch(readIndex)

-----------------------------------------------------------------------------
Enqueuing(p) ==
  EnqLock(p) \/ EnqFull(p) \/ EnqWake(p) \/ EnqStore(p) \/ EnqResume(p)

Dequeuing ==
  DeqLock \/ DeqEmpty \/ DeqWake \/ DeqFetch \/ DeqResume
    \/ TryEmpty \/ TryFetch

Next ==
  \/ \E p \in Producers : Enqueuing(p) \/ \E d \in Data : CallEnqueue(p, d)
  \/ CallDequeue \/ TryLock \/ Dequeuing

Spec == Init /\ [][Next]_vars

(***************************************************************************)
(* Scheduling: a thread that is ready runs eventually, a thread blocked on *)
(* the mutex gets it eventually although others take it in between, and    *)
(* the consumer thread is a loop that keeps asking for entries.  Producers *)
(* need never call enqueue().                                              *)
(***************************************************************************)
Fairness ==
  /\ \A p \in Producers :
       /\ SF_vars(EnqLock(p)) /\ SF_vars(EnqWake(p))
       /\ WF_vars(EnqFull(p) \/ EnqStore(p) \/ EnqResume(p))
  /\ SF_vars(DeqLock) /\ SF_vars(DeqWake)
  /\ WF_vars(DeqEmpty \/ DeqFetch \/ DeqResume \/ TryEmpty \/ TryFetch)
  /\ WF_vars(CallDequeue \/ TryLock)

FairSpec == Spec /\ Fairness

-----------------------------------------------------------------------------
(***************************************************************************)
(* The abstract content of the ring: the slots from readIndex up to, but   *)
(* not including, writeIndex.                                              *)
(***************************************************************************)
Used ==
  IF writeIndex >= readIndex THEN writeIndex - readIndex
                             ELSE writeIndex - readIndex + EntryCount

SlotAfter(s, n) == IF s + n >= EntryCount THEN s + n - EntryCount ELSE s + n

Contents == [i \in 1 .. Used |-> buffer[SlotAfter(readIndex, i - 1)]]

Abstract == INSTANCE Fifo WITH Capacity <- EntryCount - 1, fifo <- Contents

-----------------------------------------------------------------------------
PcProducer == {"idle", "enqLock", "enqLocked", "enqWait", "enqWoken", "enqResume"}
PcConsumer == {"idle", "deqLock", "deqLocked", "deqWait", "deqWoken", "deqResume",
               "tryLocked"}

\* Types: in particular both indices stay inside the ring.
TypeOK ==
  /\ buffer \in [Slots -> Data \cup {NoData}]
  /\ writeIndex \in Slots
  /\ readIndex \in Slots
  /\ lock \in Threads \cup {NoThread}
  /\ pc \in [Threads -> PcProducer \cup PcConsumer]
  /\ \A p \in Producers : pc[p] \in PcProducer
  /\ pc[Consumer] \in PcConsumer
  /\ slot \in [Threads -> Slots]
  /\ item \in [Producers -> Data]
  /\ out \in Data \cup {NoData}

\* A thread owns the mutex exactly while it is in the locked part of one of
\* the three functions: no path returns or waits with the mutex held.
InSection(t) == pc[t] \in {"enqLocked", "enqResume", "deqLocked", "deqResume", "tryLocked"}
LockDiscipline == \A t \in Threads : InSection(t) <=> lock = t

\* The two conditions of Queue.c are tested with if, not while: a thread
\* that waited runs on with the index it read before it waited.  This is
\* right only if no other thread makes that index stale before it resumes,
\* and if the condition it was signalled for still holds then.
ResumeSafe ==
  /\ \A p \in Producers :
       /\ pc[p] \in {"enqWait", "enqWoken", "enqResume"} => slot[p] = writeIndex
       /\ pc[p] \in {"enqWoken", "enqResume"} => ~IsFull
  /\ pc[Consumer] \in {"deqWait", "deqWoken", "deqResume"} =>
       slot[Consumer] = readIndex
  /\ pc[Consumer] \in {"deqWoken", "deqResume"} => ~IsEmpty

\* Queue.c signals only when it finds the queue full or empty before its own
\* change.  Nobody may be left waiting for a condition that already holds.
NoLostWakeup ==
  /\ \A p \in Producers : pc[p] = "enqWait" => IsFull
  /\ pc[Consumer] = "deqWait" => IsEmpty

\* The ring buffer is a FIFO: nothing lost, repeated, reordered or made up.
ImplementsFifo == Abstract!Spec

\* A thread that calls enqueue() returns from it although the queue may be
\* full when it calls, and the consumer does not sleep through an enqueue().
CallsReturn ==
  /\ \A p \in Producers : pc[p] = "enqLock" ~> pc[p] = "idle"
  /\ pc[Consumer] = "deqWait" /\ (\E p \in Producers : pc[p] = "enqLock")
       ~> pc[Consumer] = "idle"

=============================================================================

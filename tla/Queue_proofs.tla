---------------------------- MODULE Queue_proofs ----------------------------
(***************************************************************************)
(* What Queue.c guarantees for every ring size and every set of entries:   *)
(* the first two theorems hold for any number of producers, the others     *)
(* need a single one (Queue_main_fifo.cfg and Queue_main_stuck.cfg show    *)
(* that they fail with two).                                               *)
(***************************************************************************)
EXTENDS Queue, SequenceTheorems, TLAPS

\* g_usb_slave_queue and g_usb_host_queue: only one thread calls enqueue().
SingleProducer == \A p, q \in Producers : p = q

LEMMA CyclicIncrementType ==
  ASSUME NEW i \in Slots
  PROVE  CyclicIncrement(i) \in Slots
BY EntryCountAssumption DEF Slots, CyclicIncrement

LEMMA ConsumerIsThread == Consumer \in Threads /\ Producers \subseteq Threads
BY DEF Threads

-----------------------------------------------------------------------------
(***************************************************************************)
(* Type correctness, one lemma per shared part of the actions.             *)
(***************************************************************************)
LEMMA ReturnAndSignalType ==
  ASSUME TypeOK,
         NEW t \in Threads, NEW ws, NEW woken,
         ReturnAndSignal(t, ws, woken),
         \/ ws \subseteq Producers /\ woken \in PcProducer
         \/ ws \subseteq {Consumer} /\ woken \in PcConsumer
  PROVE  /\ pc' \in [Threads -> PcProducer \cup PcConsumer]
         /\ \A p \in Producers : pc'[p] \in PcProducer
         /\ pc'[Consumer] \in PcConsumer
<1>1. CASE pc' = [pc EXCEPT ![t] = "idle"]
  BY <1>1, ThreadAssumption DEF TypeOK, Threads, PcProducer, PcConsumer
<1>2. CASE \E w \in ws : pc' = [pc EXCEPT ![t] = "idle", ![w] = woken]
  <2> PICK w \in ws : pc' = [pc EXCEPT ![t] = "idle", ![w] = woken]
    BY <1>2
  <2>1. CASE ws \subseteq Producers /\ woken \in PcProducer
    BY <2>1, ThreadAssumption DEF TypeOK, Threads, PcProducer, PcConsumer
  <2>2. CASE ws \subseteq {Consumer} /\ woken \in PcConsumer
    BY <2>2, ThreadAssumption DEF TypeOK, Threads, PcProducer, PcConsumer
  <2> QED BY <2>1, <2>2
<1> QED BY <1>1, <1>2 DEF ReturnAndSignal, Return

LEMMA StoreType ==
  ASSUME TypeOK, NEW p \in Producers, NEW s \in Slots, Store(p, s)
  PROVE  TypeOK'
<1> USE ConsumerIsThread
<1>1. /\ pc' \in [Threads -> PcProducer \cup PcConsumer]
      /\ \A q \in Producers : pc'[q] \in PcProducer
      /\ pc'[Consumer] \in PcConsumer
  <2>1. CASE ReturnAndSignal(p, NotEmptyWaiters, "deqWoken")
    <3>1. NotEmptyWaiters \subseteq {Consumer} /\ "deqWoken" \in PcConsumer
      BY DEF NotEmptyWaiters, PcConsumer
    <3> QED BY <2>1, <3>1, ReturnAndSignalType
  <2>2. CASE Return(p)
    BY <2>2, ThreadAssumption DEF TypeOK, Return, Threads, PcProducer, PcConsumer
  <2> QED BY <2>1, <2>2 DEF Store
<1>2. writeIndex' \in Slots
  BY CyclicIncrementType DEF Store
<1>3. buffer' \in [Slots -> Data \cup {NoData}]
  BY DEF Store, TypeOK
<1> QED BY <1>1, <1>2, <1>3 DEF Store, TypeOK, Threads

LEMMA FetchType ==
  ASSUME TypeOK, NEW s \in Slots, Fetch(s)
  PROVE  TypeOK'
<1> USE ConsumerIsThread
<1>1. /\ pc' \in [Threads -> PcProducer \cup PcConsumer]
      /\ \A q \in Producers : pc'[q] \in PcProducer
      /\ pc'[Consumer] \in PcConsumer
  <2>1. CASE ReturnAndSignal(Consumer, NotFullWaiters, "enqWoken")
    <3>1. NotFullWaiters \subseteq Producers /\ "enqWoken" \in PcProducer
      BY DEF NotFullWaiters, PcProducer
    <3> QED BY <2>1, <3>1, ReturnAndSignalType
  <2>2. CASE Return(Consumer)
    BY <2>2, ThreadAssumption DEF TypeOK, Return, Threads, PcProducer, PcConsumer
  <2> QED BY <2>1, <2>2 DEF Fetch
<1>2. readIndex' \in Slots
  BY CyclicIncrementType DEF Fetch, TypeOK
<1>3. out' \in Data \cup {NoData}
  BY DEF Fetch, TypeOK
<1> QED BY <1>1, <1>2, <1>3 DEF Fetch, TypeOK

LEMMA AcquireType ==
  ASSUME TypeOK, NEW t \in Threads, NEW from, NEW to, Acquire(t, from, to),
         \/ t \in Producers /\ to \in PcProducer
         \/ t = Consumer /\ to \in PcConsumer
  PROVE  TypeOK'
BY ThreadAssumption DEF TypeOK, Acquire, Threads

LEMMA WaitType ==
  ASSUME TypeOK, NEW t \in Threads, NEW s \in Slots, NEW at, Wait(t, s, at),
         \/ t \in Producers /\ at \in PcProducer
         \/ t = Consumer /\ at \in PcConsumer
  PROVE  TypeOK'
BY ThreadAssumption DEF TypeOK, Wait, Threads

LEMMA TypeStep == TypeOK /\ [Next]_vars => TypeOK'
<1> SUFFICES ASSUME TypeOK, [Next]_vars PROVE TypeOK'
  OBVIOUS
<1> USE ConsumerIsThread
<1>1. ASSUME NEW p \in Producers, NEW d \in Data, CallEnqueue(p, d)
      PROVE  TypeOK'
  BY <1>1, ThreadAssumption DEF CallEnqueue, TypeOK, Threads, PcProducer
<1>2. ASSUME NEW p \in Producers, EnqLock(p) \/ EnqWake(p)
      PROVE  TypeOK'
  <2>1. "enqLocked" \in PcProducer /\ "enqResume" \in PcProducer
    BY DEF PcProducer
  <2> QED BY <1>2, <2>1, AcquireType DEF EnqLock, EnqWake
<1>3. ASSUME NEW p \in Producers, EnqFull(p)
      PROVE  TypeOK'
  <2>1. "enqWait" \in PcProducer /\ writeIndex \in Slots
    BY DEF PcProducer, TypeOK
  <2> QED BY <1>3, <2>1, WaitType DEF EnqFull
<1>4. ASSUME NEW p \in Producers, EnqStore(p) \/ EnqResume(p)
      PROVE  TypeOK'
  <2>1. writeIndex \in Slots /\ slot[p] \in Slots
    BY DEF TypeOK
  <2> QED BY <1>4, <2>1, StoreType DEF EnqStore, EnqResume
<1>5. CASE CallDequeue
  BY <1>5, ThreadAssumption DEF CallDequeue, TypeOK, Threads, PcConsumer
<1>6. CASE DeqLock \/ DeqWake \/ TryLock
  <2>1. {"deqLocked", "deqResume", "tryLocked"} \subseteq PcConsumer
    BY DEF PcConsumer
  <2> QED BY <1>6, <2>1, AcquireType DEF DeqLock, DeqWake, TryLock
<1>7. CASE DeqEmpty
  <2>1. "deqWait" \in PcConsumer /\ readIndex \in Slots
    BY DEF PcConsumer, TypeOK
  <2> QED BY <1>7, <2>1, WaitType DEF DeqEmpty
<1>8. CASE DeqFetch \/ DeqResume \/ TryFetch
  <2>1. readIndex \in Slots /\ slot[Consumer] \in Slots
    BY DEF TypeOK
  <2> QED BY <1>8, <2>1, FetchType DEF DeqFetch, DeqResume, TryFetch
<1>9. CASE TryEmpty
  BY <1>9, ThreadAssumption DEF TryEmpty, Return, TypeOK, Threads, PcConsumer
<1>10. CASE UNCHANGED vars
  BY <1>10 DEF vars, TypeOK
<1> QED
  BY <1>1, <1>2, <1>3, <1>4, <1>5, <1>6, <1>7, <1>8, <1>9, <1>10
  DEF Next, Enqueuing, Dequeuing

\* The indices never leave the ring and every thread is at a point of its
\* own functions, whatever the number of producers.
THEOREM TypeCorrect == Spec => []TypeOK
<1>1. Init => TypeOK
  <2> SUFFICES ASSUME Init PROVE TypeOK
    OBVIOUS
  <2>1. 0 \in Slots
    BY EntryCountAssumption DEF Slots
  <2> QED BY <2>1 DEF Init, TypeOK, Threads, PcProducer, PcConsumer
<1> QED BY <1>1, TypeStep, PTL DEF Spec

-----------------------------------------------------------------------------
(***************************************************************************)
(* Mutual exclusion, for any number of producers.                          *)
(***************************************************************************)
LEMMA Release ==
  ASSUME TypeOK, LockDiscipline,
         NEW t \in Threads, InSection(t), lock' = NoThread,
         \/ \E at \in {"idle", "enqWait", "deqWait"} : pc' = [pc EXCEPT ![t] = at]
         \/ \E w \in Threads, woken \in {"enqWoken", "deqWoken"} :
              pc' = [pc EXCEPT ![t] = "idle", ![w] = woken]
  PROVE  LockDiscipline'
<1> SUFFICES ASSUME NEW u \in Threads PROVE ~InSection(u)' /\ lock' # u
  BY DEF LockDiscipline
<1>1. lock' # u
  BY ThreadAssumption DEF Threads
<1>2. u # t => ~InSection(u)
  BY DEF LockDiscipline
<1> QED BY <1>1, <1>2 DEF InSection, TypeOK

LEMMA Enter ==
  ASSUME TypeOK, LockDiscipline, NEW t \in Threads, NEW from,
         NEW to \in {"enqLocked", "enqResume", "deqLocked", "deqResume", "tryLocked"},
         Acquire(t, from, to)
  PROVE  LockDiscipline'
<1> SUFFICES ASSUME NEW u \in Threads PROVE (InSection(u) <=> lock = u)'
  BY DEF LockDiscipline
<1>1. ~InSection(u)
  BY ThreadAssumption DEF LockDiscipline, Acquire, Threads
<1> QED BY <1>1 DEF Acquire, InSection, TypeOK

LEMMA SignalRelease ==
  ASSUME TypeOK, LockDiscipline,
         NEW t \in Threads, InSection(t), lock' = NoThread,
         NEW ws \in SUBSET Threads, NEW woken \in {"enqWoken", "deqWoken"},
         ReturnAndSignal(t, ws, woken) \/ Return(t)
  PROVE  LockDiscipline'
BY Release DEF ReturnAndSignal, Return

LEMMA LockStep == TypeOK /\ LockDiscipline /\ [Next]_vars => LockDiscipline'
<1> SUFFICES ASSUME TypeOK, LockDiscipline, [Next]_vars PROVE LockDiscipline'
  OBVIOUS
<1> USE ConsumerIsThread
<1>1. ASSUME NEW p \in Producers, NEW d \in Data, CallEnqueue(p, d)
      PROVE  LockDiscipline'
  BY <1>1 DEF CallEnqueue, LockDiscipline, InSection, TypeOK
<1>2. ASSUME NEW p \in Producers, EnqLock(p) \/ EnqWake(p)
      PROVE  LockDiscipline'
  BY <1>2, Enter DEF EnqLock, EnqWake
<1>3. ASSUME NEW p \in Producers, EnqFull(p)
      PROVE  LockDiscipline'
  <2>1. InSection(p)
    BY <1>3 DEF EnqFull, InSection
  <2> QED BY <1>3, <2>1, Release DEF EnqFull, Wait
<1>4. ASSUME NEW p \in Producers, EnqStore(p) \/ EnqResume(p)
      PROVE  LockDiscipline'
  <2>1. InSection(p)
    BY <1>4 DEF EnqStore, EnqResume, InSection
  <2>2. NotEmptyWaiters \in SUBSET Threads
    BY DEF NotEmptyWaiters
  <2> QED BY <1>4, <2>1, <2>2, SignalRelease DEF EnqStore, EnqResume, Store
<1>5. CASE CallDequeue
  BY <1>5 DEF CallDequeue, LockDiscipline, InSection, TypeOK
<1>6. CASE DeqLock \/ DeqWake \/ TryLock
  BY <1>6, Enter DEF DeqLock, DeqWake, TryLock
<1>7. CASE DeqEmpty
  <2>1. InSection(Consumer)
    BY <1>7 DEF DeqEmpty, InSection
  <2> QED BY <1>7, <2>1, Release DEF DeqEmpty, Wait
<1>8. CASE DeqFetch \/ DeqResume \/ TryFetch
  <2>1. InSection(Consumer)
    BY <1>8 DEF DeqFetch, DeqResume, TryFetch, InSection
  <2>2. NotFullWaiters \in SUBSET Threads
    BY DEF NotFullWaiters
  <2> QED BY <1>8, <2>1, <2>2, SignalRelease DEF DeqFetch, DeqResume, TryFetch, Fetch
<1>9. CASE TryEmpty
  <2>1. InSection(Consumer)
    BY <1>9 DEF TryEmpty, InSection
  <2> QED BY <1>9, <2>1, SignalRelease DEF TryEmpty
<1>10. CASE UNCHANGED vars
  BY <1>10 DEF vars, LockDiscipline, InSection
<1> QED
  BY <1>1, <1>2, <1>3, <1>4, <1>5, <1>6, <1>7, <1>8, <1>9, <1>10
  DEF Next, Enqueuing, Dequeuing

\* Every thread inside a locked part of Queue.c owns the mutex, no thread
\* leaves or waits with the mutex held: for any number of producers.
THEOREM MutualExclusion == Spec => []LockDiscipline
<1>1. Init => LockDiscipline
  BY ThreadAssumption DEF Init, LockDiscipline, InSection, Threads
<1> QED BY <1>1, LockStep, TypeCorrect, PTL DEF Spec

-----------------------------------------------------------------------------
(***************************************************************************)
(* One producer.  ResumeSafe alone is not inductive: that the consumer's   *)
(* signal wakes the producer only when there is room, and the producer's   *)
(* signal the consumer only when there is an entry, needs NoLostWakeup,    *)
(* and that nobody is missed needs ResumeSafe.                             *)
(***************************************************************************)
WaitInv == TypeOK /\ ResumeSafe /\ NoLostWakeup

LEMMA CyclicIncrementFacts ==
  ASSUME NEW i \in Slots, NEW j \in Slots
  PROVE  /\ CyclicIncrement(i) # i
         /\ CyclicIncrement(i) = CyclicIncrement(j) => i = j
BY EntryCountAssumption DEF Slots, CyclicIncrement

\* A step that leaves the ring alone and moves t between points at which it
\* does not wait, or from a wait that was signalled to its resumption.
LEMMA MoveKeepsWaitInv ==
  ASSUME TypeOK, ResumeSafe, NoLostWakeup, NEW t \in Threads, NEW at,
         pc' = [pc EXCEPT ![t] = at],
         UNCHANGED <<writeIndex, readIndex, slot>>,
         \/ at \in {"idle", "enqLock", "deqLock", "enqLocked", "deqLocked", "tryLocked"}
         \/ pc[t] = "enqWoken" /\ at = "enqResume"
         \/ pc[t] = "deqWoken" /\ at = "deqResume"
  PROVE  ResumeSafe' /\ NoLostWakeup'
<1>1. NoLostWakeup'
  BY ThreadAssumption DEF NoLostWakeup, TypeOK, Threads, IsFull, IsEmpty
<1>2. ResumeSafe'
  BY ThreadAssumption
  DEF ResumeSafe, TypeOK, Threads, IsFull, IsEmpty, PcProducer, PcConsumer
<1> QED BY <1>1, <1>2

LEMMA StoreKeepsWaitInv ==
  ASSUME SingleProducer, TypeOK, ResumeSafe, NoLostWakeup, ~IsFull,
         NEW p \in Producers, Store(p, writeIndex)
  PROVE  ResumeSafe' /\ NoLostWakeup'
<1> USE ConsumerIsThread
<1>1. \A q \in Producers : q = p
  BY DEF SingleProducer
<1>2. p # Consumer
  BY ThreadAssumption
<1>3. pc'[p] = "idle"
  BY <1>2 DEF Store, ReturnAndSignal, Return, NotEmptyWaiters, TypeOK
<1>4. ~IsEmpty'
  BY DEF Store, IsEmpty, IsFull
<1>5. pc'[Consumer] # "deqWait"
  <2>1. CASE pc[Consumer] = "deqWait"
    <3>1. writeIndex = readIndex /\ NotEmptyWaiters = {Consumer}
      BY <2>1 DEF NoLostWakeup, IsEmpty, NotEmptyWaiters
    <3> QED BY <3>1, <1>2 DEF Store, ReturnAndSignal, TypeOK
  <2>2. CASE pc[Consumer] # "deqWait"
    <3>1. NotEmptyWaiters = {}
      BY <2>2 DEF NotEmptyWaiters
    <3> QED BY <2>2, <3>1, <1>2 DEF Store, ReturnAndSignal, Return, TypeOK
  <2> QED BY <2>1, <2>2
<1>6. pc'[Consumer] \in {"deqWoken", "deqResume"} => slot'[Consumer] = readIndex'
  <2>1. pc'[Consumer] = pc[Consumer] \/ pc[Consumer] = "deqWait"
    BY <1>2 DEF Store, ReturnAndSignal, Return, NotEmptyWaiters, TypeOK
  <2> QED BY <2>1 DEF Store, ResumeSafe
<1> QED
  BY <1>1, <1>3, <1>4, <1>5, <1>6 DEF ResumeSafe, NoLostWakeup

LEMMA FetchKeepsWaitInv ==
  ASSUME SingleProducer, TypeOK, ResumeSafe, NoLostWakeup, ~IsEmpty, Fetch(readIndex)
  PROVE  ResumeSafe' /\ NoLostWakeup'
<1> USE ConsumerIsThread
<1>1. pc'[Consumer] = "idle"
  BY ThreadAssumption DEF Fetch, ReturnAndSignal, Return, NotFullWaiters, TypeOK
<1>2. ~IsFull'
  BY CyclicIncrementFacts DEF Fetch, IsEmpty, IsFull, TypeOK
<1>3. ASSUME NEW p \in Producers
      PROVE  /\ pc'[p] # "enqWait"
             /\ pc'[p] \in {"enqWoken", "enqResume"} => slot'[p] = writeIndex'
  <2>1. p # Consumer /\ \A q \in Producers : q = p
    BY ThreadAssumption DEF SingleProducer
  <2>2. CASE pc[p] = "enqWait"
    <3>1. readIndex = CyclicIncrement(writeIndex) /\ NotFullWaiters = {p}
      BY <2>1, <2>2 DEF NoLostWakeup, IsFull, NotFullWaiters
    <3>2. pc' = [pc EXCEPT ![Consumer] = "idle", ![p] = "enqWoken"]
      BY <3>1 DEF Fetch, ReturnAndSignal
    <3>3. slot[p] = writeIndex
      BY <2>2 DEF ResumeSafe
    <3> QED BY <3>2, <3>3, <2>1 DEF Fetch, TypeOK
  <2>3. CASE pc[p] # "enqWait"
    <3>1. NotFullWaiters = {}
      BY <2>1, <2>3 DEF NotFullWaiters
    <3>2. pc'[p] = pc[p]
      BY <3>1, <2>1 DEF Fetch, ReturnAndSignal, Return, TypeOK
    <3> QED BY <3>2, <2>3 DEF Fetch, ResumeSafe
  <2> QED BY <2>2, <2>3
<1> QED BY <1>1, <1>2, <1>3 DEF ResumeSafe, NoLostWakeup

LEMMA WaitStep ==
  SingleProducer /\ TypeOK /\ ResumeSafe /\ NoLostWakeup /\ [Next]_vars
    => ResumeSafe' /\ NoLostWakeup'
<1> SUFFICES ASSUME SingleProducer, TypeOK, ResumeSafe, NoLostWakeup, [Next]_vars
             PROVE  ResumeSafe' /\ NoLostWakeup'
  OBVIOUS
<1> USE ConsumerIsThread
<1>1. ASSUME NEW p \in Producers, NEW d \in Data, CallEnqueue(p, d)
      PROVE  ResumeSafe' /\ NoLostWakeup'
  BY <1>1, MoveKeepsWaitInv DEF CallEnqueue
<1>2. ASSUME NEW p \in Producers, EnqLock(p) \/ EnqWake(p)
      PROVE  ResumeSafe' /\ NoLostWakeup'
  BY <1>2, MoveKeepsWaitInv DEF EnqLock, EnqWake, Acquire
<1>3. ASSUME NEW p \in Producers, EnqFull(p)
      PROVE  ResumeSafe' /\ NoLostWakeup'
  <2>1. p # Consumer /\ \A q \in Producers : q = p
    BY ThreadAssumption DEF SingleProducer
  <2>2. /\ pc'[p] = "enqWait" /\ pc'[Consumer] = pc[Consumer]
        /\ slot'[p] = writeIndex /\ slot'[Consumer] = slot[Consumer]
    BY <1>3, <2>1 DEF EnqFull, Wait, TypeOK
  <2>3. /\ UNCHANGED <<writeIndex, readIndex>>
        /\ IsFull' /\ (IsEmpty' <=> IsEmpty)
    BY <1>3 DEF EnqFull, Wait, IsFull, IsEmpty
  <2> QED BY <2>1, <2>2, <2>3 DEF ResumeSafe, NoLostWakeup
<1>4. ASSUME NEW p \in Producers, EnqStore(p) \/ EnqResume(p)
      PROVE  ResumeSafe' /\ NoLostWakeup'
  <2>1. ~IsFull /\ Store(p, writeIndex)
    BY <1>4 DEF EnqStore, EnqResume, ResumeSafe
  <2> QED BY <2>1, StoreKeepsWaitInv
<1>5. CASE CallDequeue
  BY <1>5, MoveKeepsWaitInv DEF CallDequeue
<1>6. CASE DeqLock \/ DeqWake \/ TryLock
  BY <1>6, MoveKeepsWaitInv DEF DeqLock, DeqWake, TryLock, Acquire
<1>7. CASE DeqEmpty
  <2>1. /\ pc'[Consumer] = "deqWait" /\ slot'[Consumer] = readIndex
        /\ \A p \in Producers : pc'[p] = pc[p] /\ slot'[p] = slot[p]
    BY <1>7, ThreadAssumption DEF DeqEmpty, Wait, TypeOK
  <2>2. /\ UNCHANGED <<writeIndex, readIndex>>
        /\ IsEmpty' /\ (IsFull' <=> IsFull)
    BY <1>7 DEF DeqEmpty, Wait, IsFull, IsEmpty
  <2> QED BY <2>1, <2>2 DEF ResumeSafe, NoLostWakeup
<1>8. CASE DeqFetch \/ DeqResume \/ TryFetch
  <2>1. ~IsEmpty /\ Fetch(readIndex)
    BY <1>8 DEF DeqFetch, DeqResume, TryFetch, ResumeSafe
  <2> QED BY <2>1, FetchKeepsWaitInv
<1>9. CASE TryEmpty
  BY <1>9, MoveKeepsWaitInv DEF TryEmpty, Return
<1>10. CASE UNCHANGED vars
  BY <1>10 DEF vars, ResumeSafe, NoLostWakeup, IsFull, IsEmpty
<1> QED
  BY <1>1, <1>2, <1>3, <1>4, <1>5, <1>6, <1>7, <1>8, <1>9, <1>10
  DEF Next, Enqueuing, Dequeuing

LEMMA WaitInvariant ==
  ASSUME SingleProducer
  PROVE  Spec => []WaitInv
<1>1. Init => ResumeSafe /\ NoLostWakeup
  BY ConsumerIsThread DEF Init, ResumeSafe, NoLostWakeup
<1>2. TypeOK /\ ResumeSafe /\ NoLostWakeup /\ [Next]_vars => ResumeSafe' /\ NoLostWakeup'
  BY WaitStep
<1> QED BY <1>1, <1>2, TypeCorrect, PTL DEF Spec, WaitInv

\* With one producer the conditions tested with if, and the indices read
\* before the wait, are still right when a thread resumes.
THEOREM ResumeIsSafe ==
  ASSUME SingleProducer
  PROVE  Spec => []ResumeSafe
BY WaitInvariant, PTL DEF WaitInv

\* With one producer no thread waits for a condition that already holds.
THEOREM WakeupsAreNotLost ==
  ASSUME SingleProducer
  PROVE  Spec => []NoLostWakeup
BY WaitInvariant, PTL DEF WaitInv

-----------------------------------------------------------------------------
(***************************************************************************)
(* Refinement of the FIFO: a completed store is Put, a completed fetch is  *)
(* Get, and every other step leaves the content of the ring alone.         *)
(***************************************************************************)
LEMMA UsedFacts ==
  ASSUME TypeOK
  PROVE  /\ Used \in 0 .. EntryCount - 1
         /\ Contents \in Seq(Data \cup {NoData})
         /\ Len(Contents) = Used
         /\ \A i \in 1 .. Used : Contents[i] = buffer[SlotAfter(readIndex, i - 1)]
         /\ IsFull <=> Used = EntryCount - 1
         /\ IsEmpty <=> Used = 0
<1>1. Used \in 0 .. EntryCount - 1
  BY EntryCountAssumption DEF TypeOK, Slots, Used
<1>2. \A i \in 1 .. Used : SlotAfter(readIndex, i - 1) \in Slots
  BY <1>1, EntryCountAssumption DEF TypeOK, Slots, SlotAfter
<1>3. \A i \in 1 .. Used : buffer[SlotAfter(readIndex, i - 1)] \in Data \cup {NoData}
  BY <1>2 DEF TypeOK
<1>4. Contents \in Seq(Data \cup {NoData}) /\ Len(Contents) = Used
  BY <1>1, <1>3 DEF Contents
<1>5. IsFull <=> Used = EntryCount - 1
  BY EntryCountAssumption DEF TypeOK, Slots, Used, IsFull, CyclicIncrement
<1>6. IsEmpty <=> Used = 0
  BY EntryCountAssumption DEF TypeOK, Slots, Used, IsEmpty
<1> QED BY <1>1, <1>4, <1>5, <1>6 DEF Contents

LEMMA StoreIsPut ==
  ASSUME TypeOK, TypeOK', ~IsFull, NEW p \in Producers, Store(p, writeIndex)
  PROVE  Abstract!Put(item[p])
<1>1. Len(Contents) < EntryCount - 1
  <2>1. Used \in 0 .. EntryCount - 1 /\ Used # EntryCount - 1 /\ Len(Contents) = Used
    BY UsedFacts
  <2> QED BY <2>1, EntryCountAssumption
<1>2. Used' = Used + 1
  BY EntryCountAssumption DEF TypeOK, Slots, Store, IsFull, Used, CyclicIncrement
<1>3. \A i \in 1 .. Used : /\ SlotAfter(readIndex, i - 1) # writeIndex
                           /\ SlotAfter(readIndex, i - 1) \in Slots
  BY EntryCountAssumption DEF TypeOK, Slots, Used, SlotAfter
<1>4. SlotAfter(readIndex, Used) = writeIndex
  BY EntryCountAssumption DEF TypeOK, Slots, Used, SlotAfter
<1>5. /\ Contents' = [i \in 1 .. Used + 1 |-> buffer'[SlotAfter(readIndex, i - 1)]]
  BY <1>2 DEF Contents, Store, SlotAfter
<1>6. Used \in Nat /\ Len(Contents) = Used
  BY UsedFacts, EntryCountAssumption
<1>7. \A i \in 1 .. Used : buffer'[SlotAfter(readIndex, i - 1)] = Contents[i]
  BY <1>3, UsedFacts DEF Store, TypeOK
<1>8. buffer'[SlotAfter(readIndex, Used)] = item[p]
  BY <1>4 DEF Store, TypeOK
<1>9. Contents' = Append(Contents, item[p])
  <2>1. Append(Contents, item[p])
          = [i \in 1 .. Used + 1 |-> IF i = Used + 1 THEN item[p] ELSE Contents[i]]
    BY <1>6 DEF Contents
  <2>2. \A i \in 1 .. Used + 1 :
          buffer'[SlotAfter(readIndex, i - 1)]
            = IF i = Used + 1 THEN item[p] ELSE Contents[i]
    BY <1>6, <1>7, <1>8
  <2> QED BY <1>5, <2>1, <2>2
<1> QED BY <1>1, <1>9 DEF Store, Abstract!Put

LEMMA FetchIsGet ==
  ASSUME TypeOK, TypeOK', ~IsEmpty, Fetch(readIndex)
  PROVE  Abstract!Get
<1>1. Used \in 1 .. EntryCount - 1 /\ Len(Contents) = Used
  BY UsedFacts, EntryCountAssumption
<1>2. Contents # <<>> /\ Head(Contents) = buffer[readIndex]
  <2>1. SlotAfter(readIndex, 0) = readIndex
    BY EntryCountAssumption DEF TypeOK, Slots, SlotAfter
  <2> QED BY <1>1, <2>1 DEF Contents
<1>3. Used' = Used - 1
  <2>1. /\ readIndex \in Slots /\ writeIndex \in Slots /\ readIndex # writeIndex
        /\ readIndex' = CyclicIncrement(readIndex) /\ writeIndex' = writeIndex
    BY DEF TypeOK, Fetch, IsEmpty
  <2> QED BY <2>1, EntryCountAssumption DEF Slots, Used, CyclicIncrement
<1>4. \A i \in 1 .. Used - 1 :
        SlotAfter(CyclicIncrement(readIndex), i - 1) = SlotAfter(readIndex, i)
  BY EntryCountAssumption DEF TypeOK, Slots, Used, SlotAfter, CyclicIncrement
<1>5. Contents' = [i \in 1 .. Used - 1 |-> buffer[SlotAfter(readIndex, i)]]
  BY <1>3, <1>4 DEF Contents, Fetch, SlotAfter
<1>6. Contents' = Tail(Contents)
  <2>1. Tail(Contents) = [i \in 1 .. Used - 1 |-> Contents[i + 1]]
    BY <1>1 DEF Contents
  <2>2. \A i \in 1 .. Used - 1 : Contents[i + 1] = buffer[SlotAfter(readIndex, i)]
    BY <1>1 DEF Contents
  <2> QED BY <1>5, <2>1, <2>2
<1> QED BY <1>2, <1>6 DEF Fetch, Abstract!Get

LEMMA FifoStep ==
  SingleProducer /\ WaitInv /\ WaitInv' /\ [Next]_vars
    => [Abstract!Next]_(Abstract!vars)
<1> SUFFICES ASSUME SingleProducer, WaitInv, WaitInv', [Next]_vars
             PROVE  [Abstract!Next]_(Abstract!vars)
  OBVIOUS
<1> USE DEF WaitInv
<1>1. UNCHANGED <<buffer, writeIndex, readIndex, out>> => UNCHANGED Abstract!vars
  BY DEF Abstract!vars, Contents, Used, SlotAfter
<1>2. ASSUME NEW p \in Producers, EnqStore(p) \/ EnqResume(p)
      PROVE  Abstract!Next
  <2>1. ~IsFull /\ Store(p, writeIndex)
    BY <1>2 DEF EnqStore, EnqResume, ResumeSafe
  <2>2. item[p] \in Data
    BY DEF TypeOK
  <2> QED BY <2>1, <2>2, StoreIsPut DEF Abstract!Next
<1>3. CASE DeqFetch \/ DeqResume \/ TryFetch
  <2>1. ~IsEmpty /\ Fetch(readIndex)
    BY <1>3 DEF DeqFetch, DeqResume, TryFetch, ResumeSafe
  <2> QED BY <2>1, FetchIsGet DEF Abstract!Next
<1>4. ASSUME NEW p \in Producers, EnqLock(p) \/ EnqWake(p) \/ EnqFull(p)
      PROVE  UNCHANGED Abstract!vars
  BY <1>1, <1>4 DEF EnqLock, EnqWake, EnqFull, Acquire, Wait
<1>5. ASSUME NEW p \in Producers, NEW d \in Data, CallEnqueue(p, d)
      PROVE  UNCHANGED Abstract!vars
  BY <1>1, <1>5 DEF CallEnqueue
<1>6. CASE CallDequeue \/ DeqLock \/ DeqWake \/ DeqEmpty \/ TryLock \/ TryEmpty
  BY <1>1, <1>6 DEF CallDequeue, DeqLock, DeqWake, DeqEmpty, TryLock, TryEmpty, Acquire, Wait
<1>7. CASE UNCHANGED vars
  BY <1>1, <1>7 DEF vars
<1> QED BY <1>2, <1>3, <1>4, <1>5, <1>6, <1>7 DEF Next, Enqueuing, Dequeuing

\* With one producer the ring buffer is a FIFO: every accepted entry reaches
\* the consumer once, unchanged and in order.
THEOREM RingIsFifo ==
  ASSUME SingleProducer
  PROVE  Spec => ImplementsFifo
<1>1. Init => Abstract!Init
  <2> SUFFICES ASSUME Init PROVE Abstract!Init
    OBVIOUS
  <2>1. Used = 0
    BY DEF Init, Used
  <2>2. Contents = <<>>
    BY <2>1 DEF Contents
  <2> QED BY <2>2, DataAssumption DEF Init, Abstract!Init
<1>2. WaitInv /\ WaitInv' /\ [Next]_vars => [Abstract!Next]_(Abstract!vars)
  BY FifoStep
<1> QED BY <1>1, <1>2, WaitInvariant, PTL DEF Spec, Abstract!Spec, ImplementsFifo

=============================================================================

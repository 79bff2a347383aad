------------------------------- MODULE Pipes --------------------------------
(***************************************************************************)
(* What is under way in a chain of FIFO queues: the entry of a kind that   *)
(* was put in last, and the number of entries of a kind.  The kinds are    *)
(* sets of entries.  The lemmas say what putting and taking an entry does  *)
(* to them; the proofs about the threads use them for every queue.         *)
(***************************************************************************)
EXTENDS Integers, Sequences, FiniteSets, SequenceTheorems, FiniteSetTheorems, TLAPS

\* The entries of kind S, by position.
Positions(queue, S) == {i \in DOMAIN queue : queue[i] \in S}

IsLast(queue, S, i) ==
  i \in Positions(queue, S) /\ \A j \in Positions(queue, S) : j <= i

\* What the consumer has received last of kind S when it has emptied the
\* queue, if it is now initial.
Finally(queue, S, initial) ==
  IF Positions(queue, S) = {} THEN initial
  ELSE queue[CHOOSE i \in DOMAIN queue : IsLast(queue, S, i)]

Count(queue, S) == Cardinality(Positions(queue, S))

\* Between two entries of kind A there is one of kind B; before the first of
\* kind A there is one if the consumer's last of the two kinds is an A.
Separated(queue, A, B, afterA) ==
  \A i \in Positions(queue, A) :
    /\ afterA => \E j \in Positions(queue, B) : j < i
    /\ \A k \in Positions(queue, A) :
         k < i => \E j \in Positions(queue, B) : k < j /\ j < i

-----------------------------------------------------------------------------
\* A queue with entries of a kind has a last one.
LEMMA LastExists ==
  ASSUME NEW E, NEW queue \in Seq(E), NEW S, Positions(queue, S) # {}
  PROVE  \E i \in DOMAIN queue : IsLast(queue, S, i)
<1> DEFINE Left == {n \in Nat : \E i \in Positions(queue, S) : n = Len(queue) - i}
<1>1. Len(queue) \in Nat /\ DOMAIN queue = 1 .. Len(queue)
  BY LenProperties
<1>2. \A i \in Positions(queue, S) : i \in 1 .. Len(queue) /\ Len(queue) - i \in Left
  BY <1>1 DEF Positions
<1>3. Left \subseteq Nat /\ Left # {}
  BY <1>2
<1> DEFINE Less == OpToRel(<, Nat)
<1>4. IsWellFoundedOn(Less, Nat)
  BY NatLessThanWellFounded
<1>5. \A m, n \in Nat : m < n => <<m, n>> \in Less
  BY DEF OpToRel
<1> HIDE DEF Left, Less
<1>6. PICK n \in Left : \A m \in Left : ~(<<m, n>> \in Less)
  BY <1>3, <1>4, WFMin
<1>7. \A m \in Left : ~(m < n)
  BY <1>3, <1>6, <1>5
<1> USE DEF Left
<1>8. PICK i \in Positions(queue, S) : n = Len(queue) - i
  BY <1>6
<1> HIDE DEF Left
<1>9. ASSUME NEW j \in Positions(queue, S) PROVE j <= i
  <2>1. ~(Len(queue) - j < Len(queue) - i)
    BY <1>2, <1>7, <1>8
  <2> QED
    BY <1>1, <1>2, <2>1
<1> QED
  BY <1>8, <1>9 DEF IsLast, Positions

\* The last entry of a kind is what its position makes it, ...
LEMMA LastIsReceived ==
  ASSUME NEW E, NEW queue \in Seq(E), NEW S, NEW initial, NEW i, IsLast(queue, S, i)
  PROVE  Finally(queue, S, initial) = queue[i]
<1>1. Len(queue) \in Nat /\ DOMAIN queue = 1 .. Len(queue)
  BY LenProperties
<1>2. i \in DOMAIN queue /\ Positions(queue, S) # {}
  BY DEF IsLast, Positions
<1>3. IsLast(queue, S, CHOOSE j \in DOMAIN queue : IsLast(queue, S, j))
  BY <1>2
<1>4. \A j \in DOMAIN queue : IsLast(queue, S, j) => j = i
  <2> SUFFICES ASSUME NEW j \in DOMAIN queue, IsLast(queue, S, j) PROVE j = i
    OBVIOUS
  <2>1. j <= i /\ i <= j
    BY DEF IsLast
  <2> QED
    BY <1>1, <1>2, <2>1
<1>5. (CHOOSE j \in DOMAIN queue : IsLast(queue, S, j)) = i
  BY <1>2, <1>3, <1>4
<1> QED
  BY <1>2, <1>5 DEF Finally

\* ... and without one the consumer keeps what it has.
LEMMA NothingIsReceived ==
  ASSUME NEW queue, NEW S, NEW initial, Positions(queue, S) = {}
  PROVE  Finally(queue, S, initial) = initial
BY DEF Finally

\* What is received is of the kind that the queue is watched for.
LEMMA FinallyIsOfKind ==
  ASSUME NEW E, NEW queue \in Seq(E), NEW S, NEW initial \in S
  PROVE  Finally(queue, S, initial) \in S
<1>1. CASE Positions(queue, S) = {}
  BY <1>1, NothingIsReceived
<1>2. CASE Positions(queue, S) # {}
  <2>1. PICK i \in DOMAIN queue : IsLast(queue, S, i)
    BY <1>2, LastExists
  <2>2. queue[i] \in S
    BY <2>1 DEF IsLast, Positions
  <2> QED
    BY <2>1, <2>2, LastIsReceived
<1> QED
  BY <1>1, <1>2

\* Nothing is under way in an empty queue.
LEMMA EmptyQueue ==
  ASSUME NEW S, NEW initial
  PROVE  Positions(<<>>, S) = {} /\ Finally(<<>>, S, initial) = initial
<1>1. Positions(<<>>, S) = {}
  BY DEF Positions
<1> QED
  BY <1>1, NothingIsReceived

-----------------------------------------------------------------------------
\* An entry is put in at the end.
LEMMA PositionsAfterPut ==
  ASSUME NEW E, NEW queue \in Seq(E), NEW entry \in E, NEW S
  PROVE  Positions(Append(queue, entry), S) =
           IF entry \in S THEN Positions(queue, S) \cup {Len(queue) + 1}
           ELSE Positions(queue, S)
<1> DEFINE longer == Append(queue, entry)
<1>1. /\ Len(queue) \in Nat /\ DOMAIN queue = 1 .. Len(queue)
      /\ longer \in Seq(E) /\ Len(longer) = Len(queue) + 1
      /\ \A i \in 1 .. Len(queue) : longer[i] = queue[i]
      /\ longer[Len(queue) + 1] = entry
  BY LenProperties, AppendProperties
<1>2. DOMAIN longer = 1 .. Len(queue) + 1
  BY <1>1, LenProperties
<1> HIDE DEF longer
<1>3. \A i : i \in 1 .. Len(queue) + 1 <=> i \in 1 .. Len(queue) \/ i = Len(queue) + 1
  BY <1>1
<1>4. Positions(longer, S) = IF entry \in S THEN Positions(queue, S) \cup {Len(queue) + 1}
                             ELSE Positions(queue, S)
  BY <1>1, <1>2, <1>3 DEF Positions
<1> QED
  BY <1>4 DEF longer

\* Nothing of a kind is under way if nothing was and the entry is not of it.
LEMMA NothingAfterPut ==
  ASSUME NEW E, NEW queue \in Seq(E), NEW entry \in E, NEW S
  PROVE  Positions(Append(queue, entry), S) = {}
           <=> entry \notin S /\ Positions(queue, S) = {}
<1>1. Positions(Append(queue, entry), S) =
        IF entry \in S THEN Positions(queue, S) \cup {Len(queue) + 1} ELSE Positions(queue, S)
  BY PositionsAfterPut
<1>2. Positions(queue, S) \cup {Len(queue) + 1} # {}
  OBVIOUS
<1> QED
  BY <1>1, <1>2

\* enqueue()
LEMMA FinallyAfterPut ==
  ASSUME NEW E, NEW queue \in Seq(E), NEW entry \in E, NEW S, NEW initial
  PROVE  Finally(Append(queue, entry), S, initial) =
           IF entry \in S THEN entry ELSE Finally(queue, S, initial)
<1> DEFINE longer == Append(queue, entry)
<1>1. /\ Len(queue) \in Nat /\ DOMAIN queue = 1 .. Len(queue)
      /\ longer \in Seq(E)
      /\ \A i \in 1 .. Len(queue) : longer[i] = queue[i]
      /\ longer[Len(queue) + 1] = entry
  BY LenProperties, AppendProperties
<1>2. Positions(longer, S) = IF entry \in S THEN Positions(queue, S) \cup {Len(queue) + 1}
                             ELSE Positions(queue, S)
  BY PositionsAfterPut
<1> HIDE DEF longer
<1>3. Positions(queue, S) \subseteq 1 .. Len(queue)
  BY <1>1 DEF Positions
<1>4. CASE entry \in S
  <2>1. \A j \in Positions(longer, S) : j <= Len(queue) + 1
    BY <1>1, <1>2, <1>3, <1>4
  <2>2. IsLast(longer, S, Len(queue) + 1)
    BY <1>2, <1>4, <2>1 DEF IsLast
  <2> QED
    BY <1>1, <1>4, <2>2, LastIsReceived DEF longer
<1>5. CASE entry \notin S
  <2>1. CASE Positions(queue, S) = {}
    BY <1>2, <1>5, <2>1, NothingIsReceived DEF longer
  <2>2. CASE Positions(queue, S) # {}
    <3>1. PICK i \in DOMAIN queue : IsLast(queue, S, i)
      BY <2>2, LastExists
    <3>2. IsLast(longer, S, i)
      BY <1>2, <1>5, <3>1 DEF IsLast
    <3>3. Finally(queue, S, initial) = queue[i] /\ Finally(longer, S, initial) = longer[i]
      BY <1>1, <3>1, <3>2, LastIsReceived
    <3> QED
      BY <1>1, <1>5, <3>1, <3>3 DEF longer
  <2> QED
    BY <2>1, <2>2
<1> QED
  BY <1>4, <1>5

\* The first entry is taken, all others move up.
LEMMA PositionsAfterGet ==
  ASSUME NEW E, NEW queue \in Seq(E), queue # <<>>, NEW S
  PROVE  /\ 1 \in DOMAIN queue /\ queue[1] = Head(queue)
         /\ \A i \in Int : i \in Positions(Tail(queue), S)
                             <=> i >= 1 /\ i + 1 \in Positions(queue, S)
         /\ \A i \in Positions(Tail(queue), S) : Tail(queue)[i] = queue[i + 1]
         /\ Positions(queue, S) \subseteq Int /\ Positions(Tail(queue), S) \subseteq Int
<1>1. /\ Len(queue) \in Nat \ {0} /\ DOMAIN queue = 1 .. Len(queue)
      /\ Tail(queue) \in Seq(E) /\ Len(Tail(queue)) = Len(queue) - 1
      /\ \A i \in 1 .. Len(Tail(queue)) : Tail(queue)[i] = queue[i + 1]
  BY LenProperties, HeadTailProperties, EmptySeq
<1>2. DOMAIN Tail(queue) = 1 .. Len(queue) - 1
  BY <1>1, LenProperties
<1>3. 1 \in DOMAIN queue /\ queue[1] = Head(queue)
  BY <1>1
<1> DEFINE rest == Tail(queue)
<1>4. /\ rest \in Seq(E) /\ DOMAIN rest = 1 .. Len(queue) - 1
      /\ \A i \in 1 .. Len(queue) - 1 : rest[i] = queue[i + 1]
  BY <1>1, <1>2
<1> HIDE DEF rest
<1>5. \A i \in Int : i \in Positions(rest, S) <=> i >= 1 /\ i + 1 \in Positions(queue, S)
  BY <1>1, <1>4 DEF Positions
<1>6. \A i \in Positions(rest, S) : rest[i] = queue[i + 1]
  BY <1>4 DEF Positions
<1>7. Positions(queue, S) \subseteq Int /\ Positions(rest, S) \subseteq Int
  BY <1>1, <1>4 DEF Positions
<1> QED
  BY <1>3, <1>5, <1>6, <1>7 DEF rest

\* Nothing of a kind is under way if the first entry is not of it and nothing
\* is under way behind that.
LEMMA NothingAfterGet ==
  ASSUME NEW E, NEW queue \in Seq(E), queue # <<>>, NEW S
  PROVE  Positions(queue, S) = {} <=> Head(queue) \notin S /\ Positions(Tail(queue), S) = {}
<1> DEFINE P == Positions(queue, S)
           R == Positions(Tail(queue), S)
<1>1. /\ 1 \in DOMAIN queue /\ queue[1] = Head(queue)
      /\ \A i \in Int : i \in R <=> i >= 1 /\ i + 1 \in P
      /\ P \subseteq Int /\ R \subseteq Int
  BY PositionsAfterGet
<1>2. \A i \in P : i >= 1
  BY LenProperties DEF Positions
<1>3. 1 \in P <=> Head(queue) \in S
  BY <1>1 DEF Positions
<1> HIDE DEF P, R
<1>4. ASSUME P = {} PROVE Head(queue) \notin S /\ R = {}
  BY <1>1, <1>3, <1>4
<1>5. ASSUME Head(queue) \notin S, R = {}, NEW i \in P PROVE FALSE
  <2>1. i - 1 \in Int /\ i - 1 >= 1 /\ (i - 1) + 1 = i
    BY <1>1, <1>2, <1>3, <1>5
  <2> QED
    BY <1>1, <1>5, <2>1
<1> QED
  BY <1>4, <1>5 DEF P, R

\* dequeue()
LEMMA FinallyAfterGet ==
  ASSUME NEW E, NEW queue \in Seq(E), queue # <<>>, NEW S, NEW initial
  PROVE  Finally(queue, S, initial) =
           Finally(Tail(queue), S, IF Head(queue) \in S THEN Head(queue) ELSE initial)
<1> DEFINE rest == Tail(queue)
           now == IF Head(queue) \in S THEN Head(queue) ELSE initial
<1>1. rest \in Seq(E) /\ DOMAIN queue = 1 .. Len(queue) /\ Len(queue) \in Nat
  BY HeadTailProperties, LenProperties
<1>2. /\ 1 \in DOMAIN queue /\ queue[1] = Head(queue)
      /\ \A i \in Int : i \in Positions(rest, S) <=> i >= 1 /\ i + 1 \in Positions(queue, S)
      /\ \A i \in Positions(rest, S) : rest[i] = queue[i + 1]
      /\ Positions(queue, S) \subseteq Int /\ Positions(rest, S) \subseteq Int
  BY PositionsAfterGet
<1> HIDE DEF rest
<1>3. \A i \in Positions(queue, S) : i >= 1
  BY <1>1 DEF Positions
<1>4. CASE Positions(rest, S) = {}
  <2>1. \A i \in Positions(queue, S) : i = 1
    <3> SUFFICES ASSUME NEW i \in Positions(queue, S), i # 1 PROVE FALSE
      OBVIOUS
    <3>1. i - 1 \in Int /\ i - 1 >= 1 /\ (i - 1) + 1 = i
      BY <1>2, <1>3
    <3>2. i - 1 \in Positions(rest, S)
      BY <1>2, <3>1
    <3> QED
      BY <1>4, <3>2
  <2>2. CASE Head(queue) \in S
    <3>1. IsLast(queue, S, 1)
      BY <1>2, <2>1, <2>2 DEF IsLast, Positions
    <3> QED
      BY <1>2, <1>4, <2>2, <3>1, LastIsReceived, NothingIsReceived DEF rest
  <2>3. CASE Head(queue) \notin S
    <3>1. Positions(queue, S) = {}
      BY <1>2, <2>1, <2>3 DEF Positions
    <3> QED
      BY <1>4, <2>3, <3>1, NothingIsReceived DEF rest
  <2> QED
    BY <2>2, <2>3
<1>5. CASE Positions(rest, S) # {}
  <2>1. PICK i \in DOMAIN rest : IsLast(rest, S, i)
    BY <1>1, <1>5, LastExists
  <2>2. i \in Int /\ i >= 1 /\ i + 1 \in Positions(queue, S)
    BY <1>2, <2>1 DEF IsLast
  <2>3. ASSUME NEW j \in Positions(queue, S) PROVE j <= i + 1
    <3>1. CASE j = 1
      BY <2>2, <3>1
    <3>2. CASE j # 1
      <4>1. j - 1 \in Int /\ j - 1 >= 1 /\ (j - 1) + 1 = j
        BY <1>2, <1>3, <3>2
      <4>2. j - 1 \in Positions(rest, S)
        BY <1>2, <4>1
      <4>3. j - 1 <= i
        BY <2>1, <4>2 DEF IsLast
      <4> QED
        BY <2>2, <4>1, <4>3
    <3> QED
      BY <3>1, <3>2
  <2>4. IsLast(queue, S, i + 1)
    BY <2>2, <2>3 DEF IsLast
  <2>5. rest[i] = queue[i + 1]
    BY <1>2, <2>1 DEF IsLast
  <2>6. Finally(queue, S, initial) = queue[i + 1] /\ Finally(rest, S, now) = rest[i]
    BY <1>1, <2>1, <2>4, LastIsReceived
  <2> QED
    BY <2>5, <2>6 DEF rest
<1> QED
  BY <1>4, <1>5

-----------------------------------------------------------------------------
\* A queue has finitely many entries of a kind.
LEMMA CountIsNat ==
  ASSUME NEW E, NEW queue \in Seq(E), NEW S
  PROVE  IsFiniteSet(Positions(queue, S)) /\ Count(queue, S) \in Nat
<1>1. IsFiniteSet(1 .. Len(queue)) /\ DOMAIN queue = 1 .. Len(queue)
  BY LenProperties, FS_Interval
<1>2. Positions(queue, S) \in SUBSET (1 .. Len(queue))
  BY <1>1 DEF Positions
<1>3. IsFiniteSet(Positions(queue, S))
  BY <1>1, <1>2, FS_Subset
<1> QED
  BY <1>3, FS_CardinalityType DEF Count

\* A queue without entries of a kind.
LEMMA CountIsZero ==
  ASSUME NEW E, NEW queue \in Seq(E), NEW S
  PROVE  Count(queue, S) = 0 <=> Positions(queue, S) = {}
BY CountIsNat, FS_EmptySet DEF Count

\* enqueue() adds one of the entry's kind, ...
LEMMA CountAfterPut ==
  ASSUME NEW E, NEW queue \in Seq(E), NEW entry \in E, NEW S
  PROVE  Count(Append(queue, entry), S) =
           IF entry \in S THEN Count(queue, S) + 1 ELSE Count(queue, S)
<1>1. IsFiniteSet(Positions(queue, S))
  BY CountIsNat
<1>2. Len(queue) + 1 \notin Positions(queue, S)
  BY LenProperties DEF Positions
<1> QED
  BY <1>1, <1>2, PositionsAfterPut, FS_AddElement DEF Count

\* ... and dequeue() takes one of it.
LEMMA CountAfterGet ==
  ASSUME NEW E, NEW queue \in Seq(E), queue # <<>>, NEW S
  PROVE  Count(Tail(queue), S) =
           IF Head(queue) \in S THEN Count(queue, S) - 1 ELSE Count(queue, S)
<1> DEFINE P == Positions(queue, S)
           R == Positions(Tail(queue), S)
           later == [i \in R |-> i + 1]
<1>1. /\ 1 \in DOMAIN queue /\ queue[1] = Head(queue)
      /\ \A i \in Int : i \in R <=> i >= 1 /\ i + 1 \in P
      /\ P \subseteq Int /\ R \subseteq Int
  BY PositionsAfterGet
<1>2. \A i \in P : i >= 1
  BY LenProperties DEF Positions
<1>3. IsFiniteSet(P) /\ IsFiniteSet(R)
  BY CountIsNat, HeadTailProperties
<1>4. 1 \in P <=> Head(queue) \in S
  BY <1>1 DEF Positions
<1> HIDE DEF P, R
<1>5. later \in Bijection(R, P \ {1})
  <2>1. later \in [R -> P \ {1}]
    BY <1>1
  <2>2. \A i, j \in R : later[i] = later[j] => i = j
    BY <1>1
  <2>3. ASSUME NEW j \in P \ {1} PROVE \E i \in R : later[i] = j
    <3>1. j - 1 \in Int /\ j - 1 >= 1 /\ (j - 1) + 1 = j
      BY <1>1, <1>2
    <3>2. j - 1 \in R
      BY <1>1, <3>1
    <3> QED
      BY <3>1, <3>2
  <2> HIDE DEF later
  <2> QED
    BY <2>1, <2>2, <2>3 DEF Bijection, Injection, Surjection, IsInjective
<1>6. Cardinality(P \ {1}) = Cardinality(R)
  BY <1>3, <1>5, FS_Bijection DEF ExistsBijection
<1>7. Cardinality(P \ {1}) = IF 1 \in P THEN Cardinality(P) - 1 ELSE Cardinality(P)
  BY <1>3, FS_RemoveElement
<1> QED
  BY <1>4, <1>6, <1>7 DEF Count, P, R

-----------------------------------------------------------------------------
\* An empty queue separates, ...
LEMMA SeparatedWhenEmpty ==
  ASSUME NEW A, NEW B, NEW afterA
  PROVE  Separated(<<>>, A, B, afterA)
BY EmptyQueue DEF Separated

\* ... enqueue() keeps the entries separated if an entry of kind A is put in
\* after one of kind B only, ...
LEMMA SeparatedAfterPut ==
  ASSUME NEW E, NEW queue \in Seq(E), NEW entry \in E, NEW A, NEW B, A \cap B = {},
         NEW a \in A, NEW b \in B, NEW afterA \in BOOLEAN,
         Separated(queue, A, B, afterA),
         entry \in A => Finally(queue, A \cup B, IF afterA THEN a ELSE b) \in B
  PROVE  Separated(Append(queue, entry), A, B, afterA)
<1> DEFINE longer == Append(queue, entry)
           n == Len(queue) + 1
           PA == Positions(queue, A)
           PB == Positions(queue, B)
           LA == Positions(longer, A)
           LB == Positions(longer, B)
<1>1. Len(queue) \in Nat /\ DOMAIN queue = 1 .. Len(queue)
  BY LenProperties
<1>2. LA = IF entry \in A THEN PA \cup {n} ELSE PA
  BY PositionsAfterPut
<1>3. LB = IF entry \in B THEN PB \cup {n} ELSE PB
  BY PositionsAfterPut
<1>4. PA \subseteq Int /\ PB \subseteq Int /\ n \in Int /\ \A i \in PA \cup PB : i < n
  BY <1>1 DEF Positions
<1>5. \A i \in PA : /\ afterA => \E j \in PB : j < i
                   /\ \A k \in PA : k < i => \E j \in PB : k < j /\ j < i
  BY DEF Separated
<1>6. ASSUME entry \in A
      PROVE  /\ afterA => PB # {}
             /\ \A k \in PA : \E j \in PB : k < j
  <2>1. CASE Positions(queue, A \cup B) = {}
    <3>1. PA = {}
      BY <2>1 DEF Positions
    <3>2. ~afterA
      <4>1. \A initial : Finally(queue, A \cup B, initial) = initial
        BY <2>1, NothingIsReceived
      <4>2. (IF afterA THEN a ELSE b) \in B
        BY <1>6, <4>1
      <4> QED
        BY <4>2
    <3> QED
      BY <3>1, <3>2
  <2>2. CASE Positions(queue, A \cup B) # {}
    <3>1. PICK i \in DOMAIN queue : IsLast(queue, A \cup B, i)
      BY <2>2, LastExists
    <3>2. queue[i] \in B
      BY <1>6, <3>1, LastIsReceived
    <3>3. i \in PB /\ i \notin PA
      BY <3>1, <3>2 DEF Positions
    <3>4. \A k \in PA : k <= i
      BY <3>1 DEF IsLast, Positions
    <3>5. \A k \in PA : k < i
      BY <1>4, <3>3, <3>4
    <3> QED
      BY <3>3, <3>5
  <2> QED
    BY <2>1, <2>2
<1> HIDE DEF PA, PB, LA, LB, n, longer
<1>7. \A i \in LA : /\ afterA => \E j \in LB : j < i
                   /\ \A k \in LA : k < i => \E j \in LB : k < j /\ j < i
  <2>1. CASE entry \in A
    <3>1. LA = PA \cup {n} /\ LB = PB
      BY <1>2, <1>3, <2>1
    <3>2. ASSUME NEW i \in LA, afterA PROVE \E j \in LB : j < i
      BY <1>4, <1>5, <1>6, <2>1, <3>1, <3>2
    <3>3. ASSUME NEW i \in LA, NEW k \in LA, k < i
          PROVE  \E j \in LB : k < j /\ j < i
      <4>1. k \in PA
        BY <1>4, <3>1, <3>3
      <4>2. CASE i = n
        <5>1. PICK j \in PB : k < j
          BY <1>6, <2>1, <4>1
        <5> QED
          BY <1>4, <3>1, <4>2, <5>1
      <4>3. CASE i \in PA
        BY <1>5, <3>1, <3>3, <4>1, <4>3
      <4> QED
        BY <3>1, <4>2, <4>3
    <3> QED
      BY <3>2, <3>3
  <2>2. CASE entry \notin A
    <3>1. LA = PA /\ PB \subseteq LB
      BY <1>2, <1>3, <2>2
    <3> QED
      BY <1>5, <3>1
  <2> QED
    BY <2>1, <2>2
<1> QED
  BY <1>7 DEF Separated, LA, LB, longer

\* ... and dequeue() never takes an A after an A.
LEMMA SeparatedAfterGet ==
  ASSUME NEW E, NEW queue \in Seq(E), queue # <<>>, NEW A, NEW B, A \cap B = {},
         NEW afterA \in BOOLEAN, Separated(queue, A, B, afterA)
  PROVE  /\ Head(queue) \in A => ~afterA
         /\ Separated(Tail(queue), A, B,
                      Head(queue) \in A \/ (afterA /\ Head(queue) \notin B))
<1> DEFINE rest == Tail(queue)
           PA == Positions(queue, A)
           PB == Positions(queue, B)
           RA == Positions(rest, A)
           RB == Positions(rest, B)
<1>1. 1 \in DOMAIN queue /\ queue[1] = Head(queue)
  BY PositionsAfterGet
<1>2. /\ \A i \in Int : i \in RA <=> i >= 1 /\ i + 1 \in PA
      /\ PA \subseteq Int /\ RA \subseteq Int
  BY PositionsAfterGet
<1>3. /\ \A i \in Int : i \in RB <=> i >= 1 /\ i + 1 \in PB
      /\ PB \subseteq Int /\ RB \subseteq Int
  BY PositionsAfterGet
<1>4. \A i \in PA \cup PB : i >= 1
  BY LenProperties DEF Positions
<1>5. (1 \in PA <=> Head(queue) \in A) /\ (1 \in PB <=> Head(queue) \in B)
  BY <1>1 DEF Positions
<1>6. \A i \in PA : /\ afterA => \E j \in PB : j < i
                   /\ \A k \in PA : k < i => \E j \in PB : k < j /\ j < i
  BY DEF Separated
<1> HIDE DEF PA, PB, RA, RB, rest
<1>7. Head(queue) \in A => ~afterA
  BY <1>3, <1>4, <1>5, <1>6
<1>8. ASSUME NEW j \in PB, j > 1 PROVE j - 1 \in RB
  <2>1. j - 1 \in Int /\ j - 1 >= 1 /\ (j - 1) + 1 = j
    BY <1>3, <1>8
  <2> QED
    BY <1>3, <2>1
<1>9. ASSUME NEW i \in RA, Head(queue) \in A \/ (afterA /\ Head(queue) \notin B)
      PROVE  \E j \in RB : j < i
  <2>1. i \in Int /\ i >= 1 /\ i + 1 \in PA
    BY <1>2
  <2>2. PICK j \in PB : j < i + 1 /\ j > 1
    <3>1. CASE Head(queue) \in A
      BY <1>2, <1>3, <1>5, <1>6, <2>1, <3>1
    <3>2. CASE afterA /\ Head(queue) \notin B
      <4>1. PICK j \in PB : j < i + 1
        BY <1>6, <2>1, <3>2
      <4>2. j >= 1 /\ j # 1 /\ j \in Int
        BY <1>3, <1>4, <1>5, <3>2
      <4> QED
        BY <4>1, <4>2
    <3> QED
      BY <1>9, <3>1, <3>2
  <2>3. j - 1 \in RB /\ j - 1 < i
    BY <1>3, <1>8, <2>1, <2>2
  <2> QED
    BY <2>3
<1>10. ASSUME NEW i \in RA, NEW k \in RA, k < i PROVE \E j \in RB : k < j /\ j < i
  <2>1. i \in Int /\ i + 1 \in PA /\ k \in Int /\ k >= 1 /\ k + 1 \in PA
    BY <1>2
  <2>2. PICK j \in PB : k + 1 < j /\ j < i + 1
    BY <1>6, <1>10, <2>1
  <2>3. j - 1 \in RB /\ k < j - 1 /\ j - 1 < i
    BY <1>3, <1>8, <2>1, <2>2
  <2> QED
    BY <2>3
<1>11. Separated(rest, A, B, Head(queue) \in A \/ (afterA /\ Head(queue) \notin B))
  BY <1>9, <1>10 DEF Separated, RA, RB
<1> QED
  BY <1>7, <1>11 DEF rest

=============================================================================

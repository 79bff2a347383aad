------------------------- MODULE MainThread_proofs --------------------------
(***************************************************************************)
(* Proofs about the main thread, for every finite set of keys, every       *)
(* number of macros and every capacity of the queue, and without bounds on *)
(* what the user and the clients do.                                       *)
(***************************************************************************)
EXTENDS MainThread, Pipes, TLAPS

\* The events of g_main_thread_queue.
Connections == {[type |-> "connect"], [type |-> "disconnect"]}
CommandEvents == {[type |-> "command"]}
Inputs == [type : {"input"}, report : Report]
Event == Connections \cup CommandEvents \cup Inputs

\* The frames of handlers in progress.
KeysHeld == Report \ {<<>>}
Stages == {"src", "dst", "run_keys", "record", "wait"}
AnyFrame == [command : Command, stage : Stages, polls : 0 .. RetryCount - 1,
             src : Keys \cup KeysHeld \cup {NoReport}, report : Report, data : Seq(Report)]
Frames == {f \in AnyFrame :
             /\ f.stage = "dst" => f.src \in Keys
             /\ f.stage = "record" => f.src \in KeysHeld
             /\ f.stage # "wait" => Len(f.data) < MaxRecord}

\* run_macro() is called from main_thread() only: nothing is below it.
WaitAtBottom(frames) == \A i \in DOMAIN frames : frames[i].stage = "wait" => i = Len(frames)

Status == {"none", "running", "completed"}
MacroData == {m \in [run : KeysHeld \cup {NoReport}, data : Seq(Report)] :
                Len(m.data) <= MaxRecord}
Distinct(report) == \A i, j \in DOMAIN report : report[i] = report[j] => i = j

QueueOK == mainQ \in Seq(Event) /\ Len(mainQ) <= QueueCapacity

MessagesOK ==
  /\ fromClient \in Command
  /\ toClient \in [seq : 0 .. 255, command : Commands \cup {"nop"}, status : Status]

StackOK == stack \in Seq(Frames) /\ WaitAtBottom(stack)

TablesOK == keyTable \in [Keys -> Keys] /\ macros \in [Macros -> MacroData]

PcOK == pc \in [on : BOOLEAN, keys : Report, dirty : BOOLEAN, handle : BOOLEAN]

KeyboardOK == keyboard \in [on : BOOLEAN, keys : Report] /\ Distinct(keyboard.keys)

HostOK == host \in [session : {"none", "open", "lost"}, sent : Report \cup {NoReport}]

ClientOK ==
  /\ notify \in BOOLEAN
  /\ client \in [state : {"idle", "opened", "waiting", "done", "failed"}, sent : Command]

CountsOK ==
  /\ runs \in Nat
  /\ counts \in [presses : Nat, unplugs : Nat, commands : Nat, abandoned : Nat]

Inv ==
  /\ QueueOK /\ MessagesOK /\ StackOK /\ TablesOK /\ PcOK
  /\ KeyboardOK /\ HostOK /\ ClientOK /\ CountsOK

-----------------------------------------------------------------------------
\* The constants that count something, and the commands.
LEMMA ConstantsAreTyped ==
  /\ MacroCount \in Nat \ {0} /\ QueueCapacity \in Nat \ {0}
  /\ RetryCount \in Nat \ {0} /\ MaxRecord \in Nat \ {0}
  /\ IsFiniteSet(Keys) /\ Cardinality(Keys) \in Nat
BY MainAssumption, FS_CardinalityType

\* A report is a sequence of keys, not longer than there are keys.
LEMMA ReportsAreSequences ==
  ASSUME NEW report
  PROVE  report \in Report <=> report \in Seq(Keys) /\ Len(report) <= Cardinality(Keys)
<1>1. Cardinality(Keys) \in Nat
  BY ConstantsAreTyped
<1>2. ASSUME report \in Report
      PROVE  report \in Seq(Keys) /\ Len(report) <= Cardinality(Keys)
  <2>1. PICK n \in 0 .. Cardinality(Keys) : report \in [1 .. n -> Keys]
    BY <1>2 DEF Report
  <2> QED
    BY <1>1, <2>1
<1>3. ASSUME report \in Seq(Keys), Len(report) <= Cardinality(Keys)
      PROVE  report \in Report
  <2>1. Len(report) \in 0 .. Cardinality(Keys) /\ report \in [1 .. Len(report) -> Keys]
    BY <1>1, <1>3, LenProperties
  <2> QED
    BY <2>1 DEF Report
<1> QED
  BY <1>2, <1>3

LEMMA EmptyReport == <<>> \in Report
<1>1. <<>> \in Seq(Keys)
  OBVIOUS
<1>2. Len(<<>>) <= Cardinality(Keys)
  BY ConstantsAreTyped
<1> QED
  BY <1>1, <1>2, ReportsAreSequences

\* last_report of a keyboard that has sent none.
LEMMA NoReportIsNone == NoReport \notin Report
<1> SUFFICES ASSUME NoReport \in Seq(Keys) PROVE FALSE
  BY ReportsAreSequences
<1>1. Len(NoReport) = 1 /\ NoReport[1] = "none"
  BY DEF NoReport
<1>2. NoReport[1] \in Keys
  BY <1>1, ElementOfSeq
<1> QED
  BY <1>1, <1>2, MainAssumption

\* extract_one_key_from_report()
LEMMA KeyOfReport ==
  ASSUME NEW report \in KeysHeld
  PROVE  KeyOf(report) \in Keys
<1>1. report \in Seq(Keys) /\ report # <<>>
  BY ReportsAreSequences DEF KeysHeld
<1>2. Len(report) \in Nat \ {0} /\ report \in [1 .. Len(report) -> Keys]
  BY <1>1, LenProperties, EmptySeq
<1> QED
  BY <1>2 DEF KeyOf, Last

\* modify_report() changes keys, never whether there are any.
LEMMA ModifyReport ==
  ASSUME NEW report \in Report, TablesOK
  PROVE  Modify(report) \in Report /\ (report = <<>> => Modify(report) = <<>>)
<1>1. PICK n \in 0 .. Cardinality(Keys) : report \in [1 .. n -> Keys]
  BY DEF Report
<1>2. Modify(report) \in [1 .. n -> Keys]
  BY <1>1 DEF Modify, TablesOK
<1>3. Modify(report) \in Report
  BY <1>2 DEF Report
<1>4. report = <<>> => Modify(report) = <<>>
  BY DEF Modify
<1> QED
  BY <1>3, <1>4

\* A keyboard has each key once: a further key that is held fits a report.
LEMMA PressedKeys ==
  ASSUME NEW report \in Report, Distinct(report), NEW k \in Keys, k \notin ToSet(report)
  PROVE  Append(report, k) \in Report /\ Distinct(Append(report, k))
<1> DEFINE n == Len(report)
           longer == Append(report, k)
<1>1. report \in Seq(Keys) /\ n \in Nat /\ DOMAIN report = 1 .. n
  BY ReportsAreSequences, LenProperties
<1>2. /\ longer \in Seq(Keys) /\ Len(longer) = n + 1
      /\ \A i \in 1 .. n : longer[i] = report[i]
      /\ longer[n + 1] = k
  BY <1>1, AppendProperties
<1>3. DOMAIN longer = 1 .. n + 1 /\ longer \in [1 .. n + 1 -> Keys]
  BY <1>2, LenProperties
<1>4. \A i \in 1 .. n : report[i] # k
  BY <1>1 DEF ToSet
<1> HIDE DEF longer
<1>5. \A i, j \in 1 .. n + 1 : longer[i] = longer[j] => i = j
  BY <1>1, <1>2, <1>4 DEF Distinct
<1>6. longer \in Injection(1 .. n + 1, Keys)
  BY <1>3, <1>5 DEF Injection, IsInjective
<1>7. Cardinality(1 .. n + 1) <= Cardinality(Keys)
  BY <1>6, ConstantsAreTyped, FS_Injection
<1>8. Cardinality(1 .. n + 1) = n + 1
  <2>1. Cardinality(1 .. n + 1) = IF 1 > n + 1 THEN 0 ELSE (n + 1) - 1 + 1
    BY <1>1, FS_Interval
  <2> QED
    BY <1>1, <2>1
<1>9. longer \in Report
  BY <1>2, <1>7, <1>8, ReportsAreSequences
<1> QED
  BY <1>3, <1>5, <1>9 DEF Distinct, longer

\* A key is let go.
LEMMA ReleasedKeys ==
  ASSUME NEW report \in Report, Distinct(report), NEW i \in DOMAIN report
  PROVE  RemoveAt(report, i) \in Report /\ Distinct(RemoveAt(report, i))
<1> DEFINE n == Len(report)
           before == SubSeq(report, 1, i - 1)
           after == SubSeq(report, i + 1, n)
           shorter == before \o after
<1>1. report \in Seq(Keys) /\ n \in Nat /\ DOMAIN report = 1 .. n /\ n <= Cardinality(Keys)
  BY ReportsAreSequences, LenProperties
<1>2. i \in 1 .. n /\ \A j \in 1 .. n : report[j] \in Keys
  BY <1>1, ElementOfSeq
<1>3. /\ before \in Seq(Keys) /\ Len(before) = i - 1
      /\ \A j \in 1 .. i - 1 : before[j] = report[j]
  <2>1. 1 \in Int /\ i - 1 \in Int /\ \A j \in 1 .. i - 1 : report[j] \in Keys
    BY <1>1, <1>2
  <2>2. /\ before \in Seq(Keys) /\ Len(before) = IF 1 <= i - 1 THEN (i - 1) - 1 + 1 ELSE 0
        /\ \A j \in 1 .. (i - 1) - 1 + 1 : before[j] = report[1 + j - 1]
    BY <2>1, SubSeqProperties
  <2> HIDE DEF before
  <2> QED
    BY <1>1, <1>2, <2>2
<1>4. /\ after \in Seq(Keys) /\ Len(after) = n - i
      /\ \A j \in 1 .. n - i : after[j] = report[i + j]
  <2>1. i + 1 \in Int /\ n \in Int /\ \A j \in i + 1 .. n : report[j] \in Keys
    BY <1>1, <1>2
  <2>2. /\ after \in Seq(Keys) /\ Len(after) = IF i + 1 <= n THEN n - (i + 1) + 1 ELSE 0
        /\ \A j \in 1 .. n - (i + 1) + 1 : after[j] = report[i + 1 + j - 1]
    BY <2>1, SubSeqProperties
  <2> HIDE DEF after
  <2>3. n - (i + 1) + 1 = n - i /\ (~(i + 1 <= n) => n - i = 0)
    BY <1>1, <1>2
  <2>4. \A j \in 1 .. n - i : i + 1 + j - 1 = i + j
    BY <1>1, <1>2
  <2>5. after \in Seq(Keys) /\ Len(after) = n - i
    BY <2>2, <2>3
  <2>6. \A j \in 1 .. n - i : after[j] = report[i + j]
    BY <2>2, <2>3, <2>4
  <2> QED
    BY <2>5, <2>6
<1> HIDE DEF before, after, n
<1>5. /\ shorter \in Seq(Keys) /\ Len(shorter) = (i - 1) + (n - i)
      /\ \A j \in 1 .. (i - 1) + (n - i) :
           shorter[j] = IF j <= i - 1 THEN before[j] ELSE after[j - (i - 1)]
  <2>1. /\ before \o after \in Seq(Keys) /\ Len(before \o after) = Len(before) + Len(after)
        /\ \A j \in 1 .. Len(before) + Len(after) :
             (before \o after)[j] = IF j <= Len(before) THEN before[j]
                                   ELSE after[j - Len(before)]
    BY <1>3, <1>4, ConcatProperties
  <2> HIDE DEF shorter
  <2>2. shorter = before \o after
    BY DEF shorter
  <2>3. Len(before) = i - 1 /\ Len(after) = n - i
    BY <1>3, <1>4
  <2> QED
    BY <2>1, <2>2, <2>3
<1> HIDE DEF shorter
<1>6. /\ Len(shorter) = n - 1 /\ DOMAIN shorter = 1 .. n - 1
      /\ \A j \in 1 .. n - 1 : shorter[j] = IF j < i THEN report[j] ELSE report[j + 1]
  <2>1. Len(shorter) = n - 1 /\ DOMAIN shorter = 1 .. n - 1
    BY <1>1, <1>2, <1>5, LenProperties
  <2>2. ASSUME NEW j \in 1 .. n - 1
        PROVE  shorter[j] = IF j < i THEN report[j] ELSE report[j + 1]
    <3>1. CASE j < i
      BY <1>1, <1>2, <1>3, <1>5, <3>1
    <3>2. CASE ~(j < i)
      <4>1. j - (i - 1) \in 1 .. n - i /\ i + (j - (i - 1)) = j + 1
        BY <1>1, <1>2, <3>2
      <4>2. shorter[j] = after[j - (i - 1)]
        BY <1>1, <1>2, <1>5, <3>2
      <4> QED
        BY <1>4, <3>2, <4>1, <4>2
    <3> QED
      BY <3>1, <3>2
  <2> QED
    BY <2>1, <2>2
<1>7. shorter \in Report
  BY <1>1, <1>5, <1>6, ConstantsAreTyped, ReportsAreSequences
<1>8. Distinct(shorter)
  <2> SUFFICES ASSUME NEW j \in 1 .. n - 1, NEW k \in 1 .. n - 1, shorter[j] = shorter[k]
               PROVE  j = k
    BY <1>6 DEF Distinct
  <2>1. \A l, m \in 1 .. n : report[l] = report[m] => l = m
    BY <1>1 DEF Distinct
  <2> QED
    BY <1>1, <1>2, <1>6, <2>1
<1>9. RemoveAt(report, i) = shorter
  BY DEF RemoveAt, shorter, before, after, n
<1> QED
  BY <1>7, <1>8, <1>9

-----------------------------------------------------------------------------
\* The handlers of commands that are in progress, ...
Handlers(frames) ==
  IF frames # <<>> /\ frames[Len(frames)].stage = "wait" THEN Len(frames) - 1 ELSE Len(frames)

\* ... and whether there are any.
Commanded(frames) == \E i \in DOMAIN frames : frames[i].stage # "wait"

\* A new frame has no data.
LEMMA FrameIsTyped ==
  ASSUME NEW c \in Command, NEW stage \in {"src", "run_keys", "wait"}
  PROVE  Frame(c, stage) \in Frames /\ Frame(c, stage).stage = stage
<1> DEFINE f == Frame(c, stage)
<1>1. <<>> \in Seq(Report) /\ Len(<<>>) < MaxRecord /\ 0 \in 0 .. RetryCount - 1
  BY ConstantsAreTyped
<1>2. f \in AnyFrame
  BY <1>1, EmptyReport DEF Frame, AnyFrame, Stages
<1>3. f.stage = stage /\ Len(f.data) < MaxRecord
  BY <1>1 DEF Frame
<1> HIDE DEF f
<1>4. f \in Frames
  BY <1>2, <1>3 DEF Frames
<1> QED
  BY <1>3, <1>4 DEF f

\* A handler returns.
LEMMA PopFrame ==
  ASSUME NEW frames \in Seq(Frames), frames # <<>>, WaitAtBottom(frames)
  PROVE  /\ frames[1] \in Frames
         /\ Tail(frames) \in Seq(Frames) /\ WaitAtBottom(Tail(frames))
         /\ frames[1].stage = "wait" => Tail(frames) = <<>>
         /\ Handlers(frames) = IF frames[1].stage = "wait" THEN Handlers(Tail(frames))
                               ELSE Handlers(Tail(frames)) + 1
         /\ Commanded(frames) <=> frames[1].stage # "wait" \/ Commanded(Tail(frames))
<1> DEFINE rest == Tail(frames)
           n == Len(frames)
<1>1. n \in Nat \ {0} /\ DOMAIN frames = 1 .. n /\ \A i \in 1 .. n : frames[i] \in Frames
  BY LenProperties, EmptySeq, ElementOfSeq
<1>2. rest \in Seq(Frames) /\ Len(rest) = n - 1 /\ \A i \in 1 .. n - 1 : rest[i] = frames[i + 1]
  BY HeadTailProperties
<1>3. DOMAIN rest = 1 .. n - 1
  BY <1>2, LenProperties
<1>4. rest = <<>> <=> n = 1
  BY <1>1, <1>2, EmptySeq
<1>5. \A i \in 1 .. n : frames[i].stage = "wait" => i = n
  BY <1>1 DEF WaitAtBottom
<1> HIDE DEF rest, n
<1>6. frames[1] \in Frames
  BY <1>1
<1>7. WaitAtBottom(rest)
  BY <1>1, <1>2, <1>3, <1>5 DEF WaitAtBottom
<1>8. frames[1].stage = "wait" => rest = <<>>
  BY <1>1, <1>4, <1>5
<1>9. Handlers(frames) = IF frames[n].stage = "wait" THEN n - 1 ELSE n
  BY DEF Handlers, n
<1>10. Handlers(rest) = IF n = 1 THEN 0
                        ELSE IF frames[n].stage = "wait" THEN n - 2 ELSE n - 1
  <2>1. CASE n = 1
    BY <1>2, <1>4, <2>1 DEF Handlers
  <2>2. CASE n # 1
    <3>1. n - 1 \in 1 .. n - 1 /\ (n - 1) + 1 = n /\ (n - 1) - 1 = n - 2
      BY <1>1, <2>2
    <3>2. rest[n - 1] = frames[n]
      BY <1>2, <3>1
    <3>3. Handlers(rest) = IF rest[n - 1].stage = "wait" THEN (n - 1) - 1 ELSE n - 1
      BY <1>2, <1>4, <2>2 DEF Handlers
    <3> QED
      BY <2>2, <3>1, <3>2, <3>3
  <2> QED
    BY <2>1, <2>2
<1>11. Handlers(frames) = IF frames[1].stage = "wait" THEN Handlers(rest) ELSE Handlers(rest) + 1
  <2>1. CASE n = 1
    BY <1>9, <1>10, <2>1
  <2>2. CASE n # 1
    <3>1. frames[1].stage # "wait"
      BY <1>1, <1>5, <2>2
    <3>2. (n - 2) + 1 = n - 1 /\ (n - 1) + 1 = n
      BY <1>1
    <3> QED
      BY <1>9, <1>10, <2>2, <3>1, <3>2
  <2> QED
    BY <2>1, <2>2
<1>12. Commanded(frames) <=> frames[1].stage # "wait" \/ Commanded(rest)
  <2>1. ASSUME NEW i \in 1 .. n, frames[i].stage # "wait", frames[1].stage = "wait"
        PROVE  Commanded(rest)
    <3>1. i - 1 \in 1 .. n - 1 /\ (i - 1) + 1 = i
      BY <1>1, <2>1
    <3>2. rest[i - 1] = frames[i]
      BY <1>2, <3>1
    <3> QED
      BY <1>3, <2>1, <3>1, <3>2 DEF Commanded
  <2>2. ASSUME NEW i \in 1 .. n - 1, rest[i].stage # "wait"
        PROVE  Commanded(frames)
    <3>1. i + 1 \in 1 .. n /\ rest[i] = frames[i + 1]
      BY <1>1, <1>2
    <3> QED
      BY <1>1, <2>2, <3>1 DEF Commanded
  <2> QED
    BY <1>1, <1>3, <2>1, <2>2 DEF Commanded
<1> QED
  BY <1>2, <1>6, <1>7, <1>8, <1>11, <1>12 DEF rest

\* A handler is called.
LEMMA PushFrame ==
  ASSUME NEW frames \in Seq(Frames), WaitAtBottom(frames), NEW f \in Frames,
         f.stage = "wait" => frames = <<>>
  PROVE  /\ <<f>> \o frames \in Seq(Frames) /\ WaitAtBottom(<<f>> \o frames)
         /\ Handlers(<<f>> \o frames) = IF f.stage = "wait" THEN Handlers(frames)
                                        ELSE Handlers(frames) + 1
         /\ Commanded(<<f>> \o frames) <=> f.stage # "wait" \/ Commanded(frames)
<1> DEFINE more == <<f>> \o frames
<1>1. more \in Seq(Frames) /\ more # <<>> /\ Head(more) = f /\ Tail(more) = frames
  <2>1. /\ <<f>> \in Seq(Frames) /\ Len(<<f>>) = 1 /\ <<f>>[1] = f
    OBVIOUS
  <2>2. /\ <<f>> \o frames \in Seq(Frames)
        /\ Len(<<f>> \o frames) = Len(<<f>>) + Len(frames)
        /\ \A i \in 1 .. Len(<<f>>) + Len(frames) :
             (<<f>> \o frames)[i] = IF i <= Len(<<f>>) THEN <<f>>[i] ELSE frames[i - Len(<<f>>)]
    BY <2>1, ConcatProperties
  <2> QED
    BY <2>1, <2>2
<1> HIDE DEF more
<1>2. /\ Len(frames) \in Nat /\ DOMAIN frames = 1 .. Len(frames)
      /\ Len(more) = Len(frames) + 1 /\ DOMAIN more = 1 .. Len(frames) + 1
      /\ more[1] = f /\ \A i \in 1 .. Len(frames) : frames[i] = more[i + 1]
  <2>1. Len(more) \in Nat \ {0} /\ DOMAIN more = 1 .. Len(more)
    BY <1>1, LenProperties, EmptySeq
  <2>2. /\ Len(frames) = Len(more) - 1
        /\ \A i \in 1 .. Len(more) - 1 : frames[i] = more[i + 1]
    BY <1>1, HeadTailProperties
  <2>3. more[1] = f
    BY <1>1
  <2> QED
    BY <2>1, <2>2, <2>3, LenProperties
<1>3. WaitAtBottom(more)
  <2> SUFFICES ASSUME NEW i \in 1 .. Len(frames) + 1, more[i].stage = "wait"
               PROVE  i = Len(frames) + 1
    BY <1>2 DEF WaitAtBottom
  <2>1. CASE i = 1
    <3>1. frames = <<>>
      BY <1>2, <2>1
    <3>2. Len(frames) = 0
      BY <3>1, EmptySeq
    <3> QED
      BY <2>1, <3>2
  <2>2. CASE i # 1
    <3>1. i - 1 \in 1 .. Len(frames) /\ (i - 1) + 1 = i
      BY <1>2, <2>2
    <3>2. frames[i - 1] = more[i]
      BY <1>2, <3>1
    <3>3. i - 1 = Len(frames)
      BY <1>2, <3>1, <3>2 DEF WaitAtBottom
    <3> QED
      BY <1>2, <3>3
  <2> QED
    BY <2>1, <2>2
<1>4. /\ Handlers(more) = IF more[1].stage = "wait" THEN Handlers(Tail(more))
                          ELSE Handlers(Tail(more)) + 1
      /\ Commanded(more) <=> more[1].stage # "wait" \/ Commanded(Tail(more))
  BY <1>1, <1>3, PopFrame
<1>5. Handlers(more) = IF f.stage = "wait" THEN Handlers(frames) ELSE Handlers(frames) + 1
  BY <1>1, <1>2, <1>4
<1>6. Commanded(more) <=> f.stage # "wait" \/ Commanded(frames)
  BY <1>1, <1>2, <1>4
<1> QED
  BY <1>1, <1>3, <1>5, <1>6 DEF more

\* The innermost handler goes on, with a new frame.
LEMMA ReplaceFrame ==
  ASSUME NEW frames \in Seq(Frames), WaitAtBottom(frames), frames # <<>>,
         frames[1].stage # "wait", NEW f \in Frames, f.stage # "wait"
  PROVE  /\ <<f>> \o Tail(frames) \in Seq(Frames) /\ WaitAtBottom(<<f>> \o Tail(frames))
         /\ Handlers(<<f>> \o Tail(frames)) = Handlers(frames)
         /\ Commanded(frames)
<1>1. /\ Tail(frames) \in Seq(Frames) /\ WaitAtBottom(Tail(frames))
      /\ Handlers(frames) = Handlers(Tail(frames)) + 1
      /\ Commanded(frames)
  BY PopFrame
<1>2. /\ <<f>> \o Tail(frames) \in Seq(Frames) /\ WaitAtBottom(<<f>> \o Tail(frames))
      /\ Handlers(<<f>> \o Tail(frames)) = Handlers(Tail(frames)) + 1
  BY <1>1, PushFrame
<1> QED
  BY <1>1, <1>2

-----------------------------------------------------------------------------
LEMMA FrameFields ==
  ASSUME NEW f \in Frames
  PROVE  /\ f \in AnyFrame /\ f.command \in Command /\ f.stage \in Stages
         /\ f.polls \in 0 .. RetryCount - 1 /\ f.report \in Report /\ f.data \in Seq(Report)
         /\ f.stage = "dst" => f.src \in Keys
         /\ f.stage = "record" => f.src \in KeysHeld
         /\ f.stage # "wait" => Len(f.data) < MaxRecord
BY DEF Frames, AnyFrame

\* get_input_report() is called again or polls once more.
LEMMA FramePolls ==
  ASSUME NEW f \in Frames, NEW polls \in 0 .. RetryCount - 1
  PROVE  [f EXCEPT !.polls = polls] \in Frames /\ [f EXCEPT !.polls = polls].stage = f.stage
<1> DEFINE g == [f EXCEPT !.polls = polls]
<1>1. f \in AnyFrame
  BY DEF Frames
<1>2. g \in AnyFrame
  BY <1>1 DEF AnyFrame
<1>3. g.stage = f.stage /\ g.src = f.src /\ g.data = f.data
  BY <1>1 DEF AnyFrame
<1> HIDE DEF g
<1>4. g \in Frames
  BY <1>2, <1>3, FrameFields DEF Frames
<1> QED
  BY <1>3, <1>4 DEF g

LEMMA NoPolls == 0 \in 0 .. RetryCount - 1
BY ConstantsAreTyped

\* handle_update_keytable_command() has its first key.
LEMMA FrameHasSource ==
  ASSUME NEW f \in Frames, NEW k \in Keys, f.stage = "src"
  PROVE  /\ [f EXCEPT !.stage = "dst", !.src = k] \in Frames
         /\ [f EXCEPT !.stage = "dst", !.src = k].stage = "dst"
<1> DEFINE g == [f EXCEPT !.stage = "dst", !.src = k]
<1>1. f \in AnyFrame
  BY DEF Frames
<1>2. g \in AnyFrame
  BY <1>1 DEF AnyFrame, Stages
<1>3. g.stage = "dst" /\ g.src = k /\ g.data = f.data
  BY <1>1 DEF AnyFrame
<1> HIDE DEF g
<1>4. g \in Frames
  BY <1>2, <1>3, FrameFields DEF Frames
<1> QED
  BY <1>3, <1>4 DEF g

\* get_input_keys() has seen a report.
LEMMA FrameHasReport ==
  ASSUME NEW f \in Frames, NEW report \in Report
  PROVE  [f EXCEPT !.report = report] \in Frames /\ [f EXCEPT !.report = report].stage = f.stage
<1> DEFINE g == [f EXCEPT !.report = report]
<1>1. f \in AnyFrame
  BY DEF Frames
<1>2. g \in AnyFrame
  BY <1>1 DEF AnyFrame
<1>3. g.stage = f.stage /\ g.src = f.src /\ g.data = f.data
  BY <1>1 DEF AnyFrame
<1> HIDE DEF g
<1>4. g \in Frames
  BY <1>2, <1>3, FrameFields DEF Frames
<1> QED
  BY <1>3, <1>4 DEF g

\* handle_set_macro() has the keys that run the macro.
LEMMA FrameRecords ==
  ASSUME NEW c \in Command, NEW keys \in KeysHeld
  PROVE  /\ [Frame(c, "record") EXCEPT !.src = keys] \in Frames
         /\ [Frame(c, "record") EXCEPT !.src = keys].stage = "record"
<1> DEFINE g == [Frame(c, "record") EXCEPT !.src = keys]
<1>1. <<>> \in Seq(Report) /\ Len(<<>>) < MaxRecord
  BY ConstantsAreTyped
<1>2. g \in AnyFrame
  BY <1>1, NoPolls, EmptyReport DEF Frame, AnyFrame, Stages
<1>3. g.stage = "record" /\ g.src = keys /\ Len(g.data) < MaxRecord
  BY <1>1 DEF Frame
<1> HIDE DEF g
<1>4. g \in Frames
  BY <1>2, <1>3 DEF Frames
<1> QED
  BY <1>3, <1>4 DEF g

\* record_key_sequence() has one more report and room for another.
LEMMA FrameHasData ==
  ASSUME NEW f \in Frames, f.stage = "record", NEW data \in Seq(Report),
         Len(data) < MaxRecord, NEW report \in Report
  PROVE  /\ [f EXCEPT !.data = data, !.report = report] \in Frames
         /\ [f EXCEPT !.data = data, !.report = report].stage = "record"
<1> DEFINE g == [f EXCEPT !.data = data, !.report = report]
<1>1. f \in AnyFrame
  BY DEF Frames
<1>2. g \in AnyFrame
  BY <1>1 DEF AnyFrame
<1>3. g.stage = "record" /\ g.src = f.src /\ Len(g.data) < MaxRecord
  BY <1>1 DEF AnyFrame
<1> HIDE DEF g
<1>4. g \in Frames
  BY <1>2, <1>3, FrameFields DEF Frames
<1> QED
  BY <1>3, <1>4 DEF g

\* run_macro() has read its data.
LEMMA FrameHasMacro ==
  ASSUME NEW data \in Seq(Report)
  PROVE  /\ [Frame(NoCommand, "wait") EXCEPT !.data = data] \in Frames
         /\ [Frame(NoCommand, "wait") EXCEPT !.data = data].stage = "wait"
<1> DEFINE g == [Frame(NoCommand, "wait") EXCEPT !.data = data]
<1>1. NoCommand \in Command
  BY ConstantsAreTyped DEF NoCommand, Command, Macros
<1>2. g \in AnyFrame
  BY <1>1, NoPolls, EmptyReport DEF Frame, AnyFrame, Stages
<1>3. g.stage = "wait"
  BY DEF Frame
<1> HIDE DEF g
<1>4. g \in Frames
  BY <1>2, <1>3 DEF Frames
<1> QED
  BY <1>3, <1>4 DEF g

\* update_client_message()
LEMMA MessageIsTyped ==
  ASSUME MessagesOK, NEW c \in Command, NEW status \in Status, Message(c, status),
         UNCHANGED fromClient
  PROVE  MessagesOK' /\ toClient'.status = status
BY DEF MessagesOK, Message, Command

-----------------------------------------------------------------------------
(***************************************************************************)
(* What a step of the main thread does to the events under way, to the     *)
(* handlers in progress, to the PC and to the client's command.            *)
(***************************************************************************)
Takes(kind) == mainQ # <<>> /\ Head(mainQ) \in kind /\ mainQ' = Tail(mainQ)
MayTakeInput == Takes(Inputs) \/ UNCHANGED mainQ
NoKeys == [type |-> "input", report |-> <<>>]
Starts == runs' = IF fromClient = client.sent THEN runs + 1 ELSE runs

ConnectionHandled ==
  /\ Takes(Connections)
  /\ Attach(Head(mainQ) = [type |-> "connect"])
  /\ UNCHANGED <<stack, toClient, runs>>

CommandHandled ==
  /\ Takes(CommandEvents) /\ Starts
  /\ toClient'.status = "completed"
  /\ UNCHANGED <<stack, pc>>

CommandStarted ==
  /\ Takes(CommandEvents) /\ Starts
  /\ toClient'.status = "running"
  /\ Handlers(stack') = Handlers(stack) + 1
  /\ pc' = [pc EXCEPT !.dirty = pc.keys # <<>>]

ReportForwarded ==
  /\ Takes(Inputs) /\ stack = <<>>
  /\ Show(Modify(Head(mainQ).report))
  /\ UNCHANGED <<stack, toClient, runs>>

\* The start of a macro, and the reports before its start key is let go.
ReportDropped ==
  /\ Takes(Inputs \ {NoKeys})
  /\ Handlers(stack') = Handlers(stack)
  /\ Commanded(stack') => Commanded(stack)
  /\ UNCHANGED <<pc, toClient, runs>>

MacroSent ==
  /\ Takes(Inputs)
  /\ Show(<<>>)
  /\ Handlers(stack') = Handlers(stack)
  /\ UNCHANGED <<toClient, runs>>

HandlerGoesOn ==
  /\ MayTakeInput /\ Commanded(stack)
  /\ Handlers(stack') = Handlers(stack)
  /\ UNCHANGED toClient \/ toClient'.status = "running"
  /\ UNCHANGED <<pc, runs>>

HandlerReturns ==
  /\ MayTakeInput /\ Commanded(stack)
  /\ Handlers(stack) = Handlers(stack') + 1
  /\ toClient'.status = "completed"
  /\ UNCHANGED <<pc, runs>>

Effect ==
  \/ ConnectionHandled \/ CommandHandled \/ CommandStarted \/ ReportForwarded
  \/ ReportDropped \/ MacroSent \/ HandlerGoesOn \/ HandlerReturns

\* Parts of the invariant whose variables a step leaves alone.
LEMMA Unchanged ==
  ASSUME Inv
  PROVE  /\ UNCHANGED mainQ => QueueOK'
         /\ UNCHANGED <<fromClient, toClient>> => MessagesOK'
         /\ UNCHANGED stack => StackOK'
         /\ UNCHANGED <<keyTable, macros>> => TablesOK'
         /\ UNCHANGED pc => PcOK'
         /\ UNCHANGED keyboard => KeyboardOK'
         /\ UNCHANGED host => HostOK'
         /\ UNCHANGED <<notify, client>> => ClientOK'
         /\ UNCHANGED <<runs, counts>> => CountsOK'
BY DEF Inv, QueueOK, MessagesOK, StackOK, TablesOK, PcOK, KeyboardOK, HostOK, ClientOK, CountsOK,
       WaitAtBottom

LEMMA WorldUnchanged ==
  ASSUME Inv, UNCHANGED world
  PROVE  KeyboardOK' /\ HostOK' /\ ClientOK' /\ (UNCHANGED runs => CountsOK')
BY Unchanged DEF world

\* dequeue()
LEMMA TakeIsTyped ==
  ASSUME Inv, mainQ # <<>>, mainQ' = Tail(mainQ)
  PROVE  QueueOK' /\ Head(mainQ) \in Event
<1>1. mainQ \in Seq(Event) /\ Len(mainQ) <= QueueCapacity /\ QueueCapacity \in Nat
  BY ConstantsAreTyped DEF Inv, QueueOK
<1>2. Head(mainQ) \in Event /\ Tail(mainQ) \in Seq(Event) /\ Len(Tail(mainQ)) = Len(mainQ) - 1
  BY <1>1, HeadTailProperties
<1>3. Len(Tail(mainQ)) <= QueueCapacity
  BY <1>1, <1>2, LenProperties
<1> QED
  BY <1>2, <1>3 DEF QueueOK

LEMMA ReportIsTyped ==
  ASSUME Inv, NEW report, TakeReport(report)
  PROVE  /\ Takes(Inputs) /\ report \in Report /\ report = Head(mainQ).report
         /\ report # <<>> => Takes(Inputs \ {NoKeys})
         /\ QueueOK' /\ KeyboardOK' /\ HostOK' /\ ClientOK' /\ (UNCHANGED runs => CountsOK')
<1>1. mainQ # <<>> /\ mainQ' = Tail(mainQ) /\ Head(mainQ).type = "input"
      /\ report = Head(mainQ).report /\ UNCHANGED world
  BY DEF TakeReport
<1>2. Head(mainQ) \in Event /\ QueueOK'
  BY <1>1, TakeIsTyped
<1>3. Head(mainQ) \in Inputs
  BY <1>1, <1>2 DEF Event, Connections, CommandEvents
<1>4. report \in Report /\ (report # <<>> => Head(mainQ) # NoKeys)
  BY <1>1, <1>3 DEF Inputs, NoKeys
<1> QED
  BY <1>1, <1>2, <1>3, <1>4, WorldUnchanged DEF Takes

\* The handlers in progress.
LEMMA TopIsTyped ==
  ASSUME Inv, stack # <<>>
  PROVE  /\ stack \in Seq(Frames) /\ WaitAtBottom(stack) /\ Top = stack[1] /\ Top \in Frames
         /\ Top.command \in Command /\ Top.stage \in Stages
BY PopFrame, FrameFields DEF Inv, StackOK, Top

\* A handler goes on with its next get_input_report().
LEMMA ContinueIsTyped ==
  ASSUME Inv, stack # <<>>, Top.stage # "wait", NEW f \in Frames, f.stage # "wait", Continue(f)
  PROVE  StackOK' /\ Handlers(stack') = Handlers(stack) /\ Commanded(stack)
<1> DEFINE g == [f EXCEPT !.polls = 0]
<1>1. g \in Frames /\ g.stage # "wait"
  BY NoPolls, FramePolls
<1>2. stack' = <<g>> \o Tail(stack)
  BY DEF Continue, Under
<1> HIDE DEF g
<1>3. /\ <<g>> \o Tail(stack) \in Seq(Frames) /\ WaitAtBottom(<<g>> \o Tail(stack))
      /\ Handlers(<<g>> \o Tail(stack)) = Handlers(stack)
      /\ Commanded(stack)
  BY <1>1, TopIsTyped, ReplaceFrame
<1> DEFINE after == <<g>> \o Tail(stack)
<1>4. after \in Seq(Frames) /\ WaitAtBottom(after) /\ Handlers(after) = Handlers(stack)
      /\ stack' = after
  BY <1>2, <1>3
<1> HIDE DEF after
<1>5. StackOK'
  BY <1>4 DEF StackOK
<1> QED
  BY <1>3, <1>4, <1>5

\* A handler of a command returns.
LEMMA ReturnIsTyped ==
  ASSUME Inv, stack # <<>>, Top.stage # "wait", stack' = Under
  PROVE  StackOK' /\ Handlers(stack) = Handlers(stack') + 1 /\ Commanded(stack)
<1>1. /\ Tail(stack) \in Seq(Frames) /\ WaitAtBottom(Tail(stack))
      /\ Handlers(stack) = Handlers(Tail(stack)) + 1 /\ Commanded(stack)
  BY TopIsTyped, PopFrame
<1>2. stack' = Tail(stack)
  BY DEF Under
<1> QED
  BY <1>1, <1>2 DEF StackOK

\* A handler is called.
LEMMA PushIsTyped ==
  ASSUME Inv, NEW f \in Frames, f.stage = "wait" => stack = <<>>, Push(f)
  PROVE  /\ StackOK'
         /\ Handlers(stack') = IF f.stage = "wait" THEN Handlers(stack) ELSE Handlers(stack) + 1
         /\ Commanded(stack') <=> f.stage # "wait" \/ Commanded(stack)
<1>1. stack \in Seq(Frames) /\ WaitAtBottom(stack)
  BY DEF Inv, StackOK
<1>2. /\ <<f>> \o stack \in Seq(Frames) /\ WaitAtBottom(<<f>> \o stack)
      /\ Handlers(<<f>> \o stack) = IF f.stage = "wait" THEN Handlers(stack)
                                    ELSE Handlers(stack) + 1
      /\ Commanded(<<f>> \o stack) <=> f.stage # "wait" \/ Commanded(stack)
  BY <1>1, PushFrame
<1> DEFINE after == <<f>> \o stack
<1>3. /\ after \in Seq(Frames) /\ WaitAtBottom(after) /\ stack' = after
      /\ Handlers(after) = IF f.stage = "wait" THEN Handlers(stack) ELSE Handlers(stack) + 1
      /\ Commanded(after) <=> f.stage # "wait" \/ Commanded(stack)
  BY <1>2 DEF Push
<1> HIDE DEF after
<1> QED
  BY <1>3 DEF StackOK

\* update_client_message() and the report that the PC gets.
LEMMA PcIsTyped ==
  ASSUME Inv
  PROVE  /\ \A keys \in Report : Show(keys) => PcOK'
         /\ \A on \in BOOLEAN : Attach(on) => PcOK'
         /\ \A dirty \in BOOLEAN : pc' = [pc EXCEPT !.dirty = dirty] => PcOK'
<1>1. PcOK
  BY DEF Inv
<1>2. ASSUME NEW keys \in Report, Show(keys) PROVE PcOK'
  <2>1. (pc.dirty /\ keys # <<>>) \in BOOLEAN
    OBVIOUS
  <2> DEFINE dirty == pc.dirty /\ keys # <<>>
  <2>2. pc' = [pc EXCEPT !.keys = keys, !.dirty = dirty] /\ dirty \in BOOLEAN
    BY <1>2, <2>1 DEF Show
  <2> HIDE DEF dirty
  <2> QED
    BY <1>1, <2>2 DEF PcOK
<1>3. ASSUME NEW on \in BOOLEAN, Attach(on) PROVE PcOK'
  BY <1>3, EmptyReport DEF Attach, PcOK
<1>4. ASSUME NEW dirty \in BOOLEAN, pc' = [pc EXCEPT !.dirty = dirty] PROVE PcOK'
  BY <1>1, <1>4 DEF PcOK
<1> QED
  BY <1>2, <1>3, <1>4

\* handle_non_input_report_event(): a connection, ...
LEMMA ConnectionStep ==
  ASSUME Inv, NEW event, TakeEvent(event), event.type \in {"connect", "disconnect"},
         Attach(event.type = "connect"), Silent, UNCHANGED <<stack, keyTable, macros, runs>>
  PROVE  Inv' /\ Effect /\ UNCHANGED world
<1>1. mainQ # <<>> /\ mainQ' = Tail(mainQ) /\ event = Head(mainQ) /\ UNCHANGED world
  BY DEF TakeEvent
<1>2. QueueOK' /\ Head(mainQ) \in Event
  BY <1>1, TakeIsTyped
<1>3. Head(mainQ) \in Connections
  BY <1>1, <1>2 DEF Event, CommandEvents, Inputs, Connections
<1>4. (event.type = "connect") = (Head(mainQ) = [type |-> "connect"])
  BY <1>1, <1>3 DEF Connections
<1>5. PcOK'
  BY PcIsTyped
<1>6. UNCHANGED <<fromClient, toClient>> /\ UNCHANGED <<stack, keyTable, macros, runs>>
  BY <1>1 DEF Silent, world
<1>7. Inv'
  BY <1>1, <1>2, <1>5, <1>6, Unchanged, WorldUnchanged DEF Inv
<1>8. ConnectionHandled
  BY <1>1, <1>3, <1>4, <1>6 DEF ConnectionHandled, Takes
<1> QED
  BY <1>1, <1>7, <1>8 DEF Effect

\* ... or a command: command_handler().
LEMMA CommandStep ==
  ASSUME Inv, NEW event, TakeEvent(event), event.type = "command", command_handler
  PROVE  Inv' /\ Effect /\ UNCHANGED world
<1>1. mainQ # <<>> /\ mainQ' = Tail(mainQ) /\ event = Head(mainQ) /\ UNCHANGED world
  BY DEF TakeEvent
<1>2. QueueOK' /\ Head(mainQ) \in Event
  BY <1>1, TakeIsTyped
<1>3. Takes(CommandEvents)
  BY <1>1, <1>2 DEF Event, CommandEvents, Inputs, Connections, Takes
<1>4. Starts /\ UNCHANGED macros /\ UNCHANGED fromClient
  BY <1>1 DEF command_handler, Starts, world
<1>5. runs' \in Nat
  BY <1>4 DEF Starts, Inv, CountsOK
<1>6. KeyboardOK' /\ HostOK' /\ ClientOK' /\ CountsOK'
  <2>1. UNCHANGED counts
    BY <1>1 DEF world
  <2> QED
    BY <1>1, <1>5, <2>1, WorldUnchanged DEF CountsOK, Inv
<1>7. fromClient \in Command /\ MessagesOK /\ keyTable \in [Keys -> Keys]
  BY DEF Inv, MessagesOK, TablesOK
<1>8. "completed" \in Status /\ "running" \in Status
  BY DEF Status
<1>9. CASE Quick(fromClient) \/ MacroWithoutMemory(fromClient)
  <2>1. Message(fromClient, "completed") /\ UNCHANGED <<stack, pc>>
    BY <1>9 DEF Quick, MacroWithoutMemory
  <2>2. MessagesOK' /\ toClient'.status = "completed"
    BY <1>4, <1>7, <1>8, <2>1, MessageIsTyped
  <2>3. keyTable' \in [Keys -> Keys]
    BY <1>7, <1>9 DEF Quick, MacroWithoutMemory
  <2>4. TablesOK'
    BY <1>4, <2>3 DEF TablesOK, Inv
  <2>5. Inv'
    BY <1>2, <1>6, <2>1, <2>2, <2>4, Unchanged DEF Inv
  <2>6. CommandHandled
    BY <1>3, <1>4, <2>1, <2>2 DEF CommandHandled
  <2> QED
    BY <1>1, <2>5, <2>6 DEF Effect
<1>10. CASE Interactive(fromClient)
  <2>1. /\ Message(fromClient, "running") /\ UNCHANGED keyTable
        /\ pc' = [pc EXCEPT !.dirty = pc.keys # <<>>]
    BY <1>10 DEF Interactive
  <2>2. MessagesOK' /\ toClient'.status = "running"
    BY <1>4, <1>7, <1>8, <2>1, MessageIsTyped
  <2>3. TablesOK'
    BY <1>4, <2>1, Unchanged
  <2>4. PcOK'
    <3>1. (pc.keys # <<>>) \in BOOLEAN
      OBVIOUS
    <3> QED
      BY <2>1, <3>1, PcIsTyped
  <2>5. PICK stage \in {"src", "run_keys"} : Push(Frame(fromClient, stage))
    BY <1>10 DEF Interactive
  <2>6. Frame(fromClient, stage) \in Frames /\ Frame(fromClient, stage).stage # "wait"
    BY <1>7, <2>5, FrameIsTyped
  <2>7. StackOK' /\ Handlers(stack') = Handlers(stack) + 1
    BY <2>5, <2>6, PushIsTyped
  <2>8. Inv'
    BY <1>2, <1>6, <2>2, <2>3, <2>4, <2>7 DEF Inv
  <2>9. CommandStarted
    BY <1>3, <1>4, <2>1, <2>2, <2>7 DEF CommandStarted
  <2> QED
    BY <1>1, <2>8, <2>9 DEF Effect
<1> QED
  BY <1>9, <1>10 DEF command_handler

\* get_macro_no_from_report(): there is a lowest number.
LEMMA MacroNumber ==
  ASSUME NEW report, Matching(report) # {}
  PROVE  get_macro_no_from_report(report) \in Macros
<1> DEFINE M == Matching(report)
           Less == OpToRel(<, Nat)
<1>1. M \subseteq Macros /\ M \subseteq Nat
  BY ConstantsAreTyped DEF Matching, Macros
<1>2. IsWellFoundedOn(Less, Nat)
  BY NatLessThanWellFounded
<1>3. \A m, n \in Nat : m < n => <<m, n>> \in Less
  BY DEF OpToRel
<1> HIDE DEF Less
<1>4. PICK n \in M : \A m \in M : ~(<<m, n>> \in Less)
  BY <1>1, <1>2, WFMin
<1>5. \A m \in M : ~(m < n)
  BY <1>1, <1>3, <1>4
<1>6. n \in M /\ \A m \in M : n <= m
  BY <1>1, <1>5
<1>7. (CHOOSE l \in M : \A m \in M : l <= m) \in M
  BY <1>6
<1> QED
  BY <1>1, <1>7 DEF get_macro_no_from_report

\* handle_input_report_event()
LEMMA InputStep ==
  ASSUME Inv, handle_input_report_event
  PROVE  Inv' /\ Effect /\ UNCHANGED world
<1>1. PICK report : TakeReport(report) /\ (Forward(report) \/ StartMacro(report))
  BY DEF handle_input_report_event
<1>2. stack = <<>> /\ UNCHANGED <<toClient, keyTable, macros, runs>> /\ UNCHANGED world
      /\ UNCHANGED fromClient
  BY <1>1 DEF handle_input_report_event, Silent, TakeReport, world
<1>3. /\ Takes(Inputs) /\ report \in Report /\ report = Head(mainQ).report
      /\ report # <<>> => Takes(Inputs \ {NoKeys})
      /\ QueueOK' /\ KeyboardOK' /\ HostOK' /\ ClientOK' /\ CountsOK'
  BY <1>1, <1>2, ReportIsTyped
<1>4. MessagesOK' /\ TablesOK'
  BY <1>2, Unchanged
<1>5. CASE Forward(report)
  <2>1. Show(Modify(report)) /\ UNCHANGED stack
    BY <1>5 DEF Forward
  <2>2. PcOK'
    BY <1>3, <2>1, PcIsTyped, ModifyReport DEF Inv
  <2>3. Inv'
    BY <1>3, <1>4, <2>1, <2>2, Unchanged DEF Inv
  <2>4. ReportForwarded
    BY <1>2, <1>3, <2>1 DEF ReportForwarded
  <2> QED
    BY <1>2, <2>3, <2>4 DEF Effect
<1>6. CASE StartMacro(report)
  <2> DEFINE n == get_macro_no_from_report(report)
             data == macros[n].data
             f == [Frame(NoCommand, "wait") EXCEPT !.data = data]
  <2>1. PICK m \in Macros : macros[m].run = report
    BY <1>6 DEF StartMacro, Matching
  <2>2. macros[m] \in MacroData
    BY <2>1 DEF Inv, TablesOK
  <2>3. macros[m].run \in KeysHeld \cup {NoReport}
    BY <2>2 DEF MacroData
  <2>4. report # <<>>
    BY <2>1, <2>3 DEF KeysHeld, NoReport
  <2>5. Takes(Inputs \ {NoKeys}) /\ UNCHANGED pc
    BY <1>3, <1>6, <2>4 DEF StartMacro
  <2>6. Push(f) \/ UNCHANGED stack
    BY <1>6 DEF StartMacro
  <2>7. CASE UNCHANGED stack
    <3>1. Inv'
      BY <1>3, <1>4, <2>5, <2>7, Unchanged DEF Inv
    <3>2. ReportDropped
      BY <1>2, <2>5, <2>7 DEF ReportDropped
    <3> QED
      BY <1>2, <3>1, <3>2 DEF Effect
  <2>8. CASE Push(f)
    <3>1. n \in Macros
      BY <1>6, MacroNumber DEF StartMacro
    <3>2. macros[n] \in MacroData
      BY <3>1 DEF Inv, TablesOK
    <3>3. data \in Seq(Report)
      BY <3>2 DEF MacroData
    <3> HIDE DEF n, data
    <3>4. f \in Frames /\ f.stage = "wait"
      BY <3>3, FrameHasMacro
    <3> HIDE DEF f
    <3>5. /\ StackOK' /\ Handlers(stack') = Handlers(stack)
          /\ Commanded(stack') => Commanded(stack)
      BY <1>2, <2>8, <3>4, PushIsTyped
    <3>6. Inv'
      BY <1>3, <1>4, <2>5, <3>5, Unchanged DEF Inv
    <3>7. ReportDropped
      BY <1>2, <2>5, <3>5 DEF ReportDropped
    <3> QED
      BY <1>2, <3>6, <3>7 DEF Effect
  <2> QED
    BY <2>6, <2>7, <2>8
<1> QED
  BY <1>1, <1>5, <1>6

\* wait_for_all_key_unpressed() and the rest of run_macro().
LEMMA WaitStep ==
  ASSUME Inv, WaitUnpressed
  PROVE  Inv' /\ Effect /\ UNCHANGED world
<1>1. PICK report : /\ TakeReport(report)
                   /\ IF report = <<>> THEN stack' = Under /\ Show(<<>>)
                                      ELSE UNCHANGED <<stack, pc>>
  BY DEF WaitUnpressed
<1>2. stack # <<>> /\ Top.stage = "wait" /\ UNCHANGED <<toClient, keyTable, macros, runs>>
      /\ UNCHANGED world /\ UNCHANGED fromClient
  BY <1>1 DEF WaitUnpressed, Waiting, Silent, TakeReport, world
<1>3. /\ Takes(Inputs) /\ (report # <<>> => Takes(Inputs \ {NoKeys}))
      /\ QueueOK' /\ KeyboardOK' /\ HostOK' /\ ClientOK' /\ CountsOK'
  BY <1>1, <1>2, ReportIsTyped
<1>4. MessagesOK' /\ TablesOK'
  BY <1>2, Unchanged
<1>5. CASE report = <<>>
  <2>1. stack' = Tail(stack) /\ Show(<<>>)
    BY <1>1, <1>5 DEF Under
  <2>2. PcOK'
    BY <2>1, EmptyReport, PcIsTyped
  <2>3. /\ Tail(stack) \in Seq(Frames) /\ WaitAtBottom(Tail(stack))
        /\ Handlers(Tail(stack)) = Handlers(stack)
    BY <1>2, TopIsTyped, PopFrame
  <2>4. StackOK' /\ Handlers(stack') = Handlers(stack)
    BY <2>1, <2>3 DEF StackOK
  <2>5. Inv'
    BY <1>3, <1>4, <2>2, <2>4 DEF Inv
  <2>6. MacroSent
    BY <1>2, <1>3, <2>1, <2>4 DEF MacroSent
  <2> QED
    BY <1>2, <2>5, <2>6 DEF Effect
<1>6. CASE report # <<>>
  <2>1. UNCHANGED <<stack, pc>>
    BY <1>1, <1>6
  <2>2. Inv'
    BY <1>3, <1>4, <2>1, Unchanged DEF Inv
  <2>3. ReportDropped
    BY <1>2, <1>3, <1>6, <2>1 DEF ReportDropped
  <2> QED
    BY <1>2, <2>2, <2>3 DEF Effect
<1> QED
  BY <1>5, <1>6

\* handle_update_keytable_command()
LEMMA UpdateStep ==
  ASSUME Inv, UpdateGotReport
  PROVE  Inv' /\ Effect /\ UNCHANGED world
<1>1. PICK report :
        /\ TakeReport(report)
        /\ \/ report = <<>> /\ Continue(Top) /\ Silent /\ UNCHANGED keyTable
           \/ /\ report # <<>> /\ Top.stage = "src"
              /\ Continue([Top EXCEPT !.stage = "dst", !.src = KeyOf(report)])
              /\ Message(Top.command, "running")
              /\ UNCHANGED keyTable
           \/ /\ report # <<>> /\ Top.stage = "dst"
              /\ keyTable' = [keyTable EXCEPT ![Top.src] = KeyOf(report)]
              /\ Message(Top.command, "completed")
              /\ stack' = Under
  BY DEF UpdateGotReport
<1>2. stack # <<>> /\ Top.stage \in {"src", "dst"} /\ UNCHANGED <<macros, pc, runs>>
      /\ UNCHANGED world /\ UNCHANGED fromClient
  BY <1>1 DEF UpdateGotReport, Waiting, TakeReport, world
<1>3. /\ Takes(Inputs) /\ report \in Report
      /\ QueueOK' /\ KeyboardOK' /\ HostOK' /\ ClientOK' /\ CountsOK'
  BY <1>1, <1>2, ReportIsTyped
<1>4. PcOK' /\ MayTakeInput
  BY <1>2, <1>3, Unchanged DEF MayTakeInput
<1>5. Top \in Frames /\ Top.command \in Command
  BY <1>2, TopIsTyped
<1>6. report # <<>> => KeyOf(report) \in Keys
  BY <1>3, KeyOfReport DEF KeysHeld
<1>7. "completed" \in Status /\ "running" \in Status
  BY DEF Status
<1>8. CASE report = <<>> /\ Continue(Top) /\ Silent /\ UNCHANGED keyTable
  <2>1. StackOK' /\ Handlers(stack') = Handlers(stack) /\ Commanded(stack)
    BY <1>2, <1>5, <1>8, ContinueIsTyped
  <2>2. MessagesOK' /\ TablesOK' /\ UNCHANGED toClient
    BY <1>2, <1>8, Unchanged DEF Silent
  <2>3. Inv'
    BY <1>3, <1>4, <2>1, <2>2 DEF Inv
  <2>4. HandlerGoesOn
    BY <1>2, <1>4, <2>1, <2>2 DEF HandlerGoesOn
  <2> QED
    BY <1>2, <2>3, <2>4 DEF Effect
<1>9. CASE /\ report # <<>> /\ Top.stage = "src"
           /\ Continue([Top EXCEPT !.stage = "dst", !.src = KeyOf(report)])
           /\ Message(Top.command, "running")
           /\ UNCHANGED keyTable
  <2> DEFINE f == [Top EXCEPT !.stage = "dst", !.src = KeyOf(report)]
  <2>1. f \in Frames /\ f.stage = "dst" /\ Continue(f)
    BY <1>5, <1>6, <1>9, FrameHasSource
  <2> HIDE DEF f
  <2>2. StackOK' /\ Handlers(stack') = Handlers(stack) /\ Commanded(stack)
    BY <1>2, <2>1, ContinueIsTyped
  <2>3. MessagesOK' /\ toClient'.status = "running"
    BY <1>2, <1>5, <1>7, <1>9, MessageIsTyped DEF Inv
  <2>4. TablesOK'
    BY <1>2, <1>9, Unchanged
  <2>5. Inv'
    BY <1>3, <1>4, <2>2, <2>3, <2>4 DEF Inv
  <2>6. HandlerGoesOn
    BY <1>2, <1>4, <2>2, <2>3 DEF HandlerGoesOn
  <2> QED
    BY <1>2, <2>5, <2>6 DEF Effect
<1>10. CASE /\ report # <<>> /\ Top.stage = "dst"
            /\ keyTable' = [keyTable EXCEPT ![Top.src] = KeyOf(report)]
            /\ Message(Top.command, "completed")
            /\ stack' = Under
  <2>1. StackOK' /\ Handlers(stack) = Handlers(stack') + 1 /\ Commanded(stack)
    BY <1>2, <1>10, ReturnIsTyped
  <2>2. MessagesOK' /\ toClient'.status = "completed"
    BY <1>2, <1>5, <1>7, <1>10, MessageIsTyped DEF Inv
  <2>3. TablesOK'
    BY <1>2, <1>6, <1>10 DEF TablesOK, Inv
  <2>4. Inv'
    BY <1>3, <1>4, <2>1, <2>2, <2>3 DEF Inv
  <2>5. HandlerReturns
    BY <1>2, <1>4, <2>1, <2>2 DEF HandlerReturns
  <2> QED
    BY <1>2, <2>4, <2>5 DEF Effect
<1> QED
  BY <1>1, <1>8, <1>9, <1>10

\* get_input_keys()
LEMMA RunKeysStep ==
  ASSUME Inv, RunKeysGotReport
  PROVE  Inv' /\ Effect /\ UNCHANGED world
<1>1. PICK report :
        /\ TakeReport(report)
        /\ LET best == IF Len(report) > Len(Top.report) THEN report ELSE Top.report
           IN  IF report = <<>> /\ best # <<>>
               THEN /\ Continue([Frame(Top.command, "record") EXCEPT !.src = best])
                    /\ Message(Top.command, "running")
               ELSE Continue([Top EXCEPT !.report = best]) /\ Silent
  BY DEF RunKeysGotReport
<1>2. stack # <<>> /\ Top.stage = "run_keys" /\ UNCHANGED <<keyTable, macros, pc, runs>>
      /\ UNCHANGED world /\ UNCHANGED fromClient
  BY <1>1 DEF RunKeysGotReport, Waiting, TakeReport, world
<1>3. /\ Takes(Inputs) /\ report \in Report
      /\ QueueOK' /\ KeyboardOK' /\ HostOK' /\ ClientOK' /\ CountsOK'
  BY <1>1, <1>2, ReportIsTyped
<1>4. PcOK' /\ TablesOK' /\ MayTakeInput
  BY <1>2, <1>3, Unchanged DEF MayTakeInput
<1>5. Top \in Frames /\ Top.command \in Command /\ Top.report \in Report
  BY <1>2, TopIsTyped, FrameFields
<1> DEFINE best == IF Len(report) > Len(Top.report) THEN report ELSE Top.report
<1>6. best \in Report
  BY <1>3, <1>5
<1>7. \/ /\ best # <<>>
         /\ Continue([Frame(Top.command, "record") EXCEPT !.src = best])
         /\ Message(Top.command, "running")
      \/ Continue([Top EXCEPT !.report = best]) /\ Silent
  BY <1>1
<1> HIDE DEF best
<1>8. ASSUME NEW f \in Frames, f.stage # "wait", Continue(f), MessagesOK',
             UNCHANGED toClient \/ toClient'.status = "running"
      PROVE  Inv' /\ Effect /\ UNCHANGED world
  <2>1. StackOK' /\ Handlers(stack') = Handlers(stack) /\ Commanded(stack)
    BY <1>2, <1>8, ContinueIsTyped
  <2>2. Inv'
    BY <1>3, <1>4, <1>8, <2>1 DEF Inv
  <2>3. HandlerGoesOn
    BY <1>2, <1>4, <1>8, <2>1 DEF HandlerGoesOn
  <2> QED
    BY <1>2, <2>2, <2>3 DEF Effect
<1>9. CASE /\ best # <<>>
           /\ Continue([Frame(Top.command, "record") EXCEPT !.src = best])
           /\ Message(Top.command, "running")
  <2> DEFINE f == [Frame(Top.command, "record") EXCEPT !.src = best]
  <2>1. f \in Frames /\ f.stage # "wait" /\ Continue(f)
    BY <1>5, <1>6, <1>9, FrameRecords DEF KeysHeld
  <2> HIDE DEF f
  <2>2. MessagesOK' /\ toClient'.status = "running"
    BY <1>2, <1>5, <1>9, MessageIsTyped DEF Inv, Status
  <2> QED
    BY <1>8, <2>1, <2>2
<1>10. CASE Continue([Top EXCEPT !.report = best]) /\ Silent
  <2> DEFINE f == [Top EXCEPT !.report = best]
  <2>1. f \in Frames /\ f.stage # "wait" /\ Continue(f)
    BY <1>2, <1>5, <1>6, <1>10, FrameHasReport
  <2> HIDE DEF f
  <2>2. MessagesOK' /\ UNCHANGED toClient
    BY <1>2, <1>10, Unchanged DEF Silent
  <2> QED
    BY <1>8, <2>1, <2>2
<1> QED
  BY <1>7, <1>9, <1>10

\* The end of handle_set_macro().
LEMMA StoreStep ==
  ASSUME Inv, stack # <<>>, Top.stage = "record", NEW data \in Seq(Report),
         Len(data) <= MaxRecord, StoreMacro(data), UNCHANGED fromClient
  PROVE  /\ StackOK' /\ MessagesOK' /\ macros' \in [Macros -> MacroData]
         /\ Handlers(stack) = Handlers(stack') + 1 /\ Commanded(stack)
         /\ toClient'.status = "completed"
<1>1. Top \in Frames /\ Top.command \in Command /\ Top.src \in KeysHeld
  BY TopIsTyped, FrameFields
<1>2. /\ macros' = [macros EXCEPT ![Top.command.no] = [run |-> Top.src, data |-> data]]
      /\ Message(Top.command, "completed")
      /\ stack' = Under
  BY DEF StoreMacro
<1>3. StackOK' /\ Handlers(stack) = Handlers(stack') + 1 /\ Commanded(stack)
  BY <1>2, ReturnIsTyped
<1>4. MessagesOK' /\ toClient'.status = "completed"
  BY <1>1, <1>2, MessageIsTyped DEF Inv, Status
<1>5. [run |-> Top.src, data |-> data] \in MacroData
  BY <1>1 DEF MacroData
<1>6. macros \in [Macros -> MacroData]
  BY DEF Inv, TablesOK
<1>7. macros' \in [Macros -> MacroData]
  BY <1>2, <1>5, <1>6
<1> QED
  BY <1>3, <1>4, <1>7

\* One turn of record_key_sequence().
LEMMA RecordStep ==
  ASSUME Inv, stack # <<>>, Top.stage = "record", NEW report \in Report, Record(report),
         UNCHANGED fromClient
  PROVE  /\ StackOK' /\ MessagesOK' /\ macros' \in [Macros -> MacroData]
         /\ Commanded(stack)
         /\ \/ Handlers(stack) = Handlers(stack') + 1 /\ toClient'.status = "completed"
            \/ Handlers(stack') = Handlers(stack) /\ UNCHANGED toClient
<1>1. Top \in Frames /\ Top.data \in Seq(Report) /\ Len(Top.data) < MaxRecord
  BY TopIsTyped, FrameFields
<1> DEFINE data == Append(Top.data, report)
<1>2. data \in Seq(Report) /\ Len(data) = Len(Top.data) + 1 /\ Len(Top.data) \in Nat
  BY <1>1, AppendProperties, LenProperties
<1>3. Len(data) <= MaxRecord
  BY <1>1, <1>2, ConstantsAreTyped
<1>4. \/ StoreMacro(data)
      \/ /\ Len(data) < MaxRecord
         /\ Continue([Top EXCEPT !.data = data, !.report = report])
         /\ Silent
         /\ UNCHANGED macros
  <2>1. IF Len(data) >= MaxRecord THEN StoreMacro(data)
        ELSE /\ Continue([Top EXCEPT !.data = data, !.report = report])
             /\ Silent
             /\ UNCHANGED macros
    BY DEF Record
  <2>2. Len(data) >= MaxRecord \/ Len(data) < MaxRecord
    BY <1>2, ConstantsAreTyped
  <2> HIDE DEF data
  <2> QED
    BY <2>1, <2>2
<1> HIDE DEF data
<1>5. CASE StoreMacro(data)
  BY <1>2, <1>3, <1>5, StoreStep
<1>6. CASE /\ Len(data) < MaxRecord
           /\ Continue([Top EXCEPT !.data = data, !.report = report])
           /\ Silent
           /\ UNCHANGED macros
  <2> DEFINE f == [Top EXCEPT !.data = data, !.report = report]
  <2>1. f \in Frames /\ f.stage # "wait" /\ Continue(f)
    BY <1>1, <1>2, <1>6, FrameHasData
  <2> HIDE DEF f
  <2>2. StackOK' /\ Handlers(stack') = Handlers(stack) /\ Commanded(stack)
    BY <2>1, ContinueIsTyped
  <2>3. MessagesOK' /\ UNCHANGED toClient
    BY <1>6, Unchanged DEF Silent
  <2>4. macros' \in [Macros -> MacroData]
    BY <1>6 DEF Inv, TablesOK
  <2> QED
    BY <2>2, <2>3, <2>4
<1> QED
  BY <1>4, <1>5, <1>6

LEMMA RecordGotStep ==
  ASSUME Inv, RecordGotReport
  PROVE  Inv' /\ Effect /\ UNCHANGED world
<1>1. PICK report : TakeReport(report) /\ Record(report)
  BY DEF RecordGotReport
<1>2. stack # <<>> /\ Top.stage = "record" /\ UNCHANGED <<keyTable, pc, runs>>
      /\ UNCHANGED world /\ UNCHANGED fromClient
  BY <1>1 DEF RecordGotReport, Waiting, TakeReport, world
<1>3. /\ Takes(Inputs) /\ report \in Report
      /\ QueueOK' /\ KeyboardOK' /\ HostOK' /\ ClientOK' /\ CountsOK'
  BY <1>1, <1>2, ReportIsTyped
<1>4. /\ StackOK' /\ MessagesOK' /\ macros' \in [Macros -> MacroData]
      /\ Commanded(stack)
      /\ \/ Handlers(stack) = Handlers(stack') + 1 /\ toClient'.status = "completed"
         \/ Handlers(stack') = Handlers(stack) /\ UNCHANGED toClient
  BY <1>1, <1>2, <1>3, RecordStep
<1>5. TablesOK' /\ PcOK'
  BY <1>2, <1>4, Unchanged DEF TablesOK, Inv
<1>6. Inv'
  BY <1>3, <1>4, <1>5 DEF Inv
<1>7. HandlerGoesOn \/ HandlerReturns
  BY <1>2, <1>3, <1>4 DEF HandlerGoesOn, HandlerReturns, MayTakeInput
<1> QED
  BY <1>2, <1>6, <1>7 DEF Effect

\* get_input_report() polls again or gives up.
LEMMA PollStep ==
  ASSUME Inv, Delay \/ UpdateTimeout \/ RunKeysTimeout \/ RecordTimeout
  PROVE  Inv' /\ Effect /\ UNCHANGED world
<1>1. /\ stack # <<>> /\ Top.stage \in {"src", "dst", "run_keys", "record"}
      /\ UNCHANGED <<mainQ, keyTable, pc, runs>> /\ UNCHANGED world /\ UNCHANGED fromClient
  BY DEF Delay, UpdateTimeout, RunKeysTimeout, RecordTimeout, TimesOut, Polling, Waiting, world
<1>2. Top \in Frames /\ Top.command \in Command /\ Top.stage # "wait"
  BY <1>1, TopIsTyped
<1>3. /\ QueueOK' /\ PcOK' /\ KeyboardOK' /\ HostOK' /\ ClientOK' /\ CountsOK'
      /\ MayTakeInput
  BY <1>1, Unchanged, WorldUnchanged DEF MayTakeInput
<1>4. keyTable' \in [Keys -> Keys]
  BY <1>1 DEF Inv, TablesOK
<1>5. CASE Delay
  <2>1. /\ Top.polls + 1 < RetryCount /\ Silent /\ UNCHANGED macros
        /\ stack' = <<[Top EXCEPT !.polls = @ + 1]>> \o Under
    BY <1>5 DEF Delay
  <2>2. Top.polls + 1 \in 0 .. RetryCount - 1
    BY <1>2, <2>1, FrameFields, ConstantsAreTyped
  <2> DEFINE f == [Top EXCEPT !.polls = Top.polls + 1]
  <2>3. f \in Frames /\ f.stage # "wait"
    BY <1>2, <2>2, FramePolls
  <2>4. stack' = <<f>> \o Tail(stack)
    BY <2>1 DEF Under
  <2> HIDE DEF f
  <2>5. /\ <<f>> \o Tail(stack) \in Seq(Frames) /\ WaitAtBottom(<<f>> \o Tail(stack))
        /\ Handlers(<<f>> \o Tail(stack)) = Handlers(stack)
        /\ Commanded(stack)
    BY <1>1, <1>2, <2>3, TopIsTyped, ReplaceFrame
  <2> DEFINE after == <<f>> \o Tail(stack)
  <2>6. /\ after \in Seq(Frames) /\ WaitAtBottom(after) /\ Handlers(after) = Handlers(stack)
        /\ stack' = after
    BY <2>4, <2>5
  <2> HIDE DEF after
  <2>7. StackOK' /\ Handlers(stack') = Handlers(stack)
    BY <2>6 DEF StackOK
  <2>8. MessagesOK' /\ TablesOK' /\ UNCHANGED toClient
    BY <1>1, <2>1, Unchanged DEF Silent
  <2>9. Inv'
    BY <1>3, <2>7, <2>8 DEF Inv
  <2>10. HandlerGoesOn
    BY <1>1, <1>3, <2>5, <2>7, <2>8 DEF HandlerGoesOn
  <2> QED
    BY <1>1, <2>9, <2>10 DEF Effect
<1>6. CASE UpdateTimeout
  <2>1. Message(Top.command, "completed") /\ stack' = Under /\ UNCHANGED macros
    BY <1>6 DEF UpdateTimeout
  <2>2. StackOK' /\ Handlers(stack) = Handlers(stack') + 1 /\ Commanded(stack)
    BY <1>1, <1>2, <2>1, ReturnIsTyped
  <2>3. MessagesOK' /\ toClient'.status = "completed"
    BY <1>1, <1>2, <2>1, MessageIsTyped DEF Inv, Status
  <2>4. TablesOK'
    BY <1>1, <2>1, Unchanged
  <2>5. Inv'
    BY <1>3, <2>2, <2>3, <2>4 DEF Inv
  <2>6. HandlerReturns
    BY <1>1, <1>3, <2>2, <2>3 DEF HandlerReturns
  <2> QED
    BY <1>1, <2>5, <2>6 DEF Effect
<1>7. CASE RunKeysTimeout
  <2>1. Continue(Top) /\ UNCHANGED toClient /\ UNCHANGED macros
    BY <1>7 DEF RunKeysTimeout, Silent
  <2>2. StackOK' /\ Handlers(stack') = Handlers(stack) /\ Commanded(stack)
    BY <1>1, <1>2, <2>1, ContinueIsTyped
  <2>3. MessagesOK' /\ TablesOK'
    BY <1>1, <2>1, Unchanged
  <2>4. Inv'
    BY <1>3, <2>2, <2>3 DEF Inv
  <2>5. HandlerGoesOn
    BY <1>1, <1>3, <2>1, <2>2 DEF HandlerGoesOn
  <2> QED
    BY <1>1, <2>4, <2>5 DEF Effect
<1>8. CASE RecordTimeout
  <2>1. /\ Top.stage = "record"
        /\ StoreMacro(Top.data) \/ Record(Top.report)
    BY <1>8 DEF RecordTimeout
  <2>2. Top.data \in Seq(Report) /\ Len(Top.data) <= MaxRecord /\ Top.report \in Report
    BY <1>2, FrameFields, ConstantsAreTyped, LenProperties
  <2>3. /\ StackOK' /\ MessagesOK' /\ macros' \in [Macros -> MacroData]
        /\ Commanded(stack)
        /\ \/ Handlers(stack) = Handlers(stack') + 1 /\ toClient'.status = "completed"
           \/ Handlers(stack') = Handlers(stack) /\ UNCHANGED toClient
    BY <1>1, <2>1, <2>2, StoreStep, RecordStep
  <2>4. Inv'
    BY <1>3, <1>4, <2>3 DEF Inv, TablesOK
  <2>5. HandlerGoesOn \/ HandlerReturns
    BY <1>1, <1>3, <2>3 DEF HandlerGoesOn, HandlerReturns
  <2> QED
    BY <1>1, <2>4, <2>5 DEF Effect
<1> QED
  BY <1>5, <1>6, <1>7, <1>8

LEMMA MainStep ==
  ASSUME Inv, Main
  PROVE  Inv' /\ Effect /\ UNCHANGED world
<1>1. CASE HandleOther
  <2>1. PICK event : TakeEvent(event) /\ handle_non_input_report_event(event)
    BY <1>1 DEF HandleOther
  <2> QED
    BY <2>1, ConnectionStep, CommandStep DEF handle_non_input_report_event
<1> QED
  BY <1>1, InputStep, WaitStep, UpdateStep, RunKeysStep, RecordGotStep, PollStep DEF Main

-----------------------------------------------------------------------------
\* enqueue()
LEMMA EnqueueIsTyped ==
  ASSUME Inv, NEW event \in Event, Enqueue(event)
  PROVE  QueueOK' /\ mainQ' = Append(mainQ, event)
<1>1. mainQ \in Seq(Event) /\ Len(mainQ) < QueueCapacity /\ QueueCapacity \in Nat
      /\ mainQ' = Append(mainQ, event)
  BY ConstantsAreTyped DEF Inv, QueueOK, Enqueue
<1>2. Append(mainQ, event) \in Seq(Event) /\ Len(Append(mainQ, event)) = Len(mainQ) + 1
  BY <1>1, AppendProperties
<1>3. mainQ' \in Seq(Event) /\ Len(mainQ') = Len(mainQ) + 1
  BY <1>1, <1>2
<1> QED
  BY <1>1, <1>3, LenProperties DEF QueueOK

LEMMA MainStateUnchanged ==
  ASSUME Inv, UNCHANGED mainState, UNCHANGED fromClient
  PROVE  MessagesOK' /\ StackOK' /\ TablesOK' /\ PcOK'
<1>1. UNCHANGED <<toClient, stack, keyTable, macros, pc>>
  BY DEF mainState
<1> QED
  BY <1>1, Unchanged

\* The USB host thread.
LEMMA HostStep ==
  ASSUME Inv, Host
  PROVE  Inv'
<1>1. /\ UNCHANGED mainState /\ UNCHANGED fromClient
      /\ UNCHANGED <<keyboard, notify, client, counts, runs>>
  BY DEF Host, HostConnect, HostReport, HostDisconnect
<1>2. MessagesOK' /\ StackOK' /\ TablesOK' /\ PcOK' /\ KeyboardOK' /\ ClientOK' /\ CountsOK'
  BY <1>1, MainStateUnchanged, Unchanged
<1>3. keyboard.keys \in Report /\ HostOK
  BY DEF Inv, KeyboardOK
<1>4. PICK event \in Event : Enqueue(event) /\ HostOK'
  <2>1. CASE HostConnect
    BY <2>1 DEF HostConnect, Event, Connections, HostOK
  <2>2. CASE HostReport
    <3>1. [type |-> "input", report |-> keyboard.keys] \in Event
      BY <1>3 DEF Event, Inputs
    <3>2. HostOK'
      BY <1>3, <2>2 DEF HostReport, HostOK
    <3> QED
      BY <2>2, <3>1, <3>2 DEF HostReport
  <2>3. CASE HostDisconnect
    BY <2>3 DEF HostDisconnect, Event, Connections, HostOK
  <2> QED
    BY <2>1, <2>2, <2>3 DEF Host
<1>5. QueueOK'
  BY <1>4, EnqueueIsTyped
<1> QED
  BY <1>2, <1>4, <1>5 DEF Inv

\* The user and the keyboard.
LEMMA UserStep ==
  ASSUME Inv, Plug \/ Unplug \/ \E k \in Keys : PressKey(k) \/ ReleaseKey(k)
  PROVE  Inv'
<1>1. /\ UNCHANGED mainState /\ UNCHANGED fromClient /\ UNCHANGED <<mainQ, notify, client, runs>>
  BY DEF Plug, Unplug, PressKey, ReleaseKey
<1>2. QueueOK' /\ MessagesOK' /\ StackOK' /\ TablesOK' /\ PcOK' /\ ClientOK'
  BY <1>1, MainStateUnchanged, Unchanged
<1>3. /\ keyboard \in [on : BOOLEAN, keys : Report] /\ keyboard.keys \in Report
      /\ Distinct(keyboard.keys)
  BY DEF Inv, KeyboardOK
<1>4. runs \in Nat /\ counts \in [presses : Nat, unplugs : Nat, commands : Nat, abandoned : Nat]
  BY DEF Inv, CountsOK
<1>5. CASE Plug \/ Unplug
  <2>1. \E on \in BOOLEAN : keyboard' = [on |-> on, keys |-> <<>>]
    BY <1>5 DEF Plug, Unplug
  <2>2. KeyboardOK'
    BY <2>1, EmptyReport DEF KeyboardOK, Distinct
  <2>3. HostOK'
    BY <1>5, Unchanged DEF Plug, Unplug, HostOK, Inv
  <2>4. CountsOK'
    BY <1>1, <1>4, <1>5 DEF Plug, Unplug, CountsOK
  <2> QED
    BY <1>2, <2>2, <2>3, <2>4 DEF Inv
<1>6. ASSUME NEW k \in Keys, PressKey(k) PROVE Inv'
  <2>1. Append(keyboard.keys, k) \in Report /\ Distinct(Append(keyboard.keys, k))
    BY <1>3, <1>6, PressedKeys DEF PressKey
  <2> DEFINE keys == Append(keyboard.keys, k)
  <2>2. keys \in Report /\ Distinct(keys) /\ keyboard' = [keyboard EXCEPT !.keys = keys]
    BY <1>6, <2>1 DEF PressKey
  <2> HIDE DEF keys
  <2>3. keyboard' \in [on : BOOLEAN, keys : Report] /\ keyboard'.keys = keys
    BY <1>3, <2>2
  <2>4. KeyboardOK'
    BY <2>2, <2>3 DEF KeyboardOK
  <2>5. HostOK'
    BY <1>6, Unchanged DEF PressKey
  <2>6. CountsOK'
    BY <1>1, <1>4, <1>6 DEF PressKey, CountsOK
  <2> QED
    BY <1>2, <2>4, <2>5, <2>6 DEF Inv
<1>7. ASSUME NEW k \in Keys, ReleaseKey(k) PROVE Inv'
  <2>1. PICK i \in DOMAIN keyboard.keys :
          keyboard' = [keyboard EXCEPT !.keys = RemoveAt(keyboard.keys, i)]
    BY <1>7 DEF ReleaseKey
  <2>2. RemoveAt(keyboard.keys, i) \in Report /\ Distinct(RemoveAt(keyboard.keys, i))
    BY <1>3, ReleasedKeys
  <2> DEFINE keys == RemoveAt(keyboard.keys, i)
  <2>3. keys \in Report /\ Distinct(keys) /\ keyboard' = [keyboard EXCEPT !.keys = keys]
    BY <2>1, <2>2
  <2> HIDE DEF keys
  <2>4. keyboard' \in [on : BOOLEAN, keys : Report] /\ keyboard'.keys = keys
    BY <1>3, <2>3
  <2>5. KeyboardOK'
    BY <2>3, <2>4 DEF KeyboardOK
  <2>6. HostOK' /\ CountsOK'
    BY <1>1, <1>7, Unchanged DEF ReleaseKey
  <2> QED
    BY <1>2, <2>5, <2>6 DEF Inv
<1> QED
  BY <1>5, <1>6, <1>7

\* Numbers of commands are bytes.
LEMMA NumberIsByte ==
  ASSUME NEW n \in Nat
  PROVE  n % 256 \in 0 .. 255
OBVIOUS

\* do_command() of a client sends its command.
LEMMA SendStep ==
  ASSUME Inv, NEW c \in Commands, NEW n \in Macros, SendCommand(c, n)
  PROVE  /\ Inv' /\ client.state = "opened" /\ client'.state = "waiting"
         /\ client'.sent.seq = (client.sent.seq + 1) % 256
         /\ fromClient' = client'.sent /\ ~notify /\ notify'
         /\ UNCHANGED <<mainQ, toClient, stack, runs, counts>>
<1> DEFINE seq == (client.sent.seq + 1) % 256
           sent == [command |-> c, seq |-> seq, no |-> n]
<1>1. client.sent \in Command
  BY DEF Inv, ClientOK
<1>2. client.sent.seq \in Nat
  BY <1>1 DEF Command
<1>3. client.sent.seq + 1 \in Nat
  BY <1>2
<1>4. seq \in 0 .. 255
  BY <1>3, NumberIsByte
<1>5. /\ client' = [state |-> "waiting", sent |-> sent] /\ fromClient' = sent
      /\ client.state = "opened" /\ ~notify /\ notify' = TRUE
      /\ UNCHANGED <<mainQ, mainState, keyboard, host, counts, runs>>
  BY DEF SendCommand
<1> HIDE DEF seq
<1>6. sent \in Command /\ sent.seq = seq
  BY <1>4 DEF Command
<1> HIDE DEF sent
<1>7. UNCHANGED <<toClient, stack, keyTable, macros, pc>>
  BY <1>5 DEF mainState
<1>8. QueueOK' /\ StackOK' /\ TablesOK' /\ PcOK' /\ KeyboardOK' /\ HostOK' /\ CountsOK'
  BY <1>5, <1>7, Unchanged
<1>9. MessagesOK'
  BY <1>5, <1>6, <1>7 DEF MessagesOK, Inv
<1>10. ClientOK'
  BY <1>5, <1>6 DEF ClientOK
<1>11. Inv'
  BY <1>8, <1>9, <1>10 DEF Inv
<1> QED
  BY <1>5, <1>6, <1>7, <1>11 DEF seq

\* The rest of a client's life.
LEMMA ClientStep ==
  ASSUME Inv, ReadNumber \/ PollResult \/ ClientFails \/ ClientIsStopped
  PROVE  Inv'
<1>1. /\ UNCHANGED <<toClient, stack, keyTable, macros>> /\ UNCHANGED fromClient
      /\ UNCHANGED <<mainQ, keyboard, host, notify>>
  BY DEF ReadNumber, PollResult, ClientFails, ClientIsStopped, ClientGivesUp, mainState
<1>2. QueueOK' /\ MessagesOK' /\ StackOK' /\ TablesOK' /\ KeyboardOK' /\ HostOK'
  BY <1>1, Unchanged
<1>3. PcOK'
  BY Unchanged DEF ReadNumber, PollResult, ClientFails, ClientIsStopped, ClientGivesUp, mainState,
     PcOK, Inv
<1>4. /\ notify \in BOOLEAN
      /\ client \in [state : {"idle", "opened", "waiting", "done", "failed"}, sent : Command]
      /\ toClient.seq \in 0 .. 255 /\ NoCommand \in Command
  <2>1. NoCommand \in Command
    BY ConstantsAreTyped DEF NoCommand, Command, Macros
  <2>2. toClient.seq \in 0 .. 255
    BY DEF Inv, MessagesOK
  <2> QED
    BY <2>1, <2>2 DEF Inv, ClientOK
<1>5. ClientOK'
  <2>1. CASE ReadNumber
    <3>1. [NoCommand EXCEPT !.seq = toClient.seq] \in Command
      BY <1>4 DEF Command
    <3>2. client' = [state |-> "opened", sent |-> [NoCommand EXCEPT !.seq = toClient.seq]]
      BY <2>1 DEF ReadNumber
    <3> QED
      BY <1>1, <1>4, <3>1, <3>2 DEF ClientOK
  <2>2. CASE PollResult
    BY <1>1, <1>4, <2>2 DEF PollResult, ClientOK
  <2>3. CASE ClientGivesUp
    BY <1>1, <1>4, <2>3 DEF ClientGivesUp, ClientOK
  <2> QED
    BY <2>1, <2>2, <2>3 DEF ClientFails, ClientIsStopped
<1>6. CountsOK'
  <2>1. runs \in Nat /\ counts \in [presses : Nat, unplugs : Nat, commands : Nat, abandoned : Nat]
    BY DEF Inv, CountsOK
  <2>2. CASE ReadNumber
    BY <2>1, <2>2 DEF ReadNumber, CountsOK
  <2>3. CASE PollResult
    BY <2>1, <2>3 DEF PollResult, CountsOK
  <2>4. CASE ClientGivesUp
    BY <2>1, <2>4 DEF ClientGivesUp, CountsOK
  <2> QED
    BY <2>2, <2>3, <2>4 DEF ClientFails, ClientIsStopped
<1> QED
  BY <1>2, <1>3, <1>5, <1>6 DEF Inv

\* notify_recv_command_to_main()
LEMMA NotifyStep ==
  ASSUME Inv, NotifyCommand
  PROVE  /\ Inv' /\ mainQ' = Append(mainQ, [type |-> "command"]) /\ notify /\ ~notify'
         /\ UNCHANGED <<toClient, stack, pc, host, client, runs, counts, fromClient>>
<1>1. /\ notify /\ notify' = FALSE /\ Enqueue([type |-> "command"])
      /\ UNCHANGED <<mainState, keyboard, host, client, counts, fromClient, runs>>
  BY DEF NotifyCommand
<1>2. [type |-> "command"] \in Event
  BY DEF Event, CommandEvents
<1>3. QueueOK' /\ mainQ' = Append(mainQ, [type |-> "command"])
  BY <1>1, <1>2, EnqueueIsTyped
<1>4. /\ MessagesOK' /\ StackOK' /\ TablesOK' /\ PcOK' /\ KeyboardOK' /\ HostOK' /\ CountsOK'
  BY <1>1, MainStateUnchanged, Unchanged
<1>5. ClientOK'
  BY <1>1 DEF ClientOK, Inv
<1>6. Inv'
  BY <1>3, <1>4, <1>5 DEF Inv
<1> QED
  BY <1>1, <1>3, <1>6 DEF mainState

LEMMA InitIsTyped == Init => Inv
<1> SUFFICES ASSUME Init PROVE Inv
  OBVIOUS
<1> USE DEF Init
<1>1. 0 \in Macros /\ NoCommand \in Command
  BY ConstantsAreTyped DEF Macros, NoCommand, Command
<1>2. QueueOK
  BY ConstantsAreTyped DEF QueueOK
<1>3. MessagesOK
  BY <1>1 DEF MessagesOK, Status
<1>4. StackOK
  BY DEF StackOK, WaitAtBottom
<1>5. TablesOK
  <2>1. <<>> \in Seq(Report) /\ Len(<<>>) <= MaxRecord
    BY ConstantsAreTyped
  <2>2. NoMacro \in MacroData
    BY <2>1 DEF NoMacro, MacroData
  <2> QED
    BY <2>2 DEF TablesOK
<1>6. PcOK /\ KeyboardOK
  BY EmptyReport DEF PcOK, KeyboardOK, Distinct
<1>7. HostOK /\ ClientOK /\ CountsOK
  BY <1>1 DEF HostOK, ClientOK, CountsOK
<1> QED
  BY <1>2, <1>3, <1>4, <1>5, <1>6, <1>7 DEF Inv

\* Nothing happens.
LEMMA StutterIsTyped == Inv /\ UNCHANGED vars => Inv'
BY Unchanged DEF vars, Inv

\* The steps of the threads, the user and the client.
LEMMA Steps ==
  ASSUME Next
  PROVE  \/ Main \/ Host
         \/ Plug \/ Unplug \/ \E k \in Keys : PressKey(k) \/ ReleaseKey(k)
         \/ \E c \in Commands, n \in Macros : SendCommand(c, n)
         \/ NotifyCommand
         \/ ReadNumber \/ PollResult \/ ClientFails \/ ClientIsStopped
<1>1. 0 \in Macros
  BY ConstantsAreTyped DEF Macros
<1>2. ASSUME NEW c \in Commands, NEW n \in IF c = "macro" THEN Macros ELSE {0}
      PROVE  n \in Macros
  BY <1>1, <1>2
<1> QED
  BY <1>2 DEF Next

LEMMA NextIsTyped == Inv /\ Next => Inv'
<1> SUFFICES ASSUME Inv, Next PROVE Inv'
  OBVIOUS
<1> QED
  BY Steps, MainStep, HostStep, UserStep, SendStep, NotifyStep, ClientStep

\* Everything is of its type, the handlers in progress included.
LEMMA TypeInvariant == Spec => []Inv
<1>1. Inv /\ [Next]_vars => Inv'
  BY NextIsTyped, StutterIsTyped
<1> QED
  BY <1>1, InitIsTyped, PTL DEF Spec

\* Everything is of its type; the polls of a handler stay below the retry
\* count, a recorded macro within MACRO_MAX_KEY_COUNT reports, and a report
\* never holds more keys than there are: handle_set_macro() and
\* record_key_sequence() never write behind their buffers.
THEOREM TypeCorrect == Spec => []TypeOK
<1>1. Inv => TypeOK
  <2> SUFFICES ASSUME Inv PROVE TypeOK
    OBVIOUS
  <2>1. Len(mainQ) <= QueueCapacity
    BY DEF Inv, QueueOK
  <2>2. /\ fromClient \in Command /\ toClient.seq \in 0 .. 255
        /\ toClient.status \in {"none", "running", "completed"}
    BY DEF Inv, MessagesOK, Status
  <2>3. ASSUME NEW i \in DOMAIN stack PROVE FrameOK(stack[i])
    <3>1. stack \in Seq(Frames)
      BY DEF Inv, StackOK
    <3>2. stack[i] \in Frames
      BY <3>1
    <3> QED
      BY <3>2, FrameFields DEF FrameOK, Stages
  <2>4. keyTable \in [Keys -> Keys]
    BY DEF Inv, TablesOK
  <2>5. ASSUME NEW n \in Macros PROVE Len(macros[n].data) <= MaxRecord
    <3>1. macros[n] \in MacroData
      BY DEF Inv, TablesOK
    <3> QED
      BY <3>1 DEF MacroData
  <2>6. pc.on \in BOOLEAN /\ pc.keys \in Report
    BY DEF Inv, PcOK
  <2>7. keyboard.on \in BOOLEAN /\ keyboard.keys \in Report
    BY DEF Inv, KeyboardOK
  <2>8. /\ host.session \in {"none", "open", "lost"} /\ notify \in BOOLEAN
        /\ client.state \in {"idle", "opened", "waiting", "done", "failed"}
        /\ runs \in Nat
    BY DEF Inv, HostOK, ClientOK, CountsOK
  <2> QED
    BY <2>1, <2>2, <2>3, <2>4, <2>5, <2>6, <2>7, <2>8 DEF TypeOK
<1> QED
  BY <1>1, TypeInvariant, PTL

-----------------------------------------------------------------------------
(***************************************************************************)
(* The connection: the last connect or disconnect event under way, or else *)
(* what the PC has, is what the host thread has.                           *)
(***************************************************************************)
Told(is) == [type |-> IF is THEN "connect" ELSE "disconnect"]

ConnectionArrives ==
  Finally(mainQ, Connections, Told(pc.on)) = Told(host.session # "none")

LEMMA ConnectionStarts == Init => ConnectionArrives
BY EmptyQueue DEF Init, ConnectionArrives, Told

\* An event is taken.
LEMMA FinallyIsTaken ==
  ASSUME Inv, NEW kind, Takes(kind), NEW S, NEW initial
  PROVE  Finally(mainQ, S, initial) =
           Finally(mainQ', S, IF Head(mainQ) \in S THEN Head(mainQ) ELSE initial)
<1>1. mainQ \in Seq(Event) /\ mainQ # <<>> /\ mainQ' = Tail(mainQ)
  BY DEF Inv, QueueOK, Takes
<1> DEFINE now == IF Head(mainQ) \in S THEN Head(mainQ) ELSE initial
           rest == Tail(mainQ)
<1>2. Finally(mainQ, S, initial) = Finally(rest, S, now)
  BY <1>1, FinallyAfterGet
<1> HIDE DEF now, rest
<1>3. mainQ' = rest
  BY <1>1 DEF rest
<1>4. Finally(mainQ, S, initial) = Finally(mainQ', S, now)
  BY <1>2, <1>3
<1> QED
  BY <1>4 DEF now

\* An event is put in.
LEMMA FinallyIsPut ==
  ASSUME Inv, NEW event \in Event, Enqueue(event), NEW S, NEW initial
  PROVE  Finally(mainQ', S, initial) =
           IF event \in S THEN event ELSE Finally(mainQ, S, initial)
<1>1. mainQ \in Seq(Event)
  BY DEF Inv, QueueOK
<1> DEFINE longer == Append(mainQ, event)
<1>2. Finally(longer, S, initial) = IF event \in S THEN event ELSE Finally(mainQ, S, initial)
  BY <1>1, FinallyAfterPut
<1>3. mainQ' = longer
  BY EnqueueIsTyped
<1> HIDE DEF longer
<1> QED
  BY <1>2, <1>3

LEMMA KindsAreDisjoint ==
  /\ Connections \cap Inputs = {} /\ CommandEvents \cap Inputs = {}
  /\ Connections \cap CommandEvents = {}
BY DEF Connections, CommandEvents, Inputs

LEMMA ConnectionKept ==
  ASSUME Inv, ConnectionArrives, Next
  PROVE  ConnectionArrives'
<1> DEFINE is == Told(host.session # "none")
<1>1. Finally(mainQ, Connections, Told(pc.on)) = is
  BY DEF ConnectionArrives
<1>2. ASSUME UNCHANGED mainQ, pc'.on = pc.on, Told(host.session # "none")' = is
      PROVE  ConnectionArrives'
  BY <1>1, <1>2 DEF ConnectionArrives, Told
<1>3. CASE Main
  <2>1. Effect /\ UNCHANGED host
    BY <1>3, MainStep DEF world
  <2>2. Told(host.session # "none")' = is
    BY <2>1 DEF Told
  <2>3. CASE ConnectionHandled
    <3>1. Takes(Connections) /\ Head(mainQ) \in Connections
          /\ pc'.on = (Head(mainQ) = [type |-> "connect"])
      BY <2>3 DEF ConnectionHandled, Takes, Attach
    <3>2. Told(pc'.on) = Head(mainQ)
      BY <3>1 DEF Told, Connections
    <3>3. is = Finally(mainQ', Connections, Head(mainQ))
      BY <1>1, <3>1, FinallyIsTaken
    <3> QED
      BY <2>2, <3>2, <3>3 DEF ConnectionArrives, Told
  <2>4. CASE ~ConnectionHandled
    <3>1. pc'.on = pc.on
      <4>1. PcOK
        BY DEF Inv
      <4> QED
        BY <2>1, <2>4, <4>1 DEF Effect, CommandHandled, CommandStarted, ReportForwarded,
           ReportDropped, MacroSent, HandlerGoesOn, HandlerReturns, Show, PcOK
    <3>2. \/ UNCHANGED mainQ
          \/ \E kind \in {CommandEvents, Inputs, Inputs \ {NoKeys}} : Takes(kind)
      BY <2>1, <2>4 DEF Effect, CommandHandled, CommandStarted, ReportForwarded,
         ReportDropped, MacroSent, HandlerGoesOn, HandlerReturns, MayTakeInput
    <3>3. CASE UNCHANGED mainQ
      BY <1>2, <2>2, <3>1, <3>3
    <3>4. ASSUME NEW kind \in {CommandEvents, Inputs, Inputs \ {NoKeys}}, Takes(kind)
          PROVE  ConnectionArrives'
      <4>1. Head(mainQ) \notin Connections
        BY <3>4, KindsAreDisjoint DEF Takes
      <4>2. is = Finally(mainQ', Connections, Told(pc.on))
        BY <1>1, <3>4, <4>1, FinallyIsTaken
      <4> QED
        BY <2>2, <3>1, <4>2 DEF ConnectionArrives, Told
    <3> QED
      BY <3>2, <3>3, <3>4
  <2> QED
    BY <2>3, <2>4
<1>4. CASE Host
  <2>1. pc'.on = pc.on
    BY <1>4 DEF Host, HostConnect, HostReport, HostDisconnect, mainState
  <2>2. CASE HostConnect \/ HostDisconnect
    <3>1. PICK event \in Connections : Enqueue(event) /\ Told(host'.session # "none") = event
      BY <2>2 DEF HostConnect, HostDisconnect, Connections, Told
    <3>2. event \in Event
      BY <3>1 DEF Event
    <3>3. Finally(mainQ', Connections, Told(pc.on)) = event
      BY <3>1, <3>2, FinallyIsPut
    <3> QED
      BY <2>1, <3>1, <3>3 DEF ConnectionArrives, Told
  <2>3. CASE HostReport
    <3> DEFINE event == [type |-> "input", report |-> keyboard.keys]
    <3>1. event \in Inputs /\ Enqueue(event) /\ host'.session = host.session
      BY <2>3 DEF HostReport, Inputs, Inv, KeyboardOK, HostOK
    <3> HIDE DEF event
    <3>2. event \in Event /\ event \notin Connections
      BY <3>1, KindsAreDisjoint DEF Event
    <3>3. Finally(mainQ', Connections, Told(pc.on)) = is
      BY <1>1, <3>1, <3>2, FinallyIsPut
    <3> QED
      BY <2>1, <3>1, <3>3 DEF ConnectionArrives, Told
  <2> QED
    BY <1>4, <2>2, <2>3 DEF Host
<1>5. CASE NotifyCommand
  <2>1. [type |-> "command"] \in Event /\ [type |-> "command"] \notin Connections
    BY DEF Event, Connections, CommandEvents
  <2>2. Finally(mainQ', Connections, Told(pc.on)) = is
    BY <1>1, <1>5, <2>1, FinallyIsPut DEF NotifyCommand
  <2> QED
    BY <1>5, <2>2, NotifyStep DEF ConnectionArrives, Told
<1>6. CASE ~Main /\ ~Host /\ ~NotifyCommand
  <2>1. UNCHANGED mainQ
    BY <1>6, Steps DEF Plug, Unplug, PressKey, ReleaseKey, SendCommand, ReadNumber, PollResult,
       ClientFails, ClientIsStopped, ClientGivesUp
  <2>2. pc'.on = pc.on
    <3>1. PcOK
      BY DEF Inv
    <3> QED
      BY <1>6, <3>1, Steps DEF Plug, Unplug, PressKey, ReleaseKey, SendCommand, ReadNumber,
         PollResult, ClientFails, ClientIsStopped, ClientGivesUp, mainState, PcOK
  <2>3. Told(host.session # "none")' = is
    <3>1. Unplug \/ UNCHANGED host
      BY <1>6, Steps DEF Plug, PressKey, ReleaseKey, SendCommand, ReadNumber,
         PollResult, ClientFails, ClientIsStopped, ClientGivesUp
    <3>2. (host.session # "none")' <=> host.session # "none"
      BY <3>1 DEF Unplug
    <3> QED
      BY <3>2 DEF Told
  <2> QED
    BY <1>2, <2>1, <2>2, <2>3
<1> QED
  BY <1>3, <1>4, <1>5, <1>6

LEMMA ConnectionInvariant == Spec => []ConnectionArrives
<1>1. Inv /\ ConnectionArrives /\ [Next]_vars => ConnectionArrives'
  <2> SUFFICES ASSUME Inv, ConnectionArrives, [Next]_vars PROVE ConnectionArrives'
    OBVIOUS
  <2>1. CASE UNCHANGED vars
    BY <2>1 DEF vars, ConnectionArrives, Told
  <2> QED
    BY <2>1, ConnectionKept
<1> QED
  BY <1>1, ConnectionStarts, TypeInvariant, PTL DEF Spec

\* Once its events are handled the PC sees a keyboard exactly when the host
\* thread has one: no handler, however deeply they are nested, loses a connect
\* or disconnect event or lets the two overtake each other.
THEOREM ConnectionIsRight == Spec => []ConnectionFollowsKeyboard
<1>1. ConnectionArrives => ConnectionFollowsKeyboard
  <2> SUFFICES ASSUME ConnectionArrives, mainQ = <<>>
               PROVE  pc.on <=> host.session # "none"
    BY DEF ConnectionFollowsKeyboard
  <2>1. Told(pc.on) = Told(host.session # "none")
    BY EmptyQueue DEF ConnectionArrives
  <2> QED
    BY <2>1 DEF Told
<1> QED
  BY <1>1, ConnectionInvariant, PTL

-----------------------------------------------------------------------------
(***************************************************************************)
(* The keys: while a command is in progress the PC sees only keys that it  *)
(* saw when a command was started; and when the keyboard's last report has *)
(* no keys, the last event under way takes them from the PC, unless it has *)
(* none or such keys.                                                      *)
(***************************************************************************)
Clearing == Connections \cup {NoKeys}
Held == [type |-> "held"]
KeyEvents == Connections \cup Inputs \cup {Held}
Shown == IF pc.keys = <<>> \/ pc.dirty THEN NoKeys ELSE Held

DirtyWhileCommanded == Commanded(stack) /\ pc.keys # <<>> => pc.dirty

LetGo == host.sent \in {<<>>, NoReport} /\ host.session # "lost"

KeysArrive == LetGo => Finally(mainQ, KeyEvents, Shown) \in Clearing

\* What is received last depends on what came before only if nothing comes.
LEMMA FinallyFrom ==
  ASSUME NEW queue \in Seq(Event), NEW S, NEW C, NEW before, NEW after,
         Finally(queue, S, before) \in C, before \in C => after \in C
  PROVE  Finally(queue, S, after) \in C
<1>1. CASE Positions(queue, S) = {}
  BY <1>1, NothingIsReceived
<1>2. CASE Positions(queue, S) # {}
  <2>1. PICK i \in DOMAIN queue : IsLast(queue, S, i)
    BY <1>2, LastExists
  <2>2. Finally(queue, S, before) = queue[i] /\ Finally(queue, S, after) = queue[i]
    BY <2>1, LastIsReceived
  <2> QED
    BY <2>2
<1> QED
  BY <1>1, <1>2

LEMMA KeysStart == Init => DirtyWhileCommanded /\ KeysArrive
<1> SUFFICES ASSUME Init PROVE DirtyWhileCommanded /\ KeysArrive
  OBVIOUS
<1>1. pc.keys = <<>> /\ mainQ = <<>>
  BY DEF Init
<1>2. Finally(mainQ, KeyEvents, Shown) = Shown
  BY <1>1, EmptyQueue
<1> QED
  BY <1>1, <1>2 DEF DirtyWhileCommanded, KeysArrive, Shown, Clearing

LEMMA DirtyKept ==
  ASSUME Inv, DirtyWhileCommanded, Next
  PROVE  DirtyWhileCommanded'
<1>1. PcOK
  BY DEF Inv
<1>2. CASE Main
  <2>1. Effect
    BY <1>2, MainStep
  <2>2. CASE ConnectionHandled
    BY <2>2 DEF ConnectionHandled, Attach, DirtyWhileCommanded
  <2>3. CASE CommandHandled
    BY <2>3 DEF CommandHandled, DirtyWhileCommanded
  <2>4. CASE CommandStarted
    <3>1. pc'.keys = pc.keys /\ (pc.keys # <<>> => pc'.dirty)
      BY <1>1, <2>4 DEF CommandStarted, PcOK
    <3> QED
      BY <3>1 DEF DirtyWhileCommanded
  <2>5. CASE ReportForwarded
    <3>1. ~Commanded(stack')
      BY <2>5 DEF ReportForwarded, Commanded
    <3> QED
      BY <3>1 DEF DirtyWhileCommanded
  <2>6. CASE ReportDropped
    BY <2>6 DEF ReportDropped, DirtyWhileCommanded
  <2>7. CASE MacroSent
    <3>1. pc'.keys = <<>>
      BY <1>1, <2>7 DEF MacroSent, Show, PcOK
    <3> QED
      BY <3>1 DEF DirtyWhileCommanded
  <2>8. CASE HandlerGoesOn \/ HandlerReturns
    BY <2>8 DEF HandlerGoesOn, HandlerReturns, DirtyWhileCommanded
  <2> QED
    BY <2>1, <2>2, <2>3, <2>4, <2>5, <2>6, <2>7, <2>8 DEF Effect
<1>3. CASE ReadNumber
  <2>1. pc'.keys = pc.keys /\ pc'.dirty = pc.dirty /\ UNCHANGED stack
    BY <1>1, <1>3 DEF ReadNumber, PcOK
  <2> QED
    BY <2>1 DEF DirtyWhileCommanded
<1>4. CASE ~Main /\ ~ReadNumber
  <2>1. UNCHANGED <<pc, stack>>
    BY <1>4, Steps DEF Host, HostConnect, HostReport, HostDisconnect, Plug, Unplug, PressKey,
       ReleaseKey, SendCommand, NotifyCommand, PollResult, ClientFails, ClientIsStopped,
       ClientGivesUp, mainState
  <2> QED
    BY <2>1 DEF DirtyWhileCommanded
<1> QED
  BY <1>2, <1>3, <1>4

\* An event is handled: the PC's keys are clear if that event clears them.
LEMMA HandledKeys ==
  ASSUME Inv, DirtyWhileCommanded, Main, NEW kind, Takes(kind),
         (IF Head(mainQ) \in KeyEvents THEN Head(mainQ) ELSE Shown) \in Clearing
  PROVE  Shown' \in Clearing
<1>1. Effect /\ PcOK /\ PcOK'
  BY MainStep DEF Inv
<1>2. Head(mainQ) \in Inputs => Head(mainQ) = NoKeys
  BY DEF KeyEvents, Clearing, Connections, Inputs
<1>3. ASSUME pc'.keys = <<>> \/ pc'.dirty PROVE Shown' \in Clearing
  BY <1>3 DEF Shown, Clearing
<1>4. CASE ConnectionHandled
  BY <1>3, <1>4 DEF ConnectionHandled, Attach
<1>5. CASE CommandHandled
  <2>1. Head(mainQ) \notin KeyEvents
    BY <1>5 DEF CommandHandled, Takes, CommandEvents, KeyEvents, Connections, Inputs, Held
  <2> QED
    BY <1>5, <2>1 DEF CommandHandled, Shown
<1>6. CASE CommandStarted
  <2>1. pc'.keys = pc.keys /\ (pc.keys # <<>> => pc'.dirty)
    BY <1>1, <1>6 DEF CommandStarted, PcOK
  <2> QED
    BY <1>3, <2>1
<1>7. CASE ReportForwarded
  <2>1. Head(mainQ).report = <<>>
    BY <1>2, <1>7 DEF ReportForwarded, Takes, NoKeys
  <2>2. Modify(Head(mainQ).report) = <<>>
    BY <2>1, EmptyReport, ModifyReport DEF Inv
  <2>3. pc'.keys = <<>>
    BY <1>1, <1>7, <2>2 DEF ReportForwarded, Show, PcOK
  <2> QED
    BY <1>3, <2>3
<1>8. CASE ReportDropped
  BY <1>2, <1>8 DEF ReportDropped, Takes
<1>9. CASE MacroSent
  <2>1. pc'.keys = <<>>
    BY <1>1, <1>9 DEF MacroSent, Show, PcOK
  <2> QED
    BY <1>3, <2>1
<1>10. CASE HandlerGoesOn \/ HandlerReturns
  <2>1. Commanded(stack) /\ UNCHANGED pc
    BY <1>10 DEF HandlerGoesOn, HandlerReturns
  <2> QED
    BY <1>3, <2>1 DEF DirtyWhileCommanded
<1> QED
  BY <1>1, <1>4, <1>5, <1>6, <1>7, <1>8, <1>9, <1>10 DEF Effect

LEMMA KeysKept ==
  ASSUME Inv, DirtyWhileCommanded, KeysArrive, Next
  PROVE  KeysArrive'
<1>1. mainQ \in Seq(Event) /\ mainQ' \in Seq(Event)
  BY NextIsTyped DEF Inv, QueueOK
<1>2. ASSUME UNCHANGED mainQ, Shown \in Clearing => Shown' \in Clearing, LetGo' => LetGo
      PROVE  KeysArrive'
  <2> SUFFICES ASSUME LetGo' PROVE Finally(mainQ', KeyEvents, Shown') \in Clearing
    BY DEF KeysArrive
  <2>1. Finally(mainQ, KeyEvents, Shown) \in Clearing
    BY <1>2 DEF KeysArrive
  <2>2. Finally(mainQ, KeyEvents, Shown') \in Clearing
    BY <1>1, <1>2, <2>1, FinallyFrom
  <2> QED
    BY <1>2, <2>2
<1>3. CASE Main
  <2>1. Effect /\ UNCHANGED host
    BY <1>3, MainStep DEF world
  <2>2. LetGo' => LetGo
    BY <2>1 DEF LetGo
  <2>3. CASE UNCHANGED mainQ
    <3>1. mainQ # <<>> => Tail(mainQ) # mainQ
      BY <1>1, HeadTailProperties, LenProperties
    <3>2. Commanded(stack) /\ UNCHANGED pc
      BY <2>1, <2>3, <3>1 DEF Effect, ConnectionHandled, CommandHandled, CommandStarted,
         ReportForwarded, ReportDropped, MacroSent, HandlerGoesOn, HandlerReturns, Takes
    <3> QED
      BY <1>2, <2>2, <2>3, <3>2 DEF Shown
  <2>4. ASSUME NEW kind, Takes(kind) PROVE KeysArrive'
    <3> SUFFICES ASSUME LetGo' PROVE Finally(mainQ', KeyEvents, Shown') \in Clearing
      BY DEF KeysArrive
    <3> DEFINE now == IF Head(mainQ) \in KeyEvents THEN Head(mainQ) ELSE Shown
    <3>1. Finally(mainQ, KeyEvents, Shown) \in Clearing
      BY <2>2 DEF KeysArrive
    <3>2. Finally(mainQ', KeyEvents, now) \in Clearing
      BY <2>4, <3>1, FinallyIsTaken
    <3>3. now \in Clearing => Shown' \in Clearing
      BY <1>3, <2>4, HandledKeys
    <3> HIDE DEF now
    <3> DEFINE queue == mainQ'
               then == Shown'
    <3>4. /\ queue \in Seq(Event) /\ Finally(queue, KeyEvents, now) \in Clearing
          /\ now \in Clearing => then \in Clearing
      BY <1>1, <3>2, <3>3
    <3> HIDE DEF queue, then
    <3>5. Finally(queue, KeyEvents, then) \in Clearing
      BY <3>4, FinallyFrom
    <3> QED
      BY <3>5 DEF queue, then
  <2>5. UNCHANGED mainQ \/ \E kind : Takes(kind)
    BY <2>1 DEF Effect, ConnectionHandled, CommandHandled, CommandStarted, ReportForwarded,
       ReportDropped, MacroSent, HandlerGoesOn, HandlerReturns, MayTakeInput
  <2> QED
    BY <2>3, <2>4, <2>5
<1>4. ASSUME NEW event \in Event, Enqueue(event), UNCHANGED pc,
             event \in KeyEvents => (LetGo' => event \in Clearing),
             event \notin KeyEvents => (LetGo' => LetGo)
      PROVE  KeysArrive'
  <2> SUFFICES ASSUME LetGo' PROVE Finally(mainQ', KeyEvents, Shown') \in Clearing
    BY DEF KeysArrive
  <2>1. Shown' = Shown
    BY <1>4 DEF Shown
  <2>2. Finally(mainQ', KeyEvents, Shown) =
          IF event \in KeyEvents THEN event ELSE Finally(mainQ, KeyEvents, Shown)
    BY <1>4, FinallyIsPut
  <2>3. Finally(mainQ', KeyEvents, Shown) \in Clearing
    BY <1>4, <2>2 DEF KeysArrive
  <2> QED
    BY <2>1, <2>3
<1>5. CASE Host
  <2>1. UNCHANGED pc
    BY <1>5 DEF Host, HostConnect, HostReport, HostDisconnect, mainState
  <2>2. CASE HostConnect \/ HostDisconnect
    <3>1. PICK event \in Connections : Enqueue(event)
      BY <2>2 DEF HostConnect, HostDisconnect, Connections
    <3>2. event \in Event /\ event \in Clearing /\ event \in KeyEvents
      BY <3>1 DEF Event, Clearing, KeyEvents
    <3> QED
      BY <1>4, <2>1, <3>1, <3>2
  <2>3. CASE HostReport
    <3> DEFINE event == [type |-> "input", report |-> keyboard.keys]
    <3>1. event \in Inputs /\ Enqueue(event) /\ host'.sent = keyboard.keys
          /\ keyboard.keys \in Report
      BY <2>3 DEF HostReport, Inputs, Inv, KeyboardOK, HostOK
    <3>2. LetGo' => keyboard.keys \in {<<>>, NoReport}
      BY <3>1 DEF LetGo
    <3>3. LetGo' => event \in Clearing
      <4>1. keyboard.keys # NoReport
        BY <3>1, NoReportIsNone
      <4> QED
        BY <3>2, <4>1 DEF Clearing, NoKeys
    <3> HIDE DEF event
    <3>4. event \in Event /\ event \in KeyEvents
      BY <3>1 DEF Event, KeyEvents
    <3> QED
      BY <1>4, <2>1, <3>1, <3>3, <3>4
  <2> QED
    BY <1>5, <2>2, <2>3 DEF Host
<1>6. CASE NotifyCommand
  <2>1. [type |-> "command"] \in Event /\ [type |-> "command"] \notin KeyEvents
    BY DEF Event, CommandEvents, KeyEvents, Connections, Inputs, Held
  <2>2. UNCHANGED <<pc, host>> /\ Enqueue([type |-> "command"])
    BY <1>6, NotifyStep DEF NotifyCommand
  <2>3. LetGo' => LetGo
    BY <2>2 DEF LetGo
  <2> QED
    BY <1>4, <2>1, <2>2, <2>3
<1>7. CASE ~Main /\ ~Host /\ ~NotifyCommand
  <2>1. UNCHANGED mainQ
    BY <1>7, Steps DEF Plug, Unplug, PressKey, ReleaseKey, SendCommand, ReadNumber, PollResult,
       ClientFails, ClientIsStopped, ClientGivesUp
  <2>2. pc'.keys = pc.keys /\ pc'.dirty = pc.dirty
    <3>1. PcOK
      BY DEF Inv
    <3> QED
      BY <1>7, <3>1, Steps DEF Plug, Unplug, PressKey, ReleaseKey, SendCommand, ReadNumber,
         PollResult, ClientFails, ClientIsStopped, ClientGivesUp, mainState, PcOK
  <2>3. Shown' = Shown
    BY <2>2 DEF Shown
  <2>4. Unplug \/ UNCHANGED host
    BY <1>7, Steps DEF Plug, PressKey, ReleaseKey, SendCommand, ReadNumber,
       PollResult, ClientFails, ClientIsStopped, ClientGivesUp
  <2>5. LetGo' => LetGo
    BY <2>4 DEF Unplug, LetGo
  <2> QED
    BY <1>2, <2>1, <2>3, <2>5
<1> QED
  BY <1>3, <1>5, <1>6, <1>7

LEMMA KeysInvariant == Spec => [](DirtyWhileCommanded /\ KeysArrive)
<1>1. Inv /\ DirtyWhileCommanded /\ KeysArrive /\ [Next]_vars
        => (DirtyWhileCommanded /\ KeysArrive)'
  <2> SUFFICES ASSUME Inv, DirtyWhileCommanded, KeysArrive, [Next]_vars
               PROVE  DirtyWhileCommanded' /\ KeysArrive'
    OBVIOUS
  <2>1. CASE UNCHANGED vars
    BY <2>1 DEF vars, DirtyWhileCommanded, KeysArrive, LetGo, Shown
  <2> QED
    BY <2>1, DirtyKept, KeysKept
<1> QED
  BY <1>1, KeysStart, TypeInvariant, PTL DEF Spec

\* Once the user has let go of all keys the PC sees none held: whatever was
\* remapped meanwhile, whichever macro ran, whether or not the keyboard was
\* pulled out.  Excepted are keys that the PC saw held when a command was
\* started: the command takes the report of their release for itself.
THEOREM KeysAreReleased == Spec => []NoStuckKey
<1>1. DirtyWhileCommanded /\ KeysArrive => NoStuckKey
  <2> SUFFICES ASSUME KeysArrive, Quiet, ~pc.dirty PROVE pc.keys = <<>>
    BY DEF NoStuckKey
  <2>1. LetGo /\ mainQ = <<>>
    BY DEF Quiet, LetGo
  <2>2. Shown \in Clearing
    BY <2>1, EmptyQueue DEF KeysArrive
  <2> QED
    BY <2>2 DEF Shown, Clearing, Connections, NoKeys, Held
<1> QED
  BY <1>1, KeysInvariant, PTL

-----------------------------------------------------------------------------
(***************************************************************************)
(* The commands that are pending: one whose event is to be sent, those     *)
(* whose events are under way, those whose handlers are in progress.  Only *)
(* the command of a client that waits adds one; the others are those of    *)
(* clients that gave up.  A message "completed" takes one away: with the   *)
(* number of the client's command it leaves only the others.               *)
(***************************************************************************)
UnderWay == Count(mainQ, CommandEvents) + (IF notify THEN 1 ELSE 0)
Pending == UnderWay + Handlers(stack)

PendingBound ==
  /\ client.state # "waiting" => Pending <= counts.abandoned
  /\ client.state = "waiting" => Pending <= counts.abandoned + 1
  /\ client.state = "waiting" /\ toClient.status = "completed"
       /\ toClient.seq = client.sent.seq => Pending <= counts.abandoned
  /\ client.state = "opened" /\ toClient.status = "completed"
       /\ toClient.seq = (client.sent.seq + 1) % 256 => Pending + 1 <= counts.abandoned

LEMMA HandlersIsNat ==
  ASSUME NEW frames \in Seq(Frames)
  PROVE  Handlers(frames) \in Nat
<1>1. Len(frames) \in Nat /\ (frames # <<>> => Len(frames) - 1 \in Nat)
  BY LenProperties, EmptySeq
<1> QED
  BY <1>1 DEF Handlers

LEMMA PendingIsNat ==
  ASSUME Inv
  PROVE  /\ Count(mainQ, CommandEvents) \in Nat /\ Handlers(stack) \in Nat
         /\ UnderWay \in Nat /\ Pending \in Nat /\ counts.abandoned \in Nat
<1>1. Count(mainQ, CommandEvents) \in Nat
  BY CountIsNat DEF Inv, QueueOK
<1>2. Handlers(stack) \in Nat
  BY HandlersIsNat DEF Inv, StackOK
<1>3. counts.abandoned \in Nat
  BY DEF Inv, CountsOK
<1> QED
  BY <1>1, <1>2, <1>3 DEF UnderWay, Pending

LEMMA CommandTaken ==
  ASSUME Inv, NEW kind, Takes(kind)
  PROVE  Count(mainQ', CommandEvents) =
           IF Head(mainQ) \in CommandEvents THEN Count(mainQ, CommandEvents) - 1
           ELSE Count(mainQ, CommandEvents)
<1>1. mainQ \in Seq(Event) /\ mainQ # <<>> /\ mainQ' = Tail(mainQ)
  BY DEF Inv, QueueOK, Takes
<1> DEFINE rest == Tail(mainQ)
<1>2. Count(rest, CommandEvents) =
        IF Head(mainQ) \in CommandEvents THEN Count(mainQ, CommandEvents) - 1
        ELSE Count(mainQ, CommandEvents)
  BY <1>1, CountAfterGet
<1>3. mainQ' = rest
  BY <1>1
<1> HIDE DEF rest
<1> QED
  BY <1>2, <1>3

LEMMA EventPut ==
  ASSUME Inv, NEW event \in Event, Enqueue(event)
  PROVE  Count(mainQ', CommandEvents) =
           IF event \in CommandEvents THEN Count(mainQ, CommandEvents) + 1
           ELSE Count(mainQ, CommandEvents)
<1>1. mainQ \in Seq(Event)
  BY DEF Inv, QueueOK
<1> DEFINE longer == Append(mainQ, event)
<1>2. Count(longer, CommandEvents) =
        IF event \in CommandEvents THEN Count(mainQ, CommandEvents) + 1
        ELSE Count(mainQ, CommandEvents)
  BY <1>1, CountAfterPut
<1>3. mainQ' = longer
  BY EnqueueIsTyped
<1> HIDE DEF longer
<1> QED
  BY <1>2, <1>3

\* What a step of the main thread does to the commands.
LEMMA MainCounts ==
  ASSUME Inv, Main
  PROVE  /\ UNCHANGED <<client, fromClient, counts, notify>>
         /\ \/ Pending' = Pending /\ (UNCHANGED toClient \/ toClient'.status = "running")
            \/ Pending' = Pending - 1
         /\ \/ UnderWay' = UnderWay /\ UNCHANGED runs
            \/ UnderWay' = UnderWay - 1 /\ Starts
         /\ UnderWay' \in Nat
<1>1. Inv' /\ Effect /\ UNCHANGED world
  BY MainStep
<1>2. UNCHANGED <<client, fromClient, counts, notify>>
  BY <1>1 DEF world
<1> DEFINE C == Count(mainQ, CommandEvents)
           N == IF notify THEN 1 ELSE 0
           H == Handlers(stack)
<1>3. C \in Nat /\ H \in Nat /\ H' \in Nat /\ N \in Nat /\ N' = N
  <2>1. stack' \in Seq(Frames)
    BY <1>1 DEF Inv, StackOK
  <2>2. H' \in Nat
    BY <2>1, HandlersIsNat
  <2> QED
    BY <1>2, <2>2, PendingIsNat
<1>4. UnderWay = C + N /\ UnderWay' = C' + N'
  BY DEF UnderWay
<1>5. Pending = UnderWay + H /\ Pending' = UnderWay' + H'
  BY DEF Pending
<1> DEFINE queue == mainQ'
<1>6. UnderWay' \in Nat
  <2>1. queue \in Seq(Event)
    BY <1>1 DEF Inv, QueueOK
  <2> HIDE DEF queue
  <2>2. Count(queue, CommandEvents) \in Nat
    BY <2>1, CountIsNat
  <2> USE DEF queue
  <2>3. C' \in Nat
    BY <2>2
  <2> QED
    BY <1>3, <1>4, <2>3
<1> HIDE DEF queue
<1>7. ASSUME Takes(CommandEvents) PROVE C' = C - 1
  BY <1>7, CommandTaken DEF Takes
<1>8. ASSUME Takes(Connections) \/ MayTakeInput \/ Takes(Inputs \ {NoKeys})
      PROVE  C' = C
  <2>1. CASE UNCHANGED mainQ
    BY <2>1
  <2>2. ASSUME NEW kind \in {Connections, Inputs, Inputs \ {NoKeys}}, Takes(kind)
        PROVE  C' = C
    <3>1. Head(mainQ) \notin CommandEvents
      BY <2>2, KindsAreDisjoint DEF Takes
    <3> QED
      BY <2>2, <3>1, CommandTaken
  <2> QED
    BY <1>8, <2>1, <2>2 DEF MayTakeInput
<1>9. CASE CommandHandled
  <2>1. C' = C - 1 /\ H' = H /\ Starts
    BY <1>7, <1>9 DEF CommandHandled
  <2> HIDE DEF C, H, N
  <2>2. UnderWay' = UnderWay - 1 /\ Pending' = Pending - 1
    BY <1>3, <1>4, <1>5, <2>1
  <2> QED
    BY <1>2, <1>6, <2>1, <2>2
<1>10. CASE CommandStarted
  <2>1. C' = C - 1 /\ H' = H + 1 /\ Starts /\ toClient'.status = "running"
    BY <1>7, <1>10 DEF CommandStarted
  <2> HIDE DEF C, H, N
  <2>2. UnderWay' = UnderWay - 1 /\ Pending' = Pending
    BY <1>3, <1>4, <1>5, <2>1
  <2> QED
    BY <1>2, <1>6, <2>1, <2>2
<1>11. CASE ConnectionHandled \/ ReportForwarded \/ ReportDropped \/ MacroSent \/ HandlerGoesOn
  <2>1. C' = C
    BY <1>8, <1>11 DEF ConnectionHandled, ReportForwarded, ReportDropped, MacroSent, HandlerGoesOn,
       MayTakeInput
  <2>2. H' = H /\ UNCHANGED runs
    BY <1>11 DEF ConnectionHandled, ReportForwarded, ReportDropped, MacroSent, HandlerGoesOn
  <2>3. UNCHANGED toClient \/ toClient'.status = "running"
    BY <1>11 DEF ConnectionHandled, ReportForwarded, ReportDropped, MacroSent, HandlerGoesOn
  <2> HIDE DEF C, H, N
  <2>4. UnderWay' = UnderWay /\ Pending' = Pending
    BY <1>3, <1>4, <1>5, <2>1, <2>2
  <2> QED
    BY <1>2, <1>6, <2>2, <2>3, <2>4
<1>12. CASE HandlerReturns
  <2>1. C' = C /\ H = H' + 1 /\ UNCHANGED runs
    BY <1>8, <1>12 DEF HandlerReturns
  <2> HIDE DEF C, H, N
  <2>2. UnderWay' = UnderWay /\ Pending' = Pending - 1
    BY <1>3, <1>4, <1>5, <2>1
  <2> QED
    BY <1>2, <1>6, <2>1, <2>2
<1> QED
  BY <1>1, <1>9, <1>10, <1>11, <1>12, <1>6 DEF Effect

\* notify_recv_command_to_main() moves a command into the queue, the host
\* thread puts none into it.
LEMMA EventsCount ==
  ASSUME Inv, NotifyCommand \/ Host
  PROVE  /\ UnderWay' = UnderWay /\ Pending' = Pending
         /\ UNCHANGED <<client, fromClient, toClient, counts, runs>>
<1> DEFINE C == Count(mainQ, CommandEvents)
           N == IF notify THEN 1 ELSE 0
<1>1. /\ UNCHANGED <<client, fromClient, counts, runs>> /\ UNCHANGED mainState
  BY DEF NotifyCommand, Host, HostConnect, HostReport, HostDisconnect
<1>2. UNCHANGED <<toClient, stack>>
  BY <1>1 DEF mainState
<1>3. UnderWay = C + N /\ UnderWay' = C' + N' /\ C \in Nat
  BY PendingIsNat DEF UnderWay
<1>4. C' + N' = C + N
  <2>1. CASE NotifyCommand
    <3>1. [type |-> "command"] \in Event /\ [type |-> "command"] \in CommandEvents
      BY DEF Event, CommandEvents
    <3>2. C' = C + 1
      BY <2>1, <3>1, EventPut DEF NotifyCommand
    <3>3. N = 1 /\ N' = 0
      BY <2>1 DEF NotifyCommand
    <3> HIDE DEF C, N
    <3> QED
      BY <1>3, <3>2, <3>3
  <2>2. CASE Host
    <3>1. PICK event \in Connections \cup Inputs : Enqueue(event)
      <4>1. CASE HostConnect
        BY <4>1 DEF HostConnect, Connections
      <4>2. CASE HostReport
        <5>1. [type |-> "input", report |-> keyboard.keys] \in Inputs
          BY DEF Inputs, Inv, KeyboardOK
        <5> QED
          BY <4>2, <5>1 DEF HostReport
      <4>3. CASE HostDisconnect
        BY <4>3 DEF HostDisconnect, Connections
      <4> QED
        BY <2>2, <4>1, <4>2, <4>3 DEF Host
    <3>2. event \in Event /\ event \notin CommandEvents
      BY <3>1, KindsAreDisjoint DEF Event
    <3>3. C' = C
      BY <3>1, <3>2, EventPut
    <3>4. N' = N
      BY <2>2 DEF Host, HostConnect, HostReport, HostDisconnect
    <3> QED
      BY <3>3, <3>4
  <2> QED
    BY <2>1, <2>2
<1>5. UnderWay' = UnderWay
  BY <1>3, <1>4
<1>6. Pending' = Pending
  BY <1>2, <1>5 DEF Pending
<1> QED
  BY <1>1, <1>2, <1>5, <1>6

\* Nothing else changes the commands that are pending but the command that a
\* client sends.
LEMMA RestCounts ==
  ASSUME Inv, UNCHANGED <<mainQ, notify, stack>>
  PROVE  UnderWay' = UnderWay /\ Pending' = Pending
BY DEF UnderWay, Pending

LEMMA SendCounts ==
  ASSUME Inv, NEW c \in Commands, NEW n \in Macros, SendCommand(c, n)
  PROVE  UnderWay' = UnderWay + 1 /\ Pending' = Pending + 1
<1>1. ~notify /\ notify' /\ UNCHANGED <<mainQ, stack>>
  BY SendStep
<1>2. Count(mainQ, CommandEvents) \in Nat /\ Handlers(stack) \in Nat
  BY PendingIsNat
<1>3. UnderWay = Count(mainQ, CommandEvents) /\ UnderWay' = Count(mainQ, CommandEvents) + 1
  BY <1>1, <1>2 DEF UnderWay
<1>4. Pending' = UnderWay' + Handlers(stack)
  BY <1>1 DEF Pending
<1> QED
  BY <1>2, <1>3, <1>4 DEF Pending
\* The user leaves commands and clients alone.
LEMMA UserCounts ==
  ASSUME Inv, Plug \/ Unplug \/ \E k \in Keys : PressKey(k) \/ ReleaseKey(k)
  PROVE  /\ UnderWay' = UnderWay /\ Pending' = Pending
         /\ UNCHANGED <<client, fromClient, toClient, runs>>
         /\ counts'.abandoned = counts.abandoned
<1>1. /\ UNCHANGED mainState /\ UNCHANGED <<mainQ, notify, client, fromClient, runs>>
  BY DEF Plug, Unplug, PressKey, ReleaseKey
<1>2. UNCHANGED <<toClient, stack>>
  BY <1>1 DEF mainState
<1>3. counts'.abandoned = counts.abandoned
  BY DEF Plug, Unplug, PressKey, ReleaseKey, Inv, CountsOK
<1> QED
  BY <1>1, <1>2, <1>3, RestCounts

\* do_command() of a client reads the number of the last command, finds its
\* own completed, or is given up.
LEMMA ClientCounts ==
  ASSUME Inv, ReadNumber \/ PollResult \/ ClientFails \/ ClientIsStopped
  PROVE  /\ UnderWay' = UnderWay /\ Pending' = Pending /\ UNCHANGED <<fromClient, toClient>>
         /\ \/ /\ client.state \notin {"opened", "waiting"} /\ client'.state = "opened"
               /\ client'.sent.seq = toClient.seq /\ runs' = 0
               /\ counts'.abandoned = counts.abandoned
            \/ /\ client.state = "waiting" /\ client'.state = "done"
               /\ client'.sent = client.sent /\ runs' = runs
               /\ toClient.seq = client.sent.seq /\ toClient.status = "completed"
               /\ counts'.abandoned = counts.abandoned
            \/ /\ client.state = "opened" /\ client'.state = "failed" /\ runs' = 0
               /\ counts'.abandoned = counts.abandoned
            \/ /\ client.state = "waiting" /\ client'.state = "failed" /\ runs' = 0
               /\ counts'.abandoned = counts.abandoned + 1
<1>1. /\ UNCHANGED <<toClient, stack>> /\ UNCHANGED fromClient /\ UNCHANGED <<mainQ, notify>>
  BY DEF ReadNumber, PollResult, ClientFails, ClientIsStopped, ClientGivesUp, mainState
<1>2. UnderWay' = UnderWay /\ Pending' = Pending
  BY <1>1, RestCounts
<1>3. counts \in [presses : Nat, unplugs : Nat, commands : Nat, abandoned : Nat]
      /\ client \in [state : {"idle", "opened", "waiting", "done", "failed"}, sent : Command]
  BY DEF Inv, CountsOK, ClientOK
<1>4. CASE ReadNumber
  <2>1. /\ client.state \notin {"opened", "waiting"} /\ runs' = 0
        /\ client' = [state |-> "opened", sent |-> [NoCommand EXCEPT !.seq = toClient.seq]]
        /\ counts' = [counts EXCEPT !.commands = @ + 1]
    BY <1>4 DEF ReadNumber
  <2>2. client'.state = "opened" /\ client'.sent.seq = toClient.seq
    BY <2>1 DEF NoCommand
  <2>3. counts'.abandoned = counts.abandoned
    BY <1>3, <2>1
  <2> QED
    BY <1>1, <1>2, <2>1, <2>2, <2>3
<1>5. CASE PollResult
  <2>1. /\ client.state = "waiting" /\ client' = [client EXCEPT !.state = "done"]
        /\ runs' = runs /\ counts' = counts
        /\ toClient = [seq |-> client.sent.seq, command |-> client.sent.command,
                       status |-> "completed"]
    BY <1>5 DEF PollResult, Waits
  <2>2. client'.state = "done" /\ client'.sent = client.sent
    BY <1>3, <2>1
  <2>3. toClient.seq = client.sent.seq /\ toClient.status = "completed"
    BY <2>1
  <2> QED
    BY <1>1, <1>2, <2>1, <2>2, <2>3
<1>6. CASE ClientGivesUp
  <2>1. /\ client.state \in {"opened", "waiting"} /\ client'.state = "failed" /\ runs' = 0
    BY <1>6 DEF ClientGivesUp
  <2>2. CASE client.state = "waiting"
    <3>1. counts'.abandoned = counts.abandoned + 1
      BY <1>3, <1>6, <2>2 DEF ClientGivesUp, Waits
    <3> QED
      BY <1>1, <1>2, <2>1, <2>2, <3>1
  <2>3. CASE client.state = "opened"
    <3>1. counts'.abandoned = counts.abandoned
      BY <1>3, <1>6, <2>3 DEF ClientGivesUp, Waits
    <3> QED
      BY <1>1, <1>2, <2>1, <2>3, <3>1
  <2> QED
    BY <2>1, <2>2, <2>3
<1> QED
  BY <1>4, <1>5, <1>6 DEF ClientFails, ClientIsStopped

\* The next number is another one.
LEMMA NextNumber ==
  ASSUME NEW n \in 0 .. 255
  PROVE  (n + 1) % 256 # n
OBVIOUS

\* Nothing is under way for long without being pending.
LEMMA PendingParts ==
  ASSUME Inv
  PROVE  UnderWay <= Pending /\ Handlers(stack) <= Pending
<1>1. UnderWay \in Nat /\ Handlers(stack) \in Nat
  BY PendingIsNat
<1> QED
  BY <1>1 DEF Pending

LEMMA PendingStarts == Init => PendingBound
<1> SUFFICES ASSUME Init PROVE PendingBound
  OBVIOUS
<1>1. mainQ = <<>> /\ notify = FALSE /\ stack = <<>> /\ client.state = "idle"
      /\ counts.abandoned = 0
  BY DEF Init
<1>2. Count(mainQ, CommandEvents) = 0
  <2>1. Positions(<<>>, CommandEvents) = {}
    BY EmptyQueue
  <2> QED
    BY <1>1, <2>1, FS_EmptySet DEF Count
<1>3. Handlers(stack) = 0
  BY <1>1 DEF Handlers
<1>4. Pending = 0
  BY <1>1, <1>2, <1>3 DEF Pending, UnderWay
<1> QED
  BY <1>1, <1>4 DEF PendingBound

LEMMA PendingKept ==
  ASSUME Inv, PendingBound, Next
  PROVE  PendingBound'
<1> DEFINE P == Pending
           A == counts.abandoned
<1>1. P \in Nat /\ A \in Nat
  BY PendingIsNat
<1>2. /\ client.state # "waiting" => P <= A
      /\ client.state = "waiting" => P <= A + 1
      /\ client.state = "waiting" /\ toClient.status = "completed"
           /\ toClient.seq = client.sent.seq => P <= A
      /\ client.state = "opened" /\ toClient.status = "completed"
           /\ toClient.seq = (client.sent.seq + 1) % 256 => P + 1 <= A
  BY DEF PendingBound
<1>3. ASSUME /\ client'.state # "waiting" => P' <= A'
             /\ client'.state = "waiting" => P' <= A' + 1
             /\ client'.state = "waiting" /\ toClient'.status = "completed"
                  /\ toClient'.seq = client'.sent.seq => P' <= A'
             /\ client'.state = "opened" /\ toClient'.status = "completed"
                  /\ toClient'.seq = (client'.sent.seq + 1) % 256 => P' + 1 <= A'
      PROVE  PendingBound'
  BY <1>3 DEF PendingBound
<1> HIDE DEF P, A
<1>4. ASSUME P' = P, A' = A, UNCHANGED client,
             UNCHANGED toClient \/ toClient'.status = "running"
      PROVE  PendingBound'
  BY <1>1, <1>2, <1>3, <1>4
<1>5. CASE Main
  <2>1. /\ UNCHANGED client /\ A' = A
        /\ \/ P' = P /\ (UNCHANGED toClient \/ toClient'.status = "running")
           \/ P' = P - 1
    BY <1>5, MainCounts DEF P, A
  <2>2. CASE P' = P - 1
    BY <1>1, <1>2, <1>3, <2>1, <2>2
  <2> QED
    BY <1>4, <2>1, <2>2
<1>6. CASE NotifyCommand \/ Host
  BY <1>4, <1>6, EventsCount DEF P, A
<1>7. CASE Plug \/ Unplug \/ \E k \in Keys : PressKey(k) \/ ReleaseKey(k)
  BY <1>4, <1>7, UserCounts DEF P, A
<1>8. ASSUME NEW c \in Commands, NEW n \in Macros, SendCommand(c, n) PROVE PendingBound'
  <2>1. P' = P + 1
    BY <1>8, SendCounts DEF P
  <2>2. /\ client.state = "opened" /\ client'.state = "waiting" /\ A' = A
        /\ client'.sent.seq = (client.sent.seq + 1) % 256 /\ UNCHANGED toClient
    BY <1>8, SendStep DEF A
  <2> QED
    BY <1>1, <1>2, <1>3, <2>1, <2>2
<1>9. CASE ReadNumber \/ PollResult \/ ClientFails \/ ClientIsStopped
  <2>1. toClient.seq \in 0 .. 255
    BY DEF Inv, MessagesOK
  <2>2. (toClient.seq + 1) % 256 # toClient.seq
    BY <2>1, NextNumber
  <2>3. /\ P' = P /\ UNCHANGED toClient
        /\ \/ /\ client.state \notin {"opened", "waiting"} /\ client'.state = "opened"
              /\ client'.sent.seq = toClient.seq /\ A' = A
           \/ /\ client.state = "waiting" /\ client'.state = "done" /\ A' = A
              /\ toClient.seq = client.sent.seq /\ toClient.status = "completed"
           \/ client.state = "opened" /\ client'.state = "failed" /\ A' = A
           \/ client.state = "waiting" /\ client'.state = "failed" /\ A' = A + 1
    BY <1>9, ClientCounts DEF P, A
  <2> QED
    BY <1>1, <1>2, <1>3, <2>2, <2>3
<1> QED
  BY <1>5, <1>6, <1>7, <1>8, <1>9, Steps

LEMMA PendingInvariant == Spec => []PendingBound
<1>1. Inv /\ PendingBound /\ [Next]_vars => PendingBound'
  <2> SUFFICES ASSUME Inv, PendingBound, [Next]_vars PROVE PendingBound'
    OBVIOUS
  <2>1. CASE UNCHANGED vars
    BY <2>1 DEF vars, PendingBound, Pending, UnderWay
  <2> QED
    BY <2>1, PendingKept
<1> QED
  BY <1>1, PendingStarts, TypeInvariant, PTL DEF Spec

\* Every handler in progress holds a piece of the main thread's stack; there
\* is at most one for a macro that waits for its start, one for the current
\* command and one for each command whose client gave up.
THEOREM NestingIsBounded == Spec => []BoundedNesting
<1>1. Inv /\ PendingBound => BoundedNesting
  <2> SUFFICES ASSUME Inv, PendingBound PROVE Len(stack) <= 2 + counts.abandoned
    BY DEF BoundedNesting
  <2>1. Pending <= counts.abandoned + 1
    BY PendingIsNat DEF PendingBound
  <2>2. stack \in Seq(Frames)
    BY DEF Inv, StackOK
  <2>3. Len(stack) \in Nat /\ Len(stack) <= Handlers(stack) + 1
    BY <2>2, LenProperties DEF Handlers
  <2> QED
    BY <2>1, <2>3, PendingIsNat, PendingParts
<1> QED
  BY <1>1, PendingInvariant, TypeInvariant, PTL

-----------------------------------------------------------------------------
(***************************************************************************)
(* The client's command stays in the mailbox and is under way until it was *)
(* started; as long as no client gave up there is no other that could be   *)
(* taken for it.                                                           *)
(***************************************************************************)
RunsCounted ==
  /\ client.state \in {"waiting", "done"} => fromClient = client.sent
  /\ client.state \in {"waiting", "done"} /\ runs = 0 => UnderWay > 0
  /\ counts.abandoned = 0 =>
       /\ client.state \in {"idle", "opened", "failed"} => runs = 0
       /\ client.state = "waiting" => runs + UnderWay = 1
       /\ client.state = "done" => runs = 1

LEMMA RunsStart == Init => RunsCounted
BY DEF Init, RunsCounted

LEMMA RunsKept ==
  ASSUME Inv, PendingBound, RunsCounted, Next
  PROVE  RunsCounted'
<1> DEFINE U == UnderWay
           A == counts.abandoned
<1>1. U \in Nat /\ A \in Nat /\ runs \in Nat
  BY PendingIsNat DEF Inv, CountsOK
<1>2. /\ client.state # "waiting" => U <= A
      /\ client.state = "waiting" /\ toClient.status = "completed"
           /\ toClient.seq = client.sent.seq => U <= A
  BY PendingIsNat, PendingParts DEF PendingBound
<1>3. client.state \in {"idle", "opened", "waiting", "done", "failed"}
  BY DEF Inv, ClientOK
<1>4. /\ client.state \in {"waiting", "done"} => fromClient = client.sent
      /\ client.state \in {"waiting", "done"} /\ runs = 0 => U > 0
      /\ A = 0 /\ client.state \in {"idle", "opened", "failed"} => runs = 0
      /\ A = 0 /\ client.state = "waiting" => runs + U = 1
      /\ A = 0 /\ client.state = "done" => runs = 1
  BY DEF RunsCounted
<1>5. ASSUME /\ client'.state \in {"waiting", "done"} => fromClient' = client'.sent
             /\ client'.state \in {"waiting", "done"} /\ runs' = 0 => U' > 0
             /\ A' = 0 /\ client'.state \in {"idle", "opened", "failed"} => runs' = 0
             /\ A' = 0 /\ client'.state = "waiting" => runs' + U' = 1
             /\ A' = 0 /\ client'.state = "done" => runs' = 1
      PROVE  RunsCounted'
  BY <1>5 DEF RunsCounted
<1> HIDE DEF U, A
<1>6. ASSUME U' = U, A' = A, UNCHANGED client, UNCHANGED fromClient, UNCHANGED runs
      PROVE  RunsCounted'
  BY <1>1, <1>4, <1>5, <1>6
<1>7. CASE Main
  <2>1. /\ UNCHANGED client /\ UNCHANGED fromClient /\ A' = A /\ U' \in Nat
        /\ \/ U' = U /\ UNCHANGED runs
           \/ U' = U - 1 /\ Starts
    BY <1>7, MainCounts DEF U, A
  <2>2. CASE U' = U - 1 /\ Starts
    <3>1. U >= 1
      BY <1>1, <2>1, <2>2
    <3>2. CASE client.state \in {"waiting", "done"}
      <4>1. runs' = runs + 1
        BY <1>4, <2>2, <3>2 DEF Starts
      <4>2. A = 0 => client.state = "waiting"
        BY <1>1, <1>2, <3>1, <3>2
      <4> QED
        BY <1>1, <1>4, <1>5, <2>1, <2>2, <3>2, <4>1, <4>2
    <3>3. CASE client.state \notin {"waiting", "done"}
      <4>1. A # 0
        BY <1>1, <1>2, <3>1, <3>3
      <4> QED
        BY <1>5, <2>1, <3>3, <4>1
    <3> QED
      BY <3>2, <3>3
  <2> QED
    BY <1>6, <2>1, <2>2
<1>8. CASE NotifyCommand \/ Host
  BY <1>6, <1>8, EventsCount DEF U, A
<1>9. CASE Plug \/ Unplug \/ \E k \in Keys : PressKey(k) \/ ReleaseKey(k)
  BY <1>6, <1>9, UserCounts DEF U, A
<1>10. ASSUME NEW c \in Commands, NEW n \in Macros, SendCommand(c, n) PROVE RunsCounted'
  <2>1. U' = U + 1
    BY <1>10, SendCounts DEF U
  <2>2. /\ client.state = "opened" /\ client'.state = "waiting" /\ A' = A
        /\ fromClient' = client'.sent /\ UNCHANGED runs
    BY <1>10, SendStep DEF A
  <2> QED
    BY <1>1, <1>2, <1>4, <1>5, <2>1, <2>2
<1>11. CASE ReadNumber \/ PollResult \/ ClientFails \/ ClientIsStopped
  <2>1. /\ U' = U /\ UNCHANGED fromClient
        /\ \/ client'.state = "opened" /\ runs' = 0
           \/ /\ client.state = "waiting" /\ client'.state = "done"
              /\ client'.sent = client.sent /\ runs' = runs /\ A' = A
              /\ toClient.seq = client.sent.seq /\ toClient.status = "completed"
           \/ client'.state = "failed" /\ runs' = 0
    BY <1>11, ClientCounts DEF U, A
  <2> QED
    BY <1>1, <1>2, <1>4, <1>5, <2>1
<1> QED
  BY <1>7, <1>8, <1>9, <1>10, <1>11, Steps

LEMMA RunsInvariant == Spec => []RunsCounted
<1>1. Inv /\ PendingBound /\ RunsCounted /\ [Next]_vars => RunsCounted'
  <2> SUFFICES ASSUME Inv, PendingBound, RunsCounted, [Next]_vars PROVE RunsCounted'
    OBVIOUS
  <2>1. CASE UNCHANGED vars
    BY <2>1 DEF vars, RunsCounted, UnderWay
  <2> QED
    BY <2>1, RunsKept
<1> QED
  BY <1>1, RunsStart, PendingInvariant, TypeInvariant, PTL DEF Spec

\* A client that reports success has had its command started, once.  After a
\* client that gave up, whose command may have the same number, the command
\* may start more than once; or it is still to start when success is
\* reported, but then its event is on its way and it is in the mailbox.
THEOREM CommandIsRun == Spec => []CommandRunsOnce
<1>1. Inv /\ RunsCounted => CommandRunsOnce
  <2> SUFFICES ASSUME Inv, RunsCounted PROVE CommandRunsOnce
    OBVIOUS
  <2>1. /\ UnderWay \in Nat /\ runs \in Nat
        /\ client.state \in {"idle", "opened", "waiting", "done", "failed"}
    BY PendingIsNat DEF Inv, CountsOK, ClientOK
  <2>2. counts.abandoned = 0 => (client.state = "done" => runs = 1) /\ runs <= 1
    BY <2>1 DEF RunsCounted
  <2>3. ASSUME client.state = "done", runs = 0
        PROVE  /\ fromClient = client.sent
               /\ notify \/ \E i \in DOMAIN mainQ : mainQ[i].type = "command"
    <3>1. fromClient = client.sent /\ UnderWay > 0
      BY <2>3 DEF RunsCounted
    <3>2. CASE ~notify
      <4>1. mainQ \in Seq(Event) /\ Count(mainQ, CommandEvents) # 0
        BY <3>1, <3>2, PendingIsNat DEF UnderWay, Inv, QueueOK
      <4>2. PICK i : i \in Positions(mainQ, CommandEvents)
        BY <4>1, CountIsZero
      <4>3. i \in DOMAIN mainQ /\ mainQ[i].type = "command"
        BY <4>2 DEF Positions, CommandEvents
      <4> QED
        BY <3>1, <4>3
    <3> QED
      BY <3>1, <3>2
  <2> QED
    BY <2>2, <2>3 DEF CommandRunsOnce
<1> QED
  BY <1>1, RunsInvariant, TypeInvariant, PTL

-----------------------------------------------------------------------------
(***************************************************************************)
(* A result in the mailbox.                                                *)
(***************************************************************************)
\* A handler that waits for keys is counted.
LEMMA CommandedIsCounted ==
  ASSUME Inv, Commanded(stack)
  PROVE  Handlers(stack) > 0
<1>1. stack \in Seq(Frames)
  BY DEF Inv, StackOK
<1>2. PICK i \in DOMAIN stack : stack[i].stage # "wait"
  BY DEF Commanded
<1>3. i \in 1 .. Len(stack) /\ Len(stack) \in Nat
  BY <1>1, <1>2, LenProperties
<1>4. stack[Len(stack)].stage = "wait" => i # Len(stack)
  BY <1>2
<1> QED
  BY <1>3, <1>4 DEF Handlers

\* With a command's result in the mailbox nothing is left that could write
\* another one, unless a client gave up: the main thread takes no command
\* event and has no handler in progress.
LEMMA ResultIsLast ==
  ASSUME Inv, PendingBound, ResultIsThere, counts.abandoned = 0, Main
  PROVE  UNCHANGED <<toClient, client>>
<1>1. UnderWay = 0 /\ Handlers(stack) = 0
  <2>1. Pending <= 0
    BY DEF PendingBound, ResultIsThere, Waits
  <2> QED
    BY <2>1, PendingIsNat, PendingParts
<1>2. Inv' /\ Effect /\ UNCHANGED client
  BY MainStep DEF world
<1>3. ~Commanded(stack)
  BY <1>1, CommandedIsCounted
<1>4. ~Takes(CommandEvents)
  <2>1. SUFFICES ASSUME Takes(CommandEvents) PROVE FALSE
    OBVIOUS
  <2>2. Count(mainQ, CommandEvents) = 0
    BY <1>1, PendingIsNat DEF UnderWay
  <2>3. Count(mainQ', CommandEvents) = Count(mainQ, CommandEvents) - 1
    BY <2>1, CommandTaken DEF Takes
  <2> DEFINE queue == mainQ'
  <2>4. queue \in Seq(Event)
    BY <1>2 DEF Inv, QueueOK
  <2> HIDE DEF queue
  <2>5. Count(queue, CommandEvents) \in Nat
    BY <2>4, CountIsNat
  <2> QED
    BY <2>2, <2>3, <2>5 DEF queue
<1>5. UNCHANGED toClient
  BY <1>2, <1>3, <1>4
  DEF Effect, ConnectionHandled, CommandHandled, CommandStarted, ReportForwarded, ReportDropped,
      MacroSent, HandlerGoesOn, HandlerReturns
<1> QED
  BY <1>2, <1>5

\* update_client_message() has one mailbox for all commands: a result stays
\* in it until its client has read it, as long as no client gave up, for any
\* number of clients and whatever handlers the main thread was in before.
THEOREM ResultWaitsForClient == Spec => ResultIsKept
<1>1. Inv /\ PendingBound /\ [Next]_vars =>
        [ResultIsThere /\ counts.abandoned = 0 /\ Waits' => ResultIsThere']_vars
  <2> SUFFICES ASSUME Inv, PendingBound, [Next]_vars, ResultIsThere, counts.abandoned = 0, Waits'
               PROVE  ResultIsThere'
    OBVIOUS
  <2>1. CASE UNCHANGED <<toClient, client>>
    BY <2>1 DEF ResultIsThere, Waits
  <2>2. CASE Main
    BY <2>1, <2>2, ResultIsLast
  <2>3. CASE \/ NotifyCommand \/ Host
             \/ Plug \/ Unplug \/ \E k \in Keys : PressKey(k) \/ ReleaseKey(k)
    BY <2>1, <2>3, EventsCount, UserCounts
  <2>4. ASSUME NEW c \in Commands, NEW n \in Macros, SendCommand(c, n) PROVE FALSE
    BY <2>4 DEF SendCommand, ResultIsThere, Waits
  <2>5. CASE ReadNumber \/ PollResult \/ ClientFails \/ ClientIsStopped
    BY <2>5, ClientCounts DEF Waits, ResultIsThere
  <2>6. CASE UNCHANGED vars
    BY <2>1, <2>6 DEF vars
  <2> QED
    BY <2>2, <2>3, <2>4, <2>5, <2>6, Steps
<1> QED
  BY <1>1, TypeInvariant, PendingInvariant, PTL DEF Spec, ResultIsKept

=============================================================================

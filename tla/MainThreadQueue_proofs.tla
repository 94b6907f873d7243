----------------------- MODULE MainThreadQueue_proofs -----------------------
(***************************************************************************)
(* Proofs about the main thread queue, for any number of calls by workers  *)
(* and by tasks, any timeouts and any clears: its invariants, and that it  *)
(* implements the abstract calls.                                          *)
(***************************************************************************)
EXTENDS MainThreadQueue, SequenceTheorems, TLAPS

LEMMA TypeInit == Init => TypeOK
  <1> SUFFICES ASSUME Init PROVE TypeOK
    OBVIOUS
  <1>1. /\ kind \in [Calls -> Kinds \union {None}]
        /\ host \in [Calls -> Calls \union {None}]
        /\ caller \in [Calls -> CallerStates]
        /\ answer \in [Calls -> Answers]
        /\ future \in [Calls -> {"none", "value", "error"}]
    BY DEF Init, Kinds, CallerStates, Answers
  <1>2. {queue, batch, pushed, ran} \subseteq Seq(Calls)
    BY EmptySeq DEF Init
  <1>3. /\ running \in Calls \union {None} /\ draining \in BOOLEAN /\ drained \in Nat
        /\ cleared \subseteq Calls /\ swap \in [pushed: Nat, ran: Nat]
    BY DEF Init
  <1> QED
    BY <1>1, <1>2, <1>3 DEF TypeOK

LEMMA TypeNext == TypeOK /\ [Next]_vars => TypeOK'
  <1> SUFFICES ASSUME TypeOK, [Next]_vars PROVE TypeOK'
    OBVIOUS
  <1> USE DEF TypeOK, callers, consumer, Kinds, CallerStates, Answers
  <1>1. ASSUME NEW c \in Calls, NEW k \in Kinds, NEW h \in Calls \union {None}, Push(c, k, h)
        PROVE  TypeOK'
    BY <1>1, AppendProperties DEF Push
  <1>2. ASSUME NEW c \in Calls, Get(c) PROVE TypeOK'
    BY <1>2 DEF Get
  <1>3. ASSUME NEW c \in Calls, Timeout(c) PROVE TypeOK'
    BY <1>3 DEF Timeout
  <1>4. CASE DrainSwap
    BY <1>4, LenProperties, EmptySeq DEF DrainSwap
  <1>5. CASE StartTask
    BY <1>5, HeadTailProperties DEF StartTask
  <1>6. CASE DrainReturn
    BY <1>6 DEF DrainReturn
  <1>7. ASSUME NEW threw \in BOOLEAN, EndTask(threw) PROVE TypeOK'
    BY <1>7, AppendProperties DEF EndTask
  <1>8. CASE Clear
    BY <1>8, RangeOfSeq, EmptySeq DEF Clear
  <1>9. CASE UNCHANGED vars
    BY <1>9 DEF vars
  <1> QED
    BY <1>1, <1>2, <1>3, <1>4, <1>5, <1>6, <1>7, <1>8, <1>9 DEF Next

\* No variable of the queue ever leaves its type.
THEOREM QueueTypes == Spec => []TypeOK
  BY TypeInit, TypeNext, PTL DEF Spec

-----------------------------------------------------------------------------
(***************************************************************************)
(* How the steps change the line of tasks                                  *)
(***************************************************************************)

LEMMA Regroup == \A a, b, d \in Seq(Calls) : a \o (b \o d) = (a \o b) \o d
  <1> TAKE a \in Seq(Calls), b \in Seq(Calls), d \in Seq(Calls)
  <1> QED
    BY SMTT(60), ConcatAssociative

LEMMA LineType ==
  ASSUME TypeOK
  PROVE  /\ InHand \in Seq(Calls) /\ Line \in Seq(Calls) /\ Kept \in Seq(Calls)
         /\ InHand \o batch \in Seq(Calls)
  BY ConcatProperties, EmptySeq DEF TypeOK, InHand, Line, Kept

LEMMA PushLine ==
  ASSUME TypeOK, NEW c \in Calls, NEW k \in Kinds, NEW h \in Calls \union {None}, Push(c, k, h)
  PROVE  Line' = Append(Line, c) /\ Kept' = Append(Kept, c)
  <1>1. /\ queue' = queue \o <<c>> /\ <<c>> \in Seq(Calls)
        /\ queue \in Seq(Calls) /\ ran \in Seq(Calls)
    BY AppendIsConcat DEF Push, TypeOK
  <1>2. InHand' = InHand /\ batch' = batch /\ ran' = ran
    BY DEF Push, consumer, InHand
  <1>3. Line' = Line \o <<c>>
    <2>1. Line' = (InHand \o batch) \o (queue \o <<c>>)
      BY <1>1, <1>2, Zenon DEF Line
    <2>2. (InHand \o batch) \o (queue \o <<c>>) = ((InHand \o batch) \o queue) \o <<c>>
      <3>1. InHand \o batch \in Seq(Calls)
        BY LineType
      <3> QED
        BY <1>1, <3>1, Regroup, ZenonT(60)
    <2> QED
      BY <2>1, <2>2, Zenon DEF Line
  <1>4. Kept' = Kept \o <<c>>
    <2>1. Kept' = ran \o (Line \o <<c>>)
      BY <1>2, <1>3, Zenon DEF Kept
    <2>2. ran \o (Line \o <<c>>) = (ran \o Line) \o <<c>>
      <3>1. Line \in Seq(Calls)
        BY LineType
      <3> QED
        BY <1>1, <3>1, Regroup, ZenonT(60)
    <2> QED
      BY <2>1, <2>2, Zenon DEF Kept
  <1> QED
    BY <1>3, <1>4, LineType, AppendIsConcat

LEMMA SwapLine ==
  ASSUME TypeOK, ~draining => running = None /\ batch = <<>>, DrainSwap
  PROVE  Line' = Line /\ Kept' = Kept
  <1>1. InHand = <<>> /\ InHand' = <<>> /\ batch = <<>> /\ batch' = queue /\ queue' = <<>>
    BY DEF DrainSwap, InHand
  <1>2. queue \in Seq(Calls)
    BY DEF TypeOK
  <1>3. Line' = Line
    BY <1>1, <1>2, ConcatEmptySeq, EmptySeq DEF Line
  <1> QED
    BY <1>3 DEF Kept, DrainSwap

LEMMA StartLine ==
  ASSUME TypeOK, StartTask
  PROVE  /\ InHand' \o batch' = InHand \o batch
         /\ Line' = Line /\ Kept' = Kept
  <1>1. /\ batch \in Seq(Calls) /\ batch # <<>> /\ Len(batch) \in Nat \ {0}
        /\ Head(batch) = batch[1] /\ batch[1] \in Calls /\ batch[1] # None
    BY EmptySeq, ElementOfSeq, QueueConstants DEF StartTask, TypeOK
  <1>2. InHand = <<>> /\ InHand' = <<batch[1]>> /\ batch' = SubSeq(batch, 2, Len(batch))
    BY <1>1, TailIsSubSeq DEF StartTask, InHand
  <1>3. <<batch[1]>> \o SubSeq(batch, 2, Len(batch)) = batch
    BY <1>1, SubSeqRecursiveFirst, SubSeqFull
  <1>4. InHand' \o batch' = InHand \o batch
    BY <1>1, <1>2, <1>3, ConcatEmptySeq
  <1> QED
    BY <1>4 DEF Line, Kept, StartTask

LEMMA EndLine ==
  ASSUME TypeOK, NEW threw \in BOOLEAN, EndTask(threw)
  PROVE  /\ Line # <<>> /\ running = Head(Line) /\ Line' = Tail(Line)
         /\ ran' = Append(ran, running) /\ Kept' = Kept
  <1>1. /\ running \in Calls /\ ran \in Seq(Calls) /\ batch \in Seq(Calls) /\ queue \in Seq(Calls)
        /\ <<running>> \in Seq(Calls)
    BY DEF EndTask, TypeOK
  <1>2. InHand = <<running>> /\ InHand' = <<>> /\ batch' = batch /\ queue' = queue
    BY DEF EndTask, InHand
  <1>3. batch \o queue \in Seq(Calls)
    BY <1>1, ConcatProperties
  <1>4. Line = <<running>> \o (batch \o queue)
    BY SMTT(30), <1>1, <1>2, ConcatAssociative DEF Line
  <1>5. Line' = batch \o queue
    BY <1>1, <1>2, ConcatEmptySeq DEF Line
  <1>6. Line # <<>> /\ Head(Line) = running /\ Tail(Line) = batch \o queue
    <2>1. /\ Len(Line) = 1 + Len(batch \o queue)
          /\ \A i \in 1 .. 1 + Len(batch \o queue) :
               Line[i] = IF i <= 1 THEN running ELSE (batch \o queue)[i - 1]
      BY <1>1, <1>3, <1>4, ConcatProperties
    <2>2. Line \in Seq(Calls) /\ Len(batch \o queue) \in Nat
      BY <1>3, LineType, LenProperties
    <2>3. Line # <<>> /\ Head(Line) = running
      BY <2>1, <2>2, EmptySeq
    <2>4. /\ Tail(Line) \in Seq(Calls) /\ Len(Tail(Line)) = Len(batch \o queue)
          /\ \A i \in 1 .. Len(Tail(Line)) : Tail(Line)[i] = Line[i + 1]
      BY <2>1, <2>2, <2>3, HeadTailProperties
    <2>5. ASSUME NEW i \in 1 .. Len(Tail(Line))
          PROVE  Tail(Line)[i] = (batch \o queue)[i]
      <3>1. i + 1 \in 1 .. 1 + Len(batch \o queue) /\ i \in Nat \ {0}
        BY <2>2, <2>4
      <3>2. Line[i + 1] = (batch \o queue)[i]
        BY <2>1, <3>1
      <3> QED
        BY <2>4, <3>2
    <2>6. Tail(Line) = batch \o queue
      BY <1>3, <2>4, <2>5, SeqEqual
    <2> QED
      BY <2>3, <2>6
  <1>7. ran' = Append(ran, running) /\ ran' = ran \o <<running>>
    BY <1>1, AppendIsConcat DEF EndTask
  <1>8. Kept' = Kept
    <2>1. (ran \o <<running>>) \o (batch \o queue) = ran \o (<<running>> \o (batch \o queue))
      BY SMTT(30), <1>1, <1>3, ConcatAssociative
    <2>2. Kept = ran \o (<<running>> \o (batch \o queue))
      BY <1>4 DEF Kept
    <2>3. Kept' = (ran \o <<running>>) \o (batch \o queue)
      BY <1>5, <1>7 DEF Kept
    <2> QED
      BY <2>1, <2>2, <2>3
  <1> QED
    BY <1>5, <1>6, <1>7, <1>8

\* clear drops the newest tasks: what is left is the beginning of the line.
LEMMA ClearLine ==
  ASSUME TypeOK, Clear
  PROVE  /\ InHand \o batch = Line' /\ ran \o Line' = Kept'
         /\ Line = Line' \o queue /\ Kept = Kept' \o queue
  <1>1. queue \in Seq(Calls) /\ ran \in Seq(Calls)
    BY DEF TypeOK
  <1>2. Line' = InHand \o batch
    BY LineType, ConcatEmptySeq DEF Clear, consumer, Line, InHand
  <1>3. Kept' = ran \o Line'
    BY DEF Clear, Kept
  <1>4. Line = Line' \o queue
    BY <1>2 DEF Line
  <1>5. ran \o ((InHand \o batch) \o queue) = (ran \o (InHand \o batch)) \o queue
    <2> DEFINE started == InHand \o batch
    <2>1. started \in Seq(Calls)
      BY LineType
    <2> HIDE DEF started
    <2>2. ran \o (started \o queue) = (ran \o started) \o queue
      BY SMTT(30), <1>1, <2>1, ConcatAssociative
    <2> QED
      BY <2>2 DEF started
  <1>6. Kept = Kept' \o queue
    BY <1>2, <1>3, <1>5 DEF Kept, Line
  <1> QED
    BY <1>2, <1>3, <1>4, <1>6

-----------------------------------------------------------------------------
(***************************************************************************)
(* The inductive invariant                                                 *)
(***************************************************************************)

\* A call is pushed once, when it is made, and only then can be cleared.
PushedOnce ==
  /\ cleared \subseteq Range(pushed)
  /\ \A c \in Calls : caller[c] = "idle" <=> c \notin Range(pushed)
  /\ \A i, j \in DOMAIN pushed : pushed[i] = pushed[j] => i = j

\* Nothing is in hand between drains; in one, the count is of what it swapped out.
DrainInv ==
  /\ ~draining => running = None /\ batch = <<>>
  /\ draining => drained = (Len(ran) - swap.ran) + Len(InHand) + Len(batch)
  /\ swap.pushed <= Len(pushed)

\* A future is set by the task's end, and a caller waits only for one that will be.
FutureInv ==
  \A c \in Calls :
    /\ future[c] # "none" => c \in Range(ran)
    /\ c \in Range(ran) => kind[c] = "enqueue" \/ future[c] # "none"
    /\ caller[c] = "waiting" => kind[c] # "enqueue"

\* A call that a task waits for keeps the main thread in that task.
OwnInv ==
  \A c \in Calls :
    host[c] # None =>
      /\ caller[c] # "answered"
      /\ caller[c] = "waiting" => running = host[c] /\ future[c] = "none"

QueueInv ==
  /\ TypeOK
  /\ FifoExactlyOnce /\ PushedOnce
  /\ DrainInv /\ DrainTakesOnlyOldTasks
  /\ FutureInv /\ OwnInv

\* What is in the line or has run was pushed, and no call is there twice.
LEMMA KeptWasPushed ==
  ASSUME TypeOK, FifoExactlyOnce, PushedOnce
  PROVE  /\ Range(Kept) \subseteq Range(pushed)
         /\ \A i, j \in DOMAIN Kept : Kept[i] = Kept[j] => i = j
         /\ Range(ran) \subseteq Range(pushed)
         /\ running # None => running \in Range(pushed)
         /\ Range(queue) \subseteq Range(pushed)
         /\ Range(InHand \o batch) \subseteq Range(pushed)
  <1>1. Range(Kept) \subseteq Range(pushed)
    BY DEF FifoExactlyOnce
  <1>2. \A i, j \in DOMAIN Kept : Kept[i] = Kept[j] => i = j
    <2>1. PICK pos \in [DOMAIN Kept -> DOMAIN pushed] :
            /\ \A i \in DOMAIN Kept : Kept[i] = pushed[pos[i]]
            /\ \A i, j \in DOMAIN Kept : i < j => pos[i] < pos[j]
      BY DEF FifoExactlyOnce
    <2>2. DOMAIN Kept = 1 .. Len(Kept) /\ DOMAIN pushed = 1 .. Len(pushed)
      BY LineType, LenProperties DEF TypeOK
    <2>3. ASSUME NEW i \in DOMAIN Kept, NEW j \in DOMAIN Kept, Kept[i] = Kept[j]
          PROVE  i = j
      <3>1. pos[i] = pos[j] /\ pos[i] \in DOMAIN pushed /\ pos[j] \in DOMAIN pushed
        BY <2>1, <2>3 DEF PushedOnce
      <3>2. i \in Int /\ j \in Int /\ pos[i] \in Int /\ pos[j] \in Int
        BY <2>2, <3>1
      <3>3. ~(i < j) /\ ~(j < i)
        BY <2>1, <3>1, <3>2
      <3> QED
        BY <3>2, <3>3
    <2> QED
      BY <2>3
  <1>3. Range(Kept) = Range(ran) \cup Range(Line)
    BY SMTT(30), LineType, RangeConcatenation DEF Kept, TypeOK
  <1>4. Range(Line) = Range(InHand \o batch) \cup Range(queue)
    <2>1. queue \in Seq(Calls) /\ InHand \o batch \in Seq(Calls)
      BY LineType DEF TypeOK
    <2> QED
      BY ZenonT(60), <2>1, RangeConcatenation DEF Line
  <1>5. Range(InHand \o batch) = Range(InHand) \cup Range(batch)
    BY SMTT(30), LineType, RangeConcatenation DEF TypeOK
  <1>6. running # None => running \in Range(InHand)
    BY DEF InHand, Range
  <1> QED
    BY <1>1, <1>2, <1>3, <1>4, <1>5, <1>6

LEMMA QueueInit == Init => QueueInv
  <1> SUFFICES ASSUME Init PROVE QueueInv
    OBVIOUS
  <1>1. TypeOK
    BY TypeInit
  <1>2. /\ pushed = <<>> /\ ran = <<>> /\ queue = <<>> /\ batch = <<>> /\ InHand = <<>>
        /\ Range(<<>>) = {} /\ DOMAIN <<>> = {}
    BY EmptySeq DEF Init, InHand, Range
  <1>3. Kept = <<>>
    BY <1>2, EmptySeq, ConcatEmptySeq DEF Kept, Line
  <1>4. FifoExactlyOnce
    <2>1. [i \in {} |-> i] \in [DOMAIN Kept -> DOMAIN pushed]
      BY <1>2, <1>3
    <2> QED
      BY <1>2, <1>3, <2>1 DEF FifoExactlyOnce
  <1>5. PushedOnce
    BY <1>2 DEF PushedOnce, Init
  <1>6. DrainInv /\ DrainTakesOnlyOldTasks
    BY <1>2, EmptySeq DEF DrainInv, DrainTakesOnlyOldTasks, Init
  <1>7. FutureInv /\ OwnInv
    BY <1>2 DEF FutureInv, OwnInv, Init
  <1> QED
    BY <1>1, <1>4, <1>5, <1>6, <1>7 DEF QueueInv

\* Elements of a sequence with one more at its end
LEMMA RangeAppend ==
  ASSUME NEW S, NEW seq \in Seq(S), NEW e \in S
  PROVE  Range(Append(seq, e)) = Range(seq) \cup {e}
  <1>1. <<e>> \in Seq(S) /\ Append(seq, e) = seq \o <<e>>
    BY AppendIsConcat
  <1>2. Range(<<e>>) = {e}
    BY DEF Range
  <1>3. Range(seq \o <<e>>) = Range(seq) \cup Range(<<e>>)
    BY ZenonT(60), <1>1, RangeConcatenation
  <1> QED
    BY <1>1, <1>2, <1>3

\* A step that moves tasks within the line, or none, keeps the order.
LEMMA FifoSame ==
  ASSUME FifoExactlyOnce, Kept' = Kept, pushed' = pushed, cleared' = cleared
  PROVE  FifoExactlyOnce'
  BY DEF FifoExactlyOnce

LEMMA FifoPush ==
  ASSUME TypeOK, FifoExactlyOnce, PushedOnce,
         NEW c \in Calls, NEW k \in Kinds, NEW h \in Calls \union {None}, Push(c, k, h)
  PROVE  FifoExactlyOnce'
  <1> DEFINE n == Len(Kept)
             m == Len(pushed)
  <1>1. PICK pos \in [DOMAIN Kept -> DOMAIN pushed] :
          /\ \A i \in DOMAIN Kept : Kept[i] = pushed[pos[i]]
          /\ \A i, j \in DOMAIN Kept : i < j => pos[i] < pos[j]
    BY DEF FifoExactlyOnce
  <1>2. /\ Kept \in Seq(Calls) /\ n \in Nat /\ DOMAIN Kept = 1 .. n
        /\ pushed \in Seq(Calls) /\ m \in Nat /\ DOMAIN pushed = 1 .. m
    BY LineType, LenProperties DEF TypeOK
  <1>3. Kept' = Append(Kept, c) /\ pushed' = Append(pushed, c) /\ cleared' = cleared
    BY PushLine DEF Push
  <1>4. /\ DOMAIN Kept' = 1 .. n + 1 /\ Kept'[n + 1] = c
        /\ \A i \in 1 .. n : Kept'[i] = Kept[i]
    <2>1. /\ Append(Kept, c) \in Seq(Calls) /\ Len(Append(Kept, c)) = n + 1
          /\ \A i \in 1 .. n : Append(Kept, c)[i] = Kept[i]
          /\ Append(Kept, c)[n + 1] = c
      BY <1>2, AppendProperties
    <2>2. DOMAIN Append(Kept, c) = 1 .. n + 1
      BY <2>1, LenProperties
    <2> QED
      BY <1>3, <2>1, <2>2
  <1>5. /\ DOMAIN pushed' = 1 .. m + 1 /\ pushed'[m + 1] = c
        /\ \A i \in 1 .. m : pushed'[i] = pushed[i]
    <2>1. /\ Append(pushed, c) \in Seq(Calls) /\ Len(Append(pushed, c)) = m + 1
          /\ \A i \in 1 .. m : Append(pushed, c)[i] = pushed[i]
          /\ Append(pushed, c)[m + 1] = c
      BY <1>2, AppendProperties
    <2>2. DOMAIN Append(pushed, c) = 1 .. m + 1
      BY <2>1, LenProperties
    <2> QED
      BY <1>3, <2>1, <2>2
  <1>6. Range(Kept') = Range(pushed') \ cleared'
    <2>1. Range(Append(Kept, c)) = Range(Kept) \cup {c}
      BY <1>2, RangeAppend
    <2>2. Range(Append(pushed, c)) = Range(pushed) \cup {c}
      BY <1>2, RangeAppend
    <2>3. c \notin cleared
      BY DEF Push, PushedOnce
    <2>4. Range(Kept) = Range(pushed) \ cleared
      BY DEF FifoExactlyOnce
    <2>5. Range(Append(Kept, c)) = Range(Append(pushed, c)) \ cleared
      BY <2>1, <2>2, <2>3, <2>4
    <2> QED
      BY <1>3, <2>5
  <1> DEFINE new == [i \in 1 .. n + 1 |-> IF i <= n THEN pos[i] ELSE m + 1]
  <1>7. new \in [1 .. n + 1 -> 1 .. m + 1]
    <2>1. ASSUME NEW i \in 1 .. n + 1 PROVE new[i] \in 1 .. m + 1
      <3>1. CASE i <= n
        <4>1. pos[i] \in 1 .. m
          BY <1>1, <1>2, <3>1
        <4> QED
          BY <1>2, <3>1, <4>1
      <3>2. CASE ~(i <= n)
        BY <1>2, <3>2
      <3> QED
        BY <3>1, <3>2
    <2> QED
      BY <2>1
  <1>8. \A i \in 1 .. n + 1 : Kept'[i] = pushed'[new[i]]
    <2>1. ASSUME NEW i \in 1 .. n + 1 PROVE Kept'[i] = pushed'[new[i]]
      <3>1. CASE i <= n
        <4>1. i \in 1 .. n /\ pos[i] \in 1 .. m /\ new[i] = pos[i]
          BY <1>1, <1>2, <3>1
        <4>2. Kept[i] = pushed[pos[i]]
          BY <1>1, <1>2, <4>1
        <4> QED
          BY <1>4, <1>5, <4>1, <4>2
      <3>2. CASE ~(i <= n)
        <4>1. i = n + 1 /\ new[i] = m + 1
          BY <1>2, <3>2
        <4> QED
          BY <1>4, <1>5, <4>1
      <3> QED
        BY <3>1, <3>2
    <2> QED
      BY <2>1
  <1>9. \A i, j \in 1 .. n + 1 : i < j => new[i] < new[j]
    <2>1. ASSUME NEW i \in 1 .. n + 1, NEW j \in 1 .. n + 1, i < j PROVE new[i] < new[j]
      <3>1. i \in 1 .. n /\ pos[i] \in 1 .. m /\ new[i] = pos[i]
        BY SMTT(30), <1>1, <1>2, <2>1
      <3>2. CASE j <= n
        <4>1. j \in 1 .. n /\ new[j] = pos[j]
          BY <1>2, <3>2
        <4> QED
          BY <1>1, <1>2, <2>1, <3>1, <4>1
      <3>3. CASE ~(j <= n)
        <4>1. new[j] = m + 1
          BY <3>3
        <4> QED
          BY <1>2, <3>1, <4>1
      <3> QED
        BY <3>2, <3>3
    <2> QED
      BY <2>1
  <1> HIDE DEF new
  <1>10. \E q \in [DOMAIN Kept' -> DOMAIN pushed'] :
           /\ \A i \in DOMAIN Kept' : Kept'[i] = pushed'[q[i]]
           /\ \A i, j \in DOMAIN Kept' : i < j => q[i] < q[j]
    BY <1>4, <1>5, <1>7, <1>8, <1>9
  <1> QED
    BY <1>6, <1>10 DEF FifoExactlyOnce

LEMMA FifoClear ==
  ASSUME TypeOK, FifoExactlyOnce, PushedOnce, Clear
  PROVE  FifoExactlyOnce'
  <1>1. PICK pos \in [DOMAIN Kept -> DOMAIN pushed] :
          /\ \A i \in DOMAIN Kept : Kept[i] = pushed[pos[i]]
          /\ \A i, j \in DOMAIN Kept : i < j => pos[i] < pos[j]
    BY DEF FifoExactlyOnce
  <1> DEFINE front == ran \o (InHand \o batch)
             n == Len(front)
             l == Len(queue)
  <1>2. Kept' = front /\ Kept = front \o queue /\ pushed' = pushed
        /\ cleared' = cleared \union Range(queue)
    BY ClearLine DEF Clear
  <1>3. front \in Seq(Calls) /\ queue \in Seq(Calls) /\ n \in Nat /\ l \in Nat
        /\ DOMAIN front = 1 .. n /\ DOMAIN queue = 1 .. l
    <2>1. front \in Seq(Calls) /\ queue \in Seq(Calls)
      BY LineType, ConcatProperties DEF TypeOK
    <2> QED
      BY <2>1, LenProperties
  <1> HIDE DEF front
  <1>4. /\ DOMAIN Kept = 1 .. n + l
        /\ \A i \in 1 .. n + l : Kept[i] = IF i <= n THEN front[i] ELSE queue[i - n]
    <2>1. /\ front \o queue \in Seq(Calls) /\ Len(front \o queue) = n + l
          /\ \A i \in 1 .. n + l :
               (front \o queue)[i] = IF i <= n THEN front[i] ELSE queue[i - n]
      BY <1>3, ConcatProperties
    <2> QED
      BY <1>2, <2>1, LenProperties
  <1>5. Range(front) \cap Range(queue) = {}
    <2> SUFFICES ASSUME NEW i \in 1 .. n, NEW j \in 1 .. l, front[i] = queue[j] PROVE FALSE
      BY <1>3 DEF Range
    <2>1. i \in DOMAIN Kept /\ n + j \in DOMAIN Kept /\ i # n + j
      BY <1>3, <1>4
    <2>2. Kept[i] = front[i] /\ Kept[n + j] = queue[j]
      BY <1>3, <1>4, <2>1
    <2> QED
      BY <2>1, <2>2, KeptWasPushed
  <1>6. Range(Kept) = Range(front) \cup Range(queue)
    BY SMTT(30), <1>2, <1>3, RangeConcatenation
  <1>7. Range(Kept') = Range(pushed') \ cleared'
    BY <1>2, <1>5, <1>6 DEF FifoExactlyOnce
  <1> DEFINE new == [i \in 1 .. n |-> pos[i]]
  <1>8. new \in [1 .. n -> DOMAIN pushed] /\ \A i \in 1 .. n : i \in DOMAIN Kept /\ new[i] = pos[i]
    BY <1>1, <1>3, <1>4
  <1>9. \A i \in 1 .. n : front[i] = pushed[new[i]]
    BY <1>1, <1>3, <1>4, <1>8
  <1>10. \A i, j \in 1 .. n : i < j => new[i] < new[j]
    BY <1>1, <1>8
  <1> HIDE DEF new
  <1>11. \E q \in [DOMAIN Kept' -> DOMAIN pushed'] :
           /\ \A i \in DOMAIN Kept' : Kept'[i] = pushed'[q[i]]
           /\ \A i, j \in DOMAIN Kept' : i < j => q[i] < q[j]
    BY <1>2, <1>3, <1>8, <1>9, <1>10
  <1> QED
    BY <1>7, <1>11 DEF FifoExactlyOnce

LEMMA FifoNext == QueueInv /\ [Next]_vars => FifoExactlyOnce'
  <1> SUFFICES ASSUME QueueInv, [Next]_vars PROVE FifoExactlyOnce'
    OBVIOUS
  <1>0. TypeOK /\ FifoExactlyOnce /\ PushedOnce /\ (~draining => running = None /\ batch = <<>>)
    BY DEF QueueInv, DrainInv
  <1>1. ASSUME NEW c \in Calls, NEW k \in Kinds, NEW h \in Calls \union {None}, Push(c, k, h)
        PROVE  FifoExactlyOnce'
    BY <1>0, <1>1, FifoPush
  <1>2. ASSUME NEW c \in Calls, Get(c) \/ Timeout(c) PROVE FifoExactlyOnce'
    BY <1>0, <1>2, FifoSame DEF Get, Timeout, consumer, Kept, Line, InHand
  <1>3. CASE DrainSwap
    <2>1. pushed' = pushed /\ cleared' = cleared
      BY <1>3 DEF DrainSwap
    <2> QED
      BY <1>0, <1>3, <2>1, SwapLine, FifoSame
  <1>4. CASE StartTask
    <2>1. pushed' = pushed /\ cleared' = cleared
      BY <1>4 DEF StartTask
    <2> QED
      BY <1>0, <1>4, <2>1, StartLine, FifoSame
  <1>5. CASE DrainReturn
    BY <1>0, <1>5, FifoSame DEF DrainReturn, Kept, Line, InHand
  <1>6. ASSUME NEW threw \in BOOLEAN, EndTask(threw) PROVE FifoExactlyOnce'
    <2>1. pushed' = pushed /\ cleared' = cleared
      BY <1>6 DEF EndTask
    <2> QED
      BY <1>0, <1>6, <2>1, EndLine, FifoSame
  <1>7. CASE Clear
    BY <1>0, <1>7, FifoClear
  <1>8. CASE UNCHANGED vars
    BY <1>0, <1>8, FifoSame DEF vars, consumer, Kept, Line, InHand
  <1> QED
    BY <1>1, <1>2, <1>3, <1>4, <1>5, <1>6, <1>7, <1>8 DEF Next

LEMMA PushedNext == QueueInv /\ [Next]_vars => PushedOnce'
  <1> SUFFICES ASSUME QueueInv, [Next]_vars PROVE PushedOnce'
    OBVIOUS
  <1>0. TypeOK /\ FifoExactlyOnce /\ PushedOnce
    BY DEF QueueInv
  <1>1. ASSUME NEW c \in Calls, NEW k \in Kinds, NEW h \in Calls \union {None}, Push(c, k, h)
        PROVE  PushedOnce'
    <2>1. pushed \in Seq(Calls) /\ Len(pushed) \in Nat /\ DOMAIN pushed = 1 .. Len(pushed)
      BY <1>0, LenProperties DEF TypeOK
    <2>2. pushed' = Append(pushed, c) /\ cleared' = cleared
      BY <1>1 DEF Push
    <2>3. Range(pushed') = Range(pushed) \cup {c}
      BY <2>1, <2>2, RangeAppend
    <2>4. /\ caller[c] = "idle" /\ caller'[c] # "idle"
          /\ \A d \in Calls \ {c} : caller'[d] = caller[d]
      BY <1>0, <1>1 DEF Push, TypeOK
    <2>5. \A d \in Calls : caller'[d] = "idle" <=> d \notin Range(pushed')
      BY <1>0, <2>3, <2>4 DEF PushedOnce
    <2>6. c \notin Range(pushed)
      BY <1>0, <2>4 DEF PushedOnce
    <2>7. /\ Append(pushed, c) \in Seq(Calls) /\ Len(Append(pushed, c)) = Len(pushed) + 1
          /\ \A i \in 1 .. Len(pushed) : Append(pushed, c)[i] = pushed[i]
          /\ Append(pushed, c)[Len(pushed) + 1] = c
      BY <2>1, AppendProperties
    <2>8. DOMAIN pushed' = 1 .. Len(pushed) + 1
      BY <2>2, <2>7, LenProperties
    <2>9. ASSUME NEW i \in DOMAIN pushed', NEW j \in DOMAIN pushed', pushed'[i] = pushed'[j]
          PROVE  i = j
      <3>1. \A n \in 1 .. Len(pushed) : pushed'[n] = pushed[n] /\ pushed[n] # c
        BY <2>1, <2>2, <2>6, <2>7 DEF Range
      <3>2. pushed'[Len(pushed) + 1] = c
        BY <2>2, <2>7
      <3>3. i \in 1 .. Len(pushed) \/ i = Len(pushed) + 1
        BY <2>1, <2>8
      <3>4. j \in 1 .. Len(pushed) \/ j = Len(pushed) + 1
        BY <2>1, <2>8
      <3> QED
        BY <1>0, <2>1, <2>9, <3>1, <3>2, <3>3, <3>4 DEF PushedOnce
    <2> QED
      BY <1>0, <2>2, <2>3, <2>5, <2>9 DEF PushedOnce
  <1>2. ASSUME NEW c \in Calls, Get(c) \/ Timeout(c) PROVE PushedOnce'
    <2>1. caller[c] = "waiting" /\ caller'[c] # "idle" /\ \A d \in Calls \ {c} : caller'[d] = caller[d]
      BY <1>0, <1>2 DEF Get, Timeout, TypeOK
    <2>2. pushed' = pushed /\ cleared' = cleared
      BY <1>2 DEF Get, Timeout
    <2> QED
      BY <1>0, <2>1, <2>2 DEF PushedOnce
  <1>3. CASE DrainSwap \/ StartTask \/ DrainReturn \/ UNCHANGED vars
    BY <1>0, <1>3 DEF PushedOnce, DrainSwap, StartTask, DrainReturn, vars, callers
  <1>4. ASSUME NEW threw \in BOOLEAN, EndTask(threw) PROVE PushedOnce'
    BY <1>0, <1>4 DEF PushedOnce, EndTask, callers
  <1>5. CASE Clear
    BY <1>0, <1>5, KeptWasPushed DEF PushedOnce, Clear, callers
  <1> QED
    BY <1>1, <1>2, <1>3, <1>4, <1>5 DEF Next

LEMMA DrainNext == QueueInv /\ [Next]_vars => DrainInv'
  <1> SUFFICES ASSUME QueueInv, [Next]_vars PROVE DrainInv'
    OBVIOUS
  <1>0. /\ TypeOK /\ DrainInv
        /\ Len(batch) \in Nat /\ Len(queue) \in Nat /\ Len(ran) \in Nat /\ Len(pushed) \in Nat
        /\ Len(InHand) = IF running = None THEN 0 ELSE 1
        /\ drained \in Nat /\ swap.ran \in Nat /\ swap.pushed \in Nat
    BY LenProperties DEF QueueInv, TypeOK, InHand
  <1>1. ASSUME NEW c \in Calls, NEW k \in Kinds, NEW h \in Calls \union {None}, Push(c, k, h)
        PROVE  DrainInv'
    <2>1. Len(pushed') = Len(pushed) + 1
      BY <1>0, <1>1, AppendProperties DEF Push, TypeOK
    <2> QED
      BY <1>0, <1>1, <2>1 DEF Push, DrainInv, consumer, InHand
  <1>2. ASSUME NEW c \in Calls, Get(c) \/ Timeout(c) PROVE DrainInv'
    BY <1>0, <1>2 DEF Get, Timeout, DrainInv, consumer, InHand
  <1>3. CASE DrainSwap
    <2>1. running' = None /\ Len(InHand') = 0
      BY <1>0, <1>3 DEF DrainSwap, DrainInv, InHand
    <2> QED
      BY <1>0, <1>3, <2>1 DEF DrainSwap, DrainInv
  <1>4. CASE StartTask
    <2>1. Len(batch') = Len(batch) - 1 /\ running' # None
      <3>1. batch \in Seq(Calls) /\ batch # <<>>
        BY <1>0, <1>4 DEF StartTask, TypeOK
      <3> QED
        BY <1>4, <3>1, HeadTailProperties, QueueConstants DEF StartTask
    <2>2. Len(InHand) = 0 /\ Len(InHand') = 1
      BY <1>4, <2>1 DEF StartTask, InHand
    <2>3. draining
      BY <1>0, <1>4 DEF StartTask, DrainInv
    <2> QED
      BY <1>0, <1>4, <2>1, <2>2, <2>3 DEF StartTask, DrainInv
  <1>5. CASE DrainReturn
    BY <1>0, <1>5 DEF DrainReturn, DrainInv
  <1>6. ASSUME NEW threw \in BOOLEAN, EndTask(threw) PROVE DrainInv'
    <2>1. Len(ran') = Len(ran) + 1
      BY <1>0, <1>6, AppendProperties DEF EndTask, TypeOK
    <2>2. Len(InHand) = 1 /\ Len(InHand') = 0
      BY <1>6 DEF EndTask, InHand
    <2>3. draining
      BY <1>0, <1>6 DEF EndTask, DrainInv
    <2> QED
      BY <1>0, <1>6, <2>1, <2>2, <2>3 DEF EndTask, DrainInv
  <1>7. CASE Clear
    BY <1>0, <1>7 DEF Clear, DrainInv, consumer, InHand
  <1>8. CASE UNCHANGED vars
    BY <1>0, <1>8 DEF vars, DrainInv, consumer, InHand
  <1> QED
    BY <1>1, <1>2, <1>3, <1>4, <1>5, <1>6, <1>7, <1>8 DEF Next

LEMMA OldTasksNext == QueueInv /\ [Next]_vars => DrainTakesOnlyOldTasks'
  <1> SUFFICES ASSUME QueueInv, [Next]_vars PROVE DrainTakesOnlyOldTasks'
    OBVIOUS
  <1>0. /\ TypeOK /\ DrainInv /\ DrainTakesOnlyOldTasks /\ FifoExactlyOnce /\ PushedOnce
        /\ pushed \in Seq(Calls) /\ Len(pushed) \in Nat /\ swap.pushed \in Nat
        /\ queue \in Seq(Calls) /\ batch \in Seq(Calls)
    BY LenProperties DEF QueueInv, TypeOK
  <1>1. ASSUME NEW c \in Calls, NEW k \in Kinds, NEW h \in Calls \union {None}, Push(c, k, h)
        PROVE  DrainTakesOnlyOldTasks'
    <2>1. pushed' = Append(pushed, c) /\ swap' = swap /\ draining' = draining
          /\ InHand' = InHand /\ batch' = batch
      BY <1>1 DEF Push, consumer, InHand
    <2>2. swap.pushed <= Len(pushed)
      BY <1>0 DEF DrainInv
    <2>3. /\ Append(pushed, c) \in Seq(Calls) /\ Len(Append(pushed, c)) = Len(pushed) + 1
          /\ \A i \in 1 .. Len(pushed) : Append(pushed, c)[i] = pushed[i]
      BY <1>0, AppendProperties
    <2> DEFINE longer == Append(pushed, c)
               n == swap.pushed
    <2>4. SubSeq(longer, 1, n) = SubSeq(pushed, 1, n)
      <3>1. n \in Int /\ \A i \in 1 .. n : pushed[i] \in Calls /\ longer[i] = pushed[i]
        BY <1>0, <2>2, <2>3, ElementOfSeq
      <3> HIDE DEF longer, n
      <3>2. /\ SubSeq(pushed, 1, n) \in Seq(Calls)
            /\ Len(SubSeq(pushed, 1, n)) = IF 1 <= n THEN n - 1 + 1 ELSE 0
            /\ \A i \in 1 .. n - 1 + 1 : SubSeq(pushed, 1, n)[i] = pushed[1 + i - 1]
        BY <3>1, SubSeqProperties
      <3>3. \A i \in 1 .. n : longer[i] \in Calls
        BY <3>1
      <3>4. /\ SubSeq(longer, 1, n) \in Seq(Calls)
            /\ Len(SubSeq(longer, 1, n)) = IF 1 <= n THEN n - 1 + 1 ELSE 0
            /\ \A i \in 1 .. n - 1 + 1 : SubSeq(longer, 1, n)[i] = longer[1 + i - 1]
        BY <3>1, <3>3, SubSeqProperties
      <3>5. ASSUME NEW i \in 1 .. Len(SubSeq(longer, 1, n))
            PROVE  SubSeq(longer, 1, n)[i] = SubSeq(pushed, 1, n)[i]
        <4>1. i \in 1 .. n /\ i \in 1 .. n - 1 + 1 /\ 1 + i - 1 = i
          BY <3>1, <3>4
        <4> QED
          BY <3>1, <3>2, <3>4, <4>1
      <3> QED
        BY <3>2, <3>4, <3>5, SeqEqual
    <2>5. SubSeq(pushed', 1, swap'.pushed) = SubSeq(pushed, 1, swap.pushed)
      BY <2>1, <2>4
    <2> QED
      BY <1>0, <2>1, <2>5 DEF DrainTakesOnlyOldTasks
  <1>2. ASSUME NEW c \in Calls, Get(c) \/ Timeout(c) PROVE DrainTakesOnlyOldTasks'
    BY <1>0, <1>2 DEF Get, Timeout, DrainTakesOnlyOldTasks, consumer, InHand
  <1>3. CASE DrainSwap
    <2>1. InHand' = <<>> /\ batch' = queue /\ pushed' = pushed /\ swap'.pushed = Len(pushed)
      BY <1>0, <1>3 DEF DrainSwap, DrainInv, InHand
    <2>2. InHand' \o batch' = queue
      BY <1>0, <2>1, ConcatEmptySeq
    <2>3. SubSeq(pushed, 1, Len(pushed)) = pushed
      BY <1>0, SubSeqFull
    <2>4. SubSeq(pushed', 1, swap'.pushed) = pushed
      BY <2>1, <2>3
    <2>5. Range(queue) \subseteq Range(pushed)
      BY <1>0, KeptWasPushed
    <2> QED
      BY <2>2, <2>4, <2>5 DEF DrainTakesOnlyOldTasks
  <1>4. CASE StartTask
    <2>1. InHand' \o batch' = InHand \o batch
      BY <1>0, <1>4, StartLine
    <2> QED
      BY <1>0, <1>4, <2>1 DEF StartTask, DrainTakesOnlyOldTasks
  <1>5. CASE DrainReturn
    BY <1>5 DEF DrainReturn, DrainTakesOnlyOldTasks
  <1>6. ASSUME NEW threw \in BOOLEAN, EndTask(threw) PROVE DrainTakesOnlyOldTasks'
    <2>1. InHand' = <<>> /\ batch' = batch
      BY <1>6 DEF EndTask, InHand
    <2>2. InHand' \o batch' = batch
      BY <1>0, <2>1, ConcatEmptySeq
    <2>3. Range(InHand \o batch) = Range(InHand) \cup Range(batch)
      BY SMTT(30), <1>0, LineType, RangeConcatenation
    <2> QED
      BY <1>0, <1>6, <2>2, <2>3 DEF EndTask, DrainTakesOnlyOldTasks
  <1>7. CASE Clear
    BY <1>0, <1>7 DEF Clear, DrainTakesOnlyOldTasks, consumer, InHand
  <1>8. CASE UNCHANGED vars
    BY <1>0, <1>8 DEF vars, DrainTakesOnlyOldTasks, consumer, InHand
  <1> QED
    BY <1>1, <1>2, <1>3, <1>4, <1>5, <1>6, <1>7, <1>8 DEF Next

LEMMA FutureNext == QueueInv /\ [Next]_vars => FutureInv'
  <1> SUFFICES ASSUME QueueInv, [Next]_vars PROVE FutureInv'
    OBVIOUS
  <1>0. /\ TypeOK /\ FutureInv /\ FifoExactlyOnce /\ PushedOnce
        /\ ran \in Seq(Calls)
    BY DEF QueueInv, TypeOK
  <1>1. ASSUME NEW c \in Calls, NEW k \in Kinds, NEW h \in Calls \union {None}, Push(c, k, h)
        PROVE  FutureInv'
    <2>1. ran' = ran /\ future' = future
      BY <1>1 DEF Push
    <2>2. c \notin Range(ran)
      BY <1>0, <1>1, KeptWasPushed DEF Push, PushedOnce
    <2>3. /\ kind'[c] = k /\ caller'[c] = IF k = "enqueue" THEN "left" ELSE "waiting"
          /\ \A d \in Calls \ {c} : kind'[d] = kind[d] /\ caller'[d] = caller[d]
      BY <1>0, <1>1 DEF Push, TypeOK
    <2> QED
      BY <1>0, <2>1, <2>2, <2>3 DEF FutureInv
  <1>2. ASSUME NEW c \in Calls, Get(c) \/ Timeout(c) PROVE FutureInv'
    <2>1. caller'[c] # "waiting" /\ \A d \in Calls \ {c} : caller'[d] = caller[d]
      BY <1>0, <1>2 DEF Get, Timeout, TypeOK
    <2>2. ran' = ran /\ future' = future /\ kind' = kind
      BY <1>2 DEF Get, Timeout
    <2> QED
      BY <1>0, <2>1, <2>2 DEF FutureInv
  <1>3. CASE DrainSwap \/ StartTask \/ DrainReturn \/ Clear \/ UNCHANGED vars
    BY <1>0, <1>3 DEF FutureInv, DrainSwap, StartTask, DrainReturn, Clear, vars, callers
  <1>4. ASSUME NEW threw \in BOOLEAN, EndTask(threw) PROVE FutureInv'
    <2>1. running \in Calls /\ kind' = kind /\ caller' = caller
      BY <1>0, <1>4 DEF EndTask, TypeOK, callers
    <2>2. Range(ran') = Range(ran) \cup {running}
      BY <1>0, <1>4, <2>1, RangeAppend DEF EndTask
    <2>3. /\ kind[running] = "enqueue" \/ future'[running] # "none"
          /\ \A d \in Calls \ {running} : future'[d] = future[d]
      BY <1>0, <1>4, <2>1 DEF EndTask, TypeOK
    <2> QED
      BY <1>0, <2>1, <2>2, <2>3 DEF FutureInv
  <1> QED
    BY <1>1, <1>2, <1>3, <1>4 DEF Next

LEMMA OwnNext == QueueInv /\ [Next]_vars => OwnInv'
  <1> SUFFICES ASSUME QueueInv, [Next]_vars PROVE OwnInv'
    OBVIOUS
  <1>0. TypeOK /\ OwnInv /\ FutureInv /\ FifoExactlyOnce /\ PushedOnce /\ DrainInv
    BY DEF QueueInv
  <1>1. ASSUME NEW c \in Calls, NEW k \in Kinds, NEW h \in Calls \union {None}, Push(c, k, h)
        PROVE  OwnInv'
    <2>1. running' = running /\ future' = future
      BY <1>1 DEF Push, consumer
    <2>2. future[c] = "none"
      BY <1>0, <1>1, KeptWasPushed DEF Push, PushedOnce, FutureInv
    <2>3. /\ host'[c] = h /\ caller'[c] \in {"left", "waiting"}
          /\ \A d \in Calls \ {c} : host'[d] = host[d] /\ caller'[d] = caller[d]
      BY <1>0, <1>1 DEF Push, TypeOK
    <2>4. h # None => running = h
      BY <1>1 DEF Push
    <2> QED
      BY <1>0, <2>1, <2>2, <2>3, <2>4 DEF OwnInv
  <1>2. ASSUME NEW c \in Calls, Get(c) PROVE OwnInv'
    <2>1. host[c] = None
      BY <1>0, <1>2 DEF Get, OwnInv
    <2>2. \A d \in Calls \ {c} : caller'[d] = caller[d]
      BY <1>0, <1>2 DEF Get, TypeOK
    <2>3. host' = host /\ running' = running /\ future' = future
      BY <1>2 DEF Get, consumer
    <2> QED
      BY <1>0, <2>1, <2>2, <2>3 DEF OwnInv
  <1>3. ASSUME NEW c \in Calls, Timeout(c) PROVE OwnInv'
    <2>1. caller'[c] = "timedout" /\ \A d \in Calls \ {c} : caller'[d] = caller[d]
      BY <1>0, <1>3 DEF Timeout, TypeOK
    <2>2. host' = host /\ running' = running /\ future' = future
      BY <1>3 DEF Timeout, consumer
    <2> QED
      BY <1>0, <2>1, <2>2 DEF OwnInv
  <1>4. CASE StartTask
    BY <1>0, <1>4 DEF OwnInv, StartTask, callers
  <1>5. CASE DrainSwap \/ DrainReturn \/ Clear \/ UNCHANGED vars
    BY <1>0, <1>5 DEF OwnInv, DrainSwap, DrainReturn, Clear, vars, callers, consumer
  <1>6. ASSUME NEW threw \in BOOLEAN, EndTask(threw) PROVE OwnInv'
    <2>1. \A c \in Calls : host[c] # None => caller[c] # "waiting"
      BY <1>0, <1>6 DEF EndTask, MainBlocked, OwnInv
    <2>2. host' = host /\ caller' = caller
      BY <1>6 DEF EndTask, callers
    <2> QED
      BY <1>0, <2>1, <2>2 DEF OwnInv
  <1> QED
    BY <1>1, <1>2, <1>3, <1>4, <1>5, <1>6 DEF Next

LEMMA QueueNext == QueueInv /\ [Next]_vars => QueueInv'
  BY TypeNext, FifoNext, PushedNext, DrainNext, OldTasksNext, FutureNext, OwnNext DEF QueueInv

LEMMA QueueInvariant == Spec => []QueueInv
  <1> HIDE DEF QueueInv, Init, Next, vars
  <1> QED
    BY QueueInit, QueueNext, PTL DEF Spec

-----------------------------------------------------------------------------
(***************************************************************************)
(* The theorems                                                            *)
(***************************************************************************)

\* However calls, timeouts, drains and clears interleave, every task handed in
\* is kept or has run exactly once, in the order of the pushes, unless cleared.
THEOREM QueueIsFifo == Spec => []FifoExactlyOnce
  <1>1. QueueInv => FifoExactlyOnce
    BY DEF QueueInv
  <1> QED
    BY <1>1, QueueInvariant, PTL

\* drain_all never runs a task that was pushed after it took the queue.
THEOREM DrainIsBounded == Spec => []DrainTakesOnlyOldTasks
  <1>1. QueueInv => DrainTakesOnlyOldTasks
    BY DEF QueueInv
  <1> QED
    BY <1>1, QueueInvariant, PTL

\* No submit made by a task on the main thread is ever answered.
THEOREM OwnSubmitTimesOut == Spec => []OwnSubmitOnlyTimesOut
  <1>1. QueueInv => OwnSubmitOnlyTimesOut
    BY DEF QueueInv, OwnInv, OwnSubmitOnlyTimesOut
  <1> QED
    BY <1>1, QueueInvariant, PTL

\* What drain_all returns is the number of tasks that ended in it.
THEOREM DrainCount == Spec => DrainCountsExecuted
  <1>1. QueueInv /\ [Next]_vars => [DrainReturn => drained = Len(ran) - swap.ran]_vars
    <2> SUFFICES ASSUME QueueInv, DrainReturn PROVE drained = Len(ran) - swap.ran
      OBVIOUS
    <2>1. Len(InHand) = 0 /\ Len(batch) = 0
      BY EmptySeq DEF DrainReturn, InHand
    <2>2. Len(ran) \in Nat /\ swap.ran \in Nat
      BY LenProperties DEF QueueInv, TypeOK
    <2> QED
      BY <2>1, <2>2 DEF QueueInv, DrainInv, DrainReturn
  <1> HIDE DEF QueueInv
  <1> QED
    BY <1>1, QueueInvariant, PTL DEF Spec, DrainCountsExecuted

\* The queue loses no caller: clear() is the one way in which a task that was
\* handed in gets no answer (main_thread_queue.cpp:53), whatever times out.
THEOREM OnlyClearLosesCallers == Spec => []WaitersAreServed
  <1>1. QueueInv => WaitersAreServed
    <2> SUFFICES ASSUME QueueInv, NEW c \in Calls
                 PROVE  /\ caller[c] = "waiting" =>
                             future[c] # "none" \/ c \in Range(Line) \/ c \in cleared
                        /\ c \in cleared =>
                             future[c] = "none" /\ c \notin Range(Line) /\ caller[c] # "idle"
      BY DEF WaitersAreServed
    <2>1. TypeOK /\ FifoExactlyOnce /\ PushedOnce /\ FutureInv
      BY DEF QueueInv
    <2>2. Range(ran) \cup Range(Line) = Range(pushed) \ cleared
      <3>1. Range(Kept) = Range(ran) \cup Range(Line)
        BY SMTT(30), <2>1, LineType, RangeConcatenation DEF Kept, TypeOK
      <3> QED
        BY <2>1, <3>1 DEF FifoExactlyOnce
    <2>3. caller[c] # "idle" <=> c \in Range(pushed)
      BY <2>1 DEF PushedOnce
    <2>4. c \in cleared => c \in Range(pushed)
      BY <2>1 DEF PushedOnce
    <2>5. /\ c \in Range(ran) => kind[c] = "enqueue" \/ future[c] # "none"
          /\ caller[c] = "waiting" => kind[c] # "enqueue"
          /\ future[c] # "none" => c \in Range(ran)
      BY <2>1 DEF FutureInv
    <2>6. CASE caller[c] = "waiting"
      <3>1. c \in Range(pushed)
        BY <2>3, <2>6
      <3> QED
        BY <2>2, <2>4, <2>5, <2>6, <3>1
    <2>7. CASE caller[c] # "waiting"
      BY <2>2, <2>3, <2>4, <2>5, <2>7
    <2> QED
      BY <2>6, <2>7
  <1> QED
    BY <1>1, QueueInvariant, PTL

-----------------------------------------------------------------------------
(***************************************************************************)
(* What a task waits for                                                   *)
(***************************************************************************)

\* A task that waits keeps its place, or moves up by one because the task in front
\* of the line ended, or is that task and has run; or a clear drops it.
NobodyIsOvertaken ==
  [][\A i \in DOMAIN Line :
       \/ ran' = ran /\ i \in DOMAIN Line' /\ Line'[i] = Line[i]
       \/ /\ ran' = Append(ran, Line[1])
          /\ \/ i = 1
             \/ i > 1 /\ i - 1 \in DOMAIN Line' /\ Line'[i - 1] = Line[i]
       \/ Line[i] \in cleared']_vars

\* The ranking behind TaskRunsOrIsCleared: a task's place in the line, which later
\* calls, nested ones and drains never make worse.
THEOREM TasksMoveUp == Spec => NobodyIsOvertaken
  <1> DEFINE Moves(i) ==
        \/ ran' = ran /\ i \in DOMAIN Line' /\ Line'[i] = Line[i]
        \/ /\ ran' = Append(ran, Line[1])
           /\ \/ i = 1
              \/ i > 1 /\ i - 1 \in DOMAIN Line' /\ Line'[i - 1] = Line[i]
        \/ Line[i] \in cleared'
  <1>1. ASSUME QueueInv, [Next]_vars, NEW i \in DOMAIN Line PROVE Moves(i)
    <2>1. TypeOK /\ DrainInv
      BY <1>1 DEF QueueInv
    <2>2. Line \in Seq(Calls) /\ Len(Line) \in Nat /\ i \in 1 .. Len(Line)
      BY <1>1, <2>1, LineType, LenProperties
    <2>3. CASE Line' = Line /\ ran' = ran
      BY <1>1, <2>3
    <2>4. CASE \E c \in Calls, k \in Kinds, h \in Calls \union {None} : Push(c, k, h)
      <3>1. PICK c \in Calls, k \in Kinds, h \in Calls \union {None} : Push(c, k, h)
        BY <2>4
      <3>2. Line' = Append(Line, c) /\ ran' = ran
        BY <2>1, <3>1, PushLine DEF Push
      <3>3. i \in DOMAIN Append(Line, c) /\ Append(Line, c)[i] = Line[i]
        BY <2>2, AppendProperties
      <3> QED
        BY <3>2, <3>3
    <2>5. CASE \E c \in Calls : Get(c) \/ Timeout(c)
      BY <2>3, <2>5 DEF Get, Timeout, Line, InHand, consumer
    <2>6. CASE DrainSwap
      BY <2>1, <2>3, <2>6, SwapLine DEF DrainInv, DrainSwap
    <2>7. CASE StartTask
      BY <2>1, <2>3, <2>7, StartLine DEF StartTask
    <2>8. CASE DrainReturn
      BY <2>3, <2>8 DEF DrainReturn, Line, InHand
    <2>9. CASE \E threw \in BOOLEAN : EndTask(threw)
      <3>1. /\ Line # <<>> /\ Line' = Tail(Line)
            /\ ran' = Append(ran, Head(Line))
        BY <2>1, <2>9, EndLine
      <3>2. Head(Line) = Line[1]
        BY <2>2, <3>1, HeadTailProperties
      <3>3. CASE i = 1
        BY <3>1, <3>2, <3>3
      <3>4. CASE i # 1
        <4>1. i - 1 \in 1 .. Len(Line) - 1 /\ i > 1
          BY <2>2, <3>4
        <4>2. Tail(Line) \in Seq(Calls) /\ Len(Tail(Line)) = Len(Line) - 1
          BY <2>2, <3>1, HeadTailProperties
        <4>3. Tail(Line)[i - 1] = Line[i - 1 + 1]
          BY <2>2, <3>1, <4>1, <4>2, HeadTailProperties
        <4>4. i - 1 + 1 = i
          BY <2>2
        <4>5. i - 1 \in DOMAIN Tail(Line)
          BY <4>1, <4>2, LenProperties
        <4> QED
          BY <3>1, <3>2, <4>1, <4>3, <4>4, <4>5
      <3> QED
        BY <3>3, <3>4
    <2>10. CASE Clear
      <3>1. /\ Line = Line' \o queue /\ Line' \in Seq(Calls) /\ queue \in Seq(Calls)
            /\ ran' = ran /\ cleared' = cleared \union Range(queue)
        BY <2>1, <2>10, ClearLine, LineType DEF Clear, TypeOK
      <3>2. /\ Len(Line) = Len(Line') + Len(queue)
            /\ Len(Line') \in Nat /\ Len(queue) \in Nat
            /\ DOMAIN Line' = 1 .. Len(Line') /\ DOMAIN queue = 1 .. Len(queue)
            /\ Line[i] = IF i <= Len(Line') THEN Line'[i] ELSE queue[i - Len(Line')]
        BY <2>2, <3>1, ConcatProperties, LenProperties
      <3>3. CASE i <= Len(Line')
        BY <2>2, <3>1, <3>2, <3>3
      <3>4. CASE i > Len(Line')
        <4>1. i - Len(Line') \in DOMAIN queue /\ Line[i] = queue[i - Len(Line')]
          BY <2>2, <3>2, <3>4
        <4> QED
          BY <3>1, <4>1 DEF Range
      <3> QED
        BY <2>2, <3>2, <3>3, <3>4
    <2>11. CASE UNCHANGED vars
      BY <2>3, <2>11 DEF vars, consumer, Line, InHand
    <2> QED
      BY <1>1, <2>4, <2>5, <2>6, <2>7, <2>8, <2>9, <2>10, <2>11 DEF Next
  <1>2. QueueInv /\ [Next]_vars => [\A i \in DOMAIN Line : Moves(i)]_vars
    BY <1>1
  <1> HIDE DEF QueueInv, Next, vars
  <1> QED
    BY <1>2, QueueInvariant, PTL DEF Spec, NobodyIsOvertaken

\* While a task blocks the main thread in a wait for a call of its own, that call is
\* unanswered and its task behind it or dropped: only the clock ends the wait.
BlockedForTheClock ==
  \A c \in Calls :
    host[c] # None /\ caller[c] = "waiting" =>
      /\ draining /\ running = host[c] /\ running # c
      /\ future[c] = "none" /\ c \in Range(Line) \cup cleared

\* A task is not made by itself: its caller runs, and it is not pushed yet.
LEMMA HostsAreOthers == Spec => [](\A c \in Calls : host[c] # c)
  <1> DEFINE Others == \A c \in Calls : host[c] # c
  <1>1. Init => Others
    BY QueueConstants DEF Init
  <1>2. ASSUME QueueInv, Others, [Next]_vars PROVE Others'
    <2>1. CASE \E c \in Calls, k \in Kinds, h \in Calls \union {None} : Push(c, k, h)
      <3>1. PICK c \in Calls, k \in Kinds, h \in Calls \union {None} : Push(c, k, h)
        BY <2>1
      <3>2. TypeOK /\ FifoExactlyOnce /\ PushedOnce
        BY <1>2 DEF QueueInv
      <3>3. running # None => running \in Range(pushed)
        BY <3>2, KeptWasPushed
      <3>4. c \notin Range(pushed)
        BY <3>1, <3>2 DEF Push, PushedOnce
      <3>5. h # c
        BY <3>1, <3>3, <3>4, QueueConstants DEF Push
      <3>6. host' = [host EXCEPT ![c] = h] /\ host \in [Calls -> Calls \union {None}]
        BY <3>1, <3>2 DEF Push, TypeOK
      <3> QED
        BY <1>2, <3>5, <3>6
    <2>2. CASE UNCHANGED host
      BY <1>2, <2>2
    <2> QED
      BY <1>2, <2>1, <2>2
      DEF Next, Get, Timeout, DrainSwap, StartTask, DrainReturn, EndTask, Clear, vars, callers
  <1>3. QueueInv /\ Others /\ [Next]_vars => Others'
    BY <1>2
  <1> HIDE DEF QueueInv, Others, Init, Next, vars
  <1>4. Spec => []Others
    BY <1>1, <1>3, QueueInvariant, PTL DEF Spec
  <1> QED
    BY <1>4 DEF Others

\* So the main thread waits for no other thread, and at most until a timeout.
THEOREM MainThreadIsNotStuck == Spec => []BlockedForTheClock
  <1>1. QueueInv /\ WaitersAreServed /\ (\A c \in Calls : host[c] # c) => BlockedForTheClock
    <2> SUFFICES ASSUME QueueInv, WaitersAreServed, NEW c \in Calls, host[c] # c,
                        host[c] # None, caller[c] = "waiting"
                 PROVE  /\ draining /\ running = host[c] /\ running # c
                        /\ future[c] = "none" /\ c \in Range(Line) \cup cleared
      BY DEF BlockedForTheClock
    <2>1. running = host[c] /\ future[c] = "none"
      BY DEF QueueInv, OwnInv
    <2>2. draining
      BY <2>1 DEF QueueInv, TypeOK, DrainInv
    <2>3. c \in Range(Line) \cup cleared
      BY <2>1 DEF WaitersAreServed
    <2> QED
      BY <2>1, <2>2, <2>3
  <1> QED
    BY <1>1, QueueInvariant, OnlyClearLosesCallers, HostsAreOthers, PTL

-----------------------------------------------------------------------------
(***************************************************************************)
(* The refinement                                                          *)
(***************************************************************************)

LEMMA CallsStep ==
  ASSUME QueueInv, [Next]_vars
  PROVE  [Marshalled!CallsNext]_<<Line, ran, [c \in Calls |-> Phase(c)]>>
  <1> DEFINE phase == [c \in Calls |-> Phase(c)]
  <1>0. /\ TypeOK /\ FutureInv /\ ran \in Seq(Calls) /\ (~draining => running = None /\ batch = <<>>)
        /\ Range(ran) = {ran[i] : i \in 1 .. Len(ran)}
    BY LenProperties DEF QueueInv, DrainInv, TypeOK, Range
  <1>1. ASSUME NEW c \in Calls, NEW k \in Kinds, NEW h \in Calls \union {None}, Push(c, k, h)
        PROVE  Marshalled!HandIn(c)
    <2>1. phase[c] = "new"
      BY <1>1 DEF Push, Phase
    <2>2. Line' = Append(Line, c) /\ ran' = ran
      BY <1>0, <1>1, PushLine DEF Push
    <2>3. /\ caller'[c] \in {"left", "waiting"}
          /\ \A d \in Calls \ {c} : caller'[d] = caller[d]
      BY <1>0, <1>1 DEF Push, TypeOK
    <2>4. Phase(c)' \in {"waiting", "gone"} /\ \A d \in Calls \ {c} : Phase(d)' = Phase(d)
      BY <2>3 DEF Phase
    <2>5. phase' = [phase EXCEPT ![c] = Phase(c)']
      BY <2>4
    <2> QED
      BY <2>1, <2>2, <2>4, <2>5 DEF Marshalled!HandIn
  <1>2. ASSUME NEW c \in Calls, Get(c) PROVE Marshalled!AnswerCall(c)
    <2>1. phase[c] = "waiting" /\ c \in Range(ran)
      BY <1>0, <1>2 DEF Get, Phase, FutureInv
    <2>2. Line' = Line /\ ran' = ran
      BY <1>2 DEF Get, Line, InHand, consumer
    <2>3. caller'[c] = "answered" /\ \A d \in Calls \ {c} : caller'[d] = caller[d]
      BY <1>0, <1>2 DEF Get, TypeOK
    <2>4. Phase(c)' = "answered" /\ \A d \in Calls \ {c} : Phase(d)' = Phase(d)
      BY <2>3 DEF Phase
    <2>5. phase' = [phase EXCEPT ![c] = "answered"]
      BY <2>4
    <2> QED
      BY <1>0, <2>1, <2>2, <2>5 DEF Marshalled!AnswerCall
  <1>3. ASSUME NEW c \in Calls, Timeout(c) PROVE Marshalled!GiveUp(c)
    <2>1. phase[c] = "waiting" /\ c \notin Range(ran)
      BY <1>0, <1>3 DEF Timeout, Phase, FutureInv
    <2>2. Line' = Line /\ ran' = ran
      BY <1>3 DEF Timeout, Line, InHand, consumer
    <2>3. caller'[c] = "timedout" /\ \A d \in Calls \ {c} : caller'[d] = caller[d]
      BY <1>0, <1>3 DEF Timeout, TypeOK
    <2>4. Phase(c)' = "gone" /\ \A d \in Calls \ {c} : Phase(d)' = Phase(d)
      BY <2>3 DEF Phase
    <2>5. phase' = [phase EXCEPT ![c] = "gone"]
      BY <2>4
    <2> QED
      BY <1>0, <2>1, <2>2, <2>5 DEF Marshalled!GiveUp
  <1>4. ASSUME caller' = caller, Line' = Line, ran' = ran
        PROVE  UNCHANGED <<Line, ran, phase>>
    BY <1>4 DEF Phase
  <1>5. CASE DrainSwap
    <2>1. Line' = Line /\ ran' = ran /\ caller' = caller
      BY <1>0, <1>5, SwapLine DEF DrainSwap, callers
    <2> QED
      BY <1>4, <2>1
  <1>6. CASE StartTask
    <2>1. Line' = Line /\ ran' = ran /\ caller' = caller
      BY <1>0, <1>6, StartLine DEF StartTask, callers
    <2> QED
      BY <1>4, <2>1
  <1>7. CASE DrainReturn \/ UNCHANGED vars
    <2>1. Line' = Line /\ ran' = ran /\ caller' = caller
      BY <1>7 DEF DrainReturn, vars, callers, consumer, Line, InHand
    <2> QED
      BY <1>4, <2>1
  <1>8. ASSUME NEW threw \in BOOLEAN, EndTask(threw) PROVE Marshalled!TakeEffect
    <2>1. caller' = caller
      BY <1>8 DEF EndTask, callers
    <2>2. phase' = phase
      BY <2>1 DEF Phase
    <2> QED
      BY <1>0, <1>8, <2>2, EndLine DEF Marshalled!TakeEffect
  <1>9. CASE Clear
    <2>1. Line = Line' \o queue /\ caller' = caller /\ ran' = ran
      BY <1>0, <1>9, ClearLine DEF Clear, callers
    <2>2. phase' = phase
      BY <2>1 DEF Phase
    <2>3. Line' \in Seq(Calls) /\ queue \in Seq(Calls)
      <3>1. TypeOK'
        BY <1>0, TypeNext
      <3>2. Line' = InHand \o batch
        BY <1>0, <1>9, ClearLine
      <3> QED
        BY <1>0, <3>2, LineType DEF TypeOK
    <2> DEFINE front == Line'
               n == Len(front)
    <2>4. n \in 0 .. Len(Line) /\ front = SubSeq(Line, 1, n)
      <3>1. front \in Seq(Calls) /\ Line = front \o queue
        BY <2>1, <2>3
      <3> HIDE DEF front
      <3>2. /\ n \in Nat /\ Len(queue) \in Nat /\ Line \in Seq(Calls)
            /\ Len(Line) = n + Len(queue)
            /\ \A i \in 1 .. n + Len(queue) :
                 Line[i] = IF i <= n THEN front[i] ELSE queue[i - n]
        BY <2>3, <3>1, ConcatProperties, LenProperties
      <3>3. n \in Int /\ \A i \in 1 .. n : Line[i] = front[i] /\ Line[i] \in Calls
        BY <3>1, <3>2, ElementOfSeq
      <3>4. /\ SubSeq(Line, 1, n) \in Seq(Calls)
            /\ Len(SubSeq(Line, 1, n)) = IF 1 <= n THEN n - 1 + 1 ELSE 0
            /\ \A i \in 1 .. n - 1 + 1 : SubSeq(Line, 1, n)[i] = Line[1 + i - 1]
        BY <3>3, SubSeqProperties
      <3>5. ASSUME NEW i \in 1 .. Len(front) PROVE front[i] = SubSeq(Line, 1, n)[i]
        <4>1. i \in 1 .. n /\ i \in 1 .. n - 1 + 1 /\ 1 + i - 1 = i
          BY <3>2
        <4> QED
          BY <3>3, <3>4, <4>1
      <3>6. Len(SubSeq(Line, 1, n)) = Len(front)
        BY <3>2, <3>4
      <3>7. front = SubSeq(Line, 1, n)
        BY <3>1, <3>4, <3>5, <3>6, SeqEqual
      <3> QED
        BY <3>2, <3>7
    <2>5. Marshalled!Drop
      BY <2>1, <2>2, <2>4 DEF Marshalled!Drop
    <2> QED
      BY <2>5 DEF Marshalled!CallsNext
  <1> QED
    BY <1>1, <1>2, <1>3, <1>5, <1>6, <1>7, <1>8, <1>9 DEF Next, Marshalled!CallsNext

\* The queue keeps the promises of MarshalledCalls: a task takes effect when it
\* ends, a caller is answered after that or gives up before, a clear drops a tail.
THEOREM QueueRefines == Spec => ImplementsMarshalledCalls
  <1>1. Init => Marshalled!CallsInit
    <2> SUFFICES ASSUME Init PROVE Marshalled!CallsInit
      OBVIOUS
    <2>1. Line = <<>> /\ ran = <<>>
      BY EmptySeq, ConcatEmptySeq DEF Init, Line, InHand
    <2>2. [c \in Calls |-> Phase(c)] = [c \in Calls |-> "new"]
      BY DEF Init, Phase
    <2> QED
      BY <2>1, <2>2 DEF Marshalled!CallsInit
  <1>2. QueueInv /\ [Next]_vars =>
          [Marshalled!CallsNext]_<<Line, ran, [c \in Calls |-> Phase(c)]>>
    BY CallsStep
  <1> HIDE DEF QueueInv
  <1> QED
    BY <1>1, <1>2, QueueInvariant, PTL DEF Spec, ImplementsMarshalledCalls, Marshalled!CallsSpec

=============================================================================

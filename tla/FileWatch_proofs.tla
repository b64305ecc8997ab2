--------------------------- MODULE FileWatch_proofs ---------------------------
(***************************************************************************)
(* No event is lost, doubled or overtaken between the system's buffer and  *)
(* the callback, none follows destroy(), and the handle is closed as often *)
(* as DirectoryClosed says: whatever the threads, the system and the owner *)
(* do, for every set of files, every buffer and any number of changes.     *)
(***************************************************************************)
EXTENDS FileWatch, SequenceTheorems, TLAPS

\* Every number of s is smaller than every number of t.
Before(s, t) == \A i \in 1..Len(s), j \in 1..Len(t) : s[i].num < t[j].num
InOrder(s) == \A i, j \in 1..Len(s) : i < j => s[i].num < s[j].num
UpTo(s, n) == \A i \in 1..Len(s) : s[i].num <= n
Passed(s) == \A i \in 1..Len(s) : PassFilter(s[i].file)

\* What is recorded follows what has been read, and that what was parsed.
Recorded == /\ InOrder(reported) /\ InOrder(buffer) /\ InOrder(pending)
            /\ Before(reported, buffer) /\ Before(reported, pending) /\ Before(buffer, pending)
            /\ UpTo(reported, made) /\ UpTo(buffer, made) /\ UpTo(pending, made)

\* destroy() has waited for the monitor, and for the callback thread.
Joined == /\ owner \in {"joinCallback", "closing", "gone"} => monitor \in {"exited", "failed"}
          /\ owner \in {"closing", "gone"} => callback = "exited"

IInv == TypeOK /\ NothingLostInside /\ Recorded /\ Passed(reported) /\ Joined /\ DirectoryClosed

-----------------------------------------------------------------------------
(* Sequences                                                               *)

\* The first n elements of a sequence, and the others.
LEMMA Split ==
  ASSUME NEW S, NEW s \in Seq(S), NEW n \in 0..Len(s)
  PROVE  /\ SubSeq(s, 1, n) \in Seq(S) /\ Len(SubSeq(s, 1, n)) = n
         /\ \A i \in 1..n : SubSeq(s, 1, n)[i] = s[i]
         /\ SubSeq(s, n + 1, Len(s)) \in Seq(S) /\ Len(SubSeq(s, n + 1, Len(s))) = Len(s) - n
         /\ \A i \in 1..(Len(s) - n) : SubSeq(s, n + 1, Len(s))[i] = s[n + i]
<1>1. Len(s) \in Nat /\ \A i \in 1..Len(s) : s[i] \in S
  BY LenProperties
<1>2. (\A i \in 1..n : s[i] \in S) /\ (\A i \in (n + 1)..Len(s) : s[i] \in S)
  BY <1>1
<1>3. /\ SubSeq(s, 1, n) \in Seq(S)
      /\ Len(SubSeq(s, 1, n)) = IF 1 <= n THEN n - 1 + 1 ELSE 0
      /\ \A i \in 1..(n - 1 + 1) : SubSeq(s, 1, n)[i] = s[1 + i - 1]
  BY <1>1, <1>2, SubSeqProperties
<1>4. /\ SubSeq(s, n + 1, Len(s)) \in Seq(S)
      /\ Len(SubSeq(s, n + 1, Len(s))) = IF n + 1 <= Len(s) THEN Len(s) - (n + 1) + 1 ELSE 0
      /\ \A i \in 1..(Len(s) - (n + 1) + 1) : SubSeq(s, n + 1, Len(s))[i] = s[(n + 1) + i - 1]
  BY <1>1, <1>2, SubSeqProperties
<1>5. /\ Len(SubSeq(s, 1, n)) = n
      /\ \A i \in 1..n : SubSeq(s, 1, n)[i] = s[i]
  BY <1>1, <1>3
<1>6. /\ Len(SubSeq(s, n + 1, Len(s))) = Len(s) - n
      /\ \A i \in 1..(Len(s) - n) : SubSeq(s, n + 1, Len(s))[i] = s[n + i]
  BY <1>1, <1>4
<1> QED
  BY <1>3, <1>4, <1>5, <1>6

\* An element moves from the front of one sequence to the end of another.
LEMMA Moved ==
  ASSUME NEW S, NEW s \in Seq(S), NEW t \in Seq(S), t # <<>>
  PROVE  Append(s, Head(t)) \o Tail(t) = s \o t
<1>1. Head(t) \in S /\ Tail(t) \in Seq(S) /\ Len(Tail(t)) = Len(t) - 1
      /\ \A i \in 1..Len(Tail(t)) : Tail(t)[i] = t[i + 1]
  BY HeadTailProperties
<1>2. Head(t) = t[1] /\ Len(t) \in Nat \ {0} /\ Len(s) \in Nat
  BY EmptySeq, LenProperties
<1> DEFINE u == Append(s, Head(t))
<1>3. u \in Seq(S) /\ Len(u) = Len(s) + 1 /\ u[Len(s) + 1] = Head(t)
      /\ \A i \in 1..Len(s) : u[i] = s[i]
  BY <1>1, AppendProperties
<1> HIDE DEF u
<1>4. /\ u \o Tail(t) \in Seq(S) /\ Len(u \o Tail(t)) = Len(u) + Len(Tail(t))
      /\ \A i \in 1..(Len(u) + Len(Tail(t))) :
            (u \o Tail(t))[i] = IF i <= Len(u) THEN u[i] ELSE Tail(t)[i - Len(u)]
  BY <1>1, <1>3, ConcatProperties
<1>5. /\ s \o t \in Seq(S) /\ Len(s \o t) = Len(s) + Len(t)
      /\ \A i \in 1..(Len(s) + Len(t)) : (s \o t)[i] = IF i <= Len(s) THEN s[i] ELSE t[i - Len(s)]
  BY ConcatProperties
<1>6. ASSUME NEW i \in 1..Len(s \o t) PROVE (u \o Tail(t))[i] = (s \o t)[i]
  <2>1. i \in 1..(Len(s) + Len(t)) /\ i \in 1..(Len(u) + Len(Tail(t)))
    BY <1>1, <1>2, <1>3, <1>5
  <2>2. CASE i <= Len(s)
    BY <2>1, <2>2, <1>2, <1>3, <1>4, <1>5
  <2>3. CASE i = Len(s) + 1
    BY <2>1, <2>3, <1>2, <1>3, <1>4, <1>5
  <2>4. CASE i > Len(s) + 1
    <3>1. i - Len(u) \in 1..Len(Tail(t)) /\ (i - Len(u)) + 1 = i - Len(s)
      BY <2>1, <2>4, <1>1, <1>2, <1>3
    <3> QED
      BY <2>1, <2>4, <3>1, <1>1, <1>2, <1>3, <1>4, <1>5
  <2> QED
    BY <2>1, <2>2, <2>3, <2>4, <1>2
<1>7. Len(u \o Tail(t)) = Len(s \o t)
  BY <1>1, <1>2, <1>3, <1>4, <1>5
<1>8. u \o Tail(t) = s \o t
  BY <1>4, <1>5, <1>6, <1>7, SeqEqual
<1> QED
  BY <1>8 DEF u

-----------------------------------------------------------------------------
(* Types                                                                   *)

\* What the system may do with a change.
LEMMA RecordType ==
  ASSUME TypeOK, NEW c \in Change, Record(c)
  PROVE  pending' \in Seq(Change) /\ Len(pending') <= BufferSize /\ overflow' \in BOOLEAN
<1> USE FilesAssumption
<1>0. pending \in Seq(Change) /\ Len(pending) \in Nat /\ Len(pending) <= BufferSize
  BY LenProperties DEF TypeOK
<1>1. CASE ~armed \/ overflow
  BY <1>1, <1>0 DEF Record, TypeOK
<1>2. CASE armed /\ ~overflow /\ Len(pending) < BufferSize
  <2>1. pending' = Append(pending, c) /\ UNCHANGED overflow
    BY <1>2 DEF Record
  <2>2. Append(pending, c) \in Seq(Change) /\ Len(Append(pending, c)) = Len(pending) + 1
    BY <1>0, AppendProperties
  <2> QED
    BY <1>0, <1>2, <2>1, <2>2 DEF TypeOK
<1>3. CASE armed /\ ~overflow /\ Len(pending) = BufferSize
  <2>1. PICK k \in IF monitor = "wait" THEN 1..Len(pending) ELSE {0} :
              pending' = SubSeq(pending, 1, k)
    BY <1>3, <1>0 DEF Record
  <2>2. k \in 0..Len(pending)
    BY <2>1, <1>0
  <2>3. pending' \in Seq(Change) /\ Len(pending') = k
    BY <1>0, <2>1, <2>2, Split
  <2>4. overflow' = TRUE
    BY <1>3, <1>0 DEF Record
  <2> QED
    BY <1>0, <1>3, <2>2, <2>3, <2>4
<1> QED
  BY <1>0, <1>1, <1>2, <1>3 DEF TypeOK

\* Every step keeps the types of the variables.
LEMMA TypeStep == TypeOK /\ [Next]_vars => TypeOK'
<1> SUFFICES ASSUME TypeOK, [Next]_vars PROVE TypeOK'
  OBVIOUS
<1> USE FilesAssumption DEF TypeOK, vars, setup, kernel, flags, hist, parse
<1>1. ASSUME NEW f \in Files, ChangeFile(f) PROVE TypeOK'
  <2> DEFINE c == [num |-> made + 1, file |-> f]
  <2>1. c \in Change /\ Record(c)
    BY <1>1 DEF ChangeFile, Change
  <2>2. pending' \in Seq(Change) /\ Len(pending') <= BufferSize /\ overflow' \in BOOLEAN
    BY <2>1, RecordType
  <2>3. owed' \subseteq Nat
    <3>1. owed' \subseteq owed \cup {made'} /\ made' \in Nat
      BY <1>1 DEF ChangeFile
    <3> QED
      BY <3>1
  <2> QED
    BY <1>1, <2>2, <2>3 DEF ChangeFile
<1>2. CASE Monitor
  <2>1. CASE SetRunning
    BY <2>1 DEF SetRunning
  <2>2. CASE IssueRead
    <3>1. CASE armed' = TRUE /\ monitor' = "wait" /\ UNCHANGED closes
      BY <2>2, <3>1 DEF IssueRead
    <3>2. CASE closes' = closes + 1 /\ monitor' = "failed" /\ UNCHANGED armed
      BY <2>2, <3>2 DEF IssueRead
    <3> QED
      BY <2>2, <3>1, <3>2 DEF IssueRead
  <2>3. CASE ReadCompletes
    <3>1. CASE overflow /\ pending = <<>> /\ overflow' = FALSE /\ monitor' = "dispatch" /\ UNCHANGED <<pending, buffer>>
      BY <2>3, <3>1 DEF ReadCompletes
    <3>2. ASSUME NEW k \in 1..Len(pending), buffer' = SubSeq(pending, 1, k),
                 pending' = SubSeq(pending, k + 1, Len(pending)),
                 monitor' = "parse", UNCHANGED overflow
          PROVE  TypeOK'
      <4>1. pending \in Seq(Change) /\ Len(pending) \in Nat
        BY LenProperties
      <4>2. k \in 0..Len(pending)
        BY <4>1
      <4>3. buffer' \in Seq(Change) /\ Len(buffer') = k /\ pending' \in Seq(Change) /\ Len(pending') = Len(pending) - k
        BY <3>2, <4>1, <4>2, Split
      <4>4. buffer' # <<>> /\ Len(pending') <= BufferSize
        BY <4>1, <4>3, EmptySeq
      <4> QED
        BY <2>3, <3>2, <4>3, <4>4 DEF ReadCompletes
    <3> QED
      BY <2>3, <3>1, <3>2 DEF ReadCompletes
  <2>4. CASE ParseRecord
    <3> DEFINE event == IF PassFilter(Head(buffer).file) THEN <<Head(buffer)>> ELSE <<>>
    <3>1. buffer # <<>> /\ buffer \in Seq(Change)
      BY <2>4 DEF ParseRecord
    <3>2. Head(buffer) \in Change /\ Tail(buffer) \in Seq(Change)
      BY <3>1, HeadTailProperties
    <3>3. event \in Seq(Change)
      BY <3>2
    <3>4. parsed' \in Seq(Change) /\ reported' \in Seq(Change)
      <4>1. parsed' = parsed \o event /\ reported' = reported \o event
        BY <2>4 DEF ParseRecord
      <4> HIDE DEF event
      <4> QED
        BY <3>3, <4>1, ConcatProperties
    <3> HIDE DEF event
    <3> QED
      BY <2>4, <3>2, <3>4 DEF ParseRecord, NextEntry
  <2>5. CASE CloseRequested
    BY <2>5 DEF CloseRequested
  <2>6. CASE WaitFails
    BY <2>6 DEF WaitFails
  <2>7. CASE Dispatch
    <3>1. queue \o parsed \in Seq(Change) /\ <<>> \in Seq(Change)
      BY ConcatProperties
    <3> QED
      BY <2>7, <3>1 DEF Dispatch, Enqueue
  <2>8. CASE NotifyQueued
    BY <2>8 DEF NotifyQueued, Woken
  <2> QED
    BY <1>2, <2>1, <2>2, <2>3, <2>4, <2>5, <2>6, <2>7, <2>8 DEF Monitor
<1>3. CASE ReadThrows
  BY <1>3 DEF ReadThrows
<1>4. CASE CallbackThread \/ SpuriousWakeup
  <2>1. CASE CallbackLoop \/ TestPredicate \/ Block \/ SpuriousWakeup
    BY <2>1 DEF CallbackLoop, TestPredicate, Block, SpuriousWakeup
  <2>2. CASE SwapOut
    BY <2>2 DEF SwapOut, TakeQueue
  <2>3. CASE CallBack
    <3>1. CASE batch # <<>>
      <4>1. Head(batch) \in Change /\ Tail(batch) \in Seq(Change)
        BY <3>1, HeadTailProperties
      <4>2. Append(delivered, Head(batch)) \in Seq(Change)
        BY <4>1, AppendProperties
      <4> QED
        BY <2>3, <3>1, <4>1, <4>2 DEF CallBack
    <3> QED
      BY <2>3, <3>1 DEF CallBack
  <2> QED
    BY <1>4, <2>1, <2>2, <2>3 DEF CallbackThread
<1>5. CASE Constructed \/ SetDestroy \/ Destroy
  <2>1. CASE Constructed \/ SetDestroy \/ SignalClose
    BY <2>1 DEF Constructed, SetDestroy, SignalClose, owned
  <2>2. CASE NotifyDestroy
    BY <2>2 DEF NotifyDestroy, owned, Woken
  <2>3. CASE JoinMonitor \/ JoinCallback \/ CloseDirectory
    BY <2>3 DEF JoinMonitor, JoinCallback, CloseDirectory, owned
  <2> QED
    BY <1>5, <2>1, <2>2, <2>3 DEF Destroy
<1>6. CASE UNCHANGED vars
  BY <1>6
<1> QED
  BY <1>1, <1>2, <1>3, <1>4, <1>5, <1>6 DEF Next

-----------------------------------------------------------------------------
(* Between the parse and the callback                                      *)

\* Four sequences one after the other, and what moves between them.
LEMMA InARow ==
  ASSUME NEW S, NEW d \in Seq(S), NEW b \in Seq(S), NEW q \in Seq(S), NEW p \in Seq(S)
  PROVE  /\ \A e \in Seq(S) : (d \o b \o q \o p) \o e = d \o b \o q \o (p \o e)
         /\ d \o b \o (q \o p) \o <<>> = d \o b \o q \o p
         /\ d \o q \o <<>> \o p = d \o <<>> \o q \o p
         /\ b # <<>> => Append(d, Head(b)) \o Tail(b) \o q \o p = d \o b \o q \o p
<1>1. d \o b \in Seq(S)
  BY ConcatProperties
<1>2. d \o b \o q \in Seq(S) /\ q \o p \in Seq(S) /\ d \o q \in Seq(S)
  BY <1>1, ConcatProperties
<1>3. \A e \in Seq(S) : (d \o b \o q \o p) \o e = d \o b \o q \o (p \o e)
  <2>1. \A s, e \in Seq(S) : (s \o p) \o e = s \o (p \o e)
    BY ConcatAssociative
  <2> QED
    BY <1>2, <2>1, Zenon
<1>4. d \o b \o (q \o p) \o <<>> = d \o b \o q \o p
  <2>1. d \o b \o (q \o p) \in Seq(S)
    BY <1>1, <1>2, ConcatProperties
  <2>2. d \o b \o (q \o p) \o <<>> = d \o b \o (q \o p)
    BY <2>1, ConcatEmptySeq
  <2>3. \A s \in Seq(S) : (s \o q) \o p = s \o (q \o p)
    BY ConcatAssociative
  <2>4. d \o b \o (q \o p) = d \o b \o q \o p
    BY <1>1, <2>3, Zenon
  <2> QED
    BY <2>2, <2>4
<1>5. d \o q \o <<>> = d \o q /\ d \o <<>> = d
  BY <1>2, ConcatEmptySeq
<1>6. b # <<>> => Append(d, Head(b)) \o Tail(b) = d \o b
  BY Moved
<1> QED
  BY <1>3, <1>4, <1>5, <1>6

\* The steps that move an event move it to the next place.
LEMMA NothingLostStep == TypeOK /\ NothingLostInside /\ [Next]_vars => NothingLostInside'
<1> SUFFICES ASSUME TypeOK, NothingLostInside, [Next]_vars PROVE NothingLostInside'
  OBVIOUS
<1>0. /\ buffer \in Seq(Change) /\ delivered \in Seq(Change) /\ batch \in Seq(Change)
      /\ queue \in Seq(Change) /\ parsed \in Seq(Change)
      /\ reported = delivered \o batch \o queue \o parsed
  BY DEF TypeOK, NothingLostInside
<1>1. CASE ParseRecord
  <2> DEFINE event == IF PassFilter(Head(buffer).file) THEN <<Head(buffer)>> ELSE <<>>
  <2>1. event \in Seq(Change)
    <3>1. buffer # <<>>
      BY <1>1 DEF ParseRecord, TypeOK
    <3>2. Head(buffer) \in Change
      BY <1>0, <3>1, HeadTailProperties
    <3> QED
      BY <3>2
  <2>2. parsed' = parsed \o event /\ reported' = reported \o event
        /\ UNCHANGED <<delivered, batch, queue>>
    BY <1>1 DEF ParseRecord
  <2> HIDE DEF event
  <2>3. (delivered \o batch \o queue \o parsed) \o event
          = delivered \o batch \o queue \o (parsed \o event)
    BY <1>0, <2>1, InARow
  <2> QED
    BY <1>0, <2>2, <2>3 DEF NothingLostInside
<1>2. CASE Dispatch
  <2>1. queue' = queue \o parsed /\ parsed' = <<>> /\ UNCHANGED <<reported, delivered, batch>>
    BY <1>2 DEF Dispatch, Enqueue
  <2>2. delivered \o batch \o (queue \o parsed) \o <<>> = delivered \o batch \o queue \o parsed
    BY <1>0, InARow
  <2> QED
    BY <1>0, <2>1, <2>2 DEF NothingLostInside
<1>3. CASE SwapOut
  <2>1. batch' = queue /\ queue' = <<>> /\ UNCHANGED <<reported, delivered, parsed>>
    BY <1>3 DEF SwapOut, TakeQueue, parse
  <2>2. batch = <<>>
    BY <1>3 DEF SwapOut, TypeOK
  <2>3. delivered \o queue \o <<>> \o parsed = delivered \o <<>> \o queue \o parsed
    BY <1>0, InARow
  <2> QED
    BY <1>0, <2>1, <2>2, <2>3 DEF NothingLostInside
<1>4. CASE CallBack
  <2>1. UNCHANGED <<reported, queue, parsed>>
    BY <1>4 DEF CallBack, parse
  <2>2. CASE UNCHANGED <<batch, delivered>>
    BY <1>0, <2>1, <2>2 DEF NothingLostInside
  <2>3. CASE batch # <<>> /\ delivered' = Append(delivered, Head(batch)) /\ batch' = Tail(batch)
    <3>1. Append(delivered, Head(batch)) \o Tail(batch) \o queue \o parsed
            = delivered \o batch \o queue \o parsed
      BY <1>0, <2>3, InARow
    <3> QED
      BY <1>0, <2>1, <2>3, <3>1 DEF NothingLostInside
  <2> QED
    BY <1>4, <2>2, <2>3 DEF CallBack
<1>5. CASE UNCHANGED <<reported, delivered, batch, queue, parsed>>
  BY <1>0, <1>5 DEF NothingLostInside
<1>6. ParseRecord \/ Dispatch \/ SwapOut \/ CallBack \/ UNCHANGED <<reported, delivered, batch, queue, parsed>>
  BY DEF Next, ChangeFile, Monitor, SetRunning, IssueRead, ReadCompletes, CloseRequested, WaitFails,
         NotifyQueued, ReadThrows, CallbackThread, CallbackLoop, TestPredicate, Block, SpuriousWakeup,
         Constructed, SetDestroy, Destroy, SignalClose, NotifyDestroy, JoinMonitor, JoinCallback,
         CloseDirectory, owned, vars, parse
<1> QED
  BY <1>1, <1>2, <1>3, <1>4, <1>5, <1>6

-----------------------------------------------------------------------------
(* From the system's buffer to the parse                                   *)

\* Numbers are numbers.
LEMMA Numbered ==
  ASSUME TypeOK
  PROVE  /\ made \in Nat
         /\ reported \in Seq(Change) /\ buffer \in Seq(Change) /\ pending \in Seq(Change)
         /\ Len(reported) \in Nat /\ Len(buffer) \in Nat /\ Len(pending) \in Nat
         /\ \A i \in 1..Len(reported) : reported[i].num \in Nat
         /\ \A i \in 1..Len(buffer) : buffer[i].num \in Nat
         /\ \A i \in 1..Len(pending) : pending[i].num \in Nat
<1>1. ASSUME NEW s \in Seq(Change) PROVE Len(s) \in Nat /\ \A i \in 1..Len(s) : s[i].num \in Nat
  <2>1. Len(s) \in Nat /\ \A i \in 1..Len(s) : s[i] \in Change
    BY LenProperties
  <2> QED
    BY <2>1 DEF Change
<1> QED
  BY <1>1 DEF TypeOK

\* A sequence that grows by a larger number stays in order.
LEMMA Grown ==
  ASSUME NEW s, NEW t, InOrder(s), Len(s) \in Nat, Len(t) = Len(s) + 1,
         \A i \in 1..Len(s) : t[i].num = s[i].num /\ s[i].num < t[Len(t)].num
  PROVE  InOrder(t)
<1> SUFFICES ASSUME NEW i \in 1..Len(t), NEW j \in 1..Len(t), i < j
             PROVE  t[i].num < t[j].num
  BY DEF InOrder
<1>1. i \in 1..Len(s)
  OBVIOUS
<1>2. CASE j = Len(t)
  BY <1>1, <1>2
<1>3. CASE j \in 1..Len(s)
  <2>1. s[i].num < s[j].num
    BY <1>1, <1>3 DEF InOrder
  <2> QED
    BY <1>1, <1>3, <2>1
<1> QED
  BY <1>2, <1>3

\* A stretch of a sequence in order is in order.
LEMMA Stretch ==
  ASSUME NEW s, NEW t, InOrder(s), NEW k \in Nat, Len(s) \in Nat, Len(t) \in Nat,
         \A i \in 1..Len(t) : k + i \in 1..Len(s) /\ t[i].num = s[k + i].num
  PROVE  InOrder(t)
<1> SUFFICES ASSUME NEW i \in 1..Len(t), NEW j \in 1..Len(t), i < j
             PROVE  t[i].num < t[j].num
  BY DEF InOrder
<1>1. k + i \in 1..Len(s) /\ k + j \in 1..Len(s) /\ k + i < k + j
  OBVIOUS
<1>2. s[k + i].num < s[k + j].num
  BY <1>1 DEF InOrder
<1> QED
  BY <1>2

\* A change comes last, or not at all, or some of the last are discarded.
LEMMA ChangeKeepsOrder ==
  ASSUME TypeOK, Recorded, NEW f \in Files, ChangeFile(f)
  PROVE  Recorded'
<1> DEFINE c == [num |-> made + 1, file |-> f]
<1>1. UNCHANGED <<reported, buffer>> /\ made' = made + 1 /\ Record(c)
  BY DEF ChangeFile, parse
<1>2. c.num = made + 1
  OBVIOUS
<1>3. \/ UNCHANGED pending
      \/ pending' = Append(pending, c)
      \/ \E k \in 0..Len(pending) : pending' = SubSeq(pending, 1, k)
  <2>1. Len(pending) \in Nat
    BY Numbered
  <2>2. CASE armed /\ ~overflow /\ Len(pending) = BufferSize
    <3>1. PICK k \in IF monitor = "wait" THEN 1..Len(pending) ELSE {0} :
                pending' = SubSeq(pending, 1, k)
      BY <1>1, <2>1, <2>2 DEF Record
    <3> QED
      BY <2>1, <3>1
  <2> QED
    BY <1>1, <2>2 DEF Record
<1> HIDE DEF c
<1>7. UpTo(reported, made + 1) /\ UpTo(buffer, made + 1) /\ UpTo(pending, made + 1)
  <2>1. ASSUME NEW s, \A i \in 1..Len(s) : s[i].num \in Nat, UpTo(s, made) PROVE UpTo(s, made + 1)
    <3> SUFFICES ASSUME NEW i \in 1..Len(s) PROVE s[i].num <= made + 1
      BY DEF UpTo
    <3>1. s[i].num \in Nat /\ s[i].num <= made
      BY <2>1 DEF UpTo
    <3> QED
      BY <3>1, Numbered
  <2> QED
    BY <2>1, Numbered DEF Recorded
<1>4. CASE UNCHANGED pending
  BY <1>1, <1>4, <1>7 DEF Recorded, InOrder, Before, UpTo
<1>5. CASE pending' = Append(pending, c)
  <2>1. /\ Len(pending') = Len(pending) + 1 /\ pending'[Len(pending) + 1] = c
        /\ \A i \in 1..Len(pending) : pending'[i] = pending[i]
    <3>1. c \in Change
      BY Numbered DEF c, Change
    <3> QED
      BY <1>5, <3>1, Numbered, AppendProperties
  <2>2. \A i \in 1..Len(pending') : \/ i \in 1..Len(pending) /\ pending'[i].num = pending[i].num
                                    \/ i = Len(pending) + 1 /\ pending'[i].num = made + 1
    BY <1>2, <2>1, Numbered
  <2>3. InOrder(pending')
    <3>1. \A i \in 1..Len(pending) : pending[i].num < made + 1
      BY Numbered DEF Recorded, UpTo
    <3> QED
      BY <1>2, <2>1, <3>1, Numbered, Grown DEF Recorded
  <2>4. UpTo(pending', made + 1)
    <3> SUFFICES ASSUME NEW i \in 1..Len(pending') PROVE pending'[i].num <= made + 1
      BY DEF UpTo
    <3>1. i \in 1..Len(pending) => pending[i].num <= made /\ pending[i].num \in Nat
      BY Numbered DEF Recorded, UpTo
    <3> QED
      BY <2>2, <3>1, Numbered
  <2>5. ASSUME NEW s, \A i \in 1..Len(s) : s[i].num \in Nat, UpTo(s, made), Before(s, pending)
        PROVE  Before(s, pending')
    <3> SUFFICES ASSUME NEW i \in 1..Len(s), NEW j \in 1..Len(pending')
                 PROVE  s[i].num < pending'[j].num
      BY DEF Before
    <3>1. s[i].num <= made /\ s[i].num \in Nat
      BY <2>5 DEF UpTo
    <3>2. j \in 1..Len(pending) => s[i].num < pending[j].num
      BY <2>5 DEF Before
    <3> QED
      BY <2>2, <3>1, <3>2, Numbered
  <2>6. Before(reported, pending') /\ Before(buffer, pending')
    BY <2>5, Numbered DEF Recorded
  <2> QED
    BY <1>1, <1>7, <2>3, <2>4, <2>6 DEF Recorded, InOrder, Before, UpTo
<1>6. ASSUME NEW k \in 0..Len(pending), pending' = SubSeq(pending, 1, k)
      PROVE  Recorded'
  <2>1. Len(pending') = k /\ \A i \in 1..k : pending'[i] = pending[i]
    BY <1>6, Numbered, Split
  <2>2. Len(pending') \in Nat
        /\ \A i \in 1..Len(pending') : i \in 1..Len(pending) /\ pending'[i].num = pending[i].num
    BY <2>1, Numbered
  <2>3. InOrder(pending')
    <3>1. \A i \in 1..Len(pending') : 0 + i \in 1..Len(pending) /\ pending'[i].num = pending[0 + i].num
      BY <2>2
    <3> QED
      BY <2>2, <3>1, Numbered, Stretch DEF Recorded
  <2>4. Before(reported, pending') /\ Before(buffer, pending')
    BY <2>2 DEF Recorded, Before
  <2>6. UpTo(pending', made + 1)
    BY <2>2, <1>7 DEF UpTo
  <2> QED
    BY <1>1, <1>7, <2>3, <2>4, <2>6 DEF Recorded, InOrder, Before, UpTo
<1> QED
  BY <1>3, <1>4, <1>5, <1>6

\* The records that a read takes are the first.
LEMMA ReadKeepsOrder ==
  ASSUME TypeOK, Recorded, ReadCompletes
  PROVE  Recorded'
<1>1. UNCHANGED <<reported, made>> /\ monitor = "wait"
  BY DEF ReadCompletes, hist
<1>2. CASE UNCHANGED <<pending, buffer>>
  BY <1>1, <1>2 DEF Recorded, InOrder, Before, UpTo
<1>3. ASSUME NEW k \in 1..Len(pending), buffer' = SubSeq(pending, 1, k),
             pending' = SubSeq(pending, k + 1, Len(pending))
      PROVE  Recorded'
  <2>1. k \in 0..Len(pending) /\ Len(pending) \in Nat
    BY Numbered
  <2>2. /\ Len(buffer') = k /\ \A i \in 1..k : buffer'[i] = pending[i]
        /\ Len(pending') = Len(pending) - k
        /\ \A i \in 1..(Len(pending) - k) : pending'[i] = pending[k + i]
    BY <1>3, <2>1, Numbered, Split
  <2>3. \A i \in 1..Len(buffer') : i \in 1..Len(pending) /\ buffer'[i].num = pending[i].num
    BY <2>1, <2>2
  <2>4. \A i \in 1..Len(pending') : k + i \in 1..Len(pending) /\ pending'[i].num = pending[k + i].num
    BY <2>1, <2>2
  <2>5. InOrder(buffer') /\ InOrder(pending')
    <3>1. Len(buffer') \in Nat /\ Len(pending') \in Nat
      BY <2>1, <2>2
    <3>2. \A i \in 1..Len(buffer') : 0 + i \in 1..Len(pending) /\ buffer'[i].num = pending[0 + i].num
      BY <2>3
    <3>3. InOrder(buffer')
      BY <2>1, <3>1, <3>2, Stretch DEF Recorded
    <3>4. k \in Nat /\ InOrder(pending)
      BY <2>1 DEF Recorded
    <3>5. InOrder(pending')
      BY <2>1, <2>4, <3>1, <3>4, Stretch
    <3> QED
      BY <3>3, <3>5
  <2>6. Before(buffer', pending')
    <3> SUFFICES ASSUME NEW i \in 1..Len(buffer'), NEW j \in 1..Len(pending')
                 PROVE  buffer'[i].num < pending'[j].num
      BY DEF Before
    <3>1. i \in 1..Len(pending) /\ k + j \in 1..Len(pending) /\ i < k + j
      BY <2>1, <2>2
    <3> QED
      BY <3>1, <2>3, <2>4 DEF Recorded, InOrder
  <2>7. Before(reported, buffer') /\ Before(reported, pending')
    BY <2>3, <2>4 DEF Recorded, Before
  <2>8. UpTo(buffer', made) /\ UpTo(pending', made)
    BY <2>3, <2>4 DEF Recorded, UpTo
  <2> QED
    BY <1>1, <2>5, <2>6, <2>7, <2>8 DEF Recorded, InOrder, Before, UpTo
<1> QED
  BY <1>2, <1>3 DEF ReadCompletes

\* The first record of the buffer becomes the last event, or is passed over.
LEMMA ParseKeepsOrder ==
  ASSUME TypeOK, Recorded, Passed(reported), ParseRecord
  PROVE  Recorded' /\ Passed(reported)'
<1> DEFINE r == Head(buffer)
           event == IF PassFilter(r.file) THEN <<r>> ELSE <<>>
<1>1. buffer # <<>> /\ UNCHANGED <<pending, made, single>>
  BY DEF ParseRecord, TypeOK, kernel, hist, setup
<1>2. /\ r = buffer[1] /\ 1 \in 1..Len(buffer) /\ r \in Change /\ r.num \in Nat
      /\ Len(buffer') = Len(buffer) - 1
      /\ \A i \in 1..Len(buffer') : buffer'[i] = buffer[i + 1] /\ i + 1 \in 1..Len(buffer)
  <2>1. buffer' = Tail(buffer)
    BY DEF ParseRecord, NextEntry
  <2>2. Len(buffer) \in Nat \ {0} /\ buffer \in Seq(Change)
    BY <1>1, Numbered, EmptySeq
  <2>3. r \in Change /\ Len(Tail(buffer)) = Len(buffer) - 1
        /\ \A i \in 1..Len(Tail(buffer)) : Tail(buffer)[i] = buffer[i + 1]
    BY <1>1, <2>2, HeadTailProperties
  <2>4. r = buffer[1]
    BY <2>2
  <2> QED
    BY <2>1, <2>2, <2>3, <2>4, Numbered
<1>3. \/ UNCHANGED reported
      \/ /\ PassFilter(r.file)
         /\ Len(reported') = Len(reported) + 1
         /\ reported'[Len(reported) + 1] = r
         /\ \A i \in 1..Len(reported) : reported'[i] = reported[i]
  <2>1. reported' = reported \o event
    BY DEF ParseRecord
  <2>2. CASE PassFilter(r.file)
    <3>1. reported' = Append(reported, r)
      BY <1>2, <2>1, <2>2, Numbered, AppendIsConcat
    <3> HIDE DEF r
    <3> QED
      BY <1>2, <2>2, <3>1, Numbered, AppendProperties
  <2>3. CASE ~PassFilter(r.file)
    <3>1. reported' = reported
      BY <2>1, <2>3, Numbered, ConcatEmptySeq
    <3> QED
      BY <3>1
  <2> QED
    BY <2>2, <2>3
<1> HIDE DEF r
<1>4. \A i \in 1..Len(buffer') : buffer'[i].num = buffer[i + 1].num /\ i + 1 \in 1..Len(buffer)
                                /\ r.num < buffer'[i].num
  BY <1>2, Numbered DEF Recorded, InOrder
<1>5. \A i \in 1..Len(reported') : \/ i \in 1..Len(reported) /\ reported'[i] = reported[i]
                                   \/ i = Len(reported) + 1 /\ reported'[i] = r /\ PassFilter(r.file)
  BY <1>3, Numbered
<1>6. InOrder(buffer') /\ UpTo(buffer', made) /\ Before(buffer', pending)
  <2>1. \A i \in 1..Len(buffer') : 1 + i \in 1..Len(buffer) /\ buffer'[i].num = buffer[1 + i].num
    BY <1>4
  <2>2. Len(buffer) \in Nat /\ Len(buffer') \in Nat
    BY <1>2, Numbered
  <2>3. InOrder(buffer')
    BY <2>1, <2>2, Stretch DEF Recorded
  <2> QED
    BY <2>1, <2>3 DEF Recorded, UpTo, Before
<1>7. InOrder(reported') /\ UpTo(reported', made)
  <2>1. \A i \in 1..Len(reported) : reported[i].num < r.num
    BY <1>2 DEF Recorded, Before
  <2>2. r.num <= made
    BY <1>2 DEF Recorded, UpTo
  <2>3. UpTo(reported', made)
    BY <1>5, <2>2 DEF Recorded, UpTo
  <2>4. CASE UNCHANGED reported
    BY <2>3, <2>4 DEF Recorded
  <2>5. CASE ~UNCHANGED reported
    <3>1. Len(reported') = Len(reported) + 1 /\ reported'[Len(reported')] = r
          /\ \A i \in 1..Len(reported) : reported'[i] = reported[i]
      BY <1>3, <2>5
    <3> QED
      BY <2>1, <2>3, <3>1, Numbered, Grown DEF Recorded
  <2> QED
    BY <2>4, <2>5
<1>8. Before(reported', buffer') /\ Before(reported', pending)
  BY <1>2, <1>4, <1>5, Numbered DEF Recorded, Before
<1>9. \A i \in 1..Len(reported') : PassFilter(reported'[i].file)
  BY <1>5 DEF Passed
<1> QED
  BY <1>1, <1>6, <1>7, <1>8, <1>9 DEF Recorded, InOrder, UpTo, Before, Passed, PassFilter

\* No other step touches what is recorded or parsed.
LEMMA OrderStep ==
  ASSUME TypeOK, Recorded, Passed(reported), [Next]_vars
  PROVE  Recorded' /\ Passed(reported)'
<1>1. ASSUME NEW f \in Files, ChangeFile(f) PROVE Recorded' /\ Passed(reported)'
  <2>1. UNCHANGED <<reported, single>>
    BY <1>1 DEF ChangeFile, setup
  <2>2. Passed(reported)'
    BY <2>1 DEF Passed, PassFilter
  <2> QED
    BY <1>1, <2>2, ChangeKeepsOrder
<1>2. CASE ReadCompletes
  <2>1. UNCHANGED <<reported, single>>
    BY <1>2 DEF ReadCompletes, setup
  <2>2. Passed(reported)'
    BY <2>1 DEF Passed, PassFilter
  <2> QED
    BY <1>2, <2>2, ReadKeepsOrder
<1>3. CASE ParseRecord
  BY <1>3, ParseKeepsOrder
<1>4. CASE UNCHANGED <<reported, buffer, pending, made, single>>
  BY <1>4 DEF Recorded, InOrder, Before, UpTo, Passed, PassFilter
<1>5. \/ \E f \in Files : ChangeFile(f)
      \/ ReadCompletes \/ ParseRecord \/ UNCHANGED <<reported, buffer, pending, made, single>>
  BY DEF Next, Monitor, SetRunning, IssueRead, CloseRequested, WaitFails, Dispatch,
         NotifyQueued, ReadThrows, CallbackThread, CallbackLoop, TestPredicate, SwapOut, Block,
         SpuriousWakeup, CallBack, Constructed, SetDestroy, Destroy, SignalClose, NotifyDestroy,
         JoinMonitor, JoinCallback, CloseDirectory, owned, vars, parse, kernel, hist, setup
<1> QED
  BY <1>1, <1>2, <1>3, <1>4, <1>5

-----------------------------------------------------------------------------
(* destroy()                                                               *)

\* A thread that has ended takes no further step.
LEMMA JoinedStep == TypeOK /\ Joined /\ [Next]_vars => Joined'
<1> SUFFICES ASSUME TypeOK, Joined, [Next]_vars PROVE Joined'
  OBVIOUS
<1> USE DEF Joined
<1>1. CASE Monitor \/ ReadThrows
  <2>1. UNCHANGED owner /\ monitor \notin {"exited", "failed"}
        /\ (callback' = callback \/ callback # "exited")
    BY <1>1 DEF Monitor, SetRunning, IssueRead, ReadCompletes, ParseRecord, CloseRequested, WaitFails,
                Dispatch, NotifyQueued, Woken, ReadThrows
  <2> QED
    BY <2>1
<1>2. CASE CallbackThread \/ SpuriousWakeup
  <2>1. UNCHANGED <<owner, monitor>> /\ callback # "exited"
    BY <1>2 DEF CallbackThread, CallbackLoop, TestPredicate, SwapOut, Block, CallBack, SpuriousWakeup
  <2> QED
    BY <2>1
<1>3. CASE Constructed \/ SetDestroy \/ Destroy
  <2>1. UNCHANGED monitor
    BY <1>3 DEF Constructed, SetDestroy, Destroy, SignalClose, NotifyDestroy, JoinMonitor,
                JoinCallback, CloseDirectory, owned
  <2>2. CASE Constructed \/ SetDestroy \/ SignalClose \/ NotifyDestroy
    BY <2>2, <2>1 DEF Constructed, SetDestroy, SignalClose, NotifyDestroy
  <2>3. CASE JoinMonitor \/ JoinCallback \/ CloseDirectory
    BY <2>3, <2>1 DEF JoinMonitor, JoinCallback, CloseDirectory
  <2> QED
    BY <1>3, <2>2, <2>3 DEF Destroy
<1>4. CASE UNCHANGED <<owner, monitor, callback>>
  BY <1>4
<1>5. (\E f \in Files : ChangeFile(f)) \/ UNCHANGED vars => UNCHANGED <<owner, monitor, callback>>
  BY DEF ChangeFile, vars
<1> QED
  BY <1>1, <1>2, <1>3, <1>4, <1>5 DEF Next

\* The handle is closed by CloseDirectory, and by a read that fails.
LEMMA ClosedStep == TypeOK /\ Joined /\ DirectoryClosed /\ [Next]_vars => DirectoryClosed'
<1> SUFFICES ASSUME TypeOK, Joined, DirectoryClosed, [Next]_vars PROVE DirectoryClosed'
  OBVIOUS
<1> USE DEF DirectoryClosed
<1>1. CASE IssueRead
  <2>1. UNCHANGED owner /\ monitor # "failed"
        /\ \/ monitor' # "failed" /\ UNCHANGED closes
           \/ monitor' = "failed" /\ closes' = closes + 1
    BY <1>1 DEF IssueRead
  <2> QED
    BY <2>1 DEF TypeOK
<1>2. CASE CloseDirectory
  BY <1>2 DEF CloseDirectory, owned, TypeOK
<1>3. CASE /\ UNCHANGED closes /\ (owner' = "gone" <=> owner = "gone")
           /\ (monitor' = "failed" <=> monitor = "failed")
  BY <1>3
<1>4. CASE Monitor \/ ReadThrows
  <2>1. CASE IssueRead
    BY <2>1, <1>1
  <2>2. CASE ~IssueRead
    <3>1. /\ UNCHANGED <<closes, owner>> /\ monitor # "failed" /\ monitor' # "failed"
      BY <1>4, <2>2 DEF Monitor, SetRunning, ReadCompletes, ParseRecord, NextEntry, CloseRequested,
                        WaitFails, Dispatch, NotifyQueued, ReadThrows
    <3> QED
      BY <3>1, <1>3
  <2> QED
    BY <2>1, <2>2
<1>5. CASE CallbackThread \/ SpuriousWakeup
  BY <1>5, <1>3 DEF CallbackThread, CallbackLoop, TestPredicate, SwapOut, Block, CallBack, SpuriousWakeup
<1>6. CASE Constructed \/ SetDestroy \/ Destroy
  BY <1>6, <1>2, <1>3 DEF Constructed, SetDestroy, Destroy, SignalClose, NotifyDestroy, JoinMonitor,
                          JoinCallback, owned
<1>7. (\E f \in Files : ChangeFile(f)) \/ UNCHANGED vars => UNCHANGED <<owner, monitor, closes>>
  BY DEF ChangeFile, vars
<1> QED
  BY <1>3, <1>4, <1>5, <1>6, <1>7 DEF Next

-----------------------------------------------------------------------------
(* Theorems                                                                *)

\* Before the threads start nothing is recorded and nothing is closed.
LEMMA InitIInv == Init => IInv
<1> SUFFICES ASSUME Init PROVE IInv
  OBVIOUS
<1>1. <<>> \in Seq(Change) /\ Len(<<>>) = 0 /\ BufferSize \in Nat
  BY FilesAssumption
<1>2. Joined /\ DirectoryClosed
  BY DEF Init, Joined, DirectoryClosed
<1>3. Recorded /\ Passed(reported)
  BY <1>1 DEF Init, Recorded, InOrder, Before, UpTo, Passed
<1>4. <<>> \o <<>> \o <<>> \o <<>> = <<>>
  BY <1>1, ConcatEmptySeq
<1>5. NothingLostInside
  BY <1>4 DEF Init, NothingLostInside
<1>6. TypeOK
  <2>1. /\ {pending, buffer, queue, parsed, batch, reported, delivered} \subseteq Seq(Change)
        /\ Len(pending) <= BufferSize
    BY <1>1 DEF Init
  <2> QED
    BY <2>1 DEF Init, TypeOK
<1> QED
  BY <1>2, <1>3, <1>5, <1>6 DEF IInv

\* The invariant that the theorems rest on.
LEMMA Invariance == Spec => []IInv
<1>1. IInv /\ [Next]_vars => IInv'
  BY TypeStep, NothingLostStep, OrderStep, JoinedStep, ClosedStep DEF IInv
<1> QED
  BY <1>1, InitIInv, PTL DEF Spec

\* What the callback has been given is the first of what was reported.
LEMMA DeliveredFirst ==
  ASSUME IInv
  PROVE  /\ delivered \in Seq(Change) /\ reported \in Seq(Change)
         /\ Len(delivered) \in Nat /\ Len(reported) \in Nat
         /\ Len(reported) >= Len(delivered) + Len(batch)
         /\ \A i \in 1..Len(delivered) : reported[i] = delivered[i]
         /\ batch # <<>> => reported[Len(delivered) + 1] = Head(batch) /\ Len(batch) > 0
<1>1. /\ delivered \in Seq(Change) /\ batch \in Seq(Change) /\ queue \in Seq(Change)
      /\ parsed \in Seq(Change) /\ reported \in Seq(Change)
      /\ reported = delivered \o batch \o queue \o parsed
  BY DEF IInv, TypeOK, NothingLostInside
<1>2. Len(delivered) \in Nat /\ Len(batch) \in Nat /\ Len(queue) \in Nat /\ Len(parsed) \in Nat
  BY <1>1, LenProperties
<1> DEFINE b == delivered \o batch
           q == b \o queue
<1>3. b \in Seq(Change) /\ Len(b) = Len(delivered) + Len(batch)
      /\ \A i \in 1..(Len(delivered) + Len(batch)) :
            b[i] = IF i <= Len(delivered) THEN delivered[i] ELSE batch[i - Len(delivered)]
  BY <1>1, ConcatProperties
<1> HIDE DEF b
<1>4. q \in Seq(Change) /\ Len(q) = Len(b) + Len(queue)
      /\ \A i \in 1..(Len(b) + Len(queue)) : q[i] = IF i <= Len(b) THEN b[i] ELSE queue[i - Len(b)]
  BY <1>1, <1>3, ConcatProperties
<1> HIDE DEF q
<1>5. reported = q \o parsed
  BY <1>1 DEF b, q
<1>6. Len(reported) = Len(q) + Len(parsed)
      /\ \A i \in 1..(Len(q) + Len(parsed)) : reported[i] = IF i <= Len(q) THEN q[i] ELSE parsed[i - Len(q)]
  BY <1>1, <1>4, <1>5, ConcatProperties
<1>7. \A i \in 1..(Len(delivered) + Len(batch)) :
        reported[i] = IF i <= Len(delivered) THEN delivered[i] ELSE batch[i - Len(delivered)]
  BY <1>2, <1>3, <1>4, <1>6
<1>8. batch # <<>> => batch[1] = Head(batch) /\ Len(batch) > 0
  BY <1>1, <1>2, EmptySeq
<1>9. Len(reported) \in Nat /\ Len(reported) >= Len(delivered) + Len(batch)
  BY <1>2, <1>3, <1>4, <1>6
<1>10. \A i \in 1..Len(delivered) : reported[i] = delivered[i]
  BY <1>2, <1>7
<1>11. batch # <<>> => reported[Len(delivered) + 1] = batch[1]
  BY <1>2, <1>7, <1>8
<1> QED
  BY <1>1, <1>2, <1>8, <1>9, <1>10, <1>11

\* Every variable keeps its type; in particular the monitor has records to
\* parse exactly while it parses, and the system's buffer is never exceeded.
THEOREM TypeCorrectness == Spec => []TypeOK
  BY Invariance, PTL DEF IInv

\* The events parsed are those called back, those swapped out, those queued
\* and those just parsed, in this order: the two threads lose, double and
\* reorder nothing, whatever the notifications and the destructor do.
THEOREM NothingLost == Spec => []NothingLostInside
  BY Invariance, PTL DEF IInv

\* Callbacks come in the order of the changes, once for each at most, and only
\* for paths that pass the filter.
THEOREM OrderedDelivery == Spec => []DeliveredInOrder
<1>1. IInv => DeliveredInOrder
  <2> SUFFICES ASSUME IInv, NEW i \in 1..Len(delivered), NEW j \in 1..Len(delivered)
               PROVE  /\ PassFilter(delivered[i].file)
                      /\ i < j => delivered[i].num < delivered[j].num
    BY DEF DeliveredInOrder
  <2>1. /\ i \in 1..Len(reported) /\ j \in 1..Len(reported)
        /\ reported[i] = delivered[i] /\ reported[j] = delivered[j]
    <3>1. Len(batch) \in Nat
      BY LenProperties DEF IInv, TypeOK
    <3> QED
      BY <3>1, DeliveredFirst
  <2>2. PassFilter(reported[i].file) /\ (i < j => reported[i].num < reported[j].num)
    BY <2>1 DEF IInv, Recorded, InOrder, Passed
  <2> QED
    BY <2>1, <2>2
<1> QED
  BY <1>1, Invariance, PTL

\* The directory handle is closed once when destroy() has returned, and twice
\* exactly if the monitor had closed it after a failed read.
THEOREM ClosedDirectory == Spec => []DirectoryClosed
  BY Invariance, PTL DEF IInv

\* At first nothing is reported, called back or gone.
LEMMA FeedInit == Init => Feed!Init
  BY DEF Init, Feed!Init

\* A parsed record is a report, a callback is a notification, and the end of
\* destroy() a destruction; Joined says that the first two do not follow it.
LEMMA FeedStep == IInv /\ [Next]_vars => [Feed!Next]_(Feed!vars)
<1> SUFFICES ASSUME IInv, [Next]_vars
             PROVE  \/ Feed!Report \/ Feed!Notify \/ Feed!Destroy
                    \/ UNCHANGED <<reported, delivered, owner = "gone">>
  BY DEF Feed!Next, Feed!vars
<1>1. CASE ParseRecord
  <2> DEFINE event == IF PassFilter(Head(buffer).file) THEN <<Head(buffer)>> ELSE <<>>
  <2>1. owner # "gone" /\ UNCHANGED <<owner, delivered>>
    BY <1>1 DEF ParseRecord, IInv, Joined
  <2>2. event \in Seq(Change)
    <3>1. buffer # <<>> /\ buffer \in Seq(Change)
      BY <1>1 DEF ParseRecord, IInv, TypeOK
    <3>2. Head(buffer) \in Change
      BY <3>1, HeadTailProperties
    <3> QED
      BY <3>2
  <2>3. reported' = reported \o event
    BY <1>1 DEF ParseRecord
  <2> HIDE DEF event
  <2>4. reported \in Seq(Change) /\ Len(reported) \in Nat /\ Len(event) \in Nat
    BY <2>2, LenProperties DEF IInv, TypeOK
  <2>5. /\ reported' \in Seq(Change) /\ Len(reported') = Len(reported) + Len(event)
        /\ \A i \in 1..Len(reported) : reported'[i] = reported[i]
    <3>1. reported' \in Seq(Change) /\ Len(reported') = Len(reported) + Len(event)
          /\ \A i \in 1..(Len(reported) + Len(event)) :
                reported'[i] = IF i <= Len(reported) THEN reported[i] ELSE event[i - Len(reported)]
      BY <2>2, <2>3, <2>4, ConcatProperties
    <3> QED
      BY <2>4, <3>1
  <2>6. SubSeq(reported, 1, Len(reported)) = SubSeq(reported', 1, Len(reported))
    <3> DEFINE s == SubSeq(reported, 1, Len(reported))
               t == SubSeq(reported', 1, Len(reported))
    <3>1. Len(reported) \in 0..Len(reported) /\ Len(reported) \in 0..Len(reported')
      BY <2>4, <2>5
    <3>2. s \in Seq(Change) /\ Len(s) = Len(reported) /\ \A i \in 1..Len(reported) : s[i] = reported[i]
      BY <2>4, <3>1, Split
    <3>3. t \in Seq(Change) /\ Len(t) = Len(reported) /\ \A i \in 1..Len(reported) : t[i] = reported'[i]
      BY <2>5, <3>1, Split
    <3> HIDE DEF s, t
    <3>4. s = t
      BY <2>5, <3>2, <3>3, SeqEqual
    <3> QED
      BY <3>4 DEF s, t
  <2>7. IsPrefix(reported, reported')
    BY <2>4, <2>5, <2>6 DEF IsPrefix
  <2> QED
    BY <2>1, <2>5, <2>7 DEF Feed!Report, Feed!IsPrefix, IsPrefix
<1>2. CASE CallBack
  <2>1. owner # "gone" /\ UNCHANGED <<owner, reported>>
    BY <1>2 DEF CallBack, IInv, Joined
  <2>2. CASE UNCHANGED delivered
    BY <2>1, <2>2
  <2>3. CASE batch # <<>> /\ delivered' = Append(delivered, Head(batch))
    <3>1. Len(delivered) < Len(reported) /\ reported[Len(delivered) + 1] = Head(batch)
      <4>1. Len(batch) \in Nat
        BY LenProperties DEF IInv, TypeOK
      <4> QED
        BY <4>1, <2>3, DeliveredFirst
    <3> QED
      BY <2>1, <2>3, <3>1 DEF Feed!Notify
  <2> QED
    BY <1>2, <2>2, <2>3 DEF CallBack
<1>3. CASE CloseDirectory
  BY <1>3 DEF CloseDirectory, owned, Feed!Destroy
<1>4. CASE UNCHANGED <<reported, delivered>> /\ (owner' = "gone" <=> owner = "gone")
  BY <1>4
<1>5. \/ ParseRecord \/ CallBack \/ CloseDirectory
      \/ UNCHANGED <<reported, delivered>> /\ (owner' = "gone" <=> owner = "gone")
  BY DEF Next, ChangeFile, Monitor, SetRunning, IssueRead, ReadCompletes, CloseRequested, WaitFails,
         Dispatch, NotifyQueued, ReadThrows, CallbackThread, CallbackLoop, TestPredicate, SwapOut, Block,
         SpuriousWakeup, Constructed, SetDestroy, Destroy, SignalClose, NotifyDestroy, JoinMonitor,
         JoinCallback, owned, vars
<1> QED
  BY <1>1, <1>2, <1>3, <1>4, <1>5

\* FileWatch implements EventFeed: each event parsed is called back once, in
\* order, and none after destroy() has returned.
THEOREM Refinement == Spec => FeedSpec
  BY FeedInit, FeedStep, Invariance, PTL DEF Spec, FeedSpec, Feed!Spec
=============================================================================

-------------------------- MODULE LogReader_proofs --------------------------
(***************************************************************************)
(* Theorems about log_reader, for every set of logs and every MaxLines.    *)
(***************************************************************************)
EXTENDS LogReader, TLAPS

\* The number of lines the script has got is the position run() works from.
n == Len(delivered)

\* Without a file nothing has been read.
Detached == log = NoLog => n = 0 /\ pc \in {"start", "loop", "returned"}

\* The saved position is the number of delivered lines, or lost for good.
AtLoop == /\ pc = "start" => n = 0 /\ pos = 0 /\ p = 0
          /\ pc = "loop" => p = n \/ p = Lost
          /\ pc = "tail" => p = n

\* A line that was read to its end is the next one, and the file has it.
HeldWhole == pc = "line" /\ ~eofbit =>
               /\ line = [log |-> log, num |-> n + 1, whole |-> TRUE]
               /\ pos = n + 1
               /\ pos <= written[log]

\* While run() handles a line its position is not lost.
Handling == /\ pc = "line" => p = n
            /\ pc = "relock" => p # Lost /\ pos = n /\ ~eofbit

\* Only an interruption fails the stream while a line is held.
FailedMeansInterrupted ==
  /\ pc \in {"line", "relock"} /\ ~eofbit /\ failbit => interrupted
  /\ pc = "returned" => stop \/ interrupted

IInv == /\ TypeOK
        /\ DeliveredInOrder
        /\ Detached /\ AtLoop /\ HeldWhole /\ Handling /\ FailedMeansInterrupted

-----------------------------------------------------------------------------
\* The three outcomes of getline, with what they leave of the stream.
LEMMA GetLineType ==
  ASSUME NEW q \in Nat, log \in Logs, TypeOK, GetLine(q)
  PROVE  /\ pos' \in Nat /\ failbit' \in BOOLEAN /\ eofbit' \in BOOLEAN
         /\ pc' \in {"line", "loop"} /\ line' \in Line \cup {NoLine}
<1>1. CASE GetWhole(q)
  <2>1. q + 1 \in Nat \ {0}
    OBVIOUS
  <2> QED
    BY <1>1, <2>1 DEF GetWhole, TypeOK, Line
<1>2. CASE GetPart(q)
  <2>1. q + 1 \in Nat \ {0}
    OBVIOUS
  <2> QED
    BY <1>2, <2>1 DEF GetPart, TypeOK, Line
<1>3. CASE GetNone(q)
  BY <1>3 DEF GetNone, ClearStream, TypeOK
<1> QED
  BY <1>1, <1>2, <1>3 DEF GetLine

\* Every step keeps the types of the variables.
LEMMA TypeStep == IInv /\ [Next]_vars => TypeOK'
<1> SUFFICES ASSUME IInv, [Next]_vars
             PROVE  TypeOK'
  OBVIOUS
<1> USE LogsAssumption DEF IInv
<1>1. CASE Game
  <2>1. PICK f \in Logs : CreateLog(f) \/ WritePart(f) \/ WriteLine(f)
    BY <1>1 DEF Game
  <2>2. CASE CreateLog(f)
    BY <2>2 DEF CreateLog, TypeOK, stream, hist
  <2>3. CASE WritePart(f)
    BY <2>3 DEF WritePart, TypeOK, stream, hist
  <2>4. CASE WriteLine(f)
    <3>1. written' \in [Logs -> Nat]
      BY <2>4 DEF WriteLine, TypeOK
    <3> QED
      BY <2>4, <3>1 DEF WriteLine, TypeOK, stream, hist
  <2> QED
    BY <2>1, <2>2, <2>3, <2>4
<1>2. CASE Open
  <2>1. interrupted' \in BOOLEAN
    BY <1>2, Zenon DEF Open
  <2>2. Head(added) \in Logs /\ Tail(added) \in Seq(Logs)
    BY <1>2 DEF Open, TypeOK
  <2> QED
    <3>1. /\ log' \in Logs \cup {NoLog} /\ pos' \in Nat
          /\ failbit' \in BOOLEAN /\ eofbit' \in BOOLEAN
      <4>1. CASE log' = Head(added) /\ pos' = 0 /\ failbit' = FALSE /\ eofbit' = FALSE
        BY <2>2, <4>1
      <4>2. CASE failbit' = TRUE /\ UNCHANGED <<log, pos, eofbit>>
        BY <4>2 DEF TypeOK
      <4> QED
        BY <1>2, <4>1, <4>2 DEF Open, StreamOpen
    <3> QED
      BY <1>2, <2>1, <2>2, <3>1 DEF Open, TypeOK, game
<1>3. CASE Start \/ Return
  BY <1>3 DEF Start, Return, TellG, TypeOK, game, stream, hist
<1>4. CASE SeekFails \/ AfterEof
  BY <1>4 DEF SeekFails, AfterEof, ClearStream, TypeOK, game, hist
<1>5. CASE Seek
  <2>1. p \in Nat /\ log \in Logs
    BY <1>5 DEF Seek, SeekSucceeds, TypeOK
  <2> QED
    BY <1>5, <2>1, GetLineType DEF Seek, TypeOK, game, hist
<1>6. CASE Handle
  <2>1. n \in Nat /\ n + 1 \in Nat \ {0}
    BY DEF TypeOK, n
  <2>2. ASSUME ~eofbit PROVE line \in Line
    <3>1. log \in Logs
      BY <1>6 DEF Handle, TypeOK, Detached
    <3>2. line = [log |-> log, num |-> n + 1, whole |-> TRUE]
      BY <1>6, <2>2 DEF Handle, HeldWhole
    <3> QED
      BY <2>1, <3>1, <3>2 DEF Line
  <2>3. delivered' \in Seq(Line)
    <3>1. CASE eofbit
      BY <1>6, <3>1 DEF Handle, TypeOK
    <3>2. CASE ~eofbit
      <4>1. line \in Line /\ delivered \in Seq(Line)
        BY <2>2, <3>2 DEF TypeOK
      <4>2. delivered' = Append(delivered, line)
        BY <1>6, <3>2 DEF Handle
      <4> QED
        BY <4>1, <4>2
    <3> QED
      BY <3>1, <3>2
  <2> QED
    BY <1>6, <2>3 DEF Handle, TypeOK, game, stream
<1>7. CASE Relock
  <2>1. pos \in Nat /\ log \in Logs
    BY <1>7 DEF Relock, Detached, TypeOK
  <2> QED
    BY <1>7, <2>1, GetLineType DEF Relock, TellG, TypeOK, game, hist
<1>8. CASE RelockFailed
  BY <1>8 DEF RelockFailed, TellG, TypeOK, game, stream, hist
<1>9. CASE RequestStop
  BY <1>9 DEF RequestStop, TypeOK, game, stream, hist
<1>10. CASE UNCHANGED vars
  BY <1>10 DEF vars, game, stream, hist, TypeOK
<1> QED
  BY <1>1, <1>2, <1>3, <1>4, <1>5, <1>6, <1>7, <1>8, <1>9, <1>10 DEF Next, Run

\* What getline at the position of the next line establishes.
LEMMA GetLinePosition ==
  ASSUME TypeOK, log \in Logs, n' = n, log' = log, written' = written,
         p' = n, GetLine(n)
  PROVE  (Detached /\ AtLoop /\ HeldWhole /\ Handling)'
<1> USE DEF Detached, AtLoop, HeldWhole, Handling
<1>0. n \in Nat /\ written[log] \in Nat /\ log # NoLog
  BY LogsAssumption DEF TypeOK, n
<1>1. CASE GetWhole(n)
  BY <1>0, <1>1 DEF GetWhole
<1>2. CASE GetPart(n)
  BY <1>0, <1>2 DEF GetPart
<1>3. CASE GetNone(n)
  BY <1>0, <1>3 DEF GetNone, ClearStream
<1> QED
  BY <1>1, <1>2, <1>3 DEF GetLine

\* Every step keeps the saved position equal to the number of lines
\* delivered, and the held line the next one.
LEMMA PositionStep ==
  IInv /\ [Next]_vars => (Detached /\ AtLoop /\ HeldWhole /\ Handling)'
<1> SUFFICES ASSUME IInv, [Next]_vars
             PROVE  (Detached /\ AtLoop /\ HeldWhole /\ Handling)'
  OBVIOUS
<1> USE LogsAssumption DEF IInv
<1>0. n \in Nat
  BY DEF TypeOK, n
<1>1. CASE Game
  <2>1. PICK f \in Logs : CreateLog(f) \/ WritePart(f) \/ WriteLine(f)
    BY <1>1 DEF Game
  <2>2. UNCHANGED <<log, pos, eofbit, pc, p, line, delivered>>
    BY <2>1 DEF CreateLog, WritePart, WriteLine, stream, hist
  <2>3. ASSUME log \in Logs PROVE written'[log] \in Nat /\ written'[log] >= written[log]
    <3>1. written \in [Logs -> Nat]
      BY DEF TypeOK
    <3>2. CASE UNCHANGED written
      BY <2>3, <3>1, <3>2
    <3>3. CASE written' = [written EXCEPT ![f] = @ + 1]
      BY <2>3, <3>1, <3>3
    <3> QED
      BY <2>1, <3>2, <3>3 DEF CreateLog, WritePart, WriteLine
  <2>4. pc = "line" => log \in Logs
    BY DEF Detached, TypeOK
  <2> QED
    BY <1>0, <2>2, <2>3, <2>4 DEF TypeOK, Detached, AtLoop, HeldWhole, Handling, n
<1>2. CASE Open
  <2>1. UNCHANGED <<written, pc, p, line, delivered>> /\ added # <<>> /\ StreamOpen(Head(added))
    BY <1>2 DEF Open, game
  <2>2. CASE log = NoLog /\ log' = Head(added) /\ pos' = 0
    BY <1>2, <2>1, <2>2 DEF TypeOK, Detached, AtLoop, HeldWhole, Handling, n
  <2>3. CASE UNCHANGED <<log, pos, eofbit>>
    BY <2>1, <2>3 DEF Detached, AtLoop, HeldWhole, Handling, n
  <2> QED
    BY <2>1, <2>2, <2>3 DEF StreamOpen
<1>3. CASE Start \/ Return
  BY <1>0, <1>3 DEF Start, Return, TellG, stream, hist, Detached, AtLoop, HeldWhole, Handling, n
<1>4. CASE SeekFails \/ AfterEof
  BY <1>0, <1>4 DEF SeekFails, AfterEof, hist, Detached, AtLoop, HeldWhole, Handling, n
<1>5. CASE Seek
  <2>1. p = n /\ log \in Logs
    BY <1>5 DEF Seek, SeekSucceeds, TypeOK, AtLoop
  <2>2. n' = n /\ log' = log /\ written' = written /\ p' = n
    BY <1>5, <2>1 DEF Seek, game, hist, n
  <2>3. GetLine(n)
    BY <1>5, <2>1 DEF Seek
  <2> QED
    BY <2>1, <2>2, <2>3, GetLinePosition
<1>6. CASE Handle
  <2>1. CASE eofbit /\ pc' = "tail" /\ UNCHANGED delivered
    BY <1>6, <2>1 DEF Handle, stream, Detached, AtLoop, HeldWhole, Handling, n
  <2>2. CASE ~eofbit /\ delivered' = Append(delivered, line) /\ pc' = "relock"
    <3>1. n' = n + 1
      BY <2>2 DEF TypeOK, n
    <3> QED
      BY <1>0, <1>6, <2>2, <3>1
      DEF Handle, stream, Detached, AtLoop, HeldWhole, Handling, TypeOK, Lost
  <2> QED
    BY <1>6, <2>1, <2>2 DEF Handle
<1>7. CASE Relock
  <2>1. pos = n /\ log \in Logs
    BY <1>7 DEF Relock, Detached, Handling, TypeOK
  <2>2. n' = n /\ log' = log /\ written' = written /\ p' = n
    BY <1>7, <2>1 DEF Relock, TellG, game, hist, n
  <2>3. GetLine(n)
    BY <1>7, <2>1 DEF Relock
  <2> QED
    BY <2>1, <2>2, <2>3, GetLinePosition
<1>8. CASE RelockFailed
  BY <1>8 DEF RelockFailed, stream, hist, Detached, AtLoop, HeldWhole, Handling, n
<1>9. CASE RequestStop
  BY <1>9 DEF RequestStop, game, stream, hist, Detached, AtLoop, HeldWhole, Handling, n
<1>10. CASE UNCHANGED vars
  BY <1>10 DEF vars, game, stream, hist, Detached, AtLoop, HeldWhole, Handling, n
<1> QED
  BY <1>1, <1>2, <1>3, <1>4, <1>5, <1>6, <1>7, <1>8, <1>9, <1>10 DEF Next, Run

\* The only steps that touch the history or the file of the stream.
LEMMA HistoryStep ==
  ASSUME IInv, [Next]_vars
  PROVE  \/ UNCHANGED <<log, delivered>>
         \/ log = NoLog /\ n = 0 /\ UNCHANGED delivered
         \/ Handle /\ ~eofbit /\ UNCHANGED log /\ delivered' = Append(delivered, line)
<1> USE DEF IInv, game, stream, hist
<1>1. CASE Handle
  BY <1>1 DEF Handle
<1>2. CASE Open
  BY <1>2 DEF Open, StreamOpen, Detached
<1>3. CASE Game \/ RequestStop
  BY <1>3 DEF Game, CreateLog, WritePart, WriteLine, RequestStop
<1>4. CASE Start \/ Return \/ SeekFails \/ Seek
  BY <1>4 DEF Start, Return, SeekFails, Seek
<1>5. CASE Relock \/ RelockFailed \/ AfterEof
  BY <1>5 DEF Relock, RelockFailed, AfterEof
<1>6. CASE UNCHANGED vars
  BY <1>6 DEF vars
<1> QED
  BY <1>1, <1>2, <1>3, <1>4, <1>5, <1>6 DEF Next, Run

\* The line that is appended is the next one of the same log.
LEMMA OrderStep == IInv /\ [Next]_vars => DeliveredInOrder'
<1> SUFFICES ASSUME IInv, [Next]_vars
             PROVE  DeliveredInOrder'
  OBVIOUS
<1>1. CASE UNCHANGED <<log, delivered>>
  BY <1>1 DEF IInv, DeliveredInOrder
<1>2. CASE log = NoLog /\ n = 0 /\ UNCHANGED delivered
  BY <1>2 DEF DeliveredInOrder, n
<1>3. CASE Handle /\ ~eofbit /\ UNCHANGED log /\ delivered' = Append(delivered, line)
  <2>1. delivered \in Seq(Line) /\ n = Len(delivered) /\ n \in Nat
    BY DEF IInv, TypeOK, n
  <2>2. line = [log |-> log, num |-> n + 1, whole |-> TRUE]
    BY <1>3 DEF IInv, Handle, HeldWhole
  <2>3. Len(delivered') = n + 1 /\ delivered'[n + 1] = line
    BY <1>3, <2>1
  <2>4. \A i \in 1..n : delivered'[i] = delivered[i]
    BY <1>3, <2>1
  <2>5. \A i \in 1..n : delivered[i] = [log |-> log, num |-> i, whole |-> TRUE]
    BY <2>1 DEF IInv, DeliveredInOrder
  <2>6. \A i \in 1..(n + 1) : i \in 1..n \/ i = n + 1
    BY <2>1
  <2> QED
    BY <1>3, <2>2, <2>3, <2>4, <2>5, <2>6 DEF DeliveredInOrder
<1> QED
  BY <1>1, <1>2, <1>3, HistoryStep

\* The stream that run() works with is failed only by open().
LEMMA FailedStep == IInv /\ [Next]_vars => FailedMeansInterrupted'
<1> SUFFICES ASSUME IInv, [Next]_vars
             PROVE  FailedMeansInterrupted'
  OBVIOUS
<1> USE DEF IInv, FailedMeansInterrupted, game, stream, hist
<1>1. CASE Game
  BY <1>1 DEF Game, CreateLog, WritePart, WriteLine
<1>2. CASE Open
  <2>1. UNCHANGED <<pc, stop>> /\ StreamOpen(Head(added))
    BY <1>2 DEF Open
  <2>2. (pc \in {"line", "relock"} /\ ~eofbit) \/ interrupted => interrupted'
    BY <1>2 DEF Open
  <2>3. CASE log = NoLog
    BY <2>1, <2>2, <2>3 DEF Detached
  <2>4. CASE UNCHANGED <<log, pos, eofbit>>
    BY <2>1, <2>2, <2>4
  <2> QED
    BY <2>1, <2>3, <2>4 DEF StreamOpen
<1>3. CASE Start \/ Return
  BY <1>3 DEF Start, Return
<1>4. CASE SeekFails \/ AfterEof
  BY <1>4 DEF SeekFails, AfterEof
<1>5. CASE Seek
  BY <1>5 DEF Seek, SeekSucceeds, GetLine, GetWhole, GetPart, GetNone, ClearStream
<1>6. CASE Handle
  BY <1>6 DEF Handle
<1>7. CASE Relock
  BY <1>7 DEF Relock, GetLine, GetWhole, GetPart, GetNone, ClearStream
<1>8. CASE RelockFailed
  BY <1>8 DEF RelockFailed, Handling
<1>9. CASE RequestStop
  BY <1>9 DEF RequestStop
<1>10. CASE UNCHANGED vars
  BY <1>10 DEF vars
<1> QED
  BY <1>1, <1>2, <1>3, <1>4, <1>5, <1>6, <1>7, <1>8, <1>9, <1>10 DEF Next, Run

\* The constructor establishes the invariant.
LEMMA InitIInv == Init => IInv
<1> SUFFICES ASSUME Init PROVE IInv
  OBVIOUS
<1>1. PICK f \in Logs, k \in 0..MaxLines :
        /\ created = {f}
        /\ written = [g \in Logs |-> IF g = f THEN k ELSE 0]
        /\ log \in {f, NoLog}
  BY DEF Init
<1>2. failbit \in BOOLEAN
  BY DEF Init
<1>3. TypeOK
  <2>1. created \subseteq Logs /\ written \in [Logs -> Nat] /\ log \in Logs \cup {NoLog}
    BY <1>1, LogsAssumption
  <2>2. /\ partial \in [Logs -> BOOLEAN] /\ added \in Seq(Logs)
        /\ delivered \in Seq(Line)
    BY DEF Init
  <2>3. /\ pos \in Nat /\ eofbit \in BOOLEAN /\ stop \in BOOLEAN
        /\ pc = "start" /\ p \in Nat /\ line = NoLine
        /\ announced = NoLog /\ interrupted \in BOOLEAN
    BY DEF Init
  <2> QED
    BY <1>2, <2>1, <2>2, <2>3 DEF TypeOK
<1>4. n = 0 /\ DeliveredInOrder
  BY DEF Init, n, DeliveredInOrder
<1>5. Detached /\ AtLoop /\ HeldWhole /\ Handling /\ FailedMeansInterrupted
  BY <1>4 DEF Init, Detached, AtLoop, HeldWhole, Handling, FailedMeansInterrupted
<1> QED
  BY <1>3, <1>4, <1>5 DEF IInv

\* The inductive invariant holds in every reachable state.
THEOREM Invariance == Spec => []IInv
<1>1. IInv /\ [Next]_vars => IInv'
  BY TypeStep, OrderStep, PositionStep, FailedStep DEF IInv
<1> QED
  BY InitIInv, <1>1, PTL DEF Spec

-----------------------------------------------------------------------------
\* Every variable of log_reader and its threads keeps its type.
THEOREM TypeCorrectness == Spec => []TypeOK
<1>1. IInv => TypeOK
  BY DEF IInv
<1> QED
  BY Invariance, <1>1, PTL

\* The script gets the lines of one log, in order, each once, none of them
\* unterminated (log_reader.cpp:28-46).
THEOREM OrderedDelivery == Spec => []DeliveredInOrder
<1>1. IInv => DeliveredInOrder
  BY DEF IInv
<1> QED
  BY Invariance, <1>1, PTL

\* run() returns for no other reason than a stop request or an open() that
\* interrupted it (log_reader.cpp:48-50).
THEOREM ReturnReason == Spec => []ReturnsOnlyIfAskedOrInterrupted
<1>1. IInv => ReturnsOnlyIfAskedOrInterrupted
  BY DEF IInv, FailedMeansInterrupted, ReturnsOnlyIfAskedOrInterrupted
<1> QED
  BY Invariance, <1>1, PTL

\* A reader whose position is lost stays without one and delivers nothing
\* (log_reader.cpp:28, 31, 46).
THEOREM LostForGood == Spec => LostIsForever
<1>1. IInv /\ [Next]_vars => [p = Lost => p' = Lost /\ delivered' = delivered]_vars
  <2> SUFFICES ASSUME IInv, Next, p = Lost
               PROVE  p' = Lost /\ delivered' = delivered
    OBVIOUS
  <2>1. n \in Nat /\ Lost \notin Nat
    BY DEF IInv, TypeOK, n, Lost
  <2>2. pc \in {"loop", "returned"}
    BY <2>1 DEF IInv, TypeOK, AtLoop, Handling, Lost
  <2> USE DEF game, stream, hist
  <2>3. CASE Game \/ Open \/ RequestStop
    BY <2>3 DEF Game, CreateLog, WritePart, WriteLine, Open, RequestStop
  <2>4. CASE Return \/ SeekFails
    BY <2>4 DEF Return, SeekFails
  <2>5. ~(Start \/ Seek \/ Handle \/ Relock \/ RelockFailed \/ AfterEof)
    BY <2>2 DEF Start, Seek, SeekSucceeds, Handle, Relock, RelockFailed, AfterEof
  <2> QED
    BY <2>3, <2>4, <2>5 DEF Next, Run
<1> QED
  BY Invariance, <1>1, PTL DEF Spec, LostIsForever

-----------------------------------------------------------------------------
(* run() implements LineFeed.                                              *)

Source == IF log = NoLog THEN 0 ELSE written[log]
Fed    == [i \in 1..Len(delivered) |-> delivered[i].num]

\* The initial states of the reader are initial states of the feed.
LEMMA FeedInit == Init => Feed!Init
<1> SUFFICES ASSUME Init PROVE Source \in Nat /\ Fed = <<>>
  BY DEF Feed!Init, Source, Fed
<1>1. IInv
  BY InitIInv
<1>2. Source \in Nat
  BY <1>1 DEF IInv, TypeOK, Source
<1>3. Fed = <<>>
  BY DEF Init, Fed
<1> QED
  BY <1>2, <1>3

\* The source of the feed never shrinks.
LEMMA SourceStep ==
  ASSUME IInv, [Next]_vars
  PROVE  Source \in Nat /\ Source' \in Nat /\ Source' >= Source
<1>1. written \in [Logs -> Nat] /\ written' \in [Logs -> Nat]
  BY TypeStep DEF IInv, TypeOK
<1>2. log \in Logs \cup {NoLog} /\ log' \in Logs \cup {NoLog}
  BY TypeStep DEF IInv, TypeOK
<1>3. log' = log \/ log = NoLog
  BY HistoryStep
<1>4. \A g \in Logs : written'[g] >= written[g]
  <2>1. UNCHANGED written \/ \E f \in Logs : written' = [written EXCEPT ![f] = @ + 1]
    BY DEF Next, Run, Game, CreateLog, WritePart, WriteLine, Open, RequestStop, Start,
           Return, SeekFails, Seek, Handle, Relock, RelockFailed, AfterEof, vars, game
  <2>2. ASSUME NEW f \in Logs, written' = [written EXCEPT ![f] = @ + 1], NEW g \in Logs
        PROVE  written'[g] >= written[g]
    BY <1>1, <2>2
  <2> QED
    BY <1>1, <2>1, <2>2
<1> QED
  BY <1>1, <1>2, <1>3, <1>4, LogsAssumption DEF Source

\* Every step of the reader is a step of the feed or leaves it alone.
LEMMA FeedStep == IInv /\ [Next]_vars => [Feed!Next]_(Feed!vars)
<1> SUFFICES ASSUME IInv, [Next]_vars
             PROVE  \/ UNCHANGED <<Source, Fed>>
                    \/ Source' \in Nat /\ Source' > Source /\ UNCHANGED Fed
                    \/ /\ Len(Fed) < Source
                       /\ Fed' = Append(Fed, Len(Fed) + 1)
                       /\ UNCHANGED Source
  BY DEF Feed!Next, Feed!vars, Feed!Grow, Feed!Feed, Source, Fed
<1>1. CASE UNCHANGED delivered
  <2>1. UNCHANGED Fed
    BY <1>1 DEF Fed
  <2> QED
    BY <2>1, SourceStep
<1>2. CASE Handle /\ ~eofbit /\ UNCHANGED log /\ delivered' = Append(delivered, line)
  <2>1. delivered \in Seq(Line) /\ n = Len(delivered) /\ n \in Nat
    BY DEF IInv, TypeOK, n
  <2>2. /\ line.num = n + 1 /\ n + 1 <= written[log]
        /\ log \in Logs /\ log # NoLog
    BY <1>2, LogsAssumption DEF IInv, TypeOK, Handle, HeldWhole, Detached
  <2>3. Source' = Source /\ n < Source
    <3>1. written' = written /\ log' = log
      BY <1>2 DEF Handle, game
    <3>2. written[log] \in Nat
      BY <2>2 DEF IInv, TypeOK
    <3> QED
      BY <2>1, <2>2, <3>1, <3>2 DEF Source
  <2>4. Fed \in Seq(Nat) /\ Len(Fed) = n
    <3>1. \A i \in 1..n : delivered[i].num \in Nat
      <4>1. \A i \in 1..n : delivered[i] \in Line
        BY <2>1
      <4>2. \A l \in Line : l.num \in Nat
        BY DEF Line
      <4> QED
        BY <4>1, <4>2
    <3> QED
      BY <2>1, <3>1 DEF Fed
  <2>5. Fed' = Append(Fed, n + 1)
    <3>1. Len(delivered') = n + 1 /\ delivered'[n + 1] = line
      BY <1>2, <2>1
    <3>2. \A i \in 1..n : delivered'[i] = delivered[i]
      BY <1>2, <2>1
    <3>3. Fed' = [i \in 1..(n + 1) |-> delivered'[i].num]
      BY <3>1 DEF Fed
    <3>4. Append(Fed, n + 1) = [i \in 1..(n + 1) |-> IF i = n + 1 THEN n + 1 ELSE Fed[i]]
      BY <2>1, <2>4
    <3>5. \A i \in 1..n : Fed[i] = delivered[i].num
      BY <2>1 DEF Fed
    <3>6. \A i \in 1..(n + 1) : i \in 1..n \/ i = n + 1
      BY <2>1
    <3>7. \A i \in 1..(n + 1) :
            delivered'[i].num = IF i = n + 1 THEN n + 1 ELSE Fed[i]
      BY <2>2, <3>1, <3>2, <3>5, <3>6
    <3> QED
      BY <3>3, <3>4, <3>7
  <2> QED
    BY <2>3, <2>4, <2>5
<1> QED
  BY <1>1, <1>2, HistoryStep

\* log_reader implements LineFeed, whatever open() does to its stream.
THEOREM Refinement == Spec => FeedSpec
  BY FeedInit, FeedStep, Invariance, PTL DEF Spec, FeedSpec, Feed!Spec
=============================================================================

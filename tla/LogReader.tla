----------------------------- MODULE LogReader ------------------------------
(***************************************************************************)
(* log_reader (log_reader.h, log_reader.cpp) with the two threads that use *)
(* it: log_read_thread, which runs run(), and the callback thread of the   *)
(* directory's FileWatch, which calls open() when a new log appears.       *)
(*                                                                         *)
(* A log is a number of complete lines, perhaps followed by an             *)
(* unterminated one.  Stream positions are counted in lines: the reader    *)
(* only ever saves a position that is the start of a line.  combat_log_ is *)
(* kept with the two iostate bits its control flow depends on.  What run() *)
(* does between lock and unlock of mutex_ is one step: open() cannot come  *)
(* between, and the game only adds to the files.                           *)
(***************************************************************************)
EXTENDS Integers, Sequences

CONSTANTS
  Logs,      \* the files of the combat log directory
  NoLog,     \* combat_log_ is not associated with a file
  MaxLines   \* bound: complete lines per log

ASSUME LogsAssumption == NoLog \notin Logs /\ MaxLines \in Nat

VARIABLES
  created,     \* the logs that exist
  written,     \* complete lines in each log
  partial,     \* whether a log ends in an unterminated line
  added,       \* "added" events the callback thread has still to handle
  log, pos, failbit, eofbit,      \* combat_log_: file, get position, iostate
  stop,        \* a stop of log_read_thread was requested
  pc, p, line, \* run(): control, saved position, the line just read
  delivered,   \* history: lines passed to callback_
  announced,   \* history: the log open() was last called for
  interrupted  \* history: open() hit the stream while run() held a line

game   == <<created, written, partial>>
stream == <<log, pos, failbit, eofbit>>
hist   == <<delivered, announced, interrupted>>
vars   == <<game, added, stream, stop, pc, p, line, hist>>

Lost   == -1                                \* pos_type(-1)
Line   == [log : Logs, num : Nat \ {0}, whole : BOOLEAN]
NoLine == [log |-> NoLog, num |-> 0, whole |-> FALSE]

TypeOK ==
  /\ created \subseteq Logs
  /\ written \in [Logs -> Nat] /\ partial \in [Logs -> BOOLEAN]
  /\ added \in Seq(Logs)
  /\ log \in Logs \cup {NoLog} /\ pos \in Nat
  /\ failbit \in BOOLEAN /\ eofbit \in BOOLEAN /\ stop \in BOOLEAN
  /\ pc \in {"start", "loop", "line", "relock", "tail", "returned"}
  /\ p \in Nat \cup {Lost} /\ line \in Line \cup {NoLine}
  /\ delivered \in Seq(Line)
  /\ announced \in Logs \cup {NoLog} /\ interrupted \in BOOLEAN

-----------------------------------------------------------------------------
(* The game, which owns the files.                                         *)

\* A new log; the directory watcher will report it as "added".
CreateLog(f) ==
  /\ f \notin created
  /\ created' = created \cup {f}
  /\ added' = Append(added, f)
  /\ UNCHANGED <<written, partial, stream, stop, pc, p, line, hist>>

\* Part of a line reaches the file before the rest of it.
WritePart(f) ==
  /\ f \in created /\ written[f] < MaxLines /\ ~partial[f]
  /\ partial' = [partial EXCEPT ![f] = TRUE]
  /\ UNCHANGED <<created, written, added, stream, stop, pc, p, line, hist>>

\* A whole line, or the end of the unterminated one.
WriteLine(f) ==
  /\ f \in created /\ written[f] < MaxLines
  /\ written' = [written EXCEPT ![f] = @ + 1]
  /\ partial' = [partial EXCEPT ![f] = FALSE]
  /\ UNCHANGED <<created, added, stream, stop, pc, p, line, hist>>

-----------------------------------------------------------------------------
(* open(), on the watcher's callback thread.                               *)

\* basic_ifstream::open: only a stream without a file can be given one; a
\* stream that has one keeps it and fails.
StreamOpen(f) ==
  \/ /\ log = NoLog
     /\ log' = f /\ pos' = 0 /\ failbit' = FALSE /\ eofbit' = FALSE
  \/ /\ failbit' = TRUE
     /\ UNCHANGED <<log, pos, eofbit>>

\* open() takes the unique_lock whenever run() is between two of its steps.
\* main destroys the watcher before it stops the reader.
Open ==
  /\ ~stop
  /\ added # <<>>
  /\ StreamOpen(Head(added))
  /\ added' = Tail(added)
  /\ announced' = Head(added)
  /\ interrupted' = (interrupted \/ (pc \in {"line", "relock"} /\ ~eofbit))
  /\ UNCHANGED <<game, stop, pc, p, line, delivered>>

-----------------------------------------------------------------------------
(* run()                                                                   *)

\* combat_log_.tellg()
TellG == IF failbit THEN Lost ELSE pos

\* std::streamoff p = combat_log_.tellg(), without the mutex.
Start ==
  /\ pc = "start"
  /\ p' = TellG
  /\ pc' = "loop"
  /\ UNCHANGED <<game, added, stream, stop, line, hist>>

\* Fault: the stop is seen only when the stream has failed.
Return_Late ==
  /\ pc = "loop" /\ stop /\ failbit
  /\ pc' = "returned"
  /\ UNCHANGED <<game, added, stream, stop, p, line, hist>>

\* while (!stop_token.stop_requested())
Return ==
  /\ pc = "loop" /\ stop
  /\ pc' = "returned"
  /\ UNCHANGED <<game, added, stream, stop, p, line, hist>>

\* Fault: -1 is taken for a position.
SeekSucceeds_AnyPosition == ~failbit /\ log # NoLog

\* seekg(p) clears eofbit, and fails on a failed stream, without a file, and
\* at -1.
SeekSucceeds == ~failbit /\ log # NoLog /\ p # Lost

\* Fault: only eofbit is reset.
ClearStream_EofOnly == eofbit' = FALSE /\ UNCHANGED failbit

\* combat_log_.clear(); sleep_for(10ms); combat_log_.sync()
ClearStream == failbit' = FALSE /\ eofbit' = FALSE

\* if (combat_log_.seekg(p)) fails.
SeekFails ==
  /\ pc = "loop" /\ ~stop
  /\ ~SeekSucceeds
  /\ ClearStream
  /\ UNCHANGED <<game, added, log, pos, stop, pc, p, line, hist>>

\* getline at position q of a good stream: a terminated line, ...
GetWhole(q) ==
  /\ q < written[log]
  /\ line' = [log |-> log, num |-> q + 1, whole |-> TRUE]
  /\ pos' = q + 1 /\ eofbit' = FALSE
  /\ pc' = "line"
  /\ UNCHANGED failbit

\* ... one cut short by the end of the file, ...
GetPart(q) ==
  /\ q = written[log] /\ partial[log]
  /\ line' = [log |-> log, num |-> q + 1, whole |-> FALSE]
  /\ pos' = q /\ eofbit' = TRUE
  /\ pc' = "line"
  /\ UNCHANGED failbit

\* Fault: nothing left to read ends run().
GetNone_Ends(q) ==
  /\ q = written[log] /\ ~partial[log]
  /\ pos' = q
  /\ ClearStream
  /\ pc' = "returned"
  /\ UNCHANGED line

\* ... or nothing: run() clears the stream and starts over, still holding
\* the mutex.
GetNone(q) ==
  /\ q = written[log] /\ ~partial[log]
  /\ pos' = q
  /\ ClearStream
  /\ pc' = "loop"
  /\ UNCHANGED line

GetLine(q) == GetWhole(q) \/ GetPart(q) \/ GetNone(q)

\* if (combat_log_.seekg(p)) while (getline(...)), for the first line.
Seek ==
  /\ pc = "loop" /\ ~stop
  /\ SeekSucceeds
  /\ GetLine(p)
  /\ UNCHANGED <<game, added, log, stop, p, hist>>

\* Fault: an unterminated line is handled like any other.
Handle_NoEofTest ==
  /\ pc = "line"
  /\ delivered' = Append(delivered, line) /\ pc' = "relock"
  /\ UNCHANGED <<game, added, stream, stop, p, line, announced, interrupted>>

\* lock.unlock(); a line that ended at eof() is left for later, any other
\* is parsed and passed to callback_, without the mutex.
Handle ==
  /\ pc = "line"
  /\ \/ eofbit /\ pc' = "tail" /\ UNCHANGED delivered
     \/ ~eofbit /\ delivered' = Append(delivered, line) /\ pc' = "relock"
  /\ UNCHANGED <<game, added, stream, stop, p, line, announced, interrupted>>

\* Fault: the position is not saved.
Relock_NoSave ==
  /\ pc = "relock" /\ ~failbit
  /\ GetLine(pos)
  /\ UNCHANGED <<game, added, log, stop, p, hist>>

\* lock.lock(); p = combat_log_.tellg(); and the next getline.
Relock ==
  /\ pc = "relock" /\ ~failbit
  /\ p' = TellG
  /\ GetLine(pos)
  /\ UNCHANGED <<game, added, log, stop, hist>>

\* On a failed stream tellg() and getline fail too, and not for eof():
\* "not EOF", break.
RelockFailed ==
  /\ pc = "relock" /\ failbit
  /\ p' = TellG
  /\ pc' = "returned"
  /\ UNCHANGED <<game, added, stream, stop, line, hist>>

\* After the break at eof(), the mutex is not held.
AfterEof ==
  /\ pc = "tail"
  /\ ClearStream
  /\ pc' = "loop"
  /\ UNCHANGED <<game, added, log, pos, stop, p, line, hist>>

\* ~jthread requests the stop.
RequestStop ==
  /\ ~stop
  /\ stop' = TRUE
  /\ UNCHANGED <<game, added, stream, pc, p, line, hist>>

-----------------------------------------------------------------------------
\* log_reader(last_log): the newest log by name, with whatever the game had
\* written to it, and the open() of the constructor, which may fail.
Init ==
  /\ \E f \in Logs, n \in 0..MaxLines :
       /\ created = {f}
       /\ written = [g \in Logs |-> IF g = f THEN n ELSE 0]
       /\ log \in {f, NoLog}
  /\ partial = [g \in Logs |-> FALSE]
  /\ added = <<>>
  /\ pos = 0 /\ failbit = (log = NoLog) /\ eofbit = FALSE
  /\ stop = FALSE
  /\ pc = "start" /\ p = 0 /\ line = NoLine
  /\ delivered = <<>> /\ announced = NoLog /\ interrupted = FALSE

Game == \E f \in Logs : CreateLog(f) \/ WritePart(f) \/ WriteLine(f)

Run == \/ Start \/ Return \/ SeekFails \/ Seek \/ Handle
       \/ Relock \/ RelockFailed \/ AfterEof

Next == Game \/ Open \/ Run \/ RequestStop

Spec == Init /\ [][Next]_vars

\* The scheduler runs log_read_thread whenever it is not blocked, and script
\* handlers return.  Nothing is assumed of the game or of open(): a
\* shared_mutex promises its waiting writer nothing.
FairSpec == Spec /\ WF_vars(Run)

-----------------------------------------------------------------------------
(* Properties                                                              *)

\* The script gets the lines of the attached log in file order, each once,
\* from the first, and never an unterminated one (log_reader.cpp:28-46: the
\* saved position, the re-seek, the eof() test).
DeliveredInOrder ==
  \A i \in 1..Len(delivered) :
    delivered[i] = [log |-> log, num |-> i, whole |-> TRUE]

\* run() ends only on request, or because open() failed the stream while a
\* line was being handled (log_reader.cpp:48-50).
ReturnsOnlyIfAskedOrInterrupted == pc = "returned" => stop \/ interrupted

\* Once tellg() has returned -1 no further line is delivered, whatever is
\* opened later (log_reader.cpp:28, 31, 46).
LostIsForever == [][p = Lost => p' = Lost /\ delivered' = delivered]_vars

\* Every complete line of the attached log reaches the script, unless the
\* reader is asked to stop or an open() has cost it its position.
LinesArrive ==
  \A n \in 1..MaxLines :
    (log # NoLog /\ written[log] >= n)
      ~> (Len(delivered) >= n \/ stop \/ interrupted \/ p = Lost)

\* A requested stop ends run(), even behind a backlog of lines.
StopEndsRun == stop ~> pc = "returned"

\* README.md:9: the program "monitors a game's log file and reacts to new
\* entries in real time".  Lines of a log whose "added" event was handled
\* are delivered unless a newer log supersedes it or the program stops.
NewLogIsFollowed ==
  \A f \in Logs, n \in 1..MaxLines :
    (announced = f /\ written[f] >= n)
      ~> (stop \/ announced # f \/ (log = f /\ Len(delivered) >= n))

\* run() implements LineFeed for the log it is attached to.
Feed == INSTANCE LineFeed WITH
          source <- IF log = NoLog THEN 0 ELSE written[log],
          fed    <- [i \in 1..Len(delivered) |-> delivered[i].num]
FeedSpec == Feed!Spec
=============================================================================

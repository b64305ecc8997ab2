------------------------------ MODULE Spiritor ------------------------------
(***************************************************************************)
(* The program from main's first line to the end of its last destructor:   *)
(* which objects exist, which threads use them, and who waits for whom.    *)
(* LogReader, FileWatch, InterceptionContext and ScriptHolder have the     *)
(* parts in detail; here a thread is known by the object it is in.         *)
(*                                                                         *)
(* The threads besides main's are log_read_thread and the callback threads *)
(* of the two FileWatches: of the log directory, "watch", which calls      *)
(* log_reader::open, and of the script, "notifier", which calls            *)
(* holder::load_script.  A mutex that is gone is used as if it were not:   *)
(* what then happens is up to the build, that it happens is recorded.      *)
(***************************************************************************)
EXTENDS Naturals, FiniteSets

CONSTANTS
  MaxRecords,  \* bound: records the game writes
  MaxEvents    \* bound: new logs, and versions of the script

ASSUME BoundsAssumption == MaxRecords \in Nat /\ MaxEvents \in Nat

Watches == {"watch", "notifier"}
Threads == {"log"} \cup Watches

VARIABLES
  main,      \* control of main's thread
  failed,    \* an exception ended the start-up
  isRunnung,
  alive,     \* the objects that are constructed and not destroyed
  keyed,     \* device is a keyboard, so that sends use the context
  filtered,  \* the filter of the keyboards is set
  log, records,  \* control of log_read_thread; records it has read
  stop,      \* its stop was requested
  interrupted,   \* open() was called while it handled a record
  callback,  \* control of the callback threads
  events,    \* events the system has reported to each
  batch,     \* events each has taken from its queue
  made,      \* events so far
  destory, missed,   \* the FileWatches whose destructor has begun; whose
                     \* callback thread missed its notification
  stale      \* history: <<thread, object>>: an object was used when it was gone

mainVars  == <<main, failed, alive, keyed, filtered>>
logVars   == <<log, records, interrupted>>
watchVars == <<callback, events, batch, made, destory, missed>>
vars == <<mainVars, isRunnung, logVars, stop, watchVars, stale>>

Objects == {"context", "state", "mutex", "reader"}

Joining == {"joinWatch", "joinLog", "joinNotifier"}

TypeOK ==
  /\ main \in {"context", "state", "mutex", "load", "notifier", "logs", "reader", "log",
               "watch", "filter", "loop", "wait", "received", "handler", "freeContext", "closeWatch",
               "stopLog", "freeReader", "freeMutex", "closeNotifier", "freeState",
               "ended"} \cup Joining
  /\ {failed, isRunnung, keyed, filtered, stop, interrupted} \subseteq BOOLEAN
  /\ alive \subseteq Objects /\ stale \subseteq Threads \X Objects
  /\ log \in {"none", "between", "reading", "record", "handler", "ended"}
  /\ records \in 0..MaxRecords /\ made \in 0..MaxEvents
  /\ callback \in [Watches -> {"none", "idle", "lock", "script", "tail", "ended"}]
  /\ events \in [Watches -> Nat] /\ batch \in [Watches -> Nat]
  /\ missed \subseteq destory /\ destory \subseteq Watches

\* Thread t uses objects.
Use(t, objects) == stale' = stale \cup {<<t, o>> : o \in objects \ alive}

\* A handler, or the script's top-level code, presses a key: interception_send
\* looks into the context unless it was never created or the device is none.
Sent == IF keyed THEN {"context"} ELSE {}

-----------------------------------------------------------------------------
(* main: start-up                                                          *)

Goes(from, to) ==
  /\ main = from /\ main' = to
  /\ UNCHANGED <<isRunnung, stop, logVars, watchVars, stale>>

\* interception_create_context, which may fail; nobody looks.
CreateContext ==
  /\ Goes("context", "state")
  /\ alive' \in {alive, alive \cup {"context"}}
  /\ UNCHANGED <<failed, keyed, filtered>>

ConstructState ==
  /\ Goes("state", "mutex") /\ alive' = alive \cup {"state"}
  /\ UNCHANGED <<failed, keyed, filtered>>

ConstructMutex ==
  /\ Goes("mutex", "load") /\ alive' = alive \cup {"mutex"}
  /\ UNCHANGED <<failed, keyed, filtered>>

\* holder's constructor loads the script.
LoadFirst ==
  /\ Goes("load", "notifier")
  /\ UNCHANGED <<failed, alive, keyed, filtered>>

\* The thread of a FileWatch, or the jthread, is started.
StartWatch(w, from, to) ==
  /\ main = from /\ main' = to
  /\ callback' = [callback EXCEPT ![w] = "idle"]
  /\ UNCHANGED <<failed, alive, keyed, filtered, isRunnung, stop, logVars, events, batch,
                 made, destory, missed, stale>>

\* get_last_combat_log finds a log.
FindLog ==
  /\ Goes("logs", "reader")
  /\ UNCHANGED <<failed, alive, keyed, filtered>>

\* top() of an empty queue: the program crashes (or goes on, as in FindLog,
\* with a path that leads nowhere).
FindNoLog ==
  /\ main = "logs"
  /\ main' = "ended"
  /\ callback' = [w \in Watches |-> IF callback[w] = "none" THEN "none" ELSE "ended"]
  /\ UNCHANGED <<failed, alive, keyed, filtered, isRunnung, stop, logVars, events, batch,
                 made, destory, missed, stale>>

ConstructReader ==
  /\ Goes("reader", "log") /\ alive' = alive \cup {"reader"}
  /\ UNCHANGED <<failed, keyed, filtered>>

StartLog ==
  /\ main = "log" /\ main' = "watch"
  /\ log' = "between"
  /\ UNCHANGED <<failed, alive, keyed, filtered, isRunnung, stop, records, interrupted,
                 watchVars, stale>>

\* An exception of load_script, of a FileWatch's constructor, of the directory
\* iterator, of the thread's: what has been constructed is destroyed, and the
\* context is left to the system.
StartFails ==
  /\ main \in {"load", "notifier", "logs", "log", "watch"}
  /\ main' = "closeWatch" /\ failed' = TRUE
  /\ UNCHANGED <<alive, keyed, filtered, isRunnung, stop, logVars, watchVars, stale>>

SetFilter ==
  /\ Goes("filter", "loop")
  /\ filtered' \in {FALSE, "context" \in alive}
  /\ UNCHANGED <<failed, alive, keyed>>

Startup == \/ CreateContext \/ ConstructState \/ ConstructMutex \/ LoadFirst
           \/ StartWatch("notifier", "notifier", "logs")
           \/ FindLog \/ FindNoLog \/ ConstructReader \/ StartLog
           \/ StartWatch("watch", "watch", "filter") \/ StartFails \/ SetFilter

-----------------------------------------------------------------------------
(* main: the loop                                                          *)

\* The script mutex may be taken in shared, in exclusive mode.
SharedFree == callback["notifier"] # "script"
UniqueFree == main # "handler" /\ log # "handler"

Loop ==
  /\ Goes("loop", IF isRunnung THEN "wait" ELSE "freeContext")
  /\ UNCHANGED <<failed, alive, keyed, filtered>>

\* A keystroke comes: device is its keyboard.
Receive ==
  /\ filtered /\ Goes("wait", "received")
  /\ keyed' = TRUE
  /\ UNCHANGED <<failed, alive, filtered>>

\* There is no context, the wait has failed, or nothing is read.
ReceiveFails ==
  /\ Goes("wait", "freeContext")
  /\ keyed' \in {FALSE, "context" \in alive}
  /\ UNCHANGED <<failed, alive, filtered>>

\* process_input's handler, with the mutex in shared mode.
Enter ==
  /\ SharedFree /\ Goes("received", "handler")
  /\ UNCHANGED <<failed, alive, keyed, filtered>>

Answer ==
  /\ Goes("handler", "loop")
  /\ UNCHANGED <<failed, alive, keyed, filtered>>

\* HandlerRoutine, on a thread of the console.
CtrlC ==
  /\ isRunnung /\ main # "ended"
  /\ isRunnung' = FALSE
  /\ UNCHANGED <<mainVars, stop, logVars, watchVars, stale>>

-----------------------------------------------------------------------------
(* main: teardown, in the reverse order of construction.  After a start    *)
(* that has failed, what was not constructed is passed over.               *)

\* Fault: the context is destroyed after the last destructor.
FreeContext_Late ==
  /\ Goes("freeContext", "closeWatch")
  /\ UNCHANGED <<failed, alive, keyed, filtered>>

FreeContext ==
  /\ Goes("freeContext", "closeWatch")
  /\ alive' = alive \ {"context"} /\ filtered' = FALSE
  /\ UNCHANGED <<failed, keyed>>

\* Fault: _destory is not set.
Close_NoFlag(w, from, to) ==
  /\ main = from /\ main' = to
  /\ missed' \in {missed} \cup {missed \cup {x \in {w} : callback[x] = "idle" /\ batch[x] = 0}}
  /\ UNCHANGED <<failed, alive, keyed, filtered, isRunnung, stop, logVars, callback,
                 events, batch, made, destory, stale>>

\* ~FileWatch: the notification is missed by a callback thread that is
\* between its test of _destory and its wait.
Close(w, from, to) ==
  /\ main = from /\ main' = to
  /\ destory' = destory \cup {w}
  /\ missed' \in {missed} \cup {missed \cup {x \in {w} : callback[x] = "idle" /\ batch[x] = 0}}
  /\ UNCHANGED <<failed, alive, keyed, filtered, isRunnung, stop, logVars, callback,
                 events, batch, made, stale>>

\* Thread t has ended, or was not started.
Over(t) == (IF t = "log" THEN log ELSE callback[t]) \in {"none", "ended"}

Join(t, from, to) ==
  /\ Goes(from, to) /\ Over(t)
  /\ UNCHANGED <<failed, alive, keyed, filtered>>

\* ~jthread
StopLog ==
  /\ main = "stopLog" /\ main' = "joinLog"
  /\ stop' = TRUE
  /\ UNCHANGED <<failed, alive, keyed, filtered, isRunnung, logVars, watchVars, stale>>

Free(o, from, to) ==
  /\ Goes(from, to)
  /\ alive' = alive \ {o}
  /\ UNCHANGED <<failed, keyed, filtered>>

\* Fault: log_reader is declared after the thread that runs it.
Teardown_ReaderFirst ==
  \/ FreeContext
  \/ Close("watch", "closeWatch", "joinWatch") \/ Join("watch", "joinWatch", "freeReader")
  \/ Free("reader", "freeReader", "stopLog")
  \/ StopLog \/ Join("log", "joinLog", "freeMutex")
  \/ Free("mutex", "freeMutex", "closeNotifier")
  \/ Close("notifier", "closeNotifier", "joinNotifier")
  \/ Join("notifier", "joinNotifier", "freeState") \/ Free("state", "freeState", "ended")

Teardown ==
  \/ FreeContext
  \/ Close("watch", "closeWatch", "joinWatch") \/ Join("watch", "joinWatch", "stopLog")
  \/ StopLog \/ Join("log", "joinLog", "freeReader")
  \/ Free("reader", "freeReader", "freeMutex")
  \/ Free("mutex", "freeMutex", "closeNotifier")
  \/ Close("notifier", "closeNotifier", "joinNotifier")
  \/ Join("notifier", "joinNotifier", "freeState") \/ Free("state", "freeState", "ended")

-----------------------------------------------------------------------------
(* log_read_thread: run(), and process_log_record                          *)

LogStep == UNCHANGED <<mainVars, isRunnung, stop, watchVars>>

\* The head of run()'s loop; mutex_ is taken in shared mode.
Lock ==
  /\ log = "between"
  /\ log' = IF stop THEN "ended" ELSE "reading"
  /\ Use("log", {"reader"})
  /\ UNCHANGED <<records, interrupted>> /\ LogStep

\* No complete line: run() sleeps, and the lock goes.
NoLine ==
  /\ log = "reading"
  /\ log' = "between"
  /\ Use("log", {"reader"})
  /\ UNCHANGED <<records, interrupted>> /\ LogStep

\* A record was read; mutex_ is released.
ReadLine ==
  /\ log = "reading" /\ records < MaxRecords
  /\ log' = "record" /\ records' = records + 1
  /\ Use("log", {"reader"})
  /\ UNCHANGED interrupted /\ LogStep

Handle ==
  /\ log = "record" /\ SharedFree
  /\ log' = "handler"
  /\ Use("log", {"mutex", "state"})
  /\ UNCHANGED <<records, interrupted>> /\ LogStep

HandlerSends ==
  /\ log = "handler"
  /\ Use("log", Sent)
  /\ UNCHANGED logVars /\ LogStep

\* Back in run(), on a stream that open() may have failed in the meantime.
Handled ==
  /\ log = "handler"
  /\ log' = IF interrupted THEN "ended" ELSE "reading"
  /\ Use("log", {"mutex", "state", "reader"})
  /\ UNCHANGED <<records, interrupted>> /\ LogStep

Log == Lock \/ NoLine \/ Handle \/ Handled

-----------------------------------------------------------------------------
(* The callback threads                                                    *)

WatchStep == UNCHANGED <<mainVars, isRunnung, stop, records, made, destory, missed>>

\* A new log, or a saved script: the monitor queues the event and notifies.
Event(w) ==
  /\ callback[w] \notin {"none", "ended"}
  /\ made < MaxEvents /\ made' = made + 1
  /\ events' = [events EXCEPT ![w] = @ + 1]
  /\ missed' = missed \ {w}
  /\ UNCHANGED <<mainVars, isRunnung, logVars, stop, callback, batch, destory, stale>>

\* The callback thread wakes without having been notified.
SpuriousWakeup(w) ==
  /\ w \in missed
  /\ missed' = missed \ {w}
  /\ UNCHANGED <<mainVars, isRunnung, logVars, stop, callback, events, batch, made,
                 destory, stale>>

\* All the events are taken from the queue, even if the end is near.
Take(w) ==
  /\ callback[w] = "idle" /\ batch[w] = 0 /\ events[w] > 0 /\ w \notin missed
  /\ batch' = [batch EXCEPT ![w] = events[w]] /\ events' = [events EXCEPT ![w] = 0]
  /\ UNCHANGED <<logVars, callback, stale>> /\ WatchStep

\* The callback is called for the next event of the batch.
CallBack(w) ==
  /\ callback[w] = "idle" /\ batch[w] > 0
  /\ batch' = [batch EXCEPT ![w] = @ - 1]
  /\ callback' = [callback EXCEPT ![w] = "lock"]
  /\ UNCHANGED <<logVars, events, stale>> /\ WatchStep

CallbackEnds(w) ==
  /\ callback[w] = "idle" /\ batch[w] = 0 /\ w \in destory \ missed
  /\ callback' = [callback EXCEPT ![w] = "ended"]
  /\ UNCHANGED <<logVars, events, batch, stale>> /\ WatchStep

\* reader.open, when run() does not hold mutex_.
Open ==
  /\ callback["watch"] = "lock" /\ log # "reading"
  /\ callback' = [callback EXCEPT !["watch"] = "idle"]
  /\ interrupted' = (interrupted \/ log \in {"record", "handler"})
  /\ Use("watch", {"reader"})
  /\ UNCHANGED <<log, events, batch>> /\ WatchStep

\* load_script, when no handler holds m_script_mutex.
Load ==
  /\ callback["notifier"] = "lock" /\ UniqueFree
  /\ callback' = [callback EXCEPT !["notifier"] = "script"]
  /\ Use("notifier", {"mutex", "state"})
  /\ UNCHANGED <<logVars, events, batch>> /\ WatchStep

ScriptSends ==
  /\ callback["notifier"] = "script"
  /\ Use("notifier", Sent)
  /\ UNCHANGED <<logVars, callback, events, batch>> /\ WatchStep

\* Unlock, after an error or before the tail of load_script.
Loaded ==
  /\ callback["notifier"] = "script"
  /\ \E c \in {"tail", "idle"} : callback' = [callback EXCEPT !["notifier"] = c]
  /\ Use("notifier", {"mutex", "state"})
  /\ UNCHANGED <<logVars, events, batch>> /\ WatchStep

Tail ==
  /\ callback["notifier"] = "tail"
  /\ callback' = [callback EXCEPT !["notifier"] = "idle"]
  /\ Use("notifier", {"state"})
  /\ UNCHANGED <<logVars, events, batch>> /\ WatchStep

Callback(w) == Take(w) \/ CallBack(w) \/ CallbackEnds(w)
Opener == Callback("watch") \/ Open
Loader == Callback("notifier") \/ Load \/ Loaded \/ Tail

-----------------------------------------------------------------------------
Init ==
  /\ main = "context" /\ failed = FALSE /\ isRunnung = TRUE
  /\ alive = {} /\ keyed = FALSE /\ filtered = FALSE
  /\ log = "none" /\ records = 0 /\ stop = FALSE /\ interrupted = FALSE
  /\ callback = [w \in Watches |-> "none"] /\ destory = {} /\ missed = {}
  /\ events = [w \in Watches |-> 0] /\ batch = [w \in Watches |-> 0] /\ made = 0
  /\ stale = {}

Main == Startup \/ Loop \/ Receive \/ ReceiveFails \/ Enter \/ Answer \/ Teardown

Next == \/ Main \/ CtrlC
        \/ Log \/ ReadLine \/ HandlerSends
        \/ Opener \/ Loader \/ ScriptSends \/ \E w \in Watches : Event(w) \/ SpuriousWakeup(w)

Spec == Init /\ [][Next]_vars

\* The scheduler runs every thread; handlers and the script's top-level code
\* come to their end.  Nothing makes a thread press a key, the game write a
\* record, or std::shared_mutex prefer open() to run().
FairSpec == Spec /\ WF_vars(Teardown) /\ WF_vars(Log)
                 /\ WF_vars(Opener) /\ WF_vars(Loader)

-----------------------------------------------------------------------------
(* Properties                                                              *)

\* What outlives its use: every object is given back after the last use,
\* except the context, which main destroys while the log handler and a reload
\* may still press keys (main.cpp:203), and holder's mutex, which goes before
\* the FileWatch whose callback takes it (script_holder.h:36, 39).
OnlyContextAndMutexUsedLate ==
  stale \subseteq {<<"log", "context">>, <<"notifier", "context">>, <<"notifier", "mutex">>}

\* Teardown ends, if every callback thread is there to be notified and
\* open() gets its mutex from run() in the end (main.cpp:201-221,
\* FileWatch.h:224-235, log_reader.cpp:29-30).
TeardownEnds ==
  []<>(callback["watch"] # "lock") => (main = "closeWatch" ~> main = "ended" \/ missed # {})

\* The program implements Session: the keyboards are free before main waits
\* for a thread, and no thread is left when main ends.
Phase ==
  CASE main = "ended" -> "ended"
    [] main \in {"loop", "wait", "received", "handler", "freeContext"} -> "serving"
    [] main \in {"closeWatch", "stopLog", "freeReader", "freeMutex", "closeNotifier",
                 "freeState"} \cup Joining -> "leaving"
    [] OTHER -> "starting"
TheSession == INSTANCE Session WITH phase    <- Phase,
                                    running  <- {t \in Threads : ~Over(t)},
                                    captured <- filtered
SessionSpec == TheSession!Spec
=============================================================================

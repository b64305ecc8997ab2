--------------------------- MODULE Spiritor_proofs ---------------------------
(***************************************************************************)
(* Of everything that the threads use, only the context and holder's mutex *)
(* are given back too early, and no thread outlives main: for any number   *)
(* of records and of events, and wherever the start-up fails.              *)
(***************************************************************************)
EXTENDS Spiritor, TLAPS

Constructing == {"context", "state", "mutex", "load", "notifier", "logs", "reader", "log",
                 "watch", "filter"}
Serving      == {"loop", "wait", "received", "handler", "freeContext"}

\* Main's positions from the end of a join on.
LogJoined      == {"freeReader", "freeMutex", "closeNotifier", "joinNotifier", "freeState", "ended"}
WatchJoined    == {"stopLog", "joinLog"} \cup LogJoined
NotifierJoined == {"freeState", "ended"}

\* No thread runs before it is started, nor after main has waited for it.
Started ==
  /\ main \in {"context", "state", "mutex", "load", "notifier"} => callback["notifier"] = "none"
  /\ main \in {"context", "state", "mutex", "load", "notifier", "logs", "reader", "log"} => log = "none"
  /\ main \in Constructing \ {"filter"} => callback["watch"] = "none"
Waited ==
  /\ main \in WatchJoined => Over("watch")
  /\ main \in LogJoined => Over("log")
  /\ main \in NotifierJoined => Over("notifier")

\* What a thread uses is there as long as the thread is.
Provided ==
  /\ main \in Constructing \ {"context", "state"} => "state" \in alive
  /\ main \in Constructing \ {"context", "state", "mutex"} => "mutex" \in alive
  /\ main \in {"log", "watch", "filter"} => "reader" \in alive
  /\ ~Over("log") => {"reader", "mutex", "state"} \subseteq alive
  /\ ~Over("watch") => "reader" \in alive
  /\ ~Over("notifier") => "state" \in alive

\* The keyboards are captured only while the session serves.
Captured == filtered => main \in Serving

IInv == TypeOK /\ Started /\ Waited /\ Provided /\ Captured /\ OnlyContextAndMutexUsedLate

-----------------------------------------------------------------------------
\* What is read from a truth value is one.
LEMMA Flags ==
  /\ SetFilter => filtered' = FALSE \/ filtered' = ("context" \in alive)
  /\ ReceiveFails => keyed' = FALSE \/ keyed' = ("context" \in alive)
  /\ ("context" \in alive) \in BOOLEAN
<1>1. \A x, y : x \in {FALSE, y} => x = FALSE \/ x = y
  OBVIOUS
<1>2. SetFilter => filtered' \in {FALSE, "context" \in alive}
  BY DEF SetFilter
<1>3. ReceiveFails => keyed' \in {FALSE, "context" \in alive}
  BY DEF ReceiveFails
<1>4. ("context" \in alive) \in BOOLEAN
  OBVIOUS
<1> QED
  BY <1>1, <1>2, <1>3, <1>4, Zenon

\* Every step keeps the types of the variables.
LEMMA TypeStep == TypeOK /\ [Next]_vars => TypeOK'
<1> SUFFICES ASSUME TypeOK, [Next]_vars PROVE TypeOK'
  OBVIOUS
<1> USE BoundsAssumption DEF TypeOK, Objects, Threads, Watches, Joining, mainVars, logVars, watchVars
<1>1. CASE Startup
  <2>1. ASSUME NEW w \in Watches, NEW from, NEW to \in {"logs", "filter"}, StartWatch(w, from, to)
        PROVE  TypeOK'
    BY <2>1 DEF StartWatch
  <2>2. CASE FindNoLog
    BY <2>2 DEF FindNoLog
  <2>3. CASE StartLog \/ StartFails
    BY <2>3 DEF StartLog, StartFails
  <2>4. CASE CreateContext \/ ConstructState \/ ConstructMutex \/ LoadFirst
    BY <2>4 DEF CreateContext, ConstructState, ConstructMutex, LoadFirst, Goes
  <2>5. CASE FindLog \/ ConstructReader
    BY <2>5 DEF FindLog, ConstructReader, Goes
  <2>6. CASE SetFilter
    <3>1. filtered' \in BOOLEAN
      BY <2>6, Flags
    <3> QED
      BY <2>6, <3>1 DEF SetFilter, Goes
  <2> QED
    BY <1>1, <2>1, <2>2, <2>3, <2>4, <2>5, <2>6 DEF Startup
<1>2. CASE Loop \/ Receive \/ ReceiveFails \/ Enter \/ Answer
  <2>1. keyed' \in BOOLEAN
    <3>1. CASE ReceiveFails
      BY <3>1, Flags
    <3> QED
      BY <1>2, <3>1 DEF Loop, Receive, Enter, Answer
  <2>2. /\ main' \in {"wait", "freeContext", "received", "handler", "loop"}
        /\ UNCHANGED <<failed, alive, filtered, isRunnung, stop, logVars, watchVars, stale>>
    BY <1>2 DEF Loop, Receive, ReceiveFails, Enter, Answer, Goes
  <2> QED
    BY <2>1, <2>2
<1>3. CASE Teardown
  <2>1. ASSUME NEW w \in Watches, NEW from, NEW to \in Joining, Close(w, from, to)
        PROVE  TypeOK'
    BY <2>1 DEF Close
  <2>2. ASSUME NEW o, NEW from, NEW to \in {"freeMutex", "closeNotifier", "ended"}, Free(o, from, to)
        PROVE  TypeOK'
    BY <2>2 DEF Free, Goes
  <2>3. ASSUME NEW t, NEW from, NEW to \in {"stopLog", "freeReader", "freeState"}, Join(t, from, to)
        PROVE  TypeOK'
    BY <2>3 DEF Join, Goes
  <2>4. CASE FreeContext \/ StopLog
    BY <2>4 DEF FreeContext, StopLog, Goes
  <2> QED
    BY <1>3, <2>1, <2>2, <2>3, <2>4 DEF Teardown
<1>4. CASE Log \/ ReadLine \/ HandlerSends
  <2>1. stale' \in SUBSET (Threads \X Objects)
    BY <1>4 DEF Log, Lock, NoLine, ReadLine, Handle, HandlerSends, Handled, Use, Sent
  <2>2. /\ log' \in {"between", "reading", "record", "handler", "ended"}
        /\ records' \in 0..MaxRecords /\ UNCHANGED interrupted /\ LogStep
    BY <1>4 DEF Log, Lock, NoLine, ReadLine, Handle, HandlerSends, Handled
  <2> QED
    BY <2>1, <2>2 DEF LogStep
<1>5. CASE Opener \/ Loader \/ ScriptSends
  <2>1. ASSUME NEW w \in Watches, Callback(w) PROVE TypeOK'
    <3>1. CASE Take(w)
      BY <3>1 DEF Take, WatchStep
    <3>2. CASE CallBack(w)
      BY <3>2 DEF CallBack, WatchStep
    <3>3. CASE CallbackEnds(w)
      BY <3>3 DEF CallbackEnds, WatchStep
    <3> QED
      BY <2>1, <3>1, <3>2, <3>3 DEF Callback
  <2>2. CASE Open \/ Load \/ Loaded \/ Tail \/ ScriptSends
    <3>1. stale' \in SUBSET (Threads \X Objects)
      BY <2>2 DEF Open, Load, Loaded, Tail, ScriptSends, Use, Sent
    <3>2. /\ UNCHANGED <<log, events, batch>> /\ WatchStep
          /\ interrupted' \in BOOLEAN
          /\ callback' \in [Watches -> {"none", "idle", "lock", "script", "tail", "ended"}]
      <4>1. CASE Open
        BY <4>1 DEF Open
      <4>2. CASE Load \/ Tail \/ ScriptSends
        BY <4>2 DEF Load, Tail, ScriptSends
      <4>3. CASE Loaded
        BY <4>3 DEF Loaded
      <4> QED
        BY <2>2, <4>1, <4>2, <4>3
    <3> QED
      BY <3>1, <3>2 DEF WatchStep
  <2> QED
    BY <1>5, <2>1, <2>2 DEF Opener, Loader
<1>6. ASSUME NEW w \in Watches, Event(w) \/ SpuriousWakeup(w) PROVE TypeOK'
  <2>1. CASE Event(w)
    BY <1>6, <2>1 DEF Event
  <2>2. CASE SpuriousWakeup(w)
    BY <1>6, <2>2 DEF SpuriousWakeup
  <2> QED
    BY <1>6, <2>1, <2>2
<1>7. CASE CtrlC
  BY <1>7 DEF CtrlC
<1>8. CASE UNCHANGED vars
  BY <1>8 DEF vars
<1> QED
  BY <1>1, <1>2, <1>3, <1>4, <1>5, <1>6, <1>7, <1>8 DEF Next, Main

-----------------------------------------------------------------------------
(* Who runs when                                                           *)

\* main's steps, with what they have in common.
LEMMA Steps ==
  ASSUME [Next]_vars
  PROVE  \/ Startup
         \/ main \in Serving /\ main' \in Serving
            /\ UNCHANGED <<alive, filtered, log, callback, stale>>
         \/ Teardown
         \/ Log \/ ReadLine \/ HandlerSends
         \/ Opener \/ Loader \/ ScriptSends
         \/ UNCHANGED <<main, alive, filtered, log, callback, stale>>
<1>1. CASE Loop \/ Receive \/ ReceiveFails \/ Enter \/ Answer
  BY <1>1 DEF Loop, Receive, ReceiveFails, Enter, Answer, Goes, Serving, logVars, watchVars
<1>2. CASE CtrlC \/ UNCHANGED vars
  BY <1>2 DEF CtrlC, vars, mainVars, logVars, watchVars
<1>3. ASSUME NEW w \in Watches, Event(w) \/ SpuriousWakeup(w)
      PROVE  UNCHANGED <<main, alive, filtered, log, callback, stale>>
  BY <1>3 DEF Event, SpuriousWakeup, mainVars, logVars
<1> QED
  BY <1>1, <1>2, <1>3 DEF Next, Main

\* A thread other than main's takes a step only while it is not over, and does
\* not bring another thread back.
LEMMA ThreadSteps ==
  ASSUME TypeOK
  PROVE  /\ Log \/ ReadLine \/ HandlerSends =>
              /\ ~Over("log") /\ UNCHANGED <<mainVars, callback>> /\ log' # "none"
         /\ Opener =>
              /\ ~Over("watch") /\ UNCHANGED <<mainVars, log>>
              /\ callback'["watch"] # "none" /\ callback'["notifier"] = callback["notifier"]
         /\ Loader \/ ScriptSends =>
              /\ ~Over("notifier") /\ UNCHANGED <<mainVars, log>>
              /\ callback'["notifier"] # "none" /\ callback'["watch"] = callback["watch"]
<1> USE DEF TypeOK, Over, Watches
<1>1. Log \/ ReadLine \/ HandlerSends =>
        /\ ~Over("log") /\ UNCHANGED <<mainVars, callback>> /\ log' # "none"
  BY DEF Log, Lock, NoLine, ReadLine, Handle, HandlerSends, Handled, LogStep, watchVars, logVars
<1>2. ASSUME NEW w \in Watches, Callback(w)
      PROVE  /\ ~Over(w) /\ UNCHANGED <<mainVars, log>>
             /\ callback'[w] # "none"
             /\ \A v \in Watches \ {w} : callback'[v] = callback[v]
  BY <1>2 DEF Callback, Take, CallBack, CallbackEnds, WatchStep, logVars
<1>3. Open => /\ ~Over("watch") /\ UNCHANGED <<mainVars, log>>
              /\ callback'["watch"] # "none" /\ callback'["notifier"] = callback["notifier"]
  BY DEF Open, WatchStep
<1>4. Load \/ Loaded \/ Tail \/ ScriptSends =>
        /\ ~Over("notifier") /\ UNCHANGED <<mainVars, log>>
        /\ callback'["notifier"] # "none" /\ callback'["watch"] = callback["watch"]
  BY DEF Load, Loaded, Tail, ScriptSends, WatchStep, logVars
<1> QED
  BY <1>1, <1>2, <1>3, <1>4 DEF Opener, Loader

\* What Started, Waited, Provided and Captured say together.
Stage == Started /\ Waited /\ Provided /\ Captured

\* A step of the start-up starts a thread after what the thread uses.
LEMMA StartupStage == TypeOK /\ Stage /\ Startup => Stage'
<1> SUFFICES ASSUME TypeOK, Stage, Startup PROVE Stage'
  OBVIOUS
<1> USE DEF Stage, Started, Waited, Provided, Captured, Constructing, Serving, LogJoined,
            WatchJoined, NotifierJoined, Over, TypeOK, Watches
<1>1. CASE CreateContext \/ ConstructState \/ ConstructMutex \/ LoadFirst \/ FindLog \/ ConstructReader
  <2>1. UNCHANGED <<log, callback, filtered>> /\ alive \subseteq alive'
    BY <1>1 DEF CreateContext, ConstructState, ConstructMutex, LoadFirst, FindLog, ConstructReader,
                Goes, logVars, watchVars
  <2>2. \/ main = "context" /\ main' = "state"
        \/ main = "state" /\ main' = "mutex" /\ "state" \in alive'
        \/ main = "mutex" /\ main' = "load" /\ "mutex" \in alive'
        \/ main = "load" /\ main' = "notifier"
        \/ main = "logs" /\ main' = "reader"
        \/ main = "reader" /\ main' = "log" /\ "reader" \in alive'
    BY <1>1 DEF CreateContext, ConstructState, ConstructMutex, LoadFirst, FindLog, ConstructReader, Goes
  <2> QED
    BY <2>1, <2>2
<1>2. CASE StartWatch("notifier", "notifier", "logs")
  BY <1>2 DEF StartWatch, logVars
<1>3. CASE StartWatch("watch", "watch", "filter")
  BY <1>3 DEF StartWatch, logVars
<1>4. CASE StartLog
  BY <1>4 DEF StartLog, watchVars
<1>5. CASE FindNoLog
  BY <1>5 DEF FindNoLog, logVars
<1>6. CASE StartFails
  BY <1>6 DEF StartFails, logVars, watchVars
<1>7. CASE SetFilter
  <2>1. main = "filter" /\ main' = "loop" /\ UNCHANGED <<alive, log, callback>>
    BY <1>7 DEF SetFilter, Goes, logVars, watchVars
  <2> QED
    BY <2>1
<1> QED
  BY <1>1, <1>2, <1>3, <1>4, <1>5, <1>6, <1>7 DEF Startup

\* The teardown takes nothing from a thread that main has not waited for.
LEMMA TeardownStage == TypeOK /\ Stage /\ Teardown => Stage'
<1> SUFFICES ASSUME TypeOK, Stage, Teardown PROVE Stage'
  OBVIOUS
<1> USE DEF Stage, Started, Waited, Provided, Captured, Constructing, Serving, LogJoined,
            WatchJoined, NotifierJoined, Over, TypeOK, Watches
<1>1. UNCHANGED <<log, callback>> /\ (filtered' = filtered \/ filtered' = FALSE)
  BY DEF Teardown, FreeContext, Close, Join, StopLog, Free, Goes, logVars, watchVars
<1>2. \/ main = "freeContext" /\ main' = "closeWatch" /\ alive' = alive \ {"context"} /\ filtered' = FALSE
      \/ main = "freeReader" /\ main' = "freeMutex" /\ alive' = alive \ {"reader"}
      \/ main = "freeMutex" /\ main' = "closeNotifier" /\ alive' = alive \ {"mutex"}
      \/ main = "freeState" /\ main' = "ended" /\ alive' = alive \ {"state"}
      \/ UNCHANGED alive /\ \/ main = "closeWatch" /\ main' = "joinWatch"
                            \/ main = "joinWatch" /\ main' = "stopLog" /\ Over("watch")
                            \/ main = "stopLog" /\ main' = "joinLog"
                            \/ main = "joinLog" /\ main' = "freeReader" /\ Over("log")
                            \/ main = "closeNotifier" /\ main' = "joinNotifier"
                            \/ main = "joinNotifier" /\ main' = "freeState" /\ Over("notifier")
  BY DEF Teardown, FreeContext, Close, Join, StopLog, Free, Goes
<1> QED
  BY <1>1, <1>2

\* Every step keeps the threads between their start and main's waiting.
LEMMA StageStep == TypeOK /\ Stage /\ [Next]_vars => Stage'
<1> SUFFICES ASSUME TypeOK, Stage, [Next]_vars PROVE Stage'
  OBVIOUS
<1>1. CASE Startup
  BY <1>1, StartupStage
<1>2. CASE Teardown
  BY <1>2, TeardownStage
<1> USE DEF Stage, Started, Waited, Provided, Captured, Constructing, Serving, LogJoined,
            WatchJoined, NotifierJoined, Over
<1>3. CASE main \in Serving /\ main' \in Serving /\ UNCHANGED <<alive, filtered, log, callback, stale>>
  BY <1>3
<1>4. CASE UNCHANGED <<main, alive, filtered, log, callback, stale>>
  BY <1>4
<1>5. CASE Log \/ ReadLine \/ HandlerSends
  <2>1. /\ ~Over("log") /\ UNCHANGED <<main, alive, filtered, callback>> /\ log' # "none"
    BY <1>5, ThreadSteps DEF mainVars
  <2> QED
    BY <2>1
<1>6. CASE Opener
  <2>1. /\ ~Over("watch") /\ UNCHANGED <<main, alive, filtered, log>>
        /\ callback'["watch"] # "none" /\ callback'["notifier"] = callback["notifier"]
    BY <1>6, ThreadSteps DEF mainVars
  <2> QED
    BY <2>1
<1>7. CASE Loader \/ ScriptSends
  <2>1. /\ ~Over("notifier") /\ UNCHANGED <<main, alive, filtered, log>>
        /\ callback'["notifier"] # "none" /\ callback'["watch"] = callback["watch"]
    BY <1>7, ThreadSteps DEF mainVars
  <2> QED
    BY <2>1
<1> QED
  BY <1>1, <1>2, <1>3, <1>4, <1>5, <1>6, <1>7, Steps

-----------------------------------------------------------------------------
(* What outlives its use                                                   *)

Late == {<<"log", "context">>, <<"notifier", "context">>, <<"notifier", "mutex">>}

\* A thread finds what Provided promises it.
LEMMA StaleStep ==
  TypeOK /\ Stage /\ OnlyContextAndMutexUsedLate /\ [Next]_vars => OnlyContextAndMutexUsedLate'
<1> SUFFICES ASSUME TypeOK, Stage, stale \subseteq Late, [Next]_vars PROVE stale' \subseteq Late
  BY DEF OnlyContextAndMutexUsedLate, Late
<1>1. CASE Startup \/ Teardown
  <2>1. UNCHANGED stale
    BY <1>1 DEF Startup, CreateContext, ConstructState, ConstructMutex, LoadFirst, StartWatch, FindLog,
                FindNoLog, ConstructReader, StartLog, StartFails, SetFilter, Teardown, FreeContext,
                Close, Join, StopLog, Free, Goes
  <2> QED
    BY <2>1
<1>2. CASE UNCHANGED stale
  BY <1>2
<1>3. CASE Log \/ ReadLine \/ HandlerSends
  <2>1. {"reader", "mutex", "state"} \subseteq alive
    BY <1>3, ThreadSteps DEF Stage, Provided
  <2>2. stale' = stale \/ \E objects \in SUBSET Objects : Use("log", objects)
    BY <1>3 DEF Log, Lock, NoLine, ReadLine, Handle, HandlerSends, Handled, Sent, Objects
  <2>3. ASSUME NEW objects \in SUBSET Objects, Use("log", objects) PROVE stale' \subseteq Late
    <3>1. objects \ alive \subseteq {"context"}
      BY <2>1 DEF Objects
    <3> QED
      BY <2>3, <3>1 DEF Use, Late
  <2> QED
    BY <2>2, <2>3
<1>4. CASE Opener
  <2>1. "reader" \in alive
    BY <1>4, ThreadSteps DEF Stage, Provided
  <2>2. UNCHANGED stale \/ Use("watch", {"reader"})
    BY <1>4 DEF Opener, Callback, Take, CallBack, CallbackEnds, Open
  <2> QED
    BY <2>1, <2>2 DEF Use
<1>5. CASE Loader \/ ScriptSends
  <2>1. "state" \in alive
    BY <1>5, ThreadSteps DEF Stage, Provided
  <2>2. UNCHANGED stale \/ \E objects \in SUBSET {"context", "mutex", "state"} : Use("notifier", objects)
    BY <1>5 DEF Loader, Callback, Take, CallBack, CallbackEnds, Load, Loaded, Tail, ScriptSends, Sent
  <2> QED
    BY <2>1, <2>2 DEF Use, Late
<1> QED
  BY <1>1, <1>2, <1>3, <1>4, <1>5, Steps

-----------------------------------------------------------------------------
(* Theorems                                                                *)

\* At first nothing exists and no thread runs.
LEMMA InitIInv == Init => IInv
<1> SUFFICES ASSUME Init PROVE IInv
  OBVIOUS
<1> USE DEF Init
<1>1. TypeOK
  <2>1. records \in 0..MaxRecords /\ made \in 0..MaxEvents
    BY BoundsAssumption
  <2>2. events \in [Watches -> Nat] /\ batch \in [Watches -> Nat]
    OBVIOUS
  <2>3. callback \in [Watches -> {"none", "idle", "lock", "script", "tail", "ended"}]
    OBVIOUS
  <2> QED
    BY <2>1, <2>2, <2>3 DEF TypeOK
<1>2. Started /\ Waited /\ Provided /\ Captured
  BY DEF Started, Waited, Provided, Captured, Constructing, LogJoined, WatchJoined, NotifierJoined,
         Over, Watches
<1>3. OnlyContextAndMutexUsedLate
  BY DEF OnlyContextAndMutexUsedLate
<1> QED
  BY <1>1, <1>2, <1>3 DEF IInv

\* The invariant that the theorems rest on.
LEMMA Invariance == Spec => []IInv
<1>1. IInv /\ [Next]_vars => IInv'
  BY TypeStep, StageStep, StaleStep DEF IInv, Stage
<1> QED
  BY <1>1, InitIInv, PTL DEF Spec

\* Every variable keeps its type; a FileWatch's notification is missed only
\* once its destructor has begun.
THEOREM TypeCorrectness == Spec => []TypeOK
  BY Invariance, PTL DEF IInv

\* Nothing but the context and holder's mutex is used after it was destroyed,
\* wherever the start-up fails and however the threads interleave.
THEOREM UsedLate == Spec => []OnlyContextAndMutexUsedLate
  BY Invariance, PTL DEF IInv

\* When main has ended no thread is left, and no keyboard is captured while
\* main waits for one.
THEOREM NoThreadOutlivesMain ==
  Spec => []((main = "ended" => \A t \in Threads : Over(t)) /\ (filtered => main \in Serving))
<1>1. IInv => (main = "ended" => \A t \in Threads : Over(t)) /\ (filtered => main \in Serving)
  BY DEF IInv, Waited, Captured, WatchJoined, LogJoined, NotifierJoined, Threads, Watches
<1> QED
  BY <1>1, Invariance, PTL

-----------------------------------------------------------------------------
(* Session                                                                 *)

Running == {t \in Threads : ~Over(t)}

\* What main's position is to Session, before a step and after it.
LEMMA Phases ==
  ASSUME TypeOK, TypeOK'
  PROVE  /\ main \in Constructing <=> Phase = "starting"
         /\ main \in Serving <=> Phase = "serving"
         /\ main = "ended" <=> Phase = "ended"
         /\ main \notin Constructing \cup Serving \cup {"ended"} <=> Phase = "leaving"
         /\ main' \in Constructing <=> Phase' = "starting"
         /\ main' \in Serving <=> Phase' = "serving"
         /\ main' = "ended" <=> Phase' = "ended"
         /\ main' \notin Constructing \cup Serving \cup {"ended"} <=> Phase' = "leaving"
  BY DEF TypeOK, Phase, Constructing, Serving, Joining

\* A thread that is over, or that is none, is not running.
LEMMA Threaded ==
  /\ UNCHANGED <<log, callback>> => Running' = Running
  /\ \A t \in Threads : t \in Running <=> ~Over(t)
  /\ Running \subseteq Threads
  BY DEF Running, Over

LEMMA SessionInit == Init => TheSession!Init
<1> SUFFICES ASSUME Init PROVE TheSession!Init
  OBVIOUS
<1>1. Phase = "starting" /\ Running = {} /\ filtered = FALSE
  BY DEF Init, Phase, Running, Over, Threads, Watches, Joining
<1> QED
  BY <1>1 DEF TheSession!Init, Running

\* A step of a single thread ends it, or is none of Session.
LEMMA OneThread ==
  ASSUME NEW t \in Threads, ~Over(t), UNCHANGED <<main, filtered>>,
         \A u \in Threads \ {t} : Over(u)' <=> Over(u)
  PROVE  TheSession!ThreadEnds(t) \/ UNCHANGED <<Phase, Running, filtered>>
<1>1. UNCHANGED Phase
  BY DEF Phase
<1>2. CASE Over(t)'
  <2>1. t \in Running /\ Running' = Running \ {t}
    BY <1>2 DEF Running
  <2> QED
    BY <1>1, <2>1 DEF TheSession!ThreadEnds, Running
<1>3. CASE ~Over(t)'
  <2>1. Running' = Running
    BY <1>3 DEF Running
  <2> QED
    BY <1>1, <2>1
<1> QED
  BY <1>2, <1>3

\* A thread is started when it is not running, before the session serves.
LEMMA Starts ==
  ASSUME IInv, TypeOK', NEW t \in Threads, Over(t), ~Over(t)', main \in Constructing, main' \in Constructing,
         UNCHANGED filtered, \A u \in Threads \ {t} : Over(u)' <=> Over(u)
  PROVE  TheSession!Start(t)
<1>1. Phase = "starting" /\ Phase' = "starting"
  BY Phases DEF IInv
<1>2. t \notin Running /\ Running' = Running \cup {t}
  BY DEF Running
<1> QED
  BY <1>1, <1>2 DEF TheSession!Start, Running

LEMMA SessionStep == IInv /\ [Next]_vars => [TheSession!Next]_(TheSession!vars)
<1> SUFFICES ASSUME IInv, [Next]_vars
             PROVE  \/ \E t \in Threads : TheSession!Start(t) \/ TheSession!ThreadEnds(t)
                    \/ TheSession!Serve \/ TheSession!Leave \/ TheSession!End \/ TheSession!Crash
                    \/ UNCHANGED <<Phase, Running, filtered>>
  BY DEF TheSession!Next, TheSession!vars, Running
<1>0. TypeOK /\ TypeOK' /\ Stage
  BY TypeStep DEF IInv, Stage
<1>1. CASE Startup
  <2>1. CASE CreateContext \/ ConstructState \/ ConstructMutex \/ LoadFirst \/ FindLog \/ ConstructReader
    <3>1. UNCHANGED <<log, callback, filtered>> /\ main \in Constructing /\ main' \in Constructing
      BY <2>1 DEF CreateContext, ConstructState, ConstructMutex, LoadFirst, FindLog, ConstructReader,
                  Goes, logVars, watchVars, Constructing
    <3>2. Phase = "starting" /\ Phase' = "starting"
      BY <1>0, <3>1, Phases
    <3> QED
      BY <3>1, <3>2, Threaded
  <2>2. ASSUME NEW w \in Watches, NEW from \in {"notifier", "watch"}, NEW to \in {"logs", "filter"},
               StartWatch(w, from, to), callback[w] = "none"
        PROVE  TheSession!Start(w)
    <3>1. Over(w) /\ ~Over(w)'
      BY <2>2, <1>0 DEF Over, StartWatch, TypeOK, Watches
    <3>2. \A u \in Threads \ {w} : Over(u)' <=> Over(u)
      BY <2>2, <1>0 DEF Over, StartWatch, TypeOK, Watches, Threads, logVars
    <3> QED
      BY <1>0, <2>2, <3>1, <3>2, Starts DEF StartWatch, Constructing, Threads
  <2>3. CASE StartWatch("notifier", "notifier", "logs")
    <3>1. callback["notifier"] = "none"
      BY <2>3, <1>0 DEF StartWatch, Stage, Started
    <3> QED
      BY <2>2, <2>3, <3>1 DEF Watches, Threads
  <2>4. CASE StartWatch("watch", "watch", "filter")
    <3>1. callback["watch"] = "none"
      BY <2>4, <1>0 DEF StartWatch, Stage, Started, Constructing
    <3> QED
      BY <2>2, <2>4, <3>1 DEF Watches, Threads
  <2>5. CASE StartLog
    <3>1. Over("log") /\ ~Over("log")'
      BY <2>5, <1>0 DEF Over, StartLog, Stage, Started
    <3>2. \A u \in Threads \ {"log"} : Over(u)' <=> Over(u)
      BY <2>5 DEF Over, StartLog, watchVars
    <3> QED
      BY <1>0, <2>5, <3>1, <3>2, Starts DEF StartLog, Constructing, Threads
  <2>6. CASE FindNoLog
    <3>1. Running' = {}
      BY <2>6, <1>0 DEF FindNoLog, Stage, Started, Running, Over, Threads, Watches, logVars
    <3>2. Phase = "starting" /\ Phase' = "ended" /\ UNCHANGED filtered
      BY <2>6, <1>0, Phases DEF FindNoLog, Constructing
    <3> QED
      BY <3>1, <3>2 DEF TheSession!Crash, Running
  <2>7. CASE StartFails
    <3>1. UNCHANGED <<log, callback, filtered>> /\ main \in Constructing /\ main' = "closeWatch"
      BY <2>7 DEF StartFails, Constructing, logVars, watchVars
    <3>2. filtered = FALSE
      BY <1>0, <3>1 DEF Stage, Captured, TypeOK, Constructing, Serving
    <3>3. Phase = "starting" /\ Phase' = "leaving"
      BY <1>0, <3>1, Phases DEF Constructing, Serving
    <3> QED
      BY <3>1, <3>2, <3>3, Threaded DEF TheSession!Leave, Running
  <2>8. CASE SetFilter
    <3>1. UNCHANGED <<log, callback>> /\ main \in Constructing /\ main' \in Serving
      BY <2>8 DEF SetFilter, Goes, Constructing, Serving, logVars, watchVars
    <3>2. Phase = "starting" /\ Phase' = "serving" /\ filtered' \in BOOLEAN
      BY <1>0, <3>1, Phases DEF TypeOK
    <3> QED
      BY <3>1, <3>2, Threaded DEF TheSession!Serve, Running
  <2> QED
    BY <1>1, <2>1, <2>3, <2>4, <2>5, <2>6, <2>7, <2>8 DEF Startup
<1>2. CASE main \in Serving /\ main' \in Serving /\ UNCHANGED <<alive, filtered, log, callback, stale>>
  <2>1. Phase = "serving" /\ Phase' = "serving"
    BY <1>0, <1>2, Phases
  <2> QED
    BY <1>2, <2>1, Threaded
<1>3. CASE Teardown
  <2>1. CASE FreeContext
    <3>1. UNCHANGED <<log, callback>> /\ main \in Serving /\ main' = "closeWatch" /\ filtered' = FALSE
      BY <2>1 DEF FreeContext, Goes, Serving, logVars, watchVars
    <3>2. Phase = "serving" /\ Phase' = "leaving"
      BY <1>0, <3>1, Phases DEF Constructing, Serving
    <3> QED
      BY <3>1, <3>2, Threaded DEF TheSession!Leave, Running
  <2>2. CASE Free("state", "freeState", "ended")
    <3>1. UNCHANGED <<log, callback, filtered>> /\ main = "freeState" /\ main' = "ended"
      BY <2>2 DEF Free, Goes, logVars, watchVars
    <3>2. Running = {}
      BY <1>0, <3>1 DEF Stage, Waited, WatchJoined, LogJoined, NotifierJoined, Running, Threads, Watches
    <3>3. Phase = "leaving" /\ Phase' = "ended"
      BY <1>0, <3>1, Phases DEF Constructing, Serving
    <3> QED
      BY <3>1, <3>2, <3>3, Threaded DEF TheSession!End, Running
  <2>3. CASE ~FreeContext /\ ~Free("state", "freeState", "ended")
    <3>1. UNCHANGED <<log, callback, filtered>>
          /\ main \notin Constructing \cup Serving \cup {"ended"}
          /\ main' \notin Constructing \cup Serving \cup {"ended"}
      BY <1>3, <2>3 DEF Teardown, Close, Join, StopLog, Free, Goes, Constructing, Serving, logVars, watchVars
    <3>2. Phase = "leaving" /\ Phase' = "leaving"
      BY <1>0, <3>1, Phases
    <3> QED
      BY <3>1, <3>2, Threaded
  <2> QED
    BY <2>1, <2>2, <2>3
<1>4. CASE Log \/ ReadLine \/ HandlerSends
  <2>1. ~Over("log") /\ UNCHANGED <<main, filtered, callback>>
    BY <1>0, <1>4, ThreadSteps DEF mainVars
  <2>2. \A u \in Threads \ {"log"} : Over(u)' <=> Over(u)
    BY <2>1 DEF Over
  <2> QED
    BY <2>1, <2>2, OneThread DEF Threads
<1>5. CASE Opener
  <2>1. ~Over("watch") /\ UNCHANGED <<main, filtered, log>> /\ callback'["notifier"] = callback["notifier"]
    BY <1>0, <1>5, ThreadSteps DEF mainVars
  <2>2. \A u \in Threads \ {"watch"} : Over(u)' <=> Over(u)
    BY <2>1 DEF Over, Threads, Watches
  <2> QED
    BY <2>1, <2>2, OneThread DEF Threads, Watches
<1>6. CASE Loader \/ ScriptSends
  <2>1. ~Over("notifier") /\ UNCHANGED <<main, filtered, log>> /\ callback'["watch"] = callback["watch"]
    BY <1>0, <1>6, ThreadSteps DEF mainVars
  <2>2. \A u \in Threads \ {"notifier"} : Over(u)' <=> Over(u)
    BY <2>1 DEF Over, Threads, Watches
  <2> QED
    BY <2>1, <2>2, OneThread DEF Threads, Watches
<1>7. CASE UNCHANGED <<main, alive, filtered, log, callback, stale>>
  BY <1>7, Threaded DEF Phase
<1> QED
  BY <1>1, <1>2, <1>3, <1>4, <1>5, <1>6, <1>7, Steps

\* The program implements Session, for any number of records and events.
THEOREM Refinement == Spec => SessionSpec
  BY SessionInit, SessionStep, Invariance, PTL DEF Spec, SessionSpec, TheSession!Spec
=============================================================================

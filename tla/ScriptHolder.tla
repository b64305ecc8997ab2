---------------------------- MODULE ScriptHolder ----------------------------
(***************************************************************************)
(* script::holder, input_sender and main's loop, with the three threads    *)
(* that run Lua: main, which answers keystrokes (process_input);           *)
(* log_read_thread, which handles log records (process_log_record); and    *)
(* the callback thread of the script's FileWatch, which reloads the script *)
(* (load_script).                                                          *)
(*                                                                         *)
(* A handler, and the script's top-level code, is any sequence of calls of *)
(* the bound functions that return in the end; those without an effect     *)
(* here (Sleep, IsKeyPressed, OutputDebugMessage) are left out, and errors *)
(* end it early.  A stroke is known by its number in the order of capture. *)
(* The module ends where main's loop does.                                 *)
(***************************************************************************)
EXTENDS Interception, SequencesExt

CONSTANTS
  Keyboards,   \* the keyboards that are plugged in
  Codes,       \* scan codes
  MaxStrokes,  \* bound: keystrokes typed
  MaxCalls,    \* bound: calls of bound functions
  MaxRecords,  \* bound: log records handled
  MaxEdits     \* bound: versions of the script file

ASSUME KeyboardsAssumption ==
  /\ \A d \in Keyboards : IsKeyboard(d)
  /\ {MaxStrokes, MaxCalls, MaxRecords, MaxEdits} \subseteq Nat

VARIABLES
  captured,  \* history: the strokes the driver has captured
  inbox,     \* per keyboard, the captured strokes that are not yet received
  running,   \* isRunnung
  main,      \* control of main
  device, stroke,      \* main's locals; device is also read by input_sender
  keys,      \* m_kstrokes
  suppress,  \* the Lua global of that name
  logger, records,     \* control of log_read_thread; records handled
  loader, modified,    \* control of the callback thread; events to handle
  edits, script, onEvent,  \* version of the file, of Lua's globals, and of
                           \* m_on_event (0 when there is none)
  calls,     \* calls made so far
  sent,      \* writes accepted by the driver
  verdicts,  \* history: process_input's answers
  own, foreign,  \* history: Suppress was called by main's handler, by a
                 \* log handler, since suppress was reset
  dropped    \* history: a write did not get as far as the driver

keyboard == <<captured, inbox>>
mainVars == <<running, main, device, stroke, keys, verdicts>>
logVars  == <<logger, records>>
loadVars == <<loader, modified, edits, script, onEvent>>
luaVars  == <<suppress, own, foreign>>
outVars  == <<sent, dropped>>
vars == <<keyboard, mainVars, logVars, loadVars, luaVars, calls, outVars>>

Stroke  == [dev : Keyboards, code : Codes, state : KeyStates]
Write   == [by : {"main", "input", "log", "script"}, dev : Keyboards,
            stroke : Nat, nstroke : Nat]
Verdict == [num : Nat, withheld : BOOLEAN, own : BOOLEAN, foreign : BOOLEAN]

KeyboardTypes == captured \in Seq(Stroke) /\ inbox \in [Keyboards -> Seq(Nat)]
MainTypes ==
  /\ running \in BOOLEAN
  /\ main \in {"loop", "wait", "received", "tracked", "handler", "forward", "exited"}
  /\ device \in Keyboards \cup {0} /\ stroke \in 0..Len(captured)
  /\ keys \subseteq Codes /\ verdicts \in Seq(Verdict)
LogTypes == logger \in {"idle", "handler"} /\ records \in Nat
LoadTypes ==
  /\ loader \in {"idle", "loading", "tail"} /\ modified \in Nat
  /\ edits \in Nat /\ script \in Nat /\ onEvent \in Nat
LuaTypes == suppress \in BOOLEAN /\ own \in BOOLEAN /\ foreign \in BOOLEAN
OutTypes == calls \in Nat /\ sent \in Seq(Write) /\ dropped \in BOOLEAN

TypeOK == KeyboardTypes /\ MainTypes /\ LogTypes /\ LoadTypes /\ LuaTypes /\ OutTypes

-----------------------------------------------------------------------------
(* The users: of the keyboards, of the console, of the editor.             *)

\* The driver captures a stroke (the filter is set before the loop).
Type(s) ==
  /\ main # "exited"
  /\ Len(captured) < MaxStrokes
  /\ captured' = Append(captured, s)
  /\ inbox' = [inbox EXCEPT ![s.dev] = Append(@, Len(captured'))]
  /\ UNCHANGED <<mainVars, logVars, loadVars, luaVars, calls, outVars>>

\* HandlerRoutine on CTRL_C_EVENT.
CtrlC ==
  /\ running
  /\ running' = FALSE
  /\ UNCHANGED <<keyboard, main, device, stroke, keys, verdicts, logVars, loadVars,
                 luaVars, calls, outVars>>

\* The script file is saved; its FileWatch reports it as modified.
Edit ==
  /\ edits < MaxEdits
  /\ edits' = edits + 1
  /\ modified' = modified + 1
  /\ UNCHANGED <<keyboard, mainVars, logVars, loader, script, onEvent, luaVars, calls,
                 outVars>>

-----------------------------------------------------------------------------
(* Functions bound in Lua, called by whom.                                 *)

\* interception_send to the device main's loop has last waited for.  The
\* driver, or an allocation, may fail; nobody looks at the result.
Send(by, nstroke) ==
  \/ /\ Accepts(device, nstroke)
     /\ \/ sent' = Append(sent, [by |-> by, dev |-> device, stroke |-> stroke,
                                 nstroke |-> nstroke])
        \/ UNCHANGED sent
     /\ UNCHANGED dropped
  \/ /\ ~Accepts(device, nstroke)
     /\ dropped' = TRUE
     /\ UNCHANGED sent

\* press_adn_release_key has an array of two strokes of eight bytes, and
\* passes its size in bytes.
SizeofStroke   == 8
PressAndRelease == 2
SizeofKstrokes == PressAndRelease * SizeofStroke

\* PressKey, ReleaseKey; PressAndReleaseKey.
Inject(by) ==
  /\ \E nstroke \in {1, SizeofKstrokes} : Send(by, nstroke)
  /\ UNCHANGED luaVars

Suppress(by) ==
  /\ suppress' = TRUE
  /\ own' = (own \/ by = "input")
  /\ foreign' = (foreign \/ by = "log")
  /\ UNCHANGED outVars

Call(by) ==
  /\ calls < MaxCalls
  /\ calls' = calls + 1
  /\ Inject(by) \/ Suppress(by)
  /\ UNCHANGED <<keyboard, mainVars, logVars, loadVars>>

\* ascii_to_scan_code_table["lalt"], ["ralt"]; IsModifierPressed("alt").
LAlt == 56
RAlt == 312
IsModifierPressed_alt == {LAlt, RAlt} \cap keys # {}

-----------------------------------------------------------------------------
(* main's loop and process_input()                                         *)

\* Fault: the loop does not look at isRunnung.
Loop_Forever ==
  /\ main = "loop"
  /\ main' = "wait"
  /\ UNCHANGED <<keyboard, running, device, stroke, keys, verdicts, logVars, loadVars,
                 luaVars, calls, outVars>>

\* while (isRunnung && ...
Loop ==
  /\ main = "loop"
  /\ main' = IF running THEN "wait" ELSE "exited"
  /\ UNCHANGED <<keyboard, running, device, stroke, keys, verdicts, logVars, loadVars,
                 luaVars, calls, outVars>>

\* Fault: the device waited for is not kept.
Receive_OldDevice ==
  /\ main = "wait"
  /\ Signalled(inbox) # {}
  /\ stroke' = Head(inbox[WaitResult(inbox)])
  /\ inbox' = [inbox EXCEPT ![WaitResult(inbox)] = Tail(@)]
  /\ device' = (IF device = 0 THEN WaitResult(inbox) ELSE device)
  /\ main' = "received"
  /\ UNCHANGED <<captured, running, keys, verdicts, logVars, loadVars, luaVars, calls,
                 outVars>>

\* Fault: the device waited for is not assigned.
Receive_NoDevice ==
  /\ main = "wait"
  /\ Signalled(inbox) # {}
  /\ stroke' = Head(inbox[WaitResult(inbox)])
  /\ inbox' = [inbox EXCEPT ![WaitResult(inbox)] = Tail(@)]
  /\ main' = "received"
  /\ UNCHANGED <<captured, running, device, keys, verdicts, logVars, loadVars, luaVars,
                 calls, outVars>>

\* Fault: all the strokes that wait are read, and the first is handled.
Receive_Batch ==
  /\ main = "wait"
  /\ Signalled(inbox) # {}
  /\ device' = WaitResult(inbox)
  /\ stroke' = Head(inbox[device'])
  /\ inbox' = [inbox EXCEPT ![device'] = <<>>]
  /\ main' = "received"
  /\ UNCHANGED <<captured, running, keys, verdicts, logVars, loadVars, luaVars, calls,
                 outVars>>

\* interception_receive(context, device = interception_wait(context), ...) > 0
Receive ==
  /\ main = "wait"
  /\ Signalled(inbox) # {}
  /\ device' = WaitResult(inbox)
  /\ stroke' = Head(inbox[device'])
  /\ inbox' = [inbox EXCEPT ![device'] = Tail(@)]
  /\ main' = "received"
  /\ UNCHANGED <<captured, running, keys, verdicts, logVars, loadVars, luaVars, calls,
                 outVars>>

\* The wait fails (device 0), or nothing is read: the loop ends.
ReceiveFails ==
  /\ main = "wait"
  /\ device' \in {0} \cup {d \in Signalled(inbox) : d = WaitResult(inbox)}
  /\ main' = "exited"
  /\ UNCHANGED <<keyboard, running, stroke, keys, verdicts, logVars, loadVars, luaVars,
                 calls, outVars>>

\* Fault: the state, not the code, is remembered.
Track_State ==
  /\ main = "received"
  /\ keys' = keys \cup {captured[stroke].state}
  /\ main' = "tracked"
  /\ UNCHANGED <<keyboard, running, device, stroke, verdicts, logVars, loadVars, luaVars,
                 calls, outVars>>

\* Fault: the E0 bit is ignored.
Track_AnyState ==
  /\ main = "received"
  /\ LET s == captured[stroke]
     IN  keys' = IF s.state % 2 = KEY_DOWN THEN keys \cup {s.code} ELSE keys \ {s.code}
  /\ main' = "tracked"
  /\ UNCHANGED <<keyboard, running, device, stroke, verdicts, logVars, loadVars, luaVars,
                 calls, outVars>>

\* m_kstrokes, without the mutex.  Strokes of extended keys are not tracked.
Track ==
  /\ main = "received"
  /\ LET s == captured[stroke]
     IN  keys' = CASE s.state = KEY_DOWN -> keys \cup {s.code}
                   [] s.state = KEY_UP   -> keys \ {s.code}
                   [] OTHER              -> keys
  /\ main' = "tracked"
  /\ UNCHANGED <<keyboard, running, device, stroke, verdicts, logVars, loadVars, luaVars,
                 calls, outVars>>

\* The mutex may be taken in shared mode.
SharedFree == loader # "loading"

\* Fault: suppress is not reset.
Enter_KeepsSuppress ==
  /\ main = "tracked" /\ SharedFree
  /\ own' = FALSE /\ foreign' = FALSE
  /\ main' = "handler"
  /\ UNCHANGED <<keyboard, running, device, stroke, keys, verdicts, logVars, loadVars,
                 suppress, calls, outVars>>

\* shared_lock; suppress = false; and the call of OnEvent begins.
Enter ==
  /\ main = "tracked" /\ SharedFree
  /\ suppress' = FALSE /\ own' = FALSE /\ foreign' = FALSE
  /\ main' = "handler"
  /\ UNCHANGED <<keyboard, running, device, stroke, keys, verdicts, logVars, loadVars,
                 calls, outVars>>

\* OnEvent calls a function.
MainCall == main = "handler" /\ Call("input")

\* return m_state["suppress"], the lock with it; withheld: continue.
Leave ==
  /\ main = "handler"
  /\ verdicts' = Append(verdicts, [num |-> stroke, withheld |-> suppress,
                                   own |-> own, foreign |-> foreign])
  /\ main' = IF suppress THEN "loop" ELSE "forward"
  /\ UNCHANGED <<keyboard, running, device, stroke, keys, logVars, loadVars, luaVars,
                 calls, outVars>>

\* Fault: the stroke may be sent again.
Forward_Repeats ==
  /\ main = "forward"
  /\ Send("main", 1)
  /\ main' \in {"forward", "loop"}
  /\ UNCHANGED <<keyboard, running, device, stroke, keys, verdicts, logVars, loadVars,
                 luaVars, calls>>

\* interception_send(context, device, &stroke, 1)
Forward ==
  /\ main = "forward"
  /\ Send("main", 1)
  /\ main' = "loop"
  /\ UNCHANGED <<keyboard, running, device, stroke, keys, verdicts, logVars, loadVars,
                 luaVars, calls>>

-----------------------------------------------------------------------------
(* process_log_record(), on log_read_thread                                *)

LogEnter ==
  /\ logger = "idle" /\ SharedFree /\ main # "exited"
  /\ records < MaxRecords
  /\ records' = records + 1
  /\ logger' = "handler"
  /\ UNCHANGED <<keyboard, mainVars, loadVars, luaVars, calls, outVars>>

LogCall == logger = "handler" /\ main # "exited" /\ Call("log")

LogLeave ==
  /\ logger = "handler"
  /\ logger' = "idle"
  /\ UNCHANGED <<keyboard, mainVars, records, loadVars, luaVars, calls, outVars>>

-----------------------------------------------------------------------------
(* load_script(), on the callback thread of the script's FileWatch         *)

\* Fault: load_script takes the mutex in shared mode.
UniqueFree_Shared == TRUE

\* The mutex may be taken in exclusive mode.
UniqueFree == main # "handler" /\ logger # "handler"

\* unique_lock; script_file reads the file, and runs it if it parses.
LoadStart ==
  /\ loader = "idle" /\ modified > 0 /\ UniqueFree /\ main # "exited"
  /\ modified' = modified - 1
  /\ \/ script' = edits /\ loader' = "loading"
     \/ UNCHANGED <<script, loader>>
  /\ UNCHANGED <<keyboard, mainVars, logVars, edits, onEvent, luaVars, calls, outVars>>

\* The script's top-level code calls a function.
LoadCall == loader = "loading" /\ main # "exited" /\ Call("script")

\* m_on_event = m_state["OnEvent"], and unlock.
LoadSucceeds ==
  /\ loader = "loading"
  /\ onEvent' = script
  /\ loader' = "tail"
  /\ UNCHANGED <<keyboard, mainVars, logVars, modified, edits, script, luaVars, calls,
                 outVars>>

\* !res.valid(): m_on_event keeps the old function, Lua what has been run.
LoadFails ==
  /\ loader = "loading"
  /\ loader' = "idle"
  /\ UNCHANGED <<keyboard, mainVars, logVars, modified, edits, script, onEvent, luaVars,
                 calls, outVars>>

\* The rest of load_script uses the Lua state without the mutex.
LoadTail ==
  /\ loader = "tail"
  /\ loader' = "idle"
  /\ UNCHANGED <<keyboard, mainVars, logVars, modified, edits, script, onEvent, luaVars,
                 calls, outVars>>

-----------------------------------------------------------------------------
\* main before its loop: the script has been loaded once, or has failed to.
Init ==
  /\ captured = <<>> /\ inbox = [d \in Keyboards |-> <<>>]
  /\ running = TRUE /\ main = "loop" /\ device = 0 /\ stroke = 0
  /\ keys = {} /\ suppress = FALSE
  /\ logger = "idle" /\ records = 0
  /\ loader = "idle" /\ modified = 0 /\ edits = 1
  /\ script \in {0, 1} /\ onEvent \in {0, script}
  /\ calls = 0 /\ sent = <<>> /\ verdicts = <<>>
  /\ own = FALSE /\ foreign = FALSE /\ dropped = FALSE

Users == (\E s \in Stroke : Type(s)) \/ CtrlC \/ Edit

Main == Loop \/ Receive \/ Track \/ Enter \/ Leave \/ Forward

Calls == MainCall \/ LogCall \/ LoadCall

Load == LoadSucceeds \/ LoadFails \/ LoadTail

Next == \/ Users \/ Main \/ ReceiveFails \/ Calls
        \/ LogEnter \/ LogLeave \/ LoadStart \/ Load

Spec == Init /\ [][Next]_vars

\* The scheduler runs main whenever it is not blocked; handlers and the
\* script's top-level code come to their end.
FairSpec == Spec /\ WF_vars(Main) /\ WF_vars(LogLeave) /\ WF_vars(Load)

-----------------------------------------------------------------------------
(* Properties                                                              *)

\* A stroke is withheld from the system exactly if Suppress was called while
\* main handled it: by its own handler, or by a log handler that ran at the
\* same time, both holding the mutex in shared mode (script_holder.cpp:189,
\* 259-264, 272).
WithheldOnlyBySuppress ==
  \A i \in 1..Len(verdicts) :
    verdicts[i].withheld <=> verdicts[i].own \/ verdicts[i].foreign

\* The strokes main has come to track.
Tracked ==
  [i \in 1..Len(verdicts) |-> verdicts[i].num] \o
  (IF main \in {"tracked", "handler"} THEN <<stroke>> ELSE <<>>)

\* m_kstrokes holds the codes whose last plain stroke, on whichever keyboard,
\* was a press (script_holder.cpp:225-228).
HeldKeysTracked ==
  keys = {c \in Codes :
            \E i \in 1..Len(Tracked) :
              /\ captured[Tracked[i]].code = c
              /\ captured[Tracked[i]].state = KEY_DOWN
              /\ \A j \in i..Len(Tracked) :
                   ~ /\ captured[Tracked[j]].code = c
                     /\ captured[Tracked[j]].state = KEY_UP}

\* What the handler of a stroke injects goes to the keyboard of the stroke,
\* and comes before the stroke itself (main.cpp:187-194, input_sender.h:18-34).
InjectionsComeFirst ==
  \A i \in 1..Len(sent) :
    sent[i].by = "input" =>
      /\ sent[i].dev = captured[sent[i].stroke].dev
      /\ \A j \in 1..i : ~(sent[j].by = "main" /\ sent[j].stroke = sent[i].stroke)

\* A running handler is never moved to another version of the script
\* (script_holder.cpp:57, 259, 272).
HandlerKeepsItsScript ==
  [][(main = "handler" /\ main' = "handler") \/ (logger = "handler" /\ logger' = "handler")
       => UNCHANGED <<script, onEvent>>]_vars

\* What a script presses gets to the driver from the first stroke on, until
\* the loop has ended: device is the keyboard used last, and none before and,
\* perhaps, after (main.cpp:147, 187, input_sender.h:12, interception.c:188).
DroppedOnlyOutsideTheLoop ==
  [][~dropped /\ dropped' => stroke = 0 \/ main = "exited"]_vars

\* Every stroke is answered, whatever the other threads do, unless the loop
\* ends first.
StrokesAreAnswered ==
  \A n \in 1..MaxStrokes :
    (Len(captured) >= n)
      ~> (main = "exited" \/ \E i \in 1..Len(verdicts) : verdicts[i].num = n)

\* After Ctrl-C the loop ends, once there is a stroke that wakes it.
StopWithTheNextStroke ==
  (~running /\ Signalled(inbox) # {}) ~> main = "exited"

\* main and process_input implement KeyFilter: strokes that have not been
\* answered wait in the driver or are in main's hand; the driver's writes are
\* main's, of strokes, or those of the bound functions.
Pending(d) ==
  (IF main \in {"received", "tracked", "handler", "forward"} /\ captured[stroke].dev = d
   THEN <<stroke>> ELSE <<>>) \o inbox[d]
Output(w) == [to |-> w.dev, stroke |-> IF w.by = "main" THEN w.stroke ELSE 0]
Filter == INSTANCE KeyFilter WITH Strokes <- 1..MaxStrokes,
                                  pending <- [d \in Keyboards |-> Pending(d)],
                                  output  <- [i \in 1..Len(sent) |-> Output(sent[i])]
FilterSpec == Filter!Spec

\* script_holder.cpp:179, 202: while a handler answers the press of the right
\* Alt key, which the driver reports as ralt_down, an Alt modifier is pressed.
ralt_down == [code |-> LAlt, state |-> KEY_DOWN + KEY_E0]
RightAltIsSeen ==
  main = "handler"
    => ( [code |-> captured[stroke].code, state |-> captured[stroke].state] = ralt_down
           => IsModifierPressed_alt )

\* main.cpp:196-198 (in a comment): an array of key strokes is sent with the
\* number of strokes it has.
SendsWhatItHas ==
  \A i \in 1..Len(sent) : sent[i].nstroke <= PressAndRelease
=============================================================================

-------------------------- MODULE ScriptHolder_proofs -----------------------
(***************************************************************************)
(* The mutex of script::holder does what it is there for, a withheld       *)
(* keystroke was withheld by a handler that ran while it was answered, and *)
(* injections come before the keystroke and go to its keyboard: for every  *)
(* set of keyboards and codes, and for every value of the bounds.          *)
(***************************************************************************)
EXTENDS ScriptHolder, SequenceTheorems, WellFoundedInduction, TLAPS

\* A non-empty set of natural numbers has a least element.
LEMMA LeastOfNaturals ==
  ASSUME NEW S \in SUBSET Nat, S # {}
  PROVE  \E k \in S : \A j \in S : k <= j
<1> DEFINE Less == {pair \in Nat \X Nat : pair[1] < pair[2]}
<1>1. IsWellFoundedOn(Less, Nat)
  BY NatLessThanWellFounded DEF OpToRel
<1> HIDE DEF Less
<1>2. PICK k \in S : \A j \in S : <<j, k>> \notin Less
  BY <1>1, WFMin
<1>3. ASSUME NEW j \in S PROVE k <= j
  <2>1. j \in Nat /\ k \in Nat /\ <<j, k>> \notin Less
    BY <1>2
  <2> QED
    BY <2>1 DEF Less
<1> QED
  BY <1>3

\* The short form of the wait: of all devices, one that is signalled.
LEMMA WaitResultIsSignalled ==
  ASSUME NEW boxes, DOMAIN boxes \subseteq Nat, Signalled(boxes) # {}
  PROVE  WaitResult(boxes) \in DOMAIN boxes /\ boxes[WaitResult(boxes)] # <<>>
<1>1. Signalled(boxes) \in SUBSET Nat
  BY DEF Signalled
<1>2. WaitResult(boxes) \in Signalled(boxes)
  BY <1>1, LeastOfNaturals DEF WaitResult, Min
<1> QED
  BY <1>2 DEF Signalled

\* While load_script holds the mutex for itself, no handler runs.
Exclusion == loader = "loading" => main # "handler" /\ logger # "handler"

\* The answer main's handler would give now.
AnswerSoFar == main = "handler" => (suppress <=> own \/ foreign)

\* main has received a stroke and has not yet passed it on or dropped it.
InHand == main \in {"received", "tracked", "handler", "forward"}

\* main has passed stroke n on.
Written(n) == \E j \in 1..Len(sent) : sent[j].by = "main" /\ sent[j].stroke = n

\* The k-th stroke in the inbox of keyboard d was made there, waits there only
\* once, and has neither been received nor passed on.
Waiting(d, k) ==
  /\ inbox[d][k] \in 1..Len(captured)
  /\ captured[inbox[d][k]].dev = d
  /\ \A j \in 1..Len(inbox[d]) : inbox[d][j] = inbox[d][k] => j = k
  /\ ~Written(inbox[d][k])
  /\ InHand => inbox[d][k] # stroke

Queues == \A d \in Keyboards : \A k \in 1..Len(inbox[d]) : Waiting(d, k)

\* The stroke in hand has come from the device main has waited for.
Hand == InHand => /\ stroke \in 1..Len(captured)
                  /\ captured[stroke].dev = device
                  /\ ~Written(stroke)

\* Writes are made for strokes that have been captured.
Writes == \A j \in 1..Len(sent) :
            /\ sent[j].stroke \in 0..Len(captured)
            /\ sent[j].by = "input" => sent[j].stroke # 0

Strokes == Queues /\ Hand /\ Writes /\ InjectionsComeFirst

IInv == TypeOK /\ Exclusion /\ AnswerSoFar /\ WithheldOnlyBySuppress /\ Strokes

-----------------------------------------------------------------------------
(* The mutex                                                               *)

\* A step of each kind keeps the mutex's promise.
LEMMA ExclusionStep == Exclusion /\ [Next]_vars => Exclusion'
<1> SUFFICES ASSUME Exclusion, [Next]_vars PROVE Exclusion'
  OBVIOUS
<1> USE DEF Exclusion
<1>1. CASE Users
  BY <1>1 DEF Users, Type, CtrlC, Edit, mainVars, logVars, loadVars
<1>2. CASE Main
  BY <1>2 DEF Main, Loop, Receive, Track, Enter, Leave, Forward, SharedFree, logVars,
              loadVars
<1>3. CASE ReceiveFails
  BY <1>3 DEF ReceiveFails, logVars, loadVars
<1>4. CASE Calls
  BY <1>4 DEF Calls, MainCall, LogCall, LoadCall, Call, mainVars, logVars, loadVars
<1>5. CASE LogEnter \/ LogLeave
  BY <1>5 DEF LogEnter, LogLeave, SharedFree, mainVars, loadVars
<1>6. CASE LoadStart \/ Load
  BY <1>6 DEF LoadStart, UniqueFree, Load, LoadSucceeds, LoadFails, LoadTail, mainVars,
              logVars
<1>7. CASE UNCHANGED vars
  BY <1>7 DEF vars, mainVars, logVars, loadVars
<1> QED
  BY <1>1, <1>2, <1>3, <1>4, <1>5, <1>6, <1>7 DEF Next

\* A handler's script and m_on_event stay as they are while it runs: only
\* load_script changes them, and it keeps the handlers out
\* (script_holder.cpp:57, 259, 272).
THEOREM HandlersAreIsolated == Spec => HandlerKeepsItsScript
<1> DEFINE Kept == (main = "handler" /\ main' = "handler") \/ (logger = "handler" /\ logger' = "handler")
                     => UNCHANGED <<script, onEvent>>
<1>1. Init => Exclusion
  BY DEF Init, Exclusion
<1>2. Exclusion /\ [Next]_vars => [Kept]_vars
  <2> SUFFICES ASSUME Exclusion, Next PROVE Kept \/ UNCHANGED vars
    OBVIOUS
  <2>1. CASE LoadStart \/ Load
    BY <2>1 DEF LoadStart, UniqueFree, Load, LoadSucceeds, LoadFails, LoadTail, Exclusion
  <2>2. CASE UNCHANGED <<script, onEvent>>
    BY <2>2
  <2> QED
    BY <2>1, <2>2
       DEF Next, loadVars, Users, Type, CtrlC, Edit, Main, Loop, Receive, Track, Enter,
           Leave, Forward, ReceiveFails, Calls, MainCall, LogCall, LoadCall, Call,
           LogEnter, LogLeave
<1> QED
  BY <1>1, <1>2, ExclusionStep, PTL DEF Spec, HandlerKeepsItsScript

-----------------------------------------------------------------------------
(* Types                                                                   *)

\* A keyboard is a device, no keyboard is device 0, and a write that is
\* accepted goes to a keyboard.
LEMMA KeyboardsAreDevices ==
  /\ Keyboards \subseteq Nat \ {0}
  /\ TypeOK => \A n : Accepts(device, n) => device \in Keyboards
<1>1. Keyboards \subseteq Nat \ {0}
  BY KeyboardsAssumption, DevicesAssumption DEF IsKeyboard
<1>2. ASSUME TypeOK, NEW n, Accepts(device, n) PROVE device \in Keyboards
  BY <1>2, DevicesAssumption DEF TypeOK, MainTypes, Accepts, IsInvalid, IsKeyboard, IsMouse
<1> QED
  BY <1>1, <1>2

\* At most one write has been added, by whom, and for the stroke main handles.
OneMore(by) ==
  \/ UNCHANGED sent
  \/ \E w \in Write : /\ w.by = by /\ w.stroke = stroke /\ w.dev = device
                     /\ sent' = Append(sent, w)

LEMMA OneMoreType ==
  ASSUME sent \in Seq(Write), NEW by, OneMore(by)
  PROVE  /\ sent' \in Seq(Write)
         /\ Len(sent') >= Len(sent)
         /\ \A j \in 1..Len(sent) : sent'[j] = sent[j]
         /\ \A j \in 1..Len(sent') : j > Len(sent) =>
              /\ j = Len(sent) + 1
              /\ sent'[j].by = by /\ sent'[j].stroke = stroke /\ sent'[j].dev = device
<1>1. CASE UNCHANGED sent
  BY <1>1
<1>2. CASE ~UNCHANGED sent
  <2>1. PICK w \in Write : /\ w.by = by /\ w.stroke = stroke /\ w.dev = device
                           /\ sent' = Append(sent, w)
    BY <1>2 DEF OneMore
  <2> QED
    BY <2>1
<1> QED
  BY <1>1, <1>2

\* Send adds a write or none.
LEMMA SendAdds ==
  ASSUME TypeOK, NEW by \in {"main", "input", "log", "script"},
         NEW nstroke \in Nat, Send(by, nstroke)
  PROVE  /\ dropped' \in BOOLEAN
         /\ OneMore(by)
<1> DEFINE new == [by |-> by, dev |-> device, stroke |-> stroke, nstroke |-> nstroke]
<1>1. CASE Accepts(device, nstroke) /\ sent' = Append(sent, new)
  <2>1. new \in Write
    BY <1>1, KeyboardsAreDevices DEF TypeOK, MainTypes, OutTypes, Write
  <2> QED
    BY <1>1, <2>1 DEF Send, TypeOK, OutTypes, OneMore
<1>2. CASE UNCHANGED sent
  BY <1>2 DEF Send, TypeOK, OutTypes, OneMore
<1> QED
  BY <1>1, <1>2 DEF Send

\* A call adds a write or none, or suppresses the stroke main handles.
LEMMA CallAdds ==
  ASSUME TypeOK, NEW by \in {"input", "log", "script"}, Call(by)
  PROVE  /\ UNCHANGED <<keyboard, mainVars, logVars, loadVars>>
         /\ calls' \in Nat
         /\ suppress' \in BOOLEAN /\ own' \in BOOLEAN
         /\ foreign' \in BOOLEAN /\ dropped' \in BOOLEAN
         /\ OneMore(by)
         /\ \/ UNCHANGED luaVars
            \/ /\ suppress' = TRUE
               /\ own' = (own \/ by = "input") /\ foreign' = (foreign \/ by = "log")
<1>1. UNCHANGED <<keyboard, mainVars, logVars, loadVars>> /\ calls' \in Nat
  BY DEF Call, TypeOK, OutTypes
<1>2. CASE Inject(by)
  <2>1. PICK n \in {1, SizeofKstrokes} : Send(by, n)
    BY <1>2 DEF Inject
  <2>2. n \in Nat
    BY DEF SizeofKstrokes, PressAndRelease, SizeofStroke
  <2>3. UNCHANGED luaVars
    BY <1>2 DEF Inject
  <2> QED
    BY <1>1, <2>1, <2>2, <2>3, SendAdds DEF luaVars, TypeOK, LuaTypes
<1>3. CASE Suppress(by)
  BY <1>1, <1>3 DEF Suppress, outVars, TypeOK, LuaTypes, OutTypes, OneMore
<1> QED
  BY <1>2, <1>3 DEF Call

\* Receive takes the first stroke of the keyboard the wait has returned.
LEMMA ReceiveTakes ==
  ASSUME TypeOK, Receive
  PROVE  /\ device' \in Keyboards /\ inbox[device'] \in Seq(Nat)
         /\ inbox[device'] # <<>> /\ stroke' = inbox[device'][1]
         /\ inbox' = [inbox EXCEPT ![device'] = Tail(@)]
<1>1. DOMAIN inbox = Keyboards /\ DOMAIN inbox \subseteq Nat
  BY KeyboardsAreDevices DEF TypeOK, KeyboardTypes
<1>2. device' \in Keyboards /\ inbox[device'] # <<>>
  BY <1>1, WaitResultIsSignalled DEF Receive
<1>3. inbox[device'] \in Seq(Nat)
  BY <1>2 DEF TypeOK, KeyboardTypes
<1> QED
  BY <1>2, <1>3 DEF Receive

\* What a step leaves alone keeps its type.
LEMMA TypesKept ==
  ASSUME TypeOK
  PROVE  /\ UNCHANGED keyboard => KeyboardTypes'
         /\ UNCHANGED <<mainVars, captured>> => MainTypes'
         /\ UNCHANGED logVars => LogTypes'
         /\ UNCHANGED loadVars => LoadTypes'
         /\ UNCHANGED luaVars => LuaTypes'
         /\ UNCHANGED <<calls, outVars>> => OutTypes'
<1> USE DEF TypeOK
<1>1. UNCHANGED keyboard => KeyboardTypes'
  BY DEF keyboard, KeyboardTypes
<1>2. UNCHANGED <<mainVars, captured>> => MainTypes'
  BY DEF mainVars, MainTypes
<1>3. /\ UNCHANGED logVars => LogTypes'
      /\ UNCHANGED loadVars => LoadTypes'
  BY DEF logVars, LogTypes, loadVars, LoadTypes
<1>4. /\ UNCHANGED luaVars => LuaTypes'
      /\ UNCHANGED <<calls, outVars>> => OutTypes'
  BY DEF luaVars, LuaTypes, outVars, OutTypes
<1> QED
  BY <1>1, <1>2, <1>3, <1>4

\* The steps of main change main's variables, or Lua's, or write.
LEMMA MainTypeStep ==
  ASSUME TypeOK, Strokes, Main \/ ReceiveFails PROVE TypeOK'
<1>1. CASE Loop \/ ReceiveFails
  <2>1. Signalled(inbox) \subseteq Keyboards
    BY DEF Signalled, TypeOK, KeyboardTypes
  <2>2. device' \in Keyboards \cup {0}
    BY <1>1, <2>1 DEF Loop, ReceiveFails, TypeOK, MainTypes
  <2>3. MainTypes'
    BY <1>1, <2>2 DEF Loop, ReceiveFails, TypeOK, MainTypes, keyboard
  <2> QED
    BY <1>1, <2>3, TypesKept DEF Loop, ReceiveFails, TypeOK
<1>2. CASE Receive
  <2>1. /\ device' \in Keyboards /\ inbox[device'] \in Seq(Nat) /\ inbox[device'] # <<>>
        /\ stroke' = inbox[device'][1] /\ inbox' = [inbox EXCEPT ![device'] = Tail(@)]
    BY <1>2, ReceiveTakes
  <2>2. KeyboardTypes'
    BY <1>2, <2>1 DEF Receive, TypeOK, KeyboardTypes
  <2>3. stroke' \in 0..Len(captured)
    BY <2>1 DEF Strokes, Queues, Waiting
  <2>4. MainTypes'
    BY <1>2, <2>1, <2>3 DEF Receive, TypeOK, MainTypes
  <2> QED
    BY <1>2, <2>2, <2>4, TypesKept DEF Receive, TypeOK
<1>3. CASE Track
  <2>1. stroke \in 1..Len(captured)
    BY <1>3 DEF Track, Strokes, Hand, InHand
  <2>2. captured[stroke] \in Stroke
    BY <2>1 DEF TypeOK, KeyboardTypes
  <2>3. captured[stroke].code \in Codes
    BY <2>2 DEF Stroke
  <2>4. keys' \subseteq Codes
    BY <1>3, <2>3 DEF Track, TypeOK, MainTypes
  <2>5. MainTypes'
    BY <1>3, <2>4 DEF Track, TypeOK, MainTypes, keyboard
  <2> QED
    BY <1>3, <2>5, TypesKept DEF Track, TypeOK
<1>4. CASE Enter
  <2>1. MainTypes' /\ LuaTypes'
    BY <1>4 DEF Enter, TypeOK, MainTypes, LuaTypes, keyboard
  <2> QED
    BY <1>4, <2>1, TypesKept DEF Enter, TypeOK
<1>5. CASE Leave
  <2> DEFINE answer == [num |-> stroke, withheld |-> suppress, own |-> own, foreign |-> foreign]
  <2>1. answer \in Verdict
    BY DEF Verdict, TypeOK, MainTypes, LuaTypes
  <2>2. verdicts' \in Seq(Verdict)
    BY <1>5, <2>1 DEF Leave, TypeOK, MainTypes
  <2>3. MainTypes'
    BY <1>5, <2>2 DEF Leave, TypeOK, MainTypes, keyboard
  <2> QED
    BY <1>5, <2>3, TypesKept DEF Leave, TypeOK
<1>6. CASE Forward
  <2>1. dropped' \in BOOLEAN /\ OneMore("main")
    BY <1>6, SendAdds DEF Forward
  <2>2. sent' \in Seq(Write)
    BY <2>1, OneMoreType DEF TypeOK, OutTypes
  <2>3. MainTypes' /\ OutTypes'
    BY <1>6, <2>1, <2>2 DEF Forward, TypeOK, MainTypes, OutTypes, keyboard
  <2> QED
    BY <1>6, <2>3, TypesKept DEF Forward, TypeOK
<1> QED
  BY <1>1, <1>2, <1>3, <1>4, <1>5, <1>6 DEF Main

\* Every step keeps the types.
LEMMA TypeStep == TypeOK /\ Strokes /\ [Next]_vars => TypeOK'
<1> SUFFICES ASSUME TypeOK, Strokes, [Next]_vars PROVE TypeOK'
  OBVIOUS
<1>1. ASSUME NEW s \in Stroke, Type(s) PROVE TypeOK'
  <2>1. /\ captured' \in Seq(Stroke) /\ Len(captured') = Len(captured) + 1
        /\ Len(captured) \in Nat /\ s.dev \in Keyboards
    BY <1>1 DEF Type, Stroke, TypeOK, KeyboardTypes
  <2>2. KeyboardTypes'
    BY <1>1, <2>1 DEF Type, TypeOK, KeyboardTypes
  <2>3. MainTypes'
    BY <1>1, <2>1 DEF Type, TypeOK, MainTypes, mainVars
  <2> QED
    BY <1>1, <2>2, <2>3, TypesKept DEF Type, TypeOK
<1>2. CASE CtrlC
  <2>1. MainTypes'
    BY <1>2 DEF CtrlC, TypeOK, MainTypes, keyboard
  <2> QED
    BY <1>2, <2>1, TypesKept DEF CtrlC, TypeOK
<1>3. CASE Edit
  <2>1. LoadTypes'
    BY <1>3 DEF Edit, TypeOK, LoadTypes
  <2> QED
    BY <1>3, <2>1, TypesKept DEF Edit, TypeOK, keyboard
<1>4. CASE Main \/ ReceiveFails
  BY <1>4, MainTypeStep
<1>5. CASE Calls
  <2>1. PICK by \in {"input", "log", "script"} : Call(by)
    BY <1>5 DEF Calls, MainCall, LogCall, LoadCall
  <2>2. OutTypes' /\ LuaTypes'
    BY <2>1, CallAdds, OneMoreType DEF TypeOK, OutTypes, LuaTypes
  <2> QED
    BY <2>1, <2>2, CallAdds, TypesKept DEF TypeOK, keyboard
<1>6. CASE LogEnter \/ LogLeave
  <2>1. LogTypes'
    BY <1>6 DEF LogEnter, LogLeave, TypeOK, LogTypes
  <2> QED
    BY <1>6, <2>1, TypesKept DEF LogEnter, LogLeave, TypeOK, keyboard
<1>7. CASE LoadStart \/ Load
  <2>1. LoadTypes'
    BY <1>7 DEF LoadStart, Load, LoadSucceeds, LoadFails, LoadTail, TypeOK, LoadTypes
  <2> QED
    BY <1>7, <2>1, TypesKept
       DEF LoadStart, Load, LoadSucceeds, LoadFails, LoadTail, TypeOK, keyboard
<1>8. CASE UNCHANGED vars
  BY <1>8, TypesKept DEF vars, TypeOK, keyboard
<1> QED
  BY <1>1, <1>2, <1>3, <1>4, <1>5, <1>6, <1>7, <1>8 DEF Next, Users

-----------------------------------------------------------------------------
(* Suppress                                                                *)

\* Suppress is called with a thread in a handler, or by the script while no
\* handler runs; either way the answer agrees with the history.
LEMMA AnswerStep ==
  TypeOK /\ Exclusion /\ AnswerSoFar /\ [Next]_vars => AnswerSoFar'
<1> SUFFICES ASSUME TypeOK, Exclusion, AnswerSoFar, [Next]_vars PROVE AnswerSoFar'
  OBVIOUS
<1>1. CASE UNCHANGED luaVars /\ (main' = "handler" => main = "handler")
  BY <1>1 DEF AnswerSoFar, luaVars
<1>2. CASE Enter
  BY <1>2 DEF Enter, AnswerSoFar
<1>3. CASE MainCall \/ LogCall
  <2>1. PICK by \in {"input", "log"} : Call(by)
    BY <1>3 DEF MainCall, LogCall
  <2> QED
    BY <2>1, CallAdds DEF AnswerSoFar, luaVars, mainVars
<1>4. CASE LoadCall
  BY <1>4, CallAdds DEF LoadCall, Exclusion, AnswerSoFar, mainVars
<1> QED
  BY <1>1, <1>2, <1>3, <1>4
     DEF Next, vars, mainVars, Users, Type, CtrlC, Edit, Main, Loop, Receive, Track,
         Leave, Forward, ReceiveFails, Calls, LogEnter, LogLeave, LoadStart, Load,
         LoadSucceeds, LoadFails, LoadTail

\* process_input answers what the history says.
LEMMA VerdictStep ==
  TypeOK /\ AnswerSoFar /\ WithheldOnlyBySuppress /\ [Next]_vars
    => WithheldOnlyBySuppress'
<1> SUFFICES ASSUME TypeOK, AnswerSoFar, WithheldOnlyBySuppress, [Next]_vars
             PROVE  WithheldOnlyBySuppress'
  OBVIOUS
<1>1. CASE UNCHANGED verdicts
  BY <1>1 DEF WithheldOnlyBySuppress
<1>2. CASE Leave
  <2> DEFINE answer == [num |-> stroke, withheld |-> suppress, own |-> own, foreign |-> foreign]
  <2>1. answer.withheld <=> answer.own \/ answer.foreign
    BY <1>2 DEF Leave, AnswerSoFar
  <2>2. verdicts' = Append(verdicts, answer)
    BY <1>2 DEF Leave
  <2> HIDE DEF answer
  <2>3. /\ Len(verdicts') = Len(verdicts) + 1 /\ Len(verdicts) \in Nat
        /\ verdicts'[Len(verdicts) + 1] = answer
        /\ \A i \in 1..Len(verdicts) : verdicts'[i] = verdicts[i]
    BY <2>2 DEF TypeOK, MainTypes
  <2>4. ASSUME NEW i \in 1..Len(verdicts')
        PROVE  verdicts'[i].withheld <=> verdicts'[i].own \/ verdicts'[i].foreign
    <3>1. CASE i = Len(verdicts) + 1
      BY <2>1, <2>3, <3>1
    <3>2. CASE i \in 1..Len(verdicts)
      BY <2>3, <3>2 DEF WithheldOnlyBySuppress
    <3> QED
      BY <2>3, <3>1, <3>2
  <2> QED
    BY <2>4 DEF WithheldOnlyBySuppress
<1> QED
  BY <1>1, <1>2
     DEF Next, vars, mainVars, Users, Type, CtrlC, Edit, Main, Loop, Receive, Track,
         Enter, Forward, ReceiveFails, Calls, MainCall, LogCall, LoadCall, Call,
         LogEnter, LogLeave, LoadStart, Load, LoadSucceeds, LoadFails, LoadTail

-----------------------------------------------------------------------------
(* Strokes and writes                                                      *)

\* The steps that move no stroke and write nothing.
Still == /\ UNCHANGED <<captured, inbox, stroke, sent>>
         /\ InHand' => InHand /\ UNCHANGED device

LEMMA StillStep == Strokes /\ Still => Strokes'
BY DEF Strokes, Still, Queues, Waiting, Hand, Writes, Written, InjectionsComeFirst

\* A new stroke waits last at its keyboard, and nothing has been written
\* for it.
LEMMA TypedStep ==
  ASSUME TypeOK, Strokes, NEW s \in Stroke, Type(s)
  PROVE  Strokes'
<1> DEFINE new == Len(captured) + 1
<1>1. captured' = Append(captured, s) /\ UNCHANGED <<mainVars, sent>>
  BY DEF Type, outVars
<1>2. /\ Len(captured) \in Nat /\ Len(captured') = new /\ captured'[new] = s
      /\ \A n \in 1..Len(captured) : captured'[n] = captured[n]
  BY <1>1 DEF TypeOK, KeyboardTypes
<1>3. (InHand' <=> InHand) /\ UNCHANGED <<stroke, device>>
  BY <1>1 DEF InHand, mainVars
<1>4. Hand'
  BY <1>1, <1>2, <1>3 DEF Strokes, Hand, Written
<1>5. Writes' /\ ~Written(new)
  BY <1>1, <1>2 DEF Strokes, Writes, Written
<1>6. InjectionsComeFirst'
  <2>1. \A j \in 1..Len(sent) : sent[j].by = "input" => sent[j].stroke \in 1..Len(captured)
    BY <1>2 DEF Strokes, Writes
  <2> QED
    BY <1>1, <1>2, <2>1 DEF Strokes, InjectionsComeFirst
<1>7. ASSUME NEW d \in Keyboards, NEW k \in 1..Len(inbox'[d])
      PROVE  Waiting(d, k)'
  <2>1. CASE d # s.dev
    <3>1. inbox'[d] = inbox[d]
      BY <2>1 DEF Type, TypeOK, KeyboardTypes
    <3>2. Waiting(d, k)
      BY <3>1 DEF Strokes, Queues
    <3>3. /\ inbox[d][k] \in 1..Len(captured) /\ captured[inbox[d][k]].dev = d
          /\ \A j \in 1..Len(inbox[d]) : inbox[d][j] = inbox[d][k] => j = k
          /\ InHand => inbox[d][k] # stroke
      BY <3>2 DEF Waiting
    <3>4. ~Written(inbox[d][k])'
      BY <1>1, <3>1, <3>2 DEF Waiting, Written
    <3>5. inbox[d][k] \in 1..Len(captured') /\ captured'[inbox[d][k]].dev = d
      BY <1>2, <3>3
    <3> QED
      BY <1>3, <3>1, <3>3, <3>4, <3>5 DEF Waiting
  <2>2. CASE d = s.dev
    <3>1. inbox'[d] = Append(inbox[d], new) /\ inbox[d] \in Seq(Nat)
      BY <1>2, <2>2 DEF Type, TypeOK, KeyboardTypes
    <3>2. \A j \in 1..Len(inbox[d]) : Waiting(d, j)
      BY DEF Strokes, Queues
    <3>3. \A j \in 1..Len(inbox[d]) : inbox[d][j] \in 1..Len(captured)
      BY <3>2 DEF Waiting
    <3>4. /\ Len(inbox'[d]) = Len(inbox[d]) + 1 /\ Len(inbox[d]) \in Nat
          /\ inbox'[d][Len(inbox[d]) + 1] = new
          /\ \A j \in 1..Len(inbox[d]) : inbox'[d][j] = inbox[d][j]
      BY <3>1, <1>2
    <3>5. new \notin 1..Len(captured)
      BY <1>2
    <3>6. CASE k = Len(inbox[d]) + 1
      <4>1. inbox'[d][k] = new
        BY <3>4, <3>6
      <4>2. InHand => stroke # new
        BY <1>2 DEF Strokes, Hand
      <4>3. ASSUME NEW j \in 1..Len(inbox'[d]), inbox'[d][j] = new PROVE j = k
        <5>1. CASE j \in 1..Len(inbox[d])
          <6>1. inbox[d][j] = new
            BY <3>4, <4>3, <5>1
          <6> QED
            BY <3>3, <3>5, <5>1, <6>1
        <5>2. CASE j \notin 1..Len(inbox[d])
          BY <3>4, <3>6, <5>2
        <5> QED
          BY <5>1, <5>2
      <4>4. new \in 1..Len(captured') /\ captured'[new].dev = d
        BY <1>2, <2>2
      <4>5. \A j \in 1..Len(sent') : ~(sent'[j].by = "main" /\ sent'[j].stroke = new)
        BY <1>1, <1>5 DEF Written
      <4> HIDE DEF new
      <4>6. ~Written(inbox[d][k])'
        BY <4>1, <4>5 DEF Written
      <4> QED
        BY <1>3, <4>1, <4>2, <4>3, <4>4, <4>6 DEF Waiting
    <3>7. CASE k \in 1..Len(inbox[d])
      <4>1. /\ inbox'[d][k] = inbox[d][k] /\ inbox[d][k] \in 1..Len(captured)
            /\ captured[inbox[d][k]].dev = d
            /\ ~Written(inbox[d][k])
            /\ InHand => inbox[d][k] # stroke
        BY <3>2, <3>4, <3>7 DEF Waiting
      <4>2. ASSUME NEW j \in 1..Len(inbox'[d]), inbox'[d][j] = inbox[d][k] PROVE j = k
        <5>1. CASE j \in 1..Len(inbox[d])
          BY <3>2, <3>4, <3>7, <4>2, <5>1 DEF Waiting
        <5>2. CASE j \notin 1..Len(inbox[d])
          <6>1. j = Len(inbox[d]) + 1
            BY <3>4, <5>2
          <6>2. inbox[d][k] = new
            BY <3>4, <4>2, <6>1
          <6> QED
            BY <3>5, <4>1, <6>2
        <5> QED
          BY <5>1, <5>2
      <4>3. inbox[d][k] \in 1..Len(captured') /\ captured'[inbox[d][k]].dev = d
        BY <1>2, <4>1
      <4>4. ~Written(inbox[d][k])'
        BY <1>1, <4>1 DEF Written
      <4> QED
        BY <1>3, <4>1, <4>2, <4>3, <4>4 DEF Waiting
    <3> QED
      BY <3>4, <3>6, <3>7
  <2> QED
    BY <2>1, <2>2
<1> QED
  BY <1>4, <1>5, <1>6, <1>7 DEF Strokes, Queues

\* The stroke that is received leaves its inbox.
LEMMA ReceivedStep ==
  ASSUME TypeOK, Strokes, Receive
  PROVE  Strokes'
<1> DEFINE d0 == device'
<1>1. /\ d0 \in Keyboards /\ inbox[d0] \in Seq(Nat) /\ inbox[d0] # <<>>
      /\ stroke' = inbox[d0][1] /\ inbox' = [inbox EXCEPT ![d0] = Tail(@)]
  BY ReceiveTakes
<1>2. UNCHANGED <<captured, sent>>
  BY DEF Receive, outVars
<1> HIDE DEF d0
<1>3. Waiting(d0, 1)
  BY <1>1 DEF Strokes, Queues
<1>4. Hand'
  BY <1>1, <1>2, <1>3 DEF Hand, Waiting, Written, d0
<1>5. Writes' /\ InjectionsComeFirst'
  BY <1>2 DEF Strokes, Writes, InjectionsComeFirst
<1>6. ASSUME NEW d \in Keyboards, NEW k \in 1..Len(inbox'[d])
      PROVE  Waiting(d, k)'
  <2>1. CASE d # d0
    <3>1. inbox'[d] = inbox[d]
      BY <1>1, <2>1 DEF TypeOK, KeyboardTypes
    <3>2. Waiting(d, k)
      BY <3>1 DEF Strokes, Queues
    <3>3. inbox[d][k] # stroke'
      BY <1>1, <1>3, <2>1, <3>2 DEF Waiting
    <3> QED
      BY <1>2, <3>1, <3>2, <3>3 DEF Waiting, Written
  <2>2. CASE d = d0
    <3>1. /\ inbox'[d] = Tail(inbox[d]) /\ Len(inbox[d]) \in Nat \ {0}
          /\ Len(inbox'[d]) = Len(inbox[d]) - 1
          /\ \A j \in 1..Len(inbox'[d]) : inbox'[d][j] = inbox[d][j + 1]
      BY <1>1, <2>2 DEF TypeOK, KeyboardTypes
    <3>2. \A j \in 1..Len(inbox'[d]) : j + 1 \in 1..Len(inbox[d])
      BY <3>1
    <3>3. Waiting(d, k + 1)
      BY <3>2 DEF Strokes, Queues
    <3>4. inbox'[d][k] # stroke'
      BY <1>1, <1>3, <2>2, <3>1, <3>2 DEF Waiting
    <3>5. \A j \in 1..Len(inbox'[d]) : inbox'[d][j] = inbox'[d][k] => j = k
      <4> SUFFICES ASSUME NEW j \in 1..Len(inbox'[d]), inbox'[d][j] = inbox'[d][k]
                   PROVE  j = k
        OBVIOUS
      <4>1. j + 1 \in 1..Len(inbox[d]) /\ inbox[d][j + 1] = inbox[d][k + 1]
        BY <3>1, <3>2
      <4>2. j + 1 = k + 1
        BY <3>3, <4>1 DEF Waiting
      <4>3. j \in Nat /\ k \in Nat
        BY <3>1
      <4> QED
        BY <4>2, <4>3
    <3> QED
      BY <1>2, <3>1, <3>2, <3>3, <3>4, <3>5 DEF Waiting, Written
  <2> QED
    BY <2>1, <2>2
<1> QED
  BY <1>4, <1>5, <1>6 DEF Strokes, Queues

\* The stroke in hand is passed on once, after what its handler injected.
LEMMA ForwardStep ==
  ASSUME TypeOK, Strokes, Forward
  PROVE  Strokes'
<1>1. OneMore("main") /\ InHand /\ ~InHand'
  BY SendAdds DEF Forward, InHand
<1>2. UNCHANGED <<captured, inbox, stroke>>
  BY DEF Forward, keyboard
<1>3. /\ Len(sent') >= Len(sent) /\ Len(sent) \in Nat /\ Len(sent') \in Nat
      /\ \A j \in 1..Len(sent) : sent'[j] = sent[j]
      /\ \A j \in 1..Len(sent') : j > Len(sent) =>
           /\ j = Len(sent) + 1
           /\ sent'[j].by = "main" /\ sent'[j].stroke = stroke /\ sent'[j].dev = device
  BY <1>1, OneMoreType DEF TypeOK, OutTypes
<1>4. \A n : n # stroke /\ ~Written(n) => ~Written(n)'
  BY <1>3 DEF Written
<1>5. Queues'
  BY <1>1, <1>2, <1>4 DEF Strokes, Queues, Waiting
<1>6. Hand'
  BY <1>1 DEF Hand
<1>7. ASSUME NEW j \in 1..Len(sent')
      PROVE  /\ sent'[j].stroke \in 0..Len(captured)
             /\ sent'[j].by = "input" => sent'[j].stroke # 0
  <2>1. CASE j \in 1..Len(sent)
    BY <1>3, <2>1 DEF Strokes, Writes
  <2>2. CASE j > Len(sent)
    BY <1>3, <2>2 DEF TypeOK, MainTypes
  <2> QED
    BY <1>3, <2>1, <2>2
<1>8. InjectionsComeFirst'
  BY <1>2, <1>3 DEF Strokes, InjectionsComeFirst
<1>9. Writes'
  BY <1>2, <1>7 DEF Writes
<1> QED
  BY <1>5, <1>6, <1>8, <1>9 DEF Strokes

\* A call writes for the stroke in hand, which has not been passed on.
LEMMA CalledStep ==
  ASSUME TypeOK, Strokes, NEW by \in {"input", "log", "script"}, Call(by),
         by = "input" => main = "handler"
  PROVE  Strokes'
<1>1. OneMore(by) /\ UNCHANGED <<captured, inbox, stroke, device, main>>
  BY CallAdds DEF keyboard, mainVars
<1>2. /\ Len(sent') >= Len(sent) /\ Len(sent) \in Nat /\ Len(sent') \in Nat
      /\ \A j \in 1..Len(sent) : sent'[j] = sent[j]
      /\ \A j \in 1..Len(sent') : j > Len(sent) =>
           /\ j = Len(sent) + 1
           /\ sent'[j].by = by /\ sent'[j].stroke = stroke /\ sent'[j].dev = device
  BY <1>1, OneMoreType DEF TypeOK, OutTypes
<1>3. \A n : ~Written(n) => ~Written(n)'
  BY <1>2 DEF Written
<1>4. Queues'
  BY <1>1, <1>3 DEF Strokes, Queues, Waiting, InHand
<1>5. Hand'
  BY <1>1, <1>3 DEF Strokes, Hand, InHand
<1>6. by = "input" => /\ stroke \in 1..Len(captured)
                      /\ captured[stroke].dev = device
                      /\ ~Written(stroke)
  BY DEF Strokes, Hand, InHand
<1>7. ASSUME NEW j \in 1..Len(sent')
      PROVE  /\ sent'[j].stroke \in 0..Len(captured)
             /\ sent'[j].by = "input" => sent'[j].stroke # 0
  <2>1. CASE j \in 1..Len(sent)
    BY <1>2, <2>1 DEF Strokes, Writes
  <2>2. CASE j > Len(sent)
    BY <1>2, <1>6, <2>2 DEF TypeOK, MainTypes
  <2> QED
    BY <1>2, <2>1, <2>2
<1>8. ASSUME NEW i \in 1..Len(sent'), sent'[i].by = "input"
      PROVE  /\ sent'[i].dev = captured[sent'[i].stroke].dev
             /\ \A j \in 1..i : ~(sent'[j].by = "main" /\ sent'[j].stroke = sent'[i].stroke)
  <2>1. CASE i \in 1..Len(sent)
    BY <1>2, <1>8, <2>1 DEF Strokes, InjectionsComeFirst
  <2>2. CASE i = Len(sent) + 1
    <3>1. by = "input" /\ sent'[i].stroke = stroke /\ sent'[i].dev = device
      BY <1>2, <1>8, <2>2
    <3>2. \A j \in 1..Len(sent') : ~(sent'[j].by = "main" /\ sent'[j].stroke = stroke)
      BY <1>3, <1>6, <3>1 DEF Written
    <3>3. 1..i \subseteq 1..Len(sent')
      BY <1>2, <2>2
    <3> QED
      BY <1>6, <3>1, <3>2, <3>3
  <2> QED
    BY <1>2, <2>1, <2>2
<1>9. InjectionsComeFirst'
  BY <1>1, <1>8 DEF InjectionsComeFirst
<1>10. Writes'
  BY <1>1, <1>7 DEF Writes
<1> QED
  BY <1>4, <1>5, <1>9, <1>10 DEF Strokes

\* Every step keeps strokes and writes in order.
LEMMA StrokesStep == TypeOK /\ Strokes /\ [Next]_vars => Strokes'
<1> SUFFICES ASSUME TypeOK, Strokes, [Next]_vars PROVE Strokes'
  OBVIOUS
<1>1. CASE \E s \in Stroke : Type(s)
  BY <1>1, TypedStep
<1>2. CASE Receive
  BY <1>2, ReceivedStep
<1>3. CASE Forward
  BY <1>3, ForwardStep
<1>4. CASE Calls
  BY <1>4, CalledStep DEF Calls, MainCall, LogCall, LoadCall
<1>5. CASE Still
  BY <1>5, StillStep
<1> QED
  BY <1>1, <1>2, <1>3, <1>4, <1>5
     DEF Still, InHand, Next, vars, keyboard, mainVars, outVars, Users, CtrlC, Edit, Main,
         Loop, Track, Enter, Leave, ReceiveFails, LogEnter, LogLeave, LoadStart, Load,
         LoadSucceeds, LoadFails, LoadTail

-----------------------------------------------------------------------------
(* The theorems                                                            *)

\* The inductive invariant.
THEOREM Invariance == Spec => []IInv
<1>1. Init => IInv
  <2> SUFFICES ASSUME Init PROVE IInv
    OBVIOUS
  <2>1. TypeOK
    <3>1. KeyboardTypes
      BY DEF Init, KeyboardTypes
    <3>2. MainTypes
      BY DEF Init, MainTypes
    <3>3. LogTypes /\ LoadTypes /\ LuaTypes /\ OutTypes
      <4>1. script \in Nat /\ onEvent \in Nat
        BY DEF Init
      <4>2. LoadTypes
        <5>1. loader = "idle" /\ modified = 0 /\ edits = 1
          BY DEF Init
        <5> QED
          BY <4>1, <5>1 DEF LoadTypes
      <4>3. LogTypes /\ LuaTypes
        BY DEF Init, LogTypes, LuaTypes
      <4>4. OutTypes
        <5>1. sent \in Seq(Write)
          BY DEF Init
        <5>2. calls \in Nat /\ dropped \in BOOLEAN
          BY DEF Init
        <5> QED
          BY <5>1, <5>2 DEF OutTypes
      <4> QED
        BY <4>2, <4>3, <4>4
    <3> QED
      BY <3>1, <3>2, <3>3 DEF TypeOK
  <2>2. Exclusion /\ AnswerSoFar /\ WithheldOnlyBySuppress
    BY DEF Init, Exclusion, AnswerSoFar, WithheldOnlyBySuppress
  <2>3. Strokes
    BY DEF Init, Strokes, Queues, Hand, InHand, Writes, InjectionsComeFirst
  <2> QED
    BY <2>1, <2>2, <2>3 DEF IInv
<1>2. IInv /\ [Next]_vars => IInv'
  BY TypeStep, ExclusionStep, AnswerStep, VerdictStep, StrokesStep DEF IInv
<1> QED
  BY <1>1, <1>2, PTL DEF Spec

\* Every variable keeps its type; device, which input_sender reads on other
\* threads, is a keyboard or none (main.cpp:147, 189).
THEOREM TypeCorrectness == Spec => []TypeOK
<1>1. IInv => TypeOK
  BY DEF IInv
<1> QED
  BY <1>1, Invariance, PTL

\* A stroke is withheld exactly if Suppress was called while main answered it
\* (script_holder.cpp:189, 259-264).
THEOREM SuppressionIsExplained == Spec => []WithheldOnlyBySuppress
<1>1. IInv => WithheldOnlyBySuppress
  BY DEF IInv
<1> QED
  BY <1>1, Invariance, PTL

\* What a handler injects goes to the keyboard of its stroke, and before it
\* (main.cpp:187-194, input_sender.h:18-34).
THEOREM InjectionOrder == Spec => []InjectionsComeFirst
<1>1. IInv => InjectionsComeFirst
  BY DEF IInv, Strokes
<1> QED
  BY <1>1, Invariance, PTL

\* From the first stroke until the loop ends, device is a keyboard.
Known == stroke # 0 /\ main # "exited" => device \in Keyboards

LEMMA KnownStep == TypeOK /\ Known /\ [Next]_vars => Known'
<1> SUFFICES ASSUME TypeOK, Known, [Next]_vars PROVE Known'
  OBVIOUS
<1> USE DEF Known
<1>1. CASE Receive
  BY <1>1, ReceiveTakes
<1>2. CASE Main /\ ~Receive
  BY <1>2 DEF Main, Loop, Track, Enter, Leave, Forward
<1>3. CASE ReceiveFails
  BY <1>3 DEF ReceiveFails
<1>4. CASE UNCHANGED <<main, device, stroke>>
  BY <1>4
<1> QED
  BY <1>1, <1>2, <1>3, <1>4
     DEF Next, vars, mainVars, Users, Type, CtrlC, Edit, Calls, MainCall, LogCall, LoadCall,
         Call, LogEnter, LogLeave, LoadStart, Load, LoadSucceeds, LoadFails, LoadTail

\* A write is given up only if device is none.
LEMMA OnlyNoDeviceDrops ==
  ASSUME NEW by, NEW nstroke \in Nat \ {0}, Send(by, nstroke), ~dropped, dropped'
  PROVE  device \notin Keyboards
BY KeyboardsAssumption DEF Send, Accepts, IsInvalid

\* From the first stroke until the loop ends, nothing a script presses is
\* given up for want of a device (main.cpp:147, 187, interception.c:188).
THEOREM InjectionsFindADevice == Spec => DroppedOnlyOutsideTheLoop
<1> DEFINE Outside == stroke = 0 \/ main = "exited"
<1>1. Init => Known
  BY DEF Init, Known
<1>2. Known /\ [Next]_vars => [~dropped /\ dropped' => Outside]_vars
  <2> SUFFICES ASSUME Known, Next, ~dropped, dropped' PROVE Outside
    OBVIOUS
  <2>1. CASE Calls
    <3>1. PICK by \in {"input", "log", "script"} : Inject(by)
      BY <2>1 DEF Calls, MainCall, LogCall, LoadCall, Call, Suppress, outVars
    <3>2. \E nstroke \in Nat \ {0} : Send(by, nstroke)
      BY <3>1 DEF Inject, SizeofKstrokes, PressAndRelease, SizeofStroke
    <3> QED
      BY <3>2, OnlyNoDeviceDrops DEF Known
  <2>2. CASE Forward
    <3>1. Send("main", 1)
      BY <2>2 DEF Forward
    <3> QED
      BY <3>1, OnlyNoDeviceDrops DEF Known
  <2>3. CASE UNCHANGED outVars
    BY <2>3 DEF outVars
  <2> QED
    BY <2>1, <2>2, <2>3
       DEF Next, Users, Type, CtrlC, Edit, Main, Loop, Receive, Track, Enter, Leave,
           ReceiveFails, LogEnter, LogLeave, LoadStart, Load, LoadSucceeds, LoadFails, LoadTail
<1>3. Spec => []TypeOK
  BY TypeCorrectness
<1> QED
  BY <1>1, <1>2, <1>3, KnownStep, PTL DEF Spec, DroppedOnlyOutsideTheLoop

-----------------------------------------------------------------------------
(* The keys that are held                                                  *)

\* HeldKeysTracked's set, for the strokes of t in cap.
Held(t, cap) ==
  {c \in Codes : \E i \in 1..Len(t) :
                   /\ cap[t[i]].code = c /\ cap[t[i]].state = KEY_DOWN
                   /\ \A j \in i..Len(t) : ~(cap[t[j]].code = c /\ cap[t[j]].state = KEY_UP)}

\* The verdicts are about strokes that were captured.
Answered == \A i \in 1..Len(verdicts) : verdicts[i].num \in 1..Len(captured)

\* The same strokes hold the same keys.
LEMMA HeldSame ==
  ASSUME NEW t, NEW u, NEW cap, NEW dap, Len(t) \in Nat, Len(u) = Len(t),
         \A i \in 1..Len(t) : dap[u[i]] = cap[t[i]]
  PROVE  Held(u, dap) = Held(t, cap)
<1> DEFINE From(v, cp, c, i) == /\ cp[v[i]].code = c /\ cp[v[i]].state = KEY_DOWN
                               /\ \A j \in i..Len(v) : ~(cp[v[j]].code = c /\ cp[v[j]].state = KEY_UP)
<1>1. ASSUME NEW c, NEW i \in 1..Len(t) PROVE From(u, dap, c, i) <=> From(t, cap, c, i)
  <2>1. \A j \in i..Len(t) : dap[u[j]] = cap[t[j]]
    OBVIOUS
  <2> QED
    BY <2>1
<1>2. Held(t, cap) = {c \in Codes : \E i \in 1..Len(t) : From(t, cap, c, i)}
  BY DEF Held
<1>3. Held(u, dap) = {c \in Codes : \E i \in 1..Len(t) : From(u, dap, c, i)}
  BY DEF Held
<1> HIDE DEF From
<1> QED
  BY <1>1, <1>2, <1>3

\* One more stroke adds its key, takes it away, or is of an extended key.
LEMMA HeldGrows ==
  ASSUME NEW t, NEW u, NEW cap, Len(t) \in Nat, Len(u) = Len(t) + 1,
         \A i \in 1..Len(t) : u[i] = t[i],
         NEW s, s = cap[u[Len(u)]], s.code \in Codes
  PROVE  Held(u, cap) = CASE s.state = KEY_DOWN -> Held(t, cap) \cup {s.code}
                          [] s.state = KEY_UP   -> Held(t, cap) \ {s.code}
                          [] OTHER              -> Held(t, cap)
<1> DEFINE n == Len(t)
           Ends(c) == s.code = c /\ s.state = KEY_UP
           Begins(c) == s.code = c /\ s.state = KEY_DOWN
<1>0. n \in Nat /\ Len(u) = n + 1 /\ u[n + 1] = u[Len(u)] /\ cap[u[n + 1]] = s
  OBVIOUS
<1>1. ASSUME NEW c \in Held(t, cap), ~Ends(c) PROVE c \in Held(u, cap)
  <2>1. PICK i \in 1..n : /\ cap[t[i]].code = c /\ cap[t[i]].state = KEY_DOWN
                          /\ \A j \in i..n : ~(cap[t[j]].code = c /\ cap[t[j]].state = KEY_UP)
    BY <1>1 DEF Held
  <2>2. \A j \in i..Len(u) : ~(cap[u[j]].code = c /\ cap[u[j]].state = KEY_UP)
    <3> SUFFICES ASSUME NEW j \in i..Len(u) PROVE ~(cap[u[j]].code = c /\ cap[u[j]].state = KEY_UP)
      OBVIOUS
    <3>1. CASE j \in i..n
      BY <3>1, <2>1
    <3>2. CASE j = n + 1
      BY <3>2, <1>0, <1>1
    <3> QED
      BY <3>1, <3>2, <1>0
  <2>3. i \in 1..Len(u) /\ u[i] = t[i] /\ c \in Codes
    BY <1>0, <1>1 DEF Held
  <2> QED
    BY <2>1, <2>2, <2>3 DEF Held
<1>2. ASSUME NEW c \in Codes, Begins(c) PROVE c \in Held(u, cap)
  <2>1. n + 1 \in 1..Len(u) /\ cap[u[n + 1]].code = c /\ cap[u[n + 1]].state = KEY_DOWN
    BY <1>0, <1>2
  <2>2. \A j \in (n + 1)..Len(u) : ~(cap[u[j]].code = c /\ cap[u[j]].state = KEY_UP)
    BY <1>0, <2>1 DEF KEY_DOWN, KEY_UP
  <2> QED
    BY <2>1, <2>2 DEF Held
<1>3. ASSUME NEW c \in Held(u, cap) PROVE ~Ends(c) /\ (c \in Held(t, cap) \/ Begins(c))
  <2>1. PICK i \in 1..Len(u) : /\ cap[u[i]].code = c /\ cap[u[i]].state = KEY_DOWN
                               /\ \A j \in i..Len(u) : ~(cap[u[j]].code = c /\ cap[u[j]].state = KEY_UP)
    BY <1>3 DEF Held
  <2>2. n + 1 \in i..Len(u)
    BY <1>0
  <2>3. ~Ends(c)
    BY <1>0, <2>1, <2>2
  <2>4. CASE i = n + 1
    BY <1>0, <2>1, <2>3, <2>4
  <2>5. CASE i \in 1..n
    <3>1. cap[t[i]].code = c /\ cap[t[i]].state = KEY_DOWN
      BY <2>1, <2>5
    <3>2. \A j \in i..n : ~(cap[t[j]].code = c /\ cap[t[j]].state = KEY_UP)
      <4> SUFFICES ASSUME NEW j \in i..n PROVE ~(cap[t[j]].code = c /\ cap[t[j]].state = KEY_UP)
        OBVIOUS
      <4>1. j \in i..Len(u) /\ j \in 1..n
        BY <1>0, <2>5
      <4> QED
        BY <2>1, <4>1
    <3>3. c \in Codes
      BY <1>3 DEF Held
    <3> QED
      BY <2>3, <2>5, <3>1, <3>2, <3>3 DEF Held
  <2> QED
    BY <1>0, <2>4, <2>5
<1>4. Held(t, cap) \subseteq Codes /\ Held(u, cap) \subseteq Codes
  BY DEF Held
<1>5. \A c \in Codes : c \in Held(u, cap) <=> ~Ends(c) /\ (c \in Held(t, cap) \/ Begins(c))
  <2>1. \A c \in Codes : ~(Ends(c) /\ Begins(c))
    BY DEF KEY_DOWN, KEY_UP
  <2> QED
    BY <1>1, <1>2, <1>3, <2>1
<1>6. CASE s.state = KEY_DOWN
  <2>1. Held(u, cap) = Held(t, cap) \cup {s.code}
    <3>1. \A c \in Codes : c \in Held(u, cap) <=> c \in Held(t, cap) \/ c = s.code
      BY <1>5, <1>6 DEF KEY_DOWN, KEY_UP
    <3> QED
      BY <1>4, <3>1
  <2> QED
    BY <1>6, <2>1 DEF KEY_DOWN, KEY_UP
<1>7. CASE s.state = KEY_UP
  <2>1. Held(u, cap) = Held(t, cap) \ {s.code}
    <3>1. \A c \in Codes : c \in Held(u, cap) <=> c \in Held(t, cap) /\ c # s.code
      BY <1>5, <1>7 DEF KEY_DOWN, KEY_UP
    <3> QED
      BY <1>4, <3>1
  <2> QED
    BY <1>7, <2>1 DEF KEY_DOWN, KEY_UP
<1>8. CASE s.state # KEY_DOWN /\ s.state # KEY_UP
  <2>1. Held(u, cap) = Held(t, cap)
    <3>1. \A c \in Codes : c \in Held(u, cap) <=> c \in Held(t, cap)
      BY <1>5, <1>8
    <3> QED
      BY <1>4, <3>1
  <2> QED
    BY <1>8, <2>1
<1> QED
  BY <1>6, <1>7, <1>8

\* The strokes that main has come to track, one by one.
LEMMA TrackedOnes ==
  ASSUME NEW v \in Seq(Verdict), NEW s \in Nat, NEW b \in BOOLEAN
  PROVE  LET t == [i \in 1..Len(v) |-> v[i].num] \o (IF b THEN <<s>> ELSE <<>>)
         IN  /\ Len(v) \in Nat
             /\ Len(t) = IF b THEN Len(v) + 1 ELSE Len(v)
             /\ \A i \in 1..Len(v) : t[i] = v[i].num
             /\ b => t[Len(v) + 1] = s
<1> DEFINE r == [i \in 1..Len(v) |-> v[i].num]
           e == IF b THEN <<s>> ELSE <<>>
<1>1. Len(v) \in Nat /\ \A i \in 1..Len(v) : v[i] \in Verdict
  OBVIOUS
<1>2. r \in Seq(Nat) /\ Len(r) = Len(v)
  <2>1. r \in [1..Len(v) -> Nat]
    BY <1>1 DEF Verdict
  <2> QED
    BY <1>1, <2>1
<1>3. e \in Seq(Nat) /\ Len(e) = (IF b THEN 1 ELSE 0) /\ (b => e[1] = s)
  OBVIOUS
<1>4. \A i \in 1..Len(v) : r[i] = v[i].num
  OBVIOUS
<1> HIDE DEF r, e
<1>5. /\ Len(r \o e) = Len(r) + Len(e)
      /\ \A i \in 1..(Len(r) + Len(e)) : (r \o e)[i] = IF i <= Len(r) THEN r[i] ELSE e[i - Len(r)]
  <2>1. r \in Seq(Nat) /\ e \in Seq(Nat)
    BY <1>2, <1>3
  <2> QED
    BY <2>1, ConcatProperties, Zenon
<1>6. Len(r \o e) = IF b THEN Len(v) + 1 ELSE Len(v)
  BY <1>1, <1>2, <1>3, <1>5
<1>7. ASSUME NEW i \in 1..Len(v) PROVE (r \o e)[i] = v[i].num
  <2>1. Len(e) \in Nat
    BY <1>3
  <2>2. i \in 1..(Len(r) + Len(e)) /\ i <= Len(r)
    BY <1>1, <1>2, <2>1
  <2>3. (r \o e)[i] = r[i]
    BY <1>5, <2>2
  <2> QED
    BY <1>4, <2>3
<1>8. b => (r \o e)[Len(v) + 1] = s
  BY <1>1, <1>2, <1>3, <1>5
<1> QED
  BY <1>1, <1>6, <1>7, <1>8 DEF r, e

\* main has tracked the stroke that it has not yet answered.
InTrack == main \in {"tracked", "handler"}

\* The same, before a step and after it.
LEMMA TrackedNow ==
  ASSUME TypeOK, TypeOK'
  PROVE  /\ Len(verdicts) \in Nat /\ Len(verdicts') \in Nat
         /\ Len(Tracked) = IF InTrack THEN Len(verdicts) + 1 ELSE Len(verdicts)
         /\ \A i \in 1..Len(verdicts) : Tracked[i] = verdicts[i].num
         /\ InTrack => Tracked[Len(verdicts) + 1] = stroke
         /\ Len(Tracked') = IF InTrack' THEN Len(verdicts') + 1 ELSE Len(verdicts')
         /\ \A i \in 1..Len(verdicts') : Tracked'[i] = verdicts'[i].num
         /\ InTrack' => Tracked'[Len(verdicts') + 1] = stroke'
<1>1. /\ verdicts \in Seq(Verdict) /\ stroke \in Nat
      /\ verdicts' \in Seq(Verdict) /\ stroke' \in Nat
      /\ InTrack \in BOOLEAN /\ InTrack' \in BOOLEAN
  BY DEF TypeOK, MainTypes, KeyboardTypes, InTrack
<1>2. /\ Tracked = [i \in 1..Len(verdicts) |-> verdicts[i].num] \o (IF InTrack THEN <<stroke>> ELSE <<>>)
      /\ Tracked' = [i \in 1..Len(verdicts') |-> verdicts'[i].num] \o (IF InTrack' THEN <<stroke'>> ELSE <<>>)
  BY DEF Tracked, InTrack
<1>3. /\ Len(verdicts) \in Nat
      /\ Len(Tracked) = IF InTrack THEN Len(verdicts) + 1 ELSE Len(verdicts)
      /\ \A i \in 1..Len(verdicts) : Tracked[i] = verdicts[i].num
      /\ InTrack => Tracked[Len(verdicts) + 1] = stroke
  BY <1>1, <1>2, TrackedOnes
<1>4. /\ Len(verdicts') \in Nat
      /\ Len(Tracked') = IF InTrack' THEN Len(verdicts') + 1 ELSE Len(verdicts')
      /\ \A i \in 1..Len(verdicts') : Tracked'[i] = verdicts'[i].num
      /\ InTrack' => Tracked'[Len(verdicts') + 1] = stroke'
  BY <1>1, <1>2, TrackedOnes
<1> QED
  BY <1>3, <1>4

\* What the steps keep.
KeysInv == Answered /\ HeldKeysTracked

\* Tracking a stroke is what changes the keys; the others keep both.
LEMMA KeysStep == TypeOK /\ TypeOK' /\ Strokes /\ KeysInv /\ [Next]_vars => KeysInv'
<1> SUFFICES ASSUME TypeOK, TypeOK', Strokes, KeysInv, [Next]_vars PROVE KeysInv'
  OBVIOUS
<1>0. /\ keys = Held(Tracked, captured) /\ (keys' = Held(Tracked', captured') => HeldKeysTracked')
      /\ captured \in Seq(Stroke) /\ Len(captured) \in Nat /\ Len(verdicts) \in Nat
  BY TrackedNow, SMTT(30) DEF KeysInv, HeldKeysTracked, Held, TypeOK, KeyboardTypes
<1>1. InTrack => stroke \in 1..Len(captured)
  BY DEF Strokes, Hand, InHand, InTrack
<1>2. Len(Tracked) \in Nat /\ \A i \in 1..Len(Tracked) : Tracked[i] \in 1..Len(captured)
  BY <1>0, <1>1, TrackedNow DEF KeysInv, Answered
<1>3. ASSUME NEW s \in Stroke, Type(s) PROVE KeysInv'
  <2>1. /\ captured' = Append(captured, s)
        /\ UNCHANGED <<verdicts, keys, main, stroke>>
    BY <1>3 DEF Type, mainVars
  <2>2. Len(captured') = Len(captured) + 1 /\ \A i \in 1..Len(captured) : captured'[i] = captured[i]
    BY <2>1, <1>0, AppendProperties
  <2>3. Tracked' = Tracked
    BY <2>1 DEF Tracked
  <2>4. Held(Tracked', captured') = Held(Tracked, captured)
    BY <1>2, <2>2, <2>3, HeldSame
  <2>5. Answered'
    BY <1>0, <2>1, <2>2 DEF KeysInv, Answered
  <2> QED
    BY <1>0, <2>1, <2>4, <2>5 DEF KeysInv
<1>4. CASE Track
  <2>1. /\ main = "received" /\ main' = "tracked" /\ UNCHANGED <<captured, verdicts, stroke>>
    BY <1>4 DEF Track, keyboard
  <2>2. stroke \in 1..Len(captured) /\ captured[stroke].code \in Codes
    <3>1. stroke \in 1..Len(captured)
      BY <2>1 DEF Strokes, Hand, InHand
    <3>2. captured[stroke] \in Stroke
      BY <1>0, <3>1
    <3> QED
      BY <3>1, <3>2 DEF Stroke
  <2>3. Len(Tracked') = Len(Tracked) + 1 /\ Tracked'[Len(Tracked')] = stroke
        /\ \A i \in 1..Len(Tracked) : Tracked'[i] = Tracked[i]
    BY <2>1, TrackedNow DEF InTrack
  <2> DEFINE s == captured[stroke]
  <2>4. Held(Tracked', captured) = CASE s.state = KEY_DOWN -> Held(Tracked, captured) \cup {s.code}
                                     [] s.state = KEY_UP   -> Held(Tracked, captured) \ {s.code}
                                     [] OTHER              -> Held(Tracked, captured)
    BY <1>2, <2>2, <2>3, HeldGrows
  <2>5. keys' = Held(Tracked', captured)
    BY <1>0, <1>4, <2>4 DEF Track
  <2>6. Answered'
    BY <2>1 DEF KeysInv, Answered
  <2> QED
    BY <1>0, <2>1, <2>5, <2>6 DEF KeysInv
<1>5. CASE Leave
  <2>1. /\ main = "handler" /\ main' \in {"loop", "forward"} /\ UNCHANGED <<captured, keys>>
        /\ verdicts' = Append(verdicts, [num |-> stroke, withheld |-> suppress,
                                         own |-> own, foreign |-> foreign])
    BY <1>5 DEF Leave, keyboard
  <2>2. /\ Len(verdicts') = Len(verdicts) + 1 /\ verdicts'[Len(verdicts) + 1].num = stroke
        /\ \A i \in 1..Len(verdicts) : verdicts'[i] = verdicts[i]
    BY <2>1 DEF TypeOK, MainTypes
  <2>3. Len(Tracked') = Len(Tracked) /\ \A i \in 1..Len(Tracked) : Tracked'[i] = Tracked[i]
    BY <2>1, <2>2, TrackedNow DEF InTrack
  <2>4. Held(Tracked', captured') = Held(Tracked, captured)
    BY <1>2, <2>1, <2>3, HeldSame
  <2>5. Answered'
    BY <1>0, <1>1, <2>1, <2>2 DEF KeysInv, Answered, InTrack
  <2> QED
    BY <1>0, <2>1, <2>4, <2>5 DEF KeysInv
<1>6. CASE /\ UNCHANGED <<captured, verdicts, keys>>
           /\ \/ ~InTrack /\ ~InTrack'
              \/ InTrack /\ InTrack' /\ UNCHANGED stroke
  <2>1. Tracked' = Tracked
    BY <1>6 DEF Tracked, InTrack
  <2>2. Answered'
    BY <1>6 DEF KeysInv, Answered
  <2> QED
    BY <1>0, <1>6, <2>1, <2>2 DEF KeysInv
<1> QED
  BY <1>3, <1>4, <1>5, <1>6
     DEF InTrack, Next, vars, keyboard, mainVars, Users, CtrlC, Edit, Main, Loop, Receive, Enter,
         Forward, ReceiveFails, Calls, MainCall, LogCall, LoadCall, Call, LogEnter, LogLeave,
         LoadStart, Load, LoadSucceeds, LoadFails, LoadTail

\* m_kstrokes holds the keys whose last plain stroke was a press, and so what
\* IsModifierPressed answers is right for them (script_holder.cpp:225-228).
THEOREM KeysAreTracked == Spec => []HeldKeysTracked
<1>1. Init => KeysInv
  <2> SUFFICES ASSUME Init PROVE KeysInv
    OBVIOUS
  <2>1. Tracked = <<>> /\ Len(Tracked) = 0
    BY DEF Init, Tracked
  <2> QED
    BY <2>1 DEF Init, KeysInv, Answered, HeldKeysTracked
<1>2. IInv /\ IInv' /\ KeysInv /\ [Next]_vars => KeysInv'
  BY KeysStep DEF IInv
<1>3. KeysInv => HeldKeysTracked
  BY DEF KeysInv
<1> QED
  BY <1>1, <1>2, <1>3, Invariance, PTL DEF Spec

-----------------------------------------------------------------------------
(* KeyFilter                                                               *)

\* The driver's writes, and the strokes that are not yet answered.
Seen == [i \in 1..Len(sent) |-> Output(sent[i])]
Unanswered == [d \in Keyboards |-> Pending(d)]

\* A write is seen last, as a stroke exactly if main has made it.
LEMMA SeenGrows ==
  ASSUME TypeOK, NEW by, OneMore(by)
  PROVE  \/ Seen' = Seen
         \/ /\ device \in Keyboards
            /\ Seen' = Append(Seen, [to |-> device, stroke |-> IF by = "main" THEN stroke ELSE 0])
<1>1. CASE UNCHANGED sent
  BY <1>1 DEF Seen
<1>2. CASE ~UNCHANGED sent
  <2>1. PICK w \in Write : /\ w.by = by /\ w.stroke = stroke /\ w.dev = device
                           /\ sent' = Append(sent, w)
    BY <1>2 DEF OneMore
  <2> DEFINE Out == Keyboards \X Nat
             o == Output(w)
  <2>2. device \in Keyboards
    BY <2>1 DEF Write
  <2>3. /\ Len(sent) \in Nat /\ Len(sent') = Len(sent) + 1
        /\ \A i \in 1..Len(sent) : sent'[i] = sent[i]
        /\ sent'[Len(sent) + 1] = w
    BY <2>1 DEF TypeOK, OutTypes
  <2>4. Len(Seen) = Len(sent) /\ Len(Seen') = Len(sent')
    BY <2>3 DEF Seen
  <2>5. Seen' = [i \in 1..Len(sent) + 1 |-> IF i = Len(sent) + 1 THEN o ELSE Output(sent[i])]
    BY <2>3 DEF Seen
  <2>6. Append(Seen, o) = [i \in 1..Len(sent) + 1 |-> IF i = Len(sent) + 1 THEN o ELSE Output(sent[i])]
    BY <2>3, <2>4 DEF Seen
  <2>7. o = [to |-> device, stroke |-> IF by = "main" THEN stroke ELSE 0]
    BY <2>1 DEF Output
  <2> QED
    BY <2>2, <2>5, <2>6, <2>7
<1> QED
  BY <1>1, <1>2

\* The strokes of a keyboard are those in hand, if it has come from there,
\* and those that wait.
Keyboardwise ==
  \A d \in Keyboards :
    /\ inbox[d] \in Seq(Nat) /\ Pending(d) \in Seq(Nat)
    /\ InHand /\ device = d => Pending(d) = <<stroke>> \o inbox[d]
    /\ ~InHand \/ device # d => Pending(d) = inbox[d]
    /\ InHand => device \in Keyboards /\ stroke \in Nat

LEMMA PendingIs == TypeOK /\ Strokes => Keyboardwise
<1> SUFFICES ASSUME TypeOK, Strokes, NEW d \in Keyboards
             PROVE  /\ inbox[d] \in Seq(Nat) /\ Pending(d) \in Seq(Nat)
                    /\ InHand /\ device = d => Pending(d) = <<stroke>> \o inbox[d]
                    /\ ~InHand \/ device # d => Pending(d) = inbox[d]
                    /\ InHand => device \in Keyboards /\ stroke \in Nat
  BY DEF Keyboardwise
<1>1. inbox[d] \in Seq(Nat) /\ Len(captured) \in Nat /\ captured \in Seq(Stroke)
  BY DEF TypeOK, KeyboardTypes
<1>2. InHand => stroke \in 1..Len(captured) /\ captured[stroke].dev = device
  BY DEF Strokes, Hand
<1>3. InHand => captured[stroke] \in Stroke
  BY <1>1, <1>2
<1>4. InHand => device \in Keyboards /\ stroke \in Nat
  BY <1>1, <1>2, <1>3 DEF Stroke
<1>5. CASE InHand /\ device = d
  <2>1. Pending(d) = <<stroke>> \o inbox[d]
    BY <1>2, <1>5 DEF Pending, InHand
  <2> QED
    BY <1>1, <1>4, <1>5, <2>1
<1>6. CASE ~(InHand /\ device = d)
  <2>1. Pending(d) = <<>> \o inbox[d]
    BY <1>2, <1>6 DEF Pending, InHand
  <2>2. Pending(d) = inbox[d]
    BY <1>1, <2>1
  <2> QED
    BY <1>1, <1>4, <1>6, <2>2
<1> QED
  BY <1>5, <1>6

LEMMA PendingIsNext == TypeOK' /\ Strokes' => Keyboardwise'
BY PendingIs, PTL

\* When the stroke in hand is answered, it is the first that leaves.
LEMMA Answers ==
  ASSUME TypeOK, TypeOK', Strokes, Strokes', InHand, ~InHand', UNCHANGED inbox
  PROVE  /\ device \in Keyboards /\ Unanswered[device] # <<>>
         /\ Head(Unanswered[device]) = stroke
         /\ Unanswered' = [Unanswered EXCEPT ![device] = Tail(@)]
<1>1. device \in Keyboards /\ stroke \in Nat
  <2>1. \A d \in Keyboards : InHand => device \in Keyboards /\ stroke \in Nat
    BY PendingIs, PendingIsNext DEF Keyboardwise
  <2>2. stroke \in 1..Len(captured) /\ captured[stroke].dev = device
    BY DEF Strokes, Hand
  <2>3. captured[stroke] \in Stroke
    BY <2>2 DEF TypeOK, KeyboardTypes
  <2> QED
    BY <2>1, <2>3, <2>2 DEF Stroke
<1>2. \A d \in Keyboards : /\ inbox[d] \in Seq(Nat)
                           /\ Pending(d) = IF device = d THEN <<stroke>> \o inbox[d] ELSE inbox[d]
                           /\ Pending(d)' = inbox[d]
  BY PendingIs, PendingIsNext DEF Keyboardwise
<1>3. Head(<<stroke>> \o inbox[device]) = stroke /\ Tail(<<stroke>> \o inbox[device]) = inbox[device]
      /\ <<stroke>> \o inbox[device] # <<>>
  BY <1>1, <1>2
<1>4. Unanswered' = [d \in Keyboards |-> inbox[d]]
  BY <1>2 DEF Unanswered
<1> QED
  BY <1>1, <1>2, <1>3, <1>4 DEF Unanswered

\* The steps that answer no stroke and make none leave each keyboard its own.
LEMMA Unmoved ==
  ASSUME TypeOK, TypeOK', Strokes, Strokes', UNCHANGED inbox,
         \/ ~InHand /\ ~InHand'
         \/ InHand /\ InHand' /\ UNCHANGED <<device, stroke>>
  PROVE  Unanswered' = Unanswered
<1>1. ASSUME NEW d \in Keyboards PROVE Pending(d)' = Pending(d)
  BY PendingIs, PendingIsNext DEF Keyboardwise
<1> QED
  BY <1>1 DEF Unanswered

\* Every step is one of KeyFilter's, or changes neither the strokes that wait
\* for an answer nor what has been written.
LEMMA FilterStep ==
  ASSUME TypeOK, TypeOK', Strokes, Strokes', [Next]_vars
  PROVE  [Filter!Next]_(Filter!vars)
<1>0. Filter!vars = <<Unanswered, Seen>> /\ Filter!vars' = <<Unanswered', Seen'>>
  BY DEF Filter!vars, Unanswered, Seen
<1>1. ASSUME NEW s \in Stroke, Type(s) PROVE Filter!Next
  <2> DEFINE new == Len(captured) + 1
  <2>1. /\ captured \in Seq(Stroke) /\ Len(captured) \in Nat /\ Len(captured) < MaxStrokes
        /\ captured' = Append(captured, s) /\ s.dev \in Keyboards
        /\ inbox' = [inbox EXCEPT ![s.dev] = Append(@, new)]
        /\ UNCHANGED <<device, stroke, main, sent>>
    BY <1>1 DEF Type, Stroke, TypeOK, KeyboardTypes, mainVars, outVars
  <2>2. new \in 1..MaxStrokes /\ new \in Nat
    BY <2>1, KeyboardsAssumption
  <2>3. (InHand' <=> InHand) /\ Seen' = Seen
    BY <2>1 DEF InHand, Seen
  <2> HIDE DEF new
  <2>4. ASSUME NEW d \in Keyboards
        PROVE  Pending(d)' = IF d = s.dev THEN Append(Pending(d), new) ELSE Pending(d)
    <3>1. inbox'[d] = IF d = s.dev THEN Append(inbox[d], new) ELSE inbox[d]
      BY <2>1 DEF TypeOK, KeyboardTypes
    <3>2. inbox[d] \in Seq(Nat)
      BY PendingIs, PendingIsNext DEF Keyboardwise
    <3>3. CASE InHand /\ device = d
      <4>1. Pending(d) = <<stroke>> \o inbox[d] /\ Pending(d)' = <<stroke>> \o inbox'[d] /\ stroke \in Nat
        BY <2>1, <2>3, <3>3, PendingIs, PendingIsNext DEF Keyboardwise
      <4>2. <<stroke>> \o Append(inbox[d], new) = Append(<<stroke>> \o inbox[d], new)
        BY <2>2, <3>2, <4>1, SMTT(30)
      <4> QED
        BY <3>1, <4>1, <4>2
    <3>4. CASE ~(InHand /\ device = d)
      <4>1. Pending(d) = inbox[d] /\ Pending(d)' = inbox'[d]
        BY <2>1, <2>3, <3>4, PendingIs, PendingIsNext DEF Keyboardwise
      <4> QED
        BY <3>1, <4>1
    <3> QED
      BY <3>3, <3>4
  <2>5. Unanswered' = [Unanswered EXCEPT ![s.dev] = Append(@, new)]
    BY <2>1, <2>4 DEF Unanswered
  <2>6. Filter!Type(s.dev)
    BY <2>2, <2>3, <2>5 DEF Filter!Type, Unanswered, Seen
  <2> QED
    BY <2>1, <2>6 DEF Filter!Next
<1>2. CASE Receive
  <2>1. /\ device' \in Keyboards /\ inbox[device'] \in Seq(Nat) /\ inbox[device'] # <<>>
        /\ stroke' = inbox[device'][1] /\ inbox' = [inbox EXCEPT ![device'] = Tail(@)]
        /\ ~InHand /\ InHand' /\ UNCHANGED sent
    BY <1>2, ReceiveTakes DEF Receive, InHand, outVars
  <2>2. ASSUME NEW d \in Keyboards PROVE Pending(d)' = Pending(d)
    <3>1. Pending(d) = inbox[d] /\ inbox[d] \in Seq(Nat)
      BY <2>1, PendingIs, PendingIsNext DEF Keyboardwise
    <3>2. CASE d = device'
      <4>1. Pending(d)' = <<stroke'>> \o inbox'[d]
        BY <2>1, <3>2, PendingIs, PendingIsNext DEF Keyboardwise
      <4>2. inbox'[d] = Tail(inbox[d])
        BY <2>1, <3>2 DEF TypeOK, KeyboardTypes
      <4>3. <<inbox[d][1]>> \o Tail(inbox[d]) = inbox[d]
        BY <2>1, <3>1, <3>2
      <4> QED
        BY <2>1, <3>1, <3>2, <4>1, <4>2, <4>3
    <3>3. CASE d # device'
      <4>1. Pending(d)' = inbox'[d]
        BY <3>3, PendingIs, PendingIsNext DEF Keyboardwise
      <4>2. inbox'[d] = inbox[d]
        BY <2>1, <3>3 DEF TypeOK, KeyboardTypes
      <4> QED
        BY <3>1, <4>1, <4>2
    <3> QED
      BY <3>2, <3>3
  <2> QED
    BY <1>0, <2>1, <2>2 DEF Unanswered, Seen
<1>3. CASE Leave /\ suppress
  <2>1. InHand /\ ~InHand' /\ UNCHANGED <<inbox, sent>>
    BY <1>3 DEF Leave, InHand, keyboard, outVars
  <2>2. Filter!Drop(device)
    BY <2>1, Answers DEF Filter!Drop, Unanswered, Seen
  <2> QED
    BY <2>1, <2>2, Answers DEF Filter!Next
<1>4. CASE Forward
  <2>1. InHand /\ ~InHand' /\ UNCHANGED <<inbox, device, stroke>>
    BY <1>4 DEF Forward, InHand, keyboard
  <2>2. OneMore("main")
    BY <1>4, SendAdds DEF Forward
  <2>3. Filter!Drop(device) \/ Filter!Pass(device)
    BY <2>1, <2>2, Answers, SeenGrows DEF Filter!Drop, Filter!Pass, Unanswered, Seen
  <2> QED
    BY <2>1, <2>3, Answers DEF Filter!Next
<1>5. CASE Calls
  <2>1. PICK by \in {"input", "log", "script"} : Call(by)
    BY <1>5 DEF Calls, MainCall, LogCall, LoadCall
  <2>2. OneMore(by) /\ UNCHANGED <<inbox, main, device, stroke>>
    BY <2>1, CallAdds DEF keyboard, mainVars
  <2>3. Unanswered' = Unanswered
    BY <2>2, Unmoved DEF InHand
  <2>4. Seen' = Seen \/ Filter!Inject(device)
    BY <2>2, <2>3, SeenGrows DEF Filter!Inject, Unanswered, Seen
  <2>5. Seen' # Seen => device \in Keyboards
    BY <2>2, SeenGrows
  <2> QED
    BY <1>0, <2>3, <2>4, <2>5 DEF Filter!Next
<1>6. CASE /\ UNCHANGED <<inbox, sent>>
           /\ \/ ~InHand /\ ~InHand'
              \/ InHand /\ InHand' /\ UNCHANGED <<device, stroke>>
  <2>1. Unanswered' = Unanswered
    BY <1>6, Unmoved
  <2> QED
    BY <1>0, <1>6, <2>1 DEF Seen
<1> QED
  BY <1>1, <1>2, <1>3, <1>4, <1>5, <1>6
     DEF InHand, Next, vars, keyboard, mainVars, outVars, Users, CtrlC, Edit, Main, Loop,
         Track, Enter, Leave, ReceiveFails, LogEnter, LogLeave, LoadStart, Load,
         LoadSucceeds, LoadFails, LoadTail

\* main's loop and process_input keep the promise to the user of the keyboards,
\* whatever Lua's three threads do: every stroke is answered at most once, in
\* its keyboard's order, and passed on to that keyboard or withheld
\* (main.cpp:187-201).
THEOREM FilterImplemented == Spec => FilterSpec
<1>1. Init => Filter!Init
  <2> SUFFICES ASSUME Init PROVE Filter!Init
    OBVIOUS
  <2>1. ASSUME NEW d \in Keyboards PROVE Pending(d) = <<>>
    BY DEF Init, Pending
  <2> QED
    BY <2>1 DEF Init, Filter!Init, Filter!Empty
<1>2. IInv /\ IInv' /\ [Next]_vars => [Filter!Next]_(Filter!vars)
  BY FilterStep DEF IInv
<1> QED
  BY <1>1, <1>2, Invariance, PTL DEF Spec, FilterSpec, Filter!Spec
=============================================================================

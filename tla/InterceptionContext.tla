------------------------- MODULE InterceptionContext ------------------------
(***************************************************************************)
(* The life of an interception context: interception_create_context with   *)
(* the failures of every step, interception_destroy_context, and between   *)
(* them the calls of main, which uses the context without looking whether  *)
(* it got one.  Kernel objects are <<kind, device>>; a device that goes    *)
(* unread is what the filter and the driver make of it.                    *)
(***************************************************************************)
EXTENDS Interception

CONSTANT MaxStrokes  \* bound: strokes made on all devices

ASSUME StrokesAssumption == MaxStrokes \in Nat

VARIABLES
  pc,        \* control of main, and of the library in main's thread
  i,         \* device of the loop in create or destroy
  context,   \* what interception_create_context has returned
  heap,      \* the device array's memory
  handle, unempty,  \* the fields of the array's elements
  open,      \* the kernel objects that are open
  misclosed, \* history: what CloseHandle was called with that was not open
  filtered,  \* the driver's filters: devices whose strokes are captured
  inbox,     \* strokes captured and not read yet
  made,      \* strokes made so far
  device     \* main's local

fields  == <<handle, unempty>>
driver  == <<filtered, inbox, made>>
vars == <<pc, i, context, heap, fields, open, misclosed, driver, device>>

Null    == <<"NULL">>
Invalid == <<"INVALID_HANDLE_VALUE">>
Dev(d)  == <<"device", d>>
Evt(d)  == <<"event", d>>
Objects == {Dev(d) : d \in Devices} \cup {Evt(d) : d \in Devices}

TypeOK ==
  /\ pc \in {"alloc", "device", "unwind", "filter", "wait", "receive", "send",
             "destroy", "end"}
  /\ i \in 1..(MaxKeyboard + MaxMouse + 1)
  /\ context \in {"unset", "NULL", "array"} /\ heap \in {"none", "zeroed", "freed"}
  /\ handle  \in [Devices -> {Null, Invalid} \cup Objects]
  /\ unempty \in [Devices -> {Null} \cup Objects]
  /\ open \subseteq Objects /\ misclosed \subseteq {Null, Invalid} \cup Objects
  /\ filtered \subseteq Devices /\ inbox \in [Devices -> Seq(Nat)] /\ made \in Nat
  /\ device \in Devices \cup {0}

-----------------------------------------------------------------------------
(* interception_create_context                                             *)

Alloc ==
  /\ pc = "alloc"
  /\ \/ heap' = "zeroed" /\ pc' = "device" /\ UNCHANGED context
     \/ UNCHANGED heap /\ pc' = "filter" /\ context' = "NULL"
  /\ UNCHANGED <<i, fields, open, misclosed, driver, device>>

\* CreateFileA, CreateEventA and IOCTL_SET_EVENT for device i all succeed.
DeviceSucceeds ==
  /\ pc = "device" /\ i \in Devices
  /\ handle'  = [handle  EXCEPT ![i] = Dev(i)]
  /\ unempty' = [unempty EXCEPT ![i] = Evt(i)]
  /\ open' = open \cup {Dev(i), Evt(i)}
  /\ i' = i + 1
  /\ UNCHANGED <<pc, context, heap, misclosed, driver, device>>

\* One of them fails: destroy the context.
DeviceFails ==
  /\ pc = "device" /\ i \in Devices
  /\ \/ /\ handle' = [handle EXCEPT ![i] = Invalid]        \* CreateFileA
        /\ UNCHANGED <<unempty, open>>
     \/ /\ handle' = [handle EXCEPT ![i] = Dev(i)]         \* CreateEventA
        /\ open' = open \cup {Dev(i)}
        /\ UNCHANGED unempty
     \/ /\ handle'  = [handle  EXCEPT ![i] = Dev(i)]       \* IOCTL_SET_EVENT
        /\ unempty' = [unempty EXCEPT ![i] = Evt(i)]
        /\ open' = open \cup {Dev(i), Evt(i)}
  /\ i' = 1 /\ pc' = "unwind"
  /\ UNCHANGED <<context, heap, misclosed, driver, device>>

Created ==
  /\ pc = "device" /\ i \notin Devices
  /\ context' = "array" /\ i' = 1 /\ pc' = "filter"
  /\ UNCHANGED <<heap, fields, open, misclosed, driver, device>>

-----------------------------------------------------------------------------
(* interception_destroy_context                                            *)

Destroying == pc = "unwind" \/ (pc = "destroy" /\ context = "array")

\* Fault: every field is closed that is not NULL.
ToClose_Invalid(d) == {handle[d], unempty[d]} \ {Null}

\* Fault: the events are forgotten.
ToClose_HandleOnly(d) == {handle[d]} \ {Invalid}

\* Elements that create did not reach have handle NULL, which is closed too.
ToClose(d) == ({handle[d]} \ {Invalid}) \cup ({unempty[d]} \ {Null})

CloseDevice ==
  /\ Destroying /\ i \in Devices
  /\ misclosed' = misclosed \cup (ToClose(i) \ open)
  /\ open' = open \ ToClose(i)
  /\ filtered' = filtered \ {d \in {i} : Dev(d) \in ToClose(d)}
  /\ i' = i + 1
  /\ UNCHANGED <<pc, context, heap, fields, inbox, made, device>>

\* HeapFree; create returns 0, or main ends.
Free ==
  /\ Destroying /\ i \notin Devices
  /\ heap' = "freed" /\ i' = 1
  /\ IF pc = "unwind" THEN context' = "NULL" /\ pc' = "filter"
                      ELSE UNCHANGED context /\ pc' = "end"
  /\ UNCHANGED <<fields, open, misclosed, driver, device>>

\* destroy of no context.
DestroyNothing ==
  /\ pc = "destroy" /\ context = "NULL"
  /\ pc' = "end"
  /\ UNCHANGED <<i, context, heap, fields, open, misclosed, driver, device>>

-----------------------------------------------------------------------------
(* The calls of main                                                       *)

\* The predicate is interception_is_keyboard.
Filtered == {d \in Devices : handle[d] # Null /\ IsKeyboard(d)}

\* interception_set_filter; the driver may refuse.
SetFilter ==
  /\ pc = "filter"
  /\ filtered' \in IF context = "NULL" THEN {filtered} ELSE SUBSET Filtered
  /\ pc' = "wait"
  /\ UNCHANGED <<i, context, heap, fields, open, misclosed, inbox, made, device>>

Events == {d \in Devices : unempty[d] # Null}

\* Fault: the events that are counted are those before the index found.
Waited_OffByOne ==
  LET k == WaitIndex(Events, Signalled(inbox))
  IN  IF k = 0 THEN DeviceOfIndex(Events, k) ELSE DeviceOfIndex(Events, k - 1)

Waited == DeviceOfIndex(Events, WaitIndex(Events, Signalled(inbox)))

\* device = interception_wait(context), while isRunnung.
Wait ==
  /\ pc = "wait"
  /\ context = "array" /\ Events \cap Signalled(inbox) # {}
  /\ device' = Waited
  /\ pc' = "receive"
  /\ UNCHANGED <<i, context, heap, fields, open, misclosed, driver>>

\* Fault: WAIT_FAILED is not told from an index; the search for it ends
\* behind the last device.
WaitFails_Unnoticed ==
  /\ pc = "wait"
  /\ device' = MaxKeyboard + MaxMouse + 1
  /\ pc' = "receive"
  /\ UNCHANGED <<i, context, heap, fields, open, misclosed, driver>>

\* There is no context, or the wait fails: device 0.
WaitFails ==
  /\ pc = "wait"
  /\ device' = 0
  /\ pc' = "receive"
  /\ UNCHANGED <<i, context, heap, fields, open, misclosed, driver>>

\* interception_receive of one stroke: the loop goes on if there was one.
Receive ==
  /\ pc = "receive"
  /\ context = "array" /\ Accepts(device, 1) /\ inbox[device] # <<>>
  /\ inbox' = [inbox EXCEPT ![device] = Tail(@)]
  /\ pc' = "send"
  /\ UNCHANGED <<i, context, heap, fields, open, misclosed, filtered, made, device>>

\* An early return, no memory, or nothing read: the loop ends.
ReceiveNothing ==
  /\ pc = "receive"
  /\ pc' = "destroy" /\ i' = 1
  /\ UNCHANGED <<context, heap, fields, open, misclosed, driver, device>>

\* interception_send; then the loop looks at isRunnung.
Send ==
  /\ pc = "send"
  /\ pc' \in {"wait", "destroy"} /\ i' = 1
  /\ UNCHANGED <<context, heap, fields, open, misclosed, driver, device>>

\* The user makes a stroke; the driver captures it or passes it on.
Stroke(d) ==
  /\ made < MaxStrokes
  /\ made' = made + 1
  /\ inbox' = IF d \in filtered THEN [inbox EXCEPT ![d] = Append(@, made')] ELSE inbox
  /\ UNCHANGED <<pc, i, context, heap, fields, open, misclosed, filtered, device>>

-----------------------------------------------------------------------------
Init ==
  /\ pc = "alloc" /\ i = 1 /\ context = "unset" /\ heap = "none"
  /\ handle = [d \in Devices |-> Null] /\ unempty = [d \in Devices |-> Null]
  /\ open = {} /\ misclosed = {}
  /\ filtered = {} /\ inbox = [d \in Devices |-> <<>>] /\ made = 0
  /\ device = 0

Create == Alloc \/ DeviceSucceeds \/ DeviceFails \/ Created

Destroy == CloseDevice \/ Free \/ DestroyNothing

Main == SetFilter \/ Wait \/ WaitFails \/ Receive \/ ReceiveNothing \/ Send

Next == Create \/ Destroy \/ Main \/ \E d \in Devices : Stroke(d)

Spec == Init /\ [][Next]_vars

-----------------------------------------------------------------------------
(* Properties                                                              *)

\* A context has every device and every event open; where there is none,
\* after a failure of any step or after destroy, nothing is left open and
\* the memory is not in use (interception.c:43-103).
AllOrNothing ==
  /\ context = "array" /\ pc \notin {"destroy", "end"} => open = Objects /\ heap = "zeroed"
  /\ context = "NULL" \/ pc = "end" => open = {} /\ heap # "zeroed"

\* What is closed was open, once; but destroy also calls CloseHandle(NULL)
\* for the devices that create has not reached (interception.c:95).
ClosedOnce == misclosed \subseteq {Null}

\* The device that a wait returns has a stroke to read, and is a keyboard:
\* mice are left alone (interception.c:138-181).
WaitFindsAStroke ==
  pc = "receive" /\ device # 0 => inbox[device] # <<>> /\ IsKeyboard(device)
=============================================================================

---------------------- MODULE InterceptionContext_proofs --------------------
(***************************************************************************)
(* Creation and destruction of an interception context are all or nothing, *)
(* and a wait in it finds the first device that is signalled, for every    *)
(* number of keyboards and mice.                                           *)
(***************************************************************************)
EXTENDS InterceptionContext, FiniteSetTheorems, WellFoundedInduction, TLAPS

\* A non-empty set of natural numbers has a least element.
LEMMA LeastOfNaturals ==
  ASSUME NEW S \in SUBSET Nat, S # {}
  PROVE  \E k \in S : \A j \in S : k <= j
<1> DEFINE Less == {pair \in Nat \X Nat : pair[1] < pair[2]}
<1>1. IsWellFoundedOn(Less, Nat)
  BY NatLessThanWellFounded DEF OpToRel
<1> HIDE DEF Less
<1>2. PICK k \in S : \A j \in S : <<j, k>> \notin Less
  BY <1>1, WFMin
<1>3. ASSUME NEW j \in S PROVE k <= j
  <2>1. j \in Nat /\ k \in Nat /\ <<j, k>> \notin Less
    BY <1>2
  <2> QED
    BY <2>1 DEF Less
<1> QED
  BY <1>3

\* A device's rank among the devices that have an event is a number, and
\* grows with the device.
LEMMA RankType ==
  ASSUME NEW events \in SUBSET Devices, NEW d \in events
  PROVE  Rank(events, d) \in Nat /\ IsFiniteSet({e \in events : e < d})
<1>1. IsFiniteSet(Devices)
  BY FS_Interval, DevicesAssumption DEF Devices
<1>2. IsFiniteSet({e \in events : e < d})
  BY <1>1, FS_Subset
<1> QED
  BY <1>2, FS_CardinalityType DEF Rank

LEMMA RankGrows ==
  ASSUME NEW events \in SUBSET Devices, NEW d \in events, NEW f \in events, d < f
  PROVE  Rank(events, d) < Rank(events, f)
<1> DEFINE Below(x) == {e \in events : e < x}
<1>1. d \in Nat /\ f \in Nat /\ events \subseteq Nat
  BY DevicesAssumption DEF Devices
<1>2. Below(d) \subseteq Below(f) /\ Below(d) # Below(f)
  <2>1. d \in Below(f) /\ d \notin Below(d)
    BY <1>1
  <2>2. ASSUME NEW x \in Below(d) PROVE x \in Below(f)
    BY <1>1
  <2> HIDE DEF Below
  <2> QED
    BY <2>1, <2>2
<1>3. IsFiniteSet(Below(f)) /\ IsFiniteSet(Below(d))
  BY RankType
<1>4. Cardinality(Below(d)) <= Cardinality(Below(f))
      /\ (Cardinality(Below(d)) = Cardinality(Below(f)) => Below(d) = Below(f))
  BY <1>2, <1>3, FS_Subset
<1> HIDE DEF Below
<1>5. Cardinality(Below(d)) \in Nat /\ Cardinality(Below(f)) \in Nat
  BY <1>3, FS_CardinalityType
<1>6. Cardinality(Below(d)) < Cardinality(Below(f))
  BY <1>2, <1>4, <1>5
<1> QED
  BY <1>6 DEF Rank, Below

\* interception_wait_with_timeout returns the first device that is signalled,
\* whichever devices have an event (interception.c:160-180).
THEOREM WaitFindsTheFirst ==
  ASSUME NEW events \in SUBSET Devices, NEW ready, events \cap ready # {}
  PROVE  LET found == DeviceOfIndex(events, WaitIndex(events, ready))
         IN  /\ found \in events \cap ready
             /\ \A d \in events \cap ready : found <= d
<1> DEFINE ranks == {Rank(events, d) : d \in events \cap ready}
           found == DeviceOfIndex(events, WaitIndex(events, ready))
<1>1. ranks \in SUBSET Nat /\ ranks # {}
  BY RankType
<1>2. \E k \in ranks : \A j \in ranks : k <= j
  BY <1>1, LeastOfNaturals
<1>3. WaitIndex(events, ready) \in ranks
      /\ \A j \in ranks : WaitIndex(events, ready) <= j
  BY <1>2 DEF WaitIndex, Min
<1>4. PICK d \in events \cap ready : Rank(events, d) = WaitIndex(events, ready)
  BY <1>3
<1>5. found \in events /\ Rank(events, found) = WaitIndex(events, ready)
  BY <1>4 DEF DeviceOfIndex
<1>6. events \subseteq Nat
  BY DevicesAssumption DEF Devices
<1> HIDE DEF found
<1>7. ASSUME NEW f \in events, NEW g \in events, Rank(events, f) <= Rank(events, g)
      PROVE  f <= g
  <2>1. ASSUME g < f PROVE FALSE
    <3>1. Rank(events, g) < Rank(events, f)
      BY <2>1, RankGrows
    <3>2. Rank(events, f) \in Nat /\ Rank(events, g) \in Nat
      BY RankType
    <3> QED
      BY <1>7, <3>1, <3>2
  <2> QED
    BY <1>6, <2>1
<1>8. found <= d /\ d <= found
  BY <1>1, <1>3, <1>4, <1>5, <1>7
<1>9. found \in events \cap ready
  BY <1>4, <1>5, <1>6, <1>8
<1>10. ASSUME NEW f \in events \cap ready PROVE found <= f
  BY <1>3, <1>5, <1>7
<1> QED
  BY <1>9, <1>10 DEF found

\* Fields of element d name its own objects, and what is open is named.
OwnFields(d) == handle[d] \in {Null, Invalid, Dev(d)} /\ unempty[d] \in {Null, Evt(d)}
Untouched(d) == handle[d] = Null /\ unempty[d] = Null
Filled(d)    == handle[d] = Dev(d) /\ unempty[d] = Evt(d)
Held(d)      == /\ Dev(d) \in open <=> handle[d]  = Dev(d)
                /\ Evt(d) \in open <=> unempty[d] = Evt(d)
Released(d)  == Dev(d) \notin open /\ Evt(d) \notin open

\* Control, the context and the memory go together.
Control ==
  /\ pc \in {"alloc", "device", "unwind"} <=> context = "unset"
  /\ pc = "alloc" => heap = "none" /\ i = 1
  /\ pc \in {"device", "unwind"} => heap = "zeroed"
  /\ context = "array" => heap = (IF pc = "end" THEN "freed" ELSE "zeroed")
  /\ context = "NULL" => heap # "zeroed"

\* Each element, by how far the loop of create or destroy has come.
Element(d) ==
  /\ OwnFields(d)
  /\ context = "NULL" \/ pc = "end" => Released(d)
  /\ context = "array" => Filled(d)
  /\ pc = "alloc" => Untouched(d) /\ Released(d)
  /\ pc = "device" => Held(d) /\ IF d < i THEN Filled(d) ELSE Untouched(d)
  /\ Destroying => IF d < i THEN Released(d) ELSE Held(d)
  /\ context = "array" /\ pc \notin {"destroy", "end"} => Held(d)

Elements == \A d \in Devices : Element(d)

\* Only keyboards are filtered, so only their strokes are captured.
Captured ==
  /\ \A d \in filtered : IsKeyboard(d)
  /\ \A d \in Devices : inbox[d] # <<>> => IsKeyboard(d)

IInv == TypeOK /\ Control /\ Elements /\ ClosedOnce /\ Captured /\ WaitFindsAStroke

-----------------------------------------------------------------------------
(* The invariant                                                           *)

\* Kernel objects are told apart by their kind and device, and from the two
\* values that name none.
LEMMA Distinct ==
  /\ Null # Invalid
  /\ \A d \in Devices : /\ Dev(d) \notin {Null, Invalid} /\ Evt(d) \notin {Null, Invalid}
                        /\ Dev(d) \in Objects /\ Evt(d) \in Objects
  /\ \A d, e \in Devices : /\ Dev(d) # Evt(e)
                           /\ Dev(d) = Dev(e) => d = e
                           /\ Evt(d) = Evt(e) => d = e
  BY DEF Null, Invalid, Dev, Evt, Objects

\* Control moves on as creation, main's loop and destruction do.
LEMMA ControlStep == TypeOK /\ Control /\ [Next]_vars => Control'
<1> SUFFICES ASSUME TypeOK, Control, [Next]_vars PROVE Control'
  OBVIOUS
<1> USE DEF Control, TypeOK
<1>1. CASE Create
  BY <1>1 DEF Create, Alloc, DeviceSucceeds, DeviceFails, Created
<1>2. CASE Destroy
  BY <1>2 DEF Destroy, CloseDevice, Free, DestroyNothing, Destroying
<1>3. CASE Main
  BY <1>3 DEF Main, SetFilter, Wait, WaitFails, Receive, ReceiveNothing, Send
<1>4. CASE \E d \in Devices : Stroke(d)
  BY <1>4 DEF Stroke
<1>5. CASE UNCHANGED vars
  BY <1>5 DEF vars, fields, driver
<1> QED
  BY <1>1, <1>2, <1>3, <1>4, <1>5 DEF Next

\* What Wait returns is a device with a stroke in its inbox.
LEMMA WaitedIsSignalled ==
  ASSUME TypeOK, Events \cap Signalled(inbox) # {}
  PROVE  Waited \in Devices /\ inbox[Waited] # <<>>
<1>1. Events \in SUBSET Devices
  BY DEF Events
<1>2. Waited \in Events \cap Signalled(inbox)
  BY <1>1, WaitFindsTheFirst DEF Waited
<1>3. Waited \in Devices
  BY <1>1, <1>2
<1>4. inbox[Waited] # <<>>
  BY <1>2 DEF Signalled
<1> QED
  BY <1>3, <1>4

\* The loops' index stays within the array, or one beyond.
LEMMA Index ==
  /\ 1 \in 1..(MaxKeyboard + MaxMouse + 1)
  /\ \A d \in Devices : d + 1 \in 1..(MaxKeyboard + MaxMouse + 1)
  BY DevicesAssumption DEF Devices

\* Every step keeps the types.
LEMMA TypeStep == TypeOK /\ Elements /\ ClosedOnce /\ [Next]_vars => TypeOK'
<1> SUFFICES ASSUME TypeOK, Elements, ClosedOnce, [Next]_vars PROVE TypeOK'
  OBVIOUS
<1> USE Distinct, Index DEF TypeOK
<1>1. CASE Alloc
  BY <1>1 DEF Alloc, fields, driver
<1>2. CASE DeviceSucceeds
  <2>1. handle' \in [Devices -> {Null, Invalid} \cup Objects]
        /\ unempty' \in [Devices -> {Null} \cup Objects]
    BY <1>2 DEF DeviceSucceeds
  <2>2. open' \subseteq Objects
    BY <1>2 DEF DeviceSucceeds
  <2> QED
    BY <1>2, <2>1, <2>2 DEF DeviceSucceeds, driver
<1>3. CASE DeviceFails
  <2>1. handle' \in [Devices -> {Null, Invalid} \cup Objects]
    BY <1>3 DEF DeviceFails
  <2>2. unempty' \in [Devices -> {Null} \cup Objects]
    BY <1>3 DEF DeviceFails
  <2>3. open' \subseteq Objects
    BY <1>3 DEF DeviceFails
  <2> QED
    BY <1>3, <2>1, <2>2, <2>3 DEF DeviceFails, driver
<1>4. CASE Created
  BY <1>4 DEF Created, fields, driver
<1>5. CASE CloseDevice
  <2>1. ToClose(i) \subseteq {Null, Invalid} \cup Objects
    BY <1>5 DEF CloseDevice, ToClose
  <2>2. misclosed' \subseteq {Null, Invalid} \cup Objects /\ open' \subseteq Objects
    BY <1>5, <2>1 DEF CloseDevice
  <2>3. filtered' \subseteq Devices
    BY <1>5 DEF CloseDevice
  <2> QED
    BY <1>5, <2>2, <2>3 DEF CloseDevice, fields
<1>6. CASE Free \/ DestroyNothing
  BY <1>6 DEF Free, DestroyNothing, fields, driver
<1>7. CASE SetFilter
  BY <1>7 DEF SetFilter, Filtered, fields
<1>8. CASE Wait
  BY <1>8, WaitedIsSignalled DEF Wait, fields, driver
<1>9. CASE Receive
  <2>1. device \in Devices
    BY <1>9, DevicesAssumption DEF Receive, Accepts, IsInvalid, IsKeyboard, IsMouse
  <2>2. Tail(inbox[device]) \in Seq(Nat)
    BY <1>9, <2>1 DEF Receive
  <2>3. inbox' \in [Devices -> Seq(Nat)]
    BY <1>9, <2>2 DEF Receive
  <2> QED
    BY <1>9, <2>3 DEF Receive, fields
<1>10. CASE WaitFails \/ ReceiveNothing \/ Send
  BY <1>10 DEF WaitFails, ReceiveNothing, Send, fields, driver
<1>11. CASE \E d \in Devices : Stroke(d)
  <2>1. made' \in Nat /\ inbox' \in [Devices -> Seq(Nat)]
    BY <1>11 DEF Stroke
  <2> QED
    BY <1>11, <2>1 DEF Stroke, fields
<1>12. CASE UNCHANGED vars
  BY <1>12 DEF vars, fields, driver
<1> QED
  BY <1>1, <1>2, <1>3, <1>4, <1>5, <1>6, <1>7, <1>8, <1>9, <1>10, <1>11, <1>12
     DEF Next, Create, Destroy, Main

\* One element of the array in one step of the loops: closing element i
\* releases it, and touches no other.
LEMMA CloseOne ==
  ASSUME TypeOK, Elements, CloseDevice, NEW d \in Devices
  PROVE  /\ d = i => Released(d)'
         /\ d # i => /\ Dev(d) \in open' <=> Dev(d) \in open
                     /\ Evt(d) \in open' <=> Evt(d) \in open
<1>1. OwnFields(i) /\ Held(i) /\ i \in Devices
  BY DevicesAssumption DEF Elements, Element, CloseDevice, TypeOK, Devices
<1>2. CASE d = i
  BY <1>1, <1>2, Distinct DEF CloseDevice, ToClose, Released, OwnFields, Held
<1>3. CASE d # i
  BY <1>1, <1>3, Distinct DEF CloseDevice, ToClose, OwnFields
<1> QED
  BY <1>2, <1>3

\* Every step keeps the elements as far along as the loops are.
LEMMA ElementsStep == TypeOK /\ Control /\ Elements /\ [Next]_vars => Elements'
<1> SUFFICES ASSUME TypeOK, Control, Elements, [Next]_vars, NEW d \in Devices
             PROVE  Element(d)'
  BY DEF Elements
<1>0. /\ Element(d) /\ d \in Nat /\ d >= 1 /\ i \in Nat
      /\ (i \notin Devices => d < i)
  BY DevicesAssumption DEF Elements, TypeOK, Devices
<1> USE <1>0, Distinct
<1> USE DEF Element, OwnFields, Untouched, Filled, Held, Released, Destroying
<1>1. CASE Alloc
  BY <1>1 DEF Alloc, fields, Control
<1>2. CASE DeviceSucceeds
  <2>1. CASE d = i
    BY <1>2, <2>1 DEF DeviceSucceeds, TypeOK, Control
  <2>2. CASE d # i
    BY <1>2, <2>2 DEF DeviceSucceeds, TypeOK, Control
  <2> QED
    BY <2>1, <2>2
<1>3. CASE DeviceFails
  <2>1. CASE d = i
    BY <1>3, <2>1 DEF DeviceFails, TypeOK, Control
  <2>2. CASE d # i
    BY <1>3, <2>2 DEF DeviceFails, TypeOK, Control
  <2> QED
    BY <2>1, <2>2
<1>4. CASE Created
  BY <1>4 DEF Created, fields
<1>5. CASE CloseDevice
  <2>1. /\ d = i => Released(d)'
        /\ d # i => /\ Dev(d) \in open' <=> Dev(d) \in open
                    /\ Evt(d) \in open' <=> Evt(d) \in open
    BY <1>5, CloseOne
  <2>2. UNCHANGED <<pc, context, handle, unempty>> /\ i' = i + 1 /\ Destroying
    BY <1>5 DEF CloseDevice, fields
  <2> QED
    BY <2>1, <2>2, <1>5 DEF Control
<1>6. CASE Free
  BY <1>6 DEF Free, fields, Control
<1>7. CASE DestroyNothing
  BY <1>7 DEF DestroyNothing, fields
<1>8. CASE Main
  BY <1>8 DEF Main, SetFilter, Wait, WaitFails, Receive, ReceiveNothing, Send, fields, Control
<1>9. CASE \E e \in Devices : Stroke(e)
  BY <1>9 DEF Stroke, fields
<1>10. CASE UNCHANGED vars
  BY <1>10 DEF vars, fields
<1> QED
  BY <1>1, <1>2, <1>3, <1>4, <1>5, <1>6, <1>7, <1>8, <1>9, <1>10
     DEF Next, Create, Destroy

\* What CloseDevice closes is open, but for NULL.
LEMMA ClosedStep == TypeOK /\ Elements /\ ClosedOnce /\ [Next]_vars => ClosedOnce'
<1> SUFFICES ASSUME TypeOK, Elements, ClosedOnce, [Next]_vars PROVE ClosedOnce'
  OBVIOUS
<1>1. CASE CloseDevice
  <2>1. OwnFields(i) /\ Held(i)
    BY <1>1, DevicesAssumption DEF Elements, Element, CloseDevice, TypeOK, Devices
  <2>2. ToClose(i) \ open \subseteq {Null}
    BY <2>1, Distinct DEF ToClose, OwnFields, Held
  <2> QED
    BY <1>1, <2>2 DEF CloseDevice, ClosedOnce
<1>2. CASE UNCHANGED misclosed
  BY <1>2 DEF ClosedOnce
<1> QED
  BY <1>1, <1>2
     DEF Next, vars, Create, Alloc, DeviceSucceeds, DeviceFails, Created,
         Destroy, Free, DestroyNothing, Main, SetFilter, Wait, WaitFails, Receive,
         ReceiveNothing, Send, Stroke

\* Only keyboards are filtered, and only main takes strokes from an inbox.
LEMMA CapturedStep ==
  TypeOK /\ Captured /\ WaitFindsAStroke /\ [Next]_vars => Captured' /\ WaitFindsAStroke'
<1> SUFFICES ASSUME TypeOK, Captured, WaitFindsAStroke, [Next]_vars
             PROVE  Captured' /\ WaitFindsAStroke'
  OBVIOUS
<1> USE DEF Captured, WaitFindsAStroke
<1>1. CASE Create
  BY <1>1 DEF Create, Alloc, DeviceSucceeds, DeviceFails, Created, driver
<1>2. CASE Destroy
  BY <1>2 DEF Destroy, CloseDevice, Free, DestroyNothing, Destroying, driver
<1>3. CASE SetFilter
  BY <1>3 DEF SetFilter, Filtered
<1>4. CASE Wait
  BY <1>4, WaitedIsSignalled DEF Wait, driver
<1>5. CASE Receive
  <2>1. pc' = "send" /\ filtered' = filtered
    BY <1>5 DEF Receive
  <2>2. ASSUME NEW d \in Devices, inbox'[d] # <<>> PROVE inbox[d] # <<>>
    BY <1>5, <2>2 DEF Receive, TypeOK
  <2> QED
    BY <2>1, <2>2
<1>6. CASE WaitFails \/ ReceiveNothing \/ Send
  BY <1>6 DEF WaitFails, ReceiveNothing, Send, driver
<1>7. ASSUME NEW s \in Devices, Stroke(s) PROVE Captured' /\ WaitFindsAStroke'
  <2>1. UNCHANGED <<pc, filtered, device>>
    BY <1>7 DEF Stroke
  <2>2. ASSUME NEW d \in Devices
        PROVE  /\ inbox[d] # <<>> => inbox'[d] # <<>>
               /\ inbox'[d] # <<>> => inbox[d] # <<>> \/ d \in filtered
    <3>1. CASE s \in filtered /\ d = s
      <4>1. inbox[s] \in Seq(Nat) /\ made' \in Nat
        BY <1>7 DEF Stroke, TypeOK
      <4>2. inbox'[d] = Append(inbox[s], made')
        BY <1>7, <3>1 DEF Stroke, TypeOK
      <4> QED
        BY <3>1, <4>1, <4>2
    <3>2. CASE ~(s \in filtered /\ d = s)
      BY <1>7, <3>2 DEF Stroke, TypeOK
    <3> QED
      BY <3>1, <3>2
  <2>3. device \in Devices \cup {0}
    BY DEF TypeOK
  <2> QED
    BY <2>1, <2>2, <2>3
<1>8. CASE UNCHANGED vars
  BY <1>8 DEF vars, driver
<1> QED
  BY <1>1, <1>2, <1>3, <1>4, <1>5, <1>6, <1>7, <1>8 DEF Next, Main

-----------------------------------------------------------------------------
(* The theorems                                                            *)

\* The invariant holds in every behaviour, for every number of devices.
THEOREM Invariance == Spec => []IInv
<1>1. Init => IInv
  <2> SUFFICES ASSUME Init PROVE IInv
    OBVIOUS
  <2>1. TypeOK
    BY Index, Distinct DEF Init, TypeOK
  <2>2. Control /\ ClosedOnce /\ WaitFindsAStroke /\ Captured
    BY DEF Init, Control, ClosedOnce, WaitFindsAStroke, Captured
  <2>3. Elements
    BY Distinct DEF Init, Elements, Element, OwnFields, Untouched, Filled, Held, Released,
                    Destroying
  <2> QED
    BY <2>1, <2>2, <2>3 DEF IInv
<1>2. IInv /\ [Next]_vars => IInv'
  BY ControlStep, TypeStep, ElementsStep, ClosedStep, CapturedStep DEF IInv
<1> QED
  BY <1>1, <1>2, PTL DEF Spec

\* Every state is type-correct.
THEOREM TypeCorrectness == Spec => []TypeOK
<1>1. IInv => TypeOK
  BY DEF IInv
<1> QED
  BY <1>1, Invariance, PTL

\* A context has all its kernel objects, and where there is none, whichever
\* step of creation failed, nothing is left behind (interception.c:43-103).
THEOREM CreationIsAllOrNothing == Spec => []AllOrNothing
<1>1. IInv => AllOrNothing
  <2> SUFFICES ASSUME IInv PROVE AllOrNothing
    OBVIOUS
  <2> USE DEF IInv, Control, Elements, Element, Filled, Held, Released
  <2>1. ASSUME context = "array", pc \notin {"destroy", "end"}
        PROVE  open = Objects /\ heap = "zeroed"
    BY <2>1 DEF Objects, TypeOK
  <2>2. ASSUME context = "NULL" \/ pc = "end" PROVE open = {} /\ heap # "zeroed"
    BY <2>2 DEF Objects, TypeOK
  <2> QED
    BY <2>1, <2>2 DEF AllOrNothing
<1> QED
  BY <1>1, Invariance, PTL

\* Nothing is closed twice (interception.c:86-103).
THEOREM NoDoubleClose == Spec => []ClosedOnce
<1>1. IInv => ClosedOnce
  BY DEF IInv
<1> QED
  BY <1>1, Invariance, PTL

\* main reads from a device that has a stroke, and never from a mouse
\* (main.cpp:184-187, interception.c:138-181).
THEOREM ReadsFromAKeyboard == Spec => []WaitFindsAStroke
<1>1. IInv => WaitFindsAStroke
  BY DEF IInv
<1> QED
  BY <1>1, Invariance, PTL
=============================================================================

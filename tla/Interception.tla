---------------------------- MODULE Interception ----------------------------
(***************************************************************************)
(* The Interception library (interception.h, interception.c) as far as it  *)
(* computes something: how devices are numbered, which requests get as far *)
(* as the driver, and which device a wait returns.                         *)
(***************************************************************************)
EXTENDS Naturals, Sequences, FiniteSetsExt

CONSTANTS
  MaxKeyboard,  \* INTERCEPTION_MAX_KEYBOARD, 10 in the source
  MaxMouse      \* INTERCEPTION_MAX_MOUSE, 10 in the source

ASSUME DevicesAssumption == MaxKeyboard \in Nat \ {0} /\ MaxMouse \in Nat

IsKeyboard(device) == device \in 1..MaxKeyboard
IsMouse(device)    == device \in (MaxKeyboard + 1)..(MaxKeyboard + MaxMouse)
IsInvalid(device)  == ~IsKeyboard(device) /\ ~IsMouse(device)

Devices == 1..(MaxKeyboard + MaxMouse)

\* InterceptionKeyState, as far as the filter lets strokes through: bit 0 is
\* set for a key that goes up, bit 1 for an extended (E0) key.
KeyStates == 0..3
KEY_DOWN  == 0
KEY_UP    == 1
KEY_E0    == 2

\* interception_send and interception_receive on a context whose handles are
\* all open: no request reaches the driver for no strokes or no device.
Accepts(device, nstroke) == nstroke # 0 /\ ~IsInvalid(device)

\* Events are signalled while strokes wait in the inbox of the device.
Signalled(inbox) == {d \in DOMAIN inbox : inbox[d] # <<>>}

\* interception_wait, for devices that all have their event: the first one
\* whose event is signalled.
WaitResult(inbox) == Min(Signalled(inbox))

\* interception_wait_with_timeout in detail, for any set of devices that
\* have an event.  WaitForMultipleObjects is given the events only, and
\* returns the index k of the first one signalled among them; the library
\* then counts events up to k to find the device.
Rank(events, d)          == Cardinality({e \in events : e < d})
WaitIndex(events, ready) == Min({Rank(events, d) : d \in events \cap ready})
DeviceOfIndex(events, k) == CHOOSE d \in events : Rank(events, d) = k
=============================================================================

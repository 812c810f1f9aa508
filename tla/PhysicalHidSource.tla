--------------------------- MODULE PhysicalHidSource ---------------------------
(***************************************************************************)
(* The game controllers plugged into the machine itself: MacPhysicalHidSource*)
(* and the physical controllers it keeps in Runtime.                        *)
(*                                                                         *)
(* IOKit calls device_added, device_removed and input_value on one serial   *)
(* queue.  A callback first changes devices_, then calls its handler, which *)
(* may have to wait for Runtime's mutex: main changes output profiles       *)
(* meanwhile, and destroys the source when the process ends.                *)
(*                                                                         *)
(* A device is an IOHIDDeviceRef; an element has a kind, a usage, which     *)
(* stands for its page as well, a logical range and a position, which tells *)
(* elements of one usage apart.                                             *)
(***************************************************************************)
EXTENDS Integers, FiniteSetsExt, Functions

CONSTANTS
  Devices,        \* devices IOKit may announce
  VirtualDevices, \* those of them that are some program's virtual devices
  Elements,       \* elements of all devices
  RegistryIds,    \* a device's <<high, low>> half of its registry entry id
  RawValues,      \* integer values of elements
  Maximum,        \* kMaxButtons, kMaxHats and kMaxAxes by kind
  AxisBits,       \* bits of a normalized axis, 16 in the code
  IdBits,         \* bits of a physical id below its marker, 31 in the code
  SequenceModulus \* of a source's sequence, 2^32 in the code

Kinds == {"button", "hat", "axis"}

\* Bit by bit exclusive or.
Xor[a, b \in Nat] ==
  IF a = 0 /\ b = 0 THEN 0 ELSE ((a + b) % 2) + 2 * Xor[a \div 2, b \div 2]

\* device_id, without the marker 0x80000000 that sets physical ids apart from
\* those of the network.
DeviceId(device) ==
  LET halves == RegistryIds[device]
  IN  Xor[halves[1], halves[2]] % 2^IdBits

ASSUME ElementAssumption ==
  /\ IsFiniteSet(Elements)
  /\ \A e \in Elements :
       /\ e.device \in Devices /\ e.kind \in Kinds
       /\ {e.usage, e.position, e.min, e.max} \subseteq Int
  /\ \A e, f \in Elements :
       /\ e.device = f.device /\ e.kind = f.kind
       /\ e.usage = f.usage /\ e.position = f.position
       => e = f

\* The last conjunct is what the code takes for granted of the folded ids.
ASSUME SourceAssumption ==
  /\ VirtualDevices \subseteq Devices
  /\ Maximum \in [Kinds -> Nat]
  /\ RawValues \subseteq Int
  /\ AxisBits \in Nat \ {0} /\ IdBits \in Nat
  /\ SequenceModulus \in Nat /\ SequenceModulus > 2
  /\ \A d1, d2 \in Devices : DeviceId(d1) = DeviceId(d2) => d1 = d2

VARIABLES
  phase,       \* of main: starting, running, waiting, cleared, freed; raced
  cancelled,   \* the semaphore has been signalled
  expired,     \* history: the destructor's wait ran out
  devices,     \* devices_
  retained,    \* CFRetain less CFRelease calls by element
  callback,    \* the handler the queue is about to call
  controllers, \* Runtime's physical controllers
  failed,      \* history: devices in the table whose add failed
  quiet,       \* history: devices without input since their last publication
  last         \* history: the last raw value of an element, if any

sourceVars == <<devices, retained, last>>
runtimeVars == <<controllers, failed, quiet>>
vars == <<phase, cancelled, expired, sourceVars, callback, runtimeVars>>

NoCallback == [handler |-> "none"]
Nothing == <<>>

\* A table with one more entry, or another one under its key.
With(table, key, entry) ==
  [k \in DOMAIN table \cup {key} |-> IF k = key THEN entry ELSE table[k]]

(***************************************************************************)
(* Elements and controls.                                                  *)
(***************************************************************************)
\* Mutant: elements of one usage are not told apart.
BeforeByUsage(e1, e2) == e1.usage < e2.usage

\* The order of std::sort, which leaves elements of one usage in any order.
Before(e1, e2) ==
  \/ e1.usage < e2.usage
  \/ e1.usage = e2.usage /\ e1.position < e2.position

\* The place of an element among those of its kind.
Index ==
  [e \in Elements |->
     Cardinality({f \in Elements :
                    f.device = e.device /\ f.kind = e.kind /\ Before(f, e)})]

\* install: the elements for which the state has room.
Bound ==
  [device \in Devices |->
     {e \in Elements : e.device = device /\ Index[e] < Maximum[e.kind]}]

Controls == UNION {{kind} \X (0..(Maximum[kind] - 1)) : kind \in Kinds}
ControlOf(e) == <<e.kind, Index[e]>>

Neutral == [c \in Controls |-> IF c[1] = "hat" THEN 8 ELSE 0]

AxisMax == 2^(AxisBits - 1) - 1

Round(a, b) ==
  IF a >= 0 THEN (2 * a + b) \div (2 * b) ELSE -((2 * (-a) + b) \div (2 * b))

Clamp(value, low, high) ==
  IF value < low THEN low ELSE IF value > high THEN high ELSE value

\* What handle_value makes of a raw value; an axis without a range keeps old.
Shown(e, raw, old) ==
  CASE e.kind = "button" -> IF raw # 0 THEN 1 ELSE 0
    [] e.kind = "hat" ->
         IF raw \in e.min..e.max THEN Min({raw - e.min, 7}) ELSE 8
    [] e.kind = "axis" ->
         IF e.max > e.min
         THEN Clamp(Round((raw - e.min) * (2 * AxisMax + 1)
                            - (AxisMax + 1) * (e.max - e.min),
                          e.max - e.min),
                    -AxisMax - 1, AxisMax)
         ELSE old

(***************************************************************************)
(* Callbacks: what happens before the handler is called.                   *)
(***************************************************************************)
\* IOKit delivers callbacks one at a time until it has been cancelled.
QueueFree ==
  /\ phase \in {"running", "waiting"}
  /\ ~cancelled
  /\ callback = NoCallback

\* Mutant: a device is added again for each usage that matches it.
EveryMatch(device) == device \notin VirtualDevices

\* A device may match more than one usage: its callback may come twice.
Wanted(device) == device \notin VirtualDevices /\ device \notin DOMAIN devices

\* add_device, as far as devices_.emplace.  Nothing happens for a device whose
\* elements IOKit does not list.
DeviceAdded(device) ==
  /\ QueueFree /\ Wanted(device)
  /\ devices' = With(devices, device, [sequence |-> 0, state |-> Neutral])
  /\ retained' = [e \in Elements |->
       IF e \in Bound[device] THEN retained[e] + 1 ELSE retained[e]]
  /\ callback' = [handler |-> "add", device |-> device]
  /\ UNCHANGED <<phase, cancelled, expired, last, runtimeVars>>

\* remove_device, as far as devices_.erase.
DeviceRemoved(device) ==
  /\ QueueFree /\ device \in DOMAIN devices
  /\ devices' = Restrict(devices, DOMAIN devices \ {device})
  /\ retained' = [e \in Elements |->
       IF e \in Bound[device] THEN retained[e] - 1 ELSE retained[e]]
  /\ callback' = [handler |-> "remove", device |-> device]
  /\ last' = [e \in Elements |->
                IF e.device = device THEN Nothing ELSE last[e]]
  /\ UNCHANGED <<phase, cancelled, expired, runtimeVars>>

\* Mutant: the handler is given the state before the value.
StatePassed(before, after) == before

\* The state handed to input_handler_.
Passed(before, after) == after

\* handle_value of a bound element, as far as ++source.sequence.
InputValue(e, raw) ==
  /\ QueueFree /\ e.device \in DOMAIN devices /\ e \in Bound[e.device]
  /\ LET source == devices[e.device]
         sequence == (source.sequence + 1) % SequenceModulus
         state == [source.state EXCEPT ![ControlOf(e)] = Shown(e, raw, @)]
     IN  /\ devices' = [devices EXCEPT
              ![e.device] = [sequence |-> sequence, state |-> state]]
         /\ callback' = [handler |-> "input", device |-> e.device,
                         sequence |-> sequence,
                         state |-> Passed(source.state, state)]
  /\ last' = [last EXCEPT ![e] = <<raw>>]
  /\ UNCHANGED <<phase, cancelled, expired, retained, runtimeVars>>

(***************************************************************************)
(* The handlers: add_semantic, input and remove of Runtime, under its mutex.*)
(***************************************************************************)
Fresh(live) == [live |-> live, started |-> FALSE, sequence |-> 0,
                shown |-> Nothing]

Handled == callback' = NoCallback

\* A failed publication leaves no controller and is not tried again.
AddSemantic ==
  /\ callback.handler = "add"
  /\ \/ /\ controllers' = With(controllers, DeviceId(callback.device), Fresh(TRUE))
        /\ UNCHANGED failed
     \/ /\ failed' = failed \cup {callback.device}
        /\ UNCHANGED controllers
  /\ quiet' = quiet \cup {callback.device}
  /\ Handled
  /\ UNCHANGED <<phase, cancelled, expired, sourceVars>>

Newer(sequence, than) ==
  (sequence - than) % SequenceModulus \in 1..((SequenceModulus - 1) \div 2)

Input ==
  /\ callback.handler = "input"
  /\ LET id == DeviceId(callback.device)
     IN  IF /\ id \in DOMAIN controllers
            /\ controllers[id].started =>
                 Newer(callback.sequence, controllers[id].sequence)
         THEN controllers' = [controllers EXCEPT
                ![id].started = TRUE,
                ![id].sequence = callback.sequence,
                ![id].shown = IF controllers[id].live THEN callback.state ELSE @]
         ELSE UNCHANGED controllers
  /\ quiet' = quiet \ {callback.device}
  /\ Handled
  /\ UNCHANGED <<phase, cancelled, expired, sourceVars, failed>>

\* Mutant: a controller without a device is not found.
WithoutLive(id) ==
  IF id \in DOMAIN controllers /\ controllers[id].live
  THEN Restrict(controllers, DOMAIN controllers \ {id}) ELSE controllers

Without(id) == Restrict(controllers, DOMAIN controllers \ {id})

Remove ==
  /\ callback.handler = "remove"
  /\ controllers' = Without(DeviceId(callback.device))
  /\ failed' = failed \ {callback.device}
  /\ quiet' = quiet \ {callback.device}
  /\ Handled
  /\ UNCHANGED <<phase, cancelled, expired, sourceVars>>

\* set_output_profile on a physical controller, from main.  The new device has
\* been sent nothing; its publication may fail.
Rebuild(id) ==
  /\ phase = "running"
  /\ \E live \in BOOLEAN :
       controllers' = [controllers EXCEPT ![id].live = live,
                                          ![id].shown = Nothing]
  /\ quiet' = quiet \cup {d \in DOMAIN devices : DeviceId(d) = id}
  /\ UNCHANGED <<phase, cancelled, expired, sourceVars, callback, failed>>

(***************************************************************************)
(* main: create, then the destructor.                                      *)
(***************************************************************************)
\* start: IOKit may refuse the manager, or to open it.  Then the source is
\* destroyed at once and the bridge goes on without it.
Start ==
  /\ phase = "starting"
  /\ phase' \in {"running", "closing", "freed"}
  /\ UNCHANGED <<cancelled, expired, sourceVars, callback, runtimeVars>>

\* IOHIDManagerCancel.
Reset ==
  /\ phase = "running"
  /\ phase' = "waiting"
  /\ UNCHANGED <<cancelled, expired, sourceVars, callback, runtimeVars>>

\* The cancel handler runs on the queue, after the last callback.
CancelHandler ==
  /\ phase \in {"waiting", "closing"}
  /\ callback = NoCallback
  /\ cancelled' = TRUE
  /\ UNCHANGED <<phase, expired, sourceVars, callback, runtimeVars>>

\* Mutant: the destructor does not wait.
NoWait == TRUE

WaitOver == cancelled

\* clear_devices.
Cleared ==
  /\ phase' = "cleared"
  /\ devices' = Nothing
  /\ retained' = [e \in Elements |->
       IF e.device \in DOMAIN devices /\ e \in Bound[e.device]
       THEN retained[e] - 1 ELSE retained[e]]

ClearDevices ==
  /\ phase \in {"waiting", "closing"} /\ WaitOver
  /\ Cleared
  /\ UNCHANGED <<cancelled, expired, callback, last, runtimeVars>>

\* After two seconds clear_devices runs without the cancel handler.  With a
\* callback in progress two threads are in the source: what follows has no
\* meaning, and the model ends.
WaitExpires ==
  /\ phase \in {"waiting", "closing"} /\ ~cancelled
  /\ expired' = TRUE
  /\ IF callback = NoCallback THEN Cleared
     ELSE phase' = "raced" /\ UNCHANGED <<devices, retained>>
  /\ UNCHANGED <<cancelled, callback, last, runtimeVars>>

Free ==
  /\ phase = "cleared"
  /\ phase' = "freed"
  /\ UNCHANGED <<cancelled, expired, sourceVars, callback, runtimeVars>>

Ended == phase \in {"freed", "raced"} /\ UNCHANGED vars

Init ==
  /\ phase = "starting"
  /\ cancelled = FALSE
  /\ expired = FALSE
  /\ devices = Nothing
  /\ retained = [e \in Elements |-> 0]
  /\ callback = NoCallback
  /\ controllers = Nothing
  /\ failed = {}
  /\ quiet = {}
  /\ last = [e \in Elements |-> Nothing]

Handler ==
  /\ phase # "raced"
  /\ AddSemantic \/ Input \/ Remove

Next ==
  \/ \E device \in Devices : DeviceAdded(device) \/ DeviceRemoved(device)
  \/ \E e \in Elements, raw \in RawValues : InputValue(e, raw)
  \/ Handler
  \/ \E id \in DOMAIN controllers : Rebuild(id)
  \/ Start \/ Reset \/ CancelHandler \/ ClearDevices \/ WaitExpires \/ Free
  \/ Ended

Spec == Init /\ [][Next]_vars

(***************************************************************************)
(* Properties.                                                             *)
(***************************************************************************)
\* An element is retained exactly as long as devices_ binds it, however often
\* its device is matched, plugged and unplugged, and the destructor gives all
\* of them back.
RetainsMatchBindings ==
  \A e \in Elements :
    retained[e] = IF e.device \in DOMAIN devices /\ e \in Bound[e.device]
                  THEN 1 ELSE 0

\* Whenever no handler is about to run, Runtime has a controller for exactly
\* the devices in the table, those whose publication failed apart: two tables
\* in two objects that every plug and unplug changes one after the other.
ControllersFollowDevices ==
  phase \in {"running", "waiting"} /\ callback = NoCallback =>
    DOMAIN controllers = {DeviceId(d) : d \in DOMAIN devices \ failed}

\* A controller with a device has been sent its source's state as it is now,
\* or nothing since its device was published: no value is lost on the way, to
\* the sequence filter neither, which a source starts again with every plug.
ShownIsCurrent ==
  phase \in {"running", "waiting"} /\ callback = NoCallback =>
    \A d \in DOMAIN devices \ failed :
      LET controller == controllers[DeviceId(d)]
      IN  controller.live =>
            controller.shown = IF d \in quiet THEN Nothing ELSE devices[d].state

\* The state of a device shows of every bound element its last value, although
\* elements of one usage are sorted together and beyond the maximum dropped.
StateShowsElements ==
  \A e \in Elements :
    e.device \in DOMAIN devices /\ e \in Bound[e.device] /\ last[e] # Nothing =>
      LET shown == devices[e.device].state[ControlOf(e)]
      IN  shown = Shown(e, last[e][1], shown)

\* Once the destructor has waited for the cancel handler nothing calls into the
\* source, or, through its handlers, into a Runtime main is about to destroy.
NothingRunsAfterFree ==
  phase \in {"cleared", "freed"} /\ ~expired => callback = NoCallback
===============================================================================

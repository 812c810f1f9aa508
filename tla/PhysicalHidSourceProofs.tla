------------------------- MODULE PhysicalHidSourceProofs -------------------------
(***************************************************************************)
(* Proofs about PhysicalHidSource, for any devices and elements, any raw    *)
(* values and any modulus of the sequence numbers.                          *)
(***************************************************************************)
EXTENDS PhysicalHidSource, FiniteSetTheorems, TLAPS

Sequences == 0..(SequenceModulus - 1)
States == [Controls -> Int]
Source == [sequence : Sequences, state : States]
Controller ==
  [live : BOOLEAN, started : BOOLEAN, sequence : Sequences,
   shown : States \cup {Nothing}]

TypeInv ==
  /\ phase \in {"starting", "running", "waiting", "closing", "cleared", "freed",
                "raced"}
  /\ cancelled \in BOOLEAN
  /\ DOMAIN devices \subseteq Devices
  /\ devices \in [DOMAIN devices -> Source]
  /\ DOMAIN retained = Elements
  /\ controllers \in [DOMAIN controllers -> Controller]
  /\ last \in [Elements -> {Nothing} \cup {<<raw>> : raw \in RawValues}]

\* The queue runs one callback at a time, between start and cancel, and what
\* the callback was given is what the table holds until its handler returns.
CallbackInv ==
  /\ callback.handler \in {"none", "add", "remove", "input"}
  /\ callback.handler = "none" => callback = NoCallback
  /\ phase \in {"starting", "closing", "cleared", "freed"} \/ cancelled =>
       callback = NoCallback
  /\ cancelled => phase \notin {"starting", "running"}
  /\ callback.handler = "add" =>
       /\ callback.device \in DOMAIN devices \ failed
       /\ devices[callback.device].sequence = 0
  /\ callback.handler = "remove" => callback.device \in Devices \ DOMAIN devices
  /\ callback.handler = "input" =>
       /\ callback.device \in DOMAIN devices
       /\ callback.sequence = devices[callback.device].sequence
       /\ callback.state = devices[callback.device].state

Gone == phase \in {"cleared", "freed"}

\* The devices Runtime was told of and not yet told to forget.
Told ==
  CASE callback.handler = "add" -> DOMAIN devices \ {callback.device}
    [] callback.handler = "remove" -> DOMAIN devices \cup {callback.device}
    [] OTHER -> DOMAIN devices

\* Until the table is cleared, Runtime has a controller for each of these,
\* unless its publication failed.
TablesInv ==
  ~Gone =>
    /\ failed \subseteq Told
    /\ DOMAIN controllers = {DeviceId(d) : d \in Told \ failed}

Waits(d) == callback.handler = "input" /\ callback.device = d

\* Filter and source count alike, but for the value on its way.
SequenceInv ==
  \A d \in (Told \cap DOMAIN devices) \ failed :
    LET expected == controllers[DeviceId(d)].sequence
    IN  devices[d].sequence =
          IF Waits(d) THEN (expected + 1) % SequenceModulus ELSE expected

\* So do their states.
ShownInv ==
  \A d \in (Told \cap DOMAIN devices) \ failed :
    LET controller == controllers[DeviceId(d)]
    IN  controller.live /\ ~Waits(d) =>
          controller.shown = IF d \in quiet THEN Nothing ELSE devices[d].state

\* Nothing is remembered of the elements of a device that is not there.
LastInv ==
  ~Gone => \A e \in Elements : e.device \notin DOMAIN devices => last[e] = Nothing

IInv ==
  /\ TypeInv
  /\ CallbackInv
  /\ RetainsMatchBindings
  /\ TablesInv
  /\ SequenceInv
  /\ ShownInv
  /\ LastInv
  /\ StateShowsElements

-----------------------------------------------------------------------------
(* Elements and controls.                                                  *)

\* The elements of a kind before one of them are finitely many.
LEMMA IndexType ==
  ASSUME NEW e \in Elements
  PROVE  Index[e] \in Nat
<1> DEFINE Earlier == {f \in Elements :
                         f.device = e.device /\ f.kind = e.kind /\ Before(f, e)}
<1>1. IsFiniteSet(Earlier)
  BY ElementAssumption, FS_Subset DEF ElementAssumption
<1> QED BY <1>1, FS_CardinalityType DEF Index

\* An element that is sorted before another has a smaller set before it.
LEMMA IndexGrows ==
  ASSUME NEW e \in Elements, NEW f \in Elements,
         e.device = f.device, e.kind = f.kind, Before(e, f)
  PROVE  Index[e] # Index[f]
<1> DEFINE Earlier(x) == {g \in Elements :
                            g.device = x.device /\ g.kind = x.kind /\ Before(g, x)}
<1>1. \A g \in Elements : g.usage \in Int /\ g.position \in Int
  BY ElementAssumption DEF ElementAssumption
<1>2. Earlier(e) \subseteq Earlier(f)
  BY <1>1 DEF Before
<1>3. e \in Earlier(f) \ Earlier(e)
  BY <1>1 DEF Before
<1>4. IsFiniteSet(Earlier(f))
  BY ElementAssumption, FS_Subset DEF ElementAssumption
<1> HIDE DEF Earlier
<1>5. Cardinality(Earlier(e)) # Cardinality(Earlier(f))
  BY <1>2, <1>3, <1>4, FS_Subset
<1> USE DEF Earlier
<1> QED BY <1>5 DEF Index

\* Two elements a device binds are shown in two places.
LEMMA ControlsAreApart ==
  ASSUME NEW d \in Devices, NEW e \in Bound[d], NEW f \in Bound[d], e # f
  PROVE  ControlOf(e) # ControlOf(f)
<1>1. /\ e \in Elements /\ f \in Elements
      /\ e.device = d /\ f.device = d
  BY DEF Bound
<1>2. CASE e.kind # f.kind
  BY <1>2 DEF ControlOf
<1>3. CASE e.kind = f.kind
  <2>1. Before(e, f) \/ Before(f, e)
    BY <1>1, <1>3, ElementAssumption DEF ElementAssumption, Before
  <2>2. Index[e] # Index[f]
    BY <1>1, <1>3, <2>1, IndexGrows
  <2> QED BY <2>2 DEF ControlOf
<1> QED BY <1>2, <1>3

LEMMA ControlType ==
  ASSUME NEW d \in Devices, NEW e \in Bound[d]
  PROVE  ControlOf(e) \in Controls
<1>1. e \in Elements /\ Index[e] < Maximum[e.kind]
  BY DEF Bound
<1>2. e.kind \in Kinds /\ Index[e] \in Nat /\ Maximum[e.kind] \in Nat
  BY <1>1, IndexType, ElementAssumption, SourceAssumption
  DEF ElementAssumption, SourceAssumption
<1>3. Index[e] \in 0..(Maximum[e.kind] - 1)
  BY <1>1, <1>2
<1> QED BY <1>2, <1>3 DEF ControlOf, Controls

LEMMA NeutralType == Neutral \in States
BY DEF Neutral, States

\* What an element shows is an integer.
LEMMA ShownType ==
  ASSUME NEW e \in Elements, NEW raw \in RawValues, NEW old \in Int
  PROVE  Shown(e, raw, old) \in Int
<1>1. raw \in Int /\ e.min \in Int /\ e.max \in Int /\ e.kind \in Kinds
  BY ElementAssumption, SourceAssumption DEF ElementAssumption, SourceAssumption
<1>2. CASE e.kind = "button"
  BY <1>2 DEF Shown
<1>3. CASE e.kind = "hat"
  <2>1. \A a \in Int : Min({a, 7}) \in Int
    BY DEF Min
  <2>2. Min({raw - e.min, 7}) \in Int
    BY <1>1, <2>1
  <2> QED BY <1>3, <2>2 DEF Shown
<1>4. CASE e.kind = "axis"
  <2>1. AxisMax \in Int
    BY SourceAssumption DEF SourceAssumption, AxisMax
  <2>2. \A a \in Int, b \in Int : b > 0 => Round(a, b) \in Int
    BY DEF Round
  <2>3. \A a \in Int : Clamp(a, -AxisMax - 1, AxisMax) \in Int
    BY <2>1 DEF Clamp
  <2> DEFINE a == (raw - e.min) * (2 * AxisMax + 1) - (AxisMax + 1) * (e.max - e.min)
             b == e.max - e.min
  <2>4. a \in Int /\ b \in Int
    BY <1>1, <2>1
  <2>5. e.max > e.min => b > 0
    BY <1>1
  <2> HIDE DEF a, b
  <2>6. e.max > e.min => Clamp(Round(a, b), -AxisMax - 1, AxisMax) \in Int
    BY <2>2, <2>3, <2>4, <2>5
  <2>7. e.max > e.min => Shown(e, raw, old) = Clamp(Round(a, b), -AxisMax - 1, AxisMax)
    BY <1>4 DEF Shown, a, b
  <2>8. ~(e.max > e.min) => Shown(e, raw, old) = old
    BY <1>4 DEF Shown
  <2> QED BY <2>6, <2>7, <2>8
<1> QED BY <1>1, <1>2, <1>3, <1>4 DEF Kinds

\* To show a value again changes nothing.
LEMMA ShownAgain ==
  ASSUME NEW e \in Elements, NEW raw, NEW old
  PROVE  Shown(e, raw, Shown(e, raw, old)) = Shown(e, raw, old)
<1>1. e.kind \in Kinds
  BY ElementAssumption DEF ElementAssumption
<1>2. CASE e.kind = "axis" /\ e.max > e.min
  BY <1>2 DEF Shown
<1>3. CASE e.kind = "axis" /\ ~(e.max > e.min)
  BY <1>3 DEF Shown
<1>4. CASE e.kind \in {"button", "hat"}
  BY <1>4 DEF Shown
<1> QED BY <1>1, <1>2, <1>3, <1>4 DEF Kinds

\* The next number of a sequence is one, and is newer.
LEMMA NextIsNewer ==
  ASSUME NEW s \in Sequences
  PROVE  /\ (s + 1) % SequenceModulus \in Sequences
         /\ Newer((s + 1) % SequenceModulus, s)
<1>1. SequenceModulus \in Nat /\ SequenceModulus > 2
  BY SourceAssumption DEF SourceAssumption
<1>2. /\ (s + 1) % SequenceModulus \in 0..(SequenceModulus - 1)
      /\ (((s + 1) % SequenceModulus) - s) % SequenceModulus = 1
  BY <1>1 DEF Sequences
<1>3. 1 \in 1..((SequenceModulus - 1) \div 2)
  BY <1>1
<1> QED BY <1>2, <1>3 DEF Sequences, Newer

LEMMA IdsAreApart ==
  ASSUME NEW d1 \in Devices, NEW d2 \in Devices, DeviceId(d1) = DeviceId(d2)
  PROVE  d1 = d2
BY SourceAssumption DEF SourceAssumption

-----------------------------------------------------------------------------
(* The callbacks, before their handlers run.                               *)

LEMMA InvInit == Init => IInv
<1> SUFFICES ASSUME Init PROVE IInv
  OBVIOUS
<1> USE DEF Init, NoCallback, Nothing
<1>1. DOMAIN devices = {} /\ DOMAIN controllers = {}
  OBVIOUS
<1>2. TypeInv
  <2>1. <<>> \in [DOMAIN <<>> -> Source] /\ <<>> \in [DOMAIN <<>> -> Controller]
    OBVIOUS
  <2> QED BY <1>1, <2>1 DEF TypeInv
<1>3. CallbackInv
  BY DEF CallbackInv
<1>4. RetainsMatchBindings
  BY <1>1 DEF RetainsMatchBindings
<1>5. TablesInv /\ SequenceInv /\ ShownInv
  BY <1>1 DEF TablesInv, SequenceInv, ShownInv, Told
<1>6. LastInv /\ StateShowsElements
  BY <1>1 DEF LastInv, StateShowsElements
<1> QED BY <1>2, <1>3, <1>4, <1>5, <1>6 DEF IInv

LEMMA AddStep ==
  ASSUME IInv, NEW device \in Devices, DeviceAdded(device)
  PROVE  IInv'
<1> USE DEF IInv, DeviceAdded, QueueFree, Wanted, sourceVars, runtimeVars
<1>1. /\ DOMAIN devices' = DOMAIN devices \cup {device}
      /\ devices'[device] = [sequence |-> 0, state |-> Neutral]
      /\ \A d \in DOMAIN devices : devices'[d] = devices[d]
  BY DEF With
<1>2. /\ callback.handler = "none"
      /\ callback'.handler = "add" /\ callback'.device = device
  BY DEF NoCallback
<1>3. Told = DOMAIN devices /\ Told' = DOMAIN devices /\ ~Gone
  BY <1>1, <1>2 DEF Told, Gone
<1>4. TypeInv'
  <2>1. [sequence |-> 0, state |-> Neutral] \in Source
    BY NeutralType, SourceAssumption DEF SourceAssumption, Source, Sequences
  <2>2. devices' \in [DOMAIN devices' -> Source]
    BY <1>1, <2>1 DEF TypeInv, With
  <2> QED BY <1>1, <2>2 DEF TypeInv
<1>5. CallbackInv'
  BY <1>1, <1>2, <1>3 DEF CallbackInv, TablesInv
<1>6. RetainsMatchBindings'
  BY <1>1 DEF RetainsMatchBindings, Bound
<1>7. TablesInv'
  BY <1>3 DEF TablesInv, Gone
<1>8. SequenceInv' /\ ShownInv'
  BY <1>1, <1>2, <1>3 DEF SequenceInv, ShownInv, Waits
<1>9. LastInv'
  BY <1>1, <1>3 DEF LastInv
<1>10. StateShowsElements'
  BY <1>1, <1>3 DEF StateShowsElements, LastInv
<1> QED BY <1>4, <1>5, <1>6, <1>7, <1>8, <1>9, <1>10

LEMMA RemoveStep ==
  ASSUME IInv, NEW device \in Devices, DeviceRemoved(device)
  PROVE  IInv'
<1> USE DEF IInv, DeviceRemoved, QueueFree, runtimeVars
<1>1. /\ DOMAIN devices' = DOMAIN devices \ {device}
      /\ \A d \in DOMAIN devices' : devices'[d] = devices[d]
  BY DEF Restrict
<1>2. /\ callback.handler = "none"
      /\ callback'.handler = "remove" /\ callback'.device = device
  BY DEF NoCallback
<1>3. Told = DOMAIN devices /\ Told' = DOMAIN devices /\ ~Gone
  BY <1>1, <1>2 DEF Told, Gone
<1>4. TypeInv'
  <2>1. devices' \in [DOMAIN devices' -> Source]
    BY <1>1 DEF TypeInv, Restrict
  <2> QED BY <1>1, <2>1 DEF TypeInv
<1>5. CallbackInv'
  BY <1>1, <1>2 DEF CallbackInv
<1>6. RetainsMatchBindings'
  BY <1>1 DEF RetainsMatchBindings, Bound
<1>7. TablesInv'
  BY <1>3 DEF TablesInv, Gone
<1>8. SequenceInv'
  BY <1>1, <1>2, <1>3 DEF SequenceInv, Waits
<1>9. ShownInv'
  <2>1. /\ callback.handler # "input" /\ callback'.handler # "input"
        /\ UNCHANGED <<controllers, failed, quiet>>
    BY <1>2
  <2>2. ShownInv
    OBVIOUS
  <2> HIDE DEF IInv, DeviceRemoved
  <2> QED BY <1>1, <1>3, <2>1, <2>2 DEF ShownInv, Waits
<1>10. LastInv'
  BY <1>1, <1>3 DEF LastInv
<1>11. StateShowsElements'
  BY <1>1 DEF StateShowsElements
<1> QED BY <1>4, <1>5, <1>6, <1>7, <1>8, <1>9, <1>10, <1>11

LEMMA InputValueStep ==
  ASSUME IInv, NEW e \in Elements, NEW raw \in RawValues, InputValue(e, raw)
  PROVE  IInv'
<1> DEFINE d == e.device
           control == ControlOf(e)
           sequence == (devices[d].sequence + 1) % SequenceModulus
           state == [devices[d].state EXCEPT ![control] = Shown(e, raw, @)]
<1> USE DEF IInv, InputValue, QueueFree, runtimeVars
<1>1. /\ d \in DOMAIN devices /\ d \in Devices /\ e \in Bound[d]
      /\ devices[d] \in Source /\ control \in Controls
  BY ControlType DEF TypeInv
<1>2. /\ devices[d].sequence \in Sequences
      /\ devices[d].state \in States
  BY <1>1 DEF Source
<1>3. /\ sequence \in Sequences
      /\ state \in States
      /\ state[control] = Shown(e, raw, devices[d].state[control])
      /\ \A c \in Controls \ {control} : state[c] = devices[d].state[c]
  BY <1>1, <1>2, NextIsNewer, ShownType DEF States
<1> HIDE DEF state, sequence, control
<1>4. /\ DOMAIN devices' = DOMAIN devices
      /\ devices'[d] = [sequence |-> sequence, state |-> state]
      /\ \A x \in DOMAIN devices \ {d} : devices'[x] = devices[x]
      /\ devices' = [devices EXCEPT ![d] = [sequence |-> sequence, state |-> state]]
  BY <1>1 DEF state, sequence, control
<1>5. /\ callback' = [handler |-> "input", device |-> d,
                      sequence |-> sequence, state |-> state]
      /\ last' = [last EXCEPT ![e] = <<raw>>]
      /\ UNCHANGED <<phase, cancelled, expired, retained, controllers, failed, quiet>>
  BY DEF state, sequence, control, Passed
<1>6. /\ callback = NoCallback /\ callback.handler = "none" /\ ~cancelled
      /\ phase \in {"running", "waiting"}
  BY DEF NoCallback
<1> USE DEF d
<1> HIDE DEF InputValue, QueueFree, d
<1>7. Told = DOMAIN devices /\ Told' = DOMAIN devices /\ ~Gone
  BY <1>4, <1>5, <1>6 DEF Told, Gone
<1>8. TypeInv'
  <2>1. [sequence |-> sequence, state |-> state] \in Source
    BY <1>3 DEF Source
  <2>2. devices' \in [DOMAIN devices' -> Source]
    BY <1>1, <1>4, <2>1 DEF TypeInv
  <2> QED BY <1>4, <1>5, <2>2 DEF TypeInv
<1>9. CallbackInv'
  BY <1>1, <1>4, <1>5, <1>6 DEF CallbackInv
<1>10. RetainsMatchBindings'
  BY <1>4, <1>5 DEF RetainsMatchBindings
<1>11. TablesInv'
  BY <1>5, <1>7 DEF TablesInv, Gone
<1>12. SequenceInv' /\ ShownInv'
  BY <1>4, <1>5, <1>6, <1>7 DEF SequenceInv, ShownInv, Waits, sequence
<1>13. LastInv'
  BY <1>1, <1>4, <1>5, <1>7 DEF LastInv, TypeInv, d
<1>14. StateShowsElements'
  <2> SUFFICES ASSUME NEW f \in Elements, f.device \in DOMAIN devices,
                      f \in Bound[f.device], last'[f] # Nothing
               PROVE  LET shown == devices'[f.device].state[ControlOf(f)]
                      IN  shown = Shown(f, last'[f][1], shown)
    BY <1>4 DEF StateShowsElements
  <2>1. CASE f = e
    <3>1. last'[f] = <<raw>>
      BY <1>5, <2>1 DEF TypeInv
    <3>2. devices'[f.device].state[ControlOf(f)]
            = Shown(e, raw, devices[d].state[control])
      BY <1>3, <1>4, <2>1 DEF d, control
    <3> QED BY <2>1, <3>1, <3>2, ShownAgain
  <2>2. CASE f # e
    <3>1. last'[f] = last[f]
      BY <1>5, <2>2 DEF TypeInv
    <3>2. devices'[f.device].state[ControlOf(f)] = devices[f.device].state[ControlOf(f)]
      <4>1. CASE f.device = d
        <5>1. ControlOf(f) \in Controls \ {control}
          BY <1>1, <2>2, <4>1, ControlType, ControlsAreApart DEF control
        <5> QED BY <1>3, <1>4, <4>1, <5>1
      <4>2. CASE f.device # d
        BY <1>4, <4>2
      <4> QED BY <4>1, <4>2
    <3> QED BY <3>1, <3>2 DEF StateShowsElements
  <2> QED BY <2>1, <2>2
<1> QED BY <1>8, <1>9, <1>10, <1>11, <1>12, <1>13, <1>14


-----------------------------------------------------------------------------
(* The handlers.                                                           *)

\* Under the mutex: add_semantic, for a device that is already in the table.
LEMMA AddSemanticStep ==
  ASSUME IInv, phase # "raced", AddSemantic
  PROVE  IInv'
<1> DEFINE device == callback.device
<1> USE DEF IInv, AddSemantic, Handled, sourceVars
<1>1. /\ device \in DOMAIN devices \ failed /\ device \in Devices
      /\ devices[device].sequence = 0
      /\ DOMAIN devices \subseteq Devices
  BY DEF CallbackInv, TypeInv
<1>2. callback.handler = "add" /\ callback'.handler = "none" /\ callback' = NoCallback
  BY DEF NoCallback
<1>3. /\ Told = DOMAIN devices \ {device} /\ Told' = DOMAIN devices
      /\ ~Gone /\ ~Gone'
  BY <1>2 DEF Told, Gone, CallbackInv, NoCallback
<1>4. UNCHANGED <<phase, cancelled, devices, retained, last>>
  OBVIOUS
<1>5. /\ quiet' = quiet \cup {device}
      /\ \A d \in DOMAIN devices \ {device} : DeviceId(d) # DeviceId(device)
  BY <1>1, IdsAreApart
<1>6. \/ /\ controllers' = With(controllers, DeviceId(device), Fresh(TRUE))
         /\ UNCHANGED failed
      \/ failed' = failed \cup {device} /\ UNCHANGED controllers
  OBVIOUS
<1> HIDE DEF AddSemantic, device
<1>7. CASE /\ controllers' = With(controllers, DeviceId(device), Fresh(TRUE))
           /\ UNCHANGED failed
  <2>1. /\ DOMAIN controllers' = DOMAIN controllers \cup {DeviceId(device)}
        /\ controllers'[DeviceId(device)] = Fresh(TRUE)
        /\ \A id \in DOMAIN controllers \ {DeviceId(device)} :
             controllers'[id] = controllers[id]
    BY <1>7 DEF With
  <2>2. TypeInv'
    <3>1. Fresh(TRUE) \in Controller
      BY SourceAssumption DEF SourceAssumption, Fresh, Controller, Sequences
    <3>2. controllers' \in [DOMAIN controllers' -> Controller]
      BY <1>7, <3>1 DEF TypeInv, With
    <3> QED BY <1>4, <3>2 DEF TypeInv
  <2>3. TablesInv'
    BY <1>1, <1>3, <1>7, <2>1 DEF TablesInv
  <2>4. \A d \in DOMAIN devices \ {device} :
          d \notin failed => DeviceId(d) \in DOMAIN controllers
    BY <1>3 DEF TablesInv
  <2>5. SequenceInv /\ ShownInv
    OBVIOUS
  <2> HIDE DEF IInv
  <2>6. SequenceInv'
    <3> SUFFICES ASSUME NEW d \in DOMAIN devices \ failed
                 PROVE  devices[d].sequence = controllers'[DeviceId(d)].sequence
      BY <1>2, <1>3, <1>4, <1>7 DEF SequenceInv, Waits
    <3>1. CASE d = device
      BY <1>1, <2>1, <3>1 DEF Fresh
    <3>2. CASE d # device
      BY <1>2, <1>3, <1>5, <2>1, <2>5, <2>4, <3>2 DEF SequenceInv, Waits
    <3> QED BY <3>1, <3>2
  <2>7. ShownInv'
    <3> SUFFICES ASSUME NEW d \in DOMAIN devices \ failed,
                        controllers'[DeviceId(d)].live
                 PROVE  controllers'[DeviceId(d)].shown =
                          IF d \in quiet' THEN Nothing ELSE devices[d].state
      BY <1>2, <1>3, <1>4, <1>7 DEF ShownInv, Waits
    <3>1. CASE d = device
      BY <1>5, <2>1, <3>1 DEF Fresh
    <3>2. CASE d # device
      BY <1>2, <1>3, <1>5, <2>1, <2>5, <2>4, <3>2 DEF ShownInv, Waits
    <3> QED BY <3>1, <3>2
  <2> USE DEF IInv
  <2> QED BY <1>2, <1>4, <2>2, <2>3, <2>6, <2>7
      DEF CallbackInv, RetainsMatchBindings, LastInv, StateShowsElements, Gone, NoCallback
<1>8. CASE failed' = failed \cup {device} /\ UNCHANGED controllers
  <2>1. TypeInv'
    BY <1>4, <1>8 DEF TypeInv
  <2>2. TablesInv'
    BY <1>1, <1>3, <1>8 DEF TablesInv
  <2>3. SequenceInv'
    BY <1>2, <1>3, <1>4, <1>5, <1>8 DEF SequenceInv, Waits
  <2>4. ShownInv'
    BY <1>2, <1>3, <1>4, <1>5, <1>8 DEF ShownInv, Waits
  <2> QED BY <1>2, <1>4, <2>1, <2>2, <2>3, <2>4
      DEF CallbackInv, RetainsMatchBindings, LastInv, StateShowsElements, Gone, NoCallback
<1> QED BY <1>6, <1>7, <1>8

\* Runtime's filter lets every value through, as it is the next one.
LEMMA InputStep ==
  ASSUME IInv, phase # "raced", Input
  PROVE  IInv'
<1> DEFINE device == callback.device
           id == DeviceId(device)
<1> USE DEF IInv, Input, Handled, sourceVars
<1>1. /\ device \in DOMAIN devices /\ device \in Devices
      /\ callback.sequence = devices[device].sequence
      /\ callback.state = devices[device].state
      /\ devices[device] \in Source
      /\ DOMAIN devices \subseteq Devices
  BY DEF CallbackInv, TypeInv
<1>2. callback'.handler = "none" /\ callback' = NoCallback
  BY DEF NoCallback
<1>3. /\ Told = DOMAIN devices /\ Told' = DOMAIN devices
      /\ ~Gone /\ ~Gone'
  BY <1>2 DEF Told, Gone, CallbackInv, NoCallback
<1>4. /\ UNCHANGED <<phase, cancelled, devices, retained, last, failed>>
      /\ quiet' = quiet \ {device}
  OBVIOUS
<1>5. CASE device \in failed
  <2>1. id \notin DOMAIN controllers
    BY <1>1, <1>3, <1>5, IdsAreApart DEF TablesInv
  <2>2. UNCHANGED controllers
    BY <2>1
  <2>3. TypeInv'
    BY <1>4, <2>2 DEF TypeInv
  <2>4. TablesInv' /\ SequenceInv' /\ ShownInv'
    BY <1>2, <1>3, <1>4, <1>5, <2>2 DEF TablesInv, SequenceInv, ShownInv, Waits
  <2> QED BY <1>2, <1>4, <2>3, <2>4
      DEF CallbackInv, RetainsMatchBindings, LastInv, StateShowsElements, Gone, NoCallback
<1>6. CASE device \notin failed
  <2>1. /\ id \in DOMAIN controllers
        /\ controllers[id] \in Controller
    BY <1>1, <1>3, <1>6 DEF TablesInv, TypeInv
  <2>2. callback.sequence = (controllers[id].sequence + 1) % SequenceModulus
    BY <1>1, <1>3, <1>6 DEF SequenceInv, Waits
  <2>3. /\ controllers[id].sequence \in Sequences
        /\ callback.sequence \in Sequences /\ callback.state \in States
    BY <1>1, <2>1 DEF Controller, Source
  <2>4. Newer(callback.sequence, controllers[id].sequence)
    BY <2>2, <2>3, NextIsNewer
  <2> DEFINE shown == IF controllers[id].live THEN callback.state
                      ELSE controllers[id].shown
  <2>5. controllers' = [controllers EXCEPT
          ![id].started = TRUE, ![id].sequence = callback.sequence,
          ![id].shown = shown]
    BY <2>1, <2>4
  <2>6. /\ DOMAIN controllers' = DOMAIN controllers
        /\ controllers'[id].live = controllers[id].live
        /\ controllers'[id].sequence = callback.sequence
        /\ controllers'[id].shown = shown
        /\ \A other \in DOMAIN controllers \ {id} :
             controllers'[other] = controllers[other]
    BY <2>1, <2>5 DEF Controller
  <2>7. TypeInv'
    <3>1. controllers'[id] \in Controller
      BY <2>1, <2>3, <2>5 DEF Controller
    <3>2. controllers' \in [DOMAIN controllers' -> Controller]
      BY <2>5, <2>6, <3>1 DEF TypeInv
    <3> QED BY <1>4, <3>2 DEF TypeInv
  <2>8. TablesInv'
    BY <1>3, <1>4, <2>6 DEF TablesInv
  <2>9. \A d \in DOMAIN devices \ {device} :
          d \notin failed => /\ DeviceId(d) \in DOMAIN controllers
                             /\ DeviceId(d) # id
    BY <1>1, <1>3, IdsAreApart DEF TablesInv
  <2>10. SequenceInv'
    BY <1>1, <1>2, <1>3, <1>4, <2>6, <2>9 DEF SequenceInv, Waits
  <2>11. ShownInv'
    BY <1>1, <1>2, <1>3, <1>4, <2>6, <2>9 DEF ShownInv, Waits
  <2> QED BY <1>2, <1>4, <2>7, <2>8, <2>10, <2>11
      DEF CallbackInv, RetainsMatchBindings, LastInv, StateShowsElements, Gone, NoCallback
<1> QED BY <1>5, <1>6

LEMMA RemoveHandlerStep ==
  ASSUME IInv, phase # "raced", Remove
  PROVE  IInv'
<1> DEFINE device == callback.device
<1> USE DEF IInv, Remove, Handled, sourceVars
<1>1. /\ device \in Devices \ DOMAIN devices
      /\ DOMAIN devices \subseteq Devices
  BY DEF CallbackInv, TypeInv
<1>2. callback'.handler = "none" /\ callback' = NoCallback
  BY DEF NoCallback
<1>3. /\ Told = DOMAIN devices \cup {device} /\ Told' = DOMAIN devices
      /\ ~Gone /\ ~Gone'
  BY <1>2 DEF Told, Gone, CallbackInv, NoCallback
<1>4. /\ UNCHANGED <<phase, cancelled, devices, retained, last>>
      /\ failed' = failed \ {device} /\ quiet' = quiet \ {device}
      /\ controllers' = Without(DeviceId(device))
  OBVIOUS
<1>5. \A d \in DOMAIN devices : DeviceId(d) # DeviceId(device)
  BY <1>1, IdsAreApart
<1>6. /\ DOMAIN controllers' = DOMAIN controllers \ {DeviceId(device)}
      /\ \A id \in DOMAIN controllers' : controllers'[id] = controllers[id]
  BY <1>4 DEF Without, Restrict
<1>7. TypeInv'
  <2>1. controllers' \in [DOMAIN controllers' -> Controller]
    BY <1>4, <1>6 DEF TypeInv, Without, Restrict
  <2> QED BY <1>4, <2>1 DEF TypeInv
<1>8. TablesInv'
  BY <1>1, <1>3, <1>4, <1>5, <1>6 DEF TablesInv
<1>9. \A d \in DOMAIN devices \ failed : DeviceId(d) \in DOMAIN controllers'
  BY <1>3, <1>5, <1>6 DEF TablesInv
<1>10. SequenceInv'
  BY <1>1, <1>2, <1>3, <1>4, <1>6, <1>9 DEF SequenceInv, Waits
<1>11. ShownInv'
  BY <1>1, <1>2, <1>3, <1>4, <1>6, <1>9 DEF ShownInv, Waits
<1> QED BY <1>2, <1>4, <1>7, <1>8, <1>10, <1>11
    DEF CallbackInv, RetainsMatchBindings, LastInv, StateShowsElements, Gone, NoCallback

-----------------------------------------------------------------------------
(* main.                                                                   *)

LEMMA RebuildStep ==
  ASSUME IInv, NEW id \in DOMAIN controllers, Rebuild(id)
  PROVE  IInv'
<1> USE DEF IInv, Rebuild, sourceVars
<1>1. PICK live \in BOOLEAN :
        controllers' = [controllers EXCEPT ![id].live = live,
                                           ![id].shown = Nothing]
  OBVIOUS
<1>2. /\ UNCHANGED <<phase, cancelled, devices, retained, last, callback, failed>>
      /\ quiet' = quiet \cup {d \in DOMAIN devices : DeviceId(d) = id}
  OBVIOUS
<1>3. Told' = Told /\ ~Gone /\ ~Gone'
  BY <1>2 DEF Told, Gone
<1>4. controllers[id] \in Controller
  BY DEF TypeInv
<1>5. /\ DOMAIN controllers' = DOMAIN controllers
      /\ controllers'[id].sequence = controllers[id].sequence
      /\ controllers'[id].shown = Nothing
      /\ \A other \in DOMAIN controllers \ {id} :
           controllers'[other] = controllers[other]
  BY <1>1, <1>4 DEF Controller
<1>6. TypeInv'
  <2>1. controllers'[id] \in Controller
    BY <1>1, <1>4 DEF Controller
  <2>2. controllers' \in [DOMAIN controllers' -> Controller]
    BY <1>1, <1>5, <2>1 DEF TypeInv
  <2> QED BY <1>2, <2>2 DEF TypeInv
<1>7. TablesInv'
  BY <1>2, <1>3, <1>5 DEF TablesInv
<1>8. \A d \in (Told \cap DOMAIN devices) \ failed : DeviceId(d) \in DOMAIN controllers
  BY <1>3 DEF TablesInv
<1> HIDE DEF Rebuild
<1>9. SequenceInv'
  BY <1>2, <1>3, <1>5, <1>8 DEF SequenceInv, Waits
<1>10. ShownInv'
  BY <1>2, <1>3, <1>5, <1>8 DEF ShownInv, Waits
<1> QED BY <1>2, <1>6, <1>7, <1>9, <1>10
    DEF CallbackInv, RetainsMatchBindings, LastInv, StateShowsElements, Gone, NoCallback

\* What only moves main, or the queue's end, on.
LEMMA PhaseStep ==
  ASSUME IInv, Start \/ Reset \/ CancelHandler \/ Free \/ Ended
  PROVE  IInv'
<1> USE DEF IInv, Start, Reset, CancelHandler, Free, Ended, sourceVars, runtimeVars, vars
<1>1. UNCHANGED <<devices, retained, last, callback, controllers, failed, quiet>>
  OBVIOUS
<1>2. Told' = Told /\ (Gone => Gone' \/ phase = "freed")
  BY <1>1 DEF Told, Gone
<1>3. TypeInv'
  BY <1>1 DEF TypeInv
<1>4. CallbackInv'
  BY <1>1 DEF CallbackInv, NoCallback
<1>5. TablesInv' /\ LastInv'
  BY <1>1, <1>2 DEF TablesInv, LastInv, Gone
<1> HIDE DEF Start, Reset, CancelHandler, Free, Ended
<1>6. SequenceInv' /\ ShownInv'
  BY <1>1, <1>2 DEF SequenceInv, ShownInv, Waits
<1>7. RetainsMatchBindings' /\ StateShowsElements'
  BY <1>1 DEF RetainsMatchBindings, StateShowsElements
<1> QED BY <1>3, <1>4, <1>5, <1>6, <1>7

\* clear_devices, waited for or not.
LEMMA ClearStep ==
  ASSUME IInv, ClearDevices \/ WaitExpires
  PROVE  IInv'
<1> USE DEF IInv, ClearDevices, WaitExpires, WaitOver, sourceVars, runtimeVars
<1>1. CASE phase' = "raced" /\ callback # NoCallback /\ UNCHANGED <<devices, retained>>
  <2>1. /\ UNCHANGED <<cancelled, devices, retained, last, callback, controllers,
                       failed, quiet>>
        /\ Told' = Told /\ ~Gone
    BY <1>1 DEF Told, Gone, Cleared
  <2> HIDE DEF ClearDevices, WaitExpires
  <2>2. TypeInv' /\ CallbackInv' /\ TablesInv' /\ LastInv'
    BY <1>1, <2>1 DEF TypeInv, CallbackInv, TablesInv, LastInv, NoCallback
  <2>3. SequenceInv' /\ ShownInv'
    BY <2>1 DEF SequenceInv, ShownInv, Waits
  <2> QED BY <2>1, <2>2, <2>3 DEF RetainsMatchBindings, StateShowsElements
<1>2. CASE Cleared /\ callback = NoCallback
  <2> USE DEF Cleared
  <2>1. DOMAIN devices' = {} /\ phase' = "cleared"
    BY <1>2 DEF Nothing
  <2>2. TypeInv'
    <3>1. <<>> \in [DOMAIN <<>> -> Source]
      OBVIOUS
    <3> QED BY <1>2, <2>1, <3>1 DEF TypeInv, Nothing
  <2>3. CallbackInv'
    BY <1>2, <2>1 DEF CallbackInv, NoCallback
  <2>4. RetainsMatchBindings'
    BY <1>2, <2>1 DEF RetainsMatchBindings
  <2>5. TablesInv' /\ LastInv' /\ SequenceInv' /\ ShownInv' /\ StateShowsElements'
    BY <2>1 DEF TablesInv, LastInv, SequenceInv, ShownInv, StateShowsElements, Gone
  <2> QED BY <2>2, <2>3, <2>4, <2>5
<1>3. ClearDevices => callback = NoCallback
  BY DEF CallbackInv
<1> QED BY <1>1, <1>2, <1>3

-----------------------------------------------------------------------------
(* The theorems.                                                           *)

\* IInv is inductive.
LEMMA InvStep == IInv /\ [Next]_vars => IInv'
<1> SUFFICES ASSUME IInv, [Next]_vars PROVE IInv'
  OBVIOUS
<1>1. CASE \E device \in Devices : DeviceAdded(device) \/ DeviceRemoved(device)
  BY <1>1, AddStep, RemoveStep
<1>2. CASE \E e \in Elements, raw \in RawValues : InputValue(e, raw)
  BY <1>2, InputValueStep
<1>3. CASE Handler
  BY <1>3, AddSemanticStep, InputStep, RemoveHandlerStep DEF Handler
<1>4. CASE \E id \in DOMAIN controllers : Rebuild(id)
  BY <1>4, RebuildStep
<1>5. CASE Start \/ Reset \/ CancelHandler \/ Free \/ Ended
  BY <1>5, PhaseStep
<1>6. CASE ClearDevices \/ WaitExpires
  BY <1>6, ClearStep
<1>7. CASE UNCHANGED vars
  BY <1>7, PhaseStep DEF Ended, vars, sourceVars, runtimeVars, IInv, TypeInv,
     CallbackInv, RetainsMatchBindings, TablesInv, SequenceInv, ShownInv, LastInv,
     StateShowsElements, Told, Gone, Waits
<1> QED BY <1>1, <1>2, <1>3, <1>4, <1>5, <1>6, <1>7 DEF Next

THEOREM Invariant == Spec => []IInv
<1>1. Init => IInv
  BY InvInit
<1>2. IInv /\ [Next]_vars => IInv'
  BY InvStep
<1> QED BY <1>1, <1>2, PTL DEF Spec

\* Whatever is plugged in and out, clear_devices and the callbacks release what
\* install retained, once.
THEOREM RetainsAreMatched == Spec => []RetainsMatchBindings
<1>1. IInv => RetainsMatchBindings
  BY DEF IInv
<1> QED BY <1>1, Invariant, PTL

\* Between two callbacks the table of the source and that of Runtime agree, for
\* any devices with different ids.
THEOREM TablesAgree == Spec => []ControllersFollowDevices
<1>1. IInv => ControllersFollowDevices
  BY DEF IInv, TablesInv, ControllersFollowDevices, Gone, Told, NoCallback
<1> QED BY <1>1, Invariant, PTL

\* No value is held back by the filter of sequences, of any modulus above two.
THEOREM ValuesArriveInOrder == Spec => []ShownIsCurrent
<1>1. IInv => ShownIsCurrent
  <2> SUFFICES ASSUME IInv, phase \in {"running", "waiting"}, callback = NoCallback
               PROVE  ShownIsCurrent
    BY DEF ShownIsCurrent
  <2>1. callback.handler = "none" /\ Told = DOMAIN devices
    BY DEF NoCallback, Told
  <2> QED BY <2>1 DEF IInv, ShownInv, ShownIsCurrent, Waits
<1> QED BY <1>1, Invariant, PTL

\* The places install gives out are different ones and have room in the state.
THEOREM ElementsKeepTheirPlaces == Spec => []StateShowsElements
<1>1. IInv => StateShowsElements
  BY DEF IInv
<1> QED BY <1>1, Invariant, PTL

\* After the wait for the cancel handler no callback is in progress.
THEOREM FreedWhenQuiet == Spec => []NothingRunsAfterFree
<1>1. IInv => NothingRunsAfterFree
  BY DEF IInv, CallbackInv, NothingRunsAfterFree
<1> QED BY <1>1, Invariant, PTL

================================================================================

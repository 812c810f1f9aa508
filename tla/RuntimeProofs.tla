------------------------------ MODULE RuntimeProofs ------------------------------
(***************************************************************************)
(* Proofs about Runtime, for any ids, profiles and bounds.                 *)
(***************************************************************************)
EXTENDS Runtime, FiniteSets, FiniteSetTheorems, TLAPS

\* A controller's device is live and was published for it.
TableInv ==
  \A id \in Ids :
    LET c == controllers[id]
    IN c.device # NoDevice =>
         /\ c.present
         /\ device[c.device].state = "live"
         /\ device[c.device].id = id
         /\ device[c.device].profile = c.profile

\* The first born devices exist; a live one has a controller, or is the one
\* about to be destroyed.
DeviceInv ==
  \A d \in DeviceIds :
    /\ d > born <=> device[d].state = "unborn"
    /\ d > born => device[d].handler = "idle"
    /\ device[d].state = "live" =>
         \/ \E id \in Ids : controllers[id].device = d
         \/ step = "cancel" /\ doomed = d

\* The device being destroyed belongs to no controller any more.
DoomedInv ==
  /\ step \in {"idle", "pick", "create"} => doomed = NoDevice
  /\ step \in {"cancel", "wait"} =>
       /\ doomed \in DeviceIds
       /\ device[doomed].state = IF step = "cancel" THEN "live" ELSE "cancelled"
       /\ \A id \in Ids : controllers[id].device # doomed

Rebuilding == op \in {"all", "one"}

\* What a profile change still has to do: the controllers left, and the one
\* without a device meanwhile.
RebuildInv ==
  /\ step = "pick" => Rebuilding
  /\ step = "create" => Rebuilding \/ op = "add"
  /\ Rebuilding /\ step # "idle" =>
       /\ wanted # NoProfile
       /\ \A id \in todo : Decoded(id)
       /\ step # "pick" =>
            /\ target \notin todo
            /\ Decoded(target)
            /\ controllers[target].device = NoDevice

\* A profile change for all has given every controller it is done with the
\* new profile, unless that has no device.
ReachedInv ==
  op = "all" /\ step # "idle" =>
    /\ wanted = setting
    /\ \A id \in Ids \ todo :
         Decoded(id) /\ controllers[id].device # NoDevice =>
           controllers[id].profile = setting

\* Handlers that have not drawn their number.
Unnumbered == {d \in DeviceIds : device[d].handler \in {"entering", "drawing"}}

NumberInv ==
  /\ sequence + Cardinality(Unnumbered) <= written
  /\ \A d \in DeviceIds : device[d].number <= sequence

\* The inductive invariant.
IInv ==
  /\ TypeOK
  /\ TableInv
  /\ DeviceInv
  /\ DoomedInv
  /\ RebuildInv
  /\ ReachedInv
  /\ RemovedIsSilent
  /\ NumberInv

-----------------------------------------------------------------------------

\* A step of the handler of device d.
HandlerStep(d) ==
  \/ HostWrites(d)
  \/ \E forwards \in BOOLEAN : Lookup(d, forwards)
  \/ DrawSequence(d)
  \/ SendToSource(d)

\* What a handler does leaves the table and the operation alone, and of the
\* devices everything but its own progress.
Frame(d) ==
  /\ UNCHANGED <<controllers, setting, born, step, op, target, wanted, todo, doomed>>
  /\ \A e \in DeviceIds :
       /\ device'[e].state = device[e].state
       /\ device'[e].id = device[e].id
       /\ device'[e].profile = device[e].profile
  /\ \A e \in DeviceIds \ {d} : device'[e] = device[e]
  /\ device[d].state = "unborn" /\ device[d].handler = "idle" =>
       device'[d].handler = "idle"
  /\ device'[d].handler \in {"drawing", "sending"} /\ device'[d].own =>
       \/ device[d].handler \in {"drawing", "sending"} /\ device[d].own
       \/ device[d].state = "live"

LEMMA HandlerFrame ==
  ASSUME TypeOK, NEW d \in DeviceIds, HandlerStep(d)
  PROVE  Frame(d)
<1> USE DEF TypeOK, Device, Frame, table, operation, host
<1>1. CASE HostWrites(d)
  BY <1>1 DEF HostWrites
<1>2. ASSUME NEW forwards \in BOOLEAN, Lookup(d, forwards)
      PROVE  Frame(d)
  BY <1>2 DEF Lookup
<1>3. CASE DrawSequence(d)
  BY <1>3 DEF DrawSequence
<1>4. CASE SendToSource(d)
  BY <1>4 DEF SendToSource
<1>. QED
  BY <1>1, <1>2, <1>3, <1>4 DEF HandlerStep

\* DeviceIds is finite, and so are the handlers without a number.
LEMMA UnnumberedFinite ==
  IsFiniteSet(Unnumbered) /\ Cardinality(Unnumbered) \in Nat
<1>1. IsFiniteSet(DeviceIds)
  BY RuntimeAssumption, FS_Interval DEF DeviceIds
<1>2. Unnumbered \subseteq DeviceIds
  BY DEF Unnumbered
<1>. QED
  <2>1. Unnumbered \in SUBSET DeviceIds
    BY <1>2
  <2>2. IsFiniteSet(Unnumbered)
    BY <1>1, <2>1, FS_Subset
  <2>. QED
    BY <2>2, FS_CardinalityType

\* A handler about to draw a number has a report for which none was drawn.
LEMMA DrawBound ==
  ASSUME IInv, NEW d \in DeviceIds, DrawSequence(d)
  PROVE  sequence + 1 \in 0..MaxReports
<1>1. d \in Unnumbered
  BY DEF DrawSequence, Unnumbered
<1>2. Cardinality(Unnumbered) # 0
  BY <1>1, UnnumberedFinite, FS_EmptySet
<1>. QED
  BY <1>2, UnnumberedFinite, RuntimeAssumption DEF IInv, TypeOK, NumberInv

\* Create gives target the new device, and touches nothing else.
Created ==
  /\ born + 1 \in DeviceIds
  /\ born' = born + 1
  /\ device'[born + 1].state = "live"
  /\ device'[born + 1].id = target
  /\ device'[born + 1].profile = wanted
  /\ device'[born + 1].handler = "idle"
  /\ \A d \in DeviceIds \ {born + 1} : device'[d] = device[d]
  /\ controllers'[target].present
  /\ controllers'[target].device = born + 1
  /\ controllers'[target].profile = wanted
  /\ \A id \in Ids \ {target} : controllers'[id] = controllers[id]
  /\ \A id \in Ids : controllers[id].device # born + 1

LEMMA CreateFrame == ASSUME IInv, Create PROVE Created
<1> USE RuntimeAssumption DEF IInv, TypeOK
<1>1. born + 1 \in DeviceIds /\ born' = born + 1
  BY DEF Create, DeviceIds
<1>2. device'[born + 1] =
        [state |-> "live", id |-> target, profile |-> wanted, handler |-> "idle",
         report |-> 0, number |-> 0, own |-> FALSE]
  BY <1>1 DEF Create
<1>3. \A d \in DeviceIds \ {born + 1} : device'[d] = device[d]
  BY <1>1 DEF Create
<1>4. device[born + 1].state = "unborn"
  BY <1>1 DEF DeviceInv
<1>5. \A id \in Ids : controllers[id].device # born + 1
  <2>1. born + 1 # NoDevice
    BY DEF NoDevice
  <2>. QED
    BY <1>4, <2>1 DEF TableInv
<1>6. CASE op = "add"
  <2>1. controllers' = [controllers EXCEPT ![target] =
          [present |-> TRUE, profile |-> wanted, device |-> born + 1]]
    BY <1>6 DEF Create
  <2>. QED
    BY <1>1, <1>2, <1>3, <1>5, <2>1 DEF Created
<1>7. CASE op # "add"
  <2>1. controllers[target].present
    BY <1>7 DEF RebuildInv, Create, Decoded
  <2>2. controllers[target] \in Controller
    OBVIOUS
  <2>3. controllers' = [controllers EXCEPT
          ![target] = Rebuilt(controllers[target], born + 1)]
    BY <1>7 DEF Create
  <2>4. /\ controllers'[target].present
        /\ controllers'[target].device = born + 1
        /\ controllers'[target].profile = wanted
    BY <2>1, <2>2, <2>3 DEF Rebuilt, Controller
  <2>5. \A id \in Ids \ {target} : controllers'[id] = controllers[id]
    BY <2>3
  <2>. QED
    BY <1>1, <1>2, <1>3, <1>5, <2>4, <2>5 DEF Created
<1>. QED
  BY <1>6, <1>7

\* Types of the devices.
LEMMA DeviceTypeStep == IInv /\ [Next]_vars => device' \in [DeviceIds -> Device]
<1> SUFFICES ASSUME IInv, [Next]_vars PROVE device' \in [DeviceIds -> Device]
  OBVIOUS
<1> USE RuntimeAssumption DEF IInv, TypeOK
<1>1. ASSUME NEW d \in DeviceIds, NEW r \in Device, device' = [device EXCEPT ![d] = r]
      PROVE  device' \in [DeviceIds -> Device]
  BY <1>1
<1>2. CASE Create
  <2>1. [state |-> "live", id |-> target, profile |-> wanted, handler |-> "idle",
         report |-> 0, number |-> 0, own |-> FALSE] \in Device
    BY DEF Device
  <2>2. born + 1 \in DeviceIds
    BY <1>2 DEF Create, DeviceIds
  <2>. QED
    BY <1>1, <1>2, <2>1, <2>2 DEF Create
<1>3. CASE Cancel
  <2>1. doomed \in DeviceIds
    BY <1>3 DEF Cancel, DoomedInv
  <2>2. [device[doomed] EXCEPT !.state = "cancelled"] \in Device
    BY <2>1 DEF Device
  <2>. QED
    BY <1>1, <1>3, <2>1, <2>2 DEF Cancel
<1>4. CASE Free
  <2>1. doomed \in DeviceIds
    BY <1>4 DEF Free, DoomedInv
  <2>2. [device[doomed] EXCEPT !.state = "freed"] \in Device
    BY <2>1 DEF Device
  <2>. QED
    BY <1>1, <1>4, <2>1, <2>2 DEF Free
<1>5. ASSUME NEW d \in DeviceIds, HostWrites(d)
      PROVE  device' \in [DeviceIds -> Device]
  <2>1. written + 1 \in 0..MaxReports
    BY <1>5 DEF HostWrites
  <2>2. [device[d] EXCEPT !.handler = "entering", !.report = written + 1] \in Device
    BY <2>1 DEF Device
  <2>. QED
    BY <1>1, <1>5, <2>2 DEF HostWrites
<1>6. ASSUME NEW d \in DeviceIds, NEW forwards \in BOOLEAN, Lookup(d, forwards)
      PROVE  device' \in [DeviceIds -> Device]
  <2>1. PICK r : r = [device[d] EXCEPT
          !.handler = IF forwards THEN "drawing" ELSE "idle",
          !.own = forwards /\ device[d].state = "live"]
    OBVIOUS
  <2>2. r \in Device
    BY <2>1 DEF Device
  <2>. QED
    BY <1>1, <1>6, <2>1, <2>2 DEF Lookup
<1>7. ASSUME NEW d \in DeviceIds, DrawSequence(d)
      PROVE  device' \in [DeviceIds -> Device]
  <2>1. sequence + 1 \in 0..MaxReports
    BY <1>7, DrawBound
  <2>2. [device[d] EXCEPT !.handler = "sending", !.number = sequence + 1] \in Device
    BY <2>1 DEF Device
  <2>. QED
    BY <1>1, <1>7, <2>2 DEF DrawSequence
<1>8. ASSUME NEW d \in DeviceIds, SendToSource(d)
      PROVE  device' \in [DeviceIds -> Device]
  <2>1. [device[d] EXCEPT !.handler = "idle", !.own = FALSE] \in Device
    BY DEF Device
  <2>. QED
    BY <1>1, <1>8, <2>1 DEF SendToSource
<1>9. CASE UNCHANGED device
  BY <1>9
<1>10. ASSUME Next, ~Create, ~Cancel, ~Free, ~Handler PROVE UNCHANGED device
  BY <1>10 DEF Next, Operation, Add, Remove, SetAll, SetOne, Pick, CreateFails
<1>. QED
  BY <1>2, <1>3, <1>4, <1>5, <1>6, <1>7, <1>8, <1>9, <1>10 DEF Next, Handler,
        vars

\* A controller keeps a live device of its own.
LEMMA TableInvStep == IInv /\ [Next]_vars => TableInv'
<1> SUFFICES ASSUME IInv, [Next]_vars PROVE TableInv'
  OBVIOUS
<1> USE RuntimeAssumption DEF IInv, TypeOK, Controller, DeviceIds, NoDevice,
      vars, table, operation, host, TableInv, DeviceInv, DoomedInv, RebuildInv,
      Decoded
<1>1. ASSUME NEW id \in Ids, NEW profile \in Profiles \cup {NoProfile},
             Add(id, profile)
      PROVE  TableInv'
  BY <1>1 DEF Add, MutexFree
<1>2. ASSUME NEW id \in Ids, Remove(id) PROVE TableInv'
  BY <1>2 DEF Remove, MutexFree, NoController
<1>3. ASSUME NEW profile \in Profiles, SetAll(profile) PROVE TableInv'
  BY <1>3 DEF SetAll, MutexFree
<1>4. ASSUME NEW id \in Ids, NEW profile \in Profiles, SetOne(id, profile)
      PROVE  TableInv'
  BY <1>4 DEF SetOne, MutexFree
<1>5. ASSUME NEW id \in Ids, Pick(id) PROVE TableInv'
  BY <1>5 DEF Pick
<1>6. ASSUME Create PROVE TableInv'
  <2>1. Created
    BY <1>6, CreateFrame
  <2>2. target \in Ids
    OBVIOUS
  <2>3. \A id \in Ids \ {target} :
          /\ controllers'[id] = controllers[id]
          /\ controllers[id].device # NoDevice =>
               device'[controllers[id].device] = device[controllers[id].device]
    BY <2>1 DEF Created
  <2>4. /\ controllers'[target].device = born + 1
        /\ controllers'[target].present
        /\ controllers'[target].profile = wanted
        /\ device'[born + 1].state = "live"
        /\ device'[born + 1].id = target
        /\ device'[born + 1].profile = wanted
    BY <2>1 DEF Created
  <2>. QED
    BY <2>2, <2>3, <2>4
<1>7. ASSUME CreateFails PROVE TableInv'
  BY <1>7 DEF CreateFails, NextRebuild
<1>8. ASSUME Cancel PROVE TableInv'
  BY <1>8 DEF Cancel
<1>9. ASSUME Free PROVE TableInv'
  BY <1>9 DEF Free, WaitOver
<1>10. ASSUME NEW d \in DeviceIds, HandlerStep(d) PROVE TableInv'
  <2>1. /\ controllers' = controllers
        /\ \A e \in DeviceIds :
             /\ device'[e].state = device[e].state
             /\ device'[e].id = device[e].id
             /\ device'[e].profile = device[e].profile
    BY <1>10, HandlerFrame DEF Frame
  <2>. QED
    BY <2>1
<1>11. CASE UNCHANGED vars
  BY <1>11
<1>. QED
  BY <1>1, <1>2, <1>3, <1>4, <1>5, <1>6, <1>7, <1>8, <1>9, <1>10, <1>11
  DEF Next, Operation, Handler, HandlerStep

\* No step leaks a device.
LEMMA DeviceInvStep == IInv /\ [Next]_vars => DeviceInv'
<1> SUFFICES ASSUME IInv, [Next]_vars PROVE DeviceInv'
  OBVIOUS
<1> USE RuntimeAssumption DEF IInv, TypeOK, Controller, DeviceIds, NoDevice,
      vars, table, operation, host, DeviceInv, DoomedInv, TableInv, RebuildInv
<1>1. ASSUME NEW id \in Ids, NEW profile \in Profiles \cup {NoProfile},
             Add(id, profile)
      PROVE  DeviceInv'
  BY <1>1 DEF Add, MutexFree
<1>2. ASSUME NEW id \in Ids, Remove(id) PROVE DeviceInv'
  BY <1>2 DEF Remove, MutexFree, NoController
<1>3. ASSUME NEW profile \in Profiles, SetAll(profile) PROVE DeviceInv'
  BY <1>3 DEF SetAll, MutexFree
<1>4. ASSUME NEW id \in Ids, NEW profile \in Profiles, SetOne(id, profile)
      PROVE  DeviceInv'
  BY <1>4 DEF SetOne, MutexFree
<1>5. ASSUME NEW id \in Ids, Pick(id) PROVE DeviceInv'
  BY <1>5 DEF Pick
<1>6. ASSUME Create PROVE DeviceInv'
  <2>1. Created
    BY <1>6, CreateFrame
  <2>2. ASSUME NEW d \in DeviceIds
        PROVE  /\ d > born' <=> device'[d].state = "unborn"
               /\ d > born' => device'[d].handler = "idle"
    <3>1. CASE d = born + 1
      BY <2>1, <3>1 DEF Created
    <3>2. CASE d # born + 1
      <4>1. device'[d] = device[d]
        BY <2>1, <3>2 DEF Created
      <4>2. d > born' <=> d > born
        BY <2>1, <3>2 DEF Created
      <4>. QED
        BY <4>1, <4>2
    <3>. QED
      BY <3>1, <3>2
  <2>3. ASSUME NEW d \in DeviceIds, device'[d].state = "live"
        PROVE  \/ \E id \in Ids : controllers'[id].device = d
               \/ step' = "cancel" /\ doomed' = d
    <3>1. CASE d = born + 1
      BY <2>1, <3>1 DEF Created
    <3>2. CASE d # born + 1
      <4>1. PICK id \in Ids : controllers[id].device = d
        BY <1>6, <2>1, <2>3, <3>2 DEF Created, Create
      <4>2. CASE id = target
        BY <1>6, <4>1, <4>2 DEF Create, ReplacedIsDestroyed, Rebuilding
      <4>. QED
        BY <2>1, <4>1, <4>2 DEF Created
    <3>. QED
      BY <3>1, <3>2
  <2>. QED
    BY <2>2, <2>3
<1>7. ASSUME CreateFails PROVE DeviceInv'
  BY <1>7 DEF CreateFails, NextRebuild
<1>8. ASSUME Cancel PROVE DeviceInv'
  BY <1>8 DEF Cancel
<1>9. ASSUME Free PROVE DeviceInv'
  BY <1>9 DEF Free, WaitOver
<1>10. ASSUME NEW d \in DeviceIds, HandlerStep(d) PROVE DeviceInv'
  BY <1>10, HandlerFrame DEF Frame
<1>11. CASE UNCHANGED vars
  BY <1>11
<1>. QED
  BY <1>1, <1>2, <1>3, <1>4, <1>5, <1>6, <1>7, <1>8, <1>9, <1>10, <1>11
  DEF Next, Operation, Handler, HandlerStep

\* What is destroyed belongs to nobody.
LEMMA DoomedInvStep == IInv /\ [Next]_vars => DoomedInv'
<1> SUFFICES ASSUME IInv, [Next]_vars PROVE DoomedInv'
  OBVIOUS
<1> USE RuntimeAssumption DEF IInv, TypeOK, Controller, DeviceIds, NoDevice,
      vars, table, operation, host, DoomedInv, TableInv, DeviceInv
<1>1. ASSUME NEW id \in Ids, NEW profile \in Profiles \cup {NoProfile},
             Add(id, profile)
      PROVE  DoomedInv'
  BY <1>1 DEF Add, MutexFree
<1>2. ASSUME NEW id \in Ids, Remove(id) PROVE DoomedInv'
  BY <1>2 DEF Remove, MutexFree, NoController
<1>3. ASSUME NEW profile \in Profiles, SetAll(profile) PROVE DoomedInv'
  BY <1>3 DEF SetAll, MutexFree
<1>4. ASSUME NEW id \in Ids, NEW profile \in Profiles, SetOne(id, profile)
      PROVE  DoomedInv'
  BY <1>4 DEF SetOne, MutexFree
<1>5. ASSUME NEW id \in Ids, Pick(id) PROVE DoomedInv'
  BY <1>5 DEF Pick
<1>6. ASSUME Create PROVE DoomedInv'
  <2>1. Created
    BY <1>6, CreateFrame
  <2>2. CASE op = "add" /\ controllers[target].device # NoDevice
    <3>1. step' = "cancel" /\ doomed' = controllers[target].device
      BY <1>6, <2>2 DEF Create, ReplacedIsDestroyed
    <3>2. doomed' \in DeviceIds /\ device'[doomed'].state = "live"
      BY <2>1, <2>2, <3>1 DEF Created
    <3>3. ASSUME NEW id \in Ids PROVE controllers'[id].device # doomed'
      <4>1. CASE id = target
        BY <2>1, <3>1, <4>1 DEF Created
      <4>2. CASE id # target
        <5>1. controllers'[id] = controllers[id]
          BY <2>1, <4>2 DEF Created
        <5>2. device[controllers[target].device].id = target
          BY <2>2
        <5>. QED
          BY <2>2, <3>1, <4>2, <5>1, <5>2
      <4>. QED
        BY <4>1, <4>2
    <3>. QED
      BY <3>1, <3>2, <3>3
  <2>3. CASE op = "add" /\ controllers[target].device = NoDevice
    BY <1>6, <2>3 DEF Create, ReplacedIsDestroyed
  <2>4. CASE op # "add"
    BY <1>6, <2>4 DEF Create, NextRebuild
  <2>. QED
    BY <2>2, <2>3, <2>4
<1>7. ASSUME CreateFails PROVE DoomedInv'
  BY <1>7 DEF CreateFails, NextRebuild
<1>8. ASSUME Cancel PROVE DoomedInv'
  BY <1>8 DEF Cancel
<1>9. ASSUME Free PROVE DoomedInv'
  BY <1>9 DEF Free, WaitOver
<1>10. ASSUME NEW d \in DeviceIds, HandlerStep(d) PROVE DoomedInv'
  BY <1>10, HandlerFrame DEF Frame
<1>11. CASE UNCHANGED vars
  BY <1>11
<1>. QED
  BY <1>1, <1>2, <1>3, <1>4, <1>5, <1>6, <1>7, <1>8, <1>9, <1>10, <1>11
  DEF Next, Operation, Handler, HandlerStep

\* A profile change works on decoded controllers, one at a time.
LEMMA RebuildInvStep == IInv /\ [Next]_vars => RebuildInv'
<1> SUFFICES ASSUME IInv, [Next]_vars PROVE RebuildInv'
  OBVIOUS
<1> USE RuntimeAssumption DEF IInv, TypeOK, Controller, DeviceIds, NoDevice,
      vars, table, operation, host, RebuildInv, Rebuilding, Decoded, TableInv
<1>1. ASSUME NEW id \in Ids, NEW profile \in Profiles \cup {NoProfile},
             Add(id, profile)
      PROVE  RebuildInv'
  BY <1>1 DEF Add, MutexFree
<1>2. ASSUME NEW id \in Ids, Remove(id) PROVE RebuildInv'
  BY <1>2 DEF Remove, MutexFree, NoController
<1>3. ASSUME NEW profile \in Profiles, SetAll(profile) PROVE RebuildInv'
  BY <1>3 DEF SetAll, MutexFree
<1>4. ASSUME NEW id \in Ids, NEW profile \in Profiles, SetOne(id, profile)
      PROVE  RebuildInv'
  BY <1>4 DEF SetOne, MutexFree
<1>5. ASSUME NEW id \in Ids, Pick(id) PROVE RebuildInv'
  BY <1>5 DEF Pick
<1>6. ASSUME Create PROVE RebuildInv'
  <2>1. Created
    BY <1>6, CreateFrame
  <2>2. CASE op = "add"
    BY <1>6, <2>2 DEF Create, ReplacedIsDestroyed
  <2>3. CASE op # "add" /\ todo = {}
    BY <1>6, <2>3 DEF Create, NextRebuild
  <2>4. CASE op # "add" /\ todo # {}
    <3>1. step' = "pick" /\ UNCHANGED <<op, todo, wanted>>
      BY <1>6, <2>4 DEF Create, NextRebuild
    <3>2. \A id \in todo : controllers'[id] = controllers[id]
      BY <1>6, <2>1, <2>4 DEF Created, Create
    <3>. QED
      BY <1>6, <2>4, <3>1, <3>2 DEF Create
  <2>. QED
    BY <2>2, <2>3, <2>4
<1>7. ASSUME CreateFails PROVE RebuildInv'
  BY <1>7 DEF CreateFails, NextRebuild
<1>8. ASSUME Cancel PROVE RebuildInv'
  BY <1>8 DEF Cancel
<1>9. ASSUME Free PROVE RebuildInv'
  BY <1>9 DEF Free, WaitOver
<1>10. ASSUME NEW d \in DeviceIds, HandlerStep(d) PROVE RebuildInv'
  BY <1>10, HandlerFrame DEF Frame
<1>11. CASE UNCHANGED vars
  BY <1>11
<1>. QED
  BY <1>1, <1>2, <1>3, <1>4, <1>5, <1>6, <1>7, <1>8, <1>9, <1>10, <1>11
  DEF Next, Operation, Handler, HandlerStep

\* What a profile change is done with has the new profile.
LEMMA ReachedInvStep == IInv /\ [Next]_vars => ReachedInv'
<1> SUFFICES ASSUME IInv, [Next]_vars PROVE ReachedInv'
  OBVIOUS
<1> USE RuntimeAssumption DEF IInv, TypeOK, Controller, DeviceIds, NoDevice,
      vars, table, operation, host, ReachedInv, RebuildInv, Rebuilding, Decoded
<1>1. ASSUME NEW id \in Ids, NEW profile \in Profiles \cup {NoProfile},
             Add(id, profile)
      PROVE  ReachedInv'
  BY <1>1 DEF Add, MutexFree
<1>2. ASSUME NEW id \in Ids, Remove(id) PROVE ReachedInv'
  BY <1>2 DEF Remove, MutexFree, NoController
<1>3. ASSUME NEW profile \in Profiles, SetAll(profile) PROVE ReachedInv'
  BY <1>3 DEF SetAll, MutexFree
<1>4. ASSUME NEW id \in Ids, NEW profile \in Profiles, SetOne(id, profile)
      PROVE  ReachedInv'
  BY <1>4 DEF SetOne, MutexFree
<1>5. ASSUME NEW id \in Ids, Pick(id) PROVE ReachedInv'
  BY <1>5 DEF Pick
<1>6. ASSUME Create PROVE ReachedInv'
  <2>1. Created
    BY <1>6, CreateFrame
  <2>2. CASE op = "add"
    BY <1>6, <2>1, <2>2 DEF Created, Create, ReplacedIsDestroyed
  <2>3. CASE op # "add"
    BY <1>6, <2>1, <2>3 DEF Created, Create, NextRebuild
  <2>. QED
    BY <2>2, <2>3
<1>7. ASSUME CreateFails PROVE ReachedInv'
  BY <1>7 DEF CreateFails, NextRebuild
<1>8. ASSUME Cancel PROVE ReachedInv'
  BY <1>8 DEF Cancel
<1>9. ASSUME Free PROVE ReachedInv'
  BY <1>9 DEF Free, WaitOver
<1>10. ASSUME NEW d \in DeviceIds, HandlerStep(d) PROVE ReachedInv'
  BY <1>10, HandlerFrame DEF Frame
<1>11. CASE UNCHANGED vars
  BY <1>11
<1>. QED
  BY <1>1, <1>2, <1>3, <1>4, <1>5, <1>6, <1>7, <1>8, <1>9, <1>10, <1>11
  DEF Next, Operation, Handler, HandlerStep

\* Only a device whose handler is outside the send is freed.
LEMMA RemovedIsSilentStep == IInv /\ [Next]_vars => RemovedIsSilent'
<1> SUFFICES ASSUME IInv, [Next]_vars PROVE RemovedIsSilent'
  OBVIOUS
<1> USE RuntimeAssumption DEF IInv, TypeOK, Controller, DeviceIds, NoDevice,
      vars, table, operation, host, RemovedIsSilent, DeviceInv, DoomedInv
<1>1. ASSUME NEW id \in Ids, NEW profile \in Profiles \cup {NoProfile},
             Add(id, profile)
      PROVE  RemovedIsSilent'
  BY <1>1 DEF Add, MutexFree
<1>2. ASSUME NEW id \in Ids, Remove(id) PROVE RemovedIsSilent'
  BY <1>2 DEF Remove, MutexFree, NoController
<1>3. ASSUME NEW profile \in Profiles, SetAll(profile) PROVE RemovedIsSilent'
  BY <1>3 DEF SetAll, MutexFree
<1>4. ASSUME NEW id \in Ids, NEW profile \in Profiles, SetOne(id, profile)
      PROVE  RemovedIsSilent'
  BY <1>4 DEF SetOne, MutexFree
<1>5. ASSUME NEW id \in Ids, Pick(id) PROVE RemovedIsSilent'
  BY <1>5 DEF Pick
<1>6. ASSUME Create PROVE RemovedIsSilent'
  BY <1>6, CreateFrame DEF Created
<1>7. ASSUME CreateFails PROVE RemovedIsSilent'
  BY <1>7 DEF CreateFails, NextRebuild
<1>8. ASSUME Cancel PROVE RemovedIsSilent'
  BY <1>8 DEF Cancel
<1>9. ASSUME Free PROVE RemovedIsSilent'
  BY <1>9 DEF Free, WaitOver
<1>10. ASSUME NEW d \in DeviceIds, HandlerStep(d) PROVE RemovedIsSilent'
  BY <1>10, HandlerFrame DEF Frame
<1>11. CASE UNCHANGED vars
  BY <1>11
<1>. QED
  BY <1>1, <1>2, <1>3, <1>4, <1>5, <1>6, <1>7, <1>8, <1>9, <1>10, <1>11
  DEF Next, Operation, Handler, HandlerStep

\* Types of the table ...
LEMMA ControllersTypeStep == IInv /\ [Next]_vars => (controllers \in [Ids -> Controller])'
<1> SUFFICES ASSUME IInv, [Next]_vars PROVE (controllers \in [Ids -> Controller])'
  OBVIOUS
<1> USE RuntimeAssumption DEF IInv, TypeOK, Controller, DeviceIds, NoDevice,
      vars, table, operation, host, DoomedInv
<1>1. ASSUME NEW id \in Ids, NEW profile \in Profiles \cup {NoProfile},
             Add(id, profile)
      PROVE  (controllers \in [Ids -> Controller])'
  BY <1>1 DEF Add, MutexFree
<1>2. ASSUME NEW id \in Ids, Remove(id)
      PROVE  (controllers \in [Ids -> Controller])'
  BY <1>2 DEF Remove, MutexFree, NoController
<1>3. ASSUME NEW profile \in Profiles, SetAll(profile)
      PROVE  (controllers \in [Ids -> Controller])'
  BY <1>3 DEF SetAll, MutexFree
<1>4. ASSUME NEW id \in Ids, NEW profile \in Profiles, SetOne(id, profile)
      PROVE  (controllers \in [Ids -> Controller])'
  BY <1>4 DEF SetOne, MutexFree
<1>5. ASSUME NEW id \in Ids, Pick(id)
      PROVE  (controllers \in [Ids -> Controller])'
  <2>1. [controllers[id] EXCEPT !.device = NoDevice] \in Controller
    OBVIOUS
  <2>. QED
    BY <1>5, <2>1 DEF Pick
<1>6. ASSUME Create PROVE (controllers \in [Ids -> Controller])'
  <2>1. born + 1 \in DeviceIds
    BY <1>6, CreateFrame DEF Created
  <2>2. Rebuilt(controllers[target], born + 1) \in Controller
    <3>1. wanted \in Profiles \cup {NoProfile} /\ controllers[target] \in Controller
      OBVIOUS
    <3>. QED
      BY <2>1, <3>1 DEF Rebuilt
  <2>3. CASE op = "add"
    <3>1. [present |-> TRUE, profile |-> wanted, device |-> born + 1] \in Controller
      BY <2>1
    <3>2. controllers' = [controllers EXCEPT ![target] =
            [present |-> TRUE, profile |-> wanted, device |-> born + 1]]
      BY <1>6, <2>3 DEF Create
    <3>. QED
      BY <3>1, <3>2
  <2>4. CASE op # "add"
    BY <1>6, <2>2, <2>4 DEF Create
  <2>. QED
    BY <2>3, <2>4
<1>7. ASSUME CreateFails PROVE (controllers \in [Ids -> Controller])'
  BY <1>7 DEF CreateFails, NextRebuild
<1>8. ASSUME Cancel PROVE (controllers \in [Ids -> Controller])'
  BY <1>8 DEF Cancel
<1>9. ASSUME Free PROVE (controllers \in [Ids -> Controller])'
  BY <1>9 DEF Free, WaitOver
<1>10. ASSUME NEW d \in DeviceIds, HandlerStep(d)
       PROVE  (controllers \in [Ids -> Controller])'
  BY <1>10, HandlerFrame DEF Frame
<1>11. CASE UNCHANGED vars
  BY <1>11
<1>. QED
  BY <1>1, <1>2, <1>3, <1>4, <1>5, <1>6, <1>7, <1>8, <1>9, <1>10, <1>11
  DEF Next, Operation, Handler, HandlerStep

\* ... and of everything else.
LEMMA TypeOKStep == IInv /\ [Next]_vars => TypeOK'
<1> SUFFICES ASSUME IInv, [Next]_vars PROVE TypeOK'
  OBVIOUS
<1>1. controllers' \in [Ids -> Controller] /\ device' \in [DeviceIds -> Device]
  BY ControllersTypeStep, DeviceTypeStep
<1> DEFINE Rest ==
      /\ setting \in Profiles \cup {NoProfile}
      /\ born \in 0..MaxDevices
      /\ step \in {"idle", "pick", "create", "cancel", "wait"}
      /\ op \in {"none", "add", "remove", "all", "one"}
      /\ target \in Ids
      /\ wanted \in Profiles \cup {NoProfile}
      /\ todo \subseteq Ids
      /\ doomed \in DeviceIds \cup {NoDevice}
      /\ written \in 0..MaxReports /\ sequence \in 0..MaxReports
      /\ sent \in [Ids -> 0..MaxReports]
<1> USE RuntimeAssumption DEF IInv, TypeOK, table, operation, host
<1>2. ASSUME Operation PROVE Rest'
  <2>1. UNCHANGED host
    BY <1>2 DEF Operation, Add, Remove, SetAll, SetOne, Pick, Create,
          CreateFails,
       Cancel, Free
  <2>2. \A id \in Ids : controllers[id].device \in DeviceIds \cup {NoDevice}
    BY DEF Controller
  <2>3. ASSUME NEW id \in Ids, NEW profile \in Profiles \cup {NoProfile},
               Add(id, profile)
        PROVE  Rest'
    BY <2>1, <2>3 DEF Add
  <2>4. ASSUME NEW id \in Ids, Remove(id) PROVE Rest'
    BY <2>1, <2>2, <2>4 DEF Remove
  <2>5. ASSUME NEW profile \in Profiles, SetAll(profile) PROVE Rest'
    BY <2>1, <2>5 DEF SetAll
  <2>6. ASSUME NEW id \in Ids, NEW profile \in Profiles, SetOne(id, profile)
        PROVE  Rest'
    BY <2>1, <2>6 DEF SetOne
  <2>7. ASSUME NEW id \in Ids, Pick(id) PROVE Rest'
    BY <2>1, <2>2, <2>7 DEF Pick
  <2>8. CASE Create
    BY <2>1, <2>2, <2>8 DEF Create, ReplacedIsDestroyed, NextRebuild
  <2>9. CASE CreateFails
    BY <2>1, <2>9 DEF CreateFails, NextRebuild
  <2>10. CASE Cancel
    BY <2>1, <2>10 DEF Cancel
  <2>11. CASE Free
    BY <2>1, <2>11 DEF Free
  <2>. QED
    BY <1>2, <2>3, <2>4, <2>5, <2>6, <2>7, <2>8, <2>9, <2>10, <2>11 DEF
          Operation
<1>3. ASSUME NEW d \in DeviceIds, HandlerStep(d) PROVE Rest'
  <2>1. Frame(d)
    BY <1>3, HandlerFrame
  <2>2. CASE HostWrites(d)
    BY <2>1, <2>2 DEF HostWrites, Frame
  <2>3. ASSUME NEW forwards \in BOOLEAN, Lookup(d, forwards) PROVE Rest'
    BY <2>1, <2>3 DEF Lookup, Frame
  <2>4. CASE DrawSequence(d)
    BY <2>1, <2>4, DrawBound DEF DrawSequence, Frame
  <2>5. CASE SendToSource(d)
    <3>1. device[d].report \in 0..MaxReports /\ device[d].number \in 0..MaxReports
      BY DEF Device
    <3>. QED
      BY <2>1, <2>5, <3>1 DEF SendToSource, Frame
  <2>. QED
    BY <1>3, <2>2, <2>3, <2>4, <2>5 DEF HandlerStep
<1>4. CASE UNCHANGED vars
  BY <1>4 DEF vars
<1>5. Rest'
  BY <1>2, <1>3, <1>4 DEF Next, Handler, HandlerStep
<1>. QED
  BY <1>1, <1>5

\* The numbers drawn and the handlers yet to draw one are no more than the
\* reports written.
LEMMA NumberInvStep == IInv /\ [Next]_vars => NumberInv'
<1> SUFFICES ASSUME IInv, [Next]_vars PROVE NumberInv'
  OBVIOUS
<1> USE RuntimeAssumption DEF IInv, TypeOK, host
<1>1. Cardinality(Unnumbered) \in Nat /\ IsFiniteSet(Unnumbered)
  BY UnnumberedFinite
<1>2. ASSUME Operation \/ UNCHANGED vars PROVE NumberInv'
  <2>1. UNCHANGED host
    BY <1>2 DEF Operation, Add, Remove, SetAll, SetOne, Pick, Create,
          CreateFails,
       Cancel, Free, vars
  <2>2. ASSUME NEW d \in DeviceIds
        PROVE  /\ device'[d].handler = device[d].handler
               /\ device'[d].number <= sequence
    <3>1. CASE Create
      <4>1. Created
        BY <3>1, CreateFrame
      <4>2. CASE d = born + 1
        <5>1. device'[d].number = 0
          BY <3>1, <4>2 DEF Create
        <5>. QED
          BY <4>1, <4>2, <5>1 DEF Created, DeviceInv
      <4>3. CASE d # born + 1
        BY <4>1, <4>3 DEF Created, NumberInv
      <4>. QED
        BY <4>2, <4>3
    <3>2. CASE ~Create
      <4>1. /\ device'[d].handler = device[d].handler
            /\ device'[d].number = device[d].number
        BY <1>2, <3>2 DEF Operation, Add, Remove, SetAll, SetOne, Pick,
              CreateFails,
           Cancel, Free, vars, Device
      <4>. QED
        BY <4>1 DEF NumberInv
    <3>. QED
      BY <3>1, <3>2
  <2>3. Unnumbered' = Unnumbered
    BY <2>2 DEF Unnumbered
  <2>. QED
    BY <2>1, <2>2, <2>3 DEF NumberInv
<1>3. ASSUME NEW d \in DeviceIds, HandlerStep(d) PROVE NumberInv'
  <2>1. /\ \A e \in DeviceIds \ {d} : device'[e] = device[e]
        /\ device[d] \in Device
    BY <1>3, HandlerFrame DEF Frame
  <2>2. \A e \in DeviceIds : device[e].number <= sequence /\ device[e].number \in Nat
    BY DEF NumberInv, Device
  <2>3. CASE HostWrites(d)
    <3>1. Unnumbered' = Unnumbered \cup {d} /\ d \notin Unnumbered
      BY <2>1, <2>3 DEF HostWrites, Unnumbered, Device
    <3>2. Cardinality(Unnumbered') = Cardinality(Unnumbered) + 1
      BY <1>1, <3>1, FS_AddElement
    <3>3. device'[d].number = device[d].number
      BY <2>1, <2>3 DEF HostWrites, Device
    <3>. QED
      BY <1>1, <2>1, <2>2, <2>3, <3>2, <3>3 DEF HostWrites, NumberInv
  <2>4. ASSUME NEW forwards \in BOOLEAN, Lookup(d, forwards) PROVE NumberInv'
    <3>1. device'[d].number = device[d].number
      BY <2>1, <2>4 DEF Lookup, Device
    <3>2. Unnumbered' = IF forwards THEN Unnumbered ELSE Unnumbered \ {d}
      BY <2>1, <2>4 DEF Lookup, Unnumbered, Device
    <3>3. Cardinality(Unnumbered') \in Nat
          /\ Cardinality(Unnumbered') <= Cardinality(Unnumbered)
      <4>1. CASE forwards
        BY <1>1, <3>2, <4>1
      <4>2. CASE ~forwards
        <5>1. Unnumbered' = Unnumbered \ {d}
          BY <3>2, <4>2
        <5>2. Unnumbered \ {d} \in SUBSET Unnumbered
          OBVIOUS
        <5>. QED
          BY <1>1, <5>1, <5>2, FS_Subset, FS_CardinalityType
      <4>. QED
        BY <4>1, <4>2
    <3>. QED
      BY <1>1, <2>1, <2>2, <2>4, <3>1, <3>3 DEF Lookup, NumberInv
  <2>5. CASE DrawSequence(d)
    <3>1. Unnumbered' = Unnumbered \ {d} /\ d \in Unnumbered
      BY <2>1, <2>5 DEF DrawSequence, Unnumbered, Device
    <3>2. Cardinality(Unnumbered') = Cardinality(Unnumbered) - 1
      BY <1>1, <3>1, FS_RemoveElement
    <3>3. device'[d].number = sequence + 1
      BY <2>1, <2>5 DEF DrawSequence, Device
    <3>. QED
      BY <1>1, <2>1, <2>2, <2>5, <3>2, <3>3 DEF DrawSequence, NumberInv
  <2>6. CASE SendToSource(d)
    <3>1. Unnumbered' = Unnumbered
      BY <2>1, <2>6 DEF SendToSource, Unnumbered, Device
    <3>2. device'[d].number = device[d].number
      BY <2>1, <2>6 DEF SendToSource, Device
    <3>. QED
      BY <1>1, <2>1, <2>2, <2>6, <3>1, <3>2 DEF SendToSource, NumberInv
  <2>. QED
    BY <1>3, <2>3, <2>4, <2>5, <2>6 DEF HandlerStep
<1>. QED
  BY <1>2, <1>3 DEF Next, Handler, HandlerStep

\* The invariant holds initially ...
LEMMA InitIInv == Init => IInv
<1> SUFFICES ASSUME Init PROVE IInv
  OBVIOUS
<1> USE RuntimeAssumption DEF Init, NoController, NoDevice, DeviceIds
<1>1. TypeOK
  BY DEF TypeOK, Controller, Device
<1>2. Unnumbered = {}
  BY DEF Unnumbered
<1>3. NumberInv
  BY <1>2, FS_EmptySet DEF NumberInv
<1>. QED
  BY <1>1, <1>3 DEF IInv, TableInv, DeviceInv, DoomedInv, RebuildInv,
        ReachedInv,
     RemovedIsSilent, Rebuilding

\* ... and every step preserves it.
LEMMA NextIInv == IInv /\ [Next]_vars => IInv'
BY TypeOKStep, TableInvStep, DeviceInvStep, DoomedInvStep, RebuildInvStep,
   ReachedInvStep, RemovedIsSilentStep, NumberInvStep DEF IInv

\* What the operations and the handlers rely on holds of every behaviour.
THEOREM Inductive == Spec => []IInv
BY InitIInv, NextIInv, PTL DEF Spec

\* Types, and at most one sequence number for each report of the host.
THEOREM TypeCorrect == Spec => []TypeOK
<1>1. IInv => TypeOK
  BY DEF IInv
<1>. QED
  BY <1>1, Inductive, PTL

\* Whatever fails, a controller encodes for the device it has.
THEOREM EncoderSafe == Spec => []EncoderFitsDevice
<1>1. IInv => EncoderFitsDevice
  BY DEF IInv, TableInv, EncoderFitsDevice
<1>. QED
  BY <1>1, Inductive, PTL

\* Between operations the live devices are those of the controllers.
THEOREM NoLeak == Spec => []DevicesAreControllers
<1>1. IInv => DevicesAreControllers
  BY DEF IInv, TypeOK, Controller, TableInv, DeviceInv, DevicesAreControllers,
     MutexFree, NoDevice, DeviceIds
<1>. QED
  BY <1>1, Inductive, PTL

\* A freed device has no report of its own on the way to the source.
THEOREM RemovalSilences == Spec => []RemovedIsSilent
<1>1. IInv => RemovedIsSilent
  BY DEF IInv
<1>. QED
  BY <1>1, Inductive, PTL

\* A profile change for all leaves no controller with a device behind.
THEOREM ProfileChangeComplete == Spec => ProfileChangeReachesAll
<1> DEFINE Reaches ==
      op = "all" /\ ~MutexFree /\ MutexFree' =>
        \A id \in Ids :
          Decoded(id)' /\ controllers'[id].device # NoDevice =>
            controllers'[id].profile = setting'
<1>1. IInv /\ [Next]_vars => [Reaches]_vars
  <2> SUFFICES ASSUME IInv, Next, op = "all", step # "idle", step' = "idle",
                      NEW id \in Ids, Decoded(id)',
                      controllers'[id].device # NoDevice
               PROVE  controllers'[id].profile = setting'
    BY DEF MutexFree
  <2> USE DEF IInv, ReachedInv, Decoded, table, operation
  <2>1. CASE Create
    <3>1. Created /\ UNCHANGED setting
      BY <2>1, CreateFrame DEF Create
    <3>2. todo = {}
      BY <2>1 DEF Create, NextRebuild
    <3>. QED
      BY <3>1, <3>2 DEF Created
  <2>2. CASE CreateFails
    BY <2>2 DEF CreateFails, NextRebuild
  <2>3. CASE Handler
    BY <2>3, HandlerFrame DEF Handler, HandlerStep, Frame
  <2>. QED
    BY <2>1, <2>2, <2>3 DEF Next, Operation, Add, Remove, SetAll, SetOne, Pick,
       Cancel, Free, MutexFree
<1>. QED
  BY <1>1, Inductive, PTL DEF Spec, ProfileChangeReachesAll

=============================================================================

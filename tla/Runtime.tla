--------------------------------- MODULE Runtime ---------------------------------
(***************************************************************************)
(* Runtime (main.cpp): the controllers_ map under mutex_, the operations   *)
(* that publish, replace, rebuild and remove virtual devices, and the      *)
(* host's output handlers, which run on a queue per device, find their     *)
(* controller by id once they have the mutex, and send what they made of   *)
(* the report to the source after they let it go.                          *)
(*                                                                         *)
(* A device is one incarnation of a controller: a replacement or a profile *)
(* change publishes another one under the same id.  VirtualDevice models   *)
(* what goes on inside one; here its destructor is a cancel followed by    *)
(* the wait for the cancel handler.  The wait expires only behind a        *)
(* handler that waits for the mutex: a handler outside it needs            *)
(* microseconds for its sendto, and the wait lasts two seconds.            *)
(*                                                                         *)
(* Not here: reports from the source (UdpSessions, VirtualDevice); dry     *)
(* runs, which publish nothing; the tracing of rumble; a null profile from *)
(* make_profile, which every profile that can be selected has; the end of  *)
(* the process.                                                            *)
(***************************************************************************)
EXTENDS Integers

CONSTANTS
  Ids,          \* controller ids, one per device of the sources
  Profiles,     \* output profiles that can be selected
  NoProfile,    \* the profile of a transparent controller; no setting
  MaxDevices,   \* bound: devices published
  MaxReports    \* bound: output reports the host writes

ASSUME RuntimeAssumption ==
  /\ NoProfile \notin Profiles
  /\ MaxDevices \in Nat
  /\ MaxReports \in Nat

DeviceIds == 1..MaxDevices
NoDevice == 0

VARIABLES
  controllers,  \* [Ids -> Controller], controllers_
  setting,      \* output_profile_setting_
  device,       \* [DeviceIds -> Device], the virtual devices
  born,         \* how many of them were published
  step,         \* what the thread inside an operation does next
  op,           \* the operation it is inside
  target,       \* the id it works on
  wanted,       \* the profile it asks for
  todo,         \* ids a profile change has still to rebuild
  doomed,       \* the device it is destroying
  written,      \* output reports the host has written
  sequence,     \* output_sequence_
  sent          \* history: [Ids -> the last output report sent to the source]

table == <<controllers, setting>>
operation == <<step, op, target, wanted, todo, doomed>>
host == <<written, sequence, sent>>
vars == <<table, device, born, operation, host>>

Controller ==
  [present : BOOLEAN, profile : Profiles \cup {NoProfile},
   device : DeviceIds \cup {NoDevice}]

NoController == [present |-> FALSE, profile |-> NoProfile, device |-> NoDevice]

\* handler is what the block on the device's output queue does next, report
\* the host's output report it has, number the sequence it drew, own whether
\* its device was still there when it found a controller (history).
Device ==
  [state : {"unborn", "live", "cancelled", "freed"}, id : Ids,
   profile : Profiles \cup {NoProfile},
   handler : {"idle", "entering", "drawing", "sending"},
   report : 0..MaxReports, number : 0..MaxReports, own : BOOLEAN]

Decoded(id) == controllers[id].present /\ controllers[id].profile # NoProfile

\* Handlers hold mutex_ for one atomic step, operations from idle to idle.
MutexFree == step = "idle"

-----------------------------------------------------------------------------
(* Operations, under mutex_ throughout *)

\* add_semantic, add_hid_source, add_raw: a setting overrides the profile
\* the source asks for, and rules out transparent publication.
Add(id, profile) ==
  /\ MutexFree
  /\ setting # NoProfile => profile = setting
  /\ step' = "create" /\ op' = "add" /\ target' = id /\ wanted' = profile
  /\ UNCHANGED <<table, device, born, todo, doomed, host>>

\* Mutant: the device a second add replaces is never destroyed.
ReplacedIsForgotten(old) == step' = "idle" /\ doomed' = NoDevice

\* The old device of the id, if any, is destroyed next.
ReplacedIsDestroyed(old) ==
  /\ step' = IF old = NoDevice THEN "idle" ELSE "cancel"
  /\ doomed' = old

\* Where a rebuild goes after one controller.
NextRebuild == IF todo = {} THEN "idle" ELSE "pick"

\* Mutant: a rebuilt controller keeps encoding for its old device.
RebuiltDeviceOnly(old, new) == [old EXCEPT !.device = new]

Rebuilt(old, new) == [old EXCEPT !.profile = wanted, !.device = new]

\* create_raw succeeds; IOKit may call the new device's handler at once.
Create ==
  /\ step = "create" /\ born < MaxDevices
  /\ born' = born + 1
  /\ device' = [device EXCEPT ![born + 1] =
       [state |-> "live", id |-> target, profile |-> wanted, handler |-> "idle",
        report |-> 0, number |-> 0, own |-> FALSE]]
  /\ IF op = "add"
     THEN /\ controllers' = [controllers EXCEPT ![target] =
               [present |-> TRUE, profile |-> wanted, device |-> born + 1]]
          /\ ReplacedIsDestroyed(controllers[target].device)
     ELSE /\ controllers' = [controllers EXCEPT ![target] = Rebuilt(@, born + 1)]
          /\ step' = NextRebuild
          /\ UNCHANGED doomed
  /\ UNCHANGED <<setting, op, target, wanted, todo, host>>

\* Mutant: the first rebuild that fails ends the whole profile change.
CreateFailsForAll ==
  /\ step = "create"
  /\ step' = "idle" /\ todo' = {}
  /\ UNCHANGED <<table, device, born, op, target, wanted, doomed, host>>

\* create_raw fails: an add returns false and leaves the controller the id
\* may have; a rebuilt controller keeps its old profile and no device.
CreateFails ==
  /\ step = "create"
  /\ step' = IF op = "add" THEN "idle" ELSE NextRebuild
  /\ UNCHANGED <<table, device, born, op, target, wanted, todo, doomed, host>>

Remove(id) ==
  /\ MutexFree
  /\ controllers[id].present
  /\ controllers' = [controllers EXCEPT ![id] = NoController]
  /\ doomed' = controllers[id].device
  /\ step' = IF doomed' = NoDevice THEN "idle" ELSE "cancel"
  /\ op' = "remove"
  /\ UNCHANGED <<setting, device, born, target, wanted, todo, host>>

\* set_output_profile for every controller.
SetAll(profile) ==
  /\ MutexFree
  /\ setting' = profile /\ wanted' = profile
  /\ todo' = {id \in Ids : Decoded(id)}
  /\ step' = IF todo' = {} THEN "idle" ELSE "pick"
  /\ op' = "all"
  /\ UNCHANGED <<controllers, device, born, target, doomed, host>>

\* set_output_profile for one.
SetOne(id, profile) ==
  /\ MutexFree
  /\ Decoded(id)
  /\ wanted' = profile /\ todo' = {id}
  /\ step' = "pick" /\ op' = "one"
  /\ UNCHANGED <<table, device, born, target, doomed, host>>

\* rebuild_controller, up to device.reset().
Pick(id) ==
  /\ step = "pick" /\ id \in todo
  /\ target' = id /\ todo' = todo \ {id}
  /\ doomed' = controllers[id].device
  /\ controllers' = [controllers EXCEPT ![id].device = NoDevice]
  /\ step' = IF doomed' = NoDevice THEN "create" ELSE "cancel"
  /\ UNCHANGED <<setting, device, born, op, wanted, host>>

\* ~MacVirtualDevice: cancel ...
Cancel ==
  /\ step = "cancel"
  /\ device' = [device EXCEPT ![doomed].state = "cancelled"]
  /\ step' = "wait"
  /\ UNCHANGED <<table, born, op, target, wanted, todo, doomed, host>>

\* Mutant: the destructor does not wait.
WaitSkipped(d) == TRUE

\* The cancel handler runs after the block under way, or two seconds pass
\* with that block waiting for the mutex.
WaitOver(d) == device[d].handler \in {"idle", "entering"}

\* ... wait, free.
Free ==
  /\ step = "wait" /\ WaitOver(doomed)
  /\ device' = [device EXCEPT ![doomed].state = "freed"]
  /\ doomed' = NoDevice
  /\ step' = IF op \in {"all", "one"} THEN "create" ELSE "idle"
  /\ UNCHANGED <<table, born, op, target, wanted, todo, host>>

Operation ==
  \/ \E id \in Ids, profile \in Profiles \cup {NoProfile} : Add(id, profile)
  \/ \E id \in Ids : Remove(id)
  \/ \E profile \in Profiles : SetAll(profile)
  \/ \E id \in Ids, profile \in Profiles : SetOne(id, profile)
  \/ \E id \in Ids : Pick(id)
  \/ Create \/ CreateFails \/ Cancel \/ Free

-----------------------------------------------------------------------------
(* Output handlers, one at a time on each device's queue *)

HostWrites(d) ==
  /\ device[d].state = "live" /\ device[d].handler = "idle"
  /\ written < MaxReports
  /\ written' = written + 1
  /\ device' = [device EXCEPT ![d].handler = "entering", ![d].report = written + 1]
  /\ UNCHANGED <<table, born, operation, sequence, sent>>

\* raw_output_handler under the mutex: the controller is whatever has the
\* id now.  Without one, with a transparent one, or with nothing for the
\* source, the handler returns.
Lookup(d, forwards) ==
  /\ device[d].handler = "entering" /\ MutexFree
  /\ forwards => Decoded(device[d].id)
  /\ device' = [device EXCEPT
       ![d].handler = IF forwards THEN "drawing" ELSE "idle",
       ![d].own = forwards /\ device[d].state = "live"]
  /\ UNCHANGED <<table, born, operation, host>>

\* send_source_report, without the mutex: the sequence number ...
DrawSequence(d) ==
  /\ device[d].handler = "drawing"
  /\ sequence' = sequence + 1
  /\ device' = [device EXCEPT ![d].handler = "sending", ![d].number = sequence + 1]
  /\ UNCHANGED <<table, born, operation, written, sent>>

\* Mutant: the report is numbered and sent a second time.
SendTwice(d) ==
  /\ device[d].handler = "sending"
  /\ device' = [device EXCEPT ![d].handler = "drawing"]
  /\ UNCHANGED <<table, born, operation, host>>

\* ... and the sendto.
SendToSource(d) ==
  /\ device[d].handler = "sending"
  /\ sent' = [sent EXCEPT ![device[d].id] = device[d].report]
  /\ device' = [device EXCEPT ![d].handler = "idle", ![d].own = FALSE]
  /\ UNCHANGED <<table, born, operation, written, sequence>>

Handler ==
  \E d \in DeviceIds :
    \/ HostWrites(d)
    \/ \E forwards \in BOOLEAN : Lookup(d, forwards)
    \/ DrawSequence(d)
    \/ SendToSource(d)

-----------------------------------------------------------------------------

Init ==
  /\ controllers = [id \in Ids |-> NoController]
  /\ setting \in Profiles \cup {NoProfile}
  /\ \E id \in Ids :
       /\ target = id
       /\ device = [d \in DeviceIds |->
            [state |-> "unborn", id |-> id, profile |-> NoProfile,
             handler |-> "idle", report |-> 0, number |-> 0, own |-> FALSE]]
  /\ born = 0
  /\ step = "idle" /\ op = "none" /\ todo = {} /\ doomed = NoDevice
  /\ wanted = NoProfile
  /\ written = 0 /\ sequence = 0
  /\ sent = [id \in Ids |-> 0]

Next == Operation \/ Handler

Spec == Init /\ [][Next]_vars

-----------------------------------------------------------------------------
(* Properties *)

\* The values the variables take; a number is drawn at most once for each
\* report of the host.
TypeOK ==
  /\ controllers \in [Ids -> Controller]
  /\ setting \in Profiles \cup {NoProfile}
  /\ device \in [DeviceIds -> Device]
  /\ born \in 0..MaxDevices
  /\ step \in {"idle", "pick", "create", "cancel", "wait"}
  /\ op \in {"none", "add", "remove", "all", "one"}
  /\ target \in Ids
  /\ wanted \in Profiles \cup {NoProfile}
  /\ todo \subseteq Ids
  /\ doomed \in DeviceIds \cup {NoDevice}
  /\ written \in 0..MaxReports /\ sequence \in 0..MaxReports
  /\ sent \in [Ids -> 0..MaxReports]

\* A controller encodes for the descriptor its device was published with,
\* whichever of replacements and profile changes failed on the way.
EncoderFitsDevice ==
  \A id \in Ids :
    LET c == controllers[id]
    IN c.device # NoDevice =>
         /\ c.present
         /\ device[c.device].id = id
         /\ device[c.device].profile = c.profile

\* Between operations the host sees exactly the devices of the controllers,
\* one for each: none is leaked by a replacement, a removal or a failed
\* profile change, and none is destroyed while a controller still uses it.
DevicesAreControllers ==
  MutexFree =>
    \A d \in DeviceIds :
      device[d].state = "live" <=> \E id \in Ids : controllers[id].device = d

\* No output report a device took up while it lived is on its way to the
\* source any more when it is freed, although handlers send without the
\* mutex: the destructor waits for the one under way, and one that waits for
\* the mutex finds another controller or none.
RemovedIsSilent ==
  \A d \in DeviceIds :
    device[d].handler \in {"drawing", "sending"} /\ device[d].own =>
      device[d].state # "freed"

\* When a profile change for all returns, every decoded controller that has
\* a device was published with the new profile, whichever rebuilds failed.
ProfileChangeReachesAll ==
  [][(op = "all" /\ ~MutexFree /\ MutexFree') =>
       \A id \in Ids : Decoded(id)' /\ controllers'[id].device # NoDevice =>
         controllers'[id].profile = setting']_vars

=============================================================================

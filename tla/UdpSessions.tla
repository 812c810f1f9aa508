------------------------------- MODULE UdpSessions -------------------------------
(***************************************************************************)
(* The UDP side of vhid-bridge (src/main.cpp): the sessions the main loop  *)
(* keeps with its sources, the mapping from a session's device ids to      *)
(* controller ids, and the controllers those ids name in Runtime.          *)
(*                                                                         *)
(* The loop alternates between consuming one datagram (consume_udp) and    *)
(* servicing every session (service_udp_session).  Any datagram may arrive *)
(* from any endpoint at any time, so loss, duplication, reordering and     *)
(* delay by the network need no action of their own.  Physical controllers *)
(* come and go on the IOKit thread, between any two steps of the loop.     *)
(*                                                                         *)
(* Time is the age of a timestamp in ticks, counted up to TimeoutTicks:    *)
(* the code compares now_us() minus a timestamp with its limits and        *)
(* nothing else.  Datagram sequence numbers are serial numbers modulo      *)
(* SequenceModulus (2^32 in the code).                                     *)
(*                                                                         *)
(* Not here: the counter an outgoing message takes its own sequence from,  *)
(* which no bridge code reads back; profile commands from stdin, which     *)
(* change no controller id; the threads and locks inside a controller.     *)
(***************************************************************************)
EXTENDS Integers

CONSTANTS
  Endpoints,        \* UDP addresses datagrams can come from
  SourceIds,        \* header.device_id of a device message, never 0
  SessionIds,       \* session ids in a session_open, never 0
  PhysicalIds,      \* controller ids of physical devices, 0x80000000 and up
  FirstNetworkId,   \* kFirstNetworkDeviceId
  LastNetworkId,    \* bound: the model stops handing out ids after this one
  KeepaliveTicks,   \* kSessionKeepaliveUs
  OpenRetryTicks,   \* kSessionOpenRetryUs
  TimeoutTicks,     \* kSessionTimeoutUs
  SequenceModulus,  \* 2^32 in the code
  Nobody,           \* no endpoint, or the owner of a controller id not in use
  Local             \* the owner of a physical controller

NetworkIds == FirstNetworkId..LastNetworkId
Ids == NetworkIds \cup PhysicalIds
Devices == Endpoints \X SourceIds
Sequences == 0..(SequenceModulus - 1)

ASSUME IdAssumption ==
  /\ FirstNetworkId \in Nat \ {0}
  /\ LastNetworkId \in Nat
  /\ FirstNetworkId <= LastNetworkId
  /\ PhysicalIds \subseteq Nat
  /\ \A id \in PhysicalIds : LastNetworkId < id

ASSUME NameAssumption ==
  /\ Nobody \notin Endpoints
  /\ Nobody # Local
  /\ {Nobody, Local} \cap Devices = {}
  /\ SourceIds \subseteq Nat \ {0}
  /\ SessionIds \subseteq Nat \ {0}

ASSUME TimeAssumption ==
  /\ KeepaliveTicks \in Nat \ {0}
  /\ OpenRetryTicks \in Nat \ {0}
  /\ TimeoutTicks \in Nat
  /\ KeepaliveTicks <= TimeoutTicks
  /\ OpenRetryTicks <= TimeoutTicks

ASSUME SequenceAssumption == SequenceModulus \in Nat \ {0}

VARIABLES
  udp_source,              \* the endpoint of --udp-source, Nobody without it
  session,                 \* [Endpoints -> Session], the UdpSession objects
  next_network_device_id,
  controllers,             \* [Ids -> Controller], Runtime::controllers_
  phase                    \* what the main loop does next

vars == <<udp_source, session, next_network_device_id, controllers, phase>>

-----------------------------------------------------------------------------
(* Session records *)

\* The age of a timestamp that was never set.
Never == TimeoutTicks + 1
Age == 0..Never

Older(age) == IF age < TimeoutTicks THEN age + 1 ELSE age

NoDevices == [s \in SourceIds |-> 0]

Session ==
  [enabled : BOOLEAN, active : BOOLEAN, open_sent : BOOLEAN,
   session_id : SessionIds \cup {0},
   rx : Age, tx : Age, ping : Age, open : Age,
   devices : [SourceIds -> NetworkIds \cup {0}]]

\* A value-initialised UdpSession; an endpoint without a session has it.
NoSession ==
  [enabled |-> FALSE, active |-> FALSE, open_sent |-> FALSE, session_id |-> 0,
   rx |-> Never, tx |-> Never, ping |-> Never, open |-> Never,
   devices |-> NoDevices]

\* send_session_open: a failed sendto changes nothing else, the retry timer
\* runs in either case.
SessionOpenSent(s) == [s EXCEPT !.open_sent = TRUE, !.open = 0, !.tx = 0]

\* Mutant: remove_session_devices without its devices.clear().
DevicesKept(s) == s

\* remove_session_devices, on the session's side.
WithoutDevices(s) == [s EXCEPT !.devices = NoDevices]

\* What is left of a session that ends: the configured source is asked again
\* by the next service pass, an inbound session is erased.
Ended(e) ==
  IF e = udp_source
  THEN [WithoutDevices(session[e]) EXCEPT !.active = FALSE, !.open_sent = FALSE]
  ELSE NoSession

-----------------------------------------------------------------------------
(* Controllers *)

\* owner is the device whose Route the controller captured, session is the
\* session id that device was added under (history, the code has no such
\* field), last is last_sequence, -1 while have_sequence is false.
Controller ==
  [owner : Devices \cup {Nobody, Local}, session : SessionIds \cup {0},
   last : Sequences \cup {-1}]

NoController == [owner |-> Nobody, session |-> 0, last |-> -1]

NewController(e, s) ==
  [owner |-> <<e, s>>, session |-> session[e].session_id, last |-> -1]

\* Mutant: ending a session empties controllers_.
RemoveEveryDevice(ending) ==
  IF ending = {} THEN controllers ELSE [id \in Ids |-> NoController]

\* remove_session_devices, on Runtime's side, for the sessions in ending.
RemoveDevicesOf(ending) ==
  [id \in Ids |->
     IF \E e \in ending : \E s \in SourceIds : session[e].devices[s] = id
     THEN NoController ELSE controllers[id]]

\* static_cast<int32_t>(sequence - last_sequence) > 0
Newer(sequence, last) ==
  LET ahead == (sequence - last) % SequenceModulus
  IN 0 < ahead /\ 2 * ahead < SequenceModulus

\* Mutant: the filter remembers the sequence it expects next.
ReportedAndExpecting(id, sequence, usable) ==
  IF usable /\ controllers[id].owner # Nobody
  THEN [controllers EXCEPT ![id].last = sequence + 1]
  ELSE controllers

\* Runtime::input and Runtime::raw_input: usable is false for a report the
\* codec cannot decode or the controller has no codec for.
Reported(id, sequence, usable) ==
  IF /\ usable
     /\ controllers[id].owner # Nobody
     /\ controllers[id].last = -1 \/ Newer(sequence, controllers[id].last)
  THEN [controllers EXCEPT ![id].last = sequence]
  ELSE controllers

-----------------------------------------------------------------------------
(* consume_udp: one datagram *)

\* With --udp-source every other endpoint is ignored.
Heeded(e) == udp_source = Nobody \/ e = udp_source

\* Any message of a session's endpoint refreshes last_rx_us.
Heard(e) == [session[e] EXCEPT !.rx = 0]

\* Nothing arrived in this round, or nothing the bridge listens to.
NoDatagram == UNCHANGED <<session, next_network_device_id, controllers>>

\* A message the switch makes nothing of: session_pong, output and
\* get-report types, and every message one of its early returns drops.
DatagramNoted(e) ==
  /\ Heeded(e) /\ session[e].enabled
  /\ session' = [session EXCEPT ![e] = Heard(e)]
  /\ UNCHANGED <<next_network_device_id, controllers>>

\* Mutant: the ids are compared after the new one was stored.
ChangingTooLate(e, id) == FALSE

\* A session_open that replaces an active session by another one.
Changing(e, id) == session[e].active /\ session[e].session_id # id

\* Mutant: an active session keeps its id.
SessionOpenKeepsId(e, id, sent) ==
  LET kept == IF Changing(e, id) THEN WithoutDevices(session[e]) ELSE session[e]
      opened == [kept EXCEPT !.enabled = TRUE, !.rx = 0,
                             !.session_id = IF session[e].active THEN @ ELSE id]
  IN /\ Heeded(e)
     /\ session' = [session EXCEPT ![e] =
          IF sent
          THEN [opened EXCEPT !.active = TRUE, !.open_sent = TRUE, !.tx = 0]
          ELSE opened]
     /\ controllers' = IF Changing(e, id) THEN RemoveDevicesOf({e}) ELSE controllers
     /\ UNCHANGED next_network_device_id

\* session_open; sent says whether sendto took the session_accept.
SessionOpen(e, id, sent) ==
  LET kept == IF Changing(e, id) THEN WithoutDevices(session[e]) ELSE session[e]
      opened == [kept EXCEPT !.enabled = TRUE, !.session_id = id, !.rx = 0]
  IN /\ Heeded(e)
     /\ session' = [session EXCEPT ![e] =
          IF sent
          THEN [opened EXCEPT !.active = TRUE, !.open_sent = TRUE, !.tx = 0]
          ELSE opened]
     /\ controllers' = IF Changing(e, id) THEN RemoveDevicesOf({e}) ELSE controllers
     /\ UNCHANGED next_network_device_id

\* session_accept, from the configured source only.
SessionAccept(e, id) ==
  /\ e = udp_source
  /\ id = session[e].session_id
  /\ session' = [session EXCEPT
                   ![e] = [Heard(e) EXCEPT !.active = TRUE, !.open_sent = TRUE]]
  /\ UNCHANGED <<next_network_device_id, controllers>>

\* session_close: it names no session, it ends the endpoint's current one.
SessionClose(e) ==
  /\ Heeded(e) /\ session[e].enabled
  /\ session' = [session EXCEPT ![e] =
                   IF e = udp_source THEN [Ended(e) EXCEPT !.rx = 0] ELSE Ended(e)]
  /\ controllers' = RemoveDevicesOf({e})
  /\ UNCHANGED next_network_device_id

\* session_ping, answered with a session_pong while the session is active.
SessionPing(e, sent) ==
  /\ Heeded(e) /\ session[e].enabled /\ session[e].active
  /\ session' = [session EXCEPT
                   ![e] = IF sent THEN [Heard(e) EXCEPT !.tx = 0] ELSE Heard(e)]
  /\ UNCHANGED <<next_network_device_id, controllers>>

\* hid_device_add and semantic_device_add; added is what Runtime's
\* add_hid_source or add_semantic returned.  A failed add leaves the
\* controller a known device already has, and uses up the id of a new one.
DeviceAdd(e, s, added) ==
  LET known == session[e].devices[s] # 0
      id == IF known THEN session[e].devices[s] ELSE next_network_device_id
  IN /\ Heeded(e) /\ session[e].enabled /\ session[e].active
     /\ id \in NetworkIds
     /\ session' = [session EXCEPT ![e] =
          IF known \/ added THEN [Heard(e) EXCEPT !.devices[s] = id] ELSE Heard(e)]
     /\ next_network_device_id' =
          IF known THEN next_network_device_id ELSE next_network_device_id + 1
     /\ controllers' =
          IF added THEN [controllers EXCEPT ![id] = NewController(e, s)] ELSE controllers

\* Mutant: the id of a removed device is the next one handed out.
DeviceRemoveRecyclesId(e, s) ==
  LET id == session[e].devices[s]
  IN /\ Heeded(e) /\ session[e].enabled /\ session[e].active
     /\ id # 0
     /\ session' = [session EXCEPT ![e] = [Heard(e) EXCEPT !.devices[s] = 0]]
     /\ controllers' = [controllers EXCEPT ![id] = NoController]
     /\ next_network_device_id' = id

\* hid_device_remove of a mapped device.
DeviceRemove(e, s) ==
  LET id == session[e].devices[s]
  IN /\ Heeded(e) /\ session[e].enabled /\ session[e].active
     /\ id # 0
     /\ session' = [session EXCEPT ![e] = [Heard(e) EXCEPT !.devices[s] = 0]]
     /\ controllers' = [controllers EXCEPT ![id] = NoController]
     /\ UNCHANGED next_network_device_id

\* hid_input_report and semantic_input_state of a mapped device.
DeviceReport(e, s, sequence, usable) ==
  LET id == session[e].devices[s]
  IN /\ Heeded(e) /\ session[e].enabled /\ session[e].active
     /\ id # 0
     /\ session' = [session EXCEPT ![e] = Heard(e)]
     /\ controllers' = Reported(id, sequence, usable)
     /\ UNCHANGED next_network_device_id

Consume ==
  /\ phase = "receive"
  /\ phase' = "service"
  /\ UNCHANGED udp_source
  /\ \/ NoDatagram
     \/ \E e \in Endpoints :
          \/ DatagramNoted(e)
          \/ SessionClose(e)
          \/ \E id \in SessionIds : \E sent \in BOOLEAN : SessionOpen(e, id, sent)
          \/ \E id \in SessionIds : SessionAccept(e, id)
          \/ \E sent \in BOOLEAN : SessionPing(e, sent)
          \/ \E s \in SourceIds : \E added \in BOOLEAN : DeviceAdd(e, s, added)
          \/ \E s \in SourceIds : DeviceRemove(e, s)
          \/ \E s \in SourceIds, sequence \in Sequences : \E usable \in BOOLEAN :
               DeviceReport(e, s, sequence, usable)

-----------------------------------------------------------------------------
(* service_udp_session, for every session in one pass *)

\* Mutant: an open that was sent is not repeated.
OpenDueOnce(s) == s.enabled /\ ~s.open_sent

OpenDue(s) ==
  s.enabled /\ \/ ~s.open_sent
               \/ ~s.active /\ s.open >= OpenRetryTicks

\* Mutant: the timeout looks at what was sent, too.
TimedOutByActivity(s) ==
  LET idle == IF s.rx <= s.tx THEN s.rx ELSE s.tx
  IN /\ s.enabled /\ s.open_sent /\ s.active
     /\ idle # Never /\ idle >= TimeoutTicks

TimedOut(s) ==
  /\ s.enabled /\ s.open_sent /\ s.active
  /\ s.rx # Never /\ s.rx >= TimeoutTicks

\* Mutant: the next ping waits as long as the timeout.
PingDueLate(s) ==
  LET idle == IF s.rx <= s.tx THEN s.rx ELSE s.tx
  IN /\ s.enabled /\ s.open_sent /\ s.active /\ ~TimedOut(s)
     /\ idle # Never /\ idle >= KeepaliveTicks
     /\ s.ping >= TimeoutTicks

PingDue(s) ==
  LET idle == IF s.rx <= s.tx THEN s.rx ELSE s.tx
  IN /\ s.enabled /\ s.open_sent /\ s.active /\ ~TimedOut(s)
     /\ idle # Never /\ idle >= KeepaliveTicks
     /\ s.ping >= KeepaliveTicks

\* Mutant: a ping sent counts as a sign of life.
ServicedByPing(e) ==
  CASE OpenDue(session[e])  -> SessionOpenSent(session[e])
    [] TimedOut(session[e]) -> Ended(e)
    [] PingDue(session[e])  -> [session[e] EXCEPT !.ping = 0, !.tx = 0, !.rx = 0]
    [] OTHER                -> session[e]

Serviced(e) ==
  CASE OpenDue(session[e])  -> SessionOpenSent(session[e])
    [] TimedOut(session[e]) -> Ended(e)
    [] PingDue(session[e])  -> [session[e] EXCEPT !.ping = 0, !.tx = 0]
    [] OTHER                -> session[e]

Service ==
  /\ phase = "service"
  /\ phase' = "receive"
  /\ session' = [e \in Endpoints |-> Serviced(e)]
  /\ controllers' = RemoveDevicesOf({e \in Endpoints : TimedOut(session[e])})
  /\ UNCHANGED <<udp_source, next_network_device_id>>

-----------------------------------------------------------------------------
(* Time and the IOKit thread *)

Tick ==
  /\ session' = [e \in Endpoints |->
       [session[e] EXCEPT !.rx = Older(@), !.tx = Older(@),
                          !.ping = Older(@), !.open = Older(@)]]
  /\ UNCHANGED <<udp_source, next_network_device_id, controllers, phase>>

\* PhysicalHidSource::device_added, with Runtime::add_semantic succeeding.
PhysicalAdd(id) ==
  /\ controllers' = [controllers EXCEPT
                       ![id] = [owner |-> Local, session |-> 0, last |-> -1]]
  /\ UNCHANGED <<udp_source, session, next_network_device_id, phase>>

PhysicalRemove(id) ==
  /\ controllers[id].owner # Nobody
  /\ controllers' = [controllers EXCEPT ![id] = NoController]
  /\ UNCHANGED <<udp_source, session, next_network_device_id, phase>>

PhysicalReport(id, sequence) ==
  /\ controllers' = Reported(id, sequence, TRUE)
  /\ UNCHANGED <<udp_source, session, next_network_device_id, phase>>

Physical ==
  \E id \in PhysicalIds :
    \/ PhysicalAdd(id)
    \/ PhysicalRemove(id)
    \/ \E sequence \in Sequences : PhysicalReport(id, sequence)

-----------------------------------------------------------------------------

\* main: the configured source is enabled with a session id of its own and
\* serviced once before the loop, which sends its first session_open.
Init ==
  /\ udp_source \in Endpoints \cup {Nobody}
  /\ \E id \in SessionIds :
       session = [e \in Endpoints |->
         IF e = udp_source
         THEN SessionOpenSent([NoSession EXCEPT !.enabled = TRUE, !.session_id = id])
         ELSE NoSession]
  /\ next_network_device_id = FirstNetworkId
  /\ controllers = [id \in Ids |-> NoController]
  /\ phase = "receive"

Next == Consume \/ Service \/ Tick \/ Physical

Spec == Init /\ [][Next]_vars

-----------------------------------------------------------------------------
(* Properties *)

\* The values the variables take.
TypeOK ==
  /\ udp_source \in Endpoints \cup {Nobody}
  /\ session \in [Endpoints -> Session]
  /\ next_network_device_id \in FirstNetworkId..(LastNetworkId + 1)
  /\ controllers \in [Ids -> Controller]
  /\ phase \in {"receive", "service"}

\* The two tables the loop keeps apart, each session's devices and Runtime's
\* controllers_, agree: every mapped device has the controller that sends
\* its output to exactly that device, and every network controller has a
\* mapping through which a remove, a close or a timeout will find it.
ControllersAreOwned ==
  /\ \A e \in Endpoints, s \in SourceIds :
       session[e].devices[s] # 0 => controllers[session[e].devices[s]].owner = <<e, s>>
  /\ \A id \in NetworkIds : controllers[id].owner # Nobody =>
       \E e \in Endpoints, s \in SourceIds : session[e].devices[s] = id

\* No controller outlives the session it was added in (docs/protocol.md:
\* close or timeout removes the controllers owned by that session), also
\* when the endpoint opens a new session without closing the old one: its
\* sequence filter would drop the restarted numbering of the new session.
ControllersBelongToTheirSession ==
  \A e \in Endpoints, s \in SourceIds :
    LET id == session[e].devices[s]
    IN id # 0 => session[e].active /\ controllers[id].session = session[e].session_id

\* Nothing the loop does for a network session, whatever arrives and however
\* sessions end, reaches a controller of the IOKit thread.
SessionsLeavePhysicalAlone ==
  [][phase' # phase =>
       \A id \in PhysicalIds : controllers'[id] = controllers[id]]_vars

\* The registry of controller ids this machine implements: who owns each
\* network controller in Runtime, and which ids were handed out.
Registry == INSTANCE DeviceRegistry WITH
  Ids <- NetworkIds,
  owner <- [id \in NetworkIds |-> controllers[id].owner],
  used <- FirstNetworkId..(next_network_device_id - 1)

\* A controller id has one owner, endpoints release only their own devices,
\* and an id that was handed out is never handed out again, also when the
\* add it was reserved for failed.
RegistrySpec == Registry!RegistrySpec

=============================================================================

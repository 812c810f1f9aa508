--------------------------- MODULE SessionNetworkProofs ---------------------------
(***************************************************************************)
(* Proofs about UdpSessions for every set of endpoints, source ids,        *)
(* session ids and physical ids, and every bound; then about               *)
(* SessionNetwork, which is a restriction of UdpSessions: whatever its     *)
(* peers and its network do is something UdpSessions allows, so that what  *)
(* is proved of a bridge to which anything may arrive holds there.  Beside *)
(* that, what a joining peer and the bridge know of each other, and why    *)
(* the peer's reports pass the bridge's sequence filter.                   *)
(***************************************************************************)
EXTENDS SessionNetwork, TLAPS

-----------------------------------------------------------------------------
(* UdpSessions: a bridge to which anything may arrive *)

LEMMA AgeLemma ==
  /\ 0 \in Age /\ Never \in Age
  /\ \A age \in Age : Older(age) \in Age
BY TimeAssumption DEF Age, Never, Older

LEMMA NoSessionLemma == NoSession \in Session
BY AgeLemma DEF NoSession, Session, NoDevices

LEMMA SessionLemma ==
  ASSUME NEW s \in Session
  PROVE  /\ SessionOpenSent(s) \in Session
         /\ WithoutDevices(s) \in Session
         /\ [s EXCEPT !.rx = 0] \in Session
         /\ [s EXCEPT !.ping = 0, !.tx = 0] \in Session
<1>1. NoDevices \in [SourceIds -> NetworkIds \cup {0}]
  BY DEF NoDevices
<1> QED BY <1>1, AgeLemma DEF Session, SessionOpenSent, WithoutDevices

LEMMA EndedLemma ==
  ASSUME TypeOK, NEW e \in Endpoints
  PROVE  Ended(e) \in Session
<1>1. WithoutDevices(session[e]) \in Session
  BY SessionLemma DEF TypeOK
<1> QED BY <1>1, NoSessionLemma DEF Ended, Session

LEMMA ControllerLemma ==
  ASSUME TypeOK
  PROVE  /\ NoController \in Controller
         /\ \A e \in Endpoints, s \in SourceIds : NewController(e, s) \in Controller
         /\ \A ending \in SUBSET Endpoints : RemoveDevicesOf(ending) \in [Ids -> Controller]
         /\ \A id \in Ids, q \in Sequences, u \in BOOLEAN :
              Reported(id, q, u) \in [Ids -> Controller]
<1>1. NoController \in Controller
  BY DEF NoController, Controller
<1>2. \A e \in Endpoints, s \in SourceIds : NewController(e, s) \in Controller
  BY DEF NewController, Controller, TypeOK, Session, Devices
<1>3. \A ending \in SUBSET Endpoints : RemoveDevicesOf(ending) \in [Ids -> Controller]
  BY <1>1 DEF RemoveDevicesOf, TypeOK
<1>4. \A id \in Ids, q \in Sequences, u \in BOOLEAN :
              Reported(id, q, u) \in [Ids -> Controller]
  BY DEF Reported, TypeOK, Controller
<1> QED BY <1>1, <1>2, <1>3, <1>4

LEMMA TypeInit == Init => TypeOK
<1> SUFFICES ASSUME Init PROVE TypeOK
  OBVIOUS
<1>1. controllers \in [Ids -> Controller]
  BY DEF Init, NoController, Controller
<1>2. PICK id \in SessionIds : 
       session = [e \in Endpoints |->
         IF e = udp_source
         THEN SessionOpenSent([NoSession EXCEPT !.enabled = TRUE, !.session_id = id])
         ELSE NoSession]
  BY DEF Init
<1>3. [NoSession EXCEPT !.enabled = TRUE, !.session_id = id] \in Session
  BY NoSessionLemma DEF Session
<1>4. session \in [Endpoints -> Session]
  BY <1>2, <1>3, NoSessionLemma, SessionLemma
<1> QED BY <1>1, <1>4, IdAssumption DEF Init, TypeOK

LEMMA ConsumeType ==
  ASSUME TypeOK, Consume
  PROVE  TypeOK'
<1> USE DEF TypeOK
<1>0. udp_source' = udp_source /\ phase' = "service"
  BY DEF Consume
<1>1. \A e \in Endpoints : Heard(e) \in Session
  BY SessionLemma DEF Heard
<1>2. CASE NoDatagram
  BY <1>0, <1>2 DEF NoDatagram
<1>3. ASSUME NEW e \in Endpoints, DatagramNoted(e)
      PROVE  TypeOK'
  BY <1>0, <1>1, <1>3 DEF DatagramNoted
<1>4. ASSUME NEW e \in Endpoints, SessionClose(e)
      PROVE  TypeOK'
  <2>1. Ended(e) \in Session /\ [Ended(e) EXCEPT !.rx = 0] \in Session
    BY EndedLemma, SessionLemma
  <2>2. RemoveDevicesOf({e}) \in [Ids -> Controller]
    BY ControllerLemma
  <2> QED BY <1>0, <1>4, <2>1, <2>2 DEF SessionClose
<1>5. ASSUME NEW e \in Endpoints, NEW id \in SessionIds, NEW sent \in BOOLEAN,
             SessionOpen(e, id, sent)
      PROVE  TypeOK'
  <2>1. RemoveDevicesOf({e}) \in [Ids -> Controller]
    BY ControllerLemma
  <2> DEFINE kept == IF session[e].active /\ session[e].session_id # id
                     THEN WithoutDevices(session[e]) ELSE session[e]
             opened == [kept EXCEPT !.enabled = TRUE, !.session_id = id, !.rx = 0]
             now == IF sent
                    THEN [opened EXCEPT !.active = TRUE, !.open_sent = TRUE, !.tx = 0]
                    ELSE opened
  <2>2. kept \in Session
    BY SessionLemma
  <2>3. now \in Session
    <3> HIDE DEF kept
    <3>1. opened \in Session
      BY <2>2, AgeLemma DEF Session
    <3> HIDE DEF opened
    <3> QED BY <3>1, AgeLemma DEF Session
  <2>4. session' = [session EXCEPT ![e] = now]
    BY <1>5 DEF SessionOpen, Changing
  <2> HIDE DEF now
  <2> QED BY <1>0, <1>5, <2>1, <2>3, <2>4 DEF SessionOpen, Changing
<1>6. ASSUME NEW e \in Endpoints, NEW id \in SessionIds, SessionAccept(e, id)
      PROVE  TypeOK'
  <2>1. [Heard(e) EXCEPT !.active = TRUE, !.open_sent = TRUE] \in Session
    BY <1>1 DEF Session
  <2> QED BY <1>0, <1>6, <2>1 DEF SessionAccept
<1>7. ASSUME NEW e \in Endpoints, NEW sent \in BOOLEAN, SessionPing(e, sent)
      PROVE  TypeOK'
  <2>1. [Heard(e) EXCEPT !.tx = 0] \in Session
    BY <1>1, AgeLemma DEF Session
  <2> QED BY <1>0, <1>1, <1>7, <2>1 DEF SessionPing
<1>8. ASSUME NEW e \in Endpoints, NEW s \in SourceIds, NEW added \in BOOLEAN,
             DeviceAdd(e, s, added)
      PROVE  TypeOK'
  <2> DEFINE known == session[e].devices[s] # 0
             id == IF known THEN session[e].devices[s] ELSE next_network_device_id
  <2>1. id \in NetworkIds /\ id \in Ids
    BY <1>8 DEF DeviceAdd, Ids
  <2>2. [Heard(e) EXCEPT !.devices[s] = id] \in Session
    <3> HIDE DEF id
    <3> QED BY <1>1, <2>1 DEF Session
  <2>3. session' \in [Endpoints -> Session]
    BY <1>1, <1>8, <2>2 DEF DeviceAdd
  <2>4. next_network_device_id' \in FirstNetworkId..(LastNetworkId + 1)
    BY <1>8, IdAssumption DEF DeviceAdd, NetworkIds
  <2>5. controllers' \in [Ids -> Controller]
    BY <1>8, <2>1, ControllerLemma DEF DeviceAdd
  <2> QED BY <1>0, <2>3, <2>4, <2>5
<1>9. ASSUME NEW e \in Endpoints, NEW s \in SourceIds, DeviceRemove(e, s)
      PROVE  TypeOK'
  <2>1. [Heard(e) EXCEPT !.devices[s] = 0] \in Session
    BY <1>1 DEF Session
  <2> QED BY <1>0, <1>9, <2>1, ControllerLemma DEF DeviceRemove
<1>10. ASSUME NEW e \in Endpoints, NEW s \in SourceIds, NEW q \in Sequences,
              NEW usable \in BOOLEAN, DeviceReport(e, s, q, usable)
       PROVE  TypeOK'
  <2>1. session[e].devices[s] \in Ids
    BY <1>10 DEF DeviceReport, Session, Ids
  <2> QED BY <1>0, <1>1, <1>10, <2>1, ControllerLemma DEF DeviceReport
<1> QED
  BY <1>2, <1>3, <1>4, <1>5, <1>6, <1>7, <1>8, <1>9, <1>10 DEF Consume

LEMMA ServicedLemma ==
  ASSUME TypeOK, NEW e \in Endpoints
  PROVE  Serviced(e) \in Session
<1>1. session[e] \in Session
  BY DEF TypeOK
<1> QED BY <1>1, SessionLemma, EndedLemma DEF Serviced

LEMMA TypeNext == TypeOK /\ [Next]_vars => TypeOK'
<1> SUFFICES ASSUME TypeOK, [Next]_vars PROVE TypeOK'
  OBVIOUS
<1> USE DEF TypeOK
<1>1. CASE Consume
  BY <1>1, ConsumeType
<1>2. CASE Service
  <2>1. session' \in [Endpoints -> Session]
    BY <1>2, ServicedLemma DEF Service
  <2>2. controllers' \in [Ids -> Controller]
    BY <1>2, ControllerLemma DEF Service
  <2> QED BY <1>2, <2>1, <2>2 DEF Service
<1>3. CASE Tick
  <2>1. \A e \in Endpoints :
          [session[e] EXCEPT !.rx = Older(@), !.tx = Older(@),
                             !.ping = Older(@), !.open = Older(@)] \in Session
    BY AgeLemma DEF Session
  <2>2. session' \in [Endpoints -> Session]
    BY <1>3, <2>1 DEF Tick
  <2> QED BY <1>3, <2>2 DEF Tick
<1>4. CASE Physical
  <2>1. PICK id \in PhysicalIds :
          \/ PhysicalAdd(id) \/ PhysicalRemove(id)
          \/ \E q \in Sequences : PhysicalReport(id, q)
    BY <1>4 DEF Physical
  <2>2. id \in Ids
    BY DEF Ids
  <2>3. [owner |-> Local, session |-> 0, last |-> -1] \in Controller
    BY DEF Controller
  <2> QED BY <2>1, <2>2, <2>3, ControllerLemma
          DEF PhysicalAdd, PhysicalRemove, PhysicalReport
<1>5. CASE UNCHANGED vars
  BY <1>5 DEF vars
<1> QED BY <1>1, <1>2, <1>3, <1>4, <1>5 DEF Next

\* The variables keep the types the code declares.
THEOREM TypeCorrect == Spec => []TypeOK
BY TypeInit, TypeNext, PTL DEF Spec

-----------------------------------------------------------------------------
(* Ownership.  ControllersAreOwned is inductive only beside the fact that *)
(* every id in a mapping was handed out: otherwise the id of a new device *)
(* might be one another device already has.  That a controller was added  *)
(* in the present session is needed for a session_open that finds the     *)
(* session inactive: it changes the session id and removes nothing, which *)
(* is sound because an inactive session owns nothing.                     *)

IdsWereHandedOut ==
  \A e \in Endpoints, s \in SourceIds :
    session[e].devices[s] < next_network_device_id

IInv ==
  /\ TypeOK
  /\ ControllersAreOwned
  /\ ControllersBelongToTheirSession
  /\ IdsWereHandedOut

LEMMA OwnedInit == Init => IInv
<1> SUFFICES ASSUME Init PROVE IInv
  OBVIOUS
<1>1. \A e \in Endpoints : session[e].devices = NoDevices
  <2>1. PICK id \in SessionIds :
         session = [e \in Endpoints |->
           IF e = udp_source
           THEN SessionOpenSent([NoSession EXCEPT !.enabled = TRUE, !.session_id = id])
           ELSE NoSession]
    BY DEF Init
  <2> DEFINE first == [NoSession EXCEPT !.enabled = TRUE, !.session_id = id]
  <2>2. first \in Session /\ first.devices = NoDevices
    BY NoSessionLemma DEF Session, NoSession
  <2>3. SessionOpenSent(first).devices = NoDevices
    <3> HIDE DEF first
    <3> QED BY <2>2 DEF SessionOpenSent, Session
  <2>4. NoSession.devices = NoDevices
    BY DEF NoSession
  <2> QED BY <2>1, <2>3, <2>4
<1>2. \A e \in Endpoints, s \in SourceIds : session[e].devices[s] = 0
  BY <1>1 DEF NoDevices
<1>3. \A id \in NetworkIds : controllers[id].owner = Nobody
  BY DEF Init, NoController, Ids
<1>4. IdsWereHandedOut
  BY <1>2, IdAssumption DEF IdsWereHandedOut, Init
<1> QED
  BY <1>2, <1>3, <1>4, TypeInit
  DEF IInv, ControllersAreOwned, ControllersBelongToTheirSession

\* Steps that leave mappings, session ids and network controllers' owners alone.
LEMMA QuietStep ==
  ASSUME IInv, TypeOK',
         \A e \in Endpoints :
           /\ session'[e].devices = session[e].devices
           /\ session'[e].session_id = session[e].session_id
           /\ session[e].active => session'[e].active,
         \A id \in NetworkIds :
           /\ controllers'[id].owner = controllers[id].owner
           /\ controllers'[id].session = controllers[id].session,
         next_network_device_id' = next_network_device_id
  PROVE  IInv'
<1>1. \A e \in Endpoints, s \in SourceIds :
        session[e].devices[s] # 0 => session[e].devices[s] \in NetworkIds
  BY DEF IInv, TypeOK, Session
<1>2. ControllersAreOwned'
  <2>1. ASSUME NEW e \in Endpoints, NEW s \in SourceIds, session'[e].devices[s] # 0
        PROVE  controllers'[session'[e].devices[s]].owner = <<e, s>>
    BY <1>1, <2>1 DEF IInv, ControllersAreOwned
  <2>2. ASSUME NEW id \in NetworkIds, controllers'[id].owner # Nobody
        PROVE  \E e \in Endpoints, s \in SourceIds : session'[e].devices[s] = id
    <3>1. controllers[id].owner # Nobody
      BY <2>2
    <3>2. PICK e \in Endpoints, s \in SourceIds : session[e].devices[s] = id
      BY <3>1 DEF IInv, ControllersAreOwned
    <3> QED BY <3>2
  <2> QED BY <2>1, <2>2 DEF ControllersAreOwned
<1>3. ControllersBelongToTheirSession'
  BY <1>1 DEF IInv, ControllersBelongToTheirSession
<1>4. IdsWereHandedOut'
  BY DEF IInv, IdsWereHandedOut
<1> QED BY <1>2, <1>3, <1>4 DEF IInv

\* Steps that end sessions, or find them without devices.
LEMMA EndingStep ==
  ASSUME IInv, TypeOK', NEW ending \in SUBSET Endpoints,
         \A e \in ending : session'[e].devices = NoDevices,
         \A e \in Endpoints \ ending :
           /\ session'[e].devices = session[e].devices
           /\ session'[e].session_id = session[e].session_id
           /\ session[e].active => session'[e].active,
         \A id \in NetworkIds : controllers'[id] = RemoveDevicesOf(ending)[id],
         next_network_device_id' = next_network_device_id
  PROVE  IInv'
<1>1. \A e \in Endpoints, s \in SourceIds :
        session[e].devices[s] # 0 =>
          /\ session[e].devices[s] \in NetworkIds
          /\ controllers[session[e].devices[s]].owner = <<e, s>>
  BY DEF IInv, TypeOK, Session, ControllersAreOwned
<1>2. \A e \in ending, s \in SourceIds : session'[e].devices[s] = 0
  BY DEF NoDevices
<1>3. \A e \in Endpoints \ ending, s \in SourceIds :
        session[e].devices[s] # 0 =>
          controllers'[session[e].devices[s]] = controllers[session[e].devices[s]]
  <2> SUFFICES ASSUME NEW e \in Endpoints \ ending, NEW s \in SourceIds,
                      session[e].devices[s] # 0
               PROVE  controllers'[session[e].devices[s]]
                        = controllers[session[e].devices[s]]
    OBVIOUS
  <2> DEFINE id == session[e].devices[s]
  <2>1. \A f \in ending, r \in SourceIds : session[f].devices[r] # id
    BY <1>1
  <2> QED BY <1>1, <2>1 DEF RemoveDevicesOf, Ids
<1>4. ControllersAreOwned'
  <2>1. ASSUME NEW e \in Endpoints, NEW s \in SourceIds, session'[e].devices[s] # 0
        PROVE  controllers'[session'[e].devices[s]].owner = <<e, s>>
    <3>1. e \in Endpoints \ ending
      BY <1>2, <2>1
    <3>2. session'[e].devices[s] = session[e].devices[s]
      BY <3>1
    <3> QED BY <1>1, <1>3, <2>1, <3>1, <3>2
  <2>2. ASSUME NEW id \in NetworkIds, controllers'[id].owner # Nobody
        PROVE  \E e \in Endpoints, s \in SourceIds : session'[e].devices[s] = id
    <3>1. /\ controllers[id].owner # Nobody
          /\ \A e \in ending, s \in SourceIds : session[e].devices[s] # id
      BY <2>2 DEF RemoveDevicesOf, Ids, NoController
    <3>2. PICK e \in Endpoints, s \in SourceIds : session[e].devices[s] = id
      BY <3>1 DEF IInv, ControllersAreOwned
    <3> QED BY <3>1, <3>2
  <2> QED BY <2>1, <2>2 DEF ControllersAreOwned
<1>5. ControllersBelongToTheirSession'
  BY <1>1, <1>2, <1>3 DEF IInv, ControllersBelongToTheirSession
<1>6. IdsWereHandedOut'
  BY <1>2, IdAssumption DEF IInv, IdsWereHandedOut, TypeOK
<1> QED BY <1>4, <1>5, <1>6 DEF IInv

\* A device is added: the id is its own, or one nobody was given before.
LEMMA AddStep ==
  ASSUME IInv, TypeOK', NEW e \in Endpoints, NEW s \in SourceIds,
         NEW added \in BOOLEAN, DeviceAdd(e, s, added)
  PROVE  IInv'
<1> DEFINE known == session[e].devices[s] # 0
           id == IF known THEN session[e].devices[s] ELSE next_network_device_id
<1>1. id \in NetworkIds /\ id \in Ids /\ id # 0
  BY IdAssumption DEF DeviceAdd, Ids, NetworkIds
<1>2. \A f \in Endpoints, r \in SourceIds :
        /\ session[f].devices[r] = id => f = e /\ r = s
        /\ session[f].devices[r] # 0 => session[f].devices[r] \in NetworkIds
  BY <1>1 DEF IInv, TypeOK, Session, ControllersAreOwned, IdsWereHandedOut
<1>3. \A f \in Endpoints, r \in SourceIds :
        /\ <<f, r>> # <<e, s>> => session'[f].devices[r] = session[f].devices[r]
        /\ session'[f].session_id = session[f].session_id
        /\ session'[f].active = session[f].active
  BY DEF DeviceAdd, Heard, IInv, TypeOK, Session
<1>4. session'[e].devices[s] = IF known \/ added THEN id ELSE 0
  BY DEF DeviceAdd, Heard, IInv, TypeOK, Session
<1>5. controllers' = IF added THEN [controllers EXCEPT ![id] = NewController(e, s)]
                     ELSE controllers
  BY DEF DeviceAdd
<1>6. ControllersAreOwned'
  <2>1. ASSUME NEW f \in Endpoints, NEW r \in SourceIds, session'[f].devices[r] # 0
        PROVE  controllers'[session'[f].devices[r]].owner = <<f, r>>
    <3>1. CASE <<f, r>> = <<e, s>>
      <4>1. CASE added
        BY <1>1, <1>4, <1>5, <3>1, <4>1 DEF NewController, IInv, TypeOK
      <4>2. CASE ~added
        <5>1. f = e /\ r = s
          BY <3>1
        <5>2. known /\ session'[e].devices[s] = session[e].devices[s]
          BY <1>4, <2>1, <4>2, <5>1
        <5>3. controllers[session[e].devices[s]].owner = <<e, s>>
          BY <5>2 DEF IInv, ControllersAreOwned
        <5> QED BY <1>5, <4>2, <5>1, <5>2, <5>3
      <4> QED BY <4>1, <4>2
    <3>2. CASE <<f, r>> # <<e, s>>
      <4>1. /\ session[f].devices[r] # id
            /\ session'[f].devices[r] = session[f].devices[r]
        BY <1>2, <1>3, <3>2
      <4> QED BY <1>5, <2>1, <4>1 DEF IInv, ControllersAreOwned, TypeOK
    <3> QED BY <3>1, <3>2
  <2>2. ASSUME NEW i \in NetworkIds, controllers'[i].owner # Nobody
        PROVE  \E f \in Endpoints, r \in SourceIds : session'[f].devices[r] = i
    <3>1. CASE added /\ i = id
      BY <1>4, <3>1
    <3>2. CASE ~(added /\ i = id)
      <4>1. controllers[i].owner # Nobody
        BY <1>5, <2>2, <3>2 DEF IInv, TypeOK
      <4>2. PICK f \in Endpoints, r \in SourceIds : session[f].devices[r] = i
        BY <4>1 DEF IInv, ControllersAreOwned
      <4>3. i # 0
        BY IdAssumption DEF NetworkIds
      <4> QED BY <1>3, <1>4, <4>2, <4>3
    <3> QED BY <3>1, <3>2
  <2> QED BY <2>1, <2>2 DEF ControllersAreOwned
<1>7. ControllersBelongToTheirSession'
  <2> SUFFICES ASSUME NEW f \in Endpoints, NEW r \in SourceIds,
                      session'[f].devices[r] # 0
               PROVE  /\ session'[f].active
                      /\ controllers'[session'[f].devices[r]].session
                           = session'[f].session_id
    BY DEF ControllersBelongToTheirSession
  <2>1. CASE <<f, r>> = <<e, s>>
    <3>1. session'[e].active
      BY <1>3 DEF DeviceAdd
    <3>2. CASE added
      BY <1>1, <1>3, <1>4, <1>5, <2>1, <3>1, <3>2 DEF NewController, IInv, TypeOK
    <3>3. CASE ~added
      BY <1>3, <1>4, <1>5, <2>1, <3>1, <3>3 DEF IInv, ControllersBelongToTheirSession
    <3> QED BY <3>2, <3>3
  <2>2. CASE <<f, r>> # <<e, s>>
    <3>1. /\ session[f].devices[r] # id
          /\ session'[f].devices[r] = session[f].devices[r]
      BY <1>2, <1>3, <2>2
    <3> QED BY <1>3, <1>5, <3>1 DEF IInv, ControllersBelongToTheirSession, TypeOK
  <2> QED BY <2>1, <2>2
<1>8. IdsWereHandedOut'
  <2>1. next_network_device_id \in Nat /\ id < next_network_device_id'
    BY IdAssumption DEF IInv, IdsWereHandedOut, DeviceAdd, TypeOK
  <2>2. next_network_device_id <= next_network_device_id'
    BY <2>1, IdAssumption DEF DeviceAdd
  <2>3. id \in Nat /\ next_network_device_id' \in Nat
    BY <1>1, IdAssumption DEF TypeOK, NetworkIds
  <2> SUFFICES ASSUME NEW f \in Endpoints, NEW r \in SourceIds
               PROVE  session'[f].devices[r] < next_network_device_id'
    BY DEF IdsWereHandedOut
  <2>4. CASE <<f, r>> = <<e, s>>
    <3> HIDE DEF id, known
    <3>1. session'[f].devices[r] = id \/ session'[f].devices[r] = 0
      BY <1>4, <2>4
    <3> QED BY <2>1, <2>3, <3>1
  <2>5. CASE <<f, r>> # <<e, s>>
    <3>1. session'[f].devices[r] = session[f].devices[r]
      BY <1>3, <2>5
    <3>2. session[f].devices[r] < next_network_device_id
      BY DEF IInv, IdsWereHandedOut
    <3>3. session[f].devices[r] \in Nat
      BY IdAssumption DEF IInv, TypeOK, Session, NetworkIds
    <3> QED BY <2>1, <2>2, <2>3, <3>1, <3>2, <3>3
  <2> QED BY <2>4, <2>5
<1> QED BY <1>6, <1>7, <1>8 DEF IInv

LEMMA RemoveStep ==
  ASSUME IInv, TypeOK', NEW e \in Endpoints, NEW s \in SourceIds, DeviceRemove(e, s)
  PROVE  IInv'
<1> DEFINE id == session[e].devices[s]
<1>1. id # 0 /\ id \in NetworkIds /\ id \in Ids
  BY DEF DeviceRemove, IInv, TypeOK, Session, Ids
<1>2. \A f \in Endpoints, r \in SourceIds :
        session[f].devices[r] = id => f = e /\ r = s
  BY <1>1 DEF IInv, ControllersAreOwned
<1>3. \A f \in Endpoints, r \in SourceIds :
        /\ session'[f].devices[r]
              = IF f = e /\ r = s THEN 0 ELSE session[f].devices[r]
        /\ session'[f].session_id = session[f].session_id
        /\ session'[f].active = session[f].active
  BY DEF DeviceRemove, Heard, IInv, TypeOK, Session
<1>4. controllers' = [controllers EXCEPT ![id] = NoController]
  BY DEF DeviceRemove
<1>5. ControllersAreOwned'
  <2>1. ASSUME NEW f \in Endpoints, NEW r \in SourceIds, session'[f].devices[r] # 0
        PROVE  controllers'[session'[f].devices[r]].owner = <<f, r>>
    <3>1. /\ session'[f].devices[r] = session[f].devices[r]
          /\ session[f].devices[r] # 0
          /\ <<f, r>> # <<e, s>>
      BY <1>3, <2>1
    <3>2. controllers[session[f].devices[r]].owner = <<f, r>>
      BY <3>1 DEF IInv, ControllersAreOwned
    <3>3. session[f].devices[r] # id
      BY <1>2, <3>1
    <3> QED BY <1>4, <3>1, <3>2, <3>3 DEF IInv, TypeOK
  <2>2. ASSUME NEW i \in NetworkIds, controllers'[i].owner # Nobody
        PROVE  \E f \in Endpoints, r \in SourceIds : session'[f].devices[r] = i
    <3>1. i # id /\ controllers[i].owner # Nobody
      BY <1>1, <1>4, <2>2 DEF IInv, TypeOK, NoController
    <3> QED BY <1>3, <3>1 DEF IInv, ControllersAreOwned
  <2> QED BY <2>1, <2>2 DEF ControllersAreOwned
<1>6. ControllersBelongToTheirSession'
  BY <1>2, <1>3, <1>4 DEF IInv, TypeOK, ControllersBelongToTheirSession
<1>7. IdsWereHandedOut'
  BY <1>3, IdAssumption DEF IInv, IdsWereHandedOut, DeviceRemove, TypeOK
<1> QED BY <1>5, <1>6, <1>7 DEF IInv

\* What Runtime::input and raw_input change of a controller.
LEMMA ReportedLemma ==
  ASSUME TypeOK, NEW id \in Ids, NEW q \in Sequences, NEW usable \in BOOLEAN,
         NEW i \in Ids
  PROVE  /\ Reported(id, q, usable)[i].owner = controllers[i].owner
         /\ Reported(id, q, usable)[i].session = controllers[i].session
BY DEF Reported, TypeOK, Controller

LEMMA HeardLemma ==
  ASSUME TypeOK, NEW e \in Endpoints
  PROVE  /\ Heard(e).devices = session[e].devices
         /\ Heard(e).session_id = session[e].session_id
         /\ Heard(e).active = session[e].active
BY DEF Heard, TypeOK, Session

LEMMA EndedDevices ==
  ASSUME TypeOK, NEW e \in Endpoints
  PROVE  /\ Ended(e).devices = NoDevices
         /\ [Ended(e) EXCEPT !.rx = 0].devices = NoDevices
<1>1. WithoutDevices(session[e]) \in Session /\ WithoutDevices(session[e]).devices = NoDevices
  BY SessionLemma DEF WithoutDevices, TypeOK, Session
<1>2. Ended(e) \in Session
  BY EndedLemma
<1>3. Ended(e).devices = NoDevices
  BY <1>1 DEF Ended, NoSession, Session
<1> QED BY <1>2, <1>3 DEF Session

LEMMA ConsumeOwned ==
  ASSUME IInv, Consume, TypeOK'
  PROVE  IInv'
<1>0. TypeOK
  BY DEF IInv
<1>1. CASE NoDatagram
  BY <1>1, QuietStep DEF NoDatagram
<1>2. ASSUME NEW e \in Endpoints, DatagramNoted(e)
      PROVE  IInv'
  BY <1>0, <1>2, HeardLemma, QuietStep DEF DatagramNoted, TypeOK
<1>3. ASSUME NEW e \in Endpoints, SessionClose(e)
      PROVE  IInv'
  <2>1. session'[e].devices = NoDevices
    BY <1>0, <1>3, EndedDevices DEF SessionClose, TypeOK
  <2>2. \A f \in Endpoints \ {e} : session'[f] = session[f]
    BY <1>0, <1>3 DEF SessionClose, TypeOK
  <2> QED BY <1>3, <2>1, <2>2, EndingStep DEF SessionClose
<1>4. ASSUME NEW e \in Endpoints, NEW id \in SessionIds, NEW sent \in BOOLEAN,
             SessionOpen(e, id, sent)
      PROVE  IInv'
  <2> DEFINE changing == session[e].active /\ session[e].session_id # id
             kept == IF changing THEN WithoutDevices(session[e]) ELSE session[e]
             opened == [kept EXCEPT !.enabled = TRUE, !.session_id = id, !.rx = 0]
             now == IF sent
                    THEN [opened EXCEPT !.active = TRUE, !.open_sent = TRUE, !.tx = 0]
                    ELSE opened
  <2>1. session[e] \in Session /\ kept \in Session
    BY <1>0, SessionLemma DEF TypeOK
  <2>2. /\ now.devices = kept.devices
        /\ now.session_id = id
        /\ kept.active => now.active
    <3> HIDE DEF kept
    <3>1. /\ opened \in Session
          /\ opened.devices = kept.devices
          /\ opened.session_id = id
          /\ opened.active = kept.active
      BY <2>1, AgeLemma DEF Session
    <3> HIDE DEF opened
    <3> QED BY <3>1 DEF Session
  <2>3. session' = [session EXCEPT ![e] = now]
    BY <1>4 DEF SessionOpen, Changing
  <2> HIDE DEF now
  <2>4. /\ session'[e] = now
        /\ \A f \in Endpoints \ {e} : session'[f] = session[f]
    BY <1>0, <2>3 DEF TypeOK
  <2>5. CASE changing
    <3>1. kept.devices = NoDevices
      BY <2>1, <2>5 DEF WithoutDevices, Session
    <3>2. controllers' = RemoveDevicesOf({e})
      BY <1>4, <2>5 DEF SessionOpen, Changing
    <3> HIDE DEF kept, changing
    <3> QED BY <1>4, <2>2, <2>4, <3>1, <3>2, EndingStep DEF SessionOpen, Changing
  <2>6. CASE ~session[e].active
    <3>1. session[e].devices = NoDevices
      <4>1. \A s \in SourceIds : session[e].devices[s] = 0
        BY <2>6 DEF IInv, ControllersBelongToTheirSession
      <4> QED BY <2>1, <4>1 DEF Session, NoDevices
    <3>2. session'[e].devices = NoDevices
      BY <2>2, <2>4, <2>6, <3>1
    <3>3. \A i \in NetworkIds : controllers'[i] = RemoveDevicesOf({e})[i]
      <4>1. \A s \in SourceIds : session[e].devices[s] = 0
        BY <3>1 DEF NoDevices
      <4>2. \A i \in NetworkIds : i # 0 /\ i \in Ids
        BY IdAssumption DEF NetworkIds, Ids
      <4>3. controllers' = controllers
        BY <1>4, <2>6 DEF SessionOpen, Changing
      <4> QED BY <4>1, <4>2, <4>3 DEF RemoveDevicesOf
    <3> QED BY <1>4, <2>4, <3>2, <3>3, EndingStep DEF SessionOpen, Changing
  <2>7. CASE session[e].active /\ session[e].session_id = id
    <3>1. kept = session[e] /\ controllers' = controllers
      BY <1>4, <2>7 DEF SessionOpen, Changing
    <3> HIDE DEF kept
    <3> QED BY <1>4, <2>2, <2>4, <2>7, <3>1, QuietStep DEF SessionOpen, Changing
  <2> QED BY <2>5, <2>6, <2>7
<1>5. ASSUME NEW e \in Endpoints, NEW id \in SessionIds, SessionAccept(e, id)
      PROVE  IInv'
  <2> DEFINE now == [Heard(e) EXCEPT !.active = TRUE, !.open_sent = TRUE]
  <2>1. Heard(e) \in Session
    BY <1>0, SessionLemma DEF Heard, TypeOK
  <2>2. /\ now.devices = session[e].devices
        /\ now.session_id = session[e].session_id
        /\ now.active
    BY <1>0, <2>1, HeardLemma DEF Session
  <2>3. session' = [session EXCEPT ![e] = now]
    BY <1>5 DEF SessionAccept
  <2> HIDE DEF now
  <2> QED BY <1>0, <1>5, <2>2, <2>3, QuietStep DEF SessionAccept, TypeOK
<1>6. ASSUME NEW e \in Endpoints, NEW sent \in BOOLEAN, SessionPing(e, sent)
      PROVE  IInv'
  <2> DEFINE now == IF sent THEN [Heard(e) EXCEPT !.tx = 0] ELSE Heard(e)
  <2>1. Heard(e) \in Session
    BY <1>0, SessionLemma DEF Heard, TypeOK
  <2>2. /\ now.devices = session[e].devices
        /\ now.session_id = session[e].session_id
        /\ now.active = session[e].active
    BY <1>0, <2>1, HeardLemma DEF Session
  <2>3. session' = [session EXCEPT ![e] = now]
    BY <1>6 DEF SessionPing
  <2> HIDE DEF now
  <2> QED BY <1>0, <1>6, <2>2, <2>3, QuietStep DEF SessionPing, TypeOK
<1>7. ASSUME NEW e \in Endpoints, NEW s \in SourceIds, NEW added \in BOOLEAN,
             DeviceAdd(e, s, added)
      PROVE  IInv'
  BY <1>7, AddStep
<1>8. ASSUME NEW e \in Endpoints, NEW s \in SourceIds, DeviceRemove(e, s)
      PROVE  IInv'
  BY <1>8, RemoveStep
<1>9. ASSUME NEW e \in Endpoints, NEW s \in SourceIds, NEW q \in Sequences,
             NEW usable \in BOOLEAN, DeviceReport(e, s, q, usable)
      PROVE  IInv'
  <2>1. session[e].devices[s] \in Ids
    BY <1>0, <1>9 DEF DeviceReport, TypeOK, Session, Ids
  <2>2. \A i \in NetworkIds :
          /\ controllers'[i].owner = controllers[i].owner
          /\ controllers'[i].session = controllers[i].session
    BY <1>0, <1>9, <2>1, ReportedLemma DEF DeviceReport, Ids
  <2>3. \A f \in Endpoints :
          /\ session'[f].devices = session[f].devices
          /\ session'[f].session_id = session[f].session_id
          /\ session'[f].active = session[f].active
    BY <1>0, <1>9, HeardLemma DEF DeviceReport, TypeOK
  <2> QED BY <1>9, <2>2, <2>3, QuietStep DEF DeviceReport
<1> QED
  BY <1>1, <1>2, <1>3, <1>4, <1>5, <1>6, <1>7, <1>8, <1>9 DEF Consume

LEMMA ServiceOwned ==
  ASSUME IInv, Service, TypeOK'
  PROVE  IInv'
<1> DEFINE ending == {e \in Endpoints : TimedOut(session[e])}
<1>0. TypeOK /\ \A e \in Endpoints : session[e] \in Session
  BY DEF IInv, TypeOK
<1>1. \A e \in Endpoints : session'[e] = Serviced(e)
  BY DEF Service
<1>2. \A e \in ending : session'[e].devices = NoDevices
  <2> SUFFICES ASSUME NEW e \in Endpoints, TimedOut(session[e])
               PROVE  Serviced(e).devices = NoDevices
    BY <1>1
  <2>1. ~OpenDue(session[e])
    BY <1>0 DEF TimedOut, OpenDue, Session
  <2> QED BY <1>0, <2>1, EndedDevices DEF Serviced, PingDue
<1>3. \A e \in Endpoints \ ending :
        /\ session'[e].devices = session[e].devices
        /\ session'[e].session_id = session[e].session_id
        /\ session[e].active => session'[e].active
  <2> SUFFICES ASSUME NEW e \in Endpoints, ~TimedOut(session[e])
               PROVE  /\ Serviced(e).devices = session[e].devices
                      /\ Serviced(e).session_id = session[e].session_id
                      /\ Serviced(e).active = session[e].active
    BY <1>1
  <2>1. SessionOpenSent(session[e]).devices = session[e].devices
        /\ SessionOpenSent(session[e]).session_id = session[e].session_id
        /\ SessionOpenSent(session[e]).active = session[e].active
    BY <1>0 DEF SessionOpenSent, Session
  <2>2. [session[e] EXCEPT !.ping = 0, !.tx = 0].devices = session[e].devices
        /\ [session[e] EXCEPT !.ping = 0, !.tx = 0].session_id = session[e].session_id
        /\ [session[e] EXCEPT !.ping = 0, !.tx = 0].active = session[e].active
    BY <1>0 DEF Session
  <2>3. CASE OpenDue(session[e])
    <3>1. ~PingDue(session[e])
      BY <1>0, <2>3 DEF OpenDue, PingDue, Session
    <3> QED BY <2>1, <2>3, <3>1 DEF Serviced
  <2>4. CASE PingDue(session[e]) /\ ~OpenDue(session[e])
    BY <2>2, <2>4 DEF Serviced
  <2>5. CASE ~PingDue(session[e]) /\ ~OpenDue(session[e])
    BY <2>5 DEF Serviced
  <2> QED BY <2>3, <2>4, <2>5
<1>4. /\ controllers' = RemoveDevicesOf(ending)
      /\ next_network_device_id' = next_network_device_id
  BY DEF Service
<1>5. ending \in SUBSET Endpoints
  OBVIOUS
<1> HIDE DEF ending
<1> QED BY <1>2, <1>3, <1>4, <1>5, EndingStep

LEMMA OwnedNext == IInv /\ [Next]_vars => IInv'
<1> SUFFICES ASSUME IInv, [Next]_vars PROVE IInv'
  OBVIOUS
<1>0. TypeOK /\ TypeOK'
  BY TypeNext DEF IInv
<1>1. CASE Consume
  BY <1>0, <1>1, ConsumeOwned
<1>2. CASE Service
  BY <1>0, <1>2, ServiceOwned
<1>3. CASE Tick
  <2>1. \A e \in Endpoints :
          /\ session'[e].devices = session[e].devices
          /\ session'[e].session_id = session[e].session_id
          /\ session'[e].active = session[e].active
    <3> SUFFICES ASSUME NEW e \in Endpoints
                 PROVE  /\ session'[e].devices = session[e].devices
                        /\ session'[e].session_id = session[e].session_id
                        /\ session'[e].active = session[e].active
      OBVIOUS
    <3>1. session[e] \in Session
      BY <1>0 DEF TypeOK
    <3>2. session'[e] = [session[e] EXCEPT !.rx = Older(@), !.tx = Older(@),
                                           !.ping = Older(@), !.open = Older(@)]
      BY <1>3 DEF Tick
    <3> QED BY <3>1, <3>2 DEF Session
  <2> QED BY <1>0, <1>3, <2>1, QuietStep DEF Tick
<1>4. CASE Physical
  <2>1. PICK id \in PhysicalIds :
          \/ PhysicalAdd(id) \/ PhysicalRemove(id)
          \/ \E q \in Sequences : PhysicalReport(id, q)
    BY <1>4 DEF Physical
  <2>2. id \in Ids /\ \A i \in NetworkIds : i \in Ids /\ i # id
    BY IdAssumption DEF Ids, NetworkIds
  <2>3. \A i \in NetworkIds :
          /\ controllers'[i].owner = controllers[i].owner
          /\ controllers'[i].session = controllers[i].session
    <3>1. CASE PhysicalAdd(id) \/ PhysicalRemove(id)
      BY <1>0, <2>2, <3>1 DEF PhysicalAdd, PhysicalRemove, TypeOK
    <3>2. CASE \E q \in Sequences : PhysicalReport(id, q)
      <4>1. PICK q \in Sequences : controllers' = Reported(id, q, TRUE)
        BY <3>2 DEF PhysicalReport
      <4>2. TRUE \in BOOLEAN
        OBVIOUS
      <4>3. \A i \in Ids :
              /\ Reported(id, q, TRUE)[i].owner = controllers[i].owner
              /\ Reported(id, q, TRUE)[i].session = controllers[i].session
        BY <1>0, <2>2, <4>2, ReportedLemma
      <4> QED BY <2>2, <4>1, <4>3
    <3> QED BY <2>1, <3>1, <3>2
  <2>4. UNCHANGED <<session, next_network_device_id>>
    BY <2>1 DEF PhysicalAdd, PhysicalRemove, PhysicalReport
  <2> QED BY <1>0, <2>3, <2>4, QuietStep
<1>5. CASE UNCHANGED vars
  BY <1>0, <1>5, QuietStep DEF vars
<1> QED BY <1>1, <1>2, <1>3, <1>4, <1>5 DEF Next

THEOREM InductiveInvariant == Spec => []IInv
BY OwnedInit, OwnedNext, PTL DEF Spec

\* Runtime's network controllers are exactly those the sessions' mappings
\* name, each with the route of the device that maps to it.
THEOREM Ownership == Spec => []ControllersAreOwned
<1>1. IInv => ControllersAreOwned
  BY DEF IInv
<1> QED BY <1>1, InductiveInvariant, PTL

\* A controller never outlives the session it was added in.
THEOREM SessionScope == Spec => []ControllersBelongToTheirSession
<1>1. IInv => ControllersBelongToTheirSession
  BY DEF IInv
<1> QED BY <1>1, InductiveInvariant, PTL

-----------------------------------------------------------------------------
(* The loop and the IOKit thread share controllers_ and nothing else. *)

LEMMA PhysicalLeft ==
  ASSUME IInv, [Next]_vars, phase' # phase, NEW id \in PhysicalIds
  PROVE  controllers'[id] = controllers[id]
<1>0. TypeOK
  BY DEF IInv
<1>1. id \in Ids /\ id \notin NetworkIds /\ id # 0
  BY IdAssumption DEF Ids, NetworkIds
<1>2. \A e \in Endpoints, s \in SourceIds : session[e].devices[s] \in NetworkIds \cup {0}
  BY <1>0 DEF TypeOK, Session
<1>3. ASSUME NEW ending \in SUBSET Endpoints
      PROVE  RemoveDevicesOf(ending)[id] = controllers[id]
  BY <1>1, <1>2 DEF RemoveDevicesOf
<1>4. CASE Service
  BY <1>3, <1>4 DEF Service
<1>5. CASE Consume
  <2>1. ASSUME NEW e \in Endpoints, NEW s \in SourceIds, NEW added \in BOOLEAN,
               DeviceAdd(e, s, added)
        PROVE  controllers'[id] = controllers[id]
    <3>1. PICK mine \in NetworkIds :
            controllers' = IF added THEN [controllers EXCEPT ![mine] = NewController(e, s)]
                           ELSE controllers
      BY <2>1 DEF DeviceAdd
    <3> QED BY <1>0, <1>1, <3>1 DEF TypeOK
  <2>2. ASSUME NEW e \in Endpoints, NEW s \in SourceIds, DeviceRemove(e, s)
        PROVE  controllers'[id] = controllers[id]
    BY <1>0, <1>1, <1>2, <2>2 DEF DeviceRemove, TypeOK
  <2>3. ASSUME NEW e \in Endpoints, NEW s \in SourceIds, NEW q \in Sequences,
               NEW usable \in BOOLEAN, DeviceReport(e, s, q, usable)
        PROVE  controllers'[id] = controllers[id]
    BY <1>0, <1>1, <1>2, <2>3 DEF DeviceReport, Reported, TypeOK
  <2>4. ASSUME NEW e \in Endpoints, SessionClose(e)
        PROVE  controllers'[id] = controllers[id]
    BY <1>3, <2>4 DEF SessionClose
  <2>5. ASSUME NEW e \in Endpoints, NEW i \in SessionIds, NEW sent \in BOOLEAN,
               SessionOpen(e, i, sent)
        PROVE  controllers'[id] = controllers[id]
    BY <1>3, <2>5 DEF SessionOpen
  <2>6. ASSUME NEW e \in Endpoints,
               \/ DatagramNoted(e)
               \/ \E i \in SessionIds : SessionAccept(e, i)
               \/ \E sent \in BOOLEAN : SessionPing(e, sent)
        PROVE  controllers' = controllers
    BY <2>6 DEF DatagramNoted, SessionAccept, SessionPing
  <2>7. CASE NoDatagram
    BY <2>7 DEF NoDatagram
  <2> QED BY <1>5, <2>1, <2>2, <2>3, <2>4, <2>5, <2>6, <2>7 DEF Consume
<1>6. phase' = phase \/ Consume \/ Service
  BY DEF Next, Tick, Physical, PhysicalAdd, PhysicalRemove, PhysicalReport, vars
<1> QED BY <1>4, <1>5, <1>6

\* Whatever the network sends, no step of the loop changes a controller the
\* IOKit thread published.
THEOREM PhysicalSafe == Spec => SessionsLeavePhysicalAlone
<1>1. IInv /\ [Next]_vars => [phase' # phase =>
        \A id \in PhysicalIds : controllers'[id] = controllers[id]]_vars
  BY PhysicalLeft
<1> QED BY <1>1, InductiveInvariant, PTL DEF Spec, SessionsLeavePhysicalAlone

-----------------------------------------------------------------------------
(* The sessions implement the registry of controller ids. *)

LEMMA RegistryInitLemma == Init => Registry!RegistryInit
<1> SUFFICES ASSUME Init PROVE Registry!RegistryInit
  OBVIOUS
<1>1. \A id \in NetworkIds : controllers[id].owner = Nobody
  BY DEF Init, NoController, Ids
<1>2. FirstNetworkId..(next_network_device_id - 1) = {}
  BY IdAssumption DEF Init
<1> QED BY <1>1, <1>2 DEF Registry!RegistryInit

LEMMA RegistryNextLemma ==
  ASSUME IInv, IInv', [Next]_vars
  PROVE  [Registry!RegistryNext]_(Registry!registryVars)
<1>0. TypeOK /\ TypeOK'
  BY DEF IInv
<1>ids. \A id \in NetworkIds : id \in Ids /\ id # 0 /\ id \notin PhysicalIds
  BY IdAssumption DEF NetworkIds, Ids
<1>same. ASSUME \A id \in NetworkIds : controllers'[id].owner = controllers[id].owner,
                next_network_device_id' = next_network_device_id
         PROVE  UNCHANGED Registry!registryVars
  BY <1>same DEF Registry!registryVars
<1>ending. ASSUME NEW ending \in SUBSET Endpoints,
                  controllers' = RemoveDevicesOf(ending),
                  next_network_device_id' = next_network_device_id
           PROVE  Registry!RegistryNext
  <2>1. ASSUME NEW id \in NetworkIds
        PROVE  controllers'[id].owner =
                 IF \E e \in ending, s \in SourceIds : controllers[id].owner = <<e, s>>
                 THEN Nobody ELSE controllers[id].owner
    <3>1. (\E e \in ending : \E s \in SourceIds : session[e].devices[s] = id)
            <=> \E e \in ending, s \in SourceIds : controllers[id].owner = <<e, s>>
      <4>1. ASSUME NEW e \in ending, NEW s \in SourceIds, session[e].devices[s] = id
            PROVE  controllers[id].owner = <<e, s>>
        BY <1>ids, <4>1 DEF IInv, ControllersAreOwned
      <4>2. ASSUME NEW e \in ending, NEW s \in SourceIds,
                   controllers[id].owner = <<e, s>>
            PROVE  session[e].devices[s] = id
        <5>1. controllers[id].owner # Nobody
          BY <4>2, NameAssumption DEF Devices
        <5>2. PICK f \in Endpoints, r \in SourceIds : session[f].devices[r] = id
          BY <5>1 DEF IInv, ControllersAreOwned
        <5>3. controllers[id].owner = <<f, r>>
          BY <1>ids, <5>2 DEF IInv, ControllersAreOwned
        <5> QED BY <4>2, <5>2, <5>3
      <4> QED BY <4>1, <4>2
    <3> QED BY <1>ids, <1>ending, <3>1 DEF RemoveDevicesOf, NoController
  <2>2. Registry!ReleaseAll(ending)
    BY <1>ending, <2>1 DEF Registry!ReleaseAll
  <2> QED BY <2>2 DEF Registry!RegistryNext
<1>add. ASSUME NEW e \in Endpoints, NEW s \in SourceIds, NEW added \in BOOLEAN,
               DeviceAdd(e, s, added)
        PROVE  [Registry!RegistryNext]_(Registry!registryVars)
  <2>1. NewController(e, s).owner = <<e, s>>
    BY DEF NewController
  <2>2. CASE session[e].devices[s] # 0
    <3>1. /\ session[e].devices[s] \in Ids
          /\ controllers[session[e].devices[s]].owner = <<e, s>>
          /\ next_network_device_id' = next_network_device_id
      BY <1>0, <1>add, <2>2 DEF DeviceAdd, IInv, ControllersAreOwned, Ids
    <3>2. \A id \in NetworkIds : controllers'[id].owner = controllers[id].owner
      BY <1>0, <1>ids, <1>add, <2>1, <2>2, <3>1 DEF DeviceAdd, TypeOK
    <3> QED BY <1>same, <3>1, <3>2
  <2>3. CASE session[e].devices[s] = 0
    <3>0. PICK fresh \in NetworkIds : fresh = next_network_device_id
      BY <1>add, <2>3 DEF DeviceAdd
    <3>1. /\ next_network_device_id' = fresh + 1
          /\ controllers' = IF added
                            THEN [controllers EXCEPT ![fresh] = NewController(e, s)]
                            ELSE controllers
      BY <1>add, <2>3, <3>0 DEF DeviceAdd
    <3>2. /\ fresh \notin FirstNetworkId..(fresh - 1)
          /\ FirstNetworkId..((fresh + 1) - 1) = FirstNetworkId..(fresh - 1) \cup {fresh}
      BY <3>0, <3>1, IdAssumption DEF NetworkIds
    <3>3. CASE ~added
      <4>1. Registry!Waste(fresh)
        BY <3>0, <3>1, <3>2, <3>3 DEF Registry!Waste
      <4> QED BY <4>1 DEF Registry!RegistryNext
    <3>4. CASE added
      <4>1. ASSUME NEW id \in NetworkIds PROVE controllers[id].owner # <<e, s>>
        <5>1. SUFFICES ASSUME controllers[id].owner = <<e, s>> PROVE FALSE
          OBVIOUS
        <5>2. controllers[id].owner # Nobody
          BY <5>1, NameAssumption DEF Devices
        <5>3. PICK f \in Endpoints, r \in SourceIds : session[f].devices[r] = id
          BY <5>2 DEF IInv, ControllersAreOwned
        <5>4. controllers[id].owner = <<f, r>>
          BY <1>ids, <5>3 DEF IInv, ControllersAreOwned
        <5> QED BY <1>ids, <2>3, <5>1, <5>3, <5>4
      <4>2. \A id \in NetworkIds :
              controllers'[id].owner = IF id = fresh THEN <<e, s>> ELSE controllers[id].owner
        BY <1>0, <1>ids, <2>1, <3>0, <3>1, <3>4 DEF TypeOK
      <4>3. <<e, s>> \in Registry!Devices
        BY DEF Registry!Devices
      <4>4. Registry!Claim(<<e, s>>, fresh)
        <5>1. [id \in NetworkIds |-> controllers'[id].owner]
                = [[id \in NetworkIds |-> controllers[id].owner] EXCEPT ![fresh] = <<e, s>>]
          BY <4>2
        <5>2. FirstNetworkId..(next_network_device_id' - 1)
                = FirstNetworkId..(fresh - 1) \cup {fresh}
          BY <3>1, <3>2
        <5> QED BY <3>0, <3>2, <4>1, <5>1, <5>2 DEF Registry!Claim
      <4> QED BY <4>3, <4>4 DEF Registry!RegistryNext
    <3> QED BY <3>3, <3>4
  <2> QED BY <2>2, <2>3
<1>remove. ASSUME NEW e \in Endpoints, NEW s \in SourceIds, DeviceRemove(e, s)
           PROVE  Registry!RegistryNext
  <2> DEFINE gone == session[e].devices[s]
  <2>1. /\ gone \in NetworkIds /\ gone # 0 /\ gone \in Ids
        /\ controllers[gone].owner = <<e, s>>
        /\ controllers' = [controllers EXCEPT ![gone] = NoController]
        /\ next_network_device_id' = next_network_device_id
    BY <1>0, <1>remove DEF DeviceRemove, IInv, ControllersAreOwned, TypeOK, Session, Ids
  <2>2. \A id \in NetworkIds : controllers[id].owner = <<e, s>> => id = gone
    <3> SUFFICES ASSUME NEW id \in NetworkIds, controllers[id].owner = <<e, s>>
                 PROVE  id = gone
      OBVIOUS
    <3>1. controllers[id].owner # Nobody
      BY NameAssumption DEF Devices
    <3>2. PICK f \in Endpoints, r \in SourceIds : session[f].devices[r] = id
      BY <3>1 DEF IInv, ControllersAreOwned
    <3>3. controllers[id].owner = <<f, r>>
      BY <1>ids, <3>2 DEF IInv, ControllersAreOwned
    <3> QED BY <3>2, <3>3
  <2> HIDE DEF gone
  <2>3. \A id \in NetworkIds :
          controllers'[id].owner =
            IF controllers[id].owner = <<e, s>> THEN Nobody ELSE controllers[id].owner
    BY <1>0, <1>ids, <2>1, <2>2 DEF TypeOK, NoController
  <2>4. Registry!Release(<<e, s>>)
    BY <2>1, <2>3 DEF Registry!Release
  <2>5. <<e, s>> \in Registry!Devices
    BY DEF Registry!Devices
  <2> QED BY <2>4, <2>5 DEF Registry!RegistryNext
<1>1. CASE Consume
  <2>1. CASE NoDatagram
    BY <1>same, <2>1 DEF NoDatagram
  <2>2. ASSUME NEW e \in Endpoints,
               \/ DatagramNoted(e)
               \/ \E id \in SessionIds : SessionAccept(e, id)
               \/ \E sent \in BOOLEAN : SessionPing(e, sent)
        PROVE  UNCHANGED Registry!registryVars
    BY <1>same, <2>2 DEF DatagramNoted, SessionAccept, SessionPing
  <2>3. ASSUME NEW e \in Endpoints, SessionClose(e)
        PROVE  Registry!RegistryNext
    BY <1>ending, <2>3 DEF SessionClose
  <2>4. ASSUME NEW e \in Endpoints, NEW id \in SessionIds, NEW sent \in BOOLEAN,
               SessionOpen(e, id, sent)
        PROVE  [Registry!RegistryNext]_(Registry!registryVars)
    <3>1. /\ next_network_device_id' = next_network_device_id
          /\ controllers' = RemoveDevicesOf({e}) \/ controllers' = controllers
      BY <2>4 DEF SessionOpen, Changing
    <3> QED BY <1>ending, <1>same, <3>1
  <2>5. ASSUME NEW e \in Endpoints, NEW s \in SourceIds, NEW q \in Sequences,
               NEW usable \in BOOLEAN, DeviceReport(e, s, q, usable)
        PROVE  UNCHANGED Registry!registryVars
    <3>1. session[e].devices[s] \in Ids
      BY <1>0, <2>5 DEF DeviceReport, TypeOK, Session, Ids
    <3>2. \A id \in NetworkIds : controllers'[id].owner = controllers[id].owner
      BY <1>0, <1>ids, <2>5, <3>1, ReportedLemma DEF DeviceReport
    <3> QED BY <1>same, <2>5, <3>2 DEF DeviceReport
  <2> QED
    BY <1>1, <1>add, <1>remove, <2>1, <2>2, <2>3, <2>4, <2>5 DEF Consume
<1>2. CASE Service
  BY <1>2, <1>ending DEF Service
<1>3. CASE Tick
  BY <1>3, <1>same DEF Tick
<1>4. CASE Physical
  <2>1. PICK id \in PhysicalIds :
          \/ PhysicalAdd(id) \/ PhysicalRemove(id)
          \/ \E q \in Sequences : PhysicalReport(id, q)
    BY <1>4 DEF Physical
  <2>2. next_network_device_id' = next_network_device_id
    BY <2>1 DEF PhysicalAdd, PhysicalRemove, PhysicalReport
  <2>3. CASE PhysicalAdd(id) \/ PhysicalRemove(id)
    BY <1>0, <1>ids, <1>same, <2>2, <2>3 DEF PhysicalAdd, PhysicalRemove, TypeOK
  <2>4. CASE \E q \in Sequences : PhysicalReport(id, q)
    <3>1. PICK q \in Sequences : controllers' = Reported(id, q, TRUE)
      BY <2>4 DEF PhysicalReport
    <3>2. id \in Ids /\ TRUE \in BOOLEAN
      BY DEF Ids
    <3>3. \A i \in NetworkIds : controllers'[i].owner = controllers[i].owner
      BY <1>0, <1>ids, <3>1, <3>2, ReportedLemma
    <3> QED BY <1>same, <2>2, <3>3
  <2> QED BY <2>1, <2>3, <2>4
<1>5. CASE UNCHANGED vars
  BY <1>5, <1>same DEF vars
<1> QED BY <1>1, <1>2, <1>3, <1>4, <1>5 DEF Next

\* The session machinery implements the registry: one owner per controller
\* id, endpoints release only what is theirs, no id is handed out twice.
THEOREM ImplementsRegistry == Spec => RegistrySpec
<1>1. IInv /\ IInv' /\ [Next]_vars => [Registry!RegistryNext]_(Registry!registryVars)
  BY RegistryNextLemma
<1> QED
  BY <1>1, RegistryInitLemma, InductiveInvariant, PTL
  DEF Spec, RegistrySpec, Registry!RegistrySpec

-----------------------------------------------------------------------------
(* SessionNetwork: its peers and its network *)

LEMMA ZeroSequence == 0 \in Sequences
BY SequenceAssumption DEF Sequences

LEMMA DatagramLemma ==
  ASSUME NEW to \in {"bridge", "peer"}, NEW e \in Endpoints,
         NEW type \in {"session_open", "session_accept", "session_close",
                       "session_ping", "session_pong", "hid_device_add",
                       "hid_device_remove", "hid_input_report"},
         NEW id \in SessionIds \cup {0}
  PROVE  /\ Datagram(to, e, type, id) \in Wire
         /\ Datagram(to, e, type, id).type = type
         /\ Datagram(to, e, type, id).id = id
BY ZeroSequence DEF Datagram, Wire

LEMMA DownLemma ==
  ASSUME NEW starts \in 0..MaxStarts
  PROVE  Down(starts) \in Peer /\ Down(starts).stage = "down"
BY ZeroSequence DEF Down, Peer

\* A datagram that is taken off the wire, or marked late, and one added.
NamesSession(m) == m.type \in {"session_open", "session_accept"} => m.id # 0

WireGood(w) == w \subseteq Wire /\ \A m \in w : NamesSession(m)

PeersGood(p) ==
  /\ p \in [Endpoints -> Peer]
  /\ \A e \in Endpoints : p[e].stage = "opening" => p[e].id # 0

SessionsNamed(s) == \A e \in Endpoints : s[e].enabled => s[e].session_id # 0

LEMMA TypeParts ==
  NetworkTypeOK <=>
    PeersGood(peer) /\ WireGood(wire) /\ SessionsNamed(session) /\ faults \in 0..MaxFaults
BY DEF NetworkTypeOK, PeersGood, WireGood, SessionsNamed, NamesSession

LEMMA TypePartsNext ==
  NetworkTypeOK' <=>
    PeersGood(peer') /\ WireGood(wire') /\ SessionsNamed(session') /\ faults' \in 0..MaxFaults
BY DEF NetworkTypeOK, PeersGood, WireGood, SessionsNamed, NamesSession

LEMMA LateLemma ==
  ASSUME NEW m \in Wire, NamesSession(m)
  PROVE  [m EXCEPT !.late = TRUE] \in Wire /\ NamesSession([m EXCEPT !.late = TRUE])
BY DEF Wire, NamesSession

LEMMA NetworkTypeInit == NetworkInit => NetworkTypeOK
<1> SUFFICES ASSUME NetworkInit PROVE NetworkTypeOK
  OBVIOUS
<1>1. PeersGood(peer)
  <2>1. Down(0) \in Peer /\ Down(0).stage = "down"
    BY DownLemma, PeerAssumption
  <2> QED BY <2>1 DEF NetworkInit, PeersGood
<1>2. PICK id \in SessionIds :
       session = [e \in Endpoints |->
         IF e = udp_source
         THEN SessionOpenSent([NoSession EXCEPT !.enabled = TRUE, !.session_id = id])
         ELSE NoSession]
  BY DEF NetworkInit, Init
<1>3. id # 0
  BY NameAssumption
<1>4. SessionsNamed(session)
  BY <1>2, <1>3 DEF SessionsNamed, NoSession, SessionOpenSent
<1>5. WireGood(wire)
  <2>1. CASE udp_source = Nobody
    BY <2>1 DEF NetworkInit, WireGood
  <2>2. CASE udp_source # Nobody
    <3>1. udp_source \in Endpoints
      BY <2>2 DEF NetworkInit, Init
    <3>2. session[udp_source].session_id = id
      BY <1>2, <3>1 DEF NoSession, SessionOpenSent
    <3>3. wire = {Datagram("peer", udp_source, "session_open", id)}
      BY <2>2, <3>2 DEF NetworkInit
    <3> QED BY <3>1, <3>3, <1>3, DatagramLemma DEF WireGood, NamesSession
  <2> QED BY <2>1, <2>2
<1> QED BY <1>1, <1>4, <1>5, TypeParts, PeerAssumption DEF NetworkInit

-----------------------------------------------------------------------------
(* The peers and the network *)

\* What a peer sends is well formed, and so is the peer afterwards.
LEMMA SendsType ==
  ASSUME NEW e \in Endpoints, NEW datagram \in Wire, NEW changed \in Peer,
         PeersGood(peer), WireGood(wire), NamesSession(datagram),
         changed.stage = "opening" => changed.id # 0,
         PeerSends(e, datagram, changed)
  PROVE  PeersGood(peer') /\ WireGood(wire')
<1>1. (changed.sequence + 1) % SequenceModulus \in Sequences
  BY SequenceAssumption DEF Peer, Sequences
<1>2. [changed EXCEPT !.sequence = (@ + 1) % SequenceModulus, !.sent = TRUE] \in Peer
  BY <1>1 DEF Peer
<1>3. WireGood(wire')
  BY DEF PeerSends, WireGood
<1>4. PeersGood(peer')
  BY <1>2 DEF PeerSends, PeersGood, Peer
<1> QED BY <1>3, <1>4

LEMMA DownType ==
  ASSUME NEW e \in Endpoints, PeersGood(peer),
         peer' = [peer EXCEPT ![e] = Down(peer[e].starts)]
  PROVE  PeersGood(peer')
<1>1. peer[e].starts \in 0..MaxStarts
  BY DEF PeersGood, Peer
<1>2. Down(peer[e].starts) \in Peer /\ Down(peer[e].starts).stage = "down"
  BY <1>1, DownLemma
<1> QED BY <1>2 DEF PeersGood

LEMMA PeerStepType ==
  ASSUME NEW e \in Endpoints, PeersGood(peer), WireGood(wire),
         \/ PeerStarts(e) \/ PeerVanishes(e) \/ PeerOpens(e) \/ PeerGivesUp(e)
         \/ PeerAdds(e) \/ PeerReports(e) \/ PeerRemoves(e) \/ PeerCloses(e)
  PROVE  PeersGood(peer') /\ WireGood(wire')
<1>1. peer[e] \in Peer /\ (peer[e].stage = "opening" => peer[e].id # 0)
  BY DEF PeersGood
<1>2. CASE PeerStarts(e)
  <2> DEFINE starts == peer[e].starts + 1
             fresh == IF Joining(e)
                      THEN [Down(starts) EXCEPT !.stage = "opening", !.id = starts]
                      ELSE [Down(starts) EXCEPT !.stage = "waiting"]
  <2>1. starts \in 0..MaxStarts /\ starts \in SessionIds /\ starts # 0
    BY <1>1, <1>2, PeerAssumption, NameAssumption DEF PeerStarts, Peer
  <2>2. fresh \in Peer /\ (fresh.stage = "opening" => fresh.id # 0)
    BY <2>1, ZeroSequence DEF Down, Peer
  <2>3. peer' = [peer EXCEPT ![e] = fresh]
    BY <1>2 DEF PeerStarts
  <2> HIDE DEF fresh
  <2>4. PeersGood(peer')
    BY <2>2, <2>3 DEF PeersGood
  <2> QED BY <2>4, <1>2 DEF PeerStarts
<1>3. CASE PeerVanishes(e) \/ PeerGivesUp(e)
  BY <1>3, DownType DEF PeerVanishes, PeerGivesUp
<1>4. CASE PeerOpens(e)
  <2>1. peer[e].id \in SessionIds \cup {0} /\ peer[e].id # 0
    BY <1>1, <1>4 DEF PeerOpens, Peer
  <2>2. Datagram("bridge", e, "session_open", peer[e].id) \in Wire
    BY <2>1, DatagramLemma
  <2>3. NamesSession(Datagram("bridge", e, "session_open", peer[e].id))
    BY <2>1 DEF NamesSession, Datagram
  <2> QED BY <1>1, <1>4, <2>2, <2>3, SendsType DEF PeerOpens
<1>5. CASE PeerAdds(e)
  <2>1. Datagram("bridge", e, "hid_device_add", 0) \in Wire
    BY DatagramLemma
  <2>2. NamesSession(Datagram("bridge", e, "hid_device_add", 0))
    BY DEF NamesSession, Datagram
  <2>3. [peer[e] EXCEPT !.stage = "playing"] \in Peer
    BY <1>1 DEF Peer
  <2>4. [peer[e] EXCEPT !.stage = "playing"].stage # "opening"
    BY <1>1 DEF Peer
  <2> QED BY <1>5, <2>1, <2>2, <2>3, <2>4, SendsType DEF PeerAdds
<1>6. CASE PeerReports(e)
  <2> DEFINE report == [Datagram("bridge", e, "hid_input_report", 0)
                          EXCEPT !.sequence = peer[e].sequence]
             changed == [peer[e] EXCEPT !.reports = @ + 1]
  <2>1. report \in Wire /\ NamesSession(report)
    BY <1>1, ZeroSequence DEF Wire, Datagram, NamesSession, Peer
  <2>2. changed \in Peer /\ changed.stage = "playing"
    BY <1>1, <1>6 DEF Peer, PeerReports
  <2>3. PeerSends(e, report, changed)
    BY <1>6 DEF PeerReports
  <2> HIDE DEF report, changed
  <2> QED BY <2>1, <2>2, <2>3, SendsType
<1>7. CASE PeerRemoves(e)
  <2>1. Datagram("bridge", e, "hid_device_remove", 0) \in Wire
    BY DatagramLemma
  <2>2. NamesSession(Datagram("bridge", e, "hid_device_remove", 0))
    BY DEF NamesSession, Datagram
  <2>3. [peer[e] EXCEPT !.stage = "removed"] \in Peer
    BY <1>1 DEF Peer
  <2>4. [peer[e] EXCEPT !.stage = "removed"].stage # "opening"
    BY <1>1 DEF Peer
  <2> QED BY <1>7, <2>1, <2>2, <2>3, <2>4, SendsType DEF PeerRemoves
<1>8. CASE PeerCloses(e)
  <2>1. Datagram("bridge", e, "session_close", 0) \in Wire
    BY DatagramLemma
  <2>2. NamesSession(Datagram("bridge", e, "session_close", 0))
    BY DEF NamesSession, Datagram
  <2>3. WireGood(wire')
    BY <1>8, <2>1, <2>2 DEF PeerCloses, WireGood
  <2> QED BY <1>8, <2>3, DownType DEF PeerCloses
<1> QED BY <1>2, <1>3, <1>4, <1>5, <1>6, <1>7, <1>8

LEMMA PeerReceivesType ==
  ASSUME PeersGood(peer), WireGood(wire), NEW m \in wire, PeerReceives(m)
  PROVE  PeersGood(peer') /\ WireGood(wire')
<1> DEFINE e == m.end
           p == peer[e]
<1>1. m \in Wire /\ NamesSession(m) /\ e \in Endpoints /\ m.id \in SessionIds \cup {0}
  BY DEF WireGood, Wire
<1>2. p \in Peer /\ (p.stage = "opening" => p.id # 0)
  BY <1>1 DEF PeersGood
<1>3. Hears(m) \in Peer /\ (Hears(m).stage = "opening" => Hears(m).id # 0)
  <2>1. /\ [p EXCEPT !.stage = "accepted", !.waited = 0] \in Peer
        /\ [p EXCEPT !.stage = "accepted", !.waited = 0].stage = "accepted"
    BY <1>2 DEF Peer
  <2>2. /\ [p EXCEPT !.stage = "accepted"] \in Peer
        /\ [p EXCEPT !.stage = "accepted"].stage = "accepted"
    BY <1>2 DEF Peer
  <2> QED BY <1>2, <2>1, <2>2 DEF Hears
<1>4. PeersGood(peer')
  BY <1>1, <1>3 DEF PeersGood, PeerReceives
<1>5. WireGood(Answers(m))
  <2>1. m.type = "session_open" => WireGood({Datagram("bridge", e, "session_accept", m.id)})
    <3>1. /\ Datagram("bridge", e, "session_accept", m.id) \in Wire
          /\ Datagram("bridge", e, "session_accept", m.id).id = m.id
      BY <1>1, DatagramLemma
    <3> QED BY <1>1, <3>1 DEF WireGood, NamesSession
  <2>2. WireGood({Datagram("bridge", e, "session_pong", 0)})
    <3>1. /\ Datagram("bridge", e, "session_pong", 0) \in Wire
          /\ Datagram("bridge", e, "session_pong", 0).type = "session_pong"
      BY <1>1, DatagramLemma
    <3> QED BY <3>1 DEF WireGood, NamesSession
  <2>3. WireGood({})
    BY DEF WireGood
  <2> QED BY <2>1, <2>2, <2>3 DEF Answers
<1>6. WireGood(wire')
  BY <1>5 DEF PeerReceives, WireGood
<1> QED BY <1>4, <1>6

LEMMA NetworkFaultType ==
  ASSUME WireGood(wire), faults \in 0..MaxFaults, NetworkFault
  PROVE  WireGood(wire') /\ faults' \in 0..MaxFaults
<1>1. faults' \in 0..MaxFaults
  BY PeerAssumption DEF NetworkFault, Fault
<1>2. PICK m \in UnderWay : Lose(m) \/ Delay(m) \/ Duplicate(m)
  BY DEF NetworkFault
<1>3. m \in Wire /\ NamesSession(m)
  BY <1>2 DEF UnderWay, WireGood
<1>4. [m EXCEPT !.late = TRUE] \in Wire /\ NamesSession([m EXCEPT !.late = TRUE])
  BY <1>3, LateLemma
<1>5. WireGood(wire')
  BY <1>2, <1>4 DEF WireGood, Lose, Delay, Duplicate
<1> QED BY <1>1, <1>5

-----------------------------------------------------------------------------
(* The bridge *)

\* A datagram the bridge understands gives UdpSessions a step of consume_udp.
LEMMA BridgeReceivesStep ==
  ASSUME TypeOK, NetworkTypeOK, NEW m \in wire, BridgeReceives(m)
  PROVE  Consume
<1> DEFINE e == m.end
<1>1. /\ m \in Wire /\ e \in Endpoints /\ m.id \in SessionIds \cup {0}
      /\ m.sequence \in Sequences
  BY DEF NetworkTypeOK, Wire
<1>2. m.type \in {"session_open", "session_accept"} => m.id \in SessionIds
  BY <1>1 DEF NetworkTypeOK
<1>3. phase = "receive" /\ phase' = "service" /\ UNCHANGED udp_source
  BY DEF BridgeReceives
<1>4. CASE Received(m)
  <2>1. CASE m.type = "session_open" /\ \E sent \in BOOLEAN : SessionOpen(e, m.id, sent)
    BY <1>1, <1>2, <1>3, <2>1 DEF Consume
  <2>2. CASE \E added \in BOOLEAN : DeviceAdd(e, DeviceId, added)
    BY <1>1, <1>3, <2>2, PeerAssumption DEF Consume
  <2>3. CASE m.type = "session_accept" /\ SessionAccept(e, m.id)
    BY <1>1, <1>2, <1>3, <2>3 DEF Consume
  <2>4. CASE SessionClose(e)
    BY <1>1, <1>3, <2>4 DEF Consume
  <2>5. CASE DeviceRemove(e, DeviceId)
    BY <1>1, <1>3, <2>5, PeerAssumption DEF Consume
  <2>6. CASE DeviceReport(e, DeviceId, m.sequence, TRUE)
    BY <1>1, <1>3, <2>6, PeerAssumption DEF Consume
  <2> QED BY <1>4, <2>1, <2>2, <2>3, <2>4, <2>5, <2>6 DEF Received
<1>5. CASE Ignored(m)
  <2>1. CASE DatagramNoted(e)
    BY <1>1, <1>3, <2>1 DEF Consume
  <2>2. CASE NoDatagram
    BY <1>3, <2>2 DEF Consume
  <2> QED BY <1>5, <2>1, <2>2 DEF Ignored
<1> QED BY <1>4, <1>5 DEF BridgeReceives

\* An enabled session has an id: a session_open brings one along, and nothing
\* else enables a session or changes its id.
LEMMA BridgeReceivesNamed ==
  ASSUME TypeOK, NetworkTypeOK, NEW m \in wire, BridgeReceives(m)
  PROVE  SessionsNamed(session')
<1> DEFINE e == m.end
<1>0. session \in [Endpoints -> Session] /\ e \in Endpoints /\ session[e] \in Session
  BY DEF TypeOK, NetworkTypeOK, Wire
<1>1. SessionsNamed(session)
  BY TypeParts
<1>2. /\ Heard(e) \in Session /\ Heard(e).enabled = session[e].enabled
      /\ Heard(e).session_id = session[e].session_id
  BY <1>0, SessionLemma DEF Heard, Session
<1>3. /\ NoSession.enabled = FALSE
      /\ Ended(e).enabled => /\ session[e].enabled
                             /\ Ended(e).session_id = session[e].session_id
      /\ Ended(e) \in Session
  BY <1>0, EndedLemma DEF Ended, NoSession, WithoutDevices, Session
<1>4. ASSUME NEW new \in Session, session' = [session EXCEPT ![e] = new],
             new.enabled => new.session_id # 0
      PROVE  SessionsNamed(session')
  BY <1>0, <1>1, <1>4 DEF SessionsNamed
<1>5. CASE Received(m)
  <2>1. ASSUME NEW sent \in BOOLEAN, m.type = "session_open", SessionOpen(e, m.id, sent)
        PROVE  SessionsNamed(session')
    <3>1. m.id \in SessionIds /\ m.id # 0
      BY <2>1 DEF NetworkTypeOK, Wire
    <3> DEFINE kept == IF Changing(e, m.id) THEN WithoutDevices(session[e]) ELSE session[e]
               opened == [kept EXCEPT !.enabled = TRUE, !.session_id = m.id, !.rx = 0]
               new == IF sent
                      THEN [opened EXCEPT !.active = TRUE, !.open_sent = TRUE, !.tx = 0]
                      ELSE opened
    <3>2. kept \in Session
      BY <1>0, SessionLemma DEF WithoutDevices
    <3>3. opened \in Session /\ opened.session_id = m.id
      BY <3>1, <3>2, AgeLemma DEF Session
    <3>4. new \in Session /\ new.session_id = m.id
      BY <3>3, AgeLemma DEF Session
    <3>5. session' = [session EXCEPT ![e] = new]
      BY <2>1 DEF SessionOpen
    <3> HIDE DEF new
    <3> QED BY <1>4, <3>1, <3>4, <3>5
  <2>2. ASSUME NEW added \in BOOLEAN, DeviceAdd(e, DeviceId, added)
        PROVE  SessionsNamed(session')
    <3> DEFINE id == IF session[e].devices[DeviceId] # 0
                     THEN session[e].devices[DeviceId] ELSE next_network_device_id
    <3>1. id \in NetworkIds
      BY <2>2 DEF DeviceAdd
    <3>2. /\ [Heard(e) EXCEPT !.devices[DeviceId] = id] \in Session
          /\ [Heard(e) EXCEPT !.devices[DeviceId] = id].enabled = session[e].enabled
          /\ [Heard(e) EXCEPT !.devices[DeviceId] = id].session_id = session[e].session_id
      BY <1>2, <3>1 DEF Session
    <3>3. \/ session' = [session EXCEPT ![e] = [Heard(e) EXCEPT !.devices[DeviceId] = id]]
          \/ session' = [session EXCEPT ![e] = Heard(e)]
      BY <2>2 DEF DeviceAdd
    <3> QED BY <1>0, <1>1, <1>2, <1>4, <3>2, <3>3 DEF SessionsNamed
  <2>3. CASE SessionAccept(e, m.id)
    <3>1. /\ [Heard(e) EXCEPT !.active = TRUE, !.open_sent = TRUE] \in Session
          /\ [Heard(e) EXCEPT !.active = TRUE, !.open_sent = TRUE].enabled = session[e].enabled
          /\ [Heard(e) EXCEPT !.active = TRUE, !.open_sent = TRUE].session_id
               = session[e].session_id
      BY <1>2 DEF Session
    <3> QED BY <1>0, <1>1, <1>4, <2>3, <3>1 DEF SessionAccept, SessionsNamed
  <2>4. CASE SessionClose(e)
    <3>1. /\ [Ended(e) EXCEPT !.rx = 0] \in Session
          /\ [Ended(e) EXCEPT !.rx = 0].enabled = Ended(e).enabled
          /\ [Ended(e) EXCEPT !.rx = 0].session_id = Ended(e).session_id
      BY <1>3, AgeLemma DEF Session
    <3>2. \/ session' = [session EXCEPT ![e] = [Ended(e) EXCEPT !.rx = 0]]
          \/ session' = [session EXCEPT ![e] = Ended(e)]
      BY <2>4 DEF SessionClose
    <3> QED BY <1>0, <1>1, <1>3, <1>4, <3>1, <3>2 DEF SessionsNamed
  <2>5. CASE DeviceRemove(e, DeviceId)
    <3>1. /\ [Heard(e) EXCEPT !.devices[DeviceId] = 0] \in Session
          /\ [Heard(e) EXCEPT !.devices[DeviceId] = 0].enabled = session[e].enabled
          /\ [Heard(e) EXCEPT !.devices[DeviceId] = 0].session_id = session[e].session_id
      BY <1>2 DEF Session
    <3> QED BY <1>0, <1>1, <1>4, <2>5, <3>1 DEF DeviceRemove, SessionsNamed
  <2>6. CASE DeviceReport(e, DeviceId, m.sequence, TRUE)
    BY <1>0, <1>1, <1>2, <1>4, <2>6 DEF DeviceReport, SessionsNamed
  <2> QED BY <1>5, <2>1, <2>2, <2>3, <2>4, <2>5, <2>6 DEF Received
<1>6. CASE Ignored(m)
  BY <1>0, <1>1, <1>2, <1>4, <1>6 DEF Ignored, DatagramNoted, NoDatagram, SessionsNamed
<1> QED BY <1>5, <1>6 DEF BridgeReceives

LEMMA BridgeReceivesType ==
  ASSUME TypeOK, NetworkTypeOK, NEW m \in wire, BridgeReceives(m)
  PROVE  NetworkTypeOK'
<1>1. PeersGood(peer) /\ WireGood(wire) /\ faults \in 0..MaxFaults
  BY TypeParts
<1>2. PeersGood(peer')
  BY <1>1 DEF BridgeReceives
<1>3. SessionsNamed(session')
  BY BridgeReceivesNamed
<1>4. \/ faults' = faults
      \/ faults < MaxFaults /\ faults' = faults + 1
  BY DEF BridgeReceives, Received, Ignored, UnlessFault, Fault
<1>5. faults' \in 0..MaxFaults
  BY <1>1, <1>4, PeerAssumption
<1>6. \/ wire' = wire \ {m}
      \/ /\ m.type = "session_open"
         /\ wire' = (wire \ {m}) \cup {Datagram("peer", m.end, "session_accept", m.id)}
  BY DEF BridgeReceives, Received, Ignored
<1>7. m.type = "session_open" => WireGood({Datagram("peer", m.end, "session_accept", m.id)})
  <2> SUFFICES ASSUME m.type = "session_open"
               PROVE  WireGood({Datagram("peer", m.end, "session_accept", m.id)})
    OBVIOUS
  <2>1. m.end \in Endpoints /\ m.id \in SessionIds \cup {0} /\ m.id # 0
    BY DEF NetworkTypeOK, Wire
  <2>2. /\ Datagram("peer", m.end, "session_accept", m.id) \in Wire
        /\ Datagram("peer", m.end, "session_accept", m.id).id = m.id
    BY <2>1, DatagramLemma
  <2> QED BY <2>1, <2>2 DEF WireGood, NamesSession
<1>8. WireGood(wire')
  BY <1>1, <1>6, <1>7 DEF WireGood
<1> QED BY <1>2, <1>3, <1>5, <1>8, TypePartsNext

LEMMA BridgeServicesType ==
  ASSUME TypeOK, NetworkTypeOK, BridgeServices
  PROVE  NetworkTypeOK'
<1>1. /\ PeersGood(peer) /\ WireGood(wire) /\ faults \in 0..MaxFaults
      /\ SessionsNamed(session) /\ session \in [Endpoints -> Session]
  BY TypeParts DEF TypeOK
<1>2. PeersGood(peer') /\ faults' \in 0..MaxFaults
  BY <1>1 DEF BridgeServices
<1>3. ASSUME NEW e \in Endpoints
      PROVE  Serviced(e).enabled => Serviced(e).session_id # 0
  <2>1. session[e] \in Session /\ (session[e].enabled => session[e].session_id # 0)
    BY <1>1 DEF SessionsNamed
  <2>2. /\ SessionOpenSent(session[e]).enabled = session[e].enabled
        /\ SessionOpenSent(session[e]).session_id = session[e].session_id
    BY <2>1 DEF SessionOpenSent, Session
  <2>3. Ended(e).enabled => /\ session[e].enabled
                            /\ Ended(e).session_id = session[e].session_id
    BY <2>1 DEF Ended, WithoutDevices, NoSession, Session
  <2>4. /\ [session[e] EXCEPT !.ping = 0, !.tx = 0].enabled = session[e].enabled
        /\ [session[e] EXCEPT !.ping = 0, !.tx = 0].session_id = session[e].session_id
    BY <2>1 DEF Session
  <2>5. \/ Serviced(e) = SessionOpenSent(session[e])
        \/ Serviced(e) = Ended(e)
        \/ Serviced(e) = [session[e] EXCEPT !.ping = 0, !.tx = 0]
        \/ Serviced(e) = session[e]
    <3>1. CASE OpenDue(session[e])
      BY <3>1 DEF Serviced
    <3>2. CASE ~OpenDue(session[e]) /\ TimedOut(session[e])
      BY <3>2 DEF Serviced
    <3>3. CASE ~OpenDue(session[e]) /\ ~TimedOut(session[e]) /\ PingDue(session[e])
      BY <3>3 DEF Serviced
    <3>4. CASE ~OpenDue(session[e]) /\ ~TimedOut(session[e]) /\ ~PingDue(session[e])
      BY <3>4 DEF Serviced
    <3> QED BY <3>1, <3>2, <3>3, <3>4
  <2> QED BY <2>1, <2>2, <2>3, <2>4, <2>5
<1>4. SessionsNamed(session')
  BY <1>3 DEF BridgeServices, Service, SessionsNamed
<1>5. ASSUME NEW e \in Endpoints, OpenDue(session[e])
      PROVE  /\ Datagram("peer", e, "session_open", session[e].session_id) \in Wire
             /\ Datagram("peer", e, "session_open", session[e].session_id).id # 0
  <2>1. session[e].session_id \in SessionIds \cup {0} /\ session[e].session_id # 0
    BY <1>1, <1>5 DEF OpenDue, SessionsNamed, Session
  <2> QED BY <2>1, DatagramLemma
<1>6. ASSUME NEW e \in Endpoints
      PROVE  /\ Datagram("peer", e, "session_ping", 0) \in Wire
             /\ Datagram("peer", e, "session_ping", 0).type = "session_ping"
  BY DatagramLemma
<1>7. WireGood(wire')
  BY <1>1, <1>5, <1>6 DEF BridgeServices, WireGood, NamesSession
<1> QED BY <1>2, <1>4, <1>7, TypePartsNext

LEMMA TickType ==
  ASSUME TypeOK, NetworkTypeOK, NetworkTick
  PROVE  NetworkTypeOK'
<1>1. /\ PeersGood(peer) /\ WireGood(wire) /\ faults \in 0..MaxFaults
      /\ SessionsNamed(session) /\ session \in [Endpoints -> Session]
  BY TypeParts DEF TypeOK
<1>2. WireGood(wire') /\ faults' \in 0..MaxFaults
  BY <1>1 DEF NetworkTick
<1>3. ASSUME NEW e \in Endpoints
      PROVE  LET aged == [session[e] EXCEPT !.rx = Older(@), !.tx = Older(@),
                                            !.ping = Older(@), !.open = Older(@)]
             IN aged.enabled = session[e].enabled /\ aged.session_id = session[e].session_id
  BY <1>1 DEF Session
<1>4. SessionsNamed(session')
  BY <1>1, <1>3 DEF NetworkTick, Tick, SessionsNamed
<1>5. ASSUME NEW e \in Endpoints
      PROVE  LET rested == [peer[e] EXCEPT !.sent = FALSE,
                              !.waited = IF Waits(e) THEN @ + 1 ELSE @]
             IN /\ rested \in Peer /\ rested.stage = peer[e].stage
                /\ rested.id = peer[e].id
  <2>1. peer[e] \in Peer
    BY <1>1 DEF PeersGood
  <2> DEFINE later == IF Waits(e) THEN peer[e].waited + 1 ELSE peer[e].waited
  <2>2. later \in Nat
    BY <2>1 DEF Peer
  <2> HIDE DEF later
  <2>3. LET rested == [peer[e] EXCEPT !.sent = FALSE, !.waited = later]
        IN /\ rested \in Peer /\ rested.stage = peer[e].stage
           /\ rested.id = peer[e].id
    BY <2>1, <2>2 DEF Peer
  <2> QED BY <2>3 DEF later
<1>6. PeersGood(peer')
  BY <1>1, <1>5 DEF NetworkTick, PeersGood
<1> QED BY <1>2, <1>4, <1>6, TypePartsNext

-----------------------------------------------------------------------------
(* Refinement and ownership *)

LEMMA NetworkStep ==
  ASSUME TypeOK, NetworkTypeOK, [NetworkNext]_networkVars
  PROVE  [Next]_vars /\ NetworkTypeOK'
<1>0. /\ PeersGood(peer) /\ WireGood(wire) /\ faults \in 0..MaxFaults
      /\ SessionsNamed(session)
  BY TypeParts
<1>1. ASSUME NEW m \in wire, BridgeReceives(m)
      PROVE  [Next]_vars /\ NetworkTypeOK'
  BY <1>1, BridgeReceivesStep, BridgeReceivesType DEF Next
<1>2. ASSUME NEW m \in wire, PeerReceives(m)
      PROVE  [Next]_vars /\ NetworkTypeOK'
  BY <1>0, <1>2, PeerReceivesType, TypePartsNext DEF PeerReceives, vars
<1>3. CASE BridgeIdles
  <2>1. Consume
    BY <1>3 DEF BridgeIdles, Consume
  <2>2. NetworkTypeOK'
    BY <1>0, <1>3, TypePartsNext DEF BridgeIdles, NoDatagram
  <2> QED BY <2>1, <2>2 DEF Next
<1>4. CASE BridgeServices
  BY <1>4, BridgeServicesType DEF BridgeServices, Next
<1>5. CASE PeerDue \/ PeerMay
  <2>1. PeersGood(peer') /\ WireGood(wire')
    BY <1>0, <1>5, PeerStepType DEF PeerDue, PeerMay
  <2> QED BY <1>0, <1>5, <2>1, TypePartsNext DEF PeerDue, PeerMay, vars
<1>6. CASE NetworkTick
  BY <1>6, TickType DEF NetworkTick, Next
<1>7. CASE NetworkFault
  BY <1>0, <1>7, NetworkFaultType, TypePartsNext DEF NetworkFault, vars
<1>8. CASE UNCHANGED networkVars
  BY <1>0, <1>8, TypePartsNext DEF networkVars, vars
<1> QED BY <1>1, <1>2, <1>3, <1>4, <1>5, <1>6, <1>7, <1>8
        DEF NetworkNext, BridgeStep, LateArrival, UnderWay

\* What peers and network do is what UdpSessions allows anyone to do.
THEOREM NetworkImplementsSessions == NetworkSafety => Spec /\ []NetworkTypeOK
<1>1. NetworkInit => Init /\ TypeOK /\ NetworkTypeOK
  BY TypeInit, NetworkTypeInit DEF NetworkInit
<1>2. TypeOK /\ NetworkTypeOK /\ [NetworkNext]_networkVars
        => [Next]_vars /\ TypeOK' /\ NetworkTypeOK'
  BY NetworkStep, TypeNext
<1> QED BY <1>1, <1>2, PTL DEF NetworkSafety, Spec

\* So also behind a network that loses, delays and duplicates, no controller
\* outlives its session or loses the mapping that would remove it.
THEOREM NetworkOwnership ==
  NetworkSpec => []ControllersAreOwned /\ []ControllersBelongToTheirSession
BY NetworkImplementsSessions, Ownership, SessionScope, PTL DEF NetworkSpec

-----------------------------------------------------------------------------
(* The joining peers, one at a time: p is the peer, s its session in the    *)
(* bridge, w the datagrams to and from it.                                  *)

Mail(e) == {m \in wire : m.end = e}
Posted(w) == {m \in w : m.to = "bridge"}

\* Session ids count up with the starts of a program.
CountsUp(p, s, w) ==
  /\ p.stage # "down" => p.id = p.starts
  /\ s.session_id <= p.starts
  /\ \A m \in w : m.type \in {"session_open", "session_accept"} => m.id <= p.starts

Linked(p, s) ==
  udp_source = Nobody /\ s.enabled /\ s.active /\ s.session_id = p.id

Opens(m) == m.to = "bridge" /\ m.type = "session_open"
Accepts(m) == m.to = "peer" /\ m.type = "session_accept"

\* One datagram at a time is on its way to the bridge; an open of this program is
\* on its way, then its accept, and from then on the session is its own, has
\* the controller unless the add is still on its way, and hears of the peer
\* once a tick.
InTouch(p, s, w) ==
  /\ \A m \in w : ~m.late
  /\ \A m, n \in Posted(w) : m = n
  /\ p.stage = "opening" =>
       \A m \in w : m.id = p.id =>
         /\ Opens(m) => p.sent
         /\ Accepts(m) => p.sent /\ Linked(p, s) /\ s.rx = 0 /\ Posted(w) = {}
  /\ p.stage = "accepted" => Linked(p, s) /\ s.rx = 0 /\ Posted(w) = {}
  /\ p.stage = "playing" =>
       /\ Linked(p, s) /\ s.rx <= 1
       /\ \A m \in Posted(w) : m.type \in {"hid_device_add", "hid_input_report"}
       /\ s.devices[DeviceId] # 0 \/ \E m \in Posted(w) : m.type = "hid_device_add"
       /\ p.sent /\ Posted(w) = {} => s.rx = 0
  /\ p.stage = "removed" =>
       /\ Linked(p, s) /\ s.rx <= 1
       /\ \A m \in Posted(w) : m.type = "hid_device_remove"

StepInv ==
  \A e \in Endpoints : Joining(e) =>
    /\ CountsUp(peer[e], session[e], Mail(e))
    /\ faults = 0 => InTouch(peer[e], session[e], Mail(e))

\* How many datagrams a program has sent.
Paced(p) ==
  /\ p.stage = "opening" =>
       /\ p.waited <= GiveUpTicks /\ p.reports = 0
       /\ p.sequence <= p.waited + (IF p.sent THEN 1 ELSE 0)
  /\ p.stage = "accepted" => p.sequence <= GiveUpTicks + 1 /\ p.reports = 0
  /\ p.stage = "playing" =>
       p.sequence <= GiveUpTicks + 2 + p.reports /\ p.reports <= MaxReports
  /\ p.stage = "removed" => p.sequence <= GiveUpTicks + 3 + MaxReports

\* What is on its way and what the filter of the program's own session has seen is
\* older than what the program sends next.
Ahead(p, s, w, c) ==
  p.stage # "down" =>
    /\ \A m \in w : m.type = "hid_input_report" => m.sequence < p.sequence
    /\ s.session_id = p.id /\ s.devices[DeviceId] # 0 =>
         c[s.devices[DeviceId]].last < p.sequence

FreshInv ==
  \A e \in Endpoints : Joining(e) =>
    Paced(peer[e]) /\ Ahead(peer[e], session[e], Mail(e), controllers)

\* What the others do, and what becomes of this endpoint's part of the state.
PeerActs(e) ==
  \/ PeerStarts(e) \/ PeerVanishes(e) \/ PeerOpens(e) \/ PeerGivesUp(e)
  \/ PeerAdds(e) \/ PeerReports(e) \/ PeerRemoves(e) \/ PeerCloses(e)

Still(e) ==
  peer'[e] = peer[e] /\ session'[e] = session[e] /\ Mail(e)' = Mail(e)

Broken(e) ==
  /\ peer'[e] = peer[e] /\ session'[e] = session[e] /\ faults' = faults + 1
  /\ \E m \in Mail(e) :
       Mail(e)' \subseteq (Mail(e) \cup {[m EXCEPT !.late = TRUE]})

Slice(e) ==
  \/ Still(e)
  \/ Broken(e)
  \/ PeerActs(e) /\ session'[e] = session[e]
  \/ \E m \in Mail(e) : PeerReceives(m)
  \/ \E m \in Mail(e) : BridgeReceives(m)
  \/ BridgeServices
  \/ NetworkTick

\* A peer's step is its own affair.
LEMMA PeerActsElsewhere ==
  ASSUME NEW e \in Endpoints, NEW x \in Endpoints, x # e, PeersGood(peer), PeerActs(x)
  PROVE  peer'[e] = peer[e] /\ Mail(e)' = Mail(e)
<1>1. CASE PeerStarts(x) \/ PeerVanishes(x) \/ PeerGivesUp(x)
  BY <1>1 DEF PeerStarts, PeerVanishes, PeerGivesUp, PeersGood, Mail
<1>2. ASSUME NEW d, NEW changed, d.end = x, PeerSends(x, d, changed)
      PROVE  peer'[e] = peer[e] /\ Mail(e)' = Mail(e)
  BY <1>2 DEF PeerSends, PeersGood, Mail
<1>3. \A type : Datagram("bridge", x, type, 0).end = x
  BY DEF Datagram
<1>4. CASE PeerOpens(x)
  <2>1. Datagram("bridge", x, "session_open", peer[x].id).end = x
    BY DEF Datagram
  <2> QED BY <1>2, <1>4, <2>1 DEF PeerOpens
<1>5. CASE PeerAdds(x)
  BY <1>2, <1>3, <1>5 DEF PeerAdds
<1>6. CASE PeerReports(x)
  <2>1. [Datagram("bridge", x, "hid_input_report", 0)
           EXCEPT !.sequence = peer[x].sequence].end = x
    BY DEF Datagram
  <2> QED BY <1>2, <1>6, <2>1 DEF PeerReports
<1>7. CASE PeerRemoves(x)
  BY <1>2, <1>3, <1>7 DEF PeerRemoves
<1>8. CASE PeerCloses(x)
  BY <1>3, <1>8 DEF PeerCloses, PeersGood, Mail
<1> QED BY <1>1, <1>4, <1>5, <1>6, <1>7, <1>8 DEF PeerActs

\* Nor does a datagram of one endpoint reach the session of another.
LEMMA BridgeReceivesElsewhere ==
  ASSUME TypeOK, NetworkTypeOK, NEW m \in wire, BridgeReceives(m),
         NEW e \in Endpoints, e # m.end
  PROVE  Still(e)
<1>1. session \in [Endpoints -> Session] /\ m.end \in Endpoints
  BY DEF TypeOK, NetworkTypeOK, Wire
<1>2. session'[e] = session[e]
  BY <1>1 DEF BridgeReceives, Received, Ignored, SessionOpen, SessionAccept, SessionClose,
     DeviceAdd, DeviceRemove, DeviceReport, DatagramNoted, NoDatagram
<1>3. \/ wire' = wire \ {m}
      \/ wire' = (wire \ {m}) \cup {Datagram("peer", m.end, "session_accept", m.id)}
  BY DEF BridgeReceives, Received, Ignored
<1>4. Mail(e)' = Mail(e)
  BY <1>3 DEF Mail, Datagram
<1> QED BY <1>2, <1>4 DEF Still, BridgeReceives

LEMMA PeerReceivesElsewhere ==
  ASSUME NetworkTypeOK, NEW m \in wire, PeerReceives(m), NEW e \in Endpoints, e # m.end
  PROVE  Still(e)
<1>1. session'[e] = session[e] /\ peer'[e] = peer[e]
  BY DEF PeerReceives, NetworkTypeOK, vars
<1>2. \A d \in Answers(m) : d.end = m.end
  BY DEF Answers, Datagram
<1>3. Mail(e)' = Mail(e)
  BY <1>2 DEF PeerReceives, Mail
<1> QED BY <1>1, <1>3 DEF Still

\* A step of the network as one endpoint sees it.
LEMMA Slices ==
  ASSUME TypeOK, NetworkTypeOK, [NetworkNext]_networkVars, NEW e \in Endpoints
  PROVE  Slice(e)
<1>0. PeersGood(peer)
  BY TypeParts
<1>1. ASSUME NEW m \in wire, BridgeReceives(m) PROVE Slice(e)
  BY <1>1, BridgeReceivesElsewhere DEF Slice, Mail
<1>2. ASSUME NEW m \in wire, PeerReceives(m) PROVE Slice(e)
  BY <1>2, PeerReceivesElsewhere DEF Slice, Mail
<1>3. CASE BridgeIdles
  BY <1>3 DEF BridgeIdles, NoDatagram, Slice, Still, Mail
<1>4. CASE PeerDue \/ PeerMay
  <2>1. PICK x \in Endpoints : PeerActs(x)
    BY <1>4 DEF PeerDue, PeerMay, PeerActs
  <2>2. session'[e] = session[e]
    BY <1>4 DEF PeerDue, PeerMay, vars
  <2> QED BY <1>0, <2>1, <2>2, PeerActsElsewhere DEF Slice, Still
<1>5. CASE NetworkFault
  <2>1. PICK m \in wire : Lose(m) \/ Delay(m) \/ Duplicate(m)
    BY <1>5 DEF NetworkFault, UnderWay
  <2>2. peer' = peer /\ session' = session /\ faults' = faults + 1
    BY <1>5 DEF NetworkFault, Fault, vars
  <2>3. m \in Wire
    BY DEF NetworkTypeOK
  <2>4. [m EXCEPT !.late = TRUE].end = m.end
    BY <2>3 DEF Wire
  <2>5. wire' \subseteq wire \cup {[m EXCEPT !.late = TRUE]}
    BY <2>1 DEF Lose, Delay, Duplicate
  <2>6. \A d : d # m => (d \in wire => d \in wire')
    BY <2>1 DEF Lose, Delay, Duplicate
  <2>7. CASE m.end = e
    BY <2>2, <2>5, <2>7 DEF Slice, Broken, Mail
  <2>8. CASE m.end # e
    BY <2>2, <2>4, <2>5, <2>6, <2>8 DEF Slice, Still, Mail
  <2> QED BY <2>7, <2>8
<1>6. CASE UNCHANGED networkVars
  BY <1>6 DEF networkVars, vars, Slice, Still, Mail
<1> QED BY <1>1, <1>2, <1>3, <1>4, <1>5, <1>6
        DEF NetworkNext, BridgeStep, LateArrival, UnderWay, Slice

\* What sending does to the peer's own part of the state.
LEMMA SendsSlice ==
  ASSUME NEW e \in Endpoints, NEW d \in Wire, d.end = e, NEW changed \in Peer,
         PeersGood(peer), PeerSends(e, d, changed)
  PROVE  /\ Mail(e)' = Mail(e) \cup {d}
         /\ \A m \in Posted(Mail(e)) : m.late
         /\ peer'[e].stage = changed.stage /\ peer'[e].id = changed.id
         /\ peer'[e].starts = changed.starts /\ peer'[e].reports = changed.reports
         /\ peer'[e].waited = changed.waited /\ peer'[e].sent = TRUE
         /\ peer'[e].sequence = (changed.sequence + 1) % SequenceModulus
<1>1. Mail(e)' = Mail(e) \cup {d}
  BY DEF PeerSends, Mail
<1>2. \A m \in Posted(Mail(e)) : m.late
  BY DEF PeerSends, CanSend, UnderWay, Posted, Mail
<1>3. peer'[e] = [changed EXCEPT !.sequence = (@ + 1) % SequenceModulus, !.sent = TRUE]
  BY DEF PeerSends, PeersGood
<1> QED BY <1>1, <1>2, <1>3 DEF Peer

\* The datagrams of a joining peer.
LEMMA SentByPeer ==
  ASSUME NEW e \in Endpoints, NEW type \in {"session_open", "session_close",
           "hid_device_add", "hid_device_remove"}, NEW id \in SessionIds \cup {0}
  PROVE  LET d == Datagram("bridge", e, type, id)
         IN  d \in Wire /\ d.to = "bridge" /\ d.end = e /\ d.type = type /\ d.id = id /\ ~d.late
<1>1. Datagram("bridge", e, type, id) \in Wire
  BY DatagramLemma
<1> QED BY <1>1 DEF Datagram

LEMMA ReportByPeer ==
  ASSUME NEW e \in Endpoints, NEW sequence \in Sequences
  PROVE  LET d == [Datagram("bridge", e, "hid_input_report", 0) EXCEPT !.sequence = sequence]
         IN  /\ d \in Wire /\ d.to = "bridge" /\ d.end = e /\ ~d.late
             /\ d.type = "hid_input_report" /\ d.sequence = sequence
BY ZeroSequence DEF Datagram, Wire

\* The peer p sends d and becomes q.
Sends(p, q, w, v, d) ==
  /\ \A m \in Posted(w) : m.late
  /\ v = w \cup {d} /\ d.to = "bridge" /\ ~d.late
  /\ q.id = p.id /\ q.starts = p.starts /\ q.waited = p.waited
  /\ q.sequence = (p.sequence + 1) % SequenceModulus /\ q.sent = TRUE
  /\ \/ /\ p.stage = "opening" /\ q.stage = "opening" /\ ~p.sent
        /\ d.type = "session_open" /\ d.id = p.id /\ q.reports = p.reports
     \/ /\ p.stage = "accepted" /\ q.stage = "playing"
        /\ d.type = "hid_device_add" /\ q.reports = p.reports
     \/ /\ p.stage = "playing" /\ q.stage = "playing"
        /\ d.type = "hid_input_report" /\ d.sequence = p.sequence
        /\ q.reports = p.reports + 1 /\ p.reports < MaxReports
     \/ /\ p.stage = "playing" /\ q.stage = "removed"
        /\ d.type = "hid_device_remove" /\ q.reports = p.reports

\* Each of a joining peer's steps, as its own part of the state sees it.
LEMMA ActsSlice ==
  ASSUME NetworkTypeOK, NEW e \in Endpoints, Joining(e), PeerActs(e)
  PROVE  LET p == peer[e]
             q == peer'[e]
             w == Mail(e)
             v == Mail(e)'
         IN
         \/ /\ PeerStarts(e)
            /\ q.stage = "opening" /\ q.id = p.starts + 1 /\ q.starts = p.starts + 1
            /\ q.sent = FALSE /\ q.waited = 0 /\ q.sequence = 0 /\ q.reports = 0 /\ v = w
         \/ q.stage = "down" /\ q.starts = p.starts /\ q.waited = 0 /\ v = w
         \/ /\ q.stage = "down" /\ q.starts = p.starts /\ q.waited = 0
            /\ \A m \in Posted(w) : m.late
            /\ \E d \in Wire : v = w \cup {d} /\ ~d.late /\ d.type = "session_close"
         \/ \E d \in Wire : Sends(p, q, w, v, d)
<1> DEFINE p == peer[e]
           q == peer'[e]
           w == Mail(e)
           v == Mail(e)'
<1>0. /\ PeersGood(peer) /\ p \in Peer /\ peer \in [Endpoints -> Peer]
      /\ p.starts \in 0..MaxStarts /\ p.id \in SessionIds \cup {0} /\ p.sequence \in Sequences
  BY TypeParts DEF PeersGood, Peer
<1>1. CASE PeerStarts(e)
  <2>1. q = [Down(p.starts + 1) EXCEPT !.stage = "opening", !.id = p.starts + 1]
    BY <1>0, <1>1 DEF PeerStarts
  <2>2. v = w
    BY <1>1 DEF PeerStarts, Mail
  <2> QED BY <1>1, <2>1, <2>2 DEF Down
<1>2. CASE PeerVanishes(e) \/ PeerGivesUp(e)
  <2>1. q = Down(p.starts) /\ v = w
    BY <1>0, <1>2 DEF PeerVanishes, PeerGivesUp, Mail
  <2> QED BY <2>1 DEF Down
<1>3. CASE PeerCloses(e)
  <2> DEFINE d == Datagram("bridge", e, "session_close", 0)
  <2>1. d \in Wire /\ d.end = e /\ ~d.late /\ d.type = "session_close"
    BY SentByPeer
  <2> HIDE DEF d
  <2>2. wire' = wire \cup {d}
    BY <1>3 DEF PeerCloses, d
  <2>3. q = Down(p.starts)
    BY <1>0, <1>3 DEF PeerCloses
  <2>4. v = w \cup {d}
    BY <2>1, <2>2 DEF Mail
  <2>5. \A m \in Posted(w) : m.late
    BY <1>3 DEF PeerCloses, CanSend, UnderWay, Posted, Mail
  <2> QED BY <2>1, <2>3, <2>4, <2>5 DEF Down
<1>4. CASE PeerOpens(e)
  <2> DEFINE d == Datagram("bridge", e, "session_open", p.id)
             changed == p
  <2>1. d \in Wire /\ d.to = "bridge" /\ d.end = e /\ ~d.late /\ d.type = "session_open" /\ d.id = p.id
    BY <1>0, SentByPeer
  <2> HIDE DEF d, changed
  <2>2. PeerSends(e, d, changed) /\ changed \in Peer
    BY <1>0, <1>4 DEF PeerOpens, d, changed
  <2>3. p.stage = "opening" /\ ~p.sent /\ changed = p
    BY <1>4 DEF PeerOpens, changed
  <2>8. Sends(p, q, w, v, d)
    <3> HIDE DEF p, q, w, v
    <3>1. /\ v = w \cup {d} /\ \A m \in Posted(w) : m.late
          /\ q.stage = changed.stage /\ q.id = changed.id /\ q.starts = changed.starts
          /\ q.reports = changed.reports /\ q.waited = changed.waited /\ q.sent = TRUE
          /\ q.sequence = (changed.sequence + 1) % SequenceModulus
      BY <1>0, <2>1, <2>2, SendsSlice DEF q, w, v
    <3> QED BY <2>1, <2>3, <3>1 DEF Sends
  <2> QED BY <2>1, <2>8
<1>5. CASE PeerAdds(e)
  <2> DEFINE d == Datagram("bridge", e, "hid_device_add", 0)
             changed == [p EXCEPT !.stage = "playing"]
  <2>1. d \in Wire /\ d.to = "bridge" /\ d.end = e /\ ~d.late /\ d.type = "hid_device_add"
    BY SentByPeer
  <2>2. /\ changed \in Peer /\ changed.stage = "playing" /\ changed.id = p.id
        /\ changed.starts = p.starts /\ changed.reports = p.reports
        /\ changed.waited = p.waited /\ changed.sequence = p.sequence
    BY <1>0 DEF Peer
  <2>3. PeerSends(e, d, changed) /\ p.stage = "accepted"
    BY <1>5 DEF PeerAdds
  <2> HIDE DEF d, changed
  <2>8. Sends(p, q, w, v, d)
    <3> HIDE DEF p, q, w, v
    <3>1. /\ v = w \cup {d} /\ \A m \in Posted(w) : m.late
          /\ q.stage = changed.stage /\ q.id = changed.id /\ q.starts = changed.starts
          /\ q.reports = changed.reports /\ q.waited = changed.waited /\ q.sent = TRUE
          /\ q.sequence = (changed.sequence + 1) % SequenceModulus
      BY <1>0, <2>1, <2>2, <2>3, SendsSlice DEF p, q, w, v
    <3> QED BY <2>1, <2>2, <2>3, <3>1 DEF Sends
  <2> QED BY <2>1, <2>8
<1>6. CASE PeerReports(e)
  <2> DEFINE d == [Datagram("bridge", e, "hid_input_report", 0)
                     EXCEPT !.sequence = p.sequence]
             changed == [p EXCEPT !.reports = @ + 1]
  <2>1. /\ d \in Wire /\ d.to = "bridge" /\ d.end = e /\ ~d.late
        /\ d.type = "hid_input_report" /\ d.sequence = p.sequence
    BY <1>0, ReportByPeer
  <2>2. p.stage = "playing" /\ p.reports < MaxReports /\ p.reports \in Nat
    BY <1>0, <1>6 DEF PeerReports, Peer
  <2>3. /\ changed \in Peer /\ changed.stage = "playing" /\ changed.id = p.id
        /\ changed.starts = p.starts /\ changed.reports = p.reports + 1
        /\ changed.waited = p.waited /\ changed.sequence = p.sequence
    BY <1>0, <2>2 DEF Peer
  <2>4. PeerSends(e, d, changed)
    BY <1>6 DEF PeerReports
  <2> HIDE DEF d, changed
  <2>8. Sends(p, q, w, v, d)
    <3> HIDE DEF p, q, w, v
    <3>1. /\ v = w \cup {d} /\ \A m \in Posted(w) : m.late
          /\ q.stage = changed.stage /\ q.id = changed.id /\ q.starts = changed.starts
          /\ q.reports = changed.reports /\ q.waited = changed.waited /\ q.sent = TRUE
          /\ q.sequence = (changed.sequence + 1) % SequenceModulus
      BY <1>0, <2>1, <2>2, <2>3, <2>4, SendsSlice DEF p, q, w, v
    <3> QED BY <2>1, <2>2, <2>3, <2>4, <3>1 DEF Sends
  <2> QED BY <2>1, <2>8
<1>7. CASE PeerRemoves(e)
  <2> DEFINE d == Datagram("bridge", e, "hid_device_remove", 0)
             changed == [p EXCEPT !.stage = "removed"]
  <2>1. d \in Wire /\ d.to = "bridge" /\ d.end = e /\ ~d.late /\ d.type = "hid_device_remove"
    BY SentByPeer
  <2>2. /\ changed \in Peer /\ changed.stage = "removed" /\ changed.id = p.id
        /\ changed.starts = p.starts /\ changed.reports = p.reports
        /\ changed.waited = p.waited /\ changed.sequence = p.sequence
    BY <1>0 DEF Peer
  <2>3. PeerSends(e, d, changed) /\ p.stage = "playing"
    BY <1>7 DEF PeerRemoves
  <2> HIDE DEF d, changed
  <2>8. Sends(p, q, w, v, d)
    <3> HIDE DEF p, q, w, v
    <3>1. /\ v = w \cup {d} /\ \A m \in Posted(w) : m.late
          /\ q.stage = changed.stage /\ q.id = changed.id /\ q.starts = changed.starts
          /\ q.reports = changed.reports /\ q.waited = changed.waited /\ q.sent = TRUE
          /\ q.sequence = (changed.sequence + 1) % SequenceModulus
      BY <1>0, <2>1, <2>2, <2>3, SendsSlice DEF p, q, w, v
    <3> QED BY <2>1, <2>2, <2>3, <3>1 DEF Sends
  <2> QED BY <2>1, <2>8
<1> QED BY <1>1, <1>2, <1>3, <1>4, <1>5, <1>6, <1>7 DEF PeerActs

\* A joining peer hears an accept of its own id, and answers nothing.
LEMMA HearsSlice ==
  ASSUME NetworkTypeOK, NEW e \in Endpoints, Joining(e), NEW m \in Mail(e), PeerReceives(m)
  PROVE  LET p == peer[e]
             q == peer'[e]
         IN  /\ m.to = "peer" /\ Mail(e)' = Mail(e) \ {m} /\ session'[e] = session[e]
             /\ \/ q = p
                \/ /\ Accepts(m) /\ p.stage = "opening" /\ p.id = m.id
                   /\ q.stage = "accepted" /\ q.id = p.id /\ q.starts = p.starts
                   /\ q.sequence = p.sequence /\ q.reports = p.reports /\ q.sent = p.sent
<1>1. /\ peer \in [Endpoints -> Peer] /\ m.end = e /\ m.to = "peer"
      /\ peer[e] \in Peer
  BY DEF NetworkTypeOK, PeerReceives, Mail
<1>2. peer'[e] = Hears(m) /\ session'[e] = session[e]
  BY <1>1 DEF PeerReceives, vars
<1>3. Mail(e)' = Mail(e) \ {m}
  BY <1>1 DEF PeerReceives, Answers, Mail
<1>4. CASE m.type = "session_accept" /\ peer[e].stage = "opening" /\ peer[e].id = m.id
  <2>1. Hears(m) = [peer[e] EXCEPT !.stage = "accepted", !.waited = 0]
    BY <1>1, <1>4 DEF Hears
  <2> QED BY <1>1, <1>2, <1>3, <1>4, <2>1 DEF Peer, Accepts
<1>5. CASE ~(m.type = "session_accept" /\ peer[e].stage = "opening" /\ peer[e].id = m.id)
  <2>1. Hears(m) = peer[e]
    BY <1>1, <1>5 DEF Hears
  <2> QED BY <1>1, <1>2, <1>3, <2>1
<1> QED BY <1>4, <1>5

\* What the bridge makes of a datagram of a joining peer.
Opened(m, t, w, v) ==
  /\ m.type = "session_open" /\ udp_source = Nobody
  /\ t.enabled /\ t.session_id = m.id /\ t.rx = 0
  /\ \/ /\ t.active
        /\ \E d \in Wire : /\ v = (w \ {m}) \cup {d} /\ d.to = "peer" /\ ~d.late
                           /\ d.type = "session_accept" /\ d.id = m.id
     \/ faults' = faults + 1 /\ v = w \ {m}

Kept(m, s, t, w, v) ==
  /\ v = w \ {m}
  /\ t.enabled = s.enabled /\ t.active = s.active /\ t.session_id = s.session_id
  /\ t.rx = 0 \/ t.rx = s.rx
  /\ udp_source = Nobody /\ s.enabled /\ s.active =>
       /\ t.rx = 0
       /\ m.type \notin {"session_open", "session_close"}
       /\ m.type \notin {"hid_device_add", "hid_device_remove"} => t.devices = s.devices
       /\ m.type = "hid_device_add" => t.devices[DeviceId] # 0 \/ faults' = faults + 1

LEMMA HeardSlice ==
  ASSUME TypeOK, NEW e \in Endpoints
  PROVE  /\ Heard(e) \in Session /\ Heard(e).enabled = session[e].enabled
         /\ Heard(e).active = session[e].active
         /\ Heard(e).session_id = session[e].session_id
         /\ Heard(e).devices = session[e].devices /\ Heard(e).rx = 0
<1>1. session[e] \in Session
  BY DEF TypeOK
<1> QED BY <1>1, SessionLemma DEF Heard, Session

\* A session that heard of an add or a remove.
Mapping(e, id) == [Heard(e) EXCEPT !.devices[DeviceId] = id]

LEMMA MappedSlice ==
  ASSUME TypeOK, NEW e \in Endpoints, NEW id \in NetworkIds \cup {0}
  PROVE  /\ Mapping(e, id).enabled = session[e].enabled
         /\ Mapping(e, id).active = session[e].active
         /\ Mapping(e, id).session_id = session[e].session_id
         /\ Mapping(e, id).devices[DeviceId] = id /\ Mapping(e, id).rx = 0
<1>1. Heard(e) \in Session /\ DeviceId \in SourceIds
  BY HeardSlice, PeerAssumption
<1>2. Heard(e).devices \in [SourceIds -> NetworkIds \cup {0}]
  BY <1>1 DEF Session
<1> DEFINE t == Mapping(e, id)
<1>3. /\ t.enabled = Heard(e).enabled /\ t.active = Heard(e).active
      /\ t.session_id = Heard(e).session_id /\ t.rx = Heard(e).rx
      /\ t.devices = [Heard(e).devices EXCEPT ![DeviceId] = id]
  BY <1>1 DEF Session, Mapping
<1> QED BY <1>1, <1>2, <1>3, HeardSlice

LEMMA OpenSlice ==
  ASSUME TypeOK, NEW e \in Endpoints, NEW id \in SessionIds, NEW sent \in BOOLEAN,
         SessionOpen(e, id, sent)
  PROVE  /\ session'[e].enabled /\ session'[e].session_id = id /\ session'[e].rx = 0
         /\ sent => session'[e].active
         /\ ~sent => session'[e].active = session[e].active
         /\ Changing(e, id) => session'[e].devices = NoDevices
         /\ ~Changing(e, id) => session'[e].devices = session[e].devices
<1> DEFINE kept == IF Changing(e, id) THEN WithoutDevices(session[e]) ELSE session[e]
           opened == [kept EXCEPT !.enabled = TRUE, !.session_id = id, !.rx = 0]
           new == IF sent
                  THEN [opened EXCEPT !.active = TRUE, !.open_sent = TRUE, !.tx = 0]
                  ELSE opened
<1>1. session \in [Endpoints -> Session] /\ session[e] \in Session
  BY DEF TypeOK
<1>2. /\ kept \in Session /\ kept.active = session[e].active
      /\ Changing(e, id) => kept.devices = NoDevices
      /\ ~Changing(e, id) => kept.devices = session[e].devices
  <2>1. /\ WithoutDevices(session[e]) \in Session
        /\ WithoutDevices(session[e]).active = session[e].active
        /\ WithoutDevices(session[e]).devices = NoDevices
    BY <1>1, SessionLemma DEF WithoutDevices, Session
  <2> QED BY <1>1, <2>1
<1>3. session'[e] = new
  BY <1>1 DEF SessionOpen
<1> HIDE DEF kept
<1>4. /\ opened \in Session /\ opened.enabled /\ opened.session_id = id /\ opened.rx = 0
      /\ opened.active = kept.active /\ opened.devices = kept.devices
  BY <1>2, AgeLemma DEF Session
<1> HIDE DEF opened
<1>5. /\ new.enabled /\ new.session_id = id /\ new.rx = 0 /\ new.devices = opened.devices
      /\ sent => new.active
      /\ ~sent => new.active = opened.active
  BY <1>4 DEF Session
<1> HIDE DEF new
<1> QED BY <1>2, <1>3, <1>4, <1>5

LEMMA BridgeSlice ==
  ASSUME TypeOK, NetworkTypeOK, NEW e \in Endpoints, Joining(e), NEW m \in Mail(e),
         BridgeReceives(m)
  PROVE  LET s == session[e]
             t == session'[e]
             w == Mail(e)
             v == Mail(e)'
         IN  /\ peer'[e] = peer[e] /\ udp_source' = udp_source /\ m.to = "bridge"
             /\ \/ Opened(m, t, w, v)
                \/ m.type = "session_close" /\ v = w \ {m} /\ t = NoSession
                \/ Kept(m, s, t, w, v)
<1> DEFINE s == session[e]
           t == session'[e]
           w == Mail(e)
           v == Mail(e)'
<1>0. /\ m \in Wire /\ m.end = e /\ m \in wire /\ m.to = "bridge" /\ DeviceId \in SourceIds
      /\ session \in [Endpoints -> Session] /\ s \in Session /\ e # udp_source
      /\ peer'[e] = peer[e] /\ udp_source' = udp_source
  BY PeerAssumption DEF TypeOK, NetworkTypeOK, Mail, Joining, BridgeReceives
<1>1. CASE ~Understood(m)
  <2>1. v = w \ {m}
    BY <1>0, <1>1 DEF BridgeReceives, Ignored, Mail
  <2>2. CASE Heeded(e) /\ s.enabled
    <3>1. t = Heard(e)
      BY <1>0, <1>1, <2>2 DEF BridgeReceives, Ignored, DatagramNoted
    <3>2. s.active => m.type \notin {"session_open", "session_close", "hid_device_add"}
      BY <1>0, <1>1, <2>2 DEF Understood
    <3> QED BY <1>0, <2>1, <3>1, <3>2, HeardSlice DEF Kept
  <2>3. CASE ~(Heeded(e) /\ s.enabled)
    <3>1. t = s
      BY <1>0, <1>1, <2>3 DEF BridgeReceives, Ignored, NoDatagram
    <3> QED BY <1>0, <2>1, <2>3, <3>1 DEF Kept, Heeded
  <2> QED BY <2>2, <2>3
<1>2. CASE Understood(m)
  <2>0. Received(m) /\ udp_source = Nobody
    BY <1>0, <1>2 DEF BridgeReceives, Understood, Heeded
  <2>1. ASSUME NEW sent \in BOOLEAN, m.type = "session_open", SessionOpen(e, m.id, sent),
               UnlessFault(sent),
               wire' = (wire \ {m}) \cup
                 (IF sent THEN {Datagram("peer", e, "session_accept", m.id)} ELSE {})
        PROVE  Opened(m, t, w, v)
    <3>1. m.id \in SessionIds
      BY <1>0, <2>1 DEF NetworkTypeOK, Wire
    <3>2. t.enabled /\ t.session_id = m.id /\ t.rx = 0 /\ (sent => t.active)
      BY <2>1, <3>1, OpenSlice
    <3>3. CASE sent
      <4> DEFINE d == Datagram("peer", e, "session_accept", m.id)
      <4>1. /\ d \in Wire /\ d.to = "peer" /\ ~d.late /\ d.end = e
            /\ d.type = "session_accept" /\ d.id = m.id
        <5>1. d \in Wire
          BY <3>1, DatagramLemma
        <5> QED BY <5>1 DEF Datagram
      <4> HIDE DEF d
      <4>2. wire' = (wire \ {m}) \cup {d}
        BY <2>1, <3>3 DEF d
      <4>3. v = (w \ {m}) \cup {d}
        BY <4>1, <4>2 DEF Mail
      <4> QED BY <2>0, <2>1, <3>2, <3>3, <4>1, <4>3 DEF Opened
    <3>4. CASE ~sent
      <4>1. v = w \ {m}
        BY <2>1, <3>4 DEF Mail
      <4>2. faults' = faults + 1
        BY <2>1, <3>4 DEF UnlessFault, Fault
      <4> QED BY <2>0, <2>1, <3>2, <4>1, <4>2 DEF Opened
    <3> QED BY <3>3, <3>4
  <2>2. ASSUME NEW added \in BOOLEAN, m.type = "hid_device_add", DeviceAdd(e, DeviceId, added),
               UnlessFault(added), wire' = wire \ {m}
        PROVE  Kept(m, s, t, w, v)
    <3> DEFINE known == s.devices[DeviceId] # 0
               id == IF known THEN s.devices[DeviceId] ELSE next_network_device_id
    <3>1. id \in NetworkIds /\ id # 0
      BY <2>2, IdAssumption DEF DeviceAdd, NetworkIds
    <3>2. t = IF known \/ added THEN Mapping(e, id) ELSE Heard(e)
      BY <1>0, <2>2 DEF DeviceAdd, Mapping
    <3>3. v = w \ {m}
      BY <2>2 DEF Mail
    <3> HIDE DEF id
    <3>4. CASE added
      <4>1. t = Mapping(e, id)
        BY <3>2, <3>4
      <4> QED BY <2>2, <3>1, <3>3, <4>1, MappedSlice DEF Kept
    <3>5. CASE ~added
      <4>1. faults' = faults + 1
        BY <2>2, <3>5 DEF UnlessFault, Fault
      <4>2. \/ t = Mapping(e, id)
            \/ t = Heard(e)
        BY <3>2
      <4> QED BY <2>2, <3>1, <3>3, <4>1, <4>2, MappedSlice, HeardSlice DEF Kept
    <3> QED BY <3>4, <3>5
  <2>3. CASE m.type = "session_accept" /\ SessionAccept(e, m.id)
    BY <1>0, <2>3 DEF SessionAccept
  <2>4. CASE m.type = "session_close" /\ SessionClose(e) /\ wire' = wire \ {m}
    <3>1. t = NoSession
      BY <1>0, <2>4 DEF SessionClose, Ended
    <3> QED BY <1>0, <2>4, <3>1 DEF Mail
  <2>5. CASE m.type = "hid_device_remove" /\ DeviceRemove(e, DeviceId) /\ wire' = wire \ {m}
    <3>1. t = Mapping(e, 0)
      BY <1>0, <2>5 DEF DeviceRemove, Mapping
    <3>2. v = w \ {m}
      BY <2>5 DEF Mail
    <3>3. /\ t.enabled = s.enabled /\ t.active = s.active /\ t.session_id = s.session_id
          /\ t.rx = 0
      BY <3>1, MappedSlice
    <3> QED BY <1>0, <2>5, <3>2, <3>3 DEF Kept
  <2>6. CASE /\ m.type = "hid_input_report" /\ DeviceReport(e, DeviceId, m.sequence, TRUE)
             /\ wire' = wire \ {m}
    <3>1. t = Heard(e)
      BY <1>0, <2>6 DEF DeviceReport
    <3>2. v = w \ {m}
      BY <2>6 DEF Mail
    <3> QED BY <1>0, <2>6, <3>1, <3>2, HeardSlice DEF Kept
  <2> QED BY <1>0, <2>0, <2>1, <2>2, <2>3, <2>4, <2>5, <2>6 DEF Received
<1> QED BY <1>0, <1>1, <1>2

\* Two states of a session that differ in its times only, or in those but the
\* last datagram's.
SameButAge(s, t) ==
  /\ t.enabled = s.enabled /\ t.active = s.active
  /\ t.session_id = s.session_id /\ t.devices = s.devices

SameSession(s, t) == SameButAge(s, t) /\ t.rx = s.rx

\* A service pass leaves a joining peer's session alone or ends it.
LEMMA ServiceSlice ==
  ASSUME TypeOK, NetworkTypeOK, NEW e \in Endpoints, Joining(e), BridgeServices
  PROVE  LET s == session[e]
             t == session'[e]
         IN  /\ peer'[e] = peer[e] /\ udp_source' = udp_source /\ faults' = faults
             /\ SameSession(s, t) \/ (TimedOut(s) /\ t = NoSession)
             /\ \A m \in Mail(e)' : m \in Mail(e) \/
                  /\ m.to = "peer" /\ ~m.late /\ m.type \in {"session_open", "session_ping"}
                  /\ m.type = "session_open" => m.id = s.session_id
             /\ Mail(e) \subseteq Mail(e)'
<1> DEFINE s == session[e]
           t == session'[e]
<1>1. s \in Session /\ e # udp_source /\ t = Serviced(e)
  BY DEF TypeOK, Joining, BridgeServices, Service
<1>2. SameSession(s, t) \/ (TimedOut(s) /\ t = NoSession)
  <2> DEFINE pinged == [s EXCEPT !.ping = 0, !.tx = 0]
  <2>1. \/ t = SessionOpenSent(s)
        \/ TimedOut(s) /\ t = Ended(e)
        \/ t = pinged
        \/ t = s
    <3>1. CASE OpenDue(session[e])
      BY <1>1, <3>1 DEF Serviced
    <3>2. CASE ~OpenDue(session[e]) /\ TimedOut(session[e])
      BY <1>1, <3>2 DEF Serviced
    <3>3. CASE ~OpenDue(session[e]) /\ ~TimedOut(session[e]) /\ PingDue(session[e])
      BY <1>1, <3>3 DEF Serviced
    <3>4. CASE ~OpenDue(session[e]) /\ ~TimedOut(session[e]) /\ ~PingDue(session[e])
      BY <1>1, <3>4 DEF Serviced
    <3> QED BY <3>1, <3>2, <3>3, <3>4
  <2>2. SameSession(s, SessionOpenSent(s)) /\ SameSession(s, s)
    BY <1>1 DEF SessionOpenSent, Session, SameSession, SameButAge
  <2>3. SameSession(s, pinged)
    BY <1>1 DEF Session, SameSession, SameButAge
  <2>4. Ended(e) = NoSession
    BY <1>1 DEF Ended
  <2> HIDE DEF s, t, pinged
  <2> QED BY <2>1, <2>2, <2>3, <2>4
<1>3. \A x \in Endpoints :
        /\ Datagram("peer", x, "session_open", session[x].session_id).end = x
        /\ Datagram("peer", x, "session_ping", 0).end = x
  BY DEF Datagram
<1>4. Mail(e)' \subseteq Mail(e) \cup {Datagram("peer", e, "session_open", s.session_id),
                                     Datagram("peer", e, "session_ping", 0)}
  BY <1>3 DEF Mail, BridgeServices
<1>5. \A m \in Mail(e)' : m \in Mail(e) \/
        /\ m.to = "peer" /\ ~m.late /\ m.type \in {"session_open", "session_ping"}
        /\ m.type = "session_open" => m.id = s.session_id
  BY <1>4 DEF Datagram
<1>6. Mail(e) \subseteq Mail(e)'
  BY DEF Mail, BridgeServices
<1>7. peer'[e] = peer[e] /\ udp_source' = udp_source /\ faults' = faults
  BY DEF BridgeServices, Service
<1> QED BY <1>2, <1>5, <1>6, <1>7

\* Time passes when nothing of a peer is under way or due.
LEMMA TickSlice ==
  ASSUME TypeOK, NetworkTypeOK, NEW e \in Endpoints, NetworkTick
  PROVE  LET s == session[e]
             t == session'[e]
             p == peer[e]
             q == peer'[e]
         IN  /\ SameButAge(s, t) /\ t.rx = Older(s.rx)
             /\ q.stage = p.stage /\ q.id = p.id /\ q.starts = p.starts
             /\ q.sequence = p.sequence /\ q.reports = p.reports /\ q.sent = FALSE
             /\ q.waited = IF Waits(e) THEN p.waited + 1 ELSE p.waited
             /\ Mail(e)' = Mail(e) /\ udp_source' = udp_source /\ faults' = faults
             /\ ~PeerIsDue(e) /\ \A m \in Mail(e) : m.late
             /\ ~OpenDue(s) /\ ~TimedOut(s)
<1>1. session[e] \in Session /\ peer[e] \in Peer
  BY DEF TypeOK, NetworkTypeOK
<1>2. session'[e] = [session[e] EXCEPT !.rx = Older(@), !.tx = Older(@),
                       !.ping = Older(@), !.open = Older(@)]
  BY DEF NetworkTick, Tick
<1>3. SameButAge(session[e], session'[e]) /\ session'[e].rx = Older(session[e].rx)
  BY <1>1, <1>2 DEF Session, SameButAge
<1>4. peer'[e] = [peer[e] EXCEPT !.sent = FALSE,
                    !.waited = IF Waits(e) THEN @ + 1 ELSE @]
  BY DEF NetworkTick
<1>5. Mail(e)' = Mail(e) /\ udp_source' = udp_source /\ faults' = faults
  BY DEF NetworkTick, Tick, Mail
<1>6. ~PeerIsDue(e) /\ \A m \in Mail(e) : m.late
  BY DEF NetworkTick, UnderWay, Mail
<1>8. ~OpenDue(session[e]) /\ ~TimedOut(session[e])
  BY DEF NetworkTick, ServiceIsDue
<1>7. LET p == peer[e]
          q == peer'[e]
      IN  /\ q.stage = p.stage /\ q.id = p.id /\ q.starts = p.starts
          /\ q.sequence = p.sequence /\ q.reports = p.reports /\ q.sent = FALSE
          /\ q.waited = IF Waits(e) THEN p.waited + 1 ELSE p.waited
  BY <1>1, <1>4 DEF Peer
<1> QED BY <1>3, <1>5, <1>6, <1>7, <1>8

LEMMA Numbers ==
  ASSUME TypeOK, NetworkTypeOK, NEW e \in Endpoints
  PROVE  /\ peer[e].starts \in Nat /\ session[e].session_id \in Nat
         /\ peer[e].sequence \in Nat /\ peer[e].sequence < SequenceModulus
         /\ peer[e].waited \in Nat /\ peer[e].reports \in Nat /\ peer[e].sent \in BOOLEAN
         /\ \A m \in Mail(e) : m \in Wire /\ m.id \in Nat /\ m.sequence \in Nat
<1>1. peer[e] \in Peer /\ session[e] \in Session /\ \A m \in Mail(e) : m \in Wire
  BY DEF TypeOK, NetworkTypeOK, Mail
<1>2. SessionIds \cup {0} \subseteq Nat /\ SequenceModulus \in Nat
      /\ \A n \in Sequences : n \in Nat /\ n < SequenceModulus
  BY NameAssumption, SequenceAssumption DEF Sequences
<1>3. peer[e].starts \in 0..MaxStarts /\ peer[e].sequence \in Sequences
      /\ peer[e].waited \in Nat /\ peer[e].reports \in Nat /\ peer[e].sent \in BOOLEAN
  BY <1>1 DEF Peer
<1>4. session[e].session_id \in SessionIds \cup {0}
  BY <1>1 DEF Session
<1>5. \A m \in Mail(e) : m.id \in SessionIds \cup {0} /\ m.sequence \in Sequences
  BY <1>1 DEF Wire
<1>6. \A n \in 0..MaxStarts : n \in Nat
  OBVIOUS
<1> QED BY <1>1, <1>2, <1>3, <1>4, <1>5, <1>6

LEMMA LateSame ==
  ASSUME NEW m \in Wire
  PROVE  LET n == [m EXCEPT !.late = TRUE]
         IN  /\ n.to = m.to /\ n.end = m.end /\ n.type = m.type /\ n.id = m.id
             /\ n.sequence = m.sequence
BY DEF Wire

LEMMA CountsUpStep ==
  ASSUME TypeOK, NetworkTypeOK, [NetworkNext]_networkVars, NEW e \in Endpoints, Joining(e),
         CountsUp(peer[e], session[e], Mail(e))
  PROVE  CountsUp(peer'[e], session'[e], Mail(e)')
<1> DEFINE p == peer[e]
           q == peer'[e]
           s == session[e]
           t == session'[e]
           w == Mail(e)
           v == Mail(e)'
           named(m) == m.type \in {"session_open", "session_accept"}
<1> SUFFICES CountsUp(q, t, v)
  OBVIOUS
<1>0. /\ p.starts \in Nat /\ s.session_id \in Nat /\ s.session_id <= p.starts
      /\ p.stage # "down" => p.id = p.starts
      /\ \A m \in w : m \in Wire /\ m.id \in Nat /\ (named(m) => m.id <= p.starts)
  BY Numbers DEF CountsUp
<1>1. CASE Still(e)
  BY <1>1 DEF Still
<1>2. CASE Broken(e)
  <2>1. q = p /\ t = s
    BY <1>2 DEF Broken
  <2>2. PICK m \in w : v \subseteq (w \cup {[m EXCEPT !.late = TRUE]})
    BY <1>2 DEF Broken
  <2> DEFINE n == [m EXCEPT !.late = TRUE]
  <2>3. n.type = m.type /\ n.id = m.id
    BY <1>0, LateSame
  <2> HIDE DEF n
  <2>4. \A k \in v : named(k) => k.id <= p.starts
    BY <1>0, <2>2, <2>3 DEF n
  <2> HIDE DEF w, v, p, q, s, t
  <2> QED BY <1>0, <2>1, <2>4 DEF CountsUp
<1>3. CASE PeerActs(e) /\ t = s
  <2>1. CASE PeerStarts(e) /\ q.id = p.starts + 1 /\ q.starts = p.starts + 1 /\ v = w
    <3> HIDE DEF w, v, p, q, s, t
    <3> QED BY <1>0, <1>3, <2>1 DEF CountsUp
  <2>2. CASE q.stage = "down" /\ q.starts = p.starts /\ v = w
    <3> HIDE DEF w, v, p, q, s, t
    <3> QED BY <1>0, <1>3, <2>2 DEF CountsUp
  <2>3. CASE /\ q.stage = "down" /\ q.starts = p.starts
             /\ \E d \in Wire : v = w \cup {d} /\ d.type = "session_close"
    <3> HIDE DEF w, v, p, q, s, t
    <3> QED BY <1>0, <1>3, <2>3 DEF CountsUp
  <2>4. ASSUME NEW d \in Wire, Sends(p, q, w, v, d)
        PROVE  CountsUp(q, t, v)
    <3> HIDE DEF w, v, p, q, s, t
    <3>1. /\ q.id = p.id /\ q.starts = p.starts /\ p.stage # "down" /\ v = w \cup {d}
          /\ named(d) => d.id = p.id
      BY <2>4 DEF Sends
    <3>2. \A k \in v : named(k) => k.id <= p.starts
      BY <1>0, <3>1
    <3> QED BY <1>0, <1>3, <3>1, <3>2 DEF CountsUp
  <2>5. \/ PeerStarts(e) /\ q.id = p.starts + 1 /\ q.starts = p.starts + 1 /\ v = w
        \/ q.stage = "down" /\ q.starts = p.starts /\ v = w
        \/ /\ q.stage = "down" /\ q.starts = p.starts
           /\ \E d \in Wire : v = w \cup {d} /\ d.type = "session_close"
        \/ \E d \in Wire : Sends(p, q, w, v, d)
    BY <1>3, ActsSlice
  <2> QED BY <2>1, <2>2, <2>3, <2>4, <2>5
<1>4. ASSUME NEW m \in w, PeerReceives(m)
      PROVE  CountsUp(q, t, v)
  <2>1. /\ v = w \ {m} /\ t = s
        /\ \/ q = p
           \/ p.stage = "opening" /\ q.id = p.id /\ q.starts = p.starts
    BY <1>4, HearsSlice
  <2> HIDE DEF w, v, p, q, s, t
  <2> QED BY <1>0, <2>1 DEF CountsUp
<1>5. ASSUME NEW m \in w, BridgeReceives(m)
      PROVE  CountsUp(q, t, v)
  <2>1. /\ q = p
        /\ \/ Opened(m, t, w, v)
           \/ v = w \ {m} /\ t = NoSession
           \/ Kept(m, s, t, w, v)
    BY <1>5, BridgeSlice
  <2> HIDE DEF w, v, p, q, s, t
  <2>2. CASE Opened(m, t, w, v)
    <3>1. /\ t.session_id = m.id /\ m.id <= p.starts
          /\ \A k \in v : k \in w \/ k.id = m.id
      BY <1>0, <2>2 DEF Opened
    <3> QED BY <1>0, <2>1, <3>1 DEF CountsUp
  <2>3. CASE v = w \ {m} /\ t = NoSession
    BY <1>0, <2>1, <2>3 DEF CountsUp, NoSession
  <2>4. CASE Kept(m, s, t, w, v)
    BY <1>0, <2>1, <2>4 DEF CountsUp, Kept
  <2> QED BY <2>1, <2>2, <2>3, <2>4
<1>6. CASE BridgeServices
  <2>1. /\ q = p
        /\ SameSession(s, t) \/ (TimedOut(s) /\ t = NoSession)
        /\ \A m \in v : m \in w \/ m.type \in {"session_open", "session_ping"}
        /\ \A m \in v : m \in w \/ (m.type = "session_open" => m.id = s.session_id)
    BY <1>6, ServiceSlice
  <2> HIDE DEF w, v, p, q, s, t
  <2>2. t.session_id <= p.starts
    BY <1>0, <2>1 DEF SameSession, SameButAge, NoSession
  <2>3. \A m \in v : named(m) => m.id <= p.starts
    BY <1>0, <2>1
  <2> QED BY <1>0, <2>1, <2>2, <2>3 DEF CountsUp
<1>7. CASE NetworkTick
  <2>1. /\ t.session_id = s.session_id /\ v = w
        /\ q.stage = p.stage /\ q.id = p.id /\ q.starts = p.starts
    BY <1>7, TickSlice DEF SameButAge
  <2> HIDE DEF w, v, p, q, s, t
  <2> QED BY <1>0, <2>1 DEF CountsUp
<1> QED BY <1>1, <1>2, <1>3, <1>4, <1>5, <1>6, <1>7, Slices DEF Slice

LEMMA FaultsGrow ==
  ASSUME [NetworkNext]_networkVars
  PROVE  /\ faults' = faults \/ faults' = faults + 1
         /\ udp_source' = udp_source
<1>1. CASE \E m \in wire : BridgeReceives(m)
  BY <1>1 DEF BridgeReceives, Received, Ignored, UnlessFault, Fault
<1>2. CASE \E m \in wire : PeerReceives(m)
  BY <1>2 DEF PeerReceives, vars
<1>3. CASE BridgeIdles \/ BridgeServices \/ PeerDue \/ PeerMay \/ NetworkTick \/ NetworkFault
  BY <1>3 DEF BridgeIdles, BridgeServices, Service, PeerDue, PeerMay, NetworkTick, Tick,
     NetworkFault, Fault, vars
<1>4. CASE UNCHANGED networkVars
  BY <1>4 DEF networkVars, vars
<1> QED BY <1>1, <1>2, <1>3, <1>4 DEF NetworkNext, BridgeStep, LateArrival, UnderWay

\* While the network has not failed, a datagram is the only one on its way.
LEMMA InTouchStep ==
  ASSUME KeepaliveTicks < TimeoutTicks,
         TypeOK, NetworkTypeOK, [NetworkNext]_networkVars, NEW e \in Endpoints, Joining(e),
         CountsUp(peer[e], session[e], Mail(e)), InTouch(peer[e], session[e], Mail(e)),
         faults = 0, faults' = 0
  PROVE  InTouch(peer'[e], session'[e], Mail(e)')
<1> DEFINE p == peer[e]
           q == peer'[e]
           s == session[e]
           t == session'[e]
           w == Mail(e)
           v == Mail(e)'
<1> SUFFICES InTouch(q, t, v)
  OBVIOUS
<1>0. /\ InTouch(p, s, w) /\ CountsUp(p, s, w) /\ p.starts \in Nat
      /\ \A m \in w : m \in Wire /\ m.id \in Nat
  BY Numbers
<1>1. s.rx \in Nat
  BY DEF TypeOK, Session, Age, Never
<1>2. TimeoutTicks \in Nat /\ TimeoutTicks >= 2
  BY TimeAssumption
<1>3. TimedOut(s) => s.rx >= 2
  BY <1>1, <1>2 DEF TimedOut
<1>4. CASE Still(e)
  BY <1>4 DEF Still
<1>5. CASE Broken(e)
  BY <1>5 DEF Broken
<1>6. CASE PeerActs(e) /\ t = s
  <2>1. \/ /\ q.stage = "opening" /\ q.id = p.starts + 1 /\ v = w
        \/ q.stage = "down" /\ v = w
        \/ /\ q.stage = "down" /\ \A m \in Posted(w) : m.late
           /\ \E d \in Wire : v = w \cup {d} /\ ~d.late
        \/ \E d \in Wire : Sends(p, q, w, v, d)
    BY <1>6, ActsSlice
  <2> HIDE DEF w, v, p, q, s, t
  <2>2. (\A m \in Posted(w) : m.late) => Posted(w) = {}
    BY <1>0 DEF InTouch, Posted
  <2>3. CASE q.stage = "opening" /\ q.id = p.starts + 1 /\ v = w
    <3>1. \A m \in w : Opens(m) \/ Accepts(m) => m.id <= p.starts
      BY <1>0 DEF CountsUp, Opens, Accepts
    <3>2. \A m \in w : m.id = q.id => ~Opens(m) /\ ~Accepts(m)
      BY <1>0, <2>3, <3>1
    <3> QED BY <1>0, <2>3, <3>2 DEF InTouch
  <2>4. CASE q.stage = "down" /\ v = w
    BY <1>0, <2>4 DEF InTouch
  <2>5. CASE /\ q.stage = "down" /\ \A m \in Posted(w) : m.late
             /\ \E d \in Wire : v = w \cup {d} /\ ~d.late
    BY <1>0, <2>2, <2>5 DEF InTouch, Posted
  <2>6. ASSUME NEW d \in Wire, Sends(p, q, w, v, d)
        PROVE  InTouch(q, t, v)
    <3>1. /\ Posted(w) = {} /\ v = w \cup {d} /\ d.to = "bridge" /\ ~d.late
          /\ q.id = p.id /\ q.sent = TRUE
      BY <2>2, <2>6 DEF Sends
    <3>2. Posted(v) = {d}
      BY <3>1 DEF Posted
    <3>3. (\A m \in v : ~m.late) /\ (\A m, n \in Posted(v) : m = n)
      BY <1>0, <3>1, <3>2 DEF InTouch
    <3>4. Linked(p, s) => Linked(q, t)
      BY <1>6, <3>1 DEF Linked
    <3>5. CASE p.stage = "opening" /\ q.stage = "opening" /\ ~p.sent
      <4>1. \A m \in w : m.id = p.id => ~Accepts(m)
        BY <1>0, <3>5 DEF InTouch
      <4>2. \A m \in v : m.id = q.id => ~Accepts(m)
        BY <3>1, <4>1 DEF Accepts
      <4> QED BY <3>1, <3>3, <3>5, <4>2 DEF InTouch
    <3>6. CASE p.stage = "accepted" /\ q.stage = "playing" /\ d.type = "hid_device_add"
      <4>1. Linked(p, s) /\ s.rx = 0
        BY <1>0, <3>6 DEF InTouch
      <4> QED BY <1>6, <3>2, <3>3, <3>4, <3>6, <4>1 DEF InTouch
    <3>7. CASE p.stage = "playing" /\ q.stage = "playing" /\ d.type = "hid_input_report"
      <4>1. Linked(p, s) /\ s.rx <= 1 /\ s.devices[DeviceId] # 0
        BY <1>0, <3>1, <3>7 DEF InTouch
      <4> QED BY <1>6, <3>2, <3>3, <3>4, <3>7, <4>1 DEF InTouch
    <3>8. CASE p.stage = "playing" /\ q.stage = "removed" /\ d.type = "hid_device_remove"
      <4>1. Linked(p, s) /\ s.rx <= 1
        BY <1>0, <3>8 DEF InTouch
      <4> QED BY <1>6, <3>2, <3>3, <3>4, <3>8, <4>1 DEF InTouch
    <3> QED BY <2>6, <3>5, <3>6, <3>7, <3>8 DEF Sends
  <2> QED BY <2>1, <2>3, <2>4, <2>5, <2>6
<1>7. ASSUME NEW m \in w, PeerReceives(m)
      PROVE  InTouch(q, t, v)
  <2>1. /\ m.to = "peer" /\ v = w \ {m} /\ t = s
        /\ \/ q = p
           \/ /\ Accepts(m) /\ p.stage = "opening" /\ p.id = m.id
              /\ q.stage = "accepted" /\ q.id = p.id
    BY <1>7, HearsSlice
  <2> HIDE DEF w, v, p, q, s, t
  <2>2. Posted(v) = Posted(w) /\ \A k \in v : k \in w
    BY <2>1 DEF Posted
  <2>3. CASE q = p
    BY <1>0, <2>1, <2>2, <2>3 DEF InTouch
  <2>4. CASE Accepts(m) /\ p.stage = "opening" /\ p.id = m.id /\ q.stage = "accepted" /\ q.id = p.id
    <3>1. Linked(p, s) /\ s.rx = 0 /\ Posted(w) = {}
      BY <1>0, <1>7, <2>4 DEF InTouch
    <3>2. Linked(q, t)
      BY <2>1, <2>4, <3>1 DEF Linked
    <3> QED BY <1>0, <2>1, <2>2, <2>4, <3>1, <3>2 DEF InTouch
  <2> QED BY <2>1, <2>3, <2>4
<1>8. ASSUME NEW m \in w, BridgeReceives(m)
      PROVE  InTouch(q, t, v)
  <2>1. /\ q = p /\ m.to = "bridge"
        /\ \/ Opened(m, t, w, v)
           \/ m.type = "session_close" /\ v = w \ {m} /\ t = NoSession
           \/ Kept(m, s, t, w, v)
    BY <1>8, BridgeSlice
  <2> HIDE DEF w, v, p, q, s, t
  <2>2. Posted(w) = {m}
    BY <1>0, <1>8, <2>1 DEF InTouch, Posted
  <2>3. p.stage # "accepted"
    BY <1>0, <2>2 DEF InTouch
  <2>4. p.stage = "opening" => \A k \in w : k.id = p.id => ~Accepts(k)
    BY <1>0, <2>2 DEF InTouch
  <2>5. CASE Opened(m, t, w, v)
    <3>1. PICK d \in Wire : /\ v = (w \ {m}) \cup {d} /\ d.to = "peer" /\ ~d.late
                            /\ d.type = "session_accept" /\ d.id = m.id
      BY <2>5 DEF Opened
    <3>2. /\ t.active /\ t.enabled /\ t.session_id = m.id /\ t.rx = 0
          /\ m.type = "session_open" /\ udp_source = Nobody
      BY <2>5 DEF Opened
    <3>3. Posted(v) = {}
      BY <2>2, <3>1 DEF Posted
    <3>4. \A k \in v : ~k.late
      BY <1>0, <3>1 DEF InTouch
    <3>5. p.stage \notin {"playing", "removed"}
      BY <1>0, <2>2, <3>2 DEF InTouch
    <3>6. CASE p.stage = "opening"
      <4>1. \A k \in v : ~Opens(k)
        BY <3>3 DEF Opens, Posted
      <4>2. ASSUME NEW k \in v, k.id = p.id, Accepts(k)
            PROVE  p.sent /\ Linked(p, t)
        <5>1. k = d /\ m.id = p.id
          BY <2>4, <3>1, <3>6, <4>2
        <5>2. Opens(m)
          BY <2>1, <3>2 DEF Opens
        <5>3. p.sent
          BY <1>0, <1>8, <3>6, <5>1, <5>2 DEF InTouch
        <5> QED BY <3>2, <5>1, <5>3 DEF Linked
      <4> QED BY <2>1, <3>2, <3>3, <3>4, <3>6, <4>1, <4>2 DEF InTouch
    <3> QED BY <2>1, <2>3, <3>3, <3>4, <3>5, <3>6 DEF InTouch
  <2>6. CASE v = w \ {m}
    <3>1. Posted(v) = {} /\ \A k \in v : ~k.late /\ ~Opens(k) /\ k \in w
      BY <1>0, <2>2, <2>6 DEF InTouch, Posted, Opens
    <3>2. CASE p.stage = "opening"
      BY <2>1, <2>4, <3>1, <3>2 DEF InTouch
    <3>3. CASE p.stage \in {"playing", "removed"}
      <4>1. Linked(p, s) /\ m.type \notin {"session_close", "session_open"}
        BY <1>0, <2>2, <3>3 DEF InTouch
      <4>2. Kept(m, s, t, w, v)
        BY <2>1, <4>1 DEF Opened
      <4>3. t.rx = 0 /\ Linked(p, t)
        BY <4>1, <4>2 DEF Kept, Linked
      <4>4. p.stage = "playing" => t.devices[DeviceId] # 0
        <5>1. CASE m.type = "hid_device_add"
          BY <4>1, <4>2, <5>1 DEF Kept, Linked
        <5>2. CASE m.type = "hid_input_report"
          <6>1. p.stage = "playing" => s.devices[DeviceId] # 0
            BY <1>0, <2>2, <5>2 DEF InTouch
          <6> QED BY <4>1, <4>2, <5>2, <6>1 DEF Kept, Linked
        <5>3. p.stage = "playing" => m.type \in {"hid_device_add", "hid_input_report"}
          BY <1>0, <2>2 DEF InTouch
        <5> QED BY <5>1, <5>2, <5>3
      <4> QED BY <2>1, <3>1, <3>3, <4>3, <4>4 DEF InTouch
    <3> QED BY <2>1, <2>3, <3>1, <3>2, <3>3 DEF InTouch
  <2> QED BY <2>1, <2>5, <2>6 DEF Kept
<1>9. CASE BridgeServices
  <2>1. /\ q = p
        /\ SameSession(s, t) \/ (TimedOut(s) /\ t = NoSession)
        /\ \A m \in v : m \in w \/ (m.to = "peer" /\ ~m.late /\ ~Opens(m) /\ ~Accepts(m))
        /\ w \subseteq v
    BY <1>9, ServiceSlice DEF Opens, Accepts
  <2> HIDE DEF w, v, p, q, s, t
  <2>2. Posted(v) = Posted(w) /\ \A m \in v : ~m.late
    BY <1>0, <2>1 DEF Posted, InTouch
  <2>3. CASE SameSession(s, t)
    <3>1. Linked(p, s) => Linked(p, t)
      BY <2>3 DEF SameSession, SameButAge, Linked
    <3>2. p.stage = "opening" =>
            \A m \in v : m.id = p.id =>
              /\ Opens(m) => p.sent
              /\ Accepts(m) => p.sent /\ Linked(p, s) /\ s.rx = 0 /\ Posted(w) = {}
      BY <1>0, <2>1 DEF InTouch
    <3>3. t.rx = s.rx /\ t.devices = s.devices
      BY <2>3 DEF SameSession, SameButAge
    <3> QED BY <1>0, <2>1, <2>2, <3>1, <3>2, <3>3 DEF InTouch
  <2>4. CASE TimedOut(s)
    <3>1. s.rx >= 2
      BY <1>3, <2>4 DEF s
    <3>2. p.stage \notin {"accepted", "playing", "removed"}
      BY <1>0, <1>1, <3>1 DEF InTouch
    <3>3. p.stage = "opening" =>
            \A m \in v : m.id = p.id => (Opens(m) => p.sent) /\ ~Accepts(m)
      BY <1>0, <1>1, <2>1, <3>1 DEF InTouch
    <3> QED BY <1>0, <2>1, <2>2, <3>2, <3>3 DEF InTouch
  <2> QED BY <2>1, <2>3, <2>4
<1>10. CASE NetworkTick
  <2>1. /\ SameButAge(s, t) /\ t.rx = Older(s.rx)
        /\ q.stage = p.stage /\ q.id = p.id /\ q.sent = FALSE /\ v = w
        /\ \A m \in w : m.late
    BY <1>10, TickSlice
  <2>2. /\ p.stage \notin {"accepted", "removed"}
        /\ p.stage = "playing" => p.sent
    BY <1>10, TickSlice DEF PeerIsDue
  <2> HIDE DEF w, v, p, q, s, t
  <2>3. w = {} /\ v = {} /\ Posted(v) = {} /\ Posted(w) = {}
    BY <1>0, <2>1 DEF InTouch, Posted
  <2>4. CASE p.stage = "playing"
    <3>1. Linked(p, s) /\ s.rx = 0 /\ s.devices[DeviceId] # 0
      BY <1>0, <2>2, <2>3, <2>4 DEF InTouch
    <3>2. t.rx = 1
      BY <1>2, <2>1, <3>1 DEF Older
    <3>3. Linked(q, t) /\ t.devices = s.devices
      BY <2>1, <3>1 DEF SameButAge, Linked
    <3> QED BY <2>1, <2>3, <2>4, <3>1, <3>2, <3>3 DEF InTouch
  <2>5. CASE p.stage # "playing"
    BY <2>1, <2>2, <2>3, <2>5 DEF InTouch
  <2> QED BY <2>4, <2>5
<1> QED BY <1>4, <1>5, <1>6, <1>7, <1>8, <1>9, <1>10, Slices DEF Slice

\* Before the first step nothing of a joining peer is there.
LEMMA FirstSlice ==
  ASSUME NetworkInit, NEW e \in Endpoints, Joining(e)
  PROVE  peer[e] = Down(0) /\ session[e] = NoSession /\ Mail(e) = {}
<1>1. peer[e] = Down(0) /\ session[e] = NoSession
  BY DEF NetworkInit, Init, Joining
<1>2. Mail(e) = {}
  BY DEF NetworkInit, Datagram, Mail, Joining
<1> QED BY <1>1, <1>2

LEMMA StepInit == NetworkInit => StepInv
<1> SUFFICES ASSUME NetworkInit, NEW e \in Endpoints, Joining(e)
             PROVE  /\ CountsUp(peer[e], session[e], Mail(e))
                    /\ InTouch(peer[e], session[e], Mail(e))
  BY DEF StepInv
<1>1. peer[e] = Down(0) /\ session[e] = NoSession /\ Mail(e) = {}
  BY FirstSlice
<1>2. CountsUp(Down(0), NoSession, {})
  BY DEF CountsUp, Down, NoSession
<1>3. InTouch(Down(0), NoSession, {})
  BY DEF InTouch, Down, Posted
<1> QED BY <1>1, <1>2, <1>3

LEMMA StepNext ==
  ASSUME KeepaliveTicks < TimeoutTicks, TypeOK, NetworkTypeOK, StepInv,
         [NetworkNext]_networkVars
  PROVE  StepInv'
<1>1. /\ udp_source' = udp_source /\ faults \in Nat
      /\ faults' = faults \/ faults' = faults + 1
  BY FaultsGrow DEF NetworkTypeOK
<1> SUFFICES ASSUME NEW e \in Endpoints, Joining(e)
             PROVE  /\ CountsUp(peer[e], session[e], Mail(e))'
                    /\ faults' = 0 => InTouch(peer[e], session[e], Mail(e))'
  BY <1>1 DEF StepInv, Joining
<1>2. CountsUp(peer'[e], session'[e], Mail(e)')
  BY CountsUpStep DEF StepInv
<1>3. faults' = 0 => InTouch(peer'[e], session'[e], Mail(e)')
  <2> SUFFICES ASSUME faults' = 0 PROVE InTouch(peer'[e], session'[e], Mail(e)')
    OBVIOUS
  <2>1. faults = 0
    BY <1>1
  <2>2. CountsUp(peer[e], session[e], Mail(e)) /\ InTouch(peer[e], session[e], Mail(e))
    BY <2>1 DEF StepInv
  <2> QED BY <2>1, <2>2, InTouchStep
<1>4. CountsUp(peer[e], session[e], Mail(e))'
  BY <1>2 DEF CountsUp
<1>5. InTouch(peer'[e], session'[e], Mail(e)') => InTouch(peer[e], session[e], Mail(e))'
  BY <1>1 DEF InTouch, Linked, Posted
<1> QED BY <1>3, <1>4, <1>5

\* While the network has not failed, a joining peer that is down has been
\* silent for as long as the bridge thinks: what it sent has arrived before
\* time passed, and a session the bridge has is one it may time out.
Left(p, s, w) ==
  /\ \A m \in w : ~m.late
  /\ s.enabled => s.active /\ s.rx <= TimeoutTicks
  /\ p.stage = "down" =>
       /\ Posted(w) # {} => p.waited = 0
       /\ s.enabled => p.waited <= s.rx

GoneInv ==
  faults = 0 => \A e \in Endpoints : Joining(e) => Left(peer[e], session[e], Mail(e))

LEMMA LeftStep ==
  ASSUME TypeOK, NetworkTypeOK, TypeOK', [NetworkNext]_networkVars,
         NEW e \in Endpoints, Joining(e), Left(peer[e], session[e], Mail(e)),
         faults = 0, faults' = 0
  PROVE  Left(peer'[e], session'[e], Mail(e)')
<1> DEFINE p == peer[e]
           q == peer'[e]
           s == session[e]
           t == session'[e]
           w == Mail(e)
           v == Mail(e)'
<1> SUFFICES Left(q, t, v)
  OBVIOUS
<1>0. /\ Left(p, s, w) /\ p.waited \in Nat
      /\ s.rx \in 0..(TimeoutTicks + 1) /\ t.rx \in Nat /\ TimeoutTicks \in Nat
  BY Numbers, TimeAssumption DEF TypeOK, Session, Age, Never
<1>1. CASE Still(e)
  BY <1>1 DEF Still
<1>2. CASE Broken(e)
  BY <1>2 DEF Broken
<1>3. CASE PeerActs(e) /\ t = s
  <2>1. \/ q.stage = "opening" /\ v = w
        \/ q.stage = "down" /\ q.waited = 0 /\ \E d \in Wire : v \subseteq w \cup {d} /\ ~d.late
        \/ q.stage = "down" /\ q.waited = 0 /\ v = w
        \/ \E d \in Wire : Sends(p, q, w, v, d)
    BY <1>3, ActsSlice
  <2> HIDE DEF w, v, p, q, s, t
  <2>2. \A d \in Wire : Sends(p, q, w, v, d) => q.stage # "down" /\ v = w \cup {d} /\ ~d.late
    BY DEF Sends
  <2>3. \A m \in v : ~m.late
    BY <1>0, <2>1, <2>2 DEF Left
  <2>4. q.stage = "down" => q.waited = 0
    BY <2>1, <2>2
  <2> QED BY <1>0, <1>3, <2>3, <2>4 DEF Left
<1>4. ASSUME NEW m \in w, PeerReceives(m)
      PROVE  Left(q, t, v)
  <2>1. /\ m.to = "peer" /\ v = w \ {m} /\ t = s
        /\ q = p \/ q.stage = "accepted"
    BY <1>4, HearsSlice
  <2> HIDE DEF w, v, p, q, s, t
  <2>2. Posted(v) = Posted(w)
    BY <2>1 DEF Posted
  <2> QED BY <1>0, <2>1, <2>2 DEF Left
<1>5. ASSUME NEW m \in w, BridgeReceives(m)
      PROVE  Left(q, t, v)
  <2>1. /\ q = p /\ m.to = "bridge"
        /\ \/ Opened(m, t, w, v)
           \/ m.type = "session_close" /\ v = w \ {m} /\ t = NoSession
           \/ Kept(m, s, t, w, v)
    BY <1>5, BridgeSlice
  <2> HIDE DEF w, v, p, q, s, t
  <2>2. p.stage = "down" => p.waited = 0
    BY <1>0, <1>5, <2>1 DEF Left, Posted
  <2>3. CASE Opened(m, t, w, v)
    <3>1. /\ t.active /\ t.rx = 0
          /\ \E d \in Wire : v = (w \ {m}) \cup {d} /\ ~d.late
      BY <2>3 DEF Opened
    <3>2. \A k \in v : ~k.late
      BY <1>0, <3>1 DEF Left
    <3> QED BY <1>0, <2>1, <2>2, <3>1, <3>2 DEF Left
  <2>4. CASE v = w \ {m} /\ t = NoSession
    <3>1. ~t.enabled
      BY <2>4 DEF NoSession
    <3> QED BY <1>0, <2>1, <2>2, <2>4, <3>1 DEF Left
  <2>5. CASE Kept(m, s, t, w, v)
    <3>1. /\ v = w \ {m} /\ t.enabled = s.enabled /\ t.active = s.active
          /\ t.rx = 0 \/ t.rx = s.rx
      BY <2>5 DEF Kept
    <3> QED BY <1>0, <2>1, <2>2, <3>1 DEF Left
  <2> QED BY <2>1, <2>3, <2>4, <2>5
<1>6. CASE BridgeServices
  <2>1. /\ q = p
        /\ SameSession(s, t) \/ t = NoSession
        /\ \A m \in v : m \in w \/ (m.to = "peer" /\ ~m.late)
        /\ w \subseteq v
    BY <1>6, ServiceSlice
  <2> HIDE DEF w, v, p, q, s, t
  <2>2. Posted(v) = Posted(w) /\ \A m \in v : ~m.late
    BY <1>0, <2>1 DEF Posted, Left
  <2>3. t.enabled => s.enabled /\ t.active = s.active /\ t.rx = s.rx
    <3>1. CASE SameSession(s, t)
      BY <3>1 DEF SameSession, SameButAge
    <3>2. CASE t = NoSession
      BY <3>2 DEF NoSession
    <3> QED BY <2>1, <3>1, <3>2
  <2> QED BY <1>0, <2>1, <2>2, <2>3 DEF Left
<1>7. CASE NetworkTick
  <2>1. /\ t.enabled = s.enabled /\ t.active = s.active /\ t.rx = Older(s.rx)
        /\ q.stage = p.stage /\ q.waited \in {p.waited, p.waited + 1} /\ v = w
        /\ \A m \in w : m.late
    BY <1>7, TickSlice DEF SameButAge
  <2>2. s.enabled /\ s.active => s.rx \notin 0..TimeoutTicks \/ s.rx < TimeoutTicks
    <3>1. ~OpenDue(s) /\ ~TimedOut(s)
      BY <1>7, TickSlice
    <3> HIDE DEF s
    <3> QED BY <1>0, <3>1 DEF OpenDue, TimedOut, Never
  <2> HIDE DEF w, v, p, q, s, t
  <2>3. v = {} /\ Posted(v) = {}
    BY <1>0, <2>1 DEF Left, Posted
  <2>4. ASSUME t.enabled
        PROVE  t.active /\ t.rx = s.rx + 1 /\ t.rx <= TimeoutTicks
    <3>1. s.enabled /\ s.active /\ s.rx < TimeoutTicks
      BY <1>0, <2>1, <2>2, <2>4 DEF Left
    <3> QED BY <1>0, <2>1, <3>1 DEF Older
  <2> QED BY <1>0, <2>1, <2>3, <2>4 DEF Left
<1> QED BY <1>1, <1>2, <1>3, <1>4, <1>5, <1>6, <1>7, Slices DEF Slice

LEMMA GoneInit == NetworkInit => GoneInv
<1> SUFFICES ASSUME NetworkInit, NEW e \in Endpoints, Joining(e)
             PROVE  Left(peer[e], session[e], Mail(e))
  BY DEF GoneInv
<1>1. peer[e] = Down(0) /\ session[e] = NoSession /\ Mail(e) = {}
  BY FirstSlice
<1> QED BY <1>1 DEF Left, NoSession, Posted

LEMMA GoneNext ==
  ASSUME TypeOK, NetworkTypeOK, TypeOK', GoneInv, [NetworkNext]_networkVars
  PROVE  GoneInv'
<1>1. /\ udp_source' = udp_source /\ faults \in Nat
      /\ faults' = faults \/ faults' = faults + 1
  BY FaultsGrow DEF NetworkTypeOK
<1> SUFFICES ASSUME NEW e \in Endpoints, Joining(e), faults' = 0
             PROVE  Left(peer[e], session[e], Mail(e))'
  BY <1>1 DEF GoneInv, Joining
<1>2. faults = 0
  BY <1>1
<1>3. Left(peer'[e], session'[e], Mail(e)')
  BY <1>2, LeftStep DEF GoneInv
<1> QED BY <1>3 DEF Left, Posted

LEMMA InTouchMeans ==
  ASSUME IInv, StepInv, faults = 0, NEW e \in Endpoints, Joining(e),
         peer[e].stage \in {"accepted", "playing", "removed"}
  PROVE  /\ session[e].active /\ session[e].session_id = peer[e].id
         /\ peer[e].stage = "playing" /\ CanSend(e) =>
              /\ session[e].devices[DeviceId] # 0
              /\ controllers[session[e].devices[DeviceId]].session = peer[e].id
<1>1. InTouch(peer[e], session[e], Mail(e))
  BY DEF StepInv
<1>2. session[e].active /\ session[e].session_id = peer[e].id
  BY <1>1 DEF InTouch, Linked
<1>3. ASSUME peer[e].stage = "playing", CanSend(e)
      PROVE  session[e].devices[DeviceId] # 0
  <2>1. Posted(Mail(e)) = {}
    BY <1>1, <1>3 DEF InTouch, CanSend, UnderWay, Posted, Mail
  <2> QED BY <1>1, <1>3, <2>1 DEF InTouch
<1>4. session[e].devices[DeviceId] # 0 =>
        controllers[session[e].devices[DeviceId]].session = session[e].session_id
  BY PeerAssumption DEF IInv, ControllersBelongToTheirSession
<1> QED BY <1>2, <1>3, <1>4

LEMMA GoneMeans ==
  ASSUME TypeOK, NetworkTypeOK, GoneInv, faults = 0, NEW e \in Endpoints, Joining(e),
         peer[e].stage = "down", peer[e].waited > TimeoutTicks
  PROVE  ~session[e].enabled
<1> SUFFICES ASSUME session[e].enabled PROVE FALSE
  OBVIOUS
<1>1. peer[e].waited <= session[e].rx /\ session[e].rx <= TimeoutTicks
  BY DEF GoneInv, Left
<1>2. peer[e].waited \in Nat /\ session[e].rx \in Nat /\ TimeoutTicks \in Nat
  BY Numbers, TimeAssumption DEF TypeOK, Session, Age, Never
<1> QED BY <1>1, <1>2

\* While the network has not failed, what a joining peer believes of its
\* session and its controller is so, provided the timeout is longer than a
\* keepalive interval (the code's are 15 s and 5 s), and the session of one
\* that is down ends with the timeout.
THEOREM PeersStayInStep ==
  ASSUME KeepaliveTicks < TimeoutTicks
  PROVE  NetworkSafety => []PeersAreInStep
<1>1. TypeOK /\ NetworkTypeOK /\ StepInv /\ [NetworkNext]_networkVars => StepInv'
  BY StepNext
<1>2. TypeOK /\ NetworkTypeOK /\ TypeOK' /\ GoneInv /\ [NetworkNext]_networkVars => GoneInv'
  BY GoneNext
<1>3. TypeOK /\ NetworkTypeOK /\ IInv /\ StepInv /\ GoneInv => PeersAreInStep
  BY InTouchMeans, GoneMeans DEF PeersAreInStep
<1> QED BY <1>1, <1>2, <1>3, StepInit, GoneInit, NetworkImplementsSessions, TypeCorrect,
           InductiveInvariant, PTL DEF NetworkSafety

-----------------------------------------------------------------------------
(* Sequence numbers *)

\* A program sends at most one open a tick while it waits, one add, its
\* reports, one remove.
LEMMA PacedStep ==
  ASSUME TypeOK, NetworkTypeOK, [NetworkNext]_networkVars, NEW e \in Endpoints, Joining(e),
         Paced(peer[e])
  PROVE  Paced(peer'[e])
<1> DEFINE p == peer[e]
           q == peer'[e]
           w == Mail(e)
           v == Mail(e)'
<1> SUFFICES Paced(q)
  OBVIOUS
<1>0. /\ Paced(p) /\ p.sequence \in Nat /\ p.waited \in Nat /\ p.reports \in Nat
      /\ p.sent \in BOOLEAN /\ p.sequence + 1 <= SequenceModulus
      /\ MaxReports \in Nat /\ GiveUpTicks \in Nat /\ SequenceModulus \in Nat \ {0}
  BY Numbers, PeerAssumption, SequenceAssumption
<1>1. (p.sequence + 1) % SequenceModulus <= p.sequence + 1
      /\ (p.sequence + 1) % SequenceModulus \in Nat
  <2>1. CASE p.sequence + 1 = SequenceModulus
    BY <1>0, <2>1
  <2>2. CASE p.sequence + 1 < SequenceModulus
    BY <1>0, <2>2
  <2> QED BY <1>0, <2>1, <2>2
<1>2. CASE q = p
  BY <1>0, <1>2
<1>3. CASE PeerActs(e)
  <2>1. \/ /\ q.stage = "opening" /\ q.sent = FALSE /\ q.waited = 0
           /\ q.sequence = 0 /\ q.reports = 0
        \/ q.stage = "down"
        \/ \E d \in Wire : Sends(p, q, w, v, d)
    BY <1>3, ActsSlice
  <2> HIDE DEF w, v, p, q
  <2>2. CASE q.stage = "opening" /\ q.sent = FALSE /\ q.waited = 0
             /\ q.sequence = 0 /\ q.reports = 0
    BY <1>0, <2>2 DEF Paced
  <2>3. CASE q.stage = "down"
    BY <2>3 DEF Paced
  <2>4. ASSUME NEW d \in Wire, Sends(p, q, w, v, d)
        PROVE  Paced(q)
    <3>1. q.waited = p.waited /\ q.sent = TRUE /\ q.sequence \in Nat
          /\ q.sequence <= p.sequence + 1
      BY <1>1, <2>4 DEF Sends
    <3>2. CASE p.stage = "opening" /\ q.stage = "opening" /\ ~p.sent /\ q.reports = p.reports
      BY <1>0, <3>1, <3>2 DEF Paced
    <3>3. CASE p.stage = "accepted" /\ q.stage = "playing" /\ q.reports = p.reports
      BY <1>0, <3>1, <3>3 DEF Paced
    <3>4. CASE /\ p.stage = "playing" /\ q.stage = "playing"
               /\ q.reports = p.reports + 1 /\ p.reports < MaxReports
      BY <1>0, <3>1, <3>4 DEF Paced
    <3>5. CASE p.stage = "playing" /\ q.stage = "removed"
      BY <1>0, <3>1, <3>5 DEF Paced
    <3> QED BY <2>4, <3>2, <3>3, <3>4, <3>5 DEF Sends
  <2> QED BY <2>1, <2>2, <2>3, <2>4
<1>4. ASSUME NEW m \in w, PeerReceives(m)
      PROVE  Paced(q)
  <2>1. \/ q = p
        \/ /\ p.stage = "opening" /\ q.stage = "accepted"
           /\ q.sequence = p.sequence /\ q.reports = p.reports
    BY <1>4, HearsSlice
  <2> HIDE DEF w, v, p, q
  <2> QED BY <1>0, <2>1 DEF Paced
<1>5. ASSUME NEW m \in w, BridgeReceives(m)
      PROVE  Paced(q)
  <2>1. q = p
    BY <1>5, BridgeSlice
  <2> QED BY <1>0, <2>1
<1>6. CASE BridgeServices
  <2>1. q = p
    BY <1>6, ServiceSlice
  <2> QED BY <1>0, <2>1
<1>7. CASE NetworkTick
  <2>1. /\ q.stage = p.stage /\ q.sequence = p.sequence /\ q.reports = p.reports
        /\ q.sent = FALSE
        /\ p.stage = "opening" => q.waited = p.waited + 1
    BY <1>7, TickSlice DEF Waits
  <2>2. p.stage = "opening" => p.sent /\ p.waited # GiveUpTicks
    BY <1>7, TickSlice DEF PeerIsDue
  <2> HIDE DEF w, v, p, q
  <2> QED BY <1>0, <2>1, <2>2 DEF Paced
<1> QED BY <1>2, <1>3, <1>4, <1>5, <1>6, <1>7, Slices DEF Slice, Still, Broken

\* A controller is left alone by all but its own device and the end of its
\* own session.
LEMMA OtherMail ==
  ASSUME IInv, NetworkTypeOK, NEW m \in wire, BridgeReceives(m),
         NEW e \in Endpoints, m.end # e, session[e].devices[DeviceId] # 0
  PROVE  controllers'[session[e].devices[DeviceId]]
           = controllers[session[e].devices[DeviceId]]
<1> DEFINE id == session[e].devices[DeviceId]
           x == m.end
<1>0. /\ x \in Endpoints /\ DeviceId \in SourceIds
      /\ session \in [Endpoints -> Session] /\ controllers \in [Ids -> Controller]
  BY PeerAssumption DEF IInv, TypeOK, NetworkTypeOK, Wire
<1>1. session[e].devices \in [SourceIds -> NetworkIds \cup {0}]
  BY <1>0 DEF Session
<1>2. id \in NetworkIds /\ id \in Ids /\ id < next_network_device_id
      /\ controllers[id].owner = <<e, DeviceId>>
  BY <1>0, <1>1 DEF IInv, ControllersAreOwned, IdsWereHandedOut, Ids
<1>3. \A s \in SourceIds : session[x].devices[s] # id
  BY <1>0, <1>2, IdAssumption DEF IInv, ControllersAreOwned, NetworkIds
<1>4. RemoveDevicesOf({x})[id] = controllers[id]
  BY <1>2, <1>3 DEF RemoveDevicesOf
<1> SUFFICES controllers'[id] = controllers[id]
  OBVIOUS
<1> HIDE DEF id
<1>5. ASSUME NEW sequence, NEW usable, NEW i \in Ids, i # id
      PROVE  Reported(i, sequence, usable)[id] = controllers[id]
  BY <1>0, <1>2, <1>5 DEF Reported
<1>6. session[x].devices[DeviceId] # id /\ next_network_device_id # id
      /\ session[x].devices[DeviceId] \in NetworkIds \cup {0}
  BY <1>0, <1>2, <1>3, IdAssumption DEF Session, IInv, TypeOK, NetworkIds
<1>7. CASE Ignored(m)
  BY <1>7 DEF Ignored, DatagramNoted, NoDatagram
<1>8. CASE Received(m)
  <2>1. ASSUME NEW sent \in BOOLEAN, SessionOpen(x, m.id, sent)
        PROVE  controllers'[id] = controllers[id]
    BY <1>4, <2>1 DEF SessionOpen
  <2>2. ASSUME NEW added \in BOOLEAN, DeviceAdd(x, DeviceId, added)
        PROVE  controllers'[id] = controllers[id]
    BY <1>0, <1>2, <1>6, <2>2 DEF DeviceAdd
  <2>3. CASE SessionAccept(x, m.id)
    BY <2>3 DEF SessionAccept
  <2>4. CASE SessionClose(x)
    BY <1>4, <2>4 DEF SessionClose
  <2>5. CASE DeviceRemove(x, DeviceId)
    BY <1>0, <1>2, <1>6, <2>5 DEF DeviceRemove
  <2>6. CASE DeviceReport(x, DeviceId, m.sequence, TRUE)
    <3>1. session[x].devices[DeviceId] \in Ids
      BY <1>6, <2>6 DEF DeviceReport, Ids
    <3> QED BY <1>5, <1>6, <2>6, <3>1 DEF DeviceReport
  <2> QED BY <1>8, <2>1, <2>2, <2>3, <2>4, <2>5, <2>6 DEF Received
<1> QED BY <1>7, <1>8 DEF BridgeReceives

LEMMA ServiceSpares ==
  ASSUME IInv, NEW e \in Endpoints, BridgeServices, session[e].devices[DeviceId] # 0,
         ~TimedOut(session[e])
  PROVE  controllers'[session[e].devices[DeviceId]]
           = controllers[session[e].devices[DeviceId]]
<1> DEFINE id == session[e].devices[DeviceId]
           ending == {x \in Endpoints : TimedOut(session[x])}
<1>0. DeviceId \in SourceIds /\ session[e].devices \in [SourceIds -> NetworkIds \cup {0}]
  BY PeerAssumption DEF IInv, TypeOK, Session
<1>1. id \in Ids /\ id # 0 /\ controllers[id].owner = <<e, DeviceId>>
  BY <1>0 DEF IInv, ControllersAreOwned, Ids
<1>2. \A x \in ending, s \in SourceIds : session[x].devices[s] # id
  BY <1>0, <1>1 DEF IInv, ControllersAreOwned
<1>3. RemoveDevicesOf(ending)[id] = controllers[id]
  BY <1>1, <1>2 DEF RemoveDevicesOf
<1> QED BY <1>3 DEF BridgeServices, Service

LEMMA TimeoutEnds ==
  ASSUME TypeOK, NEW e \in Endpoints, Joining(e), BridgeServices, TimedOut(session[e])
  PROVE  session'[e] = NoSession
<1>1. ~OpenDue(session[e]) /\ ~PingDue(session[e])
  BY DEF TimedOut, OpenDue, PingDue
<1>2. Serviced(e) = Ended(e)
  BY <1>1 DEF Serviced
<1> QED BY <1>2 DEF BridgeServices, Service, Ended, Joining

\* What a joining peer's datagram leaves in the filter of its controller.
Filtered(m, s, t, old, new) ==
  LET id == t.devices[DeviceId]
  IN  id # 0 =>
        \/ new[id].last = -1
        \/ /\ t.session_id = s.session_id /\ id = s.devices[DeviceId]
           /\ \/ new[id].last = old[id].last
              \/ m.type = "hid_input_report" /\ new[id].last = m.sequence

LEMMA OwnMail ==
  ASSUME IInv, NetworkTypeOK, NEW e \in Endpoints, Joining(e), NEW m \in Mail(e),
         BridgeReceives(m)
  PROVE  Filtered(m, session[e], session'[e], controllers, controllers')
<1> DEFINE s == session[e]
           t == session'[e]
<1>0. /\ m \in Wire /\ m \in wire /\ m.end = e /\ e # udp_source
      /\ DeviceId \in SourceIds /\ TypeOK /\ session \in [Endpoints -> Session] /\ s \in Session
      /\ controllers \in [Ids -> Controller]
  BY PeerAssumption DEF IInv, TypeOK, NetworkTypeOK, Mail, Joining
<1>1. NoDevices[DeviceId] = 0 /\ NoSession.devices = NoDevices
  BY <1>0 DEF NoDevices, NoSession
<1>2. ASSUME controllers' = controllers, t.devices = s.devices,
             t.session_id = s.session_id
      PROVE  Filtered(m, s, t, controllers, controllers')
  BY <1>2 DEF Filtered
<1>3. ASSUME t.devices[DeviceId] = 0
      PROVE  Filtered(m, s, t, controllers, controllers')
  BY <1>3 DEF Filtered
<1>4. CASE Ignored(m)
  <2>1. controllers' = controllers
    BY <1>4 DEF Ignored, DatagramNoted, NoDatagram
  <2>2. t = s \/ t = Heard(e)
    BY <1>0, <1>4 DEF Ignored, DatagramNoted, NoDatagram
  <2> QED BY <1>0, <1>2, <2>1, <2>2, HeardSlice
<1>5. CASE Received(m)
  <2>1. ASSUME NEW sent \in BOOLEAN, m.type = "session_open", SessionOpen(e, m.id, sent)
        PROVE  Filtered(m, s, t, controllers, controllers')
    <3>1. m.id \in SessionIds
      BY <1>0, <2>1 DEF NetworkTypeOK, Wire
    <3>2. /\ t.session_id = m.id
          /\ Changing(e, m.id) => t.devices = NoDevices
          /\ ~Changing(e, m.id) => t.devices = s.devices
      BY <1>0, <2>1, <3>1, OpenSlice
    <3>3. CASE Changing(e, m.id)
      BY <1>1, <1>3, <3>2, <3>3
    <3>4. CASE ~Changing(e, m.id) /\ s.active
      <4>1. controllers' = controllers
        BY <2>1, <3>4 DEF SessionOpen
      <4> QED BY <1>2, <3>2, <3>4, <4>1 DEF Changing
    <3>5. CASE ~s.active
      <4>1. s.devices[DeviceId] = 0
        BY <1>0, <3>5 DEF IInv, ControllersBelongToTheirSession
      <4> QED BY <1>3, <3>2, <3>5, <4>1 DEF Changing
    <3> QED BY <3>3, <3>4, <3>5
  <2>2. ASSUME NEW added \in BOOLEAN, DeviceAdd(e, DeviceId, added)
        PROVE  Filtered(m, s, t, controllers, controllers')
    <3> DEFINE known == s.devices[DeviceId] # 0
               id == IF known THEN s.devices[DeviceId] ELSE next_network_device_id
    <3>1. id \in NetworkIds /\ id \in Ids
      BY <2>2 DEF DeviceAdd, Ids
    <3>2. t = IF known \/ added THEN Mapping(e, id) ELSE Heard(e)
      BY <1>0, <2>2 DEF DeviceAdd, Mapping
    <3>3. controllers' =
            IF added THEN [controllers EXCEPT ![id] = NewController(e, DeviceId)] ELSE controllers
      BY <2>2 DEF DeviceAdd
    <3>4. known => id = s.devices[DeviceId]
      OBVIOUS
    <3> HIDE DEF id
    <3>5. CASE added
      <4>1. t.devices[DeviceId] = id
        BY <1>0, <3>1, <3>2, <3>5, MappedSlice
      <4>2. controllers'[id].last = -1
        BY <1>0, <3>1, <3>3, <3>5 DEF NewController
      <4> QED BY <4>1, <4>2 DEF Filtered
    <3>6. CASE ~added /\ known
      <4>1. t.devices[DeviceId] = id /\ t.session_id = s.session_id
        BY <1>0, <3>1, <3>2, <3>6, MappedSlice
      <4> QED BY <3>3, <3>4, <3>6, <4>1 DEF Filtered
    <3>7. CASE ~added /\ ~known
      <4>1. t.devices[DeviceId] = 0
        BY <1>0, <3>2, <3>7, HeardSlice
      <4> QED BY <1>3, <4>1
    <3> QED BY <3>5, <3>6, <3>7
  <2>3. CASE SessionAccept(e, m.id)
    BY <1>0, <2>3 DEF SessionAccept
  <2>4. CASE SessionClose(e)
    <3>1. t = NoSession
      BY <1>0, <2>4 DEF SessionClose, Ended
    <3> QED BY <1>1, <1>3, <3>1
  <2>5. CASE DeviceRemove(e, DeviceId)
    <3>1. t = Mapping(e, 0)
      BY <1>0, <2>5 DEF DeviceRemove, Mapping
    <3> QED BY <1>0, <1>3, <3>1, MappedSlice
  <2>6. CASE m.type = "hid_input_report" /\ DeviceReport(e, DeviceId, m.sequence, TRUE)
    <3> DEFINE id == s.devices[DeviceId]
    <3>1. id \in NetworkIds /\ id \in Ids
      BY <1>0, <2>6 DEF DeviceReport, Ids, Session
    <3>2. t.devices = s.devices /\ t.session_id = s.session_id
      <4>1. t = Heard(e)
        BY <1>0, <2>6 DEF DeviceReport
      <4> QED BY <1>0, <4>1, HeardSlice
    <3>3. \/ controllers' = controllers
          \/ controllers' = [controllers EXCEPT ![id].last = m.sequence]
      BY <2>6 DEF DeviceReport, Reported
    <3> HIDE DEF id
    <3>4. \/ controllers'[id].last = controllers[id].last
          \/ controllers'[id].last = m.sequence
      <4>1. controllers[id] \in Controller
        BY <1>0, <3>1
      <4>2. [controllers[id] EXCEPT !.last = m.sequence].last = m.sequence
        BY <4>1 DEF Controller
      <4> QED BY <1>0, <3>1, <3>3, <4>2
    <3> QED BY <2>6, <3>2, <3>4 DEF Filtered, id
  <2> QED BY <1>0, <1>5, <2>1, <2>2, <2>3, <2>4, <2>5, <2>6 DEF Received
<1> QED BY <1>4, <1>5 DEF BridgeReceives

\* The bridge's filter stays behind the peer's counter: the first report of a new
\* controller is taken whatever it says, later ones count up.
LEMMA AheadStep ==
  ASSUME ~StaleReports, 2 * (GiveUpTicks + 2 + MaxReports) < SequenceModulus,
         IInv, NetworkTypeOK, [NetworkNext]_networkVars, NEW e \in Endpoints, Joining(e),
         CountsUp(peer[e], session[e], Mail(e)), Paced(peer[e]),
         Ahead(peer[e], session[e], Mail(e), controllers)
  PROVE  Ahead(peer'[e], session'[e], Mail(e)', controllers')
<1> DEFINE p == peer[e]
           q == peer'[e]
           s == session[e]
           t == session'[e]
           w == Mail(e)
           v == Mail(e)'
           c == controllers
           d == controllers'
           report(m) == m.type = "hid_input_report"
<1> SUFFICES Ahead(q, t, v, d)
  OBVIOUS
<1>0. /\ TypeOK /\ CountsUp(p, s, w) /\ Ahead(p, s, w, c)
      /\ p.sequence \in Nat /\ p.starts \in Nat /\ s.session_id \in Nat
      /\ \A m \in w : m \in Wire /\ m.sequence \in Nat
  BY Numbers DEF IInv
<1>1. \A id \in Ids : c[id].last \in Int
  <2>1. \A id \in Ids : c[id].last \in Sequences \cup {-1}
    BY DEF IInv, TypeOK, Controller
  <2>2. Sequences \cup {-1} \subseteq Int
    BY SequenceAssumption DEF Sequences
  <2> QED BY <2>1, <2>2
<1>2. s.devices[DeviceId] # 0 => s.devices[DeviceId] \in Ids
  BY PeerAssumption DEF IInv, TypeOK, Session, Ids
<1>3. ASSUME q.stage # "down" => p.stage # "down" /\ q.id = p.id /\ p.sequence <= q.sequence,
             q.sequence \in Nat,
             t.session_id = s.session_id, t.devices = s.devices,
             s.devices[DeviceId] # 0 => d[s.devices[DeviceId]] = c[s.devices[DeviceId]],
             \A m \in v : report(m) /\ q.stage # "down" => m.sequence < q.sequence
      PROVE  Ahead(q, t, v, d)
  <2> HIDE DEF w, v, p, q, s, t, c, d
  <2>1. s.devices[DeviceId] # 0 =>
          /\ c[s.devices[DeviceId]].last \in Int
          /\ d[s.devices[DeviceId]] = c[s.devices[DeviceId]]
    BY <1>1, <1>2, <1>3
  <2>2. ASSUME q.stage # "down", t.session_id = q.id, t.devices[DeviceId] # 0
        PROVE  d[t.devices[DeviceId]].last < q.sequence
    <3>1. c[s.devices[DeviceId]].last < p.sequence
      BY <1>0, <1>3, <2>2 DEF Ahead
    <3> QED BY <1>0, <1>3, <2>1, <2>2, <3>1
  <2> QED BY <1>3, <2>2 DEF Ahead
<1>4. ASSUME q.stage = p.stage, q.id = p.id, q.sequence = p.sequence,
             t.session_id = s.session_id, t.devices = s.devices,
             s.devices[DeviceId] # 0 => d[s.devices[DeviceId]] = c[s.devices[DeviceId]],
             \A m \in v : report(m) => \E n \in w : report(n) /\ n.sequence = m.sequence
      PROVE  Ahead(q, t, v, d)
  <2>1. \A m \in v : report(m) /\ q.stage # "down" => m.sequence < q.sequence
    BY <1>0, <1>4 DEF Ahead
  <2> HIDE DEF w, v, p, q, s, t, c, d
  <2> QED BY <1>0, <1>3, <1>4, <2>1
<1>5. CASE Still(e) /\ controllers' = controllers
  BY <1>4, <1>5 DEF Still
<1>6. CASE Broken(e) /\ controllers' = controllers
  <2>1. PICK m \in w : v \subseteq (w \cup {[m EXCEPT !.late = TRUE]})
    BY <1>6 DEF Broken
  <2> DEFINE n == [m EXCEPT !.late = TRUE]
  <2>2. n.type = m.type /\ n.sequence = m.sequence
    BY <1>0, LateSame
  <2> HIDE DEF n
  <2>3. \A k \in v : report(k) => \E l \in w : report(l) /\ l.sequence = k.sequence
    BY <2>1, <2>2 DEF n
  <2> QED BY <1>4, <1>6, <2>3 DEF Broken
<1>7. CASE PeerActs(e) /\ t = s /\ controllers' = controllers
  <2>1. \/ /\ PeerStarts(e) /\ q.id = p.starts + 1 /\ v = w
        \/ q.stage = "down"
        \/ \E k \in Wire : Sends(p, q, w, v, k)
    BY <1>7, ActsSlice
  <2>2. CASE PeerStarts(e) /\ q.id = p.starts + 1 /\ v = w
    <3>1. \A m \in v : ~report(m)
      BY <2>2 DEF PeerStarts, Mail
    <3>2. t.session_id # q.id
      BY <1>0, <1>7, <2>2 DEF CountsUp
    <3> HIDE DEF w, v, p, q, s, t, c, d
    <3> QED BY <3>1, <3>2 DEF Ahead
  <2>3. CASE q.stage = "down"
    BY <2>3 DEF Ahead
  <2>4. ASSUME NEW k \in Wire, Sends(p, q, w, v, k)
        PROVE  Ahead(q, t, v, d)
    <3>1. p.stage # "down" /\ q.id = p.id
      BY <2>4 DEF Sends
    <3>2. p.sequence + 1 < SequenceModulus
      <4>1. /\ MaxReports \in Nat /\ GiveUpTicks \in Nat /\ SequenceModulus \in Nat
            /\ p.waited \in Nat /\ p.reports \in Nat /\ p.sent \in BOOLEAN
        BY Numbers, PeerAssumption, SequenceAssumption DEF IInv
      <4>2. p.stage \in {"opening", "accepted", "playing"}
        BY <2>4 DEF Sends
      <4>3. p.stage = "opening" => ~p.sent
        BY <2>4 DEF Sends
      <4>4. p.sequence <= GiveUpTicks + 2 + MaxReports
        <5> HIDE DEF p
        <5> QED BY <1>0, <4>1, <4>2, <4>3 DEF Paced, p
      <4> HIDE DEF p
      <4> QED BY <1>0, <4>1, <4>4
    <3>3. q.sequence = p.sequence + 1
      <4>1. q.sequence = (p.sequence + 1) % SequenceModulus
        BY <2>4 DEF Sends
      <4>2. SequenceModulus \in Nat \ {0}
        BY SequenceAssumption
      <4> HIDE DEF p, q
      <4> QED BY <1>0, <3>2, <4>1, <4>2
    <3>4. \A m \in v : report(m) => m.sequence < q.sequence
      <4>1. v = w \cup {k} /\ (report(k) => k.sequence = p.sequence)
        BY <2>4 DEF Sends
      <4>2. \A m \in w : report(m) => m.sequence < p.sequence
        BY <1>0, <3>1 DEF Ahead
      <4> HIDE DEF p, q, w, v
      <4> QED BY <1>0, <3>3, <4>1, <4>2
    <3> HIDE DEF p, q, w, v
    <3> QED BY <1>0, <1>3, <1>7, <3>1, <3>3, <3>4
  <2> QED BY <2>1, <2>2, <2>3, <2>4
<1>8. ASSUME NEW m \in w, PeerReceives(m)
      PROVE  Ahead(q, t, v, d)
  <2>1. /\ v = w \ {m} /\ t = s
        /\ \/ q = p
           \/ p.stage = "opening" /\ q.id = p.id /\ q.sequence = p.sequence
    BY <1>8, HearsSlice
  <2>2. controllers' = controllers
    BY <1>8 DEF PeerReceives, vars
  <2>3. p.stage # "down" => \A n \in v : report(n) => n.sequence < q.sequence
    BY <1>0, <2>1 DEF Ahead
  <2>4. q.stage # "down" => p.stage # "down" /\ q.id = p.id
    BY <2>1
  <2>5. q.sequence = p.sequence
    BY <2>1
  <2> HIDE DEF w, v, p, q, s, t
  <2> QED BY <1>0, <1>3, <2>1, <2>2, <2>3, <2>4, <2>5
<1>9. ASSUME NEW m \in w, BridgeReceives(m)
       PROVE  Ahead(q, t, v, d)
  <2>1. /\ q = p
        /\ \/ Opened(m, t, w, v)
           \/ v = w \ {m} /\ t = NoSession
           \/ Kept(m, s, t, w, v)
    BY <1>0, <1>9, BridgeSlice
  <2>2. Filtered(m, s, t, c, d)
    BY <1>9, OwnMail
  <2>3. \A n \in v : report(n) => n \in w
    BY <2>1 DEF Opened, Kept
  <2> HIDE DEF w, v, p, q, s, t, c, d
  <2>4. ASSUME q.stage # "down", t.session_id = q.id, t.devices[DeviceId] # 0
        PROVE  d[t.devices[DeviceId]].last < q.sequence
    <3>1. CASE d[t.devices[DeviceId]].last = -1
      BY <1>0, <2>1, <3>1
    <3>2. CASE /\ t.session_id = s.session_id /\ t.devices[DeviceId] = s.devices[DeviceId]
               /\ d[t.devices[DeviceId]].last = c[t.devices[DeviceId]].last
      BY <1>0, <2>1, <2>4, <3>2 DEF Ahead
    <3>3. CASE report(m) /\ d[t.devices[DeviceId]].last = m.sequence
      BY <1>0, <1>9, <2>1, <2>4, <3>3 DEF Ahead
    <3> QED BY <2>2, <2>4, <3>1, <3>2, <3>3 DEF Filtered
  <2> QED BY <1>0, <2>1, <2>3, <2>4 DEF Ahead
<1>10. CASE BridgeServices
  <2>1. /\ q = p
        /\ SameSession(s, t) \/ (TimedOut(s) /\ t = NoSession)
        /\ \A m \in v : m \in w \/ m.type \in {"session_open", "session_ping"}
    BY <1>0, <1>10, ServiceSlice
  <2>2. \A m \in v : report(m) => m \in w
    BY <2>1
  <2>3. CASE TimedOut(s)
    <3>1. t = NoSession
      BY <1>0, <1>10, <2>3, TimeoutEnds
    <3>2. t.devices[DeviceId] = 0
      BY <3>1, PeerAssumption DEF NoSession, NoDevices
    <3> HIDE DEF w, v, p, q, s, t, c, d
    <3> QED BY <1>0, <2>1, <2>2, <3>2 DEF Ahead
  <2>4. CASE ~TimedOut(s)
    <3>1. s.devices[DeviceId] # 0 => d[s.devices[DeviceId]] = c[s.devices[DeviceId]]
      BY <1>10, <2>4, ServiceSpares
    <3>2. t.session_id = s.session_id /\ t.devices = s.devices
      BY <2>1, <2>4 DEF SameSession, SameButAge
    <3> HIDE DEF w, v, p, q, s, t, c, d
    <3> QED BY <1>4, <2>1, <2>2, <3>1, <3>2
  <2> QED BY <2>3, <2>4
<1>11. CASE NetworkTick
  <2>1. /\ SameButAge(s, t) /\ v = w
        /\ q.stage = p.stage /\ q.id = p.id /\ q.sequence = p.sequence
    BY <1>0, <1>11, TickSlice
  <2>2. controllers' = controllers
    BY <1>11 DEF NetworkTick, Tick
  <2> HIDE DEF w, v, p, q, s, t
  <2> QED BY <1>4, <2>1, <2>2 DEF SameButAge
<1>12. ASSUME NEW m \in wire, m.end # e, BridgeReceives(m)
       PROVE  Ahead(q, t, v, d)
  <2>1. Still(e)
    BY <1>0, <1>12, BridgeReceivesElsewhere
  <2>2. s.devices[DeviceId] # 0 => d[s.devices[DeviceId]] = c[s.devices[DeviceId]]
    BY <1>12, OtherMail
  <2>3. q = p /\ t = s /\ v = w
    BY <2>1 DEF Still
  <2> HIDE DEF w, v, p, q, s, t, c, d
  <2> QED BY <1>4, <2>2, <2>3
<1>13. \/ controllers' = controllers
       \/ BridgeServices
       \/ \E m \in wire : BridgeReceives(m)
  BY DEF NetworkNext, BridgeStep, BridgeIdles, NoDatagram, PeerReceives, PeerDue, PeerMay,
     NetworkTick, Tick, LateArrival, NetworkFault, UnderWay, networkVars, vars
<1>14. CASE controllers' = controllers
  BY <1>0, <1>5, <1>6, <1>7, <1>8, <1>9, <1>10, <1>11, <1>14, Slices DEF Slice
<1>15. CASE \E m \in wire : BridgeReceives(m)
  BY <1>9, <1>12, <1>15 DEF Mail
<1> QED BY <1>10, <1>13, <1>14, <1>15

LEMMA FreshInit == NetworkInit => FreshInv
<1> SUFFICES ASSUME NetworkInit, NEW e \in Endpoints, Joining(e)
             PROVE  /\ Paced(peer[e])
                    /\ Ahead(peer[e], session[e], Mail(e), controllers)
  BY DEF FreshInv
<1>1. peer[e] = Down(0)
  BY FirstSlice
<1> QED BY <1>1 DEF Paced, Ahead, Down

Counting == \A e \in Endpoints : Joining(e) => CountsUp(peer[e], session[e], Mail(e))

LEMMA CountsNext ==
  ASSUME TypeOK, NetworkTypeOK, Counting, [NetworkNext]_networkVars
  PROVE  Counting'
<1> SUFFICES ASSUME NEW e \in Endpoints, Joining(e)'
             PROVE  CountsUp(peer[e], session[e], Mail(e))'
  BY DEF Counting
<1>1. Joining(e)
  BY FaultsGrow DEF Joining
<1>2. CountsUp(peer'[e], session'[e], Mail(e)')
  BY <1>1, CountsUpStep DEF Counting
<1> QED BY <1>2 DEF CountsUp

LEMMA FreshNext ==
  ASSUME ~StaleReports, 2 * (GiveUpTicks + 2 + MaxReports) < SequenceModulus,
         IInv, NetworkTypeOK, Counting, FreshInv, [NetworkNext]_networkVars
  PROVE  FreshInv'
<1> SUFFICES ASSUME NEW e \in Endpoints, Joining(e)'
             PROVE  /\ Paced(peer[e])'
                    /\ Ahead(peer[e], session[e], Mail(e), controllers)'
  BY DEF FreshInv
<1>1. Joining(e)
  BY FaultsGrow DEF Joining
<1>2. TypeOK
  BY DEF IInv
<1>3. Paced(peer'[e])
  BY <1>1, <1>2, PacedStep DEF FreshInv
<1>4. Ahead(peer'[e], session'[e], Mail(e)', controllers')
  BY <1>1, AheadStep DEF FreshInv, Counting
<1>5. Paced(peer[e])'
  BY <1>3 DEF Paced
<1> QED BY <1>4, <1>5 DEF Ahead

LEMMA FreshMeans ==
  ASSUME 2 * (GiveUpTicks + 2 + MaxReports) < SequenceModulus,
         IInv, NetworkTypeOK, FreshInv
  PROVE  FreshReportsPass
<1> SUFFICES ASSUME NEW e \in Endpoints, Joining(e), peer[e].stage = "playing",
                    session[e].session_id = peer[e].id, session[e].devices[DeviceId] # 0,
                    controllers[session[e].devices[DeviceId]].last # -1
             PROVE  Newer(peer[e].sequence,
                          controllers[session[e].devices[DeviceId]].last)
  BY DEF FreshReportsPass
<1> DEFINE n == peer[e].sequence
           last == controllers[session[e].devices[DeviceId]].last
<1>1. /\ MaxReports \in Nat /\ GiveUpTicks \in Nat /\ SequenceModulus \in Nat
      /\ n \in Nat /\ peer[e].reports \in Nat
  BY Numbers, PeerAssumption, SequenceAssumption DEF IInv
<1>2. session[e].devices[DeviceId] \in Ids
  BY PeerAssumption DEF IInv, TypeOK, Session, Ids
<1>3. last \in Nat
  <2>1. last \in Sequences
    BY <1>2 DEF IInv, TypeOK, Controller
  <2> QED BY <2>1, SequenceAssumption DEF Sequences
<1>4. last < n
  BY DEF FreshInv, Ahead
<1>5. n <= GiveUpTicks + 2 + MaxReports
  BY <1>1 DEF FreshInv, Paced
<1> HIDE DEF n, last
<1>6. (n - last) % SequenceModulus = n - last
  BY <1>1, <1>3, <1>4, <1>5
<1> QED BY <1>1, <1>3, <1>4, <1>5, <1>6 DEF Newer, n, last

\* The sequence filter never stands in the way of a joining peer's next
\* report, also after it started again and counts from zero, provided no
\* report outlives the program that sent it and a program sends fewer
\* datagrams than half the ring of sequence numbers.
THEOREM FreshReportsAreTaken ==
  ASSUME ~StaleReports, 2 * (GiveUpTicks + 2 + MaxReports) < SequenceModulus
  PROVE  NetworkSafety => []FreshReportsPass
<1>1. NetworkInit => Counting /\ FreshInv
  BY StepInit, FreshInit DEF StepInv, Counting
<1>2. TypeOK /\ NetworkTypeOK /\ Counting /\ [NetworkNext]_networkVars => Counting'
  BY CountsNext
<1>3. IInv /\ NetworkTypeOK /\ Counting /\ FreshInv /\ [NetworkNext]_networkVars => FreshInv'
  BY FreshNext
<1>4. IInv /\ NetworkTypeOK /\ FreshInv => FreshReportsPass
  BY FreshMeans
<1> QED BY <1>1, <1>2, <1>3, <1>4, NetworkImplementsSessions, TypeCorrect,
           InductiveInvariant, PTL DEF NetworkSafety

-----------------------------------------------------------------------------
(* The timeout.  A joining peer is heard of once a tick unless a datagram is *)
(* lost.  The configured source need not say anything by itself: there the   *)
(* bridge's pings count, one at the end of each keepalive interval, which    *)
(* cost the network a fault each.                                            *)

Fresh(w) == \E m \in w : m.to = "bridge" /\ ~m.late
Met(p) == p.stage \in {"accepted", "playing", "removed"}

\* The program of a joining peer has an accept, or will have.
Welcome(p, w) ==
  Met(p) \/ (p.stage = "opening" /\ \E m \in w : Accepts(m) /\ m.id = p.id)

Noticed(p, s, w, f) ==
  s.active =>
    /\ s.enabled /\ udp_source = Nobody
    /\ Welcome(p, w) => s.rx <= f + 1 /\ (p.sent /\ ~Fresh(w) => s.rx <= f)

\* When the bridge pings, by the ages of the last datagram heard, sent and of
\* the last ping.
Pinged(s) ==
  /\ s.enabled
  /\ s.active =>
       /\ s.open_sent /\ s.rx <= TimeoutTicks
       /\ s.rx < KeepaliveTicks => s.tx >= s.rx /\ s.ping >= s.rx
       /\ s.rx = KeepaliveTicks =>
            \/ s.tx >= KeepaliveTicks /\ s.ping >= KeepaliveTicks
            \/ s.tx = 0 /\ s.ping = 0
       /\ KeepaliveTicks < s.rx /\ s.rx < 2 * KeepaliveTicks =>
            s.tx = s.rx - KeepaliveTicks /\ s.ping = s.rx - KeepaliveTicks

Quiet(f) == (f + 1) * KeepaliveTicks

\* How long a source that has the session can have been silent after at most one
\* fault.  It may hear of the session by a late open, which is one fault; only
\* if its accept is lost as well it has not been heard of.
Answered(p, s, w, f) ==
  /\ f = 0 => \A m \in w : ~m.late
  /\ s.active /\ (\E m \in w : m.to = "peer" /\ m.type = "session_open" /\ ~m.late) => s.rx = 0
  /\ s.active /\ Met(p) /\ f = 0 => s.rx <= KeepaliveTicks
  /\ s.active /\ Met(p) /\ f <= 1 =>
       \/ Fresh(w)
       \/ s.rx < Quiet(f)
       \/ /\ s.rx = Quiet(f)
          /\ \/ PingDue(s) \/ TimedOut(s)
             \/ \E m \in w : m.to = "peer" /\ m.type = "session_ping" /\ ~m.late
  /\ s.active /\ p.stage = "playing" /\ f <= 1 => s.rx <= Quiet(f)
  /\ p.stage # "opening"

KeptInv ==
  \A e \in Endpoints :
    /\ Joining(e) => Noticed(peer[e], session[e], Mail(e), faults)
    /\ ~Joining(e) => /\ Pinged(session[e])
                      /\ Answered(peer[e], session[e], Mail(e), faults)

LEMMA Ages ==
  ASSUME TypeOK, NEW e \in Endpoints
  PROVE  /\ session[e] \in Session /\ session[e].rx \in Nat /\ session[e].tx \in Nat
         /\ session[e].ping \in Nat
         /\ KeepaliveTicks \in Nat /\ KeepaliveTicks >= 1 /\ TimeoutTicks \in Nat
         /\ KeepaliveTicks <= TimeoutTicks /\ Never = TimeoutTicks + 1
  BY TimeAssumption DEF TypeOK, Session, Age, Never

\* A joining peer.
LEMMA NoticedStep ==
  ASSUME TypeOK, NetworkTypeOK, [NetworkNext]_networkVars, NEW e \in Endpoints, Joining(e),
         CountsUp(peer[e], session[e], Mail(e)),
         Noticed(peer[e], session[e], Mail(e), faults)
  PROVE  Noticed(peer'[e], session'[e], Mail(e)', faults')
<1> DEFINE p == peer[e]
           q == peer'[e]
           s == session[e]
           t == session'[e]
           w == Mail(e)
           v == Mail(e)'
           f == faults
           g == faults'
<1> SUFFICES Noticed(q, t, v, g)
  OBVIOUS
<1>0. /\ Noticed(p, s, w, f) /\ CountsUp(p, s, w) /\ p.starts \in Nat
      /\ s.rx \in Nat /\ f \in Nat /\ TimeoutTicks \in Nat /\ p.sent \in BOOLEAN
      /\ \A m \in w : m \in Wire
  BY Numbers, Ages DEF NetworkTypeOK
<1>1. g = f \/ g = f + 1
  BY FaultsGrow
<1>2. ASSUME t.rx = 0, t.active => t.enabled /\ udp_source = Nobody
      PROVE  Noticed(q, t, v, g)
  BY <1>0, <1>1, <1>2 DEF Noticed
<1>3. CASE Still(e)
  <2>1. q = p /\ t = s /\ v = w
    BY <1>3 DEF Still
  <2> HIDE DEF w, v, p, q, s, t, f, g
  <2> QED BY <1>0, <1>1, <2>1 DEF Noticed
<1>4. CASE Broken(e)
  <2>1. q = p /\ t = s /\ g = f + 1
    BY <1>4 DEF Broken
  <2>2. PICK m \in w : v \subseteq (w \cup {[m EXCEPT !.late = TRUE]})
    BY <1>4 DEF Broken
  <2> DEFINE n == [m EXCEPT !.late = TRUE]
  <2>3. n.type = m.type /\ n.id = m.id /\ n.to = m.to
    BY <1>0, LateSame
  <2> HIDE DEF n
  <2>4. Welcome(q, v) => Welcome(p, w)
    BY <2>1, <2>2, <2>3 DEF Welcome, Accepts, n
  <2> HIDE DEF w, v, p, q, s, t, f, g
  <2> QED BY <1>0, <2>1, <2>4 DEF Noticed
<1>5. CASE PeerActs(e) /\ t = s
  <2>1. \/ q.stage = "opening" /\ q.id = p.starts + 1 /\ v = w
        \/ q.stage = "down"
        \/ \E d \in Wire : Sends(p, q, w, v, d)
    BY <1>5, ActsSlice
  <2>2. CASE q.stage = "opening" /\ q.id = p.starts + 1 /\ v = w
    <3>1. \A m \in v : ~(Accepts(m) /\ m.id = q.id)
      <4>1. \A m \in w : Accepts(m) => m.id \in Nat /\ m.id <= p.starts
        BY <1>0, Numbers DEF CountsUp, Accepts
      <4> QED BY <1>0, <2>2, <4>1
    <3>2. ~Welcome(q, v)
      BY <2>2, <3>1 DEF Welcome, Met
    <3> HIDE DEF w, v, p, q, s, t, f, g
    <3> QED BY <1>0, <1>5, <3>2 DEF Noticed
  <2>3. CASE q.stage = "down"
    <3>1. ~Welcome(q, v)
      BY <2>3 DEF Welcome, Met
    <3> HIDE DEF w, v, p, q, s, t, f, g
    <3> QED BY <1>0, <1>5, <3>1 DEF Noticed
  <2>4. ASSUME NEW d \in Wire, Sends(p, q, w, v, d)
        PROVE  Noticed(q, t, v, g)
    <3> HIDE DEF w, v, p, q, s, t, f, g
    <3>1. Fresh(v)
      BY <2>4 DEF Sends, Fresh
    <3>2. Welcome(q, v) => Welcome(p, w)
      BY <2>4 DEF Sends, Welcome, Met, Accepts
    <3> QED BY <1>0, <1>1, <1>5, <3>1, <3>2 DEF Noticed
  <2> QED BY <2>1, <2>2, <2>3, <2>4
<1>6. ASSUME NEW m \in w, PeerReceives(m)
      PROVE  Noticed(q, t, v, g)
  <2>1. /\ m.to = "peer" /\ v = w \ {m} /\ t = s
        /\ \/ q = p
           \/ /\ Accepts(m) /\ p.stage = "opening" /\ p.id = m.id
              /\ q.stage = "accepted" /\ q.sent = p.sent
    BY <1>6, HearsSlice
  <2> HIDE DEF w, v, p, q, s, t, f, g
  <2>2. Welcome(q, v) => Welcome(p, w)
    BY <2>1 DEF Welcome, Met
  <2>3. Fresh(v) <=> Fresh(w)
    BY <2>1 DEF Fresh
  <2> QED BY <1>0, <1>1, <2>1, <2>2, <2>3 DEF Noticed
<1>7. ASSUME NEW m \in w, BridgeReceives(m)
      PROVE  Noticed(q, t, v, g)
  <2>1. /\ q = p
        /\ \/ Opened(m, t, w, v)
           \/ t = NoSession
           \/ Kept(m, s, t, w, v)
    BY <1>7, BridgeSlice
  <2> HIDE DEF w, v, p, q, s, t, f, g
  <2>2. CASE Opened(m, t, w, v)
    BY <1>2, <2>2 DEF Opened
  <2>3. CASE t = NoSession
    BY <2>3 DEF Noticed, NoSession
  <2>4. CASE Kept(m, s, t, w, v)
    <3>1. t.active => t.rx = 0 /\ t.enabled /\ udp_source = Nobody
      BY <1>0, <2>4 DEF Kept, Noticed
    <3> QED BY <1>2, <3>1 DEF Noticed
  <2> QED BY <2>1, <2>2, <2>3, <2>4
<1>8. CASE BridgeServices
  <2>1. /\ q = p
        /\ SameSession(s, t) \/ t = NoSession
        /\ \A m \in v :
             m \in w \/ (m.to = "peer" /\ m.type \in {"session_open", "session_ping"})
        /\ w \subseteq v
    BY <1>8, ServiceSlice
  <2> HIDE DEF w, v, p, q, s, t, f, g
  <2>2. (Welcome(q, v) => Welcome(p, w)) /\ (Fresh(v) <=> Fresh(w))
    BY <2>1 DEF Welcome, Accepts, Fresh
  <2>3. CASE SameSession(s, t)
    <3>1. /\ t.active = s.active /\ t.enabled = s.enabled /\ t.rx = s.rx
      BY <2>3 DEF SameSession, SameButAge
    <3> QED BY <1>0, <1>1, <2>1, <2>2, <3>1 DEF Noticed
  <2>4. CASE t = NoSession
    BY <2>4 DEF Noticed, NoSession
  <2> QED BY <2>1, <2>3, <2>4
<1>9. CASE NetworkTick
  <2>1. /\ SameButAge(s, t) /\ t.rx = Older(s.rx)
        /\ q.stage = p.stage /\ q.id = p.id /\ q.sent = FALSE /\ v = w
        /\ \A m \in w : m.late
    BY <1>9, TickSlice
  <2>2. p.stage \in {"opening", "playing"} => p.sent
    BY <1>9, TickSlice DEF PeerIsDue
  <2>3. p.stage \notin {"accepted", "removed"}
    BY <1>9, TickSlice DEF PeerIsDue
  <2> HIDE DEF w, v, p, q, s, t, f, g
  <2>4. (Welcome(q, v) => Welcome(p, w) /\ p.sent) /\ ~Fresh(w)
    BY <2>1, <2>2, <2>3 DEF Welcome, Met, Fresh
  <2>5. t.rx <= s.rx + 1 /\ t.rx \in Nat
    BY <1>0, <2>1 DEF Older
  <2>6. t.active = s.active /\ t.enabled = s.enabled
    BY <2>1 DEF SameButAge
  <2> QED BY <1>0, <1>1, <2>1, <2>4, <2>5, <2>6 DEF Noticed
<1> QED BY <1>3, <1>4, <1>5, <1>6, <1>7, <1>8, <1>9, Slices DEF Slice

\* The configured source: what becomes of its part of the state.
LEMMA SentFlags ==
  ASSUME TypeOK, NEW e \in Endpoints, NEW id \in NetworkIds \cup {0}
  PROVE  /\ Heard(e).open_sent = session[e].open_sent
         /\ Mapping(e, id).open_sent = session[e].open_sent
<1>1. session[e] \in Session /\ Heard(e) \in Session
  BY HeardSlice DEF TypeOK
<1> QED BY <1>1 DEF Heard, Mapping, Session

LEMMA OpenFlags ==
  ASSUME TypeOK, NEW e \in Endpoints, NEW id \in SessionIds, NEW sent \in BOOLEAN,
         SessionOpen(e, id, sent), session[e].active => session[e].open_sent
  PROVE  session'[e].active => session'[e].open_sent
<1> DEFINE s == session[e]
           kept == IF Changing(e, id) THEN WithoutDevices(s) ELSE s
           opened == [kept EXCEPT !.enabled = TRUE, !.session_id = id, !.rx = 0]
           new == IF sent
                  THEN [opened EXCEPT !.active = TRUE, !.open_sent = TRUE, !.tx = 0]
                  ELSE opened
<1>1. session \in [Endpoints -> Session] /\ s \in Session
  BY DEF TypeOK
<1>2. kept \in Session /\ kept.active = s.active /\ kept.open_sent = s.open_sent
  <2>1. /\ WithoutDevices(s) \in Session /\ WithoutDevices(s).active = s.active
        /\ WithoutDevices(s).open_sent = s.open_sent
    BY <1>1, SessionLemma DEF WithoutDevices, Session
  <2> QED BY <1>1, <2>1
<1>3. session'[e] = new
  BY <1>1 DEF SessionOpen
<1> HIDE DEF kept
<1>4. /\ opened \in Session /\ opened.active = kept.active
      /\ opened.open_sent = kept.open_sent
  BY <1>2, AgeLemma DEF Session
<1> HIDE DEF opened
<1>5. \/ new.open_sent
      \/ new.active = opened.active /\ new.open_sent = opened.open_sent
  BY <1>4 DEF Session
<1> HIDE DEF new
<1> QED BY <1>2, <1>3, <1>4, <1>5

\* Whatever it sends, the bridge has heard of it.
LEMMA SourceIsHeard ==
  ASSUME TypeOK, NetworkTypeOK, NEW e \in Endpoints, ~Joining(e), NEW m \in Mail(e),
         BridgeReceives(m), session[e].enabled, session[e].active => session[e].open_sent
  PROVE  /\ peer'[e] = peer[e] /\ session'[e].enabled /\ session'[e].rx = 0
         /\ session'[e].active => session'[e].open_sent
         /\ \A k \in Mail(e)' : k \in Mail(e) \/ ~k.late
<1> DEFINE s == session[e]
           t == session'[e]
<1>0. /\ m \in Wire /\ m \in wire /\ m.end = e /\ e = udp_source /\ DeviceId \in SourceIds
      /\ session \in [Endpoints -> Session] /\ s \in Session
      /\ peer'[e] = peer[e]
  BY PeerAssumption DEF TypeOK, NetworkTypeOK, Mail, Joining, BridgeReceives
<1>1. \A k \in Mail(e)' : k \in Mail(e) \/ ~k.late
  <2>1. \/ wire' = wire \ {m}
        \/ wire' = (wire \ {m}) \cup {Datagram("peer", e, "session_accept", m.id)}
    BY <1>0 DEF BridgeReceives, Received, Ignored
  <2>2. ~Datagram("peer", e, "session_accept", m.id).late
    BY DEF Datagram
  <2> QED BY <2>1, <2>2 DEF Mail
<1> SUFFICES t.enabled /\ t.rx = 0 /\ (t.active => t.open_sent)
  BY <1>0, <1>1
<1>2. /\ Heard(e).enabled /\ Heard(e).rx = 0
      /\ Heard(e).active => Heard(e).open_sent
  BY HeardSlice, SentFlags
<1>3. \A id \in NetworkIds \cup {0} :
        /\ Mapping(e, id).enabled /\ Mapping(e, id).rx = 0
        /\ Mapping(e, id).active => Mapping(e, id).open_sent
  BY MappedSlice, SentFlags
<1>4. CASE Ignored(m)
  <2>1. t = Heard(e)
    BY <1>0, <1>4 DEF Ignored, DatagramNoted, Heeded
  <2> QED BY <1>2, <2>1
<1>5. CASE Received(m)
  <2>1. ASSUME NEW sent \in BOOLEAN, m.type = "session_open", SessionOpen(e, m.id, sent)
        PROVE  t.enabled /\ t.rx = 0 /\ (t.active => t.open_sent)
    <3>1. m.id \in SessionIds
      BY <1>0, <2>1 DEF NetworkTypeOK, Wire
    <3> QED BY <2>1, <3>1, OpenSlice, OpenFlags
  <2>2. ASSUME NEW added \in BOOLEAN, DeviceAdd(e, DeviceId, added)
        PROVE  t.enabled /\ t.rx = 0 /\ (t.active => t.open_sent)
    <3> DEFINE id == IF s.devices[DeviceId] # 0
                     THEN s.devices[DeviceId] ELSE next_network_device_id
    <3>1. id \in NetworkIds
      BY <2>2 DEF DeviceAdd
    <3>2. t = Mapping(e, id) \/ t = Heard(e)
      BY <1>0, <2>2 DEF DeviceAdd, Mapping
    <3> HIDE DEF id
    <3> QED BY <1>2, <1>3, <3>1, <3>2
  <2>3. CASE SessionAccept(e, m.id)
    <3>1. t = [Heard(e) EXCEPT !.active = TRUE, !.open_sent = TRUE]
      BY <1>0, <2>3 DEF SessionAccept
    <3>2. Heard(e) \in Session
      BY HeardSlice
    <3> QED BY <1>2, <3>1, <3>2 DEF Session
  <2>4. CASE SessionClose(e)
    <3>1. t = [Ended(e) EXCEPT !.rx = 0]
      BY <1>0, <2>4 DEF SessionClose
    <3>2. Ended(e) = [WithoutDevices(s) EXCEPT !.active = FALSE, !.open_sent = FALSE]
      BY <1>0 DEF Ended
    <3>3. WithoutDevices(s) \in Session /\ WithoutDevices(s).enabled = s.enabled
      BY <1>0, SessionLemma DEF WithoutDevices, Session
    <3>4. Ended(e) \in Session /\ Ended(e).enabled = s.enabled /\ ~Ended(e).active
      BY <3>2, <3>3 DEF Session
    <3> QED BY <3>1, <3>4, AgeLemma DEF Session
  <2>5. CASE DeviceRemove(e, DeviceId)
    <3>1. t = Mapping(e, 0)
      BY <1>0, <2>5 DEF DeviceRemove, Mapping
    <3> QED BY <1>3, <3>1
  <2>6. CASE DeviceReport(e, DeviceId, m.sequence, TRUE)
    <3>1. t = Heard(e)
      BY <1>0, <2>6 DEF DeviceReport
    <3> QED BY <1>2, <3>1
  <2> QED BY <1>0, <1>5, <2>1, <2>2, <2>3, <2>4, <2>5, <2>6 DEF Received
<1> QED BY <1>4, <1>5 DEF BridgeReceives

\* What a source does of itself, and what it makes of a datagram: an open or a
\* ping it answers at once.
LEMMA SourceActs ==
  ASSUME NetworkTypeOK, NEW e \in Endpoints, ~Joining(e), peer[e].stage # "opening",
         PeerActs(e)
  PROVE  LET p == peer[e]
             q == peer'[e]
             w == Mail(e)
             v == Mail(e)'
         IN  /\ w \subseteq v /\ \A k \in v : k \in w \/ (k.to = "bridge" /\ ~k.late)
             /\ q.stage # "opening"
             /\ Met(q) => Met(p)
             /\ q.stage = "playing" => p.stage = "playing" \/ ~Fresh(w)
<1> DEFINE p == peer[e]
           q == peer'[e]
           w == Mail(e)
           v == Mail(e)'
           quiet == /\ w \subseteq v /\ \A k \in v : k \in w \/ (k.to = "bridge" /\ ~k.late)
<1>0. /\ PeersGood(peer) /\ p \in Peer /\ peer \in [Endpoints -> Peer]
      /\ p.sequence \in Sequences
  BY TypeParts DEF PeersGood, Peer
<1>1. CASE PeerStarts(e)
  <2>1. q = [Down(p.starts + 1) EXCEPT !.stage = "waiting"] /\ v = w
    BY <1>0, <1>1 DEF PeerStarts, Mail
  <2> QED BY <2>1 DEF Down, Met
<1>2. CASE PeerVanishes(e)
  <2>1. q = Down(p.starts) /\ v = w
    BY <1>0, <1>2 DEF PeerVanishes, Mail
  <2> QED BY <2>1 DEF Down, Met
<1>3. CASE PeerCloses(e)
  <2> DEFINE d == Datagram("bridge", e, "session_close", 0)
  <2>1. d.end = e /\ ~d.late /\ d.to = "bridge"
    BY SentByPeer
  <2>2. q = Down(p.starts) /\ wire' = wire \cup {d}
    BY <1>0, <1>3 DEF PeerCloses
  <2>3. v = w \cup {d}
    BY <2>1, <2>2 DEF Mail
  <2> QED BY <2>1, <2>2, <2>3 DEF Down, Met
<1>4. ASSUME NEW d \in Wire, d.end = e, d.to = "bridge", ~d.late, NEW changed \in Peer,
             PeerSends(e, d, changed)
      PROVE  quiet /\ q.stage = changed.stage /\ ~Fresh(w)
  <2>1. /\ v = w \cup {d} /\ \A m \in Posted(w) : m.late
        /\ q.stage = changed.stage
    BY <1>0, <1>4, SendsSlice
  <2> QED BY <1>4, <2>1 DEF Fresh, Posted
<1>5. CASE PeerAdds(e)
  <2> DEFINE d == Datagram("bridge", e, "hid_device_add", 0)
             changed == [p EXCEPT !.stage = "playing"]
  <2>1. d \in Wire /\ d.to = "bridge" /\ d.end = e /\ ~d.late
    BY SentByPeer
  <2>2. changed \in Peer /\ changed.stage = "playing"
    BY <1>0 DEF Peer
  <2>3. PeerSends(e, d, changed) /\ p.stage = "accepted"
    BY <1>5 DEF PeerAdds
  <2> HIDE DEF d, changed
  <2> QED BY <1>4, <2>1, <2>2, <2>3 DEF Met
<1>6. CASE PeerReports(e)
  <2> DEFINE d == [Datagram("bridge", e, "hid_input_report", 0)
                     EXCEPT !.sequence = p.sequence]
             changed == [p EXCEPT !.reports = @ + 1]
  <2>1. d \in Wire /\ d.to = "bridge" /\ d.end = e /\ ~d.late
    BY <1>0, ReportByPeer
  <2>2. p.stage = "playing" /\ p.reports \in Nat
    BY <1>0, <1>6 DEF PeerReports, Peer
  <2>3. changed \in Peer /\ changed.stage = "playing"
    BY <1>0, <2>2 DEF Peer
  <2>4. PeerSends(e, d, changed)
    BY <1>6 DEF PeerReports
  <2> HIDE DEF d, changed
  <2> QED BY <1>4, <2>1, <2>2, <2>3, <2>4 DEF Met
<1>7. CASE PeerRemoves(e)
  <2> DEFINE d == Datagram("bridge", e, "hid_device_remove", 0)
             changed == [p EXCEPT !.stage = "removed"]
  <2>1. d \in Wire /\ d.to = "bridge" /\ d.end = e /\ ~d.late
    BY SentByPeer
  <2>2. changed \in Peer /\ changed.stage = "removed"
    BY <1>0 DEF Peer
  <2>3. PeerSends(e, d, changed) /\ p.stage = "playing"
    BY <1>7 DEF PeerRemoves
  <2> HIDE DEF d, changed
  <2> QED BY <1>4, <2>1, <2>2, <2>3 DEF Met
<1> QED BY <1>1, <1>2, <1>3, <1>5, <1>6, <1>7 DEF PeerActs, PeerOpens, PeerGivesUp

LEMMA SourceHears ==
  ASSUME NetworkTypeOK, NEW e \in Endpoints, ~Joining(e), peer[e].stage # "opening",
         NEW m \in Mail(e), PeerReceives(m)
  PROVE  LET p == peer[e]
             q == peer'[e]
             w == Mail(e)
             v == Mail(e)'
         IN  /\ m.to = "peer" /\ session'[e] = session[e] /\ faults' = faults
             /\ \A k \in v : k \in w \/ (k.to = "bridge" /\ ~k.late)
             /\ \A k \in w : k \in v \/ k = m
             /\ \/ m.type = "session_open" /\ q.stage = "accepted" /\ Fresh(v)
                \/ q = p /\ (Met(p) /\ m.type = "session_ping" => Fresh(v))
<1> DEFINE p == peer[e]
           q == peer'[e]
           w == Mail(e)
           v == Mail(e)'
<1>0. /\ peer \in [Endpoints -> Peer] /\ m.end = e /\ m.to = "peer" /\ p \in Peer
      /\ m \in Wire
  BY DEF NetworkTypeOK, PeerReceives, Mail
<1>1. q = Hears(m) /\ session'[e] = session[e] /\ faults' = faults
  BY <1>0 DEF PeerReceives, vars
<1>2. \A k \in Answers(m) : k.end = e /\ k.to = "bridge" /\ ~k.late
  BY <1>0 DEF Answers, Datagram
<1>3. v = (w \ {m}) \cup Answers(m)
  BY <1>0, <1>2 DEF PeerReceives, Mail
<1>4. CASE m.type = "session_open" /\ p.stage # "down"
  <2>1. Hears(m) = [p EXCEPT !.stage = "accepted"]
    BY <1>0, <1>4 DEF Hears
  <2>2. Answers(m) = {Datagram("bridge", e, "session_accept", m.id)}
    BY <1>0, <1>4 DEF Answers
  <2>3. Fresh(v)
    BY <1>2, <1>3, <2>2 DEF Fresh
  <2> QED BY <1>0, <1>1, <1>2, <1>3, <1>4, <2>1, <2>3 DEF Peer
<1>5. CASE ~(m.type = "session_open" /\ p.stage # "down")
  <2>1. Hears(m) = p
    BY <1>0, <1>5 DEF Hears
  <2>2. ASSUME Met(p), m.type = "session_ping" PROVE Fresh(v)
    <3>1. Answers(m) = {Datagram("bridge", e, "session_pong", 0)}
      BY <1>0, <2>2 DEF Answers, Met
    <3> QED BY <1>2, <1>3, <3>1 DEF Fresh
  <2> QED BY <1>0, <1>1, <1>2, <1>3, <2>1, <2>2
<1> QED BY <1>4, <1>5

LEMMA SourceService ==
  ASSUME TypeOK, NetworkTypeOK, NEW e \in Endpoints, ~Joining(e), Pinged(session[e]),
         BridgeServices
  PROVE  LET s == session[e]
             t == session'[e]
             w == Mail(e)
             v == Mail(e)'
         IN  /\ peer'[e] = peer[e] /\ faults' = faults /\ t.enabled
             /\ w \subseteq v
             /\ \A k \in v : k \in w \/
                  (k.to = "peer" /\ ~k.late /\ (k.type = "session_open" => ~s.active))
             /\ t.active =>
                  /\ s.active /\ t.open_sent /\ t.rx = s.rx /\ ~TimedOut(s)
                  /\ \/ ~PingDue(s) /\ t = s
                     \/ /\ PingDue(s) /\ t.tx = 0 /\ t.ping = 0
                        /\ \E k \in v : k.to = "peer" /\ k.type = "session_ping" /\ ~k.late
<1> DEFINE s == session[e]
           t == session'[e]
           w == Mail(e)
           v == Mail(e)'
<1>0. s \in Session /\ e = udp_source /\ t = Serviced(e) /\ s.enabled
      /\ peer'[e] = peer[e] /\ faults' = faults
      /\ (s.active => s.open_sent)
  BY DEF TypeOK, Joining, BridgeServices, Service, Pinged
<1>1. w \subseteq v
  BY DEF Mail, BridgeServices
<1>2. \A k \in v : k \in w \/
        (k.to = "peer" /\ ~k.late /\ (k.type = "session_open" => ~s.active))
  <2>1. OpenDue(s) => ~s.active
    BY <1>0 DEF OpenDue
  <2>2. \A k \in v : \/ k \in w
                     \/ OpenDue(s) /\ k = Datagram("peer", e, "session_open", s.session_id)
                     \/ k = Datagram("peer", e, "session_ping", 0)
    <3>1. \A x \in Endpoints :
            /\ Datagram("peer", x, "session_open", session[x].session_id).end = x
            /\ Datagram("peer", x, "session_ping", 0).end = x
      BY DEF Datagram
    <3> QED BY <3>1 DEF Mail, BridgeServices
  <2> QED BY <2>1, <2>2 DEF Datagram
<1>3. ASSUME PingDue(s)
      PROVE  \E k \in v : k.to = "peer" /\ k.type = "session_ping" /\ ~k.late
  <2> DEFINE d == Datagram("peer", e, "session_ping", 0)
  <2>1. d.end = e /\ d.to = "peer" /\ d.type = "session_ping" /\ ~d.late
    BY DEF Datagram
  <2>2. d \in wire'
    BY <1>3 DEF BridgeServices
  <2> HIDE DEF d
  <2> QED BY <2>1, <2>2 DEF Mail
<1>4. CASE OpenDue(s)
  <2>0. ~TimedOut(s) /\ ~PingDue(s)
    BY <1>4 DEF OpenDue, TimedOut, PingDue
  <2>1. t = SessionOpenSent(s)
    BY <1>0, <1>4, <2>0 DEF Serviced
  <2>2. t.enabled /\ ~t.active
    BY <1>0, <1>4, <2>1 DEF SessionOpenSent, Session, OpenDue
  <2> QED BY <1>0, <1>1, <1>2, <2>2
<1>5. CASE ~OpenDue(s) /\ TimedOut(s)
  <2>1. ~PingDue(s)
    BY <1>5 DEF PingDue
  <2>2. t = [WithoutDevices(s) EXCEPT !.active = FALSE, !.open_sent = FALSE]
    BY <1>0, <1>5, <2>1 DEF Serviced, Ended
  <2>3. WithoutDevices(s) \in Session /\ WithoutDevices(s).enabled = s.enabled
    BY <1>0, SessionLemma DEF WithoutDevices, Session
  <2>4. t.enabled /\ ~t.active
    BY <1>0, <2>2, <2>3 DEF Session
  <2> QED BY <1>0, <1>1, <1>2, <2>4
<1>6. CASE ~OpenDue(s) /\ ~TimedOut(s) /\ PingDue(s)
  <2>1. t = [s EXCEPT !.ping = 0, !.tx = 0]
    BY <1>0, <1>6 DEF Serviced
  <2>2. /\ t.enabled = s.enabled /\ t.active = s.active /\ t.open_sent = s.open_sent
        /\ t.rx = s.rx /\ t.tx = 0 /\ t.ping = 0
    BY <1>0, <2>1 DEF Session
  <2> QED BY <1>0, <1>1, <1>2, <1>3, <1>6, <2>2
<1>7. CASE ~OpenDue(s) /\ ~TimedOut(s) /\ ~PingDue(s)
  <2>1. t = s
    BY <1>0, <1>7 DEF Serviced
  <2> QED BY <1>0, <1>1, <1>2, <1>7, <2>1
<1> QED BY <1>4, <1>5, <1>6, <1>7

LEMMA SourceTick ==
  ASSUME TypeOK, NetworkTypeOK, NEW e \in Endpoints, NetworkTick
  PROVE  LET s == session[e]
             t == session'[e]
         IN  /\ t.enabled = s.enabled /\ t.active = s.active /\ t.open_sent = s.open_sent
             /\ t.rx = Older(s.rx) /\ t.tx = Older(s.tx) /\ t.ping = Older(s.ping)
             /\ ~TimedOut(s) /\ ~PingDue(s)
<1>1. session[e] \in Session
  BY DEF TypeOK
<1>2. session'[e] = [session[e] EXCEPT !.rx = Older(@), !.tx = Older(@),
                       !.ping = Older(@), !.open = Older(@)]
  BY DEF NetworkTick, Tick
<1>3. ~TimedOut(session[e]) /\ ~PingDue(session[e])
  BY DEF NetworkTick, ServiceIsDue
<1> QED BY <1>1, <1>2, <1>3 DEF Session

\* By the end of each of the first two keepalive intervals the bridge pings.
LEMMA PingsInTime ==
  ASSUME NEW s \in Session, s.enabled, s.active, s.open_sent, ~TimedOut(s),
         s.rx \in Nat, s.rx <= TimeoutTicks,
         s.rx >= KeepaliveTicks, s.tx >= KeepaliveTicks, s.ping >= KeepaliveTicks
  PROVE  PingDue(s)
<1>1. /\ KeepaliveTicks \in Nat /\ TimeoutTicks \in Nat /\ Never = TimeoutTicks + 1
      /\ s.tx \in Nat
  BY TimeAssumption DEF Never, Session, Age
<1> QED BY <1>1 DEF PingDue

LEMMA PingedTick ==
  ASSUME NEW s \in Session, NEW t \in Session, Pinged(s),
         t.enabled = s.enabled, t.active = s.active, t.open_sent = s.open_sent,
         t.rx = Older(s.rx), t.tx = Older(s.tx), t.ping = Older(s.ping),
         ~TimedOut(s), ~PingDue(s)
  PROVE  /\ Pinged(t)
         /\ t.active =>
              /\ t.rx = s.rx + 1
              /\ t.rx = KeepaliveTicks \/ t.rx = 2 * KeepaliveTicks
                   => PingDue(t) \/ TimedOut(t)
<1>0. /\ s.rx \in Nat /\ s.tx \in Nat /\ s.ping \in Nat
      /\ t.rx \in Nat /\ t.tx \in Nat /\ t.ping \in Nat
      /\ KeepaliveTicks \in Nat /\ KeepaliveTicks >= 1 /\ TimeoutTicks \in Nat
      /\ KeepaliveTicks <= TimeoutTicks /\ Never = TimeoutTicks + 1
  BY TimeAssumption DEF Session, Age, Never
<1>1. CASE ~s.active
  BY <1>1 DEF Pinged
<1>2. CASE s.active
  <2>1. /\ s.enabled /\ s.open_sent /\ s.rx <= TimeoutTicks
        /\ t.enabled /\ t.active /\ t.open_sent
    BY <1>2 DEF Pinged
  <2>2. s.rx < TimeoutTicks
    BY <1>0, <1>2, <2>1 DEF TimedOut
  <2>3. t.rx = s.rx + 1 /\ t.rx <= TimeoutTicks
    BY <1>0, <2>2 DEF Older
  <2>4. /\ s.tx < TimeoutTicks => t.tx = s.tx + 1
        /\ s.tx >= TimeoutTicks => t.tx = s.tx
        /\ s.ping < TimeoutTicks => t.ping = s.ping + 1
        /\ s.ping >= TimeoutTicks => t.ping = s.ping
    BY <1>0 DEF Older
  <2>5. s.rx = KeepaliveTicks => s.tx = 0 /\ s.ping = 0
    BY <1>0, <1>2, <2>1, PingsInTime DEF Pinged
  <2>6. s.rx < KeepaliveTicks => t.tx >= t.rx /\ t.ping >= t.rx
    BY <1>0, <1>2, <2>2, <2>3, <2>4 DEF Pinged
  <2>7. KeepaliveTicks <= s.rx /\ s.rx < 2 * KeepaliveTicks =>
          t.tx = t.rx - KeepaliveTicks /\ t.ping = t.rx - KeepaliveTicks
    <3>1. ASSUME KeepaliveTicks <= s.rx, s.rx < 2 * KeepaliveTicks
          PROVE  s.tx = s.rx - KeepaliveTicks /\ s.ping = s.rx - KeepaliveTicks
      BY <1>0, <1>2, <2>5, <3>1 DEF Pinged
    <3> QED BY <1>0, <2>2, <2>3, <2>4, <3>1
  <2>8. Pinged(t)
    BY <1>0, <2>1, <2>3, <2>6, <2>7 DEF Pinged
  <2>9. t.rx = KeepaliveTicks \/ t.rx = 2 * KeepaliveTicks
          => t.rx >= KeepaliveTicks /\ t.tx >= KeepaliveTicks /\ t.ping >= KeepaliveTicks
    BY <1>0, <2>3, <2>6, <2>7
  <2> QED BY <1>0, <2>1, <2>3, <2>8, <2>9, PingsInTime
<1> QED BY <1>1, <1>2

LEMMA PingedServed ==
  ASSUME NEW s \in Session, NEW t \in Session, Pinged(s), t.enabled,
         t.active =>
           /\ s.active /\ t.open_sent /\ t.rx = s.rx
           /\ \/ t = s
              \/ PingDue(s) /\ t.tx = 0 /\ t.ping = 0
  PROVE  Pinged(t)
<1>0. /\ s.rx \in Nat /\ s.tx \in Nat /\ s.ping \in Nat
      /\ KeepaliveTicks \in Nat /\ KeepaliveTicks >= 1 /\ TimeoutTicks \in Nat
      /\ KeepaliveTicks <= TimeoutTicks /\ Never = TimeoutTicks + 1
  BY TimeAssumption DEF Session, Age, Never
<1>1. CASE ~t.active
  BY <1>1 DEF Pinged
<1>2. CASE t.active /\ t = s
  BY <1>2
<1>3. CASE t.active /\ PingDue(s) /\ t.tx = 0 /\ t.ping = 0
  <2>1. s.rx >= KeepaliveTicks /\ s.tx >= KeepaliveTicks
    BY <1>0, <1>3 DEF PingDue
  <2>2. ~(KeepaliveTicks < s.rx /\ s.rx < 2 * KeepaliveTicks)
    BY <1>0, <1>3, <2>1 DEF Pinged
  <2> QED BY <1>0, <1>3, <2>1, <2>2 DEF Pinged
<1> QED BY <1>1, <1>2, <1>3

LEMMA PingedHeard ==
  ASSUME NEW t \in Session, t.enabled, t.rx = 0, t.active => t.open_sent
  PROVE  Pinged(t)
<1>1. /\ t.tx \in Nat /\ t.ping \in Nat
      /\ KeepaliveTicks \in Nat /\ KeepaliveTicks >= 1 /\ TimeoutTicks \in Nat
  BY TimeAssumption DEF Session, Age, Never
<1> QED BY <1>1 DEF Pinged

LEMMA QuietLemma ==
  /\ KeepaliveTicks \in Nat /\ KeepaliveTicks >= 1
  /\ Quiet(0) = KeepaliveTicks /\ Quiet(1) = 2 * KeepaliveTicks
BY TimeAssumption DEF Quiet

\* A fault more, or none, and nothing else but a late copy.
LEMMA AnsweredFault ==
  ASSUME NEW p, NEW s, NEW w, NEW v, NEW f \in Nat, NEW g,
         s.rx \in Nat, Answered(p, s, w, f),
         (g = f /\ v = w) \/ (g = f + 1 /\ \A k \in v : k \in w \/ k.late)
  PROVE  Answered(p, s, v, g)
<1>1. CASE g = f /\ v = w
  BY <1>1
<1>2. CASE g = f + 1 /\ \A k \in v : k \in w \/ k.late
  <2>1. g # 0 /\ g \in Nat /\ (g <= 1 => g = 1 /\ f = 0)
    BY <1>2
  <2>2. s.active /\ (\E m \in v : m.to = "peer" /\ m.type = "session_open" /\ ~m.late)
          => s.rx = 0
    BY <1>2 DEF Answered
  <2>3. s.active /\ Met(p) /\ g <= 1 => s.rx < Quiet(g)
    BY <2>1, QuietLemma DEF Answered
  <2>4. p.stage = "playing" => Met(p)
    BY DEF Met
  <2>5. Quiet(1) \in Nat
    BY QuietLemma
  <2>6. p.stage # "opening"
    BY DEF Answered
  <2> HIDE DEF Quiet
  <2> QED BY <2>1, <2>2, <2>3, <2>4, <2>5, <2>6 DEF Answered
<1> QED BY <1>1, <1>2

\* The bridge has just heard of the source.
LEMMA AnsweredHeard ==
  ASSUME NEW p, NEW s, NEW w, NEW v, NEW t, NEW f \in Nat, NEW g,
         g = f \/ g = f + 1, Answered(p, s, w, f), t.rx = 0,
         \A k \in v : k \in w \/ ~k.late
  PROVE  Answered(p, t, v, g)
<1>1. g \in Nat /\ (g = 0 => f = 0) /\ (g <= 1 => g = 0 \/ g = 1)
  OBVIOUS
<1>2. g <= 1 => 0 < Quiet(g) /\ 0 <= Quiet(g) /\ 0 <= KeepaliveTicks
  BY <1>1, QuietLemma
<1> HIDE DEF Quiet
<1>3. g = 0 => \A m \in v : ~m.late
  BY <1>1 DEF Answered
<1>4. p.stage # "opening" /\ 0 <= KeepaliveTicks
  BY QuietLemma DEF Answered
<1> QED BY <1>2, <1>3, <1>4 DEF Answered

\* The source has done something of itself.
LEMMA AnsweredActs ==
  ASSUME NEW p, NEW q, NEW s, NEW w, NEW v, NEW f \in Nat, s.rx \in Nat,
         Answered(p, s, w, f), w \subseteq v,
         \A k \in v : k \in w \/ (k.to = "bridge" /\ ~k.late),
         q.stage # "opening", Met(q) => Met(p),
         q.stage = "playing" => p.stage = "playing" \/ ~Fresh(w)
  PROVE  Answered(q, s, v, f)
<1>1. (f = 0 => \A m \in v : ~m.late)
  BY DEF Answered
<1>2. s.active /\ (\E m \in v : m.to = "peer" /\ m.type = "session_open" /\ ~m.late)
        => s.rx = 0
  BY DEF Answered
<1>3. Fresh(w) => Fresh(v)
  BY DEF Fresh
<1>4. f <= 1 => Quiet(f) \in Nat
  BY QuietLemma DEF Quiet
<1> HIDE DEF Quiet
<1>5. s.active /\ q.stage = "playing" /\ f <= 1 => s.rx <= Quiet(f)
  <2>1. CASE p.stage = "playing"
    BY <2>1 DEF Answered
  <2>2. CASE ~Fresh(w)
    BY <1>4, <2>2 DEF Answered, Met
  <2> QED BY <2>1, <2>2
<1>6. s.active /\ Met(q) /\ f <= 1 =>
       \/ Fresh(v)
       \/ s.rx < Quiet(f)
       \/ /\ s.rx = Quiet(f)
          /\ \/ PingDue(s) \/ TimedOut(s)
             \/ \E m \in v : m.to = "peer" /\ m.type = "session_ping" /\ ~m.late
  BY <1>3 DEF Answered
<1>7. s.active /\ Met(q) /\ f = 0 => s.rx <= KeepaliveTicks
  BY DEF Answered
<1> QED BY <1>1, <1>2, <1>5, <1>6, <1>7 DEF Answered

\* It has heard something.
LEMMA AnsweredHears ==
  ASSUME NEW p, NEW q, NEW s, NEW w, NEW v, NEW f \in Nat, s.rx \in Nat,
         NEW m \in w, m.to = "peer", Answered(p, s, w, f),
         \A k \in v : k \in w \/ (k.to = "bridge" /\ ~k.late),
         \A k \in w : k \in v \/ k = m,
         \/ m.type = "session_open" /\ q.stage = "accepted" /\ Fresh(v)
         \/ q = p /\ (Met(p) /\ m.type = "session_ping" => Fresh(v))
  PROVE  Answered(q, s, v, f)
<1>1. (f = 0 => \A k \in v : ~k.late) /\ q.stage # "opening"
  BY DEF Answered
<1>2. s.active /\ (\E k \in v : k.to = "peer" /\ k.type = "session_open" /\ ~k.late)
        => s.rx = 0
  BY DEF Answered
<1>3. Fresh(w) => Fresh(v)
  BY DEF Fresh
<1>4. CASE m.type = "session_open" /\ q.stage = "accepted" /\ Fresh(v)
  <2>1. f = 0 /\ s.active => s.rx <= KeepaliveTicks
    <3>1. f = 0 /\ s.active => s.rx = 0
      BY <1>4 DEF Answered
    <3> QED BY <3>1, QuietLemma
  <2> QED BY <1>1, <1>2, <1>4, <2>1 DEF Answered
<1>5. CASE q = p /\ (Met(p) /\ m.type = "session_ping" => Fresh(v))
  <2>1. s.active /\ Met(q) /\ f <= 1 =>
       \/ Fresh(v)
       \/ s.rx < Quiet(f)
       \/ /\ s.rx = Quiet(f)
          /\ \/ PingDue(s) \/ TimedOut(s)
             \/ \E k \in v : k.to = "peer" /\ k.type = "session_ping" /\ ~k.late
    <3> HIDE DEF Quiet
    <3> QED BY <1>3, <1>5 DEF Answered
  <2>2. /\ s.active /\ Met(q) /\ f = 0 => s.rx <= KeepaliveTicks
        /\ s.active /\ q.stage = "playing" /\ f <= 1 => s.rx <= Quiet(f)
    BY <1>5 DEF Answered
  <2> HIDE DEF Quiet
  <2> QED BY <1>1, <1>2, <2>1, <2>2 DEF Answered
<1> QED BY <1>4, <1>5

\* The bridge has had a look at its timers.
LEMMA AnsweredServed ==
  ASSUME NEW p, NEW s, NEW t, NEW w, NEW v, NEW f \in Nat, s.rx \in Nat,
         Answered(p, s, w, f), w \subseteq v,
         \A k \in v : k \in w \/
           (k.to = "peer" /\ ~k.late /\ (k.type = "session_open" => ~s.active)),
         t.active =>
           /\ s.active /\ t.rx = s.rx /\ ~TimedOut(s)
           /\ \/ ~PingDue(s) /\ t = s
              \/ /\ PingDue(s)
                 /\ \E k \in v : k.to = "peer" /\ k.type = "session_ping" /\ ~k.late
  PROVE  Answered(p, t, v, f)
<1>1. (f = 0 => \A m \in v : ~m.late) /\ p.stage # "opening"
  BY DEF Answered
<1>2. t.active /\ (\E m \in v : m.to = "peer" /\ m.type = "session_open" /\ ~m.late)
        => t.rx = 0
  BY DEF Answered
<1>3. Fresh(w) => Fresh(v)
  BY DEF Fresh
<1> HIDE DEF Quiet
<1>4. t.active /\ Met(p) /\ f <= 1 =>
       \/ Fresh(v)
       \/ t.rx < Quiet(f)
       \/ /\ t.rx = Quiet(f)
          /\ \/ PingDue(t) \/ TimedOut(t)
             \/ \E m \in v : m.to = "peer" /\ m.type = "session_ping" /\ ~m.late
  BY <1>3 DEF Answered
<1>5. /\ t.active /\ Met(p) /\ f = 0 => t.rx <= KeepaliveTicks
      /\ t.active /\ p.stage = "playing" /\ f <= 1 => t.rx <= Quiet(f)
  BY DEF Answered
<1> QED BY <1>1, <1>2, <1>4, <1>5 DEF Answered

\* Time has passed.
LEMMA AnsweredTick ==
  ASSUME NEW p, NEW q, NEW s \in Session, NEW t \in Session, NEW w, NEW f \in Nat,
         Answered(p, s, w, f), q.stage = p.stage, \A m \in w : m.late,
         ~TimedOut(s), ~PingDue(s), t.active = s.active, Pinged(t),
         t.active =>
           /\ t.rx = s.rx + 1
           /\ t.rx = KeepaliveTicks \/ t.rx = 2 * KeepaliveTicks
                => PingDue(t) \/ TimedOut(t)
  PROVE  Answered(q, t, w, f)
<1>0. /\ s.rx \in Nat /\ t.rx \in Nat /\ ~Fresh(w)
      /\ (Met(q) <=> Met(p)) /\ (p.stage = "playing" => Met(p))
  BY TimeAssumption DEF Session, Age, Never, Fresh, Met
<1>1. /\ f = 0 => \A m \in w : ~m.late
      /\ q.stage # "opening"
  BY DEF Answered
<1>2. ASSUME t.active, Met(q), f <= 1
      PROVE  t.rx < Quiet(f) \/ (t.rx = Quiet(f) /\ (PingDue(t) \/ TimedOut(t)))
  <2>1. f = 0 \/ f = 1
    BY <1>2
  <2>2. Quiet(f) = KeepaliveTicks \/ Quiet(f) = 2 * KeepaliveTicks
    BY <2>1, QuietLemma
  <2>3. Quiet(f) \in Nat
    BY <2>2, QuietLemma
  <2> HIDE DEF Quiet
  <2>4. s.rx < Quiet(f)
    BY <1>0, <1>2 DEF Answered
  <2> QED BY <1>0, <1>2, <2>2, <2>3, <2>4
<1>3. t.active /\ Met(q) /\ f = 0 => t.rx <= KeepaliveTicks
  BY <1>0, <1>2, QuietLemma
<1>4. t.active /\ q.stage = "playing" /\ f <= 1 => t.rx <= Quiet(f)
  <2>1. f <= 1 => Quiet(f) \in Nat
    BY QuietLemma DEF Quiet
  <2> HIDE DEF Quiet
  <2> QED BY <1>0, <1>2, <2>1
<1> HIDE DEF Quiet
<1> QED BY <1>1, <1>2, <1>3, <1>4 DEF Answered

LEMMA SourceStep ==
  ASSUME TypeOK, TypeOK', NetworkTypeOK, [NetworkNext]_networkVars,
         NEW e \in Endpoints, ~Joining(e), Pinged(session[e]),
         Answered(peer[e], session[e], Mail(e), faults)
  PROVE  /\ Pinged(session'[e])
         /\ Answered(peer'[e], session'[e], Mail(e)', faults')
<1> DEFINE p == peer[e]
           q == peer'[e]
           s == session[e]
           t == session'[e]
           w == Mail(e)
           v == Mail(e)'
           f == faults
           g == faults'
<1> SUFFICES Pinged(t) /\ Answered(q, t, v, g)
  OBVIOUS
<1>0. /\ Pinged(s) /\ Answered(p, s, w, f) /\ s \in Session /\ t \in Session
      /\ s.rx \in Nat /\ f \in Nat /\ g \in Nat /\ p.stage # "opening"
      /\ \A m \in w : m \in Wire
  BY Numbers, Ages, FaultsGrow DEF NetworkTypeOK, TypeOK, Answered
<1>1. g = f \/ g = f + 1
  BY FaultsGrow
<1>2. s.enabled /\ (s.active => s.open_sent)
  BY <1>0 DEF Pinged
<1>3. CASE Still(e)
  <2>1. q = p /\ t = s /\ v = w
    BY <1>3 DEF Still
  <2> HIDE DEF w, v, p, q, s, t, f, g
  <2>2. (g = f /\ v = w) \/ (g = f + 1 /\ \A k \in v : k \in w \/ k.late)
    BY <1>1, <2>1
  <2> QED BY <1>0, <2>1, <2>2, AnsweredFault
<1>4. CASE Broken(e)
  <2>1. q = p /\ t = s /\ g = f + 1
    BY <1>4 DEF Broken
  <2>2. PICK m \in w : v \subseteq (w \cup {[m EXCEPT !.late = TRUE]})
    BY <1>4 DEF Broken
  <2>3. [m EXCEPT !.late = TRUE].late
    BY <1>0, LateSame
  <2>4. \A k \in v : k \in w \/ k.late
    BY <2>2, <2>3
  <2> HIDE DEF w, v, p, q, s, t, f, g
  <2> QED BY <1>0, <2>1, <2>4, AnsweredFault
<1>5. CASE PeerActs(e) /\ t = s
  <2>1. /\ w \subseteq v /\ \A k \in v : k \in w \/ (k.to = "bridge" /\ ~k.late)
        /\ q.stage # "opening" /\ (Met(q) => Met(p))
        /\ q.stage = "playing" => p.stage = "playing" \/ ~Fresh(w)
    BY <1>0, <1>5, SourceActs
  <2> HIDE DEF w, v, p, q, s, t, f, g
  <2>2. Answered(q, s, v, f)
    BY <1>0, <2>1, AnsweredActs
  <2>3. (g = f /\ v = v) \/ (g = f + 1 /\ \A k \in v : k \in v \/ k.late)
    BY <1>1
  <2>4. Answered(q, s, v, g)
    BY <1>0, <2>2, <2>3, AnsweredFault
  <2> QED BY <1>0, <1>5, <2>4
<1>6. ASSUME NEW m \in w, PeerReceives(m)
      PROVE  Pinged(t) /\ Answered(q, t, v, g)
  <2>1. /\ m.to = "peer" /\ t = s /\ g = f
        /\ \A k \in v : k \in w \/ (k.to = "bridge" /\ ~k.late)
        /\ \A k \in w : k \in v \/ k = m
        /\ \/ m.type = "session_open" /\ q.stage = "accepted" /\ Fresh(v)
           \/ q = p /\ (Met(p) /\ m.type = "session_ping" => Fresh(v))
    BY <1>0, <1>6, SourceHears
  <2> HIDE DEF w, v, p, q, s, t, f, g
  <2>2. Answered(q, s, v, f)
    BY <1>0, <2>1, AnsweredHears
  <2> QED BY <1>0, <2>1, <2>2
<1>7. ASSUME NEW m \in w, BridgeReceives(m)
      PROVE  Pinged(t) /\ Answered(q, t, v, g)
  <2>1. /\ q = p /\ t.enabled /\ t.rx = 0 /\ (t.active => t.open_sent)
        /\ \A k \in v : k \in w \/ ~k.late
    BY <1>2, <1>7, SourceIsHeard
  <2> HIDE DEF w, v, p, q, s, t, f, g
  <2>2. Pinged(t)
    BY <1>0, <2>1, PingedHeard
  <2>3. Answered(p, t, v, g)
    BY <1>0, <1>1, <2>1, AnsweredHeard
  <2> QED BY <2>1, <2>2, <2>3
<1>8. CASE BridgeServices
  <2>1. /\ q = p /\ g = f /\ t.enabled /\ w \subseteq v
        /\ \A k \in v : k \in w \/
             (k.to = "peer" /\ ~k.late /\ (k.type = "session_open" => ~s.active))
        /\ t.active =>
             /\ s.active /\ t.open_sent /\ t.rx = s.rx /\ ~TimedOut(s)
             /\ \/ ~PingDue(s) /\ t = s
                \/ /\ PingDue(s) /\ t.tx = 0 /\ t.ping = 0
                   /\ \E k \in v : k.to = "peer" /\ k.type = "session_ping" /\ ~k.late
    BY <1>0, <1>8, SourceService
  <2> HIDE DEF w, v, p, q, s, t, f, g
  <2>2. Pinged(t)
    BY <1>0, <2>1, PingedServed
  <2>3. Answered(p, t, v, f)
    BY <1>0, <2>1, AnsweredServed
  <2> QED BY <2>1, <2>2, <2>3
<1>9. CASE NetworkTick
  <2>1. /\ t.enabled = s.enabled /\ t.active = s.active /\ t.open_sent = s.open_sent
        /\ t.rx = Older(s.rx) /\ t.tx = Older(s.tx) /\ t.ping = Older(s.ping)
        /\ ~TimedOut(s) /\ ~PingDue(s)
    BY <1>9, SourceTick
  <2>2. q.stage = p.stage /\ v = w /\ \A m \in w : m.late
    BY <1>9, TickSlice
  <2>3. g = f
    BY <1>9 DEF NetworkTick
  <2> HIDE DEF w, v, p, q, s, t, f, g
  <2>4. /\ Pinged(t)
        /\ t.active =>
             /\ t.rx = s.rx + 1
             /\ t.rx = KeepaliveTicks \/ t.rx = 2 * KeepaliveTicks
                  => PingDue(t) \/ TimedOut(t)
    BY <1>0, <2>1, PingedTick
  <2>5. Answered(q, t, w, f)
    BY <1>0, <2>1, <2>2, <2>4, AnsweredTick
  <2> QED BY <2>2, <2>3, <2>4, <2>5
<1> QED BY <1>3, <1>4, <1>5, <1>6, <1>7, <1>8, <1>9, Slices, <1>0 DEF Slice

LEMMA KeptInit == NetworkInit => KeptInv
<1> SUFFICES ASSUME NetworkInit, NEW e \in Endpoints
             PROVE  /\ Joining(e) => Noticed(peer[e], session[e], Mail(e), faults)
                    /\ ~Joining(e) => /\ Pinged(session[e])
                                      /\ Answered(peer[e], session[e], Mail(e), faults)
  BY DEF KeptInv
<1>1. CASE Joining(e)
  BY <1>1, FirstSlice DEF Noticed, NoSession
<1>2. CASE ~Joining(e)
  <2>1. peer[e] = Down(0)
    BY DEF NetworkInit
  <2>2. PICK id \in SessionIds :
          session[e] = SessionOpenSent([NoSession EXCEPT !.enabled = TRUE, !.session_id = id])
    BY <1>2 DEF NetworkInit, Init, Joining
  <2>3. session[e].enabled /\ ~session[e].active
    BY <2>2 DEF SessionOpenSent, NoSession
  <2>4. \A m \in Mail(e) : ~m.late
    BY DEF NetworkInit, Mail, Datagram
  <2>5. Pinged(session[e])
    BY <2>3 DEF Pinged
  <2>6. Answered(peer[e], session[e], Mail(e), faults)
    BY <2>1, <2>3, <2>4 DEF Answered, Down
  <2> QED BY <1>2, <2>5, <2>6
<1> QED BY <1>1, <1>2

LEMMA KeptNext ==
  ASSUME TypeOK, TypeOK', NetworkTypeOK, Counting, KeptInv, [NetworkNext]_networkVars
  PROVE  KeptInv'
<1>1. udp_source' = udp_source
  BY FaultsGrow
<1> SUFFICES ASSUME NEW e \in Endpoints
             PROVE  /\ Joining(e) => Noticed(peer[e], session[e], Mail(e), faults)'
                    /\ ~Joining(e) => /\ Pinged(session[e])'
                                      /\ Answered(peer[e], session[e], Mail(e), faults)'
  BY <1>1 DEF KeptInv, Joining
<1>2. CASE Joining(e)
  <2>1. Noticed(peer'[e], session'[e], Mail(e)', faults')
    BY <1>2, NoticedStep DEF KeptInv, Counting
  <2>2. Noticed(peer[e], session[e], Mail(e), faults)'
    BY <1>1, <2>1 DEF Noticed, Welcome, Met, Fresh
  <2> QED BY <1>2, <2>2
<1>3. CASE ~Joining(e)
  <2>1. Pinged(session'[e]) /\ Answered(peer'[e], session'[e], Mail(e)', faults')
    BY <1>3, SourceStep DEF KeptInv
  <2>2. Pinged(session[e])'
    BY <2>1 DEF Pinged
  <2>3. Answered(peer[e], session[e], Mail(e), faults)'
    BY <2>1 DEF Answered, Met, Fresh, Quiet, PingDue, TimedOut
  <2> QED BY <1>3, <2>2, <2>3
<1> QED BY <1>2, <1>3

LEMMA Intervals ==
  ASSUME NEW k \in Nat, k >= 1, NEW n \in Nat
  PROVE  /\ n <= k => n \div k <= 1
         /\ n <= 2 * k => n \div k <= 2
         /\ n < 4 * k => n \div k <= 3
         /\ n \div k \in Nat /\ n \div k <= n
<1> DEFINE d == n \div k
<1>1. d \in Int /\ k * d <= n /\ n < k * (d + 1)
  BY Z3
<1> HIDE DEF d
<1> QED BY <1>1, Z3 DEF d

LEMMA KeptMeans ==
  ASSUME TimeoutTicks < 4 * KeepaliveTicks, TypeOK, NetworkTypeOK, KeptInv
  PROVE  PromptPeersAreKept
<1> SUFFICES ASSUME NEW e \in Endpoints, TimedOut(session[e]), peer[e].stage = "playing"
             PROVE  faults >= (TimeoutTicks \div KeepaliveTicks) - 1
  BY DEF PromptPeersAreKept
<1> DEFINE s == session[e]
           n == TimeoutTicks \div KeepaliveTicks
<1>1. /\ s.rx \in Nat /\ faults \in Nat /\ TimeoutTicks \in Nat
      /\ KeepaliveTicks \in Nat /\ KeepaliveTicks >= 1
  BY Ages DEF NetworkTypeOK
<1>2. s.active /\ s.rx >= TimeoutTicks
  BY DEF TimedOut
<1>3. n \in Nat /\ n <= TimeoutTicks /\ n <= 3
  BY <1>1, Intervals
<1>4. CASE Joining(e)
  <2>1. s.rx <= faults + 1
    BY <1>2, <1>4 DEF KeptInv, Noticed, Welcome, Met
  <2> HIDE DEF s, n
  <2> QED BY <1>1, <1>2, <1>3, <2>1 DEF n
<1>5. CASE ~Joining(e)
  <2>1. faults <= 1 => s.rx <= Quiet(faults)
    BY <1>2, <1>5 DEF KeptInv, Answered
  <2>2. CASE faults = 0
    <3>1. TimeoutTicks <= KeepaliveTicks
      BY <1>1, <1>2, <2>1, <2>2, QuietLemma
    <3>2. n <= 1
      BY <1>1, <3>1, Intervals
    <3> HIDE DEF n
    <3> QED BY <1>3, <2>2, <3>2 DEF n
  <2>3. CASE faults = 1
    <3>1. TimeoutTicks <= 2 * KeepaliveTicks
      BY <1>1, <1>2, <2>1, <2>3, QuietLemma
    <3>2. n <= 2
      BY <1>1, <3>1, Intervals
    <3> HIDE DEF n
    <3> QED BY <1>3, <2>3, <3>2 DEF n
  <2>4. CASE faults >= 2
    <3> HIDE DEF n
    <3> QED BY <1>1, <1>3, <2>4 DEF n
  <2> QED BY <1>1, <2>2, <2>3, <2>4
<1> QED BY <1>4, <1>5

\* A peer that reports or answers pings is not timed out before the network has
\* failed once for every keepalive interval but the last, provided the timeout
\* is shorter than four of them (the code's is three: 15 s and 5 s).
THEOREM PromptPeersSurvive ==
  ASSUME TimeoutTicks < 4 * KeepaliveTicks
  PROVE  NetworkSafety => []PromptPeersAreKept
<1>1. NetworkInit => Counting /\ KeptInv
  BY StepInit, KeptInit DEF StepInv, Counting
<1>2. TypeOK /\ NetworkTypeOK /\ Counting /\ [NetworkNext]_networkVars => Counting'
  BY CountsNext
<1>3. /\ TypeOK /\ TypeOK' /\ NetworkTypeOK /\ Counting /\ KeptInv
      /\ [NetworkNext]_networkVars
      => KeptInv'
  BY KeptNext
<1>4. TypeOK /\ NetworkTypeOK /\ KeptInv => PromptPeersAreKept
  BY KeptMeans
<1> QED BY <1>1, <1>2, <1>3, <1>4, NetworkImplementsSessions, TypeCorrect,
           PTL DEF NetworkSafety

=============================================================================

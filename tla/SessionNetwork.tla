------------------------------ MODULE SessionNetwork ------------------------------
(***************************************************************************)
(* UdpSessions together with the peers it talks to and the network between *)
(* them.  Where UdpSessions lets any datagram arrive at any time, here a   *)
(* datagram arrives because a peer sent it.                                *)
(*                                                                         *)
(* A joining peer behaves like examples/send_demo.py: it asks for a        *)
(* session until it is accepted or gives up, adds its device once, sends a *)
(* report at least once a tick, and in the end removes the device and      *)
(* closes.  The configured source (--udp-source) is not in the repository: *)
(* it accepts every session it is asked for, adds its device, answers      *)
(* pings, reports when it likes.  Either may vanish without a word and     *)
(* start again at the same address.                                        *)
(*                                                                         *)
(* A datagram is handled before the next tick, unless the network loses,   *)
(* delays or duplicates it, which it does MaxFaults times.  A delayed      *)
(* datagram may arrive at any later time, or never.                        *)
(***************************************************************************)
EXTENDS UdpSessions

CONSTANTS
  DeviceId,      \* the device_id of a peer's only controller
  MaxStarts,     \* bound: how often a peer starts
  MaxReports,    \* bound: reports a peer sends before it closes or falls silent
  GiveUpTicks,   \* how long a joining peer waits to be accepted
  MaxFaults,     \* bound: datagrams the network loses, delays or duplicates
  StaleReports   \* whether a report may outlive the program that sent it

ASSUME PeerAssumption ==
  /\ DeviceId \in SourceIds
  /\ MaxStarts \in Nat \ {0} /\ 1..MaxStarts \subseteq SessionIds
  /\ MaxReports \in Nat /\ GiveUpTicks \in Nat /\ MaxFaults \in Nat
  /\ StaleReports \in BOOLEAN

VARIABLES
  peer,    \* [Endpoints -> record], what each peer is doing
  wire,    \* datagrams under way, in both directions
  faults   \* faults of the network so far

networkVars == <<vars, peer, wire, faults>>

-----------------------------------------------------------------------------
(* The network *)

\* id is the session id of a session_open or session_accept, sequence the
\* header's sequence of an input report; 0 in the others, where neither is
\* there or is read.
Datagram(to, e, type, id) ==
  [to |-> to, end |-> e, type |-> type, id |-> id, sequence |-> 0, late |-> FALSE]

UnderWay == {m \in wire : ~m.late}

\* One more fault.
Fault == faults < MaxFaults /\ faults' = faults + 1

Lose(m) == wire' = wire \ {m}
Delay(m) == wire' = (wire \ {m}) \cup {[m EXCEPT !.late = TRUE]}
Duplicate(m) == wire' = wire \cup {[m EXCEPT !.late = TRUE]}

NetworkFault ==
  /\ Fault
  /\ \E m \in UnderWay : Lose(m) \/ Delay(m) \/ Duplicate(m)
  /\ UNCHANGED <<vars, peer>>

-----------------------------------------------------------------------------
(* The peers *)

Joining(e) == e # udp_source

Down(starts) ==
  [stage |-> "down", id |-> 0, sequence |-> 0, reports |-> 0, sent |-> FALSE,
   waited |-> 0, starts |-> starts]

\* A peer sends its next datagram when the last one is off its hands; what
\* overtakes it afterwards was delayed.
CanSend(e) == ~\E m \in UnderWay : m.to = "bridge" /\ m.end = e

\* _send: every datagram of a peer takes the next sequence number.
PeerSends(e, datagram, changed) ==
  /\ CanSend(e)
  /\ wire' = wire \cup {datagram}
  /\ peer' = [peer EXCEPT ![e] = [changed EXCEPT
                         !.sequence = (@ + 1) % SequenceModulus, !.sent = TRUE]]

PeerStarts(e) ==
  /\ peer[e].stage = "down" /\ peer[e].starts < MaxStarts
  /\ StaleReports \/ ~\E m \in wire : m.end = e /\ m.type = "hid_input_report"
  /\ LET starts == peer[e].starts + 1
     IN peer' = [peer EXCEPT ![e] =
          IF Joining(e)
          THEN [Down(starts) EXCEPT !.stage = "opening", !.id = starts]
          ELSE [Down(starts) EXCEPT !.stage = "waiting"]]
  /\ UNCHANGED wire

\* A peer that crashes or loses its network says nothing.
PeerVanishes(e) ==
  /\ peer[e].stage # "down"
  /\ peer' = [peer EXCEPT ![e] = Down(peer[e].starts)]
  /\ UNCHANGED wire

\* open_session: ask, wait a while, ask again, in the end raise TimeoutError.
PeerOpens(e) ==
  /\ peer[e].stage = "opening" /\ ~peer[e].sent
  /\ PeerSends(e, Datagram("bridge", e, "session_open", peer[e].id), peer[e])

PeerGivesUp(e) ==
  /\ peer[e].stage = "opening" /\ peer[e].waited = GiveUpTicks
  /\ peer' = [peer EXCEPT ![e] = Down(peer[e].starts)]
  /\ UNCHANGED wire

\* add_controller, once and without an answer.
PeerAdds(e) ==
  /\ peer[e].stage = "accepted"
  /\ PeerSends(e, Datagram("bridge", e, "hid_device_add", 0),
               [peer[e] EXCEPT !.stage = "playing"])

PeerReports(e) ==
  /\ peer[e].stage = "playing" /\ ~peer[e].sent /\ peer[e].reports < MaxReports
  /\ PeerSends(e, [Datagram("bridge", e, "hid_input_report", 0)
                     EXCEPT !.sequence = peer[e].sequence],
               [peer[e] EXCEPT !.reports = @ + 1])

PeerRemoves(e) ==
  /\ peer[e].stage = "playing"
  /\ PeerSends(e, Datagram("bridge", e, "hid_device_remove", 0),
               [peer[e] EXCEPT !.stage = "removed"])

PeerCloses(e) ==
  /\ peer[e].stage = "removed"
  /\ CanSend(e)
  /\ wire' = wire \cup {Datagram("bridge", e, "session_close", 0)}
  /\ peer' = [peer EXCEPT ![e] = Down(peer[e].starts)]

\* What a peer has to do before time passes.
PeerIsDue(e) ==
  \/ peer[e].stage = "opening" /\ (~peer[e].sent \/ peer[e].waited = GiveUpTicks)
  \/ peer[e].stage \in {"accepted", "removed"}
  \/ peer[e].stage = "playing" /\ Joining(e) /\ ~peer[e].sent

PeerDue ==
  /\ \E e \in Endpoints :
       /\ PeerIsDue(e)
       /\ \/ PeerOpens(e) \/ PeerGivesUp(e) \/ PeerAdds(e)
          \/ PeerReports(e) \/ PeerRemoves(e) \/ PeerCloses(e)
  /\ UNCHANGED <<vars, faults>>

PeerMay ==
  /\ \E e \in Endpoints :
       \/ PeerStarts(e) \/ PeerVanishes(e)
       \/ ~PeerIsDue(e) /\ (PeerReports(e) \/ PeerRemoves(e))
  /\ UNCHANGED <<vars, faults>>

\* What a peer makes of a datagram, and what it answers at once.
Hears(m) ==
  LET p == peer[m.end] IN
  CASE m.type = "session_accept" /\ p.stage = "opening" /\ p.id = m.id ->
         [p EXCEPT !.stage = "accepted", !.waited = 0]
    [] m.type = "session_open" /\ ~Joining(m.end) /\ p.stage # "down" ->
         [p EXCEPT !.stage = "accepted"]
    [] OTHER -> p

Answers(m) ==
  LET p == peer[m.end] IN
  IF Joining(m.end) \/ p.stage = "down" THEN {}
  ELSE CASE m.type = "session_open" -> {Datagram("bridge", m.end, "session_accept", m.id)}
         [] m.type = "session_ping" /\ p.stage # "waiting" ->
              {Datagram("bridge", m.end, "session_pong", 0)}
         [] OTHER -> {}

PeerReceives(m) ==
  /\ m.to = "peer"
  /\ peer' = [peer EXCEPT ![m.end] = Hears(m)]
  /\ wire' = (wire \ {m}) \cup Answers(m)
  /\ UNCHANGED <<vars, faults>>

-----------------------------------------------------------------------------
(* The bridge *)

\* Whether the switch of consume_udp does anything for m.
Understood(m) ==
  LET s == session[m.end] IN
  /\ Heeded(m.end)
  /\ CASE m.type = "session_open"   -> TRUE
       [] m.type = "session_accept" -> m.end = udp_source /\ m.id = s.session_id
       [] m.type = "session_close"  -> s.enabled
       [] m.type = "session_pong"   -> FALSE
       [] m.type = "hid_device_add" -> s.enabled /\ s.active
       [] OTHER -> s.enabled /\ s.active /\ s.devices[DeviceId] # 0

\* The bridge hands a datagram to sendto, or an add to IOKit, in vain only
\* as a fault.
UnlessFault(succeeds) == IF succeeds THEN UNCHANGED faults ELSE Fault

Received(m) ==
  LET e == m.end IN
  \/ /\ m.type = "session_open"
     /\ \E sent \in BOOLEAN :
          /\ SessionOpen(e, m.id, sent) /\ UnlessFault(sent)
          /\ wire' = (wire \ {m}) \cup
               (IF sent THEN {Datagram("peer", e, "session_accept", m.id)} ELSE {})
  \/ /\ m.type = "hid_device_add"
     /\ \E added \in BOOLEAN : DeviceAdd(e, DeviceId, added) /\ UnlessFault(added)
     /\ wire' = wire \ {m}
  \/ /\ \/ m.type = "session_accept" /\ SessionAccept(e, m.id)
        \/ m.type = "session_close" /\ SessionClose(e)
        \/ m.type = "hid_device_remove" /\ DeviceRemove(e, DeviceId)
        \/ /\ m.type = "hid_input_report"
           /\ DeviceReport(e, DeviceId, m.sequence, TRUE)
     /\ wire' = wire \ {m}
     /\ UNCHANGED faults

Ignored(m) ==
  /\ wire' = wire \ {m}
  /\ UNCHANGED faults
  /\ IF Heeded(m.end) /\ session[m.end].enabled THEN DatagramNoted(m.end) ELSE NoDatagram

BridgeReceives(m) ==
  /\ m.to = "bridge"
  /\ phase = "receive" /\ phase' = "service"
  /\ UNCHANGED <<udp_source, peer>>
  /\ IF Understood(m) THEN Received(m) ELSE Ignored(m)

ServiceIsDue ==
  \E e \in Endpoints :
    OpenDue(session[e]) \/ TimedOut(session[e]) \/ PingDue(session[e])

\* A round of the loop without a datagram, when the round has work to do.
BridgeIdles ==
  /\ phase = "receive" /\ phase' = "service"
  /\ ServiceIsDue
  /\ NoDatagram
  /\ UNCHANGED <<udp_source, peer, wire, faults>>

BridgeServices ==
  /\ Service
  /\ wire' = wire
       \cup {Datagram("peer", e, "session_open", session[e].session_id) :
               e \in {x \in Endpoints : OpenDue(session[x])}}
       \cup {Datagram("peer", e, "session_ping", 0) :
               e \in {x \in Endpoints : PingDue(session[x])}}
  /\ UNCHANGED <<peer, faults>>

-----------------------------------------------------------------------------

\* waited counts the ticks a program has asked for a session, or a joining
\* peer has been down (history, up to Never).
Waits(e) ==
  \/ peer[e].stage = "opening"
  \/ peer[e].stage = "down" /\ Joining(e) /\ peer[e].waited < Never

\* A tick is long beside a round of the loop, the way of a datagram, and the
\* time a peer needs to react.
NetworkTick ==
  /\ phase = "receive" /\ ~ServiceIsDue
  /\ UnderWay = {}
  /\ \A e \in Endpoints : ~PeerIsDue(e)
  /\ Tick
  /\ peer' = [e \in Endpoints |->
       [peer[e] EXCEPT !.sent = FALSE, !.waited = IF Waits(e) THEN @ + 1 ELSE @]]
  /\ UNCHANGED <<wire, faults>>

BridgeStep ==
  \/ \E m \in UnderWay : BridgeReceives(m)
  \/ BridgeIdles
  \/ BridgeServices

LateArrival == \E m \in wire \ UnderWay : BridgeReceives(m) \/ PeerReceives(m)

\* The configured source takes whatever id the bridge's own session has: one
\* stands for all.
NetworkInit ==
  /\ Init
  /\ \A e \in Endpoints : session[e].session_id \in 0..1
  /\ peer = [e \in Endpoints |-> Down(0)]
  /\ wire = IF udp_source = Nobody THEN {}
            ELSE {Datagram("peer", udp_source, "session_open",
                           session[udp_source].session_id)}
  /\ faults = 0

NetworkNext ==
  \/ BridgeStep
  \/ \E m \in UnderWay : PeerReceives(m)
  \/ PeerDue
  \/ PeerMay
  \/ NetworkTick
  \/ LateArrival
  \/ NetworkFault

NetworkSafety == NetworkInit /\ [][NetworkNext]_networkVars

\* The loop goes round, datagrams that were not delayed arrive, peers do what
\* they have to, time passes.  Nothing makes a delayed datagram arrive.
NetworkSpec ==
  /\ NetworkSafety
  /\ WF_networkVars(BridgeStep)
  /\ WF_networkVars(\E m \in UnderWay : PeerReceives(m))
  /\ WF_networkVars(PeerDue)
  /\ WF_networkVars(NetworkTick)

-----------------------------------------------------------------------------
(* Properties *)

Peer ==
  [stage : {"down", "opening", "waiting", "accepted", "playing", "removed"},
   id : SessionIds \cup {0}, sequence : Sequences, reports : Nat, sent : BOOLEAN,
   waited : Nat, starts : 0..MaxStarts]

Wire ==
  [to : {"bridge", "peer"}, end : Endpoints,
   type : {"session_open", "session_accept", "session_close", "session_ping",
           "session_pong", "hid_device_add", "hid_device_remove", "hid_input_report"},
   id : SessionIds \cup {0}, sequence : Sequences, late : BOOLEAN]

\* The values the variables take; datagrams that open or accept a session
\* name one, which consume_udp requires of the first and compares in the
\* second.
NetworkTypeOK ==
  /\ peer \in [Endpoints -> Peer]
  /\ wire \subseteq Wire
  /\ faults \in 0..MaxFaults
  /\ \A m \in wire : m.type \in {"session_open", "session_accept"} => m.id # 0
  /\ \A e \in Endpoints : peer[e].stage = "opening" => peer[e].id # 0
  /\ \A e \in Endpoints : session[e].enabled => session[e].session_id # 0

\* A peer that sends its reports or answers pings is not timed out before
\* the network has failed once for every keepalive interval but the last:
\* the bridge pings often enough, and early enough, to survive a lost ping.
PromptPeersAreKept ==
  \A e \in Endpoints :
    TimedOut(session[e]) /\ peer[e].stage = "playing" =>
      faults >= (TimeoutTicks \div KeepaliveTicks) - 1

\* As long as the network has not failed, a joining peer and the bridge agree:
\* one that was accepted has an active session of its own id, and once its
\* add has arrived a controller that was added in it; one that has been down
\* for longer than the timeout has no session left, neither because of what
\* the bridge sends into the void nor of what the peer sent before.
PeersAreInStep ==
  faults = 0 => \A e \in Endpoints : Joining(e) =>
    /\ peer[e].stage \in {"accepted", "playing", "removed"} =>
         /\ session[e].active /\ session[e].session_id = peer[e].id
         /\ peer[e].stage = "playing" /\ CanSend(e) =>
              LET id == session[e].devices[DeviceId]
              IN id # 0 /\ controllers[id].session = peer[e].id
    /\ peer[e].stage = "down" /\ peer[e].waited > TimeoutTicks =>
         ~session[e].enabled

\* In a joining peer's own session the sequence filter never stands in the
\* way of its next report, also after it started again and counts from zero.
FreshReportsPass ==
  \A e \in Endpoints :
    LET id == session[e].devices[DeviceId]
    IN /\ Joining(e) /\ peer[e].stage = "playing"
       /\ session[e].session_id = peer[e].id /\ id # 0
       => \/ controllers[id].last = -1
          \/ Newer(peer[e].sequence, controllers[id].last)

\* Whatever was lost, delayed or duplicated, the controllers of a peer that
\* is gone for good disappear for good: no stray add or open leaves one.
GonePeersLoseControllers ==
  \A e \in Endpoints :
    <>[](peer[e].stage = "down") =>
      <>[](\A id \in NetworkIds : controllers[id].owner # <<e, DeviceId>>)

\* A configured source that comes back, or whose session was closed or timed
\* out, is asked again until it has a session, and keeps it.
SourceIsReopened ==
  \A e \in Endpoints :
    <>[](e = udp_source /\ peer[e].stage # "down") => <>[](session[e].active)

=============================================================================

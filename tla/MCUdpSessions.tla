------------------------------ MODULE MCUdpSessions ------------------------------
(***************************************************************************)
(* UdpSessions on a small instance: two endpoints, the controller ids the  *)
(* model hands out and one physical device.  TimeoutTicks is twice         *)
(* KeepaliveTicks, so that a ping falls due before the timeout.            *)
(***************************************************************************)
EXTENDS UdpSessions, TLC

EndpointSymmetry == Permutations(Endpoints)

=============================================================================

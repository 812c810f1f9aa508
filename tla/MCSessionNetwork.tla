---------------------------- MODULE MCSessionNetwork ----------------------------
(* SessionNetwork with one endpoint, a joining peer or the configured source. *)
EXTENDS SessionNetwork

MCEndpoints == {"p"}
MCSourceIds == {1}
MCSessionIds == 1..2
MCPhysicalIds == {}

=============================================================================

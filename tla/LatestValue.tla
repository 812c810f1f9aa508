------------------------------- MODULE LatestValue -------------------------------
(***************************************************************************)
(* What VirtualDevice::send_latest promises, with no queue, job or lock:   *)
(* of the reports it accepts, numbered in the order of acceptance, the     *)
(* host is shown some, never one twice and never an older one after a      *)
(* newer one.  docs/protocol.md calls this latest-value-wins.              *)
(***************************************************************************)
EXTENDS Naturals

VARIABLES accepted,   \* how many reports send_latest accepted
          delivered,  \* the number of the last one the host was handed
          open        \* the device still accepts reports

valueVars == <<accepted, delivered, open>>

ValueInit == accepted = 0 /\ delivered = 0 /\ open = TRUE

Accept ==
  /\ open
  /\ accepted' = accepted + 1
  /\ UNCHANGED <<delivered, open>>

\* Anything between the last delivery and the newest report is skipped.
Deliver ==
  /\ delivered' \in (delivered + 1)..accepted
  /\ UNCHANGED <<accepted, open>>

\* A delivery under way when the device closes may still happen.
Shut == open' = FALSE /\ UNCHANGED <<accepted, delivered>>

ValueSpec == ValueInit /\ [][Accept \/ Deliver \/ Shut]_valueVars

=============================================================================

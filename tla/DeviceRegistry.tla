----------------------------- MODULE DeviceRegistry -----------------------------
(***************************************************************************)
(* What the UDP side of the bridge promises to the rest of the process     *)
(* about network controllers, with no sessions, datagrams or timers: a     *)
(* process-local controller id is given to one device of one endpoint,     *)
(* belongs to that device until it is released, and is never given to      *)
(* another device afterwards.  docs/architecture.md states it in one       *)
(* sentence: source device ids are local to their UDP session and the      *)
(* bridge maps them to process-local controller ids.                       *)
(***************************************************************************)
CONSTANTS Endpoints,   \* UDP endpoints a source can speak from
          SourceIds,   \* device ids sources number their devices with
          Ids,         \* controller ids of the bridge
          Nobody       \* not a device: the owner of an id nobody owns

Devices == Endpoints \X SourceIds

VARIABLES owner,       \* [Ids -> Devices \cup {Nobody}], who owns each live id
          used         \* ids handed out so far, live or not

registryVars == <<owner, used>>

RegistryInit ==
  /\ owner = [id \in Ids |-> Nobody]
  /\ used = {}

\* A device without an id gets one that was never used.
Claim(device, id) ==
  /\ id \notin used
  /\ \A other \in Ids : owner[other] # device
  /\ used' = used \cup {id}
  /\ owner' = [owner EXCEPT ![id] = device]

\* An id is used up by a device that could not be published.
Waste(id) ==
  /\ id \notin used
  /\ used' = used \cup {id}
  /\ UNCHANGED owner

\* One device goes away.
Release(device) ==
  /\ owner' = [id \in Ids |-> IF owner[id] = device THEN Nobody ELSE owner[id]]
  /\ UNCHANGED used

\* Every device of some endpoints goes away, and nobody else's.
ReleaseAll(gone) ==
  /\ owner' = [id \in Ids |->
                 IF \E e \in gone, s \in SourceIds : owner[id] = <<e, s>>
                 THEN Nobody ELSE owner[id]]
  /\ UNCHANGED used

RegistryNext ==
  \/ \E device \in Devices, id \in Ids : Claim(device, id)
  \/ \E id \in Ids : Waste(id)
  \/ \E device \in Devices : Release(device)
  \/ \E gone \in SUBSET Endpoints : ReleaseAll(gone)

RegistrySpec == RegistryInit /\ [][RegistryNext]_registryVars

=============================================================================

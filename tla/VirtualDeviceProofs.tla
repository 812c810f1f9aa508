--------------------------- MODULE VirtualDeviceProofs ---------------------------
(***************************************************************************)
(* Proofs about VirtualDevice for any number of input reports.             *)
(***************************************************************************)
EXTENDS VirtualDevice, TLAPS

-----------------------------------------------------------------------------
(* The inductive invariant.  OneDrain is nearly inductive by itself; what  *)
(* the destructor relies on is that Runtime::mutex_ keeps the host's       *)
(* handler out while the caller is busy; and the drain delivers in order   *)
(* because the parked report is always the newest accepted one, and the    *)
(* one taken earlier lies between it and the last delivery.                *)

MutexHeldOnce == host = "inside" => caller = "idle"

ClosedByDestructor ==
  closed <=> caller \in {"clear", "cancel", "sync", "wait", "release", "gone"}

StatesNumberInputs ==
  /\ caller \in {"idle", "dispatch"} => current = accepted
  /\ caller = "offer" => current = accepted + 1

ParkedIsNewest ==
  /\ drained <= accepted
  /\ latest # NoReport => latest = accepted /\ drained < latest
  /\ drain = "send" =>
       /\ taken \in Nat
       /\ drained < taken /\ taken <= accepted
       /\ latest # NoReport => taken < latest

IInv ==
  /\ TypeOK
  /\ OneDrain
  /\ NothingUsesTheReleased
  /\ MutexHeldOnce
  /\ ClosedByDestructor
  /\ StatesNumberInputs
  /\ ParkedIsNewest

LEMMA InvInit == Init => IInv
<1> SUFFICES ASSUME Init PROVE IInv
  OBVIOUS
<1> USE DEF Init, NoReport
<1>1. TypeOK
  BY DEF TypeOK
<1>2. OneDrain
  BY DEF OneDrain
<1>3. NothingUsesTheReleased /\ MutexHeldOnce /\ ClosedByDestructor
  BY DEF NothingUsesTheReleased, MutexHeldOnce, ClosedByDestructor
<1>4. StatesNumberInputs /\ ParkedIsNewest
  BY DEF StatesNumberInputs, ParkedIsNewest
<1> QED BY <1>1, <1>2, <1>3, <1>4 DEF IInv

\* The steps of the threads that send: the counters and the drain's flag.
LEMMA InputSteps ==
  ASSUME IInv, Input \/ Offer \/ Dispatch
  PROVE  IInv'
<1> USE DEF IInv, object, queue, iokit, history, CallerStep, NoReport
<1>1. CASE Input
  BY <1>1 DEF Input, MutexFree, TypeOK, OneDrain, NothingUsesTheReleased, MutexHeldOnce,
              ClosedByDestructor, StatesNumberInputs, ParkedIsNewest
<1>2. CASE Offer
  <2>1. TypeOK'
    BY <1>2 DEF Offer, TypeOK
  <2>2. OneDrain'
    BY <1>2 DEF Offer, DispatchNeeded, OneDrain, TypeOK
  <2>3. /\ NothingUsesTheReleased' /\ MutexHeldOnce' /\ ClosedByDestructor'
        /\ StatesNumberInputs'
    BY <1>2 DEF Offer, NothingUsesTheReleased, MutexHeldOnce, ClosedByDestructor,
                StatesNumberInputs, TypeOK
  <2>4. ParkedIsNewest'
    BY <1>2 DEF Offer, StatesNumberInputs, ParkedIsNewest, TypeOK
  <2> QED BY <2>1, <2>2, <2>3, <2>4
<1>3. CASE Dispatch
  BY <1>3 DEF Dispatch, TypeOK, OneDrain, NothingUsesTheReleased, MutexHeldOnce,
              ClosedByDestructor, StatesNumberInputs, ParkedIsNewest
<1> QED BY <1>1, <1>2, <1>3

LEMMA EndSteps ==
  ASSUME IInv, Remove \/ SendNeutral \/ Replace \/ Destroy
  PROVE  IInv'
<1> USE DEF IInv, object, queue, iokit, history, CallerStep, NoReport
<1>1. TypeOK'
  <2>1. CASE Remove
    BY <2>1 DEF Remove, TypeOK
  <2>2. CASE SendNeutral
    BY <2>2 DEF SendNeutral, Destroying, TypeOK
  <2>3. CASE Replace
    BY <2>3 DEF Replace, Destroying, TypeOK
  <2>4. CASE Close \/ ClearLatest \/ Cancel
    BY <2>4 DEF Close, ClearLatest, Cancel, Destroying, TypeOK
  <2>5. CASE SyncInputQueue \/ WaitCancelled \/ Release
    BY <2>5 DEF SyncInputQueue, WaitCancelled, Release, Destroying, TypeOK
  <2> QED BY <2>1, <2>2, <2>3, <2>4, <2>5 DEF Destroy
<1>2. OneDrain'
  BY DEF Remove, SendNeutral, Replace, Destroy, Close, ClearLatest, Cancel,
         SyncInputQueue, WaitCancelled, Release, OneDrain
<1>3. NothingUsesTheReleased'
  BY DEF Remove, SendNeutral, Replace, Destroy, Close, ClearLatest, Cancel,
         SyncInputQueue, InputQueueDone, WaitCancelled, Release, MutexHeldOnce,
         NothingUsesTheReleased
<1>4. MutexHeldOnce' /\ ClosedByDestructor'
  BY DEF Remove, SendNeutral, Replace, Destroy, Close, ClearLatest, Cancel,
         SyncInputQueue, WaitCancelled, Release, MutexFree, MutexHeldOnce,
         ClosedByDestructor, TypeOK
<1>5. StatesNumberInputs' /\ ParkedIsNewest'
  BY DEF Remove, SendNeutral, Replace, Destroy, Close, ClearLatest, Cancel,
         SyncInputQueue, WaitCancelled, Release, StatesNumberInputs, ParkedIsNewest
<1> QED BY <1>1, <1>2, <1>3, <1>4, <1>5

LEMMA DrainSteps ==
  ASSUME IInv, Drain
  PROVE  IInv'
<1> USE DEF IInv, object, queue, iokit, history, NoReport
<1>1. CASE StartDrain
  BY <1>1 DEF StartDrain, TypeOK, OneDrain, NothingUsesTheReleased, MutexHeldOnce,
              ClosedByDestructor, StatesNumberInputs, ParkedIsNewest
<1>2. CASE EndDrain
  <2>1. OneDrain'
    BY <1>2 DEF EndDrain, TypeOK, OneDrain
  <2> QED
    BY <1>2, <2>1 DEF EndDrain, TypeOK, NothingUsesTheReleased, MutexHeldOnce,
                      ClosedByDestructor, StatesNumberInputs, ParkedIsNewest
<1>3. CASE TakeLatest
  BY <1>3 DEF TakeLatest, TypeOK, OneDrain, NothingUsesTheReleased, MutexHeldOnce,
              ClosedByDestructor, StatesNumberInputs, ParkedIsNewest
<1>4. CASE SendTaken
  BY <1>4 DEF SendTaken, TypeOK, OneDrain, NothingUsesTheReleased, MutexHeldOnce,
              ClosedByDestructor, StatesNumberInputs, ParkedIsNewest
<1> QED BY <1>1, <1>2, <1>3, <1>4 DEF Drain

LEMMA HostSteps ==
  ASSUME IInv,
         \/ HostReport \/ HostEnter \/ CancelHandler
         \/ \E replies \in BOOLEAN : HostReply(replies)
  PROVE  IInv'
<1> USE DEF IInv, object, queue, iokit, history
<1>1. CASE HostReport
  BY <1>1 DEF HostReport, TypeOK, OneDrain, NothingUsesTheReleased, MutexHeldOnce,
              ClosedByDestructor, StatesNumberInputs, ParkedIsNewest
<1>2. CASE HostEnter
  BY <1>2 DEF HostEnter, MutexFree, TypeOK, OneDrain, NothingUsesTheReleased,
              MutexHeldOnce, ClosedByDestructor, StatesNumberInputs, ParkedIsNewest
<1>3. CASE CancelHandler
  BY <1>3 DEF CancelHandler, TypeOK, OneDrain, NothingUsesTheReleased, MutexHeldOnce,
              ClosedByDestructor, StatesNumberInputs, ParkedIsNewest
<1>4. CASE \E replies \in BOOLEAN : HostReply(replies)
  BY <1>4 DEF HostReply, TypeOK, OneDrain, NothingUsesTheReleased, MutexHeldOnce,
              ClosedByDestructor, StatesNumberInputs, ParkedIsNewest
<1> QED BY <1>1, <1>2, <1>3, <1>4

LEMMA InvNext == IInv /\ [Next]_vars => IInv'
<1> SUFFICES ASSUME IInv, [Next]_vars PROVE IInv'
  OBVIOUS
<1>1. CASE UNCHANGED vars
  BY <1>1 DEF vars, object, queue, iokit, history, IInv, TypeOK, OneDrain,
              NothingUsesTheReleased, MutexHeldOnce, ClosedByDestructor,
              StatesNumberInputs, ParkedIsNewest
<1> QED
  BY <1>1, InputSteps, EndSteps, DrainSteps, HostSteps DEF Next, Finished

\* The strengthening every theorem below follows from.
THEOREM DeviceInvariant == Spec => []IInv
BY InvInit, InvNext, PTL DEF Spec

\* The variables keep the types the code declares.
THEOREM DeviceTypeCorrect == Spec => []TypeOK
<1>1. IInv => TypeOK
  BY DEF IInv
<1> QED BY <1>1, DeviceInvariant, PTL

\* input_send_scheduled_ is set exactly while one drain block is on its way,
\* so reports are never sent by two blocks and never left without one.
THEOREM ExactlyOneDrain == Spec => []OneDrain
<1>1. IInv => OneDrain
  BY DEF IInv
<1> QED BY <1>1, DeviceInvariant, PTL

\* After the destructor's dispatch_sync no block uses the object or the
\* device any more, and no host handler uses the controller.
THEOREM SafeRelease == Spec => []NothingUsesTheReleased
<1>1. IInv => NothingUsesTheReleased
  BY DEF IInv
<1> QED BY <1>1, DeviceInvariant, PTL

-----------------------------------------------------------------------------
(* The drain implements the latest-value register. *)

LEMMA RegisterInit == Init => Register!ValueInit
BY DEF Init, Register!ValueInit

LEMMA RegisterNext ==
  ASSUME IInv, [Next]_vars
  PROVE  [Register!Accept \/ Register!Deliver \/ Register!Shut]_(Register!valueVars)
<1> USE DEF IInv, object, queue, iokit, history, CallerStep
<1>1. CASE Offer
  BY <1>1 DEF Offer, Register!Accept
<1>2. CASE SendTaken
  <2>1. drained' \in (drained + 1)..accepted
    BY <1>2 DEF SendTaken, ParkedIsNewest, TypeOK
  <2> QED BY <1>2, <2>1 DEF SendTaken, Register!Deliver
<1>3. CASE Close
  BY <1>3 DEF Close, Register!Shut
<1>4. CASE UNCHANGED <<accepted, drained, closed>>
  BY <1>4 DEF Register!valueVars
<1>5. Offer \/ SendTaken \/ Close \/ UNCHANGED <<accepted, drained, closed>>
  BY DEF Next, vars, Finished, Input, Dispatch, Remove, SendNeutral, Replace, Destroy,
         ClearLatest, Cancel, SyncInputQueue, WaitCancelled, Release, Drain, StartDrain,
         EndDrain, TakeLatest, HostReport, HostEnter, HostReply, CancelHandler
<1> QED BY <1>1, <1>2, <1>3, <1>4, <1>5

\* What the drain hands the host is a subsequence, in order and without
\* repetition, of the reports send_latest accepted.
THEOREM ImplementsLatestValue == Spec => RegisterSpec
BY RegisterInit, RegisterNext, DeviceInvariant, PTL
DEF Spec, RegisterSpec, Register!ValueSpec

=============================================================================

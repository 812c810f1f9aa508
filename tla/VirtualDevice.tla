------------------------------ MODULE VirtualDevice ------------------------------
(***************************************************************************)
(* One published controller (MacVirtualDevice in virtual_device_macos.mm)  *)
(* with the three threads that meet in it:                                 *)
(*   - the caller, whichever thread is inside Runtime::input, remove or a  *)
(*     replacing add (main.cpp), for all of it under Runtime::mutex_;      *)
(*   - the drain, a block on the device's serial input queue, which hands  *)
(*     the latest input report to IOKit outside every lock;                *)
(*   - the host, IOKit's blocks on the serial output queue: the report     *)
(*     handler, which needs Runtime::mutex_, then the cancel handler.      *)
(* A report is the number of the controller state it encodes: the profile  *)
(* keeps the last state it encoded (last_state_), and a subcommand reply   *)
(* is that state encoded again (switch_pro_profile.cpp).                   *)
(* IOKit and Grand Central Dispatch are external: serial queues run their  *)
(* blocks one at a time in order, no report block starts after a cancel,   *)
(* and the cancel handler runs after the block under way.  Whether IOKit   *)
(* takes a report is left out: only a log line depends on it.              *)
(***************************************************************************)
EXTENDS Integers

CONSTANT MaxInputs   \* bound: input reports the source sends

ASSUME InputsAssumption == MaxInputs \in Nat

NoReport == -1       \* latest_input_report_.empty()

VARIABLES
  caller,     \* what the thread holding Runtime::mutex_ does next
  current,    \* the profile's last_state_
  closed,     \* closed_
  latest,     \* latest_input_report_
  scheduled,  \* input_send_scheduled_
  jobs,       \* drain blocks waiting in input_queue_
  drain,      \* what the running drain block does next, idle without one
  taken,      \* the report it swapped out
  host,       \* what the block on the output queue does next
  cancelling, \* IOHIDUserDeviceCancel was called
  signalled,  \* the cancelled_ semaphore
  accepted,   \* history: input reports send_latest accepted
  drained,    \* history: the last report the drain handed to IOKit
  shown       \* history: the last controller state IOKit was handed

object == <<closed, latest, scheduled>>
queue == <<jobs, drain, taken>>
iokit == <<host, cancelling, signalled>>
history == <<accepted, drained, shown>>
vars == <<caller, current, object, queue, iokit, history>>

\* Runtime::mutex_: held by the caller throughout, by the host's handler
\* while it is inside.
MutexFree == caller \in {"idle", "gone"} /\ host # "inside"

CallerStep(from, to) == caller = from /\ caller' = to

-----------------------------------------------------------------------------
(* The caller: an input report *)

\* Runtime::input, raw_input: lock, encode.
Input ==
  /\ CallerStep("idle", "offer") /\ MutexFree
  /\ accepted < MaxInputs
  /\ current' = current + 1
  /\ UNCHANGED <<object, queue, iokit, history>>

\* Mutant: every report dispatches a drain block of its own.
EveryReportDispatches == TRUE

\* A block already scheduled will find the report.
DispatchNeeded == ~scheduled

\* send_latest, its critical section.
Offer ==
  /\ CallerStep("offer", IF DispatchNeeded THEN "dispatch" ELSE "idle")
  /\ ~closed
  /\ latest' = current
  /\ scheduled' = TRUE
  /\ accepted' = accepted + 1
  /\ UNCHANGED <<current, closed, queue, iokit, drained, shown>>

\* dispatch_async, after the critical section.
Dispatch ==
  /\ CallerStep("dispatch", "idle")
  /\ jobs' = jobs + 1
  /\ UNCHANGED <<current, object, drain, taken, iokit, history>>

-----------------------------------------------------------------------------
(* The caller: the end of the device *)

\* Runtime::remove and rebuild_controller: the neutral state is encoded ...
Remove ==
  /\ CallerStep("idle", "neutral") /\ MutexFree
  /\ current' = current + 1
  /\ UNCHANGED <<object, queue, iokit, history>>

\* ... and sent past the queue, then the device is destroyed.
SendNeutral ==
  /\ CallerStep("neutral", "close")
  /\ shown' = current
  /\ UNCHANGED <<current, object, queue, iokit, accepted, drained>>

\* A second add of the id, or the removal of a transparent device.
Replace ==
  /\ CallerStep("idle", "close") /\ MutexFree
  /\ UNCHANGED <<current, object, queue, iokit, history>>

\* The destructor.
Close ==
  /\ CallerStep("close", "clear")
  /\ closed' = TRUE
  /\ UNCHANGED <<current, latest, scheduled, queue, iokit, history>>

ClearLatest ==
  /\ CallerStep("clear", "cancel")
  /\ latest' = NoReport
  /\ UNCHANGED <<current, closed, scheduled, queue, iokit, history>>

Cancel ==
  /\ CallerStep("cancel", "sync")
  /\ cancelling' = TRUE
  /\ UNCHANGED <<current, object, queue, host, signalled, history>>

\* Mutant: the destructor goes on while blocks are queued or running.
InputQueueIgnored == TRUE

\* An empty block given to dispatch_sync runs after every block before it.
InputQueueDone == jobs = 0 /\ drain = "idle"

SyncInputQueue ==
  /\ CallerStep("sync", "wait") /\ InputQueueDone
  /\ UNCHANGED <<current, object, queue, iokit, history>>

\* Mutant: DISPATCH_TIME_FOREVER for the two seconds.
WaitForever ==
  /\ CallerStep("wait", "release") /\ signalled
  /\ UNCHANGED <<current, object, queue, iokit, history>>

\* dispatch_semaphore_wait: signalled or two seconds over, nobody asks which.
WaitCancelled ==
  /\ CallerStep("wait", "release")
  /\ UNCHANGED <<current, object, queue, iokit, history>>

\* CFRelease; the object is freed and the mutex let go.
Release ==
  /\ CallerStep("release", "gone")
  /\ UNCHANGED <<current, object, queue, iokit, history>>

Destroy == Close \/ ClearLatest \/ Cancel \/ SyncInputQueue \/ WaitCancelled \/ Release

-----------------------------------------------------------------------------
(* The drain: drain_latest_input_reports as a block of the input queue *)

StartDrain ==
  /\ jobs > 0 /\ drain = "idle"
  /\ jobs' = jobs - 1
  /\ drain' = "check"
  /\ UNCHANGED <<caller, current, object, taken, iokit, history>>

\* Mutant: the block ends and leaves the flag set.
EndDrainForgetsFlag ==
  /\ drain = "check" /\ (closed \/ latest = NoReport)
  /\ drain' = "idle"
  /\ UNCHANGED <<caller, current, object, jobs, taken, iokit, history>>

EndDrain ==
  /\ drain = "check" /\ (closed \/ latest = NoReport)
  /\ drain' = "idle"
  /\ scheduled' = FALSE
  /\ UNCHANGED <<caller, current, closed, latest, jobs, taken, iokit, history>>

\* Mutant: the block encodes the controller's state anew.
TakeCurrent ==
  /\ drain = "check" /\ ~closed /\ latest # NoReport
  /\ drain' = "send"
  /\ taken' = current /\ latest' = NoReport
  /\ UNCHANGED <<caller, current, closed, scheduled, jobs, iokit, history>>

TakeLatest ==
  /\ drain = "check" /\ ~closed /\ latest # NoReport
  /\ drain' = "send"
  /\ taken' = latest /\ latest' = NoReport
  /\ UNCHANGED <<caller, current, closed, scheduled, jobs, iokit, history>>

\* Mutant: the member is sent, which the caller may have refilled or cleared.
SendLatestUnlocked ==
  /\ drain = "send"
  /\ drain' = "check"
  /\ shown' = latest /\ drained' = latest
  /\ UNCHANGED <<caller, current, object, jobs, taken, iokit, accepted>>

\* send_now, with no lock held.
SendTaken ==
  /\ drain = "send"
  /\ drain' = "check"
  /\ shown' = taken /\ drained' = taken
  /\ UNCHANGED <<caller, current, object, jobs, taken, iokit, accepted>>

Drain == StartDrain \/ EndDrain \/ TakeLatest \/ SendTaken

-----------------------------------------------------------------------------
(* The host *)

\* The set-report or get-report block starts; its handler needs the mutex.
HostReport ==
  /\ host = "idle" /\ ~cancelling
  /\ host' = "entering"
  /\ UNCHANGED <<caller, current, object, queue, cancelling, signalled, history>>

\* The handler looks its controller up, and returns at once without one.
HostEnter ==
  /\ host = "entering" /\ MutexFree
  /\ host' = IF caller = "gone" THEN "idle" ELSE "inside"
  /\ UNCHANGED <<caller, current, object, queue, cancelling, signalled, history>>

\* handle_host_report and get_host_report: a reply, if there is one, is the
\* last state encoded again and sent past the queue.
HostReply(replies) ==
  /\ host = "inside"
  /\ host' = "idle"
  /\ shown' = IF replies THEN current ELSE shown
  /\ UNCHANGED <<caller, current, object, queue, cancelling, signalled, accepted, drained>>

CancelHandler ==
  /\ cancelling /\ host = "idle" /\ ~signalled
  /\ signalled' = TRUE
  /\ UNCHANGED <<caller, current, object, queue, host, cancelling, history>>

-----------------------------------------------------------------------------

\* create_raw returned a device and the profile holds the neutral state.
Init ==
  /\ caller = "idle" /\ host = "idle" /\ drain = "idle"
  /\ current = 0 /\ accepted = 0 /\ drained = 0 /\ shown = 0
  /\ closed = FALSE /\ scheduled = FALSE /\ cancelling = FALSE /\ signalled = FALSE
  /\ latest = NoReport /\ taken = NoReport
  /\ jobs = 0

\* The device is gone and no block is left on its queues.
Finished ==
  /\ caller = "gone" /\ host = "idle" /\ signalled
  /\ UNCHANGED vars

Next ==
  \/ Input \/ Offer \/ Dispatch
  \/ Remove \/ SendNeutral \/ Replace \/ Destroy
  \/ Drain
  \/ HostReport \/ HostEnter \/ (\E replies \in BOOLEAN : HostReply(replies))
  \/ CancelHandler
  \/ Finished

Spec == Init /\ [][Next]_vars

\* A thread inside a call goes on, a block that was queued runs, a handler
\* that has the mutex returns.  Nobody has to call, and a handler waiting
\* for the mutex need not be the next to get it.
Fairness ==
  /\ WF_vars(Offer \/ Dispatch \/ SendNeutral \/ Destroy)
  /\ WF_vars(Drain)
  /\ WF_vars(\E replies \in BOOLEAN : HostReply(replies))
  /\ WF_vars(CancelHandler)

FairSpec == Spec /\ Fairness

-----------------------------------------------------------------------------
(* Properties *)

Destroying == {"close", "clear", "cancel", "sync", "wait", "release"}

\* The values the variables take.
TypeOK ==
  /\ caller \in {"idle", "offer", "dispatch", "neutral", "gone"} \cup Destroying
  /\ drain \in {"idle", "check", "send"}
  /\ host \in {"idle", "entering", "inside"}
  /\ closed \in BOOLEAN /\ scheduled \in BOOLEAN
  /\ cancelling \in BOOLEAN /\ signalled \in BOOLEAN
  /\ current \in Nat /\ jobs \in Nat
  /\ latest \in Nat \cup {NoReport} /\ taken \in Nat \cup {NoReport}
  /\ accepted \in Nat /\ drained \in Nat /\ shown \in Nat

\* input_send_scheduled_ is set exactly while one drain block is about to be
\* dispatched, waits or runs: never two, which could send out of order, and
\* never none, which would strand every report from then on.
OneDrain ==
  (IF scheduled THEN 1 ELSE 0)
    = jobs + (IF drain = "idle" THEN 0 ELSE 1) + (IF caller = "dispatch" THEN 1 ELSE 0)

\* Once the destructor is past dispatch_sync no drain block is left that
\* could touch the object or the released device, and no host handler is
\* using the controller it belonged to.
NothingUsesTheReleased ==
  caller \in {"wait", "release", "gone"} =>
    jobs = 0 /\ drain = "idle" /\ host # "inside"

\* What the drain shows the host implements the latest-value register.
Register == INSTANCE LatestValue WITH
  accepted <- accepted, delivered <- drained, open <- ~closed

\* Of the reports send_latest accepted the drain hands IOKit some, each at
\* most once and in order, although the sends happen outside the lock.
RegisterSpec == Register!ValueSpec

\* No accepted report is forgotten: it, or a newer one, is handed to IOKit
\* unless the device is destroyed first.
LatestIsShown ==
  \A n \in 1..MaxInputs : (accepted >= n) ~> (drained >= n \/ closed)

\* A destructor that was entered returns, even when the cancel handler it
\* waits for is queued behind a report handler that waits for the mutex the
\* destructor's caller holds.
DestructionEnds == (caller \in Destroying) ~> (caller = "gone")

\* docs/protocol.md: input reports are latest-value-wins.  Whatever path a
\* report takes, the host is not shown an older state after a newer one.
LatestValueWins == [][shown' >= shown]_vars

=============================================================================

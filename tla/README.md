# A formal model of virtual-hid-bridge

vhid-bridge takes game controllers from UDP sources and from IOKit, and
publishes each as a virtual macOS HID device. The modules here model the parts
of it where threads, sessions, timers and failures meet, check them with TLC on
small instances, and prove the central invariants with TLAPS for every size.

## Inventory

| Component | State | Operations | Talks to |
|---|---|---|---|
| UDP sessions (`src/main.cpp`) | `UdpSession` per endpoint: id, active/open flags, four timestamps, device list; the id counter | one datagram per loop round, a service pass over all sessions | Runtime (calls), peers (datagrams) |
| Runtime (`src/main.cpp`) | `controllers_`, profile setting, `mutex_`, output sequence | add, remove, input, raw input, profile change, host output, get report | sessions, IOKit thread, virtual devices (owns them, called back by them) |
| Virtual device (`virtual_device_macos.mm`) | latest report, scheduled and closed flags, two serial queues, a semaphore | send, send_latest, drain, destroy, report and cancel handlers | IOKit, Runtime |
| Physical source (`physical_hid_source_macos.mm`) | device table, per-device element values and sequence | matching, removal and value callbacks on its own queue | Runtime |
| Profiles (`switch_pro`, `switch2_pro`, `generic_hid`) | last input state, handshake and vibration state | encode, decode output, host commands | Runtime |
| Source codecs, mapping | none, or a descriptor | decode a report, apply the calibration | Runtime |
| Haptics (`haptics.cpp`) | none | rumble packets of two formats, to frequencies and amplitudes and back | profiles, output codecs |
| Wire protocol (`wire.h`, `protocol.h`, `protocol.cpp`) | the sequence counter of a sender | write and parse datagrams, in C helpers and C++ | sessions, other programs |
| Demo sender (`examples/send_demo.py`) | a session, a sequence counter | open, add, report, remove, close | the bridge, by UDP |
| UI (`ui_app.mm`) | the bridge task, its output buffer, the device table | start, stop, parse a line | the bridge process |
| Probe (`haptics_probe.cpp`) | none | diagnostics | - |

### What is hard, and what makes each part correct

- **Sessions.** Any endpoint may send anything at any time, sessions end by
  close, timeout, replacement or at the peer's will, and adds fail half way.
  Correct means: session mappings and Runtime's table agree; nothing outlives
  its session; ids have one owner and are never reused; the configured source
  is asked again after it went silent.
- **Virtual device.** Three threads meet in one object, one of them outside
  every lock, and the destructor waits for the other two while holding a mutex
  one of them wants. Correct means: one drain at a time, in-order delivery, no
  accepted report stranded, nothing running after the free, the destructor
  returns.
- **Runtime.** Handlers find controllers by id after waiting for the mutex;
  profile changes can fail half way; reports leave after the unlock; the
  process ends with handlers still running. Correct means: a report is encoded
  by the profile of the device it is sent on, native bytes are forwarded only
  to a source of that protocol, no virtual device is leaked.
- **Physical source.** Callbacks in any order, ids folded from 64 to 31 bits,
  devices that vanish while being read.
- **Profiles.** Command handshakes whose replies depend on earlier commands.
- **Peers and network.** Datagrams are lost, delayed and duplicated, and a
  program starts again at the same address with a new count. Correct means: who
  keeps its side is kept, who is gone leaves nothing behind, and the configured
  source gets its session back.
- **Pure parts.** Boundaries of lengths, bit offsets, calibration and rounding;
  formats that are written down twice; conversions that are applied many times
  over, when a controller reaches its host through several bridges.

`PROJECT.json` lists every component, and every hazard at its line with the
properties that cover it or the reason none does. Those without one are
a data race at the end of `main`, handlers that outlive their device, physical ids
that fold to one, and the loop's real time; notes say where a property stops short.

## Modules

### `UdpSessions`, `DeviceRegistry`

`session` is the array of `UdpSession` objects, one per endpoint; `controllers`
is `Runtime::controllers_` as the sessions see it: who a controller sends its
output to, the session it was added in, and the sequence filter. `phase`
alternates as the loop of `main` does, between one `Consume` (`consume_udp`: one
disjunct per message type) and one `Service` (`service_udp_session` for every
session: `OpenDue`, `TimedOut`, `PingDue` in the code's order). `Tick` lets time
pass: the code compares ages of timestamps with three limits, so a timestamp is
its age, counted up to the longest limit. `Physical` is the IOKit thread, which
acts between any two steps. Any datagram may come from any endpoint at any time,
which includes every loss, delay, duplicate and forgery.

`DeviceRegistry` is the abstract specification: ids are reserved, owned,
released and never reused. `UdpSessions` implements it (`RegistrySpec`).

### `SessionNetwork`

`UdpSessions` with the programs at the other end and the network in between. A
datagram arrives because someone sent it: `wire` holds those under way, `peer`
what each program is doing. A joining peer follows `examples/send_demo.py`
(`PeerOpens` to `PeerCloses`); the configured source is not in the repository
and does what docs/protocol.md asks of it (`Answers`). `NetworkFault` loses,
delays or duplicates a datagram, and either peer may vanish and start again at
the same address. The steps of the bridge are those of `UdpSessions`, to which
`Received` and `Ignored` give the datagram and take the answer;
`SessionNetworkProofs` proves that it remains a behaviour of `UdpSessions`.

### `VirtualDevice`, `LatestValue`

One `MacVirtualDevice` and the three threads in it. `caller` is the program
counter of whoever is inside `Runtime::input`, `remove` or a replacing add, with
`mutex_` held; `drain` is that of the block on `input_queue_`; `host` that of the
blocks on the output queue. `Offer`, `Dispatch`, `TakeLatest`, `SendTaken` and
`EndDrain` are the critical sections of `send_latest` and
`drain_latest_input_reports`; `Close` to `Release` are the destructor's. A report
is the number of the controller state it encodes. `LatestValue` is a register a
reader samples: what it sees is an ordered subsequence of what was written.

### `Runtime`

`controllers` maps ids to a profile and a device; `device` holds every virtual
device ever published, with the state of the one handler on its queue. An
operation (`Add`, `Remove`, `SetAll`, `SetOne`) holds the mutex over several
steps: `Pick`, `Create` or `CreateFails`, `Cancel`, `Free`; handlers
(`HostWrites`, `Lookup`, `DrawSequence`, `SendToSource`) run in between wherever
the code holds no lock. `WaitOver` is the two-second wait of the destructor,
which may expire.

### `SwitchProProfile`

The profile object behind the mutex, with what the host knows: `host` records
what it wrote and read, so that properties compare the two. `Write` is the whole
`raw_output_handler` for one packet: `Forward` (decode for the source, at most
two attempts), then `Handle` (`handle_host_report`). Packets are sequences in
which eight rumble bytes are `RumbleLength` elements (a constant: two in the
runs, any number above none in the proofs); a flash address is one element; positions, offsets and lengths are those of the code up to that.

### `SwitchReports`, `SwitchChain`

`SwitchReports` holds the pure part of the input reports: the button tables,
hats, sticks and battery nibble of the two Switch profiles (`EncodeSwitch`,
`EncodeSwitch2`), the two Switch codecs (`DecodeSwitch`, `DecodeSwitch2`), and
`Mapped`, the identity mapping between them. Integer formulas stand for the
`double` arithmetic of sticks, which is exact enough to agree on all 65536 and
4096 inputs; `Mapped` is what the `float` arithmetic of
`apply_axis_calibration` yields with its default calibration: the value itself
from -16416 up, one more below. `SwitchChain` sends the report of a controller
through a chain of bridges; `Hop` is `Runtime::raw_input` of one of them.

### `RumbleChain`

`SwitchChain` with the way back. `HostRumbles` writes a packet to the last
bridge; `PassesBack` is `raw_output_handler` of one bridge, which forwards the
packet as it is (`Native`) or decodes it by the profile and encodes it for the
source (`Translated`). An amplitude of a Switch Pro is the index of its entry in
`kSwitchAmplitudes`, as the bytes of the table are a function of the index.
Logarithm and power are replaced by a table of the 64 roots of two in fixed
point and comparisons with it; no rounding in the code's range is close enough
to a half for that to matter. What a host may write (`Rumbles`) is assumed only to
fit the bits of a packet (`IsPacket`).

### `WireProtocol`

One sender that asks for messages (`Requests`), which the C helpers (offset by
offset, as in `wire.h`) or the C++ functions (struct by struct, as in
`protocol.h`) write, byte by byte; another program may change, cut or lengthen
the datagram; `ParseMessage`, `ParseHidDeviceAdd` and `ParseHidReport` are the
functions of `protocol.cpp`, `Reads` what `consume_udp` takes from the payload.
A message is a record of the arguments its helper or function takes
(`SessionMessages` to `StateMessages`): numbers of their width, arrays of theirs,
a descriptor and texts of any length, with what the code refuses left to
`Accepted` and `Fits`.

### `SourceDescriptor`, `GenericHidProfile`

`SourceDescriptor` is the generic codec: `Parse` consumes one item of a
descriptor (`DescriptorBuilder::parse`), `Finish` builds the codec, `Receive`
decodes one report (`DescriptorSourceCodec::decode_input`). Reports are
sequences of bits. `GenericHidProfile` extends it: it builds the descriptor and
report of a description and lets that parser and decoder read them back
(`Publish`, `Send`), or, with `NoProfile`, has the parser read the descriptors of
other devices (`Foreign`). One run does both.

### `PhysicalHidSource`

`devices` is `devices_`, `controllers` the physical part of
`Runtime::controllers_`, `callback` the handler the IOKit queue is about to
call: a callback changes the first table, its handler, which may wait for the
mutex, the second. `Rebuild` is a profile change from main in between, `Start`
and `Reset` to `Free` the life of the object. `std::sort` leaves elements of one
usage in any order; their `position` stands for whichever it chose. When the destructor's wait expires
with a callback in progress, two threads are in the object and the model ends
(`raced`).

### Proof modules

`SessionNetworkProofs` (about `UdpSessions` and `SessionNetwork`),
`VirtualDeviceProofs`, `RuntimeProofs`, `PhysicalHidSourceProofs`,
`SwitchProProofs`, `SwitchChainProofs`, `SourceDescriptorProofs` and
`WireProtocolProofs`, each about the module it is named for. Modules with theorems
declare no RECURSIVE operator and reach none.

## Runs

| Run | Bounds | What it shows |
|---|---|---|
| `udp_sessions` | 2 endpoints, 1 source id each, 2 session ids, 2 network ids, 1 physical id; ping after 1 tick, timeout after 2; sequences modulo 3 | `ControllersAreOwned`, `ControllersBelongToTheirSession`, `SessionsLeavePhysicalAlone`, `RegistrySpec` |
| `session_network` | one endpoint, a joining peer or the configured source; keepalive and retry after 1 tick, timeout after 3; 2 starts of the peer, 1 report in each, 2 faults; sequences modulo 64 | `PromptPeersAreKept`, `PeersAreInStep`, `FreshReportsPass`, and under fairness `GonePeersLoseControllers`, `SourceIsReopened` |
| `virtual_device` | 4 input reports | `OneDrain`, `NothingUsesTheReleased`, `RegisterSpec`, and under fairness `LatestIsShown`, `DestructionEnds` |
| `virtual_device_order` | 1 input report | finding: a neutral report is overtaken by an older input report |
| `runtime` | 2 ids, 2 profiles, 4 devices, 1 output report | `EncoderFitsDevice`, `DevicesAreControllers`, `RemovedIsSilent`, `ProfileChangeReachesAll` |
| `switch_pro` | counters 0 and 12, rumble of 2 bytes, 2 flash reads, timer modulo 2 | `HostPacketsAreRead`, `RepliesAnswer`, `SticksMatchCalibration` |
| `switch_pro_unframed` | counter 1 | finding: a packet without its id is taken for one with it |
| `switch_chain` | every stick position, every single button bit and pair of directions, every battery nibble, 4 bridges; every level and frequency of a Switch Pro rumble, every amplitude and frequency of a Switch 2's | `ButtonsSurvive`, `SticksSurvive`, `RumbleSurvives`, `ChainSettles` |
| `source_descriptor` | descriptors of 2 or 3 blocks of 9 kinds at 4 placements, fields of at most 3 bits, 4 reports; generic controllers of up to 6 buttons, 2 hats and 2 axes, with bytes of 4 bits and axes of 3 | `FieldsAreDisjoint`, `StateIsLatest`, `StateIsDeclared`, `DescriptorIsComplete`, `ReportShowsState` |
| `generic_profile_range` | one axis of another range | finding: the reader sees other values |
| `wire` | 25 messages: every type, descriptions `parse_message` has to refuse, two-byte sizes, texts and datagrams of the greatest length and one more; foreign bytes 0, 16 and 49 at any place; 2 datagrams of a sender | `WhatIsSentIsRead`, `PayloadIsReadOnce` |
| `physical_source` | a pad, a wheel and a virtual device, 6 elements, raw values 0 and 2, sequences modulo 3 | `RetainsMatchBindings`, `ControllersFollowDevices`, `ShownIsCurrent`, `StateShowsElements`, `NothingRunsAfterFree` |

Every run checks for deadlock but `wire`, whose sender ends after two
datagrams. Where a system stops for good the model says so
with a stuttering action: `Finished` (the device is freed), `Done` and `Refused`
(no codec could be built), `Ended` (the process), `Arrived` (the last bridge).
Each property of a passing run has a mutant, a variant of one definition of the
code such as a forgotten reset or an unlocked step, with which TLC finds it
violated.

### Why the bounds are enough

- *UDP sessions.* Sessions interact only through the id counter and the
  controllers they own, so two endpoints show every conflict between two owners;
  one device each makes a replaced session, a second add and a failed add meet
  the same mapping. Two session ids let a session be reopened under another id
  and go back to the first. With a timeout of two ticks a ping falls due before
  it, and a session may be a tick short of either limit.
- *Session network.* Endpoints share only the id counter, which `udp_sessions`
  explores with two of them, so one peer is enough here. A timeout of three
  keepalives leaves room for two pings, so losing one must not matter and losing
  two may; two faults are enough for both. Two starts let every datagram of the
  first program meet the session of the second. A report of the first program
  that is delayed until the second runs is left out (`StaleReports`): see the
  observations below.
- *Virtual device.* Four reports: one on its way, one parked, one replacing it,
  one after the drain has ended.
- *Runtime.* Four devices publish both controllers and replace each once, or one
  three times; the order finding needs a second report.
- *Switch Pro.* The profile treats a packet alike whatever its rumble bytes are;
  two counters tell an echo from a stale one, and 12 is no report id. The two
  flash reads cover the gap, the overlap and the end of both regions, and more
  than a reply holds.
- *Switch chain.* All stick values are enumerated. Each bit is translated on its
  own but for the hat, which is what the pairs of directions are for. A stick may
  lose a step at every bridge; four are enough to see that two do not add up to
  more, and the proof covers the rest.
- *Rumble.* The bands of a motor, and the motors, are translated independently,
  so that one packet carries a frequency and an amplitude of each band, and 128
  and 1024 packets carry all of them, paired in one way of many. What the first
  translation has snapped to a table the next ones leave on it: four bridges
  translate four times at most.
- *Wire.* Layouts do not depend on values, so that values whose bytes all differ
  show every exchange of two. Numbers wider than 31 bits are left out.
- *Descriptors.* A block is one Input item with its globals and locals; two fix
  the order of two fields, the third separates them by padding or another report.
  Narrow fields and a small `Word` make wrapping and refusal as likely as in the
  code they are rare.
- *Physical source.* Two devices of different kinds, one of them matched twice,
  and one that is not to be taken. Three sequence numbers make the counter wrap.

### Fairness

`virtual_device` and `session_network` state liveness.

*Virtual device.* A thread inside a call goes on
(`Offer`, `Dispatch`, `SendNeutral`, `Destroy`): the code between two steps does
not block except in the destructor, whose waits are guards of the model. Grand
Central Dispatch runs a queued block (`Drain`, `CancelHandler`), and a handler
that has the mutex returns (`HostReply`). A handler that waits for the mutex has
no fairness: `std::mutex` promises none. `DestructionEnds` holds without it
because the wait for the cancel handler ends after two seconds.

*Session network.* The loop of `main` never stops going round (`BridgeStep`:
`select` returns after 100 ms at the latest). A datagram that the network has not
lost or delayed arrives (`PeerReceives`), which says no more than that faults are
counted. A peer that has a step to take and does not vanish takes it (`PeerDue`);
vanishing, starting again and what a peer merely may do have no fairness. Time
passes (`NetworkTick`) when nothing is due, because a tick is long beside a round
of the loop. Nothing makes a delayed datagram arrive: the properties hold whether
it does or not.

## Proofs

| Theorem | States |
|---|---|
| `SessionNetworkProofs!Ownership`, `SessionScope`, `PhysicalSafe` | the three session properties, for all endpoints, ids and limits |
| `SessionNetworkProofs!ImplementsRegistry` | `Spec => RegistrySpec` |
| `SessionNetworkProofs!NetworkImplementsSessions`, `NetworkOwnership` | `NetworkSafety => Spec`, and with it `ControllersAreOwned`, whatever the peers do and the network breaks |
| `SessionNetworkProofs!PeersStayInStep`, `FreshReportsAreTaken`, `PromptPeersSurvive` | the three safety properties of peers and bridge together, for any peers, starts, reports and faults, under the hypotheses on times and sequences below |
| `VirtualDeviceProofs!ExactlyOneDrain`, `SafeRelease`, `ImplementsLatestValue` | the safety of one device, for any number of reports |
| `RuntimeProofs!EncoderSafe`, `NoLeak`, `RemovalSilences`, `ProfileChangeComplete` | the four Runtime properties, for any ids, profiles, devices and reports |
| `PhysicalHidSourceProofs!RetainsAreMatched`, `TablesAgree`, `ValuesArriveInOrder`, `ElementsKeepTheirPlaces`, `FreedWhenQuiet` | the five properties of the physical source, for any devices, elements, values and sequence modulus |
| `SwitchProProofs!PacketsAreReadAsMeant`, `LastReplyAnswers`, `SticksStayInCalibration` | the three properties of the Switch Pro profile, for any counters, rumbles, flash reads and axes, if the host's reports can be told apart (`Framed`) |
| `SwitchChainProofs!SticksStayClose`, `ButtonsComeThrough`, `ReportsSettle` | `SticksSurvive`, `ButtonsSurvive` and the action property `ChainSettles`, for any pads and any length of chain |
| `SwitchChainProofs!RumbleArrives` | `RumbleSurvives`, for any packet and any chain of the two protocols |
| `SourceDescriptorProofs!FieldsDoNotOverlap`, `StateStaysDeclared`, `StateStaysLatest` | the three properties of the generic codec, for descriptors of any length and items, any reports and limits |
| `WireProtocolProofs!WhatIsSentIsReadAlways`, `PayloadIsReadOnceAlways` | the two properties of the wire, for any messages and any bytes of other programs |
| `WireProtocolProofs!SidesAgreeAlways` | the C helper and the C++ function of a message write the same datagram or both refuse it |

each beside its module's type correctness. The assumptions are those the modules
name: ids of network and physical controllers do not overlap, limits are
ordered, the marker values are no members of the sets.

- *UDP sessions.* `IInv` adds to the types and the two table invariants that
  every id in use was handed out. Without that an add could reserve an id that
  some session still maps, and `ControllersAreOwned` would not be inductive.
- *Session network.* The step simulation needs to know that datagrams are well
  formed (`NetworkTypeOK`: a `session_open` names a session, sequences are in
  range), which is proved with it, one lemma per group of actions. Every step of
  the network is then a step of `UdpSessions` or leaves `vars` alone, and the
  invariants of `UdpSessions` carry over without another proof.

  What peers and bridge know of each other is proved endpoint by endpoint: `Slices`
  says which steps touch the part of the state an endpoint has (its `peer`, its
  `session`, its `Mail`), and one lemma for each kind of step what they do to it.
  `CountsUp` is common to all: session ids count up with the starts of the
  program, so an id from before names no session of now.

  `PeersStayInStep` takes `InTouch`: without a fault one datagram at a time is on
  its way to the bridge, and stage by stage of the program the bridge has the
  session, and the controller unless the add is still to arrive; it has heard of
  the peer within a tick. Hypothesis: the timeout is longer than a keepalive
  interval, or that tick would be the timeout (the code's are 15 s and 5 s).

  Its clause on peers that are gone takes `Left`: without a fault what a peer sent arrives before
  time passes, so that the bridge has not heard of a peer that is down for at least
  as long as it has been down (`waited`, which counts that as history up to one tick
  past the timeout), and what the bridge has not heard for the timeout it ends before
  the next tick.

  `FreshReportsAreTaken` takes `Paced`, which bounds a program's counter by what it
  may have sent, and `Ahead`: the filter of a controller in the program's own
  session, and every report on its way, are behind that counter. Hypotheses: no
  report outlives its program (`~StaleReports`; with one that does the property is
  false, see the findings), and fewer datagrams per program than half the ring of
  sequences, which is 2^32 in the code.

  `PromptPeersSurvive` takes `KeptInv`. A joining peer reports once a tick, so it has
  been silent for as many ticks as the network had faults, and one more
  (`Noticed`). The configured source may have nothing to say: for it `Pinged` says
  that the bridge pings at the end of each keepalive interval, and `Answered` that
  up to one fault it has been silent for one interval more than there were faults.
  Hypothesis: the timeout is shorter than four keepalive intervals; the code's is
  three. Beyond that the property is false, as TLC shows for four: a source that
  starts again hears a late `session_open` when the session it does not know of
  has almost timed out, and loses it with two faults in all.
- *Virtual device.* `IInv` counts drain blocks against the flag (`OneDrain`), lets
  one of caller and host hold the mutex, ties `closed` to the destructor's
  program counter, and orders the numbers of the states parked, taken and shown:
  the parked report is newer than the one the drain holds, which is what the
  implementation of `LatestValue` rests on.
- *Runtime.* `IInv` has one part for each structure: a controller's device is
  live, has its id and profile (`TableInv`); a live device belongs to a
  controller or is about to be destroyed (`DeviceInv`, `DoomedInv`); what a
  profile change has passed has the new profile (`RebuildInv`, `ReachedInv`); the
  handlers that have yet to draw a number are no more than the reports without
  one, which bounds the sequence (`NumberInv`, by the cardinality of a set of
  handlers).
- *Physical source.* `IInv` says what a callback holds while it waits for the
  mutex: its device is the table's, and of a value the sequence and the state are
  those the table has now (`CallbackInv`). `Told` is what Runtime has been told of,
  which is the table but for the device of a callback in progress; Runtime has
  controllers for these and no others, failed publications apart (`TablesInv`).
  Source and filter count alike but for the one value on its way
  (`SequenceInv`), which is why a modulus above two suffices. Besides, no value
  outlives its device (`LastInv`), or a device plugged in again would show what it
  showed before. That elements never share a place is counting: the index of an
  element is the number of elements of its kind before it (`Cardinality` of a
  set that grows strictly).
- *Switch Pro.* `IInv` adds to two of the properties that the player lights of
  profile and host agree and that whatever the host has learned of the flash is
  what `FlashByte` says (`HostInv`); `SticksMatchCalibration` follows from that and
  from the bounds of `Scaled`. The work is in the packets: where `SubSeq` and
  `Tail` find counter, rumble, subcommand and arguments in a packet of any length
  of rumble, with its id in front and without. `Framed` is the hypothesis that no
  subcommand is handed over without its id by a host that counts to 1, without
  which the properties do not hold (that is the finding of
  `switch_pro_unframed`), and that USB commands keep theirs, as the profile would
  read commands 2 to 5 as rumble. The constants of the run satisfy it.
- *Switch chain.* The invariant behind `SticksStayClose` says whose report is
  read next (`Origin`) besides how far each stick is from the pad's. Its step is
  arithmetic on one axis: six times a normalized axis is 128 times the stick's
  distance from the center but for the rounding (`AxisDistance`), an axis off by
  one, as the mapping or the mirroring leaves it, costs a step at most
  (`PassedOn`), so one bridge shows at most a step less (`OneBridge`,
  `OneMirror`), and steps add up (`NearAgain`). For the buttons, each bit table
  of a profile is the inverse of the table of the codec that reads it
  (`TablesMatch`), and a hat says again which directions made it, opposite ones
  cancelled. `ReportsSettle` rests on an invariant of its own: behind a Switch Pro
  profile the distance of a stick above the center is never a multiple of three
  and one more (`ThirdsArePassed`), and such a distance passes the next bridge
  unchanged. TLC checks chains of four; the proofs cover chains of any length and
  any pads.
- *Rumble.* An error at every translation would add up, so `RumbleInv` says more of
  a packet on its way than how far it is off. After the first translation each band
  is where the next ones leave it (`Carried`): its amplitude is a level of the table,
  or what a Switch 2 makes of one; its frequency is that of a code which comes back
  from a Switch 2 as itself (`CodeReadAgain`). Above the seventh level a level comes
  back, too; below, where levels are closer than a step of the Switch 2, it may fall,
  but never to silence nor out of its group (`LevelAgain`), and `StaysStrong` bounds
  by group what the host can have meant. Two levels twenty thousandths apart are the
  worst case for a Switch 2's amplitude between them (`WideSteps`, `FirstStrong2`). The
  tables enter by their neighbors: each amplitude is larger than the one before
  (`LevelSteps`), each half code 1.0109 times the one before (`RootSteps`); that a
  table rising at every step rises is `StepsRise`, and the nearest level exists by a
  least element (`NearestIsNearest`). So the code nearest to a frequency is within a
  fiftieth of it (`NearHz`), but for the ends of the bands and eight low codes, where
  the slack is one hertz and the numbers themselves decide (`LowRoots`, `HighRoots`).
  Assumed is only that packets are packets (`RumblesAssumption`).
- *Source descriptor.* `Parsed` says that the fields of a report stand one behind
  the other and end at its entry in `offsets` (`Layout`; void once a product
  wrapped), and that the description counts the control of every field
  (`Declared`). `Layout` is what one needs beside `FieldsAreDisjoint`: without the
  ends an item could write over the one before. An Input item runs a loop over its
  usages, so the argument has a second invariant inside the step: after `k` usages
  the fields end at `EndsAt(k)` (`OneMore`). The decoder's loop has another: after
  `k` fields a control shows the last of them that names it (`VariablesShow`).
  Both loops are `FoldLeft`s, whose value is a function the library's definition
  chooses; `FoldExists` shows that there is one, by an induction that uses a least
  element instead of an induction rule (`Smallest`, `UpTo`), because the rule takes
  an operator as its parameter. What bits a number is read from (`ReadBits`) and
  how it is scaled play no part: the theorems hold for whatever `FieldShows` says.
- *Wire protocol.* `WireInv` is small, because a datagram carries all there is to
  know: what arrived is bytes, and what arrived unchanged is read back. The work is
  in `MadeIsRead`. `PackCarries` shows for any struct that its fields lie where
  `Offset` says, by an induction over the fields; `FieldIsRead` that a read at that
  offset, behind which anything may follow, gives the field; the six `...Layout`
  lemmas give the offsets of the code's structs. Bytes of a number are read back by
  `ByteBack` and `WordBack`. A size field is of one or two bytes and must hold the
  length it stands for: `TextsAreShort` (the limit of 255) and `AddFits` and
  `ReportFits` (the limit of 1400 bytes) say that it does. `FourParts` finds the
  texts of an add behind its header, `AddIsParsed` and `ReportIsParsed` that the
  parsers compute those very spans. For `SidesAgree`, `WrittenIsPack` shows that
  bytes written at the offsets of a struct are the struct, each byte by one write
  (`FieldsCover`), and the `...Writes` lemmas that each helper's offsets are those.
  `PayloadIsReadOnce` follows from what the parsers check, whatever the bytes.
  Assumed of a program are only the widths of its arguments (`WireAssumption`). The
  hypothesis `InProtocol` is the property's own; for a description it is that
  `valid_device_description` holds of the struct.

Only model-checked: liveness (`LatestIsShown`, `DestructionEnds`,
`GonePeersLoseControllers`, `SourceIsReopened`), which the provers do not reach;
and that the generic profile's descriptor describes the report it encodes
(`DescriptorIsComplete`, `ReportShowsState` of `GenericHidProfile`): the descriptor
is concatenated from pieces chosen by the description, and a proof would take the
parser through each piece with all its global and local items, an induction over
data at every field.

## Findings

- `virtual_device_order`: docs/protocol.md calls input reports latest-value-wins;
  the neutral report of a removed controller can be followed by an older one.
- `switch_pro_unframed`: a subcommand without its report id whose rumble counter
  is 1 is read one byte late.
- `generic_profile_range`: the generic descriptor states the source's axis range,
  but the report carries values normalized to 16 bits.

Observations without a run, where no document says otherwise or the model stops
short of them:

- An inbound session that never became active, because its accept could not be
  sent or a late `session_open` made it again, has no timeout: it stays, without
  controllers, until the endpoint is heard of again.
- A `session_close` that is delayed until its program has started again ends the
  session of now, because it names none. A configured source is asked again; a
  joining program is not told, and goes on reporting to nobody.
- After the destructor's wait ran out, an output handler of the old device may find
  the controller that replaced it and read its report with that one's profile.
- A report that is delayed until its program has started again carries the old
  count; once it is accepted, new reports look old until they catch up
  (`StaleReports`).
- The helpers of `wire.h` check sizes, but not that transport, output profile and
  report type are among those `parse_hid_device_add` and `parse_hid_report`
  accept; docs/protocol.md:35 says that a helper returns 0 for an invalid packet.
- When a controller is replaced, a handler of the old device that already holds a
  sequence number may send after one of the new device.
- `consume_udp` gives a `semantic_input_state` to a controller whatever its kind;
  a transparent one has no profile to encode it.

## Not modelled, and why

- *Haptics*: the copy of a Switch Pro packet that is kept beside its decoded form
  and the fallbacks for an output without motors. Runtime forwards native packets
  unconverted, and both Switch formats decode to motors, so no pair of profile and
  codec gets there.
- *Switch 2 host reports*: the profile keeps nothing of them but rumble.
- *Limits of the wire*: `OutputState`, which no datagram carries.
- *Motion scaling, names, logs, property dictionaries*: data no property here
  tells apart.
- *The end of the process in Runtime*: members are destroyed while handlers may
  run; that is a data race, listed as a hazard.
- *UI application and probe*: see the plan and `PROJECT.json`.
- *IOKit, Grand Central Dispatch*: external, as the header of `VirtualDevice`
  assumes them.

## Plan

In the order in which they matter:

1. Core, done: `UdpSessions`, `VirtualDevice`, `Runtime` with proofs; the profiles
   and codecs; `PhysicalHidSource`; `SwitchChain`.
2. Done: `SessionNetwork` with its refinement of `UdpSessions`, `WireProtocol`,
   `RumbleChain`.
3. Done: proofs of `PhysicalHidSource`, `SwitchProProfile`, `SourceDescriptor`,
   `WireProtocol`, of the buttons and the settling of `SwitchChain`, of
   `RumbleChain`, and of the safety of `SessionNetwork`. Left: the parser on the descriptors of
   `BuildDescriptor`, by the induction of `SourceDescriptorProofs`.
4. The end of the process: Runtime, its handlers and the physical source while
   `main` returns.
5. The Switch 2 host reports and the motion of both Switch reports.
6. `UiApp`: the task, its pipe and its termination handler.

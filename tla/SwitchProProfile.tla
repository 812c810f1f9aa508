--------------------------- MODULE SwitchProProfile ---------------------------
(***************************************************************************)
(* The Switch Pro Controller a host talks to: SwitchProProfile, called by   *)
(* Runtime's output handler, get_report handler and input path, each of     *)
(* which holds mutex_ from its first to its last use of the profile.        *)
(*                                                                         *)
(* A packet is a sequence of bytes in which a flash address is one element  *)
(* and the rumble bytes are RumbleLength elements: what matters is at which *)
(* position the profile looks for what.  Of an InputState only one stick    *)
(* axis is kept.                                                            *)
(***************************************************************************)
EXTENDS SwitchReports, FiniteSetsExt

CONSTANTS
  RumbleLength,   \* bytes of rumble after the counter, eight in the code
  Counters,       \* rumble counters a host uses, of 0..15
  Rumbles,        \* sequences of RumbleLength rumble bytes
  Unframed,       \* reports the system may hand over without their id
  SpiReads,       \* <<address, length>> pairs a host asks the flash for
  Values,         \* arguments of the other subcommands
  Axes,           \* axis values a source sends
  TimerModulus    \* values of the report timer (256 in the code)

ASSUME ProfileAssumption ==
  /\ RumbleLength \in Nat \ {0}
  /\ Counters \subseteq 0..15
  /\ \A r \in Rumbles: r \in Seq(0..255) /\ Len(r) = RumbleLength
  /\ Values \subseteq 0..255
  /\ SpiReads \subseteq Nat \X (0..255)
  /\ Axes \subseteq {axis \in Int: -32768 <= axis /\ axis <= 32767}
  /\ TimerModulus \in Nat \ {0}

\* Report ids and commands the host writes, and subcommands of 0x01.
RumbleSubcommand == 1
Rumble == 16
UsbCommand == 128
UsbCommands == 1..5
DeviceInfo == 2
SetInputMode == 3
SpiRead == 16
SetPlayerLeds == 48
GetPlayerLeds == 49
SetHomeLight == 56
EnableImu == 64
EnableVibration == 72
GetRegulatedVoltage == 80

VARIABLES
  timer,          \* timer_
  lastAxis,       \* last_state_
  vibrationAck,   \* vibration_ack_, without its shift by four
  settings,       \* input_mode_, player_leds_, imu_enabled_, vibration_enabled_
  lastReply,      \* last_subcommand_reply_
  route,          \* what Runtime does with the host's output
  sourceRumble,   \* the rumble bytes last sent to the source
  host            \* what the host wrote and was told

vars == <<timer, lastAxis, vibrationAck, settings, lastReply, route,
          sourceRumble, host>>

NoRumble == <<>>
NoReply == [sub |-> 0, code |-> 0, ack |-> 0, data |-> <<>>]

(***************************************************************************)
(* Reports.                                                                *)
(***************************************************************************)
\* timer_++ of encode, on its way to one more report.
Tick == timer' = (timer + 1) % TimerModulus

\* Two twelve-bit numbers on three bytes.
Packed(a, b) == <<a % 256, (a \div 256) + (b % 16) * 16, b \div 16>>

PackStick(axis) == Packed(Scaled(axis), Scaled(axis))

\* encode_subcommand_reply: an input report whose motion gives way to the
\* answer.  Its input half is left out.
Reply(sub, code, ack, data) ==
  [sub |-> sub, code |-> code, ack |-> ack, data |-> data]

(***************************************************************************)
(* The flash a host reads its calibration from.                            *)
(***************************************************************************)
StickRegion == 24637    \* 0x603D
ImuRegion == 24608      \* 0x6020

Sticks ==
  LET center == 2048
      range == 1536
  IN  Packed(range, range) \o Packed(center, center) \o Packed(range, range)
        \o Packed(center, center) \o Packed(range, range)
        \o Packed(range, range)

Imu == <<0, 0, 0, 0, 0, 0, 0, 64, 0, 64, 0, 64,
         0, 0, 0, 0, 0, 0, 59, 52, 59, 52, 59, 52>>

\* Mutant: a region is copied from its start wherever the request begins.
OverlayFromStart(address, out, regionAddress, region) ==
  LET from == Max({address, regionAddress})
      to == Min({address + Len(out), regionAddress + Len(region)})
  IN  [i \in DOMAIN out |->
         IF address + i - 1 >= from /\ address + i - 1 < to
         THEN region[address + i - from] ELSE out[i]]

\* overlay_spi: the part of a region a request overlaps, copied over out.
Overlay(address, out, regionAddress, region) ==
  LET from == Max({address, regionAddress})
      to == Min({address + Len(out), regionAddress + Len(region)})
      at(i) == address + i - 1
  IN  [i \in DOMAIN out |->
         IF at(i) >= from /\ at(i) < to
         THEN region[at(i) - regionAddress + 1]
         ELSE out[i]]

ReadSpi(address, length) ==
  LET erased == [i \in 1..length |-> 255]
  IN  Overlay(address, Overlay(address, erased, StickRegion, Sticks),
              ImuRegion, Imu)

\* append_spi_read_response: address, the length served, the bytes.
SpiData(arguments) ==
  IF Len(arguments) < 2 THEN <<>>
  ELSE LET length == Min({arguments[2], 29})
       IN  <<arguments[1], length>> \o ReadSpi(arguments[1], length)

(***************************************************************************)
(* Reading what the host wrote.                                            *)
(***************************************************************************)
\* report_with_id: the packet with its id in front, if it is not there yet.
ReportWithId(id, data) ==
  IF data # <<>> /\ Head(data) = id THEN data
  ELSE IF id # 0 THEN <<id>> \o data ELSE data

\* Mutant: a packet with its id in front is not told from one without.
OffsetWithoutId(packet) ==
  IF packet = <<>> \/ packet[1] > Rumble THEN 0 ELSE 1

\* rumble_payload: where the rumble bytes start, after the counter; 0 when
\* the packet is none with rumble.
RumbleOffset(packet) ==
  IF packet = <<>> THEN 0
  ELSE IF packet[1] \in {RumbleSubcommand, Rumble}
       THEN IF Len(packet) < 2 THEN 0 ELSE 2
       ELSE IF packet[1] > 15 THEN 0 ELSE 1

Decodes(packet) ==
  /\ RumbleOffset(packet) # 0
  /\ Len(packet) >= RumbleOffset(packet) + RumbleLength

\* decode_output of a packet it accepts: the rumble, and the counter noted.
RumbleOf(packet) ==
  SubSeq(packet, RumbleOffset(packet) + 1, RumbleOffset(packet) + RumbleLength)
CounterOf(packet) == packet[RumbleOffset(packet)] % 16

\* The two attempts of raw_output_handler: the report as it came, then with
\* its id in front.  <<>> when neither is rumble.
DecodedPacket(id, data) ==
  IF Decodes(data) THEN data
  ELSE IF id # 0 /\ Decodes(<<id>> \o data) THEN <<id>> \o data
  ELSE <<>>

(***************************************************************************)
(* Answering it.                                                           *)
(***************************************************************************)
\* The ack byte and the data of the reply to a subcommand.
Code(sub) ==
  CASE sub = DeviceInfo -> 130
    [] sub = SpiRead -> 144
    [] sub = GetPlayerLeds -> 176
    [] sub = GetRegulatedVoltage -> 208
    [] OTHER -> 128

Data(sub, arguments) ==
  CASE sub = SpiRead -> SpiData(arguments)
    [] sub = GetPlayerLeds -> <<settings.leds>>
    [] OTHER -> <<>>

\* What a subcommand stores.  The first two keep their value without an
\* argument, the other two become false.
Settings(sub, arguments) ==
  LET given == arguments # <<>>
      on == given /\ Head(arguments) # 0
  IN  CASE sub = SetInputMode /\ given ->
             [settings EXCEPT !.mode = Head(arguments)]
        [] sub = SetPlayerLeds /\ given ->
             [settings EXCEPT !.leds = Head(arguments)]
        [] sub = EnableImu -> [settings EXCEPT !.imu = on]
        [] sub = EnableVibration -> [settings EXCEPT !.vibration = on]
        [] OTHER -> settings

\* handle_subcommand, on the packet after its report id.
HandleSubcommand(payload, ack) ==
  IF Len(payload) < RumbleLength + 2
  THEN UNCHANGED <<timer, settings, lastReply>>
  ELSE LET sub == payload[RumbleLength + 2]
           arguments == SubSeq(payload, RumbleLength + 3, Len(payload))
       IN  /\ lastReply' = Reply(sub, Code(sub), ack, Data(sub, arguments))
           /\ settings' = Settings(sub, arguments)
           /\ Tick

\* The counter note_vibration_packet keeps, after decode_output kept noted.
NoteVibration(packet, noted) ==
  IF packet[1] \in {RumbleSubcommand, Rumble} /\ Len(packet) > 1
  THEN packet[2] % 16
  ELSE noted

\* handle_host_report.  USB commands answer with constants and keep nothing.
Handle(packet, noted) ==
  LET ack == NoteVibration(packet, noted)
  IN  /\ vibrationAck' = ack
      /\ IF packet[1] = RumbleSubcommand
         THEN HandleSubcommand(Tail(packet), ack)
         ELSE UNCHANGED <<timer, settings, lastReply>>

\* What reaches the source: the rumble of a packet Runtime decodes for the
\* source's codec.  A source that takes the host's packets as they are, or has
\* no return path, has nothing decoded for it.
Forward(id, data) ==
  LET decoded == DecodedPacket(id, data)
  IN  sourceRumble' =
        IF route = "codec" /\ decoded # <<>> THEN RumbleOf(decoded)
        ELSE sourceRumble

Noted(id, data) ==
  LET decoded == DecodedPacket(id, data)
  IN  IF route = "codec" /\ decoded # <<>> THEN CounterOf(decoded)
      ELSE vibrationAck

(***************************************************************************)
(* Actions.                                                                *)
(***************************************************************************)
\* raw_output_handler on one report.  The reply may be lost on its way.
Write(id, body) ==
  \E data \in {<<id>> \o body} \cup (IF id \in Unframed THEN {body} ELSE {}):
    /\ Forward(id, data)
    /\ Handle(ReportWithId(id, data), Noted(id, data))
    /\ UNCHANGED <<lastAxis, route>>

HostRumbles ==
  \E counter \in Counters, rumble \in Rumbles:
    /\ Write(Rumble, <<counter>> \o rumble)
    /\ host' = [host EXCEPT !.counter = counter, !.rumble = rumble]

Asks(sub, arguments) ==
  \E counter \in Counters, rumble \in Rumbles:
    /\ Write(RumbleSubcommand, <<counter>> \o rumble \o <<sub>> \o arguments)
    /\ host' = [host EXCEPT
         !.counter = counter, !.rumble = rumble,
         !.asked = [sub |-> sub, arguments |-> arguments, counter |-> counter,
                    leds |-> host.leds],
         !.leds = IF sub = SetPlayerLeds THEN Head(arguments) ELSE @,
         !.reply = NoReply]

HostAsks ==
  \/ \E sub \in {DeviceInfo, GetPlayerLeds, SetHomeLight, GetRegulatedVoltage}:
       Asks(sub, <<>>)
  \/ \E sub \in {SetInputMode, SetPlayerLeds, EnableImu, EnableVibration},
       value \in Values: Asks(sub, <<value>>)
  \/ \E read \in SpiReads: Asks(SpiRead, read)

HostSendsUsbCommand ==
  \E command \in UsbCommands:
    /\ Write(UsbCommand, <<command>> \o [i \in 1..RumbleLength |-> 0])
    /\ UNCHANGED host

\* The reply reaches the host, or the host polls it with get_host_report;
\* what it reads from the flash it remembers.
HostReads ==
  /\ host.reply = NoReply
  /\ host.asked.sub # 0
  /\ LET data == lastReply.data
         learned == IF lastReply.sub = SpiRead /\ Len(data) > 2
                    THEN [a \in data[1]..(data[1] + data[2] - 1) |->
                            data[a - data[1] + 3]]
                    ELSE <<>>
     IN  host' = [host EXCEPT
           !.reply = lastReply,
           !.flash = [a \in DOMAIN @ \cup DOMAIN learned |->
                        IF a \in DOMAIN learned THEN learned[a] ELSE @[a]]]
  /\ UNCHANGED <<timer, lastAxis, vibrationAck, settings, lastReply, route,
                 sourceRumble>>

\* get_host_report of the input report: it is encoded, and takes a timer
\* value, before the host's buffer is found too small.
HostPollsInput ==
  /\ Tick
  /\ UNCHANGED <<lastAxis, vibrationAck, settings, lastReply, route,
                 sourceRumble, host>>

\* Runtime::input and raw_input: the axis goes through the identity mapping.
Input(axis) ==
  /\ lastAxis' = Mapped(axis)
  /\ Tick
  /\ UNCHANGED <<vibrationAck, settings, lastReply, route, sourceRumble, host>>

Init ==
  /\ timer = 0
  /\ lastAxis = 0
  /\ vibrationAck = 7
  /\ settings = [mode |-> 48, leds |-> 0, imu |-> FALSE, vibration |-> FALSE]
  /\ lastReply = [NoReply EXCEPT !.code = 128, !.ack = 7]
  /\ route \in {"codec", "other"}
  /\ sourceRumble = NoRumble
  /\ host = [counter |-> 7, rumble |-> NoRumble, leds |-> 0,
             asked |-> [sub |-> 0, arguments |-> <<>>, counter |-> 7,
                        leds |-> 0],
             reply |-> NoReply, flash |-> <<>>]

Next ==
  \/ HostRumbles
  \/ HostAsks
  \/ HostSendsUsbCommand
  \/ HostReads
  \/ HostPollsInput
  \/ \E axis \in Axes: Input(axis)

Spec == Init /\ [][Next]_vars

(***************************************************************************)
(* Properties.                                                             *)
(***************************************************************************)
\* The profile and the source see the host's packets as the host meant them:
\* the counter echoed in every report is that of the last packet with rumble,
\* and the source plays that packet's rumble, although Runtime decodes a packet
\* up to twice and the profile reads it once more, each in its own way, and
\* USB commands take the same path.
HostPacketsAreRead ==
  /\ vibrationAck = host.counter
  /\ route = "codec" => sourceRumble = host.rumble

\* The byte the flash holds at an address, for a host that knows the map.
FlashByte(address) ==
  CASE address \in StickRegion..(StickRegion + Len(Sticks) - 1) ->
         Sticks[address - StickRegion + 1]
    [] address \in ImuRegion..(ImuRegion + Len(Imu) - 1) ->
         Imu[address - ImuRegion + 1]
    [] OTHER -> 255

\* A reply names the subcommand it answers and the counter of its packet, with
\* or without the report's id in front of the packet (switch_profile_test).
RepliesNameSubcommand ==
  /\ lastReply.sub = host.asked.sub
  /\ lastReply.ack = host.asked.counter

\* The reply last stored, which is the one sent and the one a poll of 0x21 or
\* of feature 2 returns later, answers the host's last subcommand: its number,
\* its counter, the player LEDs as last set, the flash as addressed, cut off
\* at 29 bytes.
RepliesAnswer ==
  LET asked == host.asked
  IN  /\ RepliesNameSubcommand
      /\ asked.sub = GetPlayerLeds => lastReply.data = <<asked.leds>>
      /\ asked.sub = SpiRead =>
           LET address == asked.arguments[1]
               length == Min({asked.arguments[2], 29})
           IN  lastReply.data =
                 <<address, length>> \o
                   [i \in 1..length |-> FlashByte(address + i - 1)]

\* The two twelve-bit numbers in three bytes of the flash a host has read.
Unpacked(b1, b2, b3) == <<b1 + (b2 % 16) * 256, (b2 \div 16) + b3 * 16>>

\* A stick never leaves the range of the factory calibration the host has put
\* together from its reads, rests on its center, and comes within a step of
\* both its ends: the scale of pack_stick and the bytes served at 0x603D agree.
SticksMatchCalibration ==
  StickRegion..(StickRegion + 8) \subseteq DOMAIN host.flash =>
    LET pair(i) == Unpacked(host.flash[StickRegion + i],
                            host.flash[StickRegion + i + 1],
                            host.flash[StickRegion + i + 2])
        above == pair(0)[1]
        center == pair(3)[1]
        below == pair(6)[1]
        bytes == PackStick(lastAxis)
        stick == Unpacked(bytes[1], bytes[2], bytes[3])[1]
    IN  /\ stick \in (center - below)..(center + above)
        /\ lastAxis = 0 => stick = center
        /\ lastAxis = -32767 => stick = center - below + 1
        /\ lastAxis = 32767 => stick = center + above - 1
===============================================================================

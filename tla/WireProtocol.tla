------------------------------ MODULE WireProtocol ------------------------------
(***************************************************************************)
(* The datagrams of VHB2: how the C helpers of include/vhid/wire.h and the *)
(* C++ functions of src/protocol.cpp write them, and how parse_message     *)
(* reads them.  A datagram is a sequence of bytes, with the limits of the  *)
(* code.  The C helpers write each field at an offset of their own; the    *)
(* C++ side writes and reads packed structs (include/vhid/protocol.h),     *)
(* whose offsets follow from the widths of the fields.                     *)
(*                                                                         *)
(* A program has a datagram written by either; the bridge gets what was    *)
(* returned, or what some other program made of it.                        *)
(***************************************************************************)
EXTENDS Integers, FiniteSets, Sequences, SequencesExt

CONSTANTS
  DeviceId,      \* the device id of the sender
  Requests,      \* the messages programs ask for: kind, type and arguments
  ForeignBytes,  \* bytes another program puts in
  MaxDatagrams   \* bound: datagrams of one sender

Byte == 0..255
Word == 0..65535

\* What a program can ask for: the arguments of the helpers and functions.
SessionMessages ==
  [kind : {"session"}, type : Byte, session_id : Nat, peer_id : Nat, capabilities : Nat,
   keepalive_interval_us : Nat, timeout_us : Nat, name : [1..32 -> Byte]]
EmptyMessages == [kind : {"empty"}, type : Byte]
AddMessages ==
  [kind : {"add"}, type : {16}, vendor_id : Word, product_id : Word,
   version_number : Word, transport : Byte, flags : Byte, source_input_profile : Byte,
   source_output_profile : Byte, descriptor : Seq(Byte), product : Seq(Byte),
   manufacturer : Seq(Byte), serial : Seq(Byte)]
ReportMessages ==
  [kind : {"report"}, type : Byte, report_type : Byte, report_id : Byte, data : Seq(Byte)]
DescriptionMessages ==
  [kind : {"description"}, type : {48}, requested_profile : Byte, device_flags : Byte,
   button_count : Byte, hat_count : Byte, axis_count : Byte, motion_flags : Byte,
   vendor_id : Word, product_id : Word, version_number : Word,
   product : [1..64 -> Byte], manufacturer : [1..32 -> Byte], serial : [1..32 -> Byte],
   axes : [1..256 -> Byte]]
StateMessages ==
  [kind : {"state"}, type : {49}, buttons : Nat, hats : [1..4 -> Byte],
   axes : [1..32 -> Byte], motion : [1..40 -> Byte], battery_percent : Byte,
   reserved : Nat]

ASSUME WireAssumption ==
  /\ DeviceId \in Nat /\ MaxDatagrams \in Nat /\ ForeignBytes \subseteq Byte
  /\ \A r \in Requests :
       \/ r \in SessionMessages     \/ r \in EmptyMessages \/ r \in AddMessages
       \/ r \in ReportMessages      \/ r \in DescriptionMessages
       \/ r \in StateMessages

VARIABLES
  next_sequence,  \* vhid_sender_t::next_sequence
  request,        \* the last message asked for
  datagram,       \* what arrives at the bridge, <<>> for nothing
  foreign         \* whether another program changed it

wireVars == <<next_sequence, request, datagram, foreign>>

-----------------------------------------------------------------------------
(* Numbers and structs *)

MaxDatagram == 1400
MaxText == 255
Magic == 843335766   \* 0x32424856
Version == 2
Timestamp == 770

\* Bytes of a number, the least significant first.
LittleEndian(value, width) ==
  LET rest[i \in 0..width] == IF i = 0 THEN value ELSE rest[i - 1] \div 256
  IN [i \in 1..width |-> rest[i - 1] % 256]

\* An unsigned number of one byte or two.
Number(bytes) == bytes[1] + (IF Len(bytes) = 2 THEN 256 * bytes[2] ELSE 0)

Signed32(bytes) ==
  bytes[1] + 256 * bytes[2] + 65536 * bytes[3]
    + 16777216 * (IF bytes[4] < 128 THEN bytes[4] ELSE bytes[4] - 256)

\* Packed structs: fields with their widths, in order.
MessageHeader ==
  << <<"magic", 4>>, <<"version", 1>>, <<"type", 1>>, <<"flags", 2>>,
     <<"payload_size", 4>>, <<"device_id", 4>>, <<"sequence", 4>>,
     <<"timestamp_us", 8>> >>

SessionPayload ==
  << <<"session_id", 4>>, <<"peer_id", 4>>, <<"capabilities", 4>>,
     <<"keepalive_interval_us", 4>>, <<"timeout_us", 4>>, <<"name", 32>> >>

HidDeviceAddHeader ==
  << <<"vendor_id", 2>>, <<"product_id", 2>>, <<"version_number", 2>>,
     <<"transport", 1>>, <<"flags", 1>>, <<"descriptor_size", 2>>,
     <<"product_size", 1>>, <<"manufacturer_size", 1>>, <<"serial_size", 1>>,
     <<"source_input_profile", 1>>, <<"source_output_profile", 1>>,
     <<"reserved", 1>> >>

HidReportHeader == << <<"report_type", 1>>, <<"report_id", 1>>, <<"data_size", 2>> >>

AxisDescriptor ==
  << <<"usage_page", 2>>, <<"usage", 2>>, <<"logical_min", 4>>,
     <<"logical_max", 4>>, <<"flags", 1>>, <<"reserved", 3>> >>

DeviceDescription ==
  << <<"requested_profile", 1>>, <<"device_flags", 1>>, <<"button_count", 1>>,
     <<"hat_count", 1>>, <<"axis_count", 1>>, <<"motion_flags", 1>>,
     <<"vendor_id", 2>>, <<"product_id", 2>>, <<"version_number", 2>>,
     <<"product", 64>>, <<"manufacturer", 32>>, <<"serial", 32>>,
     <<"axes", 256>> >>

InputState ==
  << <<"buttons", 8>>, <<"hats", 4>>, <<"axes", 32>>, <<"motion", 40>>,
     <<"battery_percent", 1>>, <<"reserved", 3>> >>

\* Where field i of a struct starts, and how long a struct is.
Offset(struct, i) ==
  LET end[k \in 0..Len(struct)] == IF k = 0 THEN 0 ELSE end[k - 1] + struct[k][2]
  IN end[i - 1]
SizeOf(struct) == Offset(struct, Len(struct) + 1)

FieldOf(struct, name, bytes) ==
  LET i == CHOOSE i \in DOMAIN struct : struct[i][1] = name
      from == Offset(struct, i)
  IN SubSeq(bytes, from + 1, from + struct[i][2])

\* A struct in memory; a value is a number, or the bytes of an array.
Arrays == {"name", "product", "manufacturer", "serial", "axes", "hats", "motion"}

FieldBytes(field, values) ==
  IF field[1] \in Arrays THEN values[field[1]] ELSE LittleEndian(values[field[1]], field[2])

Pack(struct, values) ==
  LET bytes[k \in 0..Len(struct)] ==
        IF k = 0 THEN <<>> ELSE bytes[k - 1] \o FieldBytes(struct[k], values)
  IN bytes[Len(struct)]

-----------------------------------------------------------------------------
(* What both sides refuse to write *)

Fits(payload) == 28 + Len(payload) <= MaxDatagram

Accepted(r) ==
  CASE r.kind = "session" -> r.type \in {1, 2}
    [] r.kind = "empty"   -> r.type \in {3, 4, 5, 17}
    [] r.kind = "report"  -> r.type \in 32..35
    [] r.kind = "add"     -> /\ r.descriptor # <<>>
                             /\ \A text \in {r.product, r.manufacturer, r.serial} :
                                  Len(text) <= MaxText
    [] OTHER              -> TRUE

\* The messages of a session belong to no device.
DeviceOf(r) == IF r.kind = "session" \/ r.type \in {3, 4, 5} THEN 0 ELSE DeviceId

-----------------------------------------------------------------------------
(* The C helpers *)

\* Bytes written at offsets: a set of <<offset, bytes>>.
Written(size, writes) ==
  [i \in 1..size |->
     LET w == CHOOSE w \in writes : w[1] < i /\ i <= w[1] + Len(w[2])
     IN w[2][i - w[1]]]

\* vhid_wire_begin_message_for_device
Begin(device_id, type, payload_size) ==
  Written(28, {<<0, LittleEndian(Magic, 4)>>, <<4, <<Version>>>>, <<5, <<type>>>>,
               <<6, <<0, 0>>>>, <<8, LittleEndian(payload_size, 4)>>,
               <<12, LittleEndian(device_id, 4)>>,
               <<16, LittleEndian(next_sequence, 4)>>,
               <<20, LittleEndian(Timestamp, 8)>>})

\* vhid_make_session_message
SessionBytes(r) ==
  Written(52, {<<0, LittleEndian(r.session_id, 4)>>, <<4, LittleEndian(r.peer_id, 4)>>,
               <<8, LittleEndian(r.capabilities, 4)>>,
               <<12, LittleEndian(r.keepalive_interval_us, 4)>>,
               <<16, LittleEndian(r.timeout_us, 4)>>, <<20, r.name>>})

\* Mutant: the sizes of manufacturer and serial change places.
AddBytesSwapped(r) ==
  Written(16,
    {<<0, LittleEndian(r.vendor_id, 2)>>, <<2, LittleEndian(r.product_id, 2)>>,
     <<4, LittleEndian(r.version_number, 2)>>, <<6, <<r.transport>>>>,
     <<7, <<r.flags>>>>, <<8, LittleEndian(Len(r.descriptor), 2)>>,
     <<10, <<Len(r.product)>>>>, <<11, <<Len(r.serial)>>>>,
     <<12, <<Len(r.manufacturer)>>>>, <<13, <<r.source_input_profile>>>>,
     <<14, <<r.source_output_profile>>>>, <<15, <<0>>>>})
    \o r.descriptor \o r.product \o r.manufacturer \o r.serial

\* vhid_make_hid_device_add
AddBytes(r) ==
  Written(16,
    {<<0, LittleEndian(r.vendor_id, 2)>>, <<2, LittleEndian(r.product_id, 2)>>,
     <<4, LittleEndian(r.version_number, 2)>>, <<6, <<r.transport>>>>,
     <<7, <<r.flags>>>>, <<8, LittleEndian(Len(r.descriptor), 2)>>,
     <<10, <<Len(r.product)>>>>, <<11, <<Len(r.manufacturer)>>>>,
     <<12, <<Len(r.serial)>>>>, <<13, <<r.source_input_profile>>>>,
     <<14, <<r.source_output_profile>>>>, <<15, <<0>>>>})
    \o r.descriptor \o r.product \o r.manufacturer \o r.serial

\* vhid_make_hid_report
ReportBytes(r) ==
  Written(4, {<<0, <<r.report_type>>>>, <<1, <<r.report_id>>>>,
              <<2, LittleEndian(Len(r.data), 2)>>}) \o r.data

\* What a helper returns, <<>> for 0.
Helper(r) ==
  LET payload == CASE r.kind = "session" -> SessionBytes(r)
                   [] r.kind = "add"     -> AddBytes(r)
                   [] r.kind = "report"  -> ReportBytes(r)
                   [] r.kind = "empty"   -> <<>>
  IN IF Accepted(r) /\ Fits(payload)
     THEN Begin(DeviceOf(r), r.type, Len(payload)) \o payload ELSE <<>>

-----------------------------------------------------------------------------
(* The C++ side, writing *)

\* make_message, send_empty_message_to, make_hid_device_add, make_hid_report
Made(r) ==
  LET payload ==
        CASE r.kind = "session"     -> Pack(SessionPayload, r)
          [] r.kind = "empty"       -> <<>>
          [] r.kind = "description" -> Pack(DeviceDescription, r)
          [] r.kind = "state"       -> Pack(InputState, r)
          [] r.kind = "report"      ->
               Pack(HidReportHeader, [report_type |-> r.report_type,
                                      report_id |-> r.report_id,
                                      data_size |-> Len(r.data)]) \o r.data
          [] r.kind = "add" ->
               Pack(HidDeviceAddHeader,
                    [field \in {f[1] : f \in ToSet(HidDeviceAddHeader)} |->
                       CASE field = "descriptor_size"   -> Len(r.descriptor)
                         [] field = "product_size"      -> Len(r.product)
                         [] field = "manufacturer_size" -> Len(r.manufacturer)
                         [] field = "serial_size"       -> Len(r.serial)
                         [] field = "reserved"          -> 0
                         [] OTHER -> r[field]])
                 \o r.descriptor \o r.product \o r.manufacturer \o r.serial
  IN IF Accepted(r) /\ Fits(payload)
     THEN Pack(MessageHeader,
               [magic |-> Magic, version |-> Version, type |-> r.type, flags |-> 0,
                payload_size |-> Len(payload), device_id |-> DeviceOf(r),
                sequence |-> next_sequence, timestamp_us |-> Timestamp]) \o payload
     ELSE <<>>

-----------------------------------------------------------------------------
(* The C++ side, reading *)

\* A std::span of a payload, and the bytes in it.
Span(from, size) == [from |-> from, size |-> size]
Bytes(payload, span) == SubSeq(payload, span.from + 1, span.from + span.size)

Refused == [ok |-> FALSE]

\* parse_hid_device_add
ParseHidDeviceAdd(payload) ==
  LET value(name) == Number(FieldOf(HidDeviceAddHeader, name, payload))
      product == 16 + value("descriptor_size")
      manufacturer == product + value("product_size")
      serial == manufacturer + value("manufacturer_size")
  IN IF /\ Len(payload) >= 16
        /\ value("descriptor_size") # 0 /\ value("transport") <= 4
        /\ value("source_output_profile") \in 0..6 \cup {255}
        /\ value("reserved") = 0
        /\ Len(payload) = serial + value("serial_size")
     THEN [ok |-> TRUE, descriptor |-> Span(16, value("descriptor_size")),
           product |-> Span(product, value("product_size")),
           manufacturer |-> Span(manufacturer, value("manufacturer_size")),
           serial |-> Span(serial, value("serial_size"))]
     ELSE Refused

\* Mutant: a report may be shorter than its size says.
ParseHidReportOfAnySize(payload) ==
  LET value(name) == Number(FieldOf(HidReportHeader, name, payload))
  IN IF Len(payload) >= 4 /\ value("report_type") <= 2
     THEN [ok |-> TRUE, data |-> Span(4, value("data_size"))]
     ELSE Refused

\* parse_hid_report
ParseHidReport(payload) ==
  LET value(name) == Number(FieldOf(HidReportHeader, name, payload))
  IN IF /\ Len(payload) >= 4
        /\ value("report_type") <= 2
        /\ Len(payload) = 4 + value("data_size")
     THEN [ok |-> TRUE, data |-> Span(4, value("data_size"))]
     ELSE Refused

\* valid_device_description
ValidDeviceDescription(payload) ==
  LET value(name) == Number(FieldOf(DeviceDescription, name, payload))
      axis(i) == SubSeq(FieldOf(DeviceDescription, "axes", payload), 16 * i + 1, 16 * i + 16)
      limit(i, name) == Signed32(FieldOf(AxisDescriptor, name, axis(i)))
  IN /\ value("button_count") <= 64 /\ value("hat_count") <= 4
     /\ value("axis_count") <= 16 /\ value("requested_profile") <= 6
     /\ \A i \in 0..(value("axis_count") - 1) : limit(i, "logical_min") < limit(i, "logical_max")
     /\ \A text \in {"product", "manufacturer", "serial"} :
          Contains(FieldOf(DeviceDescription, text, payload), 0)

\* The size parse_message asks of a payload: that of a struct, 0, or any.
ExpectedSize(type, size) ==
  CASE type \in {1, 2}           -> SizeOf(SessionPayload)
    [] type \in {3, 4, 5, 17}    -> 0
    [] type \in {16} \cup 32..35 -> size
    [] type = 48                 -> SizeOf(DeviceDescription)
    [] type = 49                 -> SizeOf(InputState)
    [] OTHER                     -> -1

ParseMessage(bytes) ==
  LET field(name) == FieldOf(MessageHeader, name, bytes)
      payload == SubSeq(bytes, 29, Len(bytes))
      type == field("type")[1]
  IN IF /\ Len(bytes) \in 28..MaxDatagram
        /\ field("magic") = LittleEndian(Magic, 4) /\ field("version")[1] = Version
        /\ field("payload_size") = LittleEndian(Len(payload), 4)
        /\ Len(payload) = ExpectedSize(type, Len(payload))
        /\ type = 16 => ParseHidDeviceAdd(payload).ok
        /\ type \in 32..35 => ParseHidReport(payload).ok
        /\ type = 48 => ValidDeviceDescription(payload)
     THEN [ok |-> TRUE, type |-> type, payload |-> payload,
           device_id |-> field("device_id"), sequence |-> field("sequence")]
     ELSE Refused

\* What consume_udp reads of an accepted payload, in order: structs it copies,
\* spans it passes on.
Reads(message) ==
  LET add == ParseHidDeviceAdd(message.payload)
  IN CASE message.type \in {1, 2} -> <<Span(0, SizeOf(SessionPayload))>>
       [] message.type = 16       -> <<Span(0, 16), add.descriptor, add.product,
                                       add.manufacturer, add.serial>>
       [] message.type \in 32..35 -> <<Span(0, 4), ParseHidReport(message.payload).data>>
       [] message.type = 48       -> <<Span(0, SizeOf(DeviceDescription))>>
       [] message.type = 49       -> <<Span(0, SizeOf(InputState))>>
       [] OTHER                   -> << >>

-----------------------------------------------------------------------------

\* A C program calls the helper for r, a C++ program the function; a datagram
\* takes a number, a refusal none.
Write(r) ==
  /\ next_sequence < MaxDatagrams
  /\ datagram' \in IF r.kind \in {"description", "state"} THEN {Made(r)}
                   ELSE {Helper(r), Made(r)}
  /\ request' = r
  /\ foreign' = FALSE
  /\ next_sequence' = IF datagram' = <<>> THEN next_sequence ELSE next_sequence + 1

\* Anything may arrive: a byte is another, the end is missing, or there is more.
Foreign ==
  /\ ~foreign /\ datagram # <<>>
  /\ \/ \E i \in DOMAIN datagram, b \in ForeignBytes : datagram' = [datagram EXCEPT ![i] = b]
     \/ \E i \in 1..(Len(datagram) - 1) : datagram' = SubSeq(datagram, 1, i)
     \/ \E b \in ForeignBytes : datagram' = Append(datagram, b)
  /\ foreign' = TRUE
  /\ UNCHANGED <<next_sequence, request>>

WireInit ==
  /\ next_sequence = 0
  /\ request = [kind |-> "none"]
  /\ datagram = <<>>
  /\ foreign = FALSE

WireNext == (\E r \in Requests : Write(r)) \/ Foreign

WireSpec == WireInit /\ [][WireNext]_wireVars

-----------------------------------------------------------------------------
(* Properties *)

\* The arguments the protocol allows.  The helpers do not look at the transport,
\* the output profile and the report type, and make_message not at a description;
\* parse_message checks them.
InProtocol(r) ==
  CASE r.kind = "add"    -> r.transport <= 4 /\ r.source_output_profile \in 0..6 \cup {255}
    [] r.kind = "report" -> r.report_type <= 2
    [] r.kind = "description" -> ValidDeviceDescription(Pack(DeviceDescription, r))
    [] OTHER             -> TRUE

\* What the bridge takes out of a payload is what the program put in.
ReadBack(r, payload) ==
  LET add == ParseHidDeviceAdd(payload)
      same(struct, names) ==
        \A i \in DOMAIN struct : struct[i][1] \in names =>
          FieldOf(struct, struct[i][1], payload) = FieldBytes(struct[i], r)
      whole(struct) == same(struct, {struct[i][1] : i \in DOMAIN struct})
  IN CASE r.kind = "session"     -> whole(SessionPayload)
       [] r.kind = "description" -> whole(DeviceDescription)
       [] r.kind = "state"       -> whole(InputState)
       [] r.kind = "add" ->
            /\ same(HidDeviceAddHeader,
                    {"vendor_id", "product_id", "version_number", "transport", "flags",
                     "source_input_profile", "source_output_profile"})
            /\ \A part \in {"descriptor", "product", "manufacturer", "serial"} :
                 Bytes(payload, add[part]) = r[part]
       [] r.kind = "report" ->
            /\ same(HidReportHeader, {"report_type", "report_id"})
            /\ Bytes(payload, ParseHidReport(payload).data) = r.data
       [] OTHER -> TRUE

\* A datagram either side writes from arguments the protocol allows is accepted
\* by parse_message, and every field, text and report comes out as it went in;
\* the datagrams of a sender are numbered without a gap, whatever was refused.
WhatIsSentIsRead ==
  (datagram # <<>> /\ ~foreign /\ InProtocol(request)) =>
    \E message \in {ParseMessage(datagram)} :
      /\ message.ok /\ message.type = request.type
      /\ message.sequence = LittleEndian(next_sequence - 1, 4)
      /\ message.device_id = LittleEndian(DeviceOf(request), 4)
      /\ ReadBack(request, message.payload)

\* Whatever arrives, what consume_udp reads of a message that parse_message
\* accepted begins with the payload, leaves nothing out, reads nothing twice and
\* ends with the payload.
PayloadIsReadOnce ==
  \A message \in {m \in {ParseMessage(datagram)} : m.ok} :
    \A spans \in {Reads(message)} :
      LET end(k) == IF k = 0 THEN 0 ELSE spans[k].from + spans[k].size
      IN /\ \A k \in DOMAIN spans : spans[k].from = end(k - 1)
         /\ end(Len(spans)) = Len(message.payload)

=============================================================================

----------------------------- MODULE MCWireProtocol -----------------------------
EXTENDS WireProtocol

Text(n) == [i \in 1..n |-> 64 + (i % 26)]

Session(type) ==
  [kind |-> "session", type |-> type, session_id |-> 16909060, peer_id |-> 84281096,
   capabilities |-> 3, keepalive_interval_us |-> 2000000, timeout_us |-> 5000000,
   name |-> Text(32)]

Empty(type) == [kind |-> "empty", type |-> type]

Add(descriptor, product, manufacturer, serial, transport, output) ==
  [kind |-> "add", type |-> 16, vendor_id |-> 1406, product_id |-> 8201,
   version_number |-> 513, transport |-> transport, flags |-> 1,
   source_input_profile |-> 255, source_output_profile |-> output,
   descriptor |-> [i \in 1..descriptor |-> i % 251],
   product |-> Text(product), manufacturer |-> Text(manufacturer), serial |-> Text(serial)]

Report(type, report_type, size) ==
  [kind |-> "report", type |-> type, report_type |-> report_type, report_id |-> 48,
   data |-> [i \in 1..size |-> i % 251]]

Axis(logical_min, logical_max) ==
  Pack(AxisDescriptor, [usage_page |-> 1, usage |-> 48, logical_min |-> logical_min,
                        logical_max |-> logical_max, flags |-> 0, reserved |-> 0])

Description ==
  [kind |-> "description", type |-> 48, requested_profile |-> 6, device_flags |-> 1,
   button_count |-> 64, hat_count |-> 4, axis_count |-> 2, motion_flags |-> 0,
   vendor_id |-> 1406, product_id |-> 8201, version_number |-> 513,
   product |-> Append(Text(63), 0), manufacturer |-> Append(Text(31), 0),
   serial |-> Append(Text(31), 0),
   axes |-> Axis(-32768, 32767) \o Axis(0, 255) \o [i \in 1..224 |-> 0]]

State ==
  [kind |-> "state", type |-> 49, buttons |-> 1025, hats |-> <<8, 8, 8, 8>>,
   axes |-> [i \in 1..32 |-> 0], motion |-> [i \in 1..40 |-> 0],
   battery_percent |-> 100, reserved |-> 0]

\* Every type; descriptors of two-byte sizes; texts and datagrams of the greatest
\* length and one byte more; arguments outside the protocol.
MCRequests ==
  {Session(1), Session(2), Empty(3), Empty(4), Empty(5), Empty(17),
   Add(300, 3, 2, 5, 1, 2), Add(1, 0, 0, 0, 4, 255), Add(2, 255, 1, 0, 0, 0),
   Add(2, 1, 256, 0, 0, 0), Add(0, 1, 1, 1, 0, 0), Add(1356, 0, 0, 0, 0, 6),
   Add(1356, 0, 0, 1, 0, 6), Add(2, 1, 1, 1, 5, 2),
   Report(32, 0, 63), Report(33, 1, 0), Report(34, 2, 0), Report(35, 2, 300),
   Report(32, 0, 1368), Report(32, 0, 1369), Report(16, 0, 1),
   Description, [Description EXCEPT !.button_count = 65],
   [Description EXCEPT !.axes = Axis(255, 0) \o [i \in 1..240 |-> 0]], State}
=============================================================================

--------------------------- MODULE GenericHidProfile ---------------------------
(***************************************************************************)
(* A generic controller: build_descriptor writes the descriptor of a        *)
(* DeviceDescription, encode the report of an InputState, and whoever reads *)
(* HID, here the codec of SourceDescriptor, is to see that state again.     *)
(*                                                                         *)
(* Bytes and axes have ByteBits and AxisBits bits.  Motion is a signed      *)
(* number of AxisBits; its scaling is left out.                             *)
(***************************************************************************)
EXTENDS SourceDescriptor

CONSTANTS
  ByteBits,       \* 8 in the code
  Descriptions,   \* what a source was described as
  InputStates(_)  \* the states a source of a description sends

ASSUME ProfileAssumption == ByteBits \in Nat /\ ByteBits > 3

VARIABLES
  published,   \* description_ of the profile
  source       \* the InputState it encodes

AxisMin == -AxisMax - 1

(***************************************************************************)
(* build_descriptor.                                                       *)
(***************************************************************************)
Item(tag, value) == [tag |-> tag, value |-> value, page |-> 0]

\* A page, its usages, the range, size and count of the fields, the Input item.
Input(page, usages, min, max, size, count) ==
  <<Item("usage_page", page)>> \o usages \o
  <<Item("logical_min", min), Item("logical_max", max),
    Item("report_size", size), Item("report_count", count),
    Item("input", "variable")>>

\* Mutant: buttons beyond the last whole byte are not sent.
WholeButtonBytes(d) == d.buttons \div ByteBits

\* Buttons fill whole bytes.
ButtonBytes(d) == (d.buttons + ByteBits - 1) \div ByteBits

ButtonItems(d) ==
  LET padding == (ByteBits - (d.buttons % ByteBits)) % ByteBits
  IN  IF d.buttons = 0 THEN <<>>
      ELSE Input(ButtonPage, <<Item("usage_min", 1),
                               Item("usage_max", d.buttons)>>,
                 0, 1, 1, d.buttons)
           \o (IF padding = 0 THEN <<>>
               ELSE <<Item("report_size", 1), Item("report_count", padding),
                      Item("input", "constant")>>)

HatItems == Input(Desktop, <<Item("usage", HatSwitch)>>, 0, 7, ByteBits, 1)

\* Mutant: an axis leaves its page to the items before it.
AxisItemsWithoutPage(axis) ==
  Tail(Input(axis.page, <<Item("usage", axis.usage)>>, axis.min, axis.max,
             AxisBits, 1))

AxisItems(axis) ==
  Input(axis.page, <<Item("usage", axis.usage)>>, axis.min, axis.max,
        AxisBits, 1)

BatteryItems == Input(6, <<Item("usage", 32)>>, 0, 100, ByteBits, 1)

MotionItems ==
  Input(SensorPage, <<Item("usage", 1107), Item("usage", 1108),
                      Item("usage", 1109)>>,
        AxisMin, AxisMax, AxisBits, 3)

BuildDescriptor(d) ==
  <<Item("usage_page", Desktop), Item("usage", 5), Item("collection", 0)>>
    \o ButtonItems(d)
    \o FlattenSeq([i \in 1..d.hats |-> HatItems])
    \o FlattenSeq([i \in DOMAIN d.axes |-> AxisItems(d.axes[i])])
    \o (IF d.battery THEN BatteryItems ELSE <<>>)
    \o (IF d.motion THEN MotionItems ELSE <<>>)
    \o <<Item("collection", 0)>>

(***************************************************************************)
(* encode.                                                                 *)
(***************************************************************************)
\* The bits of a number, lowest first, negative ones in two's complement.
Bits(value, size) ==
  [i \in 1..size |-> ((value % 2^size) \div 2^(i - 1)) % 2]

\* The button bytes: all buttons of these bytes, counted or not.
ButtonBits(d, s) ==
  [i \in 1..(ButtonBytes(d) * ByteBits) |-> IF (i - 1) \in s.buttons THEN 1 ELSE 0]

Encode(d, s) ==
  ButtonBits(d, s)
    \o FlattenSeq([i \in 1..d.hats |-> Bits(Min({s.hats[i], 8}), ByteBits)])
    \o FlattenSeq([i \in DOMAIN d.axes |-> Bits(s.axes[i], AxisBits)])
    \o (IF d.battery THEN Bits(s.battery, ByteBits) ELSE <<>>)
    \o (IF d.motion
        THEN FlattenSeq([i \in 1..3 |-> Bits(s.motion[i], AxisBits)]) ELSE <<>>)

(***************************************************************************)
(* A source announces the descriptor of a published controller and sends   *)
(* its report, as another bridge does, or a descriptor and reports of any  *)
(* other maker.                                                            *)
(***************************************************************************)
NoProfile == [buttons |-> -1]

ProfileInit ==
  /\ source = NoProfile
  /\ \/ /\ published \in Descriptions
        /\ InitWith(BuildDescriptor(published))
     \/ /\ published = NoProfile
        /\ Init

Publish == Parse /\ UNCHANGED <<published, source>>

Published == Finish /\ UNCHANGED <<published, source>>

\* Bound: a controller sends one state, as often as it likes.
Send ==
  /\ source' \in IF source = NoProfile THEN InputStates(published) ELSE {source}
  /\ Receive(0, Encode(published, source'))
  /\ UNCHANGED published

\* A profile without controls has nothing to send.
Refused == phase = "refused" /\ UNCHANGED <<vars, published, source>>

Foreign == Next /\ UNCHANGED <<published, source>>

ProfileNext ==
  \/ published # NoProfile /\ (Publish \/ Published \/ Send \/ Refused)
  \/ published = NoProfile /\ Foreign

ProfileSpec == ProfileInit /\ [][ProfileNext]_<<vars, published, source>>

(***************************************************************************)
(* Properties.                                                             *)
(***************************************************************************)
\* The axes a reader of HID takes for axes: those on the generic desktop page.
ReadableAxes ==
  SelectSeq([i \in DOMAIN published.axes |-> i],
            LAMBDA i : /\ published.axes[i].page = Desktop
                       /\ published.axes[i].usage \in AxisUsages)

\* A report of the profile has been read.
Shown == published # NoProfile /\ \E c \in Controls : carried[c] # NoReport

\* A reader finds in the descriptor the controls of the description, no more
\* and no fewer, whatever of buttons, hats, axes, battery and motion it has.
DescriptorIsComplete ==
  phase = "ready" /\ published # NoProfile =>
    /\ description.buttons = published.buttons
    /\ description.hats = published.hats
    /\ description.motion = published.motion
    /\ description.axes = [i \in DOMAIN ReadableAxes |->
         [usage |-> published.axes[ReadableAxes[i]].usage,
          unipolar |-> published.axes[ReadableAxes[i]].min >= 0]]

\* A reader of the report sees every axis at the value it was encoded from
\* (source_codec_descriptor_test), for any range a description may state.
AxesReachReader ==
  Shown =>
    \A i \in DOMAIN ReadableAxes :
      state[[kind |-> "axis", index |-> i - 1]] = source.axes[ReadableAxes[i]]

\* The report shows a reader the state it encodes: every counted button, every
\* hat with 8 for neutral, every axis the reader takes for one at its value,
\* and motion, although padding, battery and other axes lie between them.
ReportShowsState ==
  Shown =>
    /\ \A i \in 0..(published.buttons - 1) :
         (state[[kind |-> "button", index |-> i]] = 1) = (i \in source.buttons)
    /\ \A i \in 1..published.hats :
         state[[kind |-> "hat", index |-> i - 1]] = source.hats[i]
    /\ AxesReachReader
    /\ published.motion =>
         \A i \in 1..3 :
           state[[kind |-> "motion", index |-> i - 1]] = source.motion[i]
===============================================================================

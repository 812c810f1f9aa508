----------------------------- MODULE SwitchReports -----------------------------
(***************************************************************************)
(* The input reports of the two Switch controllers, as the profiles encode  *)
(* them and as the source codecs decode them.                               *)
(*                                                                         *)
(* The button bytes of a report are a set of bits, numbered from the byte   *)
(* of the right hand: right, shared, left, and of a Switch 2 a fourth byte. *)
(* A state has buttons, the first hat, one stick and the battery's percent; *)
(* the other stick is packed alike, and motion is left out.                 *)
(***************************************************************************)
EXTENDS Integers, Sequences

SwitchPro == "switch_pro"
Switch2Pro == "switch_2_pro"

\* C++ division, which truncates toward zero.
Quotient(a, b) == IF a >= 0 THEN a \div b ELSE -((-a) \div b)

\* lround of a quotient, half away from zero.
Rounded(a, b) ==
  IF a >= 0 THEN (2 * a + b) \div (2 * b) ELSE -((2 * (-a) + b) \div (2 * b))

Clamped(value, low, high) ==
  IF value < low THEN low ELSE IF value > high THEN high ELSE value

\* Mutant: the sticks use all twelve bits, as those of a Switch 2 do.
FullScale(axis) == 2048 + Quotient(axis * 2048, 32768)

\* An axis on the twelve bits of a Switch Pro stick.
Scaled(axis) == Clamped(2048 + Quotient(axis * 1536, 32768), 0, 4095)

\* The same for a Switch 2, whose sticks use all twelve bits: 4095 / 65535.
Scaled2(axis) == Clamped(Rounded((axis + 32768) * 273, 4369), 0, 4095)

\* Mutant: the codec takes the sticks to use all twelve bits.
NormalizedFully(raw) == Clamped((raw - 2048) * 16, -32768, 32767)

\* normalize_switch_stick, of both codecs: 32768 / 1536.
Normalized(raw) == Clamped(Rounded((raw - 2048) * 64, 3), -32768, 32767)

InvertAxis(axis) == -axis - 1

\* Mutant: positive values are divided and multiplied by ranges that differ, too.
MappedUnevenly(axis) == IF axis > 0 THEN Quotient(axis * 32766, 32767) ELSE axis

\* apply_axis_calibration of the identity mapping every Controller has, on an
\* axis between decode_input and encode.  Negative values are divided by 32768
\* and multiplied by 32767: in the float arithmetic of the code that takes one
\* from each below -16416.
Mapped(axis) == IF axis < -16416 THEN axis + 1 ELSE axis

\* switch_battery_connection and switch_battery_percent.
Connection(percent) ==
  IF percent = 0 THEN 145
  ELSE IF percent >= 80 THEN 129
  ELSE IF percent >= 50 THEN 97
  ELSE IF percent >= 20 THEN 65 ELSE 33

Percent(connection) ==
  CASE connection \div 16 = 8 -> 100
    [] connection \div 16 = 6 -> 60
    [] connection \div 16 = 4 -> 30
    [] connection \div 16 = 2 -> 10
    [] OTHER -> 0

(***************************************************************************)
(* Buttons.                                                                *)
(***************************************************************************)
\* Mutant: the d-pad's bits follow the order of its buttons.
BitsInOrder == <<2, 3, 0, 1, 22, 6, 23, 7, 8, 9, 11, 10, 16, 17, 18, 19, 12, 13>>

\* The bit a profile sets for each of buttons 0 to 17, and of a Switch 2 for
\* buttons 18 to 20.
ProfileBits == <<2, 3, 0, 1, 22, 6, 23, 7, 8, 9, 11, 10, 17, 16, 19, 18, 12, 13>>
ProfileBits2 == ProfileBits \o <<14, 24, 25>>

Down == 16
Up == 17
Right == 18
Left == 19
Directions == {Down, Up, Right, Left}

\* apply_hat: a hat's directions, clockwise from north.
HatBits(hat) ==
  (IF hat \in {0, 1, 7} THEN {Up} ELSE {})
    \cup (IF hat \in {1, 2, 3} THEN {Right} ELSE {})
    \cup (IF hat \in {3, 4, 5} THEN {Down} ELSE {})
    \cup (IF hat \in {5, 6, 7} THEN {Left} ELSE {})

\* The hat counts only for a d-pad no button of which is pressed.
WithHat(bits, hasHat, hat) ==
  bits \cup (IF hasHat /\ bits \cap Directions = {} THEN HatBits(hat) ELSE {})

ButtonBitsOf(layout, state) ==
  {layout[b + 1] : b \in state.buttons \cap (0..(Len(layout) - 1))}

\* apply_mapping and encode of the two profiles, for a description with or
\* without a hat.
EncodeSwitch(state, hasHat) ==
  [bits |-> WithHat(ButtonBitsOf(ProfileBits, state), hasHat, state.hat),
   x |-> Scaled(Mapped(state.x)), y |-> Scaled(Mapped(state.y)),
   battery |-> Connection(state.battery)]

EncodeSwitch2(state, hasHat) ==
  [bits |-> WithHat(ButtonBitsOf(ProfileBits2, state), hasHat, state.hat),
   x |-> Scaled2(Mapped(state.x)), y |-> Scaled2(Mapped(state.y)),
   battery |-> 0]

\* The button a codec reads each bit for, or -1.
Unused == -1
CodecButtons ==
  <<2, 3, 0, 1, Unused, Unused, 5, 7, 8, 9, 11, 10, 16, 17, Unused, Unused,
    13, 12, 15, 14, Unused, Unused, 4, 6>>
CodecButtons2 ==
  <<2, 3, 0, 1, Unused, Unused, 5, 7, 8, 9, 11, 10, 16, 17, 18, Unused,
    13, 12, 15, 14, Unused, Unused, 4, 6, 19, 20>>

ButtonsOf(layout, bits) ==
  {layout[bit + 1] : bit \in bits \cap (0..(Len(layout) - 1))} \ {Unused}

\* dpad_hat: the hat of pressed directions, neutral for opposing ones.
DpadHat(bits) ==
  LET hats == {h \in 0..7 : HatBits(h) = bits \cap Directions}
  IN  IF hats = {} THEN 8 ELSE CHOOSE h \in hats : TRUE

\* decode_input of the two codecs.
DecodeSwitch(report) ==
  [buttons |-> ButtonsOf(CodecButtons, report.bits), hat |-> 8,
   x |-> Normalized(report.x), y |-> Normalized(report.y),
   battery |-> Percent(report.battery)]

DecodeSwitch2(report) ==
  [buttons |-> ButtonsOf(CodecButtons2, report.bits),
   hat |-> DpadHat(report.bits),
   x |-> Normalized(report.x), y |-> InvertAxis(Normalized(report.y)),
   battery |-> 0]
===============================================================================

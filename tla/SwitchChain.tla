------------------------------ MODULE SwitchChain ------------------------------
(***************************************************************************)
(* A Switch controller seen through a chain of bridges: each bridge decodes *)
(* the report with the source codec its sender's identity calls for, and    *)
(* publishes a Switch profile whose report the next bridge reads.           *)
(***************************************************************************)
EXTENDS SwitchReports, Functions

CONSTANTS
  Pads,     \* what a controller may report: its kind and its report
  MaxHops   \* bound: the bridges of a chain

ASSUME MaxHopsAssumption == MaxHops \in Nat

\* Bits of the button bytes and twelve-bit sticks.
Bits == 0..25
Values == {value \in Nat : value <= 4095}
Reports == [bits : SUBSET Bits, x : Values, y : Values, battery : 0..255]

Controllers == [kind : {SwitchPro, Switch2Pro}, report : Reports]

ASSUME PadsAssumption == Pads \subseteq Controllers

VARIABLES
  kind,     \* the kind of controller the report comes from
  report,   \* the report as it is now
  pad,      \* history: the controller itself
  through   \* history: the profiles passed, in order

vars == <<kind, report, pad, through>>

\* fill_switch_description and fill_switch2_description: only the latter has
\* a hat.
HasHat == kind = Switch2Pro

Decode == IF kind = SwitchPro THEN DecodeSwitch(report) ELSE DecodeSwitch2(report)

Hop(to) ==
  /\ Len(through) < MaxHops
  /\ report' = IF to = SwitchPro THEN EncodeSwitch(Decode, HasHat)
               ELSE EncodeSwitch2(Decode, HasHat)
  /\ kind' = to
  /\ through' = Append(through, to)
  /\ UNCHANGED pad

Init ==
  /\ pad \in Pads
  /\ kind = pad.kind
  /\ report = pad.report
  /\ through = <<>>

\* The host of the last bridge keeps what it was shown.
Arrived == Len(through) = MaxHops /\ UNCHANGED vars

Next == (\E to \in {SwitchPro, Switch2Pro} : Hop(to)) \/ Arrived

Spec == Init /\ [][Next]_vars

(***************************************************************************)
(* Properties.                                                             *)
(***************************************************************************)
\* Reports keep their type, and bridges are Switch controllers.
TypeOK ==
  /\ kind \in {SwitchPro, Switch2Pro}
  /\ report \in Reports
  /\ pad \in Controllers
  /\ through \in Seq({SwitchPro, Switch2Pro})

\* Every button pressed on the pad, and no other, is read from the last report,
\* but for the three a Switch Pro does not have once one is on the way: the
\* tables of two profiles and two codecs agree, and the hat a Switch 2 shows
\* beside its d-pad neither adds a direction nor takes one.
ButtonsSurvive ==
  LET known == IF SwitchPro \in Range(through) \cup {pad.kind} THEN 0..17 ELSE 0..20
      layout == IF pad.kind = SwitchPro THEN CodecButtons ELSE CodecButtons2
  IN  Decode.buttons = ButtonsOf(layout, pad.report.bits) \cap known

\* At most steps nearer the center than the value cut off at the calibrated
\* range, and on the same side of it.
Near(shown, raw, steps) ==
  LET cut == Clamped(raw, 512, 3583)
  IN  IF cut >= 2048 THEN shown \in Clamped(cut - steps, 2048, cut)..cut
      ELSE shown \in cut..Clamped(cut + steps, cut, 2048)

\* Behind Switch Pro profiles alone a stick shows its twelve-bit value, or one
\* nearer the center by at most a step for every bridge on the way; the y axis
\* of a Switch 2 comes out mirrored, as its codec means it to.
SticksSurvive ==
  Range(through) = {SwitchPro} =>
    /\ Near(report.x, pad.report.x, Len(through))
    /\ Near(report.y, IF pad.kind = SwitchPro THEN pad.report.y
                      ELSE 4096 - pad.report.y,
            Len(through))

\* The first bridge may round what a Switch Pro reports: the second and every
\* later one in a chain of Switch Pro profiles passes buttons, battery and the
\* upper half of a stick on as they are, and takes at most a step from the lower
\* half, where the identity mapping is not quite the identity.
ChainSettles ==
  [][pad.kind = SwitchPro /\ through # <<>> /\ Range(through') = {SwitchPro}
       => /\ report'.bits = report.bits
          /\ report'.battery = report.battery
          /\ report.x >= 2048 => report'.x = report.x
          /\ report.x < 2048 => report'.x \in {report.x, report.x + 1}]_vars
===============================================================================

--------------------------- MODULE MCPhysicalSource ---------------------------
\* A pad with two buttons of one usage, a third beyond the maximum and a hat,
\* a wheel with two axes, one of them without a range, and a virtual device.
EXTENDS PhysicalHidSource, TLC

CONSTANTS pad, wheel, ghost

Element(device, kind, usage, position, min, max) ==
  [device |-> device, kind |-> kind, usage |-> usage, position |-> position,
   min |-> min, max |-> max]

MCDevices == {pad, wheel, ghost}
MCVirtualDevices == {ghost}
MCElements == {
  Element(pad, "button", 1, 3, 0, 1), Element(pad, "button", 1, 1, 0, 1),
  Element(pad, "button", 2, 2, 0, 1), Element(pad, "hat", 57, 4, 1, 2),
  Element(wheel, "axis", 48, 2, 0, 0), Element(wheel, "axis", 49, 1, -1, 2)}
MCRegistryIds == (pad :> <<1, 2>>) @@ (wheel :> <<1, 3>>) @@ (ghost :> <<1, 4>>)
MCRawValues == {0, 2}
MCMaximum == ("button" :> 2) @@ ("hat" :> 1) @@ ("axis" :> 2)
===============================================================================

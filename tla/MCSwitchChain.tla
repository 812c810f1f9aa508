----------------------------- MODULE MCSwitchChain -----------------------------
\* Every stick position, with its mirror image on the other axis; every single
\* button bit, used or not, pairs of d-pad directions, none and all; every
\* battery nibble.
EXTENDS RumbleChain

Pad(of, pressed, x, battery) ==
  [kind |-> of,
   report |-> [bits |-> pressed, x |-> x, y |-> 4095 - x, battery |-> battery]]

Pressed == {{}, 0..25} \cup {{b} : b \in 0..25}
             \cup {{a, b} : a, b \in Directions} \cup {Directions}

MCPads ==
  {Pad(SwitchPro, {}, x, 129) : x \in 0..4095}
    \cup {Pad(Switch2Pro, {}, x, 0) : x \in 0..4095}
    \cup {Pad(SwitchPro, bits \cap 0..23, 2048, 65) : bits \in Pressed}
    \cup {Pad(Switch2Pro, bits, 2048, 0) : bits \in Pressed}
    \cup {Pad(SwitchPro, {}, 2048, 16 * nibble) : nibble \in 0..15}

\* Every frequency and every level of a band of a Switch Pro, and levels beyond
\* the table; every frequency and every amplitude of a band of a Switch 2.
Coded(frequency, amplitude) == [frequency |-> frequency, amplitude |-> amplitude]

Packet(i, last, frequencies, step) ==
  [part \in Parts |->
     LET j == IF part[1] = "left" THEN i ELSE last - i
     IN  Coded((j * frequencies[part[2]]) % 1024, step * (IF part[2] = "high" THEN j ELSE (j + 32) % (last + 1)))]

MCRumbles(of, behind) ==
  IF behind \notin {Pad(SwitchPro, {}, 2048, 129), Pad(Switch2Pro, {}, 2048, 0)} THEN {}
  ELSE IF of = SwitchPro
  THEN {Packet(i, 127, [high |-> 4, low |-> 1], 1) : i \in 0..127}
  ELSE {Packet(i, 1023, [high |-> 1, low |-> 1], 64) : i \in 0..1023}
===============================================================================

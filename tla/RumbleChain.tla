------------------------------ MODULE RumbleChain ------------------------------
(***************************************************************************)
(* The way back through the chain: the host of the last bridge writes a     *)
(* rumble packet, and every bridge passes it to its source, as it is or, if *)
(* profile and source speak different protocols, decoded to frequencies and *)
(* amplitudes and encoded again.                                            *)
(*                                                                         *)
(* A packet has a frequency and an amplitude for two bands of two motors.   *)
(* Those of a Switch Pro are codes: a frequency on a logarithmic scale, and *)
(* the index of a level in kSwitchAmplitudes, whose bytes are 2 * level in  *)
(* the high band and 64 + level / 2, with a bit for the odd ones, in the    *)
(* low band (less than 64 is level 0).  Those of a Switch 2 are numbers     *)
(* proportional to both.  Packet counters are left out.                     *)
(***************************************************************************)
EXTENDS SwitchChain, FiniteSets

CONSTANT
  Rumbles(_, _)  \* what the host of a profile writes, in the chain of a pad

VARIABLES
  rumble,   \* the packet on its way to the pad
  bridges,  \* how many bridges it still has to pass
  written   \* history: the packet of the host

rumbleVars == <<vars, rumble, bridges, written>>

Parts == {"left", "right"} \X {"high", "low"}
NoRumble == [part \in Parts |-> [frequency |-> -1, amplitude |-> -1]]

\* What the bits of a packet can hold: levels beyond the table, too, and of a
\* Switch 2 the upper ten bits of an amplitude.
Bands(controller, band) ==
  IF controller = SwitchPro
  THEN [frequency : IF band = "high" THEN 0..511 ELSE 0..127, amplitude : 0..383]
  ELSE [frequency : 0..1023, amplitude : {64 * n : n \in 0..1023}]

IsPacket(controller, packet) ==
  /\ DOMAIN packet = Parts
  /\ \A part \in Parts : packet[part] \in Bands(controller, part[2])

ASSUME RumblesAssumption ==
  \A controller \in {SwitchPro, Switch2Pro}, behind \in Pads :
    \A packet \in Rumbles(controller, behind) : IsPacket(controller, packet)

-----------------------------------------------------------------------------
(* The bands of a Switch Pro *)

\* kSwitchAmplitudes, per mille.
Amplitudes ==
  << 0, 10, 12, 14, 17, 20, 24, 28, 33, 40, 47, 56, 67, 80, 95, 112, 117,
     123, 128, 134, 140, 146, 152, 159, 166, 173, 181, 189, 198, 206, 215,
     225, 230, 235, 240, 245, 251, 256, 262, 268, 273, 279, 286, 292, 298,
     305, 311, 318, 325, 332, 340, 347, 355, 362, 370, 378, 387, 395, 404,
     413, 422, 431, 440, 450, 460, 470, 480, 491, 501, 512, 524, 535, 547,
     559, 571, 584, 596, 609, 623, 636, 650, 665, 679, 694, 709, 725, 741,
     757, 773, 790, 808, 825, 843, 862, 881, 900, 920, 940, 960, 981, 1000 >>

Levels == 0..100
PermilleOf(level) == Amplitudes[Clamped(level, 0, 100) + 1]

\* decode_high_amplitude and decode_low_amplitude: a code beyond the table is
\* its last.
AmplitudeOf(level) == (PermilleOf(level) * 65535) \div 1000

\* Mutant: the level below, not the nearest.
LevelBelow(amplitude) ==
  LET target == (amplitude * 1000) \div 65535
  IN  Cardinality({level \in Levels : PermilleOf(level) <= target}) - 1

\* The first of the levels nearest to a number of thousandths.
NearestLevels ==
  [target \in 0..1000 |->
     CHOOSE level \in Levels : \A other \in Levels :
       LET distance(l) == IF PermilleOf(l) < target THEN target - PermilleOf(l)
                          ELSE PermilleOf(l) - target
       IN  \/ distance(level) < distance(other)
           \/ distance(level) = distance(other) /\ level <= other]

NearestLevel(amplitude) == NearestLevels[(amplitude * 1000 + 32767) \div 65535]

\* 2^(i / 64), i in 0..63, times 2^18.
Roots ==
  << 262144, 264999, 267884, 270801, 273750, 276731, 279744, 282791,
     285870, 288983, 292130, 295311, 298527, 301777, 305063, 308385,
     311744, 315138, 318570, 322039, 325546, 329091, 332674, 336297,
     339959, 343661, 347403, 351186, 355010, 358876, 362784, 366734,
     370728, 374765, 378845, 382971, 387141, 391357, 395618, 399926,
     404281, 408684, 413134, 417633, 422180, 426778, 431425, 436123,
     440872, 445673, 450526, 455432, 460391, 465404, 470472, 475595,
     480774, 486010, 491302, 496652, 502060, 507527, 513054, 518640 >>
Octaves == <<1, 2, 4, 8, 16, 32, 64>>
Root(i) == 10 * Octaves[(i \div 64) + 1] * Roots[(i % 64) + 1]

\* frequency_from_encoded: 10 Hz * 2^(encoded / 32).
FrequencyFromEncoded(encoded) == Rounded(Root(2 * encoded), 262144)

\* encoded_frequency: the logarithm, rounded: how many halves between two codes
\* lie below.
EncodedFrequencies ==
  [hz \in 41..1253 |->
     64 + Cardinality({encoded \in 65..192 : hz * 262144 >= Root(2 * encoded - 1)})]
EncodedFrequency(hz) == EncodedFrequencies[Clamped(hz, 41, 1253)]

\* high_frequency_from_code, low_frequency_from_code, and back.
FrequencyOf(band, code) ==
  FrequencyFromEncoded(IF band = "high" THEN Clamped((code \div 4) + 96, 96, 192)
                       ELSE Clamped(code + 64, 64, 191))
FrequencyCode(band, hz) ==
  IF band = "high" THEN 4 * (Clamped(EncodedFrequency(hz), 96, 192) - 96)
  ELSE Clamped(EncodedFrequency(hz), 64, 191) - 64

\* decode_switch1_hd_motor and encode_switch1_hd_motor, one band: a frequency in
\* Hz, 0 for none, and an amplitude of 16 bits.
DefaultFrequency(band) == IF band = "high" THEN 320 ELSE 160

DecodeBand(band, coded) ==
  [hz |-> FrequencyOf(band, coded.frequency), amplitude |-> AmplitudeOf(coded.amplitude)]

EncodeBand(band, state) ==
  [frequency |-> FrequencyCode(band, IF state.hz = 0 THEN DefaultFrequency(band)
                                     ELSE state.hz),
   amplitude |-> NearestLevel(state.amplitude)]

-----------------------------------------------------------------------------
(* The bands of a Switch 2 *)

\* The code of the default frequency, and the greatest amplitude.
DefaultCode2(band) == IF band = "high" THEN 391 ELSE 274
RumbleMax2 == 29000

\* scale_switch2_frequency, unscale_switch2_frequency.
FrequencyCode2(band, hz) ==
  IF hz = 0 THEN DefaultCode2(band)
  ELSE Clamped(Rounded(DefaultCode2(band) * hz, DefaultFrequency(band)), 1, 1023)
FrequencyOf2(band, code) ==
  IF code = 0 THEN 0
  ELSE Clamped(Rounded(code * DefaultFrequency(band), DefaultCode2(band)), 1, 65535)

\* decode_switch2_usb_motor_rumble and encode_switch2_usb_motor: ten bits of a
\* frequency, and the upper ten of an amplitude.
DecodeBand2(band, coded) ==
  [hz |-> FrequencyOf2(band, coded.frequency),
   amplitude |-> IF coded.amplitude >= RumbleMax2 THEN 65535
                 ELSE (coded.amplitude * 65535) \div RumbleMax2]

EncodeBand2(band, state) ==
  LET amplitude == (state.amplitude * RumbleMax2) \div 65535
  IN  [frequency |-> FrequencyCode2(band, state.hz),
       amplitude |-> amplitude - (amplitude % 64)]

-----------------------------------------------------------------------------
(* The chain *)

\* The source of a bridge: the pad, or the profile of the bridge before.
SourceOf(bridge) == IF bridge = 1 THEN pad.kind ELSE through[bridge - 1]

\* accepts_native_reports_from
Native(bridge) == SourceOf(bridge) = through[bridge]

\* decode_output of the profile, encode_output of the source's codec.
Translated(profile) ==
  [part \in Parts |->
     IF profile = SwitchPro THEN EncodeBand2(part[2], DecodeBand(part[2], rumble[part]))
     ELSE EncodeBand(part[2], DecodeBand2(part[2], rumble[part]))]

\* A report reaches the next bridge, while no rumble is on its way back.
Shows ==
  /\ rumble = NoRumble
  /\ Next
  /\ UNCHANGED <<rumble, bridges, written>>

HostRumbles ==
  /\ rumble = NoRumble /\ through # <<>>
  /\ \E packet \in Rumbles(kind, pad) : rumble' = packet /\ written' = packet
  /\ bridges' = Len(through)
  /\ UNCHANGED vars

\* raw_output_handler of a bridge.
PassesBack ==
  /\ bridges > 0
  /\ rumble' = IF Native(bridges) THEN rumble ELSE Translated(through[bridges])
  /\ bridges' = bridges - 1
  /\ UNCHANGED <<vars, written>>

\* The pad rumbles.
Felt == rumble # NoRumble /\ bridges = 0

RumbleInit == Init /\ rumble = NoRumble /\ bridges = 0 /\ written = NoRumble

RumbleNext == Shows \/ HostRumbles \/ PassesBack \/ (Felt /\ UNCHANGED rumbleVars)

RumbleSpec == RumbleInit /\ [][RumbleNext]_rumbleVars

-----------------------------------------------------------------------------
(* Property *)

Permille(controller, amplitude) ==
  IF controller = SwitchPro THEN PermilleOf(amplitude)
  ELSE Clamped((amplitude * 1000) \div RumbleMax2, 0, 1000)

Hertz(controller, band, code) ==
  IF controller = SwitchPro THEN FrequencyOf(band, code)
  ELSE LET hz == FrequencyOf2(band, code)
       IN  IF hz = 0 THEN DefaultFrequency(band) ELSE hz

Translations == Cardinality({bridge \in DOMAIN through : ~Native(bridge)})

\* What a Switch Pro writes is felt no stronger, weaker by three thousandths a
\* translation at most, and not at all only if it was silence; what a Switch 2
\* writes is off by twelve thousandths at most, and lost only below five.
StrengthKept(meant, felt) ==
  IF kind = SwitchPro
  THEN felt \in (meant - 3 * Translations)..meant /\ (felt = 0) = (meant = 0)
  ELSE felt \in (meant - 12)..(meant + 12) /\ (felt = 0 => meant < 5) /\ (meant = 0 => felt = 0)

\* Within a hertz or two hundredths of the frequency meant, or of the nearest one that
\* both controllers can express.
PitchKept(band, meant, felt) ==
  LET cut == IF band = "high" THEN Clamped(meant, 80, 640) ELSE Clamped(meant, 41, 597)
      slack == Clamped(cut \div 50, 1, cut)
  IN  felt \in (cut - slack)..(cut + slack)

\* Through any chain every band of every motor keeps its strength and its pitch;
\* where all speak one protocol the packet arrives as it was written.
RumbleSurvives ==
  Felt =>
    IF Translations = 0 THEN rumble = written
    ELSE \A part \in Parts :
           /\ StrengthKept(Permille(kind, written[part].amplitude),
                           Permille(pad.kind, rumble[part].amplitude))
           /\ PitchKept(part[2], Hertz(kind, part[2], written[part].frequency),
                        Hertz(pad.kind, part[2], rumble[part].frequency))

=============================================================================

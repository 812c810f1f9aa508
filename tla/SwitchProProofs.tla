----------------------------- MODULE SwitchProProofs -----------------------------
(***************************************************************************)
(* Proofs about SwitchProProfile, for any number of rumble bytes, any       *)
(* counters and rumbles, any reads of the flash and any axis values.        *)
(***************************************************************************)
EXTENDS SwitchProProfile, SequenceTheorems, TLAPS

Bytes == 0..255

\* The host's reports can be told apart: a subcommand without its id does not
\* start with a counter that looks like one, and USB commands keep their id.
Framed ==
  /\ 1 \notin Counters \/ RumbleSubcommand \notin Unframed
  /\ UsbCommand \notin Unframed

SixteenBits(axis) == axis \in Int /\ -32768 <= axis /\ axis <= 32767

TypeInv ==
  /\ SixteenBits(lastAxis)
  /\ settings \in [mode : Bytes, leds : Bytes, imu : BOOLEAN, vibration : BOOLEAN]
  /\ DOMAIN host = {"counter", "rumble", "leds", "asked", "reply", "flash"}
  /\ host.counter \in 0..15
  /\ host.leds \in Bytes

\* The profile's LEDs are those the host has set, what a host reads is an
\* address it asked for, and what it has learned of the flash is true.
HostInv ==
  /\ settings.leds = host.leds
  /\ host.asked.sub = SpiRead => host.asked.arguments \in Nat \X Bytes
  /\ \A a \in DOMAIN host.flash : host.flash[a] = FlashByte(a)

IInv ==
  /\ TypeInv
  /\ HostPacketsAreRead
  /\ RepliesAnswer
  /\ HostInv

-----------------------------------------------------------------------------
(* Packets.                                                                *)

\* A packet after its id: it carries a counter and a rumble.
Carries(body, counter, rumble) ==
  /\ body \in Seq(Nat)
  /\ Len(body) >= RumbleLength + 1
  /\ body[1] = counter
  /\ SubSeq(body, 2, RumbleLength + 1) = rumble

LEMMA RumbleTypes ==
  ASSUME NEW rumble \in Rumbles
  PROVE  /\ RumbleLength \in Nat \ {0}
         /\ rumble \in Seq(Nat)
         /\ Len(rumble) = RumbleLength
<1>1. RumbleLength \in Nat \ {0} /\ Len(rumble) = RumbleLength
  BY ProfileAssumption DEF ProfileAssumption
<1>4. rumble \in Seq(0..255)
  BY ProfileAssumption DEF ProfileAssumption
<1>2. 0..255 \subseteq Nat
  OBVIOUS
<1>3. rumble \in Seq(Nat)
  BY <1>4, <1>2, SeqMonotonic
<1> QED BY <1>1, <1>3

\* A sequence behind one more element.
LEMMA Prefixed ==
  ASSUME NEW x \in Nat, NEW s \in Seq(Nat)
  PROVE  /\ <<x>> \o s \in Seq(Nat)
         /\ <<x>> \o s # <<>>
         /\ Len(<<x>> \o s) = Len(s) + 1
         /\ Len(s) \in Nat
         /\ (<<x>> \o s)[1] = x
         /\ Head(<<x>> \o s) = x
         /\ \A i \in 1..Len(s) : (<<x>> \o s)[i + 1] = s[i]
         /\ Tail(<<x>> \o s) = s
<1> DEFINE t == <<x>> \o s
<1>1. <<x>> \in Seq(Nat) /\ Len(<<x>>) = 1 /\ <<x>>[1] = x
  OBVIOUS
<1>2. Len(s) \in Nat
  BY LenProperties
<1>3. /\ t \in Seq(Nat)
      /\ Len(t) = 1 + Len(s)
      /\ \A i \in 1..(1 + Len(s)) : t[i] = IF i <= 1 THEN <<x>>[i] ELSE s[i - 1]
  BY <1>1, ConcatProperties
<1> HIDE DEF t
<1>4. t[1] = x /\ \A i \in 1..Len(s) : t[i + 1] = s[i]
  BY <1>1, <1>2, <1>3
<1>5. t # <<>>
  BY <1>2, <1>3, EmptySeq
<1>6. /\ Tail(t) \in Seq(Nat)
      /\ Len(Tail(t)) = Len(t) - 1
      /\ \A i \in 1..Len(Tail(t)) : Tail(t)[i] = t[i + 1]
  BY <1>3, <1>5, HeadTailProperties
<1>7. Len(Tail(t)) = Len(s)
  BY <1>2, <1>3, <1>6
<1>8. \A i \in 1..Len(s) : Tail(t)[i] = s[i]
  BY <1>4, <1>6, <1>7
<1>9. Tail(t) = s
  BY <1>6, <1>7, <1>8, SeqEqual
<1>10. Head(t) = x
  BY <1>4
<1>11. Len(t) = Len(s) + 1
  BY <1>2, <1>3
<1> QED BY <1>2, <1>3, <1>4, <1>5, <1>9, <1>10, <1>11 DEF t

\* What stands behind the first element of a sequence in front of another.
LEMMA BehindFirst ==
  ASSUME NEW x \in Nat, NEW s \in Seq(Nat), NEW t \in Seq(Nat), s # <<>>
  PROVE  SubSeq((<<x>> \o s) \o t, 2, Len(s) + 1) = s
<1> DEFINE front == <<x>> \o s
<1>1. /\ front \in Seq(Nat) /\ front # <<>> /\ Len(front) = Len(s) + 1
      /\ Tail(front) = s /\ Len(s) \in Nat \ {0}
  BY Prefixed, EmptySeq
<1> HIDE DEF front
<1>2. SubSeq(front \o t, 2, Len(s) + 1) = SubSeq(front, 2, Len(s) + 1)
  <2>1. 2 \in 1..Len(front) /\ Len(s) + 1 \in 1..Len(front)
    BY <1>1
  <2> QED BY <1>1, <2>1, SubSeqOfConcat1
<1>3. SubSeq(front, 2, Len(s) + 1) = s
  BY <1>1, TailIsSubSeq
<1> QED BY <1>2, <1>3 DEF front

\* What stands behind a sequence.
LEMMA BehindFront ==
  ASSUME NEW s \in Seq(Nat), NEW t \in Seq(Nat), t # <<>>
  PROVE  /\ (s \o t)[Len(s) + 1] = t[1]
         /\ SubSeq(s \o t, Len(s) + 2, Len(s \o t)) = Tail(t)
<1> DEFINE u == s \o t
<1>1. Len(s) \in Nat /\ Len(t) \in Nat /\ Len(t) >= 1
  <2>1. \A n \in Nat \ {0} : n \in Nat /\ n >= 1
    OBVIOUS
  <2> QED BY <2>1, LenProperties, EmptySeq
<1>2. /\ u \in Seq(Nat)
      /\ Len(u) = Len(s) + Len(t)
      /\ \A i \in 1 .. Len(s) + Len(t) :
           u[i] = IF i <= Len(s) THEN s[i] ELSE t[i - Len(s)]
  BY ConcatProperties
<1> HIDE DEF u
<1>3. u[Len(s) + 1] = t[1]
  <2>1. /\ Len(s) + 1 \in 1 .. Len(s) + Len(t)
        /\ ~(Len(s) + 1 <= Len(s)) /\ Len(s) + 1 - Len(s) = 1
    BY <1>1
  <2> QED BY <1>2, <2>1
<1>4. SubSeq(u, Len(s) + 2, Len(u)) = Tail(t)
  <2>3. Len(u) = Len(s) + Len(t)
    BY <1>2
  <2>1. CASE Len(t) = 1
    <3>1. SubSeq(u, Len(s) + 2, Len(u)) = <<>>
      BY <1>1, <1>2, <2>1, SubSeqEmpty
    <3>2. Tail(t) \in Seq(Nat) /\ Len(Tail(t)) = 0
      BY <2>1, HeadTailProperties
    <3> QED BY <3>1, <3>2, EmptySeq
  <2>2. CASE Len(t) >= 2
    <3>1. Len(s) + 2 \in Len(s) + 1 .. Len(s) + Len(t)
      BY <1>1, <2>2
    <3>3. Len(u) \in Len(s) + 1 .. Len(s) + Len(t)
      BY <1>1, <2>3
    <3>4. Len(s) + 2 - Len(s) = 2 /\ Len(u) - Len(s) = Len(t)
      BY <1>1, <2>3
    <3>2. SubSeq(s \o t, Len(s) + 2, Len(u)) = SubSeq(t, 2, Len(t))
      BY <3>1, <3>3, <3>4, SubSeqOfConcat2
    <3> QED BY <3>2, TailIsSubSeq DEF u
  <2>4. Len(t) = 1 \/ Len(t) >= 2
    <3>1. \A n \in Nat : n >= 1 => n = 1 \/ n >= 2
      OBVIOUS
    <3> QED BY <1>1, <3>1
  <2> QED BY <2>1, <2>2, <2>4
<1> QED BY <1>3, <1>4 DEF u

LEMMA RumbleBody ==
  ASSUME NEW counter \in 0..15, NEW rumble \in Rumbles
  PROVE  /\ Carries(<<counter>> \o rumble, counter, rumble)
         /\ Len(<<counter>> \o rumble) = RumbleLength + 1
<1> DEFINE body == <<counter>> \o rumble
<1>1. /\ RumbleLength \in Nat \ {0} /\ counter \in Nat
      /\ rumble \in Seq(Nat) /\ Len(rumble) = RumbleLength
  BY RumbleTypes
<1>2. /\ body \in Seq(Nat) /\ body # <<>>
      /\ Len(body) = RumbleLength + 1
      /\ body[1] = counter
      /\ Tail(body) = rumble
  BY <1>1, Prefixed
<1> HIDE DEF body
<1>3. SubSeq(body, 2, RumbleLength + 1) = rumble
  BY <1>2, TailIsSubSeq
<1> QED BY <1>1, <1>2, <1>3 DEF body, Carries

\* Behind them it carries a subcommand and its arguments.
CarriesSubcommand(body, sub, arguments) ==
  /\ Len(body) >= RumbleLength + 2
  /\ body[RumbleLength + 2] = sub
  /\ SubSeq(body, RumbleLength + 3, Len(body)) = arguments

LEMMA SubcommandBody ==
  ASSUME NEW counter \in 0..15, NEW rumble \in Rumbles,
         NEW sub \in Nat, NEW arguments \in Seq(Nat)
  PROVE  /\ Carries(<<counter>> \o rumble \o <<sub>> \o arguments, counter, rumble)
         /\ CarriesSubcommand(<<counter>> \o rumble \o <<sub>> \o arguments,
                              sub, arguments)
<1> DEFINE front == <<counter>> \o rumble
           rest == <<sub>> \o arguments
           body == front \o rest
<1>1. /\ RumbleLength \in Nat \ {0} /\ counter \in Nat
      /\ rumble \in Seq(Nat) /\ Len(rumble) = RumbleLength
  BY RumbleTypes
<1>2. rumble # <<>>
  BY <1>1, EmptySeq
<1>3. /\ front \in Seq(Nat) /\ Len(front) = RumbleLength + 1 /\ front[1] = counter
  BY <1>1, Prefixed
<1>4. /\ rest \in Seq(Nat) /\ Len(rest) = Len(arguments) + 1 /\ rest[1] = sub
      /\ Len(arguments) \in Nat /\ rest # <<>> /\ Tail(rest) = arguments
  BY Prefixed
<1>5. SubSeq(body, 2, RumbleLength + 1) = rumble
  BY <1>1, <1>2, <1>4, BehindFirst
<1>6. <<counter>> \o rumble \o <<sub>> \o arguments = body
  <2>1. <<sub>> \in Seq(Nat)
    OBVIOUS
  <2> QED BY <1>3, <2>1, ConcatAssociative
<1> HIDE DEF front, rest
<1>7. /\ body \in Seq(Nat)
      /\ Len(body) = Len(front) + Len(rest)
      /\ body[1] = front[1]
  <2>1. 1 \in 1 .. Len(front) + Len(rest) /\ 1 <= Len(front)
    BY <1>1, <1>3, <1>4
  <2>2. \A i \in 1 .. Len(front) + Len(rest) :
          body[i] = IF i <= Len(front) THEN front[i] ELSE rest[i - Len(front)]
    BY <1>3, <1>4, ConcatProperties
  <2>3. body \in Seq(Nat) /\ Len(body) = Len(front) + Len(rest)
    BY <1>3, <1>4, ConcatProperties
  <2> HIDE DEF body
  <2> QED BY <2>1, <2>2, <2>3
<1>8. /\ body[Len(front) + 1] = rest[1]
      /\ SubSeq(body, Len(front) + 2, Len(body)) = Tail(rest)
  BY <1>3, <1>4, BehindFront
<1> HIDE DEF body
<1>9. Len(front) + 1 = RumbleLength + 2 /\ Len(front) + 2 = RumbleLength + 3
  BY <1>1, <1>3
<1>10. Len(body) >= RumbleLength + 2 /\ Len(body) >= RumbleLength + 1
  <2>1. /\ RumbleLength \in Nat /\ Len(arguments) \in Nat
        /\ Len(body) = Len(front) + Len(rest)
        /\ Len(front) = RumbleLength + 1 /\ Len(rest) = Len(arguments) + 1
    BY <1>1, <1>3, <1>4, <1>7
  <2> QED BY <2>1
<1>11. Carries(body, counter, rumble)
  BY <1>3, <1>5, <1>7, <1>10 DEF Carries
<1>12. CarriesSubcommand(body, sub, arguments)
  BY <1>4, <1>8, <1>9, <1>10 DEF CarriesSubcommand
<1> QED BY <1>6, <1>11, <1>12

LEMMA CarriesTypes ==
  ASSUME NEW counter \in 0..15, NEW rumble, NEW body, Carries(body, counter, rumble)
  PROVE  /\ RumbleLength \in Nat \ {0}
         /\ body \in Seq(Nat) /\ Len(body) \in Nat /\ body # <<>>
         /\ Len(body) >= RumbleLength + 1
         /\ body[1] = counter /\ Head(body) = counter
         /\ SubSeq(body, 2, RumbleLength + 1) = rumble
<1>1. RumbleLength \in Nat \ {0} /\ body \in Seq(Nat)
  BY ProfileAssumption DEF ProfileAssumption, Carries
<1>2. Len(body) \in Nat
  BY <1>1, LenProperties
<1>3. Len(body) # 0
  BY <1>1, <1>2 DEF Carries
<1>4. body # <<>>
  BY <1>3, EmptySeq
<1>5. Head(body) = body[1]
  OBVIOUS
<1> QED BY <1>1, <1>2, <1>4, <1>5 DEF Carries

\* What all three readers of a packet find in it.
ReadAs(packet, id, body, counter, rumble) ==
  /\ packet # <<>> /\ Head(packet) = id /\ packet[1] = id
  /\ Tail(packet) = body
  /\ Decodes(packet)
  /\ RumbleOf(packet) = rumble
  /\ CounterOf(packet) = counter
  /\ \A noted : NoteVibration(packet, noted) = counter

\* With its id in front a packet is read at the right places, by all three.
LEMMA FramedIsRead ==
  ASSUME NEW id \in {RumbleSubcommand, Rumble}, NEW counter \in 0..15, NEW rumble,
         NEW body, Carries(body, counter, rumble)
  PROVE  ReadAs(<<id>> \o body, id, body, counter, rumble)
<1> DEFINE packet == <<id>> \o body
<1>1. /\ RumbleLength \in Nat \ {0} /\ id \in Nat
      /\ body \in Seq(Nat) /\ Len(body) \in Nat
      /\ Len(body) >= RumbleLength + 1
  BY CarriesTypes DEF RumbleSubcommand, Rumble
<1>2. /\ packet \in Seq(Nat) /\ packet # <<>>
      /\ Len(packet) = Len(body) + 1
      /\ packet[1] = id /\ Head(packet) = id
      /\ \A i \in 1..Len(body) : packet[i + 1] = body[i]
      /\ Tail(packet) = body
  BY <1>1, Prefixed
<1>3. <<id>> \in Seq(Nat) /\ Len(<<id>>) = 1
  BY <1>1
<1>4. SubSeq(packet, 3, RumbleLength + 2) = SubSeq(body, 2, RumbleLength + 1)
  <2>1. /\ 3 \in Len(<<id>>) + 1..Len(<<id>>) + Len(body)
        /\ RumbleLength + 2 \in Len(<<id>>) + 1..Len(<<id>>) + Len(body)
        /\ 3 - Len(<<id>>) = 2 /\ RumbleLength + 2 - Len(<<id>>) = RumbleLength + 1
    BY <1>1, <1>3
  <2> QED BY <1>1, <1>3, <2>1, SubSeqOfConcat2
<1> HIDE DEF packet
<1>5. packet[2] = counter
  <2>1. 1 \in 1..Len(body)
    BY <1>1
  <2>2. packet[1 + 1] = body[1]
    BY <1>2, <2>1
  <2>3. body[1] = counter
    BY CarriesTypes
  <2> QED BY <2>2, <2>3
<1>6. RumbleOffset(packet) = 2
  <2>1. ~(Len(packet) < 2)
    BY <1>1, <1>2
  <2> QED BY <1>2, <2>1 DEF RumbleOffset
<1>7. RumbleOf(packet) = rumble
  <2>1. 2 + 1 = 3 /\ 2 + RumbleLength = RumbleLength + 2
    BY <1>1
  <2> QED BY <1>4, <1>6, <2>1, CarriesTypes DEF RumbleOf
<1>8. Decodes(packet)
  BY <1>1, <1>2, <1>6 DEF Decodes
<1>9. CounterOf(packet) = counter
  BY <1>5, <1>6 DEF CounterOf
<1>10. \A noted : NoteVibration(packet, noted) = counter
  <2>1. Len(packet) > 1
    BY <1>1, <1>2
  <2>2. counter % 16 = counter
    OBVIOUS
  <2> QED BY <1>2, <1>5, <2>1, <2>2 DEF NoteVibration
<1> QED BY <1>2, <1>7, <1>8, <1>9, <1>10 DEF packet, ReadAs

\* Without its id a packet is too short to be taken for one with it, or its
\* counter does not look like an id.
LEMMA UnframedIsRead ==
  ASSUME NEW id \in {RumbleSubcommand, Rumble}, NEW counter \in 0..15, NEW rumble,
         NEW body, Carries(body, counter, rumble),
         counter # 1 \/ (id = Rumble /\ Len(body) = RumbleLength + 1)
  PROVE  /\ ReportWithId(id, body) = <<id>> \o body
         /\ DecodedPacket(id, body) # <<>>
         /\ RumbleOf(DecodedPacket(id, body)) = rumble
<1>1. /\ RumbleLength \in Nat \ {0} /\ id \in Nat /\ id # 0
      /\ body \in Seq(Nat) /\ Len(body) \in Nat
      /\ Len(body) >= RumbleLength + 1
      /\ body # <<>> /\ Head(body) = counter /\ body[1] = counter
  BY CarriesTypes DEF RumbleSubcommand, Rumble
<1>2. ReportWithId(id, body) = <<id>> \o body
  BY <1>1 DEF ReportWithId, RumbleSubcommand, Rumble
<1>3. /\ <<id>> \o body # <<>> /\ Decodes(<<id>> \o body)
      /\ RumbleOf(<<id>> \o body) = rumble
  BY FramedIsRead DEF ReadAs
<1>4. CASE Decodes(body)
  <2>1. counter # 1
    BY <1>1, <1>4 DEF Decodes, RumbleOffset, RumbleSubcommand, Rumble
  <2>2. RumbleOffset(body) = 1
    BY <1>1, <2>1 DEF RumbleOffset, RumbleSubcommand, Rumble
  <2>3. RumbleOf(body) = rumble
    <3>1. 1 + 1 = 2 /\ 1 + RumbleLength = RumbleLength + 1
      BY <1>1
    <3> QED BY <2>2, <3>1, CarriesTypes DEF RumbleOf
  <2>4. DecodedPacket(id, body) = body
    BY <1>4 DEF DecodedPacket
  <2> QED BY <1>1, <1>2, <2>3, <2>4
<1>5. CASE ~Decodes(body)
  <2>1. DecodedPacket(id, body) = <<id>> \o body
    BY <1>1, <1>3, <1>5 DEF DecodedPacket
  <2> QED BY <1>2, <1>3, <2>1
<1> QED BY <1>4, <1>5

-----------------------------------------------------------------------------
(* The flash.                                                              *)

LEMMA Extremes ==
  ASSUME NEW a \in Int, NEW b \in Int
  PROVE  /\ Max({a, b}) = IF a >= b THEN a ELSE b
         /\ Min({a, b}) = IF a <= b THEN a ELSE b
BY DEF Max, Min

\* A sequence with three more bytes.
LEMMA ThreeMore ==
  ASSUME NEW s \in Seq(Nat), NEW a \in Nat, NEW b \in Nat, NEW c \in Nat
  PROVE  LET t == s \o <<a, b, c>>
         IN  /\ t \in Seq(Nat) /\ Len(t) = Len(s) + 3
             /\ \A i \in 1..Len(s) : t[i] = s[i]
             /\ t[Len(s) + 1] = a /\ t[Len(s) + 2] = b /\ t[Len(s) + 3] = c
<1> DEFINE more == <<a, b, c>>
           t == s \o more
           n == Len(s)
<1>1. /\ more \in Seq(Nat) /\ Len(more) = 3
      /\ more[1] = a /\ more[2] = b /\ more[3] = c
  OBVIOUS
<1> HIDE DEF more
<1>2. /\ t \in Seq(Nat)
      /\ Len(t) = Len(s) + Len(more)
      /\ \A i \in 1 .. Len(s) + Len(more) :
           t[i] = IF i <= Len(s) THEN s[i] ELSE more[i - Len(s)]
  BY <1>1, ConcatProperties
<1>3. n \in Nat
  BY LenProperties
<1> HIDE DEF t
<1>4. /\ Len(t) = n + 3
      /\ \A i \in 1..(n + 3) : t[i] = IF i <= n THEN s[i] ELSE more[i - n]
  BY <1>1, <1>2
<1> HIDE DEF n
<1>5. \A i \in 1..n : t[i] = s[i]
  BY <1>3, <1>4
<1>6. t[n + 1] = more[1] /\ t[n + 2] = more[2] /\ t[n + 3] = more[3]
  BY <1>3, <1>4
<1> QED BY <1>1, <1>2, <1>4, <1>5, <1>6 DEF t, more, n

\* The calibration of the sticks: range, center and range of the first one.
LEMMA SticksBytes ==
  /\ Len(Sticks) = 18
  /\ Sticks[1] = 0 /\ Sticks[2] = 6 /\ Sticks[3] = 96
  /\ Sticks[4] = 0 /\ Sticks[5] = 8 /\ Sticks[6] = 128
  /\ Sticks[7] = 0 /\ Sticks[8] = 6 /\ Sticks[9] = 96
<1> DEFINE range == <<0, 6, 96>>
           center == <<0, 8, 128>>
           two == range \o center
           three == two \o range
           four == three \o center
           five == four \o range
           six == five \o range
<1>1. Sticks = six
  BY DEF Sticks, Packed
<1>2. range \in Seq(Nat)
  OBVIOUS
<1>3. Len(range) = 3 /\ range[1] = 0 /\ range[2] = 6 /\ range[3] = 96
  OBVIOUS
<1> HIDE DEF range
<1>4. two \in Seq(Nat)
  BY <1>2, ThreeMore
<1>5. /\ Len(two) = Len(range) + 3
      /\ \A i \in 1..Len(range) : two[i] = range[i]
      /\ two[Len(range) + 1] = 0 /\ two[Len(range) + 2] = 8 /\ two[Len(range) + 3] = 128
  BY <1>2, ThreeMore
<1> HIDE DEF two
<1>6. /\ Len(two) = 6
      /\ \A i \in 1..3 : two[i] = range[i]
      /\ two[4] = 0 /\ two[5] = 8 /\ two[6] = 128
  BY <1>5, <1>3
<1>7. three \in Seq(Nat)
  BY <1>4, ThreeMore DEF range
<1>8. /\ Len(three) = Len(two) + 3
      /\ \A i \in 1..Len(two) : three[i] = two[i]
      /\ three[Len(two) + 1] = 0 /\ three[Len(two) + 2] = 6 /\ three[Len(two) + 3] = 96
  BY <1>4, ThreeMore DEF range
<1> HIDE DEF three
<1>9. /\ Len(three) = 9
      /\ \A i \in 1..6 : three[i] = two[i]
      /\ three[7] = 0 /\ three[8] = 6 /\ three[9] = 96
  BY <1>8, <1>6
<1>10. four \in Seq(Nat)
  BY <1>7, ThreeMore
<1>11. /\ Len(four) = Len(three) + 3
      /\ \A i \in 1..Len(three) : four[i] = three[i]
  BY <1>7, ThreeMore
<1> HIDE DEF four
<1>12. /\ Len(four) = 12
      /\ \A i \in 1..9 : four[i] = three[i]
  BY <1>11, <1>9
<1>13. five \in Seq(Nat)
  BY <1>10, ThreeMore DEF range
<1>14. /\ Len(five) = Len(four) + 3
      /\ \A i \in 1..Len(four) : five[i] = four[i]
  BY <1>10, ThreeMore DEF range
<1> HIDE DEF five
<1>15. /\ Len(five) = 15
      /\ \A i \in 1..12 : five[i] = four[i]
  BY <1>14, <1>12
<1>16. six \in Seq(Nat)
  BY <1>13, ThreeMore DEF range
<1>17. /\ Len(six) = Len(five) + 3
      /\ \A i \in 1..Len(five) : six[i] = five[i]
  BY <1>13, ThreeMore DEF range
<1> HIDE DEF six
<1>18. /\ Len(six) = 18
      /\ \A i \in 1..15 : six[i] = five[i]
  BY <1>17, <1>15
<1>19. \A i \in 1..9 : six[i] = three[i]
  BY <1>18, <1>15, <1>12
<1>20. \A i \in 1..6 : six[i] = two[i]
  BY <1>19, <1>9
<1>21. \A i \in 1..3 : six[i] = range[i]
  BY <1>20, <1>6
<1> QED BY <1>1, <1>3, <1>6, <1>9, <1>18, <1>19, <1>20, <1>21

LEMMA ImuBytes == Len(Imu) = 24
BY DEF Imu

\* The byte at an address with a region over it, and those of a request.
Covered(at, byte, start, region) ==
  IF at \in start..(start + Len(region) - 1) THEN region[at - start + 1] ELSE byte

Overlaid(address, n, out, start, region) ==
  [i \in 1..n |-> Covered(address + i - 1, out[i], start, region)]

\* A request overlaps a region where both have a byte.
LEMMA OverlayBytes ==
  ASSUME NEW address \in Nat, NEW n \in Nat, NEW out, DOMAIN out = 1..n,
         NEW start \in Nat, NEW region, Len(region) \in Nat
  PROVE  Overlay(address, out, start, region) =
           Overlaid(address, n, out, start, region)
<1> DEFINE m == Len(region)
           from == Max({address, start})
           to == Min({address + Len(out), start + m})
<1>1. Len(out) = n /\ m \in Nat
  OBVIOUS
<1>2. /\ from = IF address >= start THEN address ELSE start
      /\ to = IF address + n <= start + m THEN address + n ELSE start + m
  <2>1. address + n \in Int /\ start + m \in Int
    BY <1>1
  <2>2. to = Min({address + n, start + m})
    BY <1>1
  <2>3. from = IF address >= start THEN address ELSE start
    BY Extremes
  <2> HIDE DEF m, to, from
  <2>4. to = IF address + n <= start + m THEN address + n ELSE start + m
    BY <2>1, <2>2, Extremes
  <2> QED BY <2>3, <2>4
<1> HIDE DEF from, to
<1>3. \A i \in 1..n :
        (address + i - 1 >= from /\ address + i - 1 < to)
          <=> address + i - 1 \in start..(start + m - 1)
  <2> HIDE DEF m
  <2> QED BY <1>1, <1>2
<1>4. Overlay(address, out, start, region) =
        [i \in 1..n |->
           IF address + i - 1 >= from /\ address + i - 1 < to
           THEN region[address + i - 1 - start + 1]
           ELSE out[i]]
  BY DEF Overlay, from, to
<1>5. ASSUME NEW i \in 1..n
      PROVE  (IF address + i - 1 >= from /\ address + i - 1 < to
              THEN region[address + i - 1 - start + 1] ELSE out[i])
                = Covered(address + i - 1, out[i], start, region)
  <2> DEFINE inside == address + i - 1 >= from /\ address + i - 1 < to
             covered == address + i - 1 \in start..(start + Len(region) - 1)
             byte == region[address + i - 1 - start + 1]
  <2>1. inside <=> covered
    BY <1>3
  <2>2. Covered(address + i - 1, out[i], start, region) =
          IF covered THEN byte ELSE out[i]
    BY DEF Covered
  <2> HIDE DEF inside, covered, byte
  <2>3. (IF inside THEN byte ELSE out[i]) =
          Covered(address + i - 1, out[i], start, region)
    BY <2>1, <2>2
  <2> QED BY <2>3 DEF inside, byte
<1> QED BY <1>4, <1>5, Zenon DEF Overlaid

LEMMA OverlaidByte ==
  ASSUME NEW address, NEW n, NEW out, NEW start, NEW region, NEW i \in 1..n
  PROVE  Overlaid(address, n, out, start, region)[i] =
           Covered(address + i - 1, out[i], start, region)
BY DEF Overlaid

\* The two regions do not meet.
LEMMA FlashIsCovered ==
  ASSUME NEW at \in Nat
  PROVE  FlashByte(at) = Covered(at, Covered(at, 255, StickRegion, Sticks),
                                 ImuRegion, Imu)
<1> DEFINE onSticks == at \in StickRegion..(StickRegion + Len(Sticks) - 1)
           onImu == at \in ImuRegion..(ImuRegion + Len(Imu) - 1)
<1>1. ~(onSticks /\ onImu)
  BY SticksBytes, ImuBytes DEF StickRegion, ImuRegion
<1>2. Covered(at, Covered(at, 255, StickRegion, Sticks), ImuRegion, Imu) =
        IF onImu THEN Imu[at - ImuRegion + 1]
        ELSE IF onSticks THEN Sticks[at - StickRegion + 1] ELSE 255
  BY Zenon DEF Covered
<1>3. FlashByte(at) = IF onSticks THEN Sticks[at - StickRegion + 1]
                      ELSE IF onImu THEN Imu[at - ImuRegion + 1] ELSE 255
  BY <1>1 DEF FlashByte
<1> HIDE DEF onSticks, onImu
<1> QED BY <1>1, <1>2, <1>3

\* What is read at an address is the byte the host's map has there, whatever
\* the request starts and ends with.
LEMMA ReadBytes ==
  ASSUME NEW address \in Nat, NEW n \in Nat
  PROVE  ReadSpi(address, n) = [i \in 1..n |-> FlashByte(address + i - 1)]
<1> DEFINE erased == [i \in 1..n |-> 255]
           sticks == Overlay(address, erased, StickRegion, Sticks)
           read == Overlay(address, sticks, ImuRegion, Imu)
<1>1. ReadSpi(address, n) = read
  BY DEF ReadSpi
<1>2. /\ StickRegion \in Nat /\ ImuRegion \in Nat
      /\ Len(Sticks) \in Nat /\ Len(Imu) \in Nat
  BY SticksBytes, ImuBytes DEF StickRegion, ImuRegion
<1>3. DOMAIN erased = 1..n /\ \A i \in 1..n : erased[i] = 255
  OBVIOUS
<1> HIDE DEF erased
<1>4. sticks = Overlaid(address, n, erased, StickRegion, Sticks)
  BY <1>2, <1>3, OverlayBytes
<1> HIDE DEF sticks
<1>5. DOMAIN sticks = 1..n
  BY <1>4 DEF Overlaid
<1>6. read = Overlaid(address, n, sticks, ImuRegion, Imu)
  BY <1>2, <1>5, OverlayBytes
<1> HIDE DEF read
<1>7. ASSUME NEW i \in 1..n
      PROVE  read[i] = FlashByte(address + i - 1)
  <2>1. read[i] = Covered(address + i - 1, sticks[i], ImuRegion, Imu)
    <3>1. Overlaid(address, n, sticks, ImuRegion, Imu)[i]
            = Covered(address + i - 1, sticks[i], ImuRegion, Imu)
      BY OverlaidByte
    <3> QED BY <1>6, <3>1, Zenon
  <2>2. sticks[i] = Covered(address + i - 1, erased[i], StickRegion, Sticks)
    <3>1. Overlaid(address, n, erased, StickRegion, Sticks)[i]
            = Covered(address + i - 1, erased[i], StickRegion, Sticks)
      BY OverlaidByte
    <3> QED BY <1>4, <3>1, Zenon
  <2>3. address + i - 1 \in Nat
    OBVIOUS
  <2>4. FlashByte(address + i - 1) =
          Covered(address + i - 1, Covered(address + i - 1, 255, StickRegion, Sticks),
                  ImuRegion, Imu)
    BY <2>3, FlashIsCovered
  <2>5. erased[i] = 255
    BY <1>3
  <2> QED BY <2>1, <2>2, <2>4, <2>5
<1>8. read = [i \in 1..n |-> read[i]]
  BY <1>6 DEF Overlaid
<1> QED BY <1>1, <1>7, <1>8

-----------------------------------------------------------------------------
(* The sticks.                                                             *)

LEMMA Unclamped ==
  ASSUME NEW q \in Int, -1536 <= q, q <= 1536
  PROVE  Clamped(2048 + q, 0, 4095) = 2048 + q
BY DEF Clamped

\* A stick has three quarters of twelve bits: 1536 steps to either side.
StickShows(stick, axis) ==
  /\ stick \in 512..3584
  /\ axis = 0 => stick = 2048
  /\ axis = -32767 => stick = 513
  /\ axis = 32767 => stick = 3583

LEMMA ScaledBounds ==
  ASSUME NEW axis, SixteenBits(axis)
  PROVE  StickShows(Scaled(axis), axis)
<1> DEFINE q == Quotient(axis * 1536, 32768)
<1>1. /\ q \in Int /\ -1536 <= q /\ q <= 1536
      /\ axis = 0 => q = 0
      /\ axis = -32767 => q = -1535
      /\ axis = 32767 => q = 1535
  BY DEF Quotient, SixteenBits
<1>2. Scaled(axis) = Clamped(2048 + q, 0, 4095)
  BY DEF Scaled
<1> HIDE DEF q
<1>3. Scaled(axis) = 2048 + q
  BY <1>1, <1>2, Unclamped
<1> QED BY <1>1, <1>3 DEF StickShows

\* The stick three bytes show.
FirstOf(bytes) == Unpacked(bytes[1], bytes[2], bytes[3])[1]

TwelveBits(s) == s \in 0..4095

\* What pack_stick packs is unpacked again.
LEMMA PackedStick ==
  ASSUME NEW s, TwelveBits(s)
  PROVE  FirstOf(Packed(s, s)) = s
<1> USE DEF TwelveBits
<1>1. (s % 256) + (((s \div 256) + (s % 16) * 16) % 16) * 256 = s
  OBVIOUS
<1> QED BY <1>1 DEF FirstOf, Packed, Unpacked

\* The mapping keeps an axis in its range.
LEMMA MappedAxis ==
  ASSUME NEW axis \in Axes
  PROVE  SixteenBits(Mapped(axis))
BY ProfileAssumption DEF ProfileAssumption, Mapped, SixteenBits

-----------------------------------------------------------------------------
(* What the host writes.                                                   *)

\* All three readers of a packet see the same counter and rumble.
LEMMA PacketWritten ==
  ASSUME NEW id \in {RumbleSubcommand, Rumble}, NEW counter \in 0..15, NEW rumble,
         NEW body, Carries(body, counter, rumble), Write(id, body),
         \/ id \notin Unframed
         \/ counter # 1
         \/ id = Rumble /\ Len(body) = RumbleLength + 1
  PROVE  /\ vibrationAck' = counter
         /\ route = "codec" => sourceRumble' = rumble
         /\ UNCHANGED <<lastAxis, route>>
         /\ IF id = RumbleSubcommand THEN HandleSubcommand(body, counter)
            ELSE UNCHANGED <<timer, settings, lastReply>>
<1> DEFINE packet == <<id>> \o body
<1>1. PICK data \in {packet} \cup (IF id \in Unframed THEN {body} ELSE {}) :
        /\ Forward(id, data)
        /\ Handle(ReportWithId(id, data), Noted(id, data))
        /\ UNCHANGED <<lastAxis, route>>
  BY DEF Write
<1>2. ReadAs(packet, id, body, counter, rumble)
  BY FramedIsRead
<1> HIDE DEF packet
<1>3. /\ ReportWithId(id, data) = packet
      /\ DecodedPacket(id, data) # <<>>
      /\ RumbleOf(DecodedPacket(id, data)) = rumble
  <2>1. CASE data = packet
    BY <1>2, <2>1 DEF ReadAs, ReportWithId, DecodedPacket
  <2>2. CASE data # packet
    <3>1. data = body /\ id \in Unframed
      BY <1>1, <2>2
    <3> QED BY <3>1, UnframedIsRead DEF packet
  <2> QED BY <2>1, <2>2
<1>4. Handle(packet, Noted(id, data))
  BY <1>1, <1>3
<1>5. /\ vibrationAck' = counter
      /\ IF id = RumbleSubcommand THEN HandleSubcommand(body, counter)
         ELSE UNCHANGED <<timer, settings, lastReply>>
  BY <1>2, <1>4 DEF ReadAs, Handle
<1>6. route = "codec" => sourceRumble' = rumble
  BY <1>1, <1>3 DEF Forward
<1> QED BY <1>1, <1>5, <1>6

\* host_writes of rumble alone.
LEMMA RumblesStep ==
  ASSUME Framed, IInv, HostRumbles
  PROVE  IInv'
<1>1. PICK counter \in Counters, rumble \in Rumbles :
        /\ Write(Rumble, <<counter>> \o rumble)
        /\ host' = [host EXCEPT !.counter = counter, !.rumble = rumble]
  BY Zenon DEF HostRumbles
<1>2. counter \in 0..15
  BY ProfileAssumption DEF ProfileAssumption
<1>3. /\ Carries(<<counter>> \o rumble, counter, rumble)
      /\ Len(<<counter>> \o rumble) = RumbleLength + 1
  BY <1>2, RumbleBody
<1>4. /\ vibrationAck' = counter
      /\ route = "codec" => sourceRumble' = rumble
      /\ UNCHANGED <<lastAxis, route, timer, settings, lastReply>>
  <2>1. Rumble \in {RumbleSubcommand, Rumble} /\ Rumble # RumbleSubcommand
    BY DEF Rumble, RumbleSubcommand
  <2> DEFINE body == <<counter>> \o rumble
  <2>2. Write(Rumble, body)
    BY <1>1
  <2>3. Carries(body, counter, rumble) /\ Len(body) = RumbleLength + 1
    BY <1>3
  <2> HIDE DEF body
  <2>4. /\ vibrationAck' = counter
        /\ route = "codec" => sourceRumble' = rumble
        /\ UNCHANGED <<lastAxis, route>>
        /\ IF Rumble = RumbleSubcommand THEN HandleSubcommand(body, counter)
           ELSE UNCHANGED <<timer, settings, lastReply>>
    BY <1>2, <2>1, <2>2, <2>3, PacketWritten, Zenon
  <2> QED BY <2>1, <2>4
<1>5. /\ DOMAIN host' = DOMAIN host
      /\ host'.counter = counter /\ host'.rumble = rumble
      /\ host'.leds = host.leds /\ host'.asked = host.asked
      /\ host'.flash = host.flash
  BY <1>1 DEF IInv, TypeInv
<1>6. TypeInv'
  BY <1>2, <1>4, <1>5 DEF IInv, TypeInv
<1>7. HostPacketsAreRead'
  BY <1>4, <1>5 DEF HostPacketsAreRead
<1>8. RepliesAnswer'
  BY <1>4, <1>5 DEF IInv, RepliesAnswer, RepliesNameSubcommand
<1>9. HostInv'
  BY <1>4, <1>5 DEF IInv, HostInv
<1> QED BY <1>6, <1>7, <1>8, <1>9 DEF IInv

\* A request of the flash is an address and a length, served up to 29 bytes.
LEMMA ServedLength ==
  ASSUME NEW arguments \in Nat \X Bytes
  PROVE  /\ arguments[1] \in Nat /\ Len(arguments) = 2
         /\ Min({arguments[2], 29}) \in Nat
<1> DEFINE asked == arguments[2]
<1>1. asked \in Int /\ 0 <= asked /\ 29 \in Int
  BY DEF Bytes
<1> HIDE DEF asked
<1>2. Min({asked, 29}) = IF asked <= 29 THEN asked ELSE 29
  BY <1>1, Extremes
<1>3. Min({asked, 29}) \in Nat
  BY <1>1, <1>2
<1> QED BY <1>3 DEF asked

\* A reply says what was asked for, of the LEDs and of the flash.
LEMMA DataAnswers ==
  ASSUME IInv, NEW sub, NEW arguments, sub = SpiRead => arguments \in Nat \X Bytes
  PROVE  /\ sub = GetPlayerLeds => Data(sub, arguments) = <<host.leds>>
         /\ sub = SpiRead =>
              LET length == Min({arguments[2], 29})
              IN  /\ Data(sub, arguments) =
                       <<arguments[1], length>> \o
                         [i \in 1..length |-> FlashByte(arguments[1] + i - 1)]
<1>1. sub = GetPlayerLeds => Data(sub, arguments) = <<host.leds>>
  BY DEF Data, IInv, HostInv, GetPlayerLeds, SpiRead
<1>2. ASSUME sub = SpiRead
      PROVE  LET length == Min({arguments[2], 29})
             IN  Data(sub, arguments) =
                   <<arguments[1], length>> \o
                     [i \in 1..length |-> FlashByte(arguments[1] + i - 1)]
  <2> DEFINE length == Min({arguments[2], 29})
  <2>1. arguments[1] \in Nat /\ length \in Nat /\ Len(arguments) = 2
    BY <1>2, ServedLength
  <2>3. Data(sub, arguments) = <<arguments[1], length>> \o ReadSpi(arguments[1], length)
    <3>1. Data(sub, arguments) = SpiData(arguments)
      BY <1>2 DEF Data, SpiRead, GetPlayerLeds
    <3>2. ~(Len(arguments) < 2)
      BY <2>1
    <3> QED BY <3>1, <3>2, Zenon DEF SpiData
  <2> HIDE DEF length
  <2>4. ReadSpi(arguments[1], length) =
          [i \in 1..length |-> FlashByte(arguments[1] + i - 1)]
    BY <2>1, ReadBytes
  <2> QED BY <2>3, <2>4 DEF length
<1> QED BY <1>1, <1>2

\* Only a subcommand that sets the LEDs changes them.
LEMMA SettingsStored ==
  ASSUME NEW sub, NEW arguments,
         settings \in [mode : Bytes, leds : Bytes, imu : BOOLEAN, vibration : BOOLEAN],
         sub \in {SetInputMode, SetPlayerLeds} =>
           arguments # <<>> /\ Head(arguments) \in Bytes
  PROVE  /\ Settings(sub, arguments) \in
              [mode : Bytes, leds : Bytes, imu : BOOLEAN, vibration : BOOLEAN]
         /\ Settings(sub, arguments).leds =
              IF sub = SetPlayerLeds THEN Head(arguments) ELSE settings.leds
<1> DEFINE given == arguments # <<>>
           first == Head(arguments)
           on == given /\ first # 0
<1>1. Settings(sub, arguments) =
        CASE sub = 3 /\ given -> [settings EXCEPT !.mode = first]
          [] sub = 48 /\ given -> [settings EXCEPT !.leds = first]
          [] sub = 64 -> [settings EXCEPT !.imu = on]
          [] sub = 72 -> [settings EXCEPT !.vibration = on]
          [] OTHER -> settings
  BY Zenon DEF Settings, SetInputMode, SetPlayerLeds, EnableImu, EnableVibration
<1>2. on \in BOOLEAN
  OBVIOUS
<1>3. sub \in {3, 48} => given /\ first \in Bytes
  BY DEF SetInputMode, SetPlayerLeds
<1>4. SetPlayerLeds = 48
  BY DEF SetPlayerLeds
<1> HIDE DEF given, first, on
<1>5. CASE sub = 3
  <2>1. Settings(sub, arguments) = [settings EXCEPT !.mode = first]
    BY <1>1, <1>3, <1>5
  <2> QED BY <1>3, <1>4, <1>5, <2>1
<1>6. CASE sub = 48
  <2>1. Settings(sub, arguments) = [settings EXCEPT !.leds = first]
    BY <1>1, <1>3, <1>6
  <2> QED BY <1>3, <1>4, <1>6, <2>1 DEF first
<1>7. CASE sub = 64
  <2>1. Settings(sub, arguments) = [settings EXCEPT !.imu = on]
    BY <1>1, <1>7
  <2> QED BY <1>2, <1>4, <1>7, <2>1
<1>8. CASE sub = 72
  <2>1. Settings(sub, arguments) = [settings EXCEPT !.vibration = on]
    BY <1>1, <1>8
  <2> QED BY <1>2, <1>4, <1>8, <2>1
<1>9. CASE sub \notin {3, 48, 64, 72}
  <2>1. Settings(sub, arguments) = settings
    BY <1>1, <1>9
  <2> QED BY <1>4, <1>9, <2>1
<1> QED BY <1>5, <1>6, <1>7, <1>8, <1>9

\* What a host asks for.
Askable(sub, arguments) ==
  /\ sub \in Nat /\ arguments \in Seq(Nat)
  /\ sub = SpiRead => arguments \in Nat \X Bytes
  /\ sub \in {SetInputMode, SetPlayerLeds} =>
       arguments # <<>> /\ Head(arguments) \in Bytes

\* A subcommand is read, stored and answered.
LEMMA SubcommandStep ==
  ASSUME Framed, IInv, NEW sub, NEW arguments, Askable(sub, arguments),
         Asks(sub, arguments)
  PROVE  IInv'
<1>0. /\ sub \in Nat /\ arguments \in Seq(Nat)
      /\ sub = SpiRead => arguments \in Nat \X Bytes
      /\ sub \in {SetInputMode, SetPlayerLeds} =>
           arguments # <<>> /\ Head(arguments) \in Bytes
  BY DEF Askable
<1>1. PICK counter \in Counters, rumble \in Rumbles :
        /\ Write(RumbleSubcommand, <<counter>> \o rumble \o <<sub>> \o arguments)
        /\ host' = [host EXCEPT
             !.counter = counter, !.rumble = rumble,
             !.asked = [sub |-> sub, arguments |-> arguments, counter |-> counter,
                        leds |-> host.leds],
             !.leds = IF sub = SetPlayerLeds THEN Head(arguments) ELSE @,
             !.reply = NoReply]
  BY Zenon DEF Asks
<1> DEFINE body == <<counter>> \o rumble \o <<sub>> \o arguments
<1>2. counter \in 0..15
  BY ProfileAssumption DEF ProfileAssumption
<1>3. /\ Carries(body, counter, rumble)
      /\ CarriesSubcommand(body, sub, arguments)
  BY <1>0, <1>2, SubcommandBody
<1>4. RumbleSubcommand \notin Unframed \/ counter # 1
  BY DEF Framed
<1>5. Write(RumbleSubcommand, body)
  BY <1>1
<1> HIDE DEF body
<1>6. /\ vibrationAck' = counter
      /\ route = "codec" => sourceRumble' = rumble
      /\ UNCHANGED <<lastAxis, route>>
      /\ HandleSubcommand(body, counter)
  BY <1>2, <1>3, <1>4, <1>5, PacketWritten
<1>7. /\ lastReply' = Reply(sub, Code(sub), counter, Data(sub, arguments))
      /\ settings' = Settings(sub, arguments)
  <2>1. RumbleLength \in Nat /\ Len(body) \in Nat
    BY <1>2, <1>3, CarriesTypes
  <2>2. ~(Len(body) < RumbleLength + 2)
    BY <1>3, <2>1 DEF CarriesSubcommand
  <2> QED BY <1>3, <1>6, <2>2 DEF HandleSubcommand, CarriesSubcommand
<1>8. /\ DOMAIN host' = DOMAIN host
      /\ host'.counter = counter /\ host'.rumble = rumble
      /\ host'.asked = [sub |-> sub, arguments |-> arguments, counter |-> counter,
                        leds |-> host.leds]
      /\ host'.leds = IF sub = SetPlayerLeds THEN Head(arguments) ELSE host.leds
      /\ host'.flash = host.flash
  BY <1>1 DEF IInv, TypeInv
<1>9. /\ settings' \in [mode : Bytes, leds : Bytes, imu : BOOLEAN, vibration : BOOLEAN]
      /\ settings'.leds = host'.leds /\ host'.leds \in Bytes
  <2>1. /\ settings \in [mode : Bytes, leds : Bytes, imu : BOOLEAN, vibration : BOOLEAN]
        /\ settings.leds = host.leds /\ host.leds \in Bytes
    BY DEF IInv, TypeInv, HostInv
  <2>2. /\ Settings(sub, arguments) \in
             [mode : Bytes, leds : Bytes, imu : BOOLEAN, vibration : BOOLEAN]
        /\ Settings(sub, arguments).leds =
             IF sub = SetPlayerLeds THEN Head(arguments) ELSE settings.leds
    BY <1>0, <2>1, SettingsStored
  <2> QED BY <1>7, <1>8, <2>1, <2>2
<1>10. TypeInv'
  BY <1>2, <1>6, <1>8, <1>9 DEF IInv, TypeInv
<1>11. HostPacketsAreRead'
  BY <1>6, <1>8 DEF HostPacketsAreRead
<1>12. RepliesAnswer'
  <2>1. lastReply'.sub = sub /\ lastReply'.ack = counter
        /\ lastReply'.data = Data(sub, arguments)
    BY <1>7 DEF Reply
  <2>2. /\ host'.asked.sub = sub /\ host'.asked.counter = counter
        /\ host'.asked.arguments = arguments /\ host'.asked.leds = host.leds
    BY <1>8
  <2> QED BY <1>0, <2>1, <2>2, DataAnswers DEF RepliesAnswer, RepliesNameSubcommand
<1>13. HostInv'
  BY <1>0, <1>8, <1>9 DEF IInv, HostInv
<1> QED BY <1>10, <1>11, <1>12, <1>13 DEF IInv

LEMMA AsksStep ==
  ASSUME Framed, IInv, HostAsks
  PROVE  IInv'
<1>1. CASE \E sub \in {DeviceInfo, GetPlayerLeds, SetHomeLight, GetRegulatedVoltage} :
             Asks(sub, <<>>)
  <2>1. PICK sub \in {DeviceInfo, GetPlayerLeds, SetHomeLight, GetRegulatedVoltage} :
          Asks(sub, <<>>)
    BY <1>1
  <2>2. Askable(sub, <<>>)
    <3>1. <<>> \in Seq(Nat)
      OBVIOUS
    <3> QED BY <3>1 DEF Askable, DeviceInfo, GetPlayerLeds, SetHomeLight,
                        GetRegulatedVoltage, SetInputMode, SetPlayerLeds, SpiRead
  <2> QED BY <2>1, <2>2, SubcommandStep
<1>2. CASE \E sub \in {SetInputMode, SetPlayerLeds, EnableImu, EnableVibration},
              value \in Values : Asks(sub, <<value>>)
  <2>1. PICK sub \in {SetInputMode, SetPlayerLeds, EnableImu, EnableVibration},
             value \in Values : Asks(sub, <<value>>)
    BY <1>2
  <2>2. value \in Bytes /\ value \in Nat
    BY ProfileAssumption DEF ProfileAssumption, Bytes
  <2>3. <<value>> \in Seq(Nat) /\ <<value>> # <<>> /\ Head(<<value>>) = value
    BY <2>2
  <2>4. Askable(sub, <<value>>)
    BY <2>2, <2>3
    DEF Askable, SetInputMode, SetPlayerLeds, EnableImu, EnableVibration, SpiRead
  <2> QED BY <2>1, <2>4, SubcommandStep
<1>3. CASE \E read \in SpiReads : Asks(SpiRead, read)
  <2>1. PICK read \in SpiReads : Asks(SpiRead, read)
    BY <1>3
  <2>2. read \in Nat \X (0..255)
    BY ProfileAssumption DEF ProfileAssumption
  <2>3. PICK a \in Nat, b \in 0..255 : read = <<a, b>>
    BY <2>2
  <2>4. <<a, b>> \in Seq(Nat)
    OBVIOUS
  <2>5. Askable(SpiRead, read)
    BY <2>2, <2>3, <2>4 DEF Askable, SetInputMode, SetPlayerLeds, SpiRead, Bytes
  <2> QED BY <2>1, <2>5, SubcommandStep
<1> QED BY <1>1, <1>2, <1>3 DEF HostAsks

\* A USB command is neither rumble nor a subcommand.
LEMMA UsbStep ==
  ASSUME Framed, IInv, HostSendsUsbCommand
  PROVE  IInv'
<1>1. PICK command \in UsbCommands :
        /\ Write(UsbCommand, <<command>> \o [i \in 1..RumbleLength |-> 0])
        /\ UNCHANGED host
  BY DEF HostSendsUsbCommand
<1> DEFINE zeros == [i \in 1..RumbleLength |-> 0]
           body == <<command>> \o zeros
           packet == <<UsbCommand>> \o body
<1>2. Forward(UsbCommand, packet) /\ Handle(ReportWithId(UsbCommand, packet),
                                            Noted(UsbCommand, packet))
      /\ UNCHANGED <<lastAxis, route>>
  BY <1>1 DEF Write, Framed
<1>3. /\ packet # <<>> /\ Head(packet) = 128 /\ packet[1] = 128
      /\ <<UsbCommand>> \o packet # <<>> /\ (<<UsbCommand>> \o packet)[1] = 128
  <2>1. zeros \in Seq(Nat) /\ command \in Nat /\ UsbCommand \in Nat /\ UsbCommand = 128
    BY ProfileAssumption DEF ProfileAssumption, UsbCommands, UsbCommand
  <2> HIDE DEF zeros
  <2>2. body \in Seq(Nat)
    BY <2>1, Prefixed
  <2> HIDE DEF body
  <2>3. packet \in Seq(Nat) /\ packet # <<>> /\ Head(packet) = 128 /\ packet[1] = 128
    BY <2>1, <2>2, Prefixed
  <2> HIDE DEF packet
  <2> QED BY <2>1, <2>3, Prefixed
<1> HIDE DEF packet
<1>4. ReportWithId(UsbCommand, packet) = packet
  BY <1>3 DEF ReportWithId, UsbCommand
<1>5. /\ ~Decodes(packet)
      /\ ~Decodes(<<UsbCommand>> \o packet)
  BY <1>3 DEF Decodes, RumbleOffset, RumbleSubcommand, Rumble
<1>6. DecodedPacket(UsbCommand, packet) = <<>>
  BY <1>5 DEF DecodedPacket
<1>7. sourceRumble' = sourceRumble /\ Noted(UsbCommand, packet) = vibrationAck
  BY <1>2, <1>6 DEF Forward, Noted
<1>8. UNCHANGED <<timer, settings, lastReply, vibrationAck>>
  BY <1>2, <1>3, <1>4, <1>7 DEF Handle, NoteVibration, RumbleSubcommand, Rumble
<1>9. UNCHANGED <<lastAxis, route, host>>
  BY <1>1, <1>2
<1>10. TypeInv'
  BY <1>8, <1>9 DEF IInv, TypeInv
<1>11. HostPacketsAreRead'
  BY <1>7, <1>8, <1>9 DEF IInv, HostPacketsAreRead
<1>12. RepliesAnswer'
  BY <1>8, <1>9 DEF IInv, RepliesAnswer, RepliesNameSubcommand
<1>13. HostInv'
  BY <1>8, <1>9 DEF IInv, HostInv
<1> QED BY <1>10, <1>11, <1>12, <1>13 DEF IInv

\* A sequence behind two more elements.
LEMMA TwoInFront ==
  ASSUME NEW S, NEW a \in S, NEW b \in S, NEW s \in Seq(S)
  PROVE  /\ (<<a, b>> \o s)[1] = a /\ (<<a, b>> \o s)[2] = b
         /\ \A i \in 1..Len(s) : (<<a, b>> \o s)[i + 2] = s[i]
<1> DEFINE n == Len(s)
           front == <<a, b>>
           t == front \o s
<1>1. front \in Seq(S) /\ Len(front) = 2 /\ front[1] = a /\ front[2] = b
  OBVIOUS
<1>2. n \in Nat
  BY LenProperties
<1> HIDE DEF front
<1>3. \A i \in 1 .. Len(front) + Len(s) :
        t[i] = IF i <= Len(front) THEN front[i] ELSE s[i - Len(front)]
  BY <1>1, ConcatProperties
<1> HIDE DEF t
<1>4. \A i \in 1 .. 2 + n : t[i] = IF i <= 2 THEN front[i] ELSE s[i - 2]
  BY <1>1, <1>3
<1> HIDE DEF n
<1>5. t[1] = front[1] /\ t[2] = front[2]
  BY <1>2, <1>4
<1>6. ASSUME NEW i \in 1..n
      PROVE  t[i + 2] = s[i]
  <2>1. i + 2 \in 1 .. 2 + n /\ ~(i + 2 <= 2) /\ i + 2 - 2 = i
    BY <1>2
  <2> QED BY <1>4, <2>1
<1> QED BY <1>1, <1>5, <1>6 DEF t, front, n

\* The bytes behind the address and the length are those of the addresses.
LEMMA LearnedBytes ==
  ASSUME IInv, host.asked.sub = SpiRead, host.asked.arguments \in Nat \X Bytes
  PROVE  LET data == lastReply.data
         IN  \A a \in data[1]..(data[1] + data[2] - 1) :
               data[a - data[1] + 3] = FlashByte(a)
<1> DEFINE address == host.asked.arguments[1]
           length == Min({host.asked.arguments[2], 29})
           bytes == [i \in 1..length |-> FlashByte(address + i - 1)]
           data == <<address, length>> \o bytes
<1>1. lastReply.data = data
  BY DEF IInv, RepliesAnswer
<1>2. address \in Nat /\ length \in Nat
  BY ServedLength
<1> HIDE DEF address, length
<1>3. /\ data[1] = address /\ data[2] = length
      /\ \A i \in 1..length : data[i + 2] = bytes[i]
  <2> DEFINE S == {address, length} \cup {bytes[i] : i \in 1..length}
  <2>1. address \in S /\ length \in S /\ \A i \in 1..length : bytes[i] \in S
    OBVIOUS
  <2>2. DOMAIN bytes = 1..length
    OBVIOUS
  <2>3. bytes = [i \in 1..length |-> bytes[i]]
    OBVIOUS
  <2> HIDE DEF S, bytes
  <2>4. bytes \in [1..length -> S]
    BY <2>1, <2>3
  <2>5. bytes \in Seq(S)
    BY <1>2, <2>4, SeqDef
  <2>6. Len(bytes) = length
    BY <1>2, <2>2
  <2>7. /\ data[1] = address /\ data[2] = length
        /\ \A i \in 1..Len(bytes) : data[i + 2] = bytes[i]
    BY <2>1, <2>5, TwoInFront
  <2> QED BY <2>6, <2>7
<1>4. ASSUME NEW a \in address..(address + length - 1)
      PROVE  data[a - address + 3] = FlashByte(a)
  <2> DEFINE i == a - address + 1
  <2>1. /\ i \in 1..length /\ i + 2 = a - address + 3
        /\ address + i - 1 = a
    BY <1>2
  <2>2. bytes[i] = FlashByte(a)
    BY <2>1
  <2> HIDE DEF i, bytes, data
  <2>3. data[i + 2] = bytes[i]
    BY <1>3, <2>1
  <2> QED BY <2>1, <2>2, <2>3
<1> HIDE DEF data
<1> QED BY <1>1, <1>3, <1>4

\* What a host learns is what its flash holds there.
LEMMA ReadsStep ==
  ASSUME IInv, HostReads
  PROVE  IInv'
<1> DEFINE data == lastReply.data
           known == lastReply.sub = SpiRead /\ Len(data) > 2
           learned == IF known
                      THEN [a \in data[1]..(data[1] + data[2] - 1) |->
                              data[a - data[1] + 3]]
                      ELSE <<>>
           flash == [a \in DOMAIN host.flash \cup DOMAIN learned |->
                       IF a \in DOMAIN learned THEN learned[a] ELSE host.flash[a]]
<1>1. /\ host' = [host EXCEPT !.reply = lastReply, !.flash = flash]
      /\ UNCHANGED <<timer, lastAxis, vibrationAck, settings, lastReply, route,
                     sourceRumble>>
  BY Zenon DEF HostReads
<1>2. \A a \in DOMAIN learned : learned[a] = FlashByte(a)
  <2>1. CASE ~known
    <3>1. DOMAIN learned = {}
      BY <2>1
    <3> QED BY <3>1
  <2>2. CASE known
    <3>1. host.asked.sub = SpiRead /\ host.asked.arguments \in Nat \X Bytes
      BY <2>2 DEF IInv, RepliesAnswer, RepliesNameSubcommand, HostInv
    <3> QED BY <2>2, <3>1, LearnedBytes
  <2> QED BY <2>1, <2>2
<1> HIDE DEF learned
<1>3. \A a \in DOMAIN flash : flash[a] = FlashByte(a)
  BY <1>2 DEF IInv, HostInv
<1> HIDE DEF flash
<1>4. /\ DOMAIN host' = DOMAIN host
      /\ host'.counter = host.counter /\ host'.rumble = host.rumble
      /\ host'.leds = host.leds /\ host'.asked = host.asked
      /\ host'.flash = flash
  BY <1>1 DEF IInv, TypeInv
<1>5. TypeInv'
  BY <1>1, <1>4 DEF IInv, TypeInv
<1>6. HostPacketsAreRead'
  BY <1>1, <1>4 DEF IInv, HostPacketsAreRead
<1>7. RepliesAnswer'
  BY <1>1, <1>4 DEF IInv, RepliesAnswer, RepliesNameSubcommand
<1>8. HostInv'
  BY <1>1, <1>3, <1>4 DEF IInv, HostInv
<1> QED BY <1>5, <1>6, <1>7, <1>8 DEF IInv

\* A poll and an input take a timer value, and nothing of the host's.
LEMMA InputStep ==
  ASSUME IInv, HostPollsInput \/ \E axis \in Axes : Input(axis)
  PROVE  IInv'
<1>1. UNCHANGED <<vibrationAck, settings, lastReply, route, sourceRumble, host>>
  BY DEF HostPollsInput, Input
<1>2. SixteenBits(lastAxis')
  <2>1. CASE HostPollsInput
    BY <2>1 DEF HostPollsInput, IInv, TypeInv
  <2>2. CASE \E axis \in Axes : Input(axis)
    BY <2>2, MappedAxis DEF Input
  <2> QED BY <2>1, <2>2
<1>3. TypeInv'
  BY <1>1, <1>2 DEF IInv, TypeInv
<1>4. HostPacketsAreRead'
  BY <1>1 DEF IInv, HostPacketsAreRead
<1>5. RepliesAnswer'
  BY <1>1 DEF IInv, RepliesAnswer, RepliesNameSubcommand
<1>6. HostInv'
  BY <1>1 DEF IInv, HostInv
<1> QED BY <1>3, <1>4, <1>5, <1>6 DEF IInv

-----------------------------------------------------------------------------
(* The theorems.                                                           *)

LEMMA InvInit == Init => IInv
<1> SUFFICES ASSUME Init PROVE IInv
  OBVIOUS
<1> USE DEF Init
<1>1. TypeInv
  BY DEF TypeInv, SixteenBits, Bytes, NoRumble, NoReply
<1>2. HostPacketsAreRead
  BY DEF HostPacketsAreRead
<1>3. RepliesAnswer
  <2>1. lastReply.sub = 0 /\ lastReply.ack = 7
    BY DEF NoReply
  <2>2. host.asked.sub = 0 /\ host.asked.counter = 7
    OBVIOUS
  <2>3. host.asked.sub # GetPlayerLeds /\ host.asked.sub # SpiRead
    BY <2>2 DEF GetPlayerLeds, SpiRead
  <2> QED BY <2>1, <2>2, <2>3, Zenon DEF RepliesAnswer, RepliesNameSubcommand
<1>4. HostInv
  <2>1. host.asked.sub = 0 /\ host.flash = <<>> /\ settings.leds = host.leds
    OBVIOUS
  <2>2. DOMAIN host.flash = {}
    BY <2>1
  <2> QED BY <2>1, <2>2 DEF HostInv, SpiRead
<1> QED BY <1>1, <1>2, <1>3, <1>4 DEF IInv

LEMMA InvStep ==
  ASSUME Framed
  PROVE  IInv /\ [Next]_vars => IInv'
<1> SUFFICES ASSUME IInv, [Next]_vars PROVE IInv'
  OBVIOUS
<1>1. CASE HostRumbles
  BY <1>1, RumblesStep
<1>2. CASE HostAsks
  BY <1>2, AsksStep
<1>3. CASE HostSendsUsbCommand
  BY <1>3, UsbStep
<1>4. CASE HostReads
  BY <1>4, ReadsStep
<1>5. CASE HostPollsInput \/ \E axis \in Axes : Input(axis)
  BY <1>5, InputStep
<1>6. CASE UNCHANGED vars
  <2>1. TypeInv'
    BY <1>6 DEF vars, IInv, TypeInv
  <2>2. HostPacketsAreRead'
    BY <1>6 DEF vars, IInv, HostPacketsAreRead
  <2>3. RepliesAnswer'
    BY <1>6 DEF vars, IInv, RepliesAnswer, RepliesNameSubcommand
  <2>4. HostInv'
    BY <1>6 DEF vars, IInv, HostInv
  <2> QED BY <2>1, <2>2, <2>3, <2>4 DEF IInv
<1> QED BY <1>1, <1>2, <1>3, <1>4, <1>5, <1>6 DEF Next

LEMMA Invariance ==
  ASSUME Framed
  PROVE  Spec => []IInv
<1>1. Init => IInv
  BY InvInit
<1>2. IInv /\ [Next]_vars => IInv'
  BY InvStep
<1> QED BY <1>1, <1>2, PTL DEF Spec

\* When the host's reports can be told apart, Runtime's decoder, the profile's
\* note of the counter and its subcommand handler read every packet as the host
\* meant it, with or without its id in front.
THEOREM PacketsAreReadAsMeant ==
  ASSUME Framed
  PROVE  Spec => []HostPacketsAreRead
<1>1. IInv => HostPacketsAreRead
  BY DEF IInv
<1>2. Spec => []IInv
  BY Invariance
<1> QED BY <1>1, <1>2, PTL

\* The reply last_subcommand_reply_ holds is always that to the host's last
\* subcommand, with the bytes the flash has at the addresses asked for, for a
\* read that starts and ends anywhere.
THEOREM LastReplyAnswers ==
  ASSUME Framed
  PROVE  Spec => []RepliesAnswer
<1>1. IInv => RepliesAnswer
  BY DEF IInv
<1>2. Spec => []IInv
  BY Invariance
<1> QED BY <1>1, <1>2, PTL

LEMMA StickBounds ==
  ASSUME NEW axis, SixteenBits(axis)
  PROVE  StickShows(FirstOf(PackStick(axis)), axis)
<1>1. StickShows(Scaled(axis), axis)
  BY ScaledBounds
<1>2. TwelveBits(Scaled(axis))
  BY <1>1 DEF StickShows, TwelveBits
<1>3. FirstOf(PackStick(axis)) = Scaled(axis)
  BY <1>2, PackedStick DEF PackStick
<1> QED BY <1>1, <1>3

\* The first nine bytes of the sticks' calibration, as the host has them.
LEMMA LearnedSticks ==
  ASSUME IInv, StickRegion..(StickRegion + 8) \subseteq DOMAIN host.flash,
         NEW k \in 0..8
  PROVE  host.flash[StickRegion + k] = Sticks[k + 1]
<1> DEFINE a == StickRegion + k
<1>1. a \in DOMAIN host.flash
  BY DEF StickRegion
<1>2. host.flash[a] = FlashByte(a)
  BY <1>1 DEF IInv, HostInv
<1>3. /\ a \in StickRegion..(StickRegion + Len(Sticks) - 1)
      /\ a \notin ImuRegion..(ImuRegion + Len(Imu) - 1)
      /\ a - StickRegion + 1 = k + 1
  BY SticksBytes, ImuBytes DEF StickRegion, ImuRegion
<1> HIDE DEF a
<1>4. FlashByte(a) = Sticks[k + 1]
  BY <1>3 DEF FlashByte
<1> QED BY <1>2, <1>4 DEF a

\* A pair of twelve-bit numbers at a place of the host's flash.
PairAt(i) == Unpacked(host.flash[StickRegion + i], host.flash[StickRegion + i + 1],
                      host.flash[StickRegion + i + 2])

\* The calibration a host has pieced together is the range and the center.
LEMMA LearnedPairs ==
  ASSUME IInv, StickRegion..(StickRegion + 8) \subseteq DOMAIN host.flash
  PROVE  PairAt(0)[1] = 1536 /\ PairAt(3)[1] = 2048 /\ PairAt(6)[1] = 1536
<1> DEFINE byte(k) == host.flash[StickRegion + k]
<1>1. \A k \in 0..8 : byte(k) = Sticks[k + 1]
  BY LearnedSticks
<1>2. /\ byte(0) = 0 /\ byte(1) = 6 /\ byte(2) = 96
      /\ byte(3) = 0 /\ byte(4) = 8 /\ byte(5) = 128
      /\ byte(6) = 0 /\ byte(7) = 6 /\ byte(8) = 96
  <2> HIDE DEF byte
  <2> QED BY <1>1, SticksBytes
<1>3. ASSUME NEW i \in {0, 3, 6}
      PROVE  PairAt(i) = Unpacked(byte(i), byte(i + 1), byte(i + 2))
  <2>1. StickRegion + i + 1 = StickRegion + (i + 1)
        /\ StickRegion + i + 2 = StickRegion + (i + 2)
    BY DEF StickRegion
  <2> QED BY <2>1 DEF PairAt
<1> HIDE DEF byte
<1>4. /\ PairAt(0) = Unpacked(0, 6, 96)
      /\ PairAt(3) = Unpacked(0, 8, 128)
      /\ PairAt(6) = Unpacked(0, 6, 96)
  BY <1>2, <1>3
<1> QED BY <1>4 DEF Unpacked

LEMMA CalibrationHolds ==
  ASSUME IInv
  PROVE  SticksMatchCalibration
<1> DEFINE stick == FirstOf(PackStick(lastAxis))
<1>1. StickShows(stick, lastAxis)
  BY StickBounds DEF IInv, TypeInv
<1> HIDE DEF stick
<1>2. ASSUME StickRegion..(StickRegion + 8) \subseteq DOMAIN host.flash
      PROVE  /\ stick \in (PairAt(3)[1] - PairAt(6)[1])
                            ..(PairAt(3)[1] + PairAt(0)[1])
             /\ lastAxis = 0 => stick = PairAt(3)[1]
             /\ lastAxis = -32767 => stick = PairAt(3)[1] - PairAt(6)[1] + 1
             /\ lastAxis = 32767 => stick = PairAt(3)[1] + PairAt(0)[1] - 1
  <2>1. PairAt(0)[1] = 1536 /\ PairAt(3)[1] = 2048 /\ PairAt(6)[1] = 1536
    BY <1>2, LearnedPairs
  <2> QED BY <1>1, <2>1 DEF StickShows
<1> QED BY <1>2 DEF SticksMatchCalibration, stick, FirstOf, PairAt

\* What the profile serves at 0x603D and how it scales a stick agree, whatever
\* pieces of the flash the host has read and in whatever order.
THEOREM SticksStayInCalibration ==
  ASSUME Framed
  PROVE  Spec => []SticksMatchCalibration
<1>1. IInv => SticksMatchCalibration
  BY CalibrationHolds
<1>2. Spec => []IInv
  BY Invariance
<1> QED BY <1>1, <1>2, PTL
================================================================================

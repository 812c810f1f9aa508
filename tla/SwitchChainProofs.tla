--------------------------- MODULE SwitchChainProofs ---------------------------
(***************************************************************************)
(* Proofs about SwitchChain and RumbleChain: what chains of any length do   *)
(* to a controller's sticks, buttons and battery, and to a host's rumble.   *)
(***************************************************************************)
EXTENDS RumbleChain, SequenceTheorems, FiniteSetTheorems, WellFoundedInduction, TLAPS

-----------------------------------------------------------------------------
(* One axis through one bridge *)

\* What a quotient of two naturals is worth.
LEMMA QuotientBounds ==
  ASSUME NEW a \in Nat, NEW b \in Nat \ {0}
  PROVE  /\ a \div b \in Nat
         /\ b * (a \div b) <= a
         /\ a < b * (a \div b) + b
  OBVIOUS

\* Distances from the center: of a twelve-bit stick, and of an axis.
Distances == {far \in Nat : far <= 2048}
Magnitudes == {m \in Nat : m <= 32768}

\* A stick's distance from the center and its magnitude n once normalized: six
\* times n is 128 times the distance, but for the rounding.
Distance(far, n) ==
  /\ n \in Nat /\ n <= 32768
  /\ far < 1536 => 6 * n <= 128 * far + 3 /\ 6 * n >= 128 * far - 2
  /\ far >= 1536 => n = 32768

\* The magnitude normalize_switch_stick gives it: the quotient of its lround,
\* up to the clamp.
Rounding(far) == (2 * (far * 64) + 3) \div 6
Axis(far) == IF Rounding(far) > 32768 THEN 32768 ELSE Rounding(far)

\* The quotient is off by half at most.
RoundingBounds(far, q) ==
  /\ q \in Nat
  /\ 6 * q <= 128 * far + 3
  /\ 6 * q >= 128 * far - 2

\* It is what the rounding of a natural's quotient comes to.
LEMMA RoundedDistance ==
  ASSUME NEW far \in Distances
  PROVE  RoundingBounds(far, Rounding(far))
<1> DEFINE a == 2 * (far * 64) + 3
           q == a \div 6
<1>0. far \in Nat /\ far <= 2048
  BY DEF Distances
<1>1. a \in Nat /\ a = 128 * far + 3
  BY <1>0
<1>2. q \in Nat /\ 6 * q <= a /\ a < 6 * q + 6
  BY <1>1, QuotientBounds
<1> HIDE DEF q
<1>3. q \in Nat /\ 6 * q <= 128 * far + 3 /\ 6 * q >= 128 * far - 2
  BY <1>0, <1>1, <1>2
<1>. QED
  BY <1>3 DEF q, Rounding, RoundingBounds

\* The clamp brings it into the range of an axis.
LEMMA AxisDistance ==
  ASSUME NEW far \in Distances
  PROVE  Distance(far, Axis(far))
<1> DEFINE q == Rounding(far)
<1>0. far \in Nat /\ far <= 2048
  BY DEF Distances
<1>1. RoundingBounds(far, q)
  BY RoundedDistance
<1>2. Axis(far) = IF q > 32768 THEN 32768 ELSE q
  BY DEF Axis
<1> HIDE DEF q
<1>3. q \in Nat /\ 6 * q <= 128 * far + 3 /\ 6 * q >= 128 * far - 2
  BY <1>1 DEF RoundingBounds
<1>4. CASE far < 1536
  <2>1. 6 * q <= 196483
    BY <1>0, <1>3, <1>4
  <2>2. q <= 32768
    BY <1>3, <2>1
  <2>3. Axis(far) = q
    BY <1>2, <1>3, <2>2
  <2>. QED
    BY <1>0, <1>3, <1>4, <2>2, <2>3 DEF Distance
<1>5. CASE far >= 1536
  <2>1. 6 * q >= 196606
    BY <1>0, <1>3, <1>5
  <2>2. q >= 32768
    BY <1>3, <2>1
  <2>3. Axis(far) = 32768
    BY <1>2, <1>3, <2>2
  <2>. QED
    BY <1>0, <1>5, <2>3 DEF Distance
<1>. QED
  BY <1>0, <1>4, <1>5

\* Its range alone.
LEMMA AxisRange ==
  ASSUME NEW far \in Distances
  PROVE  Axis(far) \in Magnitudes
<1>1. Distance(far, Axis(far))
  BY AxisDistance
<1>. QED
  BY <1>1 DEF Distance, Magnitudes

\* A stick at or above the center.
LEMMA NormalizedAbove ==
  ASSUME NEW far \in Distances
  PROVE  Normalized(2048 + far) = IF Axis(far) = 32768 THEN 32767 ELSE Axis(far)
<1> DEFINE q == Rounding(far)
           raw == 2048 + far
           z == (raw - 2048) * 64
<1>0. far \in Nat /\ far <= 2048
  BY DEF Distances
<1>1. q \in Nat
  <2>1. RoundingBounds(far, q)
    BY RoundedDistance
  <2>. QED
    BY <2>1 DEF RoundingBounds
<1>2. z = far * 64 /\ z >= 0
  BY <1>0
<1>3. Rounded(z, 3) = q
  BY <1>2 DEF Rounded, Rounding
<1>4. Axis(far) = IF q > 32768 THEN 32768 ELSE q
  BY DEF Axis
<1> HIDE DEF raw
<1>5. Normalized(raw) = Clamped(Rounded(z, 3), -32768, 32767)
  BY DEF Normalized
<1> HIDE DEF q, z
<1>6. Normalized(raw) = IF q > 32767 THEN 32767 ELSE q
  BY <1>1, <1>3, <1>5 DEF Clamped
<1>. QED
  BY <1>1, <1>4, <1>6 DEF raw

\* A stick below it.
LEMMA NormalizedBelow ==
  ASSUME NEW far \in Distances, far >= 1
  PROVE  Normalized(2048 - far) = -Axis(far) /\ Axis(far) >= 1
<1> DEFINE q == Rounding(far)
           z == (2048 - far - 2048) * 64
<1>0. far \in Nat /\ far >= 1 /\ far <= 2048
  BY DEF Distances
<1>1. q \in Nat /\ 6 * q >= 128 * far - 2
  <2>1. RoundingBounds(far, q)
    BY RoundedDistance
  <2>. QED
    BY <2>1 DEF RoundingBounds
<1>2. z \in Int /\ ~(z >= 0) /\ -z = far * 64
  BY <1>0
<1>3. Normalized(2048 - far) = Clamped(Rounded(z, 3), -32768, 32767)
  BY DEF Normalized
<1>4. Axis(far) = IF q > 32768 THEN 32768 ELSE q
  BY DEF Axis
<1>5. Rounded(z, 3) = -q
  <2> HIDE DEF z
  <2>1. Rounded(z, 3) = -((2 * (far * 64) + 3) \div (2 * 3))
    BY <1>2 DEF Rounded
  <2>. QED
    BY <2>1 DEF Rounding
<1> HIDE DEF q, z
<1>6. q >= 1
  <2>1. 6 * q >= 126
    BY <1>0, <1>1
  <2>. QED
    BY <1>1, <2>1
<1>7. Normalized(2048 - far) = IF -q < -32768 THEN -32768 ELSE -q
  BY <1>1, <1>3, <1>5, <1>6 DEF Clamped
<1>. QED
  BY <1>1, <1>4, <1>6, <1>7

\* The distance on a Switch Pro stick of an axis of magnitude m.
Steps(m) == (m * 1536) \div 32768

\* The stick's steps are 64 / 3 of an axis wide.
StepBounds(m, s) ==
  /\ s \in Nat /\ s <= 1536
  /\ 64 * s <= 3 * m
  /\ 64 * s >= 3 * m - 63

\* So says the quotient.
LEMMA StepsBounded ==
  ASSUME NEW m \in Magnitudes
  PROVE  StepBounds(m, Steps(m))
<1> DEFINE s == (m * 1536) \div 32768
<1>0. m \in Nat /\ m <= 32768
  BY DEF Magnitudes
<1>1. m * 1536 \in Nat
  BY <1>0
<1>2. s \in Nat /\ 32768 * s <= m * 1536 /\ m * 1536 < 32768 * s + 32768
  BY <1>1, QuotientBounds
<1> HIDE DEF s
<1>3. 64 * s <= 3 * m /\ 64 * s >= 3 * m - 63
  BY <1>0, <1>2
<1>4. 3 * m <= 98304
  BY <1>0
<1>5. s \in Nat /\ 64 * s <= 98304
  BY <1>0, <1>2, <1>3, <1>4
<1>6. s \in Nat /\ s <= 1536
  BY <1>5
<1>. QED
  BY <1>3, <1>6 DEF Steps, StepBounds, s

\* An axis at or above the center, and one below it.
LEMMA ScaledAxis ==
  ASSUME NEW m \in Magnitudes
  PROVE  /\ Scaled(m) = 2048 + Steps(m)
         /\ m >= 1 => Scaled(-m) = 2048 - Steps(m)
<1> DEFINE s == Steps(m)
<1>0. m \in Nat /\ m <= 32768
  BY DEF Magnitudes
<1>1. Quotient(m * 1536, 32768) = s
  <2>1. m * 1536 >= 0
    BY <1>0
  <2>. QED
    BY <2>1 DEF Quotient, Steps
<1>2. m >= 1 => Quotient((-m) * 1536, 32768) = -s
  <2>1. m >= 1 => ~((-m) * 1536 >= 0) /\ -((-m) * 1536) = m * 1536
    BY <1>0
  <2>. QED
    BY <2>1 DEF Quotient, Steps
<1>3. StepBounds(m, s)
  BY StepsBounded
<1> HIDE DEF s
<1>4. s \in Nat /\ s <= 1536
  BY <1>3 DEF StepBounds
<1>5. Scaled(m) = 2048 + s
  BY <1>1, <1>4 DEF Scaled, Clamped
<1>6. m >= 1 => Scaled(-m) = 2048 - s
  BY <1>2, <1>4 DEF Scaled, Clamped
<1>. QED
  BY <1>5, <1>6 DEF s

\* A stick's distance from the center behind a bridge: a step less at most, and
\* not beyond the calibrated range.
Passed(far, s) ==
  /\ s \in Nat /\ s <= 1536
  /\ far < 1536 => far - 1 <= s /\ s <= far
  /\ far >= 1536 => s >= 1535

\* An axis off by one at most costs a step at most.
LEMMA PassedOn ==
  ASSUME NEW far \in Distances, NEW m \in Magnitudes,
         m >= Axis(far) - 1, m <= Axis(far) + 1
  PROVE  Passed(far, Steps(m)) /\ (m <= 32767 => Steps(m) <= 1535)
<1> DEFINE n == Axis(far)
           s == Steps(m)
<1>0. far \in Nat /\ far <= 2048 /\ m \in Nat /\ m <= 32768
  BY DEF Distances, Magnitudes
<1>1. Distance(far, n)
  BY AxisDistance
<1>2. StepBounds(m, s)
  BY StepsBounded
<1> HIDE DEF n, s
<1>3. n \in Nat /\ n <= 32768 /\ n - 1 <= m /\ m <= n + 1
  BY <1>1 DEF Distance, n
<1>4. s \in Nat /\ s <= 1536 /\ 64 * s <= 3 * m /\ 64 * s >= 3 * m - 63
  BY <1>2 DEF StepBounds
<1>5. ASSUME far < 1536 PROVE Passed(far, s)
  <2>1. 6 * n <= 128 * far + 3 /\ 6 * n >= 128 * far - 2
    BY <1>1, <1>5 DEF Distance
  <2>2. 6 * m <= 128 * far + 9 /\ 6 * m >= 128 * far - 8
    BY <1>0, <1>3, <2>1
  <2>3. 128 * s <= 128 * far + 9 /\ 128 * s >= 128 * far - 134
    BY <1>0, <1>4, <2>2
  <2>4. far - 1 <= s /\ s <= far
    BY <1>0, <1>4, <2>3
  <2>. QED
    BY <1>4, <1>5, <1>0, <2>4 DEF Passed
<1>6. ASSUME far >= 1536 PROVE Passed(far, s)
  <2>1. n = 32768
    BY <1>1, <1>6 DEF Distance
  <2>2. m >= 32767
    BY <1>0, <1>3, <2>1
  <2>3. 64 * s >= 98238
    BY <1>0, <1>4, <2>2
  <2>4. s >= 1535
    BY <1>4, <2>3
  <2>. QED
    BY <1>4, <1>6, <1>0, <2>4 DEF Passed
<1>7. m <= 32767 => s <= 1535
  <2>1. m <= 32767 => 64 * s <= 98301
    BY <1>0, <1>4
  <2>. QED
    BY <1>4, <2>1
<1>8. Passed(far, s)
  BY <1>0, <1>5, <1>6
<1>. QED
  BY <1>7, <1>8 DEF s

\* What a host is shown on either side of the center.
LEMMA ShownAbove ==
  ASSUME NEW far \in Distances, NEW s, Passed(far, s), s <= 1535
  PROVE  Near(2048 + s, 2048 + far, 1)
<1>1. far \in Nat /\ far <= 2048 /\ s \in Nat /\ s <= 1535
  BY DEF Distances, Passed
<1>2. CASE far < 1536
  <2>1. Clamped(2048 + far, 512, 3583) = 2048 + far
    BY <1>1, <1>2 DEF Clamped
  <2>2. Clamped(2048 + far - 1, 2048, 2048 + far) = IF far = 0 THEN 2048 ELSE 2047 + far
    BY <1>1, <1>2 DEF Clamped
  <2>3. far - 1 <= s /\ s <= far
    BY <1>2 DEF Passed
  <2>. QED
    BY <1>1, <1>2, <2>1, <2>2, <2>3 DEF Near
<1>3. CASE far >= 1536
  <2>1. Clamped(2048 + far, 512, 3583) = 3583
    BY <1>1, <1>3 DEF Clamped
  <2>2. Clamped(3583 - 1, 2048, 3583) = 3582
    BY DEF Clamped
  <2>3. s >= 1535
    BY <1>3 DEF Passed
  <2>. QED
    BY <1>1, <2>1, <2>2, <2>3 DEF Near
<1>. QED
  BY <1>1, <1>2, <1>3

\* The other side.
LEMMA ShownBelow ==
  ASSUME NEW far \in Distances, NEW s, Passed(far, s)
  PROVE  Near(2048 - s, 2048 - far, 1)
<1>1. far \in Nat /\ far <= 2048 /\ s \in Nat /\ s <= 1536
  BY DEF Distances, Passed
<1>2. CASE far = 0
  <2>1. s = 0
    BY <1>1, <1>2 DEF Passed
  <2>. QED
    BY <1>2, <2>1 DEF Near, Clamped
<1>3. CASE far > 0 /\ far < 1536
  <2>1. Clamped(2048 - far, 512, 3583) = 2048 - far
    BY <1>1, <1>3 DEF Clamped
  <2>2. Clamped(2048 - far + 1, 2048 - far, 2048) = 2049 - far
    BY <1>1, <1>3 DEF Clamped
  <2>3. far - 1 <= s /\ s <= far
    BY <1>3 DEF Passed
  <2>. QED
    BY <1>1, <1>3, <2>1, <2>2, <2>3 DEF Near
<1>4. CASE far >= 1536
  <2>1. Clamped(2048 - far, 512, 3583) = 512
    BY <1>1, <1>4 DEF Clamped
  <2>2. Clamped(512 + 1, 512, 2048) = 513
    BY DEF Clamped
  <2>3. s >= 1535
    BY <1>4 DEF Passed
  <2>. QED
    BY <1>1, <2>1, <2>2, <2>3 DEF Near
<1>. QED
  BY <1>1, <1>2, <1>3, <1>4

\* A bridge that does not mirror an axis.
LEMMA OneBridge ==
  ASSUME NEW raw \in Values
  PROVE  Near(Scaled(Mapped(Normalized(raw))), raw, 1)
<1>0. raw \in Nat /\ raw <= 4095
  BY DEF Values
<1>1. CASE raw >= 2048
  <2> DEFINE far == raw - 2048
             n == Axis(far)
             m == IF n = 32768 THEN 32767 ELSE n
  <2>1. far \in Distances /\ raw = 2048 + far
    BY <1>0, <1>1 DEF Distances
  <2>2. n \in Magnitudes
    BY <2>1, AxisRange
  <2>3. Normalized(raw) = m
    BY <2>1, NormalizedAbove
  <2> HIDE DEF far, n
  <2>0. n \in Nat /\ n <= 32768
    BY <2>2 DEF Magnitudes
  <2>4. m \in Magnitudes /\ m <= 32767 /\ m >= n - 1 /\ m <= n + 1
    BY <2>0 DEF Magnitudes
  <2>5. Mapped(m) = m
    BY <2>0 DEF Mapped
  <2> HIDE DEF m
  <2>6. Passed(far, Steps(m)) /\ Steps(m) <= 1535
    BY <2>1, <2>4, PassedOn DEF n
  <2>7. Near(2048 + Steps(m), 2048 + far, 1)
    BY <2>1, <2>6, ShownAbove
  <2>8. Scaled(m) = 2048 + Steps(m)
    BY <2>4, ScaledAxis
  <2>. QED
    BY <2>1, <2>3, <2>5, <2>7, <2>8
<1>2. CASE raw < 2048
  <2> DEFINE far == 2048 - raw
             n == Axis(far)
             m == IF n > 16416 THEN n - 1 ELSE n
  <2>1. far \in Distances /\ far >= 1 /\ raw = 2048 - far
    BY <1>0, <1>2 DEF Distances
  <2>2. n \in Magnitudes
    BY <2>1, AxisRange
  <2>3. Normalized(raw) = -n /\ n >= 1
    BY <2>1, NormalizedBelow
  <2> HIDE DEF far, n
  <2>0. n \in Nat /\ n <= 32768
    BY <2>2 DEF Magnitudes
  <2>4. m \in Magnitudes /\ m >= 1 /\ m >= n - 1 /\ m <= n + 1
    BY <2>0, <2>3 DEF Magnitudes
  <2>5. Mapped(-n) = -m
    BY <2>0 DEF Mapped
  <2> HIDE DEF m
  <2>6. Passed(far, Steps(m))
    BY <2>1, <2>4, PassedOn DEF n
  <2>7. Near(2048 - Steps(m), 2048 - far, 1)
    BY <2>1, <2>6, ShownBelow
  <2>8. Scaled(-m) = 2048 - Steps(m)
    BY <2>4, ScaledAxis
  <2>. QED
    BY <2>1, <2>3, <2>5, <2>7, <2>8
<1>. QED
  BY <1>0, <1>1, <1>2

\* The first bridge behind a Switch 2, on its y axis.
LEMMA OneMirror ==
  ASSUME NEW raw \in Values
  PROVE  Near(Scaled(Mapped(InvertAxis(Normalized(raw)))), 4096 - raw, 1)
<1>0. raw \in Nat /\ raw <= 4095
  BY DEF Values
<1>1. CASE raw >= 2048
  <2> DEFINE far == raw - 2048
             n == Axis(far)
             a == IF n = 32768 THEN 32767 ELSE n
             m == IF a + 1 > 16416 THEN a ELSE a + 1
  <2>1. far \in Distances /\ raw = 2048 + far /\ 4096 - raw = 2048 - far
    BY <1>0, <1>1 DEF Distances
  <2>2. n \in Magnitudes
    BY <2>1, AxisRange
  <2>3. Normalized(raw) = a
    BY <2>1, NormalizedAbove
  <2> HIDE DEF far, n
  <2>0. n \in Nat /\ n <= 32768
    BY <2>2 DEF Magnitudes
  <2>4. m \in Magnitudes /\ m >= 1 /\ m >= n - 1 /\ m <= n + 1
    BY <2>0 DEF Magnitudes
  <2>5. a \in Nat /\ a <= 32767
    BY <2>0
  <2> HIDE DEF a
  <2>6. InvertAxis(a) = -a - 1 /\ Mapped(-a - 1) = -m
    BY <2>5 DEF InvertAxis, Mapped
  <2> HIDE DEF m
  <2>7. Passed(far, Steps(m))
    BY <2>1, <2>4, PassedOn DEF n
  <2>8. Near(2048 - Steps(m), 2048 - far, 1)
    BY <2>1, <2>7, ShownBelow
  <2>9. Scaled(-m) = 2048 - Steps(m)
    BY <2>4, ScaledAxis
  <2>. QED
    BY <2>1, <2>3, <2>6, <2>8, <2>9
<1>2. CASE raw < 2048
  <2> DEFINE far == 2048 - raw
             n == Axis(far)
             m == n - 1
  <2>1. far \in Distances /\ far >= 1 /\ raw = 2048 - far /\ 4096 - raw = 2048 + far
    BY <1>0, <1>2 DEF Distances
  <2>2. n \in Magnitudes
    BY <2>1, AxisRange
  <2>3. Normalized(raw) = -n /\ n >= 1
    BY <2>1, NormalizedBelow
  <2> HIDE DEF far, n
  <2>0. n \in Nat /\ n <= 32768
    BY <2>2 DEF Magnitudes
  <2>4. m \in Magnitudes /\ m <= 32767 /\ m >= n - 1 /\ m <= n + 1
    BY <2>0, <2>3 DEF Magnitudes
  <2>5. InvertAxis(-n) = m /\ Mapped(m) = m
    BY <2>0, <2>3 DEF InvertAxis, Mapped
  <2> HIDE DEF m
  <2>6. Passed(far, Steps(m)) /\ Steps(m) <= 1535
    BY <2>1, <2>4, PassedOn DEF n
  <2>7. Near(2048 + Steps(m), 2048 + far, 1)
    BY <2>1, <2>6, ShownAbove
  <2>8. Scaled(m) = 2048 + Steps(m)
    BY <2>4, ScaledAxis
  <2>. QED
    BY <2>1, <2>3, <2>5, <2>7, <2>8
<1>. QED
  BY <1>0, <1>1, <1>2

\* Steps add up: behind the first bridge a stick is within the calibrated range.
LEMMA NearAgain ==
  ASSUME NEW raw \in Int, NEW shown, NEW again, NEW steps \in Nat,
         Near(shown, raw, steps), Near(again, shown, 1)
  PROVE  Near(again, raw, steps + 1)
<1> DEFINE cut == Clamped(raw, 512, 3583)
<1>1. cut \in Nat /\ cut >= 512 /\ cut <= 3583
  BY DEF Clamped
<1>2. CASE cut >= 2048
  <2>1. shown \in Clamped(cut - steps, 2048, cut)..cut
    BY <1>2 DEF Near
  <2> HIDE DEF cut
  <2>2. shown \in Nat /\ shown >= 2048 /\ shown <= 3583 /\ shown <= cut /\ shown >= cut - steps
    BY <1>1, <1>2, <2>1 DEF Clamped
  <2>3. Clamped(shown, 512, 3583) = shown
    BY <2>2 DEF Clamped
  <2>4. again \in Clamped(shown - 1, 2048, shown)..shown
    BY <2>2, <2>3 DEF Near
  <2>5. again \in Nat /\ again >= 2048 /\ again <= 3583 /\ again <= cut /\ again >= cut - (steps + 1)
    BY <1>1, <2>2, <2>4 DEF Clamped
  <2>6. again \in Clamped(cut - (steps + 1), 2048, cut)..cut
    BY <1>1, <1>2, <2>5 DEF Clamped
  <2>. QED
    BY <1>2, <2>6 DEF Near, cut
<1>3. CASE cut < 2048
  <2>1. shown \in cut..Clamped(cut + steps, cut, 2048)
    BY <1>1, <1>3 DEF Near
  <2> HIDE DEF cut
  <2>2. shown \in Nat /\ shown >= 512 /\ shown <= 2048 /\ shown >= cut /\ shown <= cut + steps
    BY <1>1, <1>3, <2>1 DEF Clamped
  <2>3. Clamped(shown, 512, 3583) = shown
    BY <2>2 DEF Clamped
  <2>4. again \in Nat /\ again >= 512 /\ again <= 2048 /\ again >= shown /\ again <= shown + 1
    <3>1. CASE shown = 2048
      BY <2>3, <3>1 DEF Near, Clamped
    <3>2. CASE shown < 2048
      <4>1. again \in shown..Clamped(shown + 1, shown, 2048)
        BY <2>2, <2>3, <3>2 DEF Near
      <4>. QED
        BY <2>2, <3>2, <4>1 DEF Clamped
    <3>. QED
      BY <2>2, <3>1, <3>2
  <2>5. again \in cut..Clamped(cut + (steps + 1), cut, 2048)
    BY <1>1, <1>3, <2>2, <2>4 DEF Clamped
  <2>. QED
    BY <1>1, <1>3, <2>5 DEF Near, cut
<1>. QED
  BY <1>1, <1>2, <1>3

-----------------------------------------------------------------------------
(* Type correctness *)

\* A list of bits names bits.
LEMMA ListedBits ==
  ASSUME NEW layout \in Seq(Bits), NEW state
  PROVE  ButtonBitsOf(layout, state) \subseteq Bits
<1>1. \A b \in 0..(Len(layout) - 1) : b + 1 \in 1..Len(layout)
  OBVIOUS
<1>2. \A i \in 1..Len(layout) : layout[i] \in Bits
  OBVIOUS
<1>. QED
  BY <1>1, <1>2 DEF ButtonBitsOf

\* The two tables do.
LEMMA ProfileTables ==
  ProfileBits \in Seq(Bits) /\ ProfileBits2 \in Seq(Bits)
<1>1. ProfileBits \in Seq(Bits)
  BY DEF ProfileBits, Bits
<1>2. <<14, 24, 25>> \in Seq(Bits)
  BY DEF Bits
<1>. QED
  BY <1>1, <1>2 DEF ProfileBits2

\* A hat adds none but the d-pad's.
LEMMA HatKeepsBits ==
  ASSUME NEW bits \in SUBSET Bits, NEW hasHat, NEW hat
  PROVE  WithHat(bits, hasHat, hat) \in SUBSET Bits
BY DEF WithHat, HatBits, Bits, Up, Down, Left, Right

\* A clamped integer is in range.
LEMMA ClampedToStick ==
  ASSUME NEW value \in Int
  PROVE  Clamped(value, 0, 4095) \in Values
BY DEF Clamped, Values

\* An axis, and what a profile makes of it, are integers.
LEMMA AxesAreIntegers ==
  ASSUME NEW raw \in Int
  PROVE  /\ Mapped(Normalized(raw)) \in Int
         /\ Mapped(InvertAxis(Normalized(raw))) \in Int
<1>1. Rounded((raw - 2048) * 64, 3) \in Int
  <2> DEFINE z == (raw - 2048) * 64
  <2>1. z \in Int
    OBVIOUS
  <2> HIDE DEF z
  <2>2. Rounded(z, 3) \in Int
    BY <2>1 DEF Rounded
  <2>. QED
    BY <2>2 DEF z
<1>2. Normalized(raw) \in Int
  BY <1>1 DEF Normalized, Clamped
<1>. QED
  BY <1>2 DEF Mapped, InvertAxis

\* Both scales give twelve bits.
LEMMA StickBits ==
  ASSUME NEW axis \in Int
  PROVE  Scaled(axis) \in Values /\ Scaled2(axis) \in Values
<1>1. 2048 + Quotient(axis * 1536, 32768) \in Int
  <2> DEFINE z == axis * 1536
  <2>1. z \in Int
    OBVIOUS
  <2> HIDE DEF z
  <2>2. Quotient(z, 32768) \in Int
    BY <2>1 DEF Quotient
  <2>. QED
    BY <2>2 DEF z
<1>2. Rounded((axis + 32768) * 273, 4369) \in Int
  <2> DEFINE z == (axis + 32768) * 273
  <2>1. z \in Int
    OBVIOUS
  <2> HIDE DEF z
  <2>2. Rounded(z, 4369) \in Int
    BY <2>1 DEF Rounded
  <2>. QED
    BY <2>2 DEF z
<1>3. Clamped(2048 + Quotient(axis * 1536, 32768), 0, 4095) \in Values
  BY <1>1, ClampedToStick
<1>4. Clamped(Rounded((axis + 32768) * 273, 4369), 0, 4095) \in Values
  BY <1>2, ClampedToStick
<1>. QED
  BY <1>3, <1>4 DEF Scaled, Scaled2

\* The values of a stick are integers.
LEMMA ValuesAreIntegers ==
  ASSUME NEW v \in Values
  PROVE  v \in Int
BY DEF Values

\* A report's sticks are integers.
LEMMA ReportedSticks ==
  ASSUME NEW shown \in Reports
  PROVE  shown.x \in Int /\ shown.y \in Int
<1>1. shown.x \in Values /\ shown.y \in Values
  BY DEF Reports, Values
<1>. QED
  BY <1>1, ValuesAreIntegers

\* What a report decodes to.
LEMMA DecodedAxes ==
  ASSUME NEW shown \in Reports
  PROVE  /\ Mapped(DecodeSwitch(shown).x) \in Int
         /\ Mapped(DecodeSwitch(shown).y) \in Int
         /\ Mapped(DecodeSwitch2(shown).x) \in Int
         /\ Mapped(DecodeSwitch2(shown).y) \in Int
<1>1. shown.x \in Int /\ shown.y \in Int
  BY ReportedSticks
<1>. QED
  BY <1>1, AxesAreIntegers DEF DecodeSwitch, DecodeSwitch2

\* The parts of a report make one.
LEMMA ReportOf ==
  ASSUME NEW b \in SUBSET Bits, NEW h \in Values, NEW v \in Values, NEW c \in 0..255
  PROVE  [bits |-> b, x |-> h, y |-> v, battery |-> c] \in Reports
BY DEF Reports, Bits, Values

\* What it is encoded as is a report.
LEMMA EncodedReports ==
  ASSUME NEW state, Mapped(state.x) \in Int, Mapped(state.y) \in Int, NEW hasHat
  PROVE  EncodeSwitch(state, hasHat) \in Reports /\ EncodeSwitch2(state, hasHat) \in Reports
<1>1. /\ WithHat(ButtonBitsOf(ProfileBits, state), hasHat, state.hat) \in SUBSET Bits
      /\ WithHat(ButtonBitsOf(ProfileBits2, state), hasHat, state.hat) \in SUBSET Bits
  BY ProfileTables, ListedBits, HatKeepsBits
<1>2. /\ Scaled(Mapped(state.x)) \in Values /\ Scaled(Mapped(state.y)) \in Values
      /\ Scaled2(Mapped(state.x)) \in Values /\ Scaled2(Mapped(state.y)) \in Values
  BY StickBits
<1>3. Connection(state.battery) \in 0..255
  BY DEF Connection
<1>4. 0 \in 0..255
  OBVIOUS
<1>. QED
  BY <1>1, <1>2, <1>3, <1>4, ReportOf DEF EncodeSwitch, EncodeSwitch2

\* A bridge keeps the types.
LEMMA HopKeepsTypes ==
  ASSUME TypeOK, NEW to \in {SwitchPro, Switch2Pro}, Hop(to)
  PROVE  TypeOK'
<1>1. Mapped(Decode.x) \in Int /\ Mapped(Decode.y) \in Int
  BY DecodedAxes DEF TypeOK, Decode
<1>2. report' \in Reports
  BY <1>1, EncodedReports DEF Hop
<1>3. kind' \in {SwitchPro, Switch2Pro} /\ through' \in Seq({SwitchPro, Switch2Pro})
  BY DEF Hop, TypeOK
<1>. QED
  BY <1>2, <1>3 DEF Hop, TypeOK

\* Types hold whatever controllers there are and however long the chain: reports
\* stay reports, through the hat, the two scales and the clamps.
THEOREM TypeCorrect == Spec => []TypeOK
<1>1. Init => TypeOK
  BY PadsAssumption DEF Init, TypeOK, Controllers
<1>2. TypeOK /\ [Next]_vars => TypeOK'
  <2> SUFFICES ASSUME TypeOK, [Next]_vars PROVE TypeOK'
    OBVIOUS
  <2>1. CASE UNCHANGED vars
    BY <2>1 DEF TypeOK, vars
  <2>2. CASE Arrived
    BY <2>2 DEF TypeOK, vars, Arrived
  <2>3. CASE \E to \in {SwitchPro, Switch2Pro} : Hop(to)
    BY <2>3, HopKeepsTypes
  <2>. QED
    BY <2>1, <2>2, <2>3 DEF Next
<1>. QED
  BY <1>1, <1>2, PTL DEF Spec

-----------------------------------------------------------------------------
(* Sticks *)

\* The report read next is the pad's own, or that of the last profile passed.
Origin ==
  /\ through = <<>> => kind = pad.kind /\ report = pad.report
  /\ through # <<>> => kind = through[Len(through)]

\* Inductive: what a stick shows now says what it shows behind one more bridge
\* only together with whose report it is.
SticksInv == TypeOK /\ Origin /\ SticksSurvive

\* A bridge keeps the sticks.
LEMMA HopKeepsSticks ==
  ASSUME SticksInv, NEW to \in {SwitchPro, Switch2Pro}, Hop(to)
  PROVE  Origin' /\ SticksSurvive'
<1>0. /\ through \in Seq({SwitchPro, Switch2Pro})
      /\ through' = Append(through, to) /\ kind' = to /\ pad' = pad
  BY DEF SticksInv, TypeOK, Hop
<1>1. Origin'
  BY <1>0 DEF Origin
<1>2. ASSUME Range(through') = {SwitchPro}
      PROVE  /\ Near(report'.x, pad.report.x, Len(through) + 1)
             /\ Near(report'.y, IF pad.kind = SwitchPro THEN pad.report.y
                                ELSE 4096 - pad.report.y, Len(through) + 1)
  <2>1. /\ \A i \in 1..Len(through) : through[i] = SwitchPro
        /\ to = SwitchPro
    <3>1. DOMAIN through' = 1..(Len(through) + 1)
      BY <1>0
    <3>2. \A i \in 1..(Len(through) + 1) : through'[i] = SwitchPro
      BY <1>2, <3>1 DEF Range
    <3>. QED
      BY <1>0, <3>2
  <2>2. /\ report'.x = Scaled(Mapped(Decode.x))
        /\ report'.y = Scaled(Mapped(Decode.y))
    BY <2>1 DEF Hop, EncodeSwitch
  <2>3. CASE through = <<>>
    <3>1. kind = pad.kind /\ report = pad.report
      BY <2>3 DEF SticksInv, Origin
    <3>2. report.x \in Values /\ report.y \in Values
      BY DEF SticksInv, TypeOK, Reports, Values
    <3>3. Near(report'.x, report.x, 1)
      BY <2>2, <3>2, OneBridge DEF Decode, DecodeSwitch, DecodeSwitch2
    <3>4. Near(report'.y, IF kind = SwitchPro THEN report.y ELSE 4096 - report.y, 1)
      <4>1. CASE kind = SwitchPro
        BY <2>2, <3>2, <4>1, OneBridge DEF Decode, DecodeSwitch
      <4>2. CASE kind # SwitchPro
        BY <2>2, <3>2, <4>2, OneMirror DEF Decode, DecodeSwitch2
      <4>. QED
        BY <4>1, <4>2
    <3>. QED
      BY <2>3, <3>1, <3>3, <3>4
  <2>4. CASE through # <<>>
    <3>1. Len(through) \in Nat /\ Len(through) >= 1
      BY <1>0, <2>4
    <3>2. Range(through) = {SwitchPro}
      BY <1>0, <2>1, <3>1 DEF Range
    <3>3. kind = SwitchPro
      BY <2>1, <2>4, <3>1 DEF SticksInv, Origin
    <3>4. report.x \in Values /\ report.y \in Values
      BY DEF SticksInv, TypeOK, Reports, Values
    <3>5. Near(report'.x, report.x, 1) /\ Near(report'.y, report.y, 1)
      BY <2>2, <3>3, <3>4, OneBridge DEF Decode, DecodeSwitch
    <3>6. pad.report.x \in Int /\ pad.report.y \in Int
      BY ReportedSticks DEF SticksInv, TypeOK, Controllers
    <3>7. (IF pad.kind = SwitchPro THEN pad.report.y ELSE 4096 - pad.report.y) \in Int
      BY <3>6
    <3>. QED
      BY <3>1, <3>2, <3>5, <3>6, <3>7, NearAgain DEF SticksInv, SticksSurvive
  <2>. QED
    BY <2>3, <2>4
<1>3. Len(through') = Len(through) + 1
  BY <1>0
<1>. QED
  BY <1>0, <1>1, <1>2, <1>3 DEF SticksSurvive

\* In a chain of Switch Pro profiles of any length a stick is a step per bridge
\* nearer the center at most, never on the other side of it and never outside
\* the calibrated range, whatever the controller reported.
THEOREM SticksStayClose == Spec => []SticksSurvive
<1>1. Init => Origin /\ SticksSurvive
  <2> SUFFICES ASSUME Init PROVE Origin /\ SticksSurvive
    OBVIOUS
  <2>1. Range(through) # {SwitchPro}
    BY DEF Init, Range
  <2>. QED
    BY <2>1 DEF Init, Origin, SticksSurvive
<1>2. TypeOK /\ Origin /\ SticksSurvive /\ [Next]_vars => Origin' /\ SticksSurvive'
  <2> SUFFICES ASSUME TypeOK, Origin, SticksSurvive, [Next]_vars
               PROVE  Origin' /\ SticksSurvive'
    OBVIOUS
  <2>1. CASE UNCHANGED vars
    BY <2>1 DEF Origin, SticksSurvive, vars
  <2>2. CASE Arrived
    BY <2>2 DEF Origin, SticksSurvive, vars, Arrived
  <2>3. CASE \E to \in {SwitchPro, Switch2Pro} : Hop(to)
    BY <2>3, HopKeepsSticks DEF SticksInv
  <2>. QED
    BY <2>1, <2>2, <2>3 DEF Next
<1>. QED
  BY <1>1, <1>2, TypeCorrect, PTL DEF Spec

-----------------------------------------------------------------------------
(* Buttons *)

\* The codec that reads a kind of controller, the profile that shows it, and the
\* buttons both know.
Codec(k) == IF k = SwitchPro THEN CodecButtons ELSE CodecButtons2
Table(k) == IF k = SwitchPro THEN ProfileBits ELSE ProfileBits2
Known(k) == IF k = SwitchPro THEN 0..17 ELSE 0..20

\* The sets of numbers the tables are lists of.
LEMMA TableLengths ==
  /\ Len(ProfileBits) = 18 /\ Len(ProfileBits2) = 21
  /\ Len(CodecButtons) = 24 /\ Len(CodecButtons2) = 26
<1>1. Len(ProfileBits) = 18 /\ Len(CodecButtons) = 24 /\ Len(CodecButtons2) = 26
  BY DEF ProfileBits, CodecButtons, CodecButtons2
<1>2. Len(ProfileBits2) = 21
  <2>1. ProfileBits \in Seq(Nat) /\ <<14, 24, 25>> \in Seq(Nat) /\ Len(<<14, 24, 25>>) = 3
    BY DEF ProfileBits
  <2>2. Len(ProfileBits2) = Len(ProfileBits) + Len(<<14, 24, 25>>)
    BY <2>1, ConcatProperties DEF ProfileBits2
  <2> QED BY <1>1, <2>1, <2>2
<1> QED BY <1>1, <1>2

\* The Switch 2's table starts with the other and has three bits more.
LEMMA LongerTable ==
  /\ \A b \in 0..17 : ProfileBits2[b + 1] = ProfileBits[b + 1]
  /\ ProfileBits2[19] = 14 /\ ProfileBits2[20] = 24 /\ ProfileBits2[21] = 25
<1> DEFINE more == <<14, 24, 25>>
<1>1. /\ ProfileBits \in Seq(Nat) /\ more \in Seq(Nat) /\ Len(more) = 3
      /\ more[1] = 14 /\ more[2] = 24 /\ more[3] = 25
  BY DEF ProfileBits
<1> HIDE DEF more
<1>2. \A i \in 1 .. Len(ProfileBits) + Len(more) :
        ProfileBits2[i] = IF i <= Len(ProfileBits) THEN ProfileBits[i]
                          ELSE more[i - Len(ProfileBits)]
  BY <1>1, ConcatProperties DEF ProfileBits2, more
<1> DEFINE n == Len(ProfileBits)
           k == Len(more)
<1>3. n = 18 /\ k = 3
  BY <1>1, TableLengths
<1> HIDE DEF n, k
<1>4. \A i \in 1 .. n + k :
        ProfileBits2[i] = IF i <= n THEN ProfileBits[i] ELSE more[i - n]
  BY <1>2 DEF n, k
<1>5. \A i \in 1..21 : ProfileBits2[i] = IF i <= 18 THEN ProfileBits[i] ELSE more[i - 18]
  BY <1>3, <1>4
<1> QED BY <1>1, <1>5

\* A codec reads every button back from the bit the profile sets for it.
ReadsBack(codec, table, n) ==
  /\ Len(table) = n + 1 /\ n \in Nat
  /\ \A b \in 0..n : table[b + 1] \in 0..(Len(codec) - 1) /\ codec[table[b + 1] + 1] = b

\* So do the two Switch profiles' own codecs.
LEMMA TablesMatch ==
  /\ ReadsBack(CodecButtons, ProfileBits, 17)
  /\ ReadsBack(CodecButtons2, ProfileBits2, 20)
<1>1. ReadsBack(CodecButtons, ProfileBits, 17)
  <2>1. \A b \in 0..17 : /\ ProfileBits[b + 1] \in 0..23
                         /\ CodecButtons[ProfileBits[b + 1] + 1] = b
    BY DEF ProfileBits, CodecButtons
  <2> QED BY <2>1, TableLengths DEF ReadsBack
<1>2. ReadsBack(CodecButtons2, ProfileBits2, 20)
  <2>1. \A b \in 0..17 : /\ ProfileBits[b + 1] \in 0..25
                         /\ CodecButtons2[ProfileBits[b + 1] + 1] = b
    BY DEF ProfileBits, CodecButtons2
  <2>2. CodecButtons2[15] = 18 /\ CodecButtons2[25] = 19 /\ CodecButtons2[26] = 20
    BY DEF CodecButtons2
  <2>3. ASSUME NEW b \in 0..20
        PROVE  /\ ProfileBits2[b + 1] \in 0..25
               /\ CodecButtons2[ProfileBits2[b + 1] + 1] = b
    <3>1. CASE b \in 0..17
      BY <2>1, <3>1, LongerTable
    <3>2. CASE b \in {18, 19, 20}
      BY <2>2, <3>2, LongerTable
    <3> QED BY <3>1, <3>2
  <2> QED BY <2>3, TableLengths DEF ReadsBack
<1> QED BY <1>1, <1>2

\* Any set of buttons comes through, as far as the tables know them.
LEMMA SetReadsBack ==
  ASSUME NEW codec, NEW table, NEW n, ReadsBack(codec, table, n), NEW state
  PROVE  ButtonsOf(codec, ButtonBitsOf(table, state)) = state.buttons \cap (0..n)
<1> DEFINE bits == ButtonBitsOf(table, state)
           range == 0..(Len(codec) - 1)
<1>1. bits = {table[b + 1] : b \in state.buttons \cap (0..n)}
  <2>1. 0..(Len(table) - 1) = 0..n
    BY DEF ReadsBack
  <2> QED BY <2>1 DEF ButtonBitsOf
<1>2. ButtonsOf(codec, bits) = {codec[bit + 1] : bit \in bits \cap range} \ {-1}
  BY DEF ButtonsOf, Unused
<1>3. \A b \in 0..n : table[b + 1] \in range /\ codec[table[b + 1] + 1] = b
  BY DEF ReadsBack
<1> HIDE DEF bits, range
<1>4. ASSUME NEW b \in state.buttons \cap (0..n)
      PROVE  b \in ButtonsOf(codec, bits)
  <2>1. table[b + 1] \in bits \cap range /\ codec[table[b + 1] + 1] = b
    BY <1>1, <1>3
  <2>2. b # -1
    OBVIOUS
  <2> QED BY <1>2, <2>1, <2>2
<1>5. ASSUME NEW b \in ButtonsOf(codec, bits)
      PROVE  b \in state.buttons \cap (0..n)
  <2>1. PICK bit \in bits \cap range : b = codec[bit + 1]
    BY <1>2
  <2>2. PICK pressed \in state.buttons \cap (0..n) : bit = table[pressed + 1]
    BY <1>1, <2>1
  <2> QED BY <1>3, <2>1, <2>2
<1> QED BY <1>4, <1>5 DEF bits

\* A codec reads no buttons but those.
LEMMA ReadButtonsAreKnown ==
  ASSUME NEW k \in {SwitchPro, Switch2Pro}, NEW bits
  PROVE  ButtonsOf(Codec(k), bits) \subseteq Known(k)
<1>1. \A i \in 1..24 : CodecButtons[i] \in 0..17 \/ CodecButtons[i] = -1
  BY DEF CodecButtons, Unused
<1>2. \A i \in 1..26 : CodecButtons2[i] \in 0..20 \/ CodecButtons2[i] = -1
  BY DEF CodecButtons2, Unused
<1>3. \A i \in 1..Len(Codec(k)) : Codec(k)[i] \in Known(k) \/ Codec(k)[i] = Unused
  BY <1>1, <1>2, TableLengths DEF Codec, Known, Unused
<1>4. Len(Codec(k)) \in Nat
  BY TableLengths DEF Codec
<1> HIDE DEF Codec, Known
<1>5. ASSUME NEW bit \in bits \cap (0..(Len(Codec(k)) - 1))
      PROVE  Codec(k)[bit + 1] \in Known(k) \/ Codec(k)[bit + 1] = Unused
  <2>1. bit + 1 \in 1..Len(Codec(k))
    BY <1>4
  <2> QED BY <1>3, <2>1
<1> QED BY <1>5 DEF ButtonsOf

\* The d-pad's bits and buttons in every table.
LEMMA DpadTables ==
  /\ CodecButtons2[16 + 1] = 13 /\ CodecButtons2[17 + 1] = 12
  /\ CodecButtons2[18 + 1] = 15 /\ CodecButtons2[19 + 1] = 14
  /\ \A k \in {SwitchPro, Switch2Pro} :
       /\ Table(k)[13 + 1] = 16 /\ Table(k)[12 + 1] = 17
       /\ Table(k)[15 + 1] = 18 /\ Table(k)[14 + 1] = 19
<1>1. /\ CodecButtons2[17] = 13 /\ CodecButtons2[18] = 12
      /\ CodecButtons2[19] = 15 /\ CodecButtons2[20] = 14
  BY DEF CodecButtons2
<1>2. /\ ProfileBits[13 + 1] = 16 /\ ProfileBits[12 + 1] = 17
      /\ ProfileBits[15 + 1] = 18 /\ ProfileBits[14 + 1] = 19
  BY DEF ProfileBits
<1>3. /\ ProfileBits2[13 + 1] = 16 /\ ProfileBits2[12 + 1] = 17
      /\ ProfileBits2[15 + 1] = 18 /\ ProfileBits2[14 + 1] = 19
  BY <1>2, LongerTable
<1> QED BY <1>1, <1>2, <1>3 DEF Table

\* No pressed direction is no hat.
LEMMA NeutralHat ==
  ASSUME NEW bits, bits \cap Directions = {}
  PROVE  HatBits(DpadHat(bits)) = {}
<1>1. \A h \in 0..7 : HatBits(h) # {}
  BY DEF HatBits
<1>2. {h \in 0..7 : HatBits(h) = bits \cap Directions} = {}
  BY <1>1
<1>3. DpadHat(bits) = 8
  BY <1>2 DEF DpadHat
<1> QED BY <1>3 DEF HatBits

\* Whoever shows the d-pad of a Switch 2 shows its buttons: the hat adds nothing.
LEMMA HatAddsNothing ==
  ASSUME NEW k \in {SwitchPro, Switch2Pro}, NEW bits,
         NEW state, state.buttons = ButtonsOf(CodecButtons2, bits),
         state.hat = DpadHat(bits)
  PROVE  WithHat(ButtonBitsOf(Table(k), state), TRUE, state.hat) =
           ButtonBitsOf(Table(k), state)
<1> DEFINE shown == ButtonBitsOf(Table(k), state)
<1>1. Len(Table(k)) \in {18, 21}
  BY TableLengths DEF Table
<1>2. CASE shown \cap Directions # {}
  BY <1>2 DEF WithHat
<1>3. CASE shown \cap Directions = {}
  <2>1. ASSUME NEW d \in {16, 17, 18, 19}, d \in bits
        PROVE  FALSE
    <3>1. CodecButtons2[d + 1] \in state.buttons /\ CodecButtons2[d + 1] \in 12..15
      <4>1. CodecButtons2[d + 1] \in 12..15
        BY DpadTables
      <4>2. d \in bits \cap (0..(Len(CodecButtons2) - 1))
        BY <2>1, TableLengths
      <4> QED BY <4>1, <4>2 DEF ButtonsOf, Unused
    <3>2. Table(k)[CodecButtons2[d + 1] + 1] = d
      BY DpadTables
    <3>3. CodecButtons2[d + 1] \in 0..(Len(Table(k)) - 1)
      <4> DEFINE button == CodecButtons2[d + 1]
                 n == Len(Table(k))
      <4>1. button \in 12..15 /\ n \in {18, 21}
        BY <1>1, <3>1
      <4> HIDE DEF button, n
      <4>2. button \in 0..(n - 1)
        BY <4>1
      <4> QED BY <4>2 DEF button, n
    <3>4. d \in shown
      BY <3>1, <3>2, <3>3 DEF ButtonBitsOf
    <3> QED BY <1>3, <3>4 DEF Directions, Down, Up, Right, Left
  <2>2. bits \cap Directions = {}
    BY <2>1 DEF Directions, Down, Up, Right, Left
  <2>3. HatBits(state.hat) = {}
    BY <2>2, NeutralHat
  <2> QED BY <2>3 DEF WithHat
<1> QED BY <1>2, <1>3

\* What a bridge shows is what it has read, in the bits of its profile.
LEMMA HopShows ==
  ASSUME NEW to \in {SwitchPro, Switch2Pro}, Hop(to)
  PROVE  report'.bits = ButtonBitsOf(Table(to), Decode)
<1>1. report'.bits = WithHat(ButtonBitsOf(Table(to), Decode), HasHat, Decode.hat)
  BY DEF Hop, EncodeSwitch, EncodeSwitch2, Table
<1>2. CASE kind = Switch2Pro
  <2>1. Decode = DecodeSwitch2(report) /\ HasHat = TRUE
    BY <1>2 DEF Decode, HasHat, SwitchPro, Switch2Pro
  <2>2. /\ Decode.buttons = ButtonsOf(CodecButtons2, report.bits)
        /\ Decode.hat = DpadHat(report.bits)
    BY <2>1 DEF DecodeSwitch2
  <2> QED BY <1>1, <2>1, <2>2, HatAddsNothing
<1>3. CASE kind # Switch2Pro
  <2>1. HasHat = FALSE
    BY <1>3 DEF HasHat
  <2> QED BY <1>1, <2>1 DEF WithHat
<1> QED BY <1>2, <1>3

LEMMA HopKeepsButtons ==
  ASSUME NEW to \in {SwitchPro, Switch2Pro}, Hop(to)
  PROVE  Decode'.buttons = Decode.buttons \cap Known(to)
<1>1. report'.bits = ButtonBitsOf(Table(to), Decode)
  BY HopShows
<1>2. Decode'.buttons = ButtonsOf(Codec(to), report'.bits)
  BY DEF Hop, Decode, DecodeSwitch, DecodeSwitch2, Codec
<1>3. ButtonsOf(Codec(to), ButtonBitsOf(Table(to), Decode)) = Decode.buttons \cap Known(to)
  <2>1. CASE to = SwitchPro
    <3>1. ReadsBack(CodecButtons, ProfileBits, 17)
      BY TablesMatch
    <3>2. ButtonsOf(CodecButtons, ButtonBitsOf(ProfileBits, Decode))
            = Decode.buttons \cap (0..17)
      BY <3>1, SetReadsBack
    <3> QED BY <2>1, <3>2 DEF Codec, Table, Known
  <2>2. CASE to # SwitchPro
    <3>1. ReadsBack(CodecButtons2, ProfileBits2, 20)
      BY TablesMatch
    <3>2. ButtonsOf(CodecButtons2, ButtonBitsOf(ProfileBits2, Decode))
            = Decode.buttons \cap (0..20)
      BY <3>1, SetReadsBack
    <3> QED BY <2>2, <3>2 DEF Codec, Table, Known
  <2> QED BY <2>1, <2>2
<1> QED BY <1>1, <1>2, <1>3

\* The buttons every controller so far knows.
KnownThrough == IF SwitchPro \in Range(through) \cup {pad.kind} THEN 0..17 ELSE 0..20

\* One more controller on the way.
LEMMA HopPasses ==
  ASSUME TypeOK, NEW to \in {SwitchPro, Switch2Pro}, Hop(to)
  PROVE  /\ Range(through') = Range(through) \cup {to}
         /\ KnownThrough' = KnownThrough \cap Known(to)
<1>1. /\ through \in Seq({SwitchPro, Switch2Pro})
      /\ through' = Append(through, to) /\ pad' = pad
  BY DEF TypeOK, Hop
<1>2. Range(through') = Range(through) \cup {to}
  <2>1. /\ DOMAIN through = 1..Len(through) /\ Len(through) \in Nat
        /\ DOMAIN through' = 1..(Len(through) + 1)
        /\ \A i \in 1..Len(through) : through'[i] = through[i]
        /\ through'[Len(through) + 1] = to
    BY <1>1
  <2> QED BY <2>1 DEF Range
<1>3. KnownThrough' = KnownThrough \cap Known(to)
  <2>1. CASE to = SwitchPro
    BY <1>1, <1>2, <2>1 DEF KnownThrough, Known
  <2>2. CASE to # SwitchPro
    BY <1>1, <1>2, <2>2 DEF KnownThrough, Known
  <2> QED BY <2>1, <2>2
<1> QED BY <1>2, <1>3

\* The property, by the names of this section.
LEMMA ButtonsRead ==
  ButtonsSurvive <=>
    Decode.buttons = ButtonsOf(Codec(pad.kind), pad.report.bits) \cap KnownThrough
BY DEF ButtonsSurvive, KnownThrough, Codec

\* The buttons of a controller come out at the end of any chain as they went in,
\* those apart that a Switch Pro on the way does not have: for any chain, and any
\* combination of buttons and directions held.
THEOREM ButtonsComeThrough == Spec => []ButtonsSurvive
<1>1. Init => ButtonsSurvive
  <2> SUFFICES ASSUME Init PROVE ButtonsSurvive
    OBVIOUS
  <2>1. pad.kind \in {SwitchPro, Switch2Pro} /\ kind = pad.kind /\ report = pad.report
    BY PadsAssumption DEF Init, Controllers
  <2>2. Decode.buttons = ButtonsOf(Codec(pad.kind), pad.report.bits)
    BY <2>1 DEF Decode, DecodeSwitch, DecodeSwitch2, Codec
  <2>3. KnownThrough = Known(pad.kind)
    <3>1. Range(through) = {}
      BY DEF Init, Range
    <3> QED BY <2>1, <3>1 DEF KnownThrough, Known
  <2>4. ButtonsOf(Codec(pad.kind), pad.report.bits) \subseteq Known(pad.kind)
    BY <2>1, ReadButtonsAreKnown
  <2> QED BY <2>2, <2>3, <2>4, ButtonsRead
<1>2. TypeOK /\ ButtonsSurvive /\ [Next]_vars => ButtonsSurvive'
  <2> SUFFICES ASSUME TypeOK, ButtonsSurvive, [Next]_vars PROVE ButtonsSurvive'
    OBVIOUS
  <2>1. CASE UNCHANGED vars \/ Arrived
    BY <2>1 DEF ButtonsSurvive, Decode, vars, Arrived
  <2>2. ASSUME NEW to \in {SwitchPro, Switch2Pro}, Hop(to)
        PROVE  ButtonsSurvive'
    <3>1. Decode'.buttons = Decode.buttons \cap Known(to)
      BY <2>2, HopKeepsButtons
    <3>2. KnownThrough' = KnownThrough \cap Known(to) /\ pad' = pad
      BY <2>2, HopPasses DEF Hop
    <3>3. Decode.buttons = ButtonsOf(Codec(pad.kind), pad.report.bits) \cap KnownThrough
      BY ButtonsRead
    <3>4. Decode'.buttons
            = ButtonsOf(Codec(pad'.kind), pad'.report.bits) \cap KnownThrough'
      BY <3>1, <3>2, <3>3
    <3> QED BY <3>4 DEF ButtonsSurvive, KnownThrough, Codec
  <2> QED BY <2>1, <2>2 DEF Next
<1> QED BY <1>1, <1>2, TypeCorrect, PTL DEF Spec

-----------------------------------------------------------------------------
(* Settling *)

\* The magnitude a codec gives a stick so far above its center.
MagnitudeOf(far) == IF Axis(far) = 32768 THEN 32767 ELSE Axis(far)

\* What a bridge makes of the distance: never a multiple of three and one more, and
\* the same distance again unless it was such a one.
Thirds(far, s) ==
  /\ s \in 0..1535
  /\ s % 3 # 1
  /\ far < 1536 /\ far % 3 # 1 => s = far

\* The multiples of a third of a step that rounding leaves: a stick's distance
\* behind a bridge is no multiple of three and one more.
LEMMA ThirdsArePassed ==
  ASSUME NEW far \in Distances
  PROVE  Thirds(far, Steps(MagnitudeOf(far)))
<1> DEFINE m == MagnitudeOf(far)
<1>a. m = (IF Axis(far) = 32768 THEN 32767 ELSE Axis(far)) /\ m \in Magnitudes
  BY AxisRange DEF MagnitudeOf, Magnitudes
<1> HIDE DEF m
<1> SUFFICES Thirds(far, Steps(m))
  BY DEF m
<1> SUFFICES
      /\ Steps(m) \in 0..1535
      /\ Steps(m) % 3 # 1
      /\ far < 1536 /\ far % 3 # 1 => Steps(m) = far
  BY DEF Thirds
<1> DEFINE n == Axis(far)
           s == Steps(m)
<1>0. far \in Nat /\ far <= 2048 /\ m \in Nat /\ m <= 32767
  <2>1. n \in Nat /\ n <= 32768
    BY AxisRange DEF Magnitudes
  <2> QED BY <1>a, <2>1 DEF Distances, Magnitudes
<1>1. Distance(far, n)
  BY AxisDistance
<1>2. StepBounds(m, s)
  BY <1>a, StepsBounded
<1> HIDE DEF n, s
<1>3. s \in Nat /\ s <= 1536 /\ 64 * s <= 3 * m /\ 64 * s >= 3 * m - 63
  BY <1>2 DEF StepBounds
<1>4. s <= 1535
  BY <1>0, <1>3
<1>5. CASE far >= 1536
  <2>1. m = 32767
    BY <1>a, <1>1, <1>5 DEF Distance, n
  <2>2. s = 1535
    BY <1>3, <1>4, <2>1
  <2> QED BY <1>0, <1>5, <2>2 DEF s
<1>6. CASE far < 1536
  <2>1. 6 * n <= 128 * far + 3 /\ 6 * n >= 128 * far - 2 /\ n \in Nat
    BY <1>1, <1>6 DEF Distance
  <2>2. n <= 32767
    BY <1>0, <1>6, <2>1
  <2>3. m = n
    BY <1>a, <2>1, <2>2 DEF n
  <2>4. 6 * m <= 128 * far + 3 /\ 6 * m >= 128 * far - 2
    BY <2>1, <2>3
  <2>5. s % 3 # 1
    <3> DEFINE k == s \div 3
    <3>1. k \in Nat /\ s % 3 = s - 3 * k
      BY <1>3
    <3> HIDE DEF k
    <3>2. ASSUME s = 3 * k + 1 PROVE FALSE
      <4>1. 3 * m >= 192 * k + 64 /\ 3 * m <= 192 * k + 127
        BY <1>0, <1>3, <3>1, <3>2
      <4>2. m >= 64 * k + 22 /\ m <= 64 * k + 42
        BY <1>0, <3>1, <4>1
      <4>3. 128 * far >= 384 * k + 129 /\ 128 * far <= 384 * k + 254
        BY <1>0, <2>4, <3>1, <4>2
      <4>4. far >= 3 * k + 2 /\ far <= 3 * k + 1
        BY <1>0, <3>1, <4>3
      <4> QED BY <1>0, <3>1, <4>4
    <3> QED BY <1>3, <3>1, <3>2
  <2>6. far % 3 # 1 => s = far
    <3> DEFINE k == far \div 3
    <3>1. k \in Nat /\ far % 3 = far - 3 * k /\ far % 3 \in {0, 1, 2}
      BY <1>0
    <3> HIDE DEF k
    <3>2. ASSUME far = 3 * k PROVE s = far
      <4>1. m = 64 * k
        BY <1>0, <2>4, <3>1, <3>2
      <4>2. 64 * s <= 192 * k /\ 64 * s >= 192 * k - 63
        BY <1>3, <3>1, <4>1
      <4> QED BY <1>3, <3>1, <3>2, <4>2
    <3>3. ASSUME far = 3 * k + 2 PROVE s = far
      <4>1. m = 64 * k + 43
        BY <1>0, <2>4, <3>1, <3>3
      <4>2. 64 * s <= 192 * k + 129 /\ 64 * s >= 192 * k + 66
        BY <1>3, <3>1, <4>1
      <4> QED BY <1>3, <3>1, <3>3, <4>2
    <3>4. far % 3 # 1 => far = 3 * k \/ far = 3 * k + 2
      BY <1>0, <3>1
    <3> QED BY <3>2, <3>3, <3>4
  <2> QED BY <1>3, <1>4, <2>5, <2>6 DEF s
<1> QED BY <1>0, <1>5, <1>6

\* The stick a bridge shows, in the upper half.
LEMMA UpperHalf ==
  ASSUME NEW far \in Distances
  PROVE  /\ Scaled(Mapped(Normalized(2048 + far))) = 2048 + Steps(MagnitudeOf(far))
         /\ Thirds(far, Steps(MagnitudeOf(far)))
<1>1. Normalized(2048 + far) = MagnitudeOf(far)
  BY NormalizedAbove DEF MagnitudeOf
<1>2. MagnitudeOf(far) \in Magnitudes /\ Mapped(MagnitudeOf(far)) = MagnitudeOf(far)
  <2>1. MagnitudeOf(far) \in Magnitudes /\ MagnitudeOf(far) # 32768
    BY AxisRange DEF MagnitudeOf, Magnitudes
  <2> QED BY <2>1 DEF Magnitudes, Mapped
<1>3. Scaled(MagnitudeOf(far)) = 2048 + Steps(MagnitudeOf(far))
  BY <1>2, ScaledAxis
<1>4. Thirds(far, Steps(MagnitudeOf(far)))
  BY ThirdsArePassed
<1> QED BY <1>1, <1>2, <1>3, <1>4

\* A stick as a Switch Pro profile leaves it.
Settled(x) ==
  /\ x \in Nat /\ 512 <= x /\ x <= 3583
  /\ x >= 2048 => (x - 2048) % 3 # 1

\* One bridge is enough.
LEMMA StickSettles ==
  ASSUME NEW raw \in Values
  PROVE  Settled(Scaled(Mapped(Normalized(raw))))
<1> DEFINE shown == Scaled(Mapped(Normalized(raw)))
<1>0. raw \in Nat /\ raw <= 4095
  BY DEF Values
<1>1. CASE raw >= 2048
  <2> DEFINE far == raw - 2048
  <2>1. far \in Distances /\ raw = 2048 + far
    BY <1>0, <1>1 DEF Distances
  <2> DEFINE s == Steps(MagnitudeOf(far))
  <2>2. shown - 2048 \in 0..1535 /\ (shown - 2048) % 3 # 1
    <3>1. shown = 2048 + s /\ Thirds(far, s)
      BY <2>1, UpperHalf
    <3> HIDE DEF shown, s
    <3>2. shown - 2048 = s
      BY <3>1 DEF Thirds
    <3> QED BY <3>1, <3>2 DEF Thirds
  <2>3. shown \in Int
    <3>1. Mapped(Normalized(raw)) \in Int
      BY <1>0, AxesAreIntegers
    <3>2. shown \in Values
      BY <3>1, StickBits
    <3> QED BY <3>2, ValuesAreIntegers
  <2> HIDE DEF shown
  <2> QED BY <2>2, <2>3 DEF Settled, shown
<1>2. CASE raw < 2048
  <2>1. Near(shown, raw, 1)
    BY OneBridge
  <2> DEFINE cut == Clamped(raw, 512, 3583)
  <2>2. cut \in Nat /\ 512 <= cut /\ cut < 2048
    BY <1>0, <1>2 DEF Clamped
  <2> HIDE DEF shown
  <2>3. shown \in cut..Clamped(cut + 1, cut, 2048)
    BY <2>1, <2>2 DEF Near
  <2> HIDE DEF cut
  <2>4. shown \in Nat /\ 512 <= shown /\ shown <= 2048
    BY <2>2, <2>3 DEF Clamped
  <2>5. shown >= 2048 => shown - 2048 = 0
    BY <2>4
  <2>6. 0 % 3 # 1
    OBVIOUS
  <2> QED BY <2>4, <2>5, <2>6 DEF Settled, shown
<1> QED BY <1>0, <1>1, <1>2

\* From then on the upper half passes, and the lower half loses a step at most.
LEMMA SettledStays ==
  ASSUME NEW x, Settled(x)
  PROVE  /\ x >= 2048 => Scaled(Mapped(Normalized(x))) = x
         /\ x < 2048 => Scaled(Mapped(Normalized(x))) \in {x, x + 1}
<1> DEFINE shown == Scaled(Mapped(Normalized(x)))
<1>0. x \in Nat /\ 512 <= x /\ x <= 3583 /\ x \in Values
  BY DEF Settled, Values
<1>1. ASSUME x >= 2048 PROVE shown = x
  <2> DEFINE far == x - 2048
  <2>1. far \in Distances /\ x = 2048 + far /\ far < 1536
    BY <1>0, <1>1 DEF Distances
  <2>2. far % 3 # 1
    BY <1>1 DEF Settled
  <2>3. Scaled(Mapped(Normalized(2048 + far))) = 2048 + far
    <3> HIDE DEF far
    <3>1. Thirds(far, Steps(MagnitudeOf(far)))
      BY <2>1, UpperHalf
    <3>2. Steps(MagnitudeOf(far)) = far
      BY <2>1, <2>2, <3>1 DEF Thirds
    <3> QED BY <2>1, <3>2, UpperHalf
  <2> QED BY <2>1, <2>3
<1>2. ASSUME x < 2048 PROVE shown \in {x, x + 1}
  <2>1. Near(shown, x, 1)
    BY <1>0, OneBridge
  <2> HIDE DEF shown
  <2>2. Clamped(x, 512, 3583) = x
    BY <1>0 DEF Clamped
  <2>3. shown \in x..Clamped(x + 1, x, 2048)
    BY <1>0, <1>2, <2>1, <2>2 DEF Near
  <2>4. Clamped(x + 1, x, 2048) = x + 1
    BY <1>0, <1>2 DEF Clamped
  <2> QED BY <1>0, <2>3, <2>4
<1> QED BY <1>1, <1>2

\* The battery a Switch Pro shows is read and shown again alike.
Batteries == {145, 129, 97, 65, 33}

LEMMA BatterySettles ==
  /\ \A percent : Connection(percent) \in Batteries
  /\ \A battery \in Batteries : Connection(Percent(battery)) = battery
<1>1. \A percent : Connection(percent) \in Batteries
  BY DEF Connection, Batteries
<1>2. \A battery \in Batteries : Connection(Percent(battery)) = battery
  <2>1. /\ Percent(145) = 0 /\ Percent(129) = 100 /\ Percent(97) = 60
        /\ Percent(65) = 30 /\ Percent(33) = 10
    BY DEF Percent
  <2> QED BY <2>1 DEF Connection, Batteries
<1> QED BY <1>1, <1>2

\* Inductive: the report of a Switch Pro profile is one its codec and the profile
\* turn into itself, but for the lower half of a stick.
ReportSettled ==
  /\ report.bits = ButtonBitsOf(ProfileBits, DecodeSwitch(report))
  /\ report.battery \in Batteries
  /\ Settled(report.x)

SettledInv == kind = SwitchPro /\ through # <<>> => ReportSettled

\* Whatever a Switch Pro profile encodes is settled.
LEMMA HopSettles ==
  ASSUME TypeOK, Hop(SwitchPro)
  PROVE  ReportSettled'
<1>1. report'.bits = ButtonBitsOf(ProfileBits, Decode)
  BY HopShows DEF Table
<1>2. ButtonBitsOf(ProfileBits, DecodeSwitch(report')) = report'.bits
  <2>1. DecodeSwitch(report').buttons = Decode.buttons \cap (0..17)
    <3>1. DecodeSwitch(report').buttons = ButtonsOf(CodecButtons, report'.bits)
      BY DEF DecodeSwitch
    <3>2. ReadsBack(CodecButtons, ProfileBits, 17)
      BY TablesMatch
    <3> QED BY <1>1, <3>1, <3>2, SetReadsBack
  <2>2. 0..(Len(ProfileBits) - 1) = 0..17
    BY TableLengths
  <2> QED BY <1>1, <2>1, <2>2 DEF ButtonBitsOf
<1>3. report'.battery \in Batteries
  BY BatterySettles DEF Hop, EncodeSwitch
<1>4. Settled(report'.x)
  <2>1. report.x \in Values
    BY DEF TypeOK, Reports, Values
  <2>2. report'.x = Scaled(Mapped(Normalized(report.x)))
    BY DEF Hop, EncodeSwitch, Decode, DecodeSwitch, DecodeSwitch2
  <2> QED BY <2>1, <2>2, StickSettles
<1> QED BY <1>2, <1>3, <1>4 DEF ReportSettled

\* A settled report stays.
LEMMA HopKeepsSettled ==
  ASSUME ReportSettled, kind = SwitchPro, Hop(SwitchPro)
  PROVE  /\ report'.bits = report.bits
         /\ report'.battery = report.battery
         /\ report.x >= 2048 => report'.x = report.x
         /\ report.x < 2048 => report'.x \in {report.x, report.x + 1}
<1>1. Decode = DecodeSwitch(report)
  BY DEF Decode
<1>2. report'.bits = report.bits
  BY <1>1, HopShows DEF Table, ReportSettled
<1>3. report'.battery = report.battery
  BY <1>1, BatterySettles DEF Hop, EncodeSwitch, DecodeSwitch, ReportSettled
<1>4. report'.x = Scaled(Mapped(Normalized(report.x)))
  BY <1>1 DEF Hop, EncodeSwitch, DecodeSwitch
<1> QED BY <1>2, <1>3, <1>4, SettledStays DEF ReportSettled

\* Behind the first Switch Pro profile of a chain of them the report stays what it
\* is, the lower half of a stick apart, however long the chain: a bridge behind
\* a bridge does not wear a report down.
THEOREM ReportsSettle == Spec => ChainSettles
<1> DEFINE step == pad.kind = SwitchPro /\ through # <<>> /\ Range(through') = {SwitchPro}
                     => /\ report'.bits = report.bits
                        /\ report'.battery = report.battery
                        /\ report.x >= 2048 => report'.x = report.x
                        /\ report.x < 2048 => report'.x \in {report.x, report.x + 1}
<1>1. Init => Origin /\ SettledInv
  BY DEF Init, Origin, SettledInv
<1>2. TypeOK /\ Origin /\ SettledInv /\ [Next]_vars => Origin' /\ SettledInv'
  <2> SUFFICES ASSUME TypeOK, Origin, SettledInv, [Next]_vars
               PROVE  Origin' /\ SettledInv'
    OBVIOUS
  <2>1. CASE UNCHANGED vars \/ Arrived
    BY <2>1 DEF Origin, SettledInv, ReportSettled, vars, Arrived
  <2>2. ASSUME NEW to \in {SwitchPro, Switch2Pro}, Hop(to)
        PROVE  Origin' /\ SettledInv'
    <3>1. Origin'
      BY <2>2 DEF TypeOK, Origin, Hop
    <3>2. SettledInv'
      BY <2>2, HopSettles DEF SettledInv, Hop
    <3> QED BY <3>1, <3>2
  <2> QED BY <2>1, <2>2 DEF Next
<1>3. TypeOK /\ Origin /\ SettledInv /\ [Next]_vars => [step]_vars
  <2> SUFFICES ASSUME TypeOK, Origin, SettledInv, Next,
                      through # <<>>, Range(through') = {SwitchPro}
               PROVE  step \/ UNCHANGED vars
    BY DEF vars
  <2>1. ASSUME NEW to \in {SwitchPro, Switch2Pro}, Hop(to)
        PROVE  step
    <3>1. Range(through) \cup {to} = {SwitchPro}
      BY <2>1, HopPasses
    <3>2. to = SwitchPro
      BY <3>1
    <3>3. kind = SwitchPro
      <4>1. Len(through) \in DOMAIN through
        BY DEF TypeOK
      <4>2. through[Len(through)] \in Range(through)
        BY <4>1 DEF Range
      <4> QED BY <3>1, <4>2 DEF Origin
    <3>4. ReportSettled
      BY <3>3 DEF SettledInv
    <3> QED BY <2>1, <3>2, <3>3, <3>4, HopKeepsSettled
  <2> QED BY <2>1 DEF Next, Arrived
<1> QED BY <1>1, <1>2, <1>3, TypeCorrect, PTL DEF Spec, ChainSettles

-----------------------------------------------------------------------------
(* Tables that rise *)

\* The order of the naturals, as a relation.
Less == {p \in Nat \X Nat : p[1] < p[2]}

\* A set of naturals that is not empty has a smallest member.
LEMMA Smallest ==
  ASSUME NEW T, T \subseteq Nat, T # {}
  PROVE  \E n \in T : \A m \in T : n <= m
<1>1. IsWellFoundedOn(Less, Nat)
  <2>1. OpToRel(<, Nat) = {p \in Nat \X Nat : p[1] < p[2]}
    BY Zenon DEF OpToRel
  <2> QED BY <2>1, NatLessThanWellFounded, Zenon DEF Less
<1>2. PICK x \in T : \A y \in T : ~(<<y, x>> \in Less)
  BY <1>1, WFMin, Zenon
<1>3. \A y \in T : ~(y < x)
  <2> SUFFICES ASSUME NEW y \in T, y < x PROVE FALSE
    OBVIOUS
  <2>1. <<y, x>> \in Less
    BY DEF Less
  <2> QED BY <1>2, <2>1
<1>4. x \in Nat /\ \A y \in T : y \in Nat
  OBVIOUS
<1> QED BY <1>3, <1>4

\* A table that rises at every step rises.
LEMMA StepsRise ==
  ASSUME NEW n \in Nat, NEW f, \A i \in 0..n : f[i] \in Int,
         \A i \in 0..(n - 1) : f[i] < f[i + 1]
  PROVE  \A i \in 0..n, j \in 0..n : i < j => f[i] < f[j]
<1> SUFFICES ASSUME NEW i \in 0..n
             PROVE  \A j \in 0..n : i < j => f[i] < f[j]
  OBVIOUS
<1> DEFINE T == {j \in 0..n : i < j /\ ~(f[i] < f[j])}
<1> SUFFICES ASSUME T # {} PROVE FALSE
  OBVIOUS
<1>1. T \subseteq Nat
  OBVIOUS
<1> HIDE DEF T
<1>2. PICK j \in T : \A m \in T : j <= m
  BY <1>1, Smallest
<1>3. j \in 0..n /\ i < j /\ ~(f[i] < f[j])
  BY DEF T
<1>4. j - 1 \in 0..n /\ j - 1 \in 0..(n - 1) /\ ~(j <= j - 1) /\ j - 1 + 1 = j
  BY <1>3
<1>5. j - 1 \notin T
  BY <1>2, <1>4
<1>6. i = j - 1 \/ f[i] < f[j - 1]
  BY <1>3, <1>4, <1>5 DEF T
<1>7. f[j - 1] < f[j] /\ f[j - 1] \in Int /\ f[j] \in Int /\ f[i] \in Int
  BY <1>3, <1>4
<1> QED BY <1>3, <1>6, <1>7

\* The table of amplitudes.
Thousandths == {p \in Nat : p <= 1000}

\* A level is a row of the table.
LEMMA LevelRange ==
  ASSUME NEW level \in Levels
  PROVE  /\ PermilleOf(level) = Amplitudes[level + 1]
         /\ PermilleOf(level) \in Thousandths
<1>1. \A i \in 1..101 : Amplitudes[i] \in Thousandths
  BY SMT DEF Amplitudes, Thousandths
<1>2. PICK i \in 1..101 : i = level + 1
  BY DEF Levels
<1>3. PermilleOf(level) = Amplitudes[level + 1]
  BY DEF Levels, PermilleOf, Clamped
<1> QED BY <1>1, <1>2, <1>3

\* It rises, in steps of 21 at most and above the seventh level of five at least.
LEMMA LevelSteps ==
  ASSUME NEW level \in 0..99
  PROVE  /\ level \in Levels /\ level + 1 \in Levels
         /\ PermilleOf(level) < PermilleOf(level + 1)
         /\ PermilleOf(level + 1) <= PermilleOf(level) + 21
         /\ level >= 7 => PermilleOf(level) + 5 <= PermilleOf(level + 1)
<1>1. \A i \in 1..100 : Amplitudes[i] < Amplitudes[i + 1]
  BY SMT DEF Amplitudes
<1>2. \A i \in 1..100 : Amplitudes[i + 1] <= Amplitudes[i] + 21
  BY SMT DEF Amplitudes
<1>3. \A i \in 8..100 : Amplitudes[i] + 5 <= Amplitudes[i + 1]
  BY SMT DEF Amplitudes
<1>4. PICK i \in 1..100 : i = level + 1
  OBVIOUS
<1>5. level \in Levels /\ level + 1 \in Levels
  BY DEF Levels
<1>6. PermilleOf(level) = Amplitudes[i] /\ PermilleOf(level + 1) = Amplitudes[i + 1]
  BY <1>4, <1>5, LevelRange
<1>7. level >= 7 => i \in 8..100
  BY <1>4
<1> QED BY <1>1, <1>2, <1>3, <1>5, <1>6, <1>7

\* A higher level is stronger.
LEMMA LevelsRise ==
  \A level \in Levels, higher \in Levels :
    level < higher => PermilleOf(level) < PermilleOf(higher)
<1> DEFINE f == [level \in Levels |-> PermilleOf(level)]
<1>1. \A i \in 0..100 : f[i] = PermilleOf(i)
  BY DEF Levels
<1> HIDE DEF f
<1>2. \A i \in 0..100 : f[i] \in Int
  BY <1>1, LevelRange DEF Levels, Thousandths
<1>3. \A i \in 0..(100 - 1) : f[i] < f[i + 1]
  BY <1>1, LevelSteps
<1>4. \A i \in 0..100, j \in 0..100 : i < j => f[i] < f[j]
  BY <1>2, <1>3, StepsRise
<1> QED BY <1>1, <1>4 DEF Levels

-----------------------------------------------------------------------------
(* Strength *)

\* What a level of a Switch Pro becomes for a Switch 2.
Level2(level) == EncodeBand2("high", [hz |-> 320, amplitude |-> AmplitudeOf(level)]).amplitude

\* The thousandths a Switch Pro is asked for by an amplitude of a Switch 2.
Asked(amplitude) ==
  ((IF amplitude >= RumbleMax2 THEN 65535
    ELSE (amplitude * 65535) \div RumbleMax2) * 1000 + 32767) \div 65535

\* A translation to a Switch 2 takes less than three thousandths.
LEMMA LevelIn2 ==
  ASSUME NEW level \in Levels
  PROVE  /\ Level2(level) \in Nat /\ Level2(level) <= 29000
         /\ Level2(level) <= 29 * PermilleOf(level)
         /\ Level2(level) >= 29 * PermilleOf(level) - 64
<1> DEFINE p == PermilleOf(level)
           a == (p * 65535) \div 1000
           c == (a * 29000) \div 65535
           rest == c % 64
<1>1. p \in Nat /\ p <= 1000
  BY LevelRange DEF Thousandths
<1>2. Level2(level) = c - rest
  BY DEF Level2, EncodeBand2, AmplitudeOf, RumbleMax2
<1> HIDE DEF p
<1>3. a \in Nat /\ 1000 * a <= 65535 * p /\ 65535 * p < 1000 * a + 1000
  BY <1>1
<1> HIDE DEF a
<1>4. c \in Nat /\ 65535 * c <= 29000 * a /\ 29000 * a < 65535 * c + 65535
  BY <1>3
<1> HIDE DEF c
<1>5. rest \in Nat /\ rest <= 63 /\ rest <= c
  BY <1>4
<1> HIDE DEF rest
<1>6. c \in Nat /\ c <= 29 * p /\ c >= 29 * p - 1
  BY <1>1, <1>3, <1>4
<1>7. c - rest <= 29 * p /\ c - rest >= 29 * p - 64
  BY <1>1, <1>5, <1>6
<1>8. c - rest \in Nat /\ c - rest <= 29000
  BY <1>1, <1>5, <1>6, <1>7
<1> QED BY <1>2, <1>7, <1>8 DEF p

\* They are the amplitude's share of the greatest one, rounded.
LEMMA AskedBounds ==
  ASSUME NEW c \in Nat, c <= 65535
  PROVE  /\ Asked(c) \in Nat /\ Asked(c) <= 1000
         /\ c < 29000 => 58 * Asked(c) <= 2 * c + 29 /\ 58 * Asked(c) >= 2 * c - 30
         /\ c >= 29000 => Asked(c) = 1000
<1>1. CASE c >= 29000
  BY <1>1 DEF Asked, RumbleMax2
<1>2. CASE c < 29000
  <2> DEFINE a == (c * 65535) \div 29000
             t == (a * 1000 + 32767) \div 65535
  <2>1. Asked(c) = t
    BY <1>2 DEF Asked, RumbleMax2
  <2>2. a \in Nat /\ 29000 * a <= 65535 * c /\ 65535 * c < 29000 * a + 29000
    OBVIOUS
  <2> HIDE DEF a
  <2>3. t \in Nat /\ 65535 * t <= 1000 * a + 32767 /\ 1000 * a + 32767 < 65535 * t + 65535
    BY <2>2
  <2> HIDE DEF t
  <2> QED BY <1>2, <2>1, <2>2, <2>3
<1> QED BY <1>1, <1>2

\* The level a Switch Pro takes for so many thousandths: none is nearer.
LEMMA NearestIsNearest ==
  ASSUME NEW t \in Nat, t <= 1000
  PROVE  LET n == NearestLevels[t]
         IN  /\ n \in Levels
             /\ \A other \in Levels :
                  LET distance(l) == IF PermilleOf(l) < t THEN t - PermilleOf(l)
                                     ELSE PermilleOf(l) - t
                  IN  \/ distance(n) < distance(other)
                      \/ distance(n) = distance(other) /\ n <= other
<1> DEFINE distance(l) == IF PermilleOf(l) < t THEN t - PermilleOf(l)
                          ELSE PermilleOf(l) - t
           best(level) == \A other \in Levels :
             \/ distance(level) < distance(other)
             \/ distance(level) = distance(other) /\ level <= other
           rank(l) == 101 * distance(l) + l
           T == {rank(l) : l \in Levels}
<1>1. \A l \in Levels : distance(l) \in Nat /\ l \in 0..100
  <2> SUFFICES ASSUME NEW l \in Levels PROVE distance(l) \in Nat /\ l \in 0..100
    OBVIOUS
  <2>1. PermilleOf(l) \in Nat
    BY LevelRange DEF Thousandths
  <2> QED BY <2>1 DEF Levels
<1> HIDE DEF distance
<1>2. T \subseteq Nat /\ T # {}
  BY <1>1 DEF Levels
<1> HIDE DEF T
<1>3. PICK m \in T : \A k \in T : m <= k
  BY <1>2, Smallest
<1>4. PICK n \in Levels : m = rank(n)
  BY DEF T
<1>5. best(n)
  <2> SUFFICES ASSUME NEW other \in Levels
               PROVE  \/ distance(n) < distance(other)
                      \/ distance(n) = distance(other) /\ n <= other
    OBVIOUS
  <2>1. rank(n) <= rank(other)
    BY <1>3, <1>4 DEF T
  <2> QED BY <1>1, <2>1
<1>6. NearestLevels[t] = CHOOSE level \in Levels : best(level)
  <2>1. t \in 0..1000
    OBVIOUS
  <2> QED BY <2>1, Zenon DEF NearestLevels, distance
<1> HIDE DEF best
<1>7. NearestLevels[t] \in Levels /\ best(NearestLevels[t])
  BY <1>5, <1>6
<1> QED BY <1>7 DEF best, distance

\* Silence and the whole strength.
LEMMA TableEnds == PermilleOf(0) = 0 /\ PermilleOf(100) = 1000
<1>1. Amplitudes[1] = 0 /\ Amplitudes[101] = 1000
  BY SMT DEF Amplitudes
<1>2. 0 \in Levels /\ 100 \in Levels
  BY DEF Levels
<1> QED BY <1>1, <1>2, LevelRange

\* The lowest levels.
LEMMA LowLevels ==
  /\ PermilleOf(1) = 10 /\ PermilleOf(2) = 12 /\ PermilleOf(3) = 14 /\ PermilleOf(4) = 17
  /\ PermilleOf(5) = 20 /\ PermilleOf(6) = 24 /\ PermilleOf(7) = 28 /\ PermilleOf(8) = 33
<1>1. /\ Amplitudes[2] = 10 /\ Amplitudes[3] = 12 /\ Amplitudes[4] = 14 /\ Amplitudes[5] = 17
      /\ Amplitudes[6] = 20 /\ Amplitudes[7] = 24 /\ Amplitudes[8] = 28 /\ Amplitudes[9] = 33
  BY SMT DEF Amplitudes
<1> QED BY <1>1 DEF PermilleOf, Clamped

\* Distances, without an IF.
Nearer(t, p, q) ==  \* p is no further from t than q
  \/ p <= t /\ q <= t /\ q <= p
  \/ p >= t /\ q >= t /\ p <= q
  \/ p <= t /\ q >= t /\ t - p <= q - t
  \/ p >= t /\ q <= t /\ p - t <= t - q

\* The nearest level is at most ten thousandths off, and of two as near the lower.
LEMMA NearestBounds ==
  ASSUME NEW t \in Nat, t <= 1000
  PROVE  LET n == NearestLevels[t]
         IN  /\ n \in Levels
             /\ \A other \in Levels : Nearer(t, PermilleOf(n), PermilleOf(other))
             /\ \A other \in Levels : Nearer(t, PermilleOf(other), PermilleOf(n)) => n <= other
             /\ PermilleOf(n) <= t + 10 /\ PermilleOf(n) >= t - 10
<1> DEFINE n == NearestLevels[t]
<1>1. n \in Levels
  BY NearestIsNearest
<1>2. ASSUME NEW other \in Levels
      PROVE  /\ Nearer(t, PermilleOf(n), PermilleOf(other))
             /\ Nearer(t, PermilleOf(other), PermilleOf(n)) => n <= other
  <2>1. PermilleOf(n) \in Nat /\ PermilleOf(other) \in Nat /\ n \in Int /\ other \in Int
    BY <1>1, LevelRange DEF Thousandths, Levels
  <2>2. LET distance(l) == IF PermilleOf(l) < t THEN t - PermilleOf(l)
                           ELSE PermilleOf(l) - t
        IN  \/ distance(n) < distance(other)
            \/ distance(n) = distance(other) /\ n <= other
    BY NearestIsNearest
  <2> HIDE DEF n
  <2> QED BY <2>1, <2>2 DEF Nearer
<1> HIDE DEF n
<1> DEFINE p == PermilleOf(n)
<1>3. p \in Nat /\ p <= 1000 /\ n \in 0..100
  BY <1>1, LevelRange DEF Thousandths, Levels
<1>4. p <= t + 10
  <2> SUFFICES ASSUME p > t + 10 PROVE FALSE
    BY <1>3
  <2>1. n # 0
    BY <1>3, TableEnds
  <2>2. n - 1 \in 0..99 /\ n - 1 + 1 = n
    BY <1>3, <2>1
  <2> DEFINE q == PermilleOf(n - 1)
  <2>3. n - 1 \in Levels /\ q < p /\ p <= q + 21
    BY <2>2, LevelSteps
  <2>4. Nearer(t, p, q) /\ q \in Nat
    BY <1>2, <2>3, LevelRange DEF Thousandths
  <2> HIDE DEF p, q
  <2> QED BY <1>3, <2>3, <2>4 DEF Nearer
<1>5. p >= t - 10
  <2> SUFFICES ASSUME p < t - 10 PROVE FALSE
    BY <1>3
  <2>1. n # 100
    BY <1>3, TableEnds
  <2>2. n \in 0..99
    BY <1>3, <2>1
  <2> DEFINE q == PermilleOf(n + 1)
  <2>3. n + 1 \in Levels /\ p < q /\ q <= p + 21
    BY <2>2, LevelSteps
  <2>4. Nearer(t, p, q) /\ q \in Nat
    BY <1>2, <2>3, LevelRange DEF Thousandths
  <2> HIDE DEF p, q
  <2> QED BY <1>3, <2>3, <2>4 DEF Nearer
<1> QED BY <1>1, <1>2, <1>4, <1>5 DEF n

\* What an amplitude of a Switch 2 becomes for a Switch Pro.
LevelFor(amplitude) == NearestLevels[Asked(amplitude)]

\* A level that goes to a Switch 2 and back: at most the level below, above the
\* seventh the same one, and never silence.
LEMMA LevelAgain ==
  ASSUME NEW level \in Levels
  PROVE  LET n == LevelFor(Level2(level))
         IN  /\ n \in Levels
             /\ PermilleOf(n) <= PermilleOf(level) /\ PermilleOf(n) >= PermilleOf(level) - 4
             /\ (n = 0) = (level = 0)
             /\ level >= 8 => n = level
             /\ level \in 1..4 => n \in 1..4
             /\ level \in 5..7 => n \in 5..7
<1> DEFINE c == Level2(level)
           t == Asked(c)
           n == NearestLevels[t]
           p == PermilleOf(level)
           q == PermilleOf(n)
<1>1. p \in Nat /\ p <= 1000 /\ level \in 0..100
  BY LevelRange DEF Thousandths, Levels
<1>2. c \in Nat /\ c <= 29000 /\ c <= 29 * p /\ c >= 29 * p - 64
  BY LevelIn2
<1>3. t \in Nat /\ t <= 1000 /\ t <= p /\ t >= p - 2
  <2> HIDE DEF p, c
  <2>1. c <= 65535
    BY <1>2
  <2>2. /\ t \in Nat /\ t <= 1000
        /\ c < 29000 => 58 * t <= 2 * c + 29 /\ 58 * t >= 2 * c - 30
        /\ c >= 29000 => t = 1000
    BY <1>2, <2>1, AskedBounds
  <2> HIDE DEF t
  <2> QED BY <1>1, <1>2, <2>2
<1>4. /\ n \in Levels
      /\ \A other \in Levels : Nearer(t, PermilleOf(n), PermilleOf(other))
  BY <1>3, NearestBounds
<1>5. q \in Nat /\ q <= 1000 /\ n \in 0..100
  BY <1>4, LevelRange DEF Thousandths, Levels
<1>6. Nearer(t, q, p)
  BY <1>4
<1>7. q <= p /\ q >= p - 4
  <2> HIDE DEF q, p, t
  <2> QED BY <1>1, <1>3, <1>5, <1>6 DEF Nearer
<1> HIDE DEF n
<1>8. n <= level
  <2>1. level < n => p < q
    BY <1>4, LevelsRise
  <2> HIDE DEF p, q
  <2> QED BY <1>1, <1>5, <1>7, <2>1
<1>9. (n = 0) = (level = 0)
  <2>1. CASE level = 0
    BY <1>5, <1>8, <2>1
  <2>2. CASE level # 0
    <3>1. PermilleOf(1) <= p
      <4>1. 1 \in Levels /\ (1 < level => PermilleOf(1) < p)
        BY LevelsRise DEF Levels
      <4>2. level = 1 \/ 1 < level
        BY <1>1, <2>2
      <4> QED BY <1>1, <4>1, <4>2, LowLevels
    <3>2. n # 0
      BY <1>1, <1>5, <1>7, <3>1, LowLevels, TableEnds
    <3> QED BY <2>2, <3>2
  <2> QED BY <2>1, <2>2
<1>10. ASSUME level >= 8 PROVE n = level
  <2> SUFFICES ASSUME n < level PROVE FALSE
    BY <1>1, <1>5, <1>8
  <2>1. level - 1 \in 0..99 /\ level - 1 + 1 = level /\ level - 1 >= 7
    BY <1>1, <1>10
  <2>2. level - 1 \in Levels /\ PermilleOf(level - 1) + 5 <= p
    BY <2>1, LevelSteps
  <2>3. n = level - 1 \/ n < level - 1
    BY <1>1, <1>5
  <2>4. n < level - 1 => q < PermilleOf(level - 1)
    BY <1>4, <2>2, LevelsRise
  <2>5. PermilleOf(level - 1) \in Nat
    BY <2>2, LevelRange DEF Thousandths
  <2>6. q <= PermilleOf(level - 1)
    BY <1>5, <2>3, <2>4, <2>5
  <2> HIDE DEF p, q
  <2> QED BY <1>1, <1>5, <1>7, <2>2, <2>5, <2>6
<1>11. level \in 1..4 => n \in 1..4
  BY <1>5, <1>8, <1>9
<1>12. ASSUME level \in 5..7 PROVE n \in 5..7
  <2>1. q >= 20
    <3>1. CASE level = 5
      <4>1. c = 576
        BY <3>1, LowLevels DEF Level2, EncodeBand2, AmplitudeOf, RumbleMax2
      <4>2. 58 * Asked(576) <= 2 * 576 + 29 /\ 58 * Asked(576) >= 2 * 576 - 30
        BY AskedBounds
      <4>3. t = 20
        BY <1>3, <4>1, <4>2
      <4>4. p = 20
        BY <3>1, LowLevels
      <4> HIDE DEF p, q, t
      <4> QED BY <1>5, <1>6, <4>3, <4>4 DEF Nearer
    <3>2. CASE level \in 6..7
      BY <1>5, <1>7, <3>2, LowLevels
    <3> QED BY <1>12, <3>1, <3>2
  <2>4. 5 \in Levels
    BY DEF Levels
  <2>2. 5 \in Levels /\ (n < 5 => q < PermilleOf(5))
    BY <1>4, <2>4, LevelsRise
  <2>3. ~(n < 5)
    BY <1>5, <2>1, <2>2, LowLevels
  <2> QED BY <1>5, <1>8, <1>12, <2>3
<1> QED BY <1>4, <1>7, <1>9, <1>10, <1>11, <1>12 DEF LevelFor, n

\* What a Switch 2 feels of a level.
Felt2(level) == Permille(Switch2Pro, Level2(level))

\* No more than the level, three thousandths less at most, and silence for silence.
LEMMA FeltIn2 ==
  ASSUME NEW level \in Levels
  PROVE  /\ Felt2(level) \in Nat
         /\ Felt2(level) <= PermilleOf(level) /\ Felt2(level) >= PermilleOf(level) - 3
         /\ (Felt2(level) = 0) = (level = 0)
<1> DEFINE c == Level2(level)
           p == PermilleOf(level)
           s == (c * 1000) \div 29000
<1>1. c \in Nat /\ c <= 29000 /\ c <= 29 * p /\ c >= 29 * p - 64
  BY LevelIn2
<1>2. p \in Nat /\ p <= 1000 /\ level \in 0..100
  BY LevelRange DEF Thousandths, Levels
<1>3. Felt2(level) = Clamped(s, 0, 1000)
  BY DEF Felt2, Permille, RumbleMax2, SwitchPro, Switch2Pro
<1> HIDE DEF c, p
<1>4. s \in Nat /\ 29 * s <= c /\ c < 29 * s + 29
  BY <1>1
<1> HIDE DEF s
<1>5. s <= p /\ s >= p - 3
  BY <1>1, <1>2, <1>4
<1>6. Felt2(level) = s
  BY <1>2, <1>3, <1>4, <1>5 DEF Clamped
<1>7. (p = 0) = (level = 0) /\ (level # 0 => p >= 10)
  <2>1. 0 \in Levels /\ 1 \in Levels
    BY DEF Levels
  <2>2. 1 < level => PermilleOf(1) < p
    BY <2>1, LevelsRise DEF p
  <2>3. level = 0 \/ level = 1 \/ 1 < level
    BY <1>2
  <2>4. CASE level = 0
    BY <2>4, TableEnds DEF p
  <2>5. CASE level = 1
    BY <2>5, LowLevels DEF p
  <2>6. CASE 1 < level
    BY <1>2, <2>2, <2>6, LowLevels
  <2> QED BY <2>3, <2>4, <2>5, <2>6
<1>8. (s = 0) = (level = 0)
  BY <1>2, <1>4, <1>5, <1>7
<1> QED BY <1>4, <1>5, <1>6, <1>8 DEF p

\* The level a host's amplitude is on, or came out at, after k translations.
StaysStrong(origin, meant, level, k) ==
  IF origin = SwitchPro
  THEN /\ PermilleOf(level) <= meant /\ PermilleOf(level) >= meant - 3 * k
       /\ (level = 0) = (meant = 0)
  ELSE /\ PermilleOf(level) <= meant + 12
       /\ level = 0 => meant < 5
       /\ meant = 0 => level = 0
       /\ level \in 1..4 => meant <= 19
       /\ level \in 5..7 => meant <= 30
       /\ level >= 8 => PermilleOf(level) >= meant - 12 /\ Felt2(level) >= meant - 12

\* To a Switch 2 and back.
LEMMA StillStrong ==
  ASSUME NEW origin \in {SwitchPro, Switch2Pro}, NEW meant \in Nat, NEW level \in Levels,
         NEW k \in Nat, StaysStrong(origin, meant, level, k)
  PROVE  StaysStrong(origin, meant, LevelFor(Level2(level)), k + 2)
<1> DEFINE n == LevelFor(Level2(level))
<1>1. /\ n \in Levels
      /\ PermilleOf(n) <= PermilleOf(level) /\ PermilleOf(n) >= PermilleOf(level) - 4
      /\ (n = 0) = (level = 0)
      /\ level >= 8 => n = level
      /\ level \in 1..4 => n \in 1..4
      /\ level \in 5..7 => n \in 5..7
  BY LevelAgain
<1> SUFFICES StaysStrong(origin, meant, n, k + 2)
  OBVIOUS
<1> HIDE DEF n
<1>2. /\ PermilleOf(n) \in Nat /\ PermilleOf(level) \in Nat /\ n \in 0..100 /\ level \in 0..100
  BY <1>1, LevelRange DEF Thousandths, Levels
<1>3. CASE origin = SwitchPro
  BY <1>1, <1>2, <1>3 DEF StaysStrong
<1>4. CASE origin # SwitchPro
  <2>1. CASE level = 0
    BY <1>1, <1>2, <1>4, <2>1 DEF StaysStrong
  <2>2. CASE level \in 1..4
    BY <1>1, <1>2, <1>4, <2>2 DEF StaysStrong
  <2>3. CASE level \in 5..7
    BY <1>1, <1>2, <1>4, <2>3 DEF StaysStrong
  <2>4. CASE level >= 8
    BY <1>1, <1>4, <2>4 DEF StaysStrong
  <2> QED BY <1>2, <2>1, <2>2, <2>3, <2>4
<1> QED BY <1>3, <1>4

\* What is felt on a Switch Pro or, a translation later, on a Switch 2.
LEMMA StrongEnough ==
  ASSUME NEW origin \in {SwitchPro, Switch2Pro}, NEW meant \in Nat, NEW level \in Levels,
         NEW k \in Nat, StaysStrong(origin, meant, level, k),
         NEW felt, felt = PermilleOf(level) \/ felt = Felt2(level)
  PROVE  /\ felt \in Nat
         /\ origin = SwitchPro =>
              /\ felt <= meant
              /\ felt >= meant - 3 * (IF felt = PermilleOf(level) THEN k ELSE k + 1)
              /\ (felt = 0) = (meant = 0)
         /\ origin # SwitchPro =>
              /\ felt <= meant + 12 /\ felt >= meant - 12
              /\ felt = 0 => meant < 5
              /\ meant = 0 => felt = 0
<1> DEFINE p == PermilleOf(level)
           s == Felt2(level)
<1>1. /\ p \in Nat /\ level \in 0..100 /\ s \in Nat
      /\ s <= p /\ s >= p - 3 /\ (s = 0) = (level = 0)
  BY LevelRange, FeltIn2 DEF Thousandths, Levels
<1>2. (p = 0) = (level = 0)
  <2>1. 0 \in Levels
    BY DEF Levels
  <2>2. 0 < level => PermilleOf(0) < p
    BY <2>1, LevelsRise
  <2> HIDE DEF s
  <2> QED BY <1>1, <2>2, TableEnds
<1>3. CASE origin = SwitchPro
  <2>1. p <= meant /\ p >= meant - 3 * k /\ (level = 0) = (meant = 0)
    BY <1>3 DEF StaysStrong
  <2>2. felt = p \/ felt = s
    OBVIOUS
  <2>3. felt = p => felt <= meant /\ felt >= meant - 3 * k
    BY <2>1
  <2> SUFFICES /\ felt \in Nat /\ felt <= meant
               /\ felt >= meant - 3 * (IF felt = p THEN k ELSE k + 1)
               /\ (felt = 0) = (meant = 0)
    BY <1>3
  <2> HIDE DEF p, s
  <2> QED BY <1>1, <1>2, <2>1, <2>2
<1>4. CASE origin # SwitchPro
  <2>1. /\ p <= meant + 12
        /\ level = 0 => meant < 5
        /\ meant = 0 => level = 0
        /\ level \in 1..4 => meant <= 19
        /\ level \in 5..7 => meant <= 30
        /\ level >= 8 => p >= meant - 12 /\ s >= meant - 12
    BY <1>4 DEF StaysStrong
  <2>2. felt = p \/ felt = s
    OBVIOUS
  <2>3. level \in 1..4 => p >= 10
    BY LowLevels
  <2>4. level \in 5..7 => p >= 20 /\ s >= 18
    <3>1. level \in 6..7 => p >= 24
      BY LowLevels
    <3>2. level = 5 => p = 20
      BY LowLevels
    <3>3. ASSUME level = 5 PROVE s = 19
      <4>1. Level2(5) = 576
        BY LowLevels DEF Level2, EncodeBand2, AmplitudeOf, RumbleMax2
      <4> QED BY <3>3, <4>1 DEF Felt2, Permille, RumbleMax2, SwitchPro, Switch2Pro, Clamped
    <3> HIDE DEF p, s
    <3> QED BY <1>1, <3>1, <3>2, <3>3
  <2> SUFFICES /\ felt \in Nat /\ felt <= meant + 12 /\ felt >= meant - 12
               /\ felt = 0 => meant < 5
               /\ meant = 0 => felt = 0
    BY <1>4
  <2> HIDE DEF p, s
  <2>5. level = 0 \/ level \in 1..4 \/ level \in 5..7 \/ level >= 8
    BY <1>1
  <2> QED BY <1>1, <1>2, <2>1, <2>2, <2>3, <2>4, <2>5
<1> QED BY <1>3, <1>4

\* Only below the two highest levels are neighbors twenty thousandths apart.
LEMMA WideSteps ==
  ASSUME NEW level \in 0..99, PermilleOf(level + 1) >= PermilleOf(level) + 20
  PROVE  level \in {95, 96, 97, 98}
<1>1. \A i \in 1..95 : Amplitudes[i + 1] < Amplitudes[i] + 20
  BY SMT DEF Amplitudes
<1>2. Amplitudes[100] = 981 /\ Amplitudes[101] = 1000
  BY SMT DEF Amplitudes
<1>3. PICK i \in 1..100 : i = level + 1
  OBVIOUS
<1>4. level \in Levels /\ level + 1 \in Levels
  BY DEF Levels
<1>5. PermilleOf(level) = Amplitudes[i] /\ PermilleOf(level + 1) = Amplitudes[i + 1]
  BY <1>3, <1>4, LevelRange
<1>6. i \in 1..95 => FALSE
  <2> SUFFICES ASSUME i \in 1..95 PROVE FALSE
    OBVIOUS
  <2>1. Amplitudes[i + 1] < Amplitudes[i] + 20
    BY <1>1
  <2>2. PermilleOf(level) \in Nat /\ PermilleOf(level + 1) \in Nat
    BY <1>4, LevelRange DEF Thousandths
  <2> QED BY <1>5, <2>1, <2>2
<1>7. i # 100
  BY <1>2, <1>5
<1> QED BY <1>3, <1>6, <1>7

\* What both controllers feel of the four levels below those steps.
LEMMA WideLevels ==
  /\ PermilleOf(95) = 900 /\ PermilleOf(96) = 920
  /\ PermilleOf(97) = 940 /\ PermilleOf(98) = 960
  /\ Felt2(95) = 898 /\ Felt2(96) = 918 /\ Felt2(97) = 937 /\ Felt2(98) = 957
<1>1. /\ Amplitudes[96] = 900 /\ Amplitudes[97] = 920
      /\ Amplitudes[98] = 940 /\ Amplitudes[99] = 960
  BY SMT DEF Amplitudes
<1>2. /\ PermilleOf(95) = 900 /\ PermilleOf(96) = 920
      /\ PermilleOf(97) = 940 /\ PermilleOf(98) = 960
  BY <1>1 DEF PermilleOf, Clamped
<1>3. /\ Level2(95) = 26048 /\ Level2(96) = 26624
      /\ Level2(97) = 27200 /\ Level2(98) = 27776
  BY <1>2 DEF Level2, EncodeBand2, AmplitudeOf, RumbleMax2
<1> QED BY <1>2, <1>3 DEF Felt2, Permille, RumbleMax2, SwitchPro, Switch2Pro, Clamped

\* The amplitude of a Switch 2, a multiple of 64, as a Switch Pro takes it.
LEMMA FirstStrong2 ==
  ASSUME NEW n \in Nat, n <= 1023
  PROVE  /\ LevelFor(64 * n) \in Levels
         /\ Permille(Switch2Pro, 64 * n) \in Nat
         /\ StaysStrong(Switch2Pro, Permille(Switch2Pro, 64 * n), LevelFor(64 * n), 1)
<1> DEFINE c == 64 * n
           t == Asked(c)
           level == NearestLevels[t]
           p == PermilleOf(level)
           s == Felt2(level)
           meant == Permille(Switch2Pro, c)
<1>1. c \in Nat /\ c <= 65535
  OBVIOUS
<1>2. /\ t \in Nat /\ t <= 1000
      /\ c < 29000 => 58 * t <= 2 * c + 29 /\ 58 * t >= 2 * c - 30
      /\ c >= 29000 => t = 1000
  BY <1>1, AskedBounds
<1>3. meant = Clamped((c * 1000) \div 29000, 0, 1000)
  BY DEF Permille, RumbleMax2, SwitchPro, Switch2Pro
<1> HIDE DEF t, meant
<1>4. /\ meant \in Nat
      /\ c < 29000 => 29 * meant <= c /\ c < 29 * meant + 29
      /\ c >= 29000 => meant = 1000
  <2> DEFINE m == (c * 1000) \div 29000
  <2>1. m \in Nat /\ 29 * m <= c /\ c < 29 * m + 29
    BY <1>1
  <2> HIDE DEF m
  <2> QED BY <1>1, <1>3, <2>1 DEF Clamped
<1>5. meant <= t /\ t <= meant + 1
  BY <1>1, <1>2, <1>4
<1>6. meant # 5 /\ t # 950 /\ t # 970
  BY <1>1, <1>2, <1>4
<1>7. /\ level \in Levels
      /\ \A other \in Levels : Nearer(t, PermilleOf(level), PermilleOf(other))
      /\ p <= t + 10 /\ p >= t - 10
  BY <1>2, NearestBounds
<1>8. /\ p \in Nat /\ level \in 0..100 /\ s \in Nat
      /\ s <= p /\ s >= p - 3
  BY <1>7, LevelRange, FeltIn2 DEF Thousandths, Levels
<1>0. LevelFor(64 * n) = level /\ Permille(Switch2Pro, 64 * n) = meant
  BY DEF LevelFor, meant, t
<1> HIDE DEF level
<1> SUFFICES StaysStrong(Switch2Pro, meant, level, 1)
  BY <1>0, <1>4, <1>7
<1> HIDE DEF c, level
<1>9. level < 8 => Nearer(t, p, PermilleOf(level + 1)) /\ level + 1 \in Nat
  BY <1>7, <1>8 DEF Levels
<1>10. level < 8 => level \in {0, 1, 2, 3, 4, 5, 6, 7}
  BY <1>8
<1>11. CASE level = 0
  <2>1. Nearer(t, 0, 10)
    BY <1>9, <1>11, LowLevels, TableEnds
  <2>2. t <= 5
    BY <1>2, <2>1 DEF Nearer
  <2>3. meant < 5
    BY <1>2, <1>4, <1>5, <1>6, <2>2
  <2> QED BY <1>4, <1>7, <1>11, <2>3, TableEnds DEF StaysStrong, SwitchPro, Switch2Pro
<1>12. CASE level # 0
  <2>1. meant # 0
    <3> SUFFICES ASSUME meant = 0 PROVE FALSE
      OBVIOUS
    <3>1. c = 0
      BY <1>4 DEF c
    <3>2. t = 0
      BY <1>2, <3>1
    <3>3. 0 \in Levels /\ Nearer(t, p, PermilleOf(0))
      BY <1>7 DEF Levels
    <3>4. p = 0
      BY <1>8, <3>2, <3>3, TableEnds DEF Nearer
    <3>5. 0 < level => PermilleOf(0) < p
      BY <1>7, <3>3, LevelsRise
    <3> QED BY <1>8, <1>12, <3>4, <3>5, TableEnds
  <2>2. ASSUME level \in 1..4 PROVE meant <= 19
    <3>1. PermilleOf(5) >= t + (t - p) \/ t <= p
      <4>1. 5 \in Levels /\ Nearer(t, p, PermilleOf(5))
        BY <1>7 DEF Levels
      <4>2. p < PermilleOf(5)
        BY <1>7, <2>2, <4>1, LevelsRise
      <4> QED BY <1>2, <1>8, <4>1, <4>2, LowLevels DEF Nearer
    <3>2. p <= 17
      BY <2>2, LowLevels
    <3> QED BY <1>2, <1>4, <1>5, <1>8, <3>1, <3>2, LowLevels
  <2>3. ASSUME level \in 5..7 PROVE meant <= 30
    <3>1. PermilleOf(8) >= t + (t - p) \/ t <= p
      <4>1. 8 \in Levels /\ Nearer(t, p, PermilleOf(8))
        BY <1>7 DEF Levels
      <4>2. p < PermilleOf(8)
        BY <1>7, <2>3, <4>1, LevelsRise
      <4> QED BY <1>2, <1>8, <4>1, <4>2, LowLevels DEF Nearer
    <3>2. p <= 28
      BY <2>3, LowLevels
    <3> QED BY <1>2, <1>4, <1>5, <1>8, <3>1, <3>2, LowLevels
  <2>4. s >= meant - 12
    <3>1. CASE p >= t - 9
      BY <1>2, <1>4, <1>5, <1>8, <3>1
    <3>2. CASE p = t - 10
      <4>1. level # 100
        BY <1>2, <3>2, TableEnds
      <4>2. level \in 0..99
        BY <1>8, <4>1
      <4>3. level + 1 \in Levels /\ p < PermilleOf(level + 1)
        BY <4>2, LevelSteps
      <4>4. Nearer(t, p, PermilleOf(level + 1)) /\ PermilleOf(level + 1) \in Nat
        BY <1>7, <4>3, LevelRange DEF Thousandths
      <4>5. PermilleOf(level + 1) >= p + 20
        BY <1>2, <1>8, <3>2, <4>3, <4>4 DEF Nearer
      <4>6. level \in {95, 96, 97, 98}
        BY <4>2, <4>5, WideSteps
      <4>7. level \in {95, 96}
        BY <1>2, <1>6, <3>2, <4>6, WideLevels
      <4>8. s >= p - 2
        BY <4>7, WideLevels
      <4> QED BY <1>2, <1>4, <1>5, <1>8, <3>2, <4>8
    <3> QED BY <1>2, <1>7, <1>8, <3>1, <3>2
  <2>5. p <= meant + 12 /\ p >= meant - 12
    BY <1>2, <1>4, <1>5, <1>7, <1>8
  <2> QED BY <1>4, <1>12, <2>1, <2>2, <2>3, <2>4, <2>5 DEF StaysStrong, SwitchPro, Switch2Pro
<1> QED BY <1>11, <1>12

-----------------------------------------------------------------------------
(* Pitch *)

\* What an octave multiplies by.
Powers == {1, 2, 4, 8, 16, 32, 64}

\* Each octave doubles the one before.
LEMMA OctaveTable ==
  ASSUME NEW q \in 1..7
  PROVE  Octaves[q] \in Powers /\ (q < 7 => Octaves[q + 1] = 2 * Octaves[q])
<1>1. \A i \in 1..7 : Octaves[i] \in Powers
  BY SMT DEF Octaves, Powers
<1>2. \A i \in 1..6 : Octaves[i + 1] = 2 * Octaves[i]
  BY SMT DEF Octaves
<1>3. q < 7 => q \in 1..6
  BY SMT
<1> QED BY <1>1, <1>2, <1>3, Zenon

\* From each half code to the next the frequency grows by 1.0109.
RootStep(x, y) == 100000 * y <= 101090 * x /\ 100000 * y >= 101088 * x

\* The product with a power of two is at least ten times this.
IsRoot(x) == x \in Nat /\ x >= 262144

\* Within an octave the roots rise by the same factor.
LEMMA RootTable ==
  ASSUME NEW r \in 1..64
  PROVE  IsRoot(Roots[r]) /\ (r < 64 => RootStep(Roots[r], Roots[r + 1]))
<1>1. \A i \in 1..64 : IsRoot(Roots[i])
  BY SMT DEF Roots, IsRoot
<1>2. \A i \in 1..63 : RootStep(Roots[i], Roots[i + 1])
  BY SMT DEF Roots, RootStep
<1>3. r < 64 => r \in 1..63
  BY SMT
<1> QED BY <1>1, <1>2, <1>3, Zenon

\* A frequency of the scale, times 2^18: ten hertz at least.
IsFrequency(x) == x \in Nat /\ x >= 2621440

\* So does the whole scale of half codes, from octave to octave too.
LEMMA RootSteps ==
  ASSUME NEW i \in 0..384
  PROVE  IsFrequency(Root(i)) /\ (i < 384 => RootStep(Root(i), Root(i + 1)))
<1> DEFINE q == (i \div 64) + 1
           r == (i % 64) + 1
           o == Octaves[q]
           x == Roots[r]
<1>1. q \in 1..7 /\ r \in 1..64 /\ i = 64 * q + r - 65
  BY SMT
<1>2. Root(i) = 10 * o * x
  BY DEF Root
<1> HIDE DEF q, r
<1>3. o \in Powers
  BY <1>1, OctaveTable, Zenon
<1>4. IsRoot(x)
  BY <1>1, RootTable, Zenon
<1> HIDE DEF o, x
<1>5. IsFrequency(Root(i))
  BY <1>2, <1>3, <1>4, SMT DEF Powers, IsRoot, IsFrequency
<1>6. ASSUME i < 384, r < 64 PROVE RootStep(Root(i), Root(i + 1))
  <2> DEFINE y == Roots[r + 1]
  <2>1. ((i + 1) \div 64) + 1 = q /\ ((i + 1) % 64) + 1 = r + 1 /\ r + 1 \in 1..64
    BY <1>1, <1>6, SMT
  <2>2. Root(i + 1) = 10 * o * y
    BY <2>1 DEF Root, o
  <2>3. RootStep(x, y)
    BY <1>1, <1>6, RootTable, Zenon DEF x
  <2>4. IsRoot(y)
    BY <2>1, RootTable, Zenon
  <2> HIDE DEF y
  <2> QED BY <1>2, <1>3, <1>4, <2>2, <2>3, <2>4, SMT DEF RootStep, IsRoot, Powers
<1>7. ASSUME i < 384, r = 64 PROVE RootStep(Root(i), Root(i + 1))
  <2>1. q < 7 /\ ((i + 1) \div 64) + 1 = q + 1 /\ ((i + 1) % 64) + 1 = 1
    BY <1>1, <1>7, SMT
  <2>2. Root(i + 1) = 10 * Octaves[q + 1] * Roots[1]
    BY <2>1 DEF Root
  <2>3. Octaves[q + 1] = 2 * o
    BY <1>1, <2>1, OctaveTable, Zenon DEF o
  <2>4. Roots[1] = 262144 /\ Roots[64] = 518640
    BY SMT DEF Roots
  <2>5. x = 518640
    BY <1>7, <2>4, SMT DEF x
  <2> QED BY <1>2, <1>3, <2>2, <2>3, <2>4, <2>5, SMT DEF RootStep, Powers
<1> QED BY <1>1, <1>5, <1>6, <1>7, SMT

\* It rises.
LEMMA RootsRise ==
  \A i \in 0..384, j \in 0..384 : i < j => Root(i) < Root(j)
<1> DEFINE f == [i \in 0..384 |-> Root(i)]
<1>1. ASSUME NEW i \in 0..384 PROVE f[i] = Root(i) /\ Root(i) \in Int
  <2>1. IsFrequency(Root(i))
    BY RootSteps, Zenon
  <2> QED BY <2>1, SMT DEF IsFrequency
<1> HIDE DEF f
<1>2. ASSUME NEW i \in 0..(384 - 1) PROVE f[i] < f[i + 1]
  <2>1. i \in 0..384 /\ i + 1 \in 0..384 /\ i < 384
    BY SMT
  <2>2. IsFrequency(Root(i)) /\ RootStep(Root(i), Root(i + 1))
    BY <2>1, RootSteps, Zenon
  <2>3. IsFrequency(Root(i + 1))
    BY <2>1, RootSteps, Zenon
  <2>4. Root(i) < Root(i + 1)
    BY <2>2, <2>3, SMT DEF RootStep, IsFrequency
  <2>5. f[i] = Root(i) /\ f[i + 1] = Root(i + 1)
    BY <1>1, <2>1, Zenon
  <2> QED BY <2>4, <2>5, Zenon
<1>3. \A i \in 0..384, j \in 0..384 : i < j => f[i] < f[j]
  <2>1. \A i \in 0..384 : f[i] \in Int
    BY <1>1, Zenon
  <2>2. \A i \in 0..(384 - 1) : f[i] < f[i + 1]
    BY <1>2, Zenon
  <2>3. 384 \in Nat
    BY SMT
  <2> QED BY <2>1, <2>2, <2>3, StepsRise, Zenon
<1> SUFFICES ASSUME NEW i \in 0..384, NEW j \in 0..384, i < j PROVE Root(i) < Root(j)
  BY Zenon
<1>4. f[i] < f[j]
  BY <1>3, Zenon
<1> QED BY <1>1, <1>4, Zenon

\* A frequency in hertz is above the i-th half code.
Above(hz, i) == hz * 262144 >= Root(i)

\* Above one half code, above every lower one.
LEMMA AboveLower ==
  ASSUME NEW hz \in Nat, NEW i \in 0..384, NEW j \in 0..384, i <= j, Above(hz, j)
  PROVE  Above(hz, i)
<1>1. IsFrequency(Root(i)) /\ IsFrequency(Root(j))
  BY RootSteps, Zenon
<1>2. i = j \/ Root(i) < Root(j)
  <2>1. i = j \/ i < j
    BY SMT
  <2> QED BY <2>1, RootsRise, Zenon
<1>3. CASE i = j
  BY <1>3, Zenon
<1>4. CASE Root(i) < Root(j)
  BY <1>1, <1>4, SMT DEF Above, IsFrequency
<1> QED BY <1>2, <1>3, <1>4, Zenon

\* The codes of the logarithmic scale.
Codes == 64..192
\* A code between whose half codes a frequency lies: the nearest one.
Between(hz, e) ==
  /\ e = 64 \/ Above(hz, 2 * e - 1)
  /\ e = 192 \/ ~Above(hz, 2 * e + 1)

\* Counting the half codes below finds it.
LEMMA Counted ==
  ASSUME NEW hz \in Nat,
         NEW k, k = Cardinality({e \in 65..192 : Above(hz, 2 * e - 1)})
  PROVE  64 + k \in Codes /\ Between(hz, 64 + k)
<1> DEFINE S == {e \in 65..192 : Above(hz, 2 * e - 1)}
<1>1. IsFiniteSet(65..192) /\ Cardinality(65..192) = 128
  <2>1. 65 \in Int /\ 192 \in Int
    BY SMT
  <2>2. IsFiniteSet(65..192) /\ Cardinality(65..192) = IF 65 > 192 THEN 0 ELSE 192 - 65 + 1
    BY <2>1, FS_Interval, Zenon
  <2> QED BY <2>2, SMT
<1>2. S \in SUBSET (65..192)
  BY Zenon
<1>3. IsFiniteSet(S) /\ Cardinality(S) <= 128
  <2>1. IsFiniteSet(S) /\ Cardinality(S) <= Cardinality(65..192)
    BY <1>1, <1>2, FS_Subset, Zenon
  <2> HIDE DEF S
  <2> QED BY <1>1, <2>1, SMT
<1>4. k = Cardinality(S) /\ k \in Nat
  BY <1>3, FS_CardinalityType, Zenon
<1>5. k <= 128
  BY <1>3, <1>4, Zenon
<1>6. ASSUME NEW x \in S PROVE x <= 64 + k
  <2>1. x \in 65..192 /\ x \in Int /\ 65 \in Int
    BY <1>2, SMT
  <2>2. ASSUME NEW y \in 65..x PROVE y \in S
    <3>1. y \in 65..192 /\ 2 * y - 1 \in 0..384 /\ 2 * x - 1 \in 0..384 /\ 2 * y - 1 <= 2 * x - 1
      BY <2>1, SMT
    <3>2. Above(hz, 2 * x - 1)
      BY Zenon
    <3>3. Above(hz, 2 * y - 1)
      BY <3>1, <3>2, AboveLower, Zenon
    <3> QED BY <3>1, <3>3, Zenon
  <2>3. 65..x \in SUBSET S
    BY <2>2, Zenon
  <2>4. Cardinality(65..x) <= Cardinality(S)
    BY <1>3, <2>3, FS_Subset, Zenon
  <2>5. Cardinality(65..x) = IF 65 > x THEN 0 ELSE x - 65 + 1
    BY <2>1, FS_Interval, Zenon
  <2> HIDE DEF S
  <2> QED BY <1>4, <2>1, <2>4, <2>5, SMT
<1>7. S = 65..(64 + k)
  <2> DEFINE last == 64 + k
             U == 65..last
  <2>1. 65 \in Int /\ last \in Int
    BY <1>4, SMT
  <2> HIDE DEF last
  <2>2. IsFiniteSet(U) /\ Cardinality(U) = IF 65 > last THEN 0 ELSE last - 65 + 1
    BY <2>1, FS_Interval, Zenon
  <2> USE DEF last
  <2>3. Cardinality(U) = k
    <3> HIDE DEF U
    <3> QED BY <1>4, <2>2, SMT
  <2>4. S \in SUBSET U
    <3> SUFFICES ASSUME NEW x \in S PROVE x \in U
      BY Zenon
    <3>1. x \in 65..192 /\ x <= 64 + k
      BY <1>2, <1>6, Zenon
    <3> HIDE DEF S
    <3> QED BY <1>4, <3>1, SMT
  <2> QED BY <1>4, <2>2, <2>3, <2>4, FS_Subset, Zenon
<1> DEFINE e == 64 + k
<1>8. e \in Codes
  BY <1>4, <1>5, SMT DEF Codes
<1>9. e = 64 \/ Above(hz, 2 * e - 1)
  <2> SUFFICES ASSUME e # 64 PROVE Above(hz, 2 * e - 1)
    BY Zenon
  <2>1. e \in 65..(64 + k)
    <3> HIDE DEF S
    <3> QED BY <1>4, SMT
  <2>2. e \in S
    BY <1>7, <2>1, Zenon
  <2> HIDE DEF e
  <2> QED BY <2>2, Zenon
<1>10. e = 192 \/ ~Above(hz, 2 * e + 1)
  <2> SUFFICES ASSUME e # 192, Above(hz, 2 * e + 1) PROVE FALSE
    BY Zenon
  <2>1. e + 1 \in 65..192 /\ 2 * (e + 1) - 1 = 2 * e + 1 /\ e + 1 \notin 65..(64 + k)
    <3> HIDE DEF S
    <3> QED BY <1>4, <1>5, SMT
  <2>2. e + 1 \in S
    <3> HIDE DEF e
    <3> QED BY <2>1, Zenon
  <2> HIDE DEF S, e
  <2> QED BY <1>7, <2>1, <2>2, Zenon
<1> QED BY <1>8, <1>9, <1>10, Zenon DEF Between

\* There is only one.
LEMMA BetweenIsUnique ==
  ASSUME NEW hz \in Nat, NEW e \in Codes, NEW f \in Codes, Between(hz, e), Between(hz, f)
  PROVE  e = f
<1>1. ASSUME NEW x \in Codes, NEW y \in Codes, Between(hz, x), Between(hz, y), x < y
      PROVE  FALSE
  <2>1. /\ 2 * x + 1 \in 0..384 /\ 2 * y - 1 \in 0..384 /\ 2 * x + 1 <= 2 * y - 1
        /\ x # 192 /\ y # 64
    BY <1>1, SMT DEF Codes
  <2>2. Above(hz, 2 * y - 1) /\ ~Above(hz, 2 * x + 1)
    BY <1>1, <2>1, Zenon DEF Between
  <2> QED BY <2>1, <2>2, AboveLower, Zenon
<1>2. e < f \/ f < e \/ e = f
  BY SMT DEF Codes
<1> QED BY <1>1, <1>2, Zenon

\* The bounds encoded_frequency clamps to.
Audible == 41..1253

\* encoded_frequency gives the code nearest to a frequency between its bounds.
LEMMA EncodedIsBetween ==
  ASSUME NEW hz \in Audible
  PROVE  EncodedFrequency(hz) \in Codes /\ Between(hz, EncodedFrequency(hz))
<1>0. hz \in Nat
  BY SMT DEF Audible
<1>1. Clamped(hz, 41, 1253) = hz
  BY SMT DEF Audible, Clamped
<1> DEFINE code(h) == 64 + Cardinality({e \in 65..192 : Above(h, 2 * e - 1)})
<1>2. EncodedFrequencies = [h \in 41..1253 |-> code(h)]
  BY DEF EncodedFrequencies, Above
<1>3. EncodedFrequency(hz) = code(hz)
  <2> HIDE DEF code
  <2>1. EncodedFrequency(hz) = EncodedFrequencies[hz]
    BY <1>1, SMT DEF EncodedFrequency
  <2>2. EncodedFrequencies[hz] = code(hz)
    BY <1>2, SMT DEF Audible
  <2> QED BY <2>1, <2>2, Zenon
<1> DEFINE k == Cardinality({e \in 65..192 : Above(hz, 2 * e - 1)})
<1>4. 64 + k \in Codes /\ Between(hz, 64 + k)
  BY <1>0, Counted, Zenon
<1> QED BY <1>3, <1>4, Zenon

\* It gives no other code.
LEMMA EncodedIs ==
  ASSUME NEW hz \in Audible, NEW e \in Codes, Between(hz, e)
  PROVE  EncodedFrequency(hz) = e
<1>1. hz \in Nat
  BY SMT DEF Audible
<1> QED BY <1>1, EncodedIsBetween, BetweenIsUnique, Zenon

\* The frequency of a code, to the nearest hertz.
Hz(e) == FrequencyFromEncoded(e)

\* It is half a hertz off at most.
LEMMA HzBounds ==
  ASSUME NEW e \in Codes
  PROVE  /\ Hz(e) \in Nat /\ 2 * e \in 0..384 /\ IsFrequency(Root(2 * e))
         /\ 262144 * Hz(e) <= Root(2 * e) + 131072
         /\ 262144 * Hz(e) >= Root(2 * e) - 131072
<1> DEFINE x == Root(2 * e)
<1>1. 2 * e \in 0..384
  BY SMT DEF Codes
<1>2. IsFrequency(x)
  BY <1>1, RootSteps, Zenon
<1>3. Hz(e) = Rounded(x, 262144)
  BY DEF Hz, FrequencyFromEncoded
<1> HIDE DEF x
<1>4. Hz(e) = (2 * x + 262144) \div 524288
  BY <1>2, <1>3, SMT DEF Rounded, IsFrequency
<1>5. Hz(e) \in Nat /\ 262144 * Hz(e) <= x + 131072 /\ 262144 * Hz(e) >= x - 131072
  BY <1>2, <1>4, SMT DEF IsFrequency
<1> QED BY <1>1, <1>2, <1>5, SMT DEF x

\* Half codes between which the frequencies of codes 65 to 72 lie, and the ends.
LEMMA LowRoots ==
  /\ Hz(64) = 40 /\ Hz(65) = 41 /\ Hz(66) = 42 /\ Hz(67) = 43 /\ Hz(68) = 44 /\ Hz(69) = 45
  /\ Hz(70) = 46 /\ Hz(71) = 47 /\ Hz(72) = 48
  /\ Above(41, 129) /\ ~Above(41, 131) /\ Above(42, 131) /\ ~Above(42, 133)
  /\ Above(43, 133) /\ ~Above(43, 135) /\ Above(44, 135) /\ ~Above(44, 137)
  /\ Above(45, 137) /\ ~Above(45, 139) /\ Above(46, 139) /\ ~Above(46, 141)
  /\ Above(47, 141) /\ ~Above(47, 143) /\ Above(48, 143) /\ ~Above(48, 145)
<1>1. /\ Roots[1] = 262144 /\ Roots[2] = 264999 /\ Roots[3] = 267884 /\ Roots[4] = 270801
      /\ Roots[5] = 273750 /\ Roots[6] = 276731 /\ Roots[7] = 279744 /\ Roots[8] = 282791
      /\ Roots[9] = 285870 /\ Roots[10] = 288983 /\ Roots[11] = 292130 /\ Roots[12] = 295311
      /\ Roots[13] = 298527 /\ Roots[14] = 301777 /\ Roots[15] = 305063 /\ Roots[16] = 308385
      /\ Roots[17] = 311744 /\ Roots[18] = 315138
  BY SMT DEF Roots
<1>2. Octaves[3] = 4
  BY SMT DEF Octaves
<1>3. /\ Root(128) = 10485760 /\ Root(129) = 10599960 /\ Root(130) = 10715360
      /\ Root(131) = 10832040 /\ Root(132) = 10950000 /\ Root(133) = 11069240
      /\ Root(134) = 11189760 /\ Root(135) = 11311640 /\ Root(136) = 11434800
      /\ Root(137) = 11559320 /\ Root(138) = 11685200 /\ Root(139) = 11812440
      /\ Root(140) = 11941080 /\ Root(141) = 12071080 /\ Root(142) = 12202520
      /\ Root(143) = 12335400 /\ Root(144) = 12469760 /\ Root(145) = 12605520
  BY <1>1, <1>2, SMT DEF Root
<1> QED BY <1>3, SMT DEF Hz, FrequencyFromEncoded, Rounded, Above

\* Frequencies and half codes at the ends of the bands.
LEMMA HighRoots ==
  /\ Hz(96) = 80 /\ Hz(189) = 600 /\ Hz(188) = 587 /\ Hz(191) = 626 /\ Hz(192) = 640
  /\ Root(129) = 10599960 /\ Root(191) = 20745600 /\ Root(377) = 155523200
  /\ Root(379) = 158928640 /\ Root(383) = 165964800
<1>1. /\ Roots[64] = 518640 /\ Roots[1] = 262144 /\ Roots[63] = 513054
      /\ Roots[61] = 502060 /\ Roots[58] = 486010 /\ Roots[59] = 491302 /\ Roots[60] = 496652
      /\ Roots[57] = 480774 /\ Roots[2] = 264999
  BY SMT DEF Roots
<1>2. Octaves[3] = 4 /\ Octaves[4] = 8 /\ Octaves[6] = 32 /\ Octaves[7] = 64
  BY SMT DEF Octaves
<1>3. /\ Root(129) = 10599960 /\ Root(191) = 20745600 /\ Root(192) = 20971520 /\ Root(376) = 153847680
      /\ Root(377) = 155523200 /\ Root(378) = 157216640 /\ Root(379) = 158928640
      /\ Root(382) = 164177280
      /\ Root(383) = 165964800 /\ Root(384) = 167772160
  BY <1>1, <1>2, SMT DEF Root
<1> QED BY <1>3, SMT DEF Hz, FrequencyFromEncoded, Rounded, Above

\* The scale goes from 40 to 640 hertz.
LEMMA HzRange ==
  ASSUME NEW e \in Codes
  PROVE  Hz(e) >= 40 /\ Hz(e) <= 640 /\ (e >= 65 => Hz(e) \in Audible)
<1> DEFINE x == Root(2 * e)
<1>1. /\ Hz(e) \in Nat /\ 2 * e \in 0..384 /\ IsFrequency(x)
      /\ 262144 * Hz(e) <= x + 131072 /\ 262144 * Hz(e) >= x - 131072
  BY HzBounds, SMT
<1>2. Root(128) = 10485760 /\ Root(130) = 10715360 /\ Root(384) = 167772160
  <2>1. Roots[1] = 262144 /\ Roots[3] = 267884 /\ Octaves[3] = 4 /\ Octaves[7] = 64
    BY SMT DEF Roots, Octaves
  <2> QED BY <2>1, SMT DEF Root
<1>3. /\ 2 * e \in 0..384 /\ 128 \in 0..384 /\ 130 \in 0..384 /\ 384 \in 0..384
      /\ 128 = 2 * e \/ 128 < 2 * e
      /\ 384 = 2 * e \/ 2 * e < 384
      /\ e >= 65 => 130 = 2 * e \/ 130 < 2 * e
  BY SMT DEF Codes
<1>4. /\ x = Root(384) \/ x < Root(384)
      /\ x = Root(128) \/ Root(128) < x
      /\ e >= 65 => x = Root(130) \/ Root(130) < x
  BY <1>3, RootsRise, Zenon
<1> HIDE DEF x
<1>5. x <= 167772160 /\ x >= 10485760 /\ (e >= 65 => x >= 10715360)
  BY <1>1, <1>2, <1>4, SMT DEF IsFrequency
<1> QED BY <1>1, <1>5, SMT DEF Audible, IsFrequency

\* Encoding the frequency of a code gives that code.
LEMMA HzBack ==
  ASSUME NEW e \in Codes, e # 64
  PROVE  Between(Hz(e), e)
<1>1. CASE e <= 72
  <2>1. e = 65 \/ e = 66 \/ e = 67 \/ e = 68 \/ e = 69 \/ e = 70 \/ e = 71 \/ e = 72
    BY <1>1, SMT DEF Codes
  <2> QED BY <2>1, LowRoots, SMT DEF Between
<1>2. CASE e > 72
  <2> DEFINE w == Root(2 * e - 1)
             x == Root(2 * e)
             y == Root(2 * e + 1)
  <2>1. /\ Hz(e) \in Nat /\ IsFrequency(x)
        /\ 262144 * Hz(e) <= x + 131072 /\ 262144 * Hz(e) >= x - 131072
    BY HzBounds, SMT
  <2>2. /\ 2 * e - 1 \in 0..384 /\ 2 * e - 1 < 384 /\ 2 * e - 1 + 1 = 2 * e
        /\ 144 \in 0..384 /\ 144 < 2 * e - 1
        /\ 2 * e \in 0..384
        /\ e # 192 => 2 * e < 384 /\ 2 * e + 1 \in 0..384
    BY <1>2, SMT DEF Codes
  <2>3. IsFrequency(w) /\ RootStep(w, x)
    BY <2>2, RootSteps, Zenon
  <2>4. e # 192 => RootStep(x, y) /\ IsFrequency(y)
    BY <2>2, RootSteps, Zenon
  <2>5. Root(144) < w
    BY <2>2, RootsRise, Zenon
  <2>6. Root(144) = 12469760
    <3>1. Roots[17] = 311744 /\ Octaves[3] = 4
      BY SMT DEF Roots, Octaves
    <3> QED BY <3>1, SMT DEF Root
  <2> HIDE DEF w, x, y
  <2>7. 262144 * Hz(e) >= w
    BY <2>1, <2>3, <2>5, <2>6, SMT DEF RootStep, IsFrequency
  <2>8. e # 192 => 262144 * Hz(e) < y
    BY <2>1, <2>3, <2>4, <2>5, <2>6, SMT DEF RootStep, IsFrequency
  <2>9. IsFrequency(y) \/ e = 192
    BY <2>4, Zenon
  <2> QED BY <2>1, <2>3, <2>7, <2>8, <2>9, SMT DEF Between, Above, w, y, IsFrequency
<1> QED BY <1>1, <1>2, SMT DEF Codes

\* What the pitch may be off by.
Slack(hz) == IF hz < 100 THEN 1 ELSE hz \div 50

\* Between its half codes every frequency is that near a code's.
LEMMA NearHz ==
  ASSUME NEW hz \in Nat, NEW e \in Codes, e # 64, e # 192, Between(hz, e)
  PROVE  Hz(e) <= hz + Slack(hz) /\ Hz(e) >= hz - Slack(hz)
<1> DEFINE w == Root(2 * e - 1)
           x == Root(2 * e)
           y == Root(2 * e + 1)
           h == Hz(e)
<1>1. /\ h \in Nat /\ IsFrequency(x)
      /\ 262144 * h <= x + 131072 /\ 262144 * h >= x - 131072
  BY HzBounds, SMT
<1>2. /\ 2 * e - 1 \in 0..384 /\ 2 * e - 1 < 384 /\ 2 * e - 1 + 1 = 2 * e
      /\ 2 * e \in 0..384 /\ 2 * e < 384 /\ 2 * e + 1 \in 0..384
  BY SMT DEF Codes
<1>3. IsFrequency(w) /\ RootStep(w, x)
  BY <1>2, RootSteps, Zenon
<1>4. IsFrequency(y) /\ RootStep(x, y)
  BY <1>2, RootSteps, Zenon
<1>5. 262144 * hz >= w /\ ~(262144 * hz >= y)
  BY SMT DEF Between, Above
<1> HIDE DEF w, x, y, h
<1>6. 100000 * x <= 101090 * 262144 * hz /\ 101090 * x >= 100000 * 262144 * hz
  BY <1>1, <1>3, <1>4, <1>5, SMT DEF RootStep, IsFrequency
<1>7. 100000 * h <= 101090 * hz + 50000 /\ 101090 * h >= 100000 * hz - 50545
  BY <1>1, <1>6, SMT DEF IsFrequency
<1>8. CASE hz < 100
  BY <1>1, <1>7, <1>8, SMT DEF Slack, h
<1>9. CASE hz >= 100
  <2> DEFINE k == hz \div 50
  <2>1. k \in Nat /\ 50 * k <= hz /\ hz < 50 * k + 50 /\ k >= 2
    BY <1>9, SMT
  <2>2. Slack(hz) = k
    BY <1>9, SMT DEF Slack
  <2> HIDE DEF k
  <2>3. h <= hz + k /\ h >= hz - k
    BY <1>1, <1>7, <2>1, SMT
  <2> QED BY <2>2, <2>3 DEF h
<1> QED BY <1>8, <1>9, SMT

\* The code of a band for a frequency.
CodeFor(band, hz) ==
  IF band = "high" THEN Clamped(EncodedFrequency(hz), 96, 192)
  ELSE Clamped(EncodedFrequency(hz), 64, 191)

\* The codes a translation gives a band.
BandCodes(band) == IF band = "high" THEN 96..192 ELSE 65..189

\* What a Switch 2 makes of a frequency: its low band ends at 597 Hz.
Heard2(band, hz) == IF band = "low" /\ hz > 597 THEN 597 ELSE hz

\* The nearest frequency that both controllers can express.
Cut(band, hz) == IF band = "high" THEN Clamped(hz, 80, 640) ELSE Clamped(hz, 41, 597)

\* PitchKept as two bounds.
LEMMA PitchAt ==
  ASSUME NEW band \in {"high", "low"}, NEW meant \in Nat, NEW felt \in Nat
  PROVE  /\ Cut(band, meant) \in Nat
         /\ PitchKept(band, meant, felt)
              <=> /\ felt <= Cut(band, meant) + Slack(Cut(band, meant))
                  /\ felt >= Cut(band, meant) - Slack(Cut(band, meant))
<1> DEFINE cut == Cut(band, meant)
           slack == Clamped(cut \div 50, 1, cut)
<1>1. cut \in Nat /\ cut >= 41
  BY SMT DEF Cut, Clamped
<1>2. PitchKept(band, meant, felt) <=> felt \in (cut - slack)..(cut + slack)
  BY DEF PitchKept, Cut
<1> HIDE DEF cut
<1>3. slack = Slack(cut) /\ slack \in Nat
  BY <1>1, SMT DEF Slack, Clamped
<1> HIDE DEF slack
<1> QED BY <1>1, <1>2, <1>3, SMT DEF cut

\* A frequency that may come from a Switch 2.
Reaches(band, hz) == hz \in Nat /\ hz <= 1253 /\ (band = "low" => hz <= 597)

\* The code a Switch Pro takes for a frequency keeps the pitch, and so does what
\* a Switch 2 makes of that.
LEMMA CodeKeepsPitch ==
  ASSUME NEW band \in {"high", "low"}, NEW hz \in Nat, Reaches(band, hz)
  PROVE  /\ CodeFor(band, hz) \in BandCodes(band) /\ CodeFor(band, hz) \in Codes
         /\ PitchKept(band, hz, Hz(CodeFor(band, hz)))
         /\ PitchKept(band, hz, Heard2(band, Hz(CodeFor(band, hz))))
<1> DEFINE h == IF hz < 41 THEN 41 ELSE hz
           f == EncodedFrequency(h)
           e == CodeFor(band, hz)
           cut == Cut(band, hz)
<1>1. h \in Nat /\ h >= 41 /\ h <= 1253 /\ (band = "low" => h <= 597)
  BY SMT DEF Reaches
<1>0. h \in Nat /\ h \in Audible
  BY SMT DEF Audible, Reaches
<1>2. EncodedFrequency(hz) = f
  BY SMT DEF EncodedFrequency, Clamped
<1> HIDE DEF h
<1>3. f \in Codes /\ Between(h, f)
  BY <1>0, EncodedIsBetween, Zenon
<1>4. e = IF band = "high" THEN Clamped(f, 96, 192) ELSE Clamped(f, 64, 191)
  BY <1>2, Zenon DEF CodeFor
<1> HIDE DEF f
<1>5. cut = Cut(band, h) /\ cut \in Nat
  BY <1>1, SMT DEF Cut, Clamped, h
<1> HIDE DEF e, cut
<1> SUFFICES /\ e \in BandCodes(band) /\ e \in Codes
             /\ Hz(e) <= cut + Slack(cut) /\ Hz(e) >= cut - Slack(cut)
             /\ Heard2(band, Hz(e)) <= cut + Slack(cut) /\ Heard2(band, Hz(e)) >= cut - Slack(cut)
  <2> SUFFICES ASSUME e \in Codes
               PROVE  Hz(e) \in Nat /\ Heard2(band, Hz(e)) \in Nat
    BY PitchAt, SMT DEF e, cut
  <2>1. Hz(e) \in Nat
    BY HzBounds, SMT
  <2> QED BY <2>1, SMT DEF Heard2
<1>6. ASSUME NEW i \in 0..384, NEW j \in 0..384, i <= j, Above(h, j)
      PROVE  Above(h, i)
  BY <1>0, <1>6, AboveLower, Zenon
<1>7. CASE band = "high"
  <2>1. Heard2(band, Hz(e)) = Hz(e) /\ e = Clamped(f, 96, 192) /\ BandCodes(band) = 96..192
        /\ cut = Clamped(h, 80, 640)
    BY <1>4, <1>5, <1>7, SMT DEF Heard2, BandCodes, Cut
  <2>2. CASE f < 96
    <3>1. ~Above(h, 2 * f + 1) /\ 2 * f + 1 \in 0..384 /\ 191 \in 0..384 /\ 2 * f + 1 <= 191
      BY <1>3, <2>2, SMT DEF Between, Codes
    <3>2. ~Above(h, 191)
      BY <1>6, <3>1, Zenon
    <3>3. h < 80
      BY <1>1, <3>2, HighRoots, SMT DEF Above
    <3>4. cut = 80 /\ e = 96
      BY <1>1, <1>3, <2>1, <2>2, <3>3, SMT DEF Clamped, Codes
    <3> QED BY <2>1, <3>4, HighRoots, SMT DEF Codes, Slack
  <2>3. CASE f \in 96..191
    <3>1. /\ Above(h, 2 * f - 1) /\ 2 * f - 1 \in 0..384 /\ 191 \in 0..384 /\ 191 <= 2 * f - 1
          /\ ~Above(h, 2 * f + 1) /\ 2 * f + 1 \in 0..384 /\ 383 \in 0..384 /\ 2 * f + 1 <= 383
          /\ f # 64 /\ f # 192
      BY <1>3, <2>3, SMT DEF Between, Codes
    <3>2. Above(h, 191) /\ ~Above(h, 383)
      BY <1>6, <3>1, Zenon
    <3>3. h >= 80 /\ h <= 634
      BY <1>1, <3>2, HighRoots, SMT DEF Above
    <3>4. cut = h /\ e = f
      BY <1>1, <1>3, <2>1, <2>3, <3>3, SMT DEF Clamped, Codes
    <3>5. Hz(f) <= h + Slack(h) /\ Hz(f) >= h - Slack(h)
      BY <1>0, <1>3, <3>1, NearHz, Zenon
    <3> QED BY <1>3, <2>1, <2>3, <3>4, <3>5, SMT
  <2>4. CASE f = 192
    <3>1. Above(h, 383)
      BY <1>3, <2>4, SMT DEF Between
    <3>2. h >= 633
      BY <1>1, <3>1, HighRoots, SMT DEF Above
    <3>3. e = 192 /\ cut \in Nat /\ cut >= 633 /\ cut <= 640
      BY <1>1, <2>1, <2>4, <3>2, SMT DEF Clamped
    <3>4. Slack(cut) >= 12
      BY <3>3, SMT DEF Slack
    <3>5. Slack(cut) \in Nat
      BY <3>3, SMT DEF Slack
    <3> HIDE DEF Slack
    <3> QED BY <2>1, <3>3, <3>4, <3>5, HighRoots, SMT DEF Codes
  <2> QED BY <1>3, <2>2, <2>3, <2>4, SMT DEF Codes
<1>8. CASE band = "low"
  <2>1. e = Clamped(f, 64, 191) /\ BandCodes(band) = 65..189 /\ cut = Clamped(h, 41, 597) /\ h <= 597
    BY <1>1, <1>4, <1>5, <1>8, SMT DEF BandCodes, Cut
  <2>2. f # 64
    <3> SUFFICES ASSUME f = 64 PROVE FALSE
      BY Zenon
    <3>1. ~Above(h, 129)
      BY <1>3, SMT DEF Between
    <3> QED BY <1>1, <3>1, HighRoots, SMT DEF Above
  <2>3. f <= 189
    <3> SUFFICES ASSUME f > 189 PROVE FALSE
      BY <1>3, SMT DEF Codes
    <3>1. /\ Above(h, 2 * f - 1) /\ 2 * f - 1 \in 0..384 /\ 379 \in 0..384 /\ 379 <= 2 * f - 1
      BY <1>3, SMT DEF Between, Codes
    <3>2. Above(h, 379)
      BY <1>6, <3>1, Zenon
    <3> QED BY <1>1, <2>1, <3>2, HighRoots, SMT DEF Above
  <2>4. e = f /\ cut = h /\ f # 192
    BY <1>1, <1>3, <2>1, <2>2, <2>3, SMT DEF Clamped, Codes
  <2>5. Hz(f) <= h + Slack(h) /\ Hz(f) >= h - Slack(h)
    BY <1>0, <1>3, <2>2, <2>4, NearHz, Zenon
  <2>6. Heard2(band, Hz(f)) = IF Hz(f) > 597 THEN 597 ELSE Hz(f)
    BY <1>8, SMT DEF Heard2
  <2>7. Slack(h) \in Nat /\ Hz(f) \in Nat
    BY <1>1, <1>3, HzBounds, SMT DEF Slack
  <2>8. e \in BandCodes(band)
    BY <1>3, <2>1, <2>2, <2>3, <2>4, SMT DEF Codes
  <2> QED BY <1>1, <1>3, <2>1, <2>4, <2>5, <2>6, <2>7, <2>8, SMT
<1> QED BY <1>7, <1>8, SMT

\* A code that goes to a Switch 2 comes back as itself.
LEMMA CodeReadAgain ==
  ASSUME NEW band \in {"high", "low"}, NEW e \in BandCodes(band)
  PROVE  e \in Codes /\ Hz(e) \in Nat /\ Hz(e) >= 1 /\ Hz(e) <= 640
         /\ CodeFor(band, Heard2(band, Hz(e))) = e
<1>1. e \in Codes /\ e # 64
  BY SMT DEF BandCodes, Codes
<1>2. Hz(e) \in Nat /\ Hz(e) >= 1 /\ Hz(e) <= 640
  BY <1>1, HzRange, HzBounds, SMT
<1>3. Hz(e) \in Audible /\ Between(Hz(e), e)
  <2>1. Hz(e) \in Audible
    BY <1>1, HzRange, SMT DEF Codes
  <2> QED BY <1>1, <2>1, HzBack, Zenon
<1>4. EncodedFrequency(Hz(e)) = e
  BY <1>1, <1>3, EncodedIs, Zenon
<1>5. CASE band = "high" \/ Hz(e) <= 597
  <2>1. Heard2(band, Hz(e)) = Hz(e)
    BY <1>2, <1>5, SMT DEF Heard2
  <2>2. CodeFor(band, Hz(e)) = e
    BY <1>4, SMT DEF CodeFor, BandCodes, Clamped
  <2> QED BY <1>1, <1>2, <2>1, <2>2, Zenon
<1>6. CASE band = "low" /\ Hz(e) > 597
  <2>1. Heard2(band, Hz(e)) = 597
    BY <1>6, SMT DEF Heard2
  <2>2. e = 189
    <3> SUFFICES ASSUME e # 189 PROVE FALSE
      BY Zenon
    <3>1. 2 * e \in 0..384 /\ 2 * e <= 376 /\ e \in 65..188
      BY <1>6, SMT DEF BandCodes
    <3>2. 376 \in 0..384 /\ (2 * e = 376 \/ 2 * e < 376)
      BY <3>1, SMT
    <3>3. Root(2 * e) = Root(376) \/ Root(2 * e) < Root(376)
      BY <3>1, <3>2, RootsRise, Zenon
    <3>4. Root(376) = 153847680
      <4>1. Roots[57] = 480774 /\ Octaves[6] = 32
        BY SMT DEF Roots, Octaves
      <4> QED BY <4>1, SMT DEF Root
    <3>5. 262144 * Hz(e) <= Root(2 * e) + 131072 /\ IsFrequency(Root(2 * e))
      BY <1>1, HzBounds, SMT
    <3> QED BY <1>2, <1>6, <3>3, <3>4, <3>5, SMT DEF IsFrequency
  <2>3. Between(597, 189) /\ 597 \in Audible /\ 189 \in Codes
    BY HighRoots, SMT DEF Between, Above, Audible, Codes
  <2>4. EncodedFrequency(597) = 189
    BY <2>3, EncodedIs, SMT
  <2>5. CodeFor(band, 597) = 189
    BY <1>6, <2>4, SMT DEF CodeFor, Clamped
  <2> QED BY <1>1, <1>2, <2>1, <2>2, <2>5, SMT
<1>7. band = "high" \/ band = "low"
  BY Zenon
<1> QED BY <1>2, <1>5, <1>6, <1>7, SMT

\* What a Switch 2 reads of a frequency it was sent.
LEMMA HeardBySwitch2 ==
  ASSUME NEW band \in {"high", "low"}, NEW hz \in Nat, hz >= 1, hz <= 640
  PROVE  Hertz(Switch2Pro, band, FrequencyCode2(band, hz)) = Heard2(band, hz)
<1>1. CASE band = "high"
  <2> DEFINE c == (2 * (391 * hz) + 320) \div 640
             h == (2 * (c * 320) + 391) \div 782
  <2>1. c \in Nat /\ 640 * c <= 782 * hz + 320 /\ 782 * hz + 320 < 640 * c + 640
    BY SMT
  <2>2. c >= 1 /\ c <= 1023
    <3> HIDE DEF c
    <3> QED BY <2>1, SMT
  <2>3. FrequencyCode2(band, hz) = c
    <3>1. FrequencyCode2(band, hz) = Clamped(c, 1, 1023)
      BY <1>1, SMT DEF FrequencyCode2, Rounded, DefaultCode2, DefaultFrequency
    <3> HIDE DEF c
    <3> QED BY <2>1, <2>2, <3>1, SMT DEF Clamped
  <2> HIDE DEF c
  <2>4. h \in Nat /\ 782 * h <= 640 * c + 391 /\ 640 * c + 391 < 782 * h + 782
    BY <2>1, SMT
  <2>5. Hertz(Switch2Pro, band, c) = IF Clamped(h, 1, 65535) = 0 THEN 320 ELSE Clamped(h, 1, 65535)
    BY <1>1, <2>1, <2>2, SMT DEF Hertz, FrequencyOf2, Rounded, DefaultCode2, DefaultFrequency,
                                SwitchPro, Switch2Pro
  <2> HIDE DEF h
  <2>6. h = hz
    BY <2>1, <2>4, SMT
  <2> QED BY <1>1, <2>3, <2>5, <2>6, SMT DEF Clamped, Heard2
<1>2. CASE band = "low"
  <2> DEFINE a == (2 * (274 * hz) + 160) \div 320
             c == Clamped(a, 1, 1023)
             h == (2 * (c * 160) + 274) \div 548
  <2>1. a \in Nat /\ 320 * a <= 548 * hz + 160 /\ 548 * hz + 160 < 320 * a + 320
    BY SMT
  <2>2. FrequencyCode2(band, hz) = c
    BY <1>2, SMT DEF FrequencyCode2, Rounded, DefaultCode2, DefaultFrequency
  <2> HIDE DEF a
  <2>3. c = (IF hz > 597 THEN 1023 ELSE a) /\ c \in Nat /\ c >= 1
    BY <2>1, SMT DEF Clamped
  <2> HIDE DEF c
  <2>4. h \in Nat /\ 548 * h <= 320 * c + 274 /\ 320 * c + 274 < 548 * h + 548
    BY <2>3, SMT
  <2>5. Hertz(Switch2Pro, band, c) = IF Clamped(h, 1, 65535) = 0 THEN 160 ELSE Clamped(h, 1, 65535)
    BY <1>2, <2>3, SMT DEF Hertz, FrequencyOf2, Rounded, DefaultCode2, DefaultFrequency,
                          SwitchPro, Switch2Pro
  <2> HIDE DEF h
  <2>6. h = IF hz > 597 THEN 597 ELSE hz
    BY <2>1, <2>3, <2>4, SMT
  <2> QED BY <1>2, <2>2, <2>5, <2>6, SMT DEF Clamped, Heard2
<1> QED BY <1>1, <1>2, SMT

\* What a Switch 2 feels of any code.
LEMMA HertzRange ==
  ASSUME NEW band \in {"high", "low"}, NEW code \in Nat, code <= 1023
  PROVE  /\ Reaches(band, Hertz(Switch2Pro, band, code))
         /\ Hertz(Switch2Pro, band, code) >= 1
<1>1. CASE code = 0
  BY <1>1, SMT DEF Reaches, Hertz, FrequencyOf2, DefaultFrequency, SwitchPro, Switch2Pro
<1>2. CASE code # 0 /\ band = "high"
  <2> DEFINE h == (2 * (code * 320) + 391) \div 782
  <2>1. h \in Nat /\ h <= 837
    BY SMT
  <2>2. FrequencyOf2(band, code) = Clamped(h, 1, 65535)
    BY <1>2, SMT DEF FrequencyOf2, Rounded, DefaultCode2, DefaultFrequency
  <2> HIDE DEF h
  <2> QED BY <1>2, <2>1, <2>2, SMT DEF Reaches, Hertz, Clamped, SwitchPro, Switch2Pro
<1>3. CASE code # 0 /\ band = "low"
  <2> DEFINE h == (2 * (code * 160) + 274) \div 548
  <2>1. h \in Nat /\ h <= 597
    BY SMT
  <2>2. FrequencyOf2(band, code) = Clamped(h, 1, 65535)
    BY <1>3, SMT DEF FrequencyOf2, Rounded, DefaultCode2, DefaultFrequency
  <2> HIDE DEF h
  <2> QED BY <1>3, <2>1, <2>2, SMT DEF Reaches, Hertz, Clamped, SwitchPro, Switch2Pro
<1> QED BY <1>1, <1>2, <1>3, SMT

\* The codes of a Switch Pro's bands stand for those of the scale.
LEMMA ReadAsWritten ==
  ASSUME NEW band \in {"high", "low"}, NEW hz, EncodedFrequency(hz) \in Codes
  PROVE  Hertz(SwitchPro, band, FrequencyCode(band, hz)) = Hz(CodeFor(band, hz))
<1>1. Hertz(SwitchPro, band, FrequencyCode(band, hz)) = FrequencyOf(band, FrequencyCode(band, hz))
  BY DEF Hertz
<1> DEFINE f == EncodedFrequency(hz)
<1> HIDE DEF f
<1>2. f \in Codes
  BY DEF f
<1>3. CASE band = "high"
  <2>1. FrequencyCode(band, hz) = 4 * (Clamped(f, 96, 192) - 96)
    BY <1>3, SMT DEF FrequencyCode, f
  <2> DEFINE e == Clamped(f, 96, 192)
  <2>2. e \in 96..192 /\ CodeFor(band, hz) = e
    BY <1>2, <1>3, SMT DEF Clamped, CodeFor, f, Codes
  <2> HIDE DEF e
  <2>3. Clamped(((4 * (e - 96)) \div 4) + 96, 96, 192) = e
    BY <2>2, SMT DEF Clamped
  <2> QED BY <1>1, <1>3, <2>1, <2>2, <2>3, SMT DEF FrequencyOf, Hz, e
<1>4. CASE band = "low"
  <2>1. FrequencyCode(band, hz) = Clamped(f, 64, 191) - 64
    BY <1>4, SMT DEF FrequencyCode, f
  <2> DEFINE e == Clamped(f, 64, 191)
  <2>2. e \in 64..191 /\ CodeFor(band, hz) = e
    BY <1>2, <1>4, SMT DEF Clamped, CodeFor, f, Codes
  <2> HIDE DEF e
  <2>3. Clamped(e - 64 + 64, 64, 191) = e
    BY <2>2, SMT DEF Clamped
  <2> QED BY <1>1, <1>4, <2>1, <2>2, <2>3, SMT DEF FrequencyOf, Hz, e
<1> QED BY <1>3, <1>4, SMT

\* The pitch a band has on its way: one whose code is within the band, and which
\* is kept, whatever the next controllers make of it.
Pitched(band, meant, format, hz) ==
  IF format = SwitchPro
  THEN \E e \in BandCodes(band) :
         /\ hz = Hz(e)
         /\ PitchKept(band, meant, hz) /\ PitchKept(band, meant, Heard2(band, hz))
  ELSE /\ hz \in Nat /\ hz >= 1 /\ Reaches(band, hz)
       /\ CodeFor(band, hz) \in BandCodes(band)
       /\ PitchKept(band, meant, hz)
       /\ PitchKept(band, meant, Hz(CodeFor(band, hz)))
       /\ PitchKept(band, meant, Heard2(band, Hz(CodeFor(band, hz))))

\* From a Switch 2 to a Switch Pro.
LEMMA PitchToPro ==
  ASSUME NEW band \in {"high", "low"}, NEW meant \in Nat, NEW hz,
         Pitched(band, meant, Switch2Pro, hz)
  PROVE  Pitched(band, meant, SwitchPro, Hz(CodeFor(band, hz)))
<1>1. /\ CodeFor(band, hz) \in BandCodes(band)
      /\ PitchKept(band, meant, Hz(CodeFor(band, hz)))
      /\ PitchKept(band, meant, Heard2(band, Hz(CodeFor(band, hz))))
  BY Zenon DEF Pitched, SwitchPro, Switch2Pro
<1> QED BY <1>1, Zenon DEF Pitched

\* From a Switch Pro to a Switch 2.
LEMMA PitchTo2 ==
  ASSUME NEW band \in {"high", "low"}, NEW meant \in Nat, NEW hz,
         Pitched(band, meant, SwitchPro, hz)
  PROVE  /\ hz \in Nat /\ hz >= 1 /\ hz <= 640
         /\ Pitched(band, meant, Switch2Pro, Heard2(band, hz))
<1>1. PICK e \in BandCodes(band) :
        hz = Hz(e) /\ PitchKept(band, meant, hz) /\ PitchKept(band, meant, Heard2(band, hz))
  BY Zenon DEF Pitched
<1>2. e \in Codes /\ Hz(e) \in Nat /\ Hz(e) >= 1 /\ Hz(e) <= 640
      /\ CodeFor(band, Heard2(band, Hz(e))) = e
  BY CodeReadAgain, SMT
<1>3. Heard2(band, hz) \in Nat /\ Heard2(band, hz) >= 1 /\ Reaches(band, Heard2(band, hz))
  BY <1>1, <1>2, SMT DEF Heard2, Reaches
<1>4. Pitched(band, meant, Switch2Pro, Heard2(band, hz))
  BY <1>1, <1>2, <1>3, SMT DEF Pitched, SwitchPro, Switch2Pro
<1> QED BY <1>1, <1>2, <1>4, SMT

\* The first translation, of what a Switch 2 means.
LEMMA FirstPitchToPro ==
  ASSUME NEW band \in {"high", "low"}, NEW hz \in Nat, Reaches(band, hz)
  PROVE  Pitched(band, hz, SwitchPro, Hz(CodeFor(band, hz)))
  BY CodeKeepsPitch, Zenon DEF Pitched

\* The codes a host of a Switch Pro can write.
HostCodes(band) == IF band = "high" THEN 96..192 ELSE 64..191

\* Their frequencies.
LEMMA HostHz ==
  ASSUME NEW band \in {"high", "low"}, NEW e \in HostCodes(band)
  PROVE  /\ e \in Codes /\ Hz(e) \in Nat /\ Hz(e) >= 40 /\ Hz(e) <= 640
         /\ band = "high" => Hz(e) >= 80
<1>1. e \in Codes
  BY SMT DEF HostCodes, Codes
<1>2. Hz(e) \in Nat
  BY <1>1, HzBounds, SMT
<1>3. Hz(e) >= 40 /\ Hz(e) <= 640
  BY <1>1, HzRange, SMT
<1>4. ASSUME band = "high" PROVE Hz(e) >= 80
  <2> DEFINE x == Root(2 * e)
  <2>1. 2 * e \in 0..384 /\ 192 \in 0..384 /\ (192 = 2 * e \/ 192 < 2 * e)
    BY <1>4, SMT DEF HostCodes
  <2>2. x = Root(192) \/ Root(192) < x
    BY <2>1, RootsRise, Zenon
  <2>3. Root(192) = 20971520
    <3>1. Roots[1] = 262144 /\ Octaves[4] = 8
      BY SMT DEF Roots, Octaves
    <3> QED BY <3>1, SMT DEF Root
  <2>4. IsFrequency(x) /\ 262144 * Hz(e) >= x - 131072
    BY <1>1, HzBounds, SMT
  <2> HIDE DEF x
  <2> QED BY <1>2, <2>2, <2>3, <2>4, SMT DEF IsFrequency
<1> QED BY <1>1, <1>2, <1>3, <1>4, SMT

\* The first translation, of what a Switch Pro means.
LEMMA FirstPitchTo2 ==
  ASSUME NEW band \in {"high", "low"}, NEW e \in HostCodes(band)
  PROVE  Pitched(band, Hz(e), Switch2Pro, Heard2(band, Hz(e)))
<1> DEFINE m == Hz(e)
           v == Heard2(band, m)
           c == CodeFor(band, v)
<1>1. m \in Nat /\ m >= 40 /\ m <= 640 /\ (band = "high" => m >= 80)
  BY HostHz, SMT
<1> HIDE DEF m
<1>2. v \in Nat /\ v >= 1 /\ Reaches(band, v)
  BY <1>1, SMT DEF Heard2, Reaches
<1>3. Cut(band, v) = Cut(band, m)
  BY <1>1, SMT DEF Heard2, Cut, Clamped
<1>4. v <= Cut(band, m) + Slack(Cut(band, m)) /\ v >= Cut(band, m) - Slack(Cut(band, m))
  <2>1. Cut(band, m) \in Nat /\ Cut(band, m) >= 41 /\ v <= Cut(band, m) /\ v >= Cut(band, m) - 1
    BY <1>1, SMT DEF Heard2, Cut, Clamped
  <2> DEFINE cut == Cut(band, m)
  <2> HIDE DEF cut, v
  <2>2. Slack(cut) \in Nat /\ Slack(cut) >= 1
    BY <2>1, SMT DEF Slack, cut
  <2> QED BY <1>2, <2>1, <2>2, SMT DEF cut
<1> HIDE DEF v
<1>5. c \in BandCodes(band) /\ c \in Codes /\ PitchKept(band, v, Hz(c))
      /\ PitchKept(band, v, Heard2(band, Hz(c)))
  BY <1>2, CodeKeepsPitch, Zenon
<1> HIDE DEF c
<1>6. Hz(c) \in Nat
  BY <1>5, HzBounds, SMT
<1>7. Heard2(band, Hz(c)) \in Nat
  BY <1>6, SMT DEF Heard2
<1>8. PitchKept(band, m, v)
  BY <1>1, <1>2, <1>4, PitchAt, SMT
<1>9. PitchKept(band, m, Hz(c))
  <2>1. /\ Hz(c) <= Cut(band, v) + Slack(Cut(band, v))
        /\ Hz(c) >= Cut(band, v) - Slack(Cut(band, v))
    BY <1>2, <1>5, <1>6, PitchAt, Zenon
  <2> QED BY <1>1, <1>3, <1>6, <2>1, PitchAt, SMT
<1>10. PitchKept(band, m, Heard2(band, Hz(c)))
  <2>1. /\ Heard2(band, Hz(c)) <= Cut(band, v) + Slack(Cut(band, v))
        /\ Heard2(band, Hz(c)) >= Cut(band, v) - Slack(Cut(band, v))
    BY <1>2, <1>5, <1>7, PitchAt, Zenon
  <2> QED BY <1>1, <1>3, <1>7, <2>1, PitchAt, SMT
<1>11. Pitched(band, m, Switch2Pro, v)
  BY <1>2, <1>5, <1>8, <1>9, <1>10, Zenon DEF Pitched, c, SwitchPro, Switch2Pro
<1> QED BY <1>11 DEF m, v

-----------------------------------------------------------------------------
(* One band, translated *)

\* The two protocols a packet can be in.
Protocols == {SwitchPro, Switch2Pro}
\* The other protocol.
Other(format) == IF format = SwitchPro THEN Switch2Pro ELSE SwitchPro

\* From the protocol of one to that of the other.
Turned(format, band, coded) ==
  IF format = SwitchPro THEN EncodeBand2(band, DecodeBand(band, coded))
  ELSE EncodeBand(band, DecodeBand2(band, coded))

\* A band for a Switch 2: the frequency it means, and the amplitude of a level.
LEMMA TurnedTo2 ==
  ASSUME NEW band \in {"high", "low"}, NEW coded
  PROVE  /\ Turned(SwitchPro, band, coded).frequency
              = FrequencyCode2(band, Hertz(SwitchPro, band, coded.frequency))
         /\ Turned(SwitchPro, band, coded).amplitude
              = EncodeBand2("high", [hz |-> 320, amplitude |-> AmplitudeOf(coded.amplitude)]).amplitude
<1>1. Turned(SwitchPro, band, coded) = EncodeBand2(band, DecodeBand(band, coded))
  BY DEF Turned
<1>2. DecodeBand(band, coded).hz = Hertz(SwitchPro, band, coded.frequency)
      /\ DecodeBand(band, coded).amplitude = AmplitudeOf(coded.amplitude)
  BY SMT DEF DecodeBand, Hertz
<1>3. ASSUME NEW b, NEW state
      PROVE  /\ EncodeBand2(b, state).frequency = FrequencyCode2(b, state.hz)
             /\ EncodeBand2(b, state).amplitude
                  = (state.amplitude * RumbleMax2) \div 65535
                      - (((state.amplitude * RumbleMax2) \div 65535) % 64)
  BY SMT DEF EncodeBand2
<1>4. [hz |-> 320, amplitude |-> AmplitudeOf(coded.amplitude)].amplitude = AmplitudeOf(coded.amplitude)
  BY SMT
<1> QED BY <1>1, <1>2, <1>3, <1>4, SMT

\* A band for a Switch Pro: the code of the frequency meant, and the nearest level.
LEMMA TurnedToPro ==
  ASSUME NEW band \in {"high", "low"}, NEW coded
  PROVE  /\ Turned(Switch2Pro, band, coded).frequency
              = FrequencyCode(band, Hertz(Switch2Pro, band, coded.frequency))
         /\ Turned(Switch2Pro, band, coded).amplitude = LevelFor(coded.amplitude)
<1>1. Turned(Switch2Pro, band, coded) = EncodeBand(band, DecodeBand2(band, coded))
  BY SMT DEF Turned, SwitchPro, Switch2Pro
<1>2. DecodeBand2(band, coded).hz = FrequencyOf2(band, coded.frequency)
      /\ DecodeBand2(band, coded).amplitude
           = IF coded.amplitude >= RumbleMax2 THEN 65535
             ELSE (coded.amplitude * 65535) \div RumbleMax2
  BY SMT DEF DecodeBand2
<1>3. ASSUME NEW state
      PROVE  /\ EncodeBand(band, state).frequency
                  = FrequencyCode(band, IF state.hz = 0 THEN DefaultFrequency(band) ELSE state.hz)
             /\ EncodeBand(band, state).amplitude = NearestLevel(state.amplitude)
  BY SMT DEF EncodeBand
<1>4. Hertz(Switch2Pro, band, coded.frequency)
        = LET hz == FrequencyOf2(band, coded.frequency)
          IN  IF hz = 0 THEN DefaultFrequency(band) ELSE hz
  BY SMT DEF Hertz, SwitchPro, Switch2Pro
<1>5. Turned(Switch2Pro, band, coded).amplitude = LevelFor(coded.amplitude)
  BY <1>1, <1>2, <1>3, SMT DEF NearestLevel, LevelFor, Asked
<1> QED BY <1>1, <1>2, <1>3, <1>4, <1>5, SMT

\* The amplitude after k translations.
Strong(origin, meant, k, format, amplitude) ==
  \E level \in Levels :
    IF format = SwitchPro
    THEN amplitude = level /\ StaysStrong(origin, meant, level, k)
    ELSE amplitude = Level2(level) /\ StaysStrong(origin, meant, level, k - 1)

\* What the host of an origin sent, after k translations.
Carried(origin, k, format, band, sent, coded) ==
  /\ Strong(origin, Permille(origin, sent.amplitude), k, format, coded.amplitude)
  /\ Pitched(band, Hertz(origin, band, sent.frequency),
             format, Hertz(format, band, coded.frequency))

\* Encoding takes any frequency to a code of the scale.
LEMMA EncodedIsCode ==
  ASSUME NEW hz \in Nat
  PROVE  EncodedFrequency(hz) \in Codes
<1> DEFINE h == Clamped(hz, 41, 1253)
<1>1. h \in Audible /\ Clamped(h, 41, 1253) = h
  BY SMT DEF Clamped, Audible
<1>2. EncodedFrequency(hz) = EncodedFrequency(h)
  BY <1>1, SMT DEF EncodedFrequency
<1> HIDE DEF h
<1>3. EncodedFrequency(h) \in Codes
  BY <1>1, EncodedIsBetween, SMT
<1> QED BY <1>2, <1>3, Zenon

\* What a host meant, in thousandths and in hertz.
LEMMA MeantIsNat ==
  ASSUME NEW origin \in Protocols, NEW band \in {"high", "low"}, NEW sent \in Bands(origin, band)
  PROVE  /\ Permille(origin, sent.amplitude) \in Nat
         /\ Hertz(origin, band, sent.frequency) \in Nat
<1>1. CASE origin = SwitchPro
  <2>1. sent.frequency \in Nat /\ sent.frequency <= 511 /\ sent.amplitude \in Nat
    BY <1>1, SMT DEF Bands
  <2> DEFINE level == Clamped(sent.amplitude, 0, 100)
             e == IF band = "high" THEN Clamped((sent.frequency \div 4) + 96, 96, 192)
                  ELSE Clamped(sent.frequency + 64, 64, 191)
  <2>2. level \in Levels /\ PermilleOf(level) = PermilleOf(sent.amplitude)
    <3>1. level \in Levels /\ Clamped(level, 0, 100) = level
      BY <2>1, SMT DEF Clamped, Levels
    <3> QED BY <3>1, Zenon DEF PermilleOf
  <2>3. e \in HostCodes(band)
    BY <2>1, SMT DEF HostCodes, Clamped
  <2>4. Hertz(origin, band, sent.frequency) = Hz(e)
    BY <1>1, Zenon DEF Hertz, FrequencyOf, Hz
  <2> HIDE DEF level, e
  <2>5. Hz(e) \in Nat
    BY <2>3, HostHz, SMT
  <2>6. PermilleOf(level) \in Nat
    BY <2>2, LevelRange, SMT DEF Thousandths
  <2> QED BY <1>1, <2>2, <2>4, <2>5, <2>6, Zenon DEF Permille
<1>2. CASE origin = Switch2Pro
  <2>1. PICK n \in 0..1023 : sent.amplitude = 64 * n
    BY <1>2, SMT DEF Bands, SwitchPro, Switch2Pro
  <2>2. sent.frequency \in Nat /\ sent.frequency <= 1023
    BY <1>2, SMT DEF Bands, SwitchPro, Switch2Pro
  <2>3. n \in Nat /\ n <= 1023
    BY SMT
  <2>4. Permille(Switch2Pro, 64 * n) \in Nat
    BY <2>3, FirstStrong2, SMT
  <2>5. Hertz(Switch2Pro, band, sent.frequency) \in Nat
    BY <2>2, HertzRange, SMT DEF Reaches
  <2> QED BY <1>2, <2>1, <2>4, <2>5, SMT
<1> QED BY <1>1, <1>2, Zenon DEF Protocols

\* The first translation.
LEMMA FirstTurn ==
  ASSUME NEW origin \in Protocols, NEW band \in {"high", "low"}, NEW sent \in Bands(origin, band)
  PROVE  Carried(origin, 1, Other(origin), band, sent, Turned(origin, band, sent))
<1> DEFINE coded == Turned(origin, band, sent)
<1>1. CASE origin = SwitchPro
  <2>1. sent.frequency \in Nat /\ sent.frequency <= 511 /\ sent.amplitude \in Nat
    BY <1>1, SMT DEF Bands
  <2> DEFINE level == Clamped(sent.amplitude, 0, 100)
             e == IF band = "high" THEN Clamped((sent.frequency \div 4) + 96, 96, 192)
                  ELSE Clamped(sent.frequency + 64, 64, 191)
  <2>2. level \in Levels /\ PermilleOf(level) = PermilleOf(sent.amplitude)
    <3>1. level \in Levels /\ Clamped(level, 0, 100) = level
      BY <2>1, SMT DEF Clamped, Levels
    <3> QED BY <3>1, Zenon DEF PermilleOf
  <2>3. e \in HostCodes(band)
    BY <2>1, SMT DEF HostCodes, Clamped
  <2>4. Hertz(origin, band, sent.frequency) = Hz(e)
    BY <1>1, Zenon DEF Hertz, FrequencyOf, Hz
  <2> HIDE DEF level, e
  <2>5. AmplitudeOf(sent.amplitude) = AmplitudeOf(level)
    BY <2>2, SMT DEF AmplitudeOf
  <2>6. coded.amplitude = Level2(level)
        /\ coded.frequency = FrequencyCode2(band, Hz(e))
    BY <1>1, <2>4, <2>5, TurnedTo2, SMT DEF Level2
  <2>7. StaysStrong(origin, Permille(origin, sent.amplitude), level, 0)
    <3>1. Permille(origin, sent.amplitude) = PermilleOf(level)
      BY <1>1, <2>2, Zenon DEF Permille
    <3>2. PermilleOf(level) \in Nat /\ level \in 0..100
      BY <2>2, LevelRange, SMT DEF Thousandths, Levels
    <3>3. (level = 0) = (PermilleOf(level) = 0)
      <4>1. 0 \in Levels
        BY DEF Levels
      <4>2. 0 < level => PermilleOf(0) < PermilleOf(level)
        BY <2>2, <4>1, LevelsRise, Zenon
      <4> QED BY <3>2, <4>2, TableEnds, SMT
    <3> QED BY <1>1, <3>1, <3>2, <3>3, SMT DEF StaysStrong
  <2>8. Strong(origin, Permille(origin, sent.amplitude), 1, Switch2Pro, coded.amplitude)
    <3>1. 1 - 1 = 0 /\ Switch2Pro # SwitchPro
      BY SMT DEF SwitchPro, Switch2Pro
    <3> HIDE DEF coded
    <3> QED BY <2>2, <2>6, <2>7, <3>1, Zenon DEF Strong
  <2>9. Hz(e) \in Nat /\ Hz(e) >= 1 /\ Hz(e) <= 640
    BY <2>3, HostHz, SMT
  <2>10. Hertz(Switch2Pro, band, coded.frequency) = Heard2(band, Hz(e))
    BY <2>6, <2>9, HeardBySwitch2, SMT
  <2>11. Pitched(band, Hz(e), Switch2Pro, Heard2(band, Hz(e)))
    BY <2>3, FirstPitchTo2, Zenon
  <2>12. Other(origin) = Switch2Pro
    BY <1>1, Zenon DEF Other
  <2> HIDE DEF coded
  <2> QED BY <2>4, <2>8, <2>10, <2>11, <2>12, Zenon DEF Carried, coded
<1>2. CASE origin = Switch2Pro
  <2>1. PICK n \in 0..1023 : sent.amplitude = 64 * n
    BY <1>2, SMT DEF Bands, SwitchPro, Switch2Pro
  <2>2. sent.frequency \in Nat /\ sent.frequency <= 1023
    BY <1>2, SMT DEF Bands, SwitchPro, Switch2Pro
  <2>3. n \in Nat /\ n <= 1023
    BY SMT
  <2> DEFINE level == LevelFor(64 * n)
             v == Hertz(Switch2Pro, band, sent.frequency)
  <2>4. /\ level \in Levels
        /\ StaysStrong(Switch2Pro, Permille(Switch2Pro, 64 * n), level, 1)
    BY <2>3, FirstStrong2, SMT
  <2>5. coded.amplitude = level /\ coded.frequency = FrequencyCode(band, v)
    BY <1>2, <2>1, TurnedToPro, SMT
  <2>6. Reaches(band, v) /\ v \in Nat
    BY <2>2, HertzRange, SMT DEF Reaches
  <2> HIDE DEF level, v, coded
  <2>7. EncodedFrequency(v) \in Codes
    BY <2>6, EncodedIsCode, SMT
  <2>8. Hertz(SwitchPro, band, coded.frequency) = Hz(CodeFor(band, v))
    BY <2>5, <2>7, ReadAsWritten, SMT
  <2>9. Pitched(band, v, SwitchPro, Hz(CodeFor(band, v)))
    BY <2>6, FirstPitchToPro, SMT
  <2>10. Strong(origin, Permille(origin, sent.amplitude), 1, SwitchPro, coded.amplitude)
    BY <1>2, <2>1, <2>4, <2>5, SMT DEF Strong
  <2>11. Other(origin) = SwitchPro
    BY <1>2, SMT DEF Other, SwitchPro, Switch2Pro
  <2>12. Pitched(band, Hertz(origin, band, sent.frequency), SwitchPro,
                 Hertz(SwitchPro, band, coded.frequency))
    BY <1>2, <2>8, <2>9, SMT DEF v
  <2>13. Carried(origin, 1, SwitchPro, band, sent, coded)
    BY <2>10, <2>12, SMT DEF Carried
  <2> QED BY <2>11, <2>13, SMT DEF coded
<1> QED BY <1>1, <1>2, Zenon DEF Protocols

\* Every later one.
LEMMA NextTurn ==
  ASSUME NEW origin \in Protocols, NEW format \in Protocols, NEW band \in {"high", "low"},
         NEW sent \in Bands(origin, band), NEW k \in Nat \ {0}, NEW coded,
         Carried(origin, k, format, band, sent, coded)
  PROVE  Carried(origin, k + 1, Other(format), band, sent, Turned(format, band, coded))
<1> DEFINE meant == Permille(origin, sent.amplitude)
           hz == Hertz(origin, band, sent.frequency)
           turned == Turned(format, band, coded)
           v == Hertz(format, band, coded.frequency)
<1>1. meant \in Nat /\ hz \in Nat
  BY MeantIsNat, Zenon
<1>2. Strong(origin, meant, k, format, coded.amplitude) /\ Pitched(band, hz, format, v)
  BY Zenon DEF Carried
<1> HIDE DEF meant, hz
<1>3. CASE format = SwitchPro
  <2>1. PICK level \in Levels :
          coded.amplitude = level /\ StaysStrong(origin, meant, level, k)
    BY <1>2, <1>3, Zenon DEF Strong
  <2>2. turned.amplitude = Level2(level) /\ turned.frequency = FrequencyCode2(band, v)
    BY <1>3, <2>1, TurnedTo2, SMT DEF Level2
  <2>3. Strong(origin, meant, k + 1, Switch2Pro, turned.amplitude)
    <3>1. (k + 1) - 1 = k /\ Switch2Pro # SwitchPro
      BY SMT DEF SwitchPro, Switch2Pro
    <3>2. StaysStrong(origin, meant, level, (k + 1) - 1)
      BY <2>1, <3>1, SMT
    <3> HIDE DEF turned
    <3> QED BY <2>2, <3>1, <3>2, Zenon DEF Strong
  <2>4. v \in Nat /\ v >= 1 /\ v <= 640 /\ Pitched(band, hz, Switch2Pro, Heard2(band, v))
    BY <1>1, <1>2, <1>3, PitchTo2, SMT
  <2> HIDE DEF turned, v
  <2>5. Hertz(Switch2Pro, band, turned.frequency) = Heard2(band, v)
    BY <2>2, <2>4, HeardBySwitch2, SMT
  <2>6. Carried(origin, k + 1, Switch2Pro, band, sent, turned)
    BY <2>3, <2>4, <2>5, SMT DEF Carried, meant, hz
  <2>7. Other(format) = Switch2Pro
    BY <1>3, Zenon DEF Other
  <2> QED BY <2>6, <2>7, SMT DEF turned
<1>4. CASE format = Switch2Pro
  <2>0. Switch2Pro # SwitchPro
    BY SMT DEF SwitchPro, Switch2Pro
  <2>1. PICK level \in Levels :
          coded.amplitude = Level2(level) /\ StaysStrong(origin, meant, level, k - 1)
    BY <1>2, <1>4, <2>0, Zenon DEF Strong
  <2>2. turned.amplitude = LevelFor(Level2(level)) /\ turned.frequency = FrequencyCode(band, v)
    BY <1>4, <2>1, TurnedToPro, SMT
  <2>3. k - 1 \in Nat /\ (k - 1) + 2 = k + 1
    BY SMT
  <2>4. StaysStrong(origin, meant, LevelFor(Level2(level)), (k - 1) + 2)
    BY <1>1, <2>1, <2>3, StillStrong, Zenon DEF Protocols
  <2>5. LevelFor(Level2(level)) \in Levels
    BY LevelAgain, SMT
  <2> HIDE DEF turned
  <2>6. Strong(origin, meant, k + 1, SwitchPro, turned.amplitude)
    BY <2>2, <2>3, <2>4, <2>5, Zenon DEF Strong
  <2>7. v \in Nat
    BY <1>2, <1>4, <2>0, Zenon DEF Pitched
  <2>8. EncodedFrequency(v) \in Codes
    BY <2>7, EncodedIsCode, SMT
  <2>9. Pitched(band, hz, SwitchPro, Hz(CodeFor(band, v)))
    BY <1>1, <1>2, <1>4, PitchToPro, SMT
  <2> HIDE DEF v
  <2>10. Hertz(SwitchPro, band, turned.frequency) = Hz(CodeFor(band, v))
    BY <2>2, <2>8, ReadAsWritten, SMT
  <2>11. Carried(origin, k + 1, SwitchPro, band, sent, turned)
    BY <2>6, <2>9, <2>10, SMT DEF Carried, meant, hz
  <2>12. Other(format) = SwitchPro
    BY <1>4, <2>0, Zenon DEF Other
  <2> QED BY <2>11, <2>12, SMT DEF turned
<1> QED BY <1>3, <1>4, Zenon DEF Protocols

\* What is felt of a band.
LEMMA CarriedIsFelt ==
  ASSUME NEW origin \in Protocols, NEW format \in Protocols, NEW band \in {"high", "low"},
         NEW sent \in Bands(origin, band), NEW k \in Nat \ {0}, NEW coded,
         Carried(origin, k, format, band, sent, coded)
  PROVE  /\ LET meant == Permille(origin, sent.amplitude)
                felt == Permille(format, coded.amplitude)
            IN  IF origin = SwitchPro
                THEN felt \in (meant - 3 * k)..meant /\ (felt = 0) = (meant = 0)
                ELSE /\ felt \in (meant - 12)..(meant + 12)
                     /\ felt = 0 => meant < 5
                     /\ meant = 0 => felt = 0
         /\ PitchKept(band, Hertz(origin, band, sent.frequency),
                      Hertz(format, band, coded.frequency))
<1> DEFINE meant == Permille(origin, sent.amplitude)
           felt == Permille(format, coded.amplitude)
           hz == Hertz(origin, band, sent.frequency)
           v == Hertz(format, band, coded.frequency)
<1>1. meant \in Nat /\ hz \in Nat
  BY MeantIsNat, Zenon
<1>2. Strong(origin, meant, k, format, coded.amplitude) /\ Pitched(band, hz, format, v)
  BY Zenon DEF Carried
<1> HIDE DEF meant, hz, v
<1>0. Switch2Pro # SwitchPro
  BY SMT DEF SwitchPro, Switch2Pro
<1>3. PitchKept(band, hz, v)
  BY <1>2, Zenon DEF Pitched
<1>4. /\ felt \in Nat
      /\ origin = SwitchPro => felt <= meant /\ felt >= meant - 3 * k /\ (felt = 0) = (meant = 0)
      /\ origin # SwitchPro => /\ felt <= meant + 12 /\ felt >= meant - 12
                               /\ felt = 0 => meant < 5
                               /\ meant = 0 => felt = 0
  <2>1. CASE format = SwitchPro
    <3>1. PICK level \in Levels :
            coded.amplitude = level /\ StaysStrong(origin, meant, level, k)
      BY <1>2, <2>1, Zenon DEF Strong
    <3>2. felt = PermilleOf(level)
      BY <2>1, <3>1, Zenon DEF Permille
    <3> HIDE DEF felt
    <3>3. k \in Nat
      OBVIOUS
    <3> QED BY <1>1, <3>1, <3>2, <3>3, StrongEnough, SMT DEF Protocols
  <2>2. CASE format = Switch2Pro
    <3>1. PICK level \in Levels :
            coded.amplitude = Level2(level) /\ StaysStrong(origin, meant, level, k - 1)
      BY <1>0, <1>2, <2>2, Zenon DEF Strong
    <3>2. felt = Felt2(level)
      BY <2>2, <3>1, Zenon DEF Felt2
    <3> HIDE DEF felt
    <3> DEFINE j == k - 1
    <3>3. j \in Nat /\ k = j + 1
      BY SMT
    <3> HIDE DEF j
    <3>4. StaysStrong(origin, meant, level, j)
      BY <3>1, Zenon DEF j
    <3>5. /\ felt \in Nat
          /\ origin = SwitchPro =>
               /\ felt <= meant
               /\ felt >= meant - 3 * (IF felt = PermilleOf(level) THEN j ELSE j + 1)
               /\ (felt = 0) = (meant = 0)
          /\ origin # SwitchPro =>
               /\ felt <= meant + 12 /\ felt >= meant - 12
               /\ felt = 0 => meant < 5
               /\ meant = 0 => felt = 0
      BY <1>1, <3>2, <3>3, <3>4, StrongEnough, SMT DEF Protocols
    <3> QED BY <1>1, <3>3, <3>5, SMT
  <2> QED BY <2>1, <2>2, Zenon DEF Protocols
<1> HIDE DEF felt
<1> SUFFICES IF origin = SwitchPro
             THEN felt \in (meant - 3 * k)..meant /\ (felt = 0) = (meant = 0)
             ELSE /\ felt \in (meant - 12)..(meant + 12)
                  /\ felt = 0 => meant < 5
                  /\ meant = 0 => felt = 0
  BY <1>3, Zenon DEF meant, felt, hz, v
<1> QED BY <1>1, <1>4, SMT

-----------------------------------------------------------------------------
(* The way back through the chain *)

\* The protocol the packet is in.
Format == IF bridges = 0 THEN pad.kind ELSE through[bridges]
\* The bridges it has passed that translated it.
Crossed == {bridge \in DOMAIN through : bridges < bridge /\ ~Native(bridge)}

\* Until a bridge has translated the packet is as written; then every band is on a
\* level and at a pitch that the host's came out at after so many translations.
OnItsWay ==
  /\ IsPacket(kind, written)
  /\ Crossed = {} => Format = kind /\ rumble = written
  /\ Crossed # {} =>
       \A part \in Parts : Carried(kind, Cardinality(Crossed), Format, part[2],
                                   written[part], rumble[part])

\* Inductive: where a packet is tells what may have become of it.
RumbleInv ==
  /\ TypeOK /\ Origin /\ pad \in Pads
  /\ bridges \in 0..Len(through)
  /\ rumble = NoRumble => bridges = 0
  /\ rumble # NoRumble => OnItsWay

\* The bands of a packet.
LEMMA PartsOf ==
  ASSUME NEW part \in Parts
  PROVE  part[2] \in {"high", "low"}
  BY DEF Parts

\* A packet is never taken for none.
LEMMA PacketIsRumble ==
  ASSUME NEW origin \in Protocols, NEW packet, IsPacket(origin, packet)
  PROVE  packet # NoRumble
<1> DEFINE part == <<"left", "high">>
<1>1. part \in Parts /\ part[2] = "high"
  BY DEF Parts
<1> HIDE DEF part
<1>2. packet[part] \in Bands(origin, "high")
  BY <1>1, Zenon DEF IsPacket
<1>3. packet[part].amplitude \in Nat
  <2>1. CASE origin = SwitchPro
    BY <1>2, <2>1, SMT DEF Bands
  <2>2. CASE origin = Switch2Pro
    <3>1. PICK n \in 0..1023 : packet[part].amplitude = 64 * n
      BY <1>2, <2>2, SMT DEF Bands, SwitchPro, Switch2Pro
    <3> QED BY <3>1, SMT
  <2> QED BY <2>1, <2>2, Zenon DEF Protocols
<1>4. NoRumble[part].amplitude = -1
  BY <1>1, SMT DEF NoRumble
<1> QED BY <1>3, <1>4, SMT

\* Nor is what became of one.
LEMMA CarriedIsRumble ==
  ASSUME NEW origin, NEW k, NEW format \in Protocols, NEW sent, NEW packet,
         \A part \in Parts : Carried(origin, k, format, part[2], sent[part], packet[part])
  PROVE  packet # NoRumble
<1> DEFINE part == <<"left", "high">>
<1>1. part \in Parts
  BY DEF Parts
<1> HIDE DEF part
<1>2. PICK level \in Levels : packet[part].amplitude = level \/ packet[part].amplitude = Level2(level)
  BY <1>1, Zenon DEF Carried, Strong
<1>3. packet[part].amplitude \in Nat
  <2>1. level \in Nat
    BY SMT DEF Levels
  <2>2. Level2(level) \in Nat
    BY LevelIn2, SMT
  <2> QED BY <1>2, <2>1, <2>2, Zenon
<1>4. NoRumble[part].amplitude = -1
  BY <1>1, SMT DEF NoRumble
<1> QED BY <1>3, <1>4, SMT

\* The host of the last bridge writes.
LEMMA HostStartsRumble ==
  ASSUME RumbleInv, HostRumbles
  PROVE  RumbleInv'
<1>1. PICK packet \in Rumbles(kind, pad) : rumble' = packet /\ written' = packet
  BY Zenon DEF HostRumbles
<1>2. /\ through # <<>> /\ bridges' = Len(through)
      /\ kind' = kind /\ report' = report /\ pad' = pad /\ through' = through
  BY Zenon DEF HostRumbles, vars
<1>3. kind \in {SwitchPro, Switch2Pro} /\ pad \in Pads /\ through \in Seq({SwitchPro, Switch2Pro})
  BY Zenon DEF RumbleInv, TypeOK
<1>4. IsPacket(kind, packet)
  BY <1>1, <1>3, RumblesAssumption, Zenon
<1>5. packet # NoRumble
  BY <1>3, <1>4, PacketIsRumble, Zenon DEF Protocols
<1>6. Len(through) \in Nat /\ Len(through) # 0 /\ DOMAIN through = 1..Len(through)
  BY <1>2, <1>3, SMT
<1>7. Crossed' = {}
  <2>1. \A bridge \in 1..Len(through) : ~(Len(through) < bridge)
    BY <1>6, SMT
  <2> QED BY <1>2, <1>6, <2>1, Zenon DEF Crossed
<1>8. Format' = kind
  BY <1>2, <1>6, Zenon DEF Format, RumbleInv, Origin
<1>9. OnItsWay'
  <2>1. IsPacket(kind, packet)'
    BY <1>2, <1>4, Zenon DEF IsPacket
  <2> QED BY <1>1, <1>2, <1>4, <1>7, <1>8, Zenon DEF OnItsWay
<1>10. TypeOK' /\ Origin' /\ pad' \in Pads
  BY <1>2, Zenon DEF RumbleInv, TypeOK, Origin
<1>11. bridges' \in 0..Len(through')
  BY <1>2, <1>6, SMT
<1> QED BY <1>1, <1>5, <1>9, <1>10, <1>11, Zenon DEF RumbleInv

\* A bridge passes the packet back.
LEMMA BridgeKeepsRumble ==
  ASSUME RumbleInv, PassesBack
  PROVE  RumbleInv'
<1>1. /\ bridges > 0 /\ bridges' = bridges - 1 /\ written' = written
      /\ kind' = kind /\ report' = report /\ pad' = pad /\ through' = through
      /\ rumble' = IF Native(bridges) THEN rumble ELSE Translated(through[bridges])
  BY Zenon DEF PassesBack, vars
<1>2. /\ kind \in Protocols /\ pad.kind \in Protocols /\ through \in Seq(Protocols)
      /\ bridges \in 0..Len(through)
  BY Zenon DEF RumbleInv, TypeOK, Protocols, Controllers
<1>3. /\ Len(through) \in Nat /\ DOMAIN through = 1..Len(through)
      /\ bridges \in Nat /\ bridges \in DOMAIN through /\ bridges # 0
      /\ \A i \in DOMAIN through : through[i] \in Protocols
  BY <1>1, <1>2, SMT
<1>4. bridges' \in 0..Len(through')
  BY <1>1, <1>3, SMT
<1>5. rumble # NoRumble /\ OnItsWay
  BY <1>3, Zenon DEF RumbleInv
<1>6. TypeOK' /\ Origin' /\ pad' \in Pads
  BY <1>1, Zenon DEF RumbleInv, TypeOK, Origin
<1>7. Format = through[bridges] /\ Format \in Protocols
  BY <1>3, Zenon DEF Format
<1>8. Format' = SourceOf(bridges) /\ Format' \in Protocols
  <2>1. CASE bridges = 1
    BY <1>1, <1>2, <2>1, SMT DEF Format, SourceOf
  <2>2. CASE bridges # 1
    <3>1. bridges - 1 # 0 /\ bridges - 1 \in DOMAIN through
      BY <1>3, <2>2, SMT
    <3> QED BY <1>1, <1>3, <2>2, <3>1, Zenon DEF Format, SourceOf
  <2> QED BY <2>1, <2>2
<1>9. \A bridge : SourceOf(bridge)' = SourceOf(bridge) /\ Native(bridge)' = Native(bridge)
  BY <1>1, Zenon DEF SourceOf, Native
<1>10. ASSUME NEW bridge \in DOMAIN through
       PROVE  (bridges' < bridge) <=> (bridges < bridge \/ bridge = bridges)
  BY <1>1, <1>3, SMT
<1>11. Crossed' = Crossed \cup (IF Native(bridges) THEN {} ELSE {bridges})
  <2>1. Crossed' = {bridge \in DOMAIN through : bridges' < bridge /\ ~Native(bridge)}
    BY <1>1, <1>9, Zenon DEF Crossed
  <2>2. \A bridge \in DOMAIN through :
          (bridges' < bridge) <=> (bridges < bridge \/ bridge = bridges)
    BY <1>10, Zenon
  <2> QED BY <1>3, <2>1, <2>2, Zenon DEF Crossed
<1>12. IsPacket(kind, written)'
  BY <1>1, <1>5, Zenon DEF OnItsWay, IsPacket
<1>13. CASE Native(bridges)
  <2>1. Crossed' = Crossed /\ Format' = Format /\ rumble' = rumble
    BY <1>1, <1>7, <1>8, <1>11, <1>13, Zenon DEF Native
  <2>2. OnItsWay'
    BY <1>1, <1>5, <1>12, <2>1, Zenon DEF OnItsWay
  <2> QED BY <1>4, <1>5, <1>6, <2>1, <2>2, Zenon DEF RumbleInv
<1>14. CASE ~Native(bridges)
  <2>1. Format' = Other(Format)
    BY <1>7, <1>8, <1>14, Zenon DEF Native, Other, Protocols
  <2>2. \A part \in Parts : rumble'[part] = Turned(Format, part[2], rumble[part])
    <3>1. rumble' = Translated(Format)
      BY <1>1, <1>7, <1>14, Zenon
    <3> QED BY <3>1, Zenon DEF Translated, Turned
  <2>3. /\ Crossed' = Crossed \cup {bridges} /\ bridges \notin Crossed
        /\ IsFiniteSet(Crossed) /\ Cardinality(Crossed) \in Nat
        /\ Cardinality(Crossed') = Cardinality(Crossed) + 1
    <3>1. Crossed' = Crossed \cup {bridges}
      BY <1>11, <1>14, Zenon
    <3>2. bridges \notin Crossed
      <4>1. ~(bridges < bridges)
        BY <1>3, SMT
      <4> QED BY <4>1, Zenon DEF Crossed
    <3>3. IsFiniteSet(Crossed)
      <4>1. IsFiniteSet(1..Len(through))
        BY <1>3, FS_Interval, SMT
      <4>2. Crossed \in SUBSET (1..Len(through))
        BY <1>3, Zenon DEF Crossed
      <4> QED BY <4>1, <4>2, FS_Subset, Zenon
    <3>4. Cardinality(Crossed \cup {bridges}) = Cardinality(Crossed) + 1
      BY <3>2, <3>3, FS_AddElement, Zenon
    <3> QED BY <3>1, <3>2, <3>3, <3>4, FS_CardinalityType, Zenon
  <2>4. ASSUME NEW part \in Parts
        PROVE  Carried(kind, Cardinality(Crossed) + 1, Other(Format), part[2], written[part],
                       Turned(Format, part[2], rumble[part]))
    <3>1. part[2] \in {"high", "low"}
      BY PartsOf
    <3>2. written[part] \in Bands(kind, part[2])
      BY <1>5, Zenon DEF OnItsWay, IsPacket
    <3>3. CASE Crossed = {}
      <4>1. Format = kind /\ rumble = written
        BY <1>5, <3>3, Zenon DEF OnItsWay
      <4>2. Cardinality(Crossed) + 1 = 1
        BY <3>3, FS_EmptySet, SMT
      <4>3. Carried(kind, 1, Other(kind), part[2], written[part],
                    Turned(kind, part[2], written[part]))
        BY <1>2, <3>1, <3>2, FirstTurn, Zenon
      <4> QED BY <4>1, <4>2, <4>3, Zenon
    <3>4. CASE Crossed # {}
      <4>1. Carried(kind, Cardinality(Crossed), Format, part[2], written[part], rumble[part])
        BY <1>5, <3>4, Zenon DEF OnItsWay
      <4>2. Cardinality(Crossed) \in Nat \ {0}
        BY <2>3, <3>4, FS_EmptySet, Zenon
      <4> QED BY <1>2, <1>7, <3>1, <3>2, <4>1, <4>2, NextTurn, Zenon
    <3> QED BY <3>3, <3>4
  <2>5. \A part \in Parts : Carried(kind, Cardinality(Crossed'), Format', part[2], written[part],
                                    rumble'[part])
    BY <2>1, <2>2, <2>3, <2>4, Zenon
  <2>6. OnItsWay'
    <3>1. Crossed' # {}
      BY <2>3, Zenon
    <3> QED BY <1>1, <1>12, <2>5, <3>1, Zenon DEF OnItsWay
  <2>7. rumble' # NoRumble
    BY <1>8, <2>5, CarriedIsRumble, Zenon
  <2> QED BY <1>4, <1>6, <2>6, <2>7, Zenon DEF RumbleInv
<1> QED BY <1>13, <1>14

\* A report changes nothing of a rumble: there is none.
LEMMA ReportKeepsRumble ==
  ASSUME RumbleInv, Shows
  PROVE  RumbleInv'
<1>1. /\ rumble = NoRumble /\ bridges = 0 /\ TypeOK /\ Origin /\ pad \in Pads
      /\ rumble' = rumble /\ bridges' = bridges /\ written' = written
  BY Zenon DEF Shows, RumbleInv
<1>2. Next
  BY Zenon DEF Shows
<1>3. CASE Arrived
  <2>1. kind' = kind /\ report' = report /\ pad' = pad /\ through' = through
    BY <1>3, Zenon DEF Arrived, vars
  <2> QED BY <1>1, <2>1, Zenon DEF RumbleInv, TypeOK, Origin
<1>4. ASSUME NEW to \in {SwitchPro, Switch2Pro}, Hop(to)
      PROVE  RumbleInv'
  <2>1. TypeOK'
    BY <1>1, <1>4, HopKeepsTypes, Zenon
  <2>2. through' = Append(through, to) /\ kind' = to /\ pad' = pad
    BY <1>4, Zenon DEF Hop
  <2>3. through \in Seq({SwitchPro, Switch2Pro})
    BY <1>1, Zenon DEF TypeOK
  <2>4. through' # <<>> /\ kind' = through'[Len(through')] /\ 0 \in 0..Len(through')
    BY <2>2, <2>3, SMT
  <2> QED BY <1>1, <2>1, <2>2, <2>4, Zenon DEF RumbleInv, Origin
<1> QED BY <1>2, <1>3, <1>4, Zenon DEF Next

\* Where the pad rumbles, the packet came through.
LEMMA FeltSurvives ==
  ASSUME RumbleInv
  PROVE  RumbleSurvives
<1> SUFFICES ASSUME Felt
             PROVE  IF Translations = 0 THEN rumble = written
                    ELSE \A part \in Parts :
                           /\ StrengthKept(Permille(kind, written[part].amplitude),
                                           Permille(pad.kind, rumble[part].amplitude))
                           /\ PitchKept(part[2], Hertz(kind, part[2], written[part].frequency),
                                        Hertz(pad.kind, part[2], rumble[part].frequency))
  BY Zenon DEF RumbleSurvives
<1>1. bridges = 0 /\ OnItsWay /\ kind \in Protocols /\ pad.kind \in Protocols
      /\ through \in Seq(Protocols)
  BY Zenon DEF Felt, RumbleInv, TypeOK, Protocols, Controllers
<1>2. Format = pad.kind
  BY <1>1, Zenon DEF Format
<1>3. Len(through) \in Nat /\ DOMAIN through = 1..Len(through)
      /\ \A bridge \in DOMAIN through : 0 < bridge
  BY <1>1, SMT
<1>4. Crossed = {bridge \in DOMAIN through : ~Native(bridge)}
  BY <1>1, <1>3, Zenon DEF Crossed
<1>5. Translations = Cardinality(Crossed)
  BY <1>4, Zenon DEF Translations
<1>6. IsFiniteSet(Crossed)
  <2>1. IsFiniteSet(1..Len(through))
    BY <1>3, FS_Interval, SMT
  <2>2. Crossed \in SUBSET (1..Len(through))
    BY <1>3, <1>4, Zenon
  <2> QED BY <2>1, <2>2, FS_Subset, Zenon
<1>7. Translations \in Nat /\ (Translations = 0) = (Crossed = {})
  BY <1>5, <1>6, FS_CardinalityType, FS_EmptySet, Zenon
<1>8. CASE Translations = 0
  BY <1>1, <1>7, <1>8, Zenon DEF OnItsWay
<1>9. CASE Translations # 0
  <2> SUFFICES ASSUME NEW part \in Parts
               PROVE  /\ StrengthKept(Permille(kind, written[part].amplitude),
                                      Permille(pad.kind, rumble[part].amplitude))
                      /\ PitchKept(part[2], Hertz(kind, part[2], written[part].frequency),
                                   Hertz(pad.kind, part[2], rumble[part].frequency))
    BY <1>9, Zenon
  <2>1. Translations \in Nat \ {0} /\ Crossed # {}
    BY <1>7, <1>9, Zenon
  <2>2. Carried(kind, Translations, pad.kind, part[2], written[part], rumble[part])
    BY <1>1, <1>2, <1>5, <2>1, Zenon DEF OnItsWay
  <2>3. part[2] \in {"high", "low"} /\ written[part] \in Bands(kind, part[2])
    BY <1>1, PartsOf, Zenon DEF OnItsWay, IsPacket
  <2> DEFINE meant == Permille(kind, written[part].amplitude)
             felt == Permille(pad.kind, rumble[part].amplitude)
  <2>4. /\ IF kind = SwitchPro
           THEN felt \in (meant - 3 * Translations)..meant /\ (felt = 0) = (meant = 0)
           ELSE /\ felt \in (meant - 12)..(meant + 12)
                /\ felt = 0 => meant < 5
                /\ meant = 0 => felt = 0
        /\ PitchKept(part[2], Hertz(kind, part[2], written[part].frequency),
                     Hertz(pad.kind, part[2], rumble[part].frequency))
    BY <1>1, <2>1, <2>2, <2>3, CarriedIsFelt, Zenon
  <2> QED BY <2>4, Zenon DEF StrengthKept
<1> QED BY <1>8, <1>9

\* Through chains of any length and any mixture of bridges, whatever a host writes,
\* every band of every motor keeps its strength and its pitch, and where all speak
\* one protocol the packet arrives as it was written.
THEOREM RumbleArrives == RumbleSpec => []RumbleSurvives
<1>1. RumbleInit => RumbleInv
  <2> SUFFICES ASSUME RumbleInit PROVE RumbleInv
    OBVIOUS
  <2>1. /\ pad \in Pads /\ kind = pad.kind /\ report = pad.report /\ through = <<>>
        /\ rumble = NoRumble /\ bridges = 0
    BY Zenon DEF RumbleInit, Init
  <2>2. TypeOK
    BY <2>1, PadsAssumption, SMT DEF TypeOK, Controllers
  <2>3. 0 \in 0..Len(through)
    BY <2>1, SMT
  <2> QED BY <2>1, <2>2, <2>3, Zenon DEF RumbleInv, Origin
<1>2. RumbleInv /\ [RumbleNext]_rumbleVars => RumbleInv'
  <2> SUFFICES ASSUME RumbleInv, [RumbleNext]_rumbleVars PROVE RumbleInv'
    OBVIOUS
  <2>1. CASE Shows
    BY <2>1, ReportKeepsRumble
  <2>2. CASE HostRumbles
    BY <2>2, HostStartsRumble
  <2>3. CASE PassesBack
    BY <2>3, BridgeKeepsRumble
  <2>4. CASE UNCHANGED rumbleVars
    <3>1. /\ kind' = kind /\ report' = report /\ pad' = pad /\ through' = through
          /\ rumble' = rumble /\ bridges' = bridges /\ written' = written
      BY <2>4, Zenon DEF rumbleVars, vars
    <3>2. \A bridge : SourceOf(bridge)' = SourceOf(bridge) /\ Native(bridge)' = Native(bridge)
      BY <3>1, Zenon DEF SourceOf, Native
    <3>3. Format' = Format /\ Crossed' = Crossed
      BY <3>1, <3>2, Zenon DEF Format, Crossed
    <3>4. OnItsWay' = OnItsWay
      BY <3>1, <3>3, Zenon DEF OnItsWay
    <3> QED BY <3>1, <3>4, Zenon DEF RumbleInv, TypeOK, Origin
  <2> QED BY <2>1, <2>2, <2>3, <2>4, Zenon DEF RumbleNext
<1> QED BY <1>1, <1>2, FeltSurvives, PTL DEF RumbleSpec

=================================================================================

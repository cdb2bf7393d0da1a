------------------------- MODULE MqttPacket_proofs --------------------------
(***************************************************************************)
(* The packets, for any messages a caller may pass, and their readers, for *)
(* any size of the buffer.                                                 *)
(***************************************************************************)
EXTENDS MqttPacket, SequenceTheorems, WellFoundedInduction, TLAPS

\* A sequence t occurs in s from a position on.
Holds(s, at, t) ==
  /\ at + Len(t) <= Len(s) + 1
  /\ \A i \in 1 .. Len(t) : s[(at + i) - 1] = t[i]

-----------------------------------------------------------------------------
(***************************************************************************)
(* Sequences.                                                              *)
(***************************************************************************)

LEMMA HoldsBehind ==
  ASSUME NEW S, NEW a \in Seq(S), NEW b \in Seq(S)
  PROVE  Holds(a \o b, Len(a) + 1, b) /\ Holds(a \o b, 1, a)
<1>1. Len(a) \in Nat /\ Len(b) \in Nat
  BY LenProperties
<1>2. /\ Len(a \o b) = Len(a) + Len(b)
      /\ \A i \in 1 .. Len(a) + Len(b) : (a \o b)[i] = IF i <= Len(a) THEN a[i] ELSE b[i - Len(a)]
  BY ConcatProperties
<1> QED
  BY <1>1, <1>2 DEF Holds

LEMMA HoldsParts ==
  ASSUME NEW S, NEW s \in Seq(S), NEW a \in Seq(S), NEW b \in Seq(S), NEW at \in Nat \ {0},
         Holds(s, at, a \o b)
  PROVE  Holds(s, at, a) /\ Holds(s, at + Len(a), b)
<1>1. Len(a) \in Nat /\ Len(b) \in Nat /\ Len(s) \in Nat
  BY LenProperties
<1>2. /\ Len(a \o b) = Len(a) + Len(b)
      /\ \A i \in 1 .. Len(a) + Len(b) : (a \o b)[i] = IF i <= Len(a) THEN a[i] ELSE b[i - Len(a)]
  BY ConcatProperties
<1>3. Holds(s, at, a)
  BY <1>1, <1>2 DEF Holds
<1>4. \A i \in 1 .. Len(b) : s[((at + Len(a)) + i) - 1] = b[i]
  <2> TAKE i \in 1 .. Len(b)
  <2>1. Len(a) + i \in 1 .. Len(a) + Len(b)
    BY <1>1
  <2>2. s[(at + (Len(a) + i)) - 1] = (a \o b)[Len(a) + i]
    BY <1>2, <2>1 DEF Holds
  <2>3. (a \o b)[Len(a) + i] = b[i]
    BY <1>1, <1>2, <2>1
  <2>4. (at + (Len(a) + i)) - 1 = ((at + Len(a)) + i) - 1
    BY <1>1
  <2> QED
    BY <2>2, <2>3, <2>4
<1> QED
  BY <1>1, <1>2, <1>3, <1>4 DEF Holds

LEMMA HoldsSub ==
  ASSUME NEW S, NEW s \in Seq(S), NEW t \in Seq(S), NEW at \in Nat \ {0}, Holds(s, at, t)
  PROVE  SubSeq(s, at, (at + Len(t)) - 1) = t
<1>1. Len(t) \in Nat /\ Len(s) \in Nat
  BY LenProperties
<1>2. \A i \in at .. (at + Len(t)) - 1 : s[i] \in S
  BY <1>1, ElementOfSeq DEF Holds
<1> DEFINE u == SubSeq(s, at, (at + Len(t)) - 1)
<1>3. /\ u \in Seq(S)
      /\ Len(u) = IF at <= (at + Len(t)) - 1 THEN ((at + Len(t)) - 1) - at + 1 ELSE 0
      /\ \A i \in 1 .. ((at + Len(t)) - 1) - at + 1 : u[i] = s[at + i - 1]
  BY <1>1, <1>2, SubSeqProperties
<1>4. Len(u) = Len(t)
  BY <1>1, <1>3
<1>5. \A i \in 1 .. Len(u) : u[i] = t[i]
  <2> TAKE i \in 1 .. Len(u)
  <2>1. i \in 1 .. ((at + Len(t)) - 1) - at + 1
    BY <1>1, <1>4
  <2>2. u[i] = s[at + i - 1]
    BY <1>3, <2>1
  <2>3. at + i - 1 = (at + i) - 1
    BY <1>1, <1>4
  <2> QED
    BY <1>1, <1>4, <2>2, <2>3 DEF Holds
<1> HIDE DEF u
<1>6. u = t
  BY <1>3, <1>4, <1>5, SeqEqual
<1> QED
  BY <1>6 DEF u

-----------------------------------------------------------------------------
(***************************************************************************)
(* Lengths: MQTTPacket_encode, unrolled, and MQTTPacket_decode of it.      *)
(***************************************************************************)

LEMMA Limits == LengthLimit = 268435456 /\ WordLimit = 65536
BY SMT DEF LengthLimit, WordLimit

Lengths == 0 .. LengthLimit - 1
LEMMA InLengths == \A n : n \in Lengths <=> n \in Nat /\ n < LengthLimit
<1>1. LengthLimit \in Nat
  BY SMT DEF LengthLimit
<1> QED
  BY <1>1, SMT DEF Lengths

LEMMA InWord == \A n : n \in Word <=> n \in Nat /\ n < WordLimit
<1>1. WordLimit \in Nat
  BY SMT DEF WordLimit
<1> QED
  BY <1>1, SMT DEF Word

LEMMA InByte == \A n : n \in Byte <=> n \in Nat /\ n < 256
BY SMT DEF Byte

Rest(n) == n \div 128
Low(n) == n % 128

LEMMA DigitFacts ==
  ASSUME NEW n \in Nat
  PROVE  Rest(n) \in Nat /\ Low(n) \in Nat /\ Low(n) < 128 /\ n = 128 * Rest(n) + Low(n)
BY DEF Rest, Low

Digits1(n) == <<n>>
Digits2(n) == <<128 + Low(n)>> \o Digits1(Rest(n))
Digits3(n) == <<128 + Low(n)>> \o Digits2(Rest(n))
Digits4(n) == <<128 + Low(n)>> \o Digits3(Rest(n))
Digits(n) == IF n < 128 THEN Digits1(n) ELSE IF n < 16384 THEN Digits2(n)
             ELSE IF n < 2097152 THEN Digits3(n) ELSE Digits4(n)

LEMMA DigitsUnroll ==
  ASSUME NEW n \in Lengths
  PROVE  /\ n >= 128 => Rest(n) \in Lengths
         /\ Digits(n) = IF n < 128 THEN <<n>> ELSE <<128 + Low(n)>> \o Digits(Rest(n))
<1>1. n \in Nat /\ n < 268435456
  BY Limits, InLengths, SMT
<1>2. Rest(n) \in Nat /\ Low(n) \in Nat /\ Low(n) < 128 /\ n = 128 * Rest(n) + Low(n)
  BY <1>1, DigitFacts, SMT
<1>3. CASE n < 128
  BY <1>1, <1>3, SMT DEF Digits, Digits1
<1>4. CASE n >= 128 /\ n < 16384
  <2>1. Rest(n) < 128
    BY <1>1, <1>2, <1>4, SMT
  <2>2. Digits(Rest(n)) = Digits1(Rest(n))
    BY <2>1, SMT DEF Digits
  <2> QED
    BY <1>1, <1>2, <1>4, <2>1, <2>2, Limits, InLengths, SMT DEF Digits, Digits2
<1>5. CASE n >= 16384 /\ n < 2097152
  <2>1. Rest(n) >= 128 /\ Rest(n) < 16384
    BY <1>1, <1>2, <1>5, SMT
  <2>2. Digits(Rest(n)) = Digits2(Rest(n))
    BY <1>2, <2>1, SMT DEF Digits
  <2> QED
    BY <1>1, <1>2, <1>5, <2>1, <2>2, Limits, InLengths, SMT DEF Digits, Digits3
<1>6. CASE n >= 2097152
  <2>1. Rest(n) >= 16384 /\ Rest(n) < 2097152
    BY <1>1, <1>2, <1>6, SMT
  <2>2. Digits(Rest(n)) = Digits3(Rest(n))
    BY <1>2, <2>1, SMT DEF Digits
  <2> QED
    BY <1>1, <1>2, <1>6, <2>1, <2>2, Limits, InLengths, SMT DEF Digits, Digits4
<1> QED
  BY <1>1, <1>3, <1>4, <1>5, <1>6, SMT

\* The loop that the code runs from the low end gives the digits.
LEMMA Encoded == \A n \in Lengths : MQTTPacket_encode[n] = Digits(n)
<1> DEFINE Unrolled(f) == [n \in 0 .. LengthLimit - 1 |->
                              IF n < 128 THEN <<n>> ELSE <<128 + (n % 128)>> \o f[n \div 128]]
           W == [n \in Lengths |-> Digits(n)]
<1>1. W = Unrolled(W)
  <2>1. \A n \in Lengths : Digits(n) = IF n < 128 THEN <<n>> ELSE <<128 + (n % 128)>> \o W[n \div 128]
    <3> TAKE n \in Lengths
    <3>1. n >= 128 => W[n \div 128] = Digits(Rest(n))
      BY DigitsUnroll, Zenon DEF Rest
    <3>2. n < 128 \/ n >= 128
      BY InLengths, SMT
    <3>3. Digits(n) = IF n < 128 THEN <<n>> ELSE <<128 + (n % 128)>> \o Digits(Rest(n))
      BY DigitsUnroll, Zenon DEF Low
    <3> QED
      BY <3>1, <3>2, <3>3, Zenon
  <2> QED
    BY <2>1, Zenon DEF Lengths
<1>2. MQTTPacket_encode = CHOOSE f : f = Unrolled(f)
  BY DEF MQTTPacket_encode
<1>3. MQTTPacket_encode = Unrolled(MQTTPacket_encode)
  <2> HIDE DEF W, Unrolled
  <2> QED BY <1>1, <1>2, Zenon
<1>4. \A n \in Lengths :
        MQTTPacket_encode[n] = IF n < 128 THEN <<n>> ELSE <<128 + Low(n)>> \o MQTTPacket_encode[Rest(n)]
  BY <1>3, Zenon DEF Lengths, Low, Rest
<1>5. ASSUME NEW n \in Lengths, n < 128 \/ MQTTPacket_encode[Rest(n)] = Digits(Rest(n))
      PROVE  MQTTPacket_encode[n] = Digits(n)
  BY <1>4, <1>5, DigitsUnroll, Zenon
<1>6. ASSUME NEW n \in Lengths PROVE n >= 128 => Rest(n) \in Lengths /\ n \in Nat /\ Rest(n) \in Nat
                                               /\ n = 128 * Rest(n) + Low(n) /\ Low(n) \in Nat /\ Low(n) < 128
  <2>1. n \in Nat
    BY InLengths
  <2>2. Rest(n) \in Nat /\ Low(n) \in Nat /\ Low(n) < 128 /\ n = 128 * Rest(n) + Low(n)
    BY <2>1, DigitFacts
  <2>3. n >= 128 => Rest(n) \in Lengths
    BY DigitsUnroll
  <2> QED BY <2>1, <2>2, <2>3, Zenon
<1>7. \A n \in Lengths : n < 16384 => MQTTPacket_encode[n] = Digits(n)
  <2> SUFFICES ASSUME NEW n \in Lengths, n < 16384 PROVE MQTTPacket_encode[n] = Digits(n)
    OBVIOUS
  <2>1. n < 128 \/ (Rest(n) \in Lengths /\ Rest(n) < 128)
    BY <1>6, InLengths, SMT
  <2>2. \A m \in Lengths : m < 128 => MQTTPacket_encode[m] = Digits(m)
    BY <1>5, SMT
  <2> QED BY <1>5, <2>1, <2>2, SMT
<1>8. \A n \in Lengths : n < 2097152 => MQTTPacket_encode[n] = Digits(n)
  <2> SUFFICES ASSUME NEW n \in Lengths, n < 2097152 PROVE MQTTPacket_encode[n] = Digits(n)
    BY SMT
  <2>1. n < 128 \/ (Rest(n) \in Lengths /\ Rest(n) < 16384)
    BY <1>6, InLengths, SMT
  <2> QED BY <1>5, <1>7, <2>1, SMT
<1> SUFFICES ASSUME NEW n \in Lengths PROVE MQTTPacket_encode[n] = Digits(n)
  OBVIOUS
<1>9. n < 128 \/ (Rest(n) \in Lengths /\ Rest(n) < 2097152)
  BY <1>6, InLengths, Limits, SMT
<1> QED BY <1>5, <1>8, <1>9, SMT

\* The value of the first k digits.
Weighed(e, k) == (e[k] % 128) * Multiplier[k]
Part(e, k) == IF k = 0 THEN 0 ELSE IF k = 1 THEN Weighed(e, 1)
              ELSE IF k = 2 THEN Weighed(e, 1) + Weighed(e, 2)
              ELSE IF k = 3 THEN (Weighed(e, 1) + Weighed(e, 2)) + Weighed(e, 3)
              ELSE ((Weighed(e, 1) + Weighed(e, 2)) + Weighed(e, 3)) + Weighed(e, 4)
WellFormed(e, n) ==
  /\ e \in Seq(Byte) /\ Len(e) >= 1 /\ Len(e) <= 4
  /\ \A k \in 1 .. Len(e) : e[k] \in Nat /\ (e[k] < 128 <=> k = Len(e))
  /\ Part(e, Len(e)) = n

LEMMA LowTwice ==
  ASSUME NEW n \in Nat
  PROVE  /\ (128 + Low(n)) % 128 = Low(n) /\ 128 + Low(n) \in Byte /\ 128 + Low(n) >= 128
         /\ n < 128 => n % 128 = n /\ n \in Byte
<1>1. Low(n) \in Nat /\ Low(n) < 128
  BY DigitFacts
<1>2. \A m \in Nat : m < 128 => (128 + m) % 128 = m /\ m % 128 = m
  BY SMT
<1>3. 128 + Low(n) \in Nat /\ 128 + Low(n) < 256 /\ 128 + Low(n) >= 128 /\ (n < 128 => n < 256)
  BY <1>1, SMT
<1>4. 128 + Low(n) \in Byte /\ (n < 128 => n \in Byte)
  BY <1>3, InByte, Zenon
<1>5. (128 + Low(n)) % 128 = Low(n) /\ (n < 128 => n % 128 = n)
  BY <1>1, <1>2, SMT
<1> QED
  BY <1>3, <1>4, <1>5, SMT

LEMMA DigitsOne == ASSUME NEW n \in Nat, n < 128 PROVE WellFormed(Digits1(n), n)
<1>1. n % 128 = n /\ n \in Byte
  BY LowTwice
<1> QED
  BY <1>1 DEF WellFormed, Digits1, Part, Weighed, Multiplier

LEMMA UpToFour ==
  \A k \in Nat : /\ ((k >= 1 /\ k <= 3) => (k = 1 \/ k = 2 \/ k = 3))
                /\ ((k >= 1 /\ k <= 4) => (k = 1 \/ k = 2 \/ k = 3 \/ k = 4))
OBVIOUS

\* One more digit at the low end.
LEMMA DigitsMore ==
  ASSUME NEW n \in Nat, NEW t, WellFormed(t, Rest(n)), Len(t) < 4
  PROVE  /\ WellFormed(<<128 + Low(n)>> \o t, n)
         /\ Len(<<128 + Low(n)>> \o t) = 1 + Len(t)
<1> DEFINE c == 128 + Low(n)
           e == <<c>> \o t
<1>1. Rest(n) \in Nat /\ Low(n) \in Nat /\ n = 128 * Rest(n) + Low(n)
  BY DigitFacts
<1>2. c % 128 = Low(n) /\ c \in Byte /\ c >= 128
  BY LowTwice
<1>3. /\ t \in Seq(Byte) /\ Len(t) \in Nat /\ Len(t) >= 1 /\ Len(t) <= 3 /\ Part(t, Len(t)) = Rest(n)
      /\ \A k \in 1 .. Len(t) : t[k] \in Nat /\ (t[k] < 128 <=> k = Len(t))
  <2>1. t \in Seq(Byte)
    BY DEF WellFormed
  <2>2. Len(t) \in Nat
    BY <2>1, LenProperties
  <2> QED
    BY <2>1, <2>2, SMT DEF WellFormed
<1> HIDE DEF c
<1>4. <<c>> \in Seq(Byte) /\ Len(<<c>>) = 1 /\ (<<c>>)[1] = c
  BY <1>2
<1>5. /\ e \in Seq(Byte) /\ Len(e) = 1 + Len(t)
      /\ \A i \in 1 .. 1 + Len(t) : e[i] = IF i <= 1 THEN (<<c>>)[i] ELSE t[i - 1]
  BY <1>3, <1>4, ConcatProperties
<1>6. e[1] = c /\ \A k \in 1 .. Len(t) : e[k + 1] = t[k]
  BY <1>3, <1>4, <1>5, SMT
<1> HIDE DEF e
<1>7. Multiplier[1] = 1 /\ Multiplier[2] = 128 /\ Multiplier[3] = 16384 /\ Multiplier[4] = 2097152
  BY SMT DEF Multiplier
<1>8. Part(e, Len(e)) = n
  <2>1. Weighed(e, 1) = Low(n)
    BY <1>1, <1>2, <1>6, <1>7, SMT DEF Weighed
  <2>2. ASSUME NEW k \in 1 .. Len(t) PROVE Weighed(t, k) \in Nat /\ Weighed(e, k + 1) = 128 * Weighed(t, k)
    <3>1. e[k + 1] = t[k] /\ t[k] \in Nat
      BY <1>3, <1>6
    <3>2. t[k] % 128 \in Nat
      BY <3>1, SMT
    <3>3. k = 1 \/ k = 2 \/ k = 3
      BY <1>3, SMT
    <3> QED BY <1>7, <3>1, <3>2, <3>3, SMT DEF Weighed
  <2>3. CASE Len(t) = 1
    <3>1. Weighed(e, 1 + 1) = 128 * Weighed(t, 1) /\ Weighed(t, 1) \in Nat /\ Len(e) = 2
      BY <1>5, <2>2, <2>3, SMT
    <3> QED BY <1>1, <1>3, <2>1, <2>3, <3>1, SMT DEF Part
  <2>4. CASE Len(t) = 2
    <3>1. /\ Weighed(e, 1 + 1) = 128 * Weighed(t, 1) /\ Weighed(t, 1) \in Nat
          /\ Weighed(e, 2 + 1) = 128 * Weighed(t, 2) /\ Weighed(t, 2) \in Nat /\ Len(e) = 3
      BY <1>5, <2>2, <2>4, SMT
    <3> QED BY <1>1, <1>3, <2>1, <2>4, <3>1, SMT DEF Part
  <2>5. CASE Len(t) = 3
    <3>1. /\ Weighed(e, 1 + 1) = 128 * Weighed(t, 1) /\ Weighed(t, 1) \in Nat
          /\ Weighed(e, 2 + 1) = 128 * Weighed(t, 2) /\ Weighed(t, 2) \in Nat
          /\ Weighed(e, 3 + 1) = 128 * Weighed(t, 3) /\ Weighed(t, 3) \in Nat /\ Len(e) = 4
      BY <1>5, <2>2, <2>5, SMT
    <3>2. Part(t, 3) = (Weighed(t, 1) + Weighed(t, 2)) + Weighed(t, 3)
      BY SMT DEF Part
    <3>3. Part(e, 4) = ((Weighed(e, 1) + Weighed(e, 2)) + Weighed(e, 3)) + Weighed(e, 4)
      BY SMT DEF Part
    <3>4. Part(t, 3) = Rest(n)
      BY <1>3, <2>5, Zenon
    <3>5. Part(e, 4) = n
      BY <1>1, <2>1, <3>1, <3>2, <3>3, <3>4, SMT
    <3> QED BY <3>1, <3>5, Zenon
  <2>6. Len(t) = 1 \/ Len(t) = 2 \/ Len(t) = 3
    <3>1. Len(t) \in Nat /\ Len(t) >= 1 /\ Len(t) <= 3
      BY <1>3, Zenon
    <3> QED BY <3>1, UpToFour
  <2> QED BY <2>3, <2>4, <2>5, <2>6, Zenon
<1>9. ASSUME NEW k \in 1 .. Len(e) PROVE e[k] \in Nat /\ (e[k] < 128 <=> k = Len(e))
  <2>1. CASE k = 1
    BY <1>2, <1>3, <1>5, <1>6, <2>1, InByte, SMT
  <2>2. CASE k > 1
    <3>1. k - 1 \in 1 .. Len(t) /\ e[(k - 1) + 1] = t[k - 1] /\ (k - 1) + 1 = k
      BY <1>3, <1>5, <1>6, <2>2, SMT
    <3> QED BY <1>3, <1>5, <3>1, SMT
  <2> QED BY <2>1, <2>2, SMT
<1>10. WellFormed(e, n) /\ Len(e) = 1 + Len(t)
  BY <1>3, <1>5, <1>8, <1>9, SMT DEF WellFormed
<1> QED
  BY <1>10 DEF e, c

\* A length is written in one to four bytes, of which only the last is below 128, and their
\* value is the length.
LEMMA DigitsWellFormed == \A n \in Lengths : WellFormed(Digits(n), n)
<1>0. ASSUME NEW n \in Lengths
      PROVE  /\ n >= 128 => Rest(n) \in Lengths
             /\ n < 16384 => Rest(n) < 128
             /\ n < 2097152 => Rest(n) < 16384
             /\ Rest(n) < 2097152
  <2>1. n \in Nat /\ n < LengthLimit
    BY InLengths
  <2>2. Rest(n) \in Nat /\ Low(n) \in Nat /\ n = 128 * Rest(n) + Low(n)
    BY <2>1, DigitFacts
  <2>3. n >= 128 => Rest(n) \in Lengths
    BY DigitsUnroll, Zenon
  <2>4. (n < 16384 => Rest(n) < 128) /\ (n < 2097152 => Rest(n) < 16384) /\ Rest(n) < 2097152
    BY <2>1, <2>2, Limits, SMT
  <2> QED BY <2>3, <2>4, SMT
<1>1. ASSUME NEW n \in Lengths, n >= 128 PROVE Digits(n) = <<128 + Low(n)>> \o Digits(Rest(n))
  <2>1. ~(n < 128)
    BY <1>1, InLengths, SMT
  <2> QED BY <2>1, DigitsUnroll, Zenon
<1> DEFINE Good(n, k) == WellFormed(Digits(n), n) /\ Len(Digits(n)) <= k
<1>2. ASSUME NEW n \in Lengths, n < 128 PROVE Good(n, 1)
  <2>1. n \in Nat
    BY InLengths
  <2>2. Digits(n) = Digits1(n) /\ Len(Digits1(n)) = 1
    BY <1>2, SMT DEF Digits, Digits1
  <2>3. WellFormed(Digits1(n), n)
    BY <1>2, <2>1, DigitsOne
  <2> QED BY <2>2, <2>3, SMT
<1>3. ASSUME NEW n \in Lengths, NEW k \in Nat, k <= 3, n >= 128, Good(Rest(n), k)
      PROVE  Good(n, k + 1)
  <2> DEFINE t == Digits(Rest(n))
  <2>1. WellFormed(t, Rest(n)) /\ Len(t) <= k
    BY <1>3
  <2> HIDE DEF t
  <2>2. Len(t) \in Nat
    BY <2>1, LenProperties DEF WellFormed
  <2>3. Len(t) < 4 /\ 1 + Len(t) <= k + 1
    BY <1>3, <2>1, <2>2, SMT
  <2>4. n \in Nat
    BY InLengths
  <2>5. WellFormed(<<128 + Low(n)>> \o t, n) /\ Len(<<128 + Low(n)>> \o t) = 1 + Len(t)
    BY <2>1, <2>3, <2>4, DigitsMore
  <2>6. Digits(n) = <<128 + Low(n)>> \o t
    BY <1>1, <1>3, SMT DEF t
  <2> QED BY <2>3, <2>5, <2>6, Zenon
<1>4. ASSUME NEW n \in Lengths, NEW k \in Nat, Good(n, k) PROVE Good(n, k + 1)
  <2>1. Len(Digits(n)) \in Nat /\ Len(Digits(n)) <= k
    BY <1>4, LenProperties DEF WellFormed
  <2>2. Len(Digits(n)) <= k + 1
    BY <2>1
  <2> QED BY <1>4, <2>2, Zenon
<1>5. ASSUME NEW n \in Lengths PROVE n < 128 \/ n >= 128
  BY InLengths, SMT
<1> HIDE DEF Good
<1>6. ASSUME NEW n \in Lengths, n < 16384 PROVE Good(n, 2)
  <2>1. CASE n < 128
    <3>1. Good(n, 1)
      BY <1>2, <2>1, SMT
    <3>2. Good(n, 1 + 1)
      BY <1>4, <3>1, SMT
    <3> QED BY <3>2
  <2>2. CASE n >= 128
    <3>1. Rest(n) \in Lengths /\ Rest(n) < 128
      BY <1>0, <1>6, <2>2, SMT
    <3>2. Good(Rest(n), 1)
      BY <1>2, <3>1
    <3>3. Good(n, 1 + 1)
      BY <1>3, <2>2, <3>2, SMT
    <3> QED BY <3>3
  <2> QED BY <1>5, <2>1, <2>2, Zenon
<1>7. ASSUME NEW n \in Lengths, n < 2097152 PROVE Good(n, 3)
  <2>1. CASE n < 128
    <3>1. Good(n, 1)
      BY <1>2, <2>1, SMT
    <3>2. Good(n, (1 + 1) + 1)
      BY <1>4, <3>1, SMT
    <3> QED BY <3>2, SMT
  <2>2. CASE n >= 128
    <3>1. Rest(n) \in Lengths /\ Rest(n) < 16384
      BY <1>0, <1>7, <2>2, SMT
    <3>2. Good(Rest(n), 2)
      BY <1>6, <3>1, SMT
    <3>3. Good(n, 2 + 1)
      BY <1>3, <2>2, <3>2, SMT
    <3> QED BY <3>3, SMT
  <2>3. n < 128 \/ n >= 128
    BY <1>5, SMT
  <2> QED BY <2>1, <2>2, <2>3, SMT
<1> SUFFICES ASSUME NEW n \in Lengths PROVE WellFormed(Digits(n), n)
  OBVIOUS
<1>8. CASE n < 128
  <2>1. Good(n, 1)
    BY <1>2, <1>8, SMT
  <2> QED BY <2>1, Zenon DEF Good
<1>9. CASE n >= 128
  <2>1. Rest(n) \in Lengths /\ Rest(n) < 2097152
    BY <1>0, <1>9, SMT
  <2>2. Good(Rest(n), 3)
    BY <1>7, <2>1, SMT
  <2>3. Good(n, 3 + 1)
    BY <1>3, <1>9, <2>2, SMT
  <2> QED BY <2>3, Zenon DEF Good
<1>10. n < 128 \/ n >= 128
  BY <1>5, SMT
<1> QED BY <1>8, <1>9, <1>10, Zenon

LEMMA Decoded ==
  ASSUME NEW s \in Seq(Byte), NEW n, NEW e, WellFormed(e, n), Holds(s, 2, e)
  PROVE  DecodeCount(s, 2) = Len(e) /\ DecodeValue(s, 2) = n
<1>1. /\ e \in Seq(Byte) /\ Len(e) \in Nat /\ Len(e) >= 1 /\ Len(e) <= 4 /\ Len(s) \in Nat
      /\ Part(e, Len(e)) = n
  <2>1. e \in Seq(Byte)
    BY DEF WellFormed
  <2>2. Len(e) \in Nat /\ Len(s) \in Nat
    BY <2>1, LenProperties
  <2> QED BY <2>1, <2>2, Zenon DEF WellFormed
<1>2. \A k \in 1 .. Len(e) : e[k] \in Nat /\ (e[k] < 128 <=> k = Len(e))
  BY DEF WellFormed
<1>3. \A k \in 1 .. Len(e) : ByteAt(s, 2 + k - 1) = e[k]
  <2> TAKE k \in 1 .. Len(e)
  <2>1. 2 + k - 1 = (2 + k) - 1 /\ (2 + k) - 1 <= Len(s)
    BY <1>1 DEF Holds
  <2>2. s[(2 + k) - 1] = e[k]
    BY DEF Holds
  <2> QED BY <2>1, <2>2, SMT DEF ByteAt
<1>4. DecodeCount(s, 2) = Len(e)
  <2> DEFINE last == {k \in 1 .. 4 : ByteAt(s, 2 + k - 1) < 128}
  <2>1. Len(e) \in last
    <3>0. \A m \in Nat : m >= 1 /\ m <= 4 => m \in 1 .. m /\ m \in 1 .. 4
      OBVIOUS
    <3>1. Len(e) \in 1 .. Len(e) /\ Len(e) \in 1 .. 4
      BY <1>1, <3>0, Zenon
    <3>2. ByteAt(s, 2 + Len(e) - 1) < 128
      BY <1>2, <1>3, <3>1, Zenon
    <3> QED BY <3>1, <3>2, Zenon
  <2>2. \A k \in last : Len(e) <= k /\ k \in Nat
    BY <1>1, <1>2, <1>3
  <2>3. DecodeCount(s, 2) = IF last = {} THEN 4 + 1 ELSE CHOOSE k \in last : \A other \in last : k <= other
    BY Zenon DEF DecodeCount, MAX_NO_OF_REMAINING_LENGTH_BYTES
  <2> HIDE DEF last
  <2> DEFINE c == CHOOSE k \in last : \A other \in last : k <= other
  <2>4. c \in last /\ \A other \in last : c <= other
    BY <2>1, <2>2, Zenon
  <2>5. DecodeCount(s, 2) = c
    BY <2>1, <2>3, Zenon
  <2> HIDE DEF c
  <2>6. c <= Len(e) /\ Len(e) <= c /\ c \in Nat
    BY <2>1, <2>2, <2>4, Zenon
  <2> QED BY <1>1, <2>5, <2>6
<1>5. DecodeValue(s, 2) = n
  <2> DEFINE digit(k) == IF k <= DecodeCount(s, 2) THEN (ByteAt(s, 2 + k - 1) % 128) * Multiplier[k] ELSE 0
  <2>1. DecodeValue(s, 2) = digit(1) + digit(2) + digit(3) + digit(4)
    BY Zenon DEF DecodeValue
  <2>2. ASSUME NEW k \in Nat, k >= 1, k <= Len(e) PROVE digit(k) = Weighed(e, k) /\ Weighed(e, k) \in Nat
    <3>1. digit(k) = (ByteAt(s, 2 + k - 1) % 128) * Multiplier[k]
      BY <1>4, <2>2, Zenon
    <3>2. k \in 1 .. Len(e)
      BY <1>1, <2>2
    <3>3. ByteAt(s, 2 + k - 1) = e[k] /\ e[k] \in Nat
      BY <1>2, <1>3, <3>2, Zenon
    <3>4. digit(k) = Weighed(e, k)
      BY <3>1, <3>3, Zenon DEF Weighed
    <3>5. Multiplier[k] \in Nat
      <4>1. k = 1 \/ k = 2 \/ k = 3 \/ k = 4
        BY <1>1, <2>2, SMT
      <4> QED BY <4>1, SMT DEF Multiplier
    <3>6. e[k] % 128 \in Nat
      BY <3>3, SMT
    <3>7. Weighed(e, k) \in Nat
      BY <3>5, <3>6, SMT DEF Weighed
    <3> QED BY <3>4, <3>7, Zenon
  <2>3. ASSUME NEW k \in Nat, k > Len(e) PROVE digit(k) = 0
    BY <1>1, <1>4, <2>3, SMT
  <2> HIDE DEF digit
  <2>4. CASE Len(e) = 1
    <3>1. digit(1) = Weighed(e, 1) /\ Weighed(e, 1) \in Nat /\ digit(2) = 0 /\ digit(3) = 0 /\ digit(4) = 0
      BY <2>2, <2>3, <2>4, SMT
    <3>2. Part(e, 1) = Weighed(e, 1) /\ Part(e, 1) = n
      BY <1>1, <2>4, SMT DEF Part
    <3> QED BY <2>1, <3>1, <3>2, SMT
  <2>5. CASE Len(e) = 2
    <3>1. /\ digit(1) = Weighed(e, 1) /\ Weighed(e, 1) \in Nat /\ digit(2) = Weighed(e, 2) /\ Weighed(e, 2) \in Nat
          /\ digit(3) = 0 /\ digit(4) = 0
      BY <2>2, <2>3, <2>5, SMT
    <3>2. Part(e, 2) = Weighed(e, 1) + Weighed(e, 2) /\ Part(e, 2) = n
      BY <1>1, <2>5, SMT DEF Part
    <3> QED BY <2>1, <3>1, <3>2, SMT
  <2>6. CASE Len(e) = 3
    <3>1. /\ digit(1) = Weighed(e, 1) /\ Weighed(e, 1) \in Nat /\ digit(2) = Weighed(e, 2) /\ Weighed(e, 2) \in Nat
          /\ digit(3) = Weighed(e, 3) /\ Weighed(e, 3) \in Nat /\ digit(4) = 0
      BY <2>2, <2>3, <2>6, SMT
    <3>2. Part(e, 3) = (Weighed(e, 1) + Weighed(e, 2)) + Weighed(e, 3) /\ Part(e, 3) = n
      BY <1>1, <2>6, SMT DEF Part
    <3> QED BY <2>1, <3>1, <3>2, SMT
  <2>7. CASE Len(e) = 4
    <3>1. /\ digit(1) = Weighed(e, 1) /\ Weighed(e, 1) \in Nat /\ digit(2) = Weighed(e, 2) /\ Weighed(e, 2) \in Nat
          /\ digit(3) = Weighed(e, 3) /\ Weighed(e, 3) \in Nat /\ digit(4) = Weighed(e, 4) /\ Weighed(e, 4) \in Nat
      BY <2>2, <2>7, SMT
    <3>2. Part(e, 4) = ((Weighed(e, 1) + Weighed(e, 2)) + Weighed(e, 3)) + Weighed(e, 4) /\ Part(e, 4) = n
      BY <1>1, <2>7, SMT DEF Part
    <3> QED BY <2>1, <3>1, <3>2, SMT
  <2>8. Len(e) = 1 \/ Len(e) = 2 \/ Len(e) = 3 \/ Len(e) = 4
    BY <1>1, UpToFour
  <2> QED BY <2>4, <2>5, <2>6, <2>7, <2>8, Zenon
<1> QED BY <1>4, <1>5, Zenon

-----------------------------------------------------------------------------
(***************************************************************************)
(* Integers and strings.                                                   *)
(***************************************************************************)

LEMMA Joined ==
  ASSUME NEW a \in Seq(Byte), NEW b \in Seq(Byte)
  PROVE  a \o b \in Seq(Byte) /\ Len(a \o b) = Len(a) + Len(b) /\ Len(a) \in Nat /\ Len(b) \in Nat
<1>1. a \o b \in Seq(Byte) /\ Len(a \o b) = Len(a) + Len(b)
  BY ConcatProperties
<1>2. Len(a) \in Nat /\ Len(b) \in Nat
  BY LenProperties
<1> QED BY <1>1, <1>2, Zenon

LEMMA HeldByte ==
  ASSUME NEW s \in Seq(Byte), NEW t \in Seq(Byte), NEW at \in Nat \ {0}, Holds(s, at, t),
         NEW i \in Nat, i >= 1, i <= Len(t)
  PROVE  ByteAt(s, (at + i) - 1) = t[i] /\ (at + i) - 1 <= Len(s) /\ s[(at + i) - 1] = t[i]
<1>1. Len(s) \in Nat /\ Len(t) \in Nat
  BY LenProperties
<1>2. at + Len(t) <= Len(s) + 1
  BY DEF Holds
<1>3. i \in 1 .. Len(t) /\ (at + i) - 1 <= Len(s)
  BY <1>1, <1>2
<1>4. s[(at + i) - 1] = t[i]
  BY <1>3, Zenon DEF Holds
<1> QED BY <1>3, <1>4, Zenon DEF ByteAt

LEMMA WrittenInt ==
  ASSUME NEW n \in Word
  PROVE  /\ writeInt(n) \in Seq(Byte) /\ Len(writeInt(n)) = 2
         /\ writeInt(n)[1] \in Nat /\ writeInt(n)[2] \in Nat
         /\ 256 * writeInt(n)[1] + writeInt(n)[2] = n
<1>1. n \in Nat /\ n < 65536
  BY InWord, Limits, SMT
<1> DEFINE a == (n \div 256) % 256
           b == n % 256
<1>2. a \in Nat /\ a < 256 /\ b \in Nat /\ b < 256 /\ 256 * a + b = n
  BY <1>1, SMT
<1>3. writeInt(n) = <<a, b>>
  BY DEF writeInt
<1> HIDE DEF a, b
<1>4. a \in Byte /\ b \in Byte
  BY <1>2, InByte, Zenon
<1>5. <<a, b>> \in Seq(Byte) /\ Len(<<a, b>>) = 2 /\ (<<a, b>>)[1] = a /\ (<<a, b>>)[2] = b
  BY <1>4
<1> HIDE DEF a, b
<1> QED BY <1>2, <1>3, <1>5, Zenon

LEMMA ReadInt ==
  ASSUME NEW s \in Seq(Byte), NEW at \in Nat \ {0}, NEW n \in Word, Holds(s, at, writeInt(n))
  PROVE  readInt(s, at) = n
<1> DEFINE w == writeInt(n)
<1>1. w \in Seq(Byte) /\ Len(w) = 2 /\ 256 * w[1] + w[2] = n
  BY WrittenInt, Zenon
<1> HIDE DEF w
<1>2. Holds(s, at, w)
  BY DEF w
<1>3. 1 <= Len(w) /\ 2 <= Len(w) /\ 1 >= 1 /\ 2 >= 1
  BY <1>1
<1>4. ByteAt(s, (at + 1) - 1) = w[1]
  BY <1>1, <1>2, <1>3, HeldByte
<1>5. ByteAt(s, (at + 2) - 1) = w[2]
  BY <1>1, <1>2, <1>3, HeldByte
<1>6. (at + 1) - 1 = at /\ (at + 2) - 1 = at + 1
  OBVIOUS
<1>7. ByteAt(s, at) = w[1] /\ ByteAt(s, at + 1) = w[2]
  BY <1>4, <1>5, <1>6, Zenon
<1> QED BY <1>1, <1>7, Zenon DEF readInt

LEMMA StringFacts ==
  ASSUME NEW str \in Strings
  PROVE  /\ Text(str) \in Seq(Byte) /\ Len(Text(str)) \in Word /\ Len(Text(str)) \in Nat
         /\ MQTTstrlen(str) = Len(Text(str)) /\ (~Present(str) => Text(str) = <<>>)
         /\ writeMQTTString(str) \in Seq(Byte) /\ Len(writeMQTTString(str)) = 2 + Len(Text(str))
<1>1. /\ str.cstring \in SUBSET Seq(Byte) /\ str.lenstring \in Seq(Byte)
      /\ str.cstring = {} \/ (str.lenstring = <<>> /\ \E c \in str.cstring : str.cstring = {c})
      /\ Len(Text(str)) \in Word
  BY Zenon DEF Strings
<1>2. Text(str) \in Seq(Byte) /\ MQTTstrlen(str) = Len(Text(str)) /\ (~Present(str) => Text(str) = <<>>)
  <2>1. CASE str.cstring = {}
    <3>1. Text(str) = str.lenstring /\ MQTTstrlen(str) = Len(str.lenstring)
      BY <2>1, Zenon DEF Text, MQTTstrlen
    <3>2. ~Present(str) => ~(Len(str.lenstring) > 0)
      BY Zenon DEF Present
    <3>3. ~(Len(str.lenstring) > 0) => str.lenstring = <<>>
      BY <1>1, EmptySeq, LenProperties
    <3> QED BY <1>1, <3>1, <3>2, <3>3, Zenon
  <2>2. CASE str.cstring # {}
    <3>1. str.lenstring = <<>>
      BY <1>1, <2>2, Zenon
    <3>2. ~(Len(str.lenstring) > 0)
      BY <3>1
    <3>3. (CHOOSE c \in str.cstring : TRUE) \in str.cstring
      BY <2>2, Zenon
    <3>4. Text(str) = CHOOSE c \in str.cstring : TRUE
      BY <2>2, <3>2, Zenon DEF Text
    <3>5. MQTTstrlen(str) = Len(CHOOSE c \in str.cstring : TRUE)
      BY <2>2, Zenon DEF MQTTstrlen
    <3>6. Present(str)
      BY <2>2, Zenon DEF Present
    <3> QED BY <1>1, <3>3, <3>4, <3>5, <3>6, Zenon
  <2> QED BY <2>1, <2>2, Zenon
<1> DEFINE t == Text(str)
<1>3. t \in Seq(Byte) /\ Len(t) \in Word
  BY <1>1, <1>2, Zenon
<1> HIDE DEF t
<1>4. Len(t) \in Nat
  BY <1>3, InWord, Zenon
<1>5. writeInt(Len(t)) \in Seq(Byte) /\ Len(writeInt(Len(t))) = 2
  BY <1>3, WrittenInt, Zenon
<1>6. writeInt(Len(t)) \o t \in Seq(Byte) /\ Len(writeInt(Len(t)) \o t) = 2 + Len(t)
  BY <1>3, <1>5, Joined, Zenon
<1>7. writeMQTTString(str) = writeInt(Len(t)) \o t
  BY Zenon DEF writeMQTTString, t
<1> QED BY <1>1, <1>2, <1>4, <1>6, <1>7, Zenon DEF t

LEMMA ReadText ==
  ASSUME NEW s \in Seq(Byte), NEW at \in Nat \ {0}, NEW t \in Seq(Byte), Len(t) \in Word, Holds(s, at, writeInt(Len(t)) \o t),
         NEW end \in Nat, (at + 2) + Len(t) <= end
  PROVE  readMQTTLenString(s, at, end) = [ok |-> TRUE, at |-> (at + 2) + Len(t), text |-> t]
<1>1. t \in Seq(Byte) /\ Len(t) \in Word /\ Len(t) \in Nat
  BY InWord, Zenon
<1>2. Holds(s, at, writeInt(Len(t)) \o t)
  OBVIOUS
<1>3. (at + 2) + Len(t) <= end
  OBVIOUS
<1>4. writeInt(Len(t)) \in Seq(Byte) /\ Len(writeInt(Len(t))) = 2
  BY <1>1, WrittenInt, Zenon
<1>5. Holds(s, at, writeInt(Len(t))) /\ Holds(s, at + 2, t)
  BY <1>1, <1>2, <1>4, HoldsParts
<1>6. readInt(s, at) = Len(t)
  BY <1>1, <1>5, ReadInt
<1>7. at + 2 \in Nat \ {0} /\ ((at + 2) + Len(t)) - 1 = (at + 1) + Len(t) /\ end - at > 1
  BY <1>1, <1>3
<1>8. SubSeq(s, at + 2, ((at + 2) + Len(t)) - 1) = t
  BY <1>1, <1>5, <1>7, HoldsSub, Zenon
<1>9. SubSeq(s, at + 2, at + 1 + Len(t)) = t
  BY <1>7, <1>8, Zenon
<1> DEFINE len == readInt(s, at)
<1>10. end - at > 1
  BY <1>7, Zenon
<1>11. at + 2 + len <= end
  BY <1>3, <1>6, Zenon
<1>12. readMQTTLenString(s, at, end)
        = [ok |-> TRUE, at |-> at + 2 + len, text |-> SubSeq(s, at + 2, at + 1 + len)]
  BY <1>10, <1>11, Zenon DEF readMQTTLenString
<1> HIDE DEF len
<1>13. len = Len(t)
  BY <1>6, Zenon DEF len
<1> QED BY <1>9, <1>12, <1>13, Zenon

LEMMA ReadString ==
  ASSUME NEW s \in Seq(Byte), NEW at \in Nat \ {0}, NEW str \in Strings, Holds(s, at, writeMQTTString(str)),
         NEW end \in Nat, (at + 2) + Len(Text(str)) <= end
  PROVE  readMQTTLenString(s, at, end) = [ok |-> TRUE, at |-> (at + 2) + Len(Text(str)), text |-> Text(str)]
<1> DEFINE t == Text(str)
<1>1. t \in Seq(Byte) /\ Len(t) \in Word
  BY StringFacts, Zenon
<1>2. Holds(s, at, writeInt(Len(t)) \o t) /\ (at + 2) + Len(t) <= end
  BY Zenon DEF writeMQTTString
<1> HIDE DEF t
<1>3. readMQTTLenString(s, at, end) = [ok |-> TRUE, at |-> (at + 2) + Len(t), text |-> t]
  BY <1>1, <1>2, ReadText, Zenon
<1> QED BY <1>3, Zenon DEF t

-----------------------------------------------------------------------------
(***************************************************************************)
(* Loops: induction over the rounds, with the claim as a Boolean function, *)
(* and what a loop has computed after each round.                          *)
(***************************************************************************)

LEMMA Induct ==
  ASSUME NEW N \in Nat, NEW P, P[0], \A k \in 1 .. N : P[k - 1] => P[k]
  PROVE  \A k \in 0 .. N : P[k]
<1> SUFFICES ASSUME NEW c \in 0 .. N, ~P[c] PROVE FALSE
  OBVIOUS
<1> DEFINE R == OpToRel(<, Nat)
           Bad == {k \in 0 .. N : ~P[k]}
<1>1. IsWellFoundedOn(R, Nat)
  BY NatLessThanWellFounded DEF OpToRel
<1>2. PICK n \in Bad : \A m \in Bad : ~(<<m, n>> \in R)
  <2>1. Bad # {} /\ Bad \subseteq Nat
    OBVIOUS
  <2> HIDE DEF R, Bad
  <2> QED BY <1>1, <2>1, WFMin
<1>3. n # 0 /\ n \in Nat /\ n \in 1 .. N
  OBVIOUS
<1>4. n - 1 \in Bad
  BY <1>3
<1>5. <<n - 1, n>> \in R
  BY <1>3 DEF OpToRel
<1> QED BY <1>2, <1>4, <1>5

\* A loop of N rounds over the values in V has a result after every round.
LoopOf(f, v, N, step) == f[0] = v /\ \A k \in 1 .. N : f[k] = step[<<f[k - 1], k>>]
LEMMA Iterated ==
  ASSUME NEW V, NEW v \in V, NEW N \in Nat, NEW step \in [V \X (1 .. N) -> V]
  PROVE  \E f \in [0 .. N -> V] : LoopOf(f, v, N, step)
<1> DEFINE Upto(n, f) == f[0] = v /\ \A k \in 1 .. n : f[k] = step[<<f[k - 1], k>>]
           P == [n \in 0 .. N |-> \E f \in [0 .. n -> V] : Upto(n, f)]
<1>1. P[0]
  <2> DEFINE f == [k \in 0 .. 0 |-> v]
  <2>1. f \in [0 .. 0 -> V] /\ f[0] = v
    OBVIOUS
  <2>2. Upto(0, f)
    BY <2>1
  <2>3. 0 \in 0 .. N
    OBVIOUS
  <2> HIDE DEF f, Upto
  <2>4. \E g \in [0 .. 0 -> V] : Upto(0, g)
    BY <2>1, <2>2, Zenon
  <2> QED BY <2>3, <2>4, Zenon
<1>2. ASSUME NEW n \in 1 .. N, P[n - 1] PROVE P[n]
  <2>1. n - 1 \in 0 .. N /\ n \in 0 .. N /\ n \in Nat /\ n >= 1
    OBVIOUS
  <2>2. PICK f \in [0 .. n - 1 -> V] : Upto(n - 1, f)
    <3> HIDE DEF Upto
    <3> QED BY <1>2, <2>1, Zenon
  <2> DEFINE g == [k \in 0 .. n |-> IF k = n THEN step[<<f[n - 1], n>>] ELSE f[k]]
  <2>3. f[n - 1] \in V /\ <<f[n - 1], n>> \in V \X (1 .. N)
    BY <2>1
  <2>4. step[<<f[n - 1], n>>] \in V
    BY <2>3
  <2>5. \A k \in 0 .. n : k # n => k \in 0 .. n - 1
    BY <2>1
  <2>6. g \in [0 .. n -> V]
    BY <2>4, <2>5
  <2>7. g[n] = step[<<f[n - 1], n>>] /\ \A k \in 0 .. n - 1 : g[k] = f[k]
    BY <2>1
  <2> HIDE DEF g
  <2>8. g[0] = v
    BY <2>1, <2>2, <2>7
  <2>9. ASSUME NEW k \in 1 .. n PROVE g[k] = step[<<g[k - 1], k>>]
    <3>1. CASE k = n
      BY <2>1, <2>7, <3>1
    <3>2. CASE k # n
      <4>1. k \in 1 .. n - 1 /\ k \in 0 .. n - 1 /\ k - 1 \in 0 .. n - 1
        BY <2>1, <3>2
      <4> QED BY <2>2, <2>7, <4>1, Zenon
    <3> QED BY <3>1, <3>2
  <2>10. \E h \in [0 .. n -> V] : Upto(n, h)
    BY <2>6, <2>8, <2>9, Zenon
  <2> HIDE DEF Upto
  <2> QED BY <2>1, <2>10, Zenon
<1> HIDE DEF P
<1>3. P[N]
  <2>1. \A k \in 0 .. N : P[k]
    BY <1>1, <1>2, Induct
  <2> QED BY <2>1
<1>4. N \in 0 .. N
  OBVIOUS
<1> QED BY <1>3, <1>4, Zenon DEF P, LoopOf

FilterLists == Seq([topic : Strings, qos : Byte])

LEMMA FilterFacts ==
  ASSUME NEW list \in FilterLists
  PROVE  /\ Len(list) \in Nat
         /\ \A k \in 1 .. Len(list) : list[k].topic \in Strings /\ list[k].qos \in Byte
<1>1. Len(list) \in Nat
  BY LenProperties DEF FilterLists
<1>2. \A k \in 1 .. Len(list) : list[k] \in [topic : Strings, qos : Byte]
  BY ElementOfSeq DEF FilterLists
<1> QED BY <1>1, <1>2, Zenon

\* The loop of the length calculations.
LEMMA SumLoop ==
  ASSUME NEW list \in FilterLists, NEW extra \in Nat
  PROVE  \E sum : /\ sum[0] = 0
                  /\ \A k \in 1 .. Len(list) : sum[k] = sum[k - 1] + 2 + MQTTstrlen(list[k].topic) + extra
                  /\ SumStrlen(list, extra) = sum[Len(list)]
<1> DEFINE N == Len(list)
           Add(x, k) == x + 2 + MQTTstrlen(list[k].topic) + extra
           Unrolled(f) == [k \in 0 .. N |-> IF k = 0 THEN 0 ELSE f[k - 1] + 2 + MQTTstrlen(list[k].topic) + extra]
           step == [p \in Nat \X (1 .. N) |-> Add(p[1], p[2])]
           h == CHOOSE f : f = Unrolled(f)
<1>1. N \in Nat /\ \A k \in 1 .. N : MQTTstrlen(list[k].topic) \in Nat
  BY FilterFacts, StringFacts, Zenon
<1>2. SumStrlen(list, extra) = h[N]
  BY Zenon DEF SumStrlen
<1> HIDE DEF N
<1>3. step \in [Nat \X (1 .. N) -> Nat] /\ \A x \in Nat : \A k \in 1 .. N : step[<<x, k>>] = Add(x, k)
  <2>1. ASSUME NEW x \in Nat, NEW k \in 1 .. N PROVE Add(x, k) \in Nat
    BY <1>1
  <2> HIDE DEF Add
  <2>2. \A p \in Nat \X (1 .. N) : Add(p[1], p[2]) \in Nat
    BY <2>1
  <2> QED BY <2>2
<1> HIDE DEF step
<1>4. PICK f \in [0 .. N -> Nat] : f[0] = 0 /\ \A k \in 1 .. N : f[k] = step[<<f[k - 1], k>>]
  <2>1. \E f \in [0 .. N -> Nat] : f[0] = 0 /\ \A k \in 1 .. N : f[k] = step[<<f[k - 1], k>>]
    <3>1. 0 \in Nat /\ N \in Nat /\ step \in [Nat \X (1 .. N) -> Nat]
      BY <1>1, <1>3, SMT
    <3>2. \E f \in [0 .. N -> Nat] : LoopOf(f, 0, N, step)
      BY <3>1, Iterated, Zenon
    <3> QED BY <3>2, Zenon DEF LoopOf
  <2> QED BY <2>1, Zenon
<1>5. \A k \in 1 .. N : f[k] = Add(f[k - 1], k)
  <2> TAKE k \in 1 .. N
  <2>1. k - 1 \in 0 .. N
    BY <1>1
  <2> QED BY <1>3, <1>4, <2>1, Zenon
<1>6. f = Unrolled(f)
  <2>1. \A k \in 0 .. N : k = 0 \/ k \in 1 .. N
    BY <1>1
  <2> QED BY <1>4, <1>5, <2>1, SMT
<1>7. h = Unrolled(h)
  <2> HIDE DEF Unrolled
  <2> QED BY <1>6, Zenon
<1> HIDE DEF h
<1>8. h[0] = 0 /\ \A k \in 1 .. N : h[k] = Add(h[k - 1], k)
  <2>1. 0 \in 0 .. N /\ \A k \in 1 .. N : k \in 0 .. N /\ k # 0
    BY <1>1
  <2> QED BY <1>7, <2>1, Zenon
<1> QED BY <1>2, <1>8, Zenon DEF N

\* The loop that writes the filters.
Filter(f, withQos) == writeMQTTString(f.topic) \o WriteIf(withQos, <<f.qos>>)

LEMMA FilterWritten ==
  ASSUME NEW f, f.topic \in Strings, f.qos \in Byte, NEW withQos \in BOOLEAN
  PROVE  /\ writeMQTTString(f.topic) \in Seq(Byte) /\ WriteIf(withQos, <<f.qos>>) \in Seq(Byte)
         /\ Len(writeMQTTString(f.topic)) = 2 + MQTTstrlen(f.topic) /\ MQTTstrlen(f.topic) \in Nat
         /\ Filter(f, withQos) \in Seq(Byte)
         /\ Len(Filter(f, withQos)) = (2 + MQTTstrlen(f.topic)) + Bit(withQos)
<1> DEFINE a == writeMQTTString(f.topic)
           b == WriteIf(withQos, <<f.qos>>)
<1>1. a \in Seq(Byte) /\ Len(a) = 2 + MQTTstrlen(f.topic) /\ MQTTstrlen(f.topic) \in Nat
  BY StringFacts, Zenon
<1>2. b \in Seq(Byte) /\ Len(b) = Bit(withQos)
  <2>1. <<f.qos>> \in Seq(Byte) /\ Len(<<f.qos>>) = 1 /\ <<>> \in Seq(Byte) /\ Len(<<>>) = 0
    BY EmptySeq
  <2>2. CASE withQos
    <3>1. b = <<f.qos>> /\ Bit(withQos) = 1
      BY <2>2 DEF WriteIf, Bit
    <3> HIDE DEF b
    <3> QED BY <2>1, <3>1, Zenon
  <2>3. CASE ~withQos
    <3>1. b = <<>> /\ Bit(withQos) = 0
      BY <2>3 DEF WriteIf, Bit
    <3> HIDE DEF b
    <3> QED BY <2>1, <3>1, Zenon
  <2> QED BY <2>2, <2>3, Zenon
<1>3. a \o b \in Seq(Byte) /\ Len(a \o b) = Len(a) + Len(b)
  BY <1>1, <1>2, Joined, Zenon
<1> HIDE DEF a, b
<1>4. Filter(f, withQos) \in Seq(Byte) /\ Len(Filter(f, withQos)) = (2 + MQTTstrlen(f.topic)) + Bit(withQos)
  BY <1>1, <1>2, <1>3, Zenon DEF Filter, a, b
<1> QED BY <1>1, <1>2, <1>4, Zenon DEF a, b

LEMMA WriteLoop ==
  ASSUME NEW list \in FilterLists, NEW withQos \in BOOLEAN
  PROVE  \E written : /\ written[0] = <<>>
                      /\ \A k \in 0 .. Len(list) : written[k] \in Seq(Byte)
                      /\ \A k \in 1 .. Len(list) : written[k] = written[k - 1] \o Filter(list[k], withQos)
                      /\ WriteFilters(list, withQos) = written[Len(list)]
<1> DEFINE N == Len(list)
           Unrolled(f) == [k \in 0 .. N |-> IF k = 0 THEN <<>> ELSE f[k - 1] \o
                                  (writeMQTTString(list[k].topic) \o WriteIf(withQos, <<list[k].qos>>))]
           step == [p \in Seq(Byte) \X (1 .. N) |-> p[1] \o Filter(list[p[2]], withQos)]
           h == CHOOSE f : f = Unrolled(f)
<1>1. N \in Nat /\ \A k \in 1 .. N : Filter(list[k], withQos) \in Seq(Byte)
  BY FilterFacts, FilterWritten, Zenon
<1>2. WriteFilters(list, withQos) = h[N]
  BY Zenon DEF WriteFilters
<1> HIDE DEF N
<1>3. /\ step \in [Seq(Byte) \X (1 .. N) -> Seq(Byte)]
      /\ \A x \in Seq(Byte) : \A k \in 1 .. N : step[<<x, k>>] = x \o Filter(list[k], withQos)
  <2>1. ASSUME NEW x \in Seq(Byte), NEW k \in 1 .. N PROVE x \o Filter(list[k], withQos) \in Seq(Byte)
    BY <1>1, Joined, Zenon
  <2> DEFINE App(x, k) == x \o Filter(list[k], withQos)
  <2>2. ASSUME NEW x \in Seq(Byte), NEW k \in 1 .. N PROVE App(x, k) \in Seq(Byte)
    BY <2>1, Zenon
  <2>3. step = [p \in Seq(Byte) \X (1 .. N) |-> App(p[1], p[2])]
    BY Zenon
  <2> HIDE DEF App, step
  <2>4. \A p \in Seq(Byte) \X (1 .. N) : App(p[1], p[2]) \in Seq(Byte)
    BY <2>2
  <2>5. step \in [Seq(Byte) \X (1 .. N) -> Seq(Byte)] /\ \A x \in Seq(Byte) : \A k \in 1 .. N : step[<<x, k>>] = App(x, k)
    BY <2>3, <2>4
  <2> QED BY <2>5, Zenon DEF App
<1> HIDE DEF step
<1>4. PICK f \in [0 .. N -> Seq(Byte)] : LoopOf(f, <<>>, N, step)
  <2>1. <<>> \in Seq(Byte) /\ N \in Nat /\ step \in [Seq(Byte) \X (1 .. N) -> Seq(Byte)]
    BY <1>1, <1>3, EmptySeq, Zenon
  <2>2. \E f \in [0 .. N -> Seq(Byte)] : LoopOf(f, <<>>, N, step)
    BY <2>1, Iterated, Zenon
  <2> QED BY <2>2, Zenon
<1>5. f[0] = <<>> /\ \A k \in 1 .. N : f[k] = f[k - 1] \o Filter(list[k], withQos)
  <2>1. f[0] = <<>> /\ \A k \in 1 .. N : f[k] = step[<<f[k - 1], k>>]
    BY <1>4, Zenon DEF LoopOf
  <2>2. ASSUME NEW k \in 1 .. N PROVE f[k] = f[k - 1] \o Filter(list[k], withQos)
    <3>1. k - 1 \in 0 .. N
      BY <1>1
    <3> QED BY <1>3, <1>4, <2>1, <3>1, Zenon
  <2> QED BY <2>1, <2>2, Zenon
<1>6. f = Unrolled(f)
  <2>1. \A k \in 0 .. N : k = 0 \/ k \in 1 .. N
    BY <1>1
  <2>2. f = [k \in 0 .. N |-> f[k]]
    BY <1>4
  <2>3. \A k \in 0 .. N : f[k] = IF k = 0 THEN <<>> ELSE f[k - 1] \o
                                  (writeMQTTString(list[k].topic) \o WriteIf(withQos, <<list[k].qos>>))
    BY <1>5, <2>1, Zenon DEF Filter
  <2> QED BY <2>2, <2>3, Zenon
<1>7. h = Unrolled(h)
  <2> HIDE DEF Unrolled
  <2> QED BY <1>6, Zenon
<1> HIDE DEF h
<1>8. h[0] = <<>> /\ \A k \in 1 .. N : h[k] = h[k - 1] \o Filter(list[k], withQos)
  <2>1. 0 \in 0 .. N /\ \A k \in 1 .. N : k \in 0 .. N /\ k # 0
    BY <1>1
  <2> QED BY <1>7, <2>1, Zenon DEF Filter
<1>9. \A k \in 0 .. N : h[k] \in Seq(Byte)
  <2> DEFINE P == [k \in 0 .. N |-> h[k] \in Seq(Byte)]
  <2>1. P[0]
    <3>1. 0 \in 0 .. N /\ <<>> \in Seq(Byte)
      BY <1>1, EmptySeq
    <3> QED BY <1>8, <3>1, Zenon
  <2>2. ASSUME NEW k \in 1 .. N, P[k - 1] PROVE P[k]
    <3>1. k - 1 \in 0 .. N /\ k \in 0 .. N
      BY <1>1
    <3>2. h[k - 1] \in Seq(Byte)
      BY <2>2, <3>1, Zenon
    <3>3. h[k] \in Seq(Byte)
      BY <1>1, <1>8, <3>2, Joined, Zenon
    <3> QED BY <3>1, <3>3, Zenon
  <2> HIDE DEF P
  <2>3. \A k \in 0 .. N : P[k]
    BY <1>1, <2>1, <2>2, Induct, Zenon
  <2> QED BY <2>3, Zenon DEF P
<1> QED BY <1>2, <1>8, <1>9, Zenon DEF N

\* Both loops agree.
LEMMA FiltersLength ==
  ASSUME NEW list \in FilterLists, NEW withQos \in BOOLEAN
  PROVE  /\ WriteFilters(list, withQos) \in Seq(Byte) /\ SumStrlen(list, Bit(withQos)) \in Nat
         /\ Len(WriteFilters(list, withQos)) = SumStrlen(list, Bit(withQos))
<1> DEFINE N == Len(list)
           extra == Bit(withQos)
<1>1. extra \in Nat
  BY DEF Bit
<1>2. PICK written : /\ written[0] = <<>>
                     /\ \A k \in 0 .. N : written[k] \in Seq(Byte)
                     /\ \A k \in 1 .. N : written[k] = written[k - 1] \o Filter(list[k], withQos)
                     /\ WriteFilters(list, withQos) = written[N]
  BY WriteLoop, Zenon
<1> HIDE DEF extra
<1>3. PICK sum : /\ sum[0] = 0
                 /\ \A k \in 1 .. N : sum[k] = sum[k - 1] + 2 + MQTTstrlen(list[k].topic) + extra
                 /\ SumStrlen(list, extra) = sum[N]
  BY <1>1, SumLoop, Zenon
<1>4. /\ N \in Nat
      /\ \A k \in 1 .. N : /\ Filter(list[k], withQos) \in Seq(Byte) /\ MQTTstrlen(list[k].topic) \in Nat
                           /\ Len(Filter(list[k], withQos)) = (2 + MQTTstrlen(list[k].topic)) + extra
  BY FilterFacts, FilterWritten, Zenon DEF extra
<1> HIDE DEF N
<1> DEFINE P == [k \in 0 .. N |-> Len(written[k]) = sum[k]]
<1>5. P[0]
  <2>1. 0 \in 0 .. N /\ Len(<<>>) = 0
    BY <1>4
  <2> QED BY <1>2, <1>3, <2>1, Zenon
<1>6. ASSUME NEW k \in 1 .. N, P[k - 1] PROVE P[k]
  <2>1. k - 1 \in 0 .. N /\ k \in 0 .. N
    BY <1>4
  <2>2. Len(written[k - 1]) = sum[k - 1]
    BY <1>6, <2>1, Zenon
  <2>3. /\ Len(written[k]) = Len(written[k - 1]) + Len(Filter(list[k], withQos))
        /\ Len(written[k - 1]) \in Nat
    BY <1>2, <1>4, <2>1, Joined, Zenon
  <2> DEFINE a == sum[k - 1]
             b == MQTTstrlen(list[k].topic)
  <2>4. Len(written[k]) = a + ((2 + b) + extra) /\ a \in Nat /\ b \in Nat /\ sum[k] = a + 2 + b + extra
    BY <1>3, <1>4, <2>2, <2>3, Zenon
  <2> HIDE DEF a, b
  <2>5. Len(written[k]) = sum[k]
    BY <1>1, <2>4
  <2> QED BY <2>1, <2>5, Zenon
<1> HIDE DEF P
<1>7. \A k \in 0 .. N : P[k]
  BY <1>4, <1>5, <1>6, Induct, Zenon
<1>8. N \in 0 .. N
  BY <1>4
<1>9. Len(written[N]) = sum[N] /\ written[N] \in Seq(Byte)
  BY <1>2, <1>7, <1>8, Zenon DEF P
<1>10. Len(written[N]) \in Nat
  BY <1>9, LenProperties, Zenon
<1> QED BY <1>2, <1>3, <1>9, <1>10, Zenon DEF extra

-----------------------------------------------------------------------------
(***************************************************************************)
(* Bodies: each is as long as its serialiser computed.                     *)
(***************************************************************************)

LEMMA Written ==
  ASSUME NEW cond \in BOOLEAN, NEW t \in Seq(Byte)
  PROVE  WriteIf(cond, t) \in Seq(Byte) /\ Len(WriteIf(cond, t)) = Optional(cond, Len(t)) /\ Len(t) \in Nat
<1>1. Len(t) \in Nat /\ <<>> \in Seq(Byte) /\ Len(<<>>) = 0
  BY LenProperties, EmptySeq
<1>2. CASE cond
  <2>1. WriteIf(cond, t) = t /\ Optional(cond, Len(t)) = Len(t)
    BY <1>2 DEF WriteIf, Optional
  <2> QED BY <1>1, <2>1, Zenon
<1>3. CASE ~cond
  <2>1. WriteIf(cond, t) = <<>> /\ Optional(cond, Len(t)) = 0
    BY <1>3 DEF WriteIf, Optional
  <2> QED BY <1>1, <2>1, Zenon
<1> QED BY <1>2, <1>3, Zenon

LEMMA Small ==
  /\ <<>> \in Seq(Byte) /\ Len(<<>>) = 0
  /\ \A b \in Byte : <<b>> \in Seq(Byte) /\ Len(<<b>>) = 1
  /\ \A b, c \in Byte : <<b, c>> \in Seq(Byte) /\ Len(<<b, c>>) = 2
BY EmptySeq

\* The parts of a CONNECT.
ProtocolPart(o) == IF o.version = 4 THEN writeInt(4) \o ProtocolMQTT \o <<4>> ELSE writeInt(6) \o ProtocolMQIsdp \o <<3>>
WillPart(o) == WriteIf(o.willFlag, writeMQTTString(o.willTopic) \o writeMQTTString(o.willMessage))
NamePart(o) == WriteIf(Present(o.username), writeMQTTString(o.username))
PasswordPart(o) == WriteIf(Present(o.password), writeMQTTString(o.password))
Connected(o) ==
  ((((((ProtocolPart(o) \o <<ConnectFlags(o)>>) \o writeInt(o.keepAlive)) \o writeMQTTString(o.clientID))
      \o WillPart(o)) \o NamePart(o)) \o PasswordPart(o))

LEMMA ConnectIs == \A o : MQTTSerialize_connect(o) = Connected(o)
BY Zenon DEF MQTTSerialize_connect, Connected, ProtocolPart, WillPart, NamePart, PasswordPart

LEMMA BitFacts == \A b \in BOOLEAN : Bit(b) \in {0, 1} /\ (Bit(b) = 1 <=> b)
BY DEF Bit

LEMMA FlagsWritten ==
  ASSUME NEW o, IsConnect(o), NEW f, f = ConnectFlags(o)
  PROVE  /\ f \in Byte
         /\ ((f \div 2) % 2 = 1 <=> o.cleansession) /\ ((f \div 4) % 2 = 1 <=> o.willFlag)
         /\ (f \div 8) % 4 = Optional(o.willFlag, o.willQoS)
         /\ ((f \div 32) % 2 = 1 <=> (o.willFlag /\ o.willRetain))
         /\ ((f \div 64) % 2 = 1 <=> Present(o.password)) /\ ((f \div 128) % 2 = 1 <=> Present(o.username))
<1> DEFINE a == Bit(o.cleansession)
           b == Bit(o.willFlag)
           q == Optional(o.willFlag, o.willQoS)
           r == Bit(o.willFlag /\ o.willRetain)
           p == Bit(Present(o.password))
           u == Bit(Present(o.username))
           w == Optional(o.willFlag, 4 + 8 * o.willQoS + 32 * Bit(o.willRetain))
<1>1. o.cleansession \in BOOLEAN /\ o.willFlag \in BOOLEAN /\ o.willRetain \in BOOLEAN /\ o.willQoS \in 0 .. 3
  BY Zenon DEF IsConnect
<1>2. Present(o.password) \in BOOLEAN /\ Present(o.username) \in BOOLEAN /\ (o.willFlag /\ o.willRetain) \in BOOLEAN
  BY Zenon DEF Present
<1>3. /\ a \in {0, 1} /\ b \in {0, 1} /\ r \in {0, 1} /\ p \in {0, 1} /\ u \in {0, 1}
      /\ (a = 1 <=> o.cleansession) /\ (b = 1 <=> o.willFlag) /\ (r = 1 <=> (o.willFlag /\ o.willRetain))
      /\ (p = 1 <=> Present(o.password)) /\ (u = 1 <=> Present(o.username))
  BY <1>1, <1>2, BitFacts, Zenon
<1>4. q \in {0, 1, 2, 3} /\ w = ((4 * b + 8 * q) + 32 * r)
  <2>1. CASE o.willFlag
    <3>1. q = o.willQoS /\ b = 1 /\ r = Bit(o.willRetain) /\ w = 4 + 8 * o.willQoS + 32 * Bit(o.willRetain)
      <4>1. r = Bit(o.willRetain)
        BY <1>1, <2>1 DEF Bit
      <4> QED BY <2>1, <4>1 DEF Optional, Bit
    <3>2. o.willQoS \in {0, 1, 2, 3} /\ Bit(o.willRetain) \in {0, 1}
      BY <1>1 DEF Bit
    <3> HIDE DEF q, b, r, w
    <3> QED BY <3>1, <3>2
  <2>2. CASE ~o.willFlag
    <3>1. q = 0 /\ b = 0 /\ r = 0 /\ w = 0
      BY <2>2 DEF Optional, Bit
    <3> HIDE DEF q, b, r, w
    <3> QED BY <3>1
  <2> QED BY <1>1, <2>1, <2>2, Zenon
<1>5. f = ((2 * a + w) + 64 * p) + 128 * u
  BY DEF ConnectFlags
<1> HIDE DEF a, b, q, r, p, u, w
<1>6. f = ((2 * a + ((4 * b + 8 * q) + 32 * r)) + 64 * p) + 128 * u
  BY <1>4, <1>5, Zenon
<1>7. /\ f \in Nat /\ f < 256
      /\ (f \div 2) % 2 = a /\ (f \div 4) % 2 = b /\ (f \div 8) % 4 = q
      /\ (f \div 32) % 2 = r /\ (f \div 64) % 2 = p /\ (f \div 128) % 2 = u
  <2>1. a \in {0, 1} /\ b \in {0, 1} /\ q \in {0, 1, 2, 3} /\ r \in {0, 1} /\ p \in {0, 1} /\ u \in {0, 1}
    BY <1>3, <1>4, Zenon
  <2>2. f \in Nat /\ f < 256
    BY <1>6, <2>1, SMT
  <2>3. (f \div 2) % 2 = a /\ (f \div 4) % 2 = b /\ (f \div 8) % 4 = q
    BY <1>6, <2>1, SMT
  <2>4. (f \div 32) % 2 = r /\ (f \div 64) % 2 = p /\ (f \div 128) % 2 = u
    BY <1>6, <2>1, SMT
  <2> QED BY <2>2, <2>3, <2>4, Zenon
<1>8. f \in Byte
  BY <1>7, InByte, Zenon
<1>9. /\ ((f \div 2) % 2 = 1 <=> o.cleansession) /\ ((f \div 4) % 2 = 1 <=> o.willFlag)
      /\ ((f \div 32) % 2 = 1 <=> (o.willFlag /\ o.willRetain))
      /\ ((f \div 64) % 2 = 1 <=> Present(o.password)) /\ ((f \div 128) % 2 = 1 <=> Present(o.username))
  BY <1>3, <1>7
<1>10. (f \div 8) % 4 = Optional(o.willFlag, o.willQoS)
  BY <1>7, Zenon DEF q
<1> QED BY <1>8, <1>9, <1>10, Zenon

ProtocolLen(o) == IF o.version = 4 THEN 7 ELSE 9
LEMMA ProtocolWritten ==
  ASSUME NEW o, IsConnect(o)
  PROVE  /\ 3 \in Word /\ 4 \in Word /\ 6 \in Word /\ ProtocolMQTT \in Seq(Byte) /\ ProtocolMQIsdp \in Seq(Byte)
         /\ Len(ProtocolMQTT) = 4 /\ Len(ProtocolMQIsdp) = 6 /\ <<o.version>> \in Seq(Byte) /\ Len(<<o.version>>) = 1
         /\ ProtocolPart(o) \in Seq(Byte)
         /\ Len(ProtocolPart(o)) = ProtocolLen(o)
<1>1. 3 \in Word /\ 4 \in Word /\ 6 \in Word
  <2>1. 3 < WordLimit /\ 4 < WordLimit /\ 6 < WordLimit
    BY SMT DEF WordLimit
  <2>2. 3 \in Nat /\ 4 \in Nat /\ 6 \in Nat
    OBVIOUS
  <2> QED BY <2>1, <2>2, InWord, Zenon
<1>2. 77 \in Byte /\ 81 \in Byte /\ 84 \in Byte /\ 73 \in Byte /\ 115 \in Byte /\ 100 \in Byte /\ 112 \in Byte /\ 3 \in Byte /\ 4 \in Byte
  BY InByte, SMT
<1>3. ProtocolMQTT \in Seq(Byte) /\ ProtocolMQIsdp \in Seq(Byte) /\ Len(ProtocolMQTT) = 4 /\ Len(ProtocolMQIsdp) = 6
  BY <1>2 DEF ProtocolMQTT, ProtocolMQIsdp
<1>4. <<3>> \in Seq(Byte) /\ <<4>> \in Seq(Byte) /\ Len(<<3>>) = 1 /\ Len(<<4>>) = 1
  BY <1>2
<1>5. writeInt(4) \in Seq(Byte) /\ Len(writeInt(4)) = 2 /\ writeInt(6) \in Seq(Byte) /\ Len(writeInt(6)) = 2
  BY <1>1, WrittenInt, Zenon
<1>6. writeInt(4) \o ProtocolMQTT \in Seq(Byte) /\ Len(writeInt(4) \o ProtocolMQTT) = 2 + 4
  BY <1>3, <1>5, Joined, Zenon
<1>7. writeInt(6) \o ProtocolMQIsdp \in Seq(Byte) /\ Len(writeInt(6) \o ProtocolMQIsdp) = 2 + 6
  BY <1>3, <1>5, Joined, Zenon
<1>8. CASE o.version = 4
  <2>1. ProtocolPart(o) = (writeInt(4) \o ProtocolMQTT) \o <<4>>
    BY <1>8, Zenon DEF ProtocolPart
  <2>2. ProtocolPart(o) \in Seq(Byte) /\ Len(ProtocolPart(o)) = (2 + 4) + 1
    BY <1>4, <1>6, <2>1, Joined, Zenon
  <2>3. Len(ProtocolPart(o)) = ProtocolLen(o)
    BY <1>8, <2>2, SMT DEF ProtocolLen
  <2> QED BY <1>1, <1>3, <1>4, <1>8, <2>2, <2>3, Zenon
<1>9. CASE o.version # 4
  <2>0. o.version = 3
    BY <1>9, Zenon DEF IsConnect
  <2>1. ProtocolPart(o) = (writeInt(6) \o ProtocolMQIsdp) \o <<3>>
    BY <1>9, Zenon DEF ProtocolPart
  <2>2. ProtocolPart(o) \in Seq(Byte) /\ Len(ProtocolPart(o)) = (2 + 6) + 1
    BY <1>4, <1>7, <2>1, Joined, Zenon
  <2>3. Len(ProtocolPart(o)) = ProtocolLen(o)
    BY <1>9, <2>2, SMT DEF ProtocolLen
  <2> QED BY <1>1, <1>3, <1>4, <1>9, <2>0, <2>2, <2>3, Zenon
<1> QED BY <1>8, <1>9, Zenon

\* What the parts add to the length.
WillLen(o) == Optional(o.willFlag, (2 + Len(Text(o.willTopic))) + (2 + Len(Text(o.willMessage))))
NameLen(o) == Optional(Present(o.username), 2 + Len(Text(o.username)))
PasswordLen(o) == Optional(Present(o.password), 2 + Len(Text(o.password)))

LEMMA ConnectTypes ==
  ASSUME NEW o, IsConnect(o)
  PROVE  /\ o.version \in {3, 4} /\ o.keepAlive \in Word /\ o.willFlag \in BOOLEAN
         /\ o.clientID \in Strings /\ o.willTopic \in Strings /\ o.willMessage \in Strings
         /\ o.username \in Strings /\ o.password \in Strings
         /\ Present(o.username) \in BOOLEAN /\ Present(o.password) \in BOOLEAN
         /\ (Present(o.username) => Text(o.username) # <<>>) /\ (Present(o.password) => Text(o.password) # <<>>)
         /\ (Present(o.password) => Present(o.username))
<1>1. {o.cleansession, o.willFlag, o.willRetain} \subseteq BOOLEAN
  BY Zenon DEF IsConnect
<1>2. {o.clientID, o.willTopic, o.willMessage, o.username, o.password} \subseteq Strings
  BY Zenon DEF IsConnect
<1>3. \A str \in {o.username, o.password} : Present(str) => Text(str) # <<>>
  BY Zenon DEF IsConnect
<1>4. o.version \in {3, 4} /\ o.keepAlive \in Word /\ (Present(o.password) => Present(o.username))
  BY Zenon DEF IsConnect
<1>5. Present(o.username) \in BOOLEAN /\ Present(o.password) \in BOOLEAN
  BY Zenon DEF Present
<1> QED BY <1>1, <1>2, <1>3, <1>4, <1>5, Zenon

LEMMA ConnectParts ==
  ASSUME NEW o, IsConnect(o)
  PROVE  /\ ProtocolPart(o) \in Seq(Byte) /\ Len(ProtocolPart(o)) = ProtocolLen(o)
         /\ <<ConnectFlags(o)>> \in Seq(Byte) /\ Len(<<ConnectFlags(o)>>) = 1
         /\ writeInt(o.keepAlive) \in Seq(Byte) /\ Len(writeInt(o.keepAlive)) = 2
         /\ writeMQTTString(o.clientID) \in Seq(Byte)
         /\ Len(writeMQTTString(o.clientID)) = 2 + Len(Text(o.clientID)) /\ Len(Text(o.clientID)) \in Nat
         /\ WillPart(o) \in Seq(Byte) /\ Len(WillPart(o)) = WillLen(o)
         /\ NamePart(o) \in Seq(Byte) /\ Len(NamePart(o)) = NameLen(o)
         /\ PasswordPart(o) \in Seq(Byte) /\ Len(PasswordPart(o)) = PasswordLen(o)
<1>1. ProtocolPart(o) \in Seq(Byte) /\ Len(ProtocolPart(o)) = ProtocolLen(o)
  BY ProtocolWritten, Zenon
<1>2. <<ConnectFlags(o)>> \in Seq(Byte) /\ Len(<<ConnectFlags(o)>>) = 1
  BY FlagsWritten, Small, Zenon
<1>3. writeInt(o.keepAlive) \in Seq(Byte) /\ Len(writeInt(o.keepAlive)) = 2
  BY ConnectTypes, WrittenInt, Zenon
<1>4. \A str \in Strings : /\ writeMQTTString(str) \in Seq(Byte)
                           /\ Len(writeMQTTString(str)) = 2 + Len(Text(str)) /\ Len(Text(str)) \in Nat
  BY StringFacts, Zenon
<1>5. WillPart(o) \in Seq(Byte) /\ Len(WillPart(o)) = WillLen(o)
  <2> DEFINE w == writeMQTTString(o.willTopic) \o writeMQTTString(o.willMessage)
  <2>1. w \in Seq(Byte) /\ Len(w) = (2 + Len(Text(o.willTopic))) + (2 + Len(Text(o.willMessage)))
    <3>1. o.willTopic \in Strings /\ o.willMessage \in Strings
      BY ConnectTypes, Zenon
    <3>2. /\ writeMQTTString(o.willTopic) \in Seq(Byte) /\ writeMQTTString(o.willMessage) \in Seq(Byte)
          /\ Len(writeMQTTString(o.willTopic)) = 2 + Len(Text(o.willTopic))
          /\ Len(writeMQTTString(o.willMessage)) = 2 + Len(Text(o.willMessage))
      BY <1>4, <3>1, Zenon
    <3> QED BY <3>2, Joined, Zenon
  <2> HIDE DEF w
  <2>2. WillPart(o) = WriteIf(o.willFlag, w)
    BY Zenon DEF WillPart, w
  <2>3. WriteIf(o.willFlag, w) \in Seq(Byte) /\ Len(WriteIf(o.willFlag, w)) = Optional(o.willFlag, Len(w))
    BY <2>1, ConnectTypes, Written, Zenon
  <2> QED BY <2>1, <2>2, <2>3, Zenon DEF WillLen
<1>6. NamePart(o) \in Seq(Byte) /\ Len(NamePart(o)) = NameLen(o)
  <2> DEFINE w == writeMQTTString(o.username)
  <2>1. w \in Seq(Byte) /\ Len(w) = 2 + Len(Text(o.username))
    BY <1>4, ConnectTypes, Zenon
  <2> HIDE DEF w
  <2>2. NamePart(o) = WriteIf(Present(o.username), w)
    BY Zenon DEF NamePart, w
  <2>3. WriteIf(Present(o.username), w) \in Seq(Byte) /\ Len(WriteIf(Present(o.username), w)) = Optional(Present(o.username), Len(w))
    BY <2>1, ConnectTypes, Written, Zenon
  <2> QED BY <2>1, <2>2, <2>3, Zenon DEF NameLen
<1>7. PasswordPart(o) \in Seq(Byte) /\ Len(PasswordPart(o)) = PasswordLen(o)
  <2> DEFINE w == writeMQTTString(o.password)
  <2>1. w \in Seq(Byte) /\ Len(w) = 2 + Len(Text(o.password))
    BY <1>4, ConnectTypes, Zenon
  <2> HIDE DEF w
  <2>2. PasswordPart(o) = WriteIf(Present(o.password), w)
    BY Zenon DEF PasswordPart, w
  <2>3. WriteIf(Present(o.password), w) \in Seq(Byte) /\ Len(WriteIf(Present(o.password), w)) = Optional(Present(o.password), Len(w))
    BY <2>1, ConnectTypes, Written, Zenon
  <2> QED BY <2>1, <2>2, <2>3, Zenon DEF PasswordLen
<1>8. writeMQTTString(o.clientID) \in Seq(Byte) /\ Len(writeMQTTString(o.clientID)) = 2 + Len(Text(o.clientID)) /\ Len(Text(o.clientID)) \in Nat
  BY <1>4, ConnectTypes, Zenon
<1> QED BY <1>1, <1>2, <1>3, <1>5, <1>6, <1>7, <1>8, Zenon

LEMMA ConnectLens ==
  ASSUME NEW o, IsConnect(o)
  PROVE  /\ ProtocolLen(o) \in Nat /\ WillLen(o) \in Nat /\ NameLen(o) \in Nat /\ PasswordLen(o) \in Nat
         /\ MQTTSerialize_connectLength(o)
              = ((((((ProtocolLen(o) + 1) + 2) + (2 + Len(Text(o.clientID)))) + WillLen(o)) + NameLen(o)) + PasswordLen(o))
<1>1. \A str \in Strings : Len(Text(str)) \in Nat /\ MQTTstrlen(str) = Len(Text(str))
  BY StringFacts, Zenon
<1>2. /\ Len(Text(o.clientID)) \in Nat /\ MQTTstrlen(o.clientID) = Len(Text(o.clientID))
      /\ Len(Text(o.willTopic)) \in Nat /\ MQTTstrlen(o.willTopic) = Len(Text(o.willTopic))
      /\ Len(Text(o.willMessage)) \in Nat /\ MQTTstrlen(o.willMessage) = Len(Text(o.willMessage))
      /\ Len(Text(o.username)) \in Nat /\ MQTTstrlen(o.username) = Len(Text(o.username))
      /\ Len(Text(o.password)) \in Nat /\ MQTTstrlen(o.password) = Len(Text(o.password))
  BY <1>1, ConnectTypes, Zenon
<1> DEFINE v == CASE o.version = 3 -> 12 [] o.version = 4 -> 10 [] OTHER -> 0
           w == Optional(o.willFlag, MQTTstrlen(o.willTopic) + 2 + MQTTstrlen(o.willMessage) + 2)
           n == Optional(Present(o.username), MQTTstrlen(o.username) + 2)
           p == Optional(Present(o.password), MQTTstrlen(o.password) + 2)
<1>3. MQTTSerialize_connectLength(o) = ((((v + MQTTstrlen(o.clientID)) + 2) + w) + n) + p
  BY Zenon DEF MQTTSerialize_connectLength
<1>4. v = (ProtocolLen(o) + 1) + 2 /\ ProtocolLen(o) \in Nat
  BY ConnectTypes DEF ProtocolLen
<1>5. w = WillLen(o) /\ WillLen(o) \in Nat
  BY <1>2 DEF WillLen, Optional
<1>6. n = NameLen(o) /\ NameLen(o) \in Nat
  BY <1>2 DEF NameLen, Optional
<1>7. p = PasswordLen(o) /\ PasswordLen(o) \in Nat
  BY <1>2 DEF PasswordLen, Optional
<1> HIDE DEF v, w, n, p
<1>8. MQTTSerialize_connectLength(o)
              = ((((((ProtocolLen(o) + 1) + 2) + (2 + Len(Text(o.clientID)))) + WillLen(o)) + NameLen(o)) + PasswordLen(o))
  BY <1>2, <1>3, <1>4, <1>5, <1>6, <1>7, SMT
<1> QED BY <1>4, <1>5, <1>6, <1>7, <1>8, Zenon

LEMMA ConnectBody ==
  ASSUME NEW o, IsConnect(o)
  PROVE  /\ MQTTSerialize_connect(o) \in Seq(Byte)
         /\ Len(MQTTSerialize_connect(o)) = MQTTSerialize_connectLength(o)
<1> DEFINE b1 == ProtocolPart(o) \o <<ConnectFlags(o)>>
           b2 == b1 \o writeInt(o.keepAlive)
           b3 == b2 \o writeMQTTString(o.clientID)
           b4 == b3 \o WillPart(o)
           b5 == b4 \o NamePart(o)
           b6 == b5 \o PasswordPart(o)
<1>p. /\ ProtocolPart(o) \in Seq(Byte) /\ Len(ProtocolPart(o)) = ProtocolLen(o)
      /\ <<ConnectFlags(o)>> \in Seq(Byte) /\ Len(<<ConnectFlags(o)>>) = 1
  BY ConnectParts, Zenon
<1>q. /\ writeInt(o.keepAlive) \in Seq(Byte) /\ Len(writeInt(o.keepAlive)) = 2
      /\ writeMQTTString(o.clientID) \in Seq(Byte) /\ Len(writeMQTTString(o.clientID)) = 2 + Len(Text(o.clientID))
  BY ConnectParts, Zenon
<1>r. /\ WillPart(o) \in Seq(Byte) /\ Len(WillPart(o)) = WillLen(o)
      /\ NamePart(o) \in Seq(Byte) /\ Len(NamePart(o)) = NameLen(o)
      /\ PasswordPart(o) \in Seq(Byte) /\ Len(PasswordPart(o)) = PasswordLen(o)
  BY ConnectParts, Zenon
<1>1. b1 \in Seq(Byte) /\ Len(b1) = ProtocolLen(o) + 1
  BY <1>p, Joined, Zenon
<1>2. MQTTSerialize_connect(o) = b6
  BY ConnectIs, Zenon DEF Connected
<1> HIDE DEF b1
<1>3. b2 \in Seq(Byte) /\ Len(b2) = (ProtocolLen(o) + 1) + 2
  BY <1>1, <1>q, Joined, Zenon
<1> HIDE DEF b2
<1>4. b3 \in Seq(Byte) /\ Len(b3) = ((ProtocolLen(o) + 1) + 2) + (2 + Len(Text(o.clientID)))
  BY <1>3, <1>q, Joined, Zenon
<1> HIDE DEF b3
<1>5. b4 \in Seq(Byte) /\ Len(b4) = (((ProtocolLen(o) + 1) + 2) + (2 + Len(Text(o.clientID)))) + WillLen(o)
  BY <1>4, <1>r, Joined, Zenon
<1> HIDE DEF b4
<1>6. /\ b5 \in Seq(Byte)
      /\ Len(b5) = ((((ProtocolLen(o) + 1) + 2) + (2 + Len(Text(o.clientID)))) + WillLen(o)) + NameLen(o)
  BY <1>5, <1>r, Joined, Zenon
<1> HIDE DEF b5
<1>7. /\ b6 \in Seq(Byte)
      /\ Len(b6) = (((((ProtocolLen(o) + 1) + 2) + (2 + Len(Text(o.clientID)))) + WillLen(o)) + NameLen(o)) + PasswordLen(o)
  BY <1>6, <1>r, Joined, Zenon
<1> HIDE DEF b6
<1> QED BY <1>2, <1>7, ConnectLens, Zenon

\* Where the parts are, in a buffer that holds them.
HeldBoth(s, at, a, b) == Holds(s, at, a) /\ Holds(s, at + Len(a), b)
LEMMA HeldParts ==
  ASSUME NEW s \in Seq(Byte), NEW a \in Seq(Byte), NEW b \in Seq(Byte), NEW at \in Nat \ {0}, Holds(s, at, a \o b)
  PROVE  HeldBoth(s, at, a, b)
BY HoldsParts, Zenon DEF HeldBoth

LEMMA ConnectHeld ==
  ASSUME NEW o, IsConnect(o), NEW s \in Seq(Byte), NEW at \in Nat \ {0}, Holds(s, at, MQTTSerialize_connect(o))
  PROVE  /\ Holds(s, at, ProtocolPart(o))
         /\ Holds(s, at + ProtocolLen(o), <<ConnectFlags(o)>>)
         /\ Holds(s, at + (ProtocolLen(o) + 1), writeInt(o.keepAlive))
         /\ Holds(s, at + ((ProtocolLen(o) + 1) + 2), writeMQTTString(o.clientID))
         /\ Holds(s, at + (((ProtocolLen(o) + 1) + 2) + (2 + Len(Text(o.clientID)))), WillPart(o))
         /\ Holds(s, at + ((((ProtocolLen(o) + 1) + 2) + (2 + Len(Text(o.clientID)))) + WillLen(o)), NamePart(o))
         /\ Holds(s, at + (((((ProtocolLen(o) + 1) + 2) + (2 + Len(Text(o.clientID)))) + WillLen(o)) + NameLen(o)),
                  PasswordPart(o))
<1> DEFINE b1 == ProtocolPart(o) \o <<ConnectFlags(o)>>
           b2 == b1 \o writeInt(o.keepAlive)
           b3 == b2 \o writeMQTTString(o.clientID)
           b4 == b3 \o WillPart(o)
           b5 == b4 \o NamePart(o)
           b6 == b5 \o PasswordPart(o)
<1>p. /\ ProtocolPart(o) \in Seq(Byte) /\ Len(ProtocolPart(o)) = ProtocolLen(o)
      /\ <<ConnectFlags(o)>> \in Seq(Byte) /\ Len(<<ConnectFlags(o)>>) = 1
  BY ConnectParts, Zenon
<1>q. /\ writeInt(o.keepAlive) \in Seq(Byte) /\ Len(writeInt(o.keepAlive)) = 2
      /\ writeMQTTString(o.clientID) \in Seq(Byte) /\ Len(writeMQTTString(o.clientID)) = 2 + Len(Text(o.clientID))
  BY ConnectParts, Zenon
<1>r. /\ WillPart(o) \in Seq(Byte) /\ Len(WillPart(o)) = WillLen(o)
      /\ NamePart(o) \in Seq(Byte) /\ Len(NamePart(o)) = NameLen(o)
      /\ PasswordPart(o) \in Seq(Byte) /\ Len(PasswordPart(o)) = PasswordLen(o)
  BY ConnectParts, Zenon
<1>1. b1 \in Seq(Byte) /\ Len(b1) = ProtocolLen(o) + 1
  BY <1>p, Joined, Zenon
<1>2. Holds(s, at, b6)
  BY ConnectIs, Zenon DEF Connected
<1> HIDE DEF b1
<1>3. b2 \in Seq(Byte) /\ Len(b2) = (ProtocolLen(o) + 1) + 2
  BY <1>1, <1>q, Joined, Zenon
<1> HIDE DEF b2
<1>4. b3 \in Seq(Byte) /\ Len(b3) = ((ProtocolLen(o) + 1) + 2) + (2 + Len(Text(o.clientID)))
  BY <1>3, <1>q, Joined, Zenon
<1> HIDE DEF b3
<1>5. b4 \in Seq(Byte) /\ Len(b4) = (((ProtocolLen(o) + 1) + 2) + (2 + Len(Text(o.clientID)))) + WillLen(o)
  BY <1>4, <1>r, Joined, Zenon
<1> HIDE DEF b4
<1>6. /\ b5 \in Seq(Byte)
      /\ Len(b5) = ((((ProtocolLen(o) + 1) + 2) + (2 + Len(Text(o.clientID)))) + WillLen(o)) + NameLen(o)
  BY <1>5, <1>r, Joined, Zenon
<1> HIDE DEF b5
<1>7. HeldBoth(s, at, b5, PasswordPart(o))
  BY <1>2, <1>6, <1>r, HeldParts, Zenon
<1>8. HeldBoth(s, at, b4, NamePart(o))
  BY <1>5, <1>7, <1>r, HeldParts, Zenon DEF HeldBoth, b5
<1>9. HeldBoth(s, at, b3, WillPart(o))
  BY <1>4, <1>8, <1>r, HeldParts, Zenon DEF HeldBoth, b4
<1>10. HeldBoth(s, at, b2, writeMQTTString(o.clientID))
  BY <1>3, <1>9, <1>q, HeldParts, Zenon DEF HeldBoth, b3
<1>11. HeldBoth(s, at, b1, writeInt(o.keepAlive))
  BY <1>1, <1>10, <1>q, HeldParts, Zenon DEF HeldBoth, b2
<1>12. HeldBoth(s, at, ProtocolPart(o), <<ConnectFlags(o)>>)
  BY <1>11, <1>p, HeldParts, Zenon DEF HeldBoth, b1
<1> QED BY <1>1, <1>3, <1>4, <1>5, <1>6, <1>7, <1>8, <1>9, <1>10, <1>11, <1>12, <1>p, Zenon DEF HeldBoth

-----------------------------------------------------------------------------
(***************************************************************************)
(* Per packet type: what the tables of the model select.                   *)
(***************************************************************************)

Plain == {PUBACK, PUBREC, PUBREL, PUBCOMP}
Empty == {PINGREQ, PINGRESP, DISCONNECT}

LEMMA TypeCases ==
  ASSUME NEW m, IsMessage(m)
  PROVE  \/ m.type = CONNECT \/ m.type = CONNACK \/ m.type = PUBLISH \/ m.type \in Plain
         \/ m.type = SUBSCRIBE \/ m.type = SUBACK \/ m.type = UNSUBSCRIBE \/ m.type = UNSUBACK \/ m.type \in Empty
<1>1. m.type \in CONNECT .. DISCONNECT
  BY Zenon DEF IsMessage
<1> QED
  BY <1>1 DEF Plain, Empty, CONNECT, CONNACK, PUBLISH, PUBACK, PUBREC, PUBREL, PUBCOMP, SUBSCRIBE, SUBACK,
              UNSUBSCRIBE, UNSUBACK, PINGREQ, PINGRESP, DISCONNECT

LEMMA RemLenIs ==
  ASSUME NEW m
  PROVE  /\ m.type = CONNECT => RemLen(m) = MQTTSerialize_connectLength(m)
         /\ m.type = PUBLISH => RemLen(m) = MQTTSerialize_publishLength(m)
         /\ m.type = SUBSCRIBE => RemLen(m) = MQTTSerialize_subscribeLength(m)
         /\ m.type = UNSUBSCRIBE => RemLen(m) = MQTTSerialize_unsubscribeLength(m)
         /\ m.type = SUBACK => RemLen(m) = 2 + Len(m.granted)
         /\ m.type \in Empty => RemLen(m) = 0
         /\ (m.type = CONNACK \/ m.type = UNSUBACK \/ m.type \in Plain) => RemLen(m) = 2
BY DEF RemLen, Plain, Empty, CONNECT, CONNACK, PUBLISH, PUBACK, PUBREC, PUBREL, PUBCOMP, SUBSCRIBE, SUBACK,
       UNSUBSCRIBE, UNSUBACK, PINGREQ, PINGRESP, DISCONNECT

LEMMA BodyIs ==
  ASSUME NEW m
  PROVE  /\ m.type = CONNECT => Body(m) = MQTTSerialize_connect(m)
         /\ m.type = CONNACK => Body(m) = <<128 * Bit(m.sessionPresent), m.rc>>
         /\ m.type = PUBLISH => Body(m) = MQTTSerialize_publish(m)
         /\ m.type = SUBSCRIBE => Body(m) = MQTTSerialize_subscribe(m)
         /\ m.type = UNSUBSCRIBE => Body(m) = MQTTSerialize_unsubscribe(m)
         /\ m.type = SUBACK => Body(m) = writeInt(m.id) \o m.granted
         /\ m.type \in Empty => Body(m) = <<>>
         /\ (m.type = UNSUBACK \/ m.type \in Plain) => Body(m) = writeInt(m.id)
<1>1. m.type = CONNECT => Body(m) = MQTTSerialize_connect(m)
  BY DEF Body, Acks, Plain, Empty, CONNECT, CONNACK, PUBLISH, PUBACK, PUBREC, PUBREL, PUBCOMP, SUBSCRIBE, SUBACK,
         UNSUBSCRIBE, UNSUBACK, PINGREQ, PINGRESP, DISCONNECT
<1>2. m.type = CONNACK => Body(m) = <<128 * Bit(m.sessionPresent), m.rc>>
  BY DEF Body, Acks, Plain, Empty, CONNECT, CONNACK, PUBLISH, PUBACK, PUBREC, PUBREL, PUBCOMP, SUBSCRIBE, SUBACK,
         UNSUBSCRIBE, UNSUBACK, PINGREQ, PINGRESP, DISCONNECT
<1>3. m.type = PUBLISH => Body(m) = MQTTSerialize_publish(m)
  BY DEF Body, Acks, Plain, Empty, CONNECT, CONNACK, PUBLISH, PUBACK, PUBREC, PUBREL, PUBCOMP, SUBSCRIBE, SUBACK,
         UNSUBSCRIBE, UNSUBACK, PINGREQ, PINGRESP, DISCONNECT
<1>4. m.type = SUBSCRIBE => Body(m) = MQTTSerialize_subscribe(m)
  BY DEF Body, Acks, Plain, Empty, CONNECT, CONNACK, PUBLISH, PUBACK, PUBREC, PUBREL, PUBCOMP, SUBSCRIBE, SUBACK,
         UNSUBSCRIBE, UNSUBACK, PINGREQ, PINGRESP, DISCONNECT
<1>5. m.type = UNSUBSCRIBE => Body(m) = MQTTSerialize_unsubscribe(m)
  BY DEF Body, Acks, Plain, Empty, CONNECT, CONNACK, PUBLISH, PUBACK, PUBREC, PUBREL, PUBCOMP, SUBSCRIBE, SUBACK,
         UNSUBSCRIBE, UNSUBACK, PINGREQ, PINGRESP, DISCONNECT
<1>6. m.type = SUBACK => Body(m) = writeInt(m.id) \o m.granted
  <2>1. m.type = SUBACK => (m.type # CONNECT /\ m.type # CONNACK /\ m.type # PUBLISH /\ m.type # SUBSCRIBE /\ m.type # UNSUBSCRIBE /\ m.type \notin Acks)
    BY DEF Acks, Plain, Empty, CONNECT, CONNACK, PUBLISH, PUBACK, PUBREC, PUBREL, PUBCOMP, SUBSCRIBE, SUBACK,
           UNSUBSCRIBE, UNSUBACK, PINGREQ, PINGRESP, DISCONNECT
  <2> QED BY <2>1, Zenon DEF Body
<1>7. m.type \in Empty => Body(m) = <<>>
  BY DEF Body, Acks, Plain, Empty, CONNECT, CONNACK, PUBLISH, PUBACK, PUBREC, PUBREL, PUBCOMP, SUBSCRIBE, SUBACK,
         UNSUBSCRIBE, UNSUBACK, PINGREQ, PINGRESP, DISCONNECT
<1>8. (m.type = UNSUBACK \/ m.type \in Plain) => Body(m) = writeInt(m.id)
  BY DEF Body, Acks, Plain, Empty, CONNECT, CONNACK, PUBLISH, PUBACK, PUBREC, PUBREL, PUBCOMP, SUBSCRIBE, SUBACK,
         UNSUBSCRIBE, UNSUBACK, PINGREQ, PINGRESP, DISCONNECT
<1> QED BY <1>1, <1>2, <1>3, <1>4, <1>5, <1>6, <1>7, <1>8, Zenon

LEMMA HeaderIs ==
  ASSUME NEW m
  PROVE  /\ m.type = PUBLISH => HeaderOf(m) = Header(PUBLISH, m.dup, m.qos, m.retained)
         /\ (m.type = SUBSCRIBE \/ m.type = UNSUBSCRIBE) => HeaderOf(m) = Header(m.type, m.dup, 1, FALSE)
         /\ m.type \in Plain => HeaderOf(m) = Header(m.type, m.dup, Bit(m.type = PUBREL), FALSE)
         /\ (m.type = CONNECT \/ m.type = CONNACK \/ m.type = SUBACK \/ m.type = UNSUBACK \/ m.type \in Empty)
                => HeaderOf(m) = Header(m.type, FALSE, 0, FALSE)
<1>1. m.type = PUBLISH => HeaderOf(m) = Header(PUBLISH, m.dup, m.qos, m.retained)
  BY DEF HeaderOf, Acks, Plain, Empty, CONNECT, CONNACK, PUBLISH, PUBACK, PUBREC, PUBREL, PUBCOMP, SUBSCRIBE, SUBACK,
         UNSUBSCRIBE, UNSUBACK, PINGREQ, PINGRESP, DISCONNECT
<1>2. (m.type = SUBSCRIBE \/ m.type = UNSUBSCRIBE) => HeaderOf(m) = Header(m.type, m.dup, 1, FALSE)
  <2>1. (m.type = SUBSCRIBE \/ m.type = UNSUBSCRIBE) => (m.type # PUBLISH /\ m.type \in {SUBSCRIBE, UNSUBSCRIBE} /\ m.type \notin Acks \ {UNSUBACK})
    BY DEF Acks, Plain, Empty, CONNECT, CONNACK, PUBLISH, PUBACK, PUBREC, PUBREL, PUBCOMP, SUBSCRIBE, SUBACK,
           UNSUBSCRIBE, UNSUBACK, PINGREQ, PINGRESP, DISCONNECT
  <2> QED BY <2>1, Zenon DEF HeaderOf
<1>3. m.type \in Plain => HeaderOf(m) = Header(m.type, m.dup, Bit(m.type = PUBREL), FALSE)
  <2>1. m.type \in Plain => (m.type # PUBLISH /\ m.type \notin {SUBSCRIBE, UNSUBSCRIBE} /\ m.type \in Acks \ {UNSUBACK})
    BY DEF Acks, Plain, Empty, CONNECT, CONNACK, PUBLISH, PUBACK, PUBREC, PUBREL, PUBCOMP, SUBSCRIBE, SUBACK,
           UNSUBSCRIBE, UNSUBACK, PINGREQ, PINGRESP, DISCONNECT
  <2> QED BY <2>1, Zenon DEF HeaderOf
<1>4. (m.type = CONNECT \/ m.type = CONNACK \/ m.type = SUBACK \/ m.type = UNSUBACK \/ m.type \in Empty)
        => HeaderOf(m) = Header(m.type, FALSE, 0, FALSE)
  <2>1. (m.type = CONNECT \/ m.type = CONNACK \/ m.type = SUBACK \/ m.type = UNSUBACK \/ m.type \in Empty) => (m.type # PUBLISH /\ m.type \notin {SUBSCRIBE, UNSUBSCRIBE} /\ m.type \notin Acks \ {UNSUBACK})
    BY DEF Acks, Plain, Empty, CONNECT, CONNACK, PUBLISH, PUBACK, PUBREC, PUBREL, PUBCOMP, SUBSCRIBE, SUBACK,
           UNSUBSCRIBE, UNSUBACK, PINGREQ, PINGRESP, DISCONNECT
  <2> QED BY <2>1, Zenon DEF HeaderOf
<1> QED BY <1>1, <1>2, <1>3, <1>4, Zenon

LEMMA NeededIs ==
  ASSUME NEW m
  PROVE  /\ (m.type = CONNECT \/ m.type = PUBLISH \/ m.type = SUBSCRIBE \/ m.type = UNSUBSCRIBE)
                => Needed(m) = MQTTPacket_len(RemLen(m))
         /\ m.type = SUBACK => Needed(m) = 2 + Len(m.granted)
         /\ m.type \in Plain => Needed(m) = 4
         /\ (m.type = CONNACK \/ m.type = UNSUBACK \/ m.type \in Empty) => Needed(m) = 2
BY DEF Needed, Acks, Plain, Empty, CONNECT, CONNACK, PUBLISH, PUBACK, PUBREC, PUBREL, PUBCOMP, SUBSCRIBE, SUBACK,
       UNSUBSCRIBE, UNSUBACK, PINGREQ, PINGRESP, DISCONNECT

LEMMA DeserializeIs ==
  ASSUME NEW type, NEW s
  PROVE  /\ type = CONNECT => Deserialize(type, s) = MQTTDeserialize_connect(s)
         /\ type = CONNACK => Deserialize(type, s) = MQTTDeserialize_connack(s)
         /\ type = PUBLISH => Deserialize(type, s) = MQTTDeserialize_publish(s)
         /\ (type = SUBSCRIBE \/ type = UNSUBSCRIBE) => Deserialize(type, s) = MQTTDeserialize_filters(s, type)
         /\ type = SUBACK => Deserialize(type, s) = MQTTDeserialize_suback(s, Len(s))
         /\ type = UNSUBACK => Deserialize(type, s) = MQTTDeserialize_unsuback(s)
         /\ (type \in Plain \/ type \in Empty) => Deserialize(type, s) = MQTTDeserialize_ack(s)
BY DEF Deserialize, Plain, Empty, CONNECT, CONNACK, PUBLISH, PUBACK, PUBREC, PUBREL, PUBCOMP, SUBSCRIBE, SUBACK,
       UNSUBSCRIBE, UNSUBACK, PINGREQ, PINGRESP, DISCONNECT

ExpectedConnect(m) ==
  <<m.version, m.cleansession, m.willFlag, Optional(m.willFlag, m.willQoS), m.willFlag /\ m.willRetain,
    m.keepAlive, Text(m.clientID), WriteIf(m.willFlag, Text(m.willTopic)),
    WriteIf(m.willFlag, Text(m.willMessage)), Text(m.username), Text(m.password)>>
ExpectedPublish(m) ==
  <<m.dup, m.qos, m.retained, Text(m.topic), WriteIf(m.qos > 0, writeInt(m.id)), m.payload>>
ExpectedFilters(m) ==
  <<m.dup, m.id, [k \in DOMAIN m.filters |-> <<Text(m.filters[k].topic),
                              Optional(m.type = SUBSCRIBE, readChar(m.filters[k].qos))>>]>>
LEMMA ExpectedIs ==
  ASSUME NEW m
  PROVE  /\ m.type = CONNECT => Expected(m) = ExpectedConnect(m)
         /\ m.type = CONNACK => Expected(m) = <<m.sessionPresent, m.rc>>
         /\ m.type = PUBLISH => Expected(m) = ExpectedPublish(m)
         /\ (m.type = SUBSCRIBE \/ m.type = UNSUBSCRIBE) => Expected(m) = ExpectedFilters(m)
         /\ m.type = SUBACK => Expected(m) = <<m.id, [k \in DOMAIN m.granted |-> readChar(m.granted[k])]>>
         /\ (m.type = UNSUBACK \/ m.type \in Plain) => Expected(m) = <<m.type, m.dup, m.id>>
         /\ m.type \in Empty => Expected(m) = <<m.type, FALSE>>
<1>1. m.type = CONNECT => Expected(m) = ExpectedConnect(m)
  BY DEF Expected, ExpectedConnect, ExpectedPublish, ExpectedFilters, Acks, Plain, Empty, CONNECT, CONNACK, PUBLISH,
         PUBACK, PUBREC, PUBREL, PUBCOMP, SUBSCRIBE, SUBACK, UNSUBSCRIBE, UNSUBACK, PINGREQ, PINGRESP, DISCONNECT
<1>2. m.type = CONNACK => Expected(m) = <<m.sessionPresent, m.rc>>
  BY DEF Expected, ExpectedConnect, ExpectedPublish, ExpectedFilters, Acks, Plain, Empty, CONNECT, CONNACK, PUBLISH,
         PUBACK, PUBREC, PUBREL, PUBCOMP, SUBSCRIBE, SUBACK, UNSUBSCRIBE, UNSUBACK, PINGREQ, PINGRESP, DISCONNECT
<1>3. m.type = PUBLISH => Expected(m) = ExpectedPublish(m)
  BY DEF Expected, ExpectedConnect, ExpectedPublish, ExpectedFilters, Acks, Plain, Empty, CONNECT, CONNACK, PUBLISH,
         PUBACK, PUBREC, PUBREL, PUBCOMP, SUBSCRIBE, SUBACK, UNSUBSCRIBE, UNSUBACK, PINGREQ, PINGRESP, DISCONNECT
<1>4. (m.type = SUBSCRIBE \/ m.type = UNSUBSCRIBE) => Expected(m) = ExpectedFilters(m)
  BY DEF Expected, ExpectedConnect, ExpectedPublish, ExpectedFilters, Acks, Plain, Empty, CONNECT, CONNACK, PUBLISH,
         PUBACK, PUBREC, PUBREL, PUBCOMP, SUBSCRIBE, SUBACK, UNSUBSCRIBE, UNSUBACK, PINGREQ, PINGRESP, DISCONNECT
<1>5. m.type = SUBACK => Expected(m) = <<m.id, [k \in DOMAIN m.granted |-> readChar(m.granted[k])]>>
  BY DEF Expected, ExpectedConnect, ExpectedPublish, ExpectedFilters, Acks, Plain, Empty, CONNECT, CONNACK, PUBLISH,
         PUBACK, PUBREC, PUBREL, PUBCOMP, SUBSCRIBE, SUBACK, UNSUBSCRIBE, UNSUBACK, PINGREQ, PINGRESP, DISCONNECT
<1>6. (m.type = UNSUBACK \/ m.type \in Plain) => Expected(m) = <<m.type, m.dup, m.id>>
  BY DEF Expected, ExpectedConnect, ExpectedPublish, ExpectedFilters, Acks, Plain, Empty, CONNECT, CONNACK, PUBLISH,
         PUBACK, PUBREC, PUBREL, PUBCOMP, SUBSCRIBE, SUBACK, UNSUBSCRIBE, UNSUBACK, PINGREQ, PINGRESP, DISCONNECT
<1>7. m.type \in Empty => Expected(m) = <<m.type, FALSE>>
  <2>1. m.type \in Empty => (m.type # CONNECT /\ m.type # CONNACK /\ m.type # PUBLISH /\ m.type \notin {SUBSCRIBE, UNSUBSCRIBE} /\ m.type # SUBACK /\ m.type \notin Acks)
    BY DEF Acks, Plain, Empty, CONNECT, CONNACK, PUBLISH, PUBACK, PUBREC, PUBREL, PUBCOMP, SUBSCRIBE, SUBACK,
           UNSUBSCRIBE, UNSUBACK, PINGREQ, PINGRESP, DISCONNECT
  <2> QED BY <2>1, Zenon DEF Expected
<1> QED BY <1>1, <1>2, <1>3, <1>4, <1>5, <1>6, <1>7, Zenon

DupBit(h) == (h \div 8) % 2 = 1
QosBits(h) == (h \div 2) % 4
RetainBit(h) == h % 2 = 1
HeaderGives(h, type, dup, qos, retain) ==
  h \in Byte /\ TypeOf(h) = type /\ (DupBit(h) <=> dup) /\ QosBits(h) = qos /\ (RetainBit(h) <=> retain)

LEMMA HeaderBits ==
  ASSUME NEW type \in 1 .. 14, NEW dup \in BOOLEAN, NEW qos \in 0 .. 3, NEW retain \in BOOLEAN,
         NEW h, h = Header(type, dup, qos, retain)
  PROVE  HeaderGives(h, type, dup, qos, retain)
<1> DEFINE d == Bit(dup)
           r == Bit(retain)
<1>1. d \in {0, 1} /\ r \in {0, 1} /\ (d = 1 <=> dup) /\ (r = 1 <=> retain)
  BY BitFacts, Zenon
<1>2. h = ((16 * type + 8 * d) + 2 * qos) + r
  BY Zenon DEF Header
<1> HIDE DEF d, r
<1>3. type \in Nat /\ type <= 14 /\ qos \in Nat /\ qos <= 3 /\ d \in Nat /\ d <= 1 /\ r \in Nat /\ r <= 1
  BY <1>1
<1>4. h \in Nat /\ h < 256 /\ h \div 16 = type /\ (h \div 8) % 2 = d
  BY <1>2, <1>3, SMT
<1>5. (h \div 2) % 4 = qos /\ h % 2 = r
  BY <1>2, <1>3, SMT
<1>6. h \in Byte /\ TypeOf(h) = type
  BY <1>4, InByte, Zenon DEF TypeOf
<1>7. ((h \div 8) % 2 = 1 <=> dup) /\ (h % 2 = 1 <=> retain)
  BY <1>1, <1>4, <1>5, Zenon
<1> QED BY <1>5, <1>6, <1>7, Zenon DEF HeaderGives, DupBit, QosBits, RetainBit

LEMMA TypeRange == CONNECT .. DISCONNECT = 1 .. 14
BY DEF CONNECT, DISCONNECT

LEMMA MessageFacts ==
  ASSUME NEW m, IsMessage(m)
  PROVE  /\ m.type \in 1 .. 14
         /\ m.type = CONNECT => IsConnect(m)
         /\ m.type = CONNACK => m.sessionPresent \in BOOLEAN /\ m.rc \in Byte
         /\ m.type = PUBLISH => /\ m.topic \in Strings /\ m.payload \in Seq(Byte) /\ m.qos \in 0 .. 3
                                /\ m.dup \in BOOLEAN /\ m.retained \in BOOLEAN /\ m.id \in Word
         /\ (m.type = SUBSCRIBE \/ m.type = UNSUBSCRIBE) =>
                m.filters \in FilterLists /\ m.id \in Word /\ m.dup \in BOOLEAN
         /\ m.type = SUBACK => m.granted \in Seq(Byte) /\ m.id \in Word
         /\ m.type \in Plain => m.id \in Word /\ m.dup \in BOOLEAN
         /\ m.type = UNSUBACK => m.id \in Word /\ m.dup = FALSE
         /\ RemLen(m) < LengthLimit
<1>1. m.type \in 1 .. 14
  BY TypeRange, Zenon DEF IsMessage
<1>2. m.type = PUBLISH => {m.dup, m.retained} \subseteq BOOLEAN
  BY Zenon DEF IsMessage
<1>3. m.type \in Acks => m.id \in Word /\ m.dup \in BOOLEAN /\ (m.type = UNSUBACK => ~m.dup)
  BY Zenon DEF IsMessage
<1>4. m.type \in Plain => m.type \in Acks
  BY Zenon DEF Plain, Acks
<1>5. m.type = UNSUBACK => m.type \in Acks
  BY Zenon DEF Acks
<1>6. m.type = CONNECT => IsConnect(m)
  BY Zenon DEF IsMessage
<1>7. m.type = CONNACK => m.sessionPresent \in BOOLEAN /\ m.rc \in Byte
  BY Zenon DEF IsMessage
<1>8. m.type = PUBLISH => m.topic \in Strings /\ m.payload \in Seq(Byte) /\ m.qos \in 0 .. 3 /\ m.id \in Word
  BY Zenon DEF IsMessage
<1>9. (m.type = SUBSCRIBE \/ m.type = UNSUBSCRIBE) =>
         m.filters \in FilterLists /\ m.id \in Word /\ m.dup \in BOOLEAN
  BY Zenon DEF IsMessage, FilterLists
<1>10. m.type = SUBACK => m.granted \in Seq(Byte) /\ m.id \in Word
  BY Zenon DEF IsMessage
<1>11. RemLen(m) < LengthLimit
  BY Zenon DEF IsMessage
<1>12. m.type = PUBLISH => m.dup \in BOOLEAN /\ m.retained \in BOOLEAN
  BY <1>2, Zenon
<1>13. m.type \in Plain => m.id \in Word /\ m.dup \in BOOLEAN
  BY <1>3, <1>4, Zenon
<1>14. m.type = UNSUBACK => m.id \in Word /\ m.dup = FALSE
  BY <1>3, <1>5, Zenon
<1>15. m.type = PUBLISH => /\ m.topic \in Strings /\ m.payload \in Seq(Byte) /\ m.qos \in 0 .. 3
                           /\ m.dup \in BOOLEAN /\ m.retained \in BOOLEAN /\ m.id \in Word
  BY <1>8, <1>12, Zenon
<1> QED BY <1>1, <1>6, <1>7, <1>9, <1>10, <1>11, <1>13, <1>14, <1>15, Zenon

\* A packet's first byte gives back its type and flags.
LEMMA HeaderFacts ==
  ASSUME NEW m, IsMessage(m), NEW h, h = HeaderOf(m)
  PROVE  /\ h \in Byte /\ TypeOf(h) = m.type
         /\ m.type = PUBLISH => (DupBit(h) <=> m.dup) /\ QosBits(h) = m.qos /\ (RetainBit(h) <=> m.retained)
         /\ (m.type = SUBSCRIBE \/ m.type = UNSUBSCRIBE \/ m.type \in Plain) => (DupBit(h) <=> m.dup)
         /\ (m.type = UNSUBACK \/ m.type \in Empty) => ~DupBit(h)
<1>0. m.type \in 1 .. 14 /\ 0 \in 0 .. 3 /\ 1 \in 0 .. 3 /\ FALSE \in BOOLEAN
  <2>1. m.type \in 1 .. 14
    BY MessageFacts, Zenon
  <2> QED BY <2>1
<1>2. CASE m.type = PUBLISH
  <2>1. /\ h = Header(m.type, m.dup, m.qos, m.retained)
        /\ m.qos \in 0 .. 3 /\ m.dup \in BOOLEAN /\ m.retained \in BOOLEAN
    BY <1>2, HeaderIs, MessageFacts, Zenon
  <2>2. HeaderGives(h, m.type, m.dup, m.qos, m.retained)
    BY <1>0, HeaderBits, <2>1, Zenon
  <2>3. m.type # SUBSCRIBE /\ m.type # UNSUBSCRIBE /\ m.type \notin Plain /\ m.type # UNSUBACK /\ m.type \notin Empty
    BY <1>2 DEF Plain, Empty, PUBLISH, PUBACK, PUBREC, PUBREL, PUBCOMP, SUBSCRIBE, UNSUBSCRIBE, UNSUBACK, PINGREQ,
                PINGRESP, DISCONNECT
  <2> QED BY <2>2, <2>3, Zenon DEF HeaderGives
<1>3. CASE m.type = SUBSCRIBE \/ m.type = UNSUBSCRIBE
  <2>1. h = Header(m.type, m.dup, 1, FALSE) /\ m.dup \in BOOLEAN
    BY <1>3, HeaderIs, MessageFacts, Zenon
  <2>2. HeaderGives(h, m.type, m.dup, 1, FALSE)
    BY <1>0, HeaderBits, <2>1, Zenon
  <2>3. m.type # PUBLISH /\ m.type \notin Plain /\ m.type # UNSUBACK /\ m.type \notin Empty
    BY <1>3 DEF Plain, Empty, PUBLISH, PUBACK, PUBREC, PUBREL, PUBCOMP, SUBSCRIBE, UNSUBSCRIBE, UNSUBACK, PINGREQ,
                PINGRESP, DISCONNECT
  <2> QED BY <2>2, <2>3, Zenon DEF HeaderGives
<1>4. CASE m.type \in Plain
  <2>1. h = Header(m.type, m.dup, Bit(m.type = PUBREL), FALSE) /\ m.dup \in BOOLEAN
    BY <1>4, HeaderIs, MessageFacts, Zenon
  <2>2. Bit(m.type = PUBREL) \in 0 .. 3
    BY DEF Bit
  <2>3. HeaderGives(h, m.type, m.dup, Bit(m.type = PUBREL), FALSE)
    BY <1>0, HeaderBits, <2>1, <2>2, Zenon
  <2>4. m.type # PUBLISH /\ m.type # UNSUBACK /\ m.type \notin Empty
    BY <1>4 DEF Plain, Empty, PUBLISH, PUBACK, PUBREC, PUBREL, PUBCOMP, UNSUBACK, PINGREQ, PINGRESP, DISCONNECT
  <2> QED BY <1>4, <2>3, <2>4, Zenon DEF HeaderGives
<1>5. CASE m.type = CONNECT \/ m.type = CONNACK \/ m.type = SUBACK \/ m.type = UNSUBACK \/ m.type \in Empty
  <2>1. h = Header(m.type, FALSE, 0, FALSE)
    BY <1>5, HeaderIs, Zenon
  <2>2. HeaderGives(h, m.type, FALSE, 0, FALSE)
    BY <1>0, HeaderBits, <2>1, Zenon
  <2>3. m.type # PUBLISH /\ m.type \notin Plain /\ m.type # SUBSCRIBE /\ m.type # UNSUBSCRIBE
    BY <1>5 DEF Plain, Empty, CONNECT, CONNACK, PUBLISH, PUBACK, PUBREC, PUBREL, PUBCOMP, SUBSCRIBE, SUBACK,
                UNSUBSCRIBE, UNSUBACK, PINGREQ, PINGRESP, DISCONNECT
  <2> QED BY <2>2, <2>3, Zenon DEF HeaderGives
<1> QED BY <1>2, <1>3, <1>4, <1>5, TypeCases, Zenon

\* The remaining length computed before writing is the number of bytes written.
LEMMA BodyLength ==
  ASSUME NEW m, IsMessage(m)
  PROVE  Body(m) \in Seq(Byte) /\ Len(Body(m)) = RemLen(m)
<1>1. CASE m.type = CONNECT
  <2>1. IsConnect(m) /\ Body(m) = MQTTSerialize_connect(m) /\ RemLen(m) = MQTTSerialize_connectLength(m)
    BY <1>1, MessageFacts, BodyIs, RemLenIs, Zenon
  <2>2. Body(m) \in Seq(Byte) /\ Len(Body(m)) = RemLen(m)
    BY <2>1, ConnectBody, Zenon
  <2> QED BY <2>2, Zenon
<1>2. CASE m.type = CONNACK
  <2>1. Body(m) = <<128 * Bit(m.sessionPresent), m.rc>> /\ RemLen(m) = 2 /\ m.sessionPresent \in BOOLEAN /\ m.rc \in Byte
    BY <1>2, MessageFacts, BodyIs, RemLenIs, Zenon
  <2>2. Bit(m.sessionPresent) \in {0, 1}
    BY <2>1, BitFacts, Zenon
  <2>3. 128 * Bit(m.sessionPresent) \in Nat /\ 128 * Bit(m.sessionPresent) < 256
    BY <2>2
  <2>4. 128 * Bit(m.sessionPresent) \in Byte
    BY <2>3, InByte, Zenon
  <2> QED BY <2>1, <2>4, Small, Zenon
<1>3. CASE m.type = PUBLISH
  <2> DEFINE a == writeMQTTString(m.topic)
             b == WriteIf(m.qos > 0, writeInt(m.id))
  <2>1. /\ Body(m) = MQTTSerialize_publish(m) /\ RemLen(m) = MQTTSerialize_publishLength(m)
        /\ m.topic \in Strings /\ m.payload \in Seq(Byte) /\ m.id \in Word
    BY <1>3, MessageFacts, BodyIs, RemLenIs, Zenon
  <2>2. a \in Seq(Byte) /\ Len(a) = 2 + MQTTstrlen(m.topic) /\ MQTTstrlen(m.topic) \in Nat
    BY <2>1, StringFacts, Zenon
  <2>3. writeInt(m.id) \in Seq(Byte) /\ Len(writeInt(m.id)) = 2
    BY <2>1, WrittenInt, Zenon
  <2>4. b \in Seq(Byte) /\ Len(b) = Optional(m.qos > 0, 2)
    <3>1. (m.qos > 0) \in BOOLEAN
      OBVIOUS
    <3> QED BY <2>3, <3>1, Written, Zenon
  <2>5. Body(m) = (a \o b) \o m.payload
    BY <2>1, Zenon DEF MQTTSerialize_publish
  <2> HIDE DEF a, b
  <2>6. a \o b \in Seq(Byte) /\ Len(a \o b) = Len(a) + Len(b)
    BY <2>2, <2>4, Joined, Zenon
  <2>7. Body(m) \in Seq(Byte) /\ Len(Body(m)) = (Len(a) + Len(b)) + Len(m.payload) /\ Len(m.payload) \in Nat
    BY <2>1, <2>5, <2>6, Joined, Zenon
  <2>8. RemLen(m) = ((2 + MQTTstrlen(m.topic)) + Len(m.payload)) + Optional(m.qos > 0, 2)
    BY <2>1, Zenon DEF MQTTSerialize_publishLength
  <2>9. Optional(m.qos > 0, 2) \in Nat
    BY DEF Optional
  <2>10. Len(Body(m)) = RemLen(m)
    BY <2>2, <2>4, <2>7, <2>8, <2>9, SMT
  <2> QED BY <2>7, <2>10, Zenon
<1>4. CASE m.type = SUBSCRIBE
  <2>1. /\ Body(m) = MQTTSerialize_subscribe(m) /\ RemLen(m) = MQTTSerialize_subscribeLength(m)
        /\ m.filters \in FilterLists /\ m.id \in Word
    BY <1>4, MessageFacts, BodyIs, RemLenIs, Zenon
  <2>2. writeInt(m.id) \in Seq(Byte) /\ Len(writeInt(m.id)) = 2
    BY <2>1, WrittenInt, Zenon
  <2>3. Bit(TRUE) = 1 /\ TRUE \in BOOLEAN
    BY DEF Bit
  <2>4. WriteFilters(m.filters, TRUE) \in Seq(Byte) /\ Len(WriteFilters(m.filters, TRUE)) = SumStrlen(m.filters, 1)
    BY <2>1, <2>3, FiltersLength, Zenon
  <2> QED BY <2>1, <2>2, <2>4, Joined, Zenon DEF MQTTSerialize_subscribe, MQTTSerialize_subscribeLength
<1>5. CASE m.type = UNSUBSCRIBE
  <2>1. /\ Body(m) = MQTTSerialize_unsubscribe(m) /\ RemLen(m) = MQTTSerialize_unsubscribeLength(m)
        /\ m.filters \in FilterLists /\ m.id \in Word
    BY <1>5, MessageFacts, BodyIs, RemLenIs, Zenon
  <2>2. writeInt(m.id) \in Seq(Byte) /\ Len(writeInt(m.id)) = 2
    BY <2>1, WrittenInt, Zenon
  <2>3. Bit(FALSE) = 0 /\ FALSE \in BOOLEAN
    BY DEF Bit
  <2>4. WriteFilters(m.filters, FALSE) \in Seq(Byte) /\ Len(WriteFilters(m.filters, FALSE)) = SumStrlen(m.filters, 0)
    BY <2>1, <2>3, FiltersLength, Zenon
  <2> QED BY <2>1, <2>2, <2>4, Joined, Zenon DEF MQTTSerialize_unsubscribe, MQTTSerialize_unsubscribeLength
<1>6. CASE m.type = SUBACK
  <2>1. Body(m) = writeInt(m.id) \o m.granted /\ RemLen(m) = 2 + Len(m.granted) /\ m.granted \in Seq(Byte) /\ m.id \in Word
    BY <1>6, MessageFacts, BodyIs, RemLenIs, Zenon
  <2>2. writeInt(m.id) \in Seq(Byte) /\ Len(writeInt(m.id)) = 2
    BY <2>1, WrittenInt, Zenon
  <2> QED BY <2>1, <2>2, Joined, Zenon
<1>7. CASE m.type \in Plain \/ m.type = UNSUBACK
  <2>1. Body(m) = writeInt(m.id) /\ RemLen(m) = 2 /\ m.id \in Word
    BY <1>7, MessageFacts, BodyIs, RemLenIs, Zenon
  <2> QED BY <2>1, WrittenInt, Zenon
<1>8. CASE m.type \in Empty
  <2>1. Body(m) = <<>> /\ RemLen(m) = 0
    BY <1>8, BodyIs, RemLenIs, Zenon
  <2> QED BY <2>1, Small, Zenon
<1> QED BY <1>1, <1>2, <1>3, <1>4, <1>5, <1>6, <1>7, <1>8, TypeCases, Zenon

LEMMA BodyFacts ==
  ASSUME NEW m, IsMessage(m)
  PROVE  Body(m) \in Seq(Byte) /\ Len(Body(m)) = RemLen(m) /\ RemLen(m) \in Lengths
<1>1. Body(m) \in Seq(Byte) /\ Len(Body(m)) = RemLen(m)
  BY BodyLength, Zenon
<1>2. RemLen(m) \in Nat /\ RemLen(m) < LengthLimit
  BY <1>1, MessageFacts, LenProperties, Zenon
<1>3. RemLen(m) \in Lengths
  BY <1>2, InLengths, Zenon
<1> QED BY <1>1, <1>3, Zenon

\* The frame of a packet, and that the deserialisers find it.
Framed(m, s, e) ==
  /\ s \in Seq(Byte) /\ e \in Seq(Byte) /\ Len(e) \in Nat /\ Len(e) >= 1 /\ Len(e) <= 4 /\ RemLen(m) \in Nat
  /\ WellFormed(e, RemLen(m)) /\ e = MQTTPacket_encode[RemLen(m)] /\ e = Digits(RemLen(m))
  /\ Len(s) = (1 + Len(e)) + RemLen(m) /\ s[1] = HeaderOf(m)
  /\ Holds(s, 2, e) /\ Holds(s, 2 + Len(e), Body(m))
  /\ DecodeCount(s, 2) = Len(e) /\ DecodeValue(s, 2) = RemLen(m)
  /\ BodyAt(s) = 2 + Len(e) /\ EndOf(s) = Len(s) + 1

LEMMA PacketFramed ==
  ASSUME NEW m, IsMessage(m)
  PROVE  Framed(m, MQTTSerialize(m), Digits(RemLen(m)))
<1> DEFINE s == MQTTSerialize(m)
           e == Digits(RemLen(m))
           h == <<HeaderOf(m)>>
           b == Body(m)
<1>1. b \in Seq(Byte) /\ Len(b) = RemLen(m) /\ RemLen(m) \in Lengths
  BY BodyFacts, Zenon
<1>2. RemLen(m) \in Nat
  BY <1>1, InLengths, Zenon
<1>3. WellFormed(e, RemLen(m)) /\ MQTTPacket_encode[RemLen(m)] = e
  BY <1>1, DigitsWellFormed, Encoded, Zenon
<1>4. HeaderOf(m) \in Byte
  BY HeaderFacts, Zenon
<1>5. h \in Seq(Byte) /\ Len(h) = 1 /\ h[1] = HeaderOf(m)
  BY <1>4
<1>6. s = (h \o e) \o b
  BY <1>3, Zenon DEF MQTTSerialize
<1> HIDE DEF s, e, h, b
<1>7. e \in Seq(Byte) /\ Len(e) >= 1 /\ Len(e) <= 4
  BY <1>3, Zenon DEF WellFormed
<1>8. h \o e \in Seq(Byte) /\ Len(h \o e) = 1 + Len(e) /\ Len(e) \in Nat
  BY <1>5, <1>7, Joined, Zenon
<1>9. s \in Seq(Byte) /\ Len(s) = (1 + Len(e)) + RemLen(m)
  BY <1>1, <1>6, <1>8, Joined, Zenon
<1>10. Holds(s, 1, h \o e) /\ Holds(s, (1 + Len(e)) + 1, b)
  BY <1>1, <1>6, <1>8, HoldsBehind, Zenon
<1>11. (1 + Len(e)) + 1 = 2 + Len(e) /\ 1 + 1 = 2 /\ 1 \in Nat \ {0} /\ (1 + 1) - 1 = 1 /\ 1 >= 1 /\ 1 <= 1
  BY <1>8
<1>12. HeldBoth(s, 1, h, e)
  BY <1>5, <1>7, <1>9, <1>10, <1>11, HeldParts, Zenon
<1>13. Holds(s, 1, h) /\ Holds(s, 2, e) /\ Holds(s, 2 + Len(e), b)
  BY <1>5, <1>10, <1>11, <1>12, Zenon DEF HeldBoth
<1>14. s[1] = HeaderOf(m)
  <2>1. s[(1 + 1) - 1] = h[1]
    BY <1>5, <1>9, <1>11, <1>13, HeldByte
  <2> QED BY <1>5, <1>11, <2>1, Zenon
<1>15. DecodeCount(s, 2) = Len(e) /\ DecodeValue(s, 2) = RemLen(m)
  BY <1>3, <1>9, <1>13, Decoded, Zenon
<1>16. BodyAt(s) = 2 + Len(e) /\ EndOf(s) = (2 + Len(e)) + RemLen(m)
  BY <1>15, Zenon DEF BodyAt, EndOf
<1>17. (2 + Len(e)) + RemLen(m) = ((1 + Len(e)) + RemLen(m)) + 1
  BY <1>2, <1>8
<1>18. Framed(m, s, e)
  BY <1>2, <1>3, <1>7, <1>8, <1>9, <1>13, <1>14, <1>15, <1>16, <1>17, Zenon DEF Framed, b, e
<1> QED BY <1>18, Zenon DEF s, e

-----------------------------------------------------------------------------
(***************************************************************************)
(* Sizes: what a serialiser writes against what it compared.               *)
(***************************************************************************)

LEMMA DigitsCount ==
  ASSUME NEW n \in Lengths
  PROVE  /\ Len(Digits(n)) \in Nat /\ Len(Digits(n)) <= 4
         /\ (n < 2097152 => Len(Digits(n)) <= 3)
         /\ (n < 16384 => Len(Digits(n)) <= 2)
         /\ (n < 128 => Len(Digits(n)) = 1)
<1>1. n \in Nat
  BY InLengths
<1>2. \A k : Len(Digits1(k)) = 1 /\ Len(Digits2(k)) = 2 /\ Len(Digits3(k)) = 3 /\ Len(Digits4(k)) = 4
  BY SMT DEF Digits1, Digits2, Digits3, Digits4
<1>3. \/ (n < 128 /\ Digits(n) = Digits1(n))
      \/ (n >= 128 /\ n < 16384 /\ Digits(n) = Digits2(n))
      \/ (n >= 16384 /\ n < 2097152 /\ Digits(n) = Digits3(n))
      \/ (n >= 2097152 /\ Digits(n) = Digits4(n))
  BY <1>1, SMT DEF Digits
<1>4. \/ (n < 128 /\ Len(Digits(n)) = 1)
      \/ (n >= 128 /\ n < 16384 /\ Len(Digits(n)) = 2)
      \/ (n >= 16384 /\ n < 2097152 /\ Len(Digits(n)) = 3)
      \/ (n >= 2097152 /\ Len(Digits(n)) = 4)
  BY <1>2, <1>3, SMT
<1> DEFINE k == Len(Digits(n))
<1> HIDE DEF k
<1>5. \/ (n < 128 /\ k = 1)
      \/ (n >= 128 /\ n < 16384 /\ k = 2)
      \/ (n >= 16384 /\ n < 2097152 /\ k = 3)
      \/ (n >= 2097152 /\ k = 4)
  BY <1>4, SMT DEF k
<1>6. k \in Nat /\ k <= 4 /\ (n < 2097152 => k <= 3) /\ (n < 16384 => k <= 2) /\ (n < 128 => k = 1)
  BY <1>1, <1>5, SMT
<1> QED BY <1>6, SMT DEF k

LEMMA LengthCovered ==
  ASSUME NEW n \in Lengths
  PROVE  (1 + Len(Digits(n))) + n <= MQTTPacket_len(n)
<1>1. n \in Nat
  BY InLengths
<1> DEFINE k == Len(Digits(n))
<1>2. k \in Nat /\ k <= 4 /\ (n < 2097152 => k <= 3) /\ (n < 16384 => k <= 2) /\ (n < 128 => k = 1)
  BY DigitsCount, SMT
<1> HIDE DEF k
<1>3. (1 + k) + n <= MQTTPacket_len(n)
  BY <1>1, <1>2, SMT DEF MQTTPacket_len
<1> QED BY <1>3, Zenon DEF k

Sized(m) ==
  Len(MQTTSerialize(m)) <= Needed(m) + IF m.type \in {CONNACK, SUBACK, UNSUBACK}
                                       THEN 1 + Len(MQTTPacket_encode[RemLen(m)]) ELSE 0

LEMMA PacketSized ==
  ASSUME NEW m, IsMessage(m)
  PROVE  Sized(m)
<1> DEFINE s == MQTTSerialize(m)
           e == Digits(RemLen(m))
           n == RemLen(m)
<1>1. /\ Len(s) = (1 + Len(e)) + n /\ Len(e) \in Nat /\ n \in Nat /\ MQTTPacket_encode[n] = e
  BY PacketFramed, Zenon DEF Framed
<1>2. n \in Lengths
  BY BodyFacts, Zenon
<1>3. (1 + Len(e)) + n <= MQTTPacket_len(n) /\ (n < 128 => Len(e) = 1)
  BY <1>2, LengthCovered, DigitsCount, SMT
<1> HIDE DEF s, e, n
<1>4. CASE m.type = CONNECT \/ m.type = PUBLISH \/ m.type = SUBSCRIBE \/ m.type = UNSUBSCRIBE
  <2>1. Needed(m) = MQTTPacket_len(n)
    BY <1>4, NeededIs, Zenon DEF n
  <2>2. m.type \notin {CONNACK, SUBACK, UNSUBACK}
    BY <1>4 DEF CONNECT, CONNACK, PUBLISH, SUBSCRIBE, SUBACK, UNSUBSCRIBE, UNSUBACK
  <2>3. Len(s) <= Needed(m) /\ Needed(m) \in Int
    <3>1. MQTTPacket_len(n) \in Int
      BY <1>1, SMT DEF MQTTPacket_len
    <3> QED BY <1>1, <1>3, <2>1, <3>1, Zenon
  <2>4. Len(s) <= Needed(m) + 0
    BY <2>3
  <2> QED BY <2>2, <2>4, Zenon DEF Sized, s
<1>5. CASE m.type \in Plain
  <2>1. Needed(m) = 4 /\ n = 2
    BY <1>5, NeededIs, RemLenIs, Zenon DEF n
  <2>2. m.type \notin {CONNACK, SUBACK, UNSUBACK}
    BY <1>5 DEF Plain, CONNACK, PUBACK, PUBREC, PUBREL, PUBCOMP, SUBACK, UNSUBACK
  <2>3. Len(s) <= Needed(m) + 0
    <3>1. Len(e) = 1
      BY <1>3, <2>1, SMT
    <3>2. Len(s) = (1 + 1) + 2
      BY <1>1, <2>1, <3>1, Zenon
    <3> QED BY <2>1, <3>2, SMT
  <2> QED BY <2>2, <2>3, Zenon DEF Sized, s
<1>6. CASE m.type \in Empty
  <2>1. Needed(m) = 2 /\ n = 0
    BY <1>6, NeededIs, RemLenIs, Zenon DEF n
  <2>2. m.type \notin {CONNACK, SUBACK, UNSUBACK}
    BY <1>6 DEF Empty, CONNACK, SUBACK, UNSUBACK, PINGREQ, PINGRESP, DISCONNECT
  <2>3. Len(s) <= Needed(m) + 0
    <3>1. Len(e) = 1
      BY <1>3, <2>1, SMT
    <3>2. Len(s) = (1 + 1) + 0
      BY <1>1, <2>1, <3>1, Zenon
    <3> QED BY <2>1, <3>2, SMT
  <2> QED BY <2>2, <2>3, Zenon DEF Sized, s
<1>7. CASE m.type = CONNACK \/ m.type = SUBACK \/ m.type = UNSUBACK
  <2>1. Needed(m) = n
    BY <1>7, NeededIs, RemLenIs, Zenon DEF n
  <2>2. m.type \in {CONNACK, SUBACK, UNSUBACK}
    BY <1>7, Zenon
  <2>3. Len(s) <= n + (1 + Len(e))
    BY <1>1
  <2> QED BY <1>1, <2>1, <2>2, <2>3, Zenon DEF Sized, s, n
<1> QED BY <1>4, <1>5, <1>6, <1>7, TypeCases, Zenon

-----------------------------------------------------------------------------
(***************************************************************************)
(* The reader that has the whole stream.                                   *)
(***************************************************************************)

LEMMA ReadWhole ==
  ASSUME NEW m, IsMessage(m), NEW buflen \in Nat, NEW s, s = MQTTSerialize(m)
  PROVE  /\ Len(s) \in Nat
         /\ Len(s) <= buflen => MQTTPacket_read(s, buflen) = [rc |-> m.type, buf |-> s]
         /\ ~(Len(s) <= buflen) => MQTTPacket_read(s, buflen).rc = -1
         /\ s = (<<HeaderOf(m)>> \o Digits(RemLen(m))) \o Body(m)
<1> DEFINE e == Digits(RemLen(m))
           n == RemLen(m)
           b == Body(m)
           head == <<HeaderOf(m)>> \o e
<1>1. Framed(m, s, e)
  BY PacketFramed, Zenon
<1>2. /\ s \in Seq(Byte) /\ e \in Seq(Byte) /\ Len(e) \in Nat /\ n \in Nat /\ e = MQTTPacket_encode[n]
      /\ Len(s) = (1 + Len(e)) + n /\ s[1] = HeaderOf(m)
      /\ Holds(s, 2 + Len(e), b) /\ DecodeValue(s, 2) = n /\ BodyAt(s) = 2 + Len(e)
  BY <1>1, Zenon DEF Framed
<1>3. b \in Seq(Byte) /\ Len(b) = n
  BY BodyFacts, Zenon
<1>4. HeaderOf(m) \in Byte /\ TypeOf(HeaderOf(m)) = m.type
  BY HeaderFacts, Zenon
<1>5. s = head \o b
  BY <1>2, Zenon DEF MQTTSerialize
<1>6. <<HeaderOf(m)>> \in Seq(Byte) /\ Len(<<HeaderOf(m)>>) = 1
  BY <1>4, Small, Zenon
<1>7. head \in Seq(Byte) /\ Len(head) = 1 + Len(e)
  BY <1>2, <1>6, Joined, Zenon
<1> HIDE DEF e, n, b
<1>8. SubSeq(s, 2 + Len(e), ((2 + Len(e)) + Len(b)) - 1) = b
  <2>1. 2 + Len(e) \in Nat \ {0}
    BY <1>2
  <2> QED BY <1>2, <1>3, <2>1, HoldsSub, Zenon
<1>9. BodyAt(s) + n - 1 = ((2 + Len(e)) + Len(b)) - 1
  BY <1>2, <1>3
<1>10. SubSeq(s, BodyAt(s), BodyAt(s) + n - 1) = b
  BY <1>2, <1>8, <1>9, Zenon
<1> DEFINE hd == <<s[1]>> \o MQTTPacket_encode[DecodeValue(s, 2)]
<1>11. MQTTPacket_read(s, buflen) =
         IF DecodeValue(s, 2) + Len(hd) > buflen THEN [rc |-> -1, buf |-> hd]
         ELSE [rc |-> TypeOf(s[1]), buf |-> hd \o SubSeq(s, BodyAt(s), BodyAt(s) + DecodeValue(s, 2) - 1)]
  BY Zenon DEF MQTTPacket_read
<1>12. hd = head /\ hd \o SubSeq(s, BodyAt(s), BodyAt(s) + DecodeValue(s, 2) - 1) = s
  BY <1>2, <1>5, <1>10, Zenon
<1> HIDE DEF hd, head
<1>13. Len(s) \in Nat /\ DecodeValue(s, 2) + Len(hd) = Len(s)
  <2>1. DecodeValue(s, 2) + Len(hd) = n + (1 + Len(e))
    BY <1>2, <1>7, <1>12, Zenon
  <2> QED BY <1>2, <2>1
<1>14. Len(s) <= buflen <=> ~(Len(s) > buflen)
  BY <1>13
<1>15. CASE Len(s) <= buflen
  BY <1>2, <1>4, <1>5, <1>11, <1>12, <1>13, <1>14, <1>15, Zenon DEF head, e, b
<1>16. CASE ~(Len(s) <= buflen)
  <2>1. MQTTPacket_read(s, buflen) = [rc |-> -1, buf |-> hd]
    BY <1>11, <1>13, <1>14, <1>16, Zenon
  <2>2. MQTTPacket_read(s, buflen).rc = -1
    BY <2>1
  <2> QED BY <1>5, <1>13, <1>16, <2>2, Zenon DEF head, e, b
<1> QED BY <1>15, <1>16, Zenon

-----------------------------------------------------------------------------
(***************************************************************************)
(* What was serialised comes back.                                         *)
(***************************************************************************)

LEMMA FrameFacts ==
  ASSUME NEW m, IsMessage(m), NEW s, s = MQTTSerialize(m), NEW at, at = BodyAt(s)
  PROVE  /\ s \in Seq(Byte) /\ at \in Nat \ {0} /\ Len(s) \in Nat /\ RemLen(m) \in Nat
         /\ EndOf(s) = Len(s) + 1 /\ Len(s) + 1 = at + RemLen(m)
         /\ DecodeValue(s, 2) = RemLen(m) /\ Holds(s, at, Body(m))
         /\ s[1] = HeaderOf(m) /\ TypeOf(s[1]) = m.type /\ (RemLen(m) = 0 => DecodeCount(s, 2) = 1)
<1> DEFINE e == Digits(RemLen(m))
<1>1. Framed(m, s, e)
  BY PacketFramed, Zenon
<1>2. /\ s \in Seq(Byte) /\ Len(e) \in Nat /\ RemLen(m) \in Nat
      /\ Len(s) = (1 + Len(e)) + RemLen(m) /\ s[1] = HeaderOf(m)
      /\ Holds(s, at, Body(m)) /\ DecodeValue(s, 2) = RemLen(m) /\ DecodeCount(s, 2) = Len(e)
      /\ at = 2 + Len(e) /\ EndOf(s) = Len(s) + 1
  BY <1>1, Zenon DEF Framed
<1>3. TypeOf(s[1]) = m.type
  BY <1>2, HeaderFacts, Zenon
<1>4. RemLen(m) = 0 => Len(e) = 1
  <2>1. RemLen(m) \in Lengths
    BY BodyFacts, Zenon
  <2>2. RemLen(m) < 128 => Len(e) = 1
    BY <2>1, DigitsCount, SMT
  <2> QED BY <2>2, SMT
<1> HIDE DEF e
<1>5. at \in Nat \ {0} /\ Len(s) \in Nat /\ Len(s) + 1 = at + RemLen(m)
  BY <1>2
<1> QED BY <1>2, <1>3, <1>4, <1>5, Zenon

RoundTripOf(m) == Deserialize(m.type, MQTTSerialize(m)) = [rc |-> 1, out |-> Expected(m)]

LEMMA AckRoundTrip ==
  ASSUME NEW m, IsMessage(m), m.type \in Plain \/ m.type = UNSUBACK
  PROVE  RoundTripOf(m)
<1> DEFINE s == MQTTSerialize(m)
           at == BodyAt(s)
           h == HeaderOf(m)
<1>1. /\ s \in Seq(Byte) /\ at \in Nat \ {0} /\ DecodeValue(s, 2) = RemLen(m) /\ Holds(s, at, Body(m))
      /\ s[1] = h /\ TypeOf(s[1]) = m.type
  BY FrameFacts, Zenon
<1>2. Body(m) = writeInt(m.id) /\ RemLen(m) = 2 /\ m.id \in Word /\ Expected(m) = <<m.type, m.dup, m.id>>
  BY BodyIs, RemLenIs, ExpectedIs, MessageFacts, Zenon
<1>3. m.dup \in BOOLEAN /\ (DupBit(h) <=> m.dup)
  BY HeaderFacts, MessageFacts, Zenon
<1> HIDE DEF s, at, h
<1>4. readInt(s, at) = m.id
  BY <1>1, <1>2, ReadInt, Zenon
<1>5. DupOf(s) = m.dup
  BY <1>1, <1>3, Zenon DEF DupOf, DupBit
<1>6. ~(DecodeValue(s, 2) < 2)
  BY <1>1, <1>2, SMT
<1>7. MQTTDeserialize_ack(s) = [rc |-> 1, out |-> <<m.type, m.dup, m.id>>]
  BY <1>1, <1>4, <1>5, <1>6, Zenon DEF MQTTDeserialize_ack, at
<1>8. CASE m.type \in Plain
  BY <1>2, <1>7, <1>8, DeserializeIs, Zenon DEF RoundTripOf, s
<1>9. CASE m.type = UNSUBACK
  <2>1. MQTTDeserialize_unsuback(s) = [MQTTDeserialize_ack(s) EXCEPT !.rc = 1]
    BY <1>1, <1>9, Zenon DEF MQTTDeserialize_unsuback
  <2>2. [MQTTDeserialize_ack(s) EXCEPT !.rc = 1] = MQTTDeserialize_ack(s)
    BY <1>7
  <2>3. Deserialize(m.type, s) = MQTTDeserialize_unsuback(s)
    BY <1>9, DeserializeIs, Zenon
  <2> QED BY <1>2, <1>7, <2>1, <2>2, <2>3, Zenon DEF RoundTripOf, s
<1> QED BY <1>8, <1>9, Zenon

LEMMA EmptyRoundTrip ==
  ASSUME NEW m, IsMessage(m), m.type \in Empty
  PROVE  RoundTripOf(m)
<1> DEFINE s == MQTTSerialize(m)
           h == HeaderOf(m)
<1>1. /\ DecodeValue(s, 2) = RemLen(m) /\ s[1] = h /\ TypeOf(s[1]) = m.type
      /\ (RemLen(m) = 0 => DecodeCount(s, 2) = 1)
  BY FrameFacts, Zenon
<1>2. RemLen(m) = 0 /\ Expected(m) = <<m.type, FALSE>>
  BY RemLenIs, ExpectedIs, Zenon
<1>3. ~DupBit(h)
  BY HeaderFacts, Zenon
<1>4. Deserialize(m.type, s) = MQTTDeserialize_ack(s)
  BY DeserializeIs, Zenon
<1> HIDE DEF s, h
<1>5. DupOf(s) = FALSE
  BY <1>1, <1>3, Zenon DEF DupOf, DupBit
<1>6. DecodeValue(s, 2) < 2 /\ ShortRc(s) = 1
  BY <1>1, <1>2, SMT DEF ShortRc
<1>7. MQTTDeserialize_ack(s) = [rc |-> 1, out |-> <<m.type, FALSE>>]
  BY <1>1, <1>5, <1>6, Zenon DEF MQTTDeserialize_ack
<1> QED BY <1>2, <1>4, <1>7, Zenon DEF RoundTripOf, s

LEMMA ConnackRoundTrip ==
  ASSUME NEW m, IsMessage(m), m.type = CONNACK
  PROVE  RoundTripOf(m)
<1> DEFINE s == MQTTSerialize(m)
           at == BodyAt(s)
           b == Bit(m.sessionPresent)
           body == <<128 * b, m.rc>>
<1>1. /\ s \in Seq(Byte) /\ at \in Nat \ {0} /\ DecodeValue(s, 2) = RemLen(m) /\ Holds(s, at, Body(m))
      /\ TypeOf(s[1]) = m.type
  BY FrameFacts, Zenon
<1>2. /\ Body(m) = body /\ RemLen(m) = 2 /\ m.rc \in Byte /\ m.sessionPresent \in BOOLEAN
      /\ Expected(m) = <<m.sessionPresent, m.rc>>
  BY BodyIs, RemLenIs, ExpectedIs, MessageFacts, Zenon
<1>3. body \in Seq(Byte) /\ Body(m) \in Seq(Byte)
  BY <1>2, BodyFacts, Zenon
<1>4. Deserialize(m.type, s) = MQTTDeserialize_connack(s)
  BY DeserializeIs, Zenon
<1>5. b \in {0, 1} /\ (b = 1 <=> m.sessionPresent)
  BY <1>2, BitFacts, Zenon
<1>6. Len(body) = 2 /\ body[1] = 128 * b /\ body[2] = m.rc
  OBVIOUS
<1> HIDE DEF s, at, b, body
<1>7. 1 <= Len(body) /\ 2 <= Len(body) /\ 1 >= 1 /\ 2 >= 1 /\ (at + 1) - 1 = at /\ (at + 2) - 1 = at + 1
  BY <1>1, <1>6
<1>8. ByteAt(s, (at + 1) - 1) = body[1]
  BY <1>1, <1>2, <1>3, <1>7, HeldByte
<1>9. ByteAt(s, (at + 2) - 1) = body[2]
  BY <1>1, <1>2, <1>3, <1>7, HeldByte
<1>10. ByteAt(s, at) = 128 * b /\ ByteAt(s, at + 1) = m.rc
  BY <1>6, <1>7, <1>8, <1>9, Zenon
<1>11. (128 * b) \div 128 = b
  BY <1>5
<1>12. (ByteAt(s, at) \div 128 = 1) = m.sessionPresent
  BY <1>2, <1>5, <1>10, <1>11, Zenon
<1>13. ~(DecodeValue(s, 2) < 2)
  BY <1>1, <1>2, SMT
<1>14. MQTTDeserialize_connack(s) = [rc |-> 1, out |-> <<m.sessionPresent, m.rc>>]
  BY <1>1, <1>10, <1>12, <1>13, Zenon DEF MQTTDeserialize_connack, at
<1> QED BY <1>2, <1>4, <1>14, Zenon DEF RoundTripOf, s

LEMMA SubackRoundTrip ==
  ASSUME NEW m, IsMessage(m), m.type = SUBACK
  PROVE  RoundTripOf(m)
<1> DEFINE s == MQTTSerialize(m)
           at == BodyAt(s)
           g == m.granted
           id == writeInt(m.id)
<1>1. /\ s \in Seq(Byte) /\ at \in Nat \ {0} /\ DecodeValue(s, 2) = RemLen(m) /\ Holds(s, at, Body(m))
      /\ TypeOf(s[1]) = m.type /\ EndOf(s) = Len(s) + 1 /\ Len(s) + 1 = at + RemLen(m) /\ Len(s) \in Nat
  BY FrameFacts, Zenon
<1>2. /\ Body(m) = id \o g /\ RemLen(m) = 2 + Len(g) /\ g \in Seq(Byte) /\ m.id \in Word
      /\ Expected(m) = <<m.id, [k \in DOMAIN g |-> readChar(g[k])]>>
  BY BodyIs, RemLenIs, ExpectedIs, MessageFacts, Zenon
<1>3. id \in Seq(Byte) /\ Len(id) = 2
  BY <1>2, WrittenInt, Zenon
<1>4. Deserialize(m.type, s) = MQTTDeserialize_suback(s, Len(s))
  BY DeserializeIs, Zenon
<1> HIDE DEF s, at, g
<1>5. HeldBoth(s, at, id, g)
  BY <1>1, <1>2, <1>3, HeldParts, Zenon
<1>6. Holds(s, at, id) /\ Holds(s, at + 2, g)
  BY <1>3, <1>5, Zenon DEF HeldBoth
<1>7. readInt(s, at) = m.id
  BY <1>1, <1>2, <1>6, ReadInt, Zenon
<1>8. Len(g) \in Nat
  BY <1>2, LenProperties, Zenon
<1>9. at + 2 \in Nat \ {0} /\ EndOf(s) - 1 = ((at + 2) + Len(g)) - 1
  BY <1>1, <1>2, <1>8
<1>10. SubSeq(s, at + 2, ((at + 2) + Len(g)) - 1) = g
  BY <1>1, <1>2, <1>6, <1>9, HoldsSub, Zenon
<1>11. SubSeq(s, at + 2, EndOf(s) - 1) = g
  BY <1>9, <1>10, Zenon
<1>12. ~(Len(g) > Len(s) + 1) /\ ~(Len(s) + 1 < Len(g))
  BY <1>1, <1>2, <1>8
<1>13. SubSeq(g, 1, Len(g)) = g
  <2>1. Holds(g, 1, g) /\ 1 \in Nat \ {0} /\ (1 + Len(g)) - 1 = Len(g)
    BY <1>2, <1>8 DEF Holds
  <2> QED BY <1>2, <2>1, HoldsSub, Zenon
<1>14. Take(g, Len(s) + 1) = g
  BY <1>12, <1>13, Zenon DEF Take
<1>15. ~(DecodeValue(s, 2) < 2)
  BY <1>1, <1>2, <1>8, SMT
<1> DEFINE granted == SubSeq(s, BodyAt(s) + 2, EndOf(s) - 1)
<1>16. MQTTDeserialize_suback(s, Len(s)) =
         [rc |-> IF Len(granted) > Len(s) + 1 THEN -1 ELSE 1,
          out |-> <<readInt(s, BodyAt(s)), [k \in DOMAIN Take(granted, Len(s) + 1) |-> readChar(granted[k])]>>]
  BY <1>1, <1>15, Zenon DEF MQTTDeserialize_suback
<1>17. granted = g
  BY <1>11, Zenon DEF at
<1> HIDE DEF granted
<1>18. MQTTDeserialize_suback(s, Len(s)) = [rc |-> 1, out |-> <<m.id, [k \in DOMAIN g |-> readChar(g[k])]>>]
  BY <1>7, <1>12, <1>14, <1>16, <1>17, Zenon DEF at
<1> QED BY <1>2, <1>4, <1>18, Zenon DEF RoundTripOf, s

LEMMA PublishRoundTrip ==
  ASSUME NEW m, IsMessage(m), m.type = PUBLISH
  PROVE  RoundTripOf(m)
<1> DEFINE s == MQTTSerialize(m)
           at == BodyAt(s)
           h == HeaderOf(m)
           t == Text(m.topic)
           a == writeMQTTString(m.topic)
           b == WriteIf(m.qos > 0, writeInt(m.id))
           p == m.payload
           k == Optional(m.qos > 0, 2)
<1>1. /\ s \in Seq(Byte) /\ at \in Nat \ {0} /\ Holds(s, at, Body(m))
      /\ TypeOf(s[1]) = m.type /\ EndOf(s) = Len(s) + 1 /\ Len(s) + 1 = at + RemLen(m) /\ Len(s) \in Nat
      /\ s[1] = h
  BY FrameFacts, Zenon
<1>2. /\ Body(m) = MQTTSerialize_publish(m) /\ RemLen(m) = MQTTSerialize_publishLength(m)
      /\ Expected(m) = ExpectedPublish(m) /\ p \in Seq(Byte) /\ m.id \in Word /\ m.topic \in Strings
      /\ m.qos \in 0 .. 3 /\ m.dup \in BOOLEAN /\ m.retained \in BOOLEAN
  BY BodyIs, RemLenIs, ExpectedIs, MessageFacts, Zenon
<1>3. (DupBit(h) <=> m.dup) /\ QosBits(h) = m.qos /\ (RetainBit(h) <=> m.retained)
  BY HeaderFacts, Zenon
<1>4. Deserialize(m.type, s) = MQTTDeserialize_publish(s)
  BY DeserializeIs, Zenon
<1>5. Body(m) = (a \o b) \o p /\ RemLen(m) = ((2 + MQTTstrlen(m.topic)) + Len(p)) + k
  BY <1>2, Zenon DEF MQTTSerialize_publish, MQTTSerialize_publishLength
<1>6. t \in Seq(Byte) /\ Len(t) \in Nat /\ MQTTstrlen(m.topic) = Len(t) /\ a \in Seq(Byte) /\ Len(a) = 2 + Len(t)
  BY <1>2, StringFacts, Zenon
<1>7. writeInt(m.id) \in Seq(Byte) /\ Len(writeInt(m.id)) = 2
  BY <1>2, WrittenInt, Zenon
<1>8. b \in Seq(Byte) /\ Len(b) = k /\ k \in Nat
  <2>1. (m.qos > 0) \in BOOLEAN /\ k \in Nat
    BY DEF Optional
  <2> QED BY <1>7, <2>1, Written, Zenon
<1>9. (m.qos > 0 => b = writeInt(m.id)) /\ (~(m.qos > 0) => b = <<>>)
  BY Zenon DEF WriteIf
<1> HIDE DEF s, at, h, t, a, b, p, k
<1>10. a \o b \in Seq(Byte) /\ Len(a \o b) = (2 + Len(t)) + k
  BY <1>6, <1>8, Joined, Zenon
<1>11. HeldBoth(s, at, a \o b, p)
  BY <1>1, <1>2, <1>5, <1>10, HeldParts, Zenon
<1>12. HeldBoth(s, at, a, b)
  BY <1>1, <1>6, <1>8, <1>11, HeldParts, Zenon DEF HeldBoth
<1>13. Holds(s, at, a) /\ Holds(s, at + (2 + Len(t)), b) /\ Holds(s, at + ((2 + Len(t)) + k), p)
  BY <1>6, <1>10, <1>11, <1>12, Zenon DEF HeldBoth
<1>14. Len(p) \in Nat
  BY <1>2, LenProperties, Zenon
<1> DEFINE end == Len(s) + 1
           next == (at + 2) + Len(t)
<1>15. /\ at + (2 + Len(t)) = next /\ at + ((2 + Len(t)) + k) = next + k /\ next <= end
       /\ next \in Nat \ {0} /\ next + k \in Nat \ {0} /\ end \in Nat /\ end - 1 = ((next + k) + Len(p)) - 1
  BY <1>1, <1>5, <1>6, <1>8, <1>14
<1>16. readMQTTLenString(s, at, end) = [ok |-> TRUE, at |-> next, text |-> t]
  <2>1. Holds(s, at, writeMQTTString(m.topic)) /\ (at + 2) + Len(Text(m.topic)) <= end /\ end \in Nat
    BY <1>13, <1>15, Zenon DEF a, t
  <2> HIDE DEF end
  <2>2. readMQTTLenString(s, at, end) = [ok |-> TRUE, at |-> (at + 2) + Len(Text(m.topic)), text |-> Text(m.topic)]
    BY <1>1, <1>2, <2>1, ReadString, Zenon
  <2> QED BY <2>2, Zenon DEF t
<1> HIDE DEF end, next
<1>17. SubSeq(s, next + k, end - 1) = p
  <2>1. SubSeq(s, next + k, ((next + k) + Len(p)) - 1) = p
    BY <1>1, <1>2, <1>13, <1>15, HoldsSub, Zenon
  <2> QED BY <1>15, <2>1, Zenon
<1>18. m.qos > 0 => readInt(s, next) = m.id
  BY <1>1, <1>2, <1>9, <1>13, <1>15, ReadInt, Zenon
<1>19. DupOf(s) = m.dup /\ QosOf(s) = m.qos /\ (s[1] % 2 = 1) = m.retained
  BY <1>1, <1>2, <1>3, Zenon DEF DupOf, QosOf, DupBit, QosBits, RetainBit
<1>20. WriteIf(m.qos > 0, writeInt(readInt(s, next))) = b
  BY <1>9, <1>18, Zenon DEF WriteIf
<1> DEFINE topic == readMQTTLenString(s, BodyAt(s), EndOf(s))
<1>21. topic.ok = TRUE /\ topic.at = next /\ topic.text = t
  <2>1. topic = [ok |-> TRUE, at |-> next, text |-> t]
    BY <1>1, <1>16, Zenon DEF at, end
  <2> HIDE DEF topic
  <2> QED BY <2>1
<1>22. MQTTDeserialize_publish(s) =
         IF TypeOf(s[1]) # PUBLISH THEN [rc |-> 0, out |-> <<>>]
         ELSE IF ~topic.ok THEN [rc |-> DecodeCount(s, 2), out |-> <<>>]
         ELSE [rc |-> 1, out |-> <<DupOf(s), QosOf(s), s[1] % 2 = 1, topic.text,
                                   WriteIf(QosOf(s) > 0, writeInt(readInt(s, topic.at))),
                                   SubSeq(s, topic.at + Optional(QosOf(s) > 0, 2), EndOf(s) - 1)>>]
  BY Zenon DEF MQTTDeserialize_publish
<1> HIDE DEF topic
<1>23. MQTTDeserialize_publish(s) = [rc |-> 1, out |-> <<m.dup, m.qos, m.retained, t, b, p>>]
  <2>1. EndOf(s) = end /\ Optional(m.qos > 0, 2) = k
    BY <1>1, Zenon DEF end, k
  <2> QED BY <1>1, <1>17, <1>19, <1>20, <1>21, <1>22, <2>1, Zenon
<1>24. Expected(m) = <<m.dup, m.qos, m.retained, t, b, p>>
  BY <1>2, Zenon DEF ExpectedPublish, t, b, p
<1> QED BY <1>4, <1>23, <1>24, Zenon DEF RoundTripOf, s

LEMMA FirstHeld ==
  ASSUME NEW s \in Seq(Byte), NEW at \in Nat \ {0}, NEW b \in Byte, Holds(s, at, <<b>>)
  PROVE  ByteAt(s, at) = b
<1>1. <<b>> \in Seq(Byte) /\ Len(<<b>>) = 1 /\ (<<b>>)[1] = b /\ 1 \in 1 .. 1
  OBVIOUS
<1>2. at + 1 <= Len(s) + 1 /\ s[(at + 1) - 1] = b
  BY <1>1, Zenon DEF Holds
<1>3. Len(s) \in Nat
  BY LenProperties
<1>4. at <= Len(s) /\ (at + 1) - 1 = at
  BY <1>2, <1>3
<1> QED BY <1>2, <1>4, Zenon DEF ByteAt

Readable(s, cond, least, from, str) ==
  Holds(s, from, WriteIf(cond, writeMQTTString(str))) /\ (cond /\ least = 3 => Text(str) # <<>>)
IsRead(s, cond, least, from, str) ==
  /\ ReadIf(s, cond, least, from).ok = TRUE
  /\ ReadIf(s, cond, least, from).at = from + Optional(cond, 2 + Len(Text(str)))
  /\ ReadIf(s, cond, least, from).text = WriteIf(cond, Text(str))
  /\ from + Optional(cond, 2 + Len(Text(str))) \in Nat \ {0}
LEMMA ReadIfHeld ==
  ASSUME NEW s \in Seq(Byte), NEW from \in Nat \ {0}, NEW str \in Strings, NEW cond \in BOOLEAN, NEW least \in {0, 3},
         Readable(s, cond, least, from, str)
  PROVE  IsRead(s, cond, least, from, str)
<1> USE DEF IsRead, Readable
<1> DEFINE t == Text(str)
           end == Len(s) + 1
           got == ReadIf(s, cond, least, from)
<1>1. t \in Seq(Byte) /\ Len(t) \in Nat /\ Len(writeMQTTString(str)) = 2 + Len(t)
  BY StringFacts, Zenon
<1>2. end \in Nat
  BY LenProperties
<1>3. CASE cond
  <2>1. Holds(s, from, writeMQTTString(str))
    BY <1>3, Zenon DEF WriteIf
  <2>2. from + Len(writeMQTTString(str)) <= end
    BY <2>1, Zenon DEF Holds
  <2>3. least = 3 => t # <<>>
    BY <1>3, Zenon
  <2>4. Optional(cond, 2 + Len(t)) = 2 + Len(t) /\ WriteIf(cond, t) = t
    BY <1>3, Zenon DEF Optional, WriteIf
  <2>5. got = IF end - from < least THEN [ok |-> FALSE, at |-> from, text |-> <<>>]
              ELSE readMQTTLenString(s, from, end)
    <3>1. Len(s) + 1 - from = end - from
      BY LenProperties
    <3> QED BY <1>3, <3>1, Zenon DEF ReadIf
  <2>6. Len(t) = 0 => t = <<>>
    BY <1>1, EmptySeq
  <2> HIDE DEF end, t, got
  <2>7. (from + 2) + Len(t) <= end
    BY <1>1, <1>2, <2>2
  <2>8. ~(end - from < least)
    BY <1>1, <1>2, <2>3, <2>6, <2>7
  <2>9. readMQTTLenString(s, from, end) = [ok |-> TRUE, at |-> (from + 2) + Len(t), text |-> t]
    BY <1>2, <2>1, <2>7, ReadString, Zenon DEF t
  <2>10. got = [ok |-> TRUE, at |-> (from + 2) + Len(t), text |-> t]
    BY <2>5, <2>8, <2>9, Zenon
  <2>11. got.ok = TRUE /\ got.at = (from + 2) + Len(t) /\ got.text = t
    BY <2>10
  <2>12. (from + 2) + Len(t) = from + (2 + Len(t)) /\ from + (2 + Len(t)) \in Nat \ {0}
    BY <1>1
  <2> QED BY <2>4, <2>11, <2>12, Zenon DEF t, got
<1>4. CASE ~cond
  <2>1. got = [ok |-> TRUE, at |-> from, text |-> <<>>]
    BY <1>4, Zenon DEF ReadIf
  <2>2. Optional(cond, 2 + Len(t)) = 0 /\ WriteIf(cond, t) = <<>>
    BY <1>4, Zenon DEF Optional, WriteIf
  <2> HIDE DEF got
  <2>3. got.ok = TRUE /\ got.at = from /\ got.text = <<>> /\ from + 0 = from
    BY <2>1
  <2> QED BY <2>2, <2>3, Zenon DEF got
<1> QED BY <1>3, <1>4, Zenon

LEMMA ReadProtocol ==
  ASSUME NEW o, IsConnect(o), NEW s \in Seq(Byte), NEW at \in Nat \ {0}, at = BodyAt(s), Holds(s, at, ProtocolPart(o))
  PROVE  /\ Protocol(s).ok = TRUE /\ Protocol(s).at = (at + ProtocolLen(o)) - 1
         /\ VersionOf(s) = o.version /\ MQTTPacket_checkVersion(Protocol(s).text, o.version)
<1> DEFINE end == Len(s) + 1
           t == IF o.version = 4 THEN ProtocolMQTT ELSE ProtocolMQIsdp
           v == <<o.version>>
           w == writeInt(Len(t)) \o t
           got == Protocol(s)
<1>0. /\ 4 \in Word /\ 6 \in Word /\ ProtocolMQTT \in Seq(Byte) /\ ProtocolMQIsdp \in Seq(Byte)
      /\ Len(ProtocolMQTT) = 4 /\ Len(ProtocolMQIsdp) = 6 /\ v \in Seq(Byte) /\ Len(v) = 1
  BY ProtocolWritten, Zenon
<1>1. t \in Seq(Byte) /\ Len(t) \in Word /\ Len(t) = ProtocolLen(o) - 3 /\ ProtocolPart(o) = w \o v
  <2>1. CASE o.version = 4
    <3>1. t = ProtocolMQTT /\ ProtocolLen(o) - 3 = 4
      BY <2>1 DEF ProtocolLen
    <3>2. ProtocolPart(o) = (writeInt(4) \o ProtocolMQTT) \o <<4>>
      BY <2>1, Zenon DEF ProtocolPart
    <3> HIDE DEF t
    <3> QED BY <1>0, <2>1, <3>1, <3>2, Zenon
  <2>2. CASE o.version # 4
    <3>0. o.version = 3
      BY <2>2, ConnectTypes, Zenon
    <3>1. t = ProtocolMQIsdp /\ ProtocolLen(o) - 3 = 6
      BY <2>2 DEF ProtocolLen
    <3>2. ProtocolPart(o) = (writeInt(6) \o ProtocolMQIsdp) \o <<3>>
      BY <2>2, Zenon DEF ProtocolPart
    <3> HIDE DEF t
    <3> QED BY <1>0, <3>0, <3>1, <3>2, Zenon
  <2> QED BY <2>1, <2>2, Zenon
<1>2. MQTTPacket_checkVersion(t, o.version)
  <2>0. ASSUME NEW p \in Seq(Byte), NEW n \in Nat, Len(p) = n PROVE IsPrefix(Take(p, n), p)
    <3>1. SubSeq(p, 1, Len(p)) = p
      <4>1. Holds(p, 1, p) /\ 1 \in Nat \ {0} /\ (1 + Len(p)) - 1 = Len(p)
        BY <2>0 DEF Holds
      <4> QED BY <4>1, HoldsSub, Zenon
    <3>2. ~(n < Len(p)) /\ Len(p) <= Len(p)
      BY <2>0
    <3>3. Take(p, n) = p
      BY <3>1, <3>2, Zenon DEF Take
    <3> QED BY <3>1, <3>2, <3>3, Zenon DEF IsPrefix
  <2>1. CASE o.version = 4
    <3>1. t = ProtocolMQTT /\ 4 \in Nat
      BY <2>1
    <3>2. IsPrefix(Take(ProtocolMQTT, 4), ProtocolMQTT)
      BY <1>0, <2>0, <3>1, Zenon
    <3> HIDE DEF t
    <3> QED BY <2>1, <3>1, <3>2, Zenon DEF MQTTPacket_checkVersion
  <2>2. CASE o.version # 4
    <3>0. o.version = 3
      BY <2>2, ConnectTypes, Zenon
    <3>1. t = ProtocolMQIsdp /\ 6 \in Nat
      BY <2>2
    <3>2. IsPrefix(Take(ProtocolMQIsdp, 6), ProtocolMQIsdp)
      BY <1>0, <2>0, <3>1, Zenon
    <3> HIDE DEF t
    <3> QED BY <3>0, <3>1, <3>2, Zenon DEF MQTTPacket_checkVersion
  <2> QED BY <2>1, <2>2, Zenon
<1> HIDE DEF t, v
<1>4. w \in Seq(Byte) /\ Len(w) = 2 + Len(t) /\ Len(t) \in Nat
  <2>1. writeInt(Len(t)) \in Seq(Byte) /\ Len(writeInt(Len(t))) = 2
    BY <1>1, WrittenInt, Zenon
  <2> QED BY <1>1, <2>1, Joined, Zenon
<1> HIDE DEF w
<1>5. HeldBoth(s, at, w, v)
  BY <1>0, <1>1, <1>4, HeldParts, Zenon
<1>6. Holds(s, at, w) /\ Holds(s, at + (2 + Len(t)), v)
  BY <1>4, <1>5, Zenon DEF HeldBoth
<1>7. Len(s) \in Nat /\ at + Len(w) <= end
  BY <1>6, LenProperties DEF Holds
<1>8. end \in Nat /\ (at + 2) + Len(t) <= end /\ at + (2 + Len(t)) = (at + 2) + Len(t) /\ (at + 2) + Len(t) \in Nat \ {0}
  BY <1>4, <1>7
<1>9. got = [ok |-> TRUE, at |-> (at + 2) + Len(t), text |-> t]
  <2>1. got = readMQTTLenString(s, at, end)
    BY Zenon DEF Protocol
  <2> HIDE DEF end, got
  <2>2. t \in Seq(Byte) /\ Len(t) \in Word /\ Holds(s, at, w)
    BY <1>1, <1>6, Zenon
  <2>3. Holds(s, at, writeInt(Len(t)) \o t)
    BY <2>2, Zenon DEF w
  <2>4. end \in Nat /\ (at + 2) + Len(t) <= end
    BY <1>8, Zenon
  <2>5. readMQTTLenString(s, at, end) = [ok |-> TRUE, at |-> (at + 2) + Len(t), text |-> t]
    BY <2>2, <2>3, <2>4, ReadText
  <2> QED BY <2>1, <2>5, Zenon
<1> HIDE DEF got
<1>10. got.ok = TRUE /\ got.at = (at + 2) + Len(t) /\ got.text = t
  BY <1>9
<1>11. (at + 2) + Len(t) = (at + ProtocolLen(o)) - 1
  <2>1. ProtocolLen(o) \in Nat
    BY DEF ProtocolLen
  <2> QED BY <1>1, <1>4, <2>1
<1>14. ByteAt(s, (at + 2) + Len(t)) = o.version
  <2>1. o.version \in Byte
    <3>1. o.version \in {3, 4}
      BY ConnectTypes, Zenon
    <3>2. o.version \in Nat /\ o.version < 256
      BY <3>1
    <3> QED BY <3>2, InByte, Zenon
  <2>2. Holds(s, (at + 2) + Len(t), <<o.version>>)
    BY <1>6, <1>8, Zenon DEF v
  <2> QED BY <1>8, <2>1, <2>2, FirstHeld, Zenon
<1>15. VersionOf(s) = o.version
  BY <1>10, <1>14, Zenon DEF VersionOf, got
<1> QED BY <1>2, <1>10, <1>11, <1>15, Zenon DEF got

\* The fields behind the protocol, with the positions the parts of a CONNECT start at.
LEMMA ReadFixed ==
  ASSUME NEW o, IsConnect(o), NEW s \in Seq(Byte), NEW at \in Nat \ {0}, at = BodyAt(s),
         Holds(s, at, MQTTSerialize_connect(o))
  PROVE  /\ FlagsOf(s) = ConnectFlags(o) /\ readInt(s, Protocol(s).at + 2) = o.keepAlive
         /\ ClientID(s).ok = TRUE /\ ClientID(s).text = Text(o.clientID)
         /\ ClientID(s).at = at + (((ProtocolLen(o) + 1) + 2) + (2 + Len(Text(o.clientID))))
<1> DEFINE n == ProtocolLen(o)
           p == Protocol(s).at
           t == Text(o.clientID)
           end == Len(s) + 1
<1>1. /\ Holds(s, at, ProtocolPart(o)) /\ Holds(s, at + n, <<ConnectFlags(o)>>)
      /\ Holds(s, at + (n + 1), writeInt(o.keepAlive)) /\ Holds(s, at + ((n + 1) + 2), writeMQTTString(o.clientID))
  BY ConnectHeld, Zenon
<1>2. o.clientID \in Strings /\ o.keepAlive \in Word /\ ConnectFlags(o) \in Byte
  BY ConnectTypes, FlagsWritten, Zenon
<1>3. Len(t) \in Nat /\ Len(writeMQTTString(o.clientID)) = 2 + Len(t)
  BY <1>2, StringFacts, Zenon
<1>4. p = (at + n) - 1
  BY <1>1, ReadProtocol, Zenon
<1>5. n \in Nat /\ Len(s) \in Nat
  BY LenProperties DEF ProtocolLen
<1>6. (at + ((n + 1) + 2)) + Len(writeMQTTString(o.clientID)) <= end
  BY <1>1, Zenon DEF Holds
<1> HIDE DEF n, p, t
<1>7. /\ p + 1 = at + n /\ p + 2 = at + (n + 1) /\ p + 4 = at + ((n + 1) + 2)
      /\ at + n \in Nat \ {0} /\ at + (n + 1) \in Nat \ {0} /\ at + ((n + 1) + 2) \in Nat \ {0}
      /\ ((at + ((n + 1) + 2)) + 2) + Len(t) <= end /\ end \in Nat
      /\ ((at + ((n + 1) + 2)) + 2) + Len(t) = at + (((n + 1) + 2) + (2 + Len(t)))
  <2>1. p + 1 = at + n /\ p + 2 = at + (n + 1) /\ p + 4 = at + ((n + 1) + 2)
    BY <1>4, <1>5
  <2>2. at + n \in Nat \ {0} /\ at + (n + 1) \in Nat \ {0} /\ at + ((n + 1) + 2) \in Nat \ {0}
    BY <1>5
  <2>3. /\ ((at + ((n + 1) + 2)) + 2) + Len(t) <= end /\ end \in Nat
        /\ ((at + ((n + 1) + 2)) + 2) + Len(t) = at + (((n + 1) + 2) + (2 + Len(t)))
    BY <1>3, <1>5, <1>6
  <2> QED BY <2>1, <2>2, <2>3, Zenon
<1> HIDE DEF end
<1>8. ByteAt(s, at + n) = ConnectFlags(o)
  BY <1>1, <1>2, <1>7, FirstHeld
<1>9. FlagsOf(s) = ConnectFlags(o)
  BY <1>7, <1>8, Zenon DEF FlagsOf, p
<1>10. readInt(s, at + (n + 1)) = o.keepAlive
  BY <1>1, <1>2, <1>7, ReadInt, Zenon
<1> DEFINE from == at + ((n + 1) + 2)
           got == ClientID(s)
<1>11. readMQTTLenString(s, from, end) = [ok |-> TRUE, at |-> (from + 2) + Len(t), text |-> t]
  <2>1. from \in Nat \ {0} /\ Holds(s, from, writeMQTTString(o.clientID)) /\ (from + 2) + Len(t) <= end /\ end \in Nat
    BY <1>1, <1>7, Zenon
  <2> HIDE DEF from
  <2> QED BY <1>2, <2>1, ReadString, Zenon DEF t
<1>12. got = [ok |-> TRUE, at |-> (from + 2) + Len(t), text |-> t]
  <2>1. got = readMQTTLenString(s, p + 4, end)
    BY Zenon DEF ClientID, p, end
  <2> QED BY <1>7, <1>11, <2>1, Zenon
<1> HIDE DEF got, from
<1>13. got.ok = TRUE /\ got.at = (from + 2) + Len(t) /\ got.text = t
  BY <1>12
<1>14. got.at = at + (((n + 1) + 2) + (2 + Len(t)))
  BY <1>7, <1>13, Zenon DEF from
<1>15. readInt(s, p + 2) = o.keepAlive
  BY <1>7, <1>10, Zenon
<1> QED BY <1>9, <1>13, <1>14, <1>15, Zenon DEF got, t, p, n

\* The will, when the flag says that there is one.
LEMMA ReadWill ==
  ASSUME NEW o, IsConnect(o), NEW s \in Seq(Byte), NEW at \in Nat \ {0}, Holds(s, at, WillPart(o)),
         ClientID(s).at = at, Flag(s, 4) = o.willFlag
  PROVE  /\ WillTopic(s).ok = TRUE /\ WillTopic(s).text = WriteIf(o.willFlag, Text(o.willTopic))
         /\ WillMessage(s).ok = TRUE /\ WillMessage(s).text = WriteIf(o.willFlag, Text(o.willMessage))
         /\ WillMessage(s).at = at + WillLen(o) /\ at + WillLen(o) \in Nat \ {0}
<1> DEFINE w == o.willFlag
           a == writeMQTTString(o.willTopic)
           b == writeMQTTString(o.willMessage)
           la == 2 + Len(Text(o.willTopic))
           lb == 2 + Len(Text(o.willMessage))
           next == at + Optional(w, la)
<1>1. w \in BOOLEAN /\ o.willTopic \in Strings /\ o.willMessage \in Strings /\ 0 \in {0, 3} /\ 0 # 3
  BY ConnectTypes
<1>2. a \in Seq(Byte) /\ b \in Seq(Byte) /\ Len(a) = la /\ Len(b) = lb /\ la \in Nat /\ lb \in Nat
  <2>1. /\ a \in Seq(Byte) /\ b \in Seq(Byte) /\ Len(a) = la /\ Len(b) = lb
        /\ Len(Text(o.willTopic)) \in Nat /\ Len(Text(o.willMessage)) \in Nat
    BY <1>1, StringFacts, Zenon
  <2> QED BY <2>1
<1> HIDE DEF la, lb
<1>3. Holds(s, at, WriteIf(w, a)) /\ Holds(s, next, WriteIf(w, b)) /\ next \in Nat \ {0}
      /\ next + Optional(w, lb) = at + WillLen(o)
  <2>1. CASE w
    <3>1. WriteIf(w, a) = a /\ WriteIf(w, b) = b /\ Optional(w, la) = la /\ Optional(w, lb) = lb
      BY <2>1, Zenon DEF WriteIf, Optional
    <3>2. WillLen(o) = la + lb /\ WillPart(o) = a \o b
      BY <2>1, Zenon DEF WillLen, WillPart, Optional, WriteIf, la, lb
    <3> HIDE DEF a, b
    <3>3. HeldBoth(s, at, a, b)
      BY <1>2, <3>2, HeldParts, Zenon
    <3>4. at + la \in Nat \ {0} /\ (at + la) + lb = at + (la + lb)
      BY <1>2
    <3> QED BY <1>2, <3>1, <3>2, <3>3, <3>4, Zenon DEF HeldBoth
  <2>2. CASE ~w
    <3>1. WriteIf(w, a) = <<>> /\ WriteIf(w, b) = <<>> /\ Optional(w, la) = 0 /\ Optional(w, lb) = 0
      BY <2>2, Zenon DEF WriteIf, Optional
    <3>2. WillLen(o) = 0 /\ WillPart(o) = <<>>
      BY <2>2, Zenon DEF WillLen, WillPart, Optional, WriteIf
    <3>3. at + 0 = at
      OBVIOUS
    <3> QED BY <3>1, <3>2, <3>3, Zenon
  <2> QED BY <2>1, <2>2, Zenon
<1> DEFINE topic == ReadIf(s, w, 0, at)
           message == ReadIf(s, w, 0, next)
<1>4. topic.ok = TRUE /\ topic.at = next /\ topic.text = WriteIf(w, Text(o.willTopic))
  <2>1. Readable(s, w, 0, at, o.willTopic)
    BY <1>1, <1>3, Zenon DEF Readable
  <2>2. IsRead(s, w, 0, at, o.willTopic)
    BY <1>1, <2>1, ReadIfHeld, Zenon
  <2> QED BY <2>2, Zenon DEF IsRead, la
<1>5. WillTopic(s) = topic
  BY Zenon DEF WillTopic
<1>6. message.ok = TRUE /\ message.at = next + Optional(w, lb) /\ message.text = WriteIf(w, Text(o.willMessage))
  <2> HIDE DEF next
  <2>1. Readable(s, w, 0, next, o.willMessage)
    BY <1>1, <1>3, Zenon DEF Readable
  <2>2. IsRead(s, w, 0, next, o.willMessage)
    BY <1>1, <1>3, <2>1, ReadIfHeld, Zenon
  <2> QED BY <2>2, Zenon DEF IsRead, lb
<1>7. WillMessage(s) = message
  BY <1>4, <1>5, Zenon DEF WillMessage
<1>8. at + WillLen(o) \in Nat \ {0}
  <2>1. Optional(w, lb) \in Nat
    BY <1>2 DEF Optional
  <2> HIDE DEF next
  <2>2. next + Optional(w, lb) \in Nat \ {0}
    BY <1>3, <2>1
  <2> QED BY <1>3, <2>2, Zenon
<1> QED BY <1>3, <1>4, <1>5, <1>6, <1>7, <1>8, Zenon

LEMMA ReadNames ==
  ASSUME NEW o, IsConnect(o), NEW s \in Seq(Byte), NEW at \in Nat \ {0}, Holds(s, at, NamePart(o)),
         Holds(s, at + NameLen(o), PasswordPart(o)),
         WillMessage(s).at = at, Flag(s, 128) = Present(o.username), Flag(s, 64) = Present(o.password)
  PROVE  /\ Username(s).ok = TRUE /\ Username(s).text = Text(o.username)
         /\ Password(s).ok = TRUE /\ Password(s).text = Text(o.password)
<1> DEFINE u == Present(o.username)
           p == Present(o.password)
           next == at + NameLen(o)
<1>1. /\ u \in BOOLEAN /\ p \in BOOLEAN /\ o.username \in Strings /\ o.password \in Strings
      /\ (u => Text(o.username) # <<>>) /\ (p => Text(o.password) # <<>>)
  BY ConnectTypes, Zenon
<1>2. WriteIf(u, Text(o.username)) = Text(o.username) /\ WriteIf(p, Text(o.password)) = Text(o.password)
  BY <1>1, StringFacts, Zenon DEF WriteIf
<1>3. 3 \in {0, 3}
  OBVIOUS
<1>4. Readable(s, u, 3, at, o.username)
  BY <1>1, Zenon DEF Readable, NamePart
<1>5. IsRead(s, u, 3, at, o.username)
  <2> HIDE DEF u
  <2> QED BY <1>1, <1>3, <1>4, ReadIfHeld, Zenon
<1>6. Username(s) = ReadIf(s, u, 3, at)
  BY Zenon DEF Username
<1>7. Username(s).ok = TRUE /\ Username(s).at = next /\ Username(s).text = Text(o.username) /\ next \in Nat \ {0}
  BY <1>2, <1>5, <1>6, Zenon DEF IsRead, NameLen
<1>8. Readable(s, p, 3, next, o.password)
  BY <1>1, Zenon DEF Readable, PasswordPart
<1>9. IsRead(s, p, 3, next, o.password)
  <2>1. p \in BOOLEAN /\ o.password \in Strings /\ next \in Nat \ {0}
    BY <1>1, <1>7, Zenon
  <2> HIDE DEF p, next
  <2> QED BY <1>3, <1>8, <2>1, ReadIfHeld, Zenon
<1>10. Password(s) = ReadIf(s, p, 3, next)
  <2>1. (u /\ p) = p
    BY <1>1, ConnectTypes, Zenon
  <2> QED BY <1>7, <2>1, Zenon DEF Password
<1>11. Password(s).ok = TRUE /\ Password(s).text = Text(o.password)
  BY <1>2, <1>9, <1>10, Zenon DEF IsRead
<1> QED BY <1>7, <1>11, Zenon

LEMMA ConnectRoundTrip ==
  ASSUME NEW m, IsMessage(m), m.type = CONNECT
  PROVE  RoundTripOf(m)
<1> DEFINE s == MQTTSerialize(m)
           at == BodyAt(s)
           f == ConnectFlags(m)
           will == at + (((ProtocolLen(m) + 1) + 2) + (2 + Len(Text(m.clientID))))
           names == will + WillLen(m)
<1>1. /\ s \in Seq(Byte) /\ at \in Nat \ {0} /\ Holds(s, at, Body(m)) /\ TypeOf(s[1]) = CONNECT
  BY FrameFacts, Zenon
<1>2. IsConnect(m) /\ Body(m) = MQTTSerialize_connect(m) /\ Expected(m) = ExpectedConnect(m)
  BY BodyIs, ExpectedIs, MessageFacts, Zenon
<1>3. Deserialize(m.type, s) = MQTTDeserialize_connect(s)
  BY DeserializeIs, Zenon
<1>4. m.cleansession \in BOOLEAN /\ m.willFlag \in BOOLEAN /\ m.willRetain \in BOOLEAN
  BY <1>2, Zenon DEF IsConnect
<1>5. /\ Present(m.username) \in BOOLEAN /\ Present(m.password) \in BOOLEAN
      /\ (Present(m.password) => Present(m.username)) /\ m.clientID \in Strings
  BY <1>2, ConnectTypes, Zenon
<1>6. /\ ((f \div 2) % 2 = 1 <=> m.cleansession) /\ ((f \div 4) % 2 = 1 <=> m.willFlag)
      /\ (f \div 8) % 4 = Optional(m.willFlag, m.willQoS)
      /\ ((f \div 32) % 2 = 1 <=> (m.willFlag /\ m.willRetain))
      /\ ((f \div 64) % 2 = 1 <=> Present(m.password)) /\ ((f \div 128) % 2 = 1 <=> Present(m.username))
  BY <1>2, FlagsWritten, Zenon
<1> HIDE DEF s, at, f
<1>7. at = BodyAt(s) /\ f = ConnectFlags(m) /\ Holds(s, at, MQTTSerialize_connect(m))
  BY <1>1, <1>2, Zenon DEF at, f
<1>8. /\ Holds(s, at, ProtocolPart(m)) /\ Holds(s, will, WillPart(m))
      /\ Holds(s, at + ((((ProtocolLen(m) + 1) + 2) + (2 + Len(Text(m.clientID)))) + WillLen(m)), NamePart(m))
      /\ Holds(s, at + (((((ProtocolLen(m) + 1) + 2) + (2 + Len(Text(m.clientID)))) + WillLen(m)) + NameLen(m)),
               PasswordPart(m))
  BY <1>1, <1>2, <1>7, ConnectHeld, Zenon
<1>9. /\ Protocol(s).ok = TRUE /\ VersionOf(s) = m.version
      /\ MQTTPacket_checkVersion(Protocol(s).text, m.version)
  BY <1>1, <1>2, <1>7, <1>8, ReadProtocol, Zenon
<1>10. /\ FlagsOf(s) = f /\ readInt(s, Protocol(s).at + 2) = m.keepAlive
       /\ ClientID(s).ok = TRUE /\ ClientID(s).text = Text(m.clientID) /\ ClientID(s).at = will
  BY <1>1, <1>2, <1>7, ReadFixed, Zenon
<1>11. /\ Flag(s, 2) = m.cleansession /\ Flag(s, 4) = m.willFlag /\ Flag(s, 32) = (m.willFlag /\ m.willRetain)
       /\ Flag(s, 64) = Present(m.password) /\ Flag(s, 128) = Present(m.username)
  <2>1. \A bit : Flag(s, bit) = ((f \div bit) % 2 = 1)
    BY <1>10, Zenon DEF Flag
  <2> QED BY <1>4, <1>5, <1>6, <2>1, Zenon
<1>12. Len(Text(m.clientID)) \in Nat /\ ProtocolLen(m) \in Nat /\ WillLen(m) \in Nat /\ NameLen(m) \in Nat
  <2>1. \A str \in Strings : Len(Text(str)) \in Nat
    BY StringFacts, Zenon
  <2>2. m.willTopic \in Strings /\ m.willMessage \in Strings /\ m.username \in Strings
    BY <1>2, ConnectTypes, Zenon
  <2>3. Len(Text(m.willTopic)) \in Nat /\ Len(Text(m.willMessage)) \in Nat /\ Len(Text(m.username)) \in Nat
    BY <2>1, <2>2, Zenon
  <2>4. ProtocolLen(m) \in Nat
    BY DEF ProtocolLen
  <2>5. WillLen(m) \in Nat /\ NameLen(m) \in Nat
    BY <2>3 DEF WillLen, NameLen, Optional
  <2> QED BY <1>5, <2>1, <2>4, <2>5, Zenon
<1>13. will \in Nat \ {0}
  BY <1>1, <1>12
<1>14. /\ at + ((((ProtocolLen(m) + 1) + 2) + (2 + Len(Text(m.clientID)))) + WillLen(m)) = names
       /\ at + (((((ProtocolLen(m) + 1) + 2) + (2 + Len(Text(m.clientID)))) + WillLen(m)) + NameLen(m))
            = names + NameLen(m)
  BY <1>1, <1>12
<1> HIDE DEF will
<1>15. /\ WillTopic(s).ok = TRUE /\ WillTopic(s).text = WriteIf(m.willFlag, Text(m.willTopic))
       /\ WillMessage(s).ok = TRUE /\ WillMessage(s).text = WriteIf(m.willFlag, Text(m.willMessage))
       /\ WillMessage(s).at = names /\ names \in Nat \ {0}
  BY <1>1, <1>2, <1>8, <1>10, <1>11, <1>13, ReadWill, Zenon
<1> HIDE DEF names
<1>16. /\ Username(s).ok = TRUE /\ Username(s).text = Text(m.username)
       /\ Password(s).ok = TRUE /\ Password(s).text = Text(m.password)
  <2>1. Holds(s, names, NamePart(m)) /\ Holds(s, names + NameLen(m), PasswordPart(m))
    BY <1>8, <1>14, Zenon
  <2> QED BY <1>1, <1>2, <1>11, <1>15, <2>1, ReadNames, Zenon
<1> DEFINE good == /\ TypeOf(s[1]) = CONNECT
                   /\ Protocol(s).ok /\ MQTTPacket_checkVersion(Protocol(s).text, VersionOf(s))
                   /\ ClientID(s).ok /\ WillTopic(s).ok /\ WillMessage(s).ok /\ Username(s).ok /\ Password(s).ok
                   /\ (Flag(s, 64) => Flag(s, 128))
           out == <<VersionOf(s), Flag(s, 2), Flag(s, 4), (FlagsOf(s) \div 8) % 4, Flag(s, 32),
                    readInt(s, Protocol(s).at + 2), ClientID(s).text, WillTopic(s).text, WillMessage(s).text,
                    Username(s).text, Password(s).text>>
<1>17. MQTTDeserialize_connect(s) = [rc |-> Bit(good), out |-> out]
  BY Zenon DEF MQTTDeserialize_connect
<1>18. good = TRUE
  BY <1>1, <1>5, <1>9, <1>10, <1>11, <1>15, <1>16, Zenon
<1>19. out = ExpectedConnect(m)
  <2>1. (FlagsOf(s) \div 8) % 4 = Optional(m.willFlag, m.willQoS)
    BY <1>6, <1>10, Zenon
  <2> QED BY <1>9, <1>10, <1>11, <1>15, <1>16, <2>1, Zenon DEF ExpectedConnect
<1> HIDE DEF good, out
<1>20. Bit(good) = 1
  BY <1>18, Zenon DEF Bit
<1> QED BY <1>2, <1>3, <1>17, <1>19, <1>20, Zenon DEF RoundTripOf, s

-----------------------------------------------------------------------------
(***************************************************************************)
(* The loop over the filters finds every one of them and then stops.       *)
(***************************************************************************)

\* Where each filter starts, and that the loop has a round for each.
Pieces(pos, s, list, withQos, from) ==
  /\ pos[0] = from /\ pos[Len(list)] = Len(s) + 1 /\ Len(list) <= Len(s)
  /\ \A k \in 0 .. Len(list) : pos[k] \in Nat \ {0} /\ pos[k] <= Len(s) + 1
  /\ \A k \in 1 .. Len(list) : /\ Holds(s, pos[k - 1], Filter(list[k], withQos))
                               /\ pos[k] = pos[k - 1] + Len(Filter(list[k], withQos))

LEMMA FilterPieces ==
  ASSUME NEW list \in FilterLists, NEW withQos \in BOOLEAN, NEW s \in Seq(Byte), NEW from \in Nat \ {0},
         Holds(s, from, WriteFilters(list, withQos)), from + Len(WriteFilters(list, withQos)) = Len(s) + 1
  PROVE  \E pos : Pieces(pos, s, list, withQos, from)
<1> DEFINE N == Len(list)
           F(k) == Filter(list[k], withQos)
<1>1. PICK written : /\ written[0] = <<>>
                     /\ \A k \in 0 .. N : written[k] \in Seq(Byte)
                     /\ \A k \in 1 .. N : written[k] = written[k - 1] \o F(k)
                     /\ WriteFilters(list, withQos) = written[N]
  BY WriteLoop, Zenon
<1>2. N \in Nat /\ \A k \in 1 .. N : F(k) \in Seq(Byte) /\ Len(F(k)) \in Nat /\ Len(F(k)) >= 1
  <2>1. N \in Nat /\ \A k \in 1 .. N : list[k].topic \in Strings /\ list[k].qos \in Byte
    BY FilterFacts, Zenon
  <2>2. ASSUME NEW k \in 1 .. N PROVE F(k) \in Seq(Byte) /\ Len(F(k)) \in Nat /\ Len(F(k)) >= 1
    <3>1. F(k) \in Seq(Byte) /\ Len(F(k)) = (2 + MQTTstrlen(list[k].topic)) + Bit(withQos) /\ MQTTstrlen(list[k].topic) \in Nat
      BY <2>1, <2>2, FilterWritten, Zenon
    <3>2. Bit(withQos) \in Nat
      BY DEF Bit
    <3> QED BY <3>1, <3>2
  <2> QED BY <2>1, <2>2, Zenon
<1>3. Holds(s, from, written[N]) /\ from + Len(written[N]) = Len(s) + 1 /\ Len(s) \in Nat
  BY <1>1, LenProperties, Zenon
<1> HIDE DEF N, F
<1>4. \A k \in 1 .. N : Len(written[k]) = Len(written[k - 1]) + Len(F(k)) /\ k - 1 \in 0 .. N /\ k \in 0 .. N
  <2> TAKE k \in 1 .. N
  <2>1. k - 1 \in 0 .. N /\ k \in 0 .. N
    BY <1>2
  <2>2. Len(written[k - 1] \o F(k)) = Len(written[k - 1]) + Len(F(k))
    BY <1>1, <1>2, <2>1, Joined, Zenon
  <2> QED BY <1>1, <2>1, <2>2, Zenon
<1>5. ASSUME NEW k \in 1 .. N, Holds(s, from, written[k])
      PROVE  Holds(s, from, written[k - 1]) /\ Holds(s, from + Len(written[k - 1]), F(k))
  <2>1. written[k - 1] \in Seq(Byte) /\ F(k) \in Seq(Byte) /\ Holds(s, from, written[k - 1] \o F(k))
    BY <1>1, <1>2, <1>4, <1>5, Zenon
  <2> QED BY <2>1, HeldParts, Zenon DEF HeldBoth
<1>6. \A k \in 0 .. N : Holds(s, from, written[k])
  <2> DEFINE P == [j \in 0 .. N |-> Holds(s, from, written[N - j])]
  <2>1. P[0]
    <3>1. N - 0 = N /\ 0 \in 0 .. N
      BY <1>2
    <3> QED BY <1>3, <3>1, Zenon
  <2>2. ASSUME NEW j \in 1 .. N, P[j - 1] PROVE P[j]
    <3> DEFINE k == N - (j - 1)
    <3>1. k \in 1 .. N /\ k - 1 = N - j /\ j - 1 \in 0 .. N /\ j \in 0 .. N
      BY <1>2
    <3>2. Holds(s, from, written[k])
      BY <2>2, <3>1, Zenon
    <3> HIDE DEF k
    <3>3. Holds(s, from, written[N - j])
      BY <1>5, <3>1, <3>2, Zenon
    <3> QED BY <3>1, <3>3, Zenon
  <2> HIDE DEF P
  <2>3. \A j \in 0 .. N : P[j]
    BY <1>2, <2>1, <2>2, Induct, Zenon
  <2> TAKE k \in 0 .. N
  <2>4. N - k \in 0 .. N /\ N - (N - k) = k
    BY <1>2
  <2>5. P[N - k] = Holds(s, from, written[N - (N - k)])
    BY <2>4, Zenon DEF P
  <2> QED BY <2>3, <2>4, <2>5, Zenon
<1> DEFINE pos == [k \in 0 .. N |-> from + Len(written[k])]
<1>7. \A k \in 0 .. N : pos[k] = from + Len(written[k])
  BY Zenon
<1> HIDE DEF pos
<1>8. \A k \in 0 .. N : pos[k] \in Nat \ {0} /\ pos[k] <= Len(s) + 1 /\ Len(written[k]) \in Nat
  <2> TAKE k \in 0 .. N
  <2>1. Len(written[k]) \in Nat
    BY <1>1, LenProperties, Zenon
  <2>2. from + Len(written[k]) <= Len(s) + 1
    BY <1>6, Zenon DEF Holds
  <2>3. from + Len(written[k]) \in Nat \ {0}
    BY <2>1
  <2> QED BY <1>7, <2>1, <2>2, <2>3, Zenon
<1>9. 0 \in 0 .. N /\ N \in 0 .. N
  BY <1>2
<1>10. pos[0] = from /\ pos[N] = Len(s) + 1
  <2>1. Len(written[0]) = 0
    BY <1>1
  <2>2. from + 0 = from
    OBVIOUS
  <2> QED BY <1>3, <1>7, <1>9, <2>1, <2>2, Zenon
<1>11. \A k \in 1 .. N : Holds(s, pos[k - 1], F(k)) /\ pos[k] = pos[k - 1] + Len(F(k))
  <2> TAKE k \in 1 .. N
  <2>1. k - 1 \in 0 .. N /\ k \in 0 .. N /\ Len(written[k]) = Len(written[k - 1]) + Len(F(k))
    BY <1>4, Zenon
  <2>2. Holds(s, pos[k - 1], F(k))
    BY <1>5, <1>6, <1>7, <2>1, Zenon
  <2>3. Len(written[k - 1]) \in Nat /\ Len(F(k)) \in Nat
    BY <1>2, <1>8, <2>1, Zenon
  <2>4. from + (Len(written[k - 1]) + Len(F(k))) = (from + Len(written[k - 1])) + Len(F(k))
    BY <2>3
  <2> QED BY <1>7, <2>1, <2>2, <2>4, Zenon
<1>12. \A k \in 0 .. N : pos[k] >= k + 1
  <2> DEFINE P == [k \in 0 .. N |-> pos[k] >= k + 1]
  <2>1. P[0]
    <3>1. from >= 0 + 1
      OBVIOUS
    <3> QED BY <1>9, <1>10, <3>1, Zenon
  <2>2. ASSUME NEW k \in 1 .. N, P[k - 1] PROVE P[k]
    <3>1. k - 1 \in 0 .. N /\ k \in 0 .. N
      BY <1>4, Zenon
    <3>2. pos[k - 1] >= (k - 1) + 1
      BY <2>2, <3>1, Zenon
    <3>3. pos[k - 1] \in Nat /\ Len(F(k)) \in Nat /\ Len(F(k)) >= 1 /\ pos[k] = pos[k - 1] + Len(F(k))
      BY <1>2, <1>8, <1>11, <3>1
    <3>4. pos[k] >= k + 1
      BY <3>2, <3>3
    <3> QED BY <3>1, <3>4, Zenon
  <2> HIDE DEF P
  <2>3. \A k \in 0 .. N : P[k]
    BY <1>2, <2>1, <2>2, Induct, Zenon
  <2> QED BY <2>3, Zenon DEF P
<1>13. N <= Len(s)
  <2>1. pos[N] >= N + 1
    BY <1>9, <1>12, Zenon
  <2> QED BY <1>2, <1>3, <1>10, <2>1
<1>14. Pieces(pos, s, list, withQos, from)
  BY <1>8, <1>10, <1>11, <1>13, Zenon DEF Pieces, N, F
<1> QED BY <1>14, Zenon

\* The rounds of the loop, as the deserialiser takes them.
FilterRound(s, withQos, l) ==
  LET topic == readMQTTLenString(s, l.at, EndOf(s)) IN
  IF ~topic.ok \/ (withQos /\ topic.at >= EndOf(s)) THEN [l EXCEPT !.ok = FALSE]
  ELSE [ok |-> TRUE, at |-> topic.at + Bit(withQos),
        list |-> Append(l.list, <<topic.text, Optional(withQos, readChar(ByteAt(s, topic.at)))>>)]
NextRound(s, withQos, l) == IF l.ok /\ l.at < EndOf(s) THEN FilterRound(s, withQos, l) ELSE l
FirstRound(s) == [ok |-> TRUE, at |-> BodyAt(s) + 2, list |-> <<>>]
Rounds(f, s, withQos) ==
  [k \in 0 .. Len(s) |-> IF k = 0 THEN FirstRound(s) ELSE NextRound(s, withQos, f[k - 1])]

LEMMA FiltersIs ==
  ASSUME NEW s, NEW withQos
  PROVE  Filters(s, withQos) = (CHOOSE f : f = Rounds(f, s, withQos))[Len(s)]
BY Zenon DEF Filters, Rounds, FirstRound, NextRound, FilterRound

Entry(f, withQos) == <<Text(f.topic), Optional(withQos, readChar(f.qos))>>
Entries(list, withQos, k) == [i \in 1 .. k |-> Entry(list[i], withQos)]

LEMMA EntriesGrow ==
  ASSUME NEW list, NEW withQos, NEW k \in Nat \ {0}
  PROVE  Append(Entries(list, withQos, k - 1), Entry(list[k], withQos)) = Entries(list, withQos, k)
<1> DEFINE E(i) == Entry(list[i], withQos)
           S == {E(i) : i \in 1 .. k}
           a == [i \in 1 .. k - 1 |-> E(i)]
<1> HIDE DEF E
<1>1. a \in Seq(S) /\ Len(a) = k - 1 /\ E(k) \in S
  OBVIOUS
<1>2. Append(a, E(k)) = [i \in 1 .. k |-> E(i)]
  BY <1>1
<1> QED BY <1>2, Zenon DEF Entries, E

\* The loop stands at a filter; and what the round makes of that.
AtFilter(s, withQos, l, at, f) ==
  /\ f.topic \in Strings /\ f.qos \in Byte /\ withQos \in BOOLEAN /\ s \in Seq(Byte) /\ at \in Nat \ {0}
  /\ Holds(s, at, Filter(f, withQos)) /\ EndOf(s) = Len(s) + 1 /\ l.ok = TRUE /\ l.at = at
PastFilter(s, withQos, l, at, f) ==
  NextRound(s, withQos, l) =
    [ok |-> TRUE, at |-> at + Len(Filter(f, withQos)), list |-> Append(l.list, Entry(f, withQos))]
LEMMA OneFilter ==
  ASSUME NEW f, NEW withQos, NEW s, NEW at, NEW l, AtFilter(s, withQos, l, at, f)
  PROVE  PastFilter(s, withQos, l, at, f)
<1> SUFFICES ASSUME f.topic \in Strings, f.qos \in Byte, withQos \in BOOLEAN, s \in Seq(Byte), at \in Nat \ {0},
                    Holds(s, at, Filter(f, withQos)), EndOf(s) = Len(s) + 1, l.ok = TRUE, l.at = at
             PROVE  NextRound(s, withQos, l) =
                      [ok |-> TRUE, at |-> at + Len(Filter(f, withQos)), list |-> Append(l.list, Entry(f, withQos))]
  BY Zenon DEF AtFilter, PastFilter
<1> DEFINE a == writeMQTTString(f.topic)
           b == WriteIf(withQos, <<f.qos>>)
           t == Text(f.topic)
           end == Len(s) + 1
           next == (at + 2) + Len(t)
<1>1. /\ a \in Seq(Byte) /\ b \in Seq(Byte) /\ Len(a) = 2 + Len(t) /\ Len(t) \in Nat
      /\ Len(Filter(f, withQos)) = (2 + Len(t)) + Bit(withQos) /\ Filter(f, withQos) = a \o b
  BY FilterWritten, StringFacts, Zenon DEF Filter
<1>2. HeldBoth(s, at, a, b)
  BY <1>1, HeldParts, Zenon
<1>3. Holds(s, at, a) /\ Holds(s, at + (2 + Len(t)), b)
  BY <1>1, <1>2, Zenon DEF HeldBoth
<1>4. /\ Len(s) \in Nat /\ at + ((2 + Len(t)) + Bit(withQos)) <= end /\ Bit(withQos) \in Nat
      /\ (withQos => Bit(withQos) = 1)
  <2>1. Len(s) \in Nat /\ at + Len(Filter(f, withQos)) <= end
    BY LenProperties, Zenon DEF Holds
  <2>2. Bit(withQos) \in Nat /\ (withQos => Bit(withQos) = 1)
    BY DEF Bit
  <2> QED BY <1>1, <2>1, <2>2, Zenon
<1> HIDE DEF a, b, t
<1>5. /\ at + (2 + Len(t)) = next /\ next <= end /\ end \in Nat /\ next \in Nat \ {0} /\ at < end
      /\ (withQos => ~(next >= end)) /\ next + Bit(withQos) = at + ((2 + Len(t)) + Bit(withQos))
  BY <1>1, <1>4
<1>6. readMQTTLenString(s, at, end) = [ok |-> TRUE, at |-> next, text |-> t]
  <2> HIDE DEF end
  <2> QED BY <1>3, <1>5, ReadString, Zenon DEF t, a
<1> HIDE DEF next, end
<1>7. Optional(withQos, readChar(ByteAt(s, next))) = Optional(withQos, readChar(f.qos))
  <2>1. CASE withQos
    <3>1. Holds(s, next, <<f.qos>>)
      BY <1>3, <1>5, <2>1, Zenon DEF b, WriteIf
    <3>2. ByteAt(s, next) = f.qos
      BY <1>5, <3>1, FirstHeld
    <3> QED BY <3>2, Zenon
  <2>2. CASE ~withQos
    BY <2>2, Zenon DEF Optional
  <2> QED BY <2>1, <2>2, Zenon
<1> DEFINE topic == readMQTTLenString(s, l.at, EndOf(s))
<1>8. topic.ok = TRUE /\ topic.at = next /\ topic.text = t
  <2>1. topic = [ok |-> TRUE, at |-> next, text |-> t]
    BY <1>6, Zenon DEF end
  <2> HIDE DEF topic
  <2> QED BY <2>1
<1>9. NextRound(s, withQos, l) = FilterRound(s, withQos, l)
  BY <1>5, Zenon DEF NextRound, end
<1>10. FilterRound(s, withQos, l) =
         IF ~topic.ok \/ (withQos /\ topic.at >= EndOf(s)) THEN [l EXCEPT !.ok = FALSE]
         ELSE [ok |-> TRUE, at |-> topic.at + Bit(withQos),
               list |-> Append(l.list, <<topic.text, Optional(withQos, readChar(ByteAt(s, topic.at)))>>)]
  BY Zenon DEF FilterRound
<1> HIDE DEF topic
<1>11. ~(~topic.ok \/ (withQos /\ topic.at >= EndOf(s)))
  BY <1>5, <1>8, Zenon DEF end
<1>12. FilterRound(s, withQos, l) =
         [ok |-> TRUE, at |-> next + Bit(withQos), list |-> Append(l.list, <<t, Optional(withQos, readChar(f.qos))>>)]
  BY <1>7, <1>8, <1>10, <1>11, Zenon
<1> QED BY <1>1, <1>5, <1>9, <1>12, Zenon DEF Entry, t

LEMMA AllFilters ==
  ASSUME NEW list \in FilterLists, NEW withQos \in BOOLEAN, NEW s \in Seq(Byte), NEW from \in Nat \ {0},
         from = BodyAt(s) + 2, EndOf(s) = Len(s) + 1,
         Holds(s, from, WriteFilters(list, withQos)), from + Len(WriteFilters(list, withQos)) = Len(s) + 1
  PROVE  Filters(s, withQos).ok = TRUE /\ Filters(s, withQos).list = Entries(list, withQos, Len(list))
<1> DEFINE N == Len(list)
           M == Len(s)
<1>1. PICK pos : Pieces(pos, s, list, withQos, from)
  BY FilterPieces, Zenon
<1>2. /\ pos[0] = from /\ pos[N] = M + 1 /\ N <= M
      /\ \A k \in 0 .. N : pos[k] \in Nat \ {0} /\ pos[k] <= M + 1
      /\ \A k \in 1 .. N : /\ Holds(s, pos[k - 1], Filter(list[k], withQos))
                           /\ pos[k] = pos[k - 1] + Len(Filter(list[k], withQos))
  BY <1>1, Zenon DEF Pieces
<1>3. N \in Nat /\ M \in Nat /\ \A k \in 1 .. N : list[k].topic \in Strings /\ list[k].qos \in Byte
  BY FilterFacts, LenProperties, Zenon
<1> HIDE DEF N, M
<1>4. EndOf(s) = M + 1
  BY Zenon DEF M
<1> DEFINE After(k) == [ok |-> TRUE, at |-> pos[k], list |-> Entries(list, withQos, k)]
           W == [k \in 0 .. M |-> IF k <= N THEN After(k) ELSE After(N)]
<1>5. \A k : After(k).ok = TRUE /\ After(k).at = pos[k] /\ After(k).list = Entries(list, withQos, k)
  OBVIOUS
<1> HIDE DEF After
<1>6. After(0) = FirstRound(s)
  <2>1. Entries(list, withQos, 0) = <<>>
    BY DEF Entries
  <2> QED BY <1>2, <2>1, Zenon DEF After, FirstRound
<1>7. ASSUME NEW k \in 1 .. N PROVE NextRound(s, withQos, After(k - 1)) = After(k)
  <2>1. k - 1 \in 0 .. N /\ k \in Nat \ {0}
    BY <1>3
  <2>2. /\ pos[k - 1] \in Nat \ {0} /\ Holds(s, pos[k - 1], Filter(list[k], withQos))
        /\ pos[k] = pos[k - 1] + Len(Filter(list[k], withQos)) /\ list[k].topic \in Strings /\ list[k].qos \in Byte
    BY <1>2, <1>3, <2>1, Zenon
  <2>3. After(k - 1).ok = TRUE /\ After(k - 1).at = pos[k - 1] /\ After(k - 1).list = Entries(list, withQos, k - 1)
    BY <1>5, Zenon
  <2>4. NextRound(s, withQos, After(k - 1)) =
          [ok |-> TRUE, at |-> pos[k - 1] + Len(Filter(list[k], withQos)),
           list |-> Append(After(k - 1).list, Entry(list[k], withQos))]
    <3> DEFINE f == list[k]
               l == After(k - 1)
               a == pos[k - 1]
    <3>1. AtFilter(s, withQos, l, a, f)
      BY <2>2, <2>3, Zenon DEF AtFilter
    <3> HIDE DEF f, l, a
    <3>2. PastFilter(s, withQos, l, a, f)
      BY <3>1, OneFilter, Zenon
    <3> QED BY <3>2, Zenon DEF PastFilter, f, l, a
  <2>5. Append(Entries(list, withQos, k - 1), Entry(list[k], withQos)) = Entries(list, withQos, k)
    BY <2>1, EntriesGrow, Zenon
  <2> QED BY <2>2, <2>3, <2>4, <2>5, Zenon DEF After
<1>8. NextRound(s, withQos, After(N)) = After(N)
  <2>1. ~(M + 1 < M + 1)
    BY <1>3
  <2> QED BY <1>2, <1>4, <1>5, <2>1, Zenon DEF NextRound
<1>9. W[0] = FirstRound(s) /\ \A k \in 1 .. M : W[k] = NextRound(s, withQos, W[k - 1])
  <2>1. 0 \in 0 .. M /\ 0 <= N
    BY <1>3
  <2>2. W[0] = FirstRound(s)
    BY <1>6, <2>1, Zenon
  <2>3. ASSUME NEW k \in 1 .. M PROVE W[k] = NextRound(s, withQos, W[k - 1])
    <3>1. k \in 0 .. M /\ k - 1 \in 0 .. M
      BY <1>3
    <3>2. CASE k <= N
      <4>1. k \in 1 .. N /\ k - 1 <= N
        BY <1>3, <3>2
      <4>2. W[k] = After(k) /\ W[k - 1] = After(k - 1)
        BY <3>1, <3>2, <4>1, Zenon
      <4> QED BY <1>7, <4>1, <4>2, Zenon
    <3>3. CASE ~(k <= N)
      <4>1. k - 1 <= N => k - 1 = N
        BY <1>3, <3>3
      <4>2. W[k] = After(N) /\ W[k - 1] = After(N)
        BY <3>1, <3>3, <4>1, Zenon
      <4> QED BY <1>8, <4>2, Zenon
    <3> QED BY <3>2, <3>3, Zenon
  <2> QED BY <2>2, <2>3, Zenon
<1>10. W[M] = After(N)
  <2>1. M \in 0 .. M /\ (M <= N => M = N)
    BY <1>2, <1>3
  <2> QED BY <2>1, Zenon
<1>11. W = [k \in 0 .. M |-> W[k]]
  BY Zenon
<1> HIDE DEF W
<1>12. W = Rounds(W, s, withQos)
  <2>1. \A k \in 0 .. M : k = 0 \/ k \in 1 .. M
    BY <1>3
  <2>2. \A k \in 0 .. M : W[k] = IF k = 0 THEN FirstRound(s) ELSE NextRound(s, withQos, W[k - 1])
    BY <1>9, <2>1, Zenon
  <2> QED BY <1>11, <2>2, Zenon DEF Rounds, M
<1> DEFINE h == CHOOSE f : f = Rounds(f, s, withQos)
<1>13. h = Rounds(h, s, withQos)
  BY <1>12, Zenon
<1>14. Filters(s, withQos) = h[M]
  BY FiltersIs, Zenon DEF M
<1> HIDE DEF h
<1>15. h[0] = FirstRound(s) /\ \A k \in 1 .. M : h[k] = NextRound(s, withQos, h[k - 1])
  <2>1. 0 \in 0 .. M /\ \A k \in 1 .. M : k \in 0 .. M /\ k # 0
    BY <1>3
  <2> QED BY <1>13, <2>1, Zenon DEF Rounds, M
<1>16. \A k \in 0 .. M : h[k] = W[k]
  <2> DEFINE P == [k \in 0 .. M |-> h[k] = W[k]]
  <2>1. P[0]
    <3>1. 0 \in 0 .. M
      BY <1>3
    <3> QED BY <1>9, <1>15, <3>1, Zenon
  <2>2. ASSUME NEW k \in 1 .. M, P[k - 1] PROVE P[k]
    <3>1. k - 1 \in 0 .. M /\ k \in 0 .. M
      BY <1>3
    <3>2. h[k - 1] = W[k - 1]
      BY <2>2, <3>1, Zenon
    <3>3. h[k] = W[k]
      BY <1>9, <1>15, <3>2, Zenon
    <3> QED BY <3>1, <3>3, Zenon
  <2> HIDE DEF P
  <2>3. \A k \in 0 .. M : P[k]
    BY <1>3, <2>1, <2>2, Induct, Zenon
  <2> QED BY <2>3, Zenon DEF P
<1>17. Filters(s, withQos) = After(N)
  <2>1. M \in 0 .. M
    BY <1>3
  <2> QED BY <1>10, <1>14, <1>16, <2>1, Zenon
<1> QED BY <1>5, <1>17, Zenon DEF N

LEMMA FiltersRoundTrip ==
  ASSUME NEW m, IsMessage(m), m.type = SUBSCRIBE \/ m.type = UNSUBSCRIBE
  PROVE  RoundTripOf(m)
<1> DEFINE s == MQTTSerialize(m)
           at == BodyAt(s)
           h == HeaderOf(m)
           q == m.type = SUBSCRIBE
           id == writeInt(m.id)
           w == WriteFilters(m.filters, q)
<1>1. /\ s \in Seq(Byte) /\ at \in Nat \ {0} /\ Holds(s, at, Body(m)) /\ TypeOf(s[1]) = m.type /\ Len(s) \in Nat
      /\ EndOf(s) = Len(s) + 1 /\ Len(s) + 1 = at + RemLen(m) /\ s[1] = h
  BY FrameFacts, Zenon
<1>2. Expected(m) = ExpectedFilters(m) /\ m.filters \in FilterLists /\ m.id \in Word /\ m.dup \in BOOLEAN
  BY ExpectedIs, MessageFacts, Zenon
<1>3. Deserialize(m.type, s) = MQTTDeserialize_filters(s, m.type)
  BY DeserializeIs, Zenon
<1>4. q \in BOOLEAN /\ SUBSCRIBE # UNSUBSCRIBE
  BY DEF SUBSCRIBE, UNSUBSCRIBE
<1>5. Body(m) = id \o w
  BY <1>4, BodyIs, Zenon DEF MQTTSerialize_subscribe, MQTTSerialize_unsubscribe
<1>6. DupBit(h) <=> m.dup
  BY HeaderFacts, Zenon
<1>7. id \in Seq(Byte) /\ Len(id) = 2 /\ w \in Seq(Byte) /\ Len(w) \in Nat
  <2>1. w \in Seq(Byte)
    BY <1>2, <1>4, FiltersLength, Zenon
  <2> QED BY <1>2, <2>1, WrittenInt, LenProperties, Zenon
<1>8. RemLen(m) = 2 + Len(w)
  <2>1. Len(Body(m)) = RemLen(m)
    BY BodyFacts, Zenon
  <2> HIDE DEF id, w
  <2> QED BY <1>5, <1>7, <2>1, Joined, Zenon
<1> HIDE DEF s, at, h, q, id, w
<1>9. HeldBoth(s, at, id, w)
  BY <1>1, <1>5, <1>7, HeldParts, Zenon
<1>10. Holds(s, at, id) /\ Holds(s, at + 2, w)
  BY <1>7, <1>9, Zenon DEF HeldBoth
<1>11. readInt(s, at) = m.id
  BY <1>1, <1>2, <1>10, ReadInt, Zenon DEF id
<1>12. at + 2 \in Nat \ {0} /\ (at + 2) + Len(w) = Len(s) + 1
  BY <1>1, <1>7, <1>8
<1> DEFINE f == Filters(s, q)
           list == m.filters
           from == at + 2
<1>13. f.ok = TRUE /\ f.list = Entries(list, q, Len(list))
  <2>1. /\ list \in FilterLists /\ q \in BOOLEAN /\ s \in Seq(Byte) /\ from \in Nat \ {0} /\ from = BodyAt(s) + 2
        /\ EndOf(s) = Len(s) + 1 /\ Holds(s, from, WriteFilters(list, q))
        /\ from + Len(WriteFilters(list, q)) = Len(s) + 1
    BY <1>1, <1>2, <1>4, <1>10, <1>12, Zenon DEF w, at
  <2> HIDE DEF list, from
  <2> QED BY <2>1, AllFilters, Zenon
<1>14. f.list = [k \in DOMAIN m.filters |-> <<Text(m.filters[k].topic), Optional(q, readChar(m.filters[k].qos))>>]
  <2>1. DOMAIN list = 1 .. Len(list)
    BY <1>2, LenProperties DEF FilterLists
  <2> HIDE DEF f
  <2> QED BY <1>13, <2>1, Zenon DEF Entries, Entry
<1>15. MQTTDeserialize_filters(s, m.type) =
         [rc |-> IF f.ok THEN 1 ELSE DecodeCount(s, 2), out |-> <<DupOf(s), readInt(s, at), f.list>>]
  BY <1>1, Zenon DEF MQTTDeserialize_filters, q, at
<1> HIDE DEF f
<1>16. DupOf(s) = m.dup
  BY <1>1, <1>2, <1>6, Zenon DEF DupOf, DupBit
<1>17. MQTTDeserialize_filters(s, m.type) = [rc |-> 1, out |-> ExpectedFilters(m)]
  BY <1>11, <1>13, <1>14, <1>15, <1>16, Zenon DEF ExpectedFilters, q
<1> QED BY <1>2, <1>3, <1>17, Zenon DEF RoundTripOf, s

LEMMA EveryRoundTrip ==
  ASSUME NEW m, IsMessage(m)
  PROVE  RoundTripOf(m)
BY TypeCases, ConnectRoundTrip, ConnackRoundTrip, PublishRoundTrip, AckRoundTrip, FiltersRoundTrip,
   SubackRoundTrip, EmptyRoundTrip, Zenon

-----------------------------------------------------------------------------
(***************************************************************************)
(* The reader that collects a packet from the transport.  The inductive    *)
(* invariant says, for each state of the transport structure, what has     *)
(* been collected: nothing, the header byte and some digits of the length  *)
(* (the attempts are the digits and the empty answers), or a prefix of a   *)
(* packet that fits the buffer.                                            *)
(***************************************************************************)

\* What the reader relies on in a packet s with the length bytes e and n bytes behind them.
Coded(s, e, n) ==
  /\ Len(e) \in 1 .. 4 /\ n \in Nat /\ s \in Seq(Byte) /\ Len(s) = (1 + Len(e)) + n
  /\ Part(e, 0) = 0 /\ Part(e, Len(e)) = n /\ Multiplier[1] = 1
  /\ \A k \in 1 .. Len(e) : /\ s[k + 1] = e[k] /\ (e[k] < 128 <=> k = Len(e)) /\ (e[k] >= 128 <=> k # Len(e))
                            /\ AddDigit(Part(e, k - 1), e[k], Multiplier[k]) = Part(e, k)
                            /\ Part(e, k) \in 0 .. n /\ Multiplier[k] \in Nat /\ Multiplier[k] * 128 \in Nat
  /\ \A k \in 1 .. 3 : Multiplier[k] * 128 = Multiplier[k + 1]

LEMMA PartSteps ==
  ASSUME NEW e, NEW n, WellFormed(e, n)
  PROVE  /\ Part(e, 0) = 0 /\ Multiplier[1] = 1
         /\ \A k \in 1 .. 3 : Multiplier[k] * 128 = Multiplier[k + 1]
         /\ \A k \in 1 .. 4 : Multiplier[k] \in Nat /\ Multiplier[k] * 128 \in Nat
         /\ \A k \in 1 .. Len(e) : /\ AddDigit(Part(e, k - 1), e[k], Multiplier[k]) = Part(e, k)
                                   /\ Part(e, k) \in 0 .. n
<1>1. /\ e \in Seq(Byte) /\ Len(e) >= 1 /\ Len(e) <= 4 /\ Part(e, Len(e)) = n /\ Len(e) \in Nat
      /\ \A k \in 1 .. Len(e) : e[k] \in Nat
  <2>1. e \in Seq(Byte)
    BY Zenon DEF WellFormed
  <2> QED BY <2>1, LenProperties, Zenon DEF WellFormed
<1>2. /\ Part(e, 0) = 0 /\ Multiplier[1] = 1
      /\ \A k \in 1 .. 3 : Multiplier[k] * 128 = Multiplier[k + 1]
      /\ \A k \in 1 .. 4 : Multiplier[k] \in Nat /\ Multiplier[k] * 128 \in Nat
  BY SMT DEF Part, Multiplier
<1> DEFINE w(k) == Weighed(e, k)
<1>3. \A k \in 1 .. Len(e) : w(k) \in Nat /\ (e[k] % 128) * Multiplier[k] = w(k)
  <2> TAKE k \in 1 .. Len(e)
  <2>1. k = 1 \/ k = 2 \/ k = 3 \/ k = 4
    BY <1>1
  <2>2. e[k] % 128 \in Nat
    BY <1>1
  <2>3. (e[k] % 128) * Multiplier[k] \in Nat
    BY <2>1, <2>2, SMT DEF Multiplier
  <2> QED BY <2>3, Zenon DEF Weighed
<1> HIDE DEF w
<1>4. /\ Part(e, 1) = w(1) /\ Part(e, 2) = w(1) + w(2) /\ Part(e, 3) = (w(1) + w(2)) + w(3)
      /\ Part(e, 4) = ((w(1) + w(2)) + w(3)) + w(4) /\ Part(e, 0) = 0
  BY SMT DEF Part, w
<1>5. ASSUME NEW k \in 1 .. Len(e) PROVE Part(e, k - 1) + w(k) = Part(e, k) /\ Part(e, k) \in 0 .. n
  <2> DEFINE p0 == Part(e, 0)
             p1 == Part(e, 1)
             p2 == Part(e, 2)
             p3 == Part(e, 3)
             p4 == Part(e, 4)
  <2>1. p0 = 0 /\ p1 = w(1) /\ p2 = w(1) + w(2) /\ p3 = (w(1) + w(2)) + w(3) /\ p4 = ((w(1) + w(2)) + w(3)) + w(4)
    BY <1>4, Zenon
  <2>2. /\ Len(e) = 1 => p1 = n
        /\ Len(e) = 2 => p2 = n
        /\ Len(e) = 3 => p3 = n
        /\ Len(e) = 4 => p4 = n
    BY <1>1, Zenon
  <2>3. /\ k = 1 => Part(e, k) = p1 /\ Part(e, k - 1) = p0
        /\ k = 2 => Part(e, k) = p2 /\ Part(e, k - 1) = p1
        /\ k = 3 => Part(e, k) = p3 /\ Part(e, k - 1) = p2
        /\ k = 4 => Part(e, k) = p4 /\ Part(e, k - 1) = p3
    <3>1. 1 - 1 = 0 /\ 2 - 1 = 1 /\ 3 - 1 = 2 /\ 4 - 1 = 3
      OBVIOUS
    <3> QED BY <3>1, Zenon
  <2>4. /\ w(1) \in Nat /\ (Len(e) >= 2 => w(2) \in Nat) /\ (Len(e) >= 3 => w(3) \in Nat) /\ (Len(e) >= 4 => w(4) \in Nat)
    <3>1. 1 \in 1 .. Len(e) /\ (Len(e) >= 2 => 2 \in 1 .. Len(e)) /\ (Len(e) >= 3 => 3 \in 1 .. Len(e))
          /\ (Len(e) >= 4 => 4 \in 1 .. Len(e))
      BY <1>1
    <3> QED BY <1>3, <3>1, Zenon
  <2> DEFINE x == Part(e, k)
             y == Part(e, k - 1)
  <2> HIDE DEF p0, p1, p2, p3, p4, x, y
  <2>5. /\ k = 1 => x = p1 /\ y = p0
        /\ k = 2 => x = p2 /\ y = p1
        /\ k = 3 => x = p3 /\ y = p2
        /\ k = 4 => x = p4 /\ y = p3
    BY <2>3, Zenon DEF x, y
  <2> DEFINE v == w(k)
  <2>6. /\ k = 1 => v = w(1)
        /\ k = 2 => v = w(2)
        /\ k = 3 => v = w(3)
        /\ k = 4 => v = w(4)
    BY Zenon
  <2>7. (k = 1 \/ k = 2 \/ k = 3 \/ k = 4) /\ (Len(e) = 1 \/ Len(e) = 2 \/ Len(e) = 3 \/ Len(e) = 4) /\ Len(e) >= k
    <3>1. Len(e) \in Nat /\ Len(e) >= 1 /\ Len(e) <= 4
      BY <1>1, Zenon
    <3>2. k \in Nat /\ k >= 1 /\ k <= Len(e) /\ k <= 4 /\ Len(e) >= k
      BY <3>1, SMT
    <3> QED BY <3>1, <3>2, UpToFour, Zenon
  <2> DEFINE w1 == w(1)
             w2 == w(2)
             w3 == w(3)
             w4 == w(4)
             l == Len(e)
  <2> HIDE DEF v, w1, w2, w3, w4, l
  <2>8. /\ p0 = 0 /\ p1 = w1 /\ p2 = w1 + w2 /\ p3 = (w1 + w2) + w3 /\ p4 = ((w1 + w2) + w3) + w4
        /\ (l = 1 => p1 = n) /\ (l = 2 => p2 = n) /\ (l = 3 => p3 = n) /\ (l = 4 => p4 = n)
        /\ w1 \in Nat /\ (l >= 2 => w2 \in Nat) /\ (l >= 3 => w3 \in Nat) /\ (l >= 4 => w4 \in Nat)
        /\ (k = 1 => v = w1) /\ (k = 2 => v = w2) /\ (k = 3 => v = w3) /\ (k = 4 => v = w4)
        /\ (k = 1 \/ k = 2 \/ k = 3 \/ k = 4) /\ (l = 1 \/ l = 2 \/ l = 3 \/ l = 4) /\ l >= k
    BY <2>1, <2>2, <2>4, <2>6, <2>7, Zenon DEF w1, w2, w3, w4, l
  <2>9. CASE l = 1
    BY <2>5, <2>8, <2>9 DEF x, y, v
  <2>10. CASE l = 2
    BY <2>5, <2>8, <2>10 DEF x, y, v
  <2>11. CASE l = 3
    BY <2>5, <2>8, <2>11 DEF x, y, v
  <2>12. CASE l = 4
    <3>1. w1 \in Nat /\ w2 \in Nat /\ w3 \in Nat /\ w4 \in Nat
      BY <2>8, <2>12
    <3>2. CASE k = 1 \/ k = 2
      BY <2>5, <2>8, <2>12, <3>1, <3>2 DEF x, y, v
    <3>3. CASE k = 3 \/ k = 4
      BY <2>5, <2>8, <2>12, <3>1, <3>3 DEF x, y, v
    <3> QED BY <2>8, <3>2, <3>3, Zenon
  <2> QED BY <2>8, <2>9, <2>10, <2>11, <2>12, Zenon
<1>6. \A k \in 1 .. Len(e) : AddDigit(Part(e, k - 1), e[k], Multiplier[k]) = Part(e, k) /\ Part(e, k) \in 0 .. n
  BY <1>3, <1>5, Zenon DEF AddDigit
<1> QED BY <1>2, <1>6, Zenon

Code(m) == Digits(RemLen(m))
LEMMA PacketCoded ==
  ASSUME NEW m, IsMessage(m), NEW s, s = MQTTSerialize(m)
  PROVE  /\ Coded(s, Code(m), RemLen(m)) /\ TypeOf(s[1]) = m.type /\ m.type \in 1 .. 14
         /\ <<s[1]>> \o MQTTPacket_encode[RemLen(m)] = SubSeq(s, 1, 1 + Len(Code(m)))
<1> DEFINE e == Code(m)
           n == RemLen(m)
           head == <<s[1]>> \o e
<1>1. Framed(m, s, e)
  BY PacketFramed, Zenon DEF Code
<1>2. /\ s \in Seq(Byte) /\ e \in Seq(Byte) /\ Len(e) \in Nat /\ Len(e) >= 1 /\ Len(e) <= 4 /\ n \in Nat
      /\ WellFormed(e, n) /\ e = MQTTPacket_encode[n] /\ Len(s) = (1 + Len(e)) + n /\ Holds(s, 2, e)
      /\ s[1] = HeaderOf(m)
  BY <1>1, Zenon DEF Framed
<1>3. TypeOf(s[1]) = m.type /\ s[1] \in Byte /\ m.type \in 1 .. 14
  BY <1>2, HeaderFacts, MessageFacts, Zenon
<1>4. s = head \o Body(m)
  BY <1>2, Zenon DEF MQTTSerialize
<1>5. Body(m) \in Seq(Byte)
  BY BodyFacts, Zenon
<1> HIDE DEF e, n
<1>6. <<s[1]>> \in Seq(Byte) /\ Len(<<s[1]>>) = 1
  BY <1>3, Small, Zenon
<1>7. head \in Seq(Byte) /\ Len(head) = 1 + Len(e)
  BY <1>2, <1>6, Joined, Zenon
<1> HIDE DEF head
<1>8. SubSeq(s, 1, 1 + Len(e)) = head
  <2>1. Holds(s, 1, head)
    BY <1>4, <1>5, <1>7, HoldsBehind, Zenon
  <2>2. 1 \in Nat \ {0} /\ (1 + Len(head)) - 1 = 1 + Len(e)
    BY <1>2, <1>7
  <2>3. SubSeq(s, 1, (1 + Len(head)) - 1) = head
    BY <1>2, <1>7, <2>1, <2>2, HoldsSub, Zenon
  <2> QED BY <2>2, <2>3, Zenon
<1>9. \A k \in 1 .. Len(e) : /\ s[k + 1] = e[k] /\ (e[k] < 128 <=> k = Len(e)) /\ (e[k] >= 128 <=> k # Len(e))
  <2> TAKE k \in 1 .. Len(e)
  <2>1. (2 + k) - 1 = k + 1
    BY <1>2
  <2>2. s[(2 + k) - 1] = e[k]
    BY <1>2, Zenon DEF Holds
  <2>3. e[k] \in Nat /\ (e[k] < 128 <=> k = Len(e))
    BY <1>2, Zenon DEF WellFormed
  <2>4. e[k] >= 128 <=> ~(e[k] < 128)
    BY <2>3
  <2> QED BY <2>1, <2>2, <2>3, <2>4, Zenon
<1>10. /\ Part(e, 0) = 0 /\ Multiplier[1] = 1 /\ Part(e, Len(e)) = n
       /\ \A k \in 1 .. 3 : Multiplier[k] * 128 = Multiplier[k + 1]
       /\ \A k \in 1 .. 4 : Multiplier[k] \in Nat /\ Multiplier[k] * 128 \in Nat
       /\ \A k \in 1 .. Len(e) : AddDigit(Part(e, k - 1), e[k], Multiplier[k]) = Part(e, k) /\ Part(e, k) \in 0 .. n
  BY <1>2, PartSteps, Zenon DEF WellFormed
<1>11. Len(e) \in 1 .. 4 /\ \A k \in 1 .. Len(e) : k \in 1 .. 4
  <2>1. Len(e) \in Nat /\ Len(e) >= 1 /\ Len(e) <= 4
    BY <1>2, Zenon
  <2>2. \A k \in 1 .. Len(e) : k \in Nat /\ k >= 1 /\ k <= 4
    BY <2>1, SMT
  <2>3. 1 \in 1 .. 4 /\ 2 \in 1 .. 4 /\ 3 \in 1 .. 4 /\ 4 \in 1 .. 4
    OBVIOUS
  <2> QED BY <2>1, <2>2, <2>3, UpToFour, Zenon
<1>12. Coded(s, e, n)
  <2>1. \A k \in 1 .. Len(e) : /\ s[k + 1] = e[k] /\ (e[k] < 128 <=> k = Len(e)) /\ (e[k] >= 128 <=> k # Len(e))
                               /\ AddDigit(Part(e, k - 1), e[k], Multiplier[k]) = Part(e, k)
                               /\ Part(e, k) \in 0 .. n /\ Multiplier[k] \in Nat /\ Multiplier[k] * 128 \in Nat
    <3> TAKE k \in 1 .. Len(e)
    <3>1. Multiplier[k] \in Nat /\ Multiplier[k] * 128 \in Nat
      BY <1>10, <1>11, Zenon
    <3> QED BY <1>9, <1>10, <3>1, Zenon
  <2> QED BY <1>2, <1>10, <1>11, <2>1, Zenon DEF Coded
<1>13. <<s[1]>> \o MQTTPacket_encode[RemLen(m)] = head
  BY <1>2, Zenon DEF head, n
<1> QED BY <1>3, <1>8, <1>12, <1>13, Zenon DEF e, n

Transports(m) == [state : 0 .. 2, len : 0 .. Len(MQTTSerialize(m)) + 4, rem_len : 0 .. RemLen(m), multiplier : Nat]
AtHeader(m, t, tr, b, a) == t = 0 /\ b = <<>> /\ a = 0 /\ tr.rem_len = 0
AtLength(m, t, tr, b, a) ==
  /\ t \in 1 .. Len(Code(m)) /\ b = <<MQTTSerialize(m)[1]>>
  /\ tr.len = (t - 1) + a /\ tr.len <= 4
  /\ (tr.len = 0 \/ (tr.rem_len = Part(Code(m), t - 1) /\ tr.multiplier = Multiplier[t]))
AtBody(m, t, tr, b) ==
  /\ Len(MQTTSerialize(m)) <= BufLen /\ b = SubSeq(MQTTSerialize(m), 1, t)
  /\ t = (1 + Len(Code(m))) + (RemLen(m) - tr.rem_len) /\ tr.len = t
Reading(m, t, tr, b, r, a) ==
  /\ m \in Messages /\ t \in 0 .. Len(MQTTSerialize(m)) /\ tr \in Transports(m) /\ a \in 0 .. 4
  /\ (r = 0 \/ r = -1 \/ r = m.type)
  /\ (r = 0 /\ tr.state = 0 => AtHeader(m, t, tr, b, a))
  /\ (r = 0 /\ tr.state = 1 => AtLength(m, t, tr, b, a))
  /\ (r = 0 /\ tr.state = 2 => AtBody(m, t, tr, b))
  /\ (r = m.type => b = MQTTSerialize(m) /\ Len(MQTTSerialize(m)) <= BufLen)
IInv == Reading(msg, taken, trp, buf, rc, again)

LEMMA ReadingStarts == Init => IInv
<1> SUFFICES ASSUME Init PROVE IInv
  OBVIOUS
<1> DEFINE s == MQTTSerialize(msg)
<1>1. /\ msg \in Messages /\ taken = 0 /\ rc = 0 /\ again = 0 /\ buf = <<>>
      /\ trp = [state |-> 0, len |-> 0, rem_len |-> 0, multiplier |-> 1]
  BY Zenon DEF Init
<1>2. IsMessage(msg)
  BY <1>1, MessageAssumption, Zenon
<1>3. Coded(s, Code(msg), RemLen(msg)) /\ msg.type \in 1 .. 14
  BY <1>2, PacketCoded, Zenon
<1>4. RemLen(msg) \in Nat /\ s \in Seq(Byte) /\ msg.type # 0
  <2>1. msg.type # 0
    BY <1>3
  <2> QED BY <1>3, <2>1, Zenon DEF Coded
<1>5. Len(s) \in Nat
  BY <1>4, LenProperties
<1> HIDE DEF s
<1> DEFINE l == Len(s)
           n == RemLen(msg)
<1>6. l \in Nat /\ n \in Nat
  BY <1>4, <1>5, Zenon
<1> HIDE DEF l, n
<1>7. 0 \in 0 .. l /\ 0 \in 0 .. l + 4 /\ 0 \in 0 .. n /\ 0 \in 0 .. 4 /\ 0 \in 0 .. 2 /\ 1 \in Nat
  BY <1>6
<1>8. trp \in [state : 0 .. 2, len : 0 .. l + 4, rem_len : 0 .. n, multiplier : Nat]
  BY <1>1, <1>7, Zenon
<1>9. trp.state = 0 /\ trp.rem_len = 0 /\ 0 # 1 /\ 0 # 2
  BY <1>1
<1> QED BY <1>1, <1>4, <1>7, <1>8, <1>9, Zenon DEF IInv, Reading, AtHeader, Transports, l, n, s

\* The facts of a state in which the reader is still called.
Live(m, s, e, n) ==
  /\ s = MQTTSerialize(m) /\ e = Code(m) /\ n = RemLen(m) /\ m \in Messages
  /\ Coded(s, e, n) /\ TypeOf(s[1]) = m.type /\ m.type \in 1 .. 14 /\ m.type # 0 /\ m.type # -1
  /\ <<s[1]>> \o MQTTPacket_encode[n] = SubSeq(s, 1, 1 + Len(e))
  /\ Len(s) \in Nat /\ Len(e) \in Nat

LEMMA ReadingFacts ==
  ASSUME NEW m \in Messages
  PROVE  Live(m, MQTTSerialize(m), Code(m), RemLen(m))
<1> DEFINE s == MQTTSerialize(m)
<1>1. IsMessage(m)
  BY MessageAssumption, Zenon
<1>2. /\ Coded(s, Code(m), RemLen(m)) /\ TypeOf(s[1]) = m.type /\ m.type \in 1 .. 14
      /\ <<s[1]>> \o MQTTPacket_encode[RemLen(m)] = SubSeq(s, 1, 1 + Len(Code(m)))
  BY <1>1, PacketCoded, Zenon
<1>3. s \in Seq(Byte) /\ Len(Code(m)) \in 1 .. 4
  BY <1>2, Zenon DEF Coded
<1>4. Len(s) \in Nat
  BY <1>3, LenProperties, Zenon
<1>5. Len(Code(m)) \in Nat /\ m.type # 0 /\ m.type # -1
  BY <1>2, <1>3
<1> QED BY <1>2, <1>4, <1>5, Zenon DEF Live

\* A failure ends the reading, whatever was collected.
LEMMA ReadingFails ==
  ASSUME NEW m, NEW t, NEW tr, NEW b, NEW r, NEW a, Reading(m, t, tr, b, r, a),
         NEW tr2 \in Transports(m), NEW b2, NEW t2 \in 0 .. Len(MQTTSerialize(m))
  PROVE  Reading(m, t2, tr2, b2, -1, a)
<1>1. m \in Messages /\ a \in 0 .. 4
  BY Zenon DEF Reading
<1>2. m.type # -1
  BY <1>1, ReadingFacts, Zenon DEF Live
<1>3. -1 # 0
  OBVIOUS
<1> QED BY <1>1, <1>2, <1>3, Zenon DEF Reading

LEMMA Stopped ==
  ASSUME IInv, rc = 0, msg' = msg, Failed
  PROVE  IInv'
<1>1. /\ trp' = [trp EXCEPT !.state = 0] /\ rc' = -1 /\ buf' = buf /\ taken' = taken /\ again' = again
  BY Zenon DEF Failed
<1>2. Reading(msg, taken, trp, buf, rc, again) /\ trp \in Transports(msg) /\ taken \in 0 .. Len(MQTTSerialize(msg))
  BY Zenon DEF IInv, Reading
<1>3. trp' \in Transports(msg)
  <2>1. 0 \in 0 .. 2
    OBVIOUS
  <2> QED BY <1>1, <1>2, <2>1, Zenon DEF Transports
<1>4. Reading(msg, taken, trp', buf, -1, again)
  BY <1>2, <1>3, ReadingFails, Zenon
<1> QED BY <1>1, <1>4, Zenon DEF IInv

LEMMA Unanswered ==
  ASSUME IInv, rc = 0, msg' = msg, CallAgain
  PROVE  IInv'
BY Zenon DEF IInv, CallAgain

LEMMA HeaderRead ==
  ASSUME IInv, rc = 0, msg' = msg, NEW n, ReadHeader(n)
  PROVE  IInv'
<1> DEFINE s == MQTTSerialize(msg)
           e == Code(msg)
<1>1. msg \in Messages /\ trp \in Transports(msg) /\ AtHeader(msg, taken, trp, buf, again) /\ again \in 0 .. 4
  BY Zenon DEF IInv, Reading, ReadHeader
<1>2. Live(msg, s, e, RemLen(msg))
  BY <1>1, ReadingFacts, Zenon
<1>3. s \in Seq(Byte) /\ Len(s) \in Nat /\ Len(e) \in 1 .. 4 /\ RemLen(msg) \in Nat /\ Len(s) = (1 + Len(e)) + RemLen(msg)
      /\ msg.type # 0
  BY <1>2, Zenon DEF Live, Coded
<1>4. CASE n = -1 /\ Failed
  BY <1>4, Stopped, Zenon
<1>5. CASE n = 0 /\ CallAgain
  BY <1>5, Unanswered, Zenon
<1>6. CASE /\ n = 1 /\ buf' = <<Packet[1]>> /\ taken' = 1
           /\ trp' = [trp EXCEPT !.state = 1, !.len = 0] /\ UNCHANGED <<rc, again>>
  <2>1. rc' = 0 /\ again' = 0 /\ buf' = <<s[1]>>
    BY <1>1, <1>6, Zenon DEF AtHeader, Packet
  <2> DEFINE l == Len(s)
             c == Len(e)
             k == RemLen(msg)
  <2> HIDE DEF s, e
  <2>2. l \in Nat /\ c \in 1 .. 4 /\ k \in Nat /\ l = (1 + c) + k
    BY <1>3, Zenon
  <2> HIDE DEF l, c, k
  <2>3. 1 \in 0 .. 2 /\ 0 \in 0 .. l + 4 /\ 1 \in 0 .. l /\ 1 \in 1 .. c /\ 0 = (1 - 1) + 0 /\ 0 <= 4
    BY <2>2
  <2>4. trp \in [state : 0 .. 2, len : 0 .. l + 4, rem_len : 0 .. k, multiplier : Nat]
    BY <1>1, Zenon DEF Transports, l, k, s
  <2>5. trp' \in [state : 0 .. 2, len : 0 .. l + 4, rem_len : 0 .. k, multiplier : Nat] /\ trp'.state = 1 /\ trp'.len = 0
    BY <1>6, <2>3, <2>4
  <2>6. AtLength(msg, 1, trp', buf', 0)
    BY <2>1, <2>3, <2>5, Zenon DEF AtLength, c, e, s
  <2>7. 1 # 0 /\ 1 # 2 /\ 0 \in 0 .. 4
    OBVIOUS
  <2>8. Reading(msg, 1, trp', buf', 0, 0)
    BY <1>1, <1>3, <2>3, <2>5, <2>6, <2>7, Zenon DEF Reading, Transports, l, k, s
  <2> QED BY <1>6, <2>1, <2>8, Zenon DEF IInv
<1> QED BY <1>4, <1>5, <1>6, Zenon DEF ReadHeader

\* The middle of the length: what the digits before give, and the next one.
Rem == IF trp.len = 0 THEN 0 ELSE trp.rem_len
Mult == IF trp.len = 0 THEN 1 ELSE trp.multiplier
Value == AddDigit(Rem, Packet[taken + 1], Mult)
LEMMA AtDigit ==
  ASSUME IInv, rc = 0, trp.state = 1
  PROVE  /\ taken \in 1 .. Len(Code(msg)) /\ trp.len = (taken - 1) + again /\ trp.len <= 4 /\ again \in 0 .. 4
         /\ Rem = Part(Code(msg), taken - 1) /\ Mult = Multiplier[taken] /\ buf[1] = Packet[1] /\ buf = <<Packet[1]>>
         /\ Packet[taken + 1] = Code(msg)[taken] /\ Value = Part(Code(msg), taken)
         /\ trp \in Transports(msg) /\ msg \in Messages /\ Live(msg, Packet, Code(msg), RemLen(msg))
<1> DEFINE e == Code(msg)
           s == Packet
<1>1. /\ msg \in Messages /\ trp \in Transports(msg) /\ again \in 0 .. 4 /\ AtLength(msg, taken, trp, buf, again)
  BY Zenon DEF IInv, Reading
<1>2. Live(msg, s, e, RemLen(msg))
  BY <1>1, ReadingFacts, Zenon DEF Packet
<1>3. Coded(s, e, RemLen(msg))
  BY <1>2, Zenon DEF Live
<1>4. /\ taken \in 1 .. Len(e) /\ buf = <<s[1]>> /\ trp.len = (taken - 1) + again /\ trp.len <= 4
      /\ (trp.len = 0 \/ (trp.rem_len = Part(e, taken - 1) /\ trp.multiplier = Multiplier[taken]))
  BY <1>1, Zenon DEF AtLength, Packet
<1>5. s[taken + 1] = e[taken] /\ AddDigit(Part(e, taken - 1), e[taken], Multiplier[taken]) = Part(e, taken)
      /\ Part(e, 0) = 0 /\ Multiplier[1] = 1 /\ Len(e) \in 1 .. 4
  BY <1>3, <1>4, Zenon DEF Coded
<1> HIDE DEF e, s
<1>6. trp.len = 0 => taken = 1 /\ taken - 1 = 0
  BY <1>1, <1>4, <1>5
<1>7. Rem = Part(e, taken - 1) /\ Mult = Multiplier[taken]
  BY <1>4, <1>5, <1>6, Zenon DEF Rem, Mult
<1>8. Value = Part(e, taken)
  BY <1>5, <1>7, Zenon DEF Value, s
<1>9. buf[1] = s[1]
  BY <1>4
<1> QED BY <1>1, <1>2, <1>4, <1>5, <1>7, <1>8, <1>9, Zenon DEF e, s

LEMMA LengthRead ==
  ASSUME IInv, rc = 0, msg' = msg, NEW n, MQTTPacket_decodenb(n)
  PROVE  IInv'
<1> DEFINE s == Packet
           e == Code(msg)
           k == RemLen(msg)
           len == trp.len + 1
           c == s[taken + 1]
           head == <<buf[1]>> \o MQTTPacket_encode[Value]
<1>0. trp.state = 1 /\ MAX_NO_OF_REMAINING_LENGTH_BYTES = 4
  BY Zenon DEF MQTTPacket_decodenb, MAX_NO_OF_REMAINING_LENGTH_BYTES
<1>1. /\ taken \in 1 .. Len(e) /\ trp.len = (taken - 1) + again /\ trp.len <= 4 /\ again \in 0 .. 4
      /\ Rem = Part(e, taken - 1) /\ Mult = Multiplier[taken] /\ buf[1] = s[1] /\ buf = <<s[1]>>
      /\ c = e[taken] /\ Value = Part(e, taken)
      /\ trp \in Transports(msg) /\ msg \in Messages /\ Live(msg, s, e, k)
  BY <1>0, AtDigit, Zenon
<1>2. /\ Coded(s, e, k) /\ msg.type # 0 /\ <<s[1]>> \o MQTTPacket_encode[k] = SubSeq(s, 1, 1 + Len(e))
      /\ Len(s) \in Nat /\ Len(e) \in Nat /\ s = MQTTSerialize(msg)
  BY <1>1, Zenon DEF Live
<1>3. /\ Len(e) \in 1 .. 4 /\ k \in Nat /\ s \in Seq(Byte) /\ Len(s) = (1 + Len(e)) + k
      /\ (c < 128 <=> taken = Len(e)) /\ (c >= 128 <=> taken # Len(e)) /\ Part(e, Len(e)) = k
      /\ Value \in 0 .. k /\ Mult \in Nat /\ Mult * 128 \in Nat
      /\ \A i \in 1 .. 3 : Multiplier[i] * 128 = Multiplier[i + 1]
  BY <1>1, <1>2, Zenon DEF Coded
<1>4. \/ len > 4 /\ Failed
      \/ len <= 4 /\ n = -1 /\ Failed
      \/ /\ len <= 4 /\ n = 0
         /\ trp' = [trp EXCEPT !.len = len, !.rem_len = Rem, !.multiplier = Mult]
         /\ rc' = 0 /\ again' = again + 1 /\ UNCHANGED <<buf, taken>>
      \/ /\ len <= 4 /\ n = 1 /\ c >= 128
         /\ trp' = [trp EXCEPT !.len = len, !.rem_len = Value, !.multiplier = Mult * 128]
         /\ taken' = taken + 1 /\ UNCHANGED <<buf, rc, again>>
      \/ /\ len <= 4 /\ n = 1 /\ c < 128 /\ taken' = taken + 1 /\ buf' = head
         /\ \/ /\ Value + Len(head) <= BufLen
               /\ trp' = [state |-> 2, len |-> Len(head), rem_len |-> Value, multiplier |-> Mult * 128]
               /\ UNCHANGED rc
            \/ /\ Value + Len(head) > BufLen
               /\ trp' = [state |-> 0, len |-> Len(head), rem_len |-> Value, multiplier |-> Mult * 128]
               /\ rc' = -1
         /\ UNCHANGED again
  BY <1>0, Zenon DEF MQTTPacket_decodenb, Attempt, Value, Rem, Mult
<1> DEFINE T == [state : 0 .. 2, len : 0 .. Len(s) + 4, rem_len : 0 .. k, multiplier : Nat]
<1>5. T = Transports(msg) /\ trp \in T
  BY <1>1, <1>2, Zenon DEF Transports
<1>6. 0 # 1 /\ 1 # 0 /\ 2 # 0 /\ 2 # 1 /\ 1 # 2 /\ 0 # 2 /\ 0 \in 0 .. 2 /\ 1 \in 0 .. 2 /\ 2 \in 0 .. 2
  OBVIOUS
<1> HIDE DEF s, e, k, c, head
<1> DEFINE l == Len(s)
           d == Len(e)
<1>12. /\ d \in Nat /\ d >= 1 /\ d <= 4 /\ l \in Nat /\ l = (1 + d) + k /\ k \in Nat /\ again \in Nat /\ again <= 4
       /\ taken \in Nat /\ taken >= 1 /\ taken <= d /\ trp.len = (taken - 1) + again
  <2>1. again \in Nat /\ again <= 4
    BY <1>1
  <2>2. taken \in Nat /\ taken >= 1 /\ taken <= d
    <3>1. taken \in 1 .. d /\ d \in Nat
      BY <1>1, <1>2, Zenon
    <3> HIDE DEF d
    <3> QED BY <3>1
  <2>3. d >= 1 /\ d <= 4
    <3>1. d \in 1 .. 4
      BY <1>3, Zenon
    <3> HIDE DEF d
    <3> QED BY <3>1
  <2> QED BY <1>1, <1>2, <1>3, <2>1, <2>2, <2>3, Zenon
<1>7. CASE len > 4 /\ Failed
  BY <1>7, Stopped, Zenon
<1>8. CASE len <= 4 /\ n = -1 /\ Failed
  BY <1>8, Stopped, Zenon
<1>9. CASE /\ len <= 4 /\ n = 0
           /\ trp' = [trp EXCEPT !.len = len, !.rem_len = Rem, !.multiplier = Mult]
           /\ rc' = 0 /\ again' = again + 1 /\ UNCHANGED <<buf, taken>>
  <2>1. /\ len \in 0 .. Len(s) + 4 /\ again + 1 \in 0 .. 4 /\ len = (taken - 1) + (again + 1) /\ len <= 4
        /\ taken \in 0 .. Len(s) /\ len # 0
    <3>1. len <= 4
      BY <1>9, Zenon
    <3> HIDE DEF l, d
    <3>2. /\ len \in 0 .. l + 4 /\ again + 1 \in Nat /\ again + 1 <= 4 /\ len = (taken - 1) + (again + 1)
          /\ taken \in 0 .. l /\ len # 0
      BY <1>12, <3>1
    <3>3. again + 1 \in 0 .. 4
      BY <3>2
    <3> QED BY <3>1, <3>2, <3>3, Zenon DEF l
  <2>2. Rem \in 0 .. k
    <3>1. CASE trp.len = 0
      BY <1>3, <3>1 DEF Rem
    <3>2. CASE trp.len # 0
      BY <1>5, <3>2 DEF Rem
    <3> QED BY <3>1, <3>2, Zenon
  <2> HIDE DEF len
  <2>3. trp' \in T /\ trp'.state = 1 /\ trp'.len = len /\ trp'.rem_len = Rem /\ trp'.multiplier = Mult
    <3>1. trp' = [trp EXCEPT !.len = len, !.rem_len = Rem, !.multiplier = Mult]
      BY <1>9, Zenon
    <3> QED BY <1>0, <1>3, <1>5, <2>1, <2>2, <3>1
  <2>4. AtLength(msg, taken, trp', buf, again + 1)
    BY <1>1, <1>2, <2>1, <2>3, Zenon DEF AtLength, e, s
  <2>5. Reading(msg, taken, trp', buf, 0, again + 1)
    BY <1>1, <1>2, <1>5, <1>6, <2>1, <2>3, <2>4, Zenon DEF Reading, s
  <2> QED BY <1>9, <2>5, Zenon DEF IInv
<1>10. CASE /\ len <= 4 /\ n = 1 /\ c >= 128
            /\ trp' = [trp EXCEPT !.len = len, !.rem_len = Value, !.multiplier = Mult * 128]
            /\ taken' = taken + 1 /\ UNCHANGED <<buf, rc, again>>
  <2>0. taken # Len(e)
    BY <1>3, <1>10, Zenon
  <2>1. /\ len \in 0 .. Len(s) + 4 /\ len = ((taken + 1) - 1) + again /\ len <= 4
        /\ taken + 1 \in 0 .. Len(s) /\ taken + 1 \in 1 .. Len(e) /\ (taken + 1) - 1 = taken /\ taken \in 1 .. 3
    <3>1. len <= 4 /\ taken # d
      BY <1>10, <2>0, Zenon
    <3> HIDE DEF l, d
    <3>2. /\ len \in 0 .. l + 4 /\ len = ((taken + 1) - 1) + again
          /\ taken + 1 \in 0 .. l /\ taken + 1 \in 1 .. d /\ (taken + 1) - 1 = taken /\ taken <= 3
      BY <1>12, <3>1
    <3>3. taken \in 1 .. 3
      BY <1>12, <3>2
    <3> QED BY <3>1, <3>2, <3>3, Zenon DEF l, d
  <2>2. Mult * 128 = Multiplier[taken + 1] /\ Value = Part(e, (taken + 1) - 1)
    BY <1>1, <1>3, <2>1, Zenon
  <2> HIDE DEF len
  <2>3. trp' \in T /\ trp'.state = 1 /\ trp'.len = len /\ trp'.rem_len = Value /\ trp'.multiplier = Mult * 128
    <3>1. trp' = [trp EXCEPT !.len = len, !.rem_len = Value, !.multiplier = Mult * 128]
      BY <1>10, Zenon
    <3> QED BY <1>0, <1>3, <1>5, <2>1, <3>1
  <2>4. AtLength(msg, taken + 1, trp', buf, again)
    BY <1>1, <1>2, <2>1, <2>2, <2>3, Zenon DEF AtLength, e, s
  <2>5. Reading(msg, taken + 1, trp', buf, 0, again)
    BY <1>1, <1>2, <1>5, <1>6, <2>1, <2>3, <2>4, Zenon DEF Reading, s
  <2> QED BY <1>10, <2>5, Zenon DEF IInv
<1>11. CASE /\ len <= 4 /\ n = 1 /\ c < 128 /\ taken' = taken + 1 /\ buf' = head
            /\ \/ /\ Value + Len(head) <= BufLen
                  /\ trp' = [state |-> 2, len |-> Len(head), rem_len |-> Value, multiplier |-> Mult * 128]
                  /\ UNCHANGED rc
               \/ /\ Value + Len(head) > BufLen
                  /\ trp' = [state |-> 0, len |-> Len(head), rem_len |-> Value, multiplier |-> Mult * 128]
                  /\ rc' = -1
            /\ UNCHANGED again
  <2>1. taken = Len(e) /\ Value = k
    BY <1>1, <1>3, <1>11, Zenon
  <2>2. head = SubSeq(s, 1, 1 + Len(e))
    BY <1>1, <1>2, <2>1, Zenon DEF head
  <2>3. 1 + Len(e) \in 0 .. Len(s) /\ 1 + Len(e) \in 0 .. Len(s) + 4 /\ k + (1 + Len(e)) = Len(s)
        /\ taken + 1 = 1 + Len(e) /\ (1 + Len(e)) + (k - k) = 1 + Len(e) /\ k \in 0 .. k
    BY <1>2, <1>3, <2>1
  <2>4. Len(head) = 1 + Len(e)
    <3>1. \A i \in 1 .. 1 + Len(e) : s[i] \in Byte
      BY <1>2, <1>3, ElementOfSeq
    <3> QED BY <1>2, <2>2, <3>1, SubSeqProperties
  <2> HIDE DEF T
  <2>5. CASE /\ Value + Len(head) <= BufLen
             /\ trp' = [state |-> 2, len |-> Len(head), rem_len |-> Value, multiplier |-> Mult * 128]
             /\ UNCHANGED rc
    <3>1. Len(s) <= BufLen /\ trp' = [state |-> 2, len |-> 1 + Len(e), rem_len |-> k, multiplier |-> Mult * 128]
      BY <2>1, <2>3, <2>4, <2>5, Zenon
    <3>2. trp' \in T
      BY <1>3, <1>6, <2>3, <3>1, Zenon DEF T
    <3>3. trp'.state = 2 /\ trp'.len = 1 + Len(e) /\ trp'.rem_len = k
      BY <3>1
    <3>4. AtBody(msg, 1 + Len(e), trp', head)
      BY <1>2, <2>2, <2>3, <3>1, <3>3, Zenon DEF AtBody, e, s, k
    <3>5. Reading(msg, 1 + Len(e), trp', head, 0, again)
      BY <1>1, <1>2, <1>5, <1>6, <2>3, <3>2, <3>3, <3>4, Zenon DEF Reading
    <3> QED BY <1>11, <2>3, <2>5, <3>5, Zenon DEF IInv
  <2>6. CASE /\ Value + Len(head) > BufLen
             /\ trp' = [state |-> 0, len |-> Len(head), rem_len |-> Value, multiplier |-> Mult * 128]
             /\ rc' = -1
    <3>1. trp' \in T
      BY <1>3, <1>6, <2>1, <2>3, <2>4, <2>6, Zenon DEF T
    <3>2. Reading(msg, taken, trp, buf, rc, again)
      BY Zenon DEF IInv
    <3>3. 1 + Len(e) \in 0 .. Len(MQTTSerialize(msg)) /\ trp' \in Transports(msg)
      BY <1>2, <1>5, <2>3, <3>1, Zenon
    <3>4. Reading(msg, 1 + Len(e), trp', head, -1, again)
      BY <3>2, <3>3, ReadingFails, Zenon
    <3> QED BY <1>11, <2>3, <2>6, <3>4, Zenon DEF IInv
  <2> QED BY <1>11, <2>5, <2>6, Zenon
<1> QED BY <1>4, <1>7, <1>8, <1>9, <1>10, <1>11, Zenon

LEMMA PrefixGrows ==
  ASSUME NEW s \in Seq(Byte), NEW t \in Nat, NEW n \in Nat, t >= 1, t + n <= Len(s)
  PROVE  /\ SubSeq(s, 1, t) \o SubSeq(s, t + 1, t + n) = SubSeq(s, 1, t + n)
         /\ SubSeq(s, 1, t)[1] = s[1] /\ SubSeq(s, 1, Len(s)) = s
<1>1. Len(s) \in Nat /\ \A i \in 1 .. Len(s) : s[i] \in Byte
  BY LenProperties, ElementOfSeq
<1> DEFINE a == SubSeq(s, 1, t)
           b == SubSeq(s, t + 1, t + n)
           c == SubSeq(s, 1, t + n)
<1>2. a \in Seq(Byte) /\ Len(a) = t /\ \A i \in 1 .. t : a[i] = s[i]
  <2>1. \A i \in 1 .. t : s[i] \in Byte
    BY <1>1
  <2> QED BY <2>1
<1>3. b \in Seq(Byte) /\ Len(b) = n /\ \A i \in 1 .. n : b[i] = s[t + i]
  <2>1. \A i \in t + 1 .. t + n : s[i] \in Byte
    BY <1>1
  <2> QED BY <2>1
<1>4. c \in Seq(Byte) /\ Len(c) = t + n /\ \A i \in 1 .. t + n : c[i] = s[i]
  <2>1. \A i \in 1 .. t + n : s[i] \in Byte
    BY <1>1
  <2> QED BY <2>1
<1> HIDE DEF a, b, c
<1>5. /\ Len(a \o b) = t + n /\ a \o b \in Seq(Byte)
      /\ \A i \in 1 .. t + n : (a \o b)[i] = IF i <= t THEN a[i] ELSE b[i - t]
  BY <1>2, <1>3, ConcatProperties
<1>6. \A i \in 1 .. t + n : (a \o b)[i] = s[i]
  <2> TAKE i \in 1 .. t + n
  <2>1. CASE i <= t
    BY <1>2, <1>5, <2>1
  <2>2. CASE ~(i <= t)
    <3>1. i - t \in 1 .. n /\ t + (i - t) = i
      BY <2>2
    <3> QED BY <1>3, <1>5, <2>2, <3>1, Zenon
  <2> QED BY <2>1, <2>2, Zenon
<1>7. a \o b = c
  <2> DEFINE f == a \o b
  <2>1. f \in Seq(Byte) /\ Len(f) = Len(c) /\ c \in Seq(Byte)
    BY <1>4, <1>5, Zenon
  <2>2. \A i \in 1 .. Len(f) : f[i] = c[i]
    BY <1>4, <1>5, <1>6, Zenon
  <2> HIDE DEF f
  <2>3. f = c
    BY <2>1, <2>2, SeqEqual
  <2> QED BY <2>3, Zenon DEF f
<1>8. a[1] = s[1]
  BY <1>2
<1>9. SubSeq(s, 1, Len(s)) = s
  <2>1. Holds(s, 1, s) /\ 1 \in Nat \ {0} /\ (1 + Len(s)) - 1 = Len(s)
    BY <1>1 DEF Holds
  <2> QED BY <2>1, HoldsSub, Zenon
<1> QED BY <1>7, <1>8, <1>9, Zenon DEF a, b, c

LEMMA RestRead ==
  ASSUME IInv, rc = 0, msg' = msg, NEW n, ReadRest(n)
  PROVE  IInv'
<1> DEFINE s == Packet
           e == Code(msg)
           k == RemLen(msg)
           rem == trp.rem_len
<1>0. trp.state = 2
  BY Zenon DEF ReadRest
<1>1. msg \in Messages /\ trp \in Transports(msg) /\ again \in 0 .. 4 /\ AtBody(msg, taken, trp, buf)
  BY <1>0, Zenon DEF IInv, Reading
<1>2. Live(msg, s, e, k)
  BY <1>1, ReadingFacts, Zenon DEF Packet
<1>3. /\ Coded(s, e, k) /\ msg.type # 0 /\ TypeOf(s[1]) = msg.type /\ Len(s) \in Nat /\ Len(e) \in Nat
      /\ s = MQTTSerialize(msg)
  BY <1>2, Zenon DEF Live
<1>4. k \in Nat /\ s \in Seq(Byte) /\ Len(s) = (1 + Len(e)) + k
  BY <1>3, Zenon DEF Coded
<1>5. /\ Len(s) <= BufLen /\ buf = SubSeq(s, 1, taken) /\ taken = (1 + Len(e)) + (k - rem) /\ trp.len = taken
  BY <1>1, <1>3, Zenon DEF AtBody
<1> DEFINE T == [state : 0 .. 2, len : 0 .. Len(s) + 4, rem_len : 0 .. k, multiplier : Nat]
<1>6. T = Transports(msg) /\ trp \in T
  BY <1>1, <1>3, Zenon DEF Transports
<1>7. rem \in 0 .. k
  BY <1>6
<1>8. CASE n = -1 /\ Failed
  BY <1>8, Stopped, Zenon
<1>9. CASE n = 0 /\ CallAgain
  BY <1>9, Unanswered, Zenon
<1>10. CASE /\ n \in 1 .. trp.rem_len
            /\ buf' = buf \o SubSeq(Packet, taken + 1, taken + n) /\ taken' = taken + n
            /\ trp' = [trp EXCEPT !.rem_len = @ - n, !.len = @ + n, !.state = IF Complete(n) THEN 0 ELSE 2]
            /\ rc' = IF Complete(n) THEN TypeOf(buf[1]) ELSE 0
            /\ UNCHANGED again
  <2> DEFINE l == Len(s)
             d == Len(e)
  <2>1. n \in 1 .. rem /\ l \in Nat /\ d \in Nat /\ k \in Nat /\ l = (1 + d) + k /\ taken = (1 + d) + (k - rem) /\ rem \in 0 .. k
    BY <1>3, <1>4, <1>5, <1>7, <1>10, Zenon
  <2> HIDE DEF s, e, k, rem, l, d
  <2>2. /\ n \in Nat /\ taken \in Nat /\ taken >= 1 /\ taken + n <= l /\ taken + n \in 0 .. l /\ taken + n \in 0 .. l + 4
        /\ rem - n \in 0 .. k /\ taken + n = (1 + d) + (k - (rem - n)) /\ (rem = n => taken + n = l)
    BY <2>1
  <2>3. /\ SubSeq(s, 1, taken) \o SubSeq(s, taken + 1, taken + n) = SubSeq(s, 1, taken + n)
        /\ SubSeq(s, 1, taken)[1] = s[1] /\ SubSeq(s, 1, l) = s
    BY <1>4, <2>2, PrefixGrows, Zenon DEF l
  <2>4. buf' = SubSeq(s, 1, taken + n) /\ buf[1] = s[1]
    BY <1>5, <1>10, <2>3, Zenon DEF s
  <2> DEFINE st == IF Complete(n) THEN 0 ELSE 2
  <2>5. st \in 0 .. 2
    OBVIOUS
  <2>6. trp' = [trp EXCEPT !.rem_len = rem - n, !.len = taken + n, !.state = st]
    BY <1>5, <1>10, Zenon DEF rem
  <2> HIDE DEF st
  <2>7. trp' \in T /\ trp'.state = st /\ trp'.rem_len = rem - n /\ trp'.len = taken + n
    <3>1. trp \in [state : 0 .. 2, len : 0 .. l + 4, rem_len : 0 .. k, multiplier : Nat]
      BY <1>6, Zenon DEF l
    <3>2. /\ trp' \in [state : 0 .. 2, len : 0 .. l + 4, rem_len : 0 .. k, multiplier : Nat]
          /\ trp'.state = st /\ trp'.rem_len = rem - n /\ trp'.len = taken + n
      BY <2>2, <2>5, <2>6, <3>1
    <3> QED BY <3>2, Zenon DEF l
  <2> HIDE DEF T
  <2>8. 0 # 2 /\ 1 # 2 /\ 1 # 0 /\ 2 # 0 /\ 2 # 1
    OBVIOUS
  <2>9. CASE Complete(n)
    <3>1. rc' = msg.type /\ rem = n
      BY <1>3, <1>10, <2>4, <2>9, Zenon DEF Complete, rem
    <3>2. buf' = s
      BY <2>2, <2>3, <2>4, <3>1, Zenon
    <3>3. Reading(msg, taken + n, trp', s, msg.type, again)
      BY <1>1, <1>3, <1>5, <1>6, <2>2, <2>7, Zenon DEF Reading, l
    <3> QED BY <1>10, <3>1, <3>2, <3>3, Zenon DEF IInv
  <2>10. CASE ~Complete(n)
    <3>1. rc' = 0 /\ st = 2
      BY <1>10, <2>10, Zenon DEF st
    <3>2. AtBody(msg, taken + n, trp', buf')
      BY <1>3, <1>5, <2>2, <2>4, <2>7, Zenon DEF AtBody, d, e, k, l
    <3>3. Reading(msg, taken + n, trp', buf', 0, again)
      BY <1>1, <1>3, <1>6, <2>2, <2>7, <2>8, <3>1, <3>2, Zenon DEF Reading, l
    <3> QED BY <1>10, <3>1, <3>3, Zenon DEF IInv
  <2> QED BY <2>9, <2>10, Zenon
<1> QED BY <1>8, <1>9, <1>10, Zenon DEF ReadRest

LEMMA ReadingKept == IInv /\ [Next]_vars => IInv'
<1> SUFFICES ASSUME IInv, [Next]_vars PROVE IInv'
  OBVIOUS
<1>1. CASE UNCHANGED vars
  BY <1>1, Zenon DEF vars, IInv
<1>2. ASSUME NEW n, MQTTPacket_readnb(n) PROVE IInv'
  <2>1. rc = 0 /\ msg' = msg /\ (ReadHeader(n) \/ MQTTPacket_decodenb(n) \/ ReadRest(n))
    BY <1>2, Zenon DEF MQTTPacket_readnb, Finished
  <2> QED BY <2>1, HeaderRead, LengthRead, RestRead, Zenon
<1> QED BY <1>1, <1>2, Zenon DEF Next

LEMMA ReadingTrue == IInv => PacketsTrue
<1> SUFFICES ASSUME IInv PROVE PacketsTrue
  OBVIOUS
<1> DEFINE s == MQTTSerialize(msg)
<1>1. /\ msg \in Messages /\ trp \in Transports(msg) /\ again \in 0 .. 4 /\ taken \in 0 .. Len(s)
      /\ (rc = 0 \/ rc = -1 \/ rc = msg.type) /\ (rc = msg.type => buf = s /\ Len(s) <= BufLen)
  BY Zenon DEF IInv, Reading
<1>2. IsMessage(msg) /\ BufLen \in Nat
  BY <1>1, MessageAssumption, Zenon
<1>3. msg.type \in 1 .. 14
  BY <1>2, MessageFacts, Zenon
<1>4. TypeOK
  <2>1. rc \in -1 .. 14
    BY <1>1, <1>3
  <2>2. /\ trp.state \in 0 .. 2 /\ trp.len \in 0 .. Len(s) + 4 /\ trp.rem_len \in 0 .. RemLen(msg)
    BY <1>1, Zenon DEF Transports
  <2> QED BY <1>1, <2>1, <2>2, Zenon DEF TypeOK, Packet, MAX_NO_OF_REMAINING_LENGTH_BYTES
<1>5. LengthExact
  BY <1>2, BodyFacts, Zenon DEF LengthExact
<1>6. WrittenFits
  BY <1>2, PacketSized, Zenon DEF WrittenFits, Sized, Packet
<1>7. RoundTrip
  BY <1>2, EveryRoundTrip, Zenon DEF RoundTrip, RoundTripOf, Packet
<1>8. ReadersAgree
  <2> DEFINE read == MQTTPacket_read(s, BufLen)
  <2>1. /\ (Len(s) <= BufLen => read = [rc |-> msg.type, buf |-> s])
        /\ (~(Len(s) <= BufLen) => read.rc = -1)
    BY <1>2, ReadWhole, Zenon
  <2> HIDE DEF read
  <2>2. Len(s) <= BufLen => read.rc = msg.type /\ read.buf = s
    BY <2>1
  <2>3. rc > 0 => rc = msg.type
    BY <1>1
  <2> QED BY <1>1, <2>1, <2>2, <2>3, Zenon DEF ReadersAgree, Packet, read
<1> QED BY <1>4, <1>5, <1>6, <1>7, <1>8, Zenon DEF PacketsTrue

\* For any messages a caller may pass and any buffer size: every serialiser writes as many
\* bytes as the length it computed and no more than the size it compared with the buffer (the
\* three of the server side up to header and length more), every deserialiser stores what was
\* serialised, and whatever the transport answers and in however many pieces, the reader that
\* returns a type has collected exactly the packet, as the blocking reader would.
THEOREM PacketsSafety == Spec => []PacketsTrue
<1>1. Init => IInv
  BY ReadingStarts
<1>2. IInv /\ [Next]_vars => IInv'
  BY ReadingKept
<1>3. IInv => PacketsTrue
  BY ReadingTrue
<1> QED BY <1>1, <1>2, <1>3, PTL DEF Spec

LEMMA GoodRead ==
  ASSUME IInv, NEW n, n \in {0, 1, trp.rem_len}, rc' = -1, MQTTPacket_readnb(n)
  PROVE  again > 0 \/ Len(Packet) > BufLen
<1> DEFINE s == Packet
           e == Code(msg)
           k == RemLen(msg)
<1>1. rc = 0 /\ (ReadHeader(n) \/ MQTTPacket_decodenb(n) \/ ReadRest(n))
  BY Zenon DEF MQTTPacket_readnb, Finished
<1>2. msg \in Messages /\ trp \in Transports(msg)
  BY Zenon DEF IInv, Reading
<1>3. Live(msg, s, e, k)
  BY <1>2, ReadingFacts, Zenon DEF Packet
<1>4. /\ Coded(s, e, k) /\ msg.type # -1 /\ TypeOf(s[1]) = msg.type /\ Len(s) \in Nat /\ Len(e) \in Nat
      /\ s = MQTTSerialize(msg) /\ <<s[1]>> \o MQTTPacket_encode[k] = SubSeq(s, 1, 1 + Len(e))
  BY <1>3, Zenon DEF Live
<1>5. k \in Nat /\ s \in Seq(Byte) /\ Len(s) = (1 + Len(e)) + k /\ Len(e) \in 1 .. 4 /\ Part(e, Len(e)) = k
      /\ \A i \in 1 .. Len(e) : e[i] < 128 <=> i = Len(e)
  BY <1>4, Zenon DEF Coded
<1>6. n # -1 /\ -1 # 0
  <2>1. trp.rem_len \in 0 .. k
    BY <1>2, Zenon DEF Transports
  <2> HIDE DEF k
  <2>2. trp.rem_len # -1
    BY <1>5, <2>1
  <2> QED BY <2>2
<1>7. CASE ReadHeader(n)
  BY <1>1, <1>6, <1>7, Zenon DEF ReadHeader, CallAgain
<1>8. CASE ReadRest(n)
  <2>1. trp.state = 2
    BY <1>8, Zenon DEF ReadRest
  <2>2. AtBody(msg, taken, trp, buf)
    BY <1>1, <2>1, Zenon DEF IInv, Reading
  <2>3. n = 0 /\ CallAgain => FALSE
    BY <1>6, Zenon DEF CallAgain
  <2>4. n \in 1 .. trp.rem_len /\ rc' = (IF Complete(n) THEN TypeOf(buf[1]) ELSE 0)
    BY <1>6, <1>8, <2>3, Zenon DEF ReadRest
  <2>5. buf[1] = s[1]
    <3> DEFINE rem == trp.rem_len
               d == Len(e)
               l == Len(s)
    <3>1. buf = SubSeq(s, 1, taken) /\ taken = (1 + d) + (k - rem)
      BY <1>4, <2>2, Zenon DEF AtBody
    <3>2. rem \in 0 .. k /\ d \in Nat /\ k \in Nat /\ l = (1 + d) + k /\ l \in Nat
      BY <1>2, <1>4, <1>5, Zenon DEF Transports
    <3> HIDE DEF rem, d, k, l, s
    <3>3. taken \in Nat /\ taken >= 1 /\ 0 \in Nat /\ taken + 0 <= l
      BY <3>1, <3>2
    <3>4. SubSeq(s, 1, taken)[1] = s[1]
      BY <1>5, <3>3, PrefixGrows, Zenon DEF l
    <3> QED BY <3>1, <3>4, Zenon
  <2> QED BY <1>4, <1>6, <2>4, <2>5, Zenon
<1>9. CASE MQTTPacket_decodenb(n)
  <2> DEFINE len == trp.len + 1
             head == <<buf[1]>> \o MQTTPacket_encode[Value]
  <2>0. trp.state = 1 /\ MAX_NO_OF_REMAINING_LENGTH_BYTES = 4
    BY <1>9, Zenon DEF MQTTPacket_decodenb, MAX_NO_OF_REMAINING_LENGTH_BYTES
  <2>1. /\ taken \in 1 .. Len(e) /\ trp.len = (taken - 1) + again /\ again \in 0 .. 4
        /\ buf[1] = s[1] /\ s[taken + 1] = e[taken] /\ Value = Part(e, taken)
    BY <1>1, <2>0, AtDigit, Zenon
  <2>2. \/ len > 4
        \/ s[taken + 1] < 128 /\ Value + Len(head) > BufLen
    BY <1>1, <1>6, <1>9, <2>0, Zenon DEF MQTTPacket_decodenb, Attempt, Value, Rem, Mult
  <2>3. CASE len > 4
    <3> DEFINE d == Len(e)
    <3>1. d \in 1 .. 4 /\ taken \in 1 .. d
      BY <1>5, <2>1, Zenon
    <3> HIDE DEF d
    <3>2. taken <= 4 /\ taken \in Nat
      BY <3>1
    <3>3. again > 0
      BY <2>1, <2>3, <3>2
    <3> QED BY <3>3, Zenon
  <2>4. CASE s[taken + 1] < 128 /\ Value + Len(head) > BufLen
    <3>1. taken = Len(e) /\ Value = k
      BY <1>5, <2>1, <2>4, Zenon
    <3>2. head = SubSeq(s, 1, 1 + Len(e))
      BY <1>4, <2>1, <3>1, Zenon
    <3>3. Len(head) = 1 + Len(e)
      <4> HIDE DEF s, e, head, k
      <4>1. \A i \in 1 .. 1 + Len(e) : s[i] \in Byte
        BY <1>4, <1>5, ElementOfSeq
      <4> QED BY <1>4, <3>2, <4>1, SubSeqProperties
    <3>4. k + (1 + Len(e)) = Len(s)
      BY <1>4, <1>5
    <3> QED BY <2>4, <3>1, <3>3, <3>4, Zenon
  <2> QED BY <2>2, <2>3, <2>4, Zenon
<1> QED BY <1>1, <1>7, <1>8, <1>9, Zenon

\* The non-blocking reader gives up on a good packet only on an error of the transport, when
\* the packet is larger than the buffer, or when the transport had nothing in the middle of the
\* length, whose empty answers are counted as length bytes.
THEOREM GoodReads == Spec => GoodPacketRead
<1>1. Init => IInv
  BY ReadingStarts
<1>2. IInv /\ [Next]_vars => IInv'
  BY ReadingKept
<1>3. IInv => [\A n \in {0, 1, trp.rem_len} : rc' = -1 /\ MQTTPacket_readnb(n)
                    => again > 0 \/ Len(Packet) > BufLen]_vars
  BY GoodRead, Zenon
<1> QED BY <1>1, <1>2, <1>3, PTL DEF Spec, GoodPacketRead
=============================================================================

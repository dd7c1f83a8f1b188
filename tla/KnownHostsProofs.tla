-------------------------- MODULE KnownHostsProofs --------------------------
(***************************************************************************)
(* The host-key blob helpers for every digest, every blob and every list   *)
(* of families: types, the encoding, its padding, and the length check.    *)
(***************************************************************************)
EXTENDS KnownHosts, SequenceTheorems, TLAPS

\* A number of four digits in base 64, and in base 256.
Number64(p, q, r, s)  == (262144 * p) + (4096 * q) + (64 * r) + s
Number256(p, q, r, s) == (16777216 * p) + (65536 * q) + (256 * r) + s

Digits64(w)  == <<(w \div 262144) % 64, (w \div 4096) % 64, (w \div 64) % 64, w % 64>>
Digits256(n) == <<n \div 16777216, (n \div 65536) % 256, (n \div 256) % 256, n % 256>>

LEMMA Base64Digits ==
  ASSUME NEW p \in 0..63, NEW q \in 0..63, NEW r \in 0..63, NEW s \in 0..63
  PROVE  Digits64(Number64(p, q, r, s)) = <<p, q, r, s>>
<1> DEFINE w == Number64(p, q, r, s)
<1>1. w \div 262144 = p BY SMTT(20) DEF Number64
<1>2. w \div 4096 = (64 * p) + q BY SMTT(20) DEF Number64
<1>3. w \div 64 = (4096 * p) + (64 * q) + r BY SMTT(20) DEF Number64
<1>4. w % 64 = s BY SMTT(20) DEF Number64
<1>5. p % 64 = p /\ ((64 * p) + q) % 64 = q BY SMTT(20)
<1>6. ((4096 * p) + (64 * q) + r) % 64 = r BY SMTT(20)
<1> QED BY <1>1, <1>2, <1>3, <1>4, <1>5, <1>6, SMTT(20) DEF Digits64

LEMMA Base256Digits ==
  ASSUME NEW p \in Nat, NEW q \in 0..255, NEW r \in 0..255, NEW s \in 0..255
  PROVE  Digits256(Number256(p, q, r, s)) = <<p, q, r, s>>
<1> DEFINE n == Number256(p, q, r, s)
<1>1. n \div 16777216 = p BY SMTT(20) DEF Number256
<1>2. n \div 65536 = (256 * p) + q BY SMTT(20) DEF Number256
<1>3. n \div 256 = (65536 * p) + (256 * q) + r BY SMTT(20) DEF Number256
<1>4. n % 256 = s BY SMTT(20) DEF Number256
<1>5. ((256 * p) + q) % 256 = q BY SMTT(20)
<1>6. ((65536 * p) + (256 * q) + r) % 256 = r BY SMTT(20)
<1> QED BY <1>1, <1>2, <1>3, <1>4, <1>5, <1>6, SMTT(20) DEF Digits256

LEMMA Base256Number ==
  ASSUME NEW n \in Nat
  PROVE  n = Number256(n \div 16777216, (n \div 65536) % 256, (n \div 256) % 256, n % 256)
<1>1. n = (256 * (n \div 256)) + (n % 256) BY SMTT(20)
<1>2. n \div 256 = (256 * (n \div 65536)) + ((n \div 256) % 256) BY SMTT(20)
<1>3. n \div 65536 = (256 * (n \div 16777216)) + ((n \div 65536) % 256) BY SMTT(20)
<1> QED BY <1>1, <1>2, <1>3, SMTT(20) DEF Number256

\* Three bytes as a 24-bit word, the four sextets of the word, and the bytes
\* a decoder makes of them.
Word24(a, b, c) == a * 65536 + b * 256 + c

LEMMA Sextets ==
  ASSUME NEW a \in Byte, NEW b \in Byte, NEW c \in Byte, NEW w \in Nat,
         w = Word24(a, b, c)
  PROVE  /\ (w \div 262144) % 64 = a \div 4
         /\ (w \div 4096) % 64 = ((a % 4) * 16) + (b \div 16)
         /\ (w \div 64) % 64 = ((b % 16) * 4) + (c \div 64)
         /\ w % 64 = c % 64
<1> DEFINE p == a \div 4
           q == ((a % 4) * 16) + (b \div 16)
           r == ((b % 16) * 4) + (c \div 64)
           s == c % 64
<1>1. /\ a \div 4 \in 0..63 /\ a % 4 \in 0..3 /\ a = (4 * (a \div 4)) + (a % 4)
      /\ b \div 16 \in 0..15 /\ b % 16 \in 0..15 /\ b = (16 * (b \div 16)) + (b % 16)
      /\ c \div 64 \in 0..3 /\ c % 64 \in 0..63 /\ c = (64 * (c \div 64)) + (c % 64)
  BY SMTT(20) DEF Byte
<1>2. p \in 0..63 /\ q \in 0..63 /\ r \in 0..63 /\ s \in 0..63
  BY <1>1, SMTT(20)
<1>3. w = Number64(p, q, r, s)
  BY <1>1, SMTT(20) DEF Byte, Number64, Word24
<1>4. Digits64(w) = <<p, q, r, s>>
  <2> HIDE DEF p, q, r, s
  <2>1. Digits64(Number64(p, q, r, s)) = <<p, q, r, s>>
    BY <1>2, Base64Digits, Zenon
  <2> QED BY <1>3, <2>1, Zenon
<1> QED BY <1>4, SMTT(20) DEF Digits64

LEMMA SextetBytes ==
  ASSUME NEW a \in Byte, NEW b \in Byte, NEW c \in Byte
  PROVE  /\ ((a \div 4) * 4) + ((((a % 4) * 16) + (b \div 16)) \div 16) = a
         /\ (((((a % 4) * 16) + (b \div 16)) % 16) * 16)
              + ((((b % 16) * 4) + (c \div 64)) \div 4) = b
         /\ (((((b % 16) * 4) + (c \div 64)) % 4) * 64) + (c % 64) = c
BY SMTT(20) DEF Byte

LEMMA SextetRange ==
  ASSUME NEW a \in Byte, NEW b \in Byte
  PROVE  /\ a \div 4 \in 0..63 /\ a % 64 \in 0..63
         /\ ((a % 4) * 16) + (b \div 16) \in 0..63
         /\ ((a % 16) * 4) + (b \div 64) \in 0..63
BY SMTT(20) DEF Byte

\* A length and its four bytes, each way.
LEMMA FourBytes ==
  ASSUME NEW a \in Byte, NEW b \in Byte, NEW c \in Byte, NEW d \in Byte, NEW n \in Nat
  PROVE  n = a * 16777216 + b * 65536 + c * 256 + d <=>
           /\ a = n \div 16777216 /\ b = (n \div 65536) % 256
           /\ c = (n \div 256) % 256 /\ d = n % 256
<1>0. a \in Nat /\ b \in 0..255 /\ c \in 0..255 /\ d \in 0..255
  BY SMTT(20) DEF Byte
<1>1. a * 16777216 + b * 65536 + c * 256 + d = Number256(a, b, c, d)
  BY <1>0, SMTT(20) DEF Number256
<1>2. ASSUME n = Number256(a, b, c, d)
      PROVE  /\ a = n \div 16777216 /\ b = (n \div 65536) % 256
             /\ c = (n \div 256) % 256 /\ d = n % 256
  <2>1. Digits256(n) = <<a, b, c, d>>
    BY <1>0, <1>2, Base256Digits, Zenon
  <2>2. /\ Digits256(n)[1] = n \div 16777216 /\ Digits256(n)[2] = (n \div 65536) % 256
        /\ Digits256(n)[3] = (n \div 256) % 256 /\ Digits256(n)[4] = n % 256
    BY SMT DEF Digits256
  <2>3. /\ Digits256(n)[1] = a /\ Digits256(n)[2] = b
        /\ Digits256(n)[3] = c /\ Digits256(n)[4] = d
    BY <2>1, SMT
  <2> QED BY <2>2, <2>3, SMTT(60)
<1>3. ASSUME /\ a = n \div 16777216 /\ b = (n \div 65536) % 256
             /\ c = (n \div 256) % 256 /\ d = n % 256
      PROVE  n = Number256(a, b, c, d)
  BY <1>3, Base256Number, SMTT(20)
<1> QED BY <1>1, <1>2, <1>3, SMTT(20)

LEMMA Thirds ==
  ASSUME NEW n \in Nat \ {0}, NEW g \in Nat
  PROVE  /\ n <= 3 * g => ((n - 1) \div 3) + 1 \in 1..g
         /\ n = (3 * g) + 1 => ((n - 1) \div 3) + 1 = g + 1 /\ (n - 1) % 3 = 0
         /\ n = (3 * g) + 2 => ((n - 1) \div 3) + 1 = g + 1 /\ (n - 1) % 3 = 1
         /\ n = (3 * g) + 3 => ((n - 1) \div 3) + 1 = g + 1 /\ (n - 1) % 3 = 2
OBVIOUS

LEMMA Fourths ==
  ASSUME NEW n \in Nat \ {0}, NEW g \in Nat
  PROVE  /\ n <= 4 * g => ((n - 1) \div 4) + 1 \in 1..g
         /\ n = (4 * g) + 1 => ((n - 1) \div 4) + 1 = g + 1 /\ (n - 1) % 4 = 0
         /\ n = (4 * g) + 2 => ((n - 1) \div 4) + 1 = g + 1 /\ (n - 1) % 4 = 1
         /\ n = (4 * g) + 3 => ((n - 1) \div 4) + 1 = g + 1 /\ (n - 1) % 4 = 2
         /\ n = (4 * g) + 4 => ((n - 1) \div 4) + 1 = g + 1 /\ (n - 1) % 4 = 3
OBVIOUS

\* Where the padding begins.
Edge(n) == (8 * n + 5) \div 6

LEMMA Edges ==
  ASSUME NEW g \in Nat
  PROVE  /\ Edge(3 * g) = 4 * g
         /\ Edge((3 * g) + 1) = (4 * g) + 2
         /\ Edge((3 * g) + 2) = (4 * g) + 3
         /\ Edge((3 * g) + 3) = (4 * g) + 4
BY SMTT(20) DEF Edge

LEMMA EdgeRange ==
  ASSUME NEW n \in Nat, NEW g \in Nat, n <= 3 * g
  PROVE  Edge(n) \in 0..(4 * g)
BY SMTT(20) DEF Edge

GroupOf(w, n) == <<(w \div 262144) % 64, (w \div 4096) % 64,
                   IF n > 1 THEN (w \div 64) % 64 ELSE Pad,
                   IF n > 2 THEN w % 64 ELSE Pad>>

\* A group says what its chunk was: a, then b and c if there were so many.
LEMMA EncodedGroup ==
  ASSUME NEW a \in Byte, NEW b \in Byte, NEW c \in Byte, NEW w \in Nat,
         w = Word24(a, b, c), NEW n \in Nat \ {0}, NEW g,
         g = GroupOf(w, n)
  PROVE  /\ g \in Group
         /\ Decoded(g)[1] = a /\ (n > 1 => Decoded(g)[2] = b) /\ (n > 2 => Decoded(g)[3] = c)
         /\ g[1] # Pad /\ g[2] # Pad /\ (g[3] = Pad <=> n <= 1) /\ (g[4] = Pad <=> n <= 2)
<1> DEFINE p == a \div 4
           q == ((a % 4) * 16) + (b \div 16)
           r == ((b % 16) * 4) + (c \div 64)
           s == c % 64
<1>1. p \in 0..63 /\ q \in 0..63 /\ r \in 0..63 /\ s \in 0..63
  BY SextetRange
<1>2. g = <<p, q, IF n > 1 THEN r ELSE Pad, IF n > 2 THEN s ELSE Pad>>
  BY Sextets, SMTT(20) DEF GroupOf
<1>3. /\ (p * 4) + (q \div 16) = a
      /\ ((q % 16) * 16) + (r \div 4) = b
      /\ ((r % 4) * 64) + s = c
  BY SextetBytes
<1> HIDE DEF p, q, r, s
<1>4. g[1] = p /\ g[2] = q /\ (n > 1 => g[3] = r) /\ (n > 2 => g[4] = s)
      /\ (n <= 1 => g[3] = Pad) /\ (n <= 2 => g[4] = Pad)
  BY <1>2, SMTT(20)
<1>5. g \in Group BY <1>1, <1>2, SMTT(20) DEF Group, Char, Pad
<1>6. Decoded(g)[1] = a BY <1>3, <1>4 DEF Decoded
<1>7. n > 1 => Decoded(g)[2] = b BY <1>3, <1>4 DEF Decoded
<1>8. n > 2 => Decoded(g)[3] = c BY <1>3, <1>4 DEF Decoded
<1> QED BY <1>1, <1>4, <1>5, <1>6, <1>7, <1>8 DEF Pad
-----------------------------------------------------------------------------
\* How far the encoder is, and which call this is.
Covered ==
  /\ taken <= 3 * Len(groups)
  /\ taken < Len(bytes) => taken = 3 * Len(groups)
  /\ job \in {"encode", "trim"} => verdict = "none"
  /\ job = "trim" => taken = Len(bytes) /\ shown >= Edge(taken)
  /\ job = "done" /\ verdict = "none" => taken = Len(bytes) /\ shown = Edge(taken)

Padded ==
  \A n \in 1..(4 * Len(groups)) : Character(n) = Pad <=> n > Edge(taken)

Measured == job = "slice" => ~TooShort /\ ~BadLength

\* Whatever length a blob claims, the slice of its name stays inside it.
NeverPanics == verdict # "panic"

Inv == TypeOK /\ Covered /\ Padded /\ EncodingDecodes /\ Measured /\ NeverPanics /\ PlausibleIsNamed

LEMMA InitInv == Init => Inv
<1> SUFFICES ASSUME Init PROVE Inv
  OBVIOUS
<1>1. bytes \in Seq(Byte) BY KnownHostsAssumption DEF Init
<1>2. TypeOK BY <1>1 DEF Init, TypeOK
<1>3. Covered BY <1>1 DEF Init, Covered
<1>4. Padded BY DEF Init, Padded
<1>5. EncodingDecodes BY DEF Init, EncodingDecodes
<1> QED BY <1>2, <1>3, <1>4, <1>5 DEF Init, Inv, Measured, NeverPanics, PlausibleIsNamed
-----------------------------------------------------------------------------
LEMMA AtByte ==
  ASSUME bytes \in Seq(Byte), NEW n \in Nat \ {0}
  PROVE  At(n) \in Byte
<1>1. CASE n <= Len(bytes) BY <1>1 DEF At
<1>2. CASE ~(n <= Len(bytes)) BY <1>2 DEF At, Byte
<1> QED BY <1>1, <1>2

LEMMA EncodeStep == Inv /\ Encode => Inv'
<1> SUFFICES ASSUME Inv, Encode PROVE Inv'
  OBVIOUS
<1> DEFINE k == Len(groups)
           n == Len(bytes) - taken
           a == At(taken + 1)
           b == At(taken + 2)
           c == At(taken + 3)
           g == GroupOf(Word, n)
<1>1. /\ bytes \in Seq(Byte) /\ groups \in Seq(Group) /\ k \in Nat /\ Len(bytes) \in Nat
      /\ taken \in Nat /\ taken < Len(bytes) /\ taken = 3 * k /\ n \in Nat \ {0}
      /\ job = "encode" /\ verdict = "none" /\ shown \in 0..(4 * k)
  BY DEF Inv, TypeOK, Covered, Encode, Push
<1>2. /\ groups' = Append(groups, g)
      /\ taken' = IF taken + 3 <= Len(bytes) THEN taken + 3 ELSE Len(bytes)
      /\ bytes' = bytes /\ job' = job /\ shown' = shown /\ verdict' = verdict
  BY SMTT(20) DEF Encode, Push, GroupOf
<1>3. a \in Byte /\ b \in Byte /\ c \in Byte BY <1>1, AtByte
<1>4. Word \in Nat /\ Word = Word24(a, b, c)
  <2> HIDE DEF a, b, c
  <2>1. Word = Word24(a, b, c) BY SMTT(20) DEF Word, Word24, a, b, c
  <2> QED BY <1>3, <2>1, SMTT(20) DEF Word24, Byte
<1>5. /\ g \in Group
      /\ Decoded(g)[1] = a /\ (n > 1 => Decoded(g)[2] = b) /\ (n > 2 => Decoded(g)[3] = c)
      /\ g[1] # Pad /\ g[2] # Pad /\ (g[3] = Pad <=> n <= 1) /\ (g[4] = Pad <=> n <= 2)
  <2> HIDE DEF a, b, c, n
  <2> QED BY <1>1, <1>3, <1>4, EncodedGroup
<1> HIDE DEF g
<1>6. /\ groups' \in Seq(Group) /\ Len(groups') = k + 1
      /\ groups'[k + 1] = g /\ \A i \in 1..k : groups'[i] = groups[i]
  BY <1>1, <1>2, <1>5
<1>7. /\ taken' \in 0..Len(bytes) /\ taken' <= (3 * k) + 3
      /\ n = 1 => taken' = (3 * k) + 1
      /\ n = 2 => taken' = (3 * k) + 2
      /\ n > 2 => taken' = (3 * k) + 3
      /\ taken' < Len(bytes) => taken' = (3 * k) + 3
  BY <1>1, <1>2
<1>8. TypeOK' BY <1>1, <1>2, <1>6, <1>7 DEF Inv, TypeOK
<1>9. Covered' BY <1>1, <1>2, <1>6, <1>7 DEF Covered
<1>10. EncodingDecodes'
  <2> SUFFICES ASSUME NEW i \in 1..taken'
               PROVE  bytes[i] = Decoded(groups'[((i - 1) \div 3) + 1])[((i - 1) % 3) + 1]
    BY <1>2 DEF EncodingDecodes
  <2>0. i \in Nat \ {0} BY <1>7
  <2>1. CASE i <= 3 * k
    <3>1. ((i - 1) \div 3) + 1 \in 1..k BY <1>1, <2>0, <2>1, Thirds
    <3>2. bytes[i] = Decoded(groups[((i - 1) \div 3) + 1])[((i - 1) % 3) + 1]
      <4>1. i \in 1..taken BY <1>1, <2>0, <2>1
      <4> QED BY <4>1, Zenon DEF Inv, EncodingDecodes
    <3> QED BY <1>6, <3>1, <3>2, Zenon
  <2>2. CASE i = (3 * k) + 1
    <3>1. ((i - 1) \div 3) + 1 = k + 1 /\ ((i - 1) % 3) + 1 = 1 BY <1>1, <2>0, <2>2, Thirds
    <3>2. bytes[i] = a BY <1>1, <2>2 DEF At
    <3> QED BY <1>5, <1>6, <3>1, <3>2, Zenon
  <2>3. CASE i = (3 * k) + 2
    <3>1. ((i - 1) \div 3) + 1 = k + 1 /\ ((i - 1) % 3) + 1 = 2 BY <1>1, <2>0, <2>3, Thirds
    <3>2. bytes[i] = b /\ n > 1 BY <1>1, <1>7, <2>3 DEF At
    <3> QED BY <1>5, <1>6, <3>1, <3>2, Zenon
  <2>4. CASE i = (3 * k) + 3
    <3>1. ((i - 1) \div 3) + 1 = k + 1 /\ ((i - 1) % 3) + 1 = 3 BY <1>1, <2>0, <2>4, Thirds
    <3>2. bytes[i] = c /\ n > 2 BY <1>1, <1>7, <2>4 DEF At
    <3> QED BY <1>5, <1>6, <3>1, <3>2, Zenon
  <2>5. i <= 3 * k \/ i = (3 * k) + 1 \/ i = (3 * k) + 2 \/ i = (3 * k) + 3
    BY <1>1, <1>7, SMTT(20)
  <2> QED BY <2>1, <2>2, <2>3, <2>4, <2>5, Zenon
<1>11. Padded'
  <2> SUFFICES ASSUME NEW i \in 1..(4 * (k + 1))
               PROVE  groups'[((i - 1) \div 4) + 1][((i - 1) % 4) + 1] = Pad <=> i > Edge(taken')
    BY <1>6 DEF Padded, Character
  <2>0. i \in Nat \ {0} BY <1>1
  <2>1. /\ Edge(3 * k) = 4 * k /\ (n = 1 => Edge(taken') = (4 * k) + 2)
        /\ (n = 2 => Edge(taken') = (4 * k) + 3) /\ (n > 2 => Edge(taken') = (4 * k) + 4)
    BY <1>1, <1>7, Edges
  <2>2. CASE i <= 4 * k
    <3>1. ((i - 1) \div 4) + 1 \in 1..k BY <1>1, <2>0, <2>2, Fourths
    <3>2. groups[((i - 1) \div 4) + 1][((i - 1) % 4) + 1] = Pad <=> i > Edge(3 * k)
      <4>1. i \in 1..(4 * Len(groups)) BY <1>1, <2>0, <2>2
      <4>2. taken = 3 * k BY <1>1
      <4> QED BY <4>1, <4>2, Zenon DEF Inv, Padded, Character
    <3>3. ~(i > Edge(3 * k)) /\ ~(i > Edge(taken')) BY <1>1, <2>0, <2>1, <2>2
    <3> QED BY <1>6, <3>1, <3>2, <3>3, Zenon
  <2>3. CASE i = (4 * k) + 1
    <3>1. ((i - 1) \div 4) + 1 = k + 1 /\ ((i - 1) % 4) + 1 = 1 BY <1>1, <2>0, <2>3, Fourths
    <3>2. ~(i > Edge(taken')) BY <1>1, <2>0, <2>1, <2>3
    <3> QED BY <1>5, <1>6, <3>1, <3>2, Zenon
  <2>4. CASE i = (4 * k) + 2
    <3>1. ((i - 1) \div 4) + 1 = k + 1 /\ ((i - 1) % 4) + 1 = 2 BY <1>1, <2>0, <2>4, Fourths
    <3>2. ~(i > Edge(taken')) BY <1>1, <2>0, <2>1, <2>4
    <3> QED BY <1>5, <1>6, <3>1, <3>2, Zenon
  <2>5. CASE i = (4 * k) + 3
    <3>1. ((i - 1) \div 4) + 1 = k + 1 /\ ((i - 1) % 4) + 1 = 3 BY <1>1, <2>0, <2>5, Fourths
    <3>2. i > Edge(taken') <=> n <= 1 BY <1>1, <2>0, <2>1, <2>5
    <3> QED BY <1>5, <1>6, <3>1, <3>2, Zenon
  <2>6. CASE i = (4 * k) + 4
    <3>1. ((i - 1) \div 4) + 1 = k + 1 /\ ((i - 1) % 4) + 1 = 4 BY <1>1, <2>0, <2>6, Fourths
    <3>2. i > Edge(taken') <=> n <= 2 BY <1>1, <2>0, <2>1, <2>6
    <3> QED BY <1>5, <1>6, <3>1, <3>2, Zenon
  <2>7. \/ i <= 4 * k \/ i = (4 * k) + 1 \/ i = (4 * k) + 2
        \/ i = (4 * k) + 3 \/ i = (4 * k) + 4
    BY <1>1, SMTT(20)
  <2> QED BY <2>2, <2>3, <2>4, <2>5, <2>6, <2>7, Zenon
<1> QED BY <1>1, <1>2, <1>8, <1>9, <1>10, <1>11 DEF Inv, Measured, NeverPanics, PlausibleIsNamed
-----------------------------------------------------------------------------
\* What leaves the encoder's variables alone.
LEMMA EncoderKept ==
  ASSUME Inv, UNCHANGED <<bytes, taken, groups>>
  PROVE  Padded' /\ EncodingDecodes'
BY DEF Inv, Padded, Character, EncodingDecodes

LEMMA TrimStep == Inv /\ (Encoded \/ Trim \/ Trimmed) => Inv'
<1> SUFFICES ASSUME Inv, Encoded \/ Trim \/ Trimmed PROVE Inv'
  OBVIOUS
<1>1. UNCHANGED <<bytes, taken, groups>> BY Zenon DEF Encoded, Trim, Trimmed
<1>2. Padded' /\ EncodingDecodes' BY <1>1, EncoderKept, Zenon
<1>3. /\ Len(groups) \in Nat /\ Len(bytes) \in Nat /\ taken \in 0..Len(bytes)
      /\ taken <= 3 * Len(groups) /\ shown \in 0..(4 * Len(groups))
  BY DEF Inv, TypeOK, Covered
<1>4. Edge(taken) \in 0..(4 * Len(groups)) BY <1>3, EdgeRange
<1>5. job \in {"encode", "trim"} /\ verdict = "none" /\ verdict' = "none"
  BY DEF Inv, Covered, Encoded, Trim, Trimmed
<1>6. job = "trim" /\ shown > 0 => (Character(shown) = Pad <=> shown > Edge(taken))
  BY <1>3, <1>4 DEF Inv, Padded
<1>7. /\ job' \in {"trim", "done"}
      /\ shown' \in 0..(4 * Len(groups))
      /\ taken = Len(bytes) /\ shown' >= Edge(taken)
      /\ job' = "done" => shown' = Edge(taken)
  <2>1. CASE Encoded BY <1>3, <1>4, <2>1 DEF Encoded
  <2>2. CASE Trim BY <1>3, <1>4, <1>6, <2>2 DEF Trim, Inv, Covered
  <2>3. CASE Trimmed BY <1>3, <1>4, <1>6, <2>3 DEF Trimmed, Inv, Covered
  <2> QED BY <2>1, <2>2, <2>3
<1>8. TypeOK' BY <1>1, <1>5, <1>7 DEF Inv, TypeOK
<1>9. Covered' BY <1>1, <1>3, <1>5, <1>7 DEF Covered
<1> QED BY <1>2, <1>5, <1>7, <1>8, <1>9 DEF Inv, Measured, NeverPanics, PlausibleIsNamed
-----------------------------------------------------------------------------
LEMMA Beginning ==
  ASSUME NEW name \in Seq(Byte), NEW family \in Seq(Byte)
  PROVE  Begins(name, family) <=>
           Len(family) <= Len(name) /\ SubSeq(name, 1, Len(family)) = family
<1>1. Len(family) \in Nat /\ Len(name) \in Nat OBVIOUS
<1>2. CASE Len(family) <= Len(name)
  <2> DEFINE front == SubSeq(name, 1, Len(family))
  <2>1. /\ front \in Seq(Byte) /\ Len(front) = Len(family)
        /\ \A k \in 1..Len(family) : front[k] = name[k]
    BY <1>1, <1>2
  <2> HIDE DEF front
  <2>2. ASSUME \A k \in 1..Len(family) : name[k] = family[k] PROVE front = family
    BY <2>1, <2>2, SeqEqual
  <2>3. ASSUME front = family PROVE \A k \in 1..Len(family) : name[k] = family[k]
    BY <2>1, <2>3
  <2> QED BY <1>2, <2>2, <2>3, Zenon DEF Begins, front
<1>3. CASE ~(Len(family) <= Len(name)) BY <1>3, Zenon DEF Begins
<1> QED BY <1>2, <1>3

\* What the property asks for is what the code looks at.
LEMMA NamesAtClaimed ==
  ASSUME bytes \in Seq(Byte), NEW n \in 4..(Len(bytes) - 4)
  PROVE  NamesAt(n) <=> n = Claimed /\ Named(SubSeq(bytes, 5, 4 + n))
<1> DEFINE name == SubSeq(bytes, 5, 4 + n)
           Familiar == \E family \in Families :
                         Len(family) <= n /\ SubSeq(name, 1, Len(family)) = family
           Printable == \A k \in 1..n : name[k] >= 32 /\ name[k] <= 126
<1>1. /\ n \in Nat /\ bytes[1] \in Byte /\ bytes[2] \in Byte
      /\ bytes[3] \in Byte /\ bytes[4] \in Byte
  OBVIOUS
<1>2. name \in Seq(Byte) /\ Len(name) = n OBVIOUS
<1>3. NamesAt(n) <=> Says(n) /\ Familiar /\ Printable BY Zenon DEF NamesAt
<1>4. n = Claimed <=> Says(n)
  <2>1. n = bytes[1] * 16777216 + bytes[2] * 65536 + bytes[3] * 256 + bytes[4] <=> Says(n)
    BY <1>1, FourBytes, SMTT(20) DEF Says
  <2> QED BY <2>1, SMTT(20) DEF Claimed
<1> HIDE DEF name
<1>5. Familiar <=> \E family \in Families : Begins(name, family)
  <2>1. \A family \in Families : family \in Seq(Byte) BY KnownHostsAssumption
  <2> QED BY <1>2, <2>1, Beginning, Zenon
<1>6. Printable <=> \A k \in 1..Len(name) : name[k] \in 32..126
  <2>1. \A k \in 1..n : name[k] \in Int
    <3>1. \A k \in 1..n : name[k] \in Byte BY <1>2, SMTT(20)
    <3>2. Byte \subseteq Int BY DEF Byte
    <3> QED BY <3>1, <3>2, Zenon
  <2>2. ASSUME NEW v \in Int PROVE v >= 32 /\ v <= 126 <=> v \in 32..126
    OBVIOUS
  <2> QED BY <1>2, <2>1, <2>2, Zenon
<1> HIDE DEF Familiar, Printable
<1>7. Named(name) <=> Familiar /\ Printable BY <1>5, <1>6, Zenon DEF Named
<1>8. NamesAt(n) <=> n = Claimed /\ Named(name) BY <1>3, <1>4, <1>7, Zenon
<1> QED BY <1>8, Zenon DEF name

\* A blob that stays the same is judged the same.
Plausible == \E n \in 4..(Len(bytes) - 4) : NamesAt(n)

LEMMA BlobKept ==
  ASSUME UNCHANGED bytes
  PROVE  (TooShort' <=> TooShort) /\ (BadLength' <=> BadLength) /\ (Plausible' <=> Plausible)
<1>1. TooShort' <=> TooShort BY SMT DEF TooShort
<1>2. BadLength' <=> BadLength BY SMT DEF BadLength, Claimed
<1>3. Plausible' <=> Plausible BY SMT DEF Plausible, NamesAt, Says
<1> QED BY <1>1, <1>2, <1>3, Zenon

LEMMA JudgeStep == Inv /\ (Measure \/ Slice) => Inv'
<1> SUFFICES ASSUME Inv, Measure \/ Slice PROVE Inv'
  OBVIOUS
<1>1. UNCHANGED <<bytes, taken, groups, shown>> BY Zenon DEF Measure, Slice
<1>2. Padded' /\ EncodingDecodes' BY <1>1, EncoderKept, Zenon
<1>3. bytes \in Seq(Byte) /\ Len(bytes) \in Nat BY DEF Inv, TypeOK
<1>4. Claimed \in Nat \/ TooShort
  <2>1. CASE Len(bytes) < 4 BY <2>1 DEF TooShort
  <2>2. CASE ~(Len(bytes) < 4)
    <3>1. /\ bytes[1] \in Byte /\ bytes[2] \in Byte
          /\ bytes[3] \in Byte /\ bytes[4] \in Byte
      BY <1>3, <2>2
    <3>2. Claimed = bytes[1] * 16777216 + bytes[2] * 65536 + bytes[3] * 256 + bytes[4]
      BY SMT DEF Claimed
    <3>3. ASSUME NEW a \in Byte, NEW b \in Byte, NEW c \in Byte, NEW d \in Byte
          PROVE  a * 16777216 + b * 65536 + c * 256 + d \in Nat
      BY SMT DEF Byte
    <3> QED BY <3>1, <3>2, <3>3, SMT
  <2> QED BY <2>1, <2>2
<1>5. Claimed \in 4..(Len(bytes) - 4) <=> ~TooShort /\ ~BadLength
  BY <1>3, <1>4, SMTT(20) DEF TooShort, BadLength
<1>6. \A n \in 4..(Len(bytes) - 4) :
        NamesAt(n) <=> n = Claimed /\ Named(SubSeq(bytes, 5, 4 + n))
  BY <1>3, NamesAtClaimed, Zenon
<1>8. CASE Measure /\ (TooShort \/ BadLength)
  <2>1. job' = "done" /\ verdict' = "no" BY <1>8, Zenon DEF Measure
  <2>2. ~Plausible BY <1>5, <1>6, <1>8, Zenon DEF Plausible
  <2>3. PlausibleIsNamed' BY <1>1, <2>1, <2>2, BlobKept DEF PlausibleIsNamed, Plausible
  <2> QED BY <1>1, <1>2, <2>1, <2>3 DEF Inv, TypeOK, Covered, Measured, NeverPanics
<1>9. CASE Measure /\ ~(TooShort \/ BadLength)
  <2>1. job = "measure" /\ job' = "slice" /\ verdict' = verdict BY <1>9, Zenon DEF Measure
  <2>2. ~TooShort' /\ ~BadLength' BY <1>1, <1>9, BlobKept, Zenon
  <2> QED BY <1>1, <1>2, <2>1, <2>2
          DEF Inv, TypeOK, Covered, Measured, NeverPanics, PlausibleIsNamed
<1>10. CASE Slice
  <2>1. job = "slice" /\ job' = "done" BY <1>10, Zenon DEF Slice
  <2>2. Claimed \in 4..(Len(bytes) - 4) BY <1>5, <2>1, Zenon DEF Inv, Measured
  <2>3. verdict' = IF Named(SubSeq(bytes, 5, 4 + Claimed)) THEN "yes" ELSE "no"
    BY <1>3, <1>10, <2>2 DEF Slice
  <2>4. verdict' = "yes" <=> Plausible
    <3>1. Plausible <=> Named(SubSeq(bytes, 5, 4 + Claimed))
      BY <1>6, <2>2, Zenon DEF Plausible
    <3> QED BY <2>3, <3>1, SMT
  <2>5. PlausibleIsNamed' BY <1>1, <2>3, <2>4, BlobKept DEF PlausibleIsNamed, Plausible
  <2> QED BY <1>1, <1>2, <2>1, <2>3, <2>5 DEF Inv, TypeOK, Covered, Measured, NeverPanics
<1> QED BY <1>8, <1>9, <1>10

LEMMA InvAlways == Spec => []Inv
<1>1. Inv /\ UNCHANGED vars => Inv'
  <2> SUFFICES ASSUME Inv, UNCHANGED vars PROVE Inv'
    OBVIOUS
  <2>1. Padded' /\ EncodingDecodes' BY EncoderKept DEF vars
  <2>2. PlausibleIsNamed' BY BlobKept DEF Inv, vars, PlausibleIsNamed, Plausible
  <2>3. Measured' BY BlobKept DEF Inv, vars, Measured
  <2> QED BY <2>1, <2>2, <2>3 DEF Inv, vars, TypeOK, Covered, NeverPanics
<1>2. Inv /\ [Next]_vars => Inv'
  BY <1>1, EncodeStep, TrimStep, JudgeStep, Zenon DEF Next, Returned
<1> QED BY <1>2, InitInv, PTL DEF Spec
-----------------------------------------------------------------------------
\* Both calls keep their variables to their types, whatever they are given.
THEOREM KnownHostsTypeCorrect == Spec => []TypeOK
BY InvAlways, PTL DEF Inv

\* A digest of any length can be read back from its encoding.
THEOREM EncodingAlwaysDecodes == Spec => []EncodingDecodes
BY InvAlways, PTL DEF Inv

\* The fingerprint of a digest of any length is cut exactly where the padding
\* begins.
THEOREM FingerprintAlwaysUnpadded == Spec => []FingerprintUnpadded
<1>1. Inv => FingerprintUnpadded
  <2> SUFFICES ASSUME Inv, job = "done", verdict = "none"
               PROVE  /\ shown = Edge(Len(bytes))
                      /\ \A n \in 1..shown : Character(n) # Pad
    BY DEF FingerprintUnpadded, Edge
  <2>1. taken = Len(bytes) /\ shown = Edge(taken) BY DEF Inv, Covered
  <2>2. shown \in 0..(4 * Len(groups)) /\ Len(groups) \in Nat BY DEF Inv, TypeOK
  <2> QED BY <2>1, <2>2 DEF Inv, Padded
<1> QED BY <1>1, InvAlways, PTL

\* No blob, whatever length it claims, makes the slice of its name panic.
THEOREM BlobsNeverPanic == Spec => []NeverPanics
BY InvAlways, PTL DEF Inv

\* For any blob and any families, a plausible blob is one that names a family.
THEOREM PlausibleAlwaysNamed == Spec => []PlausibleIsNamed
BY InvAlways, PTL DEF Inv
=============================================================================

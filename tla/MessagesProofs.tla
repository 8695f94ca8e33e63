--------------------------- MODULE MessagesProofs ---------------------------
(***************************************************************************)
(* Proofs about what protodec_getdata() makes of a frame, for every frame  *)
(* and every value of the constants: the sentences can be read back, and   *)
(* fit their buffers; the fields are read from different bits, and from    *)
(* the same bits as the GUI reads them.                                    *)
(*                                                                         *)
(* Every step computes sent and fields from its frame alone, so that the   *)
(* invariants need no strengthening; the work is in the data: six bits, a  *)
(* letter, the letters of a sentence, and by induction all sentences.      *)
(***************************************************************************)
EXTENDS Messages, SequenceTheorems, WellFoundedInduction, TLAPS

(***************************************************************************)
(* Every nonempty set of numbers has a least one.  Induction over the      *)
(* sentences is done with it: were there a number of sentences for which   *)
(* the statement fails, there would be a least one.                        *)
(***************************************************************************)
LEMMA LeastNat ==
  ASSUME NEW T \in SUBSET Nat, T # {}
  PROVE  \E n \in T : \A m \in T : n <= m
<1>1. PICK R : R = {ss \in Nat \X Nat : ss[1] < ss[2]}
  OBVIOUS
<1>2. IsWellFoundedOn(R, Nat)
  BY <1>1, NatLessThanWellFounded DEF OpToRel
<1>3. PICK x \in T : \A y \in T : ~(<<y, x>> \in R)
  BY <1>2, WFMin
<1>4. ASSUME NEW y \in T PROVE x <= y
  <2>1. ~(<<y, x>> \in R) /\ x \in Nat /\ y \in Nat
    BY <1>3
  <2> QED
    BY <2>1, <1>1
<1> QED
  BY <1>4

-----------------------------------------------------------------------------
(* A letter.                                                               *)

\* The list of values after each of six bits.
IsValue(f, from, bits) ==
  f = [i \in 0 .. 6 |-> IF i = 0 THEN 0 ELSE 2 * f[i - 1] + bits[from + i]]

(***************************************************************************)
(* protodec_henten() of six bits is their value, the first bit the         *)
(* highest.                                                                *)
(***************************************************************************)
LEMMA SixBits ==
  ASSUME NEW bits \in Seq({0, 1}), NEW from \in Nat, from + 6 <= Len(bits)
  PROVE  protodec_henten(from, 6, bits) =
           32 * bits[from + 1] + 16 * bits[from + 2] + 8 * bits[from + 3]
             + 4 * bits[from + 4] + 2 * bits[from + 5] + bits[from + 6]
<1>1. PICK b1, b2, b3, b4, b5, b6 :
         /\ b1 = bits[from + 1] /\ b2 = bits[from + 2] /\ b3 = bits[from + 3]
         /\ b4 = bits[from + 4] /\ b5 = bits[from + 5] /\ b6 = bits[from + 6]
  OBVIOUS
<1>2. ASSUME NEW i \in 1 .. 6 PROVE bits[from + i] \in {0, 1}
  <2>1. PICK j : j = from + i
    OBVIOUS
  <2>2. j \in 1 .. Len(bits)
    BY <2>1
  <2> QED
    BY <2>1, <2>2
<1>3. /\ b1 \in Int /\ 0 <= b1 /\ b1 <= 1 /\ b2 \in Int /\ 0 <= b2 /\ b2 <= 1
      /\ b3 \in Int /\ 0 <= b3 /\ b3 <= 1 /\ b4 \in Int /\ 0 <= b4 /\ b4 <= 1
      /\ b5 \in Int /\ 0 <= b5 /\ b5 <= 1 /\ b6 \in Int /\ 0 <= b6 /\ b6 <= 1
  <2>1. /\ b1 \in {0, 1} /\ b2 \in {0, 1} /\ b3 \in {0, 1}
        /\ b4 \in {0, 1} /\ b5 \in {0, 1} /\ b6 \in {0, 1}
    BY <1>1, <1>2
  <2> QED
    BY <2>1
<1>4. PICK v1, v2, v3, v4, v5, v6 :
         /\ v1 = b1 /\ v2 = 2 * v1 + b2 /\ v3 = 2 * v2 + b3
         /\ v4 = 2 * v3 + b4 /\ v5 = 2 * v4 + b5 /\ v6 = 2 * v5 + b6
  OBVIOUS
<1>5. \E f : IsValue(f, from, bits)
  <2>1. PICK f : f = [i \in 0 .. 6 |-> IF i = 0 THEN 0 ELSE IF i = 1 THEN v1 ELSE IF i = 2 THEN v2
                        ELSE IF i = 3 THEN v3 ELSE IF i = 4 THEN v4 ELSE IF i = 5 THEN v5 ELSE v6]
    OBVIOUS
  <2>2. f[0] = 0 /\ f[1] = v1 /\ f[2] = v2 /\ f[3] = v3 /\ f[4] = v4 /\ f[5] = v5 /\ f[6] = v6
    BY <2>1
  <2>3. ASSUME NEW i \in 0 .. 6
        PROVE  f[i] = IF i = 0 THEN 0 ELSE 2 * f[i - 1] + bits[from + i]
    <3>1. i = 0 \/ i = 1 \/ i = 2 \/ i = 3 \/ i = 4 \/ i = 5 \/ i = 6
      OBVIOUS
    <3>2. v1 = 2 * 0 + b1
      BY <1>3, <1>4
    <3>3. /\ f[0] = 0 /\ f[1] = 2 * f[0] + bits[from + 1] /\ f[2] = 2 * f[1] + bits[from + 2]
          /\ f[3] = 2 * f[2] + bits[from + 3] /\ f[4] = 2 * f[3] + bits[from + 4]
          /\ f[5] = 2 * f[4] + bits[from + 5] /\ f[6] = 2 * f[5] + bits[from + 6]
      BY <3>2, <2>2, <1>1, <1>4
    <3>4. CASE i = 0
      BY <3>4, <3>3
    <3>5. CASE i = 1
      <4>1. i # 0 /\ i - 1 = 0
        BY <3>5
      <4> QED
        BY <4>1, <3>5, <3>3
    <3>6. CASE i = 2
      <4>1. i # 0 /\ i - 1 = 1
        BY <3>6
      <4> QED
        BY <4>1, <3>6, <3>3
    <3>7. CASE i = 3
      <4>1. i # 0 /\ i - 1 = 2
        BY <3>7
      <4> QED
        BY <4>1, <3>7, <3>3
    <3>8. CASE i = 4
      <4>1. i # 0 /\ i - 1 = 3
        BY <3>8
      <4> QED
        BY <4>1, <3>8, <3>3
    <3>9. CASE i = 5
      <4>1. i # 0 /\ i - 1 = 4
        BY <3>9
      <4> QED
        BY <4>1, <3>9, <3>3
    <3>10. CASE i = 6
      <4>1. i # 0 /\ i - 1 = 5
        BY <3>10
      <4> QED
        BY <4>1, <3>10, <3>3
    <3> QED
      BY <3>1, <3>4, <3>5, <3>6, <3>7, <3>8, <3>9, <3>10
  <2>4. IsValue(f, from, bits)
    BY <2>1, <2>3 DEF IsValue
  <2> QED
    BY <2>4
<1>6. PICK f : f = CHOOSE g : IsValue(g, from, bits)
  OBVIOUS
<1>7. IsValue(f, from, bits)
  BY <1>5, <1>6
<1>8. protodec_henten(from, 6, bits) = f[6]
  BY <1>6 DEF IsValue, protodec_henten
<1>9. \A i \in 0 .. 6 : f[i] = IF i = 0 THEN 0 ELSE 2 * f[i - 1] + bits[from + i]
  BY <1>7 DEF IsValue
<1>10. f[0] = 0 /\ f[1] = 2 * f[0] + b1 /\ f[2] = 2 * f[1] + b2 /\ f[3] = 2 * f[2] + b3
       /\ f[4] = 2 * f[3] + b4 /\ f[5] = 2 * f[4] + b5 /\ f[6] = 2 * f[5] + b6
  BY <1>1, <1>9
<1>11. f[6] = 32 * b1 + 16 * b2 + 8 * b3 + 4 * b4 + 2 * b5 + b6
  BY <1>3, <1>10
<1> QED
  BY <1>1, <1>8, <1>11

(***************************************************************************)
(* What protodec_generate_nmea() makes of six bits, a reader undoes bit by *)
(* bit: the alphabet of the code has a gap, but no two letters for one     *)
(* value nor two values for one letter.                                    *)
(***************************************************************************)
LEMMA LetterRead ==
  ASSUME NEW bits \in Seq({0, 1}), NEW from \in Nat, from + 6 <= Len(bits), NEW k \in 1 .. 6,
         NEW v, v = protodec_henten(from, 6, bits)
  PROVE  v \in Nat /\ Armor(v) \in Nat /\ BitOf(Unarmor(Armor(v)), k) = bits[from + k]
<1>1. PICK b1, b2, b3, b4, b5, b6 :
         /\ b1 = bits[from + 1] /\ b2 = bits[from + 2] /\ b3 = bits[from + 3]
         /\ b4 = bits[from + 4] /\ b5 = bits[from + 5] /\ b6 = bits[from + 6]
  OBVIOUS
<1>2. ASSUME NEW i \in 1 .. 6 PROVE bits[from + i] \in {0, 1}
  <2>1. PICK j : j = from + i
    OBVIOUS
  <2>2. j \in 1 .. Len(bits)
    BY <2>1
  <2> QED
    BY <2>1, <2>2
<1>3. /\ b1 \in Int /\ 0 <= b1 /\ b1 <= 1 /\ b2 \in Int /\ 0 <= b2 /\ b2 <= 1
      /\ b3 \in Int /\ 0 <= b3 /\ b3 <= 1 /\ b4 \in Int /\ 0 <= b4 /\ b4 <= 1
      /\ b5 \in Int /\ 0 <= b5 /\ b5 <= 1 /\ b6 \in Int /\ 0 <= b6 /\ b6 <= 1
  <2>1. /\ b1 \in {0, 1} /\ b2 \in {0, 1} /\ b3 \in {0, 1}
        /\ b4 \in {0, 1} /\ b5 \in {0, 1} /\ b6 \in {0, 1}
    BY <1>1, <1>2
  <2> QED
    BY <2>1
<1>4. v = 32 * b1 + 16 * b2 + 8 * b3 + 4 * b4 + 2 * b5 + b6
  BY <1>1, SixBits
<1>5. v \in Int /\ 0 <= v /\ v <= 63
  BY <1>3, <1>4
<1>6. Armor(v) \in Nat /\ Unarmor(Armor(v)) = v
  BY <1>5 DEF Armor, Unarmor
<1>7. /\ (v \div 32) % 2 = b1 /\ (v \div 16) % 2 = b2 /\ (v \div 8) % 2 = b3
      /\ (v \div 4) % 2 = b4 /\ (v \div 2) % 2 = b5 /\ (v \div 1) % 2 = b6
  <2>1. v \div 32 = b1
    BY <1>3, <1>4
  <2>2. v \div 16 = 2 * b1 + b2
    BY <1>3, <1>4
  <2>3. v \div 8 = 4 * b1 + 2 * b2 + b3
    BY <1>3, <1>4
  <2>4. v \div 4 = 8 * b1 + 4 * b2 + 2 * b3 + b4
    BY <1>3, <1>4
  <2>5. v \div 2 = 16 * b1 + 8 * b2 + 4 * b3 + 2 * b4 + b5
    BY <1>3, <1>4
  <2>6. v \div 1 = v
    BY <1>5
  <2>7. (v \div 32) % 2 = b1
    BY <2>1, <1>3
  <2>8. (v \div 16) % 2 = b2
    BY <2>2, <1>3
  <2>9. (v \div 8) % 2 = b3
    BY <2>3, <1>3
  <2>10. (v \div 4) % 2 = b4
    BY <2>4, <1>3
  <2>11. (v \div 2) % 2 = b5
    BY <2>5, <1>3
  <2>12. (v \div 1) % 2 = b6
    BY <2>6, <1>3, <1>4
  <2> QED
    BY <2>7, <2>8, <2>9, <2>10, <2>11, <2>12
<1>8. BitOf(v, k) = bits[from + k]
  <2>1. /\ BitOf(v, 1) = b1 /\ BitOf(v, 2) = b2 /\ BitOf(v, 3) = b3
        /\ BitOf(v, 4) = b4 /\ BitOf(v, 5) = b5 /\ BitOf(v, 6) = b6
    BY <1>7 DEF BitOf
  <2>2. k = 1 \/ k = 2 \/ k = 3 \/ k = 4 \/ k = 5 \/ k = 6
    OBVIOUS
  <2> QED
    BY <2>1, <2>2, <1>1
<1> QED
  BY <1>5, <1>6, <1>8

-----------------------------------------------------------------------------
(* Fill bits and sentences.                                                *)

(***************************************************************************)
(* protodec_getdata() fills the payload up to whole letters and leaves its *)
(* bits where they are.                                                    *)
(***************************************************************************)
LEMMA PaddedFacts ==
  ASSUME NEW bits \in Seq({0, 1})
  PROVE  /\ Padded(bits) \in Seq({0, 1}) /\ Fillbits(Len(bits)) \in 0 .. 5
         /\ Len(Padded(bits)) = Len(bits) + Fillbits(Len(bits))
         /\ Len(Padded(bits)) % 6 = 0
         /\ \A i \in 1 .. Len(bits) : Padded(bits)[i] = bits[i]
<1>1. PICK n \in Nat : n = Len(bits)
  OBVIOUS
<1>2. PICK k : k = Fillbits(n)
  OBVIOUS
<1>3. k \in 0 .. 5 /\ (n + k) % 6 = 0
  BY <1>2 DEF Fillbits
<1>4. PICK z : z = [i \in 1 .. k |-> 0]
  OBVIOUS
<1>5. z \in Seq({0, 1}) /\ Len(z) = k
  BY <1>3, <1>4
<1>6. Padded(bits) = bits \o z
  BY <1>1, <1>2, <1>4 DEF Padded
<1>7. bits \in Seq({0, 1}) /\ z \in Seq({0, 1})
  BY <1>5
<1>8. /\ bits \o z \in Seq({0, 1}) /\ Len(bits \o z) = Len(bits) + Len(z)
      /\ \A i \in 1 .. Len(bits) + Len(z) :
           (bits \o z)[i] = IF i <= Len(bits) THEN bits[i] ELSE z[i - Len(bits)]
  BY <1>7, ConcatProperties
<1>9. \A i \in 1 .. n : (bits \o z)[i] = bits[i]
  BY <1>1, <1>3, <1>5, <1>8
<1> QED
  BY <1>1, <1>2, <1>3, <1>5, <1>6, <1>8, <1>9

\* N sentences of S letters are enough for L letters, and none too many.
Fits(N, L) ==
  /\ N \in Nat /\ N > 0 /\ L \in Nat
  /\ L <= N * senlen
  /\ \A i \in 0 .. N - 1 : i * senlen \in Nat /\ i * senlen <= L

(***************************************************************************)
(* The number of sentences that protodec_generate_nmea() computes by       *)
(* division and remainder is enough for all letters, no sentence begins    *)
(* beyond the last letter, and it is a single digit for the payloads that  *)
(* fit.                                                                    *)
(***************************************************************************)
LEMMA SentencesFit ==
  ASSUME NEW L \in Nat, NEW n, n = 6 * L
  PROVE  Fits(Sentences(n), L) /\ (n <= 9 * 6 * senlen => Sentences(n) <= 9)
<1>1. PICK S \in Nat : S = senlen /\ S > 0
  BY NmeaAssumption
<1>2. CASE n <= S * 6
  <2>1. Sentences(n) = 1
    BY <1>1, <1>2 DEF Sentences
  <2>2. L <= 1 * S /\ 0 * S = 0
    BY <1>2
  <2> QED
    BY <1>1, <2>1, <2>2 DEF Fits
<1>3. CASE ~(n <= S * 6)
  <2>1. PICK m \in Nat : m = S * 6
    OBVIOUS
  <2>2. PICK q \in Nat, r \in Nat : q = n \div m /\ r = n % m /\ r < m /\ n = (m * q) + r
    <3>1. n \in Nat /\ m > 0
      BY <2>1, <1>1
    <3>2. n \div m \in Nat /\ n % m \in 0 .. m - 1 /\ n = (m * (n \div m)) + (n % m)
      BY <3>1
    <3> QED
      BY <3>2
  <2>3. PICK t \in Nat : t = q * S
    OBVIOUS
  <2>4. m * q = 6 * t
    BY <2>1, <2>3
  <2>5. PICK N \in Nat : N = IF r # 0 THEN q + 1 ELSE q
    OBVIOUS
  <2>6. Sentences(n) = N
    BY <1>1, <1>3, <2>1, <2>2, <2>5 DEF Sentences
  <2>7. 6 * L = 6 * t + r /\ r < 6 * S
    <3>1. n = (6 * t) + r
      BY <2>2, <2>4
    <3>2. r < 6 * S
      BY <2>1, <2>2
    <3> QED
      BY <3>1, <3>2
  <2>8. t <= L /\ L < t + S /\ (r = 0 => L = t)
    BY <2>7
  <2>9. (q + 1) * S = t + S
    BY <2>3
  <2>10. L <= N * S
    BY <2>3, <2>5, <2>8, <2>9
  <2>11. N > 0
    <3>1. q # 0
      <4>1. SUFFICES ASSUME q = 0 PROVE FALSE
        OBVIOUS
      <4>2. t = 0
        BY <4>1, <2>3
      <4> QED
        BY <4>2, <2>8, <1>3
    <3> QED
      BY <3>1, <2>5
  <2>12. ASSUME NEW i \in 0 .. N - 1 PROVE i * S \in Nat /\ i * S <= L
    <3>1. i <= q /\ i \in Nat
      BY <2>5
    <3>2. i * S <= q * S /\ i * S \in Nat
      BY <3>1
    <3> QED
      BY <3>2, <2>3, <2>8
  <2>13. ASSUME n <= 9 * 6 * S PROVE N <= 9
    <3>1. SUFFICES ASSUME N >= 10 PROVE FALSE
      BY <2>5
    <3>2. CASE q >= 10
      <4>1. 10 * S <= q * S
        BY <3>2
      <4> QED
        BY <4>1, <2>3, <2>8, <2>13, <1>1
    <3>3. CASE q = 9 /\ r # 0
      <4>1. t = 9 * S
        BY <3>3, <2>3
      <4> QED
        BY <4>1, <3>3, <2>7, <2>13, <1>1
    <3> QED
      BY <3>1, <3>2, <3>3, <2>5
  <2> QED
    BY <1>1, <2>6, <2>10, <2>11, <2>12, <2>13 DEF Fits
<1> QED
  BY <1>2, <1>3, <1>1

-----------------------------------------------------------------------------
(* A reader of all sentences.                                              *)

\* f is the list of the letters of the first sentences.
IsCollected(f, s, n) ==
  f = [i \in 0 .. n |-> IF i = 0 THEN <<>> ELSE f[i - 1] \o s[i].letters]

(***************************************************************************)
(* A reader that joins n sentences has a list of what it joined: the       *)
(* recursive definition defines something.                                 *)
(***************************************************************************)
LEMMA CollectedExists ==
  ASSUME NEW s, NEW n \in Nat
  PROVE  \E f : IsCollected(f, s, n)
<1> DEFINE T == {k \in Nat : ~\E f : IsCollected(f, s, k)}
<1> SUFFICES ASSUME T # {} PROVE FALSE
  OBVIOUS
<1>1. PICK m \in T : \A k \in T : m <= k
  BY LeastNat
<1>2. CASE m = 0
  <2>1. PICK f : f = [k \in 0 .. 0 |-> <<>>]
    OBVIOUS
  <2>2. f = [k \in 0 .. 0 |-> IF k = 0 THEN <<>> ELSE f[k - 1] \o s[k].letters]
    BY <2>1
  <2> QED
    BY <1>2, <2>2 DEF IsCollected
<1>3. CASE m # 0
  <2>1. m \in Nat /\ m - 1 \in Nat /\ m - 1 \notin T
    BY <1>1, <1>3
  <2>2. PICK f : IsCollected(f, s, m - 1)
    BY <2>1
  <2>3. PICK g : g = [k \in 0 .. m |-> IF k = m THEN f[m - 1] \o s[m].letters ELSE f[k]]
    OBVIOUS
  <2>4. \A k \in 0 .. m - 1 : f[k] = IF k = 0 THEN <<>> ELSE f[k - 1] \o s[k].letters
    BY <2>2, <2>1 DEF IsCollected
  <2>5. ASSUME NEW k \in 0 .. m
        PROVE  g[k] = IF k = 0 THEN <<>> ELSE g[k - 1] \o s[k].letters
    <3>1. CASE k = m
      <4>1. g[m] = f[m - 1] \o s[m].letters /\ g[m - 1] = f[m - 1]
        BY <2>3, <2>1
      <4> QED
        BY <4>1, <3>1, <1>3
    <3>2. CASE k # m
      <4>1. k \in 0 .. m - 1 /\ g[k] = f[k]
        BY <3>2, <2>3, <2>1
      <4>2. k # 0 => g[k - 1] = f[k - 1]
        BY <4>1, <2>3, <2>1
      <4> QED
        BY <4>1, <4>2, <2>4
    <3> QED
      BY <3>1, <3>2
  <2>6. IsCollected(g, s, m)
    BY <2>3, <2>5 DEF IsCollected
  <2> QED
    BY <2>6, <1>1
<1> QED
  BY <1>2, <1>3

(***************************************************************************)
(* Collected is that list.                                                 *)
(***************************************************************************)
LEMMA CollectedSteps ==
  ASSUME NEW s, Len(s) \in Nat
  PROVE  IsCollected(Collected(s), s, Len(s))
<1>1. \E f : IsCollected(f, s, Len(s))
  BY CollectedExists
<1>2. PICK f : f = CHOOSE g : IsCollected(g, s, Len(s))
  OBVIOUS
<1>3. IsCollected(f, s, Len(s))
  BY <1>1, <1>2
<1>4. Collected(s) = f
  BY <1>2 DEF IsCollected, Collected
<1> QED
  BY <1>3, <1>4

\* The letter k of the payload.
Letter(bits, k) == Armor(protodec_henten(6 * (k - 1), 6, bits))

\* t is the first n letters of the payload.
FirstLetters(t, bits, n) ==
  t \in Seq(Nat) /\ Len(t) = n /\ \A k \in 1 .. n : t[k] = Letter(bits, k)

(***************************************************************************)
(* A letter is a number.                                                   *)
(***************************************************************************)
LEMMA LetterType ==
  ASSUME NEW bits \in Seq({0, 1}), NEW L \in Nat, Len(bits) = 6 * L, NEW k \in 1 .. L
  PROVE  Letter(bits, k) \in Nat
<1>1. PICK from \in Nat : from = 6 * (k - 1)
  OBVIOUS
<1>2. from + 6 <= Len(bits) /\ 1 \in 1 .. 6
  BY <1>1
<1>3. Armor(protodec_henten(from, 6, bits)) \in Nat
  BY <1>2, LetterRead
<1> QED
  BY <1>1, <1>3 DEF Letter

\* b is c letters of the payload, from letter g + 1 on.
NextLetters(b, bits, g, c) ==
  c \in Nat /\ b \in Seq(Nat) /\ Len(b) = c /\ \A k \in 1 .. c : b[k] = Letter(bits, g + k)

(***************************************************************************)
(* Sentence i + 1 has the letters of the payload from where sentence i     *)
(* ended, as many as are left and senlen at most.                          *)
(***************************************************************************)
LEMMA LettersAre ==
  ASSUME NEW bits \in Seq({0, 1}), NEW L \in Nat, Len(bits) = 6 * L, NEW i \in Nat,
         NEW f \in Nat, f = i * senlen, f <= L, NEW S \in Nat, S = senlen,
         NEW c, c = IF L - f < S THEN L - f ELSE S
  PROVE  NextLetters(Letters(bits, i + 1), bits, f, c)
<1>1. c \in Nat /\ f + c <= L
  OBVIOUS
<1>2. (i + 1 - 1) * senlen = f
  OBVIOUS
<1>3. Len(bits) \div 6 = L
  OBVIOUS
<1>4. PICK t : t = [k \in 1 .. c |-> Armor(protodec_henten(6 * (f + k - 1), 6, bits))]
  OBVIOUS
<1>5. Letters(bits, i + 1) = t
  BY <1>2, <1>3, <1>4 DEF Letters
<1>6. ASSUME NEW k \in 1 .. c PROVE t[k] = Letter(bits, f + k) /\ Letter(bits, f + k) \in Nat
  <2>1. PICK j \in 1 .. L : j = f + k
    BY <1>1
  <2>2. Letter(bits, j) \in Nat
    BY LetterType
  <2>3. Letter(bits, f + k) = Armor(protodec_henten(6 * (f + k - 1), 6, bits))
    BY DEF Letter
  <2> QED
    BY <2>1, <2>2, <2>3, <1>4
<1>7. t \in Seq(Nat) /\ Len(t) = c
  <2>1. t \in [1 .. c -> Nat]
    BY <1>4, <1>6, ZenonT(30)
  <2> QED
    BY <2>1, <1>1
<1> QED
  BY <1>1, <1>5, <1>6, <1>7 DEF NextLetters

\* The letters in the first i sentences.
Reach(i, L) == IF i * senlen < L THEN i * senlen ELSE L

(***************************************************************************)
(* All sentences together have every letter of the payload, once and in    *)
(* order: by induction over the sentences.                                 *)
(***************************************************************************)
LEMMA CollectedIs ==
  ASSUME NEW bits \in Seq({0, 1}), NEW L \in Nat, Len(bits) = 6 * L, NEW N, Fits(N, L),
         NEW s, Len(s) = N, \A i \in 1 .. N : s[i].letters = Letters(bits, i)
  PROVE  FirstLetters(Collected(s)[N], bits, L)
<1>1. N \in Nat /\ N > 0
  BY DEF Fits
<1>2. PICK f : f = Collected(s)
  OBVIOUS
<1>3. f[0] = <<>> /\ \A i \in 1 .. N : f[i] = f[i - 1] \o s[i].letters
  <2>1. IsCollected(f, s, N)
    BY <1>1, <1>2, CollectedSteps
  <2>2. \A i \in 0 .. N : f[i] = IF i = 0 THEN <<>> ELSE f[i - 1] \o s[i].letters
    BY <2>1, <1>1 DEF IsCollected
  <2>3. f[0] = <<>>
    BY <2>2, <1>1
  <2>4. ASSUME NEW i \in 1 .. N PROVE f[i] = f[i - 1] \o s[i].letters
    <3>1. i \in 0 .. N /\ i # 0
      BY <1>1
    <3> QED
      BY <3>1, <2>2
  <2> QED
    BY <2>3, <2>4
<1>4. PICK S \in Nat : S = senlen /\ S > 0
  BY NmeaAssumption
<1>5. ASSUME NEW i \in 0 .. N PROVE FirstLetters(f[i], bits, Reach(i, L))
  <2> DEFINE T == {k \in Nat : k <= N /\ ~FirstLetters(f[k], bits, Reach(k, L))}
  <2> SUFFICES ASSUME T # {} PROVE FALSE
    BY <1>1
  <2>1. PICK m \in T : \A k \in T : m <= k
    BY LeastNat
  <2>2. m # 0
    <3>1. Reach(0, L) = 0
      BY <1>4 DEF Reach
    <3>2. FirstLetters(f[0], bits, 0)
      BY <1>3 DEF FirstLetters
    <3> QED
      BY <2>1, <3>1, <3>2
  <2>3. PICK j \in Nat : j = m - 1 /\ j \in 0 .. N - 1 /\ m = j + 1 /\ m \in 1 .. N /\ j \notin T
    BY <2>1, <2>2, <1>1
  <2>4. PICK g \in Nat : g = j * S /\ g <= L
    BY <2>3, <1>4 DEF Fits
  <2>5. m * S = g + S
    BY <2>3, <2>4
  <2>6. Reach(j, L) = g
    BY <2>4, <1>4 DEF Reach
  <2>7. FirstLetters(f[j], bits, g)
    BY <2>3, <2>6, <1>1
  <2>8. PICK c : c = IF L - g < S THEN L - g ELSE S
    OBVIOUS
  <2>9. PICK a, b : a = f[j] /\ b = Letters(bits, j + 1)
    OBVIOUS
  <2>10. /\ c \in Nat /\ b \in Seq(Nat) /\ Len(b) = c
         /\ \A k \in 1 .. c : b[k] = Letter(bits, g + k)
    <3>1. g = j * senlen
      BY <2>4, <1>4
    <3>2. NextLetters(Letters(bits, j + 1), bits, g, c)
      BY <3>1, <2>4, <2>8, <1>4, LettersAre
    <3> QED
      BY <3>2, <2>9 DEF NextLetters
  <2>11. a \in Seq(Nat) /\ Len(a) = g /\ \A k \in 1 .. g : a[k] = Letter(bits, k)
    BY <2>7, <2>9 DEF FirstLetters
  <2>12. f[m] = a \o b
    BY <1>3, <2>3, <2>9
  <2>13. /\ a \o b \in Seq(Nat) /\ Len(a \o b) = Len(a) + Len(b)
         /\ \A k \in 1 .. Len(a) + Len(b) :
              (a \o b)[k] = IF k <= Len(a) THEN a[k] ELSE b[k - Len(a)]
    <3>1. a \in Seq(Nat) /\ b \in Seq(Nat)
      BY <2>10, <2>11
    <3> QED
      BY <3>1, ConcatProperties
  <2>14. Reach(m, L) = g + c
    <3>1. PICK h \in Nat : h = m * senlen /\ h = g + S
      BY <2>5, <1>4
    <3>2. (IF h < L THEN h ELSE L) = g + c
      BY <3>1, <2>4, <2>8
    <3> QED
      BY <3>1, <3>2 DEF Reach
  <2>15. ASSUME NEW k \in 1 .. g + c PROVE (a \o b)[k] = Letter(bits, k)
    <3>1. CASE k <= g
      BY <3>1, <2>10, <2>11, <2>13
    <3>2. CASE k > g
      <4>1. PICK h \in 1 .. c : h = k - g
        BY <3>2, <2>10
      <4>2. (a \o b)[k] = b[h]
        BY <4>1, <3>2, <2>10, <2>11, <2>13, SMTT(30)
      <4>3. g + h = k
        BY <4>1
      <4> QED
        BY <4>1, <4>2, <4>3, <2>10
    <3>3. k <= g \/ k > g
      BY <2>10
    <3> QED
      BY <3>1, <3>2, <3>3
  <2>16. FirstLetters(f[m], bits, Reach(m, L))
    BY <2>10, <2>11, <2>12, <2>13, <2>14, <2>15 DEF FirstLetters
  <2> QED
    BY <2>1, <2>16
<1>6. Reach(N, L) = L
  <2>1. PICK h \in Nat : h = N * senlen
    BY <1>1, <1>4
  <2>2. L <= h
    BY <2>1 DEF Fits
  <2>3. (IF h < L THEN h ELSE L) = L
    BY <2>2
  <2> QED
    BY <2>1, <2>3 DEF Reach
<1> QED
  BY <1>1, <1>2, <1>5, <1>6

(***************************************************************************)
(* A reader of the sentences that protodec_generate_nmea() makes of a      *)
(* payload gets the payload back.                                          *)
(***************************************************************************)
LEMMA JoinedIs ==
  ASSUME NEW bits \in Seq({0, 1}), NEW fill, NEW s, s = protodec_generate_nmea(Padded(bits), fill),
         fill = Fillbits(Len(bits))
  PROVE  Joined(s) = IF Len(s) > 1 THEN bits ELSE Padded(bits)
<1>1. PICK p : p = Padded(bits)
  OBVIOUS
<1>2. PICK n \in Nat : n = Len(bits)
  OBVIOUS
<1>3. /\ p \in Seq({0, 1}) /\ fill \in 0 .. 5 /\ Len(p) = n + fill /\ Len(p) % 6 = 0
      /\ \A i \in 1 .. n : p[i] = bits[i]
  BY <1>1, <1>2, PaddedFacts
<1>4. PICK L \in Nat : Len(p) = 6 * L
  <2>1. (n + fill) \div 6 \in Nat /\ n + fill = 6 * ((n + fill) \div 6)
    BY <1>3
  <2> QED
    BY <2>1, <1>3
<1>5. PICK N : N = Sentences(Len(p))
  OBVIOUS
<1>6. Fits(N, L)
  BY <1>4, <1>5, SentencesFit
<1>7. N \in Nat /\ N > 0
  BY <1>6 DEF Fits
<1>8. /\ Len(s) = N /\ \A i \in 1 .. N : s[i].letters = Letters(p, i)
      /\ s[N].fill = IF N > 1 THEN fill ELSE 0
  BY <1>1, <1>5, <1>7 DEF protodec_generate_nmea
<1>9. PICK t : t = Collected(s)[N]
  OBVIOUS
<1>10. Len(t) = L /\ \A k \in 1 .. L : t[k] = Letter(p, k)
  <2>1. FirstLetters(t, p, L)
    BY <1>3, <1>4, <1>6, <1>8, <1>9, CollectedIs
  <2> QED
    BY <2>1 DEF FirstLetters
<1>11. PICK l \in Nat : l = (IF N > 1 THEN n ELSE 6 * L) /\ l = 6 * L - s[N].fill
  BY <1>3, <1>4, <1>8
<1>12. Joined(s) = [i \in 1 .. l |-> BitOf(Unarmor(t[(i - 1) \div 6 + 1]), ((i - 1) % 6) + 1)]
  BY <1>8, <1>9, <1>10, <1>11 DEF Joined
<1>13. ASSUME NEW i \in 1 .. l
       PROVE  BitOf(Unarmor(t[(i - 1) \div 6 + 1]), ((i - 1) % 6) + 1) = p[i]
  <2>1. i \in 1 .. 6 * L
    BY <1>3, <1>4, <1>11, SMTT(30)
  <2>2. PICK q \in Nat, r \in 1 .. 6 : q = (i - 1) \div 6 /\ r = ((i - 1) % 6) + 1
    OBVIOUS
  <2>3. i = 6 * q + r
    BY <2>2
  <2>4. PICK k \in 1 .. L : k = q + 1
    BY <2>1, <2>3
  <2>5. PICK from \in Nat : from = 6 * q
    OBVIOUS
  <2>6. from = 6 * (k - 1) /\ from + 6 <= Len(p)
    BY <2>4, <2>5, <1>4
  <2>7. t[k] = Armor(protodec_henten(from, 6, p))
    BY <2>6, <1>10 DEF Letter
  <2>8. BitOf(Unarmor(Armor(protodec_henten(from, 6, p))), r) = p[from + r]
    BY <2>6, <1>3, LetterRead, ZenonT(30)
  <2> QED
    BY <2>2, <2>3, <2>4, <2>5, <2>7, <2>8
<1>14. Joined(s) = [i \in 1 .. l |-> p[i]]
  BY <1>12, <1>13
<1>15. CASE N > 1
  <2>1. l = n /\ [i \in 1 .. n |-> p[i]] = [i \in 1 .. n |-> bits[i]]
    BY <1>3, <1>11, <1>15
  <2>2. bits = [i \in 1 .. n |-> bits[i]]
    BY <1>2
  <2> QED
    BY <2>1, <2>2, <1>8, <1>14, <1>15
<1>16. CASE ~(N > 1)
  <2>1. l = Len(p)
    BY <1>4, <1>11, <1>16
  <2>2. p = [i \in 1 .. Len(p) |-> p[i]]
    BY <1>3
  <2> QED
    BY <2>1, <2>2, <1>1, <1>8, <1>14, <1>16
<1> QED
  BY <1>15, <1>16

(***************************************************************************)
(* Whatever protodec_getdata() sends of a frame, a reader gets the payload *)
(* back: for every length of a sentence and every payload that the         *)
(* deframer hands over, where it fills its letters and sentences exactly   *)
(* and where it does not.                                                  *)
(***************************************************************************)
THEOREM PayloadReadBack == Spec => []ReaderGetsPayload
<1>1. Init => ReaderGetsPayload
  BY DEF Init, NmeaInit, ReaderGetsPayload
<1>2. ReaderGetsPayload /\ [Next]_vars => ReaderGetsPayload'
  <2> SUFFICES ASSUME ReaderGetsPayload, [Next]_vars PROVE ReaderGetsPayload'
    OBVIOUS
  <2>1. ASSUME NEW bits \in Frames, Unsupported(bits) PROVE ReaderGetsPayload'
    BY <2>1 DEF Unsupported, ReaderGetsPayload
  <2>2. ASSUME NEW bits \in Frames, protodec_getdata(bits) PROVE ReaderGetsPayload'
    <3>1. /\ frame' = bits
          /\ sent' = protodec_generate_nmea(Padded(bits), Fillbits(Len(bits)))
      BY <2>2 DEF protodec_getdata, NmeaOut
    <3>2. bits \in Seq({0, 1})
      BY NmeaAssumption
    <3>3. PICK fill, s : fill = Fillbits(Len(bits)) /\ s = sent'
      OBVIOUS
    <3>4. Joined(s) = IF Len(s) > 1 THEN bits ELSE Padded(bits)
      BY <3>1, <3>2, <3>3, JoinedIs
    <3> QED
      BY <3>1, <3>3, <3>4 DEF ReaderGetsPayload
  <2>3. CASE UNCHANGED vars
    BY <2>3 DEF vars, nmeaVars, ReaderGetsPayload
  <2> QED
    BY <2>1, <2>2, <2>3 DEF Next
<1> QED
  BY <1>1, <1>2, PTL DEF Spec

(***************************************************************************)
(* Every sentence fits d->nmea and d->serbuffer, and its numbers are       *)
(* single digits.                                                          *)
(***************************************************************************)
LEMMA SentencesType ==
  ASSUME NEW bits \in Frames, NEW fill, fill = Fillbits(Len(bits)),
         NEW s, s = protodec_generate_nmea(Padded(bits), fill), NEW i \in DOMAIN s
  PROVE  /\ Size(s[i]) + 3 <= SERBUFFER_LEN /\ Size(s[i]) + 2 <= 82
         /\ s[i].sentences \in 1 .. 9 /\ s[i].num = i /\ s[i].fill \in 0 .. 5
<1>1. PICK p : p = Padded(bits)
  OBVIOUS
<1>2. PICK n \in Nat : n = Len(bits) /\ bits \in Seq({0, 1}) /\ n + 5 <= 9 * 6 * senlen
  BY NmeaAssumption
<1>3. p \in Seq({0, 1}) /\ fill \in 0 .. 5 /\ Len(p) = n + fill /\ Len(p) % 6 = 0
  BY <1>1, <1>2, PaddedFacts
<1>4. PICK L \in Nat : Len(p) = 6 * L
  <2>1. (n + fill) \div 6 \in Nat /\ n + fill = 6 * ((n + fill) \div 6)
    BY <1>3, SMTT(30)
  <2> QED
    BY <2>1, <1>3
<1>5. PICK N : N = Sentences(Len(p))
  OBVIOUS
<1>6. PICK S \in Nat : S = senlen /\ S + 22 <= SERBUFFER_LEN /\ S + 21 <= 82 /\ SERBUFFER_LEN \in Nat
  BY NmeaAssumption
<1>7. Fits(N, L) /\ N <= 9
  <2>1. Len(p) <= 9 * 6 * senlen
    BY <1>2, <1>3, <1>6
  <2> QED
    BY <2>1, <1>4, <1>5, SentencesFit
<1>8. N \in 1 .. 9
  BY <1>7 DEF Fits
<1>9. /\ DOMAIN s = 1 .. N
      /\ \A k \in 1 .. N : /\ s[k].letters = Letters(p, k)
                           /\ s[k].num = k /\ s[k].sentences = N
                           /\ s[k].fill = IF N > 1 /\ k = N THEN fill ELSE 0
  BY <1>1, <1>5, <1>8 DEF protodec_generate_nmea
<1>10. PICK j \in Nat : i = j + 1 /\ j \in 0 .. N - 1 /\ i \in 1 .. N
  BY <1>8, <1>9, SMTT(30)
<1>11. PICK f \in Nat : f = j * senlen /\ f <= L
  BY <1>7, <1>10 DEF Fits
<1>12. PICK c : c = IF L - f < S THEN L - f ELSE S
  OBVIOUS
<1>13. NextLetters(Letters(p, j + 1), p, f, c)
  BY <1>3, <1>4, <1>6, <1>11, <1>12, LettersAre
<1>14. Len(s[i].letters) = c /\ c \in Nat /\ c <= S
  BY <1>9, <1>10, <1>11, <1>12, <1>13 DEF NextLetters
<1>15. Size(s[i]) + 3 <= SERBUFFER_LEN /\ Size(s[i]) + 2 <= 82
  BY <1>6, <1>14 DEF Size
<1>16. s[i].fill \in 0 .. 5
  BY <1>3, <1>9, <1>10
<1>17. s[i].sentences \in 1 .. 9 /\ s[i].num = i
  BY <1>8, <1>9, <1>10
<1> QED
  BY <1>15, <1>16, <1>17

(***************************************************************************)
(* protodec_generate_nmea() never writes a sentence longer than its        *)
(* buffers or than NMEA allows, and the sequence number stays a digit.     *)
(***************************************************************************)
THEOREM SentencesInBuffers == Spec => []TypeOK
<1>1. Init => TypeOK
  BY DEF Init, NmeaInit, TypeOK
<1>2. TypeOK /\ [Next]_vars => TypeOK'
  <2> SUFFICES ASSUME TypeOK, [Next]_vars PROVE TypeOK'
    OBVIOUS
  <2>1. ASSUME NEW bits \in Frames, Unsupported(bits) PROVE TypeOK'
    BY <2>1 DEF Unsupported, TypeOK
  <2>2. ASSUME NEW bits \in Frames, protodec_getdata(bits) PROVE TypeOK'
    <3>1. /\ seqnr' = Roll(seqnr)
          /\ sent' = protodec_generate_nmea(Padded(bits), Fillbits(Len(bits)))
      BY <2>2 DEF protodec_getdata, NmeaOut
    <3>2. PICK fill, s : fill = Fillbits(Len(bits)) /\ s = sent'
      OBVIOUS
    <3>3. ASSUME NEW i \in DOMAIN s
          PROVE  /\ Size(s[i]) + 3 <= SERBUFFER_LEN /\ Size(s[i]) + 2 <= 82
                 /\ s[i].sentences \in 1 .. 9 /\ s[i].num = i /\ s[i].fill \in 0 .. 5
      BY <3>1, <3>2, SentencesType
    <3>4. seqnr' \in 0 .. 9
      BY <3>1 DEF TypeOK, Roll
    <3> QED
      BY <3>2, <3>3, <3>4 DEF TypeOK
  <2>3. CASE UNCHANGED vars
    BY <2>3 DEF vars, nmeaVars, TypeOK
  <2> QED
    BY <2>1, <2>2, <2>3 DEF Next
<1> QED
  BY <1>1, <1>2, PTL DEF Spec

-----------------------------------------------------------------------------
(* The fields.                                                             *)

\* f is the list of where the fields of a run begin.
IsStart(f, from, sizes) ==
  f = [i \in DOMAIN sizes |-> IF i = 1 THEN from ELSE f[i - 1] + sizes[i - 1]]

(***************************************************************************)
(* The four dimensions of a ship follow each other: what Run computes for  *)
(* them.                                                                   *)
(***************************************************************************)
LEMMA FourFields ==
  ASSUME NEW from \in Nat
  PROVE  Dimensions(from) = {F("A", from, 9), F("B", from + 9, 9), F("C", from + 18, 6),
                             F("D", from + 24, 6)}
<1>1. PICK sizes, names : sizes = <<9, 9, 6, 6>> /\ names = <<"A", "B", "C", "D">>
  OBVIOUS
<1>2. /\ DOMAIN sizes = 1 .. 4
      /\ sizes[1] = 9 /\ sizes[2] = 9 /\ sizes[3] = 6 /\ sizes[4] = 6
      /\ names[1] = "A" /\ names[2] = "B" /\ names[3] = "C" /\ names[4] = "D"
  BY <1>1
<1>3. \E f : IsStart(f, from, sizes)
  <2>1. PICK f : f = [i \in 1 .. 4 |-> IF i = 1 THEN from ELSE IF i = 2 THEN from + 9
                                       ELSE IF i = 3 THEN from + 18 ELSE from + 24]
    OBVIOUS
  <2>2. f[1] = from /\ f[2] = from + 9 /\ f[3] = from + 18 /\ f[4] = from + 24
    BY <2>1
  <2>3. ASSUME NEW i \in 1 .. 4 PROVE f[i] = IF i = 1 THEN from ELSE f[i - 1] + sizes[i - 1]
    BY <2>2, <1>2
  <2>4. IsStart(f, from, sizes)
    BY <2>1, <2>3, <1>2 DEF IsStart
  <2> QED
    BY <2>4
<1>4. PICK f : f = CHOOSE g : IsStart(g, from, sizes)
  OBVIOUS
<1>5. IsStart(f, from, sizes)
  BY <1>3, <1>4
<1>6. \A i \in 1 .. 4 : f[i] = IF i = 1 THEN from ELSE f[i - 1] + sizes[i - 1]
  BY <1>2, <1>5 DEF IsStart
<1>7. f[1] = from /\ f[2] = from + 9 /\ f[3] = from + 18 /\ f[4] = from + 24
  BY <1>2, <1>6
<1>8. Run(from, sizes, names) = {F(names[i], f[i], sizes[i]) : i \in DOMAIN sizes}
  BY <1>4 DEF Run, IsStart
<1>9. 1 .. 4 = {1, 2, 3, 4}
  OBVIOUS
<1>10. {F(names[i], f[i], sizes[i]) : i \in {1, 2, 3, 4}} =
         {F(names[1], f[1], sizes[1]), F(names[2], f[2], sizes[2]), F(names[3], f[3], sizes[3]),
          F(names[4], f[4], sizes[4])}
  OBVIOUS
<1> QED
  BY <1>1, <1>2, <1>7, <1>8, <1>9, <1>10 DEF Dimensions

(***************************************************************************)
(* Date and time of a base station follow each other: what Run computes    *)
(* for them.                                                               *)
(***************************************************************************)
LEMMA SixFields ==
  ASSUME NEW s, s = <<12, 4, 5, 5, 6, 6>>,
         NEW n, n = <<"year", "month", "day", "hour", "minute", "second">>
  PROVE  Run(40, s, n) = {F("year", 40, 12), F("month", 52, 4), F("day", 56, 5),
                          F("hour", 61, 5), F("minute", 66, 6), F("second", 72, 6)}
<1>1. /\ DOMAIN s = 1 .. 6 /\ s[1] = 12 /\ s[2] = 4 /\ s[3] = 5 /\ s[4] = 5 /\ s[5] = 6 /\ s[6] = 6
      /\ n[1] = "year" /\ n[2] = "month" /\ n[3] = "day" /\ n[4] = "hour" /\ n[5] = "minute"
      /\ n[6] = "second"
  OBVIOUS
<1>3. \E f : IsStart(f, 40, s)
  <2>1. PICK f : f = [i \in 1 .. 6 |-> IF i = 1 THEN 40 ELSE IF i = 2 THEN 52 ELSE IF i = 3 THEN 56
                                       ELSE IF i = 4 THEN 61 ELSE IF i = 5 THEN 66 ELSE 72]
    OBVIOUS
  <2>2. f[1] = 40 /\ f[2] = 52 /\ f[3] = 56 /\ f[4] = 61 /\ f[5] = 66 /\ f[6] = 72
    BY <2>1
  <2>3. ASSUME NEW i \in 1 .. 6 PROVE f[i] = IF i = 1 THEN 40 ELSE f[i - 1] + s[i - 1]
    BY <2>2, <1>1
  <2>4. IsStart(f, 40, s)
    BY <2>1, <2>3, <1>1 DEF IsStart
  <2> QED
    BY <2>4
<1>4. PICK f : f = CHOOSE g : IsStart(g, 40, s)
  OBVIOUS
<1>5. IsStart(f, 40, s)
  BY <1>3, <1>4
<1>6. \A i \in 1 .. 6 : f[i] = IF i = 1 THEN 40 ELSE f[i - 1] + s[i - 1]
  BY <1>1, <1>5 DEF IsStart
<1>7. f[1] = 40 /\ f[2] = 52 /\ f[3] = 56 /\ f[4] = 61 /\ f[5] = 66 /\ f[6] = 72
  BY <1>1, <1>6
<1>8. Run(40, s, n) = {F(n[i], f[i], s[i]) : i \in DOMAIN s}
  BY <1>4 DEF Run, IsStart
<1>9. 1 .. 6 = {1, 2, 3, 4, 5, 6}
  OBVIOUS
<1>10. {F(n[i], f[i], s[i]) : i \in {1, 2, 3, 4, 5, 6}} =
         {F(n[1], f[1], s[1]), F(n[2], f[2], s[2]), F(n[3], f[3], s[3]),
          F(n[4], f[4], s[4]), F(n[5], f[5], s[5]), F(n[6], f[6], s[6])}
  OBVIOUS
<1> QED
  BY <1>1, <1>7, <1>8, <1>9, <1>10

\* The fields are apart from each other, and lie from bit a on.
Apart(fs, a) ==
  Disjoint(fs) /\ \A f \in fs : f.from \in Nat /\ f.size \in Nat /\ a <= f.from

(***************************************************************************)
(* Two groups of fields that are apart each, the second one after the      *)
(* first, are apart together.                                              *)
(***************************************************************************)
LEMMA Joins ==
  ASSUME NEW fs, NEW gs, NEW a \in Nat, NEW b \in Nat, a <= b,
         Apart(fs, a), Apart(gs, b), \A f \in fs : f.from + f.size <= b
  PROVE  Apart(fs \cup gs, a)
  BY DEF Apart, Disjoint, Overlap

(***************************************************************************)
(* The fields protodec_pos() reads.                                        *)
(***************************************************************************)
LEMMA Position == Apart(protodec_pos, 38)
  BY DEF Apart, Disjoint, Overlap, protodec_pos, F

(***************************************************************************)
(* The fields protodec_4() reads.                                          *)
(***************************************************************************)
LEMMA BaseStation == Apart(protodec_4, 38)
<1>1. PICK s, n : s = <<12, 4, 5, 5, 6, 6>>
                  /\ n = <<"year", "month", "day", "hour", "minute", "second">>
  OBVIOUS
<1>2. Run(40, s, n) = {F("year", 40, 12), F("month", 52, 4), F("day", 56, 5),
                       F("hour", 61, 5), F("minute", 66, 6), F("second", 72, 6)}
  BY <1>1, SixFields
<1>3. Apart(Run(40, s, n), 38) /\ \A f \in Run(40, s, n) : f.from + f.size <= 79
  BY <1>2 DEF Apart, Disjoint, Overlap, F
<1>4. Apart({F("longitude", 79, 28), F("latitude", 107, 27)}, 79)
  BY DEF Apart, Disjoint, Overlap, F
<1> QED
  BY <1>1, <1>3, <1>4, Joins DEF protodec_4

(***************************************************************************)
(* The dimensions, which protodec_5(), protodec_19() and protodec_24()     *)
(* read, take thirty bits.                                                 *)
(***************************************************************************)
LEMMA DimensionsApart ==
  ASSUME NEW from \in Nat
  PROVE  Apart(Dimensions(from), from) /\ \A f \in Dimensions(from) : f.from + f.size <= from + 30
  BY FourFields DEF Apart, Disjoint, Overlap, F

(***************************************************************************)
(* The fields protodec_5() reads.                                          *)
(***************************************************************************)
LEMMA Voyage == Apart(protodec_5, 38)
  BY FourFields DEF Apart, Disjoint, Overlap, protodec_5, F

(***************************************************************************)
(* The fields protodec_18() reads.                                         *)
(***************************************************************************)
LEMMA ClassB == Apart(protodec_18, 38)
  BY DEF Apart, Disjoint, Overlap, protodec_18, F

(***************************************************************************)
(* The fields protodec_19() reads.                                         *)
(***************************************************************************)
LEMMA ClassBExtended == Apart(protodec_19, 38)
<1>1. PICK fs : fs = {F("name", 143, 120), F("shiptype", 263, 8)}
  OBVIOUS
<1>2. Apart(fs, 38) /\ \A f \in fs : f.from + f.size <= 271
  BY <1>1 DEF Apart, Disjoint, Overlap, F
<1> QED
  BY <1>1, <1>2, DimensionsApart, Joins DEF protodec_19

(***************************************************************************)
(* The fields protodec_24() reads, whatever the part.                      *)
(***************************************************************************)
LEMMA StaticPart == ASSUME NEW part PROVE Apart(protodec_24(part), 38)
<1>1. Apart({F("partnr", 38, 2)}, 38) /\ \A f \in {F("partnr", 38, 2)} : f.from + f.size <= 40
  BY DEF Apart, Disjoint, Overlap, F
<1>2. Apart({F("name", 40, 120)}, 40) /\ Apart({}, 40)
  BY DEF Apart, Disjoint, Overlap, F
<1>3. PICK fs : fs = {F("shiptype", 40, 8), F("callsign", 90, 36)}
  OBVIOUS
<1>4. Apart(fs, 40) /\ \A f \in fs : f.from + f.size <= 132
  BY <1>3 DEF Apart, Disjoint, Overlap, F
<1>5. Apart(fs \cup Dimensions(132), 40)
  BY <1>4, DimensionsApart, Joins
<1>6. PICK rest : rest = CASE part = 0 -> {F("name", 40, 120)}
                            [] part = 1 -> fs \cup Dimensions(132)
                            [] OTHER    -> {}
  OBVIOUS
<1>7. Apart(rest, 40)
  BY <1>2, <1>5, <1>6
<1>8. protodec_24(part) = {F("partnr", 38, 2)} \cup rest
  BY <1>3, <1>6 DEF protodec_24
<1> QED
  BY <1>1, <1>7, <1>8, Joins

(***************************************************************************)
(* The fields protodec_msg_bin() reads, but for the weather report.        *)
(***************************************************************************)
LEMMA Application ==
  ASSUME NEW app, app # "weather", NEW from \in Nat
  PROVE  Apart(protodec_msg_bin(app, from), from)
  BY DEF protodec_msg_bin, protodec_msg_40, Apart, Disjoint, Overlap, F

(***************************************************************************)
(* The fields protodec_6() reads.                                          *)
(***************************************************************************)
LEMMA Addressed == ASSUME NEW app, app # "weather" PROVE Apart(protodec_6(app), 38)
<1>1. PICK fs : fs = {F("sequence", 38, 2), F("dst_mmsi", 40, 30), F("retransmitted", 70, 1),
                      F("dac", 72, 10), F("fi", 82, 6)}
  OBVIOUS
<1>2. Apart(fs, 38) /\ \A f \in fs : f.from + f.size <= 88
  BY <1>1 DEF Apart, Disjoint, Overlap, F
<1>3. Apart(protodec_msg_bin(app, 88), 88)
  BY Application
<1> QED
  BY <1>1, <1>2, <1>3, Joins DEF protodec_6

(***************************************************************************)
(* The fields protodec_8() reads.                                          *)
(***************************************************************************)
LEMMA Broadcast == ASSUME NEW app, app # "weather" PROVE Apart(protodec_8(app), 38)
<1>1. PICK fs : fs = {F("dac", 40, 10), F("fi", 50, 6)}
  OBVIOUS
<1>2. Apart(fs, 38) /\ \A f \in fs : f.from + f.size <= 56
  BY <1>1 DEF Apart, Disjoint, Overlap, F
<1>3. Apart(protodec_msg_bin(app, 56), 56)
  BY Application
<1> QED
  BY <1>1, <1>2, <1>3, Joins DEF protodec_8

(***************************************************************************)
(* The acknowledgements protodec_7_13() reads, whatever the length.        *)
(***************************************************************************)
LEMMA Acknowledged == ASSUME NEW len PROVE Apart(protodec_7_13(len), 38)
  BY DEF protodec_7_13, Apart, Disjoint, Overlap, F

(***************************************************************************)
(* The reservations protodec_20() reads, whatever the length.              *)
(***************************************************************************)
LEMMA Reserved == ASSUME NEW len PROVE Apart(protodec_20(len), 38)
  BY DEF protodec_20, Apart, Disjoint, Overlap, F

(***************************************************************************)
(* The fields of every type that protodec_getdata() looks into are apart   *)
(* from each other and come after the type and the MMSI, but for the       *)
(* weather report.                                                         *)
(***************************************************************************)
LEMMA FieldsApart ==
  ASSUME NEW m, m.app # "weather"
  PROVE  Apart(FieldsOf(m), 38)
<1>1. Apart({}, 38)
  BY DEF Apart, Disjoint
<1> QED
  BY <1>1, Position, BaseStation, Voyage, ClassB, ClassBExtended, StaticPart, Addressed, Broadcast,
     Acknowledged, Reserved DEF FieldsOf

\* What may have been read from the last frame.
FieldsRead ==
  \/ fields \subseteq {F("type", 0, 6), F("mmsi", 8, 30)}
  \/ fields = {F("type", 0, 6), F("mmsi", 8, 30)} \cup FieldsOf(MessageOf(frame))

(***************************************************************************)
(* What was read is that of the last frame: nothing, type and MMSI at      *)
(* most, or those and the fields of its type.                              *)
(***************************************************************************)
THEOREM FieldsInvariant == Spec => []FieldsRead
<1>1. Init => FieldsRead
  BY DEF Init, FieldsRead
<1>2. FieldsRead /\ [Next]_vars => FieldsRead'
  <2> SUFFICES ASSUME FieldsRead, [Next]_vars PROVE FieldsRead'
    OBVIOUS
  <2>1. ASSUME NEW bits \in Frames, Unsupported(bits) PROVE FieldsRead'
    BY <2>1 DEF Unsupported, FieldsRead
  <2>2. ASSUME NEW bits \in Frames, protodec_getdata(bits) PROVE FieldsRead'
    <3>1. /\ frame' = bits
          /\ \/ fields' = {F("type", 0, 6), F("mmsi", 8, 30)} \cup {}
             \/ fields' = {F("type", 0, 6), F("mmsi", 8, 30)} \cup FieldsOf(MessageOf(bits))
      BY <2>2 DEF protodec_getdata, NmeaOut
    <3> QED
      BY <3>1 DEF FieldsRead
  <2>3. CASE UNCHANGED vars
    BY <2>3 DEF vars, nmeaVars, FieldsRead
  <2> QED
    BY <2>1, <2>2, <2>3 DEF Next
<1> QED
  BY <1>1, <1>2, PTL DEF Spec

(***************************************************************************)
(* Type and MMSI, which protodec_getdata() reads of every frame, lie in    *)
(* the first 38 bits.                                                      *)
(***************************************************************************)
LEMMA HeadApart ==
  LET head == {F("type", 0, 6), F("mmsi", 8, 30)}
  IN  Apart(head, 0) /\ \A f \in head : f.from + f.size <= 38
  BY DEF Apart, Disjoint, Overlap, F

(***************************************************************************)
(* No bit is read as part of two fields, in any frame of any length, but   *)
(* for the weather report, of which the code is known to do it.            *)
(***************************************************************************)
THEOREM NoBitReadTwice == Spec => []FieldsAreDisjoint
<1>1. FieldsRead => FieldsAreDisjoint
  <2> SUFFICES ASSUME FieldsRead, MessageOf(frame).app # "weather" PROVE Disjoint(fields)
    BY DEF FieldsAreDisjoint
  <2>1. PICK head : head = {F("type", 0, 6), F("mmsi", 8, 30)}
    OBVIOUS
  <2>2. Apart(head, 0) /\ \A f \in head : f.from + f.size <= 38
    BY <2>1, HeadApart
  <2>3. CASE fields \subseteq head
    BY <2>2, <2>3 DEF Apart, Disjoint
  <2>4. CASE fields = head \cup FieldsOf(MessageOf(frame))
    <3>1. PICK m : m = MessageOf(frame)
      OBVIOUS
    <3>2. Apart(FieldsOf(m), 38)
      BY <3>1, FieldsApart
    <3>3. Apart(head \cup FieldsOf(m), 0)
      BY <3>2, <2>2, Joins
    <3> QED
      BY <3>1, <3>3, <2>4 DEF Apart
  <2> QED
    BY <2>1, <2>3, <2>4 DEF FieldsRead
<1> QED
  BY <1>1, FieldsInvariant, PTL

\* The GUI reads its fields where fs has them.
Agrees(fs, gs) == \A f \in fs, g \in gs : f.name = g.name => f = g

(***************************************************************************)
(* aisdecode() has no field of the names type and mmsi.                    *)
(***************************************************************************)
LEMMA GuiHead ==
  ASSUME NEW t
  PROVE  Agrees({F("type", 0, 6), F("mmsi", 8, 30)}, aisdecode(t))
<1>1. ASSUME NEW g \in aisdecode(t) PROVE g.name # "type" /\ g.name # "mmsi"
  BY FourFields DEF aisdecode, type1, type4, type5, F
<1> QED
  BY <1>1 DEF Agrees, F

(***************************************************************************)
(* type1() reads where protodec_pos() does.                                *)
(***************************************************************************)
LEMMA GuiPosition == Agrees(protodec_pos, type1)
  BY DEF Agrees, protodec_pos, type1, F

(***************************************************************************)
(* type4() reads where protodec_4() does.                                  *)
(***************************************************************************)
LEMMA GuiBase == Agrees(protodec_4, type4)
<1>1. PICK s, n : s = <<12, 4, 5, 5, 6, 6>>
                  /\ n = <<"year", "month", "day", "hour", "minute", "second">>
  OBVIOUS
<1>2. Run(40, s, n) = {F("year", 40, 12), F("month", 52, 4), F("day", 56, 5),
                       F("hour", 61, 5), F("minute", 66, 6), F("second", 72, 6)}
  BY <1>1, SixFields
<1>3. protodec_4 = Run(40, s, n) \cup {F("longitude", 79, 28), F("latitude", 107, 27)}
  BY <1>1 DEF protodec_4
<1> QED
  BY <1>2, <1>3 DEF Agrees, type4, F

(***************************************************************************)
(* type5() reads where protodec_5() does.                                  *)
(***************************************************************************)
LEMMA GuiVoyage == Agrees(protodec_5, type5)
<1>1. /\ Dimensions(240) = {F("A", 240, 9), F("B", 249, 9), F("C", 258, 6), F("D", 264, 6)}
      /\ 120 + 106 + 68 + 8 = 302
  BY FourFields
<1> QED
  BY <1>1 DEF Agrees, protodec_5, type5, F

(***************************************************************************)
(* aisdecode() reads where the daemon does, for every type.                *)
(***************************************************************************)
LEMMA GuiFields ==
  ASSUME NEW m
  PROVE  Agrees(FieldsOf(m), aisdecode(m.type))
<1>1. CASE m.type \in 1 .. 3
  <2>1. m.type # 4 /\ m.type # 5
    BY <1>1
  <2>2. FieldsOf(m) = protodec_pos /\ aisdecode(m.type) = type1
    BY <1>1, <2>1 DEF FieldsOf, aisdecode
  <2> QED
    BY <2>2, GuiPosition
<1>2. CASE m.type = 4
  <2>1. FieldsOf(m) = protodec_4 /\ aisdecode(m.type) = type4
    BY <1>2 DEF FieldsOf, aisdecode
  <2> QED
    BY <2>1, GuiBase
<1>3. CASE m.type = 5
  <2>1. FieldsOf(m) = protodec_5 /\ aisdecode(m.type) = type5
    BY <1>3 DEF FieldsOf, aisdecode
  <2> QED
    BY <2>1, GuiVoyage
<1>4. CASE m.type \notin 1 .. 3 /\ m.type # 4 /\ m.type # 5
  <2>1. aisdecode(m.type) = {}
    BY <1>4 DEF aisdecode
  <2> QED
    BY <2>1 DEF Agrees
<1> QED
  BY <1>1, <1>2, <1>3, <1>4

(***************************************************************************)
(* A field that the daemon and the GUI both read of a frame, they read     *)
(* from the same bits, whatever types the configuration skips.             *)
(***************************************************************************)
THEOREM GuiAgrees == Spec => []GuiReadsTheSame
<1>1. FieldsRead => GuiReadsTheSame
  <2> SUFFICES ASSUME FieldsRead PROVE Agrees(fields, aisdecode(Type(frame)))
    BY DEF GuiReadsTheSame, Agrees
  <2>1. PICK head : head = {F("type", 0, 6), F("mmsi", 8, 30)}
    OBVIOUS
  <2>2. PICK m, t : m = MessageOf(frame) /\ t = Type(frame)
    OBVIOUS
  <2>3. m.type = t
    BY <2>2 DEF MessageOf
  <2>4. Agrees(head, aisdecode(t)) /\ Agrees(FieldsOf(m), aisdecode(t))
    BY <2>1, <2>3, GuiHead, GuiFields
  <2>5. fields \subseteq head \/ fields = head \cup FieldsOf(m)
    BY <2>1, <2>2 DEF FieldsRead
  <2> QED
    BY <2>2, <2>4, <2>5 DEF Agrees
<1> QED
  BY <1>1, FieldsInvariant, PTL
=============================================================================

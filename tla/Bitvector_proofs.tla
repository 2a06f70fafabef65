--------------------------- MODULE Bitvector_proofs ----------------------------
(*****************************************************************************)
(* Proofs about the words of a bit vector: distanceToNextSetBit and          *)
(* distanceToPrevSetBit lead to the next and the previous 1 bit, and         *)
(* concatenateBitvectors, which appends the words of the levels one behind   *)
(* the other at any offset into a word, loses no bit and adds none.  And that *)
(* rank and select count: rank through its table and the words of a block,   *)
(* select through its sampled table, the walk from the sample over the words *)
(* and the search in a word.                                                 *)
(*****************************************************************************)
EXTENDS Bitvector, Numbers_proofs

Word == 0 .. WordSize - 1

(* The positions of the 1 bits. *)
OneBits(b) == {p \in 0 .. b.num_bits - 1 : ReadBit(b, p)}

(* A bit vector has just the words for its bits, and no 1 bit behind them. *)
BitvectorOK(b) ==
  /\ b.num_bits \in Nat
  /\ b.bits \in [1 .. NumWords(b.num_bits) -> SUBSET Word]
  /\ \A i \in 1 .. NumWords(b.num_bits) :
       \A o \in b.bits[i] : (i - 1) * WordSize + o < b.num_bits

-------------------------------------------------------------------------------
(* Words *)

(* The words of n bits, of which only the last may be left partly empty. *)
LEMMA NumWordsBounds ==
  ASSUME NEW n \in Nat
  PROVE  /\ NumWords(n) \in Nat
         /\ n <= NumWords(n) * WordSize
         /\ NumWords(n) * WordSize < n + WordSize
<1> DEFINE m == n + WordSize - 1
           q == m \div WordSize
<1>1. WordSize \in Nat \ {0} /\ m \in Nat
  BY BitvectorAssumption
<1>2. q \in Int /\ m % WordSize \in 0 .. WordSize - 1 /\ m = q * WordSize + (m % WordSize)
  BY <1>1, DivMod
<1>3. 0 * WordSize <= m => 0 <= q
  BY <1>1, DivBounds
<1>4. q * WordSize \in Int /\ 0 * WordSize = 0
  BY <1>1, <1>2
<1>5. QED
  BY <1>1, <1>2, <1>3, <1>4 DEF NumWords

(* A word number and an offset make a position, and the other way round. *)
LEMMA Positioning ==
  ASSUME NEW i \in Int, NEW o \in Word
  PROVE  /\ i * WordSize + o \in Int
         /\ (i * WordSize + o) \div WordSize = i
         /\ (i * WordSize + o) % WordSize = o
<1>1. WordSize \in Nat \ {0} /\ o \in 0 .. WordSize - 1
  BY BitvectorAssumption DEF Word
<1>2. QED
  BY <1>1, DivModUnique

(* A position is its word and its offset there. *)
LEMMA PositionOf ==
  ASSUME NEW p \in Int
  PROVE  /\ p \div WordSize \in Int
         /\ p % WordSize \in Word
         /\ p = (p \div WordSize) * WordSize + (p % WordSize)
<1>1. WordSize \in Nat \ {0}
  BY BitvectorAssumption
<1>2. QED
  BY <1>1, DivMod DEF Word

(* Positions inside a vector lie in its words. *)
LEMMA WordInside ==
  ASSUME NEW n \in Nat, NEW p \in 0 .. n - 1
  PROVE  p \div WordSize \in 0 .. NumWords(n) - 1
<1>1. WordSize \in Nat \ {0} /\ p \in Int
  BY BitvectorAssumption
<1>2. /\ NumWords(n) \in Nat /\ n <= NumWords(n) * WordSize
      /\ NumWords(n) * WordSize \in Int
  BY <1>1, NumWordsBounds
<1>3. p < NumWords(n) * WordSize
  BY <1>2
<1>4. p \div WordSize < NumWords(n)
  BY <1>1, <1>2, <1>3, DivBounds
<1>5. 0 * WordSize <= p
  BY <1>1
<1>6. 0 <= p \div WordSize
  BY <1>1, <1>5, DivBounds
<1>7. QED
  BY <1>2, <1>4, <1>6, PositionOf

(* A word of a vector has the 1 bits of its positions. *)
LEMMA WordHasBits ==
  ASSUME NEW b, BitvectorOK(b), NEW i \in 0 .. NumWords(b.num_bits) - 1
  PROVE  /\ WordAt(b, i) = b.bits[i + 1]
         /\ WordAt(b, i) \in SUBSET Word
         /\ \A o \in Word : o \in WordAt(b, i) <=> i * WordSize + o \in OneBits(b)
<1>1. WordSize \in Nat \ {0} /\ NumWords(b.num_bits) \in Nat
  BY BitvectorAssumption, NumWordsBounds DEF BitvectorOK
<1>2. i + 1 \in 1 .. NumWords(b.num_bits) /\ i \in Int /\ (i + 1) - 1 = i
  BY <1>1
<1>3. WordAt(b, i) = b.bits[i + 1] /\ WordAt(b, i) \in SUBSET Word
  BY <1>2 DEF WordAt, BitvectorOK
<1>4. ASSUME NEW o \in Word
      PROVE  o \in WordAt(b, i) <=> i * WordSize + o \in OneBits(b)
  <2>1. ReadBit(b, i * WordSize + o) <=> o \in WordAt(b, i)
    BY <1>2, Positioning DEF ReadBit
  <2>2. i * WordSize >= 0
    BY <1>1, <1>2
  <2>3. i * WordSize + o >= 0 /\ i * WordSize + o \in Int
    BY <1>1, <1>2, <2>2 DEF Word
  <2>4. o \in WordAt(b, i) => i * WordSize + o < b.num_bits
    BY <1>2, <1>3 DEF BitvectorOK
  <2>5. QED
    BY <2>1, <2>3, <2>4 DEF OneBits, BitvectorOK
<1>5. QED
  BY <1>3, <1>4

(* Every 1 bit of a vector is in a word of it. *)
LEMMA BitInWord ==
  ASSUME NEW b, BitvectorOK(b), NEW p \in OneBits(b)
  PROVE  /\ p \in 0 .. b.num_bits - 1
         /\ p \div WordSize \in 0 .. NumWords(b.num_bits) - 1
         /\ p % WordSize \in WordAt(b, p \div WordSize)
  BY WordInside DEF OneBits, ReadBit, BitvectorOK

-------------------------------------------------------------------------------
(* Distances *)

(* distanceToPrevSetBit: nothing lies between pos and where it leads. *)
LEMMA PrevCorrect ==
  ASSUME NEW b, BitvectorOK(b), NEW pos \in 1 .. b.num_bits
  PROVE  DistanceToPrevSetBit(b, pos)
           = pos - Max({q \in OneBits(b) : q < pos} \cup {-1})
<1> DEFINE w == (pos - 1) \div WordSize
           offset == (pos - 1) % WordSize
           rest == ShiftRight(WordAt(b, w), WordSize - 1 - offset)
           earlier == {i \in 0 .. w - 1 : WordAt(b, i) # {}}
           before == {q \in OneBits(b) : q < pos}
<1>1. WordSize \in Nat \ {0} /\ b.num_bits \in Nat /\ pos \in Nat /\ pos - 1 \in 0 .. b.num_bits - 1
  BY BitvectorAssumption DEF BitvectorOK
<1>2. /\ w \in 0 .. NumWords(b.num_bits) - 1 /\ offset \in 0 .. WordSize - 1
      /\ pos - 1 = w * WordSize + offset
  <2>1. w \in 0 .. NumWords(b.num_bits) - 1
    BY <1>1, WordInside
  <2>2. pos - 1 \in Int
    BY <1>1
  <2>3. offset \in Word /\ pos - 1 = w * WordSize + offset
    BY <2>2, PositionOf
  <2>4. QED
    BY <2>1, <2>3 DEF Word
<1>3. w * WordSize \in Int /\ w \in Nat
  BY <1>1, <1>2
<1>4. WordAt(b, w) \in SUBSET (0 .. WordSize - 1)
  BY <1>2, WordHasBits DEF Word
<1>5. rest = {o + (WordSize - 1 - offset) : o \in {x \in WordAt(b, w) : x <= offset}}
  BY <1>1, <1>2, <1>4 DEF ShiftRight
<1>6. rest \in SUBSET (0 .. WordSize - 1)
  BY <1>1, <1>2, <1>4, <1>5
<1>7. ASSUME NEW q \in before
      PROVE  /\ q \in Int /\ q \in OneBits(b) /\ q \div WordSize \in 0 .. w
             /\ q % WordSize \in 0 .. WordSize - 1
             /\ q % WordSize \in WordAt(b, q \div WordSize)
             /\ q = (q \div WordSize) * WordSize + (q % WordSize)
             /\ q \div WordSize = w => q % WordSize <= offset
  <2>1. q \in OneBits(b) /\ q < pos /\ q \in Int
    BY <1>1 DEF OneBits
  <2>2. /\ q % WordSize \in WordAt(b, q \div WordSize) /\ q \div WordSize \in Nat
        /\ q % WordSize \in 0 .. WordSize - 1
        /\ q = (q \div WordSize) * WordSize + (q % WordSize)
    BY <2>1, BitInWord, PositionOf DEF Word
  <2>3. ~(w + 1 <= q \div WordSize)
    <3>1. w + 1 <= q \div WordSize => (w + 1) * WordSize <= q
      BY <1>1, <1>2, <2>1, DivBounds
    <3>2. (w + 1) * WordSize = w * WordSize + WordSize
      BY <1>1, <1>2
    <3>3. QED
      BY <1>1, <1>2, <1>3, <2>1, <3>1, <3>2
  <2>4. q \div WordSize = w => q % WordSize <= offset
    BY <1>1, <1>2, <1>3, <2>1, <2>2
  <2>5. QED
    BY <1>3, <2>1, <2>2, <2>3, <2>4
<1>8. before \in SUBSET Int
  BY <1>7
<1> HIDE DEF w, offset, rest, earlier, before
<1>9. CASE rest # {}
  <2> DEFINE M == Max(rest)
  <2>1. M \in rest /\ \A m \in rest : m <= M
    <3>1. 0 \in Int /\ WordSize - 1 \in Int
      BY <1>1
    <3>2. QED
      BY <1>6, <1>9, <3>1, MaxIsGreatest
  <2>2. PICK o \in WordAt(b, w) : o <= offset /\ M = o + (WordSize - 1 - offset)
    BY <1>5, <2>1
  <2>3. o \in 0 .. WordSize - 1
    BY <1>4
  <2> DEFINE p == w * WordSize + o
  <2>4. p \in OneBits(b) /\ p < pos
    BY <1>1, <1>2, <1>3, <2>2, <2>3, WordHasBits DEF Word
  <2>5. ASSUME NEW q \in before \cup {-1} PROVE q <= p
    <3>1. CASE q = -1
      <4>1. w * WordSize >= 0
        BY <1>1, <1>3
      <4>2. QED
        BY <1>3, <2>3, <3>1, <4>1
    <3>2. CASE q \in before /\ q \div WordSize = w
      <4>1. (q % WordSize) + (WordSize - 1 - offset) \in rest
        BY <1>5, <1>7, <3>2
      <4>2. q % WordSize <= o
        BY <1>1, <1>2, <1>7, <2>1, <2>2, <2>3, <3>2, <4>1
      <4>3. QED
        BY <1>3, <1>7, <2>3, <3>2, <4>2
    <3>3. CASE q \in before /\ q \div WordSize < w
      <4>1. q \in Int /\ w \in Int
        BY <1>3, <1>7, <3>3
      <4>2. q < w * WordSize
        BY <1>1, <3>3, <4>1, DivBounds
      <4>3. QED
        BY <1>3, <2>3, <4>1, <4>2
    <3>4. QED
      BY <1>3, <1>7, <3>1, <3>2, <3>3
  <2>6. p \in before /\ before \cup {-1} \in SUBSET Int
    BY <1>8, <2>4 DEF before
  <2>7. Max(before \cup {-1}) = p
    BY <2>5, <2>6, MaxIs
  <2>8. DistanceToPrevSetBit(b, pos) = 1 + (WordSize - 1 - M)
    BY <1>1, <1>9 DEF DistanceToPrevSetBit, TrailingZeros, rest, w, offset
  <2>9. 1 + (WordSize - 1 - M) = pos - p
    BY <1>1, <1>2, <1>3, <2>2, <2>3
  <2>10. QED
    BY <2>7, <2>8, <2>9 DEF before
<1>10. CASE rest = {} /\ earlier # {}
  <2> DEFINE i == Max(earlier)
             M == Max(WordAt(b, i))
  <2>1. earlier \in SUBSET (0 .. w - 1) /\ w - 1 \in Int
    BY <1>3 DEF earlier
  <2>2. i \in earlier /\ \A j \in earlier : j <= i
    <3>1. 0 \in Int
      OBVIOUS
    <3>2. QED
      BY <1>10, <2>1, <3>1, MaxIsGreatest
  <2> HIDE DEF i
  <2>3. i \in 0 .. w - 1 /\ i \in 0 .. NumWords(b.num_bits) - 1 /\ WordAt(b, i) # {}
    <3>1. NumWords(b.num_bits) \in Nat
      BY <1>1, NumWordsBounds
    <3>2. i \in 0 .. w - 1 /\ WordAt(b, i) # {}
      BY <2>2 DEF earlier
    <3>3. QED
      BY <1>2, <1>3, <3>1, <3>2
  <2>4. WordAt(b, i) \in SUBSET (0 .. WordSize - 1)
    BY <2>3, WordHasBits DEF Word
  <2>5. M \in WordAt(b, i) /\ M \in 0 .. WordSize - 1 /\ \A m \in WordAt(b, i) : m <= M
    <3>1. 0 \in Int /\ WordSize - 1 \in Int
      BY <1>1
    <3>2. M \in WordAt(b, i) /\ \A m \in WordAt(b, i) : m <= M
      BY <2>3, <2>4, <3>1, MaxIsGreatest
    <3>3. QED
      BY <2>4, <3>2
  <2>6. DistanceToPrevSetBit(b, pos)
          = 1 + (offset + 1) + (w - 1 - i) * WordSize + (WordSize - 1 - M)
    BY <1>1, <1>10 DEF DistanceToPrevSetBit, TrailingZeros, rest, w, offset, earlier, i
  <2> DEFINE p == i * WordSize + M
  <2> HIDE DEF M
  <2>7. /\ i * WordSize \in Int /\ i * WordSize >= 0
        /\ (w - 1 - i) * WordSize = w * WordSize - WordSize - i * WordSize
    BY <1>1, <1>3, <2>3
  <2>8. i * WordSize + WordSize <= w * WordSize
    <3>1. (i + 1) * WordSize <= w * WordSize
      BY <1>1, <1>3, <2>3, TimesMonotone
    <3>2. QED
      BY <1>1, <2>3, <3>1
  <2>9. p \in OneBits(b) /\ p < pos
    <3>1. p \in OneBits(b)
      BY <2>3, <2>5, WordHasBits DEF Word
    <3>2. p < pos
      BY <1>1, <1>2, <1>3, <2>5, <2>7, <2>8
    <3>3. QED
      BY <3>1, <3>2
  <2>10. ASSUME NEW q \in before \cup {-1} PROVE q <= p
    <3>1. CASE q = -1
      BY <2>5, <2>7, <3>1
    <3>2. CASE q \in before /\ q \div WordSize = w
      <4>1. (q % WordSize) + (WordSize - 1 - offset) \in rest
        BY <1>5, <1>7, <3>2
      <4>2. QED
        BY <1>10, <4>1
    <3>3. CASE q \in before /\ q \div WordSize < w
      <4>1. q \div WordSize \in earlier
        BY <1>3, <1>7, <3>3 DEF earlier
      <4>2. q \div WordSize <= i
        BY <2>2, <4>1
      <4>3. CASE q \div WordSize = i
        BY <1>7, <2>5, <2>7, <3>3, <4>3
      <4>4. CASE q \div WordSize < i
        <5>1. q \in Int /\ i \in Int /\ WordSize \in Nat \ {0}
          BY <1>1, <1>7, <2>3, <3>3
        <5>2. q < i * WordSize
          BY <4>4, <5>1, DivBounds
        <5>3. QED
          BY <1>7, <2>5, <2>7, <3>3, <5>2
      <4>5. QED
        BY <1>7, <2>3, <3>3, <4>2, <4>3, <4>4
    <3>4. QED
      BY <1>3, <1>7, <3>1, <3>2, <3>3
  <2>11. p \in before /\ before \cup {-1} \in SUBSET Int
    BY <1>8, <2>9 DEF before
  <2>12. Max(before \cup {-1}) = p
    BY <2>10, <2>11, MaxIs
  <2>13. 1 + (offset + 1) + (w - 1 - i) * WordSize + (WordSize - 1 - M) = pos - p
    BY <1>1, <1>2, <1>3, <2>5, <2>7
  <2>14. QED
    BY <2>6, <2>12, <2>13 DEF before
<1>11. CASE rest = {} /\ earlier = {}
  <2>1. ASSUME NEW q \in before PROVE FALSE
    <3>1. CASE q \div WordSize = w
      <4>1. (q % WordSize) + (WordSize - 1 - offset) \in rest
        BY <1>5, <1>7, <3>1
      <4>2. QED
        BY <1>11, <4>1
    <3>2. CASE q \div WordSize < w
      BY <1>3, <1>7, <1>11, <3>2 DEF earlier
    <3>3. QED
      BY <1>3, <1>7, <3>1, <3>2
  <2>2. Max(before \cup {-1}) = -1
    <3>1. before \cup {-1} = {-1}
      BY <2>1
    <3>2. QED
      BY <3>1, MaxIs
  <2>3. DistanceToPrevSetBit(b, pos) = 1 + (offset + 1) + (w - 1 - (-1)) * WordSize
    BY <1>1, <1>11 DEF DistanceToPrevSetBit, rest, w, offset, earlier
  <2>4. 1 + (offset + 1) + (w - 1 - (-1)) * WordSize = pos - (-1)
    <3>1. w - 1 - (-1) = w
      BY <1>3
    <3>2. QED
      BY <1>1, <1>2, <1>3, <3>1
  <2>5. QED
    BY <2>2, <2>3, <2>4 DEF before
<1>12. QED
  BY <1>9, <1>10, <1>11

(* distanceToNextSetBit: nothing lies between pos and where it leads, if there is
   a 1 bit behind pos. *)
LEMMA NextCorrect ==
  ASSUME NEW b, BitvectorOK(b), NEW pos \in 0 .. b.num_bits - 1
  PROVE  LET after == {q \in OneBits(b) : q > pos}
         IN  /\ after # {} => DistanceToNextSetBit(b, pos) = Min(after) - pos
             /\ after = {} /\ (pos + 1) \div WordSize = NumWords(b.num_bits) - 1
                  => DistanceToNextSetBit(b, pos) = b.num_bits - pos
<1> DEFINE w == (pos + 1) \div WordSize
           offset == (pos + 1) % WordSize
           last == NumWords(b.num_bits) - 1
           rest == ShiftLeft(WordAt(b, w), offset)
           later == {i \in w + 1 .. last : WordAt(b, i) # {}}
           after == {q \in OneBits(b) : q > pos}
<1>1. WordSize \in Nat \ {0} /\ b.num_bits \in Nat /\ pos \in Nat /\ pos + 1 \in Int
  BY BitvectorAssumption DEF BitvectorOK
<1>2. NumWords(b.num_bits) \in Nat /\ last \in Int
  BY <1>1, NumWordsBounds
<1>3. /\ w \in Int /\ offset \in 0 .. WordSize - 1
      /\ pos + 1 = w * WordSize + offset
  BY <1>1, PositionOf DEF Word
<1>4. w \in Nat /\ w * WordSize \in Int
  <2>1. 0 * WordSize <= pos + 1
    BY <1>1
  <2>2. 0 <= w
    BY <1>1, <2>1, DivBounds
  <2>3. QED
    BY <1>1, <1>3, <2>2
<1>5. ASSUME NEW q \in after
      PROVE  /\ q \in Int /\ q \in OneBits(b) /\ q \div WordSize \in w .. last
             /\ q % WordSize \in 0 .. WordSize - 1
             /\ q % WordSize \in WordAt(b, q \div WordSize)
             /\ q = (q \div WordSize) * WordSize + (q % WordSize)
             /\ q \div WordSize = w => q % WordSize >= offset
  <2>1. q \in OneBits(b) /\ pos + 1 <= q /\ q \in Int
    BY <1>1 DEF OneBits
  <2>2. q \div WordSize \in 0 .. last /\ q % WordSize \in WordAt(b, q \div WordSize)
    BY <2>1, BitInWord
  <2>3. /\ q % WordSize \in 0 .. WordSize - 1
        /\ q = (q \div WordSize) * WordSize + (q % WordSize)
    BY <2>1, PositionOf DEF Word
  <2>4. w * WordSize <= q
    BY <1>1, <1>3, <1>4, <2>1
  <2>5. w <= q \div WordSize
    BY <1>1, <1>3, <2>1, <2>4, DivBounds
  <2>6. q \div WordSize \in w .. last
    BY <1>2, <1>4, <2>2, <2>5
  <2>7. q \div WordSize = w => q % WordSize >= offset
    BY <1>1, <1>3, <1>4, <2>1, <2>3
  <2>8. QED
    BY <2>1, <2>2, <2>3, <2>6, <2>7
<1>6. after \in SUBSET Int
  BY <1>5
<1>7. ASSUME w \in 0 .. last
      PROVE  /\ WordAt(b, w) \in SUBSET (0 .. WordSize - 1)
             /\ rest = {o - offset : o \in {x \in WordAt(b, w) : x >= offset}}
             /\ \A o \in WordAt(b, w) : o >= offset => w * WordSize + o \in after
  <2>1. WordAt(b, w) \in SUBSET (0 .. WordSize - 1)
    BY <1>7, WordHasBits DEF Word
  <2>2. rest = {o - offset : o \in {x \in WordAt(b, w) : x >= offset}}
    BY DEF ShiftLeft
  <2>3. ASSUME NEW o \in WordAt(b, w), o >= offset
        PROVE  w * WordSize + o \in after
    <3>1. o \in Word
      BY <2>1 DEF Word
    <3>2. w * WordSize + o \in OneBits(b)
      BY <1>7, <3>1, WordHasBits
    <3>3. w * WordSize + o > pos
      BY <1>1, <1>3, <1>4, <2>1, <2>3
    <3>4. QED
      BY <3>2, <3>3
  <2>4. QED
    BY <2>1, <2>2, <2>3
<1> HIDE DEF w, offset, last, rest, later, after
<1>8. CASE after # {} /\ rest # {}
  <2>1. w \in 0 .. last
    <3>1. PICK q \in after : TRUE
      BY <1>8
    <3>2. QED
      BY <1>2, <1>4, <1>5, <3>1
  <2> DEFINE m == Min(rest)
  <2>2. rest \in SUBSET Nat
    BY <1>3, <1>7, <2>1
  <2>3. m \in rest /\ \A x \in rest : m <= x
    BY <1>8, <2>2, MinIsLeast
  <2>4. PICK o \in WordAt(b, w) : o >= offset /\ m = o - offset
    BY <1>7, <2>1, <2>3
  <2>5. o \in 0 .. WordSize - 1 /\ w * WordSize + o \in after
    BY <1>7, <2>1, <2>4
  <2>6. DistanceToNextSetBit(b, pos) = 1 + m
    BY <1>8 DEF DistanceToNextSetBit, LeadingZeros, rest, w, offset
  <2> HIDE DEF m
  <2>7. ASSUME NEW q \in after PROVE w * WordSize + o <= q
    <3>1. CASE q \div WordSize = w
      <4>1. (q % WordSize) - offset \in rest
        BY <1>5, <1>7, <2>1, <3>1
      <4>2. o <= q % WordSize
        BY <1>1, <1>3, <1>5, <2>3, <2>4, <2>5, <4>1
      <4>3. QED
        BY <1>4, <1>5, <2>5, <3>1, <4>2
    <3>2. CASE q \div WordSize > w
      <4>1. (w + 1) * WordSize <= q
        <5>1. w + 1 <= q \div WordSize /\ w + 1 \in Int
          BY <1>2, <1>4, <1>5, <3>2
        <5>2. QED
          BY <1>1, <1>5, <5>1, DivBounds
      <4>2. (w + 1) * WordSize = w * WordSize + WordSize
        BY <1>1, <1>4
      <4>3. QED
        BY <1>1, <1>4, <1>5, <2>5, <4>1, <4>2
    <3>3. QED
      BY <1>2, <1>4, <1>5, <3>1, <3>2
  <2>8. Min(after) = w * WordSize + o
    BY <1>6, <2>5, <2>7, MinIs
  <2>9. 1 + m = w * WordSize + o - pos
    BY <1>1, <1>3, <1>4, <2>4, <2>5
  <2>10. DistanceToNextSetBit(b, pos) = Min(after) - pos
    BY <1>1, <1>4, <2>5, <2>6, <2>8, <2>9
  <2>11. QED
    BY <1>8, <2>10 DEF after
<1>9. CASE after # {} /\ rest = {}
  <2>1. ASSUME NEW q \in after PROVE q \div WordSize \in later
    <3>1. w \in 0 .. last
      BY <1>2, <1>4, <1>5
    <3>2. q \div WordSize # w
      <4>1. q \div WordSize = w => (q % WordSize) - offset \in rest
        BY <1>5, <1>7, <3>1
      <4>2. QED
        BY <1>9, <4>1
    <3>3. q \div WordSize \in w + 1 .. last
      BY <1>2, <1>4, <1>5, <3>2
    <3>4. QED
      BY <1>5, <3>3 DEF later
  <2> DEFINE i == Min(later)
             m == Min(WordAt(b, i))
  <2>2. later \in SUBSET Nat /\ later # {}
    <3>1. later # {}
      BY <1>9, <2>1
    <3>2. QED
      BY <1>4, <3>1 DEF later
  <2>3. i \in later /\ \A j \in later : i <= j
    BY <2>2, MinIsLeast
  <2>4. DistanceToNextSetBit(b, pos)
          = 1 + (WordSize - offset) + (i - w - 1) * WordSize + m
    <3>1. w # last
      BY <1>2, <1>4, <2>3 DEF later
    <3>2. QED
      BY <1>9, <2>2, <3>1 DEF DistanceToNextSetBit, LeadingZeros, rest, w, offset, last, later
  <2> HIDE DEF i
  <2>5. i \in w + 1 .. last /\ i \in 0 .. last /\ WordAt(b, i) # {}
    BY <1>2, <1>4, <2>3 DEF later
  <2>6. WordAt(b, i) \in SUBSET (0 .. WordSize - 1)
    BY <2>5, WordHasBits DEF Word, last
  <2>7. m \in WordAt(b, i) /\ m \in 0 .. WordSize - 1 /\ \A x \in WordAt(b, i) : m <= x
    <3>1. WordAt(b, i) \in SUBSET Nat
      BY <2>6
    <3>2. m \in WordAt(b, i) /\ \A x \in WordAt(b, i) : m <= x
      BY <2>5, <3>1, MinIsLeast
    <3>3. QED
      BY <2>6, <3>2
  <2> HIDE DEF m
  <2> DEFINE p == i * WordSize + m
  <2>8. /\ i * WordSize \in Int
        /\ (i - w - 1) * WordSize = i * WordSize - w * WordSize - WordSize
    BY <1>1, <1>2, <1>4, <2>5
  <2>9. w * WordSize + WordSize <= i * WordSize
    <3>1. w + 1 <= i /\ w + 1 \in Int /\ i \in Int
      BY <1>2, <1>4, <2>5
    <3>2. (w + 1) * WordSize <= i * WordSize
      BY <1>1, <3>1, TimesMonotone
    <3>3. (w + 1) * WordSize = w * WordSize + WordSize
      BY <1>1, <1>4
    <3>4. QED
      BY <3>2, <3>3
  <2>10. p \in after
    <3>1. p \in OneBits(b)
      BY <2>5, <2>7, WordHasBits DEF Word, last
    <3>2. p > pos
      BY <1>1, <1>3, <1>4, <2>7, <2>8, <2>9
    <3>3. QED
      BY <3>1, <3>2 DEF after
  <2>11. ASSUME NEW q \in after PROVE p <= q
    <3>1. q \div WordSize \in later /\ q \div WordSize \in Int /\ i <= q \div WordSize
      BY <1>2, <1>4, <1>5, <2>1, <2>3
    <3>2. CASE q \div WordSize = i
      BY <1>5, <2>7, <2>8, <3>2
    <3>3. CASE q \div WordSize > i
      <4>1. i + 1 <= q \div WordSize /\ i + 1 \in Int
        BY <2>5, <3>1, <3>3
      <4>2. (i + 1) * WordSize <= q
        BY <1>1, <1>5, <4>1, DivBounds
      <4>3. (i + 1) * WordSize = i * WordSize + WordSize
        BY <1>1, <2>5
      <4>4. QED
        BY <1>1, <1>5, <2>7, <2>8, <4>2, <4>3
    <3>4. QED
      BY <2>5, <3>1, <3>2, <3>3
  <2>12. Min(after) = p
    BY <1>6, <2>10, <2>11, MinIs
  <2>13. 1 + (WordSize - offset) + (i - w - 1) * WordSize + m = p - pos
    BY <1>1, <1>3, <1>4, <2>7, <2>8
  <2>14. QED
    BY <1>9, <2>4, <2>12, <2>13 DEF after
<1>10. CASE after = {} /\ w = last
  <2>1. w \in 0 .. last
    BY <1>2, <1>4, <1>10
  <2>2. rest = {}
    BY <1>7, <1>10, <2>1
  <2>3. DistanceToNextSetBit(b, pos) = b.num_bits - pos
    BY <1>10, <2>2 DEF DistanceToNextSetBit, rest, w, offset, last
  <2>4. QED
    BY <1>10, <2>3 DEF after
<1>11. CASE after = {} /\ w # last
  BY <1>11 DEF after, w, last
<1>12. QED
  BY <1>8, <1>9, <1>10, <1>11

-------------------------------------------------------------------------------
(* Concatenation *)

(* A word to append, of which used bits count. *)
Pieces == [word : SUBSET Word, used : 1 .. WordSize]

(* The states of the concatenation into n words. *)
States(n) == [bits : [1 .. n -> SUBSET Word], word_id : Nat, bit_shift : Word]

(* A word shifted stays a word. *)
LEMMA ShiftsAreWords ==
  ASSUME NEW w \in SUBSET Word, NEW k \in Nat
  PROVE  ShiftRight(w, k) \in SUBSET Word /\ ShiftLeft(w, k) \in SUBSET Word
<1>1. WordSize \in Nat \ {0}
  BY BitvectorAssumption
<1>2. QED
  BY <1>1 DEF ShiftRight, ShiftLeft, Word

(* Appending keeps the types of the state. *)
LEMMA AppendType ==
  ASSUME NEW n \in Nat, NEW st \in States(n), NEW next \in Pieces
  PROVE  AppendWord(st, next) \in States(n)
<1> DEFINE shift == st.bit_shift
           w == st.word_id
           used == next.used
           word == next.word
           end == shift + used
           low == ShiftRight(word, shift)
           high == ShiftLeft(word, WordSize - shift)
           bits == [st.bits EXCEPT ![w + 1] = @ \cup low]
           more == [bits EXCEPT ![w + 2] = @ \cup high]
<1>1. /\ WordSize \in Nat \ {0} /\ shift \in 0 .. WordSize - 1 /\ w \in Nat
      /\ used \in 1 .. WordSize /\ word \in SUBSET Word
      /\ st.bits \in [1 .. n -> SUBSET Word]
  BY BitvectorAssumption DEF States, Pieces, Word
<1>2. AppendWord(st, next) =
        IF end < WordSize
        THEN [st EXCEPT !.bits = bits, !.bit_shift = end]
        ELSE [bits |-> IF end = WordSize THEN bits ELSE more,
              word_id |-> w + 1,
              bit_shift |-> end - WordSize]
  BY DEF AppendWord
<1> HIDE DEF shift, w, used, word
<1>3. low \in SUBSET Word
  <2>1. shift \in Nat
    BY <1>1
  <2>2. QED
    BY <1>1, <2>1, ShiftsAreWords
<1>4. high \in SUBSET Word
  <2>1. WordSize - shift \in Nat
    BY <1>1
  <2>2. QED
    BY <1>1, <2>1, ShiftsAreWords
<1> HIDE DEF low, high
<1>5. bits \in [1 .. n -> SUBSET Word]
  BY <1>1, <1>3
<1> HIDE DEF bits
<1>6. more \in [1 .. n -> SUBSET Word]
  BY <1>4, <1>5
<1> HIDE DEF more
<1>7. CASE end < WordSize
  <2>1. end \in Word
    BY <1>1, <1>7 DEF Word
  <2>2. AppendWord(st, next) = [st EXCEPT !.bits = bits, !.bit_shift = end]
    BY <1>2, <1>7
  <2> HIDE DEF end
  <2>3. QED
    BY <1>5, <2>1, <2>2 DEF States
<1>8. CASE ~(end < WordSize)
  <2>1. end - WordSize \in Word /\ w + 1 \in Nat
    BY <1>1, <1>8 DEF Word
  <2>2. AppendWord(st, next) = [bits |-> IF end = WordSize THEN bits ELSE more,
                                word_id |-> w + 1,
                                bit_shift |-> end - WordSize]
    BY <1>2, <1>8
  <2> HIDE DEF end
  <2>3. QED
    BY <1>5, <1>6, <2>1, <2>2 DEF States
<1>9. QED
  BY <1>7, <1>8

(* The state has the bits at the positions of set, and total bits behind it. *)
Holds(st, n, total, set) ==
  /\ st \in States(n)
  /\ st.word_id * WordSize + st.bit_shift = total
  /\ \A i \in 1 .. n : \A o \in Word : o \in st.bits[i] <=> (i - 1) * WordSize + o \in set

(* The bits of set when total bits come before it. *)
Moved(total, set) == {total + o : o \in set}

(* A piece has its 1 bits among the bits that count. *)
Fits(next) == next \in Pieces /\ \A o \in next.word : o < next.used

(* concatenateBitvectors, for one word: its bits are added behind the others,
   whether they fit into the current word or not. *)
LEMMA AppendStep ==
  ASSUME NEW n \in Nat, NEW st, NEW total, NEW set, Holds(st, n, total, set),
         NEW next, Fits(next), total + next.used <= n * WordSize
  PROVE  Holds(AppendWord(st, next), n, total + next.used,
               set \cup Moved(total, next.word))
<1> DEFINE shift == st.bit_shift
           w == st.word_id
           used == next.used
           word == next.word
           end == shift + used
           low == ShiftRight(word, shift)
           high == ShiftLeft(word, WordSize - shift)
           bits == [st.bits EXCEPT ![w + 1] = @ \cup low]
           more == [bits EXCEPT ![w + 2] = @ \cup high]
           new == AppendWord(st, next)
           added == {total + o : o \in word}
<1> USE DEF Fits
<1>1. /\ WordSize \in Nat \ {0} /\ shift \in 0 .. WordSize - 1 /\ w \in Nat
      /\ used \in 1 .. WordSize /\ word \in SUBSET (0 .. WordSize - 1)
      /\ st.bits \in [1 .. n -> SUBSET Word] /\ st \in States(n)
      /\ total = w * WordSize + shift
  BY BitvectorAssumption DEF Holds, States, Pieces, Word
<1>2. /\ end < WordSize => /\ new.bits = bits /\ new.word_id = w /\ new.bit_shift = end
      /\ ~(end < WordSize) => /\ new.bits = IF end = WordSize THEN bits ELSE more
                              /\ new.word_id = w + 1 /\ new.bit_shift = end - WordSize
  BY <1>1 DEF AppendWord, States
<1>3. new \in States(n)
  BY <1>1, AppendType
<1>4. \A i \in 1 .. n : \A o \in Word : o \in st.bits[i] <=> (i - 1) * WordSize + o \in set
  BY DEF Holds
<1>5. total + used <= n * WordSize /\ \A o \in word : o < used
  OBVIOUS
<1> HIDE DEF shift, w, used, word, new
<1>6. w * WordSize \in Int /\ total \in Int /\ n * WordSize \in Int
  <2>1. w \in Int /\ n \in Int /\ shift \in Int /\ WordSize \in Int
    BY <1>1
  <2>2. w * WordSize \in Int /\ n * WordSize \in Int
    BY <2>1
  <2>3. total = w * WordSize + shift
    BY <1>1
  <2> HIDE DEF end, low, high, bits, more, added
  <2>4. QED
    BY <2>1, <2>2, <2>3
<1>7. w + 1 \in 1 .. n
  <2>1. w * WordSize < n * WordSize
    BY <1>1, <1>6, <1>5
  <2>2. n <= w => n * WordSize <= w * WordSize
    BY <1>1, TimesMonotone
  <2>3. QED
    BY <1>1, <1>6, <2>1, <2>2
<1>8. (w + 1) * WordSize = w * WordSize + WordSize
  BY <1>1
<1>9. ASSUME NEW i \in 1 .. n, NEW o \in Word
      PROVE  (i - 1) * WordSize + o \in added
               <=> \/ i - 1 = w /\ o \in low
                   \/ i - 1 = w + 1 /\ o \in high
  <2>1. o \in 0 .. WordSize - 1 /\ i - 1 \in Nat /\ (i - 1) * WordSize \in Int
    BY <1>1 DEF Word
  <2>2. ASSUME NEW x \in word, (i - 1) * WordSize + o = total + x
        PROVE  \/ i - 1 = w /\ o \in low
               \/ i - 1 = w + 1 /\ o \in high
    <3>1. x \in 0 .. WordSize - 1
      BY <1>1
    <3>2. CASE x + shift < WordSize
      <4>1. x + shift \in Word /\ w \in Int /\ w * WordSize + (x + shift) = (i - 1) * WordSize + o
        BY <1>1, <1>6, <2>1, <2>2, <3>1, <3>2 DEF Word
      <4>2. i - 1 = w /\ o = x + shift
        <5>1. /\ ((i - 1) * WordSize + o) \div WordSize = i - 1
              /\ ((i - 1) * WordSize + o) % WordSize = o
          BY <2>1, Positioning
        <5>2. /\ (w * WordSize + (x + shift)) \div WordSize = w
              /\ (w * WordSize + (x + shift)) % WordSize = x + shift
          BY <4>1, Positioning
        <5>3. QED
          BY <4>1, <5>1, <5>2
      <4>3. x + shift \in low
        BY <1>1, <3>1, <3>2 DEF ShiftRight
      <4>4. QED
        BY <4>2, <4>3
    <3>3. CASE ~(x + shift < WordSize)
      <4> DEFINE y == x - (WordSize - shift)
      <4>1. y \in Word /\ w + 1 \in Int /\ (w + 1) * WordSize + y = (i - 1) * WordSize + o
        BY <1>1, <1>6, <1>8, <2>1, <2>2, <3>1, <3>3 DEF Word
      <4>2. i - 1 = w + 1 /\ o = y
        <5>1. /\ ((i - 1) * WordSize + o) \div WordSize = i - 1
              /\ ((i - 1) * WordSize + o) % WordSize = o
          BY <2>1, Positioning
        <5>2. /\ ((w + 1) * WordSize + y) \div WordSize = w + 1
              /\ ((w + 1) * WordSize + y) % WordSize = y
          <6> HIDE DEF y
          <6>1. QED
            BY <4>1, Positioning
        <5> HIDE DEF y
        <5>3. QED
          BY <4>1, <5>1, <5>2
      <4>3. y \in high
        <5>1. x >= WordSize - shift
          BY <1>1, <3>1, <3>3
        <5>2. QED
          BY <5>1 DEF ShiftLeft
      <4>4. QED
        BY <4>2, <4>3
    <3>4. QED
      BY <3>2, <3>3
  <2>3. ASSUME i - 1 = w, o \in low
        PROVE  (i - 1) * WordSize + o \in added
    <3>1. PICK x \in word : o = x + shift
      BY <2>3 DEF ShiftRight
    <3>2. (i - 1) * WordSize + o = total + x
      BY <1>1, <1>6, <2>3, <3>1
    <3>3. QED
      BY <3>1, <3>2
  <2>4. ASSUME i - 1 = w + 1, o \in high
        PROVE  (i - 1) * WordSize + o \in added
    <3>1. PICK x \in word : o = x - (WordSize - shift)
      BY <2>4 DEF ShiftLeft
    <3>2. x \in 0 .. WordSize - 1
      BY <1>1
    <3>3. (i - 1) * WordSize = w * WordSize + WordSize
      BY <1>8, <2>4
    <3>4. (i - 1) * WordSize + o = total + x
      BY <1>1, <1>6, <3>1, <3>2, <3>3
    <3>5. QED
      BY <3>1, <3>4
  <2>5. QED
    BY <2>2, <2>3, <2>4
<1>10. high # {} => end > WordSize
  <2> SUFFICES ASSUME NEW x \in word, x >= WordSize - shift PROVE end > WordSize
    BY DEF ShiftLeft
  <2>1. x < used /\ x \in 0 .. WordSize - 1
    BY <1>1, <1>5
  <2>2. QED
    BY <1>1, <2>1
<1>11. new.word_id * WordSize + new.bit_shift = total + used
  <2>1. CASE end < WordSize
    BY <1>1, <1>6, <1>2, <2>1
  <2>2. CASE ~(end < WordSize)
    <3>1. new.word_id = w + 1 /\ new.bit_shift = end - WordSize
      BY <1>2, <2>2
    <3>2. (w + 1) * WordSize + (end - WordSize) = total + used
      BY <1>1, <1>6, <1>8
    <3>3. QED
      BY <3>1, <3>2
  <2>3. QED
    BY <2>1, <2>2
<1>12. ASSUME NEW i \in 1 .. n
       PROVE  new.bits[i] = st.bits[i] \cup (IF i - 1 = w THEN low ELSE {})
                              \cup (IF i - 1 = w + 1 THEN high ELSE {})
  <2>1. (i - 1 = w <=> i = w + 1) /\ (i - 1 = w + 1 <=> i = w + 2)
    <3>1. i \in Int /\ w \in Int
      BY <1>1
    <3>2. QED
      BY <3>1
  <2>2. bits[i] = st.bits[i] \cup (IF i - 1 = w THEN low ELSE {})
    <3> HIDE DEF low
    <3>1. QED
      BY <1>1, <2>1
  <2>3. bits \in [1 .. n -> SUBSET Word]
    <3>1. low \in SUBSET Word
      <4>1. shift \in Nat /\ word \in SUBSET Word
        BY <1>1 DEF Word
      <4>2. QED
        BY <4>1, ShiftsAreWords
    <3> HIDE DEF low
    <3>2. QED
      BY <1>1, <3>1
  <2>4. more[i] = bits[i] \cup (IF i - 1 = w + 1 THEN high ELSE {})
    <3> HIDE DEF bits, high
    <3>1. QED
      BY <2>1, <2>3
  <2>5. CASE end < WordSize
    <3>1. new.bits = bits
      BY <1>2, <2>5
    <3>2. high = {}
      BY <1>1, <1>10, <2>5
    <3> HIDE DEF bits, high, low, new
    <3>3. QED
      BY <2>2, <3>1, <3>2
  <2>6. CASE end = WordSize
    <3>1. new.bits = bits
      BY <1>1, <1>2, <2>6
    <3>2. high = {}
      BY <1>1, <1>10, <2>6
    <3> HIDE DEF bits, high, low, new
    <3>3. QED
      BY <2>2, <3>1, <3>2
  <2>7. CASE end > WordSize
    <3>1. new.bits = more
      BY <1>1, <1>2, <2>7
    <3> HIDE DEF bits, high, low, new, more
    <3>2. QED
      BY <2>2, <2>4, <3>1
  <2>8. QED
    BY <1>1, <2>5, <2>6, <2>7
<1> HIDE DEF added, low, high
<1>13. ASSUME NEW i \in 1 .. n, NEW o \in Word
       PROVE  o \in new.bits[i] <=> (i - 1) * WordSize + o \in set \cup added
  BY <1>9, <1>12, <1>4
<1>14. Holds(new, n, total + used, set \cup added)
  BY <1>3, <1>11, <1>13 DEF Holds
<1>15. QED
  BY <1>14 DEF new, added, used, word, Moved

-------------------------------------------------------------------------------
(* Appending word after word *)

(* The concatenation appends one word after the other. *)
LEMMA AppendSteps ==
  ASSUME NEW n \in Nat, NEW zero \in States(n), NEW words \in Seq(Pieces)
  PROVE  \E st : /\ st[0] = zero
                 /\ \A j \in 1 .. Len(words) : st[j] = AppendWord(st[j - 1], words[j])
                 /\ FoldLeft(AppendWord, zero, words) = st[Len(words)]
<1> DEFINE k == Len(words)
           S == 1 .. k
           V == States(n)
           step == [c \in S \X V |-> AppendWord(c[2], words[c[1]])]
           pick == [s \in SUBSET S |-> Max(s)]
           iter == CHOOSE g : g = [s \in SUBSET S |->
                     IF s = {} THEN zero ELSE AppendWord(g[s \ {Max(s)}], words[Max(s)])]
<1>1. k \in Nat /\ DOMAIN words = S /\ \A i \in S : words[i] \in Pieces
  OBVIOUS
<1>2. FoldLeft(AppendWord, zero, words) = iter[S]
  BY <1>1 DEF FoldLeft, MapThenFoldSet
<1> HIDE DEF k
<1>3. \A s \in SUBSET S : s # {} => Max(s) \in s /\ pick[s] = Max(s)
  BY <1>1, InitialSegments
<1>4. step \in [S \X V -> V] /\ \A i \in S, v \in V : step[<<i, v>>] = AppendWord(v, words[i])
  <2>1. \A i \in S, v \in V : AppendWord(v, words[i]) \in V
    BY <1>1, AppendType
  <2> HIDE DEF V
  <2>2. QED
    BY <2>1
<1>5. FoldData(S, V, zero, step, pick)
  <2>1. IsFiniteSet(S)
    BY <1>1, FS_Interval
  <2> HIDE DEF S, step, pick
  <2>2. QED
    BY <1>3, <1>4, <2>1 DEF FoldData
<1>6. PICK g : IsFold(g, S, V, zero, step, pick)
  <2> HIDE DEF S, V, step, pick
  <2>1. QED
    BY <1>5, FoldExists
<1>6a. /\ g \in [SUBSET S -> V]
      /\ \A s \in SUBSET S :
           g[s] = IF s = {} THEN zero ELSE step[<<pick[s], g[s \ {pick[s]}]>>]
  BY <1>6 DEF IsFold
<1>7. g = [s \in SUBSET S |->
             IF s = {} THEN zero ELSE AppendWord(g[s \ {Max(s)}], words[Max(s)])]
  <2>1. ASSUME NEW s \in SUBSET S, s # {}
        PROVE  g[s] = AppendWord(g[s \ {Max(s)}], words[Max(s)])
    <3>1. Max(s) \in S /\ s \ {Max(s)} \in SUBSET S
      BY <1>3, <2>1
    <3>2. g[s] = step[<<Max(s), g[s \ {Max(s)}]>>]
      BY <1>3, <1>6a, <2>1
    <3>3. g[s \ {Max(s)}] \in V
      BY <1>6a, <3>1
    <3> HIDE DEF S, step, V
    <3>4. QED
      BY <1>4, <3>1, <3>2, <3>3
  <2>2. g[{}] = zero
    BY <1>6a
  <2>3. g = [s \in SUBSET S |-> g[s]]
    BY <1>6a
  <2> HIDE DEF S, step, V, pick
  <2>4. QED
    BY <2>1, <2>2, <2>3
<1>8. iter = [s \in SUBSET S |->
                IF s = {} THEN zero ELSE AppendWord(iter[s \ {Max(s)}], words[Max(s)])]
  BY <1>7
<1> HIDE DEF iter
<1> DEFINE st == [j \in 0 .. k |-> iter[1 .. j]]
<1>9. st[0] = zero
  <2>1. 1 .. 0 = {} /\ {} \in SUBSET S
    OBVIOUS
  <2>2. iter[{}] = zero
    BY <1>8, <2>1
  <2>3. QED
    BY <1>1, <2>1, <2>2
<1>10. ASSUME NEW j \in 1 .. k
       PROVE  st[j] = AppendWord(st[j - 1], words[j])
  <2>1. /\ 1 .. j \in SUBSET S /\ 1 .. j # {}
        /\ Max(1 .. j) = j /\ (1 .. j) \ {j} = 1 .. j - 1
    BY <1>1, InitialSegments
  <2>2. iter[1 .. j] = AppendWord(iter[1 .. j - 1], words[j])
    BY <1>8, <2>1
  <2>3. st[j] = iter[1 .. j] /\ st[j - 1] = iter[1 .. j - 1]
    BY <1>1
  <2> HIDE DEF st
  <2>4. QED
    BY <2>2, <2>3
<1>11. st[k] = iter[S]
  BY <1>1
<1> HIDE DEF st, S
<1>12. QED
  BY <1>2, <1>9, <1>10, <1>11 DEF k

(* t[i] is the number of bits of the first i of k levels. *)
AddsUp(t, list, k) ==
  /\ k \in Nat
  /\ DOMAIN list = 1 .. k
  /\ \A i \in 1 .. k : list[i].num_bits \in Nat
  /\ t[0] = 0
  /\ \A i \in 1 .. k : t[i] = t[i - 1] + list[i].num_bits

(* TotalNumBits adds up what t adds up. *)
LEMMA TotalIs ==
  ASSUME NEW list, NEW k, NEW t, AddsUp(t, list, k)
  PROVE  TotalNumBits(list) = t[k]
<1> USE DEF AddsUp
<1> DEFINE S == 1 .. k
           step == [c \in S \X Nat |-> c[2] + list[c[1]].num_bits]
           pick == [s \in SUBSET S |-> Max(s)]
           iter == CHOOSE g : g = [s \in SUBSET S |->
                     IF s = {} THEN 0 ELSE g[s \ {Max(s)}] + list[Max(s)].num_bits]
<1>1. TotalNumBits(list) = iter[S]
  BY DEF TotalNumBits, FoldLeft, MapThenFoldSet
<1>2. \A s \in SUBSET S : s # {} => Max(s) \in s /\ pick[s] = Max(s)
  BY InitialSegments
<1>3. /\ step \in [S \X Nat -> Nat]
      /\ \A i \in S, v \in Nat : step[<<i, v>>] = v + list[i].num_bits
  OBVIOUS
<1>4. FoldData(S, Nat, 0, step, pick)
  <2>1. IsFiniteSet(S)
    BY FS_Interval
  <2> HIDE DEF S, step, pick
  <2>2. QED
    BY <1>2, <1>3, <2>1 DEF FoldData
<1>5. PICK g : IsFold(g, S, Nat, 0, step, pick)
  <2> HIDE DEF S, step, pick
  <2>1. QED
    BY <1>4, FoldExists
<1>5a. /\ g \in [SUBSET S -> Nat]
      /\ \A s \in SUBSET S :
           g[s] = IF s = {} THEN 0 ELSE step[<<pick[s], g[s \ {pick[s]}]>>]
  BY <1>5 DEF IsFold
<1>6. g = [s \in SUBSET S |->
             IF s = {} THEN 0 ELSE g[s \ {Max(s)}] + list[Max(s)].num_bits]
  <2>1. ASSUME NEW s \in SUBSET S, s # {}
        PROVE  g[s] = g[s \ {Max(s)}] + list[Max(s)].num_bits
    <3>1. Max(s) \in S /\ s \ {Max(s)} \in SUBSET S
      BY <1>2, <2>1
    <3>2. g[s] = step[<<Max(s), g[s \ {Max(s)}]>>]
      BY <1>2, <1>5a, <2>1
    <3>3. g[s \ {Max(s)}] \in Nat
      BY <1>5a, <3>1
    <3> HIDE DEF S, step
    <3>4. QED
      BY <1>3, <3>1, <3>2, <3>3
  <2>2. g[{}] = 0
    BY <1>5a
  <2>3. g = [s \in SUBSET S |-> g[s]]
    BY <1>5a
  <2> HIDE DEF S, step, pick
  <2>4. QED
    BY <2>1, <2>2, <2>3
<1>7. iter = [s \in SUBSET S |->
                IF s = {} THEN 0 ELSE iter[s \ {Max(s)}] + list[Max(s)].num_bits]
  BY <1>6
<1> HIDE DEF iter
<1> DEFINE P == {j \in 0 .. k : iter[1 .. j] = t[j]}
<1>8. 0 \in P
  <2>1. 1 .. 0 = {} /\ {} \in SUBSET S
    OBVIOUS
  <2>2. iter[{}] = 0
    BY <1>7, <2>1
  <2>3. QED
    BY <2>1, <2>2
<1>9. \A j \in 0 .. k - 1 : j \in P => j + 1 \in P
  <2> SUFFICES ASSUME NEW j \in 0 .. k - 1, iter[1 .. j] = t[j]
               PROVE  iter[1 .. j + 1] = t[j + 1]
    OBVIOUS
  <2>1. j + 1 \in 1 .. k /\ (j + 1) - 1 = j
    OBVIOUS
  <2>2. /\ 1 .. j + 1 \in SUBSET S /\ 1 .. j + 1 # {}
        /\ Max(1 .. j + 1) = j + 1 /\ (1 .. j + 1) \ {j + 1} = 1 .. j
    BY <2>1, InitialSegments
  <2>3. iter[1 .. j + 1] = iter[1 .. j] + list[j + 1].num_bits
    <3> DEFINE r == 1 .. j + 1
    <3>1. r \in SUBSET S /\ r # {} /\ Max(r) = j + 1 /\ r \ {j + 1} = 1 .. j
      BY <2>2
    <3> HIDE DEF r, S
    <3>2. iter[r] = iter[r \ {Max(r)}] + list[Max(r)].num_bits
      BY <1>7, <3>1
    <3>3. iter[r] = iter[1 .. j] + list[j + 1].num_bits
      BY <3>1, <3>2
    <3>4. QED
      BY <3>3 DEF r
  <2>4. t[j + 1] = t[j] + list[j + 1].num_bits
    BY <2>1
  <2>5. QED
    BY <2>3, <2>4
<1> HIDE DEF P
<1>10. k \in P
  <2>1. \A j \in 0 .. k : j \in P
    BY <1>8, <1>9, UpToInduct
  <2>2. QED
    BY <2>1
<1>11. QED
  BY <1>1, <1>10 DEF P

(* Numbers that are defined one from the other. *)
LEMMA NumbersExist ==
  ASSUME NEW k, NEW step, RecursionData(k, Nat, 0, step)
  PROVE  \E t : /\ t[0] = 0 /\ t[k] \in Nat
                /\ \A i \in 1 .. k : t[i - 1] \in Nat /\ t[i] = step[<<i, t[i - 1]>>]
<1> DEFINE V == Nat
           zero == 0
<1> HIDE DEF V, zero
<1>1. RecursionData(k, V, zero, step)
  BY DEF V, zero
<1>2. PICK t \in [0 .. k -> V] :
        \A i \in 0 .. k : t[i] = IF i = 0 THEN zero ELSE step[<<i, t[i - 1]>>]
  BY <1>1, RecursionExists
<1>3. k \in Nat
  BY DEF RecursionData
<1>4. t[0] = 0 /\ t[k] \in V
  <2>1. 0 \in 0 .. k /\ k \in 0 .. k
    BY <1>3
  <2>2. QED
    BY <1>2, <2>1 DEF zero
<1>5. ASSUME NEW i \in 1 .. k
      PROVE  t[i - 1] \in Nat /\ t[i] = step[<<i, t[i - 1]>>]
  <2>1. i \in 0 .. k /\ i # 0 /\ i - 1 \in 0 .. k
    BY <1>3
  <2>2. QED
    BY <1>2, <2>1 DEF V
<1>6. QED
  BY <1>4, <1>5 DEF V

(* TotalNumBits of any list is a number of bits. *)
LEMMA TotalIsNat ==
  ASSUME NEW list, NEW k \in Nat, DOMAIN list = 1 .. k,
         \A i \in 1 .. k : list[i].num_bits \in Nat
  PROVE  TotalNumBits(list) \in Nat
<1> DEFINE step == [c \in (1 .. k) \X Nat |-> c[2] + list[c[1]].num_bits]
<1>1. /\ step \in [(1 .. k) \X Nat -> Nat]
      /\ \A i \in 1 .. k, v \in Nat : step[<<i, v>>] = v + list[i].num_bits
  OBVIOUS
<1> HIDE DEF step
<1>2. RecursionData(k, Nat, 0, step)
  BY <1>1 DEF RecursionData
<1>3. \E t : /\ t[0] = 0 /\ t[k] \in Nat
             /\ \A i \in 1 .. k : t[i] = t[i - 1] + list[i].num_bits
  <2>1. PICK t : t[0] = 0 /\ t[k] \in Nat /\ \A i \in 1 .. k : /\ t[i - 1] \in Nat
                                                               /\ t[i] = step[<<i, t[i - 1]>>]
    BY <1>2, NumbersExist
  <2>2. \A i \in 1 .. k : t[i] = t[i - 1] + list[i].num_bits
    BY <1>1, <2>1
  <2>3. QED
    BY <2>1, <2>2
<1>4. PICK t : /\ t[0] = 0 /\ t[k] \in Nat
               /\ \A i \in 1 .. k : t[i] = t[i - 1] + list[i].num_bits
  BY <1>3
<1>5. AddsUp(t, list, k)
  BY <1>4 DEF AddsUp
<1>6. QED
  BY <1>4, <1>5, TotalIs

-------------------------------------------------------------------------------
(* One level *)

(* A level has the words for its bits, and no 1 bit behind its last bit. *)
LevelOK(lvl) ==
  /\ lvl.num_bits \in Nat
  /\ \A i \in 1 .. NumWords(lvl.num_bits) :
       lvl.words[i] \in SUBSET Word
         /\ \A o \in lvl.words[i] : (i - 1) * WordSize + o < lvl.num_bits

(* The positions of the 1 bits of a level. *)
LevelBits(lvl) ==
  {q \in 0 .. lvl.num_bits - 1 : q % WordSize \in lvl.words[(q \div WordSize) + 1]}

(* The words of a level as they are appended. *)
LEMMA LevelPieces ==
  ASSUME NEW lvl, LevelOK(lvl)
  PROVE  /\ NumWords(lvl.num_bits) \in Nat
         /\ WordsOfLevel(lvl) \in Seq(Pieces)
         /\ Len(WordsOfLevel(lvl)) = NumWords(lvl.num_bits)
         /\ \A i \in 1 .. NumWords(lvl.num_bits) :
              /\ (i - 1) * WordSize \in Nat /\ (i - 1) * WordSize < lvl.num_bits
              /\ WordsOfLevel(lvl)[i] \in Pieces
              /\ WordsOfLevel(lvl)[i].word = lvl.words[i]
              /\ WordsOfLevel(lvl)[i].used =
                   IF i * WordSize < lvl.num_bits THEN WordSize
                   ELSE lvl.num_bits - (i - 1) * WordSize
              /\ \A o \in lvl.words[i] : o < WordsOfLevel(lvl)[i].used
<1> DEFINE nb == lvl.num_bits
           k == NumWords(nb)
<1>1. /\ WordSize \in Nat \ {0} /\ nb \in Nat /\ k \in Nat
      /\ nb <= k * WordSize /\ k * WordSize < nb + WordSize
  BY BitvectorAssumption, NumWordsBounds DEF LevelOK
<1>2. ASSUME NEW i \in 1 .. k
      PROVE  /\ (i - 1) * WordSize \in Nat /\ (i - 1) * WordSize < nb
             /\ i * WordSize = (i - 1) * WordSize + WordSize
  <2>1. i - 1 \in Nat /\ i \in Int /\ i <= k
    BY <1>1
  <2>2. (i - 1) * WordSize \in Nat /\ i * WordSize = (i - 1) * WordSize + WordSize
    BY <1>1, <2>1
  <2>3. i * WordSize <= k * WordSize
    BY <1>1, <2>1, TimesMonotone
  <2>4. k * WordSize \in Int
    BY <1>1
  <2>5. QED
    BY <1>1, <2>2, <2>3, <2>4
<1> HIDE DEF k, nb
<1>3. ASSUME NEW i \in 1 .. k
      PROVE  Min({WordSize, nb - (i - 1) * WordSize})
               = IF i * WordSize < nb THEN WordSize ELSE nb - (i - 1) * WordSize
  <2> DEFINE x == nb - (i - 1) * WordSize
  <2>1. x \in Int /\ (i * WordSize < nb <=> WordSize < x)
    BY <1>1, <1>2
  <2> HIDE DEF x
  <2>2. CASE WordSize < x
    <3>1. Min({WordSize, x}) = WordSize
      BY <1>1, <2>1, <2>2, MinIs
    <3>2. QED
      BY <2>1, <2>2, <3>1 DEF x
  <2>3. CASE ~(WordSize < x)
    <3>1. x <= WordSize /\ {WordSize, x} \in SUBSET Int
      BY <1>1, <2>1, <2>3
    <3>2. Min({WordSize, x}) = x
      BY <3>1, MinIs
    <3>3. QED
      BY <2>1, <2>3, <3>2 DEF x
  <2>4. QED
    BY <2>2, <2>3
<1> DEFINE ws == WordsOfLevel(lvl)
<1>4. ws = [i \in 1 .. k |-> [word |-> lvl.words[i],
                             used |-> Min({WordSize, nb - (i - 1) * WordSize})]]
  BY DEF WordsOfLevel, k, nb
<1> HIDE DEF ws
<1>5. ASSUME NEW i \in 1 .. k
      PROVE  /\ ws[i] \in Pieces
             /\ ws[i].word = lvl.words[i]
             /\ ws[i].used = IF i * WordSize < nb THEN WordSize ELSE nb - (i - 1) * WordSize
             /\ \A o \in lvl.words[i] : o < ws[i].used
  <2> DEFINE u == IF i * WordSize < nb THEN WordSize ELSE nb - (i - 1) * WordSize
  <2>1. ws[i] = [word |-> lvl.words[i], used |-> u]
    BY <1>3, <1>4
  <2>2. u \in 1 .. WordSize
    BY <1>1, <1>2
  <2>3. lvl.words[i] \in SUBSET Word /\ \A o \in lvl.words[i] : (i - 1) * WordSize + o < nb
    BY DEF LevelOK, k, nb
  <2>4. \A o \in lvl.words[i] : o < u
    BY <1>1, <1>2, <2>3 DEF Word
  <2> HIDE DEF u
  <2>5. ws[i] \in Pieces /\ ws[i].word = lvl.words[i] /\ ws[i].used = u
    BY <2>1, <2>2, <2>3 DEF Pieces
  <2>6. QED
    BY <2>4, <2>5 DEF u
<1>6. ws \in Seq(Pieces) /\ Len(ws) = k
  <2>1. ws \in [1 .. k -> Pieces]
    BY <1>4, <1>5
  <2>2. QED
    BY <1>1, <2>1
<1>7. QED
  BY <1>1, <1>2, <1>5, <1>6 DEF ws, k, nb

(* The words of a level are appended from st[at] on. *)
Appended(st, at, lvl) ==
  \A w \in 1 .. NumWords(lvl.num_bits) :
    st[at + w] = AppendWord(st[at + w - 1], WordsOfLevel(lvl)[w])

(* Appending the words of a level appends its bits. *)
LEMMA AppendLevel ==
  ASSUME NEW n \in Nat, NEW lvl, LevelOK(lvl),
         NEW st, NEW at \in Nat, NEW total \in Nat, NEW set,
         Holds(st[at], n, total, set),
         Appended(st, at, lvl), total + lvl.num_bits <= n * WordSize
  PROVE  Holds(st[at + NumWords(lvl.num_bits)], n, total + lvl.num_bits,
               set \cup Moved(total, LevelBits(lvl)))
<1> DEFINE nb == lvl.num_bits
           k == NumWords(nb)
           ws == WordsOfLevel(lvl)
           size(w) == IF w * WordSize < nb THEN w * WordSize ELSE nb
           part(w) == {q \in LevelBits(lvl) : q < w * WordSize}
           done(w) == set \cup {total + q : q \in part(w)}
           S == {w \in 0 .. k : Holds(st[at + w], n, total + size(w), done(w))}
<1>1. /\ WordSize \in Nat \ {0} /\ nb \in Nat /\ k \in Nat
      /\ nb <= k * WordSize /\ n * WordSize \in Int
  BY BitvectorAssumption, NumWordsBounds DEF LevelOK
<1>2. \A w \in 1 .. k :
        /\ (w - 1) * WordSize \in Nat /\ (w - 1) * WordSize < nb
        /\ ws[w] \in Pieces
        /\ ws[w].word = lvl.words[w]
        /\ ws[w].used = IF w * WordSize < nb THEN WordSize ELSE nb - (w - 1) * WordSize
        /\ \A o \in lvl.words[w] : o < ws[w].used
  BY LevelPieces
<1>3. \A q \in LevelBits(lvl) : q \in 0 .. nb - 1
  BY DEF LevelBits
<1> HIDE DEF nb, k, ws
<1>4. 0 \in S
  <2>1. 0 * WordSize = 0 /\ size(0) = 0
    BY <1>1
  <2>2. part(0) = {}
    BY <1>1, <1>3, <2>1
  <2>3. done(0) = set
    BY <2>2
  <2>4. at + 0 = at /\ total + size(0) = total
    BY <2>1
  <2> HIDE DEF size, done
  <2>5. Holds(st[at + 0], n, total + size(0), done(0))
    BY <2>3, <2>4
  <2>6. QED
    BY <1>1, <2>5
<1>5. ASSUME NEW w \in 0 .. k - 1, w \in S
      PROVE  w + 1 \in S
  <2> DEFINE v == w + 1
             next == ws[v]
  <2>1. /\ v \in 1 .. k /\ w \in Nat /\ v - 1 = w /\ at + v - 1 = at + w
        /\ w * WordSize \in Nat /\ w * WordSize < nb
        /\ v * WordSize = w * WordSize + WordSize
    <3>1. v \in 1 .. k /\ w \in Nat /\ v - 1 = w /\ at + v - 1 = at + w
      BY <1>1
    <3>2. w * WordSize \in Nat /\ w * WordSize < nb
      BY <1>2, <3>1
    <3>3. v * WordSize = w * WordSize + WordSize
      BY <1>1, <3>1
    <3>4. QED
      BY <3>1, <3>2, <3>3
  <2>2. /\ next \in Pieces /\ next.word = lvl.words[v]
        /\ next.used = IF v * WordSize < nb THEN WordSize ELSE nb - w * WordSize
        /\ \A o \in next.word : o < next.used
    BY <1>2, <2>1
  <2>3. Holds(st[at + w], n, total + w * WordSize, done(w))
    BY <1>5, <2>1
  <2>4. st[at + v] = AppendWord(st[at + w], next)
    BY <2>1 DEF Appended, k, nb, ws
  <2>5. next.used \in 1 .. WordSize /\ next.word \in SUBSET Word
    BY <2>2 DEF Pieces
  <2> HIDE DEF v, next
  <2>6. /\ w * WordSize + next.used = size(v)
        /\ total + w * WordSize + next.used <= n * WordSize
    BY <1>1, <2>1, <2>2 DEF nb
  <2>7. Holds(st[at + v], n, total + w * WordSize + next.used,
              done(w) \cup {total + w * WordSize + o : o \in next.word})
    <3> DEFINE s == st[at + w]
               t == total + w * WordSize
               d == done(w)
    <3>1. /\ Holds(s, n, t, d)
          /\ Fits(next)
          /\ t + next.used <= n * WordSize
          /\ st[at + v] = AppendWord(s, next)
      BY <2>2, <2>3, <2>4, <2>6 DEF Fits
    <3> HIDE DEF s, t, d
    <3>2. Holds(AppendWord(s, next), n, t + next.used, d \cup Moved(t, next.word))
      BY <3>1, AppendStep
    <3>3. QED
      BY <3>1, <3>2 DEF t, d, Moved
  <2>8. done(w) \cup {total + w * WordSize + o : o \in next.word} = done(v)
    <3>1. ASSUME NEW o \in next.word
          PROVE  w * WordSize + o \in part(v)
      <4>1. o \in Word /\ o \in 0 .. WordSize - 1
        BY <2>5 DEF Word
      <4>2. (w * WordSize + o) \div WordSize = w /\ (w * WordSize + o) % WordSize = o
        BY <2>1, <4>1, Positioning
      <4>3. w * WordSize + o \in 0 .. nb - 1
        <5>1. o < next.used
          BY <2>2
        <5>2. QED
          BY <1>1, <2>1, <2>2, <2>5, <4>1, <5>1
      <4>4. o \in lvl.words[w + 1]
        BY <2>2 DEF v
      <4>5. w * WordSize + o \in LevelBits(lvl)
        BY <4>2, <4>3, <4>4 DEF LevelBits, nb
      <4>6. w * WordSize + o < v * WordSize
        BY <1>1, <2>1, <4>1
      <4>7. QED
        BY <4>5, <4>6
    <3>2. ASSUME NEW q \in part(v), q \notin part(w)
          PROVE  \E o \in next.word : q = w * WordSize + o
      <4>1. q \in LevelBits(lvl) /\ q \in Int /\ q < v * WordSize /\ w * WordSize <= q
        BY <1>1, <1>3, <2>1, <3>2
      <4>2. w <= q \div WordSize /\ q \div WordSize < w + 1 /\ q \div WordSize \in Int
        <5>1. w \in Int /\ v \in Int /\ v = w + 1
          BY <2>1 DEF v
        <5>2. w <= q \div WordSize
          BY <1>1, <4>1, <5>1, DivBounds
        <5>3. q \div WordSize < v
          BY <1>1, <4>1, <5>1, DivBounds
        <5>4. q \div WordSize \in Int
          BY <1>1, <4>1, DivMod
        <5>5. QED
          BY <5>1, <5>2, <5>3, <5>4
      <4>3. q \div WordSize = w
        BY <2>1, <4>2
      <4>4. q = w * WordSize + (q % WordSize)
        BY <4>1, <4>3, PositionOf
      <4>5. q % WordSize \in lvl.words[w + 1]
        BY <4>1, <4>3 DEF LevelBits
      <4>6. QED
        BY <2>2, <4>4, <4>5 DEF v
    <3>3. part(w) \subseteq part(v)
      BY <1>1, <1>3, <2>1
    <3>4. \A q \in part(v) : q \in Int
      BY <1>3
    <3>5. \A o \in next.word : total + w * WordSize + o = total + (w * WordSize + o)
      BY <1>1, <2>1, <2>5 DEF Word
    <3> HIDE DEF part
    <3>6. {total + q : q \in part(v)}
            = {total + q : q \in part(w)} \cup {total + w * WordSize + o : o \in next.word}
      BY <3>1, <3>2, <3>3, <3>5
    <3>7. QED
      BY <3>6
  <2>9. total + w * WordSize + next.used = total + size(v)
    BY <1>1, <2>1, <2>5, <2>6
  <2>10. Holds(st[at + v], n, total + size(v), done(v))
    BY <2>7, <2>8, <2>9
  <2>11. v \in 0 .. k
    BY <1>1, <2>1
  <2>12. QED
    BY <2>10, <2>11 DEF v
<1>6. k \in S
  <2> HIDE DEF S
  <2>1. \A w \in 0 .. k : w \in S
    BY <1>1, <1>4, <1>5, UpToInduct
  <2>2. QED
    BY <1>1, <2>1
<1>7. size(k) = nb
  BY <1>1
<1>8. part(k) = LevelBits(lvl)
  <2>1. \A q \in LevelBits(lvl) : q < k * WordSize
    BY <1>1, <1>3
  <2>2. QED
    BY <2>1
<1>9. Holds(st[at + k], n, total + nb, set \cup {total + q : q \in LevelBits(lvl)})
  BY <1>6, <1>7, <1>8
<1>10. QED
  BY <1>9 DEF k, nb, Moved

-------------------------------------------------------------------------------
(* The pieces of all levels *)

(* s has the elements of each sequence where the sequence starts. *)
Placed(s, f, seqs, n) ==
  \A i \in 1 .. n :
    /\ Len(f[i - 1]) \in Nat
    /\ Len(f[i]) = Len(f[i - 1]) + Len(seqs[i])
    /\ \A w \in 1 .. Len(seqs[i]) :
         Len(f[i - 1]) + w \in 1 .. Len(s) /\ s[Len(f[i - 1]) + w] = seqs[i][w]

(* Where the elements of each of the sequences end up. *)
LEMMA FlattenElements ==
  ASSUME NEW X, NEW n \in Nat, NEW seqs, NEW f, FlatPrefixes(f, seqs, n, X)
  PROVE  f[n] \in Seq(X) /\ Placed(f[n], f, seqs, n)
<1> DEFINE at(i) == Len(f[i - 1])
           S == {m \in 0 .. n : \A i \in 1 .. m : \A w \in 1 .. Len(seqs[i]) :
                                   at(i) + w \in 1 .. Len(f[m]) /\ f[m][at(i) + w] = seqs[i][w]}
<1>1. ASSUME NEW i \in 1 .. n
      PROVE  /\ f[i - 1] \in Seq(X) /\ seqs[i] \in Seq(X) /\ f[i] \in Seq(X)
             /\ f[i] = f[i - 1] \o seqs[i]
  <2>1. i - 1 \in 0 .. n /\ i \in 0 .. n
    OBVIOUS
  <2>2. QED
    BY <2>1 DEF FlatPrefixes
<1>2. ASSUME NEW i \in 1 .. n
      PROVE  /\ at(i) \in Nat /\ Len(seqs[i]) \in Nat
             /\ Len(f[i]) = at(i) + Len(seqs[i])
             /\ \A w \in 1 .. at(i) : f[i][w] = f[i - 1][w]
             /\ \A w \in 1 .. Len(seqs[i]) : f[i][at(i) + w] = seqs[i][w]
  <2> DEFINE s == f[i - 1]
             r == seqs[i]
  <2>1. s \in Seq(X) /\ r \in Seq(X) /\ f[i] = s \o r
    BY <1>1
  <2> HIDE DEF s, r
  <2>2. /\ Len(s) \in Nat /\ Len(r) \in Nat
        /\ Len(s \o r) = Len(s) + Len(r)
        /\ \A w \in 1 .. Len(s) : (s \o r)[w] = s[w]
        /\ \A w \in 1 .. Len(r) : (s \o r)[Len(s) + w] = r[w]
    BY <2>1
  <2>3. QED
    BY <2>1, <2>2 DEF s, r
<1>3. 0 \in S
  OBVIOUS
<1>4. ASSUME NEW m \in 0 .. n - 1, m \in S
      PROVE  m + 1 \in S
  <2> DEFINE k == m + 1
  <2>1. k \in 1 .. n /\ k - 1 = m /\ m \in Nat
    OBVIOUS
  <2>2. at(k) = Len(f[m]) /\ \A w \in 1 .. Len(f[m]) : f[k][w] = f[m][w]
    <3>1. \A w \in 1 .. at(k) : f[k][w] = f[k - 1][w]
      BY <1>2, <2>1
    <3>2. at(k) = Len(f[m])
      BY <2>1
    <3> HIDE DEF at, k
    <3>3. QED
      BY <2>1, <3>1, <3>2
  <2>3. Len(f[m]) \in Nat /\ Len(f[k]) \in Nat /\ Len(f[m]) <= Len(f[k])
    <3>1. /\ at(k) \in Nat /\ Len(seqs[k]) \in Nat
          /\ Len(f[k]) = at(k) + Len(seqs[k])
      BY <1>2, <2>1
    <3>2. at(k) = Len(f[m])
      BY <2>1
    <3> DEFINE a == at(k)
               b == Len(f[k])
               c == Len(seqs[k])
    <3>3. a \in Nat /\ c \in Nat /\ b = a + c
      BY <3>1
    <3>4. a = Len(f[m])
      BY <3>2
    <3> HIDE DEF a, b, c, k
    <3>5. b \in Nat /\ a <= b
      BY <3>3
    <3>6. QED
      BY <3>3, <3>4, <3>5 DEF b
  <2>4. \A i \in 1 .. m : i \in 1 .. n
    BY <2>1
  <2>5. \A i \in 1 .. k : i \in 1 .. m \/ i = k
    BY <2>1
  <2> HIDE DEF k
  <2>6. ASSUME NEW i \in 1 .. k, NEW w \in 1 .. Len(seqs[i])
        PROVE  at(i) + w \in 1 .. Len(f[k]) /\ f[k][at(i) + w] = seqs[i][w]
    <3>1. CASE i \in 1 .. m
      <4>1. at(i) + w \in 1 .. Len(f[m]) /\ f[m][at(i) + w] = seqs[i][w]
        BY <1>4, <3>1
      <4> HIDE DEF at
      <4>2. f[k][at(i) + w] = f[m][at(i) + w]
        BY <2>2, <4>1
      <4>3. at(i) + w \in 1 .. Len(f[k])
        <5> DEFINE x == at(i) + w
                   a == Len(f[m])
                   b == Len(f[k])
        <5>1. x \in 1 .. a
          BY <4>1
        <5>1a. a \in Nat /\ b \in Nat /\ a <= b
          BY <2>3
        <5> HIDE DEF x, a, b
        <5>2. x \in 1 .. b
          BY <5>1, <5>1a
        <5>3. QED
          BY <5>2 DEF x, b
      <4>4. QED
        BY <4>1, <4>2, <4>3
    <3>2. CASE i = k
      <4>1. /\ at(k) \in Nat /\ Len(seqs[k]) \in Nat
            /\ Len(f[k]) = at(k) + Len(seqs[k])
            /\ \A v \in 1 .. Len(seqs[k]) : f[k][at(k) + v] = seqs[k][v]
        BY <1>2, <2>1
      <4> HIDE DEF at
      <4>2. w \in 1 .. Len(seqs[k])
        BY <3>2
      <4>3. QED
        BY <3>2, <4>1, <4>2
    <3>3. QED
      BY <2>5, <3>1, <3>2
  <2>7. k \in 0 .. n
    BY <2>1
  <2>8. QED
    BY <2>6, <2>7 DEF k
<1>5. n \in S
  <2> HIDE DEF S
  <2>1. \A m \in 0 .. n : m \in S
    BY <1>3, <1>4, UpToInduct
  <2>2. QED
    BY <2>1
<1>6. f[n] \in Seq(X)
  <2>1. n \in 0 .. n
    OBVIOUS
  <2>2. QED
    BY <2>1 DEF FlatPrefixes
<1>7. QED
  BY <1>2, <1>5, <1>6 DEF Placed

-------------------------------------------------------------------------------
(* All levels *)

(* The levels a bit vector is built from. *)
ListOK(list) ==
  /\ Len(list) \in Nat
  /\ DOMAIN list = 1 .. Len(list)
  /\ \A i \in 1 .. Len(list) : LevelOK(list[i])

(* starts[i] is the number of bits of the first i levels. *)
Starts(starts, list) ==
  /\ starts[0] = 0
  /\ \A i \in 0 .. Len(list) : starts[i] \in Nat
  /\ \A i \in 1 .. Len(list) : starts[i] = starts[i - 1] + list[i].num_bits

(* The bits of the first m levels, one level behind the other. *)
BitsOfLevels(starts, list, m) ==
  UNION {Moved(starts[i - 1], LevelBits(list[i])) : i \in 1 .. m}

(* The levels start somewhere. *)
LEMMA StartsExist ==
  ASSUME NEW list, ListOK(list)
  PROVE  \E starts : Starts(starts, list)
<1> DEFINE k == Len(list)
           step == [c \in (1 .. k) \X Nat |-> c[2] + list[c[1]].num_bits]
<1>1. k \in Nat /\ \A i \in 1 .. k : list[i].num_bits \in Nat
  BY DEF ListOK, LevelOK
<1> HIDE DEF k
<1>2. step \in [(1 .. k) \X Nat -> Nat] /\ \A i \in 1 .. k, v \in Nat : step[<<i, v>>] = v + list[i].num_bits
  BY <1>1
<1> HIDE DEF step
<1>3. RecursionData(k, Nat, 0, step)
  BY <1>1, <1>2 DEF RecursionData
<1>4. PICK t \in [0 .. k -> Nat] :
        \A i \in 0 .. k : t[i] = IF i = 0 THEN 0 ELSE step[<<i, t[i - 1]>>]
  BY <1>3, RecursionExists
<1>5. ASSUME NEW i \in 1 .. k
      PROVE  t[i] = t[i - 1] + list[i].num_bits
  <2>1. i - 1 \in 0 .. k /\ i \in 0 .. k /\ i # 0
    BY <1>1
  <2>2. QED
    BY <1>2, <1>4, <2>1
<1>6. 0 \in 0 .. k
  BY <1>1
<1>7. t[0] = 0
  BY <1>4, <1>6
<1>8. Starts(t, list)
  BY <1>4, <1>5, <1>7 DEF Starts, k
<1>9. QED
  BY <1>8

(* Later levels start no earlier. *)
LEMMA StartsGrow ==
  ASSUME NEW list, ListOK(list), NEW starts, Starts(starts, list),
         NEW m \in 0 .. Len(list), NEW i \in 0 .. m
  PROVE  starts[i] <= starts[m]
<1> DEFINE k == Len(list)
           S == {j \in 0 .. k : \A h \in 0 .. j : starts[h] <= starts[j]}
<1>1. /\ k \in Nat /\ \A j \in 1 .. k : list[j].num_bits \in Nat
      /\ \A j \in 0 .. k : starts[j] \in Nat
      /\ \A j \in 1 .. k : starts[j] = starts[j - 1] + list[j].num_bits
  BY DEF ListOK, LevelOK, Starts
<1> HIDE DEF k
<1>2. 0 \in S
  BY <1>1
<1>3. ASSUME NEW j \in 0 .. k - 1, j \in S
      PROVE  j + 1 \in S
  <2>1. j + 1 \in 1 .. k /\ (j + 1) - 1 = j /\ j \in 0 .. k /\ j + 1 \in 0 .. k
    BY <1>1
  <2>2. starts[j] <= starts[j + 1]
    <3> DEFINE h == j + 1
    <3>1. h \in 1 .. k /\ h - 1 = j
      BY <2>1
    <3> HIDE DEF h
    <3>2. starts[h] = starts[j] + list[h].num_bits /\ list[h].num_bits \in Nat
      BY <1>1, <3>1
    <3>3. starts[j] \in Nat
      BY <1>1, <2>1
    <3>4. starts[j] <= starts[h]
      BY <3>2, <3>3
    <3>5. QED
      BY <3>4 DEF h
  <2>3. ASSUME NEW h \in 0 .. j + 1
        PROVE  starts[h] <= starts[j + 1]
    <3>1. CASE h \in 0 .. j
      <4>1. h \in 0 .. k /\ starts[h] <= starts[j]
        BY <1>1, <1>3, <3>1
      <4>2. starts[h] \in Nat /\ starts[j] \in Nat /\ starts[j + 1] \in Nat
        BY <1>1, <2>1, <4>1
      <4>3. QED
        BY <2>2, <4>1, <4>2
    <3>2. CASE h = j + 1
      BY <1>1, <2>1, <3>2
    <3>3. QED
      BY <2>1, <3>1, <3>2
  <2>4. QED
    BY <2>1, <2>3
<1>4. m \in S
  <2> HIDE DEF S
  <2>1. \A j \in 0 .. k : j \in S
    BY <1>1, <1>2, <1>3, UpToInduct
  <2>2. QED
    BY <2>1 DEF k
<1>5. QED
  BY <1>4

(* The bits of the levels are positions of the whole. *)
LEMMA LevelsInside ==
  ASSUME NEW list, ListOK(list), NEW starts, Starts(starts, list),
         NEW p \in BitsOfLevels(starts, list, Len(list))
  PROVE  p \in 0 .. starts[Len(list)] - 1
<1> DEFINE k == Len(list)
<1>1. PICK i \in 1 .. k : \E q \in LevelBits(list[i]) : p = starts[i - 1] + q
  BY DEF BitsOfLevels, Moved
<1>2. PICK q \in LevelBits(list[i]) : p = starts[i - 1] + q
  BY <1>1
<1>3. k \in Nat /\ i - 1 \in 0 .. k /\ i \in 0 .. k
  BY DEF ListOK
<1>4. list[i].num_bits \in Nat /\ q \in 0 .. list[i].num_bits - 1
  BY DEF ListOK, LevelOK, LevelBits
<1>5. /\ starts[i - 1] \in Nat /\ starts[i] \in Nat /\ starts[k] \in Nat
      /\ starts[i] = starts[i - 1] + list[i].num_bits
  BY <1>3 DEF Starts
<1>6. starts[i] <= starts[k]
  <2>1. k \in 0 .. k /\ i \in 0 .. k
    BY <1>3
  <2>2. QED
    BY <2>1, StartsGrow
<1> DEFINE a == starts[i - 1]
           b == starts[i]
           c == starts[k]
           nb == list[i].num_bits
<1>7. a \in Nat /\ b \in Nat /\ c \in Nat /\ b = a + nb /\ b <= c /\ p = a + q
  BY <1>2, <1>5, <1>6
<1>8. nb \in Nat /\ q \in 0 .. nb - 1
  BY <1>4
<1> HIDE DEF a, b, c, nb
<1>9. p \in 0 .. c - 1
  BY <1>7, <1>8
<1>10. QED
  BY <1>9 DEF c, k

(* concatenateBitvectors, for all words of all levels. *)
LEMMA ConcatenationHolds ==
  ASSUME NEW list, ListOK(list), NEW starts, Starts(starts, list)
  PROVE  LET n == NumWords(starts[Len(list)])
             zero == [bits |-> [i \in 1 .. n |-> {}], word_id |-> 0, bit_shift |-> 0]
             words == FlattenSeq([i \in 1 .. Len(list) |-> WordsOfLevel(list[i])])
         IN  Holds(FoldLeft(AppendWord, zero, words), n, starts[Len(list)],
                   BitsOfLevels(starts, list, Len(list)))
<1> DEFINE k == Len(list)
           total == starts[k]
           n == NumWords(total)
           zero == [bits |-> [i \in 1 .. n |-> {}], word_id |-> 0, bit_shift |-> 0]
           seqs == [i \in 1 .. k |-> WordsOfLevel(list[i])]
           words == FlattenSeq(seqs)
           Bits(m) == BitsOfLevels(starts, list, m)
<1>1. /\ WordSize \in Nat \ {0} /\ k \in Nat
      /\ \A i \in 1 .. k : LevelOK(list[i]) /\ list[i].num_bits \in Nat
  BY BitvectorAssumption DEF ListOK, LevelOK
<1>2. /\ starts[0] = 0 /\ \A i \in 0 .. k : starts[i] \in Nat
      /\ \A i \in 1 .. k : starts[i] = starts[i - 1] + list[i].num_bits
  BY DEF Starts
<1>3. total \in Nat /\ n \in Nat /\ total <= n * WordSize /\ n * WordSize \in Nat
  <2>1. total \in Nat
    BY <1>1, <1>2
  <2>2. n \in Nat /\ total <= n * WordSize
    BY <2>1, NumWordsBounds
  <2> HIDE DEF n
  <2>3. QED
    BY <1>1, <2>1, <2>2
<1>4. \A i \in 1 .. k : seqs[i] = WordsOfLevel(list[i]) /\ seqs[i] \in Seq(Pieces)
  BY <1>1, LevelPieces
<1>5. seqs \in Seq(Seq(Pieces)) /\ Len(seqs) = k
  <2> DEFINE X == Seq(Pieces)
  <2> HIDE DEF X
  <2>1. \A i \in 1 .. k : WordsOfLevel(list[i]) \in X
    BY <1>4 DEF X
  <2> HIDE DEF k
  <2>2. seqs \in Seq(X) /\ Len(seqs) = k
    BY <1>1, <2>1
  <2>3. QED
    BY <2>2 DEF X
<1> HIDE DEF k, total, n, seqs
<1>6. PICK f : FlatPrefixes(f, seqs, k, Pieces) /\ words = f[k]
  BY <1>5, FlattenIs
<1>7. /\ f[k] \in Seq(Pieces)
      /\ \A i \in 1 .. k :
           /\ Len(f[i - 1]) \in Nat
           /\ Len(f[i]) = Len(f[i - 1]) + Len(seqs[i])
           /\ \A w \in 1 .. Len(seqs[i]) :
                Len(f[i - 1]) + w \in 1 .. Len(f[k]) /\ f[k][Len(f[i - 1]) + w] = seqs[i][w]
  <2>1. f[k] \in Seq(Pieces) /\ Placed(f[k], f, seqs, k)
    BY <1>1, <1>6, FlattenElements
  <2>2. QED
    BY <2>1 DEF Placed
<1>8. zero \in States(n) /\ Holds(zero, n, 0, {})
  <2>1. 0 \in Word /\ 0 * WordSize + 0 = 0
    BY <1>1 DEF Word
  <2>2. zero \in States(n)
    BY <2>1 DEF States
  <2>3. zero.word_id = 0 /\ zero.bit_shift = 0 /\ \A i \in 1 .. n : zero.bits[i] = {}
    OBVIOUS
  <2> HIDE DEF zero
  <2>4. QED
    BY <2>1, <2>2, <2>3 DEF Holds
<1> HIDE DEF zero, words
<1>9. PICK st : /\ st[0] = zero
                /\ \A j \in 1 .. Len(words) : st[j] = AppendWord(st[j - 1], words[j])
                /\ FoldLeft(AppendWord, zero, words) = st[Len(words)]
  <2>1. words \in Seq(Pieces)
    BY <1>6, <1>7
  <2>2. QED
    BY <1>3, <1>8, <2>1, AppendSteps
<1> DEFINE S == {m \in 0 .. k : Holds(st[Len(f[m])], n, starts[m], Bits(m))}
<1>10. 0 \in S
  <2>1. f[0] = << >> /\ Len(<< >>) = 0
    BY <1>6 DEF FlatPrefixes
  <2>2. Bits(0) = {}
    BY DEF BitsOfLevels
  <2> HIDE DEF Bits
  <2>3. Holds(st[Len(f[0])], n, starts[0], Bits(0))
    BY <1>2, <1>8, <1>9, <2>1, <2>2
  <2>4. QED
    BY <1>1, <2>3
<1>11. ASSUME NEW m \in 0 .. k - 1, m \in S
       PROVE  m + 1 \in S
  <2> DEFINE i == m + 1
             lvl == list[i]
             at == Len(f[m])
  <2>1. i \in 1 .. k /\ i - 1 = m /\ m \in 0 .. k /\ i \in 0 .. k
    BY <1>1
  <2>2. LevelOK(lvl) /\ lvl.num_bits \in Nat
    BY <1>1, <2>1
  <2>3. /\ starts[m] \in Nat /\ starts[i] \in Nat /\ starts[i] = starts[m] + lvl.num_bits
        /\ starts[i] <= total
    <3>1. /\ starts[m] \in Nat /\ starts[i] \in Nat /\ starts[i] = starts[i - 1] + lvl.num_bits
      BY <1>2, <2>1
    <3>2. k \in 0 .. k
      BY <1>1
    <3> HIDE DEF i
    <3>3. starts[i] <= total
      BY <2>1, <3>2, StartsGrow DEF total, k
    <3>4. QED
      BY <2>1, <3>1, <3>3
  <2>4. /\ Len(WordsOfLevel(lvl)) = NumWords(lvl.num_bits) /\ NumWords(lvl.num_bits) \in Nat
        /\ seqs[i] = WordsOfLevel(lvl)
    BY <1>4, <2>1, <2>2, LevelPieces
  <2>5. /\ at \in Nat
        /\ Len(f[i]) = at + NumWords(lvl.num_bits)
        /\ \A w \in 1 .. NumWords(lvl.num_bits) :
             at + w \in 1 .. Len(words) /\ words[at + w] = WordsOfLevel(lvl)[w]
    <3>1. f[i - 1] = f[m]
      BY <2>1
    <3> HIDE DEF i, lvl
    <3>2. QED
      BY <1>6, <1>7, <2>1, <2>4, <3>1
  <2>6. Appended(st, at, lvl)
    <3> HIDE DEF at, lvl
    <3>1. QED
      BY <1>9, <2>5 DEF Appended
  <2>7. Holds(st[at], n, starts[m], Bits(m))
    BY <1>11
  <2>8. starts[m] + lvl.num_bits <= n * WordSize
    BY <1>3, <2>3
  <2>9. Holds(st[at + NumWords(lvl.num_bits)], n, starts[m] + lvl.num_bits,
              Bits(m) \cup Moved(starts[m], LevelBits(lvl)))
    <3> DEFINE s == starts[m]
               b == Bits(m)
    <3>1. /\ n \in Nat /\ LevelOK(lvl) /\ at \in Nat /\ s \in Nat
          /\ Holds(st[at], n, s, b) /\ Appended(st, at, lvl)
          /\ s + lvl.num_bits <= n * WordSize
      BY <1>3, <2>2, <2>3, <2>5, <2>6, <2>7, <2>8
    <3> HIDE DEF at, lvl, s, b
    <3>2. Holds(st[at + NumWords(lvl.num_bits)], n, s + lvl.num_bits,
                b \cup Moved(s, LevelBits(lvl)))
      BY <3>1, AppendLevel
    <3>3. QED
      BY <3>2 DEF s, b
  <2>10. Bits(m) \cup Moved(starts[m], LevelBits(lvl)) = Bits(i)
    <3>1. 1 .. i = (1 .. m) \cup {i}
      BY <1>1
    <3> DEFINE part(h) == Moved(starts[h - 1], LevelBits(list[h]))
    <3>2. part(i) = Moved(starts[m], LevelBits(lvl))
      BY <2>1
    <3>3. Bits(m) = UNION {part(h) : h \in 1 .. m} /\ Bits(i) = UNION {part(h) : h \in 1 .. i}
      BY DEF BitsOfLevels
    <3> HIDE DEF part, i, Bits
    <3>4. QED
      BY <3>1, <3>2, <3>3
  <2>11. Holds(st[Len(f[i])], n, starts[i], Bits(i))
    BY <2>3, <2>5, <2>9, <2>10
  <2>12. QED
    BY <2>1, <2>11 DEF i
<1>12. k \in S
  <2> HIDE DEF S
  <2>1. \A m \in 0 .. k : m \in S
    BY <1>1, <1>10, <1>11, UpToInduct
  <2>2. QED
    BY <1>1, <2>1
<1>13. Holds(FoldLeft(AppendWord, zero, words), n, total, Bits(k))
  BY <1>6, <1>9, <1>12 DEF total
<1>14. QED
  BY <1>13 DEF zero, words, seqs, n, total, k

-------------------------------------------------------------------------------
(* The concatenation *)

(* The lists the builder hands over are lists of such levels. *)
LEMMA ListsOK ==
  ASSUME NEW list \in Seq(Levels)
  PROVE  ListOK(list)
<1> DEFINE L == Levels
<1>1. /\ Len(list) \in Nat /\ DOMAIN list = 1 .. Len(list)
      /\ \A i \in 1 .. Len(list) : list[i] \in L
  <2> HIDE DEF L
  <2>1. list \in Seq(L)
    BY DEF L
  <2>2. QED
    BY <2>1
<1>2. ASSUME NEW lvl \in Levels
      PROVE  LevelOK(lvl)
  <2> DEFINE W == SUBSET (0 .. WordSize - 1)
             k == NumWords(lvl.num_bits)
  <2>1. /\ lvl.num_bits \in Nat /\ lvl.words \in Seq(W) /\ k <= Len(lvl.words)
        /\ \A i \in 1 .. k : \A o \in lvl.words[i] : (i - 1) * WordSize + o < lvl.num_bits
    BY DEF Levels
  <2>2. k \in Nat
    BY <2>1, NumWordsBounds
  <2> HIDE DEF W, k
  <2>3. \A i \in 1 .. k : lvl.words[i] \in W
    BY <2>1, <2>2
  <2>4. QED
    BY <2>1, <2>3 DEF W, k, LevelOK, Word
<1>3. QED
  BY <1>1, <1>2 DEF ListOK

(* TotalNumBits of the first i levels is where the next one starts. *)
LEMMA StartsTotal ==
  ASSUME NEW list \in Seq(Levels), NEW starts, Starts(starts, list),
         NEW i \in 0 .. Len(list)
  PROVE  /\ TotalNumBits(SubSeq(list, 1, i)) = starts[i]
         /\ TotalNumBits(list) = starts[Len(list)]
<1> DEFINE L == Levels
           k == Len(list)
<1>1. k \in Nat /\ \A j \in 1 .. k : list[j].num_bits \in Nat
  BY ListsOK DEF ListOK, LevelOK
<1>2. starts[0] = 0 /\ \A j \in 1 .. k : starts[j] = starts[j - 1] + list[j].num_bits
  BY DEF Starts
<1>3. list \in Seq(L)
  BY DEF L
<1> HIDE DEF L
<1>4. TotalNumBits(list) = starts[k]
  <2>1. DOMAIN list = 1 .. k
    BY <1>3
  <2> HIDE DEF k
  <2>2. QED
    <3>1. AddsUp(starts, list, k)
      BY <1>1, <1>2, <2>1 DEF AddsUp
    <3>2. QED
      BY <3>1, TotalIs
<1>5. TotalNumBits(SubSeq(list, 1, i)) = starts[i]
  <2> DEFINE s == SubSeq(list, 1, i)
  <2>1. DOMAIN s = 1 .. i /\ \A j \in 1 .. i : s[j] = list[j]
    BY <1>3
  <2>2. i \in Nat /\ \A j \in 1 .. i : j \in 1 .. k
    BY <1>1
  <2> HIDE DEF s, k
  <2>3. \A j \in 1 .. i : s[j].num_bits \in Nat
    BY <1>1, <2>1, <2>2
  <2>4. \A j \in 1 .. i : starts[j] = starts[j - 1] + s[j].num_bits
    BY <1>2, <2>1, <2>2
  <2>5. TotalNumBits(s) = starts[i]
    <3>1. starts[0] = 0 /\ DOMAIN s = 1 .. i /\ i \in Nat
      BY <1>2, <2>1, <2>2
    <3>2. QED
      <4>1. AddsUp(starts, s, i)
        BY <2>3, <2>4, <3>1 DEF AddsUp
      <4>2. QED
        BY <4>1, TotalIs
  <2>6. QED
    BY <2>5 DEF s
<1>6. QED
  BY <1>4, <1>5

(* The bit vector has the bits of its levels, one level behind the other. *)
LEMMA ConcatenationCorrect ==
  ASSUME NEW list \in Seq(Levels), NEW starts, Starts(starts, list),
         NEW b, NEW behind,
         b.num_bits = MakeBitvector(list, behind).num_bits,
         b.bits = MakeBitvector(list, behind).bits
  PROVE  /\ BitvectorOK(b)
         /\ b.num_bits = starts[Len(list)]
         /\ OneBits(b) = BitsOfLevels(starts, list, Len(list))
<1> DEFINE k == Len(list)
           total == TotalNumBits(list)
           n == NumWords(total)
           zero == [bits |-> [i \in 1 .. n |-> {}], word_id |-> 0, bit_shift |-> 0]
           words == FlattenSeq([i \in 1 .. k |-> WordsOfLevel(list[i])])
           last == FoldLeft(AppendWord, zero, words)
           Bits == BitsOfLevels(starts, list, k)
<1>1. ListOK(list) /\ k \in Nat /\ k \in 0 .. k
  BY ListsOK DEF ListOK
<1>2. total = starts[k] /\ total \in Nat
  BY <1>1, StartsTotal DEF Starts
<1>3. b.num_bits = total /\ b.bits = last.bits
  BY DEF MakeBitvector
<1>4. Holds(last, n, total, Bits)
  BY <1>1, <1>2, ConcatenationHolds
<1> HIDE DEF last, total, Bits, n
<1>5. n = NumWords(b.num_bits) /\ b.num_bits \in Nat /\ n \in Nat
  BY <1>2, <1>3, NumWordsBounds DEF n
<1>6. /\ b.bits \in [1 .. n -> SUBSET Word]
      /\ \A i \in 1 .. n : \A o \in Word : o \in b.bits[i] <=> (i - 1) * WordSize + o \in Bits
  BY <1>3, <1>4 DEF Holds, States
<1>7. \A p \in Bits : p \in 0 .. total - 1
  BY <1>1, <1>2, LevelsInside DEF Bits
<1>8. \A i \in 1 .. n : \A o \in b.bits[i] : (i - 1) * WordSize + o < b.num_bits
  <2> SUFFICES ASSUME NEW i \in 1 .. n, NEW o \in b.bits[i]
               PROVE  (i - 1) * WordSize + o < b.num_bits
    OBVIOUS
  <2>1. o \in Word
    BY <1>6
  <2>2. (i - 1) * WordSize + o \in Bits
    BY <1>6, <2>1
  <2>3. QED
    BY <1>2, <1>3, <1>7, <2>2
<1>9. BitvectorOK(b)
  BY <1>5, <1>6, <1>8 DEF BitvectorOK
<1>10. ASSUME NEW p \in 0 .. total - 1
       PROVE  p \in OneBits(b) <=> p \in Bits
  <2> DEFINE w == p \div WordSize
             o == p % WordSize
  <2>1. w \in 0 .. n - 1 /\ o \in Word /\ p = w * WordSize + o
    <3>1. p \in Int
      BY <1>2
    <3>2. p \div WordSize \in 0 .. NumWords(total) - 1
      BY <1>2, WordInside
    <3>3. QED
      BY <1>3, <1>5, <3>1, <3>2, PositionOf
  <2> HIDE DEF w, o
  <2>2. o \in WordAt(b, w) <=> p \in OneBits(b)
    BY <1>5, <1>9, <2>1, WordHasBits
  <2>3. WordAt(b, w) = b.bits[w + 1] /\ w + 1 \in 1 .. n /\ (w + 1) - 1 = w
    BY <1>5, <1>9, <2>1, WordHasBits
  <2>4. o \in b.bits[w + 1] <=> p \in Bits
    BY <1>6, <2>1, <2>3
  <2>5. QED
    BY <2>2, <2>3, <2>4
<1>11. \A p \in OneBits(b) : p \in 0 .. total - 1
  BY <1>3 DEF OneBits
<1>12. OneBits(b) = Bits
  BY <1>7, <1>10, <1>11
<1>13. QED
  BY <1>2, <1>3, <1>9, <1>12 DEF Bits
-------------------------------------------------------------------------------
(* Counting *)

(* The element the folds over sets go on with. *)
PickOf(s) == CHOOSE x \in s : TRUE

(* A set shifted has as many elements. *)
LEMMA ShiftCount ==
  ASSUME NEW A \in SUBSET Int, IsFiniteSet(A), NEW k \in Int
  PROVE  LET B == {o + k : o \in A}
         IN  IsFiniteSet(B) /\ Cardinality(B) = Cardinality(A)
<1> DEFINE B == {o + k : o \in A}
           f == [o \in A |-> o + k]
<1>1. f \in [A -> B]
  OBVIOUS
<1>2. \A a, c \in A : f[a] = f[c] => a = c
  OBVIOUS
<1>3. \A t \in B : \E o \in A : f[o] = t
  OBVIOUS
<1> HIDE DEF f
<1>4. f \in Bijection(A, B)
  BY <1>1, <1>2, <1>3, Fun_IsBij
<1>5. ExistsBijection(A, B)
  BY <1>4 DEF ExistsBijection
<1>6. QED
  BY <1>5, FS_Bijection

(* Two sets without a common element. *)
LEMMA DisjointCount ==
  ASSUME NEW A, NEW B, IsFiniteSet(A), IsFiniteSet(B), A \cap B = {}
  PROVE  /\ Cardinality(A) \in Nat /\ Cardinality(B) \in Nat
         /\ IsFiniteSet(A \cup B)
         /\ Cardinality(A \cup B) = Cardinality(A) + Cardinality(B)
<1>1. Cardinality(A \cap B) = 0
  BY FS_EmptySet
<1>2. Cardinality(A) \in Nat /\ Cardinality(B) \in Nat
  BY FS_CardinalityType
<1>3. /\ IsFiniteSet(A \cup B)
      /\ Cardinality(A \cup B) = Cardinality(A) + Cardinality(B) - Cardinality(A \cap B)
  BY FS_Union
<1>4. QED
  BY <1>1, <1>2, <1>3

(* All sets of 1 bits are finite. *)
LEMMA BitsFinite ==
  ASSUME NEW b, BitvectorOK(b), NEW s \in SUBSET OneBits(b)
  PROVE  s \in SUBSET Int /\ IsFiniteSet(s) /\ Cardinality(s) \in Nat
<1>1. b.num_bits - 1 \in Int /\ 0 \in Int
  BY DEF BitvectorOK
<1>2. s \in SUBSET (0 .. b.num_bits - 1)
  BY DEF OneBits
<1>3. QED
  BY <1>1, <1>2, BoundedFinite

(* All sets of offsets are finite. *)
LEMMA OffsetsFinite ==
  ASSUME NEW A \in SUBSET Word
  PROVE  A \in SUBSET Int /\ IsFiniteSet(A) /\ Cardinality(A) \in Nat
<1>1. 0 \in Int /\ WordSize - 1 \in Int
  BY BitvectorAssumption
<1>2. A \in SUBSET (0 .. WordSize - 1)
  BY DEF Word
<1>3. QED
  BY <1>1, <1>2, BoundedFinite

(* The 1 bits at some offsets of a word, counted in the word. *)
LEMMA BitsOfWord ==
  ASSUME NEW b, BitvectorOK(b), NEW i \in 0 .. NumWords(b.num_bits) - 1,
         NEW T
  PROVE  LET A == {o \in WordAt(b, i) : o \in T}
         IN  /\ A \in SUBSET Int /\ IsFiniteSet(A)
             /\ Cardinality(A)
                  = Cardinality({p \in OneBits(b) : p \div WordSize = i /\ p % WordSize \in T})
<1> DEFINE A == {o \in WordAt(b, i) : o \in T}
           P == {p \in OneBits(b) : p \div WordSize = i /\ p % WordSize \in T}
<1>1. WordSize \in Nat \ {0} /\ i \in Int /\ i * WordSize \in Int
  BY BitvectorAssumption
<1>2. A \in SUBSET Word
  BY WordHasBits
<1>3. A \in SUBSET Int /\ IsFiniteSet(A)
  BY <1>2, OffsetsFinite
<1>4. P = {o + i * WordSize : o \in A}
  <2>1. ASSUME NEW o \in A PROVE o + i * WordSize \in P
    <3>1. o \in Word /\ o \in WordAt(b, i) /\ o \in T
      BY <1>2
    <3>2. i * WordSize + o \in OneBits(b)
      BY <3>1, WordHasBits
    <3>3. (i * WordSize + o) \div WordSize = i /\ (i * WordSize + o) % WordSize = o
      BY <1>1, <3>1, Positioning
    <3>4. i * WordSize + o = o + i * WordSize
      BY <1>1, <1>3
    <3>5. QED
      BY <3>1, <3>2, <3>3, <3>4
  <2>2. ASSUME NEW p \in P PROVE \E o \in A : p = o + i * WordSize
    <3>1. p \in OneBits(b) /\ p \div WordSize = i /\ p % WordSize \in T
      OBVIOUS
    <3>2. p \in Int /\ p % WordSize \in WordAt(b, i)
      BY <3>1, BitInWord, BitsFinite
    <3>3. p = i * WordSize + (p % WordSize) /\ p % WordSize \in Int
      <4>1. p = (p \div WordSize) * WordSize + (p % WordSize) /\ p % WordSize \in Word
        BY <3>2, PositionOf
      <4>2. QED
        BY <1>1, <3>1, <4>1 DEF Word
    <3>4. p = (p % WordSize) + i * WordSize
      BY <1>1, <3>3
    <3>5. QED
      BY <3>1, <3>2, <3>4
  <2> HIDE DEF A, P
  <2>3. QED
    BY <2>1, <2>2
<1>5. Cardinality(P) = Cardinality(A)
  BY <1>1, <1>3, <1>4, ShiftCount
<1>6. QED
  BY <1>3, <1>5

(* count[j] is the number of the elements of B that belong to j. *)
Counts(S, B, own, count) ==
  /\ IsFiniteSet(S) /\ IsFiniteSet(B)
  /\ \A j \in S : count[j] = Cardinality({p \in B : own[p] = j})

(* The elements of B that belong to some j of S. *)
InWords(B, own, S) == {p \in B : own[p] \in S}

(* The sum of count over the subsets of S, as the folds over sets define it. *)
SumsUp(g, S, count) ==
  g = [s \in SUBSET S |->
         IF s = {} THEN 0 ELSE count[PickOf(s)] + g[s \ {PickOf(s)}]]

(* Summed up word by word, the counts of the words of S are the number of the
   1 bits in them; and the sum is defined. *)
LEMMA SumOfWords ==
  ASSUME NEW S, NEW B, NEW own, NEW count, Counts(S, B, own, count)
  PROVE  /\ \E h : SumsUp(h, S, count)
         /\ \A g : SumsUp(g, S, count) => g[S] = Cardinality(InWords(B, own, S))
<1> USE DEF Counts
<1> DEFINE in(s) == {p \in B : own[p] \in s}
           h == [s \in SUBSET S |-> Cardinality(in(s))]
<1>1. \A s \in SUBSET S : s # {} => PickOf(s) \in s
  BY DEF PickOf
<1>2. h[{}] = 0
  <2>1. in({}) = {}
    OBVIOUS
  <2>2. QED
    BY <2>1, FS_EmptySet
<1>3. ASSUME NEW s \in SUBSET S, NEW x \in s
      PROVE  h[s] = count[x] + h[s \ {x}]
  <2> DEFINE P == {p \in B : own[p] = x}
             R == in(s \ {x})
  <2>1. in(s) = P \cup R /\ P \cap R = {}
    OBVIOUS
  <2>2. IsFiniteSet(P) /\ IsFiniteSet(R)
    BY FS_Subset
  <2>3. Cardinality(in(s)) = Cardinality(P) + Cardinality(R)
    <3> HIDE DEF in, P, R
    <3>1. QED
      BY <2>1, <2>2, DisjointCount
  <2>4. count[x] = Cardinality(P)
    OBVIOUS
  <2>5. h[s] = Cardinality(in(s)) /\ h[s \ {x}] = Cardinality(R)
    OBVIOUS
  <2>6. QED
    BY <2>3, <2>4, <2>5
<1>4. SumsUp(h, S, count)
  <2>1. \A s \in SUBSET S :
          h[s] = IF s = {} THEN 0 ELSE count[PickOf(s)] + h[s \ {PickOf(s)}]
    <3> HIDE DEF h
    <3>1. QED
      BY <1>1, <1>2, <1>3
  <2>2. h = [s \in SUBSET S |-> h[s]]
    OBVIOUS
  <2> HIDE DEF h
  <2>3. QED
    BY <2>1, <2>2 DEF SumsUp
<1>5. ASSUME NEW g, SumsUp(g, S, count)
      PROVE  g[S] = h[S]
  <2> DEFINE P == {s \in SUBSET S : g[s] = h[s]}
  <2>1. \A s \in SUBSET S :
          g[s] = IF s = {} THEN 0 ELSE count[PickOf(s)] + g[s \ {PickOf(s)}]
    BY <1>5 DEF SumsUp
  <2> HIDE DEF h
  <2>2. {} \in P
    BY <1>2, <2>1
  <2>3. ASSUME NEW s \in SUBSET S, s # {}, \A x \in s : s \ {x} \in P
        PROVE  s \in P
    <3>1. PickOf(s) \in s /\ s \ {PickOf(s)} \in P
      BY <1>1, <2>3
    <3>2. g[s] = count[PickOf(s)] + g[s \ {PickOf(s)}]
      BY <2>1, <2>3
    <3>3. h[s] = count[PickOf(s)] + h[s \ {PickOf(s)}]
      BY <1>3, <3>1
    <3>4. QED
      BY <3>1, <3>2, <3>3
  <2> HIDE DEF P
  <2>4. S \in P
    <3>1. \A s \in SUBSET S : s \in P
      BY <2>2, <2>3, SubsetInduct
    <3>2. S \in SUBSET S
      OBVIOUS
    <3>3. QED
      BY <3>1, <3>2
  <2>5. QED
    BY <2>4 DEF P
<1>6. h[S] = Cardinality(InWords(B, own, S))
  BY DEF InWords
<1> HIDE DEF h
<1>7. QED
  BY <1>4, <1>5, <1>6

(* popcountLinear counts the 1 bits of nbits positions from word x on. *)
LEMMA PopcountCorrect ==
  ASSUME NEW b, BitvectorOK(b), NEW x \in Nat, NEW nbits \in Nat \ {0},
         x * WordSize + nbits <= NumWords(b.num_bits) * WordSize
  PROVE  PopcountLinear(b, x, nbits)
           = Cardinality({p \in OneBits(b) : x * WordSize <= p /\ p < x * WordSize + nbits})
<1> DEFINE lastword == (nbits - 1) \div WordSize
           lo == (nbits - 1) % WordSize
           S == 0 .. lastword - 1
           B == OneBits(b)
           own == [p \in B |-> (p \div WordSize) - x]
           count == [j \in S |-> Cardinality(WordAt(b, x + j))]
           full == {p \in B : own[p] \in S}
           part == {p \in B : p \div WordSize = x + lastword /\ p % WordSize \in 0 .. lo}
           target == {p \in B : x * WordSize <= p /\ p < x * WordSize + nbits}
<1>1. /\ WordSize \in Nat \ {0} /\ NumWords(b.num_bits) \in Nat
      /\ NumWords(b.num_bits) * WordSize \in Int /\ x * WordSize \in Int
  <2>1. WordSize \in Nat \ {0} /\ NumWords(b.num_bits) \in Nat
    BY BitvectorAssumption, NumWordsBounds DEF BitvectorOK
  <2>2. QED
    BY <2>1
<1>2. /\ lastword \in Int /\ lo \in 0 .. WordSize - 1
      /\ nbits - 1 = lastword * WordSize + lo
  BY PositionOf DEF Word
<1>3. lastword \in Nat
  <2>1. nbits - 1 \in Int /\ 0 * WordSize <= nbits - 1
    BY <1>1
  <2>2. 0 <= lastword
    BY <1>1, <2>1, DivBounds
  <2>3. QED
    BY <1>2, <2>2
<1>4. /\ lastword * WordSize \in Int
      /\ (x + lastword) * WordSize = x * WordSize + lastword * WordSize
  BY <1>1, <1>3
<1>5. x + lastword \in 0 .. NumWords(b.num_bits) - 1
  <2>1. (x + lastword) * WordSize < NumWords(b.num_bits) * WordSize
    BY <1>1, <1>2, <1>4
  <2>2. ~(NumWords(b.num_bits) <= x + lastword)
    <3>1. x + lastword \in Int /\ WordSize \in Nat
      BY <1>1, <1>3
    <3>2. NumWords(b.num_bits) <= x + lastword
            => NumWords(b.num_bits) * WordSize <= (x + lastword) * WordSize
      BY <1>1, <3>1, TimesMonotone
    <3>3. QED
      BY <1>1, <1>4, <2>1, <3>2
  <2>3. QED
    BY <1>1, <1>3, <2>2
<1>6. \A p \in B : p \in Int /\ p \div WordSize \in Int /\ p % WordSize \in 0 .. WordSize - 1
                     /\ p = (p \div WordSize) * WordSize + (p % WordSize)
  BY BitsFinite, PositionOf DEF Word
<1>7. IsFiniteSet(B) /\ IsFiniteSet(full) /\ IsFiniteSet(part)
  BY BitsFinite
<1> HIDE DEF lastword, lo, B
<1>8. IsFiniteSet(S)
  BY <1>3, FS_Interval
<1>9. ASSUME NEW j \in S
      PROVE  count[j] = Cardinality({p \in B : own[p] = j})
  <2>1. x + j \in 0 .. NumWords(b.num_bits) - 1
    BY <1>1, <1>3, <1>5
  <2>2. /\ {o \in WordAt(b, x + j) : o \in Word} = WordAt(b, x + j)
        /\ \A p \in B : p % WordSize \in Word
    BY <1>6, <2>1, WordHasBits DEF Word
  <2>3. Cardinality({o \in WordAt(b, x + j) : o \in Word})
          = Cardinality({p \in B : p \div WordSize = x + j /\ p % WordSize \in Word})
    <3> HIDE DEF own, count, S, full, part
    <3>1. LET A == {o \in WordAt(b, x + j) : o \in Word}
          IN  Cardinality(A) = Cardinality({p \in OneBits(b) :
                                   p \div WordSize = x + j /\ p % WordSize \in Word})
      BY <2>1, BitsOfWord
    <3>2. QED
      BY <3>1 DEF B
  <2>4. {p \in B : p \div WordSize = x + j /\ p % WordSize \in Word} = {p \in B : own[p] = j}
    <3>1. \A p \in B : p \div WordSize = x + j <=> own[p] = j
      BY <1>3, <1>6
    <3> HIDE DEF own
    <3>2. QED
      BY <2>2, <3>1
  <2>5. count[j] = Cardinality(WordAt(b, x + j))
    OBVIOUS
  <2> HIDE DEF own, count
  <2>6. QED
    BY <2>2, <2>3, <2>4, <2>5
<1>10. MapThenSumSet(LAMBDA i : Cardinality(WordAt(b, x + i)), S) = Cardinality(full)
  <2> DEFINE sum == CHOOSE g : g = [s \in SUBSET S |->
                      IF s = {} THEN 0
                      ELSE Cardinality(WordAt(b, x + PickOf(s))) + g[s \ {PickOf(s)}]]
  <2>1. MapThenSumSet(LAMBDA i : Cardinality(WordAt(b, x + i)), S) = sum[S]
    BY DEF MapThenSumSet, MapThenFoldSet, PickOf
  <2>2. \A s \in SUBSET S : s # {} => count[PickOf(s)] = Cardinality(WordAt(b, x + PickOf(s)))
    BY DEF PickOf
  <2> HIDE DEF own, count, S
  <2>3. Counts(S, B, own, count)
    BY <1>7, <1>8, <1>9 DEF Counts
  <2>4. /\ \E h : SumsUp(h, S, count)
        /\ \A g : SumsUp(g, S, count) => g[S] = Cardinality(InWords(B, own, S))
    BY <2>3, SumOfWords
  <2>4a. InWords(B, own, S) = full
    BY DEF InWords
  <2> HIDE DEF full
  <2>4b. PICK h : SumsUp(h, S, count)
    BY <2>4
  <2>5. h = [s \in SUBSET S |->
               IF s = {} THEN 0
               ELSE Cardinality(WordAt(b, x + PickOf(s))) + h[s \ {PickOf(s)}]]
    BY <2>2, <2>4b DEF SumsUp
  <2>6. sum = [s \in SUBSET S |->
                 IF s = {} THEN 0
                 ELSE Cardinality(WordAt(b, x + PickOf(s))) + sum[s \ {PickOf(s)}]]
    BY <2>5
  <2> HIDE DEF sum
  <2>7. SumsUp(sum, S, count)
    BY <2>2, <2>6 DEF SumsUp
  <2>8. QED
    BY <2>1, <2>4, <2>4a, <2>7
<1>11. Cardinality(ShiftRight(WordAt(b, x + lastword), WordSize - 1 - lo)) = Cardinality(part)
  <2> DEFINE A == {o \in WordAt(b, x + lastword) : o \in 0 .. lo}
             k == WordSize - 1 - lo
  <2>1. WordAt(b, x + lastword) \in SUBSET (0 .. WordSize - 1)
    BY <1>5, WordHasBits DEF Word
  <2>2. ShiftRight(WordAt(b, x + lastword), k) = {o + k : o \in A}
    <3>1. {o \in WordAt(b, x + lastword) : o + k < WordSize} = A
      <4>1. WordSize \in Nat /\ lo \in Int
        BY <1>1, <1>2
      <4>2. \A o \in WordAt(b, x + lastword) : o + k < WordSize <=> o \in 0 .. lo
        BY <2>1, <4>1
      <4>3. QED
        BY <4>2
    <3>2. QED
      BY <3>1 DEF ShiftRight
  <2>3. A \in SUBSET Int /\ IsFiniteSet(A) /\ Cardinality(A) = Cardinality(part)
    <3> DEFINE i == x + lastword
               T == 0 .. lo
    <3>1. i \in 0 .. NumWords(b.num_bits) - 1
      BY <1>5
    <3> HIDE DEF i, T
    <3>2. LET Q == {o \in WordAt(b, i) : o \in T}
          IN  /\ Q \in SUBSET Int /\ IsFiniteSet(Q)
              /\ Cardinality(Q)
                   = Cardinality({p \in OneBits(b) : p \div WordSize = i /\ p % WordSize \in T})
      BY <3>1, BitsOfWord, ZenonT(30)
    <3>3. QED
      BY <3>2 DEF i, T, B
  <2>4. k \in Int
    BY <1>1, <1>2
  <2> HIDE DEF A, k, part
  <2>5. Cardinality({o + k : o \in A}) = Cardinality(A)
    BY <2>3, <2>4, ShiftCount
  <2>6. ShiftRight(WordAt(b, x + lastword), WordSize - 1 - lo) = {o + k : o \in A}
    BY <2>2 DEF k
  <2>7. QED
    BY <2>3, <2>5, <2>6
<1>12. target = full \cup part
  <2> SUFFICES ASSUME NEW p \in B
               PROVE  x * WordSize <= p /\ p < x * WordSize + nbits
                        <=> \/ own[p] \in S
                            \/ p \div WordSize = x + lastword /\ p % WordSize \in 0 .. lo
    OBVIOUS
  <2> DEFINE i == p \div WordSize
  <2>1. /\ p \in Int /\ i \in Int /\ p % WordSize \in 0 .. WordSize - 1
        /\ p = i * WordSize + (p % WordSize)
        /\ own[p] = i - x
    BY <1>6
  <2>2. x * WordSize <= p <=> x <= i
    BY <1>1, <2>1, DivBounds
  <2>3. p < (x + lastword) * WordSize <=> i < x + lastword
    BY <1>1, <1>3, <2>1, DivBounds
  <2>4. x * WordSize + nbits = (x + lastword) * WordSize + lo + 1
    BY <1>1, <1>2, <1>4
  <2>5. (x + lastword) * WordSize \in Int
    BY <1>4, <1>1
  <2>6. i > x + lastword => p >= (x + lastword) * WordSize + WordSize
    <3>1. (x + lastword + 1) * WordSize = (x + lastword) * WordSize + WordSize
      BY <1>1, <1>3
    <3>2. x + lastword + 1 <= i => (x + lastword + 1) * WordSize <= p
      BY <1>1, <1>3, <2>1, DivBounds
    <3>3. QED
      BY <1>3, <2>1, <3>1, <3>2
  <2> HIDE DEF own, i
  <2>7. CASE i < x + lastword
    BY <1>2, <1>3, <2>1, <2>2, <2>3, <2>4, <2>5, <2>7 DEF i
  <2>8. CASE i = x + lastword
    BY <1>2, <1>3, <2>1, <2>2, <2>4, <2>5, <2>8 DEF i
  <2>9. CASE i > x + lastword
    BY <1>1, <1>2, <1>3, <2>1, <2>4, <2>5, <2>6, <2>9 DEF i
  <2>10. QED
    BY <1>3, <2>1, <2>7, <2>8, <2>9
<1>13. full \cap part = {}
  BY <1>3, <1>6
<1>14. Cardinality(target) = Cardinality(full) + Cardinality(part)
  <2> HIDE DEF full, part, target
  <2>1. QED
    BY <1>7, <1>12, <1>13, DisjointCount
<1>15. PopcountLinear(b, x, nbits)
         = MapThenSumSet(LAMBDA i : Cardinality(WordAt(b, x + i)), S)
             + Cardinality(ShiftRight(WordAt(b, x + lastword), WordSize - 1 - lo))
  BY DEF PopcountLinear, lastword, lo
<1>16. QED
  BY <1>10, <1>11, <1>14, <1>15 DEF B

-------------------------------------------------------------------------------
(* Rank *)

(* The 1 bits of the positions before end. *)
OnesUpTo(b, end) == Cardinality({p \in OneBits(b) : p < end})

(* What popcountLinear counts from a word on is added to the count up to there. *)
LEMMA CountOn ==
  ASSUME NEW b, BitvectorOK(b), NEW x \in Nat, NEW nbits \in Nat \ {0},
         x * WordSize + nbits <= NumWords(b.num_bits) * WordSize
  PROVE  OnesUpTo(b, x * WordSize + nbits)
           = OnesUpTo(b, x * WordSize) + PopcountLinear(b, x, nbits)
<1> DEFINE A == {p \in OneBits(b) : p < x * WordSize}
           B == {p \in OneBits(b) : x * WordSize <= p /\ p < x * WordSize + nbits}
<1>1. x * WordSize \in Int
  BY BitvectorAssumption
<1>2. \A p \in OneBits(b) : p \in Int
  BY BitsFinite
<1>3. {p \in OneBits(b) : p < x * WordSize + nbits} = A \cup B
  BY <1>1, <1>2
<1>4. A \cap B = {}
  BY <1>1, <1>2
<1>5. IsFiniteSet(A) /\ IsFiniteSet(B)
  BY BitsFinite
<1>6. Cardinality(A \cup B) = Cardinality(A) + Cardinality(B)
  <2> HIDE DEF A, B
  <2>1. QED
    BY <1>4, <1>5, DisjointCount
<1>7. PopcountLinear(b, x, nbits) = Cardinality(B)
  BY PopcountCorrect
<1>8. QED
  BY <1>3, <1>6, <1>7 DEF OnesUpTo

(* A block is a number of whole words. *)
LEMMA BlockWords ==
  /\ RankBlock \div WordSize \in Nat
  /\ \A i \in Int : i * (RankBlock \div WordSize) \in Int
                      /\ (i * (RankBlock \div WordSize)) * WordSize = i * RankBlock
<1> DEFINE words == RankBlock \div WordSize
<1>1. WordSize \in Nat \ {0} /\ RankBlock \in Nat \ {0} /\ RankBlock % WordSize = 0
  BY BitvectorAssumption
<1>2. words \in Int /\ RankBlock = words * WordSize
  BY <1>1, DivMod
<1>3. words \in Nat
  <2>1. 0 * WordSize <= RankBlock
    BY <1>1
  <2>2. 0 <= words
    BY <1>1, <2>1, DivBounds
  <2>3. QED
    BY <1>2, <2>2
<1> HIDE DEF words
<1>4. \A i \in Int : i * words \in Int /\ (i * words) * WordSize = i * RankBlock
  <2> TAKE i \in Int
  <2>1. (i * words) * WordSize = i * (words * WordSize)
    BY <1>1, <1>3
  <2>2. QED
    BY <1>2, <1>3, <2>1
<1>5. QED
  BY <1>3, <1>4 DEF words

(* Whole blocks of a vector lie in its words. *)
LEMMA BlocksInside ==
  ASSUME NEW n \in Nat, NEW i \in 0 .. n \div RankBlock
  PROVE  i * RankBlock \in Nat /\ i * RankBlock <= n
<1>1. RankBlock \in Nat \ {0} /\ i \in Nat
  BY BitvectorAssumption
<1>2. n \div RankBlock \in Int
  BY <1>1, DivMod
<1>3. i * RankBlock <= n
  BY <1>1, <1>2, DivBounds
<1>4. QED
  BY <1>1, <1>3

(* initRankLut: entry i counts the 1 bits before block i. *)
LEMMA RankLutCorrect ==
  ASSUME NEW b, BitvectorOK(b)
  PROVE  \A i \in 0 .. b.num_bits \div RankBlock :
           RankLut(b)[i] = OnesUpTo(b, i * RankBlock)
<1> DEFINE words == RankBlock \div WordSize
           n == b.num_bits \div RankBlock
           step(i) == PopcountLinear(b, (i - 1) * words, RankBlock)
           h == [i \in 0 .. n |-> OnesUpTo(b, i * RankBlock)]
           lut == CHOOSE f : f = [i \in 0 .. n |-> IF i = 0 THEN 0 ELSE f[i - 1] + step(i)]
<1>1. RankBlock \in Nat \ {0} /\ b.num_bits \in Nat /\ WordSize \in Nat \ {0}
  BY BitvectorAssumption DEF BitvectorOK
<1>2. n \in Nat
  <2>1. n \in Int
    BY <1>1, DivMod
  <2>2. 0 * RankBlock <= b.num_bits
    BY <1>1
  <2>3. 0 <= n
    BY <1>1, <2>2, DivBounds
  <2>4. QED
    BY <2>1, <2>3
<1> HIDE DEF n
<1>3. h[0] = 0
  <2>1. {p \in OneBits(b) : p < 0 * RankBlock} = {}
    BY <1>1 DEF OneBits
  <2>2. OnesUpTo(b, 0 * RankBlock) = 0
    BY <2>1, FS_EmptySet DEF OnesUpTo
  <2>3. QED
    BY <1>2, <2>2
<1>4. ASSUME NEW i \in 1 .. n
      PROVE  h[i] = h[i - 1] + step(i)
  <2>1. i \in Nat /\ i - 1 \in Nat /\ i \in 0 .. n /\ i - 1 \in 0 .. n
    BY <1>2
  <2>2. /\ i * RankBlock <= b.num_bits
        /\ i * RankBlock = (i - 1) * RankBlock + RankBlock
    BY <1>1, <2>1, BlocksInside DEF n
  <2>3. (i - 1) * words \in Nat /\ ((i - 1) * words) * WordSize = (i - 1) * RankBlock
    <3>1. words \in Nat /\ i - 1 \in Int
      BY <2>1, BlockWords
    <3>2. (i - 1) * words >= 0
      BY <2>1, <3>1
    <3>3. QED
      BY <2>1, <3>1, <3>2, BlockWords
  <2>4. b.num_bits <= NumWords(b.num_bits) * WordSize /\ NumWords(b.num_bits) \in Nat
    BY <1>1, NumWordsBounds
  <2> DEFINE x == (i - 1) * words
  <2> HIDE DEF words, x
  <2>5. x \in Nat /\ x * WordSize = (i - 1) * RankBlock
    BY <2>3 DEF x
  <2>6. x * WordSize + RankBlock <= NumWords(b.num_bits) * WordSize
    BY <1>1, <2>1, <2>2, <2>4, <2>5
  <2>7. OnesUpTo(b, x * WordSize + RankBlock)
          = OnesUpTo(b, x * WordSize) + PopcountLinear(b, x, RankBlock)
    BY <1>1, <2>5, <2>6, CountOn
  <2>8. OnesUpTo(b, i * RankBlock) = OnesUpTo(b, (i - 1) * RankBlock) + step(i)
    BY <2>2, <2>5, <2>7 DEF x
  <2>9. QED
    BY <2>1, <2>8
<1> HIDE DEF step, h
<1>5. h = [i \in 0 .. n |-> IF i = 0 THEN 0 ELSE h[i - 1] + step(i)]
  <2>1. h = [i \in 0 .. n |-> h[i]]
    BY DEF h
  <2>2. \A i \in 0 .. n : h[i] = IF i = 0 THEN 0 ELSE h[i - 1] + step(i)
    BY <1>2, <1>3, <1>4
  <2>3. QED
    BY <2>1, <2>2
<1>6. lut = [i \in 0 .. n |-> IF i = 0 THEN 0 ELSE lut[i - 1] + step(i)]
  BY <1>5
<1>7. RankLut(b) = lut
  BY DEF RankLut, step, n
<1> HIDE DEF lut
<1>8. \A i \in 0 .. n : lut[i] = h[i]
  <2> DEFINE S == {i \in 0 .. n : lut[i] = h[i]}
  <2>1. 0 \in S
    BY <1>2, <1>3, <1>6
  <2>2. \A i \in 0 .. n - 1 : i \in S => i + 1 \in S
    <3> SUFFICES ASSUME NEW i \in 0 .. n - 1, lut[i] = h[i]
                 PROVE  lut[i + 1] = h[i + 1]
      BY <1>2
    <3>1. i + 1 \in 1 .. n /\ i + 1 \in 0 .. n /\ (i + 1) - 1 = i
      BY <1>2
    <3>2. lut[i + 1] = lut[i] + step(i + 1)
      <4>1. \A j \in 0 .. n : lut[j] = IF j = 0 THEN 0 ELSE lut[j - 1] + step(j)
        BY <1>6
      <4>2. i + 1 # 0
        BY <3>1
      <4>3. QED
        BY <3>1, <4>1, <4>2
    <3>3. h[i + 1] = h[i] + step(i + 1)
      BY <1>4, <3>1
    <3>4. QED
      BY <3>2, <3>3
  <2> HIDE DEF S
  <2>3. \A i \in 0 .. n : i \in S
    BY <1>2, <2>1, <2>2, UpToInduct
  <2>4. QED
    BY <2>3 DEF S
<1>9. QED
  BY <1>7, <1>8 DEF h, n

(* rank counts the 1 bits up to and with pos. *)
LEMMA RankCorrect ==
  ASSUME NEW b, BitvectorOK(b), NEW pos \in 0 .. b.num_bits - 1,
         \A i \in 0 .. b.num_bits \div RankBlock :
           b.rank_lut[i] = OnesUpTo(b, i * RankBlock)
  PROVE  Rank(b, pos) = Cardinality({p \in OneBits(b) : p <= pos})
<1> DEFINE block == pos \div RankBlock
           x == block * (RankBlock \div WordSize)
           nbits == (pos % RankBlock) + 1
<1>1. /\ RankBlock \in Nat \ {0} /\ b.num_bits \in Nat /\ WordSize \in Nat \ {0}
      /\ pos \in Int
  BY BitvectorAssumption DEF BitvectorOK
<1>2. /\ block \in Int /\ pos % RankBlock \in 0 .. RankBlock - 1
      /\ pos = block * RankBlock + (pos % RankBlock)
  BY <1>1, DivMod
<1>3. block \in Nat
  <2>1. 0 * RankBlock <= pos
    BY <1>1
  <2>2. 0 <= block
    BY <1>1, <2>1, DivBounds
  <2>3. QED
    BY <1>2, <2>2
<1>4. block \in 0 .. b.num_bits \div RankBlock
  <2>1. block * RankBlock \in Int
    BY <1>1, <1>3
  <2>2. block * RankBlock <= b.num_bits
    BY <1>1, <1>2, <2>1
  <2>3. block <= b.num_bits \div RankBlock
    BY <1>1, <1>2, <2>2, DivBounds
  <2>4. b.num_bits \div RankBlock \in Int
    BY <1>1, DivMod
  <2>5. QED
    BY <1>3, <2>3, <2>4
<1>5. x \in Nat /\ x * WordSize = block * RankBlock
  <2>1. RankBlock \div WordSize \in Nat
    BY BlockWords
  <2>2. x >= 0
    BY <1>3, <2>1
  <2>3. QED
    BY <1>3, <2>1, <2>2, BlockWords
<1>6. nbits \in Nat \ {0} /\ x * WordSize + nbits = pos + 1 /\ x * WordSize \in Int
  BY <1>1, <1>2, <1>5
<1>7. x * WordSize + nbits <= NumWords(b.num_bits) * WordSize
  <2>1. b.num_bits <= NumWords(b.num_bits) * WordSize /\ NumWords(b.num_bits) \in Nat
    BY <1>1, NumWordsBounds
  <2>2. QED
    BY <1>1, <1>6, <2>1
<1>8. Rank(b, pos) = b.rank_lut[block] + PopcountLinear(b, x, nbits)
  BY DEF Rank
<1> HIDE DEF block, x, nbits
<1>9. OnesUpTo(b, x * WordSize + nbits)
        = OnesUpTo(b, x * WordSize) + PopcountLinear(b, x, nbits)
  BY <1>5, <1>6, <1>7, CountOn
<1>10. {p \in OneBits(b) : p < pos + 1} = {p \in OneBits(b) : p <= pos}
  <2>1. \A p \in OneBits(b) : p \in Int
    BY BitsFinite
  <2>2. QED
    BY <1>1, <2>1
<1>11. OnesUpTo(b, pos + 1) = Cardinality({p \in OneBits(b) : p <= pos})
  BY <1>10 DEF OnesUpTo
<1>12. b.rank_lut[block] = OnesUpTo(b, x * WordSize)
  BY <1>4, <1>5
<1>13. QED
  BY <1>6, <1>8, <1>9, <1>11, <1>12

-------------------------------------------------------------------------------
(* The search in a word *)

(* The 1 bits of a word from offset lo on and before offset hi. *)
Part(w, lo, hi) == {o \in w : lo <= o /\ o < hi}

(* One step of select64_popcount_search. *)
Halved(w, win) ==
  LET half == win.size \div 2
      left == Cardinality(Part(w, win.first, win.first + half))
  IN  IF win.k > left
      THEN [first |-> win.first + half, k |-> win.k - left, size |-> half]
      ELSE [first |-> win.first, k |-> win.k, size |-> half]

Windows == [first : Nat, k : Nat \ {0}, size : Nat]

(* The k-th 1 bit of the window is the n-th of the word; when the search is
   over, it is at the start of the window. *)
WindowOK(w, n, win) ==
  /\ win \in Windows
  /\ Cardinality(Part(w, 0, win.first)) + win.k = n
  /\ \/ /\ win.size > 0
        /\ win.first + win.size <= WordSize
        /\ \E m \in Nat : m * win.size = WordSize
        /\ win.k <= Cardinality(Part(w, win.first, win.first + win.size))
     \/ win.size = 0 /\ win.k = 1 /\ win.first \in w

(* A part of a word is counted in two parts. *)
LEMMA PartSplit ==
  ASSUME NEW w \in SUBSET Word, NEW lo \in Int, NEW mid \in Int, NEW hi \in Int,
         lo <= mid, mid <= hi
  PROVE  /\ Cardinality(Part(w, lo, mid)) \in Nat /\ Cardinality(Part(w, mid, hi)) \in Nat
         /\ Cardinality(Part(w, lo, hi))
              = Cardinality(Part(w, lo, mid)) + Cardinality(Part(w, mid, hi))
<1> DEFINE A == Part(w, lo, mid)
           B == Part(w, mid, hi)
<1>1. \A o \in w : o \in Int
  BY BitvectorAssumption DEF Word
<1>2. Part(w, lo, hi) = A \cup B /\ A \cap B = {}
  BY <1>1 DEF Part
<1>3. IsFiniteSet(A) /\ IsFiniteSet(B)
  <2>1. A \in SUBSET Word /\ B \in SUBSET Word
    BY DEF Part
  <2>2. QED
    BY <2>1, OffsetsFinite
<1> HIDE DEF A, B
<1>4. /\ Cardinality(A) \in Nat /\ Cardinality(B) \in Nat
      /\ Cardinality(A \cup B) = Cardinality(A) + Cardinality(B)
  BY <1>2, <1>3, DisjointCount
<1>5. QED
  BY <1>2, <1>4 DEF A, B

(* A part of one offset has at most the bit at that offset. *)
LEMMA PartSmall ==
  ASSUME NEW w \in SUBSET Word, NEW lo \in Int
  PROVE  /\ Cardinality(Part(w, lo, lo)) = 0
         /\ Cardinality(Part(w, lo, lo + 1)) = IF lo \in w THEN 1 ELSE 0
<1>1. \A o \in w : o \in Int
  BY BitvectorAssumption DEF Word
<1>2. Part(w, lo, lo) = {}
  BY <1>1 DEF Part
<1>3. Part(w, lo, lo + 1) = IF lo \in w THEN {lo} ELSE {}
  BY <1>1 DEF Part
<1>4. Cardinality({}) = 0 /\ Cardinality({lo}) = 1
  BY FS_EmptySet, FS_Singleton
<1>5. QED
  BY <1>2, <1>3, <1>4

(* What divides kWordSize, and is more than 1, is even. *)
LEMMA EvenSize ==
  ASSUME NEW s \in Nat, NEW m \in Nat, m * s = WordSize, s > 1
  PROVE  /\ s \div 2 \in Nat \ {0}
         /\ s = (s \div 2) + (s \div 2)
         /\ (m + m) * (s \div 2) = WordSize
<1>1. WordSize \in Nat \ {0} /\ \A d \in 1 .. WordSize : WordSize % d = 0 => d = 1 \/ d % 2 = 0
  BY BitvectorAssumption
<1>2. m # 0
  BY <1>1
<1>3. s <= WordSize
  <2>1. 1 * s <= m * s
    BY <1>2, TimesMonotone
  <2>2. QED
    BY <1>1, <2>1
<1>4. WordSize % s = 0
  <2>1. 0 \in 0 .. s - 1 /\ m * s + 0 = WordSize /\ s \in Nat \ {0}
    BY <1>1
  <2>2. (m * s + 0) % s = 0
    BY <2>1, DivModUnique
  <2>3. QED
    BY <2>1, <2>2
<1>5. s % 2 = 0
  BY <1>1, <1>3, <1>4
<1>6. s \div 2 \in Int /\ s = (s \div 2) * 2 + (s % 2)
  BY DivMod
<1> DEFINE h == s \div 2
<1>7. h \in Int /\ s = h + h
  BY <1>5, <1>6
<1> HIDE DEF h
<1>8. h \in Nat \ {0}
  BY <1>7
<1>9. (m + m) * h = m * (h + h)
  BY <1>8
<1>10. (m + m) * h = WordSize
  BY <1>7, <1>9
<1>11. QED
  BY <1>7, <1>8, <1>10 DEF h

(* A step keeps the bit looked for in the window, and the window shrinks. *)
LEMMA HalvedOK ==
  ASSUME NEW w \in SUBSET Word, NEW n \in Nat, NEW win, WindowOK(w, n, win)
  PROVE  /\ WindowOK(w, n, Halved(w, win))
         /\ Halved(w, win).size <= IF win.size = 0 THEN 0 ELSE win.size - 1
<1> DEFINE first == win.first
           k == win.k
           size == win.size
           half == size \div 2
           left == Cardinality(Part(w, first, first + half))
           right == Cardinality(Part(w, first + half, first + size))
           before == Cardinality(Part(w, 0, first))
           new == Halved(w, win)
<1>1. /\ first \in Nat /\ k \in Nat \ {0} /\ size \in Nat /\ before + k = n
      /\ 0 \in Int /\ WordSize \in Nat \ {0}
  BY BitvectorAssumption DEF WindowOK, Windows
<1>2. new = IF k > left THEN [first |-> first + half, k |-> k - left, size |-> half]
            ELSE [first |-> first, k |-> k, size |-> half]
  BY DEF Halved
<1> HIDE DEF new
<1>3. before \in Nat
  <2>1. Part(w, 0, first) \in SUBSET Word
    BY DEF Part
  <2>2. QED
    BY <2>1, OffsetsFinite
<1>4. CASE size <= 1
  <2>1. half = 0 /\ first + half = first
    BY <1>1, <1>4
  <2>2. left = 0
    BY <1>1, <2>1, PartSmall
  <2>3. new = [first |-> first, k |-> k, size |-> 0]
    <3> HIDE DEF first, k, left, half
    <3>1. k > left /\ k - left = k
      BY <1>1, <2>2
    <3>2. QED
      BY <1>2, <2>1, <3>1
  <2>4. k = 1 /\ first \in w
    <3>1. CASE size = 0
      BY <3>1 DEF WindowOK
    <3>2. CASE size # 0
      <4>1. size = 1
        BY <1>1, <1>4, <3>2
      <4>2. k <= Cardinality(Part(w, first, first + 1))
        BY <4>1 DEF WindowOK
      <4>3. Cardinality(Part(w, first, first + 1)) = IF first \in w THEN 1 ELSE 0
        BY <1>1, PartSmall
      <4> HIDE DEF first, k
      <4>4. QED
        BY <1>1, <4>2, <4>3
    <3>3. QED
      BY <3>1, <3>2
  <2> HIDE DEF first, k, before, size
  <2>5. /\ new.first = first /\ new.k = k /\ new.size = 0 /\ new \in Windows
    BY <1>1, <2>3 DEF Windows
  <2>6. WindowOK(w, n, new)
    BY <1>1, <2>4, <2>5 DEF WindowOK, before
  <2>7. new.size <= IF size = 0 THEN 0 ELSE size - 1
    BY <1>1, <2>5
  <2>8. QED
    BY <2>6, <2>7 DEF new, size
<1>5. CASE size > 1
  <2>1. /\ size + first <= WordSize
        /\ \E m \in Nat : m * size = WordSize
        /\ k <= Cardinality(Part(w, first, first + size))
    BY <1>1, <1>5 DEF WindowOK
  <2>2. PICK m \in Nat : m * size = WordSize
    BY <2>1
  <2>3. half \in Nat \ {0} /\ size = half + half /\ (m + m) * half = WordSize
    <3> HIDE DEF size
    <3>1. size \in Nat
      BY <1>1
    <3>2. QED
      BY <1>5, <2>2, <3>1, EvenSize
  <2> DEFINE mid == first + half
  <2> HIDE DEF first, k, size, half
  <2>4. /\ mid \in Int /\ first \in Int /\ first + size \in Int
        /\ 0 <= first /\ first <= mid /\ mid <= first + size /\ first + size = mid + half
    BY <1>1, <2>3
  <2> HIDE DEF mid
  <2>5. /\ left \in Nat /\ right \in Nat
        /\ Cardinality(Part(w, first, first + size)) = left + right
    BY <2>4, PartSplit DEF mid
  <2>6. Cardinality(Part(w, 0, mid)) = before + left
    BY <1>1, <2>4, PartSplit DEF mid
  <2> HIDE DEF left, right, before
  <2>7. \E d \in Nat : d * half = WordSize
    <3> DEFINE d == m + m
    <3>1. d \in Nat
      OBVIOUS
    <3>2. d * half = WordSize
      BY <2>3
    <3> HIDE DEF d
    <3>3. QED
      BY <3>1, <3>2
  <2>8. CASE k > left
    <3>1. new = [first |-> mid, k |-> k - left, size |-> half]
      BY <1>2, <2>8 DEF mid
    <3>2. mid \in Nat /\ k - left \in Nat \ {0} /\ half \in Nat \ {0}
      BY <1>1, <2>3, <2>4, <2>5, <2>8
    <3>3. /\ new.first = mid /\ new.k = k - left /\ new.size = half /\ new \in Windows
      BY <3>1, <3>2 DEF Windows
    <3>4. Cardinality(Part(w, 0, mid)) + (k - left) = n
      BY <1>1, <1>3, <2>5, <2>6
    <3>5. right = Cardinality(Part(w, mid, mid + half))
      BY <2>4 DEF right, mid
    <3>6. k - left <= right /\ mid + half <= WordSize
      BY <1>1, <2>1, <2>4, <2>5
    <3>7. WindowOK(w, n, new)
      BY <2>7, <3>2, <3>3, <3>4, <3>5, <3>6 DEF WindowOK
    <3>8. new.size <= IF size = 0 THEN 0 ELSE size - 1
      BY <1>1, <2>3, <3>3
    <3>9. QED
      BY <3>7, <3>8 DEF new, size
  <2>9. CASE ~(k > left)
    <3>1. new = [first |-> first, k |-> k, size |-> half]
      BY <1>2, <2>9
    <3>2. /\ new.first = first /\ new.k = k /\ new.size = half /\ new \in Windows
      BY <1>1, <2>3, <3>1 DEF Windows
    <3>3. k <= Cardinality(Part(w, first, first + half))
      BY <1>1, <2>5, <2>9 DEF left
    <3>4. first + half <= WordSize
      BY <1>1, <2>1, <2>3
    <3>5. half > 0
      BY <2>3
    <3>6. WindowOK(w, n, new)
      BY <1>1, <2>7, <3>2, <3>3, <3>4, <3>5 DEF WindowOK, before
    <3>7. new.size <= IF size = 0 THEN 0 ELSE size - 1
      BY <1>1, <2>3, <3>2
    <3>8. QED
      BY <3>6, <3>7 DEF new, size
  <2>10. QED
    BY <2>8, <2>9
<1>6. QED
  BY <1>1, <1>4, <1>5

(* select64_popcount_search finds the k-th 1 bit of a word. *)
LEMMA SelectInWordCorrect ==
  ASSUME NEW w \in SUBSET Word, NEW k \in 1 .. Cardinality(w)
  PROVE  /\ SelectInWord(w, k) \in w
         /\ Cardinality(Part(w, 0, SelectInWord(w, k) + 1)) = k
<1> DEFINE start == [first |-> 0, k |-> k, size |-> WordSize]
           halve == [win \in [first : Nat, k : Int, size : Nat] |-> Halved(w, win)]
           search == CHOOSE g : g = [i \in 0 .. WordSize |->
                       IF i = 0 THEN start ELSE halve[g[i - 1]]]
           last == search[WordSize]
           V == {win \in Windows : WindowOK(w, k, win)}
           step == [c \in (1 .. WordSize) \X V |-> Halved(w, c[2])]
<1>1. SelectInWord(w, k) = last.first + last.k - 1
  BY DEF SelectInWord, Halved, Part
<1>2. WordSize \in Nat \ {0} /\ 0 \in Int /\ k \in Nat \ {0}
  <2>1. Cardinality(w) \in Nat
    BY OffsetsFinite
  <2>2. QED
    BY <2>1, BitvectorAssumption
<1>3. start \in V
  <2>1. Part(w, 0, 0 + WordSize) = w
    <3>1. \A o \in w : o \in 0 .. WordSize - 1
      BY DEF Word
    <3>2. \A o \in w : 0 <= o /\ o < 0 + WordSize
      BY <1>2, <3>1
    <3>3. QED
      BY <3>2 DEF Part
  <2>2. Cardinality(Part(w, 0, 0)) = 0
    BY <1>2, PartSmall
  <2>3. 1 * WordSize = WordSize /\ 0 + WordSize <= WordSize /\ 0 + k = k
    BY <1>2
  <2>4. /\ start.first = 0 /\ start.k = k /\ start.size = WordSize /\ start \in Windows
    BY <1>2 DEF Windows
  <2> HIDE DEF start
  <2>5. WindowOK(w, k, start)
    BY <1>2, <2>1, <2>2, <2>3, <2>4 DEF WindowOK
  <2>6. QED
    BY <2>4, <2>5
<1>4. \A win \in V : /\ Halved(w, win) \in V
                     /\ Halved(w, win).size <= IF win.size = 0 THEN 0 ELSE win.size - 1
  <2> SUFFICES ASSUME NEW win \in V
               PROVE  /\ Halved(w, win) \in V
                      /\ Halved(w, win).size <= IF win.size = 0 THEN 0 ELSE win.size - 1
    OBVIOUS
  <2>1. WindowOK(w, k, win) /\ k \in Nat
    BY <1>2
  <2>2. /\ WindowOK(w, k, Halved(w, win))
        /\ Halved(w, win).size <= IF win.size = 0 THEN 0 ELSE win.size - 1
    BY <2>1, HalvedOK
  <2>3. Halved(w, win) \in Windows
    BY <2>2 DEF WindowOK
  <2>4. QED
    BY <2>2, <2>3
<1>5. \A win \in V : win.size \in Nat /\ win.first \in Nat
  BY DEF Windows
<1>6. \A win \in V : halve[win] = Halved(w, win)
  <2>1. \A win \in V : win \in [first : Nat, k : Int, size : Nat]
    BY DEF Windows
  <2>2. QED
    BY <2>1
<1> HIDE DEF V, start, halve
<1>7. /\ step \in [(1 .. WordSize) \X V -> V]
      /\ \A i \in 1 .. WordSize, win \in V : step[<<i, win>>] = Halved(w, win)
  BY <1>4
<1> HIDE DEF step
<1>8. PICK f \in [0 .. WordSize -> V] :
        \A i \in 0 .. WordSize : f[i] = IF i = 0 THEN start ELSE step[<<i, f[i - 1]>>]
  <2>1. RecursionData(WordSize, V, start, step)
    BY <1>2, <1>3, <1>7 DEF RecursionData
  <2>2. QED
    BY <2>1, RecursionExists
<1>9. f = [i \in 0 .. WordSize |-> IF i = 0 THEN start ELSE halve[f[i - 1]]]
  <2>1. ASSUME NEW i \in 0 .. WordSize
        PROVE  f[i] = IF i = 0 THEN start ELSE halve[f[i - 1]]
    <3>1. CASE i = 0
      BY <1>8, <3>1
    <3>2. CASE i # 0
      <4>1. i \in 1 .. WordSize /\ i - 1 \in 0 .. WordSize
        BY <1>2, <3>2
      <4>2. f[i - 1] \in V
        BY <1>8, <4>1
      <4>3. QED
        BY <1>7, <1>8, <1>6, <3>2, <4>1, <4>2
    <3>3. QED
      BY <3>1, <3>2
  <2>2. QED
    BY <1>8, <2>1
<1>10. search = [i \in 0 .. WordSize |-> IF i = 0 THEN start ELSE halve[search[i - 1]]]
  BY <1>9
<1> HIDE DEF search
<1> DEFINE S == {i \in 0 .. WordSize : search[i] \in V /\ search[i].size <= WordSize - i}
<1>11. 0 \in S
  <2>1. search[0] = start /\ 0 \in 0 .. WordSize
    BY <1>2, <1>10
  <2>2. start.size = WordSize
    BY DEF start
  <2>3. QED
    BY <1>2, <1>3, <2>1, <2>2
<1>12. ASSUME NEW i \in 0 .. WordSize - 1, i \in S
       PROVE  i + 1 \in S
  <2>1. i + 1 \in 0 .. WordSize /\ i + 1 # 0 /\ (i + 1) - 1 = i
    BY <1>2
  <2>2. search[i + 1] = Halved(w, search[i])
    BY <1>10, <1>12, <1>6, <2>1
  <2>3. /\ search[i] \in V /\ search[i].size \in Nat /\ search[i].size <= WordSize - i
    BY <1>5, <1>12
  <2> DEFINE a == search[i].size
             b == search[i + 1].size
  <2>4. search[i + 1] \in V /\ b <= (IF a = 0 THEN 0 ELSE a - 1) /\ b \in Nat
    BY <1>4, <1>5, <2>2, <2>3
  <2> HIDE DEF b
  <2>5. a \in Nat /\ a <= WordSize - i
    BY <2>3
  <2> HIDE DEF a
  <2>6. b <= WordSize - (i + 1)
    BY <1>2, <2>4, <2>5
  <2>7. QED
    BY <2>1, <2>4, <2>6 DEF b
<1>13. last \in V /\ last.size = 0
  <2>1. WordSize \in S
    <3> HIDE DEF S
    <3>1. \A i \in 0 .. WordSize : i \in S
      BY <1>2, <1>11, <1>12, UpToInduct
    <3>2. QED
      BY <1>2, <3>1
  <2>2. last \in V /\ last.size <= WordSize - WordSize
    BY <2>1
  <2> HIDE DEF last
  <2>3. QED
    BY <1>2, <1>5, <2>2
<1> DEFINE q == last.first
<1>14. /\ q \in Nat /\ last.k = 1 /\ q \in w
       /\ Cardinality(Part(w, 0, q)) + 1 = k
  BY <1>13 DEF V, WindowOK, Windows
<1> HIDE DEF q
<1>15. Cardinality(Part(w, 0, q + 1)) = k
  <2>1. q \in Int /\ q + 1 \in Int /\ 0 <= q /\ q <= q + 1
    BY <1>14
  <2>2. Cardinality(Part(w, 0, q + 1))
          = Cardinality(Part(w, 0, q)) + Cardinality(Part(w, q, q + 1))
    BY <1>2, <2>1, PartSplit
  <2>3. Cardinality(Part(w, q, q + 1)) = 1
    BY <1>14, <2>1, PartSmall
  <2>4. QED
    BY <1>14, <2>2, <2>3
<1>16. SelectInWord(w, k) = q
  BY <1>1, <1>14 DEF q
<1>17. QED
  BY <1>14, <1>15, <1>16

-------------------------------------------------------------------------------
(* Counting from a position on *)

(* The number of the 1 bits from position x on and before position y. *)
Between(b, x, y) == Cardinality({p \in OneBits(b) : x <= p /\ p < y})

(* The 1 bits of word i that are not before position from. *)
WordFrom(b, from, i) == {o \in WordAt(b, i) : from <= i * WordSize + o}

(* The 1 bits from position from on, the word of each, and their number in each
   word of S. *)
OnesFrom(b, from) == {p \in OneBits(b) : from <= p}
WordNumbers(b, from) == [p \in OnesFrom(b, from) |-> p \div WordSize]
WordCounts(b, from, S) == [j \in S |-> Cardinality(WordFrom(b, from, j))]

(* The 1 bits are counted on. *)
LEMMA CountFurther ==
  ASSUME NEW b, BitvectorOK(b), NEW x \in Int, NEW y \in Int, x <= y
  PROVE  /\ OnesUpTo(b, x) \in Nat /\ Between(b, x, y) \in Nat
         /\ OnesUpTo(b, y) = OnesUpTo(b, x) + Between(b, x, y)
<1> DEFINE A == {p \in OneBits(b) : p < x}
           B == {p \in OneBits(b) : x <= p /\ p < y}
<1>1. \A p \in OneBits(b) : p \in Int
  BY BitsFinite
<1>2. {p \in OneBits(b) : p < y} = A \cup B /\ A \cap B = {}
  BY <1>1
<1>3. IsFiniteSet(A) /\ IsFiniteSet(B)
  BY BitsFinite
<1> HIDE DEF A, B
<1>4. /\ Cardinality(A) \in Nat /\ Cardinality(B) \in Nat
      /\ Cardinality(A \cup B) = Cardinality(A) + Cardinality(B)
  BY <1>2, <1>3, DisjointCount
<1>5. QED
  BY <1>2, <1>4 DEF A, B, OnesUpTo, Between

(* The 1 bits of a word, counted in the word or by their positions. *)
LEMMA WordCount ==
  ASSUME NEW b, BitvectorOK(b), NEW from \in Int, NEW i \in 0 .. NumWords(b.num_bits) - 1
  PROVE  /\ WordFrom(b, from, i) \in SUBSET Word
         /\ Cardinality(WordFrom(b, from, i))
              = Cardinality({p \in OneBits(b) : from <= p /\ p \div WordSize = i})
<1> DEFINE T == {o \in Word : from <= i * WordSize + o}
           A == {o \in WordAt(b, i) : o \in T}
           P == {p \in OneBits(b) : p \div WordSize = i /\ p % WordSize \in T}
<1>1. WordAt(b, i) \in SUBSET Word
  BY WordHasBits
<1>2. WordFrom(b, from, i) = A
  BY <1>1 DEF WordFrom
<1>3. Cardinality(A) = Cardinality(P)
  BY BitsOfWord
<1>4. P = {p \in OneBits(b) : from <= p /\ p \div WordSize = i}
  <2>1. ASSUME NEW p \in OneBits(b), p \div WordSize = i
        PROVE  p % WordSize \in T <=> from <= p
    <3>1. p \in Int
      BY BitsFinite
    <3>2. p % WordSize \in Word /\ p = i * WordSize + (p % WordSize)
      BY <2>1, <3>1, PositionOf
    <3>3. QED
      BY <3>2
  <2> HIDE DEF T
  <2>2. QED
    BY <2>1
<1>5. QED
  BY <1>1, <1>2, <1>3, <1>4 DEF WordFrom

(* The words from lo on, before hi, have the 1 bits from position from on. *)
LEMMA WordsCount ==
  ASSUME NEW b, BitvectorOK(b), NEW from \in Int,
         NEW lo \in 0 .. NumWords(b.num_bits), NEW hi \in lo .. NumWords(b.num_bits),
         lo * WordSize <= from
  PROVE  /\ Counts(lo .. hi - 1, OnesFrom(b, from), WordNumbers(b, from),
                   WordCounts(b, from, lo .. hi - 1))
         /\ Cardinality(InWords(OnesFrom(b, from), WordNumbers(b, from), lo .. hi - 1))
              = Between(b, from, hi * WordSize)
<1> DEFINE S == lo .. hi - 1
           B == {p \in OneBits(b) : from <= p}
           own == [p \in B |-> p \div WordSize]
           count == [j \in S |-> Cardinality(WordFrom(b, from, j))]
<1>1. /\ WordSize \in Nat \ {0} /\ NumWords(b.num_bits) \in Nat /\ lo \in Nat /\ hi \in Nat
      /\ lo * WordSize \in Int
  <2>1. WordSize \in Nat \ {0} /\ NumWords(b.num_bits) \in Nat
    BY BitvectorAssumption, NumWordsBounds DEF BitvectorOK
  <2> HIDE DEF NumWords
  <2>2. QED
    BY <2>1
<1>2. IsFiniteSet(S) /\ IsFiniteSet(B)
  <2>1. lo \in Int /\ hi - 1 \in Int
    BY <1>1
  <2>2. IsFiniteSet(S)
    BY <2>1, FS_Interval
  <2>3. B \in SUBSET OneBits(b)
    OBVIOUS
  <2> HIDE DEF B
  <2>4. QED
    BY <2>2, <2>3, BitsFinite
<1>3. ASSUME NEW j \in S
      PROVE  count[j] = Cardinality({p \in B : own[p] = j})
  <2>1. j \in 0 .. NumWords(b.num_bits) - 1
    BY <1>1
  <2>2. {p \in B : own[p] = j} = {p \in OneBits(b) : from <= p /\ p \div WordSize = j}
    OBVIOUS
  <2>3. count[j] = Cardinality(WordFrom(b, from, j))
    OBVIOUS
  <2> HIDE DEF count, own, B
  <2>4. QED
    BY <2>1, <2>2, <2>3, WordCount
<1>4. {p \in B : own[p] \in S} = {p \in OneBits(b) : from <= p /\ p < hi * WordSize}
  <2>1. ASSUME NEW p \in OneBits(b), from <= p
        PROVE  p \div WordSize \in S <=> p < hi * WordSize
    <3>1. p \in Int /\ p \div WordSize \in Int
      BY BitsFinite, PositionOf
    <3>2. lo * WordSize <= p
      BY <1>1, <2>1, <3>1
    <3>3. lo <= p \div WordSize
      BY <1>1, <3>1, <3>2, DivBounds
    <3>4. p < hi * WordSize <=> p \div WordSize < hi
      BY <1>1, <3>1, DivBounds
    <3>5. QED
      BY <1>1, <3>1, <3>3, <3>4
  <2>2. QED
    BY <2>1
<1>5. QED
  BY <1>2, <1>3, <1>4 DEF Counts, Between, InWords, OnesFrom, WordNumbers, WordCounts

(* OnesBefore counts the 1 bits before a word. *)
LEMMA OnesBeforeIs ==
  ASSUME NEW b, BitvectorOK(b), NEW i \in 0 .. NumWords(b.num_bits)
  PROVE  OnesBefore(b, i) = OnesUpTo(b, i * WordSize)
<1> DEFINE S == 0 .. i - 1
           B == OnesFrom(b, 0)
           own == WordNumbers(b, 0)
           count == WordCounts(b, 0, S)
           target == Cardinality(InWords(B, own, S))
           sum == CHOOSE g : g = [s \in SUBSET S |->
                    IF s = {} THEN 0
                    ELSE Cardinality(WordAt(b, PickOf(s))) + g[s \ {PickOf(s)}]]
<1>1. /\ WordSize \in Nat \ {0} /\ NumWords(b.num_bits) \in Nat /\ i \in Nat
      /\ 0 * WordSize <= 0 /\ 0 \in 0 .. NumWords(b.num_bits) /\ i \in 0 .. NumWords(b.num_bits)
  <2>1. WordSize \in Nat \ {0} /\ NumWords(b.num_bits) \in Nat
    BY BitvectorAssumption, NumWordsBounds DEF BitvectorOK
  <2> HIDE DEF NumWords
  <2>2. QED
    BY <2>1
<1>2. Counts(S, B, own, count) /\ target = Between(b, 0, i * WordSize)
  BY <1>1, WordsCount
<1>3. OnesBefore(b, i) = sum[S]
  BY DEF OnesBefore, MapThenSumSet, MapThenFoldSet, PickOf
<1>4. \A s \in SUBSET S : s # {} => count[PickOf(s)] = Cardinality(WordAt(b, PickOf(s)))
  <2>1. ASSUME NEW j \in S
        PROVE  count[j] = Cardinality(WordAt(b, j))
    <3>1. j \in 0 .. NumWords(b.num_bits) - 1 /\ j \in Nat /\ j * WordSize \in Nat
      BY <1>1
    <3>2. WordAt(b, j) \in SUBSET (0 .. WordSize - 1)
      BY <3>1, WordHasBits DEF Word
    <3>3. WordFrom(b, 0, j) = WordAt(b, j)
      BY <1>1, <3>1, <3>2 DEF WordFrom
    <3>4. QED
      BY <3>3 DEF WordCounts
  <2>2. \A s \in SUBSET S : s # {} => PickOf(s) \in S
    BY DEF PickOf
  <2> HIDE DEF S, count
  <2>3. QED
    BY <2>1, <2>2
<1> HIDE DEF own, count, S, B
<1>5. /\ \E h : SumsUp(h, S, count)
      /\ \A g : SumsUp(g, S, count) => g[S] = target
  BY <1>2, SumOfWords
<1> HIDE DEF target
<1>5a. PICK h : SumsUp(h, S, count)
  BY <1>5
<1>6. h = [s \in SUBSET S |->
             IF s = {} THEN 0 ELSE Cardinality(WordAt(b, PickOf(s))) + h[s \ {PickOf(s)}]]
  BY <1>4, <1>5a DEF SumsUp
<1>7. sum = [s \in SUBSET S |->
               IF s = {} THEN 0 ELSE Cardinality(WordAt(b, PickOf(s))) + sum[s \ {PickOf(s)}]]
  BY <1>6
<1> HIDE DEF sum
<1>8. SumsUp(sum, S, count)
  BY <1>4, <1>7 DEF SumsUp
<1>9. OnesBefore(b, i) = Between(b, 0, i * WordSize)
  BY <1>2, <1>3, <1>5, <1>8
<1>10. Between(b, 0, i * WordSize) = OnesUpTo(b, i * WordSize)
  <2>1. \A p \in OneBits(b) : 0 <= p
    BY DEF OneBits
  <2>2. {p \in OneBits(b) : 0 <= p /\ p < i * WordSize} = {p \in OneBits(b) : p < i * WordSize}
    BY <2>1
  <2>3. QED
    BY <2>2 DEF Between, OnesUpTo
<1>11. QED
  BY <1>9, <1>10

(* Where numbers grow from below n to n or more, they do so at some step. *)
LEMMA Crossing ==
  ASSUME NEW lo \in Int, NEW hi \in Int, lo <= hi, NEW c, NEW n \in Int,
         \A i \in lo .. hi : c[i] \in Int,
         c[lo] < n, n <= c[hi]
  PROVE  \E i \in lo .. hi - 1 : c[i] < n /\ n <= c[i + 1]
<1> DEFINE T == {d \in Nat : lo + d <= hi /\ n <= c[lo + d]}
<1>1. T # {}
  <2> DEFINE d == hi - lo
  <2>1. d \in Nat /\ lo + d = hi
    OBVIOUS
  <2> HIDE DEF d
  <2>2. d \in T
    BY <2>1
  <2>3. QED
    BY <2>2
<1>2. PICK d \in T : \A m \in T : d <= m
  <2>1. T \in SUBSET Nat
    OBVIOUS
  <2> HIDE DEF T
  <2>2. QED
    BY <1>1, <2>1, LeastNatural
<1>3. d \in Nat /\ lo + d <= hi /\ n <= c[lo + d]
  BY <1>2
<1>4. d # 0
  <2>1. lo + 0 = lo /\ lo \in lo .. hi
    OBVIOUS
  <2>2. c[lo] \in Int
    BY <2>1
  <2>3. CASE d = 0
    <3>1. n <= c[lo]
      BY <1>3, <2>1, <2>3
    <3>2. QED
      BY <2>2, <3>1
  <2>4. QED
    BY <2>3
<1> DEFINE i == lo + (d - 1)
<1>5. i \in lo .. hi - 1 /\ i + 1 = lo + d /\ i \in lo .. hi /\ d - 1 \in Nat
  BY <1>3, <1>4
<1>6. ~(n <= c[i])
  <2>1. d - 1 \notin T
    BY <1>2, <1>3, <1>5
  <2>2. lo + (d - 1) <= hi
    BY <1>3, <1>5
  <2>3. QED
    BY <1>5, <2>1, <2>2
<1> HIDE DEF i
<1>7. c[i] < n
  BY <1>5, <1>6
<1>8. QED
  BY <1>3, <1>5, <1>7

(* The k-th 1 bit of a word, from position from on. *)
LEMMA WordSelect ==
  ASSUME NEW b, BitvectorOK(b), NEW i \in 0 .. NumWords(b.num_bits) - 1, NEW from \in Int,
         NEW k \in 1 .. Cardinality(WordFrom(b, from, i))
  PROVE  LET p == i * WordSize + SelectInWord(WordFrom(b, from, i), k)
             base == IF from <= i * WordSize THEN i * WordSize ELSE from
         IN  /\ p \in OneBits(b)
             /\ OnesUpTo(b, p + 1) = OnesUpTo(b, base) + k
<1> DEFINE w == WordFrom(b, from, i)
           q == SelectInWord(w, k)
           p == i * WordSize + q
           base == IF from <= i * WordSize THEN i * WordSize ELSE from
           T == {o \in Word : from <= i * WordSize + o /\ o < q + 1}
<1>1. WordSize \in Nat \ {0} /\ i \in Int /\ i * WordSize \in Int
  BY BitvectorAssumption
<1>2. w \in SUBSET Word /\ WordAt(b, i) \in SUBSET Word
  BY WordCount, WordHasBits
<1>3. q \in w /\ Cardinality(Part(w, 0, q + 1)) = k
  <2>1. k \in 1 .. Cardinality(w)
    OBVIOUS
  <2> HIDE DEF w
  <2>2. QED
    BY <1>2, <2>1, SelectInWordCorrect
<1> HIDE DEF q
<1>4. q \in 0 .. WordSize - 1 /\ q \in Word /\ q \in WordAt(b, i) /\ from <= i * WordSize + q
  BY <1>2, <1>3 DEF Word, WordFrom
<1>5. p \in OneBits(b) /\ p \in Int
  BY <1>1, <1>4, WordHasBits, BitsFinite
<1>6. {o \in WordAt(b, i) : o \in T} = Part(w, 0, q + 1)
  <2>1. \A o \in WordAt(b, i) : 0 <= o
    BY <1>2 DEF Word
  <2>2. QED
    BY <1>2, <2>1 DEF Part, WordFrom
<1>7. {x \in OneBits(b) : x \div WordSize = i /\ x % WordSize \in T}
        = {x \in OneBits(b) : base <= x /\ x < p + 1}
  <2> SUFFICES ASSUME NEW x \in OneBits(b)
               PROVE  x \div WordSize = i /\ x % WordSize \in T <=> base <= x /\ x < p + 1
    OBVIOUS
  <2> DEFINE v == x \div WordSize
             o == x % WordSize
  <2>1. /\ x \in Int /\ v \in Int /\ o \in Word /\ o \in 0 .. WordSize - 1
        /\ x = v * WordSize + o
    BY BitsFinite, PositionOf DEF Word
  <2>2. i * WordSize <= x <=> i <= v
    BY <1>1, <2>1, DivBounds
  <2>3. x < (i + 1) * WordSize <=> v < i + 1
    BY <1>1, <2>1, DivBounds
  <2>4. (i + 1) * WordSize = i * WordSize + WordSize
    BY <1>1
  <2> HIDE DEF v, o
  <2>5. CASE v = i
    <3>1. x = i * WordSize + o
      BY <2>1, <2>5
    <3>2. o \in T <=> from <= x /\ x < p + 1
      BY <1>1, <1>4, <2>1, <3>1
    <3>3. i * WordSize <= x
      BY <1>1, <2>2, <2>5
    <3>4. from <= x <=> base <= x
      BY <1>1, <2>1, <3>3
    <3>5. QED
      BY <2>5, <3>2, <3>4 DEF v, o
  <2>6. CASE v # i
    <3>1. base <= x => i <= v
      BY <1>1, <2>1, <2>2
    <3>2. x < p + 1 => v < i + 1
      BY <1>1, <1>4, <2>1, <2>3, <2>4
    <3>3. QED
      BY <1>1, <2>1, <2>6, <3>1, <3>2 DEF v
  <2>7. QED
    BY <2>5, <2>6
<1>8. Cardinality({o \in WordAt(b, i) : o \in T})
        = Cardinality({x \in OneBits(b) : x \div WordSize = i /\ x % WordSize \in T})
  BY BitsOfWord
<1>9. Between(b, base, p + 1) = k
  BY <1>3, <1>6, <1>7, <1>8 DEF Between
<1>10. base \in Int /\ p + 1 \in Int /\ base <= p + 1
  BY <1>1, <1>4, <1>5
<1>11. OnesUpTo(b, p + 1) = OnesUpTo(b, base) + k
  <2> HIDE DEF base, p
  <2>1. QED
    BY <1>9, <1>10, CountFurther
<1>12. QED
  BY <1>5, <1>11 DEF q

-------------------------------------------------------------------------------
(* The table and the walk *)

(* From position from on, a word that lies behind it is whole. *)
LEMMA WholeWord ==
  ASSUME NEW b, BitvectorOK(b), NEW i \in 0 .. NumWords(b.num_bits) - 1, NEW from \in Int,
         from <= i * WordSize
  PROVE  WordFrom(b, from, i) = WordAt(b, i)
<1>1. i * WordSize \in Int
  <2>1. NumWords(b.num_bits) \in Nat /\ WordSize \in Nat \ {0}
    BY BitvectorAssumption, NumWordsBounds DEF BitvectorOK
  <2> HIDE DEF NumWords
  <2>2. i \in Int
    BY <2>1
  <2>3. QED
    BY <2>1, <2>2
<1>2. WordAt(b, i) \in SUBSET (0 .. WordSize - 1)
  BY WordHasBits DEF Word
<1>3. QED
  BY <1>1, <1>2 DEF WordFrom

(* Counting on by a word. *)
LEMMA WordStep ==
  ASSUME NEW b, BitvectorOK(b), NEW i \in 0 .. NumWords(b.num_bits) - 1, NEW from \in Int,
         from <= (i + 1) * WordSize
  PROVE  LET base == IF from <= i * WordSize THEN i * WordSize ELSE from
         IN  OnesUpTo(b, (i + 1) * WordSize)
               = OnesUpTo(b, base) + Cardinality(WordFrom(b, from, i))
<1> DEFINE base == IF from <= i * WordSize THEN i * WordSize ELSE from
           end == (i + 1) * WordSize
<1>1. WordSize \in Nat \ {0} /\ i \in Int
  <2>1. NumWords(b.num_bits) \in Nat /\ WordSize \in Nat \ {0}
    BY BitvectorAssumption, NumWordsBounds DEF BitvectorOK
  <2> HIDE DEF NumWords
  <2>2. QED
    BY <2>1
<1>2. i * WordSize \in Int /\ end = i * WordSize + WordSize
  BY <1>1
<1>3. base \in Int /\ end \in Int /\ base <= end
  BY <1>1, <1>2
<1>4. {p \in OneBits(b) : from <= p /\ p \div WordSize = i}
        = {p \in OneBits(b) : base <= p /\ p < end}
  <2> SUFFICES ASSUME NEW p \in OneBits(b)
               PROVE  from <= p /\ p \div WordSize = i <=> base <= p /\ p < end
    OBVIOUS
  <2> DEFINE v == p \div WordSize
  <2>1. p \in Int /\ v \in Int
    BY BitsFinite, PositionOf
  <2>2. i * WordSize <= p <=> i <= v
    BY <1>1, <2>1, DivBounds
  <2>3. p < end <=> v < i + 1
    BY <1>1, <2>1, DivBounds
  <2> HIDE DEF v, end
  <2>4. base <= p <=> from <= p /\ i * WordSize <= p
    BY <1>2, <2>1
  <2>5. QED
    BY <1>1, <2>1, <2>2, <2>3, <2>4 DEF v
<1>5. Cardinality(WordFrom(b, from, i)) = Between(b, base, end)
  BY <1>4, WordCount DEF Between
<1> HIDE DEF base, end
<1>6. OnesUpTo(b, end) = OnesUpTo(b, base) + Cardinality(WordFrom(b, from, i))
  BY <1>3, <1>5, CountFurther
<1>7. QED
  BY <1>6 DEF base, end

(* All words together have all 1 bits, and before the first there is none. *)
LEMMA AllOnes ==
  ASSUME NEW b, BitvectorOK(b)
  PROVE  /\ Cardinality(OneBits(b)) \in Nat
         /\ OnesUpTo(b, NumWords(b.num_bits) * WordSize) = Cardinality(OneBits(b))
         /\ OnesUpTo(b, 0) = 0
         /\ \A i \in 0 .. NumWords(b.num_bits) : OnesBefore(b, i) \in Nat
<1> DEFINE n == NumWords(b.num_bits)
<1>1. b.num_bits \in Nat /\ n \in Nat /\ b.num_bits <= n * WordSize /\ WordSize \in Nat \ {0}
  BY BitvectorAssumption, NumWordsBounds DEF BitvectorOK
<1> HIDE DEF n
<1>2. \A p \in OneBits(b) : p \in 0 .. b.num_bits - 1
  BY DEF OneBits
<1>3. {p \in OneBits(b) : p < n * WordSize} = OneBits(b)
  <2>1. n * WordSize \in Int
    BY <1>1
  <2>2. QED
    BY <1>1, <1>2, <2>1
<1>4. {p \in OneBits(b) : p < 0} = {}
  BY <1>1, <1>2
<1>5. Cardinality(OneBits(b)) \in Nat
  BY BitsFinite
<1>6. OnesUpTo(b, 0) = 0
  BY <1>4, FS_EmptySet DEF OnesUpTo
<1>7. ASSUME NEW i \in 0 .. n
      PROVE  OnesBefore(b, i) \in Nat
  <2>1. i * WordSize \in Int
    BY <1>1
  <2>2. OnesUpTo(b, i * WordSize) \in Nat
    BY <2>1, CountFurther
  <2>3. QED
    BY <2>2, OnesBeforeIs DEF n
<1>8. QED
  BY <1>3, <1>5, <1>6, <1>7 DEF OnesUpTo, n

(* initSelectLut: entry i > 0 is the position of the 1 bit of rank
   i * kSelectSampleInterval. *)
LEMMA SelectLutCorrect ==
  ASSUME NEW b, BitvectorOK(b),
         NEW i \in 1 .. Cardinality(OneBits(b)) \div SampleInterval
  PROVE  /\ SelectLut(b)[i] \in OneBits(b)
         /\ OnesUpTo(b, SelectLut(b)[i] + 1) = i * SampleInterval
<1> DEFINE m == NumWords(b.num_bits)
           all == Cardinality(OneBits(b))
           n == i * SampleInterval
           word == CHOOSE v \in 0 .. m - 1 : OnesBefore(b, v) < n /\ n <= OnesBefore(b, v + 1)
           k == n - OnesBefore(b, word)
           c == [v \in 0 .. m |-> OnesBefore(b, v)]
<1>1. /\ m \in Nat /\ SampleInterval \in Nat \ {0} /\ WordSize \in Nat \ {0}
      /\ all \in Nat /\ all \div SampleInterval \in Int
  <2>1. m \in Nat
    BY NumWordsBounds DEF BitvectorOK
  <2>2. all \in Nat /\ SampleInterval \in Nat \ {0} /\ WordSize \in Nat \ {0}
    BY AllOnes, BitvectorAssumption
  <2> HIDE DEF all, m
  <2>3. QED
    BY <2>1, <2>2, DivMod
<1>2. \A v \in 0 .. m : OnesBefore(b, v) \in Nat /\ OnesBefore(b, v) = OnesUpTo(b, v * WordSize)
  BY AllOnes, OnesBeforeIs
<1>3. OnesBefore(b, 0) = 0 /\ OnesBefore(b, m) = all
  <2>1. 0 \in 0 .. m /\ m \in 0 .. m /\ 0 * WordSize = 0
    BY <1>1
  <2>2. QED
    BY <1>2, <2>1, AllOnes
<1>4. SelectLut(b)[i] = word * WordSize + SelectInWord(WordAt(b, word), k)
  <2>1. i \in 0 .. OnesBefore(b, m) \div SampleInterval /\ i # 0
    BY <1>1, <1>3
  <2>2. QED
    BY <2>1 DEF SelectLut, SampledRank
<1> HIDE DEF all, m
<1>5. n \in Int /\ 0 < n /\ n <= all
  <2>1. i \in Nat \ {0}
    BY <1>1
  <2>2. n \in Int /\ 0 < n
    BY <1>1, <2>1
  <2>3. i <= all \div SampleInterval
    BY DEF all
  <2>4. n <= all
    BY <1>1, <2>1, <2>3, DivBounds
  <2>5. QED
    BY <2>2, <2>4
<1> HIDE DEF n
<1>6. \E v \in 0 .. m - 1 : OnesBefore(b, v) < n /\ n <= OnesBefore(b, v + 1)
  <2>1. \A v \in 0 .. m : c[v] = OnesBefore(b, v) /\ c[v] \in Int
    BY <1>2
  <2>2. 0 \in 0 .. m /\ m \in 0 .. m /\ 0 \in Int /\ m \in Int /\ 0 <= m
    BY <1>1
  <2> HIDE DEF c
  <2>3. c[0] < n /\ n <= c[m]
    BY <1>3, <1>5, <2>1, <2>2
  <2>4. PICK v \in 0 .. m - 1 : c[v] < n /\ n <= c[v + 1]
    BY <1>5, <2>1, <2>2, <2>3, Crossing
  <2>5. v \in 0 .. m /\ v + 1 \in 0 .. m
    BY <1>1
  <2>6. QED
    BY <2>1, <2>4, <2>5
<1>7. word \in 0 .. m - 1 /\ OnesBefore(b, word) < n /\ n <= OnesBefore(b, word + 1)
  BY <1>6
<1> HIDE DEF word
<1>8. word \in 0 .. m /\ word + 1 \in 0 .. m /\ word \in Int
  BY <1>1, <1>7
<1>9. 0 <= word * WordSize /\ 0 <= (word + 1) * WordSize /\ word * WordSize \in Int
  BY <1>1, <1>7
<1>10. WordFrom(b, 0, word) = WordAt(b, word)
  BY <1>7, <1>9, WholeWord DEF m
<1>11. /\ OnesBefore(b, word) \in Nat /\ OnesBefore(b, word + 1) \in Nat
       /\ OnesBefore(b, word) = OnesUpTo(b, word * WordSize)
       /\ OnesBefore(b, word + 1) = OnesUpTo(b, (word + 1) * WordSize)
  BY <1>2, <1>8
<1>12. OnesUpTo(b, (word + 1) * WordSize)
         = OnesUpTo(b, word * WordSize) + Cardinality(WordAt(b, word))
  BY <1>7, <1>9, <1>10, WordStep DEF m
<1>13. Cardinality(WordAt(b, word)) \in Nat
  <2>1. WordAt(b, word) \in SUBSET Word
    BY <1>7, WordHasBits DEF m
  <2>2. QED
    BY <2>1, OffsetsFinite
<1>14. k \in 1 .. Cardinality(WordAt(b, word)) /\ OnesUpTo(b, word * WordSize) + k = n
  BY <1>5, <1>7, <1>11, <1>12, <1>13
<1> HIDE DEF k
<1> DEFINE p == word * WordSize + SelectInWord(WordAt(b, word), k)
<1>15. p \in OneBits(b) /\ OnesUpTo(b, p + 1) = OnesUpTo(b, word * WordSize) + k
  <2>1. k \in 1 .. Cardinality(WordFrom(b, 0, word))
    BY <1>10, <1>14
  <2>2. QED
    BY <1>7, <1>9, <1>10, <2>1, WordSelect DEF m
<1>16. QED
  BY <1>4, <1>14, <1>15 DEF n

(* What initSelectLut leaves in a bit vector. *)
SelectOK(b) ==
  /\ b.num_ones = Cardinality(OneBits(b))
  /\ b.select_lut[0] = 0
  /\ \A i \in 1 .. Cardinality(OneBits(b)) \div SampleInterval :
       /\ b.select_lut[i] \in OneBits(b)
       /\ OnesUpTo(b, b.select_lut[i] + 1) = i * SampleInterval

(* select starts at a 1 bit, left 1 bits before the one it looks for. *)
LEMMA SelectStart ==
  ASSUME NEW b, BitvectorOK(b), SelectOK(b), 0 \in OneBits(b),
         NEW rank \in 1 .. Cardinality(OneBits(b))
  PROVE  /\ RanksLeft(rank) \in Nat
         /\ b.select_lut[rank \div SampleInterval] \in OneBits(b)
         /\ OnesUpTo(b, b.select_lut[rank \div SampleInterval] + 1) = rank - RanksLeft(rank)
<1> DEFINE idx == rank \div SampleInterval
           rest == rank % SampleInterval
           all == Cardinality(OneBits(b))
<1>1. /\ SampleInterval \in Nat \ {0} /\ all \in Nat /\ rank \in Nat \ {0} /\ rank <= all
  BY BitvectorAssumption, AllOnes
<1>2. /\ idx \in Int /\ rest \in 0 .. SampleInterval - 1
      /\ rank = idx * SampleInterval + rest
  BY <1>1, DivMod
<1>3. 0 <= idx
  <2>1. 0 * SampleInterval <= rank
    BY <1>1
  <2>2. QED
    BY <1>1, <2>1, DivBounds
<1>4. rank < SampleInterval <=> idx = 0
  <2>1. 1 * SampleInterval <= rank <=> 1 <= idx
    BY <1>1, DivBounds
  <2> HIDE DEF idx
  <2>2. QED
    BY <1>1, <1>2, <1>3, <2>1
<1>5. RanksLeft(rank) = rest - (IF rank < SampleInterval THEN 1 ELSE 0)
  BY DEF RanksLeft
<1>6. CASE idx = 0
  <2>1. RanksLeft(rank) = rank - 1
    <3> HIDE DEF idx, rest
    <3>1. 0 * SampleInterval = 0
      BY <1>1
    <3>2. QED
      BY <1>1, <1>2, <1>4, <1>5, <1>6, <3>1
  <2>2. b.select_lut[idx] = 0
    BY <1>6 DEF SelectOK
  <2>3. OnesUpTo(b, 0 + 1) = 1
    <3>1. {p \in OneBits(b) : p < 0 + 1} = {0}
      BY DEF OneBits, BitvectorOK
    <3>2. QED
      BY <3>1, FS_Singleton DEF OnesUpTo
  <2>4. RanksLeft(rank) \in Nat /\ rank - RanksLeft(rank) = 1
    BY <1>1, <2>1
  <2>5. QED
    BY <2>2, <2>3, <2>4
<1>7. CASE idx # 0
  <2>1. idx \in 1 .. all \div SampleInterval
    <3>1. idx * SampleInterval <= all
      <4> HIDE DEF idx, rest
      <4>1. idx * SampleInterval \in Int
        BY <1>1, <1>2
      <4>2. QED
        BY <1>1, <1>2, <4>1
    <3>2. idx <= all \div SampleInterval
      <4> HIDE DEF idx
      <4>1. QED
        BY <1>1, <1>2, <3>1, DivBounds
    <3>3. all \div SampleInterval \in Int
      BY <1>1, DivMod
    <3> HIDE DEF idx
    <3>4. QED
      BY <1>2, <1>3, <1>7, <3>2, <3>3
  <2>2. b.select_lut[idx] \in OneBits(b) /\ OnesUpTo(b, b.select_lut[idx] + 1) = idx * SampleInterval
    BY <2>1 DEF SelectOK
  <2> HIDE DEF idx, rest
  <2>3. RanksLeft(rank) = rest
    BY <1>1, <1>2, <1>4, <1>5, <1>7
  <2>4. rank - RanksLeft(rank) = idx * SampleInterval
    <3>1. idx * SampleInterval \in Int
      BY <1>1, <1>2
    <3>2. QED
      BY <1>1, <1>2, <2>3, <3>1
  <2>5. QED
    BY <1>2, <2>2, <2>3, <2>4 DEF idx
<1>8. QED
  BY <1>6, <1>7

(* select finds the 1 bit of a rank. *)
LEMMA SelectCorrect ==
  ASSUME NEW b, BitvectorOK(b), SelectOK(b), 0 \in OneBits(b),
         NEW rank \in 1 .. Cardinality(OneBits(b))
  PROVE  /\ Select(b, rank) \in OneBits(b)
         /\ OnesUpTo(b, Select(b, rank) + 1) = rank
<1> DEFINE m == NumWords(b.num_bits)
           all == Cardinality(OneBits(b))
           left == RanksLeft(rank)
           pos == b.select_lut[rank \div SampleInterval]
           from == pos + 1
           start == from \div WordSize
           word(i) == IF i = start
                      THEN {o \in WordAt(b, i) : o >= from % WordSize}
                      ELSE WordAt(b, i)
           passed(i) == MapThenSumSet(LAMBDA j : Cardinality(word(j)), start .. i - 1)
           found == CHOOSE i \in start .. m - 1 : passed(i) < left /\ left <= passed(i + 1)
<1>1. /\ m \in Nat /\ WordSize \in Nat \ {0} /\ b.num_bits \in Nat /\ b.num_bits <= m * WordSize
      /\ all \in Nat /\ rank \in Nat \ {0} /\ rank <= all /\ m * WordSize \in Int
  <2>1. /\ m \in Nat /\ WordSize \in Nat \ {0} /\ b.num_bits \in Nat /\ b.num_bits <= m * WordSize
    BY BitvectorAssumption, NumWordsBounds DEF BitvectorOK
  <2>2. all \in Nat
    BY AllOnes
  <2> HIDE DEF m, all
  <2>3. rank \in Nat \ {0} /\ rank <= all
    BY <2>2 DEF all
  <2>4. QED
    BY <2>1, <2>2, <2>3
<1>2. left \in Nat /\ pos \in OneBits(b) /\ OnesUpTo(b, from) = rank - left
  BY SelectStart
<1>3. Select(b, rank) = IF left = 0 THEN pos
                        ELSE found * WordSize + SelectInWord(word(found), left - passed(found))
  BY DEF Select
<1>4. CASE left = 0
  <2> HIDE DEF left, pos, found, word, passed
  <2>1. Select(b, rank) = pos /\ OnesUpTo(b, pos + 1) = rank
    BY <1>1, <1>2, <1>3, <1>4
  <2>2. QED
    BY <1>2, <2>1
<1>5. CASE left # 0
  <2>1. pos \in 0 .. b.num_bits - 1
    BY <1>2 DEF OneBits
  <2>2. from \in Int /\ from <= m * WordSize /\ 0 <= from
    BY <1>1, <2>1
  <2> HIDE DEF left, pos, m, all
  <2>3. OnesUpTo(b, m * WordSize) = OnesUpTo(b, from) + Between(b, from, m * WordSize)
    BY <1>1, <2>2, CountFurther
  <2>4. Between(b, from, m * WordSize) = all - (rank - left) /\ Between(b, from, m * WordSize) \in Nat
    <3>1. Between(b, from, m * WordSize) \in Nat
      BY <1>1, <2>2, CountFurther
    <3>2. OnesUpTo(b, m * WordSize) = all
      BY AllOnes DEF m, all
    <3>3. QED
      BY <1>1, <1>2, <2>3, <3>1, <3>2
  <2>5. left <= Between(b, from, m * WordSize)
    BY <1>1, <1>2, <2>4
  <2>6. from < m * WordSize
    <3>1. CASE from = m * WordSize
      <4>1. {p \in OneBits(b) : from <= p /\ p < m * WordSize} = {}
        <5>1. \A p \in OneBits(b) : p \in Int
          BY BitsFinite
        <5>2. QED
          BY <1>1, <2>2, <3>1, <5>1
      <4>2. Between(b, from, m * WordSize) = 0
        BY <4>1, FS_EmptySet DEF Between
      <4>3. QED
        BY <1>2, <1>5, <2>5, <4>2
    <3>2. QED
      BY <1>1, <2>2, <3>1
  <2>7. /\ start \in 0 .. m - 1 /\ from % WordSize \in Word
        /\ from = start * WordSize + (from % WordSize)
    <3>1. start \in Int /\ from % WordSize \in Word /\ from = start * WordSize + (from % WordSize)
      BY <2>2, PositionOf
    <3>2. start < m
      BY <1>1, <2>2, <2>6, DivBounds
    <3>3. 0 * WordSize <= from
      BY <1>1, <2>2
    <3>4. 0 <= start
      BY <1>1, <2>2, <3>3, DivBounds
    <3> HIDE DEF start
    <3>5. QED
      BY <1>1, <3>1, <3>2, <3>4
  <2> HIDE DEF start
  <2>8. start \in 0 .. m /\ start \in Int /\ start * WordSize \in Int /\ start * WordSize <= from
    BY <1>1, <2>2, <2>7 DEF Word
  <2>9. ASSUME NEW j \in start .. m - 1
        PROVE  word(j) = WordFrom(b, from, j)
    <3>1. j \in 0 .. m - 1 /\ j \in Int
      BY <1>1, <2>7
    <3>2. CASE j = start
      <4>1. WordAt(b, j) \in SUBSET (0 .. WordSize - 1)
        BY <3>1, WordHasBits DEF Word, m
      <4>2. \A o \in WordAt(b, j) : o >= from % WordSize <=> from <= j * WordSize + o
        BY <1>1, <2>7, <2>8, <3>2, <4>1 DEF Word
      <4>3. QED
        BY <3>2, <4>2 DEF WordFrom
    <3>3. CASE j # start
      <4>1. start + 1 <= j
        BY <2>8, <3>1, <3>3
      <4>2. (start + 1) * WordSize <= j * WordSize
        BY <1>1, <2>8, <3>1, <4>1, TimesMonotone
      <4>3. (start + 1) * WordSize = start * WordSize + WordSize
        BY <1>1, <2>8
      <4>4. j * WordSize \in Int
        BY <1>1, <3>1
      <4>5. from <= j * WordSize
        BY <1>1, <2>7, <2>8, <4>2, <4>3, <4>4 DEF Word
      <4>6. WordFrom(b, from, j) = WordAt(b, j)
        BY <2>2, <3>1, <4>5, WholeWord DEF m
      <4>7. QED
        BY <3>3, <4>6
    <3>4. QED
      BY <3>2, <3>3
  <2>10. ASSUME NEW i \in start .. m
         PROVE  passed(i) = Between(b, from, i * WordSize)
    <3> DEFINE S == start .. i - 1
               B == OnesFrom(b, from)
               own == WordNumbers(b, from)
               count == WordCounts(b, from, S)
               target == Cardinality(InWords(B, own, S))
               sum == CHOOSE g : g = [s \in SUBSET S |->
                        IF s = {} THEN 0
                        ELSE Cardinality(word(PickOf(s))) + g[s \ {PickOf(s)}]]
    <3>1. Counts(S, B, own, count) /\ target = Between(b, from, i * WordSize)
      BY <2>2, <2>8, WordsCount DEF m
    <3>2. passed(i) = sum[S]
      BY DEF MapThenSumSet, MapThenFoldSet, PickOf
    <3> HIDE DEF passed
    <3>3. \A s \in SUBSET S : s # {} => count[PickOf(s)] = Cardinality(word(PickOf(s)))
      <4>1. ASSUME NEW j \in S
            PROVE  count[j] = Cardinality(word(j))
        <5>1. j \in start .. m - 1
          BY <1>1, <2>8
        <5>2. word(j) = WordFrom(b, from, j)
          BY <2>9, <5>1
        <5> HIDE DEF word
        <5>3. QED
          BY <5>2 DEF WordCounts
      <4>2. \A s \in SUBSET S : s # {} => PickOf(s) \in S
        BY DEF PickOf
      <4> HIDE DEF S, count, word
      <4>3. QED
        BY <4>1, <4>2
    <3> HIDE DEF own, count, S, B, word
    <3>4. /\ \E h : SumsUp(h, S, count)
          /\ \A g : SumsUp(g, S, count) => g[S] = target
      BY <3>1, SumOfWords
    <3> HIDE DEF target
    <3>5. PICK h : SumsUp(h, S, count)
      BY <3>4
    <3>6. h = [s \in SUBSET S |->
                 IF s = {} THEN 0 ELSE Cardinality(word(PickOf(s))) + h[s \ {PickOf(s)}]]
      BY <3>3, <3>5 DEF SumsUp
    <3>7. sum = [s \in SUBSET S |->
                   IF s = {} THEN 0 ELSE Cardinality(word(PickOf(s))) + sum[s \ {PickOf(s)}]]
      BY <3>6
    <3> HIDE DEF sum
    <3>8. SumsUp(sum, S, count)
      BY <3>3, <3>7 DEF SumsUp
    <3>9. QED
      BY <3>1, <3>2, <3>4, <3>8
  <2> HIDE DEF word, passed
  <2>11. \E i \in start .. m - 1 : passed(i) < left /\ left <= passed(i + 1)
    <3> DEFINE c == [i \in start .. m |-> passed(i)]
    <3>1. \A i \in start .. m : c[i] = passed(i) /\ c[i] \in Int
      <4>1. ASSUME NEW i \in start .. m
            PROVE  passed(i) \in Int
        <5>1. i * WordSize \in Int
          BY <1>1, <2>8
        <5>2. IsFiniteSet({p \in OneBits(b) : from <= p /\ p < i * WordSize})
          BY BitsFinite
        <5>3. Between(b, from, i * WordSize) \in Nat
          BY <5>2, FS_CardinalityType DEF Between
        <5>4. QED
          BY <2>10, <5>3
      <4>2. QED
        BY <4>1
    <3>2. start \in start .. m /\ m \in start .. m /\ m \in Int /\ start <= m
      BY <1>1, <2>8
    <3>3. passed(start) = 0
      <4>1. {p \in OneBits(b) : from <= p /\ p < start * WordSize} = {}
        <5>1. \A p \in OneBits(b) : p \in Int
          BY BitsFinite
        <5>2. QED
          BY <2>2, <2>8, <5>1
      <4>2. QED
        BY <2>10, <3>2, <4>1, FS_EmptySet DEF Between
    <3> HIDE DEF c
    <3>4. c[start] < left /\ left <= c[m]
      BY <1>2, <1>5, <2>5, <2>10, <3>1, <3>2, <3>3
    <3>5. PICK i \in start .. m - 1 : c[i] < left /\ left <= c[i + 1]
      <4>1. /\ start \in Int /\ m \in Int /\ start <= m /\ left \in Int
            /\ \A i \in start .. m : c[i] \in Int
        BY <1>2, <2>8, <3>1, <3>2
      <4>2. QED
        BY <3>4, <4>1, Crossing
    <3>6. i \in start .. m /\ i + 1 \in start .. m
      BY <1>1, <2>8
    <3>7. QED
      BY <3>1, <3>5, <3>6
  <2>12. found \in start .. m - 1 /\ passed(found) < left /\ left <= passed(found + 1)
    BY <2>11
  <2> HIDE DEF found
  <2> DEFINE base == IF from <= found * WordSize THEN found * WordSize ELSE from
             k == left - passed(found)
             next == (found + 1) * WordSize
             here == Cardinality(WordFrom(b, from, found))
  <2>13. /\ found \in 0 .. m - 1 /\ found \in start .. m /\ found + 1 \in start .. m
         /\ found \in Int
    BY <1>1, <2>8, <2>12
  <2>14. found * WordSize \in Int /\ next = found * WordSize + WordSize
    BY <1>1, <2>13
  <2>15. from <= next
    <3>1. start + 1 <= found + 1
      BY <2>8, <2>12, <2>13
    <3>2. (start + 1) * WordSize <= next
      BY <1>1, <2>8, <2>13, <3>1, TimesMonotone
    <3>3. (start + 1) * WordSize = start * WordSize + WordSize
      BY <1>1, <2>8
    <3> HIDE DEF next
    <3>4. QED
      BY <1>1, <2>7, <2>8, <2>14, <3>2, <3>3 DEF Word
  <2>16. OnesUpTo(b, next) = OnesUpTo(b, base) + here
    BY <2>2, <2>13, <2>15, WordStep DEF m
  <2>17. /\ passed(found) = Between(b, from, found * WordSize)
         /\ passed(found + 1) = Between(b, from, next)
    BY <2>10, <2>13
  <2>18. base \in Int /\ next \in Int /\ from <= base
    BY <1>1, <2>2, <2>14
  <2>19. Between(b, from, base) = Between(b, from, found * WordSize)
    <3>1. CASE from <= found * WordSize
      BY <3>1
    <3>2. CASE ~(from <= found * WordSize)
      <4>1. \A p \in OneBits(b) : p \in Int
        BY BitsFinite
      <4>2. base = from
        BY <3>2
      <4>3. {p \in OneBits(b) : from <= p /\ p < from}
              = {p \in OneBits(b) : from <= p /\ p < found * WordSize}
        BY <2>2, <2>14, <3>2, <4>1
      <4>4. QED
        BY <4>2, <4>3 DEF Between
    <3>3. QED
      BY <3>1, <3>2
  <2> HIDE DEF base, next, from
  <2>20. /\ OnesUpTo(b, from) \in Nat /\ OnesUpTo(b, base) \in Nat
         /\ passed(found) \in Nat /\ passed(found + 1) \in Nat
         /\ OnesUpTo(b, base) = OnesUpTo(b, from) + passed(found)
         /\ OnesUpTo(b, next) = OnesUpTo(b, from) + passed(found + 1)
    <3>1. /\ OnesUpTo(b, from) \in Nat /\ Between(b, from, base) \in Nat
          /\ OnesUpTo(b, base) = OnesUpTo(b, from) + Between(b, from, base)
      BY <2>2, <2>18, CountFurther
    <3>2. /\ Between(b, from, next) \in Nat
          /\ OnesUpTo(b, next) = OnesUpTo(b, from) + Between(b, from, next)
      BY <2>2, <2>15, <2>18, CountFurther
    <3>3. QED
      BY <2>17, <2>19, <3>1, <3>2
  <2>21. here \in Nat
    <3>1. WordFrom(b, from, found) \in SUBSET Word
      BY <2>2, <2>13, WordCount DEF m
    <3>2. QED
      BY <3>1, OffsetsFinite
  <2> HIDE DEF here
  <2>22. k \in 1 .. here /\ OnesUpTo(b, base) + k = rank
    BY <1>1, <1>2, <2>12, <2>16, <2>20, <2>21
  <2> HIDE DEF k
  <2>23. word(found) = WordFrom(b, from, found)
    BY <2>9, <2>12
  <2> DEFINE p == found * WordSize + SelectInWord(WordFrom(b, from, found), k)
  <2>24. p \in OneBits(b) /\ OnesUpTo(b, p + 1) = OnesUpTo(b, base) + k
    BY <2>2, <2>13, <2>22, WordSelect DEF here, base, m
  <2>25. Select(b, rank) = p
    BY <1>3, <1>5, <2>23 DEF k
  <2> HIDE DEF p
  <2>26. QED
    BY <2>22, <2>24, <2>25
<1>6. QED
  BY <1>4, <1>5

-------------------------------------------------------------------------------
(* The constructors *)

(* The plain bits of a list of levels with n bits. *)
OnesOf(list, n) ==
  {p \in 0 .. n - 1 :
     \E i \in 1 .. Len(list) :
       LET q == p - TotalNumBits(SubSeq(list, 1, i - 1))
       IN  /\ q \in 0 .. list[i].num_bits - 1
           /\ q % WordSize \in list[i].words[q \div WordSize + 1]}

(* The plain bits are the bits of the levels. *)
LEMMA OnesAreBits ==
  ASSUME NEW list \in Seq(Levels), NEW starts, Starts(starts, list)
  PROVE  OnesOf(list, starts[Len(list)]) = BitsOfLevels(starts, list, Len(list))
<1> DEFINE k == Len(list)
           n == starts[k]
           Bits == BitsOfLevels(starts, list, k)
           Ones1 == OnesOf(list, n)
<1>1. ListOK(list) /\ k \in Nat /\ n \in Int
  <2>1. ListOK(list) /\ k \in Nat
    BY ListsOK DEF ListOK
  <2>2. k \in 0 .. k
    BY <2>1
  <2>3. QED
    BY <2>1, <2>2 DEF Starts
<1>2. \A i \in 1 .. k : TotalNumBits(SubSeq(list, 1, i - 1)) = starts[i - 1] /\ starts[i - 1] \in Nat
  <2> TAKE i \in 1 .. k
  <2>1. i - 1 \in 0 .. k
    BY <1>1
  <2>2. QED
    BY <2>1, StartsTotal DEF Starts
<1>3. \A p \in Bits : p \in 0 .. n - 1
  BY <1>1, LevelsInside
<1>4. ASSUME NEW p \in 0 .. n - 1, NEW i \in 1 .. k
      PROVE  p \in Moved(starts[i - 1], LevelBits(list[i]))
               <=> LET q == p - TotalNumBits(SubSeq(list, 1, i - 1))
                   IN  /\ q \in 0 .. list[i].num_bits - 1
                       /\ q % WordSize \in list[i].words[q \div WordSize + 1]
  <2> DEFINE s == starts[i - 1]
             lvl == list[i]
             q == p - s
  <2>1. p \in Int /\ s \in Nat /\ TotalNumBits(SubSeq(list, 1, i - 1)) = s
    BY <1>1, <1>2
  <2>2. \A r \in LevelBits(lvl) : r \in Int
    BY DEF LevelBits
  <2> HIDE DEF s, lvl
  <2>3. p \in Moved(s, LevelBits(lvl)) <=> q \in LevelBits(lvl)
    <3>1. \A r \in LevelBits(lvl) : p = s + r <=> r = q
      BY <2>1, <2>2
    <3> HIDE DEF q
    <3>2. p \in Moved(s, LevelBits(lvl)) <=> \E r \in LevelBits(lvl) : p = s + r
      BY DEF Moved
    <3>3. QED
      BY <3>1, <3>2
  <2>4. q \in LevelBits(lvl) <=> /\ q \in 0 .. lvl.num_bits - 1
                                 /\ q % WordSize \in lvl.words[(q \div WordSize) + 1]
    BY DEF LevelBits
  <2>5. QED
    BY <2>1, <2>3, <2>4 DEF s, lvl
<1>5. \A p \in 0 .. n - 1 : p \in Ones1 <=> p \in Bits
  <2> TAKE p \in 0 .. n - 1
  <2>1. p \in Ones1 <=>
          \E i \in 1 .. k : LET q == p - TotalNumBits(SubSeq(list, 1, i - 1))
                            IN  /\ q \in 0 .. list[i].num_bits - 1
                                /\ q % WordSize \in list[i].words[q \div WordSize + 1]
    BY DEF OnesOf
  <2>2. p \in Bits <=> \E i \in 1 .. k : p \in Moved(starts[i - 1], LevelBits(list[i]))
    BY DEF BitsOfLevels
  <2>3. QED
    BY <1>4, <2>1, <2>2
<1>6. \A p \in Ones1 : p \in 0 .. n - 1
  BY DEF OnesOf
<1> HIDE DEF Ones1, Bits
<1>7. Ones1 = Bits
  BY <1>3, <1>5, <1>6
<1>8. QED
  BY <1>7 DEF Ones1, Bits

(* What the constructors make of a bit vector b for a list of levels. *)
BuiltFrom(b, list) ==
  /\ BitvectorOK(b)
  /\ OneBits(b) = OnesOf(list, b.num_bits)
  /\ \A i \in 0 .. b.num_bits \div RankBlock : b.rank_lut[i] = OnesUpTo(b, i * RankBlock)
  /\ SelectOK(b)

(* The constructors of Bitvector, BitvectorRank and BitvectorSelect. *)
LEMMA ConstructorsCorrect ==
  ASSUME NEW list \in Seq(Levels), NEW behind, NEW b,
         b = [num_bits |-> MakeRank(list, behind).num_bits,
              bits |-> MakeRank(list, behind).bits,
              junk |-> behind,
              rank_lut |-> MakeRank(list, behind).rank_lut,
              num_ones |-> MakeSelect(list, behind).num_ones,
              select_lut |-> MakeSelect(list, behind).select_lut]
  PROVE  BuiltFrom(b, list)
<1> DEFINE a == MakeBitvector(list, behind)
<1>1. /\ b.num_bits = a.num_bits /\ b.bits = a.bits
      /\ b.rank_lut = RankLut(a)
      /\ b.num_ones = OnesBefore(a, NumWords(a.num_bits))
      /\ b.select_lut = SelectLut(a)
  BY DEF MakeRank, MakeSelect
<1> HIDE DEF a
<1>2. PICK starts : Starts(starts, list)
  BY ListsOK, StartsExist
<1>3. /\ BitvectorOK(b) /\ b.num_bits = starts[Len(list)]
      /\ OneBits(b) = BitsOfLevels(starts, list, Len(list))
  BY <1>1, <1>2, ConcatenationCorrect DEF a
<1>4. /\ BitvectorOK(a) /\ OneBits(a) = BitsOfLevels(starts, list, Len(list))
  BY <1>2, ConcatenationCorrect DEF a
<1>5. OneBits(a) = OneBits(b)
  BY <1>3, <1>4
<1>6. OneBits(b) = OnesOf(list, b.num_bits)
  BY <1>2, <1>3, OnesAreBits
<1>7. \A end : OnesUpTo(a, end) = OnesUpTo(b, end)
  BY <1>5 DEF OnesUpTo
<1>8. \A i \in 0 .. b.num_bits \div RankBlock : b.rank_lut[i] = OnesUpTo(b, i * RankBlock)
  <2>1. \A i \in 0 .. a.num_bits \div RankBlock : RankLut(a)[i] = OnesUpTo(a, i * RankBlock)
    BY <1>4, RankLutCorrect
  <2>2. QED
    BY <1>1, <1>7, <2>1
<1>9. b.num_ones = Cardinality(OneBits(b))
  <2>1. NumWords(a.num_bits) \in Nat
    BY <1>4, NumWordsBounds DEF BitvectorOK
  <2>2. NumWords(a.num_bits) \in 0 .. NumWords(a.num_bits)
    BY <2>1
  <2>3. OnesBefore(a, NumWords(a.num_bits)) = OnesUpTo(a, NumWords(a.num_bits) * WordSize)
    BY <1>4, <2>2, OnesBeforeIs
  <2>4. QED
    BY <1>1, <1>4, <1>5, <2>3, AllOnes
<1>10. b.select_lut[0] = 0
  <2> DEFINE ones == OnesBefore(a, NumWords(a.num_bits))
  <2>1. ones \in Nat /\ SampleInterval \in Nat \ {0}
    BY <1>1, <1>3, <1>9, AllOnes, BitvectorAssumption
  <2>2. 0 \in 0 .. ones \div SampleInterval
    <3> HIDE DEF ones
    <3>1. 0 * SampleInterval <= ones
      BY <2>1
    <3>2. ones \in Int /\ 0 \in Int
      BY <2>1
    <3>3. ones \div SampleInterval \in Int
      BY <2>1, <3>2, DivMod
    <3>4. 0 <= ones \div SampleInterval
      BY <2>1, <3>1, <3>2, DivBounds
    <3>5. QED
      BY <3>3, <3>4
  <2>3. SelectLut(a)[0] = 0
    BY <2>2 DEF SelectLut
  <2>4. QED
    BY <1>1, <2>3
<1>11. ASSUME NEW i \in 1 .. Cardinality(OneBits(b)) \div SampleInterval
       PROVE  /\ b.select_lut[i] \in OneBits(b)
              /\ OnesUpTo(b, b.select_lut[i] + 1) = i * SampleInterval
  BY <1>1, <1>4, <1>5, <1>7, SelectLutCorrect
<1>12. SelectOK(b)
  BY <1>9, <1>10, <1>11 DEF SelectOK
<1>13. QED
  BY <1>3, <1>6, <1>8, <1>12 DEF BuiltFrom

(* What a bit vector counts are numbers. *)
LEMMA CountsAreNat ==
  ASSUME NEW list \in Seq(Levels), NEW behind
  PROVE  MakeSelect(list, behind).num_bits \in Nat /\ MakeSelect(list, behind).num_ones \in Nat
<1> DEFINE b == [num_bits |-> MakeRank(list, behind).num_bits,
                 bits |-> MakeRank(list, behind).bits,
                 junk |-> behind,
                 rank_lut |-> MakeRank(list, behind).rank_lut,
                 num_ones |-> MakeSelect(list, behind).num_ones,
                 select_lut |-> MakeSelect(list, behind).select_lut]
<1>1. BuiltFrom(b, list)
  BY ConstructorsCorrect
<1>2. b.num_ones = MakeSelect(list, behind).num_ones
  OBVIOUS
<1>3. b.num_bits = MakeSelect(list, behind).num_bits
  BY DEF MakeRank, MakeSelect
<1> HIDE DEF b
<1>4. b.num_bits \in Nat /\ Cardinality(OneBits(b)) \in Nat
  BY <1>1, BitsFinite, FS_CardinalityType DEF BuiltFrom, BitvectorOK
<1>5. b.num_ones = Cardinality(OneBits(b))
  BY <1>1 DEF BuiltFrom, SelectOK
<1>6. QED
  BY <1>2, <1>3, <1>4, <1>5

(* distanceToNextSetBit, where no 1 bit is left and pos + 1 is in front of the
   last word: it leads behind the last word. *)
LEMMA NextBehind ==
  ASSUME NEW b, BitvectorOK(b), NEW pos \in 0 .. b.num_bits - 1,
         \A q \in OneBits(b) : q <= pos,
         (pos + 1) \div WordSize < NumWords(b.num_bits) - 1
  PROVE  DistanceToNextSetBit(b, pos) = NumWords(b.num_bits) * WordSize - pos
<1> DEFINE w == (pos + 1) \div WordSize
           offset == (pos + 1) % WordSize
           last == NumWords(b.num_bits) - 1
           rest == ShiftLeft(WordAt(b, w), offset)
           later == {i \in w + 1 .. last : WordAt(b, i) # {}}
<1>1. WordSize \in Nat \ {0} /\ b.num_bits \in Nat /\ pos \in Nat /\ pos + 1 \in Int
  BY BitvectorAssumption DEF BitvectorOK
<1>2. NumWords(b.num_bits) \in Nat /\ last \in Int
  BY <1>1, NumWordsBounds
<1>3. /\ w \in Int /\ offset \in 0 .. WordSize - 1
      /\ pos + 1 = w * WordSize + offset
  BY <1>1, PositionOf DEF Word
<1>4. w \in Nat /\ w * WordSize \in Int
  <2>1. 0 * WordSize <= pos + 1
    BY <1>1
  <2>2. 0 <= w
    BY <1>1, <2>1, DivBounds
  <2>3. QED
    BY <1>1, <1>3, <2>2
<1>5. w < last
  OBVIOUS
<1>6. w \in 0 .. NumWords(b.num_bits) - 1
  BY <1>2, <1>4, <1>5
<1>7. WordAt(b, w) \in SUBSET Word
  BY <1>6, WordHasBits
<1> HIDE DEF w, last, offset
<1>8. rest = {}
  <2> SUFFICES ASSUME NEW o \in WordAt(b, w), o >= offset PROVE FALSE
    BY DEF ShiftLeft
  <2>1. o \in Word
    BY <1>7
  <2>2. w * WordSize + o \in OneBits(b)
    BY <1>6, <2>1, WordHasBits
  <2>3. w * WordSize + o <= pos
    BY <2>2
  <2>4. QED
    BY <1>1, <1>3, <1>4, <2>1, <2>3 DEF Word
<1>9. later = {}
  <2> SUFFICES ASSUME NEW i \in w + 1 .. last, NEW o \in WordAt(b, i) PROVE FALSE
    OBVIOUS
  <2>1. i \in 0 .. NumWords(b.num_bits) - 1 /\ i \in Int
    BY <1>2, <1>4 DEF last
  <2>2. o \in Word
    BY <2>1, WordHasBits
  <2>3. i * WordSize + o \in OneBits(b)
    BY <2>1, <2>2, WordHasBits
  <2>4. i * WordSize + o <= pos
    BY <2>3
  <2>5. (w + 1) * WordSize <= i * WordSize
    BY <1>1, <1>2, <1>4, <2>1, TimesMonotone
  <2>6. (w + 1) * WordSize = w * WordSize + WordSize
    BY <1>1, <1>4
  <2>7. i * WordSize \in Int
    BY <1>1, <2>1
  <2>8. QED
    BY <1>1, <1>3, <1>4, <2>2, <2>4, <2>5, <2>6, <2>7 DEF Word
<1> HIDE DEF rest, later
<1>10. Max({last, w}) = last
  <2>1. {last, w} \in SUBSET Int /\ last \in {last, w} /\ \A x \in {last, w} : x <= last
    BY <1>2, <1>4, <1>5
  <2>2. QED
    BY <2>1, MaxIs
<1>11. DistanceToNextSetBit(b, pos) = 1 + (WordSize - offset) + (last + 1 - w - 1) * WordSize
  <2>1. w # last
    BY <1>2, <1>4, <1>5
  <2> DEFINE upTo(i) == 1 + (WordSize - offset) + (i - w - 1) * WordSize
  <2>2. DistanceToNextSetBit(b, pos)
          = IF rest # {} THEN 1 + LeadingZeros(rest)
            ELSE IF w = last THEN b.num_bits - pos
            ELSE IF later # {}
            THEN upTo(Min(later)) + LeadingZeros(WordAt(b, Min(later)))
            ELSE upTo(Max({last, w}) + 1)
    BY Zenon DEF DistanceToNextSetBit, w, last, offset, rest, later
  <2> HIDE DEF upTo
  <2>3. DistanceToNextSetBit(b, pos) = upTo(last + 1)
    BY <1>8, <1>9, <1>10, <2>1, <2>2, Zenon
  <2>4. upTo(last + 1) = 1 + (WordSize - offset) + (last + 1 - w - 1) * WordSize
    BY <1>1, <1>2, <1>4 DEF upTo
  <2>5. QED
    BY <2>3, <2>4
<1>12. (last + 1 - w - 1) * WordSize = last * WordSize - w * WordSize
  BY <1>1, <1>2, <1>4
<1>13. NumWords(b.num_bits) * WordSize = last * WordSize + WordSize
  BY <1>1, <1>2 DEF last
<1>14. last * WordSize \in Int
  BY <1>1, <1>2
<1>15. QED
  BY <1>1, <1>3, <1>4, <1>11, <1>12, <1>13, <1>14

(* The 1 bits of a level in front of position p. *)
LevelOnes(lvl, p) == Cardinality({q \in LevelBits(lvl) : q < p})

(* The bits of a level in a concatenation, read at a position and counted up to
   one. *)
LEMMA LevelInConcat ==
  ASSUME NEW list \in Seq(Levels), NEW starts, Starts(starts, list),
         NEW b, BitvectorOK(b), b.num_bits = starts[Len(list)],
         OneBits(b) = BitsOfLevels(starts, list, Len(list)),
         NEW i \in 1 .. Len(list), NEW p \in 0 .. list[i].num_bits
  PROVE  /\ p < list[i].num_bits =>
              /\ starts[i - 1] + p \in 0 .. b.num_bits - 1
              /\ starts[i - 1] + p \in OneBits(b) <=> p \in LevelBits(list[i])
         /\ OnesUpTo(b, starts[i - 1] + p)
              = OnesUpTo(b, starts[i - 1]) + LevelOnes(list[i], p)
<1> DEFINE s == starts[i - 1]
           n == list[i].num_bits
<1>1. ListOK(list) /\ Len(list) \in Nat
  BY ListsOK DEF ListOK
<1>2. /\ s \in Nat /\ n \in Nat /\ starts[i] = s + n /\ starts[i] <= b.num_bits
      /\ b.num_bits \in Nat /\ p \in Nat /\ p <= n
  <2>1. list[i].num_bits \in Nat
    BY <1>1 DEF ListOK, LevelOK
  <2>2. starts[i - 1] \in Nat /\ starts[i] = starts[i - 1] + list[i].num_bits
    BY <1>1 DEF Starts
  <2>3. Len(list) \in 0 .. Len(list) /\ i \in 0 .. Len(list)
    BY <1>1
  <2>4. starts[i] <= starts[Len(list)]
    BY <1>1, <2>3, StartsGrow
  <2>5. QED
    BY <2>1, <2>2, <2>4 DEF BitvectorOK
<1>3. LevelBits(list[i]) \in SUBSET (0 .. n - 1)
  BY DEF LevelBits
<1> HIDE DEF s, n
<1>4. ASSUME NEW q \in 0 .. n - 1
      PROVE  s + q \in OneBits(b) <=> q \in LevelBits(list[i])
  <2>1. ASSUME q \in LevelBits(list[i]) PROVE s + q \in OneBits(b)
    <3>1. s + q \in Moved(starts[i - 1], LevelBits(list[i]))
      BY <2>1 DEF Moved, s
    <3>2. s + q \in BitsOfLevels(starts, list, Len(list))
      BY <3>1 DEF BitsOfLevels
    <3>3. QED
      BY <3>2, Zenon
  <2>2. ASSUME s + q \in OneBits(b) PROVE q \in LevelBits(list[i])
    <3>1. PICK j \in 1 .. Len(list) : s + q \in Moved(starts[j - 1], LevelBits(list[j]))
      BY <2>2 DEF BitsOfLevels
    <3>2. PICK r \in LevelBits(list[j]) : s + q = starts[j - 1] + r
      BY <3>1 DEF Moved
    <3>3. /\ list[j].num_bits \in Nat /\ starts[j - 1] \in Nat
          /\ starts[j] = starts[j - 1] + list[j].num_bits
      BY <1>1 DEF Starts, ListOK, LevelOK
    <3>4. r \in 0 .. list[j].num_bits - 1
      BY DEF LevelBits
    <3>5. j <= i
      <4> SUFFICES ASSUME i <= j - 1 PROVE FALSE
        BY <1>1
      <4>1. j - 1 \in 0 .. Len(list) /\ i \in 0 .. j - 1
        BY <1>1, <3>1
      <4>2. starts[i] <= starts[j - 1]
        BY <1>1, <4>1, StartsGrow
      <4>3. QED
        BY <1>2, <3>2, <3>3, <3>4, <4>2
    <3>6. i <= j
      <4> SUFFICES ASSUME j <= i - 1 PROVE FALSE
        BY <1>1
      <4>1. i - 1 \in 0 .. Len(list) /\ j \in 0 .. i - 1
        BY <1>1, <3>1
      <4>2. starts[j] <= s
        BY <1>1, <4>1, StartsGrow DEF s
      <4>3. QED
        BY <1>2, <3>2, <3>3, <3>4, <4>2
    <3>7. j = i
      BY <3>5, <3>6
    <3>8. r = q
      BY <1>2, <3>2, <3>3, <3>4, <3>7 DEF s
    <3>9. QED
      BY <3>7, <3>8
  <2>3. QED
    BY <2>1, <2>2
<1> DEFINE A == {q \in LevelBits(list[i]) : q < p}
           B == {o + s : o \in A}
<1>5. IsFiniteSet(A) /\ A \in SUBSET Int /\ s \in Int
  <2>1. IsFiniteSet(0 .. n - 1)
    BY <1>2, FS_Interval
  <2>2. A \subseteq 0 .. n - 1
    BY <1>3
  <2>3. QED
    BY <1>2, <2>1, <2>2, FS_Subset
<1>6. Cardinality(B) = Cardinality(A)
  BY <1>5, ShiftCount
<1>7. B = {x \in OneBits(b) : s <= x /\ x < s + p}
  <2>1. ASSUME NEW x \in B PROVE x \in OneBits(b) /\ s <= x /\ x < s + p
    <3>1. PICK o \in A : x = o + s
      OBVIOUS
    <3>2. o \in 0 .. n - 1 /\ o < p /\ o \in LevelBits(list[i])
      BY <1>3
    <3>3. s + o \in OneBits(b)
      BY <1>4, <3>2
    <3>4. QED
      BY <1>2, <3>1, <3>2, <3>3
  <2>2. ASSUME NEW x \in OneBits(b), s <= x, x < s + p PROVE x \in B
    <3>1. x \in Int
      BY BitsFinite
    <3>2. x - s \in 0 .. n - 1 /\ x - s < p /\ s + (x - s) = x
      BY <1>2, <2>2, <3>1
    <3>3. x - s \in LevelBits(list[i])
      BY <1>4, <3>2
    <3>4. x - s \in A /\ x = (x - s) + s
      BY <1>2, <3>1, <3>2, <3>3
    <3>5. QED
      BY <3>4
  <2>3. QED
    BY <2>1, <2>2
<1> HIDE DEF A, B
<1>8. Between(b, s, s + p) = Cardinality(A)
  BY <1>6, <1>7 DEF Between
<1>9. s \in Int /\ s + p \in Int /\ s <= s + p
  BY <1>2
<1>10. OnesUpTo(b, s + p) = OnesUpTo(b, s) + Between(b, s, s + p)
  BY <1>9, CountFurther
<1>11. p < n => s + p \in 0 .. b.num_bits - 1
  BY <1>2
<1>12. p < n => (s + p \in OneBits(b) <=> p \in LevelBits(list[i]))
  BY <1>2, <1>4
<1>13. QED
  BY <1>8, <1>10, <1>11, <1>12 DEF A, s, n, LevelOnes

RankCounts(b) == \A pos \in 0 .. b.num_bits - 1 : Rank(b, pos) = OnesUpTo(b, pos + 1)

(* BitvectorRank, as its constructor leaves it, counts the 1 bits up to a
   position. *)
LEMMA RankMade ==
  ASSUME NEW list \in Seq(Levels), NEW behind, NEW b,
         b.num_bits = MakeBitvector(list, behind).num_bits,
         b.bits = MakeBitvector(list, behind).bits,
         b.rank_lut = RankLut(MakeBitvector(list, behind))
  PROVE  /\ BitvectorOK(b)
         /\ \A i \in 0 .. b.num_bits \div RankBlock : b.rank_lut[i] = OnesUpTo(b, i * RankBlock)
         /\ RankCounts(b)
<1> DEFINE a == MakeBitvector(list, behind)
<1>1. PICK starts : Starts(starts, list)
  BY ListsOK, StartsExist
<1>2. /\ BitvectorOK(b) /\ OneBits(b) = BitsOfLevels(starts, list, Len(list))
  BY <1>1, ConcatenationCorrect
<1>3. /\ BitvectorOK(a) /\ OneBits(a) = BitsOfLevels(starts, list, Len(list))
  BY <1>1, ConcatenationCorrect
<1> HIDE DEF a
<1>4. \A end : OnesUpTo(a, end) = OnesUpTo(b, end)
  BY <1>2, <1>3 DEF OnesUpTo
<1>5. \A i \in 0 .. b.num_bits \div RankBlock : b.rank_lut[i] = OnesUpTo(b, i * RankBlock)
  <2>1. \A i \in 0 .. a.num_bits \div RankBlock : RankLut(a)[i] = OnesUpTo(a, i * RankBlock)
    BY <1>3, RankLutCorrect
  <2>2. b.num_bits = a.num_bits /\ b.rank_lut = RankLut(a)
    BY DEF a
  <2>3. QED
    BY <1>4, <2>1, <2>2
<1>6. ASSUME NEW pos \in 0 .. b.num_bits - 1
      PROVE  Rank(b, pos) = OnesUpTo(b, pos + 1)
  <2>1. Rank(b, pos) = Cardinality({p \in OneBits(b) : p <= pos})
    BY <1>2, <1>5, RankCorrect
  <2>2. {p \in OneBits(b) : p <= pos} = {p \in OneBits(b) : p < pos + 1}
    <3>1. \A p \in OneBits(b) : p \in Int
      BY <1>2, BitsFinite
    <3>2. QED
      BY <3>1
  <2>3. QED
    BY <2>1, <2>2 DEF OnesUpTo
<1>7. QED
  BY <1>2, <1>5, <1>6 DEF RankCounts

(* BitvectorSelect, as its constructor leaves it, has what select relies on. *)
LEMMA SelectMade ==
  ASSUME NEW list \in Seq(Levels), NEW behind, NEW b,
         b.num_bits = MakeBitvector(list, behind).num_bits,
         b.bits = MakeBitvector(list, behind).bits,
         b.num_ones = MakeSelect(list, behind).num_ones,
         b.select_lut = MakeSelect(list, behind).select_lut
  PROVE  BitvectorOK(b) /\ SelectOK(b)
<1> DEFINE a == MakeBitvector(list, behind)
<1>1. /\ b.num_bits = a.num_bits
      /\ b.num_ones = OnesBefore(a, NumWords(a.num_bits))
      /\ b.select_lut = SelectLut(a)
  BY DEF MakeSelect
<1>2. PICK starts : Starts(starts, list)
  BY ListsOK, StartsExist
<1>3. BitvectorOK(b) /\ OneBits(b) = BitsOfLevels(starts, list, Len(list))
  BY <1>2, ConcatenationCorrect
<1>4. BitvectorOK(a) /\ OneBits(a) = BitsOfLevels(starts, list, Len(list))
  BY <1>2, ConcatenationCorrect
<1> HIDE DEF a
<1>5. OneBits(a) = OneBits(b)
  BY <1>3, <1>4
<1>6. \A end : OnesUpTo(a, end) = OnesUpTo(b, end)
  BY <1>5 DEF OnesUpTo
<1>7. b.num_ones = Cardinality(OneBits(b))
  <2>1. NumWords(a.num_bits) \in Nat
    BY <1>4, NumWordsBounds DEF BitvectorOK
  <2>2. NumWords(a.num_bits) \in 0 .. NumWords(a.num_bits)
    BY <2>1
  <2>3. OnesBefore(a, NumWords(a.num_bits)) = OnesUpTo(a, NumWords(a.num_bits) * WordSize)
    BY <1>4, <2>2, OnesBeforeIs
  <2>4. QED
    BY <1>1, <1>4, <1>5, <2>3, AllOnes
<1>8. b.select_lut[0] = 0
  <2> DEFINE ones == OnesBefore(a, NumWords(a.num_bits))
  <2>1. ones \in Nat /\ SampleInterval \in Nat \ {0}
    BY <1>1, <1>3, <1>7, AllOnes, BitvectorAssumption
  <2>2. 0 \in 0 .. ones \div SampleInterval
    <3> HIDE DEF ones
    <3>1. 0 * SampleInterval <= ones
      BY <2>1
    <3>2. ones \in Int /\ 0 \in Int
      BY <2>1
    <3>3. ones \div SampleInterval \in Int
      BY <2>1, <3>2, DivMod
    <3>4. 0 <= ones \div SampleInterval
      BY <2>1, <3>1, <3>2, DivBounds
    <3>5. QED
      BY <3>3, <3>4
  <2>3. SelectLut(a)[0] = 0
    BY <2>2 DEF SelectLut
  <2>4. QED
    BY <1>1, <2>3
<1>9. ASSUME NEW i \in 1 .. Cardinality(OneBits(b)) \div SampleInterval
      PROVE  /\ b.select_lut[i] \in OneBits(b)
             /\ OnesUpTo(b, b.select_lut[i] + 1) = i * SampleInterval
  BY <1>1, <1>4, <1>5, <1>6, SelectLutCorrect
<1>10. QED
  BY <1>3, <1>7, <1>8, <1>9 DEF SelectOK

(* A 1 bit is counted once. *)
LEMMA CountOne ==
  ASSUME NEW b, BitvectorOK(b), NEW pos \in OneBits(b)
  PROVE  OnesUpTo(b, pos) \in Nat /\ OnesUpTo(b, pos + 1) = OnesUpTo(b, pos) + 1
<1>1. \A q \in OneBits(b) : q \in Int
  BY BitsFinite
<1>2. pos \in Int /\ pos + 1 \in Int /\ pos <= pos + 1
  BY <1>1
<1>3. /\ OnesUpTo(b, pos) \in Nat
      /\ OnesUpTo(b, pos + 1) = OnesUpTo(b, pos) + Between(b, pos, pos + 1)
  BY <1>2, CountFurther
<1>4. {x \in OneBits(b) : pos <= x /\ x < pos + 1} = {pos}
  <2>1. \A x \in OneBits(b) : pos <= x /\ x < pos + 1 <=> x = pos
    BY <1>1, <1>2
  <2>2. QED
    BY <2>1, Zenon
<1>5. Between(b, pos, pos + 1) = 1
  BY <1>4, FS_Singleton DEF Between
<1>6. QED
  BY <1>3, <1>5

(* select, asked for the number of a 1 bit. *)
LEMMA SelectAt ==
  ASSUME NEW b, BitvectorOK(b), SelectOK(b), 0 \in OneBits(b), NEW pos \in OneBits(b)
  PROVE  Select(b, OnesUpTo(b, pos) + 1) = pos
<1>1. \A q \in OneBits(b) : q \in Int
  BY BitsFinite
<1>2. ASSUME NEW p \in OneBits(b), NEW q \in OneBits(b), p < q
      PROVE  OnesUpTo(b, p + 1) < OnesUpTo(b, q + 1) /\ OnesUpTo(b, p + 1) \in Nat
  <2>1. p + 1 \in Int /\ q + 1 \in Int /\ p + 1 <= q + 1 /\ p \in Int /\ q \in Int
    BY <1>1, <1>2
  <2>2. /\ OnesUpTo(b, p + 1) \in Nat
        /\ OnesUpTo(b, q + 1) = OnesUpTo(b, p + 1) + Between(b, p + 1, q + 1)
    BY <2>1, CountFurther
  <2> DEFINE A == {x \in OneBits(b) : p + 1 <= x /\ x < q + 1}
  <2>3. q \in A
    BY <1>2, <2>1
  <2>4. IsFiniteSet(A) /\ Cardinality(A) \in Nat
    BY BitsFinite
  <2>5. Cardinality(A) # 0
    BY <2>3, <2>4, FS_EmptySet
  <2>6. QED
    BY <2>2, <2>4, <2>5 DEF Between
<1>3. OnesUpTo(b, pos) \in Nat /\ OnesUpTo(b, pos + 1) = OnesUpTo(b, pos) + 1
  BY CountOne
<1>4. OnesUpTo(b, pos + 1) <= Cardinality(OneBits(b)) /\ Cardinality(OneBits(b)) \in Nat
  <2>1. {x \in OneBits(b) : x < pos + 1} \in SUBSET OneBits(b) /\ OneBits(b) \in SUBSET OneBits(b)
    OBVIOUS
  <2>2. IsFiniteSet(OneBits(b)) /\ Cardinality(OneBits(b)) \in Nat
    BY <2>1, BitsFinite
  <2>3. QED
    BY <2>1, <2>2, FS_Subset DEF OnesUpTo
<1> DEFINE k == OnesUpTo(b, pos) + 1
<1>5. k \in 1 .. Cardinality(OneBits(b)) /\ OnesUpTo(b, pos + 1) = k
  BY <1>3, <1>4
<1> HIDE DEF k
<1>6. Select(b, k) \in OneBits(b) /\ OnesUpTo(b, Select(b, k) + 1) = k
  BY <1>5, SelectCorrect
<1>7. ~(Select(b, k) < pos) /\ ~(pos < Select(b, k))
  BY <1>2, <1>5, <1>6
<1>8. Select(b, k) = pos
  BY <1>1, <1>6, <1>7
<1>9. QED
  BY <1>8 DEF k

(* distanceToNextSetBit from a 1 bit: e is the next one or, where none is left,
   the end of the vector. *)
LEMMA NextAt ==
  ASSUME NEW b, BitvectorOK(b), NEW pos \in OneBits(b), NEW e \in Int, pos < e,
         \A q \in OneBits(b) : q <= pos \/ e <= q
  PROVE  /\ e \in OneBits(b) => DistanceToNextSetBit(b, pos) = e - pos
         /\ e = b.num_bits /\ (pos + 1) \div WordSize = NumWords(b.num_bits) - 1 =>
              DistanceToNextSetBit(b, pos) = e - pos
         /\ e = b.num_bits /\ (pos + 1) \div WordSize < NumWords(b.num_bits) - 1 =>
              /\ DistanceToNextSetBit(b, pos) = NumWords(b.num_bits) * WordSize - pos
              /\ DistanceToNextSetBit(b, pos) >= WordSize + 2
              /\ DistanceToNextSetBit(b, pos) >= e - pos
         /\ e = b.num_bits /\ (pos + 1) \div WordSize > NumWords(b.num_bits) - 1 =>
              pos + 1 = e /\ pos + 1 = NumWords(b.num_bits) * WordSize
<1> DEFINE after == {q \in OneBits(b) : q > pos}
           w == NumWords(b.num_bits)
<1>1. pos \in 0 .. b.num_bits - 1 /\ b.num_bits \in Nat /\ WordSize \in Nat \ {0}
  BY BitvectorAssumption DEF OneBits, BitvectorOK
<1>2. \A q \in OneBits(b) : q \in Int /\ q < b.num_bits
  BY <1>1 DEF OneBits
<1>3. w \in Nat /\ b.num_bits <= w * WordSize
  BY <1>1, NumWordsBounds
<1>4. /\ after # {} => DistanceToNextSetBit(b, pos) = Min(after) - pos
      /\ after = {} /\ (pos + 1) \div WordSize = w - 1 =>
           DistanceToNextSetBit(b, pos) = b.num_bits - pos
  BY <1>1, NextCorrect
<1> HIDE DEF w
<1>5. ASSUME e \in OneBits(b) PROVE DistanceToNextSetBit(b, pos) = e - pos
  <2>1. e \in after /\ after \in SUBSET Int /\ \A q \in after : e <= q
    <3>1. \A q \in after : q \in OneBits(b) /\ q > pos
      OBVIOUS
    <3>2. \A q \in after : q \in Int /\ e <= q
      BY <1>1, <1>2, <3>1
    <3>3. e \in after
      BY <1>5
    <3>4. QED
      BY <3>2, <3>3
  <2> HIDE DEF after
  <2>2. Min(after) = e
    BY <2>1, MinIs
  <2>3. QED
    BY <1>4, <2>1, <2>2
<1>6. ASSUME e = b.num_bits PROVE after = {} /\ \A q \in OneBits(b) : q <= pos
  <2>1. \A q \in OneBits(b) : q <= pos
    BY <1>1, <1>2, <1>6
  <2>2. \A q \in OneBits(b) : ~(q > pos)
    BY <1>1, <1>2, <2>1
  <2>3. QED
    BY <2>1, <2>2
<1> HIDE DEF after
<1>7. pos + 1 \in Int /\ w - 1 \in Int /\ w \in Int
  BY <1>1, <1>3
<1>8. (pos + 1) \div WordSize \in Int
  BY <1>1, <1>7, DivMod
<1>9. (w - 1) * WordSize \in Int /\ (w - 1) * WordSize = w * WordSize - WordSize /\ w * WordSize \in Int
  BY <1>1, <1>7
<1>10. ASSUME e = b.num_bits, (pos + 1) \div WordSize < w - 1
       PROVE  /\ DistanceToNextSetBit(b, pos) = w * WordSize - pos
              /\ DistanceToNextSetBit(b, pos) >= WordSize + 2
              /\ DistanceToNextSetBit(b, pos) >= e - pos
  <2>1. DistanceToNextSetBit(b, pos) = w * WordSize - pos
    BY <1>1, <1>6, <1>10, NextBehind DEF w
  <2>2. pos + 1 < (w - 1) * WordSize
    BY <1>1, <1>7, <1>10, DivBounds
  <2>3. QED
    BY <1>1, <1>3, <1>9, <1>10, <2>1, <2>2
<1>11. ASSUME e = b.num_bits, (pos + 1) \div WordSize > w - 1
       PROVE  pos + 1 = e /\ pos + 1 = w * WordSize
  <2>1. w <= (pos + 1) \div WordSize
    BY <1>7, <1>8, <1>11
  <2>2. w * WordSize <= pos + 1
    BY <1>1, <1>7, <2>1, DivBounds
  <2>3. QED
    BY <1>1, <1>3, <1>9, <1>11, <2>2
<1>12. QED
  BY <1>4, <1>5, <1>6, <1>10, <1>11 DEF w

(* The last 1 bit is the one select finds when asked for as many as there are. *)
LEMMA LastOne ==
  ASSUME NEW b, BitvectorOK(b), SelectOK(b), 0 \in OneBits(b), NEW pos \in OneBits(b),
         \A q \in OneBits(b) : q <= pos
  PROVE  b.num_ones > 0 /\ Select(b, b.num_ones) = pos
<1>1. \A q \in OneBits(b) : q \in Int
  BY BitsFinite
<1>2. {q \in OneBits(b) : q < pos + 1} = OneBits(b)
  <2>1. \A q \in OneBits(b) : q < pos + 1
    BY <1>1
  <2>2. QED
    BY <2>1, Zenon
<1>3. OnesUpTo(b, pos + 1) = b.num_ones
  BY <1>2 DEF OnesUpTo, SelectOK
<1>4. OnesUpTo(b, pos) \in Nat /\ OnesUpTo(b, pos + 1) = OnesUpTo(b, pos) + 1
  BY CountOne
<1>5. Select(b, OnesUpTo(b, pos) + 1) = pos
  BY SelectAt
<1>6. QED
  BY <1>3, <1>4, <1>5
===============================================================================

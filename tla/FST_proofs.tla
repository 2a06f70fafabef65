------------------------------ MODULE FST_proofs ------------------------------
(***************************************************************************)
(* The lookups of the trie (fst.hpp) find what the keys of the build say.  *)
(*                                                                         *)
(* The bit vectors that create makes of the levels have the ranks, selects *)
(* and distances that FSTTrie_proofs counts in the levels; so reading a    *)
(* label, in a bitmap or by a search in the labels of a node, tells what   *)
(* it must, and every step of an operation keeps the call right.           *)
(***************************************************************************)
EXTENDS FSTTrie_proofs

-------------------------------------------------------------------------------
(* The bit vectors that are made of the levels *)

BVP == INSTANCE Bitvector_proofs
LVP == INSTANCE LabelVector_proofs

(* The constructors are the ones the proofs about bit vectors speak of. *)
LEMMA SameConstructors ==
  ASSUME NEW list, NEW behind
  PROVE  /\ BV!TotalNumBits(list) = BVP!TotalNumBits(list)
         /\ BV!MakeRank(list, behind) = BVP!MakeRank(list, behind)
         /\ BV!MakeSelect(list, behind) = BVP!MakeSelect(list, behind)
<1> USE DEF BV!FoldLeft, BVP!FoldLeft, BV!MapThenFoldSet, BVP!MapThenFoldSet,
            BV!Max, BVP!Max, BV!Min, BVP!Min
<1>1. \A x : BV!TotalNumBits(x) = BVP!TotalNumBits(x)
  BY DEF BV!TotalNumBits, BVP!TotalNumBits
<1>2. \A n : BV!NumWords(n) = BVP!NumWords(n)
  BY DEF BV!NumWords, BVP!NumWords
<1>3. BV!MakeBitvector(list, behind) = BVP!MakeBitvector(list, behind)
  BY DEF BV!MakeBitvector, BVP!MakeBitvector, BV!TotalNumBits, BVP!TotalNumBits,
         BV!NumWords, BVP!NumWords, BV!FlattenSeq, BVP!FlattenSeq,
         BV!WordsOfLevel, BVP!WordsOfLevel, BV!AppendWord, BVP!AppendWord,
         BV!ShiftRight, BVP!ShiftRight, BV!ShiftLeft, BVP!ShiftLeft
<1> USE DEF BV!Cardinality, BVP!Cardinality, BV!IsFiniteSet, BVP!IsFiniteSet,
            BV!MapThenSumSet, BVP!MapThenSumSet, BV!WordAt, BVP!WordAt
<1>4. \A b : BV!RankLut(b) = BVP!RankLut(b)
  BY DEF BV!RankLut, BVP!RankLut, BV!PopcountLinear, BVP!PopcountLinear,
         BV!ShiftRight, BVP!ShiftRight
<1>5. \A b, i : BV!OnesBefore(b, i) = BVP!OnesBefore(b, i)
  BY DEF BV!OnesBefore, BVP!OnesBefore
<1>6. \A b : BV!SelectLut(b) = BVP!SelectLut(b)
  BY DEF BV!SelectLut, BVP!SelectLut, BV!OnesBefore, BVP!OnesBefore,
         BV!NumWords, BVP!NumWords, BV!SelectInWord, BVP!SelectInWord,
         BV!SampledRank, BVP!SampledRank
<1>7. QED
  BY <1>1, <1>2, <1>3, <1>4, <1>5, <1>6
     DEF BV!MakeRank, BVP!MakeRank, BV!MakeSelect, BVP!MakeSelect

(* And so are the queries. *)
LEMMA SameQueries ==
  /\ \A b, p : BV!ReadBit(b, p) = BVP!ReadBit(b, p)
  /\ \A b, p : BV!DistanceToNextSetBit(b, p) = BVP!DistanceToNextSetBit(b, p)
  /\ \A b, p : BV!Rank(b, p) = BVP!Rank(b, p)
  /\ \A b, n : BV!Select(b, n) = BVP!Select(b, n)
  /\ \A n : BV!NumWords(n) = BVP!NumWords(n)
  /\ \A S : Cardinality(S) = BVP!Cardinality(S)
<1> USE DEF BV!Max, BVP!Max, BV!Min, BVP!Min, BV!WordAt, BVP!WordAt,
            BV!NumWords, BVP!NumWords, BV!ShiftLeft, BVP!ShiftLeft,
            BV!ShiftRight, BVP!ShiftRight, BV!LeadingZeros, BVP!LeadingZeros
<1>1. \A b, p : BV!ReadBit(b, p) = BVP!ReadBit(b, p)
  BY DEF BV!ReadBit, BVP!ReadBit
<1>2. \A b, p : BV!DistanceToNextSetBit(b, p) = BVP!DistanceToNextSetBit(b, p)
  BY DEF BV!DistanceToNextSetBit, BVP!DistanceToNextSetBit
<1> USE DEF BV!Cardinality, BVP!Cardinality, BV!IsFiniteSet, BVP!IsFiniteSet,
            BV!MapThenFoldSet, BVP!MapThenFoldSet, BV!MapThenSumSet, BVP!MapThenSumSet
<1>3. \A b, p : BV!Rank(b, p) = BVP!Rank(b, p)
  BY DEF BV!Rank, BVP!Rank, BV!PopcountLinear, BVP!PopcountLinear
<1>4. ASSUME NEW b, NEW n PROVE BV!Select(b, n) = BVP!Select(b, n)
  <2> DEFINE left  == BV!RanksLeft(n)
             pos   == b.select_lut[n \div SampleInterval]
             start == (pos + 1) \div WordSize
             word(i) == IF i = start
                        THEN {o \in BV!WordAt(b, i) : o >= (pos + 1) % WordSize}
                        ELSE BV!WordAt(b, i)
             before(i) == BV!MapThenSumSet(LAMBDA j : BV!Cardinality(word(j)), start .. i - 1)
             beforeP(i) == BVP!MapThenSumSet(LAMBDA j : BVP!Cardinality(word(j)), start .. i - 1)
             found == CHOOSE i \in start .. BV!NumWords(b.num_bits) - 1 :
                        before(i) < left /\ left <= before(i + 1)
             foundP == CHOOSE i \in start .. BV!NumWords(b.num_bits) - 1 :
                         beforeP(i) < left /\ left <= beforeP(i + 1)
  <2>1. BV!RanksLeft(n) = BVP!RanksLeft(n)
    BY DEF BV!RanksLeft, BVP!RanksLeft
  <2>2. \A w, k : BV!SelectInWord(w, k) = BVP!SelectInWord(w, k)
    BY DEF BV!SelectInWord, BVP!SelectInWord
  <2>3. BV!Select(b, n) = IF left = 0 THEN pos
          ELSE found * WordSize + BV!SelectInWord(word(found), left - before(found))
    BY DEF BV!Select
  <2>4. BVP!Select(b, n) = IF left = 0 THEN pos
          ELSE foundP * WordSize + BVP!SelectInWord(word(foundP), left - beforeP(foundP))
    BY <2>1 DEF BVP!Select
  <2> HIDE DEF word
  <2>5. \A i : before(i) = beforeP(i)
    OBVIOUS
  <2> HIDE DEF before, beforeP
  <2>6. found = foundP
    BY <2>5
  <2> HIDE DEF found, foundP
  <2>7. QED
    BY <2>2, <2>3, <2>4, <2>5, <2>6, Zenon
<1>5. \A n : BV!NumWords(n) = BVP!NumWords(n)
  OBVIOUS
<1>6. \A S : Cardinality(S) = BVP!Cardinality(S)
  BY DEF Cardinality, IsFiniteSet
<1>7. QED
  BY <1>1, <1>2, <1>3, <1>4, <1>5, <1>6

(* Searches in the labels are the ones the proofs about them speak of. *)
LEMMA SameSearches ==
  /\ \A lv, p : LV!LabelAt(lv, p) = LVP!LabelAt(lv, p)
  /\ \A lv, c, p, n : LV!Search(lv, c, p, n) = LVP!Search(lv, c, p, n)
<1> USE DEF LV!Max, LVP!Max, LV!Min, LVP!Min, LV!LabelAt, LVP!LabelAt
<1>1. \A lv, p : LV!LabelAt(lv, p) = LVP!LabelAt(lv, p)
  OBVIOUS
<1>2. \A lv, c, p, n : LV!Search(lv, c, p, n) = LVP!Search(lv, c, p, n)
  BY DEF LV!Search, LVP!Search, LV!BinarySearch, LVP!BinarySearch, LV!Bisect, LVP!Bisect,
         LV!FirstMatch, LVP!FirstMatch, LV!Found, LVP!Found, LV!Missed, LVP!Missed
<1>3. QED
  BY <1>1, <1>2

(* The words a level of bits is copied to. *)
LEMMA LevelHandedOver ==
  ASSUME NEW bits \in SUBSET Nat, NEW n \in Nat, NEW w \in Nat,
         \A p \in bits : p < n, n <= w * WordSize
  PROVE  /\ [num_bits |-> n, words |-> LevelWords(bits, w)] \in BVP!Levels
         /\ BVP!LevelBits([num_bits |-> n, words |-> LevelWords(bits, w)]) = bits
<1> DEFINE lw == LevelWords(bits, w)
<1>1. WordSize \in Nat \ {0} /\ w * WordSize \in Int
  BY ConstantsAssumption
<1>2. lw = [i \in 1 .. w |-> {p - (i - 1) * WordSize :
                                p \in {q \in bits : q \div WordSize = i - 1}}]
  BY DEF LevelWords
<1>3. ASSUME NEW i \in 1 .. w, NEW o \in lw[i]
      PROVE  o \in 0 .. WordSize - 1 /\ (i - 1) * WordSize + o < n
  <2>1. PICK p \in bits : p \div WordSize = i - 1 /\ o = p - (i - 1) * WordSize
    BY <1>2, <1>3
  <2>2. p \in Int /\ p < n
    OBVIOUS
  <2>3. p = (p \div WordSize) * WordSize + (p % WordSize) /\ p % WordSize \in 0 .. WordSize - 1
    BY <1>1, <2>2, DivMod
  <2>4. (i - 1) * WordSize \in Int
    BY <1>1
  <2>5. QED
    BY <1>1, <2>1, <2>2, <2>3, <2>4
<1>4. lw \in Seq(SUBSET (0 .. WordSize - 1)) /\ Len(lw) = w
  <2>1. \A i \in 1 .. w : lw[i] \in SUBSET (0 .. WordSize - 1)
    BY <1>3
  <2>2. lw = [i \in 1 .. w |-> lw[i]]
    BY <1>2
  <2> HIDE DEF lw
  <2>3. lw \in [1 .. w -> SUBSET (0 .. WordSize - 1)]
    BY <2>1, <2>2
  <2>4. QED
    BY <2>3
<1>5. BVP!NumWords(n) <= w
  <2>1. n + WordSize - 1 \in Int /\ w + 1 \in Int /\ (w + 1) * WordSize = w * WordSize + WordSize
    BY <1>1
  <2>2. n + WordSize - 1 < (w + 1) * WordSize
    BY <1>1, <2>1
  <2>3. (n + WordSize - 1) \div WordSize < w + 1 /\ (n + WordSize - 1) \div WordSize \in Int
    BY <1>1, <2>1, <2>2, DivBounds, DivMod
  <2>4. QED
    BY <2>3 DEF BVP!NumWords
<1>6. \A i \in 1 .. BVP!NumWords(n) : \A o \in lw[i] : (i - 1) * WordSize + o < n
  <2>1. BVP!NumWords(n) \in Int
    BY <1>1, DivMod DEF BVP!NumWords
  <2>2. \A i \in 1 .. BVP!NumWords(n) : i \in 1 .. w
    BY <1>5, <2>1
  <2>3. QED
    BY <1>3, <2>2
<1>7. ASSUME NEW q \in 0 .. n - 1
      PROVE  q % WordSize \in lw[(q \div WordSize) + 1] <=> q \in bits
  <2> DEFINE i == (q \div WordSize) + 1
  <2>1. /\ q \div WordSize \in Int /\ q % WordSize \in 0 .. WordSize - 1
        /\ q = (q \div WordSize) * WordSize + (q % WordSize)
    BY <1>1, DivMod
  <2>2. i \in 1 .. w
    <3>1. 0 * WordSize <= q
      BY <1>1
    <3>2. 0 <= q \div WordSize
      BY <1>1, <3>1, DivBounds
    <3>3. q < w * WordSize
      BY <1>1
    <3>4. q \div WordSize < w
      BY <1>1, <3>3, DivBounds
    <3>5. QED
      BY <2>1, <3>2, <3>4
  <2>3. lw[i] = {p - (i - 1) * WordSize : p \in {x \in bits : x \div WordSize = i - 1}}
    BY <1>2, <2>2
  <2>4. i - 1 = q \div WordSize /\ (i - 1) * WordSize \in Int
    BY <1>1, <2>1
  <2> HIDE DEF i
  <2>5. ASSUME q \in bits PROVE q % WordSize \in lw[i]
    <3>1. q - (i - 1) * WordSize = q % WordSize
      BY <1>1, <2>1, <2>4
    <3>2. q - (i - 1) * WordSize \in lw[i]
      BY <2>3, <2>4, <2>5
    <3>3. QED
      BY <3>1, <3>2
  <2>6. ASSUME q % WordSize \in lw[i] PROVE q \in bits
    <3>1. PICK p \in bits : p \div WordSize = i - 1 /\ q % WordSize = p - (i - 1) * WordSize
      BY <2>3, <2>6
    <3>2. p \in Int /\ p = (p \div WordSize) * WordSize + (p % WordSize)
      BY <1>1, DivMod
    <3>3. p = q
      BY <1>1, <2>1, <2>4, <3>1, <3>2
    <3>4. QED
      BY <3>3
  <2>7. QED
    BY <2>5, <2>6 DEF i
<1> HIDE DEF lw
<1> DEFINE lvl == [num_bits |-> n, words |-> lw]
<1>8. lvl \in BVP!Levels
  BY <1>4, <1>5, <1>6 DEF BVP!Levels
<1>9. BVP!LevelBits(lvl) = {q \in 0 .. n - 1 : q % WordSize \in lw[(q \div WordSize) + 1]}
  BY DEF BVP!LevelBits
<1>10. {q \in 0 .. n - 1 : q % WordSize \in lw[(q \div WordSize) + 1]} = bits
  <2> DEFINE H == {q \in 0 .. n - 1 : q % WordSize \in lw[(q \div WordSize) + 1]}
  <2>1. ASSUME NEW q \in H PROVE q \in bits
    BY <1>7
  <2>2. ASSUME NEW q \in bits PROVE q \in H
    <3>1. q \in 0 .. n - 1
      OBVIOUS
    <3>2. QED
      BY <1>7, <3>1
  <2>3. QED
    BY <2>1, <2>2
<1>11. QED
  BY <1>8, <1>9, <1>10 DEF lw

(* The LOUDS-Sparse vectors are handed over as the constructors expect them. *)
LEMMA SparseHandedOver ==
  ASSUME HandoverInv
  PROVE  /\ SparseLevels(louds_bits) \in Seq(BVP!Levels)
         /\ SparseLevels(child_indicator_bits) \in Seq(BVP!Levels)
<1> DEFINE n == height - sparse_start_level
<1>1. /\ sparse_start_level \in Nat /\ height \in 0 .. MaxLevel + 1 /\ n \in Nat
      /\ TypeOK /\ MaxLevel \in Nat
  BY ConstantsAssumption DEF HandoverInv, SlotsInv, TypeInv, TypeOK
<1>2. ASSUME NEW bits, bits \in {louds_bits, child_indicator_bits}, NEW i \in 1 .. n
      PROVE  SparseLevels(bits)[i] \in BVP!Levels
  <2> DEFINE l == sparse_start_level + i - 1
  <2>1. l \in Levels /\ l < height
    BY <1>1 DEF Levels
  <2>2. bits[l] \in SUBSET Nat /\ words[l] \in Nat /\ GetNumItems(l) \in Nat
    <3>1. /\ louds_bits[l] \in SUBSET Nat /\ child_indicator_bits[l] \in SUBSET Nat
          /\ words[l] \in Nat /\ labels[l] \in Seq(Label)
      BY <1>1, <2>1 DEF TypeOK
    <3>2. GetNumItems(l) \in Nat
      BY <3>1 DEF GetNumItems
    <3>3. QED
      BY <1>2, <3>1, <3>2
  <2>3. GetNumItems(l) <= words[l] * WordSize
    <3>1. GetNumItems(l) < words[l] * WordSize
      BY <2>1 DEF HandoverInv, SlotsInv, SlotExists
    <3>2. words[l] * WordSize \in Int
      BY <2>2, ConstantsAssumption
    <3>3. QED
      BY <2>2, <3>1, <3>2
  <2>4. \A p \in bits[l] : p < GetNumItems(l)
    BY <1>2, <2>1 DEF HandoverInv, SlotsInv, BitsInside
  <2>5. [num_bits |-> GetNumItems(l), words |-> LevelWords(bits[l], words[l])] \in BVP!Levels
    <3> HIDE DEF l
    <3>1. QED
      BY <2>2, <2>3, <2>4, LevelHandedOver
  <2>6. QED
    BY <2>5 DEF SparseLevels
<1>3. ASSUME NEW bits, bits \in {louds_bits, child_indicator_bits}
      PROVE  SparseLevels(bits) \in Seq(BVP!Levels)
  <2>1. SparseLevels(bits) = [i \in 1 .. n |-> SparseLevels(bits)[i]]
    BY DEF SparseLevels
  <2> DEFINE f == SparseLevels(bits)
  <2> HIDE DEF f, n
  <2>2. \A i \in 1 .. n : f[i] \in BVP!Levels
    BY <1>2, <1>3 DEF f
  <2>3. f \in [1 .. n -> BVP!Levels]
    BY <2>1, <2>2 DEF f
  <2>4. QED
    BY <1>1, <2>3 DEF f
<1>4. QED
  BY <1>3

-------------------------------------------------------------------------------
(* The bits of the sparse levels *)

(* The constructors take the levels to begin there. *)
LEMMA SparseStartsAre ==
  ASSUME DenseInv, HandoverInv, NEW bits
  PROVE  /\ Len(SparseLevels(bits)) = height - sparse_start_level
         /\ height - sparse_start_level \in Nat
         /\ \A i \in 1 .. height - sparse_start_level :
              SparseLevels(bits)[i] =
                [num_bits |-> GetNumItems(sparse_start_level + i - 1),
                 words |-> LevelWords(bits[sparse_start_level + i - 1],
                                      words[sparse_start_level + i - 1])]
         /\ BVP!Starts(SparseStarts, SparseLevels(bits))
<1> DEFINE n == height - sparse_start_level
           list == SparseLevels(bits)
<1>1. TypeInv /\ TypeOK
  BY DEF HandoverInv, SlotsInv, TypeInv
<1>2. /\ sparse_start_level \in Nat /\ height \in Nat /\ sparse_start_level <= height
      /\ height <= MaxLevel + 1 /\ MaxLevel \in Nat /\ n \in Nat
  BY <1>1, ConstantsAssumption DEF HandoverInv, TypeOK
<1>3. list = [i \in 1 .. n |->
                [num_bits |-> GetNumItems(sparse_start_level + i - 1),
                 words |-> LevelWords(bits[sparse_start_level + i - 1],
                                      words[sparse_start_level + i - 1])]]
  BY DEF SparseLevels
<1> HIDE DEF list, n
<1>4. /\ Len(list) = n
      /\ \A i \in 1 .. n :
           list[i] = [num_bits |-> GetNumItems(sparse_start_level + i - 1),
                      words |-> LevelWords(bits[sparse_start_level + i - 1],
                                           words[sparse_start_level + i - 1])]
  BY <1>2, <1>3
<1>5. \A i \in 0 .. n : SparseStarts[i] = SparsePos(sparse_start_level + i, 0)
  BY DEF SparseStarts, n
<1>6. SparseStarts[0] = 0
  <2>1. SparseStarts[0] = SparsePos(sparse_start_level, 0)
    <3>1. sparse_start_level + 0 = sparse_start_level /\ 0 \in 0 .. n
      BY <1>2
    <3>2. QED
      BY <1>5, <3>1
  <2>2. ItemsAbove(sparse_start_level) \in Int
    <3>1. CASE sparse_start_level < height
      <4>1. sparse_start_level \in Levels
        BY <1>2, <3>1 DEF Levels
      <4>2. QED
        BY <1>1, <4>1, ItemsAboveIs
    <3>2. CASE sparse_start_level = height /\ height > 0
      <4>1. height - 1 \in Levels /\ height - 1 + 1 = height
        BY <1>2, <3>2 DEF Levels
      <4>2. ItemsAbove(height - 1 + 1) \in Int
        BY <1>1, <4>1, ItemsAboveIs
      <4>3. QED
        BY <3>2, <4>1, <4>2
    <3>3. CASE sparse_start_level = 0
      <4>1. 0 \in Levels
        BY <1>2 DEF Levels
      <4>2. QED
        BY <1>1, <3>3, <4>1, ItemsAboveIs
    <3>4. QED
      BY <1>2, <3>1, <3>2, <3>3
  <2>3. QED
    BY <2>1, <2>2 DEF SparsePos
<1>7. ASSUME NEW i \in 1 .. n
      PROVE  /\ SparseStarts[i] = SparseStarts[i - 1] + list[i].num_bits
             /\ SparseStarts[i - 1] \in Int /\ list[i].num_bits \in Nat
  <2> DEFINE l == sparse_start_level + i - 1
  <2>1. l \in sparse_start_level .. height - 1
    BY <1>2 DEF n
  <2>2. SparseStarts[i] = SparsePos(l + 1, 0)
    <3>1. sparse_start_level + i = l + 1 /\ i \in 0 .. n
      BY <1>2
    <3>2. QED
      BY <1>5, <3>1
  <2>3. SparseStarts[i - 1] = SparsePos(l, 0)
    <3>1. sparse_start_level + (i - 1) = l /\ i - 1 \in 0 .. n
      BY <1>2
    <3>2. QED
      BY <1>5, <3>1
  <2>4. list[i].num_bits = GetNumItems(l)
    BY <1>4
  <2> HIDE DEF l
  <2>5. /\ SparsePos(l + 1, 0) = SparsePos(l, GetNumItems(l)) /\ GetNumItems(l) \in Nat
        /\ \A p \in Int : SparsePos(l, p) = SparsePos(l, 0) + p
        /\ SparsePos(l, 0) \in Int
    BY <2>1, SparseLevelIs
  <2>6. SparsePos(l, GetNumItems(l)) = SparsePos(l, 0) + GetNumItems(l)
    BY <2>5
  <2>7. QED
    BY <2>2, <2>3, <2>4, <2>5, <2>6
<1>8. \A i \in 0 .. n : SparseStarts[i] \in Nat
  <2> DEFINE S == {i \in 0 .. n : SparseStarts[i] \in Nat}
  <2>1. 0 \in S
    BY <1>2, <1>6
  <2>2. ASSUME NEW i \in 0 .. n - 1, i \in S PROVE i + 1 \in S
    <3>1. i + 1 \in 1 .. n /\ i + 1 \in 0 .. n /\ i + 1 - 1 = i
      BY <1>2
    <3>2. SparseStarts[i + 1] = SparseStarts[i + 1 - 1] + list[i + 1].num_bits /\ list[i + 1].num_bits \in Nat
      BY <1>7, <3>1
    <3>3. QED
      BY <2>2, <3>1, <3>2
  <2> HIDE DEF S
  <2>3. \A i \in 0 .. n : i \in S
    BY <1>2, <2>1, <2>2, UpToInduct
  <2>4. QED
    BY <2>3 DEF S
<1>9. BVP!Starts(SparseStarts, list)
  BY <1>4, <1>6, <1>7, <1>8 DEF BVP!Starts
<1>10. QED
  BY <1>2, <1>4, <1>9 DEF n, list

(* The 1 bits of b are the bits of the sparse levels, each behind those of the
   levels above it. *)
HoldsLevels(b, bits) ==
  \A l \in sparse_start_level .. height - 1 : \A p \in 0 .. GetNumItems(l) :
    /\ p < GetNumItems(l) =>
         /\ SparsePos(l, p) \in 0 .. b.num_bits - 1
         /\ SparsePos(l, p) \in BVP!OneBits(b) <=> p \in bits[l]
    /\ BVP!OnesUpTo(b, SparsePos(l, p))
         = BVP!OnesUpTo(b, SparsePos(l, 0)) + Cardinality(Below(bits[l], p))

(* A vector of the sparse part has the bits of the levels it was made from. *)
LEMMA SparseBits ==
  ASSUME DenseInv, HandoverInv, NEW bits, bits \in {louds_bits, child_indicator_bits},
         NEW behind, NEW b,
         b.num_bits = BVP!MakeBitvector(SparseLevels(bits), behind).num_bits,
         b.bits = BVP!MakeBitvector(SparseLevels(bits), behind).bits
  PROVE  /\ BVP!BitvectorOK(b)
         /\ b.num_bits = SparseStarts[height - sparse_start_level]
         /\ HoldsLevels(b, bits)
<1> DEFINE n == height - sparse_start_level
           list == SparseLevels(bits)
<1>1. /\ Len(list) = n /\ n \in Nat
      /\ \A i \in 1 .. n :
           list[i] = [num_bits |-> GetNumItems(sparse_start_level + i - 1),
                      words |-> LevelWords(bits[sparse_start_level + i - 1],
                                           words[sparse_start_level + i - 1])]
      /\ BVP!Starts(SparseStarts, list)
  BY SparseStartsAre
<1>2. list \in Seq(BVP!Levels)
  BY SparseHandedOver
<1> HIDE DEF list, n
<1>3. /\ BVP!BitvectorOK(b)
      /\ b.num_bits = SparseStarts[Len(list)]
      /\ BVP!OneBits(b) = BVP!BitsOfLevels(SparseStarts, list, Len(list))
  BY <1>1, <1>2, BVP!ConcatenationCorrect, ConstantsAssumption, TablesAssumption DEF list
<1>4. ASSUME NEW l \in sparse_start_level .. height - 1, NEW p \in 0 .. GetNumItems(l)
      PROVE  /\ p < GetNumItems(l) =>
                  /\ SparsePos(l, p) \in 0 .. b.num_bits - 1
                  /\ SparsePos(l, p) \in BVP!OneBits(b) <=> p \in bits[l]
             /\ BVP!OnesUpTo(b, SparsePos(l, p))
                  = BVP!OnesUpTo(b, SparsePos(l, 0)) + Cardinality(Below(bits[l], p))
  <2> DEFINE i == l - sparse_start_level + 1
             w == words[l]
  <2>1. /\ sparse_start_level \in Nat /\ height \in Nat /\ sparse_start_level <= height
        /\ l \in Levels /\ l < height /\ l \in Nat
        /\ GetNumItems(l) \in Nat
        /\ \A q \in Int : SparsePos(l, q) = SparsePos(l, 0) + q
        /\ SparsePos(l, 0) \in Int /\ p \in Int
    BY SparseLevelIs
  <2>2. i \in 1 .. n /\ sparse_start_level + i - 1 = l /\ i - 1 \in 0 .. n /\ sparse_start_level + (i - 1) = l
    BY <2>1 DEF n
  <2>3. list[i] = [num_bits |-> GetNumItems(l), words |-> LevelWords(bits[l], w)]
    BY <1>1, <2>2
  <2>4. SparseStarts[i - 1] = SparsePos(l, 0)
    BY <2>2 DEF SparseStarts, n
  <2> HIDE DEF i
  <2>5. bits[l] \in SUBSET Nat /\ w \in Nat
    BY <2>1 DEF HandoverInv, SlotsInv, TypeInv, TypeOK
  <2>6. GetNumItems(l) <= w * WordSize
    <3>1. GetNumItems(l) < w * WordSize
      BY <2>1 DEF HandoverInv, SlotsInv, SlotExists
    <3>2. w * WordSize \in Int
      BY <2>5, ConstantsAssumption
    <3>3. QED
      BY <2>1, <3>1, <3>2
  <2>7. \A q \in bits[l] : q < GetNumItems(l)
    BY <2>1 DEF HandoverInv, SlotsInv, BitsInside
  <2> HIDE DEF w
  <2>8. BVP!LevelBits(list[i]) = bits[l]
    BY <2>1, <2>3, <2>5, <2>6, <2>7, LevelHandedOver
  <2>9. list[i].num_bits = GetNumItems(l) /\ i \in 1 .. Len(list) /\ p \in 0 .. list[i].num_bits
    BY <1>1, <2>2, <2>3
  <2>10. /\ p < list[i].num_bits =>
              /\ SparseStarts[i - 1] + p \in 0 .. b.num_bits - 1
              /\ SparseStarts[i - 1] + p \in BVP!OneBits(b) <=> p \in BVP!LevelBits(list[i])
         /\ BVP!OnesUpTo(b, SparseStarts[i - 1] + p)
              = BVP!OnesUpTo(b, SparseStarts[i - 1]) + BVP!LevelOnes(list[i], p)
    <3>1. /\ p < list[i].num_bits =>
               /\ SparseStarts[i - 1] + p \in 0 .. b.num_bits - 1
               /\ SparseStarts[i - 1] + p \in BVP!OneBits(b) <=> p \in BVP!LevelBits(list[i])
      BY <1>1, <1>2, <1>3, <2>9, BVP!LevelInConcat, ConstantsAssumption, TablesAssumption
    <3>2. BVP!OnesUpTo(b, SparseStarts[i - 1] + p)
            = BVP!OnesUpTo(b, SparseStarts[i - 1]) + BVP!LevelOnes(list[i], p)
      <4> DEFINE t == SparseStarts
                 k == list
      <4>1. BVP!Starts(t, k) /\ k \in Seq(BVP!Levels) /\ b.num_bits = t[Len(k)]
            /\ BVP!OneBits(b) = BVP!BitsOfLevels(t, k, Len(k)) /\ BVP!BitvectorOK(b)
            /\ i \in 1 .. Len(k) /\ p \in 0 .. k[i].num_bits
        BY <1>1, <1>2, <1>3, <2>9
      <4> HIDE DEF t, k
      <4>2. BVP!OnesUpTo(b, t[i - 1] + p) = BVP!OnesUpTo(b, t[i - 1]) + BVP!LevelOnes(k[i], p)
        BY <4>1, BVP!LevelInConcat, ConstantsAssumption, TablesAssumption
      <4>3. QED
        BY <4>2 DEF t, k
    <3>3. QED
      BY <3>1, <3>2
  <2>11. SparseStarts[i - 1] + p = SparsePos(l, p)
    BY <2>1, <2>4
  <2>12. BVP!LevelOnes(list[i], p) = Cardinality(Below(bits[l], p))
    BY <2>8, SameQueries, Zenon DEF Below, BVP!LevelOnes
  <2>13. QED
    BY <2>4, <2>8, <2>9, <2>10, <2>11, <2>12
<1>5. QED
  BY <1>1, <1>3, <1>4 DEF HoldsLevels, n

(* The 1 bits in front of a level, where x counts those of each level. *)
LEMMA BitsInFront ==
  ASSUME DenseInv, HandoverInv, NEW bits, bits \in {louds_bits, child_indicator_bits},
         NEW b, HoldsLevels(b, bits), BVP!BitvectorOK(b), NEW x,
         \A l \in sparse_start_level .. height - 1 : x[l] \in Int,
         \A l \in sparse_start_level .. height - 2 : x[l + 1] = x[l] + Cardinality(bits[l]),
         NEW l \in sparse_start_level .. height - 1
  PROVE  BVP!OnesUpTo(b, SparsePos(l, 0)) = x[l] - x[sparse_start_level]
<1> DEFINE P == {d \in Nat : sparse_start_level + d < height =>
                   BVP!OnesUpTo(b, SparsePos(sparse_start_level + d, 0))
                     = x[sparse_start_level + d] - x[sparse_start_level]}
<1>1. sparse_start_level \in Nat /\ height \in Nat /\ l \in Nat
  BY SparseLevelIs
<1>2. sparse_start_level \in sparse_start_level .. height - 1
  BY <1>1
<1>3. 0 \in P
  <2>1. SparsePos(sparse_start_level, 0) = 0
    BY <1>2, SparseLevelIs DEF SparsePos
  <2>2. BVP!OnesUpTo(b, 0) = 0
    BY BVP!AllOnes, ConstantsAssumption, TablesAssumption
  <2>3. x[sparse_start_level] \in Int
    BY <1>2
  <2>4. sparse_start_level + 0 = sparse_start_level
    BY <1>1
  <2>5. QED
    BY <2>1, <2>2, <2>3, <2>4
<1>4. ASSUME NEW d \in Nat, d \in P
      PROVE  d + 1 \in P
  <2> SUFFICES ASSUME sparse_start_level + (d + 1) < height
               PROVE  BVP!OnesUpTo(b, SparsePos(sparse_start_level + (d + 1), 0))
                        = x[sparse_start_level + (d + 1)] - x[sparse_start_level]
    OBVIOUS
  <2> DEFINE m == sparse_start_level + d
  <2>1. /\ m \in sparse_start_level .. height - 2 /\ m \in sparse_start_level .. height - 1
        /\ sparse_start_level + (d + 1) = m + 1 /\ m < height
    BY <1>1
  <2>2. BVP!OnesUpTo(b, SparsePos(m, 0)) = x[m] - x[sparse_start_level]
    BY <1>4, <2>1
  <2> HIDE DEF m, P
  <2>3. SparsePos(m + 1, 0) = SparsePos(m, GetNumItems(m)) /\ GetNumItems(m) \in Nat /\ m \in Levels
    BY <2>1, SparseLevelIs
  <2>4. GetNumItems(m) \in 0 .. GetNumItems(m)
    BY <2>3
  <2>5. BVP!OnesUpTo(b, SparsePos(m, GetNumItems(m)))
          = BVP!OnesUpTo(b, SparsePos(m, 0)) + Cardinality(Below(bits[m], GetNumItems(m)))
    BY <2>1, <2>4 DEF HoldsLevels
  <2>6. bits[m] \in SUBSET (0 .. GetNumItems(m) - 1) /\ Cardinality(bits[m]) \in Nat
    <3>1. LoudsInv
      BY DEF DenseInv, SortedInv
    <3>2. QED
      BY <2>3, <3>1, LevelCounts
  <2>7. Below(bits[m], GetNumItems(m)) = bits[m]
    BY <2>3, <2>6 DEF Below
  <2>8. x[m + 1] = x[m] + Cardinality(bits[m])
    BY <2>1
  <2>9. x[m] \in Int /\ x[sparse_start_level] \in Int
    BY <1>2, <2>1
  <2>10. QED
    BY <2>1, <2>2, <2>3, <2>5, <2>6, <2>7, <2>8, <2>9
<1> HIDE DEF P
<1>5. \A d \in Nat : d \in P
  BY <1>3, <1>4, NatInduct
<1>6. l - sparse_start_level \in P /\ sparse_start_level + (l - sparse_start_level) = l
  BY <1>1, <1>5
<1>7. QED
  BY <1>1, <1>6 DEF P

(* A child bit of the sparse part, and how many of them there are up to it. *)
LEMMA SparseChildIs ==
  ASSUME DenseInv, HandoverInv, louds_sparse = MakeLoudsSparse,
         NEW l \in sparse_start_level .. height - 1, NEW p \in Items(l)
  PROVE  /\ HasSparseChild(SparsePos(l, p)) <=> p \in child_indicator_bits[l]
         /\ SparseChild(SparsePos(l, p))
              = NodesAbove(l + 1) - 1 + Cardinality(Below(child_indicator_bits[l], p + 1))
         /\ SparsePos(l, p) \in 0 .. louds_sparse.child_indicator_bits.num_bits - 1
         /\ BV!Rank(louds_sparse.child_indicator_bits, SparsePos(l, p)) \in Int
<1> DEFINE list == SparseLevels(child_indicator_bits)
           b == louds_sparse.child_indicator_bits
           x == [m \in sparse_start_level .. height |-> NodesAbove(m + 1)]
<1>1. b = BVP!MakeRank(list, {})
  <2>1. b = BV!MakeRank(list, {})
    BY DEF MakeLoudsSparse
  <2>2. QED
    BY <2>1, SameConstructors
<1>2. list \in Seq(BVP!Levels)
  BY SparseHandedOver
<1>3. /\ b.num_bits = BVP!MakeBitvector(list, {}).num_bits
      /\ b.bits = BVP!MakeBitvector(list, {}).bits
      /\ b.rank_lut = BVP!RankLut(BVP!MakeBitvector(list, {}))
  BY <1>1 DEF BVP!MakeRank
<1> HIDE DEF b
<1>4. BVP!BitvectorOK(b) /\ HoldsLevels(b, child_indicator_bits)
  BY <1>3, SparseBits DEF list
<1> HIDE DEF list
<1>5. BVP!RankCounts(b)
  BY <1>2, <1>3, BVP!RankMade, ConstantsAssumption, TablesAssumption
<1>6. /\ sparse_start_level \in Nat /\ height \in Nat /\ l \in 0 .. height - 1
      /\ sparse_start_level \in 0 .. height - 1 /\ l \in Nat
      /\ GetNumItems(l) \in Nat /\ p \in Int /\ p + 1 \in 0 .. GetNumItems(l)
      /\ p \in 0 .. GetNumItems(l) /\ p < GetNumItems(l)
      /\ SparsePos(l, p + 1) = SparsePos(l, p) + 1 /\ SparsePos(l, p) \in Int
  BY SparseLevelIs DEF Items
<1>7. /\ SparsePos(l, p) \in 0 .. b.num_bits - 1
      /\ SparsePos(l, p) \in BVP!OneBits(b) <=> p \in child_indicator_bits[l]
      /\ BVP!OnesUpTo(b, SparsePos(l, p + 1))
           = BVP!OnesUpTo(b, SparsePos(l, 0)) + Cardinality(Below(child_indicator_bits[l], p + 1))
  BY <1>4, <1>6 DEF HoldsLevels
<1>8. BVP!OnesUpTo(b, SparsePos(l, 0)) = NodesAbove(l + 1) - NodesAbove(sparse_start_level + 1)
  <2>1. \A m \in sparse_start_level .. height - 1 :
          x[m] = NodesAbove(m + 1) /\ NodesAbove(m + 1) \in Int
    <3> TAKE m \in sparse_start_level .. height - 1
    <3>1. m \in 0 .. height - 1 /\ m \in sparse_start_level .. height
      BY <1>6
    <3>2. NodesAbove(m + 1) \in Nat
      BY <3>1, AboveIs
    <3>3. QED
      BY <3>1, <3>2
  <2>2. \A m \in sparse_start_level .. height - 2 :
          NodesAbove(m + 1 + 1) = NodesAbove(m + 1) + Cardinality(child_indicator_bits[m])
    <3> TAKE m \in sparse_start_level .. height - 2
    <3>1. m \in 0 .. height - 1 /\ m + 1 \in 0 .. height - 1 /\ m + 1 < height
      BY <1>6
    <3>2. NodesAbove(m + 1 + 1) = NodesAbove(m + 1) + node_counts[m + 1]
      BY <3>1, AboveIs
    <3>3. node_counts[m + 1] = Cardinality(child_indicator_bits[m])
      BY <3>1, LevelIs
    <3>4. QED
      BY <3>2, <3>3
  <2>3. \A m \in sparse_start_level .. height - 2 :
          x[m + 1] = x[m] + Cardinality(child_indicator_bits[m])
    BY <1>6, <2>1, <2>2
  <2> HIDE DEF x
  <2>4. BVP!OnesUpTo(b, SparsePos(l, 0)) = x[l] - x[sparse_start_level]
    BY <1>4, <2>1, <2>3, BitsInFront
  <2>5. sparse_start_level \in sparse_start_level .. height - 1 /\ l \in sparse_start_level .. height - 1
    BY <1>6
  <2>6. QED
    BY <2>1, <2>4, <2>5
<1>9. BV!Rank(b, SparsePos(l, p))
        = NodesAbove(l + 1) - NodesAbove(sparse_start_level + 1)
            + Cardinality(Below(child_indicator_bits[l], p + 1))
  <2>1. BV!Rank(b, SparsePos(l, p)) = BVP!OnesUpTo(b, SparsePos(l, p) + 1)
    BY <1>5, <1>7, SameQueries DEF BVP!RankCounts
  <2>2. QED
    BY <1>6, <1>7, <1>8, <2>1
<1>10. louds_sparse.child_count_dense = NodesAbove(sparse_start_level + 1) - 1
  BY DenseCounts
<1>11. NodesAbove(l + 1) \in Int /\ NodesAbove(sparse_start_level + 1) \in Int
  BY <1>6, AboveIs
<1>12. Cardinality(Below(child_indicator_bits[l], p + 1)) \in Int
  <2> DEFINE S == child_indicator_bits[l]
             n == GetNumItems(l)
             r == p + 1
  <2>1. S \in SUBSET (0 .. n - 1)
    BY <1>6, LevelIs DEF Items
  <2>2. r \in Int /\ r <= r /\ n \in Nat
    BY <1>6
  <2> HIDE DEF S, n, r
  <2>3. Cardinality(Below(S, r)) \in Nat
    BY <2>1, <2>2, CountsGrow
  <2>4. QED
    BY <2>3 DEF S, r
<1>13. HasSparseChild(SparsePos(l, p)) <=> p \in child_indicator_bits[l]
  <2>1. HasSparseChild(SparsePos(l, p)) <=> BVP!ReadBit(b, SparsePos(l, p))
    BY SameQueries DEF HasSparseChild, b
  <2>2. BVP!ReadBit(b, SparsePos(l, p)) <=> SparsePos(l, p) \in BVP!OneBits(b)
    BY <1>7 DEF BVP!OneBits
  <2>3. QED
    BY <1>7, <2>1, <2>2
<1>14. SparseChild(SparsePos(l, p))
         = NodesAbove(l + 1) - 1 + Cardinality(Below(child_indicator_bits[l], p + 1))
  BY <1>9, <1>10, <1>11, <1>12 DEF SparseChild, b
<1>15. QED
  BY <1>7, <1>9, <1>11, <1>12, <1>13, <1>14 DEF b

(* The start bits of the sparse part, as they were handed over. *)
LEMMA StartBitsAre ==
  ASSUME DenseInv, HandoverInv, louds_sparse = MakeLoudsSparse
  PROVE  /\ BVP!BitvectorOK(louds_sparse.louds_bits)
         /\ BVP!SelectOK(louds_sparse.louds_bits)
         /\ HoldsLevels(louds_sparse.louds_bits, louds_bits)
         /\ louds_sparse.louds_bits.num_bits = SparsePos(height, 0)
<1> DEFINE list == SparseLevels(louds_bits)
           b == louds_sparse.louds_bits
<1>1. b = BVP!MakeSelect(list, {})
  <2>1. b = BV!MakeSelect(list, {})
    BY DEF MakeLoudsSparse
  <2>2. QED
    BY <2>1, SameConstructors
<1>2. list \in Seq(BVP!Levels)
  BY SparseHandedOver
<1>3. /\ b.num_bits = BVP!MakeBitvector(list, {}).num_bits
      /\ b.bits = BVP!MakeBitvector(list, {}).bits
      /\ b.num_ones = BVP!MakeSelect(list, {}).num_ones
      /\ b.select_lut = BVP!MakeSelect(list, {}).select_lut
  BY <1>1 DEF BVP!MakeSelect
<1> HIDE DEF b
<1>4. /\ BVP!BitvectorOK(b) /\ HoldsLevels(b, louds_bits)
      /\ b.num_bits = SparseStarts[height - sparse_start_level]
  BY <1>3, SparseBits DEF list
<1> HIDE DEF list
<1>5. BVP!SelectOK(b)
  BY <1>2, <1>3, BVP!SelectMade, ConstantsAssumption, TablesAssumption
<1>6. SparseStarts[height - sparse_start_level] = SparsePos(height, 0)
  <2>1. sparse_start_level \in Nat /\ height \in Nat /\ sparse_start_level <= height
    BY DEF HandoverInv, SlotsInv, TypeInv, TypeOK
  <2>2. /\ height - sparse_start_level \in 0 .. height - sparse_start_level
        /\ sparse_start_level + (height - sparse_start_level) = height
    BY <2>1
  <2>3. QED
    BY <2>2 DEF SparseStarts
<1>7. QED
  BY <1>4, <1>5, <1>6 DEF b

-------------------------------------------------------------------------------
(* The nodes of the sparse levels *)

(* The first label of a node, and how many labels it is taken to have. *)
LEMMA SparseNode ==
  ASSUME DenseInv, HandoverInv, louds_sparse = MakeLoudsSparse,
         NEW l \in sparse_start_level .. height - 1, NEW r \in louds_bits[l]
  PROVE  /\ SparsePos(l, r) \in BVP!OneBits(louds_sparse.louds_bits)
         /\ 0 \in BVP!OneBits(louds_sparse.louds_bits)
         /\ FirstLabelPos(NodesAbove(l) + NodeOf(l, r)) = SparsePos(l, r)
<1> DEFINE b == louds_sparse.louds_bits
           x == [m \in sparse_start_level .. height |-> NodesAbove(m)]
           S == louds_bits[l]
<1>1. BVP!BitvectorOK(b) /\ BVP!SelectOK(b) /\ HoldsLevels(b, louds_bits)
  BY StartBitsAre
<1> HIDE DEF b
<1>2. /\ sparse_start_level \in Nat /\ height \in Nat /\ l \in 0 .. height - 1 /\ l \in Nat
      /\ sparse_start_level \in 0 .. height - 1
      /\ sparse_start_level \in sparse_start_level .. height - 1
      /\ GetNumItems(l) \in Nat /\ SparsePos(l, 0) \in Int
      /\ \A q \in Int : SparsePos(l, q) = SparsePos(l, 0) + q
      /\ SparsePos(sparse_start_level, 0) = 0
  BY SparseLevelIs DEF SparsePos
<1>3. S \in SUBSET (0 .. GetNumItems(l) - 1) /\ r \in 0 .. GetNumItems(l) - 1 /\ r \in S
  BY <1>2, LevelIs DEF Items
<1>4. /\ SparsePos(l, r) \in BVP!OneBits(b)
      /\ BVP!OnesUpTo(b, SparsePos(l, r))
           = BVP!OnesUpTo(b, SparsePos(l, 0)) + Cardinality(Below(S, r))
  <2>1. r \in 0 .. GetNumItems(l) /\ r < GetNumItems(l)
    BY <1>2, <1>3
  <2>2. QED
    BY <1>1, <2>1 DEF HoldsLevels
<1>5. 0 \in BVP!OneBits(b)
  <2>1. 0 \in louds_bits[sparse_start_level] /\ 0 \in Items(sparse_start_level)
        /\ GetNumItems(sparse_start_level) \in Nat
    BY <1>2, LevelIs
  <2>2. 0 \in 0 .. GetNumItems(sparse_start_level) /\ 0 < GetNumItems(sparse_start_level)
    BY <2>1 DEF Items
  <2>3. SparsePos(sparse_start_level, 0) \in BVP!OneBits(b)
    BY <1>1, <1>2, <2>1, <2>2 DEF HoldsLevels
  <2>4. QED
    BY <1>2, <2>3
<1>6. BVP!OnesUpTo(b, SparsePos(l, 0)) = NodesAbove(l) - NodesAbove(sparse_start_level)
      /\ NodesAbove(l) \in Int /\ NodesAbove(sparse_start_level) \in Int
  <2>1. \A m \in sparse_start_level .. height - 1 :
          x[m] = NodesAbove(m) /\ NodesAbove(m) \in Int
    <3> TAKE m \in sparse_start_level .. height - 1
    <3>1. m \in 0 .. height - 1 /\ m \in sparse_start_level .. height
      BY <1>2
    <3>2. NodesAbove(m) \in Nat
      BY <3>1, AboveIs
    <3>3. QED
      BY <3>1, <3>2
  <2>2. \A m \in sparse_start_level .. height - 2 :
          x[m + 1] = x[m] + Cardinality(louds_bits[m])
    <3> TAKE m \in sparse_start_level .. height - 2
    <3>1. m \in 0 .. height - 1 /\ m \in sparse_start_level .. height - 1
          /\ m + 1 \in sparse_start_level .. height - 1
      BY <1>2
    <3>2. NodesAbove(m + 1) = NodesAbove(m) + node_counts[m]
      BY <3>1, AboveIs
    <3>3. node_counts[m] = Cardinality(louds_bits[m])
      BY <3>1, LevelIs
    <3>4. x[m] = NodesAbove(m) /\ x[m + 1] = NodesAbove(m + 1)
      BY <2>1, <3>1
    <3>5. QED
      BY <3>2, <3>3, <3>4
  <2> HIDE DEF x
  <2>3. BVP!OnesUpTo(b, SparsePos(l, 0)) = x[l] - x[sparse_start_level]
    BY <1>1, <2>1, <2>2, BitsInFront
  <2>4. QED
    BY <1>2, <2>1, <2>3
<1>7. NodeOf(l, r) = Cardinality(Below(S, r)) /\ Cardinality(Below(S, r)) \in Nat
  <2> DEFINE n == GetNumItems(l)
  <2>1. NodeOf(l, r) = Cardinality(UpTo(S, r)) - 1
    BY Zenon DEF NodeOf, UpTo
  <2> HIDE DEF S, n
  <2>2. r \in Int /\ r <= r /\ n \in Nat /\ S \in SUBSET (0 .. n - 1) /\ r + 1 \in Int
    BY <1>2, <1>3 DEF n
  <2>3. /\ UpTo(S, r) = Below(S, r + 1) /\ Cardinality(Below(S, r)) \in Nat
        /\ Cardinality(Below(S, r + 1)) = Cardinality(Below(S, r)) + 1
    BY <1>3, <2>2, CountsGrow
  <2>4. QED
    BY <2>1, <2>3
<1>8. BVP!Select(b, BVP!OnesUpTo(b, SparsePos(l, r)) + 1) = SparsePos(l, r)
  BY <1>1, <1>4, <1>5, BVP!SelectAt, ConstantsAssumption, TablesAssumption
<1>9. FirstLabelPos(NodesAbove(l) + NodeOf(l, r)) = SparsePos(l, r)
  <2> DEFINE k == NodesAbove(l) + NodeOf(l, r)
  <2>1. louds_sparse.node_count_dense = NodesAbove(sparse_start_level)
    BY DenseCounts
  <2>2. k + 1 - NodesAbove(sparse_start_level) = BVP!OnesUpTo(b, SparsePos(l, r)) + 1
    BY <1>4, <1>6, <1>7
  <2>3. FirstLabelPos(k) = BV!Select(b, k + 1 - NodesAbove(sparse_start_level))
    BY <2>1 DEF FirstLabelPos, b
  <2> HIDE DEF k
  <2>4. FirstLabelPos(k) = SparsePos(l, r)
    BY <1>8, <2>2, <2>3, SameQueries
  <2>5. QED
    BY <2>4 DEF k
<1>10. QED
  BY <1>4, <1>5, <1>9 DEF b

(* A node in the start bits: nothing starts between its start and its end,
   where the next node starts or the vector ends. *)
LEMMA NodeApart ==
  ASSUME DenseInv, HandoverInv, NEW l \in sparse_start_level .. height - 1,
         NEW r \in louds_bits[l], NEW e, NodeEnd(l, r, e),
         NEW c, BVP!BitvectorOK(c), HoldsLevels(c, louds_bits), c.num_bits = SparsePos(height, 0)
  PROVE  /\ SparsePos(l, r) \in BVP!OneBits(c) /\ SparsePos(l, e) \in Int
         /\ SparsePos(l, r) \in Nat
         /\ SparsePos(l, e) - SparsePos(l, r) = e - r /\ SparsePos(l, r) < SparsePos(l, e)
         /\ \A q \in BVP!OneBits(c) : q <= SparsePos(l, r) \/ SparsePos(l, e) <= q
         /\ \/ SparsePos(l, e) \in BVP!OneBits(c)
            \/ /\ l = height - 1 /\ e = GetNumItems(l)
               /\ SparsePos(l, e) = c.num_bits
<1>1. /\ sparse_start_level \in Nat /\ height \in Nat /\ l \in 0 .. height - 1 /\ l \in Nat
      /\ GetNumItems(l) \in Nat /\ SparsePos(l, 0) \in Int
      /\ \A q \in Int : SparsePos(l, q) = SparsePos(l, 0) + q
      /\ SparsePos(l + 1, 0) = SparsePos(l, GetNumItems(l))
  BY SparseLevelIs
<1>2. louds_bits[l] \in SUBSET (0 .. GetNumItems(l) - 1) /\ r \in 0 .. GetNumItems(l) - 1
  BY <1>1, LevelIs DEF Items
<1>3. /\ e \in r + 1 .. GetNumItems(l) /\ (e = GetNumItems(l) \/ e \in louds_bits[l])
      /\ \A q \in r + 1 .. e - 1 : q \notin louds_bits[l]
  BY DEF NodeEnd
<1>4. /\ SparsePos(l, r) \in Int /\ SparsePos(l, e) \in Int /\ r \in Int /\ e \in Int
      /\ SparsePos(l, e) - SparsePos(l, r) = e - r /\ SparsePos(l, r) < SparsePos(l, e)
      /\ SparsePos(l, r) = SparsePos(l, 0) + r /\ SparsePos(l, e) = SparsePos(l, 0) + e
  BY <1>1, <1>2, <1>3
<1>5. ASSUME NEW s \in 0 .. GetNumItems(l) - 1
      PROVE  SparsePos(l, s) \in BVP!OneBits(c) <=> s \in louds_bits[l]
  <2>1. s \in 0 .. GetNumItems(l) /\ s < GetNumItems(l)
    BY <1>1
  <2>2. QED
    BY <2>1 DEF HoldsLevels
<1>6. SparsePos(l, r) \in BVP!OneBits(c)
  BY <1>2, <1>5
<1>7. ASSUME NEW q \in BVP!OneBits(c)
      PROVE  q <= SparsePos(l, r) \/ SparsePos(l, e) <= q
  <2>1. q \in Int
    BY DEF BVP!OneBits, BVP!BitvectorOK
  <2> SUFFICES ASSUME SparsePos(l, r) < q, q < SparsePos(l, e) PROVE FALSE
    BY <1>4, <2>1
  <2> DEFINE s == q - SparsePos(l, 0)
  <2>2. s \in r + 1 .. e - 1 /\ s \in 0 .. GetNumItems(l) - 1 /\ s \in Int /\ SparsePos(l, 0) + s = q
    BY <1>1, <1>2, <1>3, <1>4, <2>1
  <2> HIDE DEF s
  <2>3. SparsePos(l, s) = q
    BY <1>1, <2>2
  <2>4. s \in louds_bits[l]
    BY <1>5, <2>2, <2>3
  <2>5. QED
    BY <1>3, <2>2, <2>4
<1>8. \/ SparsePos(l, e) \in BVP!OneBits(c)
      \/ /\ l = height - 1 /\ e = GetNumItems(l)
         /\ SparsePos(l, e) = c.num_bits
  <2>1. CASE e < GetNumItems(l)
    <3>1. e \in louds_bits[l] /\ e \in 0 .. GetNumItems(l) - 1
      BY <1>1, <1>2, <1>3, <2>1
    <3>2. QED
      BY <1>5, <3>1
  <2>2. CASE e = GetNumItems(l) /\ l < height - 1
    <3>1. l + 1 \in sparse_start_level .. height - 1 /\ l + 1 \in 0 .. height - 1
      BY <1>1, <2>2
    <3>2. 0 \in louds_bits[l + 1] /\ 0 \in Items(l + 1) /\ GetNumItems(l + 1) \in Nat
      BY <3>1, LevelIs
    <3>3. 0 \in 0 .. GetNumItems(l + 1) /\ 0 < GetNumItems(l + 1)
      BY <3>2 DEF Items
    <3>4. SparsePos(l + 1, 0) \in BVP!OneBits(c)
      BY <3>1, <3>2, <3>3 DEF HoldsLevels
    <3>5. QED
      BY <1>1, <2>2, <3>4
  <2>3. CASE e = GetNumItems(l) /\ l = height - 1
    <3>1. l + 1 = height
      BY <1>1, <2>3
    <3>2. QED
      BY <1>1, <2>3, <3>1
  <2>4. QED
    BY <1>1, <1>2, <1>3, <2>1, <2>2, <2>3
<1>9. SparsePos(l, r) \in Nat
  BY <1>6 DEF BVP!OneBits, BVP!BitvectorOK
<1>10. QED
  BY <1>4, <1>6, <1>7, <1>8, <1>9

(* nodeSize is the number of labels of a node, unless the node is the last one
   and ends behind the word its distance is taken to. *)
LEMMA NodeSizeIs ==
  ASSUME DenseInv, HandoverInv, pc = "done", louds_sparse = MakeLoudsSparse, WordSize > 1,
         NEW l \in sparse_start_level .. height - 1, NEW r \in louds_bits[l],
         NEW e, NodeEnd(l, r, e), NEW size \in NodeSizes(SparsePos(l, r))
  PROVE  \/ size = e - r
         \/ /\ l = height - 1 /\ e = GetNumItems(l) /\ ~LastNodeEndsInside
            /\ size \in Nat /\ size >= e - r /\ size >= WordSize + 2
<1> DEFINE b == louds_sparse.louds_bits
           pos == SparsePos(l, r)
           E == SparsePos(l, e)
<1>1. PICK word \in SUBSET (0 .. WordSize - 1) :
        size = BV!DistanceToNextSetBit([b EXCEPT !.junk = word], pos)
  BY DEF NodeSizes
<1> DEFINE c == [b EXCEPT !.junk = word]
<1>2. c.num_bits = b.num_bits /\ c.bits = b.bits
  BY DEF MakeLoudsSparse, BV!MakeSelect
<1>3. BVP!BitvectorOK(b) /\ BVP!SelectOK(b) /\ HoldsLevels(b, louds_bits)
      /\ b.num_bits = SparsePos(height, 0)
  BY StartBitsAre
<1>4. BVP!BitvectorOK(c) /\ HoldsLevels(c, louds_bits) /\ c.num_bits = SparsePos(height, 0)
  <2>1. b = BVP!MakeSelect(SparseLevels(louds_bits), {})
    <3>1. b = BV!MakeSelect(SparseLevels(louds_bits), {})
      BY DEF MakeLoudsSparse
    <3>2. QED
      BY <3>1, SameConstructors
  <2>2. /\ b.num_bits = BVP!MakeBitvector(SparseLevels(louds_bits), {}).num_bits
        /\ b.bits = BVP!MakeBitvector(SparseLevels(louds_bits), {}).bits
    BY <2>1 DEF BVP!MakeSelect
  <2> HIDE DEF b, c
  <2>3. BVP!BitvectorOK(c) /\ HoldsLevels(c, louds_bits)
    BY <1>2, <2>2, SparseBits
  <2>4. QED
    BY <1>2, <1>3, <2>3
<1>5. size = BVP!DistanceToNextSetBit(c, pos)
  BY <1>1, SameQueries
<1> HIDE DEF b, c, pos, E
<1>6. /\ pos \in BVP!OneBits(c) /\ E \in Int /\ E - pos = e - r /\ pos < E /\ pos \in Nat
      /\ \A q \in BVP!OneBits(c) : q <= pos \/ E <= q
      /\ E \in BVP!OneBits(c) \/ (l = height - 1 /\ e = GetNumItems(l) /\ E = c.num_bits)
  BY <1>4, NodeApart DEF pos, E
<1>7. /\ pos \in BVP!OneBits(b)
      /\ \A q \in BVP!OneBits(b) : q <= pos \/ E <= q
  BY <1>3, NodeApart DEF pos, E
<1>8. ASSUME E \in BVP!OneBits(c) PROVE size = e - r
  <2>1. BVP!DistanceToNextSetBit(c, pos) = E - pos
    BY <1>4, <1>6, <1>8, BVP!NextAt, ConstantsAssumption, TablesAssumption
  <2>2. QED
    BY <1>5, <1>6, <2>1
<1>9. ASSUME l = height - 1, e = GetNumItems(l), E = c.num_bits
      PROVE  \/ size = e - r
             \/ /\ l = height - 1 /\ e = GetNumItems(l) /\ ~LastNodeEndsInside
                /\ size \in Nat /\ size >= e - r /\ size >= WordSize + 2
  <2> DEFINE w == BVP!NumWords(c.num_bits)
             d == (pos + 1) \div WordSize
  <2>1. WordSize \in Nat \ {0} /\ c.num_bits \in Nat /\ height \in Nat /\ l \in Nat /\ e \in Int /\ r \in Nat
        /\ sparse_start_level \in Nat
    <3>1. l \in 0 .. height - 1 /\ l \in Nat /\ height \in Nat /\ sparse_start_level \in Nat /\ GetNumItems(l) \in Nat
      BY SparseLevelIs
    <3>2. r \in Nat
      BY <3>1, LevelIs DEF Items
    <3>3. c.num_bits \in Nat
      BY <1>4 DEF BVP!BitvectorOK
    <3>4. QED
      BY <1>9, <3>1, <3>2, <3>3, ConstantsAssumption
  <2>2. w \in Nat /\ c.num_bits <= w * WordSize
    BY <2>1, BVP!NumWordsBounds, ConstantsAssumption, TablesAssumption
  <2>3. d \in Int
    <3>1. pos + 1 \in Int
      BY <1>6
    <3>2. QED
      BY <2>1, <3>1, DivMod
  <2>4. CASE d = w - 1
    <3>1. BVP!DistanceToNextSetBit(c, pos) = E - pos
      BY <1>4, <1>6, <1>9, <2>4, BVP!NextAt, ConstantsAssumption, TablesAssumption
    <3>2. QED
      BY <1>5, <1>6, <3>1
  <2>5. CASE d < w - 1
    <3>1. size = w * WordSize - pos /\ size >= WordSize + 2 /\ size >= E - pos
      BY <1>4, <1>5, <1>6, <1>9, <2>5, BVP!NextAt, ConstantsAssumption, TablesAssumption
    <3>2. size \in Nat
      BY <1>6, <2>1, <2>2, <3>1
    <3>3. ~LastNodeEndsInside
      <4>1. \A q \in BVP!OneBits(b) : q <= pos
        <5>1. \A q \in BVP!OneBits(b) : q \in Int /\ q < E
          BY <1>2, <1>3, <1>9 DEF BVP!OneBits, BVP!BitvectorOK
        <5>2. QED
          BY <1>6, <1>7, <5>1
      <4>2. 0 \in BVP!OneBits(b)
        BY SparseNode DEF b
      <4>3. b.num_ones > 0 /\ BVP!Select(b, b.num_ones) = pos
        BY <1>3, <1>7, <4>1, <4>2, BVP!LastOne, ConstantsAssumption, TablesAssumption
      <4>4. BV!Select(b, b.num_ones) = pos /\ BV!NumWords(b.num_bits) = w
        BY <1>2, <4>3, SameQueries
      <4>5. LastNodeEndsInside => d = w - 1
        BY <4>3, <4>4 DEF LastNodeEndsInside, b
      <4>6. QED
        BY <2>2, <2>3, <2>5, <4>5
    <3>4. QED
      BY <1>6, <1>9, <3>1, <3>2, <3>3
  <2>6. CASE d > w - 1
    <3>1. pos + 1 = E /\ pos + 1 = w * WordSize
      BY <1>4, <1>6, <1>9, <2>6, BVP!NextAt, ConstantsAssumption, TablesAssumption
    <3>2. GetNumItems(height - 1) = r + 1 /\ r \in louds_bits[height - 1] /\ height > 0
      BY <1>6, <1>9, <2>1, <3>1
    <3>3. height = 1 /\ r = 0
      BY <3>2, NotAlone
    <3>4. l = 0 /\ sparse_start_level = 0 /\ l = sparse_start_level
      BY <1>9, <2>1, <3>3
    <3>5. SparsePos(l, 0) = 0
      BY <3>4, SparseLevelIs DEF SparsePos
    <3>6. pos = 0
      BY <3>3, <3>5 DEF pos
    <3>7. w * WordSize = 1
      BY <3>1, <3>6
    <3>8. w # 0
      BY <2>1, <3>7
    <3>9. 1 * WordSize <= w * WordSize
      BY <2>1, <2>2, <3>8, TimesMonotone
    <3>10. QED
      BY <2>1, <3>7, <3>9
  <2>7. QED
    BY <2>2, <2>3, <2>4, <2>5, <2>6
<1>10. QED
  BY <1>6, <1>8, <1>9

(* The label vector holds the label of every item of the sparse part. *)
LEMMA SparseLabelIs ==
  ASSUME DenseInv, HandoverInv, louds_sparse = MakeLoudsSparse,
         NEW lv, lv.labels = louds_sparse.labels.labels,
         NEW l \in sparse_start_level .. height - 1, NEW p \in Items(l)
  PROVE  LV!LabelAt(lv, SparsePos(l, p)) = labels[l][p + 1]
<1> DEFINE n == height - sparse_start_level
           seqs == [i \in 1 .. n |-> labels[sparse_start_level + i - 1]]
<1>1. /\ sparse_start_level \in Nat /\ height \in Nat /\ l \in 0 .. height - 1 /\ l \in Nat
      /\ n \in Nat /\ SparsePos(l, p) = SparsePos(l, 0) + p /\ SparsePos(l, 0) \in Int
      /\ p \in Int /\ p + 1 \in 1 .. GetNumItems(l) /\ GetNumItems(l) \in Nat
  BY SparseLevelIs DEF Items
<1>2. lv.labels = FlattenSeq(seqs)
  BY DEF MakeLoudsSparse
<1>3. ASSUME NEW i \in 1 .. n
      PROVE  /\ seqs[i] \in Seq(Label) /\ Len(seqs[i]) = GetNumItems(sparse_start_level + i - 1)
             /\ sparse_start_level + i - 1 \in sparse_start_level .. height - 1
             /\ seqs[i] = labels[sparse_start_level + i - 1]
  <2>1. sparse_start_level + i - 1 \in sparse_start_level .. height - 1
    BY <1>1
  <2>2. sparse_start_level + i - 1 \in 0 .. height - 1
    BY <1>1
  <2>3. /\ labels[sparse_start_level + i - 1] \in Seq(Label)
        /\ GetNumItems(sparse_start_level + i - 1) = Len(labels[sparse_start_level + i - 1])
    BY <2>2, LevelIs
  <2>4. QED
    BY <2>1, <2>3
<1>4. Len(seqs) = n /\ seqs \in Seq(Seq(Label))
  <2>1. \A i \in 1 .. n : labels[sparse_start_level + i - 1] \in Seq(Label)
    BY <1>3
  <2>2. seqs \in [1 .. n -> Seq(Label)] /\ n \in Nat
    BY <1>1, <2>1
  <2> HIDE DEF seqs, n
  <2>3. QED
    BY <2>2
<1>5. /\ Len(SparseLevels(louds_bits)) = n
      /\ \A i \in 1 .. n : SparseLevels(louds_bits)[i].num_bits = GetNumItems(sparse_start_level + i - 1)
      /\ BVP!Starts(SparseStarts, SparseLevels(louds_bits))
  <2>1. /\ Len(SparseLevels(louds_bits)) = n
        /\ \A i \in 1 .. n :
             SparseLevels(louds_bits)[i] =
                [num_bits |-> GetNumItems(sparse_start_level + i - 1),
                 words |-> LevelWords(louds_bits[sparse_start_level + i - 1],
                                      words[sparse_start_level + i - 1])]
        /\ BVP!Starts(SparseStarts, SparseLevels(louds_bits))
    BY SparseStartsAre, Zenon
  <2> HIDE DEF n, seqs
  <2>2. ASSUME NEW i \in 1 .. n
        PROVE  SparseLevels(louds_bits)[i].num_bits = GetNumItems(sparse_start_level + i - 1)
    BY <2>1
  <2>3. QED
    BY <2>1, <2>2
<1>6. /\ SparseStarts[0] = 0
      /\ \A i \in 1 .. n : SparseStarts[i] = SparseStarts[i - 1] + GetNumItems(sparse_start_level + i - 1)
  BY <1>5 DEF BVP!Starts
<1> DEFINE i == l - sparse_start_level + 1
<1>7. /\ i \in 1 .. n /\ sparse_start_level + i - 1 = l
      /\ i - 1 \in 0 .. n
  BY <1>1
<1>8. SparseStarts[i - 1] = SparsePos(l, 0)
  <2>1. SparseStarts[i - 1] = SparsePos(sparse_start_level + (i - 1), 0)
    BY <1>7 DEF SparseStarts
  <2>2. sparse_start_level + (i - 1) = l
    BY <1>1
  <2>3. QED
    BY <2>1, <2>2
<1> HIDE DEF n, seqs, i
<1>9. PICK f : FlatPrefixes(f, seqs, Len(seqs), Label) /\ FlattenSeq(seqs) = f[Len(seqs)]
  BY <1>4, FlattenIs
<1>10. BVP!FlatPrefixes(f, seqs, n, Label) /\ f[0] = << >> /\ FlattenSeq(seqs) = f[n]
  BY <1>4, <1>9 DEF FlatPrefixes, BVP!FlatPrefixes
<1>11. f[n] \in Seq(Label) /\ BVP!Placed(f[n], f, seqs, n)
  BY <1>1, <1>10, BVP!FlattenElements, ConstantsAssumption, TablesAssumption
<1>12. \A m \in 0 .. n : Len(f[m]) = SparseStarts[m]
  <2> DEFINE S == {m \in 0 .. n : Len(f[m]) = SparseStarts[m]}
  <2>1. 0 \in S
    <3>1. Len(f[0]) = 0
      BY <1>10
    <3>2. QED
      BY <1>1, <1>6, <3>1
  <2>2. ASSUME NEW m \in 0 .. n - 1, m \in S PROVE m + 1 \in S
    <3>1. m + 1 \in 1 .. n /\ m + 1 \in 0 .. n /\ m + 1 - 1 = m
      BY <1>1
    <3>2. Len(f[m + 1]) = Len(f[m + 1 - 1]) + Len(seqs[m + 1])
      <4> DEFINE w == m + 1
      <4>1. w \in 1 .. n
        BY <3>1
      <4> HIDE DEF w, S
      <4>2. Len(f[w]) = Len(f[w - 1]) + Len(seqs[w])
        BY <1>11, <4>1 DEF BVP!Placed
      <4>3. QED
        BY <4>2 DEF w
    <3>3. Len(seqs[m + 1]) = GetNumItems(sparse_start_level + (m + 1) - 1)
      BY <1>3, <3>1
    <3>4. SparseStarts[m + 1] = SparseStarts[m + 1 - 1] + GetNumItems(sparse_start_level + (m + 1) - 1)
      BY <1>6, <3>1
    <3>5. QED
      BY <2>2, <3>1, <3>2, <3>3, <3>4
  <2> HIDE DEF S
  <2>3. \A m \in 0 .. n : m \in S
    BY <1>1, <2>1, <2>2, UpToInduct
  <2>4. QED
    BY <2>3 DEF S
<1>13. Len(f[i - 1]) = SparsePos(l, 0)
  BY <1>7, <1>8, <1>12
<1>14. Len(seqs[i]) = GetNumItems(l) /\ seqs[i] = labels[l]
  BY <1>3, <1>7
<1>15. /\ Len(f[i - 1]) + (p + 1) \in 1 .. Len(f[n])
       /\ f[n][Len(f[i - 1]) + (p + 1)] = seqs[i][p + 1]
  <2> DEFINE w == p + 1
  <2>1. w \in 1 .. Len(seqs[i])
    BY <1>1, <1>14
  <2> HIDE DEF w
  <2>2. Len(f[i - 1]) + w \in 1 .. Len(f[n]) /\ f[n][Len(f[i - 1]) + w] = seqs[i][w]
    BY <1>7, <1>11, <2>1 DEF BVP!Placed
  <2>3. QED
    BY <2>2 DEF w
<1>16. SparsePos(l, 0) + (p + 1) = SparsePos(l, p) + 1
  BY <1>1
<1>17. SparsePos(l, p) + 1 \in DOMAIN lv.labels /\ lv.labels[SparsePos(l, p) + 1] = labels[l][p + 1]
  <2>1. DOMAIN f[n] = 1 .. Len(f[n])
    BY <1>11
  <2>2. QED
    BY <1>2, <1>10, <1>13, <1>14, <1>15, <1>16, <2>1
<1>18. QED
  BY <1>17 DEF LV!LabelAt

(* Behind the last item of the sparse part there are no children. *)
LEMMA NoChildBehind ==
  ASSUME DenseInv, HandoverInv, louds_sparse = MakeLoudsSparse,
         NEW pos \in Nat, SparsePos(height, 0) <= pos
  PROVE  ~HasSparseChild(pos)
<1> DEFINE list == SparseLevels(child_indicator_bits)
           b == louds_sparse.child_indicator_bits
<1>1. b = BVP!MakeRank(list, {}) /\ b = BV!MakeRank(list, {})
  <2>1. b = BV!MakeRank(list, {})
    BY DEF MakeLoudsSparse
  <2>2. QED
    BY <2>1, SameConstructors
<1>2. b.junk = {}
  BY <1>1 DEF BV!MakeRank, BV!MakeBitvector
<1>3. /\ b.num_bits = BVP!MakeBitvector(list, {}).num_bits
      /\ b.bits = BVP!MakeBitvector(list, {}).bits
  BY <1>1 DEF BVP!MakeRank
<1> HIDE DEF b
<1>4. BVP!BitvectorOK(b) /\ b.num_bits = SparseStarts[height - sparse_start_level]
  BY <1>3, SparseBits DEF list
<1> HIDE DEF list
<1>5. b.num_bits = SparsePos(height, 0) /\ b.num_bits \in Nat
  <2>1. height - sparse_start_level \in Nat /\ sparse_start_level \in Int /\ height \in Int
    <3>1. TypeOK /\ sparse_start_level <= height
      BY DEF HandoverInv, SlotsInv, TypeInv
    <3>2. MaxLevel \in Nat /\ sparse_start_level \in 0 .. MaxLevel + 1 /\ height \in 0 .. MaxLevel + 1
      BY <3>1, ConstantsAssumption DEF TypeOK
    <3>3. QED
      BY <3>1, <3>2
  <2>2. SparseStarts[height - sparse_start_level]
          = SparsePos(sparse_start_level + (height - sparse_start_level), 0)
    BY <2>1 DEF SparseStarts
  <2>3. sparse_start_level + (height - sparse_start_level) = height
    BY <2>1
  <2>4. QED
    BY <1>4, <2>2, <2>3 DEF BVP!BitvectorOK
<1>6. WordSize \in Nat \ {0}
  BY ConstantsAssumption
<1> DEFINE d == pos \div WordSize
           o == pos % WordSize
<1>7. d \in Int /\ o \in 0 .. WordSize - 1 /\ pos = d * WordSize + o
  BY <1>6, DivMod
<1> HIDE DEF d, o
<1>8. o \notin BVP!WordAt(b, d)
  <2>1. CASE d + 1 \in DOMAIN b.bits
    <3> DEFINE i == d + 1
    <3>1. i \in 1 .. BVP!NumWords(b.num_bits)
      BY <1>4, <2>1 DEF BVP!BitvectorOK
    <3>2. i - 1 = d
      BY <1>7
    <3> HIDE DEF i
    <3>3. \A x \in b.bits[i] : (i - 1) * WordSize + x < b.num_bits
      BY <1>4, <3>1 DEF BVP!BitvectorOK
    <3>4. ASSUME o \in b.bits[i] PROVE FALSE
      <4>1. (i - 1) * WordSize + o < b.num_bits
        BY <3>3, <3>4
      <4>2. pos < b.num_bits
        BY <1>7, <3>2, <4>1
      <4>3. QED
        BY <1>5, <4>2
    <3>5. BVP!WordAt(b, d) = b.bits[i]
      BY <2>1 DEF BVP!WordAt, i
    <3>6. QED
      BY <3>4, <3>5
  <2>2. CASE d + 1 \notin DOMAIN b.bits
    BY <1>2, <2>2 DEF BVP!WordAt
  <2>3. QED
    BY <2>1, <2>2
<1>9. ~BVP!ReadBit(b, pos)
  BY <1>8 DEF BVP!ReadBit, d, o
<1>10. QED
  BY <1>9, SameQueries DEF HasSparseChild, b

(* The labels of a sparse node ascend. *)
LEMMA SparseLabelsAscend ==
  ASSUME DenseInv, HandoverInv, louds_sparse = MakeLoudsSparse,
         NEW lv, lv.labels = louds_sparse.labels.labels,
         NEW l \in sparse_start_level .. height - 1, NEW r \in louds_bits[l],
         NEW e, NodeEnd(l, r, e)
  PROVE  LET pos == SparsePos(l, r)
         IN  /\ pos \in Nat /\ e - r \in Nat
             /\ LVP!Ascends(lv, pos, e - r)
             /\ \A x \in pos .. pos + (e - r) - 1 :
                  \E q \in r .. e - 1 : /\ q \in Items(l) /\ x = SparsePos(l, q)
                                        /\ NodeOf(l, q) = NodeOf(l, r)
                                        /\ LVP!LabelAt(lv, x) = labels[l][q + 1]
                                        /\ labels[l][q + 1] \in Label
             /\ \A q \in Items(l) : NodeOf(l, q) = NodeOf(l, r) =>
                  /\ SparsePos(l, q) \in pos .. pos + (e - r) - 1
                  /\ LVP!LabelAt(lv, SparsePos(l, q)) = labels[l][q + 1]
<1> DEFINE pos == SparsePos(l, r)
           n == e - r
<1>1. /\ sparse_start_level \in Nat /\ height \in Nat /\ l \in 0 .. height - 1 /\ l \in Nat
      /\ \A p \in Int : SparsePos(l, p) = SparsePos(l, 0) + p
      /\ SparsePos(l, 0) \in Int /\ GetNumItems(l) \in Nat
  BY SparseLevelIs
<1>2. r \in Items(l) /\ r \in Nat /\ e \in r + 1 .. GetNumItems(l) /\ e \in Int
  <2>1. r \in Items(l)
    BY <1>1, LevelIs
  <2>2. QED
    BY <1>1, <2>1 DEF Items, NodeEnd
<1>3. pos \in Nat
  BY SparseNode, StartBitsAre DEF BVP!OneBits
<1>4. n \in Nat /\ pos = SparsePos(l, 0) + r
  BY <1>1, <1>2
<1>5. ASSUME NEW q \in Items(l)
      PROVE  /\ LVP!LabelAt(lv, SparsePos(l, q)) = labels[l][q + 1]
             /\ labels[l][q + 1] \in Label /\ q \in Int /\ SparsePos(l, q) = SparsePos(l, 0) + q
  <2>1. LV!LabelAt(lv, SparsePos(l, q)) = labels[l][q + 1]
    BY SparseLabelIs
  <2>2. labels[l][q + 1] \in Label
    BY <1>1, LevelIs
  <2>3. q \in Int
    BY <1>1 DEF Items
  <2>4. QED
    BY <1>1, <2>1, <2>2, <2>3, SameSearches
<1>6. ASSUME NEW x \in pos .. pos + n - 1
      PROVE  \E q \in r .. e - 1 : /\ q \in Items(l) /\ x = SparsePos(l, q)
                                   /\ NodeOf(l, q) = NodeOf(l, r)
                                   /\ LVP!LabelAt(lv, x) = labels[l][q + 1]
                                   /\ labels[l][q + 1] \in Label
  <2> DEFINE q == r + (x - pos)
  <2>1. q \in r .. e - 1 /\ q \in Items(l) /\ q \in Int /\ x = SparsePos(l, 0) + q
    BY <1>1, <1>2, <1>3, <1>4 DEF Items
  <2> HIDE DEF q
  <2>2. x = SparsePos(l, q)
    BY <1>1, <2>1
  <2>3. NodeOf(l, q) = NodeOf(l, r)
    <3>1. r <= q /\ q < e
      BY <1>2, <2>1
    <3>2. QED
      BY <1>1, <2>1, <3>1, NodeItemsAre
  <2>4. LVP!LabelAt(lv, x) = labels[l][q + 1] /\ labels[l][q + 1] \in Label
    BY <1>5, <2>1, <2>2
  <2>5. QED
    BY <2>1, <2>2, <2>3, <2>4
<1>7. ASSUME NEW q \in Items(l), NodeOf(l, q) = NodeOf(l, r)
      PROVE  /\ SparsePos(l, q) \in pos .. pos + n - 1
             /\ LVP!LabelAt(lv, SparsePos(l, q)) = labels[l][q + 1]
  <2>1. r <= q /\ q < e
    BY <1>1, <1>7, NodeItemsAre
  <2>2. SparsePos(l, q) \in pos .. pos + n - 1
    BY <1>1, <1>2, <1>4, <1>5, <2>1
  <2>3. QED
    BY <1>5, <2>2
<1>8. LVP!Ascends(lv, pos, n)
  <2>1. ASSUME NEW x \in pos .. pos + n - 1 PROVE LVP!LabelAt(lv, x) \in Int
    <3>1. \A c \in Label : c \in Int
      BY DEF Label
    <3>2. QED
      BY <1>6, <3>1
  <2>2. ASSUME NEW x \in pos .. pos + n - 1, NEW y \in pos .. pos + n - 1, x < y
        PROVE  LVP!LabelAt(lv, x) < LVP!LabelAt(lv, y)
    <3>1. PICK q \in r .. e - 1 : /\ q \in Items(l) /\ x = SparsePos(l, q)
                                  /\ NodeOf(l, q) = NodeOf(l, r)
                                  /\ LVP!LabelAt(lv, x) = labels[l][q + 1]
      BY <1>6
    <3>2. PICK s \in r .. e - 1 : /\ s \in Items(l) /\ y = SparsePos(l, s)
                                  /\ NodeOf(l, s) = NodeOf(l, r)
                                  /\ LVP!LabelAt(lv, y) = labels[l][s + 1]
      BY <1>6
    <3>3. x = SparsePos(l, 0) + q /\ y = SparsePos(l, 0) + s /\ q \in Int /\ s \in Int
      BY <1>1, <1>2, <3>1, <3>2
    <3>4. q < s
      BY <1>1, <2>2, <3>3
    <3>5. NodeOf(l, q) = NodeOf(l, s)
      BY <3>1, <3>2
    <3>6. labels[l][q + 1] < labels[l][s + 1]
      BY <1>1, <3>1, <3>2, <3>4, <3>5, NodesInOrder
    <3>7. QED
      BY <3>1, <3>2, <3>6
  <2>3. QED
    BY <2>1, <2>2 DEF LVP!Ascends
<1>9. QED
  BY <1>3, <1>4, <1>6, <1>7, <1>8

(* What a search finds in a sparse node. *)
LEMMA SparseSearchIs ==
  ASSUME NoTerminatorAlone, DenseInv, HandoverInv, pc = "done", louds_sparse = MakeLoudsSparse,
         WordSize > 1, BinaryBelow \in Nat, BinaryBelow <= WordSize + 2,
         NEW l \in sparse_start_level .. height - 1, NEW k \in 0 .. node_counts[l] - 1,
         NEW c \in Label, NEW s \in SearchesIn(NodesAbove(l) + k, c)
  PROVE  /\ \A p : NodeItem(l, k, c, p) => s.found /\ s.pos = SparsePos(l, p)
         /\ s.found => \/ \E p : NodeItem(l, k, c, p) /\ s.pos = SparsePos(l, p)
                       \/ ~LastNodeEndsInside /\ ~HasSparseChild(s.pos)
<1> DEFINE goal == /\ \A p : NodeItem(l, k, c, p) => s.found /\ s.pos = SparsePos(l, p)
                   /\ s.found => \/ \E p : NodeItem(l, k, c, p) /\ s.pos = SparsePos(l, p)
                                 \/ ~LastNodeEndsInside /\ ~HasSparseChild(s.pos)
<1>1. l \in 0 .. height - 1 /\ l \in Nat /\ height \in Nat
  BY SparseLevelIs
<1>2. PICK r \in louds_bits[l] : r \in Items(l) /\ NodeOf(l, r) = k
  BY <1>1, NodeStarts
<1>3. PICK e : NodeEnd(l, r, e)
  BY <1>1, NodeEnds
<1> DEFINE pos == SparsePos(l, r)
           n == e - r
<1>4. FirstLabelPos(NodesAbove(l) + k) = pos
  BY <1>2, SparseNode
<1>5. PICK behind \in Label, size \in NodeSizes(pos) :
        s = LV!Search([louds_sparse.labels EXCEPT !.junk = behind], c, pos, size)
  <2> DEFINE F == FirstLabelPos(NodesAbove(l) + k)
             G(behind, size) == LV!Search([louds_sparse.labels EXCEPT !.junk = behind], c, F, size)
  <2>1. SearchesIn(NodesAbove(l) + k, c) = {G(behind, size) : behind \in Label, size \in NodeSizes(F)}
    BY DEF SearchesIn
  <2> HIDE DEF G
  <2>2. \E behind \in Label, size \in NodeSizes(F) : s = G(behind, size)
    BY <2>1
  <2>3. F = pos
    BY <1>4
  <2>4. PICK behind \in Label, size \in NodeSizes(F) : s = G(behind, size)
    BY <2>2
  <2> HIDE DEF F
  <2>5. size \in NodeSizes(pos) /\ s = LV!Search([louds_sparse.labels EXCEPT !.junk = behind], c, pos, size)
    BY <2>3, <2>4 DEF G
  <2>6. QED
    BY <2>5
<1> DEFINE lv == [louds_sparse.labels EXCEPT !.junk = behind]
<1>6. lv.labels = louds_sparse.labels.labels
  BY DEF MakeLoudsSparse
<1>7. s = LVP!Search(lv, c, pos, size)
  BY <1>5, SameSearches
<1> HIDE DEF lv
<1>8. /\ pos \in Nat /\ n \in Nat /\ LVP!Ascends(lv, pos, n)
      /\ \A x \in pos .. pos + n - 1 :
           \E q \in r .. e - 1 : /\ q \in Items(l) /\ x = SparsePos(l, q)
                                 /\ NodeOf(l, q) = NodeOf(l, r)
                                 /\ LVP!LabelAt(lv, x) = labels[l][q + 1]
                                 /\ labels[l][q + 1] \in Label
      /\ \A q \in Items(l) : NodeOf(l, q) = NodeOf(l, r) =>
           /\ SparsePos(l, q) \in pos .. pos + n - 1
           /\ LVP!LabelAt(lv, SparsePos(l, q)) = labels[l][q + 1]
  BY <1>3, <1>6, SparseLabelsAscend
<1>9. size = n \/ /\ l = height - 1 /\ e = GetNumItems(l) /\ ~LastNodeEndsInside
                  /\ size \in Nat /\ size >= n /\ size >= WordSize + 2
  BY <1>3, NodeSizeIs
<1> HIDE DEF pos, n
<1>10. c \in Int /\ \A d \in Label : d \in Int /\ d <= Terminator
  BY ConstantsAssumption DEF Label, Terminator
<1>11. ASSUME NEW p, NodeItem(l, k, c, p)
       PROVE  SparsePos(l, p) \in pos .. pos + n - 1 /\ LVP!LabelAt(lv, SparsePos(l, p)) = c
  BY <1>2, <1>8, <1>11 DEF NodeItem
<1>12. ASSUME NEW x \in pos .. pos + n - 1, LVP!LabelAt(lv, x) = c
       PROVE  \E p : NodeItem(l, k, c, p) /\ x = SparsePos(l, p)
  BY <1>2, <1>8, <1>12 DEF NodeItem
<1>13. CASE size = n
  <2>1. \A x \in pos .. pos + n - 1 : LVP!LabelAt(lv, x) <= Terminator
    BY <1>8, <1>10
  <2>2. LVP!SortedLabels(lv, pos, n) /\ LVP!Searched(lv, pos, n) = pos .. pos + n - 1
    BY <1>8, <2>1, LVP!SortedNodeSearched
  <2> DEFINE R == pos .. pos + n - 1
             t == LVP!Search(lv, c, pos, n)
  <2>3. /\ t.found <=> \E x \in R : LVP!LabelAt(lv, x) = c
        /\ t.found => t.pos \in R /\ LVP!LabelAt(lv, t.pos) = c
        /\ \A x \in R : LVP!LabelAt(lv, x) = c => t.pos = x
    <3> DEFINE S == LVP!Searched(lv, pos, n)
    <3>1. /\ t.found <=> \E x \in S : LVP!LabelAt(lv, x) = c
          /\ t.found => t.pos \in S /\ LVP!LabelAt(lv, t.pos) = c
          /\ \A x \in S : LVP!LabelAt(lv, x) = c => t.pos = x
      BY <1>8, <1>10, <2>2, LVP!SearchExact, Zenon
    <3> HIDE DEF S, t
    <3>2. S = R
      BY <2>2 DEF S
    <3>3. QED
      BY <3>1, <3>2, Zenon
  <2>4. s = t
    BY <1>7, <1>13
  <2> HIDE DEF t
  <2>5. QED
    BY <1>11, <1>12, <2>3, <2>4
<1>14. CASE /\ l = height - 1 /\ e = GetNumItems(l) /\ ~LastNodeEndsInside
            /\ size \in Nat /\ size >= n /\ size >= WordSize + 2
  <2> DEFINE M == {x \in pos .. pos + size - 1 : LVP!LabelAt(lv, x) = c}
  <2>1. labels[l][r + 1] # Terminator
    <3>1. l \in Levels /\ l < height /\ child_indicator_bits[l] = {}
      BY <1>1, <1>14, LevelIs
    <3>2. r \in 0 .. GetNumItems(l) - 1
      BY <1>2 DEF Items
    <3>3. ~MarksPrefixKey(l, r)
      BY <3>1, <3>2, NoneMarked
    <3>4. QED
      BY <3>1, <3>3 DEF MarksPrefixKey, IsTerminator
  <2>2. LVP!LabelAt(lv, pos) # Terminator
    BY <1>2, <1>8, <2>1 DEF pos
  <2>3. s = LVP!FirstMatch(lv, c, pos, size)
    <3>1. ~(size - 0 < BinaryBelow) /\ size - 0 = size /\ pos + 0 = pos
      BY <1>8, <1>14, ConstantsAssumption
    <3>2. LVP!Search(lv, c, pos, size)
            = IF LinearBelow <= size - 0 /\ size - 0 < BinaryBelow
              THEN LVP!BinarySearch(lv, c, pos + 0, size - 0)
              ELSE LVP!FirstMatch(lv, c, pos + 0, size - 0)
      BY <2>2, Zenon DEF LVP!Search
    <3>3. QED
      BY <1>7, <3>1, <3>2
  <2>4. s = IF M = {} THEN LVP!Missed(pos) ELSE LVP!Found(LVP!Min(M))
    BY <2>3 DEF LVP!FirstMatch
  <2> HIDE DEF M
  <2>5. M \in SUBSET Nat /\ M \in SUBSET Int
    BY <1>8, <1>14 DEF M
  <2>6. ASSUME NEW p, NodeItem(l, k, c, p)
        PROVE  s.found /\ s.pos = SparsePos(l, p)
    <3> DEFINE x == SparsePos(l, p)
    <3>1. x \in pos .. pos + n - 1 /\ LVP!LabelAt(lv, x) = c
      BY <1>11, <2>6
    <3> HIDE DEF x
    <3>2. x \in M
      BY <1>8, <1>14, <3>1 DEF M
    <3>3. ASSUME NEW y \in M PROVE x <= y
      <4>1. y \in pos .. pos + size - 1 /\ LVP!LabelAt(lv, y) = c
        BY DEF M
      <4>2. CASE y < x
        <5>1. y \in pos .. pos + n - 1
          BY <1>8, <1>14, <3>1, <4>1, <4>2
        <5>2. LVP!LabelAt(lv, y) < LVP!LabelAt(lv, x)
          BY <1>8, <3>1, <4>2, <5>1 DEF LVP!Ascends
        <5>3. QED
          BY <1>10, <3>1, <4>1, <5>2
      <4>3. QED
        BY <1>8, <1>14, <3>1, <4>1, <4>2
    <3>4. LVP!Min(M) = x
      BY <2>5, <3>2, <3>3, LVP!MinIs
    <3>5. s = LVP!Found(x)
      BY <2>4, <3>2, <3>4
    <3>6. QED
      BY <3>5 DEF LVP!Found, x
  <2>7. ASSUME s.found
        PROVE  \/ \E p : NodeItem(l, k, c, p) /\ s.pos = SparsePos(l, p)
               \/ ~LastNodeEndsInside /\ ~HasSparseChild(s.pos)
    <3>1. M # {}
      BY <2>4, <2>7 DEF LVP!Missed
    <3>2. s = LVP!Found(LVP!Min(M))
      BY <2>4, <3>1
    <3>3. s.pos \in M
      <4>1. LVP!Min(M) \in M
        BY <2>5, <3>1, LVP!MinIsLeast
      <4>2. QED
        BY <3>2, <4>1 DEF LVP!Found
    <3> DEFINE x == s.pos
    <3>4. x \in pos .. pos + size - 1 /\ LVP!LabelAt(lv, x) = c
      BY <3>3 DEF M
    <3> HIDE DEF x
    <3>5. CASE x < pos + n
      <4>1. x \in pos .. pos + n - 1
        BY <1>8, <1>14, <3>4, <3>5
      <4>2. QED
        BY <1>12, <3>4, <4>1 DEF x
    <3>6. CASE ~(x < pos + n)
      <4>1. x \in Nat /\ pos + n <= x
        BY <1>8, <1>14, <3>4, <3>6
      <4>2. pos + n = SparsePos(height, 0)
        <5>1. /\ \A p \in Int : SparsePos(l, p) = SparsePos(l, 0) + p
              /\ SparsePos(l + 1, 0) = SparsePos(l, GetNumItems(l)) /\ SparsePos(l, 0) \in Int
              /\ GetNumItems(l) \in Nat
          BY SparseLevelIs
        <5>2. r \in Int /\ e \in Int /\ l + 1 = height
          BY <1>1, <1>2, <1>14, <5>1 DEF Items
        <5>3. pos = SparsePos(l, 0) + r /\ SparsePos(l, e) = SparsePos(l, 0) + e
          BY <5>1, <5>2 DEF pos
        <5>4. QED
          BY <1>14, <5>1, <5>2, <5>3 DEF n
      <4>3. ~HasSparseChild(x)
        BY <4>1, <4>2, NoChildBehind
      <4>4. QED
        BY <1>14, <4>3 DEF x
    <3>7. QED
      BY <3>5, <3>6
  <2>8. QED
    BY <2>6, <2>7
<1>15. QED
  BY <1>9, <1>13, <1>14

-------------------------------------------------------------------------------
(* The bits of the dense levels *)

(* The 1 bits of b are the bits of the bitmaps, each behind those of the levels
   above it. *)
HoldsBitmaps(b, bitmaps) ==
  \A l \in 0 .. sparse_start_level - 1 : \A x \in 0 .. node_counts[l] * Fanout :
    /\ x < node_counts[l] * Fanout =>
         /\ NodesAbove(l) * Fanout + x \in 0 .. b.num_bits - 1
         /\ NodesAbove(l) * Fanout + x \in BVP!OneBits(b) <=> x \in bitmaps[l + 1]
    /\ BVP!OnesUpTo(b, NodesAbove(l) * Fanout + x)
         = BVP!OnesUpTo(b, NodesAbove(l) * Fanout) + Cardinality(Below(bitmaps[l + 1], x))

(* The constructor takes the levels to begin there. *)
LEMMA DenseStartsAre ==
  ASSUME Fits, NEW bitmaps,
         \A l \in 0 .. sparse_start_level - 1 :
           bitmaps[l + 1] \in SUBSET (0 .. node_counts[l] * Fanout - 1)
  PROVE  /\ BitmapLevels(bitmaps) \in Seq(BVP!Levels)
         /\ Len(BitmapLevels(bitmaps)) = sparse_start_level
         /\ BVP!Starts(DenseStarts, BitmapLevels(bitmaps))
         /\ \A l \in 0 .. sparse_start_level - 1 :
              /\ BitmapLevels(bitmaps)[l + 1].num_bits = node_counts[l] * Fanout
              /\ BVP!LevelBits(BitmapLevels(bitmaps)[l + 1]) = bitmaps[l + 1]
<1> DEFINE list == BitmapLevels(bitmaps)
           n == sparse_start_level
<1>1. n \in Nat /\ Fanout \in Nat \ {0} /\ WordSize \in Nat \ {0} /\ Fanout % WordSize = 0
  <2>1. TypeOK
    BY DEF Fits, HandoverInv, SlotsInv, TypeInv
  <2>2. MaxLevel \in Nat /\ sparse_start_level \in 0 .. MaxLevel + 1
    BY <2>1, ConstantsAssumption DEF TypeOK
  <2>3. QED
    BY <2>2, ConstantsAssumption DEF Fits
<1>2. list = [i \in 1 .. n |->
                [num_bits |-> node_counts[i - 1] * Fanout,
                 words |-> LevelWords(bitmaps[i], (node_counts[i - 1] * Fanout) \div WordSize)]]
  BY DEF BitmapLevels, Fits
<1> HIDE DEF list
<1>3. ASSUME NEW i \in 1 .. n
      PROVE  /\ list[i] \in BVP!Levels
             /\ list[i].num_bits = node_counts[i - 1] * Fanout
             /\ BVP!LevelBits(list[i]) = bitmaps[i]
             /\ node_counts[i - 1] * Fanout \in Nat
  <2> DEFINE k == node_counts[i - 1] * Fanout
             w == k \div WordSize
  <2>1. i - 1 \in 0 .. n - 1 /\ (i - 1) + 1 = i
    BY <1>1
  <2>2. node_counts[i - 1] \in Nat
    BY <2>1, DenseLevelIs
  <2>3. k \in Nat
    BY <1>1, <2>2
  <2>4. w \in Nat /\ k <= w * WordSize
    <3> DEFINE d == Fanout \div WordSize
               c == node_counts[i - 1]
    <3>1. d \in Int /\ Fanout = d * WordSize + 0
      BY <1>1, DivMod
    <3>2. 0 * WordSize <= Fanout
      BY <1>1
    <3>3. d \in Nat
      BY <1>1, <3>1, <3>2, DivBounds
    <3> HIDE DEF d, c
    <3>4. c \in Nat
      BY <2>2 DEF c
    <3>5. c * d \in Nat /\ c * (d * WordSize) = (c * d) * WordSize + 0
      BY <1>1, <3>3, <3>4
    <3>6. k = (c * d) * WordSize + 0
      BY <1>1, <3>1, <3>5 DEF c
    <3>7. 0 \in 0 .. WordSize - 1 /\ c * d \in Int
      BY <1>1, <3>5
    <3>8. k \div WordSize = c * d
      <4> DEFINE q == c * d
      <4> HIDE DEF q
      <4>1. q \in Int /\ 0 \in 0 .. WordSize - 1
        BY <3>7 DEF q
      <4>2. (q * WordSize + 0) \div WordSize = q
        BY <1>1, <4>1, DivModUnique
      <4>3. QED
        BY <3>6, <4>2, Zenon DEF q
    <3> HIDE DEF k
    <3>9. (c * d) * WordSize \in Int
      BY <1>1, <3>5
    <3>10. QED
      BY <3>5, <3>6, <3>8, <3>9
  <2>5. bitmaps[i] \in SUBSET (0 .. k - 1)
    BY <2>1
  <2>6. list[i] = [num_bits |-> k, words |-> LevelWords(bitmaps[i], w)]
    BY <1>2
  <2> HIDE DEF w, k
  <2>7. bitmaps[i] \in SUBSET Nat /\ \A p \in bitmaps[i] : p < k
    BY <2>3, <2>5
  <2>8. /\ [num_bits |-> k, words |-> LevelWords(bitmaps[i], w)] \in BVP!Levels
        /\ BVP!LevelBits([num_bits |-> k, words |-> LevelWords(bitmaps[i], w)]) = bitmaps[i]
    BY <2>3, <2>4, <2>7, LevelHandedOver
  <2>9. QED
    BY <2>3, <2>6, <2>8 DEF k
<1>4. list \in Seq(BVP!Levels) /\ Len(list) = n
  <2>1. list \in [1 .. n -> BVP!Levels]
    BY <1>2, <1>3
  <2>2. QED
    BY <1>1, <2>1
<1>5. BVP!Starts(DenseStarts, list)
  <2>1. DenseStarts[0] = 0
    <3>1. DenseStarts[0] = NodesAbove(0) * Fanout
      BY <1>1 DEF DenseStarts
    <3>2. NodesAbove(0) = 0
      <4>1. 0 \in Levels /\ TypeInv
        BY ConstantsAssumption DEF Levels, Fits, HandoverInv, SlotsInv
      <4>2. QED
        BY <4>1, NodesAboveIs
    <3>3. QED
      BY <1>1, <3>1, <3>2
  <2>2. ASSUME NEW i \in 1 .. n
        PROVE  /\ DenseStarts[i] = DenseStarts[i - 1] + list[i].num_bits
               /\ DenseStarts[i] \in Nat
    <3> DEFINE l == i - 1
    <3>1. l \in 0 .. n - 1 /\ l + 1 = i /\ l \in 0 .. n /\ i \in 0 .. n
      BY <1>1
    <3>2. DenseStarts[i] = NodesAbove(l + 1) * Fanout /\ DenseStarts[i - 1] = NodesAbove(l) * Fanout
      BY <3>1 DEF DenseStarts
    <3>3. list[i].num_bits = node_counts[l] * Fanout
      BY <1>3
    <3> HIDE DEF l
    <3>4. /\ NodesAbove(l) \in Nat /\ node_counts[l] \in Nat /\ NodesAbove(l + 1) \in Nat
          /\ NodesAbove(l + 1) = NodesAbove(l) + node_counts[l]
      BY <3>1, DenseLevelIs
    <3>5. (NodesAbove(l) + node_counts[l]) * Fanout = NodesAbove(l) * Fanout + node_counts[l] * Fanout
      BY <1>1, <3>4
    <3>6. NodesAbove(l + 1) * Fanout \in Nat
      BY <1>1, <3>4
    <3>7. QED
      BY <3>2, <3>3, <3>4, <3>5, <3>6
  <2>3. \A i \in 0 .. n : DenseStarts[i] \in Nat
    BY <1>1, <2>1, <2>2
  <2>4. QED
    BY <1>4, <2>1, <2>2, <2>3 DEF BVP!Starts
<1>6. ASSUME NEW l \in 0 .. n - 1
      PROVE  /\ list[l + 1].num_bits = node_counts[l] * Fanout
             /\ BVP!LevelBits(list[l + 1]) = bitmaps[l + 1]
  <2> DEFINE i == l + 1
  <2>1. i \in 1 .. n /\ i - 1 = l
    BY <1>1
  <2> HIDE DEF i
  <2>2. QED
    BY <1>3, <2>1 DEF i
<1>7. QED
  BY <1>4, <1>5, <1>6 DEF list

(* A bitmap vector has the bits of the bitmaps it was made from. *)
LEMMA DenseBits ==
  ASSUME Fits, NEW bitmaps,
         \A l \in 0 .. sparse_start_level - 1 :
           bitmaps[l + 1] \in SUBSET (0 .. node_counts[l] * Fanout - 1),
         NEW b, b = BVP!MakeRank(BitmapLevels(bitmaps), {})
  PROVE  /\ BVP!BitvectorOK(b)
         /\ b.num_bits = NodesAbove(sparse_start_level) * Fanout
         /\ BVP!RankCounts(b)
         /\ HoldsBitmaps(b, bitmaps)
<1> DEFINE list == BitmapLevels(bitmaps)
           n == sparse_start_level
<1>1. /\ list \in Seq(BVP!Levels) /\ Len(list) = n
      /\ BVP!Starts(DenseStarts, list)
      /\ \A l \in 0 .. n - 1 :
              /\ list[l + 1].num_bits = node_counts[l] * Fanout
              /\ BVP!LevelBits(list[l + 1]) = bitmaps[l + 1]
  BY DenseStartsAre
<1>2. /\ b.num_bits = BVP!MakeBitvector(list, {}).num_bits
      /\ b.bits = BVP!MakeBitvector(list, {}).bits
      /\ b.rank_lut = BVP!RankLut(BVP!MakeBitvector(list, {}))
  BY DEF BVP!MakeRank
<1> HIDE DEF list
<1>3. BVP!BitvectorOK(b) /\ BVP!RankCounts(b)
  BY <1>1, <1>2, BVP!RankMade, ConstantsAssumption, TablesAssumption
<1>4. b.num_bits = DenseStarts[Len(list)] /\ BVP!OneBits(b) = BVP!BitsOfLevels(DenseStarts, list, Len(list))
  BY <1>1, <1>2, BVP!ConcatenationCorrect, ConstantsAssumption, TablesAssumption
<1>5. n \in Nat
  <2>1. TypeOK
    BY DEF Fits, HandoverInv, SlotsInv, TypeInv
  <2>2. QED
    BY <2>1, ConstantsAssumption DEF TypeOK
<1>6. b.num_bits = NodesAbove(n) * Fanout
  BY <1>1, <1>4, <1>5 DEF DenseStarts
<1>7. ASSUME NEW l \in 0 .. n - 1, NEW x \in 0 .. node_counts[l] * Fanout
      PROVE  /\ x < node_counts[l] * Fanout =>
                  /\ NodesAbove(l) * Fanout + x \in 0 .. b.num_bits - 1
                  /\ NodesAbove(l) * Fanout + x \in BVP!OneBits(b) <=> x \in bitmaps[l + 1]
             /\ BVP!OnesUpTo(b, NodesAbove(l) * Fanout + x)
                  = BVP!OnesUpTo(b, NodesAbove(l) * Fanout) + Cardinality(Below(bitmaps[l + 1], x))
  <2> DEFINE i == l + 1
             t == DenseStarts
             k == list
  <2>1. i \in 1 .. Len(k) /\ i - 1 \in 0 .. n /\ i - 1 = l
    BY <1>1, <1>5
  <2>2. /\ k[i].num_bits = node_counts[l] * Fanout /\ x \in 0 .. k[i].num_bits
        /\ BVP!LevelBits(k[i]) = bitmaps[i]
    BY <1>1
  <2>3. t[i - 1] = NodesAbove(l) * Fanout
    BY <2>1 DEF DenseStarts
  <2>4. BVP!Starts(t, k) /\ k \in Seq(BVP!Levels) /\ b.num_bits = t[Len(k)]
        /\ BVP!OneBits(b) = BVP!BitsOfLevels(t, k, Len(k))
    BY <1>1, <1>4
  <2> HIDE DEF i, t, k
  <2>5. x < k[i].num_bits => /\ t[i - 1] + x \in 0 .. b.num_bits - 1
                             /\ t[i - 1] + x \in BVP!OneBits(b) <=> x \in BVP!LevelBits(k[i])
    BY <1>3, <2>1, <2>2, <2>4, BVP!LevelInConcat, ConstantsAssumption, TablesAssumption
  <2>6. BVP!OnesUpTo(b, t[i - 1] + x) = BVP!OnesUpTo(b, t[i - 1]) + BVP!LevelOnes(k[i], x)
    BY <1>3, <2>1, <2>2, <2>4, BVP!LevelInConcat, ConstantsAssumption, TablesAssumption
  <2>7. BVP!LevelOnes(k[i], x) = Cardinality(Below(bitmaps[i], x))
    BY <2>2, SameQueries, Zenon DEF Below, BVP!LevelOnes
  <2>8. bitmaps[i] = bitmaps[l + 1]
    BY DEF i
  <2>9. QED
    BY <2>2, <2>3, <2>5, <2>6, <2>7, <2>8
<1>8. QED
  BY <1>3, <1>6, <1>7 DEF HoldsBitmaps

(* The 1 bits in front of a level, where x counts those of each level. *)
LEMMA DenseInFront ==
  ASSUME Fits, NEW bitmaps, NEW b, HoldsBitmaps(b, bitmaps), BVP!BitvectorOK(b),
         \A l \in 0 .. sparse_start_level - 1 :
           bitmaps[l + 1] \in SUBSET (0 .. node_counts[l] * Fanout - 1),
         NEW x, \A l \in 0 .. sparse_start_level - 1 : x[l] \in Int,
         \A l \in 0 .. sparse_start_level - 2 : x[l + 1] = x[l] + Cardinality(bitmaps[l + 1]),
         NEW l \in 0 .. sparse_start_level - 1
  PROVE  BVP!OnesUpTo(b, NodesAbove(l) * Fanout) = x[l] - x[0]
<1> DEFINE P == {d \in 0 .. l : BVP!OnesUpTo(b, NodesAbove(d) * Fanout) = x[d] - x[0]}
<1>1. sparse_start_level \in Nat /\ l \in Nat /\ l < sparse_start_level /\ Fanout \in Nat
  BY DenseLevelIs
<1>2. 0 \in P
  <2>1. NodesAbove(0) * Fanout = 0
    <3>1. 0 \in Levels /\ TypeInv
      BY ConstantsAssumption DEF Levels, Fits, HandoverInv, SlotsInv
    <3>2. NodesAbove(0) = 0
      BY <3>1, NodesAboveIs
    <3>3. QED
      BY <1>1, <3>2
  <2>2. BVP!OnesUpTo(b, 0) = 0
    BY BVP!AllOnes, ConstantsAssumption, TablesAssumption
  <2>3. x[0] \in Int
    BY <1>1
  <2>4. QED
    BY <1>1, <2>1, <2>2, <2>3
<1>3. ASSUME NEW d \in 0 .. l - 1, d \in P
      PROVE  d + 1 \in P
  <2>1. /\ d \in 0 .. sparse_start_level - 1 /\ d \in 0 .. sparse_start_level - 2
        /\ d + 1 \in 0 .. l /\ d + 1 \in 0 .. sparse_start_level - 1
    BY <1>1
  <2>2. BVP!OnesUpTo(b, NodesAbove(d) * Fanout) = x[d] - x[0]
    BY <1>3
  <2> DEFINE w == node_counts[d] * Fanout
             bits == bitmaps[d + 1]
  <2>3. w \in Nat /\ NodesAbove(d + 1) * Fanout = NodesAbove(d) * Fanout + w
    <3>1. /\ NodesAbove(d) \in Nat /\ node_counts[d] \in Nat
          /\ NodesAbove(d + 1) = NodesAbove(d) + node_counts[d]
      BY <2>1, DenseLevelIs
    <3>2. QED
      BY <1>1, <3>1
  <2>4. w \in 0 .. w
    BY <2>3
  <2>5. BVP!OnesUpTo(b, NodesAbove(d) * Fanout + w)
          = BVP!OnesUpTo(b, NodesAbove(d) * Fanout) + Cardinality(Below(bits, w))
    BY <2>1, <2>4 DEF HoldsBitmaps
  <2>6. bits \in SUBSET (0 .. w - 1)
    BY <2>1
  <2>7. x[d + 1] = x[d] + Cardinality(bits) /\ x[d] \in Int /\ x[0] \in Int
    BY <1>1, <2>1
  <2> HIDE DEF w, bits, P
  <2>8. Below(bits, w) = bits /\ Cardinality(bits) \in Nat
    <3>1. Below(bits, w) = bits
      <4>1. \A q \in bits : q < w
        <5> TAKE q \in bits
        <5>1. q \in 0 .. w - 1
          BY <2>6
        <5>2. QED
          BY <2>3, <5>1
      <4>2. QED
        BY <4>1, Zenon DEF Below
    <3>2. 0 \in Int /\ w - 1 \in Int
      BY <2>3
    <3>3. Cardinality(bits) \in Nat
      BY <2>6, <3>2, BoundedFinite
    <3>4. QED
      BY <3>1, <3>3
  <2>9. BVP!OnesUpTo(b, NodesAbove(d + 1) * Fanout) = x[d + 1] - x[0]
    BY <2>2, <2>3, <2>5, <2>7, <2>8
  <2>10. QED
    BY <2>1, <2>9 DEF P
<1> HIDE DEF P
<1>4. \A d \in 0 .. l : d \in P
  BY <1>1, <1>2, <1>3, UpToInduct
<1>5. l \in P
  BY <1>1, <1>4
<1>6. QED
  BY <1>5 DEF P

(* The bitmaps as LoudsDense has them. *)
LEMMA BitmapsMade ==
  ASSUME NoTerminatorAlone, Fits, louds_dense = MakeLoudsDense
  PROVE  \E lab, child :
           /\ \A l \in 0 .. sparse_start_level - 1 :
                /\ lab[l + 1] = Marks(l, Items(l))
                /\ child[l + 1] = Marks(l, child_indicator_bits[l])
                /\ child_indicator_bits[l] \in SUBSET Items(l)
                /\ lab[l + 1] \in SUBSET (0 .. node_counts[l] * Fanout - 1)
                /\ child[l + 1] \in SUBSET (0 .. node_counts[l] * Fanout - 1)
           /\ louds_dense.label_bitmaps = BVP!MakeRank(BitmapLevels(lab), {})
           /\ louds_dense.child_indicator_bitmaps = BVP!MakeRank(BitmapLevels(child), {})
<1> DEFINE lab == [i \in 1 .. Len(dense) |-> dense[i].labels]
           child == [i \in 1 .. Len(dense) |-> dense[i].children]
<1>1. /\ louds_dense.label_bitmaps = BV!MakeRank(BitmapLevels(lab), {})
      /\ louds_dense.child_indicator_bitmaps = BV!MakeRank(BitmapLevels(child), {})
  BY DEF MakeLoudsDense
<1>2. /\ louds_dense.label_bitmaps = BVP!MakeRank(BitmapLevels(lab), {})
      /\ louds_dense.child_indicator_bitmaps = BVP!MakeRank(BitmapLevels(child), {})
  BY <1>1, SameConstructors
<1>3. ASSUME NEW l \in 0 .. sparse_start_level - 1
      PROVE  /\ lab[l + 1] = Marks(l, Items(l))
             /\ child[l + 1] = Marks(l, child_indicator_bits[l])
             /\ child_indicator_bits[l] \in SUBSET Items(l)
             /\ lab[l + 1] \in SUBSET (0 .. node_counts[l] * Fanout - 1)
             /\ child[l + 1] \in SUBSET (0 .. node_counts[l] * Fanout - 1)
  <2>1. l + 1 \in 1 .. Len(dense)
    BY DenseLevelIs DEF Fits
  <2>2. lab[l + 1] = Marks(l, Items(l)) /\ child[l + 1] = Marks(l, child_indicator_bits[l])
    BY <2>1, DenseMarks
  <2>3. child_indicator_bits[l] \in SUBSET Items(l)
    BY DenseLevelIs, LevelIs DEF Fits
  <2>4. Items(l) \in SUBSET Items(l)
    OBVIOUS
  <2> HIDE DEF lab, child
  <2>5. /\ Marks(l, Items(l)) \in SUBSET (0 .. node_counts[l] * Fanout - 1)
        /\ Marks(l, child_indicator_bits[l]) \in SUBSET (0 .. node_counts[l] * Fanout - 1)
    BY <2>3, <2>4, MarksCount
  <2>6. QED
    BY <2>2, <2>3, <2>5
<1> HIDE DEF lab, child
<1>4. QED
  BY <1>2, <1>3

(* What the bitmaps say of a label of a dense node. *)
LEMMA DenseStepIs ==
  ASSUME NoTerminatorAlone, Fits, louds_dense = MakeLoudsDense,
         NEW l \in 0 .. sparse_start_level - 1, NEW k \in 0 .. node_counts[l] - 1,
         NEW c \in Label, NEW pos, pos = (NodesAbove(l) + k) * Fanout + c
  PROVE  /\ pos < louds_dense.label_bitmaps.num_bits
         /\ pos \in Nat /\ louds_dense.label_bitmaps.num_bits \in Nat
         /\ HasLabel(pos) <=> \E p : NodeItem(l, k, c, p)
         /\ HasDenseChild(pos) <=> \E p \in child_indicator_bits[l] : NodeItem(l, k, c, p)
         /\ \A p : NodeItem(l, k, c, p) =>
              /\ DenseChild(pos)
                   = NodesAbove(l + 1) - 1 + Cardinality(Below(child_indicator_bits[l], p + 1))
              /\ BV!Rank(louds_dense.label_bitmaps, pos) = ItemsAbove(l) + (p + 1)
<1>1. PICK lab, child :
           /\ \A m \in 0 .. sparse_start_level - 1 :
                /\ lab[m + 1] = Marks(m, Items(m))
                /\ child[m + 1] = Marks(m, child_indicator_bits[m])
                /\ child_indicator_bits[m] \in SUBSET Items(m)
                /\ lab[m + 1] \in SUBSET (0 .. node_counts[m] * Fanout - 1)
                /\ child[m + 1] \in SUBSET (0 .. node_counts[m] * Fanout - 1)
           /\ louds_dense.label_bitmaps = BVP!MakeRank(BitmapLevels(lab), {})
           /\ louds_dense.child_indicator_bitmaps = BVP!MakeRank(BitmapLevels(child), {})
  BY BitmapsMade
<1> DEFINE x == k * Fanout + c
           bl == louds_dense.label_bitmaps
           bc == louds_dense.child_indicator_bitmaps
           base == NodesAbove(l) * Fanout
<1>2. /\ x \in 0 .. node_counts[l] * Fanout - 1
      /\ base + x = pos /\ pos < NodesAbove(sparse_start_level) * Fanout
      /\ \A p \in Items(l) : BitmapPos(l, p) = x <=> NodeItem(l, k, c, p)
  BY DensePosIs
<1>3. /\ l \in 0 .. height - 1 /\ l \in Nat /\ sparse_start_level \in Nat /\ height \in Nat
      /\ l \in Levels /\ node_counts[l] \in Nat /\ Fanout \in Nat
      /\ sparse_start_level <= height /\ DenseInv /\ TypeInv
  BY DenseLevelIs DEF Fits, HandoverInv, SlotsInv
<1>4. /\ BVP!BitvectorOK(bl) /\ BVP!RankCounts(bl) /\ HoldsBitmaps(bl, lab)
      /\ bl.num_bits = NodesAbove(sparse_start_level) * Fanout
  <2> DEFINE t == bl
  <2>1. t = BVP!MakeRank(BitmapLevels(lab), {})
    BY <1>1
  <2> HIDE DEF t
  <2>2. /\ BVP!BitvectorOK(t) /\ BVP!RankCounts(t) /\ HoldsBitmaps(t, lab)
        /\ t.num_bits = NodesAbove(sparse_start_level) * Fanout
    BY <1>1, <2>1, DenseBits
  <2>3. QED
    BY <2>2 DEF t
<1>5. BVP!BitvectorOK(bc) /\ BVP!RankCounts(bc) /\ HoldsBitmaps(bc, child)
      /\ bc.num_bits = NodesAbove(sparse_start_level) * Fanout
  <2> DEFINE t == bc
  <2>1. t = BVP!MakeRank(BitmapLevels(child), {})
    BY <1>1
  <2> HIDE DEF t
  <2>2. /\ BVP!BitvectorOK(t) /\ BVP!RankCounts(t) /\ HoldsBitmaps(t, child)
        /\ t.num_bits = NodesAbove(sparse_start_level) * Fanout
    BY <1>1, <2>1, DenseBits
  <2>3. QED
    BY <2>2 DEF t
<1>6. /\ pos < bl.num_bits /\ pos \in 0 .. bl.num_bits - 1 /\ pos \in 0 .. bc.num_bits - 1
      /\ pos \in BVP!OneBits(bl) <=> x \in lab[l + 1]
      /\ pos \in BVP!OneBits(bc) <=> x \in child[l + 1]
  <2>1. x \in 0 .. node_counts[l] * Fanout /\ x < node_counts[l] * Fanout
    BY <1>2, <1>3
  <2> HIDE DEF x, bl, bc
  <2>2. /\ base + x \in 0 .. bl.num_bits - 1
        /\ base + x \in BVP!OneBits(bl) <=> x \in lab[l + 1]
    BY <1>4, <2>1 DEF HoldsBitmaps
  <2>3. /\ base + x \in 0 .. bc.num_bits - 1
        /\ base + x \in BVP!OneBits(bc) <=> x \in child[l + 1]
    BY <1>5, <2>1 DEF HoldsBitmaps
  <2> HIDE DEF base
  <2>4. QED
    BY <1>2, <1>4, <2>2, <2>3
<1>7. HasLabel(pos) <=> x \in lab[l + 1]
  <2>1. HasLabel(pos) <=> BVP!ReadBit(bl, pos)
    BY SameQueries DEF HasLabel
  <2>2. BVP!ReadBit(bl, pos) <=> pos \in BVP!OneBits(bl)
    BY <1>6 DEF BVP!OneBits
  <2>3. QED
    BY <1>6, <2>1, <2>2
<1>8. HasDenseChild(pos) <=> x \in child[l + 1]
  <2>1. HasDenseChild(pos) <=> BVP!ReadBit(bc, pos)
    BY SameQueries DEF HasDenseChild
  <2>2. BVP!ReadBit(bc, pos) <=> pos \in BVP!OneBits(bc)
    BY <1>6 DEF BVP!OneBits
  <2>3. QED
    BY <1>6, <2>1, <2>2
<1> HIDE DEF x, base
<1>9. HasLabel(pos) <=> \E p : NodeItem(l, k, c, p)
  <2>1. x \in lab[l + 1] <=> \E p \in Items(l) : x = BitmapPos(l, p)
    BY <1>1, Zenon DEF Marks
  <2>2. \A p : NodeItem(l, k, c, p) => p \in Items(l)
    BY DEF NodeItem
  <2>3. QED
    BY <1>2, <1>7, <2>1, <2>2
<1>10. HasDenseChild(pos) <=> \E p \in child_indicator_bits[l] : NodeItem(l, k, c, p)
  <2>1. x \in child[l + 1] <=> \E p \in child_indicator_bits[l] : x = BitmapPos(l, p)
    BY <1>1, Zenon DEF Marks
  <2>2. \A p \in child_indicator_bits[l] : p \in Items(l)
    BY <1>1
  <2>3. QED
    BY <1>2, <1>8, <2>1, <2>2
<1>11. BVP!OnesUpTo(bl, base) = ItemsAbove(l)
  <2> DEFINE y == [m \in 0 .. height |-> ItemsAbove(m)]
  <2>1. \A m \in 0 .. sparse_start_level - 1 : y[m] = ItemsAbove(m) /\ ItemsAbove(m) \in Int
    <3> TAKE m \in 0 .. sparse_start_level - 1
    <3>1. m \in Levels /\ m \in 0 .. height
      BY <1>3, DenseLevelIs
    <3>2. QED
      BY <1>3, <3>1, ItemsAboveIs
  <2>2. ASSUME NEW m \in 0 .. sparse_start_level - 2
        PROVE  y[m + 1] = y[m] + Cardinality(lab[m + 1])
    <3>1. /\ m \in 0 .. sparse_start_level - 1 /\ m + 1 \in 0 .. sparse_start_level - 1
      BY <1>3
    <3>2. m \in Levels /\ m \in 0 .. height - 1
      BY <3>1, DenseLevelIs
    <3>3. ItemsAbove(m + 1) = ItemsAbove(m) + GetNumItems(m) /\ GetNumItems(m) \in Nat
      BY <1>3, <3>2, ItemsAboveIs
    <3>4. Cardinality(lab[m + 1]) = Cardinality(Items(m))
      <4>1. Items(m) \in SUBSET Items(m)
        OBVIOUS
      <4>2. Cardinality(Marks(m, Items(m))) = Cardinality(Items(m))
        BY <3>1, <4>1, MarksCount
      <4>3. QED
        BY <1>1, <3>1, <4>2
    <3>5. Cardinality(Items(m)) = GetNumItems(m)
      <4> DEFINE n == GetNumItems(m)
      <4>1. n \in Nat
        BY <3>3
      <4> HIDE DEF n
      <4>2. 0 \in Int /\ n - 1 \in Int
        BY <4>1
      <4>3. Cardinality(0 .. n - 1) = IF 0 > n - 1 THEN 0 ELSE (n - 1) - 0 + 1
        BY <4>2, FS_Interval
      <4>4. Cardinality(0 .. n - 1) = n
        BY <4>1, <4>3
      <4>5. QED
        BY <4>4 DEF Items, n
    <3>6. y[m] = ItemsAbove(m) /\ y[m + 1] = ItemsAbove(m + 1)
      BY <2>1, <3>1
    <3>7. QED
      BY <3>3, <3>4, <3>5, <3>6
  <2>3. ItemsAbove(0) = 0
    BY <1>3, ItemsAboveIs
  <2>4. \A m \in 0 .. sparse_start_level - 1 : lab[m + 1] \in SUBSET (0 .. node_counts[m] * Fanout - 1)
    BY <1>1
  <2>5. \A m \in 0 .. sparse_start_level - 1 : y[m] \in Int
    BY <2>1
  <2> HIDE DEF y, bl
  <2>6. BVP!OnesUpTo(bl, NodesAbove(l) * Fanout) = y[l] - y[0]
    BY <1>4, <2>2, <2>4, <2>5, DenseInFront
  <2>7. 0 \in 0 .. sparse_start_level - 1
    BY <1>3
  <2>8. QED
    BY <2>1, <2>3, <2>6, <2>7 DEF base
<1>12. BVP!OnesUpTo(bc, base) = NodesAbove(l + 1) - 1
  <2> DEFINE y == [m \in 0 .. height |-> NodesAbove(m + 1)]
  <2>1. \A m \in 0 .. sparse_start_level - 1 : y[m] = NodesAbove(m + 1) /\ NodesAbove(m + 1) \in Int
    <3> TAKE m \in 0 .. sparse_start_level - 1
    <3>1. NodesAbove(m + 1) \in Nat /\ m \in 0 .. height
      BY <1>3, DenseLevelIs
    <3>2. QED
      BY <3>1
  <2>2. ASSUME NEW m \in 0 .. sparse_start_level - 2
        PROVE  y[m + 1] = y[m] + Cardinality(child[m + 1])
    <3>1. /\ m \in 0 .. sparse_start_level - 1 /\ m + 1 \in 0 .. sparse_start_level - 1
          /\ m + 1 < height
      BY <1>3
    <3>2. m \in Levels /\ m \in 0 .. height - 1
      BY <3>1, DenseLevelIs
    <3>3. node_counts[m + 1] = Cardinality(child_indicator_bits[m])
      BY <1>3, <3>1, <3>2, LevelIs
    <3>4. Cardinality(child[m + 1]) = Cardinality(child_indicator_bits[m])
      BY <1>1, <3>1, MarksCount
    <3>5. NodesAbove(m + 1 + 1) = NodesAbove(m + 1) + node_counts[m + 1]
      BY <3>1, DenseLevelIs
    <3>6. y[m] = NodesAbove(m + 1) /\ y[m + 1] = NodesAbove(m + 1 + 1)
      BY <2>1, <3>1
    <3>7. QED
      BY <3>3, <3>4, <3>5, <3>6
  <2>3. NodesAbove(0 + 1) = 1
    <3>1. 0 \in 0 .. height - 1
      BY <1>3
    <3>2. NodesAbove(0) = 0 /\ NodesAbove(0 + 1) = NodesAbove(0) + node_counts[0]
      BY <1>3, <3>1, AboveIs
    <3>3. node_counts[0] = 1
      BY <1>3, <3>1, LevelIs
    <3>4. QED
      BY <3>2, <3>3
  <2>4. \A m \in 0 .. sparse_start_level - 1 : child[m + 1] \in SUBSET (0 .. node_counts[m] * Fanout - 1)
    BY <1>1
  <2>5. \A m \in 0 .. sparse_start_level - 1 : y[m] \in Int
    BY <2>1
  <2> HIDE DEF y, bc
  <2>6. BVP!OnesUpTo(bc, NodesAbove(l) * Fanout) = y[l] - y[0]
    BY <1>5, <2>2, <2>4, <2>5, DenseInFront
  <2>7. 0 \in 0 .. sparse_start_level - 1
    BY <1>3
  <2>8. QED
    BY <2>1, <2>3, <2>6, <2>7 DEF base
<1>13. ASSUME NEW p, NodeItem(l, k, c, p)
       PROVE  /\ DenseChild(pos)
                   = NodesAbove(l + 1) - 1 + Cardinality(Below(child_indicator_bits[l], p + 1))
              /\ BV!Rank(louds_dense.label_bitmaps, pos) = ItemsAbove(l) + (p + 1)
  <2>1. p \in Items(l) /\ x = BitmapPos(l, p)
    BY <1>2, <1>13 DEF NodeItem
  <2>2. x + 1 \in 0 .. node_counts[l] * Fanout /\ pos + 1 = base + (x + 1)
    <3>1. node_counts[l] * Fanout \in Nat /\ base \in Int
      <4>1. NodesAbove(l) \in Nat
        BY DenseLevelIs
      <4>2. QED
        BY <1>3, <4>1 DEF base
    <3>2. x \in Int
      BY <1>2, <3>1
    <3>3. QED
      BY <1>2, <3>1, <3>2
  <2> DEFINE z == x + 1
  <2>3. z \in 0 .. node_counts[l] * Fanout /\ z = BitmapPos(l, p) + 1 /\ pos + 1 = base + z
    BY <2>1, <2>2
  <2> HIDE DEF z, bl, bc
  <2>4. BVP!OnesUpTo(bl, base + z) = BVP!OnesUpTo(bl, base) + Cardinality(Below(lab[l + 1], z))
    BY <1>4, <2>3 DEF HoldsBitmaps, base
  <2>5. BVP!OnesUpTo(bc, base + z) = BVP!OnesUpTo(bc, base) + Cardinality(Below(child[l + 1], z))
    BY <1>5, <2>3 DEF HoldsBitmaps, base
  <2>6. Cardinality(Below(lab[l + 1], z)) = p + 1
    <3>1. Items(l) \in SUBSET Items(l)
      OBVIOUS
    <3>2. Cardinality(Below(Marks(l, Items(l)), BitmapPos(l, p) + 1)) = Cardinality(Below(Items(l), p + 1))
      BY <2>1, <3>1, MarksBelow
    <3>3. Below(Items(l), p + 1) = 0 .. p /\ p \in Nat
      <4>1. GetNumItems(l) \in Nat /\ p \in 0 .. GetNumItems(l) - 1
        BY <1>3, <2>1, LevelIs DEF Items
      <4>2. \A q : q \in Below(Items(l), p + 1) <=> q \in 0 .. p
        <5> TAKE q
        <5>1. q \in Below(Items(l), p + 1) <=> q \in 0 .. GetNumItems(l) - 1 /\ q < p + 1
          BY Zenon DEF Below, Items
        <5>2. QED
          BY <4>1, <5>1
      <4>3. Below(Items(l), p + 1) = 0 .. p
        BY <4>2, Zenon
      <4>4. p \in Nat
        BY <4>1
      <4>5. QED
        BY <4>3, <4>4
    <3>4. Cardinality(0 .. p) = p + 1
      <4>1. 0 \in Int /\ p \in Int
        BY <3>3
      <4>2. Cardinality(0 .. p) = IF 0 > p THEN 0 ELSE p - 0 + 1
        BY <4>1, FS_Interval
      <4>3. QED
        BY <3>3, <4>2
    <3>5. lab[l + 1] = Marks(l, Items(l))
      BY <1>1
    <3>6. QED
      BY <2>3, <3>2, <3>3, <3>4, <3>5
  <2>7. Cardinality(Below(child[l + 1], z)) = Cardinality(Below(child_indicator_bits[l], p + 1))
    <3>1. child[l + 1] = Marks(l, child_indicator_bits[l]) /\ child_indicator_bits[l] \in SUBSET Items(l)
      BY <1>1
    <3>2. Cardinality(Below(Marks(l, child_indicator_bits[l]), BitmapPos(l, p) + 1))
            = Cardinality(Below(child_indicator_bits[l], p + 1))
      BY <2>1, <3>1, MarksBelow
    <3>3. QED
      BY <2>3, <3>1, <3>2
  <2>8. BV!Rank(bl, pos) = BVP!OnesUpTo(bl, pos + 1) /\ BV!Rank(bc, pos) = BVP!OnesUpTo(bc, pos + 1)
    BY <1>4, <1>5, <1>6, SameQueries DEF BVP!RankCounts
  <2>9. QED
    BY <1>11, <1>12, <2>3, <2>4, <2>5, <2>6, <2>7, <2>8 DEF DenseChild, bl, bc
<1>14. pos \in Nat /\ bl.num_bits \in Nat
  <2> DEFINE a == NodesAbove(sparse_start_level)
             n == bl.num_bits
  <2>1. a \in Nat /\ Fanout \in Nat
    BY <1>3, DenseLevelIs
  <2> HIDE DEF a
  <2>2. a * Fanout \in Nat
    BY <2>1
  <2>3. n = a * Fanout /\ pos \in 0 .. n - 1
    BY <1>4, <1>6 DEF a
  <2> HIDE DEF n
  <2>4. n \in Nat /\ pos \in Nat
    BY <2>2, <2>3
  <2>5. QED
    BY <2>4 DEF n
<1>15. QED
  BY <1>6, <1>9, <1>10, <1>13, <1>14

-------------------------------------------------------------------------------
(* Reading a label *)

(* The value read at a label of a dense node is the one of its leaf. *)
LEMMA DenseValueIs ==
  ASSUME NoTerminatorAlone, Fits, BuiltInv, louds_dense = MakeLoudsDense,
         NEW l \in 0 .. sparse_start_level - 1, NEW k \in 0 .. node_counts[l] - 1,
         NEW c \in Label, NEW pos, pos = (NodesAbove(l) + k) * Fanout + c,
         NEW p, NodeItem(l, k, c, p), p \notin child_indicator_bits[l]
  PROVE  DenseValue(pos) = LeafEntry(l, p)[2]
<1> DEFINE b == Cardinality(Below(child_indicator_bits[l], p + 1))
           v == LeavesBetween(0, l)
<1>1. /\ l \in 0 .. height - 1 /\ DenseInv /\ l < sparse_start_level
      /\ sparse_start_level \in Nat /\ l \in Nat /\ pc = "done" /\ 0 \in 0 .. height - 1
      /\ 0 < height /\ height \in Nat
  <2>1. /\ l \in 0 .. height - 1 /\ sparse_start_level \in Nat /\ height \in Nat /\ l \in Nat
    BY DenseLevelIs
  <2>2. DenseInv /\ pc = "done"
    BY DEF Fits
  <2>3. l < sparse_start_level /\ 0 \in 0 .. height - 1 /\ 0 < height
    BY <2>1
  <2>4. QED
    BY <2>1, <2>2, <2>3
<1>2. input.include_dense
  BY <1>1 DEF BuiltInv
<1>3. p \in Leaves(l)
  BY <1>1, LeafIsItem DEF NodeItem
<1>4. /\ DenseChild(pos) = NodesAbove(l + 1) - 1 + b
      /\ BV!Rank(louds_dense.label_bitmaps, pos) = ItemsAbove(l) + (p + 1)
  BY DenseStepIs
<1>5. /\ v = (ItemsAbove(l) - ItemsAbove(0)) - (NodesAbove(l + 1) - NodesAbove(0 + 1))
      /\ ItemsAbove(l) \in Int /\ NodesAbove(l + 1) \in Int /\ v \in Nat
  BY <1>1, LeavesAbove
<1>6. ItemsAbove(0) = 0 /\ NodesAbove(0 + 1) = 1
  <2>1. TypeInv /\ 0 \in Levels
    BY <1>1, ConstantsAssumption DEF DenseInv, SortedInv, LoudsInv, Levels
  <2>2. ItemsAbove(0) = 0 /\ NodesAbove(0) = 0 /\ NodesAbove(0 + 1) = NodesAbove(0) + node_counts[0]
    BY <2>1, ItemsAboveIs, NodesAboveIs
  <2>3. node_counts[0] = 1
    BY <1>1, LevelIs
  <2>4. QED
    BY <2>2, <2>3
<1>7. LeafRank(l, p) = p + 1 - b /\ b \in Nat /\ p \in Nat
  BY <1>1, <1>3, LeafRankByBits
<1>8. LeafEntry(l, p)[2] = ValueAt(values_dense, v + LeafRank(l, p) - 1)
  BY <1>1, <1>2, <1>3, CollectedGives
<1>9. DenseValue(pos)
        = ValueAt(values_dense, (ItemsAbove(l) + (p + 1)) - (NodesAbove(l + 1) - 1 + b) - 1)
  <2>1. louds_dense.values = values_dense
    BY DEF MakeLoudsDense
  <2>2. QED
    BY <1>4, <2>1 DEF DenseValue
<1> HIDE DEF v, b
<1>10. (ItemsAbove(l) + (p + 1)) - (NodesAbove(l + 1) - 1 + b) - 1 = v + LeafRank(l, p) - 1
  BY <1>5, <1>6, <1>7
<1>11. QED
  BY <1>8, <1>9, <1>10

(* The same for a label of a sparse node. *)
LEMMA SparseValueIs ==
  ASSUME BuiltInv, pc = "done", input.include_dense, louds_sparse = MakeLoudsSparse,
         NEW l \in sparse_start_level .. height - 1, NEW p \in Leaves(l)
  PROVE  SparseValue(SparsePos(l, p)) = LeafEntry(l, p)[2]
<1> DEFINE b == Cardinality(Below(child_indicator_bits[l], p + 1))
           s == sparse_start_level
           v == LeavesBetween(s, l)
           pos == SparsePos(l, p)
           rank == BV!Rank(louds_sparse.child_indicator_bits, pos)
<1>1. /\ DenseInv /\ HandoverInv /\ l \in 0 .. height - 1 /\ ~(l < s) /\ s \in 0 .. height - 1
      /\ s \in Nat /\ height \in Nat /\ l \in Nat /\ l \in s .. height - 1
  <2>1. DenseInv /\ HandoverInv
    BY DEF BuiltInv, StoredInv
  <2>2. /\ s \in Nat /\ height \in Nat /\ l \in Nat /\ l \in 0 .. height - 1
    BY <2>1, SparseLevelIs
  <2>3. QED
    BY <2>1, <2>2
<1>2. p \in Items(l)
  BY <1>1, LeafIsItem
<1>3. SparseChild(pos) = NodesAbove(l + 1) - 1 + b
  BY <1>1, <1>2, SparseChildIs
<1>4. louds_sparse.child_count_dense = NodesAbove(s + 1) - 1
  BY <1>1, DenseCounts
<1>5. /\ v = (ItemsAbove(l) - ItemsAbove(s)) - (NodesAbove(l + 1) - NodesAbove(s + 1))
      /\ ItemsAbove(l) \in Int /\ NodesAbove(l + 1) \in Int /\ v \in Nat
      /\ ItemsAbove(s) \in Int /\ NodesAbove(s + 1) \in Int
  BY <1>1, LeavesAbove
<1>6. LeafRank(l, p) = p + 1 - b /\ b \in Nat /\ p \in Nat
  BY <1>1, LeafRankByBits
<1>7. LeafEntry(l, p)[2] = ValueAt(values_sparse, v + LeafRank(l, p) - 1)
  BY <1>1, CollectedGives
<1>8. rank + (NodesAbove(s + 1) - 1) = NodesAbove(l + 1) - 1 + b /\ rank \in Int
  <2>1. rank + (NodesAbove(s + 1) - 1) = NodesAbove(l + 1) - 1 + b
    BY <1>3, <1>4 DEF SparseChild
  <2>2. rank \in Int
    BY <1>1, <1>2, SparseChildIs
  <2>3. QED
    BY <2>1, <2>2
<1>9. SparseValue(pos) = ValueAt(values_sparse, pos - rank)
  <2>1. louds_sparse.values = values_sparse
    BY DEF MakeLoudsSparse
  <2>2. QED
    BY <2>1 DEF SparseValue
<1>10. pos = ItemsAbove(l) - ItemsAbove(s) + p
  BY DEF SparsePos
<1> HIDE DEF v, b, s, pos, rank
<1>11. pos - rank = v + LeafRank(l, p) - 1
  BY <1>5, <1>6, <1>8, <1>10
<1>12. QED
  BY <1>7, <1>9, <1>11 DEF pos

(* The bitmaps of LoudsDense are read right. *)
LEMMA DenseReads ==
  ASSUME NoTerminatorAlone, Fits, BuiltInv, louds_dense = MakeLoudsDense,
         NEW l \in 0 .. sparse_start_level - 1, NEW k \in 0 .. node_counts[l] - 1,
         NEW c \in Label, NEW pos, pos = (NodesAbove(l) + k) * Fanout + c
  PROVE  Reads(l, k, c, HasLabel(pos), HasDenseChild(pos), DenseChild(pos), DenseValue(pos))
<1>1. l \in 0 .. height - 1 /\ DenseInv
  BY DenseLevelIs DEF Fits
<1>2. /\ HasLabel(pos) <=> \E p : NodeItem(l, k, c, p)
      /\ HasDenseChild(pos) <=> \E p \in child_indicator_bits[l] : NodeItem(l, k, c, p)
      /\ \A p : NodeItem(l, k, c, p) =>
           DenseChild(pos)
             = NodesAbove(l + 1) - 1 + Cardinality(Below(child_indicator_bits[l], p + 1))
  BY DenseStepIs
<1>3. \A p, q : NodeItem(l, k, c, p) /\ NodeItem(l, k, c, q) => p = q
  <2> SUFFICES ASSUME NEW p, NEW q, NodeItem(l, k, c, p), NodeItem(l, k, c, q)
               PROVE  p = q
    OBVIOUS
  <2>1. PICK path : At(path, l, k)
    BY <1>1, AtExists
  <2>2. /\ PathTo(l, p) = Append(path, c) /\ p \in Items(l)
        /\ \A s \in Items(l) : PathTo(l, s) = Append(path, c) => s = p
    BY <1>1, <2>1, ItemPath
  <2>3. q \in Items(l) /\ PathTo(l, q) = Append(path, c)
    BY <1>1, <2>1, ItemPath
  <2>4. QED
    BY <2>2, <2>3
<1>4. ASSUME NEW p, NodeItem(l, k, c, p)
      PROVE  /\ HasLabel(pos)
             /\ HasDenseChild(pos) <=> p \in child_indicator_bits[l]
             /\ p \in child_indicator_bits[l] =>
                  DenseChild(pos) = NodesAbove(l + 1) + Cardinality(Below(child_indicator_bits[l], p))
             /\ p \notin child_indicator_bits[l] => DenseValue(pos) = LeafEntry(l, p)[2]
  <2>1. HasLabel(pos) /\ (HasDenseChild(pos) <=> p \in child_indicator_bits[l])
    BY <1>2, <1>3, <1>4
  <2>2. ASSUME p \in child_indicator_bits[l]
        PROVE  DenseChild(pos) = NodesAbove(l + 1) + Cardinality(Below(child_indicator_bits[l], p))
    BY <1>1, <1>2, <1>4, <2>2, NextChild
  <2>3. ASSUME p \notin child_indicator_bits[l]
        PROVE  DenseValue(pos) = LeafEntry(l, p)[2]
    BY <1>4, <2>3, DenseValueIs
  <2>4. QED
    BY <2>1, <2>2, <2>3
<1>5. QED
  BY <1>2, <1>4 DEF Reads

(* The vectors of LoudsSparse are read right, whatever lies behind them. *)
LEMMA SparseReads ==
  ASSUME NoTerminatorAlone, BuiltInv, pc = "done", louds_sparse = MakeLoudsSparse,
         WordSize > 1, BinaryBelow \in Nat, BinaryBelow <= WordSize + 2,
         NEW l \in sparse_start_level .. height - 1, NEW k \in 0 .. node_counts[l] - 1,
         NEW c \in Label, NEW s \in SearchesIn(NodesAbove(l) + k, c)
  PROVE  Reads(l, k, c, s.found, HasSparseChild(s.pos), SparseChild(s.pos), SparseValue(s.pos))
<1>1. DenseInv /\ HandoverInv /\ l \in 0 .. height - 1
  <2>1. DenseInv /\ HandoverInv
    BY DEF BuiltInv, StoredInv
  <2>2. QED
    BY <2>1, SparseLevelIs
<1>2. /\ \A p : NodeItem(l, k, c, p) => s.found /\ s.pos = SparsePos(l, p)
      /\ s.found => \/ \E p : NodeItem(l, k, c, p) /\ s.pos = SparsePos(l, p)
                    \/ ~LastNodeEndsInside /\ ~HasSparseChild(s.pos)
  BY <1>1, SparseSearchIs
<1>3. ASSUME NEW p, NodeItem(l, k, c, p)
      PROVE  /\ s.found
             /\ HasSparseChild(s.pos) <=> p \in child_indicator_bits[l]
             /\ p \in child_indicator_bits[l] =>
                  SparseChild(s.pos)
                    = NodesAbove(l + 1) + Cardinality(Below(child_indicator_bits[l], p))
             /\ p \notin child_indicator_bits[l] /\ input.include_dense =>
                  SparseValue(s.pos) = LeafEntry(l, p)[2]
  <2>1. p \in Items(l) /\ s.found /\ s.pos = SparsePos(l, p)
    BY <1>2, <1>3 DEF NodeItem
  <2>2. /\ HasSparseChild(s.pos) <=> p \in child_indicator_bits[l]
        /\ SparseChild(s.pos)
             = NodesAbove(l + 1) - 1 + Cardinality(Below(child_indicator_bits[l], p + 1))
    BY <1>1, <2>1, SparseChildIs
  <2>3. ASSUME p \in child_indicator_bits[l]
        PROVE  SparseChild(s.pos)
                 = NodesAbove(l + 1) + Cardinality(Below(child_indicator_bits[l], p))
    BY <1>1, <2>2, <2>3, NextChild
  <2>4. ASSUME p \notin child_indicator_bits[l], input.include_dense
        PROVE  SparseValue(s.pos) = LeafEntry(l, p)[2]
    <3>1. p \in Leaves(l)
      BY <1>1, <2>1, <2>4, LeafIsItem
    <3>2. QED
      BY <2>1, <2>4, <3>1, SparseValueIs
  <2>5. QED
    BY <2>1, <2>2, <2>3, <2>4
<1>4. s.found => (\E p : NodeItem(l, k, c, p)) \/ (~LastNodeEndsInside /\ ~HasSparseChild(s.pos))
  BY <1>2
<1>5. QED
  BY <1>3, <1>4 DEF Reads

(* A label read in a dense node. *)
LEMMA DenseTells ==
  ASSUME NoTerminatorAlone, Usable, NEW path \in InnerPaths, Len(path) < sparse_start_level,
         NEW c \in Label
  PROVE  LET pos == NodeNumber(path) * Fanout + c
         IN  /\ DensePos(NodeNumber(path), c) = pos
             /\ ~(pos >= louds_dense.label_bitmaps.num_bits)
             /\ HasDenseChild(pos) => HasLabel(pos)
             /\ Tells(path, c, HasLabel(pos), HasDenseChild(pos), DenseChild(pos), DenseValue(pos))
<1>1. /\ path \in Seq(Label) /\ Len(path) \in 0 .. height - 1 /\ Fits /\ BuiltInv
      /\ louds_dense = MakeLoudsDense /\ sparse_start_level \in Nat
  BY UsableIs, PathNode
<1>2. PICK k \in 0 .. node_counts[Len(path)] - 1 :
              At(path, Len(path), k) /\ NodeNumber(path) = NodesAbove(Len(path)) + k
  BY PathNode
<1> DEFINE l == Len(path)
           pos == (NodesAbove(l) + k) * Fanout + c
<1>3. l \in 0 .. sparse_start_level - 1 /\ k \in 0 .. node_counts[l] - 1
      /\ NodeNumber(path) * Fanout + c = pos /\ At(path, l, k)
  BY <1>1, <1>2
<1> HIDE DEF l
<1>4. DensePos(NodesAbove(l) + k, c) = pos
  BY <1>1, <1>3, DensePosIs
<1>5. pos = (NodesAbove(l) + k) * Fanout + c
  OBVIOUS
<1> HIDE DEF pos
<1>6. Reads(l, k, c, HasLabel(pos), HasDenseChild(pos), DenseChild(pos), DenseValue(pos))
  BY <1>1, <1>3, <1>5, DenseReads
<1>7. /\ pos < louds_dense.label_bitmaps.num_bits
      /\ pos \in Nat /\ louds_dense.label_bitmaps.num_bits \in Nat
      /\ HasLabel(pos) <=> \E p : NodeItem(l, k, c, p)
      /\ HasDenseChild(pos) <=> \E p \in child_indicator_bits[l] : NodeItem(l, k, c, p)
  BY <1>1, <1>3, <1>5, DenseStepIs
<1>8. Tells(path, c, HasLabel(pos), HasDenseChild(pos), DenseChild(pos), DenseValue(pos))
  <2>1. At(path, Len(path), k) /\ Len(path) \in 0 .. height - 1
        /\ Reads(Len(path), k, c, HasLabel(pos), HasDenseChild(pos), DenseChild(pos), DenseValue(pos))
    BY <1>1, <1>2, <1>6 DEF l
  <2>2. QED
    BY <1>1, <2>1, ReadsTell
<1>9. HasDenseChild(pos) => HasLabel(pos)
  BY <1>7
<1>10. DensePos(NodeNumber(path), c) = pos
  BY <1>2, <1>4 DEF l
<1>11. ~(pos >= louds_dense.label_bitmaps.num_bits)
  <2> DEFINE n == louds_dense.label_bitmaps.num_bits
  <2>1. pos < n /\ pos \in Nat /\ n \in Nat
    BY <1>7
  <2> HIDE DEF n
  <2>2. ~(pos >= n)
    BY <2>1
  <2>3. QED
    BY <2>2 DEF n
<1>12. QED
  BY <1>3, <1>8, <1>9, <1>10, <1>11

(* A label looked for in a sparse node. *)
LEMMA SparseTells ==
  ASSUME NoTerminatorAlone, Usable, NEW path \in InnerPaths, sparse_start_level <= Len(path),
         NEW c \in Label, NEW s \in SearchesIn(NodeNumber(path), c)
  PROVE  Tells(path, c, s.found, HasSparseChild(s.pos), SparseChild(s.pos), SparseValue(s.pos))
<1>1. /\ path \in Seq(Label) /\ Len(path) \in 0 .. height - 1 /\ BuiltInv /\ pc = "done"
      /\ louds_sparse = MakeLoudsSparse /\ sparse_start_level \in Nat /\ height \in Nat
  BY UsableIs, PathNode
<1>2. PICK k \in 0 .. node_counts[Len(path)] - 1 :
              At(path, Len(path), k) /\ NodeNumber(path) = NodesAbove(Len(path)) + k
  BY PathNode
<1> DEFINE l == Len(path)
<1>3. l \in sparse_start_level .. height - 1 /\ k \in 0 .. node_counts[l] - 1
  BY <1>1, <1>2
<1>4. s \in SearchesIn(NodesAbove(l) + k, c)
  BY <1>2
<1> HIDE DEF l
<1>5. Reads(l, k, c, s.found, HasSparseChild(s.pos), SparseChild(s.pos), SparseValue(s.pos))
  BY <1>1, <1>3, <1>4, WidthsAssumption, SparseReads
<1>6. Reads(Len(path), k, c, s.found, HasSparseChild(s.pos), SparseChild(s.pos), SparseValue(s.pos))
  BY <1>5 DEF l
<1>7. QED
  BY <1>1, <1>2, <1>6, ReadsTell

-------------------------------------------------------------------------------
(* The steps that read labels *)

(* The loops of LoudsDense. *)
LEMMA DenseStepOK ==
  ASSUME NoTerminatorAlone, Usable, CallOK(call), DenseKeyStep \/ DenseNodeStep
  PROVE  CallOK(call')
<1>0. /\ call.at = "dense" /\ call.op \in KeyLookups \cup NodeLookups
      /\ call.level < sparse_start_level
  BY UsableIs DEF DenseKeyStep, DenseNodeStep, Running
<1>1. CASE OutOfBytes
  <2>1. (call.op \in KeyLookups /\ Miss) \/ (call.op \in NodeLookups /\ FoundNode)
    BY <1>1 DEF DenseKeyStep, DenseNodeStep, Running
  <2>2. QED
    BY <1>0, <1>1, <2>1, KeyEnds, NodeFound
<1>2. CASE ~OutOfBytes
  <2> DEFINE path == SubSeq(call.key, 1, call.level)
             pos == DensePos(call.node, KeyByte)
  <2>1. call.at # "answered" /\ call.op # "getNode" /\ call.level \in Nat /\ call.key \in Seq(Label)
    BY <1>0 DEF KeyLookups, NodeLookups, CallOK
  <2>2. call.level < Len(call.key)
    BY <1>2, <2>1 DEF OutOfBytes
  <2>3. /\ path \in InnerPaths /\ Len(path) = call.level /\ call.node = NodeNumber(path)
        /\ KeyByte \in Label
    BY <2>1, <2>2, CallAtPath DEF KeyByte
  <2>4. Len(path) < sparse_start_level
    BY <1>0, <2>3
  <2> HIDE DEF path
  <2>5. Tells(path, KeyByte, HasLabel(pos), HasDenseChild(pos), DenseChild(pos), DenseValue(pos))
    BY <2>3, <2>4, DenseTells
  <2>6. CASE DenseKeyStep
    <3>1. \/ ~HasLabel(pos) /\ Miss
          \/ HasLabel(pos) /\ ~HasDenseChild(pos) /\ Hit(DenseValue(pos))
          \/ HasLabel(pos) /\ HasDenseChild(pos) /\ Descend(DenseChild(pos))
      BY <1>2, <2>6 DEF DenseKeyStep
    <3>2. call.op \in KeyLookups
      BY <2>6 DEF DenseKeyStep, Running
    <3> HIDE DEF pos
    <3>3. QED
      BY <1>0, <1>2, <2>5, <3>1, <3>2, KeyGoes DEF path
  <2>7. CASE DenseNodeStep
    <3>1. IF call.op = "lookupNodeNumOption" /\ ~(HasLabel(pos) /\ HasDenseChild(pos))
          THEN Miss
          ELSE Descend(DenseChild(pos))
      BY <1>2, <2>7 DEF DenseNodeStep
    <3>2. call.op \in NodeLookups
      BY <2>7 DEF DenseNodeStep, Running
    <3> HIDE DEF pos
    <3>3. QED
      BY <1>0, <1>2, <2>5, <3>1, <3>2, NodeGoes DEF path
  <2>8. QED
    BY <2>6, <2>7
<1>3. QED
  BY <1>1, <1>2

(* The loops of LoudsSparse. *)
LEMMA SparseStepOK ==
  ASSUME NoTerminatorAlone, Usable, CallOK(call), SparseKeyStep \/ SparseNodeStep
  PROVE  CallOK(call')
<1>0. /\ call.at = "sparse" /\ call.op \in KeyLookups \cup NodeLookups
      /\ call.at \in {"dense", "sparse"} /\ call.at # "dense"
  BY DEF SparseKeyStep, SparseNodeStep, Running
<1>1. CASE OutOfBytes
  <2>1. (call.op \in KeyLookups /\ Miss) \/ (call.op \in NodeLookups /\ FoundNode)
    BY <1>1 DEF SparseKeyStep, SparseNodeStep, Running
  <2>2. QED
    BY <1>0, <1>1, <2>1, KeyEnds, NodeFound
<1>2. CASE ~OutOfBytes
  <2> DEFINE path == SubSeq(call.key, 1, call.level)
  <2>1. /\ call.at # "answered" /\ call.op # "getNode" /\ call.level \in Nat
        /\ call.key \in Seq(Label) /\ sparse_start_level <= call.level
    BY <1>0 DEF KeyLookups, NodeLookups, CallOK, RunningOK
  <2>2. call.level < Len(call.key)
    BY <1>2, <2>1 DEF OutOfBytes
  <2>3. /\ path \in InnerPaths /\ Len(path) = call.level /\ call.node = NodeNumber(path)
        /\ KeyByte \in Label
    BY <2>1, <2>2, CallAtPath DEF KeyByte
  <2>4. sparse_start_level <= Len(path)
    BY <2>1, <2>3
  <2> HIDE DEF path
  <2>5. \A s \in SearchesIn(call.node, KeyByte) :
          Tells(path, KeyByte, s.found, HasSparseChild(s.pos), SparseChild(s.pos),
                SparseValue(s.pos))
    BY <2>3, <2>4, SparseTells
  <2>6. CASE SparseKeyStep
    <3>1. PICK s \in SearchesIn(call.node, KeyByte) :
            \/ ~s.found /\ Miss
            \/ s.found /\ ~HasSparseChild(s.pos) /\ Hit(SparseValue(s.pos))
            \/ s.found /\ HasSparseChild(s.pos) /\ Descend(SparseChild(s.pos))
      BY <1>2, <2>6 DEF SparseKeyStep
    <3>2. call.op \in KeyLookups
      BY <2>6 DEF SparseKeyStep, Running
    <3>3. Tells(path, KeyByte, s.found, HasSparseChild(s.pos), SparseChild(s.pos),
                SparseValue(s.pos))
      BY <2>5
    <3>4. QED
      BY <1>0, <1>2, <3>1, <3>2, <3>3, KeyGoes DEF path
  <2>7. CASE SparseNodeStep
    <3>1. PICK s \in SearchesIn(call.node, KeyByte) :
            IF call.op = "lookupNodeNumOption" /\ ~(s.found /\ HasSparseChild(s.pos))
            THEN Miss
            ELSE Descend(SparseChild(s.pos))
      BY <1>2, <2>7 DEF SparseNodeStep
    <3>2. call.op \in NodeLookups
      BY <2>7 DEF SparseNodeStep, Running
    <3>3. Tells(path, KeyByte, s.found, HasSparseChild(s.pos), SparseChild(s.pos),
                SparseValue(s.pos))
      BY <2>5
    <3>4. QED
      BY <1>0, <1>2, <3>1, <3>2, <3>3, NodeGoes DEF path
  <2>8. QED
    BY <2>6, <2>7
<1>3. QED
  BY <1>1, <1>2

(* amacLookup reads what its byte leads to. *)
AmacTold(byte, found, hasChild, child, val) ==
  /\ byte \in Label /\ val \in Nat
  /\ Tells(call.key, byte, found, hasChild, child, val)
  /\ AmacAnswers(Append(call.key, byte), found, hasChild, child, val, call')

(* It is answered with what it reads, where it was given no byte in the dense part
   that is negative as a char. *)
LEMMA AmacReads ==
  ASSUME NoTerminatorAlone, Usable, CallOK(call), AmacLookup, Plain(call')
  PROVE  \E byte, found, hasChild, child, val : AmacTold(byte, found, hasChild, child, val)
<1> DEFINE path == call.key
<1>1. HoldsNode
  BY DEF AmacLookup
<1>2. /\ path \in InnerPaths /\ call.node = NodeNumber(path) /\ path \in Seq(Label)
      /\ Len(path) \in Nat /\ sparse_start_level \in Nat /\ StartLevel = sparse_start_level
  BY <1>1, HeldNode, UsableIs
<1>3. PICK byte \in Label :
        IF PartOf(Len(path)) = "dense"
        THEN /\ SignedByte(byte) < 0 => NegativeBytes
             /\ call' \in DenseStepsOf(byte)
        ELSE call' \in SparseStepsOf(byte)
  BY DEF AmacLookup
<1> DEFINE key == Append(path, byte)
<1>4. CASE Len(path) < sparse_start_level
  <2>1. (SignedByte(byte) < 0 => NegativeBytes) /\ call' \in DenseStepsOf(byte)
    BY <1>2, <1>3, <1>4 DEF PartOf
  <2>2. SignedByte(byte) = byte
    BY <1>2, <1>4, <2>1, PlainByte
  <2> DEFINE pos == DensePos(NodeNumber(path), byte)
  <2>3. /\ ~(pos >= louds_dense.label_bitmaps.num_bits)
        /\ Tells(path, byte, HasLabel(pos), HasDenseChild(pos), DenseChild(pos), DenseValue(pos))
    BY <1>2, <1>4, DenseTells
  <2>4. DenseValue(pos) \in Nat
    BY ValuesRead
  <2>5. call' \in IF pos >= louds_dense.label_bitmaps.num_bits
                  THEN StraySteps(key)
                  ELSE IF ~HasLabel(pos) THEN {MissedAnswer(key)}
                  ELSE {TaggedAnswer(key, IF HasDenseChild(pos) THEN NodeTag(DenseChild(pos))
                                          ELSE ValueTag(DenseValue(pos)))}
    BY <1>2, <2>1, <2>2 DEF DenseStepsOf
  <2> HIDE DEF pos, path, key
  <2>6. AmacAnswers(key, HasLabel(pos), HasDenseChild(pos), DenseChild(pos), DenseValue(pos), call')
    BY <2>3, <2>5 DEF AmacAnswers
  <2>7. AmacTold(byte, HasLabel(pos), HasDenseChild(pos), DenseChild(pos), DenseValue(pos))
    BY <2>3, <2>4, <2>6 DEF AmacTold, key, path
  <2>8. QED
    BY <2>7
<1>5. CASE ~(Len(path) < sparse_start_level)
  <2>1. call' \in SparseStepsOf(byte) /\ sparse_start_level <= Len(path)
    BY <1>2, <1>3, <1>5 DEF PartOf
  <2>2. PICK s \in SearchesIn(NodeNumber(path), byte) :
          call' = IF s.found
                  THEN TaggedAnswer(key, IF HasSparseChild(s.pos) THEN NodeTag(SparseChild(s.pos))
                                         ELSE ValueTag(SparseValue(s.pos)))
                  ELSE MissedAnswer(key)
    BY <1>2, <2>1 DEF SparseStepsOf
  <2>3. Tells(path, byte, s.found, HasSparseChild(s.pos), SparseChild(s.pos), SparseValue(s.pos))
    BY <1>2, <2>1, SparseTells
  <2>4. SparseValue(s.pos) \in Nat
    BY ValuesRead
  <2> HIDE DEF path, key
  <2>5. AmacAnswers(key, s.found, HasSparseChild(s.pos), SparseChild(s.pos), SparseValue(s.pos), call')
    BY <2>2 DEF AmacAnswers
  <2>6. AmacTold(byte, s.found, HasSparseChild(s.pos), SparseChild(s.pos), SparseValue(s.pos))
    BY <2>3, <2>4, <2>5 DEF AmacTold, key, path
  <2>7. QED
    BY <2>6
<1>6. QED
  BY <1>4, <1>5

(* amacLookup. *)
LEMMA AmacOK ==
  ASSUME NoTerminatorAlone, Usable, CallOK(call), AmacLookup, Plain(call')
  PROVE  CallOK(call')
<1>1. call.key \in InnerPaths
  BY HeldNode DEF AmacLookup
<1>2. PICK byte, found, hasChild, child, val : AmacTold(byte, found, hasChild, child, val)
  BY AmacReads
<1>3. QED
  BY <1>1, <1>2, AmacGoes DEF AmacTold

-------------------------------------------------------------------------------
(* What getNode shows *)

(* What getNode reads in the node it stops at. *)
SparseStop(pos, size, end, ls, rs) ==
  /\ pos = FirstLabelPos(call.node) /\ size \in NodeSizes(pos)
  /\ ~GoesOnAlone(pos, size)
  /\ end = Min({pos + size, louds_sparse.child_indicator_bits.num_bits})
  /\ ls = [i \in 1 .. end - pos |-> LV!LabelAt(louds_sparse.labels, pos + i - 1)]
  /\ rs = [i \in 1 .. end - pos |-> SparseResult(pos + i - 1)]

(* getNode shows a dense node. *)
LEMMA DenseNodeShown ==
  ASSUME NoTerminatorAlone, Usable, input.include_dense, NEW path \in InnerPaths,
         Len(path) < sparse_start_level, NEW base, base = NodeNumber(path) * Fanout,
         NEW ls, ls = InOrder(DenseLabels(NodeNumber(path))),
         NEW rs, \A i \in DOMAIN ls : rs[i] = DenseResult(base + ls[i])
  PROVE  Shows(path, ls, rs)
<1>1. /\ path \in Seq(Label) /\ Len(path) \in 0 .. height - 1 /\ Complete /\ Fits /\ BuiltInv
      /\ louds_dense = MakeLoudsDense /\ sparse_start_level \in Nat
  BY UsableIs, PathNode
<1> DEFINE l == Len(path)
           S == DenseLabels(NodeNumber(path))
<1>2. PICK k \in 0 .. node_counts[l] - 1 : At(path, l, k) /\ NodeNumber(path) = NodesAbove(l) + k
  BY PathNode
<1>3. l \in 0 .. sparse_start_level - 1 /\ l \in 0 .. height - 1
  BY <1>1
<1> HIDE DEF l
<1>4. base = (NodesAbove(l) + k) * Fanout
  BY <1>2
<1>5. ASSUME NEW c \in Label
      PROVE  /\ Reads(l, k, c, HasLabel(base + c), HasDenseChild(base + c), DenseChild(base + c),
                      DenseValue(base + c))
             /\ HasLabel(base + c) <=> \E p : NodeItem(l, k, c, p)
  <2> DEFINE pos == base + c
  <2>1. pos = (NodesAbove(l) + k) * Fanout + c
    BY <1>4
  <2> HIDE DEF pos
  <2>2. Reads(l, k, c, HasLabel(pos), HasDenseChild(pos), DenseChild(pos), DenseValue(pos))
    BY <1>1, <1>2, <1>3, <2>1, DenseReads
  <2>3. HasLabel(pos) <=> \E p : NodeItem(l, k, c, p)
    BY <1>1, <1>2, <1>3, <2>1, DenseStepIs
  <2>4. QED
    BY <2>2, <2>3 DEF pos
<1>6. S \in SUBSET Label /\ \A c \in Label : c \in S <=> HasLabel(base + c)
  BY DEF DenseLabels
<1> HIDE DEF S
<1>7. ls = InOrder(S)
  BY DEF S
<1>8. /\ \A i \in DOMAIN ls : ls[i] \in S
      /\ \A c \in S : \E i \in DOMAIN ls : ls[i] = c
      /\ \A i \in 2 .. Len(ls) : ls[i - 1] < ls[i]
  BY <1>6, <1>7, InOrderIs
<1>9. ASSUME NEW i \in DOMAIN ls
      PROVE  ls[i] \in Label /\ \E p : NodeItem(l, k, ls[i], p) /\ rs[i] = ItemResult(l, p)
  <2>1. PICK c \in Label : c = ls[i] /\ HasLabel(base + c)
    BY <1>6, <1>8
  <2>2. PICK p : NodeItem(l, k, c, p)
    BY <1>5, <2>1
  <2> DEFINE pos == base + c
  <2>3. rs[i] = DenseResult(pos)
    BY <2>1
  <2>4. Reads(l, k, c, HasLabel(pos), HasDenseChild(pos), DenseChild(pos), DenseValue(pos))
    BY <1>5
  <2> HIDE DEF pos
  <2>5. /\ HasDenseChild(pos) <=> p \in child_indicator_bits[l]
        /\ p \in child_indicator_bits[l] =>
             DenseChild(pos) = NodesAbove(l + 1) + Cardinality(Below(child_indicator_bits[l], p))
        /\ p \notin child_indicator_bits[l] => DenseValue(pos) = LeafEntry(l, p)[2]
    BY <2>2, <2>4 DEF Reads
  <2>6. DenseResult(pos) = ItemResult(l, p)
    BY <2>5, Zenon DEF DenseResult, ItemResult
  <2>7. QED
    BY <2>1, <2>2, <2>3, <2>6
<1>10. ASSUME NEW c \in Label, NEW p, NodeItem(l, k, c, p) PROVE \E i \in DOMAIN ls : ls[i] = c
  BY <1>5, <1>6, <1>8, <1>10
<1>11. Lists(l, k, ls, rs)
  BY <1>8, <1>9, <1>10 DEF Lists
<1>12. QED
  BY <1>1, <1>2, <1>3, <1>11, ListsShow

(* A dense node with one label has one branch. *)
LEMMA DenseOneBranch ==
  ASSUME NoTerminatorAlone, Usable, NEW path \in InnerPaths, Len(path) < sparse_start_level,
         NEW c \in Label, HasLabel(NodeNumber(path) * Fanout + c),
         Cardinality(DenseLabels(NodeNumber(path))) = 1
  PROVE  NextPaths(path) = {Append(path, c)}
<1>1. /\ Len(path) \in 0 .. height - 1 /\ Complete /\ Fits
      /\ louds_dense = MakeLoudsDense /\ sparse_start_level \in Nat
  BY UsableIs, PathNode
<1> DEFINE l == Len(path)
           base == NodeNumber(path) * Fanout
           S == DenseLabels(NodeNumber(path))
           ls == InOrder(S)
<1>2. PICK k \in 0 .. node_counts[l] - 1 : At(path, l, k) /\ NodeNumber(path) = NodesAbove(l) + k
  BY PathNode
<1>3. l \in 0 .. sparse_start_level - 1 /\ l \in 0 .. height - 1
  BY <1>1
<1> HIDE DEF l
<1>4. base = (NodesAbove(l) + k) * Fanout
  BY <1>2
<1>5. S \in SUBSET Label /\ \A b \in Label : b \in S <=> HasLabel(base + b)
  BY DEF DenseLabels
<1>6. Cardinality(S) = 1 /\ HasLabel(base + c)
  OBVIOUS
<1> HIDE DEF S, base
<1>7. ASSUME NEW b \in Label PROVE HasLabel(base + b) <=> \E p : NodeItem(l, k, b, p)
  <2> DEFINE pos == base + b
  <2>1. pos = (NodesAbove(l) + k) * Fanout + b
    BY <1>4
  <2> HIDE DEF pos
  <2>2. HasLabel(pos) <=> \E p : NodeItem(l, k, b, p)
    BY <1>1, <1>2, <1>3, <2>1, DenseStepIs
  <2>3. QED
    BY <2>2 DEF pos
<1>8. \A b \in S : b = c
  <2>1. Len(ls) = 1 /\ ls \in Seq(Label) /\ \A b \in S : \E i \in DOMAIN ls : ls[i] = b
    BY <1>5, <1>6, InOrderIs
  <2> HIDE DEF ls
  <2>2. \A b \in S : b = ls[1]
    BY <2>1
  <2>3. c \in S
    BY <1>5, <1>6
  <2>4. QED
    BY <2>2, <2>3
<1>9. /\ \E p : NodeItem(l, k, c, p)
      /\ \A b \in Label : \A p : NodeItem(l, k, b, p) => b = c
  BY <1>5, <1>6, <1>7, <1>8
<1>10. QED
  BY <1>1, <1>2, <1>3, <1>9, OneItemOneBranch

(* The child bits of the sparse part end where the start bits do. *)
LEMMA ChildBitsEnd ==
  ASSUME DenseInv, HandoverInv, louds_sparse = MakeLoudsSparse
  PROVE  louds_sparse.child_indicator_bits.num_bits = SparsePos(height, 0)
<1> DEFINE list == SparseLevels(child_indicator_bits)
           b == louds_sparse.child_indicator_bits
<1>1. b = BVP!MakeRank(list, {})
  <2>1. b = BV!MakeRank(list, {})
    BY DEF MakeLoudsSparse
  <2>2. QED
    BY <2>1, SameConstructors
<1>2. /\ b.num_bits = BVP!MakeBitvector(list, {}).num_bits
      /\ b.bits = BVP!MakeBitvector(list, {}).bits
  BY <1>1 DEF BVP!MakeRank
<1> HIDE DEF b
<1>3. b.num_bits = SparseStarts[height - sparse_start_level]
  BY <1>2, SparseBits DEF list
<1>4. SparseStarts[height - sparse_start_level] = SparsePos(height, 0)
  <2>1. sparse_start_level \in Nat /\ height \in Nat /\ sparse_start_level <= height
    BY DEF HandoverInv, SlotsInv, TypeInv, TypeOK
  <2>2. /\ height - sparse_start_level \in 0 .. height - sparse_start_level
        /\ sparse_start_level + (height - sparse_start_level) = height
    BY <2>1
  <2>3. QED
    BY <2>2 DEF SparseStarts
<1>5. QED
  BY <1>3, <1>4 DEF b

(* The labels getNode reads of a sparse node, however many it is taken to have,
   are those from its first to its last. *)
SparseNodeRead(path, pos, size, end, k, r, e) ==
  /\ Len(path) \in sparse_start_level .. height - 1
  /\ At(path, Len(path), k) /\ r \in louds_bits[Len(path)] /\ NodeOf(Len(path), r) = k
  /\ NodeEnd(Len(path), r, e)
  /\ pos = SparsePos(Len(path), r) /\ end - pos = e - r /\ e - r \in Nat
  /\ size \in Int /\ e - r <= size
  /\ size = e - r \/ Len(path) = height - 1

(* Select and the distance find them. *)
LEMMA SparseNodeIsRead ==
  ASSUME Usable, NEW path \in InnerPaths, sparse_start_level <= Len(path),
         NEW pos, pos = FirstLabelPos(NodeNumber(path)), NEW size \in NodeSizes(pos),
         NEW end, end = Min({pos + size, louds_sparse.child_indicator_bits.num_bits})
  PROVE  \E k, r, e : SparseNodeRead(path, pos, size, end, k, r, e)
<1>1. /\ DenseInv /\ HandoverInv /\ louds_sparse = MakeLoudsSparse /\ pc = "done"
      /\ path \in Seq(Label) /\ Len(path) \in 0 .. height - 1 /\ sparse_start_level \in Nat
      /\ height \in Nat
  BY UsableIs, PathNode
<1> DEFINE l == Len(path)
<1>2. PICK k \in 0 .. node_counts[l] - 1 : At(path, l, k) /\ NodeNumber(path) = NodesAbove(l) + k
  BY PathNode
<1>3. l \in sparse_start_level .. height - 1 /\ l \in 0 .. height - 1
  BY <1>1
<1> HIDE DEF l
<1>4. PICK r \in louds_bits[l] : r \in Items(l) /\ NodeOf(l, r) = k
  BY <1>1, <1>2, <1>3, NodeStarts
<1>5. PICK e : NodeEnd(l, r, e)
  BY <1>1, <1>3, NodeEnds
<1>6. pos = SparsePos(l, r)
  <2>1. FirstLabelPos(NodesAbove(l) + NodeOf(l, r)) = SparsePos(l, r)
    BY <1>1, <1>3, SparseNode
  <2>2. QED
    BY <1>2, <1>4, <2>1
<1> DEFINE E == SparsePos(l, e)
           n == louds_sparse.child_indicator_bits.num_bits
<1>7. /\ pos \in Nat /\ E \in Int /\ E - pos = e - r /\ pos < E
      /\ e - r \in Nat /\ e \in Int /\ r \in Int
  <2>1. /\ GetNumItems(l) \in Nat /\ e \in r + 1 .. GetNumItems(l) /\ r \in Nat
    BY <1>1, <1>3, <1>4, <1>5, LevelIs DEF NodeEnd, Items
  <2>2. BVP!BitvectorOK(louds_sparse.louds_bits) /\ HoldsLevels(louds_sparse.louds_bits, louds_bits)
        /\ louds_sparse.louds_bits.num_bits = SparsePos(height, 0)
    BY <1>1, StartBitsAre
  <2>3. pos \in Nat /\ E \in Int /\ E - pos = e - r /\ pos < E
    BY <1>1, <1>3, <1>5, <1>6, <2>2, NodeApart
  <2>4. QED
    BY <2>1, <2>3
<1>8. n = SparsePos(height, 0)
  BY <1>1, ChildBitsEnd
<1>9. E <= n /\ n \in Int /\ (l = height - 1 /\ e = GetNumItems(l) => E = n)
  <2>1. e - 1 \in Items(l) /\ GetNumItems(l) \in Nat
    <3>1. GetNumItems(l) \in Nat /\ e \in r + 1 .. GetNumItems(l) /\ r \in Nat
      BY <1>1, <1>3, <1>4, <1>5, LevelIs DEF NodeEnd, Items
    <3>2. QED
      BY <3>1 DEF Items
  <2>2. SparsePos(l, e - 1) \in 0 .. n - 1
    BY <1>1, <1>3, <2>1, SparseChildIs
  <2>3. /\ SparsePos(l, e - 1) = SparsePos(l, 0) + (e - 1) /\ E = SparsePos(l, 0) + e
        /\ SparsePos(l, 0) \in Int /\ SparsePos(l + 1, 0) = SparsePos(l, GetNumItems(l))
    BY <1>1, <1>3, <1>7, SparseLevelIs
  <2>4. n \in Int
    <3>1. height - 1 \in sparse_start_level .. height - 1 /\ (height - 1) + 1 = height
      BY <1>1, <1>3
    <3>2. SparsePos((height - 1) + 1, 0) = SparsePos(height - 1, GetNumItems(height - 1))
          /\ SparsePos(height - 1, GetNumItems(height - 1)) = SparsePos(height - 1, 0) + GetNumItems(height - 1)
          /\ SparsePos(height - 1, 0) \in Int /\ GetNumItems(height - 1) \in Nat
      BY <1>1, <3>1, SparseLevelIs
    <3>3. QED
      BY <1>8, <3>1, <3>2
  <2>5. E <= n
    BY <1>7, <2>2, <2>3, <2>4
  <2>6. ASSUME l = height - 1, e = GetNumItems(l) PROVE E = n
    <3>1. l + 1 = height
      BY <1>1, <2>6
    <3>2. QED
      BY <1>8, <2>3, <2>6, <3>1
  <2>7. QED
    BY <2>4, <2>5, <2>6
<1>10. \/ size = e - r
       \/ l = height - 1 /\ e = GetNumItems(l) /\ size \in Nat /\ size >= e - r
  BY <1>1, <1>3, <1>5, <1>6, WidthsAssumption, NodeSizeIs
<1>11. size \in Int /\ e - r <= size /\ (size = e - r \/ l = height - 1)
  BY <1>7, <1>10
<1> HIDE DEF n, E
<1>12. end = E
  <2>1. end = Min({pos + size, n})
    BY DEF n
  <2>2. E \in {pos + size, n} /\ \A y \in {pos + size, n} : E <= y
    BY <1>7, <1>9, <1>10, <1>11
  <2>3. \A x \in {pos + size, n} : (\A y \in {pos + size, n} : x <= y) => x = E
    <3>1. pos + size \in Int
      BY <1>7, <1>11
    <3>2. QED
      BY <1>7, <1>9, <2>2, <3>1
  <2> DEFINE T == {pos + size, n}
  <2> HIDE DEF T
  <2>4. E \in T /\ (\A y \in T : E <= y) /\ \A x \in T : (\A y \in T : x <= y) => x = E
    BY <2>2, <2>3, Zenon DEF T
  <2>5. Min(T) = E
    BY <2>4 DEF Min
  <2>6. QED
    BY <2>1, <2>5 DEF T
<1>13. SparseNodeRead(path, pos, size, end, k, r, e)
  BY <1>2, <1>3, <1>4, <1>5, <1>6, <1>7, <1>11, <1>12 DEF SparseNodeRead, l
<1>14. QED
  BY <1>13

(* A function on the first numbers is a list. *)
LEMMA ListOfLength ==
  ASSUME NEW T, NEW n \in Nat, NEW s \in [1 .. n -> T]
  PROVE  s \in Seq(T) /\ Len(s) = n /\ DOMAIN s = 1 .. n
  OBVIOUS

(* What getNode reads at one position of a sparse node. *)
SparseItemShown(l, k, x, p) ==
  /\ NodeItem(l, k, LV!LabelAt(louds_sparse.labels, x), p)
  /\ LV!LabelAt(louds_sparse.labels, x) = labels[l][p + 1] /\ labels[l][p + 1] \in Label
  /\ SparseResult(x) \in Nat
  /\ input.include_dense => SparseResult(x) = ItemResult(l, p)

(* It is an item of the node. *)
LEMMA SparseItemIs ==
  ASSUME Usable, NEW path \in InnerPaths, NEW pos, NEW size, NEW end, NEW k, NEW r, NEW e,
         SparseNodeRead(path, pos, size, end, k, r, e),
         NEW i \in 1 .. e - r, NEW p, p = r + i - 1
  PROVE  p \in Items(Len(path)) /\ SparseItemShown(Len(path), k, pos + i - 1, p)
<1>1. /\ Complete /\ DenseInv /\ HandoverInv /\ louds_sparse = MakeLoudsSparse /\ pc = "done"
      /\ BuiltInv /\ sparse_start_level \in Nat /\ height \in Nat
  BY UsableIs
<1> DEFINE l == Len(path)
           x == pos + i - 1
           lv == louds_sparse.labels
<1>2. /\ l \in sparse_start_level .. height - 1 /\ At(path, l, k) /\ r \in louds_bits[l]
      /\ NodeOf(l, r) = k /\ NodeEnd(l, r, e) /\ pos = SparsePos(l, r)
  BY DEF SparseNodeRead
<1>3. /\ l \in 0 .. height - 1 /\ GetNumItems(l) \in Nat /\ SparsePos(l, 0) \in Int
      /\ \A q \in Int : SparsePos(l, q) = SparsePos(l, 0) + q
  BY <1>1, <1>2, SparseLevelIs
<1> HIDE DEF l
<1>4. r \in Nat /\ e \in r + 1 .. GetNumItems(l)
  <2>1. r \in Items(l)
    BY <1>1, <1>2, <1>3, LevelIs
  <2>2. e \in r + 1 .. GetNumItems(l)
    BY <1>2 DEF NodeEnd
  <2>3. QED
    BY <1>3, <2>1, <2>2 DEF Items
<1>5. p \in Items(l) /\ p \in Int /\ r <= p /\ p < e
  <2>1. r \in Int /\ e \in Int /\ e <= GetNumItems(l) /\ i \in Int /\ 1 <= i /\ i <= e - r
    BY <1>3, <1>4
  <2>2. p \in Int /\ r <= p /\ p < e
    BY <2>1
  <2>3. p \in 0 .. GetNumItems(l) - 1
    BY <1>3, <1>4, <2>1, <2>2
  <2>4. QED
    BY <2>2, <2>3 DEF Items
<1>6. x = SparsePos(l, p)
  <2>1. SparsePos(l, p) = SparsePos(l, 0) + p /\ SparsePos(l, r) = SparsePos(l, 0) + r
    BY <1>3, <1>4, <1>5
  <2>2. i \in Int /\ r \in Int /\ SparsePos(l, 0) \in Int
    BY <1>3, <1>4
  <2>3. QED
    BY <1>2, <2>1, <2>2
<1>7. lv.labels = louds_sparse.labels.labels
  OBVIOUS
<1> HIDE DEF x, lv
<1>8. LV!LabelAt(lv, x) = labels[l][p + 1] /\ labels[l][p + 1] \in Label
  <2>1. LV!LabelAt(lv, SparsePos(l, p)) = labels[l][p + 1]
    BY <1>1, <1>2, <1>5, <1>7, SparseLabelIs
  <2>2. labels[l][p + 1] \in Label
    BY <1>1, <1>3, <1>5, LevelIs
  <2>3. QED
    BY <1>6, <2>1, <2>2
<1>9. NodeItem(l, k, LV!LabelAt(lv, x), p)
  <2>1. NodeOf(l, p) = NodeOf(l, r)
    BY <1>1, <1>2, <1>3, <1>5, NodeItemsAre
  <2>2. QED
    BY <1>2, <1>5, <1>8, <2>1 DEF NodeItem
<1>10. /\ HasSparseChild(x) <=> p \in child_indicator_bits[l]
       /\ SparseChild(x) = NodesAbove(l + 1) - 1 + Cardinality(Below(child_indicator_bits[l], p + 1))
  BY <1>1, <1>2, <1>5, <1>6, SparseChildIs
<1>11. ASSUME p \in child_indicator_bits[l]
       PROVE  /\ SparseChild(x) = NodesAbove(l + 1) + Cardinality(Below(child_indicator_bits[l], p))
              /\ SparseChild(x) \in Nat
  <2>1. SparseChild(x) = NodesAbove(l + 1) + Cardinality(Below(child_indicator_bits[l], p))
    BY <1>1, <1>3, <1>10, <1>11, NextChild
  <2> DEFINE a == Append(path, labels[l][p + 1])
  <2>2. /\ a \in InnerPaths
        /\ NodeNumber(a) = NodesAbove(l + 1) + Cardinality(Below(child_indicator_bits[l], p))
    BY <1>1, <1>2, <1>3, <1>8, <1>9, <1>11, ChildPath
  <2>3. NodeNumber(a) \in Nat
    BY <2>2, PathNode
  <2>4. QED
    BY <2>1, <2>2, <2>3
<1>12. ASSUME p \notin child_indicator_bits[l], input.include_dense
       PROVE  SparseValue(x) = LeafEntry(l, p)[2]
  <2>1. p \in Leaves(l)
    BY <1>1, <1>3, <1>5, <1>12, LeafIsItem
  <2>2. QED
    BY <1>1, <1>2, <1>6, <1>12, <2>1, SparseValueIs
<1>13. input.include_dense => SparseResult(x) = ItemResult(l, p)
  BY <1>10, <1>11, <1>12, Zenon DEF SparseResult, ItemResult
<1>14. SparseResult(x) \in Nat
  <2>1. SparseValue(x) \in Nat
    BY ValuesRead
  <2>2. HasSparseChild(x) => SparseChild(x) \in Nat
    BY <1>10, <1>11
  <2>3. QED
    BY <2>1, <2>2 DEF SparseResult, NodeTag, ValueTag
<1>15. SparseItemShown(l, k, x, p)
  BY <1>8, <1>9, <1>13, <1>14 DEF SparseItemShown, lv
<1>16. QED
  BY <1>5, <1>15 DEF l, x

(* The node it is has one branch when it is taken to have one label. *)
LEMMA SparseOneBranch ==
  ASSUME Usable, NEW path \in InnerPaths, sparse_start_level <= Len(path),
         NEW pos, pos = FirstLabelPos(NodeNumber(path)), 1 \in NodeSizes(pos)
  PROVE  LET c == LV!LabelAt(louds_sparse.labels, pos)
         IN  c \in Label /\ NextPaths(path) = {Append(path, c)}
<1>1. /\ Complete /\ DenseInv /\ HandoverInv /\ sparse_start_level \in Nat /\ height \in Nat
  BY UsableIs
<1> DEFINE end == Min({pos + 1, louds_sparse.child_indicator_bits.num_bits})
           l == Len(path)
           c == LV!LabelAt(louds_sparse.labels, pos)
<1>2. PICK k, r, e : SparseNodeRead(path, pos, 1, end, k, r, e)
  BY SparseNodeIsRead
<1>3. /\ l \in sparse_start_level .. height - 1 /\ At(path, l, k) /\ r \in louds_bits[l]
      /\ NodeOf(l, r) = k /\ NodeEnd(l, r, e) /\ pos = SparsePos(l, r) /\ e - r <= 1
  BY <1>2 DEF SparseNodeRead
<1> HIDE DEF end
<1>4. /\ l \in 0 .. height - 1 /\ GetNumItems(l) \in Nat /\ SparsePos(l, 0) \in Int
      /\ \A q \in Int : SparsePos(l, q) = SparsePos(l, 0) + q
  BY <1>1, <1>3, SparseLevelIs
<1>5. r \in Nat /\ e = r + 1
  <2>1. r \in Items(l)
    BY <1>1, <1>3, <1>4, LevelIs
  <2>2. e \in r + 1 .. GetNumItems(l)
    BY <1>3 DEF NodeEnd
  <2>3. QED
    BY <1>3, <1>4, <2>1, <2>2 DEF Items
<1>6. r \in Items(l) /\ SparseItemShown(l, k, pos, r)
  <2> DEFINE i == 1
             p == r + i - 1
             x == pos + i - 1
  <2>1. i \in 1 .. e - r /\ p = r /\ x = pos
    BY <1>3, <1>4, <1>5
  <2>2. p \in Items(Len(path)) /\ SparseItemShown(Len(path), k, x, p)
    BY <1>2, <2>1, SparseItemIs
  <2>3. QED
    BY <2>1, <2>2
<1>7. c \in Label /\ NodeItem(l, k, c, r)
  BY <1>6 DEF SparseItemShown
<1>8. ASSUME NEW b \in Label, NEW p, NodeItem(l, k, b, p) PROVE b = c
  <2>1. p \in Items(l) /\ NodeOf(l, p) = NodeOf(l, r)
    BY <1>3, <1>8 DEF NodeItem
  <2>2. r <= p /\ p < e
    BY <1>1, <1>3, <1>4, <2>1, NodeItemsAre
  <2>3. p \in Int
    BY <1>4, <2>1 DEF Items
  <2>4. p = r
    BY <1>5, <2>2, <2>3
  <2>5. QED
    BY <1>7, <1>8, <2>4 DEF NodeItem
<1>9. NextPaths(path) = {Append(path, c)}
  <2> HIDE DEF c
  <2>1. At(path, l, k)
    BY <1>3
  <2> HIDE DEF l
  <2>2. QED
    BY <1>1, <1>4, <1>7, <1>8, <2>1, OneItemOneBranch
<1>10. QED
  BY <1>7, <1>9

(* getNode goes on at the child that the one label of its node leads to, and there
   is no other branch. *)
CollapsesTo(c) ==
  LET path == Append(call.key \o call.prefix, c)
  IN  /\ c \in Label /\ path \in InnerPaths /\ Collapse(c, NodeNumber(path))
      /\ NextPaths(call.key \o call.prefix) = {path}

(* getNode at a dense node. *)
LEMMA DenseNodeDoes ==
  ASSUME NoTerminatorAlone, Usable, CallOK(call), GetDenseNode
  PROVE  /\ call.op = "getNode" /\ call.at = "dense"
         /\ call.key \o call.prefix \in InnerPaths /\ call.node = NodeNumber(call.key \o call.prefix)
         /\ Len(call.key \o call.prefix) < sparse_start_level
         /\ \/ \E c : CollapsesTo(c)
            \/ LET ls == InOrder(DenseLabels(call.node))
               IN  StopsWith(ls, [i \in 1 .. Len(ls) |->
                                    DenseResult(call.node * Fanout + ls[i])])
<1>1. call.op = "getNode" /\ call.at = "dense" /\ call.at # "answered"
  BY DEF GetDenseNode, Running
<1> DEFINE path == call.key \o call.prefix
           c == LabelOfWord(call.node)
           only == call.node * Fanout + c
<1>2. /\ path \in InnerPaths /\ call.node = NodeNumber(path)
      /\ Len(path) = call.level /\ call.level < sparse_start_level
  BY <1>1 DEF CallOK, RunningOK, CallPath, NodeAt
<1>3. \/ Cardinality(DenseLabels(call.node)) = 1 /\ HasDenseChild(only) /\ Collapse(c, DenseChild(only))
      \/ LET ls == InOrder(DenseLabels(call.node))
         IN  StopsWith(ls, [i \in 1 .. Len(ls) |-> DenseResult(call.node * Fanout + ls[i])])
  BY DEF GetDenseNode, StopsWith, DenseResult
<1>4. CASE Cardinality(DenseLabels(call.node)) = 1 /\ HasDenseChild(only)
           /\ Collapse(c, DenseChild(only))
  <2>1. c \in Label
    BY <1>4, LabelOfWordIs
  <2>2. only = NodeNumber(path) * Fanout + c
    BY <1>2
  <2>3. Len(path) < sparse_start_level
    BY <1>2
  <2>4. HasDenseChild(only) /\ Collapse(c, DenseChild(only))
    BY <1>4
  <2> HIDE DEF path, c, only
  <2>5. /\ HasDenseChild(only) => HasLabel(only)
        /\ Tells(path, c, HasLabel(only), HasDenseChild(only), DenseChild(only), DenseValue(only))
    BY <1>2, <2>1, <2>2, <2>3, DenseTells
  <2>6. Append(path, c) \in InnerPaths /\ DenseChild(only) = NodeNumber(Append(path, c))
    BY <2>4, <2>5 DEF Tells
  <2>7. path = call.key \o call.prefix
    BY DEF path
  <2>8. NextPaths(path) = {Append(path, c)}
    <3>1. Cardinality(DenseLabels(NodeNumber(path))) = 1
      BY <1>2, <1>4
    <3>2. HasLabel(NodeNumber(path) * Fanout + c)
      BY <2>2, <2>4, <2>5
    <3>3. QED
      BY <1>2, <2>1, <2>3, <3>1, <3>2, DenseOneBranch
  <2>9. CollapsesTo(c)
    BY <2>1, <2>4, <2>6, <2>7, <2>8 DEF CollapsesTo
  <2>10. QED
    BY <1>1, <1>2, <2>3, <2>7, <2>9
<1>5. QED
  BY <1>1, <1>2, <1>3, <1>4

(* getNode at a sparse node. *)
LEMMA SparseNodeDoes ==
  ASSUME NoTerminatorAlone, Usable, CallOK(call), GetSparseNode
  PROVE  /\ call.op = "getNode" /\ call.at = "sparse"
         /\ call.key \o call.prefix \in InnerPaths /\ call.node = NodeNumber(call.key \o call.prefix)
         /\ sparse_start_level <= Len(call.key \o call.prefix)
         /\ \/ \E c : CollapsesTo(c)
            \/ \E pos, size, end, ls, rs : SparseStop(pos, size, end, ls, rs) /\ StopsWith(ls, rs)
<1>1. call.op = "getNode" /\ call.at = "sparse" /\ call.at # "answered"
  BY DEF GetSparseNode, Running
<1> DEFINE path == call.key \o call.prefix
           pos == FirstLabelPos(call.node)
           c == LV!LabelAt(louds_sparse.labels, pos)
<1>2. /\ path \in InnerPaths /\ call.node = NodeNumber(path)
      /\ Len(path) = call.level /\ sparse_start_level <= call.level
  BY <1>1 DEF CallOK, RunningOK, CallPath, NodeAt
<1>3. \/ HasSparseChild(pos) /\ 1 \in NodeSizes(pos) /\ Collapse(c, SparseChild(pos))
      \/ \E x, size, end, ls, rs : SparseStop(x, size, end, ls, rs) /\ StopsWith(ls, rs)
  <2>1. PICK size \in NodeSizes(pos) :
          IF GoesOnAlone(pos, size)
          THEN Collapse(c, SparseChild(pos))
          ELSE LET end == Min({pos + size, louds_sparse.child_indicator_bits.num_bits})
               IN  StopsWith([i \in 1 .. end - pos |-> LV!LabelAt(louds_sparse.labels, pos + i - 1)],
                             [i \in 1 .. end - pos |-> SparseResult(pos + i - 1)])
    BY DEF GetSparseNode, StopsWith, SparseResult
  <2> DEFINE end == Min({pos + size, louds_sparse.child_indicator_bits.num_bits})
             ls == [i \in 1 .. end - pos |-> LV!LabelAt(louds_sparse.labels, pos + i - 1)]
             rs == [i \in 1 .. end - pos |-> SparseResult(pos + i - 1)]
  <2>2. CASE GoesOnAlone(pos, size)
    <3>1. Collapse(c, SparseChild(pos))
      BY <2>1, <2>2
    <3>2. HasSparseChild(pos) /\ 1 \in NodeSizes(pos)
      BY <2>1, <2>2 DEF GoesOnAlone
    <3>3. QED
      BY <3>1, <3>2
  <2>3. CASE ~GoesOnAlone(pos, size)
    <3>1. StopsWith(ls, rs)
      BY <2>1, <2>3
    <3>2. SparseStop(pos, size, end, ls, rs)
      BY <2>3 DEF SparseStop
    <3>3. QED
      BY <3>1, <3>2
  <2>4. QED
    BY <2>2, <2>3
<1>4. CASE HasSparseChild(pos) /\ 1 \in NodeSizes(pos) /\ Collapse(c, SparseChild(pos))
  <2> DEFINE l == Len(path)
  <2>1. /\ Complete /\ DenseInv /\ HandoverInv /\ louds_sparse = MakeLoudsSparse
        /\ path \in Seq(Label) /\ l \in 0 .. height - 1 /\ sparse_start_level \in Nat
        /\ height \in Nat
    BY <1>2, UsableIs, PathNode
  <2>2. PICK k \in 0 .. node_counts[l] - 1 : At(path, l, k) /\ NodeNumber(path) = NodesAbove(l) + k
    BY <1>2, PathNode
  <2>3. l \in sparse_start_level .. height - 1
    BY <1>2, <2>1
  <2>4. call.node = NodesAbove(l) + k
    BY <1>2, <2>2
  <2> HIDE DEF path, l
  <2>5. PICK r \in louds_bits[l] : r \in Items(l) /\ NodeOf(l, r) = k
    BY <2>1, <2>2, NodeStarts
  <2>6. pos = SparsePos(l, r)
    <3>1. FirstLabelPos(NodesAbove(l) + NodeOf(l, r)) = SparsePos(l, r)
      BY <2>1, <2>3, <2>5, SparseNode
    <3>2. QED
      BY <2>4, <2>5, <3>1
  <2>7. c = labels[l][r + 1]
    <3> DEFINE lv == louds_sparse.labels
    <3>1. lv.labels = louds_sparse.labels.labels
      OBVIOUS
    <3> HIDE DEF lv
    <3>2. LV!LabelAt(lv, SparsePos(l, r)) = labels[l][r + 1]
      BY <2>1, <2>3, <2>5, <3>1, SparseLabelIs
    <3>3. QED
      BY <2>6, <3>2 DEF lv
  <2>8. c \in Label
    <3>1. labels[l][r + 1] \in Label
      BY <2>1, <2>5, LevelIs
    <3>2. QED
      BY <2>7, <3>1
  <2> HIDE DEF c, pos
  <2>9. /\ r \in child_indicator_bits[l]
        /\ SparseChild(pos) = NodesAbove(l + 1) - 1 + Cardinality(Below(child_indicator_bits[l], r + 1))
    <3>1. /\ HasSparseChild(SparsePos(l, r)) <=> r \in child_indicator_bits[l]
          /\ SparseChild(SparsePos(l, r))
               = NodesAbove(l + 1) - 1 + Cardinality(Below(child_indicator_bits[l], r + 1))
      BY <2>1, <2>3, <2>5, SparseChildIs
    <3>2. QED
      BY <1>4, <2>6, <3>1
  <2>10. SparseChild(pos) = NodesAbove(l + 1) + Cardinality(Below(child_indicator_bits[l], r))
    BY <2>1, <2>9, NextChild
  <2>11. NodeItem(l, k, c, r)
    BY <2>5, <2>7 DEF NodeItem
  <2>12. /\ Append(path, c) \in InnerPaths
         /\ NodeNumber(Append(path, c))
              = NodesAbove(l + 1) + Cardinality(Below(child_indicator_bits[l], r))
    BY <2>1, <2>2, <2>8, <2>9, <2>11, ChildPath
  <2>13. SparseChild(pos) = NodeNumber(Append(path, c))
    BY <2>10, <2>12
  <2>14. Collapse(c, SparseChild(pos)) /\ path = call.key \o call.prefix
    BY <1>4 DEF path
  <2>15. NextPaths(path) = {Append(path, c)}
    <3>1. /\ path \in InnerPaths /\ sparse_start_level <= Len(path)
          /\ pos = FirstLabelPos(NodeNumber(path)) /\ 1 \in NodeSizes(pos)
          /\ c = LV!LabelAt(louds_sparse.labels, pos)
      BY <1>2, <1>4 DEF path, pos, c
    <3>2. QED
      BY <3>1, SparseOneBranch
  <2>16. CollapsesTo(c)
    BY <2>8, <2>12, <2>13, <2>14, <2>15 DEF CollapsesTo
  <2>17. QED
    BY <1>1, <1>2, <2>14, <2>16
<1>5. QED
  BY <1>1, <1>2, <1>3, <1>4

(* getNode keeps its call right. *)
LEMMA GetNodeOK ==
  ASSUME NoTerminatorAlone, Usable, CallOK(call), GetDenseNode \/ GetSparseNode
  PROVE  CallOK(call')
<1>1. /\ call.op = "getNode" /\ call.at # "answered"
      /\ (\E c : CollapsesTo(c)) \/ \E ls, rs : StopsWith(ls, rs)
  BY DenseNodeDoes, SparseNodeDoes
<1>2. CASE \E c : CollapsesTo(c)
  BY <1>1, <1>2, CollapseOK DEF CollapsesTo
<1>3. CASE \E ls, rs : StopsWith(ls, rs)
  BY <1>1, <1>3, GetNodeAnswers
<1>4. QED
  BY <1>1, <1>2, <1>3

(* getNode shows a sparse node. *)
LEMMA SparseNodeShown ==
  ASSUME Usable, NEW path \in InnerPaths, sparse_start_level <= Len(path),
         call.node = NodeNumber(path),
         NEW pos, NEW size, NEW end, NEW ls, NEW rs, SparseStop(pos, size, end, ls, rs)
  PROVE  /\ input.include_dense => Shows(path, ls, rs)
         /\ ls \in Seq(Label) /\ rs \in Seq(Nat) /\ Len(ls) = end - pos
         /\ 1 \in DOMAIN ls => rs[1] = SparseResult(pos)
<1>0. /\ pos = FirstLabelPos(NodeNumber(path)) /\ size \in NodeSizes(pos)
      /\ end = Min({pos + size, louds_sparse.child_indicator_bits.num_bits})
      /\ ls = [i \in 1 .. end - pos |-> LV!LabelAt(louds_sparse.labels, pos + i - 1)]
      /\ rs = [i \in 1 .. end - pos |-> SparseResult(pos + i - 1)]
  BY DEF SparseStop
<1>1. /\ Complete /\ DenseInv /\ HandoverInv /\ louds_sparse = MakeLoudsSparse /\ pc = "done"
      /\ BuiltInv /\ sparse_start_level \in Nat /\ height \in Nat
  BY UsableIs
<1>2. PICK k, r, e : SparseNodeRead(path, pos, size, end, k, r, e)
  BY <1>0, SparseNodeIsRead
<1> DEFINE l == Len(path)
           n == e - r
<1>3. /\ l \in sparse_start_level .. height - 1 /\ At(path, l, k) /\ r \in louds_bits[l]
      /\ NodeOf(l, r) = k /\ NodeEnd(l, r, e) /\ pos = SparsePos(l, r) /\ end - pos = n
      /\ n \in Nat
  BY <1>2 DEF SparseNodeRead
<1>4. /\ l \in 0 .. height - 1 /\ GetNumItems(l) \in Nat /\ SparsePos(l, 0) \in Int
      /\ SparsePos(l, r) = SparsePos(l, 0) + r
  <2>1. r \in Int
    <3>1. l \in 0 .. height - 1 /\ GetNumItems(l) \in Nat
      BY <1>1, <1>3, SparseLevelIs
    <3>2. r \in Items(l)
      BY <1>1, <1>3, <3>1, LevelIs
    <3>3. QED
      BY <3>1, <3>2 DEF Items
  <2>2. QED
    BY <1>1, <1>3, <2>1, SparseLevelIs
<1>5. r \in Nat /\ e \in r + 1 .. GetNumItems(l)
  <2>1. r \in Items(l)
    BY <1>1, <1>3, <1>4, LevelIs
  <2>2. e \in r + 1 .. GetNumItems(l)
    BY <1>3 DEF NodeEnd
  <2>3. QED
    BY <1>4, <2>1, <2>2 DEF Items
<1>6. ASSUME NEW i \in 1 .. n
      PROVE  \E p \in Items(l) : /\ p = r + i - 1 /\ NodeItem(l, k, ls[i], p) /\ ls[i] \in Label
                                 /\ ls[i] = labels[l][p + 1] /\ rs[i] \in Nat
                                 /\ rs[i] = SparseResult(pos + i - 1)
                                 /\ input.include_dense => rs[i] = ItemResult(l, p)
  <2> DEFINE p == r + i - 1
             x == pos + i - 1
  <2>1. p \in Items(Len(path)) /\ SparseItemShown(Len(path), k, x, p)
    BY <1>2, SparseItemIs
  <2>2. ls[i] = LV!LabelAt(louds_sparse.labels, x) /\ rs[i] = SparseResult(x)
    BY <1>0, <1>3
  <2>3. p = r + i - 1 /\ x = pos + i - 1
    OBVIOUS
  <2> HIDE DEF p, x
  <2>4. QED
    BY <2>1, <2>2, <2>3 DEF SparseItemShown
<1> HIDE DEF l
<1>7. ls = [i \in 1 .. n |-> LV!LabelAt(louds_sparse.labels, pos + i - 1)]
  BY <1>0, <1>3
<1>8. ls \in Seq(Label) /\ Len(ls) = n /\ DOMAIN ls = 1 .. n /\ rs \in Seq(Nat)
  <2>1. ls \in [1 .. n -> Label]
    BY <1>6, <1>7
  <2>4. rs \in [1 .. n -> Nat]
    <3>1. rs = [i \in 1 .. n |-> SparseResult(pos + i - 1)]
      BY <1>0, <1>3
    <3>2. \A i \in 1 .. n : SparseResult(pos + i - 1) \in Nat
      BY <1>6
    <3>3. QED
      BY <3>1, <3>2
  <2>2. n \in Nat
    BY <1>3
  <2> HIDE DEF n
  <2>3. QED
    BY <2>1, <2>2, <2>4, ListOfLength
<1>9. ASSUME NEW c \in Label, NEW p, NodeItem(l, k, c, p) PROVE \E i \in DOMAIN ls : ls[i] = c
  <2>1. p \in Items(l) /\ NodeOf(l, p) = NodeOf(l, r) /\ labels[l][p + 1] = c
    BY <1>3, <1>9 DEF NodeItem
  <2>2. r <= p /\ p < e /\ p \in Int
    <3>1. r <= p /\ p < e
      BY <1>1, <1>3, <1>4, <2>1, NodeItemsAre
    <3>2. p \in Int
      BY <1>4, <2>1 DEF Items
    <3>3. QED
      BY <3>1, <3>2
  <2> DEFINE i == p - r + 1
  <2>3. i \in 1 .. n /\ p = r + i - 1
    BY <1>5, <2>2
  <2> HIDE DEF i
  <2>4. ls[i] = labels[l][p + 1]
    BY <1>6, <2>3
  <2>5. QED
    BY <1>8, <2>1, <2>3, <2>4
<1>10. ASSUME NEW i \in 2 .. n PROVE ls[i - 1] < ls[i]
  <2> DEFINE p == r + (i - 1) - 1
             q == r + i - 1
             j == i - 1
  <2>1. i \in 1 .. n /\ j \in 1 .. n /\ p < q /\ q = r + i - 1 /\ p = r + j - 1
    BY <1>3, <1>5
  <2> HIDE DEF p, q, j
  <2>2. /\ p \in Items(l) /\ NodeItem(l, k, ls[j], p) /\ ls[j] = labels[l][p + 1]
        /\ q \in Items(l) /\ NodeItem(l, k, ls[i], q) /\ ls[i] = labels[l][q + 1]
    BY <1>6, <2>1
  <2>3. NodeOf(l, p) = NodeOf(l, q)
    BY <2>2 DEF NodeItem
  <2>4. labels[l][p + 1] < labels[l][q + 1]
    BY <1>1, <1>4, <2>1, <2>2, <2>3, NodesInOrder
  <2>5. QED
    BY <2>2, <2>4 DEF j
<1>11. ASSUME input.include_dense PROVE Lists(l, k, ls, rs)
  <2>1. \A i \in DOMAIN ls :
          ls[i] \in Label /\ \E p : NodeItem(l, k, ls[i], p) /\ rs[i] = ItemResult(l, p)
    BY <1>6, <1>8, <1>11
  <2>2. QED
    BY <1>8, <1>9, <1>10, <2>1 DEF Lists
<1>12. At(path, l, k)
  BY <1>3
<1>13. input.include_dense => Shows(path, ls, rs)
  BY <1>1, <1>4, <1>11, <1>12, ListsShow
<1>14. 1 \in DOMAIN ls => rs[1] = SparseResult(pos)
  <2>1. ASSUME 1 \in 1 .. n PROVE rs[1] = SparseResult(pos + 1 - 1)
    BY <1>6, <2>1
  <2>2. pos \in Int
    BY <1>3, <1>4, <1>5
  <2>3. pos + 1 - 1 = pos
    BY <2>2
  <2>4. QED
    BY <1>8, <2>1, <2>3
<1>15. QED
  BY <1>3, <1>8, <1>13, <1>14

(* When getNode stops at a sparse node, the node does not have one label that
   leads to a child. *)
LEMMA SparseNodeStops ==
  ASSUME Usable, NEW path \in InnerPaths, sparse_start_level <= Len(path),
         call.node = NodeNumber(path),
         NEW pos, NEW size, NEW end, NEW ls, NEW rs, SparseStop(pos, size, end, ls, rs),
         end - pos = 1
  PROVE  ~IsNodeTag(SparseResult(pos))
<1>0. /\ pos = FirstLabelPos(NodeNumber(path)) /\ size \in NodeSizes(pos)
      /\ end = Min({pos + size, louds_sparse.child_indicator_bits.num_bits})
      /\ ~(size = 1 /\ HasSparseChild(pos))
  BY DEF SparseStop, GoesOnAlone
<1>1. /\ Complete /\ DenseInv /\ HandoverInv /\ louds_sparse = MakeLoudsSparse /\ height \in Nat
      /\ sparse_start_level \in Nat
  BY UsableIs
<1>2. PICK k, r, e : SparseNodeRead(path, pos, size, end, k, r, e)
  BY <1>0, SparseNodeIsRead
<1> DEFINE l == Len(path)
<1>3. /\ l \in sparse_start_level .. height - 1 /\ r \in louds_bits[l] /\ pos = SparsePos(l, r)
      /\ size = 1 \/ l = height - 1
  BY <1>2 DEF SparseNodeRead
<1> HIDE DEF l
<1>4. l \in 0 .. height - 1 /\ r \in Items(l)
  <2>1. l \in 0 .. height - 1
    BY <1>1, <1>3
  <2>2. QED
    BY <1>1, <1>3, <2>1, LevelIs
<1>5. HasSparseChild(pos) <=> r \in child_indicator_bits[l]
  BY <1>1, <1>3, <1>4, SparseChildIs
<1>6. ~HasSparseChild(pos)
  <2>1. CASE size = 1
    BY <1>0, <2>1
  <2>2. CASE l = height - 1
    <3>1. l + 1 >= height
      BY <1>1, <2>2
    <3>2. child_indicator_bits[l] = {}
      BY <1>1, <1>4, <3>1, LevelIs
    <3>3. QED
      BY <1>5, <3>2
  <2>3. QED
    BY <1>3, <2>1, <2>2
<1>7. SparseResult(pos) = ValueTag(SparseValue(pos)) /\ SparseValue(pos) \in Nat
  <2>1. SparseValue(pos) \in Nat
    BY ValuesRead
  <2>2. QED
    BY <1>6, <2>1 DEF SparseResult
<1>8. QED
  BY <1>7, TagsAre

-------------------------------------------------------------------------------
(* What the calls show *)

(* A call has its type, and getNode has counted the nodes it passed, each of which
   has the branch it went on in and no other; once it is answered it shows the node it stopped at, which in the sparse part does not
   have one label that leads to a child. *)
Typed(c) ==
  /\ IsCall(c)
  /\ c.op \in {"none", "getNode", "amacLookup"} \cup KeyLookups \cup NodeLookups
  /\ c.node \in Nat /\ c.value \in Nat
  /\ c.prefix \in Seq(Label) /\ c.labels \in Seq(Label)
  /\ c.results \in Seq(Nat) /\ c.nodes \in Seq(Nat)

Passed(c) == c.nodes = [i \in 1 .. Len(c.prefix) |-> NodeNumber(c.key \o SubSeq(c.prefix, 1, i))]

OneBranches(c) ==
  \A n \in 0 .. Len(c.prefix) - 1 :
    NextPaths(c.key \o SubSeq(c.prefix, 1, n)) = {c.key \o SubSeq(c.prefix, 1, n + 1)}

NodeShown(c) ==
  /\ input.include_dense => Shows(c.key \o c.prefix, c.labels, c.results)
  /\ Len(c.key \o c.prefix) < sparse_start_level
       \/ (Len(c.labels) = 1 => ~IsNodeTag(c.results[1]))

ShownOK(c) ==
  /\ Typed(c)
  /\ c.op = "getNode" => Passed(c) /\ OneBranches(c) /\ (c.at = "answered" => NodeShown(c))

(* The call of an operation that starts. *)
LEMMA StartShown ==
  ASSUME NEW op \in {"none", "getNode"} \cup KeyLookups \cup NodeLookups, NEW key, NEW l,
         NEW node \in Nat, NEW at, op = "getNode" => at # "answered",
         NEW d, d = NewCall(op, key, l, node, at)
  PROVE  ShownOK(d)
<1>1. /\ IsCall(d) /\ d.op = op /\ d.at = at /\ d.node = node /\ d.value = 0
      /\ d.prefix = << >> /\ d.labels = << >> /\ d.results = << >> /\ d.nodes = << >>
  BY DEF NewCall, IsCall
<1>2. << >> \in Seq(Label) /\ << >> \in Seq(Nat) /\ 0 \in Nat
  OBVIOUS
<1>3. Typed(d)
  BY <1>1, <1>2, Zenon DEF Typed
<1>4. Passed(d)
  <2>1. d.nodes = << >> /\ Len(d.prefix) = 0
    BY <1>1
  <2>2. [i \in 1 .. 0 |-> NodeNumber(d.key \o SubSeq(d.prefix, 1, i))] = << >>
    OBVIOUS
  <2>3. QED
    BY <2>1, <2>2 DEF Passed
<1>5. OneBranches(d)
  <2>1. 0 .. Len(d.prefix) - 1 = {}
    BY <1>1
  <2>2. QED
    BY <2>1, Zenon DEF OneBranches
<1>6. QED
  BY <1>1, <1>3, <1>4, <1>5 DEF ShownOK

(* The answers of amacLookup. *)
LEMMA AmacShown ==
  ASSUME NEW key, NEW n \in Nat, NEW d,
         d \in {MissedAnswer(key), TaggedAnswer(key, NodeTag(n)), TaggedAnswer(key, ValueTag(n))}
  PROVE  ShownOK(d)
<1>1. IsNodeTag(NodeTag(n)) /\ NodeTag(n) \div 4 = n /\ NodeTag(n) \in Nat
      /\ ~IsNodeTag(ValueTag(n)) /\ ValueTag(n) \div 4 = n /\ ValueTag(n) \in Nat
  <2>1. NodeTag(n) \in Nat /\ ValueTag(n) \in Nat
    BY DEF NodeTag, ValueTag
  <2>2. QED
    BY <2>1, TagsAre
<1>2. ASSUME NEW tag \in Nat, NEW v \in Nat, NEW w \in Nat,
             v = (IF IsNodeTag(tag) THEN 0 ELSE tag \div 4),
             w = (IF IsNodeTag(tag) THEN tag \div 4 ELSE 0),
             d = TaggedAnswer(key, tag)
      PROVE  /\ IsCall(d) /\ d.op = "amacLookup" /\ d.value = v /\ d.node = w
             /\ d.prefix = << >> /\ d.labels = << >> /\ d.results = <<tag>> /\ d.nodes = << >>
  <2> DEFINE c0 == NewCall("amacLookup", key, Len(key), 0, "answered")
             c1 == [c0 EXCEPT !.found = TRUE]
             c2 == [c1 EXCEPT !.value = v]
             c3 == [c2 EXCEPT !.node = w]
  <2>1. d = [c3 EXCEPT !.results = <<tag>>]
    BY <1>2 DEF TaggedAnswer
  <2>2. QED
    BY <2>1 DEF NewCall, IsCall
<1>3. CASE d = MissedAnswer(key)
  <2>1. /\ IsCall(d) /\ d.op = "amacLookup" /\ d.value = 0 /\ d.node = 0
        /\ d.prefix = << >> /\ d.labels = << >> /\ d.results = << >> /\ d.nodes = << >>
    BY <1>3 DEF MissedAnswer, NewCall, IsCall
  <2>2. << >> \in Seq(Label) /\ << >> \in Seq(Nat) /\ 0 \in Nat
    OBVIOUS
  <2>3. QED
    BY <2>1, <2>2 DEF ShownOK, Typed
<1>4. ASSUME NEW tag \in Nat, NEW v \in Nat, NEW w \in Nat,
             v = (IF IsNodeTag(tag) THEN 0 ELSE tag \div 4),
             w = (IF IsNodeTag(tag) THEN tag \div 4 ELSE 0),
             d = TaggedAnswer(key, tag)
      PROVE  ShownOK(d)
  <2>1. /\ IsCall(d) /\ d.op = "amacLookup" /\ d.value = v /\ d.node = w
        /\ d.prefix = << >> /\ d.labels = << >> /\ d.results = <<tag>> /\ d.nodes = << >>
    BY <1>2, <1>4
  <2>2. << >> \in Seq(Label) /\ << >> \in Seq(Nat) /\ <<tag>> \in Seq(Nat)
    OBVIOUS
  <2>3. QED
    BY <2>1, <2>2 DEF ShownOK, Typed
<1>5. CASE d = TaggedAnswer(key, NodeTag(n))
  <2>1. 0 = (IF IsNodeTag(NodeTag(n)) THEN 0 ELSE NodeTag(n) \div 4)
    BY <1>1
  <2>2. n = (IF IsNodeTag(NodeTag(n)) THEN NodeTag(n) \div 4 ELSE 0)
    BY <1>1
  <2>3. QED
    BY <1>1, <1>4, <1>5, <2>1, <2>2
<1>6. CASE d = TaggedAnswer(key, ValueTag(n))
  <2>1. n = (IF IsNodeTag(ValueTag(n)) THEN 0 ELSE ValueTag(n) \div 4)
    BY <1>1
  <2>2. 0 = (IF IsNodeTag(ValueTag(n)) THEN ValueTag(n) \div 4 ELSE 0)
    BY <1>1
  <2>3. QED
    BY <1>1, <1>4, <1>6, <2>1, <2>2
<1>7. QED
  BY <1>3, <1>5, <1>6

(* The steps of a lookup change neither the lists of its call, nor its value but
   for one of the values of the trie. *)
KeepsLists(c, d) ==
  /\ IsCall(d) /\ d.op = c.op /\ d.prefix = c.prefix /\ d.labels = c.labels
  /\ d.results = c.results /\ d.nodes = c.nodes

(* They do. *)
LEMMA LookupKeeps ==
  ASSUME Usable, CallOK(call), Typed(call), call.at # "answered", NEW child, NEW v \in Nat,
         Miss \/ FoundNode \/ Hit(v) \/ Descend(child) \/ ToSparse
  PROVE  /\ KeepsLists(call, call') /\ call'.value \in Nat
         /\ call'.node \in Nat \/ call'.at # "answered"
<1>1. IsCall(call) /\ call.node \in Nat /\ call.value \in Nat
  BY DEF Typed
<1> DEFINE d == call'
           K(w) == /\ KeepsLists(call, w) /\ w.value \in Nat
                   /\ w.node \in Nat \/ w.at # "answered"
<1>2. \A f, x, y : \A w : w = [op |-> call.op, key |-> call.key, level |-> y, node |-> x, at |-> call.at,
              found |-> f, value |-> call.value, prefix |-> call.prefix, labels |-> call.labels,
              results |-> call.results, nodes |-> call.nodes] => K(w)
  BY <1>1 DEF KeepsLists, IsCall
<1>3. \A f, at : \A x \in Nat : \A w :
        w = [op |-> call.op, key |-> call.key, level |-> call.level, node |-> call.node, at |-> at,
              found |-> f, value |-> x, prefix |-> call.prefix, labels |-> call.labels,
              results |-> call.results, nodes |-> call.nodes] => K(w)
  BY <1>1 DEF KeepsLists, IsCall
<1> HIDE DEF K
<1>4. CASE Miss \/ FoundNode
  <2>1. PICK f \in BOOLEAN : d = [[call EXCEPT !.found = f] EXCEPT !.at = "answered"]
    BY <1>4 DEF Miss, FoundNode, Answer
  <2> DEFINE e == [call EXCEPT !.found = f]
  <2>2. e = [op |-> call.op, key |-> call.key, level |-> call.level, node |-> call.node, at |-> call.at,
              found |-> f, value |-> call.value, prefix |-> call.prefix, labels |-> call.labels,
              results |-> call.results, nodes |-> call.nodes]
    BY <1>1, FoundChanges
  <2>3. d = [e EXCEPT !.at = "answered"]
    BY <2>1
  <2> HIDE DEF e, d
  <2>4. d = [op |-> call.op, key |-> call.key, level |-> call.level, node |-> call.node, at |-> "answered",
              found |-> f, value |-> call.value, prefix |-> call.prefix, labels |-> call.labels,
              results |-> call.results, nodes |-> call.nodes]
    BY <2>2, <2>3
  <2>5. K(d)
    BY <1>1, <1>3, <2>4, Zenon
  <2>6. QED
    BY <2>5 DEF K, d
<1>5. CASE Hit(v)
  <2>1. PICK f : f = TRUE /\ d = [[call EXCEPT !.found = f, !.value = v] EXCEPT !.at = "answered"]
    BY <1>5, Zenon DEF Hit, Answer
  <2> DEFINE e == [call EXCEPT !.found = f, !.value = v]
  <2>2. e = [op |-> call.op, key |-> call.key, level |-> call.level, node |-> call.node, at |-> call.at,
              found |-> f, value |-> v, prefix |-> call.prefix, labels |-> call.labels,
              results |-> call.results, nodes |-> call.nodes]
    BY <1>1, ValueChanges
  <2>3. d = [e EXCEPT !.at = "answered"]
    BY <2>1
  <2> HIDE DEF e, d
  <2>4. d = [op |-> call.op, key |-> call.key, level |-> call.level, node |-> call.node, at |-> "answered",
              found |-> f, value |-> v, prefix |-> call.prefix, labels |-> call.labels,
              results |-> call.results, nodes |-> call.nodes]
    BY <2>2, <2>3
  <2>5. K(d)
    BY <1>3, <2>4, Zenon
  <2>6. QED
    BY <2>5 DEF K, d
<1>6. CASE Descend(child)
  <2>1. d = [call EXCEPT !.node = child, !.level = call.level + 1]
    BY <1>6 DEF Descend
  <2> HIDE DEF d
  <2>2. d = [op |-> call.op, key |-> call.key, level |-> call.level + 1, node |-> child, at |-> call.at,
              found |-> call.found, value |-> call.value, prefix |-> call.prefix, labels |-> call.labels,
              results |-> call.results, nodes |-> call.nodes]
    BY <1>1, <2>1, NodeChanges
  <2>3. K(d)
    BY <1>2, <2>2, Zenon
  <2>4. QED
    BY <2>3 DEF K, d
<1>7. CASE ToSparse
  <2>1. d = [call EXCEPT !.at = "sparse"]
    BY <1>7 DEF ToSparse
  <2> HIDE DEF d
  <2>2. d = [op |-> call.op, key |-> call.key, level |-> call.level, node |-> call.node, at |-> "sparse",
              found |-> call.found, value |-> call.value, prefix |-> call.prefix, labels |-> call.labels,
              results |-> call.results, nodes |-> call.nodes]
    BY <1>1, <2>1, AtChanges
  <2>3. K(d)
    BY <1>1, <1>3, <2>2, Zenon
  <2>4. QED
    BY <2>3 DEF K, d
<1>8. QED
  BY <1>4, <1>5, <1>6, <1>7

(* A byte behind a path. *)
LEMMA AppendBehind ==
  ASSUME NEW T, NEW a \in Seq(T), NEW b \in Seq(T), NEW c \in T
  PROVE  a \o Append(b, c) = Append(a \o b, c)
  OBVIOUS

(* A step of a lookup keeps the types of its call. *)
LEMMA LookupShown ==
  ASSUME Usable, CallOK(call), CallOK(call'), ShownOK(call), call.at \in {"dense", "sparse"},
         call.op \in KeyLookups \cup NodeLookups, NEW child, NEW v \in Nat,
         Miss \/ FoundNode \/ Hit(v) \/ Descend(child) \/ ToSparse
  PROVE  ShownOK(call')
<1>1. Typed(call) /\ call.at # "answered" /\ call.op # "getNode"
  BY DEF ShownOK, KeyLookups, NodeLookups
<1>2. /\ KeepsLists(call, call') /\ call'.value \in Nat
      /\ call'.node \in Nat \/ call'.at # "answered"
  BY <1>1, LookupKeeps
<1>3. call'.node \in Nat
  <2>1. CASE call'.at # "answered"
    <3>1. NodeAt(CallPath(call'), call'.node)
      BY <2>1 DEF CallOK, RunningOK
    <3>2. QED
      BY <3>1, PathNode DEF NodeAt
  <2>2. QED
    BY <1>2, <2>1
<1>4. QED
  BY <1>1, <1>2, <1>3 DEF ShownOK, Typed, KeepsLists

(* The loops of the lookups. *)
LEMMA LookupsShown ==
  ASSUME Usable, CallOK(call), CallOK(call'), ShownOK(call),
         DenseKeyStep \/ DenseNodeStep \/ LeaveDense \/ SparseKeyStep \/ SparseNodeStep
  PROVE  ShownOK(call')
<1>1. call.at \in {"dense", "sparse"} /\ call.op \in KeyLookups \cup NodeLookups
  BY DEF DenseKeyStep, DenseNodeStep, LeaveDense, SparseKeyStep, SparseNodeStep, Running
<1>2. \/ Miss \/ FoundNode \/ ToSparse
      \/ \E pos : Hit(DenseValue(pos)) \/ Hit(SparseValue(pos))
      \/ \E child : Descend(child)
  <2>1. CASE DenseKeyStep
    BY <2>1, Zenon DEF DenseKeyStep
  <2>2. CASE DenseNodeStep
    BY <2>2, Zenon DEF DenseNodeStep
  <2>3. CASE LeaveDense
    BY <2>3, Zenon DEF LeaveDense, FoundNode
  <2>4. CASE SparseKeyStep
    BY <2>4, Zenon DEF SparseKeyStep
  <2>5. CASE SparseNodeStep
    BY <2>5, Zenon DEF SparseNodeStep
  <2>6. QED
    BY <2>1, <2>2, <2>3, <2>4, <2>5
<1>3. CASE Miss \/ FoundNode \/ ToSparse
  <2>1. 0 \in Nat
    OBVIOUS
  <2>2. QED
    BY <1>1, <1>3, <2>1, LookupShown
<1>4. CASE \E pos : Hit(DenseValue(pos)) \/ Hit(SparseValue(pos))
  <2>1. PICK v \in Nat : Hit(v)
    BY <1>4, ValuesRead
  <2>2. QED
    BY <1>1, <2>1, LookupShown
<1>5. CASE \E child : Descend(child)
  <2>1. 0 \in Nat
    OBVIOUS
  <2>2. QED
    BY <1>1, <1>5, <2>1, LookupShown
<1>6. QED
  BY <1>2, <1>3, <1>4, <1>5

(* The operations that start, and amacLookup. *)
LEMMA StartsShown ==
  ASSUME NoTerminatorAlone, Usable, CallOK(call), ShownOK(call), StartLookup, Plain(call')
  PROVE  ShownOK(call')
<1>1. 0 \in Nat /\ call.node \in Nat
  BY DEF ShownOK, Typed
<1>2. CASE StartLookupKey \/ StartLookupNodeNum \/ StartLookupNodeNumOption
  <2>1. PICK op \in KeyLookups \cup NodeLookups : \E key : call' = NewCall(op, key, 0, 0, "dense")
    BY <1>2 DEF StartLookupKey, StartLookupNodeNum, StartLookupNodeNumOption, KeyLookups, NodeLookups
  <2>2. op # "getNode"
    BY DEF KeyLookups, NodeLookups
  <2>3. QED
    BY <1>1, <2>1, <2>2, StartShown
<1>3. CASE StartLookupKeyAtNode \/ StartGetNode
  <2>1. PICK op \in KeyLookups \cup {"getNode"} :
          \E key, l : call' = NewCall(op, key, l, call.node, PartOf(l))
    BY <1>3 DEF StartLookupKeyAtNode, StartGetNode, KeyLookups
  <2>2. \A l : PartOf(l) # "answered"
    BY DEF PartOf
  <2>3. QED
    BY <1>1, <2>1, <2>2, StartShown
<1>4. CASE AmacLookup
  <2>1. call.key \in InnerPaths
    BY <1>4, HeldNode DEF AmacLookup
  <2>2. PICK byte, found, hasChild, child, val : AmacTold(byte, found, hasChild, child, val)
    BY <1>4, AmacReads
  <2> DEFINE key == Append(call.key, byte)
  <2>3. /\ val \in Nat /\ AmacAnswers(key, found, hasChild, child, val, call')
        /\ found /\ hasChild => key \in InnerPaths /\ child = NodeNumber(key)
    BY <2>2 DEF AmacTold, Tells
  <2> HIDE DEF key
  <2>4. found /\ hasChild => child \in Nat
    BY <2>3, PathNode
  <2>5. PICK n \in Nat : call' \in {MissedAnswer(key), TaggedAnswer(key, NodeTag(n)),
                                    TaggedAnswer(key, ValueTag(n))}
    BY <2>3, <2>4 DEF AmacAnswers
  <2>6. QED
    BY <2>5, AmacShown
<1>5. QED
  BY <1>2, <1>3, <1>4 DEF StartLookup

(* What getNode reads in a dense node has its type. *)
LEMMA DenseNodeTyped ==
  ASSUME NoTerminatorAlone, Usable, NEW path \in InnerPaths, Len(path) < sparse_start_level,
         NEW ls, ls = InOrder(DenseLabels(NodeNumber(path))),
         NEW rs, rs = [i \in 1 .. Len(ls) |-> DenseResult(NodeNumber(path) * Fanout + ls[i])]
  PROVE  ls \in Seq(Label) /\ rs \in Seq(Nat) /\ DOMAIN ls = 1 .. Len(ls)
<1> DEFINE S == DenseLabels(NodeNumber(path))
<1>1. S \in SUBSET Label /\ \A c \in S : HasLabel(NodeNumber(path) * Fanout + c)
  BY DEF DenseLabels
<1>2. ls \in Seq(Label) /\ \A i \in DOMAIN ls : ls[i] \in S
  BY <1>1, InOrderIs
<1>3. DOMAIN ls = 1 .. Len(ls) /\ Len(ls) \in Nat
  BY <1>2
<1>4. ASSUME NEW c \in S PROVE DenseResult(NodeNumber(path) * Fanout + c) \in Nat
  <2> DEFINE pos == NodeNumber(path) * Fanout + c
  <2>1. c \in Label /\ HasLabel(pos)
    BY <1>1
  <2> HIDE DEF S
  <2>2. Tells(path, c, HasLabel(pos), HasDenseChild(pos), DenseChild(pos), DenseValue(pos))
    BY <2>1, DenseTells
  <2> HIDE DEF pos
  <2>3. HasDenseChild(pos) => Append(path, c) \in InnerPaths /\ DenseChild(pos) = NodeNumber(Append(path, c))
    BY <2>1, <2>2 DEF Tells
  <2>4. HasDenseChild(pos) => DenseChild(pos) \in Nat
    BY <2>3, PathNode
  <2>5. DenseValue(pos) \in Nat
    BY ValuesRead
  <2>6. DenseResult(pos) \in Nat
    BY <2>4, <2>5 DEF DenseResult, NodeTag, ValueTag
  <2>7. QED
    BY <2>6 DEF pos
<1>5. rs \in [1 .. Len(ls) -> Nat]
  BY <1>2, <1>3, <1>4
<1>6. QED
  BY <1>2, <1>3, <1>5, ListOfLength

(* getNode has shown its node when it stops. *)
LEMMA StopShown ==
  ASSUME ShownOK(call), CallOK(call), call.op = "getNode",
         NEW ls \in Seq(Label), NEW rs \in Seq(Nat), StopsWith(ls, rs),
         input.include_dense => Shows(call.key \o call.prefix, ls, rs),
         Len(call.key \o call.prefix) < sparse_start_level
           \/ (Len(ls) = 1 => ~IsNodeTag(rs[1]))
  PROVE  ShownOK(call')
<1>1. NodeAnswered(call, ls, rs, call')
  BY GetNodeAnswers
<1> DEFINE d == call'
<1>2. /\ IsCall(d) /\ d.op = "getNode" /\ d.key = call.key /\ d.node = call.node
      /\ d.value = call.value /\ d.prefix = call.prefix /\ d.nodes = call.nodes
      /\ d.labels = ls /\ d.results = rs
  BY <1>1 DEF NodeAnswered
<1>3. Typed(call) /\ Passed(call) /\ OneBranches(call)
  BY DEF ShownOK
<1> HIDE DEF d
<1>4. Typed(d)
  BY <1>2, <1>3 DEF Typed
<1>5. Passed(d)
  BY <1>2, <1>3 DEF Passed
<1>6. OneBranches(d)
  BY <1>2, <1>3, Zenon DEF OneBranches
<1>7. NodeShown(d)
  BY <1>2 DEF NodeShown
<1>8. ShownOK(d)
  BY <1>4, <1>5, <1>6, <1>7 DEF ShownOK
<1>9. QED
  BY <1>8 DEF d

(* getNode has counted the nodes it passed when it goes on, and they have one
   branch each. *)
LEMMA CollapseShown ==
  ASSUME Usable, ShownOK(call), CallOK(call), call.op = "getNode", call.at # "answered",
         NEW c, CollapsesTo(c)
  PROVE  ShownOK(call')
<1> DEFINE path == call.key \o call.prefix
           child == NodeNumber(Append(path, c))
           d == call'
<1>1. /\ c \in Label /\ Append(path, c) \in InnerPaths /\ Collapse(c, child)
      /\ NextPaths(path) = {Append(path, c)}
  BY DEF CollapsesTo
<1>2. GoneOn(call, Append(call.prefix, c), child, Append(call.nodes, child),
             call.level + 1, PartOf(call.level + 1), call')
  BY <1>1, CollapseOK
<1>3. child \in Nat
  BY <1>1, PathNode
<1>4. Typed(call) /\ Passed(call) /\ OneBranches(call) /\ call.key \in Seq(Label)
  BY DEF ShownOK, CallOK
<1>5. /\ call.prefix \in Seq(Label) /\ call.nodes \in Seq(Nat)
      /\ call.nodes = [i \in 1 .. Len(call.prefix) |-> NodeNumber(call.key \o SubSeq(call.prefix, 1, i))]
  BY <1>4 DEF Typed, Passed
<1> DEFINE x == Append(call.prefix, c)
           z == Append(call.nodes, child)
<1>6. x \in Seq(Label) /\ z \in Seq(Nat)
  BY <1>1, <1>3, <1>5
<1>7. /\ IsCall(d) /\ d.op = "getNode" /\ d.key = call.key /\ d.value = call.value
      /\ d.labels = call.labels /\ d.results = call.results
      /\ d.prefix = x /\ d.node = child /\ d.nodes = z /\ d.at # "answered"
  <2>1. PartOf(call.level + 1) # "answered"
    BY DEF PartOf
  <2>2. QED
    BY <1>2, <2>1 DEF GoneOn
<1>8. /\ z = [i \in 1 .. Len(x) |-> NodeNumber(call.key \o SubSeq(x, 1, i))]
      /\ \A n \in 0 .. Len(x) - 1 :
           NextPaths(call.key \o SubSeq(x, 1, n)) = {call.key \o SubSeq(x, 1, n + 1)}
  <2> DEFINE m == Len(call.prefix)
  <2>1. m \in Nat /\ Len(x) = m + 1 /\ Len(call.nodes) = m
    BY <1>1, <1>5
  <2>2. ASSUME NEW i \in 1 .. m
        PROVE  SubSeq(x, 1, i) = SubSeq(call.prefix, 1, i) /\ z[i] = call.nodes[i]
    BY <1>1, <1>5, <2>1
  <2>3. SubSeq(x, 1, m + 1) = x /\ z[m + 1] = child
    BY <1>1, <1>5, <2>1
  <2>4. call.key \o x = Append(path, c)
    <3> DEFINE a == call.key
               b == call.prefix
    <3>1. a \in Seq(Label) /\ b \in Seq(Label)
      BY <1>4, <1>5
    <3> HIDE DEF a, b
    <3>2. a \o Append(b, c) = Append(a \o b, c)
      BY <1>1, <3>1, AppendBehind
    <3>3. QED
      BY <3>2 DEF a, b
  <2>5. z[m + 1] = NodeNumber(call.key \o SubSeq(x, 1, m + 1))
    BY <2>3, <2>4
  <2>6. DOMAIN z = 1 .. m + 1
    BY <1>5, <2>1
  <2>7. ASSUME NEW i \in 1 .. m + 1 PROVE z[i] = NodeNumber(call.key \o SubSeq(x, 1, i))
    <3>1. CASE i \in 1 .. m
      <4>1. call.nodes[i] = NodeNumber(call.key \o SubSeq(call.prefix, 1, i))
        BY <1>5, <3>1
      <4>2. QED
        BY <2>2, <3>1, <4>1
    <3>2. CASE i = m + 1
      BY <2>5, <3>2
    <3>3. QED
      BY <2>1, <3>1, <3>2
  <2>8. z = [i \in 1 .. m + 1 |-> z[i]]
    BY <1>6, <2>6
  <2>9. \A i \in 0 .. m : SubSeq(x, 1, i) = SubSeq(call.prefix, 1, i)
    BY <1>1, <1>5, <2>1
  <2>10. call.key \o SubSeq(x, 1, m) = path
    <3>1. SubSeq(x, 1, m) = call.prefix
      BY <1>1, <1>5, <2>1
    <3>2. QED
      BY <3>1, Zenon
  <2>11. \A n \in 0 .. m - 1 :
           NextPaths(call.key \o SubSeq(call.prefix, 1, n))
             = {call.key \o SubSeq(call.prefix, 1, n + 1)}
    BY <1>4, Zenon DEF OneBranches
  <2> HIDE DEF z, x, m
  <2>12. ASSUME NEW n \in 0 .. m
         PROVE  NextPaths(call.key \o SubSeq(x, 1, n)) = {call.key \o SubSeq(x, 1, n + 1)}
    <3>1. CASE n < m
      <4>1. n \in 0 .. m - 1 /\ n + 1 \in 0 .. m
        BY <2>1, <3>1
      <4>2. QED
        BY <2>9, <2>11, <4>1
    <3>2. CASE n = m
      <4>1. NextPaths(path) = {Append(path, c)}
        BY <1>1
      <4>2. call.key \o SubSeq(x, 1, m + 1) = Append(path, c)
        BY <2>3, <2>4
      <4> HIDE DEF path
      <4>3. QED
        BY <2>10, <3>2, <4>1, <4>2, Zenon
    <3>3. n < m \/ n = m
      BY <2>1
    <3>4. QED
      BY <3>1, <3>2, <3>3, Zenon
  <2>13. 0 .. Len(x) - 1 = 0 .. m
    BY <2>1
  <2>14. QED
    BY <2>1, <2>7, <2>8, <2>12, <2>13
<1> HIDE DEF x, z, d, child
<1>9. Typed(d)
  BY <1>3, <1>4, <1>6, <1>7 DEF Typed
<1>10. Passed(d)
  BY <1>7, <1>8 DEF Passed
<1>11. OneBranches(d)
  BY <1>7, <1>8, Zenon DEF OneBranches
<1>12. ShownOK(d)
  BY <1>7, <1>9, <1>10, <1>11 DEF ShownOK
<1>13. QED
  BY <1>12 DEF d

(* The steps of getNode. *)
LEMMA GetNodeShown ==
  ASSUME NoTerminatorAlone, Usable, CallOK(call), ShownOK(call), GetDenseNode \/ GetSparseNode
  PROVE  ShownOK(call')
<1> DEFINE path == call.key \o call.prefix
<1>1. /\ call.op = "getNode" /\ call.at # "answered" /\ path \in InnerPaths
      /\ call.node = NodeNumber(path)
  BY DenseNodeDoes, SparseNodeDoes
<1>2. CASE \E c : CollapsesTo(c)
  BY <1>1, <1>2, CollapseShown
<1>3. CASE GetDenseNode /\ ~\E c : CollapsesTo(c)
  <2> DEFINE ls == InOrder(DenseLabels(NodeNumber(path)))
             rs == [i \in 1 .. Len(ls) |-> DenseResult(NodeNumber(path) * Fanout + ls[i])]
  <2>1. Len(path) < sparse_start_level /\ StopsWith(ls, rs)
    BY <1>1, <1>3, DenseNodeDoes
  <2> HIDE DEF path
  <2>2. ls \in Seq(Label) /\ rs \in Seq(Nat) /\ DOMAIN ls = 1 .. Len(ls)
    BY <1>1, <2>1, DenseNodeTyped
  <2>3. input.include_dense => Shows(path, ls, rs)
    <3> DEFINE base == NodeNumber(path) * Fanout
    <3>1. \A i \in DOMAIN ls : rs[i] = DenseResult(base + ls[i])
      BY <2>2
    <3> HIDE DEF rs
    <3>2. QED
      BY <1>1, <2>1, <3>1, DenseNodeShown
  <2> HIDE DEF ls, rs
  <2>4. QED
    BY <1>1, <2>1, <2>2, <2>3, StopShown DEF path
<1>4. CASE GetSparseNode /\ ~\E c : CollapsesTo(c)
  <2>1. sparse_start_level <= Len(path)
        /\ \E pos, size, end, ls, rs : SparseStop(pos, size, end, ls, rs) /\ StopsWith(ls, rs)
    BY <1>4, SparseNodeDoes
  <2>2. PICK pos, size, end, ls, rs : SparseStop(pos, size, end, ls, rs) /\ StopsWith(ls, rs)
    BY <2>1
  <2> HIDE DEF path
  <2>3. SparseStop(pos, size, end, ls, rs) /\ call.node = NodeNumber(path)
    BY <1>1, <2>2
  <2>4. /\ input.include_dense => Shows(path, ls, rs)
        /\ ls \in Seq(Label) /\ rs \in Seq(Nat) /\ Len(ls) = end - pos
        /\ 1 \in DOMAIN ls => rs[1] = SparseResult(pos)
    <3>1. input.include_dense => Shows(path, ls, rs)
      BY <1>1, <2>1, <2>3, SparseNodeShown
    <3>2. ls \in Seq(Label) /\ rs \in Seq(Nat) /\ Len(ls) = end - pos
      BY <1>1, <2>1, <2>3, SparseNodeShown
    <3>3. 1 \in DOMAIN ls => rs[1] = SparseResult(pos)
      BY <1>1, <2>1, <2>3, SparseNodeShown
    <3>4. QED
      BY <3>1, <3>2, <3>3
  <2>5. Len(ls) = 1 => ~IsNodeTag(rs[1])
    <3>1. ASSUME Len(ls) = 1 PROVE ~IsNodeTag(SparseResult(pos)) /\ 1 \in DOMAIN ls
      <4>1. end - pos = 1
        BY <2>4, <3>1
      <4>2. ~IsNodeTag(SparseResult(pos))
        BY <1>1, <2>1, <2>3, <4>1, SparseNodeStops
      <4>3. 1 \in DOMAIN ls
        <5>1. ls \in Seq(Label)
          BY <2>4
        <5>2. DOMAIN ls = 1 .. Len(ls)
          BY <5>1
        <5>3. QED
          BY <3>1, <5>2
      <4>4. QED
        BY <4>2, <4>3
    <3>2. QED
      BY <2>4, <3>1
  <2>6. QED
    BY <1>1, <2>2, <2>4, <2>5, StopShown DEF path
<1>5. QED
  BY <1>2, <1>3, <1>4

-------------------------------------------------------------------------------
(* The invariant *)

(* Nothing is called before the trie is created, and what is created is what
   the constructors make of the complete build. *)
CreatedInv ==
  /\ louds_sparse = NotCreated => call = NoCall
  /\ louds_sparse # NotCreated =>
       pc = "done" /\ louds_dense = MakeLoudsDense /\ louds_sparse = MakeLoudsSparse

(* The trie is built and created as the lookups need it, and the call that runs
   or was answered is right, unless amacLookup was given a byte in the dense part
   that is negative as a char. *)
FSTInv ==
  BuiltInv /\ CreatedInv /\ (NodesFit => Keyed(call) /\ (Plain(call) => CallOK(call)))

(* No call is a right call. *)
LEMMA NoCallOK == CallOK(NoCall)
<1> SUFFICES ASSUME NEW c, c = NoCall PROVE CallOK(c)
  OBVIOUS
<1>1. IsCall(c) /\ c.op = "none" /\ c.key = << >> /\ c.level = 0 /\ c.at = "answered"
      /\ (c.found <=> FALSE)
  BY DEF NoCall, NewCall, IsCall
<1>2. c.key \in Seq(Label) /\ c.level \in Nat /\ c.found \in BOOLEAN
  <2>1. << >> \in Seq(Label)
    OBVIOUS
  <2>2. c.found \in BOOLEAN
    BY DEF NoCall, NewCall
  <2>3. QED
    BY <1>1, <2>1, <2>2
<1>3. c.op \notin KeyLookups \cup NodeLookups \cup {"amacLookup", "getNode"}
  BY <1>1 DEF KeyLookups, NodeLookups
<1>4. QED
  BY <1>1, <1>2, <1>3 DEF CallOK, AnswerOK

(* The encodings depend on nothing but the vectors of the builder. *)
LEMMA SameEncodings ==
  ASSUME UNCHANGED builderVars
  PROVE  /\ MakeLoudsDense' = MakeLoudsDense /\ MakeLoudsSparse' = MakeLoudsSparse
         /\ NodeCountDense' = NodeCountDense
<1>1. /\ dense' = dense /\ node_counts' = node_counts /\ values_dense' = values_dense
      /\ sparse_start_level' = sparse_start_level /\ height' = height /\ labels' = labels
      /\ words' = words /\ child_indicator_bits' = child_indicator_bits
      /\ louds_bits' = louds_bits /\ values_sparse' = values_sparse
  BY DEF builderVars, vars, sparseVars, denseVars
<1>2. NodeCountDense' = NodeCountDense
  BY <1>1 DEF NodeCountDense, MapThenSumSet, MapThenFoldSet
<1>3. ChildCountDense' = ChildCountDense
  BY <1>1, <1>2 DEF ChildCountDense
<1>4. MakeLoudsDense' = MakeLoudsDense
  BY <1>1 DEF MakeLoudsDense, BitmapLevels, PrefixkeyLevels
<1>5. \A b : SparseLevels(b)' = SparseLevels(b)
  BY <1>1 DEF SparseLevels, GetNumItems
<1>6. MakeLoudsSparse' = MakeLoudsSparse
  BY <1>1, <1>2, <1>3, <1>5 DEF MakeLoudsSparse
<1>7. QED
  BY <1>2, <1>4, <1>6

(* Nothing is called before the trie is created. *)
LEMMA NotYetCalled ==
  ASSUME CreatedInv, Ready \/ HoldsNode \/ call.at # "answered" \/ call # NoCall
  PROVE  louds_sparse # NotCreated
<1>1. NoCall.at = "answered" /\ (NoCall.found <=> FALSE)
  BY DEF NoCall, NewCall
<1>2. Ready => louds_sparse # NotCreated
  BY DEF Ready
<1>3. HoldsNode => call # NoCall
  BY <1>1 DEF HoldsNode
<1>4. QED
  BY <1>1, <1>2, <1>3 DEF CreatedInv

(* No operation runs that does not begin with one of these conditions, and none
   changes the trie. *)
LEMMA CallsStart ==
  ASSUME StartLookup \/ LookupStep \/ Return
  PROVE  /\ Ready \/ HoldsNode \/ call.at # "answered" \/ call # NoCall
         /\ UNCHANGED builderVars /\ louds_dense' = louds_dense
         /\ louds_sparse' = louds_sparse
<1>1. CASE StartLookup
  BY <1>1, Zenon
     DEF StartLookup, StartLookupKey, StartLookupNodeNum, StartLookupNodeNumOption,
         StartLookupKeyAtNode, StartGetNode, AmacLookup
<1>2. CASE LookupStep
  <2>1. /\ UNCHANGED builderVars /\ louds_dense' = louds_dense
        /\ louds_sparse' = louds_sparse
    BY <1>2, Zenon
       DEF LookupStep, DenseKeyStep, DenseNodeStep, LeaveDense, SparseKeyStep, SparseNodeStep,
           GetDenseNode, GetSparseNode, Miss, Hit, FoundNode, Answer, Descend, ToSparse, Collapse
  <2>2. call.at = "dense" \/ call.at = "sparse"
    BY <1>2, Zenon
       DEF LookupStep, DenseKeyStep, DenseNodeStep, LeaveDense, SparseKeyStep, SparseNodeStep,
           GetDenseNode, GetSparseNode, Running
  <2>3. QED
    BY <2>1, <2>2
<1>3. CASE Return
  BY <1>3, Zenon DEF Return
<1>4. QED
  BY <1>1, <1>2, <1>3

(* Every step of an operation keeps the call right. *)
LEMMA CallStep ==
  ASSUME NoTerminatorAlone, Usable, Keyed(call), Plain(call) => CallOK(call),
         StartLookup \/ LookupStep \/ Return, Plain(call')
  PROVE  CallOK(call')
<1>1. CASE Return
  BY <1>1, NoCallOK DEF Return
<1>2. CASE StartLookup \/ LookupStep
  <2>1. CallOK(call)
    BY <1>2, PlainBefore
  <2>2. CASE StartLookup
    BY <2>1, <2>2, StartsOK, AmacOK, Zenon DEF StartLookup
  <2>3. CASE LookupStep
    BY <2>1, <2>3, DenseStepOK, SparseStepOK, LeaveDenseOK, GetNodeOK, Zenon
       DEF LookupStep
  <2>4. QED
    BY <1>2, <2>2, <2>3
<1>3. QED
  BY <1>1, <1>2

(* A call keeps its key, and the call of the next operation has one. *)
LEMMA CallKeyed ==
  ASSUME Usable, Keyed(call), StartLookup \/ LookupStep \/ Return
  PROVE  Keyed(call')
<1>1. CASE LookupStep
  BY <1>1, KeyStays DEF KeepsKey, Keyed
<1>2. CASE Return
  BY <1>2, NoCallOK, RightIsKeyed DEF Return
<1>3. CASE StartLookupKey \/ StartLookupNodeNum \/ StartLookupNodeNumOption
  <2>1. PICK op, key : key \in Seq(Label) /\ call' = NewCall(op, key, 0, 0, "dense")
    BY <1>3, KeysAssumption, PathNode
       DEF StartLookupKey, StartLookupNodeNum, StartLookupNodeNumOption
  <2>2. QED
    BY <2>1, StartKey DEF Keyed
<1>4. CASE StartLookupKeyAtNode \/ StartGetNode \/ AmacLookup
  BY <1>4, HeldKey
<1>5. QED
  BY <1>1, <1>2, <1>3, <1>4 DEF StartLookup

(* Nothing was given to a call that there is not. *)
LEMMA NoCallIsPlain == Plain(NoCall) /\ Keyed(NoCall)
<1>1. Plain(NoCall)
  BY StartKey DEF Plain, NoCall
<1>2. QED
  BY <1>1, NoCallOK, RightIsKeyed

(* What a call was given stays what it is while the trie stays. *)
LEMMA SamePlain ==
  ASSUME louds_sparse' = louds_sparse
  PROVE  (Plain(call)' <=> Plain(call')) /\ (Keyed(call)' <=> Keyed(call'))
BY DEF Plain, Keyed, StartLevel

(* Every step of the trie keeps what is known of it. *)
LEMMA FSTStep ==
  ASSUME SortedInputs, NoTerminatorAlone, FSTInv, [FSTNext]_allVars
  PROVE  FSTInv'
<1>1. /\ BuiltInv /\ CreatedInv
      /\ NodesFit => Keyed(call) /\ (Plain(call) => CallOK(call))
  BY DEF FSTInv
<1>2. CASE BuildStep
  <2>1. [Next]_vars /\ louds_dense' = louds_dense /\ louds_sparse' = louds_sparse
        /\ call' = call /\ pc # "done"
    BY <1>2 DEF BuildStep, fstVars
  <2>2. BuiltInv'
    BY <1>1, <2>1, BuiltStep
  <2>3. louds_sparse' = NotCreated /\ call' = NoCall
    BY <1>1, <2>1 DEF CreatedInv
  <2>4. CreatedInv'
    BY <2>3 DEF CreatedInv, NoCall, NotCreated
  <2>5. CallOK(call)' /\ Keyed(call)'
    <3>1. CallOK(NoCall)' /\ Keyed(NoCall)'
      BY NoCallOK, NoCallIsPlain, PTL
    <3>2. QED
      BY <2>3, <3>1 DEF NoCall
  <2>6. QED
    BY <2>2, <2>4, <2>5 DEF FSTInv
<1>3. CASE ~BuildStep
  <2>1. CASE Create
    <3>1. UNCHANGED builderVars /\ call' = call /\ pc = "done" /\ louds_sparse = NotCreated
          /\ louds_dense' = MakeLoudsDense /\ louds_sparse' = MakeLoudsSparse
      BY <2>1 DEF Create
    <3>2. BuiltInv' /\ pc' = pc
      BY <1>1, <3>1, BuiltStep DEF builderVars, vars
    <3>3. call' = NoCall
      BY <1>1, <3>1 DEF CreatedInv
    <3>4. CreatedInv'
      BY <3>1, <3>2, <3>3, SameEncodings DEF CreatedInv, NoCall, NotCreated
    <3>5. CallOK(call)' /\ Keyed(call)'
      <4>1. CallOK(NoCall)' /\ Keyed(NoCall)'
        BY NoCallOK, NoCallIsPlain, PTL
      <4>2. QED
        BY <3>3, <4>1 DEF NoCall
    <3>6. QED
      BY <3>2, <3>4, <3>5 DEF FSTInv
  <2>2. CASE StartLookup \/ LookupStep \/ Return
    <3>1. /\ UNCHANGED builderVars /\ louds_dense' = louds_dense
          /\ louds_sparse' = louds_sparse /\ louds_sparse # NotCreated
      BY <1>1, <2>2, CallsStart, NotYetCalled
    <3>2. BuiltInv' /\ pc' = pc /\ input' = input /\ sparse_start_level' = sparse_start_level
      BY <1>1, <3>1, BuiltStep DEF builderVars, vars, denseVars
    <3>3. CreatedInv'
      BY <1>1, <3>1, <3>2, SameEncodings DEF CreatedInv, NotCreated
    <3>4. ASSUME NodesFit' PROVE Keyed(call)' /\ (Plain(call)' => CallOK(call)')
      <4>1. NodesFit
        BY <3>1, <3>4, SameEncodings DEF NodesFit
      <4>2. Usable
        BY <1>1, <3>1, <4>1 DEF Usable, CreatedInv
      <4>3. Keyed(call') /\ (Plain(call') => CallOK(call'))
        BY <1>1, <2>2, <4>1, <4>2, CallStep, CallKeyed
      <4>4. Keyed(call)' /\ (Plain(call)' => Plain(call'))
        BY <3>1, <4>3, SamePlain
      <4>5. QED
        BY <3>1, <3>2, <4>3, <4>4, SameCall
    <3>5. QED
      BY <3>2, <3>3, <3>4 DEF FSTInv
  <2>3. CASE UNCHANGED allVars
    <3>1. UNCHANGED builderVars /\ louds_dense' = louds_dense /\ louds_sparse' = louds_sparse
          /\ call' = call
      BY <2>3 DEF allVars, fstVars
    <3>2. BuiltInv' /\ pc' = pc /\ input' = input /\ sparse_start_level' = sparse_start_level
      BY <1>1, <3>1, BuiltStep DEF builderVars, vars, denseVars
    <3>3. CreatedInv'
      BY <1>1, <3>1, <3>2, SameEncodings DEF CreatedInv, NotCreated, NoCall
    <3>4. ASSUME NodesFit' PROVE Keyed(call)' /\ (Plain(call)' => CallOK(call)')
      <4>1. NodesFit
        BY <3>1, <3>4, SameEncodings DEF NodesFit
      <4>2. Keyed(call') /\ (Plain(call') => CallOK(call'))
        BY <1>1, <3>1, <4>1
      <4>3. Keyed(call)' /\ (Plain(call)' => Plain(call'))
        BY <3>1, <4>2, SamePlain
      <4>4. QED
        BY <3>1, <3>2, <4>2, <4>3, SameCall
    <3>5. QED
      BY <3>2, <3>3, <3>4 DEF FSTInv
  <2>4. QED
    BY <1>3, <2>1, <2>2, <2>3 DEF FSTNext
<1>4. QED
  BY <1>2, <1>3

(* Nothing is created or called at first. *)
LEMMA FSTInitInv == ASSUME SortedInputs, FSTInit PROVE FSTInv
<1>1. BuiltInv
  BY BuiltInit DEF FSTInit
<1>2. louds_sparse = NotCreated /\ call = NoCall
  BY DEF FSTInit
<1>3. CallOK(call) /\ Keyed(call)
  BY <1>2, NoCallOK, NoCallIsPlain
<1>4. QED
  BY <1>1, <1>2, <1>3 DEF FSTInv, CreatedInv

(* What holds of every call holds in every state of every run. *)
LEMMA CallsRight ==
  ASSUME SortedInputs, NoTerminatorAlone
  PROVE  FSTSpec => []FSTInv
<1>1. FSTInit => FSTInv
  BY FSTInitInv
<1>2. FSTInv /\ [FSTNext]_allVars => FSTInv'
  BY FSTStep
<1>3. QED
  BY <1>1, <1>2, PTL DEF FSTSpec

(* A call is right without a negative byte in the dense part. *)
LEMMA RightWithout ==
  ASSUME FSTInv, NodesFit, NoNegativeByte
  PROVE  CallOK(call) /\ Plain(call)
BY DEF FSTInv, NoNegativeByte, Plain

(* The start level a call reads is the builder's. *)
LEMMA CalledIsUsable ==
  ASSUME FSTInv, NodesFit, NoNegativeByte, call # NoCall
  PROVE  Usable /\ CallOK(call) /\ StartLevel = sparse_start_level
<1>1. Usable
  BY NotYetCalled DEF FSTInv, CreatedInv, Usable
<1>2. QED
  BY <1>1, UsableIs, RightWithout

(* No lookup is answered before one was called. *)
LEMMA AnsweredIsCalled ==
  ASSUME NEW ops, Answered(ops), "none" \notin ops
  PROVE  call # NoCall
  BY DEF Answered, NoCall, NewCall

(* Every step of an operation keeps what its call shows. *)
LEMMA ShownStep ==
  ASSUME NoTerminatorAlone, Usable, Keyed(call), CallOK(call'),
         Plain(call) => CallOK(call) /\ ShownOK(call),
         StartLookup \/ LookupStep \/ Return, Plain(call')
  PROVE  ShownOK(call')
<1>1. CASE StartLookup
  <2>1. CallOK(call) /\ ShownOK(call)
    BY <1>1, PlainBefore
  <2>2. QED
    BY <1>1, <2>1, StartsShown
<1>2. CASE LookupStep
  <2>1. CallOK(call) /\ ShownOK(call)
    BY <1>2, PlainBefore
  <2>2. QED
    BY <1>2, <2>1, LookupsShown, GetNodeShown, Zenon DEF LookupStep
<1>3. CASE Return
  <2>1. call' = NewCall("none", << >>, 0, 0, "answered") /\ 0 \in Nat
    BY <1>3 DEF Return, NoCall
  <2>2. "none" # "getNode"
    OBVIOUS
  <2>3. QED
    BY <2>1, <2>2, StartShown
<1>4. QED
  BY <1>1, <1>2, <1>3

(* No call shows nothing. *)
LEMMA NoCallShown == ShownOK(NoCall)
<1>1. 0 \in Nat /\ "none" # "getNode"
  OBVIOUS
<1>2. QED
  BY <1>1, StartShown DEF NoCall

(* What a call shows stays what it is while the trie stays. *)
LEMMA SameShown ==
  ASSUME input' = input, sparse_start_level' = sparse_start_level, ShownOK(call')
  PROVE  ShownOK(call)'
<1>1. Entries' = Entries /\ InnerPaths' = InnerPaths
  BY SameTrie
<1>2. Shows(call.key \o call.prefix, call.labels, call.results)'
        <=> Shows(call'.key \o call'.prefix, call'.labels, call'.results)
  BY <1>1 DEF Shows, NextPaths, ResultAt, NodeNumber
<1>3. Typed(call') => Typed(call)'
  BY DEF Typed
<1>4. Passed(call') => Passed(call)'
  BY <1>1 DEF Passed, NodeNumber
<1>5. NodeShown(call') => NodeShown(call)'
  BY <1>2 DEF NodeShown
<1>6. OneBranches(call') => OneBranches(call)'
  BY <1>1 DEF OneBranches, NextPaths
<1>7. QED
  BY <1>3, <1>4, <1>5, <1>6 DEF ShownOK

(* The calls are right, and they show what they have read. *)
ShownInv == FSTInv /\ (NodesFit /\ Plain(call) => ShownOK(call))

(* Every step keeps it. *)
LEMMA ShownInvStep ==
  ASSUME SortedInputs, NoTerminatorAlone, ShownInv, [FSTNext]_allVars
  PROVE  ShownInv'
<1>1. FSTInv /\ FSTInv' /\ (NodesFit /\ Plain(call) => ShownOK(call))
  BY FSTStep DEF ShownInv
<1>2. CASE call' = NoCall
  <2>1. ShownOK(NoCall)'
    BY NoCallShown, PTL
  <2>2. ShownOK(call)'
    BY <1>2, <2>1 DEF NoCall
  <2>3. QED
    BY <1>1, <2>2 DEF ShownInv
<1>3. CASE call' # NoCall
  <2>1. /\ UNCHANGED builderVars /\ louds_dense' = louds_dense /\ louds_sparse' = louds_sparse
        /\ call' = call \/ StartLookup \/ LookupStep \/ Return
    <3>1. CASE StartLookup \/ LookupStep \/ Return
      BY <3>1, CallsStart
    <3>2. CASE UNCHANGED allVars
      BY <3>2 DEF allVars, fstVars
    <3>3. CASE BuildStep \/ Create
      <4>1. louds_sparse = NotCreated /\ call' = call
        <5>1. CASE Create
          BY <5>1 DEF Create
        <5>2. CASE BuildStep
          <6>1. pc # "done" /\ call' = call
            BY <5>2 DEF BuildStep, fstVars
          <6>2. QED
            BY <1>1, <6>1 DEF FSTInv, CreatedInv
        <5>3. QED
          BY <3>3, <5>1, <5>2
      <4>2. call = NoCall
        BY <1>1, <4>1 DEF FSTInv, CreatedInv
      <4>3. QED
        BY <1>3, <4>1, <4>2
    <3>4. QED
      BY <3>1, <3>2, <3>3 DEF FSTNext
  <2>2. input' = input /\ sparse_start_level' = sparse_start_level /\ NodeCountDense' = NodeCountDense
    BY <2>1, SameEncodings DEF builderVars, vars, denseVars
  <2>3. ASSUME NodesFit', Plain(call)' PROVE ShownOK(call)'
    <3>1. /\ NodesFit /\ Keyed(call) /\ (Plain(call) => CallOK(call) /\ ShownOK(call))
          /\ Plain(call')
      BY <1>1, <2>1, <2>2, <2>3, SamePlain DEF NodesFit, FSTInv
    <3>2. ShownOK(call')
      <4>1. CASE call' = call
        BY <3>1, <4>1
      <4>2. CASE StartLookup \/ LookupStep \/ Return
        <5>1. louds_sparse # NotCreated
          BY <1>1, <4>2, CallsStart, NotYetCalled DEF FSTInv
        <5>2. Usable
          BY <1>1, <3>1, <5>1 DEF Usable, FSTInv, CreatedInv
        <5>3. CallOK(call')
          BY <3>1, <4>2, <5>2, CallStep
        <5>4. QED
          BY <3>1, <4>2, <5>2, <5>3, ShownStep
      <4>3. QED
        BY <2>1, <4>1, <4>2
    <3>3. QED
      BY <2>2, <3>2, SameShown
  <2>4. QED
    BY <1>1, <2>3 DEF ShownInv
<1>4. QED
  BY <1>2, <1>3

(* What holds of every call holds in every state of every run. *)
LEMMA CallsShow ==
  ASSUME SortedInputs, NoTerminatorAlone
  PROVE  FSTSpec => []ShownInv
<1>1. FSTInit => ShownInv
  <2>1. FSTInit => FSTInv /\ call = NoCall
    BY FSTInitInv DEF FSTInit
  <2>2. QED
    BY <2>1, NoCallShown DEF ShownInv
<1>2. ShownInv /\ [FSTNext]_allVars => ShownInv'
  BY ShownInvStep
<1>3. QED
  BY <1>1, <1>2, PTL DEF FSTSpec

-------------------------------------------------------------------------------
(* Results *)

(* In every build from sorted keys, and whatever operations are called in
   whatever order, an operation that runs stands at the node the bytes it has
   read lead to: ranks over the child bits of both encodings, and the numbers
   that the dense part hands to the sparse one, count the nodes in level order.
   In this and in the results below amacLookup, alone of all operations, and the
   calls that start at the node it returned, are looked at where it was given no
   byte in the dense part that is negative as a char. *)
THEOREM OperationsStandAtNodes ==
  ASSUME SortedInputs, NoTerminatorAlone
  PROVE  FSTSpec => [](NodesFit /\ NoNegativeByte => StandsAtNode)
<1>1. FSTInv => (NodesFit /\ NoNegativeByte => StandsAtNode)
  BY RightWithout DEF CallOK, RunningOK, NodeAt, CallPath, StandsAtNode, PathRead
<1>2. QED
  BY <1>1, CallsRight, PTL

(* lookupKey and lookupKeyAtNode find every stored key with its own value, when
   the build has a dense part. *)
THEOREM StoredKeysAreFound ==
  ASSUME SortedInputs, NoTerminatorAlone
  PROVE  FSTSpec => [](NodesFit /\ input.include_dense /\ NoNegativeByte => StoredKeysFound)
<1>1. FSTInv => (NodesFit /\ input.include_dense /\ NoNegativeByte => StoredKeysFound)
  BY RightWithout DEF CallOK, AnswerOK, KeyAnswer, StoredKeysFound, Answered
<1>2. QED
  BY <1>1, CallsRight, PTL

(* They miss every key that has no stored prefix, in tries whose last node ends
   inside its word. *)
THEOREM AbsentKeysAreMissed ==
  ASSUME SortedInputs, NoTerminatorAlone
  PROVE  FSTSpec => [](NodesFit /\ input.include_dense /\ NoNegativeByte => AbsentKeysMissedInside)
<1>1. FSTInv => (NodesFit /\ input.include_dense /\ NoNegativeByte => AbsentKeysMissedInside)
  BY RightWithout DEF CallOK, AnswerOK, KeyAnswer, AbsentKeysMissedInside, AbsentKeysMissed,
         Answered
<1>2. QED
  BY <1>1, CallsRight, PTL

(* lookupNodeNum and, for keys that are not longer than the dense part,
   lookupNodeNumOption return the number of the node the key leads to. *)
THEOREM NodeNumbersAreExact ==
  ASSUME SortedInputs, NoTerminatorAlone
  PROVE  FSTSpec => [](NodesFit /\ NoNegativeByte => NodeNumbersExact)
<1>1. ASSUME FSTInv, NodesFit, NoNegativeByte PROVE NodeNumbersExact
  <2> SUFFICES ASSUME Answered(NodeLookups)
               PROVE  /\ call.op = "lookupNodeNum" => call.node = NodeNumber(call.key)
                      /\ call.op = "lookupNodeNumOption" /\ Len(call.key) <= StartLevel =>
                           /\ call.found = (call.key \in InnerPaths)
                           /\ call.found => call.node = NodeNumber(call.key)
    BY DEF NodeNumbersExact
  <2>1. CallOK(call) /\ StartLevel = sparse_start_level
    BY <1>1, AnsweredIsCalled, CalledIsUsable DEF NodeLookups
  <2>2. NodeAnswer(call) /\ call.found \in BOOLEAN
    BY <2>1 DEF CallOK, AnswerOK, Answered
  <2>3. QED
    BY <2>1, <2>2 DEF NodeAnswer, NodeAt
<1>2. QED
  BY <1>1, CallsRight, PTL

(* A chain of amacLookup steps finds the next node, the value or nothing, as a
   lookup of the same bytes does: of any bytes in the sparse part, and of bytes
   that are not negative as a char in the dense one, from whichever node the chain
   started. That it misses is proved of tries whose last node ends inside its word. *)
THEOREM AmacIsExact ==
  ASSUME SortedInputs, NoTerminatorAlone
  PROVE  FSTSpec => [](NodesFit /\ input.include_dense /\ NoNegativeByte =>
                         AmacExactInside /\ AmacFindsStored)
<1>1. ASSUME FSTInv, NodesFit, input.include_dense, NoNegativeByte, Answered({"amacLookup"})
      PROVE  AmacAnswer(call) /\ call.found \in BOOLEAN
  BY <1>1, RightWithout DEF CallOK, AnswerOK, Answered
<1>2. FSTInv => (NodesFit /\ input.include_dense /\ NoNegativeByte =>
                   AmacExactInside /\ AmacFindsStored)
  <2>1. ASSUME AmacAnswer(call), call.found \in BOOLEAN, input.include_dense
        PROVE  /\ LastNodeEndsInside =>
                    call.found = (call.key \in InnerPaths \/ EntriesOf(call.key) # {})
               /\ call.key \in InnerPaths => call.found /\ call.node = NodeNumber(call.key)
               /\ \A e \in EntriesOf(call.key) : call.found /\ call.value = e[2]
    BY <2>1 DEF AmacAnswer
  <2>2. QED
    BY <1>1, <2>1 DEF AmacExactInside, AmacExact, AmacFindsStored
<1>3. QED
  BY <1>2, CallsRight, PTL

(* Calls and answers keep their types, and an operation that runs is in the
   encoding that holds the level it has come to, and never below the last one. *)
THEOREM CallsKeepTheirTypes ==
  ASSUME SortedInputs, NoTerminatorAlone
  PROVE  FSTSpec => [](NodesFit /\ NoNegativeByte => FSTTypeOK)
<1>1. ASSUME ShownInv, NodesFit, NoNegativeByte PROVE FSTTypeOK
  <2>1. FSTInv /\ CallOK(call) /\ Typed(call)
    BY <1>1, RightWithout DEF ShownInv, ShownOK
  <2>2. call \in CallType
    <3>1. /\ IsCall(call) /\ call.key \in Seq(Label) /\ call.level \in Nat
          /\ call.found \in BOOLEAN /\ call.at \in {"dense", "sparse", "answered"}
      BY <2>1 DEF CallOK
    <3>2. QED
      BY <2>1, <3>1 DEF Typed, IsCall, CallType
  <2>3. ASSUME call.at # "answered"
        PROVE  /\ call.at = "dense" =>
                    IF call.op = "getNode" THEN call.level < louds_dense.height
                    ELSE call.level <= louds_dense.height
               /\ call.at = "sparse" => call.level \in StartLevel .. louds_sparse.height - 1
    <3>1. call # NoCall
      BY <2>3 DEF NoCall, NewCall
    <3>2. Usable
      BY <1>1, <2>1, <3>1, CalledIsUsable
    <3>3. /\ StartLevel = sparse_start_level /\ louds_dense.height = sparse_start_level
          /\ louds_sparse.height = height /\ sparse_start_level \in Nat /\ height \in Nat
      BY <3>2, UsableIs
    <3>4. RunningOK(call) /\ call.level \in Nat
      BY <2>1, <2>3 DEF CallOK
    <3>5. call.level \in 0 .. height - 1
      BY <3>2, <3>4, PathNode DEF RunningOK, NodeAt
    <3>6. QED
      BY <3>3, <3>4, <3>5 DEF RunningOK
  <2>4. QED
    BY <2>2, <2>3 DEF FSTTypeOK
<1>2. QED
  BY <1>1, CallsShow, PTL

(* getNode returns the labels of the node it stops at in ascending order, each
   with the value or the number of the node it leads to, and the numbers of all
   the nodes it passed, when the build has a dense part. *)
THEOREM NodesAreShown ==
  ASSUME SortedInputs, NoTerminatorAlone
  PROVE  FSTSpec => [](NodesFit /\ input.include_dense /\ NoNegativeByte => NodeContents)
<1>1. ASSUME ShownInv, NodesFit, input.include_dense, NoNegativeByte PROVE NodeContents
  <2> SUFFICES ASSUME Answered({"getNode"})
               PROVE  /\ Shows(PathRead, call.labels, call.results)
                      /\ Passed(call)
    BY DEF NodeContents, Shows, NextPaths, ResultAt, Passed
  <2>1. call.op = "getNode" /\ call.at = "answered" /\ PathRead = call.key \o call.prefix
    BY DEF Answered, PathRead
  <2>2. ShownOK(call)
    BY <1>1, RightWithout DEF ShownInv
  <2>3. QED
    BY <1>1, <2>1, <2>2 DEF ShownOK, NodeShown
<1>2. QED
  BY <1>1, CallsShow, PTL

(* Each node that getNode passed has the one branch it went on in, so it never goes
   past the node it should stop at; in the sparse part it does not stop in front
   of it either, at a node whose one label leads to a child, also where the size of
   the last node is read too large. *)
THEOREM SparseNodesCollapse ==
  ASSUME SortedInputs, NoTerminatorAlone
  PROVE  FSTSpec => [](NodesFit /\ NoNegativeByte => SparseNodeCollapsed)
<1>1. ASSUME ShownInv, NodesFit, NoNegativeByte PROVE SparseNodeCollapsed
  <2> SUFFICES ASSUME Answered({"getNode"})
               PROVE  /\ OneBranches(call)
                      /\ PartOf(Len(PathRead)) = "dense"
                           \/ (Len(call.labels) = 1 => ~IsNodeTag(call.results[1]))
    BY DEF SparseNodeCollapsed, PassedHaveOneBranch, StoppedForReason, OneBranches, PartOf
  <2>1. call.op = "getNode" /\ call.at = "answered" /\ PathRead = call.key \o call.prefix
    BY DEF Answered, PathRead
  <2>2. StartLevel = sparse_start_level
    BY <1>1, AnsweredIsCalled, CalledIsUsable DEF ShownInv
  <2>3. ShownOK(call)
    BY <1>1, RightWithout DEF ShownInv
  <2>4. QED
    BY <2>1, <2>2, <2>3 DEF ShownOK, NodeShown, PartOf
<1>2. QED
  BY <1>1, CallsShow, PTL
===============================================================================

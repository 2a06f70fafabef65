------------------------------ MODULE Bitvector ------------------------------
(***************************************************************************)
(* Bit vectors with rank and select (bitvector.hpp, rank.hpp, select.hpp,  *)
(* popcount.h), word by word as the code computes them.                    *)
(*                                                                         *)
(* A word is the set of the offsets of its 1 bits, offset 0 being the most *)
(* significant bit.  A bit vector is a record of num_bits, its words bits  *)
(* (word 0 is bits[1]) and junk, the word that happens to lie behind them  *)
(* in memory.  Positions and word numbers count from 0.                    *)
(***************************************************************************)
EXTENDS Integers, Sequences, FiniteSets, FiniteSetsExt, SequencesExt

CONSTANTS
  WordSize,         \* kWordSize (64 in the code), a power of 2: no odd divisor but 1
  RankBlock,        \* kRankBasicBlockSize (512 in the code)
  SampleInterval    \* kSelectSampleInterval (64 in the code)

ASSUME BitvectorAssumption ==
  /\ WordSize \in Nat \ {0}
  /\ \A d \in 1 .. WordSize : WordSize % d = 0 => d = 1 \/ d % 2 = 0
  /\ RankBlock \in Nat \ {0}
  /\ RankBlock % WordSize = 0
  /\ SampleInterval \in Nat \ {0}

-------------------------------------------------------------------------------
(* Words *)

ShiftRight(w, k) == {o + k : o \in {x \in w : x + k < WordSize}}

ShiftLeft(w, k) == {o - k : o \in {x \in w : x >= k}}

(* __builtin_clzll and __builtin_ctzll *)
LeadingZeros(w) == Min(w)

TrailingZeros(w) == WordSize - 1 - Max(w)

(* select64_popcount_search: the window that holds the k-th 1 bit is halved
   until a single bit is left; behind that the search rests, at size 0. *)
SelectInWord(w, k) ==
  LET halve ==
        [window \in [first : Nat, k : Int, size : Nat] |->
           LET half == window.size \div 2
               left == Cardinality({o \in w : window.first <= o
                                                /\ o < window.first + half})
           IN  IF window.k > left
               THEN [first |-> window.first + half, k |-> window.k - left, size |-> half]
               ELSE [first |-> window.first, k |-> window.k, size |-> half]]
      search[i \in 0 .. WordSize] ==
        IF i = 0 THEN [first |-> 0, k |-> k, size |-> WordSize]
        ELSE halve[search[i - 1]]
      last == search[WordSize]
  IN  last.first + last.k - 1

-------------------------------------------------------------------------------
(* Construction.  A level is a record of its words and of num_bits, the number
   of bits of them that belong to the level. *)

NumWords(num_bits) == (num_bits + WordSize - 1) \div WordSize

(* What the builder hands over for a level: the words for its bits at least,
   and no 1 bit behind its last bit. *)
Levels ==
  {lvl \in [num_bits : Nat, words : Seq(SUBSET (0 .. WordSize - 1))] :
     /\ NumWords(lvl.num_bits) <= Len(lvl.words)
     /\ \A i \in 1 .. NumWords(lvl.num_bits) :
          \A o \in lvl.words[i] : (i - 1) * WordSize + o < lvl.num_bits}

(* The words of a level, each with the number of its bits that count. *)
WordsOfLevel(lvl) ==
  [i \in 1 .. NumWords(lvl.num_bits) |->
     [word |-> lvl.words[i],
      used |-> Min({WordSize, lvl.num_bits - (i - 1) * WordSize})]]

(* A faulty variant of AppendWord: the bits that do not fit into the current
   word are dropped. *)
AppendInWord(state, next) ==
  LET shift == state.bit_shift
      end   == shift + next.used
      bits  == [state.bits EXCEPT ![state.word_id + 1] =
                  @ \cup ShiftRight(next.word, shift)]
  IN  [bits |-> bits,
       word_id |-> IF end < WordSize THEN state.word_id ELSE state.word_id + 1,
       bit_shift |-> IF end < WordSize THEN end ELSE end - WordSize]

(* concatenateBitvectors, for one word: what does not fit into the current
   word goes to the next one. *)
AppendWord(state, next) ==
  LET shift == state.bit_shift
      end   == shift + next.used
      bits  == [state.bits EXCEPT ![state.word_id + 1] =
                  @ \cup ShiftRight(next.word, shift)]
  IN  IF end < WordSize
      THEN [state EXCEPT !.bits = bits, !.bit_shift = end]
      ELSE [bits |-> IF end = WordSize THEN bits
                     ELSE [bits EXCEPT ![state.word_id + 2] =
                             @ \cup ShiftLeft(next.word, WordSize - shift)],
            word_id |-> state.word_id + 1,
            bit_shift |-> end - WordSize]

TotalNumBits(levels) == FoldLeft(LAMBDA n, lvl : n + lvl.num_bits, 0, levels)

(* The constructor of Bitvector, for the levels that are concatenated. *)
MakeBitvector(levels, behind) ==
  LET num_bits == TotalNumBits(levels)
      zero == [bits |-> [i \in 1 .. NumWords(num_bits) |-> {}],
               word_id |-> 0, bit_shift |-> 0]
      words == FlattenSeq([i \in 1 .. Len(levels) |-> WordsOfLevel(levels[i])])
  IN  [num_bits |-> num_bits,
       bits |-> FoldLeft(AppendWord, zero, words).bits,
       junk |-> behind]

-------------------------------------------------------------------------------
(* Bitvector *)

(* bits_[word_id]: no access is checked in a release build. *)
WordAt(bv, word_id) ==
  IF word_id + 1 \in DOMAIN bv.bits THEN bv.bits[word_id + 1] ELSE bv.junk

ReadBit(bv, pos) == (pos % WordSize) \in WordAt(bv, pos \div WordSize)

(* A faulty variant of DistanceToNextSetBit: the search starts at pos itself. *)
DistanceFromPos(bv, pos) ==
  LET ones == {q \in pos .. bv.num_bits - 1 : ReadBit(bv, q)}
  IN  IF ones = {} THEN bv.num_bits - pos ELSE Min(ones) - pos

(* distanceToNextSetBit.  When no bit is left, the distance goes to num_bits_
   if pos + 1 is in the last word, else behind the last word. *)
DistanceToNextSetBit(bv, pos) ==
  LET last    == NumWords(bv.num_bits) - 1
      word_id == (pos + 1) \div WordSize
      offset  == (pos + 1) % WordSize
      rest    == ShiftLeft(WordAt(bv, word_id), offset)
      later   == {i \in word_id + 1 .. last : WordAt(bv, i) # {}}
      upTo(i) == 1 + (WordSize - offset) + (i - word_id - 1) * WordSize
  IN  IF rest # {} THEN 1 + LeadingZeros(rest)
      ELSE IF word_id = last THEN bv.num_bits - pos
      ELSE IF later # {} THEN upTo(Min(later)) + LeadingZeros(WordAt(bv, Min(later)))
      ELSE upTo(Max({last, word_id}) + 1)

(* A faulty variant of DistanceToPrevSetBit: an empty word is not counted. *)
DistanceWithinWords(bv, pos) ==
  LET ones == {q \in 0 .. pos - 1 : ReadBit(bv, q)}
  IN  IF ones = {} THEN pos + 1 ELSE ((pos - Max(ones) - 1) % WordSize) + 1

(* distanceToPrevSetBit; the distance to before position 0 if no bit is left. *)
DistanceToPrevSetBit(bv, pos) ==
  LET word_id == (pos - 1) \div WordSize
      offset  == (pos - 1) % WordSize
      rest    == ShiftRight(WordAt(bv, word_id), WordSize - 1 - offset)
      earlier == {i \in 0 .. word_id - 1 : WordAt(bv, i) # {}}
      downTo(i) == 1 + (offset + 1) + (word_id - 1 - i) * WordSize
  IN  IF pos = 0 THEN 0
      ELSE IF rest # {} THEN 1 + TrailingZeros(rest)
      ELSE IF earlier # {}
      THEN downTo(Max(earlier)) + TrailingZeros(WordAt(bv, Max(earlier)))
      ELSE downTo(-1)

-------------------------------------------------------------------------------
(* BitvectorRank *)

(* popcountLinear: the 1 bits among the nbits bits from word x on. *)
PopcountLinear(bv, x, nbits) ==
  LET lastword == (nbits - 1) \div WordSize
      lastbits == ShiftRight(WordAt(bv, x + lastword),
                             WordSize - 1 - ((nbits - 1) % WordSize))
  IN  MapThenSumSet(LAMBDA i : Cardinality(WordAt(bv, x + i)), 0 .. lastword - 1)
        + Cardinality(lastbits)

(* initRankLut: entry i counts the 1 bits of the blocks before block i. *)
RankLut(bv) ==
  LET words == RankBlock \div WordSize
      lut[i \in 0 .. bv.num_bits \div RankBlock] ==
        IF i = 0 THEN 0
        ELSE lut[i - 1] + PopcountLinear(bv, (i - 1) * words, RankBlock)
  IN  lut

MakeRank(levels, behind) ==
  LET bv == MakeBitvector(levels, behind)
  IN  [num_bits |-> bv.num_bits, bits |-> bv.bits, junk |-> bv.junk,
       rank_lut |-> RankLut(bv)]

(* A faulty variant of Rank: the bit at pos is not counted. *)
RankBefore(bv, pos) ==
  LET block == pos \div RankBlock
  IN  bv.rank_lut[block] + Cardinality({q \in block * RankBlock .. pos - 1 : ReadBit(bv, q)})

(* rank: the number of 1 bits at positions up to pos. *)
Rank(bv, pos) ==
  LET block == pos \div RankBlock
  IN  bv.rank_lut[block]
        + PopcountLinear(bv, block * (RankBlock \div WordSize), (pos % RankBlock) + 1)

-------------------------------------------------------------------------------
(* BitvectorSelect.  The first bit is taken to be a 1 bit. *)

(* The 1 bits in the words before word i. *)
OnesBefore(bv, i) ==
  MapThenSumSet(LAMBDA j : Cardinality(WordAt(bv, j)), 0 .. i - 1)

(* A faulty variant of SampledRank: the 1 bits are counted from 0. *)
SampledRankFromZero(i) == i * SampleInterval - 1

(* The 1 bit whose position is sampled in entry i > 0. *)
SampledRank(i) == i * SampleInterval

(* initSelectLut: entry 0 is position 0, entry i the position of
   the SampledRank(i)-th 1 bit. *)
SelectLut(bv) ==
  LET ones == OnesBefore(bv, NumWords(bv.num_bits))
      word(n) == CHOOSE i \in 0 .. NumWords(bv.num_bits) - 1 :
                   /\ OnesBefore(bv, i) < n
                   /\ n <= OnesBefore(bv, i + 1)
      sample(n) == word(n) * WordSize
                     + SelectInWord(WordAt(bv, word(n)), n - OnesBefore(bv, word(n)))
  IN  [i \in 0 .. ones \div SampleInterval |->
         IF i = 0 THEN 0 ELSE sample(SampledRank(i))]

MakeSelect(levels, behind) ==
  LET bv == MakeBitvector(levels, behind)
  IN  [num_bits |-> bv.num_bits, bits |-> bv.bits, junk |-> bv.junk,
       num_ones |-> OnesBefore(bv, NumWords(bv.num_bits)),
       select_lut |-> SelectLut(bv)]

(* The 1 bits to go from the sample: the first slot already stands for one. *)
RanksLeft(rank) ==
  (rank % SampleInterval) - (IF rank < SampleInterval THEN 1 ELSE 0)

(* select: the position of the rank-th 1 bit, searched from the sample on. *)
Select(bv, rank) ==
  LET left  == RanksLeft(rank)
      pos   == bv.select_lut[rank \div SampleInterval]
      start == (pos + 1) \div WordSize
      word(i) == IF i = start
                 THEN {o \in WordAt(bv, i) : o >= (pos + 1) % WordSize}
                 ELSE WordAt(bv, i)
      passed(i) == MapThenSumSet(LAMBDA j : Cardinality(word(j)), start .. i - 1)
      found == CHOOSE i \in start .. NumWords(bv.num_bits) - 1 :
                 passed(i) < left /\ left <= passed(i + 1)
  IN  IF left = 0 THEN pos
      ELSE found * WordSize + SelectInWord(word(found), left - passed(found))
===============================================================================

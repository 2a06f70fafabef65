------------------------ MODULE BitvectorQueries_proofs ------------------------
(*****************************************************************************)
(* The theorems about the bit vectors: whatever levels a bit vector is       *)
(* built from, the concatenation, rank, select, next and prev answer what    *)
(* the plain bits say.                                                       *)
(*****************************************************************************)
EXTENDS BitvectorQueries, Bitvector_proofs

-------------------------------------------------------------------------------
(* The specification *)

(* The bit vector, once it is built, is one the constructors make of its levels. *)
BuiltOK ==
  /\ levels \in LevelLists
  /\ query # NotBuilt => BuiltFrom(bv, levels)

(* The inductive invariant. *)
BitvectorInv == BuiltOK /\ RankExact /\ SelectExact /\ NextExactInside /\ PrevExact

(* What was built has the plain bits. *)
LEMMA OnesIs == BuiltOK /\ query # NotBuilt => BitvectorOK(bv) /\ OneBits(bv) = Ones
  BY DEF BuiltOK, BuiltFrom, Ones, OnesOf, Positions, StartOf

(* Every build makes a correct bit vector, and no question changes it. *)
LEMMA BuiltOKStep == BuiltOK /\ [Next]_vars => BuiltOK'
<1> SUFFICES ASSUME BuiltOK, [Next]_vars
             PROVE  BuiltOK'
  OBVIOUS
<1>1. CASE Build
  <2>1. levels \in Seq(Levels) /\ levels' = levels
    BY <1>1, LevelListsAssumption DEF BuiltOK, Build
  <2>2. PICK behind \in {{}, 0 .. WordSize - 1} :
          bv' = [num_bits |-> MakeRank(levels, behind).num_bits,
                 bits |-> MakeRank(levels, behind).bits,
                 junk |-> behind,
                 rank_lut |-> MakeRank(levels, behind).rank_lut,
                 num_ones |-> MakeSelect(levels, behind).num_ones,
                 select_lut |-> MakeSelect(levels, behind).select_lut]
    BY <1>1 DEF Build
  <2>3. BuiltFrom(bv', levels)
    BY <2>1, <2>2, ConstructorsCorrect
  <2>4. QED
    BY <2>1, <2>3 DEF BuiltOK
<1>2. CASE AskRank \/ AskSelect \/ AskNext \/ AskPrev \/ UNCHANGED vars
  <2>1. levels' = levels /\ bv' = bv /\ (query' # NotBuilt => query # NotBuilt)
    BY <1>2 DEF AskRank, AskSelect, AskNext, AskPrev, Ask, vars, NoQuery, NotBuilt
  <2>2. QED
    BY <2>1 DEF BuiltOK
<1>3. QED
  BY <1>1, <1>2 DEF Next

(* Every answer is the one that the plain bits give. *)
LEMMA AnswersStep ==
  BitvectorInv /\ [Next]_vars => RankExact' /\ SelectExact' /\ NextExactInside' /\ PrevExact'
<1> SUFFICES ASSUME BitvectorInv, [Next]_vars
             PROVE  RankExact' /\ SelectExact' /\ NextExactInside' /\ PrevExact'
  OBVIOUS
<1> USE DEF RankExact, SelectExact, NextExactInside, PrevExact
<1>1. ASSUME query = NoQuery
      PROVE  /\ BitvectorOK(bv) /\ OneBits(bv) = Ones /\ BuiltFrom(bv, levels)
             /\ bv.num_bits \in Nat /\ Len(bv.bits) = NumWords(bv.num_bits)
  <2>1. query # NotBuilt
    BY <1>1 DEF NoQuery, NotBuilt
  <2>2. BitvectorOK(bv) /\ OneBits(bv) = Ones /\ BuiltFrom(bv, levels)
    BY <2>1, OnesIs DEF BitvectorInv, BuiltOK
  <2>3. bv.num_bits \in Nat /\ NumWords(bv.num_bits) \in Nat
    BY <2>2, NumWordsBounds DEF BitvectorOK
  <2>4. Len(bv.bits) = NumWords(bv.num_bits)
    <3> HIDE DEF NumWords
    <3>1. bv.bits \in [1 .. NumWords(bv.num_bits) -> SUBSET Word]
      BY <2>2 DEF BitvectorOK
    <3>2. bv.bits \in Seq(SUBSET Word) /\ DOMAIN bv.bits = 1 .. NumWords(bv.num_bits)
      BY <2>3, <3>1
    <3>3. QED
      BY <2>3, <3>2
  <2>5. QED
    BY <2>2, <2>3, <2>4
<1>2. ASSUME levels' = levels, bv' = bv
      PROVE  /\ Ones' = Ones /\ \A pos : Before(pos)' = Before(pos) /\ After(pos)' = After(pos)
             /\ Len(bv.bits)' = Len(bv.bits)
  BY <1>2 DEF Ones, Positions, StartOf, Before, After
<1>3. CASE Build
  BY <1>3 DEF Build, NoQuery
<1>4. CASE AskRank
  <2>1. PICK pos \in Positions : Ask("rank", pos, Rank(bv, pos))
    BY <1>4 DEF AskRank
  <2>2. /\ query' = [op |-> "rank", arg |-> pos] /\ answer' = Rank(bv, pos)
        /\ levels' = levels /\ bv' = bv
    BY <2>1 DEF Ask
  <2>3. Rank(bv, pos) = Cardinality({q \in OneBits(bv) : q <= pos})
    BY <1>1, <1>4, <2>1, RankCorrect DEF AskRank, Positions, BuiltFrom
  <2>4. answer' = Cardinality({q \in Ones' : q <= pos})
    BY <1>1, <1>2, <1>4, <2>2, <2>3 DEF AskRank
  <2>5. QED
    BY <2>2, <2>4
<1>5. CASE AskSelect
  <2>1. PICK r \in 1 .. bv.num_ones : Ask("select", r, Select(bv, r))
    BY <1>5 DEF AskSelect
  <2>2. /\ query' = [op |-> "select", arg |-> r] /\ answer' = Select(bv, r)
        /\ levels' = levels /\ bv' = bv
    BY <2>1 DEF Ask
  <2>3. /\ BitvectorOK(bv) /\ OneBits(bv) = Ones /\ SelectOK(bv)
        /\ r \in 1 .. Cardinality(OneBits(bv))
    BY <1>1, <1>5, <2>1 DEF AskSelect, BuiltFrom, SelectOK
  <2>4. 0 \in OneBits(bv)
    BY <1>1, <1>5 DEF AskSelect, OneBits
  <2>5. Select(bv, r) \in OneBits(bv) /\ OnesUpTo(bv, Select(bv, r) + 1) = r
    BY <2>3, <2>4, SelectCorrect
  <2>6. {q \in OneBits(bv) : q < Select(bv, r) + 1} = {q \in OneBits(bv) : q <= Select(bv, r)}
    <3>1. \A q \in OneBits(bv) : q \in Int
      BY <2>3, BitsFinite
    <3>2. QED
      BY <2>5, <3>1
  <2>7. answer' \in Ones' /\ Cardinality({q \in Ones' : q <= answer'}) = r
    BY <1>2, <2>2, <2>3, <2>5, <2>6 DEF OnesUpTo
  <2>8. QED
    BY <2>2, <2>7
<1>6. CASE AskNext
  <2>1. PICK pos \in Positions : Ask("next", pos, DistanceToNextSetBit(bv, pos))
    BY <1>6 DEF AskNext
  <2>2. /\ query' = [op |-> "next", arg |-> pos] /\ answer' = DistanceToNextSetBit(bv, pos)
        /\ levels' = levels /\ bv' = bv
    BY <2>1 DEF Ask
  <2>3. /\ BitvectorOK(bv) /\ OneBits(bv) = Ones /\ pos \in 0 .. bv.num_bits - 1
        /\ Len(bv.bits) = NumWords(bv.num_bits)
    BY <1>1, <1>6, <2>1 DEF AskNext, Positions
  <2>4. /\ After(pos) # {} => answer' = Min(After(pos)) - pos
        /\ After(pos) = {} /\ (pos + 1) \div WordSize = Len(bv.bits) - 1
             => answer' = bv.num_bits - pos
    BY <2>2, <2>3, NextCorrect DEF After
  <2>5. After(pos)' = After(pos) /\ Len(bv.bits)' = Len(bv.bits)
    BY <1>2, <2>2
  <2>6. NextExactInside'
    BY <2>2, <2>4, <2>5
  <2>7. QED
    BY <2>2, <2>6
<1>7. CASE AskPrev
  <2>1. PICK pos \in 0 .. bv.num_bits : Ask("prev", pos, DistanceToPrevSetBit(bv, pos))
    BY <1>7 DEF AskPrev
  <2>2. /\ query' = [op |-> "prev", arg |-> pos] /\ answer' = DistanceToPrevSetBit(bv, pos)
        /\ levels' = levels /\ bv' = bv
    BY <2>1 DEF Ask
  <2>3. BitvectorOK(bv) /\ OneBits(bv) = Ones /\ bv.num_bits \in Nat
    BY <1>1, <1>7 DEF AskPrev
  <2>4. pos > 0 => answer' = pos - Max(Before(pos) \cup {-1})
    BY <2>1, <2>2, <2>3, PrevCorrect DEF Before
  <2>5. Before(pos)' = Before(pos)
    BY <1>2, <2>2
  <2>6. PrevExact'
    BY <2>2, <2>4, <2>5
  <2>7. QED
    BY <2>2, <2>6
<1>8. CASE UNCHANGED vars
  <2>1. levels' = levels /\ bv' = bv /\ query' = query /\ answer' = answer
    BY <1>8 DEF vars
  <2>2. QED
    BY <1>2, <2>1 DEF BitvectorInv
<1>9. QED
  BY <1>3, <1>4, <1>5, <1>6, <1>7, <1>8 DEF Next

(* A bit vector is built right and answers right, for all word, block and sample
   sizes and for all levels. *)
THEOREM BitvectorCorrect == Spec => []BitvectorInv
<1>1. Init => BitvectorInv
  BY DEF Init, BitvectorInv, BuiltOK, RankExact, SelectExact, NextExactInside, PrevExact, NotBuilt
<1>2. BitvectorInv /\ [Next]_vars => BitvectorInv'
  BY BuiltOKStep, AnswersStep DEF BitvectorInv
<1>3. QED
  BY <1>1, <1>2, PTL DEF Spec

(* concatenateBitvectors loses, moves and adds no bit. *)
THEOREM ConcatenationIsExact == Spec => []ConcatenationExact
<1>1. BitvectorInv => ConcatenationExact
  <2> SUFFICES ASSUME BitvectorInv, query # NotBuilt
               PROVE  UNION {{i * WordSize + o : o \in bv.bits[i + 1]} : i \in 0 .. Len(bv.bits) - 1}
                        = Ones
    BY DEF ConcatenationExact
  <2> DEFINE n == NumWords(bv.num_bits)
             here(i) == {i * WordSize + o : o \in bv.bits[i + 1]}
  <2>1. BitvectorOK(bv) /\ OneBits(bv) = Ones
    BY OnesIs DEF BitvectorInv
  <2>2. Len(bv.bits) = n
    <3>1. n \in Nat
      BY <2>1, NumWordsBounds DEF BitvectorOK
    <3> HIDE DEF n
    <3>2. bv.bits \in [1 .. n -> SUBSET Word]
      BY <2>1 DEF BitvectorOK, n
    <3>3. bv.bits \in Seq(SUBSET Word) /\ DOMAIN bv.bits = 1 .. n
      BY <3>1, <3>2
    <3>4. QED
      BY <3>1, <3>3
  <2>3. ASSUME NEW i \in 0 .. n - 1, NEW p \in here(i)
        PROVE  p \in OneBits(bv)
    <3>1. PICK o \in bv.bits[i + 1] : p = i * WordSize + o
      OBVIOUS
    <3>2. o \in WordAt(bv, i) /\ o \in Word
      BY <2>1, WordHasBits
    <3>3. QED
      BY <2>1, <3>1, <3>2, WordHasBits
  <2>4. ASSUME NEW p \in OneBits(bv)
        PROVE  \E i \in 0 .. n - 1 : p \in here(i)
    <3> DEFINE i == p \div WordSize
               o == p % WordSize
    <3>1. p \in Int
      BY <2>1, BitsFinite
    <3>2. i \in 0 .. n - 1 /\ o \in WordAt(bv, i)
      BY <2>1, BitInWord
    <3>3. o \in bv.bits[i + 1]
      BY <2>1, <3>2, WordHasBits
    <3>4. p = i * WordSize + o
      BY <3>1, PositionOf
    <3> HIDE DEF i, o, n
    <3>5. p \in here(i)
      BY <3>3, <3>4
    <3> HIDE DEF here
    <3>6. QED
      BY <3>2, <3>5
  <2> HIDE DEF here, n
  <2>5. UNION {here(i) : i \in 0 .. n - 1} = OneBits(bv)
    BY <2>3, <2>4
  <2>6. QED
    BY <2>1, <2>2, <2>5 DEF here
<1>2. QED
  BY <1>1, BitvectorCorrect, PTL

(* rank counts the 1 bits up to and with a position, across words and blocks. *)
THEOREM RankIsExact == Spec => []RankExact
<1>1. BitvectorInv => RankExact
  BY DEF BitvectorInv
<1>2. QED
  BY <1>1, BitvectorCorrect, PTL

(* select is the inverse of rank, across words and samples. *)
THEOREM SelectIsExact == Spec => []SelectExact
<1>1. BitvectorInv => SelectExact
  BY DEF BitvectorInv
<1>2. QED
  BY <1>1, BitvectorCorrect, PTL

(* distanceToNextSetBit leads to the next 1 bit. *)
THEOREM NextIsExact == Spec => []NextExactInside
<1>1. BitvectorInv => NextExactInside
  BY DEF BitvectorInv
<1>2. QED
  BY <1>1, BitvectorCorrect, PTL

(* distanceToPrevSetBit leads to the 1 bit before, or before the start. *)
THEOREM PrevIsExact == Spec => []PrevExact
<1>1. BitvectorInv => PrevExact
  BY DEF BitvectorInv
<1>2. QED
  BY <1>1, BitvectorCorrect, PTL
================================================================================

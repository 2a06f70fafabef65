--------------------------- MODULE FSTStorage_proofs ---------------------------
(***************************************************************************)
(* Theorems about FST::serialize and FST::deSerialize.                     *)
(*                                                                         *)
(* First what the parts of an image are sized by is shown to be numbers    *)
(* once create has made the vectors; for the bit vectors this uses what    *)
(* FST_proofs shows of the constructors, whose hypothesis, that every      *)
(* level fits the words it is handed over in, is an invariant of the       *)
(* builder.  Then come sums, the layout of a part, its cells, and the      *)
(* image as a whole; StoreInv, the inductive invariant, says that the      *)
(* buffer holds the image of the parts written so far and that what was    *)
(* read is what is there.                                                  *)
(***************************************************************************)
EXTENDS FSTStorage, FST_proofs

-------------------------------------------------------------------------------
(* The trie *)

(* What a part of an image is sized by. *)
SizesAreNat ==
  /\ louds_dense.label_bitmaps.num_bits \in Nat
  /\ louds_dense.child_indicator_bitmaps.num_bits \in Nat
  /\ louds_dense.prefixkey_indicator_bits.num_bits \in Nat
  /\ Len(louds_sparse.labels.labels) \in Nat
  /\ louds_sparse.child_indicator_bits.num_bits \in Nat
  /\ louds_sparse.louds_bits.num_bits \in Nat
  /\ louds_sparse.louds_bits.num_ones \in Nat

(* The builder's vectors can be handed over; once they are, the sizes are numbers. *)
TrieInv ==
  /\ HandoverInv
  /\ louds_sparse = NotCreated \/ SizesAreNat

(* The number of the bits a bit vector with rank is built from. *)
LEMMA NumBitsIsNat ==
  ASSUME NEW list, NEW k, k \in Nat, DOMAIN list = 1 .. k,
         \A i \in 1 .. k : list[i].num_bits \in Nat, NEW behind
  PROVE  BV!MakeRank(list, behind).num_bits \in Nat
<1>1. BVP!TotalNumBits(list) \in Nat
  BY BVP!TotalIsNat, ConstantsAssumption, TablesAssumption
<1>2. BV!TotalNumBits(list) \in Nat
  BY <1>1, SameConstructors
<1>3. BV!MakeRank(list, behind).num_bits = BV!TotalNumBits(list)
  BY DEF BV!MakeRank, BV!MakeBitvector
<1>4. QED
  BY <1>2, <1>3

(* create makes vectors whose sizes are numbers. *)
LEMMA CreateMakesSizes == HandoverInv /\ Create => SizesAreNat'
<1> SUFFICES ASSUME HandoverInv, Create
             PROVE  SizesAreNat'
  OBVIOUS
<1>1. louds_dense' = MakeLoudsDense /\ louds_sparse' = MakeLoudsSparse
  BY DEF Create
<1>2. /\ TypeOK /\ MaxLevel \in Nat /\ Fanout \in Nat
      /\ height \in 0 .. MaxLevel + 1 /\ sparse_start_level \in Nat
      /\ sparse_start_level <= height /\ Len(dense) <= height /\ Len(dense) \in Nat
      /\ node_counts \in [Levels -> Nat]
  BY ConstantsAssumption DEF HandoverInv, SlotsInv, TypeInv, TypeOK
<1>3. \A i \in 1 .. Len(dense) : i - 1 \in Levels
  BY <1>2 DEF Levels
<1>4. \A i \in 1 .. Len(dense) :
        node_counts[i - 1] \in Nat /\ node_counts[i - 1] * Fanout \in Nat
  BY <1>2, <1>3
<1>5. ASSUME NEW bitmap
      PROVE  BV!MakeRank(BitmapLevels(bitmap), {}).num_bits \in Nat
  <2> DEFINE list == BitmapLevels(bitmap)
             k == Len(dense)
  <2>1. DOMAIN list = 1 .. k /\ \A i \in 1 .. k : list[i].num_bits \in Nat
    BY <1>4 DEF BitmapLevels
  <2>2. k \in Nat
    BY <1>2
  <2> HIDE DEF list, k
  <2>3. BV!MakeRank(list, {}).num_bits \in Nat
    BY <2>1, <2>2, NumBitsIsNat
  <2>4. QED
    BY <2>3 DEF list
<1>6. BV!MakeRank(PrefixkeyLevels, {}).num_bits \in Nat
  <2> DEFINE list == PrefixkeyLevels
             k == Len(dense)
  <2>1. DOMAIN list = 1 .. k /\ \A i \in 1 .. k : list[i].num_bits \in Nat
    BY <1>4 DEF PrefixkeyLevels
  <2>2. k \in Nat
    BY <1>2
  <2> HIDE DEF list, k
  <2>3. BV!MakeRank(list, {}).num_bits \in Nat
    BY <2>1, <2>2, NumBitsIsNat
  <2>4. QED
    BY <2>3 DEF list
<1>7. BV!MakeRank(SparseLevels(child_indicator_bits), {}).num_bits \in Nat
  <2> DEFINE list == SparseLevels(child_indicator_bits)
             k == height - sparse_start_level
  <2>1. DOMAIN list = 1 .. k /\ k \in Nat
    BY <1>2 DEF SparseLevels
  <2>2. ASSUME NEW i \in 1 .. k
        PROVE  list[i].num_bits \in Nat
    <3>1. sparse_start_level + i - 1 \in Levels
      BY <1>2 DEF Levels
    <3>2. GetNumItems(sparse_start_level + i - 1) \in Nat
      BY <1>2, <3>1 DEF GetNumItems, TypeOK
    <3>3. QED
      BY <3>2 DEF SparseLevels
  <2> HIDE DEF list, k
  <2>3. BV!MakeRank(list, {}).num_bits \in Nat
    BY <2>1, <2>2, NumBitsIsNat
  <2>4. QED
    BY <2>3 DEF list
<1>8. /\ BV!MakeSelect(SparseLevels(louds_bits), {}).num_bits \in Nat
      /\ BV!MakeSelect(SparseLevels(louds_bits), {}).num_ones \in Nat
  <2> DEFINE list == SparseLevels(louds_bits)
  <2>1. list \in Seq(BVP!Levels)
    BY SparseHandedOver
  <2> HIDE DEF list
  <2>2. BVP!MakeSelect(list, {}).num_bits \in Nat /\ BVP!MakeSelect(list, {}).num_ones \in Nat
    BY <2>1, BVP!CountsAreNat, ConstantsAssumption, TablesAssumption
  <2>3. QED
    BY <2>2, SameConstructors DEF list
<1>9. Len(FlattenSeq([i \in 1 .. height - sparse_start_level |->
                        labels[sparse_start_level + i - 1]])) \in Nat
  <2> DEFINE k == height - sparse_start_level
             seqs == [i \in 1 .. k |-> labels[sparse_start_level + i - 1]]
  <2>1. k \in Nat
    BY <1>2
  <2>2. \A i \in 1 .. k : labels[sparse_start_level + i - 1] \in Seq(Label)
    <3>1. \A i \in 1 .. k : sparse_start_level + i - 1 \in Levels
      BY <1>2 DEF Levels
    <3>2. QED
      BY <1>2, <3>1 DEF TypeOK
  <2>3. seqs \in [1 .. k -> Seq(Label)]
    BY <2>2
  <2> HIDE DEF k
  <2>4. seqs \in Seq(Seq(Label)) /\ Len(seqs) \in Nat
    BY <2>1, <2>3
  <2> HIDE DEF seqs
  <2>5. PICK f : FlatPrefixes(f, seqs, Len(seqs), Label) /\ FlattenSeq(seqs) = f[Len(seqs)]
    BY <2>4, FlattenIs
  <2>6. FlattenSeq(seqs) \in Seq(Label)
    <3>1. Len(seqs) \in 0 .. Len(seqs)
      BY <2>4
    <3>2. QED
      BY <2>5, <3>1 DEF FlatPrefixes
  <2>7. Len(FlattenSeq(seqs)) \in Nat
    BY <2>6
  <2>8. QED
    BY <2>7 DEF seqs, k
<1>10. /\ louds_dense'.label_bitmaps.num_bits \in Nat
       /\ louds_dense'.child_indicator_bitmaps.num_bits \in Nat
       /\ louds_dense'.prefixkey_indicator_bits.num_bits \in Nat
  BY <1>1, <1>5, <1>6 DEF MakeLoudsDense
<1>11. /\ Len(louds_sparse'.labels.labels) \in Nat
       /\ louds_sparse'.child_indicator_bits.num_bits \in Nat
       /\ louds_sparse'.louds_bits.num_bits \in Nat
       /\ louds_sparse'.louds_bits.num_ones \in Nat
  BY <1>1, <1>7, <1>8, <1>9 DEF MakeLoudsSparse
<1>12. QED
  BY <1>10, <1>11 DEF SizesAreNat

(* A created trie is one. *)
LEMMA CreatedIsCreated == MakeLoudsSparse # NotCreated
<1>1. "labels" \in DOMAIN MakeLoudsSparse
  BY DEF MakeLoudsSparse
<1>2. ~("labels" \in DOMAIN NotCreated)
  BY DEF NotCreated
<1>3. QED
  BY <1>1, <1>2

(* Building and creating the trie keeps the invariant. *)
LEMMA TrieStep ==
  TrieInv /\ (BuildStep \/ Create \/ UNCHANGED allVars) => TrieInv'
<1> SUFFICES ASSUME TrieInv, BuildStep \/ Create \/ UNCHANGED allVars
             PROVE  TrieInv'
  OBVIOUS
<1>1. CASE BuildStep
  <2>1. HandoverInv'
    BY <1>1, HandoverStep DEF BuildStep, TrieInv
  <2>2. UNCHANGED <<louds_dense, louds_sparse>>
    BY <1>1 DEF BuildStep, fstVars
  <2>3. QED
    BY <2>1, <2>2 DEF TrieInv, SizesAreNat
<1>2. CASE Create
  <2>1. HandoverInv'
    BY <1>2, HandoverStep DEF Create, TrieInv, builderVars
  <2>2. QED
    BY <1>2, <2>1, CreateMakesSizes DEF TrieInv
<1>3. CASE UNCHANGED allVars
  <2>1. HandoverInv'
    BY <1>3, HandoverStep DEF allVars, TrieInv, builderVars
  <2>2. UNCHANGED <<louds_dense, louds_sparse>>
    BY <1>3 DEF allVars, fstVars
  <2>3. QED
    BY <2>1, <2>2 DEF TrieInv, SizesAreNat
<1>4. QED
  BY <1>1, <1>2, <1>3

-------------------------------------------------------------------------------
(* Sums *)

(* t[i] is the sum of the first i of k numbers. *)
Sums(t, list, k) ==
  /\ k \in Nat
  /\ DOMAIN list = 1 .. k
  /\ \A i \in 1 .. k : list[i] \in Nat
  /\ t[0] = 0
  /\ \A i \in 1 .. k : t[i] = t[i - 1] + list[i]

(* SumOf adds up what t adds up. *)
LEMMA SumIs ==
  ASSUME NEW list, NEW k, NEW t, Sums(t, list, k)
  PROVE  SumOf(list) = t[k]
<1> USE DEF Sums
<1> DEFINE S == 1 .. k
           step == [c \in S \X Nat |-> c[2] + list[c[1]]]
           pick == [s \in SUBSET S |-> Max(s)]
           iter == CHOOSE g : g = [s \in SUBSET S |->
                     IF s = {} THEN 0 ELSE g[s \ {Max(s)}] + list[Max(s)]]
<1>1. SumOf(list) = iter[S]
  BY DEF SumOf, FoldLeft, MapThenFoldSet
<1>2. \A s \in SUBSET S : s # {} => Max(s) \in s /\ pick[s] = Max(s)
  BY InitialSegments
<1>3. /\ step \in [S \X Nat -> Nat]
      /\ \A i \in S, v \in Nat : step[<<i, v>>] = v + list[i]
  <2>1. \A c \in S \X Nat : c[1] \in S /\ c[2] \in Nat /\ list[c[1]] \in Nat
    OBVIOUS
  <2> HIDE DEF S
  <2>2. step \in [S \X Nat -> Nat]
    BY <2>1
  <2>3. ASSUME NEW i \in S, NEW v \in Nat
        PROVE  step[<<i, v>>] = v + list[i]
    OBVIOUS
  <2>4. QED
    BY <2>2, <2>3
<1>4. FoldData(S, Nat, 0, step, pick)
  <2>1. IsFiniteSet(S)
    BY FS_Interval
  <2> HIDE DEF S, step, pick
  <2>2. QED
    BY <1>2, <1>3, <2>1 DEF FoldData
<1>5. PICK g : IsFold(g, S, Nat, 0, step, pick)
  <2> HIDE DEF S, step, pick
  <2>1. QED
    BY <1>4, FoldExists
<1>5a. /\ g \in [SUBSET S -> Nat]
      /\ \A s \in SUBSET S :
           g[s] = IF s = {} THEN 0 ELSE step[<<pick[s], g[s \ {pick[s]}]>>]
  BY <1>5 DEF IsFold
<1>6. g = [s \in SUBSET S |->
             IF s = {} THEN 0 ELSE g[s \ {Max(s)}] + list[Max(s)]]
  <2>1. ASSUME NEW s \in SUBSET S, s # {}
        PROVE  g[s] = g[s \ {Max(s)}] + list[Max(s)]
    <3>1. Max(s) \in S /\ s \ {Max(s)} \in SUBSET S
      BY <1>2, <2>1
    <3>2. g[s] = step[<<Max(s), g[s \ {Max(s)}]>>]
      BY <1>2, <1>5a, <2>1
    <3>3. g[s \ {Max(s)}] \in Nat
      BY <1>5a, <3>1
    <3> HIDE DEF S, step
    <3>4. QED
      BY <1>3, <3>1, <3>2, <3>3
  <2>2. g[{}] = 0
    BY <1>5a
  <2>3. g = [s \in SUBSET S |-> g[s]]
    BY <1>5a
  <2> HIDE DEF S, step, pick
  <2>4. QED
    BY <2>1, <2>2, <2>3
<1>7. iter = [s \in SUBSET S |->
                IF s = {} THEN 0 ELSE iter[s \ {Max(s)}] + list[Max(s)]]
  BY <1>6
<1> HIDE DEF iter
<1> DEFINE P == {j \in 0 .. k : iter[1 .. j] = t[j]}
<1>8. 0 \in P
  <2>1. 1 .. 0 = {} /\ {} \in SUBSET S
    OBVIOUS
  <2>2. iter[{}] = 0
    BY <1>7, <2>1
  <2>3. QED
    BY <2>1, <2>2
<1>9. \A j \in 0 .. k - 1 : j \in P => j + 1 \in P
  <2> SUFFICES ASSUME NEW j \in 0 .. k - 1, iter[1 .. j] = t[j]
               PROVE  iter[1 .. j + 1] = t[j + 1]
    OBVIOUS
  <2>1. j + 1 \in 1 .. k /\ (j + 1) - 1 = j
    OBVIOUS
  <2>2. /\ 1 .. j + 1 \in SUBSET S /\ 1 .. j + 1 # {}
        /\ Max(1 .. j + 1) = j + 1 /\ (1 .. j + 1) \ {j + 1} = 1 .. j
    BY <2>1, InitialSegments
  <2>3. iter[1 .. j + 1] = iter[1 .. j] + list[j + 1]
    <3> DEFINE r == 1 .. j + 1
    <3>1. r \in SUBSET S /\ r # {} /\ Max(r) = j + 1 /\ r \ {j + 1} = 1 .. j
      BY <2>2
    <3> HIDE DEF r, S
    <3>2. iter[r] = iter[r \ {Max(r)}] + list[Max(r)]
      BY <1>7, <3>1
    <3>3. iter[r] = iter[1 .. j] + list[j + 1]
      BY <3>1, <3>2
    <3>4. QED
      BY <3>3 DEF r
  <2>4. t[j + 1] = t[j] + list[j + 1]
    BY <2>1
  <2>5. QED
    BY <2>3, <2>4
<1> HIDE DEF P
<1>10. k \in P
  <2>1. \A j \in 0 .. k : j \in P
    BY <1>8, <1>9, UpToInduct
  <2>2. QED
    BY <2>1
<1>11. QED
  BY <1>1, <1>10 DEF P

(* The sums of up to three numbers. *)
LEMMA ShortSums ==
  ASSUME NEW s, NEW k \in 0 .. 3, DOMAIN s = 1 .. k, \A i \in 1 .. k : s[i] \in Nat
  PROVE  /\ k = 0 => SumOf(s) = 0
         /\ k = 1 => SumOf(s) = s[1]
         /\ k = 2 => SumOf(s) = s[1] + s[2]
         /\ k = 3 => SumOf(s) = s[1] + s[2] + s[3]
<1> DEFINE one == IF k > 0 THEN s[1] ELSE 0
           two == IF k > 1 THEN s[1] + s[2] ELSE one
           t == [i \in 0 .. 3 |-> IF i = 0 THEN 0
                                  ELSE IF i = 1 THEN one
                                  ELSE IF i = 2 THEN two
                                  ELSE IF k = 3 THEN s[1] + s[2] + s[3] ELSE 0]
<1>1. /\ k > 0 => s[1] \in Nat
      /\ k > 1 => s[2] \in Nat
      /\ k > 2 => s[3] \in Nat
  OBVIOUS
<1>2. t[0] = 0 /\ t[1] = one /\ t[2] = two /\ t[3] = IF k = 3 THEN s[1] + s[2] + s[3] ELSE 0
  OBVIOUS
<1> HIDE DEF t
<1>3. \A i \in 1 .. k : t[i] = t[i - 1] + s[i]
  <2> SUFFICES ASSUME NEW i \in 1 .. k PROVE t[i] = t[i - 1] + s[i]
    OBVIOUS
  <2>1. CASE i = 1
    BY <1>1, <1>2, <2>1
  <2>2. CASE i = 2
    BY <1>1, <1>2, <2>2
  <2>3. CASE i = 3
    BY <1>1, <1>2, <2>3
  <2>4. QED
    BY <2>1, <2>2, <2>3
<1>4. Sums(t, s, k)
  BY <1>2, <1>3 DEF Sums
<1>5. SumOf(s) = t[k]
  BY <1>4, SumIs
<1>6. QED
  BY <1>2, <1>5

-------------------------------------------------------------------------------
(* One part *)

(* align goes to the next multiple of 8, from wherever the buffer starts. *)
LEMMA AlignedUp ==
  ASSUME NEW p \in Nat, NEW q \in Nat
  PROVE  /\ Aligned(p) \in Nat /\ Aligned(p) % 8 = 0 /\ p <= Aligned(p)
         /\ q % 8 = 0 => Aligned(q + p) = q + Aligned(p)
         /\ p % 8 = 0 => Aligned(p) = p
<1>1. Aligned(p) = ((p + 7) \div 8) * 8
  BY DEF Aligned
<1>2. Aligned(q + p) = (((q + p) + 7) \div 8) * 8
  BY DEF Aligned
<1>3. q % 8 = 0 => (((q + p) + 7) \div 8) * 8 = q + ((p + 7) \div 8) * 8
  OBVIOUS
<1>4. QED
  BY <1>1, <1>2, <1>3

(* The numbers of part i. *)
NumbersOK(i, n) ==
  /\ n = [k \in 1 .. NumNumbers(i) |-> n[k]]
  /\ Kinds[i] # "counters" => n[1] \in Nat
  /\ Kinds[i] \in {"rank", "select"} => n[2] \in Nat
  /\ Kinds[i] = "select" => n[3] \in Nat

(* The kinds of the parts. *)
LEMMA KindsAre ==
  ASSUME NEW i \in Parts
  PROVE  /\ i \in 1 .. 8
         /\ Kinds[i] = "counters" <=> i \in {1, 5}
         /\ Kinds[i] = "rank" <=> i \in {2, 3, 4, 7}
         /\ Kinds[i] = "labels" <=> i = 6
         /\ Kinds[i] = "select" <=> i = 8
         /\ NumNumbers(i) \in 1 .. 4
         /\ Kinds[i] # "counters" => NumNumbers(i) = IF Kinds[i] = "labels" THEN 1
                                                     ELSE IF Kinds[i] = "select" THEN 3 ELSE 2
<1>1. i \in 1 .. 8
  BY DEF Parts, Kinds
<1>2. /\ Kinds[1] = "counters" /\ Kinds[2] = "rank" /\ Kinds[3] = "rank" /\ Kinds[4] = "rank"
      /\ Kinds[5] = "counters" /\ Kinds[6] = "labels" /\ Kinds[7] = "rank" /\ Kinds[8] = "select"
  BY DEF Kinds
<1>3. /\ NumNumbers(1) = 1 /\ NumNumbers(2) = 2 /\ NumNumbers(3) = 2 /\ NumNumbers(4) = 2
      /\ NumNumbers(5) = 4 /\ NumNumbers(6) = 1 /\ NumNumbers(7) = 2 /\ NumNumbers(8) = 3
  BY DEF NumNumbers
<1> HIDE DEF Kinds, NumNumbers
<1>4. i = 1 \/ i = 2 \/ i = 3 \/ i = 4 \/ i = 5 \/ i = 6 \/ i = 7 \/ i = 8
  BY <1>1
<1>5. QED
  BY <1>1, <1>2, <1>3, <1>4

(* A created trie has such numbers. *)
LEMMA NumbersAreOK ==
  ASSUME SizesAreNat, NEW i \in Parts
  PROVE  NumbersOK(i, Numbers(i))
<1> USE DEF Numbers, RankNumbers
<1>1. i \in 1 .. 8 /\ RankBlock \in Nat /\ SampleInterval \in Nat
  BY KindsAre, TablesAssumption
<1>2. CASE i \in {1, 5}
  <2>1. Kinds[i] = "counters"
    BY <1>2, KindsAre
  <2>2. Numbers(i) = [k \in 1 .. NumNumbers(i) |-> Numbers(i)[k]]
    <3>1. CASE i = 1
      BY <3>1 DEF NumNumbers
    <3>2. CASE i = 5
      <4>1. NumNumbers(i) = 4
        BY <3>2 DEF NumNumbers
      <4>2. Numbers(i) = <<louds_sparse.height, louds_sparse.start_level,
                          louds_sparse.node_count_dense, louds_sparse.child_count_dense>>
        BY <3>2
      <4> HIDE DEF Numbers
      <4>3. QED
        BY <4>1, <4>2
    <3>3. QED
      BY <1>2, <3>1, <3>2
  <2> HIDE DEF Numbers
  <2>3. QED
    BY <2>1, <2>2 DEF NumbersOK
<1>3. CASE i = 6
  <2>1. Numbers(i) = [k \in 1 .. NumNumbers(i) |-> Numbers(i)[k]]
    BY <1>3 DEF NumNumbers
  <2>2. Numbers(i)[1] \in Nat
    BY <1>3 DEF SizesAreNat
  <2> HIDE DEF Numbers
  <2>3. QED
    BY <1>3, <2>1, <2>2, KindsAre DEF NumbersOK
<1>4. CASE i \in {2, 3, 4, 7}
  <2> DEFINE bits == CASE i = 2 -> louds_dense.label_bitmaps.num_bits
                       [] i = 3 -> louds_dense.child_indicator_bitmaps.num_bits
                       [] i = 4 -> louds_dense.prefixkey_indicator_bits.num_bits
                       [] i = 7 -> louds_sparse.child_indicator_bits.num_bits
  <2>0. NumNumbers(i) = 2
    BY <1>4, KindsAre
  <2>a. Numbers(i) = <<bits, RankBlock>>
    <3>1. CASE i = 2
      BY <3>1
    <3>2. CASE i = 3
      BY <3>2
    <3>3. CASE i = 4
      BY <3>3
    <3>4. CASE i = 7
      BY <3>4
    <3>5. QED
      BY <1>4, <3>1, <3>2, <3>3, <3>4
  <2>b. bits \in Nat
    BY <1>4 DEF SizesAreNat
  <2> HIDE DEF Numbers, bits
  <2>1. Numbers(i) = [k \in 1 .. NumNumbers(i) |-> Numbers(i)[k]]
    BY <2>0, <2>a
  <2>2. Numbers(i)[1] \in Nat /\ Numbers(i)[2] \in Nat
    BY <1>1, <2>a, <2>b
  <2> HIDE DEF Numbers
  <2>3. QED
    BY <1>4, <2>1, <2>2, KindsAre DEF NumbersOK
<1>5. CASE i = 8
  <2>1. Numbers(i) = [k \in 1 .. NumNumbers(i) |-> Numbers(i)[k]]
    BY <1>5 DEF NumNumbers
  <2>2. Numbers(i)[1] \in Nat /\ Numbers(i)[2] \in Nat /\ Numbers(i)[3] \in Nat
    BY <1>1, <1>5 DEF SizesAreNat
  <2> HIDE DEF Numbers
  <2>3. QED
    BY <1>5, <2>1, <2>2, KindsAre DEF NumbersOK
<1>6. QED
  BY <1>1, <1>2, <1>3, <1>4, <1>5

(* The bytes of the numbers, and those of the arrays before array k. *)
HeadBytes(i) == NumNumbers(i) * PositionBytes

BytesBefore(sizes, k) == IF k = 1 THEN 0 ELSE sizes[1]

(* The bytes of a bit vector and of its look-up table. *)
LEMMA SizesOK ==
  ASSUME NEW n \in Nat, NEW every \in Nat
  PROVE  BitsSize(n) \in Nat /\ LutSize(n, every) \in Nat
<1>1. WordSize \in Nat \ {0} /\ WordBytes \in Nat /\ PositionBytes \in Nat
  BY ConstantsAssumption, StorageAssumption
<1>2. (n + WordSize - 1) \div WordSize \in Nat
  <2>1. n + WordSize - 1 \in Int /\ 0 * WordSize <= n + WordSize - 1
    BY <1>1
  <2>2. QED
    BY <1>1, <2>1, DivBounds, DivMod
<1>3. BitsSize(n) \in Nat
  <2> DEFINE w == BV!NumWords(n)
  <2>1. w \in Nat
    BY <1>2 DEF BV!NumWords
  <2> HIDE DEF w
  <2>2. w * WordBytes \in Nat
    BY <1>1, <2>1
  <2>3. QED
    BY <2>2 DEF BitsSize, w
<1>4. ASSUME every # 0
      PROVE  (n \div every + 1) * PositionBytes \in Nat
  <2>1. every \in Nat \ {0} /\ 0 * every <= n
    BY <1>4
  <2>2. n \div every \in Nat
    BY <2>1, DivBounds, DivMod
  <2>3. QED
    BY <1>1, <2>2
<1>5. QED
  BY <1>3, <1>4 DEF LutSize

(* Where the arrays of a part lie. *)
Layout(i, n, sizes) ==
  /\ sizes \in Seq(Nat)
  /\ Len(sizes) \in 0 .. 2
  /\ HeadBytes(i) \in Nat /\ PositionBytes <= HeadBytes(i)
  /\ PartSize(i, n) \in Nat
  /\ HeadBytes(i) <= PartSize(i, n)
  /\ \A k \in DOMAIN sizes :
       /\ k \in {1, 2} /\ sizes[k] \in Nat /\ BytesBefore(sizes, k) \in Nat
       /\ \A p \in Nat : ArrayAt(i, n, p, k) = p + HeadBytes(i) + BytesBefore(sizes, k)
       /\ HeadBytes(i) + BytesBefore(sizes, k) + sizes[k] <= PartSize(i, n)
  /\ 2 \in DOMAIN sizes => 1 \in DOMAIN sizes

(* The arrays of every part have this layout. *)
LEMMA LayoutOK ==
  ASSUME NEW i \in Parts, NEW n, NumbersOK(i, n)
  PROVE  Layout(i, n, ArraySizes(i, n))
<1> DEFINE sizes == ArraySizes(i, n)
<1>1. NumNumbers(i) \in 1 .. 4 /\ PositionBytes \in Nat \ {0}
  BY KindsAre, StorageAssumption
<1>2. HeadBytes(i) \in Nat /\ PositionBytes <= HeadBytes(i)
  <2> DEFINE k == NumNumbers(i)
  <2> HIDE DEF k
  <2>1. k \in Int /\ 1 <= k /\ PositionBytes \in Nat
    BY <1>1 DEF k
  <2>2. 1 * PositionBytes <= k * PositionBytes
    BY <2>1, TimesMonotone
  <2>3. k * PositionBytes \in Int /\ 1 * PositionBytes = PositionBytes
    BY <2>1
  <2>4. QED
    BY <2>1, <2>2, <2>3 DEF HeadBytes, k
<1>3. /\ Kinds[i] = "counters" => sizes = << >>
      /\ Kinds[i] = "labels" => sizes = <<n[1]>> /\ n[1] \in Nat
      /\ Kinds[i] = "rank" => /\ sizes = <<BitsSize(n[1]), LutSize(n[1], n[2])>>
                              /\ n[1] \in Nat /\ n[2] \in Nat
      /\ Kinds[i] = "select" => /\ sizes = <<BitsSize(n[1]), LutSize(n[3], n[2])>>
                                /\ n[1] \in Nat /\ n[2] \in Nat /\ n[3] \in Nat
  BY DEF ArraySizes, NumbersOK
<1>4. \/ sizes = << >>
      \/ \E a \in Nat : sizes = <<a>>
      \/ \E a, b \in Nat : sizes = <<a, b>>
  <2>1. Kinds[i] \in {"counters", "labels", "rank", "select"}
    BY KindsAre
  <2> HIDE DEF sizes
  <2>2. Kinds[i] \in {"rank", "select"} => \E a, b \in Nat : sizes = <<a, b>>
    BY <1>3, SizesOK
  <2>3. QED
    BY <1>3, <2>1, <2>2
<1>5. PartSize(i, n) = HeadBytes(i) + SumOf(sizes)
  BY DEF PartSize, HeadBytes
<1>6. \A p, k : ArrayAt(i, n, p, k) = p + HeadBytes(i) + SumOf(SubSeq(sizes, 1, k - 1))
  BY DEF ArrayAt, HeadBytes
<1> HIDE DEF sizes
<1>7. SumOf(<< >>) = 0 /\ \A a \in Nat : SumOf(<<a>>) = a /\ \A b \in Nat : SumOf(<<a, b>>) = a + b
  <2>1. SumOf(<< >>) = 0
    <3> DEFINE s == << >>
               k == 0
    <3>1. k \in 0 .. 3 /\ DOMAIN s = 1 .. k /\ \A j \in 1 .. k : s[j] \in Nat
      OBVIOUS
    <3> HIDE DEF s, k
    <3>2. k = 0 => SumOf(s) = 0
      BY <3>1, ShortSums
    <3>3. QED
      BY <3>2 DEF s, k
  <2>2. ASSUME NEW a \in Nat
        PROVE  SumOf(<<a>>) = a
    <3> DEFINE s == <<a>>
               k == 1
    <3>1. k \in 0 .. 3 /\ DOMAIN s = 1 .. k /\ (\A j \in 1 .. k : s[j] \in Nat) /\ s[1] = a
      OBVIOUS
    <3> HIDE DEF s, k
    <3>2. k = 1 => SumOf(s) = s[1]
      BY <3>1, ShortSums
    <3>3. QED
      BY <3>1, <3>2 DEF s, k
  <2>3. ASSUME NEW a \in Nat, NEW b \in Nat
        PROVE  SumOf(<<a, b>>) = a + b
    <3> DEFINE s == <<a, b>>
               k == 2
    <3>1. k \in 0 .. 3 /\ DOMAIN s = 1 .. k /\ (\A j \in 1 .. k : s[j] \in Nat) /\ s[1] = a /\ s[2] = b
      OBVIOUS
    <3> HIDE DEF s, k
    <3>2. k = 2 => SumOf(s) = s[1] + s[2]
      BY <3>1, ShortSums
    <3>3. QED
      BY <3>1, <3>2 DEF s, k
  <2>4. QED
    BY <2>1, <2>2, <2>3
<1>8. CASE sizes = << >>
  <2>1. sizes \in Seq(Nat) /\ Len(sizes) = 0 /\ DOMAIN sizes = {}
    BY <1>8
  <2>2. PartSize(i, n) = HeadBytes(i)
    BY <1>2, <1>5, <1>7, <1>8
  <2>3. QED
    BY <1>2, <2>1, <2>2 DEF Layout, sizes
<1>9. CASE \E a \in Nat : sizes = <<a>>
  <2>1. PICK a \in Nat : sizes = <<a>>
    BY <1>9
  <2>2. sizes \in Seq(Nat) /\ Len(sizes) = 1 /\ DOMAIN sizes = {1} /\ sizes[1] = a
    BY <2>1
  <2>3. PartSize(i, n) = HeadBytes(i) + a
    BY <1>5, <1>7, <2>1
  <2>4. SubSeq(sizes, 1, 1 - 1) = << >>
    BY <2>1
  <2>5. \A p \in Nat : ArrayAt(i, n, p, 1) = p + HeadBytes(i) + 0
    <3> SUFFICES ASSUME NEW p \in Nat PROVE ArrayAt(i, n, p, 1) = p + HeadBytes(i) + 0
      OBVIOUS
    <3>1. ArrayAt(i, n, p, 1) = p + HeadBytes(i) + SumOf(SubSeq(sizes, 1, 1 - 1))
      BY <1>6
    <3>2. QED
      BY <1>7, <2>4, <3>1
  <2>6. BytesBefore(sizes, 1) = 0
    BY DEF BytesBefore
  <2>7. QED
    BY <1>2, <2>2, <2>3, <2>5, <2>6 DEF Layout, sizes
<1>10. CASE \E a, b \in Nat : sizes = <<a, b>>
  <2>1. PICK a \in Nat, b \in Nat : sizes = <<a, b>>
    BY <1>10
  <2>2. sizes \in Seq(Nat) /\ Len(sizes) = 2 /\ DOMAIN sizes = {1, 2} /\ sizes[1] = a /\ sizes[2] = b
    BY <2>1
  <2>3. PartSize(i, n) = HeadBytes(i) + (a + b)
    BY <1>5, <1>7, <2>1
  <2>4. SubSeq(sizes, 1, 1 - 1) = << >> /\ SubSeq(sizes, 1, 2 - 1) = <<a>>
    <3> DEFINE t == SubSeq(sizes, 1, 1)
    <3>1. t \in Seq(Nat) /\ Len(t) = 1 /\ t[1] = a
      BY <2>2
    <3>2. SubSeq(sizes, 1, 0) = << >>
      BY <2>2
    <3> HIDE DEF t
    <3>3. t = <<a>>
      BY <3>1
    <3>4. 1 - 1 = 0 /\ 2 - 1 = 1
      OBVIOUS
    <3>5. QED
      BY <3>2, <3>3, <3>4 DEF t
  <2>5. \A p \in Nat : /\ ArrayAt(i, n, p, 1) = p + HeadBytes(i) + 0
                       /\ ArrayAt(i, n, p, 2) = p + HeadBytes(i) + a
    <3> SUFFICES ASSUME NEW p \in Nat
                 PROVE  /\ ArrayAt(i, n, p, 1) = p + HeadBytes(i) + 0
                        /\ ArrayAt(i, n, p, 2) = p + HeadBytes(i) + a
      OBVIOUS
    <3>1. /\ ArrayAt(i, n, p, 1) = p + HeadBytes(i) + SumOf(SubSeq(sizes, 1, 1 - 1))
          /\ ArrayAt(i, n, p, 2) = p + HeadBytes(i) + SumOf(SubSeq(sizes, 1, 2 - 1))
      BY <1>6
    <3>2. QED
      BY <1>7, <2>4, <3>1
  <2>6. BytesBefore(sizes, 1) = 0 /\ BytesBefore(sizes, 2) = a
    BY <2>2 DEF BytesBefore
  <2>7. ASSUME NEW k \in {1, 2}
        PROVE  /\ sizes[k] \in Nat /\ BytesBefore(sizes, k) \in Nat
               /\ \A p \in Nat : ArrayAt(i, n, p, k) = p + HeadBytes(i) + BytesBefore(sizes, k)
               /\ HeadBytes(i) + BytesBefore(sizes, k) + sizes[k] <= PartSize(i, n)
    <3> DEFINE before == IF k = 1 THEN 0 ELSE a
               size == IF k = 1 THEN a ELSE b
    <3>1. sizes[k] = size /\ BytesBefore(sizes, k) = before
      BY <2>2, <2>6
    <3>2. before \in Nat /\ size \in Nat /\ before + size <= a + b
      OBVIOUS
    <3>3. \A p \in Nat : ArrayAt(i, n, p, k) = p + HeadBytes(i) + before
      BY <2>5
    <3> HIDE DEF before, size
    <3>4. HeadBytes(i) + before + size <= PartSize(i, n)
      BY <1>2, <2>3, <3>2
    <3>5. QED
      BY <3>1, <3>2, <3>3, <3>4
  <2>8. PartSize(i, n) \in Nat /\ HeadBytes(i) <= PartSize(i, n)
    BY <1>2, <2>3
  <2>9. QED
    BY <1>2, <2>2, <2>7, <2>8 DEF Layout, sizes
<1>11. QED
  BY <1>4, <1>8, <1>9, <1>10

-------------------------------------------------------------------------------
(* The cells of a part *)

(* The cells of M lie from lo to hi. *)
Bounded(M, lo, hi) ==
  \A q \in DOMAIN M : q \in Nat /\ lo <= q /\ M[q].size \in Nat \ {0} /\ q + M[q].size <= hi

(* No two of them overlap. *)
Apart(M) == \A p, q \in DOMAIN M : p < q => p + M[p].size <= q

(* Part i with the numbers n is in M at p. *)
Placed(M, i, n, p) ==
  /\ \A k \in 1 .. NumNumbers(i) :
       LET q == p + (k - 1) * PositionBytes IN q \in DOMAIN M /\ M[q] = NumberCell(n[k])
  /\ \A k \in DOMAIN ArraySizes(i, n) :
       ArraySizes(i, n)[k] > 0 =>
         LET q == ArrayAt(i, n, p, k)
         IN  q \in DOMAIN M /\ M[q] = ArrayCell(i, k, ArraySizes(i, n)[k])

NonEmpty(i, n) == {k \in DOMAIN ArraySizes(i, n) : ArraySizes(i, n)[k] > 0}

(* The numbers of a part, one behind the other. *)
LEMMA NumberCellsAre ==
  ASSUME NEW i \in Parts, NEW n, NumbersOK(i, n), NEW p \in Nat
  PROVE  /\ \A k \in 1 .. NumNumbers(i) :
              /\ p + (k - 1) * PositionBytes \in DOMAIN NumberCells(n, p)
              /\ NumberCells(n, p)[p + (k - 1) * PositionBytes] = NumberCell(n[k])
         /\ Bounded(NumberCells(n, p), p, p + HeadBytes(i))
         /\ Apart(NumberCells(n, p))
<1> DEFINE C == NumberCells(n, p)
           B == PositionBytes
           c == NumNumbers(i)
<1>1. B \in Nat \ {0} /\ c \in 1 .. 4 /\ DOMAIN n = 1 .. c
  <2>1. n = [k \in 1 .. c |-> n[k]]
    BY DEF NumbersOK
  <2>2. QED
    BY <2>1, StorageAssumption, KindsAre
<1>2. ASSUME NEW k \in 1 .. c
      PROVE  /\ (k - 1) * B \in Nat /\ (k - 1) * B + B <= HeadBytes(i)
             /\ p + (k - 1) * B \in DOMAIN C
             /\ C[p + (k - 1) * B] = NumberCell(n[k])
  <2> DEFINE j == k - 1
             q == p + j * B
  <2>1. j \in Nat /\ k \in Nat /\ k <= c /\ c \in Nat /\ j + 1 = k
    BY <1>1
  <2>2. j * B \in Nat /\ j * B + B = k * B /\ k * B <= c * B
    <3> HIDE DEF c, B
    <3>1. k * B <= c * B
      BY <1>1, <2>1, TimesMonotone
    <3> HIDE DEF j
    <3>2. j * B \in Nat /\ (j + 1) * B = j * B + B
      BY <1>1, <2>1
    <3>3. QED
      BY <2>1, <3>1, <3>2
  <2>3. q \in DOMAIN C /\ C[q] = NumberCell(n[(q - p) \div B + 1])
    BY <1>1 DEF NumberCells
  <2>4. (q - p) \div B + 1 = k
    <3>1. (j * B + 0) \div B = j
      <4> HIDE DEF j, B
      <4>1. 0 \in 0 .. B - 1 /\ j \in Int
        BY <1>1, <2>1
      <4>2. QED
        BY <1>1, <4>1, DivModUnique
    <3>2. q - p = j * B + 0
      BY <2>2
    <3> HIDE DEF j, q, B
    <3>3. QED
      BY <2>1, <3>1, <3>2
  <2>5. QED
    BY <2>2, <2>3, <2>4 DEF HeadBytes
<1>3. ASSUME NEW q \in DOMAIN C
      PROVE  \E k \in 1 .. c : q = p + (k - 1) * B
  BY <1>1 DEF NumberCells
<1>4. \A k : NumberCell(n[k]).size = B
  BY DEF NumberCell
<1> HIDE DEF C
<1>5. ASSUME NEW q \in DOMAIN C
      PROVE  q \in Nat /\ p <= q /\ C[q].size = B /\ q + B <= p + HeadBytes(i)
  <2>1. PICK k \in 1 .. c : q = p + (k - 1) * B
    BY <1>3
  <2> DEFINE o == (k - 1) * B
  <2>2. o \in Nat /\ o + B <= HeadBytes(i) /\ C[q] = NumberCell(n[k]) /\ q = p + o
    BY <1>2, <2>1
  <2>3. HeadBytes(i) \in Int
    BY <1>1 DEF HeadBytes
  <2> HIDE DEF o, c, B
  <2>4. QED
    BY <1>1, <1>4, <2>2, <2>3
<1>6. ASSUME NEW q \in DOMAIN C, NEW r \in DOMAIN C, q < r
      PROVE  q + C[q].size <= r
  <2>1. PICK k \in 1 .. c : q = p + (k - 1) * B
    BY <1>3
  <2>2. PICK l \in 1 .. c : r = p + (l - 1) * B
    BY <1>3
  <2>3. k \in Int /\ l \in Int /\ c \in Int /\ (k - 1) * B \in Int /\ (l - 1) * B \in Int
    BY <1>1
  <2>4. CASE k >= l
    <3>1. (l - 1) * B <= (k - 1) * B
      <4> HIDE DEF c, B
      <4>1. QED
        BY <1>1, <2>3, <2>4, TimesMonotone
    <3> DEFINE x == (k - 1) * B
               y == (l - 1) * B
    <3>2. x \in Int /\ y \in Int /\ y <= x /\ q = p + x /\ r = p + y
      BY <2>1, <2>2, <2>3, <3>1
    <3> HIDE DEF x, y
    <3>3. QED
      BY <1>6, <3>2
  <2>5. CASE k < l
    <3>1. k * B <= (l - 1) * B
      <4> HIDE DEF c, B
      <4>1. QED
        BY <1>1, <2>3, <2>5, TimesMonotone
    <3>2. k * B = (k - 1) * B + B
      <4> DEFINE m == k - 1
      <4>1. m \in Int /\ k = m + 1
        BY <2>3
      <4> HIDE DEF m, c, B
      <4>2. (m + 1) * B = m * B + B
        BY <1>1, <4>1
      <4>3. QED
        BY <4>1, <4>2 DEF m
    <3>3. C[q].size = B
      BY <1>5
    <3> DEFINE x == (k - 1) * B
               y == (l - 1) * B
    <3>4. x \in Int /\ y \in Int /\ x + B <= y /\ q = p + x /\ r = p + y
      BY <2>1, <2>2, <2>3, <3>1, <3>2
    <3> HIDE DEF x, y, c, B
    <3>5. QED
      BY <1>1, <3>3, <3>4
  <2>6. QED
    BY <2>3, <2>4, <2>5
<1>7. Bounded(C, p, p + HeadBytes(i)) /\ Apart(C)
  BY <1>1, <1>5, <1>6 DEF Bounded, Apart
<1>8. QED
  BY <1>2, <1>7 DEF C

(* The arrays of a part, behind its numbers. *)
LEMMA ArrayCellsAre ==
  ASSUME NEW i \in Parts, NEW n, NumbersOK(i, n), NEW p \in Nat
  PROVE  /\ \A k \in NonEmpty(i, n) :
              /\ ArrayAt(i, n, p, k) \in DOMAIN ArrayCells(i, n, p)
              /\ ArrayCells(i, n, p)[ArrayAt(i, n, p, k)] = ArrayCell(i, k, ArraySizes(i, n)[k])
         /\ Bounded(ArrayCells(i, n, p), p + HeadBytes(i), p + PartSize(i, n))
         /\ Apart(ArrayCells(i, n, p))
<1> DEFINE C == ArrayCells(i, n, p)
           sizes == ArraySizes(i, n)
           K == NonEmpty(i, n)
           at(k) == ArrayAt(i, n, p, k)
           h == HeadBytes(i)
<1>1. Layout(i, n, sizes)
  BY LayoutOK
<1>2. \A k \in K : k \in DOMAIN sizes /\ sizes[k] > 0
  BY DEF NonEmpty
<1>3. h \in Nat /\ PartSize(i, n) \in Nat
  BY <1>1 DEF Layout
<1>4. \A k \in K : /\ k \in {1, 2} /\ sizes[k] \in Nat \ {0} /\ BytesBefore(sizes, k) \in Nat
                   /\ at(k) = p + h + BytesBefore(sizes, k)
                   /\ h + BytesBefore(sizes, k) + sizes[k] <= PartSize(i, n)
  <2> SUFFICES ASSUME NEW k \in K
               PROVE  /\ k \in {1, 2} /\ sizes[k] \in Nat \ {0} /\ BytesBefore(sizes, k) \in Nat
                      /\ at(k) = p + h + BytesBefore(sizes, k)
                      /\ h + BytesBefore(sizes, k) + sizes[k] <= PartSize(i, n)
    OBVIOUS
  <2>1. k \in DOMAIN sizes /\ sizes[k] > 0
    BY <1>2
  <2> HIDE DEF K, sizes
  <2>2. /\ k \in {1, 2} /\ sizes[k] \in Nat /\ BytesBefore(sizes, k) \in Nat
        /\ ArrayAt(i, n, p, k) = p + HeadBytes(i) + BytesBefore(sizes, k)
        /\ HeadBytes(i) + BytesBefore(sizes, k) + sizes[k] <= PartSize(i, n)
    BY <1>1, <2>1 DEF Layout
  <2>3. QED
    BY <2>1, <2>2
<1>5. /\ C = [q \in {at(k) : k \in K} |->
                LET k == CHOOSE j \in K : at(j) = q IN ArrayCell(i, k, sizes[k])]
  BY DEF ArrayCells, NonEmpty
<1>6. \A k \in K : ArrayCell(i, k, sizes[k]).size = sizes[k]
  BY DEF ArrayCell
<1> HIDE DEF C, sizes, K, h
<1>7. ASSUME NEW k \in K, NEW l \in K, k # l
      PROVE  (k = 1 /\ l = 2 /\ at(k) + sizes[k] = at(l)) \/ (k = 2 /\ l = 1 /\ at(l) + sizes[l] = at(k))
  <2>1. BytesBefore(sizes, 1) = 0 /\ BytesBefore(sizes, 2) = sizes[1]
    BY DEF BytesBefore
  <2>2. (k = 1 /\ l = 2) \/ (k = 2 /\ l = 1)
    BY <1>4, <1>7
  <2> HIDE DEF at
  <2>3. at(1) = p + h /\ at(2) = p + h + sizes[1] /\ sizes[1] \in Nat
    BY <1>3, <1>4, <2>1, <2>2
  <2>4. QED
    BY <1>3, <2>2, <2>3
<1> HIDE DEF at
<1>8. ASSUME NEW k \in K
      PROVE  at(k) \in DOMAIN C /\ C[at(k)] = ArrayCell(i, k, sizes[k])
  <2>1. \A j \in K : at(j) = at(k) => j = k
    BY <1>3, <1>4, <1>7
  <2>2. (CHOOSE j \in K : at(j) = at(k)) = k
    BY <2>1
  <2>3. QED
    BY <1>5, <2>2
<1>9. \A q \in DOMAIN C : \E k \in K : q = at(k)
  BY <1>5
<1>10. ASSUME NEW q \in DOMAIN C
       PROVE  q \in Nat /\ p + h <= q /\ C[q].size \in Nat \ {0} /\ q + C[q].size <= p + PartSize(i, n)
  <2>1. PICK k \in K : q = at(k)
    BY <1>9
  <2>2. C[q].size = sizes[k]
    BY <1>6, <1>8, <2>1
  <2>3. QED
    BY <1>3, <1>4, <2>1, <2>2
<1>11. ASSUME NEW q \in DOMAIN C, NEW r \in DOMAIN C, q < r
       PROVE  q + C[q].size <= r
  <2>1. PICK k \in K, l \in K : q = at(k) /\ r = at(l)
    BY <1>9
  <2>2. C[q].size = sizes[k]
    BY <1>6, <1>8, <2>1
  <2>3. q \in Nat /\ r \in Nat
    BY <1>10
  <2>4. k # l
    BY <1>11, <2>1, <2>3
  <2>5. sizes[l] \in Nat /\ sizes[k] \in Nat
    BY <1>4
  <2>6. QED
    BY <1>7, <1>11, <2>1, <2>2, <2>3, <2>4, <2>5
<1>12. Bounded(C, p + h, p + PartSize(i, n)) /\ Apart(C)
  BY <1>10, <1>11 DEF Bounded, Apart
<1>13. QED
  BY <1>8, <1>12 DEF C, sizes, K, at, h

(* One image over another that does not overlap it. *)
LEMMA Joined ==
  ASSUME NEW C, NEW D, NEW lo \in Nat, NEW mid \in Nat, NEW hi \in Nat,
         lo <= mid, mid <= hi,
         \/ Bounded(C, lo, mid) /\ Bounded(D, mid, hi)
         \/ Bounded(D, lo, mid) /\ Bounded(C, mid, hi),
         Apart(C), Apart(D)
  PROVE  /\ Bounded(Over(C, D), lo, hi)
         /\ Apart(Over(C, D))
         /\ \A q \in DOMAIN C : q \in DOMAIN Over(C, D) /\ Over(C, D)[q] = C[q]
         /\ \A q \in DOMAIN D : q \in DOMAIN Over(C, D) /\ Over(C, D)[q] = D[q]
<1> DEFINE M == Over(C, D)
<1>1. /\ DOMAIN M = DOMAIN C \cup DOMAIN D
      /\ \A q \in DOMAIN C : M[q] = C[q]
      /\ \A q \in DOMAIN D : q \notin DOMAIN C => M[q] = D[q]
  BY DEF Over
<1>2. \A q \in DOMAIN C : q \in Nat /\ C[q].size \in Nat \ {0} /\ lo <= q /\ q + C[q].size <= hi
  BY DEF Bounded
<1>3. \A q \in DOMAIN D : q \in Nat /\ D[q].size \in Nat \ {0} /\ lo <= q /\ q + D[q].size <= hi
  BY DEF Bounded
<1>4. \A q \in DOMAIN C, r \in DOMAIN D :
        (q < r /\ q + C[q].size <= r) \/ (r < q /\ r + D[r].size <= q)
  BY DEF Bounded
<1>5. \A q \in DOMAIN D : q \notin DOMAIN C
  BY <1>3, <1>4
<1>6. \A q \in DOMAIN D : M[q] = D[q]
  BY <1>1, <1>5
<1> HIDE DEF M
<1>7. Bounded(M, lo, hi)
  BY <1>1, <1>2, <1>3, <1>6 DEF Bounded
<1>8. ASSUME NEW q \in DOMAIN M, NEW r \in DOMAIN M, q < r
      PROVE  q + M[q].size <= r
  <2>1. CASE q \in DOMAIN C /\ r \in DOMAIN C
    BY <1>1, <1>8, <2>1 DEF Apart
  <2>2. CASE q \in DOMAIN D /\ r \in DOMAIN D
    BY <1>6, <1>8, <2>2 DEF Apart
  <2>3. CASE q \in DOMAIN C /\ r \in DOMAIN D
    BY <1>1, <1>2, <1>3, <1>4, <1>8, <2>3
  <2>4. CASE q \in DOMAIN D /\ r \in DOMAIN C
    BY <1>2, <1>3, <1>4, <1>6, <1>8, <2>4
  <2>5. QED
    BY <1>1, <2>1, <2>2, <2>3, <2>4
<1>9. Apart(M)
  BY <1>8 DEF Apart
<1>10. QED
  BY <1>1, <1>6, <1>7, <1>9 DEF M

CellsOf(i, n, p) == Over(NumberCells(n, p), ArrayCells(i, n, p))

(* A part that is written lies where it is written, and nothing in it overlaps. *)
LEMMA CellsAre ==
  ASSUME NEW i \in Parts, NEW n, NumbersOK(i, n), NEW p \in Nat
  PROVE  /\ Bounded(CellsOf(i, n, p), p, p + PartSize(i, n))
         /\ Apart(CellsOf(i, n, p))
         /\ Placed(CellsOf(i, n, p), i, n, p)
<1> DEFINE C == NumberCells(n, p)
           D == ArrayCells(i, n, p)
           M == CellsOf(i, n, p)
           mid == p + HeadBytes(i)
           hi == p + PartSize(i, n)
<1>1. Layout(i, n, ArraySizes(i, n))
  BY LayoutOK
<1>2. mid \in Nat /\ hi \in Nat /\ p <= mid /\ mid <= hi
  BY <1>1 DEF Layout
<1>3. Bounded(C, p, mid) /\ Apart(C)
  BY NumberCellsAre
<1>4. Bounded(D, mid, hi) /\ Apart(D)
  BY ArrayCellsAre
<1>5. /\ \A k \in 1 .. NumNumbers(i) :
           /\ p + (k - 1) * PositionBytes \in DOMAIN C
           /\ C[p + (k - 1) * PositionBytes] = NumberCell(n[k])
  BY NumberCellsAre
<1>6. \A k \in NonEmpty(i, n) :
        /\ ArrayAt(i, n, p, k) \in DOMAIN D
        /\ D[ArrayAt(i, n, p, k)] = ArrayCell(i, k, ArraySizes(i, n)[k])
  BY ArrayCellsAre
<1>7. M = Over(C, D)
  BY DEF CellsOf
<1> HIDE DEF C, D, M, mid, hi
<1>8. /\ Bounded(M, p, hi) /\ Apart(M)
      /\ \A q \in DOMAIN C : q \in DOMAIN M /\ M[q] = C[q]
      /\ \A q \in DOMAIN D : q \in DOMAIN M /\ M[q] = D[q]
  BY <1>2, <1>3, <1>4, <1>7, Joined
<1>9. Placed(M, i, n, p)
  <2>1. ASSUME NEW k \in 1 .. NumNumbers(i)
        PROVE  /\ p + (k - 1) * PositionBytes \in DOMAIN M
               /\ M[p + (k - 1) * PositionBytes] = NumberCell(n[k])
    BY <1>5, <1>8
  <2>2. ASSUME NEW k \in DOMAIN ArraySizes(i, n), ArraySizes(i, n)[k] > 0
        PROVE  /\ ArrayAt(i, n, p, k) \in DOMAIN M
               /\ M[ArrayAt(i, n, p, k)] = ArrayCell(i, k, ArraySizes(i, n)[k])
    <3>1. k \in NonEmpty(i, n)
      BY <2>2 DEF NonEmpty
    <3>2. QED
      BY <1>6, <1>8, <3>1
  <2>3. QED
    BY <2>1, <2>2 DEF Placed
<1>10. QED
  BY <1>8, <1>9 DEF M, hi

(* What holds in a part of an image holds in the image. *)
LEMMA StaysPlaced ==
  ASSUME NEW M, NEW C, \A q \in DOMAIN C : q \in DOMAIN M /\ M[q] = C[q],
         NEW i, NEW n, NEW p, Placed(C, i, n, p)
  PROVE  Placed(M, i, n, p)
  BY DEF Placed

Moved(M, from, to) ==
  [p \in {q - from + to : q \in DOMAIN M} |-> M[p - to + from]]

(* An image that is taken elsewhere is what it was. *)
LEMMA MovedIs ==
  ASSUME NEW M, NEW from \in Nat, NEW to \in Nat, NEW size \in Nat,
         Bounded(M, from, from + size), Apart(M)
  PROVE  /\ Bounded(Moved(M, from, to), to, to + size)
         /\ Apart(Moved(M, from, to))
         /\ \A q \in DOMAIN M : /\ q - from + to \in DOMAIN Moved(M, from, to)
                                /\ Moved(M, from, to)[q - from + to] = M[q]
<1> DEFINE D == Moved(M, from, to)
<1>1. \A q \in DOMAIN M : /\ q \in Nat /\ M[q].size \in Nat \ {0}
                          /\ from <= q /\ q + M[q].size <= from + size
  BY DEF Bounded
<1>2. \A q \in DOMAIN M : (q - from + to) - to + from = q
  BY <1>1
<1>3. \A q \in DOMAIN M : q - from + to \in DOMAIN D /\ D[q - from + to] = M[q]
  BY <1>2 DEF Moved
<1>4. \A p \in DOMAIN D : \E q \in DOMAIN M : p = q - from + to
  BY DEF Moved
<1> HIDE DEF D
<1>5. ASSUME NEW p \in DOMAIN D
      PROVE  p \in Nat /\ to <= p /\ D[p].size \in Nat \ {0} /\ p + D[p].size <= to + size
  <2>1. PICK q \in DOMAIN M : p = q - from + to
    BY <1>4
  <2>2. D[p] = M[q]
    BY <1>3, <2>1
  <2>3. QED
    BY <1>1, <2>1, <2>2
<1>6. ASSUME NEW p \in DOMAIN D, NEW r \in DOMAIN D, p < r
      PROVE  p + D[p].size <= r
  <2>1. PICK q \in DOMAIN M, s \in DOMAIN M : p = q - from + to /\ r = s - from + to
    BY <1>4
  <2>2. D[p] = M[q]
    BY <1>3, <2>1
  <2>3. q \in Nat /\ s \in Nat /\ M[q].size \in Nat
    BY <1>1
  <2>4. q < s
    BY <1>6, <2>1, <2>3
  <2>5. q + M[q].size <= s
    BY <2>4 DEF Apart
  <2>6. QED
    BY <2>1, <2>2, <2>3, <2>5
<1>7. QED
  BY <1>3, <1>5, <1>6 DEF D, Bounded, Apart

(* So are its parts. *)
LEMMA MovedPart ==
  ASSUME NEW M, NEW D, NEW from \in Nat, NEW to \in Nat,
         \A q \in DOMAIN M : q - from + to \in DOMAIN D /\ D[q - from + to] = M[q],
         NEW i \in Parts, NEW n, NumbersOK(i, n), NEW o \in Nat, Placed(M, i, n, from + o)
  PROVE  Placed(D, i, n, to + o)
<1>1. Layout(i, n, ArraySizes(i, n)) /\ PositionBytes \in Nat
  BY LayoutOK, StorageAssumption
<1>2. ASSUME NEW k \in 1 .. NumNumbers(i)
      PROVE  LET q == to + o + (k - 1) * PositionBytes
             IN  q \in DOMAIN D /\ D[q] = NumberCell(n[k])
  <2> DEFINE x == (k - 1) * PositionBytes
  <2>1. x \in Int
    <3>1. k - 1 \in Int
      BY KindsAre
    <3>2. QED
      BY <1>1, <3>1
  <2>2. from + o + x \in DOMAIN M /\ M[from + o + x] = NumberCell(n[k])
    BY DEF Placed
  <2> HIDE DEF x
  <2>3. (from + o + x) - from + to = to + o + x
    BY <2>1
  <2>4. to + o + x \in DOMAIN D /\ D[to + o + x] = NumberCell(n[k])
    BY <2>2, <2>3
  <2>5. QED
    BY <2>4 DEF x
<1>3. ASSUME NEW k \in DOMAIN ArraySizes(i, n), ArraySizes(i, n)[k] > 0
      PROVE  LET q == ArrayAt(i, n, to + o, k)
             IN  q \in DOMAIN D /\ D[q] = ArrayCell(i, k, ArraySizes(i, n)[k])
  <2> DEFINE x == HeadBytes(i) + BytesBefore(ArraySizes(i, n), k)
             q == ArrayAt(i, n, from + o, k)
  <2>0. /\ \A p \in Nat : ArrayAt(i, n, p, k) = p + HeadBytes(i) + BytesBefore(ArraySizes(i, n), k)
        /\ HeadBytes(i) \in Nat /\ BytesBefore(ArraySizes(i, n), k) \in Nat
    <3> HIDE DEF x, q
    <3> DEFINE sizes == ArraySizes(i, n)
    <3>1. Layout(i, n, sizes) /\ k \in DOMAIN sizes
      BY <1>1
    <3> HIDE DEF sizes
    <3>2. /\ \A p \in Nat : ArrayAt(i, n, p, k) = p + HeadBytes(i) + BytesBefore(sizes, k)
          /\ HeadBytes(i) \in Nat /\ BytesBefore(sizes, k) \in Nat
      BY <3>1 DEF Layout
    <3>3. QED
      BY <3>2 DEF sizes
  <2>1. x \in Nat
    BY <2>0
  <2>2. q \in DOMAIN M /\ M[q] = ArrayCell(i, k, ArraySizes(i, n)[k])
    BY <1>3 DEF Placed
  <2>3. q = from + o + x /\ ArrayAt(i, n, to + o, k) = to + o + x
    <3>1. from + o \in Nat /\ to + o \in Nat
      OBVIOUS
    <3>2. /\ q = (from + o) + HeadBytes(i) + BytesBefore(ArraySizes(i, n), k)
          /\ ArrayAt(i, n, to + o, k) = (to + o) + HeadBytes(i) + BytesBefore(ArraySizes(i, n), k)
      BY <2>0, <3>1
    <3> HIDE DEF q
    <3>3. QED
      BY <2>0, <3>2
  <2> HIDE DEF x, q
  <2>4. q - from + to = ArrayAt(i, n, to + o, k)
    BY <2>1, <2>3
  <2>5. QED
    BY <2>2, <2>4
<1>4. QED
  BY <1>2, <1>3 DEF Placed

(* The numbers of a part are read as they were written. *)
LEMMA NumbersRead ==
  ASSUME NEW i \in Parts, NEW n, NumbersOK(i, n), NEW p, Placed(memory, i, n, p)
  PROVE  NumbersAt(i, p) = n
<1>1. ASSUME NEW k \in 1 .. NumNumbers(i)
      PROVE  NumberAt(p + (k - 1) * PositionBytes) = n[k]
  <2> DEFINE q == p + (k - 1) * PositionBytes
  <2>1. q \in DOMAIN memory /\ memory[q] = NumberCell(n[k])
    BY DEF Placed
  <2> HIDE DEF q
  <2>2. NumberAt(q) = n[k]
    BY <2>1 DEF NumberAt, NumberCell
  <2>3. QED
    BY <2>2 DEF q
<1>2. n = [k \in 1 .. NumNumbers(i) |-> n[k]]
  BY DEF NumbersOK
<1>3. NumbersAt(i, p) = [k \in 1 .. NumNumbers(i) |-> n[k]]
  BY <1>1 DEF NumbersAt
<1>4. QED
  BY <1>2, <1>3

-------------------------------------------------------------------------------
(* The image *)

(* The padded size of part i with the numbers n. *)
Padded(i, n) == Aligned(PartSize(i, n))

WhenRead(m, w, v) == IF m <= w THEN v ELSE 0

(* The bytes of the first w parts, whose numbers are N. *)
Offset(N, w) ==
  WhenRead(1, w, Padded(1, N[1])) + WhenRead(2, w, Padded(2, N[2])) + WhenRead(3, w, Padded(3, N[3]))
  + WhenRead(4, w, Padded(4, N[4])) + WhenRead(5, w, Padded(5, N[5])) + WhenRead(6, w, Padded(6, N[6]))
  + WhenRead(7, w, Padded(7, N[7])) + WhenRead(8, w, Padded(8, N[8]))

AllNumbers == [i \in Parts |-> Numbers(i)]

AllOK(N) == \A i \in Parts : NumbersOK(i, N[i])

LEMMA PartsAre == Parts = 1 .. 8 /\ Len(Kinds) = 8
  BY DEF Parts, Kinds

(* Every part is a whole number of words of 8 bytes. *)
LEMMA PaddedIs ==
  ASSUME NEW i \in Parts, NEW n, NumbersOK(i, n)
  PROVE  /\ Padded(i, n) \in Nat /\ Padded(i, n) % 8 = 0
         /\ PartSize(i, n) \in Nat /\ PartSize(i, n) <= Padded(i, n)
<1>1. Layout(i, n, ArraySizes(i, n))
  BY LayoutOK
<1>2. PartSize(i, n) \in Nat
  BY <1>1 DEF Layout
<1>3. QED
  BY <1>2, AlignedUp DEF Padded

(* The parts lie one behind the other. *)
LEMMA OffsetIs ==
  ASSUME NEW N, AllOK(N), NEW w \in 0 .. 8
  PROVE  /\ Offset(N, w) \in Nat /\ Offset(N, w) % 8 = 0 /\ Offset(N, 0) = 0
         /\ w < 8 => Offset(N, w + 1) = Offset(N, w) + Padded(w + 1, N[w + 1])
         /\ Offset(N, w) <= Offset(N, 8)
         /\ Offset(N, 8) \in Nat
<1> DEFINE v(i) == Padded(i, N[i])
<1>1. \A i \in 1 .. 8 : v(i) \in Nat /\ v(i) % 8 = 0
  BY PaddedIs, PartsAre DEF AllOK
<1> DEFINE a == v(1)
           b == v(2)
           c == v(3)
           d == v(4)
           e == v(5)
           f == v(6)
           g == v(7)
           h == v(8)
<1>2. /\ a \in Nat /\ b \in Nat /\ c \in Nat /\ d \in Nat
      /\ e \in Nat /\ f \in Nat /\ g \in Nat /\ h \in Nat
  BY <1>1
<1>3. /\ a % 8 = 0 /\ b % 8 = 0 /\ c % 8 = 0 /\ d % 8 = 0
      /\ e % 8 = 0 /\ f % 8 = 0 /\ g % 8 = 0 /\ h % 8 = 0
  BY <1>1
<1>4. \A u \in 0 .. 8 :
        Offset(N, u) = WhenRead(1, u, a) + WhenRead(2, u, b) + WhenRead(3, u, c) + WhenRead(4, u, d)
                       + WhenRead(5, u, e) + WhenRead(6, u, f) + WhenRead(7, u, g) + WhenRead(8, u, h)
  BY DEF Offset
<1>5. /\ v(1) = a /\ v(2) = b /\ v(3) = c /\ v(4) = d
      /\ v(5) = e /\ v(6) = f /\ v(7) = g /\ v(8) = h
  OBVIOUS
<1> HIDE DEF v, a, b, c, d, e, f, g, h
<1>6. /\ Offset(N, 0) = 0
      /\ Offset(N, 1) = a
      /\ Offset(N, 2) = a + b
      /\ Offset(N, 3) = a + b + c
      /\ Offset(N, 4) = a + b + c + d
      /\ Offset(N, 5) = a + b + c + d + e
      /\ Offset(N, 6) = a + b + c + d + e + f
      /\ Offset(N, 7) = a + b + c + d + e + f + g
      /\ Offset(N, 8) = a + b + c + d + e + f + g + h
  BY <1>2, <1>4 DEF WhenRead
<1>7. \A x, y \in Nat : x % 8 = 0 /\ y % 8 = 0 => (x + y) % 8 = 0
  OBVIOUS
<1>8. /\ Offset(N, 0) % 8 = 0 /\ Offset(N, 1) % 8 = 0
      /\ Offset(N, 2) % 8 = 0 /\ Offset(N, 3) % 8 = 0
      /\ Offset(N, 4) % 8 = 0 /\ Offset(N, 5) % 8 = 0
      /\ Offset(N, 6) % 8 = 0 /\ Offset(N, 7) % 8 = 0
      /\ Offset(N, 8) % 8 = 0
  <2>1. a % 8 = 0 /\ (a + b) % 8 = 0 /\ (a + b + c) % 8 = 0 /\ (a + b + c + d) % 8 = 0
    BY <1>2, <1>3, <1>7
  <2>2. (a + b + c + d + e) % 8 = 0 /\ (a + b + c + d + e + f) % 8 = 0
    BY <1>2, <1>3, <1>7, <2>1
  <2>3. (a + b + c + d + e + f + g) % 8 = 0 /\ (a + b + c + d + e + f + g + h) % 8 = 0
    BY <1>2, <1>3, <1>7, <2>2
  <2>4. QED
    BY <1>6, <2>1, <2>2, <2>3
<1>9. w = 0 \/ w = 1 \/ w = 2 \/ w = 3 \/ w = 4 \/ w = 5 \/ w = 6 \/ w = 7 \/ w = 8
  OBVIOUS
<1>10. Offset(N, w) \in Nat /\ Offset(N, w) <= Offset(N, 8) /\ Offset(N, 8) \in Nat
  BY <1>2, <1>6, <1>9
<1>11. Offset(N, w) % 8 = 0
  BY <1>8, <1>9
<1>12. w < 8 => Offset(N, w + 1) = Offset(N, w) + v(w + 1)
  <2>1. /\ Offset(N, 1) = Offset(N, 0) + v(1) /\ Offset(N, 2) = Offset(N, 1) + v(2)
        /\ Offset(N, 3) = Offset(N, 2) + v(3) /\ Offset(N, 4) = Offset(N, 3) + v(4)
        /\ Offset(N, 5) = Offset(N, 4) + v(5) /\ Offset(N, 6) = Offset(N, 5) + v(6)
        /\ Offset(N, 7) = Offset(N, 6) + v(7) /\ Offset(N, 8) = Offset(N, 7) + v(8)
    BY <1>2, <1>5, <1>6
  <2>2. /\ w = 0 => w + 1 = 1
        /\ w = 1 => w + 1 = 2
        /\ w = 2 => w + 1 = 3
        /\ w = 3 => w + 1 = 4
        /\ w = 4 => w + 1 = 5
        /\ w = 5 => w + 1 = 6
        /\ w = 6 => w + 1 = 7
        /\ w = 7 => w + 1 = 8
    OBVIOUS
  <2>3. QED
    BY <1>9, <2>1, <2>2
<1>13. QED
  BY <1>6, <1>10, <1>11, <1>12 DEF v

(* serializedSize is the size of all the parts, although it pads the vectors of an
   encoding and then their sum, and the image pads the counters and the vectors. *)
LEMMA SerializedSizeIs ==
  ASSUME SizesAreNat
  PROVE  SerializedSize = Offset(AllNumbers, 8)
<1> DEFINE N == AllNumbers
           v(i) == Padded(i, N[i])
           B == PositionBytes
<1>1. \A i \in Parts : N[i] = Numbers(i) /\ NumbersOK(i, N[i])
  BY NumbersAreOK DEF AllNumbers
<1>2. \A i \in 1 .. 8 : v(i) \in Nat /\ v(i) % 8 = 0
  BY <1>1, PaddedIs, PartsAre
<1>3. \A i \in 1 .. 8 : VectorSize(i) = v(i)
  BY <1>1, PartsAre DEF VectorSize, Padded
<1>4. Offset(N, 8) = v(1) + v(2) + v(3) + v(4) + v(5) + v(6) + v(7) + v(8)
  BY <1>2 DEF Offset, WhenRead
<1>5. B \in Nat
  BY StorageAssumption
<1>6. v(1) = Aligned(B) /\ v(5) = Aligned(4 * B)
  <2>1. SumOf(<< >>) = 0
    <3> DEFINE s == << >>
               k == 0
    <3>1. k \in 0 .. 3 /\ DOMAIN s = 1 .. k /\ \A j \in 1 .. k : s[j] \in Nat
      OBVIOUS
    <3> HIDE DEF s, k
    <3>2. k = 0 => SumOf(s) = 0
      BY <3>1, ShortSums
    <3>3. QED
      BY <3>2 DEF s, k
  <2>2. \A n : ArraySizes(1, n) = << >> /\ ArraySizes(5, n) = << >>
    BY DEF ArraySizes, Kinds
  <2>3. NumNumbers(1) = 1 /\ NumNumbers(5) = 4
    BY DEF NumNumbers
  <2>4. \A n : PartSize(1, n) = B /\ PartSize(5, n) = 4 * B
    BY <1>5, <2>1, <2>2, <2>3 DEF PartSize
  <2>5. QED
    BY <2>4 DEF Padded
<1> HIDE DEF N, v, B
<1>7. ASSUME NEW j \in {1, 5}
      PROVE  SumOf([k \in 1 .. 3 |-> VectorSize(j + k)]) = v(j + 1) + v(j + 2) + v(j + 3)
  <2> DEFINE s == [k \in 1 .. 3 |-> VectorSize(j + k)]
             k == 3
  <2>1. j + 1 \in 1 .. 8 /\ j + 2 \in 1 .. 8 /\ j + 3 \in 1 .. 8
    OBVIOUS
  <2>2. k \in 0 .. 3 /\ DOMAIN s = 1 .. k
    OBVIOUS
  <2>3. s[1] = v(j + 1) /\ s[2] = v(j + 2) /\ s[3] = v(j + 3)
    BY <1>3, <2>1
  <2>4. \A i \in 1 .. k : s[i] \in Nat
    BY <1>2, <2>1, <2>3
  <2> HIDE DEF s, k
  <2>5. k = 3 => SumOf(s) = s[1] + s[2] + s[3]
    BY <2>2, <2>4, ShortSums
  <2>6. QED
    BY <2>3, <2>5 DEF s, k
<1>8. ASSUME NEW j \in {1, 5}, NEW p \in Nat
      PROVE  Aligned(p + (v(j + 1) + v(j + 2) + v(j + 3)))
               = Aligned(p) + v(j + 1) + v(j + 2) + v(j + 3)
  <2> DEFINE x == v(j + 1)
             y == v(j + 2)
             z == v(j + 3)
             q == x + y + z
  <2>1. x \in Nat /\ y \in Nat /\ z \in Nat /\ x % 8 = 0 /\ y % 8 = 0 /\ z % 8 = 0
    <3>1. j + 1 \in 1 .. 8 /\ j + 2 \in 1 .. 8 /\ j + 3 \in 1 .. 8
      OBVIOUS
    <3>2. QED
      BY <1>2, <3>1
  <2> HIDE DEF x, y, z
  <2>2. q \in Nat /\ q % 8 = 0
    <3>1. \A m, n \in Nat : m % 8 = 0 /\ n % 8 = 0 => (m + n) % 8 = 0
      OBVIOUS
    <3>2. x + y \in Nat /\ (x + y) % 8 = 0
      BY <2>1, <3>1
    <3>3. QED
      BY <2>1, <3>1, <3>2
  <2> HIDE DEF q
  <2>3. Aligned(q + p) = q + Aligned(p) /\ Aligned(p) \in Nat
    BY <2>2, AlignedUp
  <2>4. p + q = q + p
    BY <2>2
  <2>5. Aligned(p + q) = q + Aligned(p)
    BY <2>3, <2>4
  <2>6. q + Aligned(p) = Aligned(p) + x + y + z
    BY <2>1, <2>3 DEF q
  <2>7. QED
    BY <2>5, <2>6 DEF q, x, y, z
<1>9. DenseSize = v(1) + v(2) + v(3) + v(4)
  <2>1. SumOf([k \in 1 .. 3 |-> VectorSize(1 + k)]) = v(2) + v(3) + v(4)
    BY <1>7
  <2>2. Aligned(B + (v(2) + v(3) + v(4))) = Aligned(B) + v(2) + v(3) + v(4)
    <3>1. /\ 1 \in {1, 5} /\ 1 + 1 = 2 /\ 1 + 2 = 3 /\ 1 + 3 = 4
      OBVIOUS
    <3>2. Aligned(B + (v(1 + 1) + v(1 + 2) + v(1 + 3)))
            = Aligned(B) + v(1 + 1) + v(1 + 2) + v(1 + 3)
      BY <1>5, <1>8, <3>1
    <3>3. QED
      BY <3>1, <3>2
  <2>3. QED
    BY <1>6, <2>1, <2>2 DEF DenseSize, B
<1>10. SparseSize = v(5) + v(6) + v(7) + v(8)
  <2>1. SumOf([k \in 1 .. 3 |-> VectorSize(5 + k)]) = v(6) + v(7) + v(8)
    BY <1>7
  <2>2. 4 * B \in Nat
    BY <1>5
  <2>3. Aligned(4 * B + (v(6) + v(7) + v(8))) = Aligned(4 * B) + v(6) + v(7) + v(8)
    <3> DEFINE p == 4 * B
    <3>1. p \in Nat /\ 5 \in {1, 5} /\ 5 + 1 = 6 /\ 5 + 2 = 7 /\ 5 + 3 = 8
      BY <2>2
    <3> HIDE DEF p
    <3>2. Aligned(p + (v(5 + 1) + v(5 + 2) + v(5 + 3)))
            = Aligned(p) + v(5 + 1) + v(5 + 2) + v(5 + 3)
      BY <1>8, <3>1
    <3>3. QED
      BY <3>1, <3>2 DEF p
  <2>4. QED
    BY <1>6, <2>1, <2>3 DEF SparseSize, B
<1>11. SerializedSize = v(1) + v(2) + v(3) + v(4) + (v(5) + v(6) + v(7) + v(8))
  BY <1>9, <1>10 DEF SerializedSize
<1>12. \A i \in 1 .. 8 : v(i) \in Nat
  BY <1>2
<1>13. QED
  BY <1>4, <1>11, <1>12 DEF N

(* M holds the first w parts, with the numbers N, from b on. *)
Image(N, M, b, w) ==
  /\ Bounded(M, b, b + Offset(N, w))
  /\ Apart(M)
  /\ \A i \in 1 .. w : Placed(M, i, N[i], b + Offset(N, i - 1))

(* A fresh buffer holds no part. *)
LEMMA ImageStarts ==
  ASSUME NEW N, NEW b
  PROVE  Image(N, NoMemory, b, 0)
  BY DEF Image, NoMemory, Bounded, Apart

(* Writing the next part behind the parts that are there. *)
LEMMA ImageGrows ==
  ASSUME NEW N, AllOK(N), NEW M, NEW b \in Nat, NEW w \in 0 .. 7, Image(N, M, b, w)
  PROVE  Image(N, Over(CellsOf(w + 1, N[w + 1], b + Offset(N, w)), M), b, w + 1)
<1> DEFINE i == w + 1
           n == N[i]
           p == b + Offset(N, w)
           C == CellsOf(i, n, p)
           D == Over(C, M)
           hi == b + Offset(N, w + 1)
           end == p + PartSize(i, n)
<1>1. i \in Parts /\ i \in 1 .. 8 /\ w \in 0 .. 8 /\ w + 1 \in 0 .. 8
  BY PartsAre
<1>2. NumbersOK(i, n)
  BY <1>1 DEF AllOK
<1>3. /\ Offset(N, w) \in Nat /\ Offset(N, w + 1) \in Nat
      /\ Offset(N, w + 1) = Offset(N, w) + Padded(i, n)
  BY <1>1, OffsetIs
<1>4. /\ Padded(i, n) \in Nat /\ PartSize(i, n) \in Nat /\ PartSize(i, n) <= Padded(i, n)
  BY <1>1, <1>2, PaddedIs
<1>5. p \in Nat /\ hi \in Nat /\ b <= p /\ end \in Nat /\ p <= end /\ end <= hi
  <2> HIDE DEF n, i
  <2>1. QED
    BY <1>3, <1>4
<1>6. Bounded(C, p, end) /\ Apart(C) /\ Placed(C, i, n, p)
  BY <1>1, <1>2, <1>5, CellsAre
<1>7. Bounded(M, b, p) /\ Apart(M)
  BY DEF Image
<1> HIDE DEF p, C, n, hi, end
<1>8. Bounded(C, p, hi)
  <2>1. \A q \in DOMAIN C : q \in Nat /\ p <= q /\ C[q].size \in Nat \ {0} /\ q + C[q].size <= end
    BY <1>6 DEF Bounded
  <2>2. \A q \in DOMAIN C : q + C[q].size <= hi
    BY <1>5, <2>1
  <2>3. QED
    BY <2>1, <2>2 DEF Bounded
<1>9. /\ Bounded(D, b, hi) /\ Apart(D)
      /\ \A q \in DOMAIN C : q \in DOMAIN D /\ D[q] = C[q]
      /\ \A q \in DOMAIN M : q \in DOMAIN D /\ D[q] = M[q]
  <2> HIDE DEF D
  <2>1. p <= hi
    BY <1>5
  <2>2. QED
    BY <1>5, <1>6, <1>7, <1>8, <2>1, Joined DEF D
<1> HIDE DEF D
<1>10. ASSUME NEW j \in 1 .. w + 1
       PROVE  Placed(D, j, N[j], b + Offset(N, j - 1))
  <2>1. CASE j = i
    <3>1. j - 1 = w
      BY <2>1
    <3>2. Placed(D, i, n, p)
      BY <1>6, <1>9, StaysPlaced
    <3>3. QED
      BY <2>1, <3>1, <3>2 DEF n, p
  <2>2. CASE j # i
    <3>1. j \in 1 .. w
      BY <2>2
    <3> DEFINE r == b + Offset(N, j - 1)
               m == N[j]
    <3>2. Placed(M, j, m, r)
      BY <3>1 DEF Image
    <3> HIDE DEF r, m
    <3>3. Placed(D, j, m, r)
      BY <1>9, <3>2, StaysPlaced
    <3>4. QED
      BY <3>3 DEF r, m
  <2>3. QED
    BY <2>1, <2>2
<1>11. QED
  BY <1>9, <1>10 DEF Image, D, C, n, p, hi

(* Taking the image elsewhere. *)
LEMMA ImageMoves ==
  ASSUME NEW N, AllOK(N), NEW M, NEW b \in Nat, NEW to \in Nat, Image(N, M, b, 8)
  PROVE  Image(N, Moved(M, b, to), to, 8)
<1> DEFINE D == Moved(M, b, to)
           size == Offset(N, 8)
<1>1. size \in Nat
  <2>1. 8 \in 0 .. 8
    OBVIOUS
  <2>2. QED
    BY <2>1, OffsetIs
<1>2. Bounded(M, b, b + size) /\ Apart(M)
  BY DEF Image
<1> HIDE DEF size
<1>3. /\ Bounded(D, to, to + size) /\ Apart(D)
      /\ \A q \in DOMAIN M : q - b + to \in DOMAIN D /\ D[q - b + to] = M[q]
  BY <1>1, <1>2, MovedIs
<1> HIDE DEF D
<1>4. ASSUME NEW i \in 1 .. 8
      PROVE  Placed(D, i, N[i], to + Offset(N, i - 1))
  <2> DEFINE o == Offset(N, i - 1)
             n == N[i]
  <2>1. i \in Parts /\ i - 1 \in 0 .. 8
    BY PartsAre
  <2>2. o \in Nat
    BY <2>1, OffsetIs
  <2>3. NumbersOK(i, n) /\ Placed(M, i, n, b + o)
    BY <2>1 DEF AllOK, Image
  <2> HIDE DEF o, n
  <2>4. Placed(D, i, n, to + o)
    BY <1>3, <2>1, <2>2, <2>3, MovedPart
  <2>5. QED
    BY <2>4 DEF o, n
<1>5. QED
  BY <1>3, <1>4 DEF Image, D, size

-------------------------------------------------------------------------------
(* The invariant *)

(* What deSerialize makes of the parts with the numbers N in an image at b. *)
Readings(N, b) ==
  [i \in Parts |->
     [numbers |-> N[i], sizes |-> ArraySizes(i, N[i]),
      arrays |-> [k \in DOMAIN ArraySizes(i, N[i]) |->
                    ArrayAt(i, N[i], b + Offset(N, i - 1), k)]]]

Leading(r, k) == [i \in 1 .. k |-> r[i]]

(* Nothing has been written, or the buffer holds the parts that were written and
   the parts that were read are those. *)
StoreInv ==
  /\ TrieInv
  /\ base = 0 => /\ memory = NoMemory /\ dst = 0 /\ written = 0 /\ src = 0 /\ loaded = << >>
  /\ base # 0 =>
       /\ louds_sparse # NotCreated
       /\ base \in Buffers
       /\ written \in 0 .. 8
       /\ Image(AllNumbers, memory, base, written)
       /\ dst \in Nat /\ dst % 8 = 0
       /\ src = 0 => loaded = << >> /\ dst = base + Offset(AllNumbers, written)
       /\ src # 0 => /\ written = 8
                     /\ \E k \in 0 .. 8 :
                          /\ loaded = Leading(Readings(AllNumbers, base), k)
                          /\ src = base + Offset(AllNumbers, k)

(* The first elements of a sequence, one after the other. *)
LEMMA FirstOfIs ==
  ASSUME NEW r, NEW k \in Nat
  PROVE  /\ Len(Leading(r, k)) = k
         /\ DOMAIN Leading(r, k) = 1 .. k
         /\ \A i \in 1 .. k : Leading(r, k)[i] = r[i]
         /\ Append(Leading(r, k), r[k + 1]) = Leading(r, k + 1)
         /\ Leading(r, 0) = << >>
<1> DEFINE s == Leading(r, k)
           V == {r[i] : i \in 1 .. k + 1}
<1>1. s = [i \in 1 .. k |-> r[i]] /\ s \in Seq(V)
  BY DEF Leading
<1>2. Len(s) = k /\ DOMAIN s = 1 .. k /\ \A i \in 1 .. k : s[i] = r[i]
  BY <1>1
<1>3. Leading(r, 0) = << >>
  BY DEF Leading
<1>4. Append(s, r[k + 1]) = Leading(r, k + 1)
  <2> DEFINE t == Append(s, r[k + 1])
  <2>1. r[k + 1] \in V
    OBVIOUS
  <2> HIDE DEF s, V
  <2>2. t \in Seq(V) /\ Len(t) = k + 1 /\ t[k + 1] = r[k + 1] /\ \A i \in 1 .. k : t[i] = s[i]
    BY <1>1, <1>2, <2>1
  <2>3. \A i \in 1 .. k + 1 : t[i] = r[i]
    BY <1>2, <2>2
  <2> HIDE DEF t
  <2>4. t = [i \in 1 .. k + 1 |-> t[i]]
    BY <2>2
  <2>5. t = [i \in 1 .. k + 1 |-> r[i]]
    BY <2>3, <2>4
  <2>6. QED
    BY <2>5 DEF t, Leading
<1>5. QED
  BY <1>2, <1>3, <1>4

(* What the numbers depend on. *)
LEMMA NumbersUnchanged ==
  UNCHANGED <<louds_dense, louds_sparse>> => AllNumbers' = AllNumbers
  BY DEF AllNumbers, Numbers, RankNumbers

(* Before anything is written. *)
LEMMA StoreInit == StorageInit => StoreInv
<1> SUFFICES ASSUME StorageInit PROVE StoreInv
  OBVIOUS
<1>1. HandoverInv /\ louds_sparse = NotCreated
  BY HandoverInit DEF StorageInit, FSTInit
<1>2. base = 0 /\ memory = NoMemory /\ dst = 0 /\ written = 0 /\ src = 0 /\ loaded = << >>
  BY DEF StorageInit
<1>3. QED
  BY <1>1, <1>2 DEF StoreInv, TrieInv

(* A buffer is somewhere, and aligned. *)
LEMMA BuffersAre ==
  ASSUME NEW b \in Buffers
  PROVE  b \in Nat \ {0} /\ b % 8 = 0
  BY StorageAssumption

(* The numbers of a created trie. *)
LEMMA AllNumbersOK ==
  ASSUME TrieInv, louds_sparse # NotCreated
  PROVE  AllOK(AllNumbers) /\ \A i \in Parts : AllNumbers[i] = Numbers(i)
  BY NumbersAreOK DEF TrieInv, AllOK, AllNumbers

(* Building the trie, which has to end before anything is written. *)
LEMMA StoreMake == StoreInv /\ MakeStored => StoreInv'
<1> SUFFICES ASSUME StoreInv, MakeStored PROVE StoreInv'
  OBVIOUS
<1>1. TrieInv'
  BY TrieStep DEF StoreInv, MakeStored
<1>2. UNCHANGED <<memory, base, dst, written, src, loaded>>
  BY DEF MakeStored, storageVars
<1>3. CASE base = 0
  BY <1>1, <1>2, <1>3 DEF StoreInv
<1>4. CASE base # 0
  <2>1. louds_sparse # NotCreated
    BY <1>4 DEF StoreInv
  <2>2. BuildStep
    BY <2>1 DEF MakeStored, Create
  <2>3. UNCHANGED <<louds_dense, louds_sparse>>
    BY <2>2 DEF BuildStep, fstVars
  <2>4. AllNumbers' = AllNumbers
    BY <2>3, NumbersUnchanged
  <2>5. QED
    BY <1>1, <1>2, <1>4, <2>1, <2>3, <2>4 DEF StoreInv
<1>5. QED
  BY <1>3, <1>4

(* serialize takes a buffer. *)
LEMMA StoreSerialize == StoreInv /\ Serialize => StoreInv'
<1> SUFFICES ASSUME StoreInv, Serialize PROVE StoreInv'
  OBVIOUS
<1>1. UNCHANGED allVars /\ UNCHANGED <<louds_dense, louds_sparse>>
  BY DEF Serialize, allVars, fstVars
<1>2. TrieInv' /\ AllNumbers' = AllNumbers
  BY <1>1, TrieStep, NumbersUnchanged DEF StoreInv
<1>3. /\ base = 0 /\ memory = NoMemory /\ written = 0 /\ src = 0 /\ loaded = << >>
      /\ TrieInv /\ louds_sparse # NotCreated
  BY DEF StoreInv, Serialize
<1>4. /\ base' \in Buffers /\ dst' = base'
      /\ UNCHANGED <<memory, written, src, loaded>>
  BY DEF Serialize
<1>5. base' \in Nat \ {0} /\ base' % 8 = 0
  BY <1>4, BuffersAre
<1>6. Offset(AllNumbers, 0) = 0
  <2>1. 0 \in 0 .. 8
    OBVIOUS
  <2>2. QED
    BY <1>3, <2>1, AllNumbersOK, OffsetIs
<1>7. dst' = base' + Offset(AllNumbers, 0)
  BY <1>4, <1>5, <1>6
<1>8. Image(AllNumbers, NoMemory, base', 0)
  BY ImageStarts
<1>9. QED
  BY <1>1, <1>2, <1>3, <1>4, <1>5, <1>7, <1>8 DEF StoreInv

(* serialize writes a part. *)
LEMMA StoreWrite == StoreInv /\ SerializePart => StoreInv'
<1> SUFFICES ASSUME StoreInv, SerializePart PROVE StoreInv'
  OBVIOUS
<1> DEFINE N == AllNumbers
           i == written + 1
<1>1. UNCHANGED allVars /\ UNCHANGED <<louds_dense, louds_sparse>>
  BY DEF SerializePart, allVars, fstVars
<1>2. TrieInv' /\ N' = N
  BY <1>1, TrieStep, NumbersUnchanged DEF StoreInv
<1>3. /\ base # 0 /\ written \in 0 .. 7 /\ louds_sparse # NotCreated /\ base \in Buffers
      /\ TrieInv /\ Image(N, memory, base, written)
      /\ src = 0 /\ loaded = << >> /\ dst = base + Offset(N, written)
      /\ dst \in Nat /\ dst % 8 = 0
  <2>1. base # 0 /\ written < 8
    BY PartsAre DEF SerializePart
  <2>2. QED
    BY <2>1 DEF StoreInv
<1>4. AllOK(N) /\ N[i] = Numbers(i) /\ i \in Parts
  BY <1>3, AllNumbersOK, PartsAre
<1>5. base \in Nat \ {0} /\ base % 8 = 0
  BY <1>3, BuffersAre
<1>6. /\ memory' = Over(CellsOf(i, N[i], dst), memory)
      /\ dst' = Aligned(dst + PartSize(i, N[i]))
      /\ written' = i
      /\ UNCHANGED <<base, src, loaded>>
  BY <1>4 DEF SerializePart, Cells, CellsOf
<1> HIDE DEF N
<1>7. Image(N, memory', base, i)
  BY <1>3, <1>4, <1>5, <1>6, ImageGrows
<1>8. dst' = base + Offset(N, i) /\ dst' \in Nat /\ dst' % 8 = 0
  <2>1. /\ Offset(N, i) = Offset(N, written) + Padded(i, N[i])
        /\ Offset(N, written) \in Nat
    <3> DEFINE w == written
    <3>1. w \in 0 .. 8 /\ w < 8 /\ w + 1 = i
      BY <1>3
    <3> HIDE DEF w, i
    <3>2. Offset(N, w + 1) = Offset(N, w) + Padded(w + 1, N[w + 1]) /\ Offset(N, w) \in Nat
      BY <1>4, <3>1, OffsetIs
    <3>3. QED
      BY <3>1, <3>2 DEF w
  <2>2. Padded(i, N[i]) \in Nat /\ PartSize(i, N[i]) \in Nat
    BY <1>4, PaddedIs DEF AllOK
  <2> DEFINE size == PartSize(i, N[i])
  <2>3. Padded(i, N[i]) = Aligned(size) /\ size \in Nat
    BY <2>2 DEF Padded
  <2> HIDE DEF size
  <2>4. /\ Aligned(dst + size) = dst + Aligned(size)
        /\ dst + size \in Nat
    <3>1. dst \in Nat /\ dst % 8 = 0
      BY <1>3
    <3>2. Aligned(dst + size) = dst + Aligned(size)
      BY <2>3, <3>1, AlignedUp
    <3>3. QED
      BY <2>3, <3>1, <3>2
  <2>5. Aligned(dst + size) \in Nat /\ Aligned(dst + size) % 8 = 0
    BY <2>4, AlignedUp
  <2>6. dst' = Aligned(dst + size)
    BY <1>6 DEF size
  <2> HIDE DEF i
  <2>7. dst + Aligned(size) = base + Offset(N, i)
    BY <1>3, <1>5, <2>1, <2>2, <2>3
  <2>8. QED
    BY <2>4, <2>5, <2>6, <2>7
<1>9. i \in 0 .. 8
  BY <1>3
<1>10. QED
  BY <1>1, <1>2, <1>3, <1>6, <1>7, <1>8, <1>9 DEF StoreInv, N

(* The client takes the image elsewhere. *)
LEMMA StoreCopy == StoreInv /\ CopyImage => StoreInv'
<1> SUFFICES ASSUME StoreInv, CopyImage PROVE StoreInv'
  OBVIOUS
<1> DEFINE N == AllNumbers
<1>1. UNCHANGED allVars /\ UNCHANGED <<louds_dense, louds_sparse>>
  BY DEF CopyImage, allVars, fstVars
<1>2. TrieInv' /\ N' = N
  BY <1>1, TrieStep, NumbersUnchanged DEF StoreInv
<1>3. written = 8 /\ loaded = << >>
  BY PartsAre DEF CopyImage
<1>4. base # 0
  BY <1>3 DEF StoreInv
<1>5. /\ louds_sparse # NotCreated /\ base \in Buffers
      /\ TrieInv /\ Image(N, memory, base, 8)
      /\ dst \in Nat /\ dst % 8 = 0
  BY <1>3, <1>4 DEF StoreInv
<1>6. AllOK(N)
  BY <1>5, AllNumbersOK
<1>7. PICK to \in Buffers : /\ base' = to /\ src' = to
                            /\ memory' = Moved(memory, base, to)
  BY DEF CopyImage, Moved
<1>8. to \in Nat \ {0} /\ base \in Nat
  BY <1>5, BuffersAre
<1>9. UNCHANGED <<dst, written, loaded>>
  BY DEF CopyImage
<1> HIDE DEF N
<1>10. Image(N, memory', to, 8)
  BY <1>5, <1>6, <1>7, <1>8, ImageMoves
<1>11. Offset(N, 0) = 0 /\ to = to + Offset(N, 0)
  <2>1. 0 \in 0 .. 8
    OBVIOUS
  <2>2. Offset(N, 0) = 0
    BY <1>6, <2>1, OffsetIs
  <2>3. QED
    BY <1>8, <2>2
<1>12. loaded' = Leading(Readings(N, to), 0)
  <2>1. 0 \in Nat
    OBVIOUS
  <2>2. Leading(Readings(N, to), 0) = << >>
    BY <2>1, FirstOfIs
  <2>3. QED
    BY <1>3, <1>9, <2>2
<1>13. \E k \in 0 .. 8 : loaded' = Leading(Readings(N, to), k) /\ src' = to + Offset(N, k)
  BY <1>7, <1>11, <1>12
<1>14. QED
  BY <1>1, <1>2, <1>3, <1>5, <1>7, <1>8, <1>9, <1>10, <1>13 DEF StoreInv, N

(* What is read at the right place is what was written there. *)
LEMMA ReadIs ==
  ASSUME NEW N, AllOK(N), NEW b \in Nat \ {0}, b % 8 = 0, Image(N, memory, b, 8), NEW i \in Parts
  PROVE  /\ ReadPart(i, b + Offset(N, i - 1)) = Readings(N, b)[i]
         /\ PartEnd(i, b + Offset(N, i - 1)) = b + Offset(N, i)
<1> DEFINE p == b + Offset(N, i - 1)
           n == N[i]
<1>1. i \in 1 .. 8 /\ i - 1 \in 0 .. 8 /\ i - 1 < 8 /\ (i - 1) + 1 = i
  BY PartsAre
<1>2. Placed(memory, i, n, p) /\ NumbersOK(i, n)
  BY <1>1 DEF Image, AllOK
<1>3. NumbersAt(i, p) = n
  <2> HIDE DEF p, n
  <2>1. QED
    BY <1>2, NumbersRead
<1>4. ReadPart(i, p) = Readings(N, b)[i]
  BY <1>3 DEF ReadPart, Readings
<1>5. PartEnd(i, p) = b + Offset(N, i)
  <2> DEFINE size == PartSize(i, n)
             o == Offset(N, i - 1)
  <2>1. o \in Nat /\ o % 8 = 0 /\ Offset(N, i) = o + Padded(i, n)
    BY <1>1, OffsetIs
  <2>2. size \in Nat /\ Padded(i, n) = Aligned(size)
    BY <1>2, PaddedIs DEF Padded
  <2>3. PartEnd(i, p) = Aligned(p + size)
    BY <1>3 DEF PartEnd
  <2> HIDE DEF size, n
  <2>4. p \in Nat /\ p % 8 = 0
    <3> HIDE DEF o
    <3>1. (b + o) % 8 = 0 /\ b + o \in Nat
      BY <2>1
    <3>2. QED
      BY <3>1 DEF o
  <2>5. p = b + o
    OBVIOUS
  <2> HIDE DEF p, o
  <2>6. Aligned(p + size) = p + Aligned(size) /\ Aligned(size) \in Nat
    BY <2>2, <2>4, AlignedUp
  <2>7. p + Aligned(size) = b + (o + Aligned(size))
    BY <2>1, <2>5, <2>6
  <2>8. QED
    BY <2>1, <2>2, <2>3, <2>6, <2>7
<1>6. QED
  BY <1>4, <1>5

(* deSerialize reads a part. *)
LEMMA StoreRead == StoreInv /\ DeSerializePart => StoreInv'
<1> SUFFICES ASSUME StoreInv, DeSerializePart PROVE StoreInv'
  OBVIOUS
<1> DEFINE N == AllNumbers
           r == Readings(N, base)
<1>1. UNCHANGED allVars /\ UNCHANGED <<louds_dense, louds_sparse>>
  BY DEF DeSerializePart, allVars, fstVars
<1>2. TrieInv' /\ N' = N
  BY <1>1, TrieStep, NumbersUnchanged DEF StoreInv
<1>3. src # 0 /\ base # 0
  BY DEF StoreInv, DeSerializePart
<1>4. /\ louds_sparse # NotCreated /\ base \in Buffers /\ written = 8
      /\ TrieInv /\ Image(N, memory, base, 8)
      /\ dst \in Nat /\ dst % 8 = 0
  BY <1>3 DEF StoreInv
<1>5. AllOK(N)
  BY <1>4, AllNumbersOK
<1>6. PICK k \in 0 .. 8 : loaded = Leading(r, k) /\ src = base + Offset(N, k)
  BY <1>3 DEF StoreInv
<1>7. base \in Nat \ {0} /\ base % 8 = 0
  BY <1>4, BuffersAre
<1> DEFINE i == Len(loaded) + 1
<1>8. k \in Nat /\ Len(loaded) = k
  <2> HIDE DEF r
  <2>1. k \in Nat
    OBVIOUS
  <2>2. QED
    BY <1>6, <2>1, FirstOfIs
<1>9. /\ i \in Parts /\ loaded' = Append(loaded, ReadPart(i, src)) /\ src' = PartEnd(i, src)
      /\ UNCHANGED <<memory, base, dst, written>>
  BY DEF DeSerializePart
<1>10. i = k + 1 /\ k = i - 1 /\ i \in 0 .. 8
  BY <1>8, <1>9, PartsAre
<1> HIDE DEF i, N
<1>11. src = base + Offset(N, i - 1)
  BY <1>6, <1>10
<1>12. ReadPart(i, src) = r[i] /\ PartEnd(i, src) = base + Offset(N, i)
  BY <1>4, <1>5, <1>7, <1>9, <1>11, ReadIs
<1> HIDE DEF r
<1>13. loaded' = Leading(r, i)
  <2>1. Append(Leading(r, k), r[k + 1]) = Leading(r, k + 1)
    BY <1>8, FirstOfIs
  <2>2. QED
    BY <1>6, <1>9, <1>10, <1>12, <2>1
<1>14. src' = base + Offset(N, i) /\ src' # 0
  <2>1. Offset(N, i) \in Nat
    BY <1>5, <1>10, OffsetIs
  <2>2. QED
    BY <1>7, <1>9, <1>12, <2>1
<1>15. \E j \in 0 .. 8 : loaded' = Leading(r, j) /\ src' = base + Offset(N, j)
  BY <1>10, <1>13, <1>14
<1>16. QED
  BY <1>1, <1>2, <1>3, <1>4, <1>9, <1>14, <1>15 DEF StoreInv, N, r

(* Every step keeps the invariant. *)
LEMMA StoreStep == StoreInv /\ [StorageNext]_<<allVars, storageVars>> => StoreInv'
<1> SUFFICES ASSUME StoreInv, [StorageNext]_<<allVars, storageVars>> PROVE StoreInv'
  OBVIOUS
<1>1. CASE UNCHANGED <<allVars, storageVars>>
  <2>1. UNCHANGED allVars /\ UNCHANGED <<louds_dense, louds_sparse>>
    BY <1>1 DEF allVars, fstVars
  <2>2. UNCHANGED <<memory, base, dst, written, src, loaded>>
    BY <1>1 DEF storageVars
  <2>3. TrieInv' /\ AllNumbers' = AllNumbers
    BY <2>1, TrieStep, NumbersUnchanged DEF StoreInv
  <2>4. QED
    BY <2>1, <2>2, <2>3 DEF StoreInv
<1>2. QED
  BY <1>1, StoreMake, StoreSerialize, StoreWrite, StoreCopy, StoreRead DEF StorageNext

-------------------------------------------------------------------------------
(* The theorems *)

(* serialize and deSerialize keep the invariant from a trie that is built from any
   keys, into and out of any aligned buffers. *)
THEOREM StorageInvariant == StorageSpec => []StoreInv
<1>1. StorageInit => StoreInv
  BY StoreInit
<1>2. StoreInv /\ [StorageNext]_<<allVars, storageVars>> => StoreInv'
  BY StoreStep
<1>3. QED
  BY <1>1, <1>2, PTL DEF StorageSpec

(* What the invariant says of a buffer in use. *)
LEMMA InUse ==
  ASSUME StoreInv, base # 0
  PROVE  /\ AllOK(AllNumbers) /\ SizesAreNat
         /\ \A i \in Parts : AllNumbers[i] = Numbers(i)
         /\ base \in Nat \ {0} /\ base % 8 = 0
         /\ written \in 0 .. 8 /\ Image(AllNumbers, memory, base, written)
         /\ SerializedSize = Offset(AllNumbers, 8)
<1>1. louds_sparse # NotCreated /\ TrieInv
  BY DEF StoreInv
<1>2. SizesAreNat
  BY <1>1 DEF TrieInv
<1>3. base \in Buffers /\ written \in 0 .. 8 /\ Image(AllNumbers, memory, base, written)
  BY DEF StoreInv
<1>4. base \in Nat \ {0} /\ base % 8 = 0
  BY <1>3, BuffersAre
<1>5. AllOK(AllNumbers) /\ \A i \in Parts : AllNumbers[i] = Numbers(i)
  BY <1>1, AllNumbersOK
<1>6. SerializedSize = Offset(AllNumbers, 8)
  BY <1>2, SerializedSizeIs
<1>7. QED
  BY <1>2, <1>3, <1>4, <1>5, <1>6

(* Where a trie that is being read back is. *)
LEMMA BeingRead ==
  ASSUME StoreInv
  PROVE  /\ src \in Nat /\ src % 8 = 0 /\ Len(loaded) \in 0 .. 8
         /\ \A i \in DOMAIN loaded :
              i \in 1 .. 8 /\ base # 0 /\ src # 0 /\ loaded[i] = Readings(AllNumbers, base)[i]
<1>1. CASE src = 0
  <2>1. loaded = << >>
    BY <1>1 DEF StoreInv
  <2>2. Len(loaded) = 0 /\ DOMAIN loaded = {}
    BY <2>1
  <2>3. 0 % 8 = 0
    OBVIOUS
  <2>4. QED
    BY <1>1, <2>2, <2>3
<1>2. CASE src # 0
  <2>1. base # 0
    BY <1>2 DEF StoreInv
  <2> DEFINE N == AllNumbers
             r == Readings(N, base)
  <2>2. PICK k \in 0 .. 8 : loaded = Leading(r, k) /\ src = base + Offset(N, k)
    BY <1>2, <2>1 DEF StoreInv
  <2>3. k \in Nat
    OBVIOUS
  <2>4. AllOK(N) /\ base \in Nat /\ base % 8 = 0
    BY <2>1, InUse
  <2> HIDE DEF N
  <2>5. Offset(N, k) \in Nat /\ Offset(N, k) % 8 = 0
    BY <2>4, OffsetIs
  <2>6. src \in Nat /\ src % 8 = 0
    <3> DEFINE o == Offset(N, k)
    <3>1. o \in Nat /\ o % 8 = 0
      BY <2>5
    <3> HIDE DEF o
    <3>2. (base + o) % 8 = 0 /\ base + o \in Nat
      BY <2>4, <3>1
    <3>3. QED
      BY <2>2, <3>2 DEF o
  <2> HIDE DEF r
  <2>7. /\ Len(loaded) = k /\ DOMAIN loaded = 1 .. k
        /\ \A i \in 1 .. k : loaded[i] = r[i]
    BY <2>2, <2>3, FirstOfIs
  <2>8. \A i \in DOMAIN loaded : i \in 1 .. 8 /\ loaded[i] = r[i]
    BY <2>7
  <2>9. QED
    BY <1>2, <2>1, <2>6, <2>7, <2>8 DEF r, N
<1>3. QED
  BY <1>1, <1>2

(* Between two parts both pointers are aligned, and every cell takes bytes. *)
THEOREM StorageTypes == StorageSpec => []StorageTypeOK
<1>1. StoreInv => StorageTypeOK
  <2> SUFFICES ASSUME StoreInv PROVE StorageTypeOK
    OBVIOUS
  <2>1. src \in Nat /\ src % 8 = 0 /\ Len(loaded) \in 0 .. 8
    BY BeingRead
  <2>2. CASE base = 0
    <3>1. memory = << >> /\ dst = 0 /\ written = 0
      BY <2>2 DEF StoreInv, NoMemory
    <3>2. DOMAIN memory = {} /\ 0 % 8 = 0
      BY <3>1
    <3>3. QED
      <4>1. base \in Buffers \cup {0} /\ \A p \in {dst, src} : p \in Nat /\ p % 8 = 0
        BY <2>1, <2>2, <3>1, <3>2
      <4>2. written \in 0 .. Len(Kinds) /\ Len(loaded) <= Len(Kinds)
        <5> DEFINE k == Len(Kinds)
                   l == Len(loaded)
        <5>1. k = 8 /\ l \in 0 .. 8 /\ written \in 0 .. 8
          BY <2>1, <3>1, PartsAre
        <5> HIDE DEF k, l
        <5>2. written \in 0 .. k /\ l <= k
          BY <5>1
        <5>3. QED
          BY <5>2 DEF k, l
      <4>3. QED
        BY <3>2, <4>1, <4>2 DEF StorageTypeOK
  <2>3. CASE base # 0
    <3>1. base \in Buffers /\ dst \in Nat /\ dst % 8 = 0 /\ written \in 0 .. 8
      BY <2>3 DEF StoreInv
    <3>2. \A p \in DOMAIN memory : memory[p].size > 0
      BY <2>3, InUse DEF Image, Bounded
    <3>3. QED
      <4>1. base \in Buffers \cup {0} /\ \A p \in {dst, src} : p \in Nat /\ p % 8 = 0
        BY <2>1, <3>1
      <4>2. written \in 0 .. Len(Kinds) /\ Len(loaded) <= Len(Kinds)
        <5> DEFINE k == Len(Kinds)
                   l == Len(loaded)
        <5>1. k = 8 /\ l \in 0 .. 8 /\ written \in 0 .. 8
          BY <2>1, <3>1, PartsAre
        <5> HIDE DEF k, l
        <5>2. written \in 0 .. k /\ l <= k
          BY <5>1
        <5>3. QED
          BY <5>2 DEF k, l
      <4>3. QED
        BY <3>2, <4>1, <4>2 DEF StorageTypeOK
  <2>4. QED
    BY <2>2, <2>3
<1>2. QED
  BY <1>1, StorageInvariant, PTL

(* serialize fills exactly the buffer that serializedSize asks for. *)
THEOREM SizeIsExact == StorageSpec => []SizeExact
<1>1. StoreInv => SizeExact
  <2> SUFFICES ASSUME StoreInv, base # 0, src = 0
               PROVE  /\ dst <= base + SerializedSize
                      /\ written = Len(Kinds) => dst = base + SerializedSize
    BY DEF SizeExact
  <2> DEFINE N == AllNumbers
  <2>1. dst = base + Offset(N, written)
    BY DEF StoreInv
  <2>2. AllOK(N) /\ base \in Nat /\ written \in 0 .. 8 /\ SerializedSize = Offset(N, 8)
    BY InUse
  <2> HIDE DEF N
  <2>3. Offset(N, written) <= Offset(N, 8) /\ Offset(N, written) \in Nat /\ Offset(N, 8) \in Nat
    BY <2>2, OffsetIs
  <2>4. QED
    BY <2>1, <2>2, <2>3, PartsAre
<1>2. QED
  BY <1>1, StorageInvariant, PTL

(* No two numbers or arrays of an image overlap. *)
THEOREM CellsAreDisjoint == StorageSpec => []CellsDisjoint
<1>1. StoreInv => CellsDisjoint
  <2> SUFFICES ASSUME StoreInv PROVE CellsDisjoint
    OBVIOUS
  <2>1. CASE base = 0
    BY <2>1 DEF StoreInv, NoMemory, CellsDisjoint
  <2>2. CASE base # 0
    BY <2>2, InUse DEF Image, Apart, CellsDisjoint
  <2>3. QED
    BY <2>1, <2>2
<1>2. QED
  BY <1>1, StorageInvariant, PTL

(* Every part is read back with the numbers it was written with, and its arrays are
   those of its own vector, inside the buffer. *)
THEOREM LoadedIsExact == StorageSpec => []LoadedExact
<1>1. StoreInv => LoadedExact
  <2> SUFFICES ASSUME StoreInv, NEW i \in DOMAIN loaded
               PROVE  /\ loaded[i].numbers = Numbers(i)
                      /\ \A k \in DOMAIN loaded[i].sizes :
                           LET p == loaded[i].arrays[k]
                           IN  /\ loaded[i].sizes[k] > 0 =>
                                    p \in DOMAIN memory /\ memory[p] = ArrayCell(i, k, loaded[i].sizes[k])
                               /\ base < p /\ p + loaded[i].sizes[k] <= base + SerializedSize
    BY DEF LoadedExact
  <2> DEFINE N == AllNumbers
             n == N[i]
             sizes == ArraySizes(i, n)
             o == Offset(N, i - 1)
             at == base + o
  <2>1. /\ i \in 1 .. 8 /\ base # 0 /\ src # 0 /\ loaded[i] = Readings(N, base)[i]
    BY BeingRead
  <2>2. i \in Parts /\ i - 1 \in 0 .. 8 /\ i - 1 < 8 /\ (i - 1) + 1 = i /\ i \in 0 .. 8
    BY <2>1, PartsAre
  <2>3. /\ loaded[i].numbers = n /\ loaded[i].sizes = sizes
        /\ \A k \in DOMAIN sizes : loaded[i].arrays[k] = ArrayAt(i, n, at, k)
    BY <2>1, <2>2 DEF Readings
  <2>4. /\ AllOK(N) /\ n = Numbers(i) /\ base \in Nat
        /\ SerializedSize = Offset(N, 8)
    BY <2>1, <2>2, InUse
  <2>5. Placed(memory, i, n, at) /\ NumbersOK(i, n)
    <3>1. Image(N, memory, base, 8)
      BY <2>1 DEF StoreInv
    <3>2. QED
      BY <2>1, <2>2, <2>4, <3>1 DEF Image, AllOK
  <2>6. Layout(i, n, sizes)
    BY <2>2, <2>5, LayoutOK
  <2> HIDE DEF N
  <2>7. /\ o \in Nat /\ Offset(N, i) = o + Padded(i, n)
        /\ Offset(N, i) <= Offset(N, 8) /\ Offset(N, i) \in Nat /\ Offset(N, 8) \in Nat
    BY <2>2, <2>4, OffsetIs
  <2>8. PartSize(i, n) <= Padded(i, n) /\ PartSize(i, n) \in Nat /\ Padded(i, n) \in Nat
    BY <2>2, <2>5, PaddedIs
  <2>9. at \in Nat
    BY <2>4, <2>7
  <2> HIDE DEF n, o
  <2>10. ASSUME NEW k \in DOMAIN sizes
         PROVE  LET p == loaded[i].arrays[k]
                IN  /\ loaded[i].sizes[k] > 0 =>
                         p \in DOMAIN memory /\ memory[p] = ArrayCell(i, k, loaded[i].sizes[k])
                    /\ base < p /\ p + loaded[i].sizes[k] <= base + SerializedSize
    <3> DEFINE p == ArrayAt(i, n, at, k)
               h == HeadBytes(i)
               before == BytesBefore(sizes, k)
    <3>1. loaded[i].arrays[k] = p /\ loaded[i].sizes[k] = sizes[k]
      BY <2>3
    <3>2. sizes[k] > 0 => p \in DOMAIN memory /\ memory[p] = ArrayCell(i, k, sizes[k])
      BY <2>5 DEF Placed
    <3> HIDE DEF at
    <3>3. /\ sizes[k] \in Nat /\ before \in Nat /\ h \in Nat /\ PositionBytes <= h
          /\ p = at + h + before
          /\ h + before + sizes[k] <= PartSize(i, n)
      <4> HIDE DEF sizes
      <4>1. QED
        BY <2>6, <2>9 DEF Layout
    <3>4. h > 0
      BY <3>3, StorageAssumption
    <3> HIDE DEF sizes, h, before, p
    <3>5. base < p /\ p + sizes[k] <= base + SerializedSize
      BY <2>4, <2>7, <2>8, <3>3, <3>4 DEF at
    <3>6. QED
      BY <3>1, <3>2, <3>5
  <2>11. QED
    BY <2>3, <2>4, <2>10
<1>2. QED
  BY <1>1, StorageInvariant, PTL

(* With positions of 4 bytes, the words of the bit vectors with rank that are read
   back are aligned, and those of louds_bits_ are half a word off. *)
THEOREM WordsAreAligned ==
  ASSUME PositionBytes = 4
  PROVE  StorageSpec => []WordsAligned
<1>1. StoreInv => WordsAligned
  <2> SUFFICES ASSUME StoreInv, NEW i \in DOMAIN loaded
               PROVE  /\ Kinds[i] = "rank" => loaded[i].arrays[1] % 8 = 0
                      /\ Kinds[i] = "select" => loaded[i].arrays[1] % 8 = 4
    BY DEF WordsAligned
  <2> DEFINE N == AllNumbers
             n == N[i]
             sizes == ArraySizes(i, n)
             o == Offset(N, i - 1)
             at == base + o
  <2>1. /\ i \in 1 .. 8 /\ base # 0 /\ src # 0 /\ loaded[i] = Readings(N, base)[i]
    BY BeingRead
  <2>2. i \in Parts /\ i - 1 \in 0 .. 8
    BY <2>1, PartsAre
  <2>3. \A k \in DOMAIN sizes : loaded[i].arrays[k] = ArrayAt(i, n, at, k)
    BY <2>1, <2>2 DEF Readings
  <2>4. AllOK(N) /\ base \in Nat /\ base % 8 = 0
    BY <2>1, InUse
  <2>5. Layout(i, n, sizes)
    BY <2>2, <2>4, LayoutOK DEF AllOK
  <2> HIDE DEF N
  <2>6. o \in Nat /\ o % 8 = 0
    BY <2>2, <2>4, OffsetIs
  <2> HIDE DEF o
  <2>7. at \in Nat /\ at % 8 = 0
    BY <2>4, <2>6
  <2>8. Kinds[i] \in {"rank", "select"} => 1 \in DOMAIN sizes
    BY DEF ArraySizes
  <2> HIDE DEF n, at, sizes
  <2>9. 1 \in DOMAIN sizes => ArrayAt(i, n, at, 1) = at + HeadBytes(i) + BytesBefore(sizes, 1)
    BY <2>5, <2>7 DEF Layout
  <2>10. BytesBefore(sizes, 1) = 0
    BY DEF BytesBefore
  <2>11. /\ Kinds[i] = "rank" => HeadBytes(i) = 8
         /\ Kinds[i] = "select" => HeadBytes(i) = 12
    <3>1. /\ Kinds[i] = "rank" => NumNumbers(i) = 2
          /\ Kinds[i] = "select" => NumNumbers(i) = 3
      BY <2>2, KindsAre
    <3>2. QED
      BY <3>1 DEF HeadBytes
  <2>12. (at + 8 + 0) % 8 = 0 /\ (at + 12 + 0) % 8 = 4
    BY <2>7
  <2>13. QED
    BY <2>3, <2>8, <2>9, <2>10, <2>11, <2>12
<1>2. QED
  BY <1>1, StorageInvariant, PTL
================================================================================

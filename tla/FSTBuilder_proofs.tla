--------------------------- MODULE FSTBuilder_proofs ---------------------------
(*****************************************************************************)
(* Proofs about the builder.                                                 *)
(*                                                                           *)
(* For every list of keys, sorted or not: type correctness, and that the     *)
(* builder never writes behind a vector of bits, because the slot of the     *)
(* next item exists on every level.                                          *)
(*                                                                           *)
(* For every list of keys of which none is a proper prefix of another: the   *)
(* n-th child bit of a level leads to the n-th node of the next level, and   *)
(* the k-th leaf of a level owns its k-th value; the order of the keys plays *)
(* no part.  For a sorted list of such keys, the labels of a node ascend.    *)
(*                                                                           *)
(* The bitmaps of the dense levels hold exactly what the sparse vectors      *)
(* hold.  buildDense tells a terminator by the greatest label on a leaf at   *)
(* the start of its node; that no label of a key is taken for one rests on   *)
(* two facts about nodes: their labels ascend, and a leaf is never the only  *)
(* label of its node.                                                        *)
(*                                                                           *)
(* The builder implements the abstract trie.  Its vectors are read back as   *)
(* entries: the path to a leaf is found by counting child bits and start     *)
(* bits, its value by counting leaves.  First come paths and leaves of any   *)
(* vectors, and what an item appended behind the others does to them: the    *)
(* path to an item that was there stays, and so does the rank of a leaf on   *)
(* its level.  Then the keys of a sorted list: the shortest prefix no other  *)
(* key has is settled by the two neighbours.  KeysInv ties the scan to it,   *)
(* CollectInv follows the values while they are concatenated, and StoredInv  *)
(* says that the entries are those of the keys before the one the scan       *)
(* stands at.                                                                *)
(*****************************************************************************)
EXTENDS FSTBuilder, Numbers_proofs, SequenceTheorems

-------------------------------------------------------------------------------
(* Type correctness *)

(* What TypeOK needs to be inductive: which levels exist, which key and level
   each phase may be working on. *)
StructInv ==
  /\ input \in Inputs
  /\ \A l \in Levels : l < height <=> labels[l] # << >>
  /\ pc \in {"skip", "rest", "store"} => cur <= NumKeys
  /\ pc = "skip" => level + input.skip_prefix <= Len(Key) /\ level <= height
  /\ pc \in {"rest", "store"} =>
       level >= 1 /\ level <= height /\ nxt > cur
  /\ pc \in {"cutoff", "collect", "dense"} => input.include_dense
  /\ pc = "cutoff" => level = 0 /\ height > 0
  /\ pc = "collect" => level < height /\ sparse_start_level <= height
  /\ pc = "dense" => level <= sparse_start_level /\ sparse_start_level <= height

TypeInv == TypeOK /\ StructInv

(* The arguments of a build have their types, and no key is too short or too
   long for the levels. *)
LEMMA InputFacts ==
  ASSUME input \in Inputs
  PROVE  /\ input \in InputType
         /\ input.keys \in Seq(Seq(Label))
         /\ NumKeys \in Nat \ {0}
         /\ input.skip_prefix \in Nat
         /\ \A i \in 1 .. NumKeys :
              /\ input.keys[i] \in Seq(Label)
              /\ Len(input.keys[i]) \in Nat
              /\ Len(input.keys[i]) > input.skip_prefix
              /\ Len(input.keys[i]) - input.skip_prefix <= MaxLevel
<1>1. input \in InputType /\ input.keys # << >>
  BY InputsAssumption
<1>2. input.keys \in Seq(Seq(Label)) /\ input.skip_prefix \in Nat
  BY <1>1 DEF InputType
<1>3. NumKeys \in Nat \ {0}
  BY <1>1, <1>2 DEF NumKeys
<1>4. ASSUME NEW i \in 1 .. NumKeys
      PROVE  /\ input.keys[i] \in Seq(Label)
             /\ Len(input.keys[i]) \in Nat
             /\ Len(input.keys[i]) > input.skip_prefix
             /\ Len(input.keys[i]) - input.skip_prefix <= MaxLevel
  <2>1. i \in 1 .. Len(input.keys)
    BY DEF NumKeys
  <2>2. /\ Len(input.keys[i]) > input.skip_prefix
        /\ Len(input.keys[i]) - input.skip_prefix <= MaxLevel
    BY <2>1, InputsAssumption
  <2>3. input.keys[i] \in Seq(Label)
    BY <1>2, <2>1
  <2>4. QED
    BY <2>2, <2>3
<1>5. QED
  BY <1>1, <1>2, <1>3, <1>4

(* A byte of a key, or the NUL behind it, is a label. *)
LEMMA LabelOfType ==
  ASSUME NEW key \in Seq(Label), NEW l \in Nat, input.skip_prefix \in Nat
  PROVE  LabelOf(key, l) \in Label
BY ConstantsAssumption DEF LabelOf, Byte, Label

THEOREM TypeInit == Init => TypeInv
<1> SUFFICES ASSUME Init PROVE TypeInv
  OBVIOUS
<1> USE ConstantsAssumption DEF Init
<1>1. input \in Inputs /\ NumKeys \in Nat \ {0}
  BY InputFacts
<1>2. TypeOK
  BY <1>1, InputFacts DEF TypeOK, Levels
<1>3. StructInv
  BY <1>1, InputFacts DEF StructInv, Levels, Key, NumKeys
<1>4. QED
  BY <1>2, <1>3 DEF TypeInv

(* The key a phase of the scan works on is a sequence of labels that leaves
   room in Levels. *)
LEMMA KeyFacts ==
  ASSUME TypeInv, pc \in {"skip", "rest", "store"}
  PROVE  /\ Key \in Seq(Label)
         /\ Len(Key) \in Nat
         /\ Len(Key) - input.skip_prefix <= MaxLevel
         /\ input.skip_prefix \in Nat
         /\ cur \in 1 .. NumKeys
         /\ NumKeys \in Nat
<1>1. cur \in 1 .. NumKeys
  BY InputFacts DEF TypeInv, TypeOK, StructInv
<1>2. QED
  BY <1>1, InputFacts DEF TypeInv, StructInv, Key

(* A position of a level that exists is a natural number. *)
LEMMA LastPosType ==
  ASSUME TypeInv, NEW l \in Levels, l < height
  PROVE  LastPos(l) \in Nat /\ GetNumItems(l) = LastPos(l) + 1
<1>1. labels[l] \in Seq(Label) /\ labels[l] # << >>
  BY DEF TypeInv, TypeOK, StructInv
<1>2. QED
  BY <1>1 DEF LastPos, GetNumItems

(* insertKeyByte keeps the types, and the levels that exist are the levels
   that hold an item. *)
LEMMA InsertKeyByteType ==
  ASSUME TypeInv, NEW c \in Label, NEW l \in Levels, l <= height,
         NEW start \in BOOLEAN, InsertKeyByte(c, l, start)
  PROVE  /\ height' \in 0 .. MaxLevel + 1
         /\ height' >= height /\ height' > l
         /\ labels' \in [Levels -> Seq(Label)]
         /\ child_indicator_bits' \in [Levels -> SUBSET Nat]
         /\ louds_bits' \in [Levels -> SUBSET Nat]
         /\ words' \in [Levels -> Nat]
         /\ node_counts' \in [Levels -> Nat]
         /\ \A m \in Levels : m < height' <=> labels'[m] # << >>
<1> USE ConstantsAssumption
<1>1. /\ height \in 0 .. MaxLevel + 1
      /\ labels \in [Levels -> Seq(Label)]
      /\ child_indicator_bits \in [Levels -> SUBSET Nat]
      /\ louds_bits \in [Levels -> SUBSET Nat]
      /\ words \in [Levels -> Nat]
      /\ node_counts \in [Levels -> Nat]
      /\ \A m \in Levels : m < height <=> labels[m] # << >>
  BY DEF TypeInv, TypeOK, StructInv
<1>2. l \in Nat /\ l <= MaxLevel /\ GetNumItems(l) \in Nat
  BY <1>1 DEF Levels, GetNumItems
<1>3. height' \in 0 .. MaxLevel + 1 /\ height' >= height /\ height' > l
  BY <1>1, <1>2 DEF InsertKeyByte
<1>4. labels' = [labels EXCEPT ![l] = Append(labels[l], c)]
  BY DEF InsertKeyByte
<1>5. labels' \in [Levels -> Seq(Label)]
  BY <1>1, <1>4
<1>6. child_indicator_bits' \in [Levels -> SUBSET Nat]
  <2>1. CASE l > 0
    <3>1. l - 1 \in Levels /\ l - 1 < height
      BY <1>1, <1>2, <2>1 DEF Levels
    <3>2. LastPos(l - 1) \in Nat
      BY <3>1, LastPosType
    <3>3. QED
      BY <1>1, <2>1, <3>1, <3>2 DEF InsertKeyByte
  <2>2. CASE ~(l > 0)
    BY <1>1, <2>2 DEF InsertKeyByte
  <2>3. QED
    BY <2>1, <2>2
<1>7. louds_bits' \in [Levels -> SUBSET Nat] /\ node_counts' \in [Levels -> Nat]
  BY <1>1, <1>2 DEF InsertKeyByte
<1>8. words' \in [Levels -> Nat]
  BY <1>1 DEF InsertKeyByte, WordsAfter
<1>9. \A m \in Levels : m < height' <=> labels'[m] # << >>
  <2> TAKE m \in Levels
  <2>1. CASE m = l
    BY <1>1, <1>3, <1>4, <2>1
  <2>2. CASE m # l
    <3>1. labels'[m] = labels[m]
      BY <1>1, <1>4, <2>2
    <3>2. m < height' <=> m < height
      <4>1. height' = IF l >= height THEN height + 1 ELSE height
        BY DEF InsertKeyByte
      <4>2. m \in Nat
        BY <1>1 DEF Levels
      <4>3. QED
        BY <1>1, <1>2, <2>2, <4>1, <4>2
    <3>3. QED
      BY <1>1, <3>1, <3>2
  <2>3. QED
    BY <2>1, <2>2
<1>10. QED
  BY <1>3, <1>5, <1>6, <1>7, <1>8, <1>9

(* The bitmaps of a level are sets of natural numbers. *)
LEMMA DenseLevelType ==
  ASSUME TypeInv, NEW l \in Levels
  PROVE  DenseLevel(l) \in [labels : SUBSET Nat, children : SUBSET Nat,
                            prefixkey : SUBSET Nat]
<1> USE ConstantsAssumption
<1> DEFINE items == 0 .. GetNumItems(l) - 1
<1>1. labels[l] \in Seq(Label) /\ louds_bits[l] \in SUBSET Nat
  BY DEF TypeInv, TypeOK
<1>2. ASSUME NEW p \in items
      PROVE  NodeNum(l, p) \in Nat /\ BitmapPos(l, p) \in Nat
  <2>1. p \in Nat /\ p + 1 \in 1 .. Len(labels[l])
    BY <1>1 DEF GetNumItems
  <2>2. {q \in louds_bits[l] : 1 <= q /\ q <= p} \subseteq 1 .. p
    BY <1>1
  <2>3. IsFiniteSet({q \in louds_bits[l] : 1 <= q /\ q <= p})
    BY <2>1, <2>2, FS_Interval, FS_Subset
  <2>4. NodeNum(l, p) \in Nat
    BY <2>3, FS_CardinalityType DEF NodeNum
  <2>5. labels[l][p + 1] \in Nat
    BY <1>1, <2>1 DEF Label
  <2>6. QED
    BY <2>4, <2>5 DEF BitmapPos
<1>3. QED
  BY <1>2 DEF DenseLevel

(* Where a phase of the scan may stand. *)
LEMMA LevelFacts ==
  ASSUME TypeInv
  PROVE  /\ pc = "skip" => level \in 0 .. MaxLevel /\ level <= height
         /\ pc \in {"rest", "store"} =>
              level \in 1 .. MaxLevel + 1 /\ level - 1 \in Levels /\ level <= height
         /\ pc = "rest" /\ SharesLastByte => level \in 1 .. MaxLevel
         /\ pc = "collect" => level \in 0 .. MaxLevel
         /\ pc = "dense" /\ level < sparse_start_level => level \in 0 .. MaxLevel
<1> USE ConstantsAssumption
<1>1. level \in 0 .. MaxLevel + 1 /\ height \in 0 .. MaxLevel + 1
      /\ sparse_start_level \in 0 .. MaxLevel + 1
  BY DEF TypeInv, TypeOK
<1>2. ASSUME pc = "skip" PROVE level \in 0 .. MaxLevel /\ level <= height
  <2>1. level + input.skip_prefix <= Len(Key) /\ level <= height
    BY <1>2 DEF TypeInv, StructInv
  <2>2. /\ Len(Key) \in Nat /\ input.skip_prefix \in Nat
        /\ Len(Key) - input.skip_prefix <= MaxLevel
    BY <1>2, KeyFacts
  <2>3. QED
    BY <1>1, <2>1, <2>2
<1>3. ASSUME pc \in {"rest", "store"}
      PROVE  level \in 1 .. MaxLevel + 1 /\ level - 1 \in Levels /\ level <= height
  <2>1. level >= 1 /\ level <= height
    BY <1>3 DEF TypeInv, StructInv
  <2>2. QED
    BY <1>1, <2>1 DEF Levels
<1>4. ASSUME pc = "rest", SharesLastByte PROVE level \in 1 .. MaxLevel
  <2>1. level + input.skip_prefix < Len(Key)
    BY <1>4 DEF SharesLastByte
  <2>2. /\ Len(Key) \in Nat /\ input.skip_prefix \in Nat
        /\ Len(Key) - input.skip_prefix <= MaxLevel
    BY <1>4, KeyFacts
  <2>3. QED
    BY <1>1, <1>3, <1>4, <2>1, <2>2
<1>5. ASSUME pc = "collect" PROVE level \in 0 .. MaxLevel
  <2>1. level < height
    BY <1>5 DEF TypeInv, StructInv
  <2>2. QED
    BY <1>1, <2>1
<1>6. QED
  BY <1>1, <1>2, <1>3, <1>4, <1>5

(* Only StoreValue changes the key the scan works on. *)
LEMMA SameKeyNext ==
  ASSUME UNCHANGED <<input, cur>>
  PROVE  Key' = Key /\ NumKeys' = NumKeys
BY DEF Key, NumKeys

(* One lemma per action: the types and the structure survive the step. *)
LEMMA SkipCommonPrefixType == TypeInv /\ SkipCommonPrefix => TypeInv'
<1> SUFFICES ASSUME TypeInv, SkipCommonPrefix PROVE TypeInv'
  OBVIOUS
<1> USE ConstantsAssumption
<1>1. /\ pc = "skip" /\ level' = level + 1
      /\ level + input.skip_prefix < Len(Key) /\ level < height
      /\ child_indicator_bits' =
           [child_indicator_bits EXCEPT ![level] = @ \cup {LastPos(level)}]
      /\ UNCHANGED <<input, pc, cur, nxt, height, labels, louds_bits, words,
                     node_counts, values, denseVars>>
  BY DEF SkipCommonPrefix, CanSkip, IsCharCommonPrefix
<1>2. level \in Levels /\ level \in Nat
  BY <1>1, LevelFacts DEF Levels
<1>3. Len(Key) \in Nat /\ input.skip_prefix \in Nat
  BY <1>1, KeyFacts
<1>4. LastPos(level) \in Nat
  BY <1>1, <1>2, LastPosType
<1>5. Key' = Key /\ NumKeys' = NumKeys
  BY <1>1, SameKeyNext
<1>6. child_indicator_bits' \in [Levels -> SUBSET Nat]
  BY <1>1, <1>2, <1>4 DEF TypeInv, TypeOK
<1>7. level' \in 0 .. MaxLevel + 1
  BY <1>1, <1>2 DEF Levels
<1>8. TypeOK'
  BY <1>1, <1>5, <1>6, <1>7 DEF TypeInv, TypeOK, denseVars
<1>9. level' + input'.skip_prefix <= Len(Key') /\ level' <= height'
  BY <1>1, <1>2, <1>3, <1>5 DEF TypeInv, TypeOK
<1>10. StructInv'
  BY <1>1, <1>5, <1>9 DEF TypeInv, StructInv
<1>11. QED
  BY <1>8, <1>10 DEF TypeInv

LEMMA InsertFirstByteType == TypeInv /\ InsertFirstByte => TypeInv'
<1> SUFFICES ASSUME TypeInv, InsertFirstByte PROVE TypeInv'
  OBVIOUS
<1> USE ConstantsAssumption
<1>1. /\ pc = "skip"
      /\ nxt' \in cur + 1 .. NumKeys + 1
      /\ pc' \in {"store", "rest"}
      /\ InsertKeyByte(LabelOf(Key, level), level, IsLevelEmpty(level))
      /\ level' = level + 1
      /\ UNCHANGED <<input, cur, values, denseVars>>
  BY DEF InsertFirstByte
<1>2. level \in Levels /\ level \in Nat /\ level <= height
  BY <1>1, LevelFacts DEF Levels
<1>3. /\ Key \in Seq(Label) /\ input.skip_prefix \in Nat
      /\ cur \in 1 .. NumKeys /\ NumKeys \in Nat
  BY <1>1, KeyFacts
<1>4. LabelOf(Key, level) \in Label
  BY <1>2, <1>3, LabelOfType
<1>5. /\ height' \in 0 .. MaxLevel + 1
      /\ height' >= height /\ height' > level
      /\ labels' \in [Levels -> Seq(Label)]
      /\ child_indicator_bits' \in [Levels -> SUBSET Nat]
      /\ louds_bits' \in [Levels -> SUBSET Nat]
      /\ words' \in [Levels -> Nat]
      /\ node_counts' \in [Levels -> Nat]
      /\ \A m \in Levels : m < height' <=> labels'[m] # << >>
  <2>1. IsLevelEmpty(level) \in BOOLEAN
    BY DEF IsLevelEmpty
  <2>2. QED
    BY <1>1, <1>2, <1>4, <2>1, InsertKeyByteType
<1>6. NumKeys' = NumKeys
  BY <1>1, SameKeyNext
<1>7. level' \in 1 .. MaxLevel + 1 /\ nxt' \in 1 .. NumKeys + 1 /\ nxt' > cur
  BY <1>1, <1>2, <1>3 DEF Levels
<1>8. TypeOK'
  BY <1>1, <1>5, <1>6, <1>7 DEF TypeInv, TypeOK, denseVars
<1>9. level' <= height'
  BY <1>1, <1>2, <1>5
<1>10. StructInv'
  BY <1>1, <1>3, <1>5, <1>6, <1>7, <1>9 DEF TypeInv, StructInv
<1>11. QED
  BY <1>8, <1>10 DEF TypeInv

LEMMA InsertNextByteType == TypeInv /\ InsertNextByte => TypeInv'
<1> SUFFICES ASSUME TypeInv, InsertNextByte PROVE TypeInv'
  OBVIOUS
<1> USE ConstantsAssumption
<1>1. /\ pc = "rest" /\ SharesLastByte
      /\ InsertKeyByte(LabelOf(Key, level), level, TRUE)
      /\ level' = level + 1
      /\ UNCHANGED <<input, pc, cur, nxt, values, denseVars>>
  BY DEF InsertNextByte
<1>2. level \in Levels /\ level \in Nat /\ level <= height
  BY <1>1, LevelFacts DEF Levels
<1>3. Key \in Seq(Label) /\ input.skip_prefix \in Nat
  BY <1>1, KeyFacts
<1>4. LabelOf(Key, level) \in Label
  BY <1>2, <1>3, LabelOfType
<1>5. /\ height' \in 0 .. MaxLevel + 1
      /\ height' >= height /\ height' > level
      /\ labels' \in [Levels -> Seq(Label)]
      /\ child_indicator_bits' \in [Levels -> SUBSET Nat]
      /\ louds_bits' \in [Levels -> SUBSET Nat]
      /\ words' \in [Levels -> Nat]
      /\ node_counts' \in [Levels -> Nat]
      /\ \A m \in Levels : m < height' <=> labels'[m] # << >>
  BY <1>1, <1>2, <1>4, InsertKeyByteType
<1>6. NumKeys' = NumKeys
  BY <1>1, SameKeyNext
<1>7. level' \in 1 .. MaxLevel + 1
  BY <1>1, <1>2 DEF Levels
<1>8. TypeOK'
  BY <1>1, <1>5, <1>6, <1>7 DEF TypeInv, TypeOK, denseVars
<1>9. level' <= height'
  BY <1>1, <1>2, <1>5
<1>10. StructInv'
  BY <1>1, <1>5, <1>6, <1>7, <1>9 DEF TypeInv, StructInv
<1>11. QED
  BY <1>8, <1>10 DEF TypeInv

LEMMA StoreValueType == TypeInv /\ StoreValue => TypeInv'
<1> SUFFICES ASSUME TypeInv, StoreValue PROVE TypeInv'
  OBVIOUS
<1> USE ConstantsAssumption
<1>1. /\ pc \in {"store", "rest"}
      /\ values' = [values EXCEPT ![level - 1] = Append(@, cur)]
      /\ cur' = nxt /\ level' = 0
      /\ pc' \in {"skip", "cutoff", "done"}
      /\ pc' = "skip" => nxt <= NumKeys
      /\ pc' = "cutoff" => input.include_dense
      /\ UNCHANGED <<input, nxt, sparseVars, denseVars>>
  BY DEF StoreValue
<1>2. cur \in Nat /\ level - 1 \in Levels /\ height > 0
  <2>1. cur \in 1 .. NumKeys /\ NumKeys \in Nat
    BY <1>1, KeyFacts
  <2>2. level \in 1 .. MaxLevel + 1 /\ level - 1 \in Levels /\ level <= height
    BY <1>1, LevelFacts
  <2>3. QED
    BY <2>1, <2>2 DEF TypeInv, TypeOK
<1>3. values' \in [Levels -> Seq(Nat)]
  <2>1. values \in [Levels -> Seq(Nat)]
    BY DEF TypeInv, TypeOK
  <2>2. Append(values[level - 1], cur) \in Seq(Nat)
    BY <1>2, <2>1
  <2>3. QED
    BY <1>1, <2>1, <2>2
<1>4. NumKeys' = NumKeys
  BY <1>1 DEF NumKeys
<1>5. level' \in 0 .. MaxLevel + 1
  BY <1>1
<1>6. TypeOK'
  BY <1>1, <1>3, <1>4, <1>5 DEF TypeInv, TypeOK, sparseVars, denseVars
<1>7. pc' = "skip" => level' + input'.skip_prefix <= Len(Key') /\ level' <= height'
  <2> SUFFICES ASSUME pc' = "skip"
               PROVE  level' + input'.skip_prefix <= Len(Key') /\ level' <= height'
    OBVIOUS
  <2>1. nxt \in 1 .. NumKeys
    BY <1>1, InputFacts DEF TypeInv, TypeOK, StructInv
  <2>2. /\ Len(input.keys[nxt]) \in Nat /\ input.skip_prefix \in Nat
        /\ input.skip_prefix < Len(input.keys[nxt])
    BY <2>1, InputFacts DEF TypeInv, StructInv
  <2>3. Key' = input.keys[nxt]
    BY <1>1 DEF Key
  <2>4. input' = input /\ height' = height /\ level' = 0
    BY <1>1 DEF sparseVars
  <2>5. 0 + input.skip_prefix <= Len(input.keys[nxt]) /\ 0 <= height
    BY <2>2 DEF TypeInv, TypeOK
  <2>6. QED
    BY <2>3, <2>4, <2>5
<1>8. StructInv'
  BY <1>1, <1>2, <1>4, <1>7 DEF TypeInv, StructInv, sparseVars
<1>9. QED
  BY <1>6, <1>8 DEF TypeInv

LEMMA DetermineCutoffLevelType == TypeInv /\ DetermineCutoffLevel => TypeInv'
<1> SUFFICES ASSUME TypeInv, DetermineCutoffLevel PROVE TypeInv'
  OBVIOUS
<1> USE ConstantsAssumption
<1>1. /\ pc = "cutoff" /\ pc' = "collect" /\ sparse_start_level' \in 0 .. height
      /\ UNCHANGED <<input, cur, nxt, level, sparseVars, values, values_dense,
                     values_sparse, dense>>
  BY DEF DetermineCutoffLevel
<1>2. NumKeys' = NumKeys
  BY <1>1, SameKeyNext
<1>3. TypeOK'
  BY <1>1, <1>2 DEF TypeInv, TypeOK, sparseVars
<1>4. StructInv'
  BY <1>1, <1>2 DEF TypeInv, TypeOK, StructInv, sparseVars
<1>5. QED
  BY <1>3, <1>4 DEF TypeInv

LEMMA CollectValuesType == TypeInv /\ CollectValues => TypeInv'
<1> SUFFICES ASSUME TypeInv, CollectValues PROVE TypeInv'
  OBVIOUS
<1> USE ConstantsAssumption
<1>1. /\ pc = "collect"
      /\ \/ pc' = "collect" /\ level' = level + 1 /\ level + 1 < height
            /\ values' = values
         \/ pc' = "dense" /\ level' = 0 /\ values' = [l \in Levels |-> << >>]
      /\ UNCHANGED <<input, cur, nxt, sparseVars, sparse_start_level, dense>>
  BY DEF CollectValues
<1>2. level \in Levels /\ level \in Nat
  BY <1>1, LevelFacts DEF Levels
<1>3. /\ values \in [Levels -> Seq(Nat)]
      /\ values_dense \in Seq(Nat) /\ values_sparse \in Seq(Nat)
  BY DEF TypeInv, TypeOK
<1>4. values_dense' \in Seq(Nat) /\ values_sparse' \in Seq(Nat)
  <2>1. values[level] \in Seq(Nat)
    BY <1>2, <1>3
  <2>2. /\ values_dense \o values[level] \in Seq(Nat)
        /\ values_sparse \o values[level] \in Seq(Nat)
    BY <1>3, <2>1
  <2>3. /\ values_dense' \in {values_dense, values_dense \o values[level]}
        /\ values_sparse' \in {values_sparse, values_sparse \o values[level]}
    BY DEF CollectValues
  <2>4. QED
    BY <1>3, <2>2, <2>3
<1>5. values' \in [Levels -> Seq(Nat)]
  <2>1. [l \in Levels |-> << >>] \in [Levels -> Seq(Nat)]
    OBVIOUS
  <2>2. QED
    BY <1>1, <1>3, <2>1
<1>6. level' \in 0 .. MaxLevel + 1
  BY <1>1, <1>2 DEF Levels
<1>7. NumKeys' = NumKeys
  BY <1>1, SameKeyNext
<1>8. TypeOK'
  BY <1>1, <1>4, <1>5, <1>6, <1>7 DEF TypeInv, TypeOK, sparseVars
<1>9. StructInv'
  BY <1>1, <1>7 DEF TypeInv, TypeOK, StructInv, sparseVars
<1>10. QED
  BY <1>8, <1>9 DEF TypeInv

LEMMA BuildDenseLevelType == TypeInv /\ BuildDenseLevel => TypeInv'
<1> SUFFICES ASSUME TypeInv, BuildDenseLevel PROVE TypeInv'
  OBVIOUS
<1> USE ConstantsAssumption
<1> DEFINE Bitmaps == [labels : SUBSET Nat, children : SUBSET Nat,
                       prefixkey : SUBSET Nat]
<1>1. /\ pc = "dense" /\ level < sparse_start_level
      /\ dense' = Append(dense, DenseLevel(level))
      /\ level' = level + 1
      /\ UNCHANGED <<input, pc, cur, nxt, sparseVars, values, sparse_start_level,
                     values_dense, values_sparse>>
  BY DEF BuildDenseLevel
<1>2. level \in Levels /\ level \in Nat
  BY <1>1, LevelFacts DEF Levels
<1>3. dense' \in Seq(Bitmaps)
  <2>1. dense \in Seq(Bitmaps)
    BY DEF TypeInv, TypeOK
  <2>2. DenseLevel(level) \in Bitmaps
    BY <1>2, DenseLevelType
  <2> HIDE DEF Bitmaps
  <2>3. QED
    BY <1>1, <2>1, <2>2
<1>4. level' \in 0 .. MaxLevel + 1
  BY <1>1, <1>2 DEF Levels
<1>5. NumKeys' = NumKeys
  BY <1>1, SameKeyNext
<1>6. TypeOK'
  BY <1>1, <1>3, <1>4, <1>5 DEF TypeInv, TypeOK, sparseVars
<1>7. StructInv'
  BY <1>1, <1>2, <1>5 DEF TypeInv, TypeOK, StructInv, sparseVars
<1>8. QED
  BY <1>6, <1>7 DEF TypeInv

LEMMA FinishBuildType == TypeInv /\ (FinishBuild \/ UNCHANGED vars) => TypeInv'
<1>1. CASE FinishBuild
  BY <1>1 DEF FinishBuild, TypeInv, TypeOK, StructInv, NumKeys, sparseVars, denseVars
<1>2. CASE UNCHANGED vars
  BY <1>2 DEF vars, TypeInv, TypeOK, StructInv, NumKeys, Key, sparseVars, denseVars
<1>3. QED
  BY <1>1, <1>2

(* The types and the structure survive every step. *)
LEMMA TypeStep == TypeInv /\ [Next]_vars => TypeInv'
BY SkipCommonPrefixType, InsertFirstByteType, InsertNextByteType, StoreValueType,
   DetermineCutoffLevelType, CollectValuesType, BuildDenseLevelType, FinishBuildType
DEF Next, Terminated

(* Every variable keeps its type, whatever keys the build is given. *)
THEOREM TypeCorrect == Spec => []TypeOK
<1>1. Init => TypeInv
  BY TypeInit
<1>2. TypeInv /\ [Next]_vars => TypeInv'
  BY TypeStep
<1>3. TypeInv => TypeOK
  BY DEF TypeInv
<1>4. QED
  BY <1>1, <1>2, <1>3, PTL DEF Spec

-------------------------------------------------------------------------------
(* Slots: no bit is written behind the words of a level *)

(* No bit is set behind the items of its level, be the level in use or not. *)
BitsInside ==
  \A l \in Levels :
    \A p \in child_indicator_bits[l] \cup louds_bits[l] : p < GetNumItems(l)

(* The slot behind the last item of a level in use lies in its words. *)
SlotExists(l) == l < height => GetNumItems(l) < words[l] * WordSize

SlotsInv ==
  /\ TypeInv
  /\ BitsInside
  /\ \A l \in Levels : SlotExists(l)

-------------------------------------------------------------------------------
(* Lemmas *)

(* Whole words end at a word. *)
LEMMA WholeWords ==
  ASSUME NEW w \in Nat, NEW d \in Nat \ {0}
  PROVE  (w * d) % d = 0
<1> DEFINE q == (w * d) \div d
           r == (w * d) % d
<1>1. w * d \in Nat
  OBVIOUS
<1>2. q \in Int /\ r \in 0 .. d - 1 /\ w * d = d * q + r
  BY <1>1
<1>3. d * (w - q) = r
  BY <1>2
<1> HIDE DEF q, r
<1>4. ~(w - q >= 1)
  BY <1>2, <1>3
<1>5. ~(w - q <= -1)
  BY <1>2, <1>3
<1>6. w - q = 0
  BY <1>2, <1>4, <1>5
<1>7. r = 0
  BY <1>2, <1>3, <1>6
<1>8. QED
  BY <1>7 DEF r

(* If an item lies inside the words, so does the slot behind it, once
   moveToNextItemSlot has added a word where the last one is full. *)
LEMMA NextSlot ==
  ASSUME NEW n \in Nat, NEW w \in Nat, NEW d \in Nat \ {0}, n < w * d
  PROVE  n + 1 < (w + (IF (n + 1) % d = 0 THEN 1 ELSE 0)) * d
<1>1. w * d \in Nat
  OBVIOUS
<1>2. CASE (n + 1) % d = 0
  <2>1. (w + 1) * d = w * d + d
    OBVIOUS
  <2>2. QED
    BY <1>1, <1>2, <2>1
<1>3. CASE (n + 1) % d # 0
  <2>1. n + 1 # w * d
    BY <1>3, WholeWords
  <2>2. QED
    BY <1>1, <1>3, <2>1
<1>4. QED
  BY <1>2, <1>3

(* A word has room for its first item. *)
LEMMA FirstSlot ==
  ASSUME NEW d \in Nat \ {0}
  PROVE  1 < (1 + (IF 1 % d = 0 THEN 1 ELSE 0)) * d
<1>1. CASE d = 1
  BY <1>1
<1>2. CASE d > 1
  <2>1. 1 % d = 1
    BY <1>2
  <2>2. QED
    BY <1>2, <2>1
<1>3. QED
  BY <1>1, <1>2

(* insertKeyByte keeps the bits inside and leaves a slot for the next item. *)
LEMMA InsertKeyByteSlots ==
  ASSUME SlotsInv, NEW c \in Label, NEW l \in Levels, l <= height,
         NEW start \in BOOLEAN, InsertKeyByte(c, l, start)
  PROVE  /\ BitsInside'
         /\ \A m \in Levels : SlotExists(m)'
<1> USE ConstantsAssumption
<1>1. /\ height \in 0 .. MaxLevel + 1
      /\ labels \in [Levels -> Seq(Label)]
      /\ child_indicator_bits \in [Levels -> SUBSET Nat]
      /\ louds_bits \in [Levels -> SUBSET Nat]
      /\ words \in [Levels -> Nat]
      /\ \A m \in Levels : m < height <=> labels[m] # << >>
  BY DEF SlotsInv, TypeInv, TypeOK, StructInv
<1>2. l \in Nat /\ \A m \in Levels : m \in Nat /\ GetNumItems(m) \in Nat
  BY <1>1 DEF Levels, GetNumItems
<1>3. labels' = [labels EXCEPT ![l] = Append(labels[l], c)]
  BY DEF InsertKeyByte
<1>4. /\ GetNumItems(l)' = GetNumItems(l) + 1
      /\ \A m \in Levels : m # l => GetNumItems(m)' = GetNumItems(m)
  BY <1>1, <1>3 DEF GetNumItems
<1>5. BitsInside'
  <2> SUFFICES ASSUME NEW m \in Levels,
                      NEW p \in child_indicator_bits'[m] \cup louds_bits'[m]
               PROVE  p < GetNumItems(m)'
    BY DEF BitsInside
  <2>1. GetNumItems(m)' \in Nat /\ GetNumItems(m) <= GetNumItems(m)'
    BY <1>2, <1>4
  <2>2. CASE p \in child_indicator_bits[m] \cup louds_bits[m]
    <3>1. p < GetNumItems(m) /\ p \in Nat
      BY <1>1, <2>2 DEF SlotsInv, BitsInside
    <3>2. QED
      BY <1>2, <2>1, <3>1
  <2>3. CASE p \in child_indicator_bits'[m] /\ p \notin child_indicator_bits[m]
    <3>1. l > 0 /\ m = l - 1 /\ p = LastPos(l - 1)
      BY <1>1, <2>3 DEF InsertKeyByte
    <3>2. QED
      BY <1>2, <2>1, <3>1 DEF LastPos
  <2>4. CASE p \in louds_bits'[m] /\ p \notin louds_bits[m]
    <3>1. m = l /\ p = GetNumItems(l)
      BY <1>1, <2>4 DEF InsertKeyByte
    <3>2. QED
      BY <1>2, <1>4, <3>1
  <2>5. QED
    BY <2>2, <2>3, <2>4
<1>6. words' = [words EXCEPT ![l] = WordsAfter(l, GetNumItems(l))]
  BY DEF InsertKeyByte
<1>7. SlotExists(l)'
  <2> DEFINE n == GetNumItems(l)
  <2>1. words'[l] = WordsAfter(l, n)
    BY <1>1, <1>6
  <2>2. CASE l >= height
    <3>1. n = 0
      BY <1>1, <1>2, <2>2 DEF GetNumItems
    <3>2. words'[l] = 1 + (IF 1 % WordSize = 0 THEN 1 ELSE 0)
      BY <2>1, <2>2, <3>1 DEF WordsAfter
    <3>3. QED
      BY <1>4, <3>1, <3>2, FirstSlot DEF SlotExists
  <2>3. CASE l < height
    <3>1. n < words[l] * WordSize /\ n \in Nat /\ words[l] \in Nat
      BY <1>1, <1>2, <2>3 DEF SlotsInv, SlotExists
    <3>2. words'[l] = words[l] + (IF (n + 1) % WordSize = 0 THEN 1 ELSE 0)
      BY <1>1, <1>2, <2>1, <2>3 DEF WordsAfter
    <3>3. n + 1 < words'[l] * WordSize
      BY <3>1, <3>2, NextSlot
    <3>4. QED
      BY <1>4, <3>3 DEF SlotExists
  <2>4. QED
    BY <1>1, <1>2, <2>2, <2>3
<1>8. ASSUME NEW m \in Levels, m # l PROVE SlotExists(m)'
  <2>1. height' = IF l >= height THEN height + 1 ELSE height
    BY DEF InsertKeyByte
  <2>2. m < height' => m < height
    BY <1>1, <1>2, <1>8, <2>1
  <2>3. words'[m] = words[m]
    BY <1>1, <1>6, <1>8
  <2>4. QED
    BY <1>4, <1>8, <2>2, <2>3 DEF SlotsInv, SlotExists
<1>9. QED
  BY <1>5, <1>7, <1>8

-------------------------------------------------------------------------------
(* One lemma per kind of step *)

LEMMA SlotsInit == Init => SlotsInv
<1> SUFFICES ASSUME Init PROVE SlotsInv
  OBVIOUS
<1>1. TypeInv
  BY TypeInit
<1>2. BitsInside
  BY DEF Init, BitsInside
<1>3. \A l \in Levels : SlotExists(l)
  BY ConstantsAssumption DEF Init, SlotExists, Levels
<1>4. QED
  BY <1>1, <1>2, <1>3 DEF SlotsInv

(* The bit skipCommonPrefix sets belongs to the last item of its level. *)
LEMMA SkipCommonPrefixSlots ==
  ASSUME SlotsInv, SkipCommonPrefix
  PROVE  SlotsInv'
<1>1. TypeInv'
  BY SkipCommonPrefixType DEF SlotsInv
<1>2. /\ pc = "skip" /\ level < height
      /\ child_indicator_bits' =
           [child_indicator_bits EXCEPT ![level] = @ \cup {LastPos(level)}]
      /\ UNCHANGED <<height, labels, louds_bits, words>>
  BY DEF SkipCommonPrefix, CanSkip, IsCharCommonPrefix
<1>3. level \in Levels
  BY <1>2, LevelFacts, ConstantsAssumption DEF SlotsInv, Levels
<1>4. LastPos(level) < GetNumItems(level)
  BY <1>2, <1>3, LastPosType DEF SlotsInv
<1>5. BitsInside'
  <2>1. child_indicator_bits \in [Levels -> SUBSET Nat]
    BY DEF SlotsInv, TypeInv, TypeOK
  <2>2. QED
    BY <1>2, <1>3, <1>4, <2>1 DEF SlotsInv, BitsInside, GetNumItems
<1>6. \A l \in Levels : SlotExists(l)'
  BY <1>2 DEF SlotsInv, SlotExists, GetNumItems
<1>7. QED
  BY <1>1, <1>5, <1>6 DEF SlotsInv

LEMMA InsertByteSlots ==
  ASSUME SlotsInv, InsertFirstByte \/ InsertNextByte
  PROVE  SlotsInv'
<1>1. TypeInv'
  BY InsertFirstByteType, InsertNextByteType DEF SlotsInv
<1>2. CASE InsertFirstByte
  <2>1. /\ pc = "skip"
        /\ InsertKeyByte(LabelOf(Key, level), level, IsLevelEmpty(level))
    BY <1>2 DEF InsertFirstByte
  <2>2. level \in Levels /\ level \in Nat /\ level <= height
    BY <2>1, LevelFacts, ConstantsAssumption DEF SlotsInv, Levels
  <2>3. LabelOf(Key, level) \in Label
    BY <2>1, <2>2, KeyFacts, LabelOfType DEF SlotsInv
  <2>4. IsLevelEmpty(level) \in BOOLEAN
    BY DEF IsLevelEmpty
  <2>5. QED
    BY <1>1, <2>1, <2>2, <2>3, <2>4, InsertKeyByteSlots DEF SlotsInv
<1>3. CASE InsertNextByte
  <2>1. /\ pc = "rest" /\ SharesLastByte
        /\ InsertKeyByte(LabelOf(Key, level), level, TRUE)
    BY <1>3 DEF InsertNextByte
  <2>2. level \in Levels /\ level \in Nat /\ level <= height
    BY <2>1, LevelFacts, ConstantsAssumption DEF SlotsInv, Levels
  <2>3. LabelOf(Key, level) \in Label
    BY <2>1, <2>2, KeyFacts, LabelOfType DEF SlotsInv
  <2>4. QED
    BY <1>1, <2>1, <2>2, <2>3, InsertKeyByteSlots DEF SlotsInv
<1>4. QED
  BY <1>2, <1>3

(* Every other step leaves the vectors of the levels alone. *)
LEMMA OtherSlots ==
  ASSUME SlotsInv, TypeInv',
         UNCHANGED <<height, labels, child_indicator_bits, louds_bits, words>>
  PROVE  SlotsInv'
BY DEF SlotsInv, BitsInside, SlotExists, GetNumItems

LEMMA SlotsStep == SlotsInv /\ [Next]_vars => SlotsInv'
<1> SUFFICES ASSUME SlotsInv, [Next]_vars PROVE SlotsInv'
  OBVIOUS
<1>1. CASE SkipCommonPrefix
  BY <1>1, SkipCommonPrefixSlots
<1>2. CASE InsertFirstByte \/ InsertNextByte
  BY <1>2, InsertByteSlots
<1>3. CASE \/ StoreValue \/ DetermineCutoffLevel \/ CollectValues
           \/ BuildDenseLevel \/ FinishBuild \/ UNCHANGED vars
  <2>1. TypeInv'
    BY TypeStep DEF SlotsInv
  <2>2. UNCHANGED <<height, labels, child_indicator_bits, louds_bits, words>>
    BY <1>3
    DEF StoreValue, DetermineCutoffLevel, CollectValues, BuildDenseLevel, FinishBuild,
        vars, sparseVars
  <2>3. QED
    BY <2>1, <2>2, OtherSlots
<1>4. QED
  BY <1>1, <1>2, <1>3 DEF Next, Terminated

-------------------------------------------------------------------------------
(* Results *)

(* No build sets a bit outside the words of a vector, and each level has a slot
   for its next item: the words moveToNextItemSlot adds are enough, for every
   word size and every list of keys. *)
THEOREM SlotsAlwaysSuffice == Spec => []SlotsSuffice
<1>1. Init => SlotsInv
  BY SlotsInit
<1>2. SlotsInv /\ [Next]_vars => SlotsInv'
  BY SlotsStep
<1>3. SlotsInv => SlotsSuffice
  <2> SUFFICES ASSUME SlotsInv, NEW l \in 0 .. height - 1
               PROVE  /\ GetNumItems(l) < words[l] * WordSize
                      /\ \A p \in child_indicator_bits[l] \cup louds_bits[l] :
                           p < GetNumItems(l)
    BY DEF SlotsSuffice
  <2>1. l \in Levels /\ l < height
    BY ConstantsAssumption DEF SlotsInv, TypeInv, TypeOK, Levels
  <2>2. QED
    BY <2>1 DEF SlotsInv, SlotExists, BitsInside
<1>4. QED
  BY <1>1, <1>2, <1>3, PTL DEF Spec

-------------------------------------------------------------------------------
(* The LOUDS order *)

(* Two keys differ at a byte both have, behind the ignored prefix. *)
Diverge(a, b, skip) ==
  \E m \in Levels : /\ m + skip < Len(a) /\ m + skip < Len(b)
                    /\ Byte(a, m + skip + 1) # Byte(b, m + skip + 1)

(* No key is a proper prefix of another. *)
PrefixFreeInputs ==
  \A in \in Inputs :
    \A i, j \in 1 .. Len(in.keys) :
      in.keys[i] = in.keys[j] \/ Diverge(in.keys[i], in.keys[j], in.skip_prefix)

LastLabel(l) == labels[l][GetNumItems(l)]

(* Set bits belong to items. *)
BitsInv ==
  \A l \in Levels :
    /\ child_indicator_bits[l] \subseteq 0 .. GetNumItems(l) - 1
    /\ louds_bits[l] \subseteq 0 .. GetNumItems(l) - 1

(* Level m is where the key leaves the path of the previous key, which is the
   path of the last items; that path goes on below m, all levels above m have
   their child bit. *)
LeavesPathAt(m) ==
  /\ m < height
  /\ LastLabel(m) # LabelOf(Key, m)
  /\ \A q \in 0 .. m - 1 : LastPos(q) \in child_indicator_bits[q]

(* While the common prefix is skipped. *)
SkipInv ==
  pc = "skip" =>
    /\ cur = 1 => height = 0
    /\ cur > 1 => \E m \in Levels : LeavesPathAt(m)
    /\ \A q \in 0 .. level - 1 : LastLabel(q) = LabelOf(Key, q)

(* While the key is inserted: its labels are the last items down to the leaf
   that has no value yet, and its successor is not its prefix. *)
PathInv ==
  pc \in {"rest", "store"} =>
    /\ \A q \in 0 .. level - 2 : LastPos(q) \in child_indicator_bits[q]
    /\ LastPos(level - 1) \notin child_indicator_bits[level - 1]
    /\ \A q \in 0 .. level - 1 : LastLabel(q) = LabelOf(Key, q)
    /\ nxt <= NumKeys => Diverge(Key, KeyAt(nxt), input.skip_prefix)
    /\ pc = "store" => UniqueBefore(level, KeyAt(nxt))

LoudsInv ==
  /\ TypeInv
  /\ BitsInv
  /\ SkipInv
  /\ PathInv
  /\ LoudsAligned
  /\ ValuesAligned

-------------------------------------------------------------------------------
(* Lemmas *)

(* Counting bits below a bound. *)
LEMMA CountBits ==
  ASSUME NEW n \in Nat, NEW S \in SUBSET (0 .. n - 1)
  PROVE  /\ IsFiniteSet(S)
         /\ Cardinality(S) \in Nat
         /\ S = {} => Cardinality(S) = 0
         /\ n \notin S
         /\ \A x : x \in S => S \cup {x} = S
         /\ \A x : x \notin S => Cardinality(S \cup {x}) = Cardinality(S) + 1
<1>1. IsFiniteSet(S)
  <2>1. IsFiniteSet(0 .. n - 1)
    BY FS_Interval
  <2>2. QED
    BY <2>1, FS_Subset
<1>2. Cardinality(S) \in Nat /\ (S = {} => Cardinality(S) = 0)
  BY <1>1, FS_CardinalityType, FS_EmptySet
<1>3. \A x : x \notin S => Cardinality(S \cup {x}) = Cardinality(S) + 1
  BY <1>1, FS_AddElement
<1>4. QED
  BY <1>1, <1>2, <1>3

(* What the invariant says of one level, with the counts typed. *)
LEMMA LevelCounts ==
  ASSUME LoudsInv, NEW l \in Levels
  PROVE  /\ l \in Nat
         /\ labels[l] \in Seq(Label)
         /\ GetNumItems(l) \in Nat /\ GetNumItems(l) = Len(labels[l])
         /\ LastPos(l) = GetNumItems(l) - 1
         /\ child_indicator_bits[l] \in SUBSET (0 .. GetNumItems(l) - 1)
         /\ louds_bits[l] \in SUBSET (0 .. GetNumItems(l) - 1)
         /\ Cardinality(child_indicator_bits[l]) \in Nat
         /\ Cardinality(louds_bits[l]) \in Nat
         /\ Len(values[l]) \in Nat
         /\ l >= height => /\ GetNumItems(l) = 0
                           /\ child_indicator_bits[l] = {} /\ louds_bits[l] = {}
                           /\ node_counts[l] = 0
<1>1. /\ labels[l] \in Seq(Label) /\ values[l] \in Seq(Nat) /\ l \in Nat
      /\ height \in Nat
  BY ConstantsAssumption DEF LoudsInv, TypeInv, TypeOK, Levels
<1>2. GetNumItems(l) \in Nat /\ GetNumItems(l) = Len(labels[l])
  BY <1>1 DEF GetNumItems
<1>3. /\ child_indicator_bits[l] \in SUBSET (0 .. GetNumItems(l) - 1)
      /\ louds_bits[l] \in SUBSET (0 .. GetNumItems(l) - 1)
  BY DEF LoudsInv, BitsInv
<1>4. /\ Cardinality(child_indicator_bits[l]) \in Nat
      /\ Cardinality(louds_bits[l]) \in Nat
      /\ louds_bits[l] = {} => Cardinality(louds_bits[l]) = 0
  <2>1. \A n \in Nat : \A S \in SUBSET (0 .. n - 1) :
          Cardinality(S) \in Nat /\ (S = {} => Cardinality(S) = 0)
    BY CountBits
  <2>2. \A S \in SUBSET (0 .. GetNumItems(l) - 1) :
          Cardinality(S) \in Nat /\ (S = {} => Cardinality(S) = 0)
    BY <1>2, <2>1
  <2>3. QED
    BY <1>3, <2>2
<1>5. ASSUME l >= height
      PROVE  /\ GetNumItems(l) = 0
             /\ child_indicator_bits[l] = {} /\ louds_bits[l] = {}
             /\ node_counts[l] = 0
  <2>1. labels[l] = << >>
    BY <1>1, <1>5 DEF LoudsInv, TypeInv, StructInv
  <2>2. GetNumItems(l) = 0
    BY <1>2, <2>1
  <2>3. child_indicator_bits[l] = {} /\ louds_bits[l] = {}
    BY <1>3, <2>2
  <2>4. node_counts[l] = Cardinality(louds_bits[l])
    BY DEF LoudsInv, LoudsAligned
  <2>5. QED
    BY <1>4, <2>2, <2>3, <2>4
<1>6. QED
  BY <1>1, <1>2, <1>3, <1>4, <1>5 DEF LastPos

(* A key that differs from its predecessor leaves the path of the last items
   at or below the level the skip has reached. *)
LEMMA LeavesBelow ==
  ASSUME LoudsInv, pc = "skip", cur > 1
  PROVE  \E m \in Levels : LeavesPathAt(m) /\ level <= m
<1>1. PICK m \in Levels : LeavesPathAt(m)
  BY DEF LoudsInv, SkipInv
<1>2. level \in Nat /\ m \in Nat
  BY ConstantsAssumption DEF LoudsInv, TypeInv, TypeOK, Levels
<1>3. ~(m \in 0 .. level - 1)
  BY <1>1 DEF LoudsInv, SkipInv, LeavesPathAt
<1>4. QED
  BY <1>1, <1>2, <1>3

-------------------------------------------------------------------------------
(* The initial state *)

LEMMA LoudsInit == Init => LoudsInv
<1> SUFFICES ASSUME Init PROVE LoudsInv
  OBVIOUS
<1> USE ConstantsAssumption
<1>1. TypeInv
  BY TypeInit
<1>2. /\ pc = "skip" /\ cur = 1 /\ level = 0 /\ height = 0
      /\ \A l \in Levels :
           /\ labels[l] = << >> /\ GetNumItems(l) = 0
           /\ child_indicator_bits[l] = {} /\ louds_bits[l] = {}
           /\ node_counts[l] = 0 /\ values[l] = << >>
  BY DEF Init, GetNumItems
<1>3. \A l \in Levels : /\ Cardinality(child_indicator_bits[l]) = 0
                        /\ Cardinality(louds_bits[l]) = 0
  BY <1>2, FS_EmptySet
<1>4. BitsInv /\ SkipInv /\ PathInv
  BY <1>2 DEF BitsInv, SkipInv, PathInv
<1>5. LoudsAligned
  <2>1. \A l \in Levels : ~(l < height)
    BY <1>2 DEF Levels
  <2>2. QED
    BY <1>2, <1>3, <2>1 DEF LoudsAligned
<1>6. ValuesAligned
  <2>1. \A l \in Levels : Pending(l) = 0 /\ Len(values[l]) = 0
    BY <1>2 DEF Pending
  <2>2. QED
    BY <1>2, <1>3, <2>1 DEF ValuesAligned
<1>7. QED
  BY <1>1, <1>4, <1>5, <1>6 DEF LoudsInv

-------------------------------------------------------------------------------
(* SkipCommonPrefix sets a bit that is set already. *)

LEMMA SkipCommonPrefixKeepsBits ==
  ASSUME LoudsInv, SkipCommonPrefix
  PROVE  child_indicator_bits' = child_indicator_bits
<1>1. /\ pc = "skip" /\ level < height
      /\ LabelOf(Key, level) = LastLabel(level)
      /\ child_indicator_bits' =
           [child_indicator_bits EXCEPT ![level] = @ \cup {LastPos(level)}]
  BY DEF SkipCommonPrefix, CanSkip, IsCharCommonPrefix, LastLabel
<1>2. level \in Levels /\ level \in Nat
  BY <1>1, LevelFacts DEF LoudsInv, Levels
<1>3. cur > 1
  <2>1. cur \in Nat /\ cur >= 1
    BY <1>1, KeyFacts DEF LoudsInv
  <2>2. cur # 1
    BY <1>1, <1>2 DEF LoudsInv, SkipInv
  <2>3. QED
    BY <2>1, <2>2
<1>4. PICK m \in Levels : LeavesPathAt(m) /\ level <= m
  BY <1>1, <1>3, LeavesBelow
<1>5. level \in 0 .. m - 1
  <2>1. level # m
    BY <1>1, <1>4 DEF LeavesPathAt
  <2>2. m \in Nat
    BY ConstantsAssumption DEF Levels
  <2>3. QED
    BY <1>2, <1>4, <2>1, <2>2
<1>6. LastPos(level) \in child_indicator_bits[level]
  BY <1>4, <1>5 DEF LeavesPathAt
<1>7. child_indicator_bits \in [Levels -> SUBSET Nat]
  BY DEF LoudsInv, TypeInv, TypeOK
<1>8. QED
  BY <1>1, <1>2, <1>6, <1>7

LEMMA SkipCommonPrefixLouds == LoudsInv /\ SkipCommonPrefix => LoudsInv'
<1> SUFFICES ASSUME LoudsInv, SkipCommonPrefix PROVE LoudsInv'
  OBVIOUS
<1>1. TypeInv'
  BY SkipCommonPrefixType DEF LoudsInv
<1>2. /\ pc = "skip" /\ pc' = "skip" /\ level' = level + 1
      /\ LabelOf(Key, level) = LastLabel(level)
      /\ UNCHANGED <<input, cur, height, labels, louds_bits, node_counts, values>>
      /\ child_indicator_bits' = child_indicator_bits
  BY SkipCommonPrefixKeepsBits
  DEF SkipCommonPrefix, CanSkip, IsCharCommonPrefix, LastLabel
<1>3. BitsInv'
  BY <1>2 DEF LoudsInv, BitsInv, GetNumItems
<1>4. SkipInv'
  <2>1. level \in Nat
    BY DEF LoudsInv, TypeInv, TypeOK
  <2>2. \A q \in 0 .. level : LastLabel(q) = LabelOf(Key, q)
    BY <1>2, <2>1 DEF LoudsInv, SkipInv
  <2>3. cur > 1 => \E m \in Levels : LeavesPathAt(m)
    BY <1>2 DEF LoudsInv, SkipInv
  <2>4. \A m \in Levels : LeavesPathAt(m) => LeavesPathAt(m)'
    BY <1>2 DEF LeavesPathAt, LastLabel, LastPos, GetNumItems, LabelOf, Key
  <2>5. \A q \in 0 .. level' - 1 : (LastLabel(q) = LabelOf(Key, q))'
    BY <1>2, <2>1, <2>2 DEF LastLabel, GetNumItems, LabelOf, Key
  <2>6. cur = 1 => height = 0
    BY <1>2 DEF LoudsInv, SkipInv
  <2>7. QED
    BY <1>2, <2>3, <2>4, <2>5, <2>6 DEF SkipInv
<1>5. PathInv'
  BY <1>2 DEF PathInv
<1>6. LoudsAligned'
  BY <1>2 DEF LoudsInv, LoudsAligned
<1>7. ValuesAligned'
  BY <1>2 DEF LoudsInv, ValuesAligned, ValuesCleared, Pending, GetNumItems
<1>8. QED
  BY <1>1, <1>3, <1>4, <1>5, <1>6, <1>7 DEF LoudsInv

-------------------------------------------------------------------------------
(* InsertFirstByte adds an item to an existing node, or the root. *)

(* The first key starts the root; every other key goes on in the node where
   it leaves the path of its predecessor. *)
LEMMA InsertFirstByteEffect ==
  ASSUME LoudsInv, InsertFirstByte
  PROVE  /\ level \in Levels /\ level \in Nat
         /\ labels' = [labels EXCEPT ![level] = Append(@, LabelOf(Key, level))]
         /\ child_indicator_bits' = child_indicator_bits
         /\ \A q \in 0 .. level - 1 : LastPos(q) \in child_indicator_bits[q]
         /\ \/ /\ level = 0 /\ height = 0 /\ height' = 1
               /\ louds_bits' = [louds_bits EXCEPT ![0] = @ \cup {GetNumItems(0)}]
               /\ node_counts' = [node_counts EXCEPT ![0] = @ + 1]
            \/ /\ level < height
               /\ UNCHANGED <<height, louds_bits, node_counts>>
<1>1. /\ pc = "skip"
      /\ InsertKeyByte(LabelOf(Key, level), level, IsLevelEmpty(level))
  BY DEF InsertFirstByte
<1>2. level \in Levels /\ level \in Nat /\ level <= height
  BY <1>1, LevelFacts DEF LoudsInv, Levels
<1>3. labels' = [labels EXCEPT ![level] = Append(@, LabelOf(Key, level))]
  BY <1>1 DEF InsertKeyByte
<1>4. cur \in Nat /\ cur >= 1
  BY <1>1, KeyFacts DEF LoudsInv
<1>5. CASE cur = 1
  <2>1. height = 0 /\ level = 0
    BY <1>1, <1>2, <1>5 DEF LoudsInv, SkipInv
  <2>2. IsLevelEmpty(level)
    BY <2>1 DEF IsLevelEmpty
  <2>3. /\ child_indicator_bits' = child_indicator_bits
        /\ height' = 1
        /\ louds_bits' = [louds_bits EXCEPT ![0] = @ \cup {GetNumItems(0)}]
        /\ node_counts' = [node_counts EXCEPT ![0] = @ + 1]
    BY <1>1, <2>1, <2>2 DEF InsertKeyByte
  <2>4. QED
    BY <1>2, <1>3, <2>1, <2>3
<1>6. CASE cur > 1
  <2>1. PICK m \in Levels : LeavesPathAt(m) /\ level <= m
    BY <1>1, <1>6, LeavesBelow
  <2>2. m \in Nat /\ height \in Nat
    BY ConstantsAssumption DEF LoudsInv, TypeInv, TypeOK, Levels
  <2>3. level < height
    BY <1>2, <2>1, <2>2 DEF LeavesPathAt
  <2>4. \A q \in 0 .. level - 1 : LastPos(q) \in child_indicator_bits[q]
    BY <1>2, <2>1, <2>2 DEF LeavesPathAt
  <2>5. ~IsLevelEmpty(level)
    BY <1>2, <2>2, <2>3 DEF IsLevelEmpty, LoudsInv, TypeInv, StructInv
  <2>6. UNCHANGED <<height, louds_bits, node_counts>>
    BY <1>1, <1>2, <2>2, <2>3, <2>5 DEF InsertKeyByte
  <2>7. child_indicator_bits' = child_indicator_bits
    <3>1. child_indicator_bits \in [Levels -> SUBSET Nat]
      BY DEF LoudsInv, TypeInv, TypeOK
    <3>2. CASE level = 0
      BY <1>1, <3>2 DEF InsertKeyByte
    <3>3. CASE level > 0
      <4>1. level - 1 \in 0 .. level - 1 /\ level - 1 \in Levels
        BY <1>2, <3>3, ConstantsAssumption DEF Levels
      <4>2. LastPos(level - 1) \in child_indicator_bits[level - 1]
        BY <2>4, <4>1
      <4>3. child_indicator_bits' =
              [child_indicator_bits EXCEPT ![level - 1] = @ \cup {LastPos(level - 1)}]
        BY <1>1, <3>3 DEF InsertKeyByte
      <4>4. QED
        BY <3>1, <4>1, <4>2, <4>3
    <3>4. QED
      BY <1>2, <3>2, <3>3
  <2>8. QED
    BY <1>2, <1>3, <2>3, <2>4, <2>6, <2>7
<1>7. QED
  BY <1>4, <1>5, <1>6

(* The new item is the last of its level; the other levels keep theirs. *)
LEMMA AppendedItem ==
  ASSUME LoudsInv, NEW l \in Levels, NEW c \in Label,
         labels' = [labels EXCEPT ![l] = Append(@, c)]
  PROVE  /\ Len(labels'[l]) = GetNumItems(l) + 1
         /\ labels'[l][Len(labels'[l])] = c
         /\ \A q \in Levels : q # l => labels'[q] = labels[q]
<1>1. labels \in [Levels -> Seq(Label)]
  BY DEF LoudsInv, TypeInv, TypeOK
<1>2. labels'[l] = Append(labels[l], c) /\ labels[l] \in Seq(Label)
  BY <1>1
<1>3. /\ Len(labels'[l]) = Len(labels[l]) + 1
      /\ labels'[l][Len(labels[l]) + 1] = c
      /\ Len(labels[l]) \in Nat
  BY <1>2
<1>4. \A q \in Levels : q # l => labels'[q] = labels[q]
  BY <1>1
<1>5. QED
  BY <1>3, <1>4 DEF GetNumItems

LEMMA InsertFirstByteLouds ==
  ASSUME PrefixFreeInputs, LoudsInv, InsertFirstByte
  PROVE  LoudsInv'
<1>1. TypeInv'
  BY InsertFirstByteType DEF LoudsInv
<1>2. /\ pc = "skip" /\ pc' \in {"store", "rest"}
      /\ level' = level + 1
      /\ UNCHANGED <<input, cur, values>>
  BY DEF InsertFirstByte
<1>3. /\ Key \in Seq(Label) /\ input.skip_prefix \in Nat
      /\ cur \in 1 .. NumKeys /\ NumKeys \in Nat
  BY <1>2, KeyFacts DEF LoudsInv
<1>4. Key' = Key /\ NumKeys' = NumKeys /\ \A q : LabelOf(Key, q)' = LabelOf(Key, q)
  BY <1>2 DEF Key, NumKeys, LabelOf
<1>5. /\ level \in Levels /\ level \in Nat
      /\ labels' = [labels EXCEPT ![level] = Append(@, LabelOf(Key, level))]
      /\ child_indicator_bits' = child_indicator_bits
      /\ \A q \in 0 .. level - 1 : LastPos(q) \in child_indicator_bits[q]
      /\ \/ /\ level = 0 /\ height = 0 /\ height' = 1
            /\ louds_bits' = [louds_bits EXCEPT ![0] = @ \cup {GetNumItems(0)}]
            /\ node_counts' = [node_counts EXCEPT ![0] = @ + 1]
         \/ level < height /\ UNCHANGED <<height, louds_bits, node_counts>>
  BY InsertFirstByteEffect
<1>6. /\ Len(labels'[level]) = GetNumItems(level) + 1
      /\ labels'[level][Len(labels'[level])] = LabelOf(Key, level)
      /\ \A q \in Levels : q # level => labels'[q] = labels[q]
  <2>1. LabelOf(Key, level) \in Label
    BY <1>3, <1>5, LabelOfType
  <2>2. QED
    BY <1>5, <2>1, AppendedItem
<1>7. \A q \in 0 .. level - 1 : q \in Levels /\ q # level
  BY <1>5, ConstantsAssumption DEF Levels
<1>8. BitsInv'
  <2> SUFFICES ASSUME NEW l \in Levels
               PROVE  /\ child_indicator_bits'[l] \subseteq 0 .. Len(labels'[l]) - 1
                      /\ louds_bits'[l] \subseteq 0 .. Len(labels'[l]) - 1
    BY DEF BitsInv, GetNumItems
  <2>1. /\ GetNumItems(l) \in Nat
        /\ child_indicator_bits[l] \subseteq 0 .. GetNumItems(l) - 1
        /\ louds_bits[l] \subseteq 0 .. GetNumItems(l) - 1
    BY LevelCounts
  <2>2. /\ louds_bits'[l] \subseteq louds_bits[l] \cup {GetNumItems(l)}
        /\ l # level => louds_bits'[l] = louds_bits[l]
    BY <1>5 DEF LoudsInv, TypeInv, TypeOK
  <2>3. CASE l = level
    BY <1>5, <1>6, <2>1, <2>2, <2>3
  <2>4. CASE l # level
    BY <1>5, <1>6, <2>1, <2>2, <2>4 DEF GetNumItems
  <2>5. QED
    BY <2>3, <2>4
<1>9. SkipInv'
  BY <1>2 DEF SkipInv
<1>10. PathInv'
  <2>1. \A q \in 0 .. level - 1 : Len(labels'[q]) - 1 \in child_indicator_bits'[q]
    BY <1>5, <1>6, <1>7 DEF LastPos, GetNumItems
  <2>2. Len(labels'[level]) - 1 \notin child_indicator_bits'[level]
    <3>1. GetNumItems(level) \notin child_indicator_bits[level]
          /\ GetNumItems(level) \in Nat
      BY <1>5, LevelCounts
    <3>2. QED
      BY <1>5, <1>6, <3>1
  <2>3. \A q \in 0 .. level : labels'[q][Len(labels'[q])] = LabelOf(Key, q)
    <3>1. \A q \in 0 .. level - 1 : labels[q][Len(labels[q])] = LabelOf(Key, q)
      BY <1>2 DEF LoudsInv, SkipInv, LastLabel, GetNumItems
    <3>2. QED
      BY <1>5, <1>6, <1>7, <3>1
  <2>4. nxt' <= NumKeys => Diverge(Key, KeyAt(nxt'), input.skip_prefix)
    <3> SUFFICES ASSUME nxt' <= NumKeys
                 PROVE  Diverge(Key, KeyAt(nxt'), input.skip_prefix)
      OBVIOUS
    <3>1. nxt' \in 1 .. NumKeys /\ ~SameKey(Key, input.keys[nxt'])
      BY <1>3 DEF InsertFirstByte
    <3>2. Key # input.keys[nxt']
      BY <3>1 DEF SameKey
    <3>3. Diverge(Key, input.keys[nxt'], input.skip_prefix)
      BY <1>3, <3>1, <3>2 DEF PrefixFreeInputs, Key, NumKeys, LoudsInv, TypeInv, StructInv
    <3>4. QED
      BY <3>1, <3>3 DEF KeyAt
  <2>5. pc' = "store" => UniqueBefore(level + 1, KeyAt(nxt'))
    BY DEF InsertFirstByte
  <2>6. KeyAt(nxt)' = KeyAt(nxt')
    BY <1>2, <1>4 DEF KeyAt
  <2>7. Diverge(Key, KeyAt(nxt), input.skip_prefix)'
          <=> Diverge(Key, KeyAt(nxt'), input.skip_prefix)
    BY <1>2, <1>4, <2>6 DEF Diverge
  <2>8. UniqueBefore(level, KeyAt(nxt))' <=> UniqueBefore(level + 1, KeyAt(nxt'))
    BY <1>2, <1>4, <2>6 DEF UniqueBefore, LabelOf
  <2>9. level' - 2 = level - 1 /\ level' - 1 = level
    BY <1>2, <1>5
  <2>10. QED
    BY <1>4, <2>1, <2>2, <2>3, <2>4, <2>5, <2>7, <2>8, <2>9
    DEF PathInv, LastPos, LastLabel, GetNumItems
<1>11. LoudsAligned'
  <2> SUFFICES ASSUME NEW l \in Levels
               PROVE  /\ node_counts'[l] = Cardinality(louds_bits'[l])
                      /\ l + 1 >= height' => child_indicator_bits'[l] = {}
                      /\ l < height' =>
                           node_counts'[l] =
                             IF l = 0 THEN 1
                             ELSE Cardinality(child_indicator_bits'[l - 1])
    BY DEF LoudsAligned
  <2>1. /\ node_counts[l] = Cardinality(louds_bits[l])
        /\ l + 1 >= height => child_indicator_bits[l] = {}
        /\ l < height => node_counts[l] = IF l = 0 THEN 1
                                          ELSE Cardinality(child_indicator_bits[l - 1])
    BY DEF LoudsInv, LoudsAligned
  <2>2. CASE level < height /\ UNCHANGED <<height, louds_bits, node_counts>>
    BY <1>5, <2>1, <2>2
  <2>3. CASE /\ level = 0 /\ height = 0 /\ height' = 1
             /\ louds_bits' = [louds_bits EXCEPT ![0] = @ \cup {GetNumItems(0)}]
             /\ node_counts' = [node_counts EXCEPT ![0] = @ + 1]
    <3>1. /\ l \in Nat /\ node_counts[l] = 0
          /\ child_indicator_bits[l] = {} /\ louds_bits[l] = {}
      BY <2>3, LevelCounts
    <3>2. louds_bits \in [Levels -> SUBSET Nat] /\ node_counts \in [Levels -> Nat]
      BY DEF LoudsInv, TypeInv, TypeOK
    <3>3. CASE l = 0
      <4>1. node_counts'[l] = 1 /\ louds_bits'[l] = {GetNumItems(0)}
        BY <2>3, <3>1, <3>2, <3>3
      <4>2. Cardinality(louds_bits'[l]) = 1
        BY <4>1, FS_Singleton
      <4>3. QED
        BY <1>5, <3>1, <3>3, <4>1, <4>2
    <3>4. CASE l # 0
      <4>1. node_counts'[l] = node_counts[l] /\ louds_bits'[l] = louds_bits[l]
        BY <2>3, <3>2, <3>4
      <4>2. ~(l < height')
        BY <2>3, <3>1, <3>4
      <4>3. QED
        BY <1>5, <2>1, <3>1, <4>1, <4>2
    <3>5. QED
      BY <3>3, <3>4
  <2>4. QED
    BY <1>5, <2>2, <2>3
<1>12. ValuesAligned'
  <2> SUFFICES ASSUME NEW l \in Levels
               PROVE  Len(values'[l]) + Cardinality(child_indicator_bits'[l])
                        + Pending(l)' = Len(labels'[l])
    BY DEF ValuesAligned, GetNumItems
  <2>1. /\ GetNumItems(l) \in Nat /\ Len(values[l]) \in Nat
        /\ Cardinality(child_indicator_bits[l]) \in Nat
    BY LevelCounts
  <2>2. Len(values[l]) + Cardinality(child_indicator_bits[l]) + Pending(l)
          = GetNumItems(l)
    BY <1>2 DEF LoudsInv, ValuesAligned, ValuesCleared
  <2>3. Pending(l) = 0
    BY <1>2 DEF Pending
  <2>4. Pending(l)' = IF l = level THEN 1 ELSE 0
    BY <1>2, <1>5 DEF Pending
  <2>5. Len(labels'[l]) = GetNumItems(l) + (IF l = level THEN 1 ELSE 0)
    <3>1. CASE l = level
      BY <1>6, <3>1
    <3>2. CASE l # level
      BY <1>6, <2>1, <3>2 DEF GetNumItems
    <3>3. QED
      BY <3>1, <3>2
  <2>6. QED
    BY <1>2, <1>5, <2>1, <2>2, <2>3, <2>4, <2>5
<1>13. QED
  BY <1>1, <1>8, <1>9, <1>10, <1>11, <1>12 DEF LoudsInv

-------------------------------------------------------------------------------
(* InsertNextByte turns the leaf of the key into an inner item and starts its
   node on the level below. *)

LEMMA InsertNextByteEffect ==
  ASSUME LoudsInv, InsertNextByte
  PROVE  /\ pc = "rest" /\ pc' = "rest" /\ level' = level + 1
         /\ level \in Levels /\ level - 1 \in Levels /\ level \in Nat /\ level >= 1
         /\ level <= height
         /\ height' = IF level = height THEN height + 1 ELSE height
         /\ UNCHANGED <<input, cur, nxt, values>>
         /\ labels' = [labels EXCEPT ![level] = Append(@, LabelOf(Key, level))]
         /\ child_indicator_bits' =
              [child_indicator_bits EXCEPT ![level - 1] = @ \cup {LastPos(level - 1)}]
         /\ louds_bits' = [louds_bits EXCEPT ![level] = @ \cup {GetNumItems(level)}]
         /\ node_counts' = [node_counts EXCEPT ![level] = @ + 1]
<1>1. /\ pc = "rest" /\ pc' = "rest" /\ level' = level + 1 /\ SharesLastByte
      /\ UNCHANGED <<input, cur, nxt, values>>
      /\ InsertKeyByte(LabelOf(Key, level), level, TRUE)
  BY DEF InsertNextByte
<1>2. /\ level \in 1 .. MaxLevel /\ level - 1 \in Levels /\ level <= height
      /\ height \in Nat
  BY <1>1, LevelFacts DEF LoudsInv, TypeInv, TypeOK
<1>3. level \in Levels /\ level \in Nat /\ level >= 1 /\ level > 0
  BY <1>2, ConstantsAssumption DEF Levels
<1>4. height' = IF level >= height THEN height + 1 ELSE height
  BY <1>1 DEF InsertKeyByte
<1>5. height' = IF level = height THEN height + 1 ELSE height
  BY <1>2, <1>3, <1>4
<1>6. /\ labels' = [labels EXCEPT ![level] = Append(@, LabelOf(Key, level))]
      /\ child_indicator_bits' =
           [child_indicator_bits EXCEPT ![level - 1] = @ \cup {LastPos(level - 1)}]
      /\ louds_bits' = [louds_bits EXCEPT ![level] = @ \cup {GetNumItems(level)}]
      /\ node_counts' = [node_counts EXCEPT ![level] = @ + 1]
  BY <1>1, <1>3 DEF InsertKeyByte
<1>7. QED
  BY <1>1, <1>2, <1>3, <1>5, <1>6

LEMMA InsertNextByteLouds ==
  ASSUME LoudsInv, InsertNextByte
  PROVE  LoudsInv'
<1>1. TypeInv'
  BY InsertNextByteType DEF LoudsInv
<1>2. /\ pc = "rest" /\ pc' = "rest" /\ level' = level + 1
      /\ level \in Levels /\ level - 1 \in Levels /\ level \in Nat /\ level >= 1
      /\ level <= height
      /\ height' = IF level = height THEN height + 1 ELSE height
      /\ UNCHANGED <<input, cur, nxt, values>>
      /\ labels' = [labels EXCEPT ![level] = Append(@, LabelOf(Key, level))]
      /\ child_indicator_bits' =
           [child_indicator_bits EXCEPT ![level - 1] = @ \cup {LastPos(level - 1)}]
      /\ louds_bits' = [louds_bits EXCEPT ![level] = @ \cup {GetNumItems(level)}]
      /\ node_counts' = [node_counts EXCEPT ![level] = @ + 1]
  BY InsertNextByteEffect
<1>3. Key \in Seq(Label) /\ input.skip_prefix \in Nat
  BY <1>2, KeyFacts DEF LoudsInv
<1>4. /\ Key' = Key /\ NumKeys' = NumKeys /\ \A q : LabelOf(Key, q)' = LabelOf(Key, q)
      /\ KeyAt(nxt)' = KeyAt(nxt)
  BY <1>2 DEF Key, NumKeys, LabelOf, KeyAt
<1>5. /\ Len(labels'[level]) = GetNumItems(level) + 1
      /\ labels'[level][Len(labels'[level])] = LabelOf(Key, level)
      /\ \A q \in Levels : q # level => labels'[q] = labels[q]
  <2>1. LabelOf(Key, level) \in Label
    BY <1>2, <1>3, LabelOfType
  <2>2. QED
    BY <1>2, <2>1, AppendedItem
<1>6. /\ child_indicator_bits \in [Levels -> SUBSET Nat]
      /\ louds_bits \in [Levels -> SUBSET Nat]
      /\ node_counts \in [Levels -> Nat] /\ height \in Nat
  BY DEF LoudsInv, TypeInv, TypeOK
<1>7. /\ child_indicator_bits'[level - 1] =
           child_indicator_bits[level - 1] \cup {LastPos(level - 1)}
      /\ \A q \in Levels : q # level - 1 =>
           child_indicator_bits'[q] = child_indicator_bits[q]
      /\ louds_bits'[level] = louds_bits[level] \cup {GetNumItems(level)}
      /\ \A q \in Levels : q # level => louds_bits'[q] = louds_bits[q]
      /\ node_counts'[level] = node_counts[level] + 1
      /\ \A q \in Levels : q # level => node_counts'[q] = node_counts[q]
  BY <1>2, <1>6
<1>8. LastPos(level - 1) \notin child_indicator_bits[level - 1]
  BY <1>2 DEF LoudsInv, PathInv
<1>9. /\ GetNumItems(level) \in Nat
      /\ GetNumItems(level) \notin child_indicator_bits[level]
      /\ GetNumItems(level) \notin louds_bits[level]
  BY <1>2, LevelCounts
<1>10. /\ LastPos(level - 1) \in Nat
       /\ GetNumItems(level - 1) = LastPos(level - 1) + 1
  <2>1. level - 1 < height
    BY <1>2, <1>6
  <2>2. QED
    BY <1>2, <2>1, LastPosType DEF LoudsInv
<1>11. /\ Cardinality(child_indicator_bits'[level - 1])
            = Cardinality(child_indicator_bits[level - 1]) + 1
       /\ Cardinality(louds_bits'[level]) = Cardinality(louds_bits[level]) + 1
  <2>1. /\ child_indicator_bits[level - 1] \in SUBSET (0 .. GetNumItems(level - 1) - 1)
        /\ GetNumItems(level - 1) \in Nat
    BY <1>2, LevelCounts
  <2>2. louds_bits[level] \in SUBSET (0 .. GetNumItems(level) - 1)
    BY <1>2, LevelCounts
  <2>3. Cardinality(child_indicator_bits[level - 1] \cup {LastPos(level - 1)})
          = Cardinality(child_indicator_bits[level - 1]) + 1
    BY <1>8, <2>1, CountBits
  <2>4. Cardinality(louds_bits[level] \cup {GetNumItems(level)})
          = Cardinality(louds_bits[level]) + 1
    BY <1>9, <2>2, CountBits
  <2>5. QED
    BY <1>7, <2>3, <2>4
<1>12. BitsInv'
  <2> SUFFICES ASSUME NEW l \in Levels
               PROVE  /\ child_indicator_bits'[l] \subseteq 0 .. Len(labels'[l]) - 1
                      /\ louds_bits'[l] \subseteq 0 .. Len(labels'[l]) - 1
    BY DEF BitsInv, GetNumItems
  <2>1. /\ GetNumItems(l) \in Nat /\ GetNumItems(l) = Len(labels[l])
        /\ child_indicator_bits[l] \subseteq 0 .. GetNumItems(l) - 1
        /\ louds_bits[l] \subseteq 0 .. GetNumItems(l) - 1
    BY LevelCounts
  <2>2. CASE l = level
    BY <1>2, <1>5, <1>7, <2>1, <2>2
  <2>3. CASE l = level - 1
    BY <1>2, <1>5, <1>7, <1>10, <2>1, <2>3
  <2>4. CASE l # level /\ l # level - 1
    BY <1>5, <1>7, <2>1, <2>4
  <2>5. QED
    BY <2>2, <2>3, <2>4
<1>13. SkipInv'
  BY <1>2 DEF SkipInv
<1>14. PathInv'
  <2>1. \A q \in 0 .. level - 1 : q \in Levels /\ q # level
    BY <1>2, ConstantsAssumption DEF Levels
  <2>2. \A q \in 0 .. level - 1 : Len(labels'[q]) - 1 \in child_indicator_bits'[q]
    <3> TAKE q \in 0 .. level - 1
    <3>1. labels'[q] = labels[q] /\ q \in Levels
      BY <1>5, <2>1
    <3>2. CASE q = level - 1
      BY <1>7, <3>1, <3>2 DEF LastPos, GetNumItems
    <3>3. CASE q # level - 1
      <4>1. q \in 0 .. level - 2
        BY <1>2, <3>3
      <4>2. LastPos(q) \in child_indicator_bits[q]
        BY <1>2, <4>1 DEF LoudsInv, PathInv
      <4>3. QED
        BY <1>7, <3>1, <3>3, <4>2 DEF LastPos, GetNumItems
    <3>4. QED
      BY <3>2, <3>3
  <2>3. Len(labels'[level]) - 1 \notin child_indicator_bits'[level]
    <3>1. child_indicator_bits'[level] = child_indicator_bits[level]
      BY <1>2, <1>7
    <3>2. QED
      BY <1>5, <1>9, <3>1
  <2>4. \A q \in 0 .. level : labels'[q][Len(labels'[q])] = LabelOf(Key, q)
    <3>1. \A q \in 0 .. level - 1 : labels[q][Len(labels[q])] = LabelOf(Key, q)
      BY <1>2 DEF LoudsInv, PathInv, LastLabel, GetNumItems
    <3>2. QED
      BY <1>2, <1>5, <2>1, <3>1
  <2>5. nxt <= NumKeys => Diverge(Key, KeyAt(nxt), input.skip_prefix)
    BY <1>2 DEF LoudsInv, PathInv
  <2>6. Diverge(Key, KeyAt(nxt), input.skip_prefix)'
          <=> Diverge(Key, KeyAt(nxt), input.skip_prefix)
    BY <1>2, <1>4 DEF Diverge
  <2>7. level' - 2 = level - 1 /\ level' - 1 = level
    BY <1>2
  <2>8. QED
    BY <1>2, <1>4, <2>2, <2>3, <2>4, <2>5, <2>6, <2>7
    DEF PathInv, LastPos, LastLabel, GetNumItems
<1>15. LoudsAligned'
  <2> SUFFICES ASSUME NEW l \in Levels
               PROVE  /\ node_counts'[l] = Cardinality(louds_bits'[l])
                      /\ l + 1 >= height' => child_indicator_bits'[l] = {}
                      /\ l < height' =>
                           node_counts'[l] =
                             IF l = 0 THEN 1
                             ELSE Cardinality(child_indicator_bits'[l - 1])
    BY DEF LoudsAligned
  <2>1. /\ node_counts[l] = Cardinality(louds_bits[l])
        /\ l + 1 >= height => child_indicator_bits[l] = {}
        /\ l < height => node_counts[l] = IF l = 0 THEN 1
                                          ELSE Cardinality(child_indicator_bits[l - 1])
    BY DEF LoudsInv, LoudsAligned
  <2>2. l \in Nat
    BY ConstantsAssumption DEF Levels
  <2>3. node_counts'[l] = Cardinality(louds_bits'[l])
    BY <1>2, <1>7, <1>11, <2>1
  <2>4. l + 1 >= height' => child_indicator_bits'[l] = {}
    <3>1. l + 1 >= height' => l + 1 >= height /\ l # level - 1
      BY <1>2, <1>6, <2>2
    <3>2. QED
      BY <1>7, <2>1, <3>1
  <2>5. ASSUME l < height'
        PROVE  node_counts'[l] = IF l = 0 THEN 1
                                 ELSE Cardinality(child_indicator_bits'[l - 1])
    <3>1. CASE l = level
      <4>1. node_counts[l] = Cardinality(child_indicator_bits[l - 1])
        <5>1. CASE level < height
          BY <1>2, <2>1, <3>1, <5>1
        <5>2. CASE level = height
          <6>1. node_counts[l] = 0
            BY <1>6, <3>1, <5>2, LevelCounts
          <6>2. child_indicator_bits[l - 1] = {}
            BY <1>2, <1>6, <3>1, <5>2 DEF LoudsInv, LoudsAligned
          <6>3. QED
            BY <6>1, <6>2, FS_EmptySet
        <5>3. QED
          BY <1>2, <1>6, <5>1, <5>2
      <4>2. QED
        BY <1>2, <1>7, <1>11, <3>1, <4>1
    <3>2. CASE l # level
      <4>1. l < height /\ node_counts'[l] = node_counts[l]
        BY <1>2, <1>6, <1>7, <2>2, <2>5, <3>2
      <4>2. CASE l = 0
        BY <2>1, <4>1, <4>2
      <4>3. CASE l # 0
        <5>1. l - 1 \in Levels /\ l - 1 # level - 1
          BY <1>2, <2>2, <3>2, <4>3, ConstantsAssumption DEF Levels
        <5>2. QED
          BY <1>7, <2>1, <4>1, <4>3, <5>1
      <4>4. QED
        BY <4>2, <4>3
    <3>3. QED
      BY <3>1, <3>2
  <2>6. QED
    BY <2>3, <2>4, <2>5
<1>16. ValuesAligned'
  <2> SUFFICES ASSUME NEW l \in Levels
               PROVE  Len(values'[l]) + Cardinality(child_indicator_bits'[l])
                        + Pending(l)' = Len(labels'[l])
    BY DEF ValuesAligned, GetNumItems
  <2>1. /\ GetNumItems(l) \in Nat /\ Len(values[l]) \in Nat
        /\ Cardinality(child_indicator_bits[l]) \in Nat
        /\ GetNumItems(l) = Len(labels[l])
    BY LevelCounts
  <2>2. Len(values[l]) + Cardinality(child_indicator_bits[l]) + Pending(l)
          = GetNumItems(l)
    BY <1>2 DEF LoudsInv, ValuesAligned, ValuesCleared
  <2>3. Pending(l) = IF l = level - 1 THEN 1 ELSE 0
    BY <1>2 DEF Pending
  <2>4. Pending(l)' = IF l = level THEN 1 ELSE 0
    BY <1>2 DEF Pending
  <2>5. CASE l = level
    <3>1. l # level - 1 /\ child_indicator_bits'[l] = child_indicator_bits[l]
      BY <1>2, <1>7, <2>5
    <3>2. Pending(l) = 0 /\ Pending(l)' = 1
      BY <2>3, <2>4, <2>5, <3>1
    <3>3. values'[l] = values[l] /\ Len(labels'[l]) = GetNumItems(l) + 1
      BY <1>2, <1>5, <2>5
    <3>4. QED
      BY <2>1, <2>2, <3>1, <3>2, <3>3
  <2>6. CASE l = level - 1
    <3>1. l # level /\ labels'[l] = labels[l]
      BY <1>2, <1>5, <2>6
    <3>2. Pending(l) = 1 /\ Pending(l)' = 0
      BY <2>3, <2>4, <2>6, <3>1
    <3>3. /\ values'[l] = values[l]
          /\ Cardinality(child_indicator_bits'[l])
               = Cardinality(child_indicator_bits[l]) + 1
      BY <1>2, <1>11, <2>6
    <3>4. QED
      BY <2>1, <2>2, <3>1, <3>2, <3>3
  <2>7. CASE l # level /\ l # level - 1
    BY <1>2, <1>5, <1>7, <2>1, <2>2, <2>3, <2>4, <2>7
  <2>8. QED
    BY <2>5, <2>6, <2>7
<1>17. QED
  BY <1>1, <1>12, <1>13, <1>14, <1>15, <1>16 DEF LoudsInv

-------------------------------------------------------------------------------
(* StoreValue gives the leaf its value. *)

(* The next key differs from this one at or above the leaf, or the loop of
   InsertNextByte would not have ended. *)
LEMMA DiffersAtLeaf ==
  ASSUME LoudsInv, StoreValue, nxt <= NumKeys
  PROVE  \E m \in 0 .. level - 1 : LabelOf(Key, m) # LabelOf(KeyAt(nxt), m)
<1>1. /\ pc \in {"store", "rest"}
      /\ pc = "rest" => ~SharesLastByte
  BY DEF StoreValue
<1>2. /\ level \in Nat /\ level >= 1
      /\ Len(Key) \in Nat /\ input.skip_prefix \in Nat /\ NumKeys \in Nat
  <2>1. level \in Nat /\ level >= 1
    BY <1>1, LevelFacts DEF LoudsInv, TypeInv, TypeOK
  <2>2. Len(Key) \in Nat /\ input.skip_prefix \in Nat /\ NumKeys \in Nat
    BY <1>1, KeyFacts DEF LoudsInv
  <2>3. QED
    BY <2>1, <2>2
<1>3. KeyAt(nxt) = input.keys[nxt] /\ Len(KeyAt(nxt)) \in Nat
  BY <1>2, InputFacts DEF KeyAt, LoudsInv, TypeInv, TypeOK, StructInv
<1>4. PICK d \in Levels : /\ d + input.skip_prefix < Len(Key)
                          /\ d + input.skip_prefix < Len(KeyAt(nxt))
                          /\ LabelOf(Key, d) # LabelOf(KeyAt(nxt), d)
  BY <1>1 DEF LoudsInv, PathInv, Diverge, LabelOf
<1>5. d \in Nat
  BY ConstantsAssumption DEF Levels
<1>6. CASE pc = "store"
  <2>1. UniqueBefore(level, KeyAt(nxt))
    BY <1>6 DEF LoudsInv, PathInv
  <2>2. CASE level + input.skip_prefix > Len(KeyAt(nxt))
    BY <1>2, <1>3, <1>4, <1>5, <2>2
  <2>3. CASE \E q \in 0 .. level - 1 : LabelOf(Key, q) # LabelOf(KeyAt(nxt), q)
    BY <2>3
  <2>4. QED
    BY <2>1, <2>2, <2>3 DEF UniqueBefore
<1>7. CASE pc = "rest"
  <2>1. CASE level + input.skip_prefix >= Len(Key)
    BY <1>2, <1>4, <1>5, <2>1
  <2>2. CASE level + input.skip_prefix >= Len(KeyAt(nxt))
    BY <1>2, <1>3, <1>4, <1>5, <2>2
  <2>3. CASE LabelOf(Key, level - 1) # LabelOf(KeyAt(nxt), level - 1)
    BY <1>2, <2>3
  <2>4. QED
    BY <1>1, <1>2, <1>3, <1>7, <2>1, <2>2, <2>3 DEF SharesLastByte
<1>8. QED
  BY <1>1, <1>6, <1>7

LEMMA StoreValueLouds ==
  ASSUME LoudsInv, StoreValue
  PROVE  LoudsInv'
<1>1. TypeInv'
  BY StoreValueType DEF LoudsInv
<1>2. /\ pc \in {"store", "rest"}
      /\ pc = "rest" => ~SharesLastByte
      /\ values' = [values EXCEPT ![level - 1] = Append(@, cur)]
      /\ cur' = nxt /\ level' = 0
      /\ pc' \in {"skip", "cutoff", "done"}
      /\ pc' = "skip" => nxt <= NumKeys
      /\ pc' = "done" => ~input.include_dense
      /\ UNCHANGED <<input, height, labels, child_indicator_bits, louds_bits,
                     node_counts>>
  BY DEF StoreValue, sparseVars
<1>3. /\ level \in Nat /\ level - 1 \in Levels /\ level >= 1 /\ level <= height
      /\ height \in Nat
  BY <1>2, LevelFacts DEF LoudsInv, TypeInv, TypeOK
<1>4. /\ Len(Key) \in Nat /\ input.skip_prefix \in Nat
      /\ cur \in 1 .. NumKeys /\ NumKeys \in Nat
  BY <1>2, KeyFacts DEF LoudsInv
<1>5. BitsInv'
  BY <1>2 DEF LoudsInv, BitsInv, GetNumItems
<1>6. SkipInv'
  <2> SUFFICES ASSUME pc' = "skip"
               PROVE  cur' > 1 /\ \E m \in Levels : LeavesPathAt(m)'
    BY <1>2 DEF SkipInv
  <2>1. nxt > cur /\ nxt \in 1 .. NumKeys
    BY <1>2, <1>4 DEF LoudsInv, TypeInv, TypeOK, StructInv
  <2>2. cur' > 1
    BY <1>2, <1>4, <2>1
  <2>3. /\ KeyAt(nxt) = input.keys[nxt] /\ Key' = input.keys[nxt]
        /\ Len(KeyAt(nxt)) \in Nat
    BY <1>2, <2>1, InputFacts DEF KeyAt, Key, LoudsInv, TypeInv, StructInv
  <2>4. PICK m \in 0 .. level - 1 : LabelOf(Key, m) # LabelOf(KeyAt(nxt), m)
    BY <1>2, DiffersAtLeaf
  <2>5. m \in Levels
    BY <1>3, ConstantsAssumption DEF Levels
  <2>6. m < height
    BY <1>3, <2>4
  <2>7. labels[m][Len(labels[m])] # LabelOf(KeyAt(nxt), m)
    BY <1>2, <2>4 DEF LoudsInv, PathInv, LastLabel, GetNumItems
  <2>8. \A q \in 0 .. m - 1 : LastPos(q) \in child_indicator_bits[q]
    <3>1. \A q \in 0 .. m - 1 : q \in 0 .. level - 2
      BY <1>3, <2>4
    <3>2. QED
      BY <1>2, <3>1 DEF LoudsInv, PathInv
  <2>9. LeavesPathAt(m)'
    BY <1>2, <2>3, <2>6, <2>7, <2>8
    DEF LeavesPathAt, LastLabel, LastPos, GetNumItems, LabelOf
  <2>10. QED
    BY <2>2, <2>5, <2>9
<1>7. PathInv'
  BY <1>2 DEF PathInv
<1>8. LoudsAligned'
  BY <1>2 DEF LoudsInv, LoudsAligned
<1>9. ValuesAligned'
  <2> SUFFICES ASSUME NEW l \in Levels
               PROVE  Len(values'[l]) + Cardinality(child_indicator_bits[l])
                        + Pending(l)' = GetNumItems(l)
    BY <1>2 DEF ValuesAligned, GetNumItems
  <2>1. /\ GetNumItems(l) \in Nat /\ Len(values[l]) \in Nat
        /\ Cardinality(child_indicator_bits[l]) \in Nat
    BY LevelCounts
  <2>2. Len(values[l]) + Cardinality(child_indicator_bits[l]) + Pending(l)
          = GetNumItems(l)
    BY <1>2 DEF LoudsInv, ValuesAligned, ValuesCleared
  <2>3. Pending(l) = (IF l = level - 1 THEN 1 ELSE 0) /\ Pending(l)' = 0
    BY <1>2 DEF Pending
  <2>4. values \in [Levels -> Seq(Nat)]
    BY DEF LoudsInv, TypeInv, TypeOK
  <2>5. CASE l = level - 1
    <3>1. values'[l] = Append(values[l], cur) /\ values[l] \in Seq(Nat)
      BY <1>2, <2>4, <2>5
    <3>2. Len(values'[l]) = Len(values[l]) + 1
      BY <3>1
    <3>3. QED
      BY <2>1, <2>2, <2>3, <2>5, <3>2
  <2>6. CASE l # level - 1
    <3>1. values'[l] = values[l]
      BY <1>2, <2>4, <2>6
    <3>2. QED
      BY <2>1, <2>2, <2>3, <2>6, <3>1
  <2>7. QED
    BY <2>5, <2>6
<1>10. QED
  BY <1>1, <1>5, <1>6, <1>7, <1>8, <1>9 DEF LoudsInv

-------------------------------------------------------------------------------
(* The steps after the scan leave the vectors alone. *)

LEMMA AfterScanLouds ==
  ASSUME LoudsInv,
         DetermineCutoffLevel \/ CollectValues \/ BuildDenseLevel \/ FinishBuild
  PROVE  LoudsInv'
<1>1. TypeInv'
  BY DetermineCutoffLevelType, CollectValuesType, BuildDenseLevelType, FinishBuildType
  DEF LoudsInv
<1>2. /\ pc \in {"cutoff", "collect", "dense"}
      /\ pc' \in {"collect", "dense", "done"}
      /\ \/ pc \in {"cutoff", "collect"} /\ pc' = "collect" /\ values' = values
         \/ pc' \in {"dense", "done"}
      /\ UNCHANGED <<input, height, labels, child_indicator_bits, louds_bits,
                     node_counts>>
  BY DEF DetermineCutoffLevel, CollectValues, BuildDenseLevel, FinishBuild, sparseVars
<1>3. BitsInv'
  BY <1>2 DEF LoudsInv, BitsInv, GetNumItems
<1>4. SkipInv' /\ PathInv'
  BY <1>2 DEF SkipInv, PathInv
<1>5. LoudsAligned'
  BY <1>2 DEF LoudsInv, LoudsAligned
<1>6. input.include_dense
  BY <1>2 DEF LoudsInv, TypeInv, StructInv
<1>7. ValuesAligned'
  BY <1>2, <1>6
  DEF LoudsInv, ValuesAligned, ValuesCleared, Pending, GetNumItems
<1>8. QED
  BY <1>1, <1>3, <1>4, <1>5, <1>7 DEF LoudsInv

LEMMA LoudsStep == PrefixFreeInputs /\ LoudsInv /\ [Next]_vars => LoudsInv'
<1> SUFFICES ASSUME PrefixFreeInputs, LoudsInv, [Next]_vars PROVE LoudsInv'
  OBVIOUS
<1>1. CASE SkipCommonPrefix
  BY <1>1, SkipCommonPrefixLouds
<1>2. CASE InsertFirstByte
  BY <1>2, InsertFirstByteLouds
<1>3. CASE InsertNextByte
  BY <1>3, InsertNextByteLouds
<1>4. CASE StoreValue
  BY <1>4, StoreValueLouds
<1>5. CASE DetermineCutoffLevel \/ CollectValues \/ BuildDenseLevel \/ FinishBuild
  BY <1>5, AfterScanLouds
<1>6. CASE UNCHANGED vars
  <2>1. TypeInv'
    BY <1>6, FinishBuildType DEF LoudsInv
  <2>2. UNCHANGED <<input, pc, cur, nxt, level, height, labels,
                    child_indicator_bits, louds_bits, node_counts, values>>
    BY <1>6 DEF vars, sparseVars
  <2>3. BitsInv' /\ LoudsAligned'
    BY <2>2 DEF LoudsInv, BitsInv, LoudsAligned, GetNumItems
  <2>4. SkipInv'
    BY <2>2
    DEF LoudsInv, SkipInv, LeavesPathAt, LastLabel, LastPos, GetNumItems, LabelOf, Key
  <2>5. PathInv'
    BY <2>2
    DEF LoudsInv, PathInv, LastLabel, LastPos, GetNumItems, LabelOf, Key, KeyAt,
        NumKeys, Diverge, UniqueBefore
  <2>6. ValuesAligned'
    BY <2>2 DEF LoudsInv, ValuesAligned, ValuesCleared, Pending, GetNumItems
  <2>7. QED
    BY <2>1, <2>3, <2>4, <2>5, <2>6 DEF LoudsInv
<1>7. QED
  BY <1>1, <1>2, <1>3, <1>4, <1>5, <1>6 DEF Next, Terminated

-------------------------------------------------------------------------------
(* Results *)

(* In every build from keys of which none is a prefix of another, each level
   has as many nodes as the level above it has children. *)
THEOREM LoudsOrder == ASSUME PrefixFreeInputs PROVE Spec => []LoudsAligned
<1>1. Init => LoudsInv
  BY LoudsInit
<1>2. LoudsInv /\ [Next]_vars => LoudsInv'
  BY LoudsStep
<1>3. LoudsInv => LoudsAligned
  BY DEF LoudsInv
<1>4. QED
  BY <1>1, <1>2, <1>3, PTL DEF Spec

(* In every such build each level has one value per leaf, the key being
   inserted aside. *)
THEOREM OneValuePerLeaf == ASSUME PrefixFreeInputs PROVE Spec => []ValuesAligned
<1>1. Init => LoudsInv
  BY LoudsInit
<1>2. LoudsInv /\ [Next]_vars => LoudsInv'
  BY LoudsStep
<1>3. LoudsInv => ValuesAligned
  BY DEF LoudsInv
<1>4. QED
  BY <1>1, <1>2, <1>3, PTL DEF Spec

(* skipCommonPrefix, which sets child bits too, never sets a new one: the bits
   it passes were set while the previous key was inserted. *)
THEOREM SkipSetsNoNewBit ==
  ASSUME PrefixFreeInputs
  PROVE  Spec => [][SkipCommonPrefix => UNCHANGED child_indicator_bits]_vars
<1>1. Init => LoudsInv
  BY LoudsInit
<1>2. LoudsInv /\ [Next]_vars => LoudsInv'
  BY LoudsStep
<1>3. LoudsInv /\ [Next]_vars =>
        [SkipCommonPrefix => UNCHANGED child_indicator_bits]_vars
  BY SkipCommonPrefixKeepsBits
<1>4. QED
  BY <1>1, <1>2, <1>3, PTL DEF Spec

-------------------------------------------------------------------------------
(* Order: the labels of a node ascend. This is where the order of the keys is needed. *)

(* Key a comes before key b at the first byte in which they differ, and both
   have that byte. *)
Precedes(a, b, skip) ==
  \E m \in Levels :
    /\ m + skip < Len(a) /\ m + skip < Len(b)
    /\ \A q \in 0 .. m - 1 : Byte(a, q + skip + 1) = Byte(b, q + skip + 1)
    /\ Byte(a, m + skip + 1) < Byte(b, m + skip + 1)

(* Every list is sorted, and no key in it is a proper prefix of another. *)
SortedInputs ==
  \A in \in Inputs :
    \A i, j \in 1 .. Len(in.keys) :
      i < j => \/ in.keys[i] = in.keys[j]
               \/ Precedes(in.keys[i], in.keys[j], in.skip_prefix)

(* The key leaves the path of the last items at level m, with a label behind
   the last one of the node there. *)
RisesAt(m) ==
  /\ m < height
  /\ m + input.skip_prefix < Len(Key)
  /\ \A q \in 0 .. m - 1 : LastLabel(q) = LabelOf(Key, q)
  /\ LastLabel(m) < LabelOf(Key, m)

(* Two labels of one level are those of items p and r counted from 1; no node
   starts between them. *)
SameNode(l, p, r) == \A q \in louds_bits[l] : ~(p <= q /\ q < r)

(* The labels of one level ascend in each of its nodes, neighbours or not. *)
Ascending(l) ==
  \A p, r \in 1 .. GetNumItems(l) :
    p < r /\ SameNode(l, p, r) => labels[l][p] < labels[l][r]

SortedInv ==
  /\ LoudsInv
  /\ \A l \in Levels : Ascending(l)
  /\ pc = "skip" /\ cur > 1 => \E m \in Levels : RisesAt(m)
  /\ pc \in {"rest", "store"} /\ nxt <= NumKeys =>
       Precedes(Key, KeyAt(nxt), input.skip_prefix)

-------------------------------------------------------------------------------
(* Lemmas *)

(* Sorted lists are lists of keys that differ where both have a byte. *)
LEMMA SortedKeysDiverge == SortedInputs => PrefixFreeInputs
<1> SUFFICES ASSUME SortedInputs, NEW in \in Inputs,
                    NEW i \in 1 .. Len(in.keys), NEW j \in 1 .. Len(in.keys),
                    in.keys[i] # in.keys[j]
             PROVE  Diverge(in.keys[i], in.keys[j], in.skip_prefix)
  BY DEF PrefixFreeInputs
<1>1. \A a, b \in Seq(Label) : \A s, m \in Nat :
        Byte(a, m + s + 1) < Byte(b, m + s + 1) =>
          Byte(a, m + s + 1) # Byte(b, m + s + 1)
  BY ConstantsAssumption DEF Byte, Label
<1>2. /\ in.keys[i] \in Seq(Label) /\ in.keys[j] \in Seq(Label)
      /\ in.skip_prefix \in Nat /\ \A m \in Levels : m \in Nat
  BY InputsAssumption, ConstantsAssumption DEF InputType, Levels
<1>3. CASE i < j
  <2>1. Precedes(in.keys[i], in.keys[j], in.skip_prefix)
    BY <1>3 DEF SortedInputs
  <2>2. QED
    BY <1>1, <1>2, <2>1 DEF Precedes, Diverge
<1>4. CASE j < i
  <2>1. Precedes(in.keys[j], in.keys[i], in.skip_prefix)
    BY <1>4 DEF SortedInputs
  <2>2. QED
    BY <1>1, <1>2, <2>1 DEF Precedes, Diverge
<1>5. QED
  BY <1>3, <1>4

(* The positions of set bits are numbers. *)
LEMMA BitsAreNat ==
  ASSUME LoudsInv, NEW l \in Levels
  PROVE  \A q \in louds_bits[l] : q \in Nat
BY DEF LoudsInv, TypeInv, TypeOK

(* An item at the end of a level keeps the level ascending if it starts a
   node or comes behind the last label. *)
LEMMA AppendAscending ==
  ASSUME LoudsInv, NEW l \in Levels, NEW c \in Label, Ascending(l),
         labels'[l] = Append(labels[l], c),
         louds_bits[l] \subseteq louds_bits'[l],
         \/ GetNumItems(l) = 0
         \/ GetNumItems(l) \in louds_bits'[l]
         \/ LastLabel(l) < c
  PROVE  Ascending(l)'
<1>1. labels[l] \in Seq(Label) /\ GetNumItems(l) = Len(labels[l]) /\ Len(labels[l]) \in Nat
  BY LevelCounts
<1>2. /\ Len(labels'[l]) = Len(labels[l]) + 1
      /\ labels'[l][Len(labels[l]) + 1] = c
      /\ \A p \in 1 .. Len(labels[l]) : labels'[l][p] = labels[l][p]
  BY <1>1
<1> SUFFICES ASSUME NEW p \in 1 .. Len(labels[l]) + 1, NEW r \in 1 .. Len(labels[l]) + 1,
                    p < r, SameNode(l, p, r)'
             PROVE  labels'[l][p] < labels'[l][r]
  BY <1>1, <1>2 DEF Ascending, SameNode, GetNumItems
<1>3. SameNode(l, p, r)
  BY DEF SameNode
<1>4. /\ p \in 1 .. Len(labels[l]) /\ labels'[l][p] = labels[l][p]
      /\ \A q \in 1 .. Len(labels[l]) : labels[l][q] \in Int
  <2>1. p \in 1 .. Len(labels[l])
    BY <1>1
  <2>2. \A q \in 1 .. Len(labels[l]) : labels[l][q] \in Label
    BY <1>1
  <2>3. Label \subseteq Int
    BY DEF Label
  <2>4. QED
    BY <1>2, <2>1, <2>2, <2>3
<1>5. CASE r # Len(labels[l]) + 1
  <2>1. r \in 1 .. Len(labels[l])
    BY <1>1, <1>5
  <2>2. labels[l][p] < labels[l][r]
    BY <1>1, <1>3, <1>4, <2>1 DEF Ascending
  <2>3. QED
    BY <1>2, <1>4, <2>1, <2>2
<1>6. CASE r = Len(labels[l]) + 1
  <2>1. labels'[l][r] = c /\ c \in Int
    BY <1>2, <1>6 DEF Label
  <2>2. Len(labels[l]) \notin louds_bits'[l]
    BY <1>1, <1>4, <1>6 DEF SameNode
  <2>3. LastLabel(l) < c
    BY <1>1, <1>4, <2>2
  <2>4. p = Len(labels[l]) \/ labels[l][p] < LastLabel(l)
    <3> SUFFICES ASSUME p # Len(labels[l]) PROVE labels[l][p] < LastLabel(l)
      OBVIOUS
    <3>1. Len(labels[l]) \in 1 .. Len(labels[l]) /\ p < Len(labels[l])
      BY <1>1, <1>4
    <3>2. SameNode(l, p, Len(labels[l]))
      BY <1>1, <1>3, <1>6, BitsAreNat DEF SameNode
    <3>3. QED
      BY <1>1, <1>4, <3>1, <3>2 DEF Ascending, LastLabel
  <2>5. LastLabel(l) \in Int
    <3>1. Len(labels[l]) \in 1 .. Len(labels[l])
      BY <1>1, <1>4
    <3>2. QED
      BY <1>1, <1>4, <3>1 DEF LastLabel
  <2>6. QED
    BY <1>1, <1>4, <2>1, <2>3, <2>4, <2>5 DEF LastLabel
<1>7. QED
  BY <1>5, <1>6

-------------------------------------------------------------------------------
(* The steps *)

LEMMA SortedInit == Init => SortedInv
<1> SUFFICES ASSUME Init PROVE SortedInv
  OBVIOUS
<1>1. LoudsInv
  BY LoudsInit
<1>2. pc = "skip" /\ cur = 1 /\ \A l \in Levels : GetNumItems(l) = 0
  BY DEF Init, GetNumItems
<1>3. \A l \in Levels : Ascending(l)
  BY <1>2 DEF Ascending
<1>4. QED
  BY <1>1, <1>2, <1>3 DEF SortedInv

LEMMA SkipCommonPrefixSorted ==
  ASSUME SortedInv, LoudsInv', SkipCommonPrefix
  PROVE  SortedInv'
<1>1. /\ pc = "skip" /\ pc' = "skip"
      /\ UNCHANGED <<input, cur, height, labels, louds_bits>>
  BY DEF SkipCommonPrefix
<1>2. \A l \in Levels : Ascending(l)'
  BY <1>1 DEF SortedInv, Ascending, SameNode, GetNumItems
<1>3. cur > 1 => \E m \in Levels : RisesAt(m)'
  BY <1>1 DEF SortedInv, RisesAt, LastLabel, GetNumItems, LabelOf, Key
<1>4. QED
  BY <1>1, <1>2, <1>3 DEF SortedInv

(* The scan stops where the key rises: above that level it has the labels of
   the last items, so skipCommonPrefix goes on. *)
LEMMA StopsWhereItRises ==
  ASSUME SortedInv, InsertFirstByte, cur > 1
  PROVE  LastLabel(level) < LabelOf(Key, level)
<1>1. pc = "skip" /\ ~CanSkip
  BY DEF InsertFirstByte
<1>2. PICK m \in Levels : RisesAt(m)
  BY <1>1 DEF SortedInv
<1>3. /\ level \in Nat /\ m \in Nat /\ height \in Nat
      /\ \A q \in 0 .. level - 1 : LastLabel(q) = LabelOf(Key, q)
  BY <1>1, ConstantsAssumption
  DEF SortedInv, LoudsInv, TypeInv, TypeOK, SkipInv, Levels
<1>4. Len(Key) \in Nat /\ Key \in Seq(Label) /\ input.skip_prefix \in Nat
  BY <1>1, KeyFacts DEF SortedInv, LoudsInv
<1>5. ~(m < level)
  <2>1. ~(LastLabel(m) = LabelOf(Key, m))
    <3>1. LabelOf(Key, m) \in Label
      BY <1>3, <1>4, LabelOfType
    <3>2. QED
      BY <1>2, <3>1, ConstantsAssumption DEF RisesAt, Label
  <2>2. QED
    BY <1>3, <2>1
<1>6. ~(level < m)
  <2> SUFFICES ASSUME level < m PROVE CanSkip
    BY <1>1
  <2>1. level + input.skip_prefix < Len(Key) /\ level < height
    BY <1>2, <1>3, <1>4 DEF RisesAt
  <2>2. LastLabel(level) = LabelOf(Key, level)
    BY <1>2, <1>3 DEF RisesAt
  <2>3. QED
    BY <2>1, <2>2 DEF CanSkip, IsCharCommonPrefix, LastLabel
<1>7. level = m
  BY <1>3, <1>5, <1>6
<1>8. QED
  BY <1>2, <1>7 DEF RisesAt

LEMMA InsertFirstByteSorted ==
  ASSUME SortedInputs, SortedInv, LoudsInv', InsertFirstByte
  PROVE  SortedInv'
<1>1. /\ LoudsInv /\ pc = "skip" /\ pc' \in {"store", "rest"}
      /\ UNCHANGED <<input, cur>>
  BY DEF SortedInv, InsertFirstByte
<1>2. /\ Key \in Seq(Label) /\ cur \in 1 .. NumKeys /\ NumKeys \in Nat
      /\ input.skip_prefix \in Nat
  BY <1>1, KeyFacts DEF LoudsInv
<1>3. /\ level \in Levels /\ level \in Nat
      /\ labels' = [labels EXCEPT ![level] = Append(@, LabelOf(Key, level))]
      /\ \/ /\ level = 0 /\ height = 0
            /\ louds_bits' = [louds_bits EXCEPT ![0] = @ \cup {GetNumItems(0)}]
         \/ UNCHANGED louds_bits
  BY <1>1, InsertFirstByteEffect
<1>4. LabelOf(Key, level) \in Label
  BY <1>2, <1>3, LabelOfType
<1>5. /\ labels \in [Levels -> Seq(Label)] /\ louds_bits \in [Levels -> SUBSET Nat]
      /\ \A l \in Levels : Ascending(l)
  BY DEF SortedInv, LoudsInv, TypeInv, TypeOK
<1>6. ASSUME NEW l \in Levels PROVE Ascending(l)'
  <2>1. louds_bits[l] \subseteq louds_bits'[l]
    BY <1>3, <1>5
  <2>2. CASE l = level
    <3>1. labels'[l] = Append(labels[l], LabelOf(Key, level))
      BY <1>3, <1>5, <2>2
    <3>2. GetNumItems(l) = 0 \/ LastLabel(l) < LabelOf(Key, level)
      <4>1. CASE cur > 1
        BY <2>2, <4>1, StopsWhereItRises
      <4>2. CASE cur = 1
        <5>1. height = 0
          BY <1>1, <4>2 DEF LoudsInv, SkipInv
        <5>2. QED
          BY <1>1, <1>3, <2>2, <5>1, LevelCounts
      <4>3. QED
        BY <1>2, <4>1, <4>2
    <3>3. QED
      BY <1>1, <1>4, <1>5, <2>1, <3>1, <3>2, AppendAscending
  <2>3. CASE l # level
    <3>1. labels'[l] = labels[l]
      BY <1>3, <1>5, <2>3
    <3>2. QED
      BY <1>5, <2>1, <3>1 DEF Ascending, SameNode, GetNumItems
  <2>4. QED
    BY <2>2, <2>3
<1>7. ASSUME nxt' <= NumKeys
      PROVE  Precedes(Key, input.keys[nxt'], input.skip_prefix)
  <2>1. /\ nxt' \in 1 .. NumKeys /\ nxt' > cur
        /\ ~SameKey(Key, input.keys[nxt'])
    BY <1>2, <1>7 DEF InsertFirstByte
  <2>2. Key # input.keys[nxt']
    BY <2>1 DEF SameKey
  <2>3. input \in Inputs /\ cur < nxt'
    BY <1>1, <1>2, <2>1 DEF LoudsInv, TypeInv, StructInv
  <2>4. QED
    BY <1>2, <2>1, <2>2, <2>3 DEF SortedInputs, Key, NumKeys
<1>8. (nxt <= NumKeys => Precedes(Key, KeyAt(nxt), input.skip_prefix))'
  BY <1>1, <1>7 DEF Precedes, KeyAt, Key, NumKeys
<1>9. QED
  BY <1>1, <1>6, <1>8 DEF SortedInv

LEMMA InsertNextByteSorted ==
  ASSUME SortedInv, LoudsInv', InsertNextByte
  PROVE  SortedInv'
<1>1. LoudsInv
  BY DEF SortedInv
<1>2. /\ pc = "rest" /\ pc' = "rest" /\ level \in Levels /\ level \in Nat
      /\ UNCHANGED <<input, cur, nxt>>
      /\ labels' = [labels EXCEPT ![level] = Append(@, LabelOf(Key, level))]
      /\ louds_bits' = [louds_bits EXCEPT ![level] = @ \cup {GetNumItems(level)}]
  BY <1>1, InsertNextByteEffect
<1>3. LabelOf(Key, level) \in Label
  BY <1>1, <1>2, KeyFacts, LabelOfType DEF LoudsInv
<1>4. /\ labels \in [Levels -> Seq(Label)] /\ louds_bits \in [Levels -> SUBSET Nat]
      /\ \A l \in Levels : Ascending(l)
  BY DEF SortedInv, LoudsInv, TypeInv, TypeOK
<1>5. ASSUME NEW l \in Levels PROVE Ascending(l)'
  <2>1. louds_bits[l] \subseteq louds_bits'[l]
    BY <1>2, <1>4
  <2>2. CASE l = level
    <3>1. /\ labels'[l] = Append(labels[l], LabelOf(Key, level))
          /\ GetNumItems(l) \in louds_bits'[l]
      BY <1>2, <1>4, <2>2
    <3>2. QED
      BY <1>1, <1>3, <1>4, <2>1, <3>1, AppendAscending
  <2>3. CASE l # level
    <3>1. labels'[l] = labels[l]
      BY <1>2, <1>4, <2>3
    <3>2. QED
      BY <1>4, <2>1, <3>1 DEF Ascending, SameNode, GetNumItems
  <2>4. QED
    BY <2>2, <2>3
<1>6. (nxt <= NumKeys => Precedes(Key, KeyAt(nxt), input.skip_prefix))'
  BY <1>2 DEF SortedInv, Precedes, KeyAt, Key, NumKeys
<1>7. QED
  BY <1>2, <1>5, <1>6 DEF SortedInv

(* The next key rises where it first differs from this one, which is at or
   above this one's leaf. *)
LEMMA StoreValueSorted ==
  ASSUME SortedInv, LoudsInv', StoreValue
  PROVE  SortedInv'
<1>1. /\ LoudsInv /\ pc \in {"store", "rest"} /\ cur' = nxt
      /\ pc' \in {"skip", "cutoff", "done"}
      /\ pc' = "skip" => nxt <= NumKeys
      /\ UNCHANGED <<input, height, labels, louds_bits>>
  BY DEF SortedInv, StoreValue, sparseVars
<1>2. \A l \in Levels : Ascending(l)'
  BY <1>1 DEF SortedInv, Ascending, SameNode, GetNumItems
<1>3. ASSUME nxt <= NumKeys
      PROVE  \E m \in Levels : RisesAt(m)'
  <2>1. /\ level \in Nat /\ level <= height /\ height \in Nat
        /\ \A q \in 0 .. level - 1 : LastLabel(q) = LabelOf(Key, q)
    BY <1>1 DEF LoudsInv, TypeInv, TypeOK, StructInv, PathInv
  <2>2. Key' = KeyAt(nxt) /\ \A q : LabelOf(Key, q)' = LabelOf(KeyAt(nxt), q)
    BY <1>1, <1>3 DEF Key, KeyAt, LabelOf
  <2>3. PICK m \in Levels : /\ m + input.skip_prefix < Len(KeyAt(nxt))
                            /\ \A q \in 0 .. m - 1 :
                                 LabelOf(Key, q) = LabelOf(KeyAt(nxt), q)
                            /\ LabelOf(Key, m) < LabelOf(KeyAt(nxt), m)
    BY <1>1, <1>3 DEF SortedInv, Precedes, LabelOf
  <2>4. PICK d \in 0 .. level - 1 : LabelOf(Key, d) # LabelOf(KeyAt(nxt), d)
    BY <1>1, <1>3, DiffersAtLeaf
  <2>5. m \in Nat /\ ~(d \in 0 .. m - 1)
    BY <2>3, <2>4, ConstantsAssumption DEF Levels
  <2>6. m \in 0 .. level - 1 /\ m < height
    BY <2>1, <2>4, <2>5
  <2>7. /\ LastLabel(m) < LabelOf(KeyAt(nxt), m)
        /\ \A q \in 0 .. m - 1 : LastLabel(q) = LabelOf(KeyAt(nxt), q)
    BY <2>1, <2>3, <2>6
  <2>8. \A q : LastLabel(q)' = LastLabel(q)
    BY <1>1 DEF LastLabel, GetNumItems
  <2>9. RisesAt(m)'
    BY <1>1, <2>2, <2>3, <2>6, <2>7, <2>8 DEF RisesAt
  <2>10. QED
    BY <2>9
<1>4. QED
  BY <1>1, <1>2, <1>3 DEF SortedInv

LEMMA AfterScanSorted ==
  ASSUME SortedInv, LoudsInv',
         DetermineCutoffLevel \/ CollectValues \/ BuildDenseLevel \/ FinishBuild
  PROVE  SortedInv'
<1>1. pc' \in {"collect", "dense", "done"} /\ UNCHANGED <<labels, louds_bits>>
  BY DEF DetermineCutoffLevel, CollectValues, BuildDenseLevel, FinishBuild, sparseVars
<1>2. \A l \in Levels : Ascending(l)'
  BY <1>1 DEF SortedInv, Ascending, SameNode, GetNumItems
<1>3. QED
  BY <1>1, <1>2 DEF SortedInv

LEMMA SortedStep == SortedInputs /\ SortedInv /\ [Next]_vars => SortedInv'
<1> SUFFICES ASSUME SortedInputs, SortedInv, [Next]_vars PROVE SortedInv'
  OBVIOUS
<1>1. LoudsInv'
  BY SortedKeysDiverge, LoudsStep DEF SortedInv
<1>2. CASE SkipCommonPrefix
  BY <1>1, <1>2, SkipCommonPrefixSorted
<1>3. CASE InsertFirstByte
  BY <1>1, <1>3, InsertFirstByteSorted
<1>4. CASE InsertNextByte
  BY <1>1, <1>4, InsertNextByteSorted
<1>5. CASE StoreValue
  BY <1>1, <1>5, StoreValueSorted
<1>6. CASE DetermineCutoffLevel \/ CollectValues \/ BuildDenseLevel \/ FinishBuild
  BY <1>1, <1>6, AfterScanSorted
<1>7. CASE UNCHANGED vars
  <2>1. UNCHANGED <<input, pc, cur, nxt, height, labels, louds_bits>>
    BY <1>7 DEF vars, sparseVars
  <2>2. \A l \in Levels : Ascending(l)'
    BY <2>1 DEF SortedInv, Ascending, SameNode, GetNumItems
  <2>3. (pc = "skip" /\ cur > 1 => \E m \in Levels : RisesAt(m))'
    BY <2>1 DEF SortedInv, RisesAt, LastLabel, GetNumItems, LabelOf, Key
  <2>4. (pc \in {"rest", "store"} /\ nxt <= NumKeys =>
           Precedes(Key, KeyAt(nxt), input.skip_prefix))'
    BY <2>1 DEF SortedInv, Precedes, KeyAt, Key, NumKeys
  <2>5. QED
    BY <1>1, <2>2, <2>3, <2>4 DEF SortedInv
<1>8. QED
  BY <1>2, <1>3, <1>4, <1>5, <1>6, <1>7 DEF Next, Terminated

-------------------------------------------------------------------------------
(* Results *)

(* In every build from sorted keys of which none is a prefix of another, the
   labels of each node ascend at every moment, as binary search and the order
   of the iterators need them to. *)
THEOREM NodesStaySorted == ASSUME SortedInputs PROVE Spec => []NodesSorted
<1>1. Init => SortedInv
  BY SortedInit
<1>2. SortedInv /\ [Next]_vars => SortedInv'
  BY SortedStep
<1>3. SortedInv => NodesSorted
  <2> SUFFICES ASSUME SortedInv, NEW l \in Levels, NEW p \in 1 .. GetNumItems(l) - 1,
                      p \notin louds_bits[l]
               PROVE  labels[l][p] < labels[l][p + 1]
    BY DEF NodesSorted
  <2>1. GetNumItems(l) \in Nat
    BY LevelCounts DEF SortedInv
  <2>2. SameNode(l, p, p + 1)
    BY BitsAreNat DEF SameNode, SortedInv
  <2>3. QED
    BY <2>1, <2>2 DEF SortedInv, Ascending
<1>4. QED
  BY <1>1, <1>2, <1>3, PTL DEF Spec

-------------------------------------------------------------------------------
(* The dense levels *)

(* A list of equal keys whose first byte is the greatest label. *)
OnlyTerminator(in) ==
  /\ \A i \in 1 .. Len(in.keys) : in.keys[i] = in.keys[1]
  /\ Byte(in.keys[1], in.skip_prefix + 1) = Terminator

NoTerminatorAlone == \A in \in Inputs : ~OnlyTerminator(in)

(* Every position in the bitmaps of a level is a position_t. *)
PositionsFit == \A l \in Levels : node_counts[l] * Fanout <= PositionRange

AllKeysEqual == \A i \in 1 .. NumKeys : input.keys[i] = input.keys[1]

(* The item at position p is a leaf, starts its node and has no sibling yet. *)
LonelyLeaf(l, p) ==
  /\ p \in louds_bits[l] /\ p \notin child_indicator_bits[l]
  /\ p + 1 < GetNumItems(l) => p + 1 \in louds_bits[l]

(* The next different key goes through the last node of level l: it is the
   successor of the key that was inserted down to that level, or the scan has
   come to it. *)
Joins(l) ==
  \/ /\ pc \in {"rest", "store"} /\ nxt <= NumKeys /\ l = level - 1
     /\ \A q \in 0 .. l - 1 : LabelOf(Key, q) = LabelOf(KeyAt(nxt), q)
  \/ /\ pc = "skip" /\ cur > 1 /\ l < height
     /\ \A q \in 0 .. l - 1 : LastLabel(q) = LabelOf(Key, q)

(* A leaf without a sibling is about to get one, unless all keys are equal. *)
LeafInv ==
  \A l \in Levels :
    \A p \in louds_bits[l] :
      LonelyLeaf(l, p) =>
        \/ p = LastPos(l) /\ Joins(l)
        \/ l = 0 /\ AllKeysEqual

(* The first item of a level starts a node, and that of the root is the first
   byte of the first key. *)
FirstInv ==
  /\ \A l \in Levels : l < height => 0 \in louds_bits[l]
  /\ height > 0 => labels[0][1] = LabelOf(input.keys[1], 0)

(* While the loop of InsertNextByte runs, key and successor share the bytes
   above the last one inserted. *)
SharedInv ==
  pc = "rest" /\ nxt <= NumKeys =>
    \A q \in 0 .. level - 2 : LabelOf(Key, q) = LabelOf(KeyAt(nxt), q)

(* The bitmaps are those of the vectors as they are now. *)
BitmapInv ==
  /\ pc \notin {"dense", "done"} => dense = << >>
  /\ pc = "dense" => Len(dense) = level
  /\ Len(dense) <= height
  /\ \A l \in Levels : l < Len(dense) => dense[l + 1] = DenseLevel(l)

DenseInv ==
  /\ SortedInv
  /\ LeafInv
  /\ FirstInv
  /\ SharedInv
  /\ BitmapInv

-------------------------------------------------------------------------------
(* Lemmas on numbers *)

(* Division undoes what put a label into its node's bits. *)
LEMMA DivideBack ==
  ASSUME NEW d \in Nat \ {0}, NEW k \in Nat, NEW c \in 0 .. d - 1
  PROVE  (k * d + c) \div d = k /\ (k * d + c) % d = c
<1> DEFINE b == k * d + c
           q == b \div d
           r == b % d
<1>1. b \in Nat
  OBVIOUS
<1> HIDE DEF b
<1>2. q \in Int /\ r \in 0 .. d - 1 /\ b = d * q + r
  BY <1>1
<1> HIDE DEF q, r
<1>3. d * (k - q) = r - c
  BY <1>2 DEF b
<1>4. ~(k - q >= 1)
  BY <1>2, <1>3
<1>5. ~(k - q <= -1)
  BY <1>2, <1>3
<1>6. k = q
  BY <1>2, <1>4, <1>5
<1>7. r = c
  BY <1>2, <1>3, <1>6
<1>8. QED
  BY <1>6, <1>7 DEF q, r, b

(* A number in range is not wrapped around. *)
LEMMA NotWrapped ==
  ASSUME NEW d \in Nat \ {0}, NEW c \in 0 .. d - 1
  PROVE  c % d = c
<1>1. (0 * d + c) % d = c
  BY DivideBack
<1>2. QED
  BY <1>1

(* A remainder is not above the number itself. *)
LEMMA RemainderBelow ==
  ASSUME NEW d \in Nat \ {0}, NEW n \in Nat
  PROVE  n % d \in Nat /\ n % d <= n
<1> DEFINE q == n \div d
           r == n % d
<1>1. q \in Int /\ r \in 0 .. d - 1 /\ n = d * q + r
  OBVIOUS
<1> HIDE DEF q, r
<1>2. ~(q <= -1)
  BY <1>1
<1>3. d * q >= 0
  BY <1>1, <1>2
<1>4. r \in Nat /\ r <= n
  BY <1>1, <1>3
<1>5. QED
  BY <1>4 DEF r

(* The bits of node k lie below those of node n. *)
LEMMA InsideNodes ==
  ASSUME NEW d \in Nat \ {0}, NEW n \in Nat, NEW k \in 0 .. n - 1,
         NEW c \in 0 .. d - 1
  PROVE  k * d + c \in 0 .. n * d - 1
<1>1. (n - k - 1) * d >= 0
  OBVIOUS
<1>2. n * d = (n - k - 1) * d + k * d + d
  OBVIOUS
<1>3. k * d \in Nat /\ n * d \in Nat
  OBVIOUS
<1>4. QED
  BY <1>1, <1>2, <1>3

-------------------------------------------------------------------------------
(* The scan *)

(* No bitmap is built before the scan and the cutoff are done. *)
LEMMA NoBitmapsYet ==
  ASSUME BitmapInv, pc \notin {"dense", "done"}, dense' = dense,
         height' \in Nat, pc' = "dense" => level' = 0
  PROVE  BitmapInv'
<1>1. dense = << >> /\ dense' = << >>
  BY DEF BitmapInv
<1>2. Len(dense') = 0
  BY <1>1
<1>3. \A l \in Levels : ~(l < Len(dense'))
  BY <1>2 DEF Levels
<1>4. QED
  BY <1>1, <1>2, <1>3 DEF BitmapInv

LEMMA DenseInit == Init => DenseInv
<1> SUFFICES ASSUME Init PROVE DenseInv
  OBVIOUS
<1>1. SortedInv
  BY SortedInit
<1>2. /\ pc = "skip" /\ height = 0 /\ dense = << >>
      /\ \A l \in Levels : louds_bits[l] = {}
  BY DEF Init
<1>3. LeafInv /\ SharedInv
  BY <1>2 DEF LeafInv, SharedInv
<1>4. FirstInv
  BY <1>2 DEF FirstInv, Levels
<1>5. BitmapInv
  BY <1>2 DEF BitmapInv, Levels
<1>6. QED
  BY <1>1, <1>3, <1>4, <1>5 DEF DenseInv

LEMMA SkipCommonPrefixDense ==
  ASSUME DenseInv, SortedInv', SkipCommonPrefix
  PROVE  DenseInv'
<1>1. /\ LoudsInv /\ pc = "skip" /\ pc' = "skip"
      /\ UNCHANGED <<input, cur, nxt, height, labels, louds_bits, dense>>
      /\ child_indicator_bits' = child_indicator_bits
  BY SkipCommonPrefixKeepsBits
  DEF DenseInv, SortedInv, SkipCommonPrefix, denseVars
<1>2. LeafInv'
  <2>1. \A l \in Levels : \A p \in louds_bits[l] : LonelyLeaf(l, p)' => LonelyLeaf(l, p)
    BY <1>1 DEF LonelyLeaf, GetNumItems
  <2>2. \A l \in Levels : Joins(l) => Joins(l)'
    BY <1>1 DEF Joins, LastLabel, GetNumItems, LabelOf, Key
  <2>3. \A l \in Levels : LastPos(l)' = LastPos(l)
    BY <1>1 DEF LastPos, GetNumItems
  <2>4. AllKeysEqual' <=> AllKeysEqual
    BY <1>1 DEF AllKeysEqual, NumKeys
  <2>5. QED
    BY <1>1, <2>1, <2>2, <2>3, <2>4 DEF DenseInv, LeafInv
<1>3. FirstInv'
  BY <1>1 DEF DenseInv, FirstInv, LabelOf
<1>4. SharedInv'
  BY <1>1 DEF SharedInv
<1>5. BitmapInv'
  BY <1>1, NoBitmapsYet DEF DenseInv, LoudsInv, TypeInv, TypeOK
<1>6. QED
  BY <1>2, <1>3, <1>4, <1>5 DEF DenseInv

(* If no different key follows the first one, all keys are equal. *)
LEMMA NoOtherKey ==
  ASSUME SortedInputs, TypeInv, InsertFirstByte, cur = 1, nxt' > NumKeys
  PROVE  AllKeysEqual
<1>1. /\ NumKeys \in Nat \ {0} /\ input.skip_prefix \in Nat /\ input \in Inputs
      /\ \A i \in 1 .. NumKeys : /\ input.keys[i] \in Seq(Label)
                                 /\ Len(input.keys[i]) \in Nat
  BY InputFacts DEF TypeInv, StructInv
<1>2. \A k \in 2 .. NumKeys : SameKey(input.keys[1], input.keys[k])
  BY <1>1 DEF InsertFirstByte, Key
<1> SUFFICES ASSUME NEW k \in 2 .. NumKeys, input.keys[k] # input.keys[1]
             PROVE  FALSE
  BY <1>1 DEF AllKeysEqual
<1>3. Precedes(input.keys[1], input.keys[k], input.skip_prefix)
  BY <1>1 DEF SortedInputs, NumKeys
<1>4. PICK m \in Levels : /\ m + input.skip_prefix < Len(input.keys[1])
                          /\ Byte(input.keys[1], m + input.skip_prefix + 1)
                               < Byte(input.keys[k], m + input.skip_prefix + 1)
  BY <1>3 DEF Precedes
<1>5. Byte(input.keys[1], m + input.skip_prefix + 1)
        # Byte(input.keys[k], m + input.skip_prefix + 1)
  <2>1. \A a \in Seq(Label) : \A q \in Nat \ {0} : Byte(a, q) \in Int
    BY ConstantsAssumption DEF Byte, Label
  <2>2. m + input.skip_prefix + 1 \in Nat \ {0}
    BY <1>1, ConstantsAssumption DEF Levels
  <2>3. input.keys[1] \in Seq(Label) /\ input.keys[k] \in Seq(Label)
    BY <1>1
  <2>4. /\ Byte(input.keys[1], m + input.skip_prefix + 1) \in Int
        /\ Byte(input.keys[k], m + input.skip_prefix + 1) \in Int
    BY <2>1, <2>2, <2>3
  <2>5. QED
    BY <1>4, <2>4
<1>6. CASE ~input.parts
  BY <1>2, <1>6 DEF SameKey
<1>7. CASE input.parts
  <2>1. input.skip_prefix % Fanout \in Nat /\ input.skip_prefix % Fanout <= input.skip_prefix
    BY <1>1, ConstantsAssumption, RemainderBelow
  <2>2. m + input.skip_prefix + 1
          \in (input.skip_prefix % Fanout) + 1 .. Len(input.keys[1])
    BY <1>1, <1>4, <2>1, ConstantsAssumption DEF Levels
  <2>3. QED
    BY <1>2, <1>5, <1>7, <2>2 DEF SameKey
<1>8. QED
  BY <1>6, <1>7

(* The new item has the last items above it as its path; a leaf that waited
   for a sibling finds it in the new item, in whose node it is. *)
LEMMA InsertFirstByteLeaves ==
  ASSUME SortedInputs, DenseInv, SortedInv', InsertFirstByte
  PROVE  LeafInv'
<1>1. /\ LoudsInv /\ TypeInv /\ SortedInv /\ pc = "skip" /\ pc' \in {"store", "rest"}
      /\ level' = level + 1
      /\ UNCHANGED <<input, cur>>
  BY DEF DenseInv, SortedInv, LoudsInv, InsertFirstByte
<1>2. /\ Key \in Seq(Label) /\ cur \in 1 .. NumKeys /\ NumKeys \in Nat
      /\ input.skip_prefix \in Nat
  BY <1>1, KeyFacts DEF LoudsInv
<1>3. /\ level \in Levels /\ level \in Nat
      /\ labels' = [labels EXCEPT ![level] = Append(@, LabelOf(Key, level))]
      /\ child_indicator_bits' = child_indicator_bits
      /\ \A q \in 0 .. level - 1 : LastPos(q) \in child_indicator_bits[q]
      /\ \/ /\ level = 0 /\ height = 0
            /\ louds_bits' = [louds_bits EXCEPT ![0] = @ \cup {GetNumItems(0)}]
         \/ level < height /\ UNCHANGED louds_bits
  BY <1>1, InsertFirstByteEffect
<1>4. /\ Len(labels'[level]) = GetNumItems(level) + 1
      /\ \A q \in Levels : q # level => labels'[q] = labels[q]
  <2>1. LabelOf(Key, level) \in Label
    BY <1>2, <1>3, LabelOfType
  <2>2. QED
    BY <1>1, <1>3, <2>1, AppendedItem
<1>5. AllKeysEqual' <=> AllKeysEqual
  BY <1>1 DEF AllKeysEqual, NumKeys
<1> SUFFICES ASSUME NEW l \in Levels, NEW p \in louds_bits'[l], LonelyLeaf(l, p)',
                    ~(l = 0 /\ AllKeysEqual)
             PROVE  (p = LastPos(l) /\ Joins(l))'
  BY <1>5 DEF LeafInv
<1>6. /\ GetNumItems(l) \in Nat /\ l \in Nat /\ GetNumItems(l) = Len(labels[l])
      /\ louds_bits[l] \in SUBSET (0 .. GetNumItems(l) - 1)
      /\ l >= height => GetNumItems(l) = 0 /\ louds_bits[l] = {}
  BY <1>1, LevelCounts
<1>7. CASE cur = 1
  <2>1. height = 0 /\ level = 0
    BY <1>1, <1>3, <1>7 DEF LoudsInv, SkipInv
  <2>2. louds_bits \in [Levels -> SUBSET Nat]
    BY <1>1 DEF TypeInv, TypeOK
  <2>3. l = 0 /\ p = GetNumItems(0)
    BY <1>3, <1>6, <2>1, <2>2
  <2>4. p = LastPos(l)'
    BY <1>4, <1>6, <2>1, <2>3 DEF LastPos, GetNumItems
  <2>5. ~(nxt' > NumKeys)
    BY <1>1, <1>7, <2>3, NoOtherKey
  <2>6. nxt' <= NumKeys
    BY <1>2, <2>5 DEF InsertFirstByte
  <2>7. Joins(l)'
    BY <1>1, <2>1, <2>3, <2>6 DEF Joins, NumKeys
  <2>8. QED
    BY <2>4, <2>7
<1>8. CASE cur > 1
  <2>1. level < height /\ louds_bits' = louds_bits
    <3>1. \E m \in Levels : LeavesPathAt(m) /\ level <= m
      BY <1>1, <1>8, LeavesBelow
    <3>2. height \in Nat /\ \A m \in Levels : m \in Nat
      BY <1>1, ConstantsAssumption DEF TypeInv, TypeOK, Levels
    <3>3. height # 0
      BY <3>1, <3>2 DEF LeavesPathAt
    <3>4. QED
      BY <1>3, <3>3
  <2>2. LonelyLeaf(l, p)
    <3>1. CASE l = level
      BY <1>3, <1>4, <1>6, <2>1, <3>1 DEF LonelyLeaf, GetNumItems
    <3>2. CASE l # level
      BY <1>3, <1>4, <2>1, <3>2 DEF LonelyLeaf, GetNumItems
    <3>3. QED
      BY <3>1, <3>2
  <2>3. p = LastPos(l) /\ Joins(l)
    BY <2>1, <2>2 DEF DenseInv, LeafInv
  <2>4. \A q \in 0 .. l - 1 : LastLabel(q) = LabelOf(Key, q)
    BY <1>1, <2>3 DEF Joins
  <2>5. ~(level < l)
    <3>1. LastLabel(level) < LabelOf(Key, level) /\ LabelOf(Key, level) \in Int
      <4>1. LabelOf(Key, level) \in Label
        BY <1>2, <1>3, LabelOfType
      <4>2. QED
        BY <1>1, <1>8, <4>1, StopsWhereItRises DEF Label
    <3>2. QED
      BY <1>3, <1>6, <2>4, <3>1
  <2>6. ~(l < level)
    BY <1>3, <1>6, <2>2, <2>3 DEF LonelyLeaf
  <2>7. l # level
    <3> SUFFICES ASSUME l = level PROVE FALSE
      OBVIOUS
    <3>1. p + 1 = GetNumItems(l) /\ p + 1 < Len(labels'[l])
      BY <1>4, <1>6, <2>3 DEF LastPos
    <3>2. p + 1 \in louds_bits[l]
      BY <2>1, <3>1 DEF LonelyLeaf, GetNumItems
    <3>3. QED
      BY <1>6, <3>1, <3>2
  <2>8. QED
    BY <1>3, <1>6, <2>5, <2>6, <2>7
<1>9. QED
  BY <1>2, <1>7, <1>8

LEMMA InsertFirstByteDense ==
  ASSUME SortedInputs, DenseInv, SortedInv', InsertFirstByte
  PROVE  DenseInv'
<1>1. /\ LoudsInv /\ TypeInv /\ pc = "skip" /\ pc' \in {"store", "rest"}
      /\ level' = level + 1 /\ level \in Levels /\ level \in Nat
      /\ UNCHANGED <<input, cur, dense>>
      /\ pc' = "rest" => ~UniqueBefore(level + 1, KeyAt(nxt'))
  BY InsertFirstByteEffect
  DEF DenseInv, SortedInv, LoudsInv, InsertFirstByte, denseVars
<1>2. /\ Key \in Seq(Label) /\ cur \in 1 .. NumKeys /\ NumKeys \in Nat
      /\ input.skip_prefix \in Nat /\ 0 \in Levels
  BY <1>1, KeyFacts, ConstantsAssumption DEF Levels
<1>3. LeafInv'
  BY InsertFirstByteLeaves
<1>4. FirstInv'
  <2>1. CASE cur = 1
    <3>1. height = 0 /\ level = 0
      BY <1>1, <2>1 DEF LoudsInv, SkipInv, TypeInv, StructInv
    <3>2. /\ height' = 1
          /\ louds_bits' = [louds_bits EXCEPT ![0] = @ \cup {GetNumItems(0)}]
          /\ labels' = [labels EXCEPT ![0] = Append(@, LabelOf(Key, 0))]
      BY <1>1, <3>1, InsertFirstByteEffect
    <3>3. /\ GetNumItems(0) = 0 /\ LabelOf(Key, 0) \in Label
          /\ louds_bits \in [Levels -> SUBSET Nat]
      BY <1>1, <1>2, <3>1, LevelCounts, LabelOfType DEF TypeInv, TypeOK
    <3>4. 0 \in louds_bits'[0]
      BY <1>2, <3>2, <3>3
    <3>5. labels'[0][1] = LabelOf(Key, 0)
      <4>1. /\ Len(labels'[0]) = GetNumItems(0) + 1
            /\ labels'[0][Len(labels'[0])] = LabelOf(Key, 0)
        BY <1>1, <1>2, <3>2, <3>3, AppendedItem
      <4>2. QED
        BY <3>3, <4>1
    <3>6. \A l \in Levels : l < height' => l = 0
      BY <3>2 DEF Levels
    <3>7. LabelOf(Key, 0) = LabelOf(input.keys[1], 0)'
      BY <1>1, <2>1 DEF Key, LabelOf
    <3>8. QED
      BY <3>4, <3>5, <3>6, <3>7 DEF FirstInv
  <2>2. CASE cur > 1
    <3>1. height \in Nat /\ height # 0 /\ level < height /\ UNCHANGED <<height, louds_bits>>
      <4>1. \E m \in Levels : LeavesPathAt(m) /\ level <= m
        BY <1>1, <2>2, LeavesBelow
      <4>2. height \in Nat /\ \A m \in Levels : m \in Nat
        BY <1>1, ConstantsAssumption DEF TypeInv, TypeOK, Levels
      <4>3. height # 0
        BY <4>1, <4>2 DEF LeavesPathAt
      <4>4. QED
        BY <1>1, <4>2, <4>3, InsertFirstByteEffect
    <3>2. labels'[0][1] = labels[0][1]
      <4>1. labels[0] \in Seq(Label) /\ labels[0] # << >>
        BY <1>1, <1>2, <3>1 DEF TypeInv, TypeOK, StructInv
      <4>2. /\ labels' = [labels EXCEPT ![level] = Append(@, LabelOf(Key, level))]
            /\ labels \in [Levels -> Seq(Label)]
        BY <1>1, InsertFirstByteEffect DEF TypeInv, TypeOK
      <4>3. CASE level = 0
        <5>1. labels'[0] = Append(labels[0], LabelOf(Key, 0))
          BY <1>2, <4>2, <4>3
        <5>2. QED
          BY <4>1, <5>1
      <4>4. CASE level # 0
        BY <1>2, <4>2, <4>4
      <4>5. QED
        BY <4>3, <4>4
    <3>3. FirstInv
      BY DEF DenseInv
    <3>4. QED
      BY <1>1, <3>1, <3>2, <3>3 DEF FirstInv, LabelOf
  <2>3. QED
    BY <1>2, <2>1, <2>2
<1>5. SharedInv'
  <2> SUFFICES ASSUME pc' = "rest", NEW q \in 0 .. level - 1
               PROVE  LabelOf(Key, q)' = LabelOf(KeyAt(nxt), q)'
    BY <1>1 DEF SharedInv
  <2>1. LabelOf(Key, q) = LabelOf(KeyAt(nxt'), q)
    BY <1>1 DEF UniqueBefore
  <2>2. LabelOf(Key, q)' = LabelOf(Key, q) /\ LabelOf(KeyAt(nxt), q)' = LabelOf(KeyAt(nxt'), q)
    BY <1>1 DEF LabelOf, Key, KeyAt, NumKeys
  <2>3. QED
    BY <2>1, <2>2
<1>6. BitmapInv'
  <2>1. height' \in Nat
    BY DEF SortedInv, LoudsInv, TypeInv, TypeOK
  <2>2. QED
    BY <1>1, <2>1, NoBitmapsYet DEF DenseInv
<1>7. QED
  BY <1>3, <1>4, <1>5, <1>6 DEF DenseInv

(* A new node's only item waits for the successor, which shares all bytes
   above it; the item above it now has a child. *)
LEMMA InsertNextByteDense ==
  ASSUME DenseInv, SortedInv', InsertNextByte
  PROVE  DenseInv'
<1>1. /\ LoudsInv /\ TypeInv
      /\ pc = "rest" /\ pc' = "rest" /\ level' = level + 1
      /\ level \in Levels /\ level - 1 \in Levels /\ level \in Nat /\ level >= 1
      /\ level <= height
      /\ UNCHANGED <<input, cur, nxt>>
      /\ height' = IF level = height THEN height + 1 ELSE height
      /\ labels' = [labels EXCEPT ![level] = Append(@, LabelOf(Key, level))]
      /\ child_indicator_bits' =
           [child_indicator_bits EXCEPT ![level - 1] = @ \cup {LastPos(level - 1)}]
      /\ louds_bits' = [louds_bits EXCEPT ![level] = @ \cup {GetNumItems(level)}]
  BY InsertNextByteEffect DEF DenseInv, SortedInv, LoudsInv
<1>2. /\ input.skip_prefix \in Nat /\ Key \in Seq(Label) /\ NumKeys \in Nat
      /\ nxt \in Nat /\ height \in Nat /\ 0 \in Levels
      /\ child_indicator_bits \in [Levels -> SUBSET Nat]
      /\ louds_bits \in [Levels -> SUBSET Nat]
  <2>1. input.skip_prefix \in Nat /\ Key \in Seq(Label) /\ NumKeys \in Nat
    BY <1>1, KeyFacts
  <2>2. /\ nxt \in 1 .. NumKeys + 1 /\ height \in 0 .. MaxLevel + 1
        /\ child_indicator_bits \in [Levels -> SUBSET Nat]
        /\ louds_bits \in [Levels -> SUBSET Nat]
    BY <1>1 DEF TypeInv, TypeOK
  <2>3. QED
    BY <2>1, <2>2, ConstantsAssumption DEF Levels
<1>3. nxt <= NumKeys
  BY <1>1, <1>2 DEF InsertNextByte, SharesLastByte, KeyAt
<1>4. \A q \in 0 .. level - 1 : LabelOf(Key, q) = LabelOf(KeyAt(nxt), q)
  <2>1. LabelOf(Key, level - 1) = LabelOf(KeyAt(nxt), level - 1)
    BY DEF InsertNextByte, SharesLastByte
  <2>2. \A q \in 0 .. level - 2 : LabelOf(Key, q) = LabelOf(KeyAt(nxt), q)
    BY <1>1, <1>3 DEF DenseInv, SharedInv
  <2>3. QED
    BY <1>1, <2>1, <2>2
<1>5. \A q : LabelOf(Key, q)' = LabelOf(Key, q) /\ LabelOf(KeyAt(nxt), q)' = LabelOf(KeyAt(nxt), q)
  BY <1>1 DEF LabelOf, Key, KeyAt, NumKeys
<1>6. /\ Len(labels'[level]) = GetNumItems(level) + 1
      /\ \A q \in Levels : q # level => labels'[q] = labels[q]
  <2>1. LabelOf(Key, level) \in Label
    BY <1>1, <1>2, LabelOfType
  <2>2. QED
    BY <1>1, <2>1, AppendedItem
<1>7. LeafInv'
  <2>1. AllKeysEqual' <=> AllKeysEqual
    BY <1>1 DEF AllKeysEqual, NumKeys
  <2> SUFFICES ASSUME NEW l \in Levels, NEW p \in louds_bits'[l], LonelyLeaf(l, p)',
                      ~(l = 0 /\ AllKeysEqual)
               PROVE  (p = LastPos(l) /\ Joins(l))'
    BY <2>1 DEF LeafInv
  <2>2. /\ GetNumItems(l) \in Nat /\ l \in Nat /\ GetNumItems(l) = Len(labels[l])
        /\ LastPos(l) = GetNumItems(l) - 1
        /\ louds_bits[l] \in SUBSET (0 .. GetNumItems(l) - 1)
    BY <1>1, LevelCounts
  <2>3. ~(p \in louds_bits[l] /\ LonelyLeaf(l, p) /\ (l = level - 1 => p # LastPos(l)))
    BY <1>1, <2>2 DEF DenseInv, LeafInv, Joins
  <2>4. CASE l = level
    <3>1. /\ louds_bits'[l] = louds_bits[l] \cup {GetNumItems(l)}
          /\ child_indicator_bits'[l] = child_indicator_bits[l]
      BY <1>1, <1>2, <2>4
    <3>2. LastPos(l)' = GetNumItems(l) /\ GetNumItems(l)' = GetNumItems(l) + 1
      BY <1>6, <2>2, <2>4 DEF LastPos, GetNumItems
    <3>3. p = GetNumItems(l)
      <4> SUFFICES ASSUME p # GetNumItems(l) PROVE FALSE
        OBVIOUS
      <4>1. p \in louds_bits[l]
        BY <3>1
      <4>2. LonelyLeaf(l, p)
        BY <2>2, <3>1, <3>2, <4>1 DEF LonelyLeaf
      <4>3. QED
        BY <1>1, <2>3, <2>4, <4>1, <4>2
    <3>4. Joins(l)'
      BY <1>1, <1>3, <1>4, <1>5, <2>4 DEF Joins, NumKeys
    <3>5. QED
      BY <3>2, <3>3, <3>4
  <2>5. CASE l # level
    <3>1. /\ louds_bits'[l] = louds_bits[l] /\ GetNumItems(l)' = GetNumItems(l)
          /\ child_indicator_bits[l] \subseteq child_indicator_bits'[l]
          /\ l = level - 1 => LastPos(l) \in child_indicator_bits'[l]
      BY <1>1, <1>2, <1>6, <2>5 DEF GetNumItems
    <3>2. LonelyLeaf(l, p) /\ (l = level - 1 => p # LastPos(l))
      BY <3>1 DEF LonelyLeaf
    <3>3. QED
      BY <2>3, <3>1, <3>2
  <2>6. QED
    BY <2>4, <2>5
<1>8. FirstInv'
  <2>1. FirstInv
    BY DEF DenseInv
  <2>2. ASSUME NEW l \in Levels, l < height' PROVE 0 \in louds_bits'[l]
    <3>1. CASE l < height
      BY <1>1, <1>2, <2>1, <3>1 DEF FirstInv
    <3>2. CASE ~(l < height)
      <4>1. l = level /\ l >= height
        BY <1>1, <1>2, <2>2, <3>2 DEF Levels
      <4>2. GetNumItems(l) = 0
        BY <1>1, <4>1, LevelCounts
      <4>3. QED
        BY <1>1, <1>2, <4>1, <4>2
    <3>3. QED
      BY <3>1, <3>2
  <2>3. labels'[0][1] = LabelOf(input.keys[1], 0)'
    BY <1>1, <1>2, <1>6, <2>1 DEF FirstInv, LabelOf
  <2>4. QED
    BY <2>2, <2>3 DEF FirstInv
<1>9. SharedInv'
  BY <1>1, <1>4, <1>5 DEF SharedInv
<1>10. BitmapInv'
  <2>1. height' \in Nat
    BY DEF SortedInv, LoudsInv, TypeInv, TypeOK
  <2>2. QED
    BY <1>1, <2>1, NoBitmapsYet DEF DenseInv, InsertNextByte, denseVars
<1>11. QED
  BY <1>7, <1>8, <1>9, <1>10 DEF DenseInv

(* What waits for the successor waits for the key the scan comes to. *)
LEMMA StoreValueDense ==
  ASSUME DenseInv, SortedInv', StoreValue
  PROVE  DenseInv'
<1>1. /\ LoudsInv /\ pc \in {"store", "rest"} /\ cur' = nxt
      /\ pc' \in {"skip", "cutoff", "done"}
      /\ nxt <= NumKeys => pc' = "skip"
      /\ UNCHANGED <<input, height, labels, louds_bits, child_indicator_bits, dense>>
  BY DEF DenseInv, SortedInv, StoreValue, sparseVars, denseVars
<1>2. /\ level \in Nat /\ level >= 1 /\ level <= height /\ height \in Nat
      /\ nxt > cur /\ cur \in Nat /\ nxt \in Nat /\ cur >= 1
      /\ \A q \in 0 .. level - 1 : LastLabel(q) = LabelOf(Key, q)
  BY <1>1 DEF LoudsInv, TypeInv, TypeOK, StructInv, PathInv
<1>3. LeafInv'
  <2>1. \A l \in Levels : \A p \in louds_bits[l] : LonelyLeaf(l, p)' => LonelyLeaf(l, p)
    BY <1>1 DEF LonelyLeaf, GetNumItems
  <2>2. ASSUME NEW l \in Levels, Joins(l) PROVE Joins(l)'
    <3>1. /\ nxt <= NumKeys /\ l = level - 1
          /\ \A q \in 0 .. l - 1 : LabelOf(Key, q) = LabelOf(KeyAt(nxt), q)
      BY <1>1, <2>2 DEF Joins
    <3>2. \A q : LabelOf(Key, q)' = LabelOf(KeyAt(nxt), q)
      BY <1>1, <3>1 DEF LabelOf, Key, KeyAt
    <3>3. \A q : LastLabel(q)' = LastLabel(q)
      BY <1>1 DEF LastLabel, GetNumItems
    <3>4. \A q \in 0 .. l - 1 : LastLabel(q)' = LabelOf(Key, q)'
      BY <1>2, <3>1, <3>2, <3>3
    <3>5. pc' = "skip" /\ cur' > 1 /\ l < height'
      BY <1>1, <1>2, <3>1
    <3>6. QED
      BY <3>4, <3>5 DEF Joins
  <2>3. \A l \in Levels : LastPos(l)' = LastPos(l)
    BY <1>1 DEF LastPos, GetNumItems
  <2>4. AllKeysEqual' <=> AllKeysEqual
    BY <1>1 DEF AllKeysEqual, NumKeys
  <2>5. QED
    BY <1>1, <2>1, <2>2, <2>3, <2>4 DEF DenseInv, LeafInv
<1>4. FirstInv'
  BY <1>1 DEF DenseInv, FirstInv, LabelOf
<1>5. SharedInv'
  BY <1>1 DEF SharedInv
<1>6. BitmapInv'
  BY <1>1, <1>2, NoBitmapsYet DEF DenseInv
<1>7. QED
  BY <1>3, <1>4, <1>5, <1>6 DEF DenseInv

-------------------------------------------------------------------------------
(* After the scan *)

(* The bitmaps of a level depend on the sparse vectors only. *)
LEMMA SameDenseLevel ==
  ASSUME UNCHANGED <<labels, louds_bits, child_indicator_bits>>
  PROVE  \A l : DenseLevel(l)' = DenseLevel(l)
<1>1. \A l, p : NodeNum(l, p)' = NodeNum(l, p)
  BY DEF NodeNum
<1>2. \A l, p : BitmapPos(l, p)' = BitmapPos(l, p)
  BY <1>1 DEF BitmapPos
<1>3. \A l, p : MarksPrefixKey(l, p)' <=> MarksPrefixKey(l, p)
  BY DEF MarksPrefixKey, IsTerminator
<1>4. QED
  BY <1>1, <1>2, <1>3 DEF DenseLevel, GetNumItems

(* Nothing but the bitmaps changes once the scan is over. *)
LEMMA VectorsStayDense ==
  ASSUME DenseInv, SortedInv', BitmapInv',
         pc \notin {"skip", "rest", "store"}, pc' \notin {"skip", "rest", "store"},
         UNCHANGED <<input, height, labels, louds_bits, child_indicator_bits>>
  PROVE  DenseInv'
<1>1. LeafInv'
  <2>1. \A l \in Levels : \A p \in louds_bits[l] : LonelyLeaf(l, p)' => LonelyLeaf(l, p)
    BY DEF LonelyLeaf, GetNumItems
  <2>2. \A l \in Levels : ~Joins(l)
    BY DEF Joins
  <2>3. AllKeysEqual' <=> AllKeysEqual
    BY DEF AllKeysEqual, NumKeys
  <2>4. QED
    BY <2>1, <2>2, <2>3 DEF DenseInv, LeafInv
<1>2. FirstInv'
  BY DEF DenseInv, FirstInv, LabelOf
<1>3. SharedInv'
  BY DEF SharedInv
<1>4. QED
  BY <1>1, <1>2, <1>3 DEF DenseInv

LEMMA AfterScanDense ==
  ASSUME DenseInv, SortedInv',
         DetermineCutoffLevel \/ CollectValues \/ BuildDenseLevel \/ FinishBuild
  PROVE  DenseInv'
<1>1. /\ pc \in {"cutoff", "collect", "dense"} /\ pc' \in {"collect", "dense", "done"}
      /\ UNCHANGED <<input, height, labels, louds_bits, child_indicator_bits>>
  BY DEF DetermineCutoffLevel, CollectValues, BuildDenseLevel, FinishBuild, sparseVars
<1>2. /\ BitmapInv /\ height \in Nat /\ level \in Nat /\ height' = height
      /\ dense \in Seq([labels : SUBSET Nat, children : SUBSET Nat,
                        prefixkey : SUBSET Nat])
  BY <1>1 DEF DenseInv, SortedInv, LoudsInv, TypeInv, TypeOK
<1>3. CASE DetermineCutoffLevel \/ CollectValues
  <2>1. /\ pc \notin {"dense", "done"} /\ dense' = dense
        /\ pc' = "dense" => level' = 0
    BY <1>3 DEF DetermineCutoffLevel, CollectValues
  <2>2. BitmapInv'
    BY <1>2, <2>1, NoBitmapsYet
  <2>3. QED
    BY <1>1, <2>2, VectorsStayDense
<1>4. CASE BuildDenseLevel
  <2>1. /\ pc = "dense" /\ pc' = "dense" /\ level' = level + 1
        /\ level < sparse_start_level /\ sparse_start_level <= height
        /\ sparse_start_level \in Nat
        /\ dense' = Append(dense, DenseLevel(level))
    BY <1>4 DEF BuildDenseLevel, DenseInv, SortedInv, LoudsInv, TypeInv, TypeOK, StructInv
  <2>2. Len(dense) = level /\ Len(dense') = level + 1
    BY <1>2, <2>1 DEF BitmapInv
  <2>3. /\ dense'[level + 1] = DenseLevel(level)
        /\ \A l \in Levels : l < level => dense'[l + 1] = dense[l + 1]
    BY <1>2, <2>1, <2>2 DEF Levels
  <2>4. \A l \in Levels : l < level + 1 => dense'[l + 1] = DenseLevel(l)
    BY <1>2, <2>2, <2>3 DEF BitmapInv, Levels
  <2>5. \A l : DenseLevel(l)' = DenseLevel(l)
    BY <1>1, SameDenseLevel
  <2>6. BitmapInv'
    <3>1. Len(dense') <= height'
      BY <1>2, <2>1, <2>2
    <3>2. \A l \in Levels : l < Len(dense') => dense'[l + 1] = DenseLevel(l)'
      BY <2>2, <2>4, <2>5
    <3>3. QED
      BY <2>1, <2>2, <3>1, <3>2 DEF BitmapInv
  <2>7. QED
    BY <1>1, <2>6, VectorsStayDense
<1>5. CASE FinishBuild
  <2>1. pc = "dense" /\ pc' = "done" /\ dense' = dense
    BY <1>5 DEF FinishBuild, denseVars
  <2>2. \A l : DenseLevel(l)' = DenseLevel(l)
    BY <1>1, SameDenseLevel
  <2>3. BitmapInv'
    BY <1>2, <2>1, <2>2 DEF BitmapInv
  <2>4. QED
    BY <1>1, <2>3, VectorsStayDense
<1>6. QED
  BY <1>3, <1>4, <1>5

LEMMA DenseStep == SortedInputs /\ DenseInv /\ [Next]_vars => DenseInv'
<1> SUFFICES ASSUME SortedInputs, DenseInv, [Next]_vars PROVE DenseInv'
  OBVIOUS
<1>1. SortedInv'
  BY SortedStep DEF DenseInv
<1>2. CASE SkipCommonPrefix
  BY <1>1, <1>2, SkipCommonPrefixDense
<1>3. CASE InsertFirstByte
  BY <1>1, <1>3, InsertFirstByteDense
<1>4. CASE InsertNextByte
  BY <1>1, <1>4, InsertNextByteDense
<1>5. CASE StoreValue
  BY <1>1, <1>5, StoreValueDense
<1>6. CASE DetermineCutoffLevel \/ CollectValues \/ BuildDenseLevel \/ FinishBuild
  BY <1>1, <1>6, AfterScanDense
<1>7. CASE UNCHANGED vars
  <2>1. UNCHANGED <<input, pc, cur, nxt, level, height, labels, louds_bits,
                    child_indicator_bits, dense>>
    BY <1>7 DEF vars, sparseVars, denseVars
  <2>2. LeafInv'
    BY <2>1 DEF DenseInv, LeafInv, LonelyLeaf, Joins, AllKeysEqual, LastLabel, LastPos,
       GetNumItems, LabelOf, Key, KeyAt, NumKeys
  <2>3. FirstInv'
    BY <2>1 DEF DenseInv, FirstInv, LabelOf
  <2>4. SharedInv'
    BY <2>1 DEF DenseInv, SharedInv, LabelOf, Key, KeyAt, NumKeys
  <2>5. \A l : DenseLevel(l)' = DenseLevel(l)
    BY <2>1, SameDenseLevel
  <2>6. BitmapInv'
    BY <2>1, <2>5 DEF DenseInv, BitmapInv
  <2>7. QED
    BY <1>1, <2>2, <2>3, <2>4, <2>6 DEF DenseInv
<1>8. QED
  BY <1>2, <1>3, <1>4, <1>5, <1>6, <1>7 DEF Next, Terminated

-------------------------------------------------------------------------------
(* What the bitmaps hold *)

(* The loop of buildDense numbers the nodes as the trie counts them, from 0. *)
LEMMA NodesNumbered ==
  ASSUME LoudsInv, FirstInv, NEW l \in Levels, l < height,
         NEW p \in 0 .. GetNumItems(l) - 1
  PROVE  NodeNum(l, p) \in 0 .. node_counts[l] - 1 /\ NodeOf(l, p) = NodeNum(l, p)
<1> DEFINE later == {q \in louds_bits[l] : 1 <= q /\ q <= p}
<1>1. /\ louds_bits[l] \in SUBSET (0 .. GetNumItems(l) - 1) /\ GetNumItems(l) \in Nat
      /\ node_counts[l] = Cardinality(louds_bits[l]) /\ 0 \in louds_bits[l]
  BY LevelCounts DEF LoudsInv, LoudsAligned, FirstInv
<1>2. IsFiniteSet(louds_bits[l]) /\ Cardinality(louds_bits[l]) \in Nat
  BY <1>1, CountBits
<1>3. /\ later \subseteq louds_bits[l] /\ 0 \notin later
      /\ later \cup {0} \subseteq louds_bits[l]
      /\ {q \in louds_bits[l] : q <= p} = later \cup {0}
  BY <1>1
<1>4. IsFiniteSet(later) /\ Cardinality(later) \in Nat
  BY <1>2, <1>3, FS_Subset, FS_CardinalityType
<1>5. Cardinality(later \cup {0}) = Cardinality(later) + 1
  BY <1>3, <1>4, FS_AddElement
<1>6. Cardinality(later \cup {0}) <= Cardinality(louds_bits[l])
  BY <1>2, <1>3, FS_Subset
<1>7. NodeNum(l, p) = Cardinality(later) /\ NodeOf(l, p) = Cardinality(later \cup {0}) - 1
  BY <1>3 DEF NodeNum, NodeOf
<1> HIDE DEF later
<1>8. QED
  BY <1>1, <1>2, <1>4, <1>5, <1>6, <1>7

(* Two items with one node number are in one node. *)
LEMMA SameNumberSameNode ==
  ASSUME LoudsInv, NEW l \in Levels, NEW p \in Nat, NEW r \in Nat, p < r,
         NodeNum(l, p) = NodeNum(l, r)
  PROVE  SameNode(l, p + 1, r + 1)
<1> DEFINE below(n) == {q \in louds_bits[l] : 1 <= q /\ q <= n}
<1> SUFFICES ASSUME NEW q \in louds_bits[l], p + 1 <= q, q < r + 1
             PROVE  FALSE
  BY DEF SameNode
<1>1. louds_bits[l] \in SUBSET (0 .. GetNumItems(l) - 1) /\ GetNumItems(l) \in Nat
  BY LevelCounts
<1>2. IsFiniteSet(louds_bits[l]) /\ q \in Nat
  BY <1>1, CountBits
<1>3. /\ below(p) \subseteq below(r) /\ q \in below(r) /\ q \notin below(p)
      /\ below(r) \subseteq louds_bits[l]
  BY <1>1, <1>2
<1>4. IsFiniteSet(below(r)) /\ Cardinality(below(r)) \in Nat
  BY <1>2, <1>3, FS_Subset, FS_CardinalityType
<1>5. below(p) = below(r)
  <2>1. Cardinality(below(p)) = Cardinality(below(r))
    BY DEF NodeNum
  <2>2. QED
    BY <1>3, <1>4, <2>1, FS_Subset
<1>6. QED
  BY <1>3, <1>5

(* No label is taken for the terminator of a node: the greatest label is the
   last of its node, and alone in a node it would be a leaf without sibling. *)
LEMMA NoneMarked ==
  ASSUME NoTerminatorAlone, DenseInv, pc \in {"dense", "done"},
         NEW l \in Levels, l < height, NEW p \in 0 .. GetNumItems(l) - 1
  PROVE  ~MarksPrefixKey(l, p)
<1> SUFFICES ASSUME MarksPrefixKey(l, p) PROVE FALSE
  OBVIOUS
<1>1. /\ LoudsInv /\ TypeInv /\ FirstInv /\ input \in Inputs /\ Ascending(l)
      /\ ConstantsAssumption
  BY ConstantsAssumption DEF DenseInv, SortedInv, LoudsInv, TypeInv, StructInv
<1>2. /\ labels[l] \in Seq(Label) /\ GetNumItems(l) = Len(labels[l])
      /\ GetNumItems(l) \in Nat
      /\ louds_bits[l] \in SUBSET (0 .. GetNumItems(l) - 1)
  BY <1>1, LevelCounts
<1>3. p \in louds_bits[l] /\ labels[l][p + 1] = Terminator /\ p \notin child_indicator_bits[l]
  BY <1>1 DEF MarksPrefixKey, IsTerminator, FirstInv
<1>4. LonelyLeaf(l, p)
  <2> SUFFICES ASSUME p + 1 < GetNumItems(l), p + 1 \notin louds_bits[l] PROVE FALSE
    BY <1>3 DEF LonelyLeaf
  <2>1. SameNode(l, p + 1, p + 2)
    BY <1>2 DEF SameNode
  <2>2. p + 1 \in 1 .. GetNumItems(l) /\ p + 2 \in 1 .. GetNumItems(l)
    BY <1>2
  <2>3. labels[l][p + 1] < labels[l][p + 2]
    BY <1>1, <2>1, <2>2 DEF Ascending
  <2>4. labels[l][p + 2] \in Label
    BY <1>2, <2>2
  <2>5. QED
    BY <1>1, <1>3, <2>3, <2>4 DEF Label, Terminator, ConstantsAssumption
<1>5. l = 0 /\ AllKeysEqual
  BY <1>3, <1>4 DEF DenseInv, LeafInv, Joins
<1>6. p = 0
  <2>1. Cardinality(louds_bits[0]) = 1 /\ 0 \in louds_bits[0]
    BY <1>1, <1>5 DEF LoudsInv, LoudsAligned, FirstInv
  <2>2. IsFiniteSet(louds_bits[0])
    BY <1>2, <1>5, CountBits
  <2>3. \E x : louds_bits[0] = {x}
    BY <2>1, <2>2, FS_Singleton
  <2>4. QED
    BY <1>3, <1>5, <2>1, <2>3
<1>7. LabelOf(input.keys[1], 0) = Terminator
  BY <1>1, <1>3, <1>5, <1>6 DEF FirstInv
<1>8. OnlyTerminator(input)
  <2>1. input.skip_prefix \in Nat
    BY <1>1, InputFacts
  <2>2. QED
    BY <1>5, <1>7, <2>1 DEF OnlyTerminator, AllKeysEqual, NumKeys, LabelOf
<1>9. QED
  BY <1>1, <1>8 DEF NoTerminatorAlone

(* Every label has its own bit, from which its node and itself can be told. *)
LEMMA BitmapPosExact ==
  ASSUME DenseInv, NEW l \in Levels, l < height, node_counts[l] * Fanout <= PositionRange,
         NEW p \in 0 .. GetNumItems(l) - 1
  PROVE  /\ BitmapPos(l, p) = NodeNum(l, p) * Fanout + labels[l][p + 1]
         /\ BitmapPos(l, p) \in 0 .. node_counts[l] * Fanout - 1
         /\ BitmapPos(l, p) \div Fanout = NodeOf(l, p)
         /\ BitmapPos(l, p) % Fanout = labels[l][p + 1]
<1>1. /\ LoudsInv /\ FirstInv /\ Fanout \in Nat \ {0} /\ PositionRange \in Nat \ {0}
      /\ node_counts[l] \in Nat
  BY ConstantsAssumption DEF DenseInv, SortedInv, LoudsInv, TypeInv, TypeOK
<1>2. labels[l][p + 1] \in 0 .. Fanout - 1
  <2>1. labels[l] \in Seq(Label) /\ GetNumItems(l) = Len(labels[l]) /\ GetNumItems(l) \in Nat
    BY <1>1, LevelCounts
  <2>2. p + 1 \in 1 .. Len(labels[l])
    BY <2>1
  <2>3. labels[l][p + 1] \in Label
    BY <2>1, <2>2
  <2>4. QED
    BY <2>3 DEF Label
<1>3. NodeNum(l, p) \in 0 .. node_counts[l] - 1 /\ NodeOf(l, p) = NodeNum(l, p)
  BY <1>1, NodesNumbered
<1>4. NodeNum(l, p) * Fanout + labels[l][p + 1] \in 0 .. node_counts[l] * Fanout - 1
  BY <1>1, <1>2, <1>3, InsideNodes
<1>5. NodeNum(l, p) * Fanout + labels[l][p + 1] \in 0 .. PositionRange - 1
  <2>1. node_counts[l] * Fanout <= PositionRange /\ node_counts[l] * Fanout \in Nat
    BY <1>1
  <2>2. QED
    BY <1>1, <1>4, <2>1
<1>6. BitmapPos(l, p) = NodeNum(l, p) * Fanout + labels[l][p + 1]
  BY <1>1, <1>5, NotWrapped DEF BitmapPos
<1>7. NodeNum(l, p) \in Nat
  BY <1>3
<1>8. /\ (NodeNum(l, p) * Fanout + labels[l][p + 1]) \div Fanout = NodeNum(l, p)
      /\ (NodeNum(l, p) * Fanout + labels[l][p + 1]) % Fanout = labels[l][p + 1]
  BY <1>1, <1>2, <1>7, DivideBack
<1>9. QED
  BY <1>3, <1>4, <1>6, <1>8

(* The bits of a level are in the order of its labels. *)
LEMMA BitmapPosIncreasing ==
  ASSUME DenseInv, NEW l \in Levels, l < height, node_counts[l] * Fanout <= PositionRange,
         NEW p \in 0 .. GetNumItems(l) - 1, NEW r \in 0 .. GetNumItems(l) - 1,
         p < r
  PROVE  BitmapPos(l, p) < BitmapPos(l, r)
<1>1. /\ LoudsInv /\ FirstInv /\ Ascending(l)
      /\ labels[l] \in Seq(Label) /\ GetNumItems(l) = Len(labels[l])
      /\ GetNumItems(l) \in Nat
  BY LevelCounts DEF DenseInv, SortedInv
<1>2. /\ BitmapPos(l, p) = NodeNum(l, p) * Fanout + labels[l][p + 1]
      /\ BitmapPos(l, r) = NodeNum(l, r) * Fanout + labels[l][r + 1]
  BY BitmapPosExact
<1>3. /\ p + 1 \in 1 .. Len(labels[l]) /\ r + 1 \in 1 .. Len(labels[l]) /\ p + 1 < r + 1
  BY <1>1
<1>4. /\ labels[l][p + 1] \in 0 .. Fanout - 1 /\ labels[l][r + 1] \in 0 .. Fanout - 1
      /\ Fanout \in Nat \ {0} /\ NodeNum(l, p) \in Nat /\ NodeNum(l, r) \in Nat
  <2>1. labels[l][p + 1] \in Label /\ labels[l][r + 1] \in Label
    BY <1>1, <1>3
  <2>2. NodeNum(l, p) \in 0 .. node_counts[l] - 1 /\ NodeNum(l, r) \in 0 .. node_counts[l] - 1
    BY <1>1, NodesNumbered
  <2>3. QED
    BY <2>1, <2>2, ConstantsAssumption DEF Label
<1>5. CASE NodeNum(l, p) = NodeNum(l, r)
  <2>1. SameNode(l, p + 1, r + 1)
    BY <1>1, <1>5, SameNumberSameNode
  <2>2. labels[l][p + 1] < labels[l][r + 1]
    BY <1>1, <1>3, <2>1 DEF Ascending
  <2>3. NodeNum(l, p) * Fanout \in Int
    BY <1>4
  <2>4. QED
    BY <1>2, <1>4, <1>5, <2>2, <2>3
<1>6. CASE NodeNum(l, p) # NodeNum(l, r)
  <2>1. NodeNum(l, p) <= NodeNum(l, r)
    <3> DEFINE below(n) == {q \in louds_bits[l] : 1 <= q /\ q <= n}
    <3>1. louds_bits[l] \in SUBSET (0 .. GetNumItems(l) - 1)
      BY <1>1, LevelCounts
    <3>5. IsFiniteSet(louds_bits[l])
      BY <1>1, <3>1, CountBits
    <3>2. below(p) \subseteq below(r) /\ below(r) \subseteq louds_bits[l]
      BY <1>1, <3>1
    <3>3. Cardinality(below(p)) <= Cardinality(below(r))
      BY <3>5, <3>2, FS_Subset
    <3>4. QED
      BY <3>3 DEF NodeNum
  <2>2. NodeNum(l, p) + 1 <= NodeNum(l, r)
    BY <1>4, <1>6, <2>1
  <2>3. (NodeNum(l, p) + 1) * Fanout <= NodeNum(l, r) * Fanout
    BY <1>4, <2>2, TimesMonotone
  <2>4. (NodeNum(l, p) + 1) * Fanout = NodeNum(l, p) * Fanout + Fanout
        /\ NodeNum(l, p) * Fanout \in Int /\ NodeNum(l, r) * Fanout \in Int
    BY <1>4
  <2>5. QED
    BY <1>2, <1>4, <2>3, <2>4
<1>7. QED
  BY <1>5, <1>6

LEMMA MirrorsFromInvariant ==
  ASSUME NoTerminatorAlone, PositionsFit, DenseInv
  PROVE  DenseMirrorsSparse
<1>1. /\ BitmapInv /\ LoudsInv /\ height \in Nat /\ height <= MaxLevel + 1
      /\ MaxLevel \in Nat /\ Len(dense) \in Nat
  BY ConstantsAssumption DEF DenseInv, SortedInv, LoudsInv, TypeInv, TypeOK
<1> SUFFICES
      ASSUME NEW l \in 0 .. Len(dense) - 1
      PROVE  LET bitmap == dense[l + 1]
                 items  == {<<NodeOf(l, p), labels[l][p + 1], p \in child_indicator_bits[l]>> :
                              p \in 0 .. GetNumItems(l) - 1}
             IN  /\ bitmap.labels \subseteq 0 .. node_counts[l] * Fanout - 1
                 /\ {<<b \div Fanout, b % Fanout, b \in bitmap.children>> :
                       b \in bitmap.labels} = items
                 /\ bitmap.prefixkey = {}
  BY DEF DenseMirrorsSparse
<1>2. /\ l \in Levels /\ l < height /\ dense[l + 1] = DenseLevel(l)
      /\ pc \in {"dense", "done"}
  <2>1. l \in Levels /\ l < height /\ l < Len(dense)
    BY <1>1 DEF BitmapInv, Levels
  <2>2. dense # << >>
    BY <1>1
  <2>3. QED
    BY <1>1, <2>1, <2>2 DEF BitmapInv
<1> DEFINE positions == 0 .. GetNumItems(l) - 1
           pos(p)    == BitmapPos(l, p)
           bits      == {pos(p) : p \in positions}
           children  == {pos(p) : p \in positions \cap child_indicator_bits[l]}
<1>3. /\ dense[l + 1].labels = bits /\ dense[l + 1].children = children
      /\ dense[l + 1].prefixkey = {}
  <2>1. \A p \in positions : ~MarksPrefixKey(l, p)
    BY <1>2, NoneMarked
  <2>2. {p \in positions : ~MarksPrefixKey(l, p)} = positions
    BY <2>1
  <2>3. QED
    BY <1>2, <2>2 DEF DenseLevel
<1>4. \A p \in positions : /\ pos(p) \in 0 .. node_counts[l] * Fanout - 1
                           /\ pos(p) \div Fanout = NodeOf(l, p)
                           /\ pos(p) % Fanout = labels[l][p + 1]
  BY <1>2, BitmapPosExact DEF PositionsFit
<1>5. \A p, r \in positions : pos(p) = pos(r) => p = r
  <2>1. \A p, r \in positions : p < r => pos(p) # pos(r)
    <3> SUFFICES ASSUME NEW p \in positions, NEW r \in positions, p < r
                 PROVE  pos(p) # pos(r)
      OBVIOUS
    <3>1. pos(p) \in Int /\ pos(r) \in Int
      BY <1>4
    <3>2. pos(p) < pos(r)
      BY <1>2, BitmapPosIncreasing DEF PositionsFit
    <3>3. QED
      BY <3>1, <3>2
  <2>2. \A p, r \in positions : p = r \/ p < r \/ r < p
    OBVIOUS
  <2> HIDE DEF positions, pos
  <2>3. QED
    BY <2>1, <2>2
<1> HIDE DEF positions, pos
<1>6. \A p \in positions : (pos(p) \in children) = (p \in child_indicator_bits[l])
  BY <1>5
<1>7. \A p \in positions :
        <<pos(p) \div Fanout, pos(p) % Fanout, pos(p) \in children>>
          = <<NodeOf(l, p), labels[l][p + 1], p \in child_indicator_bits[l]>>
  <2> SUFFICES ASSUME NEW p \in positions
               PROVE  <<pos(p) \div Fanout, pos(p) % Fanout, pos(p) \in children>>
                        = <<NodeOf(l, p), labels[l][p + 1], p \in child_indicator_bits[l]>>
    OBVIOUS
  <2>1. (pos(p) \in children) = (p \in child_indicator_bits[l])
    BY <1>6
  <2>2. pos(p) \div Fanout = NodeOf(l, p) /\ pos(p) % Fanout = labels[l][p + 1]
    BY <1>4
  <2> HIDE DEF children
  <2>3. QED
    BY <2>1, <2>2, Zenon
<1> HIDE DEF children
<1>8. {<<b \div Fanout, b % Fanout, b \in children>> : b \in bits}
        = {<<NodeOf(l, p), labels[l][p + 1], p \in child_indicator_bits[l]>> : p \in positions}
  BY <1>7, Zenon
<1>9. bits \subseteq 0 .. node_counts[l] * Fanout - 1
  BY <1>4
<1>10. QED
  BY <1>3, <1>8, <1>9, Zenon DEF positions

-------------------------------------------------------------------------------
(* Results *)

(* In every build from sorted keys of which none is a prefix of another, and
   not all of which are equal and begin with the greatest label, the bitmaps
   of buildDense hold exactly the nodes, labels and children of the levels
   they replace, as long as their positions fit a position_t. *)
THEOREM BitmapsMirrorVectors ==
  ASSUME SortedInputs, NoTerminatorAlone
  PROVE  Spec => [](PositionsFit => DenseMirrorsSparse)
<1>1. Init => DenseInv
  BY DenseInit
<1>2. DenseInv /\ [Next]_vars => DenseInv'
  BY DenseStep
<1>3. DenseInv => (PositionsFit => DenseMirrorsSparse)
  BY MirrorsFromInvariant
<1>4. QED
  BY <1>1, <1>2, <1>3, PTL DEF Spec

-------------------------------------------------------------------------------
(* Counting positions *)

Below(S, r) == {s \in S : s < r}
UpTo(S, q) == {s \in S : s <= q}

(* The number of elements below it tells an element of a set. *)
LEMMA BelowTells ==
  ASSUME NEW n \in Nat, NEW S \in SUBSET (0 .. n - 1), NEW r \in S, NEW t \in S,
         Cardinality(Below(S, r)) = Cardinality(Below(S, t))
  PROVE  r = t
<1>1. IsFiniteSet(S) /\ \A s \in S : s \in Nat
  <2>1. IsFiniteSet(S)
    BY CountBits
  <2>2. QED
    BY <2>1
<1>2. ASSUME NEW a \in S, NEW b \in S, a < b
      PROVE  Cardinality(Below(S, a)) # Cardinality(Below(S, b))
  <2>1. /\ Below(S, a) \subseteq Below(S, b)
        /\ a \in Below(S, b) /\ a \notin Below(S, a)
    <3>1. \A s \in S : s < a => s < b
      BY <1>1, <1>2
    <3>2. ~(a < a)
      BY <1>1
    <3>3. QED
      BY <1>2, <3>1, <3>2, Zenon DEF Below
  <2>2. IsFiniteSet(Below(S, b))
    <3>1. Below(S, b) \subseteq S
      BY DEF Below
    <3>2. QED
      BY <1>1, <3>1, FS_Subset
  <2>3. QED
    BY <2>1, <2>2, FS_Subset
<1>3. r = t \/ r < t \/ t < r
  BY <1>1
<1>4. QED
  BY <1>2, <1>3

(* Every number of elements is the number of those below an element. *)
LEMMA BelowExists ==
  ASSUME NEW n \in Nat, NEW S \in SUBSET (0 .. n - 1), NEW k \in 0 .. Cardinality(S) - 1
  PROVE  \E r \in S : Cardinality(Below(S, r)) = k
<1> DEFINE count(i) == Cardinality(Below(S, i))
           T == {i \in Nat : count(i) > k}
<1>1. /\ IsFiniteSet(S) /\ Cardinality(S) \in Nat /\ \A s \in S : s \in 0 .. n - 1
      /\ k \in Nat
  <2>1. IsFiniteSet(S) /\ Cardinality(S) \in Nat
    BY CountBits
  <2>2. QED
    BY <2>1
<1>2. \A i : IsFiniteSet(Below(S, i)) /\ count(i) \in Nat
  <2> SUFFICES ASSUME NEW i PROVE IsFiniteSet(Below(S, i)) /\ count(i) \in Nat
    OBVIOUS
  <2>1. Below(S, i) \subseteq S
    BY DEF Below
  <2>2. IsFiniteSet(Below(S, i))
    BY <1>1, <2>1, FS_Subset
  <2>3. QED
    BY <2>2, FS_CardinalityType
<1>3. n \in T
  <2>1. Below(S, n) = S
    <3>1. \A s \in S : s < n
      BY <1>1
    <3>2. QED
      BY <3>1, Zenon DEF Below
  <2>2. QED
    BY <1>1, <2>1
<1>4. count(0) = 0
  <2>1. Below(S, 0) = {}
    <3>1. \A s \in S : ~(s < 0)
      BY <1>1
    <3>2. QED
      BY <3>1, Zenon DEF Below
  <2>2. QED
    BY <2>1, FS_EmptySet
<1> HIDE DEF count
<1>5. PICK i \in T : \A m \in T : i <= m
  <2>1. T \in SUBSET Nat /\ T # {}
    BY <1>3
  <2> HIDE DEF T
  <2>2. QED
    BY <2>1, LeastNatural
<1>6. i \in Nat /\ i > 0 /\ count(i) > k
  BY <1>1, <1>4, <1>5
<1>7. i - 1 \in Nat /\ i - 1 \notin T
  BY <1>5, <1>6
<1>8. count(i - 1) <= k
  BY <1>1, <1>2, <1>7
<1>9. i - 1 \in S
  <2> SUFFICES ASSUME i - 1 \notin S PROVE FALSE
    OBVIOUS
  <2>1. Below(S, i) = Below(S, i - 1)
    <3>1. \A s \in S : s < i <=> s < i - 1 \/ s = i - 1
      BY <1>1, <1>6
    <3>2. \A s \in S : s < i <=> s < i - 1
      BY <3>1
    <3>3. QED
      BY <3>2, Zenon DEF Below
  <2>2. QED
    BY <1>1, <1>2, <1>6, <1>8, <2>1 DEF count
<1>10. count(i) = count(i - 1) + 1
  <2>1. /\ Below(S, i) = Below(S, i - 1) \cup {i - 1}
        /\ i - 1 \notin Below(S, i - 1)
    <3>1. \A s \in S : s < i <=> s < i - 1 \/ s = i - 1
      BY <1>1, <1>6
    <3>2. ~(i - 1 < i - 1)
      BY <1>6
    <3>3. QED
      BY <1>9, <3>1, <3>2 DEF Below
  <2> DEFINE B == Below(S, i - 1)
             x == i - 1
  <2>2. IsFiniteSet(B)
    BY <1>2
  <2>3. Below(S, i) = B \cup {x} /\ x \notin B
    BY <2>1
  <2> HIDE DEF B, x
  <2>4. Cardinality(B \cup {x}) = Cardinality(B) + 1
    BY <2>2, <2>3, FS_AddElement
  <2>5. QED
    BY <2>3, <2>4 DEF count, B, x
<1>11. count(i - 1) = k
  BY <1>1, <1>2, <1>6, <1>8, <1>10
<1>12. QED
  BY <1>9, <1>11 DEF count

-------------------------------------------------------------------------------
(* The way from the root to an item, for any vectors *)

Positions(lab, l) == 0 .. Len(lab[l]) - 1

ParentOf(louds, child, m, q) ==
  CHOOSE r \in child[m - 1] :
    Cardinality({s \in child[m - 1] : s < r}) = Cardinality({s \in louds[m] : s <= q}) - 1

PathOf(lab, louds, child, l, p) ==
  LET pos[m \in 0 .. l] == IF m = l THEN p ELSE ParentOf(louds, child, m + 1, pos[m + 1])
  IN  [m \in 1 .. l + 1 |-> lab[m - 1][pos[m - 1] + 1]]

(* The n-th child bit of a level leads to the n-th node of the next one. *)
Linked(lab, louds, child, h) ==
  /\ h \in Nat
  /\ \A m \in 0 .. h - 1 :
       /\ Len(lab[m]) \in Nat
       /\ louds[m] \in SUBSET Positions(lab, m)
       /\ child[m] \in SUBSET Positions(lab, m)
       /\ 0 \in louds[m]
  /\ \A m \in 1 .. h - 1 : Cardinality(louds[m]) = Cardinality(child[m - 1])

(* Positions from the root to position p of level l, each that of the child bit
   of the node of the next. *)
IsTrail(louds, child, l, p, pos) ==
  /\ pos \in [0 .. l -> Nat]
  /\ pos[l] = p
  /\ \A m \in 0 .. l - 1 :
       /\ pos[m] \in child[m]
       /\ Cardinality(Below(child[m], pos[m])) = Cardinality(UpTo(louds[m + 1], pos[m + 1])) - 1

(* The node of an item has a parent. *)
LEMMA ParentExists ==
  ASSUME NEW lab, NEW louds, NEW child, NEW h, Linked(lab, louds, child, h),
         NEW m \in 0 .. h - 2, NEW q \in Positions(lab, m + 1)
  PROVE  \E r \in child[m] :
           Cardinality(Below(child[m], r)) = Cardinality(UpTo(louds[m + 1], q)) - 1
<1> DEFINE nodes == louds[m + 1]
           starts == UpTo(nodes, q)
           n == Len(lab[m])
           n1 == Len(lab[m + 1])
<1>1. /\ h \in Nat /\ m \in Nat /\ m \in 0 .. h - 1 /\ m + 1 \in 0 .. h - 1
      /\ m + 1 \in 1 .. h - 1 /\ (m + 1) - 1 = m
  BY DEF Linked
<1>2. /\ n \in Nat /\ n1 \in Nat /\ nodes \in SUBSET (0 .. n1 - 1)
      /\ child[m] \in SUBSET (0 .. n - 1) /\ 0 \in nodes
      /\ Cardinality(nodes) = Cardinality(child[m])
  BY <1>1 DEF Linked, Positions
<1>3. IsFiniteSet(nodes) /\ Cardinality(nodes) \in Nat
  <2> HIDE DEF n1, nodes
  <2>1. QED
    BY <1>2, CountBits
<1>4. starts \subseteq nodes /\ 0 \in starts
  BY <1>2 DEF UpTo, Positions
<1>5. /\ IsFiniteSet(starts) /\ Cardinality(starts) \in Nat
      /\ Cardinality(starts) <= Cardinality(nodes)
  BY <1>3, <1>4, FS_Subset, FS_CardinalityType
<1>6. Cardinality(starts) # 0
  BY <1>4, <1>5, FS_EmptySet
<1>7. Cardinality(starts) - 1 \in 0 .. Cardinality(child[m]) - 1
  BY <1>2, <1>3, <1>5, <1>6
<1> HIDE DEF starts, nodes, n, n1
<1>8. QED
  BY <1>2, <1>7, BelowExists DEF starts, nodes

(* Every item has a trail. *)
LEMMA TrailExists ==
  ASSUME NEW lab, NEW louds, NEW child, NEW h, Linked(lab, louds, child, h),
         NEW l \in 0 .. h - 1, NEW p \in Positions(lab, l)
  PROVE  \E pos : IsTrail(louds, child, l, p, pos)
<1> DEFINE S == {m \in 0 .. h - 1 :
                   \A q \in Positions(lab, m) : \E pos : IsTrail(louds, child, m, q, pos)}
<1>1. h \in Nat /\ h - 1 \in Nat /\ \A m \in 0 .. h - 1 : \A q \in Positions(lab, m) : q \in Nat
  BY DEF Linked, Positions
<1>2. 0 \in S
  <2> SUFFICES ASSUME NEW q \in Positions(lab, 0)
               PROVE  \E pos : IsTrail(louds, child, 0, q, pos)
    BY <1>1
  <2> DEFINE pos == [m \in 0 .. 0 |-> q]
  <2>1. pos \in [0 .. 0 -> Nat] /\ pos[0] = q
    BY <1>1
  <2>2. \A m : m \notin 0 .. 0 - 1
    OBVIOUS
  <2> HIDE DEF pos
  <2>3. QED
    BY <2>1, <2>2 DEF IsTrail
<1>3. ASSUME NEW m \in 0 .. (h - 1) - 1, m \in S
      PROVE  m + 1 \in S
  <2>1. m + 1 \in 0 .. h - 1 /\ m \in 0 .. h - 2 /\ m \in 0 .. h - 1 /\ m \in Nat
    BY <1>1
  <2> SUFFICES ASSUME NEW q \in Positions(lab, m + 1)
               PROVE  \E pos : IsTrail(louds, child, m + 1, q, pos)
    BY <2>1
  <2>2. PICK r \in child[m] :
          Cardinality(Below(child[m], r)) = Cardinality(UpTo(louds[m + 1], q)) - 1
    BY <2>1, ParentExists
  <2>3. r \in Positions(lab, m) /\ q \in Nat
    BY <1>1, <2>1, <2>2 DEF Linked
  <2>4. PICK above : IsTrail(louds, child, m, r, above)
    BY <1>3, <2>3
  <2> DEFINE pos == [i \in 0 .. m + 1 |-> IF i = m + 1 THEN q ELSE above[i]]
  <2>5. /\ pos \in [0 .. m + 1 -> Nat] /\ pos[m + 1] = q
        /\ \A i \in 0 .. m : pos[i] = above[i]
    <3>1. above \in [0 .. m -> Nat]
      BY <2>4 DEF IsTrail
    <3>2. \A i \in 0 .. m + 1 : i # m + 1 => i \in 0 .. m
      BY <2>1
    <3>3. \A i \in 0 .. m : i \in 0 .. m + 1 /\ i # m + 1
      BY <2>1
    <3>4. m + 1 \in 0 .. m + 1
      BY <2>1
    <3>5. QED
      BY <2>3, <3>1, <3>2, <3>3, <3>4
  <2> HIDE DEF pos
  <2>6. ASSUME NEW i \in 0 .. (m + 1) - 1
        PROVE  /\ pos[i] \in child[i]
               /\ Cardinality(Below(child[i], pos[i]))
                    = Cardinality(UpTo(louds[i + 1], pos[i + 1])) - 1
    <3>1. CASE i = m
      <4>1. pos[i] = r /\ pos[i + 1] = q
        BY <2>1, <2>4, <2>5, <3>1 DEF IsTrail
      <4>2. QED
        BY <2>2, <3>1, <4>1
    <3>2. CASE i # m
      <4>1. i \in 0 .. m - 1 /\ i \in 0 .. m /\ i + 1 \in 0 .. m
        BY <2>1, <3>2
      <4>2. pos[i] = above[i] /\ pos[i + 1] = above[i + 1]
        BY <2>5, <4>1
      <4>3. QED
        BY <2>4, <4>1, <4>2 DEF IsTrail
    <3>3. QED
      BY <3>1, <3>2
  <2>7. IsTrail(louds, child, m + 1, q, pos)
    BY <2>5, <2>6 DEF IsTrail
  <2>8. QED
    BY <2>7
<1>4. l \in S
  <2> HIDE DEF S
  <2>1. \A m \in 0 .. h - 1 : m \in S
    BY <1>1, <1>2, <1>3, UpToInduct
  <2>2. QED
    BY <2>1
<1>5. QED
  BY <1>4

(* The path to an item is the one along its trail. *)
LEMMA PathAlongTrail ==
  ASSUME NEW lab, NEW louds, NEW child, NEW h, Linked(lab, louds, child, h),
         NEW l \in 0 .. h - 1, NEW p, NEW pos, IsTrail(louds, child, l, p, pos)
  PROVE  PathOf(lab, louds, child, l, p) = [m \in 1 .. l + 1 |-> lab[m - 1][pos[m - 1] + 1]]
<1> DEFINE g == CHOOSE f : f = [m \in 0 .. l |->
                  IF m = l THEN p ELSE ParentOf(louds, child, m + 1, f[m + 1])]
<1>1. PathOf(lab, louds, child, l, p) = [m \in 1 .. l + 1 |-> lab[m - 1][g[m - 1] + 1]]
  BY DEF PathOf
<1>2. h \in Nat /\ l \in Nat /\ l - 0 = l /\ \A m \in 0 .. l - 1 : m \in 0 .. h - 1
  BY DEF Linked
<1>3. ASSUME NEW m \in 0 .. l - 1
      PROVE  ParentOf(louds, child, m + 1, pos[m + 1]) = pos[m]
  <2> DEFINE C == child[m]
             n == Len(lab[m])
             k == Cardinality(UpTo(louds[m + 1], pos[m + 1])) - 1
  <2>1. n \in Nat /\ C \in SUBSET (0 .. n - 1)
    BY <1>2 DEF Linked, Positions
  <2>2. pos[m] \in C /\ Cardinality(Below(C, pos[m])) = k
    BY DEF IsTrail
  <2>3. ParentOf(louds, child, m + 1, pos[m + 1])
          = CHOOSE r \in C : Cardinality(Below(C, r)) = k
    <3>1. (m + 1) - 1 = m
      BY <1>2
    <3>2. QED
      BY <3>1 DEF ParentOf, Below, UpTo
  <2> HIDE DEF C, n, k
  <2>4. \A r \in C : Cardinality(Below(C, r)) = k => r = pos[m]
    BY <2>1, <2>2, BelowTells
  <2>5. QED
    BY <2>2, <2>3, <2>4
<1>4. pos = [m \in 0 .. l |-> IF m = l THEN p ELSE ParentOf(louds, child, m + 1, pos[m + 1])]
  <2>1. pos \in [0 .. l -> Nat] /\ pos[l] = p
    BY DEF IsTrail
  <2>2. \A m \in 0 .. l : m # l => m \in 0 .. l - 1
    BY <1>2
  <2>3. \A m \in 0 .. l :
          pos[m] = IF m = l THEN p ELSE ParentOf(louds, child, m + 1, pos[m + 1])
    BY <1>3, <2>1, <2>2
  <2>4. QED
    BY <2>1, <2>3
<1>5. g = [m \in 0 .. l |-> IF m = l THEN p ELSE ParentOf(louds, child, m + 1, g[m + 1])]
  BY <1>4
<1> HIDE DEF g
<1> DEFINE S == {i \in 0 .. l : g[l - i] = pos[l - i]}
<1>6. 0 \in S
  <2>1. g[l] = p
    BY <1>2, <1>5
  <2>2. QED
    BY <1>2, <2>1 DEF IsTrail
<1>7. ASSUME NEW i \in 0 .. l - 1, i \in S
      PROVE  i + 1 \in S
  <2> DEFINE m == l - (i + 1)
  <2>1. m \in 0 .. l - 1 /\ m \in 0 .. l /\ m # l /\ m + 1 = l - i /\ i + 1 \in 0 .. l
    BY <1>2
  <2>2. g[m + 1] = pos[m + 1]
    BY <1>7, <2>1
  <2> HIDE DEF m
  <2>3. g[m] = ParentOf(louds, child, m + 1, g[m + 1])
    BY <1>5, <2>1
  <2>4. g[m] = pos[m]
    BY <1>3, <2>1, <2>2, <2>3
  <2>5. QED
    BY <2>1, <2>4 DEF m
<1>8. \A m \in 0 .. l : g[m] = pos[m]
  <2>1. \A i \in 0 .. l : i \in S
    <3> HIDE DEF S
    <3>1. QED
      BY <1>2, <1>6, <1>7, UpToInduct
  <2>2. ASSUME NEW m \in 0 .. l
        PROVE  g[m] = pos[m]
    <3>1. l - m \in 0 .. l /\ l - (l - m) = m
      BY <1>2
    <3>2. g[l - (l - m)] = pos[l - (l - m)]
      BY <2>1, <3>1
    <3>3. QED
      BY <3>1, <3>2
  <2>3. QED
    BY <2>2
<1>9. \A m \in 1 .. l + 1 : m - 1 \in 0 .. l
  BY <1>2
<1>10. [m \in 1 .. l + 1 |-> lab[m - 1][g[m - 1] + 1]]
         = [m \in 1 .. l + 1 |-> lab[m - 1][pos[m - 1] + 1]]
  BY <1>8, <1>9
<1>11. QED
  BY <1>1, <1>10

(* What was appended since has left every older item its node and its parent. *)
Grown(lab, louds, child, lab2, louds2, child2, h) ==
  \A m \in 0 .. h - 1 :
    /\ \A q \in Positions(lab, m) : /\ lab2[m][q + 1] = lab[m][q + 1]
                                    /\ UpTo(louds2[m], q) = UpTo(louds[m], q)
    /\ \A r \in child[m] : r \in child2[m] /\ Below(child2[m], r) = Below(child[m], r)

(* So the paths to the older items stay as they were. *)
LEMMA PathKept ==
  ASSUME NEW lab, NEW louds, NEW child, NEW h, Linked(lab, louds, child, h),
         NEW lab2, NEW louds2, NEW child2, NEW h2, Linked(lab2, louds2, child2, h2),
         h <= h2, Grown(lab, louds, child, lab2, louds2, child2, h),
         NEW l \in 0 .. h - 1, NEW p \in Positions(lab, l)
  PROVE  PathOf(lab2, louds2, child2, l, p) = PathOf(lab, louds, child, l, p)
<1>1. PICK pos : IsTrail(louds, child, l, p, pos)
  BY TrailExists
<1>2. h \in Nat /\ h2 \in Nat /\ l \in Nat /\ l \in 0 .. h2 - 1
  BY DEF Linked
<1>3. \A m \in 0 .. l : m \in 0 .. h - 1 /\ pos[m] \in Positions(lab, m)
  <2> SUFFICES ASSUME NEW m \in 0 .. l PROVE m \in 0 .. h - 1 /\ pos[m] \in Positions(lab, m)
    OBVIOUS
  <2>1. m \in 0 .. h - 1
    BY <1>2
  <2>2. CASE m = l
    BY <1>1, <2>1, <2>2 DEF IsTrail
  <2>3. CASE m # l
    <3>1. m \in 0 .. l - 1
      BY <1>2, <2>3
    <3>2. pos[m] \in child[m]
      BY <1>1, <3>1 DEF IsTrail
    <3>3. QED
      BY <2>1, <3>2 DEF Linked
  <2>4. QED
    BY <2>2, <2>3
<1>4. IsTrail(louds2, child2, l, p, pos)
  <2>1. ASSUME NEW m \in 0 .. l - 1
        PROVE  /\ pos[m] \in child2[m]
               /\ Cardinality(Below(child2[m], pos[m]))
                    = Cardinality(UpTo(louds2[m + 1], pos[m + 1])) - 1
    <3>1. m \in 0 .. l /\ m + 1 \in 0 .. l
      BY <1>2
    <3>2. /\ m \in 0 .. h - 1 /\ m + 1 \in 0 .. h - 1
          /\ pos[m + 1] \in Positions(lab, m + 1)
      BY <1>3, <3>1
    <3>3. /\ pos[m] \in child[m]
          /\ Cardinality(Below(child[m], pos[m]))
               = Cardinality(UpTo(louds[m + 1], pos[m + 1])) - 1
      BY <1>1 DEF IsTrail
    <3>4. pos[m] \in child2[m] /\ Below(child2[m], pos[m]) = Below(child[m], pos[m])
      BY <3>2, <3>3 DEF Grown
    <3>5. UpTo(louds2[m + 1], pos[m + 1]) = UpTo(louds[m + 1], pos[m + 1])
      BY <3>2 DEF Grown
    <3>6. QED
      BY <3>3, <3>4, <3>5
  <2>2. QED
    BY <1>1, <2>1 DEF IsTrail
<1>5. \A m \in 1 .. l + 1 : lab2[m - 1][pos[m - 1] + 1] = lab[m - 1][pos[m - 1] + 1]
  <2>1. \A m \in 1 .. l + 1 : m - 1 \in 0 .. l
    BY <1>2
  <2>2. QED
    BY <1>3, <2>1 DEF Grown
<1>6. /\ PathOf(lab2, louds2, child2, l, p) = [m \in 1 .. l + 1 |-> lab2[m - 1][pos[m - 1] + 1]]
      /\ PathOf(lab, louds, child, l, p) = [m \in 1 .. l + 1 |-> lab[m - 1][pos[m - 1] + 1]]
  BY <1>1, <1>2, <1>4, PathAlongTrail
<1>7. QED
  BY <1>5, <1>6

-------------------------------------------------------------------------------
(* The entries, for any vectors and values *)

LeavesOf(lab, child, l) == Positions(lab, l) \ child[l]

RankOf(lab, child, l, p) == Cardinality({q \in LeavesOf(lab, child, l) : q <= p})

(* The leaves that have a value. *)
ValuedOf(lab, child, vals, l) ==
  {q \in LeavesOf(lab, child, l) : RankOf(lab, child, l, q) <= Len(vals[l])}

EntryOf(lab, louds, child, vals, l, p) ==
  <<PathOf(lab, louds, child, l, p), vals[l][RankOf(lab, child, l, p)]>>

EntriesIn(lab, louds, child, vals, h) ==
  UNION {{EntryOf(lab, louds, child, vals, l, p) : p \in ValuedOf(lab, child, vals, l)} :
           l \in 0 .. h - 1}

(* Items are put behind those of a level, and child bits are set at the end. *)
Appended(lab, louds, child, lab2, louds2, child2, h) ==
  \A m \in 0 .. h - 1 :
    /\ Len(lab[m]) <= Len(lab2[m])
    /\ \A q \in Positions(lab, m) : lab2[m][q + 1] = lab[m][q + 1]
    /\ louds[m] \subseteq louds2[m]
    /\ \A s \in louds2[m] : s \in louds[m] \/ s >= Len(lab[m])
    /\ child[m] \subseteq child2[m]
    /\ \A s \in child2[m] : s \in child[m] \/ s >= Len(lab[m]) - 1

(* An item that is appended makes the vectors grow. *)
LEMMA AppendedGrown ==
  ASSUME NEW lab, NEW louds, NEW child, NEW h, Linked(lab, louds, child, h),
         NEW lab2, NEW louds2, NEW child2, NEW h2, Linked(lab2, louds2, child2, h2),
         h <= h2, Appended(lab, louds, child, lab2, louds2, child2, h)
  PROVE  Grown(lab, louds, child, lab2, louds2, child2, h)
<1> SUFFICES ASSUME NEW m \in 0 .. h - 1
             PROVE  /\ \A q \in Positions(lab, m) :
                         /\ lab2[m][q + 1] = lab[m][q + 1]
                         /\ UpTo(louds2[m], q) = UpTo(louds[m], q)
                    /\ \A r \in child[m] :
                         r \in child2[m] /\ Below(child2[m], r) = Below(child[m], r)
  BY DEF Grown
<1> DEFINE n == Len(lab[m])
           n2 == Len(lab2[m])
<1>1. h \in Nat /\ h2 \in Nat /\ m \in 0 .. h2 - 1
  BY DEF Linked
<1>2. /\ n \in Nat /\ louds[m] \in SUBSET (0 .. n - 1) /\ child[m] \in SUBSET (0 .. n - 1)
      /\ n2 \in Nat /\ louds2[m] \in SUBSET (0 .. n2 - 1)
      /\ child2[m] \in SUBSET (0 .. n2 - 1) /\ Positions(lab, m) = 0 .. n - 1
  BY <1>1 DEF Linked, Positions
<1>3. /\ \A q \in Positions(lab, m) : lab2[m][q + 1] = lab[m][q + 1]
      /\ louds[m] \subseteq louds2[m]
      /\ \A s \in louds2[m] : s \in louds[m] \/ s >= n
      /\ child[m] \subseteq child2[m]
      /\ \A s \in child2[m] : s \in child[m] \/ s >= n - 1
  BY DEF Appended
<1> HIDE DEF n, n2
<1>4. ASSUME NEW q \in 0 .. n - 1
      PROVE  UpTo(louds2[m], q) = UpTo(louds[m], q)
  <2>1. \A s \in louds2[m] : s <= q => s \in louds[m]
    BY <1>2, <1>3
  <2>2. QED
    BY <1>3, <2>1, Zenon DEF UpTo
<1>5. ASSUME NEW r \in child[m]
      PROVE  Below(child2[m], r) = Below(child[m], r)
  <2>1. \A s \in child2[m] : s < r => s \in child[m]
    BY <1>2, <1>3
  <2>2. QED
    BY <1>3, <2>1, Zenon DEF Below
<1>6. QED
  BY <1>2, <1>3, <1>4, <1>5

(* An older leaf that is a leaf still has the leaves before it that it had. *)
LEMMA RankKept ==
  ASSUME NEW lab, NEW louds, NEW child, NEW h, Linked(lab, louds, child, h),
         NEW lab2, NEW louds2, NEW child2, NEW h2, Linked(lab2, louds2, child2, h2),
         h <= h2, Appended(lab, louds, child, lab2, louds2, child2, h),
         NEW l \in 0 .. h - 1, NEW p \in LeavesOf(lab, child, l), p \notin child2[l]
  PROVE  RankOf(lab2, child2, l, p) = RankOf(lab, child, l, p)
<1> DEFINE n == Len(lab[l])
           n2 == Len(lab2[l])
<1>1. h \in Nat /\ h2 \in Nat /\ l \in 0 .. h2 - 1
  BY DEF Linked
<1>2. /\ n \in Nat /\ n2 \in Nat /\ n <= n2
      /\ Positions(lab, l) = 0 .. n - 1 /\ Positions(lab2, l) = 0 .. n2 - 1
      /\ child[l] \subseteq child2[l] /\ child2[l] \in SUBSET (0 .. n2 - 1)
      /\ \A s \in child2[l] : s \in child[l] \/ s >= n - 1
  BY <1>1 DEF Linked, Positions, Appended
<1>3. p \in 0 .. n - 1 /\ p \notin child[l]
  BY <1>2 DEF LeavesOf
<1> HIDE DEF n, n2
<1>4. \A q : q \in LeavesOf(lab2, child2, l) /\ q <= p
               <=> q \in LeavesOf(lab, child, l) /\ q <= p
  <2> SUFFICES ASSUME NEW q
               PROVE  q \in (0 .. n2 - 1) \ child2[l] /\ q <= p
                        <=> q \in (0 .. n - 1) \ child[l] /\ q <= p
    BY <1>2 DEF LeavesOf
  <2>1. ASSUME q \in (0 .. n2 - 1) \ child2[l], q <= p
        PROVE  q \in (0 .. n - 1) \ child[l]
    BY <1>2, <1>3, <2>1
  <2>2. ASSUME q \in (0 .. n - 1) \ child[l], q <= p
        PROVE  q \in (0 .. n2 - 1) \ child2[l]
    <3>1. q \in 0 .. n2 - 1 /\ q \in Int
      BY <1>2, <2>2
    <3>2. q \notin child2[l]
      <4> SUFFICES ASSUME q \in child2[l] PROVE FALSE
        OBVIOUS
      <4>1. q >= n - 1
        BY <1>2, <2>2
      <4>2. q = p
        BY <1>2, <1>3, <2>2, <4>1
      <4>3. QED
        BY <4>2
    <3>3. QED
      BY <3>1, <3>2
  <2>3. QED
    BY <2>1, <2>2
<1>5. {q \in LeavesOf(lab2, child2, l) : q <= p} = {q \in LeavesOf(lab, child, l) : q <= p}
  BY <1>4, Zenon
<1>6. QED
  BY <1>5 DEF RankOf

(* How many of the n items of a level are its leaves L, and how many leaves there
   are up to one. *)
LeavesCount(n, C, L) ==
  /\ Cardinality(L) = n - Cardinality(C) /\ Cardinality(L) \in Nat
  /\ \A p \in L : /\ Cardinality({q \in L : q <= p}) \in Nat \ {0}
                  /\ Cardinality({q \in L : q <= p}) <= Cardinality(L)
                  /\ p # n - 1 /\ n - 1 \in L =>
                       Cardinality({q \in L : q <= p}) <= Cardinality(L) - 1
  /\ n - 1 \in L => Cardinality({q \in L : q <= n - 1}) = Cardinality(L)

(* Leaves are numbered from 1, in the order of their positions. *)
LEMMA LeafCounts ==
  ASSUME NEW n \in Nat, NEW C \in SUBSET (0 .. n - 1), NEW L, L = (0 .. n - 1) \ C
  PROVE  LeavesCount(n, C, L)
<1>1. IsFiniteSet(0 .. n - 1) /\ Cardinality(0 .. n - 1) = n
  BY FS_Interval
<1>2. IsFiniteSet(L) /\ IsFiniteSet(C) /\ Cardinality(L) \in Nat /\ Cardinality(C) \in Nat
  <2>1. L \subseteq 0 .. n - 1
    OBVIOUS
  <2>2. IsFiniteSet(L) /\ IsFiniteSet(C)
    BY <1>1, <2>1, FS_Subset
  <2>3. QED
    BY <2>2, FS_CardinalityType
<1>3. Cardinality(L) = n - Cardinality(C)
  <2>1. L \cup C = 0 .. n - 1 /\ L \cap C = {}
    OBVIOUS
  <2> DEFINE both == Cardinality(L \cup C)
             shared == Cardinality(L \cap C)
             leaves == Cardinality(L)
             inner == Cardinality(C)
  <2>2. both = leaves + inner - shared
    BY <1>2, FS_Union
  <2>3. both = n
    BY <1>1, <2>1
  <2>4. shared = 0
    BY <2>1, FS_EmptySet
  <2>5. leaves \in Nat /\ inner \in Nat
    BY <1>2
  <2> HIDE DEF both, shared, leaves, inner
  <2>6. leaves = n - inner
    BY <2>2, <2>3, <2>4, <2>5
  <2>7. QED
    BY <2>6 DEF leaves, inner
<1>4. \A p \in L : p \in 0 .. n - 1
  OBVIOUS
<1>5. ASSUME NEW p \in L
      PROVE  /\ Cardinality({q \in L : q <= p}) \in Nat \ {0}
             /\ Cardinality({q \in L : q <= p}) <= Cardinality(L)
             /\ p # n - 1 /\ n - 1 \in L =>
                  Cardinality({q \in L : q <= p}) <= Cardinality(L) - 1
  <2> DEFINE B == {q \in L : q <= p}
  <2>1. B \subseteq L /\ (p # n - 1 => n - 1 \notin B) /\ p \in B
    <3>1. (p # n - 1 => ~(n - 1 <= p)) /\ p <= p
      BY <1>4
    <3>2. QED
      BY <3>1, Zenon
  <2> HIDE DEF B
  <2>2. IsFiniteSet(B) /\ Cardinality(B) \in Nat \ {0} /\ Cardinality(B) <= Cardinality(L)
    <3>1. IsFiniteSet(B) /\ Cardinality(B) \in Nat /\ Cardinality(B) <= Cardinality(L)
      BY <1>2, <2>1, FS_Subset, FS_CardinalityType
    <3>2. Cardinality(B) # 0
      BY <2>1, <3>1, FS_EmptySet
    <3>3. QED
      BY <3>1, <3>2
  <2>3. ASSUME p # n - 1, n - 1 \in L
        PROVE  Cardinality(B) # Cardinality(L)
    <3>1. B # L
      BY <2>1, <2>3
    <3>2. QED
      BY <1>2, <2>1, <3>1, FS_Subset
  <2>4. QED
    BY <1>2, <2>2, <2>3 DEF B
<1>6. ASSUME n - 1 \in L
      PROVE  Cardinality({q \in L : q <= n - 1}) = Cardinality(L)
  <2>1. \A q \in L : q <= n - 1
    BY <1>4
  <2>2. {q \in L : q <= n - 1} = L
    BY <2>1, Zenon
  <2>3. QED
    BY <2>2
<1>7. QED
  BY <1>2, <1>3, <1>5, <1>6, Zenon DEF LeavesCount

(* The entries when no value comes: those of the items that had one. *)
LEMMA SameEntries ==
  ASSUME NEW lab, NEW louds, NEW child, NEW h, NEW vals, Linked(lab, louds, child, h),
         NEW lab2, NEW louds2, NEW child2, NEW h2, Linked(lab2, louds2, child2, h2),
         h <= h2, Appended(lab, louds, child, lab2, louds2, child2, h),
         \A l \in 0 .. h2 - 1 :
           ValuedOf(lab2, child2, vals, l) = IF l < h THEN ValuedOf(lab, child, vals, l) ELSE {}
  PROVE  EntriesIn(lab2, louds2, child2, vals, h2) = EntriesIn(lab, louds, child, vals, h)
<1> DEFINE of(l) == {EntryOf(lab, louds, child, vals, l, p) : p \in ValuedOf(lab, child, vals, l)}
           of2(l) == {EntryOf(lab2, louds2, child2, vals, l, p) :
                        p \in ValuedOf(lab2, child2, vals, l)}
<1>1. h \in Nat /\ h2 \in Nat
  BY DEF Linked
<1>2. ASSUME NEW l \in 0 .. h - 1
      PROVE  of2(l) = of(l)
  <2>1. l \in 0 .. h2 - 1 /\ l < h
    BY <1>1
  <2>2. ValuedOf(lab2, child2, vals, l) = ValuedOf(lab, child, vals, l)
    BY <2>1
  <2>3. ASSUME NEW p \in ValuedOf(lab, child, vals, l)
        PROVE  EntryOf(lab2, louds2, child2, vals, l, p) = EntryOf(lab, louds, child, vals, l, p)
    <3>1. p \in LeavesOf(lab, child, l)
      BY DEF ValuedOf
    <3>2. p \in LeavesOf(lab2, child2, l)
      BY <2>2 DEF ValuedOf
    <3>3. p \notin child2[l]
      BY <3>2 DEF LeavesOf
    <3> HIDE DEF of, of2
    <3>4. PathOf(lab2, louds2, child2, l, p) = PathOf(lab, louds, child, l, p)
      <4>1. p \in Positions(lab, l)
        BY <3>1 DEF LeavesOf
      <4>2. Grown(lab, louds, child, lab2, louds2, child2, h)
        BY AppendedGrown
      <4>3. QED
        BY <4>1, <4>2, PathKept
    <3>5. RankOf(lab2, child2, l, p) = RankOf(lab, child, l, p)
      BY <3>1, <3>3, RankKept
    <3>6. QED
      BY <3>4, <3>5, Zenon DEF EntryOf
  <2>4. QED
    BY <2>2, <2>3, Zenon
<1>3. ASSUME NEW l \in 0 .. h2 - 1, l \notin 0 .. h - 1
      PROVE  of2(l) = {}
  <2>1. ~(l < h)
    BY <1>1, <1>3
  <2>2. ValuedOf(lab2, child2, vals, l) = {}
    BY <2>1
  <2>3. QED
    BY <2>2, Zenon
<1>4. \A l \in 0 .. h - 1 : l \in 0 .. h2 - 1
  BY <1>1
<1>5. /\ EntriesIn(lab, louds, child, vals, h) = UNION {of(l) : l \in 0 .. h - 1}
      /\ EntriesIn(lab2, louds2, child2, vals, h2) = UNION {of2(l) : l \in 0 .. h2 - 1}
  BY DEF EntriesIn
<1> HIDE DEF of, of2
<1>6. UNION {of2(l) : l \in 0 .. h2 - 1} = UNION {of(l) : l \in 0 .. h - 1}
  <2>1. ASSUME NEW e, e \in UNION {of2(l) : l \in 0 .. h2 - 1}
        PROVE  e \in UNION {of(l) : l \in 0 .. h - 1}
    <3>1. PICK l \in 0 .. h2 - 1 : e \in of2(l)
      BY <2>1
    <3>2. l \in 0 .. h - 1 /\ e \in of(l)
      BY <1>2, <1>3, <3>1, Zenon
    <3>3. QED
      BY <3>2
  <2>2. ASSUME NEW e, e \in UNION {of(l) : l \in 0 .. h - 1}
        PROVE  e \in UNION {of2(l) : l \in 0 .. h2 - 1}
    <3>1. PICK l \in 0 .. h - 1 : e \in of(l)
      BY <2>2
    <3>2. l \in 0 .. h2 - 1 /\ e \in of2(l)
      BY <1>2, <1>4, <3>1
    <3>3. QED
      BY <3>2
  <2>3. QED
    BY <2>1, <2>2
<1>7. QED
  BY <1>5, <1>6

(* Of all leaves only that at position p0 of level l0 has got a value. *)
OneMoreValue(lab, child, h, vals, vals2, l0, p0) ==
  /\ \A l \in 0 .. h - 1 :
       /\ l # l0 => /\ vals2[l] = vals[l]
                    /\ ValuedOf(lab, child, vals2, l) = ValuedOf(lab, child, vals, l)
       /\ l = l0 => ValuedOf(lab, child, vals2, l) = ValuedOf(lab, child, vals, l) \cup {p0}
  /\ \A p \in ValuedOf(lab, child, vals, l0) :
       vals2[l0][RankOf(lab, child, l0, p)] = vals[l0][RankOf(lab, child, l0, p)]

(* Its entry comes to the others. *)
LEMMA OneMoreEntry ==
  ASSUME NEW lab, NEW louds, NEW child, NEW h, NEW vals, NEW vals2,
         NEW l0 \in 0 .. h - 1, NEW p0,
         OneMoreValue(lab, child, h, vals, vals2, l0, p0)
  PROVE  EntriesIn(lab, louds, child, vals2, h)
           = EntriesIn(lab, louds, child, vals, h) \cup {EntryOf(lab, louds, child, vals2, l0, p0)}
<1> DEFINE of(l) == {EntryOf(lab, louds, child, vals, l, p) : p \in ValuedOf(lab, child, vals, l)}
           of2(l) == {EntryOf(lab, louds, child, vals2, l, p) :
                        p \in ValuedOf(lab, child, vals2, l)}
           new == EntryOf(lab, louds, child, vals2, l0, p0)
<1>1. ASSUME NEW l \in 0 .. h - 1, l # l0
      PROVE  of2(l) = of(l)
  <2>1. /\ vals2[l] = vals[l]
        /\ ValuedOf(lab, child, vals2, l) = ValuedOf(lab, child, vals, l)
    BY <1>1 DEF OneMoreValue
  <2>2. \A p : EntryOf(lab, louds, child, vals2, l, p) = EntryOf(lab, louds, child, vals, l, p)
    BY <2>1, Zenon DEF EntryOf
  <2>3. QED
    BY <2>1, <2>2, Zenon
<1>2. of2(l0) = of(l0) \cup {new}
  <2>1. ValuedOf(lab, child, vals2, l0) = ValuedOf(lab, child, vals, l0) \cup {p0}
    BY DEF OneMoreValue
  <2>2. \A p \in ValuedOf(lab, child, vals, l0) :
          EntryOf(lab, louds, child, vals2, l0, p) = EntryOf(lab, louds, child, vals, l0, p)
    BY Zenon DEF EntryOf, OneMoreValue
  <2>3. QED
    BY <2>1, <2>2, Zenon
<1>3. /\ EntriesIn(lab, louds, child, vals, h) = UNION {of(l) : l \in 0 .. h - 1}
      /\ EntriesIn(lab, louds, child, vals2, h) = UNION {of2(l) : l \in 0 .. h - 1}
  BY DEF EntriesIn
<1> HIDE DEF of, of2, new
<1>4. UNION {of2(l) : l \in 0 .. h - 1} = (UNION {of(l) : l \in 0 .. h - 1}) \cup {new}
  <2>1. ASSUME NEW e, e \in UNION {of2(l) : l \in 0 .. h - 1}
        PROVE  e \in (UNION {of(l) : l \in 0 .. h - 1}) \cup {new}
    <3>1. PICK l \in 0 .. h - 1 : e \in of2(l)
      BY <2>1
    <3>2. \E m \in 0 .. h - 1 : e \in of(m) \/ e = new
      <4>1. CASE l = l0
        BY <1>2, <3>1, <4>1, Zenon
      <4>2. CASE l # l0
        BY <1>1, <3>1, <4>2, Zenon
      <4>3. QED
        BY <4>1, <4>2
    <3>3. QED
      BY <3>2, Zenon
  <2>2. ASSUME NEW e, e \in (UNION {of(l) : l \in 0 .. h - 1}) \cup {new}
        PROVE  e \in UNION {of2(l) : l \in 0 .. h - 1}
    <3>1. CASE e = new
      <4>1. e \in of2(l0)
        BY <1>2, <3>1, Zenon
      <4>2. QED
        BY <4>1, Zenon
    <3>2. CASE e # new
      <4>1. PICK l \in 0 .. h - 1 : e \in of(l)
        BY <2>2, <3>2, Zenon
      <4>2. e \in of2(l)
        BY <1>1, <1>2, <4>1, Zenon
      <4>3. QED
        BY <4>2, Zenon
    <3>3. QED
      BY <3>1, <3>2
  <2>3. QED
    BY <2>1, <2>2, Zenon
<1>5. QED
  BY <1>3, <1>4 DEF new

(* The entries depend on the values of the levels there are. *)
LEMMA EntriesOfLevels ==
  ASSUME NEW lab, NEW louds, NEW child, NEW h, NEW vals, NEW vals2,
         \A l \in 0 .. h - 1 : vals2[l] = vals[l]
  PROVE  EntriesIn(lab, louds, child, vals2, h) = EntriesIn(lab, louds, child, vals, h)
<1> DEFINE of(l) == {EntryOf(lab, louds, child, vals, l, p) : p \in ValuedOf(lab, child, vals, l)}
           of2(l) == {EntryOf(lab, louds, child, vals2, l, p) :
                        p \in ValuedOf(lab, child, vals2, l)}
<1>1. ASSUME NEW l \in 0 .. h - 1
      PROVE  of2(l) = of(l)
  <2>1. vals2[l] = vals[l]
    BY <1>1
  <2>2. \A p : EntryOf(lab, louds, child, vals2, l, p) = EntryOf(lab, louds, child, vals, l, p)
    BY <2>1, Zenon DEF EntryOf
  <2>3. ValuedOf(lab, child, vals2, l) = ValuedOf(lab, child, vals, l)
    BY <2>1, Zenon DEF ValuedOf
  <2>4. QED
    BY <2>2, <2>3, Zenon
<1>2. /\ EntriesIn(lab, louds, child, vals, h) = UNION {of(l) : l \in 0 .. h - 1}
      /\ EntriesIn(lab, louds, child, vals2, h) = UNION {of2(l) : l \in 0 .. h - 1}
  BY DEF EntriesIn
<1> HIDE DEF of, of2
<1>3. QED
  BY <1>1, <1>2, Zenon

-------------------------------------------------------------------------------
(* Keys in order *)

(* The bytes of key i behind the ignored prefix are those of levels 0 to
   SuffixLen(i) - 1. *)
SuffixLen(i) == Len(input.keys[i]) - input.skip_prefix

(* Keys i and j have the same labels on the first n levels. *)
Agree(i, j, n) ==
  \A q \in 0 .. n - 1 : LabelOf(input.keys[i], q) = LabelOf(input.keys[j], q)

(* Key i rises to key j at level m. *)
RisesTo(i, j, m) ==
  /\ m < SuffixLen(i) /\ m < SuffixLen(j)
  /\ Agree(i, j, m)
  /\ LabelOf(input.keys[i], m) < LabelOf(input.keys[j], m)

(* Key i is a sequence of labels behind the ignored prefix. *)
KeyTyped(i) ==
  /\ Len(input.keys[i]) \in Nat
  /\ SuffixLen(i) \in Nat \ {0}
  /\ Abs!Suffix(i) \in Seq(Label) /\ Len(Abs!Suffix(i)) = SuffixLen(i)
  /\ \A q \in 0 .. SuffixLen(i) - 1 : Abs!Suffix(i)[q + 1] = LabelOf(input.keys[i], q)
  /\ \A q \in Nat : LabelOf(input.keys[i], q) \in Int

(* The keys of a build are sorted. *)
KeysInOrder ==
  /\ input.skip_prefix \in Nat /\ NumKeys \in Nat \ {0}
  /\ \A i \in 1 .. NumKeys : KeyTyped(i)
  /\ \A i, j \in 1 .. NumKeys :
       i < j => input.keys[i] = input.keys[j] \/ \E m \in Nat : RisesTo(i, j, m)

(* The keys of a sorted argument are in order, and of the types of keys. *)
LEMMA KeysAreInOrder ==
  ASSUME SortedInputs, input \in Inputs
  PROVE  KeysInOrder
<1>1. /\ input \in InputType
      /\ NumKeys \in Nat \ {0} /\ input.skip_prefix \in Nat
      /\ \A i \in 1 .. NumKeys : /\ input.keys[i] \in Seq(Label)
                                 /\ Len(input.keys[i]) \in Nat
                                 /\ Len(input.keys[i]) > input.skip_prefix
  BY InputFacts
<1> DEFINE skip == input.skip_prefix
<1>2. ASSUME NEW i \in 1 .. NumKeys
      PROVE  KeyTyped(i)
  <2> DEFINE key == input.keys[i]
             n == Len(key)
  <2>1. key \in Seq(Label) /\ n \in Nat /\ n > skip /\ skip \in Nat
    BY <1>1
  <2>2. Abs!Suffix(i) = SubSeq(key, skip + 1, n) /\ SuffixLen(i) = n - skip
    BY DEF Abs!Suffix, SuffixLen
  <2>3. \A q : LabelOf(key, q) = IF q + skip + 1 <= n THEN key[q + skip + 1] ELSE 0
    BY DEF LabelOf, Byte
  <2>4. Label \subseteq Int
    BY ConstantsAssumption DEF Label
  <2> HIDE DEF key, skip
  <2>5. /\ SubSeq(key, skip + 1, n) \in Seq(Label)
        /\ Len(SubSeq(key, skip + 1, n)) = n - skip
        /\ \A q \in 1 .. n - skip : SubSeq(key, skip + 1, n)[q] = key[skip + q]
    <3>1. skip + 1 \in Int /\ n \in Int /\ skip + 1 <= n /\ n - (skip + 1) + 1 = n - skip
      BY <2>1
    <3>2. \A q \in 1 .. n - skip : (skip + 1) + q - 1 = skip + q
      BY <2>1
    <3>3. \A q \in skip + 1 .. n : key[q] \in Label
      <4>1. \A q \in skip + 1 .. n : q \in 1 .. n
        BY <2>1
      <4>2. QED
        BY <2>1, <4>1
    <3> HIDE DEF n
    <3>4. QED
      BY <3>1, <3>2, <3>3, SubSeqProperties
  <2>6. \A q \in 1 .. n : key[q] \in Label
    BY <2>1
  <2> HIDE DEF n
  <2>7. \A q \in 0 .. n - skip - 1 :
          q + 1 \in 1 .. n - skip /\ skip + (q + 1) = q + skip + 1 /\ q + skip + 1 <= n
    BY <2>1
  <2>8. \A q \in Nat : q + skip + 1 <= n => q + skip + 1 \in 1 .. n
    BY <2>1
  <2>9. \A q \in Nat : LabelOf(key, q) \in Int
    <3> SUFFICES ASSUME NEW q \in Nat PROVE LabelOf(key, q) \in Int
      OBVIOUS
    <3>1. CASE q + skip + 1 <= n
      <4>1. key[q + skip + 1] \in Label
        BY <2>6, <2>8, <3>1
      <4>2. QED
        BY <2>3, <2>4, <3>1, <4>1
    <3>2. CASE ~(q + skip + 1 <= n)
      BY <2>3, <3>2
    <3>3. QED
      BY <3>1, <3>2
  <2>10. \A q \in 0 .. n - skip - 1 : SubSeq(key, skip + 1, n)[q + 1] = LabelOf(key, q)
    BY <2>3, <2>5, <2>7
  <2>11. n - skip \in Nat \ {0}
    BY <2>1
  <2>12. QED
    BY <2>1, <2>2, <2>5, <2>9, <2>10, <2>11 DEF key, KeyTyped
<1>3. ASSUME NEW i \in 1 .. NumKeys, NEW j \in 1 .. NumKeys, i < j,
             input.keys[i] # input.keys[j]
      PROVE  \E m \in Nat : RisesTo(i, j, m)
  <2>1. Precedes(input.keys[i], input.keys[j], input.skip_prefix)
    BY <1>3 DEF SortedInputs, NumKeys
  <2>2. PICK m \in Levels :
          /\ m + skip < Len(input.keys[i]) /\ m + skip < Len(input.keys[j])
          /\ \A q \in 0 .. m - 1 : Byte(input.keys[i], q + skip + 1)
                                     = Byte(input.keys[j], q + skip + 1)
          /\ Byte(input.keys[i], m + skip + 1) < Byte(input.keys[j], m + skip + 1)
    BY <2>1 DEF Precedes
  <2>3. m \in Nat
    BY ConstantsAssumption DEF Levels
  <2>4. m < SuffixLen(i) /\ m < SuffixLen(j)
    BY <1>1, <2>2, <2>3 DEF SuffixLen
  <2>5. Agree(i, j, m) /\ LabelOf(input.keys[i], m) < LabelOf(input.keys[j], m)
    BY <2>2 DEF Agree, LabelOf
  <2>6. QED
    BY <2>3, <2>4, <2>5 DEF RisesTo
<1>4. QED
  BY <1>1, <1>2, <1>3 DEF KeysInOrder

(* Fewer labels agree all the more. *)
LEMMA AgreeLess ==
  ASSUME NEW i, NEW j, NEW n \in Int, NEW m \in Int, m <= n, Agree(i, j, n)
  PROVE  Agree(i, j, m) /\ Agree(j, i, m)
<1>1. \A q \in 0 .. m - 1 : q \in 0 .. n - 1
  OBVIOUS
<1>2. QED
  BY <1>1 DEF Agree

(* A key between two keys that agree on some levels agrees with both. *)
LEMMA AgreeBetween ==
  ASSUME KeysInOrder, NEW i \in 1 .. NumKeys, NEW j \in 1 .. NumKeys, NEW k \in 1 .. NumKeys,
         i <= j, j <= k, NEW n \in Nat, Agree(i, k, n)
  PROVE  Agree(i, j, n) /\ Agree(j, k, n)
<1> DEFINE a(q) == LabelOf(input.keys[i], q)
           b(q) == LabelOf(input.keys[j], q)
           c(q) == LabelOf(input.keys[k], q)
<1>1. \A q \in 0 .. n - 1 : a(q) = c(q)
  BY DEF Agree
<1>2. \A q \in Nat : a(q) \in Int /\ b(q) \in Int /\ c(q) \in Int
  BY DEF KeysInOrder, KeyTyped
<1>3. \/ \A q : a(q) = b(q)
      \/ \E m \in Nat : (\A q \in 0 .. m - 1 : a(q) = b(q)) /\ a(m) < b(m)
  <2>1. CASE i = j
    BY <2>1
  <2>2. CASE i < j
    <3>1. input.keys[i] = input.keys[j] \/ \E m \in Nat : RisesTo(i, j, m)
      BY <2>2 DEF KeysInOrder
    <3>2. QED
      BY <3>1 DEF RisesTo, Agree
  <2>3. QED
    BY <2>1, <2>2
<1>4. \/ \A q : b(q) = c(q)
      \/ \E m \in Nat : (\A q \in 0 .. m - 1 : b(q) = c(q)) /\ b(m) < c(m)
  <2>1. CASE j = k
    BY <2>1
  <2>2. CASE j < k
    <3>1. input.keys[j] = input.keys[k] \/ \E m \in Nat : RisesTo(j, k, m)
      BY <2>2 DEF KeysInOrder
    <3>2. QED
      BY <3>1 DEF RisesTo, Agree
  <2>3. QED
    BY <2>1, <2>2
<1> HIDE DEF a, b, c
<1>5. \A q \in 0 .. n - 1 : a(q) = b(q)
  <2>1. CASE \A q : b(q) = c(q)
    BY <1>1, <2>1
  <2>2. CASE \E m \in Nat : (\A q \in 0 .. m - 1 : b(q) = c(q)) /\ b(m) < c(m)
    <3>1. PICK m2 \in Nat : (\A q \in 0 .. m2 - 1 : b(q) = c(q)) /\ b(m2) < c(m2)
      BY <2>2
    <3> SUFFICES ASSUME NEW m \in Nat, \A q \in 0 .. m - 1 : a(q) = b(q), a(m) < b(m), m < n
                 PROVE  FALSE
      BY <1>3
    <3>2. a(m) = c(m)
      BY <1>1
    <3>3. CASE m < m2
      <4>1. b(m) = c(m)
        BY <3>1, <3>3
      <4>2. QED
        BY <1>2, <3>2, <4>1
    <3>4. CASE m = m2
      <4>1. b(m) < c(m)
        BY <3>1, <3>4
      <4>2. a(m) \in Int /\ b(m) \in Int /\ c(m) \in Int
        BY <1>2
      <4>3. QED
        BY <3>2, <4>1, <4>2
    <3>5. CASE m2 < m
      <4>1. a(m2) = c(m2) /\ a(m2) = b(m2)
        BY <1>1, <3>1, <3>5
      <4>2. a(m2) \in Int /\ b(m2) \in Int /\ c(m2) \in Int
        BY <1>2, <3>1
      <4>3. QED
        BY <3>1, <4>1, <4>2
    <3>6. QED
      BY <3>1, <3>3, <3>4, <3>5
  <2>3. QED
    BY <1>4, <2>1, <2>2
<1>6. \A q \in 0 .. n - 1 : b(q) = c(q)
  BY <1>1, <1>5
<1>7. QED
  BY <1>5, <1>6 DEF Agree, a, b, c

(* Different keys do not agree on all levels of one of them. *)
LEMMA KeysDiffer ==
  ASSUME KeysInOrder, NEW i \in 1 .. NumKeys, NEW j \in 1 .. NumKeys,
         input.keys[i] # input.keys[j]
  PROVE  \E m \in Nat : /\ m < SuffixLen(i) /\ m < SuffixLen(j)
                        /\ LabelOf(input.keys[i], m) # LabelOf(input.keys[j], m)
<1>1. i < j \/ j < i
  <2>1. i # j
    OBVIOUS
  <2>2. QED
    BY <2>1
<1>2. PICK m \in Nat : RisesTo(i, j, m) \/ RisesTo(j, i, m)
  BY <1>1 DEF KeysInOrder
<1>3. /\ LabelOf(input.keys[i], m) \in Int /\ LabelOf(input.keys[j], m) \in Int
  BY DEF KeysInOrder, KeyTyped
<1>4. QED
  BY <1>2, <1>3 DEF RisesTo

(* Keys are equal when what the trie stores of them is. *)
LEMMA SameSuffix ==
  ASSUME KeysInOrder, NEW i \in 1 .. NumKeys, NEW j \in 1 .. NumKeys
  PROVE  Abs!Suffix(i) = Abs!Suffix(j) <=> input.keys[i] = input.keys[j]
<1>1. ASSUME input.keys[i] = input.keys[j]
      PROVE  Abs!Suffix(i) = Abs!Suffix(j)
  BY <1>1 DEF Abs!Suffix
<1>2. ASSUME input.keys[i] # input.keys[j]
      PROVE  Abs!Suffix(i) # Abs!Suffix(j)
  <2>1. PICK m \in Nat : /\ m < SuffixLen(i) /\ m < SuffixLen(j)
                         /\ LabelOf(input.keys[i], m) # LabelOf(input.keys[j], m)
    BY <1>2, KeysDiffer
  <2>2. KeyTyped(i) /\ KeyTyped(j)
    BY DEF KeysInOrder
  <2>3. m \in 0 .. SuffixLen(i) - 1 /\ m \in 0 .. SuffixLen(j) - 1
    <3>1. SuffixLen(i) \in Nat /\ SuffixLen(j) \in Nat
      BY <2>2 DEF KeyTyped
    <3>2. QED
      BY <2>1, <3>1
  <2>4. /\ Abs!Suffix(i)[m + 1] = LabelOf(input.keys[i], m)
        /\ Abs!Suffix(j)[m + 1] = LabelOf(input.keys[j], m)
    BY <2>2, <2>3 DEF KeyTyped
  <2>5. QED
    BY <2>1, <2>4
<1>3. QED
  BY <1>1, <1>2

(* A key has the first n bytes of another when they agree on n levels. *)
LEMMA PrefixAgrees ==
  ASSUME KeysInOrder, NEW i \in 1 .. NumKeys, NEW j \in 1 .. NumKeys,
         NEW n \in 0 .. SuffixLen(i)
  PROVE  /\ Len(SubSeq(Abs!Suffix(i), 1, n)) = n
         /\ \A q \in 1 .. n : SubSeq(Abs!Suffix(i), 1, n)[q] = LabelOf(input.keys[i], q - 1)
         /\ Abs!HasPrefix(Abs!Suffix(j), SubSeq(Abs!Suffix(i), 1, n))
              <=> n <= SuffixLen(j) /\ Agree(j, i, n)
<1> DEFINE a == Abs!Suffix(i)
           b == Abs!Suffix(j)
<1>0. KeyTyped(i) /\ KeyTyped(j)
  BY DEF KeysInOrder
<1>1. /\ a \in Seq(Label) /\ b \in Seq(Label)
      /\ Len(a) = SuffixLen(i) /\ Len(b) = SuffixLen(j)
      /\ SuffixLen(i) \in Nat /\ SuffixLen(j) \in Nat /\ n \in Nat /\ n <= SuffixLen(i)
      /\ \A q \in 0 .. SuffixLen(i) - 1 : a[q + 1] = LabelOf(input.keys[i], q)
      /\ \A q \in 0 .. SuffixLen(j) - 1 : b[q + 1] = LabelOf(input.keys[j], q)
  BY <1>0 DEF KeyTyped
<1> HIDE DEF a, b
<1>2. \A q \in 1 .. n : q - 1 \in 0 .. SuffixLen(i) - 1 /\ (q - 1) + 1 = q
  BY <1>1
<1>3. /\ SubSeq(a, 1, n) = [q \in 1 .. n |-> a[q]]
      /\ Len(SubSeq(a, 1, n)) = n
  BY <1>1
<1>4. \A q \in 1 .. n : a[q] = LabelOf(input.keys[i], q - 1)
  BY <1>1, <1>2
<1>5. \A q \in 1 .. n : SubSeq(a, 1, n)[q] = LabelOf(input.keys[i], q - 1)
  BY <1>3, <1>4
<1>6. ASSUME n <= SuffixLen(j)
      PROVE  SubSeq(b, 1, n) = SubSeq(a, 1, n) <=> Agree(j, i, n)
  <2>1. SubSeq(b, 1, n) = [q \in 1 .. n |-> b[q]]
    BY <1>1, <1>6
  <2>2. \A q \in 1 .. n : b[q] = LabelOf(input.keys[j], q - 1)
    <3>1. \A q \in 1 .. n : q - 1 \in 0 .. SuffixLen(j) - 1 /\ (q - 1) + 1 = q
      BY <1>1, <1>6
    <3>2. QED
      BY <1>1, <3>1
  <2>3. (\A q \in 1 .. n : b[q] = a[q]) <=> Agree(j, i, n)
    <3>1. ASSUME \A q \in 1 .. n : b[q] = a[q]
          PROVE  Agree(j, i, n)
      <4> SUFFICES ASSUME NEW q \in 0 .. n - 1
                   PROVE  LabelOf(input.keys[j], q) = LabelOf(input.keys[i], q)
        BY DEF Agree
      <4>1. q + 1 \in 1 .. n /\ (q + 1) - 1 = q
        BY <1>1
      <4>2. QED
        BY <1>4, <2>2, <3>1, <4>1
    <3>2. ASSUME Agree(j, i, n), NEW q \in 1 .. n
          PROVE  b[q] = a[q]
      <4>1. q - 1 \in 0 .. n - 1
        BY <1>1
      <4>2. LabelOf(input.keys[j], q - 1) = LabelOf(input.keys[i], q - 1)
        BY <3>2, <4>1 DEF Agree
      <4>3. QED
        BY <1>4, <2>2, <4>2
    <3>3. QED
      BY <3>1, <3>2
  <2>4. SubSeq(b, 1, n) = SubSeq(a, 1, n) <=> \A q \in 1 .. n : b[q] = a[q]
    BY <1>3, <2>1
  <2>5. QED
    BY <2>3, <2>4
<1>7. Abs!HasPrefix(b, SubSeq(a, 1, n)) <=> n <= SuffixLen(j) /\ Agree(j, i, n)
  <2>1. Abs!HasPrefix(b, SubSeq(a, 1, n))
          <=> n <= SuffixLen(j) /\ SubSeq(b, 1, n) = SubSeq(a, 1, n)
    BY <1>1, <1>3 DEF Abs!HasPrefix
  <2>2. QED
    BY <1>6, <2>1
<1>8. QED
  BY <1>3, <1>5, <1>7 DEF a, b

(* SameKey finds equal keys and no others, be its first byte that of the key or
   another, for the keys differ behind the ignored prefix. *)
LEMMA SameKeyExact ==
  ASSUME KeysInOrder, NEW i \in 1 .. NumKeys, NEW j \in 1 .. NumKeys
  PROVE  SameKey(input.keys[i], input.keys[j]) <=> input.keys[i] = input.keys[j]
<1>1. ASSUME input.keys[i] = input.keys[j]
      PROVE  SameKey(input.keys[i], input.keys[j])
  BY <1>1 DEF SameKey
<1>2. ASSUME input.keys[i] # input.keys[j]
      PROVE  ~SameKey(input.keys[i], input.keys[j])
  <2>1. CASE ~input.parts
    BY <1>2, <2>1 DEF SameKey
  <2>2. CASE input.parts
    <3>1. PICK m \in Nat : /\ m < SuffixLen(i) /\ m < SuffixLen(j)
                           /\ LabelOf(input.keys[i], m) # LabelOf(input.keys[j], m)
      BY <1>2, KeysDiffer
    <3>2. input.skip_prefix \in Nat /\ Len(input.keys[i]) \in Nat
      BY DEF KeysInOrder, KeyTyped
    <3>3. input.skip_prefix % Fanout \in Nat /\ input.skip_prefix % Fanout <= input.skip_prefix
      BY <3>2, ConstantsAssumption, RemainderBelow
    <3>4. m + input.skip_prefix < Len(input.keys[i])
      BY <3>1, <3>2 DEF SuffixLen
    <3>5. m + input.skip_prefix + 1
            \in (input.skip_prefix % Fanout) + 1 .. Len(input.keys[i])
      BY <3>2, <3>3, <3>4
    <3>6. Byte(input.keys[i], m + input.skip_prefix + 1)
            # Byte(input.keys[j], m + input.skip_prefix + 1)
      BY <3>1 DEF LabelOf
    <3>7. QED
      BY <2>2, <3>5, <3>6 DEF SameKey
  <2>3. QED
    BY <2>1, <2>2
<1>3. QED
  BY <1>1, <1>2

(* A key is the first of its run when the key before it is another one. *)
LEMMA FirstOfRun ==
  ASSUME KeysInOrder, NEW i \in 1 .. NumKeys
  PROVE  Abs!IsFirst(i) <=> i = 1 \/ input.keys[i - 1] # input.keys[i]
<1>1. NumKeys \in Nat /\ i \in Nat /\ \A j \in 1 .. i - 1 : j \in 1 .. NumKeys
  BY DEF KeysInOrder
<1>2. Abs!IsFirst(i) <=> \A j \in 1 .. i - 1 : input.keys[j] # input.keys[i]
  BY <1>1, SameSuffix DEF Abs!IsFirst
<1>3. ASSUME i # 1, \A j \in 1 .. i - 1 : input.keys[j] # input.keys[i]
      PROVE  input.keys[i - 1] # input.keys[i]
  <2>1. i - 1 \in 1 .. i - 1
    BY <1>1, <1>3
  <2>2. QED
    BY <1>3, <2>1
<1>4. ASSUME i # 1, input.keys[i - 1] # input.keys[i], NEW j \in 1 .. i - 1
      PROVE  input.keys[j] # input.keys[i]
  <2> SUFFICES ASSUME input.keys[j] = input.keys[i] PROVE FALSE
    OBVIOUS
  <2>1. i - 1 \in 1 .. NumKeys /\ j \in 1 .. NumKeys /\ j <= i - 1 /\ i - 1 <= i
    BY <1>1, <1>4
  <2>2. PICK m \in Nat : LabelOf(input.keys[i - 1], m) # LabelOf(input.keys[i], m)
    BY <1>4, <2>1, KeysDiffer
  <2>3. Agree(j, i, m + 1) /\ m + 1 \in Nat
    BY DEF Agree
  <2>4. Agree(i - 1, i, m + 1)
    BY <2>1, <2>3, AgreeBetween
  <2>5. m \in 0 .. (m + 1) - 1
    OBVIOUS
  <2>6. QED
    BY <2>2, <2>4, <2>5 DEF Agree
<1>5. ASSUME i = 1
      PROVE  \A j \in 1 .. i - 1 : input.keys[j] # input.keys[i]
  BY <1>5
<1>6. QED
  BY <1>2, <1>3, <1>4, <1>5

(* n labels tell key i from every other key if they tell it from the key before
   it and from the next different key k. *)
LEMMA NeighboursTell ==
  ASSUME KeysInOrder, NEW i \in 1 .. NumKeys, NEW k \in i + 1 .. NumKeys + 1,
         \A j \in i + 1 .. k - 1 : input.keys[j] = input.keys[i],
         NEW n \in Nat, n <= SuffixLen(i),
         i > 1 => ~Agree(i - 1, i, n),
         k <= NumKeys => ~Agree(i, k, n)
  PROVE  Abs!Distinguishes(i, n)
<1>1. NumKeys \in Nat /\ i \in Nat /\ k \in Nat /\ Abs!Indices = 1 .. NumKeys
  BY DEF KeysInOrder, Abs!Indices, NumKeys
<1> SUFFICES ASSUME NEW j \in 1 .. NumKeys, input.keys[j] # input.keys[i], Agree(j, i, n)
             PROVE  FALSE
  <2>1. n \in 0 .. SuffixLen(i)
    BY DEF KeysInOrder, KeyTyped
  <2>2. \A j \in 1 .. NumKeys :
          /\ Abs!Suffix(j) # Abs!Suffix(i) <=> input.keys[j] # input.keys[i]
          /\ Abs!HasPrefix(Abs!Suffix(j), SubSeq(Abs!Suffix(i), 1, n)) => Agree(j, i, n)
    BY <2>1, SameSuffix, PrefixAgrees
  <2>3. QED
    BY <1>1, <2>2 DEF Abs!Distinguishes
<1>2. CASE j < i
  <2>1. i > 1 /\ i - 1 \in 1 .. NumKeys /\ j <= i - 1 /\ i - 1 <= i
    BY <1>1, <1>2
  <2>2. Agree(i - 1, i, n)
    BY <2>1, AgreeBetween
  <2>3. QED
    BY <2>1, <2>2
<1>3. CASE j > i
  <2>1. k <= j /\ k <= NumKeys /\ k \in 1 .. NumKeys /\ i <= k
    BY <1>1, <1>3
  <2>2. Agree(i, j, n)
    BY DEF Agree
  <2>3. Agree(i, k, n)
    BY <2>1, <2>2, AgreeBetween
  <2>4. QED
    BY <2>1, <2>3
<1>4. QED
  BY <1>1, <1>2, <1>3

(* If another key shares n - 1 bytes, the key is stored with n. *)
LEMMA StoredPrefixIs ==
  ASSUME KeysInOrder, NEW i \in 1 .. NumKeys, NEW n \in 1 .. SuffixLen(i),
         Abs!Distinguishes(i, n),
         n > 1 => \E j \in 1 .. NumKeys : /\ input.keys[j] # input.keys[i]
                                          /\ n - 1 <= SuffixLen(j) /\ Agree(j, i, n - 1)
  PROVE  Abs!StoredPrefix(i) = SubSeq(Abs!Suffix(i), 1, n)
<1> DEFINE Shortest(m) == /\ Abs!Distinguishes(i, m)
                          /\ \A k \in 1 .. m - 1 : ~Abs!Distinguishes(i, k)
<1>1. SuffixLen(i) \in Nat /\ Len(Abs!Suffix(i)) = SuffixLen(i)
  BY DEF KeysInOrder, KeyTyped
<1>2. ASSUME NEW k \in 1 .. n - 1
      PROVE  ~Abs!Distinguishes(i, k)
  <2>1. n > 1 /\ k \in 0 .. SuffixLen(i)
    BY <1>1
  <2>2. PICK j \in 1 .. NumKeys : /\ input.keys[j] # input.keys[i]
                                  /\ n - 1 <= SuffixLen(j) /\ Agree(j, i, n - 1)
    BY <2>1
  <2>3. SuffixLen(j) \in Nat
    BY DEF KeysInOrder, KeyTyped
  <2>4. k <= SuffixLen(j) /\ Agree(j, i, k)
    <3>1. k \in Int /\ n - 1 \in Int /\ k <= n - 1
      BY <1>1
    <3>2. QED
      BY <2>2, <2>3, <3>1, AgreeLess
  <2>5. Abs!HasPrefix(Abs!Suffix(j), SubSeq(Abs!Suffix(i), 1, k))
    BY <2>1, <2>4, PrefixAgrees
  <2>6. Abs!Suffix(j) # Abs!Suffix(i)
    BY <2>2, SameSuffix
  <2>7. QED
    BY <2>5, <2>6 DEF Abs!Distinguishes, Abs!Indices, NumKeys
<1>3. Shortest(n)
  BY <1>2
<1>4. ASSUME NEW m \in 1 .. SuffixLen(i), Shortest(m)
      PROVE  m = n
  <2>1. ~(m < n)
    <3>1. m < n => m \in 1 .. n - 1
      BY <1>1
    <3>2. QED
      BY <1>2, <1>4, <3>1
  <2>2. ~(n < m)
    <3>1. n < m => n \in 1 .. m - 1
      BY <1>1
    <3>2. QED
      BY <1>4, <3>1
  <2>3. QED
    BY <1>1, <2>1, <2>2
<1>5. (CHOOSE m \in 1 .. SuffixLen(i) : Shortest(m)) = n
  <2> HIDE DEF Shortest
  <2>1. QED
    BY <1>3, <1>4
<1>6. Abs!StoredPrefix(i) = SubSeq(Abs!Suffix(i), 1, CHOOSE m \in 1 .. SuffixLen(i) : Shortest(m))
  BY <1>1 DEF Abs!StoredPrefix
<1>7. QED
  BY <1>5, <1>6

-------------------------------------------------------------------------------
(* Sums over levels *)

PickLevel(s) == CHOOSE l \in s : TRUE

(* g[s] adds up the counts of the levels in s. *)
AddsUp(g, S, count) ==
  /\ IsFiniteSet(S) /\ count \in [S -> Nat] /\ g \in [SUBSET S -> Nat]
  /\ \A s \in SUBSET S :
       g[s] = IF s = {} THEN 0 ELSE count[PickLevel(s)] + g[s \ {PickLevel(s)}]

(* A function gives the sum of the counts of each subset. *)
LEMMA SumExists ==
  ASSUME NEW S, IsFiniteSet(S), NEW count \in [S -> Nat]
  PROVE  \E g : AddsUp(g, S, count)
<1> DEFINE step == [d \in S \X Nat |-> count[d[1]] + d[2]]
           pick == [s \in SUBSET S |-> PickLevel(s)]
<1>1. step \in [S \X Nat -> Nat] /\ \A x \in S : \A k \in Nat : step[<<x, k>>] = count[x] + k
  <2>1. \A d \in S \X Nat : count[d[1]] + d[2] \in Nat
    OBVIOUS
  <2>2. \A x \in S : \A k \in Nat : <<x, k>> \in S \X Nat
    OBVIOUS
  <2>3. QED
    BY <2>1, <2>2
<1>2. \A s \in SUBSET S : pick[s] = PickLevel(s) /\ (s # {} => pick[s] \in s)
  BY DEF PickLevel
<1> HIDE DEF step, pick
<1>3. FoldData(S, Nat, 0, step, pick)
  BY <1>1, <1>2 DEF FoldData
<1>4. PICK g : IsFold(g, S, Nat, 0, step, pick)
  BY <1>3, FoldExists
<1>5. g \in [SUBSET S -> Nat]
  BY <1>4 DEF IsFold
<1>6. ASSUME NEW s \in SUBSET S
      PROVE  g[s] = IF s = {} THEN 0 ELSE count[PickLevel(s)] + g[s \ {PickLevel(s)}]
  <2>1. g[s] = IF s = {} THEN 0 ELSE step[<<pick[s], g[s \ {pick[s]}]>>]
    BY <1>4 DEF IsFold
  <2>2. CASE s = {}
    BY <2>1, <2>2
  <2>3. CASE s # {}
    <3>1. pick[s] \in S /\ s \ {pick[s]} \in SUBSET S
      BY <1>2, <2>3
    <3>2. g[s \ {pick[s]}] \in Nat
      BY <1>5, <3>1
    <3>3. step[<<pick[s], g[s \ {pick[s]}]>>] = count[pick[s]] + g[s \ {pick[s]}]
      BY <1>1, <3>1, <3>2
    <3>4. QED
      BY <1>2, <2>1, <2>3, <3>3
  <2>4. QED
    BY <2>2, <2>3
<1>7. AddsUp(g, S, count)
  BY <1>5, <1>6 DEF AddsUp
<1>8. QED
  BY <1>7

(* Sums over subsets do not depend on the set they are subsets of. *)
LEMMA SumUnique ==
  ASSUME NEW S, NEW T \in SUBSET S, NEW count, NEW count2, NEW g, NEW g2,
         AddsUp(g, S, count), AddsUp(g2, T, count2), \A x \in T : count2[x] = count[x]
  PROVE  \A s \in SUBSET T : g2[s] = g[s]
<1> DEFINE P == {s \in SUBSET T : g2[s] = g[s]}
<1>1. IsFiniteSet(T)
  BY DEF AddsUp
<1>2. {} \in P
  BY DEF AddsUp
<1>3. ASSUME NEW s \in SUBSET T, s # {}, \A x \in s : s \ {x} \in P
      PROVE  s \in P
  <2>1. PickLevel(s) \in s
    BY <1>3 DEF PickLevel
  <2>2. g2[s \ {PickLevel(s)}] = g[s \ {PickLevel(s)}]
    BY <1>3, <2>1
  <2>3. count2[PickLevel(s)] = count[PickLevel(s)]
    BY <2>1
  <2>4. s \in SUBSET S
    OBVIOUS
  <2>5. g2[s] = count2[PickLevel(s)] + g2[s \ {PickLevel(s)}]
    BY <1>3 DEF AddsUp
  <2>6. g[s] = count[PickLevel(s)] + g[s \ {PickLevel(s)}]
    BY <1>3, <2>4 DEF AddsUp
  <2>7. QED
    BY <2>2, <2>3, <2>5, <2>6
<1> HIDE DEF P
<1>4. \A s \in SUBSET T : s \in P
  BY <1>1, <1>2, <1>3, SubsetInduct
<1>5. QED
  BY <1>4 DEF P

(* Whatever level is picked first, the sum is the same. *)
LEMMA SumWithout ==
  ASSUME NEW S, NEW count, NEW g, AddsUp(g, S, count)
  PROVE  \A s \in SUBSET S : \A x \in s : g[s] = count[x] + g[s \ {x}]
<1> DEFINE P == {s \in SUBSET S : \A x \in s : g[s] = count[x] + g[s \ {x}]}
<1>1. IsFiniteSet(S)
  BY DEF AddsUp
<1>2. {} \in P
  OBVIOUS
<1>3. ASSUME NEW s \in SUBSET S, s # {}, \A x \in s : s \ {x} \in P
      PROVE  s \in P
  <2> SUFFICES ASSUME NEW x \in s PROVE g[s] = count[x] + g[s \ {x}]
    OBVIOUS
  <2> DEFINE y == PickLevel(s)
             rest == (s \ {y}) \ {x}
  <2>1. y \in s
    BY DEF PickLevel
  <2>2. g[s] = count[y] + g[s \ {y}]
    BY <1>3 DEF AddsUp
  <2> HIDE DEF y
  <2>3. CASE x = y
    BY <2>2, <2>3
  <2>4. CASE x # y
    <3>1. x \in s \ {y} /\ y \in s \ {x} /\ s \ {x} \in P /\ s \ {y} \in P
      BY <1>3, <2>1, <2>4
    <3>2. g[s \ {y}] = count[x] + g[rest]
      BY <3>1
    <3>3. rest = (s \ {x}) \ {y}
      OBVIOUS
    <3>4. g[s \ {x}] = count[y] + g[rest]
      BY <3>1, <3>3
    <3>5. count[x] \in Nat /\ count[y] \in Nat /\ rest \in SUBSET S
      BY <2>1 DEF AddsUp
    <3>6. g[rest] \in Nat
      BY <3>5 DEF AddsUp
    <3> HIDE DEF rest
    <3>7. QED
      BY <2>2, <3>2, <3>4, <3>5, <3>6
  <2>5. QED
    BY <2>3, <2>4
<1> HIDE DEF P
<1>4. \A s \in SUBSET S : s \in P
  BY <1>1, <1>2, <1>3, SubsetInduct
<1>5. QED
  BY <1>4 DEF P

(* The leaves of the levels of a range. *)
LEMMA LeavesAddUp ==
  ASSUME NEW from \in Nat, NEW to \in Nat,
         NEW count \in [from .. to - 1 -> Nat],
         \A l \in from .. to - 1 : count[l] = Cardinality(Leaves(l))
  PROVE  \E g : AddsUp(g, from .. to - 1, count) /\ LeavesBetween(from, to) = g[from .. to - 1]
<1> DEFINE S == from .. to - 1
           sum == CHOOSE g : g = [s \in SUBSET S |->
                    IF s = {} THEN 0
                    ELSE Cardinality(Leaves(PickLevel(s))) + g[s \ {PickLevel(s)}]]
<1>1. LeavesBetween(from, to) = sum[S]
  BY DEF LeavesBetween, MapThenSumSet, MapThenFoldSet, PickLevel
<1>2. IsFiniteSet(S)
  BY FS_Interval
<1>3. \A s \in SUBSET S : s # {} => count[PickLevel(s)] = Cardinality(Leaves(PickLevel(s)))
  <2>1. \A s \in SUBSET S : s # {} => PickLevel(s) \in S
    BY DEF PickLevel
  <2> HIDE DEF S
  <2>2. \A l \in S : count[l] = Cardinality(Leaves(l))
    BY DEF S
  <2>3. QED
    BY <2>1, <2>2
<1> HIDE DEF S
<1>4. count \in [S -> Nat]
  BY DEF S
<1>5. PICK h : AddsUp(h, S, count)
  BY <1>2, <1>4, SumExists
<1>6. h = [s \in SUBSET S |->
             IF s = {} THEN 0
             ELSE Cardinality(Leaves(PickLevel(s))) + h[s \ {PickLevel(s)}]]
  BY <1>3, <1>5 DEF AddsUp
<1>7. sum = [s \in SUBSET S |->
               IF s = {} THEN 0
               ELSE Cardinality(Leaves(PickLevel(s))) + sum[s \ {PickLevel(s)}]]
  BY <1>6
<1> HIDE DEF sum
<1>8. DOMAIN sum = SUBSET S /\ DOMAIN h = SUBSET S
  BY <1>6, <1>7
<1> DEFINE P == {s \in SUBSET S : sum[s] = h[s]}
<1>9. {} \in P
  BY <1>6, <1>7
<1>10. ASSUME NEW s \in SUBSET S, s # {}, \A x \in s : s \ {x} \in P
       PROVE  s \in P
  <2>1. PickLevel(s) \in s
    BY <1>10 DEF PickLevel
  <2>2. sum[s \ {PickLevel(s)}] = h[s \ {PickLevel(s)}]
    BY <1>10, <2>1
  <2>3. sum[s] = Cardinality(Leaves(PickLevel(s))) + sum[s \ {PickLevel(s)}]
    BY <1>7, <1>10
  <2>4. h[s] = Cardinality(Leaves(PickLevel(s))) + h[s \ {PickLevel(s)}]
    BY <1>6, <1>10
  <2>5. QED
    BY <2>2, <2>3, <2>4
<1> HIDE DEF P
<1>11. \A s \in SUBSET S : s \in P
  BY <1>2, <1>9, <1>10, SubsetInduct
<1>12. sum[S] = h[S]
  BY <1>11 DEF P
<1>13. QED
  BY <1>1, <1>5, <1>12 DEF S

(* The leaves of a level are counted. *)
LEMMA LeavesCounted ==
  ASSUME TypeInv, NEW l \in Levels
  PROVE  Cardinality(Leaves(l)) \in Nat
<1>1. GetNumItems(l) \in Nat
  BY DEF TypeInv, TypeOK, GetNumItems
<1>2. IsFiniteSet(0 .. GetNumItems(l) - 1)
  BY <1>1, FS_Interval
<1>3. Leaves(l) \subseteq 0 .. GetNumItems(l) - 1
  BY DEF Leaves
<1>4. QED
  BY <1>2, <1>3, FS_Subset, FS_CardinalityType

(* Level by level. *)
LEMMA LeavesBetweenIs ==
  ASSUME TypeInv, NEW from \in Nat, NEW to \in from .. MaxLevel + 1
  PROVE  /\ LeavesBetween(from, from) = 0
         /\ LeavesBetween(from, to) \in Nat
         /\ to \in Levels =>
              LeavesBetween(from, to + 1) = LeavesBetween(from, to) + Cardinality(Leaves(to))
<1> DEFINE n(l) == Cardinality(Leaves(l))
           counts(k) == [l \in from .. k - 1 |-> n(l)]
<1>1. MaxLevel \in Nat /\ to \in Nat /\ to <= MaxLevel + 1
  BY ConstantsAssumption
<1>2. \A l \in 0 .. MaxLevel : n(l) \in Nat
  BY LeavesCounted DEF Levels
<1> HIDE DEF n
<1>3. ASSUME NEW k \in Nat, k <= MaxLevel + 1
      PROVE  \E g : AddsUp(g, from .. k - 1, counts(k)) /\ LeavesBetween(from, k) = g[from .. k - 1]
  <2>1. counts(k) \in [from .. k - 1 -> Nat]
    BY <1>1, <1>2, <1>3
  <2>2. \A l \in from .. k - 1 : counts(k)[l] = Cardinality(Leaves(l))
    BY DEF n
  <2> HIDE DEF counts
  <2>3. QED
    BY <2>1, <2>2, LeavesAddUp
<1>4. LeavesBetween(from, from) = 0
  <2>1. PICK g : AddsUp(g, from .. from - 1, counts(from))
                 /\ LeavesBetween(from, from) = g[from .. from - 1]
    BY <1>1, <1>3
  <2>2. from .. from - 1 = {}
    OBVIOUS
  <2> HIDE DEF counts
  <2>3. QED
    BY <2>1, <2>2 DEF AddsUp
<1>5. LeavesBetween(from, to) \in Nat
  <2>1. PICK g : AddsUp(g, from .. to - 1, counts(to))
                 /\ LeavesBetween(from, to) = g[from .. to - 1]
    BY <1>1, <1>3
  <2> HIDE DEF counts
  <2>2. g \in [SUBSET (from .. to - 1) -> Nat]
    BY <2>1 DEF AddsUp
  <2>3. QED
    BY <2>1, <2>2
<1>6. ASSUME to \in Levels
      PROVE  LeavesBetween(from, to + 1) = LeavesBetween(from, to) + n(to)
  <2>1. to + 1 \in Nat /\ to + 1 <= MaxLevel + 1 /\ (to + 1) - 1 = to /\ to \in 0 .. MaxLevel
    BY <1>1, <1>6 DEF Levels
  <2> DEFINE S == from .. to
             T == from .. to - 1
             c == counts(to + 1)
             c2 == counts(to)
  <2>2. PICK g : AddsUp(g, S, c) /\ LeavesBetween(from, to + 1) = g[S]
    BY <1>3, <2>1
  <2>3. PICK g2 : AddsUp(g2, T, c2) /\ LeavesBetween(from, to) = g2[T]
    BY <1>1, <1>3
  <2>4. T \in SUBSET S /\ \A x \in T : c2[x] = c[x]
    BY <1>1, <2>1
  <2>5. to \in S /\ S \ {to} = T /\ c[to] = n(to) /\ S \in SUBSET S
    BY <1>1, <2>1
  <2> HIDE DEF S, T, c, c2
  <2>6. g[S] = c[to] + g[S \ {to}]
    BY <2>2, <2>5, SumWithout
  <2>7. g2[T] = g[T]
    <3>1. \A s \in SUBSET T : g2[s] = g[s]
      BY <2>2, <2>3, <2>4, SumUnique
    <3>2. QED
      BY <3>1
  <2>8. g2[T] \in Nat /\ n(to) \in Nat
    BY <1>2, <1>5, <2>1, <2>3
  <2>9. g[S] = n(to) + g2[T]
    BY <2>5, <2>6, <2>7
  <2>10. g[S] = g2[T] + n(to)
    BY <2>8, <2>9
  <2>11. QED
    BY <2>2, <2>3, <2>10
<1>7. QED
  BY <1>4, <1>5, <1>6 DEF n

-------------------------------------------------------------------------------
(* The keys around the one being inserted *)

Scanning == pc \in {"skip", "rest", "store"}

(* The previous key was inserted down to level t - 1, its labels are the last
   ones there, and that far it differs from this key. *)
SkippedInv ==
  pc = "skip" /\ cur > 1 =>
    \E t \in 0 .. height :
      /\ t <= SuffixLen(cur - 1)
      /\ \A q \in 0 .. t - 1 : LastLabel(q) = LabelOf(input.keys[cur - 1], q)
      /\ ~Agree(cur - 1, cur, t)

(* The key has all bytes inserted so far, the previous key has not, and the last
   one is needed: another key has all bytes before it.  The keys passed over
   are equal to this one. *)
NeededInv ==
  pc \in {"rest", "store"} =>
    /\ level <= SuffixLen(cur)
    /\ cur > 1 => ~Agree(cur - 1, cur, level)
    /\ level > 1 => \E j \in 1 .. NumKeys : /\ input.keys[j] # input.keys[cur]
                                            /\ level - 1 <= SuffixLen(j)
                                            /\ Agree(j, cur, level - 1)
    /\ \A k \in cur + 1 .. nxt - 1 : input.keys[k] = input.keys[cur]

KeysInv ==
  /\ KeysInOrder
  /\ SkippedInv
  /\ NeededInv
  /\ ~Scanning => cur = NumKeys + 1

(* The keys are the same all the time. *)
LEMMA SameKeys ==
  ASSUME input' = input
  PROVE  /\ KeysInOrder => KeysInOrder'
         /\ NumKeys' = NumKeys
         /\ \A i : SuffixLen(i)' = SuffixLen(i)
         /\ \A i, j, n : Agree(i, j, n)' <=> Agree(i, j, n)
         /\ \A key, q : LabelOf(key, q)' = LabelOf(key, q)
<1>1. /\ NumKeys' = NumKeys
      /\ \A i : SuffixLen(i)' = SuffixLen(i)
      /\ \A key, q : LabelOf(key, q)' = LabelOf(key, q)
      /\ \A i : Abs!Suffix(i)' = Abs!Suffix(i)
  BY DEF NumKeys, SuffixLen, LabelOf, Abs!Suffix
<1>2. \A i, j, n : Agree(i, j, n)' <=> Agree(i, j, n)
  BY <1>1 DEF Agree
<1>3. \A i, j, m : RisesTo(i, j, m)' <=> RisesTo(i, j, m)
  BY <1>1, <1>2 DEF RisesTo
<1>4. \A i : KeyTyped(i)' <=> KeyTyped(i)
  BY <1>1 DEF KeyTyped
<1>5. KeysInOrder => KeysInOrder'
  BY <1>1, <1>3, <1>4 DEF KeysInOrder
<1>6. QED
  BY <1>1, <1>2, <1>5

(* No key was scanned before the first. *)
LEMMA KeysInit == ASSUME SortedInputs, Init PROVE KeysInv
<1>1. input \in Inputs /\ pc = "skip" /\ cur = 1
  BY DEF Init
<1>2. KeysInOrder
  BY <1>1, KeysAreInOrder
<1>3. QED
  BY <1>1, <1>2 DEF KeysInv, SkippedInv, NeededInv, Scanning

(* A byte passed over is one the previous key has too. *)
LEMMA SkipCommonPrefixKeys ==
  ASSUME KeysInv, SkipCommonPrefix
  PROVE  KeysInv'
<1>1. pc = "skip" /\ UNCHANGED <<input, pc, cur, height, labels>>
  BY DEF SkipCommonPrefix
<1>2. \A q : LastLabel(q)' = LastLabel(q)
  BY <1>1 DEF LastLabel, GetNumItems
<1>3. SkippedInv' /\ NeededInv' /\ Scanning'
  BY <1>1, <1>2, SameKeys DEF KeysInv, SkippedInv, NeededInv, Scanning
<1>4. QED
  BY <1>1, <1>3, SameKeys DEF KeysInv

(* The byte at which skipCommonPrefix stops is one the previous key does not
   have, while it has all bytes before. *)
LEMMA InsertFirstByteKeys ==
  ASSUME DenseInv, KeysInv, InsertFirstByte
  PROVE  KeysInv'
<1>1. /\ LoudsInv /\ TypeInv /\ SortedInv /\ SkipInv /\ KeysInOrder /\ SkippedInv
      /\ pc = "skip" /\ pc' \in {"rest", "store"} /\ level' = level + 1
      /\ UNCHANGED <<input, cur>>
  BY DEF DenseInv, SortedInv, LoudsInv, KeysInv, InsertFirstByte
<1>2. /\ cur \in 1 .. NumKeys /\ NumKeys \in Nat /\ input.skip_prefix \in Nat
      /\ level \in Nat /\ level <= height /\ height \in Nat /\ cur \in Nat
  <2>1. cur \in 1 .. NumKeys /\ NumKeys \in Nat /\ input.skip_prefix \in Nat
    BY <1>1, KeyFacts
  <2>2. level \in 0 .. MaxLevel /\ level <= height /\ height \in 0 .. MaxLevel + 1
    BY <1>1, LevelFacts DEF TypeInv, TypeOK
  <2>3. QED
    BY <2>1, <2>2
<1>3. \A i \in 1 .. NumKeys : /\ SuffixLen(i) \in Nat \ {0} /\ Len(input.keys[i]) \in Nat
                              /\ \A q \in Nat : LabelOf(input.keys[i], q) \in Int
  BY <1>1 DEF KeysInOrder, KeyTyped
<1>4. /\ cur = 1 => level = 0
      /\ \A q \in 0 .. level - 1 : LastLabel(q) = LabelOf(input.keys[cur], q)
  BY <1>1, <1>2 DEF SkipInv, Key
<1>5. level + 1 <= SuffixLen(cur)
  <2>1. CASE cur = 1
    <3>1. SuffixLen(cur) \in Nat \ {0}
      BY <1>2, <1>3
    <3>2. QED
      BY <1>4, <2>1, <3>1
  <2>2. CASE cur > 1
    <3>1. PICK m \in Levels : RisesAt(m)
      BY <1>1, <2>2 DEF SortedInv
    <3>2. /\ m \in Nat /\ m + input.skip_prefix < Len(input.keys[cur])
          /\ LastLabel(m) < LabelOf(input.keys[cur], m)
      BY <3>1, ConstantsAssumption DEF RisesAt, Levels, Key
    <3>3. LabelOf(input.keys[cur], m) \in Int /\ Len(input.keys[cur]) \in Nat
      BY <1>2, <1>3, <3>2
    <3>4. ~(m < level)
      <4>1. m < level => m \in 0 .. level - 1
        BY <1>2, <3>2
      <4>2. QED
        BY <1>4, <3>2, <3>3, <4>1
    <3>5. QED
      BY <1>2, <3>2, <3>3, <3>4 DEF SuffixLen
  <2>3. QED
    BY <1>2, <2>1, <2>2
<1>6. ASSUME cur > 1
      PROVE  /\ ~Agree(cur - 1, cur, level + 1)
             /\ level <= SuffixLen(cur - 1) /\ Agree(cur - 1, cur, level)
             /\ input.keys[cur - 1] # input.keys[cur]
  <2>1. PICK t \in 0 .. height :
          /\ t <= SuffixLen(cur - 1)
          /\ \A q \in 0 .. t - 1 : LastLabel(q) = LabelOf(input.keys[cur - 1], q)
          /\ ~Agree(cur - 1, cur, t)
    BY <1>1, <1>6 DEF SkippedInv
  <2>2. PICK d \in 0 .. t - 1 :
          LabelOf(input.keys[cur - 1], d) # LabelOf(input.keys[cur], d)
    BY <2>1 DEF Agree
  <2>3. t \in Nat /\ d \in Nat /\ d < t
    BY <2>1, <2>2
  <2>4. ~(d < level)
    <3>1. d < level => d \in 0 .. level - 1
      BY <1>2, <2>3
    <3>2. QED
      BY <1>4, <2>1, <2>2, <3>1
  <2>5. level < t /\ level \in 0 .. t - 1
    BY <1>2, <2>3, <2>4
  <2>6. LabelOf(input.keys[cur - 1], level) # LabelOf(input.keys[cur], level)
    <3>1. LastLabel(level) < LabelOf(input.keys[cur], level)
      BY <1>1, <1>6, StopsWhereItRises DEF Key
    <3>2. LastLabel(level) = LabelOf(input.keys[cur - 1], level)
      BY <2>1, <2>5
    <3>3. LabelOf(input.keys[cur], level) \in Int
      BY <1>2, <1>3
    <3>4. QED
      BY <3>1, <3>2, <3>3
  <2>7. ~Agree(cur - 1, cur, level + 1)
    <3>1. level \in 0 .. (level + 1) - 1
      BY <1>2
    <3>2. QED
      BY <2>6, <3>1 DEF Agree
  <2>8. Agree(cur - 1, cur, level)
    <3> SUFFICES ASSUME NEW q \in 0 .. level - 1
                 PROVE  LabelOf(input.keys[cur - 1], q) = LabelOf(input.keys[cur], q)
      BY DEF Agree
    <3>1. q \in 0 .. t - 1
      BY <1>2, <2>5
    <3>2. QED
      BY <1>4, <2>1, <3>1
  <2>9. level <= SuffixLen(cur - 1)
    <3>1. cur - 1 \in 1 .. NumKeys
      BY <1>2, <1>6
    <3>2. SuffixLen(cur - 1) \in Nat
      BY <1>3, <3>1
    <3>3. QED
      BY <1>2, <2>1, <2>3, <2>5, <3>2
  <2>10. QED
    BY <2>6, <2>7, <2>8, <2>9
<1>7. \A k \in cur + 1 .. nxt' - 1 : input.keys[k] = input.keys[cur]
  <2>1. PICK j \in cur + 1 .. NumKeys + 1 :
          /\ \A k \in cur + 1 .. j - 1 : SameKey(Key, input.keys[k])
          /\ nxt' = j
    BY DEF InsertFirstByte
  <2>2. \A k \in cur + 1 .. j - 1 : k \in 1 .. NumKeys
    BY <1>2
  <2>3. QED
    BY <1>1, <1>2, <2>1, <2>2, SameKeyExact DEF Key
<1>8. level + 1 > 1 => \E j \in 1 .. NumKeys : /\ input.keys[j] # input.keys[cur]
                                               /\ (level + 1) - 1 <= SuffixLen(j)
                                               /\ Agree(j, cur, (level + 1) - 1)
  <2> SUFFICES ASSUME level + 1 > 1
               PROVE  \E j \in 1 .. NumKeys : /\ input.keys[j] # input.keys[cur]
                                              /\ level <= SuffixLen(j) /\ Agree(j, cur, level)
    <3>1. (level + 1) - 1 = level
      BY <1>2
    <3>2. QED
      BY <3>1
  <2>1. cur > 1 /\ cur - 1 \in 1 .. NumKeys
    BY <1>2, <1>4
  <2>2. QED
    BY <1>6, <2>1
<1>9. NeededInv'
  <2>1. /\ level' = level + 1 /\ cur' = cur /\ input' = input
    BY <1>1
  <2>2. QED
    BY <1>5, <1>6, <1>7, <1>8, <2>1, SameKeys DEF NeededInv
<1>10. QED
  BY <1>1, <1>9, SameKeys DEF KeysInv, SkippedInv, Scanning

(* The successor has the byte inserted last, so another one is needed. *)
LEMMA InsertNextByteKeys ==
  ASSUME DenseInv, KeysInv, InsertNextByte
  PROVE  KeysInv'
<1>1. /\ LoudsInv /\ TypeInv /\ SortedInv /\ KeysInOrder /\ NeededInv /\ SharedInv
      /\ pc = "rest" /\ pc' = "rest" /\ level' = level + 1
      /\ SharesLastByte /\ UNCHANGED <<input, cur, nxt>>
  BY DEF DenseInv, SortedInv, LoudsInv, KeysInv, InsertNextByte
<1>2. /\ cur \in 1 .. NumKeys /\ NumKeys \in Nat /\ input.skip_prefix \in Nat
      /\ level \in Nat /\ level >= 1 /\ nxt \in Nat /\ nxt > cur
  <2>1. cur \in 1 .. NumKeys /\ NumKeys \in Nat /\ input.skip_prefix \in Nat
    BY <1>1, KeyFacts
  <2>2. level \in 1 .. MaxLevel + 1 /\ nxt \in 1 .. NumKeys + 1 /\ nxt > cur
    BY <1>1, LevelFacts DEF TypeInv, TypeOK, StructInv
  <2>3. QED
    BY <2>1, <2>2
<1>3. \A i \in 1 .. NumKeys : /\ SuffixLen(i) \in Nat \ {0} /\ Len(input.keys[i]) \in Nat
                              /\ \A q \in Nat : LabelOf(input.keys[i], q) \in Int
  BY <1>1 DEF KeysInOrder, KeyTyped
<1>4. nxt \in 1 .. NumKeys /\ KeyAt(nxt) = input.keys[nxt]
  <2>1. level + input.skip_prefix < Len(KeyAt(nxt))
    BY <1>1 DEF SharesLastByte
  <2>2. nxt <= NumKeys
    <3> SUFFICES ASSUME ~(nxt <= NumKeys) PROVE FALSE
      OBVIOUS
    <3>1. KeyAt(nxt) = << >>
      BY DEF KeyAt
    <3>2. QED
      BY <1>2, <2>1, <3>1
  <2>3. QED
    BY <1>2, <2>2 DEF KeyAt
<1>5. level + 1 <= SuffixLen(cur) /\ level <= SuffixLen(nxt)
  <2>1. /\ level + input.skip_prefix < Len(input.keys[cur])
        /\ level + input.skip_prefix < Len(input.keys[nxt])
    BY <1>1, <1>4 DEF SharesLastByte, Key
  <2>2. Len(input.keys[cur]) \in Nat /\ Len(input.keys[nxt]) \in Nat
    BY <1>2, <1>3, <1>4
  <2>3. QED
    BY <1>2, <2>1, <2>2 DEF SuffixLen
<1>6. Agree(nxt, cur, level)
  <2> SUFFICES ASSUME NEW q \in 0 .. level - 1
               PROVE  LabelOf(input.keys[nxt], q) = LabelOf(input.keys[cur], q)
    BY DEF Agree
  <2>1. q \in 0 .. level - 2 \/ q = level - 1
    BY <1>2
  <2>2. QED
    BY <1>1, <1>4, <2>1 DEF SharedInv, SharesLastByte, Key
<1>7. input.keys[nxt] # input.keys[cur]
  <2>1. Precedes(input.keys[cur], input.keys[nxt], input.skip_prefix)
    BY <1>1, <1>4 DEF SortedInv, Key
  <2>2. PICK m \in Levels :
          LabelOf(input.keys[cur], m) < LabelOf(input.keys[nxt], m)
    BY <2>1 DEF Precedes, LabelOf
  <2>3. m \in Nat
    BY ConstantsAssumption DEF Levels
  <2>4. LabelOf(input.keys[cur], m) \in Int
    BY <1>2, <1>3, <2>3
  <2>5. QED
    BY <2>2, <2>4
<1>8. ASSUME cur > 1
      PROVE  ~Agree(cur - 1, cur, level + 1)
  <2>1. ~Agree(cur - 1, cur, level)
    BY <1>1, <1>8 DEF NeededInv
  <2>2. level \in Int /\ level + 1 \in Int /\ level <= level + 1
    BY <1>2
  <2>3. QED
    BY <2>1, <2>2, AgreeLess
<1>9. (level + 1) - 1 = level
  BY <1>2
<1>10. \A k \in cur + 1 .. nxt - 1 : input.keys[k] = input.keys[cur]
  BY <1>1 DEF NeededInv
<1>11. NeededInv'
  <2>1. level' = level + 1 /\ cur' = cur /\ input' = input /\ nxt' = nxt
    BY <1>1
  <2>2. QED
    BY <1>4, <1>5, <1>6, <1>7, <1>8, <1>9, <1>10, <2>1, SameKeys DEF NeededInv
<1>12. QED
  BY <1>1, <1>11, SameKeys DEF KeysInv, SkippedInv, Scanning

(* The key stored last differs from the next one on the levels it was inserted
   on. *)
LEMMA StoreValueKeys ==
  ASSUME DenseInv, KeysInv, StoreValue
  PROVE  KeysInv'
<1>1. /\ LoudsInv /\ TypeInv /\ PathInv /\ KeysInOrder /\ NeededInv
      /\ pc \in {"rest", "store"} /\ cur' = nxt
      /\ UNCHANGED <<input, height, labels>>
      /\ pc' = IF nxt <= NumKeys THEN "skip"
               ELSE IF input.include_dense THEN "cutoff" ELSE "done"
  BY DEF DenseInv, SortedInv, LoudsInv, KeysInv, StoreValue, sparseVars
<1>2. /\ cur \in 1 .. NumKeys /\ NumKeys \in Nat /\ input.skip_prefix \in Nat
      /\ level \in Nat /\ level >= 1 /\ level \in 0 .. height
      /\ nxt \in 1 .. NumKeys + 1 /\ nxt > cur
  <2>1. cur \in 1 .. NumKeys /\ NumKeys \in Nat /\ input.skip_prefix \in Nat
    BY <1>1, KeyFacts
  <2>2. /\ level \in 1 .. MaxLevel + 1 /\ level <= height /\ height \in 0 .. MaxLevel + 1
        /\ nxt \in 1 .. NumKeys + 1 /\ nxt > cur
    BY <1>1, LevelFacts DEF TypeInv, TypeOK, StructInv
  <2>3. QED
    BY <2>1, <2>2
<1>3. ASSUME nxt <= NumKeys
      PROVE  SkippedInv'
  <2>1. input.keys[nxt - 1] = input.keys[cur]
    <3>1. nxt - 1 = cur \/ nxt - 1 \in cur + 1 .. nxt - 1
      BY <1>2
    <3>2. QED
      BY <1>1, <3>1 DEF NeededInv
  <2>2. \A q : LabelOf(input.keys[nxt - 1], q) = LabelOf(input.keys[cur], q)
    BY <2>1
  <2>3. level <= SuffixLen(nxt - 1)
    BY <1>1, <2>1 DEF NeededInv, SuffixLen
  <2>4. \A q \in 0 .. level - 1 : LastLabel(q) = LabelOf(input.keys[nxt - 1], q)
    BY <1>1, <2>2 DEF PathInv, Key
  <2>5. ~Agree(nxt - 1, nxt, level)
    <3>1. PICK m \in 0 .. level - 1 : LabelOf(Key, m) # LabelOf(KeyAt(nxt), m)
      BY <1>1, <1>3, DiffersAtLeaf
    <3>2. KeyAt(nxt) = input.keys[nxt]
      BY <1>3 DEF KeyAt
    <3>3. QED
      BY <2>2, <3>1, <3>2 DEF Agree, Key
  <2>6. \A q : LastLabel(q)' = LastLabel(q)
    BY <1>1 DEF LastLabel, GetNumItems
  <2>7. input' = input /\ height' = height /\ cur' = nxt
    BY <1>1
  <2>8. QED
    BY <1>2, <2>3, <2>4, <2>5, <2>6, <2>7, SameKeys DEF SkippedInv
<1>4. CASE nxt <= NumKeys
  BY <1>1, <1>3, <1>4, SameKeys DEF KeysInv, NeededInv, Scanning
<1>5. CASE ~(nxt <= NumKeys)
  <2>1. nxt = NumKeys + 1 /\ pc' \in {"cutoff", "done"}
    BY <1>1, <1>2, <1>5
  <2>2. QED
    BY <1>1, <2>1, SameKeys DEF KeysInv, SkippedInv, NeededInv, Scanning
<1>6. QED
  BY <1>4, <1>5

(* Every step keeps what is known of the keys. *)
LEMMA KeysStep ==
  ASSUME DenseInv, KeysInv, [Next]_vars
  PROVE  KeysInv'
<1>1. CASE SkipCommonPrefix
  BY <1>1, SkipCommonPrefixKeys
<1>2. CASE InsertFirstByte
  BY <1>2, InsertFirstByteKeys
<1>3. CASE InsertNextByte
  BY <1>3, InsertNextByteKeys
<1>4. CASE StoreValue
  BY <1>4, StoreValueKeys
<1>5. CASE DetermineCutoffLevel \/ CollectValues \/ BuildDenseLevel \/ FinishBuild
  <2>1. ~Scanning /\ ~Scanning' /\ UNCHANGED <<input, cur>>
    BY <1>5 DEF Scanning, DetermineCutoffLevel, CollectValues, BuildDenseLevel, FinishBuild
  <2>2. QED
    BY <2>1, SameKeys DEF KeysInv, SkippedInv, NeededInv, Scanning
<1>6. CASE UNCHANGED vars
  <2>1. UNCHANGED <<input, pc, cur, nxt, level, height, labels>>
    BY <1>6 DEF vars, sparseVars
  <2>2. \A q : LastLabel(q)' = LastLabel(q)
    BY <2>1 DEF LastLabel, GetNumItems
  <2>3. SkippedInv' /\ NeededInv' /\ (Scanning' <=> Scanning)
    BY <2>1, <2>2, SameKeys DEF KeysInv, SkippedInv, NeededInv, Scanning
  <2>4. QED
    BY <2>1, <2>3, SameKeys DEF KeysInv
<1>7. QED
  BY <1>1, <1>2, <1>3, <1>4, <1>5, <1>6 DEF Next, Terminated

-------------------------------------------------------------------------------
(* The entries of the vectors *)

ValueLists == [l \in Levels |-> ValuesOf(l)]

(* The entries are read from the vectors and the lists of values. *)
LEMMA EntriesAre ==
  TypeInv => entries = EntriesIn(labels, louds_bits, child_indicator_bits, ValueLists, height)
<1> SUFFICES ASSUME TypeInv
             PROVE  entries
                      = EntriesIn(labels, louds_bits, child_indicator_bits, ValueLists, height)
  OBVIOUS
<1> DEFINE rank(l, p) == Cardinality({q \in Leaves(l) : q <= p})
           held(l) == {<<PathTo(l, p), ValuesOf(l)[rank(l, p)]>> :
                         p \in {q \in Leaves(l) : rank(l, q) <= Len(ValuesOf(l))}}
           of(l) == {EntryOf(labels, louds_bits, child_indicator_bits, ValueLists, l, p) :
                       p \in ValuedOf(labels, child_indicator_bits, ValueLists, l)}
<1>1. entries = UNION {held(l) : l \in 0 .. height - 1}
  BY DEF entries
<1>2. EntriesIn(labels, louds_bits, child_indicator_bits, ValueLists, height)
        = UNION {of(l) : l \in 0 .. height - 1}
  BY DEF EntriesIn
<1>3. \A l \in 0 .. height - 1 : l \in Levels
  <2>1. height \in 0 .. MaxLevel + 1 /\ MaxLevel \in Nat
    BY ConstantsAssumption DEF TypeInv, TypeOK
  <2>2. QED
    BY <2>1 DEF Levels
<1>4. ASSUME NEW l \in 0 .. height - 1
      PROVE  held(l) = of(l)
  <2>1. ValueLists[l] = ValuesOf(l)
    BY <1>3 DEF ValueLists
  <2>2. Leaves(l) = LeavesOf(labels, child_indicator_bits, l)
    BY DEF Leaves, LeavesOf, Positions, GetNumItems
  <2>3. \A p : rank(l, p) = RankOf(labels, child_indicator_bits, l, p)
    BY <2>2 DEF RankOf
  <2>4. \A p : PathTo(l, p) = PathOf(labels, louds_bits, child_indicator_bits, l, p)
    BY DEF PathTo, PathOf, ParentPos, ParentOf, NodeOf
  <2> HIDE DEF rank
  <2>5. {q \in Leaves(l) : rank(l, q) <= Len(ValuesOf(l))}
          = ValuedOf(labels, child_indicator_bits, ValueLists, l)
    <3>1. ValuedOf(labels, child_indicator_bits, ValueLists, l)
            = {q \in Leaves(l) : RankOf(labels, child_indicator_bits, l, q) <= Len(ValuesOf(l))}
      BY <2>1, <2>2 DEF ValuedOf
    <3>2. \A q : rank(l, q) <= Len(ValuesOf(l))
                 <=> RankOf(labels, child_indicator_bits, l, q) <= Len(ValuesOf(l))
      BY <2>3
    <3>3. QED
      BY <3>1, <3>2, Zenon
  <2>6. \A p : <<PathTo(l, p), ValuesOf(l)[rank(l, p)]>>
                 = EntryOf(labels, louds_bits, child_indicator_bits, ValueLists, l, p)
    BY <2>1, <2>3, <2>4, Zenon DEF EntryOf
  <2>7. QED
    BY <2>5, <2>6, Zenon
<1> HIDE DEF held, of
<1>5. UNION {held(l) : l \in 0 .. height - 1} = UNION {of(l) : l \in 0 .. height - 1}
  BY <1>4, Zenon
<1>6. QED
  BY <1>1, <1>2, <1>5

(* Every node but the root is the child of an item of the level above. *)
LEMMA LinkedNow ==
  DenseInv => Linked(labels, louds_bits, child_indicator_bits, height)
<1> SUFFICES ASSUME DenseInv
             PROVE  Linked(labels, louds_bits, child_indicator_bits, height)
  OBVIOUS
<1>1. LoudsInv /\ FirstInv /\ LoudsAligned /\ TypeInv
  BY DEF DenseInv, SortedInv, LoudsInv
<1>2. height \in 0 .. MaxLevel + 1 /\ MaxLevel \in Nat /\ height \in Nat
  BY <1>1, ConstantsAssumption DEF TypeInv, TypeOK
<1>3. ASSUME NEW m \in 0 .. height - 1
      PROVE  /\ Len(labels[m]) \in Nat
             /\ louds_bits[m] \in SUBSET Positions(labels, m)
             /\ child_indicator_bits[m] \in SUBSET Positions(labels, m)
             /\ 0 \in louds_bits[m]
  <2>1. m \in Levels /\ m < height
    BY <1>2 DEF Levels
  <2>2. /\ GetNumItems(m) \in Nat /\ GetNumItems(m) = Len(labels[m])
        /\ child_indicator_bits[m] \in SUBSET (0 .. GetNumItems(m) - 1)
        /\ louds_bits[m] \in SUBSET (0 .. GetNumItems(m) - 1)
    BY <1>1, <2>1, LevelCounts
  <2>3. 0 \in louds_bits[m]
    BY <1>1, <2>1 DEF FirstInv
  <2>4. QED
    BY <2>2, <2>3 DEF Positions
<1>4. ASSUME NEW m \in 1 .. height - 1
      PROVE  Cardinality(louds_bits[m]) = Cardinality(child_indicator_bits[m - 1])
  <2>1. m \in Levels /\ m < height /\ m # 0
    BY <1>2 DEF Levels
  <2>2. QED
    BY <1>1, <2>1 DEF LoudsAligned
<1>5. QED
  BY <1>2, <1>3, <1>4 DEF Linked

(* All leaves have a value but that of the key being inserted. *)
Waiting(l) == {p \in Leaves(l) : Pending(l) = 1 /\ p = LastPos(l)}

(* A level has a value for each leaf but the one that waits for it. *)
LEMMA ValuedNow ==
  DenseInv /\ ~ValuesCleared =>
    \A l \in 0 .. height - 1 :
      /\ Len(values[l]) = Cardinality(Leaves(l)) - Pending(l)
      /\ Cardinality(Leaves(l)) \in Nat /\ Pending(l) \in {0, 1}
      /\ ValuedOf(labels, child_indicator_bits, values, l) = Leaves(l) \ Waiting(l)
      /\ \A p \in Leaves(l) : RankOf(labels, child_indicator_bits, l, p) \in Nat \ {0}
      /\ Pending(l) = 1 => /\ LastPos(l) \in Leaves(l)
                           /\ RankOf(labels, child_indicator_bits, l, LastPos(l))
                                = Cardinality(Leaves(l))
<1> SUFFICES ASSUME DenseInv, ~ValuesCleared, NEW l \in 0 .. height - 1
    PROVE  /\ Len(values[l]) = Cardinality(Leaves(l)) - Pending(l)
           /\ Cardinality(Leaves(l)) \in Nat /\ Pending(l) \in {0, 1}
           /\ ValuedOf(labels, child_indicator_bits, values, l) = Leaves(l) \ Waiting(l)
           /\ \A p \in Leaves(l) : RankOf(labels, child_indicator_bits, l, p) \in Nat \ {0}
           /\ Pending(l) = 1 => /\ LastPos(l) \in Leaves(l)
                                /\ RankOf(labels, child_indicator_bits, l, LastPos(l))
                                     = Cardinality(Leaves(l))
  OBVIOUS
<1>1. LoudsInv /\ TypeInv /\ ValuesAligned /\ PathInv
  BY DEF DenseInv, SortedInv, LoudsInv
<1>2. l \in Levels /\ l < height /\ l \in Nat
  <2>1. height \in 0 .. MaxLevel + 1 /\ MaxLevel \in Nat
    BY <1>1, ConstantsAssumption DEF TypeInv, TypeOK
  <2>2. QED
    BY <2>1 DEF Levels
<1> DEFINE n == GetNumItems(l)
           C == child_indicator_bits[l]
           L == Leaves(l)
           rank(p) == Cardinality({q \in L : q <= p})
<1>3. /\ n \in Nat /\ C \in SUBSET (0 .. n - 1) /\ Cardinality(C) \in Nat
      /\ Len(values[l]) \in Nat /\ LastPos(l) = n - 1 /\ n = Len(labels[l])
  BY <1>1, <1>2, LevelCounts
<1>4. L = (0 .. n - 1) \ C
  BY DEF Leaves
<1>5. /\ L = LeavesOf(labels, child_indicator_bits, l)
      /\ \A p : RankOf(labels, child_indicator_bits, l, p) = rank(p)
  BY DEF Leaves, LeavesOf, Positions, GetNumItems, RankOf
<1>6. Pending(l) \in {0, 1} /\ Len(values[l]) + Cardinality(C) + Pending(l) = n
  BY <1>1, <1>2 DEF ValuesAligned, Pending
<1>7. Pending(l) = 1 => n - 1 \in L
  <2> SUFFICES ASSUME Pending(l) = 1 PROVE n - 1 \in L
    OBVIOUS
  <2>1. pc \in {"rest", "store"} /\ l = level - 1
    BY DEF Pending
  <2>2. LastPos(l) \notin C
    BY <1>1, <2>1 DEF PathInv
  <2>3. n > 0
    <3>1. LastPos(l) \in Nat
      BY <1>1, <1>2, LastPosType
    <3>2. QED
      BY <1>3, <3>1
  <2>4. QED
    BY <1>3, <1>4, <2>2, <2>3
<1> HIDE DEF n, C, L
<1>8. /\ Cardinality(L) = n - Cardinality(C) /\ Cardinality(L) \in Nat
      /\ \A p \in L : /\ rank(p) \in Nat \ {0}
                      /\ rank(p) <= Cardinality(L)
                      /\ p # n - 1 /\ n - 1 \in L => rank(p) <= Cardinality(L) - 1
      /\ n - 1 \in L => rank(n - 1) = Cardinality(L)
  <2>1. n \in Nat /\ C \in SUBSET (0 .. n - 1)
    BY <1>3
  <2>2. LeavesCount(n, C, L)
    BY <1>4, <2>1, LeafCounts
  <2>3. QED
    BY <2>2, Zenon DEF LeavesCount
<1> HIDE DEF rank
<1>9. Len(values[l]) = Cardinality(L) - Pending(l)
  BY <1>3, <1>6, <1>8
<1>10. \A p \in L : rank(p) <= Len(values[l]) <=> ~(Pending(l) = 1 /\ p = n - 1)
  <2> SUFFICES ASSUME NEW p \in L
               PROVE  rank(p) <= Len(values[l]) <=> ~(Pending(l) = 1 /\ p = n - 1)
    OBVIOUS
  <2>1. CASE Pending(l) = 0
    BY <1>8, <1>9, <2>1
  <2>2. CASE Pending(l) = 1
    BY <1>7, <1>8, <1>9, <2>2
  <2>3. QED
    BY <1>6, <2>1, <2>2
<1>11. ValuedOf(labels, child_indicator_bits, values, l) = {p \in L : rank(p) <= Len(values[l])}
  <2>1. ValuedOf(labels, child_indicator_bits, values, l)
          = {p \in L : RankOf(labels, child_indicator_bits, l, p) <= Len(values[l])}
    BY <1>5 DEF ValuedOf
  <2>2. \A p : rank(p) <= Len(values[l])
               <=> RankOf(labels, child_indicator_bits, l, p) <= Len(values[l])
    BY <1>5
  <2>3. QED
    BY <2>1, <2>2, Zenon
<1>12. {p \in L : rank(p) <= Len(values[l])} = L \ {p \in L : Pending(l) = 1 /\ p = n - 1}
  BY <1>10, Zenon
<1>13. Waiting(l) = {p \in L : Pending(l) = 1 /\ p = n - 1}
  BY <1>3 DEF Waiting, L
<1>14. QED
  BY <1>3, <1>5, <1>6, <1>7, <1>8, <1>9, <1>11, <1>12, <1>13 DEF L

(* While values_ has the values, it gives those of the entries. *)
LEMMA EntriesNow ==
  TypeInv /\ ~ValuesCleared =>
    entries = EntriesIn(labels, louds_bits, child_indicator_bits, values, height)
<1> SUFFICES ASSUME TypeInv, ~ValuesCleared
             PROVE  entries = EntriesIn(labels, louds_bits, child_indicator_bits, values, height)
  OBVIOUS
<1>1. ValueLists = values
  BY DEF ValueLists, ValuesOf, TypeInv, TypeOK
<1>2. QED
  BY <1>1, EntriesAre

(* The leaves with a value are all but the one that waits for it. *)
LEMMA ValuedLeaves ==
  DenseInv /\ ~ValuesCleared =>
    \A l \in 0 .. height - 1 :
      ValuedOf(labels, child_indicator_bits, values, l) = Leaves(l) \ Waiting(l)
BY ValuedNow

(* What both insertions do: one item comes last on the level, and the item above
   it has a child. *)
LEMMA InsertionEffect ==
  ASSUME DenseInv, InsertFirstByte \/ InsertNextByte
  PROVE  /\ level \in Levels /\ level \in Nat /\ height \in Nat /\ level <= height
         /\ height' = height \/ (level = height /\ height' = height + 1)
         /\ pc \in {"skip", "rest"} /\ pc' \in {"rest", "store"} /\ level' = level + 1
         /\ values' = values
         /\ \E c \in Label : labels' = [labels EXCEPT ![level] = Append(@, c)]
         /\ \A m \in Levels :
              \/ louds_bits'[m] = louds_bits[m]
              \/ louds_bits'[m] = louds_bits[m] \cup {GetNumItems(m)}
         /\ \A m \in Levels :
              child_indicator_bits'[m] =
                IF pc = "rest" /\ m = level - 1 THEN child_indicator_bits[m] \cup {LastPos(m)}
                ELSE child_indicator_bits[m]
<1>1. LoudsInv /\ TypeInv
  BY DEF DenseInv, SortedInv, LoudsInv
<1>2. /\ height \in Nat
      /\ louds_bits \in [Levels -> SUBSET Nat] /\ child_indicator_bits \in [Levels -> SUBSET Nat]
      /\ labels \in [Levels -> Seq(Label)]
  BY <1>1 DEF TypeInv, TypeOK
<1>3. pc \in {"skip", "rest", "store"}
  BY DEF InsertFirstByte, InsertNextByte
<1>4. Key \in Seq(Label) /\ input.skip_prefix \in Nat
  BY <1>1, <1>3, KeyFacts
<1>5. CASE InsertFirstByte
  <2>1. pc = "skip" /\ pc' \in {"rest", "store"} /\ level' = level + 1 /\ values' = values
    BY <1>5 DEF InsertFirstByte
  <2>2. /\ level \in Levels /\ level \in Nat
        /\ labels' = [labels EXCEPT ![level] = Append(@, LabelOf(Key, level))]
        /\ child_indicator_bits' = child_indicator_bits
        /\ \/ /\ level = 0 /\ height = 0 /\ height' = 1
              /\ louds_bits' = [louds_bits EXCEPT ![0] = @ \cup {GetNumItems(0)}]
           \/ /\ level < height
              /\ UNCHANGED <<height, louds_bits, node_counts>>
    BY <1>1, <1>5, InsertFirstByteEffect
  <2>3. LabelOf(Key, level) \in Label
    BY <1>4, <2>2, LabelOfType
  <2>4. \A m \in Levels : \/ louds_bits'[m] = louds_bits[m]
                          \/ louds_bits'[m] = louds_bits[m] \cup {GetNumItems(m)}
    BY <1>2, <2>2
  <2>5. level <= height /\ (height' = height \/ (level = height /\ height' = height + 1))
    BY <1>2, <2>2
  <2>6. QED
    BY <1>2, <2>1, <2>2, <2>3, <2>4, <2>5
<1>6. CASE InsertNextByte
  <2>1. /\ pc = "rest" /\ pc' = "rest" /\ level' = level + 1
        /\ level \in Levels /\ level - 1 \in Levels /\ level \in Nat
        /\ level <= height
        /\ height' = IF level = height THEN height + 1 ELSE height
        /\ values' = values
        /\ labels' = [labels EXCEPT ![level] = Append(@, LabelOf(Key, level))]
        /\ child_indicator_bits' =
             [child_indicator_bits EXCEPT ![level - 1] = @ \cup {LastPos(level - 1)}]
        /\ louds_bits' = [louds_bits EXCEPT ![level] = @ \cup {GetNumItems(level)}]
    BY <1>1, <1>6, InsertNextByteEffect
  <2>2. LabelOf(Key, level) \in Label
    BY <1>4, <2>1, LabelOfType
  <2>3. \A m \in Levels : \/ louds_bits'[m] = louds_bits[m]
                          \/ louds_bits'[m] = louds_bits[m] \cup {GetNumItems(m)}
    BY <1>2, <2>1
  <2>4. \A m \in Levels :
          child_indicator_bits'[m] =
            IF m = level - 1 THEN child_indicator_bits[m] \cup {LastPos(m)}
            ELSE child_indicator_bits[m]
    BY <1>2, <2>1
  <2>5. height' = height \/ (level = height /\ height' = height + 1)
    BY <2>1
  <2>6. QED
    BY <1>2, <2>1, <2>2, <2>3, <2>4, <2>5
<1>7. QED
  BY <1>5, <1>6

(* An insertion brings a leaf that has no value yet, and takes one away. *)
LEMMA InsertionLeaves ==
  ASSUME DenseInv, InsertFirstByte \/ InsertNextByte, NEW l \in 0 .. height' - 1
  PROVE  Leaves(l)' \ Waiting(l)' = IF l < height THEN Leaves(l) \ Waiting(l) ELSE {}
<1>1. LoudsInv /\ TypeInv
  BY DEF DenseInv, SortedInv, LoudsInv
<1>2. /\ level \in Levels /\ level \in Nat /\ height \in Nat /\ level <= height
      /\ height' = height \/ (level = height /\ height' = height + 1)
      /\ pc \in {"skip", "rest"} /\ pc' \in {"rest", "store"} /\ level' = level + 1
      /\ \A m \in Levels :
           child_indicator_bits'[m] =
             IF pc = "rest" /\ m = level - 1 THEN child_indicator_bits[m] \cup {LastPos(m)}
             ELSE child_indicator_bits[m]
  BY InsertionEffect
<1>3. l \in Levels /\ l \in Nat /\ (l # level => l < height)
  <2>1. l \in Nat /\ (l # level => l < height) /\ l <= height
    BY <1>2
  <2>2. l \in Levels
    <3>1. height \in 0 .. MaxLevel + 1 /\ MaxLevel \in Nat
      BY <1>1, ConstantsAssumption DEF TypeInv, TypeOK
    <3>2. QED
      BY <1>2, <2>1, <3>1 DEF Levels
  <2>3. QED
    BY <2>1, <2>2
<1>4. PICK c \in Label : labels' = [labels EXCEPT ![level] = Append(@, c)]
  BY InsertionEffect
<1> DEFINE n == GetNumItems(l)
           C == child_indicator_bits[l]
<1>5. /\ n \in Nat /\ C \in SUBSET (0 .. n - 1) /\ LastPos(l) = n - 1 /\ n = Len(labels[l])
      /\ l >= height => n = 0 /\ C = {}
  BY <1>1, <1>3, LevelCounts
<1>6. Leaves(l) = (0 .. n - 1) \ C
  BY DEF Leaves
<1>7. Leaves(l)' = (0 .. GetNumItems(l)' - 1) \ child_indicator_bits'[l]
  BY DEF Leaves
<1>8. GetNumItems(l)' = IF l = level THEN n + 1 ELSE n
  <2>1. /\ Len(labels'[level]) = GetNumItems(level) + 1
        /\ \A q \in Levels : q # level => labels'[q] = labels[q]
    BY <1>1, <1>2, <1>4, AppendedItem
  <2>2. QED
    BY <1>3, <2>1 DEF GetNumItems
<1>9. LastPos(l)' = GetNumItems(l)' - 1
  BY DEF LastPos
<1>10. /\ Waiting(l) = {p \in Leaves(l) : Pending(l) = 1 /\ p = LastPos(l)}
       /\ Waiting(l)' = {p \in Leaves(l)' : Pending(l)' = 1 /\ p = LastPos(l)'}
  BY DEF Waiting
<1>11. /\ Pending(l) = IF pc = "rest" /\ l = level - 1 THEN 1 ELSE 0
       /\ Pending(l)' = IF l = level THEN 1 ELSE 0
  <2>1. l = level' - 1 <=> l = level
    BY <1>2
  <2>2. QED
    BY <1>2, <2>1 DEF Pending
<1>12. child_indicator_bits'[l] = IF pc = "rest" /\ l = level - 1 THEN C \cup {n - 1} ELSE C
  BY <1>2, <1>3, <1>5
<1> DEFINE L == Leaves(l)
           L2 == Leaves(l)'
           W == Waiting(l)
           W2 == Waiting(l)'
<1> HIDE DEF n, C, L, L2, W, W2
<1>13. CASE l = level
  <2>1. level # level - 1
    BY <1>2
  <2>2. L2 = (0 .. n) \ C /\ W2 = {p \in L2 : p = n}
    <3>1. (n + 1) - 1 = n
      BY <1>5
    <3>2. QED
      BY <1>7, <1>8, <1>9, <1>10, <1>11, <1>12, <1>13, <2>1, <3>1 DEF L2, W2
  <2>3. W = {} /\ L = (0 .. n - 1) \ C
    BY <1>6, <1>10, <1>11, <1>13, <2>1 DEF W, L
  <2>4. L2 \ W2 = L \ W
    BY <1>5, <2>2, <2>3
  <2>5. l >= height => L = {}
    BY <1>5, <2>3
  <2>6. l < height \/ l >= height
    BY <1>2, <1>3
  <2>7. QED
    BY <2>4, <2>5, <2>6 DEF L, L2, W, W2
<1>14. CASE l # level
  <2>1. l < height /\ W2 = {}
    BY <1>3, <1>10, <1>11, <1>14 DEF W2
  <2>2. CASE pc = "rest" /\ l = level - 1
    <3>1. L2 = (0 .. n - 1) \ (C \cup {n - 1})
      BY <1>7, <1>8, <1>12, <1>14, <2>2 DEF L2
    <3>2. L = (0 .. n - 1) \ C /\ W = {p \in L : p = n - 1}
      BY <1>5, <1>6, <1>10, <1>11, <2>2 DEF L, W
    <3>3. L2 \ W2 = L \ W
      BY <2>1, <3>1, <3>2
    <3>4. QED
      BY <2>1, <3>3 DEF L, L2, W, W2
  <2>3. CASE ~(pc = "rest" /\ l = level - 1)
    <3>1. L2 = (0 .. n - 1) \ C
      BY <1>7, <1>8, <1>12, <1>14, <2>3 DEF L2
    <3>2. L = (0 .. n - 1) \ C /\ W = {}
      BY <1>6, <1>10, <1>11, <2>3 DEF L, W
    <3>3. QED
      BY <2>1, <3>1, <3>2 DEF L, L2, W, W2
  <2>4. QED
    BY <2>2, <2>3
<1>15. QED
  BY <1>13, <1>14

(* The older items keep their places. *)
LEMMA InsertionAppends ==
  ASSUME DenseInv, InsertFirstByte \/ InsertNextByte
  PROVE  Appended(labels, louds_bits, child_indicator_bits,
                  labels', louds_bits', child_indicator_bits', height)
<1>1. LoudsInv /\ TypeInv
  BY DEF DenseInv, SortedInv, LoudsInv
<1>2. /\ level \in Levels
      /\ \A m \in Levels :
           \/ louds_bits'[m] = louds_bits[m]
           \/ louds_bits'[m] = louds_bits[m] \cup {GetNumItems(m)}
      /\ \A m \in Levels :
           \/ child_indicator_bits'[m] = child_indicator_bits[m]
           \/ child_indicator_bits'[m] = child_indicator_bits[m] \cup {LastPos(m)}
  BY InsertionEffect
<1>3. PICK c \in Label : labels' = [labels EXCEPT ![level] = Append(@, c)]
  BY InsertionEffect
<1> SUFFICES ASSUME NEW m \in 0 .. height - 1
             PROVE  /\ Len(labels[m]) <= Len(labels'[m])
                    /\ \A q \in Positions(labels, m) : labels'[m][q + 1] = labels[m][q + 1]
                    /\ louds_bits[m] \subseteq louds_bits'[m]
                    /\ \A s \in louds_bits'[m] : s \in louds_bits[m] \/ s >= Len(labels[m])
                    /\ child_indicator_bits[m] \subseteq child_indicator_bits'[m]
                    /\ \A s \in child_indicator_bits'[m] :
                         s \in child_indicator_bits[m] \/ s >= Len(labels[m]) - 1
  BY DEF Appended
<1>4. m \in Levels
  <2>1. height \in 0 .. MaxLevel + 1 /\ MaxLevel \in Nat
    BY <1>1, ConstantsAssumption DEF TypeInv, TypeOK
  <2>2. QED
    BY <2>1 DEF Levels
<1>5. /\ labels[m] \in Seq(Label) /\ Len(labels[m]) \in Nat
      /\ GetNumItems(m) = Len(labels[m]) /\ LastPos(m) = Len(labels[m]) - 1
  BY <1>1, <1>4, LevelCounts
<1>6. labels'[m] = labels[m] \/ labels'[m] = Append(labels[m], c)
  BY <1>1, <1>3, <1>4 DEF TypeInv, TypeOK
<1>7. /\ Len(labels[m]) <= Len(labels'[m])
      /\ \A q \in Positions(labels, m) : labels'[m][q + 1] = labels[m][q + 1]
  <2>1. \A q \in Positions(labels, m) : q + 1 \in 1 .. Len(labels[m])
    BY <1>5 DEF Positions
  <2>2. CASE labels'[m] = labels[m]
    BY <1>5, <2>2
  <2>3. CASE labels'[m] = Append(labels[m], c)
    <3>1. /\ Len(Append(labels[m], c)) = Len(labels[m]) + 1
          /\ \A q \in 1 .. Len(labels[m]) : Append(labels[m], c)[q] = labels[m][q]
      BY <1>5
    <3>2. QED
      BY <1>5, <2>1, <2>3, <3>1
  <2>4. QED
    BY <1>6, <2>2, <2>3
<1>8. /\ louds_bits[m] \subseteq louds_bits'[m]
      /\ \A s \in louds_bits'[m] : s \in louds_bits[m] \/ s >= Len(labels[m])
  BY <1>2, <1>4, <1>5
<1>9. /\ child_indicator_bits[m] \subseteq child_indicator_bits'[m]
      /\ \A s \in child_indicator_bits'[m] :
           s \in child_indicator_bits[m] \/ s >= Len(labels[m]) - 1
  BY <1>2, <1>4, <1>5
<1>10. QED
  BY <1>7, <1>8, <1>9

(* A key being inserted has no entry, and takes away none. *)
LEMMA InsertionKeepsEntries ==
  ASSUME DenseInv, DenseInv', InsertFirstByte \/ InsertNextByte
  PROVE  entries' = entries
<1>1. /\ pc \in {"skip", "rest"} /\ pc' \in {"rest", "store"} /\ values' = values
      /\ height \in Nat /\ height <= height'
  <2>1. /\ pc \in {"skip", "rest"} /\ pc' \in {"rest", "store"} /\ values' = values
        /\ height \in Nat /\ (height' = height \/ height' = height + 1)
    BY InsertionEffect
  <2>2. QED
    BY <2>1
<1>2. ~ValuesCleared /\ ~ValuesCleared'
  BY <1>1 DEF ValuesCleared
<1>3. TypeInv /\ TypeInv'
  BY DEF DenseInv, SortedInv, LoudsInv
<1>4. /\ Linked(labels, louds_bits, child_indicator_bits, height)
      /\ Linked(labels', louds_bits', child_indicator_bits', height')
  <2>1. DenseInv => Linked(labels, louds_bits, child_indicator_bits, height)
    BY LinkedNow
  <2>2. DenseInv' => Linked(labels, louds_bits, child_indicator_bits, height)'
    BY LinkedNow, PTL
  <2>3. QED
    BY <2>1, <2>2
<1>5. /\ entries = EntriesIn(labels, louds_bits, child_indicator_bits, values, height)
      /\ entries' = EntriesIn(labels', louds_bits', child_indicator_bits', values', height')
  <2>1. TypeInv' /\ ~ValuesCleared' =>
          (entries = EntriesIn(labels, louds_bits, child_indicator_bits, values, height))'
    BY EntriesNow, PTL
  <2>2. QED
    BY <1>2, <1>3, <2>1, EntriesNow
<1>6. DenseInv' /\ ~ValuesCleared' =>
        (\A l \in 0 .. height - 1 :
           ValuedOf(labels, child_indicator_bits, values, l) = Leaves(l) \ Waiting(l))'
  BY ValuedLeaves, PTL
<1>7. ASSUME NEW l \in 0 .. height' - 1
      PROVE  ValuedOf(labels', child_indicator_bits', values, l)
               = IF l < height THEN ValuedOf(labels, child_indicator_bits, values, l) ELSE {}
  <2>1. \A k \in 0 .. height - 1 :
          ValuedOf(labels, child_indicator_bits, values, k) = Leaves(k) \ Waiting(k)
    BY <1>2, ValuedNow
  <2>2. \A k \in 0 .. height' - 1 :
          ValuedOf(labels', child_indicator_bits', values', k) = Leaves(k)' \ Waiting(k)'
    BY <1>2, <1>6
  <2>3. Leaves(l)' \ Waiting(l)' = IF l < height THEN Leaves(l) \ Waiting(l) ELSE {}
    BY InsertionLeaves
  <2>4. l < height => l \in 0 .. height - 1
    BY <1>1
  <2>5. QED
    BY <1>1, <2>1, <2>2, <2>3, <2>4
<1>8. Appended(labels, louds_bits, child_indicator_bits,
               labels', louds_bits', child_indicator_bits', height)
  BY InsertionAppends
<1>9. EntriesIn(labels', louds_bits', child_indicator_bits', values, height')
        = EntriesIn(labels, louds_bits, child_indicator_bits, values, height)
  BY <1>1, <1>4, <1>7, <1>8, SameEntries
<1>10. QED
  BY <1>1, <1>5, <1>9

-------------------------------------------------------------------------------
(* Storing a value *)

(* The path to the leaf that waits for its value is that of the last items. *)
LEMMA LastPath ==
  ASSUME DenseInv, pc \in {"rest", "store"}
  PROVE  PathOf(labels, louds_bits, child_indicator_bits, level - 1, LastPos(level - 1))
           = [m \in 1 .. level |-> LabelOf(Key, m - 1)]
<1>1. LoudsInv /\ TypeInv /\ PathInv /\ LoudsAligned
  BY DEF DenseInv, SortedInv, LoudsInv
<1>2. /\ level \in Nat /\ level >= 1 /\ level <= height /\ height \in 0 .. MaxLevel + 1
      /\ MaxLevel \in Nat /\ level - 1 \in 0 .. height - 1 /\ (level - 1) + 1 = level
  <2>1. level \in 1 .. MaxLevel + 1 /\ level <= height /\ height \in 0 .. MaxLevel + 1
    BY <1>1, LevelFacts DEF TypeInv, TypeOK
  <2>2. MaxLevel \in Nat
    BY ConstantsAssumption
  <2>3. QED
    BY <2>1, <2>2
<1> DEFINE l == level - 1
           pos == [m \in 0 .. l |-> LastPos(m)]
<1>3. \A m \in 0 .. l : m \in Levels /\ m < height /\ m \in Nat
  BY <1>2 DEF Levels
<1>4. \A m \in 0 .. l : LastPos(m) \in Nat /\ LastPos(m) + 1 = GetNumItems(m)
  BY <1>1, <1>3, LastPosType
<1>5. ASSUME NEW m \in 0 .. l - 1
      PROVE  /\ LastPos(m) \in child_indicator_bits[m]
             /\ Cardinality(Below(child_indicator_bits[m], LastPos(m)))
                  = Cardinality(UpTo(louds_bits[m + 1], LastPos(m + 1))) - 1
  <2>1. /\ m \in 0 .. l /\ m + 1 \in 0 .. l /\ m + 1 # 0 /\ (m + 1) - 1 = m
        /\ m \in 0 .. level - 2
    BY <1>2
  <2>2. LastPos(m) \in child_indicator_bits[m]
    BY <1>1, <2>1 DEF PathInv
  <2> DEFINE C == child_indicator_bits[m]
             D == louds_bits[m + 1]
             x == LastPos(m)
             y == LastPos(m + 1)
  <2>3. C \in SUBSET (0 .. x) /\ D \in SUBSET (0 .. y) /\ x \in Nat /\ y \in Nat
    <3>1. /\ C \in SUBSET (0 .. GetNumItems(m) - 1)
          /\ D \in SUBSET (0 .. GetNumItems(m + 1) - 1)
      BY <1>1, <1>3, <2>1, LevelCounts
    <3>2. QED
      BY <1>4, <2>1, <3>1 DEF LastPos
  <2>4. Cardinality(D) = Cardinality(C)
    BY <1>1, <1>3, <2>1 DEF LoudsAligned
  <2>5. x \in C
    BY <2>2
  <2> HIDE DEF C, D, x, y
  <2>6. UpTo(D, y) = D
    <3>1. \A s \in D : s <= y
      BY <2>3
    <3>2. QED
      BY <3>1, Zenon DEF UpTo
  <2>7. Below(C, x) = C \ {x}
    <3>1. \A s \in C : s < x <=> s # x
      BY <2>3
    <3>2. QED
      BY <3>1, Zenon DEF Below
  <2>8. IsFiniteSet(C)
    <3>1. IsFiniteSet(0 .. x)
      BY <2>3, FS_Interval
    <3>2. QED
      BY <2>3, <3>1, FS_Subset
  <2>9. Cardinality(C \ {x}) = Cardinality(C) - 1
    BY <2>5, <2>8, FS_RemoveElement
  <2>10. QED
    BY <2>2, <2>4, <2>6, <2>7, <2>9 DEF C, D, x, y
<1>6. pos \in [0 .. l -> Nat] /\ pos[l] = LastPos(l) /\ \A m \in 0 .. l : pos[m] = LastPos(m)
  BY <1>2, <1>4
<1>7. \A m \in 0 .. l - 1 : m \in 0 .. l /\ m + 1 \in 0 .. l
  BY <1>2
<1> HIDE DEF pos
<1>8. IsTrail(louds_bits, child_indicator_bits, l, LastPos(l), pos)
  BY <1>5, <1>6, <1>7 DEF IsTrail
<1>9. Linked(labels, louds_bits, child_indicator_bits, height)
  BY LinkedNow
<1>10. PathOf(labels, louds_bits, child_indicator_bits, l, LastPos(l))
         = [m \in 1 .. l + 1 |-> labels[m - 1][pos[m - 1] + 1]]
  <2>1. l \in 0 .. height - 1
    BY <1>2
  <2> HIDE DEF l
  <2>2. QED
    BY <1>8, <1>9, <2>1, PathAlongTrail
<1>11. ASSUME NEW m \in 1 .. level
       PROVE  labels[m - 1][pos[m - 1] + 1] = LabelOf(Key, m - 1)
  <2>1. m - 1 \in 0 .. l /\ m - 1 \in 0 .. level - 1
    BY <1>2
  <2>2. pos[m - 1] + 1 = GetNumItems(m - 1)
    BY <1>4, <1>6, <2>1
  <2>3. LastLabel(m - 1) = LabelOf(Key, m - 1)
    BY <1>1, <2>1 DEF PathInv
  <2>4. QED
    BY <2>2, <2>3 DEF LastLabel
<1>12. QED
  BY <1>2, <1>10, <1>11

(* The key is stored with the bytes inserted: they tell it from its neighbours,
   hence from all other keys, and the last of them is needed. *)
LEMMA StoredPrefixInserted ==
  ASSUME DenseInv, KeysInv, StoreValue
  PROVE  /\ Abs!StoredPrefix(cur) = [m \in 1 .. level |-> LabelOf(Key, m - 1)]
         /\ Abs!IsFirst(cur)
<1>1. /\ LoudsInv /\ TypeInv /\ KeysInOrder /\ NeededInv
      /\ pc \in {"rest", "store"}
  BY DEF DenseInv, SortedInv, LoudsInv, KeysInv, StoreValue
<1>2. /\ cur \in 1 .. NumKeys /\ NumKeys \in Nat /\ level \in Nat /\ level >= 1
      /\ nxt \in cur + 1 .. NumKeys + 1
  <2>1. cur \in 1 .. NumKeys /\ NumKeys \in Nat
    BY <1>1, KeyFacts
  <2>2. level \in 1 .. MaxLevel + 1 /\ nxt \in 1 .. NumKeys + 1 /\ nxt > cur
    BY <1>1, LevelFacts DEF TypeInv, TypeOK, StructInv
  <2>3. QED
    BY <2>1, <2>2
<1>3. SuffixLen(cur) \in Nat
  BY <1>1, <1>2 DEF KeysInOrder, KeyTyped
<1>4. level \in 1 .. SuffixLen(cur) /\ level \in 0 .. SuffixLen(cur) /\ level <= SuffixLen(cur)
  <2>1. level <= SuffixLen(cur)
    BY <1>1 DEF NeededInv
  <2>2. QED
    BY <1>2, <1>3, <2>1
<1>5. nxt <= NumKeys => ~Agree(cur, nxt, level)
  <2> SUFFICES ASSUME nxt <= NumKeys PROVE ~Agree(cur, nxt, level)
    OBVIOUS
  <2>1. PICK m \in 0 .. level - 1 : LabelOf(Key, m) # LabelOf(KeyAt(nxt), m)
    BY <1>1, DiffersAtLeaf
  <2>2. KeyAt(nxt) = input.keys[nxt]
    BY DEF KeyAt
  <2>3. QED
    BY <2>1, <2>2 DEF Agree, Key
<1>6. Abs!Distinguishes(cur, level)
  <2>1. cur > 1 => ~Agree(cur - 1, cur, level)
    BY <1>1 DEF NeededInv
  <2>2. \A k \in cur + 1 .. nxt - 1 : input.keys[k] = input.keys[cur]
    BY <1>1 DEF NeededInv
  <2>3. QED
    BY <1>1, <1>2, <1>4, <1>5, <2>1, <2>2, NeighboursTell
<1>7. Abs!StoredPrefix(cur) = SubSeq(Abs!Suffix(cur), 1, level)
  <2>1. level > 1 => \E j \in 1 .. NumKeys : /\ input.keys[j] # input.keys[cur]
                                             /\ level - 1 <= SuffixLen(j)
                                             /\ Agree(j, cur, level - 1)
    BY <1>1 DEF NeededInv
  <2>2. QED
    BY <1>1, <1>2, <1>4, <1>6, <2>1, StoredPrefixIs
<1>8. SubSeq(Abs!Suffix(cur), 1, level) = [m \in 1 .. level |-> LabelOf(Key, m - 1)]
  <2>1. /\ Len(SubSeq(Abs!Suffix(cur), 1, level)) = level
        /\ \A q \in 1 .. level : SubSeq(Abs!Suffix(cur), 1, level)[q] = LabelOf(Key, q - 1)
    BY <1>1, <1>2, <1>4, PrefixAgrees DEF Key
  <2>2. Abs!Suffix(cur) \in Seq(Label) /\ Len(Abs!Suffix(cur)) = SuffixLen(cur)
    BY <1>1, <1>2 DEF KeysInOrder, KeyTyped
  <2>3. SubSeq(Abs!Suffix(cur), 1, level) = [q \in 1 .. level |-> Abs!Suffix(cur)[q]]
    BY <1>2, <1>3, <1>4, <2>2
  <2>4. QED
    BY <2>1, <2>3
<1>9. Abs!IsFirst(cur)
  <2>1. cur = 1 \/ input.keys[cur - 1] # input.keys[cur]
    <3> SUFFICES ASSUME cur # 1, input.keys[cur - 1] = input.keys[cur] PROVE FALSE
      OBVIOUS
    <3>1. ~Agree(cur - 1, cur, level)
      BY <1>1, <1>2 DEF NeededInv
    <3>2. QED
      BY <3>1 DEF Agree
  <2>2. QED
    BY <1>1, <1>2, <2>1, FirstOfRun
<1>10. QED
  BY <1>7, <1>8, <1>9

(* The entries of the first n keys. *)
StoredUpTo(n) ==
  {<<Abs!StoredPrefix(i), i>> : i \in {j \in 1 .. n : Abs!IsFirst(j)}}

(* A value that is appended to its level adds the entry of its item. *)
LEMMA OneMoreEntryNow ==
  ASSUME NEW k, k \in 0 .. height - 1, NEW r,
         OneMoreValue(labels, child_indicator_bits, height, values, values', k, r)
  PROVE  EntriesIn(labels, louds_bits, child_indicator_bits, values', height)
           = EntriesIn(labels, louds_bits, child_indicator_bits, values, height)
               \cup {EntryOf(labels, louds_bits, child_indicator_bits, values', k, r)}
BY OneMoreEntry

(* The value that is stored makes the entry of its key. *)
LEMMA StoreValueEntries ==
  ASSUME DenseInv, DenseInv', KeysInv, StoreValue
  PROVE  entries' = entries \cup {<<Abs!StoredPrefix(cur), cur>>}
<1>1. /\ LoudsInv /\ TypeInv /\ TypeInv'
      /\ pc \in {"rest", "store"} /\ cur' = nxt
      /\ values' = [values EXCEPT ![level - 1] = Append(@, cur)]
      /\ UNCHANGED <<input, height, labels, louds_bits, child_indicator_bits>>
      /\ pc' = IF nxt <= NumKeys THEN "skip"
               ELSE IF input.include_dense THEN "cutoff" ELSE "done"
  BY DEF DenseInv, SortedInv, LoudsInv, StoreValue, sparseVars
<1>2. ~ValuesCleared /\ ~ValuesCleared' /\ pc' \notin {"rest", "store"}
  BY <1>1 DEF ValuesCleared
<1> DEFINE top == level - 1
           last == LastPos(top)
<1>3. /\ level \in Nat /\ level >= 1 /\ top \in 0 .. height - 1 /\ height \in Nat
      /\ \A m \in 0 .. height - 1 : m \in Levels
  <2>1. level \in 1 .. MaxLevel + 1 /\ level <= height /\ height \in 0 .. MaxLevel + 1
    BY <1>1, LevelFacts DEF TypeInv, TypeOK
  <2>2. MaxLevel \in Nat
    BY ConstantsAssumption
  <2>3. QED
    BY <2>1, <2>2 DEF Levels
<1>4. /\ entries = EntriesIn(labels, louds_bits, child_indicator_bits, values, height)
      /\ entries' = EntriesIn(labels, louds_bits, child_indicator_bits, values', height)
  <2>1. TypeInv' /\ ~ValuesCleared' =>
          (entries = EntriesIn(labels, louds_bits, child_indicator_bits, values, height))'
    BY EntriesNow, PTL
  <2>2. QED
    BY <1>1, <1>2, <2>1, EntriesNow
<1>5. \A m \in 0 .. height - 1 :
        /\ Len(values[m]) = Cardinality(Leaves(m)) - Pending(m)
        /\ Cardinality(Leaves(m)) \in Nat
        /\ ValuedOf(labels, child_indicator_bits, values, m) = Leaves(m) \ Waiting(m)
        /\ \A q \in Leaves(m) : RankOf(labels, child_indicator_bits, m, q) \in Nat \ {0}
        /\ Pending(m) = 1 => /\ LastPos(m) \in Leaves(m)
                             /\ RankOf(labels, child_indicator_bits, m, LastPos(m))
                                  = Cardinality(Leaves(m))
  BY <1>2, ValuedNow
<1>6. \A m \in 0 .. height - 1 :
        ValuedOf(labels, child_indicator_bits, values', m) = Leaves(m)
  <2>1. DenseInv' /\ ~ValuesCleared' =>
          (\A l \in 0 .. height - 1 :
             ValuedOf(labels, child_indicator_bits, values, l) = Leaves(l) \ Waiting(l))'
    BY ValuedLeaves, PTL
  <2>2. \A m \in 0 .. height - 1 :
          ValuedOf(labels, child_indicator_bits, values', m) = Leaves(m)' \ Waiting(m)'
    BY <1>1, <1>2, <2>1
  <2>3. \A m : Leaves(m)' = Leaves(m)
    BY <1>1 DEF Leaves, GetNumItems
  <2>4. \A m : Pending(m)' = 0
    BY <1>2 DEF Pending
  <2>5. \A m : Waiting(m)' = {}
    BY <2>4 DEF Waiting
  <2>6. QED
    BY <2>2, <2>3, <2>5
<1>7. Pending(top) = 1 /\ \A m : m # top => Pending(m) = 0
  BY <1>1 DEF Pending
<1>8. last \in Leaves(top) /\ RankOf(labels, child_indicator_bits, top, last) = Len(values[top]) + 1
  <2>1. /\ Len(values[top]) = Cardinality(Leaves(top)) - 1 /\ Cardinality(Leaves(top)) \in Nat
        /\ last \in Leaves(top)
        /\ RankOf(labels, child_indicator_bits, top, last) = Cardinality(Leaves(top))
    BY <1>3, <1>5, <1>7
  <2>2. QED
    BY <2>1
<1>9. \A m \in 0 .. height - 1 :
        Waiting(m) = IF m = top THEN {last} ELSE {}
  BY <1>3, <1>7, <1>8 DEF Waiting
<1>10. /\ values[top] \in Seq(Nat) /\ Len(values[top]) \in Nat /\ values'[top] = Append(values[top], cur)
       /\ \A m \in 0 .. height - 1 : m # top => values'[m] = values[m]
  <2>1. values \in [Levels -> Seq(Nat)]
    BY <1>1 DEF TypeInv, TypeOK
  <2>2. values[top] \in Seq(Nat) /\ top \in Levels
    BY <1>3, <2>1
  <2>3. QED
    BY <1>1, <1>3, <2>1, <2>2
<1>11. /\ \A q \in 1 .. Len(values[top]) : values'[top][q] = values[top][q]
       /\ values'[top][Len(values[top]) + 1] = cur
  BY <1>10
<1> HIDE DEF top, last
<1>12. \A q \in ValuedOf(labels, child_indicator_bits, values, top) :
         values'[top][RankOf(labels, child_indicator_bits, top, q)]
           = values[top][RankOf(labels, child_indicator_bits, top, q)]
  <2> SUFFICES ASSUME NEW q \in ValuedOf(labels, child_indicator_bits, values, top)
               PROVE  values'[top][RankOf(labels, child_indicator_bits, top, q)]
                        = values[top][RankOf(labels, child_indicator_bits, top, q)]
    OBVIOUS
  <2>1. RankOf(labels, child_indicator_bits, top, q) <= Len(values[top])
    BY DEF ValuedOf
  <2>2. q \in Leaves(top)
    BY <1>3, <1>5
  <2>3. RankOf(labels, child_indicator_bits, top, q) \in Nat \ {0}
    BY <1>3, <1>5, <2>2
  <2>4. RankOf(labels, child_indicator_bits, top, q) \in 1 .. Len(values[top])
    BY <1>10, <2>1, <2>3
  <2>5. QED
    BY <1>11, <2>4
<1>13. ASSUME NEW m \in 0 .. height - 1
       PROVE  /\ m # top => /\ values'[m] = values[m]
                          /\ ValuedOf(labels, child_indicator_bits, values', m)
                               = ValuedOf(labels, child_indicator_bits, values, m)
              /\ m = top => ValuedOf(labels, child_indicator_bits, values', m)
                            = ValuedOf(labels, child_indicator_bits, values, m) \cup {last}
  <2>1. ValuedOf(labels, child_indicator_bits, values, m) = Leaves(m) \ Waiting(m)
    BY <1>5
  <2>2. ValuedOf(labels, child_indicator_bits, values', m) = Leaves(m)
    BY <1>6
  <2>3. CASE m # top
    BY <1>9, <1>10, <2>1, <2>2, <2>3
  <2>4. CASE m = top
    BY <1>8, <1>9, <2>1, <2>2, <2>4
  <2>5. QED
    BY <2>3, <2>4
<1>14. EntriesIn(labels, louds_bits, child_indicator_bits, values', height)
         = EntriesIn(labels, louds_bits, child_indicator_bits, values, height)
             \cup {EntryOf(labels, louds_bits, child_indicator_bits, values', top, last)}
  <2>1. OneMoreValue(labels, child_indicator_bits, height, values, values', top, last)
    BY <1>12, <1>13 DEF OneMoreValue
  <2>2. top \in 0 .. height - 1
    BY <1>3
  <2>3. QED
    BY ONLY <2>1, <2>2, OneMoreEntryNow
<1>15. EntryOf(labels, louds_bits, child_indicator_bits, values', top, last)
         = <<Abs!StoredPrefix(cur), cur>>
  <2>1. PathOf(labels, louds_bits, child_indicator_bits, top, last) = Abs!StoredPrefix(cur)
    BY <1>1, LastPath, StoredPrefixInserted DEF top, last
  <2>2. values'[top][RankOf(labels, child_indicator_bits, top, last)] = cur
    BY <1>8, <1>11
  <2>3. QED
    BY <2>1, <2>2 DEF EntryOf
<1>16. QED
  BY <1>4, <1>14, <1>15

(* The keys passed over are not the first of their runs. *)
LEMMA StoredUpToNext ==
  ASSUME DenseInv, KeysInv, StoreValue
  PROVE  StoredUpTo(nxt - 1) = StoredUpTo(cur - 1) \cup {<<Abs!StoredPrefix(cur), cur>>}
<1>1. /\ TypeInv /\ KeysInOrder /\ NeededInv /\ pc \in {"rest", "store"}
  BY DEF DenseInv, SortedInv, LoudsInv, KeysInv, StoreValue
<1>2. cur \in 1 .. NumKeys /\ NumKeys \in Nat /\ nxt \in cur + 1 .. NumKeys + 1
  <2>1. cur \in 1 .. NumKeys /\ NumKeys \in Nat
    BY <1>1, KeyFacts
  <2>2. nxt \in 1 .. NumKeys + 1 /\ nxt > cur
    BY <1>1 DEF TypeInv, TypeOK, StructInv
  <2>3. QED
    BY <2>1, <2>2
<1>3. ASSUME NEW k \in cur + 1 .. nxt - 1
      PROVE  ~Abs!IsFirst(k)
  <2>1. k \in 1 .. NumKeys /\ k # 1 /\ (k - 1 = cur \/ k - 1 \in cur + 1 .. nxt - 1)
    BY <1>2
  <2>2. input.keys[k] = input.keys[cur] /\ input.keys[k - 1] = input.keys[cur]
    BY <1>1, <2>1 DEF NeededInv
  <2>3. QED
    BY <1>1, <2>1, <2>2, FirstOfRun
<1>4. Abs!IsFirst(cur)
  BY StoredPrefixInserted
<1>5. {j \in 1 .. nxt - 1 : Abs!IsFirst(j)} = {j \in 1 .. cur - 1 : Abs!IsFirst(j)} \cup {cur}
  <2>1. \A j : j \in 1 .. nxt - 1
               <=> j \in 1 .. cur - 1 \/ j = cur \/ j \in cur + 1 .. nxt - 1
    BY <1>2
  <2>2. QED
    BY <1>3, <1>4, <2>1, Zenon
<1>6. QED
  BY <1>5, Zenon DEF StoredUpTo

-------------------------------------------------------------------------------
(* The values after they are collected *)

(* LeavesBetween as a function of the vectors it reads. *)
LeavesSum(lab, child, from, to) ==
  MapThenSumSet(LAMBDA l : Cardinality((0 .. Len(lab[l]) - 1) \ child[l]), from .. to - 1)

(* The number of leaves is a function of labels_ and child_indicator_bits_. *)
LEMMA LeavesBetweenReads ==
  \A from, to : LeavesBetween(from, to) = LeavesSum(labels, child_indicator_bits, from, to)
BY DEF LeavesBetween, LeavesSum, Leaves, GetNumItems

(* The leaves are as many as before when these vectors stay. *)
LEMMA SameLeavesBetween ==
  ASSUME labels' = labels, child_indicator_bits' = child_indicator_bits
  PROVE  \A from, to : LeavesBetween(from, to)' = LeavesBetween(from, to)
<1>1. (\A from, to : LeavesBetween(from, to) = LeavesSum(labels, child_indicator_bits, from, to))'
  BY LeavesBetweenReads, PTL
<1>2. \A from, to : LeavesBetween(from, to)' = LeavesSum(labels', child_indicator_bits', from, to)
  BY <1>1
<1>3. QED
  BY <1>2, LeavesBetweenReads

(* No level, no leaf. *)
LEMMA NoLeavesBetween == TypeInv => LeavesBetween(0, 0) = 0
<1>1. 0 \in Nat /\ 0 \in 0 .. MaxLevel + 1
  BY ConstantsAssumption
<1>2. QED
  BY <1>1, LeavesBetweenIs

(* A slice is made of the elements between its ends. *)
LEMMA SameSlice ==
  ASSUME NEW s, NEW t, NEW m \in Int, NEW n \in Int, \A i \in m .. n : t[i] = s[i]
  PROVE  SubSeq(t, m, n) = SubSeq(s, m, n)
OBVIOUS

(* In t, v stands behind all of s, which did not move. *)
Extended(s, v, t) ==
  /\ t \in Seq(Nat) /\ Len(t) = Len(s) + Len(v)
  /\ SubSeq(t, Len(s) + 1, Len(s) + Len(v)) = v
  /\ \A a, b \in Nat : b <= Len(s) => SubSeq(t, a + 1, b) = SubSeq(s, a + 1, b)

(* What is concatenated stands behind what was there. *)
LEMMA ConcatExtends ==
  ASSUME NEW s \in Seq(Nat), NEW v \in Seq(Nat)
  PROVE  Extended(s, v, s \o v)
<1>1. /\ s \o v \in Seq(Nat) /\ Len(s \o v) = Len(s) + Len(v)
      /\ Len(s) \in Nat /\ Len(v) \in Nat
      /\ \A i \in 1 .. Len(s) + Len(v) :
           (s \o v)[i] = IF i <= Len(s) THEN s[i] ELSE v[i - Len(s)]
  BY ConcatProperties, LenProperties
<1>2. SubSeq(s \o v, Len(s) + 1, Len(s) + Len(v)) = v
  <2>1. \A i \in Len(s) + 1 .. Len(s) + Len(v) : (s \o v)[i] \in Nat
    BY <1>1
  <2>2. /\ SubSeq(s \o v, Len(s) + 1, Len(s) + Len(v)) \in Seq(Nat)
        /\ Len(SubSeq(s \o v, Len(s) + 1, Len(s) + Len(v)))
             = IF Len(s) + 1 <= Len(s) + Len(v) THEN Len(s) + Len(v) - (Len(s) + 1) + 1 ELSE 0
        /\ \A i \in 1 .. Len(s) + Len(v) - (Len(s) + 1) + 1 :
             SubSeq(s \o v, Len(s) + 1, Len(s) + Len(v))[i] = (s \o v)[Len(s) + 1 + i - 1]
    <3>1. Len(s) + 1 \in Int /\ Len(s) + Len(v) \in Int
      BY <1>1
    <3>2. QED
      BY <2>1, <3>1, SubSeqProperties
  <2> DEFINE t == SubSeq(s \o v, Len(s) + 1, Len(s) + Len(v))
  <2>3. t \in Seq(Nat) /\ Len(t) = Len(v)
    BY <1>1, <2>2
  <2>4. \A i \in 1 .. Len(v) : t[i] = v[i]
    BY <1>1, <2>2
  <2> HIDE DEF t
  <2>5. t = v
    BY <2>3, <2>4, SeqEqual
  <2>6. QED
    BY <2>5 DEF t
<1> DEFINE t == s \o v
<1>3. \A a, b \in Nat : b <= Len(s) => \A i \in a + 1 .. b : t[i] = s[i]
  BY <1>1
<1> HIDE DEF t
<1>4. ASSUME NEW a \in Nat, NEW b \in Nat, b <= Len(s)
      PROVE  SubSeq(t, a + 1, b) = SubSeq(s, a + 1, b)
  <2>1. a + 1 \in Int /\ b \in Int
    OBVIOUS
  <2>2. \A i \in a + 1 .. b : t[i] = s[i]
    BY <1>3, <1>4
  <2>3. QED
    BY <2>1, <2>2, SameSlice
<1>5. QED
  BY <1>1, <1>2, <1>4 DEF t, Extended

(* Where the values of level l stand in values_dense_ or values_sparse_. *)
Slice(vs, from, l) ==
  SubSeq(vs, LeavesBetween(from, l) + 1, LeavesBetween(from, l + 1))

(* Level l, whose values are v, was collected. *)
Collected(vd, vs, v, l) ==
  IF l < sparse_start_level
  THEN /\ LeavesBetween(0, l + 1) <= Len(vd)
       /\ Slice(vd, 0, l) = v
  ELSE /\ LeavesBetween(sparse_start_level, l + 1) <= Len(vs)
       /\ Slice(vs, sparse_start_level, l) = v

(* The levels below n were collected, in their order. *)
CollectedTo(vd, vs, n) ==
  /\ n <= sparse_start_level => Len(vd) = LeavesBetween(0, n) /\ vs = << >>
  /\ n >= sparse_start_level => Len(vs) = LeavesBetween(sparse_start_level, n)
  /\ \A l \in 0 .. n - 1 : Collected(vd, vs, values[l], l)

CollectInv ==
  /\ pc \in {"skip", "rest", "store", "cutoff"} => values_dense = << >> /\ values_sparse = << >>
  /\ pc = "collect" => CollectedTo(values_dense, values_sparse, level)

(* A turn of the loop collects one level more. *)
LEMMA CollectsLevel ==
  ASSUME DenseInv, CollectInv, CollectValues
  PROVE  \E vd, vs, n : /\ vd = values_dense' /\ vs = values_sparse' /\ n = level + 1
                        /\ CollectedTo(vd, vs, n)
<1>0. PICK vd, vs, n : vd = values_dense' /\ vs = values_sparse' /\ n = level + 1
  OBVIOUS
<1> DEFINE s == sparse_start_level
           v == values[level]
<1>1. /\ TypeInv /\ pc = "collect"
      /\ CollectedTo(values_dense, values_sparse, level)
      /\ IF level < s THEN vd = values_dense \o v /\ vs = values_sparse
         ELSE vs = values_sparse \o v /\ vd = values_dense
  BY <1>0 DEF DenseInv, SortedInv, LoudsInv, CollectInv, CollectValues
<1>2. /\ level \in Nat /\ level < height /\ level \in Levels /\ s \in Nat /\ s <= MaxLevel + 1
      /\ level <= MaxLevel /\ MaxLevel \in Nat /\ level \in 0 .. height - 1
  <2>1. level \in 0 .. MaxLevel + 1 /\ height \in 0 .. MaxLevel + 1 /\ s \in 0 .. MaxLevel + 1
    BY <1>1 DEF TypeInv, TypeOK
  <2>2. level < height /\ MaxLevel \in Nat
    BY <1>1, ConstantsAssumption DEF TypeInv, StructInv
  <2>3. QED
    BY <2>1, <2>2 DEF Levels
<1>3. /\ values_dense \in Seq(Nat) /\ values_sparse \in Seq(Nat) /\ v \in Seq(Nat)
      /\ Len(values_dense) \in Nat /\ Len(values_sparse) \in Nat /\ Len(v) \in Nat
  <2>1. values \in [Levels -> Seq(Nat)] /\ values_dense \in Seq(Nat) /\ values_sparse \in Seq(Nat)
    BY <1>1 DEF TypeInv, TypeOK
  <2>2. v \in Seq(Nat)
    BY <1>2, <2>1
  <2>3. QED
    BY <2>1, <2>2, LenProperties
<1>4. Len(v) = Cardinality(Leaves(level))
  <2>1. ~ValuesCleared /\ Pending(level) = 0
    BY <1>1 DEF ValuesCleared, Pending
  <2>2. /\ Len(v) = Cardinality(Leaves(level)) - Pending(level)
        /\ Cardinality(Leaves(level)) \in Nat
    BY <1>2, <2>1, ValuedNow
  <2>3. QED
    BY <2>1, <2>2
<1>5. \A from \in Nat : \A to \in from .. MaxLevel + 1 :
        LeavesBetween(from, from) = 0 /\ LeavesBetween(from, to) \in Nat
  BY <1>1, LeavesBetweenIs
<1>6. \A from \in 0 .. level :
        LeavesBetween(from, level + 1) = LeavesBetween(from, level) + Len(v)
  <2> SUFFICES ASSUME NEW from \in 0 .. level
               PROVE  LeavesBetween(from, level + 1) = LeavesBetween(from, level) + Len(v)
    OBVIOUS
  <2>1. from \in Nat /\ level \in from .. MaxLevel + 1
    BY <1>2
  <2>2. level \in Levels =>
          LeavesBetween(from, level + 1) = LeavesBetween(from, level) + Cardinality(Leaves(level))
    BY <1>1, <2>1, LeavesBetweenIs
  <2>3. QED
    BY <1>2, <1>4, <2>2
<1>7. /\ level <= s => Len(values_dense) = LeavesBetween(0, level) /\ values_sparse = << >>
      /\ level >= s => Len(values_sparse) = LeavesBetween(s, level)
      /\ \A l \in 0 .. level - 1 : Collected(values_dense, values_sparse, values[l], l)
  BY <1>1, Zenon DEF CollectedTo
<1> HIDE DEF s, v
<1>8. CASE level < s
  <2>1. /\ vd = values_dense \o v /\ vs = values_sparse
        /\ Len(values_dense) = LeavesBetween(0, level) /\ values_sparse = << >>
    BY <1>1, <1>2, <1>7, <1>8 DEF s, v
  <2>2. /\ Len(vd) = Len(values_dense) + Len(v)
        /\ SubSeq(vd, Len(values_dense) + 1, Len(values_dense) + Len(v)) = v
        /\ \A a, b \in Nat : b <= Len(values_dense) =>
             SubSeq(vd, a + 1, b) = SubSeq(values_dense, a + 1, b)
    <3>1. Extended(values_dense, v, vd)
      BY <1>3, <2>1, ConcatExtends
    <3>2. QED
      BY <3>1, Zenon DEF Extended
  <2>3. Len(vd) = LeavesBetween(0, level + 1)
    BY <1>2, <1>6, <2>1, <2>2
  <2>4. level + 1 >= s => Len(vs) = LeavesBetween(s, level + 1)
    <3>1. level + 1 >= s => level + 1 = s
      BY <1>2, <1>8
    <3>2. LeavesBetween(s, s) = 0 /\ Len(vs) = 0
      BY <1>2, <1>5, <2>1
    <3>3. QED
      BY <3>1, <3>2
  <2>5. Collected(vd, vs, v, level)
    <3>1. Slice(vd, 0, level) = v
      BY <2>1, <2>2, <2>3 DEF Slice
    <3>2. LeavesBetween(0, level + 1) \in Nat
      BY <1>2, <1>5
    <3>3. QED
      BY <1>8, <2>3, <3>1, <3>2 DEF Collected, s
  <2>6. ASSUME NEW l \in 0 .. level - 1
        PROVE  Collected(vd, vs, values[l], l)
    <3>1. l < s /\ l \in 0 .. MaxLevel + 1 /\ l + 1 \in 0 .. MaxLevel + 1
      BY <1>2, <1>8
    <3>2. LeavesBetween(0, l + 1) <= Len(values_dense) /\ Slice(values_dense, 0, l) = values[l]
      BY <1>7, <3>1 DEF Collected, s
    <3>3. LeavesBetween(0, l) \in Nat /\ LeavesBetween(0, l + 1) \in Nat
      BY <1>5, <3>1
    <3>4. Slice(vd, 0, l) = Slice(values_dense, 0, l)
      BY <2>2, <3>2, <3>3 DEF Slice
    <3>5. LeavesBetween(0, l + 1) <= Len(vd)
      BY <1>3, <2>2, <3>2, <3>3
    <3>6. QED
      BY <3>1, <3>2, <3>4, <3>5 DEF Collected, s
  <2>7. \A l \in 0 .. n - 1 : Collected(vd, vs, values[l], l)
    <3>1. \A l \in 0 .. n - 1 : l = level \/ l \in 0 .. level - 1
      BY <1>0, <1>2
    <3>2. QED
      BY <2>5, <2>6, <3>1 DEF v
  <2>8. CollectedTo(vd, vs, n)
    <3>1. n <= sparse_start_level =>
            Len(vd) = LeavesBetween(0, n) /\ vs = << >>
      BY <1>0, <2>1, <2>3
    <3>2. n >= sparse_start_level =>
            Len(vs) = LeavesBetween(sparse_start_level, n)
      BY <1>0, <2>4 DEF s
    <3>3. QED
      BY <2>7, <3>1, <3>2, Zenon DEF CollectedTo
  <2>9. QED
    BY <1>0, <2>8, Zenon
<1>9. CASE ~(level < s)
  <2>1. /\ vs = values_sparse \o v /\ vd = values_dense
        /\ Len(values_sparse) = LeavesBetween(s, level) /\ s \in 0 .. level
    BY <1>1, <1>2, <1>7, <1>9 DEF s, v
  <2>2. /\ Len(vs) = Len(values_sparse) + Len(v)
        /\ SubSeq(vs, Len(values_sparse) + 1, Len(values_sparse) + Len(v)) = v
        /\ \A a, b \in Nat : b <= Len(values_sparse) =>
             SubSeq(vs, a + 1, b) = SubSeq(values_sparse, a + 1, b)
    <3>1. Extended(values_sparse, v, vs)
      BY <1>3, <2>1, ConcatExtends
    <3>2. QED
      BY <3>1, Zenon DEF Extended
  <2>3. Len(vs) = LeavesBetween(s, level + 1)
    BY <1>2, <1>6, <2>1, <2>2
  <2>4. ~(level + 1 <= s)
    BY <1>2, <1>9
  <2>5. Collected(vd, vs, v, level)
    <3>1. Slice(vs, s, level) = v
      BY <2>1, <2>2, <2>3 DEF Slice
    <3>2. LeavesBetween(s, level + 1) \in Nat
      <4>1. s \in Nat /\ level + 1 \in s .. MaxLevel + 1
        BY <1>2, <1>9
      <4>2. QED
        BY <1>5, <4>1
    <3>3. QED
      BY <1>9, <2>3, <3>1, <3>2 DEF Collected, s
  <2>6. ASSUME NEW l \in 0 .. level - 1
        PROVE  Collected(vd, vs, values[l], l)
    <3>1. l \in 0 .. MaxLevel /\ l + 1 \in 0 .. MaxLevel + 1
      BY <1>2
    <3>2. CASE l < s
      BY <1>7, <2>1, <3>2 DEF Collected, s
    <3>3. CASE ~(l < s)
      <4>1. /\ LeavesBetween(s, l + 1) <= Len(values_sparse)
            /\ Slice(values_sparse, s, l) = values[l]
        BY <1>7, <3>3 DEF Collected, s
      <4>2. LeavesBetween(s, l) \in Nat /\ LeavesBetween(s, l + 1) \in Nat
        <5>1. s \in Nat /\ l \in s .. MaxLevel + 1 /\ l + 1 \in s .. MaxLevel + 1
          BY <1>2, <3>1, <3>3
        <5>2. QED
          BY <1>5, <5>1
      <4>3. Slice(vs, s, l) = Slice(values_sparse, s, l)
        BY <2>2, <4>1, <4>2 DEF Slice
      <4>4. LeavesBetween(s, l + 1) <= Len(vs)
        BY <1>3, <2>2, <4>1, <4>2
      <4>5. QED
        BY <3>3, <4>1, <4>3, <4>4 DEF Collected, s
    <3>4. QED
      BY <3>2, <3>3
  <2>7. \A l \in 0 .. n - 1 : Collected(vd, vs, values[l], l)
    <3>1. \A l \in 0 .. n - 1 : l = level \/ l \in 0 .. level - 1
      BY <1>0, <1>2
    <3>2. QED
      BY <2>5, <2>6, <3>1 DEF v
  <2>8. CollectedTo(vd, vs, n)
    <3>1. n <= sparse_start_level =>
            Len(vd) = LeavesBetween(0, n) /\ vs = << >>
      BY <1>0, <2>4 DEF s
    <3>2. n >= sparse_start_level =>
            Len(vs) = LeavesBetween(sparse_start_level, n)
      BY <1>0, <2>3 DEF s
    <3>3. QED
      BY <2>7, <3>1, <3>2, Zenon DEF CollectedTo
  <2>9. QED
    BY <1>0, <2>8, Zenon
<1>10. QED
  BY <1>0, <1>8, <1>9

-------------------------------------------------------------------------------
(* The steps of the abstract trie *)

(* Collecting the values moves none of them to another leaf. *)
LEMMA CollectValuesEntries ==
  ASSUME DenseInv, DenseInv', CollectInv, CollectValues
  PROVE  entries' = entries
<1>1. /\ TypeInv /\ TypeInv' /\ pc = "collect" /\ input.include_dense
      /\ input' = input /\ sparse_start_level' = sparse_start_level
      /\ labels' = labels /\ child_indicator_bits' = child_indicator_bits
      /\ louds_bits' = louds_bits /\ height' = height
      /\ IF level + 1 < height THEN pc' = "collect" /\ values' = values ELSE pc' = "dense"
  <2>1. TypeInv /\ TypeInv' /\ pc = "collect"
    BY DEF DenseInv, SortedInv, LoudsInv, CollectValues
  <2>2. input.include_dense
    BY <2>1 DEF TypeInv, StructInv
  <2>3. QED
    BY <2>1, <2>2 DEF CollectValues, sparseVars
<1>2. ~ValuesCleared
  BY <1>1 DEF ValuesCleared
<1>3. entries = EntriesIn(labels, louds_bits, child_indicator_bits, values, height)
  BY <1>1, <1>2, EntriesNow
<1>4. CASE level + 1 < height
  <2>1. ~ValuesCleared' /\ values' = values
    BY <1>1, <1>4 DEF ValuesCleared
  <2>2. TypeInv' /\ ~ValuesCleared' =>
          (entries = EntriesIn(labels, louds_bits, child_indicator_bits, values, height))'
    BY EntriesNow, PTL
  <2>3. QED
    BY <1>1, <1>3, <2>1, <2>2
<1>5. CASE ~(level + 1 < height)
  <2>1. ValuesCleared'
    BY <1>1, <1>5 DEF ValuesCleared
  <2>2. TypeInv' =>
          (entries = EntriesIn(labels, louds_bits, child_indicator_bits, ValueLists, height))'
    BY EntriesAre, PTL
  <2>3. PICK vd, vs, n : /\ vd = values_dense' /\ vs = values_sparse' /\ n = level + 1
                         /\ CollectedTo(vd, vs, n)
    BY CollectsLevel
  <2>4. n = height /\ \A l \in 0 .. height - 1 : l \in Levels
    <3>1. /\ level \in 0 .. MaxLevel + 1 /\ height \in 0 .. MaxLevel + 1
          /\ MaxLevel \in Nat /\ level < height
      BY <1>1, ConstantsAssumption DEF TypeInv, TypeOK, StructInv
    <3>2. QED
      BY <1>5, <2>3, <3>1 DEF Levels
  <2>5. ASSUME NEW l \in 0 .. height - 1
        PROVE  ValuesOf(l)' = values[l]
    <3>1. Collected(vd, vs, values[l], l)
      BY <2>3, <2>4 DEF CollectedTo
    <3>2. \A from, to : LeavesBetween(from, to)' = LeavesBetween(from, to)
      BY <1>1, SameLeavesBetween
    <3>3. CASE l < sparse_start_level
      <4>1. Slice(vd, 0, l) = values[l]
        BY <3>1, <3>3 DEF Collected
      <4>2. ValuesOf(l)' = SubSeq(values_dense', LeavesBetween(0, l)' + 1, LeavesBetween(0, l + 1)')
        BY <1>1, <2>1, <3>3 DEF ValuesOf
      <4>3. QED
        BY <2>3, <3>2, <4>1, <4>2 DEF Slice
    <3>4. CASE ~(l < sparse_start_level)
      <4>1. Slice(vs, sparse_start_level, l) = values[l]
        BY <3>1, <3>4 DEF Collected
      <4>2. ValuesOf(l)' = SubSeq(values_sparse', LeavesBetween(sparse_start_level, l)' + 1,
                                  LeavesBetween(sparse_start_level, l + 1)')
        BY <1>1, <2>1, <3>4 DEF ValuesOf
      <4>3. QED
        BY <1>1, <2>3, <3>2, <4>1, <4>2 DEF Slice
    <3>5. QED
      BY <3>3, <3>4
  <2>6. \A l \in 0 .. height - 1 : ValueLists'[l] = values[l]
    BY <2>4, <2>5 DEF ValueLists
  <2>7. EntriesIn(labels, louds_bits, child_indicator_bits, ValueLists', height)
          = EntriesIn(labels, louds_bits, child_indicator_bits, values, height)
    <3> DEFINE after == ValueLists'
    <3>1. \A l \in 0 .. height - 1 : after[l] = values[l]
      BY <2>6
    <3> HIDE DEF after
    <3>2. EntriesIn(labels, louds_bits, child_indicator_bits, after, height)
            = EntriesIn(labels, louds_bits, child_indicator_bits, values, height)
      BY <3>1, EntriesOfLevels
    <3>3. QED
      BY <3>2 DEF after
  <2>8. QED
    BY <1>1, <1>3, <2>2, <2>7
<1>6. QED
  BY <1>4, <1>5

(* The steps that change none of the vectors the entries are read from. *)
LEMMA OtherStepsEntries ==
  ASSUME DenseInv, DenseInv',
         \/ SkipCommonPrefix \/ DetermineCutoffLevel \/ BuildDenseLevel
         \/ FinishBuild \/ Terminated \/ UNCHANGED vars
  PROVE  entries' = entries
<1>1. TypeInv /\ TypeInv' /\ LoudsInv
  BY DEF DenseInv, SortedInv, LoudsInv
<1>2. /\ input' = input /\ labels' = labels /\ child_indicator_bits' = child_indicator_bits
      /\ louds_bits' = louds_bits /\ height' = height /\ values' = values
  <2>1. CASE SkipCommonPrefix
    BY <1>1, <2>1, SkipCommonPrefixKeepsBits DEF SkipCommonPrefix
  <2>2. CASE \/ DetermineCutoffLevel \/ BuildDenseLevel
             \/ FinishBuild \/ Terminated \/ UNCHANGED vars
    BY <2>2 DEF DetermineCutoffLevel, BuildDenseLevel, FinishBuild, Terminated, vars, sparseVars
  <2>3. QED
    BY <2>1, <2>2
<1>3. TypeInv' =>
        (entries = EntriesIn(labels, louds_bits, child_indicator_bits, ValueLists, height))'
  BY EntriesAre, PTL
<1>4. entries = EntriesIn(labels, louds_bits, child_indicator_bits, ValueLists, height)
  BY <1>1, EntriesAre
<1>5. ValueLists' = ValueLists
  <2>1. CASE ~ValuesCleared /\ ~ValuesCleared'
    <3>1. \A l \in Levels : ValuesOf(l)' = values[l] /\ ValuesOf(l) = values[l]
      BY <1>2, <2>1 DEF ValuesOf
    <3>2. QED
      BY <3>1 DEF ValueLists
  <2>2. CASE ~(~ValuesCleared /\ ~ValuesCleared')
    <3>1. /\ ValuesCleared' = ValuesCleared /\ sparse_start_level' = sparse_start_level
          /\ values_dense' = values_dense /\ values_sparse' = values_sparse
      BY <1>2, <2>2 DEF ValuesCleared, SkipCommonPrefix, DetermineCutoffLevel, BuildDenseLevel,
                        FinishBuild, Terminated, vars, denseVars
    <3>2. \A from, to : LeavesBetween(from, to)' = LeavesBetween(from, to)
      BY <1>2, SameLeavesBetween
    <3>3. \A l \in Levels : ValuesOf(l)' = ValuesOf(l)
      BY <1>2, <3>1, <3>2 DEF ValuesOf
    <3>4. QED
      BY <3>3 DEF ValueLists
  <2>3. QED
    BY <2>1, <2>2
<1>6. QED
  BY <1>1, <1>2, <1>3, <1>4, <1>5

(* The collected values are kept. *)
LEMMA CollectStep ==
  ASSUME DenseInv, DenseInv', CollectInv, [Next]_vars
  PROVE  CollectInv'
<1>1. CASE SkipCommonPrefix \/ InsertFirstByte \/ InsertNextByte \/ StoreValue
  <2>1. /\ pc \in {"skip", "rest", "store"} /\ pc' # "collect"
        /\ values_dense' = values_dense /\ values_sparse' = values_sparse
    BY <1>1 DEF SkipCommonPrefix, InsertFirstByte, InsertNextByte, StoreValue, denseVars
  <2>2. QED
    BY <2>1 DEF CollectInv
<1>2. CASE DetermineCutoffLevel
  <2>1. /\ values_dense' = << >> /\ values_sparse' = << >> /\ pc' = "collect" /\ level' = 0
        /\ sparse_start_level' \in Nat /\ TypeInv'
    <3>1. /\ pc = "cutoff" /\ TypeInv /\ TypeInv'
          /\ values_dense' = values_dense /\ values_sparse' = values_sparse
          /\ pc' = "collect" /\ level' = level
      BY <1>2 DEF DetermineCutoffLevel, DenseInv, SortedInv, LoudsInv
    <3>2. level = 0
      BY <3>1 DEF TypeInv, StructInv
    <3>3. sparse_start_level' \in Nat
      BY <3>1 DEF TypeInv, TypeOK
    <3>4. QED
      BY <3>1, <3>2, <3>3 DEF CollectInv
  <2>2. LeavesBetween(0, 0)' = 0
    <3>1. (TypeInv => LeavesBetween(0, 0) = 0)'
      BY NoLeavesBetween, PTL
    <3>2. QED
      BY <2>1, <3>1
  <2>3. CollectedTo(values_dense, values_sparse, level)'
    BY <2>1, <2>2 DEF CollectedTo
  <2>4. QED
    BY <2>1, <2>3 DEF CollectInv
<1>3. CASE CollectValues
  <2>1. PICK vd, vs, n : /\ vd = values_dense' /\ vs = values_sparse' /\ n = level + 1
                         /\ CollectedTo(vd, vs, n)
    BY <1>3, CollectsLevel
  <2>2. CASE level + 1 < height
    <3>1. /\ level' = n /\ pc' = pc /\ values' = values /\ pc = "collect"
          /\ sparse_start_level' = sparse_start_level
          /\ labels' = labels /\ child_indicator_bits' = child_indicator_bits
      BY <1>3, <2>1, <2>2 DEF CollectValues, sparseVars
    <3>2. \A from, to : LeavesBetween(from, to)' = LeavesBetween(from, to)
      BY <3>1, SameLeavesBetween
    <3>3. \A l : Collected(vd, vs, values[l], l)' <=> Collected(vd, vs, values[l], l)
      BY <3>1, <3>2 DEF Collected, Slice
    <3>4. CollectedTo(values_dense, values_sparse, level)'
      BY <2>1, <3>1, <3>2, <3>3 DEF CollectedTo
    <3>5. QED
      BY <3>1, <3>4 DEF CollectInv
  <2>3. CASE ~(level + 1 < height)
    BY <1>3, <2>3 DEF CollectValues, CollectInv
  <2>4. QED
    BY <2>2, <2>3
<1>4. CASE BuildDenseLevel \/ FinishBuild
  BY <1>4 DEF BuildDenseLevel, FinishBuild, CollectInv
<1>5. CASE Terminated \/ UNCHANGED vars
  <2>1. UNCHANGED vars
    BY <1>5 DEF Terminated
  <2>2. /\ level' = level /\ pc' = pc /\ values' = values
        /\ sparse_start_level' = sparse_start_level
        /\ values_dense' = values_dense /\ values_sparse' = values_sparse
        /\ labels' = labels /\ child_indicator_bits' = child_indicator_bits
    BY <2>1 DEF vars, sparseVars, denseVars
  <2>3. \A from, to : LeavesBetween(from, to)' = LeavesBetween(from, to)
    BY <2>2, SameLeavesBetween
  <2>4. CollectedTo(values_dense, values_sparse, level)'
          <=> CollectedTo(values_dense, values_sparse, level)
    BY <2>2, <2>3 DEF CollectedTo, Collected, Slice
  <2>5. QED
    BY <2>2, <2>4 DEF CollectInv
<1>6. QED
  BY <1>1, <1>2, <1>3, <1>4, <1>5 DEF Next

-------------------------------------------------------------------------------
(* The keys that were scanned are stored, and no other *)

(* The entries of the first n keys of an argument, as a function of it. *)
SuffixOf(in, i) == SubSeq(in.keys[i], in.skip_prefix + 1, Len(in.keys[i]))

FirstOf(in, i) == \A j \in 1 .. i - 1 : SuffixOf(in, j) # SuffixOf(in, i)

TellsApart(in, i, length) ==
  \A j \in 1 .. Len(in.keys) :
    SuffixOf(in, j) # SuffixOf(in, i) =>
      ~ /\ Len(SubSeq(SuffixOf(in, i), 1, length)) <= Len(SuffixOf(in, j))
        /\ SubSeq(SuffixOf(in, j), 1, Len(SubSeq(SuffixOf(in, i), 1, length)))
             = SubSeq(SuffixOf(in, i), 1, length)

PrefixOf(in, i) ==
  SubSeq(SuffixOf(in, i), 1,
         CHOOSE m \in 1 .. Len(SuffixOf(in, i)) :
           /\ TellsApart(in, i, m)
           /\ \A k \in 1 .. m - 1 : ~TellsApart(in, i, k))

StoredOf(in, n) == {<<PrefixOf(in, i), i>> : i \in {j \in 1 .. n : FirstOf(in, j)}}

(* The entries of the first keys are a function of the argument. *)
LEMMA StoredReadsInput == \A n : StoredUpTo(n) = StoredOf(input, n)
BY DEF StoredUpTo, StoredOf, PrefixOf, TellsApart, FirstOf, SuffixOf, Abs!StoredPrefix,
       Abs!Distinguishes, Abs!HasPrefix, Abs!Suffix, Abs!Indices, Abs!IsFirst

(* They stay when the argument does. *)
LEMMA SameStored ==
  ASSUME input' = input
  PROVE  \A n : StoredUpTo(n)' = StoredUpTo(n)
<1>1. (\A n : StoredUpTo(n) = StoredOf(input, n))'
  BY StoredReadsInput, PTL
<1>2. QED
  BY <1>1, StoredReadsInput

(* The entries are those of the keys before the one the scan stands at. *)
StoredInv ==
  /\ DenseInv
  /\ KeysInv
  /\ CollectInv
  /\ entries = StoredUpTo(cur - 1)

(* Nothing was scanned and nothing is stored. *)
LEMMA StoredInit == ASSUME SortedInputs, Init PROVE StoredInv
<1>1. DenseInv /\ KeysInv
  BY DenseInit, KeysInit
<1>2. CollectInv
  BY DEF CollectInv, Init
<1>3. entries = {}
  <2>1. 0 .. height - 1 = {}
    BY DEF Init
  <2> DEFINE rank(l, p) == Cardinality({q \in Leaves(l) : q <= p})
             held(l) == {<<PathTo(l, p), ValuesOf(l)[rank(l, p)]>> :
                           p \in {q \in Leaves(l) : rank(l, q) <= Len(ValuesOf(l))}}
  <2>2. entries = UNION {held(l) : l \in 0 .. height - 1}
    BY DEF entries
  <2> HIDE DEF held
  <2>3. QED
    BY <2>1, <2>2
<1>4. StoredUpTo(cur - 1) = {}
  <2>1. 1 .. cur - 1 = {}
    BY DEF Init
  <2>2. QED
    BY <2>1 DEF StoredUpTo
<1>5. QED
  BY <1>1, <1>2, <1>3, <1>4 DEF StoredInv

(* What a step does to the entries. *)
LEMMA EntriesStep ==
  ASSUME StoredInv, DenseInv', [Next]_vars
  PROVE  IF StoreValue THEN entries' = entries \cup {<<Abs!StoredPrefix(cur), cur>>}
         ELSE entries' = entries
<1>1. DenseInv /\ KeysInv /\ CollectInv
  BY DEF StoredInv
<1>2. CASE StoreValue
  BY <1>1, <1>2, StoreValueEntries
<1>3. CASE InsertFirstByte \/ InsertNextByte
  <2>1. entries' = entries
    BY <1>1, <1>3, InsertionKeepsEntries
  <2>2. ~StoreValue
    BY <1>3 DEF InsertFirstByte, InsertNextByte, StoreValue
  <2>3. QED
    BY <2>1, <2>2
<1>4. CASE CollectValues
  <2>1. entries' = entries
    BY <1>1, <1>4, CollectValuesEntries
  <2>2. ~StoreValue
    BY <1>4 DEF CollectValues, StoreValue
  <2>3. QED
    BY <2>1, <2>2
<1>5. CASE ~StoreValue /\ (\/ SkipCommonPrefix \/ DetermineCutoffLevel \/ BuildDenseLevel
                           \/ FinishBuild \/ Terminated \/ UNCHANGED vars)
  BY <1>1, <1>5, OtherStepsEntries
<1>6. QED
  BY <1>2, <1>3, <1>4, <1>5, Zenon DEF Next

(* Every step keeps the entries in line with the scan. *)
LEMMA StoredStep ==
  ASSUME SortedInputs, StoredInv, [Next]_vars
  PROVE  StoredInv'
<1>1. DenseInv /\ KeysInv /\ CollectInv /\ entries = StoredUpTo(cur - 1)
  BY DEF StoredInv
<1>2. DenseInv' /\ KeysInv' /\ CollectInv'
  BY <1>1, DenseStep, KeysStep, CollectStep
<1>3. input' = input
  BY DEF Next, SkipCommonPrefix, InsertFirstByte, InsertNextByte, StoreValue,
         DetermineCutoffLevel, CollectValues, BuildDenseLevel, FinishBuild, Terminated, vars
<1>4. CASE StoreValue
  <2>1. StoredUpTo(nxt - 1) = StoredUpTo(cur - 1) \cup {<<Abs!StoredPrefix(cur), cur>>}
    BY <1>1, <1>4, StoredUpToNext
  <2>2. cur' = nxt /\ entries' = entries \cup {<<Abs!StoredPrefix(cur), cur>>}
    BY <1>2, <1>4, EntriesStep DEF StoreValue
  <2>4. (entries = StoredUpTo(cur - 1))'
    BY <1>1, <1>3, <2>1, <2>2, SameStored
  <2>5. QED
    BY <1>2, <2>4 DEF StoredInv
<1>5. CASE ~StoreValue
  <2>1. entries' = entries
    BY <1>2, <1>5, EntriesStep
  <2>2. cur' = cur
    BY <1>5 DEF Next, SkipCommonPrefix, InsertFirstByte, InsertNextByte,
         DetermineCutoffLevel, CollectValues, BuildDenseLevel, FinishBuild, Terminated, vars
  <2>3. (entries = StoredUpTo(cur - 1))'
    BY <1>1, <1>3, <2>1, <2>2, SameStored
  <2>4. QED
    BY <1>2, <2>3 DEF StoredInv
<1>6. QED
  BY <1>4, <1>5

(* The step of the abstract trie that a stored value is. *)
LEMMA StoreValueAddsKey ==
  ASSUME StoredInv, StoreValue, entries' = entries \cup {<<Abs!StoredPrefix(cur), cur>>}
  PROVE  Abs!AddKey
<1>1. DenseInv /\ KeysInv /\ entries = StoredUpTo(cur - 1) /\ TypeInv
  BY DEF StoredInv, DenseInv, SortedInv, LoudsInv
<1>2. cur \in 1 .. NumKeys /\ NumKeys \in Nat /\ input' = input
  BY <1>1, KeyFacts DEF StoreValue
<1>3. Abs!IsFirst(cur) /\ cur \in Abs!Indices
  <2>1. Abs!IsFirst(cur)
    BY <1>1, StoredPrefixInserted
  <2>2. cur \in Abs!Indices
    BY <1>2 DEF Abs!Indices, NumKeys
  <2>3. QED
    BY <2>1, <2>2
<1>4. \A e \in entries : e[2] < cur
  <2> SUFFICES ASSUME NEW e \in entries PROVE e[2] < cur
    OBVIOUS
  <2>1. PICK j \in 1 .. cur - 1 : e = <<Abs!StoredPrefix(j), j>>
    BY <1>1, Zenon DEF StoredUpTo
  <2>2. QED
    BY <1>2, <2>1
<1>5. \A j \in 1 .. cur - 1 : Abs!IsFirst(j) => \E e \in entries : e[2] = j
  <2> SUFFICES ASSUME NEW j \in 1 .. cur - 1, Abs!IsFirst(j) PROVE \E e \in entries : e[2] = j
    OBVIOUS
  <2>1. <<Abs!StoredPrefix(j), j>> \in entries
    BY <1>1, Zenon DEF StoredUpTo
  <2>2. QED
    BY <2>1
<1>6. QED
  BY <1>2, <1>3, <1>4, <1>5, Zenon DEF Abs!AddKey

(* The entries the vectors hold, read back by counting bits, change as the
   abstract trie allows: a value stored adds the entry of its key, with the
   shortest prefix that no other key has, and no other step of the build, the
   collection of the values included, adds, loses or alters an entry. *)
THEOREM BuildImplementsTrie == ASSUME SortedInputs PROVE Spec => BuildsAbstractTrie
<1>1. Init => StoredInv
  BY StoredInit
<1>2. StoredInv /\ [Next]_vars => StoredInv'
  BY StoredStep
<1>3. Init => Abs!Init
  <2> SUFFICES ASSUME Init PROVE Abs!Init
    OBVIOUS
  <2>1. StoredInv
    BY StoredInit
  <2>2. 1 .. cur - 1 = {}
    BY DEF Init
  <2>3. StoredUpTo(cur - 1) = {}
    BY <2>2 DEF StoredUpTo
  <2>4. QED
    BY <2>1, <2>3 DEF StoredInv, Abs!Init
<1>4. StoredInv /\ StoredInv' /\ [Next]_vars => [Abs!AddKey]_(Abs!avars)
  <2> SUFFICES ASSUME StoredInv, StoredInv', [Next]_vars
               PROVE  Abs!AddKey \/ (input' = input /\ entries' = entries)
    BY DEF Abs!avars
  <2>1. DenseInv'
    BY DEF StoredInv
  <2>2. CASE StoreValue
    BY <2>1, <2>2, EntriesStep, StoreValueAddsKey
  <2>3. CASE ~StoreValue
    <3>1. entries' = entries
      BY <2>1, <2>3, EntriesStep
    <3>2. input' = input
      BY DEF Next, SkipCommonPrefix, InsertFirstByte, InsertNextByte, StoreValue,
             DetermineCutoffLevel, CollectValues, BuildDenseLevel, FinishBuild, Terminated, vars
    <3>3. QED
      BY <3>1, <3>2
  <2>4. QED
    BY <2>2, <2>3
<1>5. QED
  BY <1>1, <1>2, <1>3, <1>4, PTL DEF Spec, BuildsAbstractTrie, Abs!Spec

(* A build that is done holds an entry for every distinct key and nothing else. *)
THEOREM BuildStoresAll ==
  ASSUME SortedInputs
  PROVE  Spec => [](pc = "done" => entries = Abs!AllEntries)
<1>1. Init => StoredInv
  BY StoredInit
<1>2. StoredInv /\ [Next]_vars => StoredInv'
  BY StoredStep
<1>3. StoredInv => (pc = "done" => entries = Abs!AllEntries)
  <2> SUFFICES ASSUME StoredInv, pc = "done" PROVE entries = Abs!AllEntries
    OBVIOUS
  <2>1. entries = StoredUpTo(cur - 1) /\ cur = NumKeys + 1 /\ input \in Inputs
    BY DEF StoredInv, KeysInv, Scanning, DenseInv, SortedInv, LoudsInv, TypeInv, StructInv
  <2>2. NumKeys \in Nat /\ cur - 1 = NumKeys
    BY <2>1, InputFacts
  <2>3. entries = StoredUpTo(NumKeys)
    BY <2>1, <2>2
  <2>4. QED
    BY <2>3, Zenon DEF StoredUpTo, Abs!AllEntries, Abs!Indices, NumKeys
<1>4. QED
  BY <1>1, <1>2, <1>3, PTL DEF Spec
================================================================================

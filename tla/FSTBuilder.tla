------------------------------ MODULE FSTBuilder ------------------------------
(***************************************************************************)
(* The builder of the Fast Succinct Trie (fst_builder.hpp): one scan of a  *)
(* sorted key list fills, level by level, the LOUDS-Sparse vectors, then   *)
(* the top levels are copied into LOUDS-Dense bitmaps.                     *)
(*                                                                         *)
(* Conventions.  Levels and positions count from 0 as in the code; the     *)
(* item at position p of a level is labels[l][p + 1].  A bit vector is the *)
(* set of the positions of its 1 bits, and words[l] is the number of words *)
(* child_indicator_bits_[l] and louds_bits_[l] hold (they grow together).  *)
(* The value of key i is i.  is_last_item_terminator_ is left out: the     *)
(* builder only ever inserts with is_term = false.                         *)
(***************************************************************************)
EXTENDS Integers, Sequences, FiniteSets, FiniteSetsExt

CONSTANTS
  Fanout,          \* kFanout, the number of labels (256 in the code)
  WordSize,        \* kWordSize, the bits of a word (64 in the code)
  PositionRange,   \* the number of values of position_t (2^32 in the code)
  MaxLevel,        \* bound: no key of Inputs reaches a deeper level
  Inputs           \* the arguments a build may be called with

Label == 0 .. Fanout - 1
Levels == 0 .. MaxLevel

(* kTerminator *)
Terminator == Fanout - 1

(* The arguments of a constructor and of build: the key list, the number of
   leading bytes to ignore, which overload of build is called (parts is the
   one for a span of KeyPartValue), include_dense and sparse_dense_ratio. *)
InputType ==
  [keys : Seq(Seq(Label)), skip_prefix : Nat, parts : BOOLEAN,
   include_dense : BOOLEAN, ratio : Nat]

ASSUME ConstantsAssumption ==
  /\ Fanout \in Nat \ {0}
  /\ WordSize \in Nat \ {0}
  /\ PositionRange \in Nat \ {0}
  /\ MaxLevel \in Nat

(* A key list is not empty, each key is longer than the ignored prefix and
   leaves room in Levels, and build(keys, values) ignores no prefix. *)
ASSUME InputsAssumption ==
  \A in \in Inputs :
    /\ in \in InputType
    /\ in.keys # << >>
    /\ \A i \in 1 .. Len(in.keys) :
         /\ Len(in.keys[i]) > in.skip_prefix
         /\ Len(in.keys[i]) - in.skip_prefix <= MaxLevel
    /\ ~in.parts => in.skip_prefix = 0

VARIABLES
  input,                   \* the arguments of this build
  pc,                      \* where the build stands
  cur,                     \* curpos, the key being inserted
  nxt,                     \* i + 1, the next different key or one past the end
  level,                   \* the local variable level of the running loop
  height,                  \* labels_.size()
  labels,                  \* labels_
  child_indicator_bits,    \* child_indicator_bits_
  louds_bits,              \* louds_bits_
  words,                   \* words of child_indicator_bits_ and louds_bits_
  node_counts,             \* node_counts_
  values,                  \* values_
  sparse_start_level,      \* sparse_start_level_
  values_dense,            \* values_dense_
  values_sparse,           \* values_sparse_
  dense                    \* the three bitmap vectors, a record per level

sparseVars == <<height, labels, child_indicator_bits, louds_bits, words,
                node_counts>>
denseVars == <<sparse_start_level, values_dense, values_sparse, dense>>
vars == <<input, pc, cur, nxt, level, sparseVars, values, denseVars>>

-------------------------------------------------------------------------------
(* Reading keys and vectors *)

NumKeys == Len(input.keys)

(* std::string::operator[]: reading at size() gives the terminating NUL. *)
Byte(key, p) == IF p <= Len(key) THEN key[p] ELSE 0

Key == input.keys[cur]

(* The key after the one being inserted, or std::string() behind the last. *)
KeyAt(i) == IF i <= NumKeys THEN input.keys[i] ELSE << >>

(* The byte of a key that becomes its label on level l. *)
LabelOf(key, l) == Byte(key, l + input.skip_prefix + 1)

(* Faulty variants of SameKey: no two keys are ever found equal; keys are found
   equal when their first bytes are. *)
NeverSameKey(a, b) == FALSE
SameFirstByte(a, b) == LabelOf(a, 0) = LabelOf(b, 0)

(* isSameKey.  The KeyPartValue overload compares as many bytes as the first
   key has, and its skip_prefix parameter has the width of a label. *)
SameKey(a, b) ==
  IF input.parts
  THEN \A p \in (input.skip_prefix % Fanout) + 1 .. Len(a) : Byte(a, p) = Byte(b, p)
  ELSE a = b

GetNumItems(l) == Len(labels[l])

(* A faulty variant of LastPos, one position off. *)
LastPosOffByOne(l) == GetNumItems(l) - 2

LastPos(l) == GetNumItems(l) - 1

(* A faulty variant of IsCharCommonPrefix: front() in place of back(). *)
IsFirstChar(c, l) == l < height /\ c = labels[l][1]

(* isCharCommonPrefix *)
IsCharCommonPrefix(c, l) == l < height /\ c = labels[l][GetNumItems(l)]

(* A faulty variant of IsLevelEmpty: the level at the top is taken to exist. *)
IsLevelAbove(l) == l > height

(* isLevelEmpty *)
IsLevelEmpty(l) == l >= height \/ labels[l] = << >>

-------------------------------------------------------------------------------
(* The initial state, before build is called *)

Init ==
  /\ input \in Inputs
  /\ pc = "skip"
  /\ cur = 1
  /\ nxt = 1
  /\ level = 0
  /\ height = 0
  /\ labels = [l \in Levels |-> << >>]
  /\ child_indicator_bits = [l \in Levels |-> {}]
  /\ louds_bits = [l \in Levels |-> {}]
  /\ words = [l \in Levels |-> 0]
  /\ node_counts = [l \in Levels |-> 0]
  /\ values = [l \in Levels |-> << >>]
  /\ sparse_start_level = 0
  /\ values_dense = << >>
  /\ values_sparse = << >>
  /\ dense = << >>

-------------------------------------------------------------------------------
(* buildSparse *)

(* skipCommonPrefix goes on: the previous key has the same label on this
   level, which gets (or already has) a child. *)
CanSkip ==
  /\ level + input.skip_prefix < Len(Key)
  /\ IsCharCommonPrefix(LabelOf(Key, level), level)

SkipCommonPrefix ==
  /\ pc = "skip"
  /\ CanSkip
  /\ child_indicator_bits' =
       [child_indicator_bits EXCEPT ![level] = @ \cup {LastPos(level)}]
  /\ level' = level + 1
  /\ UNCHANGED <<input, pc, cur, nxt, height, labels, louds_bits, words,
                 node_counts, values, denseVars>>

(* A faulty variant of WordsAfter: the items are counted before the push. *)
WordsBefore(l, n) ==
  (IF l >= height THEN 1 ELSE words[l])
    + (IF n > 0 /\ n % WordSize = 0 THEN 1 ELSE 0)

(* The words a level has after an item was put at position n:  addLevel gives
   the first word, moveToNextItemSlot another one when the last is full. *)
WordsAfter(l, n) ==
  (IF l >= height THEN 1 ELSE words[l]) + (IF (n + 1) % WordSize = 0 THEN 1 ELSE 0)

(* insertKeyByte(c, l, isStartOfNode, false) *)
InsertKeyByte(c, l, isStartOfNode) ==
  LET n == GetNumItems(l)
  IN  /\ height' = IF l >= height THEN height + 1 ELSE height
      /\ child_indicator_bits' =
           IF l > 0
           THEN [child_indicator_bits EXCEPT ![l - 1] = @ \cup {LastPos(l - 1)}]
           ELSE child_indicator_bits
      /\ labels' = [labels EXCEPT ![l] = Append(@, c)]
      /\ IF isStartOfNode
         THEN /\ louds_bits' = [louds_bits EXCEPT ![l] = @ \cup {n}]
              /\ node_counts' = [node_counts EXCEPT ![l] = @ + 1]
         ELSE UNCHANGED <<louds_bits, node_counts>>
      /\ words' = [words EXCEPT ![l] = WordsAfter(l, n)]

(* The bytes stored up to and without level l tell the key from its successor. *)
UniqueBefore(l, next) ==
  \/ l + input.skip_prefix > Len(next)
  \/ \E m \in 0 .. l - 1 : LabelOf(Key, m) # LabelOf(next, m)

(* skipCommonPrefix has returned.  The keys equal to this one are passed over,
   and the first byte the previous key does not have is inserted. *)
InsertFirstByte ==
  /\ pc = "skip"
  /\ ~CanSkip
  /\ \E j \in cur + 1 .. NumKeys + 1 :
       /\ \A k \in cur + 1 .. j - 1 : SameKey(Key, input.keys[k])
       /\ j <= NumKeys => ~SameKey(Key, input.keys[j])
       /\ nxt' = j
       /\ pc' = IF UniqueBefore(level + 1, KeyAt(j)) THEN "store" ELSE "rest"
  /\ InsertKeyByte(LabelOf(Key, level), level, IsLevelEmpty(level))
  /\ level' = level + 1
  /\ UNCHANGED <<input, cur, values, denseVars>>

(* A faulty variant of SharesLastByte: the bytes are not compared. *)
BothGoOn ==
  /\ level + input.skip_prefix < Len(Key)
  /\ level + input.skip_prefix < Len(KeyAt(nxt))

(* The loop of insertKeyBytesToTrieUntilUnique goes on. *)
SharesLastByte ==
  /\ level + input.skip_prefix < Len(Key)
  /\ level + input.skip_prefix < Len(KeyAt(nxt))
  /\ LabelOf(Key, level - 1) = LabelOf(KeyAt(nxt), level - 1)

InsertNextByte ==
  /\ pc = "rest"
  /\ SharesLastByte
  /\ InsertKeyByte(LabelOf(Key, level), level, TRUE)
  /\ level' = level + 1
  /\ UNCHANGED <<input, pc, cur, nxt, values, denseVars>>

(* The value goes to the level of the last byte inserted, and the scan moves
   on to the next different key. *)
StoreValue ==
  /\ pc = "store" \/ (pc = "rest" /\ ~SharesLastByte)
  /\ values' = [values EXCEPT ![level - 1] = Append(@, cur)]
  /\ cur' = nxt
  /\ level' = 0
  /\ pc' = IF nxt <= NumKeys THEN "skip"
           ELSE IF input.include_dense THEN "cutoff" ELSE "done"
  /\ UNCHANGED <<input, nxt, sparseVars, denseVars>>

-------------------------------------------------------------------------------
(* determineCutoffLevel *)

(* computeDenseMem and computeSparseMem; 2 * kFanout * node_counts_[level] and
   2 * num_items are computed in position_t. *)
ComputeDenseMem(downto) ==
  MapThenSumSet(LAMBDA l :
                  ((2 * Fanout * node_counts[l]) % PositionRange)
                    + (IF l > 0 THEN node_counts[l - 1] \div 8 + 1 ELSE 0),
                0 .. downto - 1)

ComputeSparseMem(from) ==
  MapThenSumSet(LAMBDA l :
                  GetNumItems(l) + ((2 * GetNumItems(l)) % PositionRange) \div 8 + 1,
                from .. height - 1)

(* The loop that looks for the cutoff goes on past level c. *)
CutoffGoesOn(c) ==
  c < height /\ ComputeDenseMem(c) * input.ratio < ComputeSparseMem(c)

(* The level the loop stops at is stored before it is decremented. *)
DetermineCutoffLevel ==
  /\ pc = "cutoff"
  /\ \E c \in 0 .. height :
       /\ ~CutoffGoesOn(c)
       /\ \A d \in 0 .. c - 1 : CutoffGoesOn(d)
       /\ sparse_start_level' = c
  /\ pc' = "collect"
  /\ UNCHANGED <<input, cur, nxt, level, sparseVars, values, values_dense,
                 values_sparse, dense>>

(* One turn of the two loops that concatenate the values of the levels; after
   the last level values_ is cleared. *)
CollectValues ==
  /\ pc = "collect"
  /\ IF level < sparse_start_level
     THEN /\ values_dense' = values_dense \o values[level]
          /\ UNCHANGED values_sparse
     ELSE /\ values_sparse' = values_sparse \o values[level]
          /\ UNCHANGED values_dense
  /\ IF level + 1 < height
     THEN /\ level' = level + 1
          /\ UNCHANGED <<pc, values>>
     ELSE /\ level' = 0
          /\ pc' = "dense"
          /\ values' = [l \in Levels |-> << >>]
  /\ UNCHANGED <<input, cur, nxt, sparseVars, sparse_start_level, dense>>

-------------------------------------------------------------------------------
(* buildDense *)

IsTerminator(l, p) ==
  labels[l][p + 1] = Terminator /\ p \notin child_indicator_bits[l]

(* A faulty variant of NodeNum: the node at position 0 is counted too. *)
NodeNumFromOne(l, p) == Cardinality({q \in louds_bits[l] : q <= p})

(* The node_num of the loop: nodes that start at a position up to p, the one
   at position 0 not counted. *)
NodeNum(l, p) == Cardinality({q \in louds_bits[l] : 1 <= q /\ q <= p})

(* Where the label at position p goes, unless it is the terminator of a node;
   a bitmap position is a position_t. *)
BitmapPos(l, p) == (NodeNum(l, p) * Fanout + labels[l][p + 1]) % PositionRange

(* A faulty variant of MarksPrefixKey: wherever the label stands in its node. *)
IsTerminatorAnywhere(l, p) == IsTerminator(l, p)

MarksPrefixKey(l, p) == (p = 0 \/ p \in louds_bits[l]) /\ IsTerminator(l, p)

(* setLabelAndChildIndicatorBitmap for every item of the level, or the bit of
   the node in prefixkey_indicator_bits_. *)
DenseLevel(l) ==
  LET items  == 0 .. GetNumItems(l) - 1
      mapped == {p \in items : ~MarksPrefixKey(l, p)}
  IN  [labels    |-> {BitmapPos(l, p) : p \in mapped},
       children  |-> {BitmapPos(l, p) : p \in mapped \cap child_indicator_bits[l]},
       prefixkey |-> {NodeNum(l, p) : p \in items \ mapped}]

BuildDenseLevel ==
  /\ pc = "dense"
  /\ level < sparse_start_level
  /\ dense' = Append(dense, DenseLevel(level))
  /\ level' = level + 1
  /\ UNCHANGED <<input, pc, cur, nxt, sparseVars, values, sparse_start_level,
                 values_dense, values_sparse>>

(* build returns; the constructors of LoudsDense and LoudsSparse read the
   vectors next. *)
FinishBuild ==
  /\ pc = "dense"
  /\ level = sparse_start_level
  /\ pc' = "done"
  /\ UNCHANGED <<input, cur, nxt, level, sparseVars, values, denseVars>>

Terminated == pc = "done" /\ UNCHANGED vars

Next ==
  \/ SkipCommonPrefix
  \/ InsertFirstByte
  \/ InsertNextByte
  \/ StoreValue
  \/ DetermineCutoffLevel
  \/ CollectValues
  \/ BuildDenseLevel
  \/ FinishBuild
  \/ Terminated

Spec == Init /\ [][Next]_vars

(* A build runs in one thread that nothing can block. *)
FairSpec == Spec /\ WF_vars(Next)

-------------------------------------------------------------------------------
(* Reading the vectors back, the way the trie will: a node is found by       *)
(* counting child bits, a value by counting leaves.                          *)

NodeOf(l, p) == Cardinality({q \in louds_bits[l] : q <= p}) - 1

ParentPos(l, p) ==
  CHOOSE q \in child_indicator_bits[l - 1] :
    Cardinality({r \in child_indicator_bits[l - 1] : r < q}) = NodeOf(l, p)

(* The labels on the way from the root to the item at position p of level l. *)
PathTo(l, p) ==
  LET pos[m \in 0 .. l] == IF m = l THEN p ELSE ParentPos(m + 1, pos[m + 1])
  IN  [m \in 1 .. l + 1 |-> labels[m - 1][pos[m - 1] + 1]]

Leaves(l) == (0 .. GetNumItems(l) - 1) \ child_indicator_bits[l]

LeavesBetween(from, to) ==
  MapThenSumSet(LAMBDA l : Cardinality(Leaves(l)), from .. to - 1)

ValuesCleared == input.include_dense /\ pc \in {"dense", "done"}

(* The values of level l, which the level-wise concatenation keeps together. *)
ValuesOf(l) ==
  LET slice(vs, from) ==
        SubSeq(vs, LeavesBetween(from, l) + 1, LeavesBetween(from, l + 1))
  IN  IF ~ValuesCleared THEN values[l]
      ELSE IF l < sparse_start_level THEN slice(values_dense, 0)
      ELSE slice(values_sparse, sparse_start_level)

(* What the vectors hold: the path to each leaf with the leaf's value.  The
   leaf of a key still being inserted has no value yet. *)
entries ==
  UNION {LET vs == ValuesOf(l)
             rank(p) == Cardinality({q \in Leaves(l) : q <= p})
         IN  {<<PathTo(l, p), vs[rank(p)]>> :
                p \in {q \in Leaves(l) : rank(q) <= Len(vs)}} :
         l \in 0 .. height - 1}

Abs == INSTANCE AbstractTrie

-------------------------------------------------------------------------------
(* Properties *)

(* Every variable keeps its type. *)
TypeOK ==
  /\ input \in InputType
  /\ pc \in {"skip", "rest", "store", "cutoff", "collect", "dense", "done"}
  /\ cur \in 1 .. NumKeys + 1
  /\ nxt \in 1 .. NumKeys + 1
  /\ level \in 0 .. MaxLevel + 1
  /\ height \in 0 .. MaxLevel + 1
  /\ labels \in [Levels -> Seq(Label)]
  /\ child_indicator_bits \in [Levels -> SUBSET Nat]
  /\ louds_bits \in [Levels -> SUBSET Nat]
  /\ words \in [Levels -> Nat]
  /\ node_counts \in [Levels -> Nat]
  /\ values \in [Levels -> Seq(Nat)]
  /\ sparse_start_level \in 0 .. MaxLevel + 1
  /\ values_dense \in Seq(Nat)
  /\ values_sparse \in Seq(Nat)
  /\ dense \in Seq([labels : SUBSET Nat, children : SUBSET Nat,
                    prefixkey : SUBSET Nat])

(* The LOUDS order: level l + 1 has one node per child bit of level l, each
   with one start bit, so that the n-th child bit leads to the n-th node. *)
LoudsAligned ==
  \A l \in Levels :
    /\ node_counts[l] = Cardinality(louds_bits[l])
    /\ l + 1 >= height => child_indicator_bits[l] = {}
    /\ l < height =>
         node_counts[l] = IF l = 0 THEN 1
                          ELSE Cardinality(child_indicator_bits[l - 1])

(* The item of the key being inserted that has no value yet. *)
Pending(l) == IF pc \in {"rest", "store"} /\ l = level - 1 THEN 1 ELSE 0

(* A level has as many values as leaves: the k-th leaf owns the k-th value. *)
ValuesAligned ==
  ~ValuesCleared =>
    \A l \in Levels :
      Len(values[l]) + Cardinality(child_indicator_bits[l]) + Pending(l)
        = GetNumItems(l)

(* The labels of a node are strictly ascending, which the binary search over
   labels and the order of the iterator rely on. *)
NodesSorted ==
  \A l \in Levels :
    \A p \in 1 .. GetNumItems(l) - 1 :
      p \notin louds_bits[l] => labels[l][p] < labels[l][p + 1]

(* No bit is set outside the words a vector has, and the slot of the next item
   exists: setBit and readBit have no bound check in a release build. *)
SlotsSuffice ==
  \A l \in 0 .. height - 1 :
    /\ GetNumItems(l) < words[l] * WordSize
    /\ \A p \in child_indicator_bits[l] \cup louds_bits[l] : p < GetNumItems(l)

(* The bitmaps of a dense level hold the nodes, labels and children of the
   sparse vectors they were built from, inside the words initDenseVectors
   gives them, and no node is marked as the end of a key. *)
DenseMirrorsSparse ==
  \A l \in 0 .. Len(dense) - 1 :
    LET bitmap == dense[l + 1]
        items  == {<<NodeOf(l, p), labels[l][p + 1], p \in child_indicator_bits[l]>> :
                     p \in 0 .. GetNumItems(l) - 1}
    IN  /\ bitmap.labels \subseteq 0 .. node_counts[l] * Fanout - 1
        /\ {<<b \div Fanout, b % Fanout, b \in bitmap.children>> :
              b \in bitmap.labels} = items
        /\ bitmap.prefixkey = {}

(* Step by step, the vectors hold exactly the entries the abstract trie has;
   the steps after the scan lose, move or reorder none. *)
BuildsAbstractTrie == Abs!Spec

(* Every build ends with an entry for every distinct key. *)
BuildCompletes == <>(pc = "done" /\ entries = Abs!AllEntries)
===============================================================================

--------------------------------- MODULE FST ---------------------------------
(***************************************************************************)
(* The Fast Succinct Trie (fst.hpp, louds_dense.hpp, louds_sparse.hpp): the *)
(* builder's vectors become the two encodings, in which keys and nodes are *)
(* then looked up, from the root or, for the hybrid trie that embeds an    *)
(* FST, from a node it was given before.                                   *)
(*                                                                         *)
(* An operation runs as one step per level of the trie; call is the one    *)
(* running or, once it is answered, the last one.  Node numbers count the  *)
(* nodes of both encodings from the root, 0, in level order.               *)
(***************************************************************************)
EXTENDS FSTBuilder, SequencesExt

CONSTANTS
  RankBlock,          \* kRankBasicBlockSize
  SampleInterval,     \* kSelectSampleInterval
  LinearBelow,        \* LabelVector::search is linear for shorter ranges
  BinaryBelow,        \* and bisects for ranges shorter than this
  Keys,               \* the keys looked up
  NegativeBytes       \* may amacLookup be given bytes that are negative as char?

(* kWordSize is a power of 2, and divides kRankBasicBlockSize. *)
ASSUME TablesAssumption ==
  /\ \A d \in 1 .. WordSize : WordSize % d = 0 => d = 1 \/ d % 2 = 0
  /\ RankBlock \in Nat \ {0}
  /\ RankBlock % WordSize = 0
  /\ SampleInterval \in Nat \ {0}

(* The words of a node's bitmap are its own, and the vector search does not
   bisect ranges that are much longer than a word. *)
ASSUME WidthsAssumption ==
  /\ WordSize > 1
  /\ Fanout % WordSize = 0
  /\ BinaryBelow \in Nat
  /\ BinaryBelow <= WordSize + 2

ASSUME KeysAssumption == Keys \subseteq Seq(Label)

VARIABLES
  louds_dense,        \* louds_dense_
  louds_sparse,       \* louds_sparse_
  call                \* the operation that runs or was answered last

builderVars == vars
fstVars == <<louds_dense, louds_sparse, call>>
allVars == <<builderVars, fstVars>>

BV == INSTANCE Bitvector
LV == INSTANCE LabelVector

-------------------------------------------------------------------------------
(* Construction *)

NotCreated == [height |-> 0]

LevelWords(bits, n) ==
  [i \in 1 .. n |-> {p - (i - 1) * WordSize :
                       p \in {q \in bits : q \div WordSize = i - 1}}]

(* A bitmap has kFanout bits for each node, the prefix keys have one. *)
BitmapLevels(bitmap) ==
  [i \in 1 .. Len(dense) |->
     LET bits == node_counts[i - 1] * Fanout
     IN  [num_bits |-> bits, words |-> LevelWords(bitmap[i], bits \div WordSize)]]

PrefixkeyLevels ==
  [i \in 1 .. Len(dense) |->
     [num_bits |-> node_counts[i - 1],
      words |-> LevelWords(dense[i].prefixkey, BV!NumWords(node_counts[i - 1]))]]

MakeLoudsDense ==
  LET field(name) == [i \in 1 .. Len(dense) |-> dense[i][name]]
  IN  [height |-> sparse_start_level,
       label_bitmaps |-> BV!MakeRank(BitmapLevels(field("labels")), {}),
       child_indicator_bitmaps |-> BV!MakeRank(BitmapLevels(field("children")), {}),
       prefixkey_indicator_bits |-> BV!MakeRank(PrefixkeyLevels, {}),
       values |-> values_dense]

SparseLevels(bits) ==
  [i \in 1 .. height - sparse_start_level |->
     LET l == sparse_start_level + i - 1
     IN  [num_bits |-> GetNumItems(l), words |-> LevelWords(bits[l], words[l])]]

NodeCountDense == MapThenSumSet(LAMBDA l : node_counts[l], 0 .. sparse_start_level - 1)

(* A faulty variant of ChildCountDense: the root is taken for a child. *)
ChildCountWithRoot ==
  IF sparse_start_level \in {0, height} THEN 0
  ELSE NodeCountDense + node_counts[sparse_start_level]

ChildCountDense ==
  IF sparse_start_level \in {0, height} THEN 0
  ELSE NodeCountDense + node_counts[sparse_start_level] - 1

MakeLoudsSparse ==
  [height |-> height,
   start_level |-> sparse_start_level,
   node_count_dense |-> NodeCountDense,
   child_count_dense |-> ChildCountDense,
   labels |-> [labels |-> FlattenSeq([i \in 1 .. height - sparse_start_level |->
                                        labels[sparse_start_level + i - 1]]),
               junk |-> 0],
   child_indicator_bits |-> BV!MakeRank(SparseLevels(child_indicator_bits), {}),
   louds_bits |-> BV!MakeSelect(SparseLevels(louds_bits), {}),
   values |-> values_sparse]

(* FST::create, after build; the operations below only read what it makes. *)
Create ==
  /\ pc = "done"
  /\ louds_dense = NotCreated /\ louds_sparse = NotCreated
  /\ louds_dense' = MakeLoudsDense
  /\ louds_sparse' = MakeLoudsSparse
  /\ UNCHANGED <<builderVars, call>>

-------------------------------------------------------------------------------
(* Operations: their start, and what they have in common *)

(* The answer of an operation is found, value and node; that of getNode is
   prefix, labels, results and the numbers of the nodes it went through. *)
NewCall(op, key, startLevel, node, at) ==
  [op |-> op, key |-> key, level |-> startLevel, node |-> node, at |-> at,
   found |-> FALSE, value |-> 0, prefix |-> << >>, labels |-> << >>,
   results |-> << >>, nodes |-> << >>]

NoCall == NewCall("none", << >>, 0, 0, "answered")

Ready == louds_sparse # NotCreated /\ call = NoCall

Running(at, ops) == call.at = at /\ call.op \in ops

KeyLookups == {"lookupKey", "lookupKeyAtNode"}
NodeLookups == {"lookupNodeNum", "lookupNodeNumOption"}

StartLevel == louds_sparse.start_level

(* A faulty variant of PartOf: the first sparse level is taken for a dense one. *)
PartUpTo(l) == IF l <= StartLevel THEN "dense" ELSE "sparse"

(* The encoding that holds the nodes of a level. *)
PartOf(l) == IF l < StartLevel THEN "dense" ELSE "sparse"

(* The proper prefixes of stored prefixes: the paths that lead to a node. *)
InnerPaths ==
  UNION {{SubSeq(e[1], 1, n) : n \in 0 .. Len(e[1]) - 1} : e \in Abs!AllEntries}

StartLookupKey ==
  /\ Ready
  /\ \E key \in Keys : call' = NewCall("lookupKey", key, 0, 0, "dense")
  /\ UNCHANGED <<builderVars, louds_dense, louds_sparse>>

(* Assertions require that the key leads to a node. *)
StartLookupNodeNum ==
  /\ Ready
  /\ \E key \in InnerPaths : call' = NewCall("lookupNodeNum", key, 0, 0, "dense")
  /\ UNCHANGED <<builderVars, louds_dense, louds_sparse>>

StartLookupNodeNumOption ==
  /\ Ready
  /\ \E key \in Keys : call' = NewCall("lookupNodeNumOption", key, 0, 0, "dense")
  /\ UNCHANGED <<builderVars, louds_dense, louds_sparse>>

(* The answer of amacLookup is a number whose two low bits tell a value from
   a node. *)
NodeTag(node) == 4 * node + 3
ValueTag(val) == 4 * val + 1

IsNodeTag(tagged) == tagged % 4 = 3

(* The nodes of a level are numbered behind those of the levels above. *)
IsNodeOfLevel(node, l) ==
  LET above == MapThenSumSet(LAMBDA m : node_counts[m], 0 .. l - 1)
  IN  l < height /\ node \in above .. above + node_counts[l] - 1

(* The operations of the hybrid trie go on from a node number that an earlier
   operation returned for the bytes read so far.  A number of no node of the
   level, which only reading astray gives, is not followed further. *)
HoldsNode ==
  /\ call.at = "answered"
  /\ call.found
  /\ \/ call.op = "lookupNodeNum"
     \/ call.op = "amacLookup" /\ IsNodeTag(call.results[1])
  /\ IsNodeOfLevel(call.node, Len(call.key))

StartLookupKeyAtNode ==
  /\ HoldsNode
  /\ \E key \in Keys :
       /\ IsPrefix(call.key, key)
       /\ call' = NewCall("lookupKeyAtNode", key, Len(call.key), call.node,
                          PartOf(Len(call.key)))
  /\ UNCHANGED <<builderVars, louds_dense, louds_sparse>>

StartGetNode ==
  /\ HoldsNode
  /\ call' = NewCall("getNode", call.key, Len(call.key), call.node,
                     PartOf(Len(call.key)))
  /\ UNCHANGED <<builderVars, louds_dense, louds_sparse>>

Answer(answered) ==
  /\ call' = [answered EXCEPT !.at = "answered"]
  /\ UNCHANGED <<builderVars, louds_dense, louds_sparse>>

Miss == Answer([call EXCEPT !.found = FALSE])

Hit(val) == Answer([call EXCEPT !.found = TRUE, !.value = val])

FoundNode == Answer([call EXCEPT !.found = TRUE])

(* A faulty variant of Descend: the loop goes on where it is. *)
DescendInPlace(child) ==
  /\ child \in Nat
  /\ call' = call
  /\ UNCHANGED <<builderVars, louds_dense, louds_sparse>>

(* The loop goes on at a child, one level down. *)
Descend(child) ==
  /\ call' = [call EXCEPT !.node = child, !.level = @ + 1]
  /\ UNCHANGED <<builderVars, louds_dense, louds_sparse>>

(* The values vector is read without a check; 0 stands for what lies behind. *)
ValueAt(vals, i) == IF i + 1 \in DOMAIN vals THEN vals[i + 1] ELSE 0

KeyByte == call.key[call.level + 1]

OutOfBytes == call.level >= Len(call.key)

-------------------------------------------------------------------------------
(* LoudsDense *)

DensePos(node, byte) == (node * Fanout + byte) % PositionRange

HasLabel(pos) == BV!ReadBit(louds_dense.label_bitmaps, pos)

HasDenseChild(pos) == BV!ReadBit(louds_dense.child_indicator_bitmaps, pos)

DenseChild(pos) == BV!Rank(louds_dense.child_indicator_bitmaps, pos)

(* A faulty variant of DenseValue: the children are counted as values. *)
DenseValueOfLabel(pos) ==
  ValueAt(louds_dense.values, BV!Rank(louds_dense.label_bitmaps, pos) - 1)

DenseValue(pos) ==
  ValueAt(louds_dense.values,
          BV!Rank(louds_dense.label_bitmaps, pos) - DenseChild(pos) - 1)

(* The loop of lookupKey and lookupKeyAtNode. *)
DenseKeyStep ==
  /\ Running("dense", KeyLookups)
  /\ call.level < louds_dense.height
  /\ IF OutOfBytes THEN Miss
     ELSE LET pos == DensePos(call.node, KeyByte)
          IN  \/ ~HasLabel(pos) /\ Miss
              \/ HasLabel(pos) /\ ~HasDenseChild(pos) /\ Hit(DenseValue(pos))
              \/ HasLabel(pos) /\ HasDenseChild(pos) /\ Descend(DenseChild(pos))

(* The loop of lookupNodeNumber, which only asserts that the key exists, and of
   lookupNodeNumberOption, which tests it. *)
DenseNodeStep ==
  /\ Running("dense", NodeLookups)
  /\ call.level < louds_dense.height
  /\ IF OutOfBytes THEN FoundNode
     ELSE LET pos == DensePos(call.node, KeyByte)
          IN  IF call.op = "lookupNodeNumOption" /\ ~(HasLabel(pos) /\ HasDenseChild(pos))
              THEN Miss
              ELSE Descend(DenseChild(pos))

ToSparse ==
  /\ call' = [call EXCEPT !.at = "sparse"]
  /\ UNCHANGED <<builderVars, louds_dense, louds_sparse>>

(* A faulty variant of GoesOn: the node numbers of the dense part are final. *)
GoesOnForKeys == call.op \in KeyLookups /\ call.node # 0

(* Behind the dense levels.  Node 0 stands for a search that ended in them.
   lookupNodeNumOption goes on for shorter keys than get here. *)
GoesOn ==
  CASE call.op \in KeyLookups         -> call.node # 0
    [] call.op = "lookupNodeNum"       -> Len(call.key) >= StartLevel
    [] call.op = "lookupNodeNumOption" -> Len(call.key) < StartLevel

LeaveDense ==
  /\ Running("dense", KeyLookups \cup NodeLookups)
  /\ call.level = louds_dense.height
  /\ IF GoesOn THEN ToSparse ELSE Answer([call EXCEPT !.found = TRUE])

-------------------------------------------------------------------------------
(* LoudsSparse *)

HasSparseChild(pos) == BV!ReadBit(louds_sparse.child_indicator_bits, pos)

SparseChild(pos) ==
  BV!Rank(louds_sparse.child_indicator_bits, pos) + louds_sparse.child_count_dense

(* A faulty variant of SparseValue: it counts like the dense part. *)
SparseValueBefore(pos) ==
  ValueAt(louds_sparse.values,
          pos - BV!Rank(louds_sparse.child_indicator_bits, pos) - 1)

SparseValue(pos) ==
  ValueAt(louds_sparse.values,
          pos - BV!Rank(louds_sparse.child_indicator_bits, pos))

FirstLabelPos(node) ==
  BV!Select(louds_sparse.louds_bits, node + 1 - louds_sparse.node_count_dense)

(* nodeSize, for every word that may lie behind the words of louds_bits_. *)
NodeSizes(pos) ==
  {BV!DistanceToNextSetBit([louds_sparse.louds_bits EXCEPT !.junk = word], pos) :
     word \in SUBSET (0 .. WordSize - 1)}

(* labels_->search in the node, for every label that may lie behind labels_. *)
SearchesIn(node, byte) ==
  LET pos == FirstLabelPos(node)
  IN  {LV!Search([louds_sparse.labels EXCEPT !.junk = behind], byte, pos, size) :
         behind \in Label, size \in NodeSizes(pos)}

(* The loop of lookupKey and lookupKeyAtNode. *)
SparseKeyStep ==
  /\ Running("sparse", KeyLookups)
  /\ IF OutOfBytes THEN Miss
     ELSE \E s \in SearchesIn(call.node, KeyByte) :
            \/ ~s.found /\ Miss
            \/ s.found /\ ~HasSparseChild(s.pos) /\ Hit(SparseValue(s.pos))
            \/ s.found /\ HasSparseChild(s.pos) /\ Descend(SparseChild(s.pos))

(* The loop of lookupNodeNumber and of lookupNodeNumberOption. *)
SparseNodeStep ==
  /\ Running("sparse", NodeLookups)
  /\ IF OutOfBytes THEN FoundNode
     ELSE \E s \in SearchesIn(call.node, KeyByte) :
            IF call.op = "lookupNodeNumOption" /\ ~(s.found /\ HasSparseChild(s.pos))
            THEN Miss
            ELSE Descend(SparseChild(s.pos))

-------------------------------------------------------------------------------
(* amacLookup: one byte from a node on *)

(* The caller reads the answer back. *)
TaggedAnswer(key, tagged) ==
  [NewCall("amacLookup", key, Len(key), 0, "answered") EXCEPT
     !.found = TRUE,
     !.value = IF IsNodeTag(tagged) THEN 0 ELSE tagged \div 4,
     !.node = IF IsNodeTag(tagged) THEN tagged \div 4 ELSE 0,
     !.results = <<tagged>>]

MissedAnswer(key) == NewCall("amacLookup", key, Len(key), 0, "answered")

(* The byte is a char, which is signed. *)
SignedByte(byte) == IF byte >= Fanout \div 2 THEN byte - Fanout ELSE byte

NodeTotal == louds_sparse.node_count_dense + louds_sparse.louds_bits.num_ones

(* Any bits may be read at a position outside the bitmaps, and by their ranks any
   value and any node number; 0 stands for what lies behind the values, and
   NodeTotal for the numbers that no node has. *)
StraySteps(key) ==
  {MissedAnswer(key)}
    \cup {TaggedAnswer(key, ValueTag(val)) : val \in {0} \cup Range(louds_dense.values)}
    \cup {TaggedAnswer(key, NodeTag(node)) : node \in 0 .. NodeTotal}

DenseStepsOf(byte) ==
  LET pos == DensePos(call.node, SignedByte(byte))
      key == Append(call.key, byte)
  IN  IF pos >= louds_dense.label_bitmaps.num_bits THEN StraySteps(key)
      ELSE IF ~HasLabel(pos) THEN {MissedAnswer(key)}
      ELSE {TaggedAnswer(key, IF HasDenseChild(pos) THEN NodeTag(DenseChild(pos))
                              ELSE ValueTag(DenseValue(pos)))}

SparseStepsOf(byte) ==
  LET key == Append(call.key, byte)
      answer(s) == IF HasSparseChild(s.pos) THEN NodeTag(SparseChild(s.pos))
                   ELSE ValueTag(SparseValue(s.pos))
  IN  {IF s.found THEN TaggedAnswer(key, answer(s)) ELSE MissedAnswer(key) :
         s \in SearchesIn(call.node, byte)}

AmacLookup ==
  /\ HoldsNode
  /\ \E byte \in Label :
       IF PartOf(Len(call.key)) = "dense"
       THEN /\ SignedByte(byte) < 0 => NegativeBytes
            /\ call' \in DenseStepsOf(byte)
       ELSE call' \in SparseStepsOf(byte)
  /\ UNCHANGED <<builderVars, louds_dense, louds_sparse>>

-------------------------------------------------------------------------------
(* getNode *)

(* A faulty variant of DenseLabels: only the first word of a node is read. *)
DenseLabelsOfFirstWord(node) ==
  {c \in Label : c < WordSize /\ HasLabel(node * Fanout + c)}

(* getNumSetBitsInDenseNode counts the labels of a node, and returns in label
   what __builtin_clz says of a truth value, 31 for kWordSize = 64. *)
DenseLabels(node) == {c \in Label : HasLabel(node * Fanout + c)}

LabelOfWord(node) ==
  (WordSize \div 2 - 1) + (Max(DenseLabels(node)) \div WordSize) * WordSize

(* getNode tests the labels from 0 on. *)
InOrder(S) ==
  [i \in 1 .. Cardinality(S) |-> CHOOSE c \in S : Cardinality({b \in S : b <= c}) = i]

(* nodeHasMultipleBranchesOrTerminates returned false: its one label goes to
   prefixLabels, and the loop goes on at the child. *)
Collapse(label, child) ==
  /\ call' = [call EXCEPT !.prefix = Append(@, label), !.node = child,
                          !.nodes = Append(@, child), !.level = @ + 1,
                          !.at = PartOf(call.level + 1)]
  /\ UNCHANGED <<builderVars, louds_dense, louds_sparse>>

GetDenseNode ==
  LET base == call.node * Fanout
      only == base + LabelOfWord(call.node)
      ls   == InOrder(DenseLabels(call.node))
  IN  /\ Running("dense", {"getNode"})
      /\ IF Cardinality(DenseLabels(call.node)) = 1 /\ HasDenseChild(only)
         THEN Collapse(LabelOfWord(call.node), DenseChild(only))
         ELSE Answer([call EXCEPT
                !.found = TRUE,
                !.labels = ls,
                !.results = [i \in 1 .. Len(ls) |->
                   IF HasDenseChild(base + ls[i])
                   THEN NodeTag(DenseChild(base + ls[i]))
                   ELSE ValueTag(DenseValue(base + ls[i]))]])

(* A faulty variant of GoesOnAlone: any first label with a child will do. *)
GoesOnAnyway(pos, size) == size > 0 /\ HasSparseChild(pos)

(* nodeHasMultipleBranchesOrTerminates returns false. *)
GoesOnAlone(pos, size) == size = 1 /\ HasSparseChild(pos)

GetSparseNode ==
  LET pos == FirstLabelPos(call.node)
      label(p) == LV!LabelAt(louds_sparse.labels, p)
  IN  /\ Running("sparse", {"getNode"})
      /\ \E size \in NodeSizes(pos) :
           IF GoesOnAlone(pos, size)
           THEN Collapse(label(pos), SparseChild(pos))
           ELSE LET end == Min({pos + size, louds_sparse.child_indicator_bits.num_bits})
                IN  Answer([call EXCEPT
                      !.found = TRUE,
                      !.labels = [i \in 1 .. end - pos |-> label(pos + i - 1)],
                      !.results = [i \in 1 .. end - pos |->
                         IF HasSparseChild(pos + i - 1)
                         THEN NodeTag(SparseChild(pos + i - 1))
                         ELSE ValueTag(SparseValue(pos + i - 1))]])

-------------------------------------------------------------------------------
(* The client is done with an answer. *)
Return ==
  /\ call.at = "answered" /\ call # NoCall
  /\ call' = NoCall
  /\ UNCHANGED <<builderVars, louds_dense, louds_sparse>>

FSTInit ==
  /\ Init
  /\ louds_dense = NotCreated
  /\ louds_sparse = NotCreated
  /\ call = NoCall

BuildStep == Next /\ pc # "done" /\ UNCHANGED fstVars

LookupStep ==
  \/ DenseKeyStep
  \/ DenseNodeStep
  \/ LeaveDense
  \/ SparseKeyStep
  \/ SparseNodeStep
  \/ GetDenseNode
  \/ GetSparseNode

StartLookup ==
  \/ StartLookupKey
  \/ StartLookupNodeNum
  \/ StartLookupNodeNumOption
  \/ StartLookupKeyAtNode
  \/ StartGetNode
  \/ AmacLookup

FSTNext == BuildStep \/ Create \/ StartLookup \/ LookupStep \/ Return

FSTSpec == FSTInit /\ [][FSTNext]_allVars

(* An operation runs in its caller's thread, which nothing blocks; whether one
   is called at all is the caller's choice. *)
FSTFairSpec == FSTSpec /\ WF_allVars(LookupStep)

-------------------------------------------------------------------------------
(* What the operations promise, in terms of the entries of the abstract trie *)

Entries == Abs!AllEntries

(* The entries whose stored prefix the key has; at most one. *)
EntriesOf(key) == {e \in Entries : IsPrefix(e[1], key)}

(* a is behind b in level order. *)
PathBefore(a, b) ==
  \/ Len(a) < Len(b)
  \/ /\ Len(a) = Len(b)
     /\ \E n \in 1 .. Len(a) :
          a[n] < b[n] /\ SubSeq(a, 1, n - 1) = SubSeq(b, 1, n - 1)

NodeNumber(path) == Cardinality({q \in InnerPaths : PathBefore(q, path)})

(* The paths of one byte more than a node's. *)
NextPaths(path) ==
  {q \in InnerPaths \cup {e[1] : e \in Entries} :
     Len(q) = Len(path) + 1 /\ IsPrefix(path, q)}

(* The path to the node an operation stands at. *)
PathRead ==
  IF call.op = "getNode" THEN call.key \o call.prefix
  ELSE SubSeq(call.key, 1, call.level)

(* amacLookup was given no byte in the dense part that is negative as a char:
   its callers give none, the call started at the root, or its key has none. *)
NoNegativeByte ==
  \/ ~NegativeBytes
  \/ call.op \in {"none", "lookupKey"} \cup NodeLookups
  \/ \A n \in 1 .. Len(call.key) : n <= StartLevel => SignedByte(call.key[n]) >= 0

Answered(ops) == call.at = "answered" /\ call.op \in ops

(* In the sparse part, the distance from the start of the last node leads to
   the end of the vector: the last word is reached in the word it starts in. *)
LastNodeEndsInside ==
  LET bv == louds_sparse.louds_bits
  IN  bv.num_ones > 0 =>
        (BV!Select(bv, bv.num_ones) + 1) \div WordSize = BV!NumWords(bv.num_bits) - 1

-------------------------------------------------------------------------------
(* Properties *)

CallType ==
  [op : {"none", "getNode", "amacLookup"} \cup KeyLookups \cup NodeLookups,
   key : Seq(Label), level : Nat, node : Nat,
   at : {"dense", "sparse", "answered"}, found : BOOLEAN, value : Nat,
   prefix : Seq(Label), labels : Seq(Label), results : Seq(Nat), nodes : Seq(Nat)]

(* The calls and what they return keep their types, and an operation that runs
   is in the encoding that holds the level it has come to. *)
FSTTypeOK ==
  /\ call \in CallType
  /\ call.at = "dense" =>
       IF call.op = "getNode" THEN call.level < louds_dense.height
       ELSE call.level <= louds_dense.height
  /\ call.at = "sparse" => call.level \in StartLevel .. louds_sparse.height - 1

(* While an operation runs, the node it stands at is the node that the bytes
   read so far lead to, in both encodings and across their border. *)
StandsAtNode ==
  call.at # "answered" =>
    /\ PathRead \in InnerPaths
    /\ call.node = NodeNumber(PathRead)

(* lookupKey and lookupKeyAtNode find every stored key, with its own value. *)
StoredKeysFound ==
  Answered(KeyLookups) =>
    \A e \in EntriesOf(call.key) : call.found /\ call.value = e[2]

(* A key that has no stored prefix is not found. *)
AbsentKeysMissed ==
  Answered(KeyLookups) /\ EntriesOf(call.key) = {} => ~call.found

(* The same, for tries whose last node ends inside its word. *)
AbsentKeysMissedInside ==
  Answered(KeyLookups) => ~LastNodeEndsInside \/ AbsentKeysMissed

(* lookupNodeNum returns the node its key leads to, and so does
   lookupNodeNumOption for keys that are not longer than the dense part. *)
NodeNumbersExact ==
  Answered(NodeLookups) =>
    /\ call.op = "lookupNodeNum" => call.node = NodeNumber(call.key)
    /\ call.op = "lookupNodeNumOption" /\ Len(call.key) <= StartLevel =>
         /\ call.found = (call.key \in InnerPaths)
         /\ call.found => call.node = NodeNumber(call.key)

(* A chain of amacLookup steps finds what a lookup of the same bytes finds: the
   next node, the value, or nothing. *)
AmacExact ==
  Answered({"amacLookup"}) =>
    /\ call.found = (call.key \in InnerPaths \/ EntriesOf(call.key) # {})
    /\ call.key \in InnerPaths => call.node = NodeNumber(call.key)
    /\ \A e \in EntriesOf(call.key) : call.value = e[2]

(* The same, for tries whose last node ends inside its word. *)
AmacExactInside ==
  Answered({"amacLookup"}) => ~LastNodeEndsInside \/ AmacExact

(* It finds what is stored: the node or the value its bytes lead to. *)
AmacFindsStored ==
  Answered({"amacLookup"}) =>
    /\ call.key \in InnerPaths => call.found /\ call.node = NodeNumber(call.key)
    /\ \A e \in EntriesOf(call.key) : call.found /\ call.value = e[2]

(* getNode returns the labels of the node it stopped at in order, each with the
   value or the node it leads to, and the nodes it passed on its way. *)
NodeContents ==
  Answered({"getNode"}) =>
    LET result(q) == IF q \in InnerPaths THEN NodeTag(NodeNumber(q))
                     ELSE ValueTag((CHOOSE e \in Entries : e[1] = q)[2])
    IN  /\ {<<call.labels[i], call.results[i]>> : i \in DOMAIN call.labels}
             = {<<Last(q), result(q)>> : q \in NextPaths(PathRead)}
        /\ \A i \in 2 .. Len(call.labels) : call.labels[i - 1] < call.labels[i]
        /\ call.nodes = [i \in 1 .. Len(call.prefix) |->
                           NodeNumber(call.key \o SubSeq(call.prefix, 1, i))]

(* Each node that getNode passed has the branch it went on in and no other. *)
PassedHaveOneBranch ==
  \A n \in 0 .. Len(call.prefix) - 1 :
    NextPaths(call.key \o SubSeq(call.prefix, 1, n))
      = {call.key \o SubSeq(call.prefix, 1, n + 1)}

(* The node it stopped at has another one, or a label that leads to a value. *)
StoppedForReason == Len(call.labels) = 1 => ~IsNodeTag(call.results[1])

(* getNode stops at the first node that is a leaf or has two branches: not behind
   it and not in front of it. *)
NodeCollapsed ==
  Answered({"getNode"}) => PassedHaveOneBranch /\ StoppedForReason

(* It never stops behind it, and in the sparse part not in front of it either. *)
SparseNodeCollapsed ==
  Answered({"getNode"}) =>
    /\ PassedHaveOneBranch
    /\ PartOf(Len(PathRead)) = "sparse" => StoppedForReason

(* Every operation that is called returns. *)
CallsReturn == call.at # "answered" ~> call.at = "answered"
===============================================================================

# FST: a verification development

FST is a header-only C++ implementation of the Fast Succinct Trie: a static map
from byte strings to 64-bit values, built once from a sorted key list and only
read afterwards.  The upper levels of the trie are stored as bitmaps
(LOUDS-Dense), the lower ones as label and bit vectors (LOUDS-Sparse).  This
directory holds TLA+ models of the library, configurations that check them with
TLC, and proofs for TLAPS.

All line numbers below refer to files of `src/include/` unless a path is given.

## 1. The system

| Component | State it keeps | Operations | Hard about it |
| --- | --- | --- | --- |
| `FSTBuilder` (`fst_builder.hpp`) | per level: `labels_`, `child_indicator_bits_`, `louds_bits_`, `node_counts_`, `values_`; the cutoff `sparse_start_level_`; the bitmaps and the two value vectors | `build` (two overloads): `buildSparse`, `determineCutoffLevel`, `buildDense` | The items of a key are written at different times: a byte, later (with the next key) its child bit, its value when the key has become unique. Vectors are indexed by counting bits in one another, so one missing bit shifts everything behind it. |
| `Bitvector`, `BitvectorRank`, `BitvectorSelect` (`bitvector.hpp`, `rank.hpp`, `select.hpp`, `popcount.h`) | `num_bits_`, `bits_`, a look-up table of ranks or of sampled positions | construction by concatenating levels; `readBit`, `distanceToNextSetBit`, `distanceToPrevSetBit`, `rank`, `select` | Borders of words, blocks, samples and of the vector itself; no access is checked in a release build. |
| `LabelVector` (`label_vector.hpp`) | `labels_` | `search` (linear, binary or SIMD), `searchGreaterThan` | The skipped terminator; the length it is given may be too large. |
| `LoudsDense`, `LoudsSparse` (`louds_dense.hpp`, `louds_sparse.hpp`) | bit vectors, labels, values; counts of the nodes in the dense part | lookups by key, from the root or from a node; one-byte steps; reading a node; seeks | Node numbers run through both encodings; a child is found by a rank, a node by a select, a value by a difference of ranks. |
| `FST` (`fst.hpp`) | one of each | `create`, lookups, seeks, `lookupRange`, `serialize`, `deSerialize` | Handing a search over between the encodings; node numbers that the hybrid trie (a tree of another kind that embeds the FST) keeps between calls. |
| Iterators (`FST::Iter` and its two halves) | per level: position, byte, value position; flags | `++`, `--`, seeks, leftmost and rightmost key | Two halves with their own validity; positions remembered from earlier steps. |
| Serialization and ownership | a byte buffer | `serialize`, `deSerialize`, destructors | What is not written cannot be read back; who frees what. |
| `config.hpp`, `hash.hpp`, `src/bench`, `src/test`, `src/vendor` | none of their own | constants and byte swaps; an unused hash; benchmarks; tests; gtest | not part of the core |

The library has no threads, no locks, no I/O and no callbacks: it is called, it
loops and it returns.  What is hard in it is the *representation*: several
vectors that only make sense together, read with arithmetic that is correct
only if every earlier step wrote the right bit.  Assertions state many of the
assumptions, but the build adds `-DNDEBUG` (`src/CMakeLists.txt`) except for
coverage builds, so the models let an operation go on where an assertion fails
and let reads behind a vector return anything.

### What must be right

* *Builder*: for every distinct key the vectors hold its shortest
  distinguishing prefix and the value of its first occurrence; the n-th child
  bit of a level leads to the n-th node of the next; the k-th leaf of a level
  owns the k-th value; labels of a node ascend; bitmaps hold exactly what the
  sparse vectors hold.
* *Bit vectors*: concatenation loses and moves no bit; rank, select and the two
  distances are what their names say.
* *Lookups*: an operation stands at the node that the bytes read so far lead
  to; stored keys are found with their own value; absent keys are not found; a
  chain of one-byte steps sees the same trie as a lookup.
* *Iterators*: they run through the leaves in key order, each with its value,
  forwards and backwards, from wherever a seek put them; a loop over a range
  visits the keys of the range and ends.
* *Serialization*: an image has the size that was announced, and what is read
  back part by part is what was written.

The hazards of the code, each at its line and with the properties that cover
it, are listed in `PROJECT.json`.

## 2. The modules

| Module | Models | Kind |
| --- | --- | --- |
| `AbstractTrie` | what `build` promises: a set of (stored prefix, value) entries that grows by one per distinct key | abstract specification |
| `FSTBuilder` | `fst_builder.hpp`, both overloads of `build` | state machine, refines `AbstractTrie` |
| `KeyLists` | sorted key lists to build from | bounded inputs |
| `MCFSTBuilder` | | instances for TLC |
| `FSTBuilder_proofs` | | theorems about `FSTBuilder`: types, that no bit is written behind a vector, LOUDS order, sorted nodes and values, the bitmaps, and the refinement of `AbstractTrie` |
| `Bitvector` | bit vectors with rank and select, word by word | operators |
| `BitvectorQueries` | a client that builds a bit vector and asks it | state machine with reference definitions |
| `MCBitvector` | | instances for TLC |
| `Numbers_proofs` | | lemmas on division, induction, recursion, folds and flattening |
| `Bitvector_proofs` | | lemmas about concatenation and distances, and about counting, rank and select |
| `BitvectorQueries_proofs` | | theorems about `BitvectorQueries` |
| `LabelVector` | `search` and `searchGreaterThan` with their strategies | operators |
| `LabelVector_proofs` | | theorems about label search |
| `FST` | `FST::create`, the constructors of both encodings and all lookups | state machine; extends `FSTBuilder`, instantiates `Bitvector` and `LabelVector` |
| `MCFST` | | instances for TLC |
| `FSTTrie_proofs` | | lemmas about the trie that a finished build holds, and about what keeps an operation right |
| `FST_proofs` | | theorems about the lookups of `FST` |
| `KeyOrder` | the order of `std::string` | operator |
| `SortedCursor` | what an iterator promises: it stands at an entry of a sorted list | abstract specification |
| `FSTIter` | `FST::Iter`, its two halves, the seeks and `lookupRange` | state machine, extends `FST`, refines `SortedCursor` |
| `MCFSTIter` | | instances for TLC |
| `FSTStorage` | `serializedSize`, `serialize` and `deSerialize` of every class | state machine, extends `FST` |
| `MCFSTStorage` | | instances for TLC |
| `FSTStorage_proofs` | | theorems about `FSTStorage` |

### FSTBuilder

The state is that of the class, with vectors of bits written as the sets of the
positions of their 1 bits (`words` counts the words that exist, so that writing
behind them can be told).  `pc`, `cur`, `nxt` and `level` are the program
counter and local variables of the loops.  Values are named after the index of
the key they come with.

| Action | Code |
| --- | --- |
| `SkipCommonPrefix` | one turn of the loop in `skipCommonPrefix`, 213-222 |
| `InsertFirstByte` | the end of `skipCommonPrefix`, the loop over equal keys in `buildSparse`, 184-211, and the first `insertKeyByte` of `insertKeyBytesToTrieUntilUnique`, 242-249 |
| `InsertNextByte` | one turn of its loop, 251-258 |
| `StoreValue` | the value pushed at 247 or 260, and the next turn of `buildSparse` |
| `DetermineCutoffLevel` | the loop and assignment at 304-315 |
| `CollectValues` | one level of the loops at 317-329 |
| `BuildDenseLevel` | one level of `buildDense`, 350-394 |
| `FinishBuild` | the return |

`entries` reads the vectors back the way the trie will: the node of an item by
counting LOUDS bits, its parent by counting child bits, its value by counting
leaves.  `BuildsAbstractTrie` says that, read so, the builder implements
`AbstractTrie` step by step: storing a value is `AddKey`, everything else
stutters.

Left out: `is_last_item_terminator_` and everything it guards (`insertKeyByte`
is only called with `is_term = false`), and the `keys` pointer.

### Bitvector and BitvectorQueries

A word is the set of the offsets of its 1 bits, offset 0 being the most
significant bit; shifts and the counting of zeros are defined on such sets.
`AppendWord`, `DistanceToNextSetBit`, `DistanceToPrevSetBit`, `Rank`, `Select`
and the two look-up tables follow the code, including what it reads behind the
vector: `junk` is the word found there.  `BitvectorQueries` compares the answer
of every operation with its definition on the plain bits (`Ones`).
`SelectInWord` is the search by halves of `select64_popcount_search`, written as a
recursive function over the window that is left, so that it halves a word of any
size that is a power of 2.

### LabelVector and FST

`FST` runs the whole builder, then `Create` makes the two encodings, then a
client calls operations one after another.  `call` holds the operation that
runs: its key, the level and node it stands at, and whether it stands in the
dense part, in the sparse part, or is answered.

| Action | Code |
| --- | --- |
| `Create` | `FST::create`, `LoudsDense::LoudsDense`, `LoudsSparse::LoudsSparse` |
| `StartLookupKey`, `StartLookupNodeNum`, `StartLookupNodeNumOption`, `StartLookupKeyAtNode`, `StartGetNode` | the calls; the last two go on from a node an earlier answer named, as the hybrid trie does |
| `DenseKeyStep`, `SparseKeyStep` | one turn of the loops of `lookupKey` and `lookupKeyAtNode` in each encoding |
| `DenseNodeStep`, `SparseNodeStep` | one turn of the loops of `lookupNodeNumber` and `lookupNodeNumberOption` |
| `LeaveDense` | what `FST` does between its two halves |
| `AmacLookup` | `amacLookup` with both `findNextNodeOrValue` |
| `GetDenseNode`, `GetSparseNode` | one turn of the loops of `getNode`, or its end |
| `Return` | the caller takes the answer |

`PathBefore` orders paths level by level; `NodeNumber(path)` counts the paths
before one.  This is the abstract meaning of a node number, and `StandsAtNode`
ties every step of every loop to it.

Undefined behaviour is a choice: `NodeSizes` lets any word lie behind
`louds_bits_`, `SearchesIn` lets any label lie behind `labels_` (one label
stands for all of them), and a bitmap read outside its range yields either bit:
`amacLookup` may then miss, find any value or name any node (`StraySteps`).  A
number that no node of its level has is not followed any further (`HoldsNode`).
The bits of the other vectors behind their ends are taken to be 0, and a value
behind its vector to be 0; no property tells these apart.

### SortedCursor and FSTIter

An iterator has a half in each encoding.  A half is a record of its flags and
of `path`, the positions of its labels from where it started down
(`pos_in_trie_` up to `key_len_`; the bytes in `key_` are those of the labels at
these positions), of the value positions by level, and of `ranked`, the levels
whose `value_pos_initialized_` is set.  `iter` is the iterator a client uses,
`end_iter` the second one of a range, `request` the call that positioned them.

| Action | Code |
| --- | --- |
| `MoveToFirst`, `MoveToLast` | `FST::moveToFirst`, `moveToLast` |
| `MoveToKeyGreaterThan`, `MoveToKeyLessThan` | the two seeks of `FST` with those of both encodings |
| `MoveToKeyStartingAtNode`, `MoveToLeftmostKeyStartingAtNode` | what the hybrid trie calls at a node it remembers |
| `LookupRange` | `lookupRange`, both seeks and the comparison that empties a range |
| `Advance`, `Retreat` | `operator++`, `operator--` |
| `ScanStep` | one round of a loop up to the second iterator, which compares with `operator!=` and increments |
| `Clear` | `clear`, or the end of the iterators |

A call is one step: it runs in the thread of its caller, on a trie that no
longer changes, so nothing can come between its parts.  Inside a step the
functions follow the code half by half: `DenseSeek` level by level, the
hand-over (`PassLeft`, `PassRight`, `OrIncrementDense`), the move to the left or
right (`Down`), `DenseIncrement` and the others looking for the deepest level
that has another label.

`Observed` reads an iterator the way a client does, by `isValid` and `getKey`.
With it `ImplementsCursor` says that every step is one of `SortedCursor`, which
knows no trie: a sorted list, a position in it, a limit.  The abstract answers
follow what the code means to do except in two places where no document says
otherwise: `moveToKeyLessThan` answers with the entry *behind* the key, and a
range leaves its right key out (the run `FSTIterRange` shows the test that
disagrees).

Left out: everything decided by `is_at_prefix_key_` and `is_at_terminator_`,
since no such key is stored, which `PrefixKeysUnused` checks of the vectors;
`compare`, which has no caller; `operator--` of iterators that started below the
root, for which the repository has no caller either; iterators of tries without dense levels, whose
values are missing anyway (see below); and seeks that end in the last node while
its size is overestimated (`Seekable`), which would read behind the labels.  Two
known faults are switched off by constants, so that they do not hide everything
else: `AnySeek` lets a seek miss a label in a dense level, `AnyRetreat` lets `--`
step to the label at position 0.

### FSTStorage

An image is written part by part: the counters of the dense part, its three bit
vectors, the counters of the sparse part, its labels and its two bit vectors.
A part is some numbers of four bytes, arrays whose sizes follow from the
numbers, and padding.  `memory` maps addresses to cells; the content of an array
is abstracted to whose array it is, which is enough to see that a part that is
read back gets its own.

| Action | Code |
| --- | --- |
| `Serialize` | the call of `serializedSize` and the allocation |
| `SerializePart` | `serialize` of one vector, or of the counters |
| `CopyImage` | the client takes the image to another address |
| `DeSerializePart` | `deSerialize` of one vector, or of the counters |

The values and `keys_` are in no part, because `serialize` does not write them.
`LoadedExact` says that each part is read as it was written, `SizeExact` that
`serializedSize`, which pads in other places than `serialize` does, is right.

## 3. The runs

| Run | Question | Result |
| --- | --- | --- |
| `FSTBuilder` | Is a trie built as the abstract trie says, in LOUDS order, without writing behind a vector, and does every build end? | holds |
| `Bitvector` | Are concatenation, rank, select and the distances what their definitions say? | holds |
| `FST` | Does every lookup walk the abstract trie and return what it holds, and return at all? | holds |
| `FSTIter` | Is every step of an iterator one of a cursor over the sorted entries, with the right value, and does a loop over a range end? | holds |
| `FSTStorage` | Is an image as large as announced, and read back as it was written? | holds |
| `FSTBoundary` | Are absent keys never found? | violated |
| `FSTNegativeBytes` | Does a one-byte step find what is stored, also for bytes from the upper half? | violated |
| `FSTSparseOnly` | Do lookups work without dense levels? | violated |
| `FSTDenseNode` | Does `getNode` pass dense nodes with one branch? | violated |
| `FSTIterSeek` | Does the end of a range stand at the first key not in front of the right one? | violated |
| `FSTIterRange` | Does `right_inclusive` include the right key? | violated |
| `FSTIterBackward` | Does `--` find every key in front? | violated |

The runs that end in a violation each check one sentence of the documentation
or of a test; the sentence and what the code does instead are quoted in
`PROJECT.json` under `findings`.  The passing runs check the part that does hold:
`NextExactInside` leaves the end of the vector to the last word,
`AbsentKeysMissedInside` and `AmacExactInside` leave out tries whose last node
ends in a later word than it starts in, `SparseNodeCollapsed` says of every
node that `getNode` passed that it has one branch, but only of the sparse part
that it stops no earlier than it must, the run `FST` gives `amacLookup` no byte
of the upper half in the dense part (`NegativeBytes`), `NodeNumbersExact` speaks of `lookupNodeNumOption` only for
keys that end in the dense part, and `FSTIter` leaves `AnySeek` and `AnyRetreat`
off.

Further disagreements were met for which there is no run:

* Without dense levels the values stay in `values_`: they are handed over
  inside `determineCutoffLevel`, which is only called for dense levels
  (`fst_builder.hpp` 169).  Without dense levels `moveToFirst` also returns an
  iterator whose dense half is not valid.
* The cutoff is stored before it is decremented, so one more level is dense than
  the documented ratio allows (315).
* A key that is a prefix of another leaves a value without a leaf, so all later
  values of its level are one off.  The repository's README only asks for a
  sorted list, and `src/test/words.txt` is full of such keys.  The models are
  about lists without them, which is what the integer keys and the other key
  files of the tests are.
* A single key that starts with 0xFF is taken for a terminator (356) and not
  found.
* `distanceToNextSetBit` counts to the end of the word, not of the vector, when
  the search starts before the last word (`bitvector.hpp` 95).  `FSTBoundary` is
  what becomes of it.
* `lookupNodeNumOption` goes on in the sparse part under the opposite of the
  condition that `lookupNodeNum` has (`fst.hpp` 269).
* `findNextNodeOrValue` tags a node with 11 and a value with 01 in its two low
  bits, where the comments (`louds_dense.hpp` 420-424, `louds_sparse.hpp`
  316-320) say it the other way round; `NodeTag` and `ValueTag` follow the code.
* `--` and `moveToLast` rank no value, so `getValue` returns that of an earlier
  position.  `ValuesFollow` therefore speaks of iterators that only moved
  forward.
* A range from a key to itself, the left one excluded, starts behind its end;
  at the greatest key of all a loop over it does not end.  `RangeScanEnds` has
  the premise `ScanningInOrder`.
* `moveToKeyLessThan` answers with the entry behind its key (`fst.hpp` 401-413).
* `serialize` writes neither values nor `keys_`, and the destructors would
  `delete[]` pointers into the buffer of a trie that was read back.  In that trie
  the words of `louds_bits_` are four bytes off the alignment of `word_t`
  (`WordsAligned`).

Each property of a passing run has a mutant: a faulty variant of one definition,
kept in the module just before it, that breaks the property.

### Bounds, and why they are enough

* *Four labels and words of two bits* (`Fanout`, `WordSize`) instead of 256 and
  64: a node of the dense part spans two words, as it spans four in the code,
  and vectors of a handful of items already end in, before and behind a word.
  `kTerminator` stays the greatest label.
* *Key lists*: for the builder every sorted prefix-free list over two labels and
  three levels, and over three labels (with 0xFF) and two levels; lists with
  every key up to three times; parts behind an ignored prefix of one byte and of
  more bytes than a `label_t` counts.  A level's behaviour depends on the level
  above and the one below, so three levels show every position a level can
  have.  For `FST`: the lists of one and of four keys of the first kind, and wide
  two-level tries with 1, 3 or 4 labels in a node, which take all three search
  strategies (`LinearBelow = 2`, `BinaryBelow = 4` instead of 3 and 12).
  `FSTNegativeBytes` has one trie of four keys with a dense level below the root,
  where a byte of the upper half is stored in one node only.
* *Ratios* 0 and 1: with 0 all levels are dense, with 1 the border falls behind
  the first level or the second.
* *Keys looked up*: every key of up to two bytes, and of three bytes over the
  labels of the deep tries; shorter, equal and longer than what is stored.
* *Blocks of two words, a sample for every second bit* (`RankBlock`,
  `SampleInterval`): vectors of nine and eight bits have several blocks and
  samples, and samples at the last bit of a word.
* *Iterators*: tries of three or four keys and up to three levels, wide tries of
  two levels, and one of seven keys that lacks labels on every level, all with
  the border behind every level (`MCFSTIter`).  Seeks go to every key of up to
  two bytes over four labels and of three over two, the empty key included,
  starting at the root and at every node above.  Ranges have six ends, stored
  ones and absent ones.  `MaxRetreats = 2` lets an iterator step back over the
  border of the encodings and over that of a node; it may move forward without
  bound before, between and after.  `MaxScan = 12` exceeds the number of entries.
* *Images*: the lists of two and of four keys over two labels and three levels,
  with and without dense levels, so that vectors are empty, end inside a word
  and at one; buffers at two addresses, both aligned as `new char[]` aligns
  (`Buffers`), four bytes for a position and eight for a word as in the code.
* `PositionRange` is 2^16 (2^24 with the real fanout): the wrap-around is in the
  formulas but is not reached; see the hazards.

### Fairness

A build and an operation run in the thread of their caller and wait for
nothing, so a step that can be taken is taken: weak fairness of the builder's
next-state relation (`FairSpec`) and of the steps of a running operation
(`LookupStep` in `FSTFairSpec`).  Whether and when an operation is called is up
to the caller, so the actions that start one are not fair.  The rounds of a loop
over a range are fair in the same way (`NextRound` in `IterFairSpec`): the loop
belongs to one caller, which takes the next round as long as `operator!=` says
so.  `RangeScanEnds` is thus about `++` meeting the end, not about the caller.

Deadlock is checked in every run but `Bitvector`, whose client asks one question
and stops, and `FSTStorage`, where nothing is left once the image has been read.
A finished build stutters (`Terminated`).

## 4. The proofs

### The builder

TLAPS proves, for every fanout, word size, bound on the levels and set of
inputs that satisfies `ConstantsAssumption` and `InputsAssumption` (key lists are
not empty, keys are longer than the ignored prefix and fit into `Levels`):

| Theorem | States | Further assumption |
| --- | --- | --- |
| `TypeCorrect` | `Spec => []TypeOK` | none |
| `SlotsAlwaysSuffice` | `Spec => []SlotsSuffice` | none |
| `LoudsOrder`, `OneValuePerLeaf` | `Spec => []LoudsAligned`, `Spec => []ValuesAligned` | `PrefixFreeInputs`: of two different keys neither is a prefix of the other |
| `SkipSetsNoNewBit` | the write in `skipCommonPrefix` never changes a vector | `PrefixFreeInputs` |
| `NodesStaySorted` | `Spec => []NodesSorted` | `SortedInputs`: the lists are also sorted |
| `BitmapsMirrorVectors` | `Spec => [](PositionsFit => DenseMirrorsSparse)`, where `PositionsFit` says that the positions in each level's bitmaps fit a `position_t` | `SortedInputs` and `NoTerminatorAlone`: not all keys are equal with 0xFF as their first byte |
| `BuildImplementsTrie` | `Spec => BuildsAbstractTrie` | `SortedInputs` |
| `BuildStoresAll` | `Spec => [](pc = "done" => entries = Abs!AllEntries)` | `SortedInputs` |

The inductive invariant of `TypeCorrect`, `TypeInv`, adds to the types where the
loops stand: which keys and levels the local variables may name at each `pc`,
and that the levels below `height` are the ones with items.  `SlotsInv` adds that
no bit is set behind the items of a level, on levels not yet in use either, and
that the slot behind the last item lies in the words.  That one word is added
when an item fills the last one is enough because words are filled one item at
a time; the lemma `WholeWords`, that a multiple of the word size has remainder
0, is where the arithmetic is.  Neither theorem needs sorted keys: even a list
the documentation forbids does not make the builder write behind a vector.

Neither `LoudsAligned` nor `ValuesAligned` is inductive.  That a new node has
exactly one new child bit above it depends on the last items of all levels being
the path of the previous key, and that a leaf is given exactly one value depends
on the scan leaving that path at a level that exists and before the previous
key's leaf.  `LoudsInv` therefore conjoins

* `BitsInv`: bits belong to items;
* `SkipInv`: while the common prefix is skipped, the last items of the levels
  passed are the bytes of the key, and there is a level `m` at which the key
  leaves the path of its predecessor (`LeavesPathAt`), all levels above it having
  their child bit;
* `PathInv`: while a key is inserted, its bytes are the last items of the levels
  down to a leaf without child bit, and its successor leaves it somewhere.

`NodesSorted` needs the order of the keys as well.  `SortedInv` conjoins `LoudsInv`
with what the order says at each point of the scan: while a key is inserted, it
`Precedes` the next different one; while the next one looks for its place, there
is a level at which it `RisesAt`: above it its labels are those of the last
items, there its label is greater than the last one.  The lemma
`StopsWhereItRises` shows that `skipCommonPrefix` stops exactly there, so the new
label goes behind a smaller one of its node; every other label starts a node.
The lemma `DiffersAtLeaf` shows that the first difference of two neighbours is at
or above the leaf of the first one.

`DenseMirrorsSparse` is about `buildDense`, which tells the terminator of a node by
its value (the greatest label, on a leaf at the start of a node), although the
builder never inserts a terminator.  That no label of a key is taken for one
needs two facts.  Labels of a node ascend, neighbours or not (`Ascending`), so
the greatest one is the last.  And a leaf is never the only label of its node:
`LeafInv` says that a leaf without a sibling (`LonelyLeaf`) is the last item of its
level and the next different key `Joins` its node, either because that key is the
successor a node was opened for (`SharedInv`), or because the scan has come to it.
The exception is the root of a list with one distinct key, hence
`NoTerminatorAlone`; `FirstInv` says which label the root then has.  The rest is
counting: no two items of a level share a bit (`BitmapPosInjective`, since items
with equal node numbers are in one node), and division undoes the multiplication
by the fanout (`DivideBack`).
`PositionsFit` is needed because a bitmap position that does not fit a
`position_t` wraps around to the bit of another node.

`BuildsAbstractTrie` is a refinement: `entries`, the state of `AbstractTrie`, is
computed from the vectors, by counting child bits and start bits from a leaf up
to the root and by counting leaves for the value.  Its proof is an inductive
invariant, `StoredInv`, which says that the entries are those of the keys in front
of the one the scan stands at, and one lemma per action about `entries`:

* *Insertion* appends an item behind the others and sets a child bit on the last
  item above.  The path to an item is defined by recursion, each step choosing the
  child bit with the right number; `PathKept` shows that the paths to the items
  that were there stay (`Grown`), because an item behind the others changes the
  number of no node and no child bit before it.  `RankKept` says the same of the
  ranks of leaves.  The item that gets a child is a leaf still without a value, or
  has a child already, so no entry is lost (`InsertionKeepsEntries`).
* *Storing* adds the entry of the last leaf (`StoreValueEntries`).  Its path are the
  bytes inserted, and that these are the shortest prefix no other key has is
  `StoredPrefixIs`: in a sorted list (`KeysInOrder`) the keys that share most with
  a key are its neighbours (`AgreeBetween`), so the previous key, which leaves the
  path no later (`SkippedInv`), and the next one, which the loop compares with
  (`NeededInv`), settle it.
* *Collecting* moves the values into two lists.  `CollectInv` says that each level
  that was collected is where the leaves of the levels before it put it
  (`LeavesBetweenIs`: a fold over levels, added up one by one), so that clearing
  `values_` loses nothing (`CollectValuesEntries`).

`AddKey` also demands that keys are stored in order and none is left out; that
the keys `buildSparse` passes over are never the first of their run is
`StoredUpToNext`.  `SkippedInv`, `NeededInv`, `CollectInv` and the equation of
`StoredInv` were checked with TLC on the instance of the run `FSTBuilder` before
they were proved.

The proofs have one lemma per action, one step per conjunct, and lemmas on
counting (`CountBits`, `LevelCounts`) that turn cardinalities of position sets
into arithmetic.

### The bit vectors

For every list of levels in `LevelLists`, each of which fits the words it is
handed over in and has no 1 bit behind its last one (`LevelListsAssumption`),
every word size that is a power of 2, every block that is a multiple of it and
every sampling interval (`BitvectorAssumption`; 64, 512 and 64 in the code):

| Theorem | States |
| --- | --- |
| `BitvectorCorrect` | `Spec => []BitvectorInv`, the inductive invariant |
| `ConcatenationIsExact` | `Spec => []ConcatenationExact` |
| `RankIsExact`, `SelectIsExact` | `Spec => []RankExact`, `Spec => []SelectExact` |
| `NextIsExact`, `PrevIsExact` | `Spec => []NextExactInside`, `Spec => []PrevExact` |

The state machine is small: `BitvectorInv` says that the vector that was built is
the one its levels describe (`BuiltOK`), and that is also what a built vector
stays.  The work is in the operators.

* *Concatenation*: `AppendWord` has three paths (a whole word at a word's border,
  a word or part of one that is shifted into two words, a rest that fits).  Each
  is shown to add exactly the bits of the level's word at the offset reached so
  far; an induction over the words of a level and one over the levels give that
  the words hold the bits of all levels at the sums of their sizes.
* *Rank*: an entry of the look-up table counts the bits of its block and of those
  before it; `PopcountLinear` counts whole words and the rest of the last one.
  Counting is additive over disjoint ranges, by cardinalities of finite sets.
* *Select*: the sample that is looked up stands at or in front of the 1 bit
  sought, and exactly `RanksLeft` 1 bits are left.  The loop over whole words keeps
  that; in the last word the window with the bit is halved, each time keeping the
  half that has it.  This is where the word size must be a power of 2.
* *Distances*: the first 1 bit in the rest of the word, or in the first later
  word that is not 0, is the nearest one.

That `LevelListsAssumption` is justified is a theorem about the builder:
`SparseHandedOver` shows that the levels of `louds_bits_` and
`child_indicator_bits_` which `Create` hands to the constructors are such lists.
It rests on `HandoverInv`, which adds to `SlotsInv` that the cutoff is not below
the height and that there are no more dense levels than levels; without `SlotsInv`
the last word of a level might not exist.

### Label search

For every label vector, whatever lies behind it, every range and every value of
the two thresholds that select a strategy:

| Theorem | States | Assumption |
| --- | --- | --- |
| `SearchExact` | `search` finds a label exactly when the range has it, at its position | behind a terminator in front, the labels ascend (`SortedLabels`) |
| `SearchGreaterExact` | `searchGreaterThan` finds the least greater label exactly when there is one | `SortedLabels` |
| `SortedNodeSearched` | the assumption holds, and no label is passed over | strictly ascending labels up to `Terminator`: what `NodesStaySorted` says of the builder |

Both bisections are functions of the window that is left, defined by recursion.
`OneBisection` shows by induction over the length of the window that the recursion
has at most one solution, so it is enough to name one and to show that it solves
the recursion (`BisectIs`, `BisectsWhen`): the first match in the window
(`HalfWithMatch`), and the first position from which on all labels are greater
(`HalfWithAbove`).  The result is that bisection and linear search agree
(`BinarySearchIsLinear`, `BinarySearchGreaterIsLinear`).  The theorems say nothing
about a range that reaches past its node: `nodeSize` may return such a range for the last
node, which is a finding of section 3.

### The lookups

For every set of inputs with `SortedInputs` and `NoTerminatorAlone`, every fanout that
is a multiple of the word size, tables as above (`TablesAssumption`), and a vector search
that bisects nothing much longer than a word (`WidthsAssumption`), whether or not
`amacLookup` is given bytes that are negative as a `char`:

| Theorem | States |
| --- | --- |
| `OperationsStandAtNodes` | `FSTSpec => [](NodesFit /\ NoNegativeByte => StandsAtNode)` |
| `NodeNumbersAreExact` | `FSTSpec => [](NodesFit /\ NoNegativeByte => NodeNumbersExact)` |
| `StoredKeysAreFound` | `FSTSpec => [](NodesFit /\ input.include_dense /\ NoNegativeByte => StoredKeysFound)` |
| `AbsentKeysAreMissed` | `FSTSpec => [](NodesFit /\ input.include_dense /\ NoNegativeByte => AbsentKeysMissedInside)` |
| `AmacIsExact` | `FSTSpec => [](NodesFit /\ input.include_dense /\ NoNegativeByte => AmacExactInside /\ AmacFindsStored)` |
| `NodesAreShown` | `FSTSpec => [](NodesFit /\ input.include_dense /\ NoNegativeByte => NodeContents)` |
| `SparseNodesCollapse` | `FSTSpec => [](NodesFit /\ NoNegativeByte => SparseNodeCollapsed)` |
| `CallsKeepTheirTypes` | `FSTSpec => [](NodesFit /\ NoNegativeByte => FSTTypeOK)` |

`NodesFit` says that the positions in the bitmaps of all dense levels together fit a
`position_t` (2^24 dense nodes); behind that, positions wrap around to bits of other
nodes.  Without dense levels the values are lost, which is a finding of section 3,
hence `include_dense`.  `NoNegativeByte` speaks of the call that runs, not of the trie:
calls that start at the root are not restricted by it, whatever the bytes of their keys;
chains of `amacLookup`, and the calls at a node that a client holds, which such a chain may
have reached, are spoken of when the bytes in the dense part of their key are below 0x80.  In
the sparse part they may be any.  What becomes of the others is what the run
`FSTNegativeBytes` shows.  The limit to tries whose last node ends in its own word is that
of the properties themselves: it concerns misses only, and `AmacFindsStored` has none.

None of them is inductive.  `FSTInv`, the inductive invariant, conjoins

* `BuiltInv`, about the builder: the vectors hold the entries of the keys scanned so
  far (`StoredInv`), can be handed over (`HandoverInv`), and once `values_` is cleared
  the two lists hold the values of all levels;
* `CreatedInv`: nothing is called before the trie is created, and what is created is
  what the constructors make of the complete build;
* `CallOK`: a running call stands at the node that its path leads to, in the encoding
  that holds it, and an answered one has the right answer.  It says more than the
  properties: for example that `lookupNodeNumOption` never enters the sparse part, that the
  key of `lookupNodeNum` leads to a node, and that a node which a call may go on from
  is the one its key leads to.  It is claimed of the calls that are `Plain`, the state-wise
  form of `NoNegativeByte`; of the others only that they have an operation and a key
  (`Keyed`).  That is inductive since a step only ever adds bytes to the key of a chain
  (`KeyStays`): a call that is plain was plain before (`PlainBefore`).

It was checked with TLC on the instances of the runs `FST` and `FSTSparseOnly`, where
the assumptions hold as well.  The argument has these steps.

* *The trie of the vectors* (`FSTTrie_proofs`).  The items of a level are in the order of
  their paths (`PathsInOrder`), so the node with `j` nodes before it in its level has
  exactly the paths smaller than its own before it (`AtIs`, `NodesInOrder`).  Summed over
  the levels, a path leads to the node whose number is the count of smaller inner
  paths: `NodesCounted` builds the bijection, `NumberOfNode` and `ChildPath` give the
  number of a child as a count of child bits.  `EntriesAreLeaves` ties the entries
  to the leaves, and `BuiltComplete` gives the place of every value.
* *The sparse part* (`FST_proofs`).  The bits of the levels are where the sums of the sizes put them
  (`SparseBits`), hence `SparseChildIs`: rank yields the number of the child.  Select
  finds the start of a node (`SparseNode`), and the distance is its size, except for a
  last node that does not end in its own word, whose size comes out too large, and as more than a
  word (`NodeSizeIs`).  A range that long is not bisected, which is what `WidthsAssumption` is
  for; so the search finds a label that the node has, whatever lies behind the vectors,
  and finds one that it has not only there (`SparseSearchIs`, from `SearchExact`).
* *The dense part*.  A node's bits are its own since the fanout is a multiple of the word
  size (`DenseBits`); `DenseStepIs` says what the three reads at a position yield.
* *Both* give `Tells`: what reading a label in a node says about the trie, whether the path
  goes on, to which node, or which value it ends with.  From there on the proof does not
  look into the encodings: one lemma per kind of step (`KeyGoes`, `NodeGoes`, `AmacGoes`,
  `CollapseOK`, and `LeaveDenseOK` for the border) shows that a call which is told so stays
  right.
* *`getNode`* reads all labels of a node.  `ShownInv` adds to `FSTInv` that the numbers
  of the nodes passed are those of the paths (`Passed`), that each of these nodes has the
  one branch that was taken (`OneBranches`: a node is passed when its only 1 bit in the dense
  part, or its only label in the sparse one, leads on, and then only one path does), and that an answer `Shows` its
  node: its labels are the last bytes of the paths one byte longer (`NextPaths`), in
  order, each with what the entries say of that path.  `ItemIsNext` and `NextIsItem` match
  those paths with the items of the node, so it is enough that an answer `Lists` these.
  In a bitmap the labels are tested from 0 on (`InOrderIs`: each label is at
  the place that the number of labels up to it says).  In the sparse part the number
  of labels is the distance, cut off at the end of the vectors (`SparseNodeIsRead`): for a last
  node whose size comes out too large exactly the cut makes the answer right, and since
  nothing on the last level has a child, `getNode` stops there rightly
  (`SparseNodeStops`).

### The image

For every trie that can be built under the assumptions of the builder, tables as
above (`TablesAssumption`), positions and words of any size, and buffers at any
addresses that are multiples of 8 and not null (`StorageAssumption`):

| Theorem | States | Further assumption |
| --- | --- | --- |
| `StorageInvariant` | `StorageSpec => []StoreInv`, the inductive invariant | none |
| `StorageTypes` | `StorageSpec => []StorageTypeOK` | none |
| `SizeIsExact` | `StorageSpec => []SizeExact` | none |
| `CellsAreDisjoint` | `StorageSpec => []CellsDisjoint` | none |
| `LoadedIsExact` | `StorageSpec => []LoadedExact` | none |
| `WordsAreAligned` | `StorageSpec => []WordsAligned` | `PositionBytes = 4` |

None of the five is inductive: where the next part goes depends on the sizes of
all parts before it, and what is read depends on what was written there by a step
of the other direction, maybe at another address.  `StoreInv` says

* that what the parts are sized by is natural numbers once the vectors are made
  (`TrieInv`), which for the bit vectors comes from their constructors and for the
  labels from flattening the levels;
* that the cells lie between the start of the buffer and the end of the parts
  written so far and do not overlap, and that part `i` is where the padded sizes of
  the parts before it put it (`Image`, `Offset`);
* that until the image is copied `dst` stands at that end, and afterwards `src` and
  the parts that were read are determined by how many there are (`Readings`).

`ImageGrows` is the step of `serialize`, `ImageMoves` that of the client, `ReadIs`
that of `deSerialize`.  `SerializedSizeIs` shows why the announced size is right:
`serializedSize` pads the vectors of an encoding and then their sum together with
the counters, `serialize` pads the counters and each vector, and since every vector
is a multiple of 8 both come to the same.  An address of 0 would break the
invariant, because `base = 0` stands for no buffer; `new[]` never returns it.

### What the proofs rest on, and what is not proved

The lemmas about bit vectors are proved in modules that extend `Bitvector` and are
used for `BV!` in `FST` through an instance of those modules (`BVP`);
`SameConstructors` shows that both instances define the same operators.  Induction
is done over sets: a set of numbers with 0 and all successors is all of them
(`NatInduct`, `UpToInduct`), which follows from the least element of a non-empty set
(`WFMin`), and a recursion has the function it describes (`RecursionExists`,
`FoldExists`), so that the folds of the community modules can be expanded.

Only model-checked: the refinement of `SortedCursor` and everything about iterators.
Liveness (`BuildCompletes`, `CallsReturn`, `RangeScanEnds`) is out of the prover's reach
and stays with TLC.

## 5. Plan

Done: 1. `FSTBuilder` with its abstract specification; 2. `Bitvector`;
3. `LabelVector` and `FST` with all lookups; 4. `FSTIter` with `SortedCursor`;
5. `FSTStorage`; 6. proofs of all invariants of the builder; 7. proofs that the
bit vectors are exact, and that images are; 8. the proof that the builder
implements `AbstractTrie`; 9. the proofs about the search strategies; 10. the proofs about
the lookups.

Left: iterators, whose positions are paths of items, so that `PathsInOrder` and
`NumberOfNode` are where the proof of `PathsConnected` would start.

## 6. Not modelled, and why

* `compare` of iterators has no caller, and `getMemoryUsage` only reports.
* Destructors and who frees a buffer: lives of objects are not part of the
  state; what is wrong with them is said in section 3.
* Integer keys are byte-swapped to strings before anything else happens, a pure
  function of 32 or 64 bits.
* `value << 2` in the answers of `amacLookup` and `getNode` loses the upper two
  bits of a value; values are natural numbers here.
* `hash.hpp` has no caller.  `src/bench` drives workloads through the interface
  of SuRF, from which this library was derived; `src/test` was read for what it
  says the code is meant to do.
* Memory use and prefetching have no effect on state.

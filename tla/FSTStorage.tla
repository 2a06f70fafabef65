------------------------------ MODULE FSTStorage ------------------------------
(***************************************************************************)
(* FST::serialize and FST::deSerialize.  An image of the trie is written   *)
(* part by part into a buffer, copied by the client to wherever it is read *)
(* back, and parsed part by part; the arrays of the trie that is read back *)
(* are pointers into the client's buffer.                                  *)
(*                                                                         *)
(* A part is a vector, or the counters in front of the vectors of one      *)
(* encoding: some numbers of PositionBytes, then arrays whose sizes follow *)
(* from the numbers, then padding.  The content of an array is abstracted  *)
(* to whose array it is.  The values and keys_ are in no part.             *)
(***************************************************************************)
EXTENDS FST

CONSTANTS
  PositionBytes,      \* sizeof(position_t)
  WordBytes,          \* kWordSize / 8
  Buffers             \* addresses at which the image is written and read back

ASSUME StorageAssumption ==
  /\ PositionBytes \in Nat \ {0}
  /\ WordBytes \in Nat \ {0}
  /\ Buffers \subseteq {b \in Nat \ {0} : b % 8 = 0}

VARIABLES
  memory,             \* the cells of the buffer by address
  base,               \* the address of the buffer
  dst,                \* dst, and how many parts have been written
  written,
  src,                \* src, and the parts that have been read
  loaded

storageVars == <<memory, base, dst, written, src, loaded>>

-------------------------------------------------------------------------------
(* The parts in their order *)

Kinds == <<"counters", "rank", "rank", "rank", "counters", "labels", "rank", "select">>

Parts == DOMAIN Kinds

RankNumbers(bv) == <<bv.num_bits, RankBlock>>

(* labels_ has one byte more than there are labels. *)
Numbers(i) ==
  CASE i = 1 -> <<louds_dense.height>>
    [] i = 2 -> RankNumbers(louds_dense.label_bitmaps)
    [] i = 3 -> RankNumbers(louds_dense.child_indicator_bitmaps)
    [] i = 4 -> RankNumbers(louds_dense.prefixkey_indicator_bits)
    [] i = 5 -> <<louds_sparse.height, louds_sparse.start_level,
                  louds_sparse.node_count_dense, louds_sparse.child_count_dense>>
    [] i = 6 -> <<Len(louds_sparse.labels.labels) + 1>>
    [] i = 7 -> RankNumbers(louds_sparse.child_indicator_bits)
    [] i = 8 -> <<louds_sparse.louds_bits.num_bits, SampleInterval,
                  louds_sparse.louds_bits.num_ones>>

NumNumbers(i) == CASE i = 1 -> 1 [] i = 5 -> 4 [] i = 6 -> 1 [] i = 8 -> 3 [] OTHER -> 2

(* bitsSize *)
BitsSize(num_bits) == BV!NumWords(num_bits) * WordBytes

(* rankLutSize and selectLutSize; the interval is 0 only where it is misread. *)
LutSize(n, every) ==
  IF every = 0 THEN 0 ELSE (n \div every + 1) * PositionBytes

ArraySizes(i, n) ==
  CASE Kinds[i] = "counters" -> << >>
    [] Kinds[i] = "rank"     -> <<BitsSize(n[1]), LutSize(n[1], n[2])>>
    [] Kinds[i] = "labels"   -> <<n[1]>>
    [] Kinds[i] = "select"   -> <<BitsSize(n[1]), LutSize(n[3], n[2])>>

(* A faulty variant of Aligned: to positions, not to words. *)
AlignedToPosition(p) == ((p + 3) \div 4) * 4

(* align and sizeAlign *)
Aligned(p) == ((p + 7) \div 8) * 8

SumOf(s) == FoldLeft(LAMBDA a, b : a + b, 0, s)

(* A faulty variant of PartSize: the numbers are not counted. *)
PartSizeOfArrays(i, n) == SumOf(ArraySizes(i, n))

PartSize(i, n) == NumNumbers(i) * PositionBytes + SumOf(ArraySizes(i, n))

(* A faulty variant of VectorSize: the padding is left out. *)
VectorSizeUnpadded(i) == PartSize(i, Numbers(i))

(* serializedSize of a vector *)
VectorSize(i) == Aligned(PartSize(i, Numbers(i)))

DenseSize == Aligned(PositionBytes + SumOf([k \in 1 .. 3 |-> VectorSize(1 + k)]))

SparseSize == Aligned(4 * PositionBytes + SumOf([k \in 1 .. 3 |-> VectorSize(5 + k)]))

SerializedSize == DenseSize + SparseSize

-------------------------------------------------------------------------------
(* serialize *)

NumberCell(n) == [array |-> <<0, 0>>, size |-> PositionBytes, number |-> n]

ArrayCell(i, k, size) == [array |-> <<i, k>>, size |-> size, number |-> 0]

ArrayAt(i, n, p, k) ==
  p + NumNumbers(i) * PositionBytes + SumOf(SubSeq(ArraySizes(i, n), 1, k - 1))

(* What is written over something else. *)
Over(new, old) ==
  [q \in DOMAIN new \cup DOMAIN old |-> IF q \in DOMAIN new THEN new[q] ELSE old[q]]

NumberCells(n, p) ==
  [q \in {p + (k - 1) * PositionBytes : k \in DOMAIN n} |->
     NumberCell(n[(q - p) \div PositionBytes + 1])]

(* An empty array takes no cell. *)
ArrayCells(i, n, p) ==
  LET sizes == ArraySizes(i, n)
      arrays == {k \in DOMAIN sizes : sizes[k] > 0}
  IN  [q \in {ArrayAt(i, n, p, k) : k \in arrays} |->
         LET k == CHOOSE j \in arrays : ArrayAt(i, n, p, j) = q
         IN  ArrayCell(i, k, sizes[k])]

(* The cells of a part written at p *)
Cells(i, p) == Over(NumberCells(Numbers(i), p), ArrayCells(i, Numbers(i), p))

NoMemory == << >>

(* new char[serializedSize()] *)
Serialize ==
  /\ louds_sparse # NotCreated
  /\ base = 0
  /\ base' \in Buffers /\ dst' = base'
  /\ UNCHANGED <<allVars, memory, written, src, loaded>>

SerializePart ==
  LET i == written + 1
  IN  /\ base # 0 /\ written < Len(Kinds)
      /\ memory' = Over(Cells(i, dst), memory)
      /\ dst' = Aligned(dst + PartSize(i, Numbers(i)))
      /\ written' = i
      /\ UNCHANGED <<allVars, base, src, loaded>>

(* The client takes the image elsewhere, to a file and back. *)
CopyImage ==
  /\ written = Len(Kinds) /\ loaded = << >>
  /\ \E to \in Buffers :
       /\ base' = to /\ src' = to
       /\ memory' = [p \in {q - base + to : q \in DOMAIN memory} |-> memory[p - to + base]]
  /\ UNCHANGED <<allVars, dst, written, loaded>>

-------------------------------------------------------------------------------
(* deSerialize *)

(* What lies between the cells is padding, read as 0. *)
NumberAt(p) ==
  IF p \in DOMAIN memory THEN memory[p].number ELSE 0

NumbersAt(i, p) == [k \in 1 .. NumNumbers(i) |-> NumberAt(p + (k - 1) * PositionBytes)]

(* A part that was read: its numbers, and the addresses and sizes of its arrays. *)
ReadPart(i, p) ==
  LET n == NumbersAt(i, p)
      sizes == ArraySizes(i, n)
  IN  [numbers |-> n, sizes |-> sizes,
       arrays |-> [k \in DOMAIN sizes |-> ArrayAt(i, n, p, k)]]

(* A faulty variant of PartEnd: the padding of the labels is not passed over. *)
PartEndOfLabels(i, p) ==
  LET end == p + PartSize(i, NumbersAt(i, p))
  IN  IF Kinds[i] = "labels" THEN end ELSE Aligned(end)

PartEnd(i, p) == Aligned(p + PartSize(i, NumbersAt(i, p)))

DeSerializePart ==
  LET i == Len(loaded) + 1
  IN  /\ src # 0 /\ i \in Parts
      /\ loaded' = Append(loaded, ReadPart(i, src))
      /\ src' = PartEnd(i, src)
      /\ UNCHANGED <<allVars, memory, base, dst, written>>

StorageInit ==
  /\ FSTInit
  /\ memory = NoMemory /\ base = 0
  /\ dst = 0 /\ written = 0
  /\ src = 0 /\ loaded = << >>

MakeStored == (BuildStep \/ Create) /\ UNCHANGED storageVars

StorageNext ==
  \/ MakeStored
  \/ Serialize
  \/ SerializePart
  \/ CopyImage
  \/ DeSerializePart

StorageSpec == StorageInit /\ [][StorageNext]_<<allVars, storageVars>>

-------------------------------------------------------------------------------
(* Properties *)

(* The pointers and counters of both directions keep their types; between two
   parts both pointers are aligned. *)
StorageTypeOK ==
  /\ base \in Buffers \cup {0}
  /\ \A p \in {dst, src} : p \in Nat /\ p % 8 = 0
  /\ written \in 0 .. Len(Kinds)
  /\ Len(loaded) <= Len(Kinds)
  /\ \A p \in DOMAIN memory : memory[p].size > 0

(* serialize fills exactly the buffer that serializedSize asks for, as it asserts,
   although the sizes are padded in other places than the image. *)
SizeExact ==
  base # 0 /\ src = 0 =>
    /\ dst <= base + SerializedSize
    /\ written = Len(Kinds) => dst = base + SerializedSize

(* No two cells of an image overlap. *)
CellsDisjoint ==
  \A p, q \in DOMAIN memory : p < q => p + memory[p].size <= q

(* Every part that is read back has the numbers that were written, and its arrays
   are those of its own vector, all of them inside the buffer. *)
LoadedExact ==
  \A i \in DOMAIN loaded :
    /\ loaded[i].numbers = Numbers(i)
    /\ \A k \in DOMAIN loaded[i].sizes :
         LET p == loaded[i].arrays[k]
         IN  /\ loaded[i].sizes[k] > 0 =>
                  p \in DOMAIN memory /\ memory[p] = ArrayCell(i, k, loaded[i].sizes[k])
             /\ base < p /\ p + loaded[i].sizes[k] <= base + SerializedSize

(* The words of every vector with rank that is read back are aligned, wherever the
   vectors before it end; those of louds_bits_, with three numbers in front, are
   always half a word off, so that select reads them misaligned. *)
WordsAligned ==
  \A i \in DOMAIN loaded :
    /\ Kinds[i] = "rank" => loaded[i].arrays[1] % 8 = 0
    /\ Kinds[i] = "select" => loaded[i].arrays[1] % 8 = 4
===============================================================================

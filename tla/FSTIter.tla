-------------------------------- MODULE FSTIter --------------------------------
(***************************************************************************)
(* Iterators and range queries (FST::Iter, LoudsDense::Iter and            *)
(* LoudsSparse::Iter).  An iterator has a half in each encoding: the dense *)
(* half stands at a leaf of the dense part, and is complete, or sends the  *)
(* sparse half out below the node it has come to.                          *)
(*                                                                         *)
(* A half keeps path, the positions of its labels from its start down      *)
(* (pos_in_trie_ up to key_len_, from which the bytes of key_ follow), and *)
(* the values' positions by level: value_pos for the levels in ranked.     *)
(* Left out, as no stored key is a prefix of another: is_at_prefix_key_,   *)
(* is_at_terminator_ and the branches they decide (PrefixKeysUnused).      *)
(*                                                                         *)
(* A call runs in its caller's thread and is one step.                     *)
(***************************************************************************)
EXTENDS FST, KeyOrder

CONSTANTS
  SeekKeys,           \* the keys iterators are positioned at
  RangeKeys,          \* the keys that bound ranges
  MaxRetreats,        \* bound: backward steps of one iterator
  MaxScan,            \* bound: rounds of a loop over a range
  AnySeek,            \* may a search miss a label in a dense level?
  AnyRetreat          \* may an iterator step back to the first label of all?

VARIABLES
  iter,               \* the iterator the client uses
  end_iter,           \* the second iterator of a range
  request,            \* the call that positioned them
  retreats,           \* the backward moves since
  scanned             \* the rounds of the loop over the range since

iterVars == <<iter, end_iter, request, retreats, scanned>>

-------------------------------------------------------------------------------
(* LoudsDense::Iter *)

NewDense ==
  [is_valid |-> FALSE, is_search_complete |-> FALSE, is_move_left_complete |-> FALSE,
   is_move_right_complete |-> FALSE, send_out_node_num |-> 0, is_skipped |-> FALSE,
   skipped_ht_levels |-> 0, path |-> << >>,
   value_pos |-> [l \in 1 .. MaxLevel |-> 0], ranked |-> {}]

SetFlags(it, valid, search, left, right) ==
  [it EXCEPT !.is_valid = valid, !.is_search_complete = search,
             !.is_move_left_complete = left, !.is_move_right_complete = right]

SendOut(it, node) == [it EXCEPT !.send_out_node_num = node]

AppendPos(it, pos) == [it EXCEPT !.path = Append(@, pos)]

(* A faulty variant of MoveTo: the levels behind n are kept. *)
SetInPlace(it, n, pos) == [it EXCEPT !.path[n] = pos]

(* Back to level n of the path, and there on to pos. *)
MoveTo(it, n, pos) == [it EXCEPT !.path = Append(SubSeq(@, 1, n - 1), pos)]

(* A faulty variant of RankValuePosition: each position is computed anew. *)
RankOnlyOnce(it, index) ==
  LET l == Len(it.path)
  IN  IF l \in it.ranked THEN it
      ELSE [it EXCEPT !.value_pos[l] = index % PositionRange, !.ranked = @ \cup {l}]

(* rankValuePosition, of both halves: the position of a level's value is
   computed once and counted on from then on. *)
RankValuePosition(it, index) ==
  LET l == Len(it.path)
  IN  IF l \in it.ranked
      THEN [it EXCEPT !.value_pos[l] = (@ + 1) % PositionRange]
      ELSE [it EXCEPT !.value_pos[l] = index % PositionRange, !.ranked = @ \cup {l}]

ValuePos(it) == it.value_pos[Len(it.path)]

DenseIndex(pos) ==
  BV!Rank(louds_dense.label_bitmaps, pos) - DenseChild(pos) - 1

GetNextPos(pos) == pos + BV!DistanceToNextSetBit(louds_dense.label_bitmaps, pos)

OutOfBound == -1

(* getPrevPos; a previous label at position 0 is out of bound as well. *)
GetPrevPos(pos) ==
  LET distance == BV!DistanceToPrevSetBit(louds_dense.label_bitmaps, pos)
  IN  IF pos <= distance THEN OutOfBound ELSE pos - distance

(* The first label of a node, searched from the position before the node; for
   node 0 that position wraps around, and back. *)
FirstInDenseNode(node) == GetNextPos(node * Fanout - 1)

(* Another label was set for the first level in setToFirstLabelInNode. *)
FromFirstLabel(it, node) ==
  LET pos == node * Fanout
  IN  AppendPos(it, IF HasLabel(pos) THEN pos ELSE GetNextPos(pos))

(* Down from the end of the path, level by level and at most as many as given,
   until a leaf; at(node) is the label to go on at. *)
Down(it, levels, hasChild(_), at(_)) ==
  FoldLeft(LAMBDA i, l : IF hasChild(Last(i.path))
                         THEN AppendPos(i, at(Last(i.path))) ELSE i,
           it, [l \in 1 .. levels |-> l])

(* A leaf of the dense part, or a node of the sparse part below it. *)
LandLeft(it) ==
  LET pos == Last(it.path)
  IN  IF HasDenseChild(pos)
      THEN SetFlags(SendOut(it, DenseChild(pos)), TRUE, TRUE, FALSE, TRUE)
      ELSE SetFlags(RankValuePosition(it, DenseIndex(pos)), TRUE, TRUE, TRUE, TRUE)

(* A faulty variant of DenseLeftmost: the levels skipped are not subtracted. *)
DenseLeftmostOfRoot(it) ==
  LandLeft(Down(it, louds_dense.height - Len(it.path), HasDenseChild,
                LAMBDA pos : FirstInDenseNode(DenseChild(pos))))

(* moveToLeftMostKey *)
DenseLeftmost(it) ==
  LET levels == louds_dense.height - it.skipped_ht_levels - Len(it.path)
  IN  LandLeft(Down(it, levels, HasDenseChild,
                    LAMBDA pos : FirstInDenseNode(DenseChild(pos))))

LandRight(it) ==
  LET pos == Last(it.path)
  IN  IF HasDenseChild(pos)
      THEN SetFlags(SendOut(it, DenseChild(pos)), TRUE, TRUE, TRUE, FALSE)
      ELSE SetFlags(it, TRUE, TRUE, TRUE, TRUE)

(* moveToRightMostKey, which ranks no value.  A label precedes the end of every
   node but the first, so getPrevPos is in bound. *)
DenseRightmost(it) ==
  LandRight(Down(it, louds_dense.height - Len(it.path), HasDenseChild,
                 LAMBDA pos : GetPrevPos((DenseChild(pos) + 1) * Fanout)))

Ended(it) == [it EXCEPT !.is_valid = FALSE, !.path = << >>]

(* operator++: back to the last level whose node has another label. *)
DenseIncrement(it) ==
  LET more == {n \in DOMAIN it.path :
                 GetNextPos(it.path[n]) \div Fanout = it.path[n] \div Fanout}
      n == Max(more)
  IN  IF more = {} THEN Ended(it)
      ELSE DenseLeftmost(MoveTo(it, n, GetNextPos(it.path[n])))

(* operator--: the same, unless a level on the way is out of bound. *)
DenseDecrement(it) ==
  LET prev(n) == GetPrevPos(it.path[n])
      stops == {n \in DOMAIN it.path :
                  prev(n) = OutOfBound \/ prev(n) \div Fanout = it.path[n] \div Fanout}
      n == Max(stops)
  IN  IF stops = {} THEN Ended(it)
      ELSE IF prev(n) = OutOfBound
      THEN [it EXCEPT !.is_valid = FALSE, !.path = SubSeq(@, 1, n)]
      ELSE DenseRightmost(MoveTo(it, n, prev(n)))

(* A faulty variant of StaysAt: any other key is taken for a greater one. *)
StaysAtOther(value, key, inclusive) == input.keys[value] # key \/ inclusive

(* The key a search has come to is at or behind the one searched. *)
StaysAt(value, key, inclusive) ==
  LET found_key == input.keys[value]
  IN  KeyLess(key, found_key) \/ (found_key = key /\ inclusive)

(* Where a search in the dense levels stands. *)
AtNode(it, node) == [it |-> it, node |-> node, done |-> FALSE]
DoneAt(it) == [it |-> it, node |-> 0, done |-> TRUE]

(* The search has come to a leaf. *)
DenseSeekLeaf(it, key, inclusive) ==
  IF StaysAt(ValueAt(louds_dense.values, ValuePos(it)), key, inclusive)
  THEN SetFlags(it, TRUE, TRUE, TRUE, TRUE)
  ELSE DenseIncrement(it)

(* One level of moveToKeyGreaterThan. *)
DenseSeekLevel(s, l, key, inclusive) ==
  LET pos == DensePos(s.node, key[l + 1])
      at  == AppendPos(s.it, pos)
  IN  IF s.done THEN s
      ELSE IF l >= Len(key)
      THEN DoneAt(DenseLeftmost(AppendPos(s.it, FirstInDenseNode(s.node))))
      ELSE IF ~HasLabel(pos) THEN DoneAt(DenseLeftmost(at))
      ELSE IF HasDenseChild(pos) THEN AtNode(at, DenseChild(pos))
      ELSE DoneAt(DenseSeekLeaf(RankValuePosition(at, DenseIndex(pos)), key, inclusive))

LeaveDenseSeek(s) ==
  IF s.done THEN s.it
  ELSE SetFlags(SendOut(s.it, s.node), TRUE, FALSE, TRUE, TRUE)

(* moveToKeyGreaterThan and moveToKeyGreaterThanStartingNodeNumber. *)
DenseSeek(it, node, from, key, inclusive) ==
  LeaveDenseSeek(FoldLeft(LAMBDA s, l : DenseSeekLevel(s, l, key, inclusive),
                          AtNode(it, node),
                          [i \in 1 .. louds_dense.height - from |-> from + i - 1]))

-------------------------------------------------------------------------------
(* LoudsSparse::Iter *)

NewSparse ==
  [is_valid |-> FALSE, start_node_num |-> 0, path |-> << >>,
   value_pos |-> [l \in 1 .. MaxLevel |-> 0], ranked |-> {}]

SparseIndex(pos) == pos - BV!Rank(louds_sparse.child_indicator_bits, pos)

NumBits == louds_sparse.louds_bits.num_bits

StartsNode(pos) == BV!ReadBit(louds_sparse.louds_bits, pos)

LastLabelPos(node) ==
  LET next_rank == node + 2 - louds_sparse.node_count_dense
  IN  IF next_rank > louds_sparse.louds_bits.num_ones THEN NumBits - 1
      ELSE BV!Select(louds_sparse.louds_bits, next_rank) - 1

(* A path that is not empty is gone on with. *)
FromStart(it, pos) == IF it.path = << >> THEN AppendPos(it, pos) ELSE it

Valid(it) == [it EXCEPT !.is_valid = TRUE]

RankSparse(it) == RankValuePosition(it, SparseIndex(Last(it.path)))

(* moveToLeftMostKey *)
SparseLeftmost(it) ==
  Valid(RankSparse(Down(FromStart(it, FirstLabelPos(it.start_node_num)),
                        louds_sparse.height, HasSparseChild,
                        LAMBDA pos : FirstLabelPos(SparseChild(pos)))))

(* moveToRightMostKey *)
SparseRightmost(it) ==
  Valid(Down(FromStart(it, LastLabelPos(it.start_node_num)),
             louds_sparse.height, HasSparseChild,
             LAMBDA pos : LastLabelPos(SparseChild(pos))))

(* A faulty variant of SparseIncrement: only the last level is left. *)
SparseIncrementLastLevel(it) ==
  LET pos == Last(it.path) + 1
  IN  IF pos >= NumBits \/ StartsNode(pos) THEN Ended(it)
      ELSE SparseLeftmost(MoveTo(it, Len(it.path), pos))

(* operator++ *)
SparseIncrement(it) ==
  LET more == {n \in DOMAIN it.path :
                 it.path[n] + 1 < NumBits /\ ~StartsNode(it.path[n] + 1)}
      n == Max(more)
  IN  IF more = {} THEN Ended(it)
      ELSE SparseLeftmost(MoveTo(it, n, it.path[n] + 1))

(* operator--; from the first position of all it leaves the path as it is. *)
SparseDecrement(it) ==
  LET more == {n \in DOMAIN it.path : ~StartsNode(it.path[n])}
      n == Max(more)
  IN  IF Last(it.path) = 0 THEN [it EXCEPT !.is_valid = FALSE]
      ELSE IF more = {} THEN Ended(it)
      ELSE SparseRightmost(MoveTo(it, n, it.path[n] - 1))

(* moveToLeftInNextSubtrie: the first label behind one that is absent. *)
NextSubtrie(it, s, pos, size) ==
  IF s.found THEN SparseLeftmost(AppendPos(it, s.pos))
  ELSE SparseIncrement(AppendPos(it, s.pos + size - 1))

SparseSeekLeaf(it, key, inclusive) ==
  IF StaysAt(ValueAt(louds_sparse.values, ValuePos(it)), key, inclusive)
  THEN Valid(it) ELSE SparseIncrement(it)

(* The label was searched in a node of the given size. *)
SparseSeekLabel(it, f, size, byte, key, inclusive) ==
  LET at == AppendPos(it, f.pos)
      behind == LV!SearchGreaterThan(louds_sparse.labels, byte, f.pos, size)
  IN  IF ~f.found THEN DoneAt(NextSubtrie(it, behind, f.pos, size))
      ELSE IF HasSparseChild(f.pos) THEN AtNode(at, SparseChild(f.pos))
      ELSE DoneAt(SparseSeekLeaf(RankSparse(at), key, inclusive))

SparseSeekNode(it, first, size, byte, key, inclusive) ==
  SparseSeekLabel(it, LV!Search(louds_sparse.labels, byte, first, size), size,
                  byte, key, inclusive)

(* One level of moveToKeyGreaterThan. *)
SparseSeekLevel(s, l, key, inclusive) ==
  LET first == FirstLabelPos(s.node)
  IN  IF s.done THEN s
      ELSE SparseSeekNode(s.it, first,
                          BV!DistanceToNextSetBit(louds_sparse.louds_bits, first),
                          key[l + 1], key, inclusive)

LeaveSparseSeek(s) == IF s.done THEN s.it ELSE SparseLeftmost(s.it)

(* moveToKeyGreaterThan; a key that ends here is in front of all below. *)
SparseSeek(it, from, key, inclusive) ==
  LeaveSparseSeek(FoldLeft(LAMBDA s, l : SparseSeekLevel(s, l, key, inclusive),
                           AtNode(it, it.start_node_num),
                           [i \in 1 .. Len(key) - from |-> from + i - 1]))

-------------------------------------------------------------------------------
(* FST::Iter *)

NewIter == [dense |-> NewDense, sparse |-> NewSparse]

DenseValid(it) == it.dense.is_valid \/ it.dense.is_skipped

IsComplete(it) ==
  /\ it.dense.is_search_complete
  /\ it.dense.is_move_left_complete
  /\ it.dense.is_move_right_complete

IsValid(it) == DenseValid(it) /\ (IsComplete(it) \/ it.sparse.is_valid)

GetKey(it) ==
  LET dense_key  == IF it.dense.is_valid
                    THEN [n \in DOMAIN it.dense.path |-> it.dense.path[n] % Fanout]
                    ELSE << >>
      sparse_key == [n \in DOMAIN it.sparse.path |->
                       LV!LabelAt(louds_sparse.labels, it.sparse.path[n])]
  IN  IF ~IsValid(it) THEN << >>
      ELSE IF IsComplete(it) THEN dense_key
      ELSE dense_key \o sparse_key

GetValue(it) ==
  IF IsComplete(it) THEN ValueAt(louds_dense.values, ValuePos(it.dense))
  ELSE ValueAt(louds_sparse.values, ValuePos(it.sparse))

PassToSparse(it) ==
  [it EXCEPT !.sparse.start_node_num = it.dense.send_out_node_num]

MoveSparseLeft(it) == [it EXCEPT !.sparse = SparseLeftmost(@)]

(* passToSparse and the move of the sparse half *)
PassLeft(it) == MoveSparseLeft(PassToSparse(it))

MoveSparseRight(it) == [it EXCEPT !.sparse = SparseRightmost(@)]

PassRight(it) == MoveSparseRight(PassToSparse(it))

GoOnLeft(it) ==
  IF ~it.dense.is_valid \/ it.dense.is_move_left_complete THEN it ELSE PassLeft(it)

(* incrementDenseIter *)
IncrementDense(it) ==
  IF ~DenseValid(it) \/ it.dense.is_skipped THEN it
  ELSE GoOnLeft([it EXCEPT !.dense = DenseIncrement(@)])

OrIncrementDense(it) == IF it.sparse.is_valid THEN it ELSE IncrementDense(it)

(* A faulty variant of Increment: a sparse half that has ended is not replaced. *)
IncrementOneHalf(it) ==
  IF ~IsValid(it) THEN it
  ELSE IF it.sparse.is_valid THEN [it EXCEPT !.sparse = SparseIncrement(@)]
  ELSE IncrementDense(it)

(* operator++, with incrementSparseIter: the dense half moves on when the sparse
   half has ended. *)
Increment(it) ==
  IF ~IsValid(it) THEN it
  ELSE IF ~it.sparse.is_valid THEN IncrementDense(it)
  ELSE OrIncrementDense([it EXCEPT !.sparse = SparseIncrement(@)])

GoOnRight(it) ==
  IF ~it.dense.is_valid \/ it.dense.is_move_right_complete THEN it ELSE PassRight(it)

(* decrementDenseIter *)
DecrementDense(it) == GoOnRight([it EXCEPT !.dense = DenseDecrement(@)])

OrDecrementDense(it) == IF it.sparse.is_valid THEN it ELSE DecrementDense(it)

(* operator--, with decrementSparseIter *)
Decrement(it) ==
  IF ~IsValid(it) THEN it
  ELSE IF ~it.sparse.is_valid THEN DecrementDense(it)
  ELSE OrDecrementDense([it EXCEPT !.sparse = SparseDecrement(@)])

(* A faulty variant of Differ: the sparse halves are not compared. *)
DifferInDense(a, b) ==
  IF ~IsValid(a) \/ ~IsValid(b) THEN IsValid(a) # IsValid(b)
  ELSE Last(a.dense.path) # Last(b.dense.path)

(* operator!= *)
Differ(a, b) ==
  LET bothDense == ~a.dense.is_skipped /\ ~b.dense.is_skipped
  IN  IF ~IsValid(a) \/ ~IsValid(b) THEN IsValid(a) # IsValid(b)
      ELSE IF bothDense /\ Last(a.dense.path) # Last(b.dense.path) THEN TRUE
      ELSE IF bothDense /\ IsComplete(a) /\ IsComplete(b) THEN FALSE
      ELSE Last(a.sparse.path) # Last(b.sparse.path)

-------------------------------------------------------------------------------
(* Positioning *)

(* The parts of both moves behind the dense levels, if the root is in them. *)
LeftOr(it) == IF it.dense.is_move_left_complete THEN it ELSE PassLeft(it)

RightOr(it) == IF it.dense.is_move_right_complete THEN it ELSE PassRight(it)

FirstKey ==
  IF louds_dense.height = 0 THEN MoveSparseLeft(NewIter)
  ELSE LeftOr([NewIter EXCEPT !.dense = DenseLeftmost(FromFirstLabel(@, 0))])

(* setToLastLabelInRoot takes position 0 where getPrevPos is out of bound. *)
LastKey ==
  LET last == GetPrevPos(Fanout)
      pos  == IF last = OutOfBound THEN 0 ELSE last
  IN  IF louds_dense.height = 0 THEN MoveSparseRight(NewIter)
      ELSE RightOr([NewIter EXCEPT !.dense = DenseRightmost(AppendPos(@, pos))])

(* moveToKeyGreaterThan and moveToKeyStartingAtNode, behind the dense seek:
   the search, or the move to the left, goes on in the sparse part. *)
SeekOn(it, key, inclusive) ==
  IF ~DenseValid(it) \/ IsComplete(it) THEN it
  ELSE IF it.dense.is_search_complete THEN PassLeft(it)
  ELSE OrIncrementDense([PassToSparse(it) EXCEPT !.sparse =
                           SparseSeek(@, StartLevel, key, inclusive)])

GreaterThan(key, inclusive) ==
  SeekOn([NewIter EXCEPT !.dense = DenseSeek(@, 0, 0, key, inclusive)], key, inclusive)

OrLast(it) == IF IsValid(it) THEN it ELSE LastKey

LessThan(key) == OrLast(GreaterThan(key, FALSE))

(* An iterator that starts in the sparse part skips the dense one. *)
SkippedTo(node) ==
  [NewIter EXCEPT !.dense.is_skipped = TRUE, !.sparse.start_node_num = node]

KeyAtNode(from, node, key) ==
  LET half == [NewDense EXCEPT !.skipped_ht_levels = from]
  IN  IF PartOf(from) = "dense"
      THEN SeekOn([NewIter EXCEPT !.dense = DenseSeek(half, node, from, key, TRUE)],
                  key, TRUE)
      ELSE [SkippedTo(node) EXCEPT !.sparse = SparseSeek(@, from, key, TRUE)]

LeftmostAtNode(from, node) ==
  LET half == [NewDense EXCEPT !.skipped_ht_levels = from]
  IN  IF PartOf(from) = "sparse" THEN MoveSparseLeft(SkippedTo(node))
      ELSE LeftOr([NewIter EXCEPT !.dense = DenseLeftmost(FromFirstLabel(half, node))])

(* A range that is seen to be empty has no iterators. *)
RangeOf(begin, end) ==
  IF IsValid(begin) /\ IsValid(end) /\ KeyLess(GetKey(end), GetKey(begin))
  THEN <<NewIter, NewIter>> ELSE <<begin, end>>

-------------------------------------------------------------------------------
(* The client *)

Observed(it) == IF IsValid(it) THEN request.scope \o GetKey(it) ELSE << >>

Cursor == INSTANCE SortedCursor WITH
  entries <- {[path |-> e[1], key |-> input.keys[e[2]]] : e \in Entries},
  cursor  <- Observed(iter),
  limit   <- Observed(end_iter)

(* The keys that iterators are positioned at.  A search that ends at a dense node
   that lacks the key's label is one for AnySeek.  One that ends in the last node
   while the size of that node is overestimated is not modelled: it would read
   behind the labels. *)
Seekable(keys) ==
  LET paths  == InnerPaths
      leaves == {e[1] : e \in Entries}
      inside == LastNodeEndsInside
      reached(key) == Max({n \in 0 .. Len(key) : SubSeq(key, 1, n) \in paths})
      inLast(key)  == NodeNumber(SubSeq(key, 1, reached(key))) = Cardinality(paths) - 1
      misses(key)  == /\ reached(key) < Min({StartLevel, Len(key)})
                      /\ SubSeq(key, 1, reached(key) + 1) \notin leaves
  IN  {key \in keys : (inside \/ ~inLast(key)) /\ (AnySeek \/ ~misses(key))}

CanPosition == louds_sparse # NotCreated /\ request = Cursor!NoRequest

PositionBoth(r, its) ==
  /\ request' = r /\ iter' = its[1] /\ end_iter' = its[2]
  /\ retreats' = 0 /\ scanned' = 0
  /\ UNCHANGED allVars

Position(r, it) == PositionBoth(r, <<it, NewIter>>)

Asked(op, scope, key, inclusive) ==
  [Cursor!NoRequest EXCEPT !.op = op, !.scope = scope, !.key = key,
                           !.inclusive = inclusive]

MoveToFirst ==
  CanPosition /\ Position(Asked("first", << >>, << >>, FALSE), FirstKey)

MoveToLast ==
  CanPosition /\ Position(Asked("last", << >>, << >>, FALSE), LastKey)

MoveToKeyGreaterThan ==
  /\ CanPosition
  /\ \E key \in Seekable(SeekKeys), inclusive \in BOOLEAN :
       Position(Asked("greater", << >>, key, inclusive),
                GreaterThan(key, inclusive))

MoveToKeyLessThan ==
  /\ CanPosition
  /\ \E key \in Seekable(SeekKeys) :
       Position(Asked("less", << >>, key, FALSE), LessThan(key))

(* The hybrid trie knows the node the first bytes of the key lead to. *)
MoveToKeyStartingAtNode ==
  /\ CanPosition
  /\ \E key \in Seekable(SeekKeys), scope \in InnerPaths :
       /\ IsPrefix(scope, key)
       /\ Position(Asked("greater", scope, key, TRUE),
                   KeyAtNode(Len(scope), NodeNumber(scope), key))

(* The iterator is given by the caller, new or cleared. *)
MoveToLeftmostKeyStartingAtNode ==
  /\ CanPosition
  /\ \E scope \in InnerPaths :
       Position(Asked("first", scope, << >>, FALSE),
                LeftmostAtNode(Len(scope), NodeNumber(scope)))

(* right_inclusive decides nothing. *)
LookupRange ==
  /\ CanPosition
  /\ \E left, right \in Seekable(RangeKeys), left_inclusive, right_incl \in BOOLEAN :
       PositionBoth([Asked("range", << >>, left, left_inclusive) EXCEPT
                       !.right = right, !.right_inclusive = right_incl],
                    RangeOf(GreaterThan(left, left_inclusive), GreaterThan(right, TRUE)))

Moves(it) ==
  /\ iter' = it
  /\ UNCHANGED <<allVars, end_iter, request>>

(* while (iter.isValid()) iter++ *)
Advance ==
  /\ request.op # "range" /\ IsValid(iter)
  /\ Moves(Increment(iter)) /\ UNCHANGED <<retreats, scanned>>

(* The predecessor is below the first label of all, and iter is not. *)
StepsToZero ==
  LET before == {e \in Entries : KeyLess(e[1], Observed(iter))}
  IN  /\ Observed(iter)[1] # 0
      /\ before # {}
      /\ \A e \in before : e[1][1] = 0

(* Only the iterators that started at the root step back as their code means. *)
Retreat ==
  /\ request.op # "range" /\ IsValid(iter)
  /\ ~iter.dense.is_skipped /\ iter.dense.skipped_ht_levels = 0
  /\ AnyRetreat \/ ~StepsToZero
  /\ retreats < MaxRetreats /\ retreats' = retreats + 1
  /\ Moves(Decrement(iter)) /\ UNCHANGED scanned

Scanning == request.op = "range" /\ Differ(iter, end_iter)

NextRound == Scanning /\ scanned < MaxScan /\ scanned' = scanned + 1

(* while (iterators.first != iterators.second) iterators.first++ *)
ScanStep == NextRound /\ Moves(Increment(iter)) /\ UNCHANGED retreats

(* clear, or the end of the iterators' lives *)
Clear ==
  /\ request # Cursor!NoRequest
  /\ request' = Cursor!NoRequest /\ iter' = NewIter /\ end_iter' = NewIter
  /\ retreats' = 0 /\ scanned' = 0
  /\ UNCHANGED allVars

IterInit ==
  /\ FSTInit
  /\ iter = NewIter /\ end_iter = NewIter
  /\ request = Cursor!NoRequest
  /\ retreats = 0 /\ scanned = 0

MakeTrie == (BuildStep \/ Create) /\ UNCHANGED iterVars

IterNext ==
  \/ MakeTrie
  \/ MoveToFirst
  \/ MoveToLast
  \/ MoveToKeyGreaterThan
  \/ MoveToKeyLessThan
  \/ MoveToKeyStartingAtNode
  \/ MoveToLeftmostKeyStartingAtNode
  \/ LookupRange
  \/ Advance
  \/ Retreat
  \/ ScanStep
  \/ Clear

IterSpec == IterInit /\ [][IterNext]_<<allVars, iterVars>>

(* A loop over a range runs in its caller's thread, which nothing blocks.  Only
   ScanStep takes a next round, and it always can. *)
IterFairSpec == IterSpec /\ WF_scanned(NextRound)

-------------------------------------------------------------------------------
(* Properties *)

(* The halves of an iterator keep their types, and a path is never longer than
   the levels of its encoding. *)
IterTypeOK ==
  \A it \in {iter, end_iter} :
    /\ it.dense.path \in Seq(Nat) /\ it.sparse.path \in Seq(Nat)
    /\ it.dense.value_pos \in [1 .. MaxLevel -> 0 .. PositionRange - 1]
    /\ it.sparse.value_pos \in [1 .. MaxLevel -> 0 .. PositionRange - 1]
    /\ louds_sparse # NotCreated =>
         /\ Len(it.dense.path) + it.dense.skipped_ht_levels <= louds_dense.height
         /\ Len(it.sparse.path) <= louds_sparse.height - StartLevel

(* Every positioning call and every step of an iterator is one of the abstract
   cursor: it is positioned at the right entry and moves to the next or to the
   previous one, across both encodings, skipping and repeating none. *)
ImplementsCursor == Cursor!Spec

(* Each label of a path lies in the node the one above leads to, and the sparse
   half lies below the dense one: a hand-over never leaves a stale start. *)
PathsConnected ==
  \A it \in {iter, end_iter} :
    IsValid(it) =>
      /\ \A n \in 2 .. Len(it.dense.path) :
           it.dense.path[n] \div Fanout = DenseChild(it.dense.path[n - 1])
      /\ ~IsComplete(it) =>
           /\ ~it.dense.is_skipped /\ it.dense.path # << >> =>
                it.sparse.start_node_num = DenseChild(Last(it.dense.path))
           /\ \A n \in DOMAIN it.sparse.path :
                LET node == IF n = 1 THEN it.sparse.start_node_num
                            ELSE SparseChild(it.sparse.path[n - 1])
                IN  it.sparse.path[n] \in FirstLabelPos(node) .. LastLabelPos(node)

(* As long as an iterator only moves forward, it returns the value of the entry
   it stands at, although the value's position is merely counted on. *)
ValuesFollow ==
  IsValid(iter) /\ retreats = 0 /\ request.op \notin {"last", "less"} =>
    \A e \in Entries : e[1] = Observed(iter) => GetValue(iter) = e[2]

(* operator!= tells the two iterators of a range apart exactly as long as they
   stand at different entries. *)
DifferExact ==
  request.op = "range" =>
    (Differ(iter, end_iter) <=> Observed(iter) # Observed(end_iter))

(* A loop over a range visits no entry outside it. *)
InRange ==
  Scanning /\ IsValid(iter) =>
    \A e \in Entries : e[1] = Observed(iter) =>
      /\ KeyLess(input.keys[e[2]], request.right)
      /\ ~KeyLess(input.keys[e[2]], request.key)

ScanningInOrder ==
  /\ Scanning
  /\ \/ KeyLess(request.key, request.right)
     \/ request.key = request.right /\ request.inclusive

(* A loop over a range ends if its keys are in order: where they are equal and the
   left one is not included, it may start behind its end. *)
RangeScanEnds == ScanningInOrder ~> ~Scanning

(* No node of the dense part is marked as a prefix key, and no sparse node has a
   terminator in front of other labels: the branches left out are not taken. *)
PrefixKeysUnused ==
  louds_sparse # NotCreated =>
    /\ \A w \in DOMAIN louds_dense.prefixkey_indicator_bits.bits :
         louds_dense.prefixkey_indicator_bits.bits[w] = {}
    /\ \A pos \in 0 .. NumBits - 2 :
         StartsNode(pos) /\ ~StartsNode(pos + 1)
           => LV!LabelAt(louds_sparse.labels, pos) # Terminator

(* test_fst_ints.cpp: with right_inclusive the range ends behind the right key. *)
RightIncluded ==
  request.op = "range" /\ request.right_inclusive /\ IsValid(end_iter) =>
    \A e \in Entries : e[1] = Observed(end_iter) => input.keys[e[2]] # request.right

(* test_fst_ints.cpp: the end of a range stands at the first key that is not in
   front of the right key, stored or not. *)
RangeEndExact ==
  request.op = "range" /\ IsValid(end_iter) =>
    Observed(end_iter) = Cursor!Seek(<< >>, request.right, TRUE)

(* test_louds_dense.cpp: an iterator stays valid as it steps back until there is
   no key in front of it. *)
RetreatFindsPredecessor ==
  [][retreats' > retreats /\ (\E e \in Entries : KeyLess(e[1], Observed(iter)))
       => IsValid(iter')]_iterVars
===============================================================================

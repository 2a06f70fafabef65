----------------------------- MODULE LabelVector -----------------------------
(***************************************************************************)
(* The label vector of LOUDS-Sparse (label_vector.hpp): search for a label *)
(* in the search_len labels from position pos on, linearly, by bisection   *)
(* or sixteen at a time, depending on search_len.                          *)
(*                                                                         *)
(* A label vector is a record of its labels (label 0 is labels[1]) and of  *)
(* junk, the label that is read at any position behind them.               *)
(***************************************************************************)
EXTENDS Integers, Sequences, FiniteSets, FiniteSetsExt

CONSTANTS
  Terminator,      \* kTerminator
  LinearBelow,     \* search is linear for a search_len below this (3 in the code)
  BinaryBelow      \* and bisects for a search_len below this (12 in the code)

LabelAt(lv, pos) ==
  IF pos + 1 \in DOMAIN lv.labels THEN lv.labels[pos + 1] ELSE lv.junk

Found(pos) == [found |-> TRUE, pos |-> pos]
Missed(pos) == [found |-> FALSE, pos |-> pos]

(* A faulty variant of FirstMatch: the label behind the range is compared too. *)
FirstMatchBehind(lv, target, pos, search_len) ==
  LET matches == {p \in pos .. pos + search_len : LabelAt(lv, p) = target}
  IN  IF matches = {} THEN Missed(pos) ELSE Found(Min(matches))

(* linearSearch and simdSearch: both find the first match.  simdSearch compares
   blocks of labels at once while they lie inside the vector. *)
FirstMatch(lv, target, pos, search_len) ==
  LET matches == {p \in pos .. pos + search_len - 1 : LabelAt(lv, p) = target}
  IN  IF matches = {} THEN Missed(pos) ELSE Found(Min(matches))

(* The loop of both bisections: empty and met are their answers where the range
   is empty and where a label is met. *)
Bisect(lv, target, pos, search_len, empty, met) ==
  LET range == pos .. pos + search_len
      between[w \in range \X range] ==
        LET l == w[1]
            r == w[2]
            m == (l + r) \div 2
        IN  IF l >= r THEN empty[l]
            ELSE IF target < LabelAt(lv, m) THEN between[<<l, m>>]
            ELSE IF target = LabelAt(lv, m) THEN met[m]
            ELSE between[<<m + 1, r>>]
  IN  between[<<pos, pos + search_len>>]

(* binarySearch; pos is changed only by a match. *)
BinarySearch(lv, target, pos, search_len) ==
  Bisect(lv, target, pos, search_len,
         [l \in pos .. pos + search_len |-> Missed(pos)],
         [m \in pos .. pos + search_len |-> Found(m)])

(* search: a terminator in front of other labels is passed over first. *)
Search(lv, target, pos, search_len) ==
  LET skip == IF search_len > 1 /\ LabelAt(lv, pos) = Terminator THEN 1 ELSE 0
  IN  IF LinearBelow <= search_len - skip /\ search_len - skip < BinaryBelow
      THEN BinarySearch(lv, target, pos + skip, search_len - skip)
      ELSE FirstMatch(lv, target, pos + skip, search_len - skip)

-------------------------------------------------------------------------------
(* linearSearchGreaterThan: the first label of the range that is greater. *)
FirstGreater(lv, target, pos, search_len) ==
  LET greater == {p \in pos .. pos + search_len - 1 : LabelAt(lv, p) > target}
  IN  IF greater = {} THEN Missed(pos) ELSE Found(Min(greater))

(* binarySearchGreaterThan; the labels of a node are sorted, and where target
   itself is met the answer is the label behind it. *)
BinarySearchGreater(lv, target, pos, search_len) ==
  LET found(p) == IF p < pos + search_len THEN Found(p) ELSE Missed(pos)
  IN  Bisect(lv, target, pos, search_len,
             [l \in pos .. pos + search_len |-> found(l)],
             [m \in pos .. pos + search_len |-> found(m + 1)])

(* searchGreaterThan, which bisects ranges of any greater length. *)
SearchGreaterThan(lv, target, pos, search_len) ==
  LET skip == IF search_len > 1 /\ LabelAt(lv, pos) = Terminator THEN 1 ELSE 0
  IN  IF search_len - skip < LinearBelow
      THEN FirstGreater(lv, target, pos + skip, search_len - skip)
      ELSE BinarySearchGreater(lv, target, pos + skip, search_len - skip)
===============================================================================

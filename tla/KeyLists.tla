------------------------------- MODULE KeyLists -------------------------------
(* Key lists for model checking: sorted lists of short keys over a small      *)
(* alphabet, with and without duplicates and an ignored prefix.               *)
EXTENDS KeyOrder, FiniteSets

KeysUpTo(alphabet, length) == UNION {[1 .. n -> alphabet] : n \in 1 .. length}

IsPrefixFree(S) == \A a, b \in S : a # b => ~IsPrefix(a, b)

PrefixFreeSets(alphabet, length) ==
  {S \in SUBSET KeysUpTo(alphabet, length) : S # {} /\ IsPrefixFree(S)}

Sorted(S) ==
  [i \in 1 .. Cardinality(S) |->
     CHOOSE k \in S : Cardinality({j \in S : KeyLess(j, k)}) = i - 1]

PrefixFreeLists(alphabet, length) ==
  {Sorted(S) : S \in PrefixFreeSets(alphabet, length)}

(* The key at each index of reps as often as reps says. *)
Repeated(list, reps) ==
  FlattenSeq([i \in 1 .. Len(list) |-> [j \in 1 .. reps[i] |-> list[i]]])

WithDuplicates(lists) ==
  UNION {{Repeated(list, reps) : reps \in [1 .. Len(list) -> 1 .. 3]} :
           list \in {l \in lists : Len(l) <= 3}}

WithPrefix(prefix, lists) ==
  {[i \in 1 .. Len(list) |-> prefix \o list[i]] : list \in lists}
===============================================================================

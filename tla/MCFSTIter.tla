------------------------------ MODULE MCFSTIter ------------------------------
(* Model-checking instances of FSTIter. *)
EXTENDS FSTIter, KeyLists

CONSTANTS Ratios     \* values of sparse_dense_ratio tried

Call(keys, r) ==
  [keys |-> keys, skip_prefix |-> 0, parts |-> FALSE,
   include_dense |-> TRUE, ratio |-> r]

(* Tries of up to three levels over two labels, no key longer than needed; of two
   levels over all labels; and one whose three levels lack labels everywhere. *)
NoShorter(S) == \A k \in S : \E o \in S \ {k} : IsPrefix(Front(k), o)

Deep ==
  {Sorted(S) : S \in {T \in PrefixFreeSets({0, 1}, 3) :
                        Cardinality(T) \in {3, 4} /\ NoShorter(T)}}

Wide ==
  {Sorted({<<0, c>> : c \in A} \cup {<<2, c>> : c \in B} \cup {<<Terminator>>}) :
     A \in {{1}, {0, 1, 3}, Label}, B \in {{0, 2}, Label \ {1}}}

Sparse == {<<<<0, 1, 0>>, <<0, 1, 2>>, <<0, 3>>, <<1>>, <<3, 0, 1>>, <<3, 0, 3>>, <<3, 2>>>>}

MCInputs == {Call(list, r) : list \in Deep \cup Wide \cup Sparse, r \in Ratios}

MCSeekKeys == {<< >>} \cup KeysUpTo(Label, 2) \cup KeysUpTo({0, 1}, 3)

MCRangeKeys == {<<0>>, <<0, 1>>, <<0, 1, 0>>, <<1, 1>>, <<2, 1>>, <<3, 3>>}
===============================================================================

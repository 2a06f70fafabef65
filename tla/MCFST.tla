-------------------------------- MODULE MCFST --------------------------------
(* Model-checking instances of FST. *)
EXTENDS FST, KeyLists

CONSTANTS Ratios     \* values of sparse_dense_ratio tried

Call(keys, isDense, r) ==
  [keys |-> keys, skip_prefix |-> 0, parts |-> FALSE,
   include_dense |-> isDense, ratio |-> r]

(* Tries of up to three levels over two labels, with an upper bound on the
   number of keys; and of two levels over all labels. *)
Deep == {list \in PrefixFreeLists({0, 1}, 3) : Len(list) \in {1, 4}}

Wide ==
  {Sorted({<<0, c>> : c \in A} \cup {<<2, c>> : c \in B} \cup {<<Terminator>>}) :
     A \in {{1}, {0, 1, 3}, Label}, B \in SUBSET Label \ {{}}}

MCInputs == {Call(list, TRUE, r) : list \in Deep \cup Wide, r \in Ratios}

SparseOnlyInputs == {Call(list, FALSE, 0) : list \in PrefixFreeLists({0, 1}, 2)}

(* One trie with a dense level below the root, in which only its last key has a
   byte of the upper half. *)
NegativeInputs == {Call(<< <<0, 0>>, <<0, 1>>, <<1, 0>>, <<1, 2>> >>, TRUE, r) : r \in Ratios}

MCKeys == KeysUpTo(Label, 2) \cup KeysUpTo({0, 1}, 3)
===============================================================================

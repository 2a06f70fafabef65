----------------------------- MODULE MCFSTStorage -----------------------------
(* Model-checking instances of FSTStorage. *)
EXTENDS FSTStorage, KeyLists

CONSTANTS Ratios     \* values of sparse_dense_ratio tried

Call(keys, isDense, r) ==
  [keys |-> keys, skip_prefix |-> 0, parts |-> FALSE,
   include_dense |-> isDense, ratio |-> r]

(* Tries of up to three levels, which differ in the sizes of their vectors. *)
Lists == {list \in PrefixFreeLists({0, 1}, 3) : Len(list) \in {2, 4}}

MCInputs ==
  {Call(list, TRUE, r) : list \in Lists, r \in Ratios}
    \cup {Call(list, FALSE, 0) : list \in Lists}
===============================================================================

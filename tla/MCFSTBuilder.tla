---------------------------- MODULE MCFSTBuilder ----------------------------
(* Model-checking instances of FSTBuilder. *)
EXTENDS FSTBuilder, KeyLists

CONSTANTS Ratios     \* values of sparse_dense_ratio tried

Call(keys, skip, isParts, isDense, r) ==
  [keys |-> keys, skip_prefix |-> skip, parts |-> isParts,
   include_dense |-> isDense, ratio |-> r]

(* A list with one distinct key whose first byte is kTerminator. *)
OnlyTerminator(list) ==
  \A i \in 1 .. Len(list) : list[i] = list[1] /\ list[1][1] = Terminator

Deep == PrefixFreeLists({0, 1}, 3)
Wide == {list \in PrefixFreeLists({0, 1, Terminator}, 2) : ~OnlyTerminator(list)}
Small == PrefixFreeLists({0, 1}, 2)

(* Every sorted prefix-free list over two labels and three levels, and over
   three labels, the greatest one included, and two levels; duplicates; key
   parts behind an ignored prefix, as long as a label_t can tell or longer. *)
MCInputs ==
  {Call(list, 0, FALSE, TRUE, r) : list \in Deep \cup Wide, r \in Ratios}
    \cup {Call(list, 0, FALSE, FALSE, 0) : list \in Deep}
    \cup {Call(list, 0, p, TRUE, 1) : list \in WithDuplicates(Small), p \in BOOLEAN}
    \cup {Call(list, 1, TRUE, TRUE, 1) :
            list \in WithPrefix(<<2>>, Small \cup WithDuplicates(Small))}
    \cup {Call(list, Fanout + 1, TRUE, TRUE, 1) :
            list \in WithPrefix([i \in 1 .. Fanout + 1 |-> 2], WithDuplicates(Small))}
=============================================================================

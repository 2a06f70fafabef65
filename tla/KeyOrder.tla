------------------------------- MODULE KeyOrder -------------------------------
(* The order of keys as std::string compares them: byte by byte, unsigned, a  *)
(* proper prefix first.                                                        *)
EXTENDS Integers, Sequences, SequencesExt

KeyLess(a, b) ==
  \/ IsStrictPrefix(a, b)
  \/ \E p \in 1 .. Len(a) : /\ p <= Len(b)
                            /\ a[p] < b[p]
                            /\ \A q \in 1 .. p - 1 : a[q] = b[q]
===============================================================================

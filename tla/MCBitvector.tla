----------------------------- MODULE MCBitvector -----------------------------
(* Model-checking instances of BitvectorQueries. *)
EXTENDS BitvectorQueries

CONSTANTS MaxBits     \* bound: the bits of all levels together

(* A level with the given number of bits, of which those in ones are 1. *)
LevelOf(num_bits, ones) ==
  [num_bits |-> num_bits,
   words |-> [i \in 1 .. NumWords(num_bits) |->
                {p - (i - 1) * WordSize :
                   p \in {q \in ones : q \div WordSize = i - 1}}]]

Cut(n, a, b, ones) ==
  <<LevelOf(a, {p \in ones : p < a}),
    LevelOf(b, {p - a : p \in {q \in ones : a <= q /\ q < a + b}}),
    LevelOf(n - a - b, {p - a - b : p \in {q \in ones : a + b <= q}})>>

(* Every pattern of MaxBits bits, cut into three levels, the middle one of two
   bits; and every pattern of one level that fills its words. *)
MCLevelLists ==
  {Cut(MaxBits, a, 2, ones) : a \in 0 .. MaxBits - 2, ones \in SUBSET (0 .. MaxBits - 1)}
    \cup {<<LevelOf(2 * WordSize, ones)>> : ones \in SUBSET (0 .. 2 * WordSize - 1)}
===============================================================================

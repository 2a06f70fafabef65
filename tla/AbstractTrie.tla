----------------------------- MODULE AbstractTrie -----------------------------
(***************************************************************************)
(* What building the trie promises, without any bit vector: of every       *)
(* distinct key the trie keeps the shortest prefix no other key has, and   *)
(* the value given with the key's first occurrence.                        *)
(*                                                                         *)
(* A value is identified with the index of the key it came with, so two    *)
(* values are never confused.  A key is the part of the string after the   *)
(* first input.skip_prefix bytes.                                          *)
(***************************************************************************)
EXTENDS Integers, Sequences

VARIABLES
  input,           \* the arguments of this build
  entries          \* the set of <<stored prefix, index of its value>> pairs

avars == <<input, entries>>

Indices == 1 .. Len(input.keys)

(* The bytes of key i the trie stores and compares. *)
Suffix(i) == SubSeq(input.keys[i], input.skip_prefix + 1, Len(input.keys[i]))

(* Key i is the first of the run of equal keys it belongs to. *)
IsFirst(i) == \A j \in 1 .. i - 1 : Suffix(j) # Suffix(i)

HasPrefix(key, prefix) ==
  Len(prefix) <= Len(key) /\ SubSeq(key, 1, Len(prefix)) = prefix

(* A prefix of the given length tells key i from every different key. *)
Distinguishes(i, length) ==
  \A j \in Indices :
    Suffix(j) # Suffix(i) => ~HasPrefix(Suffix(j), SubSeq(Suffix(i), 1, length))

(* The shortest prefix of key i that no different key has. *)
StoredPrefix(i) ==
  LET shortest == CHOOSE m \in 1 .. Len(Suffix(i)) :
                    /\ Distinguishes(i, m)
                    /\ \A k \in 1 .. m - 1 : ~Distinguishes(i, k)
  IN  SubSeq(Suffix(i), 1, shortest)

AllEntries == {<<StoredPrefix(i), i>> : i \in {j \in Indices : IsFirst(j)}}

(* Whatever the arguments are, nothing is stored yet. *)
Init == entries = {}

(* Keys arrive in order, and each adds its entry in one step. *)
AddKey ==
  \E i \in Indices :
    /\ IsFirst(i)
    /\ \A e \in entries : e[2] < i
    /\ \A j \in 1 .. i - 1 : IsFirst(j) => \E e \in entries : e[2] = j
    /\ entries' = entries \cup {<<StoredPrefix(i), i>>}
    /\ UNCHANGED input

Spec == Init /\ [][AddKey]_avars
===============================================================================

---------------------------- MODULE Numbers_proofs ----------------------------
(***************************************************************************)
(* Division, induction, and what induction gives: least and greatest       *)
(* numbers, and the functions defined by recursion.  The induction         *)
(* theorems of the libraries take a predicate as a parameter; these lemmas *)
(* take the set of the elements that satisfy it.                           *)
(***************************************************************************)
EXTENDS Integers, FiniteSets, SequencesExt, FiniteSetTheorems, FunctionTheorems,
        WellFoundedInduction, TLAPS

-------------------------------------------------------------------------------
(* Division *)

(* Multiplication keeps the order. *)
LEMMA TimesMonotone ==
  ASSUME NEW d \in Nat, NEW i \in Int, NEW j \in Int, i <= j
  PROVE  i * d <= j * d
<1>1. (j - i) * d >= 0
  OBVIOUS
<1>2. (j - i) * d = j * d - i * d
  OBVIOUS
<1>3. QED
  BY <1>1, <1>2

(* Quotient and remainder. *)
LEMMA DivMod ==
  ASSUME NEW d \in Nat \ {0}, NEW p \in Int
  PROVE  /\ p \div d \in Int /\ p % d \in 0 .. d - 1
         /\ p = (p \div d) * d + (p % d)
  OBVIOUS

(* They are the only ones. *)
LEMMA DivModUnique ==
  ASSUME NEW d \in Nat \ {0}, NEW q \in Int, NEW r \in 0 .. d - 1
  PROVE  (q * d + r) \div d = q /\ (q * d + r) % d = r
<1> DEFINE p == q * d + r
           i == p \div d
           s == p % d
<1>1. p \in Int /\ q * d \in Int
  OBVIOUS
<1>2. i \in Int /\ s \in 0 .. d - 1 /\ p = i * d + s
  BY <1>1, DivMod
<1>3. p = q * d + r
  OBVIOUS
<1> HIDE DEF p, i, s
<1>4. i * d \in Int /\ (i + 1) * d = i * d + d /\ (q + 1) * d = q * d + d
  BY <1>2
<1>5. ~(i + 1 <= q)
  <2> SUFFICES ASSUME i + 1 <= q PROVE FALSE
    OBVIOUS
  <2>1. (i + 1) * d <= q * d
    BY <1>2, TimesMonotone
  <2>2. QED
    BY <1>1, <1>2, <1>3, <1>4, <2>1
<1>6. ~(q + 1 <= i)
  <2> SUFFICES ASSUME q + 1 <= i PROVE FALSE
    OBVIOUS
  <2>1. (q + 1) * d <= i * d
    BY <1>2, TimesMonotone
  <2>2. QED
    BY <1>1, <1>2, <1>3, <1>4, <2>1
<1>7. i = q
  BY <1>2, <1>5, <1>6
<1>8. s = r
  BY <1>1, <1>2, <1>3, <1>7
<1>9. QED
  BY <1>7, <1>8 DEF p, i, s

(* The quotient is what the position lies between. *)
LEMMA DivBounds ==
  ASSUME NEW d \in Nat \ {0}, NEW p \in Int, NEW i \in Int
  PROVE  /\ i * d <= p <=> i <= p \div d
         /\ p < i * d <=> p \div d < i
<1> DEFINE q == p \div d
           r == p % d
<1>1. q \in Int /\ r \in 0 .. d - 1 /\ p = q * d + r
  BY DivMod
<1> HIDE DEF q, r
<1>2. q * d \in Int /\ i * d \in Int /\ (q + 1) * d = q * d + d
  BY <1>1
<1>3. i <= q => i * d <= p
  <2>1. i <= q => i * d <= q * d
    BY <1>1, TimesMonotone
  <2>2. QED
    BY <1>1, <1>2, <2>1
<1>4. q < i => p < i * d
  <2>1. q + 1 <= i => (q + 1) * d <= i * d
    BY <1>1, TimesMonotone
  <2>2. QED
    BY <1>1, <1>2, <2>1
<1>5. QED
  BY <1>1, <1>2, <1>3, <1>4 DEF q

-------------------------------------------------------------------------------
(* Natural numbers *)

(* Every set of naturals that is not empty has a least element. *)
LEMMA LeastNatural ==
  ASSUME NEW T \in SUBSET Nat, T # {}
  PROVE  \E n \in T : \A m \in T : n <= m
<1> DEFINE R == OpToRel(<, Nat)
<1>1. IsWellFoundedOn(R, Nat)
  BY NatLessThanWellFounded, Zenon
<1>2. \A m, n \in Nat : m < n => <<m, n>> \in R
  BY DEF OpToRel
<1> HIDE DEF R
<1>3. PICK n \in T : \A m \in T : ~(<<m, n>> \in R)
  BY <1>1, WFMin
<1>4. \A m \in T : m \in Nat /\ n \in Nat
  OBVIOUS
<1>5. \A m \in T : ~(m < n)
  BY <1>2, <1>3, <1>4
<1>6. \A m \in T : n <= m
  BY <1>4, <1>5
<1>7. QED
  BY <1>6

(* A set with 0 and with the successor of each of its naturals has them all. *)
LEMMA NatInduct ==
  ASSUME NEW S, 0 \in S, \A n \in Nat : n \in S => n + 1 \in S
  PROVE  \A n \in Nat : n \in S
<1> DEFINE T == Nat \ S
<1> SUFFICES ASSUME T # {} PROVE FALSE
  OBVIOUS
<1>1. PICK n \in T : \A m \in T : n <= m
  BY LeastNatural
<1>2. n # 0 /\ n - 1 \in Nat /\ n - 1 \notin T
  BY <1>1
<1>3. QED
  BY <1>2

(* The same up to a bound. *)
LEMMA UpToInduct ==
  ASSUME NEW k \in Nat, NEW S, 0 \in S, \A n \in 0 .. k - 1 : n \in S => n + 1 \in S
  PROVE  \A n \in 0 .. k : n \in S
<1> DEFINE T == S \cup {n \in Nat : n > k}
<1>1. \A n \in Nat : n \in T
  <2>1. 0 \in T
    OBVIOUS
  <2>2. \A n \in Nat : n \in T => n + 1 \in T
    OBVIOUS
  <2> HIDE DEF T
  <2>3. QED
    BY <2>1, <2>2, NatInduct
<1>2. QED
  BY <1>1

(* Min is the least element. *)
LEMMA MinIsLeast ==
  ASSUME NEW T \in SUBSET Nat, T # {}
  PROVE  Min(T) \in T /\ \A m \in T : Min(T) <= m
<1>1. \E n \in T : \A m \in T : n <= m
  BY LeastNatural
<1>2. QED
  BY <1>1 DEF Min

(* Max is the greatest element of a set of integers with bounds. *)
LEMMA MaxIsGreatest ==
  ASSUME NEW a \in Int, NEW b \in Int, NEW T \in SUBSET (a .. b), T # {}
  PROVE  Max(T) \in T /\ \A m \in T : m <= Max(T)
<1> DEFINE U == {n \in Nat : b - n \in T}
<1>1. \A m \in T : m \in Int /\ b - m \in Nat /\ b - (b - m) = m
  OBVIOUS
<1>2. U \in SUBSET Nat /\ U # {}
  BY <1>1
<1>3. PICK n \in U : \A m \in U : n <= m
  BY <1>2, LeastNatural
<1>4. b - n \in T /\ \A m \in T : m <= b - n
  BY <1>1, <1>3
<1>5. \E x \in T : \A y \in T : x >= y
  BY <1>1, <1>4
<1>6. Max(T) \in T /\ \A y \in T : Max(T) >= y
  BY <1>5 DEF Max
<1>7. QED
  BY <1>1, <1>6

(* The least and the greatest element by what they are. *)
LEMMA MinIs ==
  ASSUME NEW T \in SUBSET Int, NEW x \in T, \A y \in T : x <= y
  PROVE  Min(T) = x
<1>1. Min(T) \in T /\ \A y \in T : Min(T) <= y
  BY DEF Min
<1>2. x <= Min(T) /\ Min(T) <= x
  BY <1>1
<1>3. x \in Int /\ Min(T) \in Int
  BY <1>1
<1>4. QED
  BY <1>2, <1>3

(* What Max is: greatest and unique. *)
LEMMA MaxIs ==
  ASSUME NEW T \in SUBSET Int, NEW x \in T, \A y \in T : y <= x
  PROVE  Max(T) = x
<1>1. Max(T) \in T /\ \A y \in T : Max(T) >= y
  <2>1. \E z \in T : \A y \in T : z >= y
    OBVIOUS
  <2>2. QED
    BY <2>1 DEF Max
<1>2. x <= Max(T) /\ Max(T) <= x
  BY <1>1
<1>3. x \in Int /\ Max(T) \in Int
  BY <1>1
<1>4. QED
  BY <1>2, <1>3

(* What a recursion over 0 .. k is made of: its values, the value for 0, and the
   step from the value before. *)
RecursionData(k, V, base, step) ==
  /\ k \in Nat
  /\ base \in V
  /\ step \in [(1 .. k) \X V -> V]

(* The function that a recursion defines exists. *)
LEMMA RecursionExists ==
  ASSUME NEW k, NEW V, NEW base, NEW step, RecursionData(k, V, base, step)
  PROVE  \E f \in [0 .. k -> V] :
           \A i \in 0 .. k : f[i] = IF i = 0 THEN base ELSE step[<<i, f[i - 1]>>]
<1> USE DEF RecursionData
<1> DEFINE Good(n, f) ==
             /\ f \in [0 .. n -> V]
             /\ \A i \in 0 .. n : f[i] = IF i = 0 THEN base ELSE step[<<i, f[i - 1]>>]
           S == {n \in 0 .. k : \E f : Good(n, f)}
<1>1. 0 \in S
  <2> DEFINE g == [i \in 0 .. 0 |-> base]
  <2>1. Good(0, g)
    OBVIOUS
  <2>2. \E f : Good(0, f)
    <3> HIDE DEF Good
    <3>1. QED
      BY <2>1
  <2>3. QED
    BY <2>2
<1>2. \A n \in 0 .. k - 1 : n \in S => n + 1 \in S
  <2> SUFFICES ASSUME NEW n \in 0 .. k - 1, NEW f, Good(n, f)
               PROVE  \E g : Good(n + 1, g)
    OBVIOUS
  <2> DEFINE g == [i \in 0 .. n + 1 |-> IF i = n + 1 THEN step[<<n + 1, f[n]>>] ELSE f[i]]
  <2>1. n + 1 \in 1 .. k /\ f[n] \in V
    OBVIOUS
  <2>2. step[<<n + 1, f[n]>>] \in V
    BY <2>1
  <2>3. g \in [0 .. n + 1 -> V]
    BY <2>2
  <2>4. g[n + 1] = step[<<n + 1, f[n]>>] /\ \A i \in 0 .. n : g[i] = f[i]
    OBVIOUS
  <2> HIDE DEF g
  <2>5. ASSUME NEW i \in 0 .. n + 1
        PROVE  g[i] = IF i = 0 THEN base ELSE step[<<i, g[i - 1]>>]
    <3>1. CASE i = n + 1
      <4>1. i - 1 = n /\ n \in 0 .. n /\ i # 0
        BY <3>1
      <4>2. QED
        BY <2>4, <3>1, <4>1
    <3>2. CASE i # n + 1
      <4>1. i \in 0 .. n /\ (i # 0 => i - 1 \in 0 .. n)
        BY <3>2
      <4>2. QED
        BY <2>4, <4>1
    <3>3. QED
      BY <3>1, <3>2
  <2>6. Good(n + 1, g)
    BY <2>3, <2>5
  <2>7. QED
    BY <2>6
<1> HIDE DEF S
<1>3. k \in S
  BY <1>1, <1>2, UpToInduct
<1>4. QED
  BY <1>3 DEF S

-------------------------------------------------------------------------------
(* Finite sets *)

(* A set of subsets of S with {}, and with each subset from which any element
   may be removed without leaving it, has all subsets of S. *)
LEMMA SubsetInduct ==
  ASSUME NEW S, IsFiniteSet(S), NEW P,
         {} \in P,
         \A s \in SUBSET S : s # {} /\ (\A x \in s : s \ {x} \in P) => s \in P
  PROVE  \A s \in SUBSET S : s \in P
<1> DEFINE N == {n \in Nat : \A s \in SUBSET S : Cardinality(s) = n => s \in P}
<1>1. \A s \in SUBSET S : IsFiniteSet(s) /\ Cardinality(s) \in Nat
  BY FS_Subset, FS_CardinalityType
<1>2. 0 \in N
  BY <1>1, FS_EmptySet
<1>3. \A n \in Nat : n \in N => n + 1 \in N
  <2> SUFFICES ASSUME NEW n \in Nat, n \in N,
                      NEW s \in SUBSET S, Cardinality(s) = n + 1
               PROVE  s \in P
    OBVIOUS
  <2>1. \A x \in s : Cardinality(s \ {x}) = n
    BY <1>1, FS_RemoveElement
  <2>2. \A x \in s : s \ {x} \in P
    BY <2>1
  <2>3. s # {}
    BY FS_EmptySet
  <2>4. QED
    BY <2>2, <2>3
<1> HIDE DEF N
<1>4. \A n \in Nat : n \in N
  BY <1>2, <1>3, NatInduct
<1>5. QED
  BY <1>1, <1>4 DEF N

(* Sets of numbers between two bounds are finite. *)
LEMMA BoundedFinite ==
  ASSUME NEW a \in Int, NEW b \in Int, NEW s \in SUBSET (a .. b)
  PROVE  s \in SUBSET Int /\ IsFiniteSet(s) /\ Cardinality(s) \in Nat
<1>1. IsFiniteSet(a .. b)
  BY FS_Interval
<1>2. IsFiniteSet(s)
  BY <1>1, FS_Subset
<1>3. Cardinality(s) \in Nat
  BY <1>2, FS_CardinalityType
<1>4. s \in SUBSET Int
  OBVIOUS
<1>5. QED
  BY <1>2, <1>3, <1>4

(* What a fold over the finite set S is made of: its values, the value for {}, the
   step for an element, and the element that it goes on with. *)
FoldData(S, V, base, step, pick) ==
  /\ IsFiniteSet(S)
  /\ base \in V
  /\ step \in [S \X V -> V]
  /\ \A s \in SUBSET S : s # {} => pick[s] \in s

(* The function of the subsets of S that a fold computes. *)
IsFold(g, S, V, base, step, pick) ==
  /\ g \in [SUBSET S -> V]
  /\ \A s \in SUBSET S :
       g[s] = IF s = {} THEN base ELSE step[<<pick[s], g[s \ {pick[s]}]>>]

(* It exists. *)
LEMMA FoldExists ==
  ASSUME NEW S, NEW V, NEW base, NEW step, NEW pick, FoldData(S, V, base, step, pick)
  PROVE  \E g : IsFold(g, S, V, base, step, pick)
<1> USE DEF FoldData
<1> DEFINE k == Cardinality(S)
           U == [SUBSET S -> V]
           zero == [s \in SUBSET S |-> base]
           more(u) == [s \in SUBSET S |->
                         IF s = {} THEN base ELSE step[<<pick[s], u[s \ {pick[s]}]>>]]
           steps == [c \in (1 .. k) \X U |-> more(c[2])]
<1>1. k \in Nat
  BY FS_CardinalityType
<1>2. zero \in U
  OBVIOUS
<1>3. ASSUME NEW u \in U PROVE more(u) \in U
  <2> SUFFICES ASSUME NEW s \in SUBSET S, s # {}
               PROVE  step[<<pick[s], u[s \ {pick[s]}]>>] \in V
    OBVIOUS
  <2>1. pick[s] \in S /\ u[s \ {pick[s]}] \in V
    OBVIOUS
  <2>2. QED
    BY <2>1
<1>4. steps \in [(1 .. k) \X U -> U]
  <2> HIDE DEF more, U
  <2>1. QED
    BY <1>3
<1>5. \A i \in 1 .. k : \A u \in U : steps[<<i, u>>] = more(u)
  <2> HIDE DEF more, U
  <2>1. QED
    OBVIOUS
<1> HIDE DEF k, U, zero, more, steps
<1>6. PICK f \in [0 .. k -> U] :
        \A i \in 0 .. k : f[i] = IF i = 0 THEN zero ELSE steps[<<i, f[i - 1]>>]
  <2>1. RecursionData(k, U, zero, steps)
    BY <1>1, <1>2, <1>4 DEF RecursionData
  <2>2. QED
    BY <2>1, RecursionExists
<1>7. \A i \in 1 .. k : f[i] = more(f[i - 1])
  <2> TAKE i \in 1 .. k
  <2>1. i \in 0 .. k /\ i # 0 /\ i - 1 \in 0 .. k
    BY <1>1
  <2>2. f[i - 1] \in U
    BY <2>1
  <2>3. QED
    BY <1>5, <1>6, <2>1, <2>2
<1> DEFINE g == [s \in SUBSET S |-> f[Cardinality(s)][s]]
<1>8. \A s \in SUBSET S : Cardinality(s) \in 0 .. k
  BY <1>1, FS_Subset, FS_CardinalityType DEF k
<1>9. g \in [SUBSET S -> V]
  BY <1>8 DEF U
<1>10. ASSUME NEW s \in SUBSET S
       PROVE  g[s] = IF s = {} THEN base ELSE step[<<pick[s], g[s \ {pick[s]}]>>]
  <2>1. CASE s = {}
    <3>1. Cardinality(s) = 0 /\ 0 \in 0 .. k
      BY <1>1, <2>1, FS_EmptySet
    <3>2. f[0] = zero
      BY <1>6, <3>1
    <3>3. QED
      BY <2>1, <3>1, <3>2 DEF zero
  <2>2. CASE s # {}
    <3> DEFINE r == s \ {pick[s]}
    <3>1. pick[s] \in s /\ r \in SUBSET S /\ IsFiniteSet(s)
      BY <2>2, FS_Subset
    <3>2. Cardinality(r) = Cardinality(s) - 1
      BY <3>1, FS_RemoveElement
    <3>3. Cardinality(s) \in 1 .. k
      BY <1>8, <2>2, <3>1, FS_EmptySet
    <3>4. f[Cardinality(s)] = more(f[Cardinality(r)])
      BY <1>7, <3>2, <3>3
    <3>5. more(f[Cardinality(r)])[s] = step[<<pick[s], f[Cardinality(r)][r]>>]
      BY <2>2 DEF more
    <3>6. g[s] = f[Cardinality(s)][s] /\ g[r] = f[Cardinality(r)][r]
      BY <3>1
    <3>7. QED
      BY <2>2, <3>4, <3>5, <3>6
  <2>3. QED
    BY <2>1, <2>2
<1> HIDE DEF g
<1>11. IsFold(g, S, V, base, step, pick)
  BY <1>9, <1>10 DEF IsFold
<1>12. QED
  BY <1>11

(* The folds over sequences go through the initial segments of the domain. *)
LEMMA InitialSegments ==
  ASSUME NEW k \in Nat
  PROVE  /\ \A s \in SUBSET (1 .. k) : s # {} => Max(s) \in s
         /\ \A j \in 1 .. k : /\ 1 .. j \in SUBSET (1 .. k) /\ 1 .. j # {}
                              /\ Max(1 .. j) = j /\ (1 .. j) \ {j} = 1 .. j - 1
         /\ 1 .. 0 = {}
<1>1. ASSUME NEW s \in SUBSET (1 .. k), s # {}
      PROVE  Max(s) \in s
  <2>1. 1 \in Int /\ k \in Int
    OBVIOUS
  <2>2. QED
    BY <1>1, <2>1, MaxIsGreatest
<1>2. ASSUME NEW j \in 1 .. k
      PROVE  /\ 1 .. j \in SUBSET (1 .. k) /\ 1 .. j # {}
             /\ Max(1 .. j) = j /\ (1 .. j) \ {j} = 1 .. j - 1
  <2>1. 1 .. j \in SUBSET Int /\ j \in 1 .. j /\ \A y \in 1 .. j : y <= j
    OBVIOUS
  <2>2. Max(1 .. j) = j
    BY <2>1, MaxIs
  <2>3. 1 .. j \in SUBSET (1 .. k) /\ (1 .. j) \ {j} = 1 .. j - 1
    OBVIOUS
  <2>4. QED
    BY <2>1, <2>2, <2>3
<1>3. QED
  BY <1>1, <1>2

-------------------------------------------------------------------------------
(* Sequences of sequences *)

(* f[i] is the first i sequences of seqs, one behind the other. *)
FlatPrefixes(f, seqs, n, X) ==
  /\ f[0] = << >>
  /\ \A i \in 0 .. n : f[i] \in Seq(X)
  /\ \A i \in 1 .. n : seqs[i] \in Seq(X) /\ f[i] = f[i - 1] \o seqs[i]

(* FlattenSeq appends one sequence after the other. *)
LEMMA FlattenIs ==
  ASSUME NEW X, NEW seqs \in Seq(Seq(X))
  PROVE  \E f : FlatPrefixes(f, seqs, Len(seqs), X) /\ FlattenSeq(seqs) = f[Len(seqs)]
<1> DEFINE n == Len(seqs)
           V == Seq(X)
           step == [c \in (1 .. n) \X V |-> c[2] \o seqs[c[1]]]
           flat == CHOOSE g : g = [i \in 1 .. n |-> IF i = 1 THEN seqs[i] ELSE g[i - 1] \o seqs[i]]
<1>1. n \in Nat /\ \A i \in 1 .. n : seqs[i] \in V
  OBVIOUS
<1>2. FlattenSeq(seqs) = IF n = 0 THEN seqs ELSE flat[n]
  BY DEF FlattenSeq
<1>3. n = 0 => seqs = << >>
  OBVIOUS
<1>3a. << >> \in V /\ \A s \in V : << >> \o s = s
  OBVIOUS
<1>3b. \A s, r \in V : s \o r \in V
  OBVIOUS
<1> HIDE DEF n, V
<1>4. step \in [(1 .. n) \X V -> V] /\ \A i \in 1 .. n, v \in V : step[<<i, v>>] = v \o seqs[i]
  BY <1>1, <1>3b
<1> HIDE DEF step
<1>5. RecursionData(n, V, << >>, step)
  BY <1>1, <1>3a, <1>4 DEF RecursionData
<1>6. PICK f \in [0 .. n -> V] :
        \A i \in 0 .. n : f[i] = IF i = 0 THEN << >> ELSE step[<<i, f[i - 1]>>]
  BY <1>5, RecursionExists
<1>7. \A i \in 1 .. n : i - 1 \in 0 .. n /\ i \in 0 .. n /\ i # 0
  BY <1>1
<1>8. ASSUME NEW i \in 1 .. n
      PROVE  f[i] = f[i - 1] \o seqs[i]
  BY <1>4, <1>6, <1>7
<1>9. f[0] = << >>
  <2>1. 0 \in 0 .. n
    BY <1>1
  <2>2. QED
    BY <1>6, <2>1
<1> DEFINE h == [i \in 1 .. n |-> f[i]]
<1>10. h = [i \in 1 .. n |-> IF i = 1 THEN seqs[i] ELSE h[i - 1] \o seqs[i]]
  <2>1. ASSUME NEW i \in 1 .. n
        PROVE  f[i] = IF i = 1 THEN seqs[i] ELSE h[i - 1] \o seqs[i]
    <3>1. CASE i = 1
      <4>0. i - 1 = 0
        BY <3>1
      <4>1. f[i] = f[i - 1] \o seqs[i]
        BY <1>8
      <4>2. QED
        BY <1>1, <1>3a, <1>9, <3>1, <4>0, <4>1
    <3>2. CASE i # 1
      <4>1. i - 1 \in 1 .. n
        BY <1>1, <3>2
      <4>2. h[i - 1] = f[i - 1]
        BY <4>1
      <4>3. QED
        BY <1>8, <3>2, <4>2
    <3>3. QED
      BY <3>1, <3>2
  <2>2. QED
    BY <2>1
<1>11. flat = [i \in 1 .. n |-> IF i = 1 THEN seqs[i] ELSE flat[i - 1] \o seqs[i]]
  BY <1>10
<1> HIDE DEF flat, h
<1>12. \A i \in 0 .. n : i \in {j \in 0 .. n : j = 0 \/ flat[j] = f[j]}
  <2> DEFINE S == {j \in 0 .. n : j = 0 \/ flat[j] = f[j]}
  <2>1. 0 \in S
    BY <1>1
  <2>2. ASSUME NEW j \in 0 .. n - 1, j \in S
        PROVE  j + 1 \in S
    <3>1. j + 1 \in 1 .. n /\ j + 1 \in 0 .. n /\ (j + 1) - 1 = j /\ (j = 0 <=> j + 1 = 1)
      BY <1>1
    <3>2. f[j + 1] = f[j] \o seqs[j + 1]
      BY <1>8, <3>1
    <3>3. flat[j + 1] = IF j + 1 = 1 THEN seqs[j + 1] ELSE flat[j] \o seqs[j + 1]
      BY <1>11, <3>1
    <3>4. CASE j = 0
      <4>1. f[j + 1] = seqs[j + 1]
        BY <1>1, <1>3a, <1>9, <3>1, <3>2, <3>4
      <4>2. QED
        BY <3>1, <3>3, <3>4, <4>1
    <3>5. CASE j # 0
      <4>1. flat[j] = f[j]
        BY <2>2, <3>5
      <4>2. QED
        BY <3>1, <3>2, <3>3, <3>5, <4>1
    <3>6. QED
      BY <3>4, <3>5
  <2> HIDE DEF S
  <2>3. \A j \in 0 .. n : j \in S
    BY <1>1, <2>1, <2>2, UpToInduct
  <2>4. QED
    BY <2>3 DEF S
<1>13. FlattenSeq(seqs) = f[n]
  <2>1. n \in 0 .. n
    BY <1>1
  <2>2. n = 0 \/ flat[n] = f[n]
    BY <1>12, <2>1
  <2>3. CASE n = 0
    BY <1>2, <1>3, <1>9, <2>3
  <2>4. CASE n # 0
    BY <1>2, <2>2, <2>4
  <2>5. QED
    BY <2>3, <2>4
<1>14. \A i \in 0 .. n : f[i] \in V
  BY <1>6
<1>15. FlatPrefixes(f, seqs, n, X)
  BY <1>1, <1>8, <1>9, <1>14 DEF FlatPrefixes, V
<1>16. QED
  BY <1>13, <1>15 DEF n
===============================================================================

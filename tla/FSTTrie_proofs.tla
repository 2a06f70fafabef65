---------------------------- MODULE FSTTrie_proofs ----------------------------
(***************************************************************************)
(* The trie that the vectors of a complete build hold.                     *)
(*                                                                         *)
(* The items with a child of one level are the nodes of the next, in level *)
(* order, so that a count of the child bits of all levels is the number of *)
(* a node, and one of the other bits is the place of a value.  What the    *)
(* lookups need of the builder is collected in BuiltInv.  Then it is said  *)
(* what reading a label in a node must tell of the trie (Tells), and shown *)
(* that an operation which is told so keeps standing at the node its bytes *)
(* lead to and gives the right answer (CallOK).                            *)
(***************************************************************************)
EXTENDS FST, FSTBuilder_proofs

-------------------------------------------------------------------------------
(* Sums over levels *)

(* The sum of the first n counts. *)
SumLevels(count, n) == MapThenSumSet(LAMBDA m : count[m], 0 .. n - 1)

(* The first n counts. *)
Restricted(count, n) == [l \in 0 .. n - 1 |-> count[l]]

(* The number of the nodes on the levels above level l, which is the number of
   the first node of level l. *)
NodesAbove(l) == SumLevels(node_counts, l)

(* A sum over a range of levels is the one that is added up. *)
LEMMA LevelsAddUp ==
  ASSUME NEW n \in Nat, NEW count, \A l \in 0 .. n - 1 : count[l] \in Nat
  PROVE  \E g : AddsUp(g, 0 .. n - 1, Restricted(count, n)) /\ SumLevels(count, n) = g[0 .. n - 1]
<1> DEFINE S == 0 .. n - 1
           c == [l \in S |-> count[l]]
           sum == CHOOSE g : g = [s \in SUBSET S |->
                    IF s = {} THEN 0 ELSE count[PickLevel(s)] + g[s \ {PickLevel(s)}]]
<1>1. MapThenSumSet(LAMBDA m : count[m], S) = sum[S]
  BY DEF MapThenSumSet, MapThenFoldSet, PickLevel
<1> DEFINE total == MapThenSumSet(LAMBDA m : count[m], S)
<1>0. SumLevels(count, n) = total /\ Restricted(count, n) = c
  BY DEF SumLevels, Restricted
<1> HIDE DEF total
<1>2. IsFiniteSet(S) /\ c \in [S -> Nat]
  BY FS_Interval
<1>3. \A s \in SUBSET S : s # {} => c[PickLevel(s)] = count[PickLevel(s)]
  BY DEF PickLevel
<1> HIDE DEF S, c
<1>4. PICK h : AddsUp(h, S, c)
  BY <1>2, SumExists
<1>5. h = [s \in SUBSET S |->
             IF s = {} THEN 0 ELSE count[PickLevel(s)] + h[s \ {PickLevel(s)}]]
  BY <1>3, <1>4 DEF AddsUp
<1>6. sum = [s \in SUBSET S |->
               IF s = {} THEN 0 ELSE count[PickLevel(s)] + sum[s \ {PickLevel(s)}]]
  BY <1>5
<1> HIDE DEF sum
<1>7. DOMAIN sum = SUBSET S /\ DOMAIN h = SUBSET S
  BY <1>5, <1>6
<1> DEFINE P == {s \in SUBSET S : sum[s] = h[s]}
<1>8. {} \in P
  BY <1>5, <1>6
<1>9. ASSUME NEW s \in SUBSET S, s # {}, \A x \in s : s \ {x} \in P
      PROVE  s \in P
  <2>1. PickLevel(s) \in s
    BY <1>9 DEF PickLevel
  <2>2. sum[s \ {PickLevel(s)}] = h[s \ {PickLevel(s)}]
    BY <1>9, <2>1
  <2>3. /\ sum[s] = count[PickLevel(s)] + sum[s \ {PickLevel(s)}]
        /\ h[s] = count[PickLevel(s)] + h[s \ {PickLevel(s)}]
    BY <1>5, <1>6, <1>9
  <2>4. QED
    BY <2>2, <2>3
<1> HIDE DEF P
<1>10. \A s \in SUBSET S : s \in P
  BY <1>2, <1>8, <1>9, SubsetInduct
<1>11. sum[S] = h[S]
  BY <1>10 DEF P
<1>12. QED
  BY <1>0, <1>1, <1>4, <1>11 DEF S, c, total

(* Level by level. *)
LEMMA SumOfLevels ==
  ASSUME NEW n \in Nat, NEW count, \A l \in 0 .. n : count[l] \in Nat
  PROVE  /\ SumLevels(count, 0) = 0 /\ SumLevels(count, n) \in Nat
         /\ SumLevels(count, n + 1) = SumLevels(count, n) + count[n]
<1> DEFINE c(k) == Restricted(count, k)
           sum(k) == SumLevels(count, k)
<1>1. \A k \in 0 .. n + 1 : \E g : AddsUp(g, 0 .. k - 1, c(k)) /\ sum(k) = g[0 .. k - 1]
  BY LevelsAddUp
<1>2. sum(0) = 0
  <2>1. PICK g : AddsUp(g, 0 .. 0 - 1, c(0)) /\ sum(0) = g[0 .. 0 - 1]
    BY <1>1
  <2>2. 0 .. 0 - 1 = {}
    OBVIOUS
  <2>3. QED
    BY <2>1, <2>2 DEF AddsUp
<1> DEFINE S == 0 .. n
           T == 0 .. n - 1
<1>3. PICK g : AddsUp(g, S, c(n + 1)) /\ sum(n + 1) = g[S]
  <2>1. (n + 1) - 1 = n
    OBVIOUS
  <2>2. QED
    BY <1>1, <2>1
<1>4. PICK g2 : AddsUp(g2, T, c(n)) /\ sum(n) = g2[T]
  BY <1>1
<1>5. /\ T \in SUBSET S /\ n \in S /\ S \ {n} = T /\ S \in SUBSET S /\ T \in SUBSET T
      /\ \A x \in T : c(n)[x] = c(n + 1)[x]
      /\ c(n + 1)[n] = count[n] /\ count[n] \in Nat
  BY DEF Restricted
<1> HIDE DEF S, T, c, sum
<1>6. sum(n) \in Nat
  BY <1>4, <1>5 DEF AddsUp
<1>7. g2[T] = g[T]
  BY <1>3, <1>4, <1>5, SumUnique
<1>8. g[S] = c(n + 1)[n] + g[T]
  <2>1. g[S] = c(n + 1)[n] + g[S \ {n}]
    BY <1>3, <1>5, SumWithout
  <2>2. QED
    BY <1>5, <2>1
<1>9. sum(n + 1) = sum(n) + count[n]
  BY <1>3, <1>4, <1>5, <1>6, <1>7, <1>8
<1>10. QED
  BY <1>2, <1>6, <1>9 DEF sum

(* The number of the first node of a level. *)
LEMMA NodesAboveIs ==
  ASSUME TypeInv, NEW l \in Levels
  PROVE  /\ NodesAbove(0) = 0 /\ NodesAbove(l) \in Nat /\ node_counts[l] \in Nat
         /\ NodesAbove(l + 1) = NodesAbove(l) + node_counts[l]
<1>1. l \in Nat /\ \A m \in 0 .. l : node_counts[m] \in Nat
  <2>1. l \in 0 .. MaxLevel /\ MaxLevel \in Nat
    BY ConstantsAssumption DEF Levels
  <2>2. QED
    BY <2>1 DEF TypeInv, TypeOK, Levels
<1>2. QED
  BY <1>1, SumOfLevels DEF NodesAbove

-------------------------------------------------------------------------------
(* Paths *)

Items(l) == 0 .. GetNumItems(l) - 1

(* What a level holds. *)
LEMMA LevelIs ==
  ASSUME DenseInv, NEW l \in 0 .. height - 1
  PROVE  /\ l \in Levels /\ l \in Nat /\ l < height /\ height \in Nat
         /\ height \in 0 .. MaxLevel + 1 /\ MaxLevel \in Nat
         /\ labels[l] \in Seq(Label)
         /\ GetNumItems(l) \in Nat /\ GetNumItems(l) = Len(labels[l])
         /\ child_indicator_bits[l] \in SUBSET Items(l)
         /\ louds_bits[l] \in SUBSET Items(l)
         /\ 0 \in louds_bits[l] /\ 0 \in Items(l)
         /\ node_counts[l] = Cardinality(louds_bits[l]) /\ node_counts[l] \in Nat
         /\ l = 0 => node_counts[l] = 1
         /\ l + 1 < height => node_counts[l + 1] = Cardinality(child_indicator_bits[l])
         /\ l + 1 >= height => child_indicator_bits[l] = {}
         /\ \A p \in Items(l) : labels[l][p + 1] \in Label
<1>1. LoudsInv /\ FirstInv /\ LoudsAligned /\ TypeInv
  BY DEF DenseInv, SortedInv, LoudsInv
<1>2. height \in 0 .. MaxLevel + 1 /\ MaxLevel \in Nat /\ height \in Nat /\ node_counts \in [Levels -> Nat]
  BY <1>1, ConstantsAssumption DEF TypeInv, TypeOK
<1>3. l \in Levels /\ l < height /\ l \in Nat
  BY <1>2 DEF Levels
<1>4. /\ labels[l] \in Seq(Label)
      /\ GetNumItems(l) \in Nat /\ GetNumItems(l) = Len(labels[l])
      /\ child_indicator_bits[l] \in SUBSET Items(l)
      /\ louds_bits[l] \in SUBSET Items(l)
  BY <1>1, <1>3, LevelCounts DEF Items
<1>5. 0 \in louds_bits[l]
  BY <1>1, <1>3 DEF FirstInv
<1>6. /\ node_counts[l] = Cardinality(louds_bits[l]) /\ node_counts[l] \in Nat
      /\ l = 0 => node_counts[l] = 1
      /\ l + 1 >= height => child_indicator_bits[l] = {}
  BY <1>1, <1>2, <1>3 DEF LoudsAligned
<1>7. l + 1 < height => node_counts[l + 1] = Cardinality(child_indicator_bits[l])
  <2>1. l + 1 < height => l + 1 \in Levels /\ l + 1 # 0 /\ (l + 1) - 1 = l
    BY <1>2, <1>3 DEF Levels
  <2>2. QED
    BY <1>1, <2>1 DEF LoudsAligned
<1>8. \A p \in Items(l) : labels[l][p + 1] \in Label
  <2>1. \A p \in Items(l) : p + 1 \in 1 .. Len(labels[l])
    BY <1>4 DEF Items
  <2>2. QED
    BY <1>4, <2>1
<1>9. QED
  BY <1>2, <1>3, <1>4, <1>5, <1>6, <1>7, <1>8

(* The labels along a trail, down to level m. *)
Along(pos, m) == [i \in 1 .. m + 1 |-> labels[i - 1][pos[i - 1] + 1]]

(* The way from the root to an item, and the path to every item on it. *)
Leads(pos, l) ==
  /\ \A m \in 0 .. l : pos[m] \in Items(m) /\ PathTo(m, pos[m]) = Along(pos, m)
  /\ \A m \in 0 .. l - 1 :
       /\ pos[m] \in child_indicator_bits[m]
       /\ Cardinality(Below(child_indicator_bits[m], pos[m])) = NodeOf(m + 1, pos[m + 1])

(* Every item has a way to it. *)
LEMMA WayExists ==
  ASSUME DenseInv, NEW l \in 0 .. height - 1, NEW p \in Items(l)
  PROVE  \E pos : pos[l] = p /\ Leads(pos, l)
<1>1. Linked(labels, louds_bits, child_indicator_bits, height)
  BY LinkedNow
<1>2. p \in Positions(labels, l)
  BY DEF Items, Positions, GetNumItems
<1>3. PICK pos : IsTrail(louds_bits, child_indicator_bits, l, p, pos)
  BY <1>1, <1>2, TrailExists
<1>4. l \in Nat /\ height \in Nat
  BY LevelIs
<1>5. ASSUME NEW m \in 0 .. l - 1
      PROVE  /\ pos[m] \in child_indicator_bits[m]
             /\ Cardinality(Below(child_indicator_bits[m], pos[m])) = NodeOf(m + 1, pos[m + 1])
             /\ pos[m] \in Items(m)
  <2>1. /\ pos[m] \in child_indicator_bits[m]
        /\ Cardinality(Below(child_indicator_bits[m], pos[m]))
             = Cardinality(UpTo(louds_bits[m + 1], pos[m + 1])) - 1
    BY <1>3 DEF IsTrail
  <2>2. m \in 0 .. height - 1
    BY <1>4
  <2>3. QED
    BY <2>1, <2>2, LevelIs DEF NodeOf, UpTo
<1>6. pos[l] = p /\ pos \in [0 .. l -> Nat]
  BY <1>3 DEF IsTrail
<1>7. ASSUME NEW m \in 0 .. l
      PROVE  PathTo(m, pos[m]) = Along(pos, m)
  <2> DEFINE way == [i \in 0 .. m |-> pos[i]]
  <2>1. way \in [0 .. m -> Nat] /\ way[m] = pos[m] /\ \A i \in 0 .. m : way[i] = pos[i]
    BY <1>4, <1>6
  <2> HIDE DEF way
  <2>2. IsTrail(louds_bits, child_indicator_bits, m, pos[m], way)
    <3>1. ASSUME NEW i \in 0 .. m - 1
          PROVE  /\ way[i] \in child_indicator_bits[i]
                 /\ Cardinality(Below(child_indicator_bits[i], way[i]))
                      = Cardinality(UpTo(louds_bits[i + 1], way[i + 1])) - 1
      <4>1. i \in 0 .. l - 1 /\ i \in 0 .. m /\ i + 1 \in 0 .. m
        BY <1>4
      <4>2. /\ pos[i] \in child_indicator_bits[i]
            /\ Cardinality(Below(child_indicator_bits[i], pos[i]))
                 = Cardinality(UpTo(louds_bits[i + 1], pos[i + 1])) - 1
        BY <1>3, <4>1 DEF IsTrail
      <4>3. QED
        BY <2>1, <4>1, <4>2
    <3>2. QED
      BY <2>1, <3>1 DEF IsTrail
  <2>3. m \in 0 .. height - 1
    BY <1>4
  <2>4. PathOf(labels, louds_bits, child_indicator_bits, m, pos[m])
          = [i \in 1 .. m + 1 |-> labels[i - 1][way[i - 1] + 1]]
    BY <1>1, <2>2, <2>3, PathAlongTrail
  <2>5. PathTo(m, pos[m]) = PathOf(labels, louds_bits, child_indicator_bits, m, pos[m])
    BY DEF PathTo, PathOf, ParentPos, ParentOf, NodeOf
  <2>6. \A i \in 1 .. m + 1 : way[i - 1] = pos[i - 1]
    BY <2>1
  <2>7. QED
    BY <2>4, <2>5, <2>6 DEF Along
<1>8. \A m \in 0 .. l : pos[m] \in Items(m)
  BY <1>4, <1>5, <1>6
<1>9. QED
  BY <1>5, <1>6, <1>7, <1>8 DEF Leads

(* A path is a sequence of as many labels as there are levels. *)
LEMMA PathIsSeq ==
  ASSUME DenseInv, NEW l \in 0 .. height - 1, NEW p \in Items(l)
  PROVE  /\ PathTo(l, p) \in Seq(Label) /\ Len(PathTo(l, p)) = l + 1
         /\ PathTo(l, p)[l + 1] = labels[l][p + 1]
<1>1. PICK pos : pos[l] = p /\ Leads(pos, l)
  BY WayExists
<1>2. l \in Nat /\ height \in Nat
  BY LevelIs
<1>3. PathTo(l, p) = Along(pos, l)
  BY <1>1, <1>2 DEF Leads
<1>4. ASSUME NEW i \in 1 .. l + 1
      PROVE  labels[i - 1][pos[i - 1] + 1] \in Label
  <2>1. i - 1 \in 0 .. l /\ i - 1 \in 0 .. height - 1
    BY <1>2
  <2>2. pos[i - 1] \in Items(i - 1)
    BY <1>1, <2>1 DEF Leads
  <2>3. QED
    BY <2>1, <2>2, LevelIs
<1>5. Along(pos, l) \in [1 .. l + 1 -> Label] /\ Along(pos, l)[l + 1] = labels[l][p + 1]
  BY <1>1, <1>2, <1>4 DEF Along
<1>6. l + 1 \in Nat
  BY <1>2
<1>7. QED
  BY <1>3, <1>5, <1>6

(* The path of the root's items, and of the others one level up. *)
LEMMA RootPath ==
  ASSUME DenseInv, NEW p \in Items(0), 0 < height
  PROVE  PathTo(0, p) = <<labels[0][p + 1]>>
<1>1. 0 \in 0 .. height - 1
  <2>1. height \in Nat
    BY DEF DenseInv, SortedInv, LoudsInv, TypeInv, TypeOK
  <2>2. QED
    BY <2>1
<1>2. PathTo(0, p) \in Seq(Label) /\ Len(PathTo(0, p)) = 1 /\ PathTo(0, p)[1] = labels[0][p + 1]
  <2>1. /\ PathTo(0, p) \in Seq(Label) /\ Len(PathTo(0, p)) = 0 + 1
        /\ PathTo(0, p)[0 + 1] = labels[0][p + 1]
    BY <1>1, PathIsSeq
  <2>2. QED
    BY <2>1
<1>3. QED
  BY <1>2

(* The path to an item is that of the item above its node, and its label. *)
LEMMA PathStep ==
  ASSUME DenseInv, NEW l \in 1 .. height - 1, NEW p \in Items(l)
  PROVE  \E q \in child_indicator_bits[l - 1] :
           /\ Cardinality(Below(child_indicator_bits[l - 1], q)) = NodeOf(l, p)
           /\ PathTo(l, p) = Append(PathTo(l - 1, q), labels[l][p + 1])
<1>1. l \in 0 .. height - 1
  OBVIOUS
<1>2. PICK pos : pos[l] = p /\ Leads(pos, l)
  BY <1>1, WayExists
<1>3. l \in Nat /\ height \in Nat /\ l - 1 \in 0 .. l /\ l - 1 \in 0 .. l - 1 /\ (l - 1) + 1 = l
      /\ l - 1 \in 0 .. height - 1
  BY <1>1, LevelIs
<1> DEFINE q == pos[l - 1]
<1>4. /\ q \in child_indicator_bits[l - 1] /\ q \in Items(l - 1)
      /\ Cardinality(Below(child_indicator_bits[l - 1], q)) = NodeOf(l, p)
  BY <1>2, <1>3 DEF Leads
<1>5. PathTo(l, p) = Along(pos, l) /\ PathTo(l - 1, q) = Along(pos, l - 1)
  BY <1>2, <1>3 DEF Leads
<1>6. /\ PathTo(l, p) \in Seq(Label) /\ Len(PathTo(l, p)) = l + 1
      /\ PathTo(l, p)[l + 1] = labels[l][p + 1]
  BY <1>1, PathIsSeq
<1>7. PathTo(l - 1, q) \in Seq(Label) /\ Len(PathTo(l - 1, q)) = l
  BY <1>3, <1>4, PathIsSeq
<1>8. \A i \in 1 .. l : PathTo(l, p)[i] = PathTo(l - 1, q)[i]
  BY <1>3, <1>5 DEF Along
<1> DEFINE a == PathTo(l, p)
           b == PathTo(l - 1, q)
           c == labels[l][p + 1]
<1>9. c \in Label
  BY <1>1, LevelIs
<1>10. a = Append(b, c)
  <2> HIDE DEF a, b, c
  <2>1. /\ a \in Seq(Label) /\ Len(a) = l + 1 /\ a[l + 1] = c
        /\ b \in Seq(Label) /\ Len(b) = l /\ \A i \in 1 .. l : a[i] = b[i]
    BY <1>6, <1>7, <1>8 DEF a, b, c
  <2>2. Append(b, c) \in Seq(Label) /\ Len(Append(b, c)) = l + 1
    BY <1>9, <2>1
  <2>3. \A i \in 1 .. l + 1 : a[i] = Append(b, c)[i]
    BY <1>3, <2>1
  <2>4. QED
    BY <2>1, <2>2, <2>3
<1>11. QED
  BY <1>4, <1>10

-------------------------------------------------------------------------------
(* The order of paths *)

(* For paths of one length, the order of levels is the order of the labels
   where they first differ. *)
Before(a, b) ==
  \E n \in 1 .. Len(a) : a[n] < b[n] /\ \A m \in 1 .. n - 1 : a[m] = b[m]

(* It is. *)
LEMMA BeforeIs ==
  ASSUME NEW a \in Seq(Label), NEW b \in Seq(Label), Len(a) = Len(b)
  PROVE  PathBefore(a, b) <=> Before(a, b)
<1>1. ASSUME NEW n \in 1 .. Len(a)
      PROVE  SubSeq(a, 1, n - 1) = SubSeq(b, 1, n - 1)
               <=> \A m \in 1 .. n - 1 : a[m] = b[m]
  <2>1. Len(a) \in Nat
    OBVIOUS
  <2>2. /\ SubSeq(a, 1, n - 1) \in Seq(Label) /\ Len(SubSeq(a, 1, n - 1)) = n - 1
        /\ \A m \in 1 .. n - 1 : SubSeq(a, 1, n - 1)[m] = a[m]
    BY <2>1
  <2>3. /\ SubSeq(b, 1, n - 1) \in Seq(Label) /\ Len(SubSeq(b, 1, n - 1)) = n - 1
        /\ \A m \in 1 .. n - 1 : SubSeq(b, 1, n - 1)[m] = b[m]
    BY <2>1
  <2>4. QED
    BY <2>2, <2>3
<1>2. QED
  BY <1>1 DEF PathBefore, Before

(* The order is strict. *)
LEMMA BeforeIsOrder ==
  ASSUME NEW a \in Seq(Label), NEW b \in Seq(Label), Len(a) = Len(b), Before(a, b)
  PROVE  a # b /\ ~Before(b, a)
<1>1. \A n \in 1 .. Len(a) : a[n] \in Int /\ b[n] \in Int
  BY ConstantsAssumption DEF Label
<1>2. PICK n \in 1 .. Len(a) : a[n] < b[n] /\ \A m \in 1 .. n - 1 : a[m] = b[m]
  BY DEF Before
<1>3. a # b
  BY <1>1, <1>2
<1>4. ASSUME Before(b, a)
      PROVE  FALSE
  <2>1. PICK k \in 1 .. Len(a) : b[k] < a[k] /\ \A m \in 1 .. k - 1 : b[m] = a[m]
    BY <1>4 DEF Before
  <2>2. a[k] \in Int /\ b[k] \in Int /\ a[n] \in Int /\ b[n] \in Int
    BY <1>1
  <2>3. CASE k < n
    <3>1. k \in 1 .. n - 1
      BY <2>3
    <3>2. QED
      BY <1>2, <2>1, <2>2, <3>1
  <2>4. CASE n < k
    <3>1. n \in 1 .. k - 1
      BY <2>4
    <3>2. QED
      BY <1>2, <2>1, <2>2, <3>1
  <2>5. CASE n = k
    BY <1>2, <2>1, <2>2, <2>5
  <2>6. QED
    BY <2>3, <2>4, <2>5
<1>5. QED
  BY <1>3, <1>4

(* How appending keeps and makes order. *)
LEMMA BeforeAppend ==
  ASSUME NEW a \in Seq(Label), NEW b \in Seq(Label), Len(a) = Len(b),
         NEW c \in Label, NEW d \in Label
  PROVE  /\ Before(a, b) => Before(Append(a, c), Append(b, d))
         /\ a = b /\ c < d => Before(Append(a, c), Append(b, d))
<1> DEFINE n == Len(a)
           x == Append(a, c)
           y == Append(b, d)
<1>1. /\ n \in Nat /\ Len(x) = n + 1 /\ x[n + 1] = c /\ y[n + 1] = d
      /\ \A i \in 1 .. n : x[i] = a[i] /\ y[i] = b[i]
  OBVIOUS
<1> HIDE DEF x, y
<1>2. ASSUME Before(a, b)
      PROVE  Before(x, y)
  <2>1. PICK k \in 1 .. n : a[k] < b[k] /\ \A m \in 1 .. k - 1 : a[m] = b[m]
    BY <1>2 DEF Before
  <2>2. k \in 1 .. Len(x) /\ \A m \in 1 .. k - 1 : m \in 1 .. n
    BY <1>1
  <2>3. x[k] < y[k] /\ \A m \in 1 .. k - 1 : x[m] = y[m]
    BY <1>1, <2>1, <2>2
  <2>4. QED
    BY <2>2, <2>3 DEF Before
<1>3. ASSUME a = b, c < d
      PROVE  Before(x, y)
  <2>1. n + 1 \in 1 .. Len(x) /\ x[n + 1] < y[n + 1]
    BY <1>1, <1>3
  <2>2. \A m \in 1 .. (n + 1) - 1 : x[m] = y[m]
    BY <1>1, <1>3
  <2>3. QED
    BY <2>1, <2>2 DEF Before
<1>4. QED
  BY <1>2, <1>3 DEF x, y

(* Counting up to a position. *)
LEMMA CountsGrow ==
  ASSUME NEW n \in Nat, NEW S \in SUBSET (0 .. n - 1), NEW p \in Int, NEW r \in Int, p <= r
  PROVE  /\ Cardinality(Below(S, p)) \in Nat /\ Cardinality(Below(S, r)) \in Nat
         /\ Cardinality(Below(S, p)) <= Cardinality(Below(S, r))
         /\ p \in S /\ p < r => Cardinality(Below(S, p)) < Cardinality(Below(S, r))
         /\ UpTo(S, p) = Below(S, p + 1)
         /\ p \in S => Cardinality(Below(S, p + 1)) = Cardinality(Below(S, p)) + 1
         /\ p \notin S => Below(S, p + 1) = Below(S, p)
<1>1. S \in SUBSET Int
  OBVIOUS
<1>2. \A x \in Int : Below(S, x) \in SUBSET (0 .. n - 1)
  BY DEF Below
<1>3. \A x \in Int : IsFiniteSet(Below(S, x)) /\ Cardinality(Below(S, x)) \in Nat
  BY <1>2, CountBits
<1>4. Below(S, p) \in SUBSET Below(S, r)
  <2>1. \A x \in S : x < p => x < r
    BY <1>1
  <2>2. QED
    BY <2>1, Zenon DEF Below
<1>5. Cardinality(Below(S, p)) <= Cardinality(Below(S, r))
  BY <1>3, <1>4, FS_Subset
<1>6. p \in S /\ p < r => Cardinality(Below(S, p)) # Cardinality(Below(S, r))
  <2>1. p \in S /\ p < r => p \in Below(S, r) /\ p \notin Below(S, p)
    BY DEF Below
  <2>2. QED
    BY <1>3, <1>4, <2>1, FS_Subset
<1>7. UpTo(S, p) = Below(S, p + 1)
  <2>1. \A x \in S : x <= p <=> x < p + 1
    BY <1>1
  <2>2. QED
    BY <2>1, Zenon DEF UpTo, Below
<1>8. p \in S => Below(S, p + 1) = Below(S, p) \cup {p}
  <2>1. \A x \in S : x < p + 1 <=> x < p \/ x = p
    BY <1>1
  <2>2. \A x : p \in S => (x \in Below(S, p + 1) <=> x \in Below(S, p) \cup {p})
    BY <2>1 DEF Below
  <2>3. QED
    BY <2>2, Zenon
<1>9. p \notin Below(S, p)
  BY DEF Below
<1>10. p \in S => Cardinality(Below(S, p + 1)) = Cardinality(Below(S, p)) + 1
  BY <1>3, <1>8, <1>9, FS_AddElement
<1>11. p \notin S => Below(S, p + 1) = Below(S, p)
  <2>1. \A x \in S : p \notin S => (x < p + 1 <=> x < p)
    BY <1>1
  <2>2. QED
    BY <2>1, Zenon DEF Below
<1>12. QED
  BY <1>3, <1>5, <1>6, <1>7, <1>10, <1>11

(* The node an item belongs to; in one node the labels ascend. *)
LEMMA NodesInOrder ==
  ASSUME DenseInv, NEW l \in 0 .. height - 1, NEW p \in Items(l), NEW r \in Items(l), p < r
  PROVE  /\ NodeOf(l, p) \in 0 .. node_counts[l] - 1 /\ NodeOf(l, p) <= NodeOf(l, r)
         /\ NodeOf(l, p) = NodeOf(l, r) => labels[l][p + 1] < labels[l][r + 1]
<1>1. l \in Levels /\ l < height /\ LoudsInv /\ FirstInv
  BY LevelIs DEF DenseInv, SortedInv
<1>2. \A q \in Items(l) : NodeOf(l, q) \in 0 .. node_counts[l] - 1 /\ NodeOf(l, q) = NodeNum(l, q)
  BY <1>1, NodesNumbered DEF Items
<1>3. p \in Nat /\ r \in Nat /\ p \in Int /\ r \in Int
  BY DEF Items
<1>4. NodeOf(l, p) <= NodeOf(l, r)
  <2>1. GetNumItems(l) \in Nat /\ louds_bits[l] \in SUBSET (0 .. GetNumItems(l) - 1)
    BY LevelIs DEF Items
  <2>2. p + 1 \in Int /\ r + 1 \in Int /\ p + 1 <= r + 1
    BY <1>3
  <2>3. /\ Cardinality(Below(louds_bits[l], p + 1)) <= Cardinality(Below(louds_bits[l], r + 1))
        /\ Cardinality(Below(louds_bits[l], p + 1)) \in Nat
        /\ Cardinality(Below(louds_bits[l], r + 1)) \in Nat
    BY <2>1, <2>2, CountsGrow
  <2>4. \A q \in Int : UpTo(louds_bits[l], q) = Below(louds_bits[l], q + 1)
    <3>1. \A q \in Int : q <= q
      OBVIOUS
    <3>2. QED
      BY <2>1, <3>1, CountsGrow
  <2>5. \A q : NodeOf(l, q) = Cardinality(UpTo(louds_bits[l], q)) - 1
    BY Zenon DEF NodeOf, UpTo
  <2>6. QED
    BY <1>3, <2>3, <2>4, <2>5
<1>5. ASSUME NodeOf(l, p) = NodeOf(l, r)
      PROVE  labels[l][p + 1] < labels[l][r + 1]
  <2>1. SameNode(l, p + 1, r + 1)
    BY <1>1, <1>2, <1>3, <1>5, SameNumberSameNode
  <2>2. Ascending(l)
    BY <1>1 DEF DenseInv, SortedInv
  <2>3. p + 1 \in 1 .. GetNumItems(l) /\ r + 1 \in 1 .. GetNumItems(l) /\ p + 1 < r + 1
    BY LevelIs DEF Items
  <2>4. QED
    BY <2>1, <2>2, <2>3 DEF Ascending
<1>6. QED
  BY <1>2, <1>4, <1>5

(* The items of a level are in the order of their paths. *)
LEMMA PathsInOrder ==
  DenseInv => \A l \in 0 .. height - 1 : \A p, r \in Items(l) :
                p < r => Before(PathTo(l, p), PathTo(l, r))
<1> SUFFICES ASSUME DenseInv
             PROVE  \A l \in 0 .. height - 1 : \A p, r \in Items(l) :
                      p < r => Before(PathTo(l, p), PathTo(l, r))
  OBVIOUS
<1> DEFINE Ordered(l) == \A p, r \in Items(l) : p < r => Before(PathTo(l, p), PathTo(l, r))
           O == {l \in Nat : l < height => Ordered(l)}
<1>1. height \in Nat
  BY DEF DenseInv, SortedInv, LoudsInv, TypeInv, TypeOK
<1>2. 0 \in O
  <2> SUFFICES ASSUME 0 < height, NEW p \in Items(0), NEW r \in Items(0), p < r
               PROVE  Before(PathTo(0, p), PathTo(0, r))
    OBVIOUS
  <2>1. 0 \in 0 .. height - 1
    BY <1>1
  <2>2. PathTo(0, p) = <<labels[0][p + 1]>> /\ PathTo(0, r) = <<labels[0][r + 1]>>
    BY RootPath
  <2>3. /\ NodeOf(0, p) \in 0 .. node_counts[0] - 1 /\ NodeOf(0, p) <= NodeOf(0, r)
        /\ NodeOf(0, p) = NodeOf(0, r) => labels[0][p + 1] < labels[0][r + 1]
        /\ node_counts[0] = 1
    BY <2>1, NodesInOrder, LevelIs
  <2>4. NodeOf(0, r) \in 0 .. node_counts[0] - 1
    <3>1. NodeNum(0, r) \in 0 .. node_counts[0] - 1 /\ NodeOf(0, r) = NodeNum(0, r)
      BY <2>1, LevelIs, NodesNumbered DEF Items, DenseInv, SortedInv
    <3>2. QED
      BY <3>1
  <2>5. labels[0][p + 1] < labels[0][r + 1]
    BY <2>3, <2>4
  <2>6. QED
    BY <2>2, <2>5 DEF Before
<1>3. ASSUME NEW m \in Nat, m \in O
      PROVE  m + 1 \in O
  <2> SUFFICES ASSUME m + 1 < height, NEW p \in Items(m + 1), NEW r \in Items(m + 1), p < r
               PROVE  Before(PathTo(m + 1, p), PathTo(m + 1, r))
    OBVIOUS
  <2> DEFINE l == m + 1
             C == child_indicator_bits[m]
  <2>1. l \in 1 .. height - 1 /\ l - 1 = m /\ l \in 0 .. height - 1 /\ m \in 0 .. height - 1
    BY <1>1
  <2>2. PICK q \in C : /\ Cardinality(Below(C, q)) = NodeOf(l, p)
                       /\ PathTo(l, p) = Append(PathTo(m, q), labels[l][p + 1])
    BY <2>1, PathStep
  <2>3. PICK s \in C : /\ Cardinality(Below(C, s)) = NodeOf(l, r)
                       /\ PathTo(l, r) = Append(PathTo(m, s), labels[l][r + 1])
    BY <2>1, PathStep
  <2>4. /\ NodeOf(l, p) <= NodeOf(l, r)
        /\ NodeOf(l, p) = NodeOf(l, r) => labels[l][p + 1] < labels[l][r + 1]
    BY <2>1, NodesInOrder
  <2>5. /\ C \in SUBSET Items(m) /\ GetNumItems(m) \in Nat
        /\ labels[l][p + 1] \in Label /\ labels[l][r + 1] \in Label
    BY <2>1, LevelIs
  <2>6. q \in Items(m) /\ s \in Items(m) /\ q \in Int /\ s \in Int
    BY <2>5 DEF Items
  <2>7. /\ PathTo(m, q) \in Seq(Label) /\ PathTo(m, s) \in Seq(Label)
        /\ Len(PathTo(m, q)) = Len(PathTo(m, s))
    BY <2>1, <2>6, PathIsSeq
  <2>8. q <= s
    <3>1. ASSUME s < q
          PROVE  FALSE
      <4>1. Cardinality(Below(C, s)) < Cardinality(Below(C, q))
            /\ Cardinality(Below(C, s)) \in Nat /\ Cardinality(Below(C, q)) \in Nat
        <5>1. C \in SUBSET (0 .. GetNumItems(m) - 1) /\ s <= q
          BY <2>5, <2>6, <3>1 DEF Items
        <5>2. QED
          BY <2>5, <2>6, <3>1, <5>1, CountsGrow
      <4>2. QED
        BY <2>2, <2>3, <2>4, <4>1
    <3>2. QED
      BY <2>6, <3>1
  <2>9. CASE q = s
    <3>1. labels[l][p + 1] < labels[l][r + 1]
      BY <2>2, <2>3, <2>4, <2>9
    <3>2. QED
      BY <2>2, <2>3, <2>5, <2>7, <2>9, <3>1, BeforeAppend
  <2>10. CASE q < s
    <3>1. Before(PathTo(m, q), PathTo(m, s))
      <4>1. Ordered(m)
        <5>1. m < height
          BY <1>1, <2>1
        <5> HIDE DEF Ordered
        <5>2. QED
          BY <1>3, <5>1
      <4>2. QED
        BY <2>6, <2>10, <4>1
    <3>2. QED
      BY <2>2, <2>3, <2>5, <2>7, <3>1, BeforeAppend
  <2>11. QED
    BY <2>6, <2>8, <2>9, <2>10
<1> HIDE DEF O
<1>4. \A l \in Nat : l \in O
  BY <1>2, <1>3, NatInduct
<1>5. QED
  BY <1>1, <1>4 DEF O

(* Different items have different paths. *)
LEMMA PathsDiffer ==
  ASSUME DenseInv, NEW l \in 0 .. height - 1, NEW p \in Items(l), NEW r \in Items(l),
         PathTo(l, p) = PathTo(l, r)
  PROVE  p = r
<1>1. \A q \in Items(l) : PathTo(l, q) \in Seq(Label) /\ Len(PathTo(l, q)) = l + 1
  BY PathIsSeq
<1>2. \A q, s \in Items(l) : q < s => PathTo(l, q) # PathTo(l, s)
  BY <1>1, PathsInOrder, BeforeIsOrder
<1>3. p \in Int /\ r \in Int
  BY DEF Items
<1>4. QED
  BY <1>2, <1>3

-------------------------------------------------------------------------------
(* Nodes *)

(* A path leads to the k-th node of a level. *)
At(path, l, k) ==
  IF l = 0 THEN path = << >> /\ k = 0
  ELSE \E q \in child_indicator_bits[l - 1] :
         /\ Cardinality(Below(child_indicator_bits[l - 1], q)) = k
         /\ path = PathTo(l - 1, q)

(* The child bits one level up, one for each node. *)
LEMMA BitsAbove ==
  ASSUME DenseInv, NEW l \in 1 .. height - 1
  PROVE  LET C == child_indicator_bits[l - 1]
         IN  /\ l - 1 \in 0 .. height - 1 /\ GetNumItems(l - 1) \in Nat
             /\ C \in SUBSET (0 .. GetNumItems(l - 1) - 1) /\ C \in SUBSET Items(l - 1)
             /\ Cardinality(C) = node_counts[l] /\ node_counts[l] \in Nat
             /\ Below(C, GetNumItems(l - 1)) = C
<1>1. l - 1 \in 0 .. height - 1 /\ l \in 0 .. height - 1
  BY LevelIs DEF DenseInv, SortedInv, LoudsInv, TypeInv, TypeOK
<1> DEFINE C == child_indicator_bits[l - 1]
           n == GetNumItems(l - 1)
<1>2. n \in Nat /\ C \in SUBSET (0 .. n - 1) /\ C \in SUBSET Items(l - 1)
  BY <1>1, LevelIs DEF Items
<1>3. Cardinality(C) = node_counts[l] /\ node_counts[l] \in Nat
  <2>1. (l - 1) + 1 = l /\ l < height
    BY <1>1, LevelIs
  <2>2. QED
    BY <1>1, <2>1, LevelIs
<1>4. Below(C, n) = C
  <2>1. \A x \in C : x < n
    BY <1>2
  <2>2. QED
    BY <2>1, Zenon DEF Below
<1>5. QED
  BY <1>1, <1>2, <1>3, <1>4

(* The path to a node has as many labels as there are levels above it. *)
LEMMA AtIs ==
  ASSUME DenseInv, NEW l \in 0 .. height - 1, NEW k, NEW path, At(path, l, k)
  PROVE  path \in Seq(Label) /\ Len(path) = l /\ k \in 0 .. node_counts[l] - 1
<1>1. CASE l = 0
  <2>1. path = << >> /\ k = 0 /\ node_counts[l] = 1
    BY <1>1, LevelIs DEF At
  <2>2. QED
    BY <1>1, <2>1
<1>2. CASE l # 0
  <2>1. l \in 1 .. height - 1
    BY <1>2
  <2> DEFINE C == child_indicator_bits[l - 1]
             n == GetNumItems(l - 1)
  <2>2. PICK q \in C : Cardinality(Below(C, q)) = k /\ path = PathTo(l - 1, q)
    BY <1>2 DEF At
  <2>3. /\ l - 1 \in 0 .. height - 1 /\ n \in Nat
        /\ C \in SUBSET (0 .. n - 1) /\ C \in SUBSET Items(l - 1)
        /\ Cardinality(C) = node_counts[l] /\ node_counts[l] \in Nat
        /\ Below(C, n) = C
    BY <2>1, BitsAbove
  <2>4. path \in Seq(Label) /\ Len(path) = (l - 1) + 1
    BY <2>2, <2>3, PathIsSeq
  <2>5. q \in Int /\ n \in Int /\ q < n /\ q <= n
    BY <2>3
  <2>6. Cardinality(Below(C, q)) \in Nat /\ Cardinality(Below(C, q)) < Cardinality(Below(C, n))
    BY <2>3, <2>5, CountsGrow
  <2>7. QED
    BY <2>2, <2>3, <2>4, <2>6
<1>3. QED
  BY <1>1, <1>2

(* Every node has a path, and only one; paths are in the order of the nodes. *)
LEMMA AtExists ==
  ASSUME DenseInv, NEW l \in 0 .. height - 1, NEW k \in 0 .. node_counts[l] - 1
  PROVE  \E path : At(path, l, k)
<1>1. CASE l = 0
  <2>1. k = 0
    BY <1>1, LevelIs
  <2>2. QED
    BY <1>1, <2>1 DEF At
<1>2. CASE l # 0
  <2>1. l \in 1 .. height - 1
    BY <1>2
  <2> DEFINE C == child_indicator_bits[l - 1]
             n == GetNumItems(l - 1)
  <2>2. n \in Nat /\ C \in SUBSET (0 .. n - 1) /\ k \in 0 .. Cardinality(C) - 1
    BY <2>1, BitsAbove
  <2> HIDE DEF C, n
  <2>3. PICK q \in C : Cardinality(Below(C, q)) = k
    BY <2>2, BelowExists
  <2>4. At(PathTo(l - 1, q), l, k)
    BY <1>2, <2>3 DEF At, C
  <2>5. QED
    BY <2>4
<1>3. QED
  BY <1>1, <1>2

(* The nodes of a level are in the order of their paths. *)
LEMMA AtOrder ==
  ASSUME DenseInv, NEW l \in 0 .. height - 1, NEW j, NEW k, NEW a, NEW b,
         At(a, l, j), At(b, l, k)
  PROVE  /\ j = k => a = b
         /\ j < k => Before(a, b)
         /\ a = b => j = k
<1>1. CASE l = 0
  BY <1>1 DEF At
<1>2. CASE l # 0
  <2>1. l \in 1 .. height - 1
    BY <1>2
  <2> DEFINE C == child_indicator_bits[l - 1]
             n == GetNumItems(l - 1)
  <2>2. PICK q \in C : Cardinality(Below(C, q)) = j /\ a = PathTo(l - 1, q)
    BY <1>2 DEF At
  <2>3. PICK r \in C : Cardinality(Below(C, r)) = k /\ b = PathTo(l - 1, r)
    BY <1>2 DEF At
  <2>4. /\ l - 1 \in 0 .. height - 1 /\ n \in Nat
        /\ C \in SUBSET (0 .. n - 1) /\ C \in SUBSET Items(l - 1)
    BY <2>1, BitsAbove
  <2>5. q \in Int /\ r \in Int /\ q \in Items(l - 1) /\ r \in Items(l - 1)
    BY <2>4
  <2>6. j = k => q = r
    <3> HIDE DEF C, n
    <3>1. QED
      BY <2>2, <2>3, <2>4, BelowTells
  <2>7. r <= q => Cardinality(Below(C, r)) <= Cardinality(Below(C, q))
    BY <2>4, <2>5, CountsGrow
  <2>8. Cardinality(Below(C, r)) \in Nat /\ Cardinality(Below(C, q)) \in Nat
    <3>1. r <= r /\ q <= q
      BY <2>5
    <3>2. QED
      BY <2>4, <2>5, <3>1, CountsGrow
  <2>9. j < k => q < r
    BY <2>2, <2>3, <2>5, <2>7, <2>8
  <2>10. q < r => Before(a, b)
    BY <2>2, <2>3, <2>4, <2>5, PathsInOrder
  <2>11. a = b => q = r
    BY <2>2, <2>3, <2>4, <2>5, PathsDiffer
  <2>12. QED
    BY <2>2, <2>3, <2>6, <2>9, <2>10, <2>11
<1>3. QED
  BY <1>1, <1>2

(* The items of a node continue its path. *)
LEMMA AtItem ==
  ASSUME DenseInv, NEW l \in 0 .. height - 1, NEW p \in Items(l), NEW path,
         At(path, l, NodeOf(l, p))
  PROVE  /\ PathTo(l, p) = Append(path, labels[l][p + 1])
         /\ p \in child_indicator_bits[l] =>
              /\ l + 1 \in 0 .. height - 1
              /\ At(PathTo(l, p), l + 1, Cardinality(Below(child_indicator_bits[l], p)))
<1>1. PathTo(l, p) = Append(path, labels[l][p + 1])
  <2>1. CASE l = 0
    <3>1. path = << >> /\ PathTo(0, p) = <<labels[0][p + 1]>> /\ labels[0][p + 1] \in Label
      <4>1. 0 < height
        BY <2>1, LevelIs
      <4>2. QED
        BY <2>1, <4>1, RootPath, LevelIs DEF At
    <3>2. QED
      BY <2>1, <3>1
  <2>2. CASE l # 0
    <3>1. l \in 1 .. height - 1
      BY <2>2
    <3>2. PICK q \in child_indicator_bits[l - 1] :
            /\ Cardinality(Below(child_indicator_bits[l - 1], q)) = NodeOf(l, p)
            /\ PathTo(l, p) = Append(PathTo(l - 1, q), labels[l][p + 1])
      BY <3>1, PathStep
    <3>3. At(PathTo(l - 1, q), l, NodeOf(l, p))
      BY <2>2, <3>2 DEF At
    <3>4. PathTo(l - 1, q) = path
      BY <3>3, AtOrder
    <3>5. QED
      BY <3>2, <3>4
  <2>3. QED
    BY <2>1, <2>2
<1>2. ASSUME p \in child_indicator_bits[l]
      PROVE  /\ l + 1 \in 0 .. height - 1
             /\ At(PathTo(l, p), l + 1, Cardinality(Below(child_indicator_bits[l], p)))
  <2>1. l \in Nat /\ height \in Nat /\ l + 1 < height
    BY <1>2, LevelIs
  <2>2. l + 1 # 0 /\ (l + 1) - 1 = l
    BY <2>1
  <2>3. At(PathTo(l, p), l + 1, Cardinality(Below(child_indicator_bits[l], p)))
    BY <1>2, <2>2 DEF At
  <2>4. QED
    BY <2>1, <2>3
<1>3. QED
  BY <1>1, <1>2

(* The first item of a node. *)
LEMMA NodeStarts ==
  ASSUME DenseInv, NEW l \in 0 .. height - 1, NEW k \in 0 .. node_counts[l] - 1
  PROVE  \E r \in louds_bits[l] :
           r \in Items(l) /\ Cardinality(Below(louds_bits[l], r)) = k /\ NodeOf(l, r) = k
<1> DEFINE S == louds_bits[l]
           n == GetNumItems(l)
<1>1. n \in Nat /\ S \in SUBSET (0 .. n - 1) /\ k \in 0 .. Cardinality(S) - 1
  BY LevelIs DEF Items
<1>2. \A q : NodeOf(l, q) = Cardinality(UpTo(S, q)) - 1
  BY Zenon DEF NodeOf, UpTo
<1> HIDE DEF S, n
<1>3. PICK r \in S : Cardinality(Below(S, r)) = k
  BY <1>1, BelowExists
<1>4. r \in Int /\ r <= r
  BY <1>1, <1>3
<1>5. UpTo(S, r) = Below(S, r + 1) /\ Cardinality(Below(S, r + 1)) = Cardinality(Below(S, r)) + 1
  BY <1>1, <1>3, <1>4, CountsGrow
<1>6. NodeOf(l, r) = k
  BY <1>1, <1>2, <1>3, <1>5
<1>7. QED
  BY <1>1, <1>3, <1>6 DEF S, n, Items

(* Every item belongs to a node, which has a path. *)
LEMMA NodeIs ==
  ASSUME DenseInv, NEW l \in 0 .. height - 1, NEW p \in Items(l)
  PROVE  /\ NodeOf(l, p) \in 0 .. node_counts[l] - 1
         /\ \E path : At(path, l, NodeOf(l, p))
<1>1. NodeOf(l, p) \in 0 .. node_counts[l] - 1
  <2>1. l \in Levels /\ l < height /\ LoudsInv /\ FirstInv
    BY LevelIs DEF DenseInv, SortedInv
  <2>2. QED
    BY <2>1, NodesNumbered DEF Items
<1>2. QED
  BY <1>1, AtExists

(* Below every item there is a leaf. *)
HasLeaf(l, p) ==
  \E m \in l .. height - 1 : \E r \in Leaves(m) : SubSeq(PathTo(m, r), 1, l + 1) = PathTo(l, p)

(* The leaves are the items without a child. *)
LEMMA LeafIsItem ==
  ASSUME DenseInv, NEW l \in 0 .. height - 1
  PROVE  \A p : p \in Leaves(l) <=> p \in Items(l) /\ p \notin child_indicator_bits[l]
  BY DEF Leaves, Items

(* The deepest items are leaves, so there is. *)
LEMMA LeafBelow ==
  DenseInv => \A l \in 0 .. height - 1 : \A p \in Items(l) : HasLeaf(l, p)
<1> SUFFICES ASSUME DenseInv
             PROVE  \A l \in 0 .. height - 1 : \A p \in Items(l) : HasLeaf(l, p)
  OBVIOUS
<1> DEFINE D == {d \in Nat : \A l \in 0 .. height - 1 :
                               height - 1 - l <= d => \A p \in Items(l) : HasLeaf(l, p)}
<1>1. height \in Nat
  BY DEF DenseInv, SortedInv, LoudsInv, TypeInv, TypeOK
<1>2. ASSUME NEW l \in 0 .. height - 1, NEW p \in Items(l), p \notin child_indicator_bits[l]
      PROVE  HasLeaf(l, p)
  <2>1. p \in Leaves(l) /\ l \in l .. height - 1
    BY <1>1, <1>2, LeafIsItem
  <2>2. PathTo(l, p) \in Seq(Label) /\ Len(PathTo(l, p)) = l + 1
    BY PathIsSeq
  <2>3. SubSeq(PathTo(l, p), 1, l + 1) = PathTo(l, p)
    <3> DEFINE a == PathTo(l, p)
    <3> HIDE DEF a
    <3>1. a \in Seq(Label) => SubSeq(a, 1, Len(a)) = a
      OBVIOUS
    <3>2. QED
      BY <2>2, <3>1 DEF a
  <2>4. QED
    BY <2>1, <2>3 DEF HasLeaf
<1>3. 0 \in D
  <2> SUFFICES ASSUME NEW l \in 0 .. height - 1, height - 1 - l <= 0, NEW p \in Items(l)
               PROVE  HasLeaf(l, p)
    OBVIOUS
  <2>1. l + 1 >= height
    BY <1>1
  <2>2. child_indicator_bits[l] = {}
    BY <2>1, LevelIs
  <2>3. QED
    BY <1>2, <2>2
<1>4. ASSUME NEW d \in Nat, d \in D
      PROVE  d + 1 \in D
  <2> SUFFICES ASSUME NEW l \in 0 .. height - 1, height - 1 - l <= d + 1, NEW p \in Items(l),
                      p \in child_indicator_bits[l]
               PROVE  HasLeaf(l, p)
    BY <1>2
  <2> DEFINE k == Cardinality(Below(child_indicator_bits[l], p))
  <2>1. PICK path : At(path, l, NodeOf(l, p))
    BY NodeIs
  <2>2. l + 1 \in 0 .. height - 1 /\ At(PathTo(l, p), l + 1, k)
    BY <2>1, AtItem
  <2>3. k \in 0 .. node_counts[l + 1] - 1
    BY <2>2, AtIs
  <2>4. PICK r \in louds_bits[l + 1] : r \in Items(l + 1) /\ NodeOf(l + 1, r) = k
    BY <2>2, <2>3, NodeStarts
  <2>5. PathTo(l + 1, r) = Append(PathTo(l, p), labels[l + 1][r + 1])
    BY <2>2, <2>4, AtItem
  <2>6. HasLeaf(l + 1, r)
    <3>1. height - 1 - (l + 1) <= d
      BY <1>1
    <3>2. QED
      BY <1>4, <2>2, <2>4, <3>1
  <2>7. PICK m \in l + 1 .. height - 1 : \E s \in Leaves(m) :
               SubSeq(PathTo(m, s), 1, (l + 1) + 1) = PathTo(l + 1, r)
    BY <2>6 DEF HasLeaf
  <2>8. PICK s \in Leaves(m) : SubSeq(PathTo(m, s), 1, (l + 1) + 1) = PathTo(l + 1, r)
    BY <2>7
  <2>9. m \in 0 .. height - 1 /\ s \in Items(m) /\ m \in Int /\ l \in Nat
    <3>1. m \in 0 .. height - 1
      BY <1>1
    <3>2. QED
      BY <3>1, LeafIsItem
  <2>10. PathTo(m, s) \in Seq(Label) /\ Len(PathTo(m, s)) = m + 1
    BY <2>9, PathIsSeq
  <2>11. PathTo(l, p) \in Seq(Label) /\ Len(PathTo(l, p)) = l + 1
    BY PathIsSeq
  <2>12. labels[l + 1][r + 1] \in Label
    BY <2>2, <2>4, LevelIs
  <2> DEFINE a == PathTo(m, s)
             b == PathTo(l, p)
             c == labels[l + 1][r + 1]
  <2>13. SubSeq(a, 1, l + 1) = b
    <3> HIDE DEF a, b, c
    <3>1. /\ SubSeq(a, 1, (l + 1) + 1) = Append(b, c)
          /\ a \in Seq(Label) /\ Len(a) = m + 1 /\ l + 1 <= m
          /\ b \in Seq(Label) /\ Len(b) = l + 1 /\ c \in Label
      BY <2>5, <2>8, <2>10, <2>11, <2>12 DEF a, b, c
    <3>2. \A i \in 1 .. l + 1 : a[i] = b[i]
      <4>1. \A i \in 1 .. l + 1 : SubSeq(a, 1, (l + 1) + 1)[i] = a[i]
        BY <2>9, <3>1
      <4>2. \A i \in 1 .. l + 1 : Append(b, c)[i] = b[i]
        BY <3>1
      <4>3. QED
        BY <3>1, <4>1, <4>2
    <3>3. /\ SubSeq(a, 1, l + 1) \in Seq(Label) /\ Len(SubSeq(a, 1, l + 1)) = l + 1
          /\ \A i \in 1 .. l + 1 : SubSeq(a, 1, l + 1)[i] = a[i]
      BY <2>9, <3>1
    <3>4. QED
      BY <3>1, <3>2, <3>3
  <2>14. m \in l .. height - 1
    BY <1>1
  <2>15. QED
    BY <2>13, <2>14 DEF HasLeaf
<1> HIDE DEF D
<1>5. \A d \in Nat : d \in D
  BY <1>3, <1>4, NatInduct
<1>6. \A l \in 0 .. height - 1 : height - 1 - l \in Nat /\ height - 1 - l <= height - 1 - l
  BY <1>1
<1>7. QED
  BY <1>5, <1>6 DEF D

-------------------------------------------------------------------------------
(* The numbers of nodes *)

(* A path leads to the node with a number. *)
IsNode(path, n) ==
  \E l \in 0 .. height - 1 : \E k \in 0 .. node_counts[l] - 1 :
    At(path, l, k) /\ n = NodesAbove(l) + k

(* How many nodes are above a level. *)
LEMMA AboveIs ==
  ASSUME DenseInv, NEW l \in 0 .. height - 1
  PROVE  /\ l \in Nat /\ height \in Nat /\ NodesAbove(0) = 0
         /\ NodesAbove(l) \in Nat /\ NodesAbove(l + 1) \in Nat /\ node_counts[l] \in Nat
         /\ NodesAbove(l + 1) = NodesAbove(l) + node_counts[l]
<1>1. l \in Levels /\ l \in Nat /\ height \in Nat /\ TypeInv
  BY LevelIs DEF DenseInv, SortedInv, LoudsInv
<1>2. QED
  BY <1>1, NodesAboveIs

(* A level further down has more nodes above it. *)
LEMMA AboveGrows ==
  ASSUME DenseInv, NEW l \in 0 .. height - 1, NEW m \in l + 1 .. height
  PROVE  NodesAbove(l + 1) <= NodesAbove(m) /\ NodesAbove(m) \in Nat
<1> DEFINE P == {d \in Nat : l + 1 + d <= height =>
                   NodesAbove(l + 1) <= NodesAbove(l + 1 + d) /\ NodesAbove(l + 1 + d) \in Nat}
<1>1. l \in Nat /\ height \in Nat /\ NodesAbove(l + 1) \in Nat
  BY AboveIs
<1>2. 0 \in P
  <2>1. l + 1 + 0 = l + 1
    BY <1>1
  <2>2. QED
    BY <1>1, <2>1
<1>3. ASSUME NEW d \in Nat, d \in P
      PROVE  d + 1 \in P
  <2> SUFFICES ASSUME l + 1 + (d + 1) <= height
               PROVE  /\ NodesAbove(l + 1) <= NodesAbove(l + 1 + (d + 1))
                      /\ NodesAbove(l + 1 + (d + 1)) \in Nat
    OBVIOUS
  <2> DEFINE j == l + 1 + d
  <2>1. j \in 0 .. height - 1 /\ j <= height /\ l + 1 + (d + 1) = j + 1
    BY <1>1
  <2>2. NodesAbove(l + 1) <= NodesAbove(j) /\ NodesAbove(j) \in Nat
    BY <1>3, <2>1
  <2> HIDE DEF j
  <2>3. NodesAbove(j + 1) = NodesAbove(j) + node_counts[j] /\ node_counts[j] \in Nat
    BY <2>1, AboveIs
  <2>4. QED
    BY <1>1, <2>1, <2>2, <2>3
<1> HIDE DEF P
<1>4. \A d \in Nat : d \in P
  BY <1>2, <1>3, NatInduct
<1>5. m - (l + 1) \in Nat /\ l + 1 + (m - (l + 1)) = m /\ m <= height
  BY <1>1
<1>6. m - (l + 1) \in P
  BY <1>4, <1>5
<1>7. QED
  BY <1>5, <1>6 DEF P

(* Every number up to that of the last node is the number of a node. *)
LEMMA EveryNumber ==
  DenseInv => \A m \in 0 .. height : \A n \in 0 .. NodesAbove(m) - 1 :
                \E l \in 0 .. height - 1 : \E k \in 0 .. node_counts[l] - 1 : n = NodesAbove(l) + k
<1> SUFFICES ASSUME DenseInv
             PROVE  \A m \in 0 .. height : \A n \in 0 .. NodesAbove(m) - 1 :
                      \E l \in 0 .. height - 1 : \E k \in 0 .. node_counts[l] - 1 :
                        n = NodesAbove(l) + k
  OBVIOUS
<1> DEFINE Numbered(n) == \E l \in 0 .. height - 1 : \E k \in 0 .. node_counts[l] - 1 :
                            n = NodesAbove(l) + k
           P == {m \in Nat : m <= height => \A n \in 0 .. NodesAbove(m) - 1 : Numbered(n)}
<1>1. height \in Nat /\ NodesAbove(0) = 0
  <2>1. TypeInv /\ height \in Nat
    BY DEF DenseInv, SortedInv, LoudsInv, TypeInv, TypeOK
  <2>2. 0 \in Levels
    BY ConstantsAssumption DEF Levels
  <2>3. QED
    BY <2>1, <2>2, NodesAboveIs
<1>2. 0 \in P
  BY <1>1
<1>3. ASSUME NEW m \in Nat, m \in P
      PROVE  m + 1 \in P
  <2> SUFFICES ASSUME m + 1 <= height, NEW n \in 0 .. NodesAbove(m + 1) - 1
               PROVE  Numbered(n)
    OBVIOUS
  <2>1. m \in 0 .. height - 1 /\ m <= height
    BY <1>1
  <2>2. /\ NodesAbove(m) \in Nat /\ node_counts[m] \in Nat
        /\ NodesAbove(m + 1) = NodesAbove(m) + node_counts[m]
    BY <2>1, AboveIs
  <2>3. CASE n < NodesAbove(m)
    <3>1. n \in 0 .. NodesAbove(m) - 1
      BY <2>2, <2>3
    <3> HIDE DEF Numbered
    <3>2. QED
      BY <1>3, <2>1, <3>1
  <2>4. CASE ~(n < NodesAbove(m))
    <3>1. n - NodesAbove(m) \in 0 .. node_counts[m] - 1 /\ n = NodesAbove(m) + (n - NodesAbove(m))
      BY <2>2, <2>4
    <3>2. QED
      BY <2>1, <3>1
  <2>5. QED
    BY <2>3, <2>4
<1> HIDE DEF P
<1>4. \A m \in Nat : m \in P
  BY <1>2, <1>3, NatInduct
<1>5. QED
  BY <1>1, <1>4 DEF P

(* Nodes are numbered in the order of their paths. *)
LEMMA NodeOrder ==
  ASSUME DenseInv, NEW a, NEW i, NEW b, NEW j, IsNode(a, i), IsNode(b, j)
  PROVE  /\ i \in Nat /\ j \in Nat
         /\ i < j <=> PathBefore(a, b)
         /\ i = j <=> a = b
<1>1. PICK l \in 0 .. height - 1 : \E k \in 0 .. node_counts[l] - 1 :
             At(a, l, k) /\ i = NodesAbove(l) + k
  BY DEF IsNode
<1>2. PICK k \in 0 .. node_counts[l] - 1 : At(a, l, k) /\ i = NodesAbove(l) + k
  BY <1>1
<1>3. PICK m \in 0 .. height - 1 : \E r \in 0 .. node_counts[m] - 1 :
             At(b, m, r) /\ j = NodesAbove(m) + r
  BY DEF IsNode
<1>4. PICK r \in 0 .. node_counts[m] - 1 : At(b, m, r) /\ j = NodesAbove(m) + r
  BY <1>3
<1>5. a \in Seq(Label) /\ Len(a) = l /\ b \in Seq(Label) /\ Len(b) = m
  BY <1>2, <1>4, AtIs
<1>6. /\ l \in Nat /\ m \in Nat /\ height \in Nat
      /\ NodesAbove(l) \in Nat /\ node_counts[l] \in Nat
      /\ NodesAbove(l + 1) = NodesAbove(l) + node_counts[l]
      /\ NodesAbove(m) \in Nat /\ node_counts[m] \in Nat
      /\ NodesAbove(m + 1) = NodesAbove(m) + node_counts[m]
  BY AboveIs
<1>7. i \in Nat /\ j \in Nat /\ i < NodesAbove(l + 1) /\ j < NodesAbove(m + 1)
  BY <1>2, <1>4, <1>6
<1>8. CASE l < m
  <2>1. m \in l + 1 .. height
    BY <1>6, <1>8
  <2>2. NodesAbove(l + 1) <= NodesAbove(m)
    BY <2>1, AboveGrows
  <2>3. i < j
    BY <1>2, <1>4, <1>6, <2>2
  <2>4. PathBefore(a, b) /\ a # b
    BY <1>5, <1>6, <1>8 DEF PathBefore
  <2>5. QED
    BY <1>7, <2>3, <2>4
<1>9. CASE m < l
  <2>1. l \in m + 1 .. height
    BY <1>6, <1>9
  <2>2. NodesAbove(m + 1) <= NodesAbove(l)
    BY <2>1, AboveGrows
  <2>3. j < i
    BY <1>2, <1>4, <1>6, <2>2
  <2>4. ~PathBefore(a, b) /\ a # b
    BY <1>5, <1>6, <1>9 DEF PathBefore
  <2>5. QED
    BY <1>7, <2>3, <2>4
<1>10. CASE l = m
  <2>1. At(b, l, r) /\ r \in 0 .. node_counts[l] - 1 /\ j = NodesAbove(l) + r
    BY <1>4, <1>10
  <2>2. /\ k = r => a = b
        /\ k < r => Before(a, b)
        /\ r < k => Before(b, a)
        /\ a = b => k = r
    <3>1. k = r => a = b
      BY <1>2, <2>1, AtOrder
    <3>2. k < r => Before(a, b)
      BY <1>2, <2>1, AtOrder
    <3>3. r < k => Before(b, a)
      BY <1>2, <2>1, AtOrder
    <3>4. a = b => k = r
      BY <1>2, <2>1, AtOrder
    <3>5. QED
      BY <3>1, <3>2, <3>3, <3>4
  <2>3. /\ Before(a, b) => a # b /\ ~Before(b, a)
        /\ Before(b, a) => a # b /\ ~Before(a, b)
    BY <1>5, <1>10, BeforeIsOrder
  <2>4. PathBefore(a, b) <=> Before(a, b)
    BY <1>5, <1>10, BeforeIs
  <2>5. a = b => ~Before(a, b)
    BY <2>3
  <2>6. k \in Int /\ r \in Int /\ (i < j <=> k < r) /\ (i = j <=> k = r)
    BY <1>2, <1>6, <2>1
  <2>7. QED
    BY <1>7, <2>2, <2>3, <2>4, <2>5, <2>6
<1>11. QED
  BY <1>6, <1>8, <1>9, <1>10

(* The nodes in front of a node are as many as its number says. *)
LEMMA NodesCounted ==
  ASSUME DenseInv, NEW path, NEW n, IsNode(path, n)
  PROVE  Cardinality({q \in {p \in Seq(Label) : \E i : IsNode(p, i)} : PathBefore(q, path)}) = n
<1> DEFINE Nodes == {p \in Seq(Label) : \E i : IsNode(p, i)}
           Lower == {q \in Nodes : PathBefore(q, path)}
           f == [i \in 0 .. n - 1 |-> CHOOSE q : IsNode(q, i)]
<1>1. n \in Nat
  BY NodeOrder
<1>2. ASSUME NEW i \in 0 .. n - 1
      PROVE  \E q : IsNode(q, i)
  <2>1. PICK l \in 0 .. height - 1 : \E k \in 0 .. node_counts[l] - 1 : n = NodesAbove(l) + k
    BY DEF IsNode
  <2>2. /\ l \in Nat /\ height \in Nat /\ NodesAbove(l) \in Nat /\ node_counts[l] \in Nat
        /\ NodesAbove(l + 1) = NodesAbove(l) + node_counts[l]
    BY AboveIs
  <2>3. i \in 0 .. NodesAbove(l + 1) - 1 /\ l + 1 \in 0 .. height
    BY <1>1, <2>1, <2>2
  <2>4. PICK m \in 0 .. height - 1 : \E k \in 0 .. node_counts[m] - 1 : i = NodesAbove(m) + k
    BY <2>3, EveryNumber
  <2>5. PICK k \in 0 .. node_counts[m] - 1 : i = NodesAbove(m) + k
    BY <2>4
  <2>6. PICK q : At(q, m, k)
    BY AtExists
  <2>7. QED
    BY <2>5, <2>6 DEF IsNode
<1>3. \A i \in 0 .. n - 1 : IsNode(f[i], i)
  BY <1>2
<1>4. \A q, i : IsNode(q, i) => q \in Seq(Label)
  BY AtIs DEF IsNode
<1> HIDE DEF f
<1>5. \A i \in 0 .. n - 1 : f[i] \in Lower
  <2> TAKE i \in 0 .. n - 1
  <2>1. f[i] \in Nodes
    BY <1>3, <1>4
  <2>2. i < n
    BY <1>1
  <2>3. PathBefore(f[i], path)
    BY <1>3, <2>2, NodeOrder
  <2>4. QED
    BY <2>1, <2>3
<1>6. \A i, j \in 0 .. n - 1 : f[i] = f[j] => i = j
  BY <1>3, NodeOrder
<1>7. \A q \in Lower : \E i \in 0 .. n - 1 : f[i] = q
  <2> TAKE q \in Lower
  <2>1. PICK i : IsNode(q, i)
    OBVIOUS
  <2>2. i \in Nat /\ i < n
    BY <2>1, NodeOrder
  <2>3. i \in 0 .. n - 1
    BY <1>1, <2>2
  <2>4. f[i] = q
    BY <1>3, <2>1, <2>3, NodeOrder
  <2>5. QED
    BY <2>3, <2>4
<1>8. f \in [0 .. n - 1 -> Lower]
  BY <1>5 DEF f
<1> HIDE DEF Lower
<1>9. f \in Bijection(0 .. n - 1, Lower)
  BY <1>6, <1>7, <1>8, Fun_IsBij
<1>10. ExistsBijection(0 .. n - 1, Lower)
  BY <1>9 DEF ExistsBijection
<1>11. IsFiniteSet(0 .. n - 1) /\ Cardinality(0 .. n - 1) = n
  <2>1. 0 \in Int /\ n - 1 \in Int
    BY <1>1
  <2>2. /\ IsFiniteSet(0 .. n - 1)
        /\ Cardinality(0 .. n - 1) = IF 0 > n - 1 THEN 0 ELSE (n - 1) - 0 + 1
    BY <2>1, FS_Interval
  <2>3. QED
    BY <1>1, <2>2
<1>12. Cardinality(Lower) = n
  BY <1>10, <1>11, FS_Bijection
<1>13. QED
  BY <1>12 DEF Lower

-------------------------------------------------------------------------------
(* Nodes and entries *)

(* The place of a leaf among the leaves of its level, and its entry. *)
LeafRank(l, p) == Cardinality({q \in Leaves(l) : q <= p})
LeafEntry(l, p) == <<PathTo(l, p), ValuesOf(l)[LeafRank(l, p)]>>

(* Every leaf has its value. *)
AllValued == \A l \in 0 .. height - 1 : Len(ValuesOf(l)) = Cardinality(Leaves(l))

(* The vectors hold the entries of the abstract trie, and nothing else. *)
Complete == DenseInv /\ AllValued /\ entries = Abs!AllEntries

(* Before an item of a level, or up to it, there are as many leaves as there
   are items without a child bit. *)
LEMMA LeafRankIs ==
  ASSUME DenseInv, NEW l \in 0 .. height - 1, NEW p \in Leaves(l)
  PROVE  /\ LeafRank(l, p) \in 1 .. Cardinality(Leaves(l))
         /\ Cardinality(Leaves(l)) \in Nat
<1> DEFINE n == GetNumItems(l)
           C == child_indicator_bits[l]
<1>1. n \in Nat /\ C \in SUBSET (0 .. n - 1) /\ Leaves(l) = (0 .. n - 1) \ C
  BY LevelIs DEF Items, Leaves
<1>2. LeavesCount(n, C, Leaves(l))
  BY <1>1, LeafCounts
<1>3. QED
  BY <1>2 DEF LeavesCount, LeafRank

(* The entries are those of the leaves. *)
LEMMA EntriesAreLeaves ==
  ASSUME DenseInv, AllValued
  PROVE  \A e : e \in entries <=>
           \E l \in 0 .. height - 1 : \E p \in Leaves(l) : e = LeafEntry(l, p)
<1>1. ASSUME NEW l \in 0 .. height - 1, NEW p
      PROVE  p \in Leaves(l) /\ LeafRank(l, p) <= Len(ValuesOf(l)) <=> p \in Leaves(l)
  <2>1. Len(ValuesOf(l)) = Cardinality(Leaves(l))
    BY DEF AllValued
  <2>2. p \in Leaves(l) => LeafRank(l, p) <= Cardinality(Leaves(l))
    BY LeafRankIs
  <2>3. QED
    BY <2>1, <2>2
<1> DEFINE G(l) == {LeafEntry(l, p) : p \in {q \in Leaves(l) :
                                            LeafRank(l, q) <= Len(ValuesOf(l))}}
<1>2. entries = UNION {G(l) : l \in 0 .. height - 1}
  BY DEF entries, LeafEntry, LeafRank
<1>3. \A e : e \in entries <=>
        \E l \in 0 .. height - 1 : \E p : /\ p \in Leaves(l) /\ LeafRank(l, p) <= Len(ValuesOf(l))
                                          /\ e = LeafEntry(l, p)
  <2>1. \A l, e : e \in G(l) <=>
          \E p : /\ p \in Leaves(l) /\ LeafRank(l, p) <= Len(ValuesOf(l)) /\ e = LeafEntry(l, p)
    BY Zenon
  <2> HIDE DEF G
  <2>2. \A e : e \in entries <=> \E l \in 0 .. height - 1 : e \in G(l)
    BY <1>2, Zenon
  <2>3. QED
    BY <2>1, <2>2
<1>4. QED
  BY <1>1, <1>3, Zenon

(* A prefix of a path along a trail is a path along it. *)
LEMMA PrefixOfPath ==
  ASSUME DenseInv, NEW l \in 0 .. height - 1, NEW p \in Items(l), NEW n \in 0 .. l
  PROVE  /\ SubSeq(PathTo(l, p), 1, n) \in Seq(Label) /\ Len(SubSeq(PathTo(l, p), 1, n)) = n
         /\ \E k \in 0 .. node_counts[n] - 1 : At(SubSeq(PathTo(l, p), 1, n), n, k)
<1> DEFINE a == PathTo(l, p)
<1>1. PICK pos : pos[l] = p /\ Leads(pos, l)
  BY WayExists
<1>2. l \in Nat /\ height \in Nat /\ n \in 0 .. height - 1 /\ n \in Nat
  BY LevelIs
<1>3. a \in Seq(Label) /\ Len(a) = l + 1
  BY PathIsSeq
<1>4. /\ SubSeq(a, 1, n) \in Seq(Label) /\ Len(SubSeq(a, 1, n)) = n
      /\ \A i \in 1 .. n : SubSeq(a, 1, n)[i] = a[i]
  <2> HIDE DEF a
  <2>1. QED
    BY <1>2, <1>3
<1>5. \E k : At(SubSeq(a, 1, n), n, k)
  <2>1. CASE n = 0
    <3>1. SubSeq(a, 1, n) = << >>
      BY <1>4, <2>1
    <3>2. QED
      BY <2>1, <3>1 DEF At
  <2>2. CASE n # 0
    <3> DEFINE m == n - 1
               q == pos[m]
    <3>1. m \in 0 .. l /\ m \in 0 .. l - 1 /\ m \in 0 .. height - 1 /\ m + 1 = n
      BY <1>2, <2>2
    <3>2. /\ q \in child_indicator_bits[m] /\ q \in Items(m)
          /\ PathTo(m, q) = Along(pos, m)
      BY <1>1, <3>1 DEF Leads
    <3>3. a = Along(pos, l)
      BY <1>1, <1>2 DEF Leads
    <3>4. PathTo(m, q) \in Seq(Label) /\ Len(PathTo(m, q)) = n
      BY <3>1, <3>2, PathIsSeq
    <3>5. \A i \in 1 .. n : PathTo(m, q)[i] = a[i]
      BY <1>2, <3>1, <3>2, <3>3 DEF Along
    <3>6. PathTo(m, q) = SubSeq(a, 1, n)
      <4> DEFINE b == PathTo(m, q)
                 c == SubSeq(a, 1, n)
      <4>1. /\ b \in Seq(Label) /\ Len(b) = n /\ c \in Seq(Label) /\ Len(c) = n
            /\ \A i \in 1 .. n : b[i] = c[i]
        BY <1>4, <3>4, <3>5
      <4> HIDE DEF b, c
      <4>2. b = c
        BY <4>1
      <4>3. QED
        BY <4>2 DEF b, c
    <3>7. QED
      BY <2>2, <3>2, <3>6 DEF At
  <2>3. QED
    BY <2>1, <2>2
<1>6. QED
  BY <1>2, <1>4, <1>5, AtIs

(* The paths that lead to a node are the proper prefixes of the entries. *)
LEMMA PathsAreNodes ==
  ASSUME Complete
  PROVE  \A path : path \in InnerPaths <=> \E n : IsNode(path, n)
<1>1. DenseInv /\ AllValued /\ Entries = entries
  BY DEF Complete, Entries
<1>2. \A e : e \in Entries <=>
        \E l \in 0 .. height - 1 : \E p \in Leaves(l) : e = LeafEntry(l, p)
  BY <1>1, EntriesAreLeaves
<1>3. \A path : path \in InnerPaths <=>
        \E e \in Entries : \E n \in 0 .. Len(e[1]) - 1 : path = SubSeq(e[1], 1, n)
  <2> DEFINE G(e) == {SubSeq(e[1], 1, n) : n \in 0 .. Len(e[1]) - 1}
  <2>1. InnerPaths = UNION {G(e) : e \in Entries}
    BY DEF InnerPaths, Entries
  <2>2. \A e, path : path \in G(e) <=> \E n \in 0 .. Len(e[1]) - 1 : path = SubSeq(e[1], 1, n)
    BY Zenon
  <2> HIDE DEF G
  <2>3. \A path : path \in InnerPaths <=> \E e \in Entries : path \in G(e)
    BY <2>1, Zenon
  <2>4. QED
    BY <2>2, <2>3
<1>4. ASSUME NEW path, NEW e \in Entries, NEW n \in 0 .. Len(e[1]) - 1, path = SubSeq(e[1], 1, n)
      PROVE  \E i : IsNode(path, i)
  <2>1. PICK l \in 0 .. height - 1 : \E p \in Leaves(l) : e = LeafEntry(l, p)
    BY <1>2
  <2>2. PICK p \in Leaves(l) : e = LeafEntry(l, p)
    BY <2>1
  <2>3. p \in Items(l) /\ e[1] = PathTo(l, p)
    BY <1>1, <2>2, LeafIsItem DEF LeafEntry
  <2>4. Len(e[1]) = l + 1 /\ l \in Nat /\ height \in Nat
    BY <1>1, <2>3, PathIsSeq, LevelIs
  <2>5. n \in 0 .. l /\ n \in 0 .. height - 1
    BY <2>4
  <2>6. PICK k \in 0 .. node_counts[n] - 1 : At(path, n, k)
    BY <1>1, <1>4, <2>3, <2>5, PrefixOfPath
  <2>7. IsNode(path, NodesAbove(n) + k)
    BY <2>5, <2>6 DEF IsNode
  <2>8. QED
    BY <2>7
<1>5. ASSUME NEW path, NEW i, IsNode(path, i)
      PROVE  path \in InnerPaths
  <2>1. PICK l \in 0 .. height - 1 : \E k \in 0 .. node_counts[l] - 1 : At(path, l, k)
    BY <1>5 DEF IsNode
  <2>2. PICK k \in 0 .. node_counts[l] - 1 : At(path, l, k)
    BY <2>1
  <2>3. PICK r \in louds_bits[l] : r \in Items(l) /\ NodeOf(l, r) = k
    BY <1>1, NodeStarts
  <2>4. PathTo(l, r) = Append(path, labels[l][r + 1])
    BY <1>1, <2>2, <2>3, AtItem
  <2>5. PICK m \in l .. height - 1 : \E s \in Leaves(m) :
               SubSeq(PathTo(m, s), 1, l + 1) = PathTo(l, r)
    BY <1>1, <2>3, LeafBelow DEF HasLeaf
  <2>6. PICK s \in Leaves(m) : SubSeq(PathTo(m, s), 1, l + 1) = PathTo(l, r)
    BY <2>5
  <2>7. l \in Nat /\ height \in Nat /\ m \in 0 .. height - 1 /\ m \in Nat /\ l <= m
    <3>1. l \in Nat /\ height \in Nat
      BY <1>1, LevelIs
    <3>2. QED
      BY <3>1
  <2>8. s \in Items(m)
    BY <1>1, <2>6, <2>7, LeafIsItem
  <2> DEFINE a == PathTo(m, s)
             c == labels[l][r + 1]
  <2>9. a \in Seq(Label) /\ Len(a) = m + 1
    BY <1>1, <2>7, <2>8, PathIsSeq
  <2>10. path \in Seq(Label) /\ Len(path) = l
    BY <1>1, <2>2, AtIs
  <2>11. c \in Label
    BY <1>1, <2>3, LevelIs
  <2>12. SubSeq(a, 1, l + 1) = Append(path, c)
    BY <2>4, <2>6
  <2>13. path = SubSeq(a, 1, l)
    <3> HIDE DEF a, c
    <3>1. \A x \in 1 .. l : a[x] = path[x]
      <4>1. \A x \in 1 .. l : SubSeq(a, 1, l + 1)[x] = a[x]
        BY <2>7, <2>9
      <4>2. \A x \in 1 .. l : Append(path, c)[x] = path[x]
        BY <2>10, <2>11
      <4>3. QED
        BY <2>12, <4>1, <4>2
    <3>2. /\ SubSeq(a, 1, l) \in Seq(Label) /\ Len(SubSeq(a, 1, l)) = l
          /\ \A x \in 1 .. l : SubSeq(a, 1, l)[x] = a[x]
      BY <2>7, <2>9
    <3>3. QED
      BY <2>10, <3>1, <3>2
  <2>14. LeafEntry(m, s) \in Entries /\ LeafEntry(m, s)[1] = a
    BY <1>2, <2>7 DEF LeafEntry
  <2>15. l \in 0 .. Len(a) - 1
    BY <2>7, <2>9
  <2>16. QED
    BY <1>3, <2>13, <2>14, <2>15
<1>6. QED
  BY <1>3, <1>4, <1>5

(* NodeNumber counts them. *)
LEMMA NumberOfNode ==
  ASSUME Complete, NEW path, NEW n, IsNode(path, n)
  PROVE  path \in InnerPaths /\ NodeNumber(path) = n /\ n \in Nat /\ path \in Seq(Label)
<1>1. DenseInv
  BY DEF Complete
<1>2. \A q, i : IsNode(q, i) => q \in Seq(Label)
  BY <1>1, AtIs DEF IsNode
<1>3. InnerPaths = {p \in Seq(Label) : \E i : IsNode(p, i)}
  BY <1>2, PathsAreNodes, Zenon
<1>4. NodeNumber(path) = n
  BY <1>1, <1>3, NodesCounted DEF NodeNumber
<1>5. n \in Nat
  BY <1>1, NodeOrder
<1>6. QED
  BY <1>2, <1>4, <1>5, PathsAreNodes

(* What an inner path is: the path to one node of a level. *)
LEMMA InnerPathIs ==
  ASSUME Complete, NEW path \in InnerPaths
  PROVE  /\ path \in Seq(Label) /\ Len(path) \in 0 .. height - 1
         /\ \E k \in 0 .. node_counts[Len(path)] - 1 :
              At(path, Len(path), k) /\ NodeNumber(path) = NodesAbove(Len(path)) + k
<1>1. PICK n : IsNode(path, n)
  BY PathsAreNodes
<1>2. NodeNumber(path) = n
  BY <1>1, NumberOfNode
<1>3. DenseInv
  BY DEF Complete
<1>4. PICK l \in 0 .. height - 1 : \E k \in 0 .. node_counts[l] - 1 :
             At(path, l, k) /\ n = NodesAbove(l) + k
  BY <1>1 DEF IsNode
<1>5. path \in Seq(Label) /\ Len(path) = l
  BY <1>3, <1>4, AtIs
<1>6. QED
  BY <1>2, <1>4, <1>5

-------------------------------------------------------------------------------
(* One step down *)

(* The item of a node with a label. *)
NodeItem(l, k, c, p) == p \in Items(l) /\ NodeOf(l, p) = k /\ labels[l][p + 1] = c

(* Appended labels are told from each other, and so are the paths in front. *)
LEMMA AppendTells ==
  ASSUME NEW a \in Seq(Label), NEW b \in Seq(Label), NEW c \in Label, NEW d \in Label,
         Append(a, c) = Append(b, d)
  PROVE  a = b /\ c = d
<1>1. /\ Len(Append(a, c)) = Len(a) + 1 /\ Len(Append(b, d)) = Len(b) + 1
      /\ Append(a, c)[Len(a) + 1] = c /\ Append(b, d)[Len(b) + 1] = d
      /\ \A i \in 1 .. Len(a) : Append(a, c)[i] = a[i]
      /\ \A i \in 1 .. Len(b) : Append(b, d)[i] = b[i]
  OBVIOUS
<1>2. Len(a) = Len(b)
  <2>1. Len(a) \in Nat /\ Len(b) \in Nat
    OBVIOUS
  <2>2. QED
    BY <1>1, <2>1
<1>3. \A i \in 1 .. Len(a) : a[i] = b[i]
  BY <1>1, <1>2
<1>4. QED
  BY <1>1, <1>2, <1>3

(* An item whose path goes on from that of a node is an item of the node. *)
LEMMA ItemOfPath ==
  ASSUME DenseInv, NEW l \in 0 .. height - 1, NEW k, NEW path, At(path, l, k), NEW c \in Label,
         NEW s \in Items(l), PathTo(l, s) = Append(path, c)
  PROVE  NodeItem(l, k, c, s)
<1>1. PICK a : At(a, l, NodeOf(l, s))
  BY NodeIs
<1>2. PathTo(l, s) = Append(a, labels[l][s + 1]) /\ labels[l][s + 1] \in Label
  BY <1>1, AtItem, LevelIs
<1>3. a \in Seq(Label) /\ path \in Seq(Label)
  BY <1>1, AtIs
<1>4. a = path /\ labels[l][s + 1] = c
  <2> DEFINE d == labels[l][s + 1]
  <2>1. Append(a, d) = Append(path, c) /\ d \in Label
    BY <1>2
  <2> HIDE DEF d
  <2>2. a = path /\ d = c
    BY <1>3, <2>1, AppendTells
  <2>3. QED
    BY <2>2 DEF d
<1>5. NodeOf(l, s) = k
  BY <1>1, <1>4, AtOrder
<1>6. QED
  BY <1>4, <1>5 DEF NodeItem

(* The item of a label is the one its path leads to; there is no other. *)
LEMMA ItemPath ==
  ASSUME DenseInv, NEW l \in 0 .. height - 1, NEW k, NEW path, At(path, l, k), NEW c \in Label,
         NEW p, NodeItem(l, k, c, p)
  PROVE  /\ p \in Items(l) /\ PathTo(l, p) = Append(path, c)
         /\ \A s \in Items(l) : PathTo(l, s) = Append(path, c) => s = p
<1>1. p \in Items(l) /\ PathTo(l, p) = Append(path, c)
  BY AtItem DEF NodeItem
<1>2. QED
  BY <1>1, PathsDiffer

(* An item with a child bit leads to the node that its child bit stands for. *)
LEMMA ChildPath ==
  ASSUME Complete, NEW l \in 0 .. height - 1, NEW k, NEW path, At(path, l, k), NEW c \in Label,
         NEW p, NodeItem(l, k, c, p), p \in child_indicator_bits[l]
  PROVE  /\ Append(path, c) \in InnerPaths
         /\ NodeNumber(Append(path, c))
              = NodesAbove(l + 1) + Cardinality(Below(child_indicator_bits[l], p))
<1>1. DenseInv
  BY DEF Complete
<1> DEFINE j == Cardinality(Below(child_indicator_bits[l], p))
           a == Append(path, c)
<1>2. p \in Items(l) /\ PathTo(l, p) = a /\ NodeOf(l, p) = k
  BY <1>1, ItemPath DEF NodeItem
<1>3. l + 1 \in 0 .. height - 1 /\ At(a, l + 1, j)
  <2> HIDE DEF a, j
  <2>1. At(path, l, NodeOf(l, p))
    BY <1>2
  <2>2. l + 1 \in 0 .. height - 1 /\ At(PathTo(l, p), l + 1, Cardinality(Below(child_indicator_bits[l], p)))
    BY <1>1, <1>2, <2>1, AtItem
  <2>3. QED
    BY <1>2, <2>2 DEF j
<1> HIDE DEF a, j
<1>4. j \in 0 .. node_counts[l + 1] - 1
  BY <1>1, <1>3, AtIs
<1>5. IsNode(a, NodesAbove(l + 1) + j)
  BY <1>3, <1>4 DEF IsNode
<1>6. a \in InnerPaths /\ NodeNumber(a) = NodesAbove(l + 1) + j
  BY <1>5, NumberOfNode
<1>7. QED
  BY <1>6 DEF a, j

(* A longer inner path goes through an item with a child bit. *)
LEMMA InnerChild ==
  ASSUME Complete, NEW l \in 0 .. height - 1, NEW k, NEW path, At(path, l, k), NEW c \in Label,
         Append(path, c) \in InnerPaths
  PROVE  \E p \in child_indicator_bits[l] : NodeItem(l, k, c, p)
<1>1. DenseInv
  BY DEF Complete
<1> DEFINE a == Append(path, c)
<1>2. path \in Seq(Label) /\ Len(path) = l /\ l \in Nat
  BY <1>1, AtIs, LevelIs
<1>3. Len(a) = l + 1
  BY <1>2
<1> HIDE DEF a
<1>4. l + 1 \in 0 .. height - 1 /\ \E j \in 0 .. node_counts[l + 1] - 1 : At(a, l + 1, j)
  <2>1. a \in InnerPaths
    BY DEF a
  <2>2. QED
    BY <1>3, <2>1, InnerPathIs
<1>5. PICK j \in 0 .. node_counts[l + 1] - 1 : At(a, l + 1, j)
  BY <1>4
<1>6. PICK q \in child_indicator_bits[l] : a = PathTo(l, q)
  <2>1. l + 1 # 0 /\ (l + 1) - 1 = l
    BY <1>2
  <2>2. QED
    BY <1>5, <2>1 DEF At
<1>7. q \in Items(l)
  BY <1>1, LevelIs
<1>8. NodeItem(l, k, c, q)
  BY <1>1, <1>6, <1>7, ItemOfPath DEF a
<1>9. QED
  BY <1>8

(* PrefixFacts of a sequence. *)
LEMMA PrefixFacts ==
  ASSUME NEW s \in Seq(Label), NEW m \in 0 .. Len(s), NEW n \in 0 .. m
  PROVE  /\ SubSeq(s, 1, m) \in Seq(Label) /\ Len(SubSeq(s, 1, m)) = m
         /\ SubSeq(SubSeq(s, 1, m), 1, n) = SubSeq(s, 1, n)
         /\ m < Len(s) => /\ SubSeq(s, 1, m + 1) = Append(SubSeq(s, 1, m), s[m + 1])
                          /\ s[m + 1] \in Label
         /\ SubSeq(s, 1, 0) = << >> /\ SubSeq(s, 1, Len(s)) = s
<1>1. m \in Nat /\ n \in Nat /\ Len(s) \in Nat
  OBVIOUS
<1> DEFINE t == SubSeq(s, 1, m)
<1>2. t \in Seq(Label) /\ Len(t) = m /\ \A i \in 1 .. m : t[i] = s[i]
  BY <1>1
<1>3. SubSeq(t, 1, n) = SubSeq(s, 1, n)
  <2> HIDE DEF t
  <2>1. /\ SubSeq(t, 1, n) \in Seq(Label) /\ Len(SubSeq(t, 1, n)) = n
        /\ \A i \in 1 .. n : SubSeq(t, 1, n)[i] = t[i]
    BY <1>1, <1>2
  <2>2. /\ SubSeq(s, 1, n) \in Seq(Label) /\ Len(SubSeq(s, 1, n)) = n
        /\ \A i \in 1 .. n : SubSeq(s, 1, n)[i] = s[i]
    BY <1>1
  <2>3. \A i \in 1 .. n : SubSeq(t, 1, n)[i] = SubSeq(s, 1, n)[i]
    BY <1>1, <1>2, <2>1, <2>2
  <2>4. QED
    BY <2>1, <2>2, <2>3
<1>4. ASSUME m < Len(s)
      PROVE  SubSeq(s, 1, m + 1) = Append(t, s[m + 1]) /\ s[m + 1] \in Label
  <2> HIDE DEF t
  <2>1. /\ SubSeq(s, 1, m + 1) \in Seq(Label) /\ Len(SubSeq(s, 1, m + 1)) = m + 1
        /\ \A i \in 1 .. m + 1 : SubSeq(s, 1, m + 1)[i] = s[i]
    BY <1>1, <1>4
  <2>2. s[m + 1] \in Label
    BY <1>1, <1>4
  <2>3. /\ Append(t, s[m + 1]) \in Seq(Label) /\ Len(Append(t, s[m + 1])) = m + 1
        /\ Append(t, s[m + 1])[m + 1] = s[m + 1]
        /\ \A i \in 1 .. m : Append(t, s[m + 1])[i] = t[i]
    BY <1>2, <2>2
  <2>4. \A i \in 1 .. m + 1 : SubSeq(s, 1, m + 1)[i] = Append(t, s[m + 1])[i]
    BY <1>1, <1>2, <2>1, <2>3
  <2>5. QED
    BY <2>1, <2>2, <2>3, <2>4
<1>5. SubSeq(s, 1, 0) = << >> /\ SubSeq(s, 1, Len(s)) = s
  BY <1>1
<1>6. QED
  BY <1>2, <1>3, <1>4, <1>5

(* A prefix of an inner path is one. *)
LEMMA PrefixInner ==
  ASSUME Complete, NEW path \in InnerPaths, NEW n \in 0 .. Len(path)
  PROVE  SubSeq(path, 1, n) \in InnerPaths
<1>1. path \in Seq(Label) /\ Len(path) \in 0 .. height - 1 /\ DenseInv
  BY InnerPathIs DEF Complete
<1>2. CASE n = Len(path)
  <2>1. SubSeq(path, 1, Len(path)) = path
    BY <1>1, PrefixFacts
  <2>2. QED
    BY <1>2, <2>1
<1>3. CASE n # Len(path)
  <2> DEFINE l == Len(path)
  <2>1. PICK k \in 0 .. node_counts[l] - 1 : At(path, l, k)
    BY InnerPathIs
  <2>2. l # 0 /\ l \in Nat /\ n \in 0 .. l - 1
    BY <1>1, <1>3
  <2>3. PICK q \in child_indicator_bits[l - 1] : path = PathTo(l - 1, q)
    BY <2>1, <2>2 DEF At
  <2>4. l - 1 \in 0 .. height - 1 /\ height \in Nat
    BY <1>1, <2>2, LevelIs
  <2>5. q \in Items(l - 1)
    BY <1>1, <2>4, LevelIs
  <2>6. PICK j \in 0 .. node_counts[n] - 1 : At(SubSeq(path, 1, n), n, j)
    BY <1>1, <2>2, <2>3, <2>4, <2>5, PrefixOfPath
  <2>7. n \in 0 .. height - 1
    BY <1>1, <2>2, <2>4
  <2>8. IsNode(SubSeq(path, 1, n), NodesAbove(n) + j)
    BY <2>6, <2>7 DEF IsNode
  <2>9. QED
    BY <2>8, PathsAreNodes
<1>4. QED
  BY <1>2, <1>3

(* The entries a key has the stored prefix of, at a node on its way: where the
   key ends, or has no item to go on with, there is none; a leaf has it. *)
LEMMA KeyEntries ==
  ASSUME Complete, NEW key \in Seq(Label), NEW l \in 0 .. height - 1, l <= Len(key), NEW k,
         At(SubSeq(key, 1, l), l, k)
  PROVE  /\ l = Len(key) => EntriesOf(key) = {}
         /\ l < Len(key) /\ (\A p : ~NodeItem(l, k, key[l + 1], p)) => EntriesOf(key) = {}
         /\ l < Len(key) => \A p \in Leaves(l) : NodeItem(l, k, key[l + 1], p) =>
                              EntriesOf(key) = {LeafEntry(l, p)}
<1>1. DenseInv /\ AllValued /\ Entries = entries
  BY DEF Complete, Entries
<1>2. \A e : e \in Entries <=>
        \E m \in 0 .. height - 1 : \E p \in Leaves(m) : e = LeafEntry(m, p)
  BY <1>1, EntriesAreLeaves
<1> DEFINE path == SubSeq(key, 1, l)
           c == key[l + 1]
<1>3. l \in Nat /\ height \in Nat /\ Len(key) \in Nat /\ l \in 0 .. Len(key)
  BY <1>1, LevelIs
<1>4. path \in InnerPaths
  <2>1. k \in 0 .. node_counts[l] - 1
    BY <1>1, AtIs
  <2>2. IsNode(path, NodesAbove(l) + k)
    BY <2>1 DEF IsNode
  <2> HIDE DEF path
  <2>3. QED
    BY <2>2, PathsAreNodes
<1>5. ASSUME NEW e \in EntriesOf(key)
      PROVE  l < Len(key) /\ \E p \in Items(l) : /\ NodeItem(l, k, c, p)
                                                 /\ p \notin child_indicator_bits[l] => e = LeafEntry(l, p)
  <2>1. e \in Entries /\ IsPrefix(e[1], key)
    BY DEF EntriesOf
  <2>2. PICK m \in 0 .. height - 1 : \E s \in Leaves(m) : e = LeafEntry(m, s)
    BY <1>2, <2>1
  <2>3. PICK s \in Leaves(m) : e = LeafEntry(m, s)
    BY <2>2
  <2>4. s \in Items(m) /\ s \notin child_indicator_bits[m] /\ e[1] = PathTo(m, s)
    BY <1>1, <2>3, LeafIsItem DEF LeafEntry
  <2> DEFINE a == PathTo(m, s)
  <2>5. a \in Seq(Label) /\ Len(a) = m + 1 /\ m \in Nat
    BY <1>1, <2>4, PathIsSeq
  <2>6. m + 1 <= Len(key) /\ a = SubSeq(key, 1, m + 1) /\ m + 1 \in 0 .. Len(key)
    <3>1. Len(a) <= Len(key) /\ SubSeq(a, 1, Len(a)) = SubSeq(key, 1, Len(a))
      BY <2>1, <2>4 DEF IsPrefix
    <3>2. SubSeq(a, 1, Len(a)) = a
      <4> HIDE DEF a
      <4>1. 0 \in 0 .. Len(a)
        BY <2>5
      <4>2. QED
        BY <2>5, <4>1, PrefixFacts
    <3> HIDE DEF a
    <3>3. QED
      BY <1>3, <2>5, <3>1, <3>2
  <2>7. CASE m < l
    <3>1. m + 1 \in 0 .. l /\ l \in 0 .. Len(key)
      BY <1>3, <2>5, <2>7
    <3>2. SubSeq(path, 1, m + 1) = SubSeq(key, 1, m + 1) /\ Len(path) = l
      BY <3>1, PrefixFacts
    <3>3. a \in InnerPaths
      <4> HIDE DEF a, path
      <4>1. SubSeq(path, 1, m + 1) \in InnerPaths
        BY <1>4, <3>1, <3>2, PrefixInner
      <4>2. QED
        BY <2>6, <3>2, <4>1
    <3>4. PICK j \in 0 .. node_counts[m + 1] - 1 : At(a, m + 1, j)
      BY <2>5, <3>3, InnerPathIs
    <3>5. m + 1 # 0 /\ (m + 1) - 1 = m
      BY <2>5
    <3>6. PICK q \in child_indicator_bits[m] : a = PathTo(m, q)
      BY <3>4, <3>5 DEF At
    <3>7. q \in Items(m)
      BY <1>1, LevelIs
    <3>8. q = s
      BY <1>1, <2>4, <3>6, <3>7, PathsDiffer
    <3>9. QED
      BY <2>4, <3>8
  <2>8. CASE m >= l
    <3>1. l < Len(key) /\ l + 1 \in 0 .. m + 1
      BY <1>3, <2>5, <2>6, <2>8
    <3>2. SubSeq(key, 1, l + 1) = Append(path, c) /\ c \in Label
      <4>1. 0 \in 0 .. l
        BY <1>3
      <4>2. QED
        BY <1>3, <3>1, <4>1, PrefixFacts
    <3>3. SubSeq(a, 1, l + 1) = Append(path, c)
      <4>1. SubSeq(SubSeq(key, 1, m + 1), 1, l + 1) = SubSeq(key, 1, l + 1)
        BY <2>6, <3>1, PrefixFacts
      <4> HIDE DEF a, c, path
      <4>2. QED
        BY <2>6, <3>2, <4>1
    <3>4. CASE m = l
      <4>1. SubSeq(a, 1, l + 1) = a
        <5> HIDE DEF a
        <5>1. 0 \in 0 .. Len(a) /\ Len(a) = l + 1
          BY <2>5, <3>4
        <5>2. QED
          BY <2>5, <5>1, PrefixFacts
      <4>2. s \in Items(l) /\ PathTo(l, s) = Append(path, c)
        BY <2>4, <3>3, <3>4, <4>1
      <4> HIDE DEF a, path, c
      <4>3. NodeItem(l, k, c, s)
        BY <1>1, <3>2, <4>2, ItemOfPath DEF path
      <4>4. QED
        BY <2>3, <3>1, <3>4, <4>2, <4>3
    <3>5. CASE m > l
      <4>1. l + 1 \in 0 .. m /\ l + 1 \in 0 .. height - 1
        BY <1>3, <2>5, <3>5
      <4>2. PICK j \in 0 .. node_counts[l + 1] - 1 : At(SubSeq(a, 1, l + 1), l + 1, j)
        BY <1>1, <2>4, <4>1, PrefixOfPath
      <4>3. IsNode(Append(path, c), NodesAbove(l + 1) + j)
        BY <3>3, <4>1, <4>2 DEF IsNode
      <4>4. Append(path, c) \in InnerPaths
        BY <4>3, PathsAreNodes
      <4> HIDE DEF a, path, c
      <4>5. PICK p \in child_indicator_bits[l] : NodeItem(l, k, c, p)
        BY <3>2, <4>4, InnerChild DEF path
      <4>6. QED
        BY <3>1, <4>5 DEF NodeItem
    <3>6. QED
      BY <2>5, <1>3, <2>8, <3>4, <3>5
  <2>9. QED
    BY <1>3, <2>5, <2>7, <2>8
<1>6. ASSUME l < Len(key), NEW p \in Leaves(l), NodeItem(l, k, c, p)
      PROVE  EntriesOf(key) = {LeafEntry(l, p)}
  <2>1. p \in Items(l) /\ p \notin child_indicator_bits[l]
    BY <1>1, LeafIsItem
  <2>2. c \in Label /\ SubSeq(key, 1, l + 1) = Append(path, c)
    <3>1. 0 \in 0 .. l
      BY <1>3
    <3>2. QED
      BY <1>3, <1>6, <3>1, PrefixFacts
  <2>0. At(path, l, k)
    OBVIOUS
  <2> HIDE DEF path, c
  <2>3. PathTo(l, p) = Append(path, c) /\ \A s \in Items(l) : PathTo(l, s) = Append(path, c) => s = p
    BY <1>1, <1>6, <2>0, <2>2, ItemPath
  <2>4. \A s \in Items(l) : NodeItem(l, k, c, s) => s = p
    <3> TAKE s \in Items(l)
    <3> HAVE NodeItem(l, k, c, s)
    <3>1. PathTo(l, s) = Append(path, c)
      BY <1>1, <2>0, <2>2, ItemPath
    <3>2. QED
      BY <2>3, <3>1
  <2>5. \A e \in EntriesOf(key) : e = LeafEntry(l, p)
    BY <1>5, <2>1, <2>4
  <2>6. LeafEntry(l, p) \in EntriesOf(key)
    <3>1. LeafEntry(l, p) \in Entries /\ LeafEntry(l, p)[1] = PathTo(l, p)
      BY <1>2 DEF LeafEntry
    <3> DEFINE a == PathTo(l, p)
    <3>2. a \in Seq(Label) /\ Len(a) = l + 1
      BY <1>1, <2>1, PathIsSeq
    <3>3. SubSeq(a, 1, Len(a)) = a
      <4> HIDE DEF a
      <4>1. 0 \in 0 .. Len(a)
        BY <1>3, <3>2
      <4>2. QED
        BY <3>2, <4>1, PrefixFacts
    <3>4. a = SubSeq(key, 1, l + 1)
      BY <2>2, <2>3
    <3>5. IsPrefix(a, key)
      <4> HIDE DEF a
      <4>1. Len(a) <= Len(key)
        BY <1>3, <1>6, <3>2
      <4>2. QED
        BY <3>2, <3>3, <3>4, <4>1 DEF IsPrefix
    <3>6. QED
      BY <3>1, <3>5 DEF EntriesOf
  <2>7. QED
    BY <2>5, <2>6
<1>7. l = Len(key) => EntriesOf(key) = {}
  BY <1>3, <1>5
<1>8. (\A p : ~NodeItem(l, k, c, p)) => EntriesOf(key) = {}
  BY <1>5
<1>9. QED
  BY <1>6, <1>7, <1>8

-------------------------------------------------------------------------------
(* What the builder hands over *)

(* What the builder needs for its vectors to be handed over. *)
HandoverInv ==
  /\ SlotsInv
  /\ sparse_start_level <= height
  /\ Len(dense) <= height
  /\ pc = "dense" => Len(dense) = level
  /\ pc \in {"skip", "rest", "store", "cutoff", "collect"} => dense = << >>

(* The builder starts with nothing to hand over. *)
LEMMA HandoverInit == Init => HandoverInv
  BY SlotsInit DEF HandoverInv, Init

(* Every step of the builder keeps the invariant. *)
LEMMA HandoverStep == HandoverInv /\ [Next]_vars => HandoverInv'
<1> SUFFICES ASSUME HandoverInv, [Next]_vars
             PROVE  HandoverInv'
  OBVIOUS
<1>1. SlotsInv'
  BY SlotsStep DEF HandoverInv
<1>2. TypeInv /\ TypeOK /\ height \in Nat /\ sparse_start_level \in Nat /\ dense \in Seq(
          [labels : SUBSET Nat, children : SUBSET Nat, prefixkey : SUBSET Nat])
  BY DEF HandoverInv, SlotsInv, TypeInv, TypeOK
<1> USE DEF HandoverInv
<1>3. CASE SkipCommonPrefix
  BY <1>1, <1>2, <1>3 DEF SkipCommonPrefix, denseVars
<1>4. CASE InsertFirstByte
  <2>1. height' >= height /\ pc' \in {"store", "rest"} /\ UNCHANGED denseVars /\ pc = "skip"
    BY <1>2, <1>4 DEF InsertFirstByte, InsertKeyByte
  <2>2. height' \in Nat
    BY <1>1 DEF SlotsInv, TypeInv, TypeOK
  <2>3. QED
    BY <1>1, <1>2, <2>1, <2>2 DEF denseVars
<1>5. CASE InsertNextByte
  <2>1. height' >= height /\ pc' = pc /\ UNCHANGED denseVars /\ pc = "rest"
    BY <1>2, <1>5 DEF InsertNextByte, InsertKeyByte
  <2>2. height' \in Nat
    BY <1>1 DEF SlotsInv, TypeInv, TypeOK
  <2>3. QED
    BY <1>1, <1>2, <2>1, <2>2 DEF denseVars
<1>6. CASE StoreValue
  BY <1>1, <1>2, <1>6 DEF StoreValue, denseVars, sparseVars
<1>7. CASE DetermineCutoffLevel
  BY <1>1, <1>2, <1>7 DEF DetermineCutoffLevel, sparseVars
<1>8. CASE CollectValues
  BY <1>1, <1>2, <1>8 DEF CollectValues, sparseVars
<1>9. CASE BuildDenseLevel
  <2>1. Len(dense') = level + 1 /\ level + 1 <= sparse_start_level /\ pc' = "dense" /\ level' = level + 1
    <3>1. Len(dense) = level /\ level < sparse_start_level /\ level \in Nat
      BY <1>2, <1>9 DEF BuildDenseLevel, TypeOK
    <3>2. dense' = Append(dense, DenseLevel(level)) /\ pc' = "dense" /\ level' = level + 1
      BY <1>9 DEF BuildDenseLevel
    <3> HIDE DEF HandoverInv
    <3>3. Len(Append(dense, DenseLevel(level))) = Len(dense) + 1
      BY <1>2
    <3>4. QED
      BY <1>2, <3>1, <3>2, <3>3
  <2>2. UNCHANGED sparseVars /\ sparse_start_level' = sparse_start_level
    BY <1>9 DEF BuildDenseLevel
  <2>3. QED
    BY <1>1, <1>2, <2>1, <2>2 DEF sparseVars
<1>10. CASE FinishBuild
  BY <1>1, <1>2, <1>10 DEF FinishBuild, sparseVars, denseVars
<1>11. CASE Terminated \/ UNCHANGED vars
  BY <1>1, <1>2, <1>11 DEF Terminated, vars, sparseVars, denseVars
<1>12. QED
  BY <1>3, <1>4, <1>5, <1>6, <1>7, <1>8, <1>9, <1>10, <1>11 DEF Next

-------------------------------------------------------------------------------
(* The sparse levels *)

(* The items of the levels above l, and where the sparse vectors have the item
   at position p of level l. *)
ItemCounts == [l \in Levels |-> GetNumItems(l)]
ItemsAbove(l) == SumLevels(ItemCounts, l)
SparsePos(l, p) == ItemsAbove(l) - ItemsAbove(sparse_start_level) + p
SparseStarts ==
  [i \in 0 .. height - sparse_start_level |-> SparsePos(sparse_start_level + i, 0)]

(* The items above a level are counted level by level. *)
LEMMA ItemsAboveIs ==
  ASSUME TypeInv, NEW l \in Levels
  PROVE  /\ ItemsAbove(0) = 0 /\ ItemsAbove(l) \in Nat /\ GetNumItems(l) \in Nat
         /\ ItemsAbove(l + 1) = ItemsAbove(l) + GetNumItems(l)
<1>1. l \in Nat /\ MaxLevel \in Nat /\ l <= MaxLevel
  BY ConstantsAssumption DEF Levels
<1>2. ASSUME NEW m \in 0 .. l PROVE ItemCounts[m] \in Nat /\ ItemCounts[m] = GetNumItems(m)
  <2>1. m \in Levels
    BY <1>1 DEF Levels
  <2>2. labels[m] \in Seq(Label)
    BY <2>1 DEF TypeInv, TypeOK
  <2>3. QED
    BY <2>1, <2>2 DEF ItemCounts, GetNumItems
<1>3. /\ SumLevels(ItemCounts, 0) = 0 /\ SumLevels(ItemCounts, l) \in Nat
      /\ SumLevels(ItemCounts, l + 1) = SumLevels(ItemCounts, l) + ItemCounts[l]
  BY <1>1, <1>2, SumOfLevels
<1>4. l \in 0 .. l
  BY <1>1
<1>5. QED
  BY <1>2, <1>3, <1>4 DEF ItemsAbove

(* The levels of the sparse part, and where they begin. *)
LEMMA SparseLevelIs ==
  ASSUME DenseInv, HandoverInv, NEW l \in sparse_start_level .. height - 1
  PROVE  /\ sparse_start_level \in Nat /\ height \in Nat /\ sparse_start_level <= height
         /\ l \in 0 .. height - 1 /\ l \in Levels /\ l \in Nat
         /\ ItemsAbove(l) \in Int /\ ItemsAbove(sparse_start_level) \in Int
         /\ GetNumItems(l) \in Nat
         /\ SparsePos(l + 1, 0) = SparsePos(l, GetNumItems(l))
         /\ \A p \in Int : SparsePos(l, p) = SparsePos(l, 0) + p
         /\ SparsePos(l, 0) \in Int
<1>1. TypeInv /\ TypeOK
  BY DEF HandoverInv, SlotsInv, TypeInv
<1>2. /\ sparse_start_level \in Nat /\ height \in Nat /\ sparse_start_level <= height
      /\ height <= MaxLevel + 1 /\ MaxLevel \in Nat
  BY <1>1, ConstantsAssumption DEF HandoverInv, TypeOK
<1>3. l \in 0 .. height - 1 /\ l \in Levels /\ l \in Nat /\ sparse_start_level \in Levels
  BY <1>2 DEF Levels
<1>4. /\ ItemsAbove(l) \in Nat /\ GetNumItems(l) \in Nat
      /\ ItemsAbove(l + 1) = ItemsAbove(l) + GetNumItems(l)
  BY <1>1, <1>3, ItemsAboveIs
<1>5. ItemsAbove(sparse_start_level) \in Nat
  BY <1>1, <1>3, ItemsAboveIs
<1>6. QED
  BY <1>2, <1>3, <1>4, <1>5 DEF SparsePos

(* What LoudsSparse keeps of the nodes in front of it. *)
LEMMA DenseCounts ==
  ASSUME DenseInv, HandoverInv, louds_sparse = MakeLoudsSparse
  PROVE  /\ StartLevel = sparse_start_level /\ louds_sparse.height = height
         /\ louds_sparse.node_count_dense = NodesAbove(sparse_start_level)
         /\ \A l \in sparse_start_level .. height - 1 :
              louds_sparse.child_count_dense = NodesAbove(sparse_start_level + 1) - 1
<1>1. /\ StartLevel = sparse_start_level /\ louds_sparse.height = height
      /\ louds_sparse.node_count_dense = NodeCountDense
      /\ louds_sparse.child_count_dense = ChildCountDense
  BY DEF MakeLoudsSparse, StartLevel
<1>2. NodeCountDense = NodesAbove(sparse_start_level)
  BY DEF NodeCountDense, NodesAbove, SumLevels
<1>3. ASSUME NEW l \in sparse_start_level .. height - 1
      PROVE  ChildCountDense = NodesAbove(sparse_start_level + 1) - 1
  <2>1. sparse_start_level \in 0 .. height - 1 /\ sparse_start_level \in Nat /\ height \in Nat
    BY SparseLevelIs
  <2>2. /\ NodesAbove(0) = 0 /\ NodesAbove(sparse_start_level) \in Nat
        /\ node_counts[sparse_start_level] \in Nat
        /\ NodesAbove(sparse_start_level + 1)
             = NodesAbove(sparse_start_level) + node_counts[sparse_start_level]
    BY <2>1, AboveIs
  <2>3. sparse_start_level = 0 => node_counts[sparse_start_level] = 1
    BY <2>1, LevelIs
  <2>4. sparse_start_level # height
    BY <2>1
  <2>5. QED
    BY <1>2, <2>2, <2>3, <2>4 DEF ChildCountDense
<1>4. QED
  BY <1>1, <1>2, <1>3

(* The item at r starts a node of level l that ends in front of e. *)
NodeEnd(l, r, e) ==
  /\ e \in r + 1 .. GetNumItems(l)
  /\ \A q \in r + 1 .. e - 1 : q \notin louds_bits[l]
  /\ e = GetNumItems(l) \/ e \in louds_bits[l]

(* Every node ends. *)
LEMMA NodeEnds ==
  ASSUME DenseInv, NEW l \in 0 .. height - 1, NEW r \in louds_bits[l]
  PROVE  r \in Items(l) /\ \E e : NodeEnd(l, r, e)
<1>1. /\ GetNumItems(l) \in Nat /\ louds_bits[l] \in SUBSET Items(l) /\ r \in Items(l)
      /\ r \in Nat /\ r < GetNumItems(l)
  BY LevelIs DEF Items
<1> DEFINE T == {q \in r + 1 .. GetNumItems(l) : q = GetNumItems(l) \/ q \in louds_bits[l]}
<1>2. T \in SUBSET Nat /\ T # {}
  <2>1. GetNumItems(l) \in T
    BY <1>1
  <2>2. \A q \in T : q \in Nat
    BY <1>1
  <2>3. QED
    BY <2>1, <2>2
<1>3. PICK e \in T : \A m \in T : e <= m
  <2> HIDE DEF T
  <2>1. QED
    BY <1>2, LeastNatural
<1>4. e \in r + 1 .. GetNumItems(l) /\ (e = GetNumItems(l) \/ e \in louds_bits[l])
  OBVIOUS
<1>5. ASSUME NEW q \in r + 1 .. e - 1 PROVE q \notin louds_bits[l]
  <2>1. q \in r + 1 .. GetNumItems(l) /\ ~(e <= q)
    BY <1>1, <1>4
  <2>2. q \notin T
    BY <1>3, <2>1
  <2>3. QED
    BY <2>1, <2>2
<1>6. QED
  BY <1>1, <1>4, <1>5 DEF NodeEnd

(* The items of a node lie between its start and its end. *)
LEMMA NodeItemsAre ==
  ASSUME DenseInv, NEW l \in 0 .. height - 1, NEW r \in louds_bits[l], NEW e, NodeEnd(l, r, e),
         NEW p \in Items(l)
  PROVE  NodeOf(l, p) = NodeOf(l, r) <=> r <= p /\ p < e
<1> DEFINE n == GetNumItems(l)
           S == louds_bits[l]
<1>1. /\ n \in Nat /\ S \in SUBSET (0 .. n - 1) /\ r \in 0 .. n - 1 /\ r \in S
      /\ p \in 0 .. n - 1
  BY LevelIs DEF Items
<1>2. /\ e \in r + 1 .. n /\ (e = n \/ e \in S) /\ \A q \in r + 1 .. e - 1 : q \notin S
  BY DEF NodeEnd
<1>3. /\ NodeOf(l, p) = Cardinality(UpTo(S, p)) - 1
      /\ NodeOf(l, r) = Cardinality(UpTo(S, r)) - 1
  BY Zenon DEF NodeOf, UpTo
<1> HIDE DEF n, S
<1>4. p \in Int /\ r \in Int /\ e \in Int /\ p + 1 \in Int /\ r + 1 \in Int /\ e + 1 \in Int
  BY <1>1, <1>2
<1>5. /\ UpTo(S, p) = Below(S, p + 1) /\ UpTo(S, r) = Below(S, r + 1)
      /\ Cardinality(Below(S, p + 1)) \in Nat /\ Cardinality(Below(S, r + 1)) \in Nat
  <2>1. p <= p /\ r <= r /\ p + 1 <= p + 1 /\ r + 1 <= r + 1
    BY <1>4
  <2>2. UpTo(S, p) = Below(S, p + 1) /\ UpTo(S, r) = Below(S, r + 1)
    BY <1>1, <1>4, <2>1, CountsGrow
  <2>3. Cardinality(Below(S, p + 1)) \in Nat
    BY <1>1, <1>4, <2>1, CountsGrow
  <2>4. Cardinality(Below(S, r + 1)) \in Nat
    BY <1>1, <1>4, <2>1, CountsGrow
  <2>5. QED
    BY <2>2, <2>3, <2>4
<1>6. ASSUME r <= p, p < e PROVE NodeOf(l, p) = NodeOf(l, r)
  <2>1. \A q \in S : q < p + 1 <=> q < r + 1
    <3> TAKE q \in S
    <3>1. q \in Int /\ (q \notin r + 1 .. e - 1)
      BY <1>1, <1>2
    <3>2. QED
      BY <1>4, <1>6, <3>1
  <2>2. Below(S, p + 1) = Below(S, r + 1)
    BY <2>1, Zenon DEF Below
  <2>3. QED
    BY <1>3, <1>5, <2>2
<1>7. ASSUME p < r PROVE NodeOf(l, p) < NodeOf(l, r)
  <2>1. p + 1 <= r /\ r <= r /\ r < r + 1 /\ r <= r + 1
    BY <1>4, <1>7
  <2>2. Cardinality(Below(S, p + 1)) <= Cardinality(Below(S, r)) /\ Cardinality(Below(S, r)) \in Nat
    BY <1>1, <1>4, <2>1, CountsGrow
  <2>3. Cardinality(Below(S, r)) < Cardinality(Below(S, r + 1))
    BY <1>1, <1>4, <2>1, CountsGrow
  <2>4. QED
    BY <1>3, <1>5, <2>2, <2>3
<1>8. ASSUME e <= p PROVE NodeOf(l, r) < NodeOf(l, p)
  <2>1. e \in S
    BY <1>1, <1>2, <1>4, <1>8
  <2>2. r + 1 <= e /\ e < e + 1 /\ e <= e + 1 /\ e + 1 <= p + 1
    BY <1>2, <1>4, <1>8
  <2>3. Cardinality(Below(S, r + 1)) <= Cardinality(Below(S, e)) /\ Cardinality(Below(S, e)) \in Nat
    BY <1>1, <1>4, <2>2, CountsGrow
  <2>4. Cardinality(Below(S, e)) < Cardinality(Below(S, e + 1)) /\ Cardinality(Below(S, e + 1)) \in Nat
    BY <1>1, <1>4, <2>1, <2>2, CountsGrow
  <2>5. Cardinality(Below(S, e + 1)) <= Cardinality(Below(S, p + 1))
    BY <1>1, <1>4, <2>2, CountsGrow
  <2>6. QED
    BY <1>3, <1>5, <2>3, <2>4, <2>5
<1>9. NodeOf(l, p) \in Int /\ NodeOf(l, r) \in Int
  BY <1>3, <1>5
<1>10. QED
  BY <1>4, <1>6, <1>7, <1>8, <1>9

(* No node of the last level has one label only, unless all keys are equal. *)
LEMMA NotAlone ==
  ASSUME DenseInv, pc = "done", NEW r \in louds_bits[height - 1], height > 0,
         GetNumItems(height - 1) = r + 1
  PROVE  height = 1 /\ r = 0
<1> DEFINE l == height - 1
<1>1. l \in 0 .. height - 1 /\ l \in Levels /\ l + 1 = height /\ height \in Nat
  <2>1. height \in Nat /\ height <= MaxLevel + 1 /\ MaxLevel \in Nat
    BY ConstantsAssumption DEF DenseInv, SortedInv, LoudsInv, TypeInv, TypeOK
  <2>2. QED
    BY <2>1 DEF Levels
<1> HIDE DEF l
<1>2. /\ child_indicator_bits[l] = {} /\ GetNumItems(l) = r + 1 /\ r \in louds_bits[l]
      /\ r \in Nat
      /\ l = 0 => node_counts[l] = 1
      /\ node_counts[l] = Cardinality(louds_bits[l]) /\ 0 \in louds_bits[l]
      /\ louds_bits[l] \in SUBSET (0 .. GetNumItems(l) - 1) /\ GetNumItems(l) \in Nat
  <2>1. l + 1 >= height
    BY <1>1
  <2>2. r \in louds_bits[l] /\ GetNumItems(l) = r + 1
    BY DEF l
  <2>3. /\ child_indicator_bits[l] = {} /\ GetNumItems(l) \in Nat
        /\ louds_bits[l] \in SUBSET Items(l) /\ 0 \in louds_bits[l]
        /\ node_counts[l] = Cardinality(louds_bits[l]) /\ (l = 0 => node_counts[l] = 1)
    BY <1>1, <2>1, LevelIs
  <2>4. QED
    BY <2>2, <2>3 DEF Items
<1>3. LonelyLeaf(l, r)
  BY <1>2 DEF LonelyLeaf
<1>4. l = 0
  BY <1>1, <1>2, <1>3 DEF DenseInv, LeafInv, Joins
<1>5. r = 0
  <2>1. Cardinality(louds_bits[l]) = 1
    BY <1>2, <1>4
  <2>2. IsFiniteSet(louds_bits[l])
    BY <1>2, CountBits
  <2>3. PICK x : louds_bits[l] = {x}
    BY <2>1, <2>2, FS_Singleton
  <2>4. QED
    BY <1>2, <2>3
<1>6. QED
  BY <1>1, <1>4, <1>5

-------------------------------------------------------------------------------
(* The dense levels *)

(* The bitmap positions of some items of a dense level. *)
Marks(l, S) == {BitmapPos(l, p) : p \in S}

(* The dense part fits: its bitmaps have whole words and 32-bit positions. *)
Fits ==
  /\ DenseInv /\ HandoverInv /\ pc = "done" /\ Len(dense) = sparse_start_level
  /\ Fanout % WordSize = 0
  /\ NodeCountDense * Fanout <= PositionRange

(* A dense level and its positions. *)
LEMMA DenseLevelIs ==
  ASSUME Fits, NEW l \in 0 .. sparse_start_level - 1
  PROVE  /\ l \in 0 .. height - 1 /\ l \in Levels /\ l < height /\ l \in Nat
         /\ sparse_start_level \in Nat /\ height \in Nat /\ sparse_start_level <= height
         /\ NodesAbove(l) \in Nat /\ NodesAbove(l + 1) \in Nat /\ node_counts[l] \in Nat
         /\ NodesAbove(l + 1) = NodesAbove(l) + node_counts[l]
         /\ NodesAbove(sparse_start_level) \in Nat
         /\ NodesAbove(l + 1) <= NodesAbove(sparse_start_level)
         /\ NodesAbove(sparse_start_level) * Fanout <= PositionRange
         /\ NodesAbove(l + 1) * Fanout <= NodesAbove(sparse_start_level) * Fanout
         /\ node_counts[l] * Fanout <= PositionRange
         /\ Fanout \in Nat \ {0}
<1>1. /\ l \in 0 .. height - 1 /\ l \in Levels /\ l < height /\ l \in Nat
      /\ sparse_start_level \in Nat /\ height \in Nat /\ sparse_start_level <= height
  <2>1. TypeOK /\ sparse_start_level <= height
    BY DEF Fits, HandoverInv, SlotsInv, TypeInv
  <2>2. MaxLevel \in Nat /\ sparse_start_level \in 0 .. MaxLevel + 1 /\ height \in 0 .. MaxLevel + 1
    BY <2>1, ConstantsAssumption DEF TypeOK
  <2>3. QED
    BY <2>1, <2>2 DEF Levels
<1>2. DenseInv
  BY DEF Fits
<1>3. /\ NodesAbove(l) \in Nat /\ NodesAbove(l + 1) \in Nat /\ node_counts[l] \in Nat
      /\ NodesAbove(l + 1) = NodesAbove(l) + node_counts[l]
  BY <1>1, <1>2, AboveIs
<1>4. NodesAbove(l + 1) <= NodesAbove(sparse_start_level) /\ NodesAbove(sparse_start_level) \in Nat
  <2>1. sparse_start_level \in l + 1 .. height
    BY <1>1
  <2>2. QED
    BY <1>1, <1>2, <2>1, AboveGrows
<1>5. NodesAbove(sparse_start_level) * Fanout <= PositionRange
  BY DEF Fits, NodeCountDense, NodesAbove, SumLevels
<1>6. Fanout \in Nat \ {0} /\ PositionRange \in Nat
  BY ConstantsAssumption
<1>7. NodesAbove(l + 1) * Fanout <= NodesAbove(sparse_start_level) * Fanout
  BY <1>3, <1>4, <1>6, TimesMonotone
<1>8. node_counts[l] * Fanout <= NodesAbove(l + 1) * Fanout
  BY <1>3, <1>6, TimesMonotone
<1>9. node_counts[l] * Fanout <= PositionRange
  <2>1. /\ node_counts[l] * Fanout \in Int /\ NodesAbove(l + 1) * Fanout \in Int
        /\ NodesAbove(sparse_start_level) * Fanout \in Int
    BY <1>3, <1>4, <1>6
  <2>2. QED
    BY <1>5, <1>6, <1>7, <1>8, <2>1
<1>10. QED
  BY <1>1, <1>3, <1>4, <1>5, <1>6, <1>7, <1>9

(* A bitmap has a bit for each item, or for each item with a child. *)
LEMMA DenseMarks ==
  ASSUME NoTerminatorAlone, Fits, NEW l \in 0 .. sparse_start_level - 1
  PROVE  /\ dense[l + 1].labels = Marks(l, Items(l))
         /\ dense[l + 1].children = Marks(l, child_indicator_bits[l])
<1>1. l \in Levels /\ l < height /\ l < Len(dense) /\ l \in 0 .. height - 1
  BY DenseLevelIs DEF Fits
<1>2. DenseInv /\ pc = "done"
  BY DEF Fits
<1>3. dense[l + 1] = DenseLevel(l)
  BY <1>1, <1>2 DEF DenseInv, BitmapInv
<1> DEFINE items == 0 .. GetNumItems(l) - 1
           mapped == {p \in items : ~MarksPrefixKey(l, p)}
<1>4. mapped = items
  BY <1>1, <1>2, NoneMarked
<1>5. mapped \cap child_indicator_bits[l] = child_indicator_bits[l]
  BY <1>1, <1>2, <1>4, LevelIs DEF Items
<1>6. /\ dense[l + 1].labels = {BitmapPos(l, p) : p \in mapped}
      /\ dense[l + 1].children = {BitmapPos(l, p) : p \in mapped \cap child_indicator_bits[l]}
  BY <1>3 DEF DenseLevel
<1> HIDE DEF mapped
<1>7. QED
  BY <1>4, <1>5, <1>6 DEF Marks, Items

(* The bits in front of the bit of an item are those of the items in front. *)
LEMMA MarksCount ==
  ASSUME Fits, NEW l \in 0 .. sparse_start_level - 1, NEW S \in SUBSET Items(l)
  PROVE  /\ Cardinality(Marks(l, S)) = Cardinality(S)
         /\ Marks(l, S) \in SUBSET (0 .. node_counts[l] * Fanout - 1)
<1>1. DenseInv /\ l \in Levels /\ l < height /\ node_counts[l] * Fanout <= PositionRange
      /\ l \in 0 .. height - 1
  BY DenseLevelIs DEF Fits
<1>2. \A p \in S : p \in 0 .. GetNumItems(l) - 1 /\ p \in Int
  <2>1. GetNumItems(l) \in Nat
    BY <1>1, LevelIs
  <2>2. QED
    BY <2>1 DEF Items
<1>3. \A p \in S : BitmapPos(l, p) \in 0 .. node_counts[l] * Fanout - 1
  BY <1>1, <1>2, BitmapPosExact
<1>4. \A p, q \in S : p < q => BitmapPos(l, p) < BitmapPos(l, q)
  BY <1>1, <1>2, BitmapPosIncreasing
<1> DEFINE f == [p \in S |-> BitmapPos(l, p)]
<1>5. f \in Bijection(S, Marks(l, S))
  <2>1. f \in [S -> Marks(l, S)]
    BY DEF Marks
  <2>2. ASSUME NEW p \in S, NEW q \in S, f[p] = f[q] PROVE p = q
    <3>1. BitmapPos(l, p) = BitmapPos(l, q) /\ BitmapPos(l, p) \in Int /\ BitmapPos(l, q) \in Int
      BY <1>3, <2>2
    <3>2. ~(p < q) /\ ~(q < p)
      BY <1>4, <3>1
    <3>3. QED
      BY <1>2, <3>2
  <2>3. ASSUME NEW t \in Marks(l, S) PROVE \E p \in S : f[p] = t
    BY DEF Marks
  <2> HIDE DEF f
  <2>4. f \in Injection(S, Marks(l, S))
    BY <2>1, <2>2 DEF Injection, IsInjective
  <2>5. f \in Surjection(S, Marks(l, S))
    BY <2>1, <2>3 DEF Surjection
  <2>6. QED
    BY <2>4, <2>5 DEF Bijection
<1>6. IsFiniteSet(S)
  <2>1. S \in SUBSET (0 .. GetNumItems(l) - 1) /\ GetNumItems(l) - 1 \in Int
    BY <1>1, LevelIs DEF Items
  <2> DEFINE b == GetNumItems(l) - 1
  <2>2. S \in SUBSET (0 .. b) /\ b \in Int /\ 0 \in Int
    BY <2>1
  <2> HIDE DEF b, f
  <2>3. QED
    BY <2>2, BoundedFinite
<1> HIDE DEF f
<1>7. ExistsBijection(S, Marks(l, S))
  BY <1>5 DEF ExistsBijection
<1>8. Cardinality(Marks(l, S)) = Cardinality(S)
  BY <1>6, <1>7, FS_Bijection
<1>9. QED
  BY <1>3, <1>8 DEF Marks

(* And up to and with its own bit there is one more if it has one itself. *)
LEMMA MarksBelow ==
  ASSUME Fits, NEW l \in 0 .. sparse_start_level - 1, NEW S \in SUBSET Items(l), NEW p \in Items(l)
  PROVE  Cardinality(Below(Marks(l, S), BitmapPos(l, p) + 1)) = Cardinality(Below(S, p + 1))
<1>1. DenseInv /\ l \in Levels /\ l < height /\ node_counts[l] * Fanout <= PositionRange
      /\ l \in 0 .. height - 1
  BY DenseLevelIs DEF Fits
<1>2. \A q \in Items(l) : q \in 0 .. GetNumItems(l) - 1 /\ q \in Int
  <2>1. GetNumItems(l) \in Nat
    BY <1>1, LevelIs
  <2>2. QED
    BY <2>1 DEF Items
<1>3. \A q \in Items(l) : BitmapPos(l, q) \in Int
  BY <1>1, <1>2, BitmapPosExact
<1>4. \A q, s \in Items(l) : q < s => BitmapPos(l, q) < BitmapPos(l, s)
  BY <1>1, <1>2, BitmapPosIncreasing
<1>5. \A q \in Items(l) : BitmapPos(l, q) < BitmapPos(l, p) + 1 <=> q < p + 1
  <2> TAKE q \in Items(l)
  <2>1. q < p => BitmapPos(l, q) < BitmapPos(l, p)
    BY <1>4
  <2>2. p < q => BitmapPos(l, p) < BitmapPos(l, q)
    BY <1>4
  <2>3. q = p => BitmapPos(l, q) = BitmapPos(l, p)
    OBVIOUS
  <2>4. QED
    BY <1>2, <1>3, <2>1, <2>2, <2>3
<1>6. \A x : x \in Below(Marks(l, S), BitmapPos(l, p) + 1) <=> x \in Marks(l, Below(S, p + 1))
  <2> TAKE x
  <2>1. x \in Below(Marks(l, S), BitmapPos(l, p) + 1)
          <=> \E q \in S : x = BitmapPos(l, q) /\ x < BitmapPos(l, p) + 1
    BY Zenon DEF Below, Marks
  <2>2. x \in Marks(l, Below(S, p + 1)) <=> \E q \in S : x = BitmapPos(l, q) /\ q < p + 1
    BY Zenon DEF Below, Marks
  <2>3. QED
    BY <1>5, <2>1, <2>2
<1>7. Below(Marks(l, S), BitmapPos(l, p) + 1) = Marks(l, Below(S, p + 1))
  BY <1>6, Zenon
<1>8. Below(S, p + 1) \in SUBSET Items(l)
  BY DEF Below
<1>9. QED
  BY <1>7, <1>8, MarksCount

(* Where the bitmaps of the levels begin. *)
DenseStarts == [i \in 0 .. sparse_start_level |-> NodesAbove(i) * Fanout]

(* The bit of a label of a dense node. *)
LEMMA DensePosIs ==
  ASSUME Fits, NEW l \in 0 .. sparse_start_level - 1, NEW k \in 0 .. node_counts[l] - 1,
         NEW c \in Label
  PROVE  /\ k * Fanout + c \in 0 .. node_counts[l] * Fanout - 1
         /\ NodesAbove(l) * Fanout + (k * Fanout + c) = (NodesAbove(l) + k) * Fanout + c
         /\ DensePos(NodesAbove(l) + k, c) = (NodesAbove(l) + k) * Fanout + c
         /\ (NodesAbove(l) + k) * Fanout + c < NodesAbove(sparse_start_level) * Fanout
         /\ \A p \in Items(l) : BitmapPos(l, p) = k * Fanout + c <=> NodeItem(l, k, c, p)
<1>1. /\ l \in 0 .. height - 1 /\ l \in Levels /\ l < height
      /\ NodesAbove(l) \in Nat /\ NodesAbove(l + 1) \in Nat /\ node_counts[l] \in Nat
      /\ NodesAbove(l + 1) = NodesAbove(l) + node_counts[l]
      /\ NodesAbove(sparse_start_level) \in Nat
      /\ NodesAbove(sparse_start_level) * Fanout <= PositionRange
      /\ NodesAbove(l + 1) * Fanout <= NodesAbove(sparse_start_level) * Fanout
      /\ node_counts[l] * Fanout <= PositionRange
      /\ Fanout \in Nat \ {0}
  BY DenseLevelIs
<1>2. c \in 0 .. Fanout - 1 /\ PositionRange \in Nat \ {0} /\ DenseInv
  BY ConstantsAssumption DEF Label, Fits
<1> DEFINE x == k * Fanout + c
           a == NodesAbove(l)
           w == node_counts[l] * Fanout
<1>3. x \in 0 .. w - 1
  BY <1>1, <1>2, InsideNodes
<1>4. /\ a * Fanout + x = (a + k) * Fanout + c /\ a * Fanout \in Nat /\ w \in Nat
      /\ NodesAbove(l + 1) * Fanout = a * Fanout + w
      /\ NodesAbove(sparse_start_level) * Fanout \in Nat
  BY <1>1, <1>2
<1>5. a * Fanout + x \in Nat /\ a * Fanout + x < NodesAbove(sparse_start_level) * Fanout
  BY <1>1, <1>3, <1>4
<1>6. DensePos(a + k, c) = (a + k) * Fanout + c
  <2> DEFINE y == (a + k) * Fanout + c
  <2>1. y \in 0 .. PositionRange - 1
    BY <1>1, <1>2, <1>4, <1>5
  <2> HIDE DEF y
  <2>2. y % PositionRange = y
    BY <1>2, <2>1, NotWrapped
  <2>3. QED
    BY <2>2 DEF DensePos, y
<1>7. ASSUME NEW p \in Items(l)
      PROVE  BitmapPos(l, p) = x <=> NodeItem(l, k, c, p)
  <2>1. p \in 0 .. GetNumItems(l) - 1
    BY DEF Items
  <2>2. /\ BitmapPos(l, p) \div Fanout = NodeOf(l, p)
        /\ BitmapPos(l, p) % Fanout = labels[l][p + 1]
        /\ BitmapPos(l, p) \in 0 .. w - 1
    BY <1>1, <1>2, <2>1, BitmapPosExact
  <2>3. x \div Fanout = k /\ x % Fanout = c
    BY <1>1, <1>2, DivideBack
  <2> DEFINE b == BitmapPos(l, p)
             d == b \div Fanout
             m == b % Fanout
  <2>4. b = d * Fanout + m
    <3>1. b \in Int
      BY <1>3, <1>4, <2>2
    <3> HIDE DEF b
    <3>2. QED
      BY <1>1, <3>1, DivMod
  <2>5. CASE b = x
    BY <2>2, <2>3, <2>5 DEF NodeItem
  <2>6. CASE NodeItem(l, k, c, p)
    <3>1. d = k /\ m = c
      BY <2>2, <2>6 DEF NodeItem
    <3> HIDE DEF d, m, b
    <3>2. b = x
      BY <2>4, <3>1
    <3>3. QED
      BY <3>2, <2>6 DEF b
  <2>7. QED
    BY <2>5, <2>6
<1> HIDE DEF x
<1>8. QED
  BY <1>3, <1>4, <1>5, <1>6, <1>7 DEF x

-------------------------------------------------------------------------------
(* What the lookups need of the builder *)

(* The values of every level were collected. *)
AllCollected ==
  \A l \in 0 .. height - 1 :
    IF l < sparse_start_level THEN LeavesBetween(0, l + 1) <= Len(values_dense)
    ELSE LeavesBetween(sparse_start_level, l + 1) <= Len(values_sparse)

(* What the lookups need of the builder, besides the entries. *)
BuiltInv ==
  /\ StoredInv
  /\ HandoverInv
  /\ pc = "done" => Len(dense) = sparse_start_level /\ height > 0
  /\ pc \in {"skip", "rest", "store"} \/ ~input.include_dense =>
       sparse_start_level = 0 /\ dense = << >>
  /\ pc \in {"collect", "dense", "done"} /\ input.include_dense => sparse_start_level > 0
  /\ ValuesCleared => AllCollected

(* The sparse encoding of a trie is not empty, a dense one without a level is. *)
LEMMA MemoryIs ==
  ASSUME TypeInv, height > 0
  PROVE  ComputeDenseMem(0) = 0 /\ ComputeSparseMem(0) \in Nat /\ ComputeSparseMem(0) > 0
<1> DEFINE f(l) == GetNumItems(l) + ((2 * GetNumItems(l)) % PositionRange) \div 8 + 1
           S == 0 .. height - 1
           sum == CHOOSE g : g = [s \in SUBSET S |->
                    IF s = {} THEN 0 ELSE f(PickLevel(s)) + g[s \ {PickLevel(s)}]]
           d(l) == ((2 * Fanout * node_counts[l]) % PositionRange)
                    + (IF l > 0 THEN node_counts[l - 1] \div 8 + 1 ELSE 0)
           D == 0 .. 0 - 1
           none == CHOOSE g : g = [s \in SUBSET D |->
                    IF s = {} THEN 0 ELSE d(PickLevel(s)) + g[s \ {PickLevel(s)}]]
<1>1. ComputeSparseMem(0) = sum[S]
  BY DEF ComputeSparseMem, MapThenSumSet, MapThenFoldSet, PickLevel
<1>2. ComputeDenseMem(0) = none[D]
  BY DEF ComputeDenseMem, MapThenSumSet, MapThenFoldSet, PickLevel
<1>3. none[D] = 0
  <2>1. D = {}
    OBVIOUS
  <2> HIDE DEF d, D
  <2>2. [s \in SUBSET D |-> 0]
          = [s \in SUBSET D |->
               IF s = {} THEN 0
               ELSE d(PickLevel(s)) + [t \in SUBSET D |-> 0][s \ {PickLevel(s)}]]
    BY <2>1
  <2>3. none = [s \in SUBSET D |->
                  IF s = {} THEN 0 ELSE d(PickLevel(s)) + none[s \ {PickLevel(s)}]]
    BY <2>2
  <2> HIDE DEF none
  <2>4. D \in SUBSET D
    OBVIOUS
  <2>5. QED
    BY <2>1, <2>3, <2>4
<1>4. /\ height \in Nat /\ 0 \in S /\ IsFiniteSet(S)
      /\ \A l \in S : f(l) \in Nat /\ f(l) > 0
  <2>1. height \in 0 .. MaxLevel + 1 /\ labels \in [Levels -> Seq(Label)] /\ MaxLevel \in Nat
        /\ PositionRange \in Nat \ {0}
    BY ConstantsAssumption DEF TypeInv, TypeOK
  <2>2. 0 \in S /\ IsFiniteSet(S)
    BY <2>1, FS_Interval
  <2>3. ASSUME NEW l \in S
        PROVE  f(l) \in Nat /\ f(l) > 0
    <3>1. l \in Levels
      BY <2>1 DEF Levels
    <3> DEFINE n == GetNumItems(l)
               m == (2 * n) % PositionRange
               q == m \div 8
    <3>2. n \in Nat
      BY <2>1, <3>1 DEF GetNumItems
    <3> HIDE DEF n
    <3>3. m \in Nat
      BY <2>1, <3>2
    <3> HIDE DEF m
    <3>4. q \in Nat
      BY <3>3
    <3> HIDE DEF q
    <3>5. n + q + 1 \in Nat /\ n + q + 1 > 0
      BY <3>2, <3>4
    <3>6. QED
      BY <3>5 DEF n, m, q
  <2>4. QED
    BY <2>1, <2>2, <2>3
<1> HIDE DEF f, S
<1>5. sum = [s \in SUBSET S |->
               IF s = {} THEN 0 ELSE f(PickLevel(s)) + sum[s \ {PickLevel(s)}]]
  <2> DEFINE c == [l \in S |-> f(l)]
  <2>1. c \in [S -> Nat] /\ \A l \in S : c[l] = f(l)
    BY <1>4
  <2> HIDE DEF c
  <2>2. PICK h : AddsUp(h, S, c)
    BY <1>4, <2>1, SumExists
  <2>3. \A s \in SUBSET S : s # {} => c[PickLevel(s)] = f(PickLevel(s))
    BY <2>1 DEF PickLevel
  <2>4. h = [s \in SUBSET S |->
               IF s = {} THEN 0 ELSE f(PickLevel(s)) + h[s \ {PickLevel(s)}]]
    BY <2>2, <2>3 DEF AddsUp
  <2>5. QED
    BY <2>4
<1> HIDE DEF sum
<1> DEFINE P == {s \in SUBSET S : sum[s] \in Nat /\ (s # {} => sum[s] > 0)}
<1>6. {} \in P
  BY <1>5
<1>7. ASSUME NEW s \in SUBSET S, s # {}, \A x \in s : s \ {x} \in P
      PROVE  s \in P
  <2> DEFINE x == PickLevel(s)
  <2>1. x \in s
    BY <1>7 DEF PickLevel
  <2>2. sum[s] = f(x) + sum[s \ {x}]
    BY <1>5, <1>7
  <2> HIDE DEF x
  <2>3. sum[s \ {x}] \in Nat /\ f(x) \in Nat /\ f(x) > 0
    BY <1>4, <1>7, <2>1
  <2>4. QED
    BY <2>2, <2>3
<1> HIDE DEF P
<1>8. \A s \in SUBSET S : s \in P
  BY <1>4, <1>6, <1>7, SubsetInduct
<1>9. sum[S] \in Nat /\ sum[S] > 0
  BY <1>4, <1>8 DEF P
<1>10. QED
  BY <1>1, <1>2, <1>3, <1>9

(* The first level is always encoded densely: no level costs nothing. *)
LEMMA CutoffPositive ==
  ASSUME TypeInv, DetermineCutoffLevel
  PROVE  sparse_start_level' > 0 /\ sparse_start_level' \in Nat
<1>1. PICK c \in 0 .. height : ~CutoffGoesOn(c) /\ sparse_start_level' = c
  BY DEF DetermineCutoffLevel
<1>2. height > 0 /\ height \in Nat /\ input.ratio \in Nat
  <2>1. pc = "cutoff"
    BY DEF DetermineCutoffLevel
  <2>2. height > 0 /\ input \in Inputs
    BY <2>1 DEF TypeInv, StructInv
  <2>3. input \in InputType /\ height \in 0 .. MaxLevel + 1
    BY DEF TypeInv, TypeOK
  <2>4. input.ratio \in Nat
    BY <2>3 DEF InputType
  <2>5. QED
    BY <2>2, <2>3, <2>4
<1>3. CutoffGoesOn(0)
  <2>1. ComputeDenseMem(0) = 0 /\ ComputeSparseMem(0) \in Nat /\ ComputeSparseMem(0) > 0
    BY <1>2, MemoryIs
  <2>2. 0 * input.ratio = 0
    BY <1>2
  <2>3. ComputeDenseMem(0) * input.ratio < ComputeSparseMem(0)
    BY <2>1, <2>2
  <2>4. QED
    BY <1>2, <2>3 DEF CutoffGoesOn
<1>4. c # 0
  BY <1>1, <1>3
<1>5. QED
  BY <1>1, <1>2, <1>4

(* Nothing is built yet. *)
LEMMA BuiltInit == ASSUME SortedInputs, Init PROVE BuiltInv
<1>1. StoredInv /\ HandoverInv
  BY StoredInit, HandoverInit
<1>2. pc = "skip" /\ sparse_start_level = 0 /\ dense = << >>
  BY DEF Init
<1>3. QED
  BY <1>1, <1>2 DEF BuiltInv, ValuesCleared

(* The last turn of the loop that collects the values has collected all. *)
LEMMA CollectsAll ==
  ASSUME BuiltInv, CollectValues, ValuesCleared'
  PROVE  AllCollected'
<1>1. DenseInv /\ CollectInv /\ TypeInv
  BY DEF BuiltInv, StoredInv, DenseInv, SortedInv, LoudsInv
<1>2. PICK vd, vs, n : /\ vd = values_dense' /\ vs = values_sparse' /\ n = level + 1
                       /\ CollectedTo(vd, vs, n)
  BY <1>1, CollectsLevel
<1>3. /\ labels' = labels /\ child_indicator_bits' = child_indicator_bits
      /\ height' = height /\ sparse_start_level' = sparse_start_level
  BY DEF CollectValues, sparseVars
<1>4. n = height
  <2>1. pc = "collect" /\ ~(level + 1 < height)
    BY DEF ValuesCleared, CollectValues
  <2>2. level < height /\ level \in 0 .. MaxLevel + 1 /\ height \in 0 .. MaxLevel + 1
        /\ MaxLevel \in Nat
    BY <1>1, <2>1, ConstantsAssumption DEF TypeInv, TypeOK, StructInv
  <2>3. QED
    BY <1>2, <2>1, <2>2
<1>5. \A l \in 0 .. height - 1 : Collected(vd, vs, values[l], l)
  BY <1>2, <1>4, Zenon DEF CollectedTo
<1>6. \A from, to : LeavesBetween(from, to)' = LeavesBetween(from, to)
  BY <1>3, SameLeavesBetween
<1>7. ASSUME NEW l \in 0 .. height - 1
      PROVE  IF l < sparse_start_level THEN LeavesBetween(0, l + 1)' <= Len(values_dense')
             ELSE LeavesBetween(sparse_start_level, l + 1)' <= Len(values_sparse')
  <2>1. Collected(vd, vs, values[l], l)
    BY <1>5
  <2>2. CASE l < sparse_start_level
    <3>1. LeavesBetween(0, l + 1) <= Len(vd)
      BY <2>1, <2>2 DEF Collected
    <3>2. LeavesBetween(0, l + 1)' = LeavesBetween(0, l + 1)
      BY <1>6
    <3>3. QED
      BY <1>2, <2>2, <3>1, <3>2
  <2>3. CASE ~(l < sparse_start_level)
    <3>1. LeavesBetween(sparse_start_level, l + 1) <= Len(vs)
      BY <2>1, <2>3 DEF Collected
    <3>2. LeavesBetween(sparse_start_level, l + 1)' = LeavesBetween(sparse_start_level, l + 1)
      BY <1>3, <1>6
    <3>3. QED
      BY <1>2, <2>3, <3>1, <3>2
  <2>4. QED
    BY <2>2, <2>3
<1>8. QED
  BY <1>3, <1>7 DEF AllCollected

(* They stay collected. *)
LEMMA SameCollected ==
  ASSUME AllCollected, labels' = labels, child_indicator_bits' = child_indicator_bits,
         height' = height, sparse_start_level' = sparse_start_level,
         values_dense' = values_dense, values_sparse' = values_sparse
  PROVE  AllCollected'
<1>1. \A from, to : LeavesBetween(from, to)' = LeavesBetween(from, to)
  BY SameLeavesBetween
<1>2. ASSUME NEW l \in 0 .. height - 1
      PROVE  IF l < sparse_start_level THEN LeavesBetween(0, l + 1)' <= Len(values_dense')
             ELSE LeavesBetween(sparse_start_level, l + 1)' <= Len(values_sparse')
  BY <1>1 DEF AllCollected
<1>3. QED
  BY <1>2 DEF AllCollected

(* Every step keeps what the lookups need. *)
LEMMA BuiltStep ==
  ASSUME SortedInputs, BuiltInv, [Next]_vars
  PROVE  BuiltInv'
<1>1. StoredInv' /\ HandoverInv'
  BY StoredStep, HandoverStep DEF BuiltInv
<1>2. TypeInv /\ input' = input
  <2>1. TypeInv
    BY DEF BuiltInv, StoredInv, DenseInv, SortedInv, LoudsInv
  <2>2. input' = input
    BY DEF Next, SkipCommonPrefix, InsertFirstByte, InsertNextByte, StoreValue,
           DetermineCutoffLevel, CollectValues, BuildDenseLevel, FinishBuild, Terminated, vars
  <2>3. QED
    BY <2>1, <2>2
<1>3. /\ pc = "done" => Len(dense) = sparse_start_level /\ height > 0
      /\ pc \in {"skip", "rest", "store"} \/ ~input.include_dense =>
           sparse_start_level = 0 /\ dense = << >>
      /\ pc \in {"collect", "dense", "done"} /\ input.include_dense => sparse_start_level > 0
      /\ ValuesCleared => AllCollected
      /\ pc = "dense" => Len(dense) = level
  BY DEF BuiltInv, HandoverInv
<1>4. /\ pc \in {"cutoff", "collect", "dense"} => input.include_dense
      /\ pc \in {"rest", "store"} => level >= 1 /\ level <= height
      /\ height \in Nat /\ level \in Nat /\ sparse_start_level \in Nat
      /\ sparse_start_level <= height
  <2>1. /\ pc \in {"cutoff", "collect", "dense"} => input.include_dense
        /\ pc \in {"rest", "store"} => level >= 1 /\ level <= height
    BY <1>2 DEF TypeInv, StructInv
  <2>2. height \in Nat /\ level \in Nat /\ sparse_start_level \in Nat
    BY <1>2, ConstantsAssumption DEF TypeInv, TypeOK
  <2>3. sparse_start_level <= height
    BY DEF BuiltInv, HandoverInv
  <2>4. QED
    BY <2>1, <2>2, <2>3
<1>5. CASE SkipCommonPrefix \/ InsertFirstByte \/ InsertNextByte
  <2>1. pc' \in {"skip", "rest", "store"} /\ pc \in {"skip", "rest", "store"}
        /\ sparse_start_level' = sparse_start_level /\ dense' = dense
    BY <1>5 DEF SkipCommonPrefix, InsertFirstByte, InsertNextByte, denseVars
  <2>2. QED
    BY <1>1, <1>2, <1>3, <2>1 DEF BuiltInv, ValuesCleared
<1>6. CASE StoreValue
  <2>1. /\ pc \in {"rest", "store"} /\ height' = height
        /\ pc' = "skip" \/ (pc' = "cutoff" /\ input.include_dense)
             \/ (pc' = "done" /\ ~input.include_dense)
        /\ sparse_start_level' = sparse_start_level /\ dense' = dense
    BY <1>6 DEF StoreValue, denseVars, sparseVars
  <2>2. height > 0
    BY <1>4, <2>1
  <2>3. QED
    BY <1>1, <1>2, <1>3, <2>1, <2>2 DEF BuiltInv, ValuesCleared
<1>7. CASE DetermineCutoffLevel
  <2>1. pc = "cutoff" /\ pc' = "collect"
    BY <1>7 DEF DetermineCutoffLevel
  <2>2. sparse_start_level' > 0
    BY <1>2, <1>7, CutoffPositive
  <2>3. QED
    BY <1>1, <1>2, <1>4, <2>1, <2>2 DEF BuiltInv, ValuesCleared
<1>8. CASE CollectValues
  <2>1. pc = "collect" /\ pc' \in {"collect", "dense"}
        /\ sparse_start_level' = sparse_start_level
    BY <1>8 DEF CollectValues
  <2>2. ValuesCleared' => AllCollected'
    BY <1>8, CollectsAll
  <2>3. QED
    BY <1>1, <1>2, <1>3, <1>4, <2>1, <2>2 DEF BuiltInv
<1>9. CASE BuildDenseLevel \/ FinishBuild
  <2>1. /\ pc = "dense" /\ input.include_dense
        /\ labels' = labels /\ child_indicator_bits' = child_indicator_bits
        /\ height' = height /\ sparse_start_level' = sparse_start_level
        /\ values_dense' = values_dense /\ values_sparse' = values_sparse
    BY <1>4, <1>9 DEF BuildDenseLevel, FinishBuild, sparseVars, denseVars
  <2>2. AllCollected'
    BY <1>3, <2>1, SameCollected DEF ValuesCleared
  <2>3. pc' = "done" => Len(dense') = sparse_start_level' /\ height' > 0
    BY <1>3, <1>4, <1>9, <2>1 DEF BuildDenseLevel, FinishBuild, denseVars
  <2>4. pc' \in {"dense", "done"} /\ sparse_start_level' > 0
    BY <1>3, <1>9, <2>1 DEF BuildDenseLevel, FinishBuild
  <2>5. QED
    BY <1>1, <1>2, <2>1, <2>2, <2>3, <2>4 DEF BuiltInv
<1>10. CASE Terminated \/ UNCHANGED vars
  <2>1. /\ pc' = pc /\ dense' = dense
        /\ labels' = labels /\ child_indicator_bits' = child_indicator_bits
        /\ height' = height /\ sparse_start_level' = sparse_start_level
        /\ values_dense' = values_dense /\ values_sparse' = values_sparse
    BY <1>10 DEF Terminated, vars, sparseVars, denseVars
  <2>2. ValuesCleared' => AllCollected'
    BY <1>2, <1>3, <2>1, SameCollected DEF ValuesCleared
  <2>3. QED
    BY <1>1, <1>2, <1>3, <2>1, <2>2 DEF BuiltInv
<1>11. QED
  BY <1>5, <1>6, <1>7, <1>8, <1>9, <1>10 DEF Next

(* The leaves of the levels above one are their items that are no nodes below
   them. *)
LEMMA LeavesAbove ==
  ASSUME DenseInv, NEW from \in 0 .. height - 1, NEW l \in from .. height - 1
  PROVE  /\ LeavesBetween(from, l)
              = (ItemsAbove(l) - ItemsAbove(from)) - (NodesAbove(l + 1) - NodesAbove(from + 1))
         /\ LeavesBetween(from, l) \in Nat
         /\ LeavesBetween(from, l + 1) = LeavesBetween(from, l) + Cardinality(Leaves(l))
         /\ ItemsAbove(l) \in Int /\ ItemsAbove(from) \in Int
         /\ NodesAbove(l + 1) \in Int /\ NodesAbove(from + 1) \in Int
<1> DEFINE i(m) == ItemsAbove(m)
           a(m) == NodesAbove(m)
           v(m) == LeavesBetween(from, m)
           n(m) == Cardinality(Leaves(m))
           P == {d \in Nat : from + d <= l =>
                   v(from + d) = (i(from + d) - i(from)) - (a(from + d + 1) - a(from + 1))}
<1>0. TypeInv /\ height \in Nat /\ height <= MaxLevel + 1 /\ from \in Nat /\ l \in Nat /\ MaxLevel \in Nat
  <2>1. TypeInv
    BY DEF DenseInv, SortedInv, LoudsInv
  <2>2. height \in 0 .. MaxLevel + 1 /\ MaxLevel \in Nat
    BY <2>1, ConstantsAssumption DEF TypeInv, TypeOK
  <2>3. QED
    BY <2>1, <2>2
<1>1. \A m \in 0 .. height - 1 : /\ i(m) \in Int /\ a(m + 1) \in Int
                                 /\ i(m + 1) = i(m) + GetNumItems(m)
                                 /\ GetNumItems(m) \in Nat
  <2> SUFFICES ASSUME NEW m \in 0 .. height - 1
               PROVE  /\ i(m) \in Int /\ a(m + 1) \in Int
                      /\ i(m + 1) = i(m) + GetNumItems(m)
                      /\ GetNumItems(m) \in Nat
    OBVIOUS
  <2>1. m \in Levels
    BY <1>0 DEF Levels
  <2>2. i(m) \in Int /\ i(m + 1) = i(m) + GetNumItems(m) /\ GetNumItems(m) \in Nat
    BY <1>0, <2>1, ItemsAboveIs
  <2>3. a(m + 1) \in Int
    BY AboveIs
  <2>4. QED
    BY <2>2, <2>3
<1>2. v(from) = 0
  <2>1. from \in from .. MaxLevel + 1
    BY <1>0
  <2>2. QED
    BY <1>0, <2>1, LeavesBetweenIs
<1>3. \A m \in from .. height - 1 : v(m) \in Nat /\ v(m + 1) = v(m) + n(m)
  <2> SUFFICES ASSUME NEW m \in from .. height - 1
               PROVE  v(m) \in Nat /\ v(m + 1) = v(m) + n(m)
    OBVIOUS
  <2>1. m \in from .. MaxLevel + 1 /\ m \in Levels
    BY <1>0 DEF Levels
  <2>2. QED
    BY <1>0, <2>1, LeavesBetweenIs
<1>4. \A m \in 0 .. height - 1 : m + 1 < height =>
        n(m) = GetNumItems(m) - (a(m + 2) - a(m + 1))
  <2> SUFFICES ASSUME NEW m \in 0 .. height - 1, m + 1 < height
               PROVE  n(m) = GetNumItems(m) - (a(m + 2) - a(m + 1))
    OBVIOUS
  <2> DEFINE c == child_indicator_bits[m]
             t == m + 1
  <2>1. t \in 0 .. height - 1 /\ t + 1 = m + 2
    BY <1>0
  <2> HIDE DEF t
  <2>2. a(t + 1) = a(t) + node_counts[t] /\ node_counts[t] \in Nat /\ a(t) \in Nat
    BY <2>1, AboveIs
  <2>3. /\ GetNumItems(m) \in Nat /\ c \in SUBSET (0 .. GetNumItems(m) - 1)
        /\ node_counts[t] = Cardinality(c)
    BY LevelIs DEF Items, t
  <2>4. LeavesCount(GetNumItems(m), c, Leaves(m))
    BY <2>3, LeafCounts DEF Leaves
  <2>5. n(m) = GetNumItems(m) - Cardinality(c)
    BY <2>4 DEF LeavesCount
  <2>6. a(t) = a(m + 1) /\ a(t + 1) = a(m + 2)
    BY <2>1 DEF t
  <2> HIDE DEF a, n, c
  <2>7. QED
    BY <2>2, <2>3, <2>5, <2>6
<1> HIDE DEF i, a, v, n
<1>5. 0 \in P
  <2>1. from + 0 = from /\ from + 0 + 1 = from + 1 /\ i(from) \in Int /\ a(from + 1) \in Int
    BY <1>0, <1>1
  <2>2. QED
    BY <1>2, <2>1
<1>6. \A d \in Nat : d \in P => d + 1 \in P
  <2> SUFFICES ASSUME NEW d \in Nat, d \in P, from + (d + 1) <= l
               PROVE  v(from + (d + 1))
                        = (i(from + (d + 1)) - i(from)) - (a(from + (d + 1) + 1) - a(from + 1))
    OBVIOUS
  <2> DEFINE m == from + d
  <2>1. /\ m \in from .. height - 1 /\ m \in 0 .. height - 1 /\ m + 1 < height
        /\ from + (d + 1) = m + 1 /\ from + (d + 1) + 1 = m + 2
    BY <1>0
  <2>2. v(m) = (i(m) - i(from)) - (a(m + 1) - a(from + 1))
    BY <1>0, <2>1
  <2> HIDE DEF m, P
  <2>3. v(m + 1) = v(m) + n(m) /\ n(m) = GetNumItems(m) - (a(m + 2) - a(m + 1))
        /\ i(m + 1) = i(m) + GetNumItems(m)
    BY <1>1, <1>3, <1>4, <2>1
  <2>4. /\ i(m) \in Int /\ i(from) \in Int /\ a(m + 1) \in Int /\ a(from + 1) \in Int
        /\ GetNumItems(m) \in Nat
    BY <1>1, <2>1
  <2>5. a(m + 2) \in Int
    <3> DEFINE t == m + 1
    <3>1. t \in 0 .. height - 1 /\ t + 1 = m + 2
      BY <1>0, <2>1
    <3> HIDE DEF t
    <3>2. a(t + 1) \in Int
      BY <1>1, <3>1
    <3>3. QED
      BY <3>1, <3>2
  <2>6. v(m + 1) = (i(m + 1) - i(from)) - (a(m + 2) - a(from + 1))
    BY <2>2, <2>3, <2>4, <2>5
  <2>7. QED
    BY <2>1, <2>6
<1> HIDE DEF P
<1>7. \A d \in Nat : d \in P
  BY <1>5, <1>6, NatInduct
<1>8. v(l) = (i(l) - i(from)) - (a(l + 1) - a(from + 1))
  <2> DEFINE d == l - from
  <2>1. d \in Nat /\ from + d = l /\ l <= l
    BY <1>0
  <2> HIDE DEF d
  <2>2. d \in P
    BY <1>7, <2>1
  <2>3. QED
    BY <2>1, <2>2 DEF P
<1>9. l \in 0 .. height - 1
  BY <1>0
<1>10. QED
  BY <1>1, <1>3, <1>8, <1>9 DEF i, a, v, n

(* The rank of a leaf in its level, counted by the child bits before it. *)
LEMMA LeafRankByBits ==
  ASSUME DenseInv, NEW l \in 0 .. height - 1, NEW p \in Leaves(l)
  PROVE  /\ LeafRank(l, p) = p + 1 - Cardinality(Below(child_indicator_bits[l], p + 1))
         /\ Cardinality(Below(child_indicator_bits[l], p + 1)) \in Nat /\ p \in Nat
<1> DEFINE n == GetNumItems(l)
           C == child_indicator_bits[l]
           m == p + 1
           B == Below(C, m)
           L == (0 .. m - 1) \ B
<1>1. n \in Nat /\ C \in SUBSET (0 .. n - 1) /\ Leaves(l) = (0 .. n - 1) \ C
  BY LevelIs DEF Items, Leaves
<1>2. p \in 0 .. n - 1 /\ p \in Nat /\ m \in Nat /\ m - 1 = p
  BY <1>1
<1>3. B \in SUBSET (0 .. m - 1)
  <2>1. \A q \in B : q \in 0 .. m - 1
    BY <1>1, <1>2 DEF Below
  <2>2. QED
    BY <2>1
<1>4. LeavesCount(m, B, L)
  <2> HIDE DEF B, m
  <2>1. QED
    BY <1>2, <1>3, LeafCounts
<1>5. \A q : q \in L <=> q \in {x \in Leaves(l) : x <= p}
  BY <1>1, <1>2 DEF Below
<1>6. L = {x \in Leaves(l) : x <= p}
  <2> HIDE DEF L
  <2>1. QED
    BY <1>5, Zenon
<1>7. LeafRank(l, p) = Cardinality(L)
  BY <1>6 DEF LeafRank
<1>8. Cardinality(L) = m - Cardinality(B)
  BY <1>4 DEF LeavesCount
<1>9. Cardinality(B) \in Nat
  <2>1. IsFiniteSet(0 .. m - 1)
    BY <1>2, FS_Interval
  <2>2. QED
    BY <1>3, <2>1, FS_Subset, FS_CardinalityType
<1>10. QED
  BY <1>2, <1>7, <1>8, <1>9

(* The values at the places of the leaves of a level among those of its part. *)
LEMMA SliceGives ==
  ASSUME NEW vs \in Seq(Nat), NEW a \in Nat, NEW n \in Nat, a + n <= Len(vs)
  PROVE  /\ Len(SubSeq(vs, a + 1, a + n)) = n
         /\ \A r \in 1 .. n : /\ SubSeq(vs, a + 1, a + n)[r] = ValueAt(vs, a + r - 1)
                              /\ ValueAt(vs, a + r - 1) \in Nat
<1>1. \A i \in a + 1 .. a + n : vs[i] \in Nat
  OBVIOUS
<1>2. /\ Len(SubSeq(vs, a + 1, a + n)) = IF a + 1 <= a + n THEN a + n - (a + 1) + 1 ELSE 0
      /\ \A i \in 1 .. a + n - (a + 1) + 1 : SubSeq(vs, a + 1, a + n)[i] = vs[a + 1 + i - 1]
  <2>1. a + 1 \in Int /\ a + n \in Int
    OBVIOUS
  <2>2. QED
    BY <1>1, <2>1, SubSeqProperties
<1>3. Len(SubSeq(vs, a + 1, a + n)) = n
  BY <1>2
<1>4. ASSUME NEW r \in 1 .. n
      PROVE  SubSeq(vs, a + 1, a + n)[r] = vs[a + r]
  <2>1. r \in 1 .. a + n - (a + 1) + 1 /\ a + 1 + r - 1 = a + r
    OBVIOUS
  <2>2. QED
    BY <1>2, <2>1
<1>5. ASSUME NEW r \in 1 .. n
      PROVE  a + r \in DOMAIN vs /\ (a + r - 1) + 1 = a + r /\ vs[a + r] \in Nat
  OBVIOUS
<1>6. QED
  BY <1>3, <1>4, <1>5 DEF ValueAt

(* The same for the levels that were collected. *)
LEMMA CollectedGives ==
  ASSUME BuiltInv, pc = "done", input.include_dense, NEW l \in 0 .. height - 1
  PROVE  /\ l < sparse_start_level => \A p \in Leaves(l) :
              /\ LeafEntry(l, p)[2]
                   = ValueAt(values_dense, LeavesBetween(0, l) + LeafRank(l, p) - 1)
              /\ LeafEntry(l, p)[2] \in Nat
         /\ ~(l < sparse_start_level) => \A p \in Leaves(l) :
              /\ LeafEntry(l, p)[2]
                   = ValueAt(values_sparse,
                             LeavesBetween(sparse_start_level, l) + LeafRank(l, p) - 1)
              /\ LeafEntry(l, p)[2] \in Nat
         /\ Len(ValuesOf(l)) = Cardinality(Leaves(l))
<1>1. DenseInv /\ TypeInv /\ ValuesCleared /\ AllCollected
  BY DEF BuiltInv, StoredInv, DenseInv, SortedInv, LoudsInv, ValuesCleared
<1>2. /\ values_dense \in Seq(Nat) /\ values_sparse \in Seq(Nat)
      /\ sparse_start_level \in Nat /\ height \in Nat /\ l \in Nat /\ 0 \in 0 .. height - 1
  <2>1. /\ values_dense \in Seq(Nat) /\ values_sparse \in Seq(Nat)
        /\ sparse_start_level \in Nat /\ height \in Nat
    BY <1>1, ConstantsAssumption DEF TypeInv, TypeOK
  <2>2. QED
    BY <2>1
<1>3. \A p \in Leaves(l) : LeafRank(l, p) \in 1 .. Cardinality(Leaves(l))
  BY <1>1, LeafRankIs
<1>4. Cardinality(Leaves(l)) \in Nat
  <2>1. GetNumItems(l) \in Nat /\ child_indicator_bits[l] \in SUBSET (0 .. GetNumItems(l) - 1)
    BY <1>1, LevelIs DEF Items
  <2>2. LeavesCount(GetNumItems(l), child_indicator_bits[l], Leaves(l))
    BY <2>1, LeafCounts DEF Leaves
  <2>3. QED
    BY <2>2 DEF LeavesCount
<1>5. \A p : LeafEntry(l, p)[2] = ValuesOf(l)[LeafRank(l, p)]
  BY DEF LeafEntry
<1> DEFINE n == Cardinality(Leaves(l))
<1>6. CASE l < sparse_start_level
  <2> DEFINE a == LeavesBetween(0, l)
             w == SubSeq(values_dense, a + 1, a + n)
  <2>1. a \in Nat /\ LeavesBetween(0, l + 1) = a + n
    <3>1. l \in 0 .. height - 1
      OBVIOUS
    <3>2. QED
      BY <1>1, <1>2, <3>1, LeavesAbove
  <2>2. a + n <= Len(values_dense)
    <3>1. LeavesBetween(0, l + 1) <= Len(values_dense)
      BY <1>1, <1>6 DEF AllCollected
    <3>2. QED
      BY <2>1, <3>1
  <2>3. ValuesOf(l) = w
    BY <1>1, <1>6, <2>1 DEF ValuesOf
  <2> HIDE DEF a, n
  <2>4. /\ Len(w) = n
        /\ \A r \in 1 .. n : /\ w[r] = ValueAt(values_dense, a + r - 1)
                             /\ ValueAt(values_dense, a + r - 1) \in Nat
    <3>0. n \in Nat
      BY <1>4 DEF n
    <3>1. QED
      BY <1>2, <2>1, <2>2, <3>0, SliceGives
  <2> HIDE DEF w
  <2>5. Len(ValuesOf(l)) = n
    BY <2>3, <2>4
  <2>6. \A p \in Leaves(l) : LeafRank(l, p) \in 1 .. n
    BY <1>3 DEF n
  <2>7. \A p \in Leaves(l) : /\ LeafEntry(l, p)[2] = ValueAt(values_dense, a + LeafRank(l, p) - 1)
                             /\ LeafEntry(l, p)[2] \in Nat
    BY <1>5, <2>3, <2>4, <2>6
  <2>8. QED
    BY <1>6, <2>5, <2>7 DEF a, n
<1>7. CASE ~(l < sparse_start_level)
  <2> DEFINE a == LeavesBetween(sparse_start_level, l)
             w == SubSeq(values_sparse, a + 1, a + n)
  <2>1. a \in Nat /\ LeavesBetween(sparse_start_level, l + 1) = a + n
    <3>1. sparse_start_level \in 0 .. height - 1 /\ l \in sparse_start_level .. height - 1
      BY <1>2, <1>7
    <3>2. QED
      BY <1>1, <3>1, LeavesAbove
  <2>2. a + n <= Len(values_sparse)
    <3>1. LeavesBetween(sparse_start_level, l + 1) <= Len(values_sparse)
      BY <1>1, <1>7 DEF AllCollected
    <3>2. QED
      BY <2>1, <3>1
  <2>3. ValuesOf(l) = w
    BY <1>1, <1>7, <2>1 DEF ValuesOf
  <2> HIDE DEF a, n
  <2>4. /\ Len(w) = n
        /\ \A r \in 1 .. n : /\ w[r] = ValueAt(values_sparse, a + r - 1)
                             /\ ValueAt(values_sparse, a + r - 1) \in Nat
    <3>0. n \in Nat
      BY <1>4 DEF n
    <3>1. QED
      BY <1>2, <2>1, <2>2, <3>0, SliceGives
  <2> HIDE DEF w
  <2>5. Len(ValuesOf(l)) = n
    BY <2>3, <2>4
  <2>6. \A p \in Leaves(l) : LeafRank(l, p) \in 1 .. n
    BY <1>3 DEF n
  <2>7. \A p \in Leaves(l) : /\ LeafEntry(l, p)[2] = ValueAt(values_sparse, a + LeafRank(l, p) - 1)
                             /\ LeafEntry(l, p)[2] \in Nat
    BY <1>5, <2>3, <2>4, <2>6
  <2>8. QED
    BY <1>7, <2>5, <2>7 DEF a, n
<1>8. QED
  BY <1>6, <1>7

(* A build that is done holds the entries of all keys, each leaf its value. *)
LEMMA BuiltComplete ==
  ASSUME BuiltInv, pc = "done"
  PROVE  Complete
<1>1. DenseInv /\ KeysInv /\ entries = StoredUpTo(cur - 1) /\ TypeInv
  BY DEF BuiltInv, StoredInv, DenseInv, SortedInv, LoudsInv
<1>2. entries = Abs!AllEntries
  <2>1. cur = NumKeys + 1 /\ input \in Inputs
    BY <1>1 DEF KeysInv, Scanning, DenseInv, SortedInv, LoudsInv, TypeInv, StructInv
  <2>2. NumKeys \in Nat /\ cur - 1 = NumKeys
    BY <2>1, InputFacts
  <2>3. entries = StoredUpTo(NumKeys)
    BY <1>1, <2>2
  <2>4. QED
    BY <2>3, Zenon DEF StoredUpTo, Abs!AllEntries, Abs!Indices, NumKeys
<1>3. ASSUME NEW l \in 0 .. height - 1
      PROVE  Len(ValuesOf(l)) = Cardinality(Leaves(l))
  <2>1. CASE input.include_dense
    BY <2>1, CollectedGives
  <2>2. CASE ~input.include_dense
    <3>1. ~ValuesCleared
      BY <2>2 DEF ValuesCleared
    <3>2. Len(values[l]) = Cardinality(Leaves(l)) - Pending(l) /\ Cardinality(Leaves(l)) \in Nat
      BY <1>1, <3>1, ValuedNow
    <3>3. Pending(l) = 0 /\ ValuesOf(l) = values[l]
      BY <3>1 DEF Pending, ValuesOf
    <3>4. QED
      BY <3>2, <3>3
  <2>3. QED
    BY <2>1, <2>2
<1>4. QED
  BY <1>1, <1>2, <1>3 DEF Complete, AllValued

-------------------------------------------------------------------------------
(* What reading a label tells *)

(* What reading label c in node k of level l must tell: whether the node has the
   label, whether that leads to a node, and the number of the node or the value.
   A label may be found behind the last node when that does not end inside its
   word; it then leads to no node. *)
Reads(l, k, c, found, hasChild, child, val) ==
  /\ \A p : NodeItem(l, k, c, p) =>
       /\ found
       /\ hasChild <=> p \in child_indicator_bits[l]
       /\ p \in child_indicator_bits[l] =>
            child = NodesAbove(l + 1) + Cardinality(Below(child_indicator_bits[l], p))
       /\ p \notin child_indicator_bits[l] /\ input.include_dense => val = LeafEntry(l, p)[2]
  /\ found => (\E p : NodeItem(l, k, c, p)) \/ (~LastNodeEndsInside /\ ~hasChild)

(* An item that has a child comes one behind the children before it. *)
LEMMA NextChild ==
  ASSUME DenseInv, NEW l \in 0 .. height - 1, NEW p \in child_indicator_bits[l]
  PROVE  NodesAbove(l + 1) - 1 + Cardinality(Below(child_indicator_bits[l], p + 1))
           = NodesAbove(l + 1) + Cardinality(Below(child_indicator_bits[l], p))
<1> DEFINE S == child_indicator_bits[l]
           n == GetNumItems(l)
           a == NodesAbove(l + 1)
<1>1. n \in Nat /\ S \in SUBSET (0 .. n - 1)
  BY LevelIs DEF Items
<1>2. a \in Nat
  BY AboveIs
<1>3. p \in Int /\ p <= p /\ p \in S
  BY <1>1
<1> HIDE DEF S, n, a
<1>4. Cardinality(Below(S, p)) \in Nat
  BY <1>1, <1>3, CountsGrow
<1>5. Cardinality(Below(S, p + 1)) = Cardinality(Below(S, p)) + 1
  BY <1>1, <1>3, CountsGrow
<1>6. a - 1 + Cardinality(Below(S, p + 1)) = a + Cardinality(Below(S, p))
  BY <1>2, <1>4, <1>5
<1>7. QED
  BY <1>6 DEF S, a

(* What was read, in terms of the trie: the path with the label leads to a node
   exactly when a child was found, which is that node. *)
LEMMA ReadsPath ==
  ASSUME Complete, NEW l \in 0 .. height - 1, NEW k, NEW path, At(path, l, k), NEW c \in Label,
         NEW found, NEW hasChild, NEW child, NEW val,
         Reads(l, k, c, found, hasChild, child, val)
  PROVE  /\ Append(path, c) \in InnerPaths <=> found /\ hasChild
         /\ Append(path, c) \in InnerPaths => child = NodeNumber(Append(path, c))
<1>1. ASSUME Append(path, c) \in InnerPaths
      PROVE  found /\ hasChild /\ child = NodeNumber(Append(path, c))
  <2>1. PICK p \in child_indicator_bits[l] : NodeItem(l, k, c, p)
    BY <1>1, InnerChild
  <2>2. found /\ hasChild
        /\ child = NodesAbove(l + 1) + Cardinality(Below(child_indicator_bits[l], p))
    BY <2>1 DEF Reads
  <2>3. NodeNumber(Append(path, c))
          = NodesAbove(l + 1) + Cardinality(Below(child_indicator_bits[l], p))
    BY <2>1, ChildPath
  <2>4. QED
    BY <2>2, <2>3
<1>2. ASSUME found, hasChild
      PROVE  Append(path, c) \in InnerPaths
  <2>1. PICK p : NodeItem(l, k, c, p)
    BY <1>2 DEF Reads
  <2>2. p \in child_indicator_bits[l]
    BY <1>2, <2>1 DEF Reads
  <2>3. QED
    BY <2>1, <2>2, ChildPath
<1>3. QED
  BY <1>1, <1>2

(* The key leads through node k of level l, and has label c there. *)
KeyStandsAt(key, l, k, c) == l < Len(key) /\ At(SubSeq(key, 1, l), l, k) /\ c = key[l + 1]

(* What reading the next label of a key tells of its entry. *)
KeyTold(key, found, hasChild, val) ==
  /\ ~found => EntriesOf(key) = {}
  /\ found /\ ~hasChild =>
       /\ LastNodeEndsInside => EntriesOf(key) # {}
       /\ input.include_dense => \A e \in EntriesOf(key) : e[2] = val

(* A key whose next label is not found has no entry; the one whose label leads to
   no node has the entry whose value was read, or, if the label was found behind
   the last node, none. *)
LEMMA ReadsKey ==
  ASSUME Complete, NEW key \in Seq(Label), NEW l \in 0 .. height - 1, NEW k, NEW c,
         KeyStandsAt(key, l, k, c), NEW found, NEW hasChild, NEW child, NEW val,
         Reads(l, k, c, found, hasChild, child, val)
  PROVE  KeyTold(key, found, hasChild, val)
<1>0. l <= Len(key) /\ DenseInv /\ l < Len(key) /\ At(SubSeq(key, 1, l), l, k) /\ c = key[l + 1]
  BY DEF Complete, KeyStandsAt
<1>1. ASSUME ~ \E p : NodeItem(l, k, c, p)
      PROVE  EntriesOf(key) = {}
  <2>1. \A p : ~NodeItem(l, k, key[l + 1], p)
    BY <1>0, <1>1
  <2>2. QED
    BY <1>0, <2>1, KeyEntries
<1>2. ASSUME ~found
      PROVE  EntriesOf(key) = {}
  <2>1. ~ \E p : NodeItem(l, k, c, p)
    BY <1>2 DEF Reads
  <2>2. QED
    BY <1>1, <2>1
<1>3. ASSUME found, ~hasChild, NEW p, NodeItem(l, k, c, p)
      PROVE  /\ EntriesOf(key) = {LeafEntry(l, p)}
             /\ input.include_dense => LeafEntry(l, p)[2] = val
  <2>1. p \notin child_indicator_bits[l] /\ (input.include_dense => LeafEntry(l, p)[2] = val)
    BY <1>3 DEF Reads
  <2>2. p \in Leaves(l)
    BY <1>0, <1>3, <2>1, LeafIsItem DEF NodeItem
  <2>3. EntriesOf(key) = {LeafEntry(l, p)}
    <3>1. NodeItem(l, k, key[l + 1], p)
      BY <1>0, <1>3
    <3>2. QED
      BY <1>0, <2>2, <3>1, KeyEntries
  <2>4. QED
    BY <2>1, <2>3
<1>4. ASSUME found, ~hasChild
      PROVE  /\ LastNodeEndsInside => EntriesOf(key) # {}
             /\ input.include_dense => \A e \in EntriesOf(key) : e[2] = val
  <2>1. CASE \E p : NodeItem(l, k, c, p)
    <3>1. PICK p : NodeItem(l, k, c, p)
      BY <2>1
    <3>2. /\ EntriesOf(key) = {LeafEntry(l, p)}
          /\ input.include_dense => LeafEntry(l, p)[2] = val
      BY <1>3, <1>4, <3>1
    <3>3. QED
      BY <3>2
  <2>2. CASE ~ \E p : NodeItem(l, k, c, p)
    <3>1. ~LastNodeEndsInside
      BY <1>4, <2>2 DEF Reads
    <3>2. EntriesOf(key) = {}
      BY <1>1, <2>2
    <3>3. QED
      BY <3>1, <3>2
  <2>3. QED
    BY <2>1, <2>2
<1>5. QED
  BY <1>2, <1>4 DEF KeyTold

(* The numbers of the bits of the dense nodes fit a position_t. *)
NodesFit == NodeCountDense * Fanout <= PositionRange

(* The trie is created, and its bits have positions. *)
Usable ==
  /\ BuiltInv /\ pc = "done"
  /\ louds_dense = MakeLoudsDense
  /\ louds_sparse = MakeLoudsSparse
  /\ NodesFit

(* What reading label c in the node that path leads to tells of the trie. *)
Tells(path, c, found, hasChild, child, val) ==
  /\ Append(path, c) \in InnerPaths <=> found /\ hasChild
  /\ Append(path, c) \in InnerPaths => child = NodeNumber(Append(path, c))
  /\ \A key \in Seq(Label) :
       /\ Len(path) < Len(key)
       /\ SubSeq(key, 1, Len(path)) = path
       /\ key[Len(path) + 1] = c
       => KeyTold(key, found, hasChild, val)

(* The trie that is created is the complete one. *)
LEMMA UsableIs ==
  ASSUME Usable
  PROVE  /\ Complete /\ Fits /\ DenseInv /\ HandoverInv /\ BuiltInv /\ pc = "done"
         /\ louds_dense = MakeLoudsDense /\ louds_sparse = MakeLoudsSparse
         /\ StartLevel = sparse_start_level /\ louds_dense.height = sparse_start_level
         /\ louds_sparse.height = height
         /\ sparse_start_level \in Nat /\ height \in Nat /\ sparse_start_level <= height /\ height > 0
         /\ input.include_dense => sparse_start_level > 0
<1>1. BuiltInv /\ pc = "done" /\ louds_dense = MakeLoudsDense /\ louds_sparse = MakeLoudsSparse
      /\ NodesFit
  BY DEF Usable
<1>2. Complete
  BY <1>1, BuiltComplete
<1>3. DenseInv /\ HandoverInv
  BY <1>1 DEF BuiltInv, StoredInv
<1>4. Fits
  BY <1>1, <1>3, WidthsAssumption DEF Fits, BuiltInv, NodesFit
<1>5. StartLevel = sparse_start_level /\ louds_sparse.height = height
  BY <1>1, <1>3, DenseCounts
<1>6. louds_dense.height = sparse_start_level
  BY <1>1 DEF MakeLoudsDense
<1>7. sparse_start_level \in Nat /\ height \in Nat
  <2>1. TypeInv
    BY <1>3 DEF DenseInv, SortedInv, LoudsInv
  <2>2. QED
    BY <2>1, ConstantsAssumption DEF TypeInv, TypeOK
<1>8. sparse_start_level <= height /\ height > 0 /\ (input.include_dense => sparse_start_level > 0)
  BY <1>1 DEF BuiltInv, HandoverInv
<1>9. QED
  BY <1>1, <1>2, <1>3, <1>4, <1>5, <1>6, <1>7, <1>8

(* The operations start at the root. *)
LEMMA RootIs ==
  ASSUME Usable
  PROVE  << >> \in InnerPaths /\ NodeNumber(<< >>) = 0
<1>1. Complete /\ DenseInv /\ height > 0 /\ height \in Nat
  BY UsableIs
<1>2. 0 \in 0 .. height - 1
  BY <1>1
<1>3. At(<< >>, 0, 0)
  BY DEF At
<1>4. NodesAbove(0) = 0 /\ node_counts[0] = 1
  BY <1>1, <1>2, AboveIs, LevelIs
<1>5. 0 \in 0 .. node_counts[0] - 1 /\ NodesAbove(0) + 0 = 0
  BY <1>4
<1>6. IsNode(<< >>, 0)
  BY <1>2, <1>3, <1>5 DEF IsNode
<1>7. QED
  BY <1>1, <1>6, NumberOfNode

(* A node of the trie, by its level and its number there. *)
LEMMA PathNode ==
  ASSUME Usable, NEW path \in InnerPaths
  PROVE  /\ path \in Seq(Label) /\ Len(path) \in 0 .. height - 1 /\ NodeNumber(path) \in Nat
         /\ \E k \in 0 .. node_counts[Len(path)] - 1 :
              At(path, Len(path), k) /\ NodeNumber(path) = NodesAbove(Len(path)) + k
<1>1. Complete /\ DenseInv
  BY UsableIs
<1>2. path \in Seq(Label) /\ Len(path) \in 0 .. height - 1
  BY <1>1, InnerPathIs
<1>3. PICK k \in 0 .. node_counts[Len(path)] - 1 :
              At(path, Len(path), k) /\ NodeNumber(path) = NodesAbove(Len(path)) + k
  BY <1>1, InnerPathIs
<1> DEFINE l == Len(path)
<1> HIDE DEF l
<1>4. NodesAbove(l) \in Nat /\ node_counts[l] \in Nat
  BY <1>1, <1>2, AboveIs DEF l
<1>5. NodesAbove(l) + k \in Nat
  BY <1>3, <1>4 DEF l
<1>6. QED
  BY <1>2, <1>3, <1>5 DEF l

(* No entry's prefix leads only to a node. *)
LEMMA NodeEntries ==
  ASSUME Usable, NEW path \in InnerPaths
  PROVE  EntriesOf(path) = {}
<1>1. Complete /\ path \in Seq(Label) /\ Len(path) \in 0 .. height - 1
  BY UsableIs, PathNode
<1>2. PICK k : At(path, Len(path), k)
  BY PathNode
<1> DEFINE l == Len(path)
<1>3. SubSeq(path, 1, l) = path /\ l <= Len(path) /\ l = Len(path)
  <2>1. Len(path) \in Nat
    BY <1>1
  <2>2. Len(path) \in 0 .. Len(path) /\ 0 \in 0 .. Len(path)
    BY <2>1
  <2>3. SubSeq(path, 1, Len(path)) = path
    BY <1>1, <2>2, PrefixFacts
  <2>4. QED
    BY <2>1, <2>3
<1>4. At(SubSeq(path, 1, l), l, k) /\ l \in 0 .. height - 1
  BY <1>1, <1>2, <1>3
<1> HIDE DEF l
<1>5. QED
  BY <1>1, <1>3, <1>4, KeyEntries

(* What was read right tells of the trie. *)
LEMMA ReadsTell ==
  ASSUME Usable, NEW path, path \in Seq(Label), Len(path) \in 0 .. height - 1,
         NEW k, At(path, Len(path), k), NEW c \in Label,
         NEW found, NEW hasChild, NEW child, NEW val,
         Reads(Len(path), k, c, found, hasChild, child, val)
  PROVE  Tells(path, c, found, hasChild, child, val)
<1>1. Complete
  BY UsableIs
<1>2. /\ Append(path, c) \in InnerPaths <=> found /\ hasChild
      /\ Append(path, c) \in InnerPaths => child = NodeNumber(Append(path, c))
  BY <1>1, ReadsPath
<1>3. ASSUME NEW key \in Seq(Label), Len(path) < Len(key), SubSeq(key, 1, Len(path)) = path,
             key[Len(path) + 1] = c
      PROVE  KeyTold(key, found, hasChild, val)
  <2> DEFINE l == Len(path)
  <2>1. KeyStandsAt(key, l, k, c) /\ l \in 0 .. height - 1
        /\ Reads(l, k, c, found, hasChild, child, val)
    BY <1>3 DEF KeyStandsAt
  <2> HIDE DEF l
  <2>2. key \in Seq(Label)
    OBVIOUS
  <2>3. QED
    BY <1>1, <2>1, <2>2, ReadsKey
<1>4. QED
  BY <1>2, <1>3, Zenon DEF Tells

-------------------------------------------------------------------------------
(* Calls *)

(* A call is a record of its ten parts. *)
IsCall(c) ==
  c = [op |-> c.op, key |-> c.key, level |-> c.level, node |-> c.node, at |-> c.at,
       found |-> c.found, value |-> c.value, prefix |-> c.prefix, labels |-> c.labels,
       results |-> c.results, nodes |-> c.nodes]

(* The path to the node a running call stands at. *)
CallPath(c) == IF c.op = "getNode" THEN c.key \o c.prefix ELSE SubSeq(c.key, 1, c.level)

(* A node and the path to it. *)
NodeAt(path, node) == path \in InnerPaths /\ node = NodeNumber(path)

(* A running call stands at the node its path leads to, in the encoding that
   holds it; a call of lookupNodeNum has the whole path to a node as its key. *)
RunningOK(c) ==
  /\ NodeAt(CallPath(c), c.node) /\ c.level = Len(CallPath(c))
  /\ c.op \in KeyLookups \cup NodeLookups \cup {"getNode"}
  /\ c.op # "getNode" => c.level <= Len(c.key)
  /\ c.op = "lookupNodeNum" => c.key \in InnerPaths
  /\ c.at = "dense" => /\ c.level <= sparse_start_level
                       /\ c.op = "getNode" => c.level < sparse_start_level
  /\ c.at = "sparse" => sparse_start_level <= c.level /\ c.op # "lookupNodeNumOption"

(* What a lookup of a key may answer. *)
KeyAnswer(c) ==
  /\ \A e \in EntriesOf(c.key) : c.found /\ c.value = e[2]
  /\ LastNodeEndsInside /\ EntriesOf(c.key) = {} => ~c.found

(* What a lookup of a node may answer. *)
NodeAnswer(c) ==
  /\ c.op = "lookupNodeNum" => NodeAt(c.key, c.node)
  /\ c.op = "lookupNodeNumOption" /\ Len(c.key) <= sparse_start_level =>
       /\ c.found <=> c.key \in InnerPaths
       /\ c.found => c.node = NodeNumber(c.key)

(* What amacLookup may answer. *)
AmacAnswer(c) ==
  /\ c.found /\ IsNodeTag(c.results[1]) => NodeAt(c.key, c.node)
  /\ c.key \in InnerPaths => c.found /\ c.node = NodeNumber(c.key)
  /\ EntriesOf(c.key) # {} => c.found
  /\ LastNodeEndsInside /\ c.found => c.key \in InnerPaths \/ EntriesOf(c.key) # {}
  /\ input.include_dense => \A e \in EntriesOf(c.key) : c.value = e[2]

(* What an operation may answer. *)
AnswerOK(c) ==
  /\ c.op \in KeyLookups /\ input.include_dense => KeyAnswer(c)
  /\ c.op \in NodeLookups => NodeAnswer(c)
  /\ c.op = "amacLookup" => AmacAnswer(c)

(* A call that runs and one that is answered. *)
CallOK(c) ==
  /\ IsCall(c)
  /\ c.key \in Seq(Label) /\ c.level \in Nat /\ c.found \in BOOLEAN
  /\ c.at \in {"dense", "sparse", "answered"}
  /\ c.op = "getNode" => c.prefix \in Seq(Label)
  /\ c.at # "answered" => RunningOK(c)
  /\ c.at = "answered" => AnswerOK(c)

(* A call in the other encoding, or answered. *)
LEMMA AtChanges ==
  ASSUME NEW c, IsCall(c), NEW x
  PROVE  [c EXCEPT !.at = x]
           = [op |-> c.op, key |-> c.key, level |-> c.level, node |-> c.node, at |-> x,
              found |-> c.found, value |-> c.value, prefix |-> c.prefix, labels |-> c.labels, results |-> c.results,
              nodes |-> c.nodes]
<1>1. PICK op, key, l, node, at, f, v, prefix, ls, rs, ns :
        c = [op |-> op, key |-> key, level |-> l, node |-> node, at |-> at,
             found |-> f, value |-> v, prefix |-> prefix, labels |-> ls, results |-> rs,
             nodes |-> ns]
  BY Zenon DEF IsCall
<1>2. /\ op = c.op /\ key = c.key /\ l = c.level /\ node = c.node /\ at = c.at
      /\ f = c.found /\ v = c.value /\ prefix = c.prefix /\ ls = c.labels
      /\ rs = c.results /\ ns = c.nodes
  BY <1>1
<1>3. [c EXCEPT !.at = x]
        = [op |-> op, key |-> key, level |-> l, node |-> node, at |-> x,
           found |-> f, value |-> v, prefix |-> prefix, labels |-> ls, results |-> rs,
           nodes |-> ns]
  BY <1>1
<1>4. QED
  BY <1>2, <1>3

(* A call that found something, or nothing. *)
LEMMA FoundChanges ==
  ASSUME NEW c, IsCall(c), NEW x
  PROVE  [c EXCEPT !.found = x]
           = [op |-> c.op, key |-> c.key, level |-> c.level, node |-> c.node, at |-> c.at,
              found |-> x, value |-> c.value, prefix |-> c.prefix, labels |-> c.labels, results |-> c.results,
              nodes |-> c.nodes]
<1>1. PICK op, key, l, node, at, f, v, prefix, ls, rs, ns :
        c = [op |-> op, key |-> key, level |-> l, node |-> node, at |-> at,
             found |-> f, value |-> v, prefix |-> prefix, labels |-> ls, results |-> rs,
             nodes |-> ns]
  BY Zenon DEF IsCall
<1>2. /\ op = c.op /\ key = c.key /\ l = c.level /\ node = c.node /\ at = c.at
      /\ f = c.found /\ v = c.value /\ prefix = c.prefix /\ ls = c.labels
      /\ rs = c.results /\ ns = c.nodes
  BY <1>1
<1>3. [c EXCEPT !.found = x]
        = [op |-> op, key |-> key, level |-> l, node |-> node, at |-> at,
           found |-> x, value |-> v, prefix |-> prefix, labels |-> ls, results |-> rs,
           nodes |-> ns]
  BY <1>1
<1>4. QED
  BY <1>2, <1>3

(* A call that found a value. *)
LEMMA ValueChanges ==
  ASSUME NEW c, IsCall(c), NEW x, NEW y
  PROVE  [c EXCEPT !.found = x, !.value = y]
           = [op |-> c.op, key |-> c.key, level |-> c.level, node |-> c.node, at |-> c.at,
              found |-> x, value |-> y, prefix |-> c.prefix, labels |-> c.labels, results |-> c.results,
              nodes |-> c.nodes]
<1>1. PICK op, key, l, node, at, f, v, prefix, ls, rs, ns :
        c = [op |-> op, key |-> key, level |-> l, node |-> node, at |-> at,
             found |-> f, value |-> v, prefix |-> prefix, labels |-> ls, results |-> rs,
             nodes |-> ns]
  BY Zenon DEF IsCall
<1>2. /\ op = c.op /\ key = c.key /\ l = c.level /\ node = c.node /\ at = c.at
      /\ f = c.found /\ v = c.value /\ prefix = c.prefix /\ ls = c.labels
      /\ rs = c.results /\ ns = c.nodes
  BY <1>1
<1> DEFINE d == [c EXCEPT !.found = x]
<1>3. [c EXCEPT !.found = x, !.value = y] = [d EXCEPT !.value = y]
  OBVIOUS
<1>4. d = [op |-> op, key |-> key, level |-> l, node |-> node, at |-> at,
           found |-> x, value |-> v, prefix |-> prefix, labels |-> ls, results |-> rs,
           nodes |-> ns]
  BY <1>1
<1> HIDE DEF d
<1>5. [d EXCEPT !.value = y]
        = [op |-> op, key |-> key, level |-> l, node |-> node, at |-> at,
           found |-> x, value |-> y, prefix |-> prefix, labels |-> ls, results |-> rs,
           nodes |-> ns]
  BY <1>4
<1>6. QED
  BY <1>2, <1>3, <1>5

(* A call that goes on at another node. *)
LEMMA NodeChanges ==
  ASSUME NEW c, IsCall(c), NEW x, NEW y
  PROVE  [c EXCEPT !.node = x, !.level = y]
           = [op |-> c.op, key |-> c.key, level |-> y, node |-> x, at |-> c.at,
              found |-> c.found, value |-> c.value, prefix |-> c.prefix, labels |-> c.labels, results |-> c.results,
              nodes |-> c.nodes]
<1>1. PICK op, key, l, node, at, f, v, prefix, ls, rs, ns :
        c = [op |-> op, key |-> key, level |-> l, node |-> node, at |-> at,
             found |-> f, value |-> v, prefix |-> prefix, labels |-> ls, results |-> rs,
             nodes |-> ns]
  BY Zenon DEF IsCall
<1>2. /\ op = c.op /\ key = c.key /\ l = c.level /\ node = c.node /\ at = c.at
      /\ f = c.found /\ v = c.value /\ prefix = c.prefix /\ ls = c.labels
      /\ rs = c.results /\ ns = c.nodes
  BY <1>1
<1> DEFINE d == [c EXCEPT !.node = x]
<1>3. [c EXCEPT !.node = x, !.level = y] = [d EXCEPT !.level = y]
  OBVIOUS
<1>4. d = [op |-> op, key |-> key, level |-> l, node |-> x, at |-> at,
           found |-> f, value |-> v, prefix |-> prefix, labels |-> ls, results |-> rs,
           nodes |-> ns]
  BY <1>1
<1> HIDE DEF d
<1>5. [d EXCEPT !.level = y]
        = [op |-> op, key |-> key, level |-> y, node |-> x, at |-> at,
           found |-> f, value |-> v, prefix |-> prefix, labels |-> ls, results |-> rs,
           nodes |-> ns]
  BY <1>4
<1>6. QED
  BY <1>2, <1>3, <1>5

(* A call that stands at a node of its key. *)
LEMMA CallAtPath ==
  ASSUME Usable, NEW c, CallOK(c), c.at # "answered", c.op # "getNode"
  PROVE  /\ SubSeq(c.key, 1, c.level) \in InnerPaths
         /\ Len(SubSeq(c.key, 1, c.level)) = c.level
         /\ c.node = NodeNumber(SubSeq(c.key, 1, c.level))
         /\ c.level \in 0 .. height - 1
         /\ c.level <= Len(c.key)
         /\ c.level < Len(c.key) =>
              /\ SubSeq(c.key, 1, c.level + 1) = Append(SubSeq(c.key, 1, c.level), c.key[c.level + 1])
              /\ c.key[c.level + 1] \in Label
         /\ ~(c.level < Len(c.key)) => SubSeq(c.key, 1, c.level) = c.key /\ c.key \in InnerPaths
<1> DEFINE key == c.key
           l == c.level
           path == SubSeq(key, 1, l)
<1>1. key \in Seq(Label) /\ l \in Nat /\ l <= Len(key) /\ path \in InnerPaths
      /\ c.node = NodeNumber(path) /\ l = Len(path)
  BY DEF CallOK, RunningOK, NodeAt, CallPath
<1> HIDE DEF key, l
<1>2. l \in 0 .. Len(key) /\ 0 \in 0 .. l /\ Len(key) \in Nat
  BY <1>1
<1>3. /\ l < Len(key) => /\ SubSeq(key, 1, l + 1) = Append(SubSeq(key, 1, l), key[l + 1])
                         /\ key[l + 1] \in Label
      /\ SubSeq(key, 1, Len(key)) = key
  BY <1>1, <1>2, PrefixFacts
<1>4. Len(path) \in 0 .. height - 1
  BY <1>1, PathNode
<1>4a. ~(l < Len(key)) => l = Len(key)
  BY <1>1, <1>2
<1>5. ~(l < Len(key)) => path = key
  BY <1>3, <1>4a
<1>6. QED
  BY <1>1, <1>3, <1>4, <1>5 DEF key, l

-------------------------------------------------------------------------------
(* The steps of the operations *)

(* An operation that starts at the root. *)
LEMMA StartsAtRoot ==
  ASSUME Usable, NEW op \in KeyLookups \cup NodeLookups, NEW key \in Seq(Label),
         op = "lookupNodeNum" => key \in InnerPaths,
         NEW d, d = NewCall(op, key, 0, 0, "dense")
  PROVE  CallOK(d)
<1>1. /\ IsCall(d) /\ d.op = op /\ d.key = key /\ d.level = 0 /\ d.node = 0 /\ d.at = "dense"
      /\ d.found = FALSE
  BY DEF NewCall, IsCall
<1>2. op # "getNode"
  BY DEF KeyLookups, NodeLookups
<1>3. SubSeq(key, 1, 0) = << >> /\ Len(<< >>) = 0
  OBVIOUS
<1>4. CallPath(d) = << >>
  BY <1>1, <1>2, <1>3 DEF CallPath
<1>5. NodeAt(<< >>, 0)
  BY RootIs DEF NodeAt
<1>6. 0 <= sparse_start_level /\ Len(key) \in Nat /\ 0 <= Len(key)
  BY UsableIs
<1>7. RunningOK(d)
  BY <1>1, <1>2, <1>3, <1>4, <1>5, <1>6 DEF RunningOK
<1>8. d.found \in BOOLEAN /\ d.op # "getNode" /\ 0 \in Nat /\ d.at # "answered"
  BY <1>1, <1>2
<1>9. QED
  BY <1>1, <1>7, <1>8, Zenon DEF CallOK

(* An operation that starts at a node. *)
LEMMA StartsAtNode ==
  ASSUME Usable, NEW op \in KeyLookups \cup {"getNode"}, NEW key \in Seq(Label),
         NEW path \in InnerPaths, NEW l, l = Len(path), l <= Len(key), SubSeq(key, 1, l) = path,
         op = "getNode" => key = path,
         NEW d, d = NewCall(op, key, l, NodeNumber(path), PartOf(l))
  PROVE  CallOK(d)
<1>1. /\ IsCall(d) /\ d.op = op /\ d.key = key /\ d.level = l /\ d.node = NodeNumber(path)
      /\ d.at = PartOf(l) /\ d.found = FALSE /\ d.prefix = << >>
  BY DEF NewCall, IsCall
<1>2. path \in Seq(Label) /\ l \in Nat /\ sparse_start_level \in Nat
      /\ StartLevel = sparse_start_level
  BY UsableIs, PathNode
<1>3. CallPath(d) = path
  <2>1. key \o << >> = key
    OBVIOUS
  <2>2. QED
    BY <1>1, <2>1 DEF CallPath
<1>4. NodeAt(path, NodeNumber(path))
  BY DEF NodeAt
<1>5. /\ d.at \in {"dense", "sparse"}
      /\ d.at = "dense" => l < sparse_start_level
      /\ d.at = "sparse" => sparse_start_level <= l
  BY <1>1, <1>2 DEF PartOf
<1>6. op # "lookupNodeNum" /\ op # "lookupNodeNumOption"
  BY DEF KeyLookups
<1>7. RunningOK(d)
  BY <1>1, <1>2, <1>3, <1>4, <1>5, <1>6 DEF RunningOK
<1>8. << >> \in Seq(Label)
  OBVIOUS
<1>9. QED
  BY <1>1, <1>2, <1>5, <1>7, <1>8 DEF CallOK

(* A loop that goes on at the child the next byte leads to. *)
LEMMA GoesDown ==
  ASSUME Usable, NEW c, CallOK(c), c.at # "answered", c.op # "getNode", c.level < Len(c.key),
         c.at = "dense" => c.level < sparse_start_level,
         NEW path, path = Append(SubSeq(c.key, 1, c.level), c.key[c.level + 1]),
         path \in InnerPaths,
         NEW d, d = [c EXCEPT !.node = NodeNumber(path), !.level = @ + 1]
  PROVE  CallOK(d)
<1>1. SubSeq(c.key, 1, c.level + 1) = path
  BY CallAtPath
<1> DEFINE l == c.level + 1
           n == NodeNumber(path)
<1>2. IsCall(c) /\ c.key \in Seq(Label) /\ c.level \in Nat /\ sparse_start_level \in Nat
      /\ RunningOK(c)
  BY UsableIs DEF CallOK
<1>3. d = [c EXCEPT !.node = n, !.level = l] /\ SubSeq(c.key, 1, l) = path
  BY <1>1
<1>4. l \in Nat /\ l = c.level + 1 /\ l <= Len(c.key) /\ 0 \in 0 .. l /\ l \in 0 .. Len(c.key)
  BY <1>2
<1> HIDE DEF l, n
<1>5. d = [op |-> c.op, key |-> c.key, level |-> l, node |-> n, at |-> c.at,
           found |-> c.found, value |-> c.value, prefix |-> c.prefix,
           labels |-> c.labels, results |-> c.results, nodes |-> c.nodes]
  BY <1>2, <1>3, NodeChanges
<1>6. /\ IsCall(d) /\ d.op = c.op /\ d.key = c.key /\ d.level = l /\ d.node = n /\ d.at = c.at
      /\ d.found = c.found /\ d.prefix = c.prefix
  <2>1. \A x : x = [op |-> c.op, key |-> c.key, level |-> l, node |-> n, at |-> c.at,
                    found |-> c.found, value |-> c.value, prefix |-> c.prefix,
                    labels |-> c.labels, results |-> c.results, nodes |-> c.nodes]
               => /\ IsCall(x) /\ x.op = c.op /\ x.key = c.key /\ x.level = l /\ x.node = n
                  /\ x.at = c.at /\ x.found = c.found /\ x.prefix = c.prefix
    BY DEF IsCall
  <2>2. QED
    BY <1>5, <2>1, Zenon
<1>7. CallPath(d) = path
  BY <1>3, <1>6 DEF CallPath
<1>8. Len(path) = l
  BY <1>2, <1>3, <1>4, PrefixFacts
<1>9. NodeAt(path, n)
  BY DEF NodeAt, n
<1>10. RunningOK(d)
  <2>1. c.at = "dense" => l <= sparse_start_level
    BY <1>2, <1>4
  <2>2. c.at = "sparse" => sparse_start_level <= l
    BY <1>2, <1>4 DEF RunningOK
  <2>3. QED
    BY <1>2, <1>4, <1>6, <1>7, <1>8, <1>9, <2>1, <2>2 DEF RunningOK
<1>11. QED
  BY <1>4, <1>6, <1>10 DEF CallOK

(* d answers call c, and is right if the answer is. *)
AnswerTo(c, f, v, d) ==
  /\ d.op = c.op /\ d.key = c.key /\ d.found = f /\ d.value = v
  /\ d.node = c.node /\ d.prefix = c.prefix
  /\ AnswerOK(d) => CallOK(d)

(* A call that is answered without a value. *)
LEMMA Answers ==
  ASSUME NEW c, CallOK(c), NEW f \in BOOLEAN, NEW d,
         d = [[c EXCEPT !.found = f] EXCEPT !.at = "answered"]
  PROVE  AnswerTo(c, f, c.value, d)
<1>1. IsCall(c)
  BY DEF CallOK
<1>2. d = [op |-> c.op, key |-> c.key, level |-> c.level, node |-> c.node, at |-> "answered",
           found |-> f, value |-> c.value, prefix |-> c.prefix,
           labels |-> c.labels, results |-> c.results, nodes |-> c.nodes]
  <2>1. [c EXCEPT !.found = f]
          = [op |-> c.op, key |-> c.key, level |-> c.level, node |-> c.node, at |-> c.at,
             found |-> f, value |-> c.value, prefix |-> c.prefix,
             labels |-> c.labels, results |-> c.results, nodes |-> c.nodes]
    BY <1>1, FoundChanges
  <2>2. QED
    BY <2>1
<1>3. /\ IsCall(d) /\ d.op = c.op /\ d.key = c.key /\ d.at = "answered" /\ d.found = f
      /\ d.value = c.value /\ d.node = c.node /\ d.prefix = c.prefix /\ d.level = c.level
  BY <1>2 DEF IsCall
<1>4. QED
  BY <1>3 DEF CallOK, AnswerTo

(* A call that is answered with a value. *)
LEMMA AnswersValue ==
  ASSUME NEW c, CallOK(c), NEW v, NEW e, e = [c EXCEPT !.found = TRUE, !.value = v],
         NEW d, d = [e EXCEPT !.at = "answered"]
  PROVE  AnswerTo(c, TRUE, v, d)
<1>1. IsCall(c)
  BY DEF CallOK
<1>2. d = [op |-> c.op, key |-> c.key, level |-> c.level, node |-> c.node, at |-> "answered",
           found |-> TRUE, value |-> v, prefix |-> c.prefix,
           labels |-> c.labels, results |-> c.results, nodes |-> c.nodes]
  <2>1. e = [op |-> c.op, key |-> c.key, level |-> c.level, node |-> c.node, at |-> c.at,
             found |-> TRUE, value |-> v, prefix |-> c.prefix,
             labels |-> c.labels, results |-> c.results, nodes |-> c.nodes]
    BY <1>1, ValueChanges
  <2>2. QED
    BY <2>1
<1>3. /\ IsCall(d) /\ d.op = c.op /\ d.key = c.key /\ d.at = "answered" /\ d.found = TRUE
      /\ d.value = v /\ d.node = c.node /\ d.prefix = c.prefix /\ d.level = c.level
  BY <1>2 DEF IsCall
<1>4. QED
  BY <1>3 DEF CallOK, AnswerTo

(* What the next byte of the key tells of the key. *)
LEMMA ByteTells ==
  ASSUME Usable, NEW c, CallOK(c), c.at # "answered", c.op # "getNode", c.level < Len(c.key),
         NEW found, NEW hasChild, NEW child, NEW val,
         Tells(SubSeq(c.key, 1, c.level), c.key[c.level + 1], found, hasChild, child, val),
         NEW path, path = Append(SubSeq(c.key, 1, c.level), c.key[c.level + 1])
  PROVE  /\ KeyTold(c.key, found, hasChild, val)
         /\ path \in InnerPaths <=> found /\ hasChild
         /\ path \in InnerPaths => child = NodeNumber(path)
<1> DEFINE p == SubSeq(c.key, 1, c.level)
<1>1. Len(p) = c.level /\ c.key \in Seq(Label)
  BY CallAtPath DEF CallOK
<1>2. Len(p) < Len(c.key) /\ SubSeq(c.key, 1, Len(p)) = p /\ c.key[Len(p) + 1] = c.key[c.level + 1]
  BY <1>1
<1> HIDE DEF p
<1>3. Tells(p, c.key[c.level + 1], found, hasChild, child, val)
      /\ path = Append(p, c.key[c.level + 1])
  BY DEF p
<1>4. QED
  BY <1>1, <1>2, <1>3 DEF Tells

(* A step of lookupKey or lookupKeyAtNode that reads a byte. *)
LEMMA KeyGoes ==
  ASSUME Usable, CallOK(call), call.at \in {"dense", "sparse"}, call.op \in KeyLookups,
         ~OutOfBytes, call.at = "dense" => call.level < sparse_start_level,
         NEW found, NEW hasChild, NEW child, NEW val,
         Tells(SubSeq(call.key, 1, call.level), KeyByte, found, hasChild, child, val),
         \/ ~found /\ Miss
         \/ found /\ ~hasChild /\ Hit(val)
         \/ found /\ hasChild /\ Descend(child)
  PROVE  CallOK(call')
<1> DEFINE path == Append(SubSeq(call.key, 1, call.level), call.key[call.level + 1])
<1>0. /\ call.at # "answered" /\ call.op # "getNode" /\ call.op \notin NodeLookups
      /\ call.op # "amacLookup" /\ call.key \in Seq(Label) /\ call.level \in Nat
  BY DEF KeyLookups, NodeLookups, CallOK
<1>1. call.level < Len(call.key)
  BY <1>0 DEF OutOfBytes
<1>2. /\ KeyTold(call.key, found, hasChild, val)
      /\ path \in InnerPaths <=> found /\ hasChild
      /\ path \in InnerPaths => child = NodeNumber(path)
  BY <1>0, <1>1, ByteTells DEF KeyByte
<1> HIDE DEF path
<1>3. CASE ~found /\ Miss
  <2>1. call' = [[call EXCEPT !.found = FALSE] EXCEPT !.at = "answered"]
    BY <1>3 DEF Miss, Answer
  <2>2. EntriesOf(call.key) = {}
    BY <1>2, <1>3 DEF KeyTold
  <2> DEFINE d == call'
  <2> HIDE DEF d
  <2>3. AnswerTo(call, FALSE, call.value, d)
    BY <2>1, Answers DEF d
  <2>4. KeyAnswer(d)
    BY <2>2, <2>3 DEF KeyAnswer, AnswerTo
  <2>5. QED
    BY <1>0, <2>3, <2>4 DEF d, AnswerOK, AnswerTo
<1>4. CASE found /\ ~hasChild /\ Hit(val)
  <2>1. call' = [[call EXCEPT !.found = TRUE, !.value = val] EXCEPT !.at = "answered"]
    BY <1>4 DEF Hit, Answer
  <2>2. /\ LastNodeEndsInside => EntriesOf(call.key) # {}
        /\ input.include_dense => \A e \in EntriesOf(call.key) : e[2] = val
    BY <1>2, <1>4 DEF KeyTold
  <2> DEFINE d == call'
  <2> HIDE DEF d
  <2> DEFINE e == [call EXCEPT !.found = TRUE, !.value = val]
  <2>1a. d = [e EXCEPT !.at = "answered"] /\ e = [call EXCEPT !.found = TRUE, !.value = val]
    BY <2>1 DEF d
  <2> HIDE DEF e
  <2>3. AnswerTo(call, TRUE, val, d)
    BY <2>1a, AnswersValue
  <2>4. input.include_dense => KeyAnswer(d)
    BY <2>2, <2>3 DEF KeyAnswer, AnswerTo
  <2>5. QED
    BY <1>0, <2>3, <2>4 DEF d, AnswerOK, AnswerTo
<1>5. CASE found /\ hasChild /\ Descend(child)
  <2>1. path \in InnerPaths /\ child = NodeNumber(path)
    BY <1>2, <1>5
  <2>2. call' = [call EXCEPT !.node = NodeNumber(path), !.level = @ + 1]
    BY <1>5, <2>1 DEF Descend
  <2>3. path = Append(SubSeq(call.key, 1, call.level), call.key[call.level + 1])
    BY DEF path
  <2>4. QED
    BY <1>0, <1>1, <2>1, <2>2, <2>3, GoesDown
<1>6. QED
  BY <1>3, <1>4, <1>5

(* The bytes read so far and the next one lead to a node if the key does. *)
LEMMA NextInner ==
  ASSUME Usable, NEW c, CallOK(c), c.at # "answered", c.op # "getNode", c.level < Len(c.key),
         c.key \in InnerPaths,
         NEW path, path = Append(SubSeq(c.key, 1, c.level), c.key[c.level + 1])
  PROVE  path \in InnerPaths
<1>1. SubSeq(c.key, 1, c.level + 1) = path
  BY CallAtPath
<1>2. Complete /\ c.key \in Seq(Label) /\ c.level \in Nat
  BY UsableIs DEF CallOK
<1> DEFINE n == c.level + 1
           key == c.key
<1>3. key \in InnerPaths /\ n \in 0 .. Len(key)
  BY <1>2
<1> HIDE DEF n, key
<1>4. SubSeq(key, 1, n) \in InnerPaths
  BY <1>2, <1>3, PrefixInner
<1>5. QED
  BY <1>1, <1>4 DEF n, key

(* A byte read by lookupNodeNum or lookupNodeNumOption. *)
LEMMA NodeGoes ==
  ASSUME Usable, CallOK(call), call.at \in {"dense", "sparse"}, call.op \in NodeLookups,
         ~OutOfBytes, call.at = "dense" => call.level < sparse_start_level,
         NEW found, NEW hasChild, NEW child, NEW val,
         Tells(SubSeq(call.key, 1, call.level), KeyByte, found, hasChild, child, val),
         IF call.op = "lookupNodeNumOption" /\ ~(found /\ hasChild)
         THEN Miss
         ELSE Descend(child)
  PROVE  CallOK(call')
<1> DEFINE path == Append(SubSeq(call.key, 1, call.level), call.key[call.level + 1])
<1>0. /\ call.at # "answered" /\ call.op # "getNode" /\ call.op \notin KeyLookups
      /\ call.op # "amacLookup" /\ call.key \in Seq(Label) /\ call.level \in Nat
  BY DEF KeyLookups, NodeLookups, CallOK
<1>1. call.level < Len(call.key)
  BY <1>0 DEF OutOfBytes
<1>2. /\ path \in InnerPaths <=> found /\ hasChild
      /\ path \in InnerPaths => child = NodeNumber(path)
  <2>1. /\ KeyTold(call.key, found, hasChild, val)
        /\ path \in InnerPaths <=> found /\ hasChild
        /\ path \in InnerPaths => child = NodeNumber(path)
    BY <1>0, <1>1, ByteTells DEF KeyByte
  <2>2. QED
    BY <2>1
<1>3. call.key \in InnerPaths => path \in InnerPaths
  BY <1>0, <1>1, NextInner
<1>4. path = Append(SubSeq(call.key, 1, call.level), call.key[call.level + 1])
  OBVIOUS
<1> HIDE DEF path
<1>5. CASE path \in InnerPaths
  <2>1. Descend(child) /\ child = NodeNumber(path)
    BY <1>2, <1>5
  <2>2. call' = [call EXCEPT !.node = NodeNumber(path), !.level = @ + 1]
    BY <2>1 DEF Descend
  <2>3. QED
    BY <1>0, <1>1, <1>4, <1>5, <2>2, GoesDown
<1>6. CASE path \notin InnerPaths
  <2>1. call.op # "lookupNodeNum"
    BY <1>0, <1>3, <1>6 DEF CallOK, RunningOK
  <2>2. call.op = "lookupNodeNumOption"
    BY <2>1 DEF NodeLookups
  <2>3. Miss
    BY <1>2, <1>6, <2>2
  <2>4. call' = [[call EXCEPT !.found = FALSE] EXCEPT !.at = "answered"]
    BY <2>3 DEF Miss, Answer
  <2> DEFINE d == call'
  <2> HIDE DEF d
  <2>5. AnswerTo(call, FALSE, call.value, d)
    BY <2>4, Answers DEF d
  <2>6. NodeAnswer(d)
    BY <1>3, <1>6, <2>2, <2>5 DEF NodeAnswer, AnswerTo
  <2>7. QED
    BY <1>0, <2>5, <2>6 DEF d, AnswerOK, AnswerTo
<1>7. QED
  BY <1>5, <1>6

(* A key that is read to its end leads to a node. *)
LEMMA NodeFound ==
  ASSUME Usable, CallOK(call), call.at \in {"dense", "sparse"}, call.op \in NodeLookups,
         OutOfBytes, FoundNode
  PROVE  CallOK(call')
<1>0. /\ call.at # "answered" /\ call.op # "getNode" /\ call.op \notin KeyLookups
      /\ call.op # "amacLookup" /\ call.key \in Seq(Label) /\ call.level \in Nat
  BY DEF KeyLookups, NodeLookups, CallOK
<1>1. ~(call.level < Len(call.key))
  BY <1>0 DEF OutOfBytes
<1>2. call.key \in InnerPaths /\ call.node = NodeNumber(call.key)
  BY <1>0, <1>1, CallAtPath
<1>3. call' = [[call EXCEPT !.found = TRUE] EXCEPT !.at = "answered"]
  BY DEF FoundNode, Answer
<1> DEFINE d == call'
<1> HIDE DEF d
<1>4. AnswerTo(call, TRUE, call.value, d)
  BY <1>3, Answers DEF d
<1>5. NodeAnswer(d)
  BY <1>2, <1>4 DEF NodeAnswer, AnswerTo, NodeAt
<1>6. QED
  BY <1>0, <1>4, <1>5 DEF d, AnswerOK, AnswerTo

(* A key that is read to its end is not found. *)
LEMMA KeyEnds ==
  ASSUME Usable, CallOK(call), call.at \in {"dense", "sparse"}, call.op \in KeyLookups,
         OutOfBytes, Miss
  PROVE  CallOK(call')
<1>0. /\ call.at # "answered" /\ call.op # "getNode" /\ call.op \notin NodeLookups
      /\ call.op # "amacLookup" /\ call.key \in Seq(Label) /\ call.level \in Nat
  BY DEF KeyLookups, NodeLookups, CallOK
<1>1. ~(call.level < Len(call.key))
  BY <1>0 DEF OutOfBytes
<1>2. call.key \in InnerPaths
  BY <1>0, <1>1, CallAtPath
<1>3. EntriesOf(call.key) = {}
  BY <1>2, NodeEntries
<1>4. call' = [[call EXCEPT !.found = FALSE] EXCEPT !.at = "answered"]
  BY DEF Miss, Answer
<1> DEFINE d == call'
<1> HIDE DEF d
<1>5. AnswerTo(call, FALSE, call.value, d)
  BY <1>4, Answers DEF d
<1>6. KeyAnswer(d)
  BY <1>3, <1>5 DEF KeyAnswer, AnswerTo
<1>7. QED
  BY <1>0, <1>5, <1>6 DEF d, AnswerOK, AnswerTo

(* The dense levels hold at least the root. *)
LEMMA BorderNodes ==
  ASSUME Usable, NEW path \in InnerPaths, Len(path) = sparse_start_level, sparse_start_level > 0
  PROVE  NodeNumber(path) # 0
<1>1. /\ DenseInv /\ Fits /\ sparse_start_level \in Nat
  BY UsableIs
<1>2. PICK k \in 0 .. node_counts[Len(path)] - 1 : NodeNumber(path) = NodesAbove(Len(path)) + k
  BY PathNode
<1>3. 0 \in 0 .. sparse_start_level - 1
  BY <1>1
<1>4. /\ NodesAbove(0 + 1) <= NodesAbove(sparse_start_level) /\ NodesAbove(sparse_start_level) \in Nat
      /\ NodesAbove(0 + 1) = NodesAbove(0) + node_counts[0] /\ NodesAbove(0) \in Nat
      /\ 0 \in 0 .. height - 1
  BY <1>1, <1>3, DenseLevelIs
<1>5. node_counts[0] = 1
  BY <1>1, <1>4, LevelIs
<1> DEFINE a == NodesAbove(sparse_start_level)
           b == NodesAbove(0)
           m == node_counts[Len(path)]
<1>6. Len(path) \in 0 .. height - 1
  BY PathNode
<1>7. m \in Nat
  BY <1>1, <1>6, LevelIs
<1>8. b + 1 <= a /\ a \in Nat /\ b \in Nat /\ k \in 0 .. m - 1 /\ NodeNumber(path) = a + k
  BY <1>2, <1>4, <1>5
<1> HIDE DEF a, b, m
<1>9. a + k # 0
  BY <1>7, <1>8
<1>10. QED
  BY <1>8, <1>9

(* Behind the dense levels. *)
LEMMA LeaveDenseOK ==
  ASSUME Usable, CallOK(call), LeaveDense
  PROVE  CallOK(call')
<1>0. /\ call.at = "dense" /\ call.op \in KeyLookups \cup NodeLookups
      /\ call.level = sparse_start_level /\ call.at # "answered" /\ call.op # "getNode"
      /\ call.op # "amacLookup" /\ StartLevel = sparse_start_level
      /\ sparse_start_level \in Nat
      /\ IF GoesOn THEN ToSparse ELSE Answer([call EXCEPT !.found = TRUE])
  BY UsableIs DEF LeaveDense, Running, KeyLookups, NodeLookups
<1>1. IsCall(call) /\ RunningOK(call) /\ call.key \in Seq(Label) /\ call.level \in Nat
      /\ call.found \in BOOLEAN
  BY <1>0 DEF CallOK
<1>2. CASE GoesOn
  <2>1. call' = [call EXCEPT !.at = "sparse"]
    BY <1>0, <1>2 DEF ToSparse
  <2> DEFINE d == call'
  <2> HIDE DEF d
  <2>2. d = [op |-> call.op, key |-> call.key, level |-> call.level, node |-> call.node,
             at |-> "sparse", found |-> call.found, value |-> call.value,
             prefix |-> call.prefix, labels |-> call.labels, results |-> call.results,
             nodes |-> call.nodes]
    BY <1>1, <2>1, AtChanges DEF d
  <2>3. /\ IsCall(d) /\ d.op = call.op /\ d.key = call.key /\ d.at = "sparse"
        /\ d.node = call.node /\ d.level = call.level /\ d.found = call.found
    BY <2>2 DEF IsCall
  <2>4. call.op # "lookupNodeNumOption"
    <3>1. ASSUME call.op = "lookupNodeNumOption"
          PROVE  FALSE
      <4>1. Len(call.key) < StartLevel
        BY <1>2, <3>1 DEF GoesOn, KeyLookups
      <4>2. call.level <= Len(call.key) /\ Len(call.key) \in Nat
        BY <1>0, <1>1 DEF RunningOK
      <4>3. QED
        BY <1>0, <4>1, <4>2
    <3>2. QED
      BY <3>1
  <2>5. CallPath(d) = CallPath(call)
    BY <1>0, <2>3 DEF CallPath
  <2>6. RunningOK(d)
    BY <1>0, <1>1, <2>3, <2>4, <2>5 DEF RunningOK
  <2>7. QED
    BY <1>0, <1>1, <2>3, <2>6 DEF CallOK, d
<1>3. CASE ~GoesOn
  <2>1. call' = [[call EXCEPT !.found = TRUE] EXCEPT !.at = "answered"]
    BY <1>0, <1>3 DEF Answer
  <2> DEFINE d == call'
  <2> HIDE DEF d
  <2>2. AnswerTo(call, TRUE, call.value, d)
    BY <2>1, Answers DEF d
  <2>3. /\ SubSeq(call.key, 1, call.level) \in InnerPaths
        /\ Len(SubSeq(call.key, 1, call.level)) = call.level
        /\ call.node = NodeNumber(SubSeq(call.key, 1, call.level))
        /\ call.level <= Len(call.key)
        /\ ~(call.level < Len(call.key)) => call.key \in InnerPaths
                                             /\ SubSeq(call.key, 1, call.level) = call.key
    BY <1>0, CallAtPath
  <2>4. CASE call.op \in KeyLookups
    <3>1. call.node = 0
      BY <1>3, <2>4 DEF GoesOn, KeyLookups
    <3>2. ~(sparse_start_level > 0)
      BY <1>0, <2>3, <3>1, BorderNodes
    <3>3. ~input.include_dense
      BY <3>2, UsableIs
    <3>4. AnswerOK(d)
      BY <1>0, <2>2, <2>4, <3>3 DEF AnswerOK, AnswerTo, KeyLookups, NodeLookups
    <3>5. QED
      BY <2>2, <3>4 DEF AnswerTo, d
  <2>5. CASE call.op = "lookupNodeNum"
    <3>1. ~(Len(call.key) >= StartLevel)
      BY <1>3, <2>5 DEF GoesOn, KeyLookups
    <3>2. Len(call.key) \in Nat
      BY <1>1
    <3>3. QED
      BY <1>0, <2>3, <3>1, <3>2
  <2>6. CASE call.op = "lookupNodeNumOption"
    <3>1. Len(call.key) \in Nat
      BY <1>1
    <3>2. Len(call.key) <= sparse_start_level => ~(call.level < Len(call.key))
      BY <1>0, <2>3, <3>1
    <3>3. NodeAnswer(d)
      BY <2>2, <2>3, <2>6, <3>2 DEF NodeAnswer, AnswerTo
    <3>4. AnswerOK(d)
      BY <2>2, <2>6, <3>3 DEF AnswerOK, AnswerTo, KeyLookups
    <3>5. QED
      BY <2>2, <3>4 DEF AnswerTo, d
  <2>7. QED
    BY <1>0, <2>4, <2>5, <2>6 DEF NodeLookups
<1>4. QED
  BY <1>2, <1>3

(* The node a client holds. *)
LEMMA HeldNode ==
  ASSUME Usable, CallOK(call), HoldsNode
  PROVE  /\ call.key \in InnerPaths /\ call.node = NodeNumber(call.key)
         /\ call.key \in Seq(Label) /\ Len(call.key) \in Nat
<1>1. AnswerOK(call) /\ call.key \in Seq(Label)
  BY DEF CallOK, HoldsNode
<1>2. NodeAt(call.key, call.node)
  BY <1>1 DEF HoldsNode, AnswerOK, NodeAnswer, AmacAnswer, NodeLookups
<1>3. QED
  BY <1>1, <1>2 DEF NodeAt

(* The operations start right. *)
LEMMA StartsOK ==
  ASSUME Usable, CallOK(call),
         \/ StartLookupKey \/ StartLookupNodeNum \/ StartLookupNodeNumOption
         \/ StartLookupKeyAtNode \/ StartGetNode
  PROVE  CallOK(call')
<1>1. CASE StartLookupKey \/ StartLookupNodeNumOption
  <2>1. PICK key \in Keys, op \in {"lookupKey", "lookupNodeNumOption"} :
          call' = NewCall(op, key, 0, 0, "dense")
    BY <1>1 DEF StartLookupKey, StartLookupNodeNumOption
  <2>2. key \in Seq(Label) /\ op \in KeyLookups \cup NodeLookups /\ op # "lookupNodeNum"
    BY KeysAssumption DEF KeyLookups, NodeLookups
  <2>3. QED
    BY <2>1, <2>2, StartsAtRoot
<1>2. CASE StartLookupNodeNum
  <2>1. PICK key \in InnerPaths : call' = NewCall("lookupNodeNum", key, 0, 0, "dense")
    BY <1>2 DEF StartLookupNodeNum
  <2>2. key \in Seq(Label) /\ "lookupNodeNum" \in KeyLookups \cup NodeLookups
    BY PathNode DEF NodeLookups
  <2>3. QED
    BY <2>1, <2>2, StartsAtRoot
<1>3. CASE StartLookupKeyAtNode
  <2>1. PICK key \in Keys :
          /\ IsPrefix(call.key, key)
          /\ call' = NewCall("lookupKeyAtNode", key, Len(call.key), call.node,
                             PartOf(Len(call.key)))
    BY <1>3 DEF StartLookupKeyAtNode
  <2>2. /\ call.key \in InnerPaths /\ call.node = NodeNumber(call.key)
        /\ call.key \in Seq(Label) /\ Len(call.key) \in Nat
    BY <1>3, HeldNode DEF StartLookupKeyAtNode
  <2>3. key \in Seq(Label) /\ "lookupKeyAtNode" \in KeyLookups \cup {"getNode"}
    BY KeysAssumption DEF KeyLookups
  <2> DEFINE l == Len(call.key)
             path == call.key
  <2>4. l <= Len(key) /\ SubSeq(key, 1, l) = path
    <3>1. Len(call.key) <= Len(key)
          /\ SubSeq(call.key, 1, Len(call.key)) = SubSeq(key, 1, Len(call.key))
      BY <2>1 DEF IsPrefix
    <3>2. SubSeq(call.key, 1, Len(call.key)) = call.key
      BY <2>2
    <3>3. QED
      BY <3>1, <3>2
  <2>5. path \in InnerPaths /\ l = Len(path)
        /\ call' = NewCall("lookupKeyAtNode", key, l, NodeNumber(path), PartOf(l))
    BY <2>1, <2>2
  <2> HIDE DEF l, path
  <2>6. QED
    BY <2>3, <2>4, <2>5, StartsAtNode
<1>4. CASE StartGetNode
  <2>1. call' = NewCall("getNode", call.key, Len(call.key), call.node, PartOf(Len(call.key)))
    BY <1>4 DEF StartGetNode
  <2>2. /\ call.key \in InnerPaths /\ call.node = NodeNumber(call.key)
        /\ call.key \in Seq(Label) /\ Len(call.key) \in Nat
    BY <1>4, HeldNode DEF StartGetNode
  <2> DEFINE l == Len(call.key)
             path == call.key
  <2>3. l <= Len(path) /\ SubSeq(path, 1, l) = path /\ l = Len(path) /\ path \in Seq(Label)
        /\ path \in InnerPaths
    BY <2>2
  <2>4. call' = NewCall("getNode", path, l, NodeNumber(path), PartOf(l))
    BY <2>1, <2>2
  <2> HIDE DEF l, path
  <2>5. "getNode" \in KeyLookups \cup {"getNode"}
    OBVIOUS
  <2>6. QED
    BY <2>3, <2>4, <2>5, StartsAtNode
<1>5. QED
  BY <1>1, <1>2, <1>3, <1>4

(* A value that is read is a number, wherever it is read. *)
LEMMA ReadValue ==
  ASSUME NEW vals \in Seq(Nat), NEW i
  PROVE  ValueAt(vals, i) \in Nat
<1>1. CASE i + 1 \in DOMAIN vals
  <2>1. vals[i + 1] \in Nat
    BY <1>1
  <2>2. QED
    BY <1>1, <2>1 DEF ValueAt
<1>2. CASE ~(i + 1 \in DOMAIN vals)
  BY <1>2 DEF ValueAt
<1>3. QED
  BY <1>1, <1>2

(* The values of both encodings are numbers. *)
LEMMA ValuesRead ==
  ASSUME Usable
  PROVE  \A pos : DenseValue(pos) \in Nat /\ SparseValue(pos) \in Nat
<1>1. values_dense \in Seq(Nat) /\ values_sparse \in Seq(Nat)
  <2>1. TypeInv
    BY UsableIs DEF DenseInv, SortedInv, LoudsInv
  <2>2. TypeOK
    BY <2>1 DEF TypeInv
  <2>3. QED
    BY <2>2 DEF TypeOK
<1>2. louds_dense.values \in Seq(Nat)
  BY <1>1, UsableIs DEF MakeLoudsDense
<1>3. louds_sparse.values \in Seq(Nat)
  BY <1>1, UsableIs DEF MakeLoudsSparse
<1>4. QED
  BY <1>2, <1>3, ReadValue DEF DenseValue, SparseValue

(* The two low bits tell a node from a value. *)
LEMMA TagsAre ==
  ASSUME NEW n \in Nat
  PROVE  /\ IsNodeTag(NodeTag(n)) /\ NodeTag(n) \div 4 = n
         /\ ~IsNodeTag(ValueTag(n)) /\ ValueTag(n) \div 4 = n
<1>1. (4 * n + 3) % 4 = 3 /\ (4 * n + 3) \div 4 = n /\ (4 * n + 1) % 4 = 1 /\ (4 * n + 1) \div 4 = n
  OBVIOUS
<1>2. QED
  BY <1>1 DEF IsNodeTag, NodeTag, ValueTag

(* An answer of amacLookup. *)
AmacAnswered(key, found, value, node, d) ==
  /\ IsCall(d) /\ d.op = "amacLookup" /\ d.key = key /\ d.level = Len(key)
  /\ d.at = "answered" /\ d.found = found /\ d.value = value /\ d.node = node

(* What the caller reads back. *)
LEMMA TaggedIs ==
  ASSUME NEW key, NEW n \in Nat, NEW d
  PROVE  /\ d = TaggedAnswer(key, NodeTag(n)) => AmacAnswered(key, TRUE, 0, n, d)
         /\ d = TaggedAnswer(key, ValueTag(n)) =>
              AmacAnswered(key, TRUE, n, 0, d) /\ d.results[1] = ValueTag(n)
         /\ d = MissedAnswer(key) => AmacAnswered(key, FALSE, 0, 0, d)
<1>1. ASSUME NEW t, NEW v, NEW m, v = IF IsNodeTag(t) THEN 0 ELSE t \div 4,
             m = IF IsNodeTag(t) THEN t \div 4 ELSE 0, NEW e, e = TaggedAnswer(key, t)
      PROVE  AmacAnswered(key, TRUE, v, m, e) /\ e.results = <<t>>
  <2> DEFINE l == Len(key)
             rs == <<t>>
             a(f, zero, nil) ==
               [op |-> "amacLookup", key |-> key, level |-> l, node |-> zero,
                at |-> "answered", found |-> f, value |-> zero, prefix |-> nil,
                labels |-> nil, results |-> nil, nodes |-> nil]
  <2>1. e = [a(FALSE, 0, << >>) EXCEPT !.found = TRUE, !.value = v, !.node = m, !.results = rs]
    BY <1>1 DEF TaggedAnswer, NewCall
  <2> HIDE DEF l, rs
  <2>2. PICK w, f, zero, nil :
          w = TRUE /\ e = [a(f, zero, nil) EXCEPT !.found = w, !.value = v, !.node = m,
                                                  !.results = rs]
    BY <2>1, Zenon
  <2> DEFINE c == a(f, zero, nil)
             c1 == [c EXCEPT !.found = w]
             c2 == [c1 EXCEPT !.value = v]
             c3 == [c2 EXCEPT !.node = m]
  <2>3. e = [c3 EXCEPT !.results = rs]
    BY <2>2
  <2> DEFINE R(k, g, x, r) ==
               [op |-> "amacLookup", key |-> key, level |-> l, node |-> k, at |-> "answered",
                found |-> g, value |-> x, prefix |-> nil, labels |-> nil, results |-> r,
                nodes |-> nil]
  <2>4. e = R(m, w, v, rs)
    <3>1. c1 = R(zero, w, zero, nil)
      OBVIOUS
    <3> HIDE DEF c1
    <3>2. c2 = R(zero, w, v, nil)
      BY <3>1
    <3> HIDE DEF c2
    <3>3. c3 = R(m, w, v, nil)
      BY <3>2
    <3> HIDE DEF c3
    <3>4. QED
      BY <2>3, <3>3
  <2>5. \A x : x = [op |-> "amacLookup", key |-> key, level |-> l, node |-> m, at |-> "answered",
                    found |-> w, value |-> v, prefix |-> nil, labels |-> nil, results |-> rs,
                    nodes |-> nil]
                => /\ IsCall(x) /\ x.op = "amacLookup" /\ x.key = key /\ x.level = l
                   /\ x.at = "answered" /\ x.found = w /\ x.value = v /\ x.node = m
                   /\ x.results = rs
    BY DEF IsCall
  <2>6. QED
    BY <2>2, <2>4, <2>5, Zenon DEF l, rs, AmacAnswered
<1>2. ASSUME d = TaggedAnswer(key, NodeTag(n))
      PROVE  AmacAnswered(key, TRUE, 0, n, d)
  <2> DEFINE t == NodeTag(n)
  <2>1. 0 = (IF IsNodeTag(t) THEN 0 ELSE t \div 4) /\ n = IF IsNodeTag(t) THEN t \div 4 ELSE 0
    BY TagsAre
  <2> HIDE DEF t
  <2>2. QED
    BY <1>1, <1>2, <2>1 DEF t
<1>3. ASSUME d = TaggedAnswer(key, ValueTag(n))
      PROVE  AmacAnswered(key, TRUE, n, 0, d) /\ d.results[1] = ValueTag(n)
  <2> DEFINE t == ValueTag(n)
  <2>1. n = (IF IsNodeTag(t) THEN 0 ELSE t \div 4) /\ 0 = IF IsNodeTag(t) THEN t \div 4 ELSE 0
    BY TagsAre
  <2> HIDE DEF t
  <2>2. AmacAnswered(key, TRUE, n, 0, d) /\ d.results = <<t>>
    BY <1>1, <1>3, <2>1 DEF t
  <2>3. <<t>>[1] = t
    OBVIOUS
  <2>4. QED
    BY <2>2, <2>3 DEF t
<1>4. ASSUME d = MissedAnswer(key)
      PROVE  AmacAnswered(key, FALSE, 0, 0, d)
  BY <1>4 DEF MissedAnswer, NewCall, AmacAnswered, IsCall
<1>5. QED
  BY <1>2, <1>3, <1>4

(* What is known of a key whose last byte was read. *)
ByteTold(key, found, hasChild, child, val) ==
  /\ key \in Seq(Label) /\ Len(key) \in Nat
  /\ key \in InnerPaths <=> found /\ hasChild
  /\ key \in InnerPaths => child = NodeNumber(key)
  /\ KeyTold(key, found, hasChild, val)

(* What amacLookup answers to what was read. *)
AmacAnswers(key, found, hasChild, child, val, d) ==
  \/ ~found /\ d = MissedAnswer(key)
  \/ found /\ hasChild /\ d = TaggedAnswer(key, NodeTag(child))
  \/ found /\ ~hasChild /\ d = TaggedAnswer(key, ValueTag(val))

(* What one byte from a node on tells of the bytes read. *)
LEMMA KeyOfByte ==
  ASSUME NEW path \in Seq(Label), NEW byte \in Label, NEW found, NEW hasChild, NEW child, NEW val,
         Tells(path, byte, found, hasChild, child, val),
         NEW key, key = Append(path, byte)
  PROVE  ByteTold(key, found, hasChild, child, val)
<1>1. /\ key \in Seq(Label) /\ Len(key) = Len(path) + 1 /\ Len(path) \in Nat
      /\ key[Len(path) + 1] = byte
  OBVIOUS
<1>2. SubSeq(key, 1, Len(path)) = path
  BY AppendProperties, SubSeqProperties
<1>3. Len(path) < Len(key) /\ Len(key) \in Nat
  BY <1>1
<1>4. KeyTold(key, found, hasChild, val)
  BY <1>1, <1>2, <1>3 DEF Tells
<1>5. /\ key \in InnerPaths <=> found /\ hasChild
      /\ key \in InnerPaths => child = NodeNumber(key)
  BY DEF Tells
<1>6. QED
  BY <1>1, <1>3, <1>4, <1>5 DEF ByteTold

(* The answer is right. *)
LEMMA AmacGoes ==
  ASSUME Usable, NEW path \in InnerPaths, NEW byte \in Label,
         NEW found, NEW hasChild, NEW child, NEW val \in Nat,
         Tells(path, byte, found, hasChild, child, val),
         NEW key, key = Append(path, byte), NEW d,
         AmacAnswers(key, found, hasChild, child, val, d)
  PROVE  CallOK(d)
<1>1. /\ key \in Seq(Label) /\ Len(key) \in Nat
      /\ key \in InnerPaths <=> found /\ hasChild
      /\ key \in InnerPaths => child = NodeNumber(key)
      /\ KeyTold(key, found, hasChild, val)
  <2>1. path \in Seq(Label)
    BY PathNode
  <2>2. ByteTold(key, found, hasChild, child, val)
    BY <2>1, KeyOfByte
  <2>3. QED
    BY <2>2 DEF ByteTold
<1>2. /\ "amacLookup" # "getNode" /\ "amacLookup" \notin KeyLookups
      /\ "amacLookup" \notin NodeLookups
  BY DEF KeyLookups, NodeLookups
<1>3. ASSUME NEW v, NEW n, NEW f \in BOOLEAN, AmacAnswered(key, f, v, n, d), AmacAnswer(d)
      PROVE  CallOK(d)
  <2>1. AnswerOK(d)
    BY <1>2, <1>3 DEF AmacAnswered, AnswerOK
  <2>2. QED
    BY <1>1, <1>2, <1>3, <2>1 DEF CallOK, AmacAnswered
<1>4. CASE ~found /\ d = MissedAnswer(key)
  <2>1. AmacAnswered(key, FALSE, 0, 0, d)
    BY <1>4, TaggedIs
  <2>2. EntriesOf(key) = {} /\ key \notin InnerPaths
    BY <1>1, <1>4 DEF KeyTold
  <2>3. AmacAnswer(d)
    BY <2>1, <2>2 DEF AmacAnswer, AmacAnswered
  <2>4. QED
    BY <1>3, <2>1, <2>3
<1>5. CASE found /\ hasChild /\ d = TaggedAnswer(key, NodeTag(child))
  <2>1. key \in InnerPaths /\ child = NodeNumber(key)
    BY <1>1, <1>5
  <2>2. child \in Nat /\ EntriesOf(key) = {}
    BY <2>1, PathNode, NodeEntries
  <2>3. AmacAnswered(key, TRUE, 0, child, d)
    BY <1>5, <2>2, TaggedIs
  <2>4. AmacAnswer(d)
    BY <2>1, <2>2, <2>3 DEF AmacAnswer, AmacAnswered, NodeAt
  <2>5. QED
    BY <1>3, <2>3, <2>4
<1>6. CASE found /\ ~hasChild /\ d = TaggedAnswer(key, ValueTag(val))
  <2>1. AmacAnswered(key, TRUE, val, 0, d) /\ d.results[1] = ValueTag(val)
    BY <1>6, TaggedIs
  <2>2. ~IsNodeTag(d.results[1])
    BY <2>1, TagsAre
  <2>3. /\ key \notin InnerPaths
        /\ LastNodeEndsInside => EntriesOf(key) # {}
        /\ input.include_dense => \A e \in EntriesOf(key) : e[2] = val
    BY <1>1, <1>6 DEF KeyTold
  <2>4. AmacAnswer(d)
    BY <2>1, <2>2, <2>3 DEF AmacAnswer, AmacAnswered
  <2>5. QED
    BY <1>3, <2>1, <2>4
<1>7. QED
  BY <1>4, <1>5, <1>6 DEF AmacAnswers

(* d is call c gone on at node y of level u, in encoding v, with prefix x. *)
GoneOn(c, x, y, z, u, v, d) ==
  /\ IsCall(d) /\ d.op = c.op /\ d.key = c.key /\ d.found = c.found /\ d.value = c.value
  /\ d.labels = c.labels /\ d.results = c.results
  /\ d.prefix = x /\ d.node = y /\ d.nodes = z /\ d.level = u /\ d.at = v

(* The changes getNode makes to its call when it goes on. *)
LEMMA CollapseChanges ==
  ASSUME NEW c, IsCall(c), NEW x, NEW y, NEW z, NEW u, NEW v, NEW d,
         d = [c EXCEPT !.prefix = x, !.node = y, !.nodes = z, !.level = u, !.at = v]
  PROVE  GoneOn(c, x, y, z, u, v, d)
<1>1. PICK op, key, l, node, at, f, val, prefix, ls, rs, ns :
        c = [op |-> op, key |-> key, level |-> l, node |-> node, at |-> at,
             found |-> f, value |-> val, prefix |-> prefix, labels |-> ls, results |-> rs,
             nodes |-> ns]
  BY Zenon DEF IsCall
<1> DEFINE c1 == [c EXCEPT !.prefix = x]
           c2 == [c1 EXCEPT !.node = y]
           c3 == [c2 EXCEPT !.nodes = z]
           c4 == [c3 EXCEPT !.level = u]
           R(l0, n0, a0, p0, m0) ==
             [op |-> op, key |-> key, level |-> l0, node |-> n0, at |-> a0,
              found |-> f, value |-> val, prefix |-> p0, labels |-> ls, results |-> rs,
              nodes |-> m0]
<1>2. d = [c4 EXCEPT !.at = v]
  OBVIOUS
<1>3. c1 = R(l, node, at, x, ns)
  BY <1>1
<1> HIDE DEF c1
<1>4. c2 = R(l, y, at, x, ns)
  BY <1>3
<1> HIDE DEF c2
<1>5. c3 = R(l, y, at, x, z)
  BY <1>4
<1> HIDE DEF c3
<1>6. c4 = R(u, y, at, x, z)
  BY <1>5
<1> HIDE DEF c4
<1>7. d = R(u, y, v, x, z)
  BY <1>2, <1>6
<1>8. \A e : e = R(u, y, v, x, z) =>
        /\ IsCall(e) /\ e.op = op /\ e.key = key /\ e.found = f /\ e.value = val
        /\ e.labels = ls /\ e.results = rs
        /\ e.prefix = x /\ e.node = y /\ e.nodes = z /\ e.level = u /\ e.at = v
  BY DEF IsCall
<1> HIDE DEF R
<1>9. /\ op = c.op /\ key = c.key /\ f = c.found /\ val = c.value
      /\ ls = c.labels /\ rs = c.results
  BY <1>1
<1>10. QED
  BY <1>7, <1>8, <1>9, Zenon DEF GoneOn

(* The answer of getNode. *)
StopsWith(ls, rs) == Answer([call EXCEPT !.found = TRUE, !.labels = ls, !.results = rs])

(* What a label of a dense node leads to. *)
DenseResult(pos) ==
  IF HasDenseChild(pos) THEN NodeTag(DenseChild(pos)) ELSE ValueTag(DenseValue(pos))

(* What a label of a sparse node leads to. *)
SparseResult(pos) ==
  IF HasSparseChild(pos) THEN NodeTag(SparseChild(pos)) ELSE ValueTag(SparseValue(pos))

NodeAnswered(c, ls, rs, d) ==
  /\ IsCall(d) /\ d.op = c.op /\ d.key = c.key /\ d.node = c.node /\ d.value = c.value
  /\ d.prefix = c.prefix /\ d.nodes = c.nodes /\ d.labels = ls /\ d.results = rs
  /\ d.at = "answered"

LEMMA GetNodeAnswers ==
  ASSUME CallOK(call), call.op = "getNode", NEW ls, NEW rs, StopsWith(ls, rs)
  PROVE  CallOK(call') /\ NodeAnswered(call, ls, rs, call')
<1>1. /\ IsCall(call) /\ call.key \in Seq(Label) /\ call.level \in Nat
      /\ call.prefix \in Seq(Label)
  BY DEF CallOK
<1> DEFINE d == call'
<1>2. d = [[call EXCEPT !.found = TRUE, !.labels = ls, !.results = rs] EXCEPT !.at = "answered"]
  BY DEF StopsWith, Answer
<1> HIDE DEF d
<1>3. PICK w : w = TRUE /\
        d = [[call EXCEPT !.found = w, !.labels = ls, !.results = rs] EXCEPT !.at = "answered"]
  BY <1>2, Zenon
<1>4. PICK op, key, l, node, at, f, val, prefix, ls0, rs0, ns :
        call = [op |-> op, key |-> key, level |-> l, node |-> node, at |-> at,
                found |-> f, value |-> val, prefix |-> prefix, labels |-> ls0, results |-> rs0,
                nodes |-> ns]
  BY <1>1, Zenon DEF IsCall
<1> DEFINE c1 == [call EXCEPT !.found = w]
           c2 == [c1 EXCEPT !.labels = ls]
           c3 == [c2 EXCEPT !.results = rs]
           R(a0, f0, l0, r0) ==
             [op |-> op, key |-> key, level |-> l, node |-> node, at |-> a0,
              found |-> f0, value |-> val, prefix |-> prefix, labels |-> l0, results |-> r0,
              nodes |-> ns]
<1>5. d = [c3 EXCEPT !.at = "answered"]
  BY <1>3
<1>6. c1 = R(at, w, ls0, rs0)
  BY <1>4
<1> HIDE DEF c1
<1>7. c2 = R(at, w, ls, rs0)
  BY <1>6
<1> HIDE DEF c2
<1>8. c3 = R(at, w, ls, rs)
  BY <1>7
<1> HIDE DEF c3
<1>9. d = R("answered", w, ls, rs)
  BY <1>5, <1>8
<1>10. \A e : e = R("answered", w, ls, rs) =>
         /\ IsCall(e) /\ e.op = op /\ e.key = key /\ e.found = w
         /\ e.prefix = prefix /\ e.level = l /\ e.at = "answered"
         /\ e.node = node /\ e.value = val /\ e.nodes = ns /\ e.labels = ls /\ e.results = rs
  BY DEF IsCall
<1> HIDE DEF R
<1>11. /\ op = call.op /\ key = call.key /\ prefix = call.prefix /\ l = call.level
       /\ node = call.node /\ val = call.value /\ ns = call.nodes
  BY <1>4
<1>12. /\ IsCall(d) /\ d.op = "getNode" /\ d.key = call.key /\ d.found = TRUE
       /\ d.prefix = call.prefix /\ d.level = call.level /\ d.at = "answered"
  BY <1>3, <1>9, <1>10, <1>11, Zenon
<1>13. AnswerOK(d)
  BY <1>12 DEF AnswerOK, KeyLookups, NodeLookups
<1>14. CallOK(d)
  BY <1>1, <1>12, <1>13 DEF CallOK
<1>15. NodeAnswered(call, ls, rs, d)
  BY <1>9, <1>10, <1>11, Zenon DEF NodeAnswered
<1>16. QED
  BY <1>14, <1>15 DEF d

(* getNode goes on at a child of the node it stands at. *)
LEMMA CollapseOK ==
  ASSUME Usable, CallOK(call), call.op = "getNode", call.at # "answered",
         NEW c \in Label, NEW child, NEW path, path = call.key \o call.prefix,
         Append(path, c) \in InnerPaths, child = NodeNumber(Append(path, c)),
         Collapse(c, child)
  PROVE  /\ CallOK(call')
         /\ GoneOn(call, Append(call.prefix, c), child, Append(call.nodes, child),
                   call.level + 1, PartOf(call.level + 1), call')
<1>1. /\ IsCall(call) /\ call.key \in Seq(Label) /\ call.level \in Nat
      /\ call.prefix \in Seq(Label) /\ RunningOK(call) /\ call.found \in BOOLEAN
  BY DEF CallOK
<1>2. call.level = Len(path) /\ path \in Seq(Label)
  <2>1. CallPath(call) = path
    BY DEF CallPath
  <2>2. path \in Seq(Label)
    BY <1>1
  <2>3. QED
    BY <1>1, <2>1, <2>2 DEF RunningOK
<1> DEFINE d == call'
           prefix == Append(call.prefix, c)
           l == call.level + 1
           at == PartOf(l)
           nodes == Append(call.nodes, child)
<1>3. d = [call EXCEPT !.prefix = prefix, !.node = child, !.nodes = nodes, !.level = l, !.at = at]
  BY DEF Collapse
<1>4. /\ l \in Nat /\ l = Len(Append(path, c)) /\ prefix \in Seq(Label)
      /\ call.key \o prefix = Append(path, c)
  <2>1. l \in Nat /\ l = Len(path) + 1
    <3>1. l \in Nat
      BY <1>1
    <3>2. QED
      BY <1>2, <3>1
  <2>2. Len(Append(path, c)) = Len(path) + 1
    BY <1>2
  <2>3. prefix \in Seq(Label)
    BY <1>1
  <2>4. call.key \o prefix = Append(path, c)
    <3> DEFINE a == call.key
               b == call.prefix
    <3>1. a \in Seq(Label) /\ b \in Seq(Label)
      BY <1>1
    <3> HIDE DEF a, b
    <3>2. a \o Append(b, c) = Append(a \o b, c)
      BY <3>1
    <3>3. QED
      BY <3>2 DEF a, b
  <2>5. QED
    BY <2>1, <2>2, <2>3, <2>4
<1>5. /\ StartLevel = sparse_start_level /\ sparse_start_level \in Nat
  BY UsableIs
<1>6. /\ at \in {"dense", "sparse"} /\ at # "answered"
      /\ at = "dense" => l < sparse_start_level
      /\ at = "sparse" => sparse_start_level <= l
  BY <1>4, <1>5 DEF PartOf
<1> HIDE DEF d, prefix, l, at, nodes
<1>7. GoneOn(call, prefix, child, nodes, l, at, d)
  BY <1>1, <1>3, CollapseChanges
<1>8. CallPath(d) = Append(path, c)
  BY <1>4, <1>7 DEF CallPath, GoneOn
<1>9. RunningOK(d)
  <2>1. d.op = "getNode" /\ d.node = child /\ d.level = l /\ d.at = at /\ d.key = call.key
    BY <1>7 DEF GoneOn
  <2>2. NodeAt(CallPath(d), d.node) /\ d.level = Len(CallPath(d))
    BY <1>4, <1>8, <2>1 DEF NodeAt
  <2>3. at = "dense" => l <= sparse_start_level
    <3>1. l \in Nat
      BY <1>4
    <3>2. ASSUME l < sparse_start_level PROVE l <= sparse_start_level
      BY <1>5, <3>1, <3>2
    <3>3. QED
      BY <1>6, <3>2
  <2>4. d.op \in KeyLookups \cup NodeLookups \cup {"getNode"}
    BY <2>1
  <2>5. QED
    BY <1>6, <2>1, <2>2, <2>3, <2>4 DEF RunningOK
<1>10. CallOK(d)
  BY <1>1, <1>4, <1>6, <1>7, <1>9 DEF CallOK, GoneOn
<1>11. QED
  BY <1>7, <1>10 DEF d, prefix, nodes, l, at

(* Of a node with one label, the label getNode takes for it is a label. *)
LEMMA LabelOfWordIs ==
  ASSUME NEW node, Cardinality(DenseLabels(node)) = 1
  PROVE  LabelOfWord(node) \in Label
<1> DEFINE S == DenseLabels(node)
<1>1. S \in SUBSET Label
  BY DEF DenseLabels
<1>2. Fanout \in Nat \ {0} /\ WordSize \in Nat /\ WordSize > 1 /\ Fanout % WordSize = 0
  BY ConstantsAssumption, WidthsAssumption
<1>3. 0 \in Int /\ Fanout - 1 \in Int
  BY <1>2
<1> DEFINE top == Fanout - 1
<1>4. S \in SUBSET (0 .. top) /\ top \in Int
  BY <1>1, <1>3 DEF Label
<1>5. S # {}
  BY FS_EmptySet
<1> HIDE DEF S, top
<1>6. Max(S) \in S
  BY <1>3, <1>4, <1>5, MaxIsGreatest
<1> DEFINE m == Max(S)
           q == m \div WordSize
           n == Fanout \div WordSize
           h == WordSize \div 2
<1>6a. m \in Label
  BY <1>1, <1>6
<1>7. m \in Int /\ 0 <= m /\ m < Fanout
  <2> HIDE DEF m
  <2>1. QED
    BY <1>2, <1>6a DEF Label
<1>8. n \in Int /\ Fanout = n * WordSize
  <2> DEFINE f == Fanout
  <2>1. f \in Int /\ WordSize \in Nat \ {0} /\ f % WordSize = 0
    BY <1>2
  <2> HIDE DEF f
  <2>2. f \div WordSize \in Int /\ f = (f \div WordSize) * WordSize + (f % WordSize)
    BY <2>1, DivMod
  <2> DEFINE z == (f \div WordSize) * WordSize
  <2>3. z \in Int
    BY <2>1, <2>2
  <2> HIDE DEF z
  <2>4. f = z + 0
    BY <2>1, <2>2 DEF z
  <2>5. f = z
    BY <2>3, <2>4
  <2>6. QED
    BY <2>2, <2>5 DEF f, z
<1> HIDE DEF m, n
<1>9. q \in Int /\ 0 <= q /\ q < n
  <2>1. WordSize \in Nat \ {0} /\ m < n * WordSize /\ 0 * WordSize <= m
    BY <1>2, <1>7, <1>8
  <2>2. q \in Int
    BY <1>7, <2>1, DivMod
  <2>3. q < n
    BY <1>7, <1>8, <2>1, DivBounds
  <2>4. 0 <= q
    BY <1>3, <1>7, <2>1, DivBounds
  <2>5. QED
    BY <2>2, <2>3, <2>4
<1> HIDE DEF q
<1>10. /\ q * WordSize \in Int /\ 0 * WordSize <= q * WordSize
       /\ (q + 1) * WordSize <= n * WordSize
       /\ (q + 1) * WordSize = q * WordSize + WordSize
  <2>1. q + 1 \in Int /\ q + 1 <= n /\ WordSize \in Nat /\ 0 \in Int
    BY <1>2, <1>8, <1>9
  <2>2. (q + 1) * WordSize <= n * WordSize
    <3> DEFINE i == q + 1
    <3>1. i \in Int /\ i <= n
      BY <2>1
    <3> HIDE DEF i
    <3>2. i * WordSize <= n * WordSize
      BY <1>8, <2>1, <3>1, TimesMonotone
    <3>3. QED
      BY <3>2 DEF i
  <2>3. 0 * WordSize <= q * WordSize
    BY <1>9, <2>1, TimesMonotone
  <2>4. QED
    BY <1>9, <2>1, <2>2, <2>3
<1> DEFINE x == q * WordSize
<1>11. x \in Int /\ 0 <= x /\ x + WordSize <= Fanout
  BY <1>2, <1>8, <1>10
<1>12. h \in Int /\ 1 <= h /\ h <= WordSize
  BY <1>2
<1> HIDE DEF x, h
<1>13. (h - 1) + x \in 0 .. Fanout - 1
  BY <1>2, <1>11, <1>12
<1>14. LabelOfWord(node) = (h - 1) + x
  BY DEF LabelOfWord, h, x, q, m, S
<1>15. QED
  BY <1>13, <1>14 DEF Label

-------------------------------------------------------------------------------
(* The trie stays *)

(* The entries are those of the arguments of the build. *)
LEMMA EntriesReadInput == Entries = StoredOf(input, Len(input.keys))
BY DEF Entries, StoredOf, PrefixOf, TellsApart, FirstOf, SuffixOf, Abs!AllEntries,
       Abs!StoredPrefix, Abs!Distinguishes, Abs!HasPrefix, Abs!Suffix, Abs!Indices, Abs!IsFirst

(* The trie stays when the argument does. *)
LEMMA SameTrie ==
  ASSUME input' = input
  PROVE  Entries' = Entries /\ InnerPaths' = InnerPaths
<1>1. (Entries = StoredOf(input, Len(input.keys)))'
  BY EntriesReadInput, PTL
<1>2. Entries' = Entries
  BY <1>1, EntriesReadInput
<1>3. InnerPaths = UNION {{SubSeq(e[1], 1, n) : n \in 0 .. Len(e[1]) - 1} : e \in Entries}
  BY DEF InnerPaths, Entries
<1>4. QED
  BY <1>2, <1>3 DEF InnerPaths, Entries

(* So does what the lookups need to know of its last node. *)
LEMMA SameEnd ==
  ASSUME louds_sparse' = louds_sparse
  PROVE  LastNodeEndsInside' <=> LastNodeEndsInside
  BY DEF LastNodeEndsInside

(* A call stays right when the trie stays. *)
LEMMA SameCall ==
  ASSUME input' = input, sparse_start_level' = sparse_start_level, louds_sparse' = louds_sparse,
         CallOK(call')
  PROVE  CallOK(call)'
<1> DEFINE d == call'
<1>1. Entries' = Entries /\ InnerPaths' = InnerPaths
  BY SameTrie
<1>2. LastNodeEndsInside' <=> LastNodeEndsInside
  BY SameEnd
<1>3. RunningOK(call') => RunningOK(call)'
  BY <1>1 DEF RunningOK, NodeAt, NodeNumber
<1>4. AnswerOK(call') => AnswerOK(call)'
  <2>1. KeyAnswer(call') => KeyAnswer(call)'
    BY <1>1, <1>2 DEF KeyAnswer, EntriesOf
  <2>2. NodeAnswer(call') => NodeAnswer(call)'
    BY <1>1 DEF NodeAnswer, NodeAt, NodeNumber
  <2>3. AmacAnswer(call') => AmacAnswer(call)'
    BY <1>1, <1>2 DEF AmacAnswer, NodeAt, NodeNumber, EntriesOf
  <2>4. QED
    BY <2>1, <2>2, <2>3 DEF AnswerOK
<1>5. QED
  BY <1>3, <1>4 DEF CallOK

-------------------------------------------------------------------------------
(* What is below a node *)

(* Each label of a set is the one that as many labels are not above as its
   place says. *)
LEMMA PlaceOf ==
  ASSUME NEW S \in SUBSET Label
  PROVE  /\ Cardinality(S) \in Nat
         /\ \A i \in 1 .. Cardinality(S) : \E c \in S : Cardinality(UpTo(S, c)) = i
         /\ \A c \in S : Cardinality(UpTo(S, c)) \in 1 .. Cardinality(S)
         /\ \A b, c \in S : b < c => Cardinality(UpTo(S, b)) < Cardinality(UpTo(S, c))
<1>1. Fanout \in Nat \ {0} /\ Label = 0 .. Fanout - 1
  BY ConstantsAssumption DEF Label
<1>2. IsFiniteSet(S) /\ S \in SUBSET (0 .. Fanout - 1)
  <2>1. 0 \in Int /\ Fanout - 1 \in Int /\ S \in SUBSET (0 .. Fanout - 1)
    BY <1>1
  <2>2. QED
    BY <2>1, FS_Interval, FS_Subset
<1> DEFINE n == Cardinality(S)
<1>3. n \in Nat
  BY <1>2, FS_CardinalityType
<1>4. ASSUME NEW b \in S, NEW c \in S, b < c
      PROVE  Cardinality(UpTo(S, b)) < Cardinality(UpTo(S, c))
  <2>1. /\ Cardinality(Below(S, b)) \in Nat /\ Cardinality(Below(S, c)) \in Nat
        /\ Cardinality(Below(S, b)) < Cardinality(Below(S, c))
        /\ UpTo(S, b) = Below(S, b + 1) /\ UpTo(S, c) = Below(S, c + 1)
        /\ Cardinality(Below(S, b + 1)) = Cardinality(Below(S, b)) + 1
        /\ Cardinality(Below(S, c + 1)) = Cardinality(Below(S, c)) + 1
    <3>1. b \in Int /\ c \in Int /\ b <= c /\ Fanout \in Nat
      BY <1>1, <1>2, <1>4
    <3>2. /\ Cardinality(Below(S, b)) \in Nat /\ Cardinality(Below(S, c)) \in Nat
          /\ Cardinality(Below(S, b)) < Cardinality(Below(S, c))
          /\ UpTo(S, b) = Below(S, b + 1)
          /\ Cardinality(Below(S, b + 1)) = Cardinality(Below(S, b)) + 1
      BY <1>2, <1>4, <3>1, CountsGrow
    <3>3. /\ UpTo(S, c) = Below(S, c + 1)
          /\ Cardinality(Below(S, c + 1)) = Cardinality(Below(S, c)) + 1
      <4>1. c <= c
        BY <3>1
      <4>2. QED
        BY <1>2, <3>1, <4>1, CountsGrow
    <3>4. QED
      BY <3>2, <3>3
  <2>2. QED
    BY <2>1
<1>5. ASSUME NEW c \in S PROVE Cardinality(UpTo(S, c)) \in 1 .. n
  <2>1. UpTo(S, c) \in SUBSET S /\ c \in UpTo(S, c)
    BY <1>1, <1>2 DEF UpTo
  <2>2. /\ IsFiniteSet(UpTo(S, c)) /\ Cardinality(UpTo(S, c)) <= n
        /\ Cardinality(UpTo(S, c)) \in Nat
    BY <1>2, <2>1, FS_Subset, FS_CardinalityType
  <2>3. Cardinality(UpTo(S, c)) # 0
    BY <2>1, <2>2, FS_EmptySet
  <2>4. QED
    BY <1>3, <2>2, <2>3
<1> DEFINE f == [c \in S |-> Cardinality(UpTo(S, c))]
<1>6. f \in Injection(S, 1 .. n)
  <2>1. f \in [S -> 1 .. n]
    BY <1>5
  <2>2. ASSUME NEW b \in S, NEW c \in S, f[b] = f[c] PROVE b = c
    <3>1. b \in Int /\ c \in Int
      BY <1>2
    <3>2. f[b] \in Int /\ f[c] \in Int
      BY <1>3, <1>5
    <3>3. ~(b < c) /\ ~(c < b)
      BY <1>4, <2>2, <3>2
    <3>4. QED
      BY <3>1, <3>3
  <2>3. QED
    BY <2>1, <2>2 DEF Injection, IsInjective
<1>7. IsFiniteSet(1 .. n) /\ Cardinality(1 .. n) = n
  BY <1>3, FS_Interval
<1> HIDE DEF f
<1>8. f \in Surjection(S, 1 .. n)
  BY <1>6, <1>7, FS_Injection
<1>9. ASSUME NEW i \in 1 .. n PROVE \E c \in S : Cardinality(UpTo(S, c)) = i
  <2>1. PICK c \in S : f[c] = i
    BY <1>8 DEF Surjection
  <2>2. QED
    BY <2>1 DEF f
<1>10. QED
  BY <1>3, <1>4, <1>5, <1>9

(* Labels in order are all of them, and ascend. *)
LEMMA InOrderIs ==
  ASSUME NEW S \in SUBSET Label, NEW ls, ls = InOrder(S)
  PROVE  /\ ls \in Seq(Label) /\ Len(ls) = Cardinality(S)
         /\ \A i \in DOMAIN ls : ls[i] \in S
         /\ \A c \in S : \E i \in DOMAIN ls : ls[i] = c
         /\ \A i \in 2 .. Len(ls) : ls[i - 1] < ls[i]
<1> DEFINE n == Cardinality(S)
<1>1. n \in Nat /\ S \in SUBSET Int
  BY PlaceOf, ConstantsAssumption DEF Label
<1>2. ls = [i \in 1 .. n |-> CHOOSE c \in S : Cardinality(UpTo(S, c)) = i]
  BY DEF InOrder, UpTo
<1> HIDE DEF n
<1>3. ASSUME NEW i \in 1 .. n PROVE ls[i] \in S /\ Cardinality(UpTo(S, ls[i])) = i
  <2>1. \E c \in S : Cardinality(UpTo(S, c)) = i
    BY PlaceOf DEF n
  <2>2. ls[i] = CHOOSE c \in S : Cardinality(UpTo(S, c)) = i
    BY <1>2
  <2>3. QED
    BY <2>1, <2>2
<1>4. ls \in Seq(Label) /\ Len(ls) = n /\ DOMAIN ls = 1 .. n
  <2>1. ls \in [1 .. n -> Label]
    BY <1>2, <1>3
  <2>2. QED
    BY <1>1, <2>1
<1>5. ASSUME NEW b \in S, NEW c \in S, Cardinality(UpTo(S, b)) <= Cardinality(UpTo(S, c))
      PROVE  b <= c
  <2>1. /\ c < b => Cardinality(UpTo(S, c)) < Cardinality(UpTo(S, b))
        /\ Cardinality(UpTo(S, c)) \in 1 .. n /\ Cardinality(UpTo(S, b)) \in 1 .. n
    BY PlaceOf DEF n
  <2>2. QED
    BY <1>1, <1>5, <2>1
<1>6. ASSUME NEW c \in S PROVE \E i \in DOMAIN ls : ls[i] = c
  <2>1. Cardinality(UpTo(S, c)) \in 1 .. n
    BY PlaceOf DEF n
  <2> DEFINE i == Cardinality(UpTo(S, c))
  <2>2. ls[i] \in S /\ Cardinality(UpTo(S, ls[i])) = i
    BY <1>3, <2>1
  <2>3. i <= i /\ i \in Int
    BY <1>1, <2>1
  <2>4. ls[i] <= c /\ c <= ls[i]
    BY <1>5, <2>2, <2>3
  <2> HIDE DEF i
  <2>5. ls[i] = c
    <3>1. ls[i] \in Int /\ c \in Int
      BY <1>1, <2>2
    <3>2. QED
      BY <2>4, <3>1
  <2>6. QED
    BY <1>4, <2>1, <2>5 DEF i
<1>7. ASSUME NEW i \in 2 .. n PROVE ls[i - 1] < ls[i]
  <2>1. i \in 1 .. n /\ i - 1 \in 1 .. n
    BY <1>1
  <2>2. /\ ls[i - 1] \in S /\ Cardinality(UpTo(S, ls[i - 1])) = i - 1
        /\ ls[i] \in S /\ Cardinality(UpTo(S, ls[i])) = i
    BY <1>3, <2>1
  <2>3. ls[i - 1] <= ls[i]
    BY <1>5, <2>1, <2>2
  <2>4. ls[i - 1] # ls[i]
    BY <2>1, <2>2
  <2>5. ls[i - 1] \in Int /\ ls[i] \in Int
    BY <1>1, <2>2
  <2>6. QED
    BY <2>3, <2>4, <2>5
<1>8. QED
  BY <1>3, <1>4, <1>6, <1>7 DEF n

(* What getNode says of a path of one byte more than a node's. *)
ResultAt(q) ==
  IF q \in InnerPaths THEN NodeTag(NodeNumber(q))
  ELSE ValueTag((CHOOSE e \in Entries : e[1] = q)[2])

ItemResult(l, p) ==
  IF p \in child_indicator_bits[l]
  THEN NodeTag(NodesAbove(l + 1) + Cardinality(Below(child_indicator_bits[l], p)))
  ELSE ValueTag(LeafEntry(l, p)[2])

(* An item of a node is a path of one byte more, with that result. *)
LEMMA ItemIsNext ==
  ASSUME Complete, NEW l \in 0 .. height - 1, NEW k, NEW path, At(path, l, k), NEW c \in Label,
         NEW p, NodeItem(l, k, c, p)
  PROVE  /\ Append(path, c) \in NextPaths(path) /\ Last(Append(path, c)) = c
         /\ ResultAt(Append(path, c)) = ItemResult(l, p)
<1> SUFFICES ASSUME NEW q, q = Append(path, c)
             PROVE  q \in NextPaths(path) /\ Last(q) = c /\ ResultAt(q) = ItemResult(l, p)
  OBVIOUS
<1>1. DenseInv /\ AllValued /\ Entries = entries
  BY DEF Complete, Entries
<1>2. path \in Seq(Label) /\ Len(path) = l /\ l \in Nat
  BY <1>1, AtIs, LevelIs
<1>3. q \in Seq(Label) /\ Len(q) = Len(path) + 1 /\ Last(q) = c /\ IsPrefix(path, q)
  <2>1. /\ q \in Seq(Label) /\ Len(q) = Len(path) + 1 /\ q[Len(path) + 1] = c
        /\ SubSeq(q, 1, Len(path)) = path /\ SubSeq(path, 1, Len(path)) = path
    BY <1>2
  <2>2. QED
    BY <1>2, <2>1 DEF Last, IsPrefix
<1>4. p \in Items(l) /\ PathTo(l, p) = q /\ \A s \in Items(l) : PathTo(l, s) = q => s = p
  BY <1>1, ItemPath
<1>5. CASE p \in child_indicator_bits[l]
  <2>1. /\ q \in InnerPaths
        /\ NodeNumber(q) = NodesAbove(l + 1) + Cardinality(Below(child_indicator_bits[l], p))
    BY <1>5, ChildPath
  <2>2. QED
    BY <1>3, <1>5, <2>1 DEF NextPaths, ResultAt, ItemResult
<1>6. CASE p \notin child_indicator_bits[l]
  <2>1. p \in Leaves(l)
    BY <1>1, <1>4, <1>6, LeafIsItem
  <2>2. LeafEntry(l, p) \in Entries /\ LeafEntry(l, p)[1] = q
    BY <1>1, <1>4, <2>1, EntriesAreLeaves DEF LeafEntry
  <2>3. ASSUME NEW e \in Entries, e[1] = q PROVE e = LeafEntry(l, p)
    <3>1. PICK m \in 0 .. height - 1 : \E s \in Leaves(m) : e = LeafEntry(m, s)
      BY <1>1, EntriesAreLeaves
    <3>2. PICK s \in Leaves(m) : e = LeafEntry(m, s)
      BY <3>1
    <3>3. s \in Items(m) /\ PathTo(m, s) = q
      BY <1>1, <2>3, <3>2, LeafIsItem DEF LeafEntry
    <3>4. Len(q) = m + 1
      BY <1>1, <3>3, PathIsSeq
    <3>5. m = l
      BY <1>1, <1>2, <1>3, <3>4, LevelIs
    <3>6. QED
      BY <1>4, <3>2, <3>3, <3>5
  <2>4. q \notin InnerPaths
    <3> SUFFICES ASSUME q \in InnerPaths PROVE FALSE
      OBVIOUS
    <3>1. PICK s \in child_indicator_bits[l] : NodeItem(l, k, c, s)
      BY InnerChild
    <3>2. s \in Items(l) /\ PathTo(l, s) = q
      BY <1>1, <3>1, ItemPath
    <3>3. QED
      BY <1>4, <1>6, <3>2
  <2>5. (CHOOSE e \in Entries : e[1] = q) = LeafEntry(l, p)
    BY <2>2, <2>3
  <2>6. q \in NextPaths(path)
    <3>1. q \in {e[1] : e \in Entries}
      BY <2>2
    <3>2. QED
      BY <1>3, <3>1 DEF NextPaths
  <2>7. ResultAt(q) = ItemResult(l, p)
    <3>1. ResultAt(q) = ValueTag((CHOOSE e \in Entries : e[1] = q)[2])
      BY <2>4, Zenon DEF ResultAt
    <3>2. ItemResult(l, p) = ValueTag(LeafEntry(l, p)[2])
      BY <1>6, Zenon DEF ItemResult
    <3>3. QED
      BY <2>5, <3>1, <3>2, Zenon
  <2>8. QED
    BY <1>3, <2>6, <2>7
<1>7. QED
  BY <1>5, <1>6

(* Every path of one byte more is an item of the node. *)
LEMMA NextIsItem ==
  ASSUME Complete, NEW l \in 0 .. height - 1, NEW k, NEW path, At(path, l, k),
         NEW q \in NextPaths(path)
  PROVE  \E c \in Label : \E p : NodeItem(l, k, c, p) /\ q = Append(path, c)
<1>1. DenseInv /\ AllValued /\ Entries = entries
  BY DEF Complete, Entries
<1>2. path \in Seq(Label) /\ Len(path) = l /\ l \in Nat
  BY <1>1, AtIs, LevelIs
<1>3. q \in InnerPaths \/ \E e \in Entries : q = e[1]
  BY DEF NextPaths
<1>4. Len(q) = l + 1 /\ SubSeq(path, 1, l) = SubSeq(q, 1, l)
  BY <1>2 DEF NextPaths, IsPrefix
<1>5. ASSUME q \in Seq(Label)
      PROVE  q[l + 1] \in Label /\ q = Append(path, q[l + 1])
  <2>1. SubSeq(path, 1, l) = path
    BY <1>2
  <2>2. path = SubSeq(q, 1, l) /\ l + 1 \in 1 .. Len(q)
    BY <1>2, <1>4, <2>1
  <2>3. QED
    BY <1>2, <1>4, <1>5, <2>2
<1>6. CASE q \in InnerPaths
  <2>1. q \in Seq(Label)
    BY <1>6, InnerPathIs
  <2>2. PICK p \in child_indicator_bits[l] : NodeItem(l, k, q[l + 1], p)
    BY <1>5, <1>6, <2>1, InnerChild
  <2>3. QED
    BY <1>5, <2>1, <2>2
<1>7. CASE \E e \in Entries : q = e[1]
  <2>1. PICK e \in Entries : q = e[1]
    BY <1>7
  <2>2. PICK m \in 0 .. height - 1 : \E s \in Leaves(m) : e = LeafEntry(m, s)
    BY <1>1, EntriesAreLeaves
  <2>3. PICK s \in Leaves(m) : e = LeafEntry(m, s)
    BY <2>2
  <2>4. s \in Items(m) /\ PathTo(m, s) = q
    BY <1>1, <2>1, <2>3, LeafIsItem DEF LeafEntry
  <2>5. q \in Seq(Label) /\ Len(q) = m + 1
    BY <1>1, <2>4, PathIsSeq
  <2>6. m = l
    BY <1>1, <1>2, <1>4, <2>5, LevelIs
  <2>7. NodeItem(l, k, q[l + 1], s)
    BY <1>1, <1>5, <2>4, <2>5, <2>6, ItemOfPath
  <2>8. QED
    BY <1>5, <2>5, <2>7
<1>8. QED
  BY <1>3, <1>6, <1>7

(* Lists of labels and results show a node. *)
Shows(path, ls, rs) ==
  /\ {<<ls[i], rs[i]>> : i \in DOMAIN ls} = {<<Last(q), ResultAt(q)>> : q \in NextPaths(path)}
  /\ \A i \in 2 .. Len(ls) : ls[i - 1] < ls[i]

Lists(l, k, ls, rs) ==
  /\ \A i \in DOMAIN ls : ls[i] \in Label /\ \E p : NodeItem(l, k, ls[i], p) /\ rs[i] = ItemResult(l, p)
  /\ \A c \in Label : \A p : NodeItem(l, k, c, p) => \E i \in DOMAIN ls : ls[i] = c
  /\ \A i \in 2 .. Len(ls) : ls[i - 1] < ls[i]

(* They do when they list its items. *)
LEMMA ListsShow ==
  ASSUME Complete, NEW l \in 0 .. height - 1, NEW k, NEW path, At(path, l, k),
         NEW ls, NEW rs, Lists(l, k, ls, rs)
  PROVE  Shows(path, ls, rs)
<1>1. ASSUME NEW i \in DOMAIN ls
      PROVE  \E q \in NextPaths(path) : ls[i] = Last(q) /\ rs[i] = ResultAt(q)
  <2>1. ls[i] \in Label
    BY DEF Lists
  <2>2. PICK p : NodeItem(l, k, ls[i], p) /\ rs[i] = ItemResult(l, p)
    BY DEF Lists
  <2> DEFINE q == Append(path, ls[i])
  <2>5. q \in NextPaths(path) /\ Last(q) = ls[i] /\ ResultAt(q) = ItemResult(l, p)
    <3>1. q \in NextPaths(path)
      BY <2>1, <2>2, ItemIsNext
    <3>2. Last(q) = ls[i]
      BY <2>1, <2>2, ItemIsNext
    <3>3. ResultAt(q) = ItemResult(l, p)
      BY <2>1, <2>2, ItemIsNext
    <3>4. QED
      BY <3>1, <3>2, <3>3
  <2>6. QED
    BY <2>2, <2>5
<1>2. ASSUME NEW q \in NextPaths(path)
      PROVE  \E i \in DOMAIN ls : ls[i] = Last(q) /\ rs[i] = ResultAt(q)
  <2>1. PICK c \in Label : \E p : NodeItem(l, k, c, p) /\ q = Append(path, c)
    BY NextIsItem
  <2>2. PICK p : NodeItem(l, k, c, p) /\ q = Append(path, c)
    BY <2>1
  <2>3. PICK i \in DOMAIN ls : ls[i] = c
    BY <2>2 DEF Lists
  <2>4. PICK s : NodeItem(l, k, c, s) /\ rs[i] = ItemResult(l, s)
    BY <2>3 DEF Lists
  <2>5. Last(q) = c /\ ResultAt(q) = ItemResult(l, s)
    <3>1. NodeItem(l, k, c, s) /\ q = Append(path, c)
      BY <2>2, <2>3, <2>4
    <3>2. Last(q) = c
      BY <3>1, ItemIsNext
    <3>3. ResultAt(q) = ItemResult(l, s)
      BY <3>1, ItemIsNext
    <3>4. QED
      BY <3>2, <3>3
  <2>6. QED
    BY <2>3, <2>4, <2>5
<1>3. {<<ls[i], rs[i]>> : i \in DOMAIN ls} = {<<Last(q), ResultAt(q)>> : q \in NextPaths(path)}
  BY <1>1, <1>2
<1>4. QED
  BY <1>3 DEF Shows, Lists

(* A node with one item has one branch. *)
LEMMA OneItemOneBranch ==
  ASSUME Complete, NEW l \in 0 .. height - 1, NEW k, NEW path, At(path, l, k), NEW c \in Label,
         \E p : NodeItem(l, k, c, p),
         \A b \in Label : \A p : NodeItem(l, k, b, p) => b = c
  PROVE  NextPaths(path) = {Append(path, c)}
<1>1. Append(path, c) \in NextPaths(path)
  BY ItemIsNext
<1>2. ASSUME NEW q \in NextPaths(path) PROVE q = Append(path, c)
  <2>1. PICK b \in Label : \E p : NodeItem(l, k, b, p) /\ q = Append(path, b)
    BY NextIsItem
  <2>2. QED
    BY <2>1
<1>3. QED
  BY <1>1, <1>2

-------------------------------------------------------------------------------
(* Bytes that are negative as a char *)

(* A call for which amacLookup was given none in the dense part. *)
Plain(c) ==
  \/ ~NegativeBytes
  \/ c.op \in {"none", "lookupKey"} \cup NodeLookups
  \/ \A n \in 1 .. Len(c.key) : n <= StartLevel => SignedByte(c.key[n]) >= 0

(* A call has a key, whatever was given to it. *)
Keyed(c) == {"op", "key"} \subseteq DOMAIN c /\ c.key \in Seq(Label)

KeepsKey(c, d) == {"op", "key"} \subseteq DOMAIN d /\ d.op = c.op /\ d.key = c.key

LEMMA RightIsKeyed == ASSUME NEW c, CallOK(c) PROVE Keyed(c)
BY DEF CallOK, IsCall, Keyed

(* The other parts of a call change without its key. *)
LEMMA PartsChange ==
  ASSUME NEW c, {"op", "key"} \subseteq DOMAIN c, NEW x, NEW d,
         \/ d = [c EXCEPT !.at = x] \/ d = [c EXCEPT !.found = x] \/ d = [c EXCEPT !.value = x]
         \/ d = [c EXCEPT !.node = x] \/ d = [c EXCEPT !.level = x] \/ d = [c EXCEPT !.prefix = x]
         \/ d = [c EXCEPT !.labels = x] \/ d = [c EXCEPT !.results = x]
         \/ d = [c EXCEPT !.nodes = x]
  PROVE  KeepsKey(c, d)
BY DEF KeepsKey

LEMMA KeptTwice ==
  ASSUME NEW c, NEW d, NEW e, KeepsKey(c, d), KeepsKey(d, e)
  PROVE  KeepsKey(c, e)
BY DEF KeepsKey

(* No step of an operation that runs changes it. *)
LEMMA KeyStays ==
  ASSUME Keyed(call), LookupStep
  PROVE  KeepsKey(call, call')
<1>1. {"op", "key"} \subseteq DOMAIN call
  BY DEF Keyed
<1>2. ASSUME NEW c, KeepsKey(call, c), Answer(c) PROVE KeepsKey(call, call')
  <2>1. call' = [c EXCEPT !.at = "answered"] /\ {"op", "key"} \subseteq DOMAIN c
    BY <1>2 DEF Answer, KeepsKey
  <2>2. KeepsKey(c, call')
    BY <2>1, PartsChange
  <2>3. QED
    BY <1>2, <2>2, KeptTwice
<1>3. ASSUME Miss \/ FoundNode PROVE KeepsKey(call, call')
  <2>1. PICK f : Answer([call EXCEPT !.found = f])
    BY <1>3, Zenon DEF Miss, FoundNode
  <2>2. KeepsKey(call, [call EXCEPT !.found = f])
    BY <1>1, PartsChange
  <2>3. QED
    BY <1>2, <2>1, <2>2
<1>4. ASSUME NEW v, Hit(v) PROVE KeepsKey(call, call')
  <2> DEFINE c == [call EXCEPT !.found = TRUE]
             d == [c EXCEPT !.value = v]
  <2>1. KeepsKey(call, c)
    BY <1>1, PartsChange
  <2>2. {"op", "key"} \subseteq DOMAIN c
    BY <2>1 DEF KeepsKey
  <2>3. Answer(d)
    BY <1>4 DEF Hit
  <2> HIDE DEF c
  <2>4. KeepsKey(c, d)
    BY <2>2, PartsChange
  <2>5. KeepsKey(call, d)
    BY <2>1, <2>4, KeptTwice
  <2> HIDE DEF d
  <2>6. QED
    BY <1>2, <2>3, <2>5
<1>5. ASSUME NEW child, Descend(child) PROVE KeepsKey(call, call')
  <2> DEFINE c == [call EXCEPT !.node = child]
  <2>1. KeepsKey(call, c)
    BY <1>1, PartsChange
  <2>2. {"op", "key"} \subseteq DOMAIN c
    BY <2>1 DEF KeepsKey
  <2>3. call' = [c EXCEPT !.level = call.level + 1]
    BY <1>5, Zenon DEF Descend
  <2> HIDE DEF c
  <2>4. KeepsKey(c, call')
    BY <2>2, <2>3, PartsChange
  <2>5. QED
    BY <2>1, <2>4, KeptTwice
<1>6. ASSUME ToSparse PROVE KeepsKey(call, call')
  BY <1>1, <1>6, PartsChange DEF ToSparse
<1>7. ASSUME NEW label, NEW child, Collapse(label, child) PROVE KeepsKey(call, call')
  <2> DEFINE c1 == [call EXCEPT !.prefix = Append(call.prefix, label)]
             c2 == [c1 EXCEPT !.node = child]
             c3 == [c2 EXCEPT !.nodes = Append(call.nodes, child)]
             c4 == [c3 EXCEPT !.level = call.level + 1]
  <2>2. call' = [c4 EXCEPT !.at = PartOf(call.level + 1)]
    BY <1>7, Zenon DEF Collapse
  <2>3. KeepsKey(call, c1)
    BY <1>1, PartsChange
  <2> HIDE DEF c1
  <2>4. KeepsKey(c1, c2)
    BY <2>3, PartsChange DEF KeepsKey
  <2> HIDE DEF c2
  <2>5. KeepsKey(c2, c3)
    BY <2>4, PartsChange DEF KeepsKey
  <2> HIDE DEF c3
  <2>6. KeepsKey(c3, c4)
    BY <2>5, PartsChange DEF KeepsKey
  <2> HIDE DEF c4
  <2>7. KeepsKey(c4, call')
    BY <2>2, <2>6, PartsChange DEF KeepsKey
  <2>8. QED
    BY <2>3, <2>4, <2>5, <2>6, <2>7, KeptTwice
<1>8. ASSUME NEW ls, NEW rs, StopsWith(ls, rs) PROVE KeepsKey(call, call')
  <2> DEFINE c1 == [call EXCEPT !.found = TRUE]
             c2 == [c1 EXCEPT !.labels = ls]
             c3 == [c2 EXCEPT !.results = rs]
  <2>1. Answer(c3)
    BY <1>8 DEF StopsWith
  <2>2. KeepsKey(call, c1)
    BY <1>1, PartsChange
  <2> HIDE DEF c1
  <2>3. KeepsKey(c1, c2)
    BY <2>2, PartsChange DEF KeepsKey
  <2> HIDE DEF c2
  <2>4. KeepsKey(c2, c3)
    BY <2>3, PartsChange DEF KeepsKey
  <2> HIDE DEF c3
  <2>5. KeepsKey(call, c3)
    BY <2>2, <2>3, <2>4, KeptTwice
  <2>6. QED
    BY <1>2, <2>1, <2>5
<1>9. CASE DenseKeyStep \/ DenseNodeStep \/ LeaveDense \/ SparseKeyStep \/ SparseNodeStep
  <2>1. Miss \/ FoundNode \/ ToSparse \/ (\E v : Hit(v)) \/ \E child : Descend(child)
    BY <1>9, Zenon
       DEF DenseKeyStep, DenseNodeStep, LeaveDense, FoundNode, SparseKeyStep, SparseNodeStep
  <2>2. QED
    BY <1>3, <1>4, <1>5, <1>6, <2>1
<1>10. CASE GetDenseNode \/ GetSparseNode
  <2>1. (\E c, child : Collapse(c, child)) \/ \E ls, rs : StopsWith(ls, rs)
    <3>1. CASE GetDenseNode
      <4> DEFINE c == LabelOfWord(call.node)
                 ls == InOrder(DenseLabels(call.node))
                 rs == [i \in 1 .. Len(ls) |-> DenseResult(call.node * Fanout + ls[i])]
      <4>1. Collapse(c, DenseChild(call.node * Fanout + c)) \/ StopsWith(ls, rs)
        BY <3>1 DEF GetDenseNode, StopsWith, DenseResult
      <4> HIDE DEF c, ls, rs
      <4>2. QED
        BY <4>1
    <3>2. CASE GetSparseNode
      <4> DEFINE pos == FirstLabelPos(call.node)
                 c == LV!LabelAt(louds_sparse.labels, pos)
      <4>1. PICK size \in NodeSizes(pos) :
              IF GoesOnAlone(pos, size)
              THEN Collapse(c, SparseChild(pos))
              ELSE LET end == Min({pos + size, louds_sparse.child_indicator_bits.num_bits})
                   IN  StopsWith([i \in 1 .. end - pos |-> LV!LabelAt(louds_sparse.labels, pos + i - 1)],
                                 [i \in 1 .. end - pos |-> SparseResult(pos + i - 1)])
        BY <3>2 DEF GetSparseNode, StopsWith, SparseResult
      <4> DEFINE end == Min({pos + size, louds_sparse.child_indicator_bits.num_bits})
                 ls == [i \in 1 .. end - pos |-> LV!LabelAt(louds_sparse.labels, pos + i - 1)]
                 rs == [i \in 1 .. end - pos |-> SparseResult(pos + i - 1)]
      <4>2. Collapse(c, SparseChild(pos)) \/ StopsWith(ls, rs)
        <5>1. CASE GoesOnAlone(pos, size)
          BY <4>1, <5>1
        <5>2. CASE ~GoesOnAlone(pos, size)
          BY <4>1, <5>2
        <5>3. QED
          BY <5>1, <5>2
      <4> HIDE DEF c, pos, ls, rs
      <4>3. QED
        BY <4>2
    <3>3. QED
      BY <1>10, <3>1, <3>2
  <2>2. QED
    BY <1>7, <1>8, <2>1
<1>11. QED
  BY <1>9, <1>10 DEF LookupStep

(* The call of an operation that starts has its key. *)
LEMMA StartKey ==
  ASSUME NEW op, NEW key, NEW l, NEW node, NEW at, NEW d, d = NewCall(op, key, l, node, at)
  PROVE  {"op", "key"} \subseteq DOMAIN d /\ d.op = op /\ d.key = key
BY DEF NewCall

(* amacLookup appends its byte to the bytes read. *)
LEMMA AmacKey ==
  ASSUME NEW byte, call' \in DenseStepsOf(byte) \cup SparseStepsOf(byte)
  PROVE  /\ {"op", "key"} \subseteq DOMAIN call'
         /\ call'.op = "amacLookup" /\ call'.key = Append(call.key, byte)
<1> DEFINE key == Append(call.key, byte)
<1>1. call' = MissedAnswer(key) \/ \E tagged : call' = TaggedAnswer(key, tagged)
  <2>1. CASE call' \in DenseStepsOf(byte)
    BY <2>1 DEF DenseStepsOf, StraySteps
  <2>2. CASE call' \in SparseStepsOf(byte)
    BY <2>2 DEF SparseStepsOf
  <2>3. QED
    BY <2>1, <2>2
<1> HIDE DEF key
<1> DEFINE c0 == NewCall("amacLookup", key, Len(key), 0, "answered")
<1>2. {"op", "key"} \subseteq DOMAIN c0 /\ c0.op = "amacLookup" /\ c0.key = key
  BY StartKey
<1>3. CASE call' = MissedAnswer(key)
  BY <1>2, <1>3 DEF MissedAnswer, key
<1>4. CASE \E tagged : call' = TaggedAnswer(key, tagged)
  <2>1. PICK tagged : call' = TaggedAnswer(key, tagged)
    BY <1>4
  <2> DEFINE c1 == [c0 EXCEPT !.found = TRUE]
             c2 == [c1 EXCEPT !.value = IF IsNodeTag(tagged) THEN 0 ELSE tagged \div 4]
             c3 == [c2 EXCEPT !.node = IF IsNodeTag(tagged) THEN tagged \div 4 ELSE 0]
  <2>2. call' = [c3 EXCEPT !.results = <<tagged>>]
    BY <2>1, Zenon DEF TaggedAnswer
  <2> HIDE DEF c0
  <2>3. KeepsKey(c0, c1)
    BY <1>2, PartsChange
  <2> HIDE DEF c1
  <2>4. KeepsKey(c1, c2)
    BY <2>3, PartsChange DEF KeepsKey
  <2> HIDE DEF c2
  <2>5. KeepsKey(c2, c3)
    BY <2>4, PartsChange DEF KeepsKey
  <2> HIDE DEF c3
  <2>6. KeepsKey(c3, call')
    BY <2>2, <2>5, PartsChange DEF KeepsKey
  <2>7. KeepsKey(c0, call')
    BY <2>3, <2>4, <2>5, <2>6, KeptTwice
  <2>8. QED
    BY <1>2, <2>7 DEF KeepsKey, key
<1>5. QED
  BY <1>1, <1>3, <1>4

(* A call from a held node has the bytes read before in front. *)
LEMMA HeldKey ==
  ASSUME Keyed(call), StartLookupKeyAtNode \/ StartGetNode \/ AmacLookup
  PROVE  /\ Keyed(call') /\ call'.op \in {"lookupKeyAtNode", "getNode", "amacLookup"}
         /\ Len(call.key) <= Len(call'.key)
         /\ \A n \in 1 .. Len(call.key) : call'.key[n] = call.key[n]
<1>1. call.key \in Seq(Label)
  BY DEF Keyed
<1>2. CASE StartLookupKeyAtNode
  <2>1. PICK key \in Keys : /\ IsPrefix(call.key, key)
                            /\ call' = NewCall("lookupKeyAtNode", key, Len(call.key), call.node,
                                               PartOf(Len(call.key)))
    BY <1>2 DEF StartLookupKeyAtNode
  <2>2. key \in Seq(Label)
    BY KeysAssumption
  <2>3. {"op", "key"} \subseteq DOMAIN call' /\ call'.op = "lookupKeyAtNode" /\ call'.key = key
    BY <2>1, StartKey
  <2> DEFINE m == Len(call.key)
  <2>4. m <= Len(key) /\ SubSeq(call.key, 1, m) = SubSeq(key, 1, m) /\ m \in Nat
    BY <1>1, <2>1 DEF IsPrefix
  <2>5. \A n \in 1 .. m : SubSeq(call.key, 1, m)[n] = call.key[n] /\ SubSeq(key, 1, m)[n] = key[n]
    BY <1>1, <2>2, <2>4
  <2>6. QED
    BY <2>2, <2>3, <2>4, <2>5 DEF Keyed
<1>3. CASE StartGetNode
  <2>1. {"op", "key"} \subseteq DOMAIN call' /\ call'.op = "getNode" /\ call'.key = call.key
    BY <1>3, StartKey DEF StartGetNode
  <2>2. QED
    BY <1>1, <2>1 DEF Keyed
<1>4. CASE AmacLookup
  <2>1. PICK byte \in Label : call' \in DenseStepsOf(byte) \cup SparseStepsOf(byte)
    BY <1>4, Zenon DEF AmacLookup
  <2>2. {"op", "key"} \subseteq DOMAIN call' /\ call'.op = "amacLookup"
        /\ call'.key = Append(call.key, byte)
    BY <2>1, AmacKey
  <2>3. QED
    BY <1>1, <2>1, <2>2 DEF Keyed
<1>5. QED
  BY <1>2, <1>3, <1>4

(* A call without such a byte was reached without one. *)
LEMMA PlainBefore ==
  ASSUME Keyed(call), StartLookup \/ LookupStep, Plain(call')
  PROVE  Plain(call)
<1>1. CASE LookupStep
  <2>1. call'.op = call.op /\ call'.key = call.key
    BY <1>1, KeyStays DEF KeepsKey
  <2>2. QED
    BY <2>1 DEF Plain
<1>2. CASE StartLookupKey \/ StartLookupNodeNum \/ StartLookupNodeNumOption
  <2>1. call = NoCall
    BY <1>2 DEF StartLookupKey, StartLookupNodeNum, StartLookupNodeNumOption, Ready
  <2>2. call.op = "none"
    BY <2>1, StartKey DEF NoCall
  <2>3. QED
    BY <2>2 DEF Plain
<1>3. CASE StartLookupKeyAtNode \/ StartGetNode \/ AmacLookup
  <2>1. /\ call'.op \in {"lookupKeyAtNode", "getNode", "amacLookup"}
        /\ Len(call.key) <= Len(call'.key)
        /\ \A n \in 1 .. Len(call.key) : call'.key[n] = call.key[n]
        /\ Len(call.key) \in Nat /\ Len(call'.key) \in Nat
    BY <1>3, HeldKey DEF Keyed
  <2>2. call'.op \notin {"none", "lookupKey"} \cup NodeLookups
    BY <2>1 DEF NodeLookups
  <2>3. CASE ~NegativeBytes
    BY <2>3 DEF Plain
  <2>4. CASE \A n \in 1 .. Len(call'.key) : n <= StartLevel => SignedByte(call'.key[n]) >= 0
    <3>1. ASSUME NEW n \in 1 .. Len(call.key), n <= StartLevel PROVE SignedByte(call.key[n]) >= 0
      <4>1. n \in 1 .. Len(call'.key) /\ call'.key[n] = call.key[n]
        BY <2>1
      <4>2. SignedByte(call'.key[n]) >= 0
        BY <2>4, <3>1, <4>1
      <4>3. QED
        BY <4>1, <4>2
    <3>2. QED
      BY <3>1 DEF Plain
  <2>5. QED
    BY <2>2, <2>3, <2>4 DEF Plain
<1>4. QED
  BY <1>1, <1>2, <1>3 DEF StartLookup

(* The byte that amacLookup was given in the dense part is none. *)
LEMMA PlainByte ==
  ASSUME NEW byte \in Label, call.key \in Seq(Label), Len(call.key) < StartLevel, StartLevel \in Nat,
         SignedByte(byte) < 0 => NegativeBytes, call' \in DenseStepsOf(byte), Plain(call')
  PROVE  SignedByte(byte) = byte
<1>1. call'.op = "amacLookup" /\ call'.key = Append(call.key, byte)
  BY AmacKey
<1>2. Fanout \in Nat \ {0} /\ byte \in Nat /\ byte < Fanout
  BY ConstantsAssumption DEF Label
<1>3. SignedByte(byte) \in Int /\ (SignedByte(byte) >= 0 => SignedByte(byte) = byte)
  BY <1>2 DEF SignedByte
<1>4. CASE ~NegativeBytes
  BY <1>3, <1>4
<1>5. CASE \A n \in 1 .. Len(call'.key) : n <= StartLevel => SignedByte(call'.key[n]) >= 0
  <2> DEFINE n == Len(call.key) + 1
  <2>1. n \in 1 .. Len(call'.key) /\ n <= StartLevel /\ call'.key[n] = byte
    BY <1>1
  <2> HIDE DEF n
  <2>2. SignedByte(byte) >= 0
    BY <1>5, <2>1
  <2>3. QED
    BY <1>3, <2>2
<1>6. QED
  BY <1>1, <1>4, <1>5 DEF Plain, NodeLookups
===============================================================================

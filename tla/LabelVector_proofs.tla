-------------------------- MODULE LabelVector_proofs ---------------------------
(*****************************************************************************)
(* Proofs that search and searchGreaterThan answer what the labels of a node *)
(* say, whichever strategy the length of the node selects: both bisections   *)
(* find what a linear search finds, and no label outside the node is         *)
(* returned.                                                                 *)
(*****************************************************************************)
EXTENDS LabelVector, Numbers_proofs

-------------------------------------------------------------------------------
(* Bisection *)

(* The labels of the range are strictly ascending. *)
Ascends(lv, pos, len) ==
  /\ \A p \in pos .. pos + len - 1 : LabelAt(lv, p) \in Int
  /\ \A p, q \in pos .. pos + len - 1 : p < q => LabelAt(lv, p) < LabelAt(lv, q)

(* The middle of a window lies in it. *)
LEMMA Middle ==
  ASSUME NEW l \in Nat, NEW r \in Nat, l < r
  PROVE  (l + r) \div 2 \in l .. r - 1
OBVIOUS

(* The positions of a window with the label. *)
Matches(lv, target, l, r) == {p \in l .. r - 1 : LabelAt(lv, p) = target}

MatchIn(lv, target, pos, l, r) ==
  IF Matches(lv, target, l, r) = {} THEN Missed(pos)
  ELSE Found(Min(Matches(lv, target, l, r)))

(* What the half that is kept has of a window's matches. *)
KeepsMatch(lv, target, pos, l, r, m) ==
  /\ l >= r => MatchIn(lv, target, pos, l, r) = Missed(pos)
  /\ ~(l >= r) =>
       /\ target < LabelAt(lv, m)
          => MatchIn(lv, target, pos, l, r) = MatchIn(lv, target, pos, l, m)
       /\ target = LabelAt(lv, m)
          => MatchIn(lv, target, pos, l, r) = Found(m) /\ ~(target < LabelAt(lv, m))
       /\ ~(target < LabelAt(lv, m)) /\ target # LabelAt(lv, m)
          => MatchIn(lv, target, pos, l, r) = MatchIn(lv, target, pos, m + 1, r)

(* The window that is kept has the match, if there is one. *)
LEMMA HalfWithMatch ==
  ASSUME NEW lv, NEW target \in Int, NEW pos \in Nat, NEW len \in Nat, Ascends(lv, pos, len),
         NEW l \in pos .. pos + len, NEW r \in pos .. pos + len, NEW m, m = (l + r) \div 2
  PROVE  KeepsMatch(lv, target, pos, l, r, m)
<1> SUFFICES /\ l >= r => MatchIn(lv, target, pos, l, r) = Missed(pos)
             /\ ~(l >= r) =>
                  /\ target < LabelAt(lv, m)
                     => MatchIn(lv, target, pos, l, r) = MatchIn(lv, target, pos, l, m)
                  /\ target = LabelAt(lv, m)
                     => MatchIn(lv, target, pos, l, r) = Found(m) /\ ~(target < LabelAt(lv, m))
                  /\ ~(target < LabelAt(lv, m)) /\ target # LabelAt(lv, m)
                     => MatchIn(lv, target, pos, l, r) = MatchIn(lv, target, pos, m + 1, r)
  BY Zenon DEF KeepsMatch
<1> DEFINE L(p) == LabelAt(lv, p)
<1>1. CASE l >= r
  <2>1. Matches(lv, target, l, r) = {}
    BY <1>1 DEF Matches
  <2>2. QED
    BY <1>1, <2>1 DEF MatchIn
<1>2. CASE l < r
  <2>1. /\ m \in l .. r - 1 /\ m \in pos .. pos + len - 1
        /\ \A p \in l .. r - 1 : p \in pos .. pos + len - 1
    <3>1. m \in l .. r - 1
      BY <1>2, Middle
    <3>2. QED
      BY <3>1
  <2>2. \A p \in l .. r - 1 : /\ p < m => L(p) < L(m)
                              /\ p > m => L(m) < L(p)
                              /\ L(p) \in Int
    BY <2>1 DEF Ascends
  <2>3. CASE target < L(m)
    <3>1. \A p : p \in l .. r - 1 /\ L(p) = target <=> p \in l .. m - 1 /\ L(p) = target
      <4>1. \A p \in l .. r - 1 : L(p) = target => p < m
        BY <2>1, <2>2, <2>3
      <4>2. QED
        BY <2>1, <4>1
    <3>2. Matches(lv, target, l, r) = Matches(lv, target, l, m)
      BY <3>1, Zenon DEF Matches
    <3>3. QED
      BY <1>2, <2>3, <3>2 DEF MatchIn
  <2>4. CASE target = L(m)
    <3>1. \A p \in l .. r - 1 : L(p) = target <=> p = m
      BY <2>1, <2>2, <2>4
    <3>2. Matches(lv, target, l, r) = {m}
      BY <2>1, <3>1 DEF Matches
    <3>3. Min({m}) = m
      BY <2>1, MinIs
    <3>4. QED
      BY <1>2, <2>1, <2>2, <2>4, <3>2, <3>3 DEF MatchIn
  <2>5. CASE ~(target < L(m)) /\ target # L(m)
    <3>1. \A p : p \in l .. r - 1 /\ L(p) = target <=> p \in m + 1 .. r - 1 /\ L(p) = target
      <4>1. \A p \in l .. r - 1 : L(p) = target => p > m
        BY <2>1, <2>2, <2>5
      <4>2. QED
        BY <2>1, <4>1
    <3>2. Matches(lv, target, l, r) = Matches(lv, target, m + 1, r)
      BY <3>1, Zenon DEF Matches
    <3>3. QED
      BY <1>2, <2>5, <3>2 DEF MatchIn
  <2>6. QED
    BY <2>3, <2>4, <2>5
<1>3. QED
  BY <1>1, <1>2

(* A window of the range has its middle in it, and both its halves are windows. *)
LEMMA Halves ==
  ASSUME NEW a \in Nat, NEW len \in Nat, NEW R, R = a .. a + len,
         NEW l \in R, NEW r \in R, l < r, NEW m, m = (l + r) \div 2
  PROVE  /\ m \in R /\ m + 1 \in R /\ m \in a .. a + len - 1
         /\ m - l < r - l /\ r - (m + 1) < r - l
<1>1. l \in Nat /\ r \in Nat /\ a <= l /\ r <= a + len
  OBVIOUS
<1>2. m \in l .. r - 1
  BY <1>1, Middle
<1>3. m \in Nat /\ l <= m /\ m < r
  BY <1>1, <1>2
<1>4. QED
  BY <1>1, <1>3

(* What a bisection does with a window of the range: b is what it gives at the
   halves. *)
MiddleOf(w) == (w[1] + w[2]) \div 2

Step(lv, target, empty, met, b, w) ==
  IF w[1] >= w[2] THEN empty[w[1]]
  ELSE IF target < LabelAt(lv, MiddleOf(w)) THEN b[<<w[1], MiddleOf(w)>>]
  ELSE IF target = LabelAt(lv, MiddleOf(w)) THEN met[MiddleOf(w)]
  ELSE b[<<MiddleOf(w) + 1, w[2]>>]

Bisects(lv, target, empty, met, R, b) ==
  \A w \in R \X R : b[w] = Step(lv, target, empty, met, b, w)

(* A window that is not empty is split into two shorter ones. *)
LEMMA Windows ==
  ASSUME NEW a \in Nat, NEW len \in Nat, NEW R, R = a .. a + len, NEW w \in R \X R
  PROVE  /\ w[1] \in R /\ w[2] \in R /\ w[2] - w[1] \in Int /\ w[2] - w[1] <= len
         /\ w[1] >= w[2]
            \/ /\ ~(w[1] >= w[2])
               /\ MiddleOf(w) \in R /\ MiddleOf(w) + 1 \in R
               /\ MiddleOf(w) \in a .. a + len - 1
               /\ <<w[1], MiddleOf(w)>> \in R \X R /\ <<MiddleOf(w) + 1, w[2]>> \in R \X R
               /\ MiddleOf(w) - w[1] < w[2] - w[1]
               /\ w[2] - (MiddleOf(w) + 1) < w[2] - w[1]
               /\ MiddleOf(w) - w[1] \in Int /\ w[2] - (MiddleOf(w) + 1) \in Int
<1>1. w[1] \in R /\ w[2] \in R /\ w[2] - w[1] \in Int /\ w[2] - w[1] <= len
  OBVIOUS
<1>2. CASE ~(w[1] >= w[2])
  <2>1. w[1] < w[2]
    BY <1>1, <1>2
  <2>2. PICK m : m = MiddleOf(w)
    OBVIOUS
  <2>3. /\ m \in R /\ m + 1 \in R /\ m \in a .. a + len - 1
        /\ m - w[1] < w[2] - w[1] /\ w[2] - (m + 1) < w[2] - w[1]
    BY <1>1, <2>1, <2>2, Halves DEF MiddleOf
  <2>4. m - w[1] \in Int /\ w[2] - (m + 1) \in Int
    BY <1>1, <2>3
  <2>5. <<w[1], m>> \in R \X R /\ <<m + 1, w[2]>> \in R \X R
    BY <1>1, <2>3, Zenon
  <2>6. QED
    BY <1>1, <1>2, <2>2, <2>3, <2>4, <2>5, Zenon
<1>3. QED
  BY <1>1, <1>2

Agree(b, c, R) == \A w \in R \X R : b[w] = c[w]

(* There is one function that bisects: what it gives at a window, it gives at
   the shorter window that is kept. *)
LEMMA OneBisection ==
  ASSUME NEW lv, NEW target, NEW empty, NEW met, NEW a \in Nat, NEW len \in Nat,
         NEW R, R = a .. a + len, NEW b, NEW c,
         Bisects(lv, target, empty, met, R, b), Bisects(lv, target, empty, met, R, c)
  PROVE  Agree(b, c, R)
<1> DEFINE Good == {n \in Nat : \A w \in R \X R : w[2] - w[1] < n => b[w] = c[w]}
<1>1. ASSUME NEW w \in R \X R, NEW n \in Nat, w[2] - w[1] < n + 1,
             \A v \in R \X R : v[2] - v[1] < n => b[v] = c[v]
      PROVE  b[w] = c[w]
  <2>1. CASE w[1] >= w[2]
    BY <2>1 DEF Bisects, Step
  <2>2. CASE ~(w[1] >= w[2])
    <3>1. PICK m : m = MiddleOf(w)
      OBVIOUS
    <3>2. PICK l : l = w[1]
      OBVIOUS
    <3>3. PICK r : r = w[2]
      OBVIOUS
    <3>4. /\ <<l, m>> \in R \X R /\ <<m + 1, r>> \in R \X R
          /\ m - l < r - l /\ r - (m + 1) < r - l /\ r - l \in Int
          /\ m - l \in Int /\ r - (m + 1) \in Int
      BY <2>2, <3>1, <3>2, <3>3, Windows
    <3>5. r - l < n + 1
      BY <1>1, <3>2, <3>3
    <3>6. m - l < n /\ r - (m + 1) < n
      BY <3>4, <3>5
    <3>7. b[<<l, m>>] = c[<<l, m>>]
      BY <1>1, <3>4, <3>6
    <3>8. b[<<m + 1, r>>] = c[<<m + 1, r>>]
      BY <1>1, <3>4, <3>6
    <3>9. QED
      BY <3>1, <3>2, <3>3, <3>7, <3>8, Zenon DEF Bisects, Step
  <2>3. QED
    BY <2>1, <2>2
<1>2. 0 \in Good
  <2>1. ASSUME NEW w \in R \X R, w[2] - w[1] < 0
        PROVE  b[w] = c[w]
    <3>1. w[1] >= w[2]
      BY <2>1
    <3>2. QED
      BY <3>1 DEF Bisects, Step
  <2>2. QED
    BY <2>1
<1>3. ASSUME NEW n \in Nat, n \in Good
      PROVE  n + 1 \in Good
  BY <1>1, <1>3
<1> HIDE DEF Good
<1>4. len + 1 \in Good
  BY <1>2, <1>3, NatInduct
<1>5. ASSUME NEW w \in R \X R
      PROVE  b[w] = c[w]
  <2>1. w[2] - w[1] < len + 1
    <3>1. w[2] - w[1] \in Int /\ w[2] - w[1] <= len
      BY Windows
    <3>2. QED
      BY <3>1
  <2>2. QED
    BY <1>4, <2>1 DEF Good
<1>6. QED
  BY <1>5 DEF Agree

OnWindows(f, R) == f = [w \in R \X R |-> f[w]]

(* A function that bisects the range gives what the bisection of it gives. *)
LEMMA BisectIs ==
  ASSUME NEW lv, NEW target, NEW empty, NEW met, NEW pos \in Nat, NEW len \in Nat,
         NEW R, R = pos .. pos + len, NEW ans,
         OnWindows(ans, R), Bisects(lv, target, empty, met, R, ans)
  PROVE  Bisect(lv, target, pos, len, empty, met) = ans[<<pos, pos + len>>]
<1> DEFINE body(b, w) == Step(lv, target, empty, met, b, w)
           between == CHOOSE b : b = [w \in R \X R |-> body(b, w)]
<1>1. Bisect(lv, target, pos, len, empty, met) = between[<<pos, pos + len>>]
  BY DEF Bisect, Step, MiddleOf
<1>2. ans = [w \in R \X R |-> body(ans, w)]
  <2>1. \A w \in R \X R : ans[w] = body(ans, w)
    BY Zenon DEF Bisects
  <2>2. [w \in R \X R |-> ans[w]] = [w \in R \X R |-> body(ans, w)]
    BY <2>1, Zenon
  <2>3. QED
    BY <2>2, Zenon DEF OnWindows
<1>3. between = [w \in R \X R |-> body(between, w)]
  <2> HIDE DEF body
  <2>1. QED
    BY <1>2, Zenon
<1> HIDE DEF between
<1>4. Bisects(lv, target, empty, met, R, between)
  BY <1>3, Zenon DEF Bisects
<1>5. Agree(between, ans, R)
  BY <1>4, OneBisection, Zenon
<1>6. <<pos, pos + len>> \in R \X R
  OBVIOUS
<1>7. QED
  BY <1>1, <1>5, <1>6, Zenon DEF Agree

(* What is kept of a window is one of its halves, or the label that is met. *)
EndsAt(empty, ans, R) == \A l, r \in R : l >= r => ans[<<l, r>>] = empty[l]

KeepsHalf(lv, target, met, ans, l, r, m) ==
  /\ target < LabelAt(lv, m) => ans[<<l, r>>] = ans[<<l, m>>]
  /\ target = LabelAt(lv, m)
     => ans[<<l, r>>] = met[m] /\ ~(target < LabelAt(lv, m))
  /\ ~(target < LabelAt(lv, m)) /\ target # LabelAt(lv, m)
     => ans[<<l, r>>] = ans[<<m + 1, r>>]

KeepsHalves(lv, target, met, ans, R) ==
  \A l, r, m \in R : m = (l + r) \div 2 /\ ~(l >= r) => KeepsHalf(lv, target, met, ans, l, r, m)

LEMMA BisectsWhen ==
  ASSUME NEW lv, NEW target, NEW a \in Nat, NEW len \in Nat, NEW R, R = a .. a + len,
         NEW empty, NEW met, NEW ans,
         EndsAt(empty, ans, R), KeepsHalves(lv, target, met, ans, R)
  PROVE  Bisects(lv, target, empty, met, R, ans)
<1> SUFFICES ASSUME NEW w \in R \X R
             PROVE  ans[w] = Step(lv, target, empty, met, ans, w)
  BY Zenon DEF Bisects
<1>1. w[1] \in R /\ w[2] \in R /\ w = <<w[1], w[2]>>
  OBVIOUS
<1>2. PICK l, r, m : l \in R /\ r \in R /\ l = w[1] /\ r = w[2] /\ m = MiddleOf(w)
  BY <1>1, Zenon
<1>3. m = (l + r) \div 2 /\ (l >= r \/ m \in R)
  BY <1>2, Windows DEF MiddleOf
<1>4. w = <<l, r>>
  BY <1>1, <1>2
<1>5. CASE l >= r
  <2>1. ans[<<l, r>>] = empty[l]
    BY <1>2, <1>5, Zenon DEF EndsAt
  <2>2. Step(lv, target, empty, met, ans, w) = empty[l]
    BY <1>2, <1>5, Zenon DEF Step
  <2>3. QED
    BY <1>4, <2>1, <2>2
<1>6. CASE ~(l >= r)
  <2>1. Step(lv, target, empty, met, ans, w)
          = IF target < LabelAt(lv, m) THEN ans[<<l, m>>]
            ELSE IF target = LabelAt(lv, m) THEN met[m]
            ELSE ans[<<m + 1, r>>]
    BY <1>2, <1>6, Zenon DEF Step
  <2>2. KeepsHalf(lv, target, met, ans, l, r, m)
    BY <1>2, <1>3, <1>6, Zenon DEF KeepsHalves
  <2>3. QED
    BY <1>4, <2>1, <2>2 DEF KeepsHalf
<1>7. QED
  BY <1>5, <1>6

(* binarySearch finds what linearSearch finds. *)
LEMMA BinarySearchIsLinear ==
  ASSUME NEW lv, NEW target \in Int, NEW pos \in Nat, NEW len \in Nat, Ascends(lv, pos, len)
  PROVE  BinarySearch(lv, target, pos, len) = FirstMatch(lv, target, pos, len)
<1> DEFINE R == pos .. pos + len
           empty == [l \in R |-> Missed(pos)]
           met == [m \in R |-> Found(m)]
           answer(l, r) == MatchIn(lv, target, pos, l, r)
           ans == [w \in R \X R |-> answer(w[1], w[2])]
<1>1. BinarySearch(lv, target, pos, len) = Bisect(lv, target, pos, len, empty, met)
  BY DEF BinarySearch
<1>2. /\ \A l \in R : empty[l] = Missed(pos) /\ met[l] = Found(l)
      /\ \A l, r \in R : <<l, r>> \in R \X R /\ ans[<<l, r>>] = answer(l, r)
  BY Zenon
<1>3. ASSUME NEW l \in R, NEW r \in R, NEW m \in R, m = (l + r) \div 2
      PROVE  KeepsMatch(lv, target, pos, l, r, m)
  BY <1>3, HalfWithMatch
<1>4. R = pos .. pos + len /\ pos \in R /\ pos + len \in R
  OBVIOUS
<1>5. answer(pos, pos + len) = FirstMatch(lv, target, pos, len)
  BY DEF MatchIn, Matches, FirstMatch
<1>6. OnWindows(ans, R)
  BY Zenon DEF OnWindows
<1> HIDE DEF R, empty, met, ans
<1>7. EndsAt(empty, ans, R)
  <2> SUFFICES ASSUME NEW l \in R, NEW r \in R, l >= r
               PROVE  ans[<<l, r>>] = empty[l]
    BY Zenon DEF EndsAt
  <2>1. Matches(lv, target, l, r) = {}
    BY <1>4 DEF Matches
  <2>2. QED
    BY <1>2, <2>1, Zenon DEF MatchIn
<1>8. ASSUME NEW l \in R, NEW r \in R, NEW m \in R, m = (l + r) \div 2, ~(l >= r)
      PROVE  KeepsHalf(lv, target, met, ans, l, r, m)
  <2>1. m + 1 \in R
    <3>1. l \in Nat /\ r \in Nat /\ l < r /\ r \in R
      BY <1>4, <1>8
    <3>2. m \in l .. r - 1
      BY <1>8, <3>1, Middle
    <3>3. QED
      BY <1>4, <3>1, <3>2
  <2>2. /\ ans[<<l, r>>] = answer(l, r) /\ ans[<<l, m>>] = answer(l, m)
        /\ ans[<<m + 1, r>>] = answer(m + 1, r) /\ met[m] = Found(m)
    BY <1>2, <2>1, Zenon
  <2>3. KeepsMatch(lv, target, pos, l, r, m)
    BY <1>3, <1>8, Zenon
  <2>4. QED
    BY <1>8, <2>2, <2>3, Zenon DEF KeepsMatch, KeepsHalf
<1>9. KeepsHalves(lv, target, met, ans, R)
  BY <1>8, Zenon DEF KeepsHalves
<1> HIDE DEF answer
<1>10. Bisects(lv, target, empty, met, R, ans)
  BY <1>4, <1>7, <1>9, BisectsWhen
<1>11. Bisect(lv, target, pos, len, empty, met) = ans[<<pos, pos + len>>]
  BY <1>4, <1>6, <1>10, BisectIs
<1>12. QED
  BY <1>1, <1>2, <1>4, <1>5, <1>11, Zenon
-------------------------------------------------------------------------------
(* The positions of a window with greater labels; the first of them, or the end. *)
Greater(lv, target, l, r) == {p \in l .. r - 1 : LabelAt(lv, p) > target}

FirstAbove(lv, target, l, r) ==
  IF l >= r THEN l
  ELSE IF Greater(lv, target, l, r) = {} THEN r
  ELSE Min(Greater(lv, target, l, r))

IsAbove(lv, target, l, r, i) ==
  /\ i \in l .. r
  /\ \A p \in l .. i - 1 : ~(LabelAt(lv, p) > target)
  /\ \A p \in i .. r - 1 : LabelAt(lv, p) > target

(* A first position above is where all labels from there on, and none before, are. *)
LEMMA FirstAboveIs ==
  ASSUME NEW lv, NEW target, NEW l \in Nat, NEW r \in Nat, l <= r, NEW i,
         IsAbove(lv, target, l, r, i)
  PROVE  FirstAbove(lv, target, l, r) = i
<1> USE DEF IsAbove
<1>1. CASE i = r
  <2>1. Greater(lv, target, l, r) = {}
    BY <1>1 DEF Greater
  <2>2. l >= r => l = i
    BY <1>1
  <2>3. QED
    BY <1>1, <2>1, <2>2, Zenon DEF FirstAbove
<1>2. CASE i # r
  <2>1. i \in Greater(lv, target, l, r)
    BY <1>2 DEF Greater
  <2>2. \A p \in Greater(lv, target, l, r) : p \in Int /\ i <= p
    BY DEF Greater
  <2>3. Min(Greater(lv, target, l, r)) = i
    BY <2>1, <2>2, MinIs
  <2>4. ~(l >= r)
    BY <1>2
  <2>5. QED
    BY <2>1, <2>3, <2>4, Zenon DEF FirstAbove
<1>3. QED
  BY <1>1, <1>2

(* In ascending labels there is such a position. *)
LEMMA AboveExists ==
  ASSUME NEW lv, NEW target \in Int, NEW pos \in Nat, NEW len \in Nat, Ascends(lv, pos, len),
         NEW l \in pos .. pos + len, NEW r \in pos .. pos + len, l <= r
  PROVE  \E i : IsAbove(lv, target, l, r, i)
<1>1. \A p \in l .. r - 1 : p \in pos .. pos + len - 1
  OBVIOUS
<1>2. CASE Greater(lv, target, l, r) = {}
  <2>1. \A p \in l .. r - 1 : ~(LabelAt(lv, p) > target)
    BY <1>2 DEF Greater
  <2>2. r \in l .. r /\ \A p \in r .. r - 1 : LabelAt(lv, p) > target
    OBVIOUS
  <2>3. QED
    BY <2>1, <2>2, Zenon DEF IsAbove
<1>3. CASE Greater(lv, target, l, r) # {}
  <2>1. Greater(lv, target, l, r) \in SUBSET Nat
    BY DEF Greater
  <2>2. PICK i \in Greater(lv, target, l, r) : \A p \in Greater(lv, target, l, r) : i <= p
    BY <1>3, <2>1, LeastNatural, Zenon
  <2>3. i \in l .. r - 1 /\ LabelAt(lv, i) > target /\ i \in Nat
    BY <2>2 DEF Greater
  <2>4. ASSUME NEW p \in l .. i - 1
        PROVE  ~(LabelAt(lv, p) > target)
    <3>1. p \in l .. r - 1 /\ p \in Int /\ ~(i <= p)
      BY <2>3
    <3>2. QED
      BY <2>2, <3>1 DEF Greater
  <2>5. ASSUME NEW p \in i .. r - 1
        PROVE  LabelAt(lv, p) > target
    <3>1. p \in pos .. pos + len - 1 /\ i \in pos .. pos + len - 1 /\ (p = i \/ i < p)
      BY <2>3
    <3>2. /\ LabelAt(lv, i) \in Int /\ LabelAt(lv, p) \in Int
          /\ i < p => LabelAt(lv, i) < LabelAt(lv, p)
      BY <3>1 DEF Ascends
    <3>3. QED
      BY <2>3, <3>1, <3>2
  <2>6. i \in l .. r
    BY <2>3
  <2>7. QED
    BY <2>4, <2>5, <2>6 DEF IsAbove
<1>4. QED
  BY <1>2, <1>3

(* What the half that is kept has of a window's greater labels. *)
KeepsAbove(lv, target, l, r, m) ==
  /\ target < LabelAt(lv, m)
     => FirstAbove(lv, target, l, r) = FirstAbove(lv, target, l, m)
  /\ target = LabelAt(lv, m)
     => FirstAbove(lv, target, l, r) = m + 1 /\ ~(target < LabelAt(lv, m))
  /\ ~(target < LabelAt(lv, m)) /\ target # LabelAt(lv, m)
     => FirstAbove(lv, target, l, r) = FirstAbove(lv, target, m + 1, r)

LEMMA HalfWithAbove ==
  ASSUME NEW lv, NEW target \in Int, NEW pos \in Nat, NEW len \in Nat, Ascends(lv, pos, len),
         NEW l \in pos .. pos + len, NEW r \in pos .. pos + len, NEW m,
         m = (l + r) \div 2, l < r
  PROVE  KeepsAbove(lv, target, l, r, m)
<1>1. /\ l \in Nat /\ r \in Nat /\ m \in Nat /\ l <= m /\ m < r /\ m \in l .. r - 1
      /\ m \in pos .. pos + len - 1
  <2>1. l \in Nat /\ r \in Nat /\ r <= pos + len /\ pos <= l
    OBVIOUS
  <2>2. m \in l .. r - 1
    BY <2>1, Middle
  <2>3. QED
    BY <2>1, <2>2
<1>2. \A p \in l .. r - 1 : /\ p \in Int /\ LabelAt(lv, p) \in Int
                            /\ p < m => LabelAt(lv, p) < LabelAt(lv, m)
                            /\ p > m => LabelAt(lv, m) < LabelAt(lv, p)
  <2>1. \A p \in l .. r - 1 : p \in pos .. pos + len - 1
    OBVIOUS
  <2>2. QED
    BY <1>1, <2>1 DEF Ascends
<1>3. LabelAt(lv, m) \in Int
  BY <1>1, <1>2
<1>4. PICK i : IsAbove(lv, target, l, r, i)
  BY <1>1, AboveExists
<1>5. FirstAbove(lv, target, l, r) = i /\ i \in Nat /\ l <= i /\ i <= r
  <2>1. i \in Nat /\ l <= i /\ i <= r
    BY <1>1, <1>4 DEF IsAbove
  <2>2. QED
    BY <1>1, <1>4, <2>1, FirstAboveIs
<1>6. CASE target < LabelAt(lv, m)
  <2>1. i <= m
    <3>1. LabelAt(lv, m) > target
      BY <1>3, <1>6
    <3>2. ~(m \in l .. i - 1)
      BY <1>4, <3>1 DEF IsAbove
    <3>3. QED
      BY <1>1, <1>5, <3>2
  <2>2. IsAbove(lv, target, l, m, i)
    BY <1>1, <1>4, <1>5, <2>1 DEF IsAbove
  <2>3. FirstAbove(lv, target, l, m) = i
    BY <1>1, <2>2, FirstAboveIs
  <2>4. QED
    BY <1>3, <1>5, <1>6, <2>3 DEF KeepsAbove
<1>7. CASE target = LabelAt(lv, m)
  <2>1. m + 1 <= i
    <3>1. ~(LabelAt(lv, m) > target)
      BY <1>3, <1>7
    <3>2. ~(m \in i .. r - 1)
      BY <1>4, <3>1 DEF IsAbove
    <3>3. QED
      BY <1>1, <1>5, <3>2
  <2>2. ~(m + 1 \in l .. i - 1)
    <3>1. ASSUME m + 1 \in l .. i - 1
          PROVE  FALSE
      <4>1. m + 1 \in l .. r - 1 /\ m + 1 > m
        BY <1>1, <1>5, <3>1
      <4>2. LabelAt(lv, m) < LabelAt(lv, m + 1) /\ LabelAt(lv, m + 1) \in Int
        BY <1>2, <4>1
      <4>3. LabelAt(lv, m + 1) > target
        BY <1>3, <1>7, <4>2
      <4>4. QED
        BY <1>4, <3>1, <4>3 DEF IsAbove
    <3>2. QED
      BY <3>1
  <2>3. i = m + 1
    BY <1>1, <1>5, <2>1, <2>2
  <2>4. QED
    BY <1>3, <1>5, <1>7, <2>3 DEF KeepsAbove
<1>8. CASE ~(target < LabelAt(lv, m)) /\ target # LabelAt(lv, m)
  <2>1. m + 1 <= i
    <3>1. ~(LabelAt(lv, m) > target)
      BY <1>3, <1>8
    <3>2. ~(m \in i .. r - 1)
      BY <1>4, <3>1 DEF IsAbove
    <3>3. QED
      BY <1>1, <1>5, <3>2
  <2>2. /\ m + 1 \in Nat /\ m + 1 <= r
        /\ IsAbove(lv, target, m + 1, r, i)
    BY <1>1, <1>4, <1>5, <2>1 DEF IsAbove
  <2>3. FirstAbove(lv, target, m + 1, r) = i
    BY <1>1, <2>2, FirstAboveIs
  <2>4. QED
    BY <1>5, <1>8, <2>3 DEF KeepsAbove
<1>9. QED
  BY <1>6, <1>7, <1>8

(* binarySearchGreaterThan finds what linearSearchGreaterThan finds. *)
LEMMA BinarySearchGreaterIsLinear ==
  ASSUME NEW lv, NEW target \in Int, NEW pos \in Nat, NEW len \in Nat, Ascends(lv, pos, len)
  PROVE  BinarySearchGreater(lv, target, pos, len) = FirstGreater(lv, target, pos, len)
<1> DEFINE R == pos .. pos + len
           found(p) == IF p < pos + len THEN Found(p) ELSE Missed(pos)
           empty == [l \in R |-> found(l)]
           met == [m \in R |-> found(m + 1)]
           answer(l, r) == found(FirstAbove(lv, target, l, r))
           ans == [w \in R \X R |-> answer(w[1], w[2])]
<1>1. BinarySearchGreater(lv, target, pos, len) = Bisect(lv, target, pos, len, empty, met)
  BY DEF BinarySearchGreater
<1>2. /\ \A l \in R : empty[l] = found(l) /\ met[l] = found(l + 1)
      /\ \A l, r \in R : <<l, r>> \in R \X R /\ ans[<<l, r>>] = answer(l, r)
  BY Zenon
<1>3. ASSUME NEW l \in R, NEW r \in R, NEW m \in R, m = (l + r) \div 2, l < r
      PROVE  KeepsAbove(lv, target, l, r, m)
  BY <1>3, HalfWithAbove
<1>4. R = pos .. pos + len /\ pos \in R /\ pos + len \in R
  OBVIOUS
<1>5. answer(pos, pos + len) = FirstGreater(lv, target, pos, len)
  <2>1. FirstGreater(lv, target, pos, len)
          = IF Greater(lv, target, pos, pos + len) = {} THEN Missed(pos)
            ELSE Found(Min(Greater(lv, target, pos, pos + len)))
    BY DEF FirstGreater, Greater
  <2>2. CASE Greater(lv, target, pos, pos + len) = {}
    <3>1. FirstAbove(lv, target, pos, pos + len) = pos + len
      BY <2>2 DEF FirstAbove
    <3>2. QED
      BY <2>1, <2>2, <3>1
  <2>3. CASE Greater(lv, target, pos, pos + len) # {}
    <3>1. Greater(lv, target, pos, pos + len) \in SUBSET Nat
      BY DEF Greater
    <3>2. Min(Greater(lv, target, pos, pos + len)) \in Greater(lv, target, pos, pos + len)
      BY <2>3, <3>1, MinIsLeast
    <3>3. Min(Greater(lv, target, pos, pos + len)) < pos + len /\ ~(pos >= pos + len)
      BY <3>2 DEF Greater
    <3>4. FirstAbove(lv, target, pos, pos + len) = Min(Greater(lv, target, pos, pos + len))
      BY <2>3, <3>3, Zenon DEF FirstAbove
    <3>5. QED
      BY <2>1, <2>3, <3>3, <3>4, Zenon
  <2>4. QED
    BY <2>2, <2>3
<1>6. OnWindows(ans, R)
  BY Zenon DEF OnWindows
<1> HIDE DEF R, empty, met, ans
<1>7. EndsAt(empty, ans, R)
  <2> SUFFICES ASSUME NEW l \in R, NEW r \in R, l >= r
               PROVE  ans[<<l, r>>] = empty[l]
    BY Zenon DEF EndsAt
  <2>1. FirstAbove(lv, target, l, r) = l
    BY Zenon DEF FirstAbove
  <2>2. answer(l, r) = found(l)
    BY <2>1
  <2> HIDE DEF found, answer
  <2>3. QED
    BY <1>2, <2>2, Zenon
<1> HIDE DEF found
<1>8. ASSUME NEW l \in R, NEW r \in R, NEW m \in R, m = (l + r) \div 2, ~(l >= r)
      PROVE  KeepsHalf(lv, target, met, ans, l, r, m)
  <2>1. m + 1 \in R /\ l < r
    <3>1. l \in Nat /\ r \in Nat /\ l < r /\ r \in R
      BY <1>4, <1>8
    <3>2. m \in l .. r - 1
      BY <1>8, <3>1, Middle
    <3>3. QED
      BY <1>4, <3>1, <3>2
  <2>2. /\ ans[<<l, r>>] = answer(l, r) /\ ans[<<l, m>>] = answer(l, m)
        /\ ans[<<m + 1, r>>] = answer(m + 1, r) /\ met[m] = found(m + 1)
    BY <1>2, <2>1, Zenon
  <2>3. KeepsAbove(lv, target, l, r, m)
    BY <1>3, <1>8, <2>1, Zenon
  <2>4. QED
    BY <2>2, <2>3, Zenon DEF KeepsAbove, KeepsHalf
<1>9. KeepsHalves(lv, target, met, ans, R)
  BY <1>8, Zenon DEF KeepsHalves
<1> HIDE DEF answer
<1>10. Bisects(lv, target, empty, met, R, ans)
  BY <1>4, <1>7, <1>9, BisectsWhen
<1>11. Bisect(lv, target, pos, len, empty, met) = ans[<<pos, pos + len>>]
  BY <1>4, <1>6, <1>10, BisectIs
<1>12. QED
  BY <1>1, <1>2, <1>4, <1>5, <1>11, Zenon
-------------------------------------------------------------------------------
(* The labels of a node that are searched: a terminator in front is not, unless
   it is the only one. *)
Passed(lv, pos, len) == IF len > 1 /\ LabelAt(lv, pos) = Terminator THEN 1 ELSE 0

Searched(lv, pos, len) == pos + Passed(lv, pos, len) .. pos + len - 1

(* Behind a terminator in front, the labels of the node are strictly ascending. *)
SortedLabels(lv, pos, len) ==
  Ascends(lv, pos + Passed(lv, pos, len), len - Passed(lv, pos, len))

LEMMA PassedType ==
  ASSUME NEW lv, NEW pos \in Nat, NEW len \in Nat
  PROVE  /\ pos + Passed(lv, pos, len) \in Nat
         /\ len - Passed(lv, pos, len) \in Nat
         /\ pos + Passed(lv, pos, len) + (len - Passed(lv, pos, len)) = pos + len
BY DEF Passed

(* search returns a label exactly when the node has it, and then the position
   of that label, whichever strategy the length of the node selects: a label
   outside the node is never returned. *)
THEOREM SearchExact ==
  ASSUME NEW lv, NEW target \in Int, NEW pos \in Nat, NEW len \in Nat,
         SortedLabels(lv, pos, len)
  PROVE  LET s == Search(lv, target, pos, len)
         IN  /\ s.found <=> \E p \in Searched(lv, pos, len) : LabelAt(lv, p) = target
             /\ s.found => s.pos \in Searched(lv, pos, len) /\ LabelAt(lv, s.pos) = target
             /\ \A p \in Searched(lv, pos, len) : LabelAt(lv, p) = target => s.pos = p
<1>1. PICK a, n : a = pos + Passed(lv, pos, len) /\ n = len - Passed(lv, pos, len)
  OBVIOUS
<1>2. a \in Nat /\ n \in Nat /\ a + n = pos + len /\ Ascends(lv, a, n)
  BY <1>1, PassedType DEF SortedLabels
<1>3. Search(lv, target, pos, len) = FirstMatch(lv, target, a, n)
  <2>1. Search(lv, target, pos, len)
          = IF LinearBelow <= n /\ n < BinaryBelow THEN BinarySearch(lv, target, a, n)
            ELSE FirstMatch(lv, target, a, n)
    BY <1>1, Zenon DEF Search, Passed
  <2>2. BinarySearch(lv, target, a, n) = FirstMatch(lv, target, a, n)
    BY <1>2, BinarySearchIsLinear
  <2>3. QED
    BY <2>1, <2>2
<1>4. Searched(lv, pos, len) = a .. a + n - 1
  BY <1>1, <1>2 DEF Searched
<1>5. PICK T : T = {p \in a .. a + n - 1 : LabelAt(lv, p) = target}
  OBVIOUS
<1>6. FirstMatch(lv, target, a, n) = IF T = {} THEN Missed(a) ELSE Found(Min(T))
  BY <1>5, Zenon DEF FirstMatch
<1>7. \A p, q \in T : p = q
  <2>1. ASSUME NEW p \in T, NEW q \in T, p < q
        PROVE  FALSE
    <3>1. LabelAt(lv, p) < LabelAt(lv, q) /\ LabelAt(lv, p) = LabelAt(lv, q)
      BY <1>2, <1>5, <2>1 DEF Ascends
    <3>2. LabelAt(lv, p) \in Int
      BY <1>5
    <3>3. QED
      BY <3>1, <3>2
  <2>2. \A p \in T : p \in Int
    BY <1>2, <1>5
  <2>3. QED
    BY <2>1, <2>2
<1>8. T # {} => Min(T) \in T
  <2>1. T \in SUBSET Nat
    BY <1>2, <1>5
  <2>2. QED
    BY <2>1, MinIsLeast
<1>9. CASE T = {}
  <2>1. Search(lv, target, pos, len) = Missed(a)
    BY <1>3, <1>6, <1>9
  <2>2. ~Search(lv, target, pos, len).found
    BY <2>1 DEF Missed
  <2>3. \A p \in Searched(lv, pos, len) : LabelAt(lv, p) # target
    BY <1>4, <1>5, <1>9
  <2>4. QED
    BY <2>2, <2>3, Zenon
<1>10. CASE T # {}
  <2>1. Search(lv, target, pos, len) = Found(Min(T))
    BY <1>3, <1>6, <1>10
  <2>2. Search(lv, target, pos, len).found /\ Search(lv, target, pos, len).pos = Min(T)
    BY <2>1 DEF Found
  <2>3. Min(T) \in Searched(lv, pos, len) /\ LabelAt(lv, Min(T)) = target
    BY <1>4, <1>5, <1>8, <1>10
  <2>4. \A p \in Searched(lv, pos, len) : LabelAt(lv, p) = target => Min(T) = p
    BY <1>4, <1>5, <1>7, <1>8, <1>10
  <2>5. QED
    BY <2>2, <2>3, <2>4, Zenon
<1>11. QED
  BY <1>9, <1>10

(* searchGreaterThan returns a label exactly when the node has a greater one,
   and then the position of the least that is greater. *)
THEOREM SearchGreaterExact ==
  ASSUME NEW lv, NEW target \in Int, NEW pos \in Nat, NEW len \in Nat,
         SortedLabels(lv, pos, len)
  PROVE  LET s == SearchGreaterThan(lv, target, pos, len)
         IN  /\ s.found <=> \E p \in Searched(lv, pos, len) : LabelAt(lv, p) > target
             /\ s.found => s.pos \in Searched(lv, pos, len) /\ LabelAt(lv, s.pos) > target
             /\ \A p \in Searched(lv, pos, len) :
                  LabelAt(lv, p) > target => s.pos <= p /\ LabelAt(lv, s.pos) <= LabelAt(lv, p)
<1>1. PICK a, n : a = pos + Passed(lv, pos, len) /\ n = len - Passed(lv, pos, len)
  OBVIOUS
<1>2. a \in Nat /\ n \in Nat /\ a + n = pos + len /\ Ascends(lv, a, n)
  BY <1>1, PassedType DEF SortedLabels
<1>3. SearchGreaterThan(lv, target, pos, len) = FirstGreater(lv, target, a, n)
  <2>1. SearchGreaterThan(lv, target, pos, len)
          = IF n < LinearBelow THEN FirstGreater(lv, target, a, n)
            ELSE BinarySearchGreater(lv, target, a, n)
    BY <1>1, Zenon DEF SearchGreaterThan, Passed
  <2>2. BinarySearchGreater(lv, target, a, n) = FirstGreater(lv, target, a, n)
    BY <1>2, BinarySearchGreaterIsLinear
  <2>3. QED
    BY <2>1, <2>2
<1>4. Searched(lv, pos, len) = a .. a + n - 1
  BY <1>1, <1>2 DEF Searched
<1>5. PICK T : T = {p \in a .. a + n - 1 : LabelAt(lv, p) > target}
  OBVIOUS
<1>6. FirstGreater(lv, target, a, n) = IF T = {} THEN Missed(a) ELSE Found(Min(T))
  BY <1>5, Zenon DEF FirstGreater
<1>7. T # {} => Min(T) \in T /\ \A p \in T : Min(T) <= p
  <2>1. T \in SUBSET Nat
    BY <1>2, <1>5
  <2>2. QED
    BY <2>1, MinIsLeast
<1>8. CASE T = {}
  <2>1. SearchGreaterThan(lv, target, pos, len) = Missed(a)
    BY <1>3, <1>6, <1>8
  <2>2. ~SearchGreaterThan(lv, target, pos, len).found
    BY <2>1 DEF Missed
  <2>3. \A p \in Searched(lv, pos, len) : ~(LabelAt(lv, p) > target)
    BY <1>4, <1>5, <1>8
  <2>4. QED
    BY <2>2, <2>3, Zenon
<1>9. CASE T # {}
  <2>1. SearchGreaterThan(lv, target, pos, len) = Found(Min(T))
    BY <1>3, <1>6, <1>9
  <2>2. /\ SearchGreaterThan(lv, target, pos, len).found
        /\ SearchGreaterThan(lv, target, pos, len).pos = Min(T)
    BY <2>1 DEF Found
  <2>3. Min(T) \in Searched(lv, pos, len) /\ LabelAt(lv, Min(T)) > target
    BY <1>4, <1>5, <1>7, <1>9
  <2>4. ASSUME NEW p \in Searched(lv, pos, len), LabelAt(lv, p) > target
        PROVE  Min(T) <= p /\ LabelAt(lv, Min(T)) <= LabelAt(lv, p)
    <3>1. Min(T) <= p /\ p \in a .. a + n - 1 /\ Min(T) \in a .. a + n - 1
      BY <1>4, <1>5, <1>7, <1>9, <2>3, <2>4
    <3>2. PICK m : m = Min(T)
      OBVIOUS
    <3>3. /\ m \in a .. a + n - 1 /\ (m < p \/ m = p)
          /\ LabelAt(lv, m) \in Int /\ LabelAt(lv, p) \in Int
      BY <1>2, <3>1, <3>2 DEF Ascends
    <3>4. LabelAt(lv, m) <= LabelAt(lv, p)
      BY <1>2, <3>1, <3>3 DEF Ascends
    <3>5. QED
      BY <3>1, <3>2, <3>4
  <2>5. QED
    BY <2>2, <2>3, <2>4, Zenon
<1>10. QED
  BY <1>8, <1>9

(* In a node of strictly ascending labels, as the builder makes them, none is
   passed over: all labels are searched. *)
THEOREM SortedNodeSearched ==
  ASSUME NEW lv, NEW pos \in Nat, NEW len \in Nat, Ascends(lv, pos, len),
         \A p \in pos .. pos + len - 1 : LabelAt(lv, p) <= Terminator
  PROVE  SortedLabels(lv, pos, len) /\ Searched(lv, pos, len) = pos .. pos + len - 1
<1>1. Passed(lv, pos, len) = 0
  <2> SUFFICES ASSUME len > 1, LabelAt(lv, pos) = Terminator
               PROVE  FALSE
    BY DEF Passed
  <2>1. /\ LabelAt(lv, pos) < LabelAt(lv, pos + 1) /\ LabelAt(lv, pos) \in Int
        /\ LabelAt(lv, pos + 1) \in Int /\ LabelAt(lv, pos + 1) <= LabelAt(lv, pos)
    BY DEF Ascends
  <2>2. QED
    BY <2>1
<1>2. QED
  BY <1>1 DEF SortedLabels, Searched
================================================================================

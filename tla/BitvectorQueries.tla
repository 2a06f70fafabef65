--------------------------- MODULE BitvectorQueries ---------------------------
(***************************************************************************)
(* A client of the bit vectors: it builds one from the levels of a trie    *)
(* and asks it for positions, counts and distances, each answer compared   *)
(* with what the definition of the operation says of the plain bits.       *)
(***************************************************************************)
EXTENDS Bitvector

CONSTANTS LevelLists     \* the lists of levels a bit vector may be built from

ASSUME LevelListsAssumption == LevelLists \subseteq Seq(Levels)

VARIABLES
  levels,                \* the levels the bit vector is built from
  bv,                    \* the bit vector, with both look-up tables
  query,                 \* the operation asked last
  answer                 \* and what it returned

vars == <<levels, bv, query, answer>>

NotBuilt == [op |-> "build", arg |-> 0]
NoQuery == [op |-> "none", arg |-> 0]

Init ==
  /\ levels \in LevelLists
  /\ bv = << >>
  /\ query = NotBuilt
  /\ answer = 0

(* The constructors of BitvectorRank and BitvectorSelect; any word may lie
   behind the words they allocate. *)
Build ==
  /\ query = NotBuilt
  /\ \E behind \in {{}, 0 .. WordSize - 1} :
       LET rank   == MakeRank(levels, behind)
           select == MakeSelect(levels, behind)
       IN  bv' = [num_bits |-> rank.num_bits, bits |-> rank.bits, junk |-> behind,
                  rank_lut |-> rank.rank_lut, num_ones |-> select.num_ones,
                  select_lut |-> select.select_lut]
  /\ query' = NoQuery
  /\ UNCHANGED <<levels, answer>>

Positions == 0 .. bv.num_bits - 1

Ask(op, arg, result) ==
  /\ query' = [op |-> op, arg |-> arg]
  /\ answer' = result
  /\ UNCHANGED <<levels, bv>>

AskRank ==
  /\ query = NoQuery
  /\ \E pos \in Positions : Ask("rank", pos, Rank(bv, pos))

(* Only a bit vector that starts with a 1 bit is asked to select. *)
AskSelect ==
  /\ query = NoQuery
  /\ bv.num_bits > 0 /\ ReadBit(bv, 0)
  /\ \E r \in 1 .. bv.num_ones : Ask("select", r, Select(bv, r))

AskNext ==
  /\ query = NoQuery
  /\ \E pos \in Positions : Ask("next", pos, DistanceToNextSetBit(bv, pos))

AskPrev ==
  /\ query = NoQuery
  /\ \E pos \in 0 .. bv.num_bits : Ask("prev", pos, DistanceToPrevSetBit(bv, pos))

Next == Build \/ AskRank \/ AskSelect \/ AskNext \/ AskPrev

Spec == Init /\ [][Next]_vars

-------------------------------------------------------------------------------
(* The plain bits: the levels written one behind the other. *)

StartOf(i) == TotalNumBits(SubSeq(levels, 1, i - 1))

Ones ==
  {p \in Positions :
     \E i \in 1 .. Len(levels) :
       LET q == p - StartOf(i)
       IN  /\ q \in 0 .. levels[i].num_bits - 1
           /\ q % WordSize \in levels[i].words[q \div WordSize + 1]}

Before(pos) == {q \in Ones : q < pos}
After(pos) == {q \in Ones : q > pos}

(* concatenateBitvectors loses, moves and adds no bit, whatever the offsets at
   which the levels meet inside a word. *)
ConcatenationExact ==
  query # NotBuilt =>
    UNION {{i * WordSize + o : o \in bv.bits[i + 1]} : i \in 0 .. Len(bv.bits) - 1} = Ones

(* rank is the number of 1 bits up to and with pos, across words and blocks. *)
RankExact ==
  query.op = "rank" => answer = Cardinality({q \in Ones : q <= query.arg})

(* select is the inverse of rank, across words and samples. *)
SelectExact ==
  query.op = "select" =>
    answer \in Ones /\ Cardinality({q \in Ones : q <= answer}) = query.arg

(* distanceToNextSetBit leads to the next 1 bit whenever there is one, and to
   num_bits_ if there is none and pos + 1 lies in the last word. *)
NextExactInside ==
  query.op = "next" =>
    /\ After(query.arg) # {} => answer = Min(After(query.arg)) - query.arg
    /\ After(query.arg) = {}
         /\ (query.arg + 1) \div WordSize = Len(bv.bits) - 1
       => answer = bv.num_bits - query.arg

(* distanceToPrevSetBit leads to the 1 bit before pos, or, if there is none,
   one position before the start; from position 0 it does not lead anywhere. *)
PrevExact ==
  query.op = "prev" /\ query.arg > 0 =>
    answer = query.arg - Max(Before(query.arg) \cup {-1})
===============================================================================

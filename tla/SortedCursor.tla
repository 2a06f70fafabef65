----------------------------- MODULE SortedCursor -----------------------------
(***************************************************************************)
(* What an iterator promises, without any trie: it stands at one of the    *)
(* stored entries or at the end, and moves through them in key order.      *)
(*                                                                         *)
(* An entry is a record of path, the stored prefix, and key, the whole key *)
(* it was given for.  Paths are told apart and ordered as their keys are;  *)
(* a search compares whole keys.                                           *)
(***************************************************************************)
EXTENDS KeyOrder

VARIABLES
  entries,         \* the stored entries
  request,         \* what the client asked for last
  cursor,          \* the path of the entry the iterator stands at, or End
  limit            \* the same for the second iterator of a range

cursorVars == <<entries, request, cursor, limit>>

(* No stored prefix is empty. *)
End == << >>

(* A request to position the iterator: only entries below scope are visited;
   key and inclusive say where to start, right where a range ends. *)
NoRequest ==
  [op |-> "none", scope |-> << >>, key |-> << >>, inclusive |-> FALSE,
   right |-> << >>, right_inclusive |-> FALSE]

Below(scope) == {e \in entries : IsPrefix(scope, e.path)}

Least(S) ==
  IF S = {} THEN End
  ELSE (CHOOSE e \in S : \A f \in S : ~KeyLess(f.path, e.path)).path

Greatest(S) ==
  IF S = {} THEN End
  ELSE (CHOOSE e \in S : \A f \in S : ~KeyLess(e.path, f.path)).path

(* The first entry below a scope behind a key, or at it. *)
Seek(scope, key, inclusive) ==
  Least({e \in Below(scope) : KeyLess(key, e.key) \/ (inclusive /\ e.key = key)})

(* The entries between two keys, the right one never included; both iterators
   are at the end if the range is seen to be empty. *)
Between(r) ==
  LET first == Seek(<< >>, r.key, r.inclusive)
      last  == Seek(<< >>, r.right, TRUE)
  IN  IF first # End /\ last # End /\ KeyLess(last, first)
      THEN [cursor |-> End, limit |-> End]
      ELSE [cursor |-> first, limit |-> last]

At(path) == [cursor |-> path, limit |-> End]

(* moveToKeyLessThan does not step back: it answers with the entry behind key
   and only where there is none with the last one. *)
AnswerTo(r) ==
  CASE r.op = "first"   -> At(Least(Below(r.scope)))
    [] r.op = "last"    -> At(Greatest(entries))
    [] r.op = "greater" -> At(Seek(r.scope, r.key, r.inclusive))
    [] r.op = "less"    -> LET behind == Seek(<< >>, r.key, FALSE)
                           IN  At(IF behind = End THEN Greatest(entries) ELSE behind)
    [] r.op = "range"   -> Between(r)

Ask ==
  /\ request.op = "none"
  /\ request'.op \in {"first", "last", "greater", "less", "range"}
  /\ [cursor |-> cursor', limit |-> limit'] = AnswerTo(request')

Advance ==
  /\ cursor # End
  /\ cursor' = Least({e \in Below(request.scope) : KeyLess(cursor, e.path)})
  /\ UNCHANGED <<request, limit>>

Retreat ==
  /\ cursor # End
  /\ cursor' = Greatest({e \in Below(request.scope) : KeyLess(e.path, cursor)})
  /\ UNCHANGED <<request, limit>>

Close ==
  /\ request' = NoRequest
  /\ cursor' = End /\ limit' = End

Init ==
  /\ request = NoRequest
  /\ cursor = End /\ limit = End

Next ==
  /\ Ask \/ Advance \/ Retreat \/ Close
  /\ UNCHANGED entries

Spec == Init /\ [][Next]_cursorVars
===============================================================================

---------------------------- MODULE RecencyList ----------------------------
(***************************************************************************)
(* container/list as rate_limit.go and cache.go use it: a list of the      *)
(* resident keys of a bounded map, most recently used first.  An element   *)
(* of the list is identified by the key it holds, which is what the map of *)
(* either file points to.                                                  *)
(***************************************************************************)
EXTENDS Integers, Sequences, SequencesExt

PushFront(list, key) == Cons(key, list)

Back(list) == Last(list)

Unlink(list, key) == RemoveAt(list, CHOOSE i \in 1..Len(list) : list[i] = key)

MoveToFront(list, key) == PushFront(Unlink(list, key), key)

(* The list holds the keys of S, each exactly once. *)
Enlists(list, S) ==
  /\ \A i \in 1..Len(list) : list[i] \in S
  /\ \A key \in S : \E i \in 1..Len(list) : list[i] = key
  /\ \A i, j \in 1..Len(list) : list[i] = list[j] => i = j

(* Any two keys of the list are related in the order in which it has them. *)
Ordered(list, R) ==
  \A i, j \in 1..Len(list) : i < j => <<list[i], list[j]>> \in R

============================================================================

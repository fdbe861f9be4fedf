---------------------------- MODULE ResultStore ----------------------------
(***************************************************************************)
(* What the account cache promises its callers, its bound and its order of *)
(* use left out: results may be forgotten at any time, but one that is     *)
(* kept for a key was put for that key, is the last that arrived for it,   *)
(* and expires when its kind does, counted from the call of put; nothing   *)
(* that happens to it meanwhile prolongs it.                               *)
(*                                                                         *)
(* The module is abstract: it speaks of no map, no list and no lock.       *)
(***************************************************************************)
EXTENDS Integers

CONSTANTS
  Keys,     \* what results are kept for
  Results,  \* accounts and errors
  Lifetime  \* of each result, a natural number

VARIABLES
  now,      \* the clock
  offered,  \* results put but not yet stored, each with its key
  kept      \* results stored, each with its key

store == <<now, offered, kept>>

Init ==
  /\ now = 0
  /\ offered = {}
  /\ kept = {}

Advance ==
  /\ now' = now + 1
  /\ UNCHANGED <<offered, kept>>

Offer(key, result) ==
  LET entry == [result |-> result, expiresAt |-> now + Lifetime[result],
                stampedAt |-> now]
  IN  /\ offered' = offered \cup {[key |-> key, entry |-> entry]}
      /\ UNCHANGED <<now, kept>>

(* The same may be offered twice. *)
Keep(put) ==
  /\ offered' \in {offered, offered \ {put}}
  /\ put \in kept'
  /\ kept' \subseteq {other \in kept : other.key # put.key} \cup {put}
  /\ UNCHANGED now

Forget ==
  /\ kept' \subseteq kept
  /\ UNCHANGED <<now, offered>>

Next ==
  \/ Advance
  \/ \E key \in Keys, result \in Results : Offer(key, result)
  \/ \E put \in offered : Keep(put)
  \/ Forget

Spec == Init /\ [][Next]_store

============================================================================

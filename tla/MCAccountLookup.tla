-------------------------- MODULE MCAccountLookup --------------------------
(***************************************************************************)
(* Instances of AccountLookup for TLC: one account with the collections c1 *)
(* and c2, looked up as a whole, or for a collection that is not           *)
(* allowlisted.                                                            *)
(***************************************************************************)
EXTENDS AccountLookup, TLC

CONSTANTS c1, c2, all, other

MCSelection == [key \in Requests |-> IF key = all THEN <<c1, c2>> ELSE <<>>]

Interchangeable == Permutations(Workers)

============================================================================

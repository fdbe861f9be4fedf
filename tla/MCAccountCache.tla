--------------------------- MODULE MCAccountCache ---------------------------
(***************************************************************************)
(* Instances of AccountCacheKeys for TLC.  Three requests, chosen so that  *)
(* each is taken for another if the lengths or the colons of its encoding  *)
(* are left out; lengths are written in base two, so that two characters   *)
(* make a length of two digits.  Compared are lists of up to two names of  *)
(* up to two characters, and of up to three names of up to one.            *)
(***************************************************************************)
EXTENDS AccountCacheKeys, TLC

MCDigit == <<"0", "1">>

MCCharacters == {"0", "1", ":"}

Lists(maxNames, maxLength) ==
  BoundedSeq(BoundedSeq(MCCharacters, maxLength), maxNames)

Request(collections) == [identifier |-> "did", collections |-> collections]

ThreeRequests ==
  {Request(<<<<"1", "0">>>>), Request(<<<<"1">>, <<"0">>>>), Request(<<<<"0">>, <<"0">>>>)}

TheirKeys == {newAccountCacheKey(r) : r \in ThreeRequests}

MCSpelled == {Request(list) : list \in Lists(2, 2) \cup Lists(3, 1)}

Interchangeable == Permutations(Workers)

============================================================================

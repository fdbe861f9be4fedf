---------------------------- MODULE MCLookupGate ----------------------------
(***************************************************************************)
(* An instance of LookupGate for TLC: every header of one line of up to    *)
(* two elements, or of two lines of one.  Sources are interchangeable.     *)
(***************************************************************************)
EXTENDS LookupGate, TLC

CONSTANTS a, b, c

Elements == [host : {a, b, c}, form : Forms]

ShortHeaders ==
  {<<>>} \cup {<<<<e>>>> : e \in Elements}
  \cup {<<<<e, f>>>> : e \in Elements, f \in Elements}
  \cup {<<<<e>>, <<f>>>> : e \in Elements, f \in Elements}

Interchangeable == Permutations(Sources)

============================================================================

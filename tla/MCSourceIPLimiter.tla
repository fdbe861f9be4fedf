------------------------- MODULE MCSourceIPLimiter -------------------------
(***************************************************************************)
(* Instances of SourceIPLimiter for TLC.  Sources and workers are          *)
(* interchangeable: no action or property tells two of them apart.         *)
(***************************************************************************)
EXTENDS SourceIPLimiter

Interchangeable == Permutations(Sources) \cup Permutations(Workers)

============================================================================

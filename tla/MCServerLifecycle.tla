------------------------- MODULE MCServerLifecycle -------------------------
(***************************************************************************)
(* Two connections, so that one can be answered while the other is cut     *)
(* off, and a window shorter than lookupTimeout, as in the code (10 s and  *)
(* 25 s).                                                                  *)
(***************************************************************************)
EXTENDS ServerLifecycle

============================================================================

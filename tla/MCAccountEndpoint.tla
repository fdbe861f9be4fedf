------------------------- MODULE MCAccountEndpoint -------------------------
(***************************************************************************)
(* Headers of up to three items, enough for a wide range, a narrow one     *)
(* that overrides it and a third that repeats or contradicts either; three *)
(* qualities, so that two non-zero ones can differ.  User agents: none, a  *)
(* library, a browser, a library that claims to be one, a link preview.    *)
(***************************************************************************)
EXTENDS AccountEndpoint

UserAgents ==
  {{}, {"programmatic"}, {"browser"}, {"programmatic", "browser"}, {"preview"}}

============================================================================

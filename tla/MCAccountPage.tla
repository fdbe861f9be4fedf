--------------------------- MODULE MCAccountPage ---------------------------
(***************************************************************************)
(* Three allowlisted collections, configured in an order that is not the   *)
(* order of their names; requests of up to three parameters, among them    *)
(* the empty name and a name that is not allowlisted; records with two     *)
(* dates, so that they can tie, and an avatar of a supported type, of      *)
(* another type, or none.                                                  *)
(***************************************************************************)
EXTENDS AccountPage

MCOrder == <<2, 3, 1>>

============================================================================

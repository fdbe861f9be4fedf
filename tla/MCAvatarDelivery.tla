-------------------------- MODULE MCAvatarDelivery --------------------------
(***************************************************************************)
(* An owner with two images, the profile misdeclaring one of them, and two *)
(* requests, one to fill the cache late and one to use what it stored.     *)
(***************************************************************************)
EXTENDS AvatarDelivery, TLC

Symmetry == Permutations(Requests)

============================================================================

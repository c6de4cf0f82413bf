------------------------------ MODULE MCAccess ------------------------------
(***************************************************************************)
(* Instances of Access for TLC.                                            *)
(***************************************************************************)
EXTENDS Access, TLC

Alike == Permutations(Handler) \cup Permutations(User) \cup Permutations(Role)
=============================================================================

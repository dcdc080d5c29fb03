--------------------------------- MODULE MCAccess ---------------------------------
(***************************************************************************)
(* The instance of Access for TLC.  Users, requests, commands and logins    *)
(* are told apart by nothing but their name, and only safety is checked.    *)
(***************************************************************************)
EXTENDS Access, TLC

Symmetry ==
  Permutations(Users) \cup Permutations(Requests) \cup Permutations(Commands)
    \cup Permutations(Logins)
===================================================================================

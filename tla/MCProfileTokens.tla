---------------------------- MODULE MCProfileTokens ----------------------------
(* Model values for TLC.  Users, invites and requests are interchangeable. *)
EXTENDS ProfileTokens, TLC

Symmetry ==
    Permutations(Users) \cup Permutations(Codes) \cup Permutations(Requests)
=============================================================================

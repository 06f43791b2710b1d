---------------------------- MODULE MCProfileSync ----------------------------
(***************************************************************************)
(* ProfileSync on small instances.                                         *)
(***************************************************************************)
EXTENDS ProfileSync, TLC

\* Requests, releases and tokens are interchangeable: no definition of
\* ProfileSync chooses among them or names one.
Symmetry ==
    Permutations(Requests) \cup Permutations(Releases) \cup Permutations(Tokens)
=============================================================================

-------------------------- MODULE MCCacheCoherence --------------------------
(***************************************************************************)
(* CacheCoherence on small instances.                                      *)
(***************************************************************************)
EXTENDS CacheCoherence, TLC

\* Writers are interchangeable.
Symmetry == Permutations(Writers)
=============================================================================

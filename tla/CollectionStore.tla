--------------------------- MODULE CollectionStore ---------------------------
(***************************************************************************)
(* What one profile's collection cache promises, with no mention of the    *)
(* syncs, locks and background tasks that keep it.                         *)
(*                                                                         *)
(* There is a stored collection and the copy of it the kiosk is served.    *)
(* The stored collection is replaced as a whole, never by one that has     *)
(* lost more than the tolerated share of its records, and never after the  *)
(* profile is retired; a retired profile's copy goes first and its         *)
(* collection after it.  A published copy is the collection stored at the  *)
(* moment of publication; only a start may serve an empty one instead.     *)
(***************************************************************************)
EXTENDS Integers, FiniteSets

CONSTANTS
    Releases    \* keys (release_id, folder_id) a collection is made of

VARIABLES
    stored,     \* the stored collection
    served,     \* {the served copy}, or {} when there is none
    retired     \* the profile has been soft-deleted

storeVars == <<stored, served, retired>>

\* _swap_inside_tx: fewer than 98% of what was stored is taken for a
\* truncated answer.
Truncates(old, new) == Cardinality(new) * 100 < Cardinality(old) * 98

Init ==
    /\ stored = {}
    /\ served = {{}}
    /\ retired = FALSE

Replace ==
    /\ ~retired
    /\ \E new \in SUBSET Releases :
          /\ ~Truncates(stored, new)
          /\ stored' = new
    /\ UNCHANGED <<served, retired>>

\* Publication replaces a copy that is there.
Serve ==
    /\ served # {}
    /\ served' = {stored}
    /\ UNCHANGED <<stored, retired>>

\* The process starts: the copy is loaded, or it is empty.
Start ==
    /\ served = {}
    /\ ~retired
    /\ served' \in {{stored}, {{}}}
    /\ UNCHANGED <<stored, retired>>

\* A profile is retired once and for all.
Retire ==
    /\ retired' = TRUE
    /\ UNCHANGED <<stored, served>>

\* Eviction of a retired profile, and the end of the process.
Withdraw ==
    /\ served' = {}
    /\ UNCHANGED <<stored, retired>>

Purge ==
    /\ retired
    /\ served = {}
    /\ stored' = {}
    /\ UNCHANGED <<served, retired>>

Next == Replace \/ Serve \/ Start \/ Retire \/ Withdraw \/ Purge

Spec == Init /\ [][Next]_storeVars
=============================================================================

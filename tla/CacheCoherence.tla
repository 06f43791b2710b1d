--------------------------- MODULE CacheCoherence ---------------------------
(***************************************************************************)
(* The derived caches of one profile: the boundaries and width overrides   *)
(* of its BoundaryCache, the CollectionSnapshot, and the SegmentCache      *)
(* derived from the three.  Admin writers rebuild them after their own     *)
(* commit (cache_rebuild.py), a sync after its swap (profile_sync.py), the *)
(* process when it starts (app.py).                                        *)
(*                                                                         *)
(* A table is the number of commits it has seen; a copy of it is the       *)
(* number it had when it was read.  Zero is empty.  The objects are shared *)
(* and outlive their registry entries: a writer that resolved them before  *)
(* an eviction still publishes into them.                                  *)
(***************************************************************************)
EXTENDS Integers

CONSTANTS
    Writers,        \* admin requests that edit boundaries or widths
    Faults,         \* database reads of a rebuild may fail
    MaxVersion,     \* bound: edits of a table
    MaxSwaps,       \* bound: swaps of the collection
    MaxRestarts     \* bound: restarts of the process

ASSUME CacheAssumption ==
    /\ Faults \in BOOLEAN
    /\ MaxVersion \in Nat
    /\ MaxSwaps \in Nat
    /\ MaxRestarts \in Nat

VARIABLES
    db,         \* the tables
    live,       \* contents of the shared cache objects, and generation
    bins,       \* what the SegmentCache was derived from
    registered, \* the registries still hold the objects
    pc,         \* where each writer is
    local,      \* what each writer has read for its rebuild
    sync,       \* the refresh of the sync that holds the profile's lock
    missed,     \* a rebuild has failed since the last that succeeded
    restarts

vars == <<db, live, bins, registered, pc, local, sync, missed, restarts>>

Tables == [cuts : Nat, widths : Nat, records : Nat]

TypeOK ==
    /\ db \in Tables
    /\ live \in [cuts : Nat, widths : Nat, records : Nat, generation : Nat]
    /\ bins \in Tables
    /\ registered \in BOOLEAN
    /\ pc \in [Writers -> {"idle", "admitted", "committed", "rows", "loaded"}]
    /\ local \in [Writers -> [cuts : Nat, widths : Nat]]
    /\ sync \in [at : {"idle", "swapped", "pinned", "rows", "overrides",
                       "snapshot"},
                 cuts : Nat, widths : Nat, records : Nat, generation : Nat]
    /\ missed \in BOOLEAN
    /\ restarts \in 0..MaxRestarts

NoRead == [cuts |-> 0, widths |-> 0]

NoRefresh ==
    [at |-> "idle", cuts |-> 0, widths |-> 0, records |-> 0, generation |-> 0]

Init ==
    /\ db = [cuts |-> 0, widths |-> 0, records |-> 0]
    /\ live = [cuts |-> 0, widths |-> 0, records |-> 0, generation |-> 0]
    /\ bins = [cuts |-> 0, widths |-> 0, records |-> 0]
    /\ registered = TRUE
    /\ pc = [w \in Writers |-> "idle"]
    /\ local = [w \in Writers |-> NoRead]
    /\ sync = NoRefresh
    /\ missed = FALSE
    /\ restarts = 0

\* SegmentCache.derive, in the turn that has changed the live contents.
Derived(contents) ==
    [cuts |-> contents.cuts, widths |-> contents.widths,
     records |-> contents.records]

Goto(w, from, to) ==
    /\ pc[w] = from
    /\ pc' = [pc EXCEPT ![w] = to]

-----------------------------------------------------------------------------
(***************************************************************************)
(* Admin writers.                                                          *)
(***************************************************************************)

\* get_write_context resolves the profile's own cache objects.
Admit(w) ==
    /\ registered
    /\ Goto(w, "idle", "admitted")
    /\ UNCHANGED <<db, live, bins, registered, local, sync, missed, restarts>>

\* The request is refused, or its transaction rolls back.
Reject(w) ==
    /\ Goto(w, "admitted", "idle")
    /\ UNCHANGED <<db, live, bins, registered, local, sync, missed, restarts>>

Written(tables) ==
    [cuts |-> IF "cuts" \in tables THEN db.cuts + 1 ELSE db.cuts,
     widths |-> IF "widths" \in tables THEN db.widths + 1 ELSE db.widths,
     records |-> db.records]

\* Cut edits and reverts write boundaries, override edits write widths, an
\* import writes both.
Commit(w, written) ==
    /\ \A t \in written : db[t] < MaxVersion
    /\ Goto(w, "admitted", "committed")
    /\ db' = Written(written)
    /\ UNCHANGED <<live, bins, registered, local, sync, missed, restarts>>

\* BoundaryCache.load: two SELECTs on two connections ...
LoadRows(w) ==
    /\ Goto(w, "committed", "rows")
    /\ local' = [local EXCEPT ![w].cuts = db.cuts]
    /\ UNCHANGED <<db, live, bins, registered, sync, missed, restarts>>

LoadOverrides(w) ==
    /\ Goto(w, "rows", "loaded")
    /\ local' = [local EXCEPT ![w].widths = db.widths]
    /\ UNCHANGED <<db, live, bins, registered, sync, missed, restarts>>

\* Mutant: the segments are not derived again.
PublishUnderived(w) ==
    /\ Goto(w, "loaded", "idle")
    /\ live' = [cuts |-> local[w].cuts, widths |-> local[w].widths,
                records |-> live.records, generation |-> live.generation + 1]
    /\ local' = [local EXCEPT ![w] = NoRead]
    /\ missed' = FALSE
    /\ UNCHANGED <<db, bins, registered, sync, restarts>>

\* ... then, with no await between, publication and derivation from the
\* snapshot that is live at that moment.
Publish(w) ==
    /\ Goto(w, "loaded", "idle")
    /\ live' = [cuts |-> local[w].cuts, widths |-> local[w].widths,
                records |-> live.records, generation |-> live.generation + 1]
    /\ bins' = Derived(live')
    /\ local' = [local EXCEPT ![w] = NoRead]
    /\ missed' = FALSE
    /\ UNCHANGED <<db, registered, sync, restarts>>

\* A SELECT fails: what is live keeps serving and the request ends in error.
RebuildFails(w) ==
    /\ Faults
    /\ pc[w] \in {"committed", "rows"}
    /\ Goto(w, pc[w], "idle")
    /\ local' = [local EXCEPT ![w] = NoRead]
    /\ missed' = TRUE
    /\ UNCHANGED <<db, live, bins, registered, sync, restarts>>

-----------------------------------------------------------------------------
(***************************************************************************)
(* The refresh after a swap.  Its sync holds the profile's advisory lock   *)
(* until the refresh is over, so there is one refresh at a time            *)
(* (OneSyncAtATime in ProfileSync).                                        *)
(***************************************************************************)

Swap ==
    /\ sync.at = "idle"
    /\ db.records < MaxSwaps
    /\ db' = [db EXCEPT !.records = @ + 1]
    /\ sync' = [NoRefresh EXCEPT !.at = "swapped"]
    /\ UNCHANGED <<live, bins, registered, pc, local, missed, restarts>>

\* The registry entries and the generation are read in one turn.
Pin ==
    /\ sync.at = "swapped"
    /\ registered
    /\ sync' = [sync EXCEPT !.at = "pinned", !.generation = live.generation]
    /\ UNCHANGED <<db, live, bins, registered, pc, local, missed, restarts>>

RefreshRows ==
    /\ sync.at = "pinned"
    /\ sync' = [sync EXCEPT !.at = "rows", !.cuts = db.cuts]
    /\ UNCHANGED <<db, live, bins, registered, pc, local, missed, restarts>>

RefreshOverrides ==
    /\ sync.at = "rows"
    /\ sync' = [sync EXCEPT !.at = "overrides", !.widths = db.widths]
    /\ UNCHANGED <<db, live, bins, registered, pc, local, missed, restarts>>

RefreshSnapshot ==
    /\ sync.at = "overrides"
    /\ registered
    /\ sync' = [sync EXCEPT !.at = "snapshot", !.records = db.records]
    /\ UNCHANGED <<db, live, bins, registered, pc, local, missed, restarts>>

\* Mutant: published whatever the writers have published meanwhile.
RefreshPublishAlways ==
    /\ sync.at = "snapshot"
    /\ registered
    /\ live' = [cuts |-> sync.cuts, widths |-> sync.widths,
                records |-> sync.records, generation |-> live.generation + 1]
    /\ bins' = Derived(live')
    /\ sync' = NoRefresh
    /\ UNCHANGED <<db, registered, pc, local, missed, restarts>>

\* Three publish_from calls with no await between.
RefreshPublish ==
    /\ sync.at = "snapshot"
    /\ registered
    /\ sync.generation = live.generation
    /\ live' = [cuts |-> sync.cuts, widths |-> sync.widths,
                records |-> sync.records, generation |-> live.generation + 1]
    /\ bins' = Derived(live')
    /\ sync' = NoRefresh
    /\ UNCHANGED <<db, registered, pc, local, missed, restarts>>

\* Mutant: given up instead of prepared again.
RefreshGivesUp ==
    /\ sync.at = "snapshot"
    /\ registered
    /\ sync.generation # live.generation
    /\ sync' = NoRefresh
    /\ UNCHANGED <<db, live, bins, registered, pc, local, missed, restarts>>

\* Mutant: prepared again for the generation that was read first.
RefreshRetryStale ==
    /\ sync.at = "snapshot"
    /\ registered
    /\ sync.generation # live.generation
    /\ sync' = [sync EXCEPT !.at = "pinned"]
    /\ UNCHANGED <<db, live, bins, registered, pc, local, missed, restarts>>

\* A writer has published since the generation was read: prepare again.
RefreshRetry ==
    /\ sync.at = "snapshot"
    /\ registered
    /\ sync.generation # live.generation
    /\ sync' = [sync EXCEPT !.at = "pinned", !.generation = live.generation]
    /\ UNCHANGED <<db, live, bins, registered, pc, local, missed, restarts>>

\* The identity checks after each read: an evicted profile is not refreshed.
RefreshEvicted ==
    /\ sync.at \in {"swapped", "overrides", "snapshot"}
    /\ ~registered
    /\ sync' = NoRefresh
    /\ UNCHANGED <<db, live, bins, registered, pc, local, missed, restarts>>

RefreshFails ==
    /\ Faults
    /\ sync.at \in {"pinned", "rows", "overrides"}
    /\ sync' = NoRefresh
    /\ UNCHANGED <<db, live, bins, registered, pc, local, missed, restarts>>

-----------------------------------------------------------------------------

\* The soft delete of the profile.
Evict ==
    /\ registered
    /\ registered' = FALSE
    /\ UNCHANGED <<db, live, bins, pc, local, sync, missed, restarts>>

\* The process ends, with whatever ran in it, and starts again: a load that
\* fails leaves its cache empty and the start goes on.  A deleted profile is
\* not loaded.
Restart(loaded) ==
    /\ restarts < MaxRestarts
    /\ loaded # {"boundaries", "records"} => Faults
    /\ restarts' = restarts + 1
    /\ pc' = [w \in Writers |-> "idle"]
    /\ local' = [w \in Writers |-> NoRead]
    /\ sync' = NoRefresh
    /\ IF registered
         THEN /\ live' = [cuts |-> IF "boundaries" \in loaded THEN db.cuts ELSE 0,
                          widths |-> IF "boundaries" \in loaded THEN db.widths ELSE 0,
                          records |-> IF "records" \in loaded THEN db.records ELSE 0,
                          generation |-> IF "boundaries" \in loaded THEN 1 ELSE 0]
              /\ bins' = Derived(live')
              /\ missed' = ("boundaries" \notin loaded)
         ELSE UNCHANGED <<live, bins, missed>>
    /\ UNCHANGED <<db, registered>>

Rebuild(w) == LoadRows(w) \/ LoadOverrides(w) \/ Publish(w)

Refresh ==
    \/ Pin
    \/ RefreshRows
    \/ RefreshOverrides
    \/ RefreshSnapshot
    \/ RefreshPublish
    \/ RefreshRetry
    \/ RefreshEvicted

Next ==
    \/ \E w \in Writers :
          \/ Admit(w)
          \/ Reject(w)
          \/ \E written \in {{"cuts"}, {"widths"}, {"cuts", "widths"}} :
                Commit(w, written)
          \/ Rebuild(w)
          \/ RebuildFails(w)
    \/ Swap
    \/ Refresh
    \/ RefreshFails
    \/ Evict
    \/ \E loaded \in SUBSET {"boundaries", "records"} : Restart(loaded)

Spec == Init /\ [][Next]_vars

(***************************************************************************)
(* Every task that can run is run by the event loop, and the pool answers  *)
(* every read in the end.                                                  *)
(***************************************************************************)
Fairness == WF_vars(Refresh) /\ \A w \in Writers : WF_vars(Rebuild(w))

FairSpec == Spec /\ Fairness
-----------------------------------------------------------------------------
(***************************************************************************)
(* Properties.                                                             *)
(***************************************************************************)

\* The segments the kiosk is answered from are derived from exactly the
\* boundaries, widths and snapshot that are live, whoever published last.
BinsMatchLive == bins = Derived(live)

\* A refresh that has made all its reads never replaces boundaries or widths
\* by older ones, and never ends with the swapped collection unserved: writers
\* that publish while it reads make it prepare again (the generation check of
\* _refresh_profile_caches), and only the deletion of the profile ends it.
RefreshLosesNothing ==
    [][sync.at = "snapshot" /\ sync'.at # "snapshot" /\ restarts' = restarts
         => /\ live'.cuts >= live.cuts
            /\ live'.widths >= live.widths
            /\ live'.records >= live.records
            /\ sync'.at = "idle" => live'.records = db.records \/ ~registered]_vars

\* Between edits the caches hold what the tables hold, unless the last
\* rebuild has failed or the profile is deleted.  cache_rebuild.py: an admin
\* write refreshes the structures the kiosk reads from.
QuietMeansFresh ==
    registered /\ ~missed /\ (\A w \in Writers : pc[w] = "idle")
      => live.cuts = db.cuts /\ live.widths = db.widths

\* Once no request is being served any more, every refresh ends: preparing
\* again stops when the writers do.
RefreshEnds ==
    <>[](\A w \in Writers : pc[w] = "idle")
      => (sync.at = "swapped" ~> sync.at = "idle")

\* api/admin/cubes.py: the event is published in finally so that a transient
\* failure of the rebuild never strands subscribers on stale data.
NeverStranded ==
    live.cuts # db.cuts ~> live.cuts = db.cuts \/ ~registered
=============================================================================

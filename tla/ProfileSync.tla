----------------------------- MODULE ProfileSync -----------------------------
(***************************************************************************)
(* The synchronisation of one profile's collection with discogsography:    *)
(* gruvax.sync.profile_sync.sync_profile and everything that runs beside   *)
(* it on the same profile -- the admin endpoints that trigger it, store a  *)
(* token or delete the profile, the scheduler, the purge, the end of the   *)
(* process and its restart.                                                *)
(*                                                                         *)
(* Every step between two awaits of a task is one action.  A task that     *)
(* updates the profiles row waits while a swap transaction holds the row.  *)
(***************************************************************************)
EXTENDS Integers, FiniteSets

CONSTANTS
    Requests,       \* admin background syncs that can be outstanding
    Scheduled,      \* the scheduler's own sync (catch-up, then nightly)
    Releases,       \* keys (release_id, folder_id) of a collection
    Tokens,         \* personal access tokens the owner may store
    MaxDuplicates,  \* bound: duplicate copies in one upstream answer
    MaxCrashes,     \* bound: ends of the process
    Interruptions,  \* which of "cancel", "database", "revoke" may happen
    NoSync, NoToken

Syncs == Requests \cup Scheduled

ASSUME SyncAssumption ==
    /\ NoSync \notin Syncs
    /\ NoToken \notin Tokens
    /\ IsFiniteSet(Releases)
    /\ MaxDuplicates \in Nat
    /\ MaxCrashes \in Nat

VARIABLES
    profile,    \* the gruvax.profiles row
    rows,       \* the profile's rows of gruvax.profile_collection
    advisory,   \* holder of the profile's advisory lock
    rowLock,    \* sync whose swap transaction holds the profiles row
    pc,         \* where each sync task is
    work,       \* what each sync task carries
    cache,      \* {collection served from the registries}, {} if evicted
    deletion,   \* where the soft-delete handler is
    dead,       \* tokens discogsography rejects or that no longer decrypt
    up,         \* the process is down, serving, or serving without a database
    crashes     \* how often the process has ended

vars == <<profile, rows, advisory, rowLock, pc, work, cache, deletion, dead,
          up, crashes>>

\* The tags of a failure; "upstream" stands for rate_limited, server_error,
\* network and snapshot_mismatch, which no step treats differently.
Faults == {"pat_rejected", "upstream", "shrink_guard", "untagged"}

Transient == Faults \ {"pat_rejected", "shrink_guard"}

\* Steps between _load_pat and the lock, and steps at which it is held.
Holding == {"locked", "fetching", "staged", "swapping", "committed",
            "prepared", "failing", "cancelled", "releasing"}

Steps == Holding \cup {"idle", "accepted", "queued", "loaded", "refused"}

\* What a task knows: its token, the distinct keys and the number of rows it
\* staged, why it failed, and the rows it read for the new caches.
Fresh == [pat |-> NoToken, keys |-> {}, raw |-> 0, fault |-> "untagged",
          view |-> {}]

Frame == [pat : Tokens \cup {NoToken}, keys : SUBSET Releases, raw : Nat,
          fault : Faults, view : SUBSET Releases]

\* The columns of gruvax.profiles that syncs read or write.
ProfileRow == [status : {"null", "in_progress", "ok", "failed"},
               error : Faults \cup {"none"}, revoked : BOOLEAN,
               deleted : BOOLEAN, token : Tokens \cup {NoToken},
               items : Nat, arrivals : Nat]

Served == {{c} : c \in SUBSET Releases} \cup {{}}

TypeOK ==
    /\ profile \in ProfileRow
    /\ rows \in SUBSET Releases
    /\ advisory \in Syncs \cup {NoSync}
    /\ rowLock \in Syncs \cup {NoSync}
    /\ pc \in [Syncs -> Steps]
    /\ work \in [Syncs -> Frame]
    /\ cache \in Served
    /\ deletion \in {"idle", "deleted", "purging"}
    /\ dead \in SUBSET Tokens
    /\ up \in {"down", "serving", "degraded"}
    /\ crashes \in 0..MaxCrashes

\* A profile as create_profile leaves it, with empty registry entries.
Init ==
    /\ profile = [status |-> "null", error |-> "none", revoked |-> TRUE,
                  deleted |-> FALSE, token |-> NoToken, items |-> 0,
                  arrivals |-> 0]
    /\ rows = {}
    /\ advisory = NoSync
    /\ rowLock = NoSync
    /\ pc = [s \in Syncs |-> "idle"]
    /\ work = [s \in Syncs |-> Fresh]
    /\ cache = {{}}
    /\ deletion = "idle"
    /\ dead = {}
    /\ up = "serving"
    /\ crashes = 0

locks == <<advisory, rowLock>>
collection == <<rows, cache>>
surroundings == <<deletion, dead, up, crashes>>

Goto(s, from, to) ==
    /\ pc[s] = from
    /\ pc' = [pc EXCEPT ![s] = to]

\* The task is over and its frame is gone.
Return(s, from) ==
    /\ Goto(s, from, "idle")
    /\ work' = [work EXCEPT ![s] = Fresh]

\* An UPDATE of the profiles row waits for a swap that has locked it.
RowFree == rowLock = NoSync

\* UPDATE ... WHERE deleted_at IS NULL
IfActive(updated) == IF profile.deleted THEN profile ELSE updated

Marked == [profile EXCEPT !.status = "in_progress", !.error = "none"]

Failed(fault) ==
    [profile EXCEPT !.status = "failed", !.error = fault,
                    !.revoked = @ \/ fault = "pat_rejected"]

-----------------------------------------------------------------------------
(***************************************************************************)
(* Where syncs come from.                                                  *)
(***************************************************************************)

\* The 404 pre-flight of trigger_sync, connect and rotate.
RequireProfile(s) ==
    /\ s \in Requests
    /\ up = "serving"
    /\ ~profile.deleted
    /\ Goto(s, "idle", "accepted")
    /\ UNCHANGED <<profile, locks, work, collection, surroundings>>

\* The UPDATE of trigger_sync has no deleted_at predicate.
TriggerSync(s) ==
    /\ RowFree
    /\ Goto(s, "accepted", "queued")
    /\ profile' = Marked
    /\ UNCHANGED <<locks, work, collection, surroundings>>

\* connect_pat and rotate_pat: a token that passed the test-sync is stored.
StorePat(s, t) ==
    /\ RowFree
    /\ t \notin dead
    /\ Goto(s, "accepted", "queued")
    /\ profile' = IfActive([profile EXCEPT !.token = t, !.revoked = FALSE,
                                          !.status = "null",
                                          !.error = "none"])
    /\ UNCHANGED <<locks, work, collection, surroundings>>

\* The test-sync fails, or the token belongs to somebody else.
RefuseToken(s) ==
    /\ Goto(s, "accepted", "idle")
    /\ UNCHANGED <<profile, locks, work, collection, surroundings>>

\* The skip policy of _sync_loop and of _startup_catchup_sweep.
Eligible ==
    /\ ~profile.deleted
    /\ ~profile.revoked
    /\ profile.status # "in_progress"

ScheduleSync(s) ==
    /\ s \in Scheduled
    /\ up = "serving"
    /\ Eligible
    /\ Goto(s, "idle", "queued")
    /\ UNCHANGED <<profile, locks, work, collection, surroundings>>

-----------------------------------------------------------------------------
(***************************************************************************)
(* sync_profile.                                                           *)
(***************************************************************************)

LoadPat(s) ==
    /\ ~profile.deleted
    /\ profile.token # NoToken
    /\ Goto(s, "queued", "loaded")
    /\ work' = [work EXCEPT ![s].pat = profile.token]
    /\ UNCHANGED <<profile, locks, collection, surroundings>>

\* No such profile, the sentinel token, or a token that does not decrypt.
RefusePat(s) ==
    /\ profile.deleted \/ profile.token \in dead \cup {NoToken}
    /\ Goto(s, "queued", "refused")
    /\ UNCHANGED <<profile, locks, work, collection, surroundings>>

\* The refusal is recorded before any lock is taken.
RecordRefusal(s) ==
    /\ RowFree
    /\ Return(s, "refused")
    /\ profile' = IfActive(Failed("pat_rejected"))
    /\ UNCHANGED <<locks, collection, surroundings>>

AcquireLock(s) ==
    /\ advisory = NoSync
    /\ Goto(s, "loaded", "locked")
    /\ advisory' = s
    /\ UNCHANGED <<profile, rowLock, work, collection, surroundings>>

\* Mutant: the loser's clean-up unlocks whatever session holds the lock.
LockBusyUnlocks(s) ==
    /\ advisory # NoSync
    /\ Return(s, "loaded")
    /\ advisory' = NoSync
    /\ UNCHANGED <<profile, rowLock, collection, surroundings>>

\* SyncInProgress: nothing is written.
LockBusy(s) ==
    /\ advisory # NoSync
    /\ Return(s, "loaded")
    /\ UNCHANGED <<profile, locks, collection, surroundings>>

MarkInProgress(s) ==
    /\ RowFree
    /\ Goto(s, "locked", "fetching")
    /\ profile' = IfActive(Marked)
    /\ UNCHANGED <<locks, work, collection, surroundings>>

\* discogsography answers with one row per copy owned, so a key may come
\* more than once.
Ingest(s, keys, copies) ==
    /\ work[s].pat \notin dead
    /\ keys = {} => copies = 0
    /\ Goto(s, "fetching", "staged")
    /\ work' = [work EXCEPT ![s].keys = keys,
                            ![s].raw = Cardinality(keys) + copies]
    /\ UNCHANGED <<profile, locks, collection, surroundings>>

FetchFails(s, fault) ==
    /\ fault \in Transient \/ (fault = "pat_rejected" /\ work[s].pat \in dead)
    /\ Goto(s, "fetching", "failing")
    /\ work' = [work EXCEPT ![s].fault = fault]
    /\ UNCHANGED <<profile, locks, collection, surroundings>>

\* Mutant: SELECT without FOR UPDATE.
ReadProfileForSwap(s) ==
    /\ ~profile.deleted
    /\ Goto(s, "staged", "swapping")
    /\ UNCHANGED <<profile, locks, work, collection, surroundings>>

\* The row lock orders the swap against a soft delete.
LockProfileForSwap(s) ==
    /\ RowFree
    /\ ~profile.deleted
    /\ Goto(s, "staged", "swapping")
    /\ rowLock' = s
    /\ UNCHANGED <<profile, advisory, work, collection, surroundings>>

\* ProfileDeletedDuringSync: rolled back, and nothing is stamped.
DeletedDuringSync(s) ==
    /\ profile.deleted
    /\ Goto(s, "staged", "releasing")
    /\ UNCHANGED <<profile, locks, work, collection, surroundings>>

Truncates(old, new) == Cardinality(new) * 100 < Cardinality(old) * 98

\* Mutant: every stored row is subtracted, not only those met again.
ArrivalsNet(s) ==
    LET fresh == work[s].raw - Cardinality(rows)
    IN  IF fresh < 0 THEN 0 ELSE fresh

\* new_record_count: the raw row count, less the stored rows met again.
Arrivals(s) ==
    LET fresh == work[s].raw - Cardinality(rows \cap work[s].keys)
    IN  IF fresh < 0 THEN 0 ELSE fresh

\* Mutant: the raw row count is reported instead of the stored one.
CommitSwapRaw(s) ==
    /\ ~Truncates(rows, work[s].keys)
    /\ Goto(s, "swapping", "committed")
    /\ rowLock' = NoSync
    /\ rows' = work[s].keys
    /\ profile' = [profile EXCEPT !.status = "ok", !.error = "none",
                                  !.revoked = FALSE, !.items = work[s].raw,
                                  !.arrivals = Arrivals(s)]
    /\ UNCHANGED <<advisory, work, cache, surroundings>>

\* Mutant: the success update leaves app_token_revoked alone.
CommitSwapRevoked(s) ==
    /\ ~Truncates(rows, work[s].keys)
    /\ Goto(s, "swapping", "committed")
    /\ rowLock' = NoSync
    /\ rows' = work[s].keys
    /\ profile' = [profile EXCEPT !.status = "ok", !.error = "none",
                                  !.items = Cardinality(work[s].keys),
                                  !.arrivals = Arrivals(s)]
    /\ UNCHANGED <<advisory, work, cache, surroundings>>

CommitSwap(s) ==
    /\ ~Truncates(rows, work[s].keys)
    /\ Goto(s, "swapping", "committed")
    /\ rowLock' = NoSync
    /\ rows' = work[s].keys
    /\ profile' = [profile EXCEPT !.status = "ok", !.error = "none",
                                  !.revoked = FALSE,
                                  !.items = Cardinality(work[s].keys),
                                  !.arrivals = Arrivals(s)]
    /\ UNCHANGED <<advisory, work, cache, surroundings>>

ShrinkGuard(s) ==
    /\ Truncates(rows, work[s].keys)
    /\ Goto(s, "swapping", "failing")
    /\ rowLock' = NoSync
    /\ work' = [work EXCEPT ![s].fault = "shrink_guard"]
    /\ UNCHANGED <<profile, advisory, collection, surroundings>>

RecordFailure(s) ==
    /\ RowFree
    /\ Goto(s, "failing", "releasing")
    /\ profile' = IfActive(Failed(work[s].fault))
    /\ UNCHANGED <<locks, work, collection, surroundings>>

\* _refresh_profile_caches reads off-registry ...
ReadCaches(s) ==
    /\ cache # {}
    /\ Goto(s, "committed", "prepared")
    /\ work' = [work EXCEPT ![s].view = rows]
    /\ UNCHANGED <<profile, locks, collection, surroundings>>

\* Mutant: the prepared caches are dropped.
DropCaches(s) ==
    /\ Goto(s, "prepared", "releasing")
    /\ UNCHANGED <<profile, locks, work, collection, surroundings>>

\* ... and publishes unless the profile was evicted meanwhile.
PublishCaches(s) ==
    /\ cache # {}
    /\ Goto(s, "prepared", "releasing")
    /\ cache' = {work[s].view}
    /\ UNCHANGED <<profile, locks, work, rows, surroundings>>

RefreshEvicted(s) ==
    /\ cache = {}
    /\ pc[s] \in {"committed", "prepared"}
    /\ Goto(s, pc[s], "releasing")
    /\ UNCHANGED <<profile, locks, work, collection, surroundings>>

\* Mutant: the session lives on with its lock.
ReturnLocked(s) ==
    /\ Return(s, "releasing")
    /\ UNCHANGED <<profile, locks, collection, surroundings>>

Release(s) ==
    /\ Return(s, "releasing")
    /\ advisory' = NoSync
    /\ UNCHANGED <<profile, rowLock, collection, surroundings>>

-----------------------------------------------------------------------------
(***************************************************************************)
(* What cuts a sync short: its task is cancelled, or Postgres fails it.    *)
(***************************************************************************)

Unlocked(s) == IF rowLock = s THEN NoSync ELSE rowLock

\* Before the lock is held nothing is written and nothing is recorded.
AbandonEarly(s) ==
    /\ Interruptions \cap {"cancel", "database"} # {}
    /\ pc[s] \in {"queued", "loaded", "refused"}
    /\ Return(s, pc[s])
    /\ UNCHANGED <<profile, locks, collection, surroundings>>

Cancel(s) ==
    /\ "cancel" \in Interruptions
    /\ pc[s] \in Holding \ {"failing", "cancelled", "releasing"}
    /\ Goto(s, pc[s], "cancelled")
    /\ rowLock' = Unlocked(s)
    /\ UNCHANGED <<profile, advisory, work, collection, surroundings>>

\* Mutant: a status of its own for cancelled syncs.
RecordCancelled(s) ==
    /\ RowFree
    /\ Goto(s, "cancelled", "releasing")
    /\ profile' = IF profile.status = "in_progress"
                    THEN IfActive([profile EXCEPT !.status = "cancelled"])
                    ELSE profile
    /\ UNCHANGED <<locks, work, collection, surroundings>>

\* Mutant: whatever the status is, it is finalised as failed.
RecordAnyCancellation(s) ==
    /\ RowFree
    /\ Goto(s, "cancelled", "releasing")
    /\ profile' = IfActive([profile EXCEPT !.status = "failed", !.error = "none"])
    /\ UNCHANGED <<locks, work, collection, surroundings>>

\* Only work still marked in progress is finalised.
RecordCancellation(s) ==
    /\ RowFree
    /\ Goto(s, "cancelled", "releasing")
    /\ profile' = IF profile.status = "in_progress"
                    THEN IfActive([profile EXCEPT !.status = "failed",
                                                  !.error = "none"])
                    ELSE profile
    /\ UNCHANGED <<locks, work, collection, surroundings>>

DatabaseFails(s) ==
    /\ "database" \in Interruptions
    /\ pc[s] \in {"locked", "staged", "swapping"}
    /\ Goto(s, pc[s], "failing")
    /\ rowLock' = Unlocked(s)
    /\ UNCHANGED <<profile, advisory, work, collection, surroundings>>

\* The status update itself fails or is cancelled: the row stays as it was.
RecordingFails(s) ==
    /\ Interruptions \cap {"cancel", "database"} # {}
    /\ pc[s] \in {"failing", "cancelled"}
    /\ Goto(s, pc[s], "releasing")
    /\ UNCHANGED <<profile, locks, work, collection, surroundings>>

\* The swap is durable and its status stays 'ok'.
RefreshFails(s) ==
    /\ "database" \in Interruptions
    /\ pc[s] \in {"committed", "prepared"}
    /\ Goto(s, pc[s], "releasing")
    /\ UNCHANGED <<profile, locks, work, collection, surroundings>>

-----------------------------------------------------------------------------
(***************************************************************************)
(* Deletion, the end of the process and its restart, and upstream.         *)
(***************************************************************************)

SoftDelete ==
    /\ up = "serving"
    /\ RowFree
    /\ ~profile.deleted
    /\ profile' = [profile EXCEPT !.deleted = TRUE]
    /\ deletion' = "deleted"
    /\ UNCHANGED <<locks, pc, work, collection, dead, up, crashes>>

EvictRegistries ==
    /\ deletion = "deleted"
    /\ deletion' = "purging"
    /\ cache' = {}
    /\ UNCHANGED <<profile, locks, pc, work, rows, dead, up, crashes>>

Purge ==
    /\ deletion = "purging"
    /\ deletion' = "idle"
    /\ rows' = {}
    /\ UNCHANGED <<profile, locks, pc, work, cache, dead, up, crashes>>

PurgeFails ==
    /\ "database" \in Interruptions
    /\ deletion = "purging"
    /\ deletion' = "idle"
    /\ UNCHANGED <<profile, locks, pc, work, collection, dead, up, crashes>>

\* Postgres rolls back and drops the session locks with the connections.
Crash ==
    /\ up # "down"
    /\ crashes < MaxCrashes
    /\ up' = "down"
    /\ crashes' = crashes + 1
    /\ advisory' = NoSync
    /\ rowLock' = NoSync
    /\ pc' = [s \in Syncs |-> "idle"]
    /\ work' = [s \in Syncs |-> Fresh]
    /\ cache' = {}
    /\ deletion' = "idle"
    /\ UNCHANGED <<profile, rows, dead>>

\* Mutant: startup without the purge sweep.
RestartUnswept ==
    /\ up = "down"
    /\ up' = "serving"
    /\ cache' = IF profile.deleted THEN {} ELSE {rows}
    /\ UNCHANGED <<profile, locks, pc, work, rows, deletion, dead, crashes>>

\* Mutant: the registries are loaded for deleted profiles too.
RestartServing ==
    /\ up = "down"
    /\ up' = "serving"
    /\ cache' = {rows}
    /\ rows' = IF profile.deleted THEN {} ELSE rows
    /\ UNCHANGED <<profile, locks, pc, work, deletion, dead, crashes>>

\* Before it serves anything the process loads the caches of the profiles
\* that are not deleted and purges those that are.  The row is not touched.
Restart ==
    /\ up = "down"
    /\ up' = "serving"
    /\ IF profile.deleted
         THEN /\ rows' = {}
              /\ UNCHANGED cache
         ELSE /\ cache' = {rows}
              /\ UNCHANGED rows
    /\ UNCHANGED <<profile, locks, pc, work, deletion, dead, crashes>>

\* The load of the snapshot fails: an empty one is registered and served.
RestartEmpty ==
    /\ "database" \in Interruptions
    /\ up = "down"
    /\ ~profile.deleted
    /\ up' = "serving"
    /\ cache' = {{}}
    /\ UNCHANGED <<profile, locks, pc, work, rows, deletion, dead, crashes>>

\* The probe, the list of profiles, the cadence or the purge fails: no request
\* reaches the database and no scheduler runs, but the start goes on, and what
\* did not fail has been done.
RestartDegraded ==
    /\ "database" \in Interruptions
    /\ up = "down"
    /\ up' = "degraded"
    /\ IF profile.deleted
         THEN /\ rows' \in {rows, {}}
              /\ UNCHANGED cache
         ELSE /\ cache' \in {{rows}, {{}}, {}}
              /\ UNCHANGED rows
    /\ UNCHANGED <<profile, locks, pc, work, deletion, dead, crashes>>

\* The owner revokes a token, or GRUVAX_SECRET_KEY no longer opens it.
TokenDies(t) ==
    /\ "revoke" \in Interruptions
    /\ dead' = dead \cup {t}
    /\ UNCHANGED <<profile, locks, pc, work, collection, deletion, up, crashes>>

SyncStep(s) ==
    \/ LoadPat(s)
    \/ RefusePat(s)
    \/ AcquireLock(s)
    \/ LockBusy(s)
    \/ MarkInProgress(s)
    \/ \E keys \in SUBSET Releases, copies \in 0..MaxDuplicates :
          Ingest(s, keys, copies)
    \/ \E fault \in Faults : FetchFails(s, fault)
    \/ LockProfileForSwap(s)
    \/ DeletedDuringSync(s)
    \/ CommitSwap(s)
    \/ ShrinkGuard(s)
    \/ RecordFailure(s)
    \/ ReadCaches(s)
    \/ PublishCaches(s)
    \/ RefreshEvicted(s)
    \/ RecordCancellation(s)
    \/ Release(s)

Interruption(s) ==
    \/ AbandonEarly(s)
    \/ Cancel(s)
    \/ DatabaseFails(s)
    \/ RecordingFails(s)
    \/ RefreshFails(s)

Next ==
    \/ \E s \in Syncs :
          \/ RequireProfile(s)
          \/ TriggerSync(s)
          \/ \E t \in Tokens : StorePat(s, t)
          \/ RefuseToken(s)
          \/ ScheduleSync(s)
          \/ SyncStep(s)
          \/ RecordRefusal(s)
          \/ Interruption(s)
    \/ SoftDelete
    \/ EvictRegistries
    \/ Purge
    \/ PurgeFails
    \/ Crash
    \/ Restart
    \/ RestartEmpty
    \/ RestartDegraded
    \/ \E t \in Tokens : TokenDies(t)

Spec == Init /\ [][Next]_vars

(***************************************************************************)
(* The event loop runs every ready task and every bounded wait ends: the   *)
(* client's retries are counted, Postgres grants row locks in turn (a      *)
(* refused sync competes for the row, hence strong fairness), the purge is *)
(* a background task of the response, the container is restarted.  Nothing *)
(* makes the owner, the scheduler or a failure act.                        *)
(***************************************************************************)
Fairness ==
    /\ \A s \in Syncs : WF_vars(SyncStep(s)) /\ SF_vars(RecordRefusal(s))
    /\ WF_vars(EvictRegistries)
    /\ WF_vars(Purge)
    /\ WF_vars(Restart \/ RestartEmpty \/ RestartDegraded)

FairSpec == Spec /\ Fairness
-----------------------------------------------------------------------------
(***************************************************************************)
(* Properties.                                                             *)
(***************************************************************************)

\* Two syncs never work on the profile at once, from the lock they take to
\* the caches they publish: sync_profile holds its advisory lock throughout.
OneSyncAtATime ==
    \A s, t \in Syncs : pc[s] \in Holding /\ pc[t] \in Holding => s = t

\* The count shown with the last successful sync is the number of records
\* stored, in every state of a profile that is not deleted: the swap, the
\* count and the status are one transaction of _swap_inside_tx.
CountMatchesCollection == ~profile.deleted => profile.items = Cardinality(rows)

\* A revoked token and a successful sync are never shown together, which
\* _profile_status in api/admin/profiles.py relies on (D4-07).
RevokedIsNeverOk == ~(profile.revoked /\ profile.status = "ok")

\* What the row says of the collection and of the token is true, whichever
\* sync, endpoint, purge or recorded failure wrote it last.
RowIsTrue == CountMatchesCollection /\ RevokedIsNeverOk

\* A committed success is never turned into a failure by the sync that
\* committed it, nor by a cancelled one: only a later sync that has staged
\* nothing replaces 'ok' by 'failed', because its token was refused before
\* any lock or because it could not even mark the row.
SuccessSurvives ==
    [][profile.status = "ok" /\ profile'.status = "failed"
         => \E s \in Syncs : /\ pc[s] \in {"refused", "failing"}
                             /\ pc'[s] # pc[s]
                             /\ work[s].raw = 0]_vars

\* Every release that was not stored before a swap is among the arrivals
\* that last_new_record_count reports for it.
ArrivalsCovered ==
    [][rows' # rows /\ ~profile'.deleted
         => profile'.arrivals >= Cardinality(rows' \ rows)]_vars

\* The collection stored and the collection served behave as
\* CollectionStore promises: replaced whole, never truncated, never after
\* deletion, evicted before purged, and published only as stored -- save by a
\* start that cannot read it, whose empty copy the next sync replaces.
Store == INSTANCE CollectionStore
           WITH stored <- rows, served <- cache, retired <- profile.deleted

StoreSpec == Store!Spec

\* The advisory lock never stays with one sync for ever.
LockReleased == \A s \in Syncs : advisory = s ~> advisory # s

\* Every row of a deleted profile is purged in the end, also when the process
\* ends between the delete and its background purge.
DeletedIsPurged == profile.deleted ~> rows = {}

\* What a swap committed is what the kiosk is served in the end, unless the
\* profile is deleted or a later swap replaces it: through evictions and a
\* restart that loads it (RestartEmpty serves nothing until the next sync).
CommittedIsServed ==
    \A s \in Syncs : pc[s] = "committed" ~> cache \in {{rows}, {}}

-----------------------------------------------------------------------------
(***************************************************************************)
(* What the comments of the code say and the code does not keep.           *)
(***************************************************************************)

\* api/admin/profile_sync.py and the SyncInProgress branch of sync_profile:
\* whoever finds the status in_progress finds a sync that will replace it.
InProgressHasOwner ==
    profile.status = "in_progress" /\ ~profile.deleted
      => \E s \in Syncs : pc[s] # "idle"

\* api/health.py: a sync that hangs is flipped to failed in the end.
HungSyncIsFlipped ==
    profile.status = "in_progress"
      ~> profile.status # "in_progress" \/ profile.deleted

\* api/admin/profile_sync.py: no write sets the status to null while a sync
\* is in flight.
NeverNullInFlight ==
    [][profile.status = "in_progress" /\ profile'.status = "null"
         => advisory = NoSync]_vars

\* _swap_inside_tx: a release that is stored already is never counted among
\* the genuinely new ones, so a swap that changes nothing reports none.
StoredIsNotNew ==
    [][\A s \in Syncs :
          pc[s] = "swapping" /\ pc'[s] = "committed" /\ rows' = rows
            => profile'.arrivals = 0]_vars
=============================================================================

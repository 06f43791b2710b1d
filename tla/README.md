# GRUVAX in TLA+

Models, model-checking runs and machine-checked proofs of the GRUVAX backend
(`src/gruvax`: Python, FastAPI on asyncio, one process, PostgreSQL at READ
COMMITTED).  Every definition is written from the code.  Where a comment or a
document says something else, section 6, "What the code does not keep", names
the disagreement and the instance that shows it.

Run `tlc -config ProfileSyncSafety.cfg MCProfileSync` for a model (each module
`M` is run through `MCM`), `tlapm ProfileSyncProofs.tla` for the proofs of a model:
`CacheCoherence`, `ProfileTokens`, `AdminAccess`, `KioskSession` (with
`DevicePairing`), `Highlights`, `BoundaryEditing` (with `Shelf`) and `Locate` (with
`Segments`) have such a module as well.

## 1. The system

GRUVAX tells a record collector in which shelf cube a record stands.  A kiosk
shows the answer and lights the cube; an admin edits the cut points between
cubes; the collection itself is copied from discogsography, once per *profile*.

| Part | State | Operations | Talks to |
|---|---|---|---|
| Profile synchronisation (`sync/profile_sync.py`, `api/admin/profile_sync.py`) | `profiles` row, `profile_collection` rows, one PostgreSQL advisory lock per profile | `sync_profile`: read the token, take the lock, mark, fetch, stage, swap, refresh the caches, release; `trigger_sync` | discogsography client, derived caches, event bus |
| Scheduler and purge (`sync/nightly.py`) | none of its own | nightly loop, catch-up at startup, purge of deleted profiles | `sync_profile`, `profile_collection` |
| Profile administration (`api/admin/profiles.py`) | `profiles` row, registry entries | create, rename, connect, rotate, soft delete (evict, then purge in the background) | registries, purge, sync |
| Process start and end (`app.py`) | registries on `app.state` | eager load, startup purge, 60 s refresh of the derived state | everything |
| Derived caches (`estimator/boundary_cache.py`, `collection_snapshot.py`, `segment_cache.py`, `api/admin/cache_rebuild.py`) | boundaries + overrides + generation, snapshot, segments; per profile, in memory | load, derive, publish | database, admin writers, sync |
| Boundary editing and history (`api/admin/cubes.py`, `segments.py`, `history.py`, `import_.py`, `db/queries.py`) | `cube_boundaries`, `segment_overrides`, `boundary_history`, `idempotency_keys` | put, bulk, cut, insert, overrides, import, revert | validation, caches, event bus |
| Validation and derivation (`api/admin/validation.py`, `estimator/segment_cache.py`) | none | proposed cuts, contiguity, order, cascade, override sums, derive | |
| Locate estimator (`estimator/algorithm.py` and others) | none | locate by segment, by index, by cube | caches |
| Event bus and stream (`events/bus.py`, `api/events.py`) | a bounded queue per subscriber | subscribe, publish, drop when full, unsubscribe | kiosk |
| Devices and pairing (`api/devices.py`, `api/admin/devices.py`, `api/deps.py`) | `devices`, `pairing_codes` | generate, sweep, bind, patch, revoke, reinstate, delete, resolve | event bus, profiles |
| Invite codes (`api/invite_codes.py`) | `profile_invite_codes` | generate, preflight, consume + store the token | profiles, sync |
| LED highlights (`mqtt/lifecycle.py`, `publishers.py`) | registry of timers, retained topics on the broker | illuminate, revert, evict the oldest, shut down | MQTT connection |
| MQTT connection (`mqtt/client.py`) | current client | supervise, reconnect, capture status | broker |
| Admin sessions and limits (`auth/`, `api/admin/login.py`, `limiter.py`) | `admin_sessions`, counters | login, refresh, logout, revoke others | |
| discogsography client (`discogsography/`) | a pinned snapshot | first page, pages, retries | upstream |
| Frontend (`frontend/`) | stores | reconnect, resync, idle | all endpoints |

The remaining parts (settings, export and parsing, read endpoints, command
line, pool and migrations, logging, token encryption) keep no state that several
actors fight over; `PROJECT.json` lists each with its reason.

### What is hard here

* **Interleaving at every `await`.**  The process is single-threaded, but a
  sync, an admin request, the scheduler, a purge and a timer interleave at each
  `await`, and PostgreSQL at READ COMMITTED only orders what a row lock orders.
* **State read before an `await` and used after it**: tokens, caches prepared
  off-registry, validation against a cache, an invite checked before an HTTP
  call, an MQTT client kept by a timer.
* **Partial failure and the end of the process** between a commit and what
  should follow it: a purge, a cache refresh, a terminal status.
* **Order of publication** against order of commit, for caches and events.
* **Limits**: bounded queues, a cap on highlights, a shrink guard, a namespace
  of 10 000 codes.

`PROJECT.json`, "hazards", names each at its line, with the properties that
cover it or the reason why none does.

### What makes each part correct

* Sync: one at a time per profile; the collection, its count and the status
  change together; a deleted profile is never repopulated; a committed success
  is not turned into a failure; the lock is always given back.
* Caches: what is served is what the database held at some moment after the
  last publication, and in the end what it holds.
* Boundary editing: no lost or half-applied change set; revert never silently
  overwrites; a retried request is applied once.
* Devices: no row on a deleted profile; a code is used up only by a binding; a
  revoked kiosk is served nothing.
* Kiosk: what it is told, shows and listens to is one profile; once paired and
  left alone on its page or on `/pair` it ends up showing its profile, whatever events it missed.
* Invites and tokens: an invite is consumed exactly when its token is stored; a
  replaced invite is dead; a rotation keeps to the user it found.
* Highlights: the registry knows exactly what is lit; nothing stays lit with
  nobody to clear it, unless a publication failed; the lock is always handed on.
* Sessions: an ended session stays ended, every session ends, every request is
  answered.
* Locate: every record is found in one cube, in the order of the shelf, and the
  segments of a cube fill it.

## 2. Plan

| # | Module | Composes | What it is held against | Status |
|---|---|---|---|---|
| 1 | `ProfileSync`, `CollectionStore` | sync, trigger, connect/rotate, delete, purge, restart | refines the abstract `CollectionStore` | modelled, checked, proved |
| 2 | `CacheCoherence` | admin writers and the sync refresh on one profile's caches | what is live never goes back behind what was read | modelled, checked, proved |
| 3 | `Shelf`, `BoundaryEditing` | edits, inserts, imports and reverts as transactions over cuts, history and idempotency keys | the history says what the cubes hold | modelled, checked, proved |
| 4 | `Segments`, `Locate` | the derivation and the estimator as operators, over `BoundaryEditing` and the widths | every record found once, in shelf order | modelled, checked, proved |
| 5 | `DevicePairing` | codes, bind, patch, revoke, reinstate, delete, profile deletion | one row decides what a kiosk is served | modelled, checked, proved |
| 6 | `KioskSession` | `DevicePairing` with the browse binding, the session answer, the event stream and the buses | the kiosk ends up showing its profile | modelled, checked, proved |
| 7 | `Highlights` | selections, timers, admin sweeps, reconnection, start and end of the process | nothing is lit without an owner | modelled, checked, proved |
| 8 | `ProfileTokens` | invites, connect, rotate, command line, deletion | an invite is used exactly when its token is stored | modelled, checked, proved |
| 9 | `AdminAccess` | sessions, PIN, settings | sessions end and stay ended | modelled, checked, proved |

Nothing of the plan is left: every safety and every action property that a run checks
is a theorem, and liveness stays with TLC (section 5).  The paging of the
discogsography client and the cadence of the nightly loop were considered and
left out: the first is sequential between a pinned snapshot and one typed
outcome, the second is arithmetic of the standard library's time zones.

## 3. Modules

### `ProfileSync` -- one profile, its syncs and everything beside them

A profile's lock, rows and registry entries belong to it alone, so one profile
is enough; the one cross-profile rule (a discogsography user belongs to one
profile) is an abstract refusal here and the subject of `ProfileTokens`.

| Variable | In the code |
|---|---|
| `profile` | the `gruvax.profiles` columns that syncs read or write; `token` is the encrypted token, `NoToken` the sentinel, `items` is `last_sync_item_count`, `arrivals` is `last_new_record_count` |
| `rows` | the keys (release_id, folder_id) of the profile in `profile_collection` |
| `advisory` | the session-level advisory lock taken on the sync's own connection |
| `rowLock` | the row lock `_lock_profile_for_swap` takes until the swap's transaction ends |
| `pc`, `work` | where each sync task is suspended, and its locals |
| `cache` | the collection in the registry entries, `{}` when the profile is evicted or the process is down |
| `deletion` | the soft-delete handler between its commit and its background purge |
| `dead` | tokens that discogsography rejects or that no longer decrypt |
| `up`, `crashes` | the process: down, serving, or `degraded`, serving without a database (`_degrade_database`) |

Each action is what a task does between two `await`s.  A transaction whose
statements cannot be told apart from outside is one action; the swap is two
(lock the row, commit) because a delete can wait on the row in between.  An
`UPDATE` of the row waits while a swap holds it (`RowFree`).  `Cancel`,
`DatabaseFails`, `RecordingFails`, `RefreshFails`, `AbandonEarly` and
`PurgeFails` are the code's error paths; the constant `Interruptions` switches
them on.  A start has three outcomes: all of it succeeds (`Restart`); the snapshot cannot be
loaded and an empty one is served (`RestartEmpty`, `app.py:275`); the probe, the list of profiles, the cadence or the purge
fails, and the process goes on without a database (`RestartDegraded`), with whatever the other
phases have loaded or purged, until it ends.  A database that fails later, in the catch-up sweep,
degrades a running process the same way; that one is left out.  Left out too: `allow_shrink`, which no caller passes; timestamps; the
initial-import flag; the wording of errors.

### `CollectionStore` -- what a collection cache promises

The abstract specification: a stored collection, a served copy, a retired flag.
The collection is replaced as a whole, never by a truncated one, never after
retirement; a retired copy is withdrawn before its collection is purged; what
is published is what is stored at that moment, except that a start which cannot
read may serve an empty copy of a live profile (`Start`).  `ProfileSync` implements it
with `stored <- rows, served <- cache, retired <- profile.deleted`.

### `CacheCoherence` -- the caches the kiosk is answered from

What `ProfileSync` folds into "the caches are read, the caches are published"
is taken apart here, with the other actors that publish: admin requests.

| Variable | In the code |
|---|---|
| `db` | `cube_boundaries`, `segment_overrides` and `profile_collection` of one profile, each as the number of commits it has seen |
| `live` | the contents of the profile's `BoundaryCache` and `CollectionSnapshot`, as the version each was read at, and `BoundaryCache.generation` |
| `bins` | the versions the `SegmentCache` was last derived from |
| `registered` | the registries hold the objects; they outlive their entries in the hands of a writer |
| `pc`, `local` | an admin request between `get_write_context`, its commit, the two SELECTs of `BoundaryCache.load` and the publication, and what it has read |
| `sync` | the same for `_refresh_profile_caches`, with the generation it read first |
| `missed` | the last rebuild failed |

A version stands for the contents of a table because publication and
derivation never look inside: they replace complete values.  Refreshes come one
at a time because a sync keeps the profile's advisory lock until its refresh is
over, which is `OneSyncAtATime` of `ProfileSync`.  Not told apart: which
endpoint writes (a request commits cuts, widths or both, and the rebuild is the
one function of `cache_rebuild.py`), and the events published after it.

### `Shelf`, `BoundaryEditing` -- edits of the cuts and their history

`Shelf` holds what the endpoints compute before they write: the contiguity
check as the edits use it (each touched unit on its own, untouched cuts merged
in) and as the import uses it (all units at once), the overflow check and the
cascade of an insert.  A cut is a label and a catalogue number; labels are
compared as they are, that is, after the code's case folding.  The position of
a cube in the order (unit, row, column) stands for its coordinates.

| Variable | In the code |
|---|---|
| `cuts` | `cube_boundaries` of the profile, as committed |
| `history` | `boundary_history`: the rows of each change set, those of open transactions included.  A change set is known by the start of its transaction, which is `changed_at` and stands for the `change_set_id` |
| `ids` | the last `id` of `boundary_history` that was given out; a rollback does not give it back |
| `committed` | transactions that have committed: whose rows others see |
| `keys` | `idempotency_keys`: the change set in the stored response, 0 for none |
| `told` | the change sets that requests with a key were answered with |
| `cache` | the cuts in the profile's `BoundaryCache` |
| `clock` | transactions started |
| `pc`, `work` | a request between its validation, its transaction and the rebuild: the updates still to make, its key and start, the change set it reverts |

Every statement of a transaction that another one can observe or wait for is a
step: the read of the cut to be replaced, the conflict check of a revert, the
UPDATE with its history row, the commit.  A cube whose UPDATE has run is locked
until the transaction ends, and a cycle of waits ends one of the transactions.
`Abort` is a statement that fails, or a cube of another unit layout, which the
code answers by raising inside the transaction.  The rebuild is one step here;
`CacheCoherence` takes it apart.

Left out: the check of a cut against the collection (a "phantom"), which only
narrows what is written; width overrides; the deletion of keys after 24 hours;
the import into a profile that has no rows yet; case and spelling of labels.

### `Segments`, `Locate` -- from cuts to the place of a record

`Segments` is pure: `Derive` is `SegmentCache.derive`, `Located` is
`locate_by_segment` with its fallback, `WidthsAccepted` the check of
`set_bin_overrides`.  A cube holds the records whose last cut by key is its own;
they make segments, one per label, whose widths are the set ones and a share of
the rest by count, or the set ones scaled to the cube.  Widths and bands are
whole numbers of the `Whole` cube, and a share is rounded down.  The code computes in
floating point and lets the widths of a cube miss it by 1e-6; in the runs `Whole` is
chosen so that the divisions of the instance come out exactly, and section 5 says what
is proved where they do not.  `Records` is fixed: what
a sync changes is `ProfileSync`'s and `CacheCoherence`'s matter.

`Locate` composes it with `BoundaryEditing`:

| Variable | In the code |
|---|---|
| those of `BoundaryEditing` | the cuts, their history and the requests that edit them |
| `widths`, `served` | `segment_overrides` as committed, and as the `BoundaryCache` has them |
| `bins` | the `SegmentCache`: for each cube, the segment of each of its labels |
| `resize` | each request that sets widths: checked on what is served, with the widths that the check accepted for its cube, committed, rebuilt |

Every rebuild, of an edit or of the widths, loads both tables and derives.  An import drops the
widths of the cubes it leaves empty and stores those of its file in the transaction of its cuts
(`StoreFileWidths`); no check looks at their sum.  The statements of a width request are one step.
`FoundOnce` holds on any shelf the endpoints accept, also one whose cuts
descend; the order of what is shown (`OrderIsShown`) is only promised for cuts in
order, where the code warns but derives.  `SetWidthsAreShown` and
`SegmentsFillTheCube` are two sides of one rule: the check refuses bodies whose
sum, with the widths it finds set, exceeds the cube, and the scaling of `derive` is
the second line of defence.  The check finds what is *served*: after a rebuild that failed,
beside a second width request, or where an import has stored widths of its own, what it
accepts is not what is loaded afterwards, and `derive` scales.  So `SetWidthsAreShown` promises
accepted widths unscaled only where the rebuild loads, for the labels that the cube had at the
check, the widths the check accepted; `SegmentsFillTheCube` promises the rest.  Left
out: the parsing of catalogue numbers into keys, the confidence of a band, the
key of a width request, the estimator by index (`algorithm.py`), which only tests call.

### `DevicePairing` -- which profile a kiosk is served

| Variable | In the code |
|---|---|
| `active` | the profiles whose `deleted_at` is NULL |
| `devices` | `gruvax.devices` in the order of `created_at`: fingerprint, profile, `revoked_at` |
| `codes` | `gruvax.pairing_codes`: live, expired or consumed |
| `req` | the open transactions: what each has read and the locks it holds |
| `print`, `issued` | each kiosk's fingerprint cookie; how many were issued |
| `changes` | bound on the admin's requests |

`bind_device` is four statements (lock the code and the profile, look for the
fingerprint's active row, for its revoked one, for the profile's; then update or
insert and commit); a patch reads the row and the profile before it writes; the
partial unique indexes of migration 0011 are guards of every write, and a write
that would break one ends its transaction.  The deletion of a profile waits for
the locks on its row.  `DeviceRow` is the ordering of
`_SELECT_DEVICE_FOR_RESOLUTION`.

### `KioskSession` -- what a kiosk shows

| Variable | In the code |
|---|---|
| those of `DevicePairing` | |
| `page` | where the kiosk is: its own page (`/`, `KioskView`), the picker (`/select`) or `/pair` |
| `browse` | the browse-binding cookie of `api/session.py` |
| `view` | the session in the page's store |
| `asked`, `answer` | a `GET /api/session` that has yet to be served, and the answer on its way |
| `stream` | its `EventSource`: admitted (fingerprint checked), open, refused or closed; the queue of its subscriber |
| `buses` | the profiles in `event_bus_registry` |

`Session` and `Resolve` are two functions of the code that must agree
(`get_session`, `resolve_profile_from_request`); the stream is admitted before it
subscribes, and an event published in between reaches nobody.  An event is put in a
queue with `put_nowait`: when the queue is full the *new* event is dropped (the
docstring of `bus.py`, line 36, says "drop-oldest").  A kiosk that hears
`device_revoked` on its profile's stream leaves its page whatever device was
meant; a refused `EventSource` is tried again only when the profile changes.

What makes the kiosk right all the same is that `KioskView` polls the session every five minutes
(`KioskView.tsx:198`).  Only that page does, and only it has a stream.  `/pair` polls the state of
the device every three seconds and goes to `/` once it is paired (`PollDevice`; its check of the
session when it is opened comes to the same).  `/select` asks once, when it is opened
(`ProfilePicker.tsx:23`: no interval, and no refetch on focus).  A kiosk comes to
`/select` by an answer without a profile, the switch button or the way back from `/pair`, and leaves
it by a choice, the button to `/pair`, an answer that says it is paired, or a reload.  So the promise of
`PairedShowsItsProfile` ends at the picker; section 6 says what happens there.  An answer taken on
the picker may or may not be put in the store, since the loading of a page does so and the picker
does not.  Left out: the four minutes for which an answer counts as fresh, the 2.5 seconds of the
notice before a revoked kiosk goes to `/pair`, the other pages.

### `Highlights` -- what the cubes show

| Variable | In the code |
|---|---|
| `shown` | the retained state of each cube at the broker: `Ambient`, `Off`, a selection, a sweep, or what the process before left (`Left`) |
| `lost` | the cubes whose last reversion failed or was given up: the publication failed, the process stopped without a client, the diagnostic that darkened them ended early, or the startup published nothing |
| `hl` | each selection: its task in `illuminate_with_lifecycle`, then its timer |
| `registry` | `HighlightRegistry`, oldest first |
| `lock` | `registry.lock`, an `asyncio.Lock`: its holder and those that wait, first come first served |
| `sweep` | all-off, diagnostic and the ambient publication at startup |
| `stop` | `cancel_and_revert_all` |
| `mqtt`, `clients`, `failed`, `connected` | the client that publishes go to, those before it, and where the supervisor is |

Every publish is a step, since each awaits the broker; a publish on a client that
is gone fails.  Cancelling a timer takes effect where the timer is suspended: in
its sleep, in the queue of the lock, or in the publish that reverts a cube.  Not
told apart: payloads, brightness, colours; command topics; the four-hour
expiry of retained messages.  The selections may be told to retain what is lit,
up to `MaxRetained`.

`publish_ambient` publishes nothing when the units cannot be listed, at startup and after a
diagnostic; and a diagnostic ends without it when the broker does not answer its subscription, or
the end of it, within the second of the client's time limit (`publishers.py:802`, `:814`), with the connection alive.

What the model shows besides its properties: a reconnection does not publish the
ambient state again, so a revert that fails on a stale client leaves its cube lit
(`lost`, section 6); a diagnostic that fails restores nothing; all-off and diagnostics take no
lock and overwrite what is lit; and with retained highlights on one cube, the timer
of the older turns the cube ambient while the newer is live (`lifecycle.py:275`),
which no comment excludes.

### `ProfileTokens` -- tokens, users and invites

| Variable | In the code |
|---|---|
| `profiles` | `gruvax.profiles`: absent, active or deleted; the token, by the user it is of; the `discogsography_user_id` |
| `invites` | `gruvax.profile_invite_codes`: profile, state, and (history) the prior invites its generation saw |
| `req` | what each request in flight has read |
| `changes` | bound on the requests |

Connect, rotate, `gruvax-set-pat` and a redemption each ask discogsography whose a
token is while no connection is held.  Then each looks for another active profile
of that user and stores; the unique index of migration 0009 decides when two do
so at once.  `generate_invite` voids the prior invites that it sees, once their rows are
free, and inserts its own in the same transaction.  Rate limits only refuse and are left out.  The command line tool
updates by id only, so it touches a deleted profile too; connect answers "connected"
also when its profile was deleted meanwhile.

### `AdminAccess` -- sessions, PIN and settings

| Variable | In the code |
|---|---|
| `sessions` | `gruvax.admin_sessions`: the time left until the idle expiry and until the hard cap, revoked or not |
| `req` | a request between its check, the slide of its session, and its handler; the setting rows or sessions it has locked |

`require_admin` reads the row on one connection and slides it on another, and the
handler works on a third: a logout, a change of PIN or an expiry may come between.
Whether a PIN is right, a limit is hit, and which policy the settings cache has are
left open.  `Tick` is time.  The settings are two keys, rows that a transaction
locks one after another: `PutSettings` in the order of `key_map`, `ImportSettings`
(`import_settings` in `api/admin/import_.py`) in the order of its file, which is any.
`file` and `next` of a request say which of the two it is and which key comes next.
Two imports, or one beside an update, can so come to wait for each other:
PostgreSQL ends the statement of one of them (`DeadlockVictim`), whose transaction is
rolled back and whose request is answered with an error.

## 4. Runs

| Run | Expect | What it shows |
|---|---|---|
| `sync_safety` | pass | one triggered and one scheduled sync, two tokens, two releases, a duplicate copy, cancellation, database failures, revoked tokens and one end of the process in any state, with a full or a degraded start after it: lock discipline, counts, status rules, refinement of `CollectionStore` |
| `sync_liveness` | pass | the lock is given back, a deleted profile is purged, a committed collection is served, with one crash |
| `cache_safety` | pass | two overlapping admin writers, a refresh, failing reads, a delete and a restart: segments match what is live, a refresh never puts back anything older nor leaves the swapped collection unserved, and a refresh that is made to prepare again ends |
| `cache_order` | violation | see section 6 |
| `edit_serial` | pass | three requests one after another over four cubes in two units, edits, inserts, imports, reverts and reverts of reverts, each possibly failing, at its rebuild too, or retried under its key: a key has one answer, a revert restores what was there and nothing newer; where the cache is current, an edit, an insert or an import keeps labels together, and an insert loses no cut |
| `edit_overlap` | pass | two requests over two cubes, interleaved at each statement, with deadlocks, failures and a shared key: the newest history row of a cube is what the cube holds, and no answer names a change set that was rolled back |
| `locate` | pass | from shelves of four cubes in two units that keep labels together, edits, inserts, imports that carry widths, and two width requests that are repeated and overlap, with rebuilds that fail: records are found once and in order, segments fill their cube, and a width request shows what its check accepted unless other widths or labels came between |
| `pairing` | pass | two admins' requests on two browsers, statement by statement, with expiring codes and a profile that is deleted: no row on a deleted profile, no code used up in vain, a revoked browser served nothing |
| `kiosk` | pass | a kiosk's pages, cookies and stream beside the admin, a visitor who chooses, switches, goes to `/pair` and back and reloads, a deleted profile and restarts: one profile at a time, and in the end the right one for a paired kiosk that is not left on `/select` |
| `leds` | pass | selections, timers, sweeps, reconnections, failing publishes, diagnostics and startups that end early, end of the process: exact registry, lock handed on, nothing lit or dark without an owner unless its reversion failed or was given up (of what a selection lit, only if a connection failed), one selection at a time |
| `invites` | pass | connect, rotate, command line, invites and deletion: a rotation keeps to the user it found, redemption all or nothing, replaced invites dead |
| `access` | pass | two sessions, two requests, time: ended sessions stay ended, a circle of requests that wait for each other's rows has an import in it, every session ends, every request is answered |

**Bounds.**  Two syncs are enough for mutual exclusion, for the loser of the
lock and for a trigger that arrives late; a third only repeats a role.  Two
releases give collections that grow, shrink, stay and are replaced, and with
two releases any loss trips the shrink guard (98 %), so both sides of it occur.
Two tokens give the rotation of a token under a running sync.  `MaxDuplicates`
= 1 is one copy owned twice.  The process ends once, at any step; the proofs
cover any number of ends.

For `CacheCoherence`, two writers give every overlap of one commit, read or
publication with another's, and two commits per table tell "older" from
"empty"; `MaxVersion` also bounds how often writers can force a refresh to
prepare again, so `RefreshEnds` says that it ends once no request is served any
more: nothing in the code bounds it.

For `BoundaryEditing`, two requests are enough for every race the code has (two
readers of one cut, a revert and an edit, two holders of one key, a cycle of two
row locks) and three transactions for an edit, its revert and the revert of that;
one cut and its absence tell the values of two cubes apart.  `Duplicates` lets a
bulk edit name a cube twice; it is off (section 6 says why).  `edit_serial` starts
from a full unit, which an insert shifts into the next, from a gap between two labels, and
from a label that is scattered already; a bulk edit of two cubes is in `edit_overlap`, as inserts
and imports give change sets of several rows.  What the code claims of an edit is only as good as
the cache that its check reads, as its comment says (WR-03, `segments.py:366`): without the premise
`cache = cuts` TLC refutes `EditsKeepTheShelf` on this instance, after a rebuild that failed.

For `Locate`, three cubes and the first of a second unit let an insert cascade past
a full cube and across units; three labels, with three, two and one record, two of them
under one catalogue number, give segments that share a cube, span cubes and stand
alone; `Whole` = 120 makes all divisions of the instance exact.  One transaction
follows each start because every shelf in order that keeps labels together is a start, and the
transaction puts cuts out of order; two width requests run beside it, each as often as it likes, with
a body that takes half a cube for one label and one that gives all of it to another, and the
import's file may set either.  Two are enough for a check that is overtaken; they are symmetric.

For `DevicePairing` two browsers, two profiles, two codes, two requests and two rows
give two codes of one kiosk bound at once, a profile taken from a revoked row, and a
fingerprint with an active and a revoked row; five requests of the admin make the
longest of these.  `KioskSession` keeps one kiosk, since the browsers only meet in the
tables, with a queue of one event, which is full after one, and three changes (requests of the admin, restarts, loads of the page); the visitor's other steps are not bounded.

For `Highlights` one cube is enough, as cubes only meet in the tasks, and a
selection that does not light it stands for one that lights others; three selections give one that holds the
lock, one that is evicted and one that waits; two clients give a stale one.
`ProfileTokens` has two profiles and users, for a collision, and three requests
and codes, for two that redeem while a third replaces their invite.  `AdminAccess`
has hard caps of one and two ticks and an idle time of one, which the cap cuts or not,
and two keys, the least that two transactions can lock in opposite orders.

Requests, codes, releases, tokens and tasks that nothing names are symmetric; runs
with liveness properties use no symmetry.

**Deadlock** is checked in `access`.  Elsewhere a request that nobody makes is a
legitimate end, and a deleted profile certainly is; `TasksAreTracked` and
`LockReleased` say that nobody waits for a lock for ever.

**Fairness.**  In `ProfileSync`, `Fairness` says that the event loop runs every task
that can run and that every bounded wait ends: the client bounds its retries
(`_HTTP_MAX_ATTEMPTS`, `_NETWORK_MAX_ATTEMPTS`) and each request by a timeout,
a row lock is granted when its holder ends, the background purge follows the
response, and the container restarts the process.  A refused sync competes
for the row with swaps, hence strong fairness for `RecordRefusal`.
`CacheCoherence` asks only that started rebuilds and refreshes go on.
`KioskSession` asks that the kiosk's page goes on polling its session, `/pair` the state of its
device, that a session asked for is answered unless the server stops, and that answers arrive;
nothing of the stream, the visitor or a page that only asks once.  `AdminAccess` asks that time passes and that requests are
served, strongly, since PostgreSQL grants a row lock in the order of waiting, and that a
deadlock that stays is found (`deadlock_timeout`).
Nothing makes the owner, the admin, the scheduler or a failure act.  The sync
liveness run switches the error paths off: with a purge that keeps failing nothing
promises a purge, and after a start that could not load the snapshot the kiosk is served
nothing until the next sync.

## 5. Proofs

`ProfileSyncProofs` proves, for any finite set of releases and any sets of
syncs and tokens (`SyncAssumption`):

* `TypeCorrect`, the type invariant, one step per action;
* `InvariantCorrect`, the inductive invariant `IInv`;
* `OneSyncCorrect` and `RowCorrect`: the safety invariants `OneSyncAtATime` and
  `RowIsTrue` (the count is the collection's; a revoked token and a successful sync
  are never shown together);
* `SuccessCorrect`, `ArrivalsCorrect`: the action properties;
* `ImplementsStore`: the refinement of `CollectionStore`.

None of the properties is inductive alone.  `OneSyncAtATime` needs that a task
at a holding step *is* the holder (`LockOwner`).  The refinement needs that a
swap owns the row of a profile that is not deleted (`SwapOwner`), that caches
prepared for a profile that is still registered equal the stored rows
(`PreparedIsStored`, which rests on the lock: no other sync can swap), and the
order of delete, evict, purge and restart (`DeletionInOrder`, `DownIsQuiet`: no task
runs in a process that is down or has no database).  A start is `Start` of the abstract
specification, or its `Purge`; nothing else serves an empty copy of a collection that is stored.
`SuccessSurvives` needs that a sync that has staged rows has a row that carries
its own mark (`NotYetOk`, `NothingStaged`); `ArrivalsCovered` that at least one
row is staged per key (`KeysCounted`).

`CacheCoherenceProofs` proves, for any number of writers, commits and restarts:
`TypeCorrect`; `BinsCorrect`; `RefreshCorrect`, that a refresh loses nothing: it
never publishes anything older than what is live and never ends with the collection
it swapped in unserved.  That follows from the invariant that no copy is ahead of its table (`Behind`) and that a
refresh whose generation is still the live one has read at least what is live, and a
collection at least as new as its own swap (`Covers`): a publication moves the
generation, and without one the tables only grow after what is live was read.
`SoloCorrect` adds: if there is at most one writer, the caches hold the tables
between requests.  Its invariant `Solo` carries what the writer has read across
the refreshes that publish meanwhile.

`ProfileTokensProofs` proves, for any profiles, users, invites and requests: the type
invariant, which needs no run besides; `RotationCorrect`, `RedemptionCorrect` and
`SupersededCorrect`, the three action properties.  What is read before an `await` has to hold
when it is used, so the invariant is about each request: it knows whose token it
stores, and the user a rotation has read is the profile's for as long as the rotation runs, as no way
of storing a token changes the user of a profile (`Informed`); past the consumption the row of its invite is its own and its
profile the one of the invite (`Invited`); a generation voids invites of its own profile, and
those it has found and leaves alone have been used since (`Voiding`); two requests
never hold one invite (`Apart`).  `Replaced` carries this past the commit of the
generation.  That a user has one active profile is no property
here: it is the unique index itself, a guard of the model.

`AdminAccessProofs` proves, for any sessions and requests, any idle lifetimes and
finitely many hard caps (`AccessAssumption`): the type invariant; `OverCorrect`, that a session that is over is never
valid again; `CapsCorrect`, that nothing moves the hard cap later, whatever policy
is in force; `OnlyImportsCorrect` (`OnlyImportsDeadlock`), that a deadlock on rows has an import in it.  A
request slides a row that it read earlier: the invariant says that the row is still there and that
what was computed is no later than its hard cap, also after time has passed.  For
`OnlyImportsDeadlock` it says that all but imports write keys in their order: among them, a request that is waited for has
a row already, so at most the last key is left to it, and whoever holds that one has nothing left
to wait for.  What PostgreSQL does with the circles that an import closes is in the run, not in a theorem.

`KioskSessionProofs` proves first about `DevicePairing` (the one fingerprint resolves by
its only active row): `RowsCorrect`, `ConsumedCorrect`, `RevokeCorrect`, from the
invariant that a bind holds its code and its profile, that two binds hold different
codes, that revocations are numbered in order (`Dated`), and that the partial
unique indexes hold.  Then the composition: every step of the kiosks, streams and buses
leaves the rows alone or only ends requests, so `PairingSurvives` carries the three over;
`OneProfileCorrect` needs besides that a stream is only open on the profile
in the store.

`HighlightsProofs` proves, for any cubes, selections, sweeps, clients and any cap: `TypeCorrect`,
`TrackedCorrect`, `StrandedCorrect`, `OneSelectionCorrect`.  The invariant
adds to `TasksAreTracked` what each step relies on: behind the task that stops the process
only timers wait, and a selection that is lit has made room (`Ranked`); and, for
each cube that shows anything, which task will revert it, unless it is lost (`Lit`).  A second
invariant (`Healthy`), of the first, says what `lost` excuses: while no connection has failed no
selection's cube is lost, whichever diagnostics failed.  The queues of
the registry and of the lock are sequences; lemmas state what appending, dequeuing and
removing an element keep.

`BoundaryEditingProofs` proves of any number of requests that overlap, fail, are rolled back or
killed in a deadlock: `TypeCorrect` and `LatestCorrect` (`LatestRowIsCurrent`).
The argument is the row lock.  The id of a history row is given out while its
transaction holds the cube, so of a cube that an open transaction has written, every
other row is committed and has a smaller id (`Alone`); hence at the commit
the rows of the transaction are the newest of their cubes and agree with the shelf (`Latest`).
`Begun` and `Logged` say whose the transactions and the rows are.

The last four theorems are about requests that are made one at a time, an assumption in
their statements (`\A a, b \in Admins : a = b`); section 6 shows that without it the
code does not keep them.  Requests still fail, lose their answers and are repeated.

* `OneAnswerCorrect`: the key of a request that has yet to commit has no answer, and
  what is told is what is stored (`Answered`).
* `RevertKeepsNewerCorrect`: the open transaction is the last one begun (`Recent`),
  later change sets have greater ids (`Ascending`), and every cube that a revert has written
  was last written by its target (`Reverting`).
* `RevertRestoresCorrect`, if in addition a bulk edit names no cube twice
  (`~Duplicates`): a change set has one row for a cube (`Once`, `PlanOnce`), what is recorded as
  replaced was on the shelf (`Fresh`), and so what a row replaced is what the row
  before it wrote (`Chain`), of whatever kind the two change sets are.
* `EditsKeepCorrect` (`EditsKeepTheShelf`): what was validated stays true of the shelf that the request
  is about to leave, the rows it has written and those still in its plan applied to the cuts
  (`Intact`).  The lemmas under it say what a list of rows makes of a shelf: the last row of a cube
  decides, a row may move from the front of the plan to the end of the log, a unit that no row
  touches stays contiguous, and a cascade is a shift by one cube up to the absorber.

`LocateProofs` proves, for any finite collection, any labels, cuts and widths, any number of
width requests with any bodies, any widths in imported files and any interleaving with the edits:

* `LocateInvariantCorrect`: what is served was derived from the cuts and the widths that the
  cache holds, and what the check of a width request accepted adds up to the cube or leaves a
  label to take the rest (`CheckFits`), whatever has become of the stored widths since;
* `FoundOnceCorrect`, `OrderIsShownCorrect`: lemmas about `Derive` on any shelf, contiguous or not.
  Of the cuts at or before a record there is one last by key, and by place among equals, so each
  record has at most one holder; records of a label between two of the same cube are in that cube
  too, so the ranks of a segment are those from `first` to `last`, and no two segments of a label
  overlap.  Bands follow from the monotony of the division and of the offsets;
* `NearlyFullCorrect`, `SegmentsFillCorrect`: a sum of shares `(x * n[i]) \div N` of numbers that
  sum to `N` is at most `x` and misses it by less than one for each, and is `x` where each division
  comes out.  So for every collection and every widths that may be set the segments never overfill a
  cube and fill it but for rounding; they fill it exactly (`SegmentsFillTheCube`) where `EvenWidths`
  holds, a condition on the instance that TLC finds true throughout the run `locate`.  The code's
  float shares miss by rounding as well, which is what its tolerance is for;
* `SetWidthsCorrect` (`SetWidthsAreShown`): where the rebuild loads what the check accepted, nothing
  is scaled.  The widths the request did not name are among what was accepted, so this is about
  widths set by others too.

Sums are folds, about which the provers know nothing.  `LocateProofs` proves what it needs of
`SumFunctionOnSet` (the sum over the empty set, over one element more, over disjoint sets, of
functions that agree or bound each other) from the definition of the fold, by induction over a
finite set.  Induction theorems that take a predicate cannot be used, so `SubsetInduction` states
the induction with a set, that of the subsets for which the claim holds: of the others a minimal one
would exist, the subset ordering of a finite set being well-founded.  The same lemma gives finite
sets of integers their greatest and least elements.

TLC checked each inductive invariant on the instance of its run before it was proved.

Only model-checked: liveness (`LockReleased`, `DeletedIsPurged`, `CommittedIsServed`, `RefreshEnds`,
`PairedShowsItsProfile`, `EverySessionEnds`, `EveryRequestIsAnswered`), since fairness
and ENABLED are out of the provers' reach.

## 6. What the code does not keep

* **`cache_order`** -- two overlapping admin writes rebuild in any order: the one
  that read before the other's commit may publish last, and the kiosk is
  answered from the older boundaries until the next write.  The refresh of a
  sync guards the same hazard with the generation; `rebuild_derived_caches`
  does not.  `SoloCorrect` is the other half: overlap is the only way.

The others have no run of their own.  The property is in the module, and TLC
refutes it on the instance named here.

| Property | Instance | What happens |
|---|---|---|
| `InProgressHasOwner` | `ProfileSync`, a triggered and a scheduled sync | `trigger_sync` writes `in_progress` before any lock is tried.  If the running sync has written its last status but still holds the lock, the triggered one loses the lock, writes nothing, and `in_progress` stays; the scheduler skips such rows, so only another trigger heals it |
| `HungSyncIsFlipped` | `ProfileSync`, one sync, one crash, under `FairSpec` | `health.py` relies on a watchdog that flips hung syncs; there is none, and a process that ends during a sync leaves `in_progress` |
| `NeverNullInFlight` | `ProfileSync`, two tokens | `connect` and `rotate` set the status to NULL while a sync is in flight, which the trigger's contract with its poller excludes |
| `StoredIsNotNew` | `ProfileSync`, one duplicate copy | a release owned twice counts as an arrival in every sync, although the comment says an already stored one is never counted |
| `NeverStranded` | `CacheCoherence`, one writer, failing reads, under `FairSpec` | a rebuild that fails after its commit leaves the caches stale until the next write, sync or restart; the event is published all the same |
| `RevertKeepsNewer` | `BoundaryEditing`, two requests | "newer" is decided by the start of a transaction, and before the row is locked: an edit that started first and committed last, or one that commits while the revert is about to write, is overwritten and not reported as skipped |
| `OneAnswerPerKey` | two requests, one key | the key is looked up before the transaction and stored at its end: both write, and each reports its own change set |
| `RevertRestores` | one request at a time, bulk edits of two rows (`MaxUpdates` 2), `Duplicates` | the revert of a bulk edit that names a cube twice skips the second row as newer (it is its own) and records as replaced a cut the cube did not hold: undoing the revert does not bring the edit back.  `RevertRestoresCorrect` is the other half |
| `StaysContiguous` | edits and reverts, three cubes | reverts are not checked for contiguity |
| `BadWidthsNeverCommitted` | `Locate`, one width request repeated, a rebuild that fails | the comment at `segments.py:541` says that the resulting widths are validated before the transaction, so that a bad state is never committed at all.  They are validated against the widths *served*: if the rebuild after `{a: 100%}` fails, `{b: 100%}` is accepted and both are stored, and `derive` shows each at half its width.  Two overlapping requests, or an import that carries widths, come to the same |
| `PairedLeavesPicker` | the instance of `kiosk` | the comment at `ProfilePicker.tsx:33` says that the picker can do nothing for a paired device and sends it to `/`, by the same rule as on a reload.  It asks for the session once and has no stream: a kiosk that fetched a code, went to `/select` and is bound there, or that was sent there by the deletion of its profile and is then given another, stays there, shows nothing and learns nothing until somebody touches it |
| `LitOnlyOffline` | the instance of `leds` | a timer keeps the client its selection was accepted with (`lifecycle.py:333`), and a reconnection publishes nothing: a cube whose highlight ends after a reconnection stays lit, with a client there and nobody to revert it, until another selection, a sweep or the four-hour expiry |
| `Reimportable` | edits, three cubes in two units | edits check a unit on its own, the import all units as one sequence: the export of an accepted shelf is refused |

Met while modelling, and stated by no property:

* the cut to be replaced is read before its row is locked: two overlapping edits of a
  cube record the same cut as replaced.  What is recorded as written is right all the
  same (`LatestCorrect`), and so is what is replaced if edits do not overlap (`Chain`);
* two binds of one fingerprint beside a revoke can leave it a revoked and an active
  row, which the comment in `admin/devices.py:347` excludes; the resolution prefers
  the active one;
* two invites generated at once leave a profile two open invites (D-09 asks for
  one): `SupersededIsDead` is what remains true, of invites the generation saw;
* a rotation that races a connect stores the token of another user than the one the
  profile is of (the docstring at `profiles.py:567` requires them to match): it read
  a profile of nobody.  `RotationMatches` is what remains true, of rotations that found a user.  Connect
  and redemption replace the token and keep the user id they find;
* an import of settings writes the rows of `update_settings` in the order of its file, not of
  `key_map` (`import_.py:806`): beside an update or another import it can be in a deadlock, and one of
  the two requests is answered with a server error after a rollback.  `OnlyImportsDeadlock` says that this is the
  only way, `EveryRequestIsAnswered` that nobody waits for ever;
* overlapping settings updates can leave the older read in the settings cache, and a
  failed refresh leaves it stale; a login under way during a change of PIN keeps its
  session; the slide of a request in flight can renew a session another request was
  refused for.

## 7. Not modelled

The paging and the retries of the discogsography client (its outcomes are taken);
the cadence of the scheduler (`next_fire_after`, over changes of clock); the
60-second refresh of the derived profile state; the deletion of idempotency keys
after a day; the import into a profile without rows; the check of a cut against the
collection; character-level parsing of catalogue numbers and of imported files;
payloads, brightness and command topics of the LEDs; rate limits, which only
refuse; the frontend but for a kiosk's session and stream.  Export, read endpoints,
logging, token encryption, pool and migrations keep no state that several actors
fight over; the constraints and indexes of the migrations are guards of the
modules that rely on them.

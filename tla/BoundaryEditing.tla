-------------------------- MODULE BoundaryEditing --------------------------
(***************************************************************************)
(* Boundary edits of one profile and their history: the transactions of    *)
(* api/admin/cubes.py, segments.py, import_.py and history.py over         *)
(* cube_boundaries, boundary_history and idempotency_keys, each statement  *)
(* a step, at READ COMMITTED.                                              *)
(*                                                                         *)
(* A transaction is known by its start, which is the changed_at of all its *)
(* history rows (DEFAULT now()) and stands for its change_set_id.  A row   *)
(* gets its id when it is inserted, not when it is committed, and the id   *)
(* is spent when the transaction rolls back (BIGSERIAL).                   *)
(***************************************************************************)
EXTENDS Shelf

CONSTANTS
    Seeds,          \* shelves as seeded or set up before any history
    Admins,         \* requests in progress
    Keys, NoKey,    \* Idempotency-Key headers
    Faults,         \* a statement or a rebuild may fail
    Kinds,          \* bound: kinds of request that are made
    Files,          \* bound: files that are imported
    MaxUpdates,     \* bound: length of a bulk edit
    Duplicates,     \* bulk edits may name a cube twice
    MaxSets         \* bound: transactions

ASSUME EditingAssumption ==
    /\ Seeds \subseteq Shelves
    /\ Files \subseteq Shelves
    /\ NoKey \notin Keys
    /\ Faults \in BOOLEAN
    /\ Duplicates \in BOOLEAN
    /\ MaxUpdates \in Nat
    /\ MaxSets \in Nat

VARIABLES
    cuts,       \* cube_boundaries, as committed
    history,    \* boundary_history by change set, those of open transactions too
    ids,        \* the last id of boundary_history that was given out
    committed,  \* transactions that have committed
    keys,       \* idempotency_keys: the change set stored for a key, or 0
    told,       \* change sets that requests with a key were answered with
    cache,      \* BoundaryCache of the profile
    clock,      \* transactions started
    pc,         \* where each request is
    work        \* its locals

vars == <<cuts, history, ids, committed, keys, told, cache, clock, pc, work>>

Updates == [cube : Cubes, new : Cuts \union {NoCut}, prev : Cuts \union {NoCut}]

HistoryRows ==
    [id : Nat, cube : Cubes, new : Cuts \union {NoCut}, prev : Cuts \union {NoCut}]

NoWork == [kind |-> "none", plan |-> <<>>, key |-> NoKey, at |-> 0, target |-> 0]

\* No key is answered with a change set that is not committed, and no history
\* row outlives its transaction: rows and keys are written by the transaction.
TypeOK ==
    /\ cuts \in Shelves
    /\ history \in [1..MaxSets -> Seq(HistoryRows)]
    /\ ids \in Nat
    /\ committed \subseteq 1..clock
    /\ keys \in [Keys -> committed \union {0}]
    /\ told \in [Keys -> SUBSET committed]
    /\ cache \in Shelves
    /\ clock \in 0..MaxSets
    /\ pc \in [Admins -> {"idle", "planned", "reading", "writing", "committed"}]
    /\ work \in [Admins ->
          [kind : {"none", "edit", "insert", "import", "revert"},
           plan : Seq(Updates), key : Keys \union {NoKey},
           at : 0..clock, target : committed \union {0}]]
    /\ \A a \in Admins :
          /\ pc[a] = "idle" => work[a] = NoWork
          /\ pc[a] = "writing" => work[a].plan # <<>>
    /\ \A set \in 1..MaxSets :
          history[set] # <<>> => set \in committed \union {work[a].at : a \in Admins}

Empty == [c \in Cubes |-> NoCut]

Init ==
    /\ cuts \in Seeds
    /\ history = [set \in 1..MaxSets |-> <<>>]
    /\ ids = 0
    /\ committed = {}
    /\ keys = [k \in Keys |-> 0]
    /\ told = [k \in Keys |-> {}]
    /\ cache = cuts
    /\ clock = 0
    /\ pc = [a \in Admins |-> "idle"]
    /\ work = [a \in Admins |-> NoWork]

Goto(a, from, to) ==
    /\ pc[a] = from
    /\ pc' = [pc EXCEPT ![a] = to]

-----------------------------------------------------------------------------
(***************************************************************************)
(* Requests before their transaction.                                      *)
(***************************************************************************)

\* check_idempotency
NotSeen(key) == key # NoKey => keys[key] = 0

\* The key was stored: the stored response, nothing is written.
Replay(a, key) ==
    /\ pc[a] = "idle"
    /\ keys[key] # 0
    /\ told' = [told EXCEPT ![key] = @ \union {keys[key]}]
    /\ UNCHANGED <<cuts, history, ids, committed, keys, cache, clock, pc, work>>

Validated(a, kind, updates, key) ==
    /\ Goto(a, "idle", "planned")
    /\ kind \in Kinds
    /\ work' = [work EXCEPT ![a] =
                 [NoWork EXCEPT !.kind = kind, !.key = key,
                    !.plan = [i \in DOMAIN updates |->
                                [cube |-> updates[i].cube, new |-> updates[i].new,
                                 prev |-> NoCut]]]]
    /\ UNCHANGED <<cuts, history, ids, committed, keys, told, cache, clock>>

\* Mutant: the merge over the untouched cuts is left out.
PlanEditUnmerged(a, updates, key) ==
    /\ NotSeen(key)
    /\ Accepted(Empty, updates)
    /\ Validated(a, "edit", updates, key)

\* Mutant: the stored keys are not looked up.
PlanEditUnchecked(a, updates, key) ==
    /\ Accepted(cache, updates)
    /\ Validated(a, "edit", updates, key)

\* put_cube_boundary, put_bin_cut, bulk_write_cubes.
PlanEdit(a, updates, key) ==
    /\ NotSeen(key)
    /\ Accepted(cache, updates)
    /\ Validated(a, "edit", updates, key)

\* insert_cut after a cube, or at the head of the shelf (after = 0).
PlanInsert(a, after, cut) ==
    /\ HasRoom(cache, after)
    /\ cache[IF after = 0 THEN 1 ELSE after] # cut
    /\ LET cascade == Cascade(cache, after, cut)
       IN /\ Accepted(cache, cascade)
          /\ Validated(a, "insert", cascade, NoKey)

\* import_boundaries: every cube is written, those absent from the file as
\* empty ones.
PlanImport(a, file, key) ==
    /\ "import" \in Kinds
    /\ NotSeen(key)
    /\ ImportAccepted(file)
    /\ Validated(a, "import", [c \in Cubes |-> [cube |-> c, new |-> file[c]]], key)

\* fetch_change_set_rows, in the order of their ids.
RowsOfSet(target) == IF target \in committed THEN history[target] ELSE <<>>

\* Mutant: the new_ columns are restored.
PlanRevertToNew(a, target) ==
    LET set == RowsOfSet(target)
    IN /\ "revert" \in Kinds
       /\ set # <<>>
       /\ Goto(a, "idle", "planned")
       /\ work' = [work EXCEPT ![a] =
                    [NoWork EXCEPT !.kind = "revert", !.target = target,
                       !.plan = [i \in DOMAIN set |->
                          [cube |-> set[i].cube, new |-> set[i].new,
                           prev |-> set[i].prev]]]]
       /\ UNCHANGED <<cuts, history, ids, committed, keys, told, cache, clock>>

\* revert_change_set reads the rows of the change set by id; what each one
\* replaced is restored, and what it wrote is recorded as replaced.
PlanRevert(a, target) ==
    LET set == RowsOfSet(target)
    IN /\ "revert" \in Kinds
       /\ set # <<>>
       /\ Goto(a, "idle", "planned")
       /\ work' = [work EXCEPT ![a] =
                    [NoWork EXCEPT !.kind = "revert", !.target = target,
                       !.plan = [i \in DOMAIN set |->
                          [cube |-> set[i].cube, new |-> set[i].prev,
                           prev |-> set[i].new]]]]
       /\ UNCHANGED <<cuts, history, ids, committed, keys, told, cache, clock>>

-----------------------------------------------------------------------------
(***************************************************************************)
(* The transaction.                                                        *)
(***************************************************************************)

\* The rows a transaction has written.
Own(a) == history[work[a].at]

\* What a statement of the transaction sees of a cube.
Seen(a, c) == Applied(cuts, Own(a))[c]

\* The cubes whose rows it has updated, and whose locks it keeps.
Locked(a) ==
    IF pc[a] \in {"reading", "writing"}
      THEN {Own(a)[i].cube : i \in DOMAIN Own(a)}
      ELSE {}

Waits(a, b) == pc[a] = "writing" /\ Head(work[a].plan).cube \in Locked(b)

\* ROLLBACK
RolledBack(a) ==
    [set \in 1..MaxSets |-> IF set = work[a].at THEN <<>> ELSE history[set]]

\* now() is the start of the transaction.
Begin(a) ==
    /\ clock < MaxSets
    /\ Goto(a, "planned", "reading")
    /\ clock' = clock + 1
    /\ work' = [work EXCEPT ![a].at = clock + 1]
    /\ UNCHANGED <<cuts, history, ids, committed, keys, told, cache>>

\* fetch_current_boundary
FetchCurrent(a) ==
    /\ Goto(a, "reading", "writing")
    /\ work[a].kind # "revert"
    /\ work[a].plan # <<>>
    /\ work' = [work EXCEPT ![a].plan[1].prev = Seen(a, work[a].plan[1].cube)]
    /\ UNCHANGED <<cuts, history, ids, committed, keys, told, cache, clock>>

\* The change set has a row for the cube.
Changes(set, cube) == \E i \in DOMAIN history[set] : history[set][i].cube = cube

\* Mutant: only rows of the same transaction are conflicts.
OwnNewer(a) ==
    Changes(work[a].at, Head(work[a].plan).cube)

\* has_newer_changes, which sees the rows of its own transaction too.
HasNewer(a) ==
    \E set \in committed \union {work[a].at} :
        set > work[a].target /\ Changes(set, Head(work[a].plan).cube)

Restorable(a) ==
    /\ Goto(a, "reading", "writing")
    /\ work[a].kind = "revert"
    /\ work[a].plan # <<>>
    /\ ~HasNewer(a)
    /\ UNCHANGED <<cuts, history, ids, committed, keys, told, cache, clock, work>>

\* The cube is reported as skipped.
Skip(a) ==
    /\ pc[a] = "reading"
    /\ work[a].kind = "revert"
    /\ work[a].plan # <<>>
    /\ HasNewer(a)
    /\ work' = [work EXCEPT ![a].plan = Tail(@)]
    /\ UNCHANGED <<cuts, history, ids, committed, keys, told, cache, clock, pc>>

\* Mutant: the cube's row is not locked.
WriteUnlocked(a) ==
    /\ Goto(a, "writing", "reading")
    /\ LET update == Head(work[a].plan)
       IN history' = [history EXCEPT ![work[a].at] =
                        Append(@, [id |-> ids + 1, cube |-> update.cube,
                                   new |-> update.new, prev |-> update.prev])]
    /\ ids' = ids + 1
    /\ work' = [work EXCEPT ![a].plan = Tail(@)]
    /\ UNCHANGED <<cuts, committed, keys, told, cache, clock>>

\* write_boundary waits for the cube's row lock; write_history_row follows.
Write(a) ==
    /\ Goto(a, "writing", "reading")
    /\ \A b \in Admins \ {a} : ~Waits(a, b)
    /\ LET update == Head(work[a].plan)
       IN history' = [history EXCEPT ![work[a].at] =
                        Append(@, [id |-> ids + 1, cube |-> update.cube,
                                   new |-> update.new, prev |-> update.prev])]
    /\ ids' = ids + 1
    /\ work' = [work EXCEPT ![a].plan = Tail(@)]
    /\ UNCHANGED <<cuts, committed, keys, told, cache, clock>>

\* store_idempotency keeps the first response stored for a key.
Stored(a) ==
    LET key == work[a].key
    IN IF key # NoKey /\ NotSeen(key)
         THEN [keys EXCEPT ![key] = work[a].at]
         ELSE keys

\* A revert that restored nothing ends here, every other request rebuilds.
Commit(a) ==
    /\ pc[a] = "reading"
    /\ work[a].plan = <<>>
    /\ cuts' = Applied(cuts, Own(a))
    /\ committed' = committed \union {work[a].at}
    /\ keys' = Stored(a)
    /\ IF Own(a) = <<>>
         THEN /\ pc' = [pc EXCEPT ![a] = "idle"]
              /\ work' = [work EXCEPT ![a] = NoWork]
         ELSE /\ pc' = [pc EXCEPT ![a] = "committed"]
              /\ UNCHANGED work
    /\ UNCHANGED <<history, ids, told, cache, clock>>

\* Mutant: the key is stored by a transaction that the writes are not in.
AbortKeyStored(a) ==
    /\ Faults
    /\ pc[a] \in {"planned", "reading", "writing"}
    /\ pc' = [pc EXCEPT ![a] = "idle"]
    /\ work' = [work EXCEPT ![a] = NoWork]
    /\ history' = RolledBack(a)
    /\ keys' = Stored(a)
    /\ UNCHANGED <<cuts, ids, committed, told, cache, clock>>

\* A statement fails or a cube does not exist: the transaction rolls back.
Abort(a) ==
    /\ Faults
    /\ pc[a] \in {"planned", "reading", "writing"}
    /\ pc' = [pc EXCEPT ![a] = "idle"]
    /\ work' = [work EXCEPT ![a] = NoWork]
    /\ history' = RolledBack(a)
    /\ UNCHANGED <<cuts, ids, committed, keys, told, cache, clock>>

\* PostgreSQL ends one of two transactions that wait for each other.
DeadlockVictim(a) ==
    /\ \E b \in Admins : Waits(a, b) /\ Waits(b, a)
    /\ pc' = [pc EXCEPT ![a] = "idle"]
    /\ work' = [work EXCEPT ![a] = NoWork]
    /\ history' = RolledBack(a)
    /\ UNCHANGED <<cuts, ids, committed, keys, told, cache, clock>>

\* rebuild_derived_caches in one step (CacheCoherence takes it apart); the
\* response names the request's own change set.
Rebuild(a) ==
    /\ Goto(a, "committed", "idle")
    /\ cache' = cuts
    /\ told' = [k \in Keys |-> IF k = work[a].key THEN told[k] \union {work[a].at}
                               ELSE told[k]]
    /\ work' = [work EXCEPT ![a] = NoWork]
    /\ UNCHANGED <<cuts, history, ids, committed, keys, clock>>

\* The request ends in an error although its transaction is committed.
RebuildFails(a) ==
    /\ Faults
    /\ Goto(a, "committed", "idle")
    /\ work' = [work EXCEPT ![a] = NoWork]
    /\ UNCHANGED <<cuts, history, ids, committed, keys, told, cache, clock>>

-----------------------------------------------------------------------------
\* Bodies of bulk requests.
UpdateLists ==
    {updates \in UNION {[1..n -> [cube : Cubes, new : Cuts \union {NoCut}]] :
                          n \in 1..MaxUpdates} :
        Duplicates \/ \A i, j \in DOMAIN updates :
                         updates[i].cube = updates[j].cube => i = j}

Plan(a) ==
    /\ clock < MaxSets
    /\ \/ \E updates \in UpdateLists, key \in Keys \union {NoKey} :
             PlanEdit(a, updates, key)
       \/ \E after \in 0..Size, cut \in Cuts : PlanInsert(a, after, cut)
       \/ \E file \in Files, key \in Keys \union {NoKey} :
             PlanImport(a, file, key)
       \/ \E target \in 1..MaxSets : PlanRevert(a, target)

\* The steps of a request up to its rebuild.
Transact(a) ==
    \/ \E key \in Keys : Replay(a, key)
    \/ Plan(a)
    \/ Begin(a)
    \/ FetchCurrent(a)
    \/ Restorable(a)
    \/ Skip(a)
    \/ Write(a)
    \/ Commit(a)
    \/ Abort(a)
    \/ DeadlockVictim(a)
    \/ RebuildFails(a)

Next == \E a \in Admins : Transact(a) \/ Rebuild(a)

Spec == Init /\ [][Next]_vars

-----------------------------------------------------------------------------
(***************************************************************************)
(* Properties.                                                             *)
(***************************************************************************)

\* What change sets have recorded of a cube.
RowsOf(c, sets) ==
    UNION {{history[set][i] : i \in {j \in DOMAIN history[set] : history[set][j].cube = c}} :
             set \in sets}

Newest(row, rows) == \A other \in rows : other.id <= row.id
Oldest(row, rows) == \A other \in rows : other.id >= row.id

Commits(a) == committed' # committed /\ committed' = committed \union {work[a].at}

\* The newest history row of a cube holds the cube's current cut, whatever
\* transactions overlap: the audit trail is complete (boundary_history).
LatestRowIsCurrent ==
    \A c \in Cubes : \A row \in RowsOf(c, committed) :
        Newest(row, RowsOf(c, committed)) => row.new = cuts[c]

\* A revert changes a cube only if the change set it reverts was the last to
\* write it (has_newer_changes, "no silent clobber").
RevertKeepsNewer ==
    [][\A a \in Admins : Commits(a) /\ work[a].kind = "revert" =>
          \A c \in Cubes : cuts'[c] # cuts[c] =>
             \E row \in RowsOf(c, {work[a].target}) :
                Newest(row, RowsOf(c, committed))]_vars

\* A cube that a revert restores gets the cut it had before the change set,
\* which may itself have been a revert: every change set can be undone.
RevertRestores ==
    [][\A a \in Admins : Commits(a) /\ work[a].kind = "revert" =>
          \A c \in {Own(a)[i].cube : i \in DOMAIN Own(a)} :
             LET rows == RowsOf(c, committed)
                 older == RowsOf(c, {set \in committed : set < work[a].target})
             IN IF older = {}
                  THEN \E row \in rows : Oldest(row, rows) /\ cuts'[c] = row.prev
                  ELSE \E row \in older : Newest(row, older) /\ cuts'[c] = row.new]_vars

\* Requests that carry the same key are answered with the same change set.
OneAnswerPerKey ==
    \A k \in Keys : \A s, t \in told[k] : s = t

\* A shelf has one cut more than another, and the other cuts are in order.
OneCutMore(before, after) ==
    \E new \in CutBearing(after) :
       \E moved \in [CutBearing(before) -> CutBearing(after) \ {new}] :
          /\ \A e \in CutBearing(after) \ {new} :
                \E c \in CutBearing(before) : moved[c] = e
          /\ \A c \in CutBearing(before) :
                /\ after[moved[c]] = before[c]
                /\ \A d \in CutBearing(before) : c < d => moved[c] < moved[d]

\* Committing an edit, an insert or an import leaves every label contiguous
\* in a unit where it was so before (SEG-05), and inserting a cut keeps every
\* other cut, in order, across units, if the cache that they were checked
\* against was current (WR-03), as it is until a rebuild fails.
EditsKeepTheShelf ==
    [][\A a \in Admins : Commits(a) /\ work[a].kind # "revert" /\ cache = cuts =>
          /\ UnitsContiguous(cuts, Units) => UnitsContiguous(cuts', Units)
          /\ work[a].kind = "insert" => OneCutMore(cuts, cuts')]_vars

\* No label is scattered over a unit, whatever has been reverted.
StaysContiguous == UnitsContiguous(cuts, Units)

\* What is on the shelf could be imported again.  import_.py: export and
\* import again is the identity.
Reimportable == StaysContiguous => ImportAccepted(cuts)
=============================================================================

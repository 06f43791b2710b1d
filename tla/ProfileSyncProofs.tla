-------------------------- MODULE ProfileSyncProofs --------------------------
(***************************************************************************)
(* Theorems of ProfileSync for any number of syncs, releases and tokens.   *)
(***************************************************************************)
EXTENDS ProfileSync, FiniteSetTheorems, TLAPS

\* The number of records of a collection is a natural number.
LEMMA CollectionSize ==
    ASSUME NEW c \in SUBSET Releases
    PROVE  Cardinality(c) \in Nat
<1>1. IsFiniteSet(c)
  BY SyncAssumption, FS_Subset
<1>2. QED
  BY <1>1, FS_CardinalityType

\* Arrivals never goes below zero, whatever was staged.
LEMMA ArrivalsType ==
    ASSUME TypeOK, NEW s \in Syncs
    PROVE  Arrivals(s) \in Nat
<1>1. work[s].raw \in Nat /\ rows \cap work[s].keys \in SUBSET Releases
  BY DEF TypeOK, Frame
<1>2. Cardinality(rows \cap work[s].keys) \in Nat
  BY <1>1, CollectionSize
<1>3. QED
  BY <1>1, <1>2 DEF Arrivals

\* A task that moves to a step stays among the steps.
LEMMA MoveType ==
    ASSUME TypeOK, NEW s \in Syncs, NEW from \in Steps, NEW to \in Steps,
           Goto(s, from, to)
    PROVE  pc' \in [Syncs -> Steps]
BY DEF TypeOK, Goto

LEMMA FreshType == Fresh \in Frame
BY DEF Fresh, Frame, Faults

\* A task that returns leaves an empty frame at the idle step.
LEMMA ReturnType ==
    ASSUME TypeOK, NEW s \in Syncs, NEW from \in Steps, Return(s, from)
    PROVE  pc' \in [Syncs -> Steps] /\ work' \in [Syncs -> Frame]
<1>1. "idle" \in Steps
  BY DEF Steps
<1>2. QED
  BY <1>1, FreshType, MoveType DEF Return, TypeOK

\* What a task stages leaves its frame a frame.
LEMMA StagedType ==
    ASSUME NEW f \in [Syncs -> Frame], NEW s \in Syncs,
           NEW keys \in SUBSET Releases, NEW n \in Nat
    PROVE  [f EXCEPT ![s].keys = keys, ![s].raw = n] \in [Syncs -> Frame]
<1>1. [f[s] EXCEPT !.keys = keys, !.raw = n] \in Frame
  BY DEF Frame
<1>2. QED
  BY <1>1

LEMMA StepNames ==
    /\ Steps = {"locked", "fetching", "staged", "swapping", "committed",
                "prepared", "failing", "cancelled", "releasing", "idle",
                "accepted", "queued", "loaded", "refused"}
BY DEF Steps, Holding

\* Every value an UPDATE gives the profiles row is a row.
LEMMA RowType ==
    ASSUME TypeOK
    PROVE  /\ profile \in ProfileRow
           /\ Marked \in ProfileRow
           /\ \A fault \in Faults : Failed(fault) \in ProfileRow
           /\ \A row \in ProfileRow : IfActive(row) \in ProfileRow
<1>1. profile \in ProfileRow
  BY DEF TypeOK
<1>2. Marked \in ProfileRow
  BY <1>1 DEF ProfileRow, Marked
<1>3. ASSUME NEW fault \in Faults PROVE Failed(fault) \in ProfileRow
  <2>1. (profile.revoked \/ fault = "pat_rejected") \in BOOLEAN
    OBVIOUS
  <2>2. QED
    BY <1>1, <2>1 DEF ProfileRow, Failed
<1>4. ASSUME NEW row \in ProfileRow PROVE IfActive(row) \in ProfileRow
  BY <1>1 DEF IfActive
<1>5. QED
  BY <1>1, <1>2, <1>3, <1>4

\* Every step keeps the types, action by action.
LEMMA TypeStep ==
    ASSUME TypeOK, [Next]_vars
    PROVE  TypeOK'
<1> USE StepNames DEF locks, collection, surroundings
<1>1. ASSUME NEW s \in Syncs, RequireProfile(s)
       PROVE  TypeOK'
  BY <1>1 DEF TypeOK, RequireProfile, Goto
<1>2. ASSUME NEW s \in Syncs, TriggerSync(s)
       PROVE  TypeOK'
  BY <1>2, RowType DEF TypeOK, TriggerSync, Goto
<1>3. ASSUME NEW s \in Syncs, NEW t \in Tokens, StorePat(s, t)
       PROVE  TypeOK'
  <2>1. [profile EXCEPT !.token = t, !.revoked = FALSE, !.status = "null",
                        !.error = "none"] \in ProfileRow
    BY RowType DEF ProfileRow
  <2>2. QED
    BY <1>3, <2>1, RowType DEF TypeOK, StorePat, Goto
<1>4. ASSUME NEW s \in Syncs, RefuseToken(s)
       PROVE  TypeOK'
  BY <1>4 DEF TypeOK, RefuseToken, Goto
<1>5. ASSUME NEW s \in Syncs, ScheduleSync(s)
       PROVE  TypeOK'
  BY <1>5 DEF TypeOK, ScheduleSync, Goto
<1>6. ASSUME NEW s \in Syncs, LoadPat(s)
       PROVE  TypeOK'
  <2>1. work' \in [Syncs -> Frame]
    BY <1>6 DEF TypeOK, LoadPat, Frame, ProfileRow
  <2>2. QED
    BY <1>6, <2>1 DEF TypeOK, LoadPat, Goto
<1>7. ASSUME NEW s \in Syncs, RefusePat(s)
       PROVE  TypeOK'
  BY <1>7 DEF TypeOK, RefusePat, Goto
<1>8. ASSUME NEW s \in Syncs, RecordRefusal(s)
       PROVE  TypeOK'
  <2>1. IfActive(Failed("pat_rejected")) \in ProfileRow
    BY RowType DEF Faults
  <2>2. QED
    BY <1>8, <2>1, ReturnType DEF TypeOK, RecordRefusal
<1>9. ASSUME NEW s \in Syncs, AcquireLock(s)
       PROVE  TypeOK'
  BY <1>9 DEF TypeOK, AcquireLock, Goto
<1>10. ASSUME NEW s \in Syncs, LockBusy(s)
       PROVE  TypeOK'
  BY <1>10, ReturnType DEF TypeOK, LockBusy
<1>11. ASSUME NEW s \in Syncs, MarkInProgress(s)
       PROVE  TypeOK'
  BY <1>11, RowType DEF TypeOK, MarkInProgress, Goto
<1>12. ASSUME NEW s \in Syncs, NEW keys \in SUBSET Releases,
              NEW copies \in 0..MaxDuplicates, Ingest(s, keys, copies)
       PROVE  TypeOK'
  <2>1. Cardinality(keys) + copies \in Nat
    BY CollectionSize
  <2>2. work' \in [Syncs -> Frame]
    BY <1>12, <2>1, StagedType DEF TypeOK, Ingest
  <2>3. QED
    BY <1>12, <2>2 DEF TypeOK, Ingest, Goto
<1>13. ASSUME NEW s \in Syncs, NEW fault \in Faults, FetchFails(s, fault)
       PROVE  TypeOK'
  <2>1. work' \in [Syncs -> Frame]
    BY <1>13 DEF TypeOK, FetchFails, Frame
  <2>2. QED
    BY <1>13, <2>1 DEF TypeOK, FetchFails, Goto
<1>14. ASSUME NEW s \in Syncs, LockProfileForSwap(s)
       PROVE  TypeOK'
  BY <1>14 DEF TypeOK, LockProfileForSwap, Goto
<1>15. ASSUME NEW s \in Syncs, DeletedDuringSync(s)
       PROVE  TypeOK'
  BY <1>15 DEF TypeOK, DeletedDuringSync, Goto
<1>16. ASSUME NEW s \in Syncs, CommitSwap(s)
       PROVE  TypeOK'
  <2>1. work[s].keys \in SUBSET Releases
    BY DEF TypeOK, Frame
  <2>2. Cardinality(work[s].keys) \in Nat /\ Arrivals(s) \in Nat
    BY <2>1, CollectionSize, ArrivalsType
  <2>3. profile' \in ProfileRow
    BY <1>16, <2>2, RowType DEF CommitSwap, ProfileRow
  <2>4. QED
    BY <1>16, <2>1, <2>3 DEF TypeOK, CommitSwap, Goto
<1>17. ASSUME NEW s \in Syncs, ShrinkGuard(s)
       PROVE  TypeOK'
  <2>1. work' \in [Syncs -> Frame]
    BY <1>17 DEF TypeOK, ShrinkGuard, Frame, Faults
  <2>2. QED
    BY <1>17, <2>1 DEF TypeOK, ShrinkGuard, Goto
<1>18. ASSUME NEW s \in Syncs, RecordFailure(s)
       PROVE  TypeOK'
  <2>1. work[s].fault \in Faults
    BY DEF TypeOK, Frame
  <2>2. QED
    BY <1>18, <2>1, RowType DEF TypeOK, RecordFailure, Goto
<1>19. ASSUME NEW s \in Syncs, ReadCaches(s)
       PROVE  TypeOK'
  <2>1. work' \in [Syncs -> Frame]
    BY <1>19 DEF TypeOK, ReadCaches, Frame
  <2>2. QED
    BY <1>19, <2>1 DEF TypeOK, ReadCaches, Goto
<1>20. ASSUME NEW s \in Syncs, PublishCaches(s)
       PROVE  TypeOK'
  <2>1. cache' \in Served
    BY <1>20 DEF TypeOK, PublishCaches, Frame, Served
  <2>2. QED
    BY <1>20, <2>1 DEF TypeOK, PublishCaches, Goto
<1>21. ASSUME NEW s \in Syncs, RefreshEvicted(s)
       PROVE  TypeOK'
  BY <1>21 DEF TypeOK, RefreshEvicted, Goto
<1>22. ASSUME NEW s \in Syncs, RecordCancellation(s)
       PROVE  TypeOK'
  <2>1. [profile EXCEPT !.status = "failed", !.error = "none"] \in ProfileRow
    BY RowType DEF ProfileRow
  <2>2. QED
    BY <1>22, <2>1, RowType DEF TypeOK, RecordCancellation, Goto
<1>23. ASSUME NEW s \in Syncs, Release(s)
       PROVE  TypeOK'
  BY <1>23, ReturnType DEF TypeOK, Release
<1>24. ASSUME NEW s \in Syncs, AbandonEarly(s)
       PROVE  TypeOK'
  <2>1. pc[s] \in Steps
    BY DEF TypeOK
  <2>2. QED
    BY <1>24, <2>1, ReturnType DEF TypeOK, AbandonEarly
<1>25. ASSUME NEW s \in Syncs, Cancel(s) \/ DatabaseFails(s)
       PROVE  TypeOK'
  BY <1>25 DEF TypeOK, Cancel, DatabaseFails, Unlocked,
               Goto
<1>26. ASSUME NEW s \in Syncs, RecordingFails(s) \/ RefreshFails(s)
       PROVE  TypeOK'
  BY <1>26 DEF TypeOK, RecordingFails, RefreshFails, Goto
<1>27. ASSUME SoftDelete
       PROVE  TypeOK'
  <2>1. profile' \in ProfileRow
    BY <1>27, RowType DEF SoftDelete, ProfileRow
  <2>2. QED
    BY <1>27, <2>1 DEF TypeOK, SoftDelete
<1>28. ASSUME EvictRegistries \/ Purge \/ PurgeFails
       PROVE  TypeOK'
  BY <1>28 DEF TypeOK, EvictRegistries, Purge, PurgeFails, Served
<1>29. ASSUME Crash
       PROVE  TypeOK'
  <2>1. crashes' \in 0..MaxCrashes
    BY <1>29, SyncAssumption DEF TypeOK, Crash
  <2>2. pc' \in [Syncs -> Steps] /\ work' \in [Syncs -> Frame]
    BY <1>29, FreshType DEF Crash, Steps
  <2>3. cache' \in Served
    BY <1>29 DEF Crash, Served
  <2>4. QED
    BY <1>29, <2>1, <2>2, <2>3 DEF TypeOK, Crash
<1>30. ASSUME Restart \/ RestartEmpty \/ RestartDegraded
       PROVE  TypeOK'
  <2>1. {} \in SUBSET Releases
    OBVIOUS
  <2>2. {{}} \in Served /\ {rows} \in Served /\ {} \in Served
    BY <2>1 DEF TypeOK, Served
  <2>3. cache' \in Served
    BY <1>30, <2>2 DEF TypeOK, Restart, RestartEmpty, RestartDegraded
  <2>4. rows' \in SUBSET Releases
    BY <1>30, <2>1 DEF TypeOK, Restart, RestartEmpty, RestartDegraded
  <2>5. QED
    BY <1>30, <2>3, <2>4 DEF TypeOK, Restart, RestartEmpty, RestartDegraded
<1>31. ASSUME NEW t \in Tokens, TokenDies(t)
       PROVE  TypeOK'
  BY <1>31 DEF TypeOK, TokenDies
<1>32. CASE UNCHANGED vars
  BY <1>32 DEF TypeOK, vars
<1>33. QED
  BY <1>1, <1>2, <1>3, <1>4, <1>5, <1>6, <1>7, <1>8, <1>9, <1>10,
     <1>11, <1>12, <1>13, <1>14, <1>15, <1>16, <1>17, <1>18, <1>19,
     <1>20, <1>21, <1>22, <1>23, <1>24, <1>25, <1>26, <1>27, <1>28,
     <1>29, <1>30, <1>31, <1>32
     DEF Next, SyncStep, Interruption

\* The fresh instance has the declared shape.
LEMMA TypeInit == Init => TypeOK
<1> SUFFICES ASSUME Init PROVE TypeOK
  OBVIOUS
<1>1. profile \in ProfileRow
  <2>1. /\ NoToken \in Tokens \cup {NoToken}
        /\ "none" \in Faults \cup {"none"}
        /\ 0 \in Nat
    OBVIOUS
  <2>2. QED
    BY <2>1 DEF Init, ProfileRow
<1>2. pc \in [Syncs -> Steps] /\ work \in [Syncs -> Frame]
  BY FreshType DEF Init, Steps
<1>3. {} \in SUBSET Releases
  OBVIOUS
<1>4. cache \in Served
  BY <1>3 DEF Init, Served
<1>5. crashes \in 0..MaxCrashes
  BY SyncAssumption DEF Init
<1>6. QED
  BY <1>1, <1>2, <1>4, <1>5 DEF Init, TypeOK

\* Every state of every behaviour has the declared shape: in particular a
\* status is one of the four of D-05 and a task is at one of its steps.
THEOREM TypeCorrect == Spec => []TypeOK
<1>1. QED
  BY TypeInit, TypeStep, PTL DEF Spec

-----------------------------------------------------------------------------
(***************************************************************************)
(* The inductive invariant.  It says what a task may rely on at each of    *)
(* its steps: the lock it holds, the row it has locked, what it has staged *)
(* and read; and in which order a deleted profile is taken apart.          *)
(***************************************************************************)

\* A task at a step that holds the advisory lock is its holder.
LockOwner == \A s \in Syncs : pc[s] \in Holding => advisory = s

\* A swap owns the row, and the row is not that of a deleted profile.
SwapOwner ==
    \A s \in Syncs : pc[s] = "swapping" => rowLock = s /\ ~profile.deleted

\* Caches prepared for a profile that is not evicted are the stored rows.
PreparedIsStored ==
    \A s \in Syncs : pc[s] = "prepared" /\ cache # {} => work[s].view = rows

\* Only a deleted profile is evicted, and it is evicted before it is purged.
DeletionInOrder ==
    /\ deletion # "idle" => profile.deleted
    /\ deletion = "purging" => cache = {}

\* No task runs in a process that is down or has no database, and a process
\* that is down serves nothing.
DownIsQuiet ==
    /\ up # "serving" => \A s \in Syncs : pc[s] = "idle"
    /\ up = "down" => cache = {}

\* Nothing is staged before discogsography has answered.
NothingStaged ==
    \A s \in Syncs :
       pc[s] \in {"idle", "accepted", "queued", "loaded", "refused", "locked",
                  "fetching"}
         => work[s].raw = 0

\* From the mark to the commit the status is not the success of this sync.
NotYetOk ==
    \A s \in Syncs :
       pc[s] \in {"fetching", "staged", "swapping"}
         \/ (pc[s] = "failing" /\ work[s].raw # 0)
       => profile.status # "ok" \/ profile.deleted

\* At least one row is staged for every distinct key.
KeysCounted ==
    \A s \in Syncs :
       pc[s] \in {"staged", "swapping"}
         => work[s].raw >= Cardinality(work[s].keys)

IInv ==
    /\ LockOwner
    /\ SwapOwner
    /\ PreparedIsStored
    /\ DeletionInOrder
    /\ DownIsQuiet
    /\ NothingStaged
    /\ NotYetOk
    /\ KeysCounted
    /\ CountMatchesCollection
    /\ RevokedIsNeverOk

\* Every step keeps the inductive invariant, action by action.
LEMMA InvariantStep ==
    ASSUME TypeOK, IInv, [Next]_vars
    PROVE  IInv'
<1> USE DEF TypeOK, IInv, LockOwner, SwapOwner, PreparedIsStored,
            DeletionInOrder, DownIsQuiet, NothingStaged, NotYetOk,
            KeysCounted, CountMatchesCollection, RevokedIsNeverOk, Holding
<1> USE DEF Goto, RowFree, locks, collection, surroundings
<1>1. ASSUME NEW s \in Syncs, RequireProfile(s)
       PROVE  IInv'
  BY <1>1 DEF RequireProfile
<1>2. ASSUME NEW s \in Syncs, TriggerSync(s)
       PROVE  IInv'
  BY <1>2 DEF TriggerSync, Marked
<1>3. ASSUME NEW s \in Syncs, NEW t \in Tokens, StorePat(s, t)
       PROVE  IInv'
  BY <1>3 DEF StorePat, IfActive
<1>4. ASSUME NEW s \in Syncs, RefuseToken(s)
       PROVE  IInv'
  BY <1>4 DEF RefuseToken
<1>5. ASSUME NEW s \in Syncs, ScheduleSync(s)
       PROVE  IInv'
  BY <1>5 DEF ScheduleSync
<1>6. ASSUME NEW s \in Syncs, LoadPat(s)
       PROVE  IInv'
  BY <1>6 DEF LoadPat
<1>7. ASSUME NEW s \in Syncs, RefusePat(s)
       PROVE  IInv'
  BY <1>7 DEF RefusePat
<1>8. ASSUME NEW s \in Syncs, RecordRefusal(s)
       PROVE  IInv'
  BY <1>8 DEF RecordRefusal, Return, Fresh, IfActive, Failed
<1>9. ASSUME NEW s \in Syncs, AcquireLock(s)
       PROVE  IInv'
  BY <1>9, SyncAssumption DEF AcquireLock
<1>10. ASSUME NEW s \in Syncs, LockBusy(s)
       PROVE  IInv'
  BY <1>10 DEF LockBusy, Return, Fresh
<1>11. ASSUME NEW s \in Syncs, MarkInProgress(s)
       PROVE  IInv'
  BY <1>11 DEF MarkInProgress, Marked, IfActive
<1>12. ASSUME NEW s \in Syncs, NEW keys \in SUBSET Releases,
              NEW copies \in 0..MaxDuplicates, Ingest(s, keys, copies)
       PROVE  IInv'
  <2>1. work'[s].raw >= Cardinality(work'[s].keys)
    <3>1. Cardinality(keys) + copies >= Cardinality(keys)
      BY CollectionSize
    <3>2. QED
      BY <1>12, <3>1 DEF Ingest, Frame
  <2>2. KeysCounted'
    BY <1>12, <2>1 DEF Ingest
  <2>3. QED
    BY <1>12, <2>2 DEF Ingest
<1>13. ASSUME NEW s \in Syncs, NEW fault \in Faults, FetchFails(s, fault)
       PROVE  IInv'
  BY <1>13 DEF FetchFails
<1>14. ASSUME NEW s \in Syncs, LockProfileForSwap(s)
       PROVE  IInv'
  BY <1>14 DEF LockProfileForSwap
<1>15. ASSUME NEW s \in Syncs, DeletedDuringSync(s)
       PROVE  IInv'
  BY <1>15 DEF DeletedDuringSync
<1>16. ASSUME NEW s \in Syncs, CommitSwap(s)
       PROVE  IInv'
  BY <1>16 DEF CommitSwap
<1>17. ASSUME NEW s \in Syncs, ShrinkGuard(s)
       PROVE  IInv'
  BY <1>17 DEF ShrinkGuard
<1>18. ASSUME NEW s \in Syncs, RecordFailure(s)
       PROVE  IInv'
  BY <1>18 DEF RecordFailure, IfActive, Failed
<1>19. ASSUME NEW s \in Syncs, ReadCaches(s)
       PROVE  IInv'
  BY <1>19 DEF ReadCaches
<1>20. ASSUME NEW s \in Syncs, PublishCaches(s)
       PROVE  IInv'
  BY <1>20 DEF PublishCaches
<1>21. ASSUME NEW s \in Syncs, RefreshEvicted(s)
       PROVE  IInv'
  BY <1>21 DEF RefreshEvicted
<1>22. ASSUME NEW s \in Syncs, RecordCancellation(s)
       PROVE  IInv'
  BY <1>22 DEF RecordCancellation, IfActive
<1>23. ASSUME NEW s \in Syncs, Release(s)
       PROVE  IInv'
  BY <1>23 DEF Release, Return, Fresh
<1>24. ASSUME NEW s \in Syncs, AbandonEarly(s)
       PROVE  IInv'
  BY <1>24 DEF AbandonEarly, Return, Fresh
<1>25. ASSUME NEW s \in Syncs, Cancel(s)
       PROVE  IInv'
  BY <1>25 DEF Cancel, Unlocked
<1>26. ASSUME NEW s \in Syncs, DatabaseFails(s)
       PROVE  IInv'
  BY <1>26 DEF DatabaseFails, Unlocked
<1>27. ASSUME NEW s \in Syncs, RecordingFails(s)
       PROVE  IInv'
  BY <1>27 DEF RecordingFails
<1>28. ASSUME NEW s \in Syncs, RefreshFails(s)
       PROVE  IInv'
  BY <1>28 DEF RefreshFails
<1>29. ASSUME SoftDelete
       PROVE  IInv'
  <2>1. \A t \in Syncs : pc[t] # "swapping"
    BY <1>29, SyncAssumption DEF SoftDelete
  <2>2. /\ profile'.deleted
        /\ profile'.status = profile.status
        /\ profile'.revoked = profile.revoked
    BY <1>29 DEF SoftDelete, ProfileRow
  <2>3. QED
    BY <1>29, <2>1, <2>2 DEF SoftDelete
<1>30. ASSUME EvictRegistries
       PROVE  IInv'
  BY <1>30 DEF EvictRegistries
<1>31. ASSUME Purge
       PROVE  IInv'
  BY <1>31 DEF Purge
<1>32. ASSUME PurgeFails
       PROVE  IInv'
  BY <1>32 DEF PurgeFails
<1>33. ASSUME Crash
       PROVE  IInv'
  BY <1>33 DEF Crash, Fresh
<1>34. ASSUME Restart
       PROVE  IInv'
  BY <1>34 DEF Restart
<1>35. ASSUME RestartEmpty \/ RestartDegraded
       PROVE  IInv'
  BY <1>35 DEF RestartEmpty, RestartDegraded
<1>36. ASSUME NEW t \in Tokens, TokenDies(t)
       PROVE  IInv'
  BY <1>36 DEF TokenDies
<1>37. CASE UNCHANGED vars
  BY <1>37 DEF vars
<1>38. QED
  BY <1>1, <1>2, <1>3, <1>4, <1>5, <1>6, <1>7, <1>8, <1>9, <1>10,
     <1>11, <1>12, <1>13, <1>14, <1>15, <1>16, <1>17, <1>18, <1>19,
     <1>20, <1>21, <1>22, <1>23, <1>24, <1>25, <1>26, <1>27, <1>28,
     <1>29, <1>30, <1>31, <1>32, <1>33, <1>34, <1>35, <1>36, <1>37
     DEF Next, SyncStep, Interruption

\* The fresh instance satisfies the inductive invariant.
LEMMA InvariantInit == Init => IInv
<1> SUFFICES ASSUME Init PROVE IInv
  OBVIOUS
<1>1. Cardinality({}) = 0
  BY FS_EmptySet
<1>2. QED
  BY <1>1, SyncAssumption
     DEF Init, IInv, LockOwner, SwapOwner, PreparedIsStored, DeletionInOrder,
         DownIsQuiet, NothingStaged, NotYetOk, KeysCounted,
         CountMatchesCollection, RevokedIsNeverOk, Holding, Fresh

\* The types and the inductive invariant hold throughout.
THEOREM InvariantCorrect == Spec => [](TypeOK /\ IInv)
<1>1. Init => TypeOK
  BY TypeInit
<1>2. Init => IInv
  BY InvariantInit
<1>3. TypeOK /\ IInv /\ [Next]_vars => (TypeOK /\ IInv)'
  BY TypeStep, InvariantStep
<1>4. QED
  BY <1>1, <1>2, <1>3, PTL DEF Spec

\* Mutual exclusion: two syncs of a profile never work at once, from the lock
\* to the published caches, whatever is cancelled, fails or crashes.
THEOREM OneSyncCorrect == Spec => []OneSyncAtATime
<1>1. IInv => OneSyncAtATime
  BY DEF IInv, LockOwner, OneSyncAtATime
<1>2. QED
  BY <1>1, InvariantCorrect, PTL

\* The count of a profile that is not deleted is the size of its collection:
\* swap, count and status are one transaction, and a purge is never ahead of
\* the delete it belongs to.
THEOREM CountCorrect == Spec => []CountMatchesCollection
<1>1. IInv => CountMatchesCollection
  BY DEF IInv
<1>2. QED
  BY <1>1, InvariantCorrect, PTL

\* A revoked token and a successful sync are never shown together, although
\* a refusal is recorded before any lock is taken.
THEOREM RevokedCorrect == Spec => []RevokedIsNeverOk
<1>1. IInv => RevokedIsNeverOk
  BY DEF IInv
<1>2. QED
  BY <1>1, InvariantCorrect, PTL

\* What the row says of the collection and of the token is true.
THEOREM RowCorrect == Spec => []RowIsTrue
  BY CountCorrect, RevokedCorrect, PTL DEF RowIsTrue

\* Only these steps write the profiles row ...
LEMMA RowWriters ==
    ASSUME [Next]_vars
    PROVE  \/ profile' = profile
           \/ \E s \in Syncs : \/ TriggerSync(s)
                               \/ \E t \in Tokens : StorePat(s, t)
                               \/ RecordRefusal(s)
                               \/ MarkInProgress(s)
                               \/ CommitSwap(s)
                               \/ RecordFailure(s)
                               \/ RecordCancellation(s)
           \/ SoftDelete
<1>1. ASSUME NEW s \in Syncs, SyncStep(s)
      PROVE  \/ profile' = profile
             \/ MarkInProgress(s)
             \/ CommitSwap(s)
             \/ RecordFailure(s)
             \/ RecordCancellation(s)
  BY <1>1 DEF SyncStep, LoadPat, RefusePat, AcquireLock, LockBusy, Ingest,
              FetchFails, LockProfileForSwap, DeletedDuringSync, ShrinkGuard,
              ReadCaches, PublishCaches, RefreshEvicted, Release
<1>2. ASSUME NEW s \in Syncs, Interruption(s)
      PROVE  profile' = profile
  BY <1>2 DEF Interruption, AbandonEarly, Cancel, DatabaseFails,
              RecordingFails, RefreshFails
<1>3. ASSUME NEW s \in Syncs,
             RequireProfile(s) \/ RefuseToken(s) \/ ScheduleSync(s)
      PROVE  profile' = profile
  BY <1>3 DEF RequireProfile, RefuseToken, ScheduleSync
<1>4. ASSUME \/ EvictRegistries
             \/ Purge
             \/ PurgeFails
             \/ Crash
             \/ Restart
             \/ RestartEmpty
             \/ RestartDegraded
             \/ \E t \in Tokens : TokenDies(t)
             \/ UNCHANGED vars
      PROVE  profile' = profile
  BY <1>4 DEF EvictRegistries, Purge, PurgeFails, Crash, Restart,
              RestartEmpty, RestartDegraded, TokenDies, vars
<1>5. QED
  BY <1>1, <1>2, <1>3, <1>4 DEF Next

\* ... and only these the collection or the copy served.
LEMMA CollectionWriters ==
    ASSUME [Next]_vars
    PROVE  \/ rows' = rows /\ cache' = cache
           \/ \E s \in Syncs : CommitSwap(s) \/ PublishCaches(s)
           \/ EvictRegistries
           \/ Purge
           \/ Crash
           \/ Restart
           \/ RestartEmpty
           \/ RestartDegraded
<1>1. ASSUME NEW s \in Syncs, SyncStep(s)
      PROVE  (rows' = rows /\ cache' = cache) \/ CommitSwap(s) \/ PublishCaches(s)
  BY <1>1 DEF SyncStep, LoadPat, RefusePat, AcquireLock, LockBusy,
              MarkInProgress, Ingest, FetchFails, LockProfileForSwap,
              DeletedDuringSync, ShrinkGuard, RecordFailure, ReadCaches,
              RefreshEvicted, RecordCancellation, Release, collection
<1>2. ASSUME NEW s \in Syncs, Interruption(s)
      PROVE  rows' = rows /\ cache' = cache
  BY <1>2 DEF Interruption, AbandonEarly, Cancel, DatabaseFails,
              RecordingFails, RefreshFails, collection
<1>3. ASSUME NEW s \in Syncs,
             \/ RequireProfile(s)
             \/ TriggerSync(s)
             \/ \E t \in Tokens : StorePat(s, t)
             \/ RefuseToken(s)
             \/ ScheduleSync(s)
             \/ RecordRefusal(s)
      PROVE  rows' = rows /\ cache' = cache
  BY <1>3 DEF RequireProfile, TriggerSync, StorePat, RefuseToken,
              ScheduleSync, RecordRefusal, collection
<1>4. ASSUME \/ SoftDelete
             \/ PurgeFails
             \/ \E t \in Tokens : TokenDies(t)
             \/ UNCHANGED vars
      PROVE  rows' = rows /\ cache' = cache
  BY <1>4 DEF SoftDelete, PurgeFails, TokenDies, vars, collection
<1>5. QED
  BY <1>1, <1>2, <1>3, <1>4 DEF Next

\* No committed success is turned into a failure by the sync that committed
\* it or by one that was cancelled: a sync that has staged rows fails only
\* while the row still carries its own mark, or is deleted.
THEOREM SuccessCorrect == Spec => SuccessSurvives
<1>1. ASSUME TypeOK, IInv, [Next]_vars,
             profile.status = "ok", profile'.status = "failed"
      PROVE  \E s \in Syncs : /\ pc[s] \in {"refused", "failing"}
                              /\ pc'[s] # pc[s]
                              /\ work[s].raw = 0
  <2> USE <1>1 DEF TypeOK, ProfileRow, IfActive, Goto
  <2>1. ASSUME NEW s \in Syncs,
               \/ TriggerSync(s)
               \/ \E t \in Tokens : StorePat(s, t)
               \/ MarkInProgress(s)
               \/ CommitSwap(s)
               \/ RecordCancellation(s)
        PROVE  FALSE
    BY <2>1 DEF TriggerSync, StorePat, MarkInProgress, CommitSwap,
                RecordCancellation, Marked
  <2>2. ASSUME NEW s \in Syncs, RecordRefusal(s)
        PROVE  pc[s] = "refused" /\ pc'[s] = "idle" /\ work[s].raw = 0
    BY <2>2 DEF RecordRefusal, Return, IInv, NothingStaged
  <2>3. ASSUME NEW s \in Syncs, RecordFailure(s)
        PROVE  pc[s] = "failing" /\ pc'[s] = "releasing" /\ work[s].raw = 0
    BY <2>3 DEF RecordFailure, IInv, NotYetOk
  <2>4. profile' # profile /\ ~SoftDelete
    BY DEF SoftDelete
  <2>5. PICK s \in Syncs : RecordRefusal(s) \/ RecordFailure(s)
    BY <2>1, <2>4, RowWriters
  <2>6. QED
    BY <2>2, <2>3, <2>5
<1>2. QED
  BY <1>1, InvariantCorrect, PTL DEF Spec, SuccessSurvives

\* The arrivals reported cover every release that was not stored before:
\* at least one row is staged for each key, and only stored keys are taken
\* off, so duplicate copies can only raise the number.
THEOREM ArrivalsCorrect == Spec => ArrivalsCovered
<1>1. ASSUME TypeOK, IInv, [Next]_vars, rows' # rows, ~profile'.deleted
      PROVE  profile'.arrivals >= Cardinality(rows' \ rows)
  <2>1. /\ ~Purge /\ ~EvictRegistries /\ ~Crash
        /\ ~Restart /\ ~RestartEmpty /\ ~RestartDegraded
    BY <1>1 DEF Purge, Restart, RestartEmpty, RestartDegraded,
                EvictRegistries, Crash, IInv, DeletionInOrder
  <2>2. PICK s \in Syncs : CommitSwap(s)
    BY <1>1, <2>1, CollectionWriters DEF PublishCaches
  <2>3. /\ rows' = work[s].keys
        /\ profile'.arrivals = Arrivals(s)
        /\ work[s].raw >= Cardinality(work[s].keys)
    BY <1>1, <2>2 DEF CommitSwap, Goto, IInv, KeysCounted, TypeOK, ProfileRow
  <2>4. work[s].keys \in SUBSET Releases /\ work[s].raw \in Nat
    BY <1>1 DEF TypeOK, Frame
  <2>5. PICK keys : keys = work[s].keys
    OBVIOUS
  <2>6. IsFiniteSet(keys)
    BY <2>4, <2>5, SyncAssumption, FS_Subset
  <2>7. keys \ rows \in SUBSET Releases /\ rows \cap keys \in SUBSET Releases
    BY <2>4, <2>5
  <2>8. Cardinality(keys \ rows) = Cardinality(keys) - Cardinality(rows \cap keys)
    <3>1. keys \cap rows = rows \cap keys
      OBVIOUS
    <3>2. Cardinality(keys \ rows) = Cardinality(keys) - Cardinality(keys \cap rows)
      BY <2>6, FS_Difference
    <3>3. QED
      BY <3>1, <3>2
  <2>9. /\ Cardinality(keys) \in Nat
        /\ Cardinality(keys \ rows) \in Nat
        /\ Cardinality(rows \cap keys) \in Nat
    BY <2>4, <2>5, <2>7, CollectionSize
  <2>10. Arrivals(s) = IF work[s].raw - Cardinality(rows \cap keys) < 0
                         THEN 0
                         ELSE work[s].raw - Cardinality(rows \cap keys)
    BY <2>5 DEF Arrivals
  <2>11. Arrivals(s) >= Cardinality(keys \ rows)
    BY <2>3, <2>4, <2>5, <2>8, <2>9, <2>10
  <2>12. QED
    BY <2>3, <2>5, <2>11
<1>2. QED
  BY <1>1, InvariantCorrect, PTL DEF Spec, ArrivalsCovered

\* The syncs, the endpoints and the restart implement CollectionStore: a swap
\* is a replacement, a publication serves what is stored at that moment, a
\* start serves that or, when its reads fail, an empty copy of a live profile,
\* and every other step is invisible.
THEOREM ImplementsStore == Spec => StoreSpec
<1>1. Init => Store!Init
  BY DEF Init, Store!Init
<1>2. ASSUME TypeOK, IInv, [Next]_vars
      PROVE  [Store!Next]_(Store!storeVars)
  <2> USE <1>2 DEF Store!Next, Store!storeVars
  <2>1. ASSUME NEW s \in Syncs, CommitSwap(s)
        PROVE  Store!Replace
    <3>1. /\ ~profile.deleted
          /\ profile'.deleted = profile.deleted
          /\ rows' = work[s].keys
          /\ cache' = cache
      BY <2>1 DEF CommitSwap, Goto, IInv, SwapOwner, TypeOK, ProfileRow
    <3>2. work[s].keys \in SUBSET Releases
      BY DEF TypeOK, Frame
    <3>3. ~Truncates(rows, work[s].keys)
      BY <2>1 DEF CommitSwap
    <3>4. ~Store!Truncates(rows, work[s].keys)
      BY <3>3 DEF Truncates, Store!Truncates, Cardinality, Store!Cardinality
    <3>5. QED
      BY <3>1, <3>2, <3>4 DEF Store!Replace
  <2>2. ASSUME NEW s \in Syncs, PublishCaches(s)
        PROVE  Store!Serve
    BY <2>2 DEF PublishCaches, Goto, IInv, PreparedIsStored, Store!Serve
  <2>3. ASSUME EvictRegistries \/ Crash
        PROVE  Store!Withdraw
    BY <2>3 DEF EvictRegistries, Crash, Store!Withdraw
  <2>4. ASSUME Purge
        PROVE  Store!Purge
    BY <2>4 DEF Purge, IInv, DeletionInOrder, Store!Purge
  <2>5. ASSUME Restart \/ RestartEmpty \/ RestartDegraded
        PROVE  \/ Store!Purge
               \/ Store!Start
               \/ UNCHANGED <<rows, cache, profile.deleted>>
    <3>1. cache = {} /\ profile' = profile
      BY <2>5 DEF Restart, RestartEmpty, RestartDegraded, IInv, DownIsQuiet
    <3>2. CASE profile.deleted
      BY <2>5, <3>1, <3>2
         DEF Restart, RestartEmpty, RestartDegraded, Store!Purge
    <3>3. CASE ~profile.deleted
      BY <2>5, <3>1, <3>3
         DEF Restart, RestartEmpty, RestartDegraded, Store!Start
    <3>4. QED
      BY <3>2, <3>3
  <2>6. ASSUME rows' = rows /\ cache' = cache
        PROVE  Store!Retire \/ UNCHANGED <<rows, cache, profile.deleted>>
    <3>1. CASE SoftDelete
      BY <2>6, <3>1 DEF SoftDelete, TypeOK, ProfileRow, Store!Retire
    <3>2. CASE profile' = profile
      BY <2>6, <3>2
    <3>3. ASSUME NEW s \in Syncs,
                 \/ TriggerSync(s)
                 \/ \E t \in Tokens : StorePat(s, t)
                 \/ RecordRefusal(s)
                 \/ MarkInProgress(s)
                 \/ CommitSwap(s)
                 \/ RecordFailure(s)
                 \/ RecordCancellation(s)
          PROVE  profile'.deleted = profile.deleted
      BY <3>3 DEF TriggerSync, StorePat, RecordRefusal, MarkInProgress,
                  CommitSwap, RecordFailure, RecordCancellation, Marked,
                  Failed, IfActive, TypeOK, ProfileRow
    <3>4. QED
      BY <2>6, <3>1, <3>2, <3>3, RowWriters
  <2>7. QED
    BY <2>1, <2>2, <2>3, <2>4, <2>5, <2>6, CollectionWriters
<1>3. QED
  BY <1>1, <1>2, InvariantCorrect, PTL DEF Spec, StoreSpec, Store!Spec

=============================================================================

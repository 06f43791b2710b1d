------------------------ MODULE CacheCoherenceProofs ------------------------
(***************************************************************************)
(* Theorems of CacheCoherence for any number of writers, commits and       *)
(* restarts.                                                               *)
(***************************************************************************)
EXTENDS CacheCoherence, TLAPS

LEMMA TypeStep ==
    ASSUME TypeOK, [Next]_vars
    PROVE  TypeOK'
<1> USE CacheAssumption DEF TypeOK, Tables
<1>1. ASSUME NEW w \in Writers, Admit(w)
      PROVE  TypeOK'
  BY <1>1 DEF Admit, Goto
<1>2. ASSUME NEW w \in Writers, Reject(w)
      PROVE  TypeOK'
  BY <1>2 DEF Reject, Goto
<1>3. ASSUME NEW w \in Writers,
             NEW written \in {{"cuts"}, {"widths"}, {"cuts", "widths"}},
             Commit(w, written)
      PROVE  TypeOK'
  <2>1. db' \in Tables
    BY <1>3 DEF Commit, Written
  <2>2. pc' \in [Writers -> {"idle", "admitted", "committed", "rows", "loaded"}]
    BY <1>3 DEF Commit, Goto, Written
  <2>3. QED
    BY <1>3, <2>1, <2>2 DEF Commit
<1>4. ASSUME NEW w \in Writers, LoadRows(w)
      PROVE  TypeOK'
  BY <1>4 DEF LoadRows, Goto
<1>5. ASSUME NEW w \in Writers, LoadOverrides(w)
      PROVE  TypeOK'
  BY <1>5 DEF LoadOverrides, Goto
<1>6. ASSUME NEW w \in Writers, Publish(w)
      PROVE  TypeOK'
  <2>1. live' \in [cuts : Nat, widths : Nat, records : Nat, generation : Nat]
    BY <1>6 DEF Publish
  <2>2. bins' \in Tables
    BY <1>6, <2>1 DEF Publish, Derived
  <2>3. local' \in [Writers -> [cuts : Nat, widths : Nat]]
    BY <1>6 DEF Publish, NoRead
  <2>4. pc' \in [Writers -> {"idle", "admitted", "committed", "rows", "loaded"}]
    BY <1>6 DEF Publish, Goto
  <2>5. QED
    BY <1>6, <2>1, <2>2, <2>3, <2>4 DEF Publish
<1>7. ASSUME NEW w \in Writers, RebuildFails(w)
      PROVE  TypeOK'
  BY <1>7 DEF RebuildFails, Goto, NoRead
<1>8. ASSUME Swap
      PROVE  TypeOK'
  BY <1>8 DEF Swap, NoRefresh
<1>9. ASSUME Pin
      PROVE  TypeOK'
  BY <1>9 DEF Pin
<1>10. ASSUME RefreshRows
      PROVE  TypeOK'
  BY <1>10 DEF RefreshRows
<1>11. ASSUME RefreshOverrides
      PROVE  TypeOK'
  BY <1>11 DEF RefreshOverrides
<1>12. ASSUME RefreshSnapshot
      PROVE  TypeOK'
  BY <1>12 DEF RefreshSnapshot
<1>13. ASSUME RefreshPublish
      PROVE  TypeOK'
  BY <1>13 DEF RefreshPublish, Derived, NoRefresh
<1>14. ASSUME RefreshRetry
      PROVE  TypeOK'
  BY <1>14 DEF RefreshRetry
<1>15. ASSUME RefreshEvicted
      PROVE  TypeOK'
  BY <1>15 DEF RefreshEvicted, NoRefresh
<1>16. ASSUME RefreshFails
      PROVE  TypeOK'
  BY <1>16 DEF RefreshFails, NoRefresh
<1>17. ASSUME Evict
      PROVE  TypeOK'
  BY <1>17 DEF Evict
<1>18. ASSUME NEW loaded \in SUBSET {"boundaries", "records"},
             Restart(loaded)
      PROVE  TypeOK'
  <2>1. live' \in [cuts : Nat, widths : Nat, records : Nat, generation : Nat]
    BY <1>18 DEF Restart
  <2>7. missed' \in BOOLEAN
    BY <1>18, Zenon DEF Restart
  <2>2. bins' \in Tables
    BY <1>18, <2>1 DEF Restart, Derived
  <2>3. local' \in [Writers -> [cuts : Nat, widths : Nat]]
    BY <1>18 DEF Restart, NoRead
  <2>4. restarts' \in 0..MaxRestarts
    BY <1>18 DEF Restart
  <2>5. sync' \in [at : {"idle", "swapped", "pinned", "rows", "overrides",
                        "snapshot"},
                  cuts : Nat, widths : Nat, records : Nat, generation : Nat]
    BY <1>18 DEF Restart, NoRefresh
  <2>6. QED
    BY <1>18, <2>1, <2>2, <2>3, <2>4, <2>5, <2>7 DEF Restart
<1>19. CASE UNCHANGED vars
  BY <1>19 DEF vars
<1>20. QED
  BY <1>1, <1>2, <1>3, <1>4, <1>5, <1>6, <1>7, <1>8, <1>9, <1>10, <1>11,
     <1>12, <1>13, <1>14, <1>15, <1>16, <1>17, <1>18, <1>19
     DEF Next, Rebuild, Refresh

\* Every state has the declared shape.
THEOREM TypeCorrect == Spec => []TypeOK
<1>1. ASSUME Init
      PROVE  TypeOK
  <2>1. local \in [Writers -> [cuts : Nat, widths : Nat]]
    BY <1>1 DEF Init, NoRead
  <2>2. restarts \in 0..MaxRestarts
    BY <1>1, CacheAssumption DEF Init
  <2>3. /\ db \in Tables
        /\ bins \in Tables
        /\ live \in [cuts : Nat, widths : Nat, records : Nat, generation : Nat]
    BY <1>1 DEF Init, Tables
  <2>4. QED
    BY <1>1, <2>1, <2>2, <2>3 DEF Init, TypeOK, NoRefresh
<1>2. TypeOK /\ [Next]_vars => TypeOK'
  BY TypeStep
<1>3. QED
  BY <1>1, <1>2, PTL DEF Spec

-----------------------------------------------------------------------------
\* No copy of a table is ahead of it.
Behind ==
    /\ live.cuts <= db.cuts /\ live.widths <= db.widths
    /\ live.records <= db.records
    /\ sync.cuts <= db.cuts /\ sync.widths <= db.widths
    /\ sync.records <= db.records
    /\ \A w \in Writers : /\ local[w].cuts <= db.cuts
                          /\ local[w].widths <= db.widths

\* As long as nobody has published since the refresh read the generation,
\* what it has read is at least as new as what is live.
Covers ==
    /\ sync.generation <= live.generation
    /\ sync.generation = live.generation =>
          /\ sync.at \in {"rows", "overrides", "snapshot"}
               => sync.cuts >= live.cuts
          /\ sync.at \in {"overrides", "snapshot"} => sync.widths >= live.widths
          /\ sync.at = "snapshot" => sync.records >= live.records
    /\ sync.at = "snapshot" => sync.records = db.records

IInv == Behind /\ Covers /\ BinsMatchLive

LEMMA InvariantStep ==
    ASSUME TypeOK, IInv, [Next]_vars
    PROVE  IInv'
<1> USE DEF TypeOK, Tables, IInv, Behind, Covers, BinsMatchLive, Derived
<1>1. ASSUME NEW w \in Writers, Admit(w)
      PROVE  IInv'
  BY <1>1 DEF Admit, Goto
<1>2. ASSUME NEW w \in Writers, Reject(w)
      PROVE  IInv'
  BY <1>2 DEF Reject, Goto
<1>3. ASSUME NEW w \in Writers,
             NEW written \in {{"cuts"}, {"widths"}, {"cuts", "widths"}},
             Commit(w, written)
      PROVE  IInv'
  BY <1>3 DEF Commit, Goto, Written
<1>4. ASSUME NEW w \in Writers, LoadRows(w)
      PROVE  IInv'
  BY <1>4 DEF LoadRows, Goto
<1>5. ASSUME NEW w \in Writers, LoadOverrides(w)
      PROVE  IInv'
  BY <1>5 DEF LoadOverrides, Goto
<1>6. ASSUME NEW w \in Writers, Publish(w)
      PROVE  IInv'
  BY <1>6 DEF Publish, Goto, NoRead
<1>7. ASSUME NEW w \in Writers, RebuildFails(w)
      PROVE  IInv'
  BY <1>7 DEF RebuildFails, Goto, NoRead
<1>8. ASSUME Swap
      PROVE  IInv'
  BY <1>8 DEF Swap, NoRefresh
<1>9. ASSUME Pin
      PROVE  IInv'
  BY <1>9 DEF Pin
<1>10. ASSUME RefreshRows
      PROVE  IInv'
  BY <1>10 DEF RefreshRows
<1>11. ASSUME RefreshOverrides
      PROVE  IInv'
  BY <1>11 DEF RefreshOverrides
<1>12. ASSUME RefreshSnapshot
      PROVE  IInv'
  BY <1>12 DEF RefreshSnapshot
<1>13. ASSUME RefreshPublish
      PROVE  IInv'
  BY <1>13 DEF RefreshPublish, NoRefresh
<1>14. ASSUME RefreshRetry
      PROVE  IInv'
  BY <1>14 DEF RefreshRetry
<1>15. ASSUME RefreshEvicted
      PROVE  IInv'
  BY <1>15 DEF RefreshEvicted, NoRefresh
<1>16. ASSUME RefreshFails
      PROVE  IInv'
  BY <1>16 DEF RefreshFails, NoRefresh
<1>17. ASSUME Evict
      PROVE  IInv'
  BY <1>17 DEF Evict
<1>18. ASSUME NEW loaded \in SUBSET {"boundaries", "records"},
             Restart(loaded)
      PROVE  IInv'
  BY <1>18 DEF Restart, NoRead, NoRefresh
<1>19. CASE UNCHANGED vars
  BY <1>19 DEF vars
<1>20. QED
  BY <1>1, <1>2, <1>3, <1>4, <1>5, <1>6, <1>7, <1>8, <1>9, <1>10, <1>11,
     <1>12, <1>13, <1>14, <1>15, <1>16, <1>17, <1>18, <1>19
     DEF Next, Rebuild, Refresh

\* The inductive invariant.
THEOREM InvariantCorrect == Spec => [](TypeOK /\ IInv)
<1>1. Init => IInv
  BY DEF Init, IInv, Behind, Covers, BinsMatchLive, Derived, NoRead, NoRefresh
<1>2. TypeOK /\ IInv /\ [Next]_vars => IInv'
  BY InvariantStep
<1>3. QED
  BY <1>1, <1>2, TypeCorrect, PTL DEF Spec

\* The segments served are derived from what is live.
THEOREM BinsCorrect == Spec => []BinsMatchLive
<1>1. IInv => BinsMatchLive
  BY DEF IInv
<1>2. QED
  BY <1>1, InvariantCorrect, PTL

\* A refresh never replaces what is live by something older, nor ends with the
\* swapped collection unserved.
THEOREM RefreshCorrect == Spec => RefreshLosesNothing
<1>1. ASSUME TypeOK, IInv, [Next]_vars,
             sync.at = "snapshot", sync'.at # "snapshot", restarts' = restarts
      PROVE  /\ live'.cuts >= live.cuts
             /\ live'.widths >= live.widths
             /\ live'.records >= live.records
             /\ sync'.at = "idle" => live'.records = db.records \/ ~registered
  <2> USE <1>1 DEF TypeOK, Tables
  <2>1. CASE RefreshPublish
    BY <2>1 DEF RefreshPublish, IInv, Covers
  <2>2. CASE RefreshRetry \/ RefreshEvicted
    <3>1. CASE RefreshRetry
      BY <3>1 DEF RefreshRetry
    <3>2. CASE RefreshEvicted
      BY <3>2 DEF RefreshEvicted, NoRefresh
    <3>3. QED
      BY <2>2, <3>1, <3>2
  <2>3. RefreshPublish \/ RefreshRetry \/ RefreshEvicted
    <3>1. sync' # sync /\ restarts' # restarts + 1
      BY <1>1
    <3>2. ASSUME NEW w \in Writers,
                 \/ Admit(w) \/ Reject(w) \/ Rebuild(w) \/ RebuildFails(w)
                 \/ \E written \in {{"cuts"}, {"widths"}, {"cuts", "widths"}} :
                      Commit(w, written)
          PROVE  FALSE
      BY <3>1, <3>2 DEF Rebuild, Admit, Reject, Commit, LoadRows,
                        LoadOverrides, Publish, RebuildFails
    <3>3. ~(Swap \/ Pin \/ RefreshRows \/ RefreshOverrides \/ RefreshSnapshot
            \/ RefreshFails)
      BY DEF Swap, Pin, RefreshRows, RefreshOverrides, RefreshSnapshot,
             RefreshFails
    <3>4. ~Evict /\ ~UNCHANGED vars
      BY <3>1 DEF Evict, vars
    <3>5. ~\E loaded \in SUBSET {"boundaries", "records"} : Restart(loaded)
      BY <3>1 DEF Restart
    <3>6. QED
      BY <3>2, <3>3, <3>4, <3>5 DEF Next, Refresh
  <2>4. QED
    BY <2>1, <2>2, <2>3
<1>2. QED
  BY <1>1, InvariantCorrect, PTL DEF Spec, RefreshLosesNothing

-----------------------------------------------------------------------------
\* What holds as long as no two requests overlap.
Solo ==
    /\ \A w \in Writers :
          /\ pc[w] \in {"rows", "loaded"} => local[w].cuts = db.cuts
          /\ pc[w] = "loaded" => local[w].widths = db.widths
    /\ (registered /\ ~missed /\ \A w \in Writers : pc[w] \in {"idle", "admitted"})
          => live.cuts = db.cuts /\ live.widths = db.widths

LEMMA SoloStep ==
    ASSUME \A v, w \in Writers : v = w,
           TypeOK, IInv, Solo, [Next]_vars
    PROVE  Solo'
<1> USE DEF TypeOK, Tables, Solo
<1>1. ASSUME NEW w \in Writers, Admit(w)
      PROVE  Solo'
  BY <1>1 DEF Admit, Goto
<1>2. ASSUME NEW w \in Writers, Reject(w)
      PROVE  Solo'
  BY <1>2 DEF Reject, Goto
<1>3. ASSUME NEW w \in Writers,
             NEW written \in {{"cuts"}, {"widths"}, {"cuts", "widths"}},
             Commit(w, written)
      PROVE  Solo'
  BY <1>3 DEF Commit, Goto, Written
<1>4. ASSUME NEW w \in Writers, LoadRows(w)
      PROVE  Solo'
  BY <1>4 DEF LoadRows, Goto
<1>5. ASSUME NEW w \in Writers, LoadOverrides(w)
      PROVE  Solo'
  BY <1>5 DEF LoadOverrides, Goto
<1>6. ASSUME NEW w \in Writers, Publish(w)
      PROVE  Solo'
  BY <1>6 DEF Publish, Goto, NoRead
<1>7. ASSUME NEW w \in Writers, RebuildFails(w)
      PROVE  Solo'
  BY <1>7 DEF RebuildFails, Goto, NoRead
<1>8. ASSUME Swap
      PROVE  Solo'
  BY <1>8 DEF Swap, NoRefresh
<1>9. ASSUME Pin
      PROVE  Solo'
  BY <1>9 DEF Pin
<1>10. ASSUME RefreshRows
      PROVE  Solo'
  BY <1>10 DEF RefreshRows
<1>11. ASSUME RefreshOverrides
      PROVE  Solo'
  BY <1>11 DEF RefreshOverrides
<1>12. ASSUME RefreshSnapshot
      PROVE  Solo'
  BY <1>12 DEF RefreshSnapshot
<1>13. ASSUME RefreshPublish
      PROVE  Solo'
  BY <1>13 DEF RefreshPublish, NoRefresh, IInv, Behind, Covers
<1>14. ASSUME RefreshRetry
      PROVE  Solo'
  BY <1>14 DEF RefreshRetry
<1>15. ASSUME RefreshEvicted
      PROVE  Solo'
  BY <1>15 DEF RefreshEvicted, NoRefresh
<1>16. ASSUME RefreshFails
      PROVE  Solo'
  BY <1>16 DEF RefreshFails, NoRefresh
<1>17. ASSUME Evict
      PROVE  Solo'
  BY <1>17 DEF Evict
<1>18. ASSUME NEW loaded \in SUBSET {"boundaries", "records"},
             Restart(loaded)
      PROVE  Solo'
  BY <1>18 DEF Restart, NoRead, NoRefresh
<1>19. CASE UNCHANGED vars
  BY <1>19 DEF vars
<1>20. QED
  BY <1>1, <1>2, <1>3, <1>4, <1>5, <1>6, <1>7, <1>8, <1>9, <1>10, <1>11,
     <1>12, <1>13, <1>14, <1>15, <1>16, <1>17, <1>18, <1>19
     DEF Next, Rebuild, Refresh

\* With one request at a time, between requests the caches hold what the
\* tables hold, whatever the refreshes and the restarts do.
THEOREM SoloCorrect ==
    (\A v, w \in Writers : v = w) => (Spec => []QuietMeansFresh)
<1> SUFFICES ASSUME \A v, w \in Writers : v = w
             PROVE  Spec => []QuietMeansFresh
  OBVIOUS
<1>1. Init => Solo
  BY DEF Init, Solo
<1>2. TypeOK /\ IInv /\ Solo /\ [Next]_vars => Solo'
  BY SoloStep
<1>3. Solo => QuietMeansFresh
  BY DEF Solo, QuietMeansFresh
<1>4. QED
  BY <1>1, <1>2, <1>3, InvariantCorrect, PTL DEF Spec
=============================================================================

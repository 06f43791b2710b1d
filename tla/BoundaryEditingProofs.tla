------------------------ MODULE BoundaryEditingProofs ------------------------
(***************************************************************************)
(* Theorems of BoundaryEditing for any shelf, number of requests and       *)
(* number of transactions; the last ones are about requests that are made  *)
(* one at a time.                                                          *)
(***************************************************************************)
EXTENDS BoundaryEditing, Integers, FiniteSetTheorems, SequenceTheorems, TLAPS

AnyCut == Cuts \union {NoCut}

-----------------------------------------------------------------------------
(* Induction over the subsets of a finite set.                             *)

\* What holds of a subset when it holds of the smaller ones holds of the set.
LEMMA SubsetInduction ==
    ASSUME NEW S, IsFiniteSet(S), NEW Good,
           \A T \in SUBSET S :
              (\A U \in SUBSET T : U # T => U \in Good) => T \in Good
    PROVE  S \in Good
<1> DEFINE Bad == {T \in FiniteSubsetsOf(S) : T \notin Good}
<1>1. SUFFICES ASSUME S \notin Good
               PROVE  FALSE
  OBVIOUS
<1>2. FiniteSubsetsOf(S) = SUBSET S
  BY FS_FiniteSubsetsOfFinite
<1>3. PICK T \in Bad : \A U \in Bad : <<U, T>> \notin StrictSubsetOrdering(S)
  <2>1. Bad \subseteq FiniteSubsetsOf(S) /\ Bad # {}
    BY <1>1, <1>2
  <2> HIDE DEF Bad
  <2>2. QED
    BY <2>1, FS_StrictSubsetOrderingWellFounded, WFMin
<1>4. T \in SUBSET S
  BY <1>2
<1>5. \A U \in SUBSET T : U # T => U \in Good
  <2>1. SUFFICES ASSUME NEW U \in SUBSET T, U # T, U \notin Good
                 PROVE  FALSE
    OBVIOUS
  <2>2. U \in Bad
    BY <1>2, <1>4, <2>1
  <2>3. <<U, T>> \in StrictSubsetOrdering(S)
    BY <1>4, <2>1 DEF StrictSubsetOrdering
  <2>4. QED
    BY <1>3, <2>2, <2>3
<1>6. QED
  BY <1>3, <1>4, <1>5

\* A finite set of integers that is not empty has a greatest element.
LEMMA MaximumExists ==
    ASSUME NEW S, IsFiniteSet(S), S \subseteq Int, S # {}
    PROVE  \E m \in S : \A n \in S : m >= n
<1> DEFINE Has(T) == \E m \in T : \A n \in T : m >= n
           Good == {T \in SUBSET S : T # {} => Has(T)}
<1>1. ASSUME NEW T \in SUBSET S, \A U \in SUBSET T : U # T => U \in Good
      PROVE  T \in Good
  <2>1. SUFFICES ASSUME T # {}
                 PROVE  Has(T)
    OBVIOUS
  <2>2. PICK x \in T : TRUE
    BY <2>1
  <2>3. CASE T \ {x} = {}
    BY <2>2, <2>3
  <2>4. CASE T \ {x} # {}
    <3>1. PICK m \in T \ {x} : \A n \in T \ {x} : m >= n
      <4>1. T \ {x} \in SUBSET T /\ T \ {x} # T
        BY <2>2
      <4>2. T \ {x} \in Good
        BY <1>1, <4>1
      <4>3. QED
        BY <2>4, <4>2
    <3>2. m <= x \/ x <= m
      BY <2>2, <3>1
    <3>3. QED
      BY <2>2, <3>1, <3>2
  <2>5. QED
    BY <2>3, <2>4
<1>2. S \in Good
  <2> HIDE DEF Good
  <2>1. QED
    BY <1>1, SubsetInduction
<1>3. QED
  BY <1>2

\* A finite set of integers that is not empty has a least element.
LEMMA MinimumExists ==
    ASSUME NEW S, IsFiniteSet(S), S \subseteq Int, S # {}
    PROVE  \E m \in S : \A n \in S : m <= n
<1> DEFINE Has(T) == \E m \in T : \A n \in T : m <= n
           Good == {T \in SUBSET S : T # {} => Has(T)}
<1>1. ASSUME NEW T \in SUBSET S, \A U \in SUBSET T : U # T => U \in Good
      PROVE  T \in Good
  <2>1. SUFFICES ASSUME T # {}
                 PROVE  Has(T)
    OBVIOUS
  <2>2. PICK x \in T : TRUE
    BY <2>1
  <2>3. CASE T \ {x} = {}
    BY <2>2, <2>3
  <2>4. CASE T \ {x} # {}
    <3>1. PICK m \in T \ {x} : \A n \in T \ {x} : m <= n
      <4>1. T \ {x} \in SUBSET T /\ T \ {x} # T
        BY <2>2
      <4>2. T \ {x} \in Good
        BY <1>1, <4>1
      <4>3. QED
        BY <2>4, <4>2
    <3>2. m <= x \/ x <= m
      BY <2>2, <3>1
    <3>3. QED
      BY <2>2, <3>1, <3>2
  <2>5. QED
    BY <2>3, <2>4
<1>2. S \in Good
  <2> HIDE DEF Good
  <2>1. QED
    BY <1>1, SubsetInduction
<1>3. QED
  BY <1>2

-----------------------------------------------------------------------------
(* Rows and the shelves they make.                                         *)

\* A sequence that is given as a function.
LEMMA Listed ==
    ASSUME NEW S, NEW n \in Nat, NEW f \in [1..n -> S]
    PROVE  f \in Seq(S) /\ Len(f) = n /\ DOMAIN f = 1..n
BY SeqDef

\* A cube gets the cut of its last row, and keeps its own if it has no row.
LEMMA AppliedLast ==
    ASSUME NEW S, NEW rows \in Seq(S), NEW shelf, NEW c \in Cubes
    PROVE  /\ (\A i \in 1..Len(rows) : rows[i].cube # c)
                 => Applied(shelf, rows)[c] = shelf[c]
           /\ (\E i \in 1..Len(rows) : rows[i].cube = c)
                 => \E i \in 1..Len(rows) :
                       /\ rows[i].cube = c
                       /\ \A j \in 1..Len(rows) : rows[j].cube = c => j <= i
                       /\ Applied(shelf, rows)[c] = rows[i].new
<1> DEFINE own == {i \in DOMAIN rows : rows[i].cube = c}
<1>1. DOMAIN rows = 1..Len(rows) /\ Len(rows) \in Nat
  OBVIOUS
<1>2. Applied(shelf, rows)[c] =
        IF own = {} THEN shelf[c]
        ELSE rows[CHOOSE i \in own : \A j \in own : j <= i].new
  BY DEF Applied
<1>3. CASE own = {}
  BY <1>1, <1>2, <1>3
<1>4. CASE own # {}
  <2>1. IsFiniteSet(own) /\ own \subseteq Int
    <3>1. IsFiniteSet(1..Len(rows)) /\ own \subseteq 1..Len(rows)
      BY <1>1, FS_Interval
    <3>2. QED
      BY <1>1, <3>1, FS_Subset
  <2>2. \E m \in own : \A n \in own : m >= n
    <3> HIDE DEF own
    <3>1. QED
      BY <1>4, <2>1, MaximumExists
  <2> DEFINE last == CHOOSE i \in own : \A j \in own : j <= i
  <2>3. \E i \in own : \A j \in own : j <= i
    BY <1>1, <2>2
  <2>4. last \in own /\ \A j \in own : j <= last
    <3> HIDE DEF own
    <3>1. QED
      BY <2>3
  <2>5. Applied(shelf, rows)[c] = rows[last].new
    BY <1>2, <1>4
  <2> HIDE DEF last
  <2>6. QED
    BY <1>1, <2>4, <2>5
<1>5. QED
  BY <1>3, <1>4

LEMMA AppliedType ==
    ASSUME NEW rows \in Seq(HistoryRows), NEW shelf \in Shelves
    PROVE  Applied(shelf, rows) \in Shelves
<1>1. ASSUME NEW c \in Cubes
      PROVE  Applied(shelf, rows)[c] \in AnyCut
  <2>1. shelf[c] \in AnyCut
    BY DEF Shelves, AnyCut
  <2>2. \A i \in 1..Len(rows) : rows[i].new \in AnyCut
    <3>1. \A i \in 1..Len(rows) : rows[i] \in HistoryRows
      OBVIOUS
    <3>2. QED
      BY <3>1 DEF HistoryRows, AnyCut
  <2>3. QED
    BY <2>1, <2>2, AppliedLast
<1>2. Applied(shelf, rows) = [c \in Cubes |-> Applied(shelf, rows)[c]]
  BY DEF Applied
<1> DEFINE after == Applied(shelf, rows)
<1>3. after = [c \in Cubes |-> after[c]] /\ \A c \in Cubes : after[c] \in AnyCut
  BY <1>1, <1>2
<1> HIDE DEF after
<1>4. after \in Shelves
  BY <1>3 DEF Shelves, AnyCut
<1>5. QED
  BY <1>4 DEF after

\* validate_shelf_overflow leaves insert_cut an empty cube to shift into.
LEMMA AbsorberIsEmpty ==
    ASSUME NEW shelf \in Shelves, NEW after \in 0..Size, HasRoom(shelf, after),
           Size \in Nat
    PROVE  /\ Absorber(shelf, after) \in Cubes /\ Absorber(shelf, after) > after
           /\ shelf[Absorber(shelf, after)] = NoCut
<1> DEFINE E == {c \in Cubes : c > after /\ shelf[c] = NoCut}
<1>1. IsFiniteSet(E) /\ E \subseteq Int /\ E # {}
  <2>1. IsFiniteSet(1..Size) /\ E \subseteq 1..Size
    BY FS_Interval DEF Cubes
  <2>2. QED
    BY <2>1, FS_Subset DEF HasRoom
<1>2. PICK m \in E : \A n \in E : m <= n
  <2> HIDE DEF E
  <2>1. QED
    BY <1>1, MinimumExists
<1>3. \A d \in after + 1 .. m - 1 : shelf[d] # NoCut
  BY <1>2 DEF Cubes
<1>4. \E c \in Cubes : /\ c > after
                       /\ shelf[c] = NoCut
                       /\ \A d \in after + 1 .. c - 1 : shelf[d] # NoCut
  BY <1>2, <1>3
<1>5. QED
  BY <1>4 DEF Absorber

-----------------------------------------------------------------------------
(* The inductive invariant.                                                *)

Places == {"idle", "planned", "reading", "writing", "committed"}

\* The locals of requests when n transactions were begun and the ones in sets
\* have committed.
JobsOf(n, sets) ==
    [kind : {"none", "edit", "insert", "import", "revert"},
     plan : Seq(Updates), key : Keys \union {NoKey},
     at : 0..n, target : sets \union {0}]

InTransaction == {"reading", "writing"}

\* The transaction of the request is open.
Open(a) == pc[a] \in InTransaction

\* An open transaction is its request's own and has not committed.
Begun ==
    \A a \in Admins :
       /\ Open(a) => work[a].at \in (1..clock) \ committed
       /\ pc[a] \in {"idle", "planned"} => work[a].at = 0
       /\ pc[a] = "committed" => work[a].at \in committed
       /\ \A b \in Admins : Open(a) /\ Open(b) /\ work[a].at = work[b].at => a = b

\* The rows of a transaction are in the order of their ids.
Logged ==
    \A set \in 1..MaxSets :
       /\ history[set] # <<>> =>
             set \in committed \/ \E a \in Admins : Open(a) /\ work[a].at = set
       /\ \A i \in 1..Len(history[set]) :
             /\ history[set][i].id <= ids
             /\ \A j \in 1..Len(history[set]) :
                   i < j => history[set][i].id < history[set][j].id

\* What the row locks are for: of a cube that an open transaction has written,
\* every other row is committed and older.
Alone ==
    \A a \in Admins : Open(a) =>
       \A i \in 1..Len(Own(a)) : \A set \in (1..MaxSets) \ {work[a].at} :
          \A j \in 1..Len(history[set]) :
             history[set][j].cube = Own(a)[i].cube
                => set \in committed /\ history[set][j].id < Own(a)[i].id

\* The i-th row of a change set is the newest that is committed of its cube.
IsLatest(set, i) ==
    \A other \in committed : \A j \in 1..Len(history[other]) :
       history[other][j].cube = history[set][i].cube
          => history[other][j].id <= history[set][i].id

Latest ==
    \A set \in committed : \A i \in 1..Len(history[set]) :
       IsLatest(set, i) => history[set][i].new = cuts[history[set][i].cube]

IInv == TypeOK /\ Begun /\ Logged /\ Alone /\ Latest

LEMMA SomeRow ==
    ASSUME TypeOK, NEW set \in 1..MaxSets
    PROVE  /\ history[set] \in Seq(HistoryRows)
           /\ DOMAIN history[set] = 1..Len(history[set])
           /\ Len(history[set]) \in Nat
           /\ \A i \in 1..Len(history[set]) :
                 /\ history[set][i] \in HistoryRows
                 /\ history[set][i].id \in Nat
                 /\ history[set][i].cube \in Cubes
                 /\ history[set][i].new \in AnyCut
                 /\ history[set][i].prev \in AnyCut
<1>1. history[set] \in Seq(HistoryRows)
  BY DEF TypeOK
<1>2. \A i \in 1..Len(history[set]) : history[set][i] \in HistoryRows
  BY <1>1
<1>3. QED
  BY <1>1, <1>2 DEF HistoryRows, AnyCut

LEMMA Numbers ==
    ASSUME TypeOK
    PROVE  /\ MaxSets \in Nat /\ clock \in Nat /\ ids \in Nat /\ Size \in Nat
           /\ clock <= MaxSets /\ 0 \notin committed
           /\ committed \subseteq 1..clock /\ committed \subseteq 1..MaxSets
           /\ 1..clock \subseteq 1..MaxSets
<1>1. MaxSets \in Nat /\ clock \in 0..MaxSets /\ ids \in Nat /\ Size \in Nat
  BY EditingAssumption, ShelfAssumption DEF TypeOK
<1>2. committed \subseteq 1..clock
  BY DEF TypeOK
<1>3. QED
  BY <1>1, <1>2

LEMMA SomeJob ==
    ASSUME TypeOK, NEW a \in Admins
    PROVE  /\ work[a] \in JobsOf(clock, committed) /\ pc[a] \in Places
           /\ work[a].kind \in {"none", "edit", "insert", "import", "revert"}
           /\ work[a].plan \in Seq(Updates) /\ work[a].key \in Keys \union {NoKey}
           /\ work[a].at \in 0..clock /\ work[a].target \in committed \union {0}
           /\ work[a].at \in Nat /\ work[a].target \in Nat
           /\ \A i \in 1..Len(work[a].plan) :
                 /\ work[a].plan[i].cube \in Cubes
                 /\ work[a].plan[i].new \in AnyCut
                 /\ work[a].plan[i].prev \in AnyCut
<1>1. work[a] \in JobsOf(clock, committed) /\ pc[a] \in Places
  BY DEF TypeOK, JobsOf, Places
<1>2. /\ work[a].kind \in {"none", "edit", "insert", "import", "revert"}
      /\ work[a].plan \in Seq(Updates) /\ work[a].key \in Keys \union {NoKey}
      /\ work[a].at \in 0..clock /\ work[a].target \in committed \union {0}
  BY <1>1 DEF JobsOf
<1>3. work[a].at \in Nat /\ work[a].target \in Nat
  BY <1>2, Numbers
<1>4. \A i \in 1..Len(work[a].plan) : work[a].plan[i] \in Updates
  BY <1>2
<1>5. \A i \in 1..Len(work[a].plan) :
         /\ work[a].plan[i].cube \in Cubes
         /\ work[a].plan[i].new \in AnyCut
         /\ work[a].plan[i].prev \in AnyCut
  BY <1>4 DEF Updates, AnyCut
<1>6. QED
  BY <1>1, <1>2, <1>3, <1>5

\* One request moves on.
LEMMA Changed ==
    ASSUME TypeOK, NEW a \in Admins, NEW p \in Places,
           clock' \in Nat, clock <= clock', committed \subseteq committed',
           NEW w \in JobsOf(clock', committed'),
           p = "idle" => w = NoWork, p = "writing" => w.plan # <<>>,
           pc' = [pc EXCEPT ![a] = p], work' = [work EXCEPT ![a] = w]
    PROVE  /\ pc' \in [Admins -> Places]
           /\ work' \in [Admins -> JobsOf(clock', committed')]
           /\ \A b \in Admins : /\ pc'[b] = "idle" => work'[b] = NoWork
                                /\ pc'[b] = "writing" => work'[b].plan # <<>>
           /\ pc'[a] = p /\ work'[a] = w
           /\ \A b \in Admins \ {a} : pc'[b] = pc[b] /\ work'[b] = work[b]
<1>1. /\ pc \in [Admins -> Places] /\ work \in [Admins -> JobsOf(clock, committed)]
      /\ \A b \in Admins : /\ pc[b] = "idle" => work[b] = NoWork
                           /\ pc[b] = "writing" => work[b].plan # <<>>
  BY DEF TypeOK, JobsOf, Places
<1>2. JobsOf(clock, committed) \subseteq JobsOf(clock', committed')
  <2>1. 0..clock \subseteq 0..clock' /\ committed \union {0} \subseteq committed' \union {0}
    BY Numbers
  <2>2. QED
    BY <2>1 DEF JobsOf
<1>3. /\ pc'[a] = p /\ work'[a] = w
      /\ \A b \in Admins \ {a} : pc'[b] = pc[b] /\ work'[b] = work[b]
  BY <1>1
<1>4. pc' \in [Admins -> Places] /\ work' \in [Admins -> JobsOf(clock', committed')]
  BY <1>1, <1>2
<1>5. QED
  BY <1>1, <1>3, <1>4

\* A step of one request that leaves the log and the shelf as they are, and
\* its transaction as open as it was.
LEMMA LogLeftAlone ==
    ASSUME IInv, NEW a \in Admins, NEW p \in Places, NEW w \in JobsOf(clock, committed),
           p = "idle" => w = NoWork, p = "writing" => w.plan # <<>>,
           p # "committed", p \in InTransaction <=> Open(a),
           w.at = IF Open(a) THEN work[a].at ELSE 0,
           pc' = [pc EXCEPT ![a] = p], work' = [work EXCEPT ![a] = w],
           UNCHANGED <<cuts, history, ids, committed, keys, clock>>,
           told' \in [Keys -> SUBSET committed], cache' \in Shelves
    PROVE  IInv'
<1>1. /\ pc' \in [Admins -> Places]
      /\ work' \in [Admins -> JobsOf(clock', committed')]
      /\ \A b \in Admins : /\ pc'[b] = "idle" => work'[b] = NoWork
                           /\ pc'[b] = "writing" => work'[b].plan # <<>>
      /\ pc'[a] = p /\ work'[a] = w
      /\ \A b \in Admins \ {a} : pc'[b] = pc[b] /\ work'[b] = work[b]
  <2>1. /\ TypeOK /\ clock' \in Nat /\ clock <= clock' /\ committed \subseteq committed'
        /\ w \in JobsOf(clock', committed')
    BY Numbers DEF IInv
  <2>2. QED
    BY <2>1, Changed
<1>2. \A b \in Admins : /\ Open(b)' <=> Open(b)
                        /\ Open(b) => work'[b].at = work[b].at
  BY <1>1 DEF Open
<1>3. \A b \in Admins : Open(b) => Own(b)' = Own(b)
  BY <1>2 DEF Own
<1>4. Begun'
  <2>1. ASSUME NEW b \in Admins
        PROVE  /\ Open(b)' => work'[b].at \in (1..clock') \ committed'
               /\ pc'[b] \in {"idle", "planned"} => work'[b].at = 0
               /\ pc'[b] = "committed" => work'[b].at \in committed'
    BY <1>1, <1>2 DEF IInv, Begun, Open, InTransaction
  <2>2. ASSUME NEW b \in Admins, NEW c \in Admins,
               Open(b)', Open(c)', work'[b].at = work'[c].at
        PROVE  b = c
    BY <1>2, <2>2 DEF IInv, Begun
  <2>3. QED
    BY <2>1, <2>2 DEF Begun
<1>5. Logged'
  BY <1>2 DEF IInv, Logged
<1>6. Alone'
  BY <1>2, <1>3 DEF IInv, Alone
<1>7. Latest'
  BY DEF IInv, Latest, IsLatest
<1>8. TypeOK'
  BY <1>1, <1>5 DEF IInv, TypeOK, JobsOf, Places, Logged
<1>9. QED
  BY <1>4, <1>5, <1>6, <1>7, <1>8 DEF IInv

LEMMA Initially == Init => IInv
<1> SUFFICES ASSUME Init
             PROVE  IInv
  OBVIOUS
<1>1. /\ cuts \in Shelves /\ cache \in Shelves /\ MaxSets \in Nat
      /\ ids = 0 /\ committed = {} /\ clock = 0
  BY EditingAssumption DEF Init
<1>2. history \in [1..MaxSets -> Seq(HistoryRows)] /\ \A set \in 1..MaxSets : history[set] = <<>>
  BY EmptySeq DEF Init
<1>3. \A a \in Admins : pc[a] = "idle" /\ work[a] = NoWork /\ ~Open(a)
  BY DEF Init, Open, InTransaction
<1>4. NoWork \in JobsOf(0, {}) /\ NoWork.at = 0
  BY EmptySeq DEF NoWork, JobsOf
<1>5. /\ pc \in [Admins -> Places] /\ work \in [Admins -> JobsOf(clock, committed)]
      /\ keys \in [Keys -> {0}] /\ told \in [Keys -> {{}}]
  BY <1>1, <1>4 DEF Init, Places
<1>6. TypeOK
  BY <1>1, <1>2, <1>3, <1>5 DEF TypeOK, JobsOf, Places
<1>7. Begun
  BY <1>3, <1>4 DEF Begun
<1>8. Logged
  BY <1>2 DEF Logged
<1>9. Alone /\ Latest
  BY <1>1, <1>3 DEF Alone, Latest
<1>10. QED
  BY <1>6, <1>7, <1>8, <1>9 DEF IInv

-----------------------------------------------------------------------------
(* Steps before the transaction.                                           *)

LEMMA ReplayStep ==
    ASSUME IInv, NEW a \in Admins, NEW key \in Keys, Replay(a, key)
    PROVE  IInv'
<1>1. keys[key] \in committed /\ told \in [Keys -> SUBSET committed]
  BY DEF IInv, TypeOK, Replay
<1>2. told' \in [Keys -> SUBSET committed]
  BY <1>1 DEF Replay
<1>3. UNCHANGED <<cuts, history, ids, committed, keys, cache, clock, pc, work>>
  BY DEF Replay
<1>4. TypeOK'
  BY <1>2, <1>3 DEF IInv, TypeOK
<1>5. Begun' /\ Logged'
  BY <1>3 DEF IInv, Begun, Logged, Open
<1>6. Alone' /\ Latest'
  BY <1>3 DEF IInv, Alone, Latest, IsLatest, Open, Own
<1>7. QED
  BY <1>4, <1>5, <1>6 DEF IInv

\* A request gets its plan.
LEMMA Planned ==
    ASSUME IInv, NEW a \in Admins, NEW w \in JobsOf(clock, committed), w.at = 0,
           Goto(a, "idle", "planned"), work' = [work EXCEPT ![a] = w],
           UNCHANGED <<cuts, history, ids, committed, keys, told, cache, clock>>
    PROVE  IInv'
<1>1. pc' = [pc EXCEPT ![a] = "planned"] /\ ~Open(a)
  BY DEF Goto, Open, InTransaction
<1>2. told' \in [Keys -> SUBSET committed] /\ cache' \in Shelves
  BY DEF IInv, TypeOK
<1>3. "planned" \in Places /\ "planned" \notin InTransaction
  BY DEF Places, InTransaction
<1>4. QED
  BY <1>1, <1>2, <1>3, LogLeftAlone

LEMMA ValidatedStep ==
    ASSUME IInv, NEW a \in Admins, NEW updates, NEW n \in Nat, DOMAIN updates = 1..n,
           \A i \in 1..n : updates[i].cube \in Cubes /\ updates[i].new \in AnyCut,
           NEW kind \in {"edit", "insert", "import"}, NEW key \in Keys \union {NoKey},
           Validated(a, kind, updates, key)
    PROVE  IInv'
<1> DEFINE plan == [i \in 1..n |-> [cube |-> updates[i].cube, new |-> updates[i].new,
                                    prev |-> NoCut]]
           w == [NoWork EXCEPT !.kind = kind, !.key = key, !.plan = plan]
<1>1. plan \in Seq(Updates)
  <2>1. plan \in [1..n -> Updates]
    BY DEF Updates, AnyCut
  <2> HIDE DEF plan
  <2>2. QED
    BY <2>1, Listed
<1>2. w \in JobsOf(clock, committed) /\ w.at = 0
  <2> HIDE DEF plan
  <2>1. 0 \in 0..clock
    BY Numbers DEF IInv
  <2>2. QED
    BY <1>1, <2>1 DEF JobsOf, NoWork
<1>3. work' = [work EXCEPT ![a] = w]
  BY DEF Validated
<1> HIDE DEF w
<1>4. QED
  BY <1>2, <1>3, Planned DEF Validated

LEMMA PlanEditStep ==
    ASSUME IInv, NEW a \in Admins, NEW updates \in UpdateLists,
           NEW key \in Keys \union {NoKey}, PlanEdit(a, updates, key)
    PROVE  IInv'
<1>1. PICK n \in 1..MaxUpdates : updates \in [1..n -> [cube : Cubes, new : AnyCut]]
  BY DEF UpdateLists, AnyCut
<1>2. /\ n \in Nat /\ DOMAIN updates = 1..n
      /\ \A i \in 1..n : updates[i].cube \in Cubes /\ updates[i].new \in AnyCut
  BY <1>1, EditingAssumption
<1>3. QED
  BY <1>2, ValidatedStep DEF PlanEdit

LEMMA PlanInsertStep ==
    ASSUME IInv, NEW a \in Admins, NEW after \in 0..Size, NEW cut \in Cuts,
           PlanInsert(a, after, cut)
    PROVE  IInv'
<1> DEFINE cascade == Cascade(cache, after, cut)
           n == Absorber(cache, after) - after
<1>1. cache \in Shelves /\ Size \in Nat
  BY ShelfAssumption DEF IInv, TypeOK
<1>2. Absorber(cache, after) \in Cubes /\ Absorber(cache, after) > after
  BY <1>1, AbsorberIsEmpty DEF PlanInsert
<1>3. n \in Nat /\ DOMAIN cascade = 1..n
  BY <1>1, <1>2 DEF Cascade, Cubes
<1>4. ASSUME NEW i \in 1..n
      PROVE  cascade[i].cube \in Cubes /\ cascade[i].new \in AnyCut
  <2>1. cascade[i] = [cube |-> after + i,
                      new |-> IF i = 1 THEN cut ELSE cache[after + i - 1]]
    BY DEF Cascade
  <2>2. after + i \in Cubes /\ (i # 1 => after + i - 1 \in Cubes)
    BY <1>1, <1>2 DEF Cubes
  <2>3. QED
    BY <1>1, <2>1, <2>2 DEF Shelves, AnyCut
<1>5. Validated(a, "insert", cascade, NoKey)
  BY DEF PlanInsert
<1> HIDE DEF cascade, n
<1>6. QED
  BY <1>3, <1>4, <1>5, ValidatedStep

LEMMA PlanImportStep ==
    ASSUME IInv, NEW a \in Admins, NEW file \in Files, NEW key \in Keys \union {NoKey},
           PlanImport(a, file, key)
    PROVE  IInv'
<1> DEFINE updates == [c \in Cubes |-> [cube |-> c, new |-> file[c]]]
<1>1. file \in Shelves /\ Size \in Nat
  BY ShelfAssumption, EditingAssumption
<1>2. /\ DOMAIN updates = 1..Size
      /\ \A i \in 1..Size : updates[i].cube \in Cubes /\ updates[i].new \in AnyCut
  BY <1>1 DEF Cubes, Shelves, AnyCut
<1>3. Validated(a, "import", updates, key)
  BY DEF PlanImport
<1> HIDE DEF updates
<1>4. QED
  BY <1>1, <1>2, <1>3, ValidatedStep

\* The plan of a revert has an entry for each row of the change set.
LEMMA RevertPlan ==
    ASSUME TypeOK, NEW a \in Admins, NEW target \in 1..MaxSets, PlanRevert(a, target)
    PROVE  LET rows == history[target]
               w == work'[a]
           IN /\ target \in committed /\ rows # <<>>
              /\ pc' = [pc EXCEPT ![a] = "planned"] /\ pc[a] = "idle"
              /\ w \in JobsOf(clock, committed)
              /\ work' = [work EXCEPT ![a] = w]
              /\ w.kind = "revert" /\ w.at = 0 /\ w.target = target /\ w.key = NoKey
              /\ Len(w.plan) = Len(rows)
              /\ \A i \in 1..Len(rows) : /\ w.plan[i].cube = rows[i].cube
                                         /\ w.plan[i].new = rows[i].prev
                                         /\ w.plan[i].prev = rows[i].new
<1> DEFINE rows == history[target]
           plan == [i \in DOMAIN rows |-> [cube |-> rows[i].cube, new |-> rows[i].prev,
                                           prev |-> rows[i].new]]
           w == [NoWork EXCEPT !.kind = "revert", !.target = target, !.plan = plan]
<1>1. target \in committed /\ rows # <<>>
  BY DEF PlanRevert, RowsOfSet
<1>2. work' = [work EXCEPT ![a] = w] /\ Goto(a, "idle", "planned")
  BY <1>1 DEF PlanRevert, RowsOfSet
<1>3. /\ Len(rows) \in Nat /\ DOMAIN rows = 1..Len(rows)
      /\ \A i \in 1..Len(rows) : /\ rows[i].cube \in Cubes /\ rows[i].new \in AnyCut
                                 /\ rows[i].prev \in AnyCut
  BY SomeRow
<1> HIDE DEF rows
<1>4. /\ plan \in Seq(Updates) /\ Len(plan) = Len(rows)
      /\ \A i \in 1..Len(rows) : /\ plan[i].cube = rows[i].cube
                                 /\ plan[i].new = rows[i].prev
                                 /\ plan[i].prev = rows[i].new
  <2>1. plan \in [1..Len(rows) -> Updates]
    BY <1>3 DEF Updates, AnyCut
  <2>2. \A i \in 1..Len(rows) : /\ plan[i].cube = rows[i].cube
                                 /\ plan[i].new = rows[i].prev
                                 /\ plan[i].prev = rows[i].new
    BY <1>3
  <2> HIDE DEF plan
  <2>3. QED
    BY <1>3, <2>1, <2>2, Listed
<1> HIDE DEF plan
<1>5. 0 \in 0..clock
  BY Numbers
<1>6. w \in JobsOf(clock, committed)
  BY <1>1, <1>4, <1>5 DEF JobsOf, NoWork
<1>7. work'[a] = w
  BY <1>2 DEF TypeOK
<1>8. pc' = [pc EXCEPT ![a] = "planned"] /\ pc[a] = "idle"
  BY <1>2 DEF Goto
<1>9. /\ w.kind = "revert" /\ w.at = 0 /\ w.target = target /\ w.key = NoKey
      /\ w.plan = plan
  BY DEF NoWork
<1> HIDE DEF w
<1>10. /\ Len(w.plan) = Len(rows)
       /\ \A i \in 1..Len(rows) : /\ w.plan[i].cube = rows[i].cube
                                  /\ w.plan[i].new = rows[i].prev
                                  /\ w.plan[i].prev = rows[i].new
  BY <1>4, <1>9
<1>11. QED
  BY <1>1, <1>2, <1>6, <1>7, <1>8, <1>9, <1>10, ZenonT(30) DEF rows

LEMMA PlanRevertStep ==
    ASSUME IInv, NEW a \in Admins, NEW target \in 1..MaxSets, PlanRevert(a, target)
    PROVE  IInv'
<1> DEFINE w == work'[a]
<1>1. w \in JobsOf(clock, committed) /\ work' = [work EXCEPT ![a] = w] /\ w.at = 0
  BY RevertPlan DEF IInv
<1>2. /\ Goto(a, "idle", "planned")
      /\ UNCHANGED <<cuts, history, ids, committed, keys, told, cache, clock>>
  BY DEF PlanRevert
<1> SUFFICES ASSUME NEW x, x = w
             PROVE  IInv'
  OBVIOUS
<1> HIDE DEF w
<1>3. QED
  BY <1>1, <1>2, Planned

-----------------------------------------------------------------------------
(* Steps of the transaction.                                               *)

LEMMA WithPlan ==
    ASSUME NEW n, NEW S, NEW job \in JobsOf(n, S), NEW plan \in Seq(Updates)
    PROVE  LET w == [job EXCEPT !.plan = plan]
           IN /\ w \in JobsOf(n, S) /\ w.plan = plan
              /\ w.kind = job.kind /\ w.key = job.key /\ w.at = job.at
              /\ w.target = job.target
BY DEF JobsOf

LEMMA BeginStep ==
    ASSUME IInv, NEW a \in Admins, Begin(a)
    PROVE  IInv'
<1> DEFINE n == clock + 1
           w == [work[a] EXCEPT !.at = n]
<1>1. /\ n \in 1..MaxSets /\ clock' = n /\ n \in Nat /\ n > clock
      /\ committed' = committed /\ n \notin committed
      /\ cuts' = cuts /\ history' = history /\ ids' = ids /\ keys' = keys
      /\ told' = told /\ cache' = cache
  BY Numbers DEF IInv, Begin
<1>2. pc[a] = "planned" /\ pc' = [pc EXCEPT ![a] = "reading"] /\ ~Open(a)
  BY DEF Begin, Goto, Open, InTransaction
<1>3. w \in JobsOf(n, committed) /\ w.at = n
  <2>1. work[a] \in JobsOf(clock, committed)
    BY SomeJob DEF IInv
  <2>2. n \in 0..n /\ 0..clock \subseteq 0..n
    BY Numbers DEF IInv
  <2>3. QED
    BY <2>1, <2>2 DEF JobsOf
<1>4. work' = [work EXCEPT ![a] = w]
  BY DEF Begin
<1> HIDE DEF w
<1>5. /\ pc' \in [Admins -> Places]
      /\ work' \in [Admins -> JobsOf(clock', committed')]
      /\ \A b \in Admins : /\ pc'[b] = "idle" => work'[b] = NoWork
                           /\ pc'[b] = "writing" => work'[b].plan # <<>>
      /\ pc'[a] = "reading" /\ work'[a] = w
      /\ \A b \in Admins \ {a} : pc'[b] = pc[b] /\ work'[b] = work[b]
  <2>1. /\ TypeOK /\ clock' \in Nat /\ clock <= clock' /\ committed \subseteq committed'
        /\ w \in JobsOf(clock', committed')
    BY <1>1, <1>3, Numbers DEF IInv
  <2>2. "reading" \in Places
    BY DEF Places
  <2>3. QED
    BY <1>2, <1>4, <2>1, <2>2, Changed
<1>6. /\ Open(a)' /\ work'[a].at = n
      /\ \A b \in Admins \ {a} : (Open(b)' <=> Open(b)) /\ work'[b].at = work[b].at
  BY <1>3, <1>5 DEF Open, InTransaction
<1>7. \A b \in Admins : Open(b) => b # a /\ work[b].at # n
  BY <1>1, <1>2, Numbers DEF IInv, Begun
<1>8. history[n] = <<>>
  BY <1>1, <1>7 DEF IInv, Logged
<1> HIDE DEF n
<1>9. Begun'
  <2>1. ASSUME NEW b \in Admins
        PROVE  /\ Open(b)' => work'[b].at \in (1..clock') \ committed'
               /\ pc'[b] \in {"idle", "planned"} => work'[b].at = 0
               /\ pc'[b] = "committed" => work'[b].at \in committed'
    <3>1. CASE b = a
      BY <1>1, <1>5, <1>6, <3>1
    <3>2. CASE b # a
      <4>1. 1..clock \subseteq 1..clock'
        BY <1>1, Numbers DEF IInv
      <4>2. QED
        BY <1>1, <1>5, <1>6, <3>2, <4>1 DEF IInv, Begun
    <3>3. QED
      BY <3>1, <3>2
  <2>2. ASSUME NEW b \in Admins, NEW c \in Admins,
               Open(b)', Open(c)', work'[b].at = work'[c].at
        PROVE  b = c
    BY <1>6, <1>7, <2>2 DEF IInv, Begun
  <2>3. QED
    BY <2>1, <2>2 DEF Begun
<1>10. Logged'
  BY <1>1, <1>6, <1>7 DEF IInv, Logged
<1>11. Alone'
  <2>1. SUFFICES ASSUME NEW b \in Admins, Open(b)', NEW i \in 1..Len(Own(b)'),
                        NEW set \in (1..MaxSets) \ {work'[b].at},
                        NEW j \in 1..Len(history[set]),
                        history[set][j].cube = Own(b)'[i].cube
                 PROVE  set \in committed /\ history[set][j].id < Own(b)'[i].id
    BY <1>1 DEF Alone
  <2>2. b # a
    BY <1>1, <1>6, <1>8, <2>1 DEF Own
  <2>3. Own(b)' = Own(b) /\ Open(b) /\ work'[b].at = work[b].at
    BY <1>1, <1>6, <2>1, <2>2 DEF Own
  <2>4. QED
    BY <2>1, <2>3 DEF IInv, Alone
<1>12. Latest'
  BY <1>1 DEF IInv, Latest, IsLatest
<1>13. TypeOK'
  BY <1>1, <1>5, <1>10 DEF IInv, TypeOK, JobsOf, Places, Logged
<1>14. QED
  BY <1>9, <1>10, <1>11, <1>12, <1>13 DEF IInv

\* What the transaction reads of the cube goes into its plan.
LEMMA Fetched ==
    ASSUME TypeOK, NEW a \in Admins, Open(a), work[a].at \in 1..MaxSets, FetchCurrent(a)
    PROVE  LET w == work'[a]
               c == work[a].plan[1].cube
           IN /\ w \in JobsOf(clock, committed) /\ work' = [work EXCEPT ![a] = w]
              /\ w.kind = work[a].kind /\ w.key = work[a].key /\ w.at = work[a].at
              /\ w.target = work[a].target
              /\ w.plan # <<>> /\ Len(w.plan) = Len(work[a].plan)
              /\ \A i \in 1..Len(w.plan) : /\ w.plan[i].cube = work[a].plan[i].cube
                                           /\ w.plan[i].new = work[a].plan[i].new
              /\ c \in Cubes /\ w.plan[1].prev = Seen(a, c)
<1> DEFINE plan == work[a].plan
           c == plan[1].cube
           first == [plan[1] EXCEPT !.prev = Seen(a, c)]
           fetched == [plan EXCEPT ![1] = first]
           w == [work[a] EXCEPT !.plan = fetched]
<1>1. work' = [work EXCEPT ![a] = w] /\ plan # <<>>
  BY DEF FetchCurrent
<1>2. /\ plan \in Seq(Updates) /\ work[a] \in JobsOf(clock, committed)
      /\ work \in [Admins -> JobsOf(clock, committed)]
  BY SomeJob DEF TypeOK, JobsOf
<1>3. 1 \in 1..Len(plan) /\ plan[1] \in Updates /\ c \in Cubes
  <2>1. 1 \in 1..Len(plan) /\ plan[1] \in Updates
    BY <1>1, <1>2
  <2>2. QED
    BY <2>1 DEF Updates
<1>4. Seen(a, c) \in AnyCut
  <2>1. Own(a) \in Seq(HistoryRows) /\ cuts \in Shelves
    BY DEF Own, TypeOK
  <2>2. Applied(cuts, Own(a)) \in Shelves
    BY <2>1, AppliedType
  <2> DEFINE shelf == Applied(cuts, Own(a))
  <2> HIDE DEF shelf
  <2>3. shelf \in Shelves
    BY <2>2 DEF shelf
  <2>4. shelf[c] \in AnyCut
    BY <1>3, <2>3 DEF Shelves, AnyCut
  <2>5. QED
    BY <2>4 DEF Seen, shelf
<1>5. first \in Updates /\ first.cube = c /\ first.new = plan[1].new
      /\ first.prev = Seen(a, c)
  BY <1>3, <1>4 DEF Updates, AnyCut
<1> HIDE DEF first
<1>6. /\ fetched \in Seq(Updates) /\ Len(fetched) = Len(plan)
      /\ \A i \in 1..Len(plan) : fetched[i] = IF i = 1 THEN first ELSE plan[i]
  BY <1>2, <1>3, <1>5, ExceptSeq
<1> HIDE DEF fetched
<1>7. /\ w \in JobsOf(clock, committed) /\ w.plan = fetched
      /\ w.kind = work[a].kind /\ w.key = work[a].key /\ w.at = work[a].at
      /\ w.target = work[a].target
  BY <1>2, <1>6, WithPlan
<1> HIDE DEF w
<1>8. work'[a] = w
  BY <1>1, <1>2
<1>9. /\ fetched # <<>>
      /\ \A i \in 1..Len(fetched) : /\ fetched[i].cube = plan[i].cube
                                     /\ fetched[i].new = plan[i].new
      /\ fetched[1].prev = Seen(a, c)
  BY <1>3, <1>5, <1>6
<1>10. QED
  BY <1>1, <1>3, <1>6, <1>7, <1>8, <1>9, ZenonT(30)

LEMMA OwnSet ==
    ASSUME IInv, NEW a \in Admins, Open(a)
    PROVE  work[a].at \in 1..MaxSets /\ work[a].at \in 1..clock
           /\ work[a].at \notin committed
BY Numbers DEF IInv, Begun

LEMMA FetchCurrentStep ==
    ASSUME IInv, NEW a \in Admins, FetchCurrent(a)
    PROVE  IInv'
<1>1. Open(a) /\ pc' = [pc EXCEPT ![a] = "writing"]
  BY DEF FetchCurrent, Goto, Open, InTransaction
<1>2. PICK w \in JobsOf(clock, committed) :
         work' = [work EXCEPT ![a] = w] /\ w.at = work[a].at /\ w.plan # <<>>
  BY <1>1, OwnSet, Fetched DEF IInv
<1>3. told' \in [Keys -> SUBSET committed] /\ cache' \in Shelves
  BY DEF IInv, TypeOK, FetchCurrent
<1>4. "writing" \in Places /\ "writing" \in InTransaction
  BY DEF Places, InTransaction
<1>5. UNCHANGED <<cuts, history, ids, committed, keys, clock>>
  BY DEF FetchCurrent
<1>6. QED
  BY <1>1, <1>2, <1>3, <1>4, <1>5, LogLeftAlone

LEMMA RestorableStep ==
    ASSUME IInv, NEW a \in Admins, Restorable(a)
    PROVE  IInv'
<1>1. Open(a) /\ pc' = [pc EXCEPT ![a] = "writing"] /\ work[a].plan # <<>>
  BY DEF Restorable, Goto, Open, InTransaction
<1>2. work' = [work EXCEPT ![a] = work[a]] /\ work[a] \in JobsOf(clock, committed)
  BY SomeJob DEF IInv, TypeOK, Restorable
<1>3. told' \in [Keys -> SUBSET committed] /\ cache' \in Shelves
  BY DEF IInv, TypeOK, Restorable
<1>4. "writing" \in Places /\ "writing" \in InTransaction
  BY DEF Places, InTransaction
<1>5. UNCHANGED <<cuts, history, ids, committed, keys, clock>>
  BY DEF Restorable
<1>6. QED
  BY <1>1, <1>2, <1>3, <1>4, <1>5, LogLeftAlone

\* The first entry of the plan is done with.
LEMMA NextEntry ==
    ASSUME TypeOK, NEW a \in Admins, work[a].plan # <<>>,
           work' = [work EXCEPT ![a].plan = Tail(@)]
    PROVE  LET w == work'[a]
           IN /\ w \in JobsOf(clock, committed) /\ work' = [work EXCEPT ![a] = w]
              /\ w.kind = work[a].kind /\ w.key = work[a].key /\ w.at = work[a].at
              /\ w.target = work[a].target
              /\ Len(w.plan) = Len(work[a].plan) - 1
              /\ \A i \in 1..Len(w.plan) : /\ i + 1 \in 1..Len(work[a].plan)
                                           /\ w.plan[i] = work[a].plan[i + 1]
<1> DEFINE w == [work[a] EXCEPT !.plan = Tail(work[a].plan)]
<1>1. work' = [work EXCEPT ![a] = w]
  OBVIOUS
<1>2. /\ work[a].plan \in Seq(Updates) /\ work[a] \in JobsOf(clock, committed)
      /\ work \in [Admins -> JobsOf(clock, committed)]
  BY SomeJob DEF TypeOK, JobsOf
<1>3. /\ Tail(work[a].plan) \in Seq(Updates)
      /\ Len(Tail(work[a].plan)) = Len(work[a].plan) - 1
      /\ \A i \in 1..(Len(work[a].plan) - 1) : /\ i + 1 \in 1..Len(work[a].plan)
                                               /\ Tail(work[a].plan)[i] = work[a].plan[i + 1]
  BY <1>2
<1>4. /\ w \in JobsOf(clock, committed) /\ w.plan = Tail(work[a].plan)
      /\ w.kind = work[a].kind /\ w.key = work[a].key /\ w.at = work[a].at
      /\ w.target = work[a].target
  BY <1>2, <1>3 DEF JobsOf
<1>5. work'[a] = w
  BY <1>1, <1>2
<1> HIDE DEF w
<1>6. QED
  BY <1>1, <1>3, <1>4, <1>5

LEMMA SkipStep ==
    ASSUME IInv, NEW a \in Admins, Skip(a)
    PROVE  IInv'
<1>1. Open(a) /\ pc[a] = "reading" /\ work[a].plan # <<>>
  BY DEF Skip, Open, InTransaction
<1>2. PICK w \in JobsOf(clock, committed) :
         work' = [work EXCEPT ![a] = w] /\ w.at = work[a].at
  BY <1>1, NextEntry DEF IInv, Skip
<1>3. pc' = [pc EXCEPT ![a] = "reading"]
  BY <1>1 DEF IInv, TypeOK, Skip
<1>4. told' \in [Keys -> SUBSET committed] /\ cache' \in Shelves
  BY DEF IInv, TypeOK, Skip
<1>5. "reading" \in Places /\ "reading" \in InTransaction
  BY DEF Places, InTransaction
<1>6. UNCHANGED <<cuts, history, ids, committed, keys, clock>>
  BY DEF Skip
<1>7. QED
  BY <1>1, <1>2, <1>3, <1>4, <1>5, <1>6, LogLeftAlone

\* The row that Write adds is the last one of its change set.
LEMMA Wrote ==
    ASSUME IInv, NEW a \in Admins, Write(a)
    PROVE  LET n == work[a].at
               m == Len(history[n]) + 1
               update == work[a].plan[1]
           IN /\ Open(a) /\ n \in 1..MaxSets /\ work[a].plan # <<>> /\ ids' = ids + 1
              /\ history' \in [1..MaxSets -> Seq(HistoryRows)]
              /\ m \in Nat /\ Len(history'[n]) = m
              /\ \A i \in 1..(m - 1) : history'[n][i] = history[n][i]
              /\ history'[n][m].id = ids + 1 /\ history'[n][m].cube = update.cube
              /\ history'[n][m].new = update.new /\ history'[n][m].prev = update.prev
              /\ update.cube \in Cubes
              /\ \A set \in (1..MaxSets) \ {n} : history'[set] = history[set]
              /\ \A b \in Admins \ {a} : Open(b) =>
                    \A i \in 1..Len(Own(b)) : Own(b)[i].cube # update.cube
<1> DEFINE n == work[a].at
           update == work[a].plan[1]
           row == [id |-> ids + 1, cube |-> update.cube, new |-> update.new,
                   prev |-> update.prev]
<1>1. /\ Open(a) /\ pc[a] = "writing" /\ n \in 1..MaxSets /\ work[a].plan # <<>>
      /\ ids' = ids + 1
  <2>1. Open(a) /\ pc[a] = "writing" /\ ids' = ids + 1
    BY DEF Write, Goto, Open, InTransaction
  <2>2. QED
    BY <2>1, OwnSet DEF IInv, TypeOK
<1>2. update = Head(work[a].plan) /\ update \in Updates
  <2>1. work[a].plan \in Seq(Updates)
    BY SomeJob DEF IInv
  <2>2. QED
    BY <1>1, <2>1
<1>3. /\ row \in HistoryRows /\ row.id = ids + 1 /\ row.cube = update.cube
      /\ row.new = update.new /\ row.prev = update.prev /\ update.cube \in Cubes
  <2>1. ids + 1 \in Nat
    BY Numbers DEF IInv
  <2>2. QED
    BY <1>2, <2>1 DEF HistoryRows, Updates, AnyCut
<1>4. history' = [history EXCEPT ![n] = Append(@, row)]
  BY <1>2 DEF Write
<1> HIDE DEF row
<1>5. /\ history \in [1..MaxSets -> Seq(HistoryRows)] /\ history[n] \in Seq(HistoryRows)
  BY <1>1 DEF IInv, TypeOK
<1>6. /\ Append(history[n], row) \in Seq(HistoryRows)
      /\ Len(Append(history[n], row)) = Len(history[n]) + 1
      /\ \A i \in 1..Len(history[n]) : Append(history[n], row)[i] = history[n][i]
      /\ Append(history[n], row)[Len(history[n]) + 1] = row
      /\ Len(history[n]) \in Nat
  BY <1>3, <1>5, AppendProperties
<1>7. /\ history' \in [1..MaxSets -> Seq(HistoryRows)]
      /\ history'[n] = Append(history[n], row)
      /\ \A set \in (1..MaxSets) \ {n} : history'[set] = history[set]
  BY <1>1, <1>4, <1>5, <1>6
<1>8. \A b \in Admins \ {a} : Open(b) =>
         \A i \in 1..Len(Own(b)) : Own(b)[i].cube # update.cube
  <2>1. SUFFICES ASSUME NEW b \in Admins \ {a}, Open(b), NEW i \in 1..Len(Own(b)),
                        Own(b)[i].cube = update.cube
                 PROVE  FALSE
    OBVIOUS
  <2>2. DOMAIN Own(b) = 1..Len(Own(b))
    BY <2>1, OwnSet, SomeRow DEF IInv, Own
  <2>3. update.cube \in Locked(b)
    BY <2>1, <2>2 DEF Locked, Open, InTransaction
  <2>4. Waits(a, b)
    BY <1>1, <1>2, <2>3 DEF Waits
  <2>5. QED
    BY <2>4 DEF Write
<1>9. QED
  BY <1>1, <1>3, <1>6, <1>7, <1>8, SMTT(30)

LEMMA WriteStep ==
    ASSUME IInv, NEW a \in Admins, Write(a)
    PROVE  IInv'
<1> DEFINE n == work[a].at
           m == Len(history[n]) + 1
           cube == work[a].plan[1].cube
<1>1. /\ Open(a) /\ n \in 1..MaxSets /\ work[a].plan # <<>> /\ ids' = ids + 1
      /\ history' \in [1..MaxSets -> Seq(HistoryRows)]
      /\ m \in Nat /\ Len(history'[n]) = m
      /\ \A i \in 1..(m - 1) : history'[n][i] = history[n][i]
      /\ history'[n][m].id = ids + 1 /\ history'[n][m].cube = cube
      /\ \A set \in (1..MaxSets) \ {n} : history'[set] = history[set]
      /\ \A b \in Admins \ {a} : Open(b) =>
            \A i \in 1..Len(Own(b)) : Own(b)[i].cube # cube
  BY Wrote, Zenon
<1>2. PICK w \in JobsOf(clock, committed) :
         work' = [work EXCEPT ![a] = w] /\ w.at = n
  BY <1>1, NextEntry, ZenonT(30) DEF IInv, Write
<1>3. /\ pc' = [pc EXCEPT ![a] = "reading"] /\ "reading" \in Places
      /\ UNCHANGED <<cuts, committed, keys, told, cache, clock>>
  BY DEF Write, Goto, Places
<1>4. /\ pc' \in [Admins -> Places]
      /\ work' \in [Admins -> JobsOf(clock', committed')]
      /\ \A b \in Admins : /\ pc'[b] = "idle" => work'[b] = NoWork
                           /\ pc'[b] = "writing" => work'[b].plan # <<>>
      /\ pc'[a] = "reading" /\ work'[a] = w
      /\ \A b \in Admins \ {a} : pc'[b] = pc[b] /\ work'[b] = work[b]
  <2>1. /\ TypeOK /\ clock' \in Nat /\ clock <= clock' /\ committed \subseteq committed'
        /\ w \in JobsOf(clock', committed')
    BY <1>3, Numbers DEF IInv
  <2>2. QED
    BY <1>2, <1>3, <2>1, Changed
<1>5. \A b \in Admins : (Open(b)' <=> Open(b)) /\ work'[b].at = work[b].at
  BY <1>1, <1>2, <1>4 DEF Open, InTransaction
<1>6. ids \in Nat /\ m - 1 = Len(history[n]) /\ Len(history[n]) \in Nat
  BY <1>1, SomeRow DEF IInv, TypeOK
<1>7. ASSUME NEW set \in 1..MaxSets, NEW i \in 1..Len(history'[set]), set # n \/ i # m
      PROVE  i \in 1..Len(history[set]) /\ history'[set][i] = history[set][i]
  <2>1. CASE set # n
    BY <1>1, <1>7, <2>1
  <2>2. CASE set = n /\ i # m
    <3>1. i \in 1..(m - 1)
      BY <1>1, <1>6, <1>7, <2>2
    <3>2. QED
      BY <1>1, <1>6, <2>2, <3>1
  <2>3. QED
    BY <1>7, <2>1, <2>2
<1>8. Begun'
  <2>1. ASSUME NEW b \in Admins
        PROVE  /\ Open(b)' => work'[b].at \in (1..clock') \ committed'
               /\ pc'[b] \in {"idle", "planned"} => work'[b].at = 0
               /\ pc'[b] = "committed" => work'[b].at \in committed'
    BY <1>1, <1>3, <1>4, <1>5 DEF IInv, Begun
  <2>2. ASSUME NEW b \in Admins, NEW c \in Admins,
               Open(b)', Open(c)', work'[b].at = work'[c].at
        PROVE  b = c
    BY <1>5, <2>2 DEF IInv, Begun
  <2>3. QED
    BY <2>1, <2>2 DEF Begun
<1>9. Logged'
  <2>1. ASSUME NEW set \in 1..MaxSets, history'[set] # <<>>
        PROVE  set \in committed' \/ \E b \in Admins : Open(b)' /\ work'[b].at = set
    <3>1. CASE set = n
      BY <1>1, <1>5, <3>1
    <3>2. CASE set # n
      <4>1. history[set] # <<>>
        BY <1>1, <2>1, <3>2
      <4>2. set \in committed \/ \E b \in Admins : Open(b) /\ work[b].at = set
        BY <4>1 DEF IInv, Logged
      <4>3. QED
        BY <1>3, <1>5, <4>2
    <3>3. QED
      BY <3>1, <3>2
  <2>2. ASSUME NEW set \in 1..MaxSets, NEW i \in 1..Len(history'[set])
        PROVE  history'[set][i].id <= ids'
    <3>1. CASE set # n \/ i # m
      <4>1. /\ i \in 1..Len(history[set]) /\ history'[set][i] = history[set][i]
            /\ history[set][i].id \in Nat
        BY <1>7, <3>1, SomeRow DEF IInv
      <4>2. history[set][i].id <= ids
        BY <4>1 DEF IInv, Logged
      <4>3. QED
        BY <1>1, <1>6, <4>1, <4>2
    <3>2. CASE set = n /\ i = m
      BY <1>1, <1>6, <3>2
    <3>3. QED
      BY <3>1, <3>2
  <2>3. ASSUME NEW set \in 1..MaxSets, NEW i \in 1..Len(history'[set]),
               NEW j \in 1..Len(history'[set]), i < j
        PROVE  history'[set][i].id < history'[set][j].id
    <3>1. CASE set # n \/ j # m
      <4>1. set # n \/ i # m
        BY <1>1, <2>3, <3>1
      <4>2. QED
        BY <1>7, <2>3, <3>1, <4>1 DEF IInv, Logged
    <3>2. CASE set = n /\ j = m
      <4>1. /\ i \in 1..Len(history[set]) /\ history'[set][i] = history[set][i]
            /\ history[set][i].id \in Nat
        <5>1. i # m
          BY <1>1, <2>3, <3>2
        <5>2. i \in 1..Len(history[set]) /\ history'[set][i] = history[set][i]
          BY <1>7, <5>1
        <5>3. QED
          BY <5>2, SomeRow DEF IInv
      <4>2. history[set][i].id <= ids
        BY <4>1 DEF IInv, Logged
      <4>3. QED
        BY <1>1, <1>6, <3>2, <4>1, <4>2
    <3>3. QED
      BY <3>1, <3>2
  <2>4. QED
    BY <2>1, <2>2, <2>3 DEF Logged
<1>10. Alone'
  <2>1. SUFFICES ASSUME NEW b \in Admins, Open(b)', NEW i \in 1..Len(Own(b)'),
                        NEW set \in (1..MaxSets) \ {work'[b].at},
                        NEW j \in 1..Len(history'[set]),
                        history'[set][j].cube = Own(b)'[i].cube
                 PROVE  set \in committed' /\ history'[set][j].id < Own(b)'[i].id
    BY DEF Alone
  <2>2. Open(b) /\ work'[b].at = work[b].at /\ work[b].at \in 1..MaxSets
    BY <1>5, <2>1, OwnSet
  <2>3. CASE b = a
    <3>1. Own(b)' = history'[n] /\ set # n
      BY <2>1, <2>2, <2>3 DEF Own
    <3>2. /\ j \in 1..Len(history[set]) /\ history'[set][j] = history[set][j]
          /\ history[set][j].id \in Nat /\ history[set] # <<>>
      BY <1>7, <2>1, <3>1, SomeRow DEF IInv
    <3>3. CASE i = m
      <4>1. history[set][j].cube = cube
        BY <1>1, <2>1, <3>1, <3>2, <3>3
      <4>2. set \in committed
        <5>1. SUFFICES ASSUME NEW d \in Admins, Open(d), work[d].at = set
                       PROVE  FALSE
          BY <3>2 DEF IInv, Logged
        <5>2. d # a /\ Own(d) = history[set]
          BY <3>1, <5>1 DEF Own
        <5>3. QED
          BY <1>1, <3>2, <4>1, <5>1, <5>2
      <4>3. history[set][j].id <= ids
        BY <3>2 DEF IInv, Logged
      <4>4. QED
        BY <1>1, <1>3, <1>6, <3>1, <3>2, <3>3, <4>2, <4>3
    <3>4. CASE i # m
      <4>1. i \in 1..Len(Own(b)) /\ Own(b)'[i] = Own(b)[i]
        <5>1. i \in 1..Len(history'[n]) /\ Own(b) = history[n]
          BY <2>1, <2>3, <3>1 DEF Own
        <5>2. QED
          BY <1>1, <1>7, <3>1, <3>4, <5>1
      <4>2. QED
        BY <1>3, <2>1, <2>2, <3>2, <4>1 DEF IInv, Alone
    <3>5. QED
      BY <3>3, <3>4
  <2>4. CASE b # a
    <3>1. work[b].at # n
      BY <1>1, <2>2, <2>4 DEF IInv, Begun
    <3>2. Own(b)' = Own(b)
      BY <1>1, <2>2, <3>1 DEF Own
    <3>3. CASE set = n /\ j = m
      BY <1>1, <2>1, <2>2, <2>4, <3>2, <3>3
    <3>4. CASE set # n \/ j # m
      <4>1. j \in 1..Len(history[set]) /\ history'[set][j] = history[set][j]
        BY <1>7, <2>1, <3>4
      <4>2. QED
        BY <1>3, <2>1, <2>2, <3>2, <4>1 DEF IInv, Alone
    <3>5. QED
      BY <3>3, <3>4
  <2>5. QED
    BY <2>3, <2>4
<1>11. Latest'
  <2>1. n \notin committed
    BY <1>1, OwnSet
  <2>2. \A set \in committed : history'[set] = history[set]
    BY <1>1, <2>1, Numbers DEF IInv
  <2>3. committed' = committed /\ cuts' = cuts
    BY <1>3
  <2>4. SUFFICES ASSUME NEW set \in committed, NEW i \in 1..Len(history'[set]),
                        IsLatest(set, i)'
                 PROVE  history'[set][i].new = cuts[history'[set][i].cube]
    BY <2>3 DEF Latest
  <2>5. IsLatest(set, i)
    BY <2>2, <2>3, <2>4 DEF IsLatest
  <2>6. QED
    BY <2>2, <2>4, <2>5 DEF IInv, Latest
<1>12. TypeOK'
  <2>1. ids' \in Nat
    BY <1>1, <1>6
  <2>2. QED
    BY <1>1, <1>3, <1>4, <1>9, <2>1 DEF IInv, TypeOK, JobsOf, Places, Logged
<1>13. QED
  BY <1>8, <1>9, <1>10, <1>11, <1>12 DEF IInv

\* Where a request is after its commit.
LEMMA Committed ==
    ASSUME IInv, NEW a \in Admins, Commit(a)
    PROVE  LET n == work[a].at
           IN /\ Open(a) /\ n \in 1..MaxSets /\ n \in 1..clock /\ n \notin committed
              /\ committed' = committed \union {n}
              /\ cuts' = Applied(cuts, history[n])
              /\ UNCHANGED <<history, ids, told, cache, clock>>
              /\ pc' \in [Admins -> Places]
              /\ work' \in [Admins -> JobsOf(clock', committed')]
              /\ \A b \in Admins : /\ pc'[b] = "idle" => work'[b] = NoWork
                                   /\ pc'[b] = "writing" => work'[b].plan # <<>>
              /\ \/ history[n] = <<>> /\ pc'[a] = "idle" /\ work'[a] = NoWork
                 \/ history[n] # <<>> /\ pc'[a] = "committed" /\ work'[a] = work[a]
              /\ \A b \in Admins \ {a} : pc'[b] = pc[b] /\ work'[b] = work[b]
              /\ ~Open(a)'
              /\ \A b \in Admins \ {a} : Open(b)' <=> Open(b)
<1> DEFINE n == work[a].at
           p == IF history[n] = <<>> THEN "idle" ELSE "committed"
           w == IF history[n] = <<>> THEN NoWork ELSE work[a]
<1>1. Open(a) /\ n \in 1..MaxSets /\ n \in 1..clock /\ n \notin committed
  <2>1. Open(a)
    BY DEF Commit, Open, InTransaction
  <2>2. QED
    BY <2>1, OwnSet
<1>2. /\ committed' = committed \union {n} /\ cuts' = Applied(cuts, history[n])
      /\ UNCHANGED <<history, ids, told, cache, clock>>
  BY DEF Commit, Own
<1>3. pc' = [pc EXCEPT ![a] = p] /\ work' = [work EXCEPT ![a] = w]
  BY DEF Commit, Own, IInv, TypeOK
<1>4. w \in JobsOf(clock', committed')
  <2>1. NoWork \in JobsOf(clock, committed)
    <3>1. 0 \in 0..clock
      BY Numbers DEF IInv
    <3>2. QED
      BY <3>1, EmptySeq DEF NoWork, JobsOf
  <2>2. work[a] \in JobsOf(clock, committed)
    BY SomeJob DEF IInv
  <2>3. JobsOf(clock, committed) \subseteq JobsOf(clock', committed')
    BY <1>2 DEF JobsOf
  <2>4. QED
    BY <2>1, <2>2, <2>3
<1>5. p \in Places /\ (p = "idle" => w = NoWork) /\ p # "writing" /\ p \notin InTransaction
  BY DEF Places, InTransaction
<1>6. \/ history[n] = <<>> /\ p = "idle" /\ w = NoWork
      \/ history[n] # <<>> /\ p = "committed" /\ w = work[a]
  OBVIOUS
<1> HIDE DEF p, w
<1>7. /\ pc' \in [Admins -> Places]
      /\ work' \in [Admins -> JobsOf(clock', committed')]
      /\ \A b \in Admins : /\ pc'[b] = "idle" => work'[b] = NoWork
                           /\ pc'[b] = "writing" => work'[b].plan # <<>>
      /\ pc'[a] = p /\ work'[a] = w
      /\ \A b \in Admins \ {a} : pc'[b] = pc[b] /\ work'[b] = work[b]
  <2>1. TypeOK /\ clock' \in Nat /\ clock <= clock' /\ committed \subseteq committed'
    BY <1>2, Numbers DEF IInv
  <2>2. QED
    BY <1>3, <1>4, <1>5, <2>1, Changed
<1>8. ~Open(a)' /\ \A b \in Admins \ {a} : Open(b)' <=> Open(b)
  BY <1>5, <1>7 DEF Open
<1>9. QED
  BY <1>1, <1>2, <1>6, <1>7, <1>8

LEMMA CommitStep ==
    ASSUME IInv, NEW a \in Admins, Commit(a)
    PROVE  IInv'
<1> DEFINE n == work[a].at
<1>1. /\ Open(a) /\ n \in 1..MaxSets /\ n \in 1..clock /\ n \notin committed
      /\ committed' = committed \union {n} /\ cuts' = Applied(cuts, history[n])
      /\ UNCHANGED <<history, ids, told, cache, clock>>
  BY Committed
<1>2. /\ pc' \in [Admins -> Places]
      /\ work' \in [Admins -> JobsOf(clock', committed')]
      /\ \A b \in Admins : /\ pc'[b] = "idle" => work'[b] = NoWork
                           /\ pc'[b] = "writing" => work'[b].plan # <<>>
      /\ \/ history[n] = <<>> /\ pc'[a] = "idle" /\ work'[a] = NoWork
         \/ history[n] # <<>> /\ pc'[a] = "committed" /\ work'[a] = work[a]
      /\ \A b \in Admins \ {a} : pc'[b] = pc[b] /\ work'[b] = work[b]
  BY Committed
<1>3. ~Open(a)' /\ \A b \in Admins \ {a} : (Open(b)' <=> Open(b)) /\ work'[b].at = work[b].at
  BY Committed
<1>4. \A b \in Admins \ {a} : Open(b) => work[b].at # n
  BY <1>1 DEF IInv, Begun
<1>5. Begun'
  <2>1. ASSUME NEW b \in Admins
        PROVE  /\ Open(b)' => work'[b].at \in (1..clock') \ committed'
               /\ pc'[b] \in {"idle", "planned"} => work'[b].at = 0
               /\ pc'[b] = "committed" => work'[b].at \in committed'
    <3>1. CASE b = a
      BY <1>1, <1>2, <1>3, <3>1 DEF NoWork
    <3>2. CASE b # a
      BY <1>1, <1>2, <1>3, <1>4, <3>2 DEF IInv, Begun
    <3>3. QED
      BY <3>1, <3>2
  <2>2. ASSUME NEW b \in Admins, NEW c \in Admins,
               Open(b)', Open(c)', work'[b].at = work'[c].at
        PROVE  b = c
    BY <1>3, <2>2 DEF IInv, Begun
  <2>3. QED
    BY <2>1, <2>2 DEF Begun
<1>6. Logged'
  <2>1. ASSUME NEW set \in 1..MaxSets, history[set] # <<>>
        PROVE  set \in committed' \/ \E b \in Admins : Open(b)' /\ work'[b].at = set
    <3>1. set \in committed \/ \E b \in Admins : Open(b) /\ work[b].at = set
      BY <2>1 DEF IInv, Logged
    <3>2. QED
      BY <1>1, <1>3, <3>1
  <2>2. history' = history /\ ids' = ids
    BY <1>1
  <2>3. QED
    BY <2>1, <2>2 DEF IInv, Logged
<1>7. Alone'
  <2>1. SUFFICES ASSUME NEW b \in Admins, Open(b)', NEW i \in 1..Len(Own(b)'),
                        NEW set \in (1..MaxSets) \ {work'[b].at},
                        NEW j \in 1..Len(history[set]),
                        history[set][j].cube = Own(b)'[i].cube
                 PROVE  set \in committed' /\ history[set][j].id < Own(b)'[i].id
    BY <1>1 DEF Alone
  <2>2. b # a /\ Open(b) /\ work'[b].at = work[b].at /\ Own(b)' = Own(b)
    BY <1>1, <1>3, <2>1 DEF Own
  <2>3. QED
    BY <1>1, <2>1, <2>2 DEF IInv, Alone
<1>8. Latest'
  <2>1. SUFFICES ASSUME NEW set \in committed', NEW i \in 1..Len(history[set]),
                        IsLatest(set, i)'
                 PROVE  history[set][i].new = cuts'[history[set][i].cube]
    BY <1>1 DEF Latest
  <2> DEFINE c == history[set][i].cube
             rows == history[n]
  <2>2. set \in 1..MaxSets /\ rows \in Seq(HistoryRows) /\ Len(rows) \in Nat
    BY <1>1, Numbers, SomeRow DEF IInv
  <2>3. c \in Cubes /\ history[set][i].id \in Nat
    BY <2>2, SomeRow DEF IInv
  <2>4. \A other \in committed' : \A j \in 1..Len(history[other]) :
           history[other][j].cube = c => history[other][j].id <= history[set][i].id
    BY <1>1, <2>1 DEF IsLatest
  <2>5. CASE \E j \in 1..Len(rows) : rows[j].cube = c
    <3>1. PICK k \in 1..Len(rows) :
             /\ rows[k].cube = c
             /\ \A j \in 1..Len(rows) : rows[j].cube = c => j <= k
             /\ Applied(cuts, rows)[c] = rows[k].new
      <4> HIDE DEF c, rows
      <4>1. QED
        BY <2>2, <2>3, <2>5, AppliedLast
    <3>2. rows[k].id <= history[set][i].id /\ rows[k].id \in Nat
      BY <1>1, <2>4, <3>1, SomeRow DEF IInv
    <3>3. CASE set = n
      <4>1. i <= k
        BY <3>1, <3>3
      <4>2. CASE i = k
        BY <1>1, <3>1, <3>3, <4>2
      <4>3. CASE i # k
        <5>1. i < k
          BY <2>2, <3>1, <4>1, <4>3
        <5>2. rows[i].id < rows[k].id
          BY <1>1, <3>1, <3>3, <5>1 DEF IInv, Logged
        <5>3. QED
          BY <2>3, <3>2, <3>3, <5>2
      <4>4. QED
        BY <4>2, <4>3
    <3>4. CASE set # n
      <4>1. Own(a) = rows
        BY DEF Own
      <4>2. history[set][i].id < rows[k].id
        BY <1>1, <2>2, <3>1, <3>4, <4>1 DEF IInv, Alone
      <4>3. QED
        BY <2>3, <3>2, <4>2
    <3>5. QED
      BY <3>3, <3>4
  <2>6. CASE \A j \in 1..Len(rows) : rows[j].cube # c
    <3>1. cuts'[c] = cuts[c]
      <4> HIDE DEF c, rows
      <4>1. Applied(cuts, rows)[c] = cuts[c]
        BY <2>2, <2>3, <2>6, AppliedLast
      <4>2. QED
        BY <1>1, <4>1 DEF rows
    <3>2. set \in committed
      BY <1>1, <2>6
    <3>3. IsLatest(set, i)
      BY <1>1, <2>4 DEF IsLatest
    <3>4. QED
      BY <3>1, <3>2, <3>3 DEF IInv, Latest
  <2>7. QED
    BY <2>5, <2>6
<1>9. TypeOK'
  <2>1. cuts' \in Shelves
    BY <1>1, AppliedType DEF IInv, TypeOK
  <2>2. keys' \in [Keys -> committed' \union {0}]
    BY <1>1 DEF IInv, TypeOK, Commit, Stored
  <2>3. told' \in [Keys -> SUBSET committed']
    BY <1>1 DEF IInv, TypeOK
  <2>4. committed' \subseteq 1..clock'
    BY <1>1 DEF IInv, TypeOK
  <2>5. \A set \in 1..MaxSets :
           history'[set] # <<>> => set \in committed' \union {work'[b].at : b \in Admins}
    BY <1>6 DEF Logged
  <2>6. QED
    BY <1>1, <1>2, <2>1, <2>2, <2>3, <2>4, <2>5 DEF IInv, TypeOK, JobsOf, Places
<1>10. QED
  BY <1>5, <1>6, <1>7, <1>8, <1>9 DEF IInv

\* A request ends without a commit, and its rows are gone.
LEMMA EndStep ==
    ASSUME IInv, NEW a \in Admins, pc[a] \in {"planned", "reading", "writing"},
           pc' = [pc EXCEPT ![a] = "idle"], work' = [work EXCEPT ![a] = NoWork],
           history' = RolledBack(a),
           UNCHANGED <<cuts, ids, committed, keys, told, cache, clock>>
    PROVE  IInv'
<1> DEFINE n == work[a].at
<1>1. /\ pc' \in [Admins -> Places]
      /\ work' \in [Admins -> JobsOf(clock', committed')]
      /\ \A b \in Admins : /\ pc'[b] = "idle" => work'[b] = NoWork
                           /\ pc'[b] = "writing" => work'[b].plan # <<>>
      /\ pc'[a] = "idle" /\ work'[a] = NoWork
      /\ \A b \in Admins \ {a} : pc'[b] = pc[b] /\ work'[b] = work[b]
  <2>1. NoWork \in JobsOf(clock', committed')
    <3>1. 0 \in 0..clock'
      BY Numbers DEF IInv
    <3>2. QED
      BY <3>1, EmptySeq DEF NoWork, JobsOf
  <2>2. TypeOK /\ clock' \in Nat /\ clock <= clock' /\ committed \subseteq committed'
    BY Numbers DEF IInv
  <2>3. "idle" \in Places
    BY DEF Places
  <2>4. QED
    BY <2>1, <2>2, <2>3, Changed
<1>2. ~Open(a)' /\ \A b \in Admins \ {a} : (Open(b)' <=> Open(b)) /\ work'[b].at = work[b].at
  BY <1>1 DEF Open, InTransaction
<1>3. n \notin committed
  <2>1. CASE pc[a] = "planned"
    BY <2>1, Numbers DEF IInv, Begun
  <2>2. CASE Open(a)
    BY <2>2, OwnSet
  <2>3. QED
    BY <2>1, <2>2 DEF Open, InTransaction
<1>4. /\ history' \in [1..MaxSets -> Seq(HistoryRows)]
      /\ \A set \in 1..MaxSets :
            history'[set] = IF set = n THEN <<>> ELSE history[set]
  BY EmptySeq DEF IInv, TypeOK, RolledBack
<1>5. \A set \in 1..MaxSets : \A i \in 1..Len(history'[set]) :
         set # n /\ history'[set] = history[set]
  BY <1>4
<1>6. \A set \in committed : history'[set] = history[set]
  BY <1>3, <1>4, Numbers DEF IInv
<1>7. Begun'
  <2>1. ASSUME NEW b \in Admins
        PROVE  /\ Open(b)' => work'[b].at \in (1..clock') \ committed'
               /\ pc'[b] \in {"idle", "planned"} => work'[b].at = 0
               /\ pc'[b] = "committed" => work'[b].at \in committed'
    <3>1. CASE b = a
      BY <1>1, <1>2, <3>1 DEF NoWork
    <3>2. CASE b # a
      BY <1>1, <1>2, <3>2 DEF IInv, Begun
    <3>3. QED
      BY <3>1, <3>2
  <2>2. ASSUME NEW b \in Admins, NEW c \in Admins,
               Open(b)', Open(c)', work'[b].at = work'[c].at
        PROVE  b = c
    BY <1>2, <2>2 DEF IInv, Begun
  <2>3. QED
    BY <2>1, <2>2 DEF Begun
<1>8. Logged'
  <2>1. ASSUME NEW set \in 1..MaxSets, history'[set] # <<>>
        PROVE  set \in committed' \/ \E b \in Admins : Open(b)' /\ work'[b].at = set
    <3>1. set # n /\ history[set] # <<>>
      BY <1>4, <2>1
    <3>2. set \in committed \/ \E b \in Admins : Open(b) /\ work[b].at = set
      BY <3>1 DEF IInv, Logged
    <3>3. QED
      BY <1>2, <3>1, <3>2
  <2>2. \A set \in 1..MaxSets : \A i \in 1..Len(history'[set]) :
           /\ history'[set][i].id <= ids'
           /\ \A j \in 1..Len(history'[set]) :
                 i < j => history'[set][i].id < history'[set][j].id
    BY <1>5 DEF IInv, Logged
  <2>3. QED
    BY <2>1, <2>2 DEF Logged
<1>9. Alone'
  <2>1. SUFFICES ASSUME NEW b \in Admins, Open(b)', NEW i \in 1..Len(Own(b)'),
                        NEW set \in (1..MaxSets) \ {work'[b].at},
                        NEW j \in 1..Len(history'[set]),
                        history'[set][j].cube = Own(b)'[i].cube
                 PROVE  set \in committed' /\ history'[set][j].id < Own(b)'[i].id
    BY DEF Alone
  <2>2. b # a /\ Open(b) /\ work'[b].at = work[b].at /\ work[b].at \in 1..MaxSets
    BY <1>2, <2>1, OwnSet
  <2>3. Own(b)' = history'[work[b].at]
    BY <2>2 DEF Own
  <2>4. Own(b)' = Own(b)
    BY <1>5, <2>1, <2>2, <2>3 DEF Own
  <2>5. history'[set] = history[set]
    BY <1>5, <2>1
  <2>6. QED
    BY <2>1, <2>2, <2>4, <2>5 DEF IInv, Alone
<1>10. Latest'
  <2>1. committed' = committed /\ cuts' = cuts
    OBVIOUS
  <2>2. SUFFICES ASSUME NEW set \in committed, NEW i \in 1..Len(history'[set]),
                        IsLatest(set, i)'
                 PROVE  history'[set][i].new = cuts[history'[set][i].cube]
    BY <2>1 DEF Latest
  <2>3. IsLatest(set, i)
    BY <1>6, <2>1, <2>2 DEF IsLatest
  <2>4. QED
    BY <1>6, <2>2, <2>3 DEF IInv, Latest
<1>11. TypeOK'
  BY <1>1, <1>4, <1>8 DEF IInv, TypeOK, JobsOf, Places, Logged
<1>12. QED
  BY <1>7, <1>8, <1>9, <1>10, <1>11 DEF IInv

\* A request ends after its commit.
LEMMA AnsweredStep ==
    ASSUME IInv, NEW a \in Admins, Goto(a, "committed", "idle"),
           work' = [work EXCEPT ![a] = NoWork],
           UNCHANGED <<cuts, history, ids, committed, keys, clock>>,
           told' \in [Keys -> SUBSET committed], cache' \in Shelves
    PROVE  IInv'
<1>1. pc' = [pc EXCEPT ![a] = "idle"] /\ ~Open(a)
  BY DEF Goto, Open, InTransaction
<1>2. "idle" \in Places /\ "idle" \notin InTransaction
  BY DEF Places, InTransaction
<1>3. NoWork \in JobsOf(clock, committed) /\ NoWork.at = 0
  <2>1. 0 \in 0..clock
    BY Numbers DEF IInv
  <2>2. QED
    BY <2>1, EmptySeq DEF NoWork, JobsOf
<1>4. QED
  BY <1>1, <1>2, <1>3, LogLeftAlone

LEMMA RebuildStep ==
    ASSUME IInv, NEW a \in Admins, Rebuild(a)
    PROVE  IInv'
<1>1. work[a].at \in committed
  BY DEF IInv, Begun, Rebuild, Goto
<1>2. told' \in [Keys -> SUBSET committed] /\ cache' \in Shelves
  BY <1>1 DEF IInv, TypeOK, Rebuild
<1>3. QED
  BY <1>2, AnsweredStep DEF Rebuild

LEMMA RebuildFailsStep ==
    ASSUME IInv, NEW a \in Admins, RebuildFails(a)
    PROVE  IInv'
<1>1. told' \in [Keys -> SUBSET committed] /\ cache' \in Shelves
  BY DEF IInv, TypeOK, RebuildFails
<1>2. QED
  BY <1>1, AnsweredStep DEF RebuildFails

-----------------------------------------------------------------------------
(* Theorems about any number of requests.                                  *)

LEMMA PlanStep ==
    ASSUME IInv, NEW a \in Admins, Plan(a)
    PROVE  IInv'
<1>1. ASSUME NEW updates \in UpdateLists, NEW key \in Keys \union {NoKey},
             PlanEdit(a, updates, key)
      PROVE  IInv'
  BY <1>1, PlanEditStep
<1>2. ASSUME NEW after \in 0..Size, NEW cut \in Cuts, PlanInsert(a, after, cut)
      PROVE  IInv'
  BY <1>2, PlanInsertStep
<1>3. ASSUME NEW file \in Files, NEW key \in Keys \union {NoKey}, PlanImport(a, file, key)
      PROVE  IInv'
  BY <1>3, PlanImportStep
<1>4. ASSUME NEW target \in 1..MaxSets, PlanRevert(a, target)
      PROVE  IInv'
  BY <1>4, PlanRevertStep
<1>5. QED
  BY <1>1, <1>2, <1>3, <1>4 DEF Plan

LEMMA InvariantStep == IInv /\ [Next]_vars => IInv'
<1> SUFFICES ASSUME IInv, [Next]_vars
             PROVE  IInv'
  OBVIOUS
<1>1. ASSUME NEW a \in Admins, NEW key \in Keys, Replay(a, key)
      PROVE  IInv'
  BY <1>1, ReplayStep
<1>2. ASSUME NEW a \in Admins, Plan(a)
      PROVE  IInv'
  BY <1>2, PlanStep
<1>3. ASSUME NEW a \in Admins, Begin(a)
      PROVE  IInv'
  BY <1>3, BeginStep
<1>4. ASSUME NEW a \in Admins, FetchCurrent(a)
      PROVE  IInv'
  BY <1>4, FetchCurrentStep
<1>5. ASSUME NEW a \in Admins, Restorable(a)
      PROVE  IInv'
  BY <1>5, RestorableStep
<1>6. ASSUME NEW a \in Admins, Skip(a)
      PROVE  IInv'
  BY <1>6, SkipStep
<1>7. ASSUME NEW a \in Admins, Write(a)
      PROVE  IInv'
  BY <1>7, WriteStep
<1>8. ASSUME NEW a \in Admins, Commit(a)
      PROVE  IInv'
  BY <1>8, CommitStep
<1>9. ASSUME NEW a \in Admins, Abort(a)
      PROVE  IInv'
  BY <1>9, EndStep DEF Abort
<1>10. ASSUME NEW a \in Admins, DeadlockVictim(a)
       PROVE  IInv'
  <2>1. pc[a] \in {"planned", "reading", "writing"}
    BY <1>10 DEF DeadlockVictim, Waits
  <2>2. QED
    BY <1>10, <2>1, EndStep DEF DeadlockVictim
<1>11. ASSUME NEW a \in Admins, RebuildFails(a)
       PROVE  IInv'
  BY <1>11, RebuildFailsStep
<1>12. ASSUME NEW a \in Admins, Rebuild(a)
       PROVE  IInv'
  BY <1>12, RebuildStep
<1>13. CASE UNCHANGED vars
  <2>1. UNCHANGED <<cuts, history, ids, committed, keys, told, cache, clock, pc, work>>
    BY <1>13 DEF vars
  <2>2. TypeOK' /\ Begun' /\ Logged'
    BY <2>1 DEF IInv, TypeOK, Begun, Logged, Open
  <2>3. Alone' /\ Latest'
    BY <2>1 DEF IInv, Alone, Latest, IsLatest, Open, Own
  <2>4. QED
    BY <2>2, <2>3 DEF IInv
<1>14. QED
  BY <1>1, <1>2, <1>3, <1>4, <1>5, <1>6, <1>7, <1>8, <1>9, <1>10, <1>11, <1>12, <1>13
  DEF Next, Transact

\* The inductive invariant, whatever requests overlap, fail or are rolled back.
THEOREM InvariantCorrect == Spec => []IInv
<1>1. QED
  BY Initially, InvariantStep, PTL DEF Spec

\* Every variable has its type: no key answers with a change set that is not
\* committed, and no row outlives a transaction that was rolled back.
THEOREM TypeCorrect == Spec => []TypeOK
<1>1. IInv => TypeOK
  BY DEF IInv
<1>2. QED
  BY <1>1, InvariantCorrect, PTL

LEMMA LatestIsCurrent == IInv => LatestRowIsCurrent
<1> SUFFICES ASSUME IInv, NEW c \in Cubes, NEW row \in RowsOf(c, committed),
                    Newest(row, RowsOf(c, committed))
             PROVE  row.new = cuts[c]
  BY DEF LatestRowIsCurrent
<1>1. \A set \in committed : DOMAIN history[set] = 1..Len(history[set])
  BY Numbers, SomeRow DEF IInv
<1>2. PICK set \in committed : \E i \in 1..Len(history[set]) :
         row = history[set][i] /\ history[set][i].cube = c
  BY <1>1 DEF RowsOf
<1>3. PICK i \in 1..Len(history[set]) : row = history[set][i] /\ history[set][i].cube = c
  BY <1>2
<1>4. IsLatest(set, i)
  <2>1. SUFFICES ASSUME NEW other \in committed, NEW j \in 1..Len(history[other]),
                        history[other][j].cube = c
                 PROVE  history[other][j].id <= row.id
    BY <1>3 DEF IsLatest
  <2>2. history[other][j] \in RowsOf(c, committed)
    BY <1>1, <2>1 DEF RowsOf
  <2>3. QED
    BY <2>2 DEF Newest
<1>5. QED
  BY <1>3, <1>4 DEF IInv, Latest

\* The newest committed row of a cube holds its cut, for any number of
\* transactions that overlap and any of them rolled back: the ids of the rows of
\* a cube are given out under the lock of the cube's row, so the order of the
\* ids is the order of the commits.
THEOREM LatestCorrect == Spec => []LatestRowIsCurrent
<1>1. QED
  BY LatestIsCurrent, InvariantCorrect, PTL

-----------------------------------------------------------------------------
(* Requests that are made one at a time.                                   *)

OneAtATime == \A a, b \in Admins : a = b

\* The open transaction is the last one that was begun.
Recent == \A a \in Admins : Open(a) => work[a].at = clock

\* A later change set has greater ids.
Ascending ==
    \A s, t \in 1..MaxSets : s < t =>
       \A i \in 1..Len(history[s]) : \A j \in 1..Len(history[t]) :
          history[s][i].id < history[t][j].id

\* What a key is answered with is what is stored for it, and nothing is stored
\* for the key of a request that has yet to commit.
Answered ==
    /\ \A a \in Admins : work[a].key # NoKey =>
          /\ pc[a] \in {"planned", "reading", "writing"} => keys[work[a].key] = 0
          /\ pc[a] = "committed" => keys[work[a].key] = work[a].at
    /\ \A k \in Keys : told[k] \subseteq {keys[k]}

LEMMA Goes ==
    ASSUME TypeOK, NEW a \in Admins, NEW from, NEW to, Goto(a, from, to)
    PROVE  pc[a] = from /\ pc'[a] = to
BY DEF TypeOK, Goto

\* What a valid request is after its validation.
LEMMA ValidatedJob ==
    ASSUME TypeOK, NEW a \in Admins, NEW kind, NEW updates, NEW key,
           Validated(a, kind, updates, key)
    PROVE  LET w == work'[a]
           IN /\ pc[a] = "idle" /\ pc'[a] = "planned"
              /\ w.kind = kind /\ w.key = key /\ w.at = 0 /\ w.target = 0
              /\ DOMAIN w.plan = DOMAIN updates
              /\ \A i \in DOMAIN updates : /\ w.plan[i].cube = updates[i].cube
                                           /\ w.plan[i].new = updates[i].new
<1> DEFINE plan == [i \in DOMAIN updates |->
                      [cube |-> updates[i].cube, new |-> updates[i].new,
                       prev |-> NoCut]]
           w == [NoWork EXCEPT !.kind = kind, !.key = key, !.plan = plan]
<1>1. work' = [work EXCEPT ![a] = w] /\ Goto(a, "idle", "planned")
  BY DEF Validated
<1>2. pc[a] = "idle" /\ pc'[a] = "planned"
  BY <1>1, Goes
<1>3. work'[a] = w
  BY <1>1 DEF TypeOK
<1>4. /\ DOMAIN plan = DOMAIN updates
      /\ \A i \in DOMAIN updates : /\ plan[i].cube = updates[i].cube
                                   /\ plan[i].new = updates[i].new
  OBVIOUS
<1> HIDE DEF plan
<1>5. w.kind = kind /\ w.key = key /\ w.at = 0 /\ w.target = 0 /\ w.plan = plan
  BY DEF NoWork
<1> HIDE DEF w
<1>6. QED
  BY <1>2, <1>3, <1>4, <1>5

\* A request is a revert, or a list of updates whose key has no answer yet.
LEMMA Requested ==
    ASSUME IInv, NEW a \in Admins, Plan(a)
    PROVE  \/ \E target \in 1..MaxSets : PlanRevert(a, target)
           \/ \E kind \in {"edit", "insert", "import"}, key \in Keys \union {NoKey},
                 updates \in UNION {[1..n -> [cube : Cubes, new : AnyCut]] : n \in Nat} :
                 /\ NotSeen(key) /\ Validated(a, kind, updates, key)
                 /\ ~Duplicates => \A i, j \in DOMAIN updates :
                                      updates[i].cube = updates[j].cube => i = j
<1> DEFINE Lists == UNION {[1..n -> [cube : Cubes, new : AnyCut]] : n \in Nat}
           Distinct(updates) == \A i, j \in DOMAIN updates :
                                   updates[i].cube = updates[j].cube => i = j
<1>1. ASSUME NEW updates \in UpdateLists, NEW key \in Keys \union {NoKey},
             PlanEdit(a, updates, key)
      PROVE  /\ NotSeen(key) /\ Validated(a, "edit", updates, key)
             /\ updates \in Lists /\ (~Duplicates => Distinct(updates))
  <2>1. updates \in Lists /\ (~Duplicates => Distinct(updates))
    BY EditingAssumption DEF UpdateLists, AnyCut
  <2>2. QED
    BY <1>1, <2>1 DEF PlanEdit
<1>2. ASSUME NEW after \in 0..Size, NEW cut \in Cuts, PlanInsert(a, after, cut)
      PROVE  LET cascade == Cascade(cache, after, cut)
             IN /\ NotSeen(NoKey) /\ Validated(a, "insert", cascade, NoKey)
                /\ cascade \in Lists /\ Distinct(cascade)
  <2> DEFINE cascade == Cascade(cache, after, cut)
             n == Absorber(cache, after) - after
  <2>1. cache \in Shelves /\ Size \in Nat
    BY ShelfAssumption DEF IInv, TypeOK
  <2>2. Absorber(cache, after) \in Cubes /\ Absorber(cache, after) > after
    BY <1>2, <2>1, AbsorberIsEmpty DEF PlanInsert
  <2>3. n \in Nat
    BY <2>1, <2>2 DEF Cubes
  <2>4. cascade = [i \in 1..n |->
                     [cube |-> after + i,
                      new |-> IF i = 1 THEN cut ELSE cache[after + i - 1]]]
    BY DEF Cascade
  <2>5. ASSUME NEW i \in 1..n
        PROVE  /\ after + i \in Cubes
               /\ (IF i = 1 THEN cut ELSE cache[after + i - 1]) \in AnyCut
    <3>1. after + i \in Cubes /\ (i # 1 => after + i - 1 \in Cubes)
      BY <2>1, <2>2 DEF Cubes
    <3>2. QED
      BY <2>1, <3>1 DEF Shelves, AnyCut
  <2> HIDE DEF n
  <2>6. cascade \in [1..n -> [cube : Cubes, new : AnyCut]]
    BY <2>4, <2>5
  <2>7. \A i \in 1..n : cascade[i].cube = after + i
    BY <2>4
  <2>8. DOMAIN cascade = 1..n
    BY <2>4
  <2>9. Distinct(cascade)
    <3> HIDE DEF cascade
    <3>1. QED
      BY <2>1, <2>3, <2>7, <2>8
  <2>10. Validated(a, "insert", cascade, NoKey)
    BY <1>2 DEF PlanInsert
  <2> HIDE DEF cascade
  <2>11. cascade \in Lists
    BY <2>3, <2>6
  <2>12. NotSeen(NoKey)
    BY DEF NotSeen
  <2>13. QED
    BY <2>9, <2>10, <2>11, <2>12 DEF cascade
<1>3. ASSUME NEW file \in Files, NEW key \in Keys \union {NoKey}, PlanImport(a, file, key)
      PROVE  LET updates == [c \in Cubes |-> [cube |-> c, new |-> file[c]]]
             IN /\ NotSeen(key) /\ Validated(a, "import", updates, key)
                /\ updates \in Lists /\ Distinct(updates)
  <2> DEFINE updates == [c \in Cubes |-> [cube |-> c, new |-> file[c]]]
  <2>1. file \in Shelves /\ Size \in Nat /\ Cubes = 1..Size
    BY ShelfAssumption, EditingAssumption DEF Cubes
  <2>2. updates \in [1..Size -> [cube : Cubes, new : AnyCut]] /\ DOMAIN updates = Cubes
    BY <2>1 DEF Shelves, AnyCut
  <2>3. Distinct(updates)
    OBVIOUS
  <2>4. NotSeen(key) /\ Validated(a, "import", updates, key)
    BY <1>3 DEF PlanImport
  <2> HIDE DEF updates
  <2>5. updates \in Lists
    BY <2>1, <2>2
  <2>6. QED
    BY <2>3, <2>4, <2>5 DEF updates
<1> HIDE DEF Lists
<1>4. CASE \E updates \in UpdateLists, key \in Keys \union {NoKey} :
              PlanEdit(a, updates, key)
  BY <1>1, <1>4 DEF Lists
<1>5. CASE \E after \in 0..Size, cut \in Cuts : PlanInsert(a, after, cut)
  BY <1>2, <1>5 DEF Lists
<1>6. CASE \E file \in Files, key \in Keys \union {NoKey} : PlanImport(a, file, key)
  BY <1>3, <1>6 DEF Lists
<1>7. QED
  BY <1>4, <1>5, <1>6 DEF Plan

\* A request has an open transaction only since it has begun it.
LEMMA Course ==
    ASSUME IInv, NEW a \in Admins, Transact(a) \/ Rebuild(a)
    PROVE  \/ Open(a)' /\ work'[a].at = clock'
           \/ clock' = clock /\ (Open(a)' => Open(a) /\ work'[a].at = work[a].at)
<1>1. TypeOK /\ work[a] \in JobsOf(clock, committed)
  BY SomeJob DEF IInv
<1>2. ASSUME NEW key \in Keys, Replay(a, key)
      PROVE  clock' = clock /\ (Open(a)' => Open(a) /\ work'[a].at = work[a].at)
  BY <1>2 DEF Replay, Open
<1>3. ASSUME pc'[a] \in {"idle", "planned", "committed"}, clock' = clock
      PROVE  clock' = clock /\ (Open(a)' => Open(a) /\ work'[a].at = work[a].at)
  BY <1>3 DEF Open, InTransaction
<1>4. CASE Plan(a)
  <2>1. pc'[a] = "planned" /\ clock' = clock
    <3>1. ASSUME NEW target \in 1..MaxSets, PlanRevert(a, target)
          PROVE  pc'[a] = "planned" /\ clock' = clock
      BY <1>1, <3>1, Goes DEF PlanRevert
    <3>2. ASSUME NEW kind, NEW key, NEW updates, Validated(a, kind, updates, key)
          PROVE  pc'[a] = "planned" /\ clock' = clock
      BY <1>1, <3>2, Goes DEF Validated
    <3>3. QED
      BY <1>4, <3>1, <3>2, Requested
  <2>2. QED
    BY <1>3, <2>1
<1>5. CASE Begin(a)
  <2>1. work'[a] = [work[a] EXCEPT !.at = clock'] /\ clock' = clock + 1
    BY <1>1, <1>5 DEF Begin, TypeOK
  <2>2. work'[a].at = clock'
    BY <1>1, <2>1 DEF JobsOf
  <2>3. Open(a)'
    BY <1>1, <1>5, Goes DEF Begin, Open, InTransaction
  <2>4. QED
    BY <2>2, <2>3
<1>6. CASE FetchCurrent(a)
  <2>1. Open(a)
    BY <1>6 DEF FetchCurrent, Goto, Open, InTransaction
  <2>2. work'[a].at = work[a].at
    BY <1>1, <1>6, <2>1, OwnSet, Fetched
  <2>3. QED
    BY <1>6, <2>1, <2>2 DEF FetchCurrent
<1>7. CASE Restorable(a)
  BY <1>7 DEF Restorable, Goto, Open, InTransaction
<1>8. CASE Skip(a)
  <2>1. work'[a].at = work[a].at
    BY <1>1, <1>8, NextEntry DEF Skip
  <2>2. QED
    BY <1>8, <2>1 DEF Skip, Open
<1>9. CASE Write(a)
  <2>1. Open(a) /\ work[a].plan # <<>>
    BY <1>9, Wrote
  <2>2. work'[a].at = work[a].at
    BY <1>1, <1>9, <2>1, NextEntry DEF Write
  <2>3. QED
    BY <1>9, <2>1, <2>2 DEF Write
<1>10. CASE Commit(a)
  BY <1>10, Committed
<1>11. CASE Abort(a) \/ DeadlockVictim(a)
  <2>1. pc'[a] = "idle" /\ clock' = clock
    BY <1>1, <1>11 DEF Abort, DeadlockVictim, TypeOK
  <2>2. QED
    BY <1>3, <2>1
<1>12. CASE RebuildFails(a) \/ Rebuild(a)
  <2>1. pc'[a] = "idle" /\ clock' = clock
    BY <1>1, <1>12, Goes DEF RebuildFails, Rebuild
  <2>2. QED
    BY <1>3, <2>1
<1>13. QED
  BY <1>2, <1>4, <1>5, <1>6, <1>7, <1>8, <1>9, <1>10, <1>11, <1>12 DEF Transact

LEMMA RecentStep ==
    ASSUME OneAtATime, IInv, Recent, NEW a \in Admins, Transact(a) \/ Rebuild(a)
    PROVE  Recent'
<1>1. CASE Open(a)' /\ work'[a].at = clock'
  BY <1>1 DEF OneAtATime, Recent
<1>2. CASE clock' = clock /\ (Open(a)' => Open(a) /\ work'[a].at = work[a].at)
  BY <1>2 DEF OneAtATime, Recent
<1>3. QED
  BY <1>1, <1>2, Course

\* There is nothing after the last transaction.
LEMMA NoneLater ==
    ASSUME IInv, NEW set \in 1..MaxSets, set > clock
    PROVE  history[set] = <<>>
<1>1. /\ clock \in Nat /\ committed \subseteq 1..clock
      /\ \A a \in Admins : Open(a) => work[a].at \in 1..clock
  BY Numbers, OwnSet DEF IInv
<1>2. QED
  BY <1>1 DEF IInv, Logged

\* What a step does to the log.
LEMMA LogStep ==
    ASSUME NEW a \in Admins, Transact(a) \/ Rebuild(a)
    PROVE  \/ Write(a)
           \/ history' = RolledBack(a) /\ pc[a] \in {"planned", "reading", "writing"}
           \/ history' = history
<1>1. ASSUME NEW key \in Keys, Replay(a, key)
      PROVE  history' = history
  BY <1>1, ZenonT(30) DEF Replay
<1>2. CASE Plan(a)
  BY <1>2 DEF Plan, PlanEdit, PlanInsert, PlanImport, PlanRevert, Validated
<1>3. CASE Begin(a) \/ FetchCurrent(a) \/ Restorable(a) \/ Skip(a) \/ Commit(a)
  BY <1>3 DEF Begin, FetchCurrent, Restorable, Skip, Commit
<1>4. CASE RebuildFails(a) \/ Rebuild(a)
  BY <1>4 DEF RebuildFails, Rebuild
<1>5. CASE Abort(a) \/ DeadlockVictim(a)
  BY <1>5 DEF Abort, DeadlockVictim, Waits
<1>6. QED
  BY <1>1, <1>2, <1>3, <1>4, <1>5 DEF Transact

LEMMA RolledBackRows ==
    ASSUME TypeOK, NEW a \in Admins, history' = RolledBack(a)
    PROVE  /\ \A set \in 1..MaxSets :
                 history'[set] = IF set = work[a].at THEN <<>> ELSE history[set]
           /\ \A set \in 1..MaxSets : \A i \in 1..Len(history'[set]) :
                 set # work[a].at /\ history'[set] = history[set]
<1>1. \A set \in 1..MaxSets :
         history'[set] = IF set = work[a].at THEN <<>> ELSE history[set]
  BY DEF TypeOK, RolledBack
<1>2. QED
  BY <1>1

LEMMA AscendingStep ==
    ASSUME OneAtATime, IInv, Recent, Ascending, NEW a \in Admins,
           Transact(a) \/ Rebuild(a)
    PROVE  Ascending'
<1>1. CASE Write(a)
  <2> DEFINE n == work[a].at
             m == Len(history[n]) + 1
  <2>1. /\ Open(a) /\ n \in 1..MaxSets /\ m \in Nat /\ Len(history'[n]) = m
        /\ \A i \in 1..(m - 1) : history'[n][i] = history[n][i]
        /\ history'[n][m].id = ids + 1
        /\ \A set \in (1..MaxSets) \ {n} : history'[set] = history[set]
    BY <1>1, Wrote
  <2>2. n = clock /\ n \in Nat
    BY <2>1 DEF Recent
  <2>3. SUFFICES ASSUME NEW s \in 1..MaxSets, NEW t \in 1..MaxSets, s < t,
                        NEW i \in 1..Len(history'[s]), NEW j \in 1..Len(history'[t])
                 PROVE  history'[s][i].id < history'[t][j].id
    BY DEF Ascending
  <2>4. s # n
    <3>1. SUFFICES ASSUME s = n
                   PROVE  FALSE
      OBVIOUS
    <3>2. history'[t] = history[t] /\ history[t] = <<>>
      BY <2>1, <2>2, <2>3, <3>1, NoneLater
    <3>3. QED
      BY <2>3, <3>2
  <2>5. i \in 1..Len(history[s]) /\ history'[s][i] = history[s][i]
    BY <2>1, <2>3, <2>4
  <2>6. CASE t = n /\ j = m
    <3>1. history[s][i].id \in Nat /\ history[s][i].id <= ids /\ ids \in Nat
      BY <2>5, SomeRow, Numbers DEF IInv, Logged
    <3>2. QED
      BY <2>1, <2>5, <2>6, <3>1
  <2>7. CASE t # n \/ j # m
    <3>1. j \in 1..Len(history[t]) /\ history'[t][j] = history[t][j]
      <4>1. m - 1 = Len(history[n]) /\ Len(history[n]) \in Nat
        BY <2>1, SomeRow DEF IInv
      <4>2. CASE t = n
        <5>1. j \in 1..(m - 1)
          BY <2>1, <2>3, <2>7, <4>2
        <5>2. QED
          BY <2>1, <4>1, <4>2, <5>1
      <4>3. CASE t # n
        BY <2>1, <2>3, <4>3
      <4>4. QED
        BY <4>2, <4>3
    <3>2. QED
      BY <2>3, <2>5, <3>1 DEF Ascending
  <2>8. QED
    BY <2>6, <2>7
<1>2. CASE history' = RolledBack(a)
  <2>1. \A set \in 1..MaxSets : \A i \in 1..Len(history'[set]) :
           history'[set] = history[set]
    BY <1>2, RolledBackRows DEF IInv
  <2>2. QED
    BY <2>1 DEF Ascending
<1>3. CASE history' = history
  BY <1>3 DEF Ascending
<1>4. QED
  BY <1>1, <1>2, <1>3, LogStep

Uncommitted == {"planned", "reading", "writing"}

\* A step that stores no answer and gives none.
LEMMA AnswersKept ==
    ASSUME OneAtATime, Answered, NEW a \in Admins, keys' = keys, told' = told,
           \/ work'[a].key = NoKey
           \/ /\ pc'[a] \in Uncommitted
              /\ pc[a] \in Uncommitted /\ work'[a].key = work[a].key
    PROVE  Answered'
<1>1. ASSUME NEW b \in Admins, work'[b].key # NoKey
      PROVE  /\ pc'[b] \in {"planned", "reading", "writing"} => keys'[work'[b].key] = 0
             /\ pc'[b] = "committed" => keys'[work'[b].key] = work'[b].at
  <2>1. b = a
    BY DEF OneAtATime
  <2>2. pc'[a] # "committed" /\ keys[work[a].key] = 0 /\ work'[a].key = work[a].key
    BY <1>1, <2>1 DEF Answered, Uncommitted
  <2>3. QED
    BY <2>1, <2>2
<1>2. QED
  BY <1>1 DEF Answered

LEMMA AnswersStep ==
    ASSUME OneAtATime, IInv, Answered, NEW a \in Admins, Transact(a) \/ Rebuild(a)
    PROVE  Answered'
<1>1. TypeOK /\ work[a] \in JobsOf(clock, committed)
  BY SomeJob DEF IInv
<1>2. ASSUME NEW key \in Keys, Replay(a, key)
      PROVE  Answered'
  <2>1. told' = [told EXCEPT ![key] = told[key] \union {keys[key]}]
    BY <1>2 DEF Replay
  <2>2. \A k \in Keys : told'[k] \subseteq {keys[k]}
    BY <1>1, <2>1 DEF Answered, TypeOK
  <2>3. keys' = keys /\ pc' = pc /\ work' = work
    BY <1>2 DEF Replay
  <2>4. QED
    BY <2>2, <2>3 DEF Answered
<1>3. CASE Plan(a)
  <2>1. ASSUME NEW target \in 1..MaxSets, PlanRevert(a, target)
        PROVE  Answered'
    <3>1. work'[a].key = NoKey /\ keys' = keys /\ told' = told
      BY <1>1, <2>1, RevertPlan DEF PlanRevert
    <3>2. QED
      BY <3>1, AnswersKept
  <2>2. ASSUME NEW kind, NEW key, NEW updates, NotSeen(key),
               Validated(a, kind, updates, key)
        PROVE  Answered'
    <3>1. pc'[a] = "planned" /\ work'[a].key = key /\ keys' = keys /\ told' = told
      <4>1. pc'[a] = "planned" /\ work'[a].key = key
        BY <1>1, <2>2, ValidatedJob
      <4>2. QED
        BY <2>2, <4>1 DEF Validated
    <3>2. \A b \in Admins : b = a
      BY DEF OneAtATime
    <3>3. QED
      BY <2>2, <3>1, <3>2 DEF Answered, NotSeen
  <2>3. QED
    BY <1>3, <2>1, <2>2, Requested
<1>4. CASE Begin(a)
  <2>1. work'[a] = [work[a] EXCEPT !.at = clock + 1] /\ keys' = keys /\ told' = told
    BY <1>1, <1>4 DEF Begin, TypeOK
  <2>2. work'[a].key = work[a].key
    BY <1>1, <2>1 DEF JobsOf
  <2>3. pc[a] = "planned" /\ pc'[a] = "reading"
    BY <1>1, <1>4, Goes DEF Begin
  <2>4. QED
    BY <2>1, <2>2, <2>3, AnswersKept DEF Uncommitted
<1>5. CASE FetchCurrent(a)
  <2>1. pc[a] = "reading" /\ pc'[a] = "writing" /\ keys' = keys /\ told' = told
    BY <1>1, <1>5, Goes DEF FetchCurrent
  <2>2. work'[a].key = work[a].key
    BY <1>1, <1>5, <2>1, OwnSet, Fetched DEF Open, InTransaction
  <2>3. QED
    BY <2>1, <2>2, AnswersKept DEF Uncommitted
<1>6. CASE Restorable(a)
  <2>1. pc[a] = "reading" /\ pc'[a] = "writing"
    BY <1>1, <1>6, Goes DEF Restorable
  <2>2. work' = work /\ keys' = keys /\ told' = told
    BY <1>6 DEF Restorable
  <2>3. QED
    BY <2>1, <2>2, AnswersKept DEF Uncommitted
<1>7. CASE Skip(a)
  <2>1. pc[a] = "reading" /\ pc'[a] = "reading" /\ keys' = keys /\ told' = told
    BY <1>7 DEF Skip
  <2>2. work'[a].key = work[a].key
    BY <1>1, <1>7, NextEntry DEF Skip
  <2>3. QED
    BY <2>1, <2>2, AnswersKept DEF Uncommitted
<1>8. CASE Write(a)
  <2>1. pc[a] = "writing" /\ pc'[a] = "reading" /\ keys' = keys /\ told' = told
    BY <1>1, <1>8, Goes DEF Write
  <2>2. work[a].plan # <<>>
    BY <1>8, Wrote
  <2>3. work'[a].key = work[a].key
    BY <1>1, <1>8, <2>2, NextEntry DEF Write
  <2>4. QED
    BY <2>1, <2>3, AnswersKept DEF Uncommitted
<1>9. CASE Commit(a)
  <2> DEFINE key == work[a].key
  <2>1. /\ told' = told /\ work[a].at \notin committed
        /\ \/ pc'[a] = "idle" /\ work'[a] = NoWork
           \/ pc'[a] = "committed" /\ work'[a] = work[a]
    BY <1>9, Committed
  <2>2. pc[a] = "reading" /\ keys' = Stored(a) /\ key \in Keys \union {NoKey}
    BY <1>1, <1>9, SomeJob DEF Commit
  <2>3. CASE key = NoKey
    <3>1. keys' = keys
      BY <2>2, <2>3 DEF Stored
    <3>2. work'[a].key = NoKey
      BY <2>1, <2>3 DEF NoWork
    <3>3. QED
      BY <2>1, <3>1, <3>2, AnswersKept
  <2>4. CASE key # NoKey
    <3>1. keys[key] = 0 /\ key \in Keys
      BY <2>2, <2>4 DEF Answered
    <3>2. keys' = [keys EXCEPT ![key] = work[a].at]
      BY <2>2, <2>4, <3>1 DEF Stored, NotSeen
    <3>3. /\ keys'[key] = work[a].at
          /\ \A k \in Keys \ {key} : keys'[k] = keys[k]
      BY <1>1, <3>1, <3>2 DEF TypeOK
    <3>4. told[key] = {}
      <4>1. told[key] \subseteq {0} /\ told[key] \subseteq committed
        BY <1>1, <3>1 DEF Answered, TypeOK
      <4>2. QED
        BY <1>1, <4>1, Numbers
    <3>5. \A k \in Keys : told'[k] \subseteq {keys'[k]}
      BY <2>1, <3>3, <3>4 DEF Answered
    <3>6. ASSUME NEW b \in Admins, work'[b].key # NoKey
          PROVE  /\ pc'[b] \in {"planned", "reading", "writing"} => keys'[work'[b].key] = 0
                 /\ pc'[b] = "committed" => keys'[work'[b].key] = work'[b].at
      <4>1. b = a
        BY DEF OneAtATime
      <4>2. pc'[a] = "committed" /\ work'[a] = work[a]
        BY <2>1, <3>6, <4>1 DEF NoWork
      <4>3. QED
        BY <3>3, <4>1, <4>2
    <3>7. QED
      BY <3>5, <3>6 DEF Answered
  <2>5. QED
    BY <2>3, <2>4
<1>10. CASE Abort(a) \/ DeadlockVictim(a) \/ RebuildFails(a)
  <2>1. work'[a] = NoWork /\ keys' = keys /\ told' = told
    BY <1>1, <1>10 DEF Abort, DeadlockVictim, RebuildFails, TypeOK
  <2>2. QED
    BY <2>1, AnswersKept DEF NoWork
<1>11. CASE Rebuild(a)
  <2>1. work'[a] = NoWork /\ keys' = keys /\ pc[a] = "committed"
    BY <1>1, <1>11 DEF Rebuild, Goto, TypeOK
  <2>2. \A b \in Admins : work'[b].key = NoKey
    BY <2>1 DEF OneAtATime, NoWork
  <2>3. \A k \in Keys : told'[k] \subseteq {keys[k]}
    <3>1. NoKey \notin Keys
      BY EditingAssumption
    <3>2. QED
      BY <1>11, <2>1, <3>1 DEF Rebuild, Answered
  <2>4. QED
    BY <2>1, <2>2, <2>3 DEF Answered
<1>12. QED
  BY <1>2, <1>3, <1>4, <1>5, <1>6, <1>7, <1>8, <1>9, <1>10, <1>11 DEF Transact

\* row restores what old replaced, and records what old wrote as replaced.
Undoes(row, old) == row.cube = old.cube /\ row.new = old.prev /\ row.prev = old.new

\* No later change set that has committed has a row for the cube.
Untouched(c, target) ==
    \A set \in committed : set > target =>
       \A j \in 1..Len(history[set]) : history[set][j].cube # c

\* What a revert is about to do and has done undoes rows of its target, and
\* what it has written it has found to be written last by its target.
Reverts(a) ==
    work[a].kind = "revert" =>
       /\ work[a].target \in committed
       /\ \A i \in 1..Len(work[a].plan) :
             \E j \in 1..Len(history[work[a].target]) :
                Undoes(work[a].plan[i], history[work[a].target][j])
       /\ Open(a) => \A i \in 1..Len(Own(a)) :
             /\ Untouched(Own(a)[i].cube, work[a].target)
             /\ \E j \in 1..Len(history[work[a].target]) :
                   Undoes(Own(a)[i], history[work[a].target][j])
       /\ pc[a] = "writing" => Untouched(work[a].plan[1].cube, work[a].target)

Reverting == \A a \in Admins : Reverts(a)

LEMMA NotReverting ==
    ASSUME OneAtATime, NEW a \in Admins, work'[a].kind # "revert"
    PROVE  Reverting'
BY DEF OneAtATime, Reverting, Reverts

\* A revert goes on.
LEMMA RevertGoesOn ==
    ASSUME OneAtATime, IInv, Reverting, NEW a \in Admins,
           committed' = committed, \A set \in committed : history'[set] = history[set],
           work'[a].kind = work[a].kind, work'[a].target = work[a].target,
           \A i \in 1..Len(work'[a].plan) : \E j \in 1..Len(work[a].plan) :
              work'[a].plan[i] = work[a].plan[j],
           Open(a)' => \A i \in 1..Len(Own(a)') :
              \/ Open(a) /\ \E j \in 1..Len(Own(a)) : Own(a)'[i] = Own(a)[j]
              \/ /\ pc[a] = "writing" /\ work[a].plan # <<>>
                 /\ Own(a)'[i].cube = work[a].plan[1].cube
                 /\ Own(a)'[i].new = work[a].plan[1].new
                 /\ Own(a)'[i].prev = work[a].plan[1].prev,
           work[a].kind = "revert" /\ pc'[a] = "writing" =>
              Untouched(work'[a].plan[1].cube, work[a].target)
    PROVE  Reverting'
<1> DEFINE target == work[a].target
<1>1. SUFFICES ASSUME work[a].kind = "revert"
               PROVE  Reverts(a)'
  <2>1. \A b \in Admins : b = a
    BY DEF OneAtATime
  <2>2. CASE work[a].kind # "revert"
    BY <2>1, <2>2 DEF Reverting, Reverts
  <2>3. QED
    BY <2>1, <2>2 DEF Reverting
<1>2. /\ target \in committed /\ history'[target] = history[target]
      /\ \A i \in 1..Len(work[a].plan) : \E j \in 1..Len(history[target]) :
            Undoes(work[a].plan[i], history[target][j])
      /\ pc[a] = "writing" => Untouched(work[a].plan[1].cube, target)
      /\ Open(a) => \A i \in 1..Len(Own(a)) :
            /\ Untouched(Own(a)[i].cube, target)
            /\ \E j \in 1..Len(history[target]) : Undoes(Own(a)[i], history[target][j])
  BY <1>1 DEF Reverting, Reverts
<1>3. \A c : Untouched(c, target) =>
         \A set \in committed' : set > target =>
            \A j \in 1..Len(history'[set]) : history'[set][j].cube # c
  BY DEF Untouched
<1>4. \A i \in 1..Len(work'[a].plan) : \E j \in 1..Len(history[target]) :
         Undoes(work'[a].plan[i], history[target][j])
  BY <1>2
<1>5. ASSUME Open(a)', NEW i \in 1..Len(Own(a)')
      PROVE  /\ Untouched(Own(a)'[i].cube, target)
             /\ \E j \in 1..Len(history[target]) : Undoes(Own(a)'[i], history[target][j])
  <2>1. CASE Open(a) /\ \E j \in 1..Len(Own(a)) : Own(a)'[i] = Own(a)[j]
    BY <1>2, <2>1
  <2>2. CASE /\ pc[a] = "writing" /\ work[a].plan # <<>>
             /\ Own(a)'[i].cube = work[a].plan[1].cube
             /\ Own(a)'[i].new = work[a].plan[1].new
             /\ Own(a)'[i].prev = work[a].plan[1].prev
    <3>1. work[a].plan \in Seq(Updates) /\ 1 \in 1..Len(work[a].plan)
      <4>1. work[a].plan \in Seq(Updates)
        BY SomeJob DEF IInv
      <4>2. QED
        BY <2>2, <4>1
    <3>2. PICK j \in 1..Len(history[target]) :
             Undoes(work[a].plan[1], history[target][j])
      BY <1>2, <3>1
    <3>3. Undoes(Own(a)'[i], history[target][j])
      BY <2>2, <3>2 DEF Undoes
    <3>4. QED
      BY <1>2, <2>2, <3>3
  <2>3. QED
    BY <1>5, <2>1, <2>2
<1>6. work'[a].target = target /\ target \in committed'
  BY <1>2
<1>7. pc'[a] = "writing" =>
         \A set \in committed' : set > target =>
            \A j \in 1..Len(history'[set]) : history'[set][j].cube # work'[a].plan[1].cube
  BY <1>1, <1>3
<1>8. Open(a)' => \A i \in 1..Len(Own(a)') :
         /\ \A set \in committed' : set > target =>
               \A j \in 1..Len(history'[set]) : history'[set][j].cube # Own(a)'[i].cube
         /\ \E j \in 1..Len(history'[target]) : Undoes(Own(a)'[i], history'[target][j])
  BY <1>2, <1>3, <1>5
<1>9. \A i \in 1..Len(work'[a].plan) : \E j \in 1..Len(history'[target]) :
         Undoes(work'[a].plan[i], history'[target][j])
  BY <1>2, <1>4
<1> HIDE DEF target
<1>10. QED
  BY <1>6, <1>7, <1>8, <1>9 DEF Reverts, Untouched, Undoes

LEMMA RevertingStep ==
    ASSUME OneAtATime, IInv, Recent, Reverting, NEW a \in Admins,
           Transact(a) \/ Rebuild(a)
    PROVE  Reverting'
<1> DEFINE plan == work[a].plan
<1>1. /\ TypeOK /\ plan \in Seq(Updates) /\ Len(plan) \in Nat
      /\ committed \subseteq 1..MaxSets
      /\ \A set \in 1..MaxSets : DOMAIN history[set] = 1..Len(history[set])
  BY SomeJob, SomeRow, Numbers DEF IInv
<1>2. ASSUME NEW key \in Keys, Replay(a, key)
      PROVE  Reverting'
  BY <1>2 DEF Replay, Reverting, Reverts, Open, Own, Untouched
<1>3. CASE Plan(a)
  <2>1. ASSUME NEW target \in 1..MaxSets, PlanRevert(a, target)
        PROVE  Reverting'
    <3> DEFINE w == work'[a]
    <3>1. /\ target \in committed /\ w.target = target
          /\ Len(w.plan) = Len(history[target])
          /\ \A i \in 1..Len(history[target]) :
                /\ w.plan[i].cube = history[target][i].cube
                /\ w.plan[i].new = history[target][i].prev
                /\ w.plan[i].prev = history[target][i].new
      BY <1>1, <2>1, RevertPlan
    <3>2. pc'[a] = "planned" /\ ~Open(a)'
      <4>1. pc'[a] = "planned"
        BY <1>1, <2>1, Goes DEF PlanRevert
      <4>2. QED
        BY <4>1 DEF Open, InTransaction
    <3>3. committed' = committed /\ history' = history
      BY <2>1 DEF PlanRevert
    <3> HIDE DEF w
    <3>4. \A i \in 1..Len(w.plan) : \E j \in 1..Len(history'[target]) :
             Undoes(w.plan[i], history'[target][j])
      BY <3>1, <3>3 DEF Undoes
    <3>5. Reverts(a)'
      BY <3>1, <3>2, <3>3, <3>4 DEF Reverts, Undoes, w
    <3>6. QED
      BY <3>5 DEF OneAtATime, Reverting
  <2>2. ASSUME NEW kind \in {"edit", "insert", "import"}, NEW key, NEW updates,
               Validated(a, kind, updates, key)
        PROVE  Reverting'
    <3>1. work'[a].kind = kind
      BY <1>1, <2>2, ValidatedJob
    <3>2. QED
      BY <3>1, NotReverting
  <2>3. QED
    BY <1>3, <2>1, <2>2, Requested
<1>4. CASE Begin(a)
  <2>1. /\ work'[a] = [work[a] EXCEPT !.at = clock + 1] /\ clock + 1 \in 1..MaxSets
        /\ committed' = committed /\ history' = history
    BY <1>1, <1>4, Numbers DEF Begin, TypeOK
  <2>2. work[a] \in JobsOf(clock, committed)
    BY <1>1, SomeJob
  <2>3. /\ work'[a].kind = work[a].kind /\ work'[a].target = work[a].target
        /\ work'[a].plan = plan /\ work'[a].at = clock + 1
    BY <2>1, <2>2 DEF JobsOf
  <2>4. Own(a)' = <<>>
    BY <1>1, <2>1, <2>3, Numbers, NoneLater DEF Own
  <2>5. pc'[a] = "reading"
    BY <1>1, <1>4, Goes DEF Begin
  <2>6. QED
    <3>1. \A i \in 1..Len(Own(a)') : FALSE
      BY <2>4
    <3>2. \A i \in 1..Len(work'[a].plan) : \E j \in 1..Len(plan) : work'[a].plan[i] = plan[j]
      BY <2>3
    <3>3. QED
      BY <2>1, <2>3, <2>5, <3>1, <3>2, RevertGoesOn
<1>5. CASE FetchCurrent(a)
  <2>1. Open(a) /\ work[a].kind # "revert"
    BY <1>5 DEF FetchCurrent, Goto, Open, InTransaction
  <2>2. work'[a].kind = work[a].kind
    BY <1>1, <1>5, <2>1, OwnSet, Fetched
  <2>3. QED
    BY <2>1, <2>2, NotReverting
<1>6. CASE Restorable(a)
  <2>1. /\ Open(a) /\ plan # <<>> /\ ~HasNewer(a)
        /\ UNCHANGED <<history, committed, work>>
    BY <1>6 DEF Restorable, Goto, Open, InTransaction
  <2>2. Head(plan) = plan[1]
    BY <1>1, <2>1
  <2>3. Untouched(plan[1].cube, work[a].target)
    BY <1>1, <2>1, <2>2 DEF HasNewer, Changes, Untouched
  <2>4. Own(a)' = Own(a)
    BY <2>1 DEF Own
  <2>5. QED
    BY <2>1, <2>3, <2>4, RevertGoesOn
<1>7. CASE Skip(a)
  <2>1. Open(a) /\ plan # <<>> /\ UNCHANGED <<history, committed, pc>> /\ pc[a] = "reading"
    BY <1>7 DEF Skip, Open, InTransaction
  <2>2. /\ work'[a].kind = work[a].kind /\ work'[a].target = work[a].target
        /\ work'[a].at = work[a].at
        /\ \A i \in 1..Len(work'[a].plan) : /\ i + 1 \in 1..Len(plan)
                                            /\ work'[a].plan[i] = plan[i + 1]
    BY <1>1, <1>7, <2>1, NextEntry DEF Skip
  <2>3. Own(a)' = Own(a)
    BY <2>1, <2>2 DEF Own
  <2>4. QED
    BY <2>1, <2>2, <2>3, RevertGoesOn
<1>8. CASE Write(a)
  <2> DEFINE n == work[a].at
             m == Len(history[n]) + 1
  <2>1. /\ Open(a) /\ n \in 1..MaxSets /\ plan # <<>>
        /\ m \in Nat /\ Len(history'[n]) = m
        /\ \A i \in 1..(m - 1) : history'[n][i] = history[n][i]
        /\ history'[n][m].cube = plan[1].cube
        /\ history'[n][m].new = plan[1].new /\ history'[n][m].prev = plan[1].prev
        /\ \A set \in (1..MaxSets) \ {n} : history'[set] = history[set]
    BY <1>8, Wrote
  <2>2. /\ work'[a].kind = work[a].kind /\ work'[a].target = work[a].target
        /\ work'[a].at = n
        /\ \A i \in 1..Len(work'[a].plan) : /\ i + 1 \in 1..Len(plan)
                                            /\ work'[a].plan[i] = plan[i + 1]
    BY <1>1, <1>8, <2>1, NextEntry DEF Write
  <2>3. committed' = committed /\ pc[a] = "writing" /\ pc'[a] = "reading"
    BY <1>1, <1>8, Goes DEF Write
  <2>4. n \notin committed
    BY <2>1, OwnSet
  <2>5. \A set \in committed : history'[set] = history[set]
    BY <1>1, <2>1, <2>4
  <2>6. Own(a)' = history'[n] /\ Own(a) = history[n] /\ Len(Own(a)) = m - 1
    <3>1. Len(history[n]) \in Nat
      BY <2>1, SomeRow DEF IInv
    <3>2. QED
      BY <2>2, <3>1 DEF Own
  <2>7. ASSUME NEW i \in 1..Len(Own(a)')
        PROVE  \/ Open(a) /\ \E j \in 1..Len(Own(a)) : Own(a)'[i] = Own(a)[j]
               \/ /\ pc[a] = "writing" /\ plan # <<>>
                  /\ Own(a)'[i].cube = plan[1].cube
                  /\ Own(a)'[i].new = plan[1].new
                  /\ Own(a)'[i].prev = plan[1].prev
    <3>1. CASE i = m
      BY <2>1, <2>3, <2>6, <3>1
    <3>2. CASE i # m
      <4>1. i \in 1..(m - 1)
        BY <2>1, <2>6, <2>7, <3>2
      <4>2. QED
        BY <2>1, <2>6, <4>1
    <3>3. QED
      BY <3>1, <3>2, ZenonT(30)
  <2>8. QED
    BY <2>2, <2>3, <2>5, <2>7, RevertGoesOn
<1>9. CASE Commit(a)
  <2>1. /\ committed \subseteq committed' /\ history' = history /\ ~Open(a)'
        /\ \/ pc'[a] = "idle" /\ work'[a] = NoWork
           \/ pc'[a] = "committed" /\ work'[a] = work[a]
    BY <1>9, Committed
  <2>2. CASE work'[a] = NoWork
    BY <2>2, NotReverting DEF NoWork
  <2>3. CASE pc'[a] = "committed" /\ work'[a] = work[a]
    <3>1. Reverts(a)
      BY DEF Reverting
    <3>2. Reverts(a)'
      <4>1. SUFFICES ASSUME work[a].kind = "revert"
                     PROVE  /\ work[a].target \in committed'
                            /\ \A i \in 1..Len(work[a].plan) :
                                  \E j \in 1..Len(history[work[a].target]) :
                                     Undoes(work[a].plan[i], history[work[a].target][j])
        BY <2>1, <2>3 DEF Reverts, Undoes
      <4>2. QED
        BY <2>1, <3>1, <4>1 DEF Reverts
    <3>3. QED
      BY <3>2 DEF OneAtATime, Reverting
  <2>4. QED
    BY <2>1, <2>2, <2>3
<1>10. CASE Abort(a) \/ DeadlockVictim(a) \/ RebuildFails(a) \/ Rebuild(a)
  <2>1. work'[a] = NoWork
    BY <1>1, <1>10 DEF Abort, DeadlockVictim, RebuildFails, Rebuild, TypeOK
  <2>2. QED
    BY <2>1, NotReverting DEF NoWork
<1>11. QED
  BY <1>2, <1>3, <1>4, <1>5, <1>6, <1>7, <1>8, <1>9, <1>10 DEF Transact

SoloInv == IInv /\ Recent /\ Ascending /\ Answered /\ Reverting

LEMMA SoloInitially == OneAtATime /\ Init => SoloInv
<1> SUFFICES ASSUME Init
             PROVE  SoloInv
  OBVIOUS
<1>1. IInv
  BY Initially
<1>2. /\ \A set \in 1..MaxSets : history[set] = <<>>
      /\ \A a \in Admins : pc[a] = "idle" /\ work[a] = NoWork /\ ~Open(a)
      /\ \A k \in Keys : told[k] = {}
  BY DEF Init, Open, InTransaction
<1>3. Recent /\ Ascending
  BY <1>2 DEF Recent, Ascending
<1>4. Answered
  BY <1>2 DEF Answered, NoWork
<1>5. Reverting
  BY <1>2 DEF Reverting, Reverts, NoWork
<1>6. QED
  BY <1>1, <1>3, <1>4, <1>5 DEF SoloInv

LEMMA SoloStep == OneAtATime /\ SoloInv /\ [Next]_vars => SoloInv'
<1> SUFFICES ASSUME OneAtATime, SoloInv, [Next]_vars
             PROVE  SoloInv'
  OBVIOUS
<1>1. IInv'
  BY InvariantStep DEF SoloInv
<1>2. ASSUME NEW a \in Admins, Transact(a) \/ Rebuild(a)
      PROVE  Recent' /\ Ascending' /\ Answered' /\ Reverting'
  BY <1>2, RecentStep, AscendingStep, AnswersStep, RevertingStep DEF SoloInv
<1>3. CASE UNCHANGED vars
  <2>1. UNCHANGED <<cuts, history, ids, committed, keys, told, cache, clock, pc, work>>
    BY <1>3 DEF vars
  <2>2. Recent' /\ Ascending' /\ Answered'
    BY <2>1 DEF SoloInv, Recent, Ascending, Answered, Open
  <2>3. Reverting'
    BY <2>1 DEF SoloInv, Reverting, Reverts, Open, Own, Untouched
  <2>4. QED
    BY <1>1, <2>2, <2>3 DEF SoloInv
<1>4. QED
  BY <1>1, <1>2, <1>3 DEF Next, SoloInv

LEMMA SoloCorrect ==
    ASSUME OneAtATime
    PROVE  Spec => []SoloInv
<1>1. Init => SoloInv
  BY SoloInitially
<1>2. SoloInv /\ [Next]_vars => SoloInv'
  BY SoloStep
<1>3. QED
  BY <1>1, <1>2, PTL DEF Spec

\* When requests are made one at a time, all those with the same key are
\* answered with the same change set, whether one of them was rolled back, or
\* its answer was lost after the commit.
THEOREM OneAnswerCorrect ==
    ASSUME \A a, b \in Admins : a = b
    PROVE  Spec => []OneAnswerPerKey
<1>1. OneAtATime
  BY DEF OneAtATime
<1>2. Spec => []SoloInv
  BY <1>1, SoloCorrect
<1>3. SoloInv => OneAnswerPerKey
  BY DEF SoloInv, Answered, OneAnswerPerKey
<1>4. QED
  BY <1>2, <1>3, PTL

\* Only Commit commits.
LEMMA CommitsOnly ==
    ASSUME OneAtATime, [Next]_vars, NEW a \in Admins, Commits(a)
    PROVE  Commit(a)
<1>1. committed' # committed
  BY DEF Commits
<1>2. PICK b \in Admins : Transact(b) \/ Rebuild(b)
  BY <1>1 DEF Next, vars
<1>3. b = a
  BY DEF OneAtATime
<1>4. ~(\E key \in Keys : Replay(a, key))
  BY <1>1, ZenonT(30) DEF Replay
<1>5. ~Plan(a)
  BY <1>1 DEF Plan, PlanEdit, PlanInsert, PlanImport, PlanRevert, Validated
<1>6. ~Begin(a) /\ ~FetchCurrent(a) /\ ~Restorable(a) /\ ~Skip(a) /\ ~Write(a)
  BY <1>1 DEF Begin, FetchCurrent, Restorable, Skip, Write
<1>7. ~Abort(a) /\ ~DeadlockVictim(a) /\ ~RebuildFails(a) /\ ~Rebuild(a)
  BY <1>1, ZenonT(30) DEF Abort, DeadlockVictim, RebuildFails, Rebuild
<1>8. QED
  BY <1>2, <1>3, <1>4, <1>5, <1>6, <1>7 DEF Transact

\* The last row of the revert for a cube it changes undoes a row of its target.
LEMMA Reverted ==
    ASSUME SoloInv, NEW a \in Admins, Commit(a), work[a].kind = "revert",
           NEW c \in Cubes, \E i \in 1..Len(Own(a)) : Own(a)[i].cube = c
    PROVE  LET target == work[a].target
           IN /\ target \in committed /\ target \in 1..MaxSets /\ Untouched(c, target)
              /\ \E j \in 1..Len(history[target]) : /\ history[target][j].cube = c
                                                    /\ cuts'[c] = history[target][j].prev
<1> DEFINE target == work[a].target
           rows == Own(a)
<1>1. /\ Open(a) /\ cuts' = Applied(cuts, rows) /\ rows \in Seq(HistoryRows)
  BY Committed, SomeRow DEF Own, SoloInv, IInv
<1>2. PICK k \in 1..Len(rows) : rows[k].cube = c /\ Applied(cuts, rows)[c] = rows[k].new
  <2> HIDE DEF rows
  <2>1. QED
    BY <1>1, AppliedLast DEF rows
<1>3. Reverts(a)
  BY DEF SoloInv, Reverting
<1>4. /\ target \in committed /\ Untouched(c, target)
      /\ \E j \in 1..Len(history[target]) : Undoes(rows[k], history[target][j])
  BY <1>1, <1>2, <1>3 DEF Reverts
<1>5. target \in 1..MaxSets
  BY <1>4, Numbers DEF SoloInv, IInv
<1>6. QED
  BY <1>1, <1>2, <1>4, <1>5 DEF Undoes

LEMMA KeepsNewer ==
    ASSUME SoloInv, NEW a \in Admins, Commit(a), work[a].kind = "revert",
           NEW c \in Cubes, cuts'[c] # cuts[c]
    PROVE  \E row \in RowsOf(c, {work[a].target}) : Newest(row, RowsOf(c, committed))
<1> DEFINE target == work[a].target
           J == {j \in 1..Len(history[target]) : history[target][j].cube = c}
<1>1. cuts' = Applied(cuts, Own(a)) /\ Own(a) \in Seq(HistoryRows)
  BY Committed, SomeRow DEF Own, SoloInv, IInv
<1>2. \E i \in 1..Len(Own(a)) : Own(a)[i].cube = c
  BY <1>1, AppliedLast
<1>3. /\ target \in committed /\ target \in 1..MaxSets /\ Untouched(c, target)
      /\ \E j \in 1..Len(history[target]) : history[target][j].cube = c
  BY <1>2, Reverted
<1>4. /\ committed \subseteq 1..MaxSets
      /\ \A set \in 1..MaxSets : DOMAIN history[set] = 1..Len(history[set])
      /\ Len(history[target]) \in Nat
  BY <1>3, Numbers, SomeRow DEF SoloInv, IInv
<1>5. PICK m \in J : \A j \in J : m >= j
  <2>1. IsFiniteSet(1..Len(history[target]))
    BY <1>4, FS_Interval
  <2>2. IsFiniteSet(J) /\ J \subseteq Int /\ J # {}
    BY <1>3, <1>4, <2>1, FS_Subset
  <2> HIDE DEF J
  <2>3. QED
    BY <2>2, MaximumExists
<1> DEFINE row == history[target][m]
<1>6. row \in RowsOf(c, {target})
  BY <1>3, <1>4, <1>5 DEF RowsOf
<1>7. ASSUME NEW set \in committed, NEW j \in 1..Len(history[set]), history[set][j].cube = c
      PROVE  history[set][j].id <= row.id
  <2>1. /\ history[set][j].id \in Nat /\ row.id \in Nat /\ set \in 1..MaxSets
        /\ m \in 1..Len(history[target])
    BY <1>3, <1>4, <1>5, SomeRow DEF SoloInv, IInv
  <2>2. ~(set > target)
    BY <1>3, <1>7 DEF Untouched
  <2>3. CASE set < target
    <3>1. \A i \in 1..Len(history[set]) : \A n \in 1..Len(history[target]) :
             history[set][i].id < history[target][n].id
      BY <1>3, <2>1, <2>3 DEF SoloInv, Ascending
    <3>2. history[set][j].id < row.id
      BY <2>1, <3>1
    <3>3. QED
      BY <2>1, <3>2
  <2>4. CASE set = target
    <3>1. j <= m
      BY <1>5, <1>7, <2>4
    <3>2. CASE j = m
      BY <2>1, <2>4, <3>2
    <3>3. CASE j < m
      <4>1. \A i, n \in 1..Len(history[target]) :
               i < n => history[target][i].id < history[target][n].id
        BY <1>3 DEF SoloInv, IInv, Logged
      <4>2. history[target][j].id < history[target][m].id
        BY <1>7, <2>1, <2>4, <3>3, <4>1
      <4>3. QED
        BY <2>1, <2>4, <4>2
    <3>4. QED
      BY <1>5, <3>1, <3>2, <3>3
  <2>5. QED
    BY <1>3, <2>1, <2>2, <2>3, <2>4
<1> HIDE DEF row
<1>8. Newest(row, RowsOf(c, committed))
  <2>1. \A other \in RowsOf(c, committed) :
           \E set \in committed : \E j \in 1..Len(history[set]) :
              other = history[set][j] /\ history[set][j].cube = c
    BY <1>4 DEF RowsOf
  <2>2. QED
    BY <1>7, <2>1 DEF Newest
<1>9. QED
  BY <1>6, <1>8

\* When requests are made one at a time, a revert changes a cube only if the
\* change set it reverts was the last to write the cube: what
\* has_newer_changes has seen still holds at the commit.
THEOREM RevertKeepsNewerCorrect ==
    ASSUME \A a, b \in Admins : a = b
    PROVE  Spec => RevertKeepsNewer
<1>1. OneAtATime
  BY DEF OneAtATime
<1>2. SoloInv /\ [Next]_vars =>
         [\A a \in Admins : Commits(a) /\ work[a].kind = "revert" =>
            \A c \in Cubes : cuts'[c] # cuts[c] =>
               \E row \in RowsOf(c, {work[a].target}) :
                  Newest(row, RowsOf(c, committed))]_vars
  BY <1>1, CommitsOnly, KeepsNewer
<1>3. Spec => []SoloInv
  BY <1>1, SoloCorrect
<1>4. QED
  BY <1>2, <1>3, PTL DEF Spec, RevertKeepsNewer

-----------------------------------------------------------------------------
(* Requests that are made one at a time and name no cube twice.            *)

\* A change set has one row for a cube.
Once ==
    \A set \in 1..MaxSets : \A i, j \in 1..Len(history[set]) :
       history[set][i].cube = history[set][j].cube => i = j

\* What is left of a plan names no cube twice, and none that is written.
PlanOnce ==
    \A a \in Admins :
       /\ \A i, j \in 1..Len(work[a].plan) :
             work[a].plan[i].cube = work[a].plan[j].cube => i = j
       /\ Open(a) => \A i \in 1..Len(Own(a)) : \A j \in 1..Len(work[a].plan) :
             Own(a)[i].cube # work[a].plan[j].cube

\* What is about to be recorded as replaced is what is on the shelf.
Fresh ==
    \A a \in Admins :
       pc[a] = "writing" => work[a].plan[1].prev = cuts[work[a].plan[1].cube]

\* From one change set to the next that has a row for the cube, what one wrote
\* is what the other replaced.
Chain ==
    \A s, t \in 1..MaxSets : s < t =>
       \A i \in 1..Len(history[t]) : \A j \in 1..Len(history[s]) :
          /\ history[s][j].cube = history[t][i].cube
          /\ \A u \in (s + 1)..(t - 1) : \A k \in 1..Len(history[u]) :
                history[u][k].cube # history[t][i].cube
          => history[t][i].prev = history[s][j].new

SingleInv == SoloInv /\ Once /\ PlanOnce /\ Fresh /\ Chain

\* A plan gets shorter, if anything.
LEMMA PlanStays ==
    ASSUME IInv, NEW a \in Admins, Transact(a) \/ Rebuild(a), ~Plan(a), ~Write(a)
    PROVE  \/ work'[a] = NoWork /\ ~Open(a)'
           \/ /\ \E d \in {0, 1} : \A i \in 1..Len(work'[a].plan) :
                    /\ i + d \in 1..Len(work[a].plan)
                    /\ work'[a].plan[i].cube = work[a].plan[i + d].cube
              /\ \/ ~Open(a)'
                 \/ Own(a)' = <<>>
                 \/ Open(a) /\ Own(a)' = Own(a)
<1> DEFINE Shorter(d) == \A i \in 1..Len(work'[a].plan) :
                            /\ i + d \in 1..Len(work[a].plan)
                            /\ work'[a].plan[i].cube = work[a].plan[i + d].cube
           Kept == ~Open(a)' \/ Own(a)' = <<>> \/ (Open(a) /\ Own(a)' = Own(a))
<1>1. /\ TypeOK /\ work[a] \in JobsOf(clock, committed)
      /\ work[a].plan \in Seq(Updates) /\ Len(work[a].plan) \in Nat
  BY SomeJob DEF IInv
<1>2. ASSUME work'[a].plan = work[a].plan
      PROVE  Shorter(0)
  BY <1>1, <1>2
<1>3. ASSUME NEW key \in Keys, Replay(a, key)
      PROVE  Shorter(0) /\ Kept
  BY <1>2, <1>3 DEF Replay, Open, Own
<1>4. CASE Begin(a)
  <2>1. /\ work'[a] = [work[a] EXCEPT !.at = clock + 1] /\ clock + 1 \in 1..MaxSets
        /\ history' = history
    BY <1>1, <1>4, Numbers DEF Begin, TypeOK
  <2>2. work'[a].plan = work[a].plan /\ work'[a].at = clock + 1
    BY <1>1, <2>1 DEF JobsOf
  <2>3. Own(a)' = <<>>
    BY <1>1, <2>1, <2>2, Numbers, NoneLater DEF Own
  <2>4. QED
    BY <1>2, <2>2, <2>3
<1>5. CASE FetchCurrent(a)
  <2>1. Open(a) /\ history' = history
    BY <1>5 DEF FetchCurrent, Goto, Open, InTransaction
  <2>2. /\ work'[a].at = work[a].at
        /\ Len(work'[a].plan) = Len(work[a].plan)
        /\ \A i \in 1..Len(work'[a].plan) :
              work'[a].plan[i].cube = work[a].plan[i].cube
    BY <1>1, <1>5, <2>1, OwnSet, Fetched
  <2>3. Own(a)' = Own(a)
    BY <2>1, <2>2 DEF Own
  <2>4. Shorter(0)
    BY <1>1, <2>2
  <2>5. QED
    BY <2>1, <2>3, <2>4
<1>6. CASE Restorable(a)
  <2>1. Open(a) /\ history' = history /\ work' = work
    BY <1>6 DEF Restorable, Goto, Open, InTransaction
  <2>2. QED
    BY <1>2, <2>1 DEF Own
<1>7. CASE Skip(a)
  <2>1. Open(a) /\ history' = history
    BY <1>7 DEF Skip, Open, InTransaction
  <2>2. /\ work'[a].at = work[a].at
        /\ \A i \in 1..Len(work'[a].plan) :
              /\ i + 1 \in 1..Len(work[a].plan)
              /\ work'[a].plan[i] = work[a].plan[i + 1]
    BY <1>1, <1>7, NextEntry DEF Skip
  <2>3. Own(a)' = Own(a)
    BY <2>1, <2>2 DEF Own
  <2>4. QED
    BY <2>1, <2>2, <2>3
<1>8. CASE Commit(a)
  <2>1. /\ ~Open(a)'
        /\ work'[a] = NoWork \/ work'[a] = work[a]
    BY <1>8, Committed
  <2>2. QED
    BY <1>2, <2>1
<1>9. CASE Abort(a) \/ DeadlockVictim(a) \/ RebuildFails(a) \/ Rebuild(a)
  <2>1. work'[a] = NoWork /\ pc'[a] = "idle"
    BY <1>1, <1>9 DEF Abort, DeadlockVictim, RebuildFails, Rebuild, Goto, TypeOK
  <2>2. QED
    BY <2>1 DEF Open, InTransaction
<1>10. QED
  BY <1>3, <1>4, <1>5, <1>6, <1>7, <1>8, <1>9 DEF Transact

\* What Write does to the plan and to the log.
LEMMA WroteNext ==
    ASSUME IInv, NEW a \in Admins, Write(a)
    PROVE  LET n == work[a].at
               m == Len(history[n]) + 1
               plan == work[a].plan
           IN /\ Open(a) /\ n \in 1..MaxSets /\ plan # <<>> /\ 1 \in 1..Len(plan)
              /\ m \in Nat /\ Len(history'[n]) = m
              /\ \A i \in 1..(m - 1) : history'[n][i] = history[n][i]
              /\ history'[n][m].cube = plan[1].cube /\ plan[1].cube \in Cubes
              /\ history'[n][m].prev = plan[1].prev
              /\ \A set \in (1..MaxSets) \ {n} : history'[set] = history[set]
              /\ Own(a)' = history'[n] /\ Own(a) = history[n]
              /\ \A i \in 1..Len(work'[a].plan) : /\ i + 1 \in 1..Len(plan)
                                                  /\ work'[a].plan[i] = plan[i + 1]
              /\ pc[a] = "writing" /\ pc'[a] = "reading"
              /\ \A set \in 1..MaxSets : \A i \in 1..Len(history'[set]) :
                    \/ set = n /\ i = m
                    \/ i \in 1..Len(history[set]) /\ history'[set][i] = history[set][i]
<1> DEFINE n == work[a].at
           m == Len(history[n]) + 1
           plan == work[a].plan
<1>1. /\ Open(a) /\ n \in 1..MaxSets /\ plan # <<>>
      /\ m \in Nat /\ Len(history'[n]) = m
      /\ \A i \in 1..(m - 1) : history'[n][i] = history[n][i]
      /\ history'[n][m].cube = plan[1].cube /\ plan[1].cube \in Cubes
      /\ history'[n][m].prev = plan[1].prev
      /\ \A set \in (1..MaxSets) \ {n} : history'[set] = history[set]
  BY Wrote, ZenonT(30)
<1>2. /\ work'[a].at = n
      /\ \A i \in 1..Len(work'[a].plan) : /\ i + 1 \in 1..Len(plan)
                                          /\ work'[a].plan[i] = plan[i + 1]
  BY <1>1, NextEntry DEF Write, IInv
<1>3. pc[a] = "writing" /\ pc'[a] = "reading"
  BY Goes DEF Write, IInv
<1>4. Own(a)' = history'[n] /\ Own(a) = history[n]
  BY <1>2 DEF Own
<1>5. 1 \in 1..Len(plan)
  <2>1. plan \in Seq(Updates)
    BY SomeJob DEF IInv
  <2>2. QED
    BY <1>1, <2>1
<1>6. ASSUME NEW set \in 1..MaxSets, NEW i \in 1..Len(history'[set])
      PROVE  \/ set = n /\ i = m
             \/ i \in 1..Len(history[set]) /\ history'[set][i] = history[set][i]
  <2>1. CASE set # n
    BY <1>1, <2>1
  <2>2. CASE set = n /\ i # m
    <3>1. Len(history[n]) \in Nat /\ m - 1 = Len(history[n])
      BY <1>1, SomeRow DEF IInv
    <3>2. i \in 1..(m - 1)
      BY <1>1, <2>2
    <3>3. QED
      BY <1>1, <2>2, <3>1, <3>2
  <2>3. QED
    BY <2>1, <2>2
<1> HIDE DEF n, m, plan
<1>7. QED
  BY <1>1, <1>2, <1>3, <1>4, <1>5, <1>6 DEF n, m, plan

LEMMA OnceStep ==
    ASSUME OneAtATime, SingleInv, NEW a \in Admins, Transact(a) \/ Rebuild(a)
    PROVE  Once'
<1>1. CASE Write(a)
  <2> DEFINE n == work[a].at
             m == Len(history[n]) + 1
  <2>1. /\ Open(a) /\ history'[n][m].cube = work[a].plan[1].cube
        /\ 1 \in 1..Len(work[a].plan) /\ Own(a) = history[n] /\ n \in 1..MaxSets
        /\ \A set \in 1..MaxSets : \A i \in 1..Len(history'[set]) :
              \/ set = n /\ i = m
              \/ i \in 1..Len(history[set]) /\ history'[set][i] = history[set][i]
    BY <1>1, WroteNext DEF SingleInv, SoloInv
  <2>2. \A i \in 1..Len(history[n]) : history[n][i].cube # history'[n][m].cube
    BY <2>1 DEF SingleInv, PlanOnce
  <2> HIDE DEF m
  <2>3. SUFFICES ASSUME NEW set \in 1..MaxSets,
                        NEW i \in 1..Len(history'[set]), NEW j \in 1..Len(history'[set]),
                        history'[set][i].cube = history'[set][j].cube
                 PROVE  i = j
    BY DEF Once
  <2>4. CASE ~(set = n /\ i = m) /\ ~(set = n /\ j = m)
    <3>1. /\ i \in 1..Len(history[set]) /\ history'[set][i] = history[set][i]
          /\ j \in 1..Len(history[set]) /\ history'[set][j] = history[set][j]
      BY <2>1, <2>4
    <3>2. QED
      BY <2>3, <3>1 DEF SingleInv, Once
  <2>5. CASE set = n /\ i = m /\ j # m
    BY <2>1, <2>2, <2>3, <2>5
  <2>6. CASE set = n /\ j = m /\ i # m
    BY <2>1, <2>2, <2>3, <2>6
  <2>7. QED
    BY <2>4, <2>5, <2>6
<1>2. CASE history' = RolledBack(a)
  <2>1. \A set \in 1..MaxSets : \A i \in 1..Len(history'[set]) :
           history'[set] = history[set]
    BY <1>2, RolledBackRows DEF SingleInv, SoloInv, IInv
  <2>2. QED
    BY <2>1 DEF SingleInv, Once
<1>3. CASE history' = history
  BY <1>3 DEF SingleInv, Once
<1>4. QED
  BY <1>1, <1>2, <1>3, LogStep

LEMMA PlanOnceStep ==
    ASSUME OneAtATime, ~Duplicates, SingleInv, IInv', NEW a \in Admins,
           Transact(a) \/ Rebuild(a)
    PROVE  PlanOnce'
<1> DEFINE plan == work[a].plan
           after == work'[a].plan
<1>1. /\ TypeOK /\ IInv
      /\ \A i, j \in 1..Len(plan) : plan[i].cube = plan[j].cube => i = j
      /\ Open(a) => \A i \in 1..Len(Own(a)) : \A j \in 1..Len(plan) :
            Own(a)[i].cube # plan[j].cube
      /\ plan \in Seq(Updates) /\ Len(plan) \in Nat
  BY SomeJob DEF SingleInv, SoloInv, IInv, PlanOnce
<1>2. SUFFICES /\ \A i, j \in 1..Len(after) : after[i].cube = after[j].cube => i = j
               /\ Open(a)' => \A i \in 1..Len(Own(a)') : \A j \in 1..Len(after) :
                     Own(a)'[i].cube # after[j].cube
  BY DEF OneAtATime, PlanOnce
<1>3. CASE Plan(a)
  <2>1. ASSUME NEW target \in 1..MaxSets, PlanRevert(a, target)
        PROVE  \A i, j \in 1..Len(after) : after[i].cube = after[j].cube => i = j
    <3>1. /\ Len(after) = Len(history[target])
          /\ \A i \in 1..Len(history[target]) : after[i].cube = history[target][i].cube
      BY <1>1, <2>1, RevertPlan
    <3> HIDE DEF after
    <3>2. QED
      BY <3>1 DEF SingleInv, Once
  <2>2. ASSUME NEW kind, NEW key, NEW updates, Validated(a, kind, updates, key),
               \A i, j \in DOMAIN updates : updates[i].cube = updates[j].cube => i = j
        PROVE  \A i, j \in 1..Len(after) : after[i].cube = after[j].cube => i = j
    <3>1. /\ DOMAIN after = DOMAIN updates
          /\ \A i \in DOMAIN updates : after[i].cube = updates[i].cube
      BY <1>1, <2>2, ValidatedJob
    <3>2. after \in Seq(Updates)
      BY DEF IInv, TypeOK
    <3> HIDE DEF after
    <3>3. DOMAIN after = 1..Len(after)
      BY <3>2
    <3>4. QED
      BY <2>2, <3>1, <3>3
  <2>3. ~Open(a)'
    <3>1. ASSUME NEW target \in 1..MaxSets, PlanRevert(a, target)
          PROVE  pc'[a] = "planned"
      BY <1>1, <3>1, Goes DEF PlanRevert
    <3>2. ASSUME NEW kind, NEW key, NEW updates, Validated(a, kind, updates, key)
          PROVE  pc'[a] = "planned"
      BY <1>1, <3>2, Goes DEF Validated
    <3>3. QED
      BY <1>1, <1>3, <3>1, <3>2, Requested DEF Open, InTransaction
  <2> HIDE DEF after
  <2>4. QED
    BY <1>1, <1>3, <2>1, <2>2, <2>3, Requested
<1>4. CASE Write(a)
  <2> DEFINE n == work[a].at
             m == Len(history[n]) + 1
  <2>1. /\ Open(a) /\ history'[n][m].cube = plan[1].cube
        /\ 1 \in 1..Len(plan) /\ Own(a) = history[n] /\ Own(a)' = history'[n]
        /\ n \in 1..MaxSets
        /\ \A i \in 1..Len(after) : i + 1 \in 1..Len(plan) /\ after[i] = plan[i + 1]
        /\ \A set \in 1..MaxSets : \A i \in 1..Len(history'[set]) :
              \/ set = n /\ i = m
              \/ i \in 1..Len(history[set]) /\ history'[set][i] = history[set][i]
    BY <1>1, <1>4, WroteNext
  <2> HIDE DEF m, after, plan
  <2>2. \A i, j \in 1..Len(after) : after[i].cube = after[j].cube => i = j
    BY <1>1, <2>1
  <2>3. ASSUME NEW i \in 1..Len(history'[n]), NEW j \in 1..Len(after)
        PROVE  history'[n][i].cube # after[j].cube
    <3>1. CASE i = m
      <4>1. j + 1 # 1 /\ j + 1 \in 1..Len(plan) /\ after[j] = plan[j + 1]
        BY <2>1
      <4>2. plan[1].cube # plan[j + 1].cube
        BY <1>1, <2>1, <4>1
      <4>3. QED
        BY <2>1, <3>1, <4>1, <4>2
    <3>2. CASE i # m
      <4>1. i \in 1..Len(Own(a)) /\ history'[n][i] = Own(a)[i]
        BY <2>1, <2>3, <3>2
      <4>2. j + 1 \in 1..Len(plan) /\ after[j] = plan[j + 1]
        BY <2>1
      <4>3. QED
        BY <1>1, <2>1, <4>1, <4>2
    <3>3. QED
      BY <3>1, <3>2
  <2>4. QED
    BY <2>1, <2>2, <2>3
<1>5. CASE ~Plan(a) /\ ~Write(a)
  <2>1. CASE work'[a] = NoWork /\ ~Open(a)'
    BY <2>1 DEF NoWork
  <2>2. ASSUME NEW d \in {0, 1},
               \A i \in 1..Len(after) : /\ i + d \in 1..Len(plan)
                                        /\ after[i].cube = plan[i + d].cube,
               ~Open(a)' \/ Own(a)' = <<>> \/ (Open(a) /\ Own(a)' = Own(a))
        PROVE  /\ \A i, j \in 1..Len(after) : after[i].cube = after[j].cube => i = j
               /\ Open(a)' => \A i \in 1..Len(Own(a)') : \A j \in 1..Len(after) :
                     Own(a)'[i].cube # after[j].cube
    <3> HIDE DEF after, plan
    <3>1. \A i, j \in 1..Len(after) : after[i].cube = after[j].cube => i = j
      <4>1. ASSUME NEW i \in 1..Len(after), NEW j \in 1..Len(after),
                   after[i].cube = after[j].cube
            PROVE  i = j
        <5>1. i + d = j + d
          BY <1>1, <2>2, <4>1
        <5>2. QED
          BY <5>1
      <4>2. QED
        BY <4>1
    <3>2. QED
      BY <1>1, <2>2, <3>1
  <2>3. QED
    BY <1>1, <1>5, <2>1, <2>2, PlanStays
<1>6. QED
  BY <1>3, <1>4, <1>5

\* The only row of a cube in the last change set that has one.
LEMMA LastRow ==
    ASSUME SoloInv, Once, NEW set \in committed, NEW j \in 1..Len(history[set]),
           Untouched(history[set][j].cube, set)
    PROVE  history[set][j].new = cuts[history[set][j].cube]
<1>1. IsLatest(set, j)
  <2>1. SUFFICES ASSUME NEW other \in committed, NEW k \in 1..Len(history[other]),
                        history[other][k].cube = history[set][j].cube
                 PROVE  history[other][k].id <= history[set][j].id
    BY DEF IsLatest
  <2>2. /\ set \in 1..MaxSets /\ other \in 1..MaxSets
        /\ history[set][j].id \in Nat /\ history[other][k].id \in Nat
    <3>1. set \in 1..MaxSets /\ other \in 1..MaxSets
      BY Numbers DEF SoloInv, IInv
    <3>2. QED
      BY <3>1, SomeRow DEF SoloInv, IInv
  <2>3. ~(other > set)
    BY <2>1 DEF Untouched
  <2>4. CASE other = set
    BY <2>1, <2>2, <2>4 DEF Once
  <2>5. CASE other < set
    <3>1. history[other][k].id < history[set][j].id
      BY <2>2, <2>5 DEF SoloInv, Ascending
    <3>2. QED
      BY <2>2, <3>1
  <2>6. QED
    BY <2>2, <2>3, <2>4, <2>5
<1>2. QED
  BY <1>1 DEF SoloInv, IInv, Latest

LEMMA FreshStep ==
    ASSUME OneAtATime, SingleInv, NEW a \in Admins, Transact(a) \/ Rebuild(a)
    PROVE  Fresh'
<1> DEFINE plan == work[a].plan
<1>1. /\ TypeOK /\ IInv /\ plan \in Seq(Updates)
  BY SomeJob DEF SingleInv, SoloInv, IInv
<1>2. SUFFICES ASSUME pc'[a] = "writing"
               PROVE  work'[a].plan[1].prev = cuts'[work'[a].plan[1].cube]
  BY DEF OneAtATime, Fresh
<1>3. ASSUME NEW key \in Keys, Replay(a, key)
      PROVE  work'[a].plan[1].prev = cuts'[work'[a].plan[1].cube]
  BY <1>2, <1>3 DEF Replay, SingleInv, Fresh
<1>4. ASSUME NEW target \in 1..MaxSets, PlanRevert(a, target)
      PROVE  FALSE
  BY <1>1, <1>2, <1>4, Goes DEF PlanRevert
<1>5. ASSUME NEW kind, NEW key, NEW updates, Validated(a, kind, updates, key)
      PROVE  FALSE
  BY <1>1, <1>2, <1>5, Goes DEF Validated
<1>6. ~Plan(a)
  BY <1>1, <1>4, <1>5, Requested
<1>7. ~Begin(a) /\ ~Write(a) /\ ~Rebuild(a) /\ ~RebuildFails(a)
  BY <1>1, <1>2, Goes DEF Begin, Write, Rebuild, RebuildFails
<1>8. ~Skip(a) /\ ~Abort(a) /\ ~DeadlockVictim(a)
  BY <1>1, <1>2 DEF Skip, Abort, DeadlockVictim, TypeOK
<1>9. ~Commit(a)
  BY <1>1, <1>2, Committed
<1>10. CASE FetchCurrent(a)
  <2> DEFINE c == plan[1].cube
  <2>1. Open(a) /\ plan # <<>> /\ cuts' = cuts
    BY <1>10 DEF FetchCurrent, Goto, Open, InTransaction
  <2>2. work[a].at \in 1..MaxSets /\ Own(a) \in Seq(HistoryRows)
    BY <1>1, <2>1, OwnSet, SomeRow DEF Own
  <2>3. 1 \in 1..Len(plan)
    BY <1>1, <2>1
  <2>4. /\ work'[a].plan[1].cube = c /\ c \in Cubes
        /\ work'[a].plan[1].prev = Seen(a, c)
    <3>1. /\ Len(work'[a].plan) = Len(plan)
          /\ \A i \in 1..Len(work'[a].plan) : work'[a].plan[i].cube = plan[i].cube
          /\ c \in Cubes /\ work'[a].plan[1].prev = Seen(a, c)
      BY <1>1, <1>10, <2>1, <2>2, Fetched
    <3>2. QED
      BY <2>3, <3>1
  <2>5. \A i \in 1..Len(Own(a)) : Own(a)[i].cube # c
    BY <2>1, <2>3 DEF SingleInv, PlanOnce
  <2> HIDE DEF c
  <2>6. Seen(a, c) = cuts[c]
    BY <2>2, <2>4, <2>5, AppliedLast DEF Seen
  <2>7. QED
    BY <2>1, <2>4, <2>6
<1>11. CASE Restorable(a)
  <2> DEFINE target == work[a].target
             c == plan[1].cube
  <2>1. /\ Open(a) /\ plan # <<>> /\ ~HasNewer(a) /\ cuts' = cuts /\ work' = work
        /\ work[a].kind = "revert"
    BY <1>11 DEF Restorable, Goto, Open, InTransaction
  <2>2. 1 \in 1..Len(plan) /\ Head(plan) = plan[1]
    BY <1>1, <2>1
  <2>3. /\ committed \subseteq 1..MaxSets
        /\ \A set \in 1..MaxSets : DOMAIN history[set] = 1..Len(history[set])
    BY <1>1, SomeRow, Numbers
  <2>4. Untouched(c, target)
    BY <2>1, <2>2, <2>3 DEF HasNewer, Changes, Untouched
  <2>5. target \in committed /\ \E j \in 1..Len(history[target]) :
                                   Undoes(plan[1], history[target][j])
    BY <2>1, <2>2 DEF SingleInv, SoloInv, Reverting, Reverts
  <2>6. PICK j \in 1..Len(history[target]) :
           history[target][j].cube = c /\ plan[1].prev = history[target][j].new
    BY <2>5 DEF Undoes
  <2>7. history[target][j].new = cuts[c]
    BY <2>4, <2>5, <2>6, LastRow DEF SingleInv
  <2>8. QED
    BY <2>1, <2>6, <2>7
<1>12. QED
  BY <1>3, <1>6, <1>7, <1>8, <1>9, <1>10, <1>11 DEF Transact

LEMMA Linked ==
    ASSUME Chain, NEW s \in 1..MaxSets, NEW t \in 1..MaxSets, s < t,
           NEW i \in 1..Len(history[t]), NEW j \in 1..Len(history[s]),
           history[s][j].cube = history[t][i].cube,
           \A u \in (s + 1)..(t - 1) : \A k \in 1..Len(history[u]) :
              history[u][k].cube # history[t][i].cube
    PROVE  history[t][i].prev = history[s][j].new
BY DEF Chain

LEMMA ChainStep ==
    ASSUME OneAtATime, SingleInv, NEW a \in Admins, Transact(a) \/ Rebuild(a)
    PROVE  Chain'
<1> DEFINE n == work[a].at
           m == Len(history[n]) + 1
<1>1. /\ TypeOK /\ IInv /\ clock \in Nat /\ MaxSets \in Nat
      /\ committed \subseteq 1..clock /\ committed \subseteq 1..MaxSets
  BY Numbers DEF SingleInv, SoloInv, IInv
<1>2. history' = history \/ pc[a] \in {"planned", "reading", "writing"}
  BY LogStep DEF Write, Goto
<1>3. SUFFICES ASSUME NEW s \in 1..MaxSets, NEW t \in 1..MaxSets, s < t,
                      NEW i \in 1..Len(history'[t]), NEW j \in 1..Len(history'[s]),
                      history'[s][j].cube = history'[t][i].cube,
                      \A u \in (s + 1)..(t - 1) : \A k \in 1..Len(history'[u]) :
                         history'[u][k].cube # history'[t][i].cube
               PROVE  history'[t][i].prev = history'[s][j].new
  BY ZenonT(30) DEF Chain
<1>4. Open(a) => n = clock /\ n \in 1..MaxSets /\ n \notin committed
  BY <1>1, OwnSet DEF SingleInv, SoloInv, Recent
<1>5. history' = history \/ Open(a) \/ n = 0
  BY <1>1, <1>2 DEF Begun, IInv, Open, InTransaction
<1>6. CASE Write(a)
  <2>1. /\ Open(a) /\ m \in Nat
        /\ Len(history'[n]) = m
        /\ \A k \in 1..(m - 1) : history'[n][k] = history[n][k]
        /\ history'[n][m].cube = work[a].plan[1].cube
        /\ history'[n][m].prev = work[a].plan[1].prev
        /\ \A set \in (1..MaxSets) \ {n} : history'[set] = history[set]
        /\ pc[a] = "writing"
        /\ \A set \in 1..MaxSets : \A k \in 1..Len(history'[set]) :
              \/ set = n /\ k = m
              \/ k \in 1..Len(history[set]) /\ history'[set][k] = history[set][k]
    BY <1>1, <1>6, WroteNext
  <2>2. s # n
    <3>1. SUFFICES ASSUME s = n
                   PROVE  FALSE
      OBVIOUS
    <3>2. history'[t] = history[t] /\ history[t] = <<>>
      BY <1>1, <1>3, <1>4, <2>1, <3>1, NoneLater
    <3>3. QED
      BY <1>3, <3>2
  <2>3. j \in 1..Len(history[s]) /\ history'[s][j] = history[s][j]
    BY <1>3, <2>1, <2>2
  <2>4. CASE ~(t = n /\ i = m)
    <3>1. i \in 1..Len(history[t]) /\ history'[t][i] = history[t][i]
      BY <1>3, <2>1, <2>4
    <3>2. ASSUME NEW u \in (s + 1)..(t - 1), NEW k \in 1..Len(history[u])
          PROVE  history[u][k].cube # history[t][i].cube
      <4>1. u \in 1..MaxSets
        BY <1>1, <1>3
      <4>2. k \in 1..Len(history'[u]) /\ history'[u][k] = history[u][k]
        <5>1. CASE u = n
          <6>1. Len(history[n]) \in Nat
            BY <1>1, <1>4, <2>1, SomeRow
          <6>2. k \in 1..(m - 1) /\ k \in 1..m
            BY <3>2, <5>1, <6>1
          <6>3. QED
            BY <2>1, <5>1, <6>2
        <5>2. CASE u # n
          BY <2>1, <3>2, <4>1, <5>2
        <5>3. QED
          BY <5>1, <5>2
      <4>3. QED
        BY <1>3, <3>1, <4>2
    <3>3. history[s][j].cube = history[t][i].cube
      BY <1>3, <2>3, <3>1
    <3>4. history[t][i].prev = history[s][j].new
      BY <1>3, <2>3, <3>1, <3>2, <3>3, Linked DEF SingleInv
    <3>5. QED
      BY <2>3, <3>1, <3>4
  <2>5. CASE t = n /\ i = m
    <3> DEFINE c == work[a].plan[1].cube
    <3>1. /\ history'[t][i].prev = cuts[c] /\ history'[t][i].cube = c
          /\ history[s][j].cube = c
      BY <1>3, <2>1, <2>3, <2>5 DEF SingleInv, Fresh
    <3>2. s \in committed
      <4>1. history[s] # <<>>
        BY <2>3
      <4>2. s \in committed \/ \E b \in Admins : Open(b) /\ work[b].at = s
        BY <1>1, <4>1 DEF IInv, Logged
      <4>3. \A b \in Admins : b = a
        BY DEF OneAtATime
      <4>4. QED
        BY <2>2, <4>2, <4>3
    <3>3. Untouched(c, s)
      <4>1. SUFFICES ASSUME NEW set \in committed, set > s,
                            NEW k \in 1..Len(history[set])
                     PROVE  history[set][k].cube # c
        BY SMTT(30) DEF Untouched
      <4>2. set \in 1..MaxSets /\ set # n /\ set \in (s + 1)..(t - 1)
        BY <1>1, <1>3, <1>4, <2>1, <2>5, <4>1
      <4>3. history'[set] = history[set]
        BY <2>1, <4>2
      <4>4. QED
        BY <1>3, <3>1, <4>2, <4>3
    <3>4. history[s][j].new = cuts[c]
      BY <2>3, <3>1, <3>2, <3>3, LastRow DEF SingleInv
    <3>5. QED
      BY <2>3, <3>1, <3>4
  <2>6. QED
    BY <2>4, <2>5
<1>7. CASE history' = RolledBack(a) \/ history' = history
  <2>1. history'[s] = history[s] /\ history'[t] = history[t]
    <3>1. \A set \in 1..MaxSets : \A k \in 1..Len(history'[set]) :
             history'[set] = history[set]
      BY <1>1, <1>7, RolledBackRows
    <3>2. QED
      BY <1>3, <3>1
  <2>2. ASSUME NEW u \in (s + 1)..(t - 1)
        PROVE  history'[u] = history[u]
    <3>1. u \in 1..MaxSets /\ u < t /\ u # 0
      BY <1>1, <1>3
    <3>2. CASE history' = history
      BY <3>2
    <3>3. CASE history' # history
      <4>1. u # n
        <5>1. SUFFICES ASSUME u = n
                       PROVE  FALSE
          OBVIOUS
        <5>2. Open(a) /\ t > clock
          BY <1>1, <1>3, <1>4, <1>5, <3>1, <3>3, <5>1
        <5>3. history[t] = <<>>
          BY <1>1, <5>2, NoneLater
        <5>4. QED
          BY <1>3, <2>1, <5>3
      <4>2. QED
        BY <1>1, <1>7, <3>1, <3>3, <4>1, RolledBackRows
    <3>4. QED
      BY <3>2, <3>3
  <2>3. \A u \in (s + 1)..(t - 1) : \A k \in 1..Len(history[u]) :
           history[u][k].cube # history[t][i].cube
    BY <1>3, <2>1, <2>2
  <2>4. /\ i \in 1..Len(history[t]) /\ j \in 1..Len(history[s])
        /\ history[s][j].cube = history[t][i].cube
    BY <1>3, <2>1
  <2>5. history[t][i].prev = history[s][j].new
    BY <1>3, <2>3, <2>4, Linked DEF SingleInv
  <2>6. QED
    BY <2>1, <2>5
<1>8. QED
  BY <1>6, <1>7, LogStep

LEMMA RowsByIndex ==
    ASSUME TypeOK, NEW c, NEW sets \in SUBSET (1..MaxSets)
    PROVE  /\ \A set \in sets : \A j \in 1..Len(history[set]) :
                 history[set][j].cube = c => history[set][j] \in RowsOf(c, sets)
           /\ \A row \in RowsOf(c, sets) : \E set \in sets :
                 \E j \in 1..Len(history[set]) :
                    row = history[set][j] /\ history[set][j].cube = c
<1>1. \A set \in sets : DOMAIN history[set] = 1..Len(history[set])
  BY SomeRow
<1>2. QED
  BY <1>1 DEF RowsOf

\* The cube gets back what the row before the target's has written, or what
\* the target has replaced.
LEMMA Restores ==
    ASSUME SingleInv, NEW a \in Admins, Commit(a), work[a].kind = "revert",
           NEW c \in {Own(a)[i].cube : i \in DOMAIN Own(a)}
    PROVE  LET rows == RowsOf(c, committed)
               older == RowsOf(c, {set \in committed : set < work[a].target})
           IN IF older = {}
                THEN \E row \in rows : Oldest(row, rows) /\ cuts'[c] = row.prev
                ELSE \E row \in older : Newest(row, older) /\ cuts'[c] = row.new
<1> DEFINE target == work[a].target
           before == {set \in committed : set < target}
           rows == RowsOf(c, committed)
           older == RowsOf(c, before)
<1>1. /\ TypeOK /\ IInv /\ SoloInv /\ clock \in Nat /\ MaxSets \in Nat
      /\ committed \subseteq 1..clock /\ committed \subseteq 1..MaxSets
  BY Numbers DEF SingleInv, SoloInv, IInv
<1>2. c \in Cubes /\ \E i \in 1..Len(Own(a)) : Own(a)[i].cube = c
  <2>1. work[a].at \in 1..MaxSets
    BY <1>1, Committed
  <2>2. QED
    BY <1>1, <2>1, SomeRow DEF Own
<1>3. /\ target \in committed /\ target \in 1..MaxSets /\ Untouched(c, target)
      /\ \E j \in 1..Len(history[target]) : /\ history[target][j].cube = c
                                            /\ cuts'[c] = history[target][j].prev
  BY <1>1, <1>2, Reverted
<1>4. PICK j \in 1..Len(history[target]) :
         history[target][j].cube = c /\ cuts'[c] = history[target][j].prev
  BY <1>3
<1>5. /\ before \in SUBSET (1..MaxSets) /\ committed \in SUBSET (1..MaxSets)
  BY <1>1
<1>6. CASE older = {}
  <2> DEFINE row == history[target][j]
  <2>1. row \in rows
    BY <1>1, <1>3, <1>4, <1>5, RowsByIndex
  <2>2. ASSUME NEW set \in committed, NEW k \in 1..Len(history[set]),
               history[set][k].cube = c
        PROVE  history[set][k].id >= row.id
    <3>1. set \in 1..MaxSets /\ ~(set > target)
      BY <1>1, <1>3, <2>2 DEF Untouched
    <3>2. ~(set < target)
      <4>1. SUFFICES ASSUME set \in before
                     PROVE  FALSE
        BY <2>2
      <4>2. history[set][k] \in older
        <5> HIDE DEF before
        <5>1. QED
          BY <1>1, <1>5, <2>2, <4>1, RowsByIndex
      <4>3. QED
        BY <1>6, <4>2
    <3>3. set = target
      BY <1>3, <3>1, <3>2
    <3>4. k = j
      BY <1>3, <1>4, <2>2, <3>3 DEF SingleInv, Once
    <3>5. row.id \in Nat
      BY <1>1, <1>3, <1>4, SomeRow
    <3>6. QED
      BY <3>3, <3>4, <3>5
  <2> HIDE DEF row
  <2>3. Oldest(row, rows)
    BY <1>1, <1>5, <2>2, RowsByIndex DEF Oldest
  <2>4. QED
    BY <1>4, <1>6, <2>1, <2>3 DEF row
<1>7. CASE older # {}
  <2> DEFINE S == {set \in before : \E k \in 1..Len(history[set]) : history[set][k].cube = c}
  <2>1. IsFiniteSet(S) /\ S \subseteq Int /\ S # {}
    <3>1. S # {}
      <4> HIDE DEF before
      <4> HIDE DEF S
      <4>0. PICK r : r \in RowsOf(c, before)
        BY <1>7
      <4>1. PICK set \in before : \E k \in 1..Len(history[set]) : history[set][k].cube = c
        <5>1. TypeOK /\ before \in SUBSET (1..MaxSets)
          BY <1>1, <1>5
        <5>2. \A row \in RowsOf(c, before) : \E set \in before :
                 \E k \in 1..Len(history[set]) :
                    row = history[set][k] /\ history[set][k].cube = c
          BY <5>1, RowsByIndex
        <5>3. QED
          BY <4>0, <5>2
      <4>2. set \in S
        BY <4>1 DEF S
      <4>3. QED
        BY <4>2
    <3>2. IsFiniteSet(1..clock)
      BY <1>1, FS_Interval
    <3>3. S \subseteq 1..clock
      BY <1>1
    <3> HIDE DEF S
    <3>4. IsFiniteSet(S)
      BY <3>2, <3>3, FS_Subset
    <3>5. S \subseteq Int
      BY <1>1, <3>3
    <3>6. QED
      BY <3>1, <3>4, <3>5
  <2>2. PICK s \in S : \A other \in S : s >= other
    <3> HIDE DEF S
    <3>1. QED
      BY <2>1, MaximumExists
  <2>3. s \in committed /\ s \in 1..MaxSets /\ s < target /\ s \in before
    BY <1>5, <2>2
  <2>4. PICK k \in 1..Len(history[s]) : history[s][k].cube = c
    BY <2>2
  <2> DEFINE row == history[s][k]
  <2>5. ASSUME NEW u \in (s + 1)..(target - 1), NEW i \in 1..Len(history[u]),
               history[u][i].cube = c
        PROVE  FALSE
    <3>1. u \in 1..MaxSets /\ u < target /\ u > s
      BY <1>1, <1>3, <2>3
    <3>2. u \notin S
      BY <2>2, <2>3, <3>1
    <3>3. u \notin committed
      BY <2>5, <3>1, <3>2
    <3>4. PICK b \in Admins : Open(b) /\ work[b].at = u
      <4>1. history[u] # <<>>
        BY <2>5
      <4>2. QED
        BY <1>1, <3>1, <3>3, <4>1 DEF IInv, Logged
    <3>5. u = clock
      BY <1>1, <3>4 DEF SoloInv, Recent
    <3>6. QED
      BY <1>1, <1>3, <3>1, <3>5
  <2>6. history[target][j].prev = row.new
    <3>1. \A u \in (s + 1)..(target - 1) : \A i \in 1..Len(history[u]) :
             history[u][i].cube # history[target][j].cube
      BY <1>4, <2>5
    <3>2. history[s][k].cube = history[target][j].cube /\ s < target
      BY <1>4, <2>3, <2>4
    <3> HIDE DEF target
    <3>3. QED
      BY <1>3, <2>3, <3>1, <3>2, Linked DEF SingleInv
  <2>7. row \in older
    BY <1>1, <1>5, <2>3, <2>4, RowsByIndex
  <2>8. ASSUME NEW set \in before, NEW i \in 1..Len(history[set]),
               history[set][i].cube = c
        PROVE  history[set][i].id <= row.id
    <3>1. set \in 1..MaxSets /\ set <= s
      BY <1>5, <2>2, <2>8
    <3>2. history[set][i].id \in Nat /\ row.id \in Nat
      BY <1>1, <2>3, <2>4, <3>1, SomeRow
    <3>3. CASE set = s
      <4>1. i = k
        BY <2>3, <2>4, <2>8, <3>3 DEF SingleInv, Once
      <4>2. QED
        BY <3>2, <3>3, <4>1
    <3>4. CASE set < s
      <4>1. history[set][i].id < row.id
        BY <1>1, <2>3, <2>4, <3>1, <3>4 DEF SoloInv, Ascending
      <4>2. QED
        BY <3>2, <4>1
    <3>5. QED
      BY <2>3, <3>1, <3>3, <3>4
  <2> HIDE DEF row
  <2>9. Newest(row, older)
    <3> HIDE DEF before
    <3>1. QED
      BY <1>1, <1>5, <2>8, RowsByIndex, ZenonT(30) DEF Newest
  <2>10. QED
    BY <1>4, <1>7, <2>6, <2>7, <2>9 DEF row
<1>8. QED
  BY <1>6, <1>7

LEMMA SingleInitially == OneAtATime /\ Init => SingleInv
<1> SUFFICES ASSUME OneAtATime, Init
             PROVE  SingleInv
  OBVIOUS
<1>1. SoloInv
  BY SoloInitially
<1>2. /\ \A set \in 1..MaxSets : history[set] = <<>>
      /\ \A a \in Admins : pc[a] = "idle" /\ work[a] = NoWork /\ ~Open(a)
  BY DEF Init, Open, InTransaction
<1>3. Once /\ Chain
  BY <1>2 DEF Once, Chain
<1>4. PlanOnce /\ Fresh
  BY <1>2 DEF PlanOnce, Fresh, NoWork
<1>5. QED
  BY <1>1, <1>3, <1>4 DEF SingleInv

LEMMA SingleStep ==
    OneAtATime /\ ~Duplicates /\ SingleInv /\ [Next]_vars => SingleInv'
<1> SUFFICES ASSUME OneAtATime, ~Duplicates, SingleInv, [Next]_vars
             PROVE  SingleInv'
  OBVIOUS
<1>1. SoloInv' /\ IInv'
  BY SoloStep DEF SingleInv, SoloInv
<1>2. ASSUME NEW a \in Admins, Transact(a) \/ Rebuild(a)
      PROVE  Once' /\ PlanOnce' /\ Fresh' /\ Chain'
  BY <1>1, <1>2, OnceStep, PlanOnceStep, FreshStep, ChainStep
<1>3. CASE UNCHANGED vars
  <2>1. UNCHANGED <<cuts, history, pc, work>>
    BY <1>3 DEF vars
  <2>2. Once' /\ Fresh'
    BY <2>1 DEF SingleInv, Once, Fresh
  <2>3. PlanOnce'
    BY <2>1 DEF SingleInv, PlanOnce, Open, Own
  <2>4. Chain'
    <3>1. SUFFICES ASSUME NEW s \in 1..MaxSets, NEW t \in 1..MaxSets, s < t,
                          NEW i \in 1..Len(history'[t]), NEW j \in 1..Len(history'[s]),
                          history'[s][j].cube = history'[t][i].cube,
                          \A u \in (s + 1)..(t - 1) : \A k \in 1..Len(history'[u]) :
                             history'[u][k].cube # history'[t][i].cube
                   PROVE  history'[t][i].prev = history'[s][j].new
      BY ZenonT(30) DEF Chain
    <3>2. QED
      BY <2>1, <3>1, Linked DEF SingleInv
  <2>5. QED
    BY <1>1, <2>2, <2>3, <2>4 DEF SingleInv
<1>4. QED
  BY <1>1, <1>2, <1>3 DEF Next, SingleInv

\* When requests are made one at a time and name no cube twice, a revert gives
\* every cube that it restores the cut the cube had before the change set,
\* which may itself have been a revert.
THEOREM RevertRestoresCorrect ==
    ASSUME ~Duplicates, \A a, b \in Admins : a = b
    PROVE  Spec => RevertRestores
<1>1. OneAtATime
  BY DEF OneAtATime
<1>2. SingleInv /\ [Next]_vars =>
         [\A a \in Admins : Commits(a) /\ work[a].kind = "revert" =>
            \A c \in {Own(a)[i].cube : i \in DOMAIN Own(a)} :
               LET rows == RowsOf(c, committed)
                   older == RowsOf(c, {set \in committed : set < work[a].target})
               IN IF older = {}
                    THEN \E row \in rows : Oldest(row, rows) /\ cuts'[c] = row.prev
                    ELSE \E row \in older : Newest(row, older) /\ cuts'[c] = row.new]_vars
  BY <1>1, CommitsOnly, Restores
<1>3. Init => SingleInv
  BY <1>1, SingleInitially
<1>4. SingleInv /\ [Next]_vars => SingleInv'
  BY <1>1, SingleStep
<1>5. QED
  BY <1>2, <1>3, <1>4, PTL DEF Spec, RevertRestores

-----------------------------------------------------------------------------
(* Edits that are made one at a time keep the shelf.                       *)

NoRow(rows, c) == \A i \in 1..Len(rows) : rows[i].cube # c

\* The k-th row is the last one for the cube.
Final(rows, c, k) ==
    /\ k \in 1..Len(rows)
    /\ rows[k].cube = c
    /\ \A j \in 1..Len(rows) : rows[j].cube = c => j <= k

LEMMA AppliedCases ==
    ASSUME NEW S, NEW rows \in Seq(S), NEW shelf, NEW c \in Cubes
    PROVE  \/ NoRow(rows, c) /\ Applied(shelf, rows)[c] = shelf[c]
           \/ \E k : Final(rows, c, k) /\ Applied(shelf, rows)[c] = rows[k].new
<1>1. CASE \A i \in 1..Len(rows) : rows[i].cube # c
  BY <1>1, AppliedLast DEF NoRow
<1>2. CASE \E i \in 1..Len(rows) : rows[i].cube = c
  <2>1. PICK i \in 1..Len(rows) : /\ rows[i].cube = c
                                  /\ \A j \in 1..Len(rows) : rows[j].cube = c => j <= i
                                  /\ Applied(shelf, rows)[c] = rows[i].new
    BY <1>2, AppliedLast
  <2>2. Final(rows, c, i)
    BY <2>1 DEF Final
  <2>3. QED
    BY <2>1, <2>2
<1>3. QED
  BY <1>1, <1>2

LEMMA AppliedNone ==
    ASSUME NEW S, NEW rows \in Seq(S), NEW shelf, NEW c \in Cubes, NoRow(rows, c)
    PROVE  Applied(shelf, rows)[c] = shelf[c]
BY AppliedLast DEF NoRow

\* The last row of a cube gives it its cut.
LEMMA AppliedAt ==
    ASSUME NEW S, NEW rows \in Seq(S), NEW shelf, NEW c \in Cubes, NEW k,
           Final(rows, c, k)
    PROVE  Applied(shelf, rows)[c] = rows[k].new
<1>1. ~NoRow(rows, c)
  BY DEF Final, NoRow
<1>2. PICK i : Final(rows, c, i) /\ Applied(shelf, rows)[c] = rows[i].new
  BY <1>1, AppliedCases
<1>3. i = k
  BY <1>2 DEF Final
<1>4. QED
  BY <1>2, <1>3

\* Shelves that agree on every cube are one.
LEMMA AppliedEqual ==
    ASSUME NEW shelf, NEW rows, NEW base, NEW others,
           \A c \in Cubes : Applied(shelf, rows)[c] = Applied(base, others)[c]
    PROVE  Applied(shelf, rows) = Applied(base, others)
<1> DEFINE f == Applied(shelf, rows)
           g == Applied(base, others)
<1>1. f = [c \in Cubes |-> f[c]] /\ g = [c \in Cubes |-> g[c]]
  BY DEF Applied
<1> HIDE DEF f, g
<1>2. f = g
  BY <1>1 DEF f, g
<1>3. QED
  BY <1>2 DEF f, g

\* Rows name the same cubes and give them the same cuts.
SameRows(rows, others) ==
    /\ Len(others) = Len(rows)
    /\ \A i \in 1..Len(rows) : /\ others[i].cube = rows[i].cube
                               /\ others[i].new = rows[i].new

LEMMA AppliedSame ==
    ASSUME NEW S, NEW rows \in Seq(S), NEW T, NEW others \in Seq(T), NEW shelf,
           SameRows(rows, others)
    PROVE  Applied(shelf, rows) = Applied(shelf, others)
<1>1. ASSUME NEW c \in Cubes
      PROVE  Applied(shelf, rows)[c] = Applied(shelf, others)[c]
  <2>1. CASE NoRow(rows, c)
    <3>1. NoRow(others, c)
      BY <2>1 DEF NoRow, SameRows
    <3>2. QED
      BY <2>1, <3>1, AppliedNone
  <2>2. ASSUME NEW k, Final(rows, c, k), Applied(shelf, rows)[c] = rows[k].new
        PROVE  Applied(shelf, rows)[c] = Applied(shelf, others)[c]
    <3>1. Final(others, c, k) /\ others[k].new = rows[k].new
      BY <2>2 DEF Final, SameRows
    <3>2. Applied(shelf, others)[c] = others[k].new
      BY <3>1, AppliedAt
    <3>3. QED
      BY <2>2, <3>1, <3>2
  <2>3. QED
    BY <2>1, <2>2, AppliedCases
<1>2. QED
  BY <1>1, AppliedEqual

\* The first entry of a plan has become the last row of the log.
Moved(own, plan, logged, left) ==
    /\ Len(own) \in Nat /\ Len(left) \in Nat
    /\ Len(logged) = Len(own) + 1
    /\ Len(plan) = Len(left) + 1
    /\ \A i \in 1..Len(own) : logged[i] = own[i]
    /\ \A i \in 1..Len(left) : left[i] = plan[i + 1]
    /\ logged[Len(own) + 1].cube = plan[1].cube
    /\ logged[Len(own) + 1].new = plan[1].new

LEMMA MovedLeft ==
    ASSUME NEW own, NEW plan, NEW logged, NEW left, Moved(own, plan, logged, left),
           NEW c, NEW k, Final(left, c, k)
    PROVE  Final(plan, c, k + 1) /\ plan[k + 1] = left[k]
<1>1. k \in 1..Len(left) /\ k + 1 \in 1..Len(plan) /\ plan[k + 1] = left[k]
  BY DEF Moved, Final
<1>2. ASSUME NEW j \in 1..Len(plan), plan[j].cube = c
      PROVE  j <= k + 1
  <2>1. CASE j = 1
    BY <1>1, <2>1
  <2>2. CASE j # 1
    <3>1. j - 1 \in 1..Len(left) /\ (j - 1) + 1 = j
      BY <2>2 DEF Moved
    <3>2. left[j - 1] = plan[j]
      BY <3>1 DEF Moved
    <3>3. j - 1 <= k
      BY <1>2, <3>1, <3>2 DEF Final
    <3>4. QED
      BY <1>1, <3>1, <3>3
  <2>3. QED
    BY <2>1, <2>2
<1>3. QED
  BY <1>1, <1>2 DEF Final

LEMMA MovedFirst ==
    ASSUME NEW own, NEW plan, NEW logged, NEW left, Moved(own, plan, logged, left),
           NEW c, NoRow(left, c), plan[1].cube = c
    PROVE  /\ Final(plan, c, 1) /\ Final(logged, c, Len(own) + 1)
           /\ logged[Len(own) + 1].new = plan[1].new
<1>1. ASSUME NEW j \in 1..Len(plan), plan[j].cube = c
      PROVE  j <= 1
  <2>1. SUFFICES ASSUME j # 1
                 PROVE  FALSE
    OBVIOUS
  <2>2. j - 1 \in 1..Len(left) /\ (j - 1) + 1 = j
    BY <2>1 DEF Moved
  <2>3. left[j - 1] = plan[j]
    BY <2>2 DEF Moved
  <2>4. QED
    BY <1>1, <2>2, <2>3 DEF NoRow
<1>2. 1 \in 1..Len(plan) /\ Len(own) + 1 \in 1..Len(logged)
  BY DEF Moved
<1>3. \A j \in 1..Len(logged) : j <= Len(own) + 1
  BY DEF Moved
<1>4. Final(plan, c, 1)
  BY <1>1, <1>2 DEF Final
<1>5. Final(logged, c, Len(own) + 1)
  BY <1>2, <1>3 DEF Final, Moved
<1>6. QED
  BY <1>4, <1>5 DEF Moved

LEMMA MovedOther ==
    ASSUME NEW own, NEW plan, NEW logged, NEW left, Moved(own, plan, logged, left),
           NEW c, NoRow(left, c), plan[1].cube # c
    PROVE  /\ NoRow(plan, c) /\ (NoRow(own, c) => NoRow(logged, c))
           /\ \A k : Final(own, c, k) => Final(logged, c, k) /\ logged[k] = own[k]
<1>1. ASSUME NEW j \in 1..Len(plan), plan[j].cube = c
      PROVE  FALSE
  <2>1. j # 1
    BY <1>1
  <2>2. j - 1 \in 1..Len(left) /\ (j - 1) + 1 = j
    BY <2>1 DEF Moved
  <2>3. left[j - 1] = plan[j]
    BY <2>2 DEF Moved
  <2>4. QED
    BY <1>1, <2>2, <2>3 DEF NoRow
<1>2. \A j \in 1..Len(logged) : j \in 1..Len(own) \/ j = Len(own) + 1
  BY DEF Moved
<1>3. \A j \in 1..Len(logged) : logged[j].cube = c => j \in 1..Len(own) /\ own[j].cube = c
  BY <1>2 DEF Moved
<1>4. NoRow(plan, c)
  BY <1>1 DEF NoRow
<1>5. NoRow(own, c) => NoRow(logged, c)
  BY <1>3 DEF NoRow
<1>6. ASSUME NEW k, Final(own, c, k)
      PROVE  Final(logged, c, k) /\ logged[k] = own[k]
  <2>1. k \in 1..Len(own) /\ k \in 1..Len(logged) /\ logged[k] = own[k]
    BY <1>6 DEF Final, Moved
  <2>2. QED
    BY <1>3, <1>6, <2>1 DEF Final
<1>7. QED
  BY <1>4, <1>5, <1>6

\* A row may be written before the others are.
LEMMA AppliedMove ==
    ASSUME NEW S, NEW own \in Seq(S), NEW logged \in Seq(S),
           NEW T, NEW plan \in Seq(T), NEW left \in Seq(T), NEW shelf,
           Moved(own, plan, logged, left)
    PROVE  Applied(Applied(shelf, logged), left) = Applied(Applied(shelf, own), plan)
<1> DEFINE before == Applied(shelf, own)
           after == Applied(shelf, logged)
<1>1. ASSUME NEW c \in Cubes
      PROVE  Applied(after, left)[c] = Applied(before, plan)[c]
  <2>1. \/ NoRow(own, c) /\ before[c] = shelf[c]
        \/ \E k : Final(own, c, k) /\ before[c] = own[k].new
    BY AppliedCases
  <2>2. \A k : Final(logged, c, k) => after[c] = logged[k].new
    BY AppliedAt
  <2>3. NoRow(logged, c) => after[c] = shelf[c]
    BY AppliedNone
  <2> HIDE DEF before, after
  <2>4. \/ NoRow(left, c) /\ Applied(after, left)[c] = after[c]
        \/ \E k : Final(left, c, k) /\ Applied(after, left)[c] = left[k].new
    BY AppliedCases
  <2>5. \A k : Final(plan, c, k) => Applied(before, plan)[c] = plan[k].new
    BY AppliedAt
  <2>6. NoRow(plan, c) => Applied(before, plan)[c] = before[c]
    BY AppliedNone
  <2>7. CASE \E k : Final(left, c, k) /\ Applied(after, left)[c] = left[k].new
    <3>1. PICK k : Final(left, c, k) /\ Applied(after, left)[c] = left[k].new
      BY <2>7
    <3>2. Final(plan, c, k + 1) /\ plan[k + 1] = left[k]
      BY <3>1, MovedLeft
    <3>3. QED
      BY <2>5, <3>1, <3>2
  <2>8. CASE NoRow(left, c) /\ Applied(after, left)[c] = after[c]
    <3>1. CASE plan[1].cube = c
      <4>1. /\ Final(plan, c, 1) /\ Final(logged, c, Len(own) + 1)
            /\ logged[Len(own) + 1].new = plan[1].new
        BY <2>8, <3>1, MovedFirst
      <4>2. QED
        BY <2>2, <2>5, <2>8, <4>1
    <3>2. CASE plan[1].cube # c
      <4>1. /\ NoRow(plan, c) /\ (NoRow(own, c) => NoRow(logged, c))
            /\ \A k : Final(own, c, k) => Final(logged, c, k) /\ logged[k] = own[k]
        BY <2>8, <3>2, MovedOther
      <4>2. after[c] = before[c]
        BY <2>1, <2>2, <2>3, <4>1
      <4>3. QED
        BY <2>6, <2>8, <4>1, <4>2
    <3>3. QED
      BY <3>1, <3>2
  <2>9. QED
    BY <2>4, <2>7, <2>8
<1> HIDE DEF before, after
<1>2. QED
  BY <1>1, AppliedEqual DEF before, after

\* A span stays contiguous if none of its cuts change.
LEMMA ContiguousSame ==
    ASSUME NEW before, NEW after, NEW span, NEW wide, span \subseteq wide,
           \A c \in span : after[c] = before[c], Contiguous(before, wide)
    PROVE  Contiguous(after, span)
<1>1. SUFFICES ASSUME NEW i \in {c \in span : after[c] # NoCut},
                      NEW j \in {c \in span : after[c] # NoCut},
                      NEW k \in {c \in span : after[c] # NoCut},
                      i < j, j < k, after[i].label = after[k].label
               PROVE  after[j].label = after[i].label
  BY DEF Contiguous
<1>2. /\ i \in {c \in wide : before[c] # NoCut} /\ j \in {c \in wide : before[c] # NoCut}
      /\ k \in {c \in wide : before[c] # NoCut}
  OBVIOUS
<1>3. after[i] = before[i] /\ after[j] = before[j] /\ after[k] = before[k]
  OBVIOUS
<1>4. before[j].label = before[i].label
  BY <1>1, <1>2, <1>3 DEF Contiguous
<1>5. QED
  BY <1>3, <1>4

\* validate_contiguity of the touched units, with their other cuts merged in,
\* speaks for the whole shelf.
LEMMA AcceptedKeeps ==
    ASSUME NEW S, NEW updates \in Seq(S), NEW shelf, Accepted(shelf, updates),
           UnitsContiguous(shelf, Units)
    PROVE  UnitsContiguous(Applied(shelf, updates), Units)
<1> DEFINE after == Applied(shelf, updates)
           touched == {UnitOf[updates[i].cube] : i \in DOMAIN updates}
<1>1. UnitsContiguous(after, touched)
  BY DEF Accepted
<1>2. ASSUME NEW u \in Units
      PROVE  Contiguous(after, {c \in Cubes : UnitOf[c] = u})
  <2> DEFINE span == {c \in Cubes : UnitOf[c] = u}
  <2>1. CASE u \in touched
    BY <1>1, <2>1 DEF UnitsContiguous
  <2>2. CASE u \notin touched
    <3>1. ASSUME NEW c \in span
          PROVE  after[c] = shelf[c]
      <4>1. NoRow(updates, c)
        BY <2>2 DEF NoRow
      <4>2. QED
        BY <4>1, AppliedNone
    <3>2. Contiguous(shelf, span)
      BY DEF UnitsContiguous
    <3> HIDE DEF after, span
    <3>3. Contiguous(after, span)
      BY <3>1, <3>2, ContiguousSame
    <3>4. QED
      BY <3>3 DEF span
  <2>3. QED
    BY <2>1, <2>2
<1>3. QED
  BY <1>2 DEF UnitsContiguous

\* What validate_contiguity says of all units at once holds of each of them.
LEMMA ImportKeeps ==
    ASSUME NEW before, NEW file, ImportAccepted(file),
           \A c \in Cubes : before[c] = file[c]
    PROVE  UnitsContiguous(before, Units)
<1>1. ASSUME NEW u \in Units
      PROVE  Contiguous(before, {c \in Cubes : UnitOf[c] = u})
  <2> DEFINE span == {c \in Cubes : UnitOf[c] = u}
  <2>1. span \subseteq Cubes /\ \A c \in span : before[c] = file[c]
    OBVIOUS
  <2> HIDE DEF span
  <2>2. Contiguous(before, span)
    BY <2>1, ContiguousSame DEF ImportAccepted
  <2>3. QED
    BY <2>2 DEF span
<1>2. QED
  BY <1>1 DEF UnitsContiguous

\* The shelf after a cascade: the new cut, and up to the cube that absorbs the
\* shift every cut one cube further on.
LEMMA Cascaded ==
    ASSUME NEW shelf \in Shelves, NEW after \in 0..Size, HasRoom(shelf, after),
           NEW cut, NEW c \in Cubes
    PROVE  Applied(shelf, Cascade(shelf, after, cut))[c] =
             IF c = after + 1 THEN cut
             ELSE IF after < c /\ c <= Absorber(shelf, after) THEN shelf[c - 1]
             ELSE shelf[c]
<1> DEFINE rows == Cascade(shelf, after, cut)
           n == Absorber(shelf, after) - after
<1>1. Size \in Nat /\ after \in Nat /\ c \in Nat /\ Cubes \subseteq Nat
  BY ShelfAssumption DEF Cubes
<1>2. n \in Nat /\ n >= 1 /\ Absorber(shelf, after) = after + n
  <2>1. Absorber(shelf, after) \in Cubes /\ Absorber(shelf, after) > after
    BY <1>1, AbsorberIsEmpty
  <2>2. \A x \in Nat : x > after =>
           x - after \in Nat /\ x - after >= 1 /\ x = after + (x - after)
    BY <1>1
  <2>3. QED
    BY <1>1, <2>1, <2>2
<1>3. rows = [i \in 1..n |-> [cube |-> after + i,
                              new |-> IF i = 1 THEN cut ELSE shelf[after + i - 1]]]
  BY DEF Cascade
<1> HIDE DEF n
<1>4. \A i \in 1..n : /\ rows[i].cube = after + i
                      /\ rows[i].new = IF i = 1 THEN cut ELSE shelf[after + i - 1]
  BY <1>3
<1>5. rows \in Seq({rows[i] : i \in 1..n}) /\ Len(rows) = n
  <2>1. rows \in [1..n -> {rows[i] : i \in 1..n}]
    BY <1>3
  <2> HIDE DEF rows
  <2>2. QED
    BY <1>2, <2>1, Listed
<1> HIDE DEF rows
<1>6. CASE after < c /\ c <= after + n
  <2>1. PICK k \in 1..n : k = c - after
    BY <1>1, <1>2, <1>6
  <2>2. Final(rows, c, k)
    BY <1>1, <1>4, <1>5, <2>1, SMTT(30) DEF Final
  <2>3. Applied(shelf, rows)[c] = rows[k].new
    BY <1>5, <2>2, AppliedAt
  <2>4. rows[k].new = IF c = after + 1 THEN cut ELSE shelf[c - 1]
    <3>1. (k = 1 <=> c = after + 1) /\ after + k - 1 = c - 1
      BY <1>1, <2>1
    <3>2. QED
      BY <1>4, <3>1
  <2>5. QED
    BY <1>1, <1>2, <1>6, <2>3, <2>4 DEF rows
<1>7. CASE ~(after < c /\ c <= after + n)
  <2>1. NoRow(rows, c)
    BY <1>1, <1>2, <1>4, <1>5, <1>7 DEF NoRow
  <2>2. Applied(shelf, rows)[c] = shelf[c]
    BY <1>5, <2>1, AppliedNone
  <2>3. c # after + 1
    BY <1>1, <1>2, <1>7
  <2>4. QED
    BY <1>2, <1>7, <2>2, <2>3 DEF rows
<1>8. QED
  BY <1>6, <1>7

\* An insert keeps every cut of the shelf, in order, and adds one.
LEMMA InsertKeeps ==
    ASSUME NEW shelf \in Shelves, NEW after \in 0..Size, HasRoom(shelf, after),
           NEW cut \in Cuts, NEW result,
           result = Applied(shelf, Cascade(shelf, after, cut))
    PROVE  OneCutMore(shelf, result)
<1> DEFINE A == Absorber(shelf, after)
           new == after + 1
           goes(c) == IF after < c /\ c < A THEN c + 1 ELSE c
           moved == [c \in CutBearing(shelf) |-> goes(c)]
<1>1. /\ Size \in Nat /\ after \in Nat /\ Cubes = 1..Size
      /\ A \in Cubes /\ A > after /\ shelf[A] = NoCut
  <2>1. Size \in Nat /\ after \in Nat /\ Cubes = 1..Size
    BY ShelfAssumption DEF Cubes
  <2>2. QED
    BY <2>1, AbsorberIsEmpty
<1>2. \A c \in Cubes :
         result[c] = IF c = new THEN cut
                     ELSE IF after < c /\ c <= A THEN shelf[c - 1]
                     ELSE shelf[c]
  BY Cascaded
<1>3. cut # NoCut
  BY ShelfAssumption
<1>4. \A c : c \in CutBearing(shelf) <=> c \in Cubes /\ shelf[c] # NoCut
  BY DEF CutBearing
<1>5. \A c : c \in CutBearing(result) <=> c \in Cubes /\ result[c] # NoCut
  BY DEF CutBearing
<1> HIDE DEF A
<1>6. new \in CutBearing(result)
  BY <1>1, <1>2, <1>3, <1>5
<1>7. ASSUME NEW c \in CutBearing(shelf)
      PROVE  /\ goes(c) \in CutBearing(result) /\ goes(c) # new
             /\ result[goes(c)] = shelf[c] /\ goes(c) \in Nat
  <2>1. c \in 1..Size /\ shelf[c] # NoCut /\ c # A
    BY <1>1, <1>4
  <2>2. CASE after < c /\ c < A
    <3>1. goes(c) = c + 1 /\ c + 1 \in Cubes /\ c + 1 # new /\ (c + 1) - 1 = c
      BY <1>1, <2>1, <2>2
    <3>2. result[c + 1] = shelf[(c + 1) - 1]
      BY <1>1, <1>2, <2>1, <2>2, <3>1
    <3> HIDE DEF new, goes
    <3>3. QED
      BY <1>1, <1>5, <2>1, <3>1, <3>2
  <2>3. CASE ~(after < c /\ c < A)
    <3>1. goes(c) = c /\ c \in Cubes /\ c # new /\ ~(after < c /\ c <= A)
      BY <1>1, <2>1, <2>3
    <3>2. result[c] = shelf[c]
      BY <1>2, <3>1
    <3> HIDE DEF new, goes
    <3>3. QED
      BY <1>1, <1>5, <2>1, <3>1, <3>2
  <2>4. QED
    BY <2>2, <2>3
<1>8. ASSUME NEW e \in CutBearing(result) \ {new}
      PROVE  \E c \in CutBearing(shelf) : goes(c) = e
  <2>1. e \in 1..Size /\ result[e] # NoCut /\ e # new
    BY <1>1, <1>5
  <2>2. CASE after < e /\ e <= A
    <3>1. e - 1 \in Cubes /\ after < e - 1 /\ e - 1 < A /\ (e - 1) + 1 = e
      BY <1>1, <2>1, <2>2
    <3>2. shelf[e - 1] = result[e]
      BY <1>1, <1>2, <2>1, <2>2
    <3>3. e - 1 \in CutBearing(shelf)
      BY <1>4, <2>1, <3>1, <3>2
    <3>4. QED
      BY <3>1, <3>3
  <2>3. CASE ~(after < e /\ e <= A)
    <3>1. shelf[e] = result[e]
      BY <1>1, <1>2, <2>1, <2>3
    <3>2. e \in CutBearing(shelf) /\ ~(after < e /\ e < A)
      BY <1>1, <1>4, <2>1, <2>3, <3>1
    <3>3. QED
      BY <3>2
  <2>4. QED
    BY <2>2, <2>3
<1>9. ASSUME NEW c \in CutBearing(shelf), NEW d \in CutBearing(shelf), c < d
      PROVE  goes(c) < goes(d)
  <2>1. c \in 1..Size /\ d \in 1..Size /\ d # A /\ A \in Nat
    BY <1>1, <1>4
  <2>2. QED
    BY <1>1, <1>9, <2>1
<1>10. moved \in [CutBearing(shelf) -> CutBearing(result) \ {new}]
  BY <1>7
<1>11. \A c \in CutBearing(shelf) : moved[c] = goes(c)
  OBVIOUS
<1> HIDE DEF moved, new, goes
<1>12. /\ \A e \in CutBearing(result) \ {new} : \E c \in CutBearing(shelf) : moved[c] = e
       /\ \A c \in CutBearing(shelf) :
             /\ result[moved[c]] = shelf[c]
             /\ \A d \in CutBearing(shelf) : c < d => moved[c] < moved[d]
  BY <1>7, <1>8, <1>9, <1>11
<1>13. QED
  BY <1>6, <1>10, <1>12 DEF OneCutMore

LEMMA NothingApplied ==
    ASSUME NEW shelf \in Shelves
    PROVE  Applied(shelf, <<>>) = shelf
<1> DEFINE after == Applied(shelf, <<>>)
<1>1. \A c \in Cubes : after[c] = shelf[c]
  <2>1. SUFFICES ASSUME NEW c \in Cubes
                 PROVE  after[c] = shelf[c]
    OBVIOUS
  <2>2. <<>> \in Seq(Updates) /\ NoRow(<<>>, c)
    BY DEF NoRow
  <2>3. QED
    BY <2>2, AppliedNone
<1>2. after = [c \in Cubes |-> after[c]]
  BY DEF Applied
<1> HIDE DEF after
<1>3. after = shelf
  BY <1>1, <1>2 DEF Shelves
<1>4. QED
  BY <1>3 DEF after

\* What an edit, an insert or an import may do to a shelf.
Keeps(kind, before, after) ==
    /\ UnitsContiguous(before, Units) => UnitsContiguous(after, Units)
    /\ kind = "insert" => OneCutMore(before, after)

\* The rows that a transaction has written, and the shelf when it has written
\* the others too.
Written(a) == IF Open(a) THEN Own(a) ELSE <<>>

Outcome(a) == Applied(Applied(cuts, Written(a)), work[a].plan)

\* What was validated holds until the request commits.
Intact ==
    \A a \in Admins :
       pc[a] \in Uncommitted /\ work[a].kind # "revert" /\ cache = cuts
          => Keeps(work[a].kind, cuts, Outcome(a))

KeptInv == IInv /\ Intact

Proposals == UNION {[1..n -> [cube : Cubes, new : AnyCut]] : n \in Nat}

LEMMA EditKeeps ==
    ASSUME TypeOK, NEW a \in Admins, NEW updates \in UpdateLists, NEW key,
           PlanEdit(a, updates, key), cache = cuts
    PROVE  /\ Validated(a, "edit", updates, key) /\ updates \in Proposals
           /\ Keeps("edit", cuts, Applied(cuts, updates))
<1>1. PICK n \in Nat : updates \in [1..n -> [cube : Cubes, new : AnyCut]]
  BY EditingAssumption DEF UpdateLists, AnyCut
<1>2. updates \in Seq([cube : Cubes, new : AnyCut])
  BY <1>1, Listed
<1>3. Accepted(cuts, updates) /\ Validated(a, "edit", updates, key)
  BY DEF PlanEdit
<1>4. Keeps("edit", cuts, Applied(cuts, updates))
  BY <1>2, <1>3, AcceptedKeeps DEF Keeps
<1>5. QED
  BY <1>1, <1>3, <1>4 DEF Proposals

LEMMA InsertedKeeps ==
    ASSUME TypeOK, NEW a \in Admins, NEW after \in 0..Size, NEW cut \in Cuts,
           PlanInsert(a, after, cut), cache = cuts
    PROVE  LET cascade == Cascade(cuts, after, cut)
           IN /\ Validated(a, "insert", cascade, NoKey) /\ cascade \in Proposals
              /\ Keeps("insert", cuts, Applied(cuts, cascade))
<1> DEFINE cascade == Cascade(cuts, after, cut)
           n == Absorber(cuts, after) - after
<1>1. cuts \in Shelves /\ Size \in Nat /\ HasRoom(cuts, after)
  BY ShelfAssumption DEF TypeOK, PlanInsert
<1>2. Absorber(cuts, after) \in Cubes /\ Absorber(cuts, after) > after
  BY <1>1, AbsorberIsEmpty
<1>3. n \in Nat
  BY <1>1, <1>2 DEF Cubes
<1>4. cascade = [i \in 1..n |->
                   [cube |-> after + i,
                    new |-> IF i = 1 THEN cut ELSE cuts[after + i - 1]]]
  BY DEF Cascade
<1>5. ASSUME NEW i \in 1..n
      PROVE  /\ after + i \in Cubes
             /\ (IF i = 1 THEN cut ELSE cuts[after + i - 1]) \in AnyCut
  <2>1. after + i \in Cubes /\ (i # 1 => after + i - 1 \in Cubes)
    BY <1>1, <1>2 DEF Cubes
  <2>2. QED
    BY <1>1, <2>1 DEF Shelves, AnyCut
<1> HIDE DEF n
<1>6. cascade \in [1..n -> [cube : Cubes, new : AnyCut]]
  BY <1>4, <1>5
<1>7. Accepted(cuts, cascade) /\ Validated(a, "insert", cascade, NoKey)
  BY DEF PlanInsert
<1>8. OneCutMore(cuts, Applied(cuts, cascade))
  BY <1>1, InsertKeeps
<1> HIDE DEF cascade
<1>9. cascade \in Seq([cube : Cubes, new : AnyCut])
  BY <1>3, <1>6, Listed
<1>10. Keeps("insert", cuts, Applied(cuts, cascade))
  BY <1>7, <1>8, <1>9, AcceptedKeeps DEF Keeps
<1>11. cascade \in Proposals
  BY <1>3, <1>6 DEF Proposals
<1>12. QED
  BY <1>7, <1>10, <1>11 DEF cascade

LEMMA ImportedKeeps ==
    ASSUME TypeOK, NEW a \in Admins, NEW file \in Files, NEW key,
           PlanImport(a, file, key)
    PROVE  LET updates == [c \in Cubes |-> [cube |-> c, new |-> file[c]]]
           IN /\ Validated(a, "import", updates, key) /\ updates \in Proposals
              /\ Keeps("import", cuts, Applied(cuts, updates))
<1> DEFINE updates == [c \in Cubes |-> [cube |-> c, new |-> file[c]]]
<1>1. file \in Shelves /\ Size \in Nat /\ Cubes = 1..Size
  BY ShelfAssumption, EditingAssumption DEF Cubes
<1>2. updates \in [1..Size -> [cube : Cubes, new : AnyCut]]
  BY <1>1 DEF Shelves, AnyCut
<1>3. \A c \in Cubes : updates[c].cube = c /\ updates[c].new = file[c]
  OBVIOUS
<1>4. ImportAccepted(file) /\ Validated(a, "import", updates, key)
  BY DEF PlanImport
<1> HIDE DEF updates
<1>5. updates \in Seq([cube : Cubes, new : AnyCut]) /\ Len(updates) = Size
  BY <1>1, <1>2, Listed
<1>6. ASSUME NEW c \in Cubes
      PROVE  Applied(cuts, updates)[c] = file[c]
  <2>1. Final(updates, c, c)
    BY <1>1, <1>3, <1>5 DEF Final
  <2>2. Applied(cuts, updates)[c] = updates[c].new
    BY <1>5, <2>1, AppliedAt
  <2>3. QED
    BY <1>3, <2>2
<1>7. UnitsContiguous(Applied(cuts, updates), Units)
  BY <1>4, <1>6, ImportKeeps
<1>8. Keeps("import", cuts, Applied(cuts, updates))
  BY <1>7 DEF Keeps
<1>9. updates \in Proposals
  BY <1>1, <1>2 DEF Proposals
<1>10. QED
  BY <1>4, <1>8, <1>9 DEF updates

\* The plan of a validated request has what was validated.
LEMMA ValidatedKeeps ==
    ASSUME IInv, IInv', NEW a \in Admins, NEW kind, NEW updates \in Proposals, NEW key,
           Validated(a, kind, updates, key), Keeps(kind, cuts, Applied(cuts, updates))
    PROVE  Keeps(work'[a].kind, cuts', Outcome(a)')
<1> DEFINE plan == work'[a].plan
<1>1. /\ pc'[a] = "planned" /\ work'[a].kind = kind
      /\ DOMAIN plan = DOMAIN updates
      /\ \A i \in DOMAIN updates : /\ plan[i].cube = updates[i].cube
                                   /\ plan[i].new = updates[i].new
  BY ValidatedJob DEF IInv
<1>2. plan \in Seq(Updates) /\ cuts \in Shelves
  BY DEF IInv, TypeOK
<1>3. PICK n \in Nat : updates \in [1..n -> [cube : Cubes, new : AnyCut]]
  BY DEF Proposals
<1>4. updates \in Seq([cube : Cubes, new : AnyCut]) /\ Len(updates) = n /\ DOMAIN updates = 1..n
  BY <1>3, Listed
<1>5. cuts' = cuts
  BY DEF Validated
<1>6. Written(a)' = <<>>
  BY <1>1 DEF Written, Open, InTransaction
<1> HIDE DEF plan
<1>7. SameRows(updates, plan)
  BY <1>1, <1>2, <1>4 DEF SameRows
<1>8. Applied(cuts, updates) = Applied(cuts, plan)
  BY <1>2, <1>4, <1>7, AppliedSame
<1>9. Outcome(a)' = Applied(Applied(cuts, <<>>), plan)
  BY <1>5, <1>6 DEF Outcome, plan
<1>10. Outcome(a)' = Applied(cuts, plan)
  BY <1>2, <1>9, NothingApplied
<1>11. QED
  BY <1>1, <1>5, <1>8, <1>10

LEMMA PlanKeeps ==
    ASSUME IInv, IInv', NEW a \in Admins, Plan(a), cache = cuts
    PROVE  work'[a].kind = "revert" \/ Keeps(work'[a].kind, cuts', Outcome(a)')
<1>1. CASE \E updates \in UpdateLists, key \in Keys \union {NoKey} :
              PlanEdit(a, updates, key)
  <2>1. PICK updates \in UpdateLists, key \in Keys \union {NoKey} :
           PlanEdit(a, updates, key)
    BY <1>1
  <2>2. /\ Validated(a, "edit", updates, key) /\ updates \in Proposals
        /\ Keeps("edit", cuts, Applied(cuts, updates))
    BY <2>1, EditKeeps DEF IInv
  <2>3. QED
    BY <2>2, ValidatedKeeps
<1>2. CASE \E after \in 0..Size, cut \in Cuts : PlanInsert(a, after, cut)
  <2>1. PICK after \in 0..Size, cut \in Cuts : PlanInsert(a, after, cut)
    BY <1>2
  <2> DEFINE cascade == Cascade(cuts, after, cut)
  <2>2. /\ Validated(a, "insert", cascade, NoKey) /\ cascade \in Proposals
        /\ Keeps("insert", cuts, Applied(cuts, cascade))
    BY <2>1, InsertedKeeps DEF IInv
  <2> HIDE DEF cascade
  <2>3. QED
    BY <2>2, ValidatedKeeps
<1>3. CASE \E file \in Files, key \in Keys \union {NoKey} : PlanImport(a, file, key)
  <2>1. PICK file \in Files, key \in Keys \union {NoKey} : PlanImport(a, file, key)
    BY <1>3
  <2> DEFINE updates == [c \in Cubes |-> [cube |-> c, new |-> file[c]]]
  <2>2. /\ Validated(a, "import", updates, key) /\ updates \in Proposals
        /\ Keeps("import", cuts, Applied(cuts, updates))
    BY <2>1, ImportedKeeps DEF IInv
  <2> HIDE DEF updates
  <2>3. QED
    BY <2>2, ValidatedKeeps
<1>4. CASE \E target \in 1..MaxSets : PlanRevert(a, target)
  BY <1>4, RevertPlan DEF IInv
<1>5. QED
  BY <1>1, <1>2, <1>3, <1>4 DEF Plan

\* The next row moves from the plan to the log.
LEMMA WrittenKeeps ==
    ASSUME IInv, IInv', NEW a \in Admins, Write(a)
    PROVE  Outcome(a)' = Outcome(a)
<1> DEFINE n == work[a].at
           own == history[n]
           logged == history'[n]
           plan == work[a].plan
           left == work'[a].plan
<1>1. /\ Open(a) /\ n \in 1..MaxSets /\ plan # <<>>
      /\ Len(logged) = Len(own) + 1
      /\ \A i \in 1..Len(own) : logged[i] = own[i]
      /\ logged[Len(own) + 1].cube = plan[1].cube
      /\ logged[Len(own) + 1].new = plan[1].new
  <2>1. Len(own) \in Nat
    BY Wrote, SomeRow DEF IInv
  <2>2. (Len(own) + 1) - 1 = Len(own)
    BY <2>1
  <2>3. /\ \A i \in 1..((Len(own) + 1) - 1) : logged[i] = own[i]
        /\ Open(a) /\ n \in 1..MaxSets /\ plan # <<>>
        /\ Len(logged) = Len(own) + 1
        /\ logged[Len(own) + 1].cube = plan[1].cube
        /\ logged[Len(own) + 1].new = plan[1].new
    BY Wrote, ZenonT(30)
  <2>4. QED
    BY <2>2, <2>3
<1>2. /\ Len(left) = Len(plan) - 1 /\ work'[a].at = n
      /\ \A i \in 1..Len(left) : left[i] = plan[i + 1]
  BY <1>1, NextEntry DEF Write, IInv
<1>3. /\ own \in Seq(HistoryRows) /\ logged \in Seq(HistoryRows)
      /\ plan \in Seq(Updates) /\ left \in Seq(Updates)
  <2>1. own \in Seq(HistoryRows) /\ logged \in Seq(HistoryRows)
    BY <1>1 DEF IInv, TypeOK
  <2>2. plan \in Seq(Updates) /\ left \in Seq(Updates)
    BY DEF IInv, TypeOK
  <2>3. QED
    BY <2>1, <2>2
<1>4. /\ Written(a) = own /\ Written(a)' = logged /\ cuts' = cuts
  <2>1. Open(a)'
    BY Goes DEF Write, Open, InTransaction, IInv
  <2>2. QED
    BY <1>1, <1>2, <2>1 DEF Written, Own, Write
<1> HIDE DEF n, own, logged, plan, left
<1>5. Moved(own, plan, logged, left)
  <2>1. Len(own) \in Nat /\ Len(left) \in Nat /\ Len(plan) \in Nat
    BY <1>3
  <2>2. Len(plan) = Len(left) + 1
    BY <1>2, <2>1
  <2>3. QED
    BY <1>1, <1>2, <2>1, <2>2 DEF Moved
<1>6. Applied(Applied(cuts, logged), left) = Applied(Applied(cuts, own), plan)
  BY <1>3, <1>5, AppliedMove
<1>7. QED
  BY <1>4, <1>6 DEF Outcome, plan, left

LEMMA FetchedKeeps ==
    ASSUME IInv, IInv', NEW a \in Admins, FetchCurrent(a)
    PROVE  Outcome(a)' = Outcome(a)
<1> DEFINE plan == work[a].plan
           fetched == work'[a].plan
<1>1. Open(a) /\ Open(a)' /\ history' = history /\ cuts' = cuts
  BY Goes DEF FetchCurrent, Open, InTransaction, IInv
<1>2. /\ work'[a].at = work[a].at /\ Len(fetched) = Len(plan)
      /\ \A i \in 1..Len(fetched) : /\ fetched[i].cube = plan[i].cube
                                    /\ fetched[i].new = plan[i].new
  BY <1>1, OwnSet, Fetched DEF IInv
<1>3. plan \in Seq(Updates) /\ fetched \in Seq(Updates)
  BY DEF IInv, TypeOK
<1>4. Written(a)' = Written(a)
  BY <1>1, <1>2 DEF Written, Own
<1> HIDE DEF plan, fetched
<1>5. SameRows(plan, fetched)
  BY <1>2 DEF SameRows
<1>6. Applied(Applied(cuts, Written(a)), plan) = Applied(Applied(cuts, Written(a)), fetched)
  BY <1>3, <1>5, AppliedSame
<1>7. QED
  BY <1>1, <1>4, <1>6 DEF Outcome, plan, fetched

\* When a transaction begins it has written nothing.
LEMMA BegunKeeps ==
    ASSUME IInv, NEW a \in Admins, Begin(a)
    PROVE  Outcome(a)' = Outcome(a) /\ work'[a].kind = work[a].kind
<1>1. /\ pc[a] = "planned" /\ pc'[a] = "reading" /\ cuts' = cuts /\ history' = history
  BY Goes DEF Begin, IInv
<1>2. /\ work'[a] = [work[a] EXCEPT !.at = clock + 1]
      /\ clock + 1 \in 1..MaxSets /\ work[a] \in JobsOf(clock, committed)
  BY Numbers, SomeJob DEF Begin, IInv, TypeOK
<1>3. /\ work'[a].plan = work[a].plan /\ work'[a].at = clock + 1
      /\ work'[a].kind = work[a].kind
  BY <1>2 DEF JobsOf
<1>4. Own(a)' = <<>>
  BY <1>1, <1>2, <1>3, Numbers, NoneLater DEF Own, IInv
<1>5. Written(a) = <<>> /\ Written(a)' = <<>>
  BY <1>1, <1>4 DEF Written, Open, InTransaction
<1>6. QED
  BY <1>1, <1>3, <1>5 DEF Outcome

LEMMA IntactStep ==
    ASSUME OneAtATime, KeptInv, IInv', NEW a \in Admins, Transact(a) \/ Rebuild(a)
    PROVE  Intact'
<1> USE DEF KeptInv
<1>1. SUFFICES ASSUME pc'[a] \in Uncommitted, work'[a].kind # "revert", cache' = cuts'
               PROVE  Keeps(work'[a].kind, cuts', Outcome(a)')
  BY DEF OneAtATime, Intact
<1>2. ASSUME pc[a] \in Uncommitted, work'[a].kind = work[a].kind, cuts' = cuts,
             cache' = cache, Outcome(a)' = Outcome(a)
      PROVE  Keeps(work'[a].kind, cuts', Outcome(a)')
  BY <1>1, <1>2 DEF Intact
<1>3. /\ TypeOK /\ pc'[a] \notin {"idle", "committed"}
  BY <1>1 DEF Uncommitted, IInv
<1>4. ASSUME NEW key \in Keys, Replay(a, key)
      PROVE  Keeps(work'[a].kind, cuts', Outcome(a)')
  BY <1>3, <1>4 DEF Replay
<1>5. CASE Plan(a)
  <2>1. cuts' = cuts /\ cache' = cache
    BY <1>5 DEF Plan, PlanEdit, PlanInsert, PlanImport, PlanRevert, Validated
  <2>2. QED
    BY <1>1, <1>5, <2>1, PlanKeeps, SMTT(30)
<1>6. CASE Begin(a)
  <2>1. pc[a] \in Uncommitted /\ cuts' = cuts /\ cache' = cache
    BY <1>6 DEF Begin, Goto, Uncommitted
  <2>2. QED
    BY <1>2, <1>6, <2>1, BegunKeeps
<1>7. CASE FetchCurrent(a)
  <2>1. Open(a) /\ pc[a] \in Uncommitted /\ cuts' = cuts /\ cache' = cache
    BY <1>7 DEF FetchCurrent, Goto, Uncommitted, Open, InTransaction
  <2>2. work'[a].kind = work[a].kind
    BY <1>3, <1>7, <2>1, OwnSet, Fetched
  <2>3. QED
    BY <1>2, <1>7, <2>1, <2>2, FetchedKeeps
<1>8. CASE Restorable(a)
  BY <1>1, <1>8 DEF Restorable
<1>9. CASE Skip(a)
  <2>1. work'[a].kind = work[a].kind
    BY <1>3, <1>9, NextEntry DEF Skip
  <2>2. QED
    BY <1>1, <1>9, <2>1 DEF Skip
<1>10. CASE Write(a)
  <2>1. work[a].plan # <<>> /\ pc[a] = "writing"
    BY <1>10, WroteNext
  <2>2. work'[a].kind = work[a].kind
    BY <1>3, <1>10, <2>1, NextEntry DEF Write
  <2>3. cuts' = cuts /\ cache' = cache /\ pc[a] \in Uncommitted
    BY <1>10, <2>1 DEF Write, Uncommitted
  <2>4. QED
    BY <1>2, <1>10, <2>2, <2>3, WrittenKeeps
<1>11. CASE Commit(a)
  BY <1>3, <1>11, Committed
<1>12. CASE Abort(a) \/ DeadlockVictim(a) \/ RebuildFails(a) \/ Rebuild(a)
  <2>1. pc'[a] = "idle"
    BY <1>3, <1>12, Goes DEF Abort, DeadlockVictim, RebuildFails, Rebuild, TypeOK
  <2>2. QED
    BY <1>3, <2>1
<1>13. QED
  BY <1>4, <1>5, <1>6, <1>7, <1>8, <1>9, <1>10, <1>11, <1>12 DEF Transact

LEMMA KeptStep == OneAtATime /\ KeptInv /\ [Next]_vars => KeptInv'
<1> SUFFICES ASSUME OneAtATime, KeptInv, [Next]_vars
             PROVE  KeptInv'
  OBVIOUS
<1>1. IInv'
  BY InvariantStep DEF KeptInv
<1>2. CASE UNCHANGED vars
  <2>1. UNCHANGED <<cuts, history, cache, pc, work>>
    BY <1>2 DEF vars
  <2>2. Intact'
    BY <2>1 DEF KeptInv, Intact, Outcome, Written, Own, Open
  <2>3. QED
    BY <1>1, <2>2 DEF KeptInv
<1>3. ASSUME NEW a \in Admins, Transact(a) \/ Rebuild(a)
      PROVE  KeptInv'
  BY <1>1, <1>3, IntactStep DEF KeptInv
<1>4. QED
  BY <1>2, <1>3 DEF Next

LEMMA KeptCorrect ==
    ASSUME OneAtATime
    PROVE  Spec => []KeptInv
<1>1. Init => KeptInv
  BY Initially DEF Init, KeptInv, Intact, Uncommitted
<1>2. KeptInv /\ [Next]_vars => KeptInv'
  BY KeptStep
<1>3. QED
  BY <1>1, <1>2, PTL DEF Spec

LEMMA CommitKeeps ==
    ASSUME KeptInv, NEW a \in Admins, Commit(a), work[a].kind # "revert", cache = cuts
    PROVE  Keeps(work[a].kind, cuts, cuts')
<1>1. /\ Open(a) /\ pc[a] = "reading" /\ work[a].plan = <<>>
      /\ cuts' = Applied(cuts, Own(a))
  BY Committed DEF Commit, KeptInv
<1>2. cuts' \in Shelves
  <2>1. Own(a) \in Seq(HistoryRows) /\ cuts \in Shelves
    BY <1>1, OwnSet DEF KeptInv, IInv, TypeOK, Own
  <2>2. QED
    BY <1>1, <2>1, AppliedType
<1>3. Outcome(a) = Applied(cuts', <<>>)
  BY <1>1 DEF Outcome, Written
<1>4. Outcome(a) = cuts'
  BY <1>2, <1>3, NothingApplied
<1>5. QED
  BY <1>1, <1>4 DEF KeptInv, Intact, Uncommitted

\* When requests are made one at a time, an edit, an insert or an import that
\* is checked against a cache that is current keeps every label of a unit
\* together, also in the units it does not touch, and an insert that cascades
\* across units keeps every cut in order, whatever rows were written before.
THEOREM EditsKeepCorrect ==
    ASSUME \A a, b \in Admins : a = b
    PROVE  Spec => EditsKeepTheShelf
<1>1. OneAtATime
  BY DEF OneAtATime
<1>2. KeptInv /\ [Next]_vars =>
         [\A a \in Admins : Commits(a) /\ work[a].kind # "revert" /\ cache = cuts =>
             /\ UnitsContiguous(cuts, Units) => UnitsContiguous(cuts', Units)
             /\ work[a].kind = "insert" => OneCutMore(cuts, cuts')]_vars
  BY <1>1, CommitsOnly, CommitKeeps DEF Keeps
<1>3. Spec => []KeptInv
  BY <1>1, KeptCorrect
<1>4. QED
  BY <1>2, <1>3, PTL DEF Spec, EditsKeepTheShelf
=============================================================================

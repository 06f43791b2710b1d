-------------------------- MODULE AdminAccessProofs --------------------------
(***************************************************************************)
(* Theorems of AdminAccess for any number of sessions and requests and any *)
(* lifetimes.                                                              *)
(***************************************************************************)
EXTENDS AdminAccess, FiniteSetTheorems, TLAPS

\* What a request holds and has read: it holds the keys it has written, which
\* come before the ones it has yet to write unless they are a file's, and the
\* row it will slide, or log out, is there and no younger than was computed.
Sound(w) ==
    /\ w.todo \subseteq w.keys
    /\ w.keys # {} => w.pc = "write"
    /\ "idle" \in w.todo /\ ~w.file => w.todo = w.keys
    /\ w.next \in NextKey(w.todo, w.file)
    /\ w.others # {} => w.pc = "commit_pin"
    /\ \A s \in w.others : Exists(s)
    /\ w.pc \in {"slide", "handler", "pin"} => w.session \in Sessions /\ Exists(w.session)
    /\ w.pc = "slide" => w.left <= sessions[w.session].hard

IInv == TypeOK /\ \A q \in Requests : Sound(req[q])

-----------------------------------------------------------------------------
(* Greatest and least elements.                                            *)

\* A finite set of integers that is not empty has a greatest element.
LEMMA MaximumExists ==
    ASSUME NEW S, IsFiniteSet(S), S \subseteq Int, S # {}
    PROVE  \E m \in S : \A n \in S : m >= n
<1> DEFINE Bounded(T) == \E m \in T : \A n \in T : m >= n
           Bad == {T \in FiniteSubsetsOf(S) : T # {} /\ ~Bounded(T)}
<1>1. SUFFICES ASSUME ~Bounded(S)
               PROVE  FALSE
  OBVIOUS
<1>2. S \in Bad
  BY <1>1 DEF FiniteSubsetsOf
<1>3. PICK T \in Bad :
         \A U \in Bad : <<U, T>> \notin StrictSubsetOrdering(S)
  <2>1. Bad \subseteq FiniteSubsetsOf(S) /\ Bad # {}
    BY <1>2
  <2> HIDE DEF Bad
  <2>2. QED
    BY <2>1, FS_StrictSubsetOrderingWellFounded, WFMin
<1>4. PICK x \in T : TRUE
  OBVIOUS
<1>5. T \ {x} \in FiniteSubsetsOf(S) /\ T \in SUBSET S
  BY FS_RemoveElement DEF FiniteSubsetsOf
<1>6. T \ {x} \notin Bad
  <2>1. <<T \ {x}, T>> \in StrictSubsetOrdering(S)
    BY <1>4, <1>5 DEF StrictSubsetOrdering
  <2>2. QED
    BY <1>3, <2>1
<1>7. ~Bounded(T)
  OBVIOUS
<1>8. CASE T \ {x} = {}
  BY <1>4, <1>5, <1>7, <1>8
<1>9. CASE Bounded(T \ {x})
  <2>1. PICK m \in T \ {x} : \A n \in T \ {x} : m >= n
    BY <1>9
  <2>2. T \subseteq Int
    BY <1>5
  <2>3. CASE m >= x
    BY <1>4, <1>7, <2>1, <2>2, <2>3
  <2>4. CASE x >= m
    BY <1>4, <1>7, <2>1, <2>2, <2>4
  <2>5. QED
    BY <1>4, <2>1, <2>2, <2>3, <2>4
<1>10. QED
  BY <1>5, <1>6, <1>8, <1>9

LEMMA MaxIsGreatest ==
    ASSUME NEW S, IsFiniteSet(S), S \subseteq Int, S # {}
    PROVE  Max(S) \in S /\ \A n \in S : Max(S) >= n
BY MaximumExists DEF Max

LEMMA MinOfTwo ==
    ASSUME NEW a \in Int, NEW b \in Int
    PROVE  Min({a, b}) = IF a <= b THEN a ELSE b
<1>1. CASE a <= b
  <2>1. a \in {a,b} /\ \A y \in {a,b} : a =< y
    BY <1>1
  <2>2. \A x \in {a,b} : (\A y \in {a,b} : x =< y) => x = a
    BY <1>1
  <2> QED BY <1>1, <2>1, <2>2 DEF Min
<1>2. CASE b <= a
  <2>1. b \in {a,b} /\ \A y \in {a,b} : b =< y
    BY <1>2
  <2>2. \A x \in {a,b} : (\A y \in {a,b} : x =< y) => x = b
    BY <1>2
  <2> QED BY <1>2, <2>1, <2>2 DEF Min
<1> QED BY <1>1, <1>2

-----------------------------------------------------------------------------
(* Times.                                                                  *)

LEMMA CapsAreLeft ==
    /\ Max(HardCaps) \in Nat
    /\ HardCaps \subseteq Left \ {-1}
    /\ Left \subseteq Int
<1>1. /\ HardCaps # {} /\ IsFiniteSet(HardCaps) /\ HardCaps \subseteq Int
      /\ \A n \in HardCaps : n \in Nat /\ n >= 1
  BY AccessAssumption
<1>2. Max(HardCaps) \in HardCaps /\ \A n \in HardCaps : Max(HardCaps) >= n
  BY <1>1, MaxIsGreatest
<1>3. Max(HardCaps) \in Nat
  BY <1>1, <1>2
<1>4. \A n \in HardCaps : n \in Left \ {-1}
  BY <1>1, <1>2, <1>3 DEF Left
<1>5. QED
  BY <1>3, <1>4 DEF Left

LEMMA IdleIsCut ==
    ASSUME NEW hard \in Left, hard >= 0, NEW left \in IdleLeft(hard)
    PROVE  left \in Left /\ left >= 0 /\ left <= hard
<1>1. PICK idle \in IdleTTLs : left = Min({idle, hard})
  BY DEF IdleLeft
<1>2. idle \in Nat /\ hard \in Int /\ hard <= Max(HardCaps) /\ Max(HardCaps) \in Nat
  BY AccessAssumption, CapsAreLeft DEF Left
<1>3. left = IF idle <= hard THEN idle ELSE hard
  BY <1>1, <1>2, MinOfTwo
<1>4. QED
  BY <1>2, <1>3 DEF Left

LEMMA LessIsLeft ==
    ASSUME NEW a \in Left
    PROVE  Less(a) \in Left /\ \A b \in Left : a <= b => Less(a) <= Less(b)
<1>1. Max(HardCaps) \in Nat
  BY CapsAreLeft
<1>2. QED
  BY <1>1 DEF Less, Left

LEMMA OlderIsSession ==
    ASSUME NEW row \in Session
    PROVE  /\ Older(row) \in Session /\ Older(row).revoked = row.revoked
           /\ Older(row).idle = Less(row.idle) /\ Older(row).hard = Less(row.hard)
BY LessIsLeft DEF Older, Session

LEMMA IdleIsWork == Idle \in Work /\ Idle.pc = "idle" /\ Idle.left = -1
BY CapsAreLeft DEF Idle, Work, Left

LEMMA IdleIsSound == Sound(Idle)
BY DEF Sound, Idle, NextKey

\* The next key is one that is left, or there is none.
LEMMA NextIsKey ==
    ASSUME NEW todo \in SUBSET Keys, NEW file \in BOOLEAN, NEW k \in NextKey(todo, file)
    PROVE  /\ k \in Keys \cup {None}
           /\ IF todo = {} THEN k = None
              ELSE k \in todo /\ (file \/ k = "idle" \/ "idle" \notin todo)
BY DEF NextKey

-----------------------------------------------------------------------------
(* A step of one request; the rows keep their hard caps.                   *)

LEMMA RequestStep ==
    ASSUME IInv, NEW q \in Requests, NEW work \in Work,
           req' = [req EXCEPT ![q] = work],
           sessions' \in [Sessions -> Session \cup {None}],
           \A s \in Sessions : Exists(s)' => sessions'[s].idle <= sessions'[s].hard,
           \A s \in Sessions : Exists(s) =>
              Exists(s)' /\ sessions'[s].hard = sessions[s].hard,
           Sound(work)'
    PROVE  IInv'
<1>1. req \in [Requests -> Work] /\ req' \in [Requests -> Work]
  BY DEF IInv, TypeOK
<1>2. TypeOK'
  BY <1>1 DEF TypeOK
<1>3. ASSUME NEW r \in Requests
      PROVE  Sound(req[r])'
  <2>1. CASE r = q
    <3>1. req'[r] = work
      BY <1>1, <2>1
    <3>2. QED
      BY <3>1 DEF Sound
  <2>2. CASE r # q
    <3>1. req'[r] = req[r] /\ req[r] \in Work /\ Sound(req[r])
      BY <1>1, <2>2 DEF IInv
    <3>2. \A s \in req[r].others : Exists(s)'
      BY <3>1 DEF Sound, Work
    <3>3. req[r].pc \in {"slide", "handler", "pin"}
          => /\ req[r].session \in Sessions /\ Exists(req[r].session)
             /\ (sessions[req[r].session] # None)'
             /\ sessions'[req[r].session].hard = sessions[req[r].session].hard
      BY <3>1 DEF Sound, Exists
    <3>4. QED
      BY <3>1, <3>2, <3>3 DEF Sound, Exists
  <2>3. QED
    BY <2>1, <2>2
<1>4. QED
  BY <1>2, <1>3 DEF IInv

LEMMA GotoStep ==
    ASSUME IInv, NEW q \in Requests, NEW work \in Work, Goto(q, work), Sound(work)
    PROVE  IInv'
<1>1. Sound(work)'
  BY DEF Goto, Sound, Exists
<1>2. /\ sessions' \in [Sessions -> Session \cup {None}]
      /\ \A s \in Sessions : Exists(s)' => sessions'[s].idle <= sessions'[s].hard
      /\ \A s \in Sessions : Exists(s) =>
            Exists(s)' /\ sessions'[s].hard = sessions[s].hard
  BY DEF Goto, IInv, TypeOK, Exists
<1>3. req' = [req EXCEPT ![q] = work]
  BY DEF Goto
<1>4. QED
  BY <1>1, <1>2, <1>3, RequestStep

LEMMA AnswerStep ==
    ASSUME IInv, NEW q \in Requests, Answer(q)
    PROVE  IInv'
<1>1. Goto(q, Idle)
  BY DEF Answer
<1>2. QED
  BY <1>1, IdleIsSound, IdleIsWork, GotoStep

-----------------------------------------------------------------------------

LEMMA LoginStep ==
    ASSUME IInv, NEW q \in Requests, Login(q)
    PROVE  IInv'
<1> DEFINE next == [Idle EXCEPT !.pc = "create"]
<1>1. next \in Work /\ Sound(next) /\ Goto(q, next)
  BY IdleIsWork DEF Login, Sound, Idle, NextKey, Work
<1> HIDE DEF next
<1>2. QED
  BY <1>1, GotoStep

LEMMA CreateStep ==
    ASSUME IInv, NEW q \in Requests, CreateSession(q)
    PROVE  IInv'
<1>1. PICK s \in Sessions, cap \in HardCaps : \E idle \in IdleLeft(cap) :
         /\ ~Exists(s)
         /\ sessions' = [sessions EXCEPT ![s] =
               [hard |-> cap, idle |-> idle, revoked |-> FALSE]]
  BY DEF CreateSession
<1>2. PICK idle \in IdleLeft(cap) :
         /\ ~Exists(s)
         /\ sessions' = [sessions EXCEPT ![s] =
               [hard |-> cap, idle |-> idle, revoked |-> FALSE]]
  BY <1>1
<1>3. cap \in Left /\ cap >= 0
  BY CapsAreLeft, AccessAssumption
<1>4. idle \in Left /\ idle <= cap
  BY <1>3, IdleIsCut
<1>5. sessions \in [Sessions -> Session \cup {None}]
  BY DEF IInv, TypeOK
<1>6. sessions' \in [Sessions -> Session \cup {None}]
  BY <1>2, <1>3, <1>4, <1>5 DEF Session
<1>7. \A t \in Sessions : Exists(t)' => sessions'[t].idle <= sessions'[t].hard
  BY <1>2, <1>4, <1>5 DEF IInv, TypeOK, Exists
<1>8. \A t \in Sessions : Exists(t) => Exists(t)' /\ sessions'[t].hard = sessions[t].hard
  BY <1>2, <1>5 DEF Exists
<1>9. Sound(Idle)' /\ req' = [req EXCEPT ![q] = Idle]
  BY DEF Sound, Idle, NextKey, CreateSession
<1>10. QED
  BY <1>6, <1>7, <1>8, <1>9, IdleIsWork, RequestStep

LEMMA CheckStep ==
    ASSUME IInv, NEW q \in Requests, NEW s \in Sessions, Check(q, s)
    PROVE  IInv'
<1>1. PICK left \in IdleLeft(sessions[s].hard) :
         Goto(q, [Idle EXCEPT !.pc = "slide", !.session = s, !.left = left])
  BY DEF Check
<1> DEFINE next == [Idle EXCEPT !.pc = "slide", !.session = s, !.left = left]
<1>2. sessions[s].hard \in Left /\ sessions[s].hard >= 0 /\ Exists(s)
  BY DEF Check, Valid, Exists, IInv, TypeOK, Session
<1>3. left \in Left /\ left <= sessions[s].hard
  BY <1>2, IdleIsCut
<1>4. next \in Work
  BY <1>3, IdleIsWork DEF Work
<1>5. Sound(next)
  BY <1>2, <1>3 DEF Sound, Idle, NextKey
<1>6. Goto(q, next)
  BY <1>1
<1> HIDE DEF next
<1>7. QED
  BY <1>4, <1>5, <1>6, GotoStep

LEMMA SlideStep ==
    ASSUME IInv, NEW q \in Requests, Slide(q)
    PROVE  IInv'
<1> DEFINE s == req[q].session
           next == [req[q] EXCEPT !.pc = "handler", !.left = -1]
<1>1. /\ req[q] \in Work /\ Sound(req[q]) /\ req[q].pc = "slide"
      /\ s \in Sessions /\ Exists(s) /\ req[q].left <= sessions[s].hard
      /\ sessions \in [Sessions -> Session \cup {None}]
      /\ req \in [Requests -> Work]
  BY DEF IInv, TypeOK, Slide, Sound
<1>2. /\ sessions[s] \in Session
      /\ sessions' = [sessions EXCEPT ![s].idle = req[q].left]
      /\ req' = [req EXCEPT ![q] = next]
  BY <1>1 DEF Slide, Exists
<1>3. req[q].left \in Left
  BY <1>1 DEF Work
<1>4. sessions' \in [Sessions -> Session \cup {None}]
  BY <1>1, <1>2, <1>3 DEF Session
<1>5. \A t \in Sessions : t # s => sessions'[t] = sessions[t]
  BY <1>1, <1>2
<1>6. /\ sessions'[s].idle = req[q].left /\ sessions'[s].hard = sessions[s].hard
      /\ sessions'[s] \in Session
  BY <1>1, <1>2, <1>3 DEF Session
<1>7. \A t \in Sessions : Exists(t)' => sessions'[t].idle <= sessions'[t].hard
  BY <1>1, <1>5, <1>6 DEF IInv, TypeOK, Exists
<1>8. \A t \in Sessions : Exists(t) => Exists(t)' /\ sessions'[t].hard = sessions[t].hard
  BY <1>5, <1>6, NoneAssumption DEF Exists
<1>9. PICK work \in Work : work = next /\ work.pc = "handler" /\ work.session = s
                           /\ work.keys = {} /\ work.todo = {} /\ work.others = {}
                           /\ work.next \in NextKey({}, work.file)
  <2>1. /\ req[q].keys = {} /\ req[q].todo = {} /\ req[q].others = {} /\ -1 \in Left
        /\ req[q].next \in NextKey({}, req[q].file)
    BY <1>1, CapsAreLeft DEF Sound, Left
  <2>2. next \in Work
    BY <1>1, <2>1 DEF Work
  <2>3. /\ next.pc = "handler" /\ next.session = s
        /\ next.keys = {} /\ next.todo = {} /\ next.others = {}
        /\ next.next \in NextKey({}, next.file)
    BY <1>1, <2>1 DEF Work
  <2> HIDE DEF next
  <2>4. QED
    BY <2>2, <2>3
<1>10. Sound(work)'
  BY <1>1, <1>8, <1>9 DEF Sound
<1>11. req' = [req EXCEPT ![q] = work]
  BY <1>2, <1>9
<1>12. QED
  BY <1>4, <1>7, <1>8, <1>10, <1>11, RequestStep

LEMMA LogoutStep ==
    ASSUME IInv, NEW q \in Requests, Logout(q)
    PROVE  IInv'
<1> DEFINE s == req[q].session
<1>1. /\ s \in Sessions /\ Exists(s)
      /\ sessions \in [Sessions -> Session \cup {None}]
  BY DEF IInv, TypeOK, Logout, Sound
<1>2. sessions[s] \in Session /\ sessions' = [sessions EXCEPT ![s].revoked = TRUE]
  BY <1>1 DEF Logout, Exists
<1>3. /\ sessions'[s] \in Session
      /\ sessions'[s].idle = sessions[s].idle /\ sessions'[s].hard = sessions[s].hard
      /\ \A t \in Sessions : t # s => sessions'[t] = sessions[t]
      /\ sessions' \in [Sessions -> Session \cup {None}]
  BY <1>1, <1>2 DEF Session
<1>4. \A t \in Sessions : Exists(t)' => sessions'[t].idle <= sessions'[t].hard
  BY <1>1, <1>3 DEF IInv, TypeOK, Exists
<1>5. \A t \in Sessions : Exists(t) => Exists(t)' /\ sessions'[t].hard = sessions[t].hard
  BY <1>3, NoneAssumption DEF Exists
<1>6. Sound(Idle)' /\ req' = [req EXCEPT ![q] = Idle]
  BY DEF Sound, Idle, NextKey, Logout
<1>7. QED
  BY <1>3, <1>4, <1>5, <1>6, IdleIsWork, RequestStep

LEMMA UpdateStep ==
    ASSUME IInv, NEW q \in Requests, NEW file \in BOOLEAN, Update(q, file)
    PROVE  IInv'
<1>1. PICK K \in SUBSET Keys :
         \E k \in NextKey(K, file) :
            Goto(q, [Idle EXCEPT !.pc = "write", !.keys = K, !.todo = K, !.next = k,
                                 !.file = file])
  BY DEF Update
<1>2. PICK k \in NextKey(K, file) :
         Goto(q, [Idle EXCEPT !.pc = "write", !.keys = K, !.todo = K, !.next = k,
                              !.file = file])
  BY <1>1
<1> DEFINE next == [Idle EXCEPT !.pc = "write", !.keys = K, !.todo = K, !.next = k,
                                !.file = file]
<1>3. k \in Keys \cup {None}
  BY NextIsKey
<1>4. next \in Work
  BY <1>3, IdleIsWork DEF Work
<1>5. Sound(next)
  BY DEF Sound, Idle
<1>6. Goto(q, next)
  BY <1>2
<1> HIDE DEF next
<1>7. QED
  BY <1>4, <1>5, <1>6, GotoStep

LEMMA WriteStep ==
    ASSUME IInv, NEW q \in Requests, WriteKey(q)
    PROVE  IInv'
<1> DEFINE todo == req[q].todo \ {req[q].next}
<1>1. PICK k \in NextKey(todo, req[q].file) :
         Goto(q, [req[q] EXCEPT !.todo = todo, !.next = k])
  BY DEF WriteKey
<1> DEFINE next == [req[q] EXCEPT !.todo = todo, !.next = k]
<1>2. req[q] \in Work /\ Sound(req[q]) /\ req[q].pc = "write" /\ req[q].todo # {}
  BY DEF IInv, TypeOK, WriteKey
<1>3. /\ todo \in SUBSET Keys /\ req[q].todo \in SUBSET Keys /\ req[q].file \in BOOLEAN
      /\ k \in Keys \cup {None}
  <2>1. todo \in SUBSET Keys /\ req[q].todo \in SUBSET Keys /\ req[q].file \in BOOLEAN
    BY <1>2 DEF Work
  <2> HIDE DEF todo
  <2>2. QED
    BY <2>1, NextIsKey
<1>4. next \in Work
  BY <1>2, <1>3 DEF Work
<1>5. /\ next.pc = "write" /\ next.keys = req[q].keys /\ next.others = req[q].others
      /\ next.todo = todo /\ next.next = k /\ next.file = req[q].file
  BY <1>2 DEF Work
<1>6. Goto(q, next)
  BY <1>1
<1>7. ~req[q].file => "idle" \notin todo
  BY <1>2, <1>3, NextIsKey DEF Sound
<1> HIDE DEF next
<1>8. Sound(next)
  BY <1>2, <1>5, <1>7 DEF Sound
<1>9. QED
  BY <1>4, <1>6, <1>8, GotoStep

LEMMA ChangeStep ==
    ASSUME IInv, NEW q \in Requests, ChangePin(q)
    PROVE  IInv'
<1> DEFINE next == [req[q] EXCEPT !.pc = "pin"]
<1>1. req[q] \in Work /\ Sound(req[q]) /\ req[q].pc = "handler"
  BY DEF IInv, TypeOK, ChangePin
<1>2. /\ next \in Work /\ next.pc = "pin" /\ next.session = req[q].session
      /\ next.keys = req[q].keys /\ next.todo = req[q].todo
      /\ next.next = req[q].next /\ next.file = req[q].file
      /\ next.others = req[q].others
  BY <1>1 DEF Work
<1>3. Goto(q, next)
  BY DEF ChangePin
<1> HIDE DEF next
<1>4. Sound(next)
  BY <1>1, <1>2 DEF Sound
<1>5. QED
  BY <1>2, <1>3, <1>4, GotoStep

LEMMA UpsertStep ==
    ASSUME IInv, NEW q \in Requests, UpsertPin(q)
    PROVE  IInv'
<1> DEFINE others == {s \in Sessions : /\ Exists(s) /\ ~sessions[s].revoked
                                       /\ s # req[q].session}
<1>1. PICK set \in SUBSET Sessions : set = others
  OBVIOUS
<1> DEFINE next == [Idle EXCEPT !.pc = "commit_pin", !.others = set]
<1>2. \A s \in set : Exists(s)
  BY <1>1
<1>3. next \in Work /\ Goto(q, next)
  BY <1>1, IdleIsWork DEF Work, UpsertPin
<1>4. Sound(next)
  BY <1>2 DEF Sound, Idle, NextKey
<1> HIDE DEF next
<1>5. QED
  BY <1>3, <1>4, GotoStep

LEMMA CommitPinStep ==
    ASSUME IInv, NEW q \in Requests, CommitPin(q)
    PROVE  IInv'
<1>1. /\ req[q] \in Work /\ req[q].others \subseteq Sessions
      /\ \A s \in req[q].others : Exists(s)
      /\ sessions \in [Sessions -> Session \cup {None}]
  BY DEF IInv, TypeOK, Sound, Work
<1>2. ASSUME NEW s \in Sessions
      PROVE  /\ sessions'[s] \in Session \cup {None}
             /\ Exists(s)' <=> Exists(s)
             /\ Exists(s) => /\ sessions'[s].hard = sessions[s].hard
                             /\ sessions'[s].idle = sessions[s].idle
  <2>1. CASE s \in req[q].others
    <3>1. sessions[s] \in Session /\ sessions'[s] = [sessions[s] EXCEPT !.revoked = TRUE]
      BY <1>1, <2>1 DEF Exists, CommitPin
    <3>2. /\ sessions'[s] \in Session
          /\ sessions'[s].hard = sessions[s].hard /\ sessions'[s].idle = sessions[s].idle
      BY <3>1 DEF Session
    <3>3. QED
      BY <3>1, <3>2, NoneAssumption DEF Exists
  <2>2. CASE s \notin req[q].others
    BY <1>1, <2>2 DEF Exists, CommitPin
  <2>3. QED
    BY <2>1, <2>2
<1>3. sessions' \in [Sessions -> Session \cup {None}]
  BY <1>2 DEF CommitPin
<1>4. \A t \in Sessions : Exists(t)' => sessions'[t].idle <= sessions'[t].hard
  BY <1>2 DEF IInv, TypeOK
<1>5. Sound(Idle)' /\ req' = [req EXCEPT ![q] = Idle]
  BY DEF Sound, Idle, NextKey, CommitPin
<1>6. \A t \in Sessions : Exists(t) => Exists(t)' /\ sessions'[t].hard = sessions[t].hard
  BY <1>2
<1>7. QED
  BY <1>3, <1>4, <1>5, <1>6, IdleIsWork, RequestStep

-----------------------------------------------------------------------------

\* A second passes for the rows and for what was computed from them.
LEMMA TickStep ==
    ASSUME IInv, Tick
    PROVE  IInv'
<1>1. /\ sessions \in [Sessions -> Session \cup {None}]
      /\ req \in [Requests -> Work]
  BY DEF IInv, TypeOK
<1>2. ASSUME NEW s \in Sessions
      PROVE  /\ sessions'[s] \in Session \cup {None}
             /\ Exists(s)' <=> Exists(s)
             /\ Exists(s) => /\ sessions[s] \in Session /\ sessions'[s] \in Session
                             /\ sessions'[s].idle = Less(sessions[s].idle)
                             /\ sessions'[s].hard = Less(sessions[s].hard)
  <2>1. CASE Exists(s)
    <3>1. sessions[s] \in Session /\ sessions'[s] = Older(sessions[s])
      BY <1>1, <2>1 DEF Exists, Tick
    <3>2. QED
      BY <2>1, <3>1, OlderIsSession, NoneAssumption DEF Exists
  <2>2. CASE ~Exists(s)
    BY <1>1, <2>2 DEF Exists, Tick
  <2>3. QED
    BY <2>1, <2>2
<1>3. \A s \in Sessions : Exists(s)' => sessions'[s].idle <= sessions'[s].hard
  BY <1>2, LessIsLeft DEF IInv, TypeOK, Session
<1>4. ASSUME NEW q \in Requests
      PROVE  req'[q] \in Work /\ Sound(req[q])'
  <2> DEFINE next == [req[q] EXCEPT !.left = Less(req[q].left)]
  <2>1. req[q] \in Work /\ Sound(req[q]) /\ req'[q] = next
    BY <1>1 DEF IInv, Tick
  <2>2. Less(req[q].left) \in Left
    BY <2>1, LessIsLeft DEF Work
  <2>3. /\ next \in Work /\ next.pc = req[q].pc /\ next.session = req[q].session
        /\ next.left = Less(req[q].left) /\ next.keys = req[q].keys
        /\ next.todo = req[q].todo /\ next.others = req[q].others
        /\ next.next = req[q].next /\ next.file = req[q].file
    BY <2>1, <2>2 DEF Work
  <2>4. req[q].pc = "slide" =>
           Less(req[q].left) <= sessions'[req[q].session].hard
    BY <1>2, <2>1, LessIsLeft DEF Sound, Work, Session
  <2>5. \A s \in req[q].others : Exists(s)'
    BY <1>2, <2>1 DEF Sound, Work
  <2>6. req[q].pc \in {"slide", "handler", "pin"}
           => req[q].session \in Sessions /\ (sessions[req[q].session] # None)'
    BY <1>2, <2>1 DEF Sound, Exists
  <2> HIDE DEF next
  <2>7. QED
    BY <2>1, <2>3, <2>4, <2>5, <2>6 DEF Sound, Exists
<1>5. sessions' \in [Sessions -> Session \cup {None}] /\ req' \in [Requests -> Work]
  BY <1>2, <1>4 DEF Tick
<1>6. QED
  BY <1>3, <1>4, <1>5 DEF IInv, TypeOK

LEMMA RestartStep ==
    ASSUME IInv, Restart
    PROVE  IInv'
<1>1. req' \in [Requests -> Work] /\ \A q \in Requests : req'[q] = Idle
  BY IdleIsWork DEF Restart
<1>2. Sound(Idle)'
  BY DEF Sound, Idle, NextKey
<1>3. QED
  BY <1>1, <1>2 DEF IInv, TypeOK, Restart, Exists

LEMMA InvariantStep == IInv /\ [Next]_vars => IInv'
<1> SUFFICES ASSUME IInv, [Next]_vars
             PROVE  IInv'
  OBVIOUS
<1>1. ASSUME NEW q \in Requests, Serve(q)
      PROVE  IInv'
  <2>1. ASSUME OtherHandler(q) \/ CommitSettings(q)
        PROVE  IInv'
    BY <2>1, AnswerStep DEF OtherHandler, CommitSettings
  <2>2. ASSUME PutSettings(q) \/ ImportSettings(q)
        PROVE  IInv'
    BY <2>2, UpdateStep DEF PutSettings, ImportSettings
  <2>3. QED
    BY <1>1, <2>1, <2>2, CreateStep, SlideStep, LogoutStep, WriteStep, ChangeStep,
       UpsertStep, CommitPinStep DEF Serve, Handler
<1>2. ASSUME NEW q \in Requests,
             \/ Login(q) \/ Cancel(q) \/ DeadlockVictim(q)
             \/ \E s \in Sessions : Check(q, s)
      PROVE  IInv'
  BY <1>2, LoginStep, AnswerStep, CheckStep DEF Cancel, DeadlockVictim
<1>3. CASE UNCHANGED vars
  BY <1>3 DEF IInv, TypeOK, Sound, Exists, vars
<1>4. QED
  BY <1>1, <1>2, <1>3, TickStep, RestartStep DEF Next

LEMMA InvariantInit == Init => IInv
BY IdleIsWork, IdleIsSound DEF Init, IInv, TypeOK, Exists

\* No request slides a session past its hard cap, or a session that is not
\* there; every settings body writes its keys in the order of key_map, beside
\* imports that write theirs in the order of their file.
THEOREM InvariantCorrect == Spec => []IInv
BY InvariantInit, InvariantStep, PTL DEF Spec

\* The rows and what requests have read are as declared, and an idle time is
\* always within the hard cap of its session.
THEOREM TypeCorrect == Spec => []TypeOK
<1>1. IInv => TypeOK
  BY DEF IInv
<1>2. QED
  BY <1>1, InvariantCorrect, PTL

-----------------------------------------------------------------------------
(* What a step may do to a session.                                        *)

\* A row stays, its hard cap comes no later, and a revocation is for good.
Aged(s) ==
    /\ Exists(s)'
    /\ sessions'[s].hard <= sessions[s].hard
    /\ sessions[s].revoked => sessions'[s].revoked

LEMMA SameRowsAge ==
    ASSUME IInv, UNCHANGED sessions, NEW s \in Sessions, Exists(s)
    PROVE  Aged(s)
<1>1. sessions[s] \in Session
  BY DEF IInv, TypeOK, Exists
<1>2. sessions[s].hard \in Int
  BY <1>1, CapsAreLeft DEF Session
<1>3. QED
  BY <1>2 DEF Aged, Exists

LEMMA RowsAge ==
    ASSUME IInv, [Next]_vars, NEW s \in Sessions, Exists(s)
    PROVE  Aged(s)
<1>1. /\ sessions \in [Sessions -> Session \cup {None}] /\ sessions[s] \in Session
      /\ sessions[s].hard \in Left /\ sessions[s].hard \in Int
      /\ sessions' \in [Sessions -> Session \cup {None}]
      /\ req \in [Requests -> Work]
  BY InvariantStep, CapsAreLeft DEF IInv, TypeOK, Exists, Session
<1>2. ASSUME NEW q \in Requests, CreateSession(q)
      PROVE  Aged(s)
  BY <1>1, <1>2 DEF CreateSession, Aged, Exists
<1>3. ASSUME NEW q \in Requests, Slide(q)
      PROVE  Aged(s)
  <2>1. PICK t \in Sessions, left \in Left :
           sessions[t] \in Session /\ sessions' = [sessions EXCEPT ![t].idle = left]
    <3>1. /\ req[q] \in Work /\ req[q].pc = "slide"
          /\ sessions' = [sessions EXCEPT ![req[q].session].idle = req[q].left]
      BY <1>1, <1>3 DEF Slide
    <3>2. req[q].session \in Sessions /\ Exists(req[q].session)
      BY <3>1 DEF IInv, Sound
    <3>3. req[q].left \in Left /\ sessions[req[q].session] \in Session
      BY <1>1, <3>1, <3>2 DEF Work, Exists
    <3>4. QED
      BY <3>1, <3>2, <3>3
  <2>2. /\ sessions'[s] # None
        /\ sessions'[s].hard = sessions[s].hard /\ sessions'[s].revoked = sessions[s].revoked
    BY <1>1, <2>1, NoneAssumption DEF Session, Exists
  <2>3. QED
    BY <1>1, <2>2 DEF Aged, Exists
<1>4. ASSUME NEW q \in Requests, Logout(q)
      PROVE  Aged(s)
  <2>1. PICK t \in Sessions :
           sessions[t] \in Session /\ sessions' = [sessions EXCEPT ![t].revoked = TRUE]
    BY <1>1, <1>4 DEF Logout, IInv, Sound, Exists
  <2>2. /\ sessions'[s] # None
        /\ sessions'[s].hard = sessions[s].hard
        /\ sessions[s].revoked => sessions'[s].revoked
    BY <1>1, <2>1, NoneAssumption DEF Session, Exists
  <2>3. QED
    BY <1>1, <2>2 DEF Aged, Exists
<1>5. ASSUME NEW q \in Requests, CommitPin(q)
      PROVE  Aged(s)
  <2>1. sessions'[s] = IF s \in req[q].others
                       THEN [sessions[s] EXCEPT !.revoked = TRUE] ELSE sessions[s]
    BY <1>5 DEF CommitPin
  <2>2. /\ sessions'[s] # None
        /\ sessions'[s].hard = sessions[s].hard
        /\ sessions[s].revoked => sessions'[s].revoked
    BY <1>1, <2>1, NoneAssumption DEF Session, Exists
  <2>3. QED
    BY <1>1, <2>2 DEF Aged, Exists
<1>6. CASE Tick
  <2>1. sessions'[s] = Older(sessions[s])
    BY <1>6 DEF Tick
  <2>2. /\ sessions'[s] \in Session /\ sessions'[s].revoked = sessions[s].revoked
        /\ sessions'[s].hard = Less(sessions[s].hard)
    BY <1>1, <2>1, OlderIsSession
  <2>3. Less(sessions[s].hard) <= sessions[s].hard
    BY <1>1 DEF Less, Left
  <2>4. QED
    BY <2>2, <2>3, NoneAssumption DEF Aged, Exists
<1>7. ASSUME NEW q \in Requests,
             \/ Login(q) \/ OtherHandler(q) \/ PutSettings(q) \/ ImportSettings(q)
             \/ CommitSettings(q) \/ ChangePin(q) \/ WriteKey(q) \/ UpsertPin(q)
             \/ Cancel(q) \/ DeadlockVictim(q) \/ \E t \in Sessions : Check(q, t)
      PROVE  Aged(s)
  <2>1. UNCHANGED sessions
    BY <1>7 DEF Login, OtherHandler, PutSettings, ImportSettings, Update,
       CommitSettings, ChangePin, WriteKey, UpsertPin, Cancel, DeadlockVictim, Check,
       Answer, Goto
  <2>2. QED
    BY <2>1, SameRowsAge
<1>8. CASE Restart \/ UNCHANGED vars
  BY <1>8, SameRowsAge DEF Restart, vars
<1>9. QED
  BY <1>2, <1>3, <1>4, <1>5, <1>6, <1>7, <1>8 DEF Next, Serve, Handler

\* However requests overlap with a logout, a change of the PIN or the end of
\* the cap, what they write to a session that is over leaves it over.
THEOREM OverCorrect == Spec => OverIsOver
<1>1. ASSUME IInv, [Next]_vars, NEW s \in Sessions,
             Exists(s), sessions[s].revoked \/ sessions[s].hard < 0
      PROVE  ~Valid(s)'
  <2>1. Aged(s)
    BY <1>1, RowsAge
  <2>2. sessions[s] \in Session /\ sessions'[s] \in Session
    BY <1>1, <2>1, InvariantStep DEF IInv, TypeOK, Exists, Aged
  <2>3. sessions[s].hard \in Int /\ sessions'[s].hard \in Int
    BY <2>2, CapsAreLeft DEF Session
  <2>4. CASE sessions[s].revoked
    BY <2>1, <2>4 DEF Aged, Valid
  <2>5. CASE sessions[s].hard < 0
    BY <2>1, <2>3, <2>5 DEF Aged, Valid
  <2>6. QED
    BY <1>1, <2>4, <2>5
<1>2. IInv /\ [Next]_vars =>
         \A s \in Sessions :
            Exists(s) /\ (sessions[s].revoked \/ sessions[s].hard < 0) => ~Valid(s)'
  BY <1>1
<1>3. QED
  BY <1>2, InvariantCorrect, PTL DEF Spec, OverIsOver

\* No request and no change of the policy moves the hard cap of a session, or
\* takes back a revocation: update_settings, "Updating policy never extends the
\* session's immutable, minted hard cap".
THEOREM CapsCorrect == Spec => [][\A s \in Sessions : Exists(s) => Aged(s)]_vars
<1>1. IInv /\ [Next]_vars => \A s \in Sessions : Exists(s) => Aged(s)
  BY RowsAge
<1>2. QED
  BY <1>1, InvariantCorrect, PTL DEF Spec

-----------------------------------------------------------------------------
(* Row locks.                                                              *)

\* A request that holds a row and is no import has no key left before the one it
\* has written.
LEMMA HolderOfRow ==
    ASSUME IInv, NEW q \in Requests, NEW r \in Requests, Waits(q, r), ~req[r].file
    PROVE  \/ req[r].pc = "commit_pin"
           \/ req[r].pc = "write" /\ "idle" \notin req[r].todo
<1>1. req[q] \in Work /\ req[r] \in Work /\ Sound(req[q]) /\ Sound(req[r])
  BY DEF IInv, TypeOK
<1>2. CASE req[r].pc # "commit_pin" /\ req[r].keys \ req[r].todo # {}
  BY <1>1, <1>2 DEF Sound
<1>3. QED
  BY <1>1, <1>2 DEF Waits, KeysHeld, Sound

\* A request whose first key is written waits for one that has written the last.
LEMMA HolderOfLastRow ==
    ASSUME IInv, NEW r \in Requests, NEW s \in Requests, Waits(r, s),
           req[r].pc = "write", "idle" \notin req[r].todo, ~req[s].file
    PROVE  req[s].pc = "commit_pin" \/ req[s].todo = {}
<1>1. req[r] \in Work /\ req[s] \in Work /\ Sound(req[r]) /\ Sound(req[s])
  BY DEF IInv, TypeOK
<1>2. req[r].next \in KeysHeld(s)
  BY DEF Waits
<1>3. CASE req[s].pc # "commit_pin"
  <2>1. req[r].next \in req[s].keys /\ req[r].next \notin req[s].todo
    BY <1>2, <1>3 DEF KeysHeld
  <2>2. req[r].next \in Keys
    BY <1>1, <2>1 DEF Work
  <2>3. /\ req[r].todo \in SUBSET Keys /\ req[r].file \in BOOLEAN
        /\ req[r].next \in NextKey(req[r].todo, req[r].file) /\ None \notin Keys
    BY <1>1, AccessAssumption DEF Work, Sound, Keys
  <2>4. req[r].next \in req[r].todo
    BY <2>2, <2>3, NextIsKey
  <2>5. req[r].next = "cap"
    BY <2>2, <2>4 DEF Keys
  <2>6. "idle" \notin req[s].todo
    BY <1>1, <2>1, <2>5 DEF Sound
  <2>7. QED
    BY <1>1, <2>1, <2>5, <2>6 DEF Work, Keys
<1>4. QED
  BY <1>3

\* A request that has written all its keys waits for nobody.
LEMMA LastRowIsFree ==
    ASSUME IInv, NEW s \in Requests, NEW t \in Requests, Waits(s, t),
           req[s].pc \in {"write", "commit_pin"}
    PROVE  req[s].pc = "write" /\ req[s].todo # {}
<1>1. req[s] \in Work /\ req[t] \in Work /\ Sound(req[s])
  BY DEF IInv, TypeOK
<1>2. req[s].pc = "write" /\ req[s].next \in KeysHeld(t)
  BY DEF Waits
<1>3. KeysHeld(t) \subseteq Keys \cup {"pin"}
  BY <1>1 DEF KeysHeld, Work
<1>4. req[s].next # None
  BY <1>2, <1>3, AccessAssumption DEF Keys
<1>5. QED
  BY <1>1, <1>2, <1>4 DEF Sound, NextKey

\* However many settings bodies, changes of the PIN, logouts and slides overlap,
\* beside any number of imports: a deadlock on their rows has an import in it.
THEOREM OnlyImportsCorrect == Spec => []OnlyImportsDeadlock
<1>1. ASSUME IInv, NEW D \in SUBSET Requests, Circle(D), \A q \in D : ~req[q].file
      PROVE  FALSE
  <2>1. \A q \in D : \E r \in D : Waits(q, r)
    BY <1>1 DEF Circle
  <2>2. PICK q \in D : TRUE
    BY <1>1 DEF Circle
  <2>3. PICK r \in D : Waits(q, r)
    BY <2>1
  <2>4. PICK s \in D : Waits(r, s)
    BY <2>1
  <2>5. PICK t \in D : Waits(s, t)
    BY <2>1
  <2>6. req[r].pc = "write" /\ "idle" \notin req[r].todo
    <3>1. \/ req[r].pc = "commit_pin"
          \/ req[r].pc = "write" /\ "idle" \notin req[r].todo
      BY <1>1, <2>3, HolderOfRow
    <3>2. QED
      BY <1>1, <2>4, <3>1, LastRowIsFree
  <2>7. req[s].pc = "commit_pin" \/ req[s].todo = {}
    BY <1>1, <2>4, <2>6, HolderOfLastRow
  <2>8. req[s].pc = "commit_pin" \/ req[s].pc = "write"
    BY <1>1, <2>4, HolderOfRow
  <2>9. QED
    BY <1>1, <2>5, <2>7, <2>8, LastRowIsFree
<1>2. IInv => OnlyImportsDeadlock
  BY <1>1 DEF OnlyImportsDeadlock
<1>3. QED
  BY <1>2, InvariantCorrect, PTL
=============================================================================

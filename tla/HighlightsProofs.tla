--------------------------- MODULE HighlightsProofs ---------------------------
(***************************************************************************)
(* Theorems of Highlights for any number of cubes, selections, sweeps and  *)
(* connections.                                                            *)
(***************************************************************************)
EXTENDS Highlights, SequenceTheorems, TLAPS

-----------------------------------------------------------------------------
(* Queues.                                                                 *)

\* y comes after x.
Before(s, x, y) == \E i, j \in 1..Len(s) : i < j /\ s[i] = x /\ s[j] = y

LEMMA Appended ==
    ASSUME NEW S, NEW s \in Seq(S), NEW e \in S, ~Contains(s, e), IsInjective(s)
    PROVE  /\ Append(s, e) \in Seq(S) /\ IsInjective(Append(s, e))
           /\ Len(Append(s, e)) = Len(s) + 1 /\ Append(s, e) # <<>>
           /\ \A x : Contains(Append(s, e), x) <=> Contains(s, x) \/ x = e
           /\ \A x, y : Before(Append(s, e), x, y)
                 => Before(s, x, y) \/ (Contains(s, x) /\ y = e)
           /\ s # <<>> => Head(Append(s, e)) = Head(s)
<1>1. /\ Append(s, e) \in Seq(S) /\ Len(Append(s, e)) = Len(s) + 1
      /\ \A i \in 1..Len(s) : Append(s, e)[i] = s[i]
      /\ Append(s, e)[Len(s) + 1] = e
      /\ Len(s) \in Nat
  BY AppendProperties
<1>2. IsInjective(Append(s, e))
  BY <1>1 DEF IsInjective, Contains
<1>3. \A x : Contains(Append(s, e), x) <=> Contains(s, x) \/ x = e
  BY <1>1 DEF Contains
<1>4. \A x, y : Before(Append(s, e), x, y)
         => Before(s, x, y) \/ (Contains(s, x) /\ y = e)
  BY <1>1 DEF Contains, Before
<1>5. s # <<>> => Head(Append(s, e)) = Head(s)
  BY <1>1
<1>6. QED
  BY <1>1, <1>2, <1>3, <1>4, <1>5

LEMMA HeadIsFirst ==
    ASSUME NEW S, NEW s \in Seq(S), IsInjective(s), s # <<>>
    PROVE  /\ Head(s) \in S /\ Contains(s, Head(s))
           /\ \A x : ~Before(s, x, Head(s))
           /\ \A x : Contains(s, x) /\ x # Head(s) => Before(s, Head(s), x)
<1>1. Len(s) \in Nat /\ Len(s) >= 1 /\ Head(s) = s[1] /\ s[1] \in S
  OBVIOUS
<1>2. QED
  BY <1>1 DEF Contains, Before, IsInjective

LEMMA Dequeued ==
    ASSUME NEW S, NEW s \in Seq(S), IsInjective(s), s # <<>>
    PROVE  /\ Tail(s) \in Seq(S) /\ IsInjective(Tail(s)) /\ Len(Tail(s)) = Len(s) - 1
           /\ \A x : Contains(Tail(s), x) <=> Contains(s, x) /\ x # Head(s)
           /\ \A x, y : Before(Tail(s), x, y) => Before(s, x, y)
<1>1. /\ Tail(s) \in Seq(S) /\ Len(Tail(s)) = Len(s) - 1 /\ Len(s) \in Nat /\ Len(s) >= 1
      /\ \A i \in 1..(Len(s) - 1) : Tail(s)[i] = s[i + 1]
      /\ Head(s) = s[1]
  OBVIOUS
<1>2. IsInjective(Tail(s))
  BY <1>1 DEF IsInjective
<1>3. \A x : Contains(Tail(s), x) <=> Contains(s, x) /\ x # Head(s)
  <2>1. ASSUME NEW i \in 1..Len(s), s[i] # s[1]
        PROVE  i - 1 \in 1..(Len(s) - 1) /\ Tail(s)[i - 1] = s[i]
    BY <1>1, <2>1
  <2>2. ASSUME NEW i \in 1..(Len(s) - 1)
        PROVE  i + 1 \in 1..Len(s) /\ s[i + 1] # s[1] /\ Tail(s)[i] = s[i + 1]
    BY <1>1, <2>2 DEF IsInjective
  <2>3. QED
    BY <1>1, <2>1, <2>2 DEF Contains
<1>4. \A x, y : Before(Tail(s), x, y) => Before(s, x, y)
  <2>1. \A i \in 1..(Len(s) - 1) : i + 1 \in 1..Len(s)
    BY <1>1
  <2>2. QED
    BY <1>1, <2>1 DEF Before
<1>5. QED
  BY <1>1, <1>2, <1>3, <1>4

LEMMA Removed ==
    ASSUME NEW S, NEW s \in Seq(S), IsInjective(s), NEW e
    PROVE  LET r == RemoveFirst(s, e)
           IN /\ r \in Seq(S) /\ IsInjective(r) /\ Len(r) <= Len(s)
              /\ \A x : Contains(r, x) <=> Contains(s, x) /\ x # e
              /\ \A x, y : Before(r, x, y) => Before(s, x, y)
              /\ s # <<>> /\ Head(s) # e => r # <<>> /\ Head(r) = Head(s)
<1> DEFINE r == RemoveFirst(s, e)
<1>1. CASE ~Contains(s, e)
  <2>1. r = s
    BY <1>1 DEF RemoveFirst, Contains
  <2>2. QED
    BY <1>1, <2>1
<1>2. CASE Contains(s, e)
  <2>1. PICK k \in 1..Len(s) : s[k] = e
    BY <1>2 DEF Contains
  <2>2. Len(s) \in Nat /\ \A i \in 1..Len(s) : s[i] = e <=> i = k
    BY <2>1 DEF IsInjective
  <2>3. SelectInSeq(s, LAMBDA v : v = e) = k
    <3>1. {i \in 1..Len(s) : s[i] = e} = {k}
      BY <2>1, <2>2
    <3>2. Min({k}) = k
      <4>1. k \in {k} /\ \A y \in {k} : k =< y
        BY <2>1
      <4>2. QED
        BY <4>1 DEF Min
    <3>3. QED
      BY <3>1, <3>2 DEF SelectInSeq
  <2>4. r = SubSeq(s, 1, k - 1) \o SubSeq(s, k + 1, Len(s))
    BY <2>1, <2>3 DEF RemoveFirst, RemoveAt
  <2> DEFINE a == SubSeq(s, 1, k - 1)
             b == SubSeq(s, k + 1, Len(s))
  <2>5. /\ a \in Seq(S) /\ Len(a) = k - 1
        /\ \A i \in 1..(k - 1) : a[i] = s[i]
    <3>1. 1 \in Int /\ k - 1 \in Int /\ \A i \in 1..(k - 1) : s[i] \in S
      BY <2>1, <2>2
    <3>2. /\ a \in Seq(S) /\ Len(a) = IF 1 <= k - 1 THEN (k - 1) - 1 + 1 ELSE 0
          /\ \A i \in 1..((k - 1) - 1 + 1) : a[i] = s[1 + i - 1]
      BY <3>1, SubSeqProperties
    <3> HIDE DEF a
    <3>3. QED
      BY <2>1, <2>2, <3>2
  <2>6. /\ b \in Seq(S) /\ Len(b) = Len(s) - k
        /\ \A i \in 1..(Len(s) - k) : b[i] = s[i + k]
    <3>1. Len(s) \in Int /\ k + 1 \in Int /\ \A i \in (k + 1)..Len(s) : s[i] \in S
      BY <2>1, <2>2
    <3>2. /\ b \in Seq(S) /\ Len(b) = IF k + 1 <= Len(s) THEN Len(s) - (k + 1) + 1 ELSE 0
          /\ \A i \in 1..(Len(s) - (k + 1) + 1) : b[i] = s[(k + 1) + i - 1]
      BY <3>1, SubSeqProperties
    <3> HIDE DEF b
    <3>3. QED
      BY <2>1, <2>2, <3>2
  <2>7. /\ r \in Seq(S) /\ Len(r) = Len(s) - 1
        /\ \A i \in 1..(Len(s) - 1) : r[i] = IF i < k THEN s[i] ELSE s[i + 1]
    <3>1. r = a \o b
      BY <2>4
    <3> HIDE DEF r, a, b
    <3>2. /\ a \o b \in Seq(S) /\ Len(a \o b) = Len(a) + Len(b)
          /\ \A i \in 1..Len(a) + Len(b) :
                (a \o b)[i] = IF i <= Len(a) THEN a[i] ELSE b[i - Len(a)]
      BY <2>5, <2>6, ConcatProperties
    <3>3. /\ r \in Seq(S) /\ Len(r) = (k - 1) + (Len(s) - k)
          /\ \A i \in 1..((k - 1) + (Len(s) - k)) :
                r[i] = IF i <= k - 1 THEN a[i] ELSE b[i - (k - 1)]
      BY <3>1, <3>2, <2>5, <2>6
    <3>4. \A i \in 1..(Len(s) - 1) : i < k => r[i] = s[i]
      <4>1. ASSUME NEW i \in 1..(Len(s) - 1), i < k
            PROVE  i \in 1..(k - 1) /\ r[i] = a[i]
        BY <2>1, <2>2, <3>3, <4>1
      <4>2. QED
        BY <2>5, <4>1
    <3>5. \A i \in 1..(Len(s) - 1) : i >= k => r[i] = s[i + 1]
      <4>1. ASSUME NEW i \in 1..(Len(s) - 1), i >= k
            PROVE  /\ i - (k - 1) \in 1..(Len(s) - k) /\ i - (k - 1) + k = i + 1
                   /\ r[i] = b[i - (k - 1)]
        BY <2>1, <2>2, <3>3, <4>1
      <4>2. QED
        BY <2>6, <4>1
    <3>6. QED
      BY <2>1, <2>2, <3>3, <3>4, <3>5
  <2> HIDE DEF r, a, b
  <2>8. IsInjective(r)
    BY <2>1, <2>2, <2>7 DEF IsInjective
  <2>9. \A x : Contains(r, x) <=> Contains(s, x) /\ x # e
    <3>1. ASSUME NEW i \in 1..(Len(s) - 1)
          PROVE  r[i] # e /\ \E j \in 1..Len(s) : r[i] = s[j]
      BY <2>1, <2>2, <2>7
    <3>2. ASSUME NEW j \in 1..Len(s), s[j] # e
          PROVE  \E i \in 1..(Len(s) - 1) : r[i] = s[j]
      <4>1. CASE j < k
        BY <2>1, <2>2, <2>7, <4>1
      <4>2. CASE j > k
        <5>1. j - 1 \in 1..(Len(s) - 1) /\ r[j - 1] = s[j]
          BY <2>1, <2>2, <2>7, <4>2
        <5>2. QED
          BY <5>1
      <4>3. QED
        BY <2>1, <2>2, <3>2, <4>1, <4>2
    <3>3. QED
      BY <2>7, <3>1, <3>2 DEF Contains
  <2>10. \A x, y : Before(r, x, y) => Before(s, x, y)
    <3>1. ASSUME NEW i \in 1..(Len(s) - 1), NEW j \in 1..(Len(s) - 1), i < j
          PROVE  Before(s, r[i], r[j])
      <4> DEFINE at(m) == IF m < k THEN m ELSE m + 1
      <4>1. /\ at(i) \in 1..Len(s) /\ at(j) \in 1..Len(s) /\ at(i) < at(j)
            /\ s[at(i)] = r[i] /\ s[at(j)] = r[j]
        BY <2>1, <2>2, <2>7, <3>1
      <4> HIDE DEF at
      <4>2. QED
        BY <4>1 DEF Before
    <3>2. ASSUME NEW x, NEW y, Before(r, x, y)
          PROVE  Before(s, x, y)
      <4>1. PICK i \in 1..(Len(s) - 1), j \in 1..(Len(s) - 1) :
               i < j /\ r[i] = x /\ r[j] = y
        BY <2>7, <3>2 DEF Before
      <4>2. QED
        BY <3>1, <4>1
    <3>3. QED
      BY <3>2
  <2>11. s # <<>> /\ Head(s) # e => r # <<>> /\ Head(r) = Head(s)
    BY <2>1, <2>2, <2>7
  <2>12. QED
    BY <2>2, <2>7, <2>8, <2>9, <2>10, <2>11 DEF r
<1>3. QED
  BY <1>1, <1>2

LEMMA Ordered ==
    ASSUME NEW s, NEW x, NEW y, Before(s, x, y)
    PROVE  Contains(s, x) /\ Contains(s, y) /\ s # <<>>
BY DEF Before, Contains

LEMMA Empty == Len(<<>>) = 0 /\ (\A x : ~Contains(<<>>, x)) /\ IsInjective(<<>>)
BY DEF Contains, IsInjective

-----------------------------------------------------------------------------
(* The inductive invariant.                                                *)

Queues ==
    /\ registry \in Seq(Selections) /\ IsInjective(registry)
    /\ Len(registry) <= MaxRetained
    /\ lock \in Seq(Tasks) /\ IsInjective(lock)

\* Nobody works without a client, and what is lit or reverted is the selection.
Works ==
    /\ hl \in [Selections -> Work]
    /\ \A h \in Selections :
          /\ hl[h].client <= clients
          /\ hl[h].pc # "idle" => hl[h].client # 0
          /\ hl[h].pc \in {"lighting", "reverting"} => hl[h].todo \subseteq hl[h].cubes

Sweeping ==
    /\ sweep \in [Sweeps \cup {Boot} ->
          [pc : {"idle", "off", "cycling", "capturing", "restoring", "cut"},
           client : 0..clients, todo : SUBSET Cubes]]
    /\ \A s \in Sweeps \cup {Boot} : sweep[s].pc # "idle" => sweep[s].client # 0
    /\ \A s \in Sweeps : sweep[s].pc # "cut"
    /\ sweep[Boot].pc \in {"idle", "restoring", "cut"}

Ending ==
    /\ stop \in [pc : {"idle", "clearing", "ending", "ended"},
                 client : 0..clients, todo : SUBSET Cubes]
    /\ stop.todo # {} => stop.client # 0

Connection ==
    /\ clients \in 0..MaxClients /\ mqtt \in {0, clients} /\ failed \subseteq 1..clients
    /\ connected \in BOOLEAN /\ (connected => clients # 0)

Show ==
    /\ shown \in [Cubes -> {Ambient, Off, Left} \cup Selections \cup Sweeps]
    /\ lost \subseteq Cubes

\* Behind the task that stops the process wait only timers, which it cancels;
\* who lights has made room.
Ranked ==
    /\ Contains(lock, Stop) <=> stop.pc = "clearing"
    /\ \A h \in Selections : Before(lock, Stop, h) => hl[h].pc = "due"
    /\ stop.todo # {} => stop.pc = "clearing" /\ Holds(Stop)
    /\ stop.pc \in {"ending", "ended"} =>
          \A h \in Selections : hl[h].pc \in {"idle", "cut"}
    /\ \A h \in Selections : hl[h].pc = "cut" => stop.pc = "ended"
    /\ \A h \in Selections : hl[h].pc = "lighting" => Len(registry) <= hl[h].room

\* The task that will revert c, which shows h.
Kept(c, h) ==
    \/ hl[h].pc \in {"lighting", "sleeping", "due"} /\ c \in hl[h].cubes
    \/ hl[h].pc = "reverting" /\ c \in hl[h].todo
    \/ hl[h].pc = "cut"
    \/ hl[h].pc = "idle" /\ c \in stop.todo
    \/ /\ hl[h].pc = "idle"
       /\ \E e \in Selections : hl[e].pc = "clearing" /\ c \in hl[e].todo

Swept(c, s) ==
    \/ sweep[s].pc \in {"cycling", "capturing"}
    \/ sweep[s].pc = "restoring" /\ c \in sweep[s].todo

Covered(c) ==
    sweep[Boot].pc = "cut" \/ (sweep[Boot].pc = "restoring" /\ c \in sweep[Boot].todo)

LitByHighlights == \A c \in Cubes \ lost, h \in Selections : shown[c] = h => Kept(c, h)
LitBySweeps == \A c \in Cubes \ lost, s \in Sweeps : shown[c] = s => Swept(c, s)
LitBefore == \A c \in Cubes \ lost : shown[c] = Left => Covered(c)

\* While no connection has failed there is a client, once there was one, until
\* the process has ended; so whatever is lit is reverted.
Healthy ==
    failed = {} =>
        /\ mqtt = 0 /\ clients # 0 => stop.pc = "ended"
        /\ stop.pc = "clearing" /\ stop.client = 0 => \A h \in Selections : hl[h].pc = "idle"
        /\ \A c \in lost, h \in Selections : shown[c] # h

Types == Queues /\ Works /\ Sweeping /\ Ending /\ Connection /\ Show
Lit == LitByHighlights /\ LitBySweeps /\ LitBefore
IInv == Types /\ TasksAreTracked /\ Ranked /\ Lit

LEMMA TypesImply == Types => TypeOK
BY DEF Types, Queues, Works, Sweeping, Ending, Connection, Show, TypeOK

LEMMA Initially == Init => IInv
<1> SUFFICES ASSUME Init PROVE IInv
  OBVIOUS
<1> USE HighlightAssumption
<1>1. Queues
  BY Empty DEF Init, Queues
<1>2. NoSelection \in Work /\ NoSelection.pc = "idle" /\ NoSelection.client = 0
  BY DEF NoSelection, Work
<1>3. Connection /\ Show /\ (mqtt # 0 => mqtt = clients)
  <2>1. clients \in {0, 1} /\ failed = {} /\ mqtt = clients /\ MaxClients \in Nat \ {0}
    BY DEF Init
  <2>2. connected \in BOOLEAN /\ (connected => clients # 0)
    <3>1. connected = (clients = 1) /\ (clients = 1 => clients # 0)
      BY DEF Init
    <3>2. QED
      BY <3>1, Zenon
  <2>3. Show
    <3>1. lost \in {{}, Cubes}
      BY DEF Init
    <3>2. QED
      BY <3>1 DEF Init, Show
  <2>4. QED
    BY <2>1, <2>2, <2>3 DEF Connection
<1>4. Works /\ \A h \in Selections : hl[h].pc = "idle"
  BY <1>2, <1>3 DEF Init, Works, Connection
<1>5. PICK published \in IF mqtt = 0 THEN {FALSE} ELSE BOOLEAN :
        /\ sweep = [s \in Sweeps \cup {Boot} |->
                      IF s = Boot /\ published
                      THEN [pc |-> "restoring", client |-> mqtt, todo |-> Cubes]
                      ELSE NoTask]
        /\ lost = IF published THEN {} ELSE Cubes
  BY DEF Init
<1>6. Sweeping
  <2>1. published => mqtt # 0
    BY <1>5, Zenon
  <2>2. QED
    BY <1>3, <1>5, <2>1 DEF Sweeping, Connection, NoTask
<1>7. Ending /\ stop.pc = "idle" /\ stop.todo = {}
  BY <1>3 DEF Init, Ending, Connection, NoTask
<1>8. TasksAreTracked
  BY <1>4, Empty DEF Init, TasksAreTracked, RegistryIsExact, LockIsHandedOn
<1>9. Ranked
  BY <1>4, <1>7, Empty, Ordered DEF Init, Ranked
<1>10. LitByHighlights /\ LitBySweeps
  BY DEF Init, LitByHighlights, LitBySweeps
<1>11. LitBefore
  BY <1>5 DEF LitBefore, Covered
<1>12. QED
  BY <1>1, <1>3, <1>4, <1>6, <1>7, <1>8, <1>9, <1>10, <1>11 DEF IInv, Types, Lit

-----------------------------------------------------------------------------
(* The connection and the publications.                                    *)

\* What a publication to c does, delivered or not, and that it touches no other cube.
LEMMA Published ==
    ASSUME Connection, Show, NEW g \in 1..clients, NEW c \in Cubes,
           NEW what \in {Ambient, Off} \cup Selections \cup Sweeps, Publish(g, c, what)
    PROVE  /\ Connection' /\ clients' = clients /\ Show'
           /\ \A d \in Cubes \ {c} : shown'[d] = shown[d] /\ (d \in lost' <=> d \in lost)
           /\ \/ shown'[c] = what
              \/ /\ shown'[c] = shown[c] /\ (c \in lost => c \in lost')
                 /\ what = Ambient => c \in lost'
<1>1. connected' = connected /\ clients' = clients
  BY DEF Publish, Fail, connection
<1>2. Connection'
  <2>1. \/ mqtt' = mqtt /\ failed' = failed
        \/ failed' = failed \cup {g} /\ (mqtt' = mqtt \/ mqtt' = 0)
    BY DEF Publish, Fail, connection
  <2>2. failed' \subseteq 1..clients /\ mqtt' \in {0, clients}
    BY <2>1 DEF Connection
  <2>3. connected' \in BOOLEAN /\ (connected' => clients' # 0) /\ clients' \in 0..MaxClients
    BY <1>1 DEF Connection
  <2>4. QED
    BY <1>1, <2>2, <2>3 DEF Connection
<1>3. \/ Delivered(c, what) 
      \/ Undelivered(c, what)
  BY DEF Publish
<1>4. CASE Delivered(c, what)
  BY <1>1, <1>2, <1>4 DEF Delivered, Show
<1>5. CASE Undelivered(c, what)
  BY <1>1, <1>2, <1>5 DEF Undelivered, Show
<1>6. QED
  BY <1>3, <1>4, <1>5

-----------------------------------------------------------------------------
(* Steps that leave the queues alone.                                      *)

LEMMA QueuesLeftAlone ==
    ASSUME IInv, UNCHANGED <<registry, lock>>, stop'.pc = stop.pc,
           stop'.todo \subseteq stop.todo,
           \A k \in Selections : hl'[k].pc = hl[k].pc /\ hl'[k].room = hl[k].room
    PROVE  Queues' /\ TasksAreTracked' /\ Ranked'
<1>1. Queues'
  BY DEF IInv, Types, Queues
<1>2. TasksAreTracked'
  BY DEF IInv, TasksAreTracked, RegistryIsExact, LockIsHandedOn, Holds
<1>3. Ranked'
  BY DEF IInv, Ranked, Holds
<1>4. QED
  BY <1>1, <1>2, <1>3

\* A selection's record changes.
LEMMA Changed ==
    ASSUME Works, NEW h \in Selections, NEW w \in Work, hl' = [hl EXCEPT ![h] = w],
           w.client <= clients, w.pc # "idle" => w.client # 0,
           w.pc \in {"lighting", "reverting"} => w.todo \subseteq w.cubes,
           clients' = clients
    PROVE  Works' /\ \A k \in Selections : hl'[k] = IF k = h THEN w ELSE hl[k]
<1>1. /\ \A k \in Selections : hl'[k] = IF k = h THEN w ELSE hl[k]
      /\ hl' \in [Selections -> Work]
  BY DEF Works
<1>2. QED
  BY <1>1 DEF Works

\* One cube less to publish.
LEMMA OneLess ==
    ASSUME IInv, NEW h \in Selections, NEW c \in Cubes, clients' = clients,
           hl' = [hl EXCEPT ![h] = [@ EXCEPT !.todo = hl[h].todo \ {c}]],
           UNCHANGED <<registry, lock, stop>>
    PROVE  /\ Works' /\ Queues' /\ TasksAreTracked' /\ Ranked'
           /\ \A k \in Selections : /\ hl'[k].pc = hl[k].pc /\ hl'[k].cubes = hl[k].cubes
                                    /\ k # h => hl'[k].todo = hl[k].todo
           /\ hl'[h].todo = hl[h].todo \ {c}
<1> DEFINE w == [hl[h] EXCEPT !.todo = hl[h].todo \ {c}]
<1>1. hl[h] \in Work /\ Works
  BY DEF IInv, Types, Works
<1>2. /\ w \in Work /\ w.pc = hl[h].pc /\ w.client = hl[h].client /\ w.cubes = hl[h].cubes
      /\ w.room = hl[h].room /\ w.todo = hl[h].todo \ {c}
  BY <1>1 DEF Work
<1>3. hl' = [hl EXCEPT ![h] = w]
  OBVIOUS
<1> HIDE DEF w
<1>4. Works' /\ \A k \in Selections : hl'[k] = IF k = h THEN w ELSE hl[k]
  <2>1. /\ w.client <= clients /\ (w.pc # "idle" => w.client # 0)
        /\ w.pc \in {"lighting", "reverting"} => w.todo \subseteq w.cubes
    BY <1>1, <1>2 DEF Works
  <2>2. QED
    BY <1>1, <1>2, <1>3, <2>1, Changed
<1>5. Queues' /\ TasksAreTracked' /\ Ranked'
  BY <1>2, <1>4, QueuesLeftAlone
<1>6. QED
  BY <1>2, <1>4, <1>5

LEMMA ClearOrRevertCubeStep ==
    ASSUME IInv, NEW h \in Selections, ClearCube(h) \/ RevertCube(h)
    PROVE  IInv'
<1> USE HighlightAssumption
<1>1. PICK c \in hl[h].todo :
         /\ Publish(hl[h].client, c, Ambient)
         /\ hl' = [hl EXCEPT ![h] = [@ EXCEPT !.todo = hl[h].todo \ {c}]]
  BY DEF ClearCube, RevertCube
<1>2. /\ hl[h].pc \in {"clearing", "reverting"} /\ UNCHANGED <<registry, lock, sweep, stop>>
      /\ hl[h].client \in 1..clients /\ c \in Cubes
  BY <1>1 DEF ClearCube, RevertCube, IInv, Types, Works, Work, Connection
<1>3. /\ Connection' /\ clients' = clients /\ Show'
      /\ \A d \in Cubes \ {c} : shown'[d] = shown[d] /\ (d \in lost' <=> d \in lost)
      /\ shown'[c] = Ambient \/ c \in lost'
  BY <1>1, <1>2, Published DEF IInv, Types
<1>4. /\ Works' /\ Queues' /\ TasksAreTracked' /\ Ranked'
      /\ \A k \in Selections : /\ hl'[k].pc = hl[k].pc /\ hl'[k].cubes = hl[k].cubes
                               /\ k # h => hl'[k].todo = hl[k].todo
      /\ hl'[h].todo = hl[h].todo \ {c}
  BY <1>1, <1>2, <1>3, OneLess
<1>5. Sweeping' /\ Ending'
  BY <1>2, <1>3 DEF IInv, Types, Sweeping, Ending
<1>6. LitByHighlights'
  <2>1. ASSUME NEW d \in Cubes \ lost', NEW k \in Selections, shown'[d] = k
        PROVE  Kept(d, k)'
    <3>1. d # c /\ d \in Cubes \ lost /\ shown[d] = k
      BY <1>3, <2>1
    <3>2. Kept(d, k)
      BY <3>1 DEF IInv, Lit, LitByHighlights
    <3>3. QED
      BY <1>2, <1>4, <3>1, <3>2 DEF Kept
  <2>2. QED
    BY <2>1 DEF LitByHighlights
<1>7. LitBySweeps' /\ LitBefore'
  BY <1>2, <1>3 DEF IInv, Lit, LitBySweeps, LitBefore, Swept, Covered
<1>8. QED
  BY <1>3, <1>4, <1>5, <1>6, <1>7 DEF IInv, Types, Lit

LEMMA LightCubeStep ==
    ASSUME IInv, NEW h \in Selections, LightCube(h)
    PROVE  IInv'
<1> USE HighlightAssumption
<1>1. PICK c \in hl[h].todo :
         /\ Publish(hl[h].client, c, h)
         /\ hl' = [hl EXCEPT ![h] = [@ EXCEPT !.todo = hl[h].todo \ {c}]]
  BY DEF LightCube
<1>2. /\ hl[h].pc = "lighting" /\ UNCHANGED <<registry, lock, sweep, stop>>
      /\ hl[h].client \in 1..clients /\ c \in Cubes /\ c \in hl[h].cubes
  BY <1>1 DEF LightCube, IInv, Types, Works, Work, Connection
<1>3. /\ Connection' /\ clients' = clients /\ Show'
      /\ \A d \in Cubes \ {c} : shown'[d] = shown[d] /\ (d \in lost' <=> d \in lost)
      /\ shown'[c] = h \/ (shown'[c] = shown[c] /\ (c \in lost => c \in lost'))
  BY <1>1, <1>2, Published DEF IInv, Types
<1>4. /\ Works' /\ Queues' /\ TasksAreTracked' /\ Ranked'
      /\ \A k \in Selections : /\ hl'[k].pc = hl[k].pc /\ hl'[k].cubes = hl[k].cubes
                               /\ k # h => hl'[k].todo = hl[k].todo
  BY <1>1, <1>2, <1>3, OneLess
<1>5. Sweeping' /\ Ending'
  BY <1>2, <1>3 DEF IInv, Types, Sweeping, Ending
<1>6. LitByHighlights'
  <2>1. ASSUME NEW d \in Cubes \ lost', NEW k \in Selections, shown'[d] = k
        PROVE  Kept(d, k)'
    <3>1. CASE k = h /\ d = c
      BY <1>2, <1>4, <3>1 DEF Kept
    <3>2. CASE k # h \/ d # c
      <4>1. d \in Cubes \ lost /\ shown[d] = k
        BY <1>3, <2>1, <3>2
      <4>2. Kept(d, k)
        BY <4>1 DEF IInv, Lit, LitByHighlights
      <4>3. QED
        BY <1>2, <1>4, <4>2 DEF Kept
    <3>3. QED
      BY <3>1, <3>2
  <2>2. QED
    BY <2>1 DEF LitByHighlights
<1>7. \A d \in Cubes \ lost', x \in Sweeps \cup {Left} :
        shown'[d] = x => d \in Cubes \ lost /\ shown[d] = x
  BY <1>3
<1>8. LitBySweeps' /\ LitBefore'
  BY <1>2, <1>7 DEF IInv, Lit, LitBySweeps, LitBefore, Swept, Covered
<1>9. QED
  BY <1>3, <1>4, <1>5, <1>6, <1>8 DEF IInv, Types, Lit

LEMMA ConnectionStep ==
    ASSUME IInv, Connect \/ LoseConnection \/ Disconnect
    PROVE  IInv'
<1> USE HighlightAssumption
<1>1. UNCHANGED <<shown, lost, hl, registry, lock, sweep, stop>>
  BY DEF Connect, LoseConnection, Disconnect
<1>2. Connection' /\ clients \in Nat /\ clients' \in Nat /\ clients <= clients'
  <2>1. CASE Connect
    <3>1. /\ clients' = clients + 1 /\ mqtt' = clients' /\ connected' = TRUE
          /\ failed' = failed /\ clients < MaxClients
      BY <2>1 DEF Connect
    <3>2. QED
      BY <3>1 DEF IInv, Types, Connection
  <2>2. CASE LoseConnection
    <3>1. /\ connected' = connected /\ clients' = clients /\ mqtt' = mqtt
          /\ failed' = failed \cup {clients}
      BY <2>2 DEF LoseConnection
    <3>2. clients # 0 /\ clients \in Nat
      BY <2>2 DEF LoseConnection, IInv, Types, Connection
    <3>3. QED
      BY <3>1, <3>2 DEF IInv, Types, Connection
  <2>3. CASE Disconnect
    <3>1. connected' = FALSE /\ mqtt' = 0 /\ clients' = clients /\ failed' = failed
      BY <2>3 DEF Disconnect
    <3>2. Connection
      BY DEF IInv, Types
    <3>3. connected' \in BOOLEAN /\ (connected' => clients' # 0)
      BY <3>1, Zenon
    <3>4. clients' \in 0..MaxClients /\ mqtt' \in {0, clients'} /\ failed' \subseteq 1..clients'
      BY <3>1, <3>2 DEF Connection
    <3>5. QED
      BY <3>1, <3>2, <3>3, <3>4 DEF Connection
  <2>4. QED
    BY <2>1, <2>2, <2>3
<1>3. Works' /\ Show'
  <2>1. \A h \in Selections : hl[h].client \in Nat
    BY DEF IInv, Types, Works, Work
  <2>2. QED
    BY <1>1, <1>2, <2>1 DEF IInv, Types, Works, Show
<1>4. Sweeping'
  BY <1>1, <1>2 DEF IInv, Types, Sweeping
<1>5. Ending'
  BY <1>1, <1>2 DEF IInv, Types, Ending
<1>6. Queues' /\ TasksAreTracked' /\ Ranked'
  BY <1>1, QueuesLeftAlone
<1>7. Lit'
  BY <1>1 DEF IInv, Lit, LitByHighlights, LitBySweeps, LitBefore, Kept, Swept, Covered
<1>8. QED
  BY <1>2, <1>3, <1>4, <1>5, <1>6, <1>7 DEF IInv, Types

-----------------------------------------------------------------------------
(* Steps of the selections.                                                *)

LEMMA IlluminateStep ==
    ASSUME IInv, NEW h \in Selections, NEW cubes \in Answers, Illuminate(h, cubes)
    PROVE  IInv'
<1> USE HighlightAssumption
<1> DEFINE w == [NoSelection EXCEPT !.pc = "waiting", !.client = mqtt, !.cubes = cubes]
<1>1. /\ hl[h].pc = "idle" /\ (\A c \in Cubes : shown[c] # h) /\ mqtt # 0 /\ stop.pc = "idle"
      /\ hl' = [hl EXCEPT ![h] = w] /\ lock' = Append(lock, h)
      /\ UNCHANGED <<shown, lost, registry, sweep, stop>> /\ UNCHANGED connection
  BY DEF Illuminate
<1>2. mqtt \in Nat /\ mqtt <= clients /\ clients' = clients
  BY <1>1 DEF IInv, Types, Connection, connection
<1>3. /\ w \in Work /\ w.pc = "waiting" /\ w.client = mqtt /\ w.cubes = cubes
      /\ w.todo = {} /\ w.room = 0
  <2>1. 0 \in 0..(MaxRetained - 1) /\ cubes \subseteq Cubes
    OBVIOUS
  <2>2. QED
    BY <1>2, <2>1 DEF NoSelection, Work
<1> HIDE DEF w
<1>4. Works' /\ \A k \in Selections : hl'[k] = IF k = h THEN w ELSE hl[k]
  BY <1>1, <1>2, <1>3, Changed DEF IInv, Types
<1>5. ~Contains(lock, h) /\ ~Contains(registry, h) /\ ~Contains(lock, Stop)
  BY <1>1 DEF IInv, TasksAreTracked, RegistryIsExact, LockIsHandedOn, Ranked
<1>6. /\ lock' \in Seq(Tasks) /\ IsInjective(lock') /\ lock' # <<>>
      /\ \A x : Contains(lock', x) <=> Contains(lock, x) \/ x = h
      /\ \A x, y : Before(lock', x, y) => Before(lock, x, y) \/ (Contains(lock, x) /\ y = h)
      /\ lock # <<>> => Head(lock') = Head(lock)
  BY <1>1, <1>5, Appended DEF IInv, Types, Queues, Tasks
<1>7. Queues'
  BY <1>1, <1>6 DEF IInv, Types, Queues
<1>8. TasksAreTracked'
  BY <1>1, <1>3, <1>4, <1>5, <1>6
     DEF IInv, TasksAreTracked, RegistryIsExact, LockIsHandedOn, Holds
<1>9. Ranked'
  BY <1>1, <1>3, <1>4, <1>5, <1>6, Ordered DEF IInv, Ranked, Holds
<1>10. LitByHighlights'
  BY <1>1, <1>3, <1>4 DEF IInv, Lit, LitByHighlights, Kept
<1>11. LitBySweeps' /\ LitBefore'
  BY <1>1 DEF IInv, Lit, LitBySweeps, LitBefore, Swept, Covered
<1>12. Sweeping' /\ Ending' /\ Connection' /\ Show'
  BY <1>1, <1>2 DEF IInv, Types, Sweeping, Ending, Connection, Show, connection
<1>13. QED
  BY <1>4, <1>7, <1>8, <1>9, <1>10, <1>11, <1>12 DEF IInv, Types, Lit

\* A timer that a task with the lock cancels, and the queues without it.
LEMMA Dropped ==
    ASSUME IInv, registry # <<>>, lock # <<>>, Drop(Head(registry)),
           Head(lock) # Head(registry)
    PROVE  /\ Head(registry) \in Selections
           /\ hl[Head(registry)].pc \in {"sleeping", "due"}
           /\ Queues' /\ lock' # <<>> /\ Head(lock') = Head(lock)
           /\ \A x : Contains(registry', x) <=> Contains(registry, x) /\ x # Head(registry)
           /\ Len(registry') = Len(registry) - 1
           /\ \A x : Contains(lock', x) <=> Contains(lock, x) /\ x # Head(registry)
           /\ \A x, y : Before(lock', x, y) => Before(lock, x, y)
<1> DEFINE e == Head(registry)
<1>1. Queues
  BY DEF IInv, Types
<1>2. /\ registry' \in Seq(Selections) /\ IsInjective(registry')
      /\ Len(registry') = Len(registry) - 1
      /\ \A x : Contains(registry', x) <=> Contains(registry, x) /\ x # e
      /\ e \in Selections /\ Contains(registry, e)
  BY <1>1, Dequeued, HeadIsFirst DEF Queues, Drop
<1>3. hl[e].pc \in {"sleeping", "due", "reverting"}
  BY <1>2 DEF IInv, TasksAreTracked, RegistryIsExact
<1>4. hl[e].pc # "reverting"
  BY <1>2, <1>3 DEF IInv, TasksAreTracked, LockIsHandedOn, Holds
<1>5. /\ lock' \in Seq(Tasks) /\ IsInjective(lock')
      /\ \A x : Contains(lock', x) <=> Contains(lock, x) /\ x # e
      /\ \A x, y : Before(lock', x, y) => Before(lock, x, y)
      /\ lock' # <<>> /\ Head(lock') = Head(lock)
  BY <1>1, Removed DEF Queues, Drop
<1> HIDE DEF e
<1>6. Queues'
  <2>1. Len(registry') <= MaxRetained
    BY <1>1, <1>2, HighlightAssumption DEF Queues
  <2>2. QED
    BY <1>2, <1>5, <2>1 DEF Queues
<1>7. QED
  BY <1>2, <1>3, <1>4, <1>5, <1>6 DEF e

LEMMA ProceedStep ==
    ASSUME IInv, NEW h \in Selections, NEW room \in 0..(MaxRetained - 1), Holds(h),
           hl[h].pc \in {"waiting", "clearing"}, Proceed(h, room),
           hl[h].pc = "clearing" => hl[h].todo = {}
    PROVE  IInv'
<1> USE HighlightAssumption
<1>1. /\ hl[h] \in Work /\ hl[h].client <= clients /\ hl[h].client # 0
      /\ hl \in [Selections -> Work]
      /\ clients' = clients /\ UNCHANGED <<shown, lost, sweep, stop>> /\ UNCHANGED connection
  BY DEF Proceed, connection, IInv, Types, Works
<1>2. stop.todo = {} /\ h # Stop /\ stop.pc \notin {"ending", "ended"}
  BY DEF IInv, Ranked, Holds
<1>3. /\ ~Contains(registry, h) /\ ~Before(lock, Stop, h) /\ Contains(lock, h)
      /\ lock # <<>> /\ Head(lock) = h
  BY DEF IInv, TasksAreTracked, RegistryIsExact, LockIsHandedOn, Ranked, Holds
<1>4. \A k \in Selections \ {h} : hl[k].pc \notin {"clearing", "lighting", "reverting"}
  BY <1>3 DEF IInv, TasksAreTracked, LockIsHandedOn, Holds
<1>5. \A c \in Cubes \ lost : shown[c] # h
  BY <1>2 DEF IInv, Lit, LitByHighlights, Kept
<1>6. Sweeping' /\ Ending' /\ Connection' /\ Show'
  BY <1>1 DEF IInv, Types, Sweeping, Ending, Connection, Show, connection
<1>7. LitBySweeps' /\ LitBefore'
  BY <1>1 DEF IInv, Lit, LitBySweeps, LitBefore, Swept, Covered
<1>8. CASE Len(registry) > room
  <2> DEFINE e == Head(registry)
             w == [hl[h] EXCEPT !.pc = "clearing", !.room = room, !.todo = hl[e].cubes]
  <2>1. Drop(e) /\ hl' = [hl EXCEPT ![e] = NoSelection, ![h] = w]
    BY <1>8 DEF Proceed
  <2>2. registry # <<>>
    BY <1>8, Empty
  <2>3. Contains(registry, e) /\ e \in Selections /\ e # h
    BY <1>3, <2>2, HeadIsFirst DEF IInv, Types, Queues
  <2>4. /\ hl[e].pc \in {"sleeping", "due"}
        /\ Queues' /\ lock' # <<>> /\ Head(lock') = h
        /\ \A x : Contains(registry', x) <=> Contains(registry, x) /\ x # e
        /\ Len(registry') = Len(registry) - 1
        /\ \A x : Contains(lock', x) <=> Contains(lock, x) /\ x # e
        /\ \A x, y : Before(lock', x, y) => Before(lock, x, y)
    BY <1>3, <2>1, <2>2, <2>3, Dropped
  <2>5. hl[e] \in Work
    BY <1>1, <2>3
  <2>6. /\ w \in Work /\ w.pc = "clearing" /\ w.client = hl[h].client
        /\ w.todo = hl[e].cubes /\ w.room = room
    BY <1>1, <2>5 DEF Work
  <2>7. /\ NoSelection \in Work /\ NoSelection.pc = "idle" /\ NoSelection.client = 0
    BY DEF NoSelection, Work
  <2> HIDE DEF e, w
  <2>8. /\ hl' \in [Selections -> Work]
        /\ \A k \in Selections : hl'[k] = IF k = h THEN w ELSE IF k = e THEN NoSelection ELSE hl[k]
    BY <1>1, <2>1, <2>3, <2>6, <2>7
  <2>9. Works'
    <3>1. \A k \in Selections :
             hl'[k].client <= clients /\ (hl'[k].pc # "idle" => hl'[k].client # 0)
      BY <1>1, <2>6, <2>7, <2>8 DEF IInv, Types, Works, Connection
    <3>2. \A k \in Selections :
             hl'[k].pc \in {"lighting", "reverting"} => hl'[k].todo \subseteq hl'[k].cubes
      BY <2>6, <2>7, <2>8 DEF IInv, Types, Works
    <3>3. QED
      BY <1>1, <2>8, <3>1, <3>2 DEF Works
  <2>10. TasksAreTracked'
    <3>1. RegistryIsExact'
      BY <1>3, <2>3, <2>4, <2>6, <2>7, <2>8 DEF IInv, TasksAreTracked, RegistryIsExact
    <3>2. LockIsHandedOn'
      BY <1>3, <1>4, <2>3, <2>4, <2>6, <2>7, <2>8 DEF IInv, TasksAreTracked, LockIsHandedOn, Holds
    <3>3. QED
      BY <3>1, <3>2 DEF TasksAreTracked
  <2>11. Ranked'
    <3>1. Contains(lock', Stop) <=> stop'.pc = "clearing"
      BY <1>1, <2>3, <2>4 DEF IInv, Ranked
    <3>2. \A k \in Selections : Before(lock', Stop, k) => hl'[k].pc = "due"
      <4>1. ASSUME NEW k \in Selections, Before(lock', Stop, k)
            PROVE  hl'[k].pc = "due"
        <5>1. Before(lock, Stop, k) /\ k # e
          BY <2>4, <4>1, Ordered
        <5>2. hl[k].pc = "due" /\ k # h
          BY <1>3, <5>1 DEF IInv, Ranked
        <5>3. QED
          BY <2>8, <5>1, <5>2
      <4>2. QED
        BY <4>1
    <3>3. \A k \in Selections : hl'[k].pc = "cut" => stop'.pc = "ended"
      BY <1>1, <2>6, <2>7, <2>8 DEF IInv, Ranked
    <3>4. \A k \in Selections : hl'[k].pc # "lighting"
      BY <1>4, <2>6, <2>7, <2>8
    <3>5. QED
      BY <1>1, <1>2, <3>1, <3>2, <3>3, <3>4 DEF Ranked
  <2>12. LitByHighlights'
    <3>1. ASSUME NEW c \in Cubes \ lost, NEW k \in Selections, shown[c] = k
          PROVE  Kept(c, k)'
      <4>1. k # h /\ Kept(c, k)
        BY <1>5, <3>1 DEF IInv, Lit, LitByHighlights
      <4>2. CASE k = e
        <5>1. c \in hl[e].cubes
          BY <2>4, <4>1, <4>2 DEF Kept
        <5>2. hl'[k].pc = "idle" /\ hl'[h].pc = "clearing" /\ c \in hl'[h].todo
          BY <2>3, <2>6, <2>7, <2>8, <4>2, <5>1
        <5>3. QED
          BY <5>2 DEF Kept
      <4>3. CASE k # e
        <5>1. hl'[k] = hl[k] /\ ~\E f \in Selections : hl[f].pc = "clearing" /\ c \in hl[f].todo
          BY <1>4, <2>8, <4>1, <4>3
        <5>2. QED
          BY <1>1, <4>1, <5>1 DEF Kept
      <4>4. QED
        BY <4>2, <4>3
    <3>2. QED
      BY <1>1, <3>1 DEF LitByHighlights
  <2>13. QED
    BY <1>6, <1>7, <2>4, <2>9, <2>10, <2>11, <2>12 DEF IInv, Types, Lit
<1>9. CASE ~(Len(registry) > room)
  <2> DEFINE w == [hl[h] EXCEPT !.pc = "lighting", !.room = room, !.todo = hl[h].cubes]
  <2>1. hl' = [hl EXCEPT ![h] = w] /\ UNCHANGED <<registry, lock>>
    BY <1>9 DEF Proceed
  <2>2. /\ w \in Work /\ w.pc = "lighting" /\ w.client = hl[h].client
        /\ w.todo = hl[h].cubes /\ w.cubes = hl[h].cubes /\ w.room = room
    BY <1>1 DEF Work
  <2> HIDE DEF w
  <2>3. Works' /\ \A k \in Selections : hl'[k] = IF k = h THEN w ELSE hl[k]
    BY <1>1, <2>1, <2>2, Changed DEF IInv, Types
  <2>4. Queues'
    BY <2>1 DEF IInv, Types, Queues
  <2>5. TasksAreTracked'
    BY <1>3, <2>1, <2>2, <2>3 DEF IInv, TasksAreTracked, RegistryIsExact, LockIsHandedOn, Holds
  <2>6. Len(registry) <= room
    BY <1>9 DEF IInv, Types, Queues
  <2>7. Ranked'
    BY <1>1, <1>2, <1>3, <2>1, <2>2, <2>3, <2>6 DEF IInv, Ranked, Holds
  <2>8. LitByHighlights'
    <3>1. ASSUME NEW c \in Cubes \ lost, NEW k \in Selections, shown[c] = k
          PROVE  Kept(c, k)'
      <4>1. k # h /\ Kept(c, k)
        BY <1>5, <3>1 DEF IInv, Lit, LitByHighlights
      <4>2. hl'[k] = hl[k] /\ ~\E f \in Selections : hl[f].pc = "clearing" /\ c \in hl[f].todo
        BY <1>4, <2>3, <4>1
      <4>3. QED
        BY <1>1, <4>1, <4>2 DEF Kept
    <3>2. QED
      BY <1>1, <3>1 DEF LitByHighlights
  <2>9. QED
    BY <1>6, <1>7, <2>3, <2>4, <2>5, <2>7, <2>8 DEF IInv, Types, Lit
<1>10. QED
  BY <1>8, <1>9

LEMMA RegisterStep ==
    ASSUME IInv, NEW h \in Selections, Register(h)
    PROVE  IInv'
<1> USE HighlightAssumption
<1> DEFINE w == [hl[h] EXCEPT !.pc = "sleeping", !.room = 0]
<1>1. /\ hl[h].pc = "lighting" /\ hl[h].todo = {} /\ hl' = [hl EXCEPT ![h] = w]
      /\ registry' = Append(registry, h) /\ lock' = Tail(lock)
      /\ UNCHANGED <<shown, lost, sweep, stop>> /\ UNCHANGED connection
  BY DEF Register, Release
<1>2. hl[h] \in Work /\ hl[h].client <= clients /\ hl[h].client # 0 /\ clients' = clients
  BY <1>1 DEF connection, IInv, Types, Works
<1>3. /\ w \in Work /\ w.pc = "sleeping" /\ w.client = hl[h].client
      /\ w.cubes = hl[h].cubes
  <2>1. 0 \in 0..(MaxRetained - 1)
    OBVIOUS
  <2>2. QED
    BY <1>2, <2>1 DEF Work
<1> HIDE DEF w
<1>4. Works' /\ \A k \in Selections : hl'[k] = IF k = h THEN w ELSE hl[k]
  BY <1>1, <1>2, <1>3, Changed DEF IInv, Types
<1>5. lock # <<>> /\ Head(lock) = h /\ ~Contains(registry, h) /\ stop.todo = {}
  BY <1>1 DEF IInv, TasksAreTracked, RegistryIsExact, LockIsHandedOn, Ranked, Holds
<1>6. Len(registry) <= hl[h].room /\ hl[h].room <= MaxRetained - 1
  BY <1>1, <1>2 DEF IInv, Ranked, Work
<1>7. /\ registry' \in Seq(Selections) /\ IsInjective(registry')
      /\ Len(registry') = Len(registry) + 1
      /\ \A x : Contains(registry', x) <=> Contains(registry, x) \/ x = h
  BY <1>1, <1>5, Appended DEF IInv, Types, Queues
<1>8. /\ lock' \in Seq(Tasks) /\ IsInjective(lock')
      /\ \A x : Contains(lock', x) <=> Contains(lock, x) /\ x # h
      /\ \A x, y : Before(lock', x, y) => Before(lock, x, y)
  BY <1>1, <1>5, Dequeued DEF IInv, Types, Queues
<1>9. Queues'
  <2>1. Len(registry') <= MaxRetained
    BY <1>2, <1>6, <1>7 DEF IInv, Types, Queues, Work
  <2>2. QED
    BY <1>7, <1>8, <2>1 DEF Queues
<1>10. \A k \in Selections \ {h} : hl[k].pc \notin {"clearing", "lighting", "reverting"}
  BY <1>5 DEF IInv, TasksAreTracked, LockIsHandedOn, Holds
<1>11. TasksAreTracked'
  BY <1>3, <1>4, <1>7, <1>8, <1>10
     DEF IInv, TasksAreTracked, RegistryIsExact, LockIsHandedOn, Holds
<1>12. Ranked'
  <2>1. \A k \in Selections : Before(lock', Stop, k) => hl'[k].pc = "due"
    BY <1>4, <1>8, Ordered DEF IInv, Ranked
  <2>2. QED
    BY <1>1, <1>3, <1>4, <1>5, <1>8, <1>10, <2>1 DEF IInv, Ranked
<1>13. LitByHighlights'
  BY <1>1, <1>3, <1>4 DEF IInv, Lit, LitByHighlights, Kept
<1>14. LitBySweeps' /\ LitBefore'
  BY <1>1 DEF IInv, Lit, LitBySweeps, LitBefore, Swept, Covered
<1>15. Sweeping' /\ Ending' /\ Connection' /\ Show'
  BY <1>1, <1>2 DEF IInv, Types, Sweeping, Ending, Connection, Show, connection
<1>16. QED
  BY <1>4, <1>9, <1>11, <1>12, <1>13, <1>14, <1>15 DEF IInv, Types, Lit

LEMMA TimeToLiveStep ==
    ASSUME IInv, NEW h \in Selections, TimeToLive(h)
    PROVE  IInv'
<1> USE HighlightAssumption
<1> DEFINE w == [hl[h] EXCEPT !.pc = "due"]
<1>1. /\ hl[h].pc = "sleeping" /\ hl' = [hl EXCEPT ![h] = w] /\ lock' = Append(lock, h)
      /\ UNCHANGED <<shown, lost, registry, sweep, stop>> /\ UNCHANGED connection
  BY DEF TimeToLive
<1>2. hl[h] \in Work /\ hl[h].client <= clients /\ hl[h].client # 0 /\ clients' = clients
  BY <1>1 DEF connection, IInv, Types, Works
<1>3. /\ w \in Work /\ w.pc = "due" /\ w.client = hl[h].client /\ w.cubes = hl[h].cubes
  BY <1>2 DEF Work
<1> HIDE DEF w
<1>4. Works' /\ \A k \in Selections : hl'[k] = IF k = h THEN w ELSE hl[k]
  BY <1>1, <1>2, <1>3, Changed DEF IInv, Types
<1>5. ~Contains(lock, h)
  BY <1>1 DEF IInv, TasksAreTracked, LockIsHandedOn
<1>6. /\ lock' \in Seq(Tasks) /\ IsInjective(lock') /\ lock' # <<>>
      /\ \A x : Contains(lock', x) <=> Contains(lock, x) \/ x = h
      /\ \A x, y : Before(lock', x, y) => Before(lock, x, y) \/ (Contains(lock, x) /\ y = h)
      /\ lock # <<>> => Head(lock') = Head(lock)
  BY <1>1, <1>5, Appended DEF IInv, Types, Queues, Tasks
<1>7. Queues'
  BY <1>1, <1>6 DEF IInv, Types, Queues
<1>8. TasksAreTracked'
  BY <1>1, <1>3, <1>4, <1>6 DEF IInv, TasksAreTracked, RegistryIsExact, LockIsHandedOn, Holds
<1>9. Ranked'
  BY <1>1, <1>3, <1>4, <1>6 DEF IInv, Ranked, Holds
<1>10. LitByHighlights'
  BY <1>1, <1>3, <1>4 DEF IInv, Lit, LitByHighlights, Kept
<1>11. LitBySweeps' /\ LitBefore'
  BY <1>1 DEF IInv, Lit, LitBySweeps, LitBefore, Swept, Covered
<1>12. Sweeping' /\ Ending' /\ Connection' /\ Show'
  BY <1>1, <1>2 DEF IInv, Types, Sweeping, Ending, Connection, Show, connection
<1>13. QED
  BY <1>4, <1>7, <1>8, <1>9, <1>10, <1>11, <1>12 DEF IInv, Types, Lit

LEMMA BeginRevertStep ==
    ASSUME IInv, NEW h \in Selections, BeginRevert(h)
    PROVE  IInv'
<1> USE HighlightAssumption
<1> DEFINE w == [hl[h] EXCEPT !.pc = "reverting", !.todo = hl[h].cubes]
<1>1. /\ hl[h].pc = "due" /\ lock # <<>> /\ Head(lock) = h
      /\ UNCHANGED <<shown, lost, registry, lock, sweep, stop>> /\ UNCHANGED connection
  BY DEF BeginRevert, Holds
<1>2. Contains(registry, h)
  BY <1>1 DEF IInv, TasksAreTracked, RegistryIsExact
<1>3. hl' = [hl EXCEPT ![h] = w]
  BY <1>2 DEF BeginRevert
<1>4. hl[h] \in Work /\ hl[h].client <= clients /\ hl[h].client # 0 /\ clients' = clients
  BY <1>1 DEF connection, IInv, Types, Works
<1>5. /\ w \in Work /\ w.pc = "reverting" /\ w.client = hl[h].client
      /\ w.cubes = hl[h].cubes /\ w.todo = hl[h].cubes
  BY <1>4 DEF Work
<1> HIDE DEF w
<1>6. Works' /\ \A k \in Selections : hl'[k] = IF k = h THEN w ELSE hl[k]
  <2>1. w.client <= clients /\ w.client # 0 /\ w.todo \subseteq w.cubes /\ Works
    BY <1>4, <1>5 DEF IInv, Types
  <2>2. QED
    BY <1>3, <1>4, <1>5, <2>1, Changed
<1>7. Queues'
  BY <1>1 DEF IInv, Types, Queues
<1>8. TasksAreTracked'
  BY <1>1, <1>5, <1>6 DEF IInv, TasksAreTracked, RegistryIsExact, LockIsHandedOn, Holds
<1>9. ~Before(lock, Stop, h)
  BY <1>1, HeadIsFirst DEF IInv, Types, Queues
<1>10. Ranked'
  BY <1>1, <1>5, <1>6, <1>9 DEF IInv, Ranked, Holds
<1>11. LitByHighlights'
  BY <1>1, <1>5, <1>6 DEF IInv, Lit, LitByHighlights, Kept
<1>12. LitBySweeps' /\ LitBefore'
  BY <1>1 DEF IInv, Lit, LitBySweeps, LitBefore, Swept, Covered
<1>13. Sweeping' /\ Ending' /\ Connection' /\ Show'
  BY <1>1, <1>4 DEF IInv, Types, Sweeping, Ending, Connection, Show, connection
<1>14. QED
  BY <1>6, <1>7, <1>8, <1>10, <1>11, <1>12, <1>13 DEF IInv, Types, Lit

LEMMA EndRevertStep ==
    ASSUME IInv, NEW h \in Selections, EndRevert(h)
    PROVE  IInv'
<1> USE HighlightAssumption
<1>1. /\ hl[h].pc = "reverting" /\ hl[h].todo = {} /\ hl' = [hl EXCEPT ![h] = NoSelection]
      /\ registry' = RemoveFirst(registry, h) /\ lock' = Tail(lock)
      /\ UNCHANGED <<shown, lost, sweep, stop>> /\ UNCHANGED connection
  BY DEF EndRevert, Release
<1>2. NoSelection \in Work /\ NoSelection.pc = "idle" /\ NoSelection.client = 0
  BY DEF NoSelection, Work
<1>3. 0 <= clients /\ clients' = clients
  BY <1>1 DEF connection, IInv, Types, Connection
<1>4. Works' /\ \A k \in Selections : hl'[k] = IF k = h THEN NoSelection ELSE hl[k]
  BY <1>1, <1>2, <1>3, Changed DEF IInv, Types
<1>5. lock # <<>> /\ Head(lock) = h /\ stop.todo = {}
  BY <1>1 DEF IInv, TasksAreTracked, LockIsHandedOn, Ranked, Holds
<1>6. /\ registry' \in Seq(Selections) /\ IsInjective(registry') /\ Len(registry') <= Len(registry)
      /\ \A x : Contains(registry', x) <=> Contains(registry, x) /\ x # h
  BY <1>1, Removed DEF IInv, Types, Queues
<1>7. /\ lock' \in Seq(Tasks) /\ IsInjective(lock')
      /\ \A x : Contains(lock', x) <=> Contains(lock, x) /\ x # h
      /\ \A x, y : Before(lock', x, y) => Before(lock, x, y)
  BY <1>1, <1>5, Dequeued DEF IInv, Types, Queues
<1>8. Queues'
  <2>1. Len(registry') <= MaxRetained
    BY <1>6 DEF IInv, Types, Queues
  <2>2. QED
    BY <1>6, <1>7, <2>1 DEF Queues
<1>9. \A k \in Selections \ {h} : hl[k].pc \notin {"clearing", "lighting", "reverting"}
  BY <1>5 DEF IInv, TasksAreTracked, LockIsHandedOn, Holds
<1>10. TasksAreTracked'
  BY <1>2, <1>4, <1>6, <1>7, <1>9
     DEF IInv, TasksAreTracked, RegistryIsExact, LockIsHandedOn, Holds
<1>11. Ranked'
  <2>1. \A k \in Selections : Before(lock', Stop, k) => hl'[k].pc = "due"
    BY <1>4, <1>7, Ordered DEF IInv, Ranked
  <2>2. QED
    BY <1>1, <1>2, <1>4, <1>5, <1>7, <1>9, <2>1 DEF IInv, Ranked
<1>12. LitByHighlights'
  <2>1. \A c \in Cubes \ lost : shown[c] # h
    BY <1>1 DEF IInv, Lit, LitByHighlights, Kept
  <2>2. QED
    BY <1>1, <1>4, <2>1 DEF IInv, Lit, LitByHighlights, Kept
<1>13. LitBySweeps' /\ LitBefore'
  BY <1>1 DEF IInv, Lit, LitBySweeps, LitBefore, Swept, Covered
<1>14. Sweeping' /\ Ending' /\ Connection' /\ Show'
  BY <1>1, <1>3 DEF IInv, Types, Sweeping, Ending, Connection, Show, connection
<1>15. QED
  BY <1>4, <1>8, <1>10, <1>11, <1>12, <1>13, <1>14 DEF IInv, Types, Lit

-----------------------------------------------------------------------------
(* Steps of the sweeps.                                                    *)

Run == [pc : {"idle", "off", "cycling", "capturing", "restoring", "cut"},
        client : 0..clients, todo : SUBSET Cubes]

\* A sweep's record changes, and nothing of the selections does.
LEMMA SweepChanged ==
    ASSUME IInv, NEW s \in Sweeps \cup {Boot}, NEW w \in Run, sweep' = [sweep EXCEPT ![s] = w],
           w.pc # "idle" => w.client # 0, s \in Sweeps => w.pc # "cut",
           s = Boot => w.pc \in {"idle", "restoring", "cut"},
           clients' = clients, UNCHANGED <<hl, registry, lock, stop>>
    PROVE  /\ Sweeping' /\ Works' /\ Ending' /\ Queues' /\ TasksAreTracked' /\ Ranked'
           /\ \A t \in Sweeps \cup {Boot} : sweep'[t] = IF t = s THEN w ELSE sweep[t]
<1> USE HighlightAssumption
<1>1. /\ \A t \in Sweeps \cup {Boot} : sweep'[t] = IF t = s THEN w ELSE sweep[t]
      /\ sweep' \in [Sweeps \cup {Boot} -> Run]
  BY DEF IInv, Types, Sweeping, Run
<1>2. Run' = Run
  BY DEF Run
<1>3. Sweeping'
  <2>1. sweep' \in [Sweeps \cup {Boot} -> Run']
    BY <1>1, <1>2
  <2>2. \A t \in Sweeps \cup {Boot} : sweep'[t].pc # "idle" => sweep'[t].client # 0
    BY <1>1 DEF IInv, Types, Sweeping
  <2>3. \A t \in Sweeps : sweep'[t].pc # "cut"
    BY <1>1 DEF IInv, Types, Sweeping
  <2>4. sweep'[Boot].pc \in {"idle", "restoring", "cut"}
    BY <1>1 DEF IInv, Types, Sweeping
  <2>5. QED
    BY <2>1, <2>2, <2>3, <2>4 DEF Sweeping, Run
<1>4. Works' /\ Ending'
  BY DEF IInv, Types, Works, Ending
<1>5. Queues' /\ TasksAreTracked' /\ Ranked'
  BY QueuesLeftAlone
<1>6. QED
  BY <1>1, <1>3, <1>4, <1>5

LEMMA StartSweepStep ==
    ASSUME IInv, NEW s \in Sweeps, NEW pc \in {"off", "cycling"}, StartSweep(s, pc)
    PROVE  IInv'
<1> USE HighlightAssumption
<1> DEFINE w == [pc |-> pc, client |-> mqtt, todo |-> Cubes]
<1>1. /\ sweep[s].pc = "idle" /\ (\A c \in Cubes : shown[c] # s) /\ mqtt # 0
      /\ sweep' = [sweep EXCEPT ![s] = w]
      /\ UNCHANGED <<shown, lost, hl, registry, lock, stop>> /\ UNCHANGED connection
  BY DEF StartSweep
<1>2. clients' = clients /\ w \in Run /\ w.pc = pc /\ w.client = mqtt
  BY <1>1 DEF connection, IInv, Types, Connection, Run
<1> HIDE DEF w
<1>3. /\ Sweeping' /\ Works' /\ Ending' /\ Queues' /\ TasksAreTracked' /\ Ranked'
      /\ \A t \in Sweeps \cup {Boot} : sweep'[t] = IF t = s THEN w ELSE sweep[t]
  BY <1>1, <1>2, SweepChanged
<1>4. LitByHighlights'
  BY <1>1 DEF IInv, Lit, LitByHighlights, Kept
<1>5. LitBySweeps' /\ LitBefore'
  BY <1>1, <1>3 DEF IInv, Lit, LitBySweeps, LitBefore, Swept, Covered
<1>6. Connection' /\ Show'
  BY <1>1 DEF IInv, Types, Connection, Show, connection
<1>7. QED
  BY <1>3, <1>4, <1>5, <1>6 DEF IInv, Types, Lit

\* What a sweep shows is its own or nobody's, and what restores shows the ambient state.
LEMMA SweepCubeStep ==
    ASSUME IInv, NEW s \in Sweeps \cup {Boot}, SweepCube(s)
    PROVE  IInv'
<1> USE HighlightAssumption
<1>1. PICK c \in sweep[s].todo :
         /\ Publish(sweep[s].client, c, Shows(s))
         /\ sweep' = [sweep EXCEPT ![s] =
                IF sweep[s].todo = {c} /\ sweep[s].pc # "cycling"
                THEN NoTask ELSE [sweep[s] EXCEPT !.todo = sweep[s].todo \ {c}]]
  BY DEF SweepCube
<1>2. /\ sweep[s].pc \in {"off", "cycling", "restoring"} /\ sweep[s] \in Run
      /\ UNCHANGED <<hl, registry, lock, stop>>
  BY DEF SweepCube, IInv, Types, Sweeping, Run
<1>3. /\ c \in Cubes /\ sweep[s].client \in 1..clients
      /\ s = Boot => sweep[s].pc = "restoring"
  BY <1>1, <1>2 DEF IInv, Types, Sweeping, Connection, Run
<1>4. /\ sweep[s].pc = "off" => Shows(s) = Off
      /\ sweep[s].pc = "cycling" => Shows(s) = s /\ s \in Sweeps
      /\ sweep[s].pc = "restoring" => Shows(s) = Ambient
  BY <1>2, <1>3 DEF Shows
<1>5. Shows(s) \in {Ambient, Off} \cup Selections \cup Sweeps
  BY <1>2, <1>4
<1>6. /\ Connection' /\ clients' = clients /\ Show'
      /\ \A d \in Cubes \ {c} : shown'[d] = shown[d] /\ (d \in lost' <=> d \in lost)
      /\ \/ shown'[c] = Shows(s)
         \/ /\ shown'[c] = shown[c] /\ (c \in lost => c \in lost')
            /\ Shows(s) = Ambient => c \in lost'
  BY <1>1, <1>3, <1>5, Published DEF IInv, Types
<1> DEFINE w == IF sweep[s].todo = {c} /\ sweep[s].pc # "cycling"
                THEN NoTask ELSE [sweep[s] EXCEPT !.todo = sweep[s].todo \ {c}]
<1>7. /\ w \in Run /\ sweep' = [sweep EXCEPT ![s] = w]
      /\ \/ w.pc = "idle" /\ sweep[s].todo = {c} /\ sweep[s].pc # "cycling"
         \/ /\ w.pc = sweep[s].pc /\ w.client = sweep[s].client
            /\ w.todo = sweep[s].todo \ {c}
  <2>1. CASE sweep[s].todo = {c} /\ sweep[s].pc # "cycling"
    <3>1. w = NoTask
      BY <2>1
    <3>2. NoTask \in Run /\ NoTask.pc = "idle"
      BY DEF Run, NoTask, IInv, Types, Connection
    <3>3. QED
      BY <1>1, <2>1, <3>1, <3>2
  <2>2. CASE ~(sweep[s].todo = {c} /\ sweep[s].pc # "cycling")
    <3>1. w = [sweep[s] EXCEPT !.todo = sweep[s].todo \ {c}]
      BY <2>2
    <3> HIDE DEF w
    <3>2. /\ w \in Run /\ w.pc = sweep[s].pc /\ w.client = sweep[s].client
          /\ w.todo = sweep[s].todo \ {c}
      BY <1>2, <3>1 DEF Run
    <3>3. QED
      BY <1>1, <3>2 DEF w
  <2>3. QED
    BY <2>1, <2>2
<1> HIDE DEF w
<1>8. /\ Sweeping' /\ Works' /\ Ending' /\ Queues' /\ TasksAreTracked' /\ Ranked'
      /\ \A t \in Sweeps \cup {Boot} : sweep'[t] = IF t = s THEN w ELSE sweep[t]
  <2>1. /\ w.pc # "idle" => w.client # 0
        /\ s \in Sweeps => w.pc # "cut"
        /\ s = Boot => w.pc \in {"idle", "restoring", "cut"}
    BY <1>2, <1>3, <1>7
  <2>2. QED
    BY <1>2, <1>6, <1>7, <2>1, SweepChanged
<1>9. LitByHighlights'
  <2>1. ASSUME NEW d \in Cubes \ lost', NEW k \in Selections, shown'[d] = k
        PROVE  Kept(d, k)'
    <3>1. d \in Cubes \ lost /\ shown[d] = k
      BY <1>2, <1>4, <1>6, <2>1
    <3>2. QED
      BY <1>2, <3>1 DEF IInv, Lit, LitByHighlights, Kept
  <2>2. QED
    BY <2>1 DEF LitByHighlights
<1>10. LitBySweeps'
  <2>1. ASSUME NEW d \in Cubes \ lost', NEW t \in Sweeps, shown'[d] = t
        PROVE  Swept(d, t)'
    <3>1. CASE d = c /\ sweep[s].pc = "cycling" /\ t = s
      BY <1>7, <1>8, <3>1 DEF Swept
    <3>2. CASE ~(d = c /\ sweep[s].pc = "cycling" /\ t = s)
      <4>1. d \in Cubes \ lost /\ shown[d] = t
        BY <1>2, <1>4, <1>6, <2>1, <3>2
      <4>2. Swept(d, t)
        BY <4>1 DEF IInv, Lit, LitBySweeps
      <4>3. t = s /\ sweep[s].pc = "restoring" => d # c
        BY <1>4, <1>6, <2>1
      <4>4. CASE t = s
        BY <1>2, <1>7, <1>8, <4>2, <4>3, <4>4 DEF Swept
      <4>5. CASE t # s
        BY <1>8, <4>2, <4>5 DEF Swept
      <4>6. QED
        BY <4>4, <4>5
    <3>3. QED
      BY <3>1, <3>2
  <2>2. QED
    BY <2>1 DEF LitBySweeps
<1>11. LitBefore'
  <2>1. ASSUME NEW d \in Cubes \ lost', shown'[d] = Left
        PROVE  Covered(d)'
    <3>1. d \in Cubes \ lost /\ shown[d] = Left
      BY <1>2, <1>4, <1>6, <2>1
    <3>2. Covered(d)
      BY <3>1 DEF IInv, Lit, LitBefore
    <3>3. s = Boot => d # c
      BY <1>3, <1>4, <1>6, <2>1
    <3>4. QED
      BY <1>2, <1>3, <1>7, <1>8, <3>2, <3>3 DEF Covered
  <2>2. QED
    BY <2>1 DEF LitBefore
<1>12. QED
  BY <1>6, <1>8, <1>9, <1>10, <1>11 DEF IInv, Types, Lit

LEMMA CaptureStep ==
    ASSUME IInv, NEW s \in Sweeps \cup {Boot}, Capture(s) \/ EndCapture(s)
    PROVE  IInv'
<1> USE HighlightAssumption
<1>1. /\ sweep[s].pc \in {"cycling", "capturing"} /\ sweep[s] \in Run /\ s \in Sweeps
      /\ sweep[s].client # 0
  BY DEF Capture, EndCapture, IInv, Types, Sweeping, Run
<1>2. Restore(s) \/ StartCapture(s) \/ Abort(s)
  BY DEF Capture, EndCapture, PublishAmbient
<1>3. /\ UNCHANGED <<shown, hl, registry, lock, stop>> /\ UNCHANGED connection
      /\ lost' = lost \/ lost' = lost \cup {c \in Cubes : shown[c] = s}
  BY <1>2 DEF Restore, StartCapture, Abort
<1>4. /\ Connection' /\ Show' /\ clients' = clients
      /\ \A c \in Cubes \ lost' : c \in Cubes \ lost
  BY <1>3 DEF IInv, Types, Connection, Show, connection
<1>5. LitByHighlights'
  BY <1>3, <1>4 DEF IInv, Lit, LitByHighlights, Kept
<1>6. CASE Restore(s) \/ StartCapture(s)
  <2>1. PICK w : /\ sweep' = [sweep EXCEPT ![s] = w]
                 /\ \/ w = [sweep[s] EXCEPT !.pc = "restoring", !.todo = Cubes]
                    \/ w = [sweep[s] EXCEPT !.pc = "capturing"]
    BY <1>6 DEF Restore, StartCapture
  <2>2. /\ w \in Run /\ w.client = sweep[s].client
        /\ \/ w.pc = "restoring" /\ w.todo = Cubes
           \/ w.pc = "capturing"
    BY <1>1, <2>1 DEF Run
  <2>3. /\ Sweeping' /\ Works' /\ Ending' /\ Queues' /\ TasksAreTracked' /\ Ranked'
        /\ \A t \in Sweeps \cup {Boot} : sweep'[t] = IF t = s THEN w ELSE sweep[t]
    <3>1. s # Boot /\ w.pc # "cut" /\ w.client # 0
      BY <1>1, <2>2
    <3>2. UNCHANGED <<hl, registry, lock, stop>>
      BY <1>3
    <3>3. QED
      BY <1>4, <2>1, <2>2, <3>1, <3>2, SweepChanged
  <2>4. LitBySweeps' /\ LitBefore'
    BY <1>1, <1>3, <1>4, <2>2, <2>3 DEF IInv, Lit, LitBySweeps, LitBefore, Swept, Covered
  <2>5. QED
    BY <1>4, <1>5, <2>3, <2>4 DEF IInv, Types, Lit
<1>7. CASE Abort(s)
  <2>1. sweep' = [sweep EXCEPT ![s] = NoTask] /\ lost' = lost \cup {c \in Cubes : shown[c] = s}
    BY <1>7 DEF Abort
  <2>2. NoTask \in Run /\ NoTask.pc = "idle"
    BY DEF NoTask, Run, IInv, Types, Connection
  <2>3. /\ Sweeping' /\ Works' /\ Ending' /\ Queues' /\ TasksAreTracked' /\ Ranked'
        /\ \A t \in Sweeps \cup {Boot} : sweep'[t] = IF t = s THEN NoTask ELSE sweep[t]
    <3>1. s # Boot /\ UNCHANGED <<hl, registry, lock, stop>>
      BY <1>1, <1>3
    <3>2. QED
      BY <1>4, <2>1, <2>2, <3>1, SweepChanged
  <2>4. \A c \in Cubes \ lost' : c \in Cubes \ lost /\ shown'[c] = shown[c] /\ shown[c] # s
    BY <1>3, <2>1
  <2>5. LitBySweeps'
    <3>1. ASSUME NEW c \in Cubes \ lost', NEW t \in Sweeps, shown'[c] = t
          PROVE  Swept(c, t)'
      <4>1. t # s /\ Swept(c, t)
        BY <2>4, <3>1 DEF IInv, Lit, LitBySweeps
      <4>2. QED
        BY <2>3, <4>1 DEF Swept
    <3>2. QED
      BY <3>1 DEF LitBySweeps
  <2>6. LitBefore'
    BY <1>1, <2>3, <2>4 DEF IInv, Lit, LitBefore, Covered
  <2>7. QED
    BY <1>4, <1>5, <2>3, <2>5, <2>6 DEF IInv, Types, Lit
<1>8. QED
  BY <1>2, <1>6, <1>7

-----------------------------------------------------------------------------
(* Steps of the end of the process.                                        *)

LEMMA BeginStopStep ==
    ASSUME IInv, BeginStop
    PROVE  IInv'
<1> USE HighlightAssumption
<1>1. /\ stop.pc = "idle" /\ stop' = [pc |-> "clearing", client |-> mqtt, todo |-> {}]
      /\ lock' = Append(lock, Stop)
      /\ UNCHANGED <<shown, lost, hl, registry, sweep>> /\ UNCHANGED connection
  BY DEF BeginStop
<1>2. ~Contains(lock, Stop) /\ stop.todo = {}
  BY <1>1 DEF IInv, Ranked
<1>3. /\ lock' \in Seq(Tasks) /\ IsInjective(lock') /\ lock' # <<>>
      /\ \A x : Contains(lock', x) <=> Contains(lock, x) \/ x = Stop
      /\ \A x, y : Before(lock', x, y) => Before(lock, x, y) \/ (Contains(lock, x) /\ y = Stop)
      /\ lock # <<>> => Head(lock') = Head(lock)
  BY <1>1, <1>2, Appended DEF IInv, Types, Queues, Tasks
<1>4. Queues'
  BY <1>1, <1>3 DEF IInv, Types, Queues
<1>5. TasksAreTracked'
  BY <1>1, <1>3 DEF IInv, TasksAreTracked, RegistryIsExact, LockIsHandedOn, Holds
<1>6. Ranked'
  BY <1>1, <1>3 DEF IInv, Ranked, Holds
<1>7. Ending'
  BY <1>1 DEF IInv, Types, Ending, Connection, connection
<1>8. Works' /\ Sweeping' /\ Connection' /\ Show'
  BY <1>1 DEF IInv, Types, Works, Sweeping, Connection, Show, connection
<1>9. Lit'
  BY <1>1, <1>2 DEF IInv, Lit, LitByHighlights, LitBySweeps, LitBefore, Kept, Swept, Covered
<1>10. QED
  BY <1>4, <1>5, <1>6, <1>7, <1>8, <1>9 DEF IInv, Types

LEMMA StopCancelStep ==
    ASSUME IInv, StopCancel
    PROVE  IInv'
<1> USE HighlightAssumption
<1> DEFINE e == Head(registry)
<1>1. /\ stop.pc = "clearing" /\ lock # <<>> /\ Head(lock) = Stop /\ stop.todo = {}
      /\ registry # <<>> /\ Drop(e) /\ hl' = [hl EXCEPT ![e] = NoSelection]
      /\ stop' = [stop EXCEPT !.todo = IF stop.client = 0 THEN {} ELSE hl[e].cubes]
      /\ lost' = IF stop.client = 0 THEN lost \cup hl[e].cubes ELSE lost
      /\ UNCHANGED <<shown, sweep>> /\ UNCHANGED connection
  BY DEF StopCancel, Holds
<1>2. Contains(registry, e) /\ e \in Selections /\ e # Stop
  BY <1>1, HeadIsFirst DEF IInv, Types, Queues
<1>3. /\ hl[e].pc \in {"sleeping", "due"}
      /\ Queues' /\ lock' # <<>> /\ Head(lock') = Stop
      /\ \A x : Contains(registry', x) <=> Contains(registry, x) /\ x # e
      /\ \A x : Contains(lock', x) <=> Contains(lock, x) /\ x # e
      /\ \A x, y : Before(lock', x, y) => Before(lock, x, y)
  BY <1>1, <1>2, Dropped
<1> HIDE DEF e
<1>4. NoSelection \in Work /\ NoSelection.pc = "idle" /\ NoSelection.client = 0
  BY DEF NoSelection, Work
<1>5. 0 <= clients /\ clients' = clients /\ hl[e].cubes \subseteq Cubes
  BY <1>1, <1>2 DEF connection, IInv, Types, Connection, Works, Work
<1>6. Works' /\ \A k \in Selections : hl'[k] = IF k = e THEN NoSelection ELSE hl[k]
  BY <1>1, <1>2, <1>4, <1>5, Changed DEF IInv, Types
<1>7. /\ Ending' /\ stop'.pc = "clearing" /\ stop'.client = stop.client
      /\ stop'.todo = IF stop.client = 0 THEN {} ELSE hl[e].cubes
  BY <1>1, <1>5 DEF IInv, Types, Ending
<1>8. \A k \in Selections : hl[k].pc \notin {"clearing", "lighting", "reverting"}
  BY <1>1 DEF IInv, TasksAreTracked, LockIsHandedOn, Holds
<1>9. TasksAreTracked'
  <2>1. RegistryIsExact'
    BY <1>2, <1>3, <1>4, <1>6 DEF IInv, TasksAreTracked, RegistryIsExact
  <2>2. LockIsHandedOn'
    BY <1>2, <1>3, <1>4, <1>6, <1>8 DEF IInv, TasksAreTracked, LockIsHandedOn, Holds
  <2>3. QED
    BY <2>1, <2>2 DEF TasksAreTracked
<1>10. Ranked'
  <2>1. \A k \in Selections : Before(lock', Stop, k) => hl'[k].pc = "due"
    BY <1>3, <1>6, Ordered DEF IInv, Ranked
  <2>2. \A k \in Selections : hl'[k].pc # "lighting" /\ (hl'[k].pc = "cut" => hl[k].pc = "cut")
    BY <1>4, <1>6, <1>8
  <2>3. QED
    BY <1>1, <1>2, <1>3, <1>7, <2>1, <2>2 DEF IInv, Ranked, Holds
<1>11. LitByHighlights'
  <2>1. ASSUME NEW c \in Cubes \ lost', NEW k \in Selections, shown'[c] = k
        PROVE  Kept(c, k)'
    <3>1. c \in Cubes \ lost /\ shown[c] = k /\ (stop.client = 0 => c \notin hl[e].cubes)
      BY <1>1, <2>1
    <3>2. Kept(c, k)
      BY <3>1 DEF IInv, Lit, LitByHighlights
    <3>3. CASE k = e
      <4>1. c \in hl[e].cubes
        BY <1>3, <3>2, <3>3 DEF Kept
      <4>2. hl'[k].pc = "idle" /\ c \in stop'.todo
        BY <1>4, <1>6, <1>7, <3>1, <3>3, <4>1
      <4>3. QED
        BY <4>2 DEF Kept
    <3>4. CASE k # e
      <4>1. hl'[k] = hl[k]
        BY <1>6, <3>4
      <4>2. QED
        BY <1>1, <1>8, <3>2, <4>1 DEF Kept
    <3>5. QED
      BY <3>3, <3>4
  <2>2. QED
    BY <2>1 DEF LitByHighlights
<1>12. LitBySweeps' /\ LitBefore'
  <2>1. \A c \in Cubes \ lost' : c \in Cubes \ lost
    BY <1>1
  <2>2. QED
    BY <1>1, <2>1 DEF IInv, Lit, LitBySweeps, LitBefore, Swept, Covered
<1>13. Sweeping' /\ Connection' /\ Show'
  BY <1>1, <1>5 DEF IInv, Types, Sweeping, Connection, Show, connection
<1>14. QED
  BY <1>3, <1>6, <1>7, <1>9, <1>10, <1>11, <1>12, <1>13 DEF IInv, Types, Lit

LEMMA StopClearCubeStep ==
    ASSUME IInv, StopClearCube
    PROVE  IInv'
<1> USE HighlightAssumption
<1>1. PICK c \in stop.todo :
         /\ Publish(stop.client, c, Ambient)
         /\ stop' = [stop EXCEPT !.todo = stop.todo \ {c}]
  BY DEF StopClearCube
<1>2. /\ UNCHANGED <<hl, registry, lock, sweep>> /\ c \in Cubes
      /\ stop.client \in 1..clients
  BY <1>1 DEF StopClearCube, IInv, Types, Ending, Connection
<1>3. /\ Connection' /\ clients' = clients /\ Show'
      /\ \A d \in Cubes \ {c} : shown'[d] = shown[d] /\ (d \in lost' <=> d \in lost)
      /\ shown'[c] = Ambient \/ c \in lost'
  BY <1>1, <1>2, Published DEF IInv, Types
<1>4. /\ Ending' /\ stop'.pc = stop.pc /\ stop'.todo = stop.todo \ {c}
  BY <1>1, <1>3 DEF IInv, Types, Ending
<1>5. Queues' /\ TasksAreTracked' /\ Ranked'
  <2>1. UNCHANGED <<registry, lock>> /\ stop'.todo \subseteq stop.todo
    BY <1>2, <1>4
  <2>2. QED
    BY <1>2, <1>4, <2>1, QueuesLeftAlone
<1>6. Works' /\ Sweeping'
  BY <1>2, <1>3 DEF IInv, Types, Works, Sweeping
<1>7. LitByHighlights'
  <2>1. ASSUME NEW d \in Cubes \ lost', NEW k \in Selections, shown'[d] = k
        PROVE  Kept(d, k)'
    <3>1. d # c /\ d \in Cubes \ lost /\ shown[d] = k
      BY <1>3, <2>1
    <3>2. Kept(d, k)
      BY <3>1 DEF IInv, Lit, LitByHighlights
    <3>3. QED
      BY <1>2, <1>4, <3>1, <3>2 DEF Kept
  <2>2. QED
    BY <2>1 DEF LitByHighlights
<1>8. LitBySweeps' /\ LitBefore'
  BY <1>2, <1>3 DEF IInv, Lit, LitBySweeps, LitBefore, Swept, Covered
<1>9. QED
  BY <1>3, <1>4, <1>5, <1>6, <1>7, <1>8 DEF IInv, Types, Lit

\* The task that stops the process was the last with the lock.
LEMMA StopReleaseStep ==
    ASSUME IInv, StopRelease
    PROVE  IInv'
<1> USE HighlightAssumption
<1>1. /\ stop.pc = "clearing" /\ lock # <<>> /\ Head(lock) = Stop /\ stop.todo = {}
      /\ registry = <<>> /\ lock' = Tail(lock) /\ stop' = [stop EXCEPT !.pc = "ending"]
      /\ UNCHANGED <<shown, lost, hl, registry, sweep>> /\ UNCHANGED connection
  BY DEF StopRelease, Holds, Release
<1>2. Ending' /\ stop'.pc = "ending" /\ stop'.todo = {}
  BY <1>1 DEF IInv, Types, Ending, connection
<1>3. /\ lock' \in Seq(Tasks) /\ IsInjective(lock')
      /\ \A x : Contains(lock', x) <=> Contains(lock, x) /\ x # Stop
      /\ \A x, y : Before(lock', x, y) => Before(lock, x, y)
      /\ \A x : Contains(lock, x) /\ x # Stop => Before(lock, Stop, x)
  BY <1>1, Dequeued, HeadIsFirst DEF IInv, Types, Queues
<1>4. Queues'
  BY <1>1, <1>3 DEF IInv, Types, Queues
<1>5. \A k \in Selections : hl[k].pc \in {"idle", "cut"}
  <2>1. ASSUME NEW k \in Selections
        PROVE  hl[k].pc \in {"idle", "cut"}
    <3>1. hl[k].pc \notin {"sleeping", "due", "reverting"}
      BY <1>1, Empty DEF IInv, TasksAreTracked, RegistryIsExact
    <3>2. ~Contains(lock, k)
      BY <1>3, <3>1 DEF IInv, Ranked
    <3>3. hl[k].pc \notin {"waiting", "clearing", "lighting"}
      BY <3>2 DEF IInv, TasksAreTracked, LockIsHandedOn
    <3>4. QED
      BY <3>1, <3>3 DEF IInv, Types, Works, Work
  <2>2. QED
    BY <2>1
<1>6. TasksAreTracked'
  BY <1>1, <1>3, <1>5 DEF IInv, TasksAreTracked, RegistryIsExact, LockIsHandedOn
<1>7. Ranked'
  BY <1>1, <1>2, <1>3, <1>5 DEF IInv, Ranked
<1>8. Works' /\ Sweeping' /\ Connection' /\ Show'
  BY <1>1 DEF IInv, Types, Works, Sweeping, Connection, Show, connection
<1>9. Lit'
  BY <1>1, <1>2 DEF IInv, Lit, LitByHighlights, LitBySweeps, LitBefore, Kept, Swept, Covered
<1>10. QED
  BY <1>2, <1>4, <1>6, <1>7, <1>8, <1>9 DEF IInv, Types

LEMMA EndStep ==
    ASSUME IInv, End
    PROVE  IInv'
<1> USE HighlightAssumption
<1>1. /\ stop.pc = "ending" /\ stop' = [stop EXCEPT !.pc = "ended"]
      /\ hl' = [h \in Selections |->
                  IF hl[h].pc = "idle" THEN hl[h] ELSE [hl[h] EXCEPT !.pc = "cut"]]
      /\ sweep' = IF sweep[Boot].pc = "idle" THEN sweep
                  ELSE [sweep EXCEPT ![Boot] = [sweep[Boot] EXCEPT !.pc = "cut"]]
      /\ lock' = <<>> /\ registry' = <<>> /\ connected' = FALSE /\ mqtt' = 0
      /\ UNCHANGED <<shown, lost, clients, failed>>
  BY DEF End
<1>2. Ending' /\ stop'.pc = "ended" /\ stop'.todo = stop.todo /\ stop.todo = {}
  BY <1>1 DEF IInv, Types, Ending, Ranked
<1>3. \A h \in Selections :
        /\ hl'[h] \in Work /\ hl'[h].client = hl[h].client
        /\ IF hl[h].pc = "idle" THEN hl'[h] = hl[h] ELSE hl'[h].pc = "cut"
  <2>1. ASSUME NEW h \in Selections
        PROVE  /\ hl'[h] \in Work /\ hl'[h].client = hl[h].client
               /\ IF hl[h].pc = "idle" THEN hl'[h] = hl[h] ELSE hl'[h].pc = "cut"
    <3>1. hl[h] \in Work
      BY DEF IInv, Types, Works
    <3>2. hl'[h] = IF hl[h].pc = "idle" THEN hl[h] ELSE [hl[h] EXCEPT !.pc = "cut"]
      BY <1>1
    <3>3. QED
      BY <3>1, <3>2 DEF Work
  <2>2. QED
    BY <2>1
<1>4. Works'
  <2>1. hl' \in [Selections -> Work]
    BY <1>1, <1>3
  <2>2. QED
    BY <1>1, <1>3, <2>1 DEF IInv, Types, Works
<1>5. Queues'
  BY <1>1, Empty DEF Queues
<1>6. \A h \in Selections : hl[h].pc \in {"idle", "cut"}
  BY <1>1 DEF IInv, Ranked
<1>7. TasksAreTracked'
  BY <1>1, <1>3, <1>6, Empty DEF TasksAreTracked, RegistryIsExact, LockIsHandedOn
<1>8. Ranked'
  BY <1>1, <1>2, <1>3, <1>6, Empty, Ordered DEF Ranked
<1>9. Connection' /\ Show'
  <2>1. connected' \in BOOLEAN /\ (connected' => clients' # 0)
    BY <1>1, Zenon
  <2>2. clients' \in 0..MaxClients /\ mqtt' \in {0, clients'} /\ failed' \subseteq 1..clients'
    BY <1>1 DEF IInv, Types, Connection
  <2>3. Show'
    BY <1>1 DEF IInv, Types, Show
  <2>4. QED
    BY <2>1, <2>2, <2>3 DEF Connection
<1>10. /\ sweep' \in [Sweeps \cup {Boot} -> Run]
       /\ \A s \in Sweeps : sweep'[s] = sweep[s]
       /\ sweep'[Boot].client = sweep[Boot].client
       /\ IF sweep[Boot].pc = "idle" THEN sweep'[Boot] = sweep[Boot] ELSE sweep'[Boot].pc = "cut"
  <2>1. sweep \in [Sweeps \cup {Boot} -> Run]
    BY DEF IInv, Types, Sweeping, Run
  <2> DEFINE w == [sweep[Boot] EXCEPT !.pc = "cut"]
  <2>2. w \in Run /\ w.pc = "cut" /\ w.client = sweep[Boot].client
    BY <2>1 DEF Run
  <2>3. sweep[Boot].pc # "idle" => sweep' = [sweep EXCEPT ![Boot] = w]
    BY <1>1
  <2> HIDE DEF w
  <2>4. QED
    BY <1>1, <2>1, <2>2, <2>3
<1>11. Sweeping'
  <2>1. Run' = Run
    BY <1>1 DEF Run
  <2>2. sweep' \in [Sweeps \cup {Boot} -> Run']
    BY <1>10, <2>1
  <2>3. \A s \in Sweeps \cup {Boot} : sweep'[s].pc # "idle" => sweep'[s].client # 0
    BY <1>10 DEF IInv, Types, Sweeping
  <2>4. \A s \in Sweeps : sweep'[s].pc # "cut"
    BY <1>10 DEF IInv, Types, Sweeping
  <2>5. sweep'[Boot].pc \in {"idle", "restoring", "cut"}
    BY <1>10 DEF IInv, Types, Sweeping
  <2>6. QED
    BY <2>2, <2>3, <2>4, <2>5 DEF Sweeping, Run
<1>12. LitByHighlights'
  BY <1>1, <1>2, <1>3, <1>6 DEF IInv, Lit, LitByHighlights, Kept
<1>13. LitBySweeps'
  BY <1>1, <1>10 DEF IInv, Lit, LitBySweeps, Swept
<1>14. LitBefore'
  BY <1>1, <1>10 DEF IInv, Lit, LitBefore, Covered
<1>15. QED
  BY <1>2, <1>4, <1>5, <1>7, <1>8, <1>9, <1>11, <1>12, <1>13, <1>14 DEF IInv, Types, Lit

-----------------------------------------------------------------------------
(* The theorems.                                                           *)

LEMMA BeginOrContinueStep ==
    ASSUME IInv, NEW h \in Selections, Begin(h) \/ Continue(h)
    PROVE  IInv'
<1>1. CASE Begin(h)
  <2>1. PICK room \in {0, MaxRetained - 1} : Proceed(h, room)
    BY <1>1 DEF Begin
  <2>2. room \in 0..(MaxRetained - 1)
    BY HighlightAssumption
  <2>3. Holds(h) /\ hl[h].pc = "waiting"
    BY <1>1 DEF Begin
  <2>4. QED
    BY <2>1, <2>2, <2>3, ProceedStep
<1>2. CASE Continue(h)
  <2>1. hl[h].room \in 0..(MaxRetained - 1)
    BY DEF IInv, Types, Works, Work
  <2>2. Holds(h) /\ hl[h].pc = "clearing" /\ hl[h].todo = {} /\ Proceed(h, hl[h].room)
    BY <1>2 DEF Continue, IInv, TasksAreTracked, LockIsHandedOn
  <2>3. QED
    BY <2>1, <2>2, ProceedStep
<1>3. QED
  BY <1>1, <1>2

LEMMA Stuttering == IInv /\ UNCHANGED vars => IInv'
<1> SUFFICES ASSUME IInv, UNCHANGED vars PROVE IInv'
  OBVIOUS
<1>1. Types'
  BY DEF IInv, Types, Queues, Works, Sweeping, Ending, Connection, Show, vars, connection
<1>2. TasksAreTracked' /\ Ranked'
  BY QueuesLeftAlone DEF vars
<1>3. Lit'
  BY DEF IInv, Lit, LitByHighlights, LitBySweeps, LitBefore, Kept, Swept, Covered, vars
<1>4. QED
  BY <1>1, <1>2, <1>3 DEF IInv

LEMMA InvariantStep == IInv /\ [Next]_vars => IInv'
<1> SUFFICES ASSUME IInv, [Next]_vars PROVE IInv'
  OBVIOUS
<1>1. CASE Connect \/ LoseConnection \/ Disconnect
  BY <1>1, ConnectionStep
<1>2. CASE \E h \in Selections, cubes \in Answers : Illuminate(h, cubes)
  BY <1>2, IlluminateStep
<1>3. CASE \E h \in Selections : Lifecycle(h)
  BY <1>3, BeginOrContinueStep, ClearOrRevertCubeStep, LightCubeStep, RegisterStep,
     TimeToLiveStep, BeginRevertStep, EndRevertStep DEF Lifecycle
<1>4. CASE \E s \in Sweeps : StartSweep(s, "off") \/ StartSweep(s, "cycling")
  BY <1>4, StartSweepStep
<1>5. CASE \E s \in Sweeps \cup {Boot} : Sweep(s)
  BY <1>5, SweepCubeStep, CaptureStep DEF Sweep
<1>6. CASE BeginStop \/ Stopping
  BY <1>6, BeginStopStep, StopCancelStep, StopClearCubeStep, StopReleaseStep, EndStep
     DEF Stopping
<1>7. CASE UNCHANGED vars
  BY <1>7, Stuttering
<1>8. QED
  BY <1>1, <1>2, <1>3, <1>4, <1>5, <1>6, <1>7 DEF Next

\* The invariant the other theorems follow from.
THEOREM InvariantCorrect == Spec => []IInv
<1>1. QED
  BY Initially, InvariantStep, PTL DEF Spec

\* Every variable keeps its type, and the registry its cap of MaxRetained
\* entries (HighlightRegistry, _RETAIN_MODE_MAX_HIGHLIGHTS).
THEOREM TypeCorrect == Spec => []TypeOK
<1>1. IInv => TypeOK
  BY TypesImply DEF IInv
<1>2. QED
  BY <1>1, InvariantCorrect, PTL

\* A highlight is in the registry as long as its timer may act, and in the queue
\* of the lock as long as it has something to do with it: illuminate_with_lifecycle
\* and schedule_revert hand the lock on whoever cancels whom.
THEOREM TrackedCorrect == Spec => []TasksAreTracked
<1>1. IInv => TasksAreTracked
  BY DEF IInv
<1>2. QED
  BY <1>1, InvariantCorrect, PTL

\* A connection that does not fail delivers.
LEMMA PublishedHealthy ==
    ASSUME NEW g, NEW c, NEW what, Publish(g, c, what), failed' = {}
    PROVE  Delivered(c, what) /\ UNCHANGED connection
BY DEF Publish, Fail

LEMMA DeliveredHealthy ==
    ASSUME IInv, NEW c \in Cubes, NEW what, Delivered(c, what),
           \A d \in lost, h \in Selections : shown[d] # h
    PROVE  \A d \in lost', h \in Selections : shown'[d] # h
BY DEF Delivered, IInv, Types, Show

LEMMA HealthyStep == IInv /\ Healthy /\ [Next]_vars => Healthy'
<1> SUFFICES ASSUME IInv, Healthy, [Next]_vars, failed' = {}
             PROVE  /\ mqtt' = 0 /\ clients' # 0 => stop'.pc = "ended"
                    /\ stop'.pc = "clearing" /\ stop'.client = 0 =>
                          \A h \in Selections : hl'[h].pc = "idle"
                    /\ \A c \in lost', h \in Selections : shown'[c] # h
  BY DEF Healthy
<1> USE HighlightAssumption
<1>1. CASE Connect \/ LoseConnection \/ Disconnect
  <2>1. failed = {} /\ Connect
    BY <1>1 DEF Connect, LoseConnection, Disconnect
  <2>2. QED
    BY <2>1 DEF Connect, Healthy, IInv, Types, Connection
<1>2. CASE \E h \in Selections, cubes \in Answers : Illuminate(h, cubes)
  <2>1. UNCHANGED <<shown, lost, stop, mqtt, clients, failed>> /\ stop.pc = "idle"
    BY <1>2 DEF Illuminate, connection
  <2>2. QED
    BY <2>1 DEF Healthy
<1>3. CASE \E h \in Selections : Lifecycle(h)
  <2>1. PICK h \in Selections : Lifecycle(h)
    BY <1>3
  <2>2. hl[h].pc # "idle"
    BY <2>1 DEF Lifecycle, Begin, ClearCube, Continue, LightCube, Register, TimeToLive,
                BeginRevert, RevertCube, EndRevert
  <2>3. UNCHANGED <<stop, connection>>
        /\ (UNCHANGED <<shown, lost>> \/ \E c \in Cubes : \E what : Delivered(c, what))
    <3>1. CASE ClearCube(h) \/ LightCube(h) \/ RevertCube(h)
      <4>1. PICK c \in hl[h].todo : Publish(hl[h].client, c, Ambient) \/ Publish(hl[h].client, c, h)
        BY <3>1 DEF ClearCube, LightCube, RevertCube
      <4>2. c \in Cubes /\ stop' = stop
        BY <3>1 DEF ClearCube, LightCube, RevertCube, IInv, Types, Works, Work
      <4>3. QED
        BY <4>1, <4>2, PublishedHealthy
    <3>2. CASE Begin(h) \/ Continue(h) \/ Register(h) \/ TimeToLive(h) \/ BeginRevert(h) \/ EndRevert(h)
      BY <3>2 DEF Begin, Continue, Register, TimeToLive, BeginRevert, EndRevert, Proceed
    <3>3. QED
      BY <2>1, <3>1, <3>2 DEF Lifecycle
  <2>4. failed = {}
    BY <2>3 DEF connection
  <2>5. ~(stop.pc = "clearing" /\ stop.client = 0)
    BY <2>2, <2>4 DEF Healthy
  <2>6. \A c \in lost', k \in Selections : shown'[c] # k
    BY <2>3, <2>4, DeliveredHealthy DEF Healthy
  <2>7. QED
    BY <2>3, <2>4, <2>5, <2>6 DEF Healthy, connection
<1>4. CASE \E s \in Sweeps : StartSweep(s, "off") \/ StartSweep(s, "cycling")
  BY <1>4 DEF StartSweep, Healthy, connection
<1>5. CASE \E s \in Sweeps \cup {Boot} : Sweep(s)
  <2>1. PICK s \in Sweeps \cup {Boot} : Sweep(s)
    BY <1>5
  <2>2. CASE SweepCube(s)
    <3>1. PICK c \in sweep[s].todo : Publish(sweep[s].client, c, Shows(s))
      BY <2>2 DEF SweepCube
    <3>2. c \in Cubes /\ UNCHANGED <<hl, stop>>
      BY <2>2 DEF SweepCube, IInv, Types, Sweeping
    <3>3. Delivered(c, Shows(s)) /\ UNCHANGED connection
      BY <3>1, PublishedHealthy
    <3>4. \A d \in lost', k \in Selections : shown'[d] # k
      BY <3>2, <3>3, DeliveredHealthy DEF Healthy, connection
    <3>5. QED
      BY <3>2, <3>3, <3>4 DEF Healthy, connection
  <2>3. CASE Capture(s) \/ EndCapture(s)
    <3>1. s \in Sweeps
      BY <2>3 DEF Capture, EndCapture, IInv, Types, Sweeping
    <3>2. /\ UNCHANGED <<shown, hl, stop, connection>>
          /\ lost' = lost \/ lost' = lost \cup {c \in Cubes : shown[c] = s}
      BY <2>3 DEF Capture, EndCapture, PublishAmbient, Restore, StartCapture, Abort
    <3>3. \A c \in lost', k \in Selections : shown'[c] # k
      BY <3>1, <3>2 DEF Healthy, connection
    <3>4. QED
      BY <3>2, <3>3 DEF Healthy, connection
  <2>4. QED
    BY <2>1, <2>2, <2>3 DEF Sweep
<1>6. CASE BeginStop
  <2>1. /\ stop.pc = "idle" /\ stop'.client = mqtt /\ stop'.pc = "clearing"
        /\ UNCHANGED <<shown, lost, hl, mqtt, clients, failed>>
    BY <1>6 DEF BeginStop, connection
  <2>2. ASSUME mqtt = 0, NEW h \in Selections
        PROVE  hl[h].pc = "idle"
    <3>1. clients = 0
      BY <2>1, <2>2 DEF Healthy
    <3>2. hl[h].client <= 0 /\ hl[h].client \in Nat
      BY <3>1 DEF IInv, Types, Works, Work
    <3>3. QED
      BY <3>2 DEF IInv, Types, Works
  <2>3. QED
    BY <2>1, <2>2 DEF Healthy
<1>7. CASE StopCancel
  <2>1. stop.pc = "clearing" /\ registry # <<>> /\ UNCHANGED connection /\ shown' = shown
    BY <1>7 DEF StopCancel
  <2>2. failed = {}
    BY <2>1 DEF connection
  <2>3. hl[Head(registry)].pc # "idle" /\ Head(registry) \in Selections
    BY <2>1, HeadIsFirst DEF IInv, Types, Queues, TasksAreTracked, RegistryIsExact
  <2>4. stop.client # 0
    BY <2>1, <2>2, <2>3 DEF Healthy
  <2>5. lost' = lost /\ stop'.pc = "clearing" /\ stop'.client = stop.client
    BY <1>7, <2>1, <2>4 DEF StopCancel, IInv, Types, Ending
  <2>6. QED
    BY <2>1, <2>2, <2>4, <2>5 DEF Healthy, connection
<1>8. CASE StopClearCube
  <2>1. PICK c \in stop.todo : Publish(stop.client, c, Ambient)
                              /\ stop' = [stop EXCEPT !.todo = stop.todo \ {c}]
    BY <1>8 DEF StopClearCube
  <2>2. c \in Cubes /\ hl' = hl /\ stop'.pc = stop.pc /\ stop'.client = stop.client
    BY <1>8, <2>1 DEF StopClearCube, IInv, Types, Ending
  <2>3. Delivered(c, Ambient) /\ UNCHANGED connection
    BY <2>1, PublishedHealthy
  <2>4. \A d \in lost', k \in Selections : shown'[d] # k
    BY <2>2, <2>3, DeliveredHealthy DEF Healthy, connection
  <2>5. QED
    BY <2>2, <2>3, <2>4 DEF Healthy, connection
<1>9. CASE StopRelease \/ End
  <2>1. /\ UNCHANGED <<shown, lost, clients, failed>>
        /\ \/ stop'.pc = "ending" /\ mqtt' = mqtt /\ stop.pc = "clearing"
           \/ stop'.pc = "ended"
    BY <1>9 DEF StopRelease, End, connection, IInv, Types, Ending
  <2>2. QED
    BY <2>1 DEF Healthy
<1>10. CASE UNCHANGED vars
  BY <1>10 DEF vars, connection, Healthy
<1>11. QED
  BY <1>1, <1>2, <1>3, <1>4, <1>5, <1>6, <1>7, <1>8, <1>9, <1>10 DEF Next, Stopping

\* Whatever a cube shows has somebody to revert it, unless it is lost; and what
\* a selection lit is lost only if a connection has failed, whichever diagnostics
\* (run_diagnostic) and startups (publish_ambient) failed to publish.
THEOREM StrandedCorrect == Spec => []NothingStranded
<1>1. IInv /\ Healthy => NothingStranded
  <2> SUFFICES ASSUME IInv, Healthy, NEW c \in Cubes
               PROVE  /\ \A h \in Selections :
                            shown[c] = h => Pending(h, c) \/ (c \in lost /\ failed # {})
                      /\ \A s \in Sweeps : shown[c] = s => sweep[s].pc # "idle" \/ c \in lost
                      /\ shown[c] = Left => sweep[Boot].pc # "idle" \/ c \in lost
    BY DEF NothingStranded
  <2>1. ASSUME NEW h \in Selections, shown[c] = h, ~(c \in lost /\ failed # {})
        PROVE  Pending(h, c)
    <3>0. c \notin lost
      BY <2>1 DEF Healthy
    <3>1. Kept(c, h)
      BY <2>1, <3>0 DEF IInv, Lit, LitByHighlights
    <3>2. hl[h].pc \in {"sleeping", "due", "reverting"} => Contains(registry, h)
      BY DEF IInv, TasksAreTracked, RegistryIsExact
    <3>3. QED
      BY <3>1, <3>2 DEF Kept, Pending
  <2>2. \A s \in Sweeps : shown[c] = s => sweep[s].pc # "idle" \/ c \in lost
    BY DEF IInv, Lit, LitBySweeps, Swept
  <2>3. shown[c] = Left => sweep[Boot].pc # "idle" \/ c \in lost
    BY DEF IInv, Lit, LitBefore, Covered
  <2>4. QED
    BY <2>1, <2>2, <2>3
<1>2. Init => Healthy
  BY HighlightAssumption DEF Init, Healthy, NoTask
<1>3. IInv /\ Healthy /\ [Next]_vars => Healthy'
  BY HealthyStep
<1>4. QED
  BY <1>1, <1>2, <1>3, InvariantCorrect, PTL DEF Spec

\* Only registering a selection lets its lit task sleep.
LEMMA OnlyRegister ==
    ASSUME IInv, Next, NEW h \in Selections, hl[h].pc = "lighting", hl'[h].pc = "sleeping"
    PROVE  Register(h)
<1>1. ~UNCHANGED hl
  OBVIOUS
<1>2. hl \in [Selections -> Work] /\ \A k \in Selections : hl[k] \in Work
  BY DEF IInv, Types, Works
<1>3. lock # <<>> /\ Head(lock) = h /\ stop.pc \notin {"ending", "ended"} /\ stop.todo = {}
  BY HighlightAssumption DEF IInv, TasksAreTracked, LockIsHandedOn, Ranked, Holds
<1>4. \A k \in Selections \ {h} : hl[k].pc \notin {"clearing", "lighting", "reverting"}
  BY <1>3 DEF IInv, TasksAreTracked, LockIsHandedOn, Holds
<1>5. ~(Connect \/ LoseConnection \/ Disconnect \/ BeginStop \/ StopClearCube \/ StopRelease \/ End)
  BY <1>1, <1>3 DEF Connect, LoseConnection, Disconnect, BeginStop, StopClearCube, StopRelease, End
<1>6. ~StopCancel
  BY <1>3, HighlightAssumption DEF StopCancel, Holds
<1>7. \A s \in Sweeps \cup {Boot} : ~Sweep(s) /\ ~StartSweep(s, "off") /\ ~StartSweep(s, "cycling")
  BY <1>1 DEF Sweep, StartSweep, SweepCube, Capture, EndCapture, PublishAmbient, Restore,
            StartCapture, Abort
<1>8. ASSUME NEW k \in Selections, NEW cubes \in Answers
      PROVE  ~Illuminate(k, cubes)
  BY <1>2 DEF Illuminate
<1>9. ASSUME NEW k \in Selections, k # h
      PROVE  ~Lifecycle(k)
  <2>1. ~Begin(k) /\ ~BeginRevert(k)
    BY <1>3, <1>9 DEF Begin, BeginRevert, Holds
  <2>2. /\ ~ClearCube(k) /\ ~Continue(k) /\ ~LightCube(k)
        /\ ~Register(k) /\ ~RevertCube(k) /\ ~EndRevert(k)
    BY <1>4, <1>9 DEF ClearCube, Continue, LightCube, Register, RevertCube, EndRevert
  <2>3. ~TimeToLive(k)
    BY <1>2, <1>9 DEF TimeToLive
  <2>4. QED
    BY <2>1, <2>2, <2>3 DEF Lifecycle
<1>10. ~LightCube(h)
  <2>1. ASSUME NEW c \in hl[h].todo, hl' = [hl EXCEPT ![h] = [@ EXCEPT !.todo = hl[h].todo \ {c}]]
        PROVE  hl'[h].pc = "lighting"
    BY <1>2, <2>1 DEF Work
  <2>2. QED
    BY <2>1 DEF LightCube
<1>11. Lifecycle(h) => Register(h)
  BY <1>10 DEF Lifecycle, Begin, ClearCube, Continue, TimeToLive, BeginRevert, RevertCube, EndRevert
<1>12. QED
  BY <1>5, <1>6, <1>7, <1>8, <1>9, <1>11 DEF Next, Stopping

\* When a selection that retains nothing is lit, no other has a timer, and no
\* cube shows another unless its reversion failed: illuminate_with_lifecycle
\* cancels and reverts, under the lock, whatever is registered.
THEOREM OneSelectionCorrect == Spec => OneSelection
<1> DEFINE Only(h) == /\ registry' = <<h>>
                      /\ \A c \in Cubes, e \in Selections \ {h} : shown[c] = e => c \in lost
<1>1. ASSUME IInv, Next, NEW h \in Selections, hl[h].room = 0,
             hl[h].pc = "lighting", hl'[h].pc = "sleeping"
      PROVE  Only(h)
  <2>1. Register(h)
    BY <1>1, OnlyRegister
  <2>2. lock # <<>> /\ Head(lock) = h /\ stop.pc \notin {"ending", "ended"} /\ stop.todo = {}
    BY <1>1, HighlightAssumption DEF IInv, TasksAreTracked, LockIsHandedOn, Ranked, Holds
  <2>3. registry = <<>>
    <3>1. Len(registry) <= 0 /\ registry \in Seq(Selections)
      BY <1>1 DEF IInv, Ranked, Types, Queues
    <3>2. QED
      BY <3>1
  <2>4. registry' = <<h>>
    BY <2>1, <2>3 DEF Register
  <2>5. ASSUME NEW c \in Cubes \ lost, NEW e \in Selections \ {h}, shown[c] = e
        PROVE  FALSE
    <3>1. Kept(c, e)
      BY <1>1, <2>5 DEF IInv, Lit, LitByHighlights
    <3>2. hl[e].pc \notin {"sleeping", "due", "reverting"}
      BY <1>1, <2>3, Empty DEF IInv, TasksAreTracked, RegistryIsExact
    <3>3. \A k \in Selections : hl[k].pc \notin {"clearing", "cut"}
      BY <1>1, <2>2 DEF IInv, TasksAreTracked, LockIsHandedOn, Ranked, Holds
    <3>4. hl[e].pc # "lighting"
      BY <1>1, <2>2, <2>5 DEF IInv, TasksAreTracked, LockIsHandedOn, Holds
    <3>5. QED
      BY <2>2, <3>1, <3>2, <3>3, <3>4 DEF Kept
  <2>6. QED
    BY <2>4, <2>5
<1>2. IInv /\ [Next]_vars =>
        [\A h \in Selections : hl[h].room = 0 /\ hl[h].pc = "lighting" /\ hl'[h].pc = "sleeping"
            => /\ registry' = <<h>>
               /\ \A c \in Cubes, e \in Selections \ {h} :
                     shown[c] = e => c \in lost]_vars
  <2> SUFFICES ASSUME IInv, Next
               PROVE  \A h \in Selections :
                         hl[h].room = 0 /\ hl[h].pc = "lighting" /\ hl'[h].pc = "sleeping" => Only(h)
    OBVIOUS
  <2>1. QED
    BY <1>1
<1>3. QED
  BY <1>2, InvariantCorrect, PTL DEF Spec, OneSelection
=============================================================================

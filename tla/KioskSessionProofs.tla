-------------------------- MODULE KioskSessionProofs --------------------------
(***************************************************************************)
(* Theorems of DevicePairing, alone and under the kiosks, streams and      *)
(* restarts of KioskSession, for any number of kiosks, profiles, codes,    *)
(* requests and rows.                                                      *)
(***************************************************************************)
EXTENDS KioskSession, FiniteSetTheorems, TLAPS

\* A bind holds its code, which is of its kiosk, and its profile, which is
\* not deleted meanwhile.
Sound(w) ==
    /\ w.code # None => w.pc \in Binding
    /\ w.pc \in Binding =>
          /\ w.code \in Codes /\ w.profile \in active /\ w.print \in Prints
          /\ codes[w.code] # None /\ codes[w.code].print = w.print
    /\ w.pc = "patch" => w.row \in Rows
    /\ w.pc = "publish" => w.event \in Events

\* No two binds hold one code.
Apart(w, v) == w.code # None => v.code # w.code

\* A revocation is numbered by a request that has been made.
Dated == \A r \in Rows : devices[r] # None => devices[r].revoked <= changes

Requesting ==
    /\ \A q \in Requests : Sound(req[q])
    /\ \A q, r \in Requests : q # r => Apart(req[q], req[r])

PairingInv == PairingTypeOK /\ RowsOfActiveProfiles /\ Dated /\ Requesting

-----------------------------------------------------------------------------
(* Greatest and least elements.                                            *)

\* A finite set of integers that is not empty has a greatest element.
LEMMA MaximumExists ==
    ASSUME NEW S, IsFiniteSet(S), S \subseteq Int, S # {}
    PROVE  \E m \in S : \A n \in S : m >= n
<1> DEFINE Bounded(T) == \E m \in T : \A n \in T : m >= n
           Bad == {T \in FiniteSubsetsOf(S) : T # {} /\ ~Bounded(T)}
<1>1. SUFFICES ASSUME ~Bounded(S)
               PROVE  FALSE
  OBVIOUS
<1>2. S \in Bad
  BY <1>1 DEF FiniteSubsetsOf
<1>3. PICK T \in Bad :
         \A U \in Bad : <<U, T>> \notin StrictSubsetOrdering(S)
  <2>1. Bad \subseteq FiniteSubsetsOf(S) /\ Bad # {}
    BY <1>2
  <2> HIDE DEF Bad
  <2>2. QED
    BY <2>1, FS_StrictSubsetOrderingWellFounded, WFMin
<1>4. PICK x \in T : TRUE
  OBVIOUS
<1>5. T \ {x} \in FiniteSubsetsOf(S) /\ T \in SUBSET S
  BY FS_RemoveElement DEF FiniteSubsetsOf
<1>6. T \ {x} \notin Bad
  <2>1. <<T \ {x}, T>> \in StrictSubsetOrdering(S)
    BY <1>4, <1>5 DEF StrictSubsetOrdering
  <2>2. QED
    BY <1>3, <2>1
<1>7. ~Bounded(T)
  OBVIOUS
<1>8. CASE T \ {x} = {}
  BY <1>4, <1>5, <1>7, <1>8
<1>9. CASE Bounded(T \ {x})
  <2>1. PICK m \in T \ {x} : \A n \in T \ {x} : m >= n
    BY <1>9
  <2>2. T \subseteq Int
    BY <1>5
  <2>3. CASE m >= x
    BY <1>4, <1>7, <2>1, <2>2, <2>3
  <2>4. CASE x >= m
    BY <1>4, <1>7, <2>1, <2>2, <2>4
  <2>5. QED
    BY <1>4, <2>1, <2>2, <2>3, <2>4
<1>10. QED
  BY <1>5, <1>6, <1>8, <1>9

LEMMA MaxIsGreatest ==
    ASSUME NEW S, IsFiniteSet(S), S \subseteq Int, S # {}
    PROVE  Max(S) \in S /\ \A n \in S : Max(S) >= n
BY MaximumExists DEF Max

-----------------------------------------------------------------------------
(* The rows of a fingerprint.                                              *)

LEMMA RowsAreFinite ==
    ASSUME NEW S \in SUBSET Rows, S # {}
    PROVE  Max(S) \in S
<1>1. IsFiniteSet(Rows) /\ Rows \subseteq Int
  BY PairingAssumption, FS_Interval DEF Rows
<1>2. IsFiniteSet(S) /\ S \subseteq Int
  BY <1>1, FS_Subset
<1>3. QED
  BY <1>2, MaxIsGreatest

\* The active row of a fingerprint decides what its kiosk is served.
LEMMA LiveRowServes ==
    ASSUME Unique(devices)', NEW r \in Rows, Live(r)', NEW f, f = devices'[r].print
    PROVE  Resolved(f)' = devices'[r].profile
<1>1. LiveRowsOf(f)' = {r}
  BY DEF Unique, Live, LiveRowsOf, RowsOf
<1>2. Max({r}) = r
  BY RowsAreFinite
<1>3. DeviceRow(f)' = r
  BY <1>1, <1>2 DEF DeviceRow
<1>4. r \in RowsOf(f)'
  BY <1>1 DEF LiveRowsOf
<1>5. QED
  BY <1>3, <1>4 DEF Resolved

\* Without an active row it is refused.
LEMMA RevokedRowsRefuse ==
    ASSUME NEW f, RowsOf(f)' # {}, LiveRowsOf(f)' = {}
    PROVE  Resolved(f)' = "revoked"
<1>1. DeviceRow(f)' = Max(RowsOf(f)')
  BY DEF DeviceRow
<1>2. RowsOf(f)' \in SUBSET Rows
  BY DEF RowsOf
<1>3. DeviceRow(f)' \in RowsOf(f)'
  BY <1>1, <1>2, RowsAreFinite
<1>4. ~Live(DeviceRow(f))'
  BY <1>3 DEF LiveRowsOf, RowsOf, Live
<1>5. QED
  BY <1>4 DEF Resolved

LEMMA NextRevokedType ==
    ASSUME PairingTypeOK, Dated
    PROVE  NextRevoked \in Nat /\ NextRevoked >= 1 /\ NextRevoked <= changes + 1
<1> DEFINE times == {devices[r].revoked : r \in {x \in Rows : devices[x] # None}}
<1>1. \A t \in times : t \in 0..changes
  BY DEF PairingTypeOK, Dated, Row
<1>2. changes \in Nat /\ {0} \cup times \in SUBSET (0..changes)
  BY <1>1, PairingAssumption DEF PairingTypeOK
<1> HIDE DEF times
<1>3. IsFiniteSet(0..changes)
  BY <1>2, FS_Interval
<1>4. IsFiniteSet({0} \cup times) /\ {0} \cup times \subseteq Int
  BY <1>2, <1>3, FS_Subset
<1>5. Max({0} \cup times) \in {0} \cup times
  BY <1>4, MaxIsGreatest
<1>6. Max({0} \cup times) \in 0..changes
  BY <1>2, <1>5
<1>7. NextRevoked = 1 + Max({0} \cup times)
  BY DEF NextRevoked, times
<1>8. QED
  BY <1>2, <1>6, <1>7

LEMMA IdleIsWork == Idle \in Work /\ Idle.pc = "idle" /\ Idle.code = None
BY PairingAssumption DEF Idle, Work, Owner

-----------------------------------------------------------------------------
(* A step of one request: what the others hold still stands.               *)

LEMMA RequestStep ==
    ASSUME PairingInv, NEW q \in Requests, NEW work \in Work,
           req' = [req EXCEPT ![q] = work],
           (PairingTypeOK /\ RowsOfActiveProfiles /\ Dated)',
           \A r \in Requests \ {q} : req[r].code # None =>
              /\ req[r].profile \in active'
              /\ codes'[req[r].code] # None
              /\ codes'[req[r].code].print = codes[req[r].code].print,
           Sound(work)',
           \A r \in Requests \ {q} : Apart(work, req[r]) /\ Apart(req[r], work)
    PROVE  PairingInv'
<1>1. req \in [Requests -> Work]
  BY DEF PairingInv, PairingTypeOK
<1>2. \A r \in Requests : req'[r] = IF r = q THEN work ELSE req[r]
  BY <1>1
<1>3. ASSUME NEW r \in Requests
      PROVE  Sound(req[r])'
  <2>1. CASE r = q
    <3>1. req'[r] = work
      BY <1>2, <2>1
    <3>2. QED
      BY <3>1 DEF Sound
  <2>2. CASE r # q
    <3>1. req'[r] = req[r] /\ Sound(req[r])
      BY <1>2, <2>2 DEF PairingInv, Requesting
    <3>2. req[r].pc \in Binding => req[r].code # None
      BY <3>1, PairingAssumption DEF Sound
    <3>3. QED
      BY <2>2, <3>1, <3>2 DEF Sound
  <2>3. QED
    BY <2>1, <2>2
<1>4. ASSUME NEW r \in Requests, NEW s \in Requests, r # s
      PROVE  Apart(req[r], req[s])'
  BY <1>2, <1>4 DEF PairingInv, Requesting, Apart
<1>5. QED
  BY <1>3, <1>4 DEF PairingInv, Requesting

\* A request that writes nothing but what it has read.
LEMMA ReadingStep ==
    ASSUME PairingInv, NEW q \in Requests, NEW work \in Work,
           req' = [req EXCEPT ![q] = work],
           UNCHANGED <<active, devices, codes, print, issued>>,
           changes' \in 0..MaxChanges, changes' >= changes,
           Sound(work),
           \A r \in Requests \ {q} : Apart(work, req[r]) /\ Apart(req[r], work)
    PROVE  PairingInv'
<1>1. (PairingTypeOK /\ RowsOfActiveProfiles)'
  BY DEF PairingInv, PairingTypeOK, RowsOfActiveProfiles, Unique
<1>2. Dated'
  BY PairingAssumption DEF PairingInv, PairingTypeOK, Dated, Row
<1>3. Sound(work)'
  BY DEF Sound
<1>4. \A r \in Requests \ {q} : req[r].code # None =>
         /\ req[r].profile \in active'
         /\ codes'[req[r].code] # None
         /\ codes'[req[r].code].print = codes[req[r].code].print
  BY DEF PairingInv, Requesting, Sound
<1>5. QED
  BY <1>1, <1>2, <1>3, <1>4, RequestStep

\* A request that is answered, whatever it has written.
LEMMA AnsweringStep ==
    ASSUME PairingInv, NEW q \in Requests, NEW work \in Work,
           work.code = None, work.pc \in {"idle", "publish"},
           work.pc = "publish" => work.event \in Events,
           req' = [req EXCEPT ![q] = work],
           (PairingTypeOK /\ RowsOfActiveProfiles /\ Dated)',
           \A r \in Requests \ {q} : req[r].code # None =>
              /\ req[r].profile \in active'
              /\ codes'[req[r].code] # None
              /\ codes'[req[r].code].print = codes[req[r].code].print
    PROVE  PairingInv'
<1>1. Sound(work)'
  BY DEF Sound, Binding
<1>2. \A r \in Requests \ {q} : Apart(work, req[r]) /\ Apart(req[r], work)
  BY DEF Apart
<1>3. QED
  BY <1>1, <1>2, RequestStep

-----------------------------------------------------------------------------
(* bind_device.                                                            *)

LEMMA StartBindStep ==
    ASSUME PairingInv, NEW q \in Requests, NEW c \in Codes, NEW p \in Profiles,
           StartBind(q, c, p)
    PROVE  PairingInv'
<1> DEFINE next == [Idle EXCEPT !.pc = "fingerprint", !.code = c,
                         !.print = codes[c].print, !.profile = p]
<1>1. codes[c] \in Code /\ codes[c].print \in Prints /\ p \in active
  BY DEF StartBind, PairingInv, PairingTypeOK, Code
<1>2. next \in Work
  <2>1. codes[c].print \in 0..MaxPrints
    BY <1>1, PairingAssumption DEF Prints
  <2>2. QED
    BY <2>1, IdleIsWork DEF Work, Steps, Binding, Owner
<1>3. next.pc = "fingerprint" /\ next.code = c /\ next.print = codes[c].print /\ next.profile = p
  BY DEF Idle
<1>4. req' = [req EXCEPT ![q] = next]
  BY DEF StartBind
<1> HIDE DEF next
<1>5. Sound(next)
  BY <1>1, <1>3 DEF Sound, StartBind, Binding
<1>6. \A r \in Requests \ {q} : Apart(next, req[r]) /\ Apart(req[r], next)
  BY <1>3 DEF StartBind, Locked, Apart
<1>7. changes' \in 0..MaxChanges /\ changes' >= changes
  BY PairingAssumption DEF StartBind, Start, PairingInv, PairingTypeOK
<1>8. UNCHANGED <<active, devices, codes, print, issued>>
  BY DEF StartBind
<1>9. QED
  BY <1>2, <1>4, <1>5, <1>6, <1>7, <1>8, ReadingStep

\* The next statement of a bind.
LEMMA BindGotoStep ==
    ASSUME PairingInv, NEW q \in Requests, NEW pc \in Binding,
           req[q].pc \in Binding, Goto(q, pc)
    PROVE  PairingInv'
<1> DEFINE next == [req[q] EXCEPT !.pc = pc]
<1>1. req \in [Requests -> Work] /\ req[q] \in Work /\ Sound(req[q])
  BY DEF PairingInv, PairingTypeOK, Requesting
<1>2. /\ next \in Work /\ next.pc = pc /\ next.code = req[q].code
      /\ next.print = req[q].print /\ next.profile = req[q].profile
  BY <1>1 DEF Work, Steps
<1>3. req' = [req EXCEPT ![q] = next]
  BY DEF Goto
<1> HIDE DEF next
<1>4. Sound(next)
  BY <1>1, <1>2 DEF Sound, Binding
<1>5. \A r \in Requests \ {q} : Apart(next, req[r]) /\ Apart(req[r], next)
  BY <1>2 DEF PairingInv, Requesting, Apart
<1>6. /\ changes' \in 0..MaxChanges /\ changes' >= changes
      /\ UNCHANGED <<active, devices, codes, print, issued>>
  BY PairingAssumption DEF Goto, PairingInv, PairingTypeOK
<1>7. QED
  BY <1>2, <1>3, <1>4, <1>5, <1>6, ReadingStep

\* A row given the profile of the bind, or inserted with it.
LEMMA CommitStep ==
    ASSUME PairingInv, NEW q \in Requests, req[q].pc \in Binding,
           NEW r \in Rows, NEW row \in Row,
           row.profile = req[q].profile, row.revoked = 0,
           Commit(q, [devices EXCEPT ![r] = row])
    PROVE  PairingInv'
<1> DEFINE table == [devices EXCEPT ![r] = row]
           c == req[q].code
<1>1. /\ devices \in [Rows -> Row \cup {None}] /\ codes \in [Codes -> Code \cup {None}]
      /\ Sound(req[q]) /\ c \in Codes /\ req[q].profile \in active
      /\ codes[c] \in Code /\ Unique(devices)
  BY DEF PairingInv, PairingTypeOK, Requesting, Sound
<1>2. devices' \in {devices, table} /\ Unique(devices')
  BY <1>1 DEF Commit
<1>3. table \in [Rows -> Row \cup {None}]
  BY <1>1
<1>4. /\ codes' \in [Codes -> Code \cup {None}]
      /\ \A d \in Codes : codes[d] # None =>
            codes'[d] # None /\ codes'[d].print = codes[d].print
  <2>1. CASE UNCHANGED codes
    BY <1>1, <2>1
  <2>2. CASE codes' = [codes EXCEPT ![c].state = "consumed"]
    <3>1. codes'[c] \in Code /\ codes'[c].print = codes[c].print
      BY <1>1, <2>2 DEF Code
    <3>2. \A d \in Codes : d # c => codes'[d] = codes[d]
      BY <1>1, <2>2
    <3>3. codes' \in [Codes -> Code \cup {None}]
      BY <1>1, <2>2, <3>1, <3>2
    <3>4. QED
      BY <3>1, <3>2, <3>3, NoneAssumption
  <2>3. QED
    BY <2>1, <2>2 DEF Commit
<1>5. PairingTypeOK'
  BY <1>2, <1>3, <1>4, IdleIsWork DEF PairingInv, PairingTypeOK, Commit
<1>6. \A s \in Rows : table[s] = IF s = r THEN row ELSE devices[s]
  BY <1>1
<1> HIDE DEF table
<1>7. RowsOfActiveProfiles'
  BY <1>1, <1>2, <1>6 DEF PairingInv, RowsOfActiveProfiles, Commit
<1>8. Dated'
  BY <1>2, <1>6, PairingAssumption DEF PairingInv, PairingTypeOK, Dated, Commit
<1>9. \A s \in Requests \ {q} : req[s].code # None =>
         /\ req[s].profile \in active'
         /\ codes'[req[s].code] # None
         /\ codes'[req[s].code].print = codes[req[s].code].print
  BY <1>4 DEF PairingInv, Requesting, Sound, Commit
<1>10. req' = [req EXCEPT ![q] = Idle]
  BY DEF Commit
<1>11. QED
  BY <1>5, <1>7, <1>8, <1>9, <1>10, IdleIsWork, AnsweringStep

\* Whichever row the bind comes by, it writes one that is active, of its
\* kiosk, with its profile; or it goes on to the next statement.
Writes(q) ==
    \E r \in Rows, row \in Row :
        /\ row.print = req[q].print /\ row.profile = req[q].profile /\ row.revoked = 0
        /\ Commit(q, [devices EXCEPT ![r] = row])

Statement(q) ==
    UpdateByFingerprint(q) \/ ReactivateByFingerprint(q) \/ UpdateByProfile(q) \/ InsertDevice(q)

LEMMA StatementWrites ==
    ASSUME PairingInv, NEW q \in Requests, Statement(q)
    PROVE  /\ req[q].pc \in Binding
           /\ Writes(q) \/ \E pc \in Binding : Goto(q, pc)
<1> USE DEF Binding
<1>1. /\ req[q].pc \in Binding
      /\ req[q].print \in Prints /\ req[q].profile \in Owner
      /\ devices \in [Rows -> Row \cup {None}]
  <2>1. req[q].pc \in Binding
    BY DEF Statement, UpdateByFingerprint, ReactivateByFingerprint, UpdateByProfile, InsertDevice
  <2>2. Sound(req[q]) /\ req[q] \in Work /\ devices \in [Rows -> Row \cup {None}]
    BY DEF PairingInv, PairingTypeOK, Requesting
  <2>3. QED
    BY <2>1, <2>2 DEF Sound, Work
<1>2. CASE UpdateByFingerprint(q)
  <2> DEFINE f == req[q].print
             r == DeviceRow(f)
             row == [devices[r] EXCEPT !.profile = req[q].profile]
  <2>1. CASE LiveRowsOf(f) = {}
    BY <1>2, <2>1 DEF UpdateByFingerprint
  <2>2. CASE LiveRowsOf(f) # {}
    <3>1. r \in LiveRowsOf(f) /\ r \in Rows
      BY <2>2, RowsAreFinite DEF DeviceRow, LiveRowsOf, RowsOf
    <3>2. devices[r] \in Row /\ devices[r].print = f /\ devices[r].revoked = 0
      BY <1>1, <3>1 DEF LiveRowsOf, RowsOf, Live
    <3>3. /\ row \in Row /\ row.print = f /\ row.profile = req[q].profile
          /\ row.revoked = 0
      BY <1>1, <3>2 DEF Row
    <3>4. Commit(q, [devices EXCEPT ![r] = row])
      BY <1>2, <2>2 DEF UpdateByFingerprint
    <3> HIDE DEF row, r
    <3>5. QED
      BY <1>1, <3>1, <3>3, <3>4 DEF Writes
  <2>3. QED
    BY <2>1, <2>2
<1>3. CASE ReactivateByFingerprint(q)
  <2> DEFINE mine == RevokedRowsOf(req[q].print)
  <2>1. CASE mine = {}
    BY <1>3, <2>1 DEF ReactivateByFingerprint
  <2>2. CASE mine # {}
    <3>1. PICK r \in mine :
             Commit(q, [devices EXCEPT ![r] =
                           [@ EXCEPT !.profile = req[q].profile, !.revoked = 0]])
      BY <1>3, <2>2 DEF ReactivateByFingerprint
    <3> DEFINE row == [devices[r] EXCEPT !.profile = req[q].profile, !.revoked = 0]
    <3>2. r \in Rows /\ devices[r] \in Row /\ devices[r].print = req[q].print
      BY <1>1 DEF RevokedRowsOf, RowsOf
    <3>3. 0 \in 0..MaxChanges
      BY PairingAssumption
    <3>4. /\ row \in Row /\ row.print = req[q].print
          /\ row.profile = req[q].profile /\ row.revoked = 0
      BY <1>1, <3>2, <3>3 DEF Row
    <3>5. Commit(q, [devices EXCEPT ![r] = row])
      BY <3>1
    <3> HIDE DEF row
    <3>6. QED
      BY <1>1, <3>2, <3>4, <3>5 DEF Writes
  <2>3. QED
    BY <2>1, <2>2
<1>4. CASE UpdateByProfile(q)
  <2> DEFINE held == {r \in Rows : Live(r) /\ devices[r].profile = req[q].profile}
             r == Max(held)
             row == [devices[r] EXCEPT !.print = req[q].print]
  <2>1. CASE held = {}
    BY <1>4, <2>1 DEF UpdateByProfile
  <2>2. CASE held # {}
    <3>1. r \in held
      BY <2>2, RowsAreFinite
    <3>2. /\ r \in Rows /\ devices[r] \in Row /\ devices[r].profile = req[q].profile
          /\ devices[r].revoked = 0
      BY <1>1, <3>1 DEF Live
    <3>3. /\ row \in Row /\ row.print = req[q].print /\ row.profile = req[q].profile
          /\ row.revoked = 0
      BY <1>1, <3>2 DEF Row
    <3>4. Commit(q, [devices EXCEPT ![r] = row])
      BY <1>4, <2>2 DEF UpdateByProfile
    <3> HIDE DEF row, r
    <3>5. QED
      BY <1>1, <3>2, <3>3, <3>4 DEF Writes
  <2>3. QED
    BY <2>1, <2>2
<1>5. CASE InsertDevice(q)
  <2> DEFINE row == [print |-> req[q].print, profile |-> req[q].profile, revoked |-> 0]
  <2>1. PICK r \in FreshRow : Commit(q, [devices EXCEPT ![r] = row])
    BY <1>5 DEF InsertDevice
  <2>2. r \in Rows /\ row \in Row
    BY <1>1, PairingAssumption DEF FreshRow, Row
  <2>3. QED
    BY <1>1, <2>1, <2>2 DEF Writes
<1>6. QED
  BY <1>1, <1>2, <1>3, <1>4, <1>5 DEF Statement

LEMMA StatementStep ==
    ASSUME PairingInv, NEW q \in Requests, Statement(q)
    PROVE  PairingInv'
<1>1. req[q].pc \in Binding /\ (Writes(q) \/ \E pc \in Binding : Goto(q, pc))
  BY StatementWrites
<1>2. CASE Writes(q)
  <2>1. PICK r \in Rows, row \in Row :
           /\ row.profile = req[q].profile /\ row.revoked = 0
           /\ Commit(q, [devices EXCEPT ![r] = row])
    BY <1>2 DEF Writes
  <2>2. QED
    BY <1>1, <2>1, CommitStep
<1>3. QED
  BY <1>1, <1>2, BindGotoStep

\* A request that writes nothing and is answered.
LEMMA EndStep ==
    ASSUME PairingInv, NEW q \in Requests, req' = [req EXCEPT ![q] = Idle],
           UNCHANGED <<active, devices, codes, print, issued, changes>>
    PROVE  PairingInv'
<1>1. Sound(Idle)
  BY IdleIsWork DEF Sound, Binding
<1>2. \A r \in Requests \ {q} : Apart(Idle, req[r]) /\ Apart(req[r], Idle)
  BY IdleIsWork DEF Apart
<1>3. changes' \in 0..MaxChanges /\ changes' >= changes
  BY PairingAssumption DEF PairingInv, PairingTypeOK
<1>4. QED
  BY <1>1, <1>2, <1>3, IdleIsWork, ReadingStep

-----------------------------------------------------------------------------
(* The admin's other requests.                                             *)

LEMMA ToldIsWork ==
    ASSUME NEW event \in {"reassigned", "revoked"}, NEW p \in Owner
    PROVE  LET work == Told(event, p)
           IN /\ work \in Work /\ work.code = None /\ work.pc \in {"idle", "publish"}
              /\ work.pc = "publish" => work.event \in Events
BY IdleIsWork DEF Told, Idle, Work, Steps, Events

LEMMA ReadDeviceStep ==
    ASSUME PairingInv, NEW q \in Requests, NEW r \in Rows, ReadDevice(q, r)
    PROVE  PairingInv'
<1> DEFINE next == [Idle EXCEPT !.pc = "patch", !.row = r, !.profile = devices[r].profile]
<1>1. devices[r] \in Row /\ r \in 0..MaxRows
  BY PairingAssumption DEF ReadDevice, PairingInv, PairingTypeOK, Rows
<1>2. next \in Work /\ next.pc = "patch" /\ next.row = r /\ next.code = None
  BY <1>1, IdleIsWork DEF Work, Steps, Row, Idle
<1>3. /\ req' = [req EXCEPT ![q] = next]
      /\ UNCHANGED <<active, devices, codes, print, issued>>
      /\ changes' \in 0..MaxChanges /\ changes' >= changes
  BY PairingAssumption DEF ReadDevice, Start, PairingInv, PairingTypeOK
<1> HIDE DEF next
<1>4. Sound(next)
  BY <1>2 DEF Sound, Binding
<1>5. \A s \in Requests \ {q} : Apart(next, req[s]) /\ Apart(req[s], next)
  BY <1>2 DEF Apart
<1>6. QED
  BY <1>2, <1>3, <1>4, <1>5, ReadingStep

\* Steps that write rows of devices, one row at a time, and no code.
LEMMA WriteRowStep ==
    ASSUME PairingInv, NEW q \in Requests, NEW work \in Work,
           work.code = None, work.pc \in {"idle", "publish"},
           work.pc = "publish" => work.event \in Events,
           req' = [req EXCEPT ![q] = work],
           UNCHANGED <<active, codes, print, issued>>,
           changes' \in 0..MaxChanges, changes' >= changes,
           NEW r \in Rows, NEW row \in Row \cup {None}, devices' = [devices EXCEPT ![r] = row],
           row # None => row.profile \in active \cup {None} /\ row.revoked <= changes',
           Unique(devices')
    PROVE  PairingInv'
<1>1. /\ devices \in [Rows -> Row \cup {None}]
      /\ \A s \in Rows : devices'[s] = IF s = r THEN row ELSE devices[s]
  BY DEF PairingInv, PairingTypeOK
<1>2. devices' \in [Rows -> Row \cup {None}]
  BY <1>1
<1>3. req' \in [Requests -> Work]
  BY DEF PairingInv, PairingTypeOK
<1>4. PairingTypeOK'
  BY <1>2, <1>3 DEF PairingInv, PairingTypeOK
<1>5. RowsOfActiveProfiles'
  BY <1>1 DEF PairingInv, RowsOfActiveProfiles
<1>6. Dated'
  BY <1>1, PairingAssumption DEF PairingInv, PairingTypeOK, Dated, Row
<1>7. \A s \in Requests \ {q} : req[s].code # None =>
         /\ req[s].profile \in active'
         /\ codes'[req[s].code] # None
         /\ codes'[req[s].code].print = codes[req[s].code].print
  BY DEF PairingInv, Requesting, Sound
<1>8. QED
  BY <1>4, <1>5, <1>6, <1>7, AnsweringStep

LEMMA PatchStep ==
    ASSUME PairingInv, NEW q \in Requests, PatchDevice(q)
    PROVE  PairingInv'
<1>1. /\ req[q].pc = "patch" /\ req[q] \in Work /\ req[q].row \in Rows
      /\ devices \in [Rows -> Row \cup {None}]
      /\ UNCHANGED <<active, codes, print, issued, changes>>
      /\ changes' \in 0..MaxChanges /\ changes' >= changes
  BY PairingAssumption DEF PatchDevice, PairingInv, PairingTypeOK, Requesting, Sound
<1> DEFINE r == req[q].row
<1>2. CASE /\ req' = [req EXCEPT ![q] = Idle]
           /\ UNCHANGED devices
  BY <1>1, <1>2, EndStep
<1>3. ASSUME NEW p \in active \cup {None}, devices[r] # None,
             devices' = [devices EXCEPT ![r].profile = p], Unique(devices'),
             req' = [req EXCEPT ![q] = Told("reassigned", req[q].profile)]
      PROVE  PairingInv'
  <2> DEFINE row == [devices[r] EXCEPT !.profile = p]
             work == Told("reassigned", req[q].profile)
  <2>1. devices[r] \in Row /\ p \in Owner /\ devices[r].revoked <= changes
    BY <1>1, <1>3 DEF PairingInv, PairingTypeOK, Dated, Owner
  <2>2. row \in Row /\ row.profile = p /\ row.revoked = devices[r].revoked
    BY <2>1 DEF Row
  <2>3. devices' = [devices EXCEPT ![r] = row]
    BY <1>3
  <2>4. req[q].profile \in Owner
    BY <1>1 DEF Work
  <2>5. /\ work \in Work /\ work.code = None /\ work.pc \in {"idle", "publish"}
        /\ work.pc = "publish" => work.event \in Events
    BY <2>4, ToldIsWork
  <2>6. row.revoked <= changes'
    BY <1>1, <2>1, <2>2
  <2>7. req' = [req EXCEPT ![q] = work]
    BY <1>3
  <2> HIDE DEF row, work
  <2>8. QED
    BY <1>1, <1>3, <2>2, <2>3, <2>5, <2>6, <2>7, WriteRowStep
<1>4. QED
  BY <1>1, <1>2, <1>3 DEF PatchDevice

LEMMA RevokeStep ==
    ASSUME PairingInv, NEW q \in Requests, NEW r \in Rows, RevokeDevice(q, r)
    PROVE  PairingInv'
<1> DEFINE row == [devices[r] EXCEPT !.revoked = NextRevoked]
           work == Told("revoked", devices[r].profile)
<1>1. /\ devices \in [Rows -> Row \cup {None}] /\ devices[r] \in Row
      /\ devices[r].profile \in active \cup {None} /\ devices[r].profile \in Owner
      /\ devices' = [devices EXCEPT ![r] = row] /\ Unique(devices)
      /\ req' = [req EXCEPT ![q] = work]
      /\ UNCHANGED <<active, codes, print, issued>>
  BY DEF RevokeDevice, Live, PairingInv, PairingTypeOK, RowsOfActiveProfiles, Row
<1>2. /\ changes' = changes + 1 /\ changes \in Nat
      /\ changes' \in 0..MaxChanges /\ changes' >= changes
  BY PairingAssumption DEF RevokeDevice, Start, PairingInv, PairingTypeOK
<1>3. NextRevoked \in 0..MaxChanges /\ NextRevoked >= 1 /\ NextRevoked <= changes'
  BY <1>2, PairingAssumption, NextRevokedType DEF PairingInv
<1>4. /\ row \in Row /\ row.profile = devices[r].profile /\ row.revoked = NextRevoked
  BY <1>1, <1>3 DEF Row
<1>5. /\ work \in Work /\ work.code = None /\ work.pc \in {"idle", "publish"}
      /\ work.pc = "publish" => work.event \in Events
  BY <1>1, ToldIsWork
<1> HIDE DEF row, work
<1>6. Unique(devices')
  <2>1. \A s \in Rows : devices'[s] = IF s = r THEN row ELSE devices[s]
    BY <1>1
  <2>2. row.revoked # 0
    BY <1>3, <1>4
  <2>3. QED
    BY <1>1, <2>1, <2>2 DEF Unique
<1>7. QED
  BY <1>1, <1>2, <1>3, <1>4, <1>5, <1>6, WriteRowStep

LEMMA ReinstateStep ==
    ASSUME PairingInv, NEW q \in Requests, NEW r \in Rows, ReinstateDevice(q, r)
    PROVE  PairingInv'
<1> DEFINE row == [devices[r] EXCEPT !.revoked = 0]
<1>1. /\ devices[r] \in Row /\ devices[r].profile \in active \cup {None}
      /\ devices' = [devices EXCEPT ![r] = row] /\ Unique(devices')
      /\ req \in [Requests -> Work] /\ req[q].pc = "idle" /\ UNCHANGED req
      /\ UNCHANGED <<active, codes, print, issued>>
      /\ changes' \in 0..MaxChanges /\ changes' >= 0 /\ changes' >= changes
  BY PairingAssumption DEF ReinstateDevice, Start, PairingInv, PairingTypeOK, RowsOfActiveProfiles
<1>2. row \in Row /\ row.profile = devices[r].profile /\ row.revoked = 0
  BY <1>1, PairingAssumption DEF Row
<1>3. /\ req[q] \in Work /\ req[q].code = None /\ req' = [req EXCEPT ![q] = req[q]]
  BY <1>1 DEF PairingInv, Requesting, Sound, Binding
<1> HIDE DEF row
<1>4. PICK work \in Work : work = req[q]
  BY <1>3
<1>5. work.code = None /\ work.pc = "idle" /\ req' = [req EXCEPT ![q] = work]
  BY <1>1, <1>3, <1>4
<1>6. row.revoked <= changes'
  BY <1>1, <1>2
<1>7. QED
  BY <1>1, <1>2, <1>5, <1>6, WriteRowStep

LEMMA DeleteStep ==
    ASSUME PairingInv, NEW q \in Requests, NEW r \in Rows, DeleteDevice(q, r)
    PROVE  PairingInv'
<1>1. /\ devices \in [Rows -> Row \cup {None}] /\ Unique(devices)
      /\ devices' = [devices EXCEPT ![r] = None]
      /\ req \in [Requests -> Work] /\ req[q].pc = "idle" /\ UNCHANGED req
      /\ UNCHANGED <<active, codes, print, issued>>
      /\ changes' \in 0..MaxChanges /\ changes' >= changes
  BY PairingAssumption DEF DeleteDevice, Start, PairingInv, PairingTypeOK
<1>2. /\ req[q] \in Work /\ req[q].code = None /\ req' = [req EXCEPT ![q] = req[q]]
  BY <1>1 DEF PairingInv, Requesting, Sound, Binding
<1>3. PICK work \in Work : work = req[q]
  BY <1>2
<1>4. work.code = None /\ work.pc = "idle" /\ req' = [req EXCEPT ![q] = work]
  BY <1>1, <1>2, <1>3
<1>5. Unique(devices')
  BY <1>1 DEF Unique
<1>6. QED
  BY <1>1, <1>4, <1>5, WriteRowStep

\* The deletion waits for the binds that hold the profile.
LEMMA SoftDeleteStep ==
    ASSUME PairingInv, NEW q \in Requests, NEW p \in Profiles, SoftDelete(q, p)
    PROVE  PairingInv'
<1>1. /\ devices \in [Rows -> Row \cup {None}] /\ Unique(devices)
      /\ active' = active \ {p} /\ ~Shared(p)
      /\ req \in [Requests -> Work] /\ UNCHANGED <<codes, req, print, issued>>
      /\ changes' \in 0..MaxChanges /\ changes' >= changes
  BY PairingAssumption DEF SoftDelete, Start, PairingInv, PairingTypeOK
<1>2. ASSUME NEW r \in Rows
      PROVE  /\ devices'[r] \in Row \cup {None}
             /\ devices'[r] # None <=> devices[r] # None
             /\ devices[r] # None =>
                   /\ devices'[r].print = devices[r].print
                   /\ devices'[r].revoked = devices[r].revoked
                   /\ devices'[r].profile =
                         IF devices[r].profile = p THEN None ELSE devices[r].profile
  <2>1. CASE devices[r] # None /\ devices[r].profile = p
    <3>1. devices[r] \in Row /\ devices'[r] = [devices[r] EXCEPT !.profile = None]
      BY <1>1, <2>1 DEF SoftDelete
    <3>2. /\ devices'[r] \in Row /\ devices'[r].print = devices[r].print
          /\ devices'[r].revoked = devices[r].revoked /\ devices'[r].profile = None
      BY <3>1 DEF Row, Owner
    <3>3. QED
      BY <2>1, <3>2, NoneAssumption
  <2>2. CASE ~(devices[r] # None /\ devices[r].profile = p)
    <3>1. devices'[r] = devices[r]
      BY <2>2 DEF SoftDelete
    <3>2. QED
      BY <1>1, <2>2, <3>1
  <2>3. QED
    BY <2>1, <2>2
<1>3. Unique(devices')
  BY <1>1, <1>2 DEF Unique
<1>4. devices' \in [Rows -> Row \cup {None}]
  BY <1>2 DEF SoftDelete
<1>5. PairingTypeOK'
  BY <1>1, <1>3, <1>4 DEF PairingInv, PairingTypeOK
<1>6. RowsOfActiveProfiles'
  BY <1>1, <1>2 DEF PairingInv, RowsOfActiveProfiles
<1>7. Dated'
  BY <1>1, <1>2, PairingAssumption DEF PairingInv, PairingTypeOK, Dated, Row
<1>8. \A r \in Requests : Sound(req[r])'
  <2>1. \A r \in Requests : req[r].pc \in Binding => req[r].profile # p
    BY <1>1, PairingAssumption DEF Shared, PairingInv, Requesting, Sound
  <2>2. QED
    BY <1>1, <2>1 DEF PairingInv, Requesting, Sound
<1>9. QED
  BY <1>1, <1>5, <1>6, <1>7, <1>8 DEF PairingInv, Requesting, Apart
-----------------------------------------------------------------------------
(* Steps of the kiosks and of time.                                        *)

LEMMA CodesStep ==
    ASSUME PairingInv, UNCHANGED <<active, devices, req, changes>>,
           codes' \in [Codes -> Code \cup {None}],
           print' \in [Kiosks -> 0..MaxPrints], issued' \in 0..MaxPrints,
           \A c \in Codes : codes[c] # None /\ Locked(c) =>
              codes'[c] # None /\ codes'[c].print = codes[c].print
    PROVE  PairingInv'
<1>1. (PairingTypeOK /\ RowsOfActiveProfiles /\ Dated)'
  BY DEF PairingInv, PairingTypeOK, RowsOfActiveProfiles, Dated, Unique
<1>2. \A r \in Requests : Sound(req[r])'
  BY DEF PairingInv, Requesting, Sound, Locked
<1>3. QED
  BY <1>1, <1>2 DEF PairingInv, Requesting, Apart

LEMMA GenerateStep ==
    ASSUME PairingInv, NEW k \in Kiosks, GeneratePairingCode(k)
    PROVE  PairingInv'
<1>1. PICK f \in Prints : GeneratePairingCode(k)!(f)
  BY DEF GeneratePairingCode
<1>2. /\ codes \in [Codes -> Code \cup {None}] /\ issued \in 0..MaxPrints
      /\ print \in [Kiosks -> 0..MaxPrints] /\ f \in 0..MaxPrints
      /\ UNCHANGED <<active, devices, req, changes>>
  BY <1>1, PairingAssumption DEF PairingInv, PairingTypeOK, Prints
<1>3. /\ Swept \in [Codes -> Code \cup {None}]
      /\ \A c \in Codes : Swept[c] = codes[c] \/ Swept[c] = None
      /\ \A c \in Codes : codes[c] # None /\ Locked(c) => Swept[c] = codes[c]
  BY <1>2 DEF Swept
<1>4. CASE codes' = Swept /\ UNCHANGED <<print, issued>>
  BY <1>2, <1>3, <1>4, CodesStep
<1>5. ASSUME NEW c \in Codes, Swept[c] = None,
             codes' = [Swept EXCEPT ![c] = [print |-> f, state |-> "live"]],
             print' = [print EXCEPT ![k] = f], issued' = Max({issued, f})
      PROVE  PairingInv'
  <2>1. {issued, f} \subseteq Int /\ IsFiniteSet({issued, f})
    <3>1. {issued, f} \in SUBSET (0..MaxPrints) /\ IsFiniteSet(0..MaxPrints)
      BY <1>2, PairingAssumption, FS_Interval
    <3>2. IsFiniteSet({issued, f})
      BY <3>1, FS_Subset
    <3>3. QED
      BY <1>2, <3>2
  <2>2. issued' \in 0..MaxPrints
    BY <1>2, <1>5, <2>1, MaxIsGreatest
  <2>3. [print |-> f, state |-> "live"] \in Code
    BY DEF Code
  <2>4. codes' \in [Codes -> Code \cup {None}]
    BY <1>3, <1>5, <2>3
  <2>5. \A d \in Codes : codes[d] # None /\ Locked(d) =>
           codes'[d] # None /\ codes'[d].print = codes[d].print
    BY <1>3, <1>5
  <2>6. print' \in [Kiosks -> 0..MaxPrints]
    BY <1>2, <1>5
  <2>7. QED
    BY <1>2, <2>2, <2>4, <2>5, <2>6, CodesStep
<1>6. QED
  BY <1>1, <1>4, <1>5

LEMMA ExpireStep ==
    ASSUME PairingInv, NEW c \in Codes, ExpireCode(c)
    PROVE  PairingInv'
<1>1. /\ codes \in [Codes -> Code \cup {None}] /\ codes[c] \in Code
      /\ codes' = [codes EXCEPT ![c].state = "expired"]
  BY DEF ExpireCode, PairingInv, PairingTypeOK
<1>2. codes'[c] \in Code /\ codes'[c].print = codes[c].print
  BY <1>1 DEF Code
<1>3. \A d \in Codes : d # c => codes'[d] = codes[d]
  BY <1>1
<1>4. codes' \in [Codes -> Code \cup {None}]
  BY <1>1, <1>2, <1>3
<1>5. \A d \in Codes : codes[d] # None /\ Locked(d) =>
         codes'[d] # None /\ codes'[d].print = codes[d].print
  BY <1>2, <1>3, NoneAssumption
<1>6. /\ UNCHANGED <<active, devices, req, changes>>
      /\ print' \in [Kiosks -> 0..MaxPrints] /\ issued' \in 0..MaxPrints
  BY DEF ExpireCode, PairingInv, PairingTypeOK
<1>7. QED
  BY <1>4, <1>5, <1>6, CodesStep

LEMMA ForgetStep ==
    ASSUME PairingInv, NEW k \in Kiosks, ForgetPrint(k)
    PROVE  PairingInv'
<1>1. print' \in [Kiosks -> 0..MaxPrints]
  BY PairingAssumption DEF ForgetPrint, PairingInv, PairingTypeOK
<1>2. /\ UNCHANGED <<active, devices, req, changes, codes>>
      /\ codes' \in [Codes -> Code \cup {None}] /\ issued' \in 0..MaxPrints
  BY DEF ForgetPrint, PairingInv, PairingTypeOK
<1>3. QED
  BY <1>1, <1>2, CodesStep

LEMMA SamePairing ==
    ASSUME PairingInv, UNCHANGED pairingVars
    PROVE  PairingInv'
<1>1. (PairingTypeOK /\ RowsOfActiveProfiles /\ Dated)'
  BY DEF PairingInv, PairingTypeOK, RowsOfActiveProfiles, Dated, Unique, pairingVars
<1>2. QED
  BY <1>1 DEF PairingInv, Requesting, Sound, Apart, pairingVars

LEMMA HandlersStep ==
    ASSUME PairingInv, Handlers
    PROVE  PairingInv'
<1>1. ASSUME NEW q \in Requests, Bind(q)
      PROVE  PairingInv'
  BY <1>1, StartBindStep, StatementStep, EndStep DEF Bind, Statement, Rollback
<1>2. ASSUME NEW q \in Requests, Manage(q)
      PROVE  PairingInv'
  BY <1>2, ReadDeviceStep, RevokeStep, ReinstateStep, DeleteStep, PatchStep,
     SoftDeleteStep DEF Manage
<1>3. QED
  BY <1>1, <1>2, GenerateStep, ExpireStep DEF Handlers, Administer

LEMMA PublishStep ==
    ASSUME PairingInv, NEW q \in Requests, Publish(q)
    PROVE  PairingInv'
BY EndStep DEF Publish

LEMMA PairingStep == PairingInv /\ [PairingNext]_pairingVars => PairingInv'
BY HandlersStep, PublishStep, ForgetStep, SamePairing DEF PairingNext

LEMMA PairingInit == Init => PairingInv
<1> SUFFICES ASSUME Init
             PROVE  PairingInv
  OBVIOUS
<1>1. (PairingTypeOK /\ RowsOfActiveProfiles /\ Dated)
  BY PairingAssumption, IdleIsWork
     DEF Init, PairingTypeOK, RowsOfActiveProfiles, Dated, Unique
<1>2. QED
  BY <1>1, IdleIsWork DEF Init, PairingInv, Requesting, Sound, Apart, Binding

-----------------------------------------------------------------------------
(* What a bind and a revocation do to the kiosk.                           *)

\* A code is consumed by the statement of a bind that writes the row.
LEMMA ConsumersServe ==
    ASSUME PairingInv, NEW q \in Requests, Statement(q), NEW c \in Codes,
           codes[c] # None, codes[c].state # "consumed", codes'[c].state = "consumed"
    PROVE  req[q].code = c /\ Resolved(codes[c].print)' = req[q].profile
<1>1. /\ req[q].pc \in Binding /\ codes \in [Codes -> Code \cup {None}]
      /\ devices \in [Rows -> Row \cup {None}] /\ Sound(req[q])
  BY StatementWrites DEF PairingInv, PairingTypeOK, Requesting
<1>2. Writes(q)
  BY StatementWrites DEF Goto
<1>3. PICK r \in Rows, row \in Row :
         /\ row.print = req[q].print /\ row.profile = req[q].profile /\ row.revoked = 0
         /\ Commit(q, [devices EXCEPT ![r] = row])
  BY <1>2 DEF Writes
<1>4. /\ Unique([devices EXCEPT ![r] = row]) /\ devices' = [devices EXCEPT ![r] = row]
      /\ codes' = [codes EXCEPT ![req[q].code].state = "consumed"]
  BY <1>3 DEF Commit
<1>5. req[q].code = c
  BY <1>1, <1>4
<1>6. codes'[c].print = req[q].print
  <2>1. codes[c] \in Code /\ codes[c].print = req[q].print
    BY <1>1, <1>5 DEF Sound
  <2>2. codes'[c] = [codes[c] EXCEPT !.state = "consumed"]
    BY <1>1, <1>4, <1>5
  <2>3. QED
    BY <2>1, <2>2 DEF Code
<1>7. devices'[r] = row
  BY <1>1, <1>4
<1>8. Unique(devices)' /\ Live(r)'
  BY <1>3, <1>4, <1>7, NoneAssumption DEF Live
<1>9. PICK f : f = codes'[c].print
  OBVIOUS
<1>10. Resolved(f)' = req[q].profile
  BY <1>3, <1>6, <1>7, <1>8, <1>9, LiveRowServes
<1>11. QED
  BY <1>5, <1>9, <1>10

\* No other step consumes a code.
LEMMA OnlyBindsConsume ==
    ASSUME PairingInv, [PairingNext]_pairingVars, NEW c \in Codes,
           codes[c] # None, codes'[c] # None,
           codes[c].state # "consumed", codes'[c].state = "consumed"
    PROVE  \E q \in Requests : Statement(q)
<1>1. codes \in [Codes -> Code \cup {None}] /\ codes[c] \in Code
  BY DEF PairingInv, PairingTypeOK
<1>2. codes'[c] # codes[c]
  OBVIOUS
<1>3. ASSUME NEW k \in Kiosks, GeneratePairingCode(k)
      PROVE  FALSE
  <2>1. PICK f \in Prints : GeneratePairingCode(k)!(f)
    BY <1>3 DEF GeneratePairingCode
  <2>2. Swept[c] \in {codes[c], None} /\ DOMAIN Swept = Codes
    BY DEF Swept
  <2>3. codes'[c] \in {Swept[c], [print |-> f, state |-> "live"]}
    BY <2>1, <2>2
  <2>4. QED
    BY <1>2, <2>2, <2>3
<1>4. ASSUME NEW d \in Codes, ExpireCode(d)
      PROVE  FALSE
  <2>1. codes'[c] = codes[c] \/ codes'[c] = [codes[c] EXCEPT !.state = "expired"]
    BY <1>1, <1>4 DEF ExpireCode
  <2>2. QED
    BY <1>1, <1>2, <2>1 DEF Code
<1>5. UNCHANGED codes => FALSE
  BY <1>2
<1>6. QED
  BY <1>3, <1>4, <1>5 DEF PairingNext, pairingVars, Handlers, Administer, Bind, Manage, Statement,
     StartBind, Rollback, ReadDevice, RevokeDevice, ReinstateDevice, DeleteDevice,
     PatchDevice, SoftDelete, Publish, ForgetPrint

\* Before the revocation the row was the only active one of its fingerprint.
LEMMA RevocationRefuses ==
    ASSUME PairingInv, NEW q \in Requests, NEW r \in Rows, RevokeDevice(q, r)
    PROVE  Resolved(devices[r].print)' = "revoked"
<1>1. /\ devices \in [Rows -> Row \cup {None}] /\ devices[r] \in Row /\ Live(r)
      /\ Unique(devices) /\ NextRevoked >= 1 /\ NextRevoked \in Nat
      /\ devices' = [devices EXCEPT ![r].revoked = NextRevoked]
  BY NextRevokedType DEF PairingInv, PairingTypeOK, RevokeDevice, Live
<1>2. /\ devices'[r].print = devices[r].print /\ devices'[r].revoked # 0
      /\ devices'[r] # None
  <2>1. devices'[r] = [devices[r] EXCEPT !.revoked = NextRevoked]
    BY <1>1
  <2>2. devices'[r].print = devices[r].print /\ devices'[r].revoked = NextRevoked
    BY <1>1, <2>1 DEF Row
  <2>3. NextRevoked \in 0..MaxChanges
    BY NextRevokedType, PairingAssumption
       DEF PairingInv, PairingTypeOK, RevokeDevice, Start
  <2>4. devices'[r] # None
    BY <1>1, <2>1, <2>3, NoneAssumption DEF Row
  <2>5. QED
    BY <1>1, <2>2, <2>4
<1>3. \A s \in Rows : s # r => devices'[s] = devices[s]
  BY <1>1
<1>4. PICK f : f = devices'[r].print
  OBVIOUS
<1>5. LiveRowsOf(f)' = {}
  BY <1>1, <1>2, <1>3, <1>4 DEF LiveRowsOf, RowsOf, Live, Unique
<1>6. RowsOf(f)' # {}
  BY <1>2, <1>4 DEF RowsOf
<1>7. Resolved(f)' = "revoked"
  BY <1>5, <1>6, RevokedRowsRefuse
<1>8. QED
  BY <1>4, <1>7

\* No other step revokes a row.
LEMMA OnlyRevocationsRevoke ==
    ASSUME PairingInv, [PairingNext]_pairingVars, NEW r \in Rows,
           Live(r), devices'[r] # None, devices'[r].revoked # 0
    PROVE  \E q \in Requests : RevokeDevice(q, r)
<1>1. /\ devices \in [Rows -> Row \cup {None}] /\ devices[r] \in Row
      /\ devices[r].revoked = 0
  BY DEF PairingInv, PairingTypeOK, Live
<1>2. devices'[r] # devices[r]
  BY <1>1
<1>3. ASSUME NEW q \in Requests, Statement(q)
      PROVE  FALSE
  <2>1. devices' # devices
    BY <1>2
  <2>2. PICK s \in Rows, row \in Row :
           row.revoked = 0 /\ Commit(q, [devices EXCEPT ![s] = row])
    BY <1>3, <2>1, StatementWrites DEF Writes, Goto
  <2>3. devices' = [devices EXCEPT ![s] = row]
    BY <2>1, <2>2 DEF Commit
  <2>4. QED
    BY <1>1, <1>2, <2>2, <2>3
<1>4. ASSUME NEW q \in Requests, NEW s \in Rows, RevokeDevice(q, s)
      PROVE  s = r
  BY <1>1, <1>2, <1>4 DEF RevokeDevice
<1>5. ASSUME NEW q \in Requests, NEW s \in Rows, ReinstateDevice(q, s)
      PROVE  FALSE
  <2>1. s # r
    BY <1>5 DEF ReinstateDevice
  <2>2. QED
    BY <1>1, <1>2, <1>5, <2>1 DEF ReinstateDevice
<1>6. ASSUME NEW q \in Requests, NEW s \in Rows, DeleteDevice(q, s)
      PROVE  FALSE
  BY <1>1, <1>2, <1>6 DEF DeleteDevice
<1>7. ASSUME NEW q \in Requests, PatchDevice(q)
      PROVE  FALSE
  <2>1. PICK p \in active \cup {None} :
           devices' = [devices EXCEPT ![req[q].row].profile = p]
    BY <1>2, <1>7 DEF PatchDevice
  <2>2. devices'[r] = [devices[r] EXCEPT !.profile = p]
    BY <1>1, <1>2, <2>1
  <2>3. QED
    BY <1>1, <2>2 DEF Row
<1>8. ASSUME NEW q \in Requests, NEW p \in Profiles, SoftDelete(q, p)
      PROVE  FALSE
  <2>1. devices'[r] = [devices[r] EXCEPT !.profile = None]
    BY <1>1, <1>2, <1>8 DEF SoftDelete
  <2>2. QED
    BY <1>1, <2>1 DEF Row
<1>9. ASSUME UNCHANGED devices
      PROVE  FALSE
  BY <1>2, <1>9
<1>10. ASSUME NEW q \in Requests, Bind(q)
       PROVE  FALSE
  BY <1>3, <1>9, <1>10 DEF Bind, Statement, StartBind, Rollback
<1>11. ASSUME NEW q \in Requests, Manage(q)
       PROVE  RevokeDevice(q, r)
  BY <1>4, <1>5, <1>6, <1>7, <1>8, <1>9, <1>11 DEF Manage, ReadDevice
<1>12. QED
  BY <1>9, <1>10, <1>11 DEF PairingNext, pairingVars, Handlers, Administer, Publish, ForgetPrint,
     GeneratePairingCode, ExpireCode

-----------------------------------------------------------------------------
(* Theorems of the admin's requests and the pairing kiosks by themselves.  *)

\* What a bind holds is not taken from it, revocations are in order, and the
\* rows satisfy their two unique indexes.
THEOREM PairingCorrect == PairingSpec => []PairingInv
BY PairingInit, PairingStep, PTL DEF PairingSpec

\* No row of a device belongs to a deleted profile, in whichever order the
\* statements of binds, changes of profile and deletions come.
THEOREM RowsCorrect == PairingSpec => []RowsOfActiveProfiles
<1>1. PairingInv => RowsOfActiveProfiles
  BY DEF PairingInv
<1>2. QED
  BY <1>1, PairingCorrect, PTL

LEMMA ConsumptionStep ==
    PairingInv /\ [PairingNext]_pairingVars =>
        \A c \in Codes :
          codes[c] # None /\ codes'[c] # None
          /\ codes[c].state # "consumed" /\ codes'[c].state = "consumed"
          => \E q \in Requests : req[q].code = c
                /\ Resolved(codes[c].print)' = req[q].profile
BY OnlyBindsConsume, ConsumersServe

LEMMA RevocationStep ==
    PairingInv /\ [PairingNext]_pairingVars =>
        \A r \in Rows :
          Live(r) /\ devices'[r] # None /\ devices'[r].revoked # 0
          => Resolved(devices[r].print)' = "revoked"
BY OnlyRevocationsRevoke, RevocationRefuses

\* A code is consumed only by the step after which its kiosk is served the
\* chosen profile, whichever of the four statements wrote the row.
THEOREM ConsumedCorrect == PairingSpec => ConsumedMeansServed
BY ConsumptionStep, PairingCorrect, PTL DEF PairingSpec, ConsumedMeansServed

\* A revocation cuts its kiosk off at once: the row was its only active one.
THEOREM RevokeCorrect == PairingSpec => RevokeCutsOff
BY RevocationStep, PairingCorrect, PTL DEF PairingSpec, RevokeCutsOff

-----------------------------------------------------------------------------
(* The kiosks' sessions and streams.                                       *)

ShowsInv ==
    /\ page \in [Screens -> Pages]
    /\ asked \subseteq Screens
    /\ browse \in [Screens -> Owner]
    /\ view \in [Screens -> Shown]
    /\ answer \in [Screens -> Shown \cup {None}]
    /\ stream \in [Screens -> Stream]
    /\ \A k \in Screens : Len(stream[k].queue) <= MaxQueue
    /\ buses \subseteq Profiles
    /\ ListensToShown

IInv == PairingInv /\ ShowsInv

LEMMA ClosedIsStream ==
    /\ Closed \in Stream /\ Closed.profile = None /\ Len(Closed.queue) = 0
    /\ Nothing \in Shown
BY DEF Closed, Stream, Owner, Nothing, Shown

\* The steps of a kiosk, one by one.
LEMMA KioskStep ==
    ASSUME IInv, PairingInv', NEW k \in Screens,
           page' \in [Screens -> Pages], asked' \subseteq Screens,
           NEW binding \in Owner, browse' \in {browse, [browse EXCEPT ![k] = binding]},
           NEW session \in Shown, view' = [view EXCEPT ![k] = session],
           NEW reply \in Shown \cup {None}, answer' = [answer EXCEPT ![k] = reply],
           NEW events \in Stream, stream' = [stream EXCEPT ![k] = events],
           Len(events.queue) <= MaxQueue, events.profile \in {None, session.profile},
           UNCHANGED buses
    PROVE  IInv'
<1>1. \A j \in Screens : /\ stream'[j] = IF j = k THEN events ELSE stream[j]
                         /\ view'[j] = IF j = k THEN session ELSE view[j]
  BY DEF IInv, ShowsInv
<1>2. ListensToShown'
  BY <1>1 DEF IInv, ShowsInv, ListensToShown
<1>3. QED
  BY <1>1, <1>2 DEF IInv, ShowsInv

LEMMA SessionType ==
    ASSUME IInv, NEW k \in Screens
    PROVE  Session(k) \in Shown /\ SessionCookie(k) \in Owner
<1>1. active \subseteq Profiles /\ browse[k] \in Owner
  BY DEF IInv, PairingInv, PairingTypeOK, ShowsInv
<1>2. Override(k) \in Owner
  BY DEF Override, Owner
<1>3. ValidBrowse(k) \in Owner
  BY <1>1 DEF ValidBrowse, Owner
<1>4. AutoBound(k) \in Owner
  <2>1. Cardinality(active) = 1 => active # {}
    BY FS_EmptySet
  <2>2. QED
    BY <1>1, <2>1 DEF AutoBound, Owner
<1>5. QED
  BY <1>2, <1>3, <1>4 DEF Session, SessionCookie, Shown

\* A kiosk goes from one of its pages to another.
LEMMA BrowserPages ==
    ASSUME IInv, NEW k \in Screens, Browser(k)
    PROVE  page' \in [Screens -> Pages] /\ asked' \subseteq Screens
<1>1. page \in [Screens -> Pages] /\ asked \subseteq Screens
  BY DEF IInv, ShowsInv
<1>2. CASE AskSession(k) \/ TakeSession(k) \/ Load(k)
  BY <1>1, <1>2 DEF AskSession, TakeSession, Load, Pages
<1>3. CASE UnbindSession(k) \/ GoToPairing(k) \/ GoBack(k) \/ PollDevice(k)
  BY <1>1, <1>3 DEF UnbindSession, GoToPairing, GoBack, OpenPicker, PollDevice, Pages
<1>4. CASE (\E p \in Profiles : BindSession(k, p)) \/ CallApi(k) \/ OpenStream(k)
  BY <1>1, <1>4 DEF BindSession, CallApi, Leave, OpenStream, Pages
<1>5. CASE Subscribe(k) \/ Disconnect(k) \/ Deliver(k)
  BY <1>1, <1>5 DEF Subscribe, Disconnect, Deliver, Leave, Pages
<1>6. QED
  BY <1>2, <1>3, <1>4, <1>5 DEF Browser

\* A page that is loaded counts as a change, and leaves the database alone.
LEMMA LoadStep ==
    ASSUME IInv, NEW k \in Screens, Load(k)
    PROVE  PairingInv'
<1>1. /\ changes \in 0..MaxChanges /\ changes' \in 0..MaxChanges /\ changes' >= changes
      /\ UNCHANGED <<active, devices, codes, print, issued, req>>
  BY PairingAssumption DEF Load, IInv, PairingInv, PairingTypeOK
<1>2. (PairingTypeOK /\ RowsOfActiveProfiles)'
  BY <1>1 DEF IInv, PairingInv, PairingTypeOK, RowsOfActiveProfiles, Unique
<1>3. Dated'
  BY <1>1, PairingAssumption DEF IInv, PairingInv, PairingTypeOK, Dated, Row
<1>4. Requesting'
  BY <1>1 DEF IInv, PairingInv, Requesting, Sound, Apart
<1>5. QED
  BY <1>2, <1>3, <1>4 DEF PairingInv

LEMMA BrowserStep ==
    ASSUME IInv, NEW k \in Screens, Browser(k)
    PROVE  IInv'
<1>0. page' \in [Screens -> Pages] /\ asked' \subseteq Screens
  BY BrowserPages
<1>1. /\ browse \in [Screens -> Owner] /\ browse[k] \in Owner
      /\ view \in [Screens -> Shown] /\ view[k] \in Shown
      /\ answer \in [Screens -> Shown \cup {None}] /\ answer[k] \in Shown \cup {None}
      /\ stream \in [Screens -> Stream] /\ stream[k] \in Stream
      /\ Len(stream[k].queue) <= MaxQueue /\ stream[k].profile \in {None, view[k].profile}
      /\ PairingInv /\ k \in Kiosks /\ MaxQueue \in Nat
  BY KioskAssumption DEF IInv, ShowsInv, ListensToShown
<1>2. /\ browse = [browse EXCEPT ![k] = browse[k]]
      /\ view = [view EXCEPT ![k] = view[k]]
      /\ answer = [answer EXCEPT ![k] = answer[k]]
      /\ stream = [stream EXCEPT ![k] = stream[k]]
  BY <1>1
<1>3. /\ Session(k) \in Shown /\ SessionCookie(k) \in Owner
      /\ None \in Owner /\ Closed \in Stream /\ Nothing \in Shown
      /\ Closed.profile = None /\ Len(Closed.queue) <= MaxQueue
  BY <1>1, SessionType, ClosedIsStream DEF Owner
<1>4. UNCHANGED pairingVars => PairingInv'
  BY <1>1, SamePairing
<1>5. ForgetPrint(k) => PairingInv'
  BY <1>1, ForgetStep
<1>6. CASE AskSession(k)
  BY <1>0, <1>1, <1>2, <1>3, <1>4, <1>6, KioskStep DEF AskSession
<1>7. ASSUME NEW session \in Shown, Show(k, session), PairingInv', UNCHANGED buses,
             browse' \in {browse, [browse EXCEPT ![k] = None]},
             NEW reply \in Shown \cup {None}, answer' = [answer EXCEPT ![k] = reply]
      PROVE  IInv'
  <2>1. view' = [view EXCEPT ![k] = session]
    BY <1>7 DEF Show
  <2>2. CASE stream[k].profile \in {None, session.profile}
    <3>1. stream' = [stream EXCEPT ![k] = stream[k]]
      BY <1>2, <1>7, <2>2 DEF Show
    <3>2. QED
      BY <1>0, <1>1, <1>3, <1>7, <2>1, <2>2, <3>1, KioskStep
  <2>3. CASE stream[k].profile \notin {None, session.profile}
    <3>1. stream' = [stream EXCEPT ![k] = Closed]
      BY <1>7, <2>3 DEF Show
    <3>2. QED
      BY <1>0, <1>3, <1>7, <2>1, <3>1, KioskStep
  <2>4. QED
    BY <2>2, <2>3
<1>8. CASE TakeSession(k)
  <2>1. answer[k] \in Shown
    BY <1>1, <1>8 DEF TakeSession
  <2>2. /\ PairingInv' /\ UNCHANGED <<browse, buses>>
        /\ answer' = [answer EXCEPT ![k] = None]
    BY <1>4, <1>8 DEF TakeSession
  <2>3. CASE Show(k, answer[k])
    BY <1>7, <2>1, <2>2, <2>3
  <2>4. CASE UNCHANGED <<view, stream>>
    BY <1>0, <1>1, <1>2, <2>2, <2>4, KioskStep
  <2>5. QED
    BY <1>8, <2>3, <2>4 DEF TakeSession
<1>9. ASSUME NEW p \in Profiles, BindSession(k, p)
      PROVE  IInv'
  <2>1. p \in Owner
    BY DEF Owner
  <2>2. QED
    BY <1>0, <1>1, <1>2, <1>4, <1>9, <2>1, KioskStep DEF BindSession
<1>10. CASE UnbindSession(k)
  <2>1. answer' = [answer EXCEPT ![k] = answer[k]]
    BY <1>2, <1>10 DEF UnbindSession
  <2>2. QED
    BY <1>1, <1>3, <1>4, <1>7, <1>10, <2>1 DEF UnbindSession
<1>11. ASSUME Leave(k), PairingInv', UNCHANGED <<browse, answer, buses>>
       PROVE  IInv'
  BY <1>0, <1>1, <1>2, <1>3, <1>11, KioskStep DEF Leave
<1>12. CASE CallApi(k)
  BY <1>5, <1>11, <1>12 DEF CallApi
<1>13. CASE OpenStream(k)
  <2>1. PICK events \in Stream :
           /\ stream' = [stream EXCEPT ![k] = events]
           /\ Len(events.queue) = 0 /\ events.profile = view[k].profile
    <3> DEFINE p == view[k].profile
               admitted == Resolve(k) = p /\ p \in buses
               opened == [pc |-> IF admitted THEN "admitted" ELSE "refused",
                          profile |-> p, queue |-> <<>>]
    <3>1. opened \in Stream
      BY <1>1 DEF Stream, Shown
    <3>2. Len(opened.queue) = 0 /\ opened.profile = p
      OBVIOUS
    <3>3. stream' = [stream EXCEPT ![k] = opened]
      BY <1>13 DEF OpenStream
    <3> HIDE DEF opened
    <3>4. QED
      BY <3>1, <3>2, <3>3
  <2>2. PairingInv'
    BY <1>4, <1>5, <1>13 DEF OpenStream
  <2>3. UNCHANGED <<browse, view, answer, buses>> /\ Len(events.queue) <= MaxQueue
    BY <1>1, <1>13, <2>1 DEF OpenStream
  <2>4. QED
    BY <1>0, <1>1, <1>2, <2>1, <2>2, <2>3, KioskStep
<1>14. CASE Subscribe(k)
  <2> DEFINE events == [stream[k] EXCEPT !.pc = "open"]
  <2>1. events \in Stream /\ events.queue = stream[k].queue
        /\ events.profile = stream[k].profile
    BY <1>1 DEF Stream
  <2>2. stream' = [stream EXCEPT ![k] = events]
    BY <1>14 DEF Subscribe
  <2> HIDE DEF events
  <2>3. QED
    BY <1>0, <1>1, <1>2, <1>4, <1>14, <2>1, <2>2, KioskStep DEF Subscribe
<1>15. CASE Disconnect(k)
  BY <1>0, <1>1, <1>2, <1>3, <1>4, <1>15, KioskStep DEF Disconnect
<1>16. CASE Deliver(k)
  <2>1. PairingInv' /\ UNCHANGED buses
    BY <1>4, <1>16 DEF Deliver
  <2>2. CASE Head(stream[k].queue) = "revoked"
    BY <1>11, <1>16, <2>1, <2>2 DEF Deliver
  <2>3. CASE Head(stream[k].queue) # "revoked"
    <3> DEFINE events == [stream[k] EXCEPT !.queue = Tail(stream[k].queue)]
    <3>1. stream[k].queue \in Seq(Events) /\ stream[k].queue # <<>>
      BY <1>1, <1>16 DEF Deliver, Stream
    <3>2. /\ Tail(stream[k].queue) \in Seq(Events)
          /\ Len(Tail(stream[k].queue)) <= MaxQueue
      BY <1>1, <3>1
    <3>3. /\ events \in Stream /\ events.queue = Tail(stream[k].queue)
          /\ events.profile = stream[k].profile
      BY <1>1, <3>2 DEF Stream
    <3>4. stream' = [stream EXCEPT ![k] = events] /\ UNCHANGED view
      BY <1>16, <2>3 DEF Deliver
    <3>5. PICK binding \in Owner, reply \in Shown \cup {None} :
             /\ browse' \in {browse, [browse EXCEPT ![k] = binding]}
             /\ answer' = [answer EXCEPT ![k] = reply]
      BY <1>1, <1>2, <1>3, <1>16, <2>3 DEF Deliver
    <3> HIDE DEF events
    <3>6. QED
      BY <1>0, <1>1, <1>2, <2>1, <3>2, <3>3, <3>4, <3>5, KioskStep
  <2>4. QED
    BY <2>2, <2>3
<1>17. CASE Load(k)
  <2>1. UNCHANGED <<browse, buses>> /\ PairingInv'
    BY <1>17, LoadStep DEF Load
  <2>2. /\ view' = [view EXCEPT ![k] = Nothing]
        /\ answer' = [answer EXCEPT ![k] = None]
        /\ stream' = [stream EXCEPT ![k] = Closed]
    BY <1>17 DEF Load
  <2>3. QED
    BY <1>0, <1>1, <1>3, <2>1, <2>2, KioskStep
<1>18. CASE GoToPairing(k) \/ GoBack(k) \/ PollDevice(k)
  <2>1. UNCHANGED <<browse, view, answer, stream, buses>> /\ PairingInv'
    BY <1>4, <1>18 DEF GoToPairing, GoBack, PollDevice
  <2>2. QED
    BY <1>0, <1>1, <1>2, <2>1, KioskStep
<1>19. QED
  BY <1>6, <1>8, <1>9, <1>10, <1>12, <1>13, <1>14, <1>15, <1>16, <1>17, <1>18 DEF Browser

\* An event that is published reaches the queues of the streams that have room.
LEMMA HeardStep ==
    ASSUME IInv, PairingInv', NEW p, NEW event \in Events, stream' = Heard(p, event),
           UNCHANGED <<page, browse, view, asked, answer, buses>>
    PROVE  IInv'
<1>1. ASSUME NEW k \in Screens
      PROVE  /\ stream'[k] \in Stream /\ stream'[k].profile = stream[k].profile
             /\ Len(stream'[k].queue) <= MaxQueue
  <2> DEFINE events == [stream[k] EXCEPT !.queue = Append(stream[k].queue, event)]
  <2>1. /\ stream[k] \in Stream /\ stream[k].queue \in Seq(Events)
        /\ Len(stream[k].queue) <= MaxQueue /\ MaxQueue \in Nat
    BY KioskAssumption DEF IInv, ShowsInv, Stream
  <2>2. Append(stream[k].queue, event) \in Seq(Events)
        /\ Len(Append(stream[k].queue, event)) = Len(stream[k].queue) + 1
    BY <2>1
  <2>3. /\ events \in Stream /\ events.profile = stream[k].profile
        /\ events.queue = Append(stream[k].queue, event)
    BY <2>1, <2>2 DEF Stream
  <2>4. \/ stream'[k] = stream[k]
        \/ stream'[k] = events /\ Len(stream[k].queue) < MaxQueue
    BY DEF Heard
  <2> HIDE DEF events
  <2>5. QED
    BY <2>1, <2>2, <2>3, <2>4
<1>2. stream' \in [Screens -> Stream]
  BY <1>1 DEF Heard
<1>3. QED
  BY <1>1, <1>2 DEF IInv, ShowsInv, ListensToShown

LEMMA RestartStep ==
    ASSUME IInv, Restart
    PROVE  IInv'
<1>1. /\ active \subseteq Profiles /\ changes \in 0..MaxChanges
      /\ changes' \in 0..MaxChanges /\ changes' >= changes
      /\ UNCHANGED <<active, devices, codes, print, issued>>
      /\ req' = [q \in Requests |-> Idle]
  BY PairingAssumption DEF Restart, IInv, PairingInv, PairingTypeOK
<1>2. (PairingTypeOK /\ RowsOfActiveProfiles)'
  BY <1>1, IdleIsWork DEF IInv, PairingInv, PairingTypeOK, RowsOfActiveProfiles, Unique
<1>3. Dated'
  BY <1>1, PairingAssumption DEF IInv, PairingInv, PairingTypeOK, Dated, Row
<1>4. Requesting'
  BY <1>1, IdleIsWork DEF Requesting, Sound, Apart, Binding
<1>5. ShowsInv'
  BY <1>1, ClosedIsStream, KioskAssumption DEF Restart, IInv, ShowsInv, ListensToShown
<1>6. QED
  BY <1>2, <1>3, <1>4, <1>5 DEF IInv, PairingInv

LEMMA SameKiosks ==
    ASSUME IInv, PairingInv', UNCHANGED kioskVars
    PROVE  IInv'
BY DEF IInv, ShowsInv, ListensToShown, kioskVars

LEMMA InvariantStep == IInv /\ [KioskNext]_vars => IInv'
<1> SUFFICES ASSUME IInv, [KioskNext]_vars
             PROVE  IInv'
  OBVIOUS
<1>1. PairingInv
  BY DEF IInv
<1>2. CASE Handlers /\ UNCHANGED kioskVars
  BY <1>1, <1>2, HandlersStep, SameKiosks
<1>3. ASSUME NEW q \in Requests, PublishDevice(q)
      PROVE  IInv'
  <2>1. PairingInv' /\ req[q].event \in Events
    BY <1>1, <1>3, PublishStep DEF PublishDevice, Publish, PairingInv, Requesting, Sound
  <2>2. QED
    BY <1>3, <2>1, HeardStep DEF PublishDevice
<1>4. ASSUME NEW p \in Profiles, PublishOther(p)
      PROVE  IInv'
  <2>1. "other" \in Events
    BY DEF Events
  <2>2. QED
    BY <1>1, <1>4, <2>1, HeardStep, SamePairing DEF PublishOther
<1>5. ASSUME NEW p \in Profiles, EvictBus(p)
      PROVE  IInv'
  BY <1>1, <1>5, SamePairing DEF EvictBus, IInv, ShowsInv, ListensToShown
<1>6. CASE UNCHANGED vars
  BY <1>1, <1>6, SamePairing, SameKiosks DEF vars
<1>7. CASE \/ \E k \in Kiosks : AskForCode(k)
           \/ Administer /\ UNCHANGED kioskVars
  BY <1>2, <1>7 DEF AskForCode, Handlers
<1>8. QED
  BY <1>3, <1>4, <1>5, <1>6, <1>7, BrowserStep, RestartStep DEF KioskNext

LEMMA InvariantInit == KioskInit => IInv
<1> SUFFICES ASSUME KioskInit
             PROVE  IInv
  OBVIOUS
<1>1. PairingInv
  BY PairingInit DEF KioskInit
<1>2. ShowsInv
  BY ClosedIsStream, KioskAssumption DEF KioskInit, ShowsInv, ListensToShown, Owner, Pages
<1>3. QED
  BY <1>1, <1>2 DEF IInv

\* What holds of the admin's requests holds whatever kiosks and streams do and
\* however often the server restarts, and a kiosk listens to what it shows.
THEOREM InvariantCorrect == Spec => []IInv
BY InvariantInit, InvariantStep, PTL DEF Spec

\* The database, the cookies, the sessions shown and the streams are as
\* declared: no queue of events is ever longer than its capacity.
THEOREM TypeCorrect == Spec => []TypeOK
<1>1. IInv => TypeOK
  BY DEF IInv, PairingInv, ShowsInv, TypeOK
<1>2. QED
  BY <1>1, InvariantCorrect, PTL

\* The session a kiosk is shown and the profile its requests are served agree,
\* and it listens to the profile it shows.
THEOREM OneProfileCorrect == Spec => []OneProfileAtATime
<1>1. ASSUME IInv, NEW k \in Screens
      PROVE  /\ Resolve(k) \in active => Session(k).profile = Resolve(k)
             /\ Session(k).paired => Resolve(k) = Session(k).profile
  <2>1. /\ active \subseteq Profiles /\ None \notin Profiles
        /\ {"unknown", "revoked", "unbound"} \cap Profiles = {}
    BY <1>1, PairingAssumption, KioskAssumption DEF IInv, PairingInv, PairingTypeOK
  <2>2. CASE Override(k) # None
    BY <2>1, <2>2 DEF Override, Resolve, Session
  <2>3. CASE Override(k) = None
    <3>1. print[k] = 0 \/ Resolved(print[k]) \notin Profiles
      BY <2>1, <2>3 DEF Override
    <3>2. Resolve(k) \in active => browse[k] = Resolve(k) /\ browse[k] \in active
      BY <2>1, <3>1 DEF Resolve
    <3>3. browse[k] \in active => Session(k).profile = browse[k]
      BY <2>1, <2>3 DEF Session, ValidBrowse
    <3>4. ~Session(k).paired
      BY <2>3 DEF Session
    <3>5. QED
      BY <3>2, <3>3, <3>4
  <2>4. QED
    BY <2>2, <2>3
<1>2. IInv => OneProfileAtATime
  BY <1>1 DEF OneProfileAtATime, SessionAgrees, IInv, ShowsInv
<1>3. QED
  BY <1>2, InvariantCorrect, PTL

\* A step of the kiosks is one of the admin's and the pairing kiosks' or leaves
\* the database alone but for the requests that a restart ends.
LEMMA KioskStepsArePairingSteps ==
    [KioskNext]_vars => [PairingNext]_pairingVars \/ UNCHANGED <<active, devices, codes>>
<1> SUFFICES ASSUME [KioskNext]_vars
             PROVE  [PairingNext]_pairingVars \/ UNCHANGED <<active, devices, codes>>
  OBVIOUS
<1>1. CASE \/ \E k \in Kiosks : AskForCode(k)
           \/ Administer \/ Restart \/ UNCHANGED vars
  BY <1>1 DEF PairingNext, AskForCode, Handlers, Restart, vars
<1>2. ASSUME NEW q \in Requests, PublishDevice(q)
      PROVE  PairingNext
  BY <1>2 DEF PublishDevice, PairingNext
<1>3. ASSUME NEW p \in Profiles, PublishOther(p) \/ EvictBus(p)
      PROVE  UNCHANGED pairingVars
  BY <1>3 DEF PublishOther, EvictBus
<1>4. ASSUME NEW k \in Screens, Browser(k)
      PROVE  UNCHANGED <<active, devices, codes>>
  BY <1>4 DEF Browser, AskSession, TakeSession, Load, BindSession, UnbindSession,
     GoToPairing, GoBack, PollDevice, CallApi, OpenStream, Subscribe, Disconnect, Deliver,
     ForgetPrint, pairingVars
<1>5. QED
  BY <1>1, <1>2, <1>3, <1>4 DEF KioskNext

\* With kiosks, streams, lost events and restarts the rows are still those of
\* active profiles, a code is still consumed only for a kiosk that is served,
\* and a revocation still cuts its kiosk off.
THEOREM PairingSurvives ==
    Spec => []RowsOfActiveProfiles /\ ConsumedMeansServed /\ RevokeCutsOff
<1>1. IInv => RowsOfActiveProfiles
  BY DEF IInv, PairingInv
<1>2. IInv /\ [KioskNext]_vars => [
        \A c \in Codes :
          codes[c] # None /\ codes'[c] # None
          /\ codes[c].state # "consumed" /\ codes'[c].state = "consumed"
          => \E q \in Requests : req[q].code = c
                /\ Resolved(codes[c].print)' = req[q].profile]_pairingVars
  BY KioskStepsArePairingSteps, ConsumptionStep DEF IInv
<1>3. IInv /\ [KioskNext]_vars => [
        \A r \in Rows :
          Live(r) /\ devices'[r] # None /\ devices'[r].revoked # 0
          => Resolved(devices[r].print)' = "revoked"]_pairingVars
  BY KioskStepsArePairingSteps, RevocationStep DEF IInv, Live
<1>4. QED
  BY <1>1, <1>2, <1>3, InvariantCorrect, PTL DEF Spec, ConsumedMeansServed, RevokeCutsOff
=============================================================================

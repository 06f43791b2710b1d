------------------------- MODULE ProfileTokensProofs -------------------------
(***************************************************************************)
(* Theorems of ProfileTokens, for any number of profiles, users, invites   *)
(* and requests.  The invariant says what a request in flight may rely on, *)
(* however long ago it has read it.                                        *)
(***************************************************************************)
EXTENDS ProfileTokens, TLAPS

\* A request that may store a token knows whose it is, and for which profile; and
\* the user that a rotation has found is the profile's for as long as it runs.
Informed(w) ==
    /\ w.pc \in {"check", "compare", "lookup", "store", "commit_pat",
                 "begin", "consume", "collision", "redeemed"}
         => w.user \in Users
    /\ w.pc \in {"connect", "rotate", "check", "compare", "store", "commit_pat",
                 "void", "lock", "insert"}
         => w.profile \in Profiles
    /\ w.pc = "commit_pat" => profiles[w.profile].state # "absent"
    /\ w.pc \in {"connect", "check"} => w.known = None
    /\ w.pc \in {"rotate", "compare", "store"} /\ w.known # None
         => profiles[w.profile].user = w.known
    /\ w.pc = "store" /\ w.known # None => w.user = w.known

\* A redemption is for the profile of its invite; past its consumption the
\* row of the invite is its own, and unused for everybody else.
Invited(w) ==
    /\ w.pc \in {"redeem", "begin", "consume", "collision", "redeemed"}
         => w.code \in Codes /\ Exists(w.code) /\ w.profile = invites[w.code].profile
    /\ w.pc \in {"collision", "redeemed"} => Unused(w.code)

\* A generation voids invites of its own profile; those it has found and does
\* not void have been used since.
Voiding(w) ==
    w.pc \in {"lock", "insert"} =>
        /\ w.voids \subseteq w.seen
        /\ \A c \in w.seen :
              /\ Exists(c) /\ invites[c].profile = w.profile
              /\ c \in w.voids \/ ~Unused(c)

\* An invite that is being redeemed is in no other request's hands.
Apart(w, v) ==
    w.pc \in {"collision", "redeemed"} =>
        /\ v.pc \in {"collision", "redeemed"} => v.code # w.code
        /\ v.pc = "insert" => w.code \notin v.voids

Sound(w) == Informed(w) /\ Invited(w) /\ Voiding(w)

Requesting ==
    /\ \A q \in Requests : Sound(req[q])
    /\ \A q, r \in Requests : q # r => Apart(req[q], req[r])

\* What the generation of an invite has found open is used by the time the
\* invite is there.
Replaced ==
    \A c, d \in Codes :
        Exists(d) /\ c \in invites[d].before => Exists(c) /\ invites[c].consumed

\* A profile is of nobody before it is created.
Unclaimed == \A p \in Profiles : profiles[p].state = "absent" => profiles[p].user = None

IInv == TypeOK /\ Requesting /\ Replaced /\ Unclaimed

-----------------------------------------------------------------------------

LEMMA IdleIsWork == Idle \in Work /\ Idle.pc = "idle"
BY DEF Idle, Work, Steps

\* What an update of a request keeps.
LEMMA WorkWith ==
    ASSUME NEW work \in Work, NEW pc \in Steps
    PROVE  LET to == [work EXCEPT !.pc = pc]
           IN /\ to \in Work /\ to.pc = pc
              /\ to.profile = work.profile /\ to.user = work.user
              /\ to.code = work.code /\ to.seen = work.seen /\ to.voids = work.voids
              /\ to.known = work.known
BY DEF Work

-----------------------------------------------------------------------------
(* A step of one request that writes rows: other requests still stand.     *)

LEMMA WritingRequest ==
    ASSUME IInv, NEW q \in Requests, NEW work \in Work,
           req' = [req EXCEPT ![q] = work], changes' \in 0..MaxChanges,
           profiles' \in [Profiles -> Profile],
           \A p \in Profiles : profiles'[p].token # None => profiles'[p].user # None,
           \A p \in Profiles : profiles'[p].state = "absent" => profiles[p].state = "absent",
           \A p \in Profiles : profiles[p].user # None => profiles'[p].user = profiles[p].user,
           invites' \in [Codes -> Invite \cup {None}],
           \A c \in Codes : Exists(c) =>
              /\ Exists(c)' /\ invites'[c].profile = invites[c].profile
              /\ invites[c].consumed => invites'[c].consumed,
           \A c \in Codes, r \in Requests \ {q} :
              Unused(c) /\ req[r].pc \in {"collision", "redeemed"} /\ req[r].code = c
              => Unused(c)',
           Sound(work)',
           \A r \in Requests \ {q} : Apart(work, req[r]) /\ Apart(req[r], work),
           Replaced', Unclaimed'
    PROVE  IInv'
<1> USE DEF IInv
<1>1. req \in [Requests -> Work]
  BY DEF TypeOK
<1>2. TypeOK'
  BY <1>1 DEF TypeOK
<1>3. \A r \in Requests : req'[r] = IF r = q THEN work ELSE req[r]
  BY <1>1
<1>4. ASSUME NEW r \in Requests \ {q}
      PROVE  Sound(req[r])'
  <2>1. Sound(req[r]) /\ req[r] \in Work /\ req'[r] = req[r]
    BY <1>1, <1>3 DEF Requesting
  <2>2. Informed(req[r])'
    BY <2>1 DEF Sound, Informed
  <2>3. Invited(req[r])'
    BY <2>1 DEF Sound, Invited
  <2>4. Voiding(req[r])'
    <3>1. Voiding(req[r]) /\ req[r].seen \subseteq Codes
      BY <2>1 DEF Sound, Work
    <3>2. \A c \in Codes : Exists(c) /\ (c \in req[r].voids \/ ~Unused(c))
                            => c \in req[r].voids \/ ~Unused(c)'
      BY DEF Unused
    <3>3. QED
      BY <2>1, <3>1, <3>2 DEF Voiding
  <2>5. QED
    BY <2>2, <2>3, <2>4 DEF Sound
<1>5. Sound(req[q])'
  BY <1>3 DEF Sound, Informed, Invited, Voiding
<1>6. \A r, s \in Requests : r # s => Apart(req'[r], req'[s])
  BY <1>3 DEF Requesting
<1>7. \A r, s \in Requests : r # s => Apart(req[r], req[s])'
  BY <1>6 DEF Apart
<1>8. QED
  BY <1>2, <1>4, <1>5, <1>7 DEF Requesting

-----------------------------------------------------------------------------
(* A step of one request that writes no row.                               *)

LEMMA OneRequest ==
    ASSUME IInv, NEW q \in Requests, NEW work \in Work,
           req' = [req EXCEPT ![q] = work], UNCHANGED <<profiles, invites>>,
           changes' \in 0..MaxChanges, Sound(work),
           \A r \in Requests \ {q} : Apart(work, req[r]) /\ Apart(req[r], work)
    PROVE  IInv'
<1>1. /\ profiles' \in [Profiles -> Profile]
      /\ \A p \in Profiles : profiles'[p].token # None => profiles'[p].user # None
      /\ invites' \in [Codes -> Invite \cup {None}]
  BY DEF IInv, TypeOK
<1>2. \A c \in Codes : (Exists(c) => Exists(c)') /\ (Unused(c) => Unused(c)')
  BY DEF Unused, Exists
<1>3. Sound(work)'
  BY DEF Sound, Informed, Invited, Voiding, Exists, Unused
<1>4. Replaced' /\ Unclaimed'
  BY DEF IInv, Replaced, Unclaimed, Exists
<1>5. QED
  BY <1>1, <1>2, <1>3, <1>4, WritingRequest

\* A step by which a request comes to hold nothing that others may want.
LEMMA FreeRequest ==
    ASSUME IInv, NEW q \in Requests, NEW work \in Work,
           req' = [req EXCEPT ![q] = work], UNCHANGED <<profiles, invites>>,
           changes' \in 0..MaxChanges, Sound(work),
           work.pc \notin {"collision", "redeemed", "insert"}
    PROVE  IInv'
BY OneRequest DEF Apart

LEMMA RefuseStep ==
    ASSUME IInv, NEW q \in Requests, Refuse(q)
    PROVE  IInv'
<1>1. Sound(Idle)
  BY DEF Sound, Informed, Invited, Voiding, Idle
<1>2. QED
  BY <1>1, FreeRequest, IdleIsWork DEF Refuse, IInv, TypeOK

\* A request that begins.
LEMMA StartStep ==
    ASSUME IInv, NEW q \in Requests, NEW work \in Work, Start(q, work), Sound(work),
           work.pc \notin {"collision", "redeemed", "insert"},
           UNCHANGED <<profiles, invites>>
    PROVE  IInv'
<1>1. changes' \in 0..MaxChanges
  BY TokensAssumption DEF Start, IInv, TypeOK
<1>2. QED
  BY <1>1, FreeRequest DEF Start

-----------------------------------------------------------------------------
(* Connecting: steps that read, and the one that stores a token.           *)

LEMMA GotoStep ==
    ASSUME IInv, NEW q \in Requests, NEW pc \in Steps, Goto(q, pc),
           pc \notin {"collision", "redeemed", "insert"},
           Sound([req[q] EXCEPT !.pc = pc])
    PROVE  IInv'
<1> DEFINE next == [req[q] EXCEPT !.pc = pc]
<1>1. next \in Work /\ next.pc = pc
  BY WorkWith DEF IInv, TypeOK
<1>2. req' = [req EXCEPT ![q] = next]
  BY DEF Goto
<1> HIDE DEF next
<1>3. UNCHANGED <<profiles, invites>> /\ changes' \in 0..MaxChanges
  BY DEF Goto, IInv, TypeOK
<1>4. Sound(next)
  BY DEF next
<1>5. QED
  BY <1>1, <1>2, <1>3, <1>4, FreeRequest

LEMMA ConnectStep ==
    ASSUME IInv, NEW q \in Requests,
           \/ \E p \in Profiles : StartConnect(q, p)
           \/ StartSetPat(q) \/ TestSync(q) \/ CheckCollision(q) \/ CompareUser(q)
           \/ LookUpProfile(q)
    PROVE  IInv'
<1> DEFINE work == req[q]
<1>0. work \in Work /\ Sound(work)
  BY DEF IInv, TypeOK, Requesting
<1>1. ASSUME NEW p \in Profiles, StartConnect(q, p)
      PROVE  IInv'
  <2>1. PICK pc \in {"connect", "rotate"}, known \in Users \cup {None} :
           /\ Start(q, [Idle EXCEPT !.pc = pc, !.profile = p, !.known = known])
           /\ known = IF pc = "rotate" THEN profiles[p].user ELSE None
    <3>1. profiles[p].user \in Users \cup {None}
      BY DEF IInv, TypeOK, Profile
    <3>2. QED
      BY <1>1, <3>1 DEF StartConnect
  <2> DEFINE first == [Idle EXCEPT !.pc = pc, !.profile = p, !.known = known]
  <2>2. /\ first \in Work /\ first.pc = pc /\ first.profile = p /\ first.known = known
    BY DEF Idle, Work, Steps
  <2> HIDE DEF first
  <2>3. Sound(first)
    BY <2>1, <2>2 DEF Sound, Informed, Invited, Voiding
  <2>4. Start(q, first)
    BY <2>1 DEF first
  <2>5. QED
    BY <1>1, <2>2, <2>3, <2>4, StartStep DEF StartConnect
<1>2. ASSUME StartSetPat(q)
      PROVE  IInv'
  <2> DEFINE first == [Idle EXCEPT !.pc = "set_pat"]
  <2>1. first \in Work /\ first.pc = "set_pat"
    BY DEF Idle, Work, Steps
  <2> HIDE DEF first
  <2>2. Sound(first)
    BY <2>1 DEF Sound, Informed, Invited, Voiding
  <2>3. Start(q, first)
    BY <1>2 DEF StartSetPat, first
  <2>4. QED
    BY <1>2, <2>1, <2>2, <2>3, StartStep DEF StartSetPat
<1>3. ASSUME TestSync(q), ~Refuse(q)
      PROVE  IInv'
  <2>1. PICK u \in Users :
           /\ req' = [req EXCEPT ![q] = [@ EXCEPT !.pc = Tested(req[q].pc), !.user = u]]
           /\ UNCHANGED <<profiles, invites, changes>>
    BY <1>3 DEF TestSync
  <2> DEFINE next == [work EXCEPT !.pc = Tested(work.pc), !.user = u]
  <2>2. /\ work.pc = "connect" => Tested(work.pc) = "check"
        /\ work.pc = "rotate" => Tested(work.pc) = "compare"
        /\ work.pc = "set_pat" => Tested(work.pc) = "lookup"
        /\ work.pc = "redeem" => Tested(work.pc) = "begin"
        /\ work.pc \in {"connect", "rotate", "set_pat", "redeem"}
    BY <1>3 DEF TestSync, Tested
  <2>3. Tested(work.pc) \in Steps
    BY <2>2 DEF Steps
  <2>4. /\ next \in Work /\ next.pc = Tested(work.pc) /\ next.user = u
        /\ next.profile = work.profile /\ next.code = work.code /\ next.known = work.known
    BY <1>0, <2>3 DEF Work
  <2> HIDE DEF next
  <2>5. Sound(next)
    BY <1>0, <2>2, <2>4 DEF Sound, Informed, Invited, Voiding
  <2>6. req' = [req EXCEPT ![q] = next]
    BY <2>1 DEF next
  <2>7. next.pc \notin {"collision", "redeemed", "insert"}
    BY <2>2, <2>4
  <2>8. QED
    BY <2>1, <2>4, <2>5, <2>6, <2>7, FreeRequest DEF IInv, TypeOK
<1>4. ASSUME CheckCollision(q) \/ CompareUser(q), Goto(q, "store")
      PROVE  IInv'
  <2> DEFINE next == [work EXCEPT !.pc = "store"]
  <2>1. "store" \in Steps
    BY DEF Steps
  <2>2. /\ next.pc = "store" /\ next.user = work.user /\ next.profile = work.profile
        /\ next.known = work.known
    BY <1>0, <2>1, WorkWith
  <2> HIDE DEF next
  <2>3. Sound(next)
    <3>1. ~Refuse(q)
      BY <1>0, <1>4, <2>2, IdleIsWork DEF Refuse, Goto, IInv, TypeOK, next
    <3>2. /\ work.pc \in {"check", "compare"}
          /\ work.pc = "compare" => work.known \in {None, work.user}
      BY <1>4, <3>1 DEF CheckCollision, CompareUser
    <3>3. Informed(work)
      BY <1>0 DEF Sound
    <3>4. Informed(next)
      BY <2>2, <3>2, <3>3 DEF Informed
    <3>5. QED
      BY <2>2, <3>4 DEF Sound, Invited, Voiding
  <2>4. QED
    BY <1>4, <2>1, <2>3, GotoStep DEF next
<1>5. ASSUME LookUpProfile(q), ~Refuse(q)
      PROVE  IInv'
  <2>1. PICK p \in Profiles :
           /\ work.pc = "lookup" /\ Active(p)
           /\ req' = [req EXCEPT ![q] = [@ EXCEPT !.pc = "commit_pat", !.profile = p]]
           /\ UNCHANGED <<profiles, invites, changes>>
    BY <1>5 DEF LookUpProfile
  <2> DEFINE next == [work EXCEPT !.pc = "commit_pat", !.profile = p]
  <2>2. /\ next \in Work /\ next.pc = "commit_pat" /\ next.profile = p
        /\ next.user = work.user
    BY <1>0 DEF Work, Steps
  <2> HIDE DEF next
  <2>3. Sound(next)
    <3>1. p \in Profiles /\ profiles[p].state # "absent" /\ work.user \in Users
      BY <1>0, <2>1 DEF Sound, Informed, Active
    <3>2. Informed(next)
      BY <2>2, <3>1 DEF Informed
    <3>3. QED
      BY <2>2, <3>2 DEF Sound, Invited, Voiding
  <2>4. req' = [req EXCEPT ![q] = next]
    BY <2>1 DEF next
  <2>5. QED
    BY <2>1, <2>2, <2>3, <2>4, FreeRequest DEF IInv, TypeOK
<1>6. QED
  BY <1>1, <1>2, <1>3, <1>4, <1>5, RefuseStep DEF CheckCollision, CompareUser, LookUpProfile

\* The UPDATE that stores a token.
LEMMA StoredShape ==
    ASSUME TypeOK, NEW p \in Profiles, NEW u \in Users
    PROVE  /\ Stored(p, u) \in [Profiles -> Profile]
           /\ \A r \in Profiles : Stored(p, u)[r].token # None
                                    => Stored(p, u)[r].user # None
           /\ Stored(p, u)[p].token = u
           /\ \A r \in Profiles : Stored(p, u)[r].state = profiles[r].state
           /\ \A r \in Profiles : profiles[r].user # None
                                    => Stored(p, u)[r].user = profiles[r].user
           /\ \A r \in Profiles \ {p} : Stored(p, u)[r] = profiles[r]
<1> DEFINE row == [state |-> profiles[p].state, token |-> u,
                   user |-> IF profiles[p].user = None THEN u ELSE profiles[p].user]
<1>1. profiles \in [Profiles -> Profile]
  BY DEF TypeOK
<1>2. profiles[p] \in Profile /\ row \in Profile
  BY <1>1 DEF Profile
<1>4. Stored(p, u) = [profiles EXCEPT ![p] = row]
  BY DEF Stored
<1>5. /\ row.user # None /\ row.state = profiles[p].state /\ row.token = u
      /\ profiles[p].user # None => row.user = profiles[p].user
  BY TokensAssumption
<1> HIDE DEF row
<1>6. QED
  BY <1>1, <1>2, <1>4, <1>5 DEF TypeOK

\* Under the index, a profile that exists may be given any user's token.
LEMMA StoredStep ==
    ASSUME IInv, NEW q \in Requests, NEW work \in Work,
           req' = [req EXCEPT ![q] = work], UNCHANGED <<invites, changes>>,
           NEW p \in Profiles, profiles[p].state # "absent", NEW u \in Users,
           profiles' = Stored(p, u), Unique(Stored(p, u)), work.pc \in {"idle", "sync"}
    PROVE  IInv'
<1> USE DEF IInv
<1>1. /\ profiles' \in [Profiles -> Profile]
      /\ \A r \in Profiles : profiles'[r].token # None => profiles'[r].user # None
      /\ \A r \in Profiles : profiles'[r].state = profiles[r].state
      /\ \A r \in Profiles : profiles[r].user # None => profiles'[r].user = profiles[r].user
      /\ \A r \in Profiles \ {p} : profiles'[r] = profiles[r]
  BY StoredShape
<1>2. Unclaimed'
  BY <1>1 DEF Unclaimed
<1>4. Replaced'
  BY DEF Replaced, Exists
<1>5. Sound(work)'
  BY DEF Sound, Informed, Invited, Voiding
<1>6. \A r \in Requests \ {q} : Apart(work, req[r]) /\ Apart(req[r], work)
  BY DEF Apart
<1>7. \A c \in Codes : Unused(c) => Unused(c)'
  BY DEF Unused, Exists
<1>8. QED
  BY <1>1, <1>2, <1>4, <1>5, <1>6, <1>7, WritingRequest DEF TypeOK, Exists

LEMMA StoreStep ==
    ASSUME IInv, NEW q \in Requests, StoreToken(q)
    PROVE  IInv'
<1> DEFINE p == req[q].profile
<1> DEFINE u == req[q].user
<1> DEFINE next == [req[q] EXCEPT !.pc = "sync"]
<1>1. req[q] \in Work /\ Sound(req[q])
  BY DEF IInv, TypeOK, Requesting
<1>2. p \in Profiles /\ u \in Users
  BY <1>1 DEF StoreToken, Sound, Informed
<1>3. next \in Work /\ next.pc = "sync" /\ "sync" \in Steps
  BY <1>1, WorkWith DEF Steps
<1>4. CASE Goto(q, "sync")
  <2>1. Sound(next)
    BY <1>3 DEF Sound, Informed, Invited, Voiding
  <2>2. QED
    BY <1>3, <1>4, <2>1, GotoStep
<1>5. CASE Refuse(q)
  BY <1>5, RefuseStep
<1>6. CASE /\ Unique(Stored(p, u)) /\ profiles' = Stored(p, u)
           /\ ~(req[q].pc = "store" /\ ~Active(p))
           /\ req' = IF req[q].pc = "store" THEN [req EXCEPT ![q] = [@ EXCEPT !.pc = "sync"]]
                     ELSE [req EXCEPT ![q] = Idle]
           /\ UNCHANGED <<invites, changes>>
  <2>1. profiles[p].state # "absent"
    BY <1>1, <1>6 DEF StoreToken, Sound, Informed, Active
  <2>2. \/ req' = [req EXCEPT ![q] = next]
        \/ req' = [req EXCEPT ![q] = Idle]
    BY <1>6
  <2> HIDE DEF next, p, u
  <2>3. QED
    BY <1>2, <1>3, <1>6, <2>1, <2>2, IdleIsWork, StoredStep
<1>7. QED
  BY <1>4, <1>5, <1>6 DEF StoreToken

-----------------------------------------------------------------------------
(* Profiles come and go, and time passes.                                  *)

LEMMA ProfileStep ==
    ASSUME IInv, NEW q \in Requests, NEW p \in Profiles,
           CreateProfile(q, p) \/ SoftDelete(q, p)
    PROVE  IInv'
<1> USE DEF IInv
<1>1. PICK state \in {"active", "deleted"} :
         /\ profiles' = [profiles EXCEPT ![p].state = state]
         /\ state = "active" => profiles[p].state = "absent"
  BY DEF CreateProfile, SoftDelete
<1> DEFINE row == [profiles[p] EXCEPT !.state = state]
<1>2. /\ row \in Profile /\ row.state = state
      /\ row.token = profiles[p].token /\ row.user = profiles[p].user
  BY DEF TypeOK, Profile
<1>3. profiles' = [profiles EXCEPT ![p] = row]
  BY <1>1
<1> HIDE DEF row
<1>4. \A r \in Profiles : profiles'[r] = IF r = p THEN row ELSE profiles[r]
  BY <1>3 DEF TypeOK
<1>5. /\ profiles' \in [Profiles -> Profile]
      /\ \A r \in Profiles : profiles'[r].token # None => profiles'[r].user # None
      /\ \A r \in Profiles : profiles'[r].state = "absent" => profiles[r].state = "absent"
      /\ \A r \in Profiles : profiles'[r].user = profiles[r].user
  BY <1>2, <1>3, <1>4 DEF TypeOK
<1>6. Unclaimed'
  BY <1>1, <1>2, <1>4 DEF Unclaimed
<1>8. /\ req' = [req EXCEPT ![q] = Idle] /\ changes' \in 0..MaxChanges
      /\ UNCHANGED invites
  BY TokensAssumption DEF CreateProfile, SoftDelete, Start, TypeOK
<1>9. Sound(Idle)'
  BY IdleIsWork DEF Sound, Informed, Invited, Voiding
<1>10. \A r \in Requests \ {q} : Apart(Idle, req[r]) /\ Apart(req[r], Idle)
  BY IdleIsWork DEF Apart
<1>11. \A c \in Codes : Unused(c) => Unused(c)'
  BY <1>8 DEF Unused, Exists
<1>12. Replaced' /\ \A c \in Codes : Exists(c) => Exists(c)'
  BY <1>8 DEF Replaced, Exists
<1>13. QED
  BY <1>5, <1>6, <1>8, <1>9, <1>10, <1>11, <1>12, IdleIsWork, WritingRequest
     DEF TypeOK

\* What an expiry leaves as it is.
LEMMA Expiry ==
    ASSUME TypeOK, NEW c \in Codes, Expire(c)
    PROVE  /\ UNCHANGED <<profiles, req, changes>>
           /\ invites' \in [Codes -> Invite \cup {None}]
           /\ \A d \in Codes :
                 /\ Exists(d)' <=> Exists(d)
                 /\ Unused(d)' <=> Unused(d)
                 /\ Exists(d) => /\ invites'[d].profile = invites[d].profile
                                 /\ invites'[d].consumed = invites[d].consumed
                                 /\ invites'[d].before = invites[d].before
<1> DEFINE row == [invites[c] EXCEPT !.expired = TRUE]
<1>1. /\ row \in Invite /\ row.profile = invites[c].profile
      /\ row.consumed = invites[c].consumed /\ row.before = invites[c].before
  BY DEF Expire, Exists, TypeOK, Invite
<1>2. invites' = [invites EXCEPT ![c] = row] /\ UNCHANGED <<profiles, req, changes>>
  BY DEF Expire
<1> HIDE DEF row
<1>3. \A d \in Codes : invites'[d] = IF d = c THEN row ELSE invites[d]
  BY <1>2 DEF TypeOK
<1>4. invites' \in [Codes -> Invite \cup {None}]
  BY <1>1, <1>2 DEF TypeOK
<1>5. row # None /\ invites[c] # None
  BY <1>1, NoneAssumption DEF Expire, Exists
<1>6. QED
  BY <1>1, <1>2, <1>3, <1>4, <1>5 DEF Exists, Unused

LEMMA ExpireStep ==
    ASSUME IInv, NEW c \in Codes, Expire(c)
    PROVE  IInv'
<1> USE DEF IInv
<1>2. UNCHANGED <<profiles, req, changes>> /\ invites' \in [Codes -> Invite \cup {None}]
  BY Expiry
<1>4. TypeOK'
  BY <1>2 DEF TypeOK
<1>6. \A d \in Codes : /\ Exists(d)' <=> Exists(d)
                       /\ Unused(d)' <=> Unused(d)
                       /\ Exists(d) => /\ invites'[d].profile = invites[d].profile
                                       /\ invites'[d].consumed = invites[d].consumed
                                       /\ invites'[d].before = invites[d].before
  <2>1. TypeOK
    OBVIOUS
  <2> HIDE DEF IInv
  <2>2. QED
    BY <2>1, Expiry
<1>7. Replaced'
  BY <1>6 DEF Replaced
<1>8. ASSUME NEW q \in Requests
      PROVE  Sound(req[q])'
  <2>1. Sound(req[q]) /\ req[q] \in Work
    BY DEF Requesting, TypeOK
  <2>2. Informed(req[q])'
    BY <1>2, <2>1 DEF Sound, Informed
  <2>3. Invited(req[q])'
    BY <1>2, <1>6, <2>1 DEF Sound, Invited
  <2>4. Voiding(req[q])'
    BY <1>2, <1>6, <2>1 DEF Sound, Voiding, Work
  <2>5. QED
    BY <2>2, <2>3, <2>4 DEF Sound
<1>9. \A q, r \in Requests : q # r => Apart(req[q], req[r])'
  BY <1>2 DEF Requesting, Apart
<1>10. QED
  BY <1>2, <1>4, <1>7, <1>8, <1>9
     DEF Requesting, Unclaimed

-----------------------------------------------------------------------------
(* Generating an invite.                                                   *)

LEMMA FindStep ==
    ASSUME IInv, NEW q \in Requests,
           (\E p \in Profiles : StartGenerate(q, p)) \/ LookForPrior(q) \/ VoidPrior(q)
    PROVE  IInv'
<1> DEFINE work == req[q]
<1>0. work \in Work /\ Sound(work)
  BY DEF IInv, TypeOK, Requesting
<1>1. ASSUME NEW p \in Profiles, StartGenerate(q, p)
      PROVE  IInv'
  <2> DEFINE first == [Idle EXCEPT !.pc = "void", !.profile = p]
  <2>1. first \in Work /\ first.pc = "void" /\ first.profile = p
    BY DEF Idle, Work, Steps
  <2>2. Start(q, first)
    BY <1>1 DEF StartGenerate
  <2> HIDE DEF first
  <2>3. Sound(first)
    BY <2>1 DEF Sound, Informed, Invited, Voiding
  <2>4. QED
    BY <1>1, <2>1, <2>2, <2>3, StartStep DEF StartGenerate
<1>2. ASSUME LookForPrior(q)
      PROVE  IInv'
  <2> DEFINE prior == {c \in Codes : /\ Unused(c) /\ ~invites[c].expired
                                     /\ invites[c].profile = work.profile}
             next == [work EXCEPT !.pc = "lock", !.seen = prior, !.voids = prior]
  <2>1. prior \in SUBSET Codes /\ "lock" \in Steps
    BY DEF Steps
  <2>2. /\ req' = [req EXCEPT ![q] = next]
        /\ work.pc = "void" /\ UNCHANGED <<profiles, invites, changes>>
    BY <1>2 DEF LookForPrior
  <2>3. \A c \in prior : Exists(c) /\ invites[c].profile = work.profile
    BY DEF Unused
  <2> HIDE DEF prior
  <2>4. /\ next \in Work /\ next.pc = "lock" /\ next.profile = work.profile
        /\ next.seen = prior /\ next.voids = prior
    BY <1>0, <2>1 DEF Work
  <2> HIDE DEF next
  <2>5. Sound(next)
    BY <1>0, <2>2, <2>3, <2>4 DEF Sound, Informed, Invited, Voiding
  <2>6. QED
    BY <2>2, <2>4, <2>5, FreeRequest DEF IInv, TypeOK
<1>3. ASSUME VoidPrior(q)
      PROVE  IInv'
  <2> DEFINE open == {c \in work.voids : Unused(c)}
             next == [work EXCEPT !.pc = "insert", !.voids = open]
  <2>1. open \in SUBSET Codes /\ "insert" \in Steps
    BY <1>0 DEF Steps, Work
  <2>2. /\ req' = [req EXCEPT ![q] = next]
        /\ work.pc = "lock" /\ UNCHANGED <<profiles, invites, changes>>
        /\ \A c \in work.voids : ~Locked(c)
    BY <1>3 DEF VoidPrior
  <2>3. /\ next \in Work /\ next.pc = "insert" /\ next.profile = work.profile
        /\ next.seen = work.seen /\ next.voids = open
    BY <1>0, <2>1 DEF Work
  <2> HIDE DEF next
  <2>4. Sound(next)
    BY <1>0, <2>2, <2>3 DEF Sound, Informed, Invited, Voiding
  <2>5. \A r \in Requests \ {q} : Apart(next, req[r]) /\ Apart(req[r], next)
    BY <2>2, <2>3 DEF Apart, Locked
  <2>6. QED
    BY <2>2, <2>3, <2>4, <2>5, OneRequest DEF IInv, TypeOK
<1>4. QED
  BY <1>1, <1>2, <1>3

\* What the transaction that generates an invite commits.
LEMMA Insertion ==
    ASSUME IInv, NEW q \in Requests, InsertInvite(q)
    PROVE  LET p == req[q].profile
               voids == req[q].voids
               seen == req[q].seen
           IN /\ p \in Profiles /\ voids \subseteq seen
              /\ req' = [req EXCEPT ![q] = Idle] /\ UNCHANGED <<profiles, changes>>
              /\ invites' \in [Codes -> Invite \cup {None}]
              /\ \A d \in seen : /\ d \in Codes /\ Exists(d) /\ invites[d].profile = p
                                 /\ d \in voids \/ ~Unused(d)
              /\ \E c \in Codes :
                    /\ ~Exists(c) /\ Exists(c)' /\ invites'[c].profile = p
                    /\ ~invites'[c].consumed /\ invites'[c].before = seen
                    /\ \A d \in Codes \ {c} : ~Exists(d) => ~Exists(d)'
              /\ \A d \in Codes : Exists(d) =>
                    /\ Exists(d)' /\ invites'[d].profile = invites[d].profile
                    /\ invites'[d].before = invites[d].before
                    /\ invites'[d].consumed <=> invites[d].consumed \/ d \in voids
<1> USE DEF IInv
<1> DEFINE work == req[q]
<1>1. PICK c \in Codes :
         /\ ~Exists(c)
         /\ invites' = [d \in Codes |->
               IF d = c THEN [profile |-> work.profile, consumed |-> FALSE,
                              expired |-> FALSE, before |-> work.seen]
               ELSE IF d \in work.voids THEN [invites[d] EXCEPT !.consumed = TRUE]
               ELSE invites[d]]
  BY DEF InsertInvite
<1>2. /\ work.pc = "insert" /\ req' = [req EXCEPT ![q] = Idle]
      /\ UNCHANGED <<profiles, changes>>
  BY DEF InsertInvite
<1>3. work \in Work /\ Sound(work)
  BY DEF TypeOK, Requesting
<1>4. work.voids \subseteq Codes /\ work.seen \subseteq Codes /\ work.profile \in Profiles
  BY <1>2, <1>3 DEF Work, Sound, Informed
<1>11. /\ work.voids \subseteq work.seen
      /\ \A d \in work.seen : /\ Exists(d) /\ invites[d].profile = work.profile
                              /\ d \in work.voids \/ ~Unused(d)
  <2>1. Voiding(work)
    BY <1>3 DEF Sound
  <2>2. QED
    BY <1>2, <2>1 DEF Voiding
<1>5. /\ invites'[c] \in Invite /\ invites'[c].profile = work.profile
      /\ ~invites'[c].consumed /\ invites'[c].before = work.seen
  BY <1>1, <1>4 DEF Invite
<1>6. ASSUME NEW d \in Codes \ {c}, Exists(d)
      PROVE  /\ invites'[d] \in Invite /\ invites'[d].profile = invites[d].profile
             /\ invites'[d].before = invites[d].before
             /\ invites'[d].consumed <=> invites[d].consumed \/ d \in work.voids
  <2>1. invites[d] \in Invite
    BY <1>6 DEF Exists, TypeOK
  <2>2. CASE d \in work.voids
    <3>1. invites'[d] = [invites[d] EXCEPT !.consumed = TRUE]
      BY <1>1, <2>2
    <3>2. QED
      BY <2>1, <2>2, <3>1 DEF Invite
  <2>3. CASE d \notin work.voids
    BY <1>1, <2>1, <2>3
  <2>4. QED
    BY <2>2, <2>3
<1>7. \A d \in Codes \ {c} : ~Exists(d) => invites'[d] = None
  <2>1. \A d \in work.voids : Exists(d)
    BY <1>11
  <2>2. QED
    BY <1>1, <2>1 DEF Exists
<1>8. \A d \in Codes : Exists(d) => Exists(d)'
  BY <1>1, <1>6, NoneAssumption DEF Exists
<1>9. invites' \in [Codes -> Invite \cup {None}]
  BY <1>1, <1>5, <1>6, <1>7
<1>10. Exists(c)'
  BY <1>5, NoneAssumption DEF Exists
<1> HIDE DEF work
<1>12. /\ \A d \in Codes \ {c} : ~Exists(d) => ~Exists(d)'
      /\ \A d \in Codes : Exists(d) =>
            /\ Exists(d)' /\ invites'[d].profile = invites[d].profile
            /\ invites'[d].before = invites[d].before
            /\ invites'[d].consumed <=> invites[d].consumed \/ d \in work.voids
  BY <1>1, <1>6, <1>7, <1>8 DEF Exists
<1>13. QED
  BY <1>1, <1>2, <1>4, <1>5, <1>9, <1>10, <1>11, <1>12 DEF work

LEMMA InsertStep ==
    ASSUME IInv, NEW q \in Requests, InsertInvite(q)
    PROVE  IInv'
<1> USE DEF IInv
<1> DEFINE p == req[q].profile
           voids == req[q].voids
           seen == req[q].seen
<1>1. /\ p \in Profiles /\ voids \subseteq seen
      /\ req' = [req EXCEPT ![q] = Idle] /\ UNCHANGED <<profiles, changes>>
      /\ invites' \in [Codes -> Invite \cup {None}]
      /\ \A d \in seen : d \in Codes /\ Exists(d) /\ (d \in voids \/ ~Unused(d))
  BY Insertion
<1>2. PICK c \in Codes :
         /\ ~Exists(c) /\ Exists(c)'
         /\ ~invites'[c].consumed /\ invites'[c].before = seen
         /\ \A d \in Codes \ {c} : ~Exists(d) => ~Exists(d)'
  BY Insertion
<1>3. \A d \in Codes : Exists(d) =>
         /\ Exists(d)' /\ invites'[d].profile = invites[d].profile
         /\ invites'[d].before = invites[d].before
         /\ invites'[d].consumed <=> invites[d].consumed \/ d \in voids
  BY Insertion
<1>4. req[q].pc = "insert" /\ voids = req[q].voids
  BY DEF InsertInvite
<1> HIDE DEF p, voids, seen
<1>5. Replaced'
  <2>1. \A d \in seen : invites'[d].consumed
    BY <1>1, <1>3 DEF Unused
  <2>2. QED
    BY <1>1, <1>2, <1>3, <2>1 DEF Replaced
<1>6. ASSUME NEW d \in Codes, NEW r \in Requests \ {q}, Unused(d),
             req[r].pc \in {"collision", "redeemed"}, req[r].code = d
      PROVE  Unused(d)'
  <2>1. d \notin voids
    BY <1>4, <1>6 DEF Requesting, Apart
  <2>2. QED
    BY <1>3, <1>6, <2>1 DEF Unused
<1>7. Sound(Idle)'
  BY IdleIsWork DEF Sound, Informed, Invited, Voiding
<1>8. \A r \in Requests \ {q} : Apart(Idle, req[r]) /\ Apart(req[r], Idle)
  BY IdleIsWork DEF Apart
<1>9. Unclaimed'
  BY <1>1 DEF Unclaimed
<1>10. changes' \in 0..MaxChanges
  BY <1>1 DEF TypeOK
<1>11. QED
  BY <1>1, <1>3, <1>5, <1>6, <1>7, <1>8, <1>9, <1>10, IdleIsWork, WritingRequest
     DEF TypeOK

-----------------------------------------------------------------------------
(* Redeeming an invite.                                                    *)

LEMMA RedeemStep ==
    ASSUME IInv, NEW q \in Requests,
           \/ \E c \in Codes : StartRedeem(q, c)
           \/ BeginRedemption(q) \/ ConsumeInvite(q) \/ RecheckCollision(q)
    PROVE  IInv'
<1> DEFINE work == req[q]
<1>0. work \in Work /\ Sound(work)
  BY DEF IInv, TypeOK, Requesting
<1>1. ASSUME NEW c \in Codes, StartRedeem(q, c)
      PROVE  IInv'
  <2> DEFINE p == invites[c].profile
             first == [Idle EXCEPT !.pc = "redeem", !.code = c, !.profile = p]
  <2>1. p \in Profiles /\ Exists(c)
    BY <1>1 DEF StartRedeem, Open, Unused, Exists, IInv, TypeOK, Invite
  <2>2. Start(q, first)
    BY <1>1 DEF StartRedeem
  <2>3. /\ first \in Work /\ first.pc = "redeem" /\ first.code = c /\ first.profile = p
    BY <2>1 DEF Idle, Work, Steps
  <2> HIDE DEF first
  <2>4. Sound(first)
    BY <2>1, <2>3 DEF Sound, Informed, Invited, Voiding
  <2>5. QED
    BY <1>1, <2>2, <2>3, <2>4, StartStep DEF StartRedeem
<1>2. ASSUME NEW pc \in {"consume", "collision", "redeemed"}, Goto(q, pc),
             \/ pc = "consume" /\ BeginRedemption(q)
             \/ pc = "collision" /\ ConsumeInvite(q) /\ Unused(work.code)
             \/ pc = "redeemed" /\ RecheckCollision(q)
      PROVE  IInv'
  <2> DEFINE next == [work EXCEPT !.pc = pc]
  <2>1. pc \in Steps
    BY DEF Steps
  <2>2. /\ next \in Work /\ next.pc = pc /\ next.user = work.user
        /\ next.code = work.code /\ next.profile = work.profile
    BY <1>0, <2>1, WorkWith
  <2>3. /\ req' = [req EXCEPT ![q] = next] /\ UNCHANGED <<profiles, invites, changes>>
    BY <1>2 DEF Goto
  <2> HIDE DEF next
  <2>4. Sound(next)
    BY <1>0, <1>2, <2>2
       DEF BeginRedemption, ConsumeInvite, RecheckCollision, Sound, Informed, Invited, Voiding
  <2>5. \A r \in Requests \ {q} : Apart(next, req[r]) /\ Apart(req[r], next)
    <3>1. CASE pc = "consume"
      BY <2>2, <3>1 DEF Apart
    <3>2. CASE pc = "collision"
      BY <1>2, <2>2, <3>2 DEF Apart, ConsumeInvite, Locked
    <3>3. CASE pc = "redeemed"
      BY <1>2, <2>2, <3>3 DEF Apart, RecheckCollision, IInv, Requesting
    <3>4. QED
      BY <3>1, <3>2, <3>3
  <2>6. QED
    BY <2>2, <2>3, <2>4, <2>5, OneRequest DEF IInv, TypeOK
<1>3. QED
  BY <1>1, <1>2, RefuseStep DEF BeginRedemption, ConsumeInvite, RecheckCollision

\* What the transaction that redeems an invite commits.
LEMMA Redemption ==
    ASSUME IInv, NEW q \in Requests, CommitRedemption(q), ~Refuse(q)
    PROVE  LET p == req[q].profile
               c == req[q].code
               next == [req[q] EXCEPT !.pc = "sync"]
           IN /\ p \in Profiles /\ req[q].user \in Users /\ c \in Codes
              /\ Unused(c) /\ p = invites[c].profile /\ Active(p)
              /\ profiles' = Stored(p, req[q].user) /\ Unique(profiles')
              /\ next \in Work /\ next.pc = "sync" /\ next.code = c
              /\ req' = [req EXCEPT ![q] = next] /\ UNCHANGED changes
              /\ invites' \in [Codes -> Invite \cup {None}]
              /\ \A d \in Codes : Exists(d) =>
                    /\ Exists(d)' /\ invites'[d].profile = invites[d].profile
                    /\ invites'[d].before = invites[d].before
                    /\ invites'[d].consumed <=> invites[d].consumed \/ d = c
              /\ \A d \in Codes : ~Exists(d) => ~Exists(d)'
<1> USE DEF IInv
<1> DEFINE p == req[q].profile
           c == req[q].code
           row == [invites[c] EXCEPT !.consumed = TRUE]
<1>1. req[q] \in Work /\ Sound(req[q]) /\ req[q].pc = "redeemed"
  BY DEF TypeOK, Requesting, CommitRedemption
<1>2. /\ c \in Codes /\ Unused(c) /\ p = invites[c].profile /\ req[q].user \in Users
  BY <1>1 DEF Sound, Informed, Invited
<1>3. invites[c] \in Invite
  BY <1>2 DEF Unused, Exists, TypeOK
<1>4. p \in Profiles
  BY <1>2, <1>3 DEF Invite
<1>5. /\ row \in Invite /\ row.profile = invites[c].profile
      /\ row.before = invites[c].before /\ row.consumed
  BY <1>3 DEF Invite
<1>6. /\ Active(p) /\ profiles' = Stored(p, req[q].user) /\ Unique(profiles')
      /\ req' = [req EXCEPT ![q] = [req[q] EXCEPT !.pc = "sync"]] /\ UNCHANGED changes
      /\ invites' = [invites EXCEPT ![c] = row]
  BY DEF CommitRedemption
<1>7. /\ [req[q] EXCEPT !.pc = "sync"] \in Work /\ [req[q] EXCEPT !.pc = "sync"].pc = "sync"
      /\ [req[q] EXCEPT !.pc = "sync"].code = c
  BY <1>1, WorkWith DEF Steps
<1> HIDE DEF row
<1>8. \A d \in Codes : invites'[d] = IF d = c THEN row ELSE invites[d]
  BY <1>6 DEF TypeOK
<1>9. invites' \in [Codes -> Invite \cup {None}]
  BY <1>5, <1>6 DEF TypeOK
<1>10. /\ \A d \in Codes : Exists(d) =>
             /\ Exists(d)' /\ invites'[d].profile = invites[d].profile
             /\ invites'[d].before = invites[d].before
             /\ invites'[d].consumed <=> invites[d].consumed \/ d = c
       /\ \A d \in Codes : ~Exists(d) => ~Exists(d)'
  BY <1>2, <1>5, <1>8, NoneAssumption DEF Exists, Unused
<1>11. QED
  BY <1>2, <1>4, <1>6, <1>7, <1>9, <1>10

LEMMA CommitStep ==
    ASSUME IInv, NEW q \in Requests, CommitRedemption(q), ~Refuse(q)
    PROVE  IInv'
<1> USE DEF IInv
<1> DEFINE p == req[q].profile
           u == req[q].user
           c == req[q].code
           next == [req[q] EXCEPT !.pc = "sync"]
<1>1. /\ p \in Profiles /\ u \in Users /\ c \in Codes
      /\ Unused(c) /\ p = invites[c].profile /\ Active(p)
      /\ profiles' = Stored(p, u) /\ Unique(profiles')
      /\ next \in Work /\ next.pc = "sync" /\ req' = [req EXCEPT ![q] = next]
      /\ UNCHANGED changes
      /\ invites' \in [Codes -> Invite \cup {None}]
  BY Redemption
<1>2. /\ \A d \in Codes : Exists(d) =>
            /\ Exists(d)' /\ invites'[d].profile = invites[d].profile
            /\ invites'[d].before = invites[d].before
            /\ invites'[d].consumed <=> invites[d].consumed \/ d = c
      /\ \A d \in Codes : ~Exists(d) => ~Exists(d)'
  BY Redemption
<1>4. req[q].pc = "redeemed" /\ c = req[q].code
  BY DEF CommitRedemption
<1>w. PICK work \in Work :
         work.pc = "sync" /\ req' = [req EXCEPT ![q] = work]
  BY <1>1
<1> HIDE DEF next, p, u, c
<1>3. /\ profiles' \in [Profiles -> Profile]
      /\ \A r \in Profiles : profiles'[r].token # None => profiles'[r].user # None
      /\ \A r \in Profiles : profiles'[r].state = profiles[r].state
      /\ \A r \in Profiles : profiles[r].user # None => profiles'[r].user = profiles[r].user
      /\ \A r \in Profiles \ {p} : profiles'[r] = profiles[r]
  BY <1>1, StoredShape
<1>5. Unclaimed'
  BY <1>1, <1>3 DEF Unclaimed, Active
<1>7. Replaced'
  BY <1>2 DEF Replaced
<1>8. Sound(work)'
  BY <1>w DEF Sound, Informed, Invited, Voiding
<1>9. \A r \in Requests \ {q} : Apart(work, req[r]) /\ Apart(req[r], work)
  BY <1>w DEF Apart
<1>10. ASSUME NEW d \in Codes, NEW r \in Requests \ {q}, Unused(d),
              req[r].pc \in {"collision", "redeemed"}, req[r].code = d
       PROVE  Unused(d)'
  <2>1. d # c
    BY <1>4, <1>10 DEF Requesting, Apart
  <2>2. QED
    BY <1>2, <1>10, <2>1 DEF Unused
<1>11. changes' \in 0..MaxChanges
  BY <1>1 DEF TypeOK
<1>12. QED
  BY <1>1, <1>2, <1>3, <1>w, <1>5, <1>7, <1>8, <1>9, <1>10, <1>11, WritingRequest

-----------------------------------------------------------------------------

LEMMA InvariantStep ==
    ASSUME IInv, [Next]_vars
    PROVE  IInv'
<1>1. ASSUME NEW q \in Requests, Connect(q)
      PROVE  IInv'
  BY <1>1, ConnectStep, StoreStep DEF Connect
<1>2. ASSUME NEW q \in Requests, Generate(q)
      PROVE  IInv'
  BY <1>2, FindStep, InsertStep DEF Generate
<1>3. ASSUME NEW q \in Requests, Redeem(q)
      PROVE  IInv'
  BY <1>3, RedeemStep, CommitStep, RefuseStep DEF Redeem
<1>4. ASSUME NEW q \in Requests, QueueSync(q) \/ Cancel(q)
      PROVE  IInv'
  BY <1>4, RefuseStep DEF QueueSync, Cancel
<1>5. CASE UNCHANGED vars
  BY <1>5
     DEF vars, IInv, TypeOK, Requesting, Sound, Informed, Invited, Voiding, Apart, Replaced,
         Unclaimed, Unused, Exists
<1>6. QED
  BY <1>1, <1>2, <1>3, <1>4, <1>5, ExpireStep, ProfileStep DEF Next

LEMMA InvariantInit == Init => IInv
<1> SUFFICES ASSUME Init PROVE IInv
  OBVIOUS
<1>1. TypeOK
  BY IdleIsWork, TokensAssumption DEF Init, TypeOK, Profile
<1>2. Requesting
  BY IdleIsWork DEF Init, Requesting, Sound, Informed, Invited, Voiding, Apart
<1>3. Replaced /\ Unclaimed
  BY DEF Init, Replaced, Unclaimed, Exists
<1>4. QED
  BY <1>1, <1>2, <1>3 DEF IInv

\* What a request has read stays true of the rows for as long as the request
\* relies on it, and a replaced invite is dead.
THEOREM InvariantCorrect == Spec => []IInv
BY InvariantInit, InvariantStep, PTL DEF Spec

\* Every state has the declared shape, and a stored token is somebody's.
THEOREM TypeCorrect == Spec => []TypeOK
<1>1. IInv => TypeOK
  BY DEF IInv
<1>2. QED
  BY <1>1, InvariantCorrect, PTL

-----------------------------------------------------------------------------
\* Other requests rest.
LEMMA OthersRest ==
    ASSUME TypeOK, NEW r \in Requests,
           \/ Connect(r) \/ Generate(r) \/ Redeem(r) \/ QueueSync(r) \/ Cancel(r)
           \/ \E p \in Profiles : CreateProfile(r, p) \/ SoftDelete(r, p)
    PROVE  \A q \in Requests \ {r} : req'[q] = req[q]
BY DEF TypeOK, Connect, Generate, Redeem, QueueSync, Cancel, CreateProfile, SoftDelete,
       StartConnect, StartSetPat, TestSync, CheckCollision, CompareUser, LookUpProfile,
       StoreToken, StartGenerate, LookForPrior, VoidPrior, InsertInvite, StartRedeem,
       BeginRedemption, ConsumeInvite, RecheckCollision, CommitRedemption, Start, Goto, Refuse

-----------------------------------------------------------------------------
(* Rotations.                                                              *)

\* A token is stored, and the request answered, by the UPDATE.
LEMMA StoringStep ==
    ASSUME IInv, [Next]_vars, NEW q \in Requests,
           req[q].pc = "store", req'[q].pc = "sync", profiles' # profiles
    PROVE  StoreToken(q) /\ profiles' = Stored(req[q].profile, req[q].user)
<1>1. ~UNCHANGED req
  OBVIOUS
<1>2. PICK r \in Requests :
         \/ Connect(r) \/ Generate(r) \/ Redeem(r) \/ QueueSync(r) \/ Cancel(r)
         \/ \E p \in Profiles : CreateProfile(r, p) \/ SoftDelete(r, p)
  BY <1>1 DEF Next, vars, Expire
<1>3. r = q
  BY <1>2, OthersRest DEF IInv
<1>4. StoreToken(q)
  BY <1>2, <1>3
     DEF Connect, Generate, Redeem, QueueSync, Cancel, CreateProfile, SoftDelete,
         StartConnect, StartSetPat, TestSync, CheckCollision, CompareUser, LookUpProfile,
         StartGenerate, LookForPrior, VoidPrior, InsertInvite, StartRedeem,
         BeginRedemption, ConsumeInvite, RecheckCollision, CommitRedemption, Start, Refuse
<1>5. QED
  BY <1>4 DEF StoreToken, Goto, Refuse

\* The user a rotation has compared with is still the profile's when the token
\* is stored: no way of storing a token changes the user of a profile.
THEOREM RotationCorrect == Spec => RotationMatches
<1>1. ASSUME IInv, [Next]_vars, NEW q \in Requests,
             req[q].pc = "store", req[q].known # None,
             req'[q].pc = "sync", profiles' # profiles
      PROVE  LET row == profiles'[req[q].profile]
             IN row.token = row.user /\ row.user = req[q].known
  <2> DEFINE p == req[q].profile
             u == req[q].user
  <2>1. profiles' = Stored(p, u)
    BY <1>1, StoringStep
  <2>2. p \in Profiles /\ u \in Users /\ u = req[q].known /\ profiles[p].user = req[q].known
    BY <1>1 DEF IInv, Requesting, Sound, Informed
  <2>3. Stored(p, u)[p].token = u /\ Stored(p, u)[p].user = profiles[p].user
    BY <1>1, <2>2, StoredShape DEF IInv
  <2>4. QED
    BY <2>1, <2>2, <2>3
<1>2. IInv /\ [Next]_vars =>
         (\A q \in Requests :
            /\ req[q].pc = "store" /\ req[q].known # None
            /\ req'[q].pc = "sync" /\ profiles' # profiles
            => LET row == profiles'[req[q].profile]
               IN row.token = row.user /\ row.user = req[q].known)
  BY <1>1
<1>3. QED
  BY <1>2, InvariantCorrect, PTL DEF Spec, RotationMatches

-----------------------------------------------------------------------------
(* The steps that use up an invite.                                        *)

\* A redemption is answered "connected" by the step that commits it.
LEMMA RedeemedStep ==
    ASSUME IInv, [Next]_vars, NEW q \in Requests,
           req[q].pc = "redeemed", req'[q].pc = "sync"
    PROVE  CommitRedemption(q) /\ ~Refuse(q)
<1>1. ~Refuse(q)
  BY IdleIsWork DEF Refuse, IInv, TypeOK
<1>2. ~UNCHANGED req
  OBVIOUS
<1>3. PICK r \in Requests :
         \/ Connect(r) \/ Generate(r) \/ Redeem(r) \/ QueueSync(r) \/ Cancel(r)
         \/ \E p \in Profiles : CreateProfile(r, p) \/ SoftDelete(r, p)
  BY <1>2 DEF Next, vars, Expire
<1>4. r = q
  BY <1>3, OthersRest DEF IInv
<1>5. QED
  BY <1>1, <1>3, <1>4
     DEF Connect, Generate, Redeem, QueueSync, Cancel, CreateProfile, SoftDelete,
         StartConnect, StartSetPat, TestSync, CheckCollision, CompareUser, LookUpProfile,
         StoreToken, StartGenerate, LookForPrior, VoidPrior, InsertInvite, StartRedeem,
         BeginRedemption, ConsumeInvite, RecheckCollision, Start

\* Only generations and redemptions use up invites.
LEMMA UsingStep ==
    ASSUME IInv, [Next]_vars, NEW c \in Codes, Unused(c), ~Unused(c)'
    PROVE  \E q \in Requests : InsertInvite(q) \/ (CommitRedemption(q) /\ ~Refuse(q))
<1>1. invites' # invites
  BY DEF Unused, Exists
<1>2. ~ \E d \in Codes : Expire(d)
  <2>1. ASSUME NEW d \in Codes, Expire(d)
        PROVE  Unused(c)' <=> Unused(c)
    BY <2>1, Expiry DEF IInv
  <2>2. QED
    BY <2>1
<1>3. \A q \in Requests : ~Refuse(q)
  BY <1>1 DEF Refuse
<1>4. \A q \in Requests : ~Connect(q)
  BY <1>1, <1>3
     DEF Connect, StartConnect, StartSetPat, TestSync, CheckCollision, CompareUser,
         LookUpProfile, StoreToken, Goto
<1>5. \A q \in Requests : Generate(q) => InsertInvite(q)
  BY <1>1 DEF Generate, StartGenerate, LookForPrior, VoidPrior
<1>6. \A q \in Requests : Redeem(q) => CommitRedemption(q)
  BY <1>1, <1>3 DEF Redeem, StartRedeem, BeginRedemption, ConsumeInvite, RecheckCollision, Goto
<1>7. QED
  BY <1>1, <1>2, <1>3, <1>4, <1>5, <1>6
     DEF Next, vars, QueueSync, Cancel, CreateProfile, SoftDelete

\* An invite is used by the step that stores its token, or by the generation
\* of another one for its profile, and by nothing else.
THEOREM RedemptionCorrect == Spec => RedemptionIsAtomic
<1>1. ASSUME IInv, [Next]_vars, NEW c \in Codes, Unused(c), ~Unused(c)'
      PROVE  Redeemed(c) \/ Superseded(c)
  <2>1. PICK q \in Requests : InsertInvite(q) \/ (CommitRedemption(q) /\ ~Refuse(q))
    BY <1>1, UsingStep
  <2>2. CASE InsertInvite(q)
    <3>1. c \in req[q].voids /\ invites[c].profile = req[q].profile
      BY <1>1, <2>2, Insertion DEF Unused
    <3>2. QED
      BY <1>1, <2>2, <3>1, Insertion DEF Superseded
  <2>3. CASE CommitRedemption(q) /\ ~Refuse(q)
    <3> DEFINE p == req[q].profile
    <3>1. /\ p \in Profiles /\ req[q].user \in Users /\ Active(p)
          /\ p = invites[req[q].code].profile /\ profiles' = Stored(p, req[q].user)
          /\ req'[q].pc = "sync"
      BY <1>1, <2>3, Redemption DEF IInv, TypeOK
    <3>2. req[q].code = c /\ invites'[c].profile = invites[c].profile
      BY <1>1, <2>3, Redemption DEF Unused
    <3>3. profiles'[p].token = req[q].user /\ profiles'[p].state = profiles[p].state
      BY <1>1, <3>1, StoredShape DEF IInv
    <3>4. req[q].pc = "redeemed"
      BY <2>3 DEF CommitRedemption
    <3>5. QED
      BY <3>1, <3>2, <3>3, <3>4 DEF Active, Redeemed
  <2>4. QED
    BY <2>1, <2>2, <2>3
<1>2. ASSUME IInv, [Next]_vars, NEW q \in Requests,
             req[q].pc = "redeemed", req'[q].pc = "sync"
      PROVE  Unused(req[q].code) /\ ~Unused(req[q].code)'
  <2>1. CommitRedemption(q) /\ ~Refuse(q)
    BY <1>2, RedeemedStep
  <2> DEFINE c == req[q].code
  <2>2. c \in Codes /\ Unused(c) /\ invites'[c].consumed
    BY <1>2, <2>1, Redemption DEF Unused
  <2>3. req'[q].code = c
    BY <1>2, <2>1, Redemption DEF IInv, TypeOK
  <2>4. QED
    BY <2>2, <2>3 DEF Unused
<1>3. IInv /\ [Next]_vars =>
         /\ \A c \in Codes : Unused(c) /\ ~Unused(c)' => Redeemed(c) \/ Superseded(c)
         /\ \A q \in Requests : req[q].pc = "redeemed" /\ req'[q].pc = "sync"
                               => Unused(req[q].code) /\ ~Unused(req[q].code)'
  BY <1>1, <1>2
<1>4. QED
  BY <1>3, InvariantCorrect, PTL DEF Spec, RedemptionIsAtomic

\* A replaced invite stores no token.
THEOREM SupersededCorrect == Spec => SupersededIsDead
<1>1. ASSUME IInv, [Next]_vars, NEW q \in Requests,
             req[q].pc = "redeemed", req'[q].pc = "sync",
             NEW d \in Codes, Exists(d)
      PROVE  req[q].code \notin invites[d].before
  <2>1. req[q].code \in Codes /\ Unused(req[q].code)
    BY <1>1 DEF IInv, Requesting, Sound, Invited
  <2>2. QED
    BY <1>1, <2>1 DEF IInv, Replaced, Unused
<1>2. IInv /\ [Next]_vars =>
         (\A q \in Requests :
            req[q].pc = "redeemed" /\ req'[q].pc = "sync"
            => \A d \in Codes : Exists(d) /\ invites[d].profile = req[q].profile
                                => req[q].code \notin invites[d].before)
  BY <1>1
<1>3. QED
  BY <1>2, InvariantCorrect, PTL DEF Spec, SupersededIsDead
=============================================================================

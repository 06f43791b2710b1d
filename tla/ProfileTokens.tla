---------------------------- MODULE ProfileTokens ----------------------------
(***************************************************************************)
(* Access tokens of discogsography and the invites by which the owner of a *)
(* collection hands one in (api/invite_codes.py, api/admin/profiles.py,    *)
(* cli/set_pat.py; migrations 0009 and 0012).                              *)
(*                                                                         *)
(* Every way of storing a token asks discogsography whose it is, a request *)
(* over HTTP during which no connection of the pool is held: what was read *)
(* before it may be stale after.  A token is modelled by the user it       *)
(* belongs to.  The statements of a transaction are separate steps; the    *)
(* last one is taken with its COMMIT.  NOW() is the start of the           *)
(* transaction.                                                            *)
(***************************************************************************)
EXTENDS Naturals, FiniteSets

CONSTANTS
    Profiles,
    Default,     \* the profile that cannot be deleted
    Users,       \* users of discogsography
    Codes,       \* the invites generated
    Requests,    \* requests, and runs of gruvax-set-pat, at the same time
    MaxChanges,  \* bound on the requests
    None

ASSUME TokensAssumption ==
    /\ MaxChanges \in Nat
    /\ Default \in Profiles
    /\ None \notin Users \cup Profiles \cup Codes

VARIABLES
    profiles,  \* gruvax.profiles
    invites,   \* gruvax.profile_invite_codes: a row, or None
    req,       \* what each request in flight has read
    changes    \* requests so far

vars == <<profiles, invites, req, changes>>

Profile == [state : {"absent", "active", "deleted"},
            user : Users \cup {None}, token : Users \cup {None}]

\* before: the invites this one's generation found to void (history).
Invite == [profile : Profiles, consumed : BOOLEAN, expired : BOOLEAN,
           before : SUBSET Codes]

\* None stands for a row that is not there.
ASSUME NoneAssumption == None \notin Invite

Steps == {"idle", "connect", "rotate", "set_pat", "redeem", "check", "compare",
          "lookup", "store", "commit_pat", "sync", "void", "lock", "insert",
          "begin", "consume", "collision", "redeemed"}

Work == [pc : Steps, profile : Profiles \cup {None}, user : Users \cup {None},
         known : Users \cup {None}, code : Codes \cup {None},
         seen : SUBSET Codes, voids : SUBSET Codes]

Idle == [pc |-> "idle", profile |-> None, user |-> None, known |-> None,
         code |-> None, seen |-> {}, voids |-> {}]

Init ==
    /\ profiles = [p \in Profiles |->
          [state |-> IF p = Default THEN "active" ELSE "absent",
           user |-> None, token |-> None]]
    /\ invites = [c \in Codes |-> None]
    /\ req = [q \in Requests |-> Idle]
    /\ changes = 0

-----------------------------------------------------------------------------

Active(p) == profiles[p].state = "active"
Exists(c) == invites[c] # None
Unused(c) == Exists(c) /\ ~invites[c].consumed
Open(c) == Unused(c) /\ ~invites[c].expired /\ Active(invites[c].profile)

\* Rows of invites locked by a transaction that has written them.
Locked(c) ==
    \E q \in Requests :
        \/ req[q].pc \in {"collision", "redeemed"} /\ req[q].code = c
        \/ req[q].pc = "insert" /\ c \in req[q].voids

\* uq_profiles_dgs_user_id_active.
Unique(table) ==
    \A p, r \in Profiles :
        p # r /\ table[p].state = "active" /\ table[r].state = "active"
        => table[p].user = None \/ table[p].user # table[r].user

\* Another active profile is of this user.
Collides(p, u) == \E r \in Profiles \ {p} : Active(r) /\ profiles[r].user = u

\* The UPDATE that stores a token; COALESCE keeps the user of the profile.
Stored(p, u) ==
    [profiles EXCEPT ![p] =
        [state |-> @.state, token |-> u,
         user |-> IF @.user = None THEN u ELSE @.user]]

Start(q, record) ==
    /\ req[q].pc = "idle"
    /\ changes < MaxChanges
    /\ changes' = changes + 1
    /\ req' = [req EXCEPT ![q] = record]

Goto(q, pc) ==
    /\ req' = [req EXCEPT ![q] = [@ EXCEPT !.pc = pc]]
    /\ UNCHANGED <<profiles, invites, changes>>

\* An error response; a transaction that was open is rolled back.
Refuse(q) ==
    /\ req' = [req EXCEPT ![q] = Idle]
    /\ UNCHANGED <<profiles, invites, changes>>

-----------------------------------------------------------------------------
(* Profiles.                                                               *)

CreateProfile(q, p) ==
    /\ profiles[p].state = "absent"
    /\ Start(q, Idle)
    /\ profiles' = [profiles EXCEPT ![p].state = "active"]
    /\ UNCHANGED invites

SoftDelete(q, p) ==
    /\ Active(p) /\ p # Default
    /\ Start(q, Idle)
    /\ profiles' = [profiles EXCEPT ![p].state = "deleted"]
    /\ UNCHANGED invites

-----------------------------------------------------------------------------
(* connect_pat, rotate_pat and gruvax-set-pat.                             *)

\* _require_profile; rotate also reads the profile's user.
StartConnect(q, p) ==
    /\ Active(p)
    /\ \E pc \in {"connect", "rotate"} :
          Start(q, [Idle EXCEPT !.pc = pc, !.profile = p,
                                !.known = IF pc = "rotate" THEN profiles[p].user ELSE None])
    /\ UNCHANGED <<profiles, invites>>

\* The command line tool validates first and looks for the profile after.
StartSetPat(q) ==
    /\ Start(q, [Idle EXCEPT !.pc = "set_pat"])
    /\ UNCHANGED <<profiles, invites>>

\* Where a request goes on once the token has been tested.
Tested(pc) ==
    CASE pc = "connect" -> "check"
      [] pc = "rotate"  -> "compare"
      [] pc = "set_pat" -> "lookup"
      [] pc = "redeem"  -> "begin"

\* _run_test_sync: discogsography refuses the token or names its user.
TestSync(q) ==
    /\ req[q].pc \in {"connect", "rotate", "set_pat", "redeem"}
    /\ \/ Refuse(q)
       \/ \E u \in Users :
            /\ req' = [req EXCEPT ![q] = [@ EXCEPT !.pc = Tested(req[q].pc), !.user = u]]
            /\ UNCHANGED <<profiles, invites, changes>>

\* connect_pat: 409 user_id_collision.
CheckCollision(q) ==
    /\ req[q].pc = "check"
    /\ IF Collides(req[q].profile, req[q].user) THEN Refuse(q) ELSE Goto(q, "store")

\* Mutant: the check of connect_pat, in place of its own.
CompareCollision(q) ==
    /\ req[q].pc = "compare"
    /\ IF Collides(req[q].profile, req[q].user) THEN Refuse(q) ELSE Goto(q, "store")

\* rotate_pat: 409 user_id_mismatch, by the user read before the HTTP request.
CompareUser(q) ==
    /\ req[q].pc = "compare"
    /\ IF req[q].known \notin {None, req[q].user} THEN Refuse(q) ELSE Goto(q, "store")

\* _commit_pat: its own connection; the profile by its name, then by its id.
LookUpProfile(q) ==
    /\ req[q].pc = "lookup"
    /\ \/ Refuse(q)
       \/ \E p \in Profiles :
            /\ Active(p)
            /\ profiles[p].user \in {None, req[q].user}
            /\ req' = [req EXCEPT ![q] = [@ EXCEPT !.pc = "commit_pat", !.profile = p]]
            /\ UNCHANGED <<profiles, invites, changes>>

\* The UPDATE and its COMMIT; the API touches no deleted profile, and answers
\* "connected" even so.  A violation of the index is an error.
StoreToken(q) ==
    /\ req[q].pc \in {"store", "commit_pat"}
    /\ LET p == req[q].profile
           table == Stored(p, req[q].user)
       IN IF req[q].pc = "store" /\ ~Active(p)
          THEN Goto(q, "sync")
          ELSE IF Unique(table)
          THEN /\ profiles' = table
               /\ req' = IF req[q].pc = "store" THEN [req EXCEPT ![q] = [@ EXCEPT !.pc = "sync"]]
                         ELSE [req EXCEPT ![q] = Idle]
               /\ UNCHANGED <<invites, changes>>
          ELSE Refuse(q)

-----------------------------------------------------------------------------
(* generate_invite.                                                        *)

StartGenerate(q, p) ==
    /\ Active(p)
    /\ Start(q, [Idle EXCEPT !.pc = "void", !.profile = p])
    /\ UNCHANGED <<profiles, invites>>

\* _VOID_PRIOR_INVITE starts: the rows it sees are the ones it will void.
LookForPrior(q) ==
    /\ req[q].pc = "void"
    /\ LET prior == {c \in Codes : /\ Unused(c) /\ ~invites[c].expired
                                   /\ invites[c].profile = req[q].profile}
       IN req' = [req EXCEPT ![q] =
                        [@ EXCEPT !.pc = "lock", !.seen = prior, !.voids = prior]]
    /\ UNCHANGED <<profiles, invites, changes>>

\* Mutant: rows that another transaction has locked are skipped.
VoidUnlocked(q) ==
    /\ req[q].pc = "lock"
    /\ req' = [req EXCEPT ![q] =
          [@ EXCEPT !.pc = "insert",
                     !.voids = {c \in req[q].voids : Unused(c) /\ ~Locked(c)}]]
    /\ UNCHANGED <<profiles, invites, changes>>

\* ... waits for their locks, and voids those still unused.
VoidPrior(q) ==
    /\ req[q].pc = "lock"
    /\ \A c \in req[q].voids : ~Locked(c)
    /\ req' = [req EXCEPT ![q] =
          [@ EXCEPT !.pc = "insert", !.voids = {c \in req[q].voids : Unused(c)}]]
    /\ UNCHANGED <<profiles, invites, changes>>

\* The new invite and the voided ones are visible together.
InsertInvite(q) ==
    /\ req[q].pc = "insert"
    /\ \E c \in Codes :
          /\ ~Exists(c)
          /\ invites' = [d \in Codes |->
                IF d = c THEN [profile |-> req[q].profile, consumed |-> FALSE,
                               expired |-> FALSE, before |-> req[q].seen]
                ELSE IF d \in req[q].voids THEN [invites[d] EXCEPT !.consumed = TRUE]
                ELSE invites[d]]
    /\ req' = [req EXCEPT ![q] = Idle]
    /\ UNCHANGED <<profiles, changes>>

\* An hour passes.
Expire(c) ==
    /\ Exists(c) /\ ~invites[c].expired
    /\ invites' = [invites EXCEPT ![c].expired = TRUE]
    /\ UNCHANGED <<profiles, req, changes>>

-----------------------------------------------------------------------------
(* redeem_invite.                                                          *)

\* _SELECT_REDEEM_PROFILE, outside the transaction that consumes.
StartRedeem(q, c) ==
    /\ Open(c)
    /\ Start(q, [Idle EXCEPT !.pc = "redeem", !.code = c, !.profile = invites[c].profile])
    /\ UNCHANGED <<profiles, invites>>

\* The transaction and _CONSUME_INVITE start: what they see ...
BeginRedemption(q) ==
    /\ req[q].pc = "begin"
    /\ IF Open(req[q].code) THEN Goto(q, "consume") ELSE Refuse(q)

\* ... and consumed_at once more when the row's lock is free: the first wins.
ConsumeInvite(q) ==
    /\ req[q].pc = "consume"
    /\ ~Locked(req[q].code)
    /\ IF Unused(req[q].code) THEN Goto(q, "collision") ELSE Refuse(q)

RecheckCollision(q) ==
    /\ req[q].pc = "collision"
    /\ IF Collides(req[q].profile, req[q].user) THEN Refuse(q) ELSE Goto(q, "redeemed")

\* Mutant: without the test of rowcount.
CommitUnchecked(q) ==
    /\ req[q].pc = "redeemed"
    /\ LET p == req[q].profile
           table == IF Active(p) THEN Stored(p, req[q].user) ELSE profiles
       IN IF Unique(table)
          THEN /\ profiles' = table
               /\ invites' = [invites EXCEPT ![req[q].code].consumed = TRUE]
               /\ req' = [req EXCEPT ![q] = [@ EXCEPT !.pc = "sync"]]
               /\ UNCHANGED changes
          ELSE Refuse(q)

\* The token is stored and the consumption committed, or neither: not for a
\* profile deleted meanwhile (404), not against the index (409).
CommitRedemption(q) ==
    /\ req[q].pc = "redeemed"
    /\ LET p == req[q].profile
           table == Stored(p, req[q].user)
       IN IF Active(p) /\ Unique(table)
          THEN /\ profiles' = table
               /\ invites' = [invites EXCEPT ![req[q].code].consumed = TRUE]
               /\ req' = [req EXCEPT ![q] = [@ EXCEPT !.pc = "sync"]]
               /\ UNCHANGED changes
          ELSE Refuse(q)

\* "connected" has been answered; the background sync takes over.
QueueSync(q) == req[q].pc = "sync" /\ Refuse(q)

\* The request is cancelled or its connection lost before the COMMIT.
Cancel(q) == req[q].pc \notin {"idle", "sync"} /\ Refuse(q)

-----------------------------------------------------------------------------

Connect(q) ==
    \/ \E p \in Profiles : StartConnect(q, p)
    \/ StartSetPat(q)
    \/ TestSync(q)
    \/ CheckCollision(q)
    \/ CompareUser(q)
    \/ LookUpProfile(q)
    \/ StoreToken(q)

Generate(q) ==
    \/ \E p \in Profiles : StartGenerate(q, p)
    \/ LookForPrior(q)
    \/ VoidPrior(q)
    \/ InsertInvite(q)

Redeem(q) ==
    \/ \E c \in Codes : StartRedeem(q, c)
    \/ BeginRedemption(q)
    \/ ConsumeInvite(q)
    \/ RecheckCollision(q)
    \/ CommitRedemption(q)

Next ==
    \/ \E c \in Codes : Expire(c)
    \/ \E q \in Requests :
          \/ Connect(q) \/ Generate(q) \/ Redeem(q) \/ QueueSync(q) \/ Cancel(q)
          \/ \E p \in Profiles : CreateProfile(q, p) \/ SoftDelete(q, p)

Spec == Init /\ [][Next]_vars

-----------------------------------------------------------------------------

\* With a token comes a user, whichever way it was stored.
TypeOK ==
    /\ profiles \in [Profiles -> Profile]
    /\ \A p \in Profiles : profiles[p].token # None => profiles[p].user # None
    /\ invites \in [Codes -> Invite \cup {None}]
    /\ req \in [Requests -> Work]
    /\ changes \in 0..MaxChanges

\* A rotation that has found the user of its profile stores a token of that user,
\* and of the one the profile has then, whatever connects, redemptions, other
\* rotations and the command line have stored between its reading of the user and
\* its UPDATE: rotate_pat "requires the captured user_id to match".
RotationMatches ==
    [][\A q \in Requests :
          /\ req[q].pc = "store" /\ req[q].known # None
          /\ req'[q].pc = "sync" /\ profiles' # profiles
          => LET row == profiles'[req[q].profile]
             IN row.token = row.user /\ row.user = req[q].known]_vars

\* In this step a redemption of the invite stores its token.
Redeemed(c) ==
    \E q \in Requests :
        /\ req[q].pc = "redeemed" /\ req[q].code = c /\ req'[q].pc = "sync"
        /\ profiles'[invites[c].profile].token = req[q].user
        /\ Active(invites[c].profile)'

\* In this step another invite for the same profile appears.
Superseded(c) ==
    \E d \in Codes : ~Exists(d) /\ Exists(d)' /\ invites'[d].profile = invites[c].profile

\* A redemption consumes its invite in the step that stores its token in a
\* profile that is active, and answers "connected" only then; an invite is
\* otherwise consumed only by the generation of another one for the same
\* profile.  A redemption refused for any reason leaves the invite usable.
RedemptionIsAtomic ==
    [][/\ \A c \in Codes : Unused(c) /\ ~Unused(c)' => Redeemed(c) \/ Superseded(c)
       /\ \A q \in Requests : req[q].pc = "redeemed" /\ req'[q].pc = "sync"
                             => Unused(req[q].code) /\ ~Unused(req[q].code)']_vars

\* An invite that the generation of another one found open never stores a token
\* once that one is given out, even when its redemption was under way:
\* generate_invite voids the prior one (D-09).
SupersededIsDead ==
    [][\A q \in Requests :
          req[q].pc = "redeemed" /\ req'[q].pc = "sync"
          => \A d \in Codes : Exists(d) /\ invites[d].profile = req[q].profile
                              => req[q].code \notin invites[d].before]_vars

=============================================================================

----------------------------- MODULE AdminAccess -----------------------------
(***************************************************************************)
(* Admin sessions, the PIN and the global settings (auth/sessions.py,      *)
(* auth/session_policy.py, require_admin in api/deps.py,                   *)
(* api/admin/login.py, api/admin/settings.py, import_settings in           *)
(* api/admin/import_.py).                                                  *)
(*                                                                         *)
(* A request of the admin is checked on one connection, slides its session *)
(* on a second one and does its work on a third: other requests, and time, *)
(* pass in between.  Expiry times are modelled by the time left, of which  *)
(* Tick takes one from everything; -1 is past.  Whether a PIN is the right *)
(* one is left open, and so is the session policy in force: the cache of   *)
(* the settings may lag behind the table.                                  *)
(***************************************************************************)
EXTENDS Integers, FiniteSetsExt

CONSTANTS
    Sessions,    \* rows of gruvax.admin_sessions
    Requests,    \* requests at the same time
    IdleTTLs,    \* values of session.idle_ttl_seconds
    HardCaps,    \* values of session.hard_cap_seconds
    None

ASSUME AccessAssumption ==
    /\ IdleTTLs # {} /\ IdleTTLs \subseteq Nat \ {0}
    /\ HardCaps # {} /\ HardCaps \subseteq Nat \ {0}
    /\ IsFiniteSet(HardCaps)
    /\ None \notin Sessions
    /\ None \notin {"idle", "cap", "pin"}

VARIABLES
    sessions,   \* gruvax.admin_sessions: a row, or None
    req         \* what each request in flight has read

vars == <<sessions, req>>

\* Two of the keys of the settings, in the order of key_map.
Keys == {"idle", "cap"}
Left == -1..Max(HardCaps)

Session == [idle : Left, hard : Left, revoked : BOOLEAN]

\* None stands for a row that is not there.
ASSUME NoneAssumption == None \notin Session

Work == [pc : {"idle", "create", "slide", "handler", "write", "pin", "commit_pin"},
         session : Sessions \cup {None}, left : Left,
         keys : SUBSET Keys, todo : SUBSET Keys, next : Keys \cup {None}, file : BOOLEAN,
         others : SUBSET Sessions]

Idle == [pc |-> "idle", session |-> None, left |-> -1, keys |-> {}, todo |-> {},
         next |-> None, file |-> FALSE, others |-> {}]

Init ==
    /\ sessions = [s \in Sessions |-> None]
    /\ req = [q \in Requests |-> Idle]

-----------------------------------------------------------------------------

Exists(s) == sessions[s] # None

\* The row passes require_admin.
Valid(s) == Exists(s) /\ ~sessions[s].revoked /\ sessions[s].idle >= 0 /\ sessions[s].hard >= 0

\* Mutant: the idle time is not cut at the hard cap.
WholeIdle(hard) == IdleTTLs

\* min(now + idle_ttl, hard_expires_at), whichever policy is in force.
IdleLeft(hard) == {Min({idle, hard}) : idle \in IdleTTLs}

\* Row locks of open transactions.
KeysHeld(q) ==
    IF req[q].pc = "commit_pin" THEN {"pin"} ELSE req[q].keys \ req[q].todo
Free(q, k) == \A r \in Requests \ {q} : k \notin KeysHeld(r)
SessionFree(s) == \A r \in Requests : s \notin req[r].others

Goto(q, record) ==
    /\ req' = [req EXCEPT ![q] = record]
    /\ UNCHANGED sessions

Answer(q) == Goto(q, Idle)

-----------------------------------------------------------------------------
(* login.                                                                  *)

\* The rate limit admits the attempt and the PIN is right; otherwise nothing
\* changes (429, 401).  The bound is on the rows.
Login(q) ==
    /\ req[q].pc = "idle"
    /\ Cardinality({s \in Sessions : ~Exists(s)})
         > Cardinality({r \in Requests : req[r].pc = "create"})
    /\ Goto(q, [Idle EXCEPT !.pc = "create"])

\* create_session.
CreateSession(q) ==
    /\ req[q].pc = "create"
    /\ \E s \in Sessions, cap \in HardCaps : \E idle \in IdleLeft(cap) :
          /\ ~Exists(s)
          /\ sessions' = [sessions EXCEPT ![s] =
                [hard |-> cap, idle |-> idle, revoked |-> FALSE]]
    /\ req' = [req EXCEPT ![q] = Idle]

-----------------------------------------------------------------------------
(* require_admin.                                                          *)

\* The row is read, its connection released; what it will be slid to is fixed.
Check(q, s) ==
    /\ req[q].pc = "idle"
    /\ Valid(s)
    /\ \E left \in IdleLeft(sessions[s].hard) :
          Goto(q, [Idle EXCEPT !.pc = "slide", !.session = s, !.left = left])

\* Mutant: the row that was read is written back whole.
SlideRow(q) ==
    /\ req[q].pc = "slide" /\ SessionFree(req[q].session)
    /\ sessions' = [sessions EXCEPT ![req[q].session].idle = req[q].left,
                                    ![req[q].session].revoked = FALSE]
    /\ req' = [req EXCEPT ![q] = [@ EXCEPT !.pc = "handler", !.left = -1]]

\* Mutant: a request renews the hard cap.
SlideCap(q) ==
    /\ req[q].pc = "slide" /\ SessionFree(req[q].session)
    /\ LET s == req[q].session
       IN \E cap \in IF sessions[s].hard < 0 THEN {-1} ELSE HardCaps :
             sessions' = [sessions EXCEPT ![s].idle = cap, ![s].hard = cap]
    /\ req' = [req EXCEPT ![q] = [@ EXCEPT !.pc = "handler", !.left = -1]]

\* UPDATE of last_seen_at and expires_at, whatever the row has become.
Slide(q) ==
    /\ req[q].pc = "slide" /\ SessionFree(req[q].session)
    /\ sessions' = [sessions EXCEPT ![req[q].session].idle = req[q].left]
    /\ req' = [req EXCEPT ![q] = [@ EXCEPT !.pc = "handler", !.left = -1]]

-----------------------------------------------------------------------------
(* The handlers.                                                           *)

\* get_settings, get_session, a PIN that is wrong, and what other modules model.
OtherHandler(q) == req[q].pc = "handler" /\ Answer(q)

Logout(q) ==
    /\ req[q].pc = "handler" /\ SessionFree(req[q].session)
    /\ sessions' = [sessions EXCEPT ![req[q].session].revoked = TRUE]
    /\ req' = [req EXCEPT ![q] = Idle]

\* Mutant: a body is written in its own order as well.
BodyOrder(todo, file) == IF todo = {} THEN {None} ELSE todo

\* The key whose UPDATE comes next: that of key_map for a body, any for a file,
\* whose order is its author's.
NextKey(todo, file) ==
    IF todo = {} THEN {None} ELSE {k \in todo : file \/ k = "idle" \/ "idle" \notin todo}

Update(q, file) ==
    /\ req[q].pc = "handler"
    /\ \E K \in SUBSET Keys : \E k \in NextKey(K, file) :
          Goto(q, [Idle EXCEPT !.pc = "write", !.keys = K, !.todo = K, !.next = k, !.file = file])

\* update_settings and import_settings: what is not valid is refused before any
\* write, the rest is one transaction.
PutSettings(q) == Update(q, FALSE)
ImportSettings(q) == Update(q, TRUE)

\* The UPDATE of a key waits for a transaction that has written it.
WriteKey(q) ==
    /\ req[q].pc = "write" /\ req[q].todo # {}
    /\ Free(q, req[q].next)
    /\ LET todo == req[q].todo \ {req[q].next}
       IN \E k \in NextKey(todo, req[q].file) :
             Goto(q, [req[q] EXCEPT !.todo = todo, !.next = k])

\* The COMMIT; then the cache is read again, or not when that fails.
CommitSettings(q) == req[q].pc = "write" /\ req[q].todo = {} /\ Answer(q)

\* change_pin, the current PIN being right.
ChangePin(q) == req[q].pc = "handler" /\ Goto(q, [req[q] EXCEPT !.pc = "pin"])

\* The upsert, which waits for another change to end, then the UPDATE that
\* revokes the other sessions it sees.
UpsertPin(q) ==
    /\ req[q].pc = "pin"
    /\ Free(q, "pin")
    /\ Goto(q, [Idle EXCEPT !.pc = "commit_pin",
          !.others = {s \in Sessions : /\ Exists(s) /\ ~sessions[s].revoked
                                       /\ s # req[q].session}])

CommitPin(q) ==
    /\ req[q].pc = "commit_pin"
    /\ sessions' = [s \in Sessions |->
          IF s \in req[q].others THEN [sessions[s] EXCEPT !.revoked = TRUE] ELSE sessions[s]]
    /\ req' = [req EXCEPT ![q] = Idle]

\* The request is cancelled; an open transaction is rolled back.
Cancel(q) == req[q].pc # "idle" /\ Answer(q)

\* The next statement of q waits for the transaction of r.
Waits(q, r) ==
    \/ req[q].pc = "write" /\ req[q].next \in KeysHeld(r) /\ q # r
    \/ req[q].pc = "pin" /\ "pin" \in KeysHeld(r)
    \/ req[q].pc \in {"slide", "handler"} /\ req[q].session \in req[r].others

\* Requests that wait for each other in a circle.
Circle(D) ==
    /\ D # {}
    /\ \A q \in D : (\E r \in D : Waits(q, r)) /\ (\E r \in D : Waits(r, q))

InCircle(q) == \E D \in SUBSET Requests : q \in D /\ Circle(D)

\* Mutant: a transaction that met a deadlock is begun again, as often as it does.
BeginAgain(q) ==
    InCircle(q) /\ \E k \in NextKey(req[q].keys, req[q].file) :
                      Goto(q, [req[q] EXCEPT !.todo = req[q].keys, !.next = k])

\* PostgreSQL breaks a deadlock: the statement of one of its requests fails, the
\* transaction is rolled back and the request answered with an error.
DeadlockVictim(q) == InCircle(q) /\ Answer(q)

-----------------------------------------------------------------------------

Less(n) == IF n = -1 THEN -1 ELSE n - 1

Older(row) == [row EXCEPT !.idle = Less(@), !.hard = Less(@)]

Tick ==
    /\ \E s \in Sessions : Exists(s) /\ Older(sessions[s]) # sessions[s]
    /\ sessions' = [s \in Sessions |-> IF Exists(s) THEN Older(sessions[s]) ELSE None]
    /\ req' = [q \in Requests |-> [req[q] EXCEPT !.left = Less(@)]]

\* Sessions outlive the process, requests do not.
Restart ==
    /\ req' = [q \in Requests |-> Idle]
    /\ UNCHANGED sessions

Handler(q) ==
    \/ OtherHandler(q) \/ Logout(q) \/ PutSettings(q) \/ ImportSettings(q)
    \/ CommitSettings(q) \/ ChangePin(q) \/ CommitPin(q)

Serve(q) ==
    \/ CreateSession(q) \/ Slide(q) \/ Handler(q) \/ WriteKey(q) \/ UpsertPin(q)

Next ==
    \/ Tick \/ Restart
    \/ \E q \in Requests :
          \/ Login(q) \/ Serve(q) \/ DeadlockVictim(q) \/ Cancel(q)
          \/ \E s \in Sessions : Check(q, s)

Spec == Init /\ [][Next]_vars

\* Time passes; the event loop and the database serve every request, and
\* PostgreSQL gives a row lock to those that wait for it in their order and
\* finds a deadlock that stays.
FairSpec ==
    /\ Spec
    /\ WF_vars(Tick)
    /\ \A q \in Requests : SF_vars(Serve(q))
    /\ WF_vars(\E q \in Requests : DeadlockVictim(q))

-----------------------------------------------------------------------------

\* An idle time never reaches past the hard cap, not even one that was computed
\* from an earlier reading of the row or under an earlier policy.
TypeOK ==
    /\ sessions \in [Sessions -> Session \cup {None}]
    /\ \A s \in Sessions : Exists(s) => sessions[s].idle <= sessions[s].hard
    /\ req \in [Requests -> Work]

\* A session that was revoked or has reached its hard cap stays over: requests
\* in flight at the time slide it, and change nothing by it.
OverIsOver ==
    [][\A s \in Sessions :
          Exists(s) /\ (sessions[s].revoked \/ sessions[s].hard < 0) => ~Valid(s)']_vars

\* PIN changes, logouts, slides and settings bodies alone never wait for each
\* other in a circle, because every body writes its keys in the order of
\* key_map: whatever deadlock there is has an import in it, whose file may name
\* the same keys in another order.
OnlyImportsDeadlock ==
    \A D \in SUBSET Requests : Circle(D) => \E q \in D : req[q].file

\* A session ends, however long its admin goes on working and whatever becomes
\* of the policy meanwhile ("Updating policy never extends the session's
\* immutable, minted hard cap").
EverySessionEnds == \A s \in Sessions : Exists(s) ~> [](~Valid(s))

\* Every request is answered, the ones that wait for a row and the ones that an
\* import has drawn into a deadlock: what a transaction holds is given back when
\* it commits, fails or is chosen to end the deadlock.
EveryRequestIsAnswered == \A q \in Requests : req[q].pc # "idle" ~> req[q].pc = "idle"
=============================================================================

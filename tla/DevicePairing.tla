---------------------------- MODULE DevicePairing ----------------------------
(***************************************************************************)
(* Devices and pairing codes (api/devices.py, api/admin/devices.py,        *)
(* migration 0011): which profile a kiosk is served, and the requests that *)
(* decide it.                                                              *)
(*                                                                         *)
(* A request of the admin is one database transaction at READ COMMITTED,   *)
(* so its statements are separate steps.  A statement that writes is one   *)
(* step with the COMMIT that follows it: the transaction does nothing else *)
(* that another one could see, and a conflicting one waits for it.  The    *)
(* row locks a transaction takes before (on the profile, on the code) are  *)
(* held to its end.                                                        *)
(*                                                                         *)
(* A fingerprint is a number, 0 the absence of the cookie.  Rows of        *)
(* gruvax.devices are numbered in the order of created_at.                 *)
(***************************************************************************)
EXTENDS Naturals, FiniteSetsExt

CONSTANTS
    Kiosks,      \* browsers that may be paired
    Profiles,
    Default,     \* the profile that cannot be deleted
    Codes,       \* the pairing codes a kiosk may draw (10,000 in the code)
    Requests,    \* admin requests that run at the same time
    MaxRows,     \* bound on the rows of devices
    MaxPrints,   \* bound on the fingerprints issued
    MaxChanges,  \* bound on the admin's requests
    None

ASSUME PairingAssumption ==
    /\ MaxRows \in Nat /\ MaxPrints \in Nat /\ MaxChanges \in Nat
    /\ None \notin Profiles /\ None \notin Codes
    /\ Default \in Profiles

VARIABLES
    active,   \* the profiles whose deleted_at is NULL
    devices,  \* gruvax.devices: a row, or None
    codes,    \* gruvax.pairing_codes: a row, or None
    req,      \* what each admin request in flight has read
    print,    \* each kiosk's fingerprint cookie
    issued,   \* fingerprints issued so far
    changes   \* admin requests started so far

pairingVars == <<active, devices, codes, req, print, issued, changes>>

Rows == 1..MaxRows
Prints == 1..MaxPrints
Owner == Profiles \cup {None}

\* revoked orders the rows by revoked_at; 0 is NULL.
Row == [print : Prints, profile : Owner, revoked : 0..MaxChanges]
Code == [print : Prints, state : {"live", "expired", "consumed"}]

\* None stands for a row that is not there.
ASSUME NoneAssumption == None \notin Row /\ None \notin Code

\* A bind goes through the first four steps.
Binding == {"fingerprint", "revoked", "profile", "insert"}
Steps == Binding \cup {"patch", "publish"}

Work == [pc : Steps \cup {"idle"}, code : Codes \cup {None}, print : 0..MaxPrints,
         profile : Owner, row : 0..MaxRows, event : {None, "reassigned", "revoked"}]

Idle == [pc |-> "idle", code |-> None, print |-> 0, profile |-> None, row |-> 0,
         event |-> None]

Init ==
    /\ active = Profiles
    /\ devices = [r \in Rows |-> None]
    /\ codes = [c \in Codes |-> None]
    /\ req = [q \in Requests |-> Idle]
    /\ print = [k \in Kiosks |-> 0]
    /\ issued = 0
    /\ changes = 0

-----------------------------------------------------------------------------
(* The rows of a fingerprint.                                              *)

Live(r) == devices[r] # None /\ devices[r].revoked = 0
RowsOf(f) == {r \in Rows : devices[r] # None /\ devices[r].print = f}
LiveRowsOf(f) == {r \in RowsOf(f) : Live(r)}
RevokedRowsOf(f) == RowsOf(f) \ LiveRowsOf(f)

\* _SELECT_DEVICE_FOR_RESOLUTION: the active row, else the newest one.
DeviceRow(f) == Max(IF LiveRowsOf(f) # {} THEN LiveRowsOf(f) ELSE RowsOf(f))

\* What resolve_profile_from_request finds for a fingerprint.
Resolved(f) ==
    IF RowsOf(f) = {} THEN "unknown"
    ELSE IF ~Live(DeviceRow(f)) THEN "revoked"
    ELSE devices[DeviceRow(f)].profile

\* Mutant: without idx_devices_fingerprint_active.
UniqueProfile(table) ==
    \A r, s \in Rows :
        /\ r # s
        /\ table[r] # None /\ table[r].revoked = 0
        /\ table[s] # None /\ table[s].revoked = 0
        => table[r].profile = None \/ table[r].profile # table[s].profile

\* idx_devices_fingerprint_active and idx_devices_profile_active.
Unique(table) ==
    \A r, s \in Rows :
        /\ r # s
        /\ table[r] # None /\ table[r].revoked = 0
        /\ table[s] # None /\ table[s].revoked = 0
        => /\ table[r].print # table[s].print
           /\ table[r].profile = None \/ table[r].profile # table[s].profile

NextRevoked == 1 + Max({0} \cup {devices[r].revoked : r \in {x \in Rows : devices[x] # None}})

\* A new row is the newest one.
FreshRow == {r \in Rows : \A s \in Rows : s >= r => devices[s] = None}

\* The row locks held by the transactions in flight.
Locked(c) == \E q \in Requests : req[q].code = c
Shared(p) == \E q \in Requests : req[q].code # None /\ req[q].profile = p

-----------------------------------------------------------------------------
(* generate_pairing_code: the kiosk's side, without authentication.        *)

\* _SWEEP_EXPIRED_CODES; a row that a bind has locked is not swept.
Swept == [c \in Codes |->
            IF codes[c] # None /\ codes[c].state # "live" /\ ~Locked(c)
            THEN None ELSE codes[c]]

\* A code is inserted under the kiosk's fingerprint, issued if it has none;
\* when the codes drawn are taken the sweep is all that happens.
GeneratePairingCode(k) ==
    \E f \in Prints :
        /\ IF print[k] # 0 THEN f = print[k] ELSE f = issued + 1
        /\ \/ \E c \in Codes :
                /\ Swept[c] = None
                /\ codes' = [Swept EXCEPT ![c] = [print |-> f, state |-> "live"]]
                /\ print' = [print EXCEPT ![k] = f]
                /\ issued' = Max({issued, f})
           \/ /\ \E c \in Codes : Swept[c] # None
              /\ codes' = Swept
              /\ UNCHANGED <<print, issued>>
        /\ UNCHANGED <<active, devices, req, changes>>

\* Five minutes pass.
ExpireCode(c) ==
    /\ codes[c] # None /\ codes[c].state = "live"
    /\ codes' = [codes EXCEPT ![c].state = "expired"]
    /\ UNCHANGED <<active, devices, req, print, issued, changes>>

-----------------------------------------------------------------------------
(* bind_device.                                                            *)

Goto(q, pc) ==
    /\ req' = [req EXCEPT ![q].pc = pc]
    /\ UNCHANGED <<active, devices, codes, print, issued, changes>>

Start(q) ==
    /\ req[q].pc = "idle"
    /\ changes < MaxChanges
    /\ changes' = changes + 1

\* The profile is locked FOR SHARE, the code consumed: visible at the COMMIT.
StartBind(q, c, p) ==
    /\ Start(q)
    /\ p \in active
    /\ codes[c] # None /\ codes[c].state = "live" /\ ~Locked(c)
    /\ req' = [req EXCEPT ![q] = [Idle EXCEPT !.pc = "fingerprint", !.code = c,
                    !.print = codes[c].print, !.profile = p]]
    /\ UNCHANGED <<active, devices, codes, print, issued>>

\* Mutant: the consumption is committed on its own, before the rows.
CommitEarly(q, table) ==
    /\ devices' = IF Unique(table) THEN table ELSE devices
    /\ codes' = [codes EXCEPT ![req[q].code].state = "consumed"]
    /\ req' = [req EXCEPT ![q] = Idle]
    /\ UNCHANGED <<active, print, issued, changes>>

\* A write and its COMMIT.  A violation of an index rolls the consumption of
\* the code back with the rest (409).
Commit(q, table) ==
    /\ IF Unique(table)
       THEN /\ devices' = table
            /\ codes' = [codes EXCEPT ![req[q].code].state = "consumed"]
       ELSE UNCHANGED <<devices, codes>>
    /\ req' = [req EXCEPT ![q] = Idle]
    /\ UNCHANGED <<active, print, issued, changes>>

UpdateByFingerprint(q) ==
    /\ req[q].pc = "fingerprint"
    /\ IF LiveRowsOf(req[q].print) = {}
       THEN Goto(q, "revoked")
       ELSE Commit(q, [devices EXCEPT
                  ![DeviceRow(req[q].print)].profile = req[q].profile])

\* The row of the fingerprint that was revoked last.
ReactivateByFingerprint(q) ==
    /\ req[q].pc = "revoked"
    /\ LET mine == RevokedRowsOf(req[q].print)
       IN IF mine = {}
          THEN Goto(q, "profile")
          ELSE \E r \in mine :
                  /\ \A s \in mine : devices[s].revoked <= devices[r].revoked
                  /\ Commit(q, [devices EXCEPT ![r] =
                        [@ EXCEPT !.profile = req[q].profile, !.revoked = 0]])

\* The kiosk takes the place of the profile's active device.
UpdateByProfile(q) ==
    /\ req[q].pc = "profile"
    /\ LET held == {r \in Rows : Live(r) /\ devices[r].profile = req[q].profile}
       IN IF held = {}
          THEN Goto(q, "insert")
          ELSE Commit(q, [devices EXCEPT ![Max(held)].print = req[q].print])

InsertDevice(q) ==
    /\ req[q].pc = "insert"
    /\ \E r \in FreshRow :
          /\ \A s \in FreshRow : r <= s
          /\ Commit(q, [devices EXCEPT ![r] =
                [print |-> req[q].print, profile |-> req[q].profile, revoked |-> 0]])

\* The connection is lost or the request cancelled before the COMMIT.
Rollback(q) ==
    /\ req[q].pc \in Steps \ {"publish"}
    /\ req' = [req EXCEPT ![q] = Idle]
    /\ UNCHANGED <<active, devices, codes, print, issued, changes>>

-----------------------------------------------------------------------------
(* patch_device, revoke_device, reinstate_device, delete_device.           *)

\* The event a request publishes once it has committed, on the bus of the
\* profile it read.
Told(event, p) ==
    IF p = None THEN Idle
    ELSE [Idle EXCEPT !.pc = "publish", !.profile = p, !.event = event]

\* The row is read without a lock: the profile to tell.
ReadDevice(q, r) ==
    /\ Start(q)
    /\ devices[r] # None
    /\ req' = [req EXCEPT ![q] = [Idle EXCEPT !.pc = "patch", !.row = r,
                    !.profile = devices[r].profile]]
    /\ UNCHANGED <<active, devices, codes, print, issued>>

\* UNBIND_DEVICE or CHANGE_PROFILE, the new profile locked FOR SHARE.
PatchDevice(q) ==
    /\ req[q].pc = "patch"
    /\ \E p \in active \cup {None} :
          LET r == req[q].row
              table == [devices EXCEPT ![r].profile = p]
          IN IF devices[r] # None /\ Unique(table)
             THEN /\ devices' = table
                  /\ req' = [req EXCEPT ![q] = Told("reassigned", req[q].profile)]
             ELSE /\ req' = [req EXCEPT ![q] = Idle]
                  /\ UNCHANGED devices
    /\ UNCHANGED <<active, codes, print, issued, changes>>

RevokeDevice(q, r) ==
    /\ Start(q)
    /\ Live(r)
    /\ devices' = [devices EXCEPT ![r].revoked = NextRevoked]
    /\ req' = [req EXCEPT ![q] = Told("revoked", devices[r].profile)]
    /\ UNCHANGED <<active, codes, print, issued>>

\* A conflict with an active row is answered 409.
ReinstateDevice(q, r) ==
    /\ Start(q)
    /\ devices[r] # None /\ ~Live(r)
    /\ LET table == [devices EXCEPT ![r].revoked = 0]
       IN Unique(table) /\ devices' = table
    /\ UNCHANGED <<active, codes, req, print, issued>>

DeleteDevice(q, r) ==
    /\ Start(q)
    /\ devices[r] # None
    /\ devices' = [devices EXCEPT ![r] = None]
    /\ UNCHANGED <<active, codes, req, print, issued>>

\* Mutant: only the active devices are orphaned.
SoftDeleteLive(q, p) ==
    /\ Start(q)
    /\ p \in active \ {Default} /\ ~Shared(p)
    /\ active' = active \ {p}
    /\ devices' = [r \in Rows |->
          IF Live(r) /\ devices[r].profile = p
          THEN [devices[r] EXCEPT !.profile = None] ELSE devices[r]]
    /\ UNCHANGED <<codes, req, print, issued>>

\* soft_delete_profile waits for the share locks on the profile, then
\* orphans all its rows in the same transaction.
SoftDelete(q, p) ==
    /\ Start(q)
    /\ p \in active \ {Default} /\ ~Shared(p)
    /\ active' = active \ {p}
    /\ devices' = [r \in Rows |->
          IF devices[r] # None /\ devices[r].profile = p
          THEN [devices[r] EXCEPT !.profile = None] ELSE devices[r]]
    /\ UNCHANGED <<codes, req, print, issued>>

\* resolve_profile_from_request answers 403 to a revoked device and clears its
\* fingerprint cookie.
ForgetPrint(k) ==
    /\ print[k] # 0 /\ Resolved(print[k]) = "revoked"
    /\ print' = [print EXCEPT ![k] = 0]
    /\ UNCHANGED <<active, devices, codes, req, issued, changes>>

\* The event goes out; who hears it is for the streams to say.
Publish(q) ==
    /\ req[q].pc = "publish"
    /\ req' = [req EXCEPT ![q] = Idle]
    /\ UNCHANGED <<active, devices, codes, print, issued, changes>>

-----------------------------------------------------------------------------

Bind(q) ==
    \/ \E c \in Codes, p \in Profiles : StartBind(q, c, p)
    \/ UpdateByFingerprint(q)
    \/ ReactivateByFingerprint(q)
    \/ UpdateByProfile(q)
    \/ InsertDevice(q)
    \/ Rollback(q)

Manage(q) ==
    \/ \E r \in Rows : \/ ReadDevice(q, r) \/ RevokeDevice(q, r)
                       \/ ReinstateDevice(q, r) \/ DeleteDevice(q, r)
    \/ PatchDevice(q)
    \/ \E p \in Profiles : SoftDelete(q, p)

\* Time, and the requests of the admins.
Administer ==
    \/ \E c \in Codes : ExpireCode(c)
    \/ \E q \in Requests : Bind(q) \/ Manage(q)

Handlers ==
    \/ \E k \in Kiosks : GeneratePairingCode(k)
    \/ Administer

PairingNext ==
    \/ Handlers
    \/ \E q \in Requests : Publish(q)
    \/ \E k \in Kiosks : ForgetPrint(k)

PairingSpec == Init /\ [][PairingNext]_pairingVars

-----------------------------------------------------------------------------
(* Properties of the database.                                             *)

PairingTypeOK ==
    /\ active \subseteq Profiles
    /\ devices \in [Rows -> Row \cup {None}]
    /\ codes \in [Codes -> Code \cup {None}]
    /\ req \in [Requests -> Work]
    /\ print \in [Kiosks -> 0..MaxPrints]
    /\ issued \in 0..MaxPrints
    /\ changes \in 0..MaxChanges
    /\ Unique(devices)

\* No row, active or revoked, belongs to a deleted profile, so that no kiosk is
\* ever served one, not even once its device is reinstated: a bind or a change
\* of profile that races the deletion is ordered by the lock on the profile.
RowsOfActiveProfiles ==
    \A r \in Rows : devices[r] # None => devices[r].profile \in active \cup {None}

\* A code is consumed only together with its binding: at that step its kiosk,
\* which may have had no row, an active one, a revoked one or several, is
\* served the profile the admin chose.  bind_device: "if the upsert fails, the
\* consumed_at write rolls back and the code stays reusable".
ConsumedMeansServed ==
    [][\A c \in Codes :
          codes[c] # None /\ codes'[c] # None
          /\ codes[c].state # "consumed" /\ codes'[c].state = "consumed"
          => \E q \in Requests : req[q].code = c
                /\ Resolved(codes[c].print)' = req[q].profile]_pairingVars

\* Revoking a device leaves its kiosk with no profile at all, whatever other
\* rows its fingerprint has.
RevokeCutsOff ==
    [][\A r \in Rows :
          Live(r) /\ devices'[r] # None /\ devices'[r].revoked # 0
          => Resolved(devices[r].print)' = "revoked"]_pairingVars
=============================================================================

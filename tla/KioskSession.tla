----------------------------- MODULE KioskSession -----------------------------
(***************************************************************************)
(* What a kiosk shows: its browse binding (api/session.py), the profile a  *)
(* request of it resolves to (api/deps.py), the event stream it listens to *)
(* (api/events.py, events/bus.py), over the devices of DevicePairing.      *)
(*                                                                         *)
(* A browser holds two cookies, the fingerprint (print) and the browse     *)
(* binding.  Its store has the profile of the last answer of               *)
(* GET /api/session given to it; the kiosk's page shows that profile and   *)
(* listens to its bus.  Only that page polls the session.                  *)
(***************************************************************************)
EXTENDS DevicePairing, Sequences

CONSTANTS
    Screens,   \* the kiosks whose page is open (the others only pair)
    MaxQueue   \* capacity of a subscriber's queue (64 in the code)

\* Ids of profiles are UUIDs, none the name of an outcome.
ASSUME KioskAssumption ==
    /\ Screens \subseteq Kiosks /\ MaxQueue \in Nat \ {0}
    /\ {"unknown", "revoked", "unbound"} \cap Profiles = {}

VARIABLES
    page,     \* each kiosk's page: its own (/), the picker (/select), pairing (/pair)
    browse,   \* its browse-binding cookie
    view,     \* the session in its store
    asked,    \* the kiosks whose GET /api/session has yet to be served
    answer,   \* the answer of GET /api/session on its way to each
    stream,   \* its event stream
    buses     \* the profiles in event_bus_registry

kioskVars == <<page, browse, view, asked, answer, stream, buses>>
vars == <<pairingVars, kioskVars>>

Pages == {"kiosk", "select", "pair"}
Events == {"revoked", "reassigned", "other"}
Shown == [profile : Owner, paired : BOOLEAN]
Stream == [pc : {"closed", "admitted", "refused", "open"}, profile : Owner,
           queue : Seq(Events)]

Nothing == [profile |-> None, paired |-> FALSE]
Closed == [pc |-> "closed", profile |-> None, queue |-> <<>>]

KioskInit ==
    /\ Init
    /\ page = [k \in Screens |-> "kiosk"]
    /\ asked = Screens
    /\ browse = [k \in Screens |-> None]
    /\ view = [k \in Screens |-> Nothing]
    /\ answer = [k \in Screens |-> None]
    /\ stream = [k \in Screens |-> Closed]
    /\ buses = Profiles

-----------------------------------------------------------------------------
(* resolve_profile_from_request and GET /api/session.                      *)

\* The profile a request of k is served, or why it is refused: a device that
\* is bound wins over the browse binding, a revoked one is refused, and an
\* unknown or orphaned one falls back to the browse binding.
Resolve(k) ==
    LET found == IF print[k] = 0 THEN "unknown" ELSE Resolved(print[k])
    IN IF found \in Profiles \cup {"revoked"} THEN found
       ELSE IF browse[k] # None THEN browse[k] ELSE "unbound"

\* The device of k that overrides the browse binding, if any.
Override(k) ==
    IF print[k] # 0 /\ Resolved(print[k]) \in Profiles
    THEN Resolved(print[k]) ELSE None

\* _validate_browse_binding: the cookie of a deleted profile does not count.
ValidBrowse(k) == IF browse[k] \in active THEN browse[k] ELSE None

\* The only profile there is is bound without asking.
AutoBound(k) ==
    IF Cardinality(active) = 1 THEN CHOOSE p \in active : TRUE ELSE None

\* Mutant: the browse binding wins over the device's.
SessionBrowseFirst(k) ==
    IF ValidBrowse(k) # None THEN [profile |-> ValidBrowse(k), paired |-> FALSE]
    ELSE [profile |-> IF Override(k) # None THEN Override(k) ELSE AutoBound(k),
          paired |-> Override(k) # None]

\* What GET /api/session answers.
Session(k) ==
    IF Override(k) # None THEN [profile |-> Override(k), paired |-> TRUE]
    ELSE [profile |-> IF ValidBrowse(k) # None THEN ValidBrowse(k) ELSE AutoBound(k),
          paired |-> FALSE]

\* The browse cookie it leaves: set by the automatic binding, else cleared
\* when it was stale.
SessionCookie(k) ==
    IF Override(k) = None /\ ValidBrowse(k) = None /\ AutoBound(k) # None
    THEN AutoBound(k) ELSE ValidBrowse(k)

-----------------------------------------------------------------------------
(* The browser.  One request of GET /api/session is under way at a time.   *)

\* Mutant: the kiosk's page does not poll.
AskSessionOnce(k) ==
    /\ answer[k] = None /\ k \in asked
    /\ asked' = asked \ {k}
    /\ answer' = [answer EXCEPT ![k] = Session(k)]
    /\ browse' = [browse EXCEPT ![k] = SessionCookie(k)]
    /\ UNCHANGED <<pairingVars, page, view, stream, buses>>

\* The server computes the answer, the cookie arrives with it: to the request
\* made when a page is loaded or the picker opened, or to the kiosk's poll.
AskSession(k) ==
    /\ answer[k] = None
    /\ k \in asked \/ page[k] = "kiosk"
    /\ asked' = asked \ {k}
    /\ answer' = [answer EXCEPT ![k] = Session(k)]
    /\ browse' = [browse EXCEPT ![k] = SessionCookie(k)]
    /\ UNCHANGED <<pairingVars, page, view, stream, buses>>

\* setSession: a stream of another profile is closed.
Show(k, session) ==
    /\ view' = [view EXCEPT ![k] = session]
    /\ stream' = IF stream[k].profile \notin {None, session.profile}
                 THEN [stream EXCEPT ![k] = Closed] ELSE stream

\* An answer without a profile leads from the kiosk's page to the picker, if it
\* is the first one or a profile was shown; to the other pages the profile of a
\* paired device leads back.  They need not put the answer in the store.
TakeSession(k) ==
    /\ answer[k] # None
    /\ answer' = [answer EXCEPT ![k] = None]
    /\ \/ /\ page[k] = "kiosk"
          /\ Show(k, answer[k])
          /\ \/ /\ answer[k].profile = None
                /\ page' = [page EXCEPT ![k] = "select"]
                /\ asked' = asked \cup {k}
             \/ /\ answer[k].profile # None \/ view[k].profile = None
                /\ UNCHANGED <<page, asked>>
       \/ /\ page[k] # "kiosk"
          /\ Show(k, answer[k]) \/ UNCHANGED <<view, stream>>
          /\ page' = [page EXCEPT ![k] = IF answer[k].paired THEN "kiosk" ELSE @]
          /\ UNCHANGED asked
    /\ UNCHANGED <<pairingVars, browse, buses>>

\* The page is loaded, at the kiosk's address or where it is.
Load(k) ==
    /\ changes < MaxChanges /\ changes' = changes + 1
    /\ \E to \in {"kiosk", page[k]} : page' = [page EXCEPT ![k] = to]
    /\ view' = [view EXCEPT ![k] = Nothing]
    /\ asked' = asked \cup {k}
    /\ answer' = [answer EXCEPT ![k] = None]
    /\ stream' = [stream EXCEPT ![k] = Closed]
    /\ UNCHANGED <<active, devices, codes, print, issued, req, browse, buses>>

\* The picker asks for the session once, when it is opened, unless a request is
\* under way.
OpenPicker(k) ==
    /\ page' = [page EXCEPT ![k] = "select"]
    /\ asked' = IF answer[k] = None THEN asked \cup {k} ELSE asked

\* POST /api/session/bind: only an active profile.  Then the kiosk's page.
BindSession(k, p) ==
    /\ page[k] = "select" /\ p \in active
    /\ browse' = [browse EXCEPT ![k] = p]
    /\ page' = [page EXCEPT ![k] = "kiosk"]
    /\ UNCHANGED <<pairingVars, view, asked, answer, stream, buses>>

\* DELETE /api/session/bind: the button is hidden on a paired kiosk.
UnbindSession(k) ==
    /\ page[k] = "kiosk" /\ view[k].profile # None /\ ~view[k].paired
    /\ browse' = [browse EXCEPT ![k] = None]
    /\ Show(k, Nothing)
    /\ OpenPicker(k)
    /\ UNCHANGED <<pairingVars, answer, buses>>

\* "PAIR THIS SCREEN", and the way back.
GoToPairing(k) ==
    /\ page[k] = "select"
    /\ page' = [page EXCEPT ![k] = "pair"]
    /\ UNCHANGED <<pairingVars, browse, view, asked, answer, stream, buses>>

GoBack(k) ==
    /\ page[k] = "pair"
    /\ OpenPicker(k)
    /\ UNCHANGED <<pairingVars, browse, view, answer, stream, buses>>

\* The pairing page asks for a code, and polls the state of the device.
AskForCode(k) ==
    /\ k \in Screens => page[k] = "pair"
    /\ GeneratePairingCode(k)
    /\ UNCHANGED kioskVars

PollDevice(k) ==
    /\ page[k] = "pair" /\ Override(k) # None
    /\ page' = [page EXCEPT ![k] = "kiosk"]
    /\ UNCHANGED <<pairingVars, browse, view, asked, answer, stream, buses>>

\* The kiosk is told that it is revoked: it drops its profile and its stream,
\* and goes to the pairing page.
Leave(k) ==
    /\ view' = [view EXCEPT ![k] = Nothing]
    /\ stream' = [stream EXCEPT ![k] = Closed]
    /\ page' = [page EXCEPT ![k] = "pair"]

\* A search, a locate, the grid: 403 clears the fingerprint cookie.
CallApi(k) ==
    /\ page[k] = "kiosk" /\ view[k].profile # None
    /\ ForgetPrint(k)
    /\ Leave(k)
    /\ UNCHANGED <<browse, asked, answer, buses>>

-----------------------------------------------------------------------------
(* The stream of events.                                                   *)

\* get_bus_for_profile: the request is resolved, matched with the path, and
\* the bus looked up, before the generator subscribes.  A stream that is
\* refused is not tried again until the kiosk shows another profile.
OpenStream(k) ==
    /\ page[k] = "kiosk" /\ view[k].profile # None /\ stream[k].pc = "closed"
    /\ LET p == view[k].profile
           admitted == Resolve(k) = p /\ p \in buses
       IN stream' = [stream EXCEPT ![k] =
             [pc |-> IF admitted THEN "admitted" ELSE "refused",
              profile |-> p, queue |-> <<>>]]
    /\ IF Resolve(k) = "revoked" THEN ForgetPrint(k) ELSE UNCHANGED pairingVars
    /\ UNCHANGED <<page, browse, view, asked, answer, buses>>

\* The generator runs: from here on the kiosk hears the bus.
Subscribe(k) ==
    /\ stream[k].pc = "admitted"
    /\ stream' = [stream EXCEPT ![k].pc = "open"]
    /\ UNCHANGED <<pairingVars, page, browse, view, asked, answer, buses>>

Disconnect(k) ==
    /\ stream[k].pc = "open"
    /\ stream' = [stream EXCEPT ![k] = Closed]
    /\ UNCHANGED <<pairingVars, page, browse, view, asked, answer, buses>>

\* Mutant: the queue is not bounded.
HeardAlways(p, event) ==
    [k \in Screens |->
       IF stream[k].pc = "open" /\ stream[k].profile = p /\ p \in buses
       THEN [stream[k] EXCEPT !.queue = Append(@, event)]
       ELSE stream[k]]

\* EventBus.publish: a full queue drops the new event.
Heard(p, event) ==
    [k \in Screens |->
       IF stream[k].pc = "open" /\ stream[k].profile = p /\ p \in buses
          /\ Len(stream[k].queue) < MaxQueue
       THEN [stream[k] EXCEPT !.queue = Append(@, event)]
       ELSE stream[k]]

PublishDevice(q) ==
    /\ Publish(q)
    /\ stream' = Heard(req[q].profile, req[q].event)
    /\ UNCHANGED <<page, browse, view, asked, answer, buses>>

\* Edits, syncs and shimmers of the profile.
PublishOther(p) ==
    /\ stream' = Heard(p, "other")
    /\ stream' # stream
    /\ UNCHANGED <<pairingVars, page, browse, view, asked, answer, buses>>

\* device_revoked: the kiosk leaves, whichever device was meant.
\* device_reassigned: it asks for its session again.
Deliver(k) ==
    /\ stream[k].queue # <<>>
    /\ IF Head(stream[k].queue) = "revoked"
       THEN Leave(k) /\ UNCHANGED <<browse, answer>>
       ELSE /\ stream' = [stream EXCEPT ![k].queue = Tail(@)]
            /\ IF Head(stream[k].queue) = "reassigned"
               THEN /\ answer' = [answer EXCEPT ![k] = Session(k)]
                    /\ browse' = [browse EXCEPT ![k] = SessionCookie(k)]
               ELSE UNCHANGED <<browse, answer>>
            /\ UNCHANGED <<page, view>>
    /\ UNCHANGED <<pairingVars, asked, buses>>

\* _evict_profile_registries: some time after the COMMIT of the deletion.
EvictBus(p) ==
    /\ p \in buses \ active
    /\ buses' = buses \ {p}
    /\ UNCHANGED <<pairingVars, page, browse, view, asked, answer, stream>>

\* The server stops and starts: requests roll back, streams end, the buses are
\* those of the active profiles.
Restart ==
    /\ changes < MaxChanges /\ changes' = changes + 1
    /\ req' = [q \in Requests |-> Idle]
    /\ asked' = {}
    /\ answer' = [k \in Screens |-> None]
    /\ stream' = [k \in Screens |-> Closed]
    /\ buses' = active
    /\ UNCHANGED <<active, devices, codes, print, issued, page, browse, view>>

-----------------------------------------------------------------------------

Browser(k) ==
    \/ AskSession(k) \/ TakeSession(k) \/ Load(k)
    \/ \E p \in Profiles : BindSession(k, p)
    \/ UnbindSession(k) \/ GoToPairing(k) \/ GoBack(k)
    \/ PollDevice(k) \/ CallApi(k)
    \/ OpenStream(k) \/ Subscribe(k) \/ Disconnect(k) \/ Deliver(k)

KioskNext ==
    \/ \E k \in Kiosks : AskForCode(k)
    \/ Administer /\ UNCHANGED kioskVars
    \/ \E q \in Requests : PublishDevice(q)
    \/ \E p \in Profiles : PublishOther(p) \/ EvictBus(p)
    \/ \E k \in Screens : Browser(k)
    \/ Restart

Spec == KioskInit /\ [][KioskNext]_vars

\* The kiosk's page polls GET /api/session every five minutes, the pairing page
\* the state of the device every three seconds, the picker nothing; what is asked
\* is answered, unless the server stops.  Nothing is assumed of the admin, of the
\* visitor or of the streams.
FairSpec ==
    /\ Spec
    /\ \A k \in Screens : /\ WF_vars(AskSession(k))
                          /\ WF_vars(TakeSession(k))
                          /\ WF_vars(PollDevice(k))

-----------------------------------------------------------------------------
(* Properties.                                                             *)

TypeOK ==
    /\ PairingTypeOK
    /\ page \in [Screens -> Pages]
    /\ asked \subseteq Screens
    /\ browse \in [Screens -> Owner]
    /\ view \in [Screens -> Shown]
    /\ answer \in [Screens -> Shown \cup {None}]
    /\ stream \in [Screens -> Stream]
    /\ \A k \in Screens : Len(stream[k].queue) <= MaxQueue
    /\ buses \subseteq Profiles

\* Two functions decide what a kiosk is bound to, one for the session it shows
\* and one for the requests it makes: when a request would be served an active
\* profile, the session shows that profile, and a profile the session shows is
\* refused only to a revoked device.
SessionAgrees ==
    \A k \in Screens :
        /\ Resolve(k) \in active => Session(k).profile = Resolve(k)
        /\ Session(k).paired => Resolve(k) = Session(k).profile

\* A kiosk listens to no other profile than the one it shows.
ListensToShown ==
    \A k \in Screens : stream[k].profile \in {None, view[k].profile}

\* What a kiosk is answered, shows and hears is of one profile.
OneProfileAtATime == SessionAgrees /\ ListensToShown

\* Whatever events were lost, published on the wrong bus, dropped by a full
\* queue or missed while the stream was down: a kiosk that is paired for good,
\* and not left on the picker's page, shows its profile in the end.
PairedShowsItsProfile ==
    \A k \in Screens :
        <>[](Override(k) # None /\ page[k] # "select")
            => <>[](view[k] = [profile |-> Override(k), paired |-> TRUE])

-----------------------------------------------------------------------------
(***************************************************************************)
(* What a comment of the code says and the code does not keep.             *)
(***************************************************************************)

\* routes/ProfilePicker.tsx: the picker cannot do anything for a paired device,
\* which is sent back to the kiosk's page.
PairedLeavesPicker ==
    \A k \in Screens : ~<>[](Override(k) # None /\ page[k] = "select")
=============================================================================

------------------------------ MODULE Highlights ------------------------------
(***************************************************************************)
(* The LEDs of the shelf: the selections of the kiosks, lit for a while    *)
(* and then reverted (mqtt/lifecycle.py), the sweeps of the admin and the  *)
(* start of the process (mqtt/publishers.py, app.py), and the connection   *)
(* they all publish on, which breaks and is replaced (mqtt/client.py).     *)
(*                                                                         *)
(* The tasks are coroutines of one event loop; a step is what one does     *)
(* from an await to the next.  shown is the retained state of each cube,   *)
(* as the broker has it: what the process before it left is there when the *)
(* process starts.                                                         *)
(*                                                                         *)
(* The clients of the connection are numbered; a highlight keeps the       *)
(* client that it was accepted with, and 0 is no client.                   *)
(***************************************************************************)
EXTENDS Naturals, FiniteSets, SequencesExt

CONSTANTS
    Cubes,
    Answers,     \* the cubes of a selection: primary cube and label span
    Selections,  \* highlights that may be on their way at once
    Sweeps,      \* requests of the admin: all off, or a diagnostic
    Boot,        \* the publication of the ambient state at startup
    MaxRetained, \* _RETAIN_MODE_MAX_HIGHLIGHTS (64 in the code)
    MaxClients,  \* bound on the clients: the connection is lost less often
    Stop,        \* the task that stops the process
    Ambient, Off, Left   \* what a cube may show besides

ASSUME HighlightAssumption ==
    /\ MaxRetained \in Nat \ {0} /\ MaxClients \in Nat \ {0}
    /\ Answers \subseteq SUBSET Cubes
    /\ Selections \cap Sweeps = {} /\ Stop \notin Selections /\ Boot \notin Sweeps
    /\ Left # Ambient /\ Left # Off
    /\ {Ambient, Off, Left} \cap (Selections \cup Sweeps) = {}

VARIABLES
    shown,     \* what each cube shows
    lost,      \* the cubes whose reversion failed or was given up
    hl,        \* each selection's task, then its timer
    registry,  \* HighlightRegistry: the selections with a timer, oldest first
    lock,      \* registry.lock: its holder, then those that wait, in order
    sweep,     \* each sweep's task
    stop,      \* cancel_and_revert_all
    mqtt,      \* app.state.mqtt: the client, or 0
    clients,   \* clients created so far; the last is the supervisor's
    failed,    \* the clients whose event failed is set
    connected  \* the supervisor is inside the context of its client

connection == <<mqtt, clients, failed, connected>>
vars == <<shown, lost, hl, registry, lock, sweep, stop, connection>>

Tasks == Selections \cup {Stop}

\* room: the registered selections that may stay beside it.
Work == [pc : {"idle", "waiting", "clearing", "lighting", "sleeping", "due",
               "reverting", "cut"},
         client : Nat, todo : SUBSET Cubes, cubes : SUBSET Cubes,
         room : 0..(MaxRetained - 1)]

NoTask == [pc |-> "idle", client |-> 0, todo |-> {}]
NoSelection == [pc |-> "idle", client |-> 0, todo |-> {}, cubes |-> {}, room |-> 0]

\* The startup publishes nothing without a client, or when it cannot list the
\* units.
Init ==
    /\ shown = [c \in Cubes |-> Left]
    /\ hl = [h \in Selections |-> NoSelection]
    /\ registry = <<>> /\ lock = <<>>
    /\ clients \in {0, 1} /\ connected = (clients = 1)
    /\ mqtt = clients /\ failed = {}
    /\ \E published \in IF mqtt = 0 THEN {FALSE} ELSE BOOLEAN :
          /\ sweep = [s \in Sweeps \cup {Boot} |->
                        IF s = Boot /\ published
                        THEN [pc |-> "restoring", client |-> mqtt, todo |-> Cubes]
                        ELSE NoTask]
          /\ lost = IF published THEN {} ELSE Cubes
    /\ stop = NoTask

Holds(t) == lock # <<>> /\ Head(lock) = t
Release == lock' = Tail(lock)

-----------------------------------------------------------------------------
(* The connection.                                                         *)

\* _HealthReportingClient.publish: the current client is withdrawn, an older
\* one is not the current one's business.
Fail(g) ==
    /\ failed' = failed \cup {g}
    /\ mqtt' = IF mqtt = g THEN 0 ELSE mqtt
    /\ UNCHANGED <<clients, connected>>

Delivered(c, what) ==
    /\ shown' = [shown EXCEPT ![c] = what]
    /\ lost' = lost \ {c}

Undelivered(c, what) ==
    /\ lost' = IF what = Ambient THEN lost \cup {c} ELSE lost
    /\ UNCHANGED shown

\* safe_publish.  The client of a connection that is gone fails; the current
\* one may, its message delivered or not.
Publish(g, c, what) ==
    LET open == connected /\ g = clients
    IN \/ open /\ Delivered(c, what) /\ UNCHANGED connection
       \/ /\ open => clients < MaxClients
          /\ Undelivered(c, what) \/ (open /\ Delivered(c, what))
          /\ Fail(g)

\* The supervisor: a first attempt at startup, then one a second.
Connect ==
    /\ ~connected /\ stop.pc # "ended" /\ clients < MaxClients
    /\ clients' = clients + 1 /\ mqtt' = clients' /\ connected' = TRUE
    /\ UNCHANGED <<failed, shown, lost, hl, registry, lock, sweep, stop>>

\* monitor_messages ends with the stream of messages.
LoseConnection ==
    /\ connected /\ clients \notin failed /\ clients < MaxClients
    /\ failed' = failed \cup {clients}
    /\ UNCHANGED <<mqtt, clients, connected, shown, lost, hl, registry, lock, sweep, stop>>

\* The supervisor sees that its client has failed and leaves its context.
Disconnect ==
    /\ connected /\ clients \in failed
    /\ connected' = FALSE /\ mqtt' = 0
    /\ UNCHANGED <<clients, failed, shown, lost, hl, registry, lock, sweep, stop>>

-----------------------------------------------------------------------------
(* A selection (illuminate, illuminate_with_lifecycle).                    *)

\* POST /illuminate takes the client and spawns the task, which queues for
\* the lock as soon as it runs.
Illuminate(h, cubes) ==
    /\ hl[h].pc = "idle" /\ (\A c \in Cubes : shown[c] # h)
    /\ mqtt # 0 /\ stop.pc = "idle"
    /\ hl' = [hl EXCEPT ![h] = [NoSelection EXCEPT !.pc = "waiting", !.client = mqtt,
                                                   !.cubes = cubes]]
    /\ lock' = Append(lock, h)
    /\ UNCHANGED <<shown, lost, registry, sweep, stop, connection>>

\* Mutant: an entry is left its timer.
DropOnly(e) ==
    /\ registry' = Tail(registry)
    /\ UNCHANGED lock

\* The timer of an entry is cancelled: it no longer waits for the lock.
Drop(e) ==
    /\ registry' = Tail(registry)
    /\ lock' = RemoveFirst(lock, e)

\* Mutant: the timer of an entry is cancelled and its cubes are left lit.
ProceedLeavingLit(h, room) ==
    /\ IF Len(registry) > room
       THEN LET e == Head(registry)
            IN /\ Drop(e)
               /\ hl' = [hl EXCEPT ![e] = NoSelection,
                       ![h] = [@ EXCEPT !.pc = "clearing", !.room = room]]
       ELSE /\ hl' = [hl EXCEPT ![h] = [@ EXCEPT !.pc = "lighting", !.room = room,
                                                 !.todo = hl[h].cubes]]
            /\ UNCHANGED <<registry, lock>>
    /\ UNCHANGED <<shown, lost, sweep, stop, connection>>

\* With more entries than may stay the oldest one goes, and its cubes are to
\* be reverted, with the new client; else the selection is lit.
Proceed(h, room) ==
    /\ IF Len(registry) > room
       THEN LET e == Head(registry)
            IN /\ Drop(e)
               /\ hl' = [hl EXCEPT ![e] = NoSelection,
                       ![h] = [@ EXCEPT !.pc = "clearing", !.room = room,
                                        !.todo = hl[e].cubes]]
       ELSE /\ hl' = [hl EXCEPT ![h] = [@ EXCEPT !.pc = "lighting", !.room = room,
                                                 !.todo = hl[h].cubes]]
            /\ UNCHANGED <<registry, lock>>
    /\ UNCHANGED <<shown, lost, sweep, stop, connection>>

\* Mutant: one entry more than the cap.
BeginLate(h) ==
    /\ hl[h].pc = "waiting" /\ Holds(h)
    /\ \E room \in {0, MaxRetained} : Proceed(h, room)

\* led_highlight.retain_mode, which the admin may change at any time, says
\* whether any may stay.
Begin(h) ==
    /\ hl[h].pc = "waiting" /\ Holds(h)
    /\ \E room \in {0, MaxRetained - 1} : Proceed(h, room)

ClearCube(h) ==
    /\ hl[h].pc = "clearing"
    /\ \E c \in hl[h].todo :
          /\ Publish(hl[h].client, c, Ambient)
          /\ hl' = [hl EXCEPT ![h] = [@ EXCEPT !.todo = hl[h].todo \ {c}]]
    /\ UNCHANGED <<registry, lock, sweep, stop>>

\* Mutant: one entry is cancelled, not all of them.
ContinueOnce(h) ==
    /\ hl[h].pc = "clearing" /\ hl[h].todo = {}
    /\ hl' = [hl EXCEPT ![h] = [@ EXCEPT !.pc = "lighting", !.todo = hl[h].cubes]]
    /\ UNCHANGED <<shown, lost, registry, lock, sweep, stop, connection>>

Continue(h) ==
    /\ hl[h].pc = "clearing" /\ hl[h].todo = {}
    /\ Proceed(h, hl[h].room)

LightCube(h) ==
    /\ hl[h].pc = "lighting"
    /\ \E c \in hl[h].todo :
          /\ Publish(hl[h].client, c, h)
          /\ hl' = [hl EXCEPT ![h] = [@ EXCEPT !.todo = hl[h].todo \ {c}]]
    /\ UNCHANGED <<registry, lock, sweep, stop>>

\* The timer is created and registered before the lock is released.
Register(h) ==
    /\ hl[h].pc = "lighting" /\ hl[h].todo = {}
    /\ hl' = [hl EXCEPT ![h] = [@ EXCEPT !.pc = "sleeping", !.room = 0]]
    /\ registry' = Append(registry, h)
    /\ Release
    /\ UNCHANGED <<shown, lost, sweep, stop, connection>>

-----------------------------------------------------------------------------
(* Its timer (schedule_revert).                                            *)

TimeToLive(h) ==
    /\ hl[h].pc = "sleeping"
    /\ hl' = [hl EXCEPT ![h] = [@ EXCEPT !.pc = "due"]]
    /\ lock' = Append(lock, h)
    /\ UNCHANGED <<shown, lost, registry, sweep, stop, connection>>

\* Only a registered highlight reverts.
BeginRevert(h) ==
    /\ hl[h].pc = "due" /\ Holds(h)
    /\ hl' = [hl EXCEPT ![h] = [@ EXCEPT !.pc = "reverting",
                 !.todo = IF Contains(registry, h) THEN hl[h].cubes ELSE {}]]
    /\ UNCHANGED <<shown, lost, registry, lock, sweep, stop, connection>>

RevertCube(h) ==
    /\ hl[h].pc = "reverting"
    /\ \E c \in hl[h].todo :
          /\ Publish(hl[h].client, c, Ambient)
          /\ hl' = [hl EXCEPT ![h] = [@ EXCEPT !.todo = hl[h].todo \ {c}]]
    /\ UNCHANGED <<registry, lock, sweep, stop>>

EndRevert(h) ==
    /\ hl[h].pc = "reverting" /\ hl[h].todo = {}
    /\ hl' = [hl EXCEPT ![h] = NoSelection]
    /\ registry' = RemoveFirst(registry, h)
    /\ Release
    /\ UNCHANGED <<shown, lost, sweep, stop, connection>>

-----------------------------------------------------------------------------
(* The sweeps, which take no lock.                                         *)

\* One that cannot list the units ends before it publishes anything.
StartSweep(s, pc) ==
    /\ sweep[s].pc = "idle" /\ (\A c \in Cubes : shown[c] # s)
    /\ mqtt # 0 /\ stop.pc = "idle"
    /\ sweep' = [sweep EXCEPT ![s] = [pc |-> pc, client |-> mqtt, todo |-> Cubes]]
    /\ UNCHANGED <<shown, lost, hl, registry, lock, stop, connection>>

Shows(s) ==
    CASE sweep[s].pc = "off" -> Off
      [] sweep[s].pc = "cycling" -> s
      [] sweep[s].pc = "restoring" -> Ambient

\* A cube goes through the colours of a diagnostic and is then cleared: both
\* are shown as the diagnostic's, until the ambient state is restored.
SweepCube(s) ==
    /\ sweep[s].pc \in {"off", "cycling", "restoring"}
    /\ \E c \in sweep[s].todo :
          /\ Publish(sweep[s].client, c, Shows(s))
          /\ sweep' = [sweep EXCEPT ![s] =
                IF sweep[s].todo = {c} /\ sweep[s].pc # "cycling"
                THEN NoTask ELSE [sweep[s] EXCEPT !.todo = sweep[s].todo \ {c}]]
    /\ UNCHANGED <<hl, registry, lock, stop>>

Restore(s) ==
    /\ sweep' = [sweep EXCEPT ![s] = [@ EXCEPT !.pc = "restoring", !.todo = Cubes]]
    /\ UNCHANGED <<shown, lost, hl, registry, lock, stop, connection>>

\* The task ends, and the cubes stay as they are.
Abort(s) ==
    /\ sweep' = [sweep EXCEPT ![s] = NoTask]
    /\ lost' = lost \cup {c \in Cubes : shown[c] = s}
    /\ UNCHANGED <<shown, hl, registry, lock, stop, connection>>

\* publish_ambient of all cubes; when it cannot list the units it returns.
PublishAmbient(s) == Restore(s) \/ Abort(s)

Captured(g) == \E t \in Sweeps : sweep[t].pc = "capturing" /\ sweep[t].client = g

StartCapture(s) ==
    /\ sweep' = [sweep EXCEPT ![s].pc = "capturing"]
    /\ UNCHANGED <<shown, lost, hl, registry, lock, stop, connection>>

\* Mutant: without _gruvax_diag_active a second diagnostic of the client asks
\* for the status messages as well, and ends because it is refused them.
CaptureAlways(s) ==
    /\ sweep[s].pc = "cycling" /\ sweep[s].todo = {}
    /\ IF Captured(sweep[s].client)
       THEN /\ sweep' = [sweep EXCEPT ![s] = NoTask]
            /\ UNCHANGED <<shown, lost, hl, registry, lock, stop, connection>>
       ELSE StartCapture(s)

\* One diagnostic of a client captures the status messages; others skip that.
Capture(s) ==
    /\ sweep[s].pc = "cycling" /\ sweep[s].todo = {}
    /\ IF Captured(sweep[s].client) THEN PublishAmbient(s) ELSE StartCapture(s)

\* After five seconds.  Or the client fails, or the broker does not answer the
\* subscription or its end in time: then the diagnostic fails and restores nothing.
EndCapture(s) ==
    /\ sweep[s].pc = "capturing"
    /\ PublishAmbient(s) \/ Abort(s)

-----------------------------------------------------------------------------
(* The end of the process.  Requests have been answered.                   *)

BeginStop ==
    /\ stop.pc = "idle"
    /\ \A s \in Sweeps : sweep[s].pc = "idle"
    /\ stop' = [pc |-> "clearing", client |-> mqtt, todo |-> {}]
    /\ lock' = Append(lock, Stop)
    /\ UNCHANGED <<shown, lost, hl, registry, sweep, connection>>

\* cancel_and_revert_all, entry by entry.
StopCancel ==
    /\ stop.pc = "clearing" /\ Holds(Stop) /\ stop.todo = {} /\ registry # <<>>
    /\ LET e == Head(registry)
       IN /\ Drop(e)
          /\ hl' = [hl EXCEPT ![e] = NoSelection]
          /\ stop' = [stop EXCEPT !.todo = IF stop.client = 0 THEN {} ELSE hl[e].cubes]
          /\ lost' = IF stop.client = 0 THEN lost \cup hl[e].cubes ELSE lost
    /\ UNCHANGED <<shown, sweep, connection>>

StopClearCube ==
    /\ \E c \in stop.todo :
          /\ Publish(stop.client, c, Ambient)
          /\ stop' = [stop EXCEPT !.todo = @ \ {c}]
    /\ UNCHANGED <<hl, registry, lock, sweep>>

StopRelease ==
    /\ stop.pc = "clearing" /\ Holds(Stop) /\ stop.todo = {} /\ registry = <<>>
    /\ stop' = [stop EXCEPT !.pc = "ending"]
    /\ Release
    /\ UNCHANGED <<shown, lost, hl, registry, sweep, connection>>

\* The tasks of the process are cancelled, wherever they are, and the
\* connection is closed.
End ==
    /\ stop.pc = "ending"
    /\ stop' = [stop EXCEPT !.pc = "ended"]
    /\ hl' = [h \in Selections |->
                IF hl[h].pc = "idle" THEN hl[h] ELSE [hl[h] EXCEPT !.pc = "cut"]]
    /\ sweep' = IF sweep[Boot].pc = "idle" THEN sweep
                ELSE [sweep EXCEPT ![Boot] = [@ EXCEPT !.pc = "cut"]]
    /\ lock' = <<>> /\ registry' = <<>>
    /\ connected' = FALSE /\ mqtt' = 0
    /\ UNCHANGED <<shown, lost, clients, failed>>

-----------------------------------------------------------------------------

Lifecycle(h) ==
    \/ Begin(h) \/ ClearCube(h) \/ Continue(h) \/ LightCube(h) \/ Register(h)
    \/ TimeToLive(h) \/ BeginRevert(h) \/ RevertCube(h) \/ EndRevert(h)

Sweep(s) == SweepCube(s) \/ Capture(s) \/ EndCapture(s)

Stopping == StopCancel \/ StopClearCube \/ StopRelease \/ End

Next ==
    \/ Connect \/ LoseConnection \/ Disconnect
    \/ \E h \in Selections : (\E cubes \in Answers : Illuminate(h, cubes)) \/ Lifecycle(h)
    \/ \E s \in Sweeps : StartSweep(s, "off") \/ StartSweep(s, "cycling")
    \/ \E s \in Sweeps \cup {Boot} : Sweep(s)
    \/ BeginStop \/ Stopping

Spec == Init /\ [][Next]_vars

-----------------------------------------------------------------------------
(* Properties.                                                             *)

TypeOK ==
    /\ shown \in [Cubes -> {Ambient, Off, Left} \cup Selections \cup Sweeps]
    /\ hl \in [Selections -> Work] /\ \A h \in Selections : hl[h].client <= clients
    /\ sweep \in [Sweeps \cup {Boot} ->
          [pc : {"idle", "off", "cycling", "capturing", "restoring", "cut"},
           client : 0..clients, todo : SUBSET Cubes]]
    /\ stop \in [pc : {"idle", "clearing", "ending", "ended"},
                 client : 0..clients, todo : SUBSET Cubes]
    /\ lost \subseteq Cubes
    /\ registry \in Seq(Selections) /\ IsInjective(registry)
    /\ Len(registry) <= MaxRetained
    /\ lock \in Seq(Tasks) /\ IsInjective(lock)
    /\ clients \in 0..MaxClients /\ mqtt \in {0, clients} /\ failed \subseteq 1..clients
    /\ connected \in BOOLEAN

\* h has a timer or is being lit, or the task that took its entry has c to do.
Pending(h, c) ==
    \/ Contains(registry, h) \/ hl[h].pc \in {"lighting", "cut"}
    \/ \E e \in Selections : hl[e].pc = "clearing" /\ c \in hl[e].todo
    \/ c \in stop.todo

\* A highlight is in the registry exactly as long as its timer may still act,
\* so that the registry does not leak and nothing reverts unregistered, whoever
\* ends the timer: itself, a selection, the cap, or the end of the process.
\* HighlightRegistry: "Leak-free invariant".
RegistryIsExact ==
    \A h \in Selections :
        Contains(registry, h) <=> hl[h].pc \in {"sleeping", "due", "reverting"}

\* Nobody waits for ever: the tasks in the queue of the lock are those that have
\* something to do with it, the one that holds it included, although
\* a selection cancels, while it holds the lock, timers that wait for it; and
\* only the holder publishes or registers.
LockIsHandedOn ==
    \A h \in Selections :
        /\ Contains(lock, h) <=>
              hl[h].pc \in {"waiting", "clearing", "lighting", "due", "reverting"}
        /\ hl[h].pc \in {"clearing", "lighting", "reverting"} => Holds(h)

\* The registry and the lock know the tasks they are for, and no others.
TasksAreTracked == RegistryIsExact /\ LockIsHandedOn

\* No cube is left lit, or dark, with nobody to revert it, whichever timers,
\* selections, diagnostics and failures met: what a cube shows is registered or
\* its task is at work, but for the cubes that are lost.  What a
\* selection lit is lost only if a connection has failed, whatever failures
\* of diagnostics or of the startup there are; what a diagnostic showed and
\* what the process before left, also if that diagnostic ended early or that
\* startup published nothing.
NothingStranded ==
    \A c \in Cubes :
        /\ \A h \in Selections :
              shown[c] = h => Pending(h, c) \/ (c \in lost /\ failed # {})
        /\ \A s \in Sweeps : shown[c] = s => sweep[s].pc # "idle" \/ c \in lost
        /\ shown[c] = Left => sweep[Boot].pc # "idle" \/ c \in lost

\* While the process runs and has a client, no cube is left lit by a selection
\* with nobody to revert it.  Not so in the code: schedule_revert keeps the client that the
\* selection was accepted with, and nothing is published when another connects.
LitOnlyOffline ==
    mqtt # 0 /\ stop.pc = "idle" =>
        \A c \in Cubes, h \in Selections : shown[c] = h => Pending(h, c)

\* When a selection that retains nothing has lit its cubes, it is the only one:
\* no other has a timer, and no other is shown by a cube, unless its reversion failed.
\* illuminate_with_lifecycle: "at most one active highlight task exists".
OneSelection ==
    [][\A h \in Selections : hl[h].room = 0 /\ hl[h].pc = "lighting" /\ hl'[h].pc = "sleeping"
          => /\ registry' = <<h>>
             /\ \A c \in Cubes, e \in Selections \ {h} :
                   shown[c] = e => c \in lost]_vars

=============================================================================

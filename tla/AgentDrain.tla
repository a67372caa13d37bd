----------------------------- MODULE AgentDrain -----------------------------
(***************************************************************************)
(* A worker agent, sdk/base/agent/workerproxy and sdk/base/agent/drain: its*)
(* connection to the server and the reconnect loop around it, its jobs in  *)
(* hand, the health probe, and the drain that operators start and stop,    *)
(* one call at a time.                                                     *)
(*                                                                         *)
(* Each connection has a context, two goroutines that send on it and a     *)
(* check that closes the agent once it drains without a job.  A read error *)
(* ends the connection without cancelling the context: that is done by the *)
(* next failing write, so for a while the goroutines of an old connection  *)
(* take status updates nobody gets.                                        *)
(*                                                                         *)
(* The status string of the agent is only shown and is left out, and so    *)
(* are labels and configuration.  A cancelled request is one whose backend *)
(* call ends early.  A signal makes the drain check a second time, which   *)
(* changes nothing after the first.                                        *)
(***************************************************************************)
EXTENDS Naturals, Sequences, FiniteSets

CONSTANTS
    Max,        \* the configured concurrency
    Reqs,       \* requests the server sends
    UpdateSlots,\* slots of the channel of status updates (16)
    Reconnect,  \* --reconnect
    MaxConns    \* bound: connections

ASSUME AgentDrainAssumption ==
    /\ Max \in Nat \ {0} /\ UpdateSlots \in Nat \ {0} /\ MaxConns \in Nat \ {0}
    /\ Reconnect \in BOOLEAN

Connections == 1 .. MaxConns

VARIABLES
    phase,      \* the connection loop: "dial", "registered", "installed" (the
                \* drain check can be called), "reading", "failed", "over"
    conn,       \* the number of the connection, the latest one
    root,       \* the context of the agent is not cancelled
    closed,     \* connections whose context was cancelled by itself
    lost,       \* connections whose socket is gone
    closing,    \* connections whose drain check passed and is about to cancel
    draining,   \* drain.draining
    step, message, \* of the caller of drain or undrain: where its callback
                \* stands, and the concurrency it is about to tell
    healthy,    \* the backend answers
    backend, maxConc, \* ConnectedToBackend, MaxConcurrency
    probe,      \* where the monitor stands
    updates,    \* statusUpdates
    advertised, \* what the server was last told on the latest connection
    jobs,       \* CurrentJobs
    at, on,     \* of a request: where its goroutine stands, its connection
    orphaned    \* history: a request of an older connection was the one to
                \* make the drain check, and its context was cancelled

linkVars == <<phase, conn, root, closed, lost, closing>>
drainVars == <<draining, step, message>>
probeVars == <<healthy, backend, probe>>
statusVars == <<maxConc, updates, advertised>>
jobVars == <<jobs, at, on, orphaned>>
vars == <<linkVars, drainVars, probeVars, statusVars, jobVars>>

TypeOK ==
    /\ phase \in {"dial", "registered", "installed", "reading", "failed", "over"}
    /\ conn \in 0 .. MaxConns
    /\ root \in BOOLEAN
    /\ closed \subseteq Connections /\ lost \subseteq Connections /\ closing \subseteq Connections
    /\ draining \in BOOLEAN
    /\ step \in {"idle", "notify", "tell", "drained", "check"}
    /\ message \in {0, Max}
    /\ healthy \in BOOLEAN /\ backend \in BOOLEAN
    /\ maxConc \in {0, Max}
    /\ probe \in {"idle", "ready", "changed", "tell", "failed", "stopped"}
    /\ updates \in Seq({0, Max}) /\ Len(updates) <= UpdateSlots
    /\ advertised \in {0, Max}
    /\ jobs = Cardinality({r \in Reqs : at[r] = "working"})
    /\ at \in [Reqs -> {"new", "spawned", "working", "checking", "over"}]
    /\ on \in [Reqs -> 0 .. MaxConns]
    /\ orphaned \in BOOLEAN

\* The first probe is made before the agent connects, and always tells.
Init ==
    /\ phase = "dial" /\ conn = 0 /\ root = TRUE
    /\ closed = {} /\ lost = {} /\ closing = {}
    /\ draining = FALSE
    /\ step = "idle" /\ message = 0
    /\ healthy \in BOOLEAN
    /\ backend = healthy
    /\ maxConc = IF healthy THEN Max ELSE 0
    /\ probe = "idle"
    /\ updates = <<maxConc>>
    /\ advertised = 0
    /\ jobs = 0
    /\ at = [r \in Reqs |-> "new"]
    /\ on = [r \in Reqs |-> 0]
    /\ orphaned = FALSE

Running == phase /= "over"
ContextOpen(k) == root /\ k \notin closed

\* sendStatusUpdate: an update that finds the channel full is dropped.
Tell(n) == updates' = IF Len(updates) < UpdateSlots THEN Append(updates, n) ELSE updates

-----------------------------------------------------------------------------
\* The connection.

\* connectAndServe up to its register message.  A dial that fails is tried
\* again after a delay.
Connect ==
    /\ phase = "dial"
    /\ root
    /\ conn < MaxConns
    /\ conn' = conn + 1
    /\ phase' = "registered"
    /\ advertised' = maxConc
    /\ UNCHANGED <<root, closed, lost, closing, drainVars, probeVars, maxConc, updates, jobVars>>

GiveUp ==
    /\ phase = "dial"
    /\ ~root
    /\ phase' = "over"
    /\ UNCHANGED <<conn, root, closed, lost, closing, drainVars, probeVars, statusVars, jobVars>>

InstallCheck ==
    /\ phase = "registered"
    /\ phase' = "installed"
    /\ UNCHANGED <<conn, root, closed, lost, closing, drainVars, probeVars, statusVars, jobVars>>

\* checkDrain is for closing the agent.
Passes(k) == ContextOpen(k) /\ draining /\ jobs = 0

\* Faulty variant: a drain that began before the connection is not looked at.
SkipFirstCheck ==
    /\ phase = "installed"
    /\ phase' = "reading"
    /\ UNCHANGED <<conn, root, closed, lost, closing, drainVars, probeVars, statusVars, jobVars>>

\* The check made before the read loop is entered.
FirstCheck ==
    /\ phase = "installed"
    /\ phase' = "reading"
    /\ closing' = IF Passes(conn) THEN closing \cup {conn} ELSE closing
    /\ UNCHANGED <<conn, root, closed, lost, drainVars, probeVars, statusVars, jobVars>>

\* cancelConn and cancelAll of a check that passed.
Close(k) ==
    /\ Running
    /\ k \in closing
    /\ closing' = closing \ {k}
    /\ closed' = closed \cup {k}
    /\ root' = FALSE
    /\ UNCHANGED <<phase, conn, lost, drainVars, probeVars, statusVars, jobVars>>

\* The socket breaks, or the server closes it.
LoseLink ==
    /\ phase \in {"registered", "installed", "reading"}
    /\ conn \notin lost
    /\ conn < MaxConns
    /\ lost' = lost \cup {conn}
    /\ UNCHANGED <<phase, conn, root, closed, closing, drainVars, probeVars, statusVars, jobVars>>

\* A read fails: an agent that drains, or is not to reconnect, ends.
ReadFails ==
    /\ phase = "reading"
    /\ conn \in lost \/ ~ContextOpen(conn)
    /\ lost' = lost \cup {conn}
    /\ phase' = IF draining \/ ~Reconnect THEN "over" ELSE "failed"
    /\ UNCHANGED <<conn, root, closed, closing, drainVars, probeVars, statusVars, jobVars>>

\* setDrainCheck(nil), deferred, and the delay before the next attempt.
RemoveCheck ==
    /\ phase = "failed"
    /\ phase' = "dial"
    /\ UNCHANGED <<conn, root, closed, lost, closing, drainVars, probeVars, statusVars, jobVars>>

\* A heartbeat or another message finds the socket gone.
WriteFails(k) ==
    /\ Running
    /\ k \in lost \ closed
    /\ closed' = closed \cup {k}
    /\ UNCHANGED <<phase, conn, root, lost, closing, drainVars, probeVars, statusVars, jobVars>>

\* A status goroutine takes an update; only on a live connection it arrives.
SendUpdate(k) ==
    /\ Running
    /\ k \in 1 .. conn
    /\ ContextOpen(k)
    /\ updates /= <<>>
    /\ updates' = Tail(updates)
    /\ advertised' = IF k = conn /\ k \notin lost THEN Head(updates) ELSE advertised
    /\ UNCHANGED <<linkVars, drainVars, probeVars, maxConc, jobVars>>

-----------------------------------------------------------------------------
\* Drain and undrain: the flag, then the callback that looks at it.
SetDraining(drain) ==
    /\ Running
    /\ step = "idle"
    /\ draining' = drain
    /\ step' = "notify"
    /\ UNCHANGED <<linkVars, message, probeVars, statusVars, jobVars>>

NotifyDrain ==
    /\ Running
    /\ step = "notify"
    /\ draining
    /\ maxConc' = 0
    /\ message' = 0
    /\ step' = "drained"
    /\ UNCHANGED <<linkVars, draining, probeVars, updates, advertised, jobVars>>

NotifyUndrain ==
    /\ Running
    /\ step = "notify"
    /\ ~draining
    /\ message' = maxConc
    /\ step' = "tell"
    /\ UNCHANGED <<linkVars, draining, probeVars, statusVars, jobVars>>

TellServer ==
    /\ Running
    /\ step \in {"tell", "drained"}
    /\ Tell(message)
    /\ message' = 0
    /\ step' = IF step = "drained" THEN "check" ELSE "idle"
    /\ UNCHANGED <<linkVars, draining, probeVars, maxConc, advertised, jobVars>>

\* triggerDrainCheck: the check of the connection there is, if any.
TriggerDrainCheck ==
    /\ Running
    /\ step = "check"
    /\ step' = "idle"
    /\ closing' = IF phase \in {"installed", "reading", "failed"} /\ Passes(conn)
                  THEN closing \cup {conn} ELSE closing
    /\ UNCHANGED <<phase, conn, root, closed, lost, draining, message, probeVars, statusVars, jobVars>>

\* A second signal, /control/shutdown, or the drain timeout.
Shutdown ==
    /\ Running
    /\ root
    /\ root' = FALSE
    /\ UNCHANGED <<phase, conn, closed, lost, closing, drainVars, probeVars, statusVars, jobVars>>

-----------------------------------------------------------------------------
\* The probe.
BackendChanges ==
    /\ Running
    /\ healthy' = ~healthy
    /\ UNCHANGED <<linkVars, drainVars, backend, probe, statusVars, jobVars>>

\* The program's ProbeFunc asks the backend for its models: it fails, or the
\* agent may take the configured number of requests.
ProbeFunc == [ready |-> healthy, maxConcurrency |-> IF healthy THEN Max ELSE 0]

\* Faulty variant: only the first of several failures is told.
TellFirstFailure ==
    /\ probe = "idle"
    /\ ~ProbeFunc.ready
    /\ backend' = FALSE
    /\ maxConc' = 0
    /\ probe' = IF backend THEN "failed" ELSE "idle"
    /\ UNCHANGED <<linkVars, drainVars, healthy, updates, advertised, jobVars>>

\* The backend does not answer: no concurrency, whatever it was before.
ProbeFails ==
    /\ probe = "idle"
    /\ ~ProbeFunc.ready
    /\ backend' = FALSE
    /\ maxConc' = 0
    /\ probe' = "failed"
    /\ UNCHANGED <<linkVars, drainVars, healthy, updates, advertised, jobVars>>

TellFailure ==
    /\ probe = "failed"
    /\ Tell(0)
    /\ probe' = IF Reconnect THEN "idle" ELSE "stopped"
    /\ UNCHANGED <<linkVars, drainVars, healthy, backend, maxConc, advertised, jobVars>>

\* It answers: what was advertised before is compared later.
ProbeSucceeds ==
    /\ probe = "idle"
    /\ ProbeFunc.ready
    /\ probe' = IF backend /\ maxConc = ProbeFunc.maxConcurrency THEN "ready" ELSE "changed"
    /\ backend' = TRUE
    /\ UNCHANGED <<linkVars, drainVars, healthy, statusVars, jobVars>>

\* SetWorkerInfo, whether the agent drains or not.
SetConcurrency ==
    /\ probe \in {"ready", "changed"}
    /\ maxConc' = Max
    /\ probe' = IF probe = "changed" THEN "tell" ELSE "idle"
    /\ UNCHANGED <<linkVars, drainVars, healthy, backend, updates, advertised, jobVars>>

TellChange ==
    /\ probe = "tell"
    /\ Tell(maxConc)
    /\ probe' = "idle"
    /\ UNCHANGED <<linkVars, drainVars, healthy, backend, maxConc, advertised, jobVars>>

Monitor ==
    /\ Running
    /\ root \/ probe /= "idle"
    /\ ProbeFails \/ TellFailure \/ ProbeSucceeds \/ SetConcurrency \/ TellChange

-----------------------------------------------------------------------------
\* Requests.  While the agent drains they are answered 503.
Accept(r) ==
    /\ phase = "reading"
    /\ conn \notin lost
    /\ at[r] = "new"
    /\ at' = [at EXCEPT ![r] = IF draining THEN "over" ELSE "spawned"]
    /\ on' = [on EXCEPT ![r] = conn]
    /\ UNCHANGED <<linkVars, drainVars, probeVars, statusVars, jobs, orphaned>>

\* handleHTTPProxy counts the request once its goroutine runs.
Start(r) ==
    /\ Running
    /\ at[r] = "spawned"
    /\ at' = [at EXCEPT ![r] = "working"]
    /\ jobs' = jobs + 1
    /\ UNCHANGED <<linkVars, drainVars, probeVars, statusVars, on, orphaned>>

\* The backend's response was passed on, or the request was cancelled.
Finish(r) ==
    /\ Running
    /\ at[r] = "working"
    /\ at' = [at EXCEPT ![r] = "checking"]
    /\ jobs' = jobs - 1
    /\ UNCHANGED <<linkVars, drainVars, probeVars, statusVars, on, orphaned>>

\* onDone is the check of the connection the request came on.
OnDone(r) ==
    LET k == on[r]
    IN  /\ Running
        /\ at[r] = "checking"
        /\ at' = [at EXCEPT ![r] = "over"]
        /\ closing' = IF Passes(k) THEN closing \cup {k} ELSE closing
        /\ orphaned' = (orphaned \/ (k < conn /\ k \in closed))
        /\ UNCHANGED <<phase, conn, root, closed, lost, drainVars, probeVars, statusVars, jobs, on>>

-----------------------------------------------------------------------------
ConnectionLoop == Connect \/ GiveUp \/ InstallCheck \/ FirstCheck \/ ReadFails \/ RemoveCheck
Control == NotifyDrain \/ NotifyUndrain \/ TellServer \/ TriggerDrainCheck
Request(r) == Start(r) \/ Finish(r) \/ OnDone(r)

Next ==
    \/ ConnectionLoop \/ LoseLink \/ Monitor \/ BackendChanges \/ Shutdown
    \/ \E k \in Connections : Close(k) \/ WriteFails(k) \/ SendUpdate(k)
    \/ \E drain \in BOOLEAN : SetDraining(drain)
    \/ Control
    \/ \E r \in Reqs : Accept(r) \/ Request(r)

Spec == Init /\ [][Next]_vars

\* Goroutines run on, the monitor probes for ever, requests end, heartbeats
\* are written.  The server need not be there to connect to; the status
\* goroutine of the latest connection shares the updates with older ones only
\* until these find their socket gone.  Nothing is assumed of the drain timeout.
Fairness ==
    /\ WF_vars(GiveUp) /\ WF_vars(InstallCheck) /\ WF_vars(FirstCheck) /\ WF_vars(ReadFails) /\ WF_vars(RemoveCheck)
    /\ WF_vars(Monitor)
    /\ \A k \in Connections : WF_vars(Close(k)) /\ WF_vars(WriteFails(k)) /\ WF_vars(SendUpdate(k))
    /\ WF_vars(Control)
    /\ \A r \in Reqs : WF_vars(Request(r))

FairSpec == Spec /\ Fairness

-----------------------------------------------------------------------------
\* "If no work is in progress, the worker exits immediately; otherwise it waits
\* for in-flight work to finish": a connected agent that drains does not stay,
\* even without a drain timeout.  Whoever ends the work last, or connects,
\* makes the check that closes it.  The exception is a last request that came
\* on an older connection: its check returns early, and no other is made.
DrainEnds ==
    draining /\ phase = "reading" ~> ~draining \/ phase /= "reading" \/ orphaned

\* An agent whose backend does not answer ends up known to the server with zero
\* concurrency, whatever updates were dropped or lost with a connection before.
NotReadyIsTold ==
    <>[](~healthy /\ phase = "reading") => <>[](advertised = 0 \/ phase /= "reading")
=============================================================================

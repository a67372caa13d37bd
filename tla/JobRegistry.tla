----------------------------- MODULE JobRegistry -----------------------------
(***************************************************************************)
(* The in-memory job registry of server/internal/jobs/registry.go: the job *)
(* table, the queue, claims, status updates, payload/result requests and   *)
(* the client-inactivity timers.                                           *)
(*                                                                         *)
(* One mutex, r.mu, guards the registry.  An action is one critical        *)
(* section of one HTTP handler or timer callback; a handler that unlocks   *)
(* and locks again is a sequence of actions, and what it still has to do   *)
(* is counted per job (goroutines of one kind differ in nothing else):     *)
(*   subscribing  in HandleJobEvents, between subscribe and                *)
(*                onClientConnect                                          *)
(*   watching     in the event loop of HandleJobEvents                     *)
(*   arming       about to call startClientTimerIfIdle                     *)
(*   clearing     about to call clearClientTimer                           *)
(*   requesting   in HandlePayloadRequest / HandleResultRequest, between   *)
(*                the status check and the commit                          *)
(*   callbacks    timer callbacks that have started, or will start, and    *)
(*                have not run expireJobIfIdle                             *)
(* The events a handler publishes are the subject of JobEvents, the wake-  *)
(* up of waiting claimers that of JobClaim.                                *)
(***************************************************************************)
EXTENDS JobQueue

CONSTANTS
    Reported,      \* the states workers post to /status (any string)
    HasTTL,        \* is JOBS_CLIENT_TTL positive?
    MaxClients,    \* bound: SSE clients of one job at a time
    MaxTails,      \* bound: cancel/status handlers of a job about to clear
    MaxCallbacks,  \* bound: timer callbacks of a job in flight
    MaxTransfers   \* bound: payload/result requests of a job

Terminal == {"completed", "failed", "canceled"}
Transferable == {"claimed", "running", "awaiting_payload", "awaiting_result"}
Kinds == {"payload", "result"}
Awaiting(kind) ==
    IF kind = "payload" THEN "awaiting_payload" ELSE "awaiting_result"

\* "absent" is the status of a job that is not in the job table yet.
Statuses == {"absent", "queued"} \cup Transferable \cup Terminal \cup Reported

ASSUME JobRegistryAssumption ==
    /\ "absent" \notin Reported
    /\ HasTTL \in BOOLEAN
    /\ {MaxClients, MaxTails, MaxCallbacks, MaxTransfers} \subseteq Nat

VARIABLES
    status, request, claimant,  \* the job table: Status, Type and affinity,
                                \* ClaimedWorkerID/Group
    inactive,                   \* job.Error has the code client_inactive
    queue,
    stats,                      \* CompletedJobs, FailedJobs, CanceledJobs
    requesting, requested,      \* transfer requests in flight, and in total
    subscribing, watching,      \* SSE handlers; both are entries of r.subs
    arming, clearing,
    clientTimer, callbacks,     \* r.clientTimers and the runtime's timers
    ended,                      \* history: jobs that were terminal once
    strays                      \* history: jobs that were reported on before
                                \* they were claimed, or reported queued

jobVars == <<status, request, claimant, inactive, queue, stats, ended, strays>>
transferVars == <<requesting, requested>>
clientVars == <<subscribing, watching>>
timerVars == <<arming, clearing, clientTimer, callbacks>>
vars == <<jobVars, transferVars, clientVars, timerVars>>

Created(j) == status[j] # "absent"
Subscribed(j) == subscribing[j] + watching[j] > 0

Bump(f, j) == [f EXCEPT ![j] = @ + 1]
Drop(f, j) == [f EXCEPT ![j] = @ - 1]

Init ==
    /\ status = [j \in JobIds |-> "absent"]
    /\ request = [j \in JobIds |-> NoRequest]
    /\ claimant = [j \in JobIds |-> NoClaimer]
    /\ inactive = [j \in JobIds |-> FALSE]
    /\ queue = <<>>
    /\ stats = [s \in Terminal |-> 0]
    /\ requesting = [j \in JobIds |-> [k \in Kinds |-> 0]]
    /\ requested = [j \in JobIds |-> 0]
    /\ subscribing = [j \in JobIds |-> 0]
    /\ watching = [j \in JobIds |-> 0]
    /\ arming = [j \in JobIds |-> 0]
    /\ clearing = [j \in JobIds |-> 0]
    /\ clientTimer = [j \in JobIds |-> "none"]
    /\ callbacks = [j \in JobIds |-> 0]
    /\ ended = {}
    /\ strays = {}

-----------------------------------------------------------------------------
\* Faulty variant: a job that ends without having been claimed is not counted.
SetJobStatusClaimedOnly(j, new) ==
    /\ status' = [status EXCEPT ![j] = new]
    /\ stats' = IF status[j] \in Transferable /\ new \in Terminal
                THEN [stats EXCEPT ![new] = @ + 1]
                ELSE stats
    /\ ended' = IF new \in Terminal THEN ended \cup {j} ELSE ended

\* setJobStatusLocked with recordTerminalLocked: the statistics count every
\* step from a status that is not terminal to one that is.
SetJobStatus(j, new) ==
    /\ status' = [status EXCEPT ![j] = new]
    /\ stats' = IF status[j] \notin Terminal /\ new \in Terminal
                THEN [stats EXCEPT ![new] = @ + 1]
                ELSE stats
    /\ ended' = IF new \in Terminal THEN ended \cup {j} ELSE ended

\* Without a TTL there is no client timer, and the calls that start or clear
\* one return at once or change nothing.
WillArm(j) == arming' = IF HasTTL THEN Bump(arming, j) ELSE arming
WillClear(j) == clearing' = IF HasTTL THEN Bump(clearing, j) ELSE clearing

CreateJob(j, r) ==
    /\ ~Created(j)
    /\ \A i \in 1 .. j - 1 : Created(i)
    /\ status' = [status EXCEPT ![j] = "queued"]
    /\ request' = [request EXCEPT ![j] = r]
    /\ queue' = Append(queue, j)
    /\ WillArm(j)
    /\ UNCHANGED <<claimant, inactive, stats, ended, strays, transferVars,
                   clientVars, clearing, clientTimer, callbacks>>

\* Faulty variant: the claimed job stays in the queue.
ClaimKeepingEntry(c, i) ==
    /\ IsFirstClaimable(queue, request, c, i)
    /\ SetJobStatus(queue[i], "claimed")
    /\ claimant' = [claimant EXCEPT ![queue[i]] = c]
    /\ UNCHANGED <<queue, request, inactive, strays, transferVars, clientVars,
                   timerVars>>

\* claimNext hands out whatever stands in the queue: it does not look at the
\* status of the job.
Claim(c, i) ==
    /\ IsFirstClaimable(queue, request, c, i)
    /\ queue' = RemoveAt(queue, i)
    /\ SetJobStatus(queue[i], "claimed")
    /\ claimant' = [claimant EXCEPT ![queue[i]] = c]
    /\ UNCHANGED <<request, inactive, strays, transferVars, clientVars, timerVars>>

\* Faulty variant: the canceled job stays in the queue.
CancelKeepingEntry(j) ==
    /\ Created(j)
    /\ clearing[j] < MaxTails
    /\ status[j] \notin Terminal
    /\ SetJobStatus(j, "canceled")
    /\ WillClear(j)
    /\ UNCHANGED <<queue, request, claimant, inactive, strays, transferVars,
                   clientVars, arming, clientTimer, callbacks>>

\* A cancel takes a queued job out of the queue; it clears the timer even
\* when the job was terminal already.
CancelJob(j) ==
    /\ Created(j)
    /\ clearing[j] < MaxTails
    /\ IF status[j] \in Terminal
       THEN UNCHANGED <<status, stats, ended, queue>>
       ELSE /\ queue' = IF status[j] = "queued"
                        THEN RemoveFromQueue(queue, j) ELSE queue
            /\ SetJobStatus(j, "canceled")
    /\ WillClear(j)
    /\ UNCHANGED <<request, claimant, inactive, strays, transferVars, clientVars,
                   arming, clientTimer, callbacks>>

\* The first status check of HandleStatusUpdate only rejects; the second one,
\* under the lock that commits, is the guard here.  The body may carry an
\* error, which replaces the one the job has.  Nobody asks whether the job was
\* claimed, or by whom; a job reported "queued" is not put into the queue.
StatusUpdate(j, new) ==
    /\ Created(j)
    /\ status[j] \notin Terminal
    /\ clearing[j] < MaxTails
    /\ SetJobStatus(j, new)
    /\ inactive' \in {inactive, [inactive EXCEPT ![j] = FALSE]}
    /\ strays' = IF claimant[j] = NoClaimer \/ new = "queued"
                 THEN strays \cup {j} ELSE strays
    /\ IF new \in Terminal THEN WillClear(j) ELSE UNCHANGED clearing
    /\ UNCHANGED <<request, claimant, queue, transferVars, clientVars, arming,
                   clientTimer, callbacks>>

-----------------------------------------------------------------------------
\* HandlePayloadRequest and HandleResultRequest check the status, unlock to
\* decode the body and create the channel, and lock again to commit.  A body
\* that does not decode ends the request in between.
RequestTransfer(j, k) ==
    /\ status[j] \in Transferable
    /\ requested[j] < MaxTransfers
    /\ requested' = Bump(requested, j)
    /\ requesting' = [requesting EXCEPT ![j][k] = @ + 1]
    /\ UNCHANGED <<jobVars, clientVars, timerVars>>

RejectTransfer(j, k) ==
    /\ requesting[j][k] > 0
    /\ requesting' = [requesting EXCEPT ![j][k] = @ - 1]
    /\ UNCHANGED <<jobVars, requested, clientVars, timerVars>>

CommitTransfer(j, k) ==
    /\ requesting[j][k] > 0
    /\ requesting' = [requesting EXCEPT ![j][k] = @ - 1]
    /\ SetJobStatus(j, Awaiting(k))
    /\ UNCHANGED <<request, claimant, inactive, queue, strays, requested,
                   clientVars, timerVars>>

-----------------------------------------------------------------------------
\* HandleJobEvents: subscribe, then onClientConnect; on the way out
\* unsubscribe, then onClientDisconnect.
Subscribe(j) ==
    /\ Created(j)
    /\ subscribing[j] + watching[j] < MaxClients
    /\ subscribing' = Bump(subscribing, j)
    /\ UNCHANGED <<jobVars, transferVars, watching, timerVars>>

\* Stop prevents a timer from firing, not a callback that is under way.
ClearEntry(j) == clientTimer' = [clientTimer EXCEPT ![j] = "none"]

\* Faulty variant: the timer is stopped, its entry is left in the map.
ConnectKeepingEntry(j) ==
    /\ subscribing[j] > 0
    /\ subscribing' = Drop(subscribing, j)
    /\ watching' = Bump(watching, j)
    /\ clientTimer' = [clientTimer EXCEPT
                          ![j] = IF @ = "armed" THEN "fired" ELSE @]
    /\ UNCHANGED <<jobVars, transferVars, arming, clearing, callbacks>>

OnClientConnect(j) ==
    /\ subscribing[j] > 0
    /\ subscribing' = Drop(subscribing, j)
    /\ watching' = Bump(watching, j)
    /\ ClearEntry(j)
    /\ UNCHANGED <<jobVars, transferVars, arming, clearing, callbacks>>

Unsubscribe(j) ==
    /\ watching[j] > 0
    /\ arming[j] < MaxClients
    /\ watching' = Drop(watching, j)
    /\ WillArm(j)
    /\ UNCHANGED <<jobVars, transferVars, subscribing, clearing, clientTimer,
                   callbacks>>

StartClientTimerIfIdle(j) ==
    /\ arming[j] > 0
    /\ arming' = Drop(arming, j)
    /\ clientTimer' = IF Subscribed(j) \/ clientTimer[j] # "none"
                      THEN clientTimer
                      ELSE [clientTimer EXCEPT ![j] = "armed"]
    /\ UNCHANGED <<jobVars, transferVars, clientVars, clearing, callbacks>>

ClearClientTimer(j) ==
    /\ clearing[j] > 0
    /\ clearing' = Drop(clearing, j)
    /\ ClearEntry(j)
    /\ UNCHANGED <<jobVars, transferVars, clientVars, arming, callbacks>>

\* The runtime starts the callback of an armed timer in a goroutine of its
\* own, which has to wait for r.mu.  The entry stays in r.clientTimers.
TimerFires(j) ==
    /\ clientTimer[j] = "armed"
    /\ callbacks[j] < MaxCallbacks
    /\ clientTimer' = [clientTimer EXCEPT ![j] = "fired"]
    /\ callbacks' = Bump(callbacks, j)
    /\ UNCHANGED <<jobVars, transferVars, clientVars, arming, clearing>>

\* Faulty variant: only jobs that were not claimed expire.
CancelIdleQueued(j) ==
    IF status[j] # "queued"
    THEN UNCHANGED <<status, stats, ended, queue, inactive>>
    ELSE /\ queue' = RemoveFromQueue(queue, j)
         /\ SetJobStatus(j, "canceled")
         /\ inactive' = [inactive EXCEPT ![j] = TRUE]

CancelIdle(j) ==
    IF status[j] \in Terminal
    THEN UNCHANGED <<status, stats, ended, queue, inactive>>
    ELSE /\ queue' = IF status[j] = "queued"
                     THEN RemoveFromQueue(queue, j) ELSE queue
         /\ SetJobStatus(j, "canceled")
         /\ inactive' = [inactive EXCEPT ![j] = TRUE]

\* expireJobIfIdle knows the job, not the timer it was started by.  When the
\* entry it deletes belongs to a timer that has yet to fire, that timer keeps
\* running: it remains a callback to come, so the count does not change.
ExpireJobIfIdle(j) ==
    /\ callbacks[j] > 0
    /\ callbacks' = IF ~Subscribed(j) /\ clientTimer[j] = "armed"
                    THEN callbacks ELSE Drop(callbacks, j)
    /\ IF Subscribed(j) \/ clientTimer[j] = "none"
       THEN UNCHANGED <<status, stats, ended, queue, inactive, clientTimer>>
       ELSE ClearEntry(j) /\ CancelIdle(j)
    /\ UNCHANGED <<request, claimant, strays, transferVars, clientVars, arming,
                   clearing>>

-----------------------------------------------------------------------------
Next ==
    \/ \E c \in Claimers, i \in DOMAIN queue : Claim(c, i)
    \/ \E j \in JobIds :
        \/ \E r \in Requests : CreateJob(j, r)
        \/ CancelJob(j)
        \/ \E new \in Reported : StatusUpdate(j, new)
        \/ \E k \in Kinds : \/ RequestTransfer(j, k)
                            \/ RejectTransfer(j, k)
                            \/ CommitTransfer(j, k)
        \/ Subscribe(j)
        \/ OnClientConnect(j)
        \/ Unsubscribe(j)
        \/ StartClientTimerIfIdle(j)
        \/ ClearClientTimer(j)
        \/ TimerFires(j)
        \/ ExpireJobIfIdle(j)

\* What a goroutine has begun it goes on with, and armed timers fire.  Nothing
\* makes clients or workers call.
Fairness ==
    \A j \in JobIds :
        /\ WF_vars(OnClientConnect(j))
        /\ WF_vars(StartClientTimerIfIdle(j))
        /\ WF_vars(ClearClientTimer(j))
        /\ WF_vars(TimerFires(j))
        /\ WF_vars(ExpireJobIfIdle(j))

Spec == Init /\ [][Next]_vars
FairSpec == Spec /\ Fairness

-----------------------------------------------------------------------------
TypeOK ==
    /\ status \in [JobIds -> Statuses]
    /\ request \in [JobIds -> Requests \cup {NoRequest}]
    /\ claimant \in [JobIds -> Claimers \cup {NoClaimer}]
    /\ inactive \in [JobIds -> BOOLEAN]
    /\ queue \in Seq(JobIds)
    /\ stats \in [Terminal -> Nat]
    /\ requesting \in [JobIds -> [Kinds -> Nat]]
    /\ {requested, subscribing, watching} \subseteq [JobIds -> Nat]
    /\ {arming, clearing, callbacks} \subseteq [JobIds -> Nat]
    /\ clientTimer \in [JobIds -> {"none", "armed", "fired"}]
    /\ ended \subseteq JobIds
    /\ strays \subseteq JobIds

\* The registry hands out jobs as JobDispatch promises, whatever cancels,
\* expiries, late transfer requests and status reports come in between.
Dispatch == INSTANCE JobDispatch WITH
    submitted <- {j \in JobIds : Created(j)},
    asked <- request,
    waiting <- Range(queue),
    owner <- claimant

ImplementsDispatch == Dispatch!Spec

\* A job is dispatched at most once: whoever claimed it keeps it, whatever is
\* reported, canceled, expired or brought back to life later.
DispatchedOnce ==
    [][\A j \in JobIds :
         claimant[j] # NoClaimer => claimant'[j] = claimant[j]]_vars

\* A job never overtakes an older one that asks for the same.
NoOvertaking ==
    \A i, j \in JobIds :
        (i < j /\ request[i] = request[j] /\ claimant[j] # NoClaimer)
            => i \notin Range(queue)

\* The status "queued" and the place in the queue go together, through
\* cancels, expiries and late transfer requests, for every job that was not
\* reported on out of turn.
QueuedIffInQueue ==
    \A j \in JobIds \ strays : status[j] = "queued" <=> j \in Range(queue)

\* A claim hands out a queued job, never one that was canceled or that expired
\* while it waited; again but for jobs reported on out of turn.
ClaimsQueuedJobs ==
    [][\A j \in JobIds \ strays :
         claimant'[j] # claimant[j] => status[j] = "queued"]_vars

\* The jobs StateSnapshot counts under a status.
WithStatus(s) == {j \in JobIds : status[j] = s}

\* Every job that the state view shows as completed, failed or canceled is in
\* the totals that it shows beside them, which are counted up as jobs end.
StatsCoverTerminal ==
    \A s \in Terminal : Cardinality(WithStatus(s)) <= stats[s]

\* A terminal job keeps its status (but for jobs reported on out of turn).
TerminalIsFinal ==
    [][\A j \in JobIds \ strays : status[j] \in Terminal => status'[j] = status[j]]_vars

\* A job whose client went away is never forgotten: until it has ended, it has
\* a client, a handler about to start its timer, a timer that runs, or a timer
\* that fired and whose callback will find it.
IdleJobIsTimed ==
    HasTTL => \A j \in JobIds :
        Created(j) /\ j \notin ended =>
            \/ Subscribed(j)
            \/ arming[j] > 0
            \/ clientTimer[j] = "armed"
            \/ clientTimer[j] = "fired" /\ callbacks[j] > 0

\* A job that no client watches any more comes to an end.
AbandonedJobEnds ==
    HasTTL => \A j \in JobIds :
        <>[](Created(j) /\ ~Subscribed(j)) => <>(j \in ended)
=============================================================================

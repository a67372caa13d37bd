------------------------------ MODULE JobClaim ------------------------------
(***************************************************************************)
(* How waiting workers learn of new jobs: the long poll of HandleClaimJob, *)
(* the SSE stream of HandleClaimStream, and the one-slot channel r.notify  *)
(* that HandleCreateJob signals (server/internal/jobs/registry.go).        *)
(*                                                                         *)
(* A call is a goroutine that serves one worker connection.  Its pc says   *)
(* where it stands: "idle" (no request), "top" (head of the stream loop,   *)
(* before the context is checked), "scan" (about to call claimNext) and    *)
(* "wait" (in the select).  A connection that went away leaves its call    *)
(* running until the call looks at the context.  "record" and "leave" are  *)
(* the critical sections of their own in which a call enters what it did   *)
(* in the table of workers (WorkerActivity).                               *)
(***************************************************************************)
EXTENDS WorkerActivity, FiniteSets

CONSTANTS
    Polls,      \* calls of HandleClaimJob
    Streams,    \* calls of HandleClaimStream
    Offer       \* what the worker behind each call offers

Calls == Polls \cup Streams

ASSUME JobClaimAssumption ==
    /\ Polls \cap Streams = {}
    /\ Offer \in [Calls -> Claimers]

VARIABLES
    request, claimant, queue,   \* as in JobRegistry
    created,                    \* the jobs in the job table
    notify,                     \* tokens in r.notify: 0 or 1
    signaling,                  \* jobs whose creator has yet to call signal
    workers,                    \* Registry.workers: key to entry
    pc, late, gone,             \* of a call: where it stands, whether its
                                \* deadline passed, whether its client left
    lost,                       \* history: claims for a client that had left
    robbed                      \* history: waiting calls that saw another call
                                \* take the token

tableVars == <<request, claimant, queue, created>>
callVars == <<pc, late, gone, lost, robbed>>
vars == <<tableVars, notify, signaling, workers, callVars>>

Goto(h, where) == pc' = [pc EXCEPT ![h] = where]

Init ==
    /\ request = [j \in JobIds |-> NoRequest]
    /\ claimant = [j \in JobIds |-> NoClaimer]
    /\ queue = <<>>
    /\ created = {}
    /\ notify = 0
    /\ signaling = {}
    /\ workers = <<>>
    /\ pc = [h \in Calls |-> "idle"]
    /\ late = [h \in Calls |-> FALSE]
    /\ gone = [h \in Calls |-> FALSE]
    /\ lost = [h \in Calls |-> 0]
    /\ robbed = {}

-----------------------------------------------------------------------------
\* Faulty variant: only a job that finds the queue empty is signaled.
CreateJobQuietly(j, r) ==
    /\ j \notin created
    /\ 1 .. j - 1 \subseteq created
    /\ created' = created \cup {j}
    /\ request' = [request EXCEPT ![j] = r]
    /\ queue' = Append(queue, j)
    /\ signaling' = IF queue = <<>> THEN signaling \cup {j} ELSE signaling
    /\ UNCHANGED <<claimant, notify, workers, callVars>>

\* HandleCreateJob queues the job in one critical section; the signal comes
\* later, without the lock.
CreateJob(j, r) ==
    /\ j \notin created
    /\ 1 .. j - 1 \subseteq created
    /\ created' = created \cup {j}
    /\ request' = [request EXCEPT ![j] = r]
    /\ queue' = Append(queue, j)
    /\ signaling' = signaling \cup {j}
    /\ UNCHANGED <<claimant, notify, workers, callVars>>

\* A signal that finds the slot taken is dropped.
Signal(j) ==
    /\ j \in signaling
    /\ signaling' = signaling \ {j}
    /\ notify' = 1
    /\ UNCHANGED <<tableVars, workers, callVars>>

\* A cancel or an expiry takes a job out of the queue.
Withdraw(j) ==
    /\ j \in Range(queue)
    /\ queue' = RemoveFromQueue(queue, j)
    /\ UNCHANGED <<request, claimant, created, notify, signaling, workers, callVars>>

-----------------------------------------------------------------------------
\* A poll without max_wait_seconds is late from the start.
OpenPoll(p) ==
    /\ pc[p] = "idle"
    /\ Goto(p, "scan")
    /\ late' \in {[late EXCEPT ![p] = b] : b \in BOOLEAN}
    /\ gone' = [gone EXCEPT ![p] = FALSE]
    /\ lost' = [lost EXCEPT ![p] = 0]
    /\ workers' = RecordWorkerSeen(workers, Key(Offer[p]))
    /\ UNCHANGED <<tableVars, notify, signaling, robbed>>

OpenStream(s) ==
    /\ pc[s] = "idle"
    /\ Goto(s, "top")
    /\ gone' = [gone EXCEPT ![s] = FALSE]
    /\ lost' = [lost EXCEPT ![s] = 0]
    /\ workers' = AddWorkerStream(workers, Key(Offer[s]))
    /\ UNCHANGED <<tableVars, notify, signaling, late, robbed>>

\* Faulty variant: the loop goes on without a look at the context.
StreamTopUnchecked(s) ==
    /\ pc[s] = "top"
    /\ Goto(s, "scan")
    /\ UNCHANGED <<tableVars, notify, signaling, workers, late, gone, lost, robbed>>

StreamTop(s) ==
    /\ pc[s] = "top"
    /\ Goto(s, IF gone[s] THEN "leave" ELSE "scan")
    /\ UNCHANGED <<tableVars, notify, signaling, workers, late, gone, lost, robbed>>

Claim(h, i) ==
    /\ pc[h] = "scan"
    /\ IsFirstClaimable(queue, request, Offer[h], i)
    /\ queue' = RemoveAt(queue, i)
    /\ claimant' = [claimant EXCEPT ![queue[i]] = Offer[h]]
    /\ lost' = IF gone[h] THEN [lost EXCEPT ![h] = @ + 1] ELSE lost
    /\ Goto(h, "record")
    /\ UNCHANGED <<request, created, notify, signaling, workers, late, gone, robbed>>

\* After a claim a poll answers and is done, a stream goes on.
Record(h) ==
    /\ pc[h] = "record"
    /\ workers' = RecordWorkerSeen(workers, Key(Offer[h]))
    /\ Goto(h, IF h \in Polls THEN "idle" ELSE "top")
    /\ UNCHANGED <<tableVars, notify, signaling, late, gone, lost, robbed>>

CanClaim(h) ==
    \E i \in DOMAIN queue : Claimable(request[queue[i]], Offer[h])

\* A poll that finds nothing answers 204 when its time is up.
NothingToClaim(h) ==
    /\ pc[h] = "scan"
    /\ ~CanClaim(h)
    /\ Goto(h, IF h \in Polls /\ late[h] THEN "idle" ELSE "wait")
    /\ robbed' = robbed \ {h}
    /\ UNCHANGED <<tableVars, notify, signaling, workers, late, gone, lost>>

\* Whoever takes the token scans, whether the job is one for it or not.
Wake(h) ==
    /\ pc[h] = "wait"
    /\ notify = 1
    /\ notify' = 0
    /\ Goto(h, IF h \in Polls THEN "scan" ELSE "record")
    /\ robbed' = robbed \cup {g \in Calls \ {h} : pc[g] = "wait"}
    /\ UNCHANGED <<tableVars, signaling, workers, late, gone, lost>>

\* Faulty variant: the keep-alive is written without going round the loop.
KeepAliveOnly(s) ==
    /\ pc[s] = "wait"
    /\ UNCHANGED vars

\* The ticker of a stream writes a keep-alive and goes round the loop.
KeepAlive(s) ==
    /\ pc[s] = "wait"
    /\ Goto(s, "record")
    /\ UNCHANGED <<tableVars, notify, signaling, workers, late, gone, lost, robbed>>

DeadlinePasses(p) ==
    /\ pc[p] # "idle"
    /\ ~late[p]
    /\ late' = [late EXCEPT ![p] = TRUE]
    /\ UNCHANGED <<tableVars, notify, signaling, workers, pc, gone, lost, robbed>>

\* Faulty variant: the deadline is looked at after a wake-up only.
TimeOutWhenWoken(p) ==
    /\ pc[p] = "wait"
    /\ late[p]
    /\ notify = 1
    /\ Goto(p, "idle")
    /\ UNCHANGED <<tableVars, notify, signaling, workers, late, gone, lost, robbed>>

\* The 204 of a waiting poll: there is no last look at the queue.
TimeOut(p) ==
    /\ pc[p] = "wait"
    /\ late[p]
    /\ Goto(p, "idle")
    /\ UNCHANGED <<tableVars, notify, signaling, workers, late, gone, lost, robbed>>

ClientLeaves(h) ==
    /\ pc[h] # "idle"
    /\ ~gone[h]
    /\ gone' = [gone EXCEPT ![h] = TRUE]
    /\ UNCHANGED <<tableVars, notify, signaling, workers, pc, late, lost, robbed>>

HangUp(h) ==
    /\ pc[h] = "wait"
    /\ gone[h]
    /\ Goto(h, IF h \in Polls THEN "idle" ELSE "leave")
    /\ UNCHANGED <<tableVars, notify, signaling, workers, late, gone, lost, robbed>>

\* The deferred removeWorkerStream.
LeaveStream(s) ==
    /\ pc[s] = "leave"
    /\ workers' = RemoveWorkerStream(workers, Key(Offer[s]))
    /\ Goto(s, "idle")
    /\ UNCHANGED <<tableVars, notify, signaling, late, gone, lost, robbed>>

-----------------------------------------------------------------------------
\* A worker was not seen for workerRetention; a call of its own may be in
\* flight all the while.
GrowStale(k) ==
    /\ k \in DOMAIN workers
    /\ ~workers[k].stale
    /\ workers' = [workers EXCEPT ![k].stale = TRUE]
    /\ UNCHANGED <<tableVars, notify, signaling, callVars>>

\* To show the workers is to prune them.
StateSnapshot ==
    /\ workers' = PruneWorkers(workers)
    /\ UNCHANGED <<tableVars, notify, signaling, callVars>>

-----------------------------------------------------------------------------
Next ==
    \/ \E j \in JobIds : \/ \E r \in Requests : CreateJob(j, r)
                         \/ Signal(j)
                         \/ Withdraw(j)
    \/ \E p \in Polls : OpenPoll(p) \/ DeadlinePasses(p) \/ TimeOut(p)
    \/ \E s \in Streams : OpenStream(s) \/ StreamTop(s) \/ KeepAlive(s)
                            \/ LeaveStream(s)
    \/ \E h \in Calls : \/ \E i \in DOMAIN queue : Claim(h, i)
                        \/ NothingToClaim(h)
                        \/ Record(h)
                        \/ Wake(h)
                        \/ ClientLeaves(h)
                        \/ HangUp(h)
    \/ \E k \in DOMAIN workers : GrowStale(k)
    \/ StateSnapshot

\* A call that can go on does; tickers tick, deadlines pass.  Nothing makes
\* workers call or clients create jobs.
Fairness ==
    /\ \A j \in JobIds : WF_vars(Signal(j))
    /\ \A p \in Polls : WF_vars(DeadlinePasses(p)) /\ WF_vars(TimeOut(p))
    /\ \A s \in Streams : WF_vars(StreamTop(s)) /\ WF_vars(KeepAlive(s))
    /\ \A h \in Calls :
        /\ WF_vars(NothingToClaim(h) \/ \E i \in DOMAIN queue : Claim(h, i))
        /\ WF_vars(HangUp(h)) /\ WF_vars(Record(h))

Spec == Init /\ [][Next]_vars
FairSpec == Spec /\ Fairness

-----------------------------------------------------------------------------
TypeOK ==
    /\ request \in [JobIds -> Requests \cup {NoRequest}]
    /\ claimant \in [JobIds -> Claimers \cup {NoClaimer}]
    /\ queue \in Seq(JobIds)
    /\ created \subseteq JobIds
    /\ notify \in {0, 1}
    /\ signaling \subseteq created
    /\ DOMAIN workers \subseteq {Key(c) : c \in Claimers}
    /\ \A k \in DOMAIN workers : workers[k] \in Entries
    /\ pc \in [Calls -> {"idle", "top", "scan", "record", "wait", "leave"}]
    /\ late \in [Calls -> BOOLEAN]
    /\ gone \in [Calls -> BOOLEAN]
    /\ lost \in [Calls -> Nat]
    /\ robbed \subseteq Calls

\* Polls and streams that race for the queue dispatch jobs as promised.
Dispatch == INSTANCE JobDispatch WITH
    submitted <- created, asked <- request,
    waiting <- Range(queue), owner <- claimant

ImplementsDispatch == Dispatch!Spec

\* A connection that went away costs at most the one job that its call was
\* about to claim: the stream loop looks at the context before every claim.
LosesAtMostOne == \A h \in Calls : lost[h] <= 1

\* What the state view says of streams is true: a worker is shown with as many
\* as it has open, though it may not have been heard of for longer than the
\* entries of others are kept, and however its calls end.
OpenStreams(k) == {s \in Streams : pc[s] # "idle" /\ Key(Offer[s]) = k}

StreamsAreCounted ==
    \A k \in {Key(Offer[h]) : h \in Calls} \ {NoKey} :
        Cardinality(OpenStreams(k)) =
            IF k \in DOMAIN workers THEN workers[k].streams ELSE 0

\* A worker is left waiting with a job for it in the queue only when another
\* call took the wake-up: otherwise the wake-up is in the channel or its sender
\* is on the way.  Signals that coalesce and tokens left behind by calls that
\* are through lose nothing.
OnlyTheftLosesWakeups ==
    \A h \in Calls : pc[h] = "wait" /\ CanClaim(h) =>
        notify = 1 \/ signaling # {} \/ h \in robbed

\* A job never waits for ever beside a stream that may have it, whoever else
\* took the wake-up: the keep-alive makes the stream look again.
StreamServesQueue ==
    \A s \in Streams, j \in JobIds :
        []<>~(/\ pc[s] # "idle" /\ ~gone[s]
              /\ j \in Range(queue) /\ Claimable(request[j], Offer[s]))

\* Every poll comes to an end.
PollIsAnswered == \A p \in Polls : pc[p] # "idle" ~> pc[p] = "idle"
=============================================================================

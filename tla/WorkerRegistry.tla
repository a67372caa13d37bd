--------------------------- MODULE WorkerRegistry ---------------------------
(***************************************************************************)
(* The worker registry and the server's end of the worker WebSocket:       *)
(* registry.go, scheduler.go and ws.go of sdk/base/worker.                 *)
(*                                                                         *)
(* Every connection makes a Worker object and registers it under the id    *)
(* the agent announced, replacing whatever is registered under it; the     *)
(* deferred Remove takes the id out again, whatever is registered under it *)
(* by then.  The read loop hands the frames of a request to its handler    *)
(* over a bounded channel and waits while that is full: it looks the       *)
(* channel up under the worker's lock and sends after it unlocked.         *)
(*                                                                         *)
(* One connection of an agent is one element of Conns and is made at most  *)
(* once.  Labels and scores are fixed.  Chunks, headers and the older job  *)
(* frames that do not end a request are all "parts"; the frames that end   *)
(* one (result, error, end) are all "ends".                                *)
(***************************************************************************)
EXTENDS Integers, Sequences, FiniteSets

CONSTANTS
    Ids,        \* ids of agents
    Conns,      \* connections, and the Worker objects made for them
    Owner,      \* of a connection: the id its agent announces
    Models, Score, \* of a connection and a model: 2 if the agent serves it,
                   \* 1 if it serves an alias, 0 otherwise
    MaxConc,    \* of a connection: the concurrency its agent announces
    Reqs, Wants, \* proxied requests, and the model of each
    SendSlots,  \* slots of Worker.Send (32)
    JobSlots,   \* slots of the channel of a request (16)
    NoConn, NoFrame

ASSUME WorkerRegistryAssumption ==
    /\ Owner \in [Conns -> Ids]
    /\ Score \in [Conns -> [Models -> 0 .. 2]]
    /\ MaxConc \in [Conns -> Nat]
    /\ Wants \in [Reqs -> Models]
    /\ SendSlots \in Nat \ {0} /\ JobSlots \in Nat \ {0}
    /\ NoConn \notin Conns
    /\ NoFrame \notin [req : Reqs, end : BOOLEAN]

VARIABLES
    entry,     \* Registry.workers: of an id, the Worker under it, or NoConn
    evicting,  \* the Worker that Remove or PruneExpired is at, with its job
               \* channels closed and Send still open, or NoConn
    link,      \* of a connection: "new", "open", "leaving" (its read loop
               \* returned or panicked, the deferred calls are to come),
               \* "removed" (reg.Remove is under way or done), "over"
    held,      \* of a connection: the frame its read loop is sending
    jobs,      \* Worker.Jobs: the requests whose channel is registered
    sendOpen,  \* of a Worker: Send is not closed
    outbox,    \* of a Worker: the messages buffered in Send
    inflight, limit, \* of an id: InFlight and MaxConcurrency of the Worker
               \* registered under it; those of any other are never read
    work,      \* of a connection: requests its agent received and has not ended
    chan, chanOpen,  \* of a request: the frames buffered in its channel
                     \* (TRUE for an end), and whether it is still open
    jobsInflight, \* MetricsRegistry: the gauge of all jobs
    tally      \* MetricsRegistry.workers: of an id, its gauge, or Unlisted

registryVars == <<entry, evicting, jobs, sendOpen, chanOpen>>
linkVars == <<link, held, work>>
metricVars == <<jobsInflight, tally>>
workerVars == <<registryVars, linkVars, outbox, inflight, limit, chan, metricVars>>

Unlisted == -1

WorkerTypeOK ==
    /\ entry \in [Ids -> Conns \cup {NoConn}]
    /\ evicting \in Conns \cup {NoConn}
    /\ link \in [Conns -> {"new", "open", "leaving", "removed", "over"}]
    /\ held \in [Conns -> [req : Reqs, end : BOOLEAN] \cup {NoFrame}]
    /\ jobs \in [Conns -> SUBSET Reqs]
    /\ sendOpen \in [Conns -> BOOLEAN]
    /\ outbox \in [Conns -> Seq([req : Reqs, cancel : BOOLEAN])]
    /\ inflight \in [Ids -> Nat]
    /\ limit \in [Ids -> Nat]
    /\ work \in [Conns -> SUBSET Reqs]
    /\ chan \in [Reqs -> Seq(BOOLEAN)]
    /\ chanOpen \in [Reqs -> BOOLEAN]
    /\ jobsInflight \in Nat
    /\ tally \in [Ids -> Nat \cup {Unlisted}]

WorkerInit ==
    /\ entry = [id \in Ids |-> NoConn]
    /\ evicting = NoConn
    /\ link = [c \in Conns |-> "new"]
    /\ held = [c \in Conns |-> NoFrame]
    /\ jobs = [c \in Conns |-> {}]
    /\ sendOpen = [c \in Conns |-> TRUE]
    /\ outbox = [c \in Conns |-> <<>>]
    /\ inflight = [id \in Ids |-> 0]
    /\ limit = [id \in Ids |-> 0]
    /\ work = [c \in Conns |-> {}]
    /\ chan = [r \in Reqs |-> <<>>]
    /\ chanOpen = [r \in Reqs |-> FALSE]
    /\ jobsInflight = 0
    /\ tally = [id \in Ids |-> Unlisted]

IsRegistered(c) == entry[Owner[c]] = c
HasRoom(id) == inflight[id] < limit[id]

\* Registry.mu is free: only an eviction holds it over more than one step.
Unlocked == evicting = NoConn

\* AggregatedModel: a registered worker serves the model itself.
Served(model) == \E c \in Conns : IsRegistered(c) /\ Score[c][model] = 2

\* AggregatedModels, as modelSupported goes through them: one serves an alias.
ServedAsAlias(model) == \E c \in Conns : IsRegistered(c) /\ Score[c][model] = 1

\* modelSupported: workers without room count.
Supported(model) == Served(model) \/ ServedAsAlias(model)

\* PickWorker: of the workers with room those of the best score, and of
\* these the least busy.  It locks one worker at a time; read as one step.
Candidates(model) ==
    LET able == {c \in Conns : IsRegistered(c) /\ HasRoom(Owner[c]) /\ Score[c][model] > 0}
        best == {c \in able : \A d \in able : Score[d][model] <= Score[c][model]}
    IN  {c \in best : \A d \in best : inflight[Owner[c]] <= inflight[Owner[d]]}

-----------------------------------------------------------------------------
\* Faulty variant: the channels of the jobs are left open.
EvictKeepingJobs(id) ==
    LET c == entry[id]
    IN  IF c = NoConn THEN UNCHANGED <<registryVars, inflight, limit>>
        ELSE /\ evicting' = c
             /\ entry' = [entry EXCEPT ![id] = NoConn]
             /\ jobs' = [jobs EXCEPT ![c] = {}]
             /\ inflight' = [inflight EXCEPT ![id] = 0]
             /\ limit' = [limit EXCEPT ![id] = 0]
             /\ UNCHANGED <<sendOpen, chanOpen>>

\* Remove and PruneExpired, first half: the Worker under the id goes, and its
\* job channels are closed under its own lock.  (Its counters go with it.)
Evict(id) ==
    LET c == entry[id]
    IN  IF c = NoConn THEN UNCHANGED <<registryVars, inflight, limit>>
        ELSE /\ evicting' = c
             /\ entry' = [entry EXCEPT ![id] = NoConn]
             /\ jobs' = [jobs EXCEPT ![c] = {}]
             /\ chanOpen' = [r \in Reqs |-> chanOpen[r] /\ r \notin jobs[c]]
             /\ inflight' = [inflight EXCEPT ![id] = 0]
             /\ limit' = [limit EXCEPT ![id] = 0]
             /\ UNCHANGED sendOpen

\* Second half: close(w.Send), still under Registry.mu and no more under the
\* lock of the Worker: a request may have been added and sent in between.
CloseSend ==
    /\ ~Unlocked
    /\ sendOpen' = [sendOpen EXCEPT ![evicting] = FALSE]
    /\ evicting' = NoConn
    /\ UNCHANGED <<entry, jobs, chanOpen, linkVars, outbox, inflight, limit, chan, metricVars>>

\* Worker.RemoveJob closes the channel it finds.
RemoveJob(c, r) ==
    /\ jobs' = [jobs EXCEPT ![c] = @ \ {r}]
    /\ chanOpen' = [chanOpen EXCEPT ![r] = @ /\ r \notin jobs[c]]

\* UpsertWorker: an id that is listed keeps its gauge.
UpsertWorker(id) ==
    tally' = [tally EXCEPT ![id] = IF @ = Unlisted THEN 0 ELSE @]

\* WSHandler up to the defer, on a server that is not draining: Registry.Add
\* and UpsertWorker.  (Read as one step: a request given to the Worker in
\* between is missing from the gauge.)
Register(c) ==
    /\ link[c] = "new"
    /\ Unlocked
    /\ link' = [link EXCEPT ![c] = "open"]
    /\ entry' = [entry EXCEPT ![Owner[c]] = c]
    /\ inflight' = [inflight EXCEPT ![Owner[c]] = 0]
    /\ limit' = [limit EXCEPT ![Owner[c]] = MaxConc[c]]
    /\ UpsertWorker(Owner[c])
    /\ UNCHANGED <<held, work, evicting, jobs, sendOpen, chanOpen, outbox, chan>>
    /\ UNCHANGED jobsInflight

\* A status_update: the agent drains, or is back.
StatusUpdate(c) ==
    /\ link[c] = "open"
    /\ held[c] = NoFrame
    /\ IsRegistered(c)
    /\ \E n \in {0, MaxConc[c]} : limit' = [limit EXCEPT ![Owner[c]] = n]
    /\ UNCHANGED <<registryVars, linkVars, outbox, inflight, chan, metricVars>>

\* The writer goroutine takes a message and the agent gets it.  An agent may
\* send on after a cancel: what it sent before is on its way.
Write(c) ==
    /\ link[c] \in {"open", "leaving", "removed"}
    /\ outbox[c] /= <<>>
    /\ outbox' = [outbox EXCEPT ![c] = Tail(@)]
    /\ LET m == Head(outbox[c])
       IN  work' = [work EXCEPT ![c] = IF m.cancel THEN @ ELSE @ \cup {m.req}]
    /\ UNCHANGED <<registryVars, link, held, inflight, limit, chan, metricVars>>

\* The read loop reads a frame and looks its channel up under the lock.
ReadPart(c, r) ==
    /\ link[c] = "open"
    /\ held[c] = NoFrame
    /\ r \in work[c]
    /\ held' = [held EXCEPT ![c] =
                  IF r \in jobs[c] THEN [req |-> r, end |-> FALSE] ELSE NoFrame]
    /\ UNCHANGED <<registryVars, link, work, outbox, inflight, limit, chan, metricVars>>

\* Faulty variant: the channel stays in the table.
ReadEndKeepingJob(c, r) ==
    /\ link[c] = "open"
    /\ held[c] = NoFrame
    /\ r \in work[c]
    /\ work' = [work EXCEPT ![c] = @ \ {r}]
    /\ held' = [held EXCEPT ![c] =
                  IF r \in jobs[c] THEN [req |-> r, end |-> TRUE] ELSE NoFrame]
    /\ UNCHANGED <<link, registryVars, outbox, inflight, limit, chan, metricVars>>

\* The channel of a request that ends is taken out of the table at once.
ReadEnd(c, r) ==
    /\ link[c] = "open"
    /\ held[c] = NoFrame
    /\ r \in work[c]
    /\ work' = [work EXCEPT ![c] = @ \ {r}]
    /\ jobs' = [jobs EXCEPT ![c] = @ \ {r}]
    /\ held' = [held EXCEPT ![c] =
                  IF r \in jobs[c] THEN [req |-> r, end |-> TRUE] ELSE NoFrame]
    /\ UNCHANGED <<link, entry, evicting, sendOpen, chanOpen, outbox, inflight, limit, chan, metricVars>>

\* ch <- m, when the channel has a slot; after an end the channel is closed.
Deliver(c) ==
    LET f == held[c]
    IN  /\ f /= NoFrame
        /\ chanOpen[f.req]
        /\ Len(chan[f.req]) < JobSlots
        /\ chan' = [chan EXCEPT ![f.req] = Append(@, f.end)]
        /\ chanOpen' = [chanOpen EXCEPT ![f.req] = ~f.end]
        /\ held' = [held EXCEPT ![c] = NoFrame]
        /\ UNCHANGED <<link, work, entry, evicting, jobs, sendOpen, outbox, inflight, limit, metricVars>>

\* The channel was closed since it was looked up: the send panics, and
\* net/http recovers the panic of the handler.
PanicOnClosed(c) ==
    /\ held[c] /= NoFrame
    /\ ~chanOpen[held[c].req]
    /\ held' = [held EXCEPT ![c] = NoFrame]
    /\ link' = [link EXCEPT ![c] = "leaving"]
    /\ UNCHANGED <<registryVars, work, outbox, inflight, limit, chan, metricVars>>

\* A read fails.
Break(c) ==
    /\ link[c] = "open"
    /\ held[c] = NoFrame
    /\ link' = [link EXCEPT ![c] = "leaving"]
    /\ UNCHANGED <<registryVars, held, work, outbox, inflight, limit, chan, metricVars>>

\* The deferred reg.Remove(wk.ID).
Deregister(c) ==
    /\ link[c] = "leaving"
    /\ Unlocked
    /\ link' = [link EXCEPT ![c] = "removed"]
    /\ Evict(Owner[c])
    /\ UNCHANGED <<held, work, outbox, chan, metricVars>>

\* metrics.RemoveWorker, the count of the workers that are left, and the close
\* of the connection, on which the agent gives up what it has in hand.
HangUp(c) ==
    /\ link[c] = "removed"
    /\ Unlocked
    /\ link' = [link EXCEPT ![c] = "over"]
    /\ work' = [work EXCEPT ![c] = {}]
    /\ tally' = [tally EXCEPT ![Owner[c]] = Unlisted]
    /\ UNCHANGED <<registryVars, held, outbox, inflight, limit, chan, jobsInflight>>

\* PruneExpired: no heartbeat was read under the id for too long, because the
\* agent is silent or because its read loop waits.
Prune(id) ==
    /\ entry[id] /= NoConn
    /\ Unlocked
    /\ Evict(id)
    /\ UNCHANGED <<linkVars, outbox, chan, metricVars>>

ReadLoop(c) ==
    \/ StatusUpdate(c) \/ Deliver(c) \/ PanicOnClosed(c) \/ Break(c)
    \/ \E r \in Reqs : ReadPart(c, r) \/ ReadEnd(c, r)

-----------------------------------------------------------------------------
\* MetricsRegistry.RecordJobStart and RecordJobEnd, for a Worker.
RecordJobStart(c) ==
    LET id == Owner[c]
    IN  /\ tally' = [tally EXCEPT ![id] = IF @ = Unlisted THEN @ ELSE @ + 1]
        /\ jobsInflight' = jobsInflight + 1

RecordJobEnd(c) ==
    LET id == Owner[c]
    IN  /\ tally' = [tally EXCEPT ![id] = IF @ > 0 THEN @ - 1 ELSE @]
        /\ jobsInflight' = IF jobsInflight > 0 THEN jobsInflight - 1 ELSE 0
=============================================================================

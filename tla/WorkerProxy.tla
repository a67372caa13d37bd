----------------------------- MODULE WorkerProxy -----------------------------
(***************************************************************************)
(* Requests proxied to workers, over the worker registry and the scheduler *)
(* of their plugin.  Generation requests go through the completion queue   *)
(* (generationProxyHandler of modules/llm/ext/openai); embeddings without  *)
(* input, transcriptions and document conversions (EmbeddingsHandler,      *)
(* transcribeHandler of modules/asr/ext, proxyHandler of                   *)
(* modules/docling/ext) are dispatched at once or refused.                 *)
(*                                                                         *)
(* Every handler picks a worker, registers a channel with it and offers    *)
(* the request to Send without waiting, each under a lock of its own, and  *)
(* any step of the registry may come in between.  A generation request is  *)
(* counted after it was sent; the others are counted first, with the       *)
(* clean-up already deferred, so that a panic undoes what was done.        *)
(***************************************************************************)
EXTENDS WorkerRegistry, CompletionQueue, Functions

CONSTANT Mixes   \* the endpoints a plugin may be serving its requests at

Endpoints == {"generation", "embeddings", "transcription", "conversion", "none"}

ASSUME MixesAssumption == Mixes \subseteq [Reqs -> Endpoints]

VARIABLES
    endpoint,   \* of a request: where it was posted
    pc,     \* of a request: where its handler stands
    via,    \* of a request: the worker PickWorker chose last
    late,   \* history: requests whose channel was registered with a Worker
            \* that had been evicted
    queue   \* the completion queue

proxyVars == <<endpoint, pc, via, late, queue>>
vars == <<workerVars, proxyVars>>

\* "pick", "add", "send": choosing a worker, registering the channel, offering
\* the request; "count": IncInFlight, which comes last for a generation request
\* and second for the others; "enter", "queued": around the queue; "loop": the
\* proxy loop; "refused", "unjob", "uncount": the deferred clean-up of a request
\* that was not sent, or that was; "dead": panicked with nothing to clean up.
Places == {"pick", "count", "add", "send", "enter", "queued",
           "loop", "refused", "unjob", "uncount", "over", "dead"}

Generation(r) == endpoint[r] = "generation"
Direct(r) == ~Generation(r)

\* The request stands between its IncInFlight and its DecInFlight.
Counted(r) ==
    \/ pc[r] \in {"loop", "unjob", "uncount"}
    \/ Direct(r) /\ pc[r] \in {"add", "send", "refused"}

\* ... between its RecordJobStart and its RecordJobEnd.
Running(r) ==
    \/ pc[r] \in {"loop", "unjob"}
    \/ Generation(r) /\ pc[r] = "count"

TypeOK ==
    /\ WorkerTypeOK
    /\ endpoint \in Mixes
    /\ pc \in [Reqs -> Places]
    /\ via \in [Reqs -> Conns \cup {NoConn}]
    /\ late \subseteq Reqs
    /\ queue \in Seq(Reqs)

Init ==
    /\ WorkerInit
    /\ endpoint \in Mixes
    /\ pc = [r \in Reqs |-> IF endpoint[r] = "none" THEN "over" ELSE "pick"]
    /\ via = [r \in Reqs |-> NoConn]
    /\ late = {}
    /\ queue = <<>>

Goto(r, place) == pc' = [pc EXCEPT ![r] = place]

\* tryDispatch failed: back to the ticker, or on to the queue.
NotDispatched(r) == Goto(r, IF r \in Range(queue) THEN "queued" ELSE "enter")

-----------------------------------------------------------------------------
(* What all handlers do.                                                   *)

\* PickWorker, where there is a worker.
Pick(r, next) ==
    /\ pc[r] = "pick"
    /\ Unlocked
    /\ \E c \in Candidates(Wants[r]) : via' = [via EXCEPT ![r] = c]
    /\ Goto(r, next)
    /\ UNCHANGED <<workerVars, endpoint, late, queue>>

CannotPick(r) == pc[r] = "pick" /\ Unlocked /\ Candidates(Wants[r]) = {}

\* IncInFlight of whatever the worker's id stands for now.
Inc(r) ==
    LET id == Owner[via[r]]
    IN  inflight' = [inflight EXCEPT ![id] = IF entry[id] = NoConn THEN @ ELSE @ + 1]

\* AddJob takes the lock of the Worker and does not ask whether it is still
\* registered.
AddJob(r) ==
    LET c == via[r]
    IN  /\ pc[r] = "add"
        /\ jobs' = [jobs EXCEPT ![c] = @ \cup {r}]
        /\ chan' = [chan EXCEPT ![r] = <<>>]
        /\ chanOpen' = [chanOpen EXCEPT ![r] = TRUE]
        /\ late' = IF evicting = c \/ ~sendOpen[c] THEN late \cup {r} ELSE late \ {r}
        /\ Goto(r, "send")
        /\ UNCHANGED <<entry, evicting, sendOpen, linkVars, outbox, inflight, limit, metricVars>>
        /\ UNCHANGED <<endpoint, via, queue>>

\* A slot of Send takes the request, which the metrics count from then on.
Send(r, next) ==
    LET c == via[r]
    IN  /\ pc[r] = "send"
        /\ sendOpen[c]
        /\ Len(outbox[c]) < SendSlots
        /\ outbox' = [outbox EXCEPT ![c] = Append(@, [req |-> r, cancel |-> FALSE])]
        /\ RecordJobStart(c)
        /\ Goto(r, next)
        /\ UNCHANGED <<registryVars, linkVars, inflight, limit, chan>>
        /\ UNCHANGED <<endpoint, via, late, queue>>

Busy(r) == pc[r] = "send" /\ sendOpen[via[r]] /\ Len(outbox[via[r]]) >= SendSlots

\* Send was closed since the pick: the select panics, and net/http recovers
\* the panic after what the handler had deferred.
SendPanics(r, next) ==
    /\ pc[r] = "send"
    /\ ~sendOpen[via[r]]
    /\ Goto(r, next)
    /\ UNCHANGED <<workerVars, endpoint, via, late, queue>>

-----------------------------------------------------------------------------
(* tryDispatch of a generation request.                                    *)

PickNone(r) ==
    /\ CannotPick(r)
    /\ NotDispatched(r)
    /\ UNCHANGED <<workerVars, endpoint, via, late, queue>>

SendIsFull(r) ==
    /\ Busy(r)
    /\ RemoveJob(via[r], r)
    /\ NotDispatched(r)
    /\ UNCHANGED <<entry, evicting, sendOpen, linkVars, outbox, inflight, limit, chan, metricVars>>
    /\ UNCHANGED <<endpoint, via, late, queue>>

\* Faulty variant: the queue entry of a dispatched request stays.
CountStaying(r) ==
    /\ pc[r] = "count"
    /\ Unlocked
    /\ Inc(r)
    /\ Goto(r, "loop")
    /\ UNCHANGED <<registryVars, linkVars, outbox, limit, chan, metricVars>>
    /\ UNCHANGED <<endpoint, via, late, queue>>

\* A request from the queue leaves it once it was counted.
Count(r) ==
    /\ pc[r] = "count"
    /\ Unlocked
    /\ Inc(r)
    /\ queue' = Leave(queue, r)
    /\ Goto(r, "loop")
    /\ UNCHANGED <<registryVars, linkVars, outbox, limit, chan, metricVars>>
    /\ UNCHANGED <<endpoint, via, late>>

TryDispatch(r) ==
    \/ Pick(r, "add") \/ PickNone(r) \/ AddJob(r) \/ Send(r, "count")
    \/ SendIsFull(r) \/ SendPanics(r, "dead") \/ Count(r)

-----------------------------------------------------------------------------
(* The queue.                                                              *)

\* Enter, or 404 and 503.
EnterQueue(r) ==
    /\ pc[r] = "enter"
    /\ Unlocked
    /\ IF Supported(Wants[r]) /\ HasSlot(queue)
       THEN queue' = Append(queue, r) /\ Goto(r, "queued")
       ELSE UNCHANGED queue /\ Goto(r, "over")
    /\ UNCHANGED <<workerVars, endpoint, via, late>>

CanDispatch(r) == Candidates(Wants[r]) /= {}

\* The retry ticker.
Retry(r) ==
    /\ pc[r] = "queued"
    /\ Unlocked
    /\ IF Supported(Wants[r])
       THEN /\ IsFirstDispatchable(queue, r, {s \in Reqs : CanDispatch(s)})
            /\ Goto(r, "pick")
            /\ UNCHANGED queue
       ELSE queue' = Leave(queue, r) /\ Goto(r, "over")
    /\ UNCHANGED <<workerVars, endpoint, via, late>>

\* The client is gone: it may leave whenever it likes, and the end of its
\* context is looked at here and in the proxy loop.
LeaveQueue(r) ==
    /\ pc[r] = "queued"
    /\ queue' = Leave(queue, r)
    /\ Goto(r, "over")
    /\ UNCHANGED <<workerVars, endpoint, via, late>>

WaitForTurn(r) == EnterQueue(r) \/ Retry(r) \/ LeaveQueue(r)

-----------------------------------------------------------------------------
(* The dispatch of the other requests: in place of a queue, 404 or 503.    *)

\* A body that cannot be read, or not of the type the endpoint takes.
RefuseBody(r) ==
    /\ pc[r] = "pick"
    /\ Goto(r, "over")
    /\ UNCHANGED <<workerVars, endpoint, via, late, queue>>

\* A form is read to its end for its model, and refused without one.
RefuseForm(r) == endpoint[r] = "transcription" /\ RefuseBody(r)

RefuseUnserved(r) ==
    /\ CannotPick(r)
    /\ Goto(r, "over")
    /\ UNCHANGED <<workerVars, endpoint, via, late, queue>>

Charge(r) ==
    /\ pc[r] = "count"
    /\ Unlocked
    /\ Inc(r)
    /\ Goto(r, "add")
    /\ UNCHANGED <<registryVars, linkVars, outbox, limit, chan, metricVars>>
    /\ UNCHANGED <<endpoint, via, late, queue>>

RefuseBusy(r) ==
    /\ Busy(r)
    /\ Goto(r, "refused")
    /\ UNCHANGED <<workerVars, endpoint, via, late, queue>>

\* Nothing was sent: only the channel and the count are taken back.
TakeBack(r) ==
    /\ pc[r] = "refused"
    /\ RemoveJob(via[r], r)
    /\ Goto(r, "uncount")
    /\ UNCHANGED <<entry, evicting, sendOpen, linkVars, outbox, inflight, limit, chan, metricVars>>
    /\ UNCHANGED <<endpoint, via, late, queue>>

DispatchAtOnce(r) ==
    \/ Pick(r, "count") \/ RefuseUnserved(r) \/ Charge(r) \/ AddJob(r)
    \/ Send(r, "loop") \/ RefuseBusy(r) \/ SendPanics(r, "refused") \/ TakeBack(r)

-----------------------------------------------------------------------------
(* The proxy loop and the deferred clean-up.                               *)

\* A cancel for the worker, unless Send is full.  If Send is closed the
\* select panics, which ends the loop with the same deferred calls.
OfferCancel(r) ==
    LET c == via[r]
    IN  outbox' = IF sendOpen[c] /\ Len(outbox[c]) < SendSlots
                  THEN [outbox EXCEPT ![c] = Append(@, [req |-> r, cancel |-> TRUE])]
                  ELSE outbox

\* Faulty variant: the request is over without the clean-up.
AbandonUncounted(r) ==
    /\ pc[r] = "loop"
    /\ OfferCancel(r)
    /\ Goto(r, "over")
    /\ UNCHANGED <<registryVars, linkVars, inflight, limit, chan, metricVars>>
    /\ UNCHANGED <<endpoint, via, late, queue>>

\* The client is gone, or nothing was read for the request timeout (and, but
\* for transcriptions and conversions, the worker's heartbeat is older than
\* that too; heartbeats are not modelled, so this may always happen).
Abandon(r) ==
    /\ pc[r] = "loop"
    /\ OfferCancel(r)
    /\ Goto(r, "unjob")
    /\ UNCHANGED <<registryVars, linkVars, inflight, limit, chan, metricVars>>
    /\ UNCHANGED <<endpoint, via, late, queue>>

\* A frame: the last one ends the request.
ReadFrame(r) ==
    /\ pc[r] = "loop"
    /\ chan[r] /= <<>>
    /\ chan' = [chan EXCEPT ![r] = Tail(@)]
    /\ Goto(r, IF Head(chan[r]) THEN "unjob" ELSE "loop")
    /\ UNCHANGED <<registryVars, linkVars, outbox, inflight, limit, metricVars>>
    /\ UNCHANGED <<endpoint, via, late, queue>>

ReadClosed(r) ==
    /\ pc[r] = "loop"
    /\ chan[r] = <<>>
    /\ ~chanOpen[r]
    /\ Goto(r, "unjob")
    /\ UNCHANGED <<workerVars, endpoint, via, late, queue>>

\* Faulty variant: RemoveJob is left out.
SkipUnjob(r) ==
    /\ pc[r] = "unjob"
    /\ RecordJobEnd(via[r])
    /\ Goto(r, "uncount")
    /\ UNCHANGED <<registryVars, linkVars, outbox, inflight, limit, chan>>
    /\ UNCHANGED <<endpoint, via, late, queue>>

\* The deferred RemoveJob and RecordJobEnd, in either order.
Unjob(r) ==
    /\ pc[r] = "unjob"
    /\ RemoveJob(via[r], r)
    /\ RecordJobEnd(via[r])
    /\ Goto(r, "uncount")
    /\ UNCHANGED <<entry, evicting, sendOpen, linkVars, outbox, inflight, limit, chan>>
    /\ UNCHANGED <<endpoint, via, late, queue>>

\* DecInFlight.
Dec(r) ==
    LET id == Owner[via[r]]
    IN  inflight' = [inflight EXCEPT ![id] = IF @ = 0 THEN @ ELSE @ - 1]

Uncount(r) ==
    /\ pc[r] = "uncount"
    /\ Unlocked
    /\ Dec(r)
    /\ Goto(r, "over")
    /\ UNCHANGED <<registryVars, linkVars, outbox, limit, chan, metricVars>>
    /\ UNCHANGED <<endpoint, via, late, queue>>

Proxy(r) ==
    Abandon(r) \/ ReadFrame(r) \/ ReadClosed(r) \/ Unjob(r) \/ Uncount(r)

-----------------------------------------------------------------------------
(* The handlers.                                                           *)

Generate(r) == Generation(r) /\ (TryDispatch(r) \/ WaitForTurn(r) \/ Proxy(r))

\* An embeddings request with an input is split: see Partition.
Embed(r) ==
    endpoint[r] = "embeddings" /\ (RefuseBody(r) \/ DispatchAtOnce(r) \/ Proxy(r))

Transcribe(r) ==
    endpoint[r] = "transcription" /\ (RefuseForm(r) \/ DispatchAtOnce(r) \/ Proxy(r))

\* Any worker of the plugin will do.
Convert(r) == endpoint[r] = "conversion" /\ (DispatchAtOnce(r) \/ Proxy(r))

Environment ==
    \/ \E c \in Conns :
         Register(c) \/ Write(c) \/ ReadLoop(c) \/ Deregister(c) \/ HangUp(c)
    \/ \E id \in Ids : Prune(id)
    \/ CloseSend

Next ==
    \/ \E r \in Reqs :
         Generate(r) \/ Embed(r) \/ Transcribe(r) \/ Convert(r)
    \/ Environment /\ UNCHANGED proxyVars

Spec == Init /\ [][Next]_vars

-----------------------------------------------------------------------------
\* The in-flight count of a registered worker never exceeds the requests
\* being proxied for its id, and equals them while no other connection ever
\* announced the id: the clean-up of every path, panics included, counts a
\* request out exactly once.  The gauge of the metrics equals the requests that
\* were sent and have not ended, and that of an id never exceeds those for it.
InFlightAgrees ==
    LET running == {r \in Reqs : Running(r)}
    IN  /\ \A c \in Conns : IsRegistered(c) =>
             LET id == Owner[c]
                 proxied == {r \in Reqs : Counted(r) /\ Owner[via[r]] = id}
                 first == \A d \in Conns \ {c} : Owner[d] = id => link[d] = "new"
             IN  /\ inflight[id] <= Cardinality(proxied)
                 /\ first => inflight[id] = Cardinality(proxied)
        /\ jobsInflight = Cardinality(running)
        /\ \A id \in Ids :
             tally[id] <= Cardinality({r \in running : Owner[via[r]] = id})

\* A read loop that waits to hand over a part waits for a handler that still
\* reads or is about to close the channel, so that an abandoned request never
\* stops the worker's connection: RemoveJob closes the channel under the send.
\* (An end is not in the table any more when it is handed over: for it nobody
\* closes the channel, and this does not hold.)
BlockedHasReader ==
    \A c \in Conns :
        /\ held[c] /= NoFrame /\ ~held[c].end /\ chanOpen[held[c].req]
        => pc[held[c].req] \in {"count", "loop", "unjob"}

\* Remove, PruneExpired, RemoveJob and the read loop close each channel once
\* between them.  A second close panics inside Registry.mu, which Remove and
\* PruneExpired do not release on a panic.
ClosedOnce ==
    /\ \A c \in Conns : IsRegistered(c) => sendOpen[c]
    /\ \A c \in Conns : \A r \in jobs[c] : chanOpen[r]

\* Somebody is left to close the channel a handler waits on: the read loop
\* with the end in hand, or the registry, which still knows the worker.  The
\* exceptions are a worker whose id was registered again, which is never
\* removed, and a channel that was registered after its worker's table had been
\* swept: when its request got into Send before that was closed, only the
\* connection, its own timeout or its client ends it.
WaiterHasCloser ==
    \A r \in Reqs :
        pc[r] = "loop" \/ (Generation(r) /\ pc[r] = "count") =>
            LET c == via[r]
            IN  \/ ~chanOpen[r]
                \/ held[c] = [req |-> r, end |-> TRUE]
                \/ r \in jobs[c] /\ (sendOpen[c] \/ r \in late)

\* The queue holds each request once, within its capacity, and only requests
\* whose handler is still in its loop - or died of the panic of a closed Send,
\* which leaves its entry behind for good.
QueueHoldsWaiters ==
    /\ Len(queue) <= QueueCap
    /\ \A i, j \in DOMAIN queue : queue[i] = queue[j] => i = j
    /\ \A r \in Range(queue) :
          pc[r] \in {"queued", "pick", "add", "send", "count", "dead"}
=============================================================================

------------------------------ MODULE Partition ------------------------------
(***************************************************************************)
(* One request that is split over workers: HandlePartitionedJob of         *)
(* sdk/base/worker/partition.go with the embeddings of the LLM extension.  *)
(*                                                                         *)
(* The caller lists workers, cuts the input into one chunk per worker and  *)
(* starts a goroutine for each.  A chunk that fails is tried on every      *)
(* other worker of the pool; the first chunk that fails on all of them     *)
(* ends the request.  With one worker the caller sends batches one after   *)
(* the other by itself.                                                    *)
(*                                                                         *)
(* Which workers have room depends on other requests and is a choice; what *)
(* these have in flight when the request comes is a constant.  A worker    *)
(* that leaves and comes back is a new one this request does not know.     *)
(* Bodies are left out: a response covers its chunk.  A call of            *)
(* proxyHTTPOnce is the send and the end of the wait; its response may     *)
(* have been in the job channel before the worker left.                    *)
(***************************************************************************)
EXTENDS Naturals, Sequences, FiniteSets, SequencesExt

CONSTANTS
    Workers,            \* registered when the request comes
    PreferredBatchSize, \* of each worker; 0 is none
    OthersInFlight,     \* of each worker, requests of others
    MaxParallel,        \* LLM_MAX_PARALLEL_EMBEDDINGS
    MaxSize,            \* bound: elements of the input
    MaxLeaves           \* bound: workers that leave

ASSUME PartitionAssumption ==
    /\ IsFiniteSet(Workers) /\ Workers /= {}
    /\ PreferredBatchSize \in [Workers -> Nat] /\ OthersInFlight \in [Workers -> Nat]
    /\ MaxParallel \in Nat \ {0} /\ MaxSize \in Nat \ {0} /\ MaxLeaves \in Nat

Tasks == 1 .. Cardinality(Workers)
Elements == 0 .. MaxSize - 1

VARIABLES
    size,         \* of the input
    order,        \* workers, the pool
    cut,          \* tasks: cut[i] is the first element behind the i-th chunk
    main,         \* the caller: "list", "single", "collect", "over"
    answer,       \* "none", "ok", "error"
    progress,     \* of the caller: elements done, or results collected
    results,      \* resCh, while somebody reads it
    times,        \* how often each element was appended to the answer
    open,         \* workers that are there: Send is open
    gone,         \* the context of the request is cancelled
    up,           \* the process lives
    task,         \* of each chunk: where its goroutine stands, its worker, and
                  \* the workers it failed on
    used, cond,   \* the pool, and its one-slot wake-up channel
    inflight      \* of a worker, by this request

inputVars == <<size, order, cut>>
mainVars == <<main, answer, progress, results, times>>
worldVars == <<open, gone, up>>
poolVars == <<used, cond>>
vars == <<inputVars, mainVars, worldVars, task, poolVars, inflight>>

TypeOK ==
    /\ size \in 1 .. MaxSize
    /\ order \in Seq(Workers) /\ Len(order) <= MaxParallel /\ Len(order) <= size
    /\ cut \in [0 .. Len(order) -> 0 .. size]
    /\ main \in {"list", "single", "collect", "over"}
    /\ answer \in {"none", "ok", "error"}
    /\ progress \in 0 .. MaxSize
    /\ results \in Seq([chunk : Tasks, ok : BOOLEAN]) /\ Len(results) <= Len(order)
    /\ times \in [Elements -> Nat]
    /\ open \subseteq Workers /\ gone \in BOOLEAN /\ up \in BOOLEAN
    /\ task \in [Tasks ->
         [at : {"make", "wait", "free", "signal", "acquire", "asleep", "over"},
          worker : Workers, attempted : SUBSET Workers]]
    /\ used \subseteq Workers /\ cond \in BOOLEAN
    /\ inflight \in [Workers -> Nat]

\* A chunk, new or done with.
At(place, w) == [at |-> place, worker |-> w, attempted |-> {}]
Over == At("over", CHOOSE w \in Workers : TRUE)

Init ==
    /\ size \in 1 .. MaxSize
    /\ main = "list" /\ answer = "none" /\ order = <<>> /\ cut = [i \in 0 .. 0 |-> 0] /\ progress = 0
    /\ results = <<>> /\ times = [e \in Elements |-> 0]
    /\ open = Workers /\ gone = FALSE /\ up = TRUE
    /\ task = [t \in Tasks |-> Over]
    /\ used = {} /\ cond = FALSE
    /\ inflight = [w \in Workers |-> 0]

-----------------------------------------------------------------------------
Least(a, b) == IF a < b THEN a ELSE b

\* The split over the pool o.
Weight(o, i) ==
    LET n == PreferredBatchSize[o[i]] IN IF n > 0 THEN n ELSE size

\* Of the i-th worker and those behind it.
WeightFrom(o, i) ==
    LET Behind[k \in 0 .. Len(o)] ==
            IF k = 0 THEN 0 ELSE Behind[k - 1] + Weight(o, Len(o) + 1 - k)
    IN  Behind[Len(o) + 1 - i]

\* The share of the i-th worker in the elements left, and one at least.
Share(o, i, left) ==
    LET share == (left * Weight(o, i)) \div WeightFrom(o, i)
    IN  Least(left, IF share = 0 THEN 1 ELSE share)

\* Faulty variant: everybody gets a share of the whole, rounded down.
PortionOfAll(o, i, left) == (size * Weight(o, i)) \div WeightFrom(o, 1)

\* The last worker gets the rest, which may be nothing.
Portion(o, i, left) == IF i = Len(o) THEN left ELSE Share(o, i, left)

Cuts(o) ==
    LET Cut[i \in 0 .. Len(o)] ==
            IF i = 0 THEN 0 ELSE Cut[i - 1] + Portion(o, i, size - Cut[i - 1])
    IN  Cut

\* A batch of the only worker.
Batch ==
    LET n == PreferredBatchSize[order[1]]
        left == size - progress
    IN  IF n = 0 THEN left ELSE Least(n, left)

\* MakeChunk: a range of elements, which may be empty.
Chunk(t) ==
    IF main = "single" THEN progress .. progress + Batch - 1
    ELSE cut[t - 1] .. cut[t] - 1

-----------------------------------------------------------------------------
\* The caller.  When it returns, the context of the request is cancelled.
Finish(how) ==
    /\ main' = "over"
    /\ answer' = how
    /\ gone' = TRUE

\* The least busy come first, and of these the ones with large batches.
Before(v, w) ==
    \/ OthersInFlight[v] < OthersInFlight[w]
    \/ /\ OthersInFlight[v] = OthersInFlight[w]
       /\ PreferredBatchSize[v] > PreferredBatchSize[w]

Sorted(pool) ==
    {o \in SetToSeqs(pool) : \A i, j \in DOMAIN o : i < j => ~Before(o[j], o[i])}

\* WorkersForLabel, or PickWorker when it finds nobody: some of those that are
\* there, no more than may run in parallel and than there are elements.
List ==
    /\ main = "list"
    /\ \E pool \in (SUBSET open) \ {{}} :
         /\ Cardinality(pool) <= MaxParallel /\ Cardinality(pool) <= size
         /\ order' \in Sorted(pool)
         /\ cut' = Cuts(order')
         /\ used' = pool
         /\ task' = [t \in Tasks |-> IF t <= Len(order') THEN At("make", order'[t]) ELSE Over]
         /\ main' = IF Len(order') = 1 THEN "single" ELSE "collect"
    /\ UNCHANGED <<size, answer, progress, results, times, worldVars, cond, inflight>>

NoWorker ==
    /\ main = "list"
    /\ Finish("error")
    /\ UNCHANGED <<inputVars, progress, results, times, open, up, task, poolVars, inflight>>

AppendChunk(t) ==
    times' = [e \in Elements |-> IF e \in Chunk(t) THEN times[e] + 1 ELSE times[e]]

\* Advance by n towards the end, and answer there.
Advance(n, end) ==
    /\ progress' = progress + n
    /\ IF progress' = end THEN Finish("ok") ELSE UNCHANGED <<main, answer, gone>>

\* Results come in any order; the first failure is the answer.
Collect ==
    LET result == Head(results)
    IN  /\ main = "collect"
        /\ results /= <<>>
        /\ IF result.ok
           THEN /\ AppendChunk(result.chunk)
                /\ Advance(1, Len(order))
                /\ results' = Tail(results)
           ELSE Finish("error") /\ results' = <<>> /\ UNCHANGED <<progress, times>>
        /\ UNCHANGED <<inputVars, open, up, task, poolVars, inflight>>

ClientLeaves ==
    /\ ~gone
    /\ gone' = TRUE
    /\ UNCHANGED <<inputVars, mainVars, open, up, task, poolVars, inflight>>

\* Remove or PruneExpired: job channels and Send are closed.
Leave(w) ==
    /\ w \in open
    /\ Cardinality(Workers \ open) < MaxLeaves
    /\ open' = open \ {w}
    /\ UNCHANGED <<inputVars, mainVars, gone, up, task, poolVars, inflight>>

-----------------------------------------------------------------------------
\* A chunk on its way to a worker: by a goroutine, or by the caller itself.
Stands(t, place) == task[t].at = place
Goto(t, place) == task' = [task EXCEPT ![t].at = place]

\* Into resCh, which has a slot for everybody.
Report(t, ok) ==
    results' = IF main = "collect" THEN Append(results, [chunk |-> t, ok |-> ok]) ELSE results

Count(w, n) == inflight' = [inflight EXCEPT ![w] = n]

\* MakeChunk finds no element: a failure, and the worker is not released.
MakeEmpty(t) ==
    /\ Stands(t, "make")
    /\ Chunk(t) = {}
    /\ Report(t, FALSE)
    /\ task' = [task EXCEPT ![t] = Over]
    /\ UNCHANGED <<inputVars, main, answer, progress, times, worldVars, poolVars, inflight>>

\* MakeChunk, IncInFlight, AddJob, and a slot of Send for the request.
Send(t) ==
    LET w == task[t].worker
    IN  /\ Stands(t, "make")
        /\ Chunk(t) /= {}
        /\ w \in open
        /\ Count(w, inflight[w] + 1)
        /\ Goto(t, "wait")
        /\ UNCHANGED <<inputVars, mainVars, worldVars, poolVars>>

\* A send on the closed Send of a worker that left, of the request or of a
\* cancel.  The panic of a handler ends its request; that of a goroutine, which
\* nothing recovers, ends the process.
Panic(t) ==
    /\ \/ Stands(t, "make") /\ Chunk(t) /= {}
       \/ Stands(t, "wait") /\ gone
    /\ task[t].worker \notin open
    /\ task' = [task EXCEPT ![t] = Over]
    /\ IF main = "single" THEN Finish("error") /\ UNCHANGED up
                          ELSE up' = FALSE /\ UNCHANGED <<main, answer, gone>>
    /\ UNCHANGED <<inputVars, progress, results, times, open, poolVars, inflight>>

\* The call fails: Send has no slot; or the worker answers with an error, left,
\* or was not heard of for too long; or the context is done.
CallFails(t) ==
    LET w == task[t].worker
    IN  \/ Stands(t, "make") /\ Chunk(t) /= {} /\ w \in open /\ UNCHANGED inflight
        \/ Stands(t, "wait") /\ Count(w, inflight[w] - 1)

CallSucceeds(t) ==
    LET w == task[t].worker
    IN  Stands(t, "wait") /\ Count(w, inflight[w] - 1)

-----------------------------------------------------------------------------
\* The only worker: the next batch, or the end.
NextBatch(t) ==
    /\ main = "single"
    /\ CallSucceeds(t)
    /\ AppendChunk(t)
    /\ Advance(Batch, size)
    /\ task' = [task EXCEPT ![t] = IF main' = "over" THEN Over ELSE At("make", order[1])]
    /\ UNCHANGED <<inputVars, results, open, up, poolVars>>

FailBatch(t) ==
    /\ main = "single"
    /\ CallFails(t)
    /\ Finish("error")
    /\ task' = [task EXCEPT ![t] = Over]
    /\ UNCHANGED <<inputVars, progress, results, times, open, up, poolVars>>

\* A goroutine: the result is sent before the worker is released.
Succeed(t) ==
    /\ main /= "single"
    /\ CallSucceeds(t)
    /\ Report(t, TRUE)
    /\ Goto(t, "free")
    /\ UNCHANGED <<inputVars, main, answer, progress, times, worldVars, poolVars>>

Fail(t) ==
    /\ main /= "single"
    /\ CallFails(t)
    /\ task' = [task EXCEPT ![t].at = "free", ![t].attempted = @ \cup {task[t].worker}]
    /\ UNCHANGED <<inputVars, mainVars, worldVars, poolVars>>

\* release: the worker is put back, then one of those that sleep is woken,
\* unless a wake-up is there already.
Free(t) ==
    /\ Stands(t, "free")
    /\ used' = used \ {task[t].worker}
    /\ Goto(t, "signal")
    /\ UNCHANGED <<inputVars, mainVars, worldVars, cond, inflight>>

Failed(t) == task[t].worker \in task[t].attempted
Exhausted(t) == Cardinality(task[t].attempted) >= Len(order)

\* Where a goroutine goes behind release.
AfterRelease(t) ==
    IF Failed(t) /\ ~Exhausted(t) THEN Goto(t, "acquire") /\ UNCHANGED results
    ELSE /\ task' = [task EXCEPT ![t] = Over]
         /\ IF Failed(t) THEN Report(t, FALSE) ELSE UNCHANGED results

\* Faulty variant: a worker that a chunk failed on is put back quietly.
SignalSuccess(t) ==
    /\ Stands(t, "signal")
    /\ cond' = (cond \/ ~Failed(t))
    /\ AfterRelease(t)
    /\ UNCHANGED <<inputVars, main, answer, progress, times, worldVars, used, inflight>>

\* Faulty variant: a chunk that failed everywhere has no result.
SignalOnly(t) ==
    /\ Stands(t, "signal")
    /\ cond' = TRUE
    /\ task' = [task EXCEPT ![t] =
         IF Failed(t) /\ ~Exhausted(t) THEN [@ EXCEPT !.at = "acquire"] ELSE Over]
    /\ UNCHANGED <<inputVars, mainVars, worldVars, used, inflight>>

Signal(t) ==
    /\ Stands(t, "signal")
    /\ cond' = TRUE
    /\ AfterRelease(t)
    /\ UNCHANGED <<inputVars, main, answer, progress, times, worldVars, used, inflight>>

\* Workers the chunk has not failed on and nobody uses.
Available(t) == Range(order) \ (used \cup task[t].attempted)

\* Faulty variant: any worker the chunk has not failed on.
AcquireUsed(t) ==
    /\ Stands(t, "acquire")
    /\ \E w \in Range(order) \ task[t].attempted :
         /\ used' = used \cup {w}
         /\ task' = [task EXCEPT ![t].at = "make", ![t].worker = w]
    /\ UNCHANGED <<inputVars, mainVars, worldVars, cond, inflight>>

\* acquire: the first such worker.
Acquire(t) ==
    /\ Stands(t, "acquire")
    /\ \E i \in DOMAIN order :
         /\ order[i] \in Available(t)
         /\ \A j \in 1 .. i - 1 : order[j] \notin Available(t)
         /\ used' = used \cup {order[i]}
         /\ task' = [task EXCEPT ![t].at = "make", ![t].worker = order[i]]
    /\ UNCHANGED <<inputVars, mainVars, worldVars, cond, inflight>>

Sleep(t) ==
    /\ Stands(t, "acquire")
    /\ Available(t) = {}
    /\ Goto(t, "asleep")
    /\ UNCHANGED <<inputVars, mainVars, worldVars, poolVars, inflight>>

\* One of those that sleep takes the wake-up, whoever it could be for.
Wake(t) ==
    /\ Stands(t, "asleep")
    /\ cond
    /\ cond' = FALSE
    /\ Goto(t, "acquire")
    /\ UNCHANGED <<inputVars, mainVars, worldVars, used, inflight>>

-----------------------------------------------------------------------------
Caller == List \/ NoWorker \/ Collect

Goroutine(t) ==
    \/ MakeEmpty(t) \/ Send(t) \/ Panic(t) \/ NextBatch(t) \/ FailBatch(t)
    \/ Succeed(t) \/ Fail(t) \/ Free(t) \/ Signal(t)
    \/ Acquire(t) \/ Sleep(t) \/ Wake(t)

Next ==
    /\ up
    /\ \/ Caller \/ ClientLeaves
       \/ \E w \in Workers : Leave(w)
       \/ \E t \in Tasks : Goroutine(t)

Spec == Init /\ [][Next]_vars

\* The process goes on while one of its goroutines can; a call ends, for a
\* worker that is there answers and one that is not is timed out.
Fairness == WF_vars(up /\ (Caller \/ \E t \in Tasks : Goroutine(t)))

FairSpec == Spec /\ Fairness

-----------------------------------------------------------------------------
\* The pool gives each worker one chunk of a request at a time, whatever
\* failures, releases and wake-ups cross, and what the request has in flight on
\* a worker is counted.
OneChunkPerWorker ==
    \A w \in open :
        LET sent == {t \in Tasks : Stands(t, "wait") /\ task[t].worker = w}
        IN  inflight[w] = Cardinality(sent) /\ inflight[w] <= 1

\* A successful answer has each element of the input once, however it was cut
\* and whoever answered in the end.
AnswerIsWhole ==
    answer = "ok" => \A e \in Elements : times[e] = IF e < size THEN 1 ELSE 0

HasEmptyChunk == Len(order) > 1 /\ \E t \in 1 .. Len(order) : Chunk(t) = {}

\* Every goroutine ends, also long after the first failure was answered: a
\* wake-up that is taken by one it is not for, or melts with another, leaves
\* nobody asleep for ever.  The exceptions are a process that died and a pool
\* that lost a worker to an empty chunk.
PartitionEnds ==
    <>(~up \/ HasEmptyChunk \/ \A t \in Tasks : Stands(t, "over") /\ main /= "list")

\* The client is answered.
ClientIsAnswered == <>(main = "over" \/ ~up)

\* "Workers can connect and disconnect at any time": the server lives on.
ServerSurvives == up
=============================================================================

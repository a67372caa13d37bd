---------------------------- MODULE ServerDrain ----------------------------
(***************************************************************************)
(* How the server nfrx shuts down: the signal loop of server/cmd/nfrx, the *)
(* counter of drainable requests (sdk/base/inflight), the stored state     *)
(* (server/internal/serverstate), and those that read or change it: the    *)
(* middleware in front of the public APIs, the WebSocket handlers of the   *)
(* workers (sdk/base/worker/ws.go) and the pruning loops of the plugins.   *)
(*                                                                         *)
(* The state is a pair that SetState and StartDrain load, change and store *)
(* without a lock, so each of them is two steps.  It is kept in memory, or *)
(* in Redis, where it outlives the process and where every load and every  *)
(* store may fail: a failed load reads as a state that does not drain, a   *)
(* failed store is ignored.                                                *)
(*                                                                         *)
(* When the context of main is cancelled, ListenAndServe returns and the   *)
(* process ends at some moment; it does not wait for Shutdown.             *)
(***************************************************************************)
EXTENDS Naturals, FiniteSets

CONSTANTS
    Requests,     \* requests of the public APIs
    Workers,
    Pools,        \* the plugins' worker registries
    PoolOf,       \* of a worker: the registry it registers with
    Settings,     \* configurations to consider: the store ("memory", "redis")
                  \* and DrainTimeout ("zero", "some", "never")
    MaxSignals,   \* bound: signals sent to the first process, of which each
                  \* process started after it gets one less
    MaxRestarts   \* bound, for each store: times the process is started again

ASSUME ServerDrainAssumption ==
    /\ PoolOf \in [Workers -> Pools]
    /\ Workers \cap Pools = {}
    /\ Settings \subseteq [store : {"memory", "redis"},
                           timeout : {"zero", "some", "never"}]
    /\ MaxSignals \in Nat
    /\ MaxRestarts \in [{"memory", "redis"} -> Nat]

VARIABLES
    status, flag,  \* State.Status and State.Draining in the store
    setting,       \* the configuration
    req,           \* of a request: where it is
    count,         \* Counter.count
    zeroCh,        \* Counter.zeroCh, by number
    zeroed,        \* the numbers of the channels that are closed
    writer,        \* of a worker's handler or a pruning loop: where it is
    seen,          \* of the same: the Draining it loaded
    workers,       \* the workers in the registries
    sigCh,         \* a signal is in sigCh, which has room for one
    sent, taken,   \* signals sent to, and taken by, this process
    loop,          \* the signal loop
    waiter,        \* of the drain of the n-th signal: its goroutine
    waitsFor,      \* of the same: the channel it waits for
    counted,       \* of the same, for the properties: the requests that were
                   \* counted when it took the channel
    process,       \* "running", "cancelled", "exited"
    cause, by,     \* why it was cancelled, and the waiter that did
    restarts

storeVars == <<status, flag>>
countVars == <<count, zeroCh, zeroed>>
writerVars == <<writer, seen, workers>>
signalVars == <<sigCh, sent, taken, loop>>
waiterVars == <<waiter, waitsFor, counted>>
exitVars == <<process, cause, by>>
vars == <<storeVars, setting, req, countVars, writerVars, signalVars,
          waiterVars, exitVars, restarts>>

Writers == Workers \cup Pools
Drains == 1 .. MaxSignals

TypeOK ==
    /\ status \in {"not_ready", "ready", "draining"} /\ flag \in BOOLEAN
    /\ setting \in Settings
    /\ req \in [Requests -> {"new", "passed", "running", "done", "refused", "cut"}]
    /\ count \in Nat /\ zeroCh \in Nat /\ zeroed \subseteq Nat
    /\ writer \in [Writers -> {"idle", "admitted", "added", "readying", "readied",
                               "serving", "removed", "emptying", "emptied"}]
    /\ seen \in [Writers -> BOOLEAN]
    /\ workers \subseteq Workers
    /\ sigCh \in BOOLEAN
    /\ sent \in 0 .. MaxSignals /\ taken \in 0 .. sent
    /\ loop \in {"idle", "starting", "storing", "gone"}
    /\ waiter \in [Drains -> {"none", "starting", "waiting", "over"}]
    /\ waitsFor \in [Drains -> Nat]
    /\ counted \in [Drains -> SUBSET Requests]
    /\ process \in {"running", "cancelled", "exited"}
    /\ cause \in {"none", "complete", "timeout", "terminated"}
    /\ by \in 0 .. MaxSignals
    /\ restarts \in Nat

\* A process that starts.  The channel is made when first asked for, closed
\* because nothing runs: channel 0.
Init ==
    /\ status = "not_ready" /\ flag = FALSE
    /\ setting \in Settings
    /\ req = [r \in Requests |-> "new"]
    /\ count = 0 /\ zeroCh = 0 /\ zeroed = {0}
    /\ writer = [w \in Writers |-> "idle"]
    /\ seen = [w \in Writers |-> FALSE]
    /\ workers = {}
    /\ sigCh = FALSE /\ sent = 0 /\ taken = 0 /\ loop = "idle"
    /\ waiter = [n \in Drains |-> "none"]
    /\ waitsFor = [n \in Drains |-> 0]
    /\ counted = [n \in Drains |-> {}]
    /\ process = "running" /\ cause = "none" /\ by = 0
    /\ restarts = 0

\* What is still done between the cancel and the end has no effect on what
\* follows: a request that ends then is one that the end cuts off.
Alive == process = "running"

Redis == setting.store = "redis"
DrainTimeout == setting.timeout

\* Faulty variant: the status tells.
LoadsStatus == {status # "ready"}

\* What a load may find of the flag: a failed one reads as not draining.
Loads == IF Redis THEN {flag, FALSE} ELSE {flag}

\* A store, which Redis may fail.
Stores(newStatus, newFlag) ==
    \/ status' = newStatus /\ flag' = newFlag
    \/ Redis /\ UNCHANGED storeVars

-----------------------------------------------------------------------------
\* A request: the drain middleware, then the counting middleware.  (The MCP
\* plugin counts first and asks then: its requests do not wait in between.)
GotoReq(r, from, to) ==
    Alive /\ req[r] = from /\ req' = [req EXCEPT ![r] = to]

Ask(r) ==
    /\ Alive
    /\ \E draining \in Loads :
          GotoReq(r, "new", IF draining THEN "refused" ELSE "passed")
    /\ UNCHANGED <<storeVars, setting, countVars, writerVars, signalVars,
                   waiterVars, exitVars, restarts>>

\* Faulty variant: the channel is only made when there is none.
IncKeepsChannel(r) ==
    /\ GotoReq(r, "passed", "running")
    /\ count' = count + 1
    /\ UNCHANGED <<storeVars, setting, zeroCh, zeroed, writerVars, signalVars,
                   waiterVars, exitVars, restarts>>

Inc(r) ==
    /\ GotoReq(r, "passed", "running")
    /\ count' = count + 1
    /\ zeroCh' = IF count = 0 THEN zeroCh + 1 ELSE zeroCh
    /\ UNCHANGED <<storeVars, setting, zeroed, writerVars, signalVars,
                   waiterVars, exitVars, restarts>>

Dec(r) ==
    /\ GotoReq(r, "running", "done")
    /\ count' = count - 1
    /\ zeroed' = IF count = 1 THEN zeroed \cup {zeroCh} ELSE zeroed
    /\ UNCHANGED <<storeVars, setting, zeroCh, writerVars, signalVars,
                   waiterVars, exitVars, restarts>>

-----------------------------------------------------------------------------
\* SetState, by the handler of a worker or by a pruning loop.
GotoWriter(w, from, to) ==
    Alive /\ writer[w] = from /\ writer' = [writer EXCEPT ![w] = to]

InPool(p) == {w \in workers : PoolOf[w] = p}
PoolFor(w) == IF w \in Pools THEN w ELSE PoolOf[w]

Load(w) ==
    /\ \/ GotoWriter(w, "readying", "readied")
       \/ GotoWriter(w, "emptying", "emptied")
    /\ \E draining \in Loads : seen' = [seen EXCEPT ![w] = draining]
    /\ UNCHANGED <<storeVars, setting, req, countVars, workers, signalVars,
                   waiterVars, exitVars, restarts>>

Store(w) ==
    /\ \/ GotoWriter(w, "readied", "serving") /\ Stores("ready", seen[w])
       \/ GotoWriter(w, "emptied", "idle") /\ Stores("not_ready", seen[w])
    /\ seen' = [seen EXCEPT ![w] = FALSE]
    /\ UNCHANGED <<setting, req, countVars, workers, signalVars, waiterVars,
                   exitVars, restarts>>

Connect(w) ==
    /\ FALSE \in Loads
    /\ GotoWriter(w, "idle", "admitted")
    /\ UNCHANGED <<storeVars, setting, req, countVars, seen, workers,
                   signalVars, waiterVars, exitVars, restarts>>

Add(w) ==
    /\ GotoWriter(w, "admitted", "added")
    /\ workers' = workers \cup {w}
    /\ UNCHANGED <<storeVars, setting, req, countVars, seen, signalVars,
                   waiterVars, exitVars, restarts>>

FirstOfPool(w) ==
    /\ GotoWriter(w, "added", IF Cardinality(InPool(PoolOf[w])) = 1
                              THEN "readying" ELSE "serving")
    /\ UNCHANGED <<storeVars, setting, req, countVars, seen, workers,
                   signalVars, waiterVars, exitVars, restarts>>

Remove(w) ==
    /\ GotoWriter(w, "serving", "removed")
    /\ workers' = workers \ {w}
    /\ UNCHANGED <<storeVars, setting, req, countVars, seen, signalVars,
                   waiterVars, exitVars, restarts>>

\* A tick of a plugin: PruneExpired.
Prune(p) ==
    /\ GotoWriter(p, "idle", "removed")
    /\ \E expired \in SUBSET InPool(p) : workers' = workers \ expired
    /\ UNCHANGED <<storeVars, setting, req, countVars, seen, signalVars,
                   waiterVars, exitVars, restarts>>

LastOfPool(w) ==
    /\ \E draining \in Loads :
          GotoWriter(w, "removed", IF ~draining /\ InPool(PoolFor(w)) = {}
                                   THEN "emptying" ELSE "idle")
    /\ UNCHANGED <<storeVars, setting, req, countVars, seen, workers,
                   signalVars, waiterVars, exitVars, restarts>>

HandleWorker(w) == Connect(w) \/ Add(w) \/ FirstOfPool(w) \/ Remove(w)
SetStatus(w) == LastOfPool(w) \/ Load(w) \/ Store(w)

-----------------------------------------------------------------------------
\* The signal loop of main.
Signal ==
    /\ Alive
    /\ sent + restarts < MaxSignals
    /\ sent' = sent + 1
    /\ sigCh' = TRUE
    /\ UNCHANGED <<storeVars, setting, req, countVars, writerVars, taken,
                   loop, waiterVars, exitVars, restarts>>

Cancel(why, n) == process' = "cancelled" /\ cause' = why /\ by' = n

TakeSignal ==
    /\ Alive
    /\ loop = "idle" /\ sigCh
    /\ sigCh' = FALSE
    /\ taken' = taken + 1
    /\ \E draining \in Loads :
          IF draining \/ DrainTimeout = "zero"
          THEN Cancel("terminated", 0) /\ loop' = "gone"
          ELSE UNCHANGED exitVars /\ loop' = "starting"
    /\ UNCHANGED <<storeVars, setting, req, countVars, writerVars, sent,
                   waiterVars, restarts>>

\* StartDrain loads, and stores; what it loads it overwrites.
LoadDrain ==
    /\ Alive
    /\ loop = "starting" /\ loop' = "storing"
    /\ UNCHANGED <<storeVars, setting, req, countVars, writerVars, sigCh,
                   sent, taken, waiterVars, exitVars, restarts>>

StartDrain ==
    /\ Alive
    /\ loop = "storing" /\ loop' = "idle"
    /\ Stores("draining", TRUE)
    /\ waiter' = [waiter EXCEPT ![taken] = "starting"]
    /\ UNCHANGED <<setting, req, countVars, writerVars, sigCh, sent, taken,
                   waitsFor, counted, exitVars, restarts>>

-----------------------------------------------------------------------------
\* The goroutine that waits for the counter.
GotoWaiter(n, from, to) ==
    Alive /\ waiter[n] = from /\ waiter' = [waiter EXCEPT ![n] = to]

\* zeroChannel.
TakeChannel(n) ==
    /\ GotoWaiter(n, "starting", "waiting")
    /\ waitsFor' = [waitsFor EXCEPT ![n] = zeroCh]
    /\ counted' = [counted EXCEPT ![n] = {r \in Requests : req[r] = "running"}]
    /\ UNCHANGED <<storeVars, setting, req, countVars, writerVars, signalVars,
                   exitVars, restarts>>

DrainComplete(n) ==
    /\ waitsFor[n] \in zeroed
    /\ GotoWaiter(n, "waiting", "over")
    /\ Cancel("complete", n)
    /\ UNCHANGED <<storeVars, setting, req, countVars, writerVars, signalVars,
                   waitsFor, counted, restarts>>

\* Faulty variant: only a drain that completes ends the server.
DrainExpires(n) ==
    /\ DrainTimeout = "some"
    /\ GotoWaiter(n, "waiting", "over")
    /\ UNCHANGED <<storeVars, setting, req, countVars, writerVars, signalVars,
                   waitsFor, counted, exitVars, restarts>>

DrainTimesOut(n) ==
    /\ DrainTimeout = "some"
    /\ GotoWaiter(n, "waiting", "over")
    /\ Cancel("timeout", n)
    /\ UNCHANGED <<storeVars, setting, req, countVars, writerVars, signalVars,
                   waitsFor, counted, restarts>>

WaitForZero(n) == TakeChannel(n) \/ DrainComplete(n) \/ DrainTimesOut(n)

-----------------------------------------------------------------------------
\* What the next process finds in its store: NewRedisStore sets a state only
\* where there is none, NewMemoryStore makes one.
Kept ==
    IF Redis THEN UNCHANGED storeVars
    ELSE status' = "not_ready" /\ flag' = FALSE

\* ListenAndServe returns, and main with it: what is in memory is gone.
Exit ==
    /\ process = "cancelled"
    /\ req' = [r \in Requests |->
                  IF req[r] \in {"passed", "running"} THEN "cut" ELSE req[r]]
    /\ Kept
    /\ count' = 0 /\ zeroCh' = 0 /\ zeroed' = {0}
    /\ writer' = [w \in Writers |-> "idle"]
    /\ seen' = [w \in Writers |-> FALSE]
    /\ workers' = {}
    /\ sigCh' = FALSE /\ sent' = 0 /\ taken' = 0 /\ loop' = "idle"
    /\ waiter' = [n \in Drains |-> "none"]
    /\ waitsFor' = [n \in Drains |-> 0]
    /\ counted' = [n \in Drains |-> {}]
    /\ process' = "exited" /\ cause' = "none" /\ by' = 0
    /\ UNCHANGED <<setting, restarts>>

Restart ==
    /\ process = "exited"
    /\ restarts < MaxRestarts[setting.store]
    /\ restarts' = restarts + 1
    /\ process' = "running"
    /\ UNCHANGED <<storeVars, setting, req, countVars, writerVars, signalVars,
                   waiterVars, cause, by>>

Next ==
    \/ \E r \in Requests : Ask(r) \/ Inc(r) \/ Dec(r)
    \/ \E w \in Workers : HandleWorker(w)
    \/ \E p \in Pools : Prune(p)
    \/ \E w \in Writers : SetStatus(w)
    \/ Signal \/ TakeSignal \/ LoadDrain \/ StartDrain
    \/ \E n \in Drains : WaitForZero(n)
    \/ Exit \/ Restart

\* The goroutines of the process run and the drain timeout expires; nothing
\* makes requests end, workers come or go, or signals arrive.
Fairness ==
    /\ WF_vars(TakeSignal) /\ WF_vars(LoadDrain) /\ WF_vars(StartDrain)
    /\ \A n \in Drains : WF_vars(WaitForZero(n))
    /\ WF_vars(Exit)

Spec == Init /\ [][Next]_vars /\ Fairness

-----------------------------------------------------------------------------
\* A drain that completes has let every request finish that was counted when
\* its goroutine took the counter's channel: requests that come later make a
\* channel of their own (Inc, WaitForZero).
CountedRequestsFinish ==
    cause = "complete" => \A r \in counted[by] : req[r] = "done"

\* A signal ends the server at once only if it is not the first that this
\* process takes, or the drain timeout is zero (main.go, the signal loop) - or
\* the state is in Redis and an earlier process left it draining.
FirstSignalDrains ==
    cause = "terminated" =>
        DrainTimeout = "zero" \/ taken > 1 \/ (Redis /\ restarts > 0)

\* Unless it is told to wait for ever, a server that was sent a signal ends,
\* though the drain may be undone by a status change that overtakes it, or
\* never reach Redis.
SignalEndsServer ==
    (sigCh /\ DrainTimeout # "never") ~> process = "exited"
=============================================================================

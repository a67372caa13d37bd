------------------------- MODULE ServerDrainProofs -------------------------
(***************************************************************************)
(* Theorems about ServerDrain, for any numbers of requests, workers, pools,*)
(* signals and restarts, and for every configuration: a drain that is said *)
(* to be complete left no counted request behind, and the first signal of  *)
(* a process drains it.                                                    *)
(***************************************************************************)
EXTENDS ServerDrain, FiniteSetTheorems, TLAPS

Stages == {"new", "passed", "running", "done", "refused", "cut"}
Stations == {"idle", "admitted", "added", "readying", "readied", "serving",
             "removed", "emptying", "emptied"}

\* The store: what a load finds and what a store leaves is a state.
LEMMA StoreTypes ==
    ASSUME TypeOK
    PROVE  /\ Loads \subseteq BOOLEAN
           /\ \A s \in {"not_ready", "ready", "draining"}, f \in BOOLEAN :
                Stores(s, f) =>
                  status' \in {"not_ready", "ready", "draining"} /\ flag' \in BOOLEAN
  BY DEF TypeOK, Loads, Stores, storeVars

\* The counter counts the requests that run, and its channel is closed exactly
\* when there is none.  That few run at a time is a part of it.
Running == {r \in Requests : req[r] = "running"}

CounterInv ==
    /\ IsFiniteSet(Running) /\ count = Cardinality(Running)
    /\ zeroCh \in zeroed <=> count = 0
    /\ zeroed \subseteq 0 .. zeroCh

\* A signal in the channel was sent and not yet taken, a drain that starts took
\* one, and only a process that is about to end has a cause to.
SignalInv ==
    /\ sigCh => taken < sent
    /\ loop \in {"starting", "storing"} => taken > 0
    /\ process \in {"running", "exited"} => cause = "none"

Steady == TypeOK /\ CounterInv /\ SignalInv

\* The steps of requests keep the types.
LEMMA RequestType ==
    ASSUME Steady, NEW r \in Requests, Ask(r) \/ Inc(r) \/ Dec(r)
    PROVE  TypeOK'
<1> USE DEF Steady
<1>1. req' \in [Requests -> Stages]
  <2>1. req \in [Requests -> Stages]
    BY DEF TypeOK, Stages
  <2>2. \E stage \in Stages : req' = [req EXCEPT ![r] = stage]
    BY DEF Ask, Inc, Dec, GotoReq, Stages
  <2> QED BY <2>1, <2>2
<1>2. count' \in Nat /\ zeroCh' \in Nat /\ zeroed' \subseteq Nat
  <2>1. CASE Ask(r)
    BY <2>1 DEF Ask, countVars, TypeOK
  <2>2. CASE Inc(r)
    BY <2>2 DEF Inc, TypeOK
  <2>3. CASE Dec(r)
    <3>1. r \in Running
      BY <2>3 DEF Dec, GotoReq, Running
    <3>2. count # 0 /\ count \in Nat
      BY <3>1, FS_EmptySet DEF TypeOK, CounterInv
    <3>3. count' = count - 1 /\ zeroCh' = zeroCh /\ zeroed' \subseteq zeroed \cup {zeroCh}
      BY <2>3 DEF Dec
    <3>4. zeroCh \in Nat /\ zeroed \subseteq Nat
      BY DEF TypeOK
    <3> QED BY <3>2, <3>3, <3>4
  <2> QED BY <2>1, <2>2, <2>3
<1>3. UNCHANGED <<storeVars, setting, writerVars, signalVars, waiterVars, exitVars,
                  restarts>>
  BY DEF Ask, Inc, Dec
<1> QED BY <1>1, <1>2, <1>3 DEF TypeOK, Stages, storeVars, writerVars, signalVars,
        waiterVars, exitVars

\* So do the steps of workers and pruning loops.
LEMMA WriterType ==
    ASSUME TypeOK, NEW w \in Writers,
           \/ w \in Workers /\ HandleWorker(w)
           \/ w \in Pools /\ Prune(w)
           \/ SetStatus(w)
    PROVE  TypeOK'
<1>1. writer' \in [Writers -> Stations]
  <2>1. writer \in [Writers -> Stations]
    BY DEF TypeOK, Stations
  <2>2. \E station \in Stations : writer' = [writer EXCEPT ![w] = station]
    BY DEF HandleWorker, Connect, Add, FirstOfPool, Remove, Prune, SetStatus,
       LastOfPool, Load, Store, GotoWriter, Stations
  <2> QED BY <2>1, <2>2
<1>2. seen' \in [Writers -> BOOLEAN]
  <2>1. seen \in [Writers -> BOOLEAN]
    BY DEF TypeOK
  <2>2. \/ seen' = seen
        \/ \E b \in BOOLEAN : seen' = [seen EXCEPT ![w] = b]
    BY StoreTypes DEF HandleWorker, Connect, Add, FirstOfPool, Remove, Prune,
       SetStatus, LastOfPool, Load, Store
  <2> QED BY <2>1, <2>2
<1>3. workers' \subseteq Workers
  BY DEF TypeOK, HandleWorker, Connect, Add, FirstOfPool, Remove, Prune, SetStatus,
     LastOfPool, Load, Store
<1>4. status' \in {"not_ready", "ready", "draining"} /\ flag' \in BOOLEAN
  <2>1. \/ UNCHANGED storeVars
        \/ Stores("ready", seen[w]) \/ Stores("not_ready", seen[w])
    BY DEF HandleWorker, Connect, Add, FirstOfPool, Remove, Prune, SetStatus,
       LastOfPool, Load, Store
  <2>2. seen[w] \in BOOLEAN
    BY DEF TypeOK
  <2> QED BY <2>1, <2>2, StoreTypes DEF TypeOK, storeVars
<1>5. UNCHANGED <<setting, req, countVars, signalVars, waiterVars, exitVars, restarts>>
  BY DEF HandleWorker, Connect, Add, FirstOfPool, Remove, Prune, SetStatus,
     LastOfPool, Load, Store
<1> QED BY <1>1, <1>2, <1>3, <1>4, <1>5 DEF TypeOK, Stations, countVars, signalVars,
        waiterVars, exitVars

\* And those of the signal loop, of the goroutines that wait, and of the process.
LEMMA SignalType ==
    ASSUME Steady,
           \/ Signal \/ TakeSignal \/ LoadDrain \/ StartDrain
           \/ \E n \in Drains : WaitForZero(n)
           \/ Exit \/ Restart
    PROVE  TypeOK'
<1> USE DEF Steady
<1>0. MaxSignals \in Nat /\ taken \in 0 .. sent /\ sent \in 0 .. MaxSignals
  BY ServerDrainAssumption DEF TypeOK
<1>1. CASE Signal
  <2>1. sent' \in 0 .. MaxSignals /\ taken' \in 0 .. sent'
    <3>1. sent + restarts < MaxSignals /\ restarts \in Nat /\ sent' = sent + 1
          /\ taken' = taken
      BY <1>1 DEF Signal, TypeOK
    <3> QED BY <1>0, <3>1
  <2> QED BY <1>1, <2>1 DEF Signal, TypeOK, storeVars, countVars, writerVars,
          waiterVars, exitVars
<1>2. CASE TakeSignal
  <2>1. taken' \in 0 .. sent' /\ sent' = sent
    <3>1. taken < sent /\ taken' = taken + 1 /\ sent' = sent
      BY <1>2 DEF TakeSignal, SignalInv
    <3> QED BY <1>0, <3>1
  <2>2. /\ process' \in {"running", "cancelled", "exited"}
        /\ cause' \in {"none", "complete", "timeout", "terminated"}
        /\ by' \in 0 .. MaxSignals
        /\ loop' \in {"idle", "starting", "storing", "gone"}
    BY <1>0, <1>2 DEF TakeSignal, Cancel, exitVars, TypeOK
  <2> QED BY <1>2, <2>1, <2>2 DEF TakeSignal, TypeOK, storeVars, countVars,
          writerVars, waiterVars
<1>3. CASE LoadDrain
  BY <1>3 DEF LoadDrain, TypeOK, storeVars, countVars, writerVars, waiterVars, exitVars
<1>4. CASE StartDrain
  <2>1. status' \in {"not_ready", "ready", "draining"} /\ flag' \in BOOLEAN
    BY <1>4, StoreTypes DEF StartDrain
  <2>2. waiter' \in [Drains -> {"none", "starting", "waiting", "over"}]
    BY <1>4 DEF StartDrain, TypeOK
  <2> QED BY <1>4, <2>1, <2>2 DEF StartDrain, TypeOK, countVars, writerVars, exitVars
<1>5. ASSUME NEW n \in Drains, TakeChannel(n) PROVE TypeOK'
  <2>1. waiter' \in [Drains -> {"none", "starting", "waiting", "over"}]
    BY <1>5 DEF TakeChannel, GotoWaiter, TypeOK
  <2>2. waitsFor' \in [Drains -> Nat] /\ counted' \in [Drains -> SUBSET Requests]
    BY <1>5 DEF TakeChannel, TypeOK
  <2> QED BY <1>5, <2>1, <2>2 DEF TakeChannel, TypeOK, storeVars, countVars,
          writerVars, signalVars, exitVars
<1>6. ASSUME NEW n \in Drains, DrainComplete(n) \/ DrainTimesOut(n) PROVE TypeOK'
  <2>1. waiter' \in [Drains -> {"none", "starting", "waiting", "over"}]
    BY <1>6 DEF DrainComplete, DrainTimesOut, GotoWaiter, TypeOK
  <2>2. /\ process' \in {"running", "cancelled", "exited"}
        /\ cause' \in {"none", "complete", "timeout", "terminated"}
        /\ by' \in 0 .. MaxSignals
    BY <1>0, <1>6 DEF DrainComplete, DrainTimesOut, Cancel, Drains
  <2> QED BY <1>6, <2>1, <2>2 DEF DrainComplete, DrainTimesOut, TypeOK, storeVars,
          countVars, writerVars, signalVars
<1>7. CASE Exit
  <2>1. status' \in {"not_ready", "ready", "draining"} /\ flag' \in BOOLEAN
    BY <1>7 DEF Exit, Kept, TypeOK, storeVars
  <2>2. req' \in [Requests -> Stages]
    BY <1>7 DEF Exit, TypeOK, Stages
  <2>3. /\ waiter' \in [Drains -> {"none", "starting", "waiting", "over"}]
        /\ waitsFor' \in [Drains -> Nat] /\ counted' \in [Drains -> SUBSET Requests]
        /\ writer' \in [Writers -> Stations] /\ seen' \in [Writers -> BOOLEAN]
    BY <1>7 DEF Exit, Stations
  <2>4. count' \in Nat /\ zeroCh' \in Nat /\ zeroed' \subseteq Nat
    BY <1>7 DEF Exit
  <2>5. sent' \in 0 .. MaxSignals /\ taken' \in 0 .. sent' /\ by' \in 0 .. MaxSignals
    BY <1>0, <1>7 DEF Exit
  <2> QED BY <1>7, <2>1, <2>2, <2>3, <2>4, <2>5 DEF Exit, TypeOK, Stages, Stations
<1>8. CASE Restart
  BY <1>8 DEF Restart, TypeOK, storeVars, countVars, writerVars, signalVars, waiterVars
<1> QED BY <1>1, <1>2, <1>3, <1>4, <1>5, <1>6, <1>7, <1>8 DEF WaitForZero

-----------------------------------------------------------------------------
\* What a step can do to the requests and their counter.
LEMMA CounterStep == Steady /\ [Next]_vars => CounterInv'
<1> SUFFICES ASSUME Steady, [Next]_vars PROVE CounterInv'
  OBVIOUS
<1>0. /\ req \in [Requests -> Stages] /\ count \in Nat /\ zeroCh \in Nat
      /\ zeroed \subseteq 0 .. zeroCh /\ IsFiniteSet(Running)
      /\ count = Cardinality(Running) /\ (zeroCh \in zeroed <=> count = 0)
  BY DEF Steady, TypeOK, Stages, CounterInv
<1>1. ASSUME UNCHANGED countVars, Running' = Running PROVE CounterInv'
  BY <1>0, <1>1 DEF countVars, CounterInv
<1>2. ASSUME NEW r \in Requests, Ask(r) PROVE CounterInv'
  <2>1. Running' = Running
    BY <1>0, <1>2 DEF Ask, GotoReq, Running
  <2> QED BY <1>1, <1>2, <2>1 DEF Ask
<1>3. ASSUME NEW r \in Requests, Inc(r) PROVE CounterInv'
  <2>1. Running' = Running \cup {r} /\ r \notin Running
    BY <1>0, <1>3 DEF Inc, GotoReq, Running
  <2>2. IsFiniteSet(Running') /\ count' = Cardinality(Running')
    BY <1>0, <1>3, <2>1, FS_AddElement DEF Inc
  <2>3. count' = count + 1 /\ zeroed' = zeroed
        /\ zeroCh' = IF count = 0 THEN zeroCh + 1 ELSE zeroCh
    BY <1>3 DEF Inc
  <2>4. zeroCh' \notin zeroed' /\ zeroed' \subseteq 0 .. zeroCh' /\ count' # 0
    BY <1>0, <2>3
  <2> QED BY <2>2, <2>4 DEF CounterInv
<1>4. ASSUME NEW r \in Requests, Dec(r) PROVE CounterInv'
  <2>1. Running' = Running \ {r} /\ r \in Running
    BY <1>0, <1>4 DEF Dec, GotoReq, Running
  <2>2. IsFiniteSet(Running') /\ count' = Cardinality(Running')
    BY <1>0, <1>4, <2>1, FS_RemoveElement DEF Dec
  <2>3. count' = count - 1 /\ zeroCh' = zeroCh
        /\ zeroed' = IF count = 1 THEN zeroed \cup {zeroCh} ELSE zeroed
    BY <1>4 DEF Dec
  <2>4. count # 0
    BY <1>0, <2>1, FS_EmptySet
  <2>5. (zeroCh' \in zeroed' <=> count' = 0) /\ zeroed' \subseteq 0 .. zeroCh'
    BY <1>0, <2>3, <2>4
  <2> QED BY <2>2, <2>5 DEF CounterInv
<1>5. CASE Exit
  <2>1. Running' = {}
    BY <1>0, <1>5 DEF Exit, Running
  <2>2. IsFiniteSet(Running') /\ Cardinality(Running') = 0
    BY <2>1, FS_EmptySet
  <2> QED BY <1>5, <2>2 DEF Exit, CounterInv
<1>6. CASE UNCHANGED <<req, countVars>>
  BY <1>1, <1>6 DEF Running
<1> QED BY <1>2, <1>3, <1>4, <1>5, <1>6 DEF Next, vars, HandleWorker, Connect, Add,
        FirstOfPool, Remove, Prune, SetStatus, LastOfPool, Load, Store, Signal,
        TakeSignal, LoadDrain, StartDrain, WaitForZero, TakeChannel, DrainComplete,
        DrainTimesOut, Restart

\* The signal loop, the goroutines that wait and the process.
LEMMA SignalStep == Steady /\ [Next]_vars => SignalInv'
<1> SUFFICES ASSUME Steady, [Next]_vars PROVE SignalInv'
  OBVIOUS
<1>0. /\ taken \in Nat /\ sent \in Nat /\ sigCh \in BOOLEAN
      /\ (sigCh => taken < sent) /\ taken <= sent
      /\ (loop \in {"starting", "storing"} => taken > 0)
      /\ (process \in {"running", "exited"} => cause = "none")
  BY ServerDrainAssumption DEF Steady, TypeOK, SignalInv
<1>1. CASE Signal
  BY <1>0, <1>1 DEF Signal, exitVars, SignalInv
<1>2. CASE TakeSignal
  <2>1. ~sigCh' /\ taken' > 0
    BY <1>0, <1>2 DEF TakeSignal
  <2>2. process' \in {"running", "exited"} => cause' = "none"
    BY <1>0, <1>2 DEF TakeSignal, Cancel, exitVars
  <2> QED BY <2>1, <2>2 DEF SignalInv
<1>3. CASE LoadDrain \/ StartDrain
  <2>1. UNCHANGED <<sigCh, sent, taken, exitVars>> /\ taken > 0
    BY <1>0, <1>3 DEF LoadDrain, StartDrain
  <2> QED BY <1>0, <2>1 DEF exitVars, SignalInv
<1>4. ASSUME NEW n \in Drains, DrainComplete(n) \/ DrainTimesOut(n) PROVE SignalInv'
  <2>1. process' = "cancelled" /\ UNCHANGED signalVars
    BY <1>4 DEF DrainComplete, DrainTimesOut, Cancel
  <2> QED BY <1>0, <2>1 DEF signalVars, SignalInv
<1>5. CASE Exit \/ Restart
  BY <1>0, <1>5 DEF Exit, Restart, signalVars, SignalInv
<1>6. CASE UNCHANGED <<signalVars, exitVars>>
  BY <1>0, <1>6 DEF signalVars, exitVars, SignalInv
<1>7. ASSUME NEW n \in Drains, TakeChannel(n) PROVE SignalInv'
  BY <1>6, <1>7 DEF TakeChannel
<1> QED BY <1>1, <1>2, <1>3, <1>4, <1>5, <1>6, <1>7 DEF Next, vars, Ask, Inc, Dec,
        HandleWorker, Connect, Add, FirstOfPool, Remove, Prune, SetStatus,
        LastOfPool, Load, Store, WaitForZero

\* A process that starts is steady, and a step leaves it so.
LEMMA InitSteady == Init => Steady
<1> SUFFICES ASSUME Init PROVE Steady
  OBVIOUS
<1>1. TypeOK
  <2>1. /\ sent \in 0 .. MaxSignals /\ taken \in 0 .. sent /\ by \in 0 .. MaxSignals
        /\ count \in Nat /\ zeroCh \in Nat /\ zeroed \subseteq Nat /\ restarts \in Nat
    BY ServerDrainAssumption DEF Init
  <2> QED BY <2>1 DEF Init, TypeOK
<1>2. Running = {}
  BY DEF Init, Running
<1>3. CounterInv
  BY <1>2, FS_EmptySet DEF Init, CounterInv
<1> QED BY <1>1, <1>3 DEF Init, Steady, SignalInv

LEMMA SteadyStep == Steady /\ [Next]_vars => Steady'
<1>1. Steady /\ [Next]_vars => TypeOK'
  <2> SUFFICES ASSUME Steady, [Next]_vars PROVE TypeOK'
    OBVIOUS
  <2>1. CASE UNCHANGED vars
    BY <2>1 DEF Steady, TypeOK, vars, storeVars, countVars, writerVars, signalVars,
       waiterVars, exitVars
  <2> QED BY <2>1, RequestType, WriterType, SignalType DEF Next, Writers, Steady
<1> QED BY <1>1, CounterStep, SignalStep DEF Steady

\* Every variable keeps its type (TypeOK).
THEOREM TypeCorrect == Spec => []TypeOK
<1>1. Steady => TypeOK
  BY DEF Steady
<1> QED BY <1>1, InitSteady, SteadyStep, PTL DEF Spec

-----------------------------------------------------------------------------
\* The flag is set, or about to be set by one that loaded it, only by a process
\* that took a signal, or it was left in Redis by an earlier one.
FlagInv ==
    (flag \/ \E w \in Writers : seen[w]) =>
        taken > 0 \/ (Redis /\ (restarts > 0 \/ process = "exited"))

LEMMA FlagStep == Steady /\ FlagInv /\ [Next]_vars => FlagInv'
<1> SUFFICES ASSUME Steady, FlagInv, [Next]_vars PROVE FlagInv'
  OBVIOUS
<1> DEFINE Cause == taken > 0 \/ (Redis /\ (restarts > 0 \/ process = "exited"))
           Drained == flag \/ \E w \in Writers : seen[w]
<1>0. /\ Drained => Cause
      /\ taken \in Nat /\ restarts \in Nat /\ flag \in BOOLEAN
      /\ seen \in [Writers -> BOOLEAN]
      /\ process \in {"running", "cancelled", "exited"}
      /\ (loop \in {"starting", "storing"} => taken > 0)
  BY DEF Steady, TypeOK, SignalInv, FlagInv
<1>k. Cause /\ UNCHANGED <<setting, taken, restarts, process>> => Cause'
  BY DEF Redis
<1>u. ASSUME UNCHANGED <<storeVars, seen, setting, taken, restarts, process>>
      PROVE  FlagInv'
  BY <1>0, <1>u DEF FlagInv, Redis, storeVars
<1>1. ASSUME NEW w \in Writers, Load(w) PROVE FlagInv'
  <2>1. UNCHANGED <<flag, setting, taken, restarts, process>>
    BY <1>1 DEF Load, storeVars, signalVars, exitVars
  <2>2. PICK draining \in Loads : seen' = [seen EXCEPT ![w] = draining]
    BY <1>1 DEF Load
  <2>3. draining => flag
    BY <2>2 DEF Loads
  <2>4. Drained' => Drained
    BY <1>0, <2>1, <2>2, <2>3
  <2> QED BY <1>0, <1>k, <2>1, <2>4 DEF FlagInv
<1>2. ASSUME NEW w \in Writers, Store(w) PROVE FlagInv'
  <2>1. UNCHANGED <<setting, taken, restarts, process>> /\ seen' = [seen EXCEPT ![w] = FALSE]
    BY <1>2 DEF Store, signalVars, exitVars
  <2>2. flag' => flag \/ seen[w]
    BY <1>2 DEF Store, Stores, storeVars
  <2>3. Drained' => Drained
    BY <1>0, <2>1, <2>2
  <2> QED BY <1>0, <1>k, <2>1, <2>3 DEF FlagInv
<1>3. CASE TakeSignal
  <2>1. taken' > 0
    BY <1>0, <1>3 DEF TakeSignal
  <2> QED BY <2>1 DEF FlagInv
<1>4. CASE StartDrain
  <2>1. taken' > 0
    BY <1>0, <1>4 DEF StartDrain
  <2> QED BY <2>1 DEF FlagInv
<1>5. CASE Exit
  <2>1. process' = "exited" /\ setting' = setting /\ ~\E w \in Writers : seen'[w]
    BY <1>5 DEF Exit
  <2>2. ~Redis => ~flag'
    BY <1>5 DEF Exit, Kept
  <2> QED BY <2>1, <2>2 DEF FlagInv, Redis
<1>6. CASE Restart
  <2>1. UNCHANGED <<storeVars, seen, setting, taken>> /\ restarts' = restarts + 1
    BY <1>6 DEF Restart, writerVars, signalVars
  <2>2. restarts' > 0
    BY <1>0, <2>1
  <2>3. Drained' => Drained
    BY <2>1 DEF storeVars
  <2>4. Cause => Cause'
    BY <2>1, <2>2 DEF Redis
  <2> QED BY <1>0, <2>3, <2>4 DEF FlagInv
<1>7. ASSUME NEW n \in Drains, DrainComplete(n) \/ DrainTimesOut(n) PROVE FlagInv'
  <2>1. /\ UNCHANGED <<storeVars, seen, setting, taken, restarts>>
        /\ process = "running"
    BY <1>7 DEF DrainComplete, DrainTimesOut, GotoWaiter, Alive, writerVars, signalVars
  <2>2. Drained' => Drained
    BY <2>1 DEF storeVars
  <2>3. Cause => Cause'
    BY <2>1 DEF Redis
  <2> QED BY <1>0, <2>2, <2>3 DEF FlagInv
<1> QED BY <1>u, <1>1, <1>2, <1>3, <1>4, <1>5, <1>6, <1>7 DEF Next, vars, Ask, Inc,
        Dec, HandleWorker, Connect, Add, FirstOfPool, Remove, Prune, SetStatus,
        LastOfPool, Signal, LoadDrain, WaitForZero, TakeChannel, writerVars,
        signalVars, exitVars

\* What ended the server at once knew why.
LEMMA FirstSignalStep ==
    Steady /\ FlagInv /\ FirstSignalDrains /\ [Next]_vars => FirstSignalDrains'
<1> SUFFICES ASSUME Steady, FlagInv, FirstSignalDrains, [Next]_vars
             PROVE  FirstSignalDrains'
  OBVIOUS
<1>0. taken \in Nat /\ restarts \in Nat
  BY DEF Steady, TypeOK
<1>1. CASE TakeSignal
  <2>1. taken' = taken + 1 /\ UNCHANGED <<setting, restarts>> /\ process = "running"
    BY <1>1 DEF TakeSignal, Alive
  <2>2. cause' = "terminated" => flag \/ DrainTimeout = "zero"
    <3>1. cause # "terminated"
      BY <1>1 DEF TakeSignal, Alive, Steady, SignalInv
    <3>2. PICK draining \in Loads :
            draining \/ DrainTimeout = "zero" \/ UNCHANGED exitVars
      BY <1>1 DEF TakeSignal
    <3>3. draining => flag
      BY <3>2 DEF Loads
    <3> QED BY <3>1, <3>2, <3>3 DEF exitVars
  <2>3. flag => taken > 0 \/ (Redis /\ restarts > 0)
    BY <2>1 DEF FlagInv
  <2>4. taken > 0 => taken' > 1
    BY <1>0, <2>1
  <2> QED BY <2>1, <2>2, <2>3, <2>4 DEF FirstSignalDrains, DrainTimeout, Redis
<1>2. CASE Exit \/ Restart
  BY <1>2 DEF Exit, Restart, FirstSignalDrains, Steady, SignalInv
<1>3. ASSUME NEW n \in Drains, DrainComplete(n) \/ DrainTimesOut(n)
      PROVE  FirstSignalDrains'
  BY <1>3 DEF DrainComplete, DrainTimesOut, Cancel, FirstSignalDrains
<1>4. CASE UNCHANGED <<cause, setting, taken, restarts>>
  BY <1>4 DEF FirstSignalDrains, DrainTimeout, Redis
<1> QED BY <1>1, <1>2, <1>3, <1>4 DEF Next, vars, Ask, Inc, Dec, HandleWorker,
        Connect, Add, FirstOfPool, Remove, Prune, SetStatus, LastOfPool, Load, Store,
        Signal, LoadDrain, StartDrain, WaitForZero, TakeChannel, signalVars, exitVars

\* FirstSignalDrains (ServerDrain): the signal loop of main drains on the first
\* signal that a process takes, but for the exceptions it names.
THEOREM FirstSignalsDrain == Spec => []FirstSignalDrains
<1>1. Init => Steady /\ FlagInv /\ FirstSignalDrains
  <2>1. Init => FlagInv /\ FirstSignalDrains
    BY DEF Init, FlagInv, FirstSignalDrains
  <2> QED BY <2>1, InitSteady
<1>2. Steady /\ FlagInv /\ FirstSignalDrains /\ [Next]_vars
        => (Steady /\ FlagInv /\ FirstSignalDrains)'
  BY SteadyStep, FlagStep, FirstSignalStep
<1> QED BY <1>1, <1>2, PTL DEF Spec

-----------------------------------------------------------------------------
\* A goroutine that waits holds a channel the counter has made.  While it is
\* open it is the counter's own, so no counted request was forgotten; once it is
\* closed they are all done.  A later request is not among them.
WaitInv ==
    \A n \in Drains : waiter[n] = "waiting" =>
        /\ \A r \in counted[n] : req[r] \in {"running", "done"}
        /\ waitsFor[n] \in zeroed => \A r \in counted[n] : req[r] = "done"
        /\ waitsFor[n] \notin zeroed => waitsFor[n] = zeroCh

\* The goroutine of a drain that is complete is one of the drains.
CompleteInv ==
    cause = "complete" => by \in Drains /\ process = "cancelled"

LEMMA WaitStep == Steady /\ WaitInv /\ [Next]_vars => WaitInv'
<1> SUFFICES ASSUME Steady, WaitInv, [Next]_vars PROVE WaitInv'
  OBVIOUS
<1>0. /\ req \in [Requests -> Stages] /\ zeroCh \in Nat /\ zeroed \subseteq 0 .. zeroCh
      /\ waiter \in [Drains -> {"none", "starting", "waiting", "over"}]
      /\ waitsFor \in [Drains -> Nat] /\ counted \in [Drains -> SUBSET Requests]
      /\ (zeroCh \in zeroed <=> count = 0) /\ count = Cardinality(Running)
      /\ IsFiniteSet(Running)
  BY DEF Steady, TypeOK, CounterInv, Stages
<1>1. ASSUME UNCHANGED <<countVars, waitsFor, counted>>,
             \A r \in Requests : req[r] \in {"running", "done"} => req'[r] = req[r],
             \A n \in Drains : waiter'[n] = "waiting" => waiter[n] = "waiting"
      PROVE  WaitInv'
  <2> SUFFICES ASSUME NEW n \in Drains, waiter'[n] = "waiting"
               PROVE  /\ \A r \in counted'[n] : req'[r] \in {"running", "done"}
                      /\ waitsFor'[n] \in zeroed' => \A r \in counted'[n] : req'[r] = "done"
                      /\ waitsFor'[n] \notin zeroed' => waitsFor'[n] = zeroCh'
    BY DEF WaitInv
  <2>1. waiter[n] = "waiting"
    BY <1>1
  <2> QED BY <1>0, <1>1, <2>1 DEF WaitInv, countVars
<1>2. ASSUME NEW r \in Requests, Ask(r) PROVE WaitInv'
  <2>1. \A q \in Requests : req[q] \in {"running", "done"} => req'[q] = req[q]
    BY <1>0, <1>2 DEF Ask, GotoReq
  <2> QED BY <1>1, <1>2, <2>1 DEF Ask, waiterVars
<1>3. ASSUME NEW r \in Requests, Inc(r) PROVE WaitInv'
  <2>1. /\ UNCHANGED <<waiter, waitsFor, counted, zeroed>>
        /\ zeroCh' = IF count = 0 THEN zeroCh + 1 ELSE zeroCh
    BY <1>3 DEF Inc, waiterVars
  <2>2. \A q \in Requests : req[q] \in {"running", "done"} => req'[q] = req[q]
    BY <1>0, <1>3 DEF Inc, GotoReq
  <2> SUFFICES ASSUME NEW n \in Drains, waiter[n] = "waiting"
               PROVE  /\ \A q \in counted[n] : req'[q] \in {"running", "done"}
                      /\ waitsFor[n] \in zeroed => \A q \in counted[n] : req'[q] = "done"
                      /\ waitsFor[n] \notin zeroed => waitsFor[n] = zeroCh'
    BY <2>1 DEF WaitInv
  <2>3. counted[n] \subseteq Requests
    BY <1>0
  <2>4. count = 0 => waitsFor[n] \in zeroed
    BY <1>0 DEF WaitInv
  <2> QED BY <2>1, <2>2, <2>3, <2>4 DEF WaitInv
<1>4. ASSUME NEW r \in Requests, Dec(r) PROVE WaitInv'
  <2>1. /\ UNCHANGED <<waiter, waitsFor, counted, zeroCh>>
        /\ zeroed' = IF count = 1 THEN zeroed \cup {zeroCh} ELSE zeroed
        /\ req[r] = "running" /\ req' = [req EXCEPT ![r] = "done"]
    BY <1>4 DEF Dec, GotoReq, waiterVars
  <2>2. \A q \in Requests : /\ req[q] = "done" => req'[q] = "done"
                            /\ req[q] = "running" => req'[q] \in {"running", "done"}
    BY <1>0, <2>1
  <2>3. count = 1 => \A q \in Requests : req[q] = "running" => q = r
    <3> SUFFICES ASSUME count = 1, NEW q \in Requests, req[q] = "running", q # r
                 PROVE  FALSE
      OBVIOUS
    <3>1. r \in Running /\ q \in Running \ {r}
      BY <2>1 DEF Running
    <3>2. IsFiniteSet(Running \ {r}) /\ Cardinality(Running \ {r}) = 0
      BY <1>0, <3>1, FS_RemoveElement
    <3> QED BY <3>1, <3>2, FS_EmptySet
  <2> SUFFICES ASSUME NEW n \in Drains, waiter[n] = "waiting"
               PROVE  /\ \A q \in counted[n] : req'[q] \in {"running", "done"}
                      /\ waitsFor[n] \in zeroed' => \A q \in counted[n] : req'[q] = "done"
                      /\ waitsFor[n] \notin zeroed' => waitsFor[n] = zeroCh
    BY <2>1 DEF WaitInv
  <2>4. counted[n] \subseteq Requests /\ \A q \in counted[n] : req[q] \in {"running", "done"}
    BY <1>0 DEF WaitInv
  <2>5. ASSUME waitsFor[n] \in zeroed', NEW q \in counted[n] PROVE req'[q] = "done"
    <3>1. CASE waitsFor[n] \in zeroed
      BY <2>2, <2>4, <3>1 DEF WaitInv
    <3>2. CASE waitsFor[n] \notin zeroed
      <4>1. count = 1
        BY <2>1, <2>5, <3>2
      <4>2. CASE req[q] = "running"
        BY <1>0, <2>1, <2>3, <2>4, <4>1, <4>2
      <4> QED BY <2>2, <2>4, <4>2
    <3> QED BY <3>1, <3>2
  <2>6. zeroed \subseteq zeroed'
    BY <2>1
  <2> QED BY <2>2, <2>4, <2>5, <2>6 DEF WaitInv
<1>5. ASSUME NEW m \in Drains, TakeChannel(m) PROVE WaitInv'
  <2>1. /\ UNCHANGED <<req, countVars>>
        /\ waiter' = [waiter EXCEPT ![m] = "waiting"]
        /\ waitsFor' = [waitsFor EXCEPT ![m] = zeroCh]
        /\ counted' = [counted EXCEPT ![m] = Running]
    BY <1>5 DEF TakeChannel, GotoWaiter, Running
  <2> SUFFICES ASSUME NEW n \in Drains, waiter'[n] = "waiting"
               PROVE  /\ \A q \in counted'[n] : req[q] \in {"running", "done"}
                      /\ waitsFor'[n] \in zeroed => \A q \in counted'[n] : req[q] = "done"
                      /\ waitsFor'[n] \notin zeroed => waitsFor'[n] = zeroCh
    BY <2>1 DEF WaitInv, countVars
  <2>2. CASE n = m
    <3>1. counted'[n] = Running /\ waitsFor'[n] = zeroCh
      BY <1>0, <2>1, <2>2
    <3>2. zeroCh \in zeroed => Running = {}
      BY <1>0, FS_EmptySet
    <3> QED BY <1>0, <3>1, <3>2 DEF Running
  <2>3. CASE n # m
    BY <1>0, <2>1, <2>3 DEF WaitInv
  <2> QED BY <2>2, <2>3
<1>6. ASSUME NEW m \in Drains, DrainComplete(m) \/ DrainTimesOut(m) PROVE WaitInv'
  <2>1. waiter' = [waiter EXCEPT ![m] = "over"]
        /\ UNCHANGED <<req, countVars, waitsFor, counted>>
    BY <1>6 DEF DrainComplete, DrainTimesOut, GotoWaiter
  <2> QED BY <1>0, <1>1, <2>1
<1>7. CASE StartDrain
  <2>1. waiter' = [waiter EXCEPT ![taken] = "starting"]
        /\ UNCHANGED <<req, countVars, waitsFor, counted>>
    BY <1>7 DEF StartDrain
  <2> QED BY <1>0, <1>1, <2>1
<1>8. CASE Exit
  <2>1. \A n \in Drains : waiter'[n] = "none"
    BY <1>8 DEF Exit
  <2> QED BY <2>1 DEF WaitInv
<1>9. CASE UNCHANGED <<req, countVars, waiterVars>>
  BY <1>1, <1>9 DEF waiterVars
<1> QED BY <1>2, <1>3, <1>4, <1>5, <1>6, <1>7, <1>8, <1>9 DEF Next, vars,
        HandleWorker, Connect, Add, FirstOfPool, Remove, Prune, SetStatus,
        LastOfPool, Load, Store, Signal, TakeSignal, LoadDrain, WaitForZero, Restart

\* A drain that completes found its channel closed; then nothing runs until the
\* process has ended.
LEMMA CompleteStep ==
    Steady /\ WaitInv /\ CompleteInv /\ CountedRequestsFinish /\ [Next]_vars
      => (CompleteInv /\ CountedRequestsFinish)'
<1> SUFFICES ASSUME Steady, WaitInv, CompleteInv, CountedRequestsFinish, [Next]_vars
             PROVE  (CompleteInv /\ CountedRequestsFinish)'
  OBVIOUS
<1>1. ASSUME NEW n \in Drains, DrainComplete(n)
      PROVE  (CompleteInv /\ CountedRequestsFinish)'
  <2>1. /\ waiter[n] = "waiting" /\ waitsFor[n] \in zeroed
        /\ by' = n /\ process' = "cancelled" /\ UNCHANGED <<req, counted>>
    BY <1>1 DEF DrainComplete, GotoWaiter, Cancel
  <2> QED BY <2>1 DEF WaitInv, CompleteInv, CountedRequestsFinish
<1>2. ASSUME NEW n \in Drains, DrainTimesOut(n)
      PROVE  (CompleteInv /\ CountedRequestsFinish)'
  BY <1>2 DEF DrainTimesOut, Cancel, CompleteInv, CountedRequestsFinish
<1>3. CASE TakeSignal
  <2>1. cause # "complete" /\ (cause' = "terminated" \/ cause' = cause)
    BY <1>3 DEF TakeSignal, Alive, Cancel, exitVars, Steady, SignalInv
  <2> QED BY <2>1 DEF CompleteInv, CountedRequestsFinish
<1>4. CASE Exit \/ Restart
  <2>1. cause' = "none"
    BY <1>4 DEF Exit, Restart, Steady, SignalInv
  <2> QED BY <2>1 DEF CompleteInv, CountedRequestsFinish
<1>5. ASSUME process = "running", UNCHANGED cause
      PROVE  (CompleteInv /\ CountedRequestsFinish)'
  <2>1. cause' # "complete"
    BY <1>5 DEF Steady, SignalInv
  <2> QED BY <2>1 DEF CompleteInv, CountedRequestsFinish
<1>6. CASE UNCHANGED vars
  BY <1>6 DEF vars, exitVars, waiterVars, CompleteInv, CountedRequestsFinish
<1> QED BY <1>1, <1>2, <1>3, <1>4, <1>5, <1>6 DEF Next, Alive, Ask, Inc, Dec, GotoReq,
        HandleWorker, Connect, Add, FirstOfPool, Remove, Prune, SetStatus,
        LastOfPool, Load, Store, GotoWriter, Signal, LoadDrain, StartDrain,
        WaitForZero, TakeChannel, GotoWaiter, exitVars

\* CountedRequestsFinish (ServerDrain): WaitForZero of the counter waits for every
\* request that ran when it took the channel, whatever comes and goes meanwhile.
THEOREM CountedRequestsAreFinished == Spec => []CountedRequestsFinish
<1> DEFINE IInv == Steady /\ WaitInv /\ CompleteInv /\ CountedRequestsFinish
<1>1. Init => IInv
  <2>1. Init => WaitInv /\ CompleteInv /\ CountedRequestsFinish
    BY DEF Init, WaitInv, CompleteInv, CountedRequestsFinish
  <2> QED BY <2>1, InitSteady
<1>2. IInv /\ [Next]_vars => IInv'
  BY SteadyStep, WaitStep, CompleteStep
<1>3. IInv => CountedRequestsFinish
  OBVIOUS
<1> QED BY <1>1, <1>2, <1>3, PTL DEF Spec

=============================================================================

-------------------------- MODULE WorkerProxyProofs --------------------------
(***************************************************************************)
(* What TLAPS proves about WorkerProxy, for any numbers of agents,         *)
(* connections and requests, any models, any limits, and slots and a queue *)
(* of any size.                                                            *)
(***************************************************************************)
EXTENDS WorkerProxy, SequencesExt, SequenceTheorems, FiniteSetTheorems, TLAPS

-----------------------------------------------------------------------------
(* The completion queue: what Append and RemoveFirst leave of a queue that *)
(* holds everything once.                                                  *)

Distinct(q) ==
    \A i, k \in 1 .. Len(q) : q[i] = q[k] => i = k

\* What is left after RemoveAt: one element less, those behind it moved up.
LEMMA RemoveAtProperties ==
    ASSUME NEW S, NEW q \in Seq(S), NEW i \in 1 .. Len(q)
    PROVE  /\ RemoveAt(q, i) \in Seq(S)
           /\ Len(RemoveAt(q, i)) = Len(q) - 1
           /\ \A k \in 1 .. Len(q) - 1 :
                RemoveAt(q, i)[k] = IF k < i THEN q[k] ELSE q[k + 1]
<1> DEFINE front == SubSeq(q, 1, i - 1)
           back == SubSeq(q, i + 1, Len(q))
<1>1. \A k \in 1 .. Len(q) : q[k] \in S
  BY ElementOfSeq
<1>2. /\ front \in Seq(S)
      /\ Len(front) = i - 1
      /\ \A k \in 1 .. i - 1 : front[k] = q[k]
  BY <1>1, SubSeqProperties
<1>3. /\ back \in Seq(S)
      /\ Len(back) = Len(q) - i
      /\ \A k \in 1 .. Len(q) - i : back[k] = q[k + i]
  BY <1>1, SubSeqProperties
<1> HIDE DEF front, back
<1>4. /\ front \o back \in Seq(S)
      /\ Len(front \o back) = Len(q) - 1
      /\ \A k \in 1 .. Len(q) - 1 :
           (front \o back)[k] = IF k <= i - 1 THEN front[k] ELSE back[k - (i - 1)]
  BY <1>2, <1>3, ConcatProperties
<1>5. ASSUME NEW k \in 1 .. Len(q) - 1
      PROVE  (front \o back)[k] = IF k < i THEN q[k] ELSE q[k + 1]
  <2>1. CASE k < i
    <3>1. k \in 1 .. i - 1 /\ k <= i - 1
      BY <2>1
    <3> QED BY <1>2, <1>4, <2>1, <3>1
  <2>2. CASE ~ (k < i)
    <3>1. k - (i - 1) \in 1 .. Len(q) - i /\ (k - (i - 1)) + i = k + 1 /\ ~ (k <= i - 1)
      BY <2>2
    <3> QED BY <1>3, <1>4, <2>2, <3>1
  <2> QED BY <2>1, <2>2
<1> QED BY <1>4, <1>5 DEF RemoveAt, front, back

\* Deleting a position of a queue that holds everything once takes exactly
\* the element there out of it.
LEMMA RemoveAtDistinct ==
    ASSUME NEW S, NEW q \in Seq(S), Distinct(q), NEW i \in 1 .. Len(q)
    PROVE  /\ Distinct(RemoveAt(q, i))
           /\ Range(RemoveAt(q, i)) = Range(q) \ {q[i]}
<1> DEFINE rest == RemoveAt(q, i)
           From(k) == IF k < i THEN k ELSE k + 1
<1>1. /\ rest \in Seq(S)
      /\ Len(rest) = Len(q) - 1
      /\ \A k \in 1 .. Len(rest) :
           rest[k] = IF k < i THEN q[k] ELSE q[k + 1]
  BY RemoveAtProperties
<1> HIDE DEF rest
<1>2. \A k \in 1 .. Len(rest) :
        From(k) \in 1 .. Len(q) /\ From(k) # i /\ rest[k] = q[From(k)]
  BY <1>1
<1>3. Distinct(rest)
  <2> SUFFICES ASSUME NEW a \in 1 .. Len(rest), NEW b \in 1 .. Len(rest),
                      rest[a] = rest[b]
               PROVE  a = b
    BY DEF Distinct
  <2>1. From(a) = From(b)
    BY <1>2 DEF Distinct
  <2> QED BY <1>1, <2>1
<1>4. Range(rest) \subseteq Range(q) \ {q[i]}
  <2> SUFFICES ASSUME NEW k \in 1 .. Len(rest)
               PROVE  rest[k] \in Range(q) \ {q[i]}
    BY <1>1 DEF Range
  <2> QED BY <1>2 DEF Distinct, Range
<1>5. Range(q) \ {q[i]} \subseteq Range(rest)
  <2> SUFFICES ASSUME NEW k \in 1 .. Len(q), q[k] # q[i]
               PROVE  q[k] \in Range(rest)
    BY DEF Range
  <2>1. CASE k < i
    <3>1. k \in 1 .. Len(rest) /\ rest[k] = q[k]  BY <1>1, <2>1
    <3> QED BY <3>1, <1>1 DEF Range
  <2>2. CASE k > i
    <3>1. k - 1 \in 1 .. Len(rest) /\ rest[k - 1] = q[k]  BY <1>1, <2>2
    <3> QED BY <3>1, <1>1 DEF Range
  <2> QED BY <2>1, <2>2
<1> QED BY <1>3, <1>4, <1>5 DEF rest

\* Such a queue has one position at most for RemoveFirst to find.
LEMMA RemoveFirstIsRemoveAt ==
    ASSUME NEW S, NEW q \in Seq(S), Distinct(q), NEW e
    PROVE  \/ e \notin Range(q) /\ RemoveFirst(q, e) = q
           \/ \E i \in 1 .. Len(q) :
                q[i] = e /\ RemoveFirst(q, e) = RemoveAt(q, i)
<1>1. CASE ~ \E i \in 1 .. Len(q) : q[i] = e
  BY <1>1 DEF RemoveFirst, Range
<1>2. CASE \E i \in 1 .. Len(q) : q[i] = e
  <2>1. PICK i \in 1 .. Len(q) : q[i] = e
    BY <1>2
  <2>2. {k \in 1 .. Len(q) : q[k] = e} = {i}
    BY <2>1 DEF Distinct
  <2>3. SelectInSeq(q, LAMBDA v : v = e) = Min({i})
    BY <2>2 DEF SelectInSeq
  <2>4. Min({i}) = i
    BY DEF Min
  <2> QED BY <1>2, <2>1, <2>3, <2>4 DEF RemoveFirst
<1> QED BY <1>1, <1>2

\* RemoveFirst takes exactly the element out of a queue that holds it once.
LEMMA RemoveFirstDistinct ==
    ASSUME NEW S, NEW q \in Seq(S), Distinct(q), NEW e
    PROVE  /\ RemoveFirst(q, e) \in Seq(S)
           /\ Distinct(RemoveFirst(q, e))
           /\ Range(RemoveFirst(q, e)) = Range(q) \ {e}
           /\ Len(RemoveFirst(q, e)) <= Len(q)
<1>1. CASE e \notin Range(q) /\ RemoveFirst(q, e) = q
  BY <1>1
<1>2. CASE \E i \in 1 .. Len(q) :
             q[i] = e /\ RemoveFirst(q, e) = RemoveAt(q, i)
  BY <1>2, RemoveAtProperties, RemoveAtDistinct
<1> QED BY <1>1, <1>2, RemoveFirstIsRemoveAt

\* A newcomer goes to the end of such a queue.
LEMMA AppendDistinct ==
    ASSUME NEW S, NEW q \in Seq(S), Distinct(q), NEW e \in S,
           e \notin Range(q)
    PROVE  /\ Append(q, e) \in Seq(S)
           /\ Len(Append(q, e)) = Len(q) + 1
           /\ Distinct(Append(q, e))
           /\ Range(Append(q, e)) = Range(q) \cup {e}
<1> DEFINE longer == Append(q, e)
<1>1. /\ longer \in Seq(S)
      /\ Len(longer) = Len(q) + 1
      /\ \A k \in 1 .. Len(q) : longer[k] = q[k]
      /\ longer[Len(q) + 1] = e
  OBVIOUS
<1> HIDE DEF longer
<1>2. \A k \in 1 .. Len(q) : q[k] # e
  BY DEF Range
<1>3. Distinct(longer)
  BY <1>1, <1>2 DEF Distinct
<1>4. Range(longer) = Range(q) \cup {e}
  BY <1>1 DEF Range
<1> QED BY <1>1, <1>3, <1>4 DEF longer

-----------------------------------------------------------------------------
\* A handler knows its worker from the pick to the clean-up, and nobody knows
\* a connection before it was made.
HasWorker(r) ==
    pc[r] \in {"count", "add", "send", "loop", "refused", "unjob", "uncount"}

WorkerKnown ==
    /\ \A r \in Reqs : HasWorker(r) => via[r] \in Conns
    /\ \A r \in Reqs : via[r] \in Conns => link[via[r]] # "new"

\* An entry of the completion queue stands for a generation request that was
\* not sent yet, or was sent and is about to leave the queue.
QueueInv ==
    /\ Distinct(queue)
    /\ Len(queue) <= QueueCap
    /\ \A r \in Range(queue) :
         /\ Generation(r)
         /\ pc[r] \in {"queued", "pick", "add", "send", "count", "dead"}

\* A worker is registered under its own id, with Send open, and one that is
\* being evicted is not registered any more.
RegistryInv ==
    /\ \A id \in Ids : entry[id] \in Conns =>
         Owner[entry[id]] = id /\ link[entry[id]] # "new" /\ sendOpen[entry[id]]
    /\ evicting \in Conns => link[evicting] # "new" /\ ~IsRegistered(evicting)
    /\ \A c \in Conns : link[c] = "new" => sendOpen[c]

\* Between AddJob and the deferred RemoveJob, which "dead" never comes to.
Listed(r) ==
    \/ pc[r] \in {"send", "loop", "refused", "unjob", "dead"}
    \/ Generation(r) /\ pc[r] = "count"

\* The request went into Send, or it is over; no step leads back from here.
Sent(r) ==
    \/ pc[r] \in {"loop", "unjob", "uncount", "over"}
    \/ Generation(r) /\ pc[r] = "count"

\* A channel is in the table of its request's worker only, open, and if Send
\* of that worker is closed or is being closed it came late.
TableInv ==
    \A c \in Conns : \A r \in jobs[c] :
        /\ via[r] = c /\ Listed(r) /\ chanOpen[r]
        /\ evicting = c \/ ~sendOpen[c] => r \in late

\* An open channel is in that table, or its end is about to be handed over.
ChannelInv ==
    \A r \in Reqs : chanOpen[r] =>
        /\ via[r] \in Conns
        /\ r \in jobs[via[r]] \/ held[via[r]] = [req |-> r, end |-> TRUE]

\* A connection carries messages and frames of the requests sent over it only,
\* and the end of one whose channel is out of the table.
WireInv ==
    \A c \in Conns :
        /\ \A i \in 1 .. Len(outbox[c]) :
             Sent(outbox[c][i].req) /\ via[outbox[c][i].req] = c
        /\ \A r \in work[c] : Sent(r) /\ via[r] = c
        /\ held[c] # NoFrame =>
             LET r == held[c].req
             IN  Sent(r) /\ via[r] = c /\ (held[c].end => r \notin jobs[c])

CountedSet == {r \in Reqs : Counted(r)}
CountedFor(id) == {r \in Reqs : Counted(r) /\ Owner[via[r]] = id}
RunningSet == {r \in Reqs : Running(r)}
RunningFor(id) == {r \in RunningSet : Owner[via[r]] = id}

\* No connection but c ever announced its id.
IsFirst(c) == \A d \in Conns \ {c} : Owner[d] = Owner[c] => link[d] = "new"

InFlightInv ==
    /\ IsFiniteSet(CountedSet)
    /\ \A id \in Ids : inflight[id] <= Cardinality(CountedFor(id))
    /\ \A c \in Conns : IsRegistered(c) /\ IsFirst(c) =>
         inflight[Owner[c]] = Cardinality(CountedFor(Owner[c]))

GaugeInv ==
    /\ IsFiniteSet(RunningSet)
    /\ jobsInflight = Cardinality(RunningSet)
    /\ \A id \in Ids : tally[id] <= Cardinality(RunningFor(id))

-----------------------------------------------------------------------------
(* The steps.                                                              *)

\* What the constants are.
LEMMA Constants ==
    /\ \A c \in Conns : Owner[c] \in Ids
    /\ \A c \in Conns : MaxConc[c] \in Nat
    /\ NoConn \notin Conns
    /\ \A r \in Reqs, last \in BOOLEAN : [req |-> r, end |-> last] # NoFrame
<1>1. \A r \in Reqs, last \in BOOLEAN :
        [req |-> r, end |-> last] \in [req : Reqs, end : BOOLEAN]
  OBVIOUS
<1> QED BY <1>1, WorkerRegistryAssumption

\* The steps of a handler, by the way it dispatches.
GenerationStep(r) ==
    Generation(r) /\ (TryDispatch(r) \/ WaitForTurn(r) \/ Proxy(r))

DirectStep(r) ==
    Direct(r) /\ (RefuseBody(r) \/ DispatchAtOnce(r) \/ Proxy(r))

RequestStep(r) == GenerationStep(r) \/ DirectStep(r)

LEMMA StepKinds ==
    ASSUME Next
    PROVE  (\E r \in Reqs : RequestStep(r)) \/ (Environment /\ UNCHANGED proxyVars)
<1>1. ASSUME NEW r \in Reqs, Generate(r) \/ Embed(r) \/ Transcribe(r) \/ Convert(r)
      PROVE  RequestStep(r)
  BY <1>1 DEF Generate, Embed, Transcribe, Convert, RefuseForm, RequestStep,
              GenerationStep, DirectStep, Generation, Direct
<1> QED BY <1>1 DEF Next

\* A handler moves on by itself and leaves the registry and the connections.
LEMMA RequestFrame ==
    ASSUME NEW r \in Reqs, RequestStep(r)
    PROVE  /\ UNCHANGED <<entry, evicting, sendOpen, link, held, work, limit, endpoint>>
           /\ \E place \in Places : Goto(r, place)
<1> USE DEF registryVars, linkVars, workerVars, metricVars, NotDispatched
<1>1. CASE TryDispatch(r)
  BY <1>1 DEF TryDispatch, Pick, PickNone, AddJob, Send, SendIsFull, SendPanics, Count,
              Goto, Places
<1>2. CASE WaitForTurn(r)
  BY <1>2 DEF WaitForTurn, EnterQueue, Retry, LeaveQueue, Goto, Places
<1>3. CASE RefuseBody(r)
  BY <1>3 DEF RefuseBody, Goto, Places
<1>4. CASE DispatchAtOnce(r)
  BY <1>4 DEF DispatchAtOnce, Pick, RefuseUnserved, Charge, AddJob, Send, RefuseBusy,
              SendPanics, TakeBack, Goto, Places
<1>5. CASE Proxy(r)
  BY <1>5 DEF Proxy, Abandon, ReadFrame, ReadClosed, Unjob, Uncount, Goto, Places
<1> QED BY <1>1, <1>2, <1>3, <1>4, <1>5 DEF RequestStep, GenerationStep, DirectStep

-----------------------------------------------------------------------------
(* Types, the queue, and what is known of workers.                         *)

\* What Leave and Enter do to a queue that holds every request once.
LEMMA LeaveFacts ==
    ASSUME TypeOK, QueueInv, NEW r
    PROVE  /\ Leave(queue, r) \in Seq(Reqs)
           /\ Distinct(Leave(queue, r))
           /\ Range(Leave(queue, r)) = Range(queue) \ {r}
           /\ Len(Leave(queue, r)) <= Len(queue)
<1>1. queue \in Seq(Reqs) /\ Distinct(queue)
  BY DEF TypeOK, QueueInv
<1> QED BY <1>1, RemoveFirstDistinct DEF Leave

\* The counters of a handler's steps stay counters.
LEMMA CounterTypes ==
    ASSUME TypeOK, NEW r \in Reqs, via[r] \in Conns
    PROVE  /\ Inc(r) => inflight' \in [Ids -> Nat]
           /\ Dec(r) => inflight' \in [Ids -> Nat]
           /\ RecordJobStart(via[r]) =>
                jobsInflight' \in Nat /\ tally' \in [Ids -> Nat \cup {Unlisted}]
           /\ RecordJobEnd(via[r]) =>
                jobsInflight' \in Nat /\ tally' \in [Ids -> Nat \cup {Unlisted}]
           /\ RemoveJob(via[r], r) =>
                jobs' \in [Conns -> SUBSET Reqs] /\ chanOpen' \in [Reqs -> BOOLEAN]
<1>1. Owner[via[r]] \in Ids
  BY Constants
<1>2. inflight \in [Ids -> Nat] /\ tally \in [Ids -> Nat \cup {Unlisted}]
  BY DEF TypeOK, WorkerTypeOK
<1>3. jobsInflight \in Nat
  BY DEF TypeOK, WorkerTypeOK
<1>4. jobs \in [Conns -> SUBSET Reqs] /\ chanOpen \in [Reqs -> BOOLEAN]
  BY DEF TypeOK, WorkerTypeOK
<1>5. Inc(r) => inflight' \in [Ids -> Nat]
  BY <1>1, <1>2 DEF Inc
<1>6. Dec(r) => inflight' \in [Ids -> Nat]
  <2> SUFFICES ASSUME Dec(r) PROVE inflight' \in [Ids -> Nat]
    OBVIOUS
  <2>1. \A id \in Ids : (IF inflight[id] = 0 THEN inflight[id] ELSE inflight[id] - 1) \in Nat
    BY <1>2
  <2> QED BY <1>1, <1>2, <2>1 DEF Dec
<1>7. RecordJobStart(via[r]) =>
        jobsInflight' \in Nat /\ tally' \in [Ids -> Nat \cup {Unlisted}]
  BY <1>1, <1>2, <1>3 DEF RecordJobStart, Unlisted
<1>8. RecordJobEnd(via[r]) =>
        jobsInflight' \in Nat /\ tally' \in [Ids -> Nat \cup {Unlisted}]
  BY <1>1, <1>2, <1>3 DEF RecordJobEnd, Unlisted
<1>9. RemoveJob(via[r], r) =>
        jobs' \in [Conns -> SUBSET Reqs] /\ chanOpen' \in [Reqs -> BOOLEAN]
  BY <1>4 DEF RemoveJob
<1> QED BY <1>5, <1>6, <1>7, <1>8, <1>9

\* A message into Send.
LEMMA OutboxType ==
    ASSUME TypeOK, NEW c \in Conns, NEW m \in [req : Reqs, cancel : BOOLEAN]
    PROVE  [outbox EXCEPT ![c] = Append(@, m)]
             \in [Conns -> Seq([req : Reqs, cancel : BOOLEAN])]
<1> DEFINE Message == [req : Reqs, cancel : BOOLEAN]
<1>1. outbox \in [Conns -> Seq(Message)] /\ m \in Message
  BY DEF TypeOK, WorkerTypeOK
<1> HIDE DEF Message
<1>2. outbox[c] \in Seq(Message)
  BY <1>1
<1>3. Append(outbox[c], m) \in Seq(Message)
  BY <1>1, <1>2
<1>4. [outbox EXCEPT ![c] = Append(@, m)] \in [Conns -> Seq(Message)]
  BY <1>1, <1>3
<1> QED BY <1>4 DEF Message

RequestTypes ==
    /\ jobs \in [Conns -> SUBSET Reqs]
    /\ outbox \in [Conns -> Seq([req : Reqs, cancel : BOOLEAN])]
    /\ inflight \in [Ids -> Nat]
    /\ chan \in [Reqs -> Seq(BOOLEAN)]
    /\ chanOpen \in [Reqs -> BOOLEAN]
    /\ jobsInflight \in Nat
    /\ tally \in [Ids -> Nat \cup {Unlisted}]
    /\ via \in [Reqs -> Conns \cup {NoConn}]
    /\ late \subseteq Reqs
    /\ queue \in Seq(Reqs)

\* Steps that leave all of that alone, but for the queue.
LEMMA QuietTypes ==
    ASSUME TypeOK, QueueInv, NEW r \in Reqs
    PROVE  /\ RequestTypes
           /\ PickNone(r) => RequestTypes'
           /\ \A place : SendPanics(r, place) => RequestTypes'
           /\ EnterQueue(r) => RequestTypes'
           /\ Retry(r) => RequestTypes'
           /\ LeaveQueue(r) => RequestTypes'
           /\ RefuseBody(r) => RequestTypes'
           /\ RefuseUnserved(r) => RequestTypes'
           /\ RefuseBusy(r) => RequestTypes'
           /\ ReadClosed(r) => RequestTypes'
<1> USE DEF workerVars, registryVars, linkVars, metricVars
<1>1. RequestTypes
  BY DEF RequestTypes, TypeOK, WorkerTypeOK
<1>2. Leave(queue, r) \in Seq(Reqs) /\ Append(queue, r) \in Seq(Reqs)
  BY <1>1, LeaveFacts DEF RequestTypes
<1>3. PickNone(r) => RequestTypes'
  BY <1>1 DEF PickNone, RequestTypes
<1>4. \A place : SendPanics(r, place) => RequestTypes'
  BY <1>1 DEF SendPanics, RequestTypes
<1>5. EnterQueue(r) => RequestTypes'
  BY <1>1, <1>2 DEF EnterQueue, RequestTypes
<1>6. Retry(r) => RequestTypes'
  BY <1>1, <1>2 DEF Retry, RequestTypes
<1>7. LeaveQueue(r) => RequestTypes'
  BY <1>1, <1>2 DEF LeaveQueue, RequestTypes
<1>8. RefuseBody(r) => RequestTypes'
  BY <1>1 DEF RefuseBody, RequestTypes
<1>9. RefuseUnserved(r) => RequestTypes'
  BY <1>1 DEF RefuseUnserved, RequestTypes
<1>10. RefuseBusy(r) => RequestTypes'
  BY <1>1 DEF RefuseBusy, RequestTypes
<1>11. ReadClosed(r) => RequestTypes'
  BY <1>1 DEF ReadClosed, RequestTypes
<1> QED BY <1>1, <1>3, <1>4, <1>5, <1>6, <1>7, <1>8, <1>9, <1>10, <1>11

LEMMA RequestStepTypes ==
    ASSUME TypeOK, WorkerKnown, QueueInv, NEW r \in Reqs, RequestStep(r)
    PROVE  RequestTypes'
<1> USE DEF workerVars, registryVars, linkVars, metricVars
<1>1. RequestTypes
  BY QuietTypes
<1>2. HasWorker(r) => via[r] \in Conns
  BY DEF WorkerKnown
<1>3. ASSUME NEW place, Pick(r, place) PROVE RequestTypes'
  BY <1>1, <1>3 DEF Pick, Candidates, RequestTypes
<1>4. CASE AddJob(r)
  BY <1>1, <1>2, <1>4 DEF AddJob, HasWorker, RequestTypes
<1>5. ASSUME NEW place, Send(r, place) PROVE RequestTypes'
  <2>1. via[r] \in Conns
    BY <1>2, <1>5 DEF Send, HasWorker
  <2>2. /\ outbox' = [outbox EXCEPT ![via[r]] = Append(@, [req |-> r, cancel |-> FALSE])]
        /\ RecordJobStart(via[r])
        /\ UNCHANGED <<registryVars, inflight, chan, via, late, queue>>
    BY <1>5 DEF Send
  <2>3. outbox' \in [Conns -> Seq([req : Reqs, cancel : BOOLEAN])]
    BY <2>1, <2>2, OutboxType
  <2> QED BY <1>1, <2>1, <2>2, <2>3, CounterTypes DEF RequestTypes
<1>6. CASE SendIsFull(r)
  <2>1. via[r] \in Conns
    BY <1>2, <1>6 DEF SendIsFull, Busy, HasWorker
  <2> QED BY <1>1, <1>6, <2>1, CounterTypes DEF SendIsFull, RequestTypes
<1>7. CASE Count(r)
  <2>1. via[r] \in Conns
    BY <1>2, <1>7 DEF Count, HasWorker
  <2>2. queue' \in Seq(Reqs)
    BY <1>7, LeaveFacts DEF Count
  <2> QED BY <1>1, <1>7, <2>1, <2>2, CounterTypes DEF Count, RequestTypes
<1>8. CASE Charge(r)
  <2>1. via[r] \in Conns
    BY <1>2, <1>8 DEF Charge, HasWorker
  <2> QED BY <1>1, <1>8, <2>1, CounterTypes DEF Charge, RequestTypes
<1>9. CASE TakeBack(r)
  <2>1. via[r] \in Conns
    BY <1>2, <1>9 DEF TakeBack, HasWorker
  <2> QED BY <1>1, <1>9, <2>1, CounterTypes DEF TakeBack, RequestTypes
<1>10. CASE Abandon(r)
  <2>1. via[r] \in Conns
    BY <1>2, <1>10 DEF Abandon, HasWorker
  <2>2. outbox' \in [Conns -> Seq([req : Reqs, cancel : BOOLEAN])]
    BY <1>1, <1>10, <2>1, OutboxType DEF Abandon, OfferCancel, RequestTypes
  <2> QED BY <1>1, <1>10, <2>2 DEF Abandon, RequestTypes
<1>11. CASE ReadFrame(r)
  <2>1. chan[r] \in Seq(BOOLEAN) /\ chan[r] # <<>>
    BY <1>1, <1>11 DEF ReadFrame, RequestTypes
  <2>2. Tail(chan[r]) \in Seq(BOOLEAN)
    BY <2>1, HeadTailProperties
  <2>3. chan' \in [Reqs -> Seq(BOOLEAN)]
    BY <1>1, <1>11, <2>2 DEF ReadFrame, RequestTypes
  <2> QED BY <1>1, <1>11, <2>3 DEF ReadFrame, RequestTypes
<1>12. CASE Unjob(r)
  <2>1. via[r] \in Conns
    BY <1>2, <1>12 DEF Unjob, HasWorker
  <2> QED BY <1>1, <1>12, <2>1, CounterTypes DEF Unjob, RequestTypes
<1>13. CASE Uncount(r)
  <2>1. via[r] \in Conns
    BY <1>2, <1>13 DEF Uncount, HasWorker
  <2> QED BY <1>1, <1>13, <2>1, CounterTypes DEF Uncount, RequestTypes
<1> QED BY <1>3, <1>4, <1>5, <1>6, <1>7, <1>8, <1>9, <1>10, <1>11, <1>12, <1>13, QuietTypes
        DEF RequestStep, GenerationStep, DirectStep, TryDispatch, WaitForTurn,
            DispatchAtOnce, Proxy

\* The variables a connection, a prune and CloseSend change, Send among them.
LEMMA EvictTypes ==
    ASSUME WorkerTypeOK, NEW id \in Ids, Evict(id)
    PROVE  /\ entry' \in [Ids -> Conns \cup {NoConn}]
           /\ evicting' \in Conns \cup {NoConn}
           /\ jobs' \in [Conns -> SUBSET Reqs]
           /\ sendOpen' \in [Conns -> BOOLEAN]
           /\ chanOpen' \in [Reqs -> BOOLEAN]
           /\ inflight' \in [Ids -> Nat]
           /\ limit' \in [Ids -> Nat]
<1>1. CASE entry[id] = NoConn
  BY <1>1 DEF Evict, WorkerTypeOK, registryVars
<1>2. CASE entry[id] # NoConn
  <2>1. entry[id] \in Conns
    BY <1>2 DEF WorkerTypeOK
  <2>2. /\ chanOpen \in [Reqs -> BOOLEAN]
        /\ chanOpen' = [r \in Reqs |-> chanOpen[r] /\ r \notin jobs[entry[id]]]
    BY <1>2 DEF Evict, WorkerTypeOK
  <2>3. chanOpen' \in [Reqs -> BOOLEAN]
    BY <2>2
  <2>4. jobs' \in [Conns -> SUBSET Reqs]
    BY <1>2, <2>1 DEF Evict, WorkerTypeOK
  <2>5. inflight' \in [Ids -> Nat] /\ limit' \in [Ids -> Nat]
    <3>1. /\ inflight' = [inflight EXCEPT ![id] = 0] /\ inflight \in [Ids -> Nat]
          /\ limit' = [limit EXCEPT ![id] = 0] /\ limit \in [Ids -> Nat]
      BY <1>2 DEF Evict, WorkerTypeOK
    <3> QED BY <3>1
  <2> QED BY <1>2, <2>1, <2>3, <2>4, <2>5 DEF Evict, WorkerTypeOK
<1> QED BY <1>1, <1>2

LEMMA EnvironmentTypes ==
    ASSUME WorkerTypeOK, Environment
    PROVE  WorkerTypeOK'
<1> USE DEF registryVars, linkVars, metricVars
<1>1. ASSUME NEW c \in Conns, Register(c) PROVE WorkerTypeOK'
  BY <1>1, Constants DEF Register, UpsertWorker, Unlisted, WorkerTypeOK
<1>2. ASSUME NEW c \in Conns, Write(c) PROVE WorkerTypeOK'
  <2> DEFINE Message == [req : Reqs, cancel : BOOLEAN]
  <2>1. outbox \in [Conns -> Seq(Message)]
    BY DEF WorkerTypeOK
  <2>2. Head(outbox[c]).req \in Reqs
    <3>1. Head(outbox[c]) \in Message
      BY <1>2, <2>1, HeadTailProperties DEF Write
    <3> QED BY <3>1
  <2> HIDE DEF Message
  <2>3. Tail(outbox[c]) \in Seq(Message)
    BY <1>2, <2>1, HeadTailProperties DEF Write
  <2>4. outbox' \in [Conns -> Seq(Message)]
    BY <1>2, <2>1, <2>3 DEF Write
  <2>5. work' \in [Conns -> SUBSET Reqs]
    BY <1>2, <2>2 DEF Write, WorkerTypeOK
  <2> QED BY <1>2, <2>4, <2>5 DEF Write, WorkerTypeOK, Message
<1>3. ASSUME NEW c \in Conns, StatusUpdate(c) PROVE WorkerTypeOK'
  <2>1. PICK n \in {0, MaxConc[c]} : limit' = [limit EXCEPT ![Owner[c]] = n]
    BY <1>3 DEF StatusUpdate
  <2>2. limit' \in [Ids -> Nat]
    BY <2>1, Constants DEF WorkerTypeOK
  <2> QED BY <1>3, <2>2 DEF StatusUpdate, WorkerTypeOK
<1>4. ASSUME NEW c \in Conns, Deliver(c) PROVE WorkerTypeOK'
  <2>1. held[c].req \in Reqs /\ held[c].end \in BOOLEAN
    BY <1>4 DEF Deliver, WorkerTypeOK
  <2>2. chan \in [Reqs -> Seq(BOOLEAN)]
    BY DEF WorkerTypeOK
  <2>3. Append(chan[held[c].req], held[c].end) \in Seq(BOOLEAN)
    BY <2>1, <2>2
  <2>4. chan' \in [Reqs -> Seq(BOOLEAN)]
    BY <1>4, <2>2, <2>3 DEF Deliver
  <2> QED BY <1>4, <2>1, <2>4 DEF Deliver, WorkerTypeOK
<1>5. ASSUME NEW c \in Conns, PanicOnClosed(c) PROVE WorkerTypeOK'
  BY <1>5 DEF PanicOnClosed, WorkerTypeOK
<1>6. ASSUME NEW c \in Conns, Break(c) PROVE WorkerTypeOK'
  BY <1>6 DEF Break, WorkerTypeOK
<1>7. ASSUME NEW c \in Conns, NEW r \in Reqs, ReadPart(c, r) PROVE WorkerTypeOK'
  BY <1>7 DEF ReadPart, WorkerTypeOK
<1>8. ASSUME NEW c \in Conns, NEW r \in Reqs, ReadEnd(c, r) PROVE WorkerTypeOK'
  BY <1>8 DEF ReadEnd, WorkerTypeOK
<1>9. ASSUME NEW c \in Conns, Deregister(c) PROVE WorkerTypeOK'
  BY <1>9, Constants, EvictTypes DEF Deregister, WorkerTypeOK
<1>10. ASSUME NEW c \in Conns, HangUp(c) PROVE WorkerTypeOK'
  BY <1>10 DEF HangUp, WorkerTypeOK
<1>11. ASSUME NEW id \in Ids, Prune(id) PROVE WorkerTypeOK'
  BY <1>11, EvictTypes DEF Prune, WorkerTypeOK
<1>12. CASE CloseSend
  BY <1>12 DEF CloseSend, Unlocked, WorkerTypeOK
<1> QED BY <1>1, <1>2, <1>3, <1>4, <1>5, <1>6, <1>7, <1>8, <1>9, <1>10, <1>11, <1>12
        DEF Environment, ReadLoop

LEMMA TypeStep ==
    ASSUME TypeOK, WorkerKnown, QueueInv, [Next]_vars
    PROVE  TypeOK'
<1>1. ASSUME NEW r \in Reqs, RequestStep(r) PROVE TypeOK'
  <2>1. RequestTypes'
    BY <1>1, RequestStepTypes
  <2>2. pc' \in [Reqs -> Places]
    BY <1>1, RequestFrame DEF Goto, TypeOK
  <2> QED BY <1>1, <2>1, <2>2, RequestFrame DEF RequestTypes, TypeOK, WorkerTypeOK
<1>2. CASE Environment /\ UNCHANGED proxyVars
  BY <1>2, EnvironmentTypes DEF TypeOK, proxyVars
<1>3. CASE UNCHANGED vars
  BY <1>3 DEF TypeOK, WorkerTypeOK, vars, workerVars, registryVars, linkVars, metricVars,
              proxyVars
<1> QED BY <1>1, <1>2, <1>3, StepKinds

\* A request in the queue is dispatched or leaves; whoever moves on otherwise
\* is not in it.
LEMMA QueueMove ==
    ASSUME TypeOK, QueueInv, NEW r \in Reqs, UNCHANGED <<queue, endpoint>>,
           NEW place, Goto(r, place),
           r \in Range(queue) => place \in {"queued", "pick", "add", "send", "count", "dead"}
    PROVE  QueueInv'
  BY DEF QueueInv, Goto, TypeOK, Generation

LEMMA QueueLeft ==
    ASSUME TypeOK, QueueInv, NEW r \in Reqs, queue' = Leave(queue, r), UNCHANGED endpoint,
           NEW place, Goto(r, place)
    PROVE  QueueInv'
<1>1. queue \in Seq(Reqs) /\ Len(queue) \in Nat /\ QueueCap \in Nat
  BY QueueCapAssumption DEF TypeOK
<1>2. queue' \in Seq(Reqs) /\ Len(queue') <= QueueCap
  BY <1>1, LeaveFacts DEF QueueInv
<1>3. Range(queue') = Range(queue) \ {r} /\ Distinct(queue')
  BY LeaveFacts
<1>4. \A s \in Range(queue') : pc'[s] = pc[s]
  BY <1>3 DEF Goto
<1> QED BY <1>2, <1>3, <1>4 DEF QueueInv, Generation

LEMMA QueueStep ==
    ASSUME TypeOK, QueueInv, [Next]_vars
    PROVE  QueueInv'
<1>1. ASSUME NEW r \in Reqs, RequestStep(r) PROVE QueueInv'
  <2>0. /\ UNCHANGED endpoint
        /\ r \in Range(queue) =>
             Generation(r) /\ pc[r] \in {"queued", "pick", "add", "send", "count", "dead"}
    BY <1>1, RequestFrame DEF QueueInv
  <2>1. ASSUME NEW place, Pick(r, place), Generation(r) => place = "add"
        PROVE  QueueInv'
    BY <2>0, <2>1, QueueMove DEF Pick
  <2>2. CASE PickNone(r)
    BY <2>0, <2>2, QueueMove DEF PickNone, NotDispatched
  <2>3. CASE AddJob(r)
    BY <2>0, <2>3, QueueMove DEF AddJob
  <2>4. ASSUME NEW place, Send(r, place), Generation(r) => place = "count"
        PROVE  QueueInv'
    BY <2>0, <2>4, QueueMove DEF Send
  <2>5. CASE SendIsFull(r)
    BY <2>0, <2>5, QueueMove DEF SendIsFull, NotDispatched
  <2>6. ASSUME NEW place, SendPanics(r, place), Generation(r) => place = "dead"
        PROVE  QueueInv'
    BY <2>0, <2>6, QueueMove DEF SendPanics
  <2>7. CASE Count(r)
    BY <2>0, <2>7, QueueLeft DEF Count
  <2>8. CASE EnterQueue(r)
    <3>1. r \notin Range(queue)
      BY <2>0, <2>8 DEF EnterQueue
    <3>2. CASE UNCHANGED queue
      BY <2>0, <2>8, <3>1, <3>2, QueueMove DEF EnterQueue
    <3>3. CASE Generation(r) /\ HasSlot(queue) /\ queue' = Append(queue, r) /\ Goto(r, "queued")
      <4>1. queue \in Seq(Reqs) /\ Len(queue) \in Nat /\ QueueCap \in Nat
        BY QueueCapAssumption DEF TypeOK
      <4>2. /\ Distinct(queue') /\ Range(queue') = Range(queue) \cup {r}
            /\ Len(queue') = Len(queue) + 1
        BY <3>1, <3>3, <4>1, AppendDistinct DEF QueueInv
      <4>3. Len(queue') <= QueueCap
        BY <3>3, <4>1, <4>2 DEF HasSlot
      <4>4. /\ pc'[r] = "queued"
            /\ \A s \in Range(queue) : pc'[s] = pc[s]
        BY <3>1, <3>3 DEF Goto, TypeOK
      <4>5. \A s \in Range(queue') :
              pc'[s] \in {"queued", "pick", "add", "send", "count", "dead"}
        BY <4>2, <4>4 DEF QueueInv
      <4>6. \A s \in Range(queue') : Generation(s)'
        BY <2>0, <3>3, <4>2 DEF QueueInv, Generation
      <4> QED BY <4>2, <4>3, <4>5, <4>6 DEF QueueInv
    <3>4. Generation(r)
      BY <1>1, <2>8 DEF RequestStep, GenerationStep, DirectStep, RefuseBody, DispatchAtOnce,
         Proxy, EnterQueue, Pick, RefuseUnserved, CannotPick, Charge, AddJob, Send, RefuseBusy,
         Busy, SendPanics, TakeBack, Abandon, ReadFrame, ReadClosed, Unjob, Uncount
    <3> QED BY <2>8, <3>2, <3>3, <3>4 DEF EnterQueue
  <2>9. CASE Retry(r)
    BY <2>0, <2>9, QueueMove, QueueLeft DEF Retry
  <2>10. CASE LeaveQueue(r)
    BY <2>0, <2>10, QueueLeft DEF LeaveQueue
  <2>11. CASE Direct(r) /\ (RefuseBody(r) \/ RefuseUnserved(r) \/ Charge(r) \/ RefuseBusy(r))
    BY <2>0, <2>11, QueueMove DEF Direct, RefuseBody, RefuseUnserved, Charge, RefuseBusy
  <2>12. CASE TakeBack(r)
    BY <2>0, <2>12, QueueMove DEF TakeBack
  <2>13. CASE Proxy(r)
    BY <2>0, <2>13, QueueMove DEF Proxy, Abandon, ReadFrame, ReadClosed, Unjob, Uncount
  <2> QED BY <1>1, <2>1, <2>2, <2>3, <2>4, <2>5, <2>6, <2>7, <2>8, <2>9, <2>10, <2>11,
             <2>12, <2>13
          DEF RequestStep, GenerationStep, DirectStep, TryDispatch, WaitForTurn,
              DispatchAtOnce, Direct
<1>2. CASE UNCHANGED proxyVars
  BY <1>2 DEF QueueInv, Generation, proxyVars
<1>3. CASE UNCHANGED vars
  BY <1>2, <1>3 DEF vars
<1> QED BY <1>1, <1>2, <1>3, StepKinds

\* A connection is made once.
LEMMA LinkStep ==
    ASSUME WorkerTypeOK, Environment
    PROVE  \A c \in Conns : link'[c] = "new" => link[c] = "new"
<1>1. link \in [Conns -> {"new", "open", "leaving", "removed", "over"}]
  BY DEF WorkerTypeOK
<1>2. CASE UNCHANGED link
  BY <1>2
<1>3. ASSUME NEW c \in Conns, NEW place \in {"open", "leaving", "removed", "over"},
             link' = [link EXCEPT ![c] = place]
      PROVE  \A d \in Conns : link'[d] = "new" => link[d] = "new"
  BY <1>1, <1>3
<1> QED BY <1>2, <1>3
        DEF Environment, ReadLoop, Register, Write, StatusUpdate, Deliver, PanicOnClosed,
            Break, ReadPart, ReadEnd, Deregister, HangUp, Prune, CloseSend, linkVars

LEMMA EvictRegistry ==
    ASSUME WorkerTypeOK, RegistryInv, Unlocked, NEW id \in Ids, Evict(id),
           \A c \in Conns : link'[c] = "new" => link[c] = "new"
    PROVE  RegistryInv'
<1>1. CASE entry[id] = NoConn
  BY <1>1, Constants DEF Evict, RegistryInv, IsRegistered, Unlocked, registryVars
<1>2. CASE entry[id] # NoConn
  <2>1. /\ entry[id] \in Conns /\ Owner[entry[id]] = id /\ link[entry[id]] # "new"
        /\ evicting' = entry[id] /\ entry' = [entry EXCEPT ![id] = NoConn]
        /\ UNCHANGED sendOpen
    BY <1>2 DEF Evict, RegistryInv, WorkerTypeOK
  <2>2. entry'[id] = NoConn /\ \A i \in Ids : i # id => entry'[i] = entry[i]
    BY <2>1 DEF WorkerTypeOK
  <2>3. \A i \in Ids : entry'[i] \in Conns =>
          Owner[entry'[i]] = i /\ link'[entry'[i]] # "new" /\ sendOpen'[entry'[i]]
    BY <2>1, <2>2, Constants DEF RegistryInv
  <2>4. link'[evicting'] # "new" /\ entry'[Owner[evicting']] # evicting'
    BY <2>1, <2>2, Constants
  <2> QED BY <2>1, <2>3, <2>4 DEF RegistryInv, IsRegistered
<1> QED BY <1>1, <1>2

LEMMA RegistryStep ==
    ASSUME TypeOK, RegistryInv, [Next]_vars
    PROVE  RegistryInv'
<1> USE DEF TypeOK, registryVars
<1>1. ASSUME NEW r \in Reqs, RequestStep(r) PROVE RegistryInv'
  BY <1>1, RequestFrame DEF RegistryInv, IsRegistered
<1>2. CASE Environment
  <2>0. \A c \in Conns : link'[c] = "new" => link[c] = "new"
    BY <1>2, LinkStep
  <2>1. ASSUME NEW c \in Conns, Register(c) PROVE RegistryInv'
    <3>1. /\ link[c] = "new" /\ evicting = NoConn /\ link'[c] = "open"
          /\ entry' = [entry EXCEPT ![Owner[c]] = c]
          /\ UNCHANGED <<evicting, sendOpen>>
      BY <2>1 DEF Register, Unlocked, WorkerTypeOK
    <3>2. \A id \in Ids : entry'[id] = IF id = Owner[c] THEN c ELSE entry[id]
      BY <3>1, Constants DEF WorkerTypeOK
    <3> QED BY <2>0, <3>1, <3>2, Constants DEF RegistryInv, IsRegistered
  <2>2. CASE UNCHANGED <<entry, evicting, sendOpen>>
    BY <2>0, <2>2 DEF RegistryInv, IsRegistered
  <2>3. ASSUME NEW c \in Conns, Deregister(c) PROVE RegistryInv'
    BY <2>0, <2>3, Constants, EvictRegistry DEF Deregister
  <2>4. ASSUME NEW id \in Ids, Prune(id) PROVE RegistryInv'
    BY <2>0, <2>4, EvictRegistry DEF Prune
  <2>5. CASE CloseSend
    <3>1. /\ evicting \in Conns /\ evicting' = NoConn
          /\ \A c \in Conns : sendOpen'[c] = IF c = evicting THEN FALSE ELSE sendOpen[c]
          /\ UNCHANGED <<entry, link>>
      BY <2>5 DEF CloseSend, Unlocked, linkVars, WorkerTypeOK
    <3>2. \A id \in Ids : entry[id] \in Conns => entry[id] # evicting
      BY <3>1 DEF RegistryInv, IsRegistered
    <3> QED BY <3>1, <3>2, Constants DEF RegistryInv
  <2> QED BY <1>2, <2>1, <2>2, <2>3, <2>4, <2>5
          DEF Environment, ReadLoop, Write, StatusUpdate, Deliver, PanicOnClosed, Break,
              ReadPart, ReadEnd, HangUp
<1>3. CASE UNCHANGED vars
  BY <1>3 DEF RegistryInv, IsRegistered, vars, workerVars, linkVars
<1> QED BY <1>1, <1>2, <1>3, StepKinds

\* A handler that does not pick keeps its worker, and gets none.
LEMMA KeepWorker ==
    ASSUME TypeOK, NEW r \in Reqs, RequestStep(r)
    PROVE  \/ UNCHANGED via /\ (HasWorker(r)' => HasWorker(r))
           \/ \E c \in Candidates(Wants[r]) : via' = [via EXCEPT ![r] = c]
<1> USE DEF workerVars, HasWorker, Goto, TypeOK
<1>1. CASE TryDispatch(r)
  BY <1>1 DEF TryDispatch, Pick, PickNone, AddJob, Send, SendIsFull, Busy, SendPanics, Count,
              NotDispatched
<1>2. CASE WaitForTurn(r)
  BY <1>2 DEF WaitForTurn, EnterQueue, Retry, LeaveQueue
<1>3. CASE RefuseBody(r)
  BY <1>3 DEF RefuseBody
<1>4. CASE DispatchAtOnce(r)
  BY <1>4 DEF DispatchAtOnce, Pick, RefuseUnserved, Charge, AddJob, Send, RefuseBusy, Busy,
              SendPanics, TakeBack
<1>5. CASE Proxy(r)
  BY <1>5 DEF Proxy, Abandon, ReadFrame, ReadClosed, Unjob, Uncount
<1> QED BY <1>1, <1>2, <1>3, <1>4, <1>5 DEF RequestStep, GenerationStep, DirectStep

LEMMA WorkerKnownStep ==
    ASSUME TypeOK, RegistryInv, WorkerKnown, [Next]_vars
    PROVE  WorkerKnown'
<1>1. ASSUME NEW r \in Reqs, RequestStep(r) PROVE WorkerKnown'
  <2>1. /\ UNCHANGED link
        /\ \A s \in Reqs : s # r => pc'[s] = pc[s]
    BY <1>1, RequestFrame DEF Goto, TypeOK
  <2>2. CASE UNCHANGED via /\ (HasWorker(r)' => HasWorker(r))
    BY <2>1, <2>2 DEF WorkerKnown, HasWorker
  <2>3. ASSUME NEW c \in Candidates(Wants[r]), via' = [via EXCEPT ![r] = c]
        PROVE  WorkerKnown'
    <3>1. c \in Conns /\ IsRegistered(c)
      BY DEF Candidates
    <3>2. link[c] # "new"
      BY <3>1, Constants DEF RegistryInv, IsRegistered
    <3>3. \A s \in Reqs : via'[s] = IF s = r THEN c ELSE via[s]
      BY <2>3 DEF TypeOK
    <3> QED BY <2>1, <3>1, <3>2, <3>3 DEF WorkerKnown, HasWorker
  <2> QED BY <1>1, <2>2, <2>3, KeepWorker
<1>2. CASE Environment /\ UNCHANGED proxyVars
  BY <1>2, LinkStep DEF WorkerKnown, HasWorker, proxyVars, TypeOK
<1>3. CASE UNCHANGED vars
  BY <1>3 DEF WorkerKnown, HasWorker, vars, workerVars, linkVars, proxyVars
<1> QED BY <1>1, <1>2, <1>3, StepKinds

-----------------------------------------------------------------------------
(* Tables, channels and frames.                                            *)

FrameInv == TableInv /\ ChannelInv /\ WireInv

frameVars == <<jobs, chanOpen, evicting, sendOpen, late, held, work, outbox, via>>

\* What tables, frames and messages are about.
LEMMA FrameTypes ==
    ASSUME TypeOK
    PROVE  /\ \A c \in Conns : jobs[c] \subseteq Reqs /\ work[c] \subseteq Reqs
           /\ \A c \in Conns : held[c] # NoFrame =>
                held[c].req \in Reqs /\ held[c].end \in BOOLEAN
           /\ \A c \in Conns : \A i \in 1 .. Len(outbox[c]) : outbox[c][i].req \in Reqs
<1> DEFINE Message == [req : Reqs, cancel : BOOLEAN]
<1>1. \A c \in Conns : outbox[c] \in Seq(Message)
  BY DEF TypeOK, WorkerTypeOK
<1>2. \A m \in Message : m.req \in Reqs
  OBVIOUS
<1> HIDE DEF Message
<1>3. \A c \in Conns : \A i \in 1 .. Len(outbox[c]) : outbox[c][i] \in Message
  BY <1>1, ElementOfSeq
<1> QED BY <1>2, <1>3 DEF TypeOK, WorkerTypeOK

\* What was not added yet, or is not any more, and was not sent, is nowhere.
LEMMA Unknown ==
    ASSUME TypeOK, FrameInv, NEW r \in Reqs, ~Listed(r), ~Sent(r)
    PROVE  /\ ~chanOpen[r]
           /\ \A c \in Conns : r \notin jobs[c] /\ r \notin work[c]
           /\ \A c \in Conns : held[c] # NoFrame => held[c].req # r
           /\ \A c \in Conns : \A i \in 1 .. Len(outbox[c]) : outbox[c][i].req # r
<1>1. \A c \in Conns : r \notin jobs[c] /\ r \notin work[c]
  BY DEF FrameInv, TableInv, WireInv
<1>2. \A c \in Conns : held[c] # NoFrame => held[c].req # r
  BY DEF FrameInv, WireInv
<1>3. \A c \in Conns : \A i \in 1 .. Len(outbox[c]) : outbox[c][i].req # r
  BY DEF FrameInv, WireInv
<1>4. [req |-> r, end |-> TRUE] # NoFrame
  BY Constants
<1>5. ASSUME chanOpen[r] PROVE FALSE
  <2>1. via[r] \in Conns /\ held[via[r]] = [req |-> r, end |-> TRUE]
    BY <1>1, <1>5 DEF FrameInv, ChannelInv
  <2> QED BY <1>2, <1>4, <2>1
<1> QED BY <1>1, <1>2, <1>3, <1>5

\* A handler that goes nowhere where its channel would be out of place.
LEMMA MoveOn ==
    ASSUME TypeOK, FrameInv, NEW r \in Reqs, UNCHANGED <<endpoint, frameVars>>,
           NEW place, Goto(r, place), Listed(r) => Listed(r)', Sent(r) => Sent(r)'
    PROVE  FrameInv'
<1>1. \A s \in Reqs : s # r => pc'[s] = pc[s]
  BY DEF Goto, TypeOK
<1>2. \A s \in Reqs : (Listed(s) => Listed(s)') /\ (Sent(s) => Sent(s)')
  BY <1>1 DEF Listed, Sent, Generation
<1>3. UNCHANGED <<jobs, chanOpen, evicting, sendOpen, late, held, work, outbox, via>>
  BY DEF frameVars
<1>4. TableInv'
  BY <1>2, <1>3, FrameTypes DEF FrameInv, TableInv
<1>5. ChannelInv'
  BY <1>3 DEF FrameInv, ChannelInv
<1>6. WireInv'
  BY <1>2, <1>3, FrameTypes DEF FrameInv, WireInv
<1> QED BY <1>4, <1>5, <1>6 DEF FrameInv

LEMMA AppendElements ==
    ASSUME NEW S, NEW q \in Seq(S), NEW m \in S
    PROVE  \A i \in 1 .. Len(Append(q, m)) :
             Append(q, m)[i] = m \/ (i \in 1 .. Len(q) /\ Append(q, m)[i] = q[i])
  OBVIOUS

\* The messages in a Send that got one more, and in one that gave one away.
LEMMA OutboxGrows ==
    ASSUME TypeOK, NEW c \in Conns, NEW m \in [req : Reqs, cancel : BOOLEAN],
           outbox' = [outbox EXCEPT ![c] = Append(@, m)]
    PROVE  \A d \in Conns : \A i \in 1 .. Len(outbox'[d]) :
             \/ d = c /\ outbox'[d][i] = m
             \/ i \in 1 .. Len(outbox[d]) /\ outbox'[d][i] = outbox[d][i]
<1> DEFINE Message == [req : Reqs, cancel : BOOLEAN]
<1>1. outbox \in [Conns -> Seq(Message)] /\ m \in Message
  BY DEF TypeOK, WorkerTypeOK
<1> HIDE DEF Message
<1>2. outbox'[c] = Append(outbox[c], m) /\ outbox[c] \in Seq(Message)
  BY <1>1
<1>3. \A d \in Conns : d # c => outbox'[d] = outbox[d]
  BY <1>1
<1>4. \A i \in 1 .. Len(outbox'[c]) :
        outbox'[c][i] = m \/ (i \in 1 .. Len(outbox[c]) /\ outbox'[c][i] = outbox[c][i])
  BY <1>1, <1>2, AppendElements
<1> QED BY <1>3, <1>4

LEMMA OutboxShrinks ==
    ASSUME TypeOK, NEW c \in Conns, outbox[c] # <<>>,
           outbox' = [outbox EXCEPT ![c] = Tail(@)]
    PROVE  /\ \A d \in Conns : \A i \in 1 .. Len(outbox'[d]) :
                \E k \in 1 .. Len(outbox[d]) : outbox'[d][i] = outbox[d][k]
           /\ \E k \in 1 .. Len(outbox[c]) : Head(outbox[c]) = outbox[c][k]
<1> DEFINE Message == [req : Reqs, cancel : BOOLEAN]
<1>1. outbox \in [Conns -> Seq(Message)]
  BY DEF TypeOK, WorkerTypeOK
<1> HIDE DEF Message
<1>2. outbox'[c] = Tail(outbox[c]) /\ outbox[c] \in Seq(Message)
  BY <1>1
<1>3. \A d \in Conns : d # c => outbox'[d] = outbox[d]
  BY <1>1
<1>4. /\ Len(Tail(outbox[c])) = Len(outbox[c]) - 1
      /\ \A i \in 1 .. Len(Tail(outbox[c])) : Tail(outbox[c])[i] = outbox[c][i + 1]
  BY <1>2, HeadTailProperties
<1>5. Len(outbox[c]) \in Nat /\ Len(outbox[c]) # 0 /\ Head(outbox[c]) = outbox[c][1]
  BY <1>2
<1>6. \A i \in 1 .. Len(outbox'[c]) :
        i + 1 \in 1 .. Len(outbox[c]) /\ outbox'[c][i] = outbox[c][i + 1]
  <2> DEFINE rest == Tail(outbox[c])
  <2>1. outbox'[c] = rest /\ Len(rest) = Len(outbox[c]) - 1
    BY <1>2, <1>4
  <2>2. \A i \in 1 .. Len(rest) : rest[i] = outbox[c][i + 1]
    BY <1>4
  <2> HIDE DEF rest
  <2> QED BY <1>5, <2>1, <2>2
<1> QED BY <1>3, <1>5, <1>6

\* What the handlers do with channels and Send.
LEMMA PickFrames ==
    ASSUME TypeOK, FrameInv, NEW r \in Reqs, NEW place \in {"add", "count"},
           Direct(r) \/ place = "add", Pick(r, place)
    PROVE  FrameInv'
<1>1. ~Listed(r) /\ ~Sent(r)
  BY DEF Pick, Listed, Sent
<1>2. \A s \in Reqs : s # r => pc'[s] = pc[s] /\ via'[s] = via[s]
  BY DEF Pick, Goto, TypeOK
<1>3. UNCHANGED <<jobs, chanOpen, evicting, sendOpen, late, held, work, outbox, endpoint>>
  BY DEF Pick, workerVars, registryVars, linkVars
<1>4. \A s \in Reqs : s # r => (Listed(s) => Listed(s)') /\ (Sent(s) => Sent(s)')
  BY <1>2, <1>3 DEF Listed, Sent, Generation
<1>5. TableInv'
  BY <1>1, <1>2, <1>3, <1>4, Unknown, FrameTypes DEF FrameInv, TableInv
<1>6. ChannelInv'
  BY <1>1, <1>2, <1>3, Unknown DEF FrameInv, ChannelInv
<1>7. WireInv'
  BY <1>1, <1>2, <1>3, <1>4, Unknown, FrameTypes DEF FrameInv, WireInv
<1> QED BY <1>5, <1>6, <1>7 DEF FrameInv

LEMMA AddFrames ==
    ASSUME TypeOK, WorkerKnown, FrameInv, NEW r \in Reqs, AddJob(r)
    PROVE  FrameInv'
<1>1. ~Listed(r) /\ ~Sent(r) /\ via[r] \in Conns
  BY DEF AddJob, Listed, Sent, WorkerKnown, HasWorker
<1>2. /\ \A s \in Reqs : s # r => pc'[s] = pc[s]
      /\ pc'[r] = "send"
  BY DEF AddJob, Goto, TypeOK
<1>3. UNCHANGED <<evicting, sendOpen, held, work, outbox, endpoint, via>>
  BY DEF AddJob, linkVars
<1>4. /\ \A c \in Conns : jobs'[c] = IF c = via[r] THEN jobs[c] \cup {r} ELSE jobs[c]
      /\ \A s \in Reqs : chanOpen'[s] = IF s = r THEN TRUE ELSE chanOpen[s]
  BY <1>1 DEF AddJob, TypeOK, WorkerTypeOK
<1>5. /\ evicting = via[r] \/ ~sendOpen[via[r]] => r \in late'
      /\ \A s \in Reqs : s # r => (s \in late' <=> s \in late)
  BY DEF AddJob
<1>6. \A s \in Reqs : s # r => (Listed(s) => Listed(s)') /\ (Sent(s) => Sent(s)')
  BY <1>2, <1>3 DEF Listed, Sent, Generation
<1>7. TableInv'
  <2> SUFFICES ASSUME NEW c \in Conns, NEW s \in jobs'[c]
               PROVE  /\ via'[s] = c /\ Listed(s)' /\ chanOpen'[s]
                      /\ evicting' = c \/ ~sendOpen'[c] => s \in late'
    BY DEF TableInv
  <2>1. CASE s = r
    <3>1. c = via[r]
      BY <1>1, <1>4, <2>1, Unknown
    <3> QED BY <1>2, <1>3, <1>4, <1>5, <2>1, <3>1 DEF Listed
  <2>2. CASE s # r
    <3>1. s \in jobs[c] /\ s \in Reqs
      BY <1>4, <2>2, FrameTypes
    <3> QED BY <1>3, <1>4, <1>5, <1>6, <2>2, <3>1 DEF FrameInv, TableInv
  <2> QED BY <2>1, <2>2
<1>8. ChannelInv'
  BY <1>1, <1>3, <1>4 DEF FrameInv, ChannelInv
<1>9. WireInv'
  <2>1. \A c \in Conns, s \in Reqs : s # r => (s \in jobs'[c] <=> s \in jobs[c])
    BY <1>4
  <2> QED BY <1>1, <1>3, <1>6, <2>1, Unknown, FrameTypes DEF FrameInv, WireInv
<1> QED BY <1>7, <1>8, <1>9 DEF FrameInv

\* A message to the worker of a request that was sent, or is now.
LEMMA SendFrames ==
    ASSUME TypeOK, WorkerKnown, FrameInv, NEW r \in Reqs, NEW place, Goto(r, place),
           NEW cancel \in BOOLEAN, HasWorker(r),
           outbox' = [outbox EXCEPT ![via[r]] = Append(@, [req |-> r, cancel |-> cancel])],
           UNCHANGED <<endpoint, jobs, chanOpen, evicting, sendOpen, late, held, work, via>>,
           Listed(r)', Sent(r)'
    PROVE  FrameInv'
<1>1. \A s \in Reqs : s # r => pc'[s] = pc[s]
  BY DEF Goto, TypeOK
<1>2. \A s \in Reqs : (Listed(s) => Listed(s)') /\ (Sent(s) => Sent(s)')
  BY <1>1 DEF Listed, Sent, Generation
<1>3. TableInv'
  BY <1>2, FrameTypes DEF FrameInv, TableInv
<1>4. ChannelInv'
  BY DEF FrameInv, ChannelInv
<1>5. via[r] \in Conns
  BY DEF WorkerKnown
<1>6. (\A c \in Conns : \A i \in 1 .. Len(outbox[c]) :
         Sent(outbox[c][i].req) /\ via[outbox[c][i].req] = c)'
  <2> SUFFICES ASSUME NEW c \in Conns, NEW i \in 1 .. Len(outbox'[c])
               PROVE  (Sent(outbox[c][i].req) /\ via[outbox[c][i].req] = c)'
    OBVIOUS
  <2> DEFINE m == [req |-> r, cancel |-> cancel]
  <2>1. m \in [req : Reqs, cancel : BOOLEAN] /\ m.req = r
    OBVIOUS
  <2> HIDE DEF m
  <2>2. outbox' = [outbox EXCEPT ![via[r]] = Append(@, m)]
    BY DEF m
  <2>3. \/ c = via[r] /\ outbox'[c][i] = m
        \/ i \in 1 .. Len(outbox[c]) /\ outbox'[c][i] = outbox[c][i]
    BY <1>5, <2>1, <2>2, OutboxGrows
  <2>4. CASE c = via[r] /\ outbox'[c][i] = m
    BY <2>1, <2>4
  <2>5. CASE i \in 1 .. Len(outbox[c]) /\ outbox'[c][i] = outbox[c][i]
    BY <1>2, <2>5, FrameTypes DEF FrameInv, WireInv
  <2> QED BY <2>3, <2>4, <2>5
<1>7. WireInv'
  BY <1>2, <1>6, FrameTypes DEF FrameInv, WireInv
<1> QED BY <1>3, <1>4, <1>7 DEF FrameInv

\* RemoveJob: the channel is out of the table and closed, unless its end was
\* read and is being handed over.
LEMMA RemoveFrames ==
    ASSUME TypeOK, WorkerKnown, FrameInv, NEW r \in Reqs, NEW place, Goto(r, place),
           HasWorker(r), RemoveJob(via[r], r),
           UNCHANGED <<endpoint, evicting, sendOpen, late, held, work, outbox, via>>,
           Sent(r) => Sent(r)'
    PROVE  FrameInv'
<1>1. \A s \in Reqs : s # r => pc'[s] = pc[s]
  BY DEF Goto, TypeOK
<1>2. \A s \in Reqs : (s # r /\ Listed(s) => Listed(s)') /\ (Sent(s) => Sent(s)')
  BY <1>1 DEF Listed, Sent, Generation
<1>3. via[r] \in Conns
  BY DEF WorkerKnown
<1>4. /\ \A c \in Conns : jobs'[c] = IF c = via[r] THEN jobs[c] \ {r} ELSE jobs[c]
      /\ \A s \in Reqs : s # r => chanOpen'[s] = chanOpen[s]
      /\ chanOpen'[r] => chanOpen[r] /\ r \notin jobs[via[r]]
  BY <1>3 DEF RemoveJob, TypeOK, WorkerTypeOK
<1>5. TableInv'
  <2> SUFFICES ASSUME NEW c \in Conns, NEW s \in jobs'[c]
               PROVE  /\ via'[s] = c /\ Listed(s)' /\ chanOpen'[s]
                      /\ evicting' = c \/ ~sendOpen'[c] => s \in late'
    BY DEF TableInv
  <2>1. s \in jobs[c] /\ s \in Reqs
    BY <1>4, FrameTypes
  <2>2. s # r
    <3>1. via[s] = c
      BY <2>1 DEF FrameInv, TableInv
    <3>2. s \in jobs'[c] /\ r \notin jobs'[via[r]]
      BY <1>3, <1>4
    <3> QED BY <3>1, <3>2
  <2> QED BY <1>2, <1>4, <2>1, <2>2 DEF FrameInv, TableInv
<1>6. ChannelInv'
  <2> SUFFICES ASSUME NEW s \in Reqs, chanOpen'[s]
               PROVE  /\ via[s] \in Conns
                      /\ s \in jobs'[via[s]] \/ held[via[s]] = [req |-> s, end |-> TRUE]
    BY DEF ChannelInv
  <2>1. CASE s = r
    BY <1>4, <2>1 DEF FrameInv, ChannelInv
  <2>2. CASE s # r
    BY <1>4, <2>2 DEF FrameInv, ChannelInv
  <2> QED BY <2>1, <2>2
<1>7. WireInv'
  <2>1. \A c \in Conns : jobs'[c] \subseteq jobs[c]
    BY <1>4
  <2> QED BY <1>2, <2>1, FrameTypes DEF FrameInv, WireInv
<1> QED BY <1>5, <1>6, <1>7 DEF FrameInv

\* Where a handler may go that leaves tables, channels and Send alone.
MayMove(r, place) ==
    \/ pc[r] \in {"pick", "enter", "queued"}
    \/ pc[r] = "send" /\ place \in {"refused", "dead"}
    \/ pc[r] = "count" /\ (Generation(r) => place = "loop")
    \/ pc[r] = "loop" /\ place \in {"loop", "unjob"}
    \/ pc[r] = "uncount" /\ place = "over"

LEMMA RequestFrames ==
    ASSUME TypeOK, WorkerKnown, FrameInv, NEW r \in Reqs, RequestStep(r)
    PROVE  FrameInv'
<1> USE DEF workerVars, registryVars, linkVars, metricVars
<1>0. UNCHANGED endpoint
  BY RequestFrame
<1>1. ASSUME NEW place \in {"add", "count"}, Direct(r) \/ place = "add", Pick(r, place)
      PROVE  FrameInv'
  BY <1>1, PickFrames
<1>2. CASE AddJob(r)
  BY <1>2, AddFrames
<1>3. ASSUME NEW place, (Generation(r) /\ place = "count") \/ place = "loop", Send(r, place)
      PROVE  FrameInv'
  <2>1. pc[r] = "send" /\ Goto(r, place) /\ HasWorker(r)
    BY <1>3 DEF Send, HasWorker
  <2>2. Listed(r)' /\ Sent(r)'
    BY <1>0, <1>3, <2>1 DEF Goto, TypeOK, Listed, Sent, Generation
  <2>3. /\ outbox' = [outbox EXCEPT ![via[r]] = Append(@, [req |-> r, cancel |-> FALSE])]
        /\ UNCHANGED <<jobs, chanOpen, evicting, sendOpen, late, held, work, via>>
    BY <1>3 DEF Send
  <2> QED BY <1>0, <2>1, <2>2, <2>3, SendFrames
<1>4. CASE SendIsFull(r)
  <2>1. /\ \E place : Goto(r, place)
        /\ pc[r] = "send" /\ RemoveJob(via[r], r)
        /\ UNCHANGED <<evicting, sendOpen, late, held, work, outbox, via>>
    BY <1>4 DEF SendIsFull, Busy, NotDispatched
  <2>2. HasWorker(r) /\ ~Sent(r)
    BY <2>1 DEF HasWorker, Sent
  <2> QED BY <1>0, <2>1, <2>2, RemoveFrames
<1>5. CASE TakeBack(r)
  <2>1. /\ Goto(r, "uncount")
        /\ pc[r] = "refused" /\ RemoveJob(via[r], r)
        /\ UNCHANGED <<evicting, sendOpen, late, held, work, outbox, via>>
    BY <1>5 DEF TakeBack
  <2>2. HasWorker(r) /\ ~Sent(r)
    BY <2>1 DEF HasWorker, Sent
  <2> QED BY <1>0, <2>1, <2>2, RemoveFrames
<1>6. CASE Unjob(r)
  <2>1. /\ Goto(r, "uncount")
        /\ pc[r] = "unjob" /\ RemoveJob(via[r], r)
        /\ UNCHANGED <<evicting, sendOpen, late, held, work, outbox, via>>
    BY <1>6 DEF Unjob
  <2>2. HasWorker(r) /\ Sent(r)'
    BY <2>1 DEF HasWorker, Sent, Goto, TypeOK
  <2> QED BY <1>0, <2>1, <2>2, RemoveFrames
<1>7. CASE Abandon(r)
  <2>1. /\ Goto(r, "unjob") /\ pc[r] = "loop"
        /\ UNCHANGED <<jobs, chanOpen, evicting, sendOpen, late, held, work, via>>
    BY <1>7 DEF Abandon
  <2>2. HasWorker(r) /\ Listed(r)' /\ Sent(r)'
    BY <2>1 DEF HasWorker, Listed, Sent, Goto, TypeOK
  <2>3. CASE outbox' = outbox
    BY <1>0, <2>1, <2>2, <2>3, MoveOn DEF frameVars
  <2>4. CASE outbox' = [outbox EXCEPT ![via[r]] = Append(@, [req |-> r, cancel |-> TRUE])]
    BY <1>0, <2>1, <2>2, <2>4, SendFrames
  <2> QED BY <1>7, <2>3, <2>4 DEF Abandon, OfferCancel
<1>8. ASSUME UNCHANGED frameVars, NEW place, Goto(r, place), MayMove(r, place)
      PROVE  FrameInv'
  <2>1. pc'[r] = place
    BY <1>8 DEF Goto, TypeOK
  <2>2. (Listed(r) => Listed(r)') /\ (Sent(r) => Sent(r)')
    BY <1>0, <1>8, <2>1 DEF MayMove, Listed, Sent, Generation, Direct
  <2> QED BY <1>0, <1>8, <2>2, MoveOn
<1>9. CASE PickNone(r)
  BY <1>8, <1>9 DEF PickNone, CannotPick, NotDispatched, MayMove, frameVars
<1>10. ASSUME NEW place \in {"refused", "dead"}, SendPanics(r, place) PROVE FrameInv'
  BY <1>8, <1>10 DEF SendPanics, MayMove, frameVars
<1>11. CASE Generation(r) /\ Count(r)
  BY <1>8, <1>11 DEF Count, MayMove, frameVars
<1>12. CASE EnterQueue(r)
  BY <1>8, <1>12 DEF EnterQueue, MayMove, frameVars
<1>13. CASE Retry(r)
  BY <1>8, <1>13 DEF Retry, MayMove, frameVars
<1>14. CASE LeaveQueue(r)
  BY <1>8, <1>14 DEF LeaveQueue, MayMove, frameVars
<1>15. CASE RefuseBody(r)
  BY <1>8, <1>15 DEF RefuseBody, MayMove, frameVars
<1>16. CASE RefuseUnserved(r)
  BY <1>8, <1>16 DEF RefuseUnserved, CannotPick, MayMove, frameVars
<1>17. CASE Direct(r) /\ Charge(r)
  BY <1>8, <1>17 DEF Charge, Direct, MayMove, frameVars
<1>18. CASE RefuseBusy(r)
  BY <1>8, <1>18 DEF RefuseBusy, Busy, MayMove, frameVars
<1>19. CASE ReadFrame(r)
  <2>1. pc[r] = "loop" /\ (Goto(r, "loop") \/ Goto(r, "unjob")) /\ UNCHANGED frameVars
    BY <1>19 DEF ReadFrame, frameVars
  <2> QED BY <1>8, <2>1 DEF MayMove
<1>20. CASE ReadClosed(r)
  BY <1>8, <1>20 DEF ReadClosed, MayMove, frameVars
<1>21. CASE Uncount(r)
  BY <1>8, <1>21 DEF Uncount, MayMove, frameVars
<1>22. CASE Generation(r) /\ TryDispatch(r)
  BY <1>1, <1>2, <1>3, <1>4, <1>9, <1>10, <1>11, <1>22 DEF TryDispatch
<1>23. CASE WaitForTurn(r)
  BY <1>12, <1>13, <1>14, <1>23 DEF WaitForTurn
<1>24. CASE Direct(r) /\ DispatchAtOnce(r)
  BY <1>1, <1>2, <1>3, <1>5, <1>10, <1>16, <1>17, <1>18, <1>24 DEF DispatchAtOnce
<1>25. CASE Proxy(r)
  BY <1>6, <1>7, <1>19, <1>20, <1>21, <1>25 DEF Proxy
<1> QED BY <1>15, <1>22, <1>23, <1>24, <1>25 DEF RequestStep, GenerationStep, DirectStep

\* What connections, prunes and CloseSend do with them.
LEMMA EvictFrames ==
    ASSUME TypeOK, FrameInv, Unlocked, NEW id \in Ids, Evict(id),
           UNCHANGED <<held, work, outbox, proxyVars>>
    PROVE  FrameInv'
<1>0. UNCHANGED <<endpoint, pc, via, late>>
  BY DEF proxyVars
<1>1. CASE entry[id] = NoConn
  <2>1. UNCHANGED <<jobs, chanOpen, evicting, sendOpen>>
    BY <1>1 DEF Evict, registryVars
  <2> QED BY <1>0, <2>1 DEF FrameInv, TableInv, ChannelInv, WireInv, Listed, Sent, Generation
<1>2. CASE entry[id] # NoConn
  <2> DEFINE w == entry[id]
  <2>1. w \in Conns
    BY <1>2 DEF TypeOK, WorkerTypeOK
  <2>2. /\ evicting' = w /\ UNCHANGED sendOpen
        /\ jobs' = [jobs EXCEPT ![w] = {}]
        /\ chanOpen' = [r \in Reqs |-> chanOpen[r] /\ r \notin jobs[w]]
    BY <1>2 DEF Evict
  <2> HIDE DEF w
  <2>3. \A c \in Conns : jobs'[c] = IF c = w THEN {} ELSE jobs[c]
    BY <2>1, <2>2 DEF TypeOK, WorkerTypeOK
  <2>4. \A r \in Reqs : chanOpen'[r] <=> chanOpen[r] /\ r \notin jobs[w]
    BY <2>2
  <2>5. \A r : (Listed(r)' <=> Listed(r)) /\ (Sent(r)' <=> Sent(r))
    BY <1>0 DEF Listed, Sent, Generation
  <2>6. TableInv'
    <3> SUFFICES ASSUME NEW c \in Conns, NEW r \in jobs'[c]
                 PROVE  /\ via'[r] = c /\ Listed(r)' /\ chanOpen'[r]
                        /\ evicting' = c \/ ~sendOpen'[c] => r \in late'
      BY DEF TableInv
    <3>1. c # w /\ r \in jobs[c] /\ r \in Reqs
      BY <2>3, FrameTypes
    <3>2. /\ via[r] = c /\ Listed(r) /\ chanOpen[r]
          /\ evicting = c \/ ~sendOpen[c] => r \in late
      BY <3>1 DEF FrameInv, TableInv
    <3>3. r \notin jobs[w]
      BY <2>1, <3>1, <3>2 DEF FrameInv, TableInv
    <3> QED BY <1>0, <2>2, <2>4, <2>5, <3>1, <3>2, <3>3
  <2>7. ChannelInv'
    <3> SUFFICES ASSUME NEW r \in Reqs, chanOpen'[r]
                 PROVE  /\ via[r] \in Conns
                        /\ r \in jobs'[via[r]] \/ held[via[r]] = [req |-> r, end |-> TRUE]
      BY <1>0 DEF ChannelInv
    <3> QED BY <2>3, <2>4 DEF FrameInv, ChannelInv
  <2>8. WireInv'
    <3>1. \A c \in Conns : jobs'[c] \subseteq jobs[c]
      BY <2>3
    <3> QED BY <1>0, <2>5, <3>1 DEF FrameInv, WireInv
  <2> QED BY <2>6, <2>7, <2>8 DEF FrameInv
<1> QED BY <1>1, <1>2

LEMMA WriteFrames ==
    ASSUME TypeOK, FrameInv, NEW c \in Conns, Write(c), UNCHANGED proxyVars
    PROVE  FrameInv'
<1>1. UNCHANGED <<endpoint, pc, via, late, jobs, chanOpen, evicting, sendOpen, held>>
  BY DEF Write, registryVars, proxyVars
<1>2. /\ outbox[c] # <<>> /\ outbox' = [outbox EXCEPT ![c] = Tail(@)]
      /\ work' = [work EXCEPT ![c] = IF Head(outbox[c]).cancel THEN @
                                     ELSE @ \cup {Head(outbox[c]).req}]
  BY DEF Write
<1>3. \A d \in Conns : \A i \in 1 .. Len(outbox'[d]) :
        \E k \in 1 .. Len(outbox[d]) : outbox'[d][i] = outbox[d][k]
  BY <1>2, OutboxShrinks
<1>4. PICK k \in 1 .. Len(outbox[c]) : Head(outbox[c]) = outbox[c][k]
  BY <1>2, OutboxShrinks
<1>5. Sent(Head(outbox[c]).req) /\ via[Head(outbox[c]).req] = c
  BY <1>4 DEF FrameInv, WireInv
<1>6. \A d \in Conns : \A r \in work'[d] :
        r \in work[d] \/ (d = c /\ r = Head(outbox[c]).req)
  BY <1>2 DEF TypeOK, WorkerTypeOK
<1>7. \A r : (Listed(r)' <=> Listed(r)) /\ (Sent(r)' <=> Sent(r))
  BY <1>1 DEF Listed, Sent, Generation
<1>8. TableInv' /\ ChannelInv'
  BY <1>1, <1>7 DEF FrameInv, TableInv, ChannelInv
<1>9. WireInv'
  <2> SUFFICES ASSUME NEW d \in Conns
               PROVE  /\ (\A i \in 1 .. Len(outbox[d]) :
                            Sent(outbox[d][i].req) /\ via[outbox[d][i].req] = d)'
                      /\ (\A r \in work[d] : Sent(r) /\ via[r] = d)'
                      /\ (held[d] # NoFrame =>
                            LET r == held[d].req
                            IN  Sent(r) /\ via[r] = d /\ (held[d].end => r \notin jobs[d]))'
    BY DEF WireInv
  <2>1. (\A i \in 1 .. Len(outbox[d]) :
           Sent(outbox[d][i].req) /\ via[outbox[d][i].req] = d)'
    BY <1>1, <1>3, <1>7 DEF FrameInv, WireInv
  <2>2. (\A r \in work[d] : Sent(r) /\ via[r] = d)'
    BY <1>1, <1>5, <1>6, <1>7 DEF FrameInv, WireInv
  <2>3. (held[d] # NoFrame =>
           LET r == held[d].req
           IN  Sent(r) /\ via[r] = d /\ (held[d].end => r \notin jobs[d]))'
    BY <1>1, <1>7 DEF FrameInv, WireInv
  <2> QED BY <2>1, <2>2, <2>3
<1> QED BY <1>8, <1>9 DEF FrameInv

\* A read loop finds a request it has a frame of in the table, or drops it.
LEMMA ReadFrames ==
    ASSUME TypeOK, FrameInv, NEW c \in Conns, NEW r \in Reqs,
           ReadPart(c, r) \/ ReadEnd(c, r), UNCHANGED proxyVars
    PROVE  FrameInv'
<1>1. UNCHANGED <<endpoint, pc, via, late, chanOpen, evicting, sendOpen, outbox>>
  BY DEF ReadPart, ReadEnd, registryVars, proxyVars
<1>2. PICK last \in BOOLEAN :
        /\ held' = [held EXCEPT ![c] =
                      IF r \in jobs[c] THEN [req |-> r, end |-> last] ELSE NoFrame]
        /\ jobs' = IF last THEN [jobs EXCEPT ![c] = @ \ {r}] ELSE jobs
  BY DEF ReadPart, ReadEnd, registryVars
<1>3. held[c] = NoFrame /\ r \in work[c] /\ \A d \in Conns : work'[d] \subseteq work[d]
  BY DEF ReadPart, ReadEnd, TypeOK, WorkerTypeOK
<1>4. Sent(r) /\ via[r] = c
  BY <1>3 DEF FrameInv, WireInv
<1>5. /\ held'[c] = IF r \in jobs[c] THEN [req |-> r, end |-> last] ELSE NoFrame
      /\ \A d \in Conns : d # c => held'[d] = held[d]
  BY <1>2 DEF TypeOK, WorkerTypeOK
<1>6. \A d \in Conns : jobs'[d] = IF d = c /\ last THEN jobs[d] \ {r} ELSE jobs[d]
  BY <1>2 DEF TypeOK, WorkerTypeOK
<1>7. \A s : (Listed(s)' <=> Listed(s)) /\ (Sent(s)' <=> Sent(s))
  BY <1>1 DEF Listed, Sent, Generation
<1>8. \A d \in Conns : jobs'[d] \subseteq jobs[d]
  BY <1>6
<1>9. TableInv'
  BY <1>1, <1>7, <1>8 DEF FrameInv, TableInv
<1>10. ChannelInv'
  <2> SUFFICES ASSUME NEW s \in Reqs, chanOpen[s]
               PROVE  /\ via[s] \in Conns
                      /\ s \in jobs'[via[s]] \/ held'[via[s]] = [req |-> s, end |-> TRUE]
    BY <1>1 DEF ChannelInv
  <2>1. /\ via[s] \in Conns
        /\ s \in jobs[via[s]] \/ held[via[s]] = [req |-> s, end |-> TRUE]
    BY DEF FrameInv, ChannelInv
  <2>2. CASE s \in jobs[via[s]] /\ via[s] = c /\ s = r
    BY <1>5, <1>6, <2>2
  <2>3. CASE s \in jobs[via[s]] /\ ~(via[s] = c /\ s = r)
    BY <1>6, <2>1, <2>3
  <2>4. CASE held[via[s]] = [req |-> s, end |-> TRUE]
    <3>1. via[s] # c
      BY <1>3, <2>4, Constants
    <3> QED BY <1>5, <2>1, <2>4, <3>1
  <2> QED BY <2>1, <2>2, <2>3, <2>4
<1>11. WireInv'
  <2> SUFFICES ASSUME NEW d \in Conns
               PROVE  /\ (\A i \in 1 .. Len(outbox[d]) :
                            Sent(outbox[d][i].req) /\ via[outbox[d][i].req] = d)'
                      /\ (\A s \in work[d] : Sent(s) /\ via[s] = d)'
                      /\ (held[d] # NoFrame =>
                            LET s == held[d].req
                            IN  Sent(s) /\ via[s] = d /\ (held[d].end => s \notin jobs[d]))'
    BY DEF WireInv
  <2>1. (\A i \in 1 .. Len(outbox[d]) :
           Sent(outbox[d][i].req) /\ via[outbox[d][i].req] = d)'
    BY <1>1, <1>7 DEF FrameInv, WireInv
  <2>2. (\A s \in work[d] : Sent(s) /\ via[s] = d)'
    BY <1>1, <1>3, <1>7 DEF FrameInv, WireInv
  <2>3. (held[d] # NoFrame =>
           LET s == held[d].req
           IN  Sent(s) /\ via[s] = d /\ (held[d].end => s \notin jobs[d]))'
    <3>1. CASE d = c
      <4>1. held'[c] # NoFrame => held'[c] = [req |-> r, end |-> last]
        BY <1>5
      <4>2. last => r \notin jobs'[c]
        BY <1>6
      <4> QED BY <1>1, <1>4, <1>7, <3>1, <4>1, <4>2
    <3>2. CASE d # c
      BY <1>1, <1>5, <1>7, <1>8, <3>2 DEF FrameInv, WireInv
    <3> QED BY <3>1, <3>2
  <2> QED BY <2>1, <2>2, <2>3
<1> QED BY <1>9, <1>10, <1>11 DEF FrameInv

\* The frame in hand goes into its channel, which an end closes, or the read
\* loop dies of the close.
LEMMA HandOverFrames ==
    ASSUME TypeOK, FrameInv, NEW c \in Conns, Deliver(c) \/ PanicOnClosed(c),
           UNCHANGED proxyVars
    PROVE  FrameInv'
<1> DEFINE r == held[c].req
<1>1. /\ UNCHANGED <<endpoint, pc, via, late, jobs, evicting, sendOpen, outbox, work>>
      /\ held[c] # NoFrame /\ held' = [held EXCEPT ![c] = NoFrame]
  BY DEF Deliver, PanicOnClosed, registryVars, proxyVars
<1>2. r \in Reqs /\ Sent(r) /\ via[r] = c /\ (held[c].end => r \notin jobs[c])
  BY <1>1, FrameTypes DEF FrameInv, WireInv
<1>3. \/ ~chanOpen[r] /\ UNCHANGED chanOpen
      \/ chanOpen[r] /\ chanOpen' = [chanOpen EXCEPT ![r] = ~held[c].end]
  BY DEF Deliver, PanicOnClosed, registryVars
<1> HIDE DEF r
<1>4. /\ \A s \in Reqs : s # r => chanOpen'[s] = chanOpen[s]
      /\ chanOpen'[r] => chanOpen[r] /\ ~held[c].end
      /\ chanOpen[r] /\ ~held[c].end => chanOpen'[r]
  BY <1>2, <1>3 DEF TypeOK, WorkerTypeOK
<1>5. /\ held'[c] = NoFrame
      /\ \A d \in Conns : d # c => held'[d] = held[d]
  BY <1>1 DEF TypeOK, WorkerTypeOK
<1>6. \A s : (Listed(s)' <=> Listed(s)) /\ (Sent(s)' <=> Sent(s))
  BY <1>1 DEF Listed, Sent, Generation
<1>7. TableInv'
  <2> SUFFICES ASSUME NEW d \in Conns, NEW s \in jobs[d]
               PROVE  chanOpen'[s]
    BY <1>1, <1>6 DEF FrameInv, TableInv
  <2>1. s \in Reqs /\ via[s] = d /\ chanOpen[s]
    BY FrameTypes DEF FrameInv, TableInv
  <2>2. CASE s = r
    BY <1>2, <1>4, <2>1, <2>2
  <2>3. CASE s # r
    BY <1>4, <2>1, <2>3
  <2> QED BY <2>2, <2>3
<1>8. ChannelInv'
  <2> SUFFICES ASSUME NEW s \in Reqs, chanOpen'[s]
               PROVE  /\ via[s] \in Conns
                      /\ s \in jobs[via[s]] \/ held'[via[s]] = [req |-> s, end |-> TRUE]
    BY <1>1 DEF ChannelInv
  <2>1. /\ via[s] \in Conns /\ chanOpen[s]
        /\ s \in jobs[via[s]] \/ held[via[s]] = [req |-> s, end |-> TRUE]
    BY <1>4 DEF FrameInv, ChannelInv
  <2>2. ASSUME held[via[s]] = [req |-> s, end |-> TRUE] PROVE via[s] # c
    <3>1. held[via[s]].req = s /\ held[via[s]].end = TRUE
      BY <2>2
    <3>2. s = r => ~held[c].end
      BY <1>4
    <3> QED BY <1>2, <3>1, <3>2 DEF r
  <2> QED BY <1>5, <2>1, <2>2
<1>9. WireInv'
  <2> SUFFICES ASSUME NEW d \in Conns
               PROVE  (held[d] # NoFrame =>
                         LET s == held[d].req
                         IN  Sent(s) /\ via[s] = d /\ (held[d].end => s \notin jobs[d]))'
    BY <1>1, <1>6 DEF FrameInv, WireInv
  <2> QED BY <1>1, <1>5, <1>6 DEF FrameInv, WireInv
<1> QED BY <1>7, <1>8, <1>9 DEF FrameInv

\* Only channels that were added late are left when Send is closed.
LEMMA CloseFrames ==
    ASSUME TypeOK, FrameInv, CloseSend, UNCHANGED proxyVars
    PROVE  FrameInv'
<1>1. UNCHANGED <<endpoint, pc, via, late, jobs, chanOpen, held, outbox, work>>
  BY DEF CloseSend, linkVars, proxyVars
<1>2. /\ evicting \in Conns /\ evicting' = NoConn
      /\ \A c \in Conns : c # evicting => sendOpen'[c] = sendOpen[c]
  BY DEF CloseSend, Unlocked, TypeOK, WorkerTypeOK
<1>3. \A s : (Listed(s)' <=> Listed(s)) /\ (Sent(s)' <=> Sent(s))
  BY <1>1 DEF Listed, Sent, Generation
<1>4. TableInv'
  BY <1>1, <1>2, <1>3, Constants DEF FrameInv, TableInv
<1>5. ChannelInv' /\ WireInv'
  BY <1>1, <1>3 DEF FrameInv, ChannelInv, WireInv
<1> QED BY <1>4, <1>5 DEF FrameInv

LEMMA FrameStep ==
    ASSUME TypeOK, WorkerKnown, FrameInv, [Next]_vars
    PROVE  FrameInv'
<1> USE DEF registryVars, linkVars
<1>1. ASSUME NEW r \in Reqs, RequestStep(r) PROVE FrameInv'
  BY <1>1, RequestFrames
<1>2. ASSUME UNCHANGED <<jobs, chanOpen, evicting, sendOpen, held, work, outbox, proxyVars>>
      PROVE  FrameInv'
  BY <1>2 DEF FrameInv, TableInv, ChannelInv, WireInv, Listed, Sent, Generation, proxyVars
<1>3. CASE Environment /\ UNCHANGED proxyVars
  <2>1. ASSUME NEW c \in Conns, Register(c) PROVE FrameInv'
    BY <1>2, <1>3, <2>1 DEF Register
  <2>2. ASSUME NEW c \in Conns, Write(c) PROVE FrameInv'
    BY <1>3, <2>2, WriteFrames
  <2>3. ASSUME NEW c \in Conns, StatusUpdate(c) \/ Break(c) PROVE FrameInv'
    BY <1>2, <1>3, <2>3 DEF StatusUpdate, Break
  <2>4. ASSUME NEW c \in Conns, Deliver(c) \/ PanicOnClosed(c) PROVE FrameInv'
    BY <1>3, <2>4, HandOverFrames
  <2>5. ASSUME NEW c \in Conns, NEW r \in Reqs, ReadPart(c, r) \/ ReadEnd(c, r)
        PROVE  FrameInv'
    BY <1>3, <2>5, ReadFrames
  <2>6. ASSUME NEW c \in Conns, Deregister(c) PROVE FrameInv'
    BY <1>3, <2>6, Constants, EvictFrames DEF Deregister
  <2>7. ASSUME NEW c \in Conns, HangUp(c) PROVE FrameInv'
    <3>1. UNCHANGED <<endpoint, pc, via, late, jobs, chanOpen, evicting, sendOpen, held, outbox>>
      BY <1>3, <2>7 DEF HangUp, proxyVars
    <3>2. \A d \in Conns : work'[d] \subseteq work[d]
      BY <2>7 DEF HangUp, TypeOK, WorkerTypeOK
    <3>3. \A s : (Listed(s)' <=> Listed(s)) /\ (Sent(s)' <=> Sent(s))
      BY <3>1 DEF Listed, Sent, Generation
    <3> QED BY <3>1, <3>2, <3>3 DEF FrameInv, TableInv, ChannelInv, WireInv
  <2>8. ASSUME NEW id \in Ids, Prune(id) PROVE FrameInv'
    BY <1>3, <2>8, EvictFrames DEF Prune
  <2>9. CASE CloseSend
    BY <1>3, <2>9, CloseFrames
  <2> QED BY <1>3, <2>1, <2>2, <2>3, <2>4, <2>5, <2>6, <2>7, <2>8, <2>9
          DEF Environment, ReadLoop
<1>4. CASE UNCHANGED vars
  BY <1>2, <1>4 DEF vars, workerVars
<1> QED BY <1>1, <1>3, <1>4, StepKinds

-----------------------------------------------------------------------------
(* The theorems but for the counts.                                        *)

ProxyInv == TypeOK /\ WorkerKnown /\ QueueInv /\ RegistryInv /\ FrameInv

LEMMA InitProxyInv == Init => ProxyInv
<1> SUFFICES ASSUME Init PROVE ProxyInv
  OBVIOUS
<1>1. TypeOK
  BY MixesAssumption DEF Init, WorkerInit, TypeOK, WorkerTypeOK, Places, Unlisted
<1>2. WorkerKnown
  BY Constants DEF Init, WorkerKnown, HasWorker
<1>3. QueueInv
  BY QueueCapAssumption DEF Init, QueueInv, Distinct, Range
<1>4. RegistryInv
  BY Constants DEF Init, WorkerInit, RegistryInv
<1>5. FrameInv
  BY Constants DEF Init, WorkerInit, FrameInv, TableInv, ChannelInv, WireInv
<1> QED BY <1>1, <1>2, <1>3, <1>4, <1>5 DEF ProxyInv

LEMMA ProxyInvariant == Spec => []ProxyInv
<1>1. ProxyInv /\ [Next]_vars => ProxyInv'
  BY TypeStep, WorkerKnownStep, QueueStep, RegistryStep, FrameStep DEF ProxyInv
<1> QED BY <1>1, InitProxyInv, PTL DEF Spec

\* Every variable of the registry, the connections and the handlers keeps its
\* type.
THEOREM ProxyTypes == Spec => []TypeOK
<1>1. ProxyInv => TypeOK
  BY DEF ProxyInv
<1> QED BY <1>1, ProxyInvariant, PTL

\* No channel and no Send is closed twice: who closes one finds it open.
THEOREM ChannelsAreClosedOnce == Spec => []ClosedOnce
<1>1. ProxyInv => ClosedOnce
  <2> SUFFICES ASSUME ProxyInv PROVE ClosedOnce
    OBVIOUS
  <2>1. \A c \in Conns : IsRegistered(c) => sendOpen[c]
    BY Constants DEF ProxyInv, RegistryInv, IsRegistered
  <2>2. \A c \in Conns : \A r \in jobs[c] : chanOpen[r]
    BY DEF ProxyInv, FrameInv, TableInv
  <2> QED BY <2>1, <2>2 DEF ClosedOnce
<1> QED BY <1>1, ProxyInvariant, PTL

\* A read loop that waits with a part in hand waits for a handler that reads,
\* or that is about to close the channel.
THEOREM BlockedReadLoopsHaveReaders == Spec => []BlockedHasReader
<1>1. ProxyInv => BlockedHasReader
  <2> SUFFICES ASSUME ProxyInv, NEW c \in Conns, held[c] # NoFrame, ~held[c].end,
                      chanOpen[held[c].req]
               PROVE  pc[held[c].req] \in {"count", "loop", "unjob"}
    BY DEF BlockedHasReader
  <2> DEFINE r == held[c].req
  <2>1. r \in Reqs /\ Sent(r) /\ via[r] = c
    BY FrameTypes DEF ProxyInv, FrameInv, WireInv
  <2>2. held[c] # [req |-> r, end |-> TRUE]
    OBVIOUS
  <2> HIDE DEF r
  <2>3. r \in jobs[c]
    BY <2>1, <2>2 DEF ProxyInv, FrameInv, ChannelInv, r
  <2>4. Listed(r)
    BY <2>3 DEF ProxyInv, FrameInv, TableInv
  <2> QED BY <2>1, <2>4 DEF Listed, Sent, r
<1> QED BY <1>1, ProxyInvariant, PTL

\* The channel a handler waits on will be closed by a read loop or by the
\* registry, unless it was registered too late.
THEOREM WaitersHaveClosers == Spec => []WaiterHasCloser
<1>1. ProxyInv => WaiterHasCloser
  BY DEF ProxyInv, FrameInv, TableInv, ChannelInv, WaiterHasCloser
<1> QED BY <1>1, ProxyInvariant, PTL

\* The completion queue holds waiting generation requests, each once, within
\* its capacity.
THEOREM TheQueueHoldsWaiters == Spec => []QueueHoldsWaiters
<1>1. ProxyInv => QueueHoldsWaiters
  <2>1. ASSUME TypeOK PROVE DOMAIN queue = 1 .. Len(queue)
    BY <2>1 DEF TypeOK
  <2> QED BY <2>1 DEF ProxyInv, QueueInv, QueueHoldsWaiters, Distinct
<1> QED BY <1>1, ProxyInvariant, PTL

-----------------------------------------------------------------------------
(* The counts.                                                             *)

\* Handlers that are counted, and sets that one of them enters or leaves.
LEMMA CountIn ==
    ASSUME NEW S, IsFiniteSet(S), NEW r, r \notin S
    PROVE  /\ IsFiniteSet(S \cup {r})
           /\ Cardinality(S) \in Nat
           /\ Cardinality(S \cup {r}) = Cardinality(S) + 1
  BY FS_AddElement, FS_CardinalityType

LEMMA CountOut ==
    ASSUME NEW S, IsFiniteSet(S), NEW r \in S
    PROVE  /\ IsFiniteSet(S \ {r})
           /\ Cardinality(S) \in Nat /\ Cardinality(S) > 0
           /\ Cardinality(S \ {r}) = Cardinality(S) - 1
<1>1. /\ IsFiniteSet(S \ {r}) /\ Cardinality(S) \in Nat
      /\ Cardinality(S \ {r}) \in Nat
      /\ Cardinality(S \ {r}) = Cardinality(S) - 1
  BY FS_RemoveElement, FS_CardinalityType
<1> QED BY <1>1

LEMMA CountedForFinite ==
    ASSUME IsFiniteSet(CountedSet), NEW id
    PROVE  IsFiniteSet(CountedFor(id)) /\ Cardinality(CountedFor(id)) \in Nat
<1>1. CountedFor(id) \subseteq CountedSet
  BY DEF CountedFor, CountedSet
<1> QED BY <1>1, FS_Subset, FS_CardinalityType

LEMMA RunningForFinite ==
    ASSUME IsFiniteSet(RunningSet), NEW id
    PROVE  IsFiniteSet(RunningFor(id)) /\ Cardinality(RunningFor(id)) \in Nat
<1>1. RunningFor(id) \subseteq RunningSet
  BY DEF RunningFor
<1> QED BY <1>1, FS_Subset, FS_CardinalityType

\* A step of a handler counts its request in, or out, or leaves the counts.
CountsIn(r) ==
    UNCHANGED via /\ pc[r] = "count" /\ ~Counted(r) /\ Counted(r)' /\ Inc(r)

CountsOut(r) == UNCHANGED via /\ Counted(r) /\ ~Counted(r)' /\ Dec(r)

CountsNot(r) ==
    /\ UNCHANGED inflight
    /\ Counted(r)' <=> Counted(r)
    /\ Counted(r) => UNCHANGED via

LEMMA CountMoves ==
    ASSUME TypeOK, NEW r \in Reqs, RequestStep(r)
    PROVE  CountsIn(r) \/ CountsOut(r) \/ CountsNot(r)
<1> USE DEF workerVars, TypeOK
<1>0. UNCHANGED endpoint
  BY RequestFrame
<1>1. ASSUME NEW place, Goto(r, place), UNCHANGED inflight,
             Counted(r) => UNCHANGED via,
             \/ pc[r] \in {"pick", "enter", "queued"} /\
                  place \in {"pick", "enter", "queued", "over", "count"}
             \/ Generation(r) /\ pc[r] \in {"pick", "add", "send"}
                  /\ place \in {"add", "send", "count", "enter", "queued", "dead"}
             \/ Direct(r) /\ pc[r] \in {"add", "send", "refused"}
                  /\ place \in {"send", "loop", "refused", "uncount"}
             \/ pc[r] \in {"loop", "unjob"} /\ place \in {"loop", "unjob", "uncount"}
      PROVE  CountsNot(r)
  <2>1. pc'[r] = place
    BY <1>1 DEF Goto
  <2>2. Counted(r)' <=> Counted(r)
    BY <1>0, <1>1, <2>1 DEF Counted, Direct, Generation
  <2> QED BY <1>1, <2>2 DEF CountsNot
<1>2. CASE Generation(r) /\ TryDispatch(r)
  <2>1. ASSUME Pick(r, "add") PROVE CountsNot(r)
    <3>1. pc[r] = "pick" /\ Goto(r, "add") /\ UNCHANGED inflight /\ ~Counted(r)
      BY <1>2, <2>1 DEF Pick, Counted, Direct
    <3> QED BY <1>1, <1>2, <3>1
  <2>2. CASE PickNone(r)
    BY <1>1, <2>2 DEF PickNone, CannotPick, NotDispatched
  <2>3. CASE AddJob(r)
    BY <1>1, <1>2, <2>3 DEF AddJob
  <2>4. CASE Send(r, "count")
    BY <1>1, <1>2, <2>4 DEF Send
  <2>5. CASE SendIsFull(r)
    BY <1>1, <1>2, <2>5 DEF SendIsFull, Busy, NotDispatched
  <2>6. CASE SendPanics(r, "dead")
    BY <1>1, <1>2, <2>6 DEF SendPanics
  <2>7. CASE Count(r)
    <3>1. pc[r] = "count" /\ pc'[r] = "loop" /\ UNCHANGED via /\ Inc(r)
      BY <2>7 DEF Count, Goto
    <3> QED BY <1>2, <3>1 DEF CountsIn, Counted, Direct
  <2> QED BY <1>2, <2>1, <2>2, <2>3, <2>4, <2>5, <2>6, <2>7 DEF TryDispatch
<1>3. CASE WaitForTurn(r)
  BY <1>1, <1>3 DEF WaitForTurn, EnterQueue, Retry, LeaveQueue
<1>4. CASE RefuseBody(r)
  BY <1>1, <1>4 DEF RefuseBody
<1>5. CASE Direct(r) /\ DispatchAtOnce(r)
  <2>1. ASSUME Pick(r, "count") PROVE CountsNot(r)
    <3>1. pc[r] = "pick" /\ Goto(r, "count") /\ UNCHANGED inflight /\ ~Counted(r)
      BY <2>1 DEF Pick, Counted
    <3> QED BY <1>1, <3>1
  <2>2. CASE RefuseUnserved(r)
    BY <1>1, <2>2 DEF RefuseUnserved, CannotPick
  <2>3. CASE Charge(r)
    <3>1. pc[r] = "count" /\ pc'[r] = "add" /\ UNCHANGED via /\ Inc(r)
      BY <2>3 DEF Charge, Goto
    <3> QED BY <1>0, <1>5, <3>1 DEF CountsIn, Counted, Direct, Generation
  <2>4. CASE AddJob(r)
    BY <1>1, <1>5, <2>4 DEF AddJob
  <2>5. CASE Send(r, "loop")
    BY <1>1, <1>5, <2>5 DEF Send
  <2>6. CASE RefuseBusy(r)
    BY <1>1, <1>5, <2>6 DEF RefuseBusy, Busy
  <2>7. CASE SendPanics(r, "refused")
    BY <1>1, <1>5, <2>7 DEF SendPanics
  <2>8. CASE TakeBack(r)
    BY <1>1, <1>5, <2>8 DEF TakeBack
  <2> QED BY <1>5, <2>1, <2>2, <2>3, <2>4, <2>5, <2>6, <2>7, <2>8 DEF DispatchAtOnce
<1>6. CASE Proxy(r)
  <2>1. CASE Abandon(r)
    BY <1>1, <2>1 DEF Abandon
  <2>2. CASE ReadFrame(r)
    BY <1>1, <2>2 DEF ReadFrame
  <2>3. CASE ReadClosed(r)
    BY <1>1, <2>3 DEF ReadClosed
  <2>4. CASE Unjob(r)
    BY <1>1, <2>4 DEF Unjob
  <2>5. CASE Uncount(r)
    <3>1. pc[r] = "uncount" /\ pc'[r] = "over" /\ UNCHANGED via /\ Dec(r)
      BY <2>5 DEF Uncount, Goto
    <3> QED BY <3>1 DEF CountsOut, Counted
  <2> QED BY <1>6, <2>1, <2>2, <2>3, <2>4, <2>5 DEF Proxy
<1> QED BY <1>2, <1>3, <1>4, <1>5, <1>6 DEF RequestStep, GenerationStep, DirectStep

\* The other handlers stand where they stood.
LEMMA OthersStay ==
    ASSUME TypeOK, NEW r \in Reqs, RequestStep(r)
    PROVE  \A s \in Reqs : s # r =>
             /\ via'[s] = via[s]
             /\ Counted(s)' <=> Counted(s)
             /\ Running(s)' <=> Running(s)
<1>1. UNCHANGED endpoint /\ \A s \in Reqs : s # r => pc'[s] = pc[s]
  BY RequestFrame DEF Goto, TypeOK
<1>2. \A s \in Reqs : s # r => via'[s] = via[s]
  <2>1. CASE UNCHANGED via
    BY <2>1
  <2>2. ASSUME NEW c, via' = [via EXCEPT ![r] = c]
        PROVE  \A s \in Reqs : s # r => via'[s] = via[s]
    BY <2>2 DEF TypeOK
  <2> QED BY <2>1, <2>2, KeepWorker
<1> QED BY <1>1, <1>2 DEF Counted, Running, Direct, Generation

\* What the three kinds of steps do to the requests that are counted.
LEMMA CountedIn ==
    ASSUME TypeOK, NEW r \in Reqs, RequestStep(r), CountsIn(r)
    PROVE  /\ r \notin CountedSet
           /\ CountedSet' = CountedSet \cup {r}
           /\ \A id : id # Owner[via[r]] => CountedFor(id)' = CountedFor(id)
           /\ \A id : id = Owner[via[r]] =>
                r \notin CountedFor(id) /\ CountedFor(id)' = CountedFor(id) \cup {r}
<1>1. \A s \in Reqs : s # r => via'[s] = via[s] /\ (Counted(s)' <=> Counted(s))
  BY OthersStay
<1>2. via'[r] = via[r] /\ ~Counted(r) /\ Counted(r)'
  BY DEF CountsIn
<1>3. CountedSet' = {s \in Reqs : Counted(s)'}
  BY DEF CountedSet
<1>4. \A id : CountedFor(id)' = {s \in Reqs : Counted(s)' /\ Owner[via'[s]] = id}
  BY DEF CountedFor
<1> QED BY <1>1, <1>2, <1>3, <1>4 DEF CountedSet, CountedFor

LEMMA CountedOut ==
    ASSUME TypeOK, NEW r \in Reqs, RequestStep(r), CountsOut(r)
    PROVE  /\ r \in CountedSet
           /\ CountedSet' = CountedSet \ {r}
           /\ \A id : id # Owner[via[r]] => CountedFor(id)' = CountedFor(id)
           /\ \A id : id = Owner[via[r]] =>
                r \in CountedFor(id) /\ CountedFor(id)' = CountedFor(id) \ {r}
<1>1. \A s \in Reqs : s # r => via'[s] = via[s] /\ (Counted(s)' <=> Counted(s))
  BY OthersStay
<1>2. via'[r] = via[r] /\ Counted(r) /\ ~Counted(r)'
  BY DEF CountsOut
<1>3. CountedSet' = {s \in Reqs : Counted(s)'}
  BY DEF CountedSet
<1>4. \A id : CountedFor(id)' = {s \in Reqs : Counted(s)' /\ Owner[via'[s]] = id}
  BY DEF CountedFor
<1> QED BY <1>1, <1>2, <1>3, <1>4 DEF CountedSet, CountedFor

LEMMA CountedNot ==
    ASSUME TypeOK, NEW r \in Reqs, RequestStep(r), CountsNot(r)
    PROVE  CountedSet' = CountedSet /\ \A id : CountedFor(id)' = CountedFor(id)
<1>1. \A s \in Reqs : s # r => via'[s] = via[s] /\ (Counted(s)' <=> Counted(s))
  BY OthersStay
<1>2. (Counted(r)' <=> Counted(r)) /\ (Counted(r) => via'[r] = via[r])
  BY DEF CountsNot
<1>3. CountedSet' = {s \in Reqs : Counted(s)'}
  BY DEF CountedSet
<1>4. \A id : CountedFor(id)' = {s \in Reqs : Counted(s)' /\ Owner[via'[s]] = id}
  BY DEF CountedFor
<1> QED BY <1>1, <1>2, <1>3, <1>4 DEF CountedSet, CountedFor

\* The in-flight counts through a step of a handler.
LEMMA InFlightRequest ==
    ASSUME TypeOK, WorkerKnown, InFlightInv, NEW r \in Reqs, RequestStep(r)
    PROVE  InFlightInv'
<1>1. UNCHANGED <<entry, link>>
  BY RequestFrame
<1>2. inflight \in [Ids -> Nat] /\ IsFiniteSet(CountedSet)
  BY DEF TypeOK, WorkerTypeOK, InFlightInv
<1>3. \A c \in Conns : (IsRegistered(c)' <=> IsRegistered(c)) /\ (IsFirst(c)' <=> IsFirst(c))
  BY <1>1 DEF IsRegistered, IsFirst
<1>4. \A c \in Conns : Owner[c] \in Ids /\ c # NoConn
  BY Constants
<1>5. SUFFICES
        /\ IsFiniteSet(CountedSet')
        /\ \A id \in Ids : inflight'[id] <= Cardinality(CountedFor(id)')
        /\ \A c \in Conns : IsRegistered(c) /\ IsFirst(c) =>
             inflight'[Owner[c]] = Cardinality(CountedFor(Owner[c])')
  BY <1>3 DEF InFlightInv
<1> DEFINE id0 == Owner[via[r]]
           N(id) == Cardinality(CountedFor(id))
<1>6. /\ \A id \in Ids : inflight[id] <= N(id) /\ N(id) \in Nat
      /\ \A c \in Conns : IsRegistered(c) /\ IsFirst(c) => inflight[Owner[c]] = N(Owner[c])
  BY <1>2, CountedForFinite DEF InFlightInv
<1>7. CASE CountsIn(r)
  <2>1. via[r] \in Conns /\ id0 \in Ids
    <3>1. HasWorker(r)
      BY <1>7 DEF CountsIn, HasWorker
    <3> QED BY <1>4, <3>1 DEF WorkerKnown
  <2>2. /\ IsFiniteSet(CountedSet')
        /\ \A id : id # id0 => CountedFor(id)' = CountedFor(id)
        /\ \A id : id = id0 => Cardinality(CountedFor(id)') = N(id) + 1
    <3>1. IsFiniteSet(CountedSet')
      <4>1. CountedSet' = CountedSet \cup {r} /\ r \notin CountedSet
        BY <1>7, CountedIn
      <4> QED BY <1>2, <4>1, CountIn
    <3>2. ASSUME NEW id, id = id0 PROVE Cardinality(CountedFor(id)') = N(id) + 1
      <4>1. r \notin CountedFor(id) /\ CountedFor(id)' = CountedFor(id) \cup {r}
        BY <1>7, <3>2, CountedIn
      <4>2. IsFiniteSet(CountedFor(id))
        BY <1>2, CountedForFinite
      <4> QED BY <4>1, <4>2, CountIn
    <3> QED BY <1>7, <3>1, <3>2, CountedIn
  <2>3. \A id \in Ids : inflight'[id] =
          IF id = id0 /\ entry[id] # NoConn THEN inflight[id] + 1 ELSE inflight[id]
    BY <1>2, <1>7 DEF CountsIn, Inc
  <2> HIDE DEF id0, N
  <2>4. \A id \in Ids : inflight'[id] <= Cardinality(CountedFor(id)')
    BY <1>2, <1>6, <2>1, <2>2, <2>3 DEF N
  <2>5. \A c \in Conns : IsRegistered(c) /\ IsFirst(c) =>
          inflight'[Owner[c]] = Cardinality(CountedFor(Owner[c])')
    BY <1>2, <1>4, <1>6, <2>1, <2>2, <2>3 DEF IsRegistered, N
  <2> QED BY <2>2, <2>4, <2>5
<1>8. CASE CountsOut(r)
  <2>1. id0 \in Ids
    <3>1. HasWorker(r)
      BY <1>8 DEF CountsOut, Counted, HasWorker
    <3> QED BY <1>4, <3>1 DEF WorkerKnown
  <2>2. /\ IsFiniteSet(CountedSet')
        /\ \A id : id # id0 => CountedFor(id)' = CountedFor(id)
        /\ \A id : id = id0 => Cardinality(CountedFor(id)') = N(id) - 1 /\ N(id) > 0
    <3>1. IsFiniteSet(CountedSet')
      <4>1. CountedSet' = CountedSet \ {r} /\ r \in CountedSet
        BY <1>8, CountedOut
      <4> QED BY <1>2, <4>1, CountOut
    <3>2. ASSUME NEW id, id = id0
          PROVE  Cardinality(CountedFor(id)') = N(id) - 1 /\ N(id) > 0
      <4>1. r \in CountedFor(id) /\ CountedFor(id)' = CountedFor(id) \ {r}
        BY <1>8, <3>2, CountedOut
      <4>2. IsFiniteSet(CountedFor(id))
        BY <1>2, CountedForFinite
      <4> QED BY <4>1, <4>2, CountOut
    <3> QED BY <1>8, <3>1, <3>2, CountedOut
  <2>3. \A id \in Ids : inflight'[id] =
          IF id = id0 /\ inflight[id] # 0 THEN inflight[id] - 1 ELSE inflight[id]
    BY <1>2, <1>8 DEF CountsOut, Dec
  <2> HIDE DEF id0, N
  <2>4. \A id \in Ids : inflight'[id] <= Cardinality(CountedFor(id)')
    BY <1>2, <1>6, <2>1, <2>2, <2>3 DEF N
  <2>5. \A c \in Conns : IsRegistered(c) /\ IsFirst(c) =>
          inflight'[Owner[c]] = Cardinality(CountedFor(Owner[c])')
    BY <1>2, <1>4, <1>6, <2>1, <2>2, <2>3 DEF N
  <2> QED BY <2>2, <2>4, <2>5
<1>9. CASE CountsNot(r)
  <2>1. UNCHANGED inflight
    BY <1>9 DEF CountsNot
  <2> QED BY <1>2, <1>4, <1>6, <1>9, <2>1, CountedNot
<1> QED BY <1>7, <1>8, <1>9, CountMoves

\* Through a step of anybody else: a Worker that is registered first under its
\* id starts at none, and nobody is counted for an id no connection announced.
LEMMA InFlightEnvironment ==
    ASSUME TypeOK, WorkerKnown, RegistryInv, InFlightInv, Environment, UNCHANGED proxyVars
    PROVE  InFlightInv'
<1> USE DEF registryVars
<1>1. UNCHANGED <<CountedSet>> /\ \A id : CountedFor(id)' = CountedFor(id)
  BY DEF proxyVars, CountedSet, CountedFor, Counted, Direct, Generation
<1>2. inflight \in [Ids -> Nat] /\ IsFiniteSet(CountedSet)
  BY DEF TypeOK, WorkerTypeOK, InFlightInv
<1>3. \A c \in Conns : link'[c] = "new" => link[c] = "new"
  BY LinkStep DEF TypeOK
<1>4. \A c \in Conns : IsFirst(c)' => IsFirst(c)
  BY <1>3 DEF IsFirst
<1> DEFINE N(id) == Cardinality(CountedFor(id))
<1>5. /\ \A id \in Ids : inflight[id] <= N(id) /\ N(id) \in Nat
      /\ \A c \in Conns : IsRegistered(c) /\ IsFirst(c) => inflight[Owner[c]] = N(Owner[c])
  BY <1>2, CountedForFinite DEF InFlightInv
<1>6. SUFFICES
        /\ \A id \in Ids : inflight'[id] <= N(id)
        /\ \A c \in Conns : IsRegistered(c)' /\ IsFirst(c)' =>
             inflight'[Owner[c]] = N(Owner[c])
  BY <1>1, <1>2 DEF InFlightInv
<1> HIDE DEF N
<1>7. CASE UNCHANGED <<entry, inflight>>
  BY <1>4, <1>5, <1>7 DEF IsRegistered
<1>8. ASSUME NEW id \in Ids, Unlocked, Evict(id)
      PROVE  /\ \A i \in Ids : inflight'[i] <= N(i)
             /\ \A c \in Conns : IsRegistered(c)' /\ IsFirst(c)' =>
                  inflight'[Owner[c]] = N(Owner[c])
  <2>1. CASE UNCHANGED <<entry, inflight>>
    BY <1>4, <1>5, <2>1 DEF IsRegistered
  <2>2. CASE entry' = [entry EXCEPT ![id] = NoConn] /\ inflight' = [inflight EXCEPT ![id] = 0]
    <3>1. \A i \in Ids : inflight'[i] = IF i = id THEN 0 ELSE inflight[i]
      BY <1>2, <2>2
    <3>2. \A i \in Ids : entry'[i] = IF i = id THEN NoConn ELSE entry[i]
      BY <2>2 DEF TypeOK, WorkerTypeOK
    <3>3. \A c \in Conns : IsRegistered(c)' => Owner[c] # id /\ IsRegistered(c)
      BY <3>2, Constants DEF IsRegistered
    <3> QED BY <1>4, <1>5, <3>1, <3>3, Constants
  <2> QED BY <1>8, <2>1, <2>2 DEF Evict
<1>9. ASSUME NEW c \in Conns, Register(c)
      PROVE  /\ \A i \in Ids : inflight'[i] <= N(i)
             /\ \A d \in Conns : IsRegistered(d)' /\ IsFirst(d)' =>
                  inflight'[Owner[d]] = N(Owner[d])
  <2>1. /\ link[c] = "new"
        /\ entry' = [entry EXCEPT ![Owner[c]] = c]
        /\ inflight' = [inflight EXCEPT ![Owner[c]] = 0]
    BY <1>9 DEF Register
  <2>2. \A i \in Ids : inflight'[i] = IF i = Owner[c] THEN 0 ELSE inflight[i]
    BY <1>2, <2>1
  <2>3. \A i \in Ids : entry'[i] = IF i = Owner[c] THEN c ELSE entry[i]
    BY <2>1 DEF TypeOK, WorkerTypeOK
  <2>4. ASSUME IsFirst(c) PROVE N(Owner[c]) = 0
    <3>1. \A d \in Conns : Owner[d] = Owner[c] => link[d] = "new"
      BY <2>1, <2>4 DEF IsFirst
    <3>2. \A r \in Reqs : Counted(r) => HasWorker(r)
      BY DEF Counted, HasWorker
    <3>3. CountedFor(Owner[c]) = {}
      BY <3>1, <3>2 DEF CountedFor, WorkerKnown
    <3> QED BY <3>3, FS_EmptySet DEF N
  <2>5. \A d \in Conns : IsRegistered(d)' =>
          d = c \/ (Owner[d] # Owner[c] /\ IsRegistered(d))
    BY <2>3, Constants DEF IsRegistered
  <2> QED BY <1>4, <1>5, <2>2, <2>4, <2>5, Constants
<1>10. ASSUME NEW c \in Conns, Deregister(c) PROVE Unlocked /\ Evict(Owner[c])
  BY <1>10 DEF Deregister
<1>11. ASSUME NEW id \in Ids, Prune(id) PROVE Unlocked /\ Evict(id)
  BY <1>11 DEF Prune
<1>12. Owner \in [Conns -> Ids]
  BY WorkerRegistryAssumption
<1>13. CASE \/ CloseSend
            \/ \E c \in Conns : Write(c) \/ ReadLoop(c) \/ HangUp(c)
  BY <1>7, <1>13 DEF CloseSend, Write, ReadLoop, StatusUpdate, Deliver, PanicOnClosed, Break,
                     ReadPart, ReadEnd, HangUp
<1> QED BY <1>8, <1>9, <1>10, <1>11, <1>12, <1>13 DEF Environment

LEMMA InFlightStep ==
    ASSUME TypeOK, WorkerKnown, RegistryInv, InFlightInv, [Next]_vars
    PROVE  InFlightInv'
<1>1. CASE UNCHANGED vars
  BY <1>1 DEF vars, workerVars, registryVars, linkVars, proxyVars, InFlightInv, IsRegistered,
              IsFirst, CountedSet, CountedFor, Counted, Direct, Generation
<1> QED BY <1>1, StepKinds, InFlightRequest, InFlightEnvironment

\* The gauges, in the same way: a step of a handler starts its job, or ends it,
\* or leaves the gauges.
RunsIn(r) ==
    /\ UNCHANGED via /\ pc[r] = "send"
    /\ ~Running(r) /\ Running(r)' /\ RecordJobStart(via[r])

RunsOut(r) ==
    /\ UNCHANGED via /\ pc[r] = "unjob"
    /\ Running(r) /\ ~Running(r)' /\ RecordJobEnd(via[r])

RunsNot(r) ==
    /\ UNCHANGED metricVars
    /\ Running(r)' <=> Running(r)
    /\ Running(r) => UNCHANGED via

LEMMA RunMoves ==
    ASSUME TypeOK, NEW r \in Reqs, RequestStep(r)
    PROVE  RunsIn(r) \/ RunsOut(r) \/ RunsNot(r)
<1> USE DEF workerVars, TypeOK
<1>0. UNCHANGED endpoint
  BY RequestFrame
<1>1. ASSUME NEW place, Goto(r, place), UNCHANGED metricVars,
             Running(r) => UNCHANGED via,
             \/ pc[r] \in {"pick", "enter", "queued", "add", "send", "refused", "uncount"} /\
                  place \in {"pick", "enter", "queued", "add", "send", "refused", "uncount",
                             "over", "dead"}
             \/ Generation(r) /\ pc[r] = "count" /\ place = "loop"
             \/ Direct(r) /\ pc[r] \in {"pick", "count"} /\ place \in {"count", "add"}
             \/ pc[r] = "loop" /\ place \in {"loop", "unjob"}
      PROVE  RunsNot(r)
  <2>1. pc'[r] = place
    BY <1>1 DEF Goto
  <2>2. Running(r)' <=> Running(r)
    BY <1>0, <1>1, <2>1 DEF Running, Direct, Generation
  <2> QED BY <1>1, <2>2 DEF RunsNot
<1>2. CASE Generation(r) /\ TryDispatch(r)
  <2>1. ASSUME Pick(r, "add") PROVE RunsNot(r)
    <3>1. pc[r] = "pick" /\ Goto(r, "add") /\ UNCHANGED metricVars /\ ~Running(r)
      BY <1>2, <2>1 DEF Pick, Running
    <3> QED BY <1>1, <1>2, <3>1
  <2>2. CASE PickNone(r)
    BY <1>1, <2>2 DEF PickNone, CannotPick, NotDispatched
  <2>3. CASE AddJob(r)
    BY <1>1, <1>2, <2>3 DEF AddJob
  <2>4. CASE Send(r, "count")
    <3>1. /\ pc[r] = "send" /\ pc'[r] = "count" /\ UNCHANGED via
          /\ RecordJobStart(via[r])
      BY <2>4 DEF Send, Goto
    <3> QED BY <1>0, <1>2, <3>1 DEF RunsIn, Running, Generation
  <2>5. CASE SendIsFull(r)
    BY <1>1, <1>2, <2>5 DEF SendIsFull, Busy, NotDispatched
  <2>6. CASE SendPanics(r, "dead")
    BY <1>1, <1>2, <2>6 DEF SendPanics
  <2>7. CASE Count(r)
    BY <1>1, <1>2, <2>7 DEF Count
  <2> QED BY <1>2, <2>1, <2>2, <2>3, <2>4, <2>5, <2>6, <2>7 DEF TryDispatch
<1>3. CASE WaitForTurn(r)
  BY <1>1, <1>3 DEF WaitForTurn, EnterQueue, Retry, LeaveQueue
<1>4. CASE RefuseBody(r)
  BY <1>1, <1>4 DEF RefuseBody
<1>5. CASE Direct(r) /\ DispatchAtOnce(r)
  <2>1. ASSUME Pick(r, "count") PROVE RunsNot(r)
    <3>1. pc[r] = "pick" /\ Goto(r, "count") /\ UNCHANGED metricVars /\ ~Running(r)
      BY <2>1 DEF Pick, Running
    <3> QED BY <1>1, <1>5, <3>1
  <2>2. CASE RefuseUnserved(r)
    BY <1>1, <2>2 DEF RefuseUnserved, CannotPick
  <2>3. CASE Charge(r)
    BY <1>1, <1>5, <2>3 DEF Charge
  <2>4. CASE AddJob(r)
    BY <1>1, <1>5, <2>4 DEF AddJob
  <2>5. CASE Send(r, "loop")
    <3>1. /\ pc[r] = "send" /\ pc'[r] = "loop" /\ UNCHANGED via
          /\ RecordJobStart(via[r])
      BY <2>5 DEF Send, Goto
    <3> QED BY <3>1 DEF RunsIn, Running
  <2>6. CASE RefuseBusy(r)
    BY <1>1, <1>5, <2>6 DEF RefuseBusy, Busy
  <2>7. CASE SendPanics(r, "refused")
    BY <1>1, <1>5, <2>7 DEF SendPanics
  <2>8. CASE TakeBack(r)
    BY <1>1, <1>5, <2>8 DEF TakeBack
  <2> QED BY <1>5, <2>1, <2>2, <2>3, <2>4, <2>5, <2>6, <2>7, <2>8 DEF DispatchAtOnce
<1>6. CASE Proxy(r)
  <2>1. CASE Abandon(r)
    BY <1>1, <2>1 DEF Abandon
  <2>2. CASE ReadFrame(r)
    BY <1>1, <2>2 DEF ReadFrame
  <2>3. CASE ReadClosed(r)
    BY <1>1, <2>3 DEF ReadClosed
  <2>4. CASE Unjob(r)
    <3>1. pc[r] = "unjob" /\ pc'[r] = "uncount" /\ UNCHANGED via /\ RecordJobEnd(via[r])
      BY <2>4 DEF Unjob, Goto
    <3> QED BY <3>1 DEF RunsOut, Running
  <2>5. CASE Uncount(r)
    BY <1>1, <2>5 DEF Uncount
  <2> QED BY <1>6, <2>1, <2>2, <2>3, <2>4, <2>5 DEF Proxy
<1> QED BY <1>2, <1>3, <1>4, <1>5, <1>6 DEF RequestStep, GenerationStep, DirectStep

\* What they do to the requests that run.
LEMMA RunningChanges ==
    ASSUME TypeOK, NEW r \in Reqs, RequestStep(r)
    PROVE  /\ RunsIn(r) =>
                /\ r \notin RunningSet /\ RunningSet' = RunningSet \cup {r}
                /\ \A id : id = Owner[via[r]] =>
                     r \notin RunningFor(id) /\ RunningFor(id)' = RunningFor(id) \cup {r}
                /\ \A id : id # Owner[via[r]] => RunningFor(id)' = RunningFor(id)
           /\ RunsOut(r) =>
                /\ r \in RunningSet /\ RunningSet' = RunningSet \ {r}
                /\ \A id : id = Owner[via[r]] =>
                     r \in RunningFor(id) /\ RunningFor(id)' = RunningFor(id) \ {r}
                /\ \A id : id # Owner[via[r]] => RunningFor(id)' = RunningFor(id)
           /\ RunsNot(r) =>
                RunningSet' = RunningSet /\ \A id : RunningFor(id)' = RunningFor(id)
<1>1. \A s \in Reqs : s # r => via'[s] = via[s] /\ (Running(s)' <=> Running(s))
  BY OthersStay
<1>2. RunningSet' = {s \in Reqs : Running(s)'}
  BY DEF RunningSet
<1>3. \A id : RunningFor(id)' = {s \in Reqs : Running(s)' /\ Owner[via'[s]] = id}
  BY <1>2 DEF RunningFor
<1>4. \A id : RunningFor(id) = {s \in Reqs : Running(s) /\ Owner[via[s]] = id}
  BY DEF RunningFor, RunningSet
<1>5. RunsIn(r) => via'[r] = via[r] /\ ~Running(r) /\ Running(r)'
  BY DEF RunsIn
<1>6. RunsOut(r) => via'[r] = via[r] /\ Running(r) /\ ~Running(r)'
  BY DEF RunsOut
<1>7. RunsNot(r) => (Running(r)' <=> Running(r)) /\ (Running(r) => via'[r] = via[r])
  BY DEF RunsNot
<1>8. CASE RunsIn(r)
  BY <1>1, <1>2, <1>3, <1>4, <1>5, <1>8 DEF RunningSet, RunsIn, RunsOut, RunsNot
<1>9. CASE RunsOut(r)
  BY <1>1, <1>2, <1>3, <1>4, <1>6, <1>9 DEF RunningSet, RunsIn, RunsOut, RunsNot
<1>10. CASE RunsNot(r) /\ ~RunsIn(r) /\ ~RunsOut(r)
  BY <1>1, <1>2, <1>3, <1>4, <1>7, <1>10 DEF RunningSet
<1> QED BY <1>8, <1>9, <1>10

LEMMA GaugeRequest ==
    ASSUME TypeOK, WorkerKnown, GaugeInv, NEW r \in Reqs, RequestStep(r)
    PROVE  GaugeInv'
<1>1. tally \in [Ids -> Nat \cup {Unlisted}] /\ IsFiniteSet(RunningSet)
  BY DEF TypeOK, WorkerTypeOK, GaugeInv
<1> DEFINE id0 == Owner[via[r]]
           N(id) == Cardinality(RunningFor(id))
           M == Cardinality(RunningSet)
<1>2. /\ \A id \in Ids : tally[id] <= N(id) /\ N(id) \in Nat
      /\ jobsInflight = M /\ M \in Nat
  BY <1>1, RunningForFinite, FS_CardinalityType DEF GaugeInv
<1>3. HasWorker(r) => id0 \in Ids
  BY Constants DEF WorkerKnown
<1>4. SUFFICES
        /\ IsFiniteSet(RunningSet')
        /\ jobsInflight' = Cardinality(RunningSet')
        /\ \A id \in Ids : tally'[id] <= Cardinality(RunningFor(id)')
  BY DEF GaugeInv
<1>5. CASE RunsIn(r)
  <2>1. id0 \in Ids
    BY <1>3, <1>5 DEF RunsIn, HasWorker
  <2>2. IsFiniteSet(RunningSet') /\ Cardinality(RunningSet') = M + 1
    <3>1. RunningSet' = RunningSet \cup {r} /\ r \notin RunningSet
      BY <1>5, RunningChanges
    <3> QED BY <1>1, <3>1, CountIn
  <2>3. ASSUME NEW id, id = id0 PROVE Cardinality(RunningFor(id)') = N(id) + 1
    <3>1. r \notin RunningFor(id) /\ RunningFor(id)' = RunningFor(id) \cup {r}
      BY <1>5, <2>3, RunningChanges
    <3>2. IsFiniteSet(RunningFor(id))
      BY <1>1, RunningForFinite
    <3> QED BY <3>1, <3>2, CountIn
  <2>4. \A id : id # id0 => RunningFor(id)' = RunningFor(id)
    BY <1>5, RunningChanges
  <2>5. /\ jobsInflight' = jobsInflight + 1
        /\ \A id \in Ids : tally'[id] =
             IF id = id0 /\ tally[id] # Unlisted THEN tally[id] + 1 ELSE tally[id]
    BY <1>1, <1>5 DEF RunsIn, RecordJobStart
  <2> HIDE DEF id0
  <2>6. ASSUME NEW id \in Ids PROVE tally'[id] <= Cardinality(RunningFor(id)')
    <3>1. tally[id] \in Int /\ N(id) \in Nat /\ tally[id] <= N(id)
      BY <1>1, <1>2 DEF Unlisted
    <3>2. tally'[id] = tally[id] + 1 \/ tally'[id] = tally[id]
      BY <2>5
    <3>3. CASE id = id0
      <4>1. Cardinality(RunningFor(id)') = N(id) + 1
        BY <2>3, <3>3
      <4> HIDE DEF N
      <4> QED BY <3>1, <3>2, <4>1
    <3>4. CASE id # id0
      BY <2>4, <2>5, <3>1, <3>4
    <3> QED BY <3>3, <3>4
  <2> QED BY <1>2, <2>2, <2>5, <2>6
<1>6. CASE RunsOut(r)
  <2>1. id0 \in Ids
    BY <1>3, <1>6 DEF RunsOut, HasWorker
  <2>2. IsFiniteSet(RunningSet') /\ Cardinality(RunningSet') = M - 1 /\ M > 0
    <3>1. RunningSet' = RunningSet \ {r} /\ r \in RunningSet
      BY <1>6, RunningChanges
    <3> QED BY <1>1, <3>1, CountOut
  <2>3. ASSUME NEW id, id = id0
        PROVE  Cardinality(RunningFor(id)') = N(id) - 1 /\ N(id) > 0
    <3>1. r \in RunningFor(id) /\ RunningFor(id)' = RunningFor(id) \ {r}
      BY <1>6, <2>3, RunningChanges
    <3>2. IsFiniteSet(RunningFor(id))
      BY <1>1, RunningForFinite
    <3> QED BY <3>1, <3>2, CountOut
  <2>4. \A id : id # id0 => RunningFor(id)' = RunningFor(id)
    BY <1>6, RunningChanges
  <2>5. /\ jobsInflight' = IF jobsInflight > 0 THEN jobsInflight - 1 ELSE 0
        /\ \A id \in Ids : tally'[id] =
             IF id = id0 /\ tally[id] > 0 THEN tally[id] - 1 ELSE tally[id]
    BY <1>1, <1>6 DEF RunsOut, RecordJobEnd
  <2> HIDE DEF id0
  <2>6. ASSUME NEW id \in Ids PROVE tally'[id] <= Cardinality(RunningFor(id)')
    <3>1. tally[id] \in Int /\ N(id) \in Nat /\ tally[id] <= N(id)
      BY <1>1, <1>2 DEF Unlisted
    <3>2. CASE id = id0
      <4>1. Cardinality(RunningFor(id)') = N(id) - 1 /\ N(id) > 0
        BY <2>3, <3>2
      <4>2. tally'[id] = IF tally[id] > 0 THEN tally[id] - 1 ELSE tally[id]
        BY <2>5, <3>2
      <4> HIDE DEF N
      <4> QED BY <3>1, <4>1, <4>2
    <3>3. CASE id # id0
      BY <2>4, <2>5, <3>1, <3>3
    <3> QED BY <3>2, <3>3
  <2> QED BY <1>2, <2>2, <2>5, <2>6
<1>7. CASE RunsNot(r)
  <2>1. UNCHANGED <<jobsInflight, tally>>
    BY <1>7 DEF RunsNot, metricVars
  <2>2. RunningSet' = RunningSet /\ \A id : RunningFor(id)' = RunningFor(id)
    BY <1>7, RunningChanges
  <2> QED BY <1>1, <1>2, <2>1, <2>2
<1> QED BY <1>5, <1>6, <1>7, RunMoves

\* Anybody else only lists an id, at none, or takes it off the list.
LEMMA GaugeEnvironment ==
    ASSUME TypeOK, GaugeInv, Environment, UNCHANGED proxyVars
    PROVE  GaugeInv'
<1>1. RunningSet' = RunningSet /\ \A id : RunningFor(id)' = RunningFor(id)
  BY DEF proxyVars, RunningSet, RunningFor, Running, Generation
<1>2. tally \in [Ids -> Nat \cup {Unlisted}] /\ IsFiniteSet(RunningSet)
  BY DEF TypeOK, WorkerTypeOK, GaugeInv
<1> DEFINE N(id) == Cardinality(RunningFor(id))
<1>3. \A id \in Ids : tally[id] <= N(id) /\ N(id) \in Nat
  BY <1>2, RunningForFinite DEF GaugeInv
<1>4. SUFFICES UNCHANGED jobsInflight /\ \A id \in Ids : tally'[id] <= N(id)
  BY <1>1 DEF GaugeInv
<1> HIDE DEF N
<1>5. ASSUME NEW c \in Conns, Register(c)
      PROVE  UNCHANGED jobsInflight /\ \A id \in Ids : tally'[id] <= N(id)
  <2>1. /\ UNCHANGED jobsInflight
        /\ \A id \in Ids : tally'[id] = tally[id] \/ tally'[id] = 0
    BY <1>2, <1>5 DEF Register, UpsertWorker
  <2> QED BY <1>3, <2>1
<1>6. ASSUME NEW c \in Conns, HangUp(c)
      PROVE  UNCHANGED jobsInflight /\ \A id \in Ids : tally'[id] <= N(id)
  <2>1. /\ UNCHANGED jobsInflight
        /\ \A id \in Ids : tally'[id] = tally[id] \/ tally'[id] = -1
    BY <1>2, <1>6 DEF HangUp, Unlisted
  <2> QED BY <1>3, <2>1
<1>7. CASE UNCHANGED metricVars
  BY <1>3, <1>7 DEF metricVars
<1> QED BY <1>5, <1>6, <1>7
        DEF Environment, ReadLoop, Write, StatusUpdate, Deliver, PanicOnClosed, Break,
            ReadPart, ReadEnd, Deregister, Prune, CloseSend

LEMMA GaugeStep ==
    ASSUME TypeOK, WorkerKnown, GaugeInv, [Next]_vars
    PROVE  GaugeInv'
<1>1. CASE UNCHANGED vars
  BY <1>1 DEF vars, workerVars, metricVars, proxyVars, GaugeInv, RunningSet, RunningFor,
              Running, Generation
<1> QED BY <1>1, StepKinds, GaugeRequest, GaugeEnvironment

\* Nobody is counted at first.
LEMMA InitCounts == Init => InFlightInv /\ GaugeInv
<1> SUFFICES ASSUME Init PROVE InFlightInv /\ GaugeInv
  OBVIOUS
<1>1. \A r \in Reqs : ~Counted(r) /\ ~Running(r)
  BY DEF Init, Counted, Running
<1>2. CountedSet = {} /\ RunningSet = {}
  BY <1>1 DEF CountedSet, RunningSet
<1>3. \A id : CountedFor(id) = {} /\ RunningFor(id) = {}
  BY <1>1 DEF CountedFor, RunningFor, RunningSet
<1>4. \A id \in Ids : inflight[id] = 0 /\ tally[id] = -1
  BY DEF Init, WorkerInit, Unlisted
<1>5. jobsInflight = 0 /\ IsFiniteSet({}) /\ Cardinality({}) = 0
  BY FS_EmptySet DEF Init, WorkerInit
<1>6. InFlightInv
  <2>1. \A id \in Ids : inflight[id] = 0 /\ Cardinality(CountedFor(id)) = 0
    BY <1>3, <1>4, <1>5
  <2> QED BY <1>2, <1>5, <2>1, Constants DEF InFlightInv
<1>7. \A id \in Ids : tally[id] <= Cardinality(RunningFor(id))
  <2> TAKE id \in Ids
  <2>1. tally[id] = -1 /\ Cardinality(RunningFor(id)) = 0
    BY <1>3, <1>4, <1>5
  <2> QED BY <2>1
<1>8. GaugeInv
  BY <1>2, <1>5, <1>7 DEF GaugeInv
<1> QED BY <1>6, <1>8

\* The counters agree with the handlers: the in-flight count of an id is that of
\* its requests while nobody else has announced it, and never more; so is the
\* gauge of its jobs, and the gauge of all jobs is exact.
THEOREM CountersAgreeWithHandlers == Spec => []InFlightAgrees
<1>1. ProxyInv /\ InFlightInv /\ GaugeInv /\ [Next]_vars =>
        (InFlightInv /\ GaugeInv)'
  BY InFlightStep, GaugeStep DEF ProxyInv
<1>2. InFlightInv /\ GaugeInv => InFlightAgrees
  <2> SUFFICES ASSUME InFlightInv, GaugeInv PROVE InFlightAgrees
    OBVIOUS
  <2>1. \A c \in Conns : Owner[c] \in Ids
    BY Constants
  <2> QED BY <2>1 DEF InFlightInv, GaugeInv, InFlightAgrees, IsFirst, CountedFor, RunningSet,
                      RunningFor
<1> QED BY <1>1, <1>2, InitCounts, ProxyInvariant, PTL DEF Spec
=============================================================================

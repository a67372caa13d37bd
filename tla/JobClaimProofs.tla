--------------------------- MODULE JobClaimProofs ---------------------------
(***************************************************************************)
(* Theorems about JobClaim, for any number of jobs, polls and streams: no  *)
(* connection that went away costs more than one job, a wake-up is lost    *)
(* only to a thief, the streams of a worker are counted, and the calls     *)
(* that race for the queue dispatch jobs as JobDispatch promises.          *)
(***************************************************************************)
EXTENDS JobClaim, SequenceTheorems, FiniteSetTheorems, TLAPS

-----------------------------------------------------------------------------
(* The queue of the jobs: what Append, RemoveAt and RemoveFirst leave of   *)
(* it.                                                                     *)

\* Numbers that name jobs in the order of their creation, the oldest first.
InOrder(q) ==
    /\ \A i \in 1 .. Len(q) : q[i] \in Nat
    /\ \A i, k \in 1 .. Len(q) : i < k => q[i] < q[k]

\* What is left after RemoveAt: one element less, those behind it moved up.
LEMMA RemoveAtProperties ==
    ASSUME NEW S, NEW q \in Seq(S), NEW i \in 1 .. Len(q)
    PROVE  /\ RemoveAt(q, i) \in Seq(S)
           /\ Len(RemoveAt(q, i)) = Len(q) - 1
           /\ \A k \in 1 .. Len(q) - 1 :
                RemoveAt(q, i)[k] = IF k < i THEN q[k] ELSE q[k + 1]
<1> DEFINE front == SubSeq(q, 1, i - 1)
           back == SubSeq(q, i + 1, Len(q))
<1>1. \A k \in 1 .. Len(q) : q[k] \in S
  BY ElementOfSeq
<1>2. /\ front \in Seq(S)
      /\ Len(front) = i - 1
      /\ \A k \in 1 .. i - 1 : front[k] = q[k]
  BY <1>1, SubSeqProperties
<1>3. /\ back \in Seq(S)
      /\ Len(back) = Len(q) - i
      /\ \A k \in 1 .. Len(q) - i : back[k] = q[k + i]
  BY <1>1, SubSeqProperties
<1> HIDE DEF front, back
<1>4. /\ front \o back \in Seq(S)
      /\ Len(front \o back) = Len(q) - 1
      /\ \A k \in 1 .. Len(q) - 1 :
           (front \o back)[k] = IF k <= i - 1 THEN front[k] ELSE back[k - (i - 1)]
  BY <1>2, <1>3, ConcatProperties
<1>5. ASSUME NEW k \in 1 .. Len(q) - 1
      PROVE  (front \o back)[k] = IF k < i THEN q[k] ELSE q[k + 1]
  <2>1. CASE k < i
    <3>1. k \in 1 .. i - 1 /\ k <= i - 1
      BY <2>1
    <3> QED BY <1>2, <1>4, <2>1, <3>1
  <2>2. CASE ~ (k < i)
    <3>1. k - (i - 1) \in 1 .. Len(q) - i /\ (k - (i - 1)) + i = k + 1 /\ ~ (k <= i - 1)
      BY <2>2
    <3> QED BY <1>3, <1>4, <2>2, <3>1
  <2> QED BY <2>1, <2>2
<1> QED BY <1>4, <1>5 DEF RemoveAt, front, back

\* Such a queue stays in order, and loses nothing else.
LEMMA RemoveAtInOrder ==
    ASSUME NEW S, NEW q \in Seq(S), InOrder(q),
           NEW i \in 1 .. Len(q)
    PROVE  /\ RemoveAt(q, i) \in Seq(S)
           /\ InOrder(RemoveAt(q, i))
           /\ Range(RemoveAt(q, i)) = Range(q) \ {q[i]}
<1> DEFINE rest == RemoveAt(q, i)
           From(k) == IF k < i THEN k ELSE k + 1
<1>1. rest \in Seq(S) /\ Len(rest) = Len(q) - 1
  BY RemoveAtProperties
<1>2. \A k \in 1 .. Len(rest) : rest[k] = IF k < i THEN q[k] ELSE q[k + 1]
  BY RemoveAtProperties
<1> HIDE DEF rest
<1>3. \A k \in 1 .. Len(rest) :
        From(k) \in 1 .. Len(q) /\ From(k) # i /\ rest[k] = q[From(k)]
  BY <1>1, <1>2
<1>4. \A a, b \in 1 .. Len(rest) : a < b => From(a) < From(b)
  BY <1>1
<1>5. \A k \in 1 .. Len(q) : k # i => \E m \in 1 .. Len(rest) : From(m) = k
  <2> TAKE k \in 1 .. Len(q)
  <2>1. CASE k < i
    <3>1. k \in 1 .. Len(rest) /\ From(k) = k
      BY <1>1, <2>1
    <3> QED BY <3>1
  <2>2. CASE k > i
    <3>1. k - 1 \in 1 .. Len(rest) /\ From(k - 1) = k
      BY <1>1, <2>2
    <3> QED BY <3>1
  <2> QED BY <2>1, <2>2
<1> HIDE DEF From
<1>6. InOrder(rest)
  BY <1>3, <1>4 DEF InOrder
<1>7. \A k, m \in 1 .. Len(q) : k # m => q[k] # q[m]
  BY DEF InOrder
<1>8. /\ Range(q) = {q[k] : k \in 1 .. Len(q)}
      /\ Range(rest) = {rest[k] : k \in 1 .. Len(rest)}
  BY <1>1 DEF Range
<1>9. Range(rest) \subseteq Range(q) \ {q[i]}
  BY <1>3, <1>7, <1>8
<1>10. Range(q) \ {q[i]} \subseteq Range(rest)
  <2> SUFFICES ASSUME NEW k \in 1 .. Len(q), q[k] # q[i]
               PROVE  \E m \in 1 .. Len(rest) : q[k] = rest[m]
    BY <1>8
  <2>1. PICK m \in 1 .. Len(rest) : From(m) = k
    BY <1>5
  <2> QED BY <1>3, <2>1
<1> QED BY <1>1, <1>6, <1>9, <1>10 DEF rest

LEMMA RemoveFirstInOrder ==
    ASSUME NEW S, NEW q \in Seq(S), InOrder(q), NEW j
    PROVE  /\ RemoveFirst(q, j) \in Seq(S)
           /\ InOrder(RemoveFirst(q, j))
           /\ Range(RemoveFirst(q, j)) = Range(q) \ {j}
<1>1. CASE ~ \E i \in 1 .. Len(q) : q[i] = j
  BY <1>1 DEF RemoveFirst, Range
<1>2. CASE \E i \in 1 .. Len(q) : q[i] = j
  <2>1. PICK i \in 1 .. Len(q) : q[i] = j
    BY <1>2
  <2>2. {k \in 1 .. Len(q) : q[k] = j} = {i}
    BY <2>1 DEF InOrder
  <2>3. SelectInSeq(q, LAMBDA v : v = j) = Min({i})
    BY <2>2 DEF SelectInSeq
  <2>4. Min({i}) = i
    BY DEF Min
  <2>5. RemoveFirst(q, j) = RemoveAt(q, i)
    BY <1>2, <2>3, <2>4 DEF RemoveFirst
  <2> QED BY <2>1, <2>5, RemoveAtInOrder
<1> QED BY <1>1, <1>2

\* A job created later than all those in the queue goes to its end.
LEMMA AppendInOrder ==
    ASSUME NEW S, NEW q \in Seq(S), InOrder(q), NEW j \in S \cap Nat,
           \A k \in 1 .. Len(q) : q[k] < j
    PROVE  /\ Append(q, j) \in Seq(S)
           /\ InOrder(Append(q, j))
           /\ Range(Append(q, j)) = Range(q) \cup {j}
<1> DEFINE longer == Append(q, j)
<1>1. /\ longer \in Seq(S)
      /\ Len(longer) = Len(q) + 1
      /\ \A k \in 1 .. Len(q) : longer[k] = q[k]
      /\ longer[Len(q) + 1] = j
  OBVIOUS
<1> HIDE DEF longer
<1>2. InOrder(longer)
  <2>0. \A a \in 1 .. Len(longer) : longer[a] \in Nat
    BY <1>1 DEF InOrder
  <2> SUFFICES ASSUME NEW a \in 1 .. Len(longer), NEW b \in 1 .. Len(longer),
                      a < b
               PROVE  longer[a] < longer[b]
    BY <2>0 DEF InOrder
  <2>1. a \in 1 .. Len(q) /\ longer[a] = q[a]
    BY <1>1
  <2>2. CASE b <= Len(q)
    BY <1>1, <2>1, <2>2 DEF InOrder
  <2>3. CASE b = Len(q) + 1
    BY <1>1, <2>1, <2>3
  <2> QED BY <1>1, <2>2, <2>3
<1>3. Range(longer) = Range(q) \cup {j}
  BY <1>1 DEF Range
<1> QED BY <1>1, <1>2, <1>3 DEF longer

-----------------------------------------------------------------------------
\* The table of workers.  What an entry says of streams; one that is missing
\* says what one without streams would.
StreamsOf(table, key) ==
    IF key \in DOMAIN table THEN table[key].streams ELSE 0

Keys == {Key(c) : c \in Claimers}

IsTable(table) ==
    /\ DOMAIN table \subseteq Keys
    /\ \A k \in DOMAIN table : table[k] \in Entries

\* pruneWorkersLocked takes no count away.
LEMMA PruneKeepsCounts ==
    ASSUME NEW table, IsTable(table)
    PROVE  /\ IsTable(PruneWorkers(table))
           /\ \A k : StreamsOf(PruneWorkers(table), k) = StreamsOf(table, k)
<1> DEFINE kept == {k \in DOMAIN table : table[k].streams > 0 \/ ~table[k].stale}
<1>1. /\ DOMAIN PruneWorkers(table) = kept
      /\ \A k \in kept : PruneWorkers(table)[k] = table[k]
  BY DEF PruneWorkers, Restrict
<1>2. \A k \in DOMAIN table : table[k].streams \in Nat
  BY DEF IsTable, Entries
<1> QED BY <1>1, <1>2 DEF IsTable, StreamsOf

\* ensureWorkerLocked finds or makes a fresh entry and takes no count away.
LEMMA EnsureKeepsCounts ==
    ASSUME NEW table, IsTable(table), NEW key \in Keys
    PROVE  /\ IsTable(EnsureWorker(table, key))
           /\ key \in DOMAIN EnsureWorker(table, key)
           /\ \A k : StreamsOf(EnsureWorker(table, key), k) = StreamsOf(table, k)
<1> DEFINE pruned == PruneWorkers(table)
           entry == IF key \in DOMAIN pruned THEN pruned[key] ELSE NewEntry
           fresh == [entry EXCEPT !.stale = FALSE]
           ensured == EnsureWorker(table, key)
<1>1. IsTable(pruned) /\ \A k : StreamsOf(pruned, k) = StreamsOf(table, k)
  BY PruneKeepsCounts
<1> HIDE DEF pruned
<1>2. entry \in Entries /\ entry.streams = StreamsOf(pruned, key)
  BY <1>1 DEF IsTable, Entries, NewEntry, StreamsOf
<1>3. fresh \in Entries /\ fresh.streams = entry.streams
  BY <1>2 DEF Entries
<1>4. /\ DOMAIN ensured = DOMAIN pruned \cup {key}
      /\ ensured[key] = fresh
      /\ \A k \in DOMAIN pruned \ {key} : ensured[k] = pruned[k]
  BY DEF EnsureWorker, pruned
<1> HIDE DEF ensured, fresh, entry
<1> QED BY <1>1, <1>2, <1>3, <1>4 DEF IsTable, StreamsOf, ensured

\* recordWorkerSeen takes no count away either.
LEMMA SeenKeepsCounts ==
    ASSUME NEW table, IsTable(table), NEW key \in Keys
    PROVE  /\ IsTable(RecordWorkerSeen(table, key))
           /\ \A k : StreamsOf(RecordWorkerSeen(table, key), k) = StreamsOf(table, k)
  BY EnsureKeepsCounts DEF RecordWorkerSeen

\* addWorkerStream counts one stream more, for its worker only.
LEMMA AddCounts ==
    ASSUME NEW table, IsTable(table), NEW key \in Keys, key # NoKey
    PROVE  /\ IsTable(AddWorkerStream(table, key))
           /\ StreamsOf(AddWorkerStream(table, key), key) = StreamsOf(table, key) + 1
           /\ \A k : k # key =>
                StreamsOf(AddWorkerStream(table, key), k) = StreamsOf(table, k)
<1> DEFINE ensured == EnsureWorker(table, key)
           added == AddWorkerStream(table, key)
<1>1. /\ IsTable(ensured)
      /\ key \in DOMAIN ensured
      /\ \A k : StreamsOf(ensured, k) = StreamsOf(table, k)
  BY EnsureKeepsCounts
<1>2. added = [ensured EXCEPT ![key].streams = @ + 1]
  BY DEF AddWorkerStream
<1> HIDE DEF ensured, added
<1>3. /\ DOMAIN added = DOMAIN ensured
      /\ added[key] = [ensured[key] EXCEPT !.streams = @ + 1]
      /\ \A k \in DOMAIN ensured \ {key} : added[k] = ensured[k]
  BY <1>1, <1>2
<1>4. ensured[key] \in Entries
  BY <1>1 DEF IsTable
<1>5. added[key] \in Entries /\ added[key].streams = ensured[key].streams + 1
  BY <1>3, <1>4 DEF Entries
<1> QED BY <1>1, <1>3, <1>5 DEF IsTable, StreamsOf, added

\* removeWorkerStream takes back what is counted.
LEMMA RemoveCounts ==
    ASSUME NEW table, IsTable(table), NEW key, key # NoKey
    PROVE  /\ IsTable(RemoveWorkerStream(table, key))
           /\ StreamsOf(table, key) > 0 =>
                StreamsOf(RemoveWorkerStream(table, key), key)
                    = StreamsOf(table, key) - 1
           /\ \A k : k # key =>
                StreamsOf(RemoveWorkerStream(table, key), k) = StreamsOf(table, k)
<1> DEFINE pruned == PruneWorkers(table)
           removed == RemoveWorkerStream(table, key)
           counted == key \in DOMAIN pruned /\ pruned[key].streams > 0
<1>1. IsTable(pruned) /\ \A k : StreamsOf(pruned, k) = StreamsOf(table, k)
  BY PruneKeepsCounts
<1>2. /\ counted => removed = [pruned EXCEPT ![key] =
                                [streams |-> @.streams - 1, stale |-> FALSE]]
      /\ ~counted => removed = pruned
  BY DEF RemoveWorkerStream
<1> HIDE DEF pruned, removed
<1>3. CASE counted
  <2>1. /\ DOMAIN removed = DOMAIN pruned
        /\ removed[key] = [streams |-> pruned[key].streams - 1, stale |-> FALSE]
        /\ \A k \in DOMAIN pruned \ {key} : removed[k] = pruned[k]
    BY <1>2, <1>3
  <2>2. pruned[key] \in Entries
    BY <1>1, <1>3 DEF IsTable
  <2>3. removed[key] \in Entries /\ removed[key].streams = pruned[key].streams - 1
    BY <1>3, <2>1, <2>2 DEF Entries
  <2> QED BY <1>1, <1>3, <2>1, <2>3 DEF IsTable, StreamsOf, removed
<1>4. CASE ~counted
  BY <1>1, <1>2, <1>4 DEF StreamsOf, removed
<1> QED BY <1>3, <1>4

-----------------------------------------------------------------------------
\* The queue: its jobs were created, in that order, and names are given out
\* without gaps.
QueueInv ==
    /\ InOrder(queue)
    /\ Range(queue) \subseteq created
    /\ \A j \in created : 1 .. j - 1 \subseteq created

ClaimInv == TypeOK /\ QueueInv

\* At the start there is neither job nor worker.
LEMMA ClaimInit == Init => ClaimInv
<1> SUFFICES ASSUME Init PROVE ClaimInv
  OBVIOUS
<1>1. queue = <<>> /\ workers = <<>>
  BY DEF Init
<1>2. InOrder(queue) /\ Range(queue) = {} /\ queue \in Seq(JobIds)
  BY <1>1 DEF InOrder, Range
<1>3. DOMAIN workers = {}
  BY <1>1
<1> QED BY <1>2, <1>3 DEF Init, ClaimInv, TypeOK, QueueInv

\* What a call offers is what some worker offers.
LEMMA OfferKeys == \A h \in Calls : Offer[h] \in Claimers /\ Key(Offer[h]) \in Keys
  BY JobClaimAssumption DEF Keys

\* A position of the queue holds a job that was created.
LEMMA QueueElement ==
    ASSUME ClaimInv, NEW i \in DOMAIN queue
    PROVE  /\ i \in 1 .. Len(queue)
           /\ queue[i] \in JobIds
           /\ queue[i] \in Range(queue)
           /\ queue[i] \in created
<1>1. queue \in Seq(JobIds) /\ Range(queue) \subseteq created
  BY DEF ClaimInv, TypeOK, QueueInv
<1>2. i \in 1 .. Len(queue) /\ queue[i] \in JobIds
  BY <1>1
<1> QED BY <1>1, <1>2 DEF Range

\* The new job is younger than all that wait.
LEMMA CreateJobQueue ==
    ASSUME ClaimInv, NEW j \in JobIds, NEW r \in Requests, CreateJob(j, r)
    PROVE  /\ queue' \in Seq(JobIds)
           /\ InOrder(queue')
           /\ Range(queue') = Range(queue) \cup {j}
<1>1. \A k \in 1 .. Len(queue) : queue[k] \in JobIds /\ queue[k] \in created
  BY QueueElement DEF ClaimInv, TypeOK
<1>2. ASSUME NEW k \in 1 .. Len(queue) PROVE queue[k] < j
  <2>1. queue[k] \in Nat /\ j \in Nat /\ j >= 1
    BY <1>1, JobQueueAssumption DEF JobIds
  <2>2. queue[k] # j /\ j \notin 1 .. queue[k] - 1
    BY <1>1 DEF CreateJob, ClaimInv, QueueInv
  <2> QED BY <2>1, <2>2
<1>3. j \in JobIds \cap Nat
  BY JobQueueAssumption DEF JobIds
<1> QED BY <1>2, <1>3, AppendInOrder DEF CreateJob, ClaimInv, TypeOK, QueueInv

\* A creation keeps types and order.
LEMMA CreateJobInv ==
    ASSUME ClaimInv, NEW j \in JobIds, NEW r \in Requests, CreateJob(j, r)
    PROVE  ClaimInv'
<1>1. queue' \in Seq(JobIds) /\ InOrder(queue') /\ Range(queue') = Range(queue) \cup {j}
  BY CreateJobQueue
<1>2. TypeOK'
  BY <1>1 DEF CreateJob, ClaimInv, TypeOK, callVars
<1>3. QueueInv'
  BY <1>1 DEF CreateJob, ClaimInv, QueueInv
<1> QED BY <1>2, <1>3 DEF ClaimInv

\* A claim takes its job out of the queue, and only that.
LEMMA ClaimQueue ==
    ASSUME ClaimInv, NEW h \in Calls, NEW i \in DOMAIN queue, Claim(h, i)
    PROVE  /\ queue' \in Seq(JobIds)
           /\ InOrder(queue')
           /\ Range(queue') = Range(queue) \ {queue[i]}
  BY QueueElement, RemoveAtInOrder DEF Claim, ClaimInv, TypeOK, QueueInv

\* A claim keeps types and order.
LEMMA ClaimStepInv ==
    ASSUME ClaimInv, NEW h \in Calls, NEW i \in DOMAIN queue, Claim(h, i)
    PROVE  ClaimInv'
<1>1. /\ queue' \in Seq(JobIds)
      /\ InOrder(queue')
      /\ Range(queue') \subseteq Range(queue)
  BY ClaimQueue
<1>2. TypeOK'
  <2>1. Offer[h] \in Claimers
    BY OfferKeys
  <2>2. /\ claimant' \in [JobIds -> Claimers \cup {NoClaimer}]
        /\ pc' \in [Calls -> {"idle", "top", "scan", "record", "wait", "leave"}]
        /\ lost' \in [Calls -> Nat]
    BY <2>1 DEF Claim, Goto, ClaimInv, TypeOK
  <2>3. UNCHANGED <<request, created, notify, signaling, workers, late, gone, robbed>>
    BY DEF Claim
  <2> QED BY <1>1, <2>2, <2>3 DEF ClaimInv, TypeOK
<1>3. QueueInv'
  BY <1>1 DEF Claim, ClaimInv, QueueInv
<1> QED BY <1>2, <1>3 DEF ClaimInv

\* So does the withdrawal of a job.
LEMMA WithdrawInv ==
    ASSUME ClaimInv, NEW j \in JobIds, Withdraw(j)
    PROVE  ClaimInv' /\ Range(queue') = Range(queue) \ {j}
<1>1. /\ queue' \in Seq(JobIds)
      /\ InOrder(queue')
      /\ Range(queue') = Range(queue) \ {j}
  BY RemoveFirstInOrder
  DEF RemoveFromQueue, Withdraw, ClaimInv, TypeOK, QueueInv
<1>2. TypeOK'
  BY <1>1 DEF Withdraw, ClaimInv, TypeOK, callVars
<1>3. QueueInv'
  BY <1>1 DEF Withdraw, ClaimInv, QueueInv
<1> QED BY <1>1, <1>2, <1>3 DEF ClaimInv

\* The steps that enter something in the table of workers.
LEMMA WorkerTable ==
    ASSUME ClaimInv, [Next]_vars
    PROVE  IsTable(workers')
<1>1. IsTable(workers)
  BY DEF ClaimInv, TypeOK, IsTable, Keys
<1>2. ASSUME NEW h \in Calls, OpenPoll(h) \/ Record(h) PROVE IsTable(workers')
  BY <1>1, <1>2, OfferKeys, SeenKeepsCounts DEF OpenPoll, Record
<1>3. ASSUME NEW s \in Streams, OpenStream(s) PROVE IsTable(workers')
  BY <1>1, <1>3, OfferKeys, AddCounts DEF OpenStream, Calls, AddWorkerStream
<1>4. ASSUME NEW s \in Streams, LeaveStream(s) PROVE IsTable(workers')
  BY <1>1, <1>4, RemoveCounts DEF LeaveStream, RemoveWorkerStream
<1>5. ASSUME NEW k \in DOMAIN workers, GrowStale(k) PROVE IsTable(workers')
  BY <1>1, <1>5 DEF GrowStale, IsTable, Entries
<1>6. CASE StateSnapshot
  BY <1>1, <1>6, PruneKeepsCounts DEF StateSnapshot
<1>7. CASE UNCHANGED workers
  BY <1>1, <1>7
<1> QED BY <1>2, <1>3, <1>4, <1>5, <1>6, <1>7 DEF Next, vars, Calls, CreateJob,
        Signal, Withdraw, DeadlinePasses, TimeOut, StreamTop, KeepAlive, Claim,
        NothingToClaim, Wake, ClientLeaves, HangUp

\* Every step keeps types and order.
LEMMA ClaimStep == ClaimInv /\ [Next]_vars => ClaimInv'
<1> SUFFICES ASSUME ClaimInv, [Next]_vars PROVE ClaimInv'
  OBVIOUS
<1>1. ASSUME UNCHANGED tableVars, notify' \in {0, 1}, signaling' \subseteq signaling,
             pc' \in [Calls -> {"idle", "top", "scan", "record", "wait", "leave"}],
             late' \in [Calls -> BOOLEAN], gone' \in [Calls -> BOOLEAN],
             lost' \in [Calls -> Nat], robbed' \subseteq Calls
      PROVE  ClaimInv'
  BY <1>1, WorkerTable DEF ClaimInv, TypeOK, QueueInv, tableVars, IsTable, Keys
<1> DEFINE CallStep(h) ==
             \/ h \in Polls /\ (OpenPoll(h) \/ DeadlinePasses(h) \/ TimeOut(h))
             \/ h \in Streams /\ (OpenStream(h) \/ StreamTop(h) \/ KeepAlive(h)
                                    \/ LeaveStream(h))
             \/ NothingToClaim(h) \/ Record(h) \/ Wake(h)
             \/ ClientLeaves(h) \/ HangUp(h)
<1>2. ASSUME NEW h \in Calls, CallStep(h) PROVE ClaimInv'
  <2>1. UNCHANGED <<tableVars, signaling>> /\ notify' \in {0, 1}
    BY <1>2 DEF ClaimInv, TypeOK, OpenPoll, DeadlinePasses, TimeOut, OpenStream,
       StreamTop, KeepAlive, LeaveStream, NothingToClaim, Record, Wake,
       ClientLeaves, HangUp
  <2>2. pc' \in [Calls -> {"idle", "top", "scan", "record", "wait", "leave"}]
    BY <1>2 DEF ClaimInv, TypeOK, OpenPoll, DeadlinePasses, TimeOut, OpenStream,
       StreamTop, KeepAlive, LeaveStream, NothingToClaim, Record, Wake,
       ClientLeaves, HangUp, Goto
  <2>3. late' \in [Calls -> BOOLEAN] /\ gone' \in [Calls -> BOOLEAN]
    <3>1. CASE OpenPoll(h)
      BY <3>1 DEF OpenPoll, ClaimInv, TypeOK
    <3>2. CASE ~OpenPoll(h)
      BY <1>2, <3>2 DEF ClaimInv, TypeOK, DeadlinePasses, TimeOut, OpenStream,
         StreamTop, KeepAlive, LeaveStream, NothingToClaim, Record, Wake,
         ClientLeaves, HangUp
    <3> QED BY <3>1, <3>2
  <2>4. lost' \in [Calls -> Nat]
    BY <1>2 DEF ClaimInv, TypeOK, OpenPoll, DeadlinePasses, TimeOut, OpenStream,
       StreamTop, KeepAlive, LeaveStream, NothingToClaim, Record, Wake,
       ClientLeaves, HangUp
  <2>5. robbed' \subseteq Calls
    BY <1>2 DEF ClaimInv, TypeOK, OpenPoll, DeadlinePasses, TimeOut, OpenStream,
       StreamTop, KeepAlive, LeaveStream, NothingToClaim, Record, Wake,
       ClientLeaves, HangUp
  <2> QED BY <1>1, <2>1, <2>2, <2>3, <2>4, <2>5
<1>3. ASSUME NEW j \in JobIds, Signal(j) PROVE ClaimInv'
  BY <1>1, <1>3 DEF Signal, callVars, ClaimInv, TypeOK
<1>4. CASE \/ \E k \in DOMAIN workers : GrowStale(k)
           \/ StateSnapshot
           \/ UNCHANGED vars
  BY <1>1, <1>4 DEF GrowStale, StateSnapshot, vars, callVars, ClaimInv, TypeOK
<1> HIDE DEF CallStep
<1>5. \/ \E j \in JobIds : \/ \E r \in Requests : CreateJob(j, r)
                           \/ Signal(j)
                           \/ Withdraw(j)
      \/ \E h \in Calls, i \in DOMAIN queue : Claim(h, i)
      \/ \E h \in Calls : CallStep(h)
      \/ \E k \in DOMAIN workers : GrowStale(k)
      \/ StateSnapshot
      \/ UNCHANGED vars
  BY DEF Next, CallStep, Calls
<1> QED BY <1>2, <1>3, <1>4, <1>5, CreateJobInv, ClaimStepInv, WithdrawInv

\* Types and the order of the queue hold in every reachable state.
THEOREM ClaimInvariant == Spec => []ClaimInv
  BY ClaimInit, ClaimStep, PTL DEF Spec

\* Every variable keeps its type (TypeOK).
THEOREM TypeCorrect == Spec => []TypeOK
  BY ClaimInvariant, PTL DEF ClaimInv

-----------------------------------------------------------------------------
\* A call that claimed for a client who had left is on its way out: LosesAtMostOne
\* alone would let it come back to the queue.
LosersLeave ==
    \A h \in Calls :
        lost[h] > 0 => gone[h] /\ pc[h] \in {"record", "top", "leave", "idle"}

LossInv == LosersLeave /\ LosesAtMostOne

\* A claim adds one to what the call lost, and it had lost nothing.
LEMMA LossStep == TypeOK /\ LossInv /\ [Next]_vars => LossInv'
<1> SUFFICES ASSUME TypeOK, LossInv, [Next]_vars PROVE LossInv'
  OBVIOUS
<1> USE DEF LossInv, LosersLeave, LosesAtMostOne
<1>0. /\ lost \in [Calls -> Nat] /\ gone \in [Calls -> BOOLEAN]
      /\ pc \in [Calls -> {"idle", "top", "scan", "record", "wait", "leave"}]
  BY DEF TypeOK
<1>1. ASSUME NEW h \in Calls, NEW i \in DOMAIN queue, Claim(h, i) PROVE LossInv'
  <2>1. lost[h] = 0
    <3>1. pc[h] = "scan"
      BY <1>1 DEF Claim
    <3> QED BY <1>0, <3>1
  <2>2. /\ \A g \in Calls : g # h => lost'[g] = lost[g] /\ pc'[g] = pc[g]
        /\ lost'[h] = (IF gone[h] THEN 1 ELSE 0) /\ pc'[h] = "record"
        /\ gone' = gone
    <3>1. /\ lost' = IF gone[h] THEN [lost EXCEPT ![h] = @ + 1] ELSE lost
          /\ pc' = [pc EXCEPT ![h] = "record"]
          /\ gone' = gone
      BY <1>1 DEF Claim, Goto
    <3> QED BY <1>0, <2>1, <3>1
  <2> QED BY <1>0, <2>2
<1>2. ASSUME NEW h \in Calls, OpenPoll(h) \/ OpenStream(h) PROVE LossInv'
  <2>1. /\ lost' = [lost EXCEPT ![h] = 0]
        /\ gone' = [gone EXCEPT ![h] = FALSE]
        /\ \A g \in Calls : g # h => pc'[g] = pc[g]
    BY <1>0, <1>2 DEF OpenPoll, OpenStream, Goto
  <2> QED BY <1>0, <2>1
<1>3. ASSUME NEW s \in Streams,
             StreamTop(s) \/ KeepAlive(s) \/ LeaveStream(s)
      PROVE  LossInv'
  <2>1. /\ UNCHANGED <<lost, gone>>
        /\ pc[s] \in {"top", "wait", "leave"}
        /\ pc' = [pc EXCEPT ![s] = IF pc[s] = "wait" THEN "record"
                                   ELSE IF pc[s] = "leave" THEN "idle"
                                   ELSE IF gone[s] THEN "leave" ELSE "scan"]
    BY <1>3 DEF StreamTop, KeepAlive, LeaveStream, Goto
  <2> QED BY <1>0, <2>1 DEF Calls
<1>4. ASSUME NEW h \in Calls, NothingToClaim(h) \/ Record(h) \/ Wake(h)
      PROVE  LossInv'
  <2>1. /\ UNCHANGED <<lost, gone>>
        /\ \A g \in Calls : g # h => pc'[g] = pc[g]
        /\ \/ pc[h] \in {"scan", "wait"}
           \/ pc'[h] \in {"idle", "top"}
    BY <1>0, <1>4 DEF NothingToClaim, Record, Wake, Goto
  <2> QED BY <1>0, <2>1
<1>5. ASSUME NEW h \in Calls,
             DeadlinePasses(h) \/ TimeOut(h) \/ ClientLeaves(h) \/ HangUp(h)
      PROVE  LossInv'
  <2>1. /\ lost' = lost
        /\ \A g \in Calls : gone[g] => gone'[g]
        /\ \A g \in Calls : pc'[g] = pc[g] \/ pc'[g] \in {"idle", "leave"}
    BY <1>0, <1>5 DEF DeadlinePasses, TimeOut, ClientLeaves, HangUp, Goto
  <2> QED BY <1>0, <2>1
<1>6. CASE UNCHANGED callVars
  BY <1>6 DEF callVars
<1> QED BY <1>1, <1>2, <1>3, <1>4, <1>5, <1>6 DEF Next, vars, Calls, CreateJob,
        Signal, Withdraw, GrowStale, StateSnapshot

\* A connection that went away costs at most one job (LosesAtMostOne).
THEOREM LossesAreBounded == Spec => []LosesAtMostOne
<1>1. Init => LossInv
  BY DEF Init, LossInv, LosersLeave, LosesAtMostOne
<1> QED BY <1>1, LossStep, TypeCorrect, PTL DEF Spec, LossInv

-----------------------------------------------------------------------------
\* A step that leaves the queue as it is, or takes jobs out of it, lets nobody
\* claim who could not.
LEMMA FewerToClaim ==
    ASSUME ClaimInv, [Next]_vars, request' = request,
           Range(queue') \subseteq Range(queue), NEW h \in Calls, CanClaim(h)'
    PROVE  CanClaim(h)
<1>1. PICK i \in DOMAIN queue' : Claimable(request[queue'[i]], Offer[h])
  BY DEF CanClaim
<1>2. queue'[i] \in Range(queue)
  BY <1>1 DEF Range
<1> QED BY <1>1, <1>2 DEF CanClaim, Range

\* A wake-up that is not in the channel nor on its way was taken by another.
LEMMA WakeupStep == ClaimInv /\ OnlyTheftLosesWakeups /\ [Next]_vars
                        => OnlyTheftLosesWakeups'
<1> SUFFICES ASSUME ClaimInv, OnlyTheftLosesWakeups, [Next]_vars,
                    NEW h \in Calls, pc'[h] = "wait", CanClaim(h)'
             PROVE  notify' = 1 \/ signaling' # {} \/ h \in robbed'
  BY DEF OnlyTheftLosesWakeups
<1>1. CASE \E j \in JobIds, r \in Requests : CreateJob(j, r)
  BY <1>1 DEF CreateJob
<1>2. CASE \E j \in JobIds : Signal(j)
  BY <1>2 DEF Signal
<1>3. ASSUME NEW g \in Calls, NothingToClaim(g)
      PROVE  notify' = 1 \/ signaling' # {} \/ h \in robbed'
  <2>1. CanClaim(h)
    BY <1>3, FewerToClaim DEF NothingToClaim, tableVars
  <2>2. g # h
    BY <1>3, <2>1 DEF NothingToClaim
  <2>3. pc[h] = "wait"
    BY <1>3, <2>2 DEF NothingToClaim, Goto, ClaimInv, TypeOK
  <2> QED BY <1>3, <2>1, <2>2, <2>3 DEF NothingToClaim, OnlyTheftLosesWakeups
<1>4. ASSUME NEW g \in Calls, Wake(g)
      PROVE  notify' = 1 \/ signaling' # {} \/ h \in robbed'
  BY <1>4 DEF Wake, Goto, ClaimInv, TypeOK
<1>5. ASSUME UNCHANGED <<notify, signaling, robbed, request>>,
             Range(queue') \subseteq Range(queue), pc[h] = "wait"
      PROVE  notify' = 1 \/ signaling' # {} \/ h \in robbed'
  BY <1>5, FewerToClaim DEF OnlyTheftLosesWakeups
<1>6. ASSUME NEW g \in Calls, NEW i \in DOMAIN queue, Claim(g, i)
      PROVE  notify' = 1 \/ signaling' # {} \/ h \in robbed'
  <2>1. Range(queue') \subseteq Range(queue)
    BY <1>6, ClaimQueue
  <2> QED BY <1>5, <1>6, <2>1 DEF Claim, Goto, ClaimInv, TypeOK
<1>7. ASSUME NEW j \in JobIds, Withdraw(j)
      PROVE  notify' = 1 \/ signaling' # {} \/ h \in robbed'
  BY <1>5, <1>7, WithdrawInv DEF Withdraw, callVars
<1>8. ASSUME NEW g \in Calls,
             \/ OpenPoll(g) \/ DeadlinePasses(g) \/ TimeOut(g)
             \/ OpenStream(g) \/ StreamTop(g) \/ KeepAlive(g) \/ LeaveStream(g)
             \/ Record(g) \/ ClientLeaves(g) \/ HangUp(g)
      PROVE  notify' = 1 \/ signaling' # {} \/ h \in robbed'
  <2>1. UNCHANGED <<tableVars, notify, signaling, robbed>>
    BY <1>8 DEF OpenPoll, DeadlinePasses, TimeOut, OpenStream, StreamTop,
       KeepAlive, LeaveStream, Record, ClientLeaves, HangUp
  <2>2. pc[h] = "wait"
    BY <1>8 DEF OpenPoll, DeadlinePasses, TimeOut, OpenStream, StreamTop,
       KeepAlive, LeaveStream, Record, ClientLeaves, HangUp, Goto, ClaimInv, TypeOK
  <2> QED BY <1>5, <2>1, <2>2 DEF tableVars
<1>9. CASE \/ \E k \in DOMAIN workers : GrowStale(k)
           \/ StateSnapshot
           \/ UNCHANGED vars
  BY <1>5, <1>9 DEF GrowStale, StateSnapshot, vars, tableVars, callVars
<1> QED BY <1>1, <1>2, <1>3, <1>4, <1>6, <1>7, <1>8, <1>9 DEF Next, Calls

\* A worker waits with a job for it in the queue only if another call took the
\* wake-up (OnlyTheftLosesWakeups).
THEOREM WakeupsAreStolenAtWorst == Spec => []OnlyTheftLosesWakeups
<1>1. Init => OnlyTheftLosesWakeups
  BY DEF Init, OnlyTheftLosesWakeups
<1> QED BY <1>1, WakeupStep, ClaimInvariant, PTL DEF Spec

-----------------------------------------------------------------------------
\* Streams and the table of workers, for every worker that has a name.  That
\* few streams are open at a time is a part of it.
CountInv ==
    \A k \in Keys \ {NoKey} :
        /\ IsFiniteSet(OpenStreams(k))
        /\ Cardinality(OpenStreams(k)) = StreamsOf(workers, k)

\* A step that opens and closes no stream and keeps the counts.
LEMMA CountQuiet ==
    ASSUME CountInv, \A s \in Streams : pc'[s] = "idle" <=> pc[s] = "idle",
           \A k : StreamsOf(workers', k) = StreamsOf(workers, k)
    PROVE  CountInv'
<1>1. \A k : OpenStreams(k)' = OpenStreams(k)
  BY DEF OpenStreams
<1> QED BY <1>1 DEF CountInv

\* A stream that opens is counted for its worker.
LEMMA CountOpen ==
    ASSUME ClaimInv, CountInv, NEW s \in Streams, OpenStream(s)
    PROVE  CountInv'
<1> DEFINE key == Key(Offer[s])
<1>1. IsTable(workers) /\ key \in Keys
  BY OfferKeys DEF ClaimInv, TypeOK, IsTable, Keys, Calls
<1>2. /\ pc[s] = "idle" /\ pc' = [pc EXCEPT ![s] = "top"]
      /\ DOMAIN pc = Calls /\ s \in Calls
      /\ workers' = AddWorkerStream(workers, key)
  BY DEF OpenStream, Goto, ClaimInv, TypeOK, Calls
<1> HIDE DEF key
<1>3. CASE key = NoKey
  <2>1. workers' = workers
    BY <1>2, <1>3 DEF AddWorkerStream
  <2>2. \A k \in Keys \ {NoKey} : OpenStreams(k)' = OpenStreams(k)
    BY <1>2, <1>3 DEF OpenStreams, Calls, key
  <2> QED BY <2>1, <2>2 DEF CountInv
<1>4. CASE key # NoKey
  <2>1. /\ StreamsOf(workers', key) = StreamsOf(workers, key) + 1
        /\ \A k : k # key => StreamsOf(workers', k) = StreamsOf(workers, k)
    BY <1>1, <1>2, <1>4, AddCounts
  <2>2. /\ OpenStreams(key)' = OpenStreams(key) \cup {s}
        /\ s \notin OpenStreams(key)
        /\ \A k : k # key => OpenStreams(k)' = OpenStreams(k)
    BY <1>2 DEF OpenStreams, Calls, key
  <2>3. /\ IsFiniteSet(OpenStreams(key) \cup {s})
        /\ Cardinality(OpenStreams(key) \cup {s}) = Cardinality(OpenStreams(key)) + 1
    BY <1>1, <1>4, <2>2, FS_AddElement DEF CountInv
  <2>4. IsFiniteSet(OpenStreams(key)') /\ Cardinality(OpenStreams(key)') = StreamsOf(workers', key)
    BY <1>1, <1>4, <2>1, <2>2, <2>3 DEF CountInv
  <2>5. \A k \in Keys \ {NoKey} : k # key =>
          /\ IsFiniteSet(OpenStreams(k)')
          /\ Cardinality(OpenStreams(k)') = StreamsOf(workers', k)
    BY <2>1, <2>2 DEF CountInv
  <2> QED BY <2>4, <2>5 DEF CountInv
<1> QED BY <1>3, <1>4

\* A stream that closes had been counted, so that its entry is still there.
LEMMA CountLeave ==
    ASSUME ClaimInv, CountInv, NEW s \in Streams, LeaveStream(s)
    PROVE  CountInv'
<1> DEFINE key == Key(Offer[s])
<1>1. IsTable(workers) /\ key \in Keys
  BY OfferKeys DEF ClaimInv, TypeOK, IsTable, Keys, Calls
<1>2. /\ pc[s] = "leave" /\ pc' = [pc EXCEPT ![s] = "idle"]
      /\ DOMAIN pc = Calls /\ s \in Calls
      /\ workers' = RemoveWorkerStream(workers, key)
  BY DEF LeaveStream, Goto, ClaimInv, TypeOK, Calls
<1> HIDE DEF key
<1>3. CASE key = NoKey
  <2>1. workers' = workers
    BY <1>2, <1>3 DEF RemoveWorkerStream
  <2>2. \A k \in Keys \ {NoKey} : OpenStreams(k)' = OpenStreams(k)
    BY <1>2, <1>3 DEF OpenStreams, Calls, key
  <2> QED BY <2>1, <2>2 DEF CountInv
<1>4. CASE key # NoKey
  <2>1. /\ OpenStreams(key)' = OpenStreams(key) \ {s}
        /\ s \in OpenStreams(key)
        /\ \A k : k # key => OpenStreams(k)' = OpenStreams(k)
    BY <1>2 DEF OpenStreams, Calls, key
  <2>2. /\ IsFiniteSet(OpenStreams(key))
        /\ Cardinality(OpenStreams(key)) = StreamsOf(workers, key)
    BY <1>1, <1>4 DEF CountInv
  <2>3. StreamsOf(workers, key) > 0
    BY <2>1, <2>2, FS_EmptySet, FS_CardinalityType
  <2>4. /\ StreamsOf(workers', key) = StreamsOf(workers, key) - 1
        /\ \A k : k # key => StreamsOf(workers', k) = StreamsOf(workers, k)
    BY <1>1, <1>2, <1>4, <2>3, RemoveCounts
  <2>5. /\ IsFiniteSet(OpenStreams(key) \ {s})
        /\ Cardinality(OpenStreams(key) \ {s}) = Cardinality(OpenStreams(key)) - 1
    BY <2>1, <2>2, FS_RemoveElement
  <2>6. IsFiniteSet(OpenStreams(key)') /\ Cardinality(OpenStreams(key)') = StreamsOf(workers', key)
    BY <2>1, <2>2, <2>4, <2>5
  <2>7. \A k \in Keys \ {NoKey} : k # key =>
          /\ IsFiniteSet(OpenStreams(k)')
          /\ Cardinality(OpenStreams(k)') = StreamsOf(workers', k)
    BY <2>1, <2>4 DEF CountInv
  <2> QED BY <2>6, <2>7 DEF CountInv
<1> QED BY <1>3, <1>4

\* Every step keeps streams and counts together.
LEMMA CountStep == ClaimInv /\ CountInv /\ [Next]_vars => CountInv'
<1> SUFFICES ASSUME ClaimInv, CountInv, [Next]_vars PROVE CountInv'
  OBVIOUS
<1>0. /\ IsTable(workers) /\ DOMAIN pc = Calls
      /\ \A s \in Streams : s \in Calls /\ s \notin Polls
  BY JobClaimAssumption DEF ClaimInv, TypeOK, IsTable, Keys, Calls
<1>1. ASSUME NEW p \in Polls, OpenPoll(p) PROVE CountInv'
  <2>1. \A k : StreamsOf(workers', k) = StreamsOf(workers, k)
    BY <1>0, <1>1, OfferKeys, SeenKeepsCounts DEF OpenPoll, Calls
  <2> QED BY <1>0, <1>1, <2>1, CountQuiet DEF OpenPoll, Goto
<1>2. ASSUME NEW h \in Calls, Record(h) PROVE CountInv'
  <2>1. \A k : StreamsOf(workers', k) = StreamsOf(workers, k)
    BY <1>0, <1>2, OfferKeys, SeenKeepsCounts DEF Record
  <2> QED BY <1>0, <1>2, <2>1, CountQuiet DEF Record, Goto
<1>3. ASSUME UNCHANGED workers,
             \A s \in Streams : pc'[s] = "idle" <=> pc[s] = "idle"
      PROVE  CountInv'
  BY <1>3, CountQuiet
<1>4. ASSUME NEW p \in Polls, DeadlinePasses(p) \/ TimeOut(p) PROVE CountInv'
  BY <1>0, <1>3, <1>4 DEF DeadlinePasses, TimeOut, Goto
<1>5. ASSUME NEW s \in Streams, StreamTop(s) \/ KeepAlive(s) PROVE CountInv'
  BY <1>0, <1>3, <1>5 DEF StreamTop, KeepAlive, Goto
<1>6. ASSUME NEW h \in Calls,
             \/ \E i \in DOMAIN queue : Claim(h, i)
             \/ NothingToClaim(h) \/ Wake(h) \/ ClientLeaves(h) \/ HangUp(h)
      PROVE  CountInv'
  BY <1>0, <1>3, <1>6 DEF Claim, NothingToClaim, Wake, ClientLeaves, HangUp, Goto
<1>7. ASSUME NEW k \in DOMAIN workers, GrowStale(k) PROVE CountInv'
  <2>1. \A l : StreamsOf(workers', l) = StreamsOf(workers, l)
    BY <1>0, <1>7 DEF GrowStale, StreamsOf, IsTable, Entries
  <2> QED BY <1>7, <2>1, CountQuiet DEF GrowStale, callVars
<1>8. CASE StateSnapshot
  <2>1. \A l : StreamsOf(workers', l) = StreamsOf(workers, l)
    BY <1>0, <1>8, PruneKeepsCounts DEF StateSnapshot
  <2> QED BY <1>8, <2>1, CountQuiet DEF StateSnapshot, callVars
<1>9. CASE UNCHANGED <<workers, pc>>
  BY <1>3, <1>9
<1> QED BY <1>1, <1>2, <1>4, <1>5, <1>6, <1>7, <1>8, <1>9, CountOpen, CountLeave
        DEF Next, vars, callVars, CreateJob, Signal, Withdraw

\* What the state view says of streams is true (StreamsAreCounted).
THEOREM StreamCountsAreTrue == Spec => []StreamsAreCounted
<1>1. Init => CountInv
  <2> SUFFICES ASSUME Init PROVE CountInv
    OBVIOUS
  <2>1. \A k : OpenStreams(k) = {} /\ StreamsOf(workers, k) = 0
    <3>1. DOMAIN workers = {} /\ \A s \in Streams : pc[s] = "idle"
      BY DEF Init, Calls
    <3> QED BY <3>1 DEF OpenStreams, StreamsOf
  <2> QED BY <2>1, FS_EmptySet DEF CountInv
<1>2. CountInv => StreamsAreCounted
  BY OfferKeys DEF CountInv, StreamsAreCounted, StreamsOf
<1> QED BY <1>1, <1>2, CountStep, ClaimInvariant, PTL DEF Spec

-----------------------------------------------------------------------------
\* Every step of the calls is a step of JobDispatch or none.
LEMMA DispatchStep == ClaimInv /\ [Next]_vars
                          => [Dispatch!Next]_(Dispatch!dispatchVars)
<1> SUFFICES ASSUME ClaimInv, [Next]_vars
             PROVE  [Dispatch!Next]_(Dispatch!dispatchVars)
  OBVIOUS
<1> USE DEF Dispatch!JobIds, Dispatch!dispatchVars
<1>1. ASSUME NEW j \in JobIds, NEW r \in Requests, CreateJob(j, r)
      PROVE  Dispatch!Submit(j, r)
  BY <1>1, CreateJobQueue DEF CreateJob, Dispatch!Submit
<1>2. ASSUME NEW h \in Calls, NEW i \in DOMAIN queue, Claim(h, i)
      PROVE  Dispatch!Assign(queue[i], Offer[h])
  <2>1. /\ i \in 1 .. Len(queue)
        /\ queue[i] \in JobIds
        /\ queue[i] \in Range(queue)
        /\ Range(queue') = Range(queue) \ {queue[i]}
    BY <1>2, QueueElement, ClaimQueue
  <2>2. Dispatch!Claimable(request[queue[i]], Offer[h])
    BY <1>2 DEF Claim, IsFirstClaimable, Dispatch!Claimable, Claimable,
       Dispatch!IsCompatibleClaim, IsCompatibleClaim, Dispatch!NoName, NoName
  <2>3. ASSUME NEW k \in Range(queue), k < queue[i]
        PROVE  ~Dispatch!Claimable(request[k], Offer[h])
    <3>1. PICK p \in DOMAIN queue : queue[p] = k
      BY DEF Range
    <3>2. p \in 1 .. Len(queue) /\ queue[p] \in Nat /\ queue[i] \in Nat
      BY <2>1, <3>1, QueueElement, JobQueueAssumption DEF JobIds
    <3>3. ~(i < p) /\ i # p
      BY <2>1, <2>3, <3>1, <3>2 DEF ClaimInv, QueueInv, InOrder
    <3>4. p \in 1 .. i - 1
      BY <2>1, <3>2, <3>3
    <3>5. ~Claimable(request[queue[p]], Offer[h])
      BY <1>2, <3>4 DEF Claim, IsFirstClaimable
    <3> QED BY <3>1, <3>5 DEF Dispatch!Claimable, Claimable,
            Dispatch!IsCompatibleClaim, IsCompatibleClaim, Dispatch!NoName, NoName
  <2> QED BY <1>2, <2>1, <2>2, <2>3 DEF Claim, Dispatch!Assign
<1>3. ASSUME NEW j \in JobIds, Withdraw(j) PROVE Dispatch!Withdraw(j)
  BY <1>3, WithdrawInv DEF Withdraw, Dispatch!Withdraw
<1>4. CASE \E j \in JobIds, r \in Requests : CreateJob(j, r)
  BY <1>1, <1>4 DEF Dispatch!Next, JobIds
<1>5. CASE \E h \in Calls, i \in DOMAIN queue : Claim(h, i)
  BY <1>2, <1>5, OfferKeys, QueueElement DEF Dispatch!Next, JobIds
<1>6. CASE \E j \in JobIds : Withdraw(j)
  BY <1>3, <1>6 DEF Dispatch!Next, JobIds
<1>7. CASE UNCHANGED tableVars
  BY <1>7 DEF tableVars
<1> QED BY <1>4, <1>5, <1>6, <1>7 DEF Next, vars, Signal, OpenPoll, DeadlinePasses,
        TimeOut, OpenStream, StreamTop, KeepAlive, LeaveStream, NothingToClaim,
        Record, Wake, ClientLeaves, HangUp, GrowStale, StateSnapshot

\* Polls and streams that race for the queue implement JobDispatch
\* (ImplementsDispatch).
THEOREM CallsImplementDispatch == Spec => ImplementsDispatch
<1>1. Init => Dispatch!Init
  <2> SUFFICES ASSUME Init PROVE Dispatch!Init
    OBVIOUS
  <2>1. Range(queue) = {}
    BY DEF Init, Range
  <2> QED BY <2>1 DEF Init, Dispatch!Init, Dispatch!JobIds, JobIds,
          Dispatch!NoRequest, Dispatch!NoClaimer, Dispatch!NoName,
          NoRequest, NoClaimer, NoName
<1> QED BY <1>1, DispatchStep, ClaimInvariant, PTL
        DEF Spec, ImplementsDispatch, Dispatch!Spec
=============================================================================

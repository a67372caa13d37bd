-------------------------- MODULE JobRegistryProofs --------------------------
(***************************************************************************)
(* What TLAPS proves about JobRegistry, for any numbers of jobs, clients   *)
(* and handlers and for any requests and claimers.                         *)
(***************************************************************************)
EXTENDS JobRegistry, SequenceTheorems, FiniteSetTheorems, TLAPS

-----------------------------------------------------------------------------
(* The queue of the jobs: what Append, RemoveAt and RemoveFirst leave of   *)
(* it.                                                                     *)

\* Numbers that name jobs in the order of their creation, the oldest first.
InOrder(q) ==
    /\ \A i \in 1 .. Len(q) : q[i] \in Nat
    /\ \A i, k \in 1 .. Len(q) : i < k => q[i] < q[k]

\* What is left after RemoveAt: one element less, those behind it moved up.
LEMMA RemoveAtProperties ==
    ASSUME NEW S, NEW q \in Seq(S), NEW i \in 1 .. Len(q)
    PROVE  /\ RemoveAt(q, i) \in Seq(S)
           /\ Len(RemoveAt(q, i)) = Len(q) - 1
           /\ \A k \in 1 .. Len(q) - 1 :
                RemoveAt(q, i)[k] = IF k < i THEN q[k] ELSE q[k + 1]
<1> DEFINE front == SubSeq(q, 1, i - 1)
           back == SubSeq(q, i + 1, Len(q))
<1>1. \A k \in 1 .. Len(q) : q[k] \in S
  BY ElementOfSeq
<1>2. /\ front \in Seq(S)
      /\ Len(front) = i - 1
      /\ \A k \in 1 .. i - 1 : front[k] = q[k]
  BY <1>1, SubSeqProperties
<1>3. /\ back \in Seq(S)
      /\ Len(back) = Len(q) - i
      /\ \A k \in 1 .. Len(q) - i : back[k] = q[k + i]
  BY <1>1, SubSeqProperties
<1> HIDE DEF front, back
<1>4. /\ front \o back \in Seq(S)
      /\ Len(front \o back) = Len(q) - 1
      /\ \A k \in 1 .. Len(q) - 1 :
           (front \o back)[k] = IF k <= i - 1 THEN front[k] ELSE back[k - (i - 1)]
  BY <1>2, <1>3, ConcatProperties
<1>5. ASSUME NEW k \in 1 .. Len(q) - 1
      PROVE  (front \o back)[k] = IF k < i THEN q[k] ELSE q[k + 1]
  <2>1. CASE k < i
    <3>1. k \in 1 .. i - 1 /\ k <= i - 1
      BY <2>1
    <3> QED BY <1>2, <1>4, <2>1, <3>1
  <2>2. CASE ~ (k < i)
    <3>1. k - (i - 1) \in 1 .. Len(q) - i /\ (k - (i - 1)) + i = k + 1 /\ ~ (k <= i - 1)
      BY <2>2
    <3> QED BY <1>3, <1>4, <2>2, <3>1
  <2> QED BY <2>1, <2>2
<1> QED BY <1>4, <1>5 DEF RemoveAt, front, back

\* Such a queue stays in order, and loses nothing else.
LEMMA RemoveAtInOrder ==
    ASSUME NEW S, NEW q \in Seq(S), InOrder(q),
           NEW i \in 1 .. Len(q)
    PROVE  /\ RemoveAt(q, i) \in Seq(S)
           /\ InOrder(RemoveAt(q, i))
           /\ Range(RemoveAt(q, i)) = Range(q) \ {q[i]}
<1> DEFINE rest == RemoveAt(q, i)
           From(k) == IF k < i THEN k ELSE k + 1
<1>1. rest \in Seq(S) /\ Len(rest) = Len(q) - 1
  BY RemoveAtProperties
<1>2. \A k \in 1 .. Len(rest) : rest[k] = IF k < i THEN q[k] ELSE q[k + 1]
  BY RemoveAtProperties
<1> HIDE DEF rest
<1>3. \A k \in 1 .. Len(rest) :
        From(k) \in 1 .. Len(q) /\ From(k) # i /\ rest[k] = q[From(k)]
  BY <1>1, <1>2
<1>4. \A a, b \in 1 .. Len(rest) : a < b => From(a) < From(b)
  BY <1>1
<1>5. \A k \in 1 .. Len(q) : k # i => \E m \in 1 .. Len(rest) : From(m) = k
  <2> TAKE k \in 1 .. Len(q)
  <2>1. CASE k < i
    <3>1. k \in 1 .. Len(rest) /\ From(k) = k
      BY <1>1, <2>1
    <3> QED BY <3>1
  <2>2. CASE k > i
    <3>1. k - 1 \in 1 .. Len(rest) /\ From(k - 1) = k
      BY <1>1, <2>2
    <3> QED BY <3>1
  <2> QED BY <2>1, <2>2
<1> HIDE DEF From
<1>6. InOrder(rest)
  BY <1>3, <1>4 DEF InOrder
<1>7. \A k, m \in 1 .. Len(q) : k # m => q[k] # q[m]
  BY DEF InOrder
<1>8. /\ Range(q) = {q[k] : k \in 1 .. Len(q)}
      /\ Range(rest) = {rest[k] : k \in 1 .. Len(rest)}
  BY <1>1 DEF Range
<1>9. Range(rest) \subseteq Range(q) \ {q[i]}
  BY <1>3, <1>7, <1>8
<1>10. Range(q) \ {q[i]} \subseteq Range(rest)
  <2> SUFFICES ASSUME NEW k \in 1 .. Len(q), q[k] # q[i]
               PROVE  \E m \in 1 .. Len(rest) : q[k] = rest[m]
    BY <1>8
  <2>1. PICK m \in 1 .. Len(rest) : From(m) = k
    BY <1>5
  <2> QED BY <1>3, <2>1
<1> QED BY <1>1, <1>6, <1>9, <1>10 DEF rest

LEMMA RemoveFirstInOrder ==
    ASSUME NEW S, NEW q \in Seq(S), InOrder(q), NEW j
    PROVE  /\ RemoveFirst(q, j) \in Seq(S)
           /\ InOrder(RemoveFirst(q, j))
           /\ Range(RemoveFirst(q, j)) = Range(q) \ {j}
<1>1. CASE ~ \E i \in 1 .. Len(q) : q[i] = j
  BY <1>1 DEF RemoveFirst, Range
<1>2. CASE \E i \in 1 .. Len(q) : q[i] = j
  <2>1. PICK i \in 1 .. Len(q) : q[i] = j
    BY <1>2
  <2>2. {k \in 1 .. Len(q) : q[k] = j} = {i}
    BY <2>1 DEF InOrder
  <2>3. SelectInSeq(q, LAMBDA v : v = j) = Min({i})
    BY <2>2 DEF SelectInSeq
  <2>4. Min({i}) = i
    BY DEF Min
  <2>5. RemoveFirst(q, j) = RemoveAt(q, i)
    BY <1>2, <2>3, <2>4 DEF RemoveFirst
  <2> QED BY <2>1, <2>5, RemoveAtInOrder
<1> QED BY <1>1, <1>2

\* A job created later than all those in the queue goes to its end.
LEMMA AppendInOrder ==
    ASSUME NEW S, NEW q \in Seq(S), InOrder(q), NEW j \in S \cap Nat,
           \A k \in 1 .. Len(q) : q[k] < j
    PROVE  /\ Append(q, j) \in Seq(S)
           /\ InOrder(Append(q, j))
           /\ Range(Append(q, j)) = Range(q) \cup {j}
<1> DEFINE longer == Append(q, j)
<1>1. /\ longer \in Seq(S)
      /\ Len(longer) = Len(q) + 1
      /\ \A k \in 1 .. Len(q) : longer[k] = q[k]
      /\ longer[Len(q) + 1] = j
  OBVIOUS
<1> HIDE DEF longer
<1>2. InOrder(longer)
  <2>0. \A a \in 1 .. Len(longer) : longer[a] \in Nat
    BY <1>1 DEF InOrder
  <2> SUFFICES ASSUME NEW a \in 1 .. Len(longer), NEW b \in 1 .. Len(longer),
                      a < b
               PROVE  longer[a] < longer[b]
    BY <2>0 DEF InOrder
  <2>1. a \in 1 .. Len(q) /\ longer[a] = q[a]
    BY <1>1
  <2>2. CASE b <= Len(q)
    BY <1>1, <2>1, <2>2 DEF InOrder
  <2>3. CASE b = Len(q) + 1
    BY <1>1, <2>1, <2>3
  <2> QED BY <1>1, <2>2, <2>3
<1>3. Range(longer) = Range(q) \cup {j}
  BY <1>1 DEF Range
<1> QED BY <1>1, <1>2, <1>3 DEF longer

-----------------------------------------------------------------------------
\* A job that was not created has left no trace.
Pristine ==
    \A j \in JobIds : ~Created(j) =>
        /\ claimant[j] = NoClaimer
        /\ requesting[j] = [k \in Kinds |-> 0]
        /\ subscribing[j] = 0 /\ watching[j] = 0
        /\ arming[j] = 0 /\ clearing[j] = 0 /\ callbacks[j] = 0
        /\ clientTimer[j] = "none"

\* Jobs are created in the order of their names.
CreatedInOrder ==
    \A i, j \in JobIds : i < j /\ Created(j) => Created(i)

\* The queue holds jobs that nobody has claimed, each once, oldest first.
QueueOK ==
    /\ InOrder(queue)
    /\ \A j \in Range(queue) : Created(j) /\ claimant[j] = NoClaimer

TableInv == TypeOK /\ Pristine /\ CreatedInOrder /\ QueueOK

-----------------------------------------------------------------------------
USE DEF Created, Subscribed, Bump, Drop

\* Counting one handler more, or one less of those that are there.
LEMMA CounterType ==
    ASSUME NEW f \in [JobIds -> Nat], NEW j \in JobIds
    PROVE  /\ Bump(f, j) \in [JobIds -> Nat]
           /\ f[j] > 0 => Drop(f, j) \in [JobIds -> Nat]
  OBVIOUS

\* The counters of handlers, requests and callbacks are naturals per job.
LEMMA Counters ==
    ASSUME TypeOK
    PROVE  /\ requested \in [JobIds -> Nat]
           /\ subscribing \in [JobIds -> Nat] /\ watching \in [JobIds -> Nat]
           /\ arming \in [JobIds -> Nat] /\ clearing \in [JobIds -> Nat]
           /\ callbacks \in [JobIds -> Nat]
  BY DEF TypeOK

\* What the registry sets a status to is a status, and never "absent".
LEMMA StatusesFacts ==
    /\ {"queued", "claimed", "canceled"} \subseteq Statuses
    /\ \A k \in Kinds : Awaiting(k) \in Statuses /\ Awaiting(k) # "absent"
    /\ Reported \subseteq Statuses
    /\ "absent" \notin Reported /\ "absent" \notin Terminal
  BY JobRegistryAssumption DEF Statuses, Transferable, Terminal, Kinds, Awaiting

\* A status update of a created job keeps the types of what it changes.
LEMMA SetJobStatusType ==
    ASSUME TypeOK, NEW j \in JobIds, NEW new \in Statuses, new # "absent",
           SetJobStatus(j, new)
    PROVE  /\ status' \in [JobIds -> Statuses]
           /\ stats' \in [Terminal -> Nat]
           /\ ended' \subseteq JobIds
           /\ \A i \in JobIds : i # j => status'[i] = status[i]
           /\ status'[j] = new
  BY DEF TypeOK, SetJobStatus

\* The first claimable position is one of the queue, and the job there is
\* neither absent nor claimed.
LEMMA QueueElement ==
    ASSUME TableInv, NEW i \in DOMAIN queue
    PROVE  /\ i \in 1 .. Len(queue)
           /\ queue[i] \in JobIds
           /\ Created(queue[i])
           /\ claimant[queue[i]] = NoClaimer
<1>1. queue \in Seq(JobIds)
  BY DEF TableInv, TypeOK
<1>2. i \in 1 .. Len(queue) /\ queue[i] \in JobIds
  BY <1>1
<1>3. queue[i] \in Range(queue)
  BY DEF Range
<1>4. \A j \in Range(queue) : Created(j) /\ claimant[j] = NoClaimer
  BY DEF TableInv, QueueOK
<1> QED BY <1>2, <1>3, <1>4

\* An empty registry has a well-formed table.
LEMMA TableInit == Init => TableInv
<1> SUFFICES ASSUME Init PROVE TableInv
  OBVIOUS
<1>1. TypeOK
  BY JobRegistryAssumption DEF Init, TypeOK, Statuses, Terminal
<1>2. Pristine /\ CreatedInOrder
  BY DEF Init, Pristine, CreatedInOrder
<1>3. QueueOK
  BY DEF Init, QueueOK, InOrder, Range
<1> QED BY <1>1, <1>2, <1>3 DEF TableInv

-----------------------------------------------------------------------------
\* What an action does to the types, and to the other parts of TableInv, in
\* the terms of what it changes.  Most actions change neither the queue nor
\* the claimants and create nothing.
LEMMA QuietTable ==
    ASSUME TableInv, TypeOK', UNCHANGED <<queue, claimant>>,
           \A j \in JobIds : Created(j)' <=> Created(j)
    PROVE  CreatedInOrder' /\ QueueOK'
<1>1. CreatedInOrder'
  BY DEF TableInv, CreatedInOrder
<1>2. Range(queue) \subseteq JobIds
  BY DEF TableInv, TypeOK, Range
<1>3. QueueOK'
  BY <1>2 DEF TableInv, QueueOK
<1> QED BY <1>1, <1>3

\* A new job is younger than all those in the queue and goes to its end.
LEMMA CreateJobQueue ==
    ASSUME TableInv, NEW j \in JobIds, NEW r \in Requests, CreateJob(j, r)
    PROVE  /\ queue' \in Seq(JobIds)
           /\ InOrder(queue')
           /\ Range(queue') = Range(queue) \cup {j}
<1> USE DEF TableInv
<1>1. \A k \in 1 .. Len(queue) : queue[k] < j
  <2> SUFFICES ASSUME NEW k \in 1 .. Len(queue) PROVE queue[k] < j
    OBVIOUS
  <2>1. queue[k] \in JobIds /\ Created(queue[k])
    BY QueueElement, k \in DOMAIN queue DEF TypeOK
  <2>2. ~Created(j)
    BY DEF CreateJob
  <2> QED BY <2>1, <2>2, JobQueueAssumption DEF CreatedInOrder, JobIds
<1>2. j \in JobIds \cap Nat
  BY JobQueueAssumption DEF JobIds
<1>3. queue \in Seq(JobIds) /\ InOrder(queue) /\ queue' = Append(queue, j)
  BY DEF CreateJob, TypeOK, QueueOK
<1> QED BY <1>1, <1>2, <1>3, AppendInOrder

\* Creating a job keeps the table well-formed.
LEMMA CreateJobInv ==
    ASSUME TableInv, NEW j \in JobIds, NEW r \in Requests, CreateJob(j, r)
    PROVE  TableInv'
<1> USE DEF TableInv
<1>1. /\ queue' \in Seq(JobIds)
      /\ InOrder(queue')
      /\ Range(queue') = Range(queue) \cup {j}
  BY CreateJobQueue
<1>2. TypeOK'
  <2>1. /\ status' \in [JobIds -> Statuses]
        /\ request' \in [JobIds -> Requests \cup {NoRequest}]
    BY StatusesFacts DEF CreateJob, TypeOK
  <2>2. arming \in [JobIds -> Nat]
    BY DEF TypeOK
  <2>3. arming' \in [JobIds -> Nat]
    BY <2>2 DEF CreateJob, WillArm, Bump
  <2>4. UNCHANGED <<claimant, inactive, stats, ended, strays, requesting,
                    requested, subscribing, watching, clearing, clientTimer,
                    callbacks>>
    BY DEF CreateJob, transferVars, clientVars
  <2> QED BY <1>1, <2>1, <2>3, <2>4 DEF TypeOK
<1>3. Pristine'
  BY DEF CreateJob, TypeOK, Pristine, WillArm, transferVars, clientVars
<1>4. CreatedInOrder'
  <2>1. \A i \in JobIds : Created(i)' <=> Created(i) \/ i = j
    BY DEF CreateJob, TypeOK
  <2>2. \A i \in JobIds : i < j => Created(i)
    BY JobQueueAssumption DEF CreateJob, JobIds
  <2> QED BY <2>1, <2>2, JobQueueAssumption DEF CreatedInOrder, JobIds
<1>5. QueueOK'
  BY <1>1 DEF CreateJob, TypeOK, QueueOK, Pristine
<1> QED BY <1>2, <1>3, <1>4, <1>5

\* Claiming a job keeps the table well-formed.
LEMMA ClaimInv ==
    ASSUME TableInv, NEW c \in Claimers, NEW i \in DOMAIN queue, Claim(c, i)
    PROVE  TableInv'
<1> USE DEF TableInv
<1>1. i \in 1 .. Len(queue) /\ queue[i] \in JobIds /\ Created(queue[i])
  BY QueueElement
<1>2. /\ queue' \in Seq(JobIds)
      /\ InOrder(queue')
      /\ Range(queue') = Range(queue) \ {queue[i]}
  BY <1>1, RemoveAtInOrder DEF Claim, TypeOK, QueueOK
<1>3. /\ status' \in [JobIds -> Statuses]
      /\ stats' \in [Terminal -> Nat]
      /\ ended' \subseteq JobIds
      /\ \A j \in JobIds : j # queue[i] => status'[j] = status[j]
      /\ status'[queue[i]] = "claimed"
  BY <1>1, StatusesFacts, SetJobStatusType DEF Claim
<1>4. TypeOK'
  BY <1>1, <1>2, <1>3 DEF Claim, TypeOK, jobVars, transferVars, clientVars,
     timerVars
<1>5. Pristine'
  BY <1>1, <1>3 DEF Claim, TypeOK, Pristine, transferVars, clientVars, timerVars
<1>6. CreatedInOrder'
  BY <1>1, <1>3 DEF CreatedInOrder
<1>7. QueueOK'
  <2>1. Range(queue) \subseteq JobIds
    BY DEF TypeOK, Range
  <2> QED BY <1>1, <1>2, <1>3, <2>1 DEF Claim, TypeOK, QueueOK
<1> QED BY <1>4, <1>5, <1>6, <1>7

\* A cancel, by request or by the inactivity timer.
LEMMA WithdrawInv ==
    ASSUME TableInv, NEW j \in JobIds, Created(j),
           queue' = IF status[j] = "queued"
                    THEN RemoveFromQueue(queue, j) ELSE queue,
           SetJobStatus(j, "canceled"), UNCHANGED claimant
    PROVE  /\ status' \in [JobIds -> Statuses]
           /\ stats' \in [Terminal -> Nat]
           /\ ended' \subseteq JobIds
           /\ queue' \in Seq(JobIds)
           /\ \A i \in JobIds : Created(i)' <=> Created(i)
           /\ CreatedInOrder'
           /\ QueueOK'
<1> USE DEF TableInv
<1>1. /\ status' \in [JobIds -> Statuses]
      /\ stats' \in [Terminal -> Nat]
      /\ ended' \subseteq JobIds
      /\ \A i \in JobIds : i # j => status'[i] = status[i]
      /\ status'[j] = "canceled"
  BY StatusesFacts, SetJobStatusType
<1>2. \A i \in JobIds : Created(i)' <=> Created(i)
  BY <1>1
<1>3. /\ queue' \in Seq(JobIds)
      /\ InOrder(queue')
      /\ Range(queue') \subseteq Range(queue)
  BY RemoveFirstInOrder DEF RemoveFromQueue, TypeOK, QueueOK
<1>4. Range(queue) \subseteq JobIds
  BY DEF TypeOK, Range
<1>5. QueueOK'
  BY <1>2, <1>3, <1>4 DEF QueueOK
<1>6. CreatedInOrder'
  BY <1>2 DEF CreatedInOrder
<1> QED BY <1>1, <1>2, <1>3, <1>5, <1>6

\* Canceling a job on request keeps the table well-formed.
LEMMA CancelJobInv ==
    ASSUME TableInv, NEW j \in JobIds, CancelJob(j)
    PROVE  TableInv'
<1> USE DEF TableInv
<1>1. clearing' \in [JobIds -> Nat]
  BY Counters, CounterType DEF CancelJob, WillClear
<1>2. CASE status[j] \in Terminal
  <2>1. TypeOK'
    BY <1>2, <1>1 DEF CancelJob, TypeOK, transferVars, clientVars
  <2>2. Pristine'
    BY <1>2 DEF CancelJob, TypeOK, Pristine, WillClear, transferVars, clientVars
  <2> QED BY <1>2, <2>1, <2>2, QuietTable DEF CancelJob
<1>3. CASE status[j] \notin Terminal
  <2>1. /\ queue' = IF status[j] = "queued"
                    THEN RemoveFromQueue(queue, j) ELSE queue
        /\ SetJobStatus(j, "canceled")
        /\ UNCHANGED claimant
        /\ Created(j)
    BY <1>3 DEF CancelJob
  <2>2. /\ status' \in [JobIds -> Statuses]
        /\ stats' \in [Terminal -> Nat]
        /\ ended' \subseteq JobIds
        /\ queue' \in Seq(JobIds)
        /\ \A i \in JobIds : Created(i)' <=> Created(i)
        /\ CreatedInOrder'
        /\ QueueOK'
    BY <2>1, WithdrawInv
  <2>3. TypeOK'
    BY <1>1, <2>2 DEF CancelJob, TypeOK, transferVars, clientVars
  <2>4. Pristine'
    BY <2>2 DEF CancelJob, TypeOK, Pristine, WillClear, transferVars, clientVars
  <2> QED BY <2>2, <2>3, <2>4
<1> QED BY <1>2, <1>3

\* A status report keeps the table well-formed.
LEMMA StatusUpdateInv ==
    ASSUME TableInv, NEW j \in JobIds, NEW new \in Reported, StatusUpdate(j, new)
    PROVE  TableInv'
<1> USE DEF TableInv
<1>1. /\ status' \in [JobIds -> Statuses]
      /\ stats' \in [Terminal -> Nat]
      /\ ended' \subseteq JobIds
      /\ \A i \in JobIds : i # j => status'[i] = status[i]
      /\ status'[j] = new
      /\ new # "absent"
  BY StatusesFacts, SetJobStatusType DEF StatusUpdate
<1>2. inactive' \in [JobIds -> BOOLEAN]
  BY DEF StatusUpdate, TypeOK
<1>3. clearing' \in [JobIds -> Nat]
  BY Counters, CounterType DEF StatusUpdate, WillClear
<1>4. TypeOK'
  BY <1>1, <1>2, <1>3 DEF StatusUpdate, TypeOK, transferVars, clientVars
<1>5. Pristine'
  BY <1>1 DEF StatusUpdate, TypeOK, Pristine, WillClear, transferVars, clientVars
<1> QED BY <1>1, <1>4, <1>5, QuietTable DEF StatusUpdate

\* Payload and result requests, in each of their steps, keep the table
\* well-formed.
LEMMA TransferInv ==
    ASSUME TableInv, NEW j \in JobIds, NEW k \in Kinds,
           \/ RequestTransfer(j, k) \/ RejectTransfer(j, k)
           \/ CommitTransfer(j, k)
    PROVE  TableInv'
<1> USE DEF TableInv
<1>1. requesting' \in [JobIds -> [Kinds -> Nat]]
  <2>1. requesting \in [JobIds -> [Kinds -> Nat]]
    BY DEF TypeOK
  <2>2. CASE RequestTransfer(j, k)
    BY <2>1, <2>2 DEF RequestTransfer
  <2>3. CASE RejectTransfer(j, k)
    BY <2>1, <2>3 DEF RejectTransfer
  <2>4. CASE CommitTransfer(j, k)
    BY <2>1, <2>4 DEF CommitTransfer
  <2> QED BY <2>2, <2>3, <2>4
<1>2. requested' \in [JobIds -> Nat]
  BY Counters, CounterType DEF RequestTransfer, RejectTransfer, CommitTransfer
<1>3. Created(j)
  BY DEF RequestTransfer, RejectTransfer, CommitTransfer, Pristine, Transferable
<1>4. CASE RequestTransfer(j, k) \/ RejectTransfer(j, k)
  <2>1. TypeOK'
    BY <1>1, <1>2, <1>4
       DEF RequestTransfer, RejectTransfer, TypeOK, jobVars, clientVars, timerVars
  <2>2. Pristine'
    BY <1>3, <1>4 DEF RequestTransfer, RejectTransfer, TypeOK, Pristine, jobVars,
       clientVars, timerVars
  <2> QED BY <1>4, <2>1, <2>2, QuietTable
          DEF RequestTransfer, RejectTransfer, jobVars
<1>5. CASE CommitTransfer(j, k)
  <2>1. /\ status' \in [JobIds -> Statuses]
        /\ stats' \in [Terminal -> Nat]
        /\ ended' \subseteq JobIds
        /\ \A i \in JobIds : i # j => status'[i] = status[i]
        /\ status'[j] = Awaiting(k)
        /\ status'[j] # "absent"
    BY <1>5, StatusesFacts, SetJobStatusType DEF CommitTransfer
  <2>2. TypeOK'
    BY <1>1, <1>2, <1>5, <2>1 DEF CommitTransfer, TypeOK, clientVars, timerVars
  <2>3. Pristine'
    BY <1>3, <1>5, <2>1
       DEF CommitTransfer, TypeOK, Pristine, clientVars, timerVars
  <2> QED BY <1>3, <1>5, <2>1, <2>2, <2>3, QuietTable DEF CommitTransfer
<1> QED BY <1>4, <1>5

\* The actions of SSE handlers and timers that do not touch the job table.
ClientStep(j) ==
    \/ Subscribe(j) \/ OnClientConnect(j) \/ Unsubscribe(j)
    \/ StartClientTimerIfIdle(j) \/ ClearClientTimer(j) \/ TimerFires(j)

\* SSE handlers and timers keep the table well-formed.
LEMMA ClientStepInv ==
    ASSUME TableInv, NEW j \in JobIds, ClientStep(j)
    PROVE  TableInv'
<1> USE DEF TableInv, ClientStep
<1>1. UNCHANGED <<jobVars, transferVars>>
  BY DEF Subscribe, OnClientConnect, Unsubscribe, StartClientTimerIfIdle,
     ClearClientTimer, TimerFires
<1>2. Created(j)
  BY DEF Subscribe, OnClientConnect, Unsubscribe, StartClientTimerIfIdle,
     ClearClientTimer, TimerFires, Pristine
<1>3. TypeOK'
  <2>1. subscribing' \in [JobIds -> Nat] /\ watching' \in [JobIds -> Nat]
    BY Counters, CounterType DEF Subscribe, OnClientConnect, Unsubscribe,
       StartClientTimerIfIdle, ClearClientTimer, TimerFires, clientVars
  <2>2. arming' \in [JobIds -> Nat] /\ clearing' \in [JobIds -> Nat]
    BY Counters, CounterType DEF Subscribe, OnClientConnect, Unsubscribe,
       StartClientTimerIfIdle, ClearClientTimer, TimerFires, timerVars, WillArm
  <2>3. callbacks' \in [JobIds -> Nat]
    BY Counters, CounterType DEF Subscribe, OnClientConnect, Unsubscribe,
       StartClientTimerIfIdle, ClearClientTimer, TimerFires, timerVars
  <2>4. clientTimer' \in [JobIds -> {"none", "armed", "fired"}]
    BY DEF Subscribe, OnClientConnect, Unsubscribe, StartClientTimerIfIdle,
       ClearClientTimer, TimerFires, TypeOK, timerVars, ClearEntry
  <2> QED BY <1>1, <2>1, <2>2, <2>3, <2>4 DEF TypeOK, jobVars, transferVars
<1>4. Pristine'
  <2> SUFFICES ASSUME NEW i \in JobIds, ~Created(i)
               PROVE  /\ subscribing'[i] = subscribing[i]
                      /\ watching'[i] = watching[i]
                      /\ arming'[i] = arming[i]
                      /\ clearing'[i] = clearing[i]
                      /\ callbacks'[i] = callbacks[i]
                      /\ clientTimer'[i] = clientTimer[i]
    BY <1>1 DEF Pristine, jobVars, transferVars
  <2>1. i # j
    BY <1>2
  <2> QED BY <2>1 DEF Subscribe, OnClientConnect, Unsubscribe,
             StartClientTimerIfIdle, ClearClientTimer, TimerFires, TypeOK,
             clientVars, timerVars, WillArm, ClearEntry
<1> QED BY <1>1, <1>3, <1>4, QuietTable DEF jobVars

\* The callback of the inactivity timer keeps the table well-formed.
LEMMA ExpireInv ==
    ASSUME TableInv, NEW j \in JobIds, ExpireJobIfIdle(j)
    PROVE  TableInv'
<1> USE DEF TableInv
<1>1. Created(j)
  BY DEF ExpireJobIfIdle, Pristine
<1>2. /\ callbacks' \in [JobIds -> Nat]
      /\ clientTimer' \in [JobIds -> {"none", "armed", "fired"}]
      /\ \A i \in JobIds : i # j => /\ callbacks'[i] = callbacks[i]
                                    /\ clientTimer'[i] = clientTimer[i]
  BY Counters, CounterType DEF ExpireJobIfIdle, TypeOK, ClearEntry
<1>3. CASE Subscribed(j) \/ clientTimer[j] = "none" \/ status[j] \in Terminal
  <2>1. UNCHANGED <<status, stats, ended, queue, inactive>>
    BY <1>3 DEF ExpireJobIfIdle, CancelIdle
  <2>2. TypeOK'
    BY <1>2, <2>1 DEF ExpireJobIfIdle, TypeOK, transferVars, clientVars
  <2>3. Pristine'
    BY <1>1, <1>2, <2>1
       DEF ExpireJobIfIdle, TypeOK, Pristine, transferVars, clientVars
  <2> QED BY <2>1, <2>2, <2>3, QuietTable DEF ExpireJobIfIdle
<1>4. CASE ~(Subscribed(j) \/ clientTimer[j] = "none" \/ status[j] \in Terminal)
  <2>1. CancelIdle(j)
    BY <1>4 DEF ExpireJobIfIdle
  <2>2. /\ queue' = IF status[j] = "queued"
                    THEN RemoveFromQueue(queue, j) ELSE queue
        /\ SetJobStatus(j, "canceled")
        /\ inactive' \in [JobIds -> BOOLEAN]
        /\ UNCHANGED claimant
    BY <1>4, <2>1 DEF CancelIdle, TypeOK, ExpireJobIfIdle
  <2>3. /\ status' \in [JobIds -> Statuses]
        /\ stats' \in [Terminal -> Nat]
        /\ ended' \subseteq JobIds
        /\ queue' \in Seq(JobIds)
        /\ \A i \in JobIds : Created(i)' <=> Created(i)
        /\ CreatedInOrder'
        /\ QueueOK'
    BY <1>1, <2>2, WithdrawInv
  <2>4. TypeOK'
    <3>1. UNCHANGED <<request, claimant, strays, requesting, requested,
                      subscribing, watching, arming, clearing>>
      BY DEF ExpireJobIfIdle, transferVars, clientVars
    <3> QED BY <1>2, <2>2, <2>3, <3>1 DEF TypeOK
<2>5. Pristine'
    BY <1>1, <1>2, <2>3
       DEF ExpireJobIfIdle, TypeOK, Pristine, transferVars, clientVars
  <2> QED BY <2>3, <2>4, <2>5
<1> QED BY <1>3, <1>4

\* Every step of the registry keeps the table well-formed.
LEMMA TableStep == TableInv /\ [Next]_vars => TableInv'
<1> SUFFICES ASSUME TableInv, [Next]_vars PROVE TableInv'
  OBVIOUS
<1>1. ASSUME NEW c \in Claimers, NEW i \in DOMAIN queue, Claim(c, i)
      PROVE  TableInv'
  BY <1>1, ClaimInv
<1>2. ASSUME NEW j \in JobIds, NEW r \in Requests, CreateJob(j, r)
      PROVE  TableInv'
  BY <1>2, CreateJobInv
<1>3. ASSUME NEW j \in JobIds, CancelJob(j) PROVE TableInv'
  BY <1>3, CancelJobInv
<1>4. ASSUME NEW j \in JobIds, NEW new \in Reported, StatusUpdate(j, new)
      PROVE  TableInv'
  BY <1>4, StatusUpdateInv
<1>5. ASSUME NEW j \in JobIds, NEW k \in Kinds,
             RequestTransfer(j, k) \/ RejectTransfer(j, k) \/ CommitTransfer(j, k)
      PROVE  TableInv'
  BY <1>5, TransferInv
<1>6. ASSUME NEW j \in JobIds, ClientStep(j) PROVE TableInv'
  BY <1>6, ClientStepInv
<1>7. ASSUME NEW j \in JobIds, ExpireJobIfIdle(j) PROVE TableInv'
  BY <1>7, ExpireInv
<1>8. CASE UNCHANGED vars
  BY <1>8 DEF vars, jobVars, transferVars, clientVars, timerVars, TableInv, TypeOK,
     Pristine, CreatedInOrder, QueueOK
<1> QED BY <1>1, <1>2, <1>3, <1>4, <1>5, <1>6, <1>7, <1>8 DEF Next, ClientStep

\* The types of the registry, and the shape of its table and queue, hold in
\* every reachable state.
THEOREM TableInvariant == Spec => []TableInv
  BY TableInit, TableStep, PTL DEF Spec

\* Type correctness.
THEOREM TypeCorrect == Spec => []TypeOK
  BY TableInvariant, PTL DEF TableInv

-----------------------------------------------------------------------------
\* Who is dispatched what: only a claim writes claimants, only a creation
\* writes requests, and only a creation lengthens the queue.
LEMMA Assignments ==
    ASSUME [Next]_vars
    PROVE  \/ UNCHANGED claimant
           \/ \E c \in Claimers, i \in DOMAIN queue : Claim(c, i)
<1> QED BY DEF Next, vars, jobVars, CreateJob, CancelJob, StatusUpdate,
           RequestTransfer, RejectTransfer, CommitTransfer, Subscribe,
           OnClientConnect, Unsubscribe, StartClientTimerIfIdle,
           ClearClientTimer, TimerFires, ExpireJobIfIdle

\* A job is dispatched at most once (DispatchedOnce): claimNext takes jobs out
\* of the queue, and no job in the queue has been claimed.
THEOREM JobsAreDispatchedOnce == Spec => DispatchedOnce
<1> DEFINE Keeps == \A j \in JobIds :
                      claimant[j] # NoClaimer => claimant'[j] = claimant[j]
<1>1. TableInv /\ [Next]_vars => Keeps
  <2> SUFFICES ASSUME TableInv, NEW c \in Claimers, NEW i \in DOMAIN queue,
                      Claim(c, i)
               PROVE  Keeps
    BY Assignments
  <2>1. queue[i] \in JobIds /\ claimant[queue[i]] = NoClaimer
    BY QueueElement
  <2> QED BY <2>1 DEF Claim, TableInv, TypeOK
<1> HIDE DEF Keeps
<1>2. Spec => [][Keeps]_vars
  BY <1>1, TableInvariant, PTL DEF Spec
<1> QED BY <1>2 DEF DispatchedOnce, Keeps

\* What is asked for changes, and the queue grows, only when a job is created.
LEMMA Requested ==
    ASSUME TableInv, [Next]_vars
    PROVE  \/ UNCHANGED request /\ Range(queue') \subseteq Range(queue)
           \/ \E j \in JobIds, r \in Requests : CreateJob(j, r)
<1> USE DEF TableInv
<1>1. queue \in Seq(JobIds) /\ InOrder(queue)
  BY DEF TypeOK, QueueOK
<1>2. ASSUME NEW c \in Claimers, NEW i \in DOMAIN queue, Claim(c, i)
      PROVE  UNCHANGED request /\ Range(queue') \subseteq Range(queue)
  BY <1>1, <1>2, QueueElement, RemoveAtInOrder DEF Claim
<1>3. ASSUME NEW j \in JobIds, CancelJob(j) \/ ExpireJobIfIdle(j)
      PROVE  UNCHANGED request /\ Range(queue') \subseteq Range(queue)
  BY <1>1, <1>3, RemoveFirstInOrder
     DEF RemoveFromQueue, CancelJob, ExpireJobIfIdle, CancelIdle
<1> QED BY <1>2, <1>3 DEF Next, vars, jobVars, StatusUpdate,
           RequestTransfer, RejectTransfer, CommitTransfer, Subscribe,
           OnClientConnect, Unsubscribe, StartClientTimerIfIdle,
           ClearClientTimer, TimerFires

\* No job overtakes an older one that asks for the same (NoOvertaking): the
\* claim takes the first entry that fits, and the queue is in order.
LEMMA NoOvertakingStep ==
    ASSUME TableInv, TableInv', NoOvertaking, [Next]_vars
    PROVE  NoOvertaking'
<1> USE DEF TableInv
<1>1. ASSUME NEW c \in Claimers, NEW p \in DOMAIN queue, Claim(c, p)
      PROVE  NoOvertaking'
  <2> SUFFICES ASSUME NEW i \in JobIds, NEW j \in JobIds,
                      i < j, request[i] = request[j], claimant'[j] # NoClaimer,
                      i \in Range(queue')
               PROVE  FALSE
    BY <1>1 DEF NoOvertaking, Claim
  <2>1. p \in 1 .. Len(queue) /\ queue[p] \in JobIds
    BY QueueElement
  <2>2. i \in Range(queue) \ {queue[p]}
    <3>1. queue \in Seq(JobIds) /\ InOrder(queue) /\ queue' = RemoveAt(queue, p)
      BY <1>1 DEF Claim, TypeOK, QueueOK
    <3> QED BY <2>1, <3>1, RemoveAtInOrder
  <2>3. claimant[j] = NoClaimer
    BY <2>2 DEF NoOvertaking
  <2>4. j = queue[p]
    BY <1>1, <2>1, <2>3 DEF Claim, TypeOK
  <2>5. PICK q \in 1 .. Len(queue) : queue[q] = i
    <3>1. DOMAIN queue = 1 .. Len(queue)
      BY DEF TypeOK
    <3> QED BY <2>2, <3>1 DEF Range
  <2>6. q < p
    <3>1. ~(p < q)
      BY <2>1, <2>4, <2>5, JobQueueAssumption DEF QueueOK, InOrder, JobIds
    <3>2. p # q
      BY <2>2, <2>5
    <3> QED BY <2>1, <2>5, <3>1, <3>2
  <2>7. Claimable(request[queue[p]], c) /\ ~Claimable(request[queue[q]], c)
    BY <1>1, <2>1, <2>5, <2>6 DEF Claim, IsFirstClaimable
  <2> QED BY <2>4, <2>5, <2>7
<1>2. ASSUME NEW n \in JobIds, NEW r \in Requests, CreateJob(n, r)
      PROVE  NoOvertaking'
  <2> SUFFICES ASSUME NEW i \in JobIds, NEW j \in JobIds,
                      i < j, request'[i] = request'[j], claimant[j] # NoClaimer,
                      i \in Range(queue')
               PROVE  FALSE
    BY <1>2 DEF NoOvertaking, CreateJob
  <2>1. Created(j) /\ Created(i) /\ ~Created(n)
    BY <1>2 DEF Pristine, CreatedInOrder, CreateJob
  <2>2. i # n /\ j # n
    BY <2>1
  <2>3. i \in Range(queue)
    BY <1>2, <2>2, CreateJobQueue
  <2> QED BY <1>2, <2>2, <2>3 DEF NoOvertaking, CreateJob, TypeOK
<1>3. CASE UNCHANGED <<request, claimant>> /\ Range(queue') \subseteq Range(queue)
  BY <1>3 DEF NoOvertaking
<1> QED BY <1>1, <1>2, <1>3, Assignments, Requested

\* Jobs that ask for the same are claimed in the order they were created in
\* (NoOvertaking).
THEOREM JobsAreServedInOrder == Spec => []NoOvertaking
<1>1. Init => NoOvertaking
  BY DEF Init, NoOvertaking
<1>2. TableInv /\ TableInv' /\ NoOvertaking /\ [Next]_vars => NoOvertaking'
  BY NoOvertakingStep
<1> QED BY <1>1, <1>2, TableInvariant, PTL DEF Spec

-----------------------------------------------------------------------------
\* Status and place in the queue.  A job that is at work, or for which a
\* transfer request is on the way, was claimed, if all reports came in turn.
AtWork(j) == status[j] \in Transferable \/ \E k \in Kinds : requesting[j][k] > 0

WorkIsClaimed ==
    \A j \in JobIds \ strays : AtWork(j) => claimant[j] # NoClaimer

QueuedInv == QueuedIffInQueue /\ WorkIsClaimed

\* At the start nothing is queued and nothing is at work.
LEMMA QueuedInit == Init => QueuedInv
  BY DEF Init, QueuedInv, QueuedIffInQueue, WorkIsClaimed, AtWork, Transferable,
     Kinds, Range

\* A status that is set, with nothing else changed but the transfer requests.
LEMMA StatusSet ==
    ASSUME TableInv, QueuedInv, NEW j \in JobIds, NEW new \in Statuses,
           new # "absent", SetJobStatus(j, new), UNCHANGED <<queue, claimant>>,
           strays \subseteq strays',
           j \notin strays' => claimant[j] # NoClaimer /\ new # "queued",
           \A i \in JobIds, k \in Kinds : requesting'[i][k] <= requesting[i][k],
           requesting' \in [JobIds -> [Kinds -> Nat]]
    PROVE  QueuedInv'
<1>1. (\A i \in JobIds : i # j => status'[i] = status[i]) /\ status'[j] = new
  BY SetJobStatusType DEF TableInv
<1>2. QueuedIffInQueue'
  <2> SUFFICES ASSUME NEW i \in JobIds, i \notin strays'
               PROVE  status'[i] = "queued" <=> i \in Range(queue)
    BY DEF QueuedIffInQueue
  <2>1. CASE i # j
    BY <1>1, <2>1 DEF QueuedInv, QueuedIffInQueue
  <2>2. CASE i = j
    <3>1. j \notin Range(queue)
      BY <2>2 DEF TableInv, QueueOK
    <3> QED BY <1>1, <2>2, <3>1
  <2> QED BY <2>1, <2>2
<1>3. WorkIsClaimed'
  <2> SUFFICES ASSUME NEW i \in JobIds, i \notin strays', AtWork(i)'
               PROVE  claimant[i] # NoClaimer
    BY DEF WorkIsClaimed
  <2>1. CASE i = j
    BY <2>1
  <2>2. CASE i # j
    <3>1. AtWork(i)
      BY <1>1, <2>2 DEF AtWork, TableInv, TypeOK
    <3> QED BY <3>1 DEF QueuedInv, WorkIsClaimed
  <2> QED BY <2>1, <2>2
<1> QED BY <1>2, <1>3 DEF QueuedInv

\* A cancel that takes a queued job out of the queue.
LEMMA WithdrawQueued ==
    ASSUME TableInv, QueuedInv, NEW j \in JobIds, Created(j),
           queue' = IF status[j] = "queued"
                    THEN RemoveFromQueue(queue, j) ELSE queue,
           SetJobStatus(j, "canceled"),
           UNCHANGED <<claimant, strays, requesting>>
    PROVE  QueuedInv'
<1>1. (\A i \in JobIds : i # j => status'[i] = status[i]) /\ status'[j] = "canceled"
  BY SetJobStatusType, StatusesFacts DEF TableInv
<1>2. /\ status[j] = "queued" => Range(queue') = Range(queue) \ {j}
      /\ status[j] # "queued" => queue' = queue
  BY RemoveFirstInOrder DEF RemoveFromQueue, TableInv, TypeOK, QueueOK
<1>3. QueuedIffInQueue'
  BY <1>1, <1>2 DEF QueuedInv, QueuedIffInQueue
<1>4. WorkIsClaimed'
  BY <1>1 DEF QueuedInv, WorkIsClaimed, AtWork, Transferable
<1> QED BY <1>3, <1>4 DEF QueuedInv

\* Every step keeps status and place in the queue together.
LEMMA QueuedStep ==
    ASSUME TableInv, TableInv', QueuedInv, [Next]_vars
    PROVE  QueuedInv'
<1> USE DEF TableInv
<1>1. ASSUME NEW c \in Claimers, NEW p \in DOMAIN queue, Claim(c, p)
      PROVE  QueuedInv'
  <2>1. p \in 1 .. Len(queue) /\ queue[p] \in JobIds
    BY QueueElement
  <2>2. Range(queue') = Range(queue) \ {queue[p]}
    <3>1. queue \in Seq(JobIds) /\ InOrder(queue) /\ queue' = RemoveAt(queue, p)
      BY <1>1 DEF Claim, TypeOK, QueueOK
    <3> QED BY <2>1, <3>1, RemoveAtInOrder
  <2>3. /\ \A i \in JobIds : i # queue[p] => status'[i] = status[i]
        /\ status'[queue[p]] = "claimed"
    BY <1>1, <2>1, SetJobStatusType, StatusesFacts DEF Claim
  <2>4. QueuedIffInQueue'
    BY <1>1, <2>2, <2>3 DEF Claim, QueuedInv, QueuedIffInQueue
  <2>5. WorkIsClaimed'
    <3> SUFFICES ASSUME NEW i \in JobIds, i \notin strays, AtWork(i)'
                 PROVE  claimant'[i] # NoClaimer
      BY <1>1 DEF WorkIsClaimed, Claim
    <3>1. CASE i = queue[p]
      BY <1>1, <2>1, <3>1, JobQueueAssumption DEF Claim, TypeOK
    <3>2. CASE i # queue[p]
      <4>1. AtWork(i)
        BY <1>1, <2>3, <3>2 DEF AtWork, Claim, transferVars
      <4> QED BY <1>1, <2>1, <3>2, <4>1
              DEF QueuedInv, WorkIsClaimed, Claim, TypeOK
    <3> QED BY <3>1, <3>2
  <2> QED BY <2>4, <2>5 DEF QueuedInv
<1>2. ASSUME NEW n \in JobIds, NEW r \in Requests, CreateJob(n, r)
      PROVE  QueuedInv'
  <2>1. Range(queue') = Range(queue) \cup {n}
    BY <1>2, CreateJobQueue
  <2>2. QueuedIffInQueue'
    BY <1>2, <2>1 DEF CreateJob, TypeOK, QueuedInv, QueuedIffInQueue
  <2>3. WorkIsClaimed'
    <3>1. status'[n] = "queued" /\ \A i \in JobIds : i # n => status'[i] = status[i]
      BY <1>2 DEF CreateJob, TypeOK
    <3>2. ~Created(n)
      BY <1>2 DEF CreateJob
    <3>3. \A k \in Kinds : requesting[n][k] = 0
      BY <3>2 DEF Pristine
    <3> QED BY <1>2, <3>1, <3>3 DEF CreateJob, QueuedInv, WorkIsClaimed, AtWork,
               Transferable, transferVars
  <2> QED BY <2>2, <2>3 DEF QueuedInv
<1>3. ASSUME NEW j \in JobIds, CancelJob(j) PROVE QueuedInv'
  <2>1. CASE status[j] \in Terminal
    BY <1>3, <2>1 DEF CancelJob, QueuedInv, QueuedIffInQueue, WorkIsClaimed, AtWork,
       transferVars
  <2>2. CASE status[j] \notin Terminal
    BY <1>3, <2>2, WithdrawQueued DEF CancelJob, transferVars
  <2> QED BY <2>1, <2>2
<1>4. ASSUME NEW j \in JobIds, ExpireJobIfIdle(j) PROVE QueuedInv'
  <2>1. CASE UNCHANGED <<status, queue>>
    BY <1>4, <2>1 DEF ExpireJobIfIdle, QueuedInv, QueuedIffInQueue, WorkIsClaimed,
       AtWork, transferVars
  <2>2. CASE CancelIdle(j) /\ status[j] \notin Terminal
    <3>1. Created(j)
      BY <1>4 DEF ExpireJobIfIdle, Pristine
    <3> QED BY <1>4, <2>2, <3>1, WithdrawQueued
            DEF ExpireJobIfIdle, CancelIdle, transferVars
  <2> QED BY <1>4, <2>1, <2>2 DEF ExpireJobIfIdle, CancelIdle
<1>5. ASSUME NEW j \in JobIds, NEW new \in Reported, StatusUpdate(j, new)
      PROVE  QueuedInv'
  <2>1. j \notin strays' => claimant[j] # NoClaimer /\ new # "queued"
    BY <1>5 DEF StatusUpdate
  <2>2. /\ new \in Statuses /\ new # "absent"
        /\ SetJobStatus(j, new)
        /\ UNCHANGED <<queue, claimant, requesting>>
        /\ strays \subseteq strays'
    BY <1>5, StatusesFacts DEF StatusUpdate, transferVars
  <2>3. requesting \in [JobIds -> [Kinds -> Nat]] /\ requesting' = requesting
    BY <2>2 DEF TypeOK
  <2>4. \A i \in JobIds, k \in Kinds : requesting'[i][k] <= requesting[i][k]
    <3> SUFFICES ASSUME NEW i \in JobIds, NEW k \in Kinds
                 PROVE  requesting[i][k] <= requesting[i][k]
      BY <2>3
    <3>1. requesting[i][k] \in Nat
      BY <2>3
    <3> QED BY <3>1
  <2> QED BY <2>1, <2>2, <2>3, <2>4, StatusSet
<1>6. ASSUME NEW j \in JobIds, NEW k \in Kinds, CommitTransfer(j, k)
      PROVE  QueuedInv'
  <2>1. requesting[j][k] > 0
    BY <1>6 DEF CommitTransfer
  <2>2. j \notin strays => claimant[j] # NoClaimer
    BY <2>1 DEF QueuedInv, WorkIsClaimed, AtWork
  <2>3. /\ Awaiting(k) \in Statuses /\ Awaiting(k) # "absent"
        /\ Awaiting(k) # "queued"
    BY StatusesFacts DEF Awaiting
  <2>4. /\ SetJobStatus(j, Awaiting(k))
        /\ UNCHANGED <<queue, claimant, strays>>
    BY <1>6 DEF CommitTransfer
  <2>5. /\ requesting \in [JobIds -> [Kinds -> Nat]]
        /\ requesting' \in [JobIds -> [Kinds -> Nat]]
    BY DEF TypeOK
  <2>6. \A i \in JobIds, l \in Kinds : requesting'[i][l] <= requesting[i][l]
    BY <1>6, <2>5 DEF CommitTransfer
  <2> QED BY <2>2, <2>3, <2>4, <2>5, <2>6, StatusSet
<1>7. ASSUME NEW j \in JobIds, NEW k \in Kinds,
             RequestTransfer(j, k) \/ RejectTransfer(j, k)
      PROVE  QueuedInv'
  <2>1. UNCHANGED jobVars
    BY <1>7 DEF RequestTransfer, RejectTransfer
  <2>2. ASSUME NEW i \in JobIds, AtWork(i)' PROVE AtWork(i)
    <3>1. CASE RequestTransfer(j, k)
      <4>1. CASE i = j
        BY <3>1, <4>1 DEF AtWork, RequestTransfer
      <4>2. CASE i # j
        <5>1. requesting'[i] = requesting[i]
          BY <3>1, <4>2 DEF RequestTransfer, TypeOK
        <5> QED BY <2>1, <2>2, <5>1 DEF AtWork, jobVars
      <4> QED BY <4>1, <4>2
    <3>2. CASE RejectTransfer(j, k)
      <4>1. requesting \in [JobIds -> [Kinds -> Nat]] /\ requesting[j][k] > 0
        BY <3>2 DEF TypeOK, RejectTransfer
      <4>2. \A l \in Kinds : l # k \/ i # j => requesting'[i][l] = requesting[i][l]
        BY <3>2, <4>1 DEF RejectTransfer
      <4>3. \A l \in Kinds : requesting'[i][l] > 0 => requesting[i][l] > 0
        BY <4>1, <4>2
      <4> QED BY <2>1, <2>2, <4>3 DEF AtWork, jobVars
    <3> QED BY <1>7, <3>1, <3>2
  <2> QED BY <2>1, <2>2 DEF QueuedInv, QueuedIffInQueue, WorkIsClaimed, jobVars
<1>8. CASE UNCHANGED <<jobVars, transferVars>>
  BY <1>8 DEF QueuedInv, QueuedIffInQueue, WorkIsClaimed, AtWork, jobVars,
     transferVars
<1> QED BY <1>1, <1>2, <1>3, <1>4, <1>5, <1>6, <1>7, <1>8 DEF Next, vars,
        Subscribe, OnClientConnect, Unsubscribe, StartClientTimerIfIdle,
        ClearClientTimer, TimerFires

\* Status and place in the queue go together, and work was claimed, in every
\* reachable state.
THEOREM QueuedInvariant == Spec => []QueuedInv
<1>1. TableInv /\ TableInv' /\ QueuedInv /\ [Next]_vars => QueuedInv'
  BY QueuedStep
<1> QED BY QueuedInit, <1>1, TableInvariant, PTL DEF Spec

\* The status "queued" and the place in the queue go together.
THEOREM QueuedExactlyInQueue == Spec => []QueuedIffInQueue
  BY QueuedInvariant, PTL DEF QueuedInv

\* A claim hands out queued jobs only (ClaimsQueuedJobs).
THEOREM OnlyQueuedJobsAreClaimed == Spec => ClaimsQueuedJobs
<1> DEFINE Takes == \A j \in JobIds \ strays :
                      claimant'[j] # claimant[j] => status[j] = "queued"
<1>1. TableInv /\ QueuedInv /\ [Next]_vars => Takes
  <2> SUFFICES ASSUME TableInv, QueuedInv, NEW c \in Claimers,
                      NEW i \in DOMAIN queue, Claim(c, i)
               PROVE  Takes
    BY Assignments
  <2>1. queue[i] \in JobIds /\ queue[i] \in Range(queue)
    BY QueueElement DEF Range
  <2> QED BY <2>1 DEF Claim, TableInv, TypeOK, QueuedInv, QueuedIffInQueue
<1> HIDE DEF Takes
<1>2. Spec => [][Takes]_vars
  BY <1>1, TableInvariant, QueuedInvariant, PTL DEF Spec
<1> QED BY <1>2 DEF ClaimsQueuedJobs, Takes

-----------------------------------------------------------------------------
\* Every step of the registry is a step of JobDispatch or none: a creation
\* submits, a claim assigns, the removal of a queue entry withdraws.
LEMMA StepKinds ==
    ASSUME TableInv, [Next]_vars
    PROVE  \/ \E j \in JobIds, r \in Requests : CreateJob(j, r)
           \/ \E c \in Claimers, i \in DOMAIN queue : Claim(c, i)
           \/ /\ UNCHANGED <<request, claimant>>
              /\ \A i \in JobIds : Created(i)' <=> Created(i)
              /\ \/ Range(queue') = Range(queue)
                 \/ \E j \in JobIds : Range(queue') = Range(queue) \ {j}
<1> USE DEF TableInv
<1> DEFINE Withdraws(j) ==
             /\ UNCHANGED <<request, claimant>>
             /\ \A i \in JobIds : Created(i)' <=> Created(i)
             /\ \/ Range(queue') = Range(queue)
                \/ Range(queue') = Range(queue) \ {j}
<1>1. ASSUME NEW j \in JobIds, Created(j), NEW new \in Statuses, new # "absent",
             SetJobStatus(j, new)
      PROVE  \A i \in JobIds : Created(i)' <=> Created(i)
  BY <1>1, SetJobStatusType
<1>2. ASSUME NEW j \in JobIds, CancelJob(j) \/ ExpireJobIfIdle(j)
      PROVE  Withdraws(j)
  <2>1. Created(j)
    BY <1>2 DEF CancelJob, ExpireJobIfIdle, Pristine
  <2>2. Range(RemoveFromQueue(queue, j)) = Range(queue) \ {j}
    BY RemoveFirstInOrder DEF RemoveFromQueue, TypeOK, QueueOK
  <2> QED BY <1>1, <1>2, <2>1, <2>2, StatusesFacts
          DEF CancelJob, ExpireJobIfIdle, CancelIdle
<1>3. ASSUME NEW j \in JobIds, NEW new \in Reported, StatusUpdate(j, new)
      PROVE  Withdraws(j)
  BY <1>1, <1>3, StatusesFacts DEF StatusUpdate
<1>4. ASSUME NEW j \in JobIds, NEW k \in Kinds, CommitTransfer(j, k)
      PROVE  Withdraws(j)
  <2>1. Created(j)
    BY <1>4 DEF CommitTransfer, Pristine
  <2> QED BY <1>1, <1>4, <2>1, StatusesFacts DEF CommitTransfer
<1>5. CASE UNCHANGED jobVars
  BY <1>5 DEF jobVars
<1> QED BY <1>2, <1>3, <1>4, <1>5 DEF Next, vars, RequestTransfer,
        RejectTransfer, Subscribe, OnClientConnect, Unsubscribe,
        StartClientTimerIfIdle, ClearClientTimer, TimerFires

\* The registry implements JobDispatch.
THEOREM RegistryImplementsDispatch == Spec => ImplementsDispatch
<1> DEFINE submitted == {j \in JobIds : Created(j)}
<1>1. Init => Dispatch!Init
  <2> SUFFICES ASSUME Init PROVE Dispatch!Init
    OBVIOUS
  <2>1. submitted = {} /\ Range(queue) = {}
    BY DEF Init, Range
  <2> QED BY <2>1 DEF Init, Dispatch!Init, Dispatch!JobIds, JobIds,
          Dispatch!NoRequest, Dispatch!NoClaimer, Dispatch!NoName,
          NoRequest, NoClaimer, NoName
<1>2. TableInv /\ [Next]_vars => [Dispatch!Next]_(Dispatch!dispatchVars)
  <2> SUFFICES ASSUME TableInv, [Next]_vars
               PROVE  [Dispatch!Next]_(Dispatch!dispatchVars)
    OBVIOUS
  <2> USE DEF TableInv, Dispatch!JobIds, Dispatch!dispatchVars
  <2>1. ASSUME NEW j \in JobIds, NEW r \in Requests, CreateJob(j, r)
        PROVE  Dispatch!Submit(j, r)
    <3>1. Range(queue') = Range(queue) \cup {j}
      BY <2>1, CreateJobQueue
    <3>2. j \notin submitted /\ submitted' = submitted \cup {j}
      BY <2>1 DEF CreateJob, TypeOK
    <3>3. 1 .. j - 1 \subseteq submitted
      BY <2>1, JobQueueAssumption DEF CreateJob, JobIds
    <3> QED BY <2>1, <3>1, <3>2, <3>3 DEF CreateJob, Dispatch!Submit
  <2>2. ASSUME NEW c \in Claimers, NEW i \in DOMAIN queue, Claim(c, i)
        PROVE  Dispatch!Assign(queue[i], c)
    <3>1. /\ i \in 1 .. Len(queue)
          /\ queue[i] \in JobIds
          /\ Created(queue[i])
      BY QueueElement
    <3>2. /\ queue[i] \in Range(queue)
          /\ Range(queue') = Range(queue) \ {queue[i]}
      <4>1. queue \in Seq(JobIds) /\ InOrder(queue) /\ queue' = RemoveAt(queue, i)
        BY <2>2 DEF Claim, TypeOK, QueueOK
      <4>2. queue[i] \in Range(queue)
        BY <3>1, <4>1 DEF Range
      <4> QED BY <3>1, <4>1, <4>2, RemoveAtInOrder
    <3>3. submitted' = submitted
      BY <2>2, <3>1, SetJobStatusType, StatusesFacts DEF Claim
    <3>4. Dispatch!Claimable(request[queue[i]], c)
      BY <2>2 DEF Claim, IsFirstClaimable, Dispatch!Claimable, Claimable,
         Dispatch!IsCompatibleClaim, IsCompatibleClaim, Dispatch!NoName, NoName
    <3>5. ASSUME NEW k \in Range(queue), k < queue[i]
          PROVE  ~Dispatch!Claimable(request[k], c)
      <4>1. PICK p \in 1 .. Len(queue) : queue[p] = k
        <5>1. DOMAIN queue = 1 .. Len(queue)
          BY DEF TypeOK
        <5> QED BY <5>1 DEF Range
      <4>2. p \in 1 .. i - 1
        <5>1. queue[p] \in Nat /\ queue[i] \in Nat
          <6>1. queue[p] \in JobIds
            BY <4>1 DEF TypeOK
          <6> QED BY <3>1, <6>1, JobQueueAssumption DEF JobIds
        <5>2. ~(i < p) /\ i # p
          BY <3>1, <3>5, <4>1, <5>1 DEF QueueOK, InOrder
        <5> QED BY <3>1, <4>1, <5>2
      <4>3. ~Claimable(request[queue[p]], c)
        BY <2>2, <4>2 DEF Claim, IsFirstClaimable
      <4> QED BY <4>1, <4>3 DEF Dispatch!Claimable, Claimable,
              Dispatch!IsCompatibleClaim, IsCompatibleClaim, Dispatch!NoName, NoName
    <3> QED BY <2>2, <3>2, <3>3, <3>4, <3>5 DEF Claim, Dispatch!Assign
  <2>3. ASSUME UNCHANGED <<request, claimant>>,
               \A i \in JobIds : Created(i)' <=> Created(i),
               \/ Range(queue') = Range(queue)
               \/ \E j \in JobIds : Range(queue') = Range(queue) \ {j}
        PROVE  \/ \E j \in JobIds : Dispatch!Withdraw(j)
               \/ UNCHANGED Dispatch!dispatchVars
    <3>1. submitted' = submitted
      BY <2>3
    <3>2. CASE Range(queue') = Range(queue)
      BY <2>3, <3>1, <3>2
    <3>3. ASSUME NEW j \in JobIds, Range(queue') = Range(queue) \ {j},
                 j \in Range(queue)
          PROVE  Dispatch!Withdraw(j)
      BY <2>3, <3>1, <3>3 DEF Dispatch!Withdraw
    <3>4. ASSUME NEW j \in JobIds, Range(queue') = Range(queue) \ {j},
                 j \notin Range(queue)
          PROVE  Range(queue') = Range(queue)
      BY <3>4
    <3> QED BY <2>3, <3>2, <3>3, <3>4
  <2>4. \A i \in DOMAIN queue : queue[i] \in JobIds
    BY QueueElement
  <2>5. CASE \E j \in JobIds, r \in Requests : CreateJob(j, r)
    BY <2>1, <2>5 DEF Dispatch!Next, JobIds
  <2>6. CASE \E c \in Claimers, i \in DOMAIN queue : Claim(c, i)
    BY <2>2, <2>4, <2>6 DEF Dispatch!Next, JobIds
  <2> QED BY <2>3, <2>5, <2>6, StepKinds DEF Dispatch!Next, JobIds
<1> QED BY <1>1, <1>2, TableInvariant, PTL DEF Spec, ImplementsDispatch, Dispatch!Spec

-----------------------------------------------------------------------------
(* The client-inactivity timers and the statistics.                        *)

\* IdleJobIsTimed alone is not inductive: a callback may find its job watched
\* and go, leaving a timer that fired and nobody who will look at it, unless
\* the client that watches is one that has yet to clear the entry.
WatchedIsUntimed == \A j \in JobIds : watching[j] > 0 => clientTimer[j] = "none"

FiredIsAwaited ==
    \A j \in JobIds :
        clientTimer[j] = "fired" => callbacks[j] > 0 \/ subscribing[j] > 0

\* Timers are cleared, and callbacks do nothing, for jobs that ended only.
ClearedHasEnded ==
    \A j \in JobIds : clearing[j] > 0 \/ status[j] \in Terminal => j \in ended

IdleHasTimer ==
    HasTTL => \A j \in JobIds :
        Created(j) /\ j \notin ended =>
            Subscribed(j) \/ arming[j] > 0 \/ clientTimer[j] # "none"

TimerInv ==
    WatchedIsUntimed /\ FiredIsAwaited /\ ClearedHasEnded /\ IdleHasTimer

-----------------------------------------------------------------------------
USE DEF Created, Subscribed, Bump, Drop

\* The four parts say what IdleJobIsTimed says.
LEMMA TimerInvImplies == TypeOK /\ TimerInv => IdleJobIsTimed
<1> SUFFICES ASSUME TypeOK, TimerInv, HasTTL, NEW j \in JobIds,
                    Created(j), j \notin ended, ~Subscribed(j), ~(arming[j] > 0)
             PROVE  \/ clientTimer[j] = "armed"
                    \/ clientTimer[j] = "fired" /\ callbacks[j] > 0
  BY DEF IdleJobIsTimed
<1>1. clientTimer[j] \in {"armed", "fired"}
  BY DEF TypeOK, TimerInv, IdleHasTimer
<1>2. ~(subscribing[j] > 0)
  <2>1. subscribing[j] \in Nat /\ watching[j] \in Nat
    BY DEF TypeOK
  <2> QED BY <2>1
<1> QED BY <1>1, <1>2 DEF TimerInv, FiredIsAwaited

\* At the start no job was created and no timer is set.
LEMMA TimerInit == Init => TimerInv
  BY DEF Init, TimerInv, WatchedIsUntimed, FiredIsAwaited, ClearedHasEnded,
     IdleHasTimer, Terminal

\* A step that touches no client, timer or handler, but sets a status.
LEMMA TimerQuiet ==
    ASSUME TableInv, TimerInv, NEW j \in JobIds, NEW new \in Statuses, Created(j),
           new # "absent", SetJobStatus(j, new), UNCHANGED <<clientVars, timerVars>>
    PROVE  TimerInv'
<1>1. /\ \A i \in JobIds : i # j => status'[i] = status[i]
      /\ status'[j] = new
  BY SetJobStatusType DEF TableInv
<1>2. ended \subseteq ended' /\ (new \in Terminal => j \in ended')
  BY DEF SetJobStatus
<1> QED BY <1>1, <1>2 DEF TimerInv, WatchedIsUntimed, FiredIsAwaited,
        ClearedHasEnded, IdleHasTimer, clientVars, timerVars

\* A cancel or a report that may go on to clear the timer: the job has ended.
LEMMA TimerEnds ==
    ASSUME TableInv, TimerInv, NEW j \in JobIds, NEW new \in Statuses, Created(j),
           new # "absent", SetJobStatus(j, new), new \in Terminal, WillClear(j),
           UNCHANGED <<clientVars, arming, clientTimer, callbacks>>
    PROVE  TimerInv'
<1>1. /\ \A i \in JobIds : i # j => status'[i] = status[i]
      /\ status'[j] = new
  BY SetJobStatusType DEF TableInv
<1>2. ended' = ended \cup {j}
  BY DEF SetJobStatus
<1>3. \A i \in JobIds : i # j => clearing'[i] = clearing[i]
  BY DEF WillClear, TableInv, TypeOK
<1> QED BY <1>1, <1>2, <1>3 DEF TimerInv, WatchedIsUntimed, FiredIsAwaited,
        ClearedHasEnded, IdleHasTimer, clientVars

\* The SSE handlers and the timers.
LEMMA TimerClientStep ==
    ASSUME TableInv, TimerInv, NEW j \in JobIds, ClientStep(j)
    PROVE  TimerInv'
<1> USE DEF TableInv, TimerInv
<1>1. UNCHANGED <<status, ended>>
  BY DEF ClientStep, Subscribe, OnClientConnect, Unsubscribe,
     StartClientTimerIfIdle, ClearClientTimer, TimerFires, jobVars
<1>2. /\ subscribing \in [JobIds -> Nat] /\ watching \in [JobIds -> Nat]
      /\ arming \in [JobIds -> Nat] /\ clearing \in [JobIds -> Nat]
      /\ callbacks \in [JobIds -> Nat]
  BY Counters
<1>3. clientTimer \in [JobIds -> {"none", "armed", "fired"}]
  BY DEF TypeOK
<1>4. CASE Subscribe(j)
  <2>1. UNCHANGED <<watching, timerVars>> /\ subscribing' = Bump(subscribing, j)
    BY <1>4 DEF Subscribe
  <2>2. \A i \in JobIds : subscribing'[i] \in Nat /\ subscribing'[i] >= subscribing[i]
    BY <1>2, <2>1
  <2> QED BY <1>1, <1>2, <2>1, <2>2
          DEF WatchedIsUntimed, FiredIsAwaited, ClearedHasEnded, IdleHasTimer,
              timerVars
<1>5. CASE OnClientConnect(j)
  <2>1. /\ \A i \in JobIds : i # j => /\ subscribing'[i] = subscribing[i]
                                      /\ watching'[i] = watching[i]
                                      /\ clientTimer'[i] = clientTimer[i]
        /\ watching'[j] > 0 /\ subscribing'[j] \in Nat /\ clientTimer'[j] = "none"
        /\ UNCHANGED <<arming, clearing, callbacks>>
    BY <1>2, <1>3, <1>5 DEF OnClientConnect, ClearEntry
  <2>2. subscribing'[j] + watching'[j] > 0
    BY <1>2, <1>5 DEF OnClientConnect
  <2> QED BY <1>1, <1>2, <2>1, <2>2
          DEF WatchedIsUntimed, FiredIsAwaited, ClearedHasEnded, IdleHasTimer
<1>6. CASE Unsubscribe(j)
  <2>1. /\ \A i \in JobIds : watching'[i] > 0 => watching[i] > 0
        /\ \A i \in JobIds : i # j => watching'[i] = watching[i]
        /\ \A i \in JobIds : arming[i] > 0 => arming'[i] > 0
        /\ HasTTL => arming'[j] > 0
        /\ UNCHANGED <<subscribing, clearing, clientTimer, callbacks>>
    BY <1>2, <1>6 DEF Unsubscribe, WillArm
  <2> QED BY <1>1, <2>1
          DEF WatchedIsUntimed, FiredIsAwaited, ClearedHasEnded, IdleHasTimer
<1>7. CASE StartClientTimerIfIdle(j)
  <2>1. UNCHANGED <<clientVars, clearing, callbacks>>
    BY <1>7 DEF StartClientTimerIfIdle
  <2>2. \A i \in JobIds : i # j => /\ clientTimer'[i] = clientTimer[i]
                                   /\ arming'[i] = arming[i]
    BY <1>2, <1>3, <1>7 DEF StartClientTimerIfIdle
  <2>3. CASE Subscribed(j) \/ clientTimer[j] # "none"
    BY <1>1, <1>7, <2>1, <2>2, <2>3 DEF StartClientTimerIfIdle, WatchedIsUntimed,
       FiredIsAwaited, ClearedHasEnded, IdleHasTimer, clientVars
  <2>4. CASE ~Subscribed(j) /\ clientTimer[j] = "none"
    <3>1. clientTimer'[j] = "armed"
      BY <1>3, <1>7, <2>4 DEF StartClientTimerIfIdle
    <3>2. ~(watching[j] > 0)
      BY <1>2, <2>4
    <3> QED BY <1>1, <2>1, <2>2, <3>1, <3>2 DEF WatchedIsUntimed,
            FiredIsAwaited, ClearedHasEnded, IdleHasTimer, clientVars
  <2> QED BY <2>3, <2>4
<1>8. CASE ClearClientTimer(j)
  <2>1. j \in ended
    BY <1>8 DEF ClearClientTimer, ClearedHasEnded
  <2>2. /\ UNCHANGED <<clientVars, arming, callbacks>>
        /\ \A i \in JobIds : i # j => /\ clientTimer'[i] = clientTimer[i]
                                      /\ clearing'[i] = clearing[i]
        /\ clientTimer'[j] = "none"
    BY <1>2, <1>3, <1>8 DEF ClearClientTimer, ClearEntry
  <2> QED BY <1>1, <2>1, <2>2 DEF WatchedIsUntimed, FiredIsAwaited,
          ClearedHasEnded, IdleHasTimer, clientVars
<1>9. CASE TimerFires(j)
  <2>1. /\ UNCHANGED <<clientVars, arming, clearing>>
        /\ \A i \in JobIds : i # j => /\ clientTimer'[i] = clientTimer[i]
                                      /\ callbacks'[i] = callbacks[i]
        /\ clientTimer[j] = "armed" /\ clientTimer'[j] = "fired"
        /\ callbacks'[j] > 0
    BY <1>2, <1>3, <1>9 DEF TimerFires
  <2> QED BY <1>1, <2>1 DEF WatchedIsUntimed, FiredIsAwaited, ClearedHasEnded,
          IdleHasTimer, clientVars
<1> QED BY <1>4, <1>5, <1>6, <1>7, <1>8, <1>9 DEF ClientStep

\* The callback of a timer: it leaves an entry only for a client that will
\* clear it, and takes one away only from a job that has ended.
LEMMA TimerExpire ==
    ASSUME TableInv, TimerInv, NEW j \in JobIds, ExpireJobIfIdle(j)
    PROVE  TimerInv'
<1> USE DEF TableInv, TimerInv
<1>1. /\ subscribing \in [JobIds -> Nat] /\ watching \in [JobIds -> Nat]
      /\ callbacks \in [JobIds -> Nat]
  BY Counters
<1>2. /\ UNCHANGED <<clientVars, arming, clearing>>
      /\ \A i \in JobIds : i # j => callbacks'[i] = callbacks[i]
  BY <1>1 DEF ExpireJobIfIdle
<1>3. CASE Subscribed(j) \/ clientTimer[j] = "none"
  <2>1. UNCHANGED <<status, ended, clientTimer>>
    BY <1>3 DEF ExpireJobIfIdle
  <2>2. clientTimer[j] = "fired" => subscribing[j] > 0
    BY <1>1, <1>3 DEF WatchedIsUntimed
  <2> QED BY <1>2, <2>1, <2>2 DEF WatchedIsUntimed, FiredIsAwaited,
          ClearedHasEnded, IdleHasTimer, clientVars
<1>4. CASE ~(Subscribed(j) \/ clientTimer[j] = "none")
  <2>1. ClearEntry(j) /\ CancelIdle(j)
    BY <1>4 DEF ExpireJobIfIdle
  <2>2. /\ clientTimer'[j] = "none"
        /\ \A i \in JobIds : i # j => clientTimer'[i] = clientTimer[i]
    BY <2>1 DEF ClearEntry, TypeOK
  <2>3. /\ j \in ended' /\ ended \subseteq ended'
        /\ \A i \in JobIds : i # j => status'[i] = status[i]
    <3>1. CASE status[j] \in Terminal
      BY <2>1, <3>1 DEF CancelIdle, ClearedHasEnded
    <3>2. CASE status[j] \notin Terminal
      <4>1. SetJobStatus(j, "canceled")
        BY <2>1, <3>2 DEF CancelIdle
      <4> QED BY <4>1 DEF SetJobStatus, Terminal, TypeOK
    <3> QED BY <3>1, <3>2
  <2> QED BY <1>2, <2>2, <2>3 DEF WatchedIsUntimed, FiredIsAwaited,
          ClearedHasEnded, IdleHasTimer, clientVars
<1> QED BY <1>3, <1>4

\* A new job: its creator is about to start its timer.
LEMMA TimerCreate ==
    ASSUME TableInv, TimerInv, NEW j \in JobIds, NEW r \in Requests, CreateJob(j, r)
    PROVE  TimerInv'
<1> USE DEF TableInv, TimerInv
<1>1. /\ \A i \in JobIds : i # j => /\ status'[i] = status[i]
                                    /\ arming'[i] = arming[i]
      /\ status'[j] = "queued"
      /\ HasTTL => arming'[j] > 0
      /\ UNCHANGED <<ended, clientVars, clearing, clientTimer, callbacks>>
  <2>1. arming \in [JobIds -> Nat]
    BY Counters
  <2> QED BY <2>1 DEF CreateJob, WillArm, TypeOK
<1> QED BY <1>1 DEF WatchedIsUntimed, FiredIsAwaited, ClearedHasEnded,
        IdleHasTimer, clientVars, Terminal

\* Every step keeps the timers in order.
LEMMA TimerStep == TableInv /\ TimerInv /\ [Next]_vars => TimerInv'
<1> SUFFICES ASSUME TableInv, TimerInv, [Next]_vars PROVE TimerInv'
  OBVIOUS
<1>1. ASSUME NEW c \in Claimers, NEW i \in DOMAIN queue, Claim(c, i)
      PROVE  TimerInv'
  BY <1>1, QueueElement, StatusesFacts, TimerQuiet DEF Claim
<1>2. ASSUME NEW j \in JobIds, CancelJob(j) PROVE TimerInv'
  <2>1. CASE status[j] \in Terminal
    <3>1. j \in ended
      BY <2>1 DEF TimerInv, ClearedHasEnded
    <3>2. \A i \in JobIds : i # j => clearing'[i] = clearing[i]
      BY <1>2 DEF CancelJob, WillClear, TableInv, TypeOK
    <3> QED BY <1>2, <2>1, <3>1, <3>2 DEF CancelJob, TimerInv, WatchedIsUntimed,
            FiredIsAwaited, ClearedHasEnded, IdleHasTimer, clientVars
  <2>2. CASE status[j] \notin Terminal
    BY <1>2, <2>2, StatusesFacts, TimerEnds DEF CancelJob, Terminal
  <2> QED BY <2>1, <2>2
<1>3. ASSUME NEW j \in JobIds, NEW new \in Reported, StatusUpdate(j, new)
      PROVE  TimerInv'
  <2>1. new \in Statuses /\ new # "absent"
    BY StatusesFacts
  <2>2. CASE new \in Terminal
    BY <1>3, <2>1, <2>2, TimerEnds DEF StatusUpdate
  <2>3. CASE new \notin Terminal
    BY <1>3, <2>1, <2>3, TimerQuiet DEF StatusUpdate, timerVars
  <2> QED BY <2>2, <2>3
<1>4. ASSUME NEW j \in JobIds, NEW k \in Kinds, CommitTransfer(j, k)
      PROVE  TimerInv'
  <2>1. Created(j)
    BY <1>4 DEF CommitTransfer, TableInv, Pristine
  <2> QED BY <1>4, <2>1, StatusesFacts, TimerQuiet DEF CommitTransfer
<1>5. CASE UNCHANGED <<jobVars, clientVars, timerVars>>
  BY <1>5 DEF TimerInv, WatchedIsUntimed, FiredIsAwaited, ClearedHasEnded,
     IdleHasTimer, jobVars, clientVars, timerVars
<1> QED BY <1>1, <1>2, <1>3, <1>4, <1>5, TimerCreate, TimerClientStep, TimerExpire
        DEF Next, ClientStep, vars, RequestTransfer, RejectTransfer

\* A job whose client went away is never forgotten (IdleJobIsTimed): until it
\* has ended somebody watches it, or a timer runs or is about to be started,
\* or one fired and its callback will find it.
THEOREM IdleJobsAreTimed == Spec => []IdleJobIsTimed
  BY TableInvariant, TimerInit, TimerStep, TimerInvImplies, PTL
     DEF Spec, TableInv

-----------------------------------------------------------------------------
\* The jobs of one status are finitely many, and one joins at a time.
LEMMA WithStatusGrows ==
    ASSUME TypeOK, NEW s \in Statuses, NEW j \in JobIds,
           WithStatus(s)' \subseteq WithStatus(s) \cup {j}
    PROVE  /\ Cardinality(WithStatus(s)) \in Nat
           /\ Cardinality(WithStatus(s)') \in Nat
           /\ Cardinality(WithStatus(s)') <= Cardinality(WithStatus(s)) + 1
           /\ j \notin WithStatus(s)' =>
                Cardinality(WithStatus(s)') <= Cardinality(WithStatus(s))
<1>1. IsFiniteSet(JobIds)
  BY FS_Interval, JobQueueAssumption DEF JobIds
<1>2. IsFiniteSet(WithStatus(s))
  BY <1>1, FS_Subset DEF WithStatus
<1>3. IsFiniteSet(WithStatus(s)') /\ IsFiniteSet(WithStatus(s) \cup {j})
  <2>1. WithStatus(s)' \subseteq JobIds
    BY DEF WithStatus
  <2> QED BY <1>1, <1>2, <2>1, FS_Subset, FS_AddElement
<1>4. /\ Cardinality(WithStatus(s)) \in Nat
      /\ Cardinality(WithStatus(s)') \in Nat
  BY <1>2, <1>3, FS_CardinalityType
<1>5. /\ Cardinality(WithStatus(s) \cup {j}) \in Nat
      /\ Cardinality(WithStatus(s) \cup {j}) <= Cardinality(WithStatus(s)) + 1
  BY <1>2, <1>3, <1>4, FS_AddElement, FS_CardinalityType
<1>6. Cardinality(WithStatus(s)') <= Cardinality(WithStatus(s) \cup {j})
  BY <1>3, FS_Subset
<1>7. j \notin WithStatus(s)' =>
        Cardinality(WithStatus(s)') <= Cardinality(WithStatus(s))
  <2> SUFFICES ASSUME j \notin WithStatus(s)'
               PROVE  Cardinality(WithStatus(s)') <= Cardinality(WithStatus(s))
    OBVIOUS
  <2>1. WithStatus(s)' \subseteq WithStatus(s)
    OBVIOUS
  <2> QED BY <1>2, <2>1, FS_Subset
<1> QED BY <1>4, <1>5, <1>6, <1>7

\* Setting a status counts the job when it becomes terminal; a job that is
\* terminal is never set to another terminal status.
LEMMA StatsSet ==
    ASSUME TableInv, StatsCoverTerminal, NEW j \in JobIds, NEW new \in Statuses,
           new # "absent", status[j] \notin Terminal \/ new \notin Terminal,
           SetJobStatus(j, new)
    PROVE  StatsCoverTerminal'
<1> SUFFICES ASSUME NEW s \in Terminal
             PROVE  Cardinality(WithStatus(s)') <= stats'[s]
  BY DEF StatsCoverTerminal
<1> USE DEF TableInv
<1>1. Cardinality(WithStatus(s)) <= stats[s]
  BY DEF StatsCoverTerminal
<1>2. /\ \A i \in JobIds : i # j => status'[i] = status[i]
      /\ status'[j] = new
  BY SetJobStatusType
<1>3. s \in Statuses
  BY DEF Statuses
<1>4. WithStatus(s)' \subseteq WithStatus(s) \cup {j}
  BY <1>2 DEF WithStatus
<1>5. stats \in [Terminal -> Nat]
  BY DEF TypeOK
<1>6. CASE new = s
  <2>1. stats' = [stats EXCEPT ![s] = @ + 1]
    BY <1>6 DEF SetJobStatus
  <2>2. stats'[s] = stats[s] + 1 /\ stats[s] \in Nat
    BY <1>5, <2>1
  <2>3. /\ Cardinality(WithStatus(s)') <= Cardinality(WithStatus(s)) + 1
        /\ Cardinality(WithStatus(s)) \in Nat /\ Cardinality(WithStatus(s)') \in Nat
    BY <1>3, <1>4, WithStatusGrows
  <2> QED BY <1>1, <2>2, <2>3
<1>7. CASE new # s
  <2>1. j \notin WithStatus(s)'
    BY <1>2, <1>7 DEF WithStatus
  <2>2. /\ Cardinality(WithStatus(s)') <= Cardinality(WithStatus(s))
        /\ Cardinality(WithStatus(s)) \in Nat /\ Cardinality(WithStatus(s)') \in Nat
    BY <1>3, <1>4, <2>1, WithStatusGrows
  <2>3. stats'[s] = stats[s] /\ stats[s] \in Nat
    BY <1>5, <1>7 DEF SetJobStatus
  <2> QED BY <1>1, <2>2, <2>3
<1> QED BY <1>6, <1>7

\* Every step keeps the terminal jobs within the statistics.
LEMMA StatsStep ==
    ASSUME TableInv, StatsCoverTerminal, [Next]_vars
    PROVE  StatsCoverTerminal'
<1>1. ASSUME NEW c \in Claimers, NEW i \in DOMAIN queue, Claim(c, i)
      PROVE  StatsCoverTerminal'
  <2>1. "claimed" \notin Terminal
    BY DEF Terminal
  <2> QED BY <1>1, <2>1, QueueElement, StatusesFacts, StatsSet DEF Claim
<1>2. ASSUME NEW j \in JobIds, CancelJob(j) \/ ExpireJobIfIdle(j)
      PROVE  StatsCoverTerminal'
  <2>1. CASE UNCHANGED <<status, stats>>
    BY <2>1 DEF StatsCoverTerminal, WithStatus
  <2>2. CASE status[j] \notin Terminal /\ SetJobStatus(j, "canceled")
    BY <2>2, StatusesFacts, StatsSet
  <2> QED BY <1>2, <2>1, <2>2 DEF CancelJob, ExpireJobIfIdle, CancelIdle
<1>3. ASSUME NEW j \in JobIds, NEW new \in Reported, StatusUpdate(j, new)
      PROVE  StatsCoverTerminal'
  BY <1>3, StatusesFacts, StatsSet DEF StatusUpdate
<1>4. ASSUME NEW j \in JobIds, NEW k \in Kinds, CommitTransfer(j, k)
      PROVE  StatsCoverTerminal'
  <2>1. Awaiting(k) \notin Terminal
    BY DEF Awaiting, Terminal
  <2> QED BY <1>4, <2>1, StatusesFacts, StatsSet DEF CommitTransfer
<1>5. ASSUME NEW j \in JobIds, NEW r \in Requests, CreateJob(j, r)
      PROVE  StatsCoverTerminal'
  <2>1. /\ \A i \in JobIds : i # j => status'[i] = status[i]
        /\ status[j] = "absent" /\ status'[j] = "queued"
        /\ stats' = stats
    BY <1>5 DEF CreateJob, TableInv, TypeOK
  <2>2. \A s \in Terminal : {i \in JobIds : status'[i] = s}
                              = {i \in JobIds : status[i] = s}
    BY <2>1 DEF Terminal
  <2> QED BY <2>1, <2>2 DEF StatsCoverTerminal, WithStatus
<1>6. CASE UNCHANGED <<status, stats>>
  BY <1>6 DEF StatsCoverTerminal, WithStatus
<1> QED BY <1>1, <1>2, <1>3, <1>4, <1>5, <1>6 DEF Next, vars, jobVars,
        RequestTransfer, RejectTransfer, Subscribe, OnClientConnect, Unsubscribe,
        StartClientTimerIfIdle, ClearClientTimer, TimerFires

\* At the start no job has ended.
LEMMA StatsInit == Init => StatsCoverTerminal
<1> SUFFICES ASSUME Init, NEW s \in Terminal
             PROVE  Cardinality(WithStatus(s)) <= stats[s]
  BY DEF StatsCoverTerminal
<1>1. WithStatus(s) = {}
  BY DEF Init, Terminal, WithStatus
<1>2. stats[s] = 0
  BY DEF Init
<1> QED BY <1>1, <1>2, FS_EmptySet

\* Every job that is completed, failed or canceled is in the statistics
\* (StatsCoverTerminal).
THEOREM TerminalJobsAreCounted == Spec => []StatsCoverTerminal
<1>1. TableInv /\ StatsCoverTerminal /\ [Next]_vars => StatsCoverTerminal'
  BY StatsStep
<1> QED BY <1>1, StatsInit, TableInvariant, PTL DEF Spec
=============================================================================

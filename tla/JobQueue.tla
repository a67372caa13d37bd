------------------------------ MODULE JobQueue ------------------------------
(***************************************************************************)
(* What jobs ask for, what workers offer, and the matching and queueing    *)
(* operators of server/internal/jobs/registry.go that every module of the  *)
(* Jobs API is built from.                                                 *)
(*                                                                         *)
(* A job is named by the order in which it was created: the code draws a   *)
(* UUID, and nothing but equality of UUIDs is ever used.  Naming by order  *)
(* makes "first come, first served" a comparison of numbers.               *)
(***************************************************************************)
EXTENDS Naturals, SequencesExt

CONSTANTS
    MaxJobs,    \* bound: jobs created in a behaviour
    Requests,   \* what a job may ask: [type, worker, group]
    Claimers    \* what a worker may offer: [types, worker, group]

JobIds == 1 .. MaxJobs

\* The empty string of the code's WorkerID and WorkerGroup fields.
NoName == ""

\* The request of a job not created yet, and the claimer of one not claimed.
NoRequest == [type |-> NoName, worker |-> NoName, group |-> NoName]
NoClaimer == [types |-> {}, worker |-> NoName, group |-> NoName, none |-> TRUE]

ASSUME JobQueueAssumption ==
    /\ MaxJobs \in Nat
    /\ \A r \in Requests : {"type", "worker", "group"} \subseteq DOMAIN r
    /\ \A c \in Claimers : {"types", "worker", "group"} \subseteq DOMAIN c
    /\ NoClaimer \notin Claimers

\* The worker affinity of a job: each field it names must be the claimer's.
IsCompatibleClaim(request, claimer) ==
    /\ request.worker \in {NoName, claimer.worker}
    /\ request.group \in {NoName, claimer.group}

\* A claim that lists no type takes a job of any type.
Claimable(request, claimer) ==
    /\ claimer.types = {} \/ request.type \in claimer.types
    /\ IsCompatibleClaim(request, claimer)

\* Faulty variant: any job that fits, not the first one.
AnyClaimable(queue, request, claimer, i) ==
    i \in DOMAIN queue /\ Claimable(request[queue[i]], claimer)

\* The position claimNext takes a job from: the first one it may hand out.
IsFirstClaimable(queue, request, claimer, i) ==
    /\ i \in DOMAIN queue
    /\ Claimable(request[queue[i]], claimer)
    /\ \A k \in 1 .. i - 1 : ~Claimable(request[queue[k]], claimer)

\* removeFromQueue deletes the job's only entry, wherever it stands.
RemoveFromQueue(queue, job) == RemoveFirst(queue, job)
=============================================================================

--------------------------- MODULE WorkerActivity ---------------------------
(***************************************************************************)
(* The table of workers that call the Jobs API, which the state view shows *)
(* (recordWorkerSeen and its neighbours in server/internal/jobs/registry.  *)
(* go).  A worker is known by its id and group; an entry counts the open   *)
(* streams and goes stale when the worker was not seen for workerRetention.*)
(* Every operation runs in one critical section and prunes first.          *)
(***************************************************************************)
EXTENDS JobQueue

Key(claimer) == <<claimer.worker, claimer.group>>

\* A worker that names neither itself nor a group is not recorded.
NoKey == <<NoName, NoName>>

Entries == [streams : Nat, stale : BOOLEAN]

NewEntry == [streams |-> 0, stale |-> FALSE]

\* Faulty variant: a stale entry goes, whatever it counts.
PruneStale(workers) ==
    Restrict(workers, {k \in DOMAIN workers : ~workers[k].stale})

\* A stale entry goes, but for one with open streams.
PruneWorkers(workers) ==
    Restrict(workers, {k \in DOMAIN workers :
                          workers[k].streams > 0 \/ ~workers[k].stale})

\* The entry of a worker that calls: pruned, looked up or made, and fresh.
EnsureWorker(workers, key) ==
    LET pruned == PruneWorkers(workers)
        entry == IF key \in DOMAIN pruned THEN pruned[key] ELSE NewEntry
    IN  [k \in DOMAIN pruned \cup {key} |->
            IF k = key THEN [entry EXCEPT !.stale = FALSE] ELSE pruned[k]]

RecordWorkerSeen(workers, key) ==
    IF key = NoKey THEN workers ELSE EnsureWorker(workers, key)

AddWorkerStream(workers, key) ==
    IF key = NoKey THEN workers
    ELSE [EnsureWorker(workers, key) EXCEPT ![key].streams = @ + 1]

\* An entry that is gone is not made again.
RemoveWorkerStream(workers, key) ==
    LET pruned == PruneWorkers(workers)
        counted == key \in DOMAIN pruned /\ pruned[key].streams > 0
    IN  CASE key = NoKey -> workers
          [] key # NoKey /\ counted ->
                [pruned EXCEPT ![key] = [streams |-> @.streams - 1, stale |-> FALSE]]
          [] OTHER -> pruned
=============================================================================

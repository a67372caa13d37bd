--------------------------- MODULE MCServerDrain ---------------------------
(* Two requests, a worker that comes and goes, and two signals, with the   *)
(* state in memory and with the state in Redis, where the process may be    *)
(* started again once.  (That no timeout is set adds no behaviour: a drain  *)
(* may take as long as it likes before it times out.)                       *)
EXTENDS ServerDrain

CONSTANTS r1, r2, w1, p1

MCSettings ==
    {[store |-> "memory", timeout |-> t] : t \in {"zero", "some"}}
    \cup {[store |-> "redis", timeout |-> "some"]}
MCMaxRestarts == [store \in {"memory", "redis"} |-> IF store = "redis" THEN 1 ELSE 0]

OnePool == [w \in {w1} |-> p1]
=============================================================================

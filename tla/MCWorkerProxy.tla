---------------------------- MODULE MCWorkerProxy ----------------------------
(***************************************************************************)
(* An instance of WorkerProxy for TLC.                                     *)
(***************************************************************************)
EXTENDS WorkerProxy

CONSTANTS a1, a2, r1, r2

\* One agent that may connect again before its first connection is gone.
MCOwner == [c \in Conns |-> "a"]
MCScore == [c \in Conns |-> [m \in Models |-> 2]]
MCMaxConc == [c \in Conns |-> 1]
MCSymmetry == Permutations(Reqs)
MCWants == [r \in Reqs |-> "m"]

\* Two requests of the LLM plugin, which serves the first two endpoints and
\* one registry; or one of the other plugins, which have a registry each.
Both(e) == [r \in Reqs |-> e]
One(e, f) == {[r \in Reqs |-> IF r = s THEN e ELSE f] : s \in Reqs}

MCMixes ==
    {Both("generation")} \cup One("generation", "embeddings")
    \cup One("transcription", "none") \cup One("conversion", "none")
=============================================================================

--------------------------- MODULE CompletionQueue ---------------------------
(***************************************************************************)
(* CompletionQueue of modules/llm/ext/openai/queue.go: the process-wide    *)
(* queue of generation requests, as operators on the sequence of the       *)
(* requests in it.  Every method runs under q.mu, so each is one step.     *)
(***************************************************************************)
EXTENDS Naturals, Sequences, SequencesExt

CONSTANT QueueCap  \* LLM_QUEUE_SIZE; 0 disables queueing

ASSUME QueueCapAssumption == QueueCap \in Nat

\* Enter succeeds; the request is then appended.
HasSlot(queue) == Len(queue) < QueueCap

\* Leave: the first entry of req is cut out, wherever it is.
Leave(queue, req) == RemoveFirst(queue, req)

\* IsFirstDispatchable: req can be dispatched now, and nothing before it can.
IsFirstDispatchable(queue, req, dispatchable) ==
    \E i \in DOMAIN queue :
        /\ queue[i] = req
        /\ req \in dispatchable
        /\ \A j \in 1 .. i - 1 : queue[j] \notin dispatchable
=============================================================================

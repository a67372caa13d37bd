------------------------------ MODULE JobEvents ------------------------------
(***************************************************************************)
(* The events of one job on their way to its SSE clients: HandleJobEvents, *)
(* subscribe, unsubscribe and publish of server/internal/jobs/registry.go. *)
(*                                                                         *)
(* A handler changes the status under r.mu and publishes the view it took  *)
(* there after it unlocked, so publications of different handlers overtake *)
(* each other; only claimNext publishes without letting go of the lock.  A *)
(* client has a buffered channel; an event that finds it full is dropped.  *)
(***************************************************************************)
EXTENDS Naturals, Sequences

CONSTANTS
    Clients,     \* SSE connections; each is served by one HandleJobEvents
    Capacity,    \* slots of a client's channel
    CloseDelay,  \* JOBS_SSE_CLOSE_DELAY: "never" (< 0), "at once" (= 0), "later"
    MaxCalls     \* bound: handler calls that change the job or publish

ASSUME JobEventsAssumption ==
    /\ Capacity \in Nat \ {0}
    /\ MaxCalls \in Nat \ {0}
    /\ CloseDelay \in {"never", "at once", "later"}

Terminal == {"completed", "failed", "canceled"}
Transferable == {"claimed", "running", "awaiting_payload", "awaiting_result"}
Kinds == {"payload", "result"}
Awaiting(k) == IF k = "payload" THEN "awaiting_payload" ELSE "awaiting_result"

\* An event is the status a "status" event shows, or the kind of a transfer.
Events == {"queued"} \cup Transferable \cup Terminal \cup Kinds

VARIABLES
    status,      \* the job's status
    requesting,  \* transfer requests that passed their status check
    calls,       \* handler calls so far
    outbox,      \* of each call: the events it still has to publish
    subs,        \* r.subs of the job
    chan, open,  \* of a client: the buffered events, and whether close(ch)
                 \* is still to come
    pc,          \* of a client: where its handler stands
    closing,     \* of a client: its close timer is set
    left,        \* of a client: it went away by itself
    toldEnd, dropped, \* history, of a client: a terminal status event was
                      \* written to it, an event was dropped
    witnesses    \* history: who was subscribed when the job ended

jobVars == <<status, requesting, calls, witnesses>>
clientVars == <<pc, closing, left, toldEnd>>
channelVars == <<subs, chan, open, dropped>>
vars == <<jobVars, outbox, clientVars, channelVars>>

Init ==
    /\ status = "queued"
    /\ requesting = [k \in Kinds |-> 0]
    /\ calls = 1
    /\ outbox = [h \in 1 .. MaxCalls |-> IF h = 1 THEN <<"queued">> ELSE <<>>]
    /\ subs = {}
    /\ chan = [c \in Clients |-> <<>>]
    /\ open = [c \in Clients |-> TRUE]
    /\ pc = [c \in Clients |-> "idle"]
    /\ closing = [c \in Clients |-> FALSE]
    /\ left = [c \in Clients |-> FALSE]
    /\ toldEnd = [c \in Clients |-> FALSE]
    /\ dropped = [c \in Clients |-> FALSE]
    /\ witnesses = {}

-----------------------------------------------------------------------------
\* A critical section that sets the status and leaves events to publish.
Change(new, events) ==
    /\ calls < MaxCalls
    /\ calls' = calls + 1
    /\ status' = new
    /\ witnesses' = IF status \notin Terminal /\ new \in Terminal
                    THEN witnesses \cup subs ELSE witnesses
    /\ outbox' = [outbox EXCEPT ![calls + 1] = events]
    /\ UNCHANGED <<clientVars, channelVars>>

\* publishLocked: a send that would block is skipped.
SendAll(event) ==
    /\ chan' = [c \in Clients |->
                  IF c \in subs /\ Len(chan[c]) < Capacity
                  THEN Append(chan[c], event) ELSE chan[c]]
    /\ dropped' = [c \in Clients |->
                     dropped[c] \/ (c \in subs /\ Len(chan[c]) >= Capacity)]

Claim ==
    /\ status = "queued"
    /\ status' = "claimed"
    /\ SendAll("claimed")
    /\ UNCHANGED <<requesting, calls, witnesses, outbox, clientVars, subs, open>>

StatusUpdate(new) ==
    /\ status \notin Terminal \cup {"queued"}
    /\ Change(new, <<new>>)
    /\ UNCHANGED requesting

\* Faulty variant: a cancel publishes nothing.
CancelSilently ==
    LET new == IF status \in Terminal THEN status ELSE "canceled"
    IN  Change(new, <<>>) /\ UNCHANGED requesting

\* A cancel of a terminal job changes nothing and publishes it once more.
CancelJob ==
    LET new == IF status \in Terminal THEN status ELSE "canceled"
    IN  Change(new, <<new>>) /\ UNCHANGED requesting

\* The inactivity timer finds no subscriber, but its event may find one.
ExpireJobIfIdle ==
    /\ subs = {}
    /\ status \notin Terminal
    /\ Change("canceled", <<"canceled">>)
    /\ UNCHANGED requesting

RequestTransfer(k) ==
    /\ status \in Transferable
    /\ requesting[k] = 0
    /\ requesting' = [requesting EXCEPT ![k] = 1]
    /\ UNCHANGED <<status, calls, witnesses, outbox, clientVars, channelVars>>

CommitTransfer(k) ==
    /\ requesting[k] = 1
    /\ requesting' = [requesting EXCEPT ![k] = 0]
    /\ Change(Awaiting(k), <<k, Awaiting(k)>>)

Publish(h) ==
    /\ outbox[h] # <<>>
    /\ outbox' = [outbox EXCEPT ![h] = Tail(@)]
    /\ SendAll(Head(outbox[h]))
    /\ UNCHANGED <<jobVars, clientVars, subs, open>>

-----------------------------------------------------------------------------
Goto(c, where) == pc' = [pc EXCEPT ![c] = where]

\* The snapshot is taken before the subscription: what is published between
\* the two reaches the client neither way.
Snapshot(c) ==
    /\ pc[c] = "idle"
    /\ Goto(c, "snapshot")
    /\ UNCHANGED <<jobVars, outbox, closing, left, toldEnd, channelVars>>

Subscribe(c) ==
    /\ pc[c] = "snapshot"
    /\ Goto(c, "loop")
    /\ subs' = subs \cup {c}
    /\ UNCHANGED <<jobVars, outbox, closing, left, toldEnd, chan, open, dropped>>

\* Faulty variant: any status event makes the server hang up.
DeliverAndHangUp(c) ==
    /\ pc[c] = "loop"
    /\ chan[c] # <<>>
    /\ chan' = [chan EXCEPT ![c] = Tail(@)]
    /\ toldEnd' = [toldEnd EXCEPT ![c] = @ \/ Head(chan[c]) \in Terminal]
    /\ IF Head(chan[c]) \in Kinds
       THEN UNCHANGED pc ELSE Goto(c, "unsubscribe")
    /\ UNCHANGED <<jobVars, outbox, closing, left, subs, open, dropped>>

\* Only an event starts the close; the initial status, written from the
\* snapshot, never does.
Deliver(c) ==
    /\ pc[c] = "loop"
    /\ chan[c] # <<>>
    /\ chan' = [chan EXCEPT ![c] = Tail(@)]
    /\ IF Head(chan[c]) \in Terminal
       THEN /\ toldEnd' = [toldEnd EXCEPT ![c] = TRUE]
            /\ closing' = [closing EXCEPT ![c] = @ \/ CloseDelay = "later"]
            /\ IF CloseDelay = "at once"
               THEN Goto(c, "unsubscribe") ELSE UNCHANGED pc
       ELSE UNCHANGED <<pc, closing, toldEnd>>
    /\ UNCHANGED <<jobVars, outbox, left, subs, open, dropped>>

CloseTimer(c) ==
    /\ pc[c] = "loop"
    /\ closing[c]
    /\ Goto(c, "unsubscribe")
    /\ UNCHANGED <<jobVars, outbox, closing, left, toldEnd, channelVars>>

ClientLeaves(c) ==
    /\ pc[c] = "loop"
    /\ Goto(c, "unsubscribe")
    /\ left' = [left EXCEPT ![c] = TRUE]
    /\ UNCHANGED <<jobVars, outbox, closing, toldEnd, channelVars>>

\* Faulty variant: the channel is closed before it is deleted from r.subs.
UnsubscribeLate(c) ==
    /\ pc[c] = "unsubscribe"
    /\ Goto(c, "close")
    /\ open' = [open EXCEPT ![c] = FALSE]
    /\ UNCHANGED <<jobVars, outbox, closing, left, toldEnd, subs, chan, dropped>>

\* unsubscribe deletes the channel from r.subs under the lock and closes it
\* after the lock is released.
Unsubscribe(c) ==
    /\ pc[c] = "unsubscribe"
    /\ Goto(c, "close")
    /\ subs' = subs \ {c}
    /\ UNCHANGED <<jobVars, outbox, closing, left, toldEnd, chan, open, dropped>>

CloseChannel(c) ==
    /\ pc[c] = "close"
    /\ Goto(c, "done")
    /\ open' = [open EXCEPT ![c] = FALSE]
    /\ UNCHANGED <<jobVars, outbox, closing, left, toldEnd, subs, chan, dropped>>

-----------------------------------------------------------------------------
Next ==
    \/ Claim
    \/ \E new \in {"running", "completed", "failed"} : StatusUpdate(new)
    \/ CancelJob
    \/ ExpireJobIfIdle
    \/ \E k \in Kinds : RequestTransfer(k) \/ CommitTransfer(k)
    \/ \E h \in 1 .. MaxCalls : Publish(h)
    \/ \E c \in Clients :
        \/ Snapshot(c)
        \/ Subscribe(c)
        \/ Deliver(c)
        \/ CloseTimer(c)
        \/ ClientLeaves(c)
        \/ Unsubscribe(c)
        \/ CloseChannel(c)

\* Handlers finish what they began; nothing makes a client come or leave.
Fairness ==
    /\ \A h \in 1 .. MaxCalls : WF_vars(Publish(h))
    /\ \A c \in Clients :
        /\ WF_vars(Subscribe(c))
        /\ WF_vars(Deliver(c))
        /\ WF_vars(CloseTimer(c))
        /\ WF_vars(Unsubscribe(c))
        /\ WF_vars(CloseChannel(c))

Spec == Init /\ [][Next]_vars
FairSpec == Spec /\ Fairness

-----------------------------------------------------------------------------
TypeOK ==
    /\ status \in Events \ Kinds
    /\ requesting \in [Kinds -> {0, 1}]
    /\ calls \in 1 .. MaxCalls
    /\ outbox \in [1 .. MaxCalls -> Seq(Events)]
    /\ subs \subseteq Clients
    /\ chan \in [Clients -> Seq(Events)]
    /\ pc \in [Clients -> {"idle", "snapshot", "loop", "unsubscribe", "close",
                           "done"}]
    /\ {open, closing, left, toldEnd, dropped} \subseteq [Clients -> BOOLEAN]
    /\ witnesses \subseteq Clients

\* No publication ever meets a closed channel, which would be a panic: a
\* channel is out of the subscribers before it is closed.
SubscribersAreOpen == \A c \in subs : open[c]

\* The server closes a stream only after it has shown the client a terminal
\* status: it never hangs up on a client that still waits for the outcome.
HangsUpAfterEnd ==
    \A c \in Clients :
        pc[c] \in {"unsubscribe", "close", "done"} => left[c] \/ toldEnd[c]

\* A client that was subscribed when the job ended is told so, although the
\* event is published after the lock is released and events overtake each
\* other; the exceptions are a full channel and a client that leaves.
EndReachesWitnesses ==
    \A c \in Clients :
        c \in witnesses ~> toldEnd[c] \/ dropped[c] \/ left[c]
=============================================================================

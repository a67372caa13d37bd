------------------------------- MODULE Tunnel -------------------------------
(***************************************************************************)
(* The server's end of the relay tunnel: sdk/base/tunnel/registry.go with  *)
(* the hooks of modules/mcp/ext/adapters/mcp_tunnel.go, on top of the      *)
(* relays of McpRelay.                                                     *)
(*                                                                         *)
(* A connection that registers is in the registry under an id until its    *)
(* read loop ends.  A call of an HTTP client looks the relay up, takes one *)
(* of its slots, opens a session, sends its payload and waits for the      *)
(* first frame that answers; it holds the relay, not its entry, so it goes *)
(* on with a connection that has left the registry meanwhile.              *)
(*                                                                         *)
(* The context of a call ends at any time: its client leaves, or the       *)
(* request timeout expires.  Writes are taken not to block.                *)
(***************************************************************************)
EXTENDS McpRelay

CONSTANTS
    Limit,      \* Config.MaxConcurrencyPerClient; 0 for none
    ChanSlots   \* room in a session's channel: 4 in the code

ASSUME TunnelAssumption == Limit \in Nat /\ ChanSlots \in Nat \ {0}

VARIABLES
    registered,  \* Registry.relays: the connections it maps ids to
    reader,      \* of a connection: its read loop, MCPReadLoop
    draining,    \* the server drains
    pc,          \* of a call: where HTTPHandler is
    via,         \* of a call that runs: the connection it goes through
    inflight,    \* of a connection: Relay.Inflight (Sessions and Methods
                 \* change with it)
    pending,     \* calls whose channel is in Relay.Pending of their relay
    ch,          \* of a call: the types of the frames in its channel
    outcome      \* of a call: what its client is told

serverVars == <<registered, reader, draining, pc, via, inflight, pending, ch,
                outcome>>
callVars == <<pc, via, inflight, pending, ch, outcome>>
vars == <<link, toServer, toAgent, at, greeted, knownAs, id, rpc, bearer,
          cancels, canceled, results, breaks, serverVars>>

Holding ==
    {"opening", "waitOpen", "sending", "waitResponse", "closing", "leaving"}

TypeOK ==
    /\ RelayTypeOK
    /\ registered \subseteq Conns
    /\ reader \in [Conns -> {"none", "acking", "reading", "gone"}]
    /\ draining \in BOOLEAN
    /\ pc \in [Calls -> Holding \cup {"new", "located", "over"}]
    /\ via \in [Calls -> Conns \cup {NoConn}]
    /\ inflight \in [Conns -> Int]
    /\ pending \subseteq Calls
    /\ ch \in [Calls -> Seq(Types)]
    /\ outcome \in [Calls -> {"none", "answered", "empty", "failed"}]

Init ==
    /\ RelayInit
    /\ registered = {}
    /\ reader = [c \in Conns |-> "none"]
    /\ draining = FALSE
    /\ pc = [k \in Calls |-> "new"]
    /\ via = [k \in Calls |-> NoConn]
    /\ inflight = [c \in Conns |-> 0]
    /\ pending = {}
    /\ ch = [k \in Calls |-> <<>>]
    /\ outcome = [k \in Calls |-> "none"]

-----------------------------------------------------------------------------
\* WSHandler answers a dial unless the server drains.
Connect(c) == ~draining /\ Dial(c) /\ UNCHANGED serverVars

FreshIds ==
    {u \in Uuids : /\ \A c \in Conns : id[c] # u
                   /\ \A a \in Relays : knownAs[a] # u}

\* Faulty variant: a relay that comes back takes its entry over.
AdmitsAnybody(c, i) == TRUE

Admits(c, i) == \A d \in registered : id[d] # i

\* WSHandler after the register frame: an id is given when there is none, and
\* an id that is taken is refused.
Register(c) ==
    /\ link[c] = "dialed"
    /\ \E i \in IF id[c] = NoId THEN FreshIds ELSE {id[c]} :
         /\ id' = [id EXCEPT ![c] = i]
         /\ IF Admits(c, i)
            THEN /\ link' = [link EXCEPT ![c] = "up"]
                 /\ registered' = {d \in registered : id[d] # i} \cup {c}
                 /\ reader' = [reader EXCEPT ![c] = "acking"]
            ELSE /\ link' = [link EXCEPT ![c] = "closed"]
                 /\ UNCHANGED <<registered, reader>>
    /\ UNCHANGED <<pipeVars, at, greeted, knownAs, rpc, bearer, cancels,
                   canceled, results, breaks, draining, callVars>>

\* MCPReadLoop first writes the acknowledgement.  The relay is in the registry
\* already, so a call's open frame may go out before it.
Acknowledge(c) ==
    /\ reader[c] = "acking"
    /\ toAgent' = Put(toAgent, c, Frame("ack", NoCall))
    /\ reader' = [reader EXCEPT ![c] = "reading"]
    /\ UNCHANGED <<link, toServer, relayVars, breaks, registered, draining,
                   callVars>>

\* MCPReadLoop hands a frame to the session it names; a full channel drops it.
Route(c) ==
    LET frame == Head(toServer[c])
        k == frame.sid
    IN  /\ reader[c] = "reading"
        /\ toServer[c] # <<>>
        /\ toServer' = [toServer EXCEPT ![c] = Tail(@)]
        /\ ch' = IF k \in pending /\ via[k] = c /\ Len(ch[k]) < ChanSlots
                 THEN [ch EXCEPT ![k] = Append(@, frame.t)] ELSE ch
        /\ UNCHANGED <<link, toAgent, relayVars, breaks, registered, reader,
                       draining, pc, via, inflight, pending, outcome>>

\* The read fails: onClose removes what the registry has under the id.
EndReader(c) ==
    /\ reader[c] = "reading"
    /\ link[c] = "closed"
    /\ reader' = [reader EXCEPT ![c] = "gone"]
    /\ registered' = {d \in registered : id[d] # id[c]}
    /\ toServer' = [toServer EXCEPT ![c] = <<>>]
    /\ UNCHANGED <<link, toAgent, relayVars, breaks, draining, callVars>>

\* Faulty variant: a ping that the server writes counts as a sign of life.
DeclareDeadUnserved(c) ==
    /\ link[c] = "lost" /\ reader[c] = "none"
    /\ link' = [link EXCEPT ![c] = "closed"]
    /\ UNCHANGED <<pipeVars, relayVars, breaks, serverVars>>

\* heartbeatLoop closes a connection that has been silent for DeadAfter; one
\* that has not registered is left to the keepalive of TCP.
DeclareDead(c) ==
    /\ link[c] = "lost"
    /\ link' = [link EXCEPT ![c] = "closed"]
    /\ UNCHANGED <<pipeVars, relayVars, breaks, serverVars>>

StartDrain ==
    /\ ~draining
    /\ draining' = TRUE
    /\ UNCHANGED <<link, pipeVars, relayVars, breaks, registered, reader,
                   callVars>>

\* A connection that nothing refers to any more is used for a later one.
Recycle(c) ==
    /\ link[c] = "closed"
    /\ reader[c] \in {"none", "gone"}
    /\ at[Dialer[c]] # c
    /\ RpcsOf(c) = {}
    /\ \A k \in Calls : via[k] # c
    /\ link' = [link EXCEPT ![c] = "free"]
    /\ id' = [id EXCEPT ![c] = NoId]
    /\ reader' = [reader EXCEPT ![c] = "none"]
    /\ UNCHANGED <<pipeVars, at, greeted, knownAs, rpc, bearer, cancels,
                   canceled, results, breaks, registered, draining, callVars>>

-----------------------------------------------------------------------------
\* HTTPHandler.
Goto(k, from, to) == pc[k] = from /\ pc' = [pc EXCEPT ![k] = to]
Tell(k, what) == outcome' = [outcome EXCEPT ![k] = what]

\* The server drains, the id is not registered, or the request is not valid.
Refuse(k) ==
    /\ Goto(k, "new", "over")
    /\ Tell(k, "failed")
    /\ UNCHANGED <<link, pipeVars, relayVars, breaks, registered, reader,
                   draining, via, inflight, pending, ch>>

Locate(k) ==
    /\ ~draining
    /\ Goto(k, "new", "located")
    /\ \E c \in registered : via' = [via EXCEPT ![k] = c]
    /\ UNCHANGED <<link, pipeVars, relayVars, breaks, registered, reader,
                   draining, inflight, pending, ch, outcome>>

HasRoom(c) == Limit = 0 \/ inflight[c] < Limit

LimitExceeded(k) ==
    /\ Goto(k, "located", "over")
    /\ ~HasRoom(via[k])
    /\ Tell(k, "failed")
    /\ via' = [via EXCEPT ![k] = NoConn]
    /\ UNCHANGED <<link, pipeVars, relayVars, breaks, registered, reader,
                   draining, inflight, pending, ch>>

\* The slot is taken and then the channel registered; the session id is new
\* to everybody else, so nobody can come between.
Admit(k) ==
    /\ Goto(k, "located", "opening")
    /\ HasRoom(via[k])
    /\ inflight' = [inflight EXCEPT ![via[k]] = @ + 1]
    /\ pending' = pending \cup {k}
    /\ UNCHANGED <<link, pipeVars, relayVars, breaks, registered, reader,
                   draining, via, ch, outcome>>

\* A frame of the call goes out.
Write(k, t) ==
    /\ toAgent' = Put(toAgent, via[k], Frame(t, k))
    /\ UNCHANGED <<link, toServer, relayVars, breaks, registered, reader,
                   draining, via, inflight, pending, ch>>

Quiet == UNCHANGED <<link, pipeVars, relayVars, breaks, registered, reader,
                     draining, via, inflight, pending>>

Waited == Quiet /\ UNCHANGED ch

Open(k) == Goto(k, "opening", "waitOpen") /\ Write(k, "open") /\ UNCHANGED outcome

\* The connection is closed, or the context has ended.
OpenFails(k) == Goto(k, "opening", "leaving") /\ Tell(k, "failed") /\ Waited

Take(k) == ch[k] # <<>> /\ ch' = [ch EXCEPT ![k] = Tail(@)]

\* WaitOpen.
Opened(k) ==
    /\ Goto(k, "waitOpen", "sending")
    /\ Take(k)
    /\ Head(ch[k]) = "open.ok"
    /\ UNCHANGED outcome
    /\ Quiet

OpenRefused(k) ==
    /\ Goto(k, "waitOpen", "leaving")
    /\ Take(k)
    /\ Head(ch[k]) # "open.ok"
    /\ Tell(k, "failed")
    /\ Quiet

OpenTimesOut(k) == Goto(k, "waitOpen", "leaving") /\ Tell(k, "failed") /\ Waited

\* Faulty variant: WaitOpen does not look at the context.
WaitOpenForever(k) == Opened(k) \/ OpenRefused(k)

WaitOpen(k) == Opened(k) \/ OpenRefused(k) \/ OpenTimesOut(k)

Send(k) == Goto(k, "sending", "waitResponse") /\ Write(k, "rpc") /\ UNCHANGED outcome

SendFails(k) == Goto(k, "sending", "closing") /\ Tell(k, "failed") /\ Waited

\* WaitResponse takes whatever frame comes first for the response: one without
\* a payload is answered with an empty result.
Respond(k) ==
    /\ Goto(k, "waitResponse", "closing")
    /\ Take(k)
    /\ \/ Tell(k, IF Head(ch[k]) = "rpc" THEN "answered" ELSE "empty")
       \/ Head(ch[k]) = "rpc" /\ Tell(k, "failed")     \* larger than allowed
    /\ Quiet

ResponseTimesOut(k) ==
    Goto(k, "waitResponse", "closing") /\ Tell(k, "failed") /\ Waited

WaitResponse(k) == Respond(k) \/ ResponseTimesOut(k)

\* Adapter.Close, with a context that does not end; the client is told then.
CloseCall(k) == Goto(k, "closing", "leaving") /\ Write(k, "close") /\ UNCHANGED outcome

\* Faulty variant: only a call whose payload went out gives its slot back.
FinishOpened(k) ==
    /\ Goto(k, "leaving", "over")
    /\ pending' = pending \ {k}
    /\ ch' = [ch EXCEPT ![k] = <<>>]
    /\ inflight' = IF rpc[k] = "none" THEN inflight
                   ELSE [inflight EXCEPT ![via[k]] = @ - 1]
    /\ via' = [via EXCEPT ![k] = NoConn]
    /\ UNCHANGED <<link, pipeVars, relayVars, breaks, registered, reader,
                   draining, outcome>>

\* The deferred function: Unregister, and the slot is given back.
Finish(k) ==
    /\ Goto(k, "leaving", "over")
    /\ pending' = pending \ {k}
    /\ ch' = [ch EXCEPT ![k] = <<>>]
    /\ inflight' = [inflight EXCEPT ![via[k]] = @ - 1]
    /\ via' = [via EXCEPT ![k] = NoConn]
    /\ UNCHANGED <<link, pipeVars, relayVars, breaks, registered, reader,
                   draining, outcome>>

HandleCall(k) ==
    \/ Refuse(k) \/ Locate(k) \/ LimitExceeded(k) \/ Admit(k)
    \/ Open(k) \/ OpenFails(k) \/ WaitOpen(k)
    \/ Send(k) \/ SendFails(k) \/ WaitResponse(k)
    \/ CloseCall(k) \/ Finish(k)

RelayStep(c) ==
    /\ ReadAck(c) \/ Hangup(c) \/ Crash(c) \/ Break(c) \/ Serve(c)
    /\ UNCHANGED serverVars

Next ==
    \/ StartDrain
    \/ \E c \in Conns :
         \/ Connect(c) \/ Register(c) \/ Acknowledge(c) \/ Route(c)
         \/ EndReader(c) \/ DeclareDead(c) \/ Recycle(c) \/ RelayStep(c)
    \/ \E k \in Calls : HandleCall(k) \/ (HandleRpc(k) /\ UNCHANGED serverVars)
    \/ (* nothing is left to do *)
       /\ draining
       /\ \A k \in Calls : pc[k] = "over" /\ rpc[k] \notin Active
       /\ UNCHANGED vars

\* Handlers, read loops and goroutines run, timeouts expire, a relay redials,
\* and a silent connection is found out.  Nothing makes the network deliver a
\* frame, the provider answer, or the server drain.
Fairness ==
    /\ \A c \in Conns :
         /\ WF_vars(Connect(c)) /\ WF_vars(Register(c)) /\ WF_vars(Acknowledge(c))
         /\ WF_vars(EndReader(c)) /\ WF_vars(DeclareDead(c)) /\ WF_vars(Recycle(c))
         /\ WF_vars(Hangup(c) /\ UNCHANGED serverVars)
    /\ \A k \in Calls :
         /\ WF_vars(HandleCall(k))
         /\ WF_vars(HandleRpc(k) /\ UNCHANGED serverVars)

Spec == Init /\ [][Next]_vars /\ Fairness

-----------------------------------------------------------------------------
\* The count that the limit is checked against is the number of calls that
\* hold the relay, whatever way each of them ends, and no channel outlives its
\* call (HTTPHandler's deferred function).
InflightAgrees ==
    /\ pending = {k \in Calls : pc[k] \in Holding}
    /\ \A c \in Conns :
         /\ inflight[c] = Cardinality({k \in pending : via[k] = c})
         /\ Limit > 0 => inflight[c] <= Limit

\* A relay can be found exactly while its read loop runs: the loop of an old
\* connection that ends late takes away its own entry and no other, although
\* it removes by id (WSHandler, onClose).
FoundIffServed ==
    \A c \in Conns : c \in registered <=> reader[c] \in {"acking", "reading"}

\* A call is told the result of its own session or a failure, once; a frame
\* that is no response is never taken for an empty one (WaitResponse).
RC == INSTANCE RemoteCall WITH asked <- {k \in Calls : rpc[k] # "none"}
ImplementsCall == RC!Spec

\* Every call comes to its end, also when its relay is gone or has taken its
\* open frame for the acknowledgement (WaitOpen, WaitResponse).
EveryCallEnds == \A k \in Calls : pc[k] = "located" ~> pc[k] = "over"

\* A relay that lost its connection is registered again under its id, though
\* the server may hold the id for the silent old connection for a while; but
\* for one that took another frame for its acknowledgement and has no id.
RelayReturns ==
    \A a \in Relays :
        at[a] = NoConn ~> \/ draining \/ knownAs[a] # a
                          \/ \E c \in registered : id[c] = a /\ at[a] = c

\* The relay forgets every call in the end: its goroutine ends and its cancel
\* function goes, also when the close frame came too early to find it.
RelayForgets ==
    \A k \in Calls : rpc[k] # "none" ~> rpc[k] = "over" /\ k \notin cancels
=============================================================================

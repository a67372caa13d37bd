------------------------------ MODULE McpRelay ------------------------------
(***************************************************************************)
(* The relay process nfrx-mcp and the WebSockets it opens to the server:   *)
(* run.go and relay.go of modules/mcp/agent/internal/mcp over              *)
(* RunWithReconnect with reconnecting on.                                  *)
(*                                                                         *)
(* A relay has one connection at a time.  It sends its register frame,     *)
(* takes the first frame that comes back for the acknowledgement, and then *)
(* serves frames one after the other; each rpc frame gets a goroutine.     *)
(* Frames of one connection and one direction arrive in order.  A          *)
(* connection may break under both ends ("closed"), or fall silent         *)
(* ("lost"): then what is written is gone, and each end finds out alone.   *)
(* An element of Conns is used again for a later connection when nothing   *)
(* refers to it any more.  Pings and pongs only keep the connection alive. *)
(***************************************************************************)
EXTENDS Integers, Sequences, FiniteSets

CONSTANTS
    Relays, Conns,
    Dialer,      \* of a connection: the relay that dials it
    Calls,       \* calls of HTTP clients; a call is its own session id
    Authorized,  \* calls that carry the token the relay asks for
    Named,       \* relays with CLIENT_ID set: the id is the relay itself
    Uuids,       \* ids the server gives; each stands for many that are not in
                 \* use at the same time
    MaxBreaks,   \* bound: connections that break, and relays that crash
    NoConn, NoCall, NoId

ASSUME McpRelayAssumption ==
    /\ Dialer \in [Conns -> Relays]
    /\ Authorized \subseteq Calls
    /\ Named \subseteq Relays
    /\ NoId \notin Relays \cup Uuids
    /\ Relays \cap Uuids = {}
    /\ MaxBreaks \in Nat
    /\ NoConn \notin Conns
    /\ NoCall \notin Calls

VARIABLES
    link,       \* of a connection: "free", "dialed" (its register frame is
                \* on its way), "up", "lost", "closed"
    toServer, toAgent,  \* of a connection: the frames in each direction
    at,         \* of a relay: its connection, or NoConn
    greeted,    \* of a relay: it has read the acknowledgement
    knownAs,    \* of a relay: cfg.ClientID
    id,         \* of a connection: the id in its register frame, and later the
                \* id it is registered under and acknowledged with
    rpc,        \* of a call: its handleRPC goroutine
    bearer,     \* of a goroutine that runs: the connection its rpc frame came on
    cancels,    \* RelayClient.cancels: calls whose cancel function is stored
    canceled,   \* calls whose goroutine runs though its rpcCtx has ended
    results,    \* calls the provider returned a result for
    breaks      \* breaks and crashes so far

relayVars == <<at, greeted, knownAs, id, rpc, bearer, cancels, canceled, results>>
pipeVars == <<toServer, toAgent>>

Types == {"ack", "open", "open.ok", "open.fail", "rpc", "close"}
Frame(t, k) == [t |-> t, sid |-> k]
Frames == [t : Types, sid : Calls \cup {NoCall}]

\* "none": no rpc frame yet; "spawned": the cancel function is not stored;
\* "calling": in callProvider; "replying", "closing": about to send the rpc
\* and the close frame; "leaving": in the deferred clean-up.
Active == {"spawned", "calling", "replying", "closing", "leaving"}

Ids == Relays \cup Uuids \cup {NoId}
ConfiguredId(a) == IF a \in Named THEN a ELSE NoId

RelayTypeOK ==
    /\ link \in [Conns -> {"free", "dialed", "up", "lost", "closed"}]
    /\ toServer \in [Conns -> Seq(Frames)]
    /\ toAgent \in [Conns -> Seq(Frames)]
    /\ at \in [Relays -> Conns \cup {NoConn}]
    /\ greeted \in [Relays -> BOOLEAN]
    /\ knownAs \in [Relays -> Ids]
    /\ id \in [Conns -> Ids]
    /\ rpc \in [Calls -> Active \cup {"none", "over"}]
    /\ bearer \in [Calls -> Conns \cup {NoConn}]
    /\ cancels \subseteq Calls
    /\ canceled \subseteq Calls
    /\ results \subseteq Calls
    /\ breaks \in 0 .. MaxBreaks

RelayInit ==
    /\ link = [c \in Conns |-> "free"]
    /\ toServer = [c \in Conns |-> <<>>]
    /\ toAgent = [c \in Conns |-> <<>>]
    /\ at = [a \in Relays |-> NoConn]
    /\ greeted = [a \in Relays |-> FALSE]
    /\ knownAs = [a \in Relays |-> ConfiguredId(a)]
    /\ id = [c \in Conns |-> NoId]
    /\ rpc = [k \in Calls |-> "none"]
    /\ bearer = [k \in Calls |-> NoConn]
    /\ cancels = {}
    /\ canceled = {}
    /\ results = {}
    /\ breaks = 0

\* A write: what goes into a connection that is not up is lost or refused.
Put(pipe, c, frame) ==
    IF link[c] = "up" THEN [pipe EXCEPT ![c] = Append(@, frame)] ELSE pipe

Serving(c) == at[Dialer[c]] = c /\ greeted[Dialer[c]]
RpcsOf(c) == {k \in Calls : bearer[k] = c /\ rpc[k] \in Active}

-----------------------------------------------------------------------------
\* The dial and the register frame; the server is asked whether it drains.
Dial(c) ==
    LET a == Dialer[c]
    IN  /\ at[a] = NoConn
        /\ link[c] = "free"
        /\ link' = [link EXCEPT ![c] = "dialed"]
        /\ at' = [at EXCEPT ![a] = c]
        /\ id' = [id EXCEPT ![c] = knownAs[a]]
        /\ UNCHANGED <<pipeVars, greeted, knownAs, rpc, bearer, cancels,
                       canceled, results, breaks>>

\* The first frame is read as the acknowledgement whatever it is: any other
\* frame has no "id", and the relay takes the empty id for its own.
ReadAck(c) ==
    LET a == Dialer[c]
        frame == Head(toAgent[c])
    IN  /\ at[a] = c /\ ~greeted[a]
        /\ toAgent[c] # <<>>
        /\ toAgent' = [toAgent EXCEPT ![c] = Tail(@)]
        /\ greeted' = [greeted EXCEPT ![a] = TRUE]
        /\ knownAs' = [knownAs EXCEPT
                          ![a] = IF frame.t = "ack" THEN id[c] ELSE NoId]
        /\ UNCHANGED <<link, toServer, at, id, rpc, bearer, cancels, canceled,
                       results, breaks>>

\* The read fails: Run returns, which cancels what is being called.  A lost
\* connection is left as it is: the server does not learn of it.
Hangup(c) ==
    LET a == Dialer[c]
    IN  /\ at[a] = c
        /\ link[c] \in {"lost", "closed"}
        /\ at' = [at EXCEPT ![a] = NoConn]
        /\ greeted' = [greeted EXCEPT ![a] = FALSE]
        /\ canceled' = canceled \cup RpcsOf(c)
        /\ toAgent' = [toAgent EXCEPT ![c] = <<>>]
        /\ UNCHANGED <<link, toServer, knownAs, id, rpc, bearer, cancels,
                       results, breaks>>

\* The process dies and is started again: its goroutines are gone, and it has
\* the id of its configuration.
Crash(c) ==
    LET a == Dialer[c]
    IN  /\ at[a] = c
        /\ breaks < MaxBreaks
        /\ breaks' = breaks + 1
        /\ at' = [at EXCEPT ![a] = NoConn]
        /\ greeted' = [greeted EXCEPT ![a] = FALSE]
        /\ knownAs' = [knownAs EXCEPT ![a] = ConfiguredId(a)]
        /\ rpc' = [k \in Calls |-> IF k \in RpcsOf(c) THEN "over" ELSE rpc[k]]
        /\ cancels' = cancels \ RpcsOf(c)
        /\ \E l \in {"lost", "closed"} :
             link' = [link EXCEPT ![c] = IF @ = "closed" THEN @ ELSE l]
        /\ toAgent' = [toAgent EXCEPT ![c] = <<>>]
        /\ bearer' = [k \in Calls |-> IF k \in RpcsOf(c) THEN NoConn ELSE bearer[k]]
        /\ canceled' = canceled \ RpcsOf(c)
        /\ UNCHANGED <<toServer, id, results>>

\* The network breaks a connection.
Break(c) ==
    /\ link[c] \in {"dialed", "up"}
    /\ breaks < MaxBreaks
    /\ breaks' = breaks + 1
    /\ \E l \in {"lost", "closed"} : link' = [link EXCEPT ![c] = l]
    /\ UNCHANGED <<pipeVars, relayVars>>

-----------------------------------------------------------------------------
\* RelayClient.Run, one frame.
Receive(c, t) ==
    /\ Serving(c)
    /\ toAgent[c] # <<>>
    /\ Head(toAgent[c]).t = t
    /\ toAgent' = [toAgent EXCEPT ![c] = Tail(@)]
    /\ UNCHANGED <<link, at, greeted, knownAs, id, results, breaks>>

ReceiveOpen(c) ==
    LET k == Head(toAgent[c]).sid
    IN  /\ Receive(c, "open")
        /\ toServer' = Put(toServer, c,
                 Frame(IF k \in Authorized THEN "open.ok" ELSE "open.fail", k))
        /\ UNCHANGED <<rpc, bearer, cancels, canceled>>

ReceiveRpc(c) ==
    LET k == Head(toAgent[c]).sid
    IN  /\ Receive(c, "rpc")
        /\ rpc' = [rpc EXCEPT ![k] = "spawned"]
        /\ bearer' = [bearer EXCEPT ![k] = c]
        /\ UNCHANGED <<toServer, cancels, canceled>>

\* A close that comes before the cancel function was stored cancels nothing.
ReceiveClose(c) ==
    LET k == Head(toAgent[c]).sid
    IN  /\ Receive(c, "close")
        /\ canceled' = IF k \in cancels THEN canceled \cup {k} ELSE canceled
        /\ cancels' = cancels \ {k}
        /\ UNCHANGED <<toServer, rpc, bearer>>

\* An acknowledgement that an open frame overtook has no type: ignored.
ReceiveOther(c) ==
    /\ Receive(c, "ack")
    /\ UNCHANGED <<toServer, rpc, bearer, cancels, canceled>>

-----------------------------------------------------------------------------
\* handleRPC.
GotoRpc(k, from, to) == rpc[k] = from /\ rpc' = [rpc EXCEPT ![k] = to]

StoreCancel(k) ==
    /\ GotoRpc(k, "spawned", "calling")
    /\ cancels' = cancels \cup {k}
    /\ UNCHANGED <<link, pipeVars, at, greeted, knownAs, id, bearer, canceled,
                   results, breaks>>

\* The provider returned, be it an error, before rpcCtx ended.
CallReturns(k) ==
    /\ k \notin canceled
    /\ GotoRpc(k, "calling", "replying")
    /\ results' = results \cup {k}
    /\ UNCHANGED <<link, pipeVars, at, greeted, knownAs, id, bearer, cancels,
                   canceled, breaks>>

\* rpcCtx has ended, or its timeout expires now: no reply and no close frame.
CutCall(k) ==
    /\ GotoRpc(k, "calling", "leaving")
    /\ canceled' = canceled \cup {k}
    /\ UNCHANGED <<link, pipeVars, at, greeted, knownAs, id, bearer, cancels,
                   results, breaks>>

\* Faulty variant: the session is closed before it is answered.
ReplyAfterClose(k) ==
    /\ GotoRpc(k, "replying", "closing")
    /\ toServer' = Put(toServer, bearer[k], Frame("close", k))
    /\ UNCHANGED <<link, toAgent, at, greeted, knownAs, id, bearer, cancels,
                   canceled, results, breaks>>

Reply(k) ==
    /\ GotoRpc(k, "replying", "closing")
    /\ toServer' = Put(toServer, bearer[k], Frame("rpc", k))
    /\ UNCHANGED <<link, toAgent, at, greeted, knownAs, id, bearer, cancels,
                   canceled, results, breaks>>

CloseSession(k) ==
    /\ GotoRpc(k, "closing", "leaving")
    /\ toServer' = Put(toServer, bearer[k], Frame("close", k))
    /\ UNCHANGED <<link, toAgent, at, greeted, knownAs, id, bearer, cancels,
                   canceled, results, breaks>>

\* Faulty variant: the cancel function of a finished call is kept.
LeaveStored(k) ==
    /\ GotoRpc(k, "leaving", "over")
    /\ canceled' = canceled \ {k}
    /\ bearer' = [bearer EXCEPT ![k] = NoConn]
    /\ UNCHANGED <<link, pipeVars, at, greeted, knownAs, id, cancels, results,
                   breaks>>

Leave(k) ==
    /\ GotoRpc(k, "leaving", "over")
    /\ canceled' = canceled \ {k}
    /\ cancels' = cancels \ {k}
    /\ bearer' = [bearer EXCEPT ![k] = NoConn]
    /\ UNCHANGED <<link, pipeVars, at, greeted, knownAs, id, results, breaks>>

Serve(c) ==
    ReceiveOpen(c) \/ ReceiveRpc(c) \/ ReceiveClose(c) \/ ReceiveOther(c)

HandleRpc(k) ==
    \/ StoreCancel(k) \/ CallReturns(k) \/ CutCall(k)
    \/ Reply(k) \/ CloseSession(k) \/ Leave(k)
=============================================================================

------------------------------ MODULE Transfer ------------------------------
(***************************************************************************)
(* One transfer channel of server/internal/transfer/transfer.go: a reader  *)
(* and a writer that may come in any order, more of either side that come  *)
(* too, the timer that gives up on them, and the pipe.                     *)
(*                                                                         *)
(* Two mutexes are involved: the registry's guards the map of channels,    *)
(* the channel's guards reader, writer, closed and err.  Nobody holds both *)
(* so looking a channel up and attaching to it are two steps, and so are   *)
(* taking it out of the map and closing it.                                *)
(*                                                                         *)
(* A Go select that blocks is decided by the event that unblocks it; one   *)
(* that finds several alternatives ready when it is reached picks any.     *)
(***************************************************************************)
EXTENDS Naturals

CONSTANTS
    Readers, Writers,  \* the HTTP requests of each side
    Chunks             \* bound: writes of one pipe

Parties == Readers \cup Writers

\* ch.reader or ch.writer before anybody attached; and who closes a channel
\* that no party does.
Nobody == "nobody"
TheTimer == "the timer"

ASSUME TransferAssumption ==
    /\ Readers \cap Writers = {}
    /\ Nobody \notin Parties /\ TheTimer \notin Parties
    /\ Chunks \in Nat

VARIABLES
    listed,          \* the channel is in the registry's map
    closed, err,     \* ch.closed, ch.err
    reader, writer,  \* ch.reader, ch.writer
    ready, done,     \* how often the Go channels of these names were closed
    timer,           \* "armed", "stopped", "fired" (expire is about to look
                     \* the channel up), "unlisted" (expire took it out of the
                     \* map and is about to close it), "over"
    pc,              \* of a party: where its handler stands
    gone,            \* of a party: its client went away, the context is done
    answer,          \* of a party: what its handler answers
    piped,           \* writes of the pipe so far
    astray           \* history: a write came after the reader's handler
                     \* returned

channelVars == <<listed, closed, err, reader, writer, ready, done, timer>>
pipeVars == <<piped, astray>>
vars == <<channelVars, pc, gone, answer, pipeVars>>

Init ==
    /\ listed = TRUE
    /\ closed = FALSE
    /\ err = "nil"
    /\ reader = Nobody
    /\ writer = Nobody
    /\ ready = 0
    /\ done = 0
    /\ timer = "armed"
    /\ pc = [x \in Parties |-> "idle"]
    /\ gone = [x \in Parties |-> FALSE]
    /\ answer = [x \in Parties |-> "none"]
    /\ piped = 0
    /\ astray = FALSE

-----------------------------------------------------------------------------
Goto(x, where) == pc' = [pc EXCEPT ![x] = where]

\* Where x goes with its answer.
Leave(x, where, what) ==
    /\ Goto(x, where)
    /\ answer' = [answer EXCEPT ![x] = what]

\* Attach, first part: the lookup in the map.
LookUp(x) ==
    /\ pc[x] = "idle"
    /\ IF listed THEN Goto(x, "found") /\ UNCHANGED answer
                 ELSE Leave(x, "returned", "not found")
    /\ UNCHANGED <<channelVars, gone, pipeVars>>

RoleTaken(x) == (IF x \in Readers THEN reader ELSE writer) # Nobody

\* Attach, second part, under the channel's mutex: refuse ...
Refuse(x) ==
    /\ pc[x] = "found"
    /\ closed \/ RoleTaken(x)
    /\ Leave(x, "returned", CASE ~closed -> "in use"
                              [] closed /\ err = "expired" -> "expired"
                              [] closed /\ err # "expired" -> "closed")
    /\ UNCHANGED <<channelVars, gone, pipeVars>>

\* ... or attach.  The second of the two stops the timer, without looking at
\* whether it has fired, and closes ready: a party that was blocked goes on.
Attach(x) ==
    /\ pc[x] = "found"
    /\ ~closed /\ ~RoleTaken(x)
    /\ reader' = IF x \in Readers THEN x ELSE reader
    /\ writer' = IF x \in Writers THEN x ELSE writer
    /\ IF reader' # Nobody /\ writer' # Nobody
       THEN /\ timer' = IF timer = "armed" THEN "stopped" ELSE timer
            /\ ready' = 1
            /\ pc' = [y \in Parties |-> CASE y = x -> "select"
                                          [] y # x /\ pc[y] = "blocked" -> "ready"
                                          [] OTHER -> pc[y]]
       ELSE Goto(x, "select") /\ UNCHANGED <<timer, ready>>
    /\ UNCHANGED <<listed, closed, err, done, gone, answer, pipeVars>>

\* The select of HandleReader and HandleWriter, when it is reached.
Select(x) ==
    /\ pc[x] = "select"
    /\ \/ ready > 0 /\ Goto(x, "ready")
       \/ done > 0 /\ Goto(x, "done")
       \/ gone[x] /\ Goto(x, "unlist")
       \/ ready = 0 /\ done = 0 /\ ~gone[x] /\ Goto(x, "blocked")
    /\ UNCHANGED <<channelVars, gone, answer, pipeVars>>

ClientLeaves(x) ==
    /\ pc[x] \notin {"idle", "returned"}
    /\ ~gone[x]
    /\ gone' = [gone EXCEPT ![x] = TRUE]
    /\ IF pc[x] = "blocked" THEN Goto(x, "unlist") ELSE UNCHANGED pc
    /\ UNCHANGED <<channelVars, answer, pipeVars>>

\* done came first: the handler answers with the channel's error, and takes
\* the absence of one for an invalid transfer.
WriteError(x) ==
    /\ pc[x] = "done"
    /\ Leave(x, "returned", CASE err = "nil" -> "invalid"
                              [] err = "expired" -> "expired"
                              [] OTHER -> "failed")
    /\ UNCHANGED <<channelVars, gone, pipeVars>>

\* Faulty variant: the reader's handler does not wait for done.
ReadAtOnce(x) ==
    /\ x \in Readers
    /\ pc[x] = "ready"
    /\ Leave(x, "returned", "data")
    /\ UNCHANGED <<channelVars, gone, pipeVars>>

\* The reader's handler has nothing to do but wait for done: it is the
\* writer's handler that writes the reader's response.
Read(x) ==
    /\ x \in Readers
    /\ pc[x] = "ready"
    /\ done > 0
    /\ Leave(x, "returned", "data")
    /\ UNCHANGED <<channelVars, gone, pipeVars>>

Pipe(x) ==
    /\ x \in Writers
    /\ pc[x] = "ready"
    /\ piped < Chunks
    /\ piped' = piped + 1
    /\ astray' = (astray \/ pc[reader] = "returned")
    /\ UNCHANGED <<channelVars, pc, gone, answer>>

\* The pipe ends well, or with an error once one of its ends is gone.
PipeEnds(x) ==
    /\ x \in Writers
    /\ pc[x] = "ready"
    /\ \/ Leave(x, "unlist", "ok")
       \/ /\ gone[x] \/ gone[reader] \/ pc[reader] = "returned"
          /\ Leave(x, "unlist", "failed")
    /\ UNCHANGED <<channelVars, gone, pipeVars>>

-----------------------------------------------------------------------------
\* channel.close: the first caller sets err and closes done, which unblocks
\* everybody; later callers do nothing.
Close(e, afterwards) ==
    IF closed
    THEN pc' = afterwards /\ UNCHANGED <<closed, err, done>>
    ELSE /\ closed' = TRUE
         /\ err' = e
         /\ done' = done + 1
         /\ pc' = [y \in Parties |-> IF afterwards[y] = "blocked"
                                     THEN "done" ELSE afterwards[y]]

\* Registry.Close, called by a party whose client left before the other side
\* came and by the writer at the end of its pipe: out of the map, then close.
\* Who does not find the channel leaves the closing to the one who took it.
Unlist(x) ==
    /\ pc[x] = "unlist"
    /\ listed' = FALSE
    /\ Goto(x, IF listed THEN "close" ELSE "returned")
    /\ UNCHANGED <<closed, err, reader, writer, ready, done, timer, gone,
                   answer, pipeVars>>

CloseChannel(x) ==
    /\ pc[x] = "close"
    /\ Close(CASE answer[x] = "ok" -> "nil"
               [] answer[x] = "failed" -> "copy"
               [] OTHER -> "context",
             [pc EXCEPT ![x] = "returned"])
    /\ UNCHANGED <<listed, reader, writer, ready, timer, gone, answer, pipeVars>>

\* The timer starts expire in a goroutine of its own.
TimerFires ==
    /\ timer = "armed"
    /\ timer' = "fired"
    /\ UNCHANGED <<listed, closed, err, reader, writer, ready, done, pc, gone,
                   answer, pipeVars>>

\* Faulty variant: expire closes the channel whether it found it or not.
ExpireAnyway ==
    /\ timer = "fired"
    /\ listed' = FALSE
    /\ timer' = "unlisted"
    /\ UNCHANGED <<closed, err, reader, writer, ready, done, pc, gone, answer,
                   pipeVars>>

Expire ==
    /\ timer = "fired"
    /\ listed' = FALSE
    /\ timer' = IF listed THEN "unlisted" ELSE "over"
    /\ UNCHANGED <<closed, err, reader, writer, ready, done, pc, gone, answer,
                   pipeVars>>

\* Faulty variant: an expired channel is taken out of the map and not closed.
ExpireOnly ==
    /\ timer = "unlisted"
    /\ timer' = "over"
    /\ UNCHANGED <<listed, closed, err, reader, writer, ready, done, pc, gone,
                   answer, pipeVars>>

ExpireClose ==
    /\ timer = "unlisted"
    /\ timer' = "over"
    /\ Close("expired", pc)
    /\ UNCHANGED <<listed, reader, writer, ready, gone, answer, pipeVars>>

-----------------------------------------------------------------------------
Party(x) ==
    \/ LookUp(x) \/ Refuse(x) \/ Attach(x) \/ Select(x) \/ ClientLeaves(x)
    \/ WriteError(x) \/ Read(x) \/ Pipe(x) \/ PipeEnds(x)
    \/ Unlist(x) \/ CloseChannel(x)

Next ==
    \/ \E x \in Parties : Party(x)
    \/ TimerFires \/ Expire \/ ExpireClose

\* Handlers and callbacks run on, timers fire, and a pipe ends: its writer
\* comes to the end of the body or goes away.  Nobody has to come.
Fairness ==
    /\ WF_vars(TimerFires) /\ WF_vars(Expire) /\ WF_vars(ExpireClose)
    /\ \A x \in Parties :
        /\ WF_vars(Refuse(x) \/ Attach(x))
        /\ WF_vars(Select(x))
        /\ WF_vars(WriteError(x))
        /\ WF_vars(Read(x))
        /\ WF_vars(PipeEnds(x))
        /\ WF_vars(Unlist(x))
        /\ WF_vars(CloseChannel(x))

Spec == Init /\ [][Next]_vars
FairSpec == Spec /\ Fairness

-----------------------------------------------------------------------------
TypeOK ==
    /\ {listed, closed, astray} \subseteq BOOLEAN
    /\ err \in {"nil", "expired", "context", "copy"}
    /\ reader \in Readers \cup {Nobody}
    /\ writer \in Writers \cup {Nobody}
    /\ ready \in Nat /\ done \in Nat /\ piped \in 0 .. Chunks
    /\ timer \in {"armed", "stopped", "fired", "unlisted", "over"}
    /\ pc \in [Parties -> {"idle", "found", "select", "blocked", "ready",
                           "done", "unlist", "close", "returned"}]
    /\ gone \in [Parties -> BOOLEAN]
    /\ answer \in [Parties -> {"none", "not found", "in use", "expired", "closed",
                               "invalid", "failed", "ok", "data"}]

\* The writer, the reader's departure and the timer may all want to close the
\* channel.  Whoever takes it out of the map is the only one that does: its
\* error is the one both sides see, and done, which must not be closed twice,
\* is closed once.
OneCloser ==
    LET closers == {x \in Parties : pc[x] = "close"}
                     \cup {t \in {TheTimer} : timer = "unlisted"}
    IN  /\ \A x, y \in closers : x = y
        /\ closers # {} => ~listed /\ done = 0
        /\ listed => done = 0
        /\ done <= 1

\* The writer's handler writes into the response of a handler that has
\* returned only if that reader's client left or the timer came too late to be
\* stopped: there is no third way.
ResponseIsAlive == astray => gone[reader] \/ timer = "over"

\* A reader whose response ends as data has the writer's whole body, unless one
\* of the two clients left or the timer came too late to be stopped: nothing in
\* the response tells the reader which.
DataIsWhole ==
    \A x \in Readers : answer[x] = "data" =>
        answer[writer] = "ok" \/ gone[writer] \/ gone[x] \/ timer = "over"

\* Every party that comes is answered, and the channel leaves the map.
EverybodyReturns ==
    /\ \A x \in Parties : pc[x] # "idle" ~> pc[x] = "returned"
    /\ <>~listed
=============================================================================

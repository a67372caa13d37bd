--------------------------- MODULE TransferProofs ---------------------------
(***************************************************************************)
(* Theorems about Transfer, for any number of readers and writers and any  *)
(* number of writes: the channel has one closer, a pipe writes into a live *)
(* response, and data that ends well is whole, each but for the ways that  *)
(* the property names.                                                     *)
(***************************************************************************)
EXTENDS Transfer, TLAPS

USE DEF Parties, Goto, Leave

Places == {"idle", "found", "select", "blocked", "ready", "done", "unlist",
           "close", "returned"}

\* Where the handler of a party stands that attached and has not returned.
Inside == {"select", "blocked", "ready", "done", "unlist", "close"}

\* What a call of channel.close leaves behind.
LEMMA CloseType ==
    ASSUME TypeOK, NEW e \in {"nil", "expired", "context", "copy"},
           NEW next \in [Parties -> Places], Close(e, next)
    PROVE  /\ closed' \in BOOLEAN /\ err' \in {"nil", "expired", "context", "copy"}
           /\ done' \in Nat /\ pc' \in [Parties -> Places]
<1>1. CASE closed
  BY <1>1 DEF Close, TypeOK
<1>2. CASE ~closed
  <2>1. pc' \in [Parties -> Places]
    BY <1>2 DEF Close, Places
  <2>2. closed' \in BOOLEAN
    BY <1>2 DEF Close
  <2>3. err' = e /\ done' = done + 1
    BY <1>2 DEF Close
  <2>4. done \in Nat
    BY DEF TypeOK
  <2> QED BY <2>1, <2>2, <2>3, <2>4
<1> QED BY <1>1, <1>2

\* Every variable keeps its type.
LEMMA TypeStep == TypeOK /\ [Next]_vars => TypeOK'
<1> SUFFICES ASSUME TypeOK, [Next]_vars PROVE TypeOK'
  OBVIOUS
<1>1. ASSUME NEW x \in Parties, Attach(x) PROVE TypeOK'
  <2>1. pc' \in [Parties -> Places]
    BY <1>1 DEF Attach, TypeOK, Places
  <2>2. timer' \in {"armed", "stopped", "fired", "unlisted", "over"} /\ ready' \in Nat
    <3>1. \/ timer' = (IF timer = "armed" THEN "stopped" ELSE timer) /\ ready' = 1
          \/ UNCHANGED <<timer, ready>>
      BY <1>1 DEF Attach
    <3>2. /\ timer \in {"armed", "stopped", "fired", "unlisted", "over"}
          /\ ready \in Nat
      BY DEF TypeOK
    <3> QED BY <3>1, <3>2
  <2>3. reader' \in Readers \cup {Nobody} /\ writer' \in Writers \cup {Nobody}
    BY <1>1 DEF Attach, TypeOK
  <2> QED BY <1>1, <2>1, <2>2, <2>3 DEF Attach, TypeOK, Places, pipeVars
<1>2. ASSUME NEW x \in Parties,
             \/ LookUp(x) \/ Refuse(x) \/ Select(x) \/ ClientLeaves(x)
             \/ WriteError(x) \/ Read(x) \/ PipeEnds(x) \/ Unlist(x)
      PROVE  TypeOK'
  <2>1. pc' \in [Parties -> Places]
    BY <1>2 DEF LookUp, Refuse, Select, ClientLeaves, WriteError, Read, PipeEnds,
       Unlist, TypeOK, Places
  <2>2. /\ gone' \in [Parties -> BOOLEAN]
        /\ answer' \in [Parties -> {"none", "not found", "in use", "expired",
                            "closed", "invalid", "failed", "ok", "data"}]
    BY <1>2 DEF LookUp, Refuse, Select, ClientLeaves, WriteError, Read, PipeEnds,
       Unlist, TypeOK
  <2>3. listed' \in BOOLEAN
    BY <1>2 DEF LookUp, Refuse, Select, ClientLeaves, WriteError, Read, PipeEnds,
       Unlist, TypeOK, channelVars
  <2>4. UNCHANGED <<closed, err, reader, writer, ready, done, timer, piped, astray>>
    BY <1>2 DEF LookUp, Refuse, Select, ClientLeaves, WriteError, Read, PipeEnds,
       Unlist, channelVars, pipeVars
  <2> QED BY <2>1, <2>2, <2>3, <2>4 DEF TypeOK, Places
<1>3. ASSUME NEW x \in Parties, Pipe(x) PROVE TypeOK'
  <2>1. piped' \in 0 .. Chunks
    <3>1. piped \in 0 .. Chunks /\ Chunks \in Nat
      BY TransferAssumption DEF TypeOK
    <3>2. piped < Chunks /\ piped' = piped + 1
      BY <1>3 DEF Pipe
    <3> QED BY <3>1, <3>2
  <2>2. astray' \in BOOLEAN
    BY <1>3 DEF Pipe
  <2> QED BY <1>3, <2>1, <2>2 DEF Pipe, TypeOK, channelVars
<1>4. ASSUME NEW x \in Parties, CloseChannel(x) PROVE TypeOK'
  <2>1. [pc EXCEPT ![x] = "returned"] \in [Parties -> Places]
    BY DEF TypeOK, Places
  <2> QED BY <1>4, <2>1, CloseType DEF CloseChannel, TypeOK, Places, pipeVars
<1>5. CASE ExpireClose
  <2>1. pc \in [Parties -> Places]
    BY DEF TypeOK, Places
  <2> QED BY <1>5, <2>1, CloseType DEF ExpireClose, TypeOK, Places, pipeVars
<1>6. CASE TimerFires \/ Expire \/ UNCHANGED vars
  BY <1>6 DEF TimerFires, Expire, vars, channelVars, pipeVars, TypeOK
<1> QED BY <1>1, <1>2, <1>3, <1>4, <1>5, <1>6 DEF Next, Party

\* Every variable keeps its type (TypeOK).
THEOREM TypeCorrect == Spec => []TypeOK
<1>1. Init => TypeOK
  <2> SUFFICES ASSUME Init PROVE TypeOK
    OBVIOUS
  <2>1. piped \in 0 .. Chunks /\ ready \in Nat /\ done \in Nat
    BY TransferAssumption DEF Init
  <2>2. {listed, closed, astray} \subseteq BOOLEAN
    BY DEF Init
  <2> QED BY <2>1, <2>2 DEF Init, TypeOK
<1> QED BY <1>1, TypeStep, PTL DEF Spec

-----------------------------------------------------------------------------
\* Whoever took the channel out of the map closes it, and nobody else: the
\* strengthening says that closed and the number of closes go together.
Closing ==
    /\ listed => ~closed /\ timer # "unlisted" /\ \A x \in Parties : pc[x] # "close"
    /\ timer = "unlisted" => ~closed /\ \A x \in Parties : pc[x] # "close"
    /\ \A x, y \in Parties : pc[x] = "close" /\ pc[y] = "close" => x = y /\ ~closed
    /\ done = IF closed THEN 1 ELSE 0

\* Of Unlist and Expire only one finds the channel in the map.
LEMMA ClosingStep == TypeOK /\ Closing /\ [Next]_vars => Closing'
<1> SUFFICES ASSUME TypeOK, Closing, [Next]_vars PROVE Closing'
  OBVIOUS
<1>0. pc \in [Parties -> Places]
  BY DEF TypeOK, Places
<1>1. ASSUME UNCHANGED <<listed, closed, done>>,
             timer' # "unlisted" \/ timer' = timer,
             \A x \in Parties : pc'[x] = "close" => pc[x] = "close"
      PROVE  Closing'
  BY <1>1 DEF Closing
<1>2. ASSUME NEW x \in Parties,
             \/ LookUp(x) \/ Refuse(x) \/ Select(x) \/ ClientLeaves(x)
             \/ WriteError(x) \/ Read(x) \/ Pipe(x) \/ PipeEnds(x)
      PROVE  Closing'
  BY <1>0, <1>1, <1>2 DEF LookUp, Refuse, Select, ClientLeaves, WriteError, Read,
     Pipe, PipeEnds, channelVars
<1>3. ASSUME NEW x \in Parties, Attach(x) PROVE Closing'
  BY <1>0, <1>1, <1>3 DEF Attach
<1>4. ASSUME NEW x \in Parties, Unlist(x) PROVE Closing'
  BY <1>0, <1>4 DEF Unlist, Closing
<1>5. ASSUME NEW x \in Parties, CloseChannel(x) PROVE Closing'
  <2>1. ~closed /\ ~listed /\ timer # "unlisted" /\ done = 0
    BY <1>5 DEF CloseChannel, Closing, TypeOK
  <2>2. /\ closed' = TRUE /\ done' = 1 /\ UNCHANGED <<listed, timer>>
        /\ \A y \in Parties : pc'[y] # "close"
    BY <1>0, <1>5, <2>1 DEF CloseChannel, Close, Closing
  <2> QED BY <2>1, <2>2 DEF Closing
<1>6. CASE ExpireClose
  <2>1. ~closed /\ ~listed /\ done = 0
    BY <1>6 DEF ExpireClose, Closing, TypeOK
  <2>2. /\ closed' = TRUE /\ done' = 1 /\ timer' = "over" /\ listed' = listed
        /\ \A y \in Parties : pc'[y] # "close"
    BY <1>0, <1>6, <2>1 DEF ExpireClose, Close, Closing
  <2> QED BY <2>1, <2>2 DEF Closing
<1>7. CASE Expire
  BY <1>7 DEF Expire, Closing
<1>8. CASE TimerFires \/ UNCHANGED vars
  BY <1>1, <1>8 DEF TimerFires, vars, channelVars
<1> QED BY <1>2, <1>3, <1>4, <1>5, <1>6, <1>7, <1>8 DEF Next, Party

\* The channel is closed by the one that took it out of the map, once
\* (OneCloser).
THEOREM ChannelHasOneCloser == Spec => []OneCloser
<1>1. Init => Closing
  BY DEF Init, Closing
<1>2. TypeOK /\ Closing => OneCloser
  <2> SUFFICES ASSUME TypeOK, Closing PROVE OneCloser
    OBVIOUS
  <2> DEFINE closers == {x \in Parties : pc[x] = "close"}
                          \cup {t \in {TheTimer} : timer = "unlisted"}
  <2>1. \A x, y \in closers : x = y
    BY DEF Closing
  <2>2. closers # {} => ~listed /\ done = 0
    BY DEF Closing
  <2>3. done <= 1 /\ (listed => done = 0)
    BY DEF Closing
  <2> QED BY <2>1, <2>2, <2>3 DEF OneCloser
<1> QED BY <1>1, <1>2, ClosingStep, TypeCorrect, PTL DEF Spec

-----------------------------------------------------------------------------
\* What the reader and the writer of the channel went through.  Excused are the
\* two ways in which a channel may be closed under a pipe.
Excused == timer = "over" \/ (reader \in Readers /\ gone[reader])

\* Only who attached gets past the attachment, and nobody is ready before both
\* sides did.
Attached ==
    /\ \A x \in Parties : pc[x] \in Inside =>
          (x \in Readers /\ reader = x) \/ (x \in Writers /\ writer = x)
    /\ reader \in Readers => pc[reader] \in Inside \cup {"returned"}
    /\ writer \in Writers => pc[writer] \in Inside \cup {"returned"}
    /\ ready > 0 => reader \in Readers /\ writer \in Writers
    /\ \A x \in Parties : /\ pc[x] = "ready" => ready > 0
                          /\ pc[x] = "done" => closed

\* The reader closes only after its client left, and returns only then or when
\* the channel is closed.
ReaderWay ==
    reader \in Readers =>
        /\ pc[reader] \in {"unlist", "close"} => gone[reader]
        /\ pc[reader] = "returned" => closed \/ gone[reader]

\* The writer is through with all its bytes, or somebody left.
WriterWay ==
    writer \in Writers /\ pc[writer] \in {"unlist", "close", "returned"} =>
        answer[writer] = "ok" \/ gone[writer] \/ Excused

\* A channel that is closed under its writer was closed by the timer or by the
\* reader, whose client left.
ClosedBy ==
    closed => Excused \/ (writer \in Writers /\ pc[writer] = "returned")

DataWay ==
    \A x \in Readers : answer[x] = "data" => reader = x /\ ready > 0 /\ closed

PipeInv ==
    /\ Attached /\ ReaderWay /\ WriterWay /\ ClosedBy /\ DataWay
    /\ astray => Excused

\* A step that moves parties which had nothing to do with the channel, or
\* nobody at all.
LEMMA PipeQuiet ==
    ASSUME TypeOK, PipeInv, UNCHANGED <<closed, reader, writer, ready, astray>>,
           timer = "over" => timer' = "over",
           \A x \in Parties :
              \/ pc'[x] = pc[x] /\ answer'[x] = answer[x] /\ (gone[x] => gone'[x])
              \/ /\ pc[x] \in {"idle", "found"} /\ pc'[x] \in {"found", "returned"}
                 /\ x \in Readers => answer'[x] # "data"
    PROVE  PipeInv'
<1>1. \A x \in Readers : reader = x =>
        pc'[x] = pc[x] /\ answer'[x] = answer[x] /\ (gone[x] => gone'[x])
  BY DEF PipeInv, Attached, Inside
<1>2. \A x \in Writers : writer = x =>
        pc'[x] = pc[x] /\ answer'[x] = answer[x] /\ (gone[x] => gone'[x])
  BY DEF PipeInv, Attached, Inside
<1>3. Excused => Excused'
  BY <1>1 DEF Excused
<1>4. Attached'
  BY <1>1, <1>2 DEF PipeInv, Attached, Inside
<1>5. ReaderWay' /\ WriterWay' /\ ClosedBy'
  BY <1>1, <1>2, <1>3 DEF PipeInv, ReaderWay, WriterWay, ClosedBy
<1>6. DataWay' /\ (astray' => Excused')
  BY <1>3 DEF PipeInv, DataWay
<1> QED BY <1>4, <1>5, <1>6 DEF PipeInv

\* A step of one party inside, of the reader or of the writer.
LEMMA PipeMove ==
    ASSUME TypeOK, PipeInv, NEW x \in Parties, pc[x] \in Inside,
           UNCHANGED <<closed, reader, writer, ready, timer>>,
           NEW to \in Inside \cup {"returned"}, pc' = [pc EXCEPT ![x] = to],
           \A y \in Parties : gone[y] => gone'[y],
           \A y \in Parties \ {x} : answer'[y] = answer[y],
           to = "ready" => ready > 0,
           to = "done" => closed,
           x \in Readers /\ to \in {"unlist", "close"} => gone'[x],
           x \in Readers /\ to = "returned" => closed \/ gone'[x],
           x \in Writers /\ to \in {"unlist", "close", "returned"} =>
              answer'[x] = "ok" \/ gone'[x] \/ Excused,
           x \in Readers /\ answer'[x] = "data" => ready > 0 /\ closed,
           astray' => astray
    PROVE  PipeInv'
<1>0. /\ pc \in [Parties -> Places] /\ Parties = Readers \cup Writers
      /\ \A y \in Readers : y \notin Writers
  BY TransferAssumption DEF TypeOK, Places
<1>1. /\ pc'[x] = to
      /\ \A y \in Parties : y # x => pc'[y] = pc[y]
  BY <1>0
<1>2. Excused => Excused'
  BY DEF Excused
<1>3. Attached'
  BY <1>0, <1>1 DEF PipeInv, Attached, Inside
<1>4. ReaderWay'
  BY <1>0, <1>1 DEF PipeInv, Attached, ReaderWay
<1>5. WriterWay'
  BY <1>0, <1>1, <1>2 DEF PipeInv, Attached, WriterWay
<1>6. ClosedBy'
  BY <1>0, <1>1, <1>2 DEF PipeInv, ClosedBy, Inside
<1>7. DataWay'
  BY <1>0 DEF PipeInv, Attached, DataWay
<1> QED BY <1>2, <1>3, <1>4, <1>5, <1>6, <1>7 DEF PipeInv

\* A party that attaches was not attached before, and finds the channel open.
LEMMA PipeAttach ==
    ASSUME TypeOK, PipeInv, NEW x \in Parties, Attach(x)
    PROVE  PipeInv'
<1>0. /\ pc \in [Parties -> Places] /\ Parties = Readers \cup Writers
      /\ \A y \in Readers : y \notin Writers
      /\ reader \in Readers \cup {Nobody} /\ writer \in Writers \cup {Nobody}
      /\ \A y \in Parties : y # Nobody
  BY TransferAssumption DEF TypeOK, Places
<1>1. /\ pc[x] = "found" /\ ~closed /\ closed' = closed
      /\ UNCHANGED <<gone, answer, astray>>
  BY DEF Attach, pipeVars
<1>2. \/ x \in Readers /\ reader = Nobody /\ reader' = x /\ writer' = writer
      \/ x \in Writers /\ writer = Nobody /\ writer' = x /\ reader' = reader
  BY <1>0 DEF Attach, RoleTaken
<1>3. pc'[x] = "select" /\ \A y \in Parties : y # x =>
        \/ pc'[y] = pc[y]
        \/ pc[y] = "blocked" /\ pc'[y] = "ready"
  BY <1>0 DEF Attach
<1>4. timer = "over" => timer' = "over"
  BY DEF Attach
<1>5. ready' > 0 => reader' \in Readers /\ writer' \in Writers
  BY <1>0, <1>2 DEF Attach, PipeInv, Attached
<1>6. \A y \in Parties : pc'[y] = "ready" => ready' > 0
  <2> SUFFICES ASSUME NEW y \in Parties, pc'[y] = "ready" PROVE ready' > 0
    OBVIOUS
  <2>1. CASE reader' # Nobody /\ writer' # Nobody
    BY <2>1 DEF Attach
  <2>2. CASE ~(reader' # Nobody /\ writer' # Nobody)
    <3>1. ready' = ready /\ pc[y] = "ready"
      BY <1>0, <1>3, <2>2 DEF Attach
    <3> QED BY <3>1 DEF PipeInv, Attached
  <2> QED BY <2>1, <2>2
<1>7. Excused => Excused'
  BY <1>0, <1>1, <1>2, <1>4 DEF Excused
<1>8. Attached'
  <2>1. ASSUME NEW y \in Parties, pc'[y] \in Inside
        PROVE  (y \in Readers /\ reader' = y) \/ (y \in Writers /\ writer' = y)
    <3>1. CASE y = x
      BY <1>0, <1>2, <3>1
    <3>2. CASE y # x
      <4>1. pc[y] \in Inside
        BY <1>3, <2>1, <3>2 DEF Inside
      <4> QED BY <1>0, <1>2, <4>1 DEF PipeInv, Attached
    <3> QED BY <3>1, <3>2
  <2>2. reader' \in Readers => pc'[reader'] \in Inside \cup {"returned"}
    BY <1>0, <1>2, <1>3 DEF PipeInv, Attached, Inside
  <2>3. writer' \in Writers => pc'[writer'] \in Inside \cup {"returned"}
    BY <1>0, <1>2, <1>3 DEF PipeInv, Attached, Inside
  <2>4. \A y \in Parties : pc'[y] = "done" => closed'
    BY <1>0, <1>1, <1>3 DEF PipeInv, Attached
  <2> QED BY <1>5, <1>6, <2>1, <2>2, <2>3, <2>4 DEF Attached
<1>9. ReaderWay' /\ WriterWay' /\ ClosedBy' /\ DataWay'
  <2>1. ReaderWay'
    BY <1>0, <1>1, <1>2, <1>3 DEF PipeInv, ReaderWay
  <2>2. WriterWay'
    BY <1>0, <1>1, <1>2, <1>3, <1>7 DEF PipeInv, WriterWay
  <2>3. ClosedBy' /\ DataWay'
    BY <1>1 DEF PipeInv, ClosedBy, DataWay
  <2> QED BY <2>1, <2>2, <2>3
<1> QED BY <1>1, <1>7, <1>8, <1>9 DEF PipeInv

\* The reader or the writer closes the channel.
LEMMA PipeClose ==
    ASSUME TypeOK, PipeInv, NEW x \in Parties, CloseChannel(x)
    PROVE  PipeInv'
<1>0. /\ pc \in [Parties -> Places] /\ Parties = Readers \cup Writers
      /\ \A y \in Readers : y \notin Writers
  BY TransferAssumption DEF TypeOK, Places
<1>1. pc[x] = "close" /\ UNCHANGED <<reader, writer, ready, timer, gone, answer, astray>>
  BY DEF CloseChannel, pipeVars
<1>2. closed' /\ pc'[x] = "returned" /\ \A y \in Parties : y # x =>
        \/ pc'[y] = pc[y]
        \/ pc[y] = "blocked" /\ pc'[y] = "done"
  BY <1>0, <1>1 DEF CloseChannel, Close
<1>3. (x \in Readers /\ reader = x) \/ (x \in Writers /\ writer = x)
  BY <1>1 DEF PipeInv, Attached, Inside
<1>4. Excused' <=> Excused
  BY <1>1 DEF Excused
<1>5. Attached'
  BY <1>0, <1>1, <1>2 DEF PipeInv, Attached, Inside
<1>6. ReaderWay' /\ DataWay'
  BY <1>0, <1>1, <1>2, <1>3 DEF PipeInv, ReaderWay, DataWay
<1>7. WriterWay'
  BY <1>0, <1>1, <1>2, <1>3, <1>4 DEF PipeInv, WriterWay
<1>8. ClosedBy'
  BY <1>1, <1>2, <1>3 DEF PipeInv, ReaderWay, ClosedBy, Excused
<1> QED BY <1>1, <1>4, <1>5, <1>6, <1>7, <1>8 DEF PipeInv

\* The timer closes the channel, which excuses everybody.
LEMMA PipeExpire ==
    ASSUME TypeOK, PipeInv, ExpireClose
    PROVE  PipeInv'
<1>0. pc \in [Parties -> Places]
  BY DEF TypeOK, Places
<1>1. timer' = "over" /\ UNCHANGED <<reader, writer, ready, gone, answer, astray>>
  BY DEF ExpireClose, pipeVars
<1>2. closed' /\ \A y \in Parties :
        \/ pc'[y] = pc[y]
        \/ pc[y] = "blocked" /\ pc'[y] = "done"
  BY <1>0 DEF ExpireClose, Close
<1>3. Excused'
  BY <1>1 DEF Excused
<1>4. Attached'
  BY <1>1, <1>2 DEF PipeInv, Attached, Inside
<1>5. ReaderWay' /\ DataWay'
  BY <1>1, <1>2 DEF PipeInv, ReaderWay, DataWay
<1> QED BY <1>3, <1>4, <1>5 DEF PipeInv, WriterWay, ClosedBy

\* A write goes astray only if the channel was closed under the pipe.
LEMMA PipeWrite ==
    ASSUME TypeOK, PipeInv, NEW x \in Parties, Pipe(x)
    PROVE  PipeInv'
<1>1. /\ UNCHANGED <<channelVars, pc, gone, answer>>
      /\ x \in Writers /\ pc[x] = "ready"
      /\ astray' = (astray \/ pc[reader] = "returned")
  BY DEF Pipe
<1>2. x = writer /\ reader \in Readers
  BY <1>1, TransferAssumption DEF PipeInv, Attached, Inside
<1>3. astray' => Excused
  BY <1>1, <1>2 DEF PipeInv, ReaderWay, ClosedBy, Excused
<1>4. Attached' /\ ReaderWay' /\ WriterWay' /\ ClosedBy' /\ DataWay' /\ (Excused' <=> Excused)
  BY <1>1 DEF PipeInv, Attached, ReaderWay, WriterWay, ClosedBy, DataWay, Excused,
     channelVars
<1> QED BY <1>3, <1>4 DEF PipeInv

\* Every other step of a party is a move of its own.
LEMMA PipeParty ==
    ASSUME TypeOK, Closing, PipeInv, NEW x \in Parties,
           \/ LookUp(x) \/ Refuse(x) \/ Select(x) \/ ClientLeaves(x)
           \/ WriteError(x) \/ Read(x) \/ PipeEnds(x) \/ Unlist(x)
    PROVE  PipeInv'
<1>0. /\ pc \in [Parties -> Places] /\ gone \in [Parties -> BOOLEAN]
      /\ DOMAIN answer = Parties /\ (done > 0 => closed)
      /\ \A y \in Readers : y \notin Writers
  <2>1. /\ pc \in [Parties -> Places] /\ gone \in [Parties -> BOOLEAN]
        /\ DOMAIN answer = Parties
    BY DEF TypeOK, Places
  <2>2. done > 0 => closed
    BY DEF Closing
  <2>3. \A y \in Readers : y \notin Writers
    BY TransferAssumption
  <2> QED BY <2>1, <2>2, <2>3
<1>1. UNCHANGED <<closed, reader, writer, ready, timer, astray>>
  BY DEF LookUp, Refuse, Select, ClientLeaves, WriteError, Read, PipeEnds, Unlist,
     channelVars, pipeVars
<1>2. CASE LookUp(x) \/ Refuse(x)
  <2>1. /\ gone' = gone /\ pc[x] \in {"idle", "found"}
        /\ pc'[x] \in {"found", "returned"}
        /\ \A y \in Parties : y # x => pc'[y] = pc[y] /\ answer'[y] = answer[y]
    BY <1>0, <1>2 DEF LookUp, Refuse
  <2>2. x \in Readers => answer'[x] # "data"
    <3>1. x \in Readers => answer[x] # "data"
      BY <2>1 DEF PipeInv, DataWay, Attached, Inside
    <3> QED BY <1>0, <1>2, <3>1 DEF LookUp, Refuse
  <2> QED BY <1>1, <2>1, <2>2, PipeQuiet
<1>3. CASE Select(x)
  <2>1. PICK to \in {"ready", "done", "unlist", "blocked"} :
          /\ pc' = [pc EXCEPT ![x] = to] /\ UNCHANGED <<gone, answer>>
          /\ to = "ready" => ready > 0
          /\ to = "done" => done > 0
          /\ to = "unlist" => gone[x]
    BY <1>3 DEF Select
  <2>2. pc[x] \in Inside /\ to \in Inside \cup {"returned"} /\ to # "returned"
    BY <1>3, <2>1 DEF Select, Inside
  <2>3. x \in Readers /\ answer[x] = "data" => ready > 0 /\ closed
    BY DEF PipeInv, DataWay
  <2>4. x \in Writers /\ to \in {"unlist", "close", "returned"} => gone'[x]
    BY <2>1
  <2> QED BY <1>0, <1>1, <2>1, <2>2, <2>3, <2>4, PipeMove
<1>4. CASE ClientLeaves(x) /\ pc[x] = "blocked"
  <2>1. /\ pc' = [pc EXCEPT ![x] = "unlist"] /\ gone' = [gone EXCEPT ![x] = TRUE]
        /\ answer' = answer
    BY <1>4 DEF ClientLeaves
  <2>2. x \in Readers /\ answer[x] = "data" => ready > 0 /\ closed
    BY DEF PipeInv, DataWay
  <2>3. pc[x] \in Inside /\ "unlist" \in Inside
    BY <1>4 DEF Inside
  <2> QED BY <1>0, <1>1, <2>1, <2>2, <2>3, PipeMove
<1>5. CASE ClientLeaves(x) /\ pc[x] # "blocked"
  BY <1>0, <1>1, <1>5, PipeQuiet DEF ClientLeaves
<1>6. CASE WriteError(x)
  <2>1. /\ pc[x] = "done" /\ pc' = [pc EXCEPT ![x] = "returned"] /\ gone' = gone
        /\ answer'[x] # "data" /\ \A y \in Parties \ {x} : answer'[y] = answer[y]
    BY <1>0, <1>6 DEF WriteError
  <2>2. closed /\ pc[x] \in Inside
    BY <2>1 DEF PipeInv, Attached, Inside
  <2>3. x \in Writers => Excused
    BY <1>0, <2>1, <2>2 DEF PipeInv, Attached, ClosedBy
  <2> QED BY <1>0, <1>1, <2>1, <2>2, <2>3, PipeMove
<1>7. CASE Read(x)
  <2>1. /\ pc[x] = "ready" /\ pc' = [pc EXCEPT ![x] = "returned"] /\ gone' = gone
        /\ x \in Readers /\ done > 0 /\ \A y \in Parties \ {x} : answer'[y] = answer[y]
    BY <1>0, <1>7 DEF Read
  <2>2. ready > 0 /\ pc[x] \in Inside
    BY <2>1 DEF PipeInv, Attached, Inside
  <2> QED BY <1>0, <1>1, <2>1, <2>2, PipeMove
<1>8. CASE PipeEnds(x)
  <2>1. /\ pc[x] = "ready" /\ pc' = [pc EXCEPT ![x] = "unlist"] /\ gone' = gone
        /\ x \in Writers /\ \A y \in Parties \ {x} : answer'[y] = answer[y]
        /\ answer'[x] = "ok" \/ gone[x] \/ gone[reader] \/ pc[reader] = "returned"
    BY <1>0, <1>8 DEF PipeEnds
  <2>2. x = writer /\ reader \in Readers /\ pc[x] \in Inside /\ "unlist" \in Inside
    BY <1>0, <2>1 DEF PipeInv, Attached, Inside
  <2>3. pc[reader] = "returned" => Excused
    BY <2>1, <2>2 DEF PipeInv, ReaderWay, ClosedBy, Excused
  <2>4. answer'[x] = "ok" \/ gone'[x] \/ Excused
    BY <2>1, <2>2, <2>3 DEF Excused
  <2> QED BY <1>0, <1>1, <2>1, <2>2, <2>4, PipeMove
<1>9. CASE Unlist(x)
  <2>1. PICK to \in {"close", "returned"} :
          pc' = [pc EXCEPT ![x] = to] /\ UNCHANGED <<gone, answer>> /\ pc[x] = "unlist"
    BY <1>9 DEF Unlist
  <2>2. x \in Readers /\ answer[x] = "data" => ready > 0 /\ closed
    BY DEF PipeInv, DataWay
  <2>3. pc[x] \in Inside /\ to \in Inside \cup {"returned"}
    BY <2>1 DEF Inside
  <2>4. x \in Readers => gone[x]
    BY <1>0, <2>1, <2>3 DEF PipeInv, Attached, ReaderWay
  <2>5. x \in Writers => answer[x] = "ok" \/ gone[x] \/ Excused
    BY <1>0, <2>1, <2>3 DEF PipeInv, Attached, WriterWay
  <2> QED BY <1>0, <1>1, <2>1, <2>2, <2>3, <2>4, <2>5, PipeMove
<1> QED BY <1>2, <1>3, <1>4, <1>5, <1>6, <1>7, <1>8, <1>9

\* Every step keeps to these ways.
LEMMA PipeStep == TypeOK /\ Closing /\ PipeInv /\ [Next]_vars => PipeInv'
<1> SUFFICES ASSUME TypeOK, Closing, PipeInv, [Next]_vars PROVE PipeInv'
  OBVIOUS
<1>1. CASE TimerFires \/ Expire \/ UNCHANGED vars
  BY <1>1, PipeQuiet DEF TimerFires, Expire, vars, channelVars, pipeVars
<1> QED BY <1>1, PipeAttach, PipeClose, PipeExpire, PipeWrite, PipeParty DEF Next, Party

\* The ways of the parties hold in every reachable state.
THEOREM PipeInvariant == Spec => []PipeInv
<1>1. Init => PipeInv
  <2> SUFFICES ASSUME Init PROVE PipeInv
    OBVIOUS
  <2>1. reader \notin Readers /\ writer \notin Writers
    BY TransferAssumption DEF Init
  <2>2. /\ \A x \in Parties : pc[x] = "idle" /\ answer[x] = "none"
        /\ ~closed /\ ~astray /\ ready = 0
    BY DEF Init
  <2> QED BY <2>1, <2>2 DEF PipeInv, Attached, ReaderWay, WriterWay, ClosedBy,
          DataWay, Inside
<1>2. Init => Closing
  BY DEF Init, Closing
<1> QED BY <1>1, <1>2, ClosingStep, PipeStep, TypeCorrect, PTL DEF Spec

\* A pipe writes into the response of a handler that has returned only if the
\* reader's client left or the timer came too late (ResponseIsAlive).
THEOREM ResponsesAreAlive == Spec => []ResponseIsAlive
<1>1. PipeInv => ResponseIsAlive
  BY DEF PipeInv, Excused, ResponseIsAlive
<1> QED BY <1>1, PipeInvariant, PTL

\* A response that ends as data is whole, but for the same two ways and a
\* writer who left (DataIsWhole).
THEOREM ResponsesAreWhole == Spec => []DataIsWhole
<1>1. PipeInv => DataIsWhole
  <2> SUFFICES ASSUME PipeInv, NEW x \in Readers, answer[x] = "data"
               PROVE  answer[writer] = "ok" \/ gone[writer] \/ gone[x] \/ timer = "over"
    BY DEF DataIsWhole
  <2>1. reader = x /\ closed
    BY DEF PipeInv, DataWay
  <2>2. Excused => gone[x] \/ timer = "over"
    BY <2>1 DEF Excused
  <2> QED BY <2>1, <2>2 DEF PipeInv, ClosedBy, WriterWay
<1> QED BY <1>1, PipeInvariant, PTL
=============================================================================

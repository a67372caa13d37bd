-------------------------- MODULE JobEventsProofs --------------------------
(***************************************************************************)
(* Theorems about JobEvents, for any number of SSE clients, handler calls  *)
(* and slots, and for every close delay: no event is sent on a closed      *)
(* channel, no client is hung up on before the end, and the news that the  *)
(* job has ended does not get lost on its way to who was there.            *)
(***************************************************************************)
EXTENDS JobEvents, TLAPS

Statuses == Events \ Kinds
Places == {"idle", "snapshot", "loop", "unsubscribe", "close", "done"}

\* A client is among the subscribers from its subscription to its
\* unsubscription, its channel is closed last, and a witness has subscribed.
PlaceInv ==
    \A c \in Clients :
        /\ c \in subs <=> pc[c] \in {"loop", "unsubscribe"}
        /\ ~open[c] => pc[c] = "done"
        /\ c \in witnesses => pc[c] \notin {"idle", "snapshot"}

\* A close timer was set by a terminal event, and nothing but that, a delay of
\* zero or the client itself makes a handler leave its loop.
HangUpInv ==
    \A c \in Clients :
        /\ closing[c] => toldEnd[c]
        /\ pc[c] \in {"unsubscribe", "close", "done"} => left[c] \/ toldEnd[c]

\* A call that was not made has nothing to publish.
UnusedInv == \A h \in 1 .. MaxCalls : h > calls => outbox[h] = <<>>

\* The end of the job is in the client's channel or still to be published.
Announces(events) == \E i \in DOMAIN events : events[i] \in Terminal
EndOnItsWay(c) == Announces(chan[c]) \/ \E h \in 1 .. MaxCalls : Announces(outbox[h])
Excused(c) == toldEnd[c] \/ dropped[c] \/ left[c]

\* A client that was subscribed when the job ended is told, or is about to be,
\* or its channel was full, or it has left.
EndIsNotForgotten == \A c \in witnesses : Excused(c) \/ EndOnItsWay(c)

IInv ==
    TypeOK /\ PlaceInv /\ HangUpInv /\ UnusedInv /\ EndIsNotForgotten

-----------------------------------------------------------------------------
LEMMA Bounds == MaxCalls \in Nat /\ 1 <= MaxCalls /\ Capacity \in Nat
<1>1. MaxCalls \in Nat \ {0} /\ Capacity \in Nat \ {0}
  BY JobEventsAssumption
<1> QED BY <1>1

\* The lists of events.
LEMMA AppendAnnounces ==
    ASSUME NEW events \in Seq(Events), NEW event \in Events
    PROVE  /\ Append(events, event) \in Seq(Events)
           /\ Announces(events) => Announces(Append(events, event))
           /\ event \in Terminal => Announces(Append(events, event))
<1>1. /\ Append(events, event) \in Seq(Events)
      /\ DOMAIN Append(events, event) = 1 .. Len(events) + 1
      /\ DOMAIN events = 1 .. Len(events) /\ Len(events) \in Nat
      /\ Append(events, event)[Len(events) + 1] = event
      /\ \A i \in 1 .. Len(events) : Append(events, event)[i] = events[i]
  OBVIOUS
<1>2. Len(events) + 1 \in DOMAIN Append(events, event)
      /\ \A i \in 1 .. Len(events) : i \in DOMAIN Append(events, event)
  BY <1>1
<1> QED BY <1>1, <1>2 DEF Announces

\* What is left after the head is taken announces the end, unless the head did.
LEMMA TailAnnounces ==
    ASSUME NEW events \in Seq(Events), events # <<>>
    PROVE  /\ Tail(events) \in Seq(Events) /\ Head(events) \in Events
           /\ Announces(events) => Head(events) \in Terminal \/ Announces(Tail(events))
<1>1. /\ Tail(events) \in Seq(Events) /\ Head(events) \in Events
      /\ Head(events) = events[1]
      /\ DOMAIN events = 1 .. Len(events) /\ Len(events) \in Nat
      /\ DOMAIN Tail(events) = 1 .. Len(events) - 1
      /\ \A i \in 1 .. Len(events) - 1 : Tail(events)[i] = events[i + 1]
  OBVIOUS
<1>2. ASSUME NEW i \in DOMAIN events, events[i] \in Terminal, i # 1
      PROVE  Announces(Tail(events))
  <2>1. i - 1 \in 1 .. Len(events) - 1 /\ (i - 1) + 1 = i
    BY <1>1, <1>2
  <2>2. Tail(events)[i - 1] = events[i]
    BY <1>1, <2>1
  <2> QED BY <1>1, <1>2, <2>1, <2>2 DEF Announces
<1> QED BY <1>1, <1>2 DEF Announces

LEMMA OneAnnounces ==
    ASSUME NEW event \in Events
    PROVE  <<event>> \in Seq(Events) /\ (event \in Terminal => Announces(<<event>>))
<1>1. <<event>> \in Seq(Events) /\ DOMAIN <<event>> = 1 .. 1 /\ <<event>>[1] = event
  OBVIOUS
<1> QED BY <1>1 DEF Announces

-----------------------------------------------------------------------------
\* A handler that changes the job: what it leaves to publish announces the end
\* if it made one.
LEMMA ChangeStep ==
    ASSUME IInv, NEW new \in Statuses, NEW events \in Seq(Events),
           Change(new, events), requesting' \in [Kinds -> {0, 1}],
           new \in Terminal => Announces(events)
    PROVE  IInv'
<1>1. /\ calls' = calls + 1 /\ calls < MaxCalls /\ calls \in Nat /\ MaxCalls \in Nat
      /\ outbox' = [outbox EXCEPT ![calls + 1] = events]
      /\ outbox \in [1 .. MaxCalls -> Seq(Events)]
      /\ status' = new /\ UNCHANGED <<clientVars, channelVars>>
      /\ witnesses \subseteq Clients /\ subs \subseteq Clients
      /\ witnesses' = IF status \notin Terminal /\ new \in Terminal
                      THEN witnesses \cup subs ELSE witnesses
  BY Bounds DEF IInv, TypeOK, Change
<1>2. calls' \in 1 .. MaxCalls /\ calls + 1 \in 1 .. MaxCalls
  BY <1>1
<1>3. outbox' \in [1 .. MaxCalls -> Seq(Events)] /\ outbox'[calls + 1] = events
      /\ \A h \in 1 .. MaxCalls : h # calls + 1 => outbox'[h] = outbox[h]
  BY <1>1, <1>2
<1>4. TypeOK'
  BY <1>1, <1>2, <1>3 DEF IInv, TypeOK, Statuses, clientVars, channelVars
<1>5. PlaceInv' /\ HangUpInv'
  BY <1>1 DEF IInv, PlaceInv, HangUpInv, clientVars, channelVars
<1>6. UnusedInv'
  <2> SUFFICES ASSUME NEW h \in 1 .. MaxCalls, h > calls' PROVE outbox'[h] = <<>>
    BY DEF UnusedInv
  <2>1. h > calls /\ h # calls + 1
    BY <1>1
  <2> QED BY <1>3, <2>1 DEF IInv, UnusedInv
<1>7. ASSUME NEW c \in witnesses' PROVE Excused(c)' \/ EndOnItsWay(c)'
  <2>1. CASE c \in witnesses
    <3>1. UNCHANGED <<toldEnd, dropped, left, chan>>
      BY <1>1 DEF clientVars, channelVars
    <3>2. ASSUME NEW h \in 1 .. MaxCalls, Announces(outbox[h])
          PROVE  Announces(outbox'[h])
      <4>1. ~(h > calls)
        BY <3>2 DEF IInv, UnusedInv, Announces
      <4>2. h # calls + 1
        BY <1>1, <4>1
      <4> QED BY <1>3, <3>2, <4>2
    <3> QED BY <2>1, <3>1, <3>2 DEF IInv, EndIsNotForgotten, Excused, EndOnItsWay
  <2>2. CASE c \notin witnesses
    <3>1. Announces(outbox'[calls + 1])
      BY <1>1, <1>3, <2>2
    <3> QED BY <1>2, <3>1 DEF EndOnItsWay
  <2> QED BY <2>1, <2>2
<1> QED BY <1>4, <1>5, <1>6, <1>7 DEF IInv, EndIsNotForgotten

\* A send to all subscribers: who subscribes gets it, or it is dropped.
LEMMA SendAllStep ==
    ASSUME TypeOK, NEW event \in Events, SendAll(event)
    PROVE  /\ chan' \in [Clients -> Seq(Events)] /\ dropped' \in [Clients -> BOOLEAN]
           /\ \A c \in Clients :
                /\ Announces(chan[c]) => Announces(chan'[c])
                /\ dropped[c] => dropped'[c]
                /\ c \in subs /\ event \in Terminal =>
                     dropped'[c] \/ Announces(chan'[c])
<1>1. /\ chan \in [Clients -> Seq(Events)] /\ dropped \in [Clients -> BOOLEAN]
      /\ Capacity \in Nat
  BY Bounds DEF TypeOK
<1>2. ASSUME NEW c \in Clients
      PROVE  /\ chan'[c] = IF c \in subs /\ Len(chan[c]) < Capacity
                           THEN Append(chan[c], event) ELSE chan[c]
             /\ dropped'[c] = (dropped[c] \/ (c \in subs /\ Len(chan[c]) >= Capacity))
             /\ chan[c] \in Seq(Events) /\ Len(chan[c]) \in Nat
  BY <1>1 DEF SendAll
<1>3. ASSUME NEW c \in Clients
      PROVE  /\ chan'[c] \in Seq(Events)
             /\ Announces(chan[c]) => Announces(chan'[c])
             /\ dropped[c] => dropped'[c]
             /\ c \in subs /\ event \in Terminal => dropped'[c] \/ Announces(chan'[c])
  <2>1. CASE c \in subs /\ Len(chan[c]) < Capacity
    <3>1. chan'[c] = Append(chan[c], event) /\ chan[c] \in Seq(Events)
          /\ (dropped[c] => dropped'[c])
      BY <1>2, <2>1
    <3> QED BY <3>1, AppendAnnounces
  <2>2. CASE ~(c \in subs /\ Len(chan[c]) < Capacity)
    <3>1. chan'[c] = chan[c] /\ chan[c] \in Seq(Events)
          /\ (c \in subs \/ dropped[c] => dropped'[c])
      <4>1. chan'[c] = chan[c] /\ Len(chan[c]) \in Nat /\ chan[c] \in Seq(Events)
        BY <1>2, <2>2
      <4>2. dropped[c] => dropped'[c]
        BY <1>2
      <4>3. c \in subs => Len(chan[c]) >= Capacity
        BY <1>1, <2>2, <4>1
      <4> QED BY <1>2, <4>1, <4>2, <4>3
    <3> QED BY <3>1
  <2> QED BY <2>1, <2>2
<1>4. chan' \in [Clients -> Seq(Events)]
  BY <1>3 DEF SendAll
<1>5. dropped' \in [Clients -> BOOLEAN]
  BY <1>1 DEF SendAll
<1> QED BY <1>3, <1>4, <1>5

\* A witness that is not excused still subscribes.
LEMMA WitnessSubscribes ==
    ASSUME IInv, NEW c \in witnesses, ~Excused(c)
    PROVE  c \in subs
<1>1. c \in Clients /\ pc[c] \in Places
  BY DEF IInv, TypeOK, Places
<1> QED BY <1>1 DEF IInv, PlaceInv, HangUpInv, Excused, Places

\* A publication by a call that has unlocked: the end that leaves its outbox is in
\* the channel of every witness that is not excused, for it still subscribes.
LEMMA PublishStep ==
    ASSUME IInv, NEW h \in 1 .. MaxCalls, Publish(h)
    PROVE  IInv'
<1> DEFINE event == Head(outbox[h])
<1>1. /\ outbox \in [1 .. MaxCalls -> Seq(Events)] /\ outbox[h] # <<>>
      /\ outbox' = [outbox EXCEPT ![h] = Tail(@)] /\ SendAll(event)
      /\ UNCHANGED <<jobVars, clientVars, subs, open>> /\ TypeOK
  BY DEF IInv, TypeOK, Publish
<1>2. /\ Tail(outbox[h]) \in Seq(Events) /\ event \in Events
      /\ Announces(outbox[h]) => event \in Terminal \/ Announces(Tail(outbox[h]))
  BY <1>1, TailAnnounces
<1>3. /\ outbox' \in [1 .. MaxCalls -> Seq(Events)] /\ outbox'[h] = Tail(outbox[h])
      /\ \A g \in 1 .. MaxCalls : g # h => outbox'[g] = outbox[g]
  BY <1>1, <1>2
<1>4. /\ chan' \in [Clients -> Seq(Events)] /\ dropped' \in [Clients -> BOOLEAN]
      /\ \A c \in Clients :
           /\ Announces(chan[c]) => Announces(chan'[c])
           /\ dropped[c] => dropped'[c]
           /\ c \in subs /\ event \in Terminal => dropped'[c] \/ Announces(chan'[c])
  BY <1>1, <1>2, SendAllStep
<1>5. TypeOK'
  BY <1>1, <1>3, <1>4 DEF TypeOK, jobVars, clientVars
<1>6. PlaceInv' /\ HangUpInv'
  BY <1>1 DEF IInv, PlaceInv, HangUpInv, clientVars, jobVars
<1>7. UnusedInv'
  <2>1. \A g \in 1 .. MaxCalls : g > calls => outbox[g] = <<>>
    BY DEF IInv, UnusedInv
  <2> QED BY <1>1, <1>3, <2>1 DEF UnusedInv, jobVars
<1>8. ASSUME NEW c \in witnesses' PROVE Excused(c)' \/ EndOnItsWay(c)'
  <2>1. c \in witnesses /\ c \in Clients /\ UNCHANGED <<toldEnd, left>>
    BY <1>1, <1>8 DEF jobVars, clientVars, TypeOK
  <2>2. CASE Excused(c)
    BY <1>4, <2>1, <2>2 DEF Excused
  <2>3. CASE ~Excused(c) /\ Announces(chan[c])
    BY <1>4, <2>1, <2>3 DEF EndOnItsWay
  <2>4. CASE ~Excused(c) /\ \E g \in 1 .. MaxCalls : Announces(outbox[g])
    <3>1. PICK g \in 1 .. MaxCalls : Announces(outbox[g])
      BY <2>4
    <3>2. CASE g # h \/ Announces(Tail(outbox[h]))
      BY <1>3, <3>1, <3>2 DEF EndOnItsWay
    <3>3. CASE g = h /\ ~Announces(Tail(outbox[h]))
      <4>1. event \in Terminal
        BY <1>2, <3>1, <3>3
      <4>2. CASE c \in subs
        BY <1>4, <2>1, <4>1, <4>2 DEF Excused, EndOnItsWay
      <4>3. CASE c \notin subs
        BY <2>1, <2>4, <4>3, WitnessSubscribes
      <4> QED BY <4>2, <4>3
    <3> QED BY <3>2, <3>3
  <2> QED BY <2>1, <2>2, <2>3, <2>4 DEF IInv, EndIsNotForgotten, EndOnItsWay
<1> QED BY <1>5, <1>6, <1>7, <1>8 DEF IInv, EndIsNotForgotten

\* The claim publishes without letting go of the lock.
LEMMA ClaimStep == ASSUME IInv, Claim PROVE IInv'
<1>1. /\ "claimed" \in Events \ Terminal /\ SendAll("claimed") /\ TypeOK
      /\ status' = "claimed"
      /\ UNCHANGED <<requesting, calls, witnesses, outbox, clientVars, subs, open>>
  BY DEF IInv, Claim, Events, Transferable, Terminal
<1>2. /\ chan' \in [Clients -> Seq(Events)] /\ dropped' \in [Clients -> BOOLEAN]
      /\ \A c \in Clients : /\ Announces(chan[c]) => Announces(chan'[c])
                            /\ dropped[c] => dropped'[c]
  BY <1>1, SendAllStep
<1>3. TypeOK'
  BY <1>1, <1>2 DEF TypeOK, clientVars, Events, Transferable, Kinds
<1>4. PlaceInv' /\ HangUpInv' /\ UnusedInv'
  BY <1>1 DEF IInv, PlaceInv, HangUpInv, UnusedInv, clientVars
<1>5. EndIsNotForgotten'
  BY <1>1, <1>2 DEF IInv, TypeOK, EndIsNotForgotten, EndOnItsWay, Excused, clientVars
<1> QED BY <1>3, <1>4, <1>5 DEF IInv

\* An event that is written to the client: if it announced the end, it is told.
LEMMA DeliverStep == ASSUME IInv, NEW c \in Clients, Deliver(c) PROVE IInv'
<1>1. /\ chan \in [Clients -> Seq(Events)] /\ chan[c] # <<>> /\ pc[c] = "loop"
      /\ chan' = [chan EXCEPT ![c] = Tail(@)]
      /\ UNCHANGED <<jobVars, outbox, left, subs, open, dropped>> /\ TypeOK
      /\ pc \in [Clients -> Places]
      /\ {closing, toldEnd} \subseteq [Clients -> BOOLEAN]
  BY DEF IInv, TypeOK, Deliver, Places
<1>2. /\ Tail(chan[c]) \in Seq(Events) /\ Head(chan[c]) \in Events
      /\ Announces(chan[c]) => Head(chan[c]) \in Terminal \/ Announces(Tail(chan[c]))
  BY <1>1, TailAnnounces
<1>3. /\ chan' \in [Clients -> Seq(Events)] /\ chan'[c] = Tail(chan[c])
      /\ \A d \in Clients : d # c => chan'[d] = chan[d]
  BY <1>1, <1>2
<1>4. \/ UNCHANGED <<pc, closing, toldEnd>> /\ Head(chan[c]) \notin Terminal
      \/ /\ toldEnd' = [toldEnd EXCEPT ![c] = TRUE] /\ Head(chan[c]) \in Terminal
         /\ closing' = [closing EXCEPT ![c] = @ \/ CloseDelay = "later"]
         /\ pc' = pc \/ pc' = [pc EXCEPT ![c] = "unsubscribe"]
  BY DEF Deliver, Goto
<1>5. /\ pc' \in [Clients -> Places] /\ toldEnd' \in [Clients -> BOOLEAN]
      /\ closing' \in [Clients -> BOOLEAN]
  BY <1>1, <1>4 DEF Places
<1>6. TypeOK'
  BY <1>1, <1>3, <1>5 DEF TypeOK, Places, jobVars
<1>7. \A d \in Clients : toldEnd[d] => toldEnd'[d]
  BY <1>1, <1>4
<1>8. PlaceInv'
  BY <1>1, <1>4 DEF IInv, PlaceInv, jobVars
<1>9. HangUpInv'
  BY <1>1, <1>4 DEF IInv, HangUpInv
<1>10. UnusedInv'
  BY <1>1 DEF IInv, UnusedInv, jobVars
<1>11. ASSUME NEW d \in witnesses' PROVE Excused(d)' \/ EndOnItsWay(d)'
  <2>1. d \in witnesses /\ d \in Clients /\ UNCHANGED <<outbox, left, dropped>>
    BY <1>1, <1>11 DEF jobVars, TypeOK
  <2>2. CASE Head(chan[c]) \in Terminal /\ d = c
    <3>1. toldEnd'[d]
      BY <1>1, <1>4, <2>2
    <3> QED BY <3>1 DEF Excused
  <2>3. CASE ~(Head(chan[c]) \in Terminal /\ d = c)
    <3>1. Announces(chan[d]) => Announces(chan'[d])
      BY <1>2, <1>3, <2>1, <2>3
    <3> QED BY <1>7, <2>1, <3>1 DEF IInv, EndIsNotForgotten, Excused, EndOnItsWay
  <2> QED BY <2>2, <2>3
<1> QED BY <1>6, <1>8, <1>9, <1>10, <1>11 DEF IInv, EndIsNotForgotten

\* A client that comes or goes.
LEMMA ClientStep ==
    ASSUME IInv, NEW c \in Clients,
           \/ Snapshot(c) \/ Subscribe(c) \/ CloseTimer(c) \/ ClientLeaves(c)
           \/ Unsubscribe(c) \/ CloseChannel(c)
    PROVE  IInv'
<1>1. /\ UNCHANGED <<jobVars, outbox, closing, toldEnd, chan, dropped>> /\ TypeOK
      /\ pc \in [Clients -> Places] /\ {open, left, closing, toldEnd} \subseteq [Clients -> BOOLEAN]
      /\ subs \subseteq Clients
  BY DEF IInv, TypeOK, Places, Snapshot, Subscribe, CloseTimer, ClientLeaves,
     Unsubscribe, CloseChannel, channelVars
<1>2. PICK place \in Places : pc' = [pc EXCEPT ![c] = place]
  BY DEF Snapshot, Subscribe, CloseTimer, ClientLeaves, Unsubscribe, CloseChannel,
     Goto, Places
<1>3. left' = left \/ left' = [left EXCEPT ![c] = TRUE]
  BY DEF Snapshot, Subscribe, CloseTimer, ClientLeaves, Unsubscribe, CloseChannel
<1>4. open' = open \/ open' = [open EXCEPT ![c] = FALSE]
  BY DEF Snapshot, Subscribe, CloseTimer, ClientLeaves, Unsubscribe, CloseChannel,
     channelVars
<1>5. subs' \subseteq Clients
  BY <1>1 DEF Snapshot, Subscribe, CloseTimer, ClientLeaves, Unsubscribe, CloseChannel,
     channelVars
<1>6. /\ pc' \in [Clients -> Places] /\ left' \in [Clients -> BOOLEAN]
      /\ open' \in [Clients -> BOOLEAN]
      /\ \A d \in Clients : left[d] => left'[d]
  BY <1>1, <1>2, <1>3, <1>4
<1>7. TypeOK'
  BY <1>1, <1>5, <1>6 DEF TypeOK, Places, jobVars
<1>8. UnusedInv'
  BY <1>1 DEF IInv, UnusedInv, jobVars
<1>9. EndIsNotForgotten'
  BY <1>1, <1>6 DEF IInv, TypeOK, EndIsNotForgotten, Excused, EndOnItsWay, jobVars
<1>10. PlaceInv'
  <2>1. CASE Snapshot(c)
    BY <1>1, <2>1 DEF Snapshot, Goto, IInv, PlaceInv, jobVars, channelVars
  <2>2. CASE Subscribe(c)
    BY <1>1, <2>2 DEF Subscribe, Goto, IInv, PlaceInv, jobVars
  <2>3. CASE CloseTimer(c) \/ ClientLeaves(c)
    BY <1>1, <2>3 DEF CloseTimer, ClientLeaves, Goto, IInv, PlaceInv, jobVars, channelVars
  <2>4. CASE Unsubscribe(c)
    BY <1>1, <2>4 DEF Unsubscribe, Goto, IInv, PlaceInv, jobVars
  <2>5. CASE CloseChannel(c)
    BY <1>1, <2>5 DEF CloseChannel, Goto, IInv, PlaceInv, jobVars
  <2> QED BY <2>1, <2>2, <2>3, <2>4, <2>5
<1>11. HangUpInv'
  <2>1. CASE Snapshot(c) \/ Subscribe(c)
    BY <1>1, <2>1 DEF Snapshot, Subscribe, Goto, IInv, HangUpInv
  <2>2. CASE CloseTimer(c)
    BY <1>1, <2>2 DEF CloseTimer, Goto, IInv, HangUpInv
  <2>3. CASE ClientLeaves(c)
    BY <1>1, <2>3 DEF ClientLeaves, Goto, IInv, HangUpInv
  <2>4. CASE Unsubscribe(c) \/ CloseChannel(c)
    BY <1>1, <2>4 DEF Unsubscribe, CloseChannel, Goto, IInv, HangUpInv
  <2> QED BY <2>1, <2>2, <2>3, <2>4
<1> QED BY <1>7, <1>8, <1>9, <1>10, <1>11 DEF IInv

\* The handlers of the job.
LEMMA HandlerStep ==
    ASSUME IInv,
           \/ \E new \in {"running", "completed", "failed"} : StatusUpdate(new)
           \/ CancelJob \/ ExpireJobIfIdle
           \/ \E k \in Kinds : CommitTransfer(k)
    PROVE  IInv'
<1>0. requesting \in [Kinds -> {0, 1}] /\ status \in Statuses
  BY DEF IInv, TypeOK, Statuses
<1>s. Terminal \cup {"running"} \subseteq Statuses
  BY DEF Statuses, Events, Kinds, Transferable, Terminal
<1>1. ASSUME NEW new \in Statuses, Change(new, <<new>>), UNCHANGED requesting PROVE IInv'
  <2>1. new \in Events
    BY DEF Statuses
  <2> QED BY <1>0, <1>1, <2>1, OneAnnounces, ChangeStep
<1>2. ASSUME NEW new \in {"running", "completed", "failed"}, StatusUpdate(new) PROVE IInv'
  BY <1>1, <1>2, <1>s DEF StatusUpdate, Terminal
<1>3. CASE CancelJob
  <2> DEFINE new == IF status \in Terminal THEN status ELSE "canceled"
  <2>1. new \in Statuses
    BY <1>0, <1>s DEF Terminal
  <2>2. Change(new, <<new>>) /\ UNCHANGED requesting
    BY <1>3 DEF CancelJob
  <2> HIDE DEF new
  <2> QED BY <1>1, <2>1, <2>2
<1>4. CASE ExpireJobIfIdle
  BY <1>1, <1>4, <1>s DEF ExpireJobIfIdle, Terminal
<1>5. ASSUME NEW k \in Kinds, CommitTransfer(k) PROVE IInv'
  <2>1. /\ Awaiting(k) \in Statuses \ Terminal /\ Change(Awaiting(k), <<k, Awaiting(k)>>)
        /\ requesting' \in [Kinds -> {0, 1}]
    BY <1>0, <1>5 DEF CommitTransfer, Awaiting, Statuses, Events, Transferable, Kinds,
       Terminal
  <2>2. k \in Events /\ Awaiting(k) \in Events
    BY <2>1 DEF Events, Statuses
  <2>3. <<k, Awaiting(k)>> \in Seq(Events)
    BY <2>2
  <2> QED BY <2>1, <2>3, ChangeStep
<1> QED BY <1>2, <1>3, <1>4, <1>5

-----------------------------------------------------------------------------
LEMMA InitIInv == Init => IInv
<1> SUFFICES ASSUME Init PROVE IInv
  OBVIOUS
<1>1. <<"queued">> \in Seq(Events) /\ <<>> \in Seq(Events)
  BY DEF Events
<1>2. 1 \in 1 .. MaxCalls
  BY Bounds
<1>3. outbox \in [1 .. MaxCalls -> Seq(Events)]
  BY <1>1 DEF Init
<1>4. TypeOK
  BY <1>1, <1>2, <1>3 DEF Init, TypeOK, Events, Kinds, Transferable
<1>5. UnusedInv
  BY <1>2 DEF Init, UnusedInv
<1> QED BY <1>4, <1>5 DEF Init, IInv, PlaceInv, HangUpInv, EndIsNotForgotten

LEMMA NextIInv == IInv /\ [Next]_vars => IInv'
<1> SUFFICES ASSUME IInv, [Next]_vars PROVE IInv'
  OBVIOUS
<1>1. ASSUME NEW k \in Kinds, RequestTransfer(k) PROVE IInv'
  <2>1. requesting' \in [Kinds -> {0, 1}]
        /\ UNCHANGED <<status, calls, witnesses, outbox, clientVars, channelVars>>
    BY <1>1 DEF RequestTransfer, IInv, TypeOK
  <2> QED BY <2>1 DEF IInv, TypeOK, PlaceInv, HangUpInv, UnusedInv, EndIsNotForgotten,
          Excused, EndOnItsWay, clientVars, channelVars
<1>2. CASE UNCHANGED vars
  BY <1>2 DEF IInv, TypeOK, PlaceInv, HangUpInv, UnusedInv, EndIsNotForgotten,
     Excused, EndOnItsWay, vars, jobVars, clientVars, channelVars
<1> QED BY <1>1, <1>2, ClaimStep, HandlerStep, PublishStep, DeliverStep, ClientStep
        DEF Next

\* Every variable keeps its type (TypeOK).
THEOREM TypeCorrect == Spec => []TypeOK
<1>1. IInv => TypeOK
  BY DEF IInv
<1> QED BY <1>1, InitIInv, NextIInv, PTL DEF Spec

\* SubscribersAreOpen (JobEvents): publish never meets a closed channel, though
\* unsubscribe closes it after it let go of the lock.
THEOREM PublishFindsOpenChannels == Spec => []SubscribersAreOpen
<1>1. IInv => SubscribersAreOpen
  BY DEF IInv, TypeOK, PlaceInv, SubscribersAreOpen
<1> QED BY <1>1, InitIInv, NextIInv, PTL DEF Spec

\* HangsUpAfterEnd (JobEvents): HandleJobEvents leaves its loop only when the
\* client went away or has been shown a terminal status.
THEOREM HangsUpOnlyAfterEnd == Spec => []HangsUpAfterEnd
<1>1. IInv => HangsUpAfterEnd
  BY DEF IInv, HangUpInv, HangsUpAfterEnd
<1> QED BY <1>1, InitIInv, NextIInv, PTL DEF Spec

\* EndIsNotForgotten: the event that ends the job, published after the lock was
\* released and overtaken by others, is not lost between the handler that
\* changed the status and a client that was subscribed then.
THEOREM EndIsUnderway == Spec => []EndIsNotForgotten
<1>1. IInv => EndIsNotForgotten
  BY DEF IInv
<1> QED BY <1>1, InitIInv, NextIInv, PTL DEF Spec

=============================================================================

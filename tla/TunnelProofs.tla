---------------------------- MODULE TunnelProofs ----------------------------
(***************************************************************************)
(* Theorems about Tunnel and the relays of McpRelay, for any numbers of    *)
(* relays, connections and calls, and every limit: slots are given back,   *)
(* a relay is found exactly while it is served, and a call is told the     *)
(* result of its own session or a failure, whatever breaks meanwhile.      *)
(***************************************************************************)
EXTENDS Tunnel, FiniteSetTheorems, TLAPS

\* What is on its way in one direction of a connection.
Mentions(frames, k) == \E i \in DOMAIN frames : frames[i].sid = k
Once(frames, k) ==
    \A i, j \in DOMAIN frames : frames[i].sid = k /\ frames[j].sid = k => i = j
Holds(frames, t, k) == \E i \in DOMAIN frames : frames[i] = Frame(t, k)
HoldsOnce(frames, t, k) ==
    \A i, j \in DOMAIN frames : frames[i] = Frame(t, k) /\ frames[j] = Frame(t, k) => i = j
OnlyAnswers(frames, k) ==
    \A i \in DOMAIN frames : frames[i].sid = k => frames[i].t \in {"rpc", "close"}
CloseIsBehind(frames, k) ==
    \A i \in DOMAIN frames : frames[i] = Frame("close", k) =>
        \E j \in 1 .. i - 1 : frames[j] = Frame("rpc", k)

\* Where a call stands that has written nothing, one that has not sent its
\* payload, and one that waits for nothing any more.
Silent == {"new", "located", "opening"}
Asking == Silent \cup {"waitOpen", "sending"}
Done == {"closing", "leaving", "over"}

\* A call holds a connection that was registered once.
ViaOK(k) ==
    /\ via[k] \in Conns <=> pc[k] \in Holding \cup {"located"}
    /\ via[k] \in Conns => link[via[k]] \notin {"free", "dialed"}

\* A session that has not begun is unknown to everybody.  Of one that waits for
\* its opening there is one frame, in either pipe or in the channel; of one that
\* was opened there is none.
OpenOK(k) ==
    /\ pc[k] \in Silent =>
         /\ ch[k] = <<>>
         /\ \A c \in Conns : ~Mentions(toAgent[c], k) /\ ~Mentions(toServer[c], k)
    /\ pc[k] = "waitOpen" =>
         /\ Once(toAgent[via[k]], k) /\ Once(toServer[via[k]], k)
         /\ Len(ch[k]) <= 1
         /\ Mentions(toAgent[via[k]], k) =>
              ~Mentions(toServer[via[k]], k) /\ ch[k] = <<>>
         /\ Mentions(toServer[via[k]], k) => ch[k] = <<>>
    /\ pc[k] = "sending" =>
         /\ ch[k] = <<>>
         /\ ~Mentions(toAgent[via[k]], k) /\ ~Mentions(toServer[via[k]], k)

\* The payload is on its way once, before the relay calls the provider.
AskOK(k) ==
    /\ pc[k] \in Asking =>
         rpc[k] = "none" /\ \A c \in Conns : ~Holds(toAgent[c], "rpc", k)
    /\ \A c \in Conns : Holds(toAgent[c], "rpc", k) =>
         rpc[k] = "none" /\ HoldsOnce(toAgent[c], "rpc", k)
    /\ \A c, d \in Conns :
         Holds(toAgent[c], "rpc", k) /\ Holds(toAgent[d], "rpc", k) => c = d

\* What goes back is a result that the provider returned.
ResultOK(k) ==
    /\ rpc[k] \in {"none", "spawned", "calling"} => k \notin results
    /\ rpc[k] = "replying" => k \in results
    /\ \A c \in Conns : Holds(toServer[c], "rpc", k) => k \in results
    /\ (\E i \in DOMAIN ch[k] : ch[k][i] = "rpc") => k \in results

\* To a call that waits for its response nothing comes before the response: the
\* close frame is behind it, or is lost as it was.
ResponseOK(k) == pc[k] = "waitResponse" =>
    /\ \A c \in Conns : Holds(toAgent[c], "rpc", k) => c = via[k]
    /\ ~Holds(toAgent[via[k]], "open", k)
    /\ rpc[k] \in Active => bearer[k] = via[k]
    /\ OnlyAnswers(toServer[via[k]], k)
    /\ ch[k] # <<>> => Head(ch[k]) = "rpc"
    /\ ch[k] # <<>> \/ CloseIsBehind(toServer[via[k]], k)
    /\ rpc[k] \in {"none", "spawned", "calling", "replying"} =>
         ~Holds(toServer[via[k]], "close", k)
    /\ rpc[k] = "closing" =>
         ch[k] # <<>> \/ Holds(toServer[via[k]], "rpc", k) \/ link[via[k]] # "up"

OutcomeOK(k) == pc[k] \in Asking \cup {"waitResponse"} => outcome[k] = "none"

CallOK(k) ==
    ViaOK(k) /\ OpenOK(k) /\ AskOK(k) /\ ResultOK(k) /\ ResponseOK(k) /\ OutcomeOK(k)

\* Ids are not shared, and a connection is not used again while it is read.
RegistryInv ==
    /\ FoundIffServed
    /\ \A c \in Conns : link[c] \in {"free", "dialed"} => reader[c] = "none"
    /\ \A c, d \in registered : id[c] = id[d] => c = d

CountInv == InflightAgrees /\ IsFiniteSet(pending)

CallInv == \A k \in Calls : CallOK(k)

IInv == TypeOK /\ RegistryInv /\ CountInv /\ CallInv

-----------------------------------------------------------------------------
\* How the frames of a session may change when they are not about it: some go,
\* from the front or all of them, and none comes.
Less(new, old, k) ==
    /\ Mentions(new, k) => Mentions(old, k)
    /\ Once(old, k) => Once(new, k)
    /\ \A t \in Types : /\ Holds(new, t, k) => Holds(old, t, k)
                        /\ HoldsOnce(old, t, k) => HoldsOnce(new, t, k)
    /\ OnlyAnswers(old, k) => OnlyAnswers(new, k)

\* The same, and the response stays where it is.
Kept(new, old, k) ==
    /\ Less(new, old, k)
    /\ CloseIsBehind(old, k) => CloseIsBehind(new, k)
    /\ Holds(old, "rpc", k) => Holds(new, "rpc", k)

LEMMA KeptSame == ASSUME NEW frames, NEW k PROVE Kept(frames, frames, k)
  BY DEF Kept, Less

LEMMA EmptyPipe ==
    ASSUME NEW k
    PROVE  /\ ~Mentions(<<>>, k) /\ Once(<<>>, k) /\ OnlyAnswers(<<>>, k)
           /\ CloseIsBehind(<<>>, k)
           /\ \A t : ~Holds(<<>>, t, k) /\ HoldsOnce(<<>>, t, k)
  BY DEF Mentions, Once, OnlyAnswers, CloseIsBehind, Holds, HoldsOnce

LEMMA LessEmpty == ASSUME NEW frames, NEW k PROVE Less(<<>>, frames, k)
  BY EmptyPipe DEF Less

\* The first frame is taken.
LEMMA TailPipe ==
    ASSUME NEW frames \in Seq(Frames), frames # <<>>, NEW k
    PROVE  /\ Tail(frames) \in Seq(Frames) /\ Head(frames) \in Frames
           /\ Less(Tail(frames), frames, k)
           /\ Head(frames).sid = k => Mentions(frames, k)
           /\ Head(frames).sid = k /\ Once(frames, k) => ~Mentions(Tail(frames), k)
           /\ \A t : Head(frames) = Frame(t, k) => Holds(frames, t, k)
           /\ \A t : Head(frames) = Frame(t, k) /\ HoldsOnce(frames, t, k)
                       => ~Holds(Tail(frames), t, k)
           /\ Head(frames) # Frame("rpc", k) => Kept(Tail(frames), frames, k)
           /\ CloseIsBehind(frames, k) => Head(frames) # Frame("close", k)
           /\ OnlyAnswers(frames, k) /\ Head(frames).sid = k
                => Head(frames).t \in {"rpc", "close"}
<1> DEFINE rest == Tail(frames)
<1>1. /\ rest \in Seq(Frames) /\ Head(frames) \in Frames
      /\ Head(frames) = frames[1] /\ 1 \in DOMAIN frames
      /\ \A i \in DOMAIN rest :
           i \in Nat /\ i + 1 \in DOMAIN frames /\ rest[i] = frames[i + 1] /\ i + 1 # 1
      /\ \A i \in DOMAIN frames :
           i # 1 => i \in Nat /\ i - 1 \in DOMAIN rest /\ rest[i - 1] = frames[i]
  OBVIOUS
<1>i. \A i, j \in DOMAIN rest : i + 1 = j + 1 => i = j
  BY <1>1
<1> HIDE DEF rest
<1>2. Mentions(rest, k) => Mentions(frames, k)
  BY <1>1 DEF Mentions
<1>3. ASSUME Once(frames, k), NEW i \in DOMAIN rest, NEW j \in DOMAIN rest,
             rest[i].sid = k, rest[j].sid = k
      PROVE  i = j
  <2>1. frames[i + 1].sid = k /\ frames[j + 1].sid = k
        /\ i + 1 \in DOMAIN frames /\ j + 1 \in DOMAIN frames
    BY <1>1, <1>3
  <2>2. i + 1 = j + 1
    BY <1>3, <2>1 DEF Once
  <2> QED BY <1>i, <2>2
<1>4. \A t : Holds(rest, t, k) => Holds(frames, t, k)
  BY <1>1 DEF Holds
<1>5. \A t : HoldsOnce(frames, t, k) => HoldsOnce(rest, t, k)
  BY <1>1, <1>i DEF HoldsOnce
<1>6. OnlyAnswers(frames, k) => OnlyAnswers(rest, k)
  BY <1>1 DEF OnlyAnswers
<1>7. Less(rest, frames, k)
  BY <1>2, <1>3, <1>4, <1>5, <1>6 DEF Less, Once
<1>8. Head(frames).sid = k => Mentions(frames, k)
  BY <1>1 DEF Mentions
<1>9. Head(frames).sid = k /\ Once(frames, k) => ~Mentions(rest, k)
  BY <1>1 DEF Mentions, Once
<1>10. \A t : Head(frames) = Frame(t, k) => Holds(frames, t, k)
  BY <1>1 DEF Holds
<1>11. \A t : Head(frames) = Frame(t, k) /\ HoldsOnce(frames, t, k) => ~Holds(rest, t, k)
  BY <1>1 DEF Holds, HoldsOnce
<1>12. ASSUME Head(frames) # Frame("rpc", k) PROVE Kept(rest, frames, k)
  <2>1. Holds(frames, "rpc", k) => Holds(rest, "rpc", k)
    BY <1>1, <1>12 DEF Holds
  <2>2. ASSUME CloseIsBehind(frames, k), NEW i \in DOMAIN rest, rest[i] = Frame("close", k)
        PROVE  \E j \in 1 .. i - 1 : rest[j] = Frame("rpc", k)
    <3>1. PICK j \in 1 .. (i + 1) - 1 : frames[j] = Frame("rpc", k)
      BY <1>1, <2>2 DEF CloseIsBehind
    <3>2. i \in Nat /\ i + 1 \in DOMAIN frames
      BY <1>1
    <3>3. j \in Nat /\ 1 <= j /\ j <= i
      BY <3>2
    <3>4. j # 1
      BY <1>1, <1>12, <3>1
    <3>5. j \in DOMAIN frames
      BY <3>2, <3>3
    <3>6. rest[j - 1] = frames[j]
      BY <1>1, <3>4, <3>5
    <3>7. j - 1 \in 1 .. i - 1
      BY <3>2, <3>3, <3>4
    <3> QED BY <3>1, <3>6, <3>7
  <2> QED BY <1>7, <2>1, <2>2 DEF Kept, CloseIsBehind
<1>13. CloseIsBehind(frames, k) => Head(frames) # Frame("close", k)
  BY <1>1 DEF CloseIsBehind
<1>14. OnlyAnswers(frames, k) /\ Head(frames).sid = k => Head(frames).t \in {"rpc", "close"}
  BY <1>1 DEF OnlyAnswers
<1> QED BY <1>1, <1>7, <1>8, <1>9, <1>10, <1>11, <1>12, <1>13, <1>14 DEF rest

\* A frame is written.
LEMMA AppendPipe ==
    ASSUME NEW frames \in Seq(Frames), NEW frame \in Frames, NEW k
    PROVE  LET more == Append(frames, frame)
           IN  /\ more \in Seq(Frames)
               /\ frame.sid # k => Kept(more, frames, k)
               /\ Mentions(more, k) => Mentions(frames, k) \/ frame.sid = k
               /\ ~Mentions(frames, k) => Once(more, k)
               /\ \A t : Holds(more, t, k) <=> Holds(frames, t, k) \/ frame = Frame(t, k)
               /\ \A t : ~Holds(frames, t, k) => HoldsOnce(more, t, k)
               /\ OnlyAnswers(frames, k) /\ frame.t \in {"rpc", "close"}
                    => OnlyAnswers(more, k)
               /\ CloseIsBehind(frames, k)
                    /\ (frame # Frame("close", k) \/ Holds(frames, "rpc", k))
                    => CloseIsBehind(more, k)
<1> DEFINE more == Append(frames, frame)
           last == Len(frames) + 1
<1>1. /\ more \in Seq(Frames) /\ last \in DOMAIN more /\ more[last] = frame
      /\ \A i \in DOMAIN frames : i \in DOMAIN more /\ more[i] = frames[i] /\ i \in 1 .. last - 1
      /\ \A i \in DOMAIN more : i # last => i \in DOMAIN frames
      /\ frame = Frame(frame.t, frame.sid)
  BY DEF Frame, Frames
<1>f. \A t : frame = Frame(t, k) => frame.sid = k
  BY DEF Frame
<1>n. last \in Nat
  OBVIOUS
<1> HIDE DEF more, last
<1>2. Mentions(more, k) => Mentions(frames, k) \/ frame.sid = k
  BY <1>1 DEF Mentions
<1>3. ~Mentions(frames, k) => Once(more, k)
  BY <1>1 DEF Mentions, Once
<1>4. \A t : Holds(more, t, k) <=> Holds(frames, t, k) \/ frame = Frame(t, k)
  BY <1>1 DEF Holds
<1>5. \A t : ~Holds(frames, t, k) => HoldsOnce(more, t, k)
  BY <1>1 DEF Holds, HoldsOnce
<1>6. OnlyAnswers(frames, k) /\ (frame.sid # k \/ frame.t \in {"rpc", "close"})
        => OnlyAnswers(more, k)
  BY <1>1 DEF OnlyAnswers
<1>7. ASSUME CloseIsBehind(frames, k),
             frame # Frame("close", k) \/ Holds(frames, "rpc", k),
             NEW i \in DOMAIN more, more[i] = Frame("close", k)
      PROVE  \E j \in 1 .. i - 1 : more[j] = Frame("rpc", k)
  <2>1. CASE i \in DOMAIN frames
    <3>1. PICK j \in 1 .. i - 1 : frames[j] = Frame("rpc", k)
      BY <1>1, <1>7, <2>1 DEF CloseIsBehind
    <3>2. j \in DOMAIN frames
      BY <2>1, <3>1
    <3> QED BY <1>1, <3>1, <3>2
  <2>2. CASE i \notin DOMAIN frames
    <3>1. i = last /\ frame = Frame("close", k)
      BY <1>1, <1>7, <2>2
    <3>2. PICK j \in DOMAIN frames : frames[j] = Frame("rpc", k)
      BY <1>7, <3>1 DEF Holds
    <3> QED BY <1>1, <3>1, <3>2
  <2> QED BY <2>1, <2>2
<1>8. Once(frames, k) /\ frame.sid # k => Once(more, k)
  BY <1>1 DEF Once
<1>9. \A t : HoldsOnce(frames, t, k) /\ frame.sid # k => HoldsOnce(more, t, k)
  BY <1>1, <1>f DEF HoldsOnce
<1>10. frame.sid # k => Kept(more, frames, k)
  BY <1>2, <1>4, <1>6, <1>7, <1>8, <1>9, <1>f DEF Kept, Less, CloseIsBehind
<1>11. CloseIsBehind(frames, k) /\ (frame # Frame("close", k) \/ Holds(frames, "rpc", k))
         => CloseIsBehind(more, k)
  BY <1>7 DEF CloseIsBehind
<1> QED BY <1>1, <1>2, <1>3, <1>4, <1>5, <1>6, <1>10, <1>11 DEF more

\* The channel of a session gets a frame.
LEMMA AppendChannel ==
    ASSUME NEW types \in Seq(Types), NEW t \in Types
    PROVE  LET more == Append(types, t)
           IN  /\ more \in Seq(Types) /\ more # <<>>
               /\ types # <<>> => Head(more) = Head(types)
               /\ types = <<>> => Head(more) = t /\ Len(more) = 1
               /\ \A i \in DOMAIN more :
                    (i \in DOMAIN types /\ more[i] = types[i]) \/ more[i] = t
<1> DEFINE more == Append(types, t)
<1>1. /\ more \in Seq(Types) /\ Len(more) = Len(types) + 1 /\ Len(types) \in Nat
      /\ DOMAIN more = 1 .. Len(types) + 1 /\ DOMAIN types = 1 .. Len(types)
      /\ more[Len(types) + 1] = t
      /\ \A i \in 1 .. Len(types) : more[i] = types[i]
  OBVIOUS
<1>2. more # <<>>
  BY <1>1
<1>3. ASSUME types # <<>> PROVE Head(more) = Head(types)
  <2>1. 1 \in 1 .. Len(types) /\ Head(types) = types[1] /\ Head(more) = more[1]
    BY <1>1, <1>2, <1>3
  <2> QED BY <1>1, <2>1
<1>4. types = <<>> => Head(more) = t /\ Len(more) = 1
  BY <1>1, <1>2
<1>5. \A i \in DOMAIN more : (i \in DOMAIN types /\ more[i] = types[i]) \/ more[i] = t
  BY <1>1
<1> QED BY <1>1, <1>2, <1>3, <1>4, <1>5

\* All pipes of a direction.
LEMMA PutPipes ==
    ASSUME NEW pipe \in [Conns -> Seq(Frames)], NEW c, NEW frame \in Frames, NEW k
    PROVE  /\ Put(pipe, c, frame) \in [Conns -> Seq(Frames)]
           /\ \A d \in Conns :
                frame.sid # k \/ d # c => Kept(Put(pipe, c, frame)[d], pipe[d], k)
           /\ \A d \in Conns :
                d # c \/ link[c] # "up" => Put(pipe, c, frame)[d] = pipe[d]
           /\ c \in Conns /\ link[c] = "up"
                => Put(pipe, c, frame)[c] = Append(pipe[c], frame)
<1>1. /\ Put(pipe, c, frame) \in [Conns -> Seq(Frames)]
      /\ \A d \in Conns : d # c \/ link[c] # "up" => Put(pipe, c, frame)[d] = pipe[d]
      /\ c \in Conns /\ link[c] = "up" => Put(pipe, c, frame)[c] = Append(pipe[c], frame)
  <2>1. CASE link[c] = "up"
    <3>1. Put(pipe, c, frame) = [pipe EXCEPT ![c] = Append(@, frame)]
      BY <2>1 DEF Put
    <3>2. c \in Conns => Append(pipe[c], frame) \in Seq(Frames)
      OBVIOUS
    <3> QED BY <2>1, <3>1, <3>2
  <2>2. CASE link[c] # "up"
    BY <2>2 DEF Put
  <2> QED BY <2>1, <2>2
<1>2. ASSUME NEW d \in Conns, frame.sid # k \/ d # c
      PROVE  Kept(Put(pipe, c, frame)[d], pipe[d], k)
  <2>1. CASE Put(pipe, c, frame)[d] = pipe[d]
    BY <2>1, KeptSame
  <2>2. CASE d = c /\ link[c] = "up"
    <3>1. Put(pipe, c, frame)[d] = Append(pipe[d], frame) /\ frame.sid # k
          /\ pipe[d] \in Seq(Frames)
      BY <1>1, <1>2, <2>2
    <3> QED BY <3>1, AppendPipe
  <2> QED BY <1>1, <2>1, <2>2
<1> QED BY <1>1, <1>2

LEMMA PutPipe ==
    ASSUME NEW pipe \in [Conns -> Seq(Frames)], NEW c, NEW frame \in Frames, NEW d \in Conns
    PROVE  /\ pipe[d] \in Seq(Frames)
           /\ \/ Put(pipe, c, frame)[d] = pipe[d] /\ (d # c \/ link[c] # "up")
              \/ Put(pipe, c, frame)[d] = Append(pipe[d], frame) /\ d = c /\ link[c] = "up"
<1>1. CASE link[c] = "up"
  <2>1. Put(pipe, c, frame) = [pipe EXCEPT ![c] = Append(@, frame)]
    BY <1>1 DEF Put
  <2> QED BY <1>1, <2>1
<1>2. CASE link[c] # "up"
  BY <1>2 DEF Put
<1> QED BY <1>1, <1>2

\* The frames to a relay: those of one connection lose their first.
LEMMA TailPipes ==
    ASSUME NEW pipe \in [Conns -> Seq(Frames)], NEW c \in Conns, pipe[c] # <<>>, NEW k,
           NEW rest, rest = [pipe EXCEPT ![c] = Tail(@)]
    PROVE  /\ rest \in [Conns -> Seq(Frames)]
           /\ \A d \in Conns : Less(rest[d], pipe[d], k)
           /\ \A d \in Conns : d # c => rest[d] = pipe[d]
           /\ rest[c] = Tail(pipe[c])
<1>1. Tail(pipe[c]) \in Seq(Frames) /\ Less(Tail(pipe[c]), pipe[c], k)
  BY TailPipe
<1>2. /\ rest \in [Conns -> Seq(Frames)] /\ rest[c] = Tail(pipe[c])
      /\ \A d \in Conns : d # c => rest[d] = pipe[d]
  BY <1>1
<1>3. \A d \in Conns : d # c => Less(rest[d], pipe[d], k)
  BY <1>2, KeptSame DEF Kept
<1> QED BY <1>1, <1>2, <1>3

-----------------------------------------------------------------------------
\* A step that is not about a call leaves it as it is, whatever frames of it get
\* lost; its goroutine may die with the relay.
LEMMA CallStays ==
    ASSUME NEW k \in Calls, CallOK(k),
           UNCHANGED <<pc[k], via[k], ch[k], outcome[k]>>,
           k \in results' <=> k \in results,
           \/ UNCHANGED <<rpc[k], bearer[k]>>
           \/ rpc[k] \in Active /\ rpc'[k] = "over",
           \A c \in Conns : Less(toAgent'[c], toAgent[c], k),
           \A c \in Conns : \/ Kept(toServer'[c], toServer[c], k)
                            \/ toServer'[c] = <<>> /\ link[c] # "up",
           via[k] \in Conns => UNCHANGED link[via[k]] \/ link'[via[k]] \in {"lost", "closed"}
    PROVE  CallOK(k)'
<1>1. \A c \in Conns : /\ Less(toServer'[c], toServer[c], k)
                       /\ CloseIsBehind(toServer[c], k) => CloseIsBehind(toServer'[c], k)
                       /\ link[c] = "up" /\ Holds(toServer[c], "rpc", k)
                            => Holds(toServer'[c], "rpc", k)
  BY LessEmpty, EmptyPipe DEF Kept
<1>2. "rpc" \in Types /\ "open" \in Types /\ "close" \in Types
  BY DEF Types
<1>v. pc[k] \in {"waitOpen", "sending", "waitResponse"} => via[k] \in Conns
  BY DEF CallOK, ViaOK, Holding
<1>3. ViaOK(k)'
  BY DEF CallOK, ViaOK
<1>4. OpenOK(k)'
  BY <1>1, <1>v DEF CallOK, OpenOK, Less
<1>5. AskOK(k)'
  BY <1>2 DEF CallOK, AskOK, Less, Active
<1>6. ResultOK(k)'
  BY <1>1, <1>2 DEF CallOK, ResultOK, Less, Active
<1>7. ResponseOK(k)'
  <2> SUFFICES ASSUME pc[k] = "waitResponse" PROVE ResponseOK(k)'
    BY DEF ResponseOK
  <2>1. \A c \in Conns : Holds(toAgent'[c], "rpc", k) => c = via[k]
    BY <1>2 DEF CallOK, ResponseOK, Less
  <2>2. ~Holds(toAgent'[via[k]], "open", k)
    BY <1>2, <1>v DEF CallOK, ResponseOK, Less
  <2>3. rpc'[k] \in Active => bearer'[k] = via[k]
    BY DEF CallOK, ResponseOK, Active
  <2>4. OnlyAnswers(toServer'[via[k]], k)
    BY <1>1, <1>v DEF CallOK, ResponseOK, Less
  <2>5. ch[k] # <<>> \/ CloseIsBehind(toServer'[via[k]], k)
    BY <1>1, <1>v DEF CallOK, ResponseOK
  <2>6. rpc'[k] \in {"none", "spawned", "calling", "replying"}
          => ~Holds(toServer'[via[k]], "close", k)
    BY <1>1, <1>2, <1>v DEF CallOK, ResponseOK, Less
  <2>7. rpc'[k] = "closing" => \/ ch[k] # <<>> \/ Holds(toServer'[via[k]], "rpc", k)
                               \/ link'[via[k]] # "up"
    BY <1>1, <1>v DEF CallOK, ResponseOK
  <2>8. ch[k] # <<>> => Head(ch[k]) = "rpc"
    BY DEF CallOK, ResponseOK
  <2> QED BY <2>1, <2>2, <2>3, <2>4, <2>5, <2>6, <2>7, <2>8 DEF ResponseOK
<1>8. OutcomeOK(k)'
  BY DEF CallOK, OutcomeOK
<1> QED BY <1>3, <1>4, <1>5, <1>6, <1>7, <1>8 DEF CallOK

\* A call that waits for nothing any more.
LEMMA CallEnds ==
    ASSUME NEW k \in Calls, CallOK(k), pc'[k] \in Done,
           via'[k] \in Conns <=> pc'[k] # "over",
           via'[k] \in Conns => via'[k] = via[k],
           (\E i \in DOMAIN ch'[k] : ch'[k][i] = "rpc") => k \in results,
           UNCHANGED <<results, rpc, link, toServer>>,
           \A c \in Conns : /\ Holds(toAgent'[c], "rpc", k) => Holds(toAgent[c], "rpc", k)
                            /\ HoldsOnce(toAgent[c], "rpc", k)
                                 => HoldsOnce(toAgent'[c], "rpc", k)
    PROVE  CallOK(k)'
<1>0. pc'[k] \notin Asking \cup {"waitResponse"} /\ pc'[k] \notin Silent
      /\ (pc'[k] \in Holding \cup {"located"} <=> pc'[k] # "over")
  BY DEF Done, Asking, Silent, Holding
<1>1. ViaOK(k)'
  BY <1>0 DEF CallOK, ViaOK
<1>2. OpenOK(k)' /\ ResponseOK(k)' /\ OutcomeOK(k)'
  BY <1>0 DEF OpenOK, ResponseOK, OutcomeOK, Asking
<1>3. AskOK(k)'
  BY <1>0 DEF CallOK, AskOK
<1>4. ResultOK(k)'
  BY DEF CallOK, ResultOK
<1> QED BY <1>1, <1>2, <1>3, <1>4 DEF CallOK

-----------------------------------------------------------------------------
LEMMA Types1 ==
    ASSUME IInv
    PROVE  /\ toServer \in [Conns -> Seq(Frames)] /\ toAgent \in [Conns -> Seq(Frames)]
           /\ link \in [Conns -> {"free", "dialed", "up", "lost", "closed"}]
           /\ rpc \in [Calls -> Active \cup {"none", "over"}]
           /\ bearer \in [Calls -> Conns \cup {NoConn}]
           /\ pc \in [Calls -> Holding \cup {"new", "located", "over"}]
           /\ via \in [Calls -> Conns \cup {NoConn}]
           /\ ch \in [Calls -> Seq(Types)]
           /\ outcome \in [Calls -> {"none", "answered", "empty", "failed"}]
           /\ \A k \in Calls : CallOK(k)
  BY DEF IInv, CallInv, TypeOK, RelayTypeOK

\* What happens to a connection, or to its relay, is about no call.
LEMMA ConnectionKeepsCalls ==
    ASSUME IInv, NEW c \in Conns,
           \/ Connect(c) \/ Register(c) \/ Acknowledge(c) \/ EndReader(c)
           \/ DeclareDead(c) \/ Recycle(c) \/ StartDrain
           \/ /\ ReadAck(c) \/ Hangup(c) \/ Crash(c) \/ Break(c)
              /\ UNCHANGED serverVars
    PROVE  CallInv'
<1>0. /\ toServer \in [Conns -> Seq(Frames)] /\ toAgent \in [Conns -> Seq(Frames)]
      /\ link \in [Conns -> {"free", "dialed", "up", "lost", "closed"}]
      /\ rpc \in [Calls -> Active \cup {"none", "over"}]
      /\ bearer \in [Calls -> Conns \cup {NoConn}]
      /\ \A k \in Calls : CallOK(k)
  BY Types1
<1>1. UNCHANGED <<pc, via, ch, outcome, results>>
  BY DEF Connect, Dial, Register, Acknowledge, EndReader, DeclareDead, Recycle, StartDrain,
     ReadAck, Hangup, Crash, Break, serverVars, callVars, relayVars
<1> SUFFICES ASSUME NEW k \in Calls PROVE CallOK(k)'
  BY DEF CallInv
<1>2. \A s : Kept(s, s, k) /\ Less(s, s, k) /\ Less(<<>>, s, k)
  BY KeptSame, LessEmpty DEF Kept
<1>3. \/ UNCHANGED <<rpc[k], bearer[k]>>
      \/ rpc[k] \in Active /\ rpc'[k] = "over"
  <2>1. CASE Crash(c)
    BY <1>0, <2>1 DEF Crash, RpcsOf
  <2>2. CASE ~Crash(c)
    <3>1. UNCHANGED <<rpc, bearer>>
      BY <2>2 DEF Connect, Dial, Register, Acknowledge, EndReader, DeclareDead, Recycle,
         StartDrain, ReadAck, Hangup, Break, relayVars
    <3> QED BY <3>1
  <2> QED BY <2>1, <2>2
<1>4. ASSUME NEW d \in Conns PROVE Less(toAgent'[d], toAgent[d], k)
  <2>1. CASE Acknowledge(c)
    <3>1. /\ Frame("ack", NoCall) \in Frames /\ Frame("ack", NoCall).sid # k
          /\ toAgent' = Put(toAgent, c, Frame("ack", NoCall))
      BY <2>1, McpRelayAssumption DEF Acknowledge, Frame, Frames, Types
    <3> QED BY <1>0, <3>1, PutPipes DEF Kept
  <2>2. CASE ReadAck(c)
    <3>1. toAgent[c] # <<>> /\ toAgent' = [toAgent EXCEPT ![c] = Tail(@)]
      BY <2>2 DEF ReadAck
    <3> QED BY <1>0, <3>1, TailPipes
  <2>3. CASE Hangup(c) \/ Crash(c)
    <3>1. toAgent' = [toAgent EXCEPT ![c] = <<>>]
      BY <2>3 DEF Hangup, Crash
    <3> QED BY <1>0, <1>2, <3>1
  <2>4. CASE UNCHANGED toAgent
    BY <1>2, <2>4
  <2> QED BY <2>1, <2>2, <2>3, <2>4 DEF Connect, Dial, Register, EndReader, DeclareDead,
          Recycle, StartDrain, Break, pipeVars
<1>5. ASSUME NEW d \in Conns
      PROVE  \/ Kept(toServer'[d], toServer[d], k)
             \/ toServer'[d] = <<>> /\ link[d] # "up"
  <2>1. CASE EndReader(c)
    <3>1. toServer' = [toServer EXCEPT ![c] = <<>>] /\ link[c] = "closed"
      BY <2>1 DEF EndReader
    <3> QED BY <1>0, <1>2, <3>1
  <2>2. CASE UNCHANGED toServer
    BY <1>2, <2>2
  <2> QED BY <2>1, <2>2 DEF Connect, Dial, Register, Acknowledge, DeclareDead, Recycle,
          StartDrain, ReadAck, Hangup, Crash, Break, pipeVars
<1>6. ASSUME via[k] \in Conns
      PROVE  UNCHANGED link[via[k]] \/ link'[via[k]] \in {"lost", "closed"}
  <2>1. link[via[k]] \notin {"free", "dialed"}
    BY <1>0, <1>6 DEF CallOK, ViaOK
  <2>2. CASE via[k] # c
    <3>1. link' = link \/ \E l : link' = [link EXCEPT ![c] = l]
      BY DEF Connect, Dial, Register, Acknowledge, EndReader, DeclareDead, Recycle,
         StartDrain, ReadAck, Hangup, Crash, Break, relayVars
    <3> QED BY <1>0, <1>1, <1>6, <2>2, <3>1
  <2>3. CASE via[k] = c
    <3>1. CASE UNCHANGED link
      BY <1>1, <3>1
    <3>2. CASE DeclareDead(c) \/ Crash(c) \/ Break(c)
      BY <1>0, <2>3, <3>2 DEF DeclareDead, Crash, Break
    <3> QED BY <2>1, <2>3, <3>1, <3>2 DEF Connect, Dial, Register, Acknowledge, EndReader,
            Recycle, StartDrain, ReadAck, Hangup
  <2> QED BY <2>2, <2>3
<1> QED BY <1>0, <1>1, <1>3, <1>4, <1>5, <1>6, CallStays

\* The relay takes a frame.  What it does with it concerns the call of the frame.
LEMMA RelayKeepsCalls ==
    ASSUME IInv, NEW c \in Conns, Serve(c), UNCHANGED serverVars
    PROVE  CallInv'
<1>0. /\ toServer \in [Conns -> Seq(Frames)] /\ toAgent \in [Conns -> Seq(Frames)]
      /\ rpc \in [Calls -> Active \cup {"none", "over"}]
      /\ bearer \in [Calls -> Conns \cup {NoConn}]
      /\ \A k \in Calls : CallOK(k)
  BY Types1
<1>1. /\ UNCHANGED <<pc, via, ch, outcome, results, link>>
      /\ toAgent[c] # <<>> /\ toAgent' = [toAgent EXCEPT ![c] = Tail(@)]
  BY DEF Serve, ReceiveOpen, ReceiveRpc, ReceiveClose, ReceiveOther, Receive, serverVars
<1> DEFINE frame == Head(toAgent[c])
<1>2. frame \in Frames /\ frame = Frame(frame.t, frame.sid)
  BY <1>0, <1>1, TailPipe DEF Frames, Frame
<1> SUFFICES ASSUME NEW k \in Calls PROVE CallOK(k)'
  BY DEF CallInv
<1>3. /\ \A d \in Conns : Less(toAgent'[d], toAgent[d], k)
      /\ \A d \in Conns : d # c => toAgent'[d] = toAgent[d]
      /\ toAgent'[c] = Tail(toAgent[c])
  BY <1>0, <1>1, TailPipes
<1>4. \A s : Kept(s, s, k)
  BY KeptSame
<1>5. CASE UNCHANGED <<toServer, rpc, bearer>>
  BY <1>0, <1>1, <1>3, <1>4, <1>5, CallStays
<1>6. CASE ReceiveOpen(c)
  <2> DEFINE answer == Frame(IF frame.sid \in Authorized THEN "open.ok" ELSE "open.fail",
                             frame.sid)
  <2>1. /\ answer \in Frames /\ answer.sid = frame.sid
        /\ \A s : answer # Frame("rpc", s) /\ answer # Frame("close", s)
    BY <1>2 DEF Frame, Frames, Types
  <2>2. toServer' = Put(toServer, c, answer) /\ UNCHANGED <<rpc, bearer>> /\ frame.t = "open"
    BY <1>6 DEF ReceiveOpen, Receive
  <2> HIDE DEF answer
  <2>3. /\ toServer' \in [Conns -> Seq(Frames)]
        /\ \A d \in Conns : answer.sid # k \/ d # c => Kept(toServer'[d], toServer[d], k)
        /\ \A d \in Conns : d # c \/ link[c] # "up" => toServer'[d] = toServer[d]
        /\ link[c] = "up" => toServer'[c] = Append(toServer[c], answer)
    <3>1. answer \in Frames /\ toServer \in [Conns -> Seq(Frames)]
      BY <1>0, <2>1
    <3>2. toServer' = Put(toServer, c, answer)
      BY <2>2
    <3> DEFINE put == Put(toServer, c, answer)
    <3>3. /\ put \in [Conns -> Seq(Frames)]
          /\ \A d \in Conns : answer.sid # k \/ d # c => Kept(put[d], toServer[d], k)
          /\ \A d \in Conns : d # c \/ link[c] # "up" => put[d] = toServer[d]
          /\ link[c] = "up" => put[c] = Append(toServer[c], answer)
      BY <3>1, PutPipes, ZenonT(60)
    <3>4. toServer' = put
      BY <3>2
    <3> HIDE DEF put
    <3> QED BY <3>3, <3>4
  <2>4. CASE frame.sid # k \/ link[c] # "up"
    <3>1. \A d \in Conns : Kept(toServer'[d], toServer[d], k)
      BY <1>4, <2>1, <2>3, <2>4
    <3> QED BY <1>0, <1>1, <1>3, <2>2, <3>1, CallStays
  <2>5. CASE frame.sid = k /\ link[c] = "up"
    <3>1. /\ frame = Frame("open", k) /\ Mentions(toAgent[c], k)
          /\ Holds(toAgent[c], "open", k)
          /\ Once(toAgent[c], k) => ~Mentions(toAgent'[c], k)
      BY <1>0, <1>1, <1>2, <1>3, <2>2, <2>5, TailPipe
    <3>2. /\ Mentions(toServer'[c], k) => Mentions(toServer[c], k) \/ answer.sid = k
          /\ ~Mentions(toServer[c], k) => Once(toServer'[c], k)
          /\ \A t : Holds(toServer'[c], t, k) <=> Holds(toServer[c], t, k) \/ answer = Frame(t, k)
      <4>1. /\ answer \in Frames /\ toServer[c] \in Seq(Frames)
            /\ toServer'[c] = Append(toServer[c], answer)
        BY <1>0, <2>1, <2>3, <2>5
      <4> QED BY <4>1, AppendPipe
    <3>3. pc[k] \notin Silent
      BY <1>0, <3>1 DEF CallOK, OpenOK
    <3>4. pc[k] \in {"waitOpen", "sending", "waitResponse"} => via[k] \in Conns
      BY <1>0 DEF CallOK, ViaOK, Holding
    <3>5. ViaOK(k)' /\ OutcomeOK(k)'
      BY <1>0, <1>1 DEF CallOK, ViaOK, OutcomeOK
    <3>6. OpenOK(k)'
      <4>1. CASE via[k] # c
        BY <1>0, <1>1, <1>3, <2>3, <3>3, <3>4, <4>1 DEF CallOK, OpenOK
      <4>2. CASE via[k] = c
        <5>1. CASE pc[k] = "waitOpen"
          <6>1. /\ ch[k] = <<>> /\ ~Mentions(toServer[c], k) /\ Once(toAgent[c], k)
                /\ Len(ch[k]) <= 1
            BY <1>0, <3>1, <4>2, <5>1 DEF CallOK, OpenOK
          <6>2. /\ ~Mentions(toAgent'[c], k) /\ Once(toServer'[c], k)
                /\ Once(toAgent'[c], k)
            BY <3>1, <3>2, <6>1 DEF Mentions, Once
          <6> QED BY <1>1, <4>2, <5>1, <6>1, <6>2 DEF OpenOK, Silent
        <5>2. CASE pc[k] = "sending"
          BY <1>0, <3>1, <4>2, <5>2 DEF CallOK, OpenOK
        <5>3. CASE pc[k] \notin Asking
          BY <1>1, <5>3 DEF OpenOK, Asking
        <5> QED BY <3>3, <5>1, <5>2, <5>3 DEF Asking
      <4> QED BY <4>1, <4>2
    <3>7. AskOK(k)'
      <4>1. "rpc" \in Types
        BY DEF Types
      <4> QED BY <1>0, <1>1, <1>3, <2>2, <4>1 DEF CallOK, AskOK, Less
    <3>8. ResultOK(k)'
      <4>1. \A d \in Conns : Holds(toServer'[d], "rpc", k) => Holds(toServer[d], "rpc", k)
        BY <2>1, <2>3, <3>2
      <4> QED BY <1>0, <1>1, <2>2, <4>1 DEF CallOK, ResultOK
    <3>9. ResponseOK(k)'
      <4> SUFFICES ASSUME pc[k] = "waitResponse" PROVE ResponseOK(k)'
        BY <1>1 DEF ResponseOK
      <4>1. via[k] # c
        BY <1>0, <3>1 DEF CallOK, ResponseOK
      <4>2. "rpc" \in Types
        BY DEF Types
      <4> QED BY <1>0, <1>1, <1>3, <2>2, <2>3, <3>4, <4>1, <4>2 DEF CallOK, ResponseOK, Less
    <3> QED BY <3>5, <3>6, <3>7, <3>8, <3>9 DEF CallOK
  <2> QED BY <2>4, <2>5
<1>7. CASE ReceiveRpc(c)
  <2>1. /\ rpc' = [rpc EXCEPT ![frame.sid] = "spawned"]
        /\ bearer' = [bearer EXCEPT ![frame.sid] = c]
        /\ UNCHANGED toServer /\ frame.t = "rpc"
    BY <1>7 DEF ReceiveRpc, Receive
  <2>2. CASE frame.sid # k
    <3>1. UNCHANGED <<rpc[k], bearer[k]>>
      BY <1>0, <2>1, <2>2
    <3> QED BY <1>0, <1>1, <1>3, <1>4, <2>1, <3>1, CallStays
  <2>3. CASE frame.sid = k
    <3>1. /\ frame = Frame("rpc", k) /\ Holds(toAgent[c], "rpc", k)
          /\ HoldsOnce(toAgent[c], "rpc", k) => ~Holds(toAgent'[c], "rpc", k)
      BY <1>0, <1>1, <1>2, <1>3, <2>1, <2>3, TailPipe
    <3>2. /\ rpc[k] = "none" /\ pc[k] \notin Asking
          /\ \A d \in Conns : ~Holds(toAgent'[d], "rpc", k)
      BY <1>0, <1>3, <3>1 DEF CallOK, AskOK
    <3>3. rpc'[k] = "spawned" /\ bearer'[k] = c
      BY <1>0, <2>1, <2>3
    <3>4. ViaOK(k)' /\ OutcomeOK(k)'
      BY <1>0, <1>1 DEF CallOK, ViaOK, OutcomeOK
    <3>5. OpenOK(k)'
      BY <1>1, <3>2 DEF OpenOK, Asking
    <3>6. AskOK(k)'
      BY <1>1, <3>2 DEF AskOK
    <3>7. ResultOK(k)'
      BY <1>0, <1>1, <2>1, <3>2, <3>3 DEF CallOK, ResultOK
    <3>8. ResponseOK(k)'
      <4> SUFFICES ASSUME pc[k] = "waitResponse" PROVE ResponseOK(k)'
        BY <1>1 DEF ResponseOK
      <4>1. via[k] = c
        BY <1>0, <3>1 DEF CallOK, ResponseOK
      <4>2. ~Holds(toAgent'[c], "open", k)
        <5>1. "open" \in Types
          BY DEF Types
        <5> QED BY <1>0, <1>3, <4>1, <5>1 DEF CallOK, ResponseOK, Less
      <4> QED BY <1>0, <1>1, <2>1, <3>2, <3>3, <4>1, <4>2 DEF CallOK, ResponseOK
    <3> QED BY <3>4, <3>5, <3>6, <3>7, <3>8 DEF CallOK
  <2> QED BY <2>2, <2>3
<1> QED BY <1>5, <1>6, <1>7 DEF Serve, ReceiveClose, ReceiveOther

\* The goroutine of a call: its response goes before its close frame.
LEMMA GoroutineKeepsCalls ==
    ASSUME IInv, NEW r \in Calls, HandleRpc(r), UNCHANGED serverVars
    PROVE  CallInv'
<1>0. /\ toServer \in [Conns -> Seq(Frames)]
      /\ rpc \in [Calls -> Active \cup {"none", "over"}]
      /\ bearer \in [Calls -> Conns \cup {NoConn}]
      /\ \A k \in Calls : CallOK(k)
  BY Types1
<1>1. UNCHANGED <<pc, via, ch, outcome, link, toAgent>>
  BY DEF HandleRpc, StoreCancel, CallReturns, CutCall, Reply, CloseSession, Leave,
     serverVars, pipeVars
<1>2. /\ rpc[r] \in Active
      /\ \E to \in Active \cup {"over"} : rpc' = [rpc EXCEPT ![r] = to]
      /\ bearer' = bearer \/ bearer' = [bearer EXCEPT ![r] = NoConn]
      /\ results' = results \/ results' = results \cup {r}
  BY DEF HandleRpc, StoreCancel, CallReturns, CutCall, Reply, CloseSession, Leave,
     GotoRpc, Active
<1>3. \A t \in Types : Frame(t, r) \in Frames /\ Frame(t, r).sid = r /\ Frame(t, r).t = t
  BY DEF Frame, Frames
<1>4. PICK t \in Types : \/ UNCHANGED toServer
                         \/ toServer' = Put(toServer, bearer[r], Frame(t, r))
  BY DEF HandleRpc, StoreCancel, CallReturns, CutCall, Reply, CloseSession, Leave,
     Types, pipeVars
<1>5. ASSUME NEW k \in Calls, k # r PROVE CallOK(k)'
  <2>1. /\ UNCHANGED <<pc[k], via[k], ch[k], outcome[k], rpc[k], bearer[k]>>
        /\ k \in results' <=> k \in results
    BY <1>0, <1>1, <1>2, <1>5
  <2>2. \A d \in Conns : Kept(toServer'[d], toServer[d], k)
    <3>1. CASE UNCHANGED toServer
      BY <3>1, KeptSame
    <3>2. CASE toServer' = Put(toServer, bearer[r], Frame(t, r))
      <4>1. Frame(t, r) \in Frames /\ Frame(t, r).sid # k
        BY <1>3, <1>5
      <4> QED BY <1>0, <3>2, <4>1, PutPipes
    <3> QED BY <1>4, <3>1, <3>2
  <2>3. \A d \in Conns : Less(toAgent'[d], toAgent[d], k)
    BY <1>1, KeptSame DEF Kept
  <2> QED BY <1>0, <1>1, <2>1, <2>2, <2>3, CallStays
<1>6. CallOK(r)'
  <2>0. CallOK(r)
    BY <1>0
  <2>1. pc[r] \notin Asking /\ \A c \in Conns : ~Holds(toAgent[c], "rpc", r)
    BY <1>2, <2>0 DEF CallOK, AskOK, Active
  <2>2. ViaOK(r)' /\ OutcomeOK(r)' /\ OpenOK(r)' /\ AskOK(r)'
    BY <1>1, <2>0, <2>1 DEF CallOK, ViaOK, OutcomeOK, OpenOK, AskOK, Asking
  <2>3. ASSUME pc[r] = "waitResponse"
        PROVE  /\ via[r] \in Conns /\ bearer[r] = via[r]
               /\ OnlyAnswers(toServer[via[r]], r) /\ ~Holds(toAgent[via[r]], "open", r)
               /\ ch[r] # <<>> => Head(ch[r]) = "rpc"
               /\ ch[r] # <<>> \/ CloseIsBehind(toServer[via[r]], r)
    BY <1>2, <2>0, <2>3 DEF CallOK, ViaOK, ResponseOK, Holding
  <2>4. CASE StoreCancel(r) \/ CutCall(r) \/ Leave(r)
    <3>1. /\ UNCHANGED <<toServer, results>>
          /\ \/ rpc[r] = "spawned" /\ rpc'[r] = "calling" /\ bearer'[r] = bearer[r]
             \/ rpc[r] = "calling" /\ rpc'[r] = "leaving" /\ bearer'[r] = bearer[r]
             \/ rpc'[r] = "over"
      BY <1>0, <2>4 DEF StoreCancel, CutCall, Leave, GotoRpc, pipeVars
    <3>2. ResultOK(r)'
      BY <1>1, <2>0, <3>1 DEF CallOK, ResultOK
    <3>3. ResponseOK(r)'
      BY <1>1, <2>0, <2>1, <2>3, <3>1 DEF CallOK, ResponseOK, Active
    <3> QED BY <2>2, <3>2, <3>3 DEF CallOK
  <2>5. CASE CallReturns(r)
    <3>1. /\ UNCHANGED toServer /\ r \in results' /\ rpc[r] = "calling"
          /\ rpc'[r] = "replying" /\ bearer' = bearer
      BY <1>0, <2>5 DEF CallReturns, GotoRpc, pipeVars
    <3>2. ResultOK(r)'
      BY <3>1 DEF ResultOK
    <3>3. ResponseOK(r)'
      BY <1>1, <2>0, <2>1, <2>3, <3>1 DEF CallOK, ResponseOK
    <3> QED BY <2>2, <3>2, <3>3 DEF CallOK
  <2>6. CASE Reply(r)
    <3>1. /\ toServer' = Put(toServer, bearer[r], Frame("rpc", r)) /\ UNCHANGED results
          /\ rpc[r] = "replying" /\ rpc'[r] = "closing" /\ bearer' = bearer
      BY <1>0, <2>6 DEF Reply, GotoRpc
    <3>2. r \in results /\ (\A c \in Conns : Holds(toServer[c], "rpc", r) => r \in results)
      BY <2>0, <3>1 DEF CallOK, ResultOK
    <3>3. ResultOK(r)'
      BY <3>1, <3>2 DEF ResultOK
    <3>4. ASSUME pc[r] = "waitResponse" PROVE ResponseOK(r)'
      <4>1. ~Holds(toServer[via[r]], "close", r)
        BY <2>0, <3>1, <3>4 DEF CallOK, ResponseOK
      <4>2. CASE link[via[r]] = "up"
        <5>1. Frame("rpc", r) \in Frames /\ Frame("rpc", r).t = "rpc"
              /\ Frame("rpc", r) # Frame("close", r) /\ toServer[via[r]] \in Seq(Frames)
          BY <1>0, <1>3, <2>3, <3>4 DEF Types, Frame
        <5>2. toServer'[via[r]] = Append(toServer[via[r]], Frame("rpc", r))
          <6>1. via[r] \in Conns /\ toServer' = Put(toServer, via[r], Frame("rpc", r))
            BY <2>3, <3>1, <3>4
          <6>2. toServer \in [Conns -> Seq(Frames)]
            BY <1>0
          <6>3. Put(toServer, via[r], Frame("rpc", r))[via[r]]
                  = Append(toServer[via[r]], Frame("rpc", r))
            BY <4>2, <5>1, <6>1, <6>2, PutPipe
          <6> QED BY <6>1, <6>3
        <5>3. /\ Holds(toServer'[via[r]], "rpc", r)
              /\ OnlyAnswers(toServer[via[r]], r) => OnlyAnswers(toServer'[via[r]], r)
              /\ CloseIsBehind(toServer[via[r]], r) => CloseIsBehind(toServer'[via[r]], r)
          BY <5>1, <5>2, AppendPipe
        <5> QED BY <1>1, <2>1, <2>3, <3>1, <3>4, <5>3 DEF ResponseOK
      <4>3. CASE link[via[r]] # "up"
        <5>1. Frame("rpc", r) \in Frames
          BY <1>3 DEF Types
        <5>2. toServer'[via[r]] = toServer[via[r]]
          <6>1. via[r] \in Conns /\ toServer' = Put(toServer, via[r], Frame("rpc", r))
            BY <2>3, <3>1, <3>4
          <6> QED BY <1>0, <4>3, <5>1, <6>1, PutPipe
        <5> QED BY <1>1, <2>1, <2>3, <3>1, <3>4, <4>3, <5>2 DEF ResponseOK
      <4> QED BY <4>2, <4>3
    <3> QED BY <1>1, <2>2, <3>3, <3>4 DEF CallOK, ResponseOK
  <2>7. CASE CloseSession(r)
    <3>1. /\ toServer' = Put(toServer, bearer[r], Frame("close", r)) /\ UNCHANGED results
          /\ rpc[r] = "closing" /\ rpc'[r] = "leaving" /\ bearer' = bearer
      BY <1>0, <2>7 DEF CloseSession, GotoRpc
    <3>2. Frame("close", r) \in Frames /\ Frame("close", r).t = "close"
          /\ Frame("close", r) # Frame("rpc", r)
      BY <1>3 DEF Types, Frame
    <3>3. ASSUME NEW c \in Conns, Holds(toServer'[c], "rpc", r)
          PROVE  Holds(toServer[c], "rpc", r)
      <4>0. toServer[c] \in Seq(Frames)
            /\ (toServer'[c] = toServer[c]
                \/ toServer'[c] = Append(toServer[c], Frame("close", r)))
        BY <1>0, <3>1, <3>2, PutPipe
      <4>1. CASE toServer'[c] = toServer[c]
        BY <3>3, <4>1
      <4>2. CASE toServer'[c] = Append(toServer[c], Frame("close", r))
        <5>1. Holds(Append(toServer[c], Frame("close", r)), "rpc", r)
                <=> Holds(toServer[c], "rpc", r) \/ Frame("close", r) = Frame("rpc", r)
          BY <3>2, <4>0, AppendPipe
        <5> QED BY <3>2, <3>3, <4>2, <5>1
      <4> QED BY <4>0, <4>1, <4>2
    <3>4. ResultOK(r)'
      BY <1>1, <2>0, <3>1, <3>3 DEF CallOK, ResultOK
    <3>5. ASSUME pc[r] = "waitResponse" PROVE ResponseOK(r)'
      <4>1. CASE link[via[r]] = "up"
        <5>1. ch[r] # <<>> \/ Holds(toServer[via[r]], "rpc", r)
          BY <2>0, <3>1, <3>5, <4>1 DEF CallOK, ResponseOK
        <5>2. /\ toServer'[via[r]] = Append(toServer[via[r]], Frame("close", r))
              /\ toServer[via[r]] \in Seq(Frames)
          <6>1. via[r] \in Conns /\ toServer' = Put(toServer, via[r], Frame("close", r))
            BY <2>3, <3>1, <3>5
          <6> QED BY <1>0, <3>2, <4>1, <6>1, PutPipe
        <5>3. /\ OnlyAnswers(toServer[via[r]], r) => OnlyAnswers(toServer'[via[r]], r)
              /\ CloseIsBehind(toServer[via[r]], r) /\ Holds(toServer[via[r]], "rpc", r)
                   => CloseIsBehind(toServer'[via[r]], r)
          BY <3>2, <5>2, AppendPipe
        <5> QED BY <1>1, <2>1, <2>3, <3>1, <3>5, <5>1, <5>3 DEF ResponseOK
      <4>2. CASE link[via[r]] # "up"
        <5>1. toServer'[via[r]] = toServer[via[r]]
          <6>1. via[r] \in Conns /\ toServer' = Put(toServer, via[r], Frame("close", r))
            BY <2>3, <3>1, <3>5
          <6> QED BY <1>0, <3>2, <4>2, <6>1, PutPipe
        <5> QED BY <1>1, <2>1, <2>3, <3>1, <3>5, <5>1 DEF ResponseOK
      <4> QED BY <4>1, <4>2
    <3> QED BY <1>1, <2>2, <3>4, <3>5 DEF CallOK, ResponseOK
  <2> QED BY <2>4, <2>5, <2>6, <2>7 DEF HandleRpc
<1> QED BY <1>5, <1>6 DEF CallInv

\* The read loop gives a frame to its session.
LEMMA RouteKeepsCalls ==
    ASSUME IInv, NEW c \in Conns, Route(c)
    PROVE  CallInv'
<1>0. /\ toServer \in [Conns -> Seq(Frames)] /\ ch \in [Calls -> Seq(Types)]
      /\ \A k \in Calls : CallOK(k)
      /\ pending = {k \in Calls : pc[k] \in Holding}
  BY Types1 DEF IInv, CountInv, InflightAgrees
<1> DEFINE frame == Head(toServer[c])
<1>1. /\ UNCHANGED <<pc, via, outcome, results, link, rpc, bearer, toAgent>>
      /\ toServer[c] # <<>> /\ toServer' = [toServer EXCEPT ![c] = Tail(@)]
      /\ ch' = IF frame.sid \in pending /\ via[frame.sid] = c
                    /\ Len(ch[frame.sid]) < ChanSlots
               THEN [ch EXCEPT ![frame.sid] = Append(@, frame.t)] ELSE ch
  BY DEF Route, relayVars
<1>2. frame \in Frames /\ frame = Frame(frame.t, frame.sid)
  BY <1>0, <1>1, TailPipe DEF Frames, Frame
<1> SUFFICES ASSUME NEW k \in Calls PROVE CallOK(k)'
  BY DEF CallInv
<1>3. /\ \A d \in Conns : Less(toServer'[d], toServer[d], k)
      /\ \A d \in Conns : d # c => toServer'[d] = toServer[d]
      /\ toServer'[c] = Tail(toServer[c])
  BY <1>0, <1>1, TailPipes
<1>4. \A s : Kept(s, s, k) /\ Less(s, s, k)
  BY KeptSame DEF Kept
<1>5. /\ frame.sid = k => Mentions(toServer[c], k)
      /\ frame.sid = k /\ Once(toServer[c], k) => ~Mentions(toServer'[c], k)
      /\ \A t : frame = Frame(t, k) => Holds(toServer[c], t, k)
      /\ frame # Frame("rpc", k) => Kept(toServer'[c], toServer[c], k)
      /\ CloseIsBehind(toServer[c], k) => frame # Frame("close", k)
      /\ OnlyAnswers(toServer[c], k) /\ frame.sid = k => frame.t \in {"rpc", "close"}
  BY <1>0, <1>1, <1>3, TailPipe
<1>6. CASE frame.sid # k
  <2>1. ch'[k] = ch[k]
    BY <1>0, <1>1, <1>6
  <2>2. frame # Frame("rpc", k)
    BY <1>6 DEF Frame
  <2>3. \A d \in Conns : Kept(toServer'[d], toServer[d], k)
    BY <1>3, <1>4, <1>5, <2>2
  <2> QED BY <1>0, <1>1, <1>4, <2>1, <2>3, CallStays
<1>7. CASE frame.sid = k
  <2>0. CallOK(k) /\ frame = Frame(frame.t, k)
    BY <1>0, <1>2, <1>7
  <2>1. pc[k] \notin Silent \cup {"sending"} \/ via[k] # c
    BY <1>5, <1>7, <2>0 DEF CallOK, OpenOK
  <2>2. pc[k] \notin Silent
    BY <1>5, <1>7, <2>0 DEF CallOK, OpenOK
  <2>3. \/ ch'[k] = ch[k] /\ (k \notin pending \/ via[k] # c \/ Len(ch[k]) >= ChanSlots)
        \/ ch'[k] = Append(ch[k], frame.t) /\ via[k] = c
    BY <1>0, <1>1, <1>7, TunnelAssumption
  <2>4. /\ ch[k] \in Seq(Types) /\ frame.t \in Types /\ ChanSlots \in Nat /\ ChanSlots # 0
        /\ Len(ch[k]) \in Nat /\ (ch[k] = <<>> => Len(ch[k]) = 0)
    BY <1>0, <1>2, TunnelAssumption DEF Frames
  <2>5. /\ Append(ch[k], frame.t) # <<>>
        /\ ch[k] # <<>> => Head(Append(ch[k], frame.t)) = Head(ch[k])
        /\ ch[k] = <<>> => /\ Head(Append(ch[k], frame.t)) = frame.t
                           /\ Len(Append(ch[k], frame.t)) = 1
        /\ \A i \in DOMAIN Append(ch[k], frame.t) :
             (i \in DOMAIN ch[k] /\ Append(ch[k], frame.t)[i] = ch[k][i])
             \/ Append(ch[k], frame.t)[i] = frame.t
    BY <2>4, AppendChannel
  <2>6. ViaOK(k)' /\ OutcomeOK(k)' /\ AskOK(k)'
    BY <1>1, <2>0 DEF CallOK, ViaOK, OutcomeOK, AskOK
  <2>7. ResultOK(k)'
    <3>1. frame.t = "rpc" => k \in results
      BY <1>5, <2>0 DEF CallOK, ResultOK
    <3>2. (\E i \in DOMAIN ch'[k] : ch'[k][i] = "rpc") => k \in results
      BY <2>0, <2>3, <2>5, <3>1 DEF CallOK, ResultOK
    <3>3. \A d \in Conns : Holds(toServer'[d], "rpc", k) => k \in results
      BY <1>3, <2>0 DEF CallOK, ResultOK, Less, Types
    <3> QED BY <1>1, <2>0, <3>2, <3>3 DEF CallOK, ResultOK
  <2>8. OpenOK(k)'
    <3>1. CASE via[k] # c
      <4>1. ch'[k] = ch[k]
        BY <2>3, <3>1
      <4>2. pc[k] \in {"waitOpen", "sending"} => via[k] \in Conns
        BY <2>0 DEF CallOK, ViaOK, Holding
      <4> QED BY <1>1, <1>3, <2>0, <2>2, <3>1, <4>1, <4>2 DEF CallOK, OpenOK
    <3>2. CASE via[k] = c /\ pc[k] = "waitOpen"
      <4>1. /\ ch[k] = <<>> /\ ~Mentions(toServer'[c], k) /\ ~Mentions(toAgent[c], k)
            /\ Once(toAgent[c], k)
        BY <1>5, <1>7, <2>0, <3>2 DEF CallOK, OpenOK
      <4>2. Len(ch'[k]) <= 1
        <5>1. CASE ch'[k] = ch[k]
          BY <2>4, <4>1, <5>1
        <5>2. CASE ch'[k] = Append(ch[k], frame.t)
          BY <2>5, <4>1, <5>2
        <5> QED BY <2>3, <5>1, <5>2
      <4>3. Once(toServer'[c], k)
        BY <4>1 DEF Once, Mentions
      <4> QED BY <1>1, <3>2, <4>1, <4>2, <4>3 DEF OpenOK, Silent
    <3>3. CASE pc[k] \notin Asking
      BY <1>1, <3>3 DEF OpenOK, Asking
    <3> QED BY <2>1, <2>2, <3>1, <3>2, <3>3 DEF Asking
  <2>9. ASSUME pc[k] = "waitResponse" PROVE ResponseOK(k)'
    <3>0. via[k] \in Conns /\ k \in pending
      BY <1>0, <2>0, <2>9 DEF CallOK, ViaOK, Holding
    <3>1. CASE via[k] # c
      <4>1. ch'[k] = ch[k] /\ toServer'[via[k]] = toServer[via[k]]
        BY <1>3, <2>3, <3>0, <3>1
      <4> QED BY <1>1, <2>0, <4>1 DEF CallOK, ResponseOK
    <3>2. CASE via[k] = c
      <4>1. ch'[k] # <<>>
        BY <2>3, <2>4, <2>5, <3>0, <3>2
      <4>2. Head(ch'[k]) = "rpc"
        <5>1. ch[k] # <<>> => Head(ch[k]) = "rpc"
          BY <2>0, <2>9 DEF CallOK, ResponseOK
        <5>2. ch[k] = <<>> => frame.t = "rpc"
          BY <1>5, <1>7, <2>0, <2>9, <3>2 DEF CallOK, ResponseOK
        <5> QED BY <2>3, <2>4, <2>5, <4>1, <5>1, <5>2
      <4>3. /\ OnlyAnswers(toServer'[c], k)
            /\ Holds(toServer'[c], "close", k) => Holds(toServer[c], "close", k)
        BY <1>3, <2>0, <2>9, <3>2 DEF CallOK, ResponseOK, Less, Types
      <4> QED BY <1>1, <2>0, <2>9, <3>2, <4>1, <4>2, <4>3 DEF CallOK, ResponseOK
    <3> QED BY <3>1, <3>2
  <2> QED BY <1>1, <2>6, <2>7, <2>8, <2>9 DEF CallOK, ResponseOK
<1> QED BY <1>6, <1>7

LEMMA Unmentioned ==
    ASSUME NEW frames, NEW k, ~Mentions(frames, k)
    PROVE  /\ OnlyAnswers(frames, k) /\ CloseIsBehind(frames, k) /\ Once(frames, k)
           /\ \A t : ~Holds(frames, t, k)
  BY DEF Mentions, OnlyAnswers, CloseIsBehind, Once, Holds, Frame

\* HTTPHandler, on its way to its payload, and when it is over.
LEMMA HandlerKeepsCalls ==
    ASSUME IInv, NEW r \in Calls, HandleCall(r)
    PROVE  CallInv'
<1>0. /\ toAgent \in [Conns -> Seq(Frames)]
      /\ pc \in [Calls -> Holding \cup {"new", "located", "over"}]
      /\ via \in [Calls -> Conns \cup {NoConn}]
      /\ ch \in [Calls -> Seq(Types)]
      /\ outcome \in [Calls -> {"none", "answered", "empty", "failed"}]
      /\ \A k \in Calls : CallOK(k)
  BY Types1
<1>1. UNCHANGED <<results, rpc, bearer, link, toServer>>
  BY DEF HandleCall, Refuse, Locate, LimitExceeded, Admit, Open, OpenFails, WaitOpen, Opened,
     OpenRefused, OpenTimesOut, Send, SendFails, WaitResponse, Respond, ResponseTimesOut,
     CloseCall, Finish, Write, Quiet, Waited, relayVars, pipeVars
<1>2. PICK t \in Types : \/ UNCHANGED toAgent
                         \/ toAgent' = Put(toAgent, via[r], Frame(t, r))
  BY DEF HandleCall, Refuse, Locate, LimitExceeded, Admit, Open, OpenFails, WaitOpen, Opened,
     OpenRefused, OpenTimesOut, Send, SendFails, WaitResponse, Respond, ResponseTimesOut,
     CloseCall, Finish, Write, Quiet, Waited, pipeVars, Types
<1>3. \A type \in Types :
        Frame(type, r) \in Frames /\ Frame(type, r).sid = r /\ Frame(type, r).t = type
  BY DEF Frame, Frames
<1>4. ASSUME NEW k \in Calls, k # r PROVE CallOK(k)'
  <2>1. UNCHANGED <<pc[k], via[k], ch[k], outcome[k]>>
    <3>1. /\ \E to : pc' = [pc EXCEPT ![r] = to]
          /\ via' = via \/ \E c : via' = [via EXCEPT ![r] = c]
          /\ ch' = ch \/ \E types : ch' = [ch EXCEPT ![r] = types]
          /\ outcome' = outcome \/ \E what : outcome' = [outcome EXCEPT ![r] = what]
      BY DEF HandleCall, Refuse, Locate, LimitExceeded, Admit, Open, OpenFails, WaitOpen,
         Opened, OpenRefused, OpenTimesOut, Send, SendFails, WaitResponse, Respond,
         ResponseTimesOut, CloseCall, Finish, Write, Quiet, Waited, Goto, Tell, Take
    <3> QED BY <1>0, <1>4, <3>1
  <2>2. \A d \in Conns : Less(toAgent'[d], toAgent[d], k)
    <3>1. CASE UNCHANGED toAgent
      BY <3>1, KeptSame DEF Kept
    <3>2. CASE toAgent' = Put(toAgent, via[r], Frame(t, r))
      <4>1. Frame(t, r) \in Frames /\ Frame(t, r).sid # k
        BY <1>3, <1>4
      <4> QED BY <1>0, <3>2, <4>1, PutPipes DEF Kept
    <3> QED BY <1>2, <3>1, <3>2
  <2>3. \A d \in Conns : Kept(toServer'[d], toServer[d], k)
    BY <1>1, KeptSame
  <2> QED BY <1>0, <1>1, <2>1, <2>2, <2>3, CallStays
<1> SUFFICES CallOK(r)'
  BY <1>4 DEF CallInv
<1>5. CallOK(r)
  BY <1>0
<1>6. ASSUME UNCHANGED toAgent, pc'[r] \in Done,
             via'[r] \in Conns <=> pc'[r] # "over",
             via'[r] \in Conns => via'[r] = via[r],
             \A i \in DOMAIN ch'[r] : \E j \in DOMAIN ch[r] : ch'[r][i] = ch[r][j]
      PROVE  CallOK(r)'
  <2>1. (\E i \in DOMAIN ch'[r] : ch'[r][i] = "rpc") => r \in results
    BY <1>5, <1>6 DEF CallOK, ResultOK
  <2> QED BY <1>1, <1>5, <1>6, <2>1, CallEnds
<1>v. /\ via[r] \in Conns <=> pc[r] \in Holding \cup {"located"}
      /\ NoConn \notin Conns
  BY <1>5, McpRelayAssumption DEF CallOK, ViaOK
<1>t. ASSUME ch[r] # <<>>, ch' = [ch EXCEPT ![r] = Tail(@)]
      PROVE  \A i \in DOMAIN ch'[r] : \E j \in DOMAIN ch[r] : ch'[r][i] = ch[r][j]
  <2>1. ch'[r] = Tail(ch[r]) /\ ch[r] \in Seq(Types)
    BY <1>0, <1>t
  <2>2. \A i \in DOMAIN Tail(ch[r]) : i + 1 \in DOMAIN ch[r] /\ Tail(ch[r])[i] = ch[r][i + 1]
    BY <1>t, <2>1
  <2> QED BY <2>1, <2>2
<1>7. CASE Refuse(r) \/ LimitExceeded(r)
  <2>1. pc'[r] = "over" /\ via'[r] \notin Conns /\ UNCHANGED <<toAgent, ch>>
    BY <1>0, <1>7, <1>v DEF Refuse, LimitExceeded, Goto, Holding, pipeVars
  <2> QED BY <1>6, <2>1 DEF Done
<1>8. CASE OpenFails(r) \/ OpenTimesOut(r) \/ SendFails(r) \/ ResponseTimesOut(r)
  <2>1. /\ pc'[r] \in {"closing", "leaving"} /\ via'[r] = via[r] /\ via[r] \in Conns
        /\ UNCHANGED <<toAgent, ch>>
    BY <1>0, <1>8, <1>v DEF OpenFails, OpenTimesOut, SendFails, ResponseTimesOut, Goto,
       Waited, Quiet, Holding, pipeVars
  <2> QED BY <1>6, <2>1 DEF Done
<1>9. CASE OpenRefused(r) \/ Respond(r)
  <2>1. /\ pc'[r] \in {"closing", "leaving"} /\ via'[r] = via[r] /\ via[r] \in Conns
        /\ UNCHANGED toAgent /\ ch[r] # <<>> /\ ch' = [ch EXCEPT ![r] = Tail(@)]
    BY <1>0, <1>9, <1>v DEF OpenRefused, Respond, Goto, Quiet, Take, Holding, pipeVars
  <2> QED BY <1>6, <1>t, <2>1 DEF Done
<1>10. CASE Finish(r)
  <2>1. /\ pc'[r] = "over" /\ via'[r] = NoConn /\ UNCHANGED toAgent /\ ch'[r] = <<>>
    BY <1>0, <1>10 DEF Finish, Goto, pipeVars
  <2> QED BY <1>6, <1>v, <2>1 DEF Done
<1>w. ASSUME NEW type \in Types, toAgent' = Put(toAgent, via[r], Frame(type, r)),
             via[r] \in Conns
      PROVE  /\ \A c \in Conns : c # via[r] => toAgent'[c] = toAgent[c]
             /\ Mentions(toAgent'[via[r]], r) \/ toAgent'[via[r]] = toAgent[via[r]]
             /\ ~Mentions(toAgent[via[r]], r) => Once(toAgent'[via[r]], r)
             /\ \A s \in Types : s # type =>
                  (Holds(toAgent'[via[r]], s, r) <=> Holds(toAgent[via[r]], s, r))
             /\ ~Holds(toAgent[via[r]], type, r) => HoldsOnce(toAgent'[via[r]], type, r)
             /\ \A s \in Types : s # type /\ HoldsOnce(toAgent[via[r]], s, r)
                  => HoldsOnce(toAgent'[via[r]], s, r)
  <2> DEFINE c == via[r]
  <2>1. Frame(type, r) \in Frames /\ Frame(type, r).sid = r
        /\ \A s : s # type => Frame(type, r) # Frame(s, r)
    BY <1>3 DEF Frame
  <2>2. /\ toAgent[c] \in Seq(Frames)
        /\ toAgent'[c] = toAgent[c] \/ toAgent'[c] = Append(toAgent[c], Frame(type, r))
        /\ \A d \in Conns : d # c => toAgent'[d] = toAgent[d]
    <3> DEFINE frame == Frame(type, r)
    <3>1. frame \in Frames /\ toAgent \in [Conns -> Seq(Frames)]
      BY <1>0, <2>1
    <3>2. toAgent' = Put(toAgent, via[r], frame)
      BY <1>w
    <3> HIDE DEF frame
    <3>3. ASSUME NEW d \in Conns
          PROVE  /\ toAgent[d] \in Seq(Frames)
                 /\ \/ toAgent'[d] = toAgent[d]
                    \/ toAgent'[d] = Append(toAgent[d], frame) /\ d = via[r]
      BY <3>1, <3>2, PutPipe
    <3> QED BY <1>w, <3>3 DEF frame
  <2>3. CASE toAgent'[c] = toAgent[c]
    <3>1. /\ ~Mentions(toAgent[c], r) => Once(toAgent[c], r)
          /\ ~Holds(toAgent[c], type, r) => HoldsOnce(toAgent[c], type, r)
      BY DEF Mentions, Once, Holds, HoldsOnce
    <3> QED BY <2>2, <2>3, <3>1
  <2>4. CASE toAgent'[c] = Append(toAgent[c], Frame(type, r))
    <3> DEFINE more == Append(toAgent[c], Frame(type, r))
    <3>1. /\ ~Mentions(toAgent[c], r) => Once(more, r)
          /\ \A s : Holds(more, s, r) <=> Holds(toAgent[c], s, r) \/ Frame(type, r) = Frame(s, r)
          /\ \A s : ~Holds(toAgent[c], s, r) => HoldsOnce(more, s, r)
      <4>1. toAgent[c] \in Seq(Frames) /\ Frame(type, r) \in Frames
        BY <2>1, <2>2
      <4> QED BY <4>1, AppendPipe
    <3>2. Len(more) \in DOMAIN more /\ more[Len(more)] = Frame(type, r)
          /\ \A i \in DOMAIN more : i # Len(more) => i \in DOMAIN toAgent[c] /\ more[i] = toAgent[c][i]
      BY <2>1, <2>2
    <3> HIDE DEF more
    <3>3. Mentions(more, r)
      BY <2>1, <3>2 DEF Mentions
    <3>4. \A s \in Types : s # type /\ HoldsOnce(toAgent[c], s, r) => HoldsOnce(more, s, r)
      BY <2>1, <3>2 DEF HoldsOnce
    <3>5. toAgent'[c] = more
      BY <2>4 DEF more
    <3> QED BY <2>1, <2>2, <3>1, <3>3, <3>4, <3>5
  <2> QED BY <2>2, <2>3, <2>4
<1>11. CASE CloseCall(r)
  <2>1. /\ pc'[r] = "leaving" /\ via'[r] = via[r] /\ via[r] \in Conns /\ ch' = ch
        /\ toAgent' = Put(toAgent, via[r], Frame("close", r))
    BY <1>0, <1>11, <1>v DEF CloseCall, Write, Goto, Holding
  <2>2. "close" \in Types /\ "rpc" \in Types
    BY DEF Types
  <2>3. \A c \in Conns : /\ Holds(toAgent'[c], "rpc", r) => Holds(toAgent[c], "rpc", r)
                         /\ HoldsOnce(toAgent[c], "rpc", r) => HoldsOnce(toAgent'[c], "rpc", r)
    BY <1>w, <2>1, <2>2
  <2>4. (\E i \in DOMAIN ch'[r] : ch'[r][i] = "rpc") => r \in results
    BY <1>5, <2>1 DEF CallOK, ResultOK
  <2> QED BY <1>1, <1>5, <2>1, <2>3, <2>4, CallEnds DEF Done
<1>12. CASE Locate(r)
  <2>1. PICK c \in registered : via' = [via EXCEPT ![r] = c]
    BY <1>12 DEF Locate
  <2>2. c \in Conns /\ link[c] \notin {"free", "dialed"}
    BY <2>1 DEF IInv, RegistryInv, FoundIffServed, TypeOK
  <2>3. /\ pc[r] = "new" /\ pc'[r] = "located" /\ via'[r] = c
        /\ UNCHANGED <<toAgent, ch, outcome>>
    BY <1>0, <1>12, <2>1 DEF Locate, Goto, pipeVars
  <2>4. ViaOK(r)' /\ OutcomeOK(r)' /\ OpenOK(r)' /\ AskOK(r)' /\ ResultOK(r)' /\ ResponseOK(r)'
    BY <1>1, <1>5, <2>2, <2>3 DEF CallOK, ViaOK, OutcomeOK, OpenOK, AskOK, ResultOK,
       ResponseOK, Silent, Asking
  <2> QED BY <2>4 DEF CallOK
<1>13. CASE Admit(r)
  <2>1. /\ pc[r] = "located" /\ pc'[r] = "opening" /\ UNCHANGED <<toAgent, ch, outcome, via>>
    BY <1>0, <1>13 DEF Admit, Goto, pipeVars
  <2>2. ViaOK(r)' /\ OutcomeOK(r)' /\ OpenOK(r)' /\ AskOK(r)' /\ ResultOK(r)' /\ ResponseOK(r)'
    BY <1>1, <1>5, <2>1 DEF CallOK, ViaOK, OutcomeOK, OpenOK, AskOK, ResultOK, ResponseOK,
       Silent, Asking, Holding
  <2> QED BY <2>2 DEF CallOK
<1>14. CASE Open(r)
  <2>1. /\ pc[r] = "opening" /\ pc'[r] = "waitOpen" /\ UNCHANGED <<ch, outcome, via>>
        /\ toAgent' = Put(toAgent, via[r], Frame("open", r)) /\ via[r] \in Conns
    BY <1>0, <1>14, <1>v DEF Open, Write, Goto, Holding
  <2>2. /\ ch[r] = <<>> /\ rpc[r] = "none" /\ outcome[r] = "none"
        /\ \A c \in Conns : /\ ~Mentions(toAgent[c], r) /\ ~Mentions(toServer[c], r)
                            /\ ~Holds(toAgent[c], "rpc", r)
    BY <1>5, <2>1 DEF CallOK, OpenOK, AskOK, OutcomeOK, Silent, Asking
  <2>3. "open" \in Types /\ "rpc" \in Types
    BY DEF Types
  <2>4. /\ Once(toAgent'[via[r]], r)
        /\ \A c \in Conns : ~Holds(toAgent'[c], "rpc", r)
    BY <1>w, <2>1, <2>2, <2>3
  <2>5. ViaOK(r)' /\ OutcomeOK(r)' /\ AskOK(r)' /\ ResultOK(r)' /\ ResponseOK(r)'
    BY <1>1, <1>5, <2>1, <2>2, <2>4 DEF CallOK, ViaOK, OutcomeOK, AskOK, ResultOK,
       ResponseOK, Asking, Holding
  <2>6. Once(toServer[via[r]], r) /\ Len(ch[r]) <= 1
    BY <2>1, <2>2, Unmentioned
  <2>7. OpenOK(r)'
    BY <1>1, <2>1, <2>2, <2>4, <2>6 DEF OpenOK, Silent
  <2> QED BY <2>5, <2>7 DEF CallOK
<1>15. CASE Opened(r)
  <2>1. /\ pc[r] = "waitOpen" /\ pc'[r] = "sending" /\ UNCHANGED <<toAgent, outcome, via>>
        /\ ch[r] # <<>> /\ ch'[r] = Tail(ch[r]) /\ ch[r] \in Seq(Types)
    BY <1>0, <1>15 DEF Opened, Take, Quiet, Goto, pipeVars
  <2>2. /\ Len(ch[r]) <= 1
        /\ ~Mentions(toAgent[via[r]], r) /\ ~Mentions(toServer[via[r]], r)
    BY <1>5, <2>1 DEF CallOK, OpenOK
  <2>3. ch'[r] = <<>>
    BY <2>1, <2>2
  <2>4. OpenOK(r)'
    BY <1>1, <2>1, <2>2, <2>3 DEF OpenOK, Silent
  <2>5. ViaOK(r)' /\ OutcomeOK(r)' /\ AskOK(r)' /\ ResultOK(r)' /\ ResponseOK(r)'
    BY <1>1, <1>5, <2>1, <2>3 DEF CallOK, ViaOK, OutcomeOK, AskOK, ResultOK, ResponseOK,
       Asking, Holding
  <2> QED BY <2>4, <2>5 DEF CallOK
<1>16. CASE Send(r)
  <2>1. /\ pc[r] = "sending" /\ pc'[r] = "waitResponse" /\ UNCHANGED <<ch, outcome, via>>
        /\ toAgent' = Put(toAgent, via[r], Frame("rpc", r)) /\ via[r] \in Conns
    BY <1>0, <1>16, <1>v DEF Send, Write, Goto, Holding
  <2>2. /\ ch[r] = <<>> /\ rpc[r] = "none" /\ outcome[r] = "none"
        /\ ~Mentions(toAgent[via[r]], r) /\ ~Mentions(toServer[via[r]], r)
        /\ \A c \in Conns : ~Holds(toAgent[c], "rpc", r)
    BY <1>5, <2>1 DEF CallOK, OpenOK, AskOK, OutcomeOK, Asking
  <2>3. "open" \in Types /\ "rpc" \in Types
    BY DEF Types
  <2>4. /\ \A c \in Conns : Holds(toAgent'[c], "rpc", r) => c = via[r]
        /\ HoldsOnce(toAgent'[via[r]], "rpc", r) /\ ~Holds(toAgent'[via[r]], "open", r)
    <3>1. ~Holds(toAgent[via[r]], "open", r)
      BY <2>2, Unmentioned
    <3> QED BY <1>w, <2>1, <2>2, <2>3, <3>1
  <2>5. ViaOK(r)' /\ OutcomeOK(r)' /\ ResultOK(r)' /\ OpenOK(r)'
    BY <1>1, <1>5, <2>1, <2>2 DEF CallOK, ViaOK, OutcomeOK, ResultOK, OpenOK, Silent,
       Asking, Holding
  <2>6. AskOK(r)'
    BY <1>1, <2>1, <2>2, <2>4 DEF AskOK, Asking, Silent
  <2>7. ResponseOK(r)'
    <3>1. /\ OnlyAnswers(toServer[via[r]], r) /\ CloseIsBehind(toServer[via[r]], r)
          /\ ~Holds(toServer[via[r]], "close", r)
      BY <2>2, Unmentioned
    <3> QED BY <1>1, <2>1, <2>2, <2>4, <3>1 DEF ResponseOK, Active
  <2> QED BY <2>5, <2>6, <2>7 DEF CallOK
<1> QED
  BY <1>7, <1>8, <1>9, <1>10, <1>11, <1>12, <1>13, <1>14, <1>15, <1>16 DEF HandleCall,
     WaitOpen, WaitResponse

LEMMA CallStep == IInv /\ [Next]_vars => CallInv'
<1> SUFFICES ASSUME IInv, [Next]_vars PROVE CallInv'
  OBVIOUS
<1>1. CASE UNCHANGED vars
  <2>1. UNCHANGED <<pc, via, ch, outcome, results, rpc, bearer, link, toAgent, toServer>>
    BY <1>1 DEF vars, serverVars
  <2>2. ASSUME NEW k \in Calls PROVE CallOK(k)'
    <3>1. CallOK(k) /\ \A s : Kept(s, s, k) /\ Less(s, s, k)
      BY KeptSame, Types1 DEF Kept
    <3> QED BY <2>1, <3>1, CallStays
  <2> QED BY <2>2 DEF CallInv
<1>2. ASSUME StartDrain PROVE CallInv'
  <2>1. UNCHANGED <<pc, via, ch, outcome, results, rpc, bearer, link, toAgent, toServer>>
    BY <1>2 DEF StartDrain, callVars, relayVars, pipeVars
  <2>2. ASSUME NEW k \in Calls PROVE CallOK(k)'
    <3>1. CallOK(k) /\ \A s : Kept(s, s, k) /\ Less(s, s, k)
      BY KeptSame, Types1 DEF Kept
    <3> QED BY <2>1, <3>1, CallStays
  <2> QED BY <2>2 DEF CallInv
<1> QED BY <1>1, <1>2, ConnectionKeepsCalls, RelayKeepsCalls, GoroutineKeepsCalls,
        RouteKeepsCalls, HandlerKeepsCalls DEF Next, RelayStep

-----------------------------------------------------------------------------
\* The registry: who registers under an id found nobody there, and who is read
\* was registered, so an entry that is removed by id is the remover's own.
LEMMA RegistryStep == IInv /\ [Next]_vars => RegistryInv'
<1> SUFFICES ASSUME IInv, [Next]_vars PROVE RegistryInv'
  OBVIOUS
<1>0. /\ link \in [Conns -> {"free", "dialed", "up", "lost", "closed"}]
      /\ id \in [Conns -> Ids] /\ registered \subseteq Conns
      /\ reader \in [Conns -> {"none", "acking", "reading", "gone"}]
      /\ \A c \in Conns : c \in registered <=> reader[c] \in {"acking", "reading"}
      /\ \A c \in Conns : link[c] \in {"free", "dialed"} => reader[c] = "none"
      /\ \A c, d \in registered : id[c] = id[d] => c = d
  BY DEF IInv, TypeOK, RelayTypeOK, RegistryInv, FoundIffServed
<1>1. ASSUME NEW c \in Conns, Connect(c) PROVE RegistryInv'
  <2>1. /\ link[c] = "free" /\ link' = [link EXCEPT ![c] = "dialed"]
        /\ \E i : id' = [id EXCEPT ![c] = i]
        /\ UNCHANGED <<registered, reader>>
    BY <1>1 DEF Connect, Dial, serverVars
  <2>2. c \notin registered
    BY <1>0, <2>1
  <2> QED BY <1>0, <2>1, <2>2 DEF RegistryInv, FoundIffServed
<1>2. ASSUME NEW c \in Conns, Register(c) PROVE RegistryInv'
  <2>1. PICK i : /\ link[c] = "dialed" /\ id' = [id EXCEPT ![c] = i]
                 /\ IF Admits(c, i)
                    THEN /\ link' = [link EXCEPT ![c] = "up"]
                         /\ registered' = {d \in registered : id[d] # i} \cup {c}
                         /\ reader' = [reader EXCEPT ![c] = "acking"]
                    ELSE /\ link' = [link EXCEPT ![c] = "closed"]
                         /\ UNCHANGED <<registered, reader>>
    BY <1>2 DEF Register
  <2>2. c \notin registered
    BY <1>0, <2>1
  <2>3. CASE Admits(c, i)
    <3>1. registered' = registered \cup {c} /\ \A d \in registered : id[d] # i
      BY <2>1, <2>3 DEF Admits
    <3> QED BY <1>0, <2>1, <2>2, <2>3, <3>1 DEF RegistryInv, FoundIffServed
  <2>4. CASE ~Admits(c, i)
    BY <1>0, <2>1, <2>2, <2>4 DEF RegistryInv, FoundIffServed
  <2> QED BY <2>3, <2>4
<1>3. ASSUME NEW c \in Conns, Acknowledge(c) PROVE RegistryInv'
  <2>1. reader[c] = "acking" /\ reader' = [reader EXCEPT ![c] = "reading"]
        /\ UNCHANGED <<link, id, registered>>
    BY <1>3 DEF Acknowledge, relayVars
  <2> QED BY <1>0, <2>1 DEF RegistryInv, FoundIffServed
<1>4. ASSUME NEW c \in Conns, EndReader(c) PROVE RegistryInv'
  <2>1. /\ reader[c] = "reading" /\ reader' = [reader EXCEPT ![c] = "gone"]
        /\ registered' = {d \in registered : id[d] # id[c]}
        /\ UNCHANGED <<link, id>> /\ link[c] = "closed"
    BY <1>4 DEF EndReader, relayVars
  <2>2. c \in registered /\ registered' = registered \ {c}
    BY <1>0, <2>1
  <2> QED BY <1>0, <2>1, <2>2 DEF RegistryInv, FoundIffServed
<1>5. ASSUME NEW c \in Conns,
             DeclareDead(c) \/ ((Crash(c) \/ Break(c)) /\ UNCHANGED serverVars)
      PROVE  RegistryInv'
  <2>1. /\ UNCHANGED <<id, registered, reader>>
        /\ \E l \in {"lost", "closed"} :
             link' = [link EXCEPT ![c] = l] \/ link' = [link EXCEPT ![c] = IF @ = "closed" THEN @ ELSE l]
    BY <1>5 DEF DeclareDead, Crash, Break, relayVars, serverVars
  <2>2. \A d \in Conns : link'[d] \in {"free", "dialed"} => link[d] \in {"free", "dialed"}
    BY <1>0, <2>1
  <2> QED BY <1>0, <2>1, <2>2 DEF RegistryInv, FoundIffServed
<1>6. ASSUME NEW c \in Conns, Recycle(c) PROVE RegistryInv'
  <2>1. /\ reader[c] \in {"none", "gone"} /\ reader' = [reader EXCEPT ![c] = "none"]
        /\ link' = [link EXCEPT ![c] = "free"] /\ id' = [id EXCEPT ![c] = NoId]
        /\ UNCHANGED registered
    BY <1>6 DEF Recycle
  <2>2. c \notin registered
    BY <1>0, <2>1
  <2> QED BY <1>0, <2>1, <2>2 DEF RegistryInv, FoundIffServed
<1>7. CASE UNCHANGED <<link, id, registered, reader>>
  BY <1>0, <1>7 DEF RegistryInv, FoundIffServed
<1>8. CASE StartDrain
  BY <1>7, <1>8 DEF StartDrain, relayVars
<1>9. ASSUME NEW c \in Conns, Route(c) PROVE RegistryInv'
  BY <1>7, <1>9 DEF Route, relayVars
<1>10. ASSUME NEW c \in Conns, (ReadAck(c) \/ Hangup(c) \/ Serve(c)) /\ UNCHANGED serverVars
       PROVE  RegistryInv'
  BY <1>7, <1>10 DEF ReadAck, Hangup, Serve, ReceiveOpen, ReceiveRpc, ReceiveClose,
     ReceiveOther, Receive, serverVars
<1>11. ASSUME NEW k \in Calls, HandleRpc(k) /\ UNCHANGED serverVars PROVE RegistryInv'
  BY <1>7, <1>11 DEF HandleRpc, StoreCancel, CallReturns, CutCall, Reply, CloseSession,
     Leave, serverVars
<1>12. ASSUME NEW k \in Calls, HandleCall(k) PROVE RegistryInv'
  <2>1. UNCHANGED <<link, id, registered, reader>>
    BY <1>12 DEF HandleCall, Refuse, Locate, LimitExceeded, Admit, Open, OpenFails, WaitOpen,
       Opened, OpenRefused, OpenTimesOut, Send, SendFails, WaitResponse, Respond,
       ResponseTimesOut, CloseCall, Finish, Write, Quiet, Waited, relayVars
  <2> QED BY <1>7, <2>1
<1> QED BY <1>1, <1>2, <1>3, <1>4, <1>5, <1>6, <1>7, <1>8, <1>9, <1>10, <1>11, <1>12
        DEF Next, RelayStep, vars, serverVars

-----------------------------------------------------------------------------
\* The slots: one is taken by Admit and given back by the deferred function.
LEMMA CountStep == IInv /\ [Next]_vars => CountInv'
<1> SUFFICES ASSUME IInv, [Next]_vars PROVE CountInv'
  OBVIOUS
<1> DEFINE Through(c) == {k \in pending : via[k] = c}
<1>0. /\ pc \in [Calls -> Holding \cup {"new", "located", "over"}]
      /\ via \in [Calls -> Conns \cup {NoConn}] /\ inflight \in [Conns -> Int]
      /\ pending = {k \in Calls : pc[k] \in Holding} /\ IsFiniteSet(pending)
      /\ \A c \in Conns : inflight[c] = Cardinality(Through(c))
      /\ \A c \in Conns : Limit > 0 => inflight[c] <= Limit
      /\ Limit \in Nat /\ NoConn \notin Conns
  BY TunnelAssumption, McpRelayAssumption DEF IInv, TypeOK, CountInv, InflightAgrees
<1>1. ASSUME NEW c
      PROVE  \A r : /\ r \notin Through(c) =>
                         Cardinality(Through(c) \cup {r}) = Cardinality(Through(c)) + 1
                    /\ r \in Through(c) =>
                         Cardinality(Through(c) \ {r}) = Cardinality(Through(c)) - 1
  <2>1. IsFiniteSet(Through(c))
    BY <1>0, FS_Subset
  <2> HIDE DEF Through
  <2> QED BY <2>1, FS_AddElement, FS_RemoveElement
<1>2. CASE UNCHANGED <<pc, via, inflight, pending>>
  BY <1>0, <1>2 DEF CountInv, InflightAgrees
<1>3. ASSUME NEW r \in Calls, UNCHANGED <<inflight, pending>>,
             \E to \in Holding \cup {"located", "over"} : pc' = [pc EXCEPT ![r] = to],
             pc'[r] \in Holding <=> pc[r] \in Holding,
             \/ r \notin pending /\ \E c : via' = [via EXCEPT ![r] = c]
             \/ UNCHANGED via
      PROVE  CountInv'
  <2>1. \A k \in pending : via'[k] = via[k]
    BY <1>0, <1>3
  <2>2. \A c \in Conns : {k \in pending' : via'[k] = c} = Through(c)
    BY <1>3, <2>1
  <2>3. pending' = {k \in Calls : pc'[k] \in Holding}
    BY <1>0, <1>3
  <2> QED BY <1>0, <1>3, <2>2, <2>3 DEF CountInv, InflightAgrees
<1>4. ASSUME NEW r \in Calls, Admit(r) PROVE CountInv'
  <2>1. /\ pc[r] = "located" /\ pc' = [pc EXCEPT ![r] = "opening"] /\ UNCHANGED via
        /\ inflight' = [inflight EXCEPT ![via[r]] = @ + 1] /\ pending' = pending \cup {r}
        /\ Limit = 0 \/ inflight[via[r]] < Limit
    BY <1>4 DEF Admit, Goto, HasRoom
  <2>2. via[r] \in Conns /\ r \notin pending
    BY <1>0, <2>1, Types1 DEF CallOK, ViaOK, Holding
  <2>3. pending' = {k \in Calls : pc'[k] \in Holding} /\ IsFiniteSet(pending')
    <3>1. \A k \in Calls : pc'[k] \in Holding <=> pc[k] \in Holding \/ k = r
      BY <1>0, <2>1 DEF Holding
    <3>2. pending = {k \in Calls : pc[k] \in Holding} /\ IsFiniteSet(pending)
      BY <1>0
    <3>3. IsFiniteSet(pending \cup {r})
      BY <3>2, FS_AddElement
    <3>4. pending \cup {r} = {k \in Calls : pc'[k] \in Holding}
      BY <3>1, <3>2
    <3> QED BY <2>1, <3>3, <3>4
  <2>4. ASSUME NEW c \in Conns
        PROVE  /\ inflight'[c] = Cardinality({k \in pending' : via'[k] = c})
               /\ Limit > 0 => inflight'[c] <= Limit
    <3>1. CASE c = via[r]
      <4>1. {k \in pending' : via'[k] = c} = Through(c) \cup {r} /\ r \notin Through(c)
        BY <2>1, <2>2, <3>1
      <4>2. Cardinality(Through(c) \cup {r}) = Cardinality(Through(c)) + 1
        BY <1>1, <4>1
      <4> QED BY <1>0, <2>1, <2>2, <3>1, <4>1, <4>2
    <3>2. CASE c # via[r]
      <4>1. {k \in pending' : via'[k] = c} = Through(c)
        BY <2>1, <3>2
      <4> QED BY <1>0, <2>1, <3>2, <4>1
    <3> QED BY <3>1, <3>2
  <2> QED BY <2>3, <2>4 DEF CountInv, InflightAgrees
<1>5. ASSUME NEW r \in Calls, Finish(r) PROVE CountInv'
  <2>1. /\ pc[r] = "leaving" /\ pc' = [pc EXCEPT ![r] = "over"]
        /\ via' = [via EXCEPT ![r] = NoConn] /\ pending' = pending \ {r}
        /\ inflight' = [inflight EXCEPT ![via[r]] = @ - 1]
    BY <1>5 DEF Finish, Goto
  <2>2. via[r] \in Conns /\ r \in pending
    BY <1>0, <2>1, Types1 DEF CallOK, ViaOK, Holding
  <2>3. pending' = {k \in Calls : pc'[k] \in Holding} /\ IsFiniteSet(pending')
    <3>1. \A k \in Calls : pc'[k] \in Holding <=> pc[k] \in Holding /\ k # r
      BY <1>0, <2>1 DEF Holding
    <3> QED BY <1>0, <2>1, <3>1, FS_RemoveElement
  <2>4. ASSUME NEW c \in Conns
        PROVE  /\ inflight'[c] = Cardinality({k \in pending' : via'[k] = c})
               /\ Limit > 0 => inflight'[c] <= Limit
    <3>0. {k \in pending' : via'[k] = c} = Through(c) \ {r}
      BY <1>0, <2>1
    <3>1. CASE c = via[r]
      <4>1. r \in Through(c)
        BY <2>2, <3>1
      <4>2. Cardinality(Through(c) \ {r}) = Cardinality(Through(c)) - 1
        BY <1>1, <4>1
      <4> QED BY <1>0, <2>1, <2>2, <3>0, <3>1, <4>2
    <3>2. CASE c # via[r]
      <4>1. Through(c) \ {r} = Through(c)
        BY <3>2
      <4> QED BY <1>0, <2>1, <3>0, <3>2, <4>1
    <3> QED BY <3>1, <3>2
  <2> QED BY <2>3, <2>4 DEF CountInv, InflightAgrees
<1>6. ASSUME NEW r \in Calls, Refuse(r) \/ Locate(r) \/ LimitExceeded(r) PROVE CountInv'
  <2>1. /\ pc[r] \in {"new", "located"} /\ UNCHANGED <<inflight, pending>>
        /\ \E to \in {"located", "over"} : pc' = [pc EXCEPT ![r] = to]
        /\ UNCHANGED via \/ \E c : via' = [via EXCEPT ![r] = c]
    BY <1>6 DEF Refuse, Locate, LimitExceeded, Goto
  <2>2. r \notin pending /\ pc'[r] \notin Holding /\ pc[r] \notin Holding
    BY <1>0, <2>1 DEF Holding
  <2> QED BY <1>3, <2>1, <2>2
<1>7. ASSUME NEW r \in Calls,
             \/ Open(r) \/ OpenFails(r) \/ WaitOpen(r) \/ Send(r) \/ SendFails(r)
             \/ WaitResponse(r) \/ CloseCall(r)
      PROVE  CountInv'
  <2>1. /\ pc[r] \in Holding /\ UNCHANGED <<inflight, pending, via>>
        /\ \E to \in Holding : pc' = [pc EXCEPT ![r] = to]
    BY <1>7 DEF Open, OpenFails, WaitOpen, Opened, OpenRefused, OpenTimesOut, Send, SendFails,
       WaitResponse, Respond, ResponseTimesOut, CloseCall, Write, Quiet, Waited, Goto, Holding
  <2>2. pc'[r] \in Holding
    BY <1>0, <2>1
  <2> QED BY <1>3, <2>1, <2>2
<1>8. ASSUME NEW c \in Conns,
             \/ Connect(c) \/ Register(c) \/ Acknowledge(c) \/ Route(c) \/ EndReader(c)
             \/ DeclareDead(c) \/ Recycle(c) \/ RelayStep(c)
      PROVE  CountInv'
  <2>1. UNCHANGED <<pc, via, inflight, pending>>
    BY <1>8 DEF Connect, Register, Acknowledge, Route, EndReader, DeclareDead, Recycle,
       RelayStep, callVars, serverVars
  <2> QED BY <1>2, <2>1
<1> QED BY <1>2, <1>4, <1>5, <1>6, <1>7, <1>8 DEF Next, StartDrain, HandleCall, vars,
        serverVars, callVars

-----------------------------------------------------------------------------
\* Types.
LEMMA TypeStep == IInv /\ [Next]_vars => TypeOK'
<1> SUFFICES ASSUME IInv, [Next]_vars PROVE TypeOK'
  OBVIOUS
<1>0. TypeOK /\ RelayTypeOK
  BY DEF IInv, TypeOK
<1>s. ASSUME UNCHANGED serverVars, RelayTypeOK' PROVE TypeOK'
  BY <1>0, <1>s DEF TypeOK, serverVars
<1>p. ASSUME NEW pipe \in [Conns -> Seq(Frames)], NEW c, NEW t \in Types,
             NEW k \in Calls \cup {NoCall}
      PROVE  Put(pipe, c, Frame(t, k)) \in [Conns -> Seq(Frames)]
  <2>1. Frame(t, k) \in Frames
    BY DEF Frame, Frames
  <2> QED BY <2>1, PutPipes
<1>t. ASSUME NEW pipe \in [Conns -> Seq(Frames)], NEW c \in Conns, pipe[c] # <<>>
      PROVE  /\ [pipe EXCEPT ![c] = Tail(@)] \in [Conns -> Seq(Frames)]
             /\ Head(pipe[c]) \in Frames
  <2>1. pipe[c] \in Seq(Frames)
    OBVIOUS
  <2>2. Tail(pipe[c]) \in Seq(Frames) /\ Head(pipe[c]) \in Frames
    BY <1>t, <2>1
  <2> QED BY <2>2
<1>d. Dialer \in [Conns -> Relays] /\ Types = {"ack", "open", "open.ok", "open.fail", "rpc", "close"}
  BY McpRelayAssumption DEF Types
<1>1. ASSUME NEW c \in Conns, Connect(c) PROVE TypeOK'
  <2>1. RelayTypeOK'
    BY <1>0, <1>1, <1>d DEF Connect, Dial, RelayTypeOK, pipeVars
  <2> QED BY <1>1, <1>s, <2>1 DEF Connect
<1>2. ASSUME NEW c \in Conns, Register(c) PROVE TypeOK'
  <2>1. PICK i \in Ids :
          /\ id' = [id EXCEPT ![c] = i]
          /\ \/ /\ link' = [link EXCEPT ![c] = "up"]
                /\ registered' = {d \in registered : id[d] # i} \cup {c}
                /\ reader' = [reader EXCEPT ![c] = "acking"]
             \/ link' = [link EXCEPT ![c] = "closed"] /\ UNCHANGED <<registered, reader>>
    <3>1. PICK i \in IF id[c] = NoId THEN FreshIds ELSE {id[c]} :
            /\ id' = [id EXCEPT ![c] = i]
            /\ IF Admits(c, i)
               THEN /\ link' = [link EXCEPT ![c] = "up"]
                    /\ registered' = {d \in registered : id[d] # i} \cup {c}
                    /\ reader' = [reader EXCEPT ![c] = "acking"]
               ELSE link' = [link EXCEPT ![c] = "closed"] /\ UNCHANGED <<registered, reader>>
      BY <1>2 DEF Register
    <3>2. id[c] \in Ids
      BY <1>0 DEF RelayTypeOK
    <3>3. i \in Ids
      BY <3>1, <3>2 DEF FreshIds, Ids
    <3>4. CASE Admits(c, i)
      BY <3>1, <3>3, <3>4
    <3>5. CASE ~Admits(c, i)
      BY <3>1, <3>3, <3>5
    <3> QED BY <3>4, <3>5
  <2>2. UNCHANGED <<pipeVars, at, greeted, knownAs, rpc, bearer, cancels, canceled, results,
                    breaks, draining, callVars>>
    BY <1>2 DEF Register
  <2>3. RelayTypeOK'
    BY <1>0, <2>1, <2>2 DEF RelayTypeOK, pipeVars
  <2> QED BY <1>0, <2>1, <2>2, <2>3 DEF TypeOK, callVars
<1>3. ASSUME NEW c \in Conns, Acknowledge(c) PROVE TypeOK'
  <2>1. toAgent' \in [Conns -> Seq(Frames)]
    BY <1>0, <1>3, <1>d, <1>p DEF Acknowledge, RelayTypeOK
  <2>2. RelayTypeOK'
    BY <1>0, <1>3, <2>1 DEF Acknowledge, RelayTypeOK, relayVars
  <2> QED BY <1>0, <1>3, <2>2 DEF Acknowledge, TypeOK, callVars
<1>4. ASSUME NEW c \in Conns, Route(c) PROVE TypeOK'
  <2>1. toServer' \in [Conns -> Seq(Frames)] /\ Head(toServer[c]).t \in Types
    BY <1>0, <1>4, <1>t DEF Route, RelayTypeOK, Frames
  <2>2. RelayTypeOK'
    BY <1>0, <1>4, <2>1 DEF Route, RelayTypeOK, relayVars
  <2>3. ch' \in [Calls -> Seq(Types)]
    <3> DEFINE t == Head(toServer[c]).t
               k == Head(toServer[c]).sid
    <3>0. ch \in [Calls -> Seq(Types)] /\ pending \subseteq Calls /\ t \in Types
      BY <1>0, <2>1 DEF TypeOK
    <3>r. ch' = IF k \in pending /\ via[k] = c /\ Len(ch[k]) < ChanSlots
                THEN [ch EXCEPT ![k] = Append(@, t)] ELSE ch
      BY <1>4 DEF Route
    <3>1. (UNCHANGED ch) \/ (k \in pending /\ ch' = [ch EXCEPT ![k] = Append(@, t)])
      <4>1. CASE k \in pending /\ via[k] = c /\ Len(ch[k]) < ChanSlots
        BY <3>r, <4>1
      <4>2. CASE ~(k \in pending /\ via[k] = c /\ Len(ch[k]) < ChanSlots)
        BY <3>r, <4>2
      <4> QED BY <4>1, <4>2
    <3> HIDE DEF t, k
    <3>2. CASE k \in pending /\ ch' = [ch EXCEPT ![k] = Append(@, t)]
      <4>1. Append(ch[k], t) \in Seq(Types)
        BY <3>0, <3>2, AppendChannel
      <4> QED BY <3>0, <3>2, <4>1
    <3> QED BY <3>0, <3>1, <3>2
  <2> QED BY <1>0, <1>4, <2>2, <2>3 DEF Route, TypeOK
<1>5. ASSUME NEW c \in Conns, EndReader(c) PROVE TypeOK'
  <2>1. toServer' \in [Conns -> Seq(Frames)]
    BY <1>0, <1>5 DEF EndReader, RelayTypeOK
  <2>2. RelayTypeOK'
    BY <1>0, <1>5, <2>1 DEF EndReader, RelayTypeOK, relayVars
  <2> QED BY <1>0, <1>5, <2>2 DEF EndReader, TypeOK, callVars
<1>6. ASSUME NEW c \in Conns, DeclareDead(c) \/ Recycle(c) PROVE TypeOK'
  <2>1. RelayTypeOK'
    BY <1>0, <1>6 DEF DeclareDead, Recycle, RelayTypeOK, pipeVars, relayVars, Ids
  <2> QED BY <1>0, <1>6, <2>1 DEF DeclareDead, Recycle, TypeOK, serverVars, callVars
<1>7. ASSUME NEW c \in Conns, ReadAck(c), UNCHANGED serverVars PROVE TypeOK'
  <2>1. toAgent' \in [Conns -> Seq(Frames)]
    BY <1>0, <1>7, <1>t DEF ReadAck, RelayTypeOK
  <2> QED BY <1>0, <1>7, <1>d, <1>s, <2>1 DEF ReadAck, RelayTypeOK, Ids
<1>8. ASSUME NEW c \in Conns, Hangup(c), UNCHANGED serverVars PROVE TypeOK'
  <2>1. toAgent' \in [Conns -> Seq(Frames)]
    BY <1>0, <1>8 DEF Hangup, RelayTypeOK
  <2> QED BY <1>0, <1>8, <1>d, <1>s, <2>1 DEF Hangup, RelayTypeOK, RpcsOf
<1>9. ASSUME NEW c \in Conns, Crash(c), UNCHANGED serverVars PROVE TypeOK'
  <2>1. toAgent' \in [Conns -> Seq(Frames)]
    BY <1>0, <1>9 DEF Crash, RelayTypeOK
  <2>2. /\ rpc' \in [Calls -> Active \cup {"none", "over"}]
        /\ bearer' \in [Calls -> Conns \cup {NoConn}]
        /\ link' \in [Conns -> {"free", "dialed", "up", "lost", "closed"}]
        /\ cancels' \subseteq Calls /\ canceled' \subseteq Calls
    BY <1>0, <1>9 DEF Crash, RelayTypeOK
  <2>3. breaks' \in 0 .. MaxBreaks
    BY <1>0, <1>9, McpRelayAssumption DEF Crash, RelayTypeOK
  <2>4. ConfiguredId(Dialer[c]) \in Ids
    BY <1>d DEF ConfiguredId, Ids
  <2> QED BY <1>0, <1>9, <1>d, <1>s, <2>1, <2>2, <2>3, <2>4 DEF Crash, RelayTypeOK
<1>10. ASSUME NEW c \in Conns, Break(c), UNCHANGED serverVars PROVE TypeOK'
  <2>1. breaks' \in 0 .. MaxBreaks
    BY <1>0, <1>10, McpRelayAssumption DEF Break, RelayTypeOK
  <2> QED BY <1>0, <1>10, <1>s, <2>1 DEF Break, RelayTypeOK, pipeVars, relayVars
<1>11. ASSUME NEW c \in Conns, Serve(c), UNCHANGED serverVars PROVE TypeOK'
  <2>0. /\ toAgent[c] # <<>> /\ toAgent' = [toAgent EXCEPT ![c] = Tail(@)]
        /\ UNCHANGED <<link, at, greeted, knownAs, id, results, breaks>>
    BY <1>11 DEF Serve, ReceiveOpen, ReceiveRpc, ReceiveClose, ReceiveOther, Receive
  <2>1. toAgent' \in [Conns -> Seq(Frames)] /\ Head(toAgent[c]) \in Frames
    <3>1. toAgent \in [Conns -> Seq(Frames)]
      BY <1>0 DEF RelayTypeOK
    <3> QED BY <1>t, <2>0, <3>1
  <2>2. toServer' \in [Conns -> Seq(Frames)]
    <3>1. CASE ReceiveOpen(c)
      <4>1. Head(toAgent[c]).sid \in Calls \cup {NoCall}
        BY <2>1 DEF Frames
      <4> QED BY <1>0, <1>d, <1>p, <3>1, <4>1 DEF ReceiveOpen, RelayTypeOK
    <3> QED BY <1>0, <1>11, <3>1 DEF Serve, ReceiveRpc, ReceiveClose, ReceiveOther, RelayTypeOK
  <2>3. /\ rpc' \in [Calls -> Active \cup {"none", "over"}]
        /\ bearer' \in [Calls -> Conns \cup {NoConn}]
        /\ cancels' \subseteq Calls /\ canceled' \subseteq Calls
    <3>0. /\ rpc \in [Calls -> Active \cup {"none", "over"}]
          /\ bearer \in [Calls -> Conns \cup {NoConn}]
          /\ cancels \subseteq Calls /\ canceled \subseteq Calls
      BY <1>0 DEF RelayTypeOK
    <3>1. CASE ReceiveOpen(c) \/ ReceiveOther(c)
      BY <3>0, <3>1 DEF ReceiveOpen, ReceiveOther
    <3>2. CASE ReceiveRpc(c)
      BY <3>0, <3>2 DEF ReceiveRpc, Active
    <3>3. CASE ReceiveClose(c)
      BY <3>0, <3>3 DEF ReceiveClose
    <3> QED BY <1>11, <3>1, <3>2, <3>3 DEF Serve
  <2> QED BY <1>0, <1>11, <1>s, <2>0, <2>1, <2>2, <2>3 DEF RelayTypeOK
<1>12. ASSUME NEW k \in Calls, HandleRpc(k), UNCHANGED serverVars PROVE TypeOK'
  <2>1. toServer' \in [Conns -> Seq(Frames)]
    <3>1. \/ UNCHANGED toServer
          \/ \E t \in {"rpc", "close"} : toServer' = Put(toServer, bearer[k], Frame(t, k))
      BY <1>12 DEF HandleRpc, StoreCancel, CallReturns, CutCall, Reply, CloseSession, Leave,
         pipeVars
    <3>2. toServer \in [Conns -> Seq(Frames)]
      BY <1>0 DEF RelayTypeOK
    <3>3. ASSUME NEW t \in {"rpc", "close"}, toServer' = Put(toServer, bearer[k], Frame(t, k))
          PROVE  toServer' \in [Conns -> Seq(Frames)]
      <4>1. t \in Types
        BY <1>d
      <4>2. Put(toServer, bearer[k], Frame(t, k)) \in [Conns -> Seq(Frames)]
        BY <1>p, <3>2, <4>1
      <4> QED BY <3>3, <4>2
    <3> QED BY <3>1, <3>2, <3>3
  <2>2. rpc' \in [Calls -> Active \cup {"none", "over"}]
    BY <1>0, <1>12 DEF HandleRpc, StoreCancel, CallReturns, CutCall, Reply,
       CloseSession, Leave, GotoRpc, RelayTypeOK, Active
  <2>3. bearer' \in [Calls -> Conns \cup {NoConn}]
    BY <1>0, <1>12 DEF HandleRpc, StoreCancel, CallReturns, CutCall, Reply, CloseSession,
       Leave, RelayTypeOK
  <2>4. /\ cancels' \subseteq Calls /\ canceled' \subseteq Calls /\ results' \subseteq Calls
        /\ UNCHANGED <<link, toAgent, at, greeted, knownAs, id, breaks>>
    BY <1>0, <1>12 DEF HandleRpc, StoreCancel, CallReturns, CutCall, Reply, CloseSession,
       Leave, RelayTypeOK, pipeVars
  <2> QED BY <1>0, <1>12, <1>s, <2>1, <2>2, <2>3, <2>4 DEF RelayTypeOK
<1>13. ASSUME NEW k \in Calls, HandleCall(k) PROVE TypeOK'
  <2>1. toAgent' \in [Conns -> Seq(Frames)]
    <3>1. \/ UNCHANGED toAgent
          \/ \E t \in {"open", "rpc", "close"} : toAgent' = Put(toAgent, via[k], Frame(t, k))
      BY <1>13 DEF HandleCall, Refuse, Locate, LimitExceeded, Admit, Open, OpenFails, WaitOpen,
         Opened, OpenRefused, OpenTimesOut, Send, SendFails, WaitResponse, Respond,
         ResponseTimesOut, CloseCall, Finish, Write, Quiet, Waited, pipeVars
    <3>2. toAgent \in [Conns -> Seq(Frames)]
      BY <1>0 DEF RelayTypeOK
    <3>3. ASSUME NEW t \in {"open", "rpc", "close"}, toAgent' = Put(toAgent, via[k], Frame(t, k))
          PROVE  toAgent' \in [Conns -> Seq(Frames)]
      <4>1. t \in Types
        BY <1>d
      <4>2. Put(toAgent, via[k], Frame(t, k)) \in [Conns -> Seq(Frames)]
        BY <1>p, <3>2, <4>1
      <4> QED BY <3>3, <4>2
    <3> QED BY <3>1, <3>2, <3>3
  <2>2. UNCHANGED <<link, toServer, relayVars, breaks, registered, reader, draining>>
    BY <1>13 DEF HandleCall, Refuse, Locate, LimitExceeded, Admit, Open,
       OpenFails, WaitOpen, Opened, OpenRefused, OpenTimesOut, Send, SendFails, WaitResponse,
       Respond, ResponseTimesOut, CloseCall, Finish, Write, Quiet, Waited, pipeVars
  <2>3. RelayTypeOK'
    BY <1>0, <2>1, <2>2 DEF RelayTypeOK, relayVars
  <2>4. pc' \in [Calls -> Holding \cup {"new", "located", "over"}]
    <3>1. \E to \in Holding \cup {"located", "over"} : pc' = [pc EXCEPT ![k] = to]
      BY <1>13 DEF HandleCall, Refuse, Locate, LimitExceeded, Admit, Open, OpenFails, WaitOpen,
         Opened, OpenRefused, OpenTimesOut, Send, SendFails, WaitResponse, Respond,
         ResponseTimesOut, CloseCall, Finish, Goto, Holding
    <3> QED BY <1>0, <3>1 DEF TypeOK
  <2>5. via' \in [Calls -> Conns \cup {NoConn}]
    <3>1. UNCHANGED via \/ \E c \in Conns \cup {NoConn} : via' = [via EXCEPT ![k] = c]
      BY <1>0, <1>13 DEF HandleCall, Refuse, Locate, LimitExceeded, Admit, Open, OpenFails,
         WaitOpen, Opened, OpenRefused, OpenTimesOut, Send, SendFails, WaitResponse, Respond,
         ResponseTimesOut, CloseCall, Finish, Write, Quiet, Waited, TypeOK
    <3> QED BY <1>0, <3>1 DEF TypeOK
  <2>6. inflight' \in [Conns -> Int] /\ pending' \subseteq Calls
    BY <1>0, <1>13 DEF HandleCall, Refuse, Locate, LimitExceeded, Admit, Open, OpenFails,
       WaitOpen, Opened, OpenRefused, OpenTimesOut, Send, SendFails, WaitResponse, Respond,
       ResponseTimesOut, CloseCall, Finish, Write, Quiet, Waited, TypeOK
  <2>7. ch' \in [Calls -> Seq(Types)]
    <3>0. ch \in [Calls -> Seq(Types)]
      BY <1>0 DEF TypeOK
    <3>1. \/ UNCHANGED ch \/ ch' = [ch EXCEPT ![k] = <<>>]
          \/ ch[k] # <<>> /\ ch' = [ch EXCEPT ![k] = Tail(@)]
      BY <1>13 DEF HandleCall, Refuse, Locate, LimitExceeded, Admit, Open, OpenFails,
         WaitOpen, Opened, OpenRefused, OpenTimesOut, Send, SendFails, WaitResponse, Respond,
         ResponseTimesOut, CloseCall, Finish, Write, Quiet, Waited, Take
    <3>2. ch[k] # <<>> => Tail(ch[k]) \in Seq(Types)
      BY <3>0
    <3>3. CASE UNCHANGED ch
      BY <3>0, <3>3
    <3>4. CASE ch' = [ch EXCEPT ![k] = <<>>]
      BY <3>0, <3>4
    <3>5. CASE ch[k] # <<>> /\ ch' = [ch EXCEPT ![k] = Tail(@)]
      BY <3>0, <3>2, <3>5
    <3> QED BY <3>1, <3>3, <3>4, <3>5
  <2>8. outcome' \in [Calls -> {"none", "answered", "empty", "failed"}]
    <3>1. \/ UNCHANGED outcome
          \/ \E what \in {"answered", "empty", "failed"} : outcome' = [outcome EXCEPT ![k] = what]
      BY <1>13 DEF HandleCall, Refuse, Locate, LimitExceeded, Admit, Open, OpenFails,
         WaitOpen, Opened, OpenRefused, OpenTimesOut, Send, SendFails, WaitResponse, Respond,
         ResponseTimesOut, CloseCall, Finish, Write, Quiet, Waited, Tell
    <3> QED BY <1>0, <3>1 DEF TypeOK
  <2> QED BY <1>0, <2>2, <2>3, <2>4, <2>5, <2>6, <2>7, <2>8 DEF TypeOK
<1>14. CASE StartDrain
  BY <1>0, <1>14 DEF StartDrain, TypeOK, RelayTypeOK, relayVars, pipeVars, callVars
<1>15. CASE UNCHANGED vars
  <2>1. RelayTypeOK'
    BY <1>0, <1>15 DEF RelayTypeOK, vars
  <2> QED BY <1>15, <1>s, <2>1 DEF vars
<1> QED BY <1>1, <1>2, <1>3, <1>4, <1>5, <1>6, <1>7, <1>8, <1>9, <1>10, <1>11, <1>12,
        <1>13, <1>14, <1>15 DEF Next, RelayStep

-----------------------------------------------------------------------------
LEMMA InitIInv == Init => IInv
<1> SUFFICES ASSUME Init PROVE IInv
  OBVIOUS
<1>a. /\ NoConn \notin Conns /\ MaxBreaks \in Nat
      /\ \A a \in Relays : ConfiguredId(a) \in Ids
  BY McpRelayAssumption DEF ConfiguredId, Ids
<1>1. RelayTypeOK
  BY <1>a DEF Init, RelayInit, RelayTypeOK, Ids
<1>2. TypeOK
  <2>1. ch \in [Calls -> Seq(Types)]
    BY DEF Init
  <2>2. inflight \in [Conns -> Int] /\ via \in [Calls -> Conns \cup {NoConn}]
    BY DEF Init
  <2>3. /\ reader \in [Conns -> {"none", "acking", "reading", "gone"}]
        /\ pc \in [Calls -> Holding \cup {"new", "located", "over"}]
        /\ outcome \in [Calls -> {"none", "answered", "empty", "failed"}]
    BY DEF Init
  <2>4. registered \subseteq Conns /\ draining \in BOOLEAN /\ pending \subseteq Calls
    BY DEF Init
  <2> QED BY <1>1, <2>1, <2>2, <2>3, <2>4 DEF TypeOK
<1>3. RegistryInv
  BY DEF Init, RelayInit, RegistryInv, FoundIffServed
<1>4. CountInv
  <2>1. pending = {k \in Calls : pc[k] \in Holding}
    BY DEF Init, Holding
  <2>2. \A c \in Conns : {k \in pending : via[k] = c} = {}
    BY DEF Init
  <2>3. \A c \in Conns : inflight[c] = 0
    BY DEF Init
  <2>4. Limit \in Nat
    BY TunnelAssumption
  <2>5. IsFiniteSet(pending)
    BY FS_EmptySet DEF Init
  <2> QED BY <2>1, <2>2, <2>3, <2>4, <2>5, FS_EmptySet DEF CountInv, InflightAgrees
<1>5. ASSUME NEW k \in Calls PROVE CallOK(k)
  <2>1. /\ pc[k] = "new" /\ via[k] = NoConn /\ ch[k] = <<>> /\ outcome[k] = "none"
        /\ rpc[k] = "none" /\ results = {}
        /\ \A c \in Conns : toAgent[c] = <<>> /\ toServer[c] = <<>>
    BY DEF Init, RelayInit
  <2>2. \A c \in Conns : \A t : /\ ~Mentions(toAgent[c], k) /\ ~Mentions(toServer[c], k)
                                /\ ~Holds(toAgent[c], t, k) /\ ~Holds(toServer[c], t, k)
    BY <2>1, EmptyPipe
  <2>3. ViaOK(k) /\ OpenOK(k) /\ AskOK(k)
    BY <1>a, <2>1, <2>2 DEF ViaOK, OpenOK, AskOK, Holding
  <2>4. ResultOK(k) /\ ResponseOK(k) /\ OutcomeOK(k)
    BY <2>1, <2>2 DEF ResultOK, ResponseOK, OutcomeOK
  <2> QED BY <2>3, <2>4 DEF CallOK
<1> QED BY <1>2, <1>3, <1>4, <1>5 DEF IInv, CallInv

LEMMA IInvStep == IInv /\ [Next]_vars => IInv'
BY TypeStep, RegistryStep, CountStep, CallStep DEF IInv, CallInv

THEOREM Invariant == Spec => []IInv
<1>1. IInv /\ [Next]_vars => IInv'
  BY IInvStep
<1> QED BY <1>1, InitIInv, PTL DEF Spec

\* Every variable has its type.
THEOREM TypeCorrect == Spec => []TypeOK
BY Invariant, PTL DEF IInv

\* Whatever breaks and whoever gives up, the count that the limit is checked
\* against is the number of calls that hold the relay, and the limit holds
\* (HTTPHandler).
THEOREM SlotsAreCounted == Spec => []InflightAgrees
BY Invariant, PTL DEF IInv, CountInv

\* A relay can be found exactly while its read loop runs, although connections
\* of one relay overlap and loops remove by id (WSHandler, onClose).
THEOREM RelaysAreFoundIffServed == Spec => []FoundIffServed
BY Invariant, PTL DEF IInv, RegistryInv

-----------------------------------------------------------------------------
\* The tunnel implements RemoteCall: every step is one of its steps or changes
\* nothing that it speaks of.
LEMMA RefineInit == Init => RC!Init
BY DEF Init, RelayInit, RC!Init

LEMMA RefineStep == IInv /\ [Next]_vars => [RC!Next]_(RC!vars)
<1> SUFFICES ASSUME IInv, [Next]_vars PROVE [RC!Next]_(RC!vars)
  OBVIOUS
<1> DEFINE Asked == {k \in Calls : rpc[k] # "none"}
<1>0. /\ TypeOK /\ RelayTypeOK
      /\ \A k \in Calls : CallOK(k)
  BY DEF IInv, TypeOK, CallInv
<1>s. ASSUME UNCHANGED <<results, outcome>>,
             \A k \in Calls : rpc'[k] = "none" <=> rpc[k] = "none"
      PROVE  UNCHANGED RC!vars
  <2>1. Asked' = Asked
    BY <1>s
  <2> QED BY <1>s, <2>1 DEF RC!vars
<1>u. ASSUME UNCHANGED <<rpc, results, outcome>> PROVE UNCHANGED RC!vars
  BY <1>s, <1>u
<1>1. ASSUME NEW c \in Conns,
             \/ Connect(c) \/ Register(c) \/ Acknowledge(c) \/ Route(c)
             \/ EndReader(c) \/ DeclareDead(c) \/ Recycle(c)
      PROVE  UNCHANGED RC!vars
  BY <1>1, <1>u DEF Connect, Dial, Register, Acknowledge, Route, EndReader, DeclareDead,
     Recycle, relayVars, callVars, serverVars
<1>2. ASSUME NEW c \in Conns, ReadAck(c) \/ Hangup(c) \/ Break(c), UNCHANGED serverVars
      PROVE  UNCHANGED RC!vars
  BY <1>2, <1>u DEF ReadAck, Hangup, Break, relayVars, serverVars
<1>3. ASSUME NEW c \in Conns, Crash(c), UNCHANGED serverVars PROVE UNCHANGED RC!vars
  <2>1. \A k \in Calls : rpc'[k] = "none" <=> rpc[k] = "none"
    BY <1>3 DEF Crash, RpcsOf, Active
  <2> QED BY <1>3, <1>s, <2>1 DEF Crash, serverVars
<1>4. ASSUME NEW c \in Conns, Serve(c), UNCHANGED serverVars PROVE [RC!Next]_(RC!vars)
  <2>1. CASE ReceiveOpen(c) \/ ReceiveClose(c) \/ ReceiveOther(c)
    BY <1>4, <1>u, <2>1 DEF ReceiveOpen, ReceiveClose, ReceiveOther, Receive, serverVars
  <2>2. CASE ReceiveRpc(c)
    <3> DEFINE frame == Head(toAgent[c])
    <3>0. PICK k : k = frame.sid
      OBVIOUS
    <3>1. /\ toAgent[c] # <<>> /\ frame.t = "rpc"
          /\ rpc' = [rpc EXCEPT ![k] = "spawned"]
          /\ UNCHANGED <<results, outcome>>
      BY <1>4, <2>2, <3>0 DEF ReceiveRpc, Receive, serverVars
    <3>2. toAgent[c] \in Seq(Frames) /\ rpc \in [Calls -> Active \cup {"none", "over"}]
      BY <1>0 DEF RelayTypeOK
    <3>3. frame \in Frames /\ (frame = Frame("rpc", k) => Holds(toAgent[c], "rpc", k))
      BY <3>1, <3>2, TailPipe
    <3>4. frame = Frame("rpc", k)
      BY <3>0, <3>1, <3>3 DEF Frames, Frame
    <3>5. Holds(toAgent[c], "rpc", k)
      BY <3>3, <3>4
    <3> HIDE DEF frame
    <3>6. CASE k \notin Calls
      <4>1. UNCHANGED rpc
        BY <3>1, <3>2, <3>6
      <4> QED BY <1>u, <3>1, <4>1
    <3>7. CASE k \in Calls
      <4>1. rpc[k] = "none"
        BY <1>0, <3>5, <3>7 DEF CallOK, AskOK
      <4>2. Asked' = Asked \cup {k} /\ k \notin Asked
        BY <3>1, <3>2, <3>7, <4>1
      <4>3. RC!Ask(k)
        BY <3>1, <4>2 DEF RC!Ask
      <4> QED BY <3>7, <4>3 DEF RC!Next
    <3> QED BY <3>6, <3>7
  <2> QED BY <1>4, <2>1, <2>2 DEF Serve
<1>5. ASSUME NEW k \in Calls, HandleRpc(k), UNCHANGED serverVars PROVE [RC!Next]_(RC!vars)
  <2>0. rpc \in [Calls -> Active \cup {"none", "over"}]
    BY <1>0 DEF RelayTypeOK
  <2>1. \A l \in Calls : rpc'[l] = "none" <=> rpc[l] = "none"
    <3>1. \E to \in Active \cup {"over"} : rpc' = [rpc EXCEPT ![k] = to] /\ rpc[k] # "none"
      BY <1>5 DEF HandleRpc, StoreCancel, CallReturns, CutCall, Reply, CloseSession, Leave,
         GotoRpc, Active
    <3> QED BY <2>0, <3>1 DEF Active
  <2>2. CASE CallReturns(k)
    <3>1. /\ rpc[k] = "calling" /\ results' = results \cup {k} /\ UNCHANGED outcome
      BY <1>5, <2>2 DEF CallReturns, GotoRpc, serverVars
    <3>2. k \notin results
      BY <1>0, <3>1 DEF CallOK, ResultOK
    <3>3. Asked' = Asked /\ k \in Asked
      BY <2>1, <3>1
    <3>4. RC!Return(k)
      BY <3>1, <3>2, <3>3 DEF RC!Return
    <3> QED BY <3>4 DEF RC!Next
  <2>3. CASE ~CallReturns(k)
    BY <1>5, <1>s, <2>1, <2>3 DEF HandleRpc, StoreCancel, CutCall, Reply, CloseSession, Leave,
       serverVars
  <2> QED BY <2>2, <2>3
<1>6. ASSUME NEW k \in Calls, HandleCall(k) PROVE [RC!Next]_(RC!vars)
  <2>1. UNCHANGED <<rpc, results>>
    BY <1>6 DEF HandleCall, Refuse, Locate, LimitExceeded, Admit, Open, OpenFails, WaitOpen,
       Opened, OpenRefused, OpenTimesOut, Send, SendFails, WaitResponse, Respond,
       ResponseTimesOut, CloseCall, Finish, Write, Quiet, Waited, relayVars
  <2>2. \/ UNCHANGED outcome
        \/ outcome' = [outcome EXCEPT ![k] = "failed"]
           /\ pc[k] \in Asking \cup {"waitResponse"}
        \/ Respond(k)
    BY <1>6 DEF HandleCall, Refuse, Locate, LimitExceeded, Admit, Open, OpenFails, WaitOpen,
       Opened, OpenRefused, OpenTimesOut, Send, SendFails, WaitResponse,
       ResponseTimesOut, CloseCall, Finish, Goto, Tell, Asking, Silent
  <2>3. Asked' = Asked
    BY <2>1
  <2>4. CASE UNCHANGED outcome
    BY <1>u, <2>1, <2>4
  <2>5. ASSUME outcome' = [outcome EXCEPT ![k] = "failed"],
               pc[k] \in Asking \cup {"waitResponse"}
        PROVE  [RC!Next]_(RC!vars)
    <3>1. outcome[k] = "none"
      BY <1>0, <2>5 DEF CallOK, OutcomeOK
    <3>2. RC!Fail(k)
      BY <2>1, <2>3, <2>5, <3>1 DEF RC!Fail
    <3> QED BY <3>2 DEF RC!Next
  <2>6. CASE Respond(k)
    <3>1. pc[k] = "waitResponse" /\ ch[k] # <<>>
      BY <2>6 DEF Respond, Goto, Take
    <3>2. Head(ch[k]) = "rpc"
      BY <1>0, <3>1 DEF CallOK, ResponseOK
    <3>3. \/ outcome' = [outcome EXCEPT ![k] = "answered"]
          \/ outcome' = [outcome EXCEPT ![k] = "failed"]
      BY <2>6, <3>2 DEF Respond, Tell
    <3>4. ch[k] \in Seq(Types)
      BY <1>0 DEF TypeOK
    <3>5. 1 \in DOMAIN ch[k] /\ ch[k][1] = "rpc"
      BY <3>1, <3>2, <3>4
    <3>6. k \in results /\ outcome[k] = "none"
      BY <1>0, <3>1, <3>5 DEF CallOK, ResultOK, OutcomeOK
    <3>7. CASE outcome' = [outcome EXCEPT ![k] = "answered"]
      <4>1. RC!Answer(k)
        BY <2>1, <2>3, <3>6, <3>7 DEF RC!Answer
      <4> QED BY <4>1 DEF RC!Next
    <3> QED BY <2>5, <3>1, <3>3, <3>7
  <2> QED BY <2>2, <2>4, <2>5, <2>6
<1>7. CASE StartDrain
  BY <1>7, <1>u DEF StartDrain, relayVars, callVars
<1>8. CASE UNCHANGED vars
  BY <1>8, <1>u DEF vars, serverVars
<1> QED BY <1>1, <1>2, <1>3, <1>4, <1>5, <1>6, <1>7, <1>8 DEF Next, RelayStep

\* A call is told the result that the provider returned for its own session, or
\* a failure, once, whatever is broken, late or overtaken on the way
\* (WaitOpen, WaitResponse, RelayClient.Run, handleRPC).
THEOREM TunnelImplementsCall == Spec => ImplementsCall
<1>1. Init => RC!Init
  BY RefineInit
<1>2. IInv /\ [Next]_vars => [RC!Next]_(RC!vars)
  BY RefineStep
<1> QED BY <1>1, <1>2, Invariant, PTL DEF Spec, ImplementsCall, RC!Spec

=============================================================================

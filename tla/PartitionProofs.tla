--------------------------- MODULE PartitionProofs ---------------------------
(***************************************************************************)
(* What TLAPS proves about Partition, for any number of workers, whatever  *)
(* their batch sizes and loads, and inputs of any size.                    *)
(***************************************************************************)
EXTENDS Partition, FiniteSetTheorems, WellFoundedInduction, TLAPS

(* Functions that are defined by recursion over a finite interval.         *)

\* A set of naturals has a least element: what induction over the naturals
\* rests on.
LEMMA LeastElement ==
    ASSUME NEW T \in SUBSET Nat, T # {}
    PROVE  \E n \in T : \A m \in T : n <= m
<1>1. \E n \in T : \A m \in T : ~ (<<m, n>> \in OpToRel(<, Nat))
  BY NatLessThanWellFounded, WFMin
<1>2. PICK n \in T : \A m \in T : ~ (<<m, n>> \in OpToRel(<, Nat))
  BY <1>1
<1>3. \A m \in T : ~ (m < n)
  BY <1>2 DEF OpToRel
<1> QED BY <1>3

\* F is the value of f at 0, and G takes an index and the value before it to
\* the value there.
Solves(f, n, F, G) == f = [i \in 0 .. n |-> IF i = 0 THEN F ELSE G[<<i, f[i - 1]>>]]

\* Such a function exists.
LEMMA RecursionExists ==
    ASSUME NEW n \in Nat, NEW S, NEW F \in S, NEW G \in [(1 .. n) \X S -> S]
    PROVE  \E f \in [0 .. n -> S] : Solves(f, n, F, G)
<1> DEFINE T == {m \in 0 .. n : ~ \E f \in [0 .. m -> S] : Solves(f, m, F, G)}
<1>1. SUFFICES ASSUME T # {} PROVE FALSE
  <2>1. n \in 0 .. n
    OBVIOUS
  <2> QED BY <2>1 DEF Solves
<1>2. PICK m \in T : \A k \in T : m <= k
  <2>1. T \in SUBSET Nat
    OBVIOUS
  <2> HIDE DEF T
  <2> QED BY <1>1, <2>1, LeastElement
<1>3. CASE m = 0
  <2>1. [i \in 0 .. 0 |-> F] \in [0 .. 0 -> S] /\ Solves([i \in 0 .. 0 |-> F], 0, F, G)
    BY DEF Solves
  <2> QED BY <1>2, <1>3, <2>1
<1>4. CASE m # 0
  <2>1. m \in 1 .. n /\ m - 1 \in 0 .. n /\ ~ (m <= m - 1)
    BY <1>2, <1>4
  <2>2. PICK g \in [0 .. m - 1 -> S] : Solves(g, m - 1, F, G)
    BY <1>2, <2>1
  <2> DEFINE f == [i \in 0 .. m |-> IF i < m THEN g[i] ELSE G[<<m, g[m - 1]>>]]
  <2>3. g[m - 1] \in S /\ G[<<m, g[m - 1]>>] \in S
    BY <2>1
  <2>4. f \in [0 .. m -> S]
    BY <2>1, <2>3
  <2>5. \A i \in 0 .. m - 1 : g[i] = IF i = 0 THEN F ELSE G[<<i, g[i - 1]>>]
    BY <2>2 DEF Solves
  <2>6. ASSUME NEW i \in 0 .. m
        PROVE  f[i] = IF i = 0 THEN F ELSE G[<<i, f[i - 1]>>]
    <3>1. CASE i = m
      <4>1. f[i] = G[<<m, g[m - 1]>>] /\ f[m - 1] = g[m - 1] /\ i # 0
        BY <2>1, <3>1
      <4> HIDE DEF f
      <4> QED BY <3>1, <4>1
    <3>2. CASE i # m
      <4>1. i \in 0 .. m - 1 /\ f[i] = g[i]
        BY <2>1, <3>2
      <4>2. i # 0 => i - 1 \in 0 .. m /\ f[i - 1] = g[i - 1]
        BY <2>1, <3>2
      <4> QED BY <2>5, <4>1, <4>2
    <3> QED BY <3>1, <3>2
  <2>7. Solves(f, m, F, G)
    <3>1. f = [i \in 0 .. m |-> f[i]]
      OBVIOUS
    <3> HIDE DEF f
    <3> QED BY <2>6, <3>1 DEF Solves
  <2> QED BY <1>2, <2>4, <2>7
<1> QED BY <1>3, <1>4

-----------------------------------------------------------------------------
(* How the input is cut.                                                   *)

LEMMA WeightType ==
    ASSUME size \in Nat \ {0}, NEW o \in Seq(Workers), NEW i \in 1 .. Len(o)
    PROVE  Weight(o, i) \in Nat \ {0}
<1>1. o[i] \in Workers
  OBVIOUS
<1>2. PreferredBatchSize[o[i]] \in Nat
  BY <1>1, PartitionAssumption
<1> QED BY <1>2 DEF Weight

LEMMA WeightFromType ==
    ASSUME size \in Nat \ {0}, NEW o \in Seq(Workers), NEW i \in 1 .. Len(o)
    PROVE  WeightFrom(o, i) \in Nat \ {0}
<1> DEFINE n == Len(o)
           IsSum(f) == f = [k \in 0 .. n |->
                               IF k = 0 THEN 0 ELSE f[k - 1] + Weight(o, n + 1 - k)]
           Behind == CHOOSE f : IsSum(f)
           G == [p \in (1 .. n) \X Nat |-> p[2] + Weight(o, n + 1 - p[1])]
<1>1. n \in Nat /\ \A k \in 1 .. n : Weight(o, n + 1 - k) \in Nat \ {0}
  <2>1. n \in Nat
    OBVIOUS
  <2>2. ASSUME NEW k \in 1 .. n PROVE Weight(o, n + 1 - k) \in Nat \ {0}
    <3>1. n + 1 - k \in 1 .. Len(o)
      BY <2>1
    <3> HIDE DEF n
    <3> QED BY <3>1, WeightType
  <2> QED BY <2>1, <2>2
<1>2. WeightFrom(o, i) = Behind[n + 1 - i]
  BY DEF WeightFrom
<1> HIDE DEF n
<1>3. \E f : f \in [0 .. n -> Nat] /\ IsSum(f)
  <2>1. G \in [(1 .. n) \X Nat -> Nat]
    BY <1>1
  <2>2. \A k \in 0 .. n, x \in Nat : k # 0 => G[<<k, x>>] = x + Weight(o, n + 1 - k)
    OBVIOUS
  <2> HIDE DEF G
  <2>3. PICK f \in [0 .. n -> Nat] :
          f = [k \in 0 .. n |-> IF k = 0 THEN 0 ELSE G[<<k, f[k - 1]>>]]
    <3>1. 0 \in Nat
      OBVIOUS
    <3>2. PICK f \in [0 .. n -> Nat] : Solves(f, n, 0, G)
      BY <1>1, <2>1, <3>1, RecursionExists
    <3> QED BY <3>2 DEF Solves
  <2>4. \A k \in 0 .. n :
          f[k] = IF k = 0 THEN 0 ELSE f[k - 1] + Weight(o, n + 1 - k)
    <3> TAKE k \in 0 .. n
    <3>1. f[k] = IF k = 0 THEN 0 ELSE G[<<k, f[k - 1]>>]
      BY <2>3
    <3>2. k # 0 => f[k - 1] \in Nat
      BY <1>1
    <3>3. CASE k = 0
      BY <3>1, <3>3
    <3>4. CASE k # 0
      BY <2>2, <3>1, <3>2, <3>4
    <3> QED BY <3>3, <3>4
  <2>5. f = [k \in 0 .. n |-> f[k]]
    OBVIOUS
  <2>6. IsSum(f)
    BY <2>4, <2>5
  <2> QED BY <2>6
<1>4. IsSum(Behind)
  BY <1>3
<1> HIDE DEF Behind
<1>5. \A k \in 0 .. n :
        Behind[k] = IF k = 0 THEN 0 ELSE Behind[k - 1] + Weight(o, n + 1 - k)
  BY <1>4
<1> HIDE DEF IsSum
<1>6. \A k \in 0 .. n : Behind[k] \in Nat
  <2> DEFINE T == {k \in 0 .. n : Behind[k] \notin Nat}
  <2>1. SUFFICES ASSUME T # {} PROVE FALSE
    OBVIOUS
  <2>2. PICK k \in T : \A m \in T : k <= m
    <3>1. T \in SUBSET Nat
      BY <1>1
    <3> HIDE DEF T
    <3> QED BY <2>1, <3>1, LeastElement
  <2>3. k \in 1 .. n
    BY <1>1, <1>5
  <2>4. Behind[k - 1] \in Nat
    <3>1. k - 1 \in 0 .. n /\ ~ (k <= k - 1)
      BY <1>1, <2>3
    <3> QED BY <2>2, <3>1
  <2> QED BY <1>1, <1>5, <2>3, <2>4
<1>7. n + 1 - i \in 1 .. n
  BY <1>1 DEF n
<1> DEFINE k == n + 1 - i
<1>8. /\ Behind[k] = Behind[k - 1] + Weight(o, n + 1 - k)
      /\ Behind[k - 1] \in Nat /\ Weight(o, n + 1 - k) \in Nat \ {0}
  <2>1. k \in 1 .. n /\ k - 1 \in 0 .. n
    BY <1>1, <1>7
  <2> HIDE DEF k
  <2> QED BY <1>1, <1>5, <1>6, <2>1
<1> HIDE DEF k
<1>9. Behind[k] \in Nat \ {0}
  BY <1>8
<1> QED BY <1>2, <1>9 DEF k

\* Nobody gets more than is left.
LEMMA PortionType ==
    ASSUME size \in Nat \ {0}, NEW o \in Seq(Workers), NEW i \in 1 .. Len(o),
           NEW left \in Nat
    PROVE  Portion(o, i, left) \in 0 .. left
<1>1. Weight(o, i) \in Nat /\ WeightFrom(o, i) \in Nat \ {0}
  BY WeightType, WeightFromType
<1>2. (left * Weight(o, i)) \div WeightFrom(o, i) \in Nat
  <2> DEFINE a == left * Weight(o, i)
             b == WeightFrom(o, i)
  <2>1. a \in Nat /\ b \in Nat \ {0}
    BY <1>1
  <2> HIDE DEF a, b
  <2>2. a \div b \in Nat
    BY <2>1
  <2> QED BY <2>2 DEF a, b
<1>3. Share(o, i, left) \in 0 .. left
  BY <1>2 DEF Share, Least
<1> QED BY <1>3 DEF Portion

\* The chunks of a pool follow one another from the first element to the last.
LEMMA CutsFacts ==
    ASSUME size \in Nat \ {0}, NEW o \in Seq(Workers), Len(o) # 0
    PROVE  /\ Cuts(o) \in [0 .. Len(o) -> 0 .. size]
           /\ Cuts(o)[0] = 0
           /\ Cuts(o)[Len(o)] = size
           /\ \A i \in 1 .. Len(o) : Cuts(o)[i - 1] <= Cuts(o)[i]
<1> DEFINE n == Len(o)
           IsCut(f) == f = [i \in 0 .. n |->
                              IF i = 0 THEN 0 ELSE f[i - 1] + Portion(o, i, size - f[i - 1])]
           Cut == CHOOSE f : IsCut(f)
           G == [p \in (1 .. n) \X (0 .. size) |-> p[2] + Portion(o, p[1], size - p[2])]
<1>1. Cuts(o) = Cut
  BY DEF Cuts
<1>2. n \in Nat \ {0}
  OBVIOUS
<1>3. \A i \in 1 .. n, x \in 0 .. size : Portion(o, i, size - x) \in 0 .. size - x
  <2> TAKE i \in 1 .. n, x \in 0 .. size
  <2>1. size - x \in Nat
    OBVIOUS
  <2> QED BY <2>1, PortionType
<1>4. \A x : Portion(o, n, x) = x
  BY DEF Portion
<1> HIDE DEF n
<1>5. \E f : IsCut(f)
  <2>1. G \in [(1 .. n) \X (0 .. size) -> 0 .. size]
    <3>1. ASSUME NEW i \in 1 .. n, NEW x \in 0 .. size
          PROVE  x + Portion(o, i, size - x) \in 0 .. size
      <4>1. Portion(o, i, size - x) \in 0 .. size - x
        BY <1>3
      <4> QED BY <4>1
    <3> QED BY <3>1
  <2>2. \A i \in 1 .. n, x \in 0 .. size : G[<<i, x>>] = x + Portion(o, i, size - x)
    OBVIOUS
  <2> HIDE DEF G
  <2>3. PICK f \in [0 .. n -> 0 .. size] :
          f = [i \in 0 .. n |-> IF i = 0 THEN 0 ELSE G[<<i, f[i - 1]>>]]
    <3>1. 0 \in 0 .. size
      OBVIOUS
    <3>2. PICK f \in [0 .. n -> 0 .. size] : Solves(f, n, 0, G)
      BY <1>2, <2>1, <3>1, RecursionExists
    <3> QED BY <3>2 DEF Solves
  <2>4. \A i \in 0 .. n :
          f[i] = IF i = 0 THEN 0 ELSE f[i - 1] + Portion(o, i, size - f[i - 1])
    <3> TAKE i \in 0 .. n
    <3>1. f[i] = IF i = 0 THEN 0 ELSE G[<<i, f[i - 1]>>]
      BY <2>3
    <3>2. CASE i # 0
      <4>1. i \in 1 .. n /\ i - 1 \in 0 .. n
        BY <1>2, <3>2
      <4> QED BY <2>2, <3>1, <3>2, <4>1
    <3> QED BY <3>1, <3>2
  <2>5. f = [i \in 0 .. n |-> f[i]]
    OBVIOUS
  <2>6. IsCut(f)
    BY <2>4, <2>5
  <2> QED BY <2>6
<1>6. \A i \in 0 .. n :
        Cut[i] = IF i = 0 THEN 0 ELSE Cut[i - 1] + Portion(o, i, size - Cut[i - 1])
  <2>1. IsCut(Cut)
    BY <1>5
  <2> HIDE DEF Cut
  <2> QED BY <2>1
<1>7. Cut = [i \in 0 .. n |-> Cut[i]]
  <2>1. IsCut(Cut)
    BY <1>5
  <2> HIDE DEF Cut
  <2> QED BY <2>1
<1> HIDE DEF Cut, IsCut
<1>8. \A i \in 0 .. n : Cut[i] \in 0 .. size
  <2> DEFINE T == {i \in 0 .. n : Cut[i] \notin 0 .. size}
  <2>1. SUFFICES ASSUME T # {} PROVE FALSE
    OBVIOUS
  <2>2. PICK i \in T : \A m \in T : i <= m
    <3>1. T \in SUBSET Nat
      BY <1>2
    <3> HIDE DEF T
    <3> QED BY <2>1, <3>1, LeastElement
  <2>3. i \in 1 .. n
    BY <1>2, <1>6
  <2>4. Cut[i - 1] \in 0 .. size
    <3>1. i - 1 \in 0 .. n /\ ~ (i <= i - 1)
      BY <1>2, <2>3
    <3> QED BY <2>2, <3>1
  <2>5. Portion(o, i, size - Cut[i - 1]) \in 0 .. size - Cut[i - 1]
    BY <1>3, <2>3, <2>4
  <2>6. Cut[i] = Cut[i - 1] + Portion(o, i, size - Cut[i - 1])
    BY <1>6, <2>3
  <2>7. Cut[i] \in 0 .. size
    BY <2>4, <2>5, <2>6
  <2> QED BY <2>2, <2>7
<1>9. ASSUME NEW i \in 1 .. n PROVE Cut[i - 1] <= Cut[i]
  <2>1. i \in 0 .. n /\ i - 1 \in 0 .. n /\ i # 0
    BY <1>2
  <2>2. /\ Portion(o, i, size - Cut[i - 1]) \in 0 .. size - Cut[i - 1]
        /\ Cut[i] = Cut[i - 1] + Portion(o, i, size - Cut[i - 1])
        /\ Cut[i - 1] \in 0 .. size
    BY <1>3, <1>6, <1>8, <2>1
  <2> QED BY <2>2
<1>10. Cut[n] = size
  <2>1. Cut[n] = Cut[n - 1] + (size - Cut[n - 1])
    BY <1>2, <1>4, <1>6
  <2>2. Cut[n - 1] \in 0 .. size
    BY <1>2, <1>8
  <2> QED BY <2>1, <2>2
<1>11. Cut \in [0 .. n -> 0 .. size] /\ Cut[0] = 0
  BY <1>2, <1>6, <1>7, <1>8
<1> QED BY <1>1, <1>9, <1>10, <1>11 DEF n

-----------------------------------------------------------------------------
(* The inductive invariant.                                                *)

\* The goroutine of the chunk has a worker of the pool for itself.
Holds(t) == task[t].at \in {"make", "wait", "free"}

PoolInv ==
    /\ \A t \in Tasks : Holds(t) => task[t].worker \in used
    /\ \A s, t \in Tasks :
         Holds(s) /\ Holds(t) /\ task[s].worker = task[t].worker => s = t

\* A call that is under way is counted on its worker, and while the worker is
\* there nothing else is: a panic leaves a count behind on one that left.
IsSentTo(w) == \E t \in Tasks : Stands(t, "wait") /\ task[t].worker = w

CountInv ==
    \A w \in Workers :
        /\ IsSentTo(w) => inflight[w] > 0
        /\ w \in open => inflight[w] = IF IsSentTo(w) THEN 1 ELSE 0

\* The chunk's result was sent; no goroutine comes back from here.
Reported(t) == \/ Stands(t, "over")
               \/ task[t].at \in {"free", "signal"} /\ ~Failed(t)

TaskInv ==
    \A t \in Tasks :
        /\ task[t].at # "over" => main # "list" /\ t <= Len(order)
        /\ task[t].at \in {"make", "wait"} => ~Failed(t)
        /\ task[t].at # "over" /\ main = "single" =>
             task[t].at \in {"make", "wait"} /\ task[t].worker = order[1]

\* Each chunk has one result at most.
ResultInv ==
    /\ \A i \in 1 .. Len(results) :
         results[i].chunk \in 1 .. Len(order) /\ Reported(results[i].chunk)
    /\ \A i, k \in 1 .. Len(results) : results[i].chunk = results[k].chunk => i = k

\* The chunks of a split input follow one another from its start to its end.
CutInv ==
    /\ Len(order) > 0
    /\ cut[0] = 0 /\ cut[Len(order)] = size
    /\ \A i \in 1 .. Len(order) : cut[i - 1] <= cut[i]

\* The caller took the results of the chunks of done, each once.
Collected(done) ==
    /\ Cardinality(done) = progress
    /\ \A t \in done : t \in Tasks /\ Reported(t)
    /\ \A i \in 1 .. Len(results) : results[i].chunk \notin done
    /\ \A e \in Elements :
         times[e] = IF \E t \in done : e \in cut[t - 1] .. cut[t] - 1 THEN 1 ELSE 0

CallerInv ==
    /\ main # "over" => answer = "none"
    /\ main = "list" =>
         progress = 0 /\ results = <<>> /\ \A e \in Elements : times[e] = 0
    /\ main = "single" =>
         /\ Len(order) = 1 /\ results = <<>> /\ progress <= size
         /\ \A e \in Elements : times[e] = IF e < progress THEN 1 ELSE 0
    /\ main = "collect" => CutInv /\ \E done \in SUBSET (1 .. Len(order)) : Collected(done)

PartitionInv ==
    /\ TypeOK /\ PoolInv /\ CountInv /\ TaskInv /\ ResultInv /\ CallerInv
    /\ AnswerIsWhole

-----------------------------------------------------------------------------
(* Types and what a step changes.                                          *)

Rec == [at : {"make", "wait", "free", "signal", "acquire", "asleep", "over"},
        worker : Workers, attempted : SUBSET Workers]

\* TypeOK without the length of resCh, which is a matter of ResultInv.
Types ==
    /\ size \in 1 .. MaxSize
    /\ order \in Seq(Workers) /\ Len(order) <= MaxParallel /\ Len(order) <= size
    /\ cut \in [0 .. Len(order) -> 0 .. size]
    /\ main \in {"list", "single", "collect", "over"}
    /\ answer \in {"none", "ok", "error"}
    /\ progress \in 0 .. MaxSize
    /\ results \in Seq([chunk : Tasks, ok : BOOLEAN])
    /\ times \in [Elements -> Nat]
    /\ open \subseteq Workers /\ gone \in BOOLEAN /\ up \in BOOLEAN
    /\ task \in [Tasks -> Rec]
    /\ used \subseteq Workers /\ cond \in BOOLEAN
    /\ inflight \in [Workers -> Nat]

\* resCh never fills up.
LEMMA ResultsFit ==
    ASSUME Types, ResultInv
    PROVE  Len(results) <= Len(order)
<1> DEFINE S == 1 .. Len(results)
           T == 1 .. Len(order)
           f == [i \in S |-> results[i].chunk]
<1>1. Len(results) \in Nat /\ Len(order) \in Nat
  BY DEF Types
<1>2. /\ IsFiniteSet(S) /\ Cardinality(S) = Len(results)
      /\ IsFiniteSet(T) /\ Cardinality(T) = Len(order)
  <2>1. \A n \in Nat : IsFiniteSet(1 .. n) /\ Cardinality(1 .. n) = n
    <3> TAKE n \in Nat
    <3>1. IsFiniteSet(1 .. n) /\ Cardinality(1 .. n) = IF 1 > n THEN 0 ELSE n - 1 + 1
      BY FS_Interval
    <3> QED BY <3>1
  <2> QED BY <1>1, <2>1
<1>3. f \in [S -> T] /\ \A i, k \in S : f[i] = f[k] => i = k
  BY DEF ResultInv
<1> HIDE DEF S, T, f
<1>4. ~ (Cardinality(T) < Cardinality(S))
  BY <1>2, <1>3, FS_PigeonHole
<1> QED BY <1>1, <1>2, <1>4

LEMMA Numbers ==
    ASSUME Types
    PROVE  /\ size \in Nat \ {0} /\ MaxSize \in Nat \ {0} /\ size <= MaxSize
           /\ progress \in Nat /\ Len(order) \in Nat /\ Len(order) <= size
           /\ \A m \in 0 .. Len(order) : cut[m] \in Nat /\ cut[m] <= size
<1>1. /\ size \in 1 .. MaxSize /\ MaxSize \in Nat \ {0}
      /\ progress \in 0 .. MaxSize /\ Len(order) \in Nat /\ Len(order) <= size
      /\ cut \in [0 .. Len(order) -> 0 .. size]
  BY PartitionAssumption DEF Types
<1>2. \A m \in 0 .. Len(order) : cut[m] \in 0 .. size
  BY <1>1
<1> QED BY <1>1, <1>2

LEMMA TypesAndResults == TypeOK /\ ResultInv <=> Types /\ ResultInv
  BY ResultsFit DEF TypeOK, Types, Rec

LEMMA OverType ==
    ASSUME NEW w \in Workers, NEW place \in {"make", "over"}
    PROVE  Over \in Rec /\ Over.at = "over" /\ At(place, w) \in Rec
<1>1. (CHOOSE v \in Workers : TRUE) \in Workers
  OBVIOUS
<1> QED BY <1>1 DEF Over, At, Rec

\* A step of a goroutine moves its own chunk.
LEMMA TaskMove ==
    ASSUME Types, CallerInv, NEW t \in Tasks, Goroutine(t)
    PROVE  /\ task' \in [Tasks -> Rec]
           /\ \A s \in Tasks : s # t => task'[s] = task[s]
<1> USE DEF Goto
<1>1. task \in [Tasks -> Rec] /\ task[t] \in Rec /\ order \in Seq(Workers)
  BY DEF Types
<1>2. ASSUME NEW rec \in Rec, task' = [task EXCEPT ![t] = rec]
      PROVE  task' \in [Tasks -> Rec] /\ \A s \in Tasks : s # t => task'[s] = task[s]
  BY <1>1, <1>2
<1>3. ASSUME NEW place \in {"make", "wait", "free", "signal", "acquire", "asleep", "over"},
             task' = [task EXCEPT ![t].at = place]
      PROVE  task' \in [Tasks -> Rec] /\ \A s \in Tasks : s # t => task'[s] = task[s]
  BY <1>1, <1>3 DEF Rec
<1>4. Over \in Rec
  BY <1>1, OverType DEF Rec
<1>5. CASE MakeEmpty(t) \/ Panic(t) \/ FailBatch(t)
  BY <1>2, <1>4, <1>5 DEF MakeEmpty, Panic, FailBatch
<1>6. CASE Send(t) \/ Succeed(t) \/ Free(t) \/ Sleep(t) \/ Wake(t)
  BY <1>3, <1>6 DEF Send, Succeed, Free, Sleep, Wake
<1>7. CASE NextBatch(t)
  <2>1. CASE main' = "over"
    BY <1>2, <1>4, <1>7, <2>1 DEF NextBatch
  <2>2. CASE main' # "over"
    <3>1. order[1] \in Workers
      <4>1. Len(order) = 1
        BY <1>7 DEF NextBatch, CallerInv
      <4> QED BY <1>1, <4>1
    <3> QED BY <1>2, <1>7, <2>2, <3>1, OverType DEF NextBatch
  <2> QED BY <2>1, <2>2
<1>8. CASE Fail(t)
  BY <1>1, <1>8 DEF Fail, Rec
<1>9. CASE Signal(t)
  BY <1>2, <1>3, <1>4, <1>9 DEF Signal, AfterRelease
<1>10. CASE Acquire(t)
  <2>1. PICK i \in DOMAIN order :
          task' = [task EXCEPT ![t].at = "make", ![t].worker = order[i]]
    BY <1>10 DEF Acquire
  <2>2. order[i] \in Workers
    BY <1>1
  <2> QED BY <1>1, <2>1, <2>2 DEF Rec
<1> QED BY <1>5, <1>6, <1>7, <1>8, <1>9, <1>10 DEF Goroutine

\* What the caller's list of workers is.
LEMMA ListFacts ==
    ASSUME Types, List
    PROVE  /\ order' \in Seq(Workers) /\ Len(order') \in Nat \ {0}
           /\ Len(order') <= MaxParallel /\ Len(order') <= size
           /\ \A i, k \in 1 .. Len(order') : order'[i] = order'[k] => i = k
           /\ \A i \in 1 .. Len(order') : order'[i] \in used'
           /\ used' \subseteq Workers
           /\ cut' = Cuts(order')
           /\ task' = [t \in Tasks |->
                         IF t <= Len(order') THEN At("make", order'[t]) ELSE Over]
           /\ main' = IF Len(order') = 1 THEN "single" ELSE "collect"
           /\ UNCHANGED <<size, answer, progress, results, times, worldVars, cond, inflight>>
<1>1. PICK pool \in (SUBSET open) \ {{}} :
        /\ Cardinality(pool) <= MaxParallel /\ Cardinality(pool) <= size
        /\ order' \in Sorted(pool)
        /\ used' = pool
  BY DEF List
<1>2. pool \subseteq Workers /\ pool # {} /\ IsFiniteSet(pool)
  <2>1. pool \in SUBSET Workers /\ pool # {}
    BY DEF Types
  <2> QED BY <2>1, PartitionAssumption, FS_Subset
<1>3. Cardinality(pool) \in Nat \ {0}
  BY <1>2, FS_CardinalityType, FS_EmptySet
<1>4. /\ order' \in [1 .. Cardinality(pool) -> pool]
      /\ \A i, k \in 1 .. Cardinality(pool) : i # k => order'[i] # order'[k]
  BY <1>1 DEF Sorted, SetToSeqs
<1>5. order' \in Seq(Workers) /\ Len(order') = Cardinality(pool)
  BY <1>2, <1>3, <1>4
<1>6. /\ cut' = Cuts(order')
      /\ task' = [t \in Tasks |->
                    IF t <= Len(order') THEN At("make", order'[t]) ELSE Over]
      /\ main' = IF Len(order') = 1 THEN "single" ELSE "collect"
      /\ UNCHANGED <<size, answer, progress, results, times, worldVars, cond, inflight>>
  BY DEF List
<1> QED BY <1>1, <1>2, <1>3, <1>4, <1>5, <1>6

LEMMA ListTypes ==
    ASSUME Types, List
    PROVE  Types'
<1> DEFINE n == Len(order')
<1>1. size \in Nat \ {0} /\ size' = size
  BY ListFacts, PartitionAssumption DEF Types
<1>2. Cuts(order') \in [0 .. n -> 0 .. size]
  <2>1. order' \in Seq(Workers) /\ n # 0
    BY ListFacts
  <2>2. ASSUME NEW o \in Seq(Workers), Len(o) # 0
        PROVE  Cuts(o) \in [0 .. Len(o) -> 0 .. size]
    BY <1>1, <2>2, CutsFacts
  <2> QED BY <2>1, <2>2
<1>3. task' \in [Tasks -> Rec]
  <2>1. ASSUME NEW t \in Tasks
        PROVE  (IF t <= n THEN At("make", order'[t]) ELSE Over) \in Rec
    <3>1. Workers # {} /\ t \in Nat \ {0}
      BY PartitionAssumption DEF Tasks
    <3>2. t <= n => order'[t] \in Workers
      BY <3>1, ListFacts
    <3> HIDE DEF n
    <3> QED BY <3>1, <3>2, OverType
  <2> QED BY <2>1, ListFacts
<1> QED BY <1>1, <1>2, <1>3, ListFacts DEF Types, worldVars

\* The next batch of an only worker.
LEMMA BatchType ==
    ASSUME Types, CallerInv, main = "single"
    PROVE  Batch \in 0 .. size - progress
<1>1. Len(order) = 1 /\ progress <= size
  BY DEF CallerInv
<1>2. size \in Nat /\ progress \in Nat /\ order \in Seq(Workers)
  BY PartitionAssumption DEF Types
<1>3. order[1] \in Workers
  BY <1>1, <1>2
<1>4. PreferredBatchSize[order[1]] \in Nat
  BY <1>3, PartitionAssumption
<1> QED BY <1>1, <1>2, <1>4 DEF Batch, Least

\* A call of a goroutine that is counted can be counted out.
LEMMA CallTypes ==
    ASSUME Types, CountInv, NEW t \in Tasks
    PROVE  /\ task[t].worker \in Workers
           /\ Stands(t, "wait") => inflight[task[t].worker] > 0
           /\ CallFails(t) \/ CallSucceeds(t) => inflight' \in [Workers -> Nat]
<1> DEFINE w == task[t].worker
<1>1. w \in Workers /\ inflight \in [Workers -> Nat]
  BY DEF Types, Rec
<1>2. Stands(t, "wait") => inflight[w] > 0
  BY <1>1 DEF CountInv, IsSentTo
<1>3. Stands(t, "wait") => inflight[w] - 1 \in Nat
  BY <1>1, <1>2
<1>4. CallFails(t) \/ CallSucceeds(t) =>
        \/ UNCHANGED inflight
        \/ Stands(t, "wait") /\ inflight' = [inflight EXCEPT ![w] = inflight[w] - 1]
  BY DEF CallFails, CallSucceeds, Count
<1> HIDE DEF w
<1>5. CallFails(t) \/ CallSucceeds(t) => inflight' \in [Workers -> Nat]
  BY <1>1, <1>3, <1>4
<1> QED BY <1>1, <1>2, <1>5 DEF w

\* What the caller learns and does.
LEMMA ReportType ==
    ASSUME Types, NEW t \in Tasks, NEW ok \in BOOLEAN, Report(t, ok)
    PROVE  results' \in Seq([chunk : Tasks, ok : BOOLEAN])
<1> DEFINE Result == [chunk : Tasks, ok : BOOLEAN]
<1>1. results \in Seq(Result) /\ [chunk |-> t, ok |-> ok] \in Result
  BY DEF Types
<1> HIDE DEF Result
<1>2. Append(results, [chunk |-> t, ok |-> ok]) \in Seq(Result)
  BY <1>1
<1>3. results' \in Seq(Result)
  BY <1>1, <1>2 DEF Report
<1> QED BY <1>3 DEF Result

MainTypes ==
    /\ main \in {"list", "single", "collect", "over"}
    /\ answer \in {"none", "ok", "error"}
    /\ progress \in 0 .. MaxSize
    /\ times \in [Elements -> Nat]
    /\ gone \in BOOLEAN /\ up \in BOOLEAN

LEMMA AppendType ==
    ASSUME Types, NEW t, AppendChunk(t)
    PROVE  times' \in [Elements -> Nat]
<1>1. times \in [Elements -> Nat]
  BY DEF Types
<1>2. \A e \in Elements : (IF e \in Chunk(t) THEN times[e] + 1 ELSE times[e]) \in Nat
  BY <1>1
<1> QED BY <1>2 DEF AppendChunk

LEMMA GoroutineTypes ==
    ASSUME Types, CallerInv, CountInv, NEW t \in Tasks, Goroutine(t)
    PROVE  Types'
<1> USE DEF inputVars, mainVars, worldVars, poolVars
<1>1. /\ size \in 1 .. MaxSize /\ MaxSize \in Nat \ {0}
      /\ used \subseteq Workers /\ cond \in BOOLEAN
      /\ results \in Seq([chunk : Tasks, ok : BOOLEAN])
      /\ inflight \in [Workers -> Nat]
  BY PartitionAssumption DEF Types
<1>2. task[t].worker \in Workers
  BY DEF Types, Rec
<1>3. MainTypes
  BY DEF Types, MainTypes
<1>4. results' \in Seq([chunk : Tasks, ok : BOOLEAN])
  BY <1>1, ReportType
     DEF Goroutine, MakeEmpty, Send, Panic, NextBatch, FailBatch, Succeed, Fail, Free,
         Signal, AfterRelease, Acquire, Sleep, Wake
<1>5. used' \subseteq Workers /\ cond' \in BOOLEAN
  <2>1. CASE Acquire(t)
    <3>1. PICK i \in DOMAIN order : used' = used \cup {order[i]} /\ UNCHANGED cond
      BY <2>1 DEF Acquire
    <3>2. order[i] \in Workers
      BY DEF Types
    <3> QED BY <1>1, <3>1, <3>2
  <2> QED BY <1>1, <2>1
     DEF Goroutine, MakeEmpty, Send, Panic, NextBatch, FailBatch, Succeed, Fail, Free,
         Signal, Sleep, Wake
<1>6. inflight' \in [Workers -> Nat]
  <2>1. CASE Send(t)
    BY <1>1, <1>2, <2>1 DEF Send, Count
  <2>2. CASE CallFails(t) \/ CallSucceeds(t)
    BY <2>2, CallTypes
  <2> QED BY <1>1, <2>1, <2>2
     DEF Goroutine, MakeEmpty, Panic, NextBatch, FailBatch, Succeed, Fail, Free,
         Signal, Acquire, Sleep, Wake
<1>7. MainTypes'
  <2>1. CASE UNCHANGED <<progress, times>> /\ (Finish("error") \/ UNCHANGED <<main, answer, gone>>)
             /\ up' \in BOOLEAN
    BY <1>3, <2>1 DEF MainTypes, Finish
  <2>2. CASE NextBatch(t)
    <3>1. times' \in [Elements -> Nat]
      BY <2>2, AppendType DEF NextBatch
    <3>2. progress' = progress + Batch /\ main = "single" /\ UNCHANGED up
      BY <2>2 DEF NextBatch, Advance
    <3>3. progress' \in 0 .. MaxSize
      <4>1. Batch \in 0 .. size - progress
        BY <3>2, BatchType
      <4> QED BY <1>1, <1>3, <3>2, <4>1 DEF MainTypes
    <3> QED BY <1>3, <2>2, <3>1, <3>2, <3>3 DEF MainTypes, NextBatch, Advance, Finish
  <2>3. CASE Panic(t)
    BY <1>3, <2>1, <2>3 DEF Panic, MainTypes
  <2> QED BY <1>3, <2>1, <2>2, <2>3
     DEF Goroutine, MakeEmpty, Send, FailBatch, Succeed, Fail, Free,
         Signal, Acquire, Sleep, Wake, MainTypes
<1>8. UNCHANGED <<inputVars, open>>
  BY DEF Goroutine, MakeEmpty, Send, Panic, NextBatch, FailBatch, Succeed, Fail, Free,
         Signal, Acquire, Sleep, Wake
<1>9. task' \in [Tasks -> Rec]
  BY TaskMove
<1> QED BY <1>4, <1>5, <1>6, <1>7, <1>8, <1>9 DEF Types, MainTypes

-----------------------------------------------------------------------------
(* The chunks of a split input, and what the caller collects of them.      *)

LEMMA CutsAscend ==
    ASSUME Types, CutInv, NEW i \in 0 .. Len(order), NEW k \in 0 .. Len(order), i <= k
    PROVE  cut[i] <= cut[k]
<1> DEFINE n == Len(order)
           T == {m \in i .. n : ~ (cut[i] <= cut[m])}
<1>1. n \in Nat /\ \A m \in 0 .. n : cut[m] \in Nat
  BY Numbers
<1>2. \A m \in 1 .. n : cut[m - 1] <= cut[m]
  BY DEF CutInv
<1> HIDE DEF n
<1>3. i \in 0 .. n /\ k \in i .. n
  BY <1>1 DEF n
<1>4. SUFFICES ASSUME T # {} PROVE FALSE
  BY <1>3
<1>5. PICK m \in T : \A l \in T : m <= l
  <2>1. T \in SUBSET Nat
    BY <1>1, <1>3
  <2> HIDE DEF T
  <2> QED BY <1>4, <2>1, LeastElement
<1>6. m # i /\ m \in i .. n
  BY <1>1, <1>3, <1>5
<1>7. m - 1 \in i .. n /\ m - 1 \in 0 .. n /\ m \in 1 .. n /\ ~ (m <= m - 1)
  BY <1>1, <1>3, <1>6
<1>8. cut[i] <= cut[m - 1]
  BY <1>5, <1>7
<1>9. cut[i] <= cut[m]
  BY <1>1, <1>2, <1>3, <1>7, <1>8
<1> QED BY <1>5, <1>9

\* An element is in one chunk,
LEMMA ChunksAreDisjoint ==
    ASSUME Types, CutInv, NEW s \in 1 .. Len(order), NEW t \in 1 .. Len(order),
           NEW e, e \in cut[s - 1] .. cut[s] - 1, e \in cut[t - 1] .. cut[t] - 1
    PROVE  s = t
<1>1. ASSUME NEW i \in 1 .. Len(order), NEW k \in 1 .. Len(order), i < k,
             e \in cut[i - 1] .. cut[i] - 1, e \in cut[k - 1] .. cut[k] - 1
      PROVE  FALSE
  <2>1. i \in 0 .. Len(order) /\ k - 1 \in 0 .. Len(order) /\ i <= k - 1
    BY <1>1 DEF Types
  <2>2. cut[i] <= cut[k - 1]
    BY <2>1, CutsAscend
  <2>3. cut[i] \in Nat /\ cut[k - 1] \in Nat /\ cut[k] \in Nat /\ cut[i - 1] \in Nat
    <3>1. k \in 0 .. Len(order) /\ i - 1 \in 0 .. Len(order)
      BY Numbers
    <3> QED BY <2>1, <3>1, Numbers
  <2> QED BY <1>1, <2>2, <2>3
<1>2. s \in Nat /\ t \in Nat
  BY DEF Types
<1>3. ~ (s < t) /\ ~ (t < s)
  BY <1>1
<1> QED BY <1>2, <1>3

\* and every element of the input is in one.
LEMMA ChunksCover ==
    ASSUME Types, CutInv, NEW e \in 0 .. size - 1
    PROVE  \E t \in 1 .. Len(order) : e \in cut[t - 1] .. cut[t] - 1
<1> DEFINE n == Len(order)
           T == {m \in 1 .. n : e < cut[m]}
<1>1. /\ n \in Nat \ {0} /\ size \in Nat
      /\ \A m \in 0 .. n : cut[m] \in Nat
      /\ cut[0] = 0 /\ cut[n] = size
  BY Numbers DEF CutInv
<1> HIDE DEF n
<1>2. n \in T /\ T \in SUBSET Nat
  BY <1>1
<1>3. PICK m \in T : \A l \in T : m <= l
  <2> HIDE DEF T
  <2> QED BY <1>2, LeastElement
<1>4. m \in 1 .. n /\ m - 1 \in 0 .. n /\ e < cut[m] /\ ~ (m <= m - 1)
  BY <1>1, <1>3
<1>5. cut[m - 1] <= e
  <2>1. CASE m = 1
    BY <1>1, <2>1
  <2>2. CASE m # 1
    <3>1. m - 1 \in 1 .. n /\ m - 1 \notin T
      BY <1>1, <1>3, <1>4, <2>2
    <3> QED BY <1>1, <1>4, <3>1
  <2> QED BY <2>1, <2>2
<1>6. e \in cut[m - 1] .. cut[m] - 1
  BY <1>1, <1>4, <1>5
<1> QED BY <1>4, <1>6 DEF n

\* The caller takes a good result, of c behind those of done.
Takes(c, done) ==
    /\ c = Head(results).chunk
    /\ Collected(done) /\ c \notin done
    /\ Cardinality(done \cup {c}) = progress + 1
    /\ progress + 1 <= Len(order)
    /\ progress + 1 = Len(order) => done \cup {c} = 1 .. Len(order)
    /\ \A e \in Elements : times'[e] =
         IF \E t \in done \cup {c} : e \in cut[t - 1] .. cut[t] - 1 THEN 1 ELSE 0

LEMMA CollectOne ==
    ASSUME Types, ResultInv, CallerInv, Collect, Head(results).ok
    PROVE  \E c \in 1 .. Len(order), done \in SUBSET (1 .. Len(order)) : Takes(c, done)
<1> DEFINE c == Head(results).chunk
           n == Len(order)
<1>1. main = "collect" /\ results # <<>> /\ results \in Seq([chunk : Tasks, ok : BOOLEAN])
  BY DEF Collect, Types
<1>2. c = results[1].chunk /\ 1 \in 1 .. Len(results)
  BY <1>1
<1>3. c \in 1 .. n
  BY <1>2 DEF ResultInv
<1>4. CutInv /\ \E done \in SUBSET (1 .. n) : Collected(done)
  BY <1>1 DEF CallerInv
<1>5. PICK done \in SUBSET (1 .. n) : Collected(done)
  BY <1>4
<1>6. c \notin done
  BY <1>2, <1>5 DEF Collected
<1>7. /\ IsFiniteSet(done \cup {c})
      /\ Cardinality(done \cup {c}) = progress + 1
      /\ progress + 1 <= n
      /\ progress + 1 = n => done \cup {c} = 1 .. n
  <2>1. n \in Nat
    BY DEF Types
  <2>2. IsFiniteSet(1 .. n) /\ Cardinality(1 .. n) = n
    <3>1. IsFiniteSet(1 .. n) /\ Cardinality(1 .. n) = IF 1 > n THEN 0 ELSE n - 1 + 1
      BY <2>1, FS_Interval
    <3> QED BY <2>1, <3>1
  <2> HIDE DEF c, n
  <2>3. IsFiniteSet(done)
    BY <2>2, FS_Subset
  <2>4. IsFiniteSet(done \cup {c}) /\ Cardinality(done \cup {c}) = progress + 1
    BY <1>5, <1>6, <2>3, FS_AddElement DEF Collected
  <2>5. done \cup {c} \in SUBSET (1 .. n)
    BY <1>3
  <2>6. /\ Cardinality(done \cup {c}) <= n
        /\ n = Cardinality(done \cup {c}) => 1 .. n = done \cup {c}
    BY <2>2, <2>5, FS_Subset
  <2> QED BY <2>4, <2>6
<1>8. ASSUME NEW e \in Elements
      PROVE  times'[e] = IF \E t \in done \cup {c} : e \in cut[t - 1] .. cut[t] - 1
                         THEN 1 ELSE 0
  <2>1. times[e] = IF \E t \in done : e \in cut[t - 1] .. cut[t] - 1 THEN 1 ELSE 0
    BY <1>5 DEF Collected
  <2>2. times'[e] = IF e \in cut[c - 1] .. cut[c] - 1 THEN times[e] + 1 ELSE times[e]
    <3>1. AppendChunk(c)
      BY DEF Collect
    <3>2. Chunk(c) = cut[c - 1] .. cut[c] - 1
      BY <1>1 DEF Chunk
    <3> HIDE DEF c
    <3> QED BY <3>1, <3>2 DEF AppendChunk
  <2>3. CASE e \in cut[c - 1] .. cut[c] - 1
    <3>1. ~ \E t \in done : e \in cut[t - 1] .. cut[t] - 1
      BY <1>3, <1>4, <1>5, <1>6, <2>3, ChunksAreDisjoint
    <3>2. times'[e] = 1
      BY <2>1, <2>2, <2>3, <3>1
    <3>3. \E t \in done \cup {c} : e \in cut[t - 1] .. cut[t] - 1
      BY <2>3
    <3> QED BY <3>2, <3>3
  <2>4. CASE e \notin cut[c - 1] .. cut[c] - 1
    BY <2>1, <2>2, <2>4
  <2> QED BY <2>3, <2>4
<1>9. Takes(c, done)
  BY <1>5, <1>6, <1>7, <1>8 DEF Takes
<1> QED BY <1>3, <1>9

LEMMA TypesStep ==
    ASSUME Types, ResultInv, CallerInv, CountInv, Next
    PROVE  Types'
<1> USE DEF inputVars, mainVars, worldVars, poolVars
<1>1. CASE Collect
  <2>1. /\ results \in Seq([chunk : Tasks, ok : BOOLEAN]) /\ results # <<>>
        /\ progress \in 0 .. MaxSize /\ size \in 1 .. MaxSize
        /\ Len(order) \in Nat /\ Len(order) <= size
    BY <1>1 DEF Collect, Types
  <2>2. results' \in Seq([chunk : Tasks, ok : BOOLEAN])
    <3> DEFINE Result == [chunk : Tasks, ok : BOOLEAN]
    <3>1. results \in Seq(Result)
      BY <2>1
    <3> HIDE DEF Result
    <3>2. Tail(results) \in Seq(Result) /\ <<>> \in Seq(Result)
      BY <2>1, <3>1
    <3>3. results' \in Seq(Result)
      BY <1>1, <3>2 DEF Collect
    <3> QED BY <3>3 DEF Result
  <2>3. times' \in [Elements -> Nat]
    BY <1>1, AppendType DEF Collect, Types
  <2>4. progress' \in 0 .. MaxSize
    <3>1. CASE Head(results).ok
      <4>1. progress + 1 <= Len(order)
        BY <1>1, <3>1, CollectOne DEF Takes
      <4>2. progress' = progress + 1
        BY <1>1, <3>1 DEF Collect, Advance
      <4> QED BY <2>1, <4>1, <4>2, PartitionAssumption
    <3>2. CASE ~Head(results).ok
      BY <1>1, <2>1, <3>2 DEF Collect
    <3> QED BY <3>1, <3>2
  <2> QED BY <1>1, <2>2, <2>3, <2>4 DEF Collect, Types, Finish, Advance
<1>2. CASE NoWorker
  BY <1>2 DEF NoWorker, Finish, Types
<1>3. CASE ClientLeaves \/ \E w \in Workers : Leave(w)
  BY <1>3 DEF ClientLeaves, Leave, Types
<1> QED BY <1>1, <1>2, <1>3, ListTypes, GoroutineTypes DEF Next, Caller

-----------------------------------------------------------------------------
(* The pool and the goroutines.                                            *)

Same(t) == task'[t].worker = task[t].worker /\ task'[t].attempted = task[t].attempted

\* Where a step leads a goroutine, and what it does to the pool.
Ends(t) == task'[t].at = "over" /\ UNCHANGED used

Calls(t) ==
    \/ Stands(t, "make") /\ task'[t].at = "wait" /\ Same(t)
    \/ /\ main = "single" /\ Stands(t, "wait") /\ task'[t].at = "make"
       /\ task'[t].worker = order[1] /\ task'[t].attempted = {}

Returns(t) ==
    /\ main # "single" /\ task[t].at \in {"make", "wait"} /\ task'[t].at = "free"
    /\ task'[t].worker = task[t].worker
    /\ \/ task'[t].attempted = task[t].attempted
       \/ task'[t].attempted = task[t].attempted \cup {task[t].worker}

Releases(t) ==
    Stands(t, "free") /\ task'[t].at = "signal" /\ Same(t) /\ used' = used \ {task[t].worker}

Tries(t) ==
    \/ Stands(t, "signal") /\ Failed(t) /\ task'[t].at = "acquire" /\ Same(t)
    \/ Stands(t, "acquire") /\ task'[t].at = "asleep" /\ Same(t)
    \/ Stands(t, "asleep") /\ task'[t].at = "acquire" /\ Same(t)

Gets(t) ==
    /\ Stands(t, "acquire") /\ task'[t].at = "make"
    /\ task'[t].worker \notin used \cup task[t].attempted
    /\ task'[t].attempted = task[t].attempted
    /\ used' = used \cup {task'[t].worker}

LEMMA TaskKinds ==
    ASSUME Types, CallerInv, NEW t \in Tasks, Goroutine(t)
    PROVE  \/ Ends(t) \/ Releases(t) \/ Gets(t)
           \/ (Calls(t) \/ Returns(t) \/ Tries(t)) /\ UNCHANGED used
<1> USE DEF Goto, poolVars, Same, Stands, At
<1>1. task \in [Tasks -> Rec] /\ task[t] \in Rec
  BY DEF Types
<1>2. Over.at = "over"
  BY DEF Over
<1>3. CASE MakeEmpty(t)
  BY <1>1, <1>2, <1>3 DEF MakeEmpty, Ends
<1>4. CASE Send(t)
  BY <1>1, <1>4 DEF Send, Calls, Rec
<1>5. CASE Panic(t)
  BY <1>1, <1>2, <1>5 DEF Panic, Ends
<1>6. CASE NextBatch(t)
  BY <1>1, <1>2, <1>6 DEF NextBatch, CallSucceeds, Ends, Calls
<1>7. CASE FailBatch(t)
  BY <1>1, <1>2, <1>7 DEF FailBatch, Ends
<1>8. CASE Succeed(t)
  BY <1>1, <1>8 DEF Succeed, CallSucceeds, Returns, Rec
<1>9. CASE Fail(t)
  BY <1>1, <1>9 DEF Fail, CallFails, Returns, Rec
<1>10. CASE Free(t)
  BY <1>1, <1>10 DEF Free, Releases, Rec
<1>11. CASE Signal(t)
  BY <1>1, <1>2, <1>11 DEF Signal, AfterRelease, Ends, Tries, Rec
<1>12. CASE Acquire(t)
  <2>1. PICK i \in DOMAIN order :
          /\ order[i] \in Available(t)
          /\ used' = used \cup {order[i]}
          /\ task' = [task EXCEPT ![t].at = "make", ![t].worker = order[i]]
    BY <1>12 DEF Acquire
  <2>2. /\ Stands(t, "acquire") /\ task'[t].at = "make" /\ task'[t].worker = order[i]
        /\ task'[t].attempted = task[t].attempted
    BY <1>1, <1>12, <2>1 DEF Acquire, Rec
  <2> QED BY <2>1, <2>2 DEF Available, Gets
<1>13. CASE Sleep(t)
  BY <1>1, <1>13 DEF Sleep, Tries, Rec
<1>14. CASE Wake(t)
  BY <1>1, <1>14 DEF Wake, Tries, Rec
<1> QED BY <1>3, <1>4, <1>5, <1>6, <1>7, <1>8, <1>9, <1>10, <1>11, <1>12, <1>13, <1>14
        DEF Goroutine

\* The steps of the others leave the goroutines alone.
LEMMA OtherSteps ==
    ASSUME Next
    PROVE  \/ List
           \/ \E t \in Tasks : Goroutine(t)
           \/ /\ UNCHANGED <<inputVars, task, used, inflight, up>> /\ open' \subseteq open
              /\ Collect \/ NoWorker \/ UNCHANGED mainVars
<1> USE DEF inputVars, mainVars, poolVars
<1> QED BY DEF Next, Caller, Collect, NoWorker, ClientLeaves, Leave

\* Tasks that are at the call of one's own.
LEMMA ListTasks ==
    ASSUME Types, List, NEW t \in Tasks
    PROVE  \/ task'[t].at = "over"
           \/ /\ t \in 1 .. Len(order') /\ task'[t].at = "make"
              /\ task'[t].worker = order'[t] /\ task'[t].attempted = {}
<1>1. task'[t] = IF t <= Len(order') THEN At("make", order'[t]) ELSE Over
  BY ListFacts
<1>2. Len(order') \in Nat /\ t \in Nat \ {0}
  BY ListFacts DEF Tasks
<1> QED BY <1>1, <1>2 DEF At, Over

LEMMA PoolStep ==
    ASSUME Types, PoolInv, TaskInv, CallerInv, Next
    PROVE  PoolInv'
<1>1. CASE List
  <2>1. ASSUME NEW t \in Tasks, Holds(t)'
        PROVE  t \in 1 .. Len(order') /\ task'[t].worker = order'[t]
    BY <1>1, <2>1, ListTasks DEF Holds
  <2>2. /\ \A i, k \in 1 .. Len(order') : order'[i] = order'[k] => i = k
        /\ \A i \in 1 .. Len(order') : order'[i] \in used'
    BY <1>1, ListFacts
  <2> QED BY <2>1, <2>2 DEF PoolInv
<1>2. ASSUME NEW t \in Tasks, Goroutine(t)
      PROVE  PoolInv'
  <2>1. \A s \in Tasks : s # t => task'[s] = task[s]
    BY <1>2, TaskMove
  <2>2. CASE Ends(t)
    BY <2>1, <2>2 DEF PoolInv, Holds, Ends
  <2>3. CASE Releases(t)
    BY <2>1, <2>3 DEF PoolInv, Holds, Releases, Stands
  <2>4. CASE Gets(t)
    BY <2>1, <2>4 DEF PoolInv, Holds, Gets, Stands
  <2>5. CASE Calls(t) /\ UNCHANGED used
    <3>1. Holds(t) /\ task'[t].worker = task[t].worker
      BY <2>5 DEF Calls, Holds, Stands, Same, TaskInv
    <3> QED BY <2>1, <2>5, <3>1 DEF PoolInv, Holds
  <2>6. CASE Returns(t) /\ UNCHANGED used
    BY <2>1, <2>6 DEF PoolInv, Holds, Returns
  <2>7. CASE Tries(t) /\ UNCHANGED used
    BY <2>1, <2>7 DEF PoolInv, Holds, Tries, Stands
  <2> QED BY <1>2, <2>2, <2>3, <2>4, <2>5, <2>6, <2>7, TaskKinds
<1>3. CASE UNCHANGED <<task, used>>
  BY <1>3 DEF PoolInv, Holds
<1> QED BY <1>1, <1>2, <1>3, OtherSteps

LEMMA TaskInvStep ==
    ASSUME Types, TaskInv, CallerInv, Next
    PROVE  TaskInv'
<1>1. CASE List
  <2> SUFFICES ASSUME NEW t \in Tasks, task'[t].at # "over"
               PROVE  /\ main' # "list" /\ t <= Len(order')
                      /\ task'[t].at = "make" /\ ~Failed(t)'
                      /\ main' = "single" => task'[t].worker = order'[1]
    BY DEF TaskInv
  <2>1. /\ t \in 1 .. Len(order') /\ task'[t].at = "make"
        /\ task'[t].worker = order'[t] /\ task'[t].attempted = {}
    BY <1>1, ListTasks
  <2>2. Len(order') \in Nat /\ main' = IF Len(order') = 1 THEN "single" ELSE "collect"
    BY <1>1, ListFacts
  <2> QED BY <2>1, <2>2 DEF Failed
<1>2. ASSUME NEW t \in Tasks, Goroutine(t)
      PROVE  TaskInv'
  <2>1. \A s \in Tasks : s # t => task'[s] = task[s]
    BY <1>2, TaskMove
  <2>2. UNCHANGED order /\ (main' = main \/ main' = "over")
    BY <1>2 DEF Goroutine, MakeEmpty, Send, Panic, NextBatch, FailBatch, Succeed, Fail, Free,
         Signal, Acquire, Sleep, Wake, inputVars, mainVars, Advance, Finish
  <2>3. task[t].at # "over"
    BY <1>2 DEF Goroutine, MakeEmpty, Send, Panic, NextBatch, FailBatch, Succeed, Fail, Free,
         Signal, Acquire, Sleep, Wake, Stands, CallFails, CallSucceeds
  <2>4. main # "list" /\ t <= Len(order)
    BY <2>3 DEF TaskInv
  <2> DEFINE Good == /\ task'[t].at \in {"make", "wait"} =>
                          task'[t].worker \notin task'[t].attempted
                     /\ task'[t].at # "over" /\ main = "single" =>
                          task'[t].at \in {"make", "wait"} /\ task'[t].worker = order[1]
  <2>5. SUFFICES Good
    <3>1. \A s \in Tasks : s # t => (Failed(s)' <=> Failed(s))
      BY <2>1 DEF Failed
    <3> QED BY <2>1, <2>2, <2>4, <2>5, <3>1 DEF TaskInv, Failed
  <2>6. CASE Ends(t)
    BY <2>6 DEF Ends
  <2>7. CASE Releases(t) \/ Returns(t) \/ Tries(t)
    BY <2>7 DEF Releases, Returns, Tries, TaskInv, Stands
  <2>8. CASE Gets(t)
    BY <2>8 DEF Gets, TaskInv, Stands
  <2>9. CASE Calls(t)
    BY <2>9 DEF Calls, TaskInv, Stands, Same, Failed
  <2> QED BY <1>2, <2>6, <2>7, <2>8, <2>9, TaskKinds
<1>3. CASE /\ UNCHANGED <<inputVars, task, used, inflight, up>> /\ open' \subseteq open
           /\ Collect \/ NoWorker \/ UNCHANGED mainVars
  <2>1. main' = main \/ main' = "over"
    BY <1>3 DEF Collect, NoWorker, mainVars, Advance, Finish
  <2>2. UNCHANGED <<order, task>>
    BY <1>3 DEF inputVars
  <2> QED BY <2>1, <2>2 DEF TaskInv, Failed
<1> QED BY <1>1, <1>2, <1>3, OtherSteps

-----------------------------------------------------------------------------
(* The counts of the workers.                                              *)

\* A worker's count through a step of a goroutine: a call that begins or ends
\* changes it, and a panic leaves the one of a worker that is not there.
Begins(t) ==
    /\ task[t].worker \in open /\ Stands(t, "make") /\ task'[t].at = "wait" /\ Same(t)
    /\ inflight' = [inflight EXCEPT ![task[t].worker] = @ + 1]

Stops(t) ==
    /\ Stands(t, "wait") /\ task'[t].at # "wait"
    /\ inflight' = [inflight EXCEPT ![task[t].worker] = @ - 1]

Stays(t) ==
    /\ UNCHANGED inflight /\ task'[t].at # "wait"
    /\ Stands(t, "wait") => task[t].worker \notin open

LEMMA CountKinds ==
    ASSUME Types, NEW t \in Tasks, Goroutine(t)
    PROVE  UNCHANGED open /\ (Begins(t) \/ Stops(t) \/ Stays(t))
<1> USE DEF Goto, poolVars, Same, Stands, worldVars
<1>1. task \in [Tasks -> Rec] /\ task[t] \in Rec
  BY DEF Types
<1>2. Over.at = "over" /\ \A w : At("make", w).at = "make"
  BY DEF Over, At
<1>3. CallFails(t) \/ CallSucceeds(t) =>
        \/ Stands(t, "wait") /\ inflight' = [inflight EXCEPT ![task[t].worker] = @ - 1]
        \/ Stands(t, "make") /\ UNCHANGED inflight
  BY DEF CallFails, CallSucceeds, Count
<1>4. CASE MakeEmpty(t)
  BY <1>1, <1>2, <1>4 DEF MakeEmpty, Stays
<1>5. CASE Send(t)
  BY <1>1, <1>5 DEF Send, Begins, Count, Rec
<1>6. CASE Panic(t)
  BY <1>1, <1>2, <1>6 DEF Panic, Stays
<1>7. CASE NextBatch(t)
  BY <1>1, <1>2, <1>3, <1>7 DEF NextBatch, CallSucceeds, Stops
<1>8. CASE FailBatch(t)
  BY <1>1, <1>2, <1>3, <1>8 DEF FailBatch, Stops, Stays
<1>9. CASE Succeed(t)
  BY <1>1, <1>3, <1>9 DEF Succeed, CallSucceeds, Stops, Rec
<1>10. CASE Fail(t)
  BY <1>1, <1>3, <1>10 DEF Fail, Stops, Stays, Rec
<1>11. CASE Free(t)
  BY <1>1, <1>11 DEF Free, Stays, Rec
<1>12. CASE Signal(t)
  BY <1>1, <1>2, <1>12 DEF Signal, AfterRelease, Stays, Rec
<1>13. CASE Acquire(t)
  BY <1>1, <1>13 DEF Acquire, Stays, Rec
<1>14. CASE Sleep(t)
  BY <1>1, <1>14 DEF Sleep, Stays, Rec
<1>15. CASE Wake(t)
  BY <1>1, <1>15 DEF Wake, Stays, Rec
<1> QED BY <1>4, <1>5, <1>6, <1>7, <1>8, <1>9, <1>10, <1>11, <1>12, <1>13, <1>14, <1>15
        DEF Goroutine

LEMMA CountStep ==
    ASSUME Types, PoolInv, TaskInv, CallerInv, CountInv, Next
    PROVE  CountInv'
<1>1. CASE List
  <2>1. \A t \in Tasks : task'[t].at # "wait"
    BY <1>1, ListTasks
  <2>2. \A t \in Tasks : task[t].at # "wait"
    BY <1>1 DEF List, TaskInv
  <2>3. UNCHANGED <<open, inflight>>
    BY <1>1, ListFacts DEF worldVars
  <2> QED BY <2>1, <2>2, <2>3 DEF CountInv, IsSentTo, Stands
<1>2. ASSUME NEW t \in Tasks, Goroutine(t)
      PROVE  CountInv'
  <2>1. \A s \in Tasks : s # t => task'[s] = task[s]
    BY <1>2, TaskMove
  <2>2. UNCHANGED open /\ task[t].worker \in Workers /\ inflight \in [Workers -> Nat]
    BY <1>2, CountKinds DEF Types, Rec
  <2> SUFFICES ASSUME NEW w \in Workers
               PROVE  /\ IsSentTo(w)' => inflight'[w] > 0
                      /\ w \in open => inflight'[w] = IF IsSentTo(w)' THEN 1 ELSE 0
    BY <2>2 DEF CountInv
  <2>3. inflight[w] \in Nat /\ (IsSentTo(w) => inflight[w] > 0)
        /\ (w \in open => inflight[w] = IF IsSentTo(w) THEN 1 ELSE 0)
    BY <2>2 DEF CountInv
  <2>4. IsSentTo(w)' <=> \E s \in Tasks : task'[s].at = "wait" /\ task'[s].worker = w
    BY DEF IsSentTo, Stands
  <2>5. ASSUME Stands(t, "wait") \/ Stands(t, "make"), task[t].worker = w,
               NEW s \in Tasks, s # t
        PROVE  ~ (task'[s].at = "wait" /\ task'[s].worker = w)
    BY <2>1, <2>5 DEF PoolInv, Holds, Stands
  <2>6. ASSUME task[t].worker # w, task'[t].at # "wait" \/ task'[t].worker = task[t].worker
        PROVE  IsSentTo(w)' <=> IsSentTo(w)
    BY <2>1, <2>4, <2>6 DEF IsSentTo, Stands
  <2>7. CASE Begins(t)
    <3>1. CASE task[t].worker = w
      <4>1. IsSentTo(w)' /\ w \in open
        BY <2>4, <2>7, <3>1 DEF Begins, Same
      <4>2. ~IsSentTo(w)
        BY <2>1, <2>5, <2>7, <3>1 DEF Begins, IsSentTo, Stands
      <4>3. inflight'[w] = inflight[w] + 1
        BY <2>2, <2>7, <3>1 DEF Begins
      <4> QED BY <2>3, <4>1, <4>2, <4>3
    <3>2. CASE task[t].worker # w
      <4>1. inflight'[w] = inflight[w]
        BY <2>2, <2>7, <3>2 DEF Begins
      <4>2. IsSentTo(w)' <=> IsSentTo(w)
        BY <2>6, <2>7, <3>2 DEF Begins, Same
      <4> QED BY <2>3, <4>1, <4>2
    <3> QED BY <3>1, <3>2
  <2>8. CASE Stops(t)
    <3>1. CASE task[t].worker = w
      <4>1. IsSentTo(w) /\ ~IsSentTo(w)'
        BY <2>4, <2>5, <2>8, <3>1 DEF Stops, IsSentTo
      <4>2. inflight'[w] = inflight[w] - 1
        BY <2>2, <2>8, <3>1 DEF Stops
      <4> QED BY <2>3, <4>1, <4>2
    <3>2. CASE task[t].worker # w
      <4>1. inflight'[w] = inflight[w]
        BY <2>2, <2>8, <3>2 DEF Stops
      <4>2. IsSentTo(w)' <=> IsSentTo(w)
        BY <2>6, <2>8, <3>2 DEF Stops
      <4> QED BY <2>3, <4>1, <4>2
    <3> QED BY <3>1, <3>2
  <2>9. CASE Stays(t)
    <3>1. inflight'[w] = inflight[w] /\ (IsSentTo(w)' => IsSentTo(w))
      BY <2>1, <2>4, <2>9 DEF Stays, IsSentTo, Stands
    <3>2. w \in open => (IsSentTo(w)' <=> IsSentTo(w))
      <4>1. w \in open => ~ (Stands(t, "wait") /\ task[t].worker = w)
        BY <2>9 DEF Stays
      <4>2. IsSentTo(w) /\ w \in open => IsSentTo(w)'
        BY <2>1, <2>4, <4>1 DEF IsSentTo, Stands
      <4> QED BY <3>1, <4>2
    <3> QED BY <2>3, <3>1, <3>2
  <2> QED BY <1>2, <2>7, <2>8, <2>9, CountKinds
<1>3. CASE UNCHANGED <<task, inflight>> /\ open' \subseteq open
  BY <1>3 DEF CountInv, IsSentTo, Stands
<1> QED BY <1>1, <1>2, <1>3, OtherSteps

-----------------------------------------------------------------------------
(* The results and the answer.                                             *)

\* What was sent stays sent.
LEMMA ReportedStays ==
    ASSUME Types, TaskInv, CallerInv, NEW t \in Tasks, Goroutine(t), NEW s \in Tasks, Reported(s)
    PROVE  Reported(s)'
<1>1. CASE s # t
  <2>1. task'[s] = task[s]
    BY <1>1, TaskMove
  <2> QED BY <2>1 DEF Reported, Failed, Stands
<1>2. CASE s = t
  <2>1. task[t].at # "over"
    BY DEF Goroutine, MakeEmpty, Send, Panic, NextBatch, FailBatch, Succeed, Fail, Free,
         Signal, Acquire, Sleep, Wake, Stands, CallFails, CallSucceeds
  <2>2. task[t].at \in {"free", "signal"} /\ task[t].worker \notin task[t].attempted
    BY <1>2, <2>1 DEF Reported, Failed, Stands
  <2>3. CASE Ends(t)
    BY <1>2, <2>3 DEF Ends, Reported, Stands
  <2>4. CASE Releases(t)
    BY <1>2, <2>2, <2>4 DEF Releases, Same, Reported, Failed
  <2>5. CASE Gets(t) \/ Calls(t) \/ Returns(t) \/ Tries(t)
    BY <2>2, <2>5 DEF Gets, Calls, Returns, Tries, Failed, Stands
  <2> QED BY <2>3, <2>4, <2>5, TaskKinds
<1> QED BY <1>1, <1>2

\* A goroutine sends the result of its own chunk, once.
Sends(t) ==
    /\ main = "collect" /\ ~Reported(t) /\ Reported(t)'
    /\ \E ok \in BOOLEAN : results' = Append(results, [chunk |-> t, ok |-> ok])

LEMMA ReportKinds ==
    ASSUME Types, TaskInv, NEW t \in Tasks, Goroutine(t)
    PROVE  results' = results \/ Sends(t)
<1> USE DEF mainVars, Stands
<1>1. task \in [Tasks -> Rec] /\ task[t] \in Rec
  BY DEF Types
<1>2. ASSUME NEW ok \in BOOLEAN, Report(t, ok), ~Reported(t), Reported(t)'
      PROVE  results' = results \/ Sends(t)
  BY <1>2 DEF Report, Sends
<1>3. task' = [task EXCEPT ![t] = Over] => Reported(t)'
  BY <1>1 DEF Reported, Over, At
<1>4. CASE MakeEmpty(t)
  <2>1. ~Reported(t) /\ Reported(t)' /\ Report(t, FALSE)
    BY <1>3, <1>4 DEF MakeEmpty, Reported
  <2> QED BY <1>2, <2>1
<1>5. CASE Succeed(t)
  <2>1. Stands(t, "wait") /\ task' = [task EXCEPT ![t].at = "free"] /\ Report(t, TRUE)
    BY <1>5 DEF Succeed, CallSucceeds, Goto
  <2>2. task[t].worker \notin task[t].attempted
    BY <2>1 DEF TaskInv, Failed
  <2>3. /\ task'[t].at = "free" /\ task'[t].worker = task[t].worker
        /\ task'[t].attempted = task[t].attempted
    BY <1>1, <2>1 DEF Rec
  <2>4. ~Reported(t) /\ Reported(t)'
    BY <2>1, <2>2, <2>3 DEF Reported, Failed
  <2> QED BY <1>2, <2>1, <2>4
<1>6. CASE Signal(t)
  <2>1. \/ results' = results
        \/ task' = [task EXCEPT ![t] = Over] /\ Failed(t) /\ Report(t, FALSE)
    BY <1>6 DEF Signal, AfterRelease
  <2>2. Failed(t) => ~Reported(t)
    BY <1>6 DEF Signal, Reported
  <2> QED BY <1>2, <1>3, <2>1, <2>2
<1> QED BY <1>4, <1>5, <1>6
        DEF Goroutine, Send, Panic, NextBatch, FailBatch, Fail, Free, Acquire, Sleep, Wake

\* The results behind the first.
LEMMA TailFacts ==
    ASSUME Types, results # <<>>
    PROVE  /\ Len(Tail(results)) + 1 = Len(results)
           /\ \A i \in 1 .. Len(Tail(results)) :
                i + 1 \in 1 .. Len(results) /\ Tail(results)[i] = results[i + 1]
  BY DEF Types

LEMMA ResultStep ==
    ASSUME Types, TaskInv, CallerInv, ResultInv, Next
    PROVE  ResultInv'
<1>1. CASE List
  <2>1. results' = <<>>
    BY <1>1, ListFacts DEF List, CallerInv
  <2>2. Len(results') = 0
    BY <2>1
  <2> QED BY <2>2 DEF ResultInv
<1>2. ASSUME NEW t \in Tasks, Goroutine(t)
      PROVE  ResultInv'
  <2>1. \A s \in Tasks : Reported(s) => Reported(s)'
    BY <1>2, ReportedStays
  <2>2. UNCHANGED order
    BY <1>2 DEF Goroutine, MakeEmpty, Send, Panic, NextBatch, FailBatch, Succeed, Fail, Free,
         Signal, Acquire, Sleep, Wake, inputVars
  <2>3. results \in Seq([chunk : Tasks, ok : BOOLEAN]) /\ t \in 1 .. Len(order)
    <3>1. task[t].at # "over"
      BY <1>2 DEF Goroutine, MakeEmpty, Send, Panic, NextBatch, FailBatch, Succeed, Fail, Free,
           Signal, Acquire, Sleep, Wake, Stands, CallFails, CallSucceeds
    <3>2. t <= Len(order) /\ Len(order) \in Nat /\ t \in Nat \ {0}
      BY <3>1 DEF TaskInv, Tasks, Types
    <3> QED BY <3>2 DEF Types
  <2>4. \A i \in 1 .. Len(results) : results[i].chunk \in Tasks
    <3> DEFINE Result == [chunk : Tasks, ok : BOOLEAN]
    <3>1. results \in Seq(Result) /\ \A r \in Result : r.chunk \in Tasks
      BY <2>3
    <3> HIDE DEF Result
    <3>2. \A i \in 1 .. Len(results) : results[i] \in Result
      BY <3>1
    <3> QED BY <3>1, <3>2
  <2>5. CASE results' = results
    BY <2>1, <2>2, <2>4, <2>5 DEF ResultInv
  <2>6. CASE Sends(t)
    <3>1. PICK ok \in BOOLEAN : results' = Append(results, [chunk |-> t, ok |-> ok])
      BY <2>6 DEF Sends
    <3>2. ~Reported(t) /\ Reported(t)'
      BY <2>6 DEF Sends
    <3> DEFINE Result == [chunk : Tasks, ok : BOOLEAN]
               n == Len(results)
    <3>3. results \in Seq(Result) /\ [chunk |-> t, ok |-> ok] \in Result
      BY <2>3
    <3> HIDE DEF Result
    <3>4. /\ n \in Nat /\ Len(results') = n + 1
          /\ results'[n + 1].chunk = t
          /\ \A i \in 1 .. n : results'[i] = results[i]
      BY <3>1, <3>3
    <3> HIDE DEF n
    <3>5. \A i \in 1 .. n : results[i].chunk \in 1 .. Len(order) /\ Reported(results[i].chunk)
                            /\ results[i].chunk \in Tasks
      BY <2>4 DEF ResultInv, n
    <3>6. \A i, k \in 1 .. n : results[i].chunk = results[k].chunk => i = k
      BY DEF ResultInv, n
    <3>7. \A i \in 1 .. n : results[i].chunk # t
      BY <3>2, <3>5
    <3>8. \A i \in 1 .. n + 1 :
            \/ i \in 1 .. n /\ results'[i].chunk = results[i].chunk
            \/ i = n + 1 /\ results'[i].chunk = t
      BY <3>4
    <3>9. \A i \in 1 .. n + 1 : \E c \in 1 .. Len(order) : results'[i].chunk = c /\ Reported(c)'
      <4> TAKE i \in 1 .. n + 1
      <4>1. CASE i \in 1 .. n /\ results'[i].chunk = results[i].chunk
        BY <2>1, <3>5, <4>1
      <4>2. CASE results'[i].chunk = t
        BY <2>3, <3>2, <4>2
      <4> QED BY <3>8, <4>1, <4>2
    <3>10. \A i, k \in 1 .. n + 1 : results'[i].chunk = results'[k].chunk => i = k
      BY <3>6, <3>7, <3>8
    <3> QED BY <2>2, <3>4, <3>9, <3>10 DEF ResultInv
  <2> QED BY <1>2, <2>5, <2>6, ReportKinds
<1>3. CASE UNCHANGED <<order, task>> /\ (Collect \/ results' = results)
  <2>1. \A s : Reported(s)' <=> Reported(s)
    BY <1>3 DEF Reported, Failed, Stands
  <2>2. CASE results' = results
    BY <1>3, <2>1, <2>2 DEF ResultInv
  <2>3. CASE results' = <<>>
    BY <2>3 DEF ResultInv
  <2>4. CASE results # <<>> /\ results' = Tail(results)
    <3>1. /\ Len(results') + 1 = Len(results) /\ Len(results') \in Nat
          /\ \A i \in 1 .. Len(results') :
               i \in Nat /\ i + 1 \in 1 .. Len(results) /\ results'[i] = results[i + 1]
      BY <2>4, TailFacts DEF Types
    <3>2. ASSUME NEW i \in 1 .. Len(results')
          PROVE  results'[i].chunk \in 1 .. Len(order) /\ Reported(results'[i].chunk)
      BY <3>1 DEF ResultInv
    <3>3. ASSUME NEW i \in 1 .. Len(results'), NEW k \in 1 .. Len(results'),
                 results'[i].chunk = results'[k].chunk
          PROVE  i = k
      <4>1. i + 1 = k + 1
        BY <3>1, <3>3 DEF ResultInv
      <4> QED BY <3>1, <4>1
    <3>4. \A i \in 1 .. Len(results') : \E c \in 1 .. Len(order) :
            results'[i].chunk = c /\ Reported(c)'
      BY <2>1, <3>2
    <3> QED BY <1>3, <3>3, <3>4 DEF ResultInv
  <2> QED BY <1>3, <2>2, <2>3, <2>4 DEF Collect
<1>4. CASE /\ UNCHANGED <<inputVars, task, used, inflight, up>> /\ open' \subseteq open
           /\ Collect \/ NoWorker \/ UNCHANGED mainVars
  BY <1>3, <1>4 DEF inputVars, mainVars, NoWorker
<1> QED BY <1>1, <1>2, <1>4, OtherSteps

\* What a goroutine does to the caller: with one worker it is the caller.
LEMMA CallerKinds ==
    ASSUME NEW t \in Tasks, Goroutine(t)
    PROVE  /\ UNCHANGED inputVars
           /\ \/ NextBatch(t)
              \/ main = "single" /\ main' = "over" /\ answer' = "error"
              \/ UNCHANGED <<main, answer, progress, times>>
<1> USE DEF inputVars, mainVars
<1>1. CASE Panic(t) \/ FailBatch(t)
  BY <1>1 DEF Panic, FailBatch, Finish
<1> QED BY <1>1 DEF Goroutine, MakeEmpty, Send, NextBatch, Succeed, Fail, Free, Signal,
        Acquire, Sleep, Wake

\* The next batch follows the elements that are done.
LEMMA NextBatchFacts ==
    ASSUME Types, CallerInv, NEW t \in Tasks, NextBatch(t)
    PROVE  /\ Len(order) = 1 /\ results = <<>> /\ UNCHANGED <<size, order, results>>
           /\ progress' \in Nat /\ progress' <= size
           /\ \A e \in Elements : times'[e] = IF e < progress' THEN 1 ELSE 0
           /\ IF progress' = size THEN main' = "over" ELSE UNCHANGED <<main, answer>>
<1>1. /\ main = "single" /\ AppendChunk(t) /\ Advance(Batch, size)
      /\ UNCHANGED <<inputVars, results>>
  BY DEF NextBatch
<1>2. /\ Len(order) = 1 /\ results = <<>> /\ progress <= size
      /\ \A e \in Elements : times[e] = IF e < progress THEN 1 ELSE 0
  BY <1>1 DEF CallerInv
<1>3. size \in Nat /\ progress \in Nat /\ Batch \in 0 .. size - progress
  BY <1>1, Numbers, BatchType
<1>4. progress' = progress + Batch
  BY <1>1 DEF Advance
<1>5. ASSUME NEW e \in Elements
      PROVE  times'[e] = IF e < progress' THEN 1 ELSE 0
  <2>1. times'[e] = IF e \in progress .. progress + Batch - 1 THEN times[e] + 1 ELSE times[e]
    BY <1>1 DEF AppendChunk, Chunk
  <2>2. e \in Nat /\ times[e] = IF e < progress THEN 1 ELSE 0
    BY <1>2 DEF Elements
  <2>3. CASE e < progress
    BY <1>3, <1>4, <2>1, <2>2, <2>3
  <2>4. CASE e \in progress .. progress + Batch - 1
    BY <1>3, <1>4, <2>1, <2>2, <2>4
  <2>5. CASE ~ (e < progress) /\ e \notin progress .. progress + Batch - 1
    BY <1>3, <1>4, <2>1, <2>2, <2>5
  <2> QED BY <2>3, <2>4, <2>5
<1> QED BY <1>1, <1>2, <1>3, <1>4, <1>5 DEF inputVars, Advance, Finish

LEMMA CallerListStep ==
    ASSUME Types, CallerInv, List
    PROVE  CallerInv'
<1>1. /\ main = "list" /\ progress = 0 /\ results = <<>> /\ answer = "none"
      /\ \A e \in Elements : times[e] = 0
  BY DEF List, CallerInv
<1>2. UNCHANGED <<size, answer, progress, results, times>>
  BY ListFacts
<1>3. size \in Nat \ {0}
  BY Numbers
<1>4. main' = "single" => Len(order') = 1
  BY ListFacts
<1>5. main' \in {"single", "collect"}
  BY ListFacts
<1>6. CutInv'
  <2>1. order' \in Seq(Workers) /\ Len(order') # 0 /\ cut' = Cuts(order')
    BY ListFacts
  <2>2. ASSUME NEW o \in Seq(Workers), Len(o) # 0
        PROVE  /\ Cuts(o)[0] = 0 /\ Cuts(o)[Len(o)] = size
               /\ \A i \in 1 .. Len(o) : Cuts(o)[i - 1] <= Cuts(o)[i]
    BY <1>3, <2>2, CutsFacts
  <2>3. /\ cut'[0] = 0 /\ cut'[Len(order')] = size
        /\ \A i \in 1 .. Len(order') : cut'[i - 1] <= cut'[i]
    BY <2>1, <2>2
  <2>4. Len(order') > 0
    BY ListFacts
  <2> QED BY <1>2, <2>3, <2>4 DEF CutInv
<1>7. Collected({})'
  <2>1. Len(results') = 0 /\ progress' = 0
    BY <1>1, <1>2
  <2>2. \A e \in Elements : times'[e] = 0
    BY <1>1, <1>2
  <2> QED BY <2>1, <2>2, FS_EmptySet DEF Collected
<1>8. \A e \in Elements : times'[e] = IF e < progress' THEN 1 ELSE 0
  <2>1. \A e \in Elements : e \in Nat
    BY DEF Elements
  <2> QED BY <1>1, <1>2, <2>1
<1>9. main' = "collect" => \E done \in SUBSET (1 .. Len(order')) : Collected(done)'
  BY <1>7
<1> QED BY <1>1, <1>2, <1>3, <1>4, <1>5, <1>6, <1>8, <1>9 DEF CallerInv

LEMMA CollectedStays ==
    ASSUME Types, TaskInv, CallerInv, NEW t \in Tasks, Goroutine(t),
           UNCHANGED <<progress, times>>,
           NEW done \in SUBSET (1 .. Len(order)), Collected(done)
    PROVE  Collected(done)'
<1>1. UNCHANGED cut
  BY CallerKinds DEF inputVars
<1>2. \A s \in done : s \in Tasks /\ Reported(s) /\ Reported(s)'
  BY ReportedStays DEF Collected
<1>3. CASE results' = results
  BY <1>1, <1>2, <1>3 DEF Collected
<1>4. CASE Sends(t)
  <2>1. t \notin done
    BY <1>2, <1>4 DEF Sends
  <2>2. PICK ok \in BOOLEAN : results' = Append(results, [chunk |-> t, ok |-> ok])
    BY <1>4 DEF Sends
  <2> DEFINE Result == [chunk : Tasks, ok : BOOLEAN]
             n == Len(results)
  <2>3. results \in Seq(Result) /\ [chunk |-> t, ok |-> ok] \in Result
    BY DEF Types
  <2> HIDE DEF Result
  <2>4. /\ n \in Nat /\ Len(results') = n + 1
        /\ results'[n + 1].chunk = t
        /\ \A i \in 1 .. n : results'[i] = results[i]
    BY <2>2, <2>3
  <2>5. \A i \in 1 .. n : results[i].chunk \notin done
    BY DEF Collected
  <2> HIDE DEF n
  <2>6. \A i \in 1 .. n + 1 : results'[i].chunk \notin done
    <3> TAKE i \in 1 .. n + 1
    <3>1. CASE i = n + 1
      BY <2>1, <2>4, <3>1
    <3>2. CASE i # n + 1
      <4>1. i \in 1 .. n
        BY <2>4, <3>2
      <4> QED BY <2>4, <2>5, <4>1
    <3> QED BY <3>1, <3>2
  <2> QED BY <1>1, <1>2, <2>4, <2>6 DEF Collected
<1> QED BY <1>3, <1>4, ReportKinds

LEMMA CallerCollectStep ==
    ASSUME Types, ResultInv, CallerInv, Collect
    PROVE  CallerInv'
<1>1. main = "collect" /\ results # <<>> /\ UNCHANGED <<inputVars, task>>
  BY DEF Collect
<1>2. CASE main' = "over"
  BY <1>2 DEF CallerInv
<1>3. CASE main' # "over"
  <2>1. /\ Head(results).ok /\ UNCHANGED <<main, answer>>
        /\ progress' = progress + 1 /\ results' = Tail(results)
    BY <1>3 DEF Collect, Advance, Finish
  <2>2. PICK c \in 1 .. Len(order), done \in SUBSET (1 .. Len(order)) : Takes(c, done)
    BY <2>1, CollectOne
  <2>3. /\ c = Head(results).chunk
        /\ Collected(done) /\ c \notin done
        /\ Cardinality(done \cup {c}) = progress + 1
        /\ \A e \in Elements : times'[e] =
             IF \E t \in done \cup {c} : e \in cut[t - 1] .. cut[t] - 1 THEN 1 ELSE 0
    BY <2>2 DEF Takes
  <2>4. \A s : Reported(s)' <=> Reported(s)
    BY <1>1 DEF Reported, Failed, Stands
  <2>5. c = results[1].chunk /\ 1 \in 1 .. Len(results) /\ Len(results) \in Nat
    BY <1>1, <2>3 DEF Types
  <2>6. c \in Tasks /\ Reported(c)
    <3>1. c \in 1 .. Len(order) /\ Reported(c)
      BY <2>5 DEF ResultInv
    <3>2. \A r \in [chunk : Tasks, ok : BOOLEAN] : r.chunk \in Tasks
      OBVIOUS
    <3>3. results[1] \in [chunk : Tasks, ok : BOOLEAN]
      <4> DEFINE Result == [chunk : Tasks, ok : BOOLEAN]
      <4>1. results \in Seq(Result)
        BY DEF Types
      <4> HIDE DEF Result
      <4>2. results[1] \in Result
        BY <2>5, <4>1
      <4> QED BY <4>2 DEF Result
    <3> QED BY <2>5, <3>1, <3>2, <3>3
  <2>7. \A i \in 1 .. Len(results') : results'[i].chunk \notin done \cup {c}
    <3> TAKE i \in 1 .. Len(results')
    <3>1. i \in Nat \ {0} /\ i + 1 \in 1 .. Len(results) /\ results'[i] = results[i + 1]
      <4>1. results' \in Seq([chunk : Tasks, ok : BOOLEAN]) \/ Len(results') \in Nat
        BY <1>1, <2>1, <2>5, TailFacts
      <4> QED BY <1>1, <2>1, TailFacts
    <3>2. results[i + 1].chunk \notin done
      BY <2>3, <3>1 DEF Collected
    <3>3. results[i + 1].chunk # c
      <4>1. i + 1 # 1
        BY <3>1
      <4> QED BY <2>5, <3>1, <4>1 DEF ResultInv
    <3> QED BY <3>1, <3>2, <3>3
  <2> DEFINE all == done \cup {c}
  <2>8. all \in SUBSET (1 .. Len(order)) /\ UNCHANGED <<order, cut>>
    BY <1>1, <2>3 DEF inputVars
  <2>9. \A s \in all : s \in Tasks /\ Reported(s)'
    BY <2>3, <2>4, <2>6 DEF Collected
  <2>10. /\ Cardinality(all) = progress'
         /\ \A i \in 1 .. Len(results') : results'[i].chunk \notin all
         /\ \A e \in Elements : times'[e] =
              IF \E t \in all : e \in cut[t - 1] .. cut[t] - 1 THEN 1 ELSE 0
    BY <2>1, <2>3, <2>7
  <2> HIDE DEF all
  <2>11. Collected(all)'
    BY <2>8, <2>9, <2>10 DEF Collected
  <2>12. CutInv'
    BY <1>1 DEF CallerInv, CutInv, inputVars
  <2> QED BY <1>1, <2>1, <2>8, <2>11, <2>12 DEF CallerInv
<1> QED BY <1>2, <1>3

LEMMA CallerStep ==
    ASSUME Types, TaskInv, ResultInv, CallerInv, Next
    PROVE  CallerInv'
<1>1. CASE main' = "over"
  BY <1>1 DEF CallerInv
<1>2. ASSUME NEW t \in Tasks, Goroutine(t)
      PROVE  CallerInv'
  <2>1. CASE NextBatch(t)
    <3>1. main = "single" /\ answer = "none"
      BY <2>1 DEF NextBatch, CallerInv
    <3> QED BY <1>1, <2>1, <3>1, NextBatchFacts DEF CallerInv
  <2>2. CASE UNCHANGED <<main, answer, progress, times>>
    <3>1. UNCHANGED <<size, order, cut>>
      BY <1>2, CallerKinds DEF inputVars
    <3>2. main # "collect" => results' = results
      BY <1>2, ReportKinds DEF Sends
    <3>3. main = "collect" => CutInv'
      BY <3>1 DEF CallerInv, CutInv
    <3>4. ASSUME main = "collect"
          PROVE  \E done \in SUBSET (1 .. Len(order')) : Collected(done)'
      <4>1. PICK done \in SUBSET (1 .. Len(order)) : Collected(done)
        BY <3>4 DEF CallerInv
      <4>2. Collected(done)'
        BY <1>2, <2>2, <4>1, CollectedStays
      <4> QED BY <3>1, <4>2
    <3>5. CASE main = "collect"
      BY <2>2, <3>3, <3>4, <3>5 DEF CallerInv
    <3>6. CASE main # "collect"
      BY <2>2, <3>1, <3>2, <3>6 DEF CallerInv
    <3> QED BY <3>5, <3>6
  <2> QED BY <1>1, <1>2, <2>1, <2>2, CallerKinds
<1>3. CASE UNCHANGED <<inputVars, task, mainVars>>
  <2>1. UNCHANGED <<size, order, cut, task, main, answer, progress, results, times>>
    BY <1>3 DEF inputVars, mainVars
  <2>2. main = "collect" => CutInv'
    BY <2>1 DEF CallerInv, CutInv
  <2>3. ASSUME main = "collect"
        PROVE  \E done \in SUBSET (1 .. Len(order')) : Collected(done)'
    <3>1. PICK done \in SUBSET (1 .. Len(order)) : Collected(done)
      BY <2>3 DEF CallerInv
    <3>2. Collected(done)'
      BY <2>1, <3>1 DEF Collected, Reported, Failed, Stands
    <3> QED BY <2>1, <3>2
  <2>4. CASE main = "collect"
    BY <2>1, <2>2, <2>3, <2>4 DEF CallerInv
  <2>5. CASE main # "collect"
    BY <2>1, <2>5 DEF CallerInv
  <2> QED BY <2>4, <2>5
<1>4. CASE NoWorker
  BY <1>1, <1>4 DEF NoWorker, Finish
<1>5. CASE UNCHANGED <<inputVars, task>> /\ (Collect \/ NoWorker \/ UNCHANGED mainVars)
  BY <1>3, <1>4, <1>5, CallerCollectStep
<1> QED BY <1>2, <1>5, CallerListStep, OtherSteps

\* With the last result every element of the input is done, and no other.
LEMMA LastResult ==
    ASSUME Types, ResultInv, CallerInv, Collect, answer' = "ok"
    PROVE  \A e \in Elements : times'[e] = IF e < size THEN 1 ELSE 0
<1> DEFINE n == Len(order)
<1>1. main = "collect" /\ answer = "none" /\ CutInv
  BY DEF Collect, CallerInv
<1>2. Head(results).ok /\ progress + 1 = n
  BY <1>1 DEF Collect, Advance, Finish
<1>3. PICK done : done = 1 .. n /\ \A e \in Elements :
        times'[e] = IF \E t \in done : e \in cut[t - 1] .. cut[t] - 1 THEN 1 ELSE 0
  <2>1. PICK c \in 1 .. n, done \in SUBSET (1 .. n) : Takes(c, done)
    BY <1>2, CollectOne
  <2> QED BY <1>2, <2>1 DEF Takes
<1> TAKE e \in Elements
<1>4. e \in Nat /\ size \in Nat
  BY Numbers DEF Elements
<1>5. times'[e] = IF \E t \in 1 .. n : e \in cut[t - 1] .. cut[t] - 1 THEN 1 ELSE 0
  BY <1>3
<1>6. CASE e < size
  <2>1. e \in 0 .. size - 1
    BY <1>4, <1>6
  <2>2. \E t \in 1 .. n : e \in cut[t - 1] .. cut[t] - 1
    BY <1>1, <2>1, ChunksCover
  <2> QED BY <1>5, <1>6, <2>2
<1>7. CASE ~ (e < size)
  <2>1. ASSUME NEW t \in 1 .. n, e \in cut[t - 1] .. cut[t] - 1
        PROVE  FALSE
    <3>1. t \in 0 .. n
      BY Numbers
    <3>2. cut[t] \in Nat /\ cut[t] <= size
      BY <3>1, Numbers
    <3> QED BY <1>4, <1>7, <2>1, <3>2
  <2> QED BY <1>5, <1>7, <2>1
<1> QED BY <1>6, <1>7

LEMMA AnswerStep ==
    ASSUME Types, ResultInv, CallerInv, AnswerIsWhole, Next
    PROVE  AnswerIsWhole'
<1>1. CASE UNCHANGED <<size, answer, times>> \/ answer' # "ok"
  BY <1>1 DEF AnswerIsWhole
<1>2. ASSUME NEW t \in Tasks, Goroutine(t)
      PROVE  AnswerIsWhole'
  <2>1. UNCHANGED size
    BY <1>2, CallerKinds DEF inputVars
  <2>2. CASE NextBatch(t)
    <3>1. answer = "none"
      BY <2>2 DEF NextBatch, CallerInv
    <3>2. CASE progress' = size
      BY <2>1, <2>2, <3>2, NextBatchFacts DEF AnswerIsWhole
    <3>3. CASE progress' # size
      BY <1>1, <2>2, <3>1, <3>3, NextBatchFacts
    <3> QED BY <3>2, <3>3
  <2> QED BY <1>1, <1>2, <2>1, <2>2, CallerKinds
<1>3. CASE Collect
  <2>1. UNCHANGED size
    BY <1>3 DEF Collect, inputVars
  <2> QED BY <1>3, <2>1, LastResult DEF AnswerIsWhole
<1>4. CASE NoWorker
  BY <1>1, <1>4 DEF NoWorker, Finish
<1>5. CASE List
  BY <1>1, <1>5, ListFacts
<1>6. CASE UNCHANGED <<inputVars, mainVars>>
  BY <1>1, <1>6 DEF inputVars, mainVars
<1> QED BY <1>2, <1>3, <1>4, <1>5, <1>6, OtherSteps

-----------------------------------------------------------------------------
(* The theorems.                                                           *)

LEMMA PartitionInit ==
    ASSUME Init
    PROVE  PartitionInv
<1>1. \A t \in Tasks : task[t] = Over
  BY DEF Init
<1>2. Over.at = "over" /\ Over \in Rec
  <2>1. \E w : w \in Workers
    BY PartitionAssumption
  <2> QED BY <2>1, OverType
<1>3. \A t \in Tasks : task[t].at = "over"
  BY <1>1, <1>2
<1>4. ResultInv
  BY DEF Init, ResultInv
<1>5. Types
  <2>1. task \in [Tasks -> Rec]
    BY <1>2 DEF Init
  <2>2. /\ size \in 1 .. MaxSize /\ size \in Nat /\ MaxSize \in Nat \ {0} /\ MaxParallel \in Nat
        /\ Len(order) = 0 /\ order \in Seq(Workers)
    BY PartitionAssumption DEF Init
  <2>3. cut \in [0 .. Len(order) -> 0 .. size]
    BY <2>2 DEF Init
  <2>4. progress \in 0 .. MaxSize /\ times \in [Elements -> Nat]
    BY <2>2 DEF Init
  <2>5. /\ open \subseteq Workers /\ gone \in BOOLEAN /\ up \in BOOLEAN
        /\ used \subseteq Workers /\ cond \in BOOLEAN
        /\ inflight \in [Workers -> Nat] /\ main = "list" /\ answer = "none"
    BY DEF Init
  <2>6. results \in Seq([chunk : Tasks, ok : BOOLEAN])
    BY DEF Init
  <2>7. Len(order) <= MaxParallel /\ Len(order) <= size
    BY <2>2
  <2>8. main \in {"list", "single", "collect", "over"} /\ answer \in {"none", "ok", "error"}
    BY <2>5
  <2> QED BY <2>1, <2>2, <2>3, <2>4, <2>5, <2>6, <2>7, <2>8 DEF Types
<1>6. PoolInv /\ TaskInv
  BY <1>3 DEF PoolInv, TaskInv, Holds
<1>7. CountInv
  BY <1>3 DEF Init, CountInv, IsSentTo, Stands
<1>8. CallerInv /\ AnswerIsWhole
  BY DEF Init, CallerInv, AnswerIsWhole
<1> QED BY <1>4, <1>5, <1>6, <1>7, <1>8, TypesAndResults DEF PartitionInv

LEMMA PartitionNext ==
    ASSUME PartitionInv, [Next]_vars
    PROVE  PartitionInv'
<1>1. CASE Next
  <2>1. Types /\ ResultInv /\ PoolInv /\ CountInv /\ TaskInv /\ CallerInv /\ AnswerIsWhole
    BY TypesAndResults DEF PartitionInv
  <2>2. Types' /\ ResultInv'
    BY <1>1, <2>1, TypesStep, ResultStep
  <2>3. TypeOK'
    BY <2>2, TypesAndResults, PTL
  <2> QED BY <1>1, <2>1, <2>2, <2>3, PoolStep, CountStep, TaskInvStep, CallerStep, AnswerStep
          DEF PartitionInv
<1>2. CASE UNCHANGED vars
  <2>1. UNCHANGED <<size, order, cut, main, answer, progress, results, times, open, gone,
                    up, task, used, cond, inflight>>
    BY <1>2 DEF vars, inputVars, mainVars, worldVars, poolVars
  <2>2. TypeOK'
    BY <2>1 DEF PartitionInv, TypeOK
  <2>3. PoolInv' /\ CountInv' /\ TaskInv'
    BY <2>1 DEF PartitionInv, PoolInv, Holds, CountInv, IsSentTo, Stands, TaskInv, Failed
  <2>4. ResultInv' /\ AnswerIsWhole'
    BY <2>1 DEF PartitionInv, ResultInv, Reported, Failed, Stands, AnswerIsWhole
  <2>5. CallerInv'
    BY <2>1 DEF PartitionInv, CallerInv, CutInv, Collected, Reported, Failed, Stands
  <2> QED BY <2>2, <2>3, <2>4, <2>5 DEF PartitionInv
<1> QED BY <1>1, <1>2

LEMMA PartitionInvHolds == Spec => []PartitionInv
  BY PartitionInit, PartitionNext, PTL DEF Spec

\* Every variable keeps its type; resCh has a slot for every result, and the
\* count of a worker never falls below zero.
THEOREM PartitionTypes == Spec => []TypeOK
<1>1. PartitionInv => TypeOK
  BY DEF PartitionInv
<1> QED BY <1>1, PartitionInvHolds, PTL

\* A worker that is there has one chunk of the request at a time, and that is
\* what is counted on it: partitionPool gives a worker to one goroutine until
\* that one's release, whatever fails and whoever is woken.
THEOREM AWorkerHasOneChunk == Spec => []OneChunkPerWorker
<1>1. PartitionInv => OneChunkPerWorker
  <2> SUFFICES ASSUME PartitionInv, NEW w \in open
               PROVE  LET sent == {t \in Tasks : Stands(t, "wait") /\ task[t].worker = w}
                      IN  inflight[w] = Cardinality(sent) /\ inflight[w] <= 1
    BY DEF OneChunkPerWorker
  <2> DEFINE sent == {t \in Tasks : Stands(t, "wait") /\ task[t].worker = w}
  <2>1. w \in Workers
    BY DEF PartitionInv, TypeOK
  <2>2. inflight[w] = IF IsSentTo(w) THEN 1 ELSE 0
    BY <2>1 DEF PartitionInv, CountInv
  <2>3. CASE IsSentTo(w)
    <3>1. PICK t \in Tasks : Stands(t, "wait") /\ task[t].worker = w
      BY <2>3 DEF IsSentTo
    <3>2. sent = {t}
      BY <3>1 DEF PartitionInv, PoolInv, Holds, Stands
    <3> HIDE DEF sent
    <3>3. Cardinality(sent) = 1
      BY <3>2, FS_Singleton
    <3>4. inflight[w] = Cardinality(sent) /\ inflight[w] <= 1
      BY <2>2, <2>3, <3>3
    <3> QED BY <3>4 DEF sent
  <2>4. CASE ~IsSentTo(w)
    <3>1. sent = {}
      BY <2>4 DEF IsSentTo
    <3>2. inflight[w] = Cardinality(sent) /\ inflight[w] <= 1
      BY <2>2, <2>4, <3>1, FS_EmptySet
    <3> QED BY <3>2
  <2> QED BY <2>3, <2>4
<1> QED BY <1>1, PartitionInvHolds, PTL

\* An answer that HandlePartitionedJob writes has every element of the input
\* once, for inputs of any size, however the batch sizes of the workers divide
\* it, in whatever order the results come and whoever answered in the end.
THEOREM AnswersAreWhole == Spec => []AnswerIsWhole
<1>1. PartitionInv => AnswerIsWhole
  BY DEF PartitionInv
<1> QED BY <1>1, PartitionInvHolds, PTL
=============================================================================

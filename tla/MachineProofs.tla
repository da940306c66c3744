--------------------------- MODULE MachineProofs ---------------------------
(***************************************************************************)
(* Proofs about Machine, for any setups, values and traces: the search of  *)
(* a check finds an order exactly when there is one, a subject that is     *)
(* correct is at every step what its model makes of its calls, and so a    *)
(* machine decides its steps on the state of its subject, and passes when, *)
(* and only when, its history is linearizable; and a case that follows the *)
(* trace of another makes its calls.                                       *)
(***************************************************************************)
EXTENDS Machine, HistoryProofs

---------------------------------------------------------------------------
(* The models of the subjects, and the states that follow a call.          *)

MachineModels == Held(QueueModels) \cup {"counter", "reading-counter", "ticks", "register"}

\* Each capacity has a model of its own.
LEMMA QueueModelsAre ==
    /\ DOMAIN QueueModels = 1..8
    /\ Held(QueueModels) = {"queue of 1", "queue of 2", "queue of 3", "queue of 4",
                            "queue of 5", "queue of 6", "queue of 7", "queue of 8"}
    /\ \A c \in 1..8 : QueueModels[c] \in Held(QueueModels) /\ CapacityOf(QueueModels[c]) = c
<1>1. DOMAIN QueueModels = 1..8
  BY DEF QueueModels
<1>2. \A c \in 1..8 : c = 1 \/ c = 2 \/ c = 3 \/ c = 4 \/ c = 5 \/ c = 6 \/ c = 7 \/ c = 8
  OBVIOUS
<1>3. /\ QueueModels[1] = "queue of 1" /\ QueueModels[2] = "queue of 2"
      /\ QueueModels[3] = "queue of 3" /\ QueueModels[4] = "queue of 4"
      /\ QueueModels[5] = "queue of 5" /\ QueueModels[6] = "queue of 6"
      /\ QueueModels[7] = "queue of 7" /\ QueueModels[8] = "queue of 8"
  BY DEF QueueModels
<1>4. Held(QueueModels) = {"queue of 1", "queue of 2", "queue of 3", "queue of 4",
                           "queue of 5", "queue of 6", "queue of 7", "queue of 8"}
  <2>1. Held(QueueModels) = {QueueModels[c] : c \in 1..8}
    BY <1>1 DEF Held
  <2>2. ASSUME NEW x \in {QueueModels[c] : c \in 1..8}
        PROVE  x \in {"queue of 1", "queue of 2", "queue of 3", "queue of 4",
                     "queue of 5", "queue of 6", "queue of 7", "queue of 8"}
    BY <1>2, <1>3
  <2>3. /\ QueueModels[1] \in Held(QueueModels) /\ QueueModels[2] \in Held(QueueModels)
        /\ QueueModels[3] \in Held(QueueModels) /\ QueueModels[4] \in Held(QueueModels)
        /\ QueueModels[5] \in Held(QueueModels) /\ QueueModels[6] \in Held(QueueModels)
        /\ QueueModels[7] \in Held(QueueModels) /\ QueueModels[8] \in Held(QueueModels)
    BY <2>1
  <2>4. {"queue of 1", "queue of 2", "queue of 3", "queue of 4",
         "queue of 5", "queue of 6", "queue of 7", "queue of 8"} \subseteq Held(QueueModels)
    BY <1>3, <2>3
  <2> QED BY <2>1, <2>2, <2>4
<1>5. \A c, d \in 1..8 : QueueModels[c] = QueueModels[d] => c = d
  BY <1>2, <1>3
<1>6. ASSUME NEW c \in 1..8 PROVE QueueModels[c] \in Held(QueueModels) /\ CapacityOf(QueueModels[c]) = c
  BY <1>1, <1>5 DEF CapacityOf, Held
<1> QED BY <1>1, <1>4, <1>6

\* The steps of a bounded queue are those of its capacity.
LEMMA QueueStep ==
    ASSUME NEW c \in 1..8, NEW s, NEW op
    PROVE  StepOf(QueueModels[c], s, op) = BoundedQueue(c, s, op) /\ InitOf(QueueModels[c]) = <<>>
<1>1. PICK name : name = QueueModels[c]
  OBVIOUS
<1>2. name \in Held(QueueModels) /\ CapacityOf(name) = c
  BY <1>1, QueueModelsAre
<1>3. name \notin ModelNames /\ name \notin {"counter", "reading-counter", "ticks"}
  BY <1>2, QueueModelsAre DEF ModelNames
<1>4. InitOf(name) = <<>>
  BY <1>2, <1>3 DEF InitOf, ModelNames
<1>5. StepOf(name, s, op) = BoundedQueue(CapacityOf(name), s, op)
  BY <1>2, <1>3 DEF StepOf, ModelNames
<1> QED BY <1>1, <1>2, <1>4, <1>5

LEMMA StepsAreListed ==
    ASSUME NEW name \in MachineModels, NEW s, NEW op
    PROVE  Listed(StepOf(name, s, op))
<1>1. CASE name \in Held(QueueModels)
  <2>1. PICK c \in 1..8 : name = QueueModels[c]
    BY <1>1, QueueModelsAre DEF Held
  <2>2. StepOf(name, s, op) = BoundedQueue(c, s, op)
    BY <2>1, QueueStep
  <2>3. \A b, x : Listed(If(b, <<x>>))
    BY OneState DEF If
  <2> QED BY <2>2, <2>3 DEF BoundedQueue
<1>2. CASE name \notin Held(QueueModels)
  <2>1. name \in {"counter", "reading-counter", "ticks", "register"}
    BY <1>2 DEF MachineModels
  <2>2. CASE name = "register"
    <3>1. StepOf(name, s, op) = Register(s, op)
      BY <2>2 DEF StepOf
    <3> QED BY <3>1, OneState DEF Register, If
  <2>3. CASE name = "counter"
    BY <1>2, <2>3, OneState DEF StepOf, Counter, If
  <2>4. CASE name = "reading-counter"
    BY <1>2, <2>4, OneState DEF StepOf, ReadingCounter, Counter, If
  <2>5. CASE name = "ticks"
    BY <1>2, <2>5, OneState DEF StepOf, Ticks, If
  <2> QED BY <2>1, <2>2, <2>3, <2>4, <2>5
<1> QED BY <1>1, <1>2

\* What follows a list of states is what follows each of them.
LEMMA FollowingHolds ==
    ASSUME NEW name \in MachineModels, NEW from, Listed(from), NEW op
    PROVE  /\ Listed(Following(name, from, op))
           /\ Held(Following(name, from, op)) = UNION {Held(StepOf(name, s, op)) : s \in Held(from)}
<1>1. PICK ss : ss = [i \in DOMAIN from |-> StepOf(name, from[i], op)]
  OBVIOUS
<1>2. /\ Len(from) \in Nat /\ DOMAIN from = 1..Len(from)
      /\ \A i \in 1..Len(from) : from[i] \in Held(from)
      /\ \A x \in Held(from) : \E i \in 1..Len(from) : from[i] = x
  BY ListedFacts
<1>3. Listed(ss) /\ Len(ss) = Len(from)
  <2>1. ss = [i \in 1..Len(from) |-> ss[i]]
    BY <1>1, <1>2
  <2> QED BY <1>2, <2>1, ListedFunction
<1>4. \A i \in 1..Len(from) : ss[i] = StepOf(name, from[i], op)
  BY <1>1, <1>2
<1>5. \A i \in 1..Len(ss) : Listed(ss[i])
  BY <1>3, <1>4, StepsAreListed
<1>6. /\ Listed(FlattenSeq(ss))
      /\ \A x : x \in Held(FlattenSeq(ss)) <=> \E i \in 1..Len(ss) : x \in Held(ss[i])
  BY <1>3, <1>5, FlattenHolds
<1>7. Following(name, from, op) = FlattenSeq(ss)
  BY <1>1 DEF Following
<1>8. ASSUME NEW x
      PROVE  x \in Held(FlattenSeq(ss)) <=> x \in UNION {Held(StepOf(name, s, op)) : s \in Held(from)}
  <2>1. ASSUME x \in Held(FlattenSeq(ss)) PROVE \E s \in Held(from) : x \in Held(StepOf(name, s, op))
    BY <1>2, <1>3, <1>4, <1>6, <2>1
  <2>2. ASSUME NEW s \in Held(from), x \in Held(StepOf(name, s, op)) PROVE x \in Held(FlattenSeq(ss))
    <3>1. PICK i \in 1..Len(from) : from[i] = s
      BY <1>2
    <3> QED BY <1>3, <1>4, <1>6, <2>2, <3>1
  <2> QED BY <2>1, <2>2
<1> QED BY <1>6, <1>7, <1>8

\* Nothing follows no state, and what a model lists follows one state.
LEMMA FollowingOne ==
    ASSUME NEW name, NEW op
    PROVE  /\ Following(name, <<>>, op) = <<>>
           /\ \A s : Following(name, <<s>>, op) = StepOf(name, s, op)
<1>1. Following(name, <<>>, op) = <<>>
  BY DEF Following, FlattenSeq
<1>2. ASSUME NEW s PROVE Following(name, <<s>>, op) = StepOf(name, s, op)
  <2>1. PICK ss : ss = [i \in DOMAIN <<s>> |-> StepOf(name, <<s>>[i], op)]
    OBVIOUS
  <2>2. ss = <<StepOf(name, s, op)>> /\ Len(ss) = 1 /\ ss[1] = StepOf(name, s, op)
    BY <2>1
  <2>3. PICK f : f = CHOOSE g : Flat(g, ss, 1)
    OBVIOUS
  <2>4. Flat(f, ss, 1)
    BY <2>3, FlatsExist
  <2>5. FlattenSeq(ss) = f[1]
    BY <2>2, <2>3 DEF FlattenSeq, Flat
  <2>6. f[1] = ss[1]
    <3>1. 1 \in Nat /\ (1 # 0 <=> TRUE)
      OBVIOUS
    <3>2. 1 # 0 => f[1] = ss[1]
      BY <2>4, <3>1, FlatStep, Zenon
    <3> QED BY <3>1, <3>2
  <2> QED BY <2>1, <2>2, <2>5, <2>6 DEF Following
<1> QED BY <1>1, <1>2

---------------------------------------------------------------------------
(* The states that an order leaves, one call at a time.                    *)

LeftTrail(f, name, cs, order, n) ==
    f = [i \in 0..n |-> IF i = 0 THEN <<InitOf(name)>> ELSE Following(name, f[i - 1], cs[order[i]].op)]

\* The lists of states along an order, as LeftBy() defines them.
LEMMA LeftStep ==
    ASSUME NEW f, NEW name, NEW cs, NEW order, NEW n \in Nat, LeftTrail(f, name, cs, order, n)
    PROVE  /\ f[0] = <<InitOf(name)>>
           /\ \A k \in 0..(n - 1) : f[k + 1] = Following(name, f[k], cs[order[k + 1]].op)
<1>1. \A i \in 0..n : f[i] = IF i = 0 THEN <<InitOf(name)>>
                             ELSE Following(name, f[i - 1], cs[order[i]].op)
  BY Zenon DEF LeftTrail
<1>2. 0 \in 0..n /\ \A k \in 0..(n - 1) : k + 1 \in 0..n /\ k + 1 # 0 /\ (k + 1) - 1 = k
  OBVIOUS
<1>3. ASSUME NEW k \in 0..(n - 1)
      PROVE  f[k + 1] = Following(name, f[k], cs[order[k + 1]].op)
  <2>1. f[k + 1] = Following(name, f[(k + 1) - 1], cs[order[k + 1]].op)
    BY <1>1, <1>2
  <2> QED BY <1>2, <2>1, Zenon
<1> QED BY <1>1, <1>2, <1>3

\* There is such a trail: a recursive function is one, by induction.
LEMMA LeftsExist ==
    ASSUME NEW name, NEW cs, NEW order, NEW n \in Nat
    PROVE  \E f : LeftTrail(f, name, cs, order, n)
<1> DEFINE P == {k \in 0..n : \E f : LeftTrail(f, name, cs, order, k)}
<1>1. 0 \in P
  <2>1. LeftTrail([i \in 0..0 |-> <<InitOf(name)>>], name, cs, order, 0)
    BY DEF LeftTrail
  <2> QED BY <2>1
<1>2. ASSUME NEW k \in 0..(n - 1), k \in P PROVE k + 1 \in P
  <2>1. PICK f : LeftTrail(f, name, cs, order, k)
    BY <1>2
  <2>2. PICK g : g = [i \in 0..(k + 1) |->
                         IF i = k + 1 THEN Following(name, f[k], cs[order[k + 1]].op) ELSE f[i]]
    OBVIOUS
  <2>3. ASSUME NEW i \in 0..(k + 1)
        PROVE  g[i] = IF i = 0 THEN <<InitOf(name)>> ELSE Following(name, g[i - 1], cs[order[i]].op)
    <3>1. k \in Nat /\ k + 1 \in 0..(k + 1) /\ k \in 0..(k + 1) /\ (k + 1) - 1 = k /\ k # k + 1
      OBVIOUS
    <3>2. /\ g[k + 1] = Following(name, f[k], cs[order[k + 1]].op)
          /\ \A j \in 0..k : g[j] = f[j] /\ j # k + 1 /\ j \in 0..(k + 1)
      BY <2>2, <3>1
    <3>3. CASE i = k + 1
      <4>1. g[k] = f[k] /\ i # 0
        BY <3>1, <3>2, <3>3
      <4>2. g[i] = Following(name, g[i - 1], cs[order[i]].op)
        BY <3>1, <3>2, <3>3, <4>1, Zenon
      <4> QED BY <4>1, <4>2
    <3>4. CASE i = 0
      <4>1. f[0] = <<InitOf(name)>> /\ g[0] = f[0]
        BY <2>1, <3>1, <3>2, LeftStep
      <4> QED BY <3>4, <4>1
    <3>5. CASE i # 0 /\ i # k + 1
      <4>1. PICK j : j = i - 1
        OBVIOUS
      <4>2. j \in 0..(k - 1) /\ j + 1 = i /\ i \in 0..k /\ j \in 0..k
        BY <3>1, <3>5, <4>1
      <4>3. f[i] = Following(name, f[j], cs[order[i]].op)
        BY <2>1, <3>1, <4>2, LeftStep
      <4>4. g[i] = f[i] /\ g[j] = f[j]
        BY <3>2, <4>2
      <4>5. g[i] = Following(name, g[j], cs[order[i]].op)
        BY <4>3, <4>4, Zenon
      <4> QED BY <3>5, <4>1, <4>5, Zenon
    <3> QED BY <3>3, <3>4, <3>5
  <2>4. LeftTrail(g, name, cs, order, k + 1)
    BY <2>2, <2>3 DEF LeftTrail
  <2> QED BY <2>4
<1> HIDE DEF P
<1>3. n \in P
  BY <1>1, <1>2, NumbersIn
<1> QED BY <1>3 DEF P

\* LeftBy() is the end of the trail of its order.
LEMMA LeftOf ==
    ASSUME NEW name, NEW cs, NEW order, Len(order) \in Nat
    PROVE  \E f : LeftTrail(f, name, cs, order, Len(order)) /\ LeftBy(name, cs, order) = f[Len(order)]
<1>1. PICK n : n = Len(order)
  OBVIOUS
<1>2. PICK f : f = CHOOSE g : LeftTrail(g, name, cs, order, n)
  OBVIOUS
<1>3. LeftTrail(f, name, cs, order, n)
  BY <1>1, <1>2, LeftsExist
<1>4. LeftBy(name, cs, order) = f[n]
  BY <1>1, <1>2 DEF LeftBy, LeftTrail
<1> QED BY <1>1, <1>3, <1>4

\* Orders of the same calls, in the same history or another, leave the same.
LEMMA LeftsAgree ==
    ASSUME NEW name, NEW cs, NEW ds, NEW a, NEW b, NEW m \in Nat, NEW n \in Nat, m <= n,
           \A i \in 1..m : cs[a[i]].op = ds[b[i]].op,
           NEW f, NEW g, LeftTrail(f, name, cs, a, m), LeftTrail(g, name, ds, b, n)
    PROVE  f[m] = g[m]
<1> DEFINE P == {k \in 0..m : f[k] = g[k]}
<1>1. 0 \in P
  BY LeftStep
<1>2. ASSUME NEW k \in 0..(m - 1), k \in P PROVE k + 1 \in P
  <2>1. f[k + 1] = Following(name, f[k], cs[a[k + 1]].op)
    BY LeftStep
  <2>2. k \in 0..(n - 1)
    OBVIOUS
  <2>3. g[k + 1] = Following(name, g[k], ds[b[k + 1]].op)
    BY <2>2, LeftStep
  <2>4. f[k] = g[k] /\ cs[a[k + 1]].op = ds[b[k + 1]].op
    BY <1>2
  <2>5. f[k + 1] = g[k + 1] /\ k + 1 \in 0..m
    BY <2>1, <2>3, <2>4
  <2> QED BY <2>5
<1> HIDE DEF P
<1>3. m \in P
  BY <1>1, <1>2, NumbersIn
<1> QED BY <1>3 DEF P

\* No call leaves the model's first state.
LEMMA LeftFirst ==
    ASSUME NEW name, NEW cs, NEW order, Len(order) = 0
    PROVE  LeftBy(name, cs, order) = <<InitOf(name)>>
<1>1. PICK f : LeftTrail(f, name, cs, order, 0) /\ LeftBy(name, cs, order) = f[0]
  BY LeftOf
<1> QED BY <1>1, LeftStep

\* One more call leaves what follows the states before it.
LEMMA LeftNext ==
    ASSUME NEW name, NEW cs, NEW ds, NEW a, NEW b, Len(a) \in Nat, Len(b) = Len(a) + 1,
           \A i \in 1..Len(a) : cs[a[i]].op = ds[b[i]].op
    PROVE  LeftBy(name, ds, b) = Following(name, LeftBy(name, cs, a), ds[b[Len(b)]].op)
<1>1. PICK n : n = Len(a)
  OBVIOUS
<1>2. PICK f : LeftTrail(f, name, cs, a, n) /\ LeftBy(name, cs, a) = f[n]
  BY <1>1, LeftOf
<1>3. PICK g : LeftTrail(g, name, ds, b, n + 1) /\ LeftBy(name, ds, b) = g[n + 1]
  BY <1>1, LeftOf
<1>4. f[n] = g[n]
  BY <1>1, <1>2, <1>3, LeftsAgree
<1>5. g[n + 1] = Following(name, g[n], ds[b[n + 1]].op)
  <2>1. n \in Nat /\ n + 1 \in Nat /\ n \in 0..((n + 1) - 1)
    BY <1>1
  <2> QED BY <1>3, <2>1, LeftStep
<1> QED BY <1>1, <1>2, <1>3, <1>4, <1>5

\* What an order leaves is listed, and is what the definition reaches by it.
LEMMA LeftIsReached ==
    ASSUME NEW name \in MachineModels, NEW cs, NEW order, Len(order) \in Nat
    PROVE  /\ Listed(LeftBy(name, cs, order))
           /\ Held(LeftBy(name, cs, order)) = Reached(name, cs, order)
<1>1. PICK n : n = Len(order)
  OBVIOUS
<1>2. PICK f : LeftTrail(f, name, cs, order, n) /\ LeftBy(name, cs, order) = f[n]
  BY <1>1, LeftOf
<1>3. PICK g : Trail(g, name, cs, order, n) /\ Reached(name, cs, order) = g[n]
  BY <1>1, TrailOf
<1> DEFINE P == {k \in 0..n : Listed(f[k]) /\ Held(f[k]) = g[k]}
<1>4. 0 \in P
  <2>1. f[0] = <<InitOf(name)>> /\ g[0] = {InitOf(name)}
    BY <1>1, <1>2, <1>3, LeftStep, TrailStep
  <2>2. Listed(f[0]) /\ Held(f[0]) = g[0]
    BY <2>1, OneState, Zenon
  <2> QED BY <1>1, <2>2
<1>5. ASSUME NEW k \in 0..(n - 1), k \in P PROVE k + 1 \in P
  <2>1. f[k + 1] = Following(name, f[k], cs[order[k + 1]].op)
    BY <1>1, <1>2, LeftStep
  <2>2. g[k + 1] = After(name, cs, order[k + 1], g[k])
    BY <1>1, <1>3, TrailStep
  <2>3. Listed(f[k]) /\ Held(f[k]) = g[k]
    BY <1>5
  <2>4. /\ Listed(f[k + 1])
        /\ Held(f[k + 1]) = UNION {Held(StepOf(name, s, cs[order[k + 1]].op)) : s \in Held(f[k])}
    BY <2>1, <2>3, FollowingHolds
  <2>5. Held(f[k + 1]) = g[k + 1]
    BY <2>2, <2>3, <2>4 DEF After
  <2> QED BY <1>1, <2>4, <2>5
<1> HIDE DEF P
<1>6. n \in P
  <2>1. n \in Nat /\ n \in 0..n
    BY <1>1
  <2>2. \A k \in 0..n : k \in P
    BY <1>4, <1>5, <2>1, NumbersIn
  <2> QED BY <2>1, <2>2
<1> QED BY <1>2, <1>3, <1>6 DEF P

---------------------------------------------------------------------------
(* The search of a check.                                                  *)

\* The next calls of an order from which the search finds another one.
GoodCalls(name, cs, found, order) ==
    {p \in Candidates(cs, Held(order)) :
        LeftBy(name, cs, Append(order, p)) # <<>> /\ found[Append(order, p)] # <<>>}

FoundAfter(name, cs, found, order) ==
    IF Required(cs) \subseteq Held(order) THEN LeftBy(name, cs, order)
    ELSE IF GoodCalls(name, cs, found, order) = {} THEN <<>>
    ELSE found[Append(order, Min(GoodCalls(name, cs, found, order)))]

Finds(found, name, cs) ==
    found = [order \in Seq(DOMAIN cs) |-> FoundAfter(name, cs, found, order)]

\* The calls that an order has yet to take.
Untaken(cs, order) == DOMAIN cs \ Held(order)

\* No more calls are left than there are.
LEMMA UntakenAreFew ==
    ASSUME NEW cs, Listed(cs), NEW order
    PROVE  Cardinality(Untaken(cs, order)) \in Nat /\ Cardinality(Untaken(cs, order)) <= Len(cs)
<1>1. PICK N : N = Len(cs)
  OBVIOUS
<1>2. N \in Nat /\ DOMAIN cs = 1..N
  BY <1>1, ListedFacts
<1>3. IsFiniteSet(1..N) /\ Cardinality(1..N) = N
  BY <1>2, FS_Interval
<1>4. Untaken(cs, order) \subseteq 1..N
  BY <1>2 DEF Untaken
<1> QED BY <1>1, <1>3, <1>4, FS_Subset, FS_CardinalityType

\* One more call leaves one less.
LEMMA OneMoreTaken ==
    ASSUME NEW cs, Listed(cs), NEW order \in Seq(DOMAIN cs), NEW p \in Untaken(cs, order)
    PROVE  /\ Append(order, p) \in Seq(DOMAIN cs)
           /\ Untaken(cs, Append(order, p)) = Untaken(cs, order) \ {p}
           /\ Cardinality(Untaken(cs, order)) \in Nat \ {0}
           /\ Cardinality(Untaken(cs, Append(order, p))) = Cardinality(Untaken(cs, order)) - 1
<1>1. p \in DOMAIN cs /\ Listed(order)
  BY ListedFrom DEF Untaken
<1>2. Append(order, p) \in Seq(DOMAIN cs)
  BY <1>1
<1>3. Held(Append(order, p)) = Held(order) \cup {p}
  BY <1>1, ListedAppend
<1>4. Untaken(cs, Append(order, p)) = Untaken(cs, order) \ {p}
  BY <1>3 DEF Untaken
<1>5. IsFiniteSet(Untaken(cs, order))
  <2>1. DOMAIN cs = 1..Len(cs) /\ Len(cs) \in Nat
    BY ListedFacts
  <2>2. IsFiniteSet(DOMAIN cs)
    BY <2>1, FS_Interval
  <2>3. Untaken(cs, order) \subseteq DOMAIN cs
    BY DEF Untaken
  <2> QED BY <2>2, <2>3, FS_Subset
<1>6. PICK U, V : U = Untaken(cs, order) /\ V = Untaken(cs, Append(order, p))
  OBVIOUS
<1>7. p \in U /\ V = U \ {p} /\ IsFiniteSet(U)
  BY <1>4, <1>5, <1>6
<1>8. Cardinality(U) \in Nat /\ Cardinality(V) = Cardinality(U) - 1 /\ Cardinality(V) \in Nat
  BY <1>7, FS_RemoveElement, FS_CardinalityType
<1> QED BY <1>2, <1>4, <1>6, <1>8

\* A good call is one of the calls not taken, and the least of them is one.
LEMMA LeastGoodCall ==
    ASSUME NEW name, NEW cs, Listed(cs), NEW found, NEW order
    PROVE  LET good == GoodCalls(name, cs, found, order)
           IN  /\ good \subseteq Candidates(cs, Held(order))
               /\ Candidates(cs, Held(order)) \subseteq Untaken(cs, order)
               /\ good # {} => Min(good) \in good
<1>1. PICK good : good = GoodCalls(name, cs, found, order)
  OBVIOUS
<1>2. good \subseteq Candidates(cs, Held(order))
  BY <1>1 DEF GoodCalls
<1>3. Candidates(cs, Held(order)) \subseteq Untaken(cs, order)
  BY DEF Candidates, Untaken
<1>4. good \in SUBSET Nat
  <2>1. DOMAIN cs = 1..Len(cs) /\ Len(cs) \in Nat
    BY ListedFacts
  <2> QED BY <1>2, <1>3, <2>1 DEF Untaken
<1>5. good # {} => Min(good) \in good
  BY <1>4, MinIs
<1> QED BY <1>1, <1>2, <1>3, <1>5

\* What is found after an order depends on what is found after its next calls.
LEMMA FoundsAgree ==
    ASSUME NEW name, NEW cs, Listed(cs), NEW f, NEW g, NEW order,
           \A p \in Candidates(cs, Held(order)) : f[Append(order, p)] = g[Append(order, p)]
    PROVE  FoundAfter(name, cs, f, order) = FoundAfter(name, cs, g, order)
<1>1. GoodCalls(name, cs, f, order) = GoodCalls(name, cs, g, order)
  BY DEF GoodCalls
<1>2. PICK good : good = GoodCalls(name, cs, f, order)
  OBVIOUS
<1>3. CASE good = {}
  BY <1>1, <1>2, <1>3 DEF FoundAfter
<1>4. CASE good # {}
  <2>1. PICK m : m = Min(good)
    OBVIOUS
  <2>2. m \in Candidates(cs, Held(order))
    BY <1>2, <1>4, <2>1, LeastGoodCall
  <2>3. f[Append(order, m)] = g[Append(order, m)]
    BY <2>2
  <2> QED BY <1>1, <1>2, <1>4, <2>1, <2>3 DEF FoundAfter
<1> QED BY <1>3, <1>4

FindsWithin(f, name, cs, n) ==
    /\ f = [order \in Seq(DOMAIN cs) |-> f[order]]
    /\ \A order \in Seq(DOMAIN cs) :
           Cardinality(Untaken(cs, order)) <= n => f[order] = FoundAfter(name, cs, f, order)

\* There is such a search, by induction on the calls that are left.
LEMMA NextFinds ==
    ASSUME NEW name, NEW cs, Listed(cs), NEW n \in Nat, NEW f, FindsWithin(f, name, cs, n)
    PROVE  \E g : FindsWithin(g, name, cs, n + 1)
<1>1. PICK g : g = [order \in Seq(DOMAIN cs) |->
                       IF Cardinality(Untaken(cs, order)) <= n THEN f[order]
                       ELSE FoundAfter(name, cs, f, order)]
  OBVIOUS
<1>2. \A order \in Seq(DOMAIN cs) :
          g[order] = IF Cardinality(Untaken(cs, order)) <= n THEN f[order]
                     ELSE FoundAfter(name, cs, f, order)
  BY <1>1
<1>3. ASSUME NEW order \in Seq(DOMAIN cs), Cardinality(Untaken(cs, order)) <= n + 1
      PROVE  g[order] = FoundAfter(name, cs, g, order)
  <2>1. ASSUME NEW p \in Candidates(cs, Held(order)) PROVE f[Append(order, p)] = g[Append(order, p)]
    <3>1. p \in Untaken(cs, order)
      BY LeastGoodCall
    <3>2. PICK next, k, l : /\ next = Append(order, p) /\ k = Cardinality(Untaken(cs, order))
                            /\ l = Cardinality(Untaken(cs, next))
      OBVIOUS
    <3>3. next \in Seq(DOMAIN cs) /\ k \in Nat /\ l = k - 1 /\ k <= n + 1
      BY <1>3, <3>1, <3>2, OneMoreTaken
    <3>4. l <= n
      BY <3>3
    <3> QED BY <1>2, <3>2, <3>3, <3>4
  <2>2. FoundAfter(name, cs, f, order) = FoundAfter(name, cs, g, order)
    BY <2>1, FoundsAgree
  <2>3. Cardinality(Untaken(cs, order)) <= n => f[order] = FoundAfter(name, cs, f, order)
    BY DEF FindsWithin
  <2> QED BY <1>2, <2>2, <2>3
<1>4. g = [order \in Seq(DOMAIN cs) |-> g[order]]
  BY <1>1
<1> QED BY <1>3, <1>4 DEF FindsWithin

LEMMA FindsExist ==
    ASSUME NEW name, NEW cs, Listed(cs)
    PROVE  \E f : Finds(f, name, cs)
<1>1. PICK N : N = Len(cs)
  OBVIOUS
<1>2. N \in Nat /\ DOMAIN cs = 1..N
  BY <1>1, ListedFacts
<1>3. \A order : Cardinality(Untaken(cs, order)) \in Nat /\ Cardinality(Untaken(cs, order)) <= N
  BY <1>1, UntakenAreFew
<1> DEFINE P == {k \in 0..N : \E f : FindsWithin(f, name, cs, k)}
<1>4. 0 \in P
  <2>1. PICK f : f = [order \in Seq(DOMAIN cs) |-> LeftBy(name, cs, order)]
    OBVIOUS
  <2>2. ASSUME NEW order \in Seq(DOMAIN cs), Cardinality(Untaken(cs, order)) <= 0
        PROVE  f[order] = FoundAfter(name, cs, f, order)
    <3>1. Untaken(cs, order) = {}
      <4>1. \A p \in Untaken(cs, order) : Cardinality(Untaken(cs, order)) \in Nat \ {0}
        BY OneMoreTaken
      <4> QED BY <2>2, <4>1
    <3>2. Required(cs) \subseteq Held(order)
      BY <3>1 DEF Required, Untaken
    <3> QED BY <2>1, <3>2 DEF FoundAfter
  <2>3. f = [order \in Seq(DOMAIN cs) |-> f[order]]
    BY <2>1
  <2>4. FindsWithin(f, name, cs, 0)
    BY <2>2, <2>3 DEF FindsWithin
  <2> QED BY <1>2, <2>4
<1>5. ASSUME NEW k \in 0..(N - 1), k \in P PROVE k + 1 \in P
  BY <1>2, <1>5, NextFinds
<1> HIDE DEF P
<1>6. N \in P
  <2>1. N \in Nat /\ N \in 0..N
    BY <1>2
  <2>2. \A k \in 0..N : k \in P
    BY <2>1, <1>4, <1>5, NumbersIn
  <2> QED BY <2>1, <2>2
<1>7. PICK f : FindsWithin(f, name, cs, N)
  BY <1>6 DEF P
<1>8. \A order \in Seq(DOMAIN cs) : f[order] = FoundAfter(name, cs, f, order)
  BY <1>3, <1>7 DEF FindsWithin
<1>9. f = [order \in Seq(DOMAIN cs) |-> FoundAfter(name, cs, f, order)]
  BY <1>7, <1>8 DEF FindsWithin
<1> QED BY <1>9 DEF Finds

\* What the search finds after an order, in the words of its definition: the
\* first of the hits, a next call with what is found after it.
NextOf(name, cs, found, order, p) ==
    IF LeftBy(name, cs, Append(order, p)) = <<>> THEN <<>> ELSE found[Append(order, p)]

Hits(name, cs, found, order) ==
    {next \in {<<p, NextOf(name, cs, found, order, p)>> : p \in Candidates(cs, Held(order))} :
        next[2] # <<>>}

FoundFirst(name, cs, found, order) ==
    IF Required(cs) \subseteq Held(order) THEN LeftBy(name, cs, order)
    ELSE IF Hits(name, cs, found, order) = {} THEN <<>>
    ELSE (CHOOSE hit \in Hits(name, cs, found, order) :
              \A other \in Hits(name, cs, found, order) : hit[1] <= other[1])[2]

\* The first hit is that of the least good call.
LEMMA FirstHit ==
    ASSUME NEW name, NEW cs, Listed(cs), NEW found, NEW order
    PROVE  FoundFirst(name, cs, found, order) = FoundAfter(name, cs, found, order)
<1>1. PICK good, hits : /\ good = GoodCalls(name, cs, found, order)
                        /\ hits = Hits(name, cs, found, order)
  OBVIOUS
<1>2. \A p \in good : found[Append(order, p)] # <<>> /\ <<p, found[Append(order, p)]>> \in hits
  BY <1>1 DEF GoodCalls, Hits, NextOf
<1>3. ASSUME NEW hit \in hits
      PROVE  /\ hit[1] \in good
             /\ hit[2] = found[Append(order, hit[1])]
             /\ hit = <<hit[1], hit[2]>>
  <2>1. PICK p \in Candidates(cs, Held(order)) : hit = <<p, NextOf(name, cs, found, order, p)>>
    BY <1>1 DEF Hits
  <2>2. NextOf(name, cs, found, order, p) # <<>>
    BY <1>1, <2>1 DEF Hits
  <2>3. /\ LeftBy(name, cs, Append(order, p)) # <<>>
        /\ NextOf(name, cs, found, order, p) = found[Append(order, p)]
    BY <2>2 DEF NextOf
  <2>4. p \in good
    BY <1>1, <2>2, <2>3 DEF GoodCalls
  <2> QED BY <2>1, <2>3, <2>4
<1>4. CASE good = {}
  <2>1. hits = {}
    BY <1>3, <1>4
  <2> QED BY <1>1, <1>4, <2>1 DEF FoundAfter, FoundFirst
<1>5. CASE good # {}
  <2>1. good \in SUBSET Nat
    <3>1. DOMAIN cs = 1..Len(cs) /\ Len(cs) \in Nat
      BY ListedFacts
    <3> QED BY <1>1, <3>1 DEF GoodCalls, Candidates
  <2>2. PICK m : m = Min(good)
    OBVIOUS
  <2>3. m \in good /\ \A p \in good : m <= p
    BY <1>5, <2>1, <2>2, MinIs
  <2>4. PICK least : least = <<m, found[Append(order, m)]>>
    OBVIOUS
  <2>5. least \in hits /\ least[1] = m /\ least[2] = found[Append(order, m)]
    BY <1>2, <2>3, <2>4
  <2>6. \A other \in hits : least[1] <= other[1]
    BY <1>3, <2>3, <2>5
  <2>7. ASSUME NEW hit \in hits, \A other \in hits : hit[1] <= other[1] PROVE hit = least
    <3>1. hit[1] <= m /\ m <= hit[1] /\ hit[1] \in Nat /\ m \in Nat
      BY <1>3, <2>1, <2>3, <2>5, <2>7
    <3>2. hit[1] = m
      BY <3>1
    <3> QED BY <1>3, <2>4, <3>2
  <2>8. (CHOOSE hit \in hits : \A other \in hits : hit[1] <= other[1]) = least
    BY <2>5, <2>6, <2>7
  <2>9. hits # {}
    BY <2>5
  <2> QED BY <1>1, <1>5, <2>2, <2>5, <2>8, <2>9 DEF FoundAfter, FoundFirst
<1> QED BY <1>4, <1>5

Found(found, name, cs) ==
    found = [order \in Seq(DOMAIN cs) |-> FoundFirst(name, cs, found, order)]

\* Searched() is what such a search finds after no call.
LEMMA SearchedFinds ==
    ASSUME NEW name, NEW cs, Listed(cs)
    PROVE  \E f : /\ Searched(name, cs) = f[<<>>]
                  /\ \A order \in Seq(DOMAIN cs) : f[order] = FoundAfter(name, cs, f, order)
<1>1. PICK f : f = CHOOSE g : Found(g, name, cs)
  OBVIOUS
<1>2. Found(f, name, cs)
  <2>1. PICK g : Finds(g, name, cs)
    BY FindsExist
  <2>2. \A order : FoundFirst(name, cs, g, order) = FoundAfter(name, cs, g, order)
    BY FirstHit
  <2>3. Found(g, name, cs)
    BY <2>1, <2>2, Zenon DEF Finds, Found
  <2> QED BY <1>1, <2>3
<1>3. Searched(name, cs) = f[<<>>]
  BY <1>1 DEF Searched, Found, FoundFirst, Hits, NextOf
<1>4. \A order \in Seq(DOMAIN cs) : f[order] = FoundFirst(name, cs, f, order)
  BY <1>2, Zenon DEF Found
<1>5. \A order \in Seq(DOMAIN cs) : f[order] = FoundAfter(name, cs, f, order)
  BY <1>4, FirstHit
<1> QED BY <1>3, <1>5
---------------------------------------------------------------------------
(* The search finds an order exactly when the definition has one.          *)

Legal(cs, order) == order \in Seq(DOMAIN cs) /\ KeepsPrecedence(cs, order)

\* A candidate keeps the precedence when it comes next.
LEMMA LegalGrows ==
    ASSUME NEW cs, Listed(cs), NEW order, Legal(cs, order), NEW p \in Candidates(cs, Held(order))
    PROVE  Legal(cs, Append(order, p))
<1>1. PICK n : n = Len(order)
  OBVIOUS
<1>2. /\ order \in Seq(DOMAIN cs) /\ n \in Nat /\ DOMAIN order = 1..n
      /\ \A i \in 1..n : order[i] \in Held(order) /\ order[i] \in DOMAIN cs
      /\ \A x \in Held(order) : \E i \in 1..n : order[i] = x
  <2>1. order \in Seq(DOMAIN cs) /\ Listed(order)
    BY ListedFrom DEF Legal
  <2> QED BY <1>1, <2>1, ListedFacts
<1>3. p \in DOMAIN cs /\ p \notin Held(order)
  BY DEF Candidates
<1>4. PICK next : next = Append(order, p)
  OBVIOUS
<1>5. /\ next \in Seq(DOMAIN cs) /\ DOMAIN next = 1..(n + 1) /\ next[n + 1] = p
      /\ \A i \in 1..n : next[i] = order[i]
  BY <1>1, <1>2, <1>3, <1>4
<1>6. \A i \in 1..(n + 1) : i \in 1..n \/ i = n + 1
  BY <1>2
<1>7. \A i, j \in 1..n : order[i] = order[j] => i = j
  BY <1>2 DEF Legal, KeepsPrecedence, IsInjective
<1>8. ASSUME NEW i \in 1..(n + 1), NEW j \in 1..(n + 1), next[i] = next[j] PROVE i = j
  <2>1. CASE i \in 1..n /\ j \in 1..n
    BY <1>5, <1>7, <1>8, <2>1
  <2>2. CASE i = n + 1 /\ j = n + 1
    BY <2>2
  <2>3. CASE i \in 1..n /\ j = n + 1
    BY <1>2, <1>3, <1>5, <1>8, <2>3
  <2>4. CASE i = n + 1 /\ j \in 1..n
    BY <1>2, <1>3, <1>5, <1>8, <2>4
  <2> QED BY <1>6, <2>1, <2>2, <2>3, <2>4
<1>9. ASSUME NEW j \in 1..(n + 1), NEW q \in DOMAIN cs, Precedes(cs[q], cs[next[j]])
      PROVE  \E i \in 1..(j - 1) : next[i] = q
  <2>1. CASE j \in 1..n
    <3>1. \E i \in 1..(j - 1) : order[i] = q
      BY <1>2, <1>5, <1>9, <2>1 DEF Legal, KeepsPrecedence
    <3>2. \A i \in 1..(j - 1) : i \in 1..n
      BY <1>2, <2>1
    <3> QED BY <1>5, <3>1, <3>2
  <2>2. CASE j = n + 1
    <3>1. q \in Held(order)
      BY <1>5, <1>9, <2>2 DEF Candidates
    <3>2. \A i \in 1..n : i \in 1..(j - 1)
      BY <1>2, <2>2
    <3> QED BY <1>2, <1>5, <3>1, <3>2
  <2> QED BY <1>6, <2>1, <2>2
<1>10. IsInjective(next)
  BY <1>5, <1>8 DEF IsInjective
<1>11. KeepsPrecedence(cs, next)
  BY <1>5, <1>9, <1>10 DEF KeepsPrecedence
<1> QED BY <1>4, <1>5, <1>11 DEF Legal

\* An order after which the search finds one begins an order of the definition.
LEMMA FoundIsLinearizable ==
    ASSUME NEW name \in MachineModels, NEW cs, Listed(cs), NEW f,
           \A order \in Seq(DOMAIN cs) : f[order] = FoundAfter(name, cs, f, order),
           f[<<>>] # <<>>
    PROVE  IsLinearizable(name, cs)
<1>1. \A order : Cardinality(Untaken(cs, order)) \in Nat /\ Cardinality(Untaken(cs, order)) <= Len(cs)
  BY UntakenAreFew
<1>2. PICK N : N = Len(cs)
  OBVIOUS
<1>3. N \in Nat
  BY <1>2, ListedFacts
<1>4. ASSUME NEW order, Legal(cs, order), Required(cs) \subseteq Held(order), f[order] # <<>>
      PROVE  IsLinearizable(name, cs)
  <2>1. order \in Seq(DOMAIN cs) /\ Listed(order) /\ KeepsPrecedence(cs, order)
    BY <1>4, ListedFrom DEF Legal
  <2>2. LeftBy(name, cs, order) # <<>>
    BY <1>4, <2>1 DEF FoundAfter
  <2>3. Reached(name, cs, order) # {}
    BY <2>1, <2>2, LeftIsReached, ListedFacts
  <2>4. PICK n : n = Len(order)
    OBVIOUS
  <2>5. \A i \in 1..n : order[i] \in DOMAIN cs
    BY <2>1, <2>4
  <2>6. \A i, j \in 1..n : order[i] = order[j] => i = j
    BY <2>1, <2>4, ListedFacts DEF KeepsPrecedence, IsInjective
  <2>7. \A p \in Required(cs) : \E i \in 1..n : order[i] = p
    BY <1>4, <2>1, <2>4, ListedFacts
  <2>8. order \in OrdersOf(cs)
    BY <2>1, <2>4, <2>5, <2>6, <2>7, ListIsOrder
  <2> QED BY <2>1, <2>3, <2>8 DEF IsLinearizable
<1> DEFINE P == {k \in 0..N : \A order : /\ Legal(cs, order) /\ f[order] # <<>>
                                         /\ Cardinality(Untaken(cs, order)) <= k
                                         => IsLinearizable(name, cs)}
<1>5. ASSUME NEW order, Legal(cs, order), f[order] # <<>>, ~(Required(cs) \subseteq Held(order))
      PROVE  \E p \in Candidates(cs, Held(order)) : f[Append(order, p)] # <<>>
  <2>1. f[order] = FoundAfter(name, cs, f, order)
    BY <1>5 DEF Legal
  <2>2. GoodCalls(name, cs, f, order) # {}
    BY <1>5, <2>1 DEF FoundAfter
  <2>3. PICK p : p \in GoodCalls(name, cs, f, order)
    BY <2>2
  <2> QED BY <2>3 DEF GoodCalls
<1>6. ASSUME NEW order, Legal(cs, order), NEW p \in Candidates(cs, Held(order))
      PROVE  /\ Cardinality(Untaken(cs, order)) \in Nat \ {0}
             /\ Cardinality(Untaken(cs, Append(order, p))) = Cardinality(Untaken(cs, order)) - 1
  <2>1. p \in Untaken(cs, order) /\ order \in Seq(DOMAIN cs)
    BY <1>6 DEF Candidates, Untaken, Legal
  <2> QED BY <2>1, OneMoreTaken
<1>7. 0 \in P
  <2>1. ASSUME NEW order, Legal(cs, order), f[order] # <<>>, Cardinality(Untaken(cs, order)) <= 0
        PROVE  IsLinearizable(name, cs)
    <3>1. CASE Required(cs) \subseteq Held(order)
      BY <1>4, <2>1, <3>1
    <3>2. CASE ~(Required(cs) \subseteq Held(order))
      <4>1. PICK p \in Candidates(cs, Held(order)) : f[Append(order, p)] # <<>>
        BY <1>5, <2>1, <3>2
      <4>2. PICK u : u = Cardinality(Untaken(cs, order))
        OBVIOUS
      <4>3. u \in Nat \ {0} /\ u <= 0
        BY <1>6, <2>1, <4>1, <4>2
      <4> QED BY <4>3
    <3> QED BY <3>1, <3>2
  <2> QED BY <1>3, <2>1
<1>8. ASSUME NEW k \in 0..(N - 1), k \in P PROVE k + 1 \in P
  <2>1. ASSUME NEW order, Legal(cs, order), f[order] # <<>>, Cardinality(Untaken(cs, order)) <= k + 1
        PROVE  IsLinearizable(name, cs)
    <3>1. CASE Required(cs) \subseteq Held(order)
      BY <1>4, <2>1, <3>1
    <3>2. CASE ~(Required(cs) \subseteq Held(order))
      <4>1. PICK p \in Candidates(cs, Held(order)) : f[Append(order, p)] # <<>>
        BY <1>5, <2>1, <3>2
      <4>2. PICK next, u, v : /\ next = Append(order, p) /\ u = Cardinality(Untaken(cs, order))
                              /\ v = Cardinality(Untaken(cs, next))
        OBVIOUS
      <4>3. Legal(cs, next) /\ f[next] # <<>>
        BY <2>1, <4>1, <4>2, LegalGrows
      <4>4. u \in Nat /\ v = u - 1 /\ u <= k + 1
        BY <1>6, <2>1, <4>1, <4>2
      <4>5. v <= k
        BY <4>4
      <4> QED BY <1>8, <4>2, <4>3, <4>5
    <3> QED BY <3>1, <3>2
  <2> QED BY <1>3, <2>1
<1> HIDE DEF P
<1>9. N \in P
  <2>1. N \in Nat /\ N \in 0..N
    BY <1>3
  <2>2. \A k \in 0..N : k \in P
    BY <2>1, <1>7, <1>8, NumbersIn
  <2> QED BY <2>1, <2>2
<1>10. Legal(cs, <<>>)
  <2>1. <<>> \in Seq(DOMAIN cs) /\ DOMAIN <<>> = {}
    OBVIOUS
  <2> QED BY <2>1 DEF Legal, KeepsPrecedence, IsInjective
<1>11. Cardinality(Untaken(cs, <<>>)) <= N
  BY <1>1, <1>2
<1> QED BY <1>9, <1>10, <1>11 DEF P

\* The search finds an order when a legal one has every required call and
\* leaves a state.
LEMMA OrderIsFound ==
    ASSUME NEW name \in MachineModels, NEW cs, Listed(cs), NEW f,
           \A order \in Seq(DOMAIN cs) : f[order] = FoundAfter(name, cs, f, order),
           NEW o, Legal(cs, o), Required(cs) \subseteq Held(o), LeftBy(name, cs, o) # <<>>
    PROVE  f[<<>>] # <<>>
<1>1. PICK n : n = Len(o)
  OBVIOUS
<1>2. o \in Seq(DOMAIN cs) /\ n \in Nat /\ DOMAIN o = 1..n /\ \A i \in 1..n : o[i] \in DOMAIN cs
  BY <1>1 DEF Legal
<1>3. \A i, j \in 1..n : o[i] = o[j] => i = j
  BY <1>2 DEF Legal, KeepsPrecedence, IsInjective
<1>4. \A j \in 1..n, q \in DOMAIN cs : Precedes(cs[q], cs[o[j]]) => \E i \in 1..(j - 1) : o[i] = q
  BY <1>2 DEF Legal, KeepsPrecedence
<1> DEFINE P == {k \in 0..n : f[Begun(o, n - k)] # <<>> /\ LeftBy(name, cs, Begun(o, n - k)) # <<>>}
<1>5. 0 \in P
  <2>1. n - 0 = n /\ n \in 0..Len(o)
    BY <1>1, <1>2
  <2>2. Begun(o, n) = o
    BY <1>1, <1>2, <2>1, BegunIs
  <2>3. f[o] = LeftBy(name, cs, o)
    BY <1>2 DEF FoundAfter
  <2> QED BY <1>2, <2>1, <2>2, <2>3
<1>6. ASSUME NEW k \in 0..(n - 1), k \in P PROVE k + 1 \in P
  <2>1. PICK j : j = n - (k + 1)
    OBVIOUS
  <2>2. /\ j \in Nat /\ j \in 0..Len(o) /\ j < Len(o) /\ n - k = j + 1 /\ j + 1 \in 0..Len(o)
        /\ j + 1 \in 1..n /\ n - (k + 1) = j /\ k + 1 \in 0..n /\ (j + 1) - 1 = j
    BY <1>1, <1>2, <2>1
  <2>3. PICK b, c, p : b = Begun(o, j) /\ c = Begun(o, j + 1) /\ p = o[j + 1]
    OBVIOUS
  <2>4. /\ b \in Seq(DOMAIN cs) /\ Len(b) = j /\ \A i \in 1..j : b[i] = o[i]
        /\ Held(b) = {o[i] : i \in 1..j} /\ c = Append(b, p)
    BY <1>2, <2>2, <2>3, BegunIs
  <2>5. Len(c) = j + 1 /\ \A i \in 1..(j + 1) : c[i] = o[i]
    BY <1>2, <2>2, <2>3, BegunIs
  <2>6. f[c] # <<>> /\ LeftBy(name, cs, c) # <<>>
    BY <1>6, <2>2, <2>3
  <2>7. LeftBy(name, cs, b) # <<>>
    <3>1. /\ Len(b) \in Nat /\ Len(c) = Len(b) + 1
          /\ \A i \in 1..Len(b) : cs[b[i]].op = cs[c[i]].op
      BY <2>2, <2>4, <2>5
    <3>2. LeftBy(name, cs, c) = Following(name, LeftBy(name, cs, b), cs[c[Len(c)]].op)
      BY <3>1, LeftNext
    <3>3. \A op : Following(name, <<>>, op) = <<>>
      BY FollowingOne
    <3> QED BY <2>6, <3>2, <3>3
  <2>8. f[b] = FoundAfter(name, cs, f, b)
    BY <2>4
  <2>9. CASE Required(cs) \subseteq Held(b)
    <3>1. f[b] # <<>>
      BY <2>7, <2>8, <2>9 DEF FoundAfter
    <3> QED BY <2>2, <2>3, <2>7, <3>1
  <2>10. CASE ~(Required(cs) \subseteq Held(b))
    <3>1. p \in DOMAIN cs /\ p \notin Held(b)
      <4>1. \A i \in 1..j : i \in 1..n /\ i # j + 1
        BY <1>2, <2>2
      <4> QED BY <1>2, <1>3, <2>2, <2>3, <2>4, <4>1
    <3>2. ASSUME NEW q \in DOMAIN cs \ Held(b) PROVE ~Precedes(cs[q], cs[p])
      <4>1. Precedes(cs[q], cs[p]) => \E i \in 1..j : o[i] = q
        BY <1>4, <2>2, <2>3
      <4> QED BY <2>4, <4>1
    <3>3. p \in Candidates(cs, Held(b))
      BY <3>1, <3>2 DEF Candidates
    <3>4. p \in GoodCalls(name, cs, f, b)
      BY <2>4, <2>6, <3>3 DEF GoodCalls
    <3>5. PICK m : m = Min(GoodCalls(name, cs, f, b))
      OBVIOUS
    <3>6. m \in GoodCalls(name, cs, f, b)
      BY <3>4, <3>5, LeastGoodCall
    <3>7. f[Append(b, m)] # <<>>
      BY <3>6 DEF GoodCalls
    <3>8. f[b] # <<>>
      BY <2>8, <2>10, <3>4, <3>5, <3>7 DEF FoundAfter
    <3> QED BY <2>2, <2>3, <2>7, <3>8
  <2> QED BY <2>9, <2>10
<1> HIDE DEF P
<1>7. n \in P
  <2>1. n \in Nat /\ n \in 0..n
    BY <1>2
  <2>2. \A k \in 0..n : k \in P
    BY <2>1, <1>5, <1>6, NumbersIn
  <2> QED BY <2>1, <2>2
<1>8. f[Begun(o, 0)] # <<>>
  <2>1. n - n = 0
    BY <1>2
  <2> QED BY <1>7, <2>1 DEF P
<1>9. Begun(o, 0) = <<>>
  BY DEF Begun
<1> QED BY <1>8, <1>9

\* The search of a check decides linearizability.
LEMMA SearchedDecides ==
    ASSUME NEW name \in MachineModels, NEW cs, Listed(cs)
    PROVE  Searched(name, cs) # <<>> <=> IsLinearizable(name, cs)
<1>1. PICK f : /\ Searched(name, cs) = f[<<>>]
               /\ \A order \in Seq(DOMAIN cs) : f[order] = FoundAfter(name, cs, f, order)
  BY SearchedFinds
<1>2. ASSUME IsLinearizable(name, cs) PROVE f[<<>>] # <<>>
  <2>1. PICK o \in OrdersOf(cs) : KeepsPrecedence(cs, o) /\ Reached(name, cs, o) # {}
    BY <1>2 DEF IsLinearizable
  <2>2. o \in Seq(DOMAIN cs) /\ Required(cs) \subseteq Held(o)
    BY <2>1, OrderIsList
  <2>3. Len(o) \in Nat
    BY <2>2
  <2>4. Held(LeftBy(name, cs, o)) # {}
    BY <2>1, <2>3, LeftIsReached
  <2>5. LeftBy(name, cs, o) # <<>>
    BY <2>4, OneState
  <2>6. Legal(cs, o)
    BY <2>1, <2>2 DEF Legal
  <2> QED BY <1>1, <2>2, <2>5, <2>6, OrderIsFound
<1>3. ASSUME f[<<>>] # <<>> PROVE IsLinearizable(name, cs)
  BY <1>1, <1>3, FoundIsLinearizable
<1> QED BY <1>1, <1>2, <1>3
---------------------------------------------------------------------------
(* The calls of a log to which one call after the other is added.          *)

\* The events that invoke the calls, in their order.
KeptInOrder(events) == Ascending(Kept(events), <)

LEMMA CallsAreListed ==
    ASSUME NEW events, Listed(events)
    PROVE  LET n == Cardinality(Kept(events))
               order == KeptInOrder(events)
           IN  /\ Listed(Calls(events)) /\ Len(Calls(events)) = n
               /\ Kept(events) \in SUBSET Int /\ IsFiniteSet(Kept(events))
               /\ Rises(order, n)
               /\ \A i \in 1..n : order[i] \in Kept(events) /\ Calls(events)[i] = CallOf(events, order[i])
               /\ \A x \in Kept(events) : \E i \in 1..n : order[i] = x
<1>1. PICK K, n, order : K = Kept(events) /\ n = Cardinality(K) /\ order = KeptInOrder(events)
  OBVIOUS
<1>2. Len(events) \in Nat
  BY ListedFacts
<1>3. K \in SUBSET Int /\ IsFiniteSet(K)
  <2>1. IsFiniteSet(1..Len(events)) /\ 1..Len(events) \subseteq Int
    BY <1>2, FS_Interval
  <2>2. K \subseteq 1..Len(events)
    BY <1>1 DEF Kept
  <2> QED BY <2>1, <2>2, FS_Subset
<1>4. /\ n \in Nat /\ DOMAIN order = 1..n
      /\ \A i \in 1..n : order[i] \in K
      /\ \A x \in K : \E i \in 1..n : order[i] = x
      /\ \A i, j \in 1..n : i < j <=> order[i] < order[j]
  <2>1. order = Ascending(K, <)
    BY <1>1 DEF KeptInOrder
  <2>2. LET up == Ascending(K, <)
            m == Cardinality(K)
        IN  /\ m \in Nat /\ DOMAIN up = 1..m
            /\ \A i \in 1..m : up[i] \in K
            /\ \A x \in K : \E i \in 1..m : up[i] = x
            /\ \A i, j \in 1..m : i < j <=> up[i] < up[j]
    BY <1>3, AscendingNumbers, Zenon
  <2> QED BY <1>1, <2>1, <2>2, Zenon
<1>5. Rises(order, n)
  BY <1>3, <1>4 DEF Rises
<1>6. PICK cs : cs = Calls(events)
  OBVIOUS
<1>7. cs = [i \in 1..n |-> CallOf(events, order[i])]
  BY <1>1, <1>4, <1>6 DEF Calls, KeptInOrder
<1>8. \A i \in 1..n : cs[i] = CallOf(events, order[i])
  BY <1>7
<1>9. cs = [i \in 1..n |-> cs[i]]
  BY <1>7
<1>10. Listed(cs) /\ Len(cs) = n
  BY <1>4, <1>9, ListedFunction
<1> QED BY <1>1, <1>3, <1>4, <1>5, <1>6, <1>8, <1>10

\* Every event of a log is about a call that the log invokes.
Closed(events) ==
    Listed(events) /\ \A i \in 1..Len(events) : events[i].call \in 0..(Len(events) - 1)

\* A log with one more call, invoked and completed.
WithCall(events, action, input, kind, output) ==
    events \o <<Invocation(Len(events), action, input), Completion(Len(events), kind, output)>>

LEMMA WithCallIs ==
    ASSUME NEW events, Listed(events), NEW action, NEW input, NEW kind, NEW output
    PROVE  LET more == WithCall(events, action, input, kind, output)
               n == Len(events)
           IN  /\ Listed(more) /\ Len(more) = n + 2
               /\ \A i \in 1..n : more[i] = events[i]
               /\ more[n + 1] = Invocation(n, action, input)
               /\ more[n + 2] = Completion(n, kind, output)
<1>1. PICK a, b, n : /\ a = Invocation(Len(events), action, input)
                     /\ b = Completion(Len(events), kind, output) /\ n = Len(events)
  OBVIOUS
<1>2. PICK more : more = events \o <<a, b>>
  OBVIOUS
<1>3. Listed(<<a, b>>) /\ Len(<<a, b>>) = 2 /\ <<a, b>>[1] = a /\ <<a, b>>[2] = b
  BY OneState
<1>4. Listed(more)
  BY <1>2, <1>3, ListedJoin
<1>5. PICK T : events \in Seq(T) /\ <<a, b>> \in Seq(T)
  <2>1. events \in Seq(Held(events) \cup {a, b}) /\ <<a, b>> \in Seq(Held(events) \cup {a, b})
    BY DEF Listed
  <2> QED BY <2>1
<1>6. n \in Nat
  BY <1>1, ListedFacts
<1>7. /\ Len(more) = n + 2 /\ \A i \in 1..n : more[i] = events[i]
      /\ more[n + 1] = a /\ more[n + 2] = b
  BY <1>1, <1>2, <1>5, <1>6
<1> QED BY <1>1, <1>2, <1>4, <1>7 DEF WithCall

\* What a log of n events has then as its last call.
LastCall(n, action, input, output) ==
    [index |-> n, completion |-> n + 1,
     op |-> [operation |-> action, args |-> input, known |-> TRUE, output |-> output],
     keys |-> <<>>]

\* The one more call is the last of the calls, unless it failed, and leaves
\* the others as they were.
LEMMA OneMoreCall ==
    ASSUME NEW events, Closed(events), NEW action, NEW input, NEW kind \in {"ok", "fail"}, NEW output
    PROVE  LET more == WithCall(events, action, input, kind, output)
               n == Len(events)
           IN  /\ Closed(more) /\ Len(more) = n + 2 /\ n \in Nat
               /\ kind = "fail" => Calls(more) = Calls(events)
               /\ kind = "ok" => Calls(more) = Append(Calls(events), LastCall(n, action, input, output))
<1>1. PICK more, n : more = WithCall(events, action, input, kind, output) /\ n = Len(events)
  OBVIOUS
<1>2. Listed(events) /\ n \in Nat /\ \A i \in 1..n : events[i].call \in 0..(n - 1)
  BY <1>1, ListedFacts DEF Closed
<1>3. /\ Listed(more) /\ Len(more) = n + 2
      /\ \A i \in 1..n : more[i] = events[i]
      /\ more[n + 1] = Invocation(n, action, input)
      /\ more[n + 2] = Completion(n, kind, output)
  BY <1>1, <1>2, WithCallIs
<1>4. /\ more[n + 1].kind = "invoke" /\ more[n + 1].call = n
      /\ more[n + 1].value = [operation |-> action, args |-> input, keys |-> <<>>]
      /\ more[n + 2].kind = kind /\ more[n + 2].call = n /\ more[n + 2].value = output
  BY <1>3 DEF Invocation, Completion
<1>5. \A i : i \in 1..(n + 2) <=> i \in 1..n \/ i = n + 1 \/ i = n + 2
  BY <1>2
<1>6. Closed(more)
  <2>1. ASSUME NEW i \in 1..(n + 2) PROVE more[i].call \in 0..((n + 2) - 1)
    <3>1. CASE i \in 1..n
      <4>1. PICK c : c = events[i].call
        OBVIOUS
      <4>2. c \in 0..(n - 1)
        BY <1>2, <3>1, <4>1
      <4>3. c \in 0..((n + 2) - 1)
        BY <1>2, <4>2
      <4> QED BY <1>3, <3>1, <4>1, <4>3
    <3>2. CASE i = n + 1 \/ i = n + 2
      <4>1. n \in 0..((n + 2) - 1)
        BY <1>2
      <4> QED BY <1>4, <3>2, <4>1
    <3> QED BY <1>5, <3>1, <3>2
  <2> QED BY <1>3, <2>1 DEF Closed
<1>7. \A c \in 0..(n - 1) : EventsOf(more, c) = EventsOf(events, c)
  <2> SUFFICES ASSUME NEW c \in 0..(n - 1) PROVE EventsOf(more, c) = EventsOf(events, c)
    OBVIOUS
  <2>1. c # n
    BY <1>2
  <2>2. \A i \in 1..n : i \in EventsOf(more, c) <=> i \in EventsOf(events, c)
    BY <1>1, <1>3, <1>5 DEF EventsOf
  <2>3. n + 1 \notin EventsOf(more, c) /\ n + 2 \notin EventsOf(more, c)
    BY <1>4, <2>1 DEF EventsOf
  <2>4. \A i \in EventsOf(more, c) : i \in 1..n
    BY <1>3, <1>5, <2>3 DEF EventsOf
  <2>5. \A i \in EventsOf(events, c) : i \in 1..n
    BY <1>1 DEF EventsOf
  <2> QED BY <2>2, <2>4, <2>5
<1>8. EventsOf(more, n) = {n + 2}
  <2>1. ASSUME NEW i \in 1..n PROVE i \notin EventsOf(more, n)
    <3>1. PICK c : c = events[i].call
      OBVIOUS
    <3>2. c \in 0..(n - 1)
      BY <1>2, <3>1
    <3>3. c # n
      BY <1>2, <3>2
    <3> QED BY <1>3, <3>1, <3>3 DEF EventsOf
  <2>2. n + 1 \notin EventsOf(more, n)
    BY <1>4 DEF EventsOf
  <2>3. n + 2 \in EventsOf(more, n)
    BY <1>3, <1>4, <1>5 DEF EventsOf
  <2>4. \A i \in EventsOf(more, n) : i \in 1..(n + 2)
    BY <1>3 DEF EventsOf
  <2> QED BY <1>5, <2>1, <2>2, <2>3, <2>4
<1>9. ASSUME NEW i \in 1..n
      PROVE  /\ CallOf(more, i) = CallOf(events, i)
             /\ i \in Kept(more) <=> i \in Kept(events)
  <2>1. EventsOf(more, i - 1) = EventsOf(events, i - 1) /\ more[i] = events[i]
    <3>1. i - 1 \in 0..(n - 1)
      BY <1>2
    <3> QED BY <1>3, <1>7, <3>1
  <2>2. \A j \in EventsOf(events, i - 1) : more[j] = events[j]
    BY <1>1, <1>3 DEF EventsOf
  <2>3. CallOf(more, i) = CallOf(events, i)
    <3>1. CASE EventsOf(events, i - 1) = {}
      BY <2>1, <3>1 DEF CallOf
    <3>2. CASE EventsOf(events, i - 1) # {}
      <4>1. PICK j : j = CHOOSE k \in EventsOf(events, i - 1) : TRUE
        OBVIOUS
      <4>2. j \in EventsOf(events, i - 1) /\ more[j] = events[j]
        BY <2>2, <3>2, <4>1
      <4> QED BY <2>1, <4>1, <4>2 DEF CallOf
    <3> QED BY <3>1, <3>2
  <2>4. i \in 1..(n + 2)
    BY <1>5
  <2>5. i \in Kept(more) <=> i \in Kept(events)
    BY <1>1, <1>3, <2>1, <2>2, <2>4 DEF Kept
  <2> QED BY <2>3, <2>5
<1>10. PICK K, L : K = Kept(events) /\ L = Kept(more)
  OBVIOUS
<1>11. K \subseteq 1..n /\ \A i \in 1..n : i \in L <=> i \in K
  BY <1>1, <1>9, <1>10 DEF Kept
<1>12. n + 2 \notin L /\ L \subseteq 1..(n + 2)
  <2>1. n + 2 \notin L
    BY <1>4, <1>10 DEF Kept
  <2>2. L \subseteq 1..(n + 2)
    BY <1>3, <1>10 DEF Kept
  <2> QED BY <2>1, <2>2
<1>13. n + 1 \in L <=> kind # "fail"
  <2>1. (n + 1) - 1 = n /\ n + 1 \in 1..(n + 2)
    BY <1>2
  <2> QED BY <1>3, <1>4, <1>8, <1>10, <2>1 DEF Kept
<1>14. L = K \cup (IF kind = "fail" THEN {} ELSE {n + 1})
  BY <1>5, <1>11, <1>12, <1>13
<1>15. PICK cs, ds, order, last, k, l :
          /\ cs = Calls(events) /\ ds = Calls(more)
          /\ order = KeptInOrder(events) /\ last = KeptInOrder(more)
          /\ k = Cardinality(K) /\ l = Cardinality(L)
  OBVIOUS
<1>16. /\ Listed(cs) /\ Len(cs) = k /\ IsFiniteSet(K) /\ Rises(order, k)
       /\ \A i \in 1..k : order[i] \in K /\ cs[i] = CallOf(events, order[i])
       /\ \A x \in K : \E i \in 1..k : order[i] = x
  BY <1>2, <1>10, <1>15, CallsAreListed
<1>17. /\ Listed(ds) /\ Len(ds) = l /\ Rises(last, l)
       /\ \A i \in 1..l : last[i] \in L /\ ds[i] = CallOf(more, last[i])
       /\ \A x \in L : \E i \in 1..l : last[i] = x
  BY <1>3, <1>10, <1>15, CallsAreListed
<1>18. k \in Nat /\ l \in Nat
  BY <1>16, <1>17 DEF Rises
<1>19. cs = [i \in 1..k |-> cs[i]] /\ ds = [i \in 1..l |-> ds[i]]
  BY <1>16, <1>17 DEF Listed
<1>20. CASE kind = "fail"
  <2>1. L = K /\ k = l /\ order = last
    <3>1. L = K
      BY <1>14, <1>20
    <3>2. k = l
      BY <1>15, <3>1
    <3>3. order = last
      BY <1>10, <1>15, <3>1, Zenon DEF KeptInOrder
    <3> QED BY <3>1, <3>2, <3>3
  <2>2. ASSUME NEW i \in 1..k PROVE cs[i] = ds[i]
    <3>1. order[i] \in 1..n
      BY <1>11, <1>16
    <3> QED BY <1>9, <1>16, <1>17, <2>1, <3>1
  <2>3. cs = ds
    BY <1>19, <2>1, <2>2, SameFunction, Zenon
  <2> QED BY <1>1, <1>2, <1>3, <1>6, <1>15, <1>20, <2>3
<1>21. CASE kind = "ok"
  <2>1. L = K \cup {n + 1} /\ n + 1 \notin K
    BY <1>2, <1>11, <1>14, <1>21
  <2>2. l = k + 1
    BY <1>15, <1>16, <2>1, FS_AddElement
  <2>3. PICK b : b = [i \in 1..(k + 1) |-> IF i = k + 1 THEN n + 1 ELSE order[i]]
    OBVIOUS
  <2>4. b[k + 1] = n + 1 /\ \A i \in 1..k : b[i] = order[i]
    BY <1>18, <2>3
  <2>5. \A i : i \in 1..(k + 1) <=> i \in 1..k \/ i = k + 1
    BY <1>18
  <2>6. Rises(b, k + 1)
    <3>1. ASSUME NEW i \in 1..(k + 1) PROVE b[i] \in Int
      BY <1>2, <1>16, <2>4, <2>5 DEF Rises
    <3>2. ASSUME NEW i \in 1..(k + 1), NEW j \in 1..(k + 1), i < j PROVE b[i] < b[j]
      <4>1. i \in 1..k
        BY <1>18, <3>2
      <4>2. CASE j = k + 1
        <5>1. b[i] \in 1..n
          BY <1>11, <1>16, <2>4, <4>1
        <5>2. b[j] = n + 1
          BY <2>4, <4>2
        <5> QED BY <1>2, <5>1, <5>2
      <4>3. CASE j \in 1..k
        BY <1>16, <2>4, <3>2, <4>1, <4>3 DEF Rises
      <4> QED BY <2>5, <4>2, <4>3
    <3> QED BY <1>18, <3>1, <3>2 DEF Rises
  <2>7. SameNumbers(last, l, b, k + 1) /\ SameNumbers(b, k + 1, last, l)
    <3>1. ASSUME NEW i \in 1..l PROVE \E j \in 1..(k + 1) : b[j] = last[i]
      <4>1. last[i] \in K \/ last[i] = n + 1
        BY <1>17, <2>1
      <4> QED BY <1>16, <2>4, <2>5, <4>1
    <3>2. ASSUME NEW j \in 1..(k + 1) PROVE \E i \in 1..l : last[i] = b[j]
      <4>1. b[j] \in L
        BY <1>16, <2>1, <2>4, <2>5
      <4> QED BY <1>17, <4>1
    <3> QED BY <3>1, <3>2 DEF SameNumbers
  <2>8. \A i \in 1..(k + 1) : last[i] = b[i]
    BY <1>17, <2>6, <2>7, OneListing
  <2>9. PICK c : c = [index |-> n, completion |-> n + 1,
                      op |-> [operation |-> action, args |-> input, known |-> TRUE, output |-> output],
                      keys |-> <<>>]
    OBVIOUS
  <2>10. CallOf(more, n + 1) = c
    <3>1. PICK j : j = CHOOSE h \in EventsOf(more, n) : TRUE
      OBVIOUS
    <3>2. j = n + 2
      BY <1>8, <3>1
    <3>3. (n + 1) - 1 = n /\ (n + 2) - 1 = n + 1 /\ EventsOf(more, n) # {}
      BY <1>2, <1>8
    <3>4. more[j].kind = "ok" /\ more[j].value = output
      BY <1>4, <1>21, <3>2
    <3>5. PICK v, e : v = more[n + 1].value /\ e = more[j]
      OBVIOUS
    <3>6. (EventsOf(more, n) # {} /\ e.kind = "ok") = TRUE
      BY <3>3, <3>4, <3>5
    <3>7. CallOf(more, n + 1) =
              [index |-> n, completion |-> j - 1,
               op |-> [operation |-> v.operation, args |-> v.args, known |-> TRUE, output |-> e.value],
               keys |-> v.keys]
      BY <3>1, <3>3, <3>5, <3>6 DEF CallOf
    <3>8. /\ v.operation = action /\ v.args = input /\ v.keys = <<>> /\ e.value = output
          /\ j - 1 = n + 1
      BY <1>4, <3>2, <3>3, <3>4, <3>5
    <3> QED BY <2>9, <3>7, <3>8
  <2>11. PICK es : es = Append(cs, c)
    OBVIOUS
  <2>12. /\ Listed(es) /\ Len(es) = k + 1 /\ es[k + 1] = c
         /\ \A i \in 1..k : es[i] = cs[i]
    BY <1>16, <2>11, ListedAppend
  <2>13. ASSUME NEW i \in 1..(k + 1) PROVE es[i] = ds[i]
    <3>1. CASE i = k + 1
      BY <1>17, <2>2, <2>4, <2>8, <2>10, <2>12, <3>1
    <3>2. CASE i \in 1..k
      <4>1. order[i] \in 1..n
        BY <1>11, <1>16, <3>2
      <4> QED BY <1>9, <1>16, <1>17, <2>2, <2>4, <2>8, <2>12, <3>2, <4>1
    <3> QED BY <2>5, <3>1, <3>2
  <2>14. es = [i \in 1..(k + 1) |-> es[i]]
    BY <2>12 DEF Listed
  <2>15. es = ds
    BY <1>19, <2>2, <2>13, <2>14, SameFunction, Zenon
  <2>16. c = LastCall(n, action, input, output)
    BY <2>9 DEF LastCall
  <2> QED BY <1>1, <1>2, <1>3, <1>6, <1>15, <1>21, <2>11, <2>15, <2>16
<1> QED BY <1>20, <1>21
---------------------------------------------------------------------------
(* Calls in turn: each ends before the next one is invoked.                *)

\* The calls of a log of n events, none of them during another.
InTurn(cs, n) ==
    /\ Listed(cs) /\ n \in Nat
    /\ \A p \in DOMAIN cs : /\ cs[p].op.known
                            /\ cs[p].index \in Nat /\ cs[p].completion \in Nat
                            /\ cs[p].index < cs[p].completion /\ cs[p].completion < n
    /\ \A p, q \in DOMAIN cs : p < q => cs[p].completion < cs[q].index

Numbers(n) == [i \in 1..n |-> i]

\* The states that the calls leave in the order of the log.
LeftInTurn(name, cs) == LeftBy(name, cs, Numbers(Len(cs)))

LEMMA NumbersAre ==
    ASSUME NEW n \in Nat
    PROVE  /\ Numbers(n) \in Seq(1..n) /\ Listed(Numbers(n)) /\ Len(Numbers(n)) = n
           /\ DOMAIN Numbers(n) = 1..n /\ Held(Numbers(n)) = 1..n
           /\ \A i \in 1..n : Numbers(n)[i] = i
<1>1. PICK o : o = Numbers(n)
  OBVIOUS
<1>2. o = [i \in 1..n |-> i]
  BY <1>1 DEF Numbers
<1>3. o \in [1..n -> 1..n] /\ DOMAIN o = 1..n /\ \A i \in 1..n : o[i] = i
  BY <1>2
<1>4. o = [i \in 1..n |-> o[i]]
  BY <1>2
<1>5. o \in Seq(1..n)
  BY <1>3, SeqDef
<1>6. Listed(o) /\ Len(o) = n
  BY <1>4, ListedFunction
<1>7. Held(o) = 1..n
  BY <1>3 DEF Held
<1> QED BY <1>1, <1>3, <1>5, <1>6, <1>7

\* No call, and one more call in turn.
LEMMA InTurnGrows ==
    /\ InTurn(<<>>, 0)
    /\ \A cs, n, c : /\ InTurn(cs, n)
                     /\ c.op.known /\ c.index = n /\ c.completion = n + 1
                     => InTurn(Append(cs, c), n + 2)
    /\ \A cs, n : InTurn(cs, n) => InTurn(cs, n + 2)
<1>1. InTurn(<<>>, 0)
  <2>1. Listed(<<>>)
    BY OneState
  <2>2. DOMAIN <<>> = {}
    OBVIOUS
  <2> QED BY <2>1, <2>2 DEF InTurn
<1>2. ASSUME NEW cs, NEW n, InTurn(cs, n) PROVE InTurn(cs, n + 2)
  <2>1. n \in Nat /\ n + 2 \in Nat /\ \A k \in Nat : k < n => k < n + 2
    BY <1>2 DEF InTurn
  <2> QED BY <1>2, <2>1 DEF InTurn
<1>3. ASSUME NEW cs, NEW n, NEW c, InTurn(cs, n), c.op.known, c.index = n, c.completion = n + 1
      PROVE  InTurn(Append(cs, c), n + 2)
  <2>1. PICK ds, k : ds = Append(cs, c) /\ k = Len(cs)
    OBVIOUS
  <2>2. Listed(cs) /\ k \in Nat /\ DOMAIN cs = 1..k
    BY <1>3, <2>1, ListedFacts DEF InTurn
  <2>3. /\ Listed(ds) /\ Len(ds) = k + 1 /\ DOMAIN ds = 1..(k + 1) /\ ds[k + 1] = c
        /\ \A i \in 1..k : ds[i] = cs[i]
    <3>1. /\ Listed(ds) /\ Len(ds) = k + 1 /\ ds[k + 1] = c
          /\ \A i \in 1..k : ds[i] = cs[i]
      BY <2>1, <2>2, ListedAppend
    <3> QED BY <3>1, ListedFacts
  <2>4. \A i \in 1..(k + 1) : i \in 1..k \/ i = k + 1
    BY <2>2
  <2>5. n \in Nat
    BY <1>3 DEF InTurn
  <2>6. ASSUME NEW p \in 1..(k + 1)
        PROVE  /\ ds[p].op.known
               /\ ds[p].index \in Nat /\ ds[p].completion \in Nat
               /\ ds[p].index < ds[p].completion /\ ds[p].completion < n + 2
    <3>1. CASE p = k + 1
      BY <1>3, <2>3, <2>5, <3>1
    <3>2. CASE p \in 1..k
      <4>1. PICK d : d = cs[p]
        OBVIOUS
      <4>2. /\ d.op.known /\ d.index \in Nat /\ d.completion \in Nat
            /\ d.index < d.completion /\ d.completion < n
        BY <1>3, <2>2, <3>2, <4>1 DEF InTurn
      <4>3. PICK e : e = d.completion
        OBVIOUS
      <4>4. e < n + 2
        BY <2>5, <4>2, <4>3
      <4> QED BY <2>3, <3>2, <4>1, <4>2, <4>3, <4>4
    <3> QED BY <2>4, <3>1, <3>2
  <2>7. ASSUME NEW p \in 1..(k + 1), NEW q \in 1..(k + 1), p < q
        PROVE  ds[p].completion < ds[q].index
    <3>1. p \in 1..k
      BY <2>2, <2>7
    <3>2. CASE q \in 1..k
      <4>1. cs[p].completion < cs[q].index
        BY <1>3, <2>2, <2>7, <3>1, <3>2 DEF InTurn
      <4> QED BY <2>3, <3>1, <3>2, <4>1
    <3>3. CASE q = k + 1
      <4>1. cs[p].completion < n
        BY <1>3, <2>2, <3>1 DEF InTurn
      <4> QED BY <1>3, <2>3, <3>1, <3>3, <4>1
    <3> QED BY <2>4, <3>2, <3>3
  <2>8. InTurn(ds, n + 2)
    BY <2>3, <2>5, <2>6, <2>7 DEF InTurn
  <2> QED BY <2>1, <2>8
<1> QED BY <1>1, <1>2, <1>3

\* Of two calls in turn, only the first precedes the other.
LEMMA TurnsPrecede ==
    ASSUME NEW cs, NEW n, InTurn(cs, n), NEW p \in DOMAIN cs, NEW q \in DOMAIN cs
    PROVE  Precedes(cs[p], cs[q]) <=> p < q
<1>1. DOMAIN cs = 1..Len(cs) /\ Len(cs) \in Nat
  BY ListedFacts DEF InTurn
<1>2. PICK a, b, c, d : /\ a = cs[p].index /\ b = cs[p].completion
                        /\ c = cs[q].index /\ d = cs[q].completion
  OBVIOUS
<1>3. /\ a \in Nat /\ b \in Nat /\ c \in Nat /\ d \in Nat /\ a < b /\ c < d
      /\ p < q => b < c
      /\ q < p => d < a
  BY <1>2 DEF InTurn
<1>4. Precedes(cs[p], cs[q]) <=> b < c
  BY <1>2 DEF InTurn, Precedes
<1>5. p < q \/ q < p \/ p = q
  BY <1>1
<1>6. CASE p < q
  BY <1>3, <1>4, <1>6
<1>7. CASE q < p
  <2>1. ~(b < c) /\ ~(p < q)
    BY <1>1, <1>3, <1>7
  <2> QED BY <1>4, <2>1
<1>8. CASE p = q
  <2>1. ~(b < c) /\ ~(p < q)
    <3>1. a = c
      BY <1>2, <1>8
    <3> QED BY <1>1, <1>3, <1>8, <3>1
  <2> QED BY <1>4, <2>1
<1> QED BY <1>5, <1>6, <1>7, <1>8

\* The order of the log is one of the definition.
LEMMA TurnsAreAnOrder ==
    ASSUME NEW cs, NEW n, InTurn(cs, n)
    PROVE  LET o == Numbers(Len(cs))
           IN  o \in OrdersOf(cs) /\ KeepsPrecedence(cs, o)
<1>1. PICK k, o : k = Len(cs) /\ o = Numbers(k)
  OBVIOUS
<1>2. Listed(cs) /\ k \in Nat /\ DOMAIN cs = 1..k
  BY <1>1, ListedFacts DEF InTurn
<1>3. Listed(o) /\ Len(o) = k /\ DOMAIN o = 1..k /\ \A i \in 1..k : o[i] = i
  BY <1>1, <1>2, NumbersAre
<1>4. \A i \in 1..k : o[i] \in DOMAIN cs
  BY <1>2, <1>3
<1>5. \A i, j \in 1..k : o[i] = o[j] => i = j
  BY <1>3
<1>6. \A p \in Required(cs) : \E i \in 1..k : o[i] = p
  BY <1>2, <1>3 DEF Required
<1>7. o \in OrdersOf(cs) /\ IsInjective(o)
  BY <1>2, <1>3, <1>4, <1>5, <1>6, ListIsOrder
<1>8. ASSUME NEW j \in 1..k, NEW p \in 1..k, Precedes(cs[p], cs[o[j]])
      PROVE  \E i \in 1..(j - 1) : o[i] = p
  <2>1. p < j
    BY <1>2, <1>3, <1>8, TurnsPrecede
  <2>2. p \in 1..(j - 1)
    BY <2>1
  <2> QED BY <1>3, <2>2
<1>9. KeepsPrecedence(cs, o)
  BY <1>2, <1>3, <1>7, <1>8 DEF KeepsPrecedence
<1> QED BY <1>1, <1>7, <1>9

\* The search of calls in turn takes them in the order of the log.
LEMMA SearchInTurn ==
    ASSUME NEW name \in MachineModels, NEW cs, NEW m, InTurn(cs, m), LeftInTurn(name, cs) # <<>>
    PROVE  Searched(name, cs) = LeftInTurn(name, cs)
<1>1. PICK n, o, left : n = Len(cs) /\ o = Numbers(n) /\ left = LeftBy(name, cs, o)
  OBVIOUS
<1>2. Listed(cs) /\ n \in Nat /\ DOMAIN cs = 1..n
  BY <1>1, ListedFacts DEF InTurn
<1>3. /\ o \in Seq(DOMAIN cs) /\ Listed(o) /\ Len(o) = n /\ Held(o) = 1..n
      /\ \A i \in 1..n : o[i] = i
  BY <1>1, <1>2, NumbersAre
<1>4. PICK f : /\ Searched(name, cs) = f[<<>>]
               /\ \A order \in Seq(DOMAIN cs) : f[order] = FoundAfter(name, cs, f, order)
  BY <1>2, SearchedFinds
<1>5. Required(cs) = 1..n
  BY <1>2 DEF Required, InTurn
<1>6. left # <<>>
  BY <1>1 DEF LeftInTurn
<1> DEFINE P == {k \in 0..n : f[Begun(o, n - k)] = left /\ LeftBy(name, cs, Begun(o, n - k)) # <<>>}
<1>7. 0 \in P
  <2>1. n - 0 = n /\ n \in 0..Len(o)
    BY <1>2, <1>3
  <2>2. Begun(o, n) = o
    BY <1>3, <2>1, BegunIs
  <2>3. f[o] = left
    BY <1>1, <1>3, <1>4, <1>5 DEF FoundAfter
  <2> QED BY <1>1, <1>2, <1>6, <2>1, <2>2, <2>3
<1>8. ASSUME NEW k \in 0..(n - 1), k \in P PROVE k + 1 \in P
  <2>1. PICK j : j = n - (k + 1)
    OBVIOUS
  <2>2. /\ j \in Nat /\ j \in 0..Len(o) /\ j < Len(o) /\ n - k = j + 1 /\ j + 1 \in 0..Len(o)
        /\ j + 1 \in 1..n /\ n - (k + 1) = j /\ k + 1 \in 0..n /\ j + 1 \notin 1..j
    BY <1>2, <1>3, <2>1
  <2>3. PICK b, c, last : b = Begun(o, j) /\ c = Begun(o, j + 1) /\ last = o[j + 1]
    OBVIOUS
  <2>4. /\ b \in Seq(DOMAIN cs) /\ Len(b) = j /\ \A i \in 1..j : b[i] = o[i]
        /\ Held(b) = {o[i] : i \in 1..j} /\ c = Append(b, j + 1)
    <3>1. last = j + 1
      BY <1>3, <2>2, <2>3
    <3>2. /\ b \in Seq(DOMAIN cs) /\ Len(b) = j /\ \A i \in 1..j : b[i] = o[i]
          /\ Held(b) = {o[i] : i \in 1..j} /\ c = Append(b, last)
      <4>1. o \in Seq(DOMAIN cs) /\ j \in 0..Len(o) /\ j < Len(o)
        BY <1>3, <2>2
      <4> QED BY <2>3, <4>1, BegunIs
    <3> QED BY <3>1, <3>2
  <2>5. Len(c) = j + 1 /\ \A i \in 1..(j + 1) : c[i] = o[i]
    <3>1. o \in Seq(DOMAIN cs) /\ j + 1 \in 0..Len(o)
      BY <1>3, <2>2
    <3> QED BY <2>3, <3>1, BegunIs
  <2>6. f[c] = left /\ LeftBy(name, cs, c) # <<>>
    BY <1>8, <2>2, <2>3
  <2>7. LeftBy(name, cs, b) # <<>>
    <3>1. /\ Len(b) \in Nat /\ Len(c) = Len(b) + 1
          /\ \A i \in 1..Len(b) : cs[b[i]].op = cs[c[i]].op
      BY <2>2, <2>4, <2>5
    <3>2. LeftBy(name, cs, c) = Following(name, LeftBy(name, cs, b), cs[c[Len(c)]].op)
      BY <3>1, LeftNext
    <3>3. \A op : Following(name, <<>>, op) = <<>>
      BY FollowingOne
    <3> QED BY <2>6, <3>2, <3>3
  <2>8. Held(b) = 1..j
    <3>1. \A i \in 1..j : o[i] = i
      BY <1>2, <1>3, <2>2
    <3> QED BY <2>4, <3>1
  <2>9. ~(Required(cs) \subseteq Held(b))
    BY <1>5, <2>2, <2>8
  <2>10. Candidates(cs, Held(b)) = {j + 1}
    <3>1. ASSUME NEW p \in 1..n, NEW q \in 1..n PROVE Precedes(cs[p], cs[q]) <=> p < q
      BY <1>2, TurnsPrecede
    <3>2. \A p \in 1..n : p \notin 1..j <=> j < p
      BY <1>2, <2>2
    <3>3. \A p \in 1..n : j < p => j + 1 < p \/ p = j + 1
      BY <1>2, <2>2
    <3>4. j < j + 1 /\ \A p \in 1..n : ~(j < p /\ p < j + 1)
      BY <1>2, <2>2
    <3>5. ASSUME NEW p \in Candidates(cs, Held(b)) PROVE p = j + 1
      <4>1. p \in 1..n /\ j < p /\ \A q \in 1..n : j < q => ~(q < p)
        BY <1>2, <2>8, <3>1, <3>2 DEF Candidates
      <4>2. ~(j + 1 < p)
        BY <2>2, <3>4, <4>1
      <4> QED BY <3>3, <4>1, <4>2
    <3>6. j + 1 \in Candidates(cs, Held(b))
      BY <1>2, <2>2, <2>8, <3>1, <3>2, <3>4 DEF Candidates
    <3> QED BY <3>5, <3>6
  <2>11. PICK good : good = GoodCalls(name, cs, f, b)
    OBVIOUS
  <2>12. j + 1 \in good
    BY <1>6, <2>4, <2>6, <2>10, <2>11 DEF GoodCalls
  <2>13. Min(good) = j + 1
    <3>1. Min(good) \in good /\ good \subseteq Candidates(cs, Held(b))
      BY <1>2, <2>11, <2>12, LeastGoodCall
    <3> QED BY <2>10, <3>1
  <2>14. f[b] = left
    <3>1. f[b] = FoundAfter(name, cs, f, b)
      BY <1>4, <2>4
    <3>2. good # {}
      BY <2>12
    <3>3. f[Append(b, Min(good))] = left
      BY <2>4, <2>6, <2>13
    <3> QED BY <2>9, <2>11, <3>1, <3>2, <3>3 DEF FoundAfter
  <2> QED BY <2>2, <2>3, <2>7, <2>14
<1> HIDE DEF P
<1>9. n \in P
  <2>1. n \in Nat /\ n \in 0..n
    BY <1>2
  <2>2. \A k \in 0..n : k \in P
    BY <2>1, <1>7, <1>8, NumbersIn
  <2> QED BY <2>1, <2>2
<1>10. f[Begun(o, 0)] = left
  <2>1. n - n = 0
    BY <1>2
  <2> QED BY <1>9, <2>1 DEF P
<1>11. Begun(o, 0) = <<>>
  BY DEF Begun
<1> QED BY <1>1, <1>4, <1>10, <1>11 DEF LeftInTurn

\* One more call leaves what follows.
LEMMA LeftGrows ==
    ASSUME NEW name, NEW cs, Listed(cs), NEW c
    PROVE  LeftInTurn(name, Append(cs, c)) = Following(name, LeftInTurn(name, cs), c.op)
<1>1. PICK n, ds : n = Len(cs) /\ ds = Append(cs, c)
  OBVIOUS
<1>2. n \in Nat /\ n + 1 \in Nat
  BY <1>1, ListedFacts
<1>3. Len(ds) = n + 1 /\ ds[n + 1] = c /\ \A i \in 1..n : ds[i] = cs[i]
  BY <1>1, ListedAppend
<1>4. PICK a, b : a = Numbers(n) /\ b = Numbers(n + 1)
  OBVIOUS
<1>5. Len(a) = n /\ \A i \in 1..n : a[i] = i
  BY <1>2, <1>4, NumbersAre
<1>6. Len(b) = n + 1 /\ \A i \in 1..(n + 1) : b[i] = i
  BY <1>2, <1>4, NumbersAre
<1>7. \A i \in 1..n : i \in 1..(n + 1)
  BY <1>2
<1>8. \A i \in 1..Len(a) : cs[a[i]].op = ds[b[i]].op
  BY <1>3, <1>5, <1>6, <1>7
<1>9. LeftBy(name, ds, b) = Following(name, LeftBy(name, cs, a), ds[b[Len(b)]].op)
  BY <1>2, <1>5, <1>6, <1>8, LeftNext
<1>10. ds[b[Len(b)]] = c
  <2>1. n + 1 \in 1..(n + 1)
    BY <1>2
  <2> QED BY <1>3, <1>6, <2>1
<1> QED BY <1>1, <1>3, <1>4, <1>9, <1>10 DEF LeftInTurn
---------------------------------------------------------------------------
(* The correct subjects, and what a call of each does to its state.        *)

QueueIsSound(c, ring) ==
    /\ c \in 1..8
    /\ ring = [slots |-> ring.slots, head |-> ring.head, tail |-> ring.tail,
               size |-> ring.size, capacity |-> c]
    /\ ring.slots = [i \in 0..(c - 1) |-> ring.slots[i]]
    /\ ring.head \in 0..(c - 1) /\ ring.size \in 0..c
    /\ ring.tail = (ring.head + ring.size) % c

TicksBy(now) == IF now \div PeriodMs < MostTicks THEN now \div PeriodMs ELSE MostTicks

TickerIsSound(ticker) ==
    /\ ticker = [now |-> ticker.now, tick |-> ticker.tick,
                 deadline |-> ticker.deadline, count |-> ticker.count]
    /\ ticker.now \in Nat /\ ticker.tick = TicksBy(ticker.now) /\ ticker.count = ticker.tick
    /\ ticker.deadline = PeriodMs * (ticker.tick + 1)

SubjectIsSound(name, capacity, s) ==
    /\ name \in Queues => QueueIsSound(capacity, s)
    /\ name = "correct-counter" => s.count \in Nat
    /\ name = "counter-refuses-every-third" =>
          /\ s = [count |-> s.count, increments |-> s.increments]
          /\ s.count \in Nat /\ s.increments \in Nat
    /\ name = "register-flushes" =>
          s = [buffer |-> s.buffer, durable |-> s.durable, taken |-> Null]
    /\ name = "ticker" => TickerIsSound(s)

\* A call of which the history has the outcome.
Op(action, input, output) == [operation |-> action, args |-> input, known |-> TRUE, output |-> output]

\* A run keeps a subject sound, and does to its state what the model does.
Simulates(name, capacity, s, action, input) ==
    LET r == RunOf(name, s, action, input)
    IN  /\ SubjectIsSound(name, capacity, r.subject)
        /\ r.kind \in {"ok", "fail"}
        /\ r.kind = "fail" => StateOf(name, r.subject) = StateOf(name, s)
        /\ r.kind = "ok" => StepOf(ModelOf(name, capacity), StateOf(name, s), Op(action, input, r.output))
                                = <<StateOf(name, r.subject)>>

\* A call that agrees with its model leads to one state.
LEMMA AgreedStep ==
    \A action, input, output, x : If(Agrees(Op(action, input, output), output), <<x>>) = <<x>>
  BY DEF If, Agrees, Op

LEMMA OpIs ==
    \A action, input, output :
        /\ Op(action, input, output).operation = action
        /\ Op(action, input, output).args = input
  BY DEF Op

LEMMA CounterSimulates ==
    ASSUME NEW capacity, NEW s, SubjectIsSound("correct-counter", capacity, s)
    PROVE  Simulates("correct-counter", capacity, s, "increment", NoInput)
<1>1. PICK name : name = "correct-counter"
  OBVIOUS
<1>2. PICK k : k = s.count
  OBVIOUS
<1>3. k \in Nat
  BY <1>2 DEF SubjectIsSound
<1>4. PICK t : t = [count |-> k + 1]
  OBVIOUS
<1>5. RunOf(name, s, "increment", NoInput) = Outcome(t, "ok", k + 1)
  BY <1>1, <1>2, <1>4 DEF RunOf, Increment, Queues, SharedCounters, Registers, Tickers
<1>6. StateOf(name, s) = k /\ StateOf(name, t) = k + 1
  BY <1>1, <1>2, <1>4 DEF StateOf, Queues, Registers, Tickers
<1>7. ModelOf(name, capacity) = "counter"
  BY <1>1 DEF ModelOf, Queues, SharedCounters, Registers, Tickers
<1>8. StepOf("counter", k, Op("increment", NoInput, k + 1)) = <<k + 1>>
  <2>1. StepOf("counter", k, Op("increment", NoInput, k + 1)) = Counter(k, Op("increment", NoInput, k + 1))
    BY DEF StepOf
  <2> QED BY <2>1, OpIs, AgreedStep DEF Counter
<1>9. SubjectIsSound(name, capacity, t)
  BY <1>1, <1>3, <1>4 DEF SubjectIsSound, Queues
<1> QED BY <1>1, <1>5, <1>6, <1>7, <1>8, <1>9 DEF Simulates, Outcome

LEMMA RefusingSimulates ==
    ASSUME NEW capacity, NEW s, SubjectIsSound("counter-refuses-every-third", capacity, s),
           NEW action \in {"increment", "read"}
    PROVE  Simulates("counter-refuses-every-third", capacity, s, action, NoInput)
<1>1. PICK name : name = "counter-refuses-every-third"
  OBVIOUS
<1>2. PICK k, n : k = s.count /\ n = s.increments
  OBVIOUS
<1>3. s = [count |-> k, increments |-> n] /\ k \in Nat /\ n \in Nat
  BY <1>2 DEF SubjectIsSound
<1>4. PICK counted, added : /\ counted = [count |-> k, increments |-> n + 1]
                            /\ added = [count |-> k + 1, increments |-> n + 1]
  OBVIOUS
<1>5. RunOf(name, s, action, NoInput) = Refusing(s, action)
  BY <1>1 DEF RunOf, Queues, SharedCounters, Registers, Tickers
<1>6. /\ [s EXCEPT !.increments = @ + 1] = counted
      /\ [counted EXCEPT !.count = @ + 1] = added
  BY <1>3, <1>4
<1>7. /\ action = "read" => Refusing(s, action) = Outcome(s, "ok", k)
      /\ action = "increment" => \/ Refusing(s, action) = Outcome(counted, "fail", "refused")
                                 \/ Refusing(s, action) = Outcome(added, "ok", k + 1)
  <2>1. added.count = k + 1
    BY <1>4
  <2> QED BY <1>2, <1>6, <2>1 DEF Refusing
<1>8. StateOf(name, s) = k /\ StateOf(name, counted) = k /\ StateOf(name, added) = k + 1
  BY <1>1, <1>2, <1>4 DEF StateOf, Queues, Registers, Tickers
<1>9. ModelOf(name, capacity) = "reading-counter"
  BY <1>1 DEF ModelOf, Queues, SharedCounters, Registers, Tickers
<1>10. /\ StepOf("reading-counter", k, Op("increment", NoInput, k + 1)) = <<k + 1>>
       /\ StepOf("reading-counter", k, Op("read", NoInput, k)) = <<k>>
  <2>1. \A op : StepOf("reading-counter", k, op) = ReadingCounter(k, op)
    BY DEF StepOf
  <2> QED BY <2>1, OpIs, AgreedStep DEF ReadingCounter, Counter
<1>11. /\ SubjectIsSound(name, capacity, s) /\ SubjectIsSound(name, capacity, counted)
       /\ SubjectIsSound(name, capacity, added)
  BY <1>1, <1>3, <1>4 DEF SubjectIsSound, Queues
<1>12. CASE action = "read"
  BY <1>1, <1>5, <1>7, <1>8, <1>9, <1>10, <1>11, <1>12 DEF Simulates, Outcome
<1>13. CASE action = "increment"
  BY <1>1, <1>5, <1>7, <1>8, <1>9, <1>10, <1>11, <1>13 DEF Simulates, Outcome
<1> QED BY <1>12, <1>13

LEMMA RegisterSimulates ==
    ASSUME NEW capacity, NEW s, SubjectIsSound("register-flushes", capacity, s),
           NEW action \in {"write", "read"}, NEW input,
           action = "write" => \E v \in Values : input = <<v>>
    PROVE  Simulates("register-flushes", capacity, s, action, input)
<1>1. PICK name : name = "register-flushes"
  OBVIOUS
<1>2. PICK b, d : b = s.buffer /\ d = s.durable
  OBVIOUS
<1>3. s = [buffer |-> b, durable |-> d, taken |-> Null]
  BY <1>2 DEF SubjectIsSound
<1>4. RunOf(name, s, action, input) = RegisterCall(s, action, input)
  BY <1>1 DEF RunOf, Queues, SharedCounters, Registers, Tickers
<1>5. \A t : StateOf(name, t) = BufferedOr(t)
  BY <1>1 DEF StateOf, Queues, Registers, Tickers
<1>6. ModelOf(name, capacity) = "register" /\ \A x, op : StepOf("register", x, op) = Register(x, op)
  <2>1. ModelOf(name, capacity) = "register"
    BY <1>1 DEF ModelOf, Queues, SharedCounters, Registers, Tickers
  <2> QED BY <2>1 DEF StepOf
<1>7. CASE action = "write"
  <2>1. PICK v \in Values : input = <<v>>
    BY <1>7
  <2>2. v # Null
    BY SubjectsAssumption
  <2>3. PICK t : t = [buffer |-> v, durable |-> d, taken |-> Null]
    OBVIOUS
  <2>4. [s EXCEPT !.buffer = input[1]] = t
    BY <1>3, <2>1, <2>3
  <2>5. RunOf(name, s, action, input) = Outcome(t, "ok", Null)
    BY <1>4, <1>7, <2>4 DEF RegisterCall
  <2>6. StateOf(name, t) = v
    BY <1>5, <2>2, <2>3 DEF BufferedOr
  <2>7. \A x, output : Register(x, Op(action, input, output)) = <<v>>
    BY <1>7, <2>1, OpIs DEF Register
  <2>8. SubjectIsSound(name, capacity, t)
    BY <1>1, <2>3 DEF SubjectIsSound, Queues
  <2> QED BY <1>1, <1>6, <2>5, <2>6, <2>7, <2>8 DEF Simulates, Outcome
<1>8. CASE action = "read"
  <2>1. RunOf(name, s, action, input) = Outcome(s, "ok", BufferedOr(s))
    BY <1>4, <1>8 DEF RegisterCall
  <2>2. ASSUME NEW x PROVE Register(x, Op(action, input, x)) = <<x>>
    <3>1. Op(action, input, x).operation # "write"
      BY <1>8, OpIs
    <3> QED BY <3>1, AgreedStep DEF Register
  <2> QED BY <1>1, <1>5, <1>6, <2>1, <2>2 DEF Simulates, Outcome
<1> QED BY <1>7, <1>8

\* The turn of a flusher that writes in one part leaves the state as it is.
LEMMA FlushKeepsState ==
    ASSUME NEW capacity, NEW s, SubjectIsSound("register-flushes", capacity, s)
    PROVE  LET t == Flushed("register-flushes", s)
           IN  /\ SubjectIsSound("register-flushes", capacity, t)
               /\ StateOf("register-flushes", t) = StateOf("register-flushes", s)
<1>1. PICK name : name = "register-flushes"
  OBVIOUS
<1>2. PICK b, d : b = s.buffer /\ d = s.durable
  OBVIOUS
<1>3. s = [buffer |-> b, durable |-> d, taken |-> Null]
  BY <1>2 DEF SubjectIsSound
<1>4. \A t : StateOf(name, t) = BufferedOr(t)
  BY <1>1 DEF StateOf, Queues, Registers, Tickers
<1>5. PICK t : t = Flushed(name, s)
  OBVIOUS
<1>6. CASE b = Null
  <2>1. t = s
    BY <1>1, <1>3, <1>5, <1>6 DEF Flushed
  <2> QED BY <1>1, <1>5, <2>1
<1>7. CASE b # Null
  <2>1. t = [buffer |-> Null, durable |-> b, taken |-> Null]
    <3>1. t = [s EXCEPT !.durable = s.buffer, !.buffer = Null]
      BY <1>1, <1>3, <1>5, <1>7 DEF Flushed
    <3> QED BY <1>3, <3>1
  <2>2. BufferedOr(t) = b /\ BufferedOr(s) = b
    BY <1>3, <1>7, <2>1 DEF BufferedOr
  <2>3. SubjectIsSound(name, capacity, t)
    BY <1>1, <2>1 DEF SubjectIsSound, Queues
  <2> QED BY <1>1, <1>4, <1>5, <2>2, <2>3
<1> QED BY <1>6, <1>7

\* Around a ring once at most.
LEMMA RingMod ==
    ASSUME NEW c \in 1..8, NEW x \in Nat, x < c + c
    PROVE  /\ x < c => x % c = x
           /\ c <= x => x % c = x - c
<1>1. c = 1 \/ c = 2 \/ c = 3 \/ c = 4 \/ c = 5 \/ c = 6 \/ c = 7 \/ c = 8
  OBVIOUS
<1>2. CASE c = 1
  BY <1>2
<1>3. CASE c = 2
  BY <1>3
<1>4. CASE c = 3
  BY <1>4
<1>5. CASE c = 4
  BY <1>5
<1>6. CASE c = 5
  BY <1>6
<1>7. CASE c = 6
  BY <1>7
<1>8. CASE c = 7
  BY <1>8
<1>9. CASE c = 8
  BY <1>9
<1> QED BY <1>1, <1>2, <1>3, <1>4, <1>5, <1>6, <1>7, <1>8, <1>9

\* The place in a ring of the i-th value from the head.
PlaceOf(c, head, i) == (head + i - 1) % c

LEMMA PlacesAre ==
    ASSUME NEW c \in 1..8, NEW head \in 0..(c - 1)
    PROVE  /\ \A i \in 1..(c + 1) : /\ PlaceOf(c, head, i) \in 0..(c - 1)
                                    /\ head + i - 1 < c => PlaceOf(c, head, i) = head + i - 1
                                    /\ c <= head + i - 1 => PlaceOf(c, head, i) = head + i - 1 - c
           /\ PlaceOf(c, head, 1) = head
           /\ (head + 1) % c \in 0..(c - 1)
           /\ \A i \in 1..c : PlaceOf(c, (head + 1) % c, i) = PlaceOf(c, head, i + 1)
           /\ \A i, j \in 1..c : PlaceOf(c, head, i) = PlaceOf(c, head, j) => i = j
<1>1. ASSUME NEW h \in 0..(c - 1), NEW i \in 1..(c + 1)
      PROVE  /\ PlaceOf(c, h, i) \in 0..(c - 1)
             /\ h + i - 1 < c => PlaceOf(c, h, i) = h + i - 1
             /\ c <= h + i - 1 => PlaceOf(c, h, i) = h + i - 1 - c
  <2>1. PICK x : x = h + i - 1
    OBVIOUS
  <2>2. x \in Nat /\ x < c + c
    BY <2>1
  <2>3. (x < c => x % c = x) /\ (c <= x => x % c = x - c)
    BY <2>2, RingMod
  <2>4. PlaceOf(c, h, i) = x % c
    BY <2>1 DEF PlaceOf
  <2> QED BY <2>1, <2>2, <2>3, <2>4
<1>2. PICK g : g = (head + 1) % c
  OBVIOUS
<1>3. g \in 0..(c - 1) /\ (head + 1 < c => g = head + 1) /\ (c <= head + 1 => g = 0)
  <2>1. head + 1 \in Nat /\ head + 1 < c + c
    OBVIOUS
  <2>2. (head + 1 < c => g = head + 1) /\ (c <= head + 1 => g = head + 1 - c)
    BY <1>2, <2>1, RingMod
  <2> QED BY <2>2
<1>4. PlaceOf(c, head, 1) = head
  <2>1. 1 \in 1..(c + 1) /\ head + 1 - 1 = head /\ head < c
    OBVIOUS
  <2> QED BY <1>1, <2>1
<1>5. ASSUME NEW i \in 1..c PROVE PlaceOf(c, g, i) = PlaceOf(c, head, i + 1)
  <2>1. i \in 1..(c + 1) /\ i + 1 \in 1..(c + 1)
    OBVIOUS
  <2>2. PICK a, b : a = PlaceOf(c, g, i) /\ b = PlaceOf(c, head, i + 1)
    OBVIOUS
  <2>3. (g + i - 1 < c => a = g + i - 1) /\ (c <= g + i - 1 => a = g + i - 1 - c)
    BY <1>1, <1>3, <2>1, <2>2
  <2>4. /\ head + (i + 1) - 1 < c => b = head + (i + 1) - 1
        /\ c <= head + (i + 1) - 1 => b = head + (i + 1) - 1 - c
    BY <1>1, <2>1, <2>2
  <2>5. a = b
    BY <1>3, <2>3, <2>4
  <2> QED BY <2>2, <2>5
<1>6. ASSUME NEW i \in 1..c, NEW j \in 1..c, PlaceOf(c, head, i) = PlaceOf(c, head, j) PROVE i = j
  <2>1. i \in 1..(c + 1) /\ j \in 1..(c + 1)
    OBVIOUS
  <2>2. PICK a : a = PlaceOf(c, head, i) /\ a = PlaceOf(c, head, j)
    BY <1>6
  <2>3. (head + i - 1 < c => a = head + i - 1) /\ (c <= head + i - 1 => a = head + i - 1 - c)
    BY <1>1, <2>1, <2>2
  <2>4. (head + j - 1 < c => a = head + j - 1) /\ (c <= head + j - 1 => a = head + j - 1 - c)
    BY <1>1, <2>1, <2>2
  <2> QED BY <2>3, <2>4
<1> QED BY <1>1, <1>2, <1>3, <1>4, <1>5, <1>6

\* The values of a ring, from its head.
LEMMA RingIs ==
    ASSUME NEW c, NEW ring, QueueIsSound(c, ring)
    PROVE  LET q == StateOf("correct-queue", ring)
           IN  /\ q = [i \in 1..ring.size |-> q[i]]
               /\ Listed(q) /\ Len(q) = ring.size
               /\ \A i \in 1..ring.size : q[i] = ring.slots[PlaceOf(c, ring.head, i)]
<1>1. PICK q : q = StateOf("correct-queue", ring)
  OBVIOUS
<1>2. q = [i \in 1..ring.size |-> ring.slots[(ring.head + i - 1) % ring.capacity]]
  BY <1>1 DEF StateOf, Queues, Registers, Tickers
<1>3. q = [i \in 1..ring.size |-> q[i]]
  BY <1>2
<1>4. ring.capacity = c /\ ring.size \in Nat
  BY DEF QueueIsSound
<1>5. Listed(q) /\ Len(q) = ring.size
  BY <1>3, <1>4, ListedFunction
<1> QED BY <1>1, <1>2, <1>3, <1>4, <1>5 DEF PlaceOf

\* A ring is what its five fields are.
LEMMA SameRing ==
    ASSUME NEW s, NEW h, NEW t, NEW n, NEW c, NEW e, NEW r,
           r = [slots |-> s, head |-> h, tail |-> t, size |-> n, capacity |-> c],
           DOMAIN e = {"slots", "head", "tail", "size", "capacity"}, e = [x \in DOMAIN e |-> e[x]],
           e.slots = s, e.head = h, e.tail = t, e.size = n, e.capacity = c
    PROVE  e = r
<1>1. /\ DOMAIN r = {"slots", "head", "tail", "size", "capacity"}
      /\ r = [x \in DOMAIN r |-> r[x]]
      /\ r.slots = s /\ r.head = h /\ r.tail = t /\ r.size = n /\ r.capacity = c
  OBVIOUS
<1>2. \A x \in DOMAIN e : e[x] = r[x]
  BY <1>1
<1> QED BY <1>1, <1>2

\* A put of a queue with room adds the value at the end.
LEMMA PutAppends ==
    ASSUME NEW c, NEW ring, QueueIsSound(c, ring), ring.size # c, NEW v
    PROVE  LET r == Put("correct-queue", ring, v)
           IN  /\ r = Outcome(r.subject, "ok", TRUE) /\ QueueIsSound(c, r.subject)
               /\ StateOf("correct-queue", r.subject) = Append(StateOf("correct-queue", ring), v)
<1>1. PICK s, h, t, n : s = ring.slots /\ h = ring.head /\ t = ring.tail /\ n = ring.size
  OBVIOUS
<1>2. /\ ring = [slots |-> s, head |-> h, tail |-> t, size |-> n, capacity |-> c]
      /\ s = [i \in 0..(c - 1) |-> s[i]]
  BY <1>1 DEF QueueIsSound
<1>a. c \in 1..8 /\ h \in 0..(c - 1) /\ n \in 0..c /\ n # c
  BY <1>1 DEF QueueIsSound
<1>b. t = (h + n) % c
  BY <1>1 DEF QueueIsSound
<1>3. n \in 0..(c - 1) /\ n + 1 \in 1..c /\ n \in Nat
  BY <1>a
<1>4. t = PlaceOf(c, h, n + 1) /\ t \in 0..(c - 1)
  <2>1. h + ((n + 1) - 1) = h + n /\ n + 1 \in 1..(c + 1)
    BY <1>a, <1>3
  <2>2. t = PlaceOf(c, h, n + 1)
    <3>1. PlaceOf(c, h, n + 1) = (h + ((n + 1) - 1)) % c
      BY DEF PlaceOf
    <3> QED BY <1>b, <2>1, <3>1, Zenon
  <2>3. \A i \in 1..(c + 1) : PlaceOf(c, h, i) \in 0..(c - 1)
    BY <1>a, PlacesAre
  <2> QED BY <2>1, <2>2, <2>3
<1>5. PICK u, p, m : u = (IF t = c - 1 THEN 0 ELSE t + 1) /\ p = [s EXCEPT ![t] = v] /\ m = n + 1
  OBVIOUS
<1>6. u = (h + m) % c
  <2>1. PICK x, y : x = h + n /\ y = h + m
    OBVIOUS
  <2>2. x \in Nat /\ x < c + c /\ y \in Nat /\ y < c + c /\ y = x + 1
    BY <1>a, <1>3, <1>5, <2>1
  <2>3. (x < c => x % c = x) /\ (c <= x => x % c = x - c)
    BY <1>a, <2>2, RingMod
  <2>4. (y < c => y % c = y) /\ (c <= y => y % c = y - c)
    BY <1>a, <2>2, RingMod
  <2>5. PICK a, b : a = x % c /\ b = y % c
    OBVIOUS
  <2>6. t = a
    BY <1>b, <2>1, <2>5
  <2>7. u = b
    BY <1>a, <1>4, <1>5, <2>1, <2>2, <2>3, <2>4, <2>5, <2>6
  <2> QED BY <2>1, <2>5, <2>7
<1>7. PICK next : next = [slots |-> p, head |-> h, tail |-> u, size |-> m, capacity |-> c]
  OBVIOUS
<1>8. Put("correct-queue", ring, v) = Outcome(next, "ok", TRUE)
  <2>1. ring.size # ring.capacity
    BY <1>1, <1>2, <1>a
  <2>2. [ring EXCEPT !.slots[t] = v, !.size = @ + 1, !.tail = u] = next
    <3>1. [ring EXCEPT !.slots[t] = v, !.size = @ + 1, !.tail = u]
              = [ring EXCEPT !.slots = p, !.size = m, !.tail = u]
      BY <1>1, <1>2, <1>5
    <3>2. ring = [slots |-> s, head |-> h, tail |-> t, size |-> n, capacity |-> c]
      BY <1>2
    <3>3. PICK e : e = [ring EXCEPT !.slots = p, !.size = m, !.tail = u]
      OBVIOUS
    <3>4. /\ e.slots = p /\ e.head = h /\ e.tail = u /\ e.size = m /\ e.capacity = c
          /\ DOMAIN e = DOMAIN ring /\ e = [x \in DOMAIN e |-> e[x]]
      BY <3>2, <3>3
    <3>5. e = next
      BY <1>7, <3>2, <3>4, SameRing
    <3> QED BY <3>1, <3>3, <3>5
  <2>3. (IF ring.tail = ring.capacity - 1 THEN 0 ELSE ring.tail + 1) = u
    BY <1>1, <1>2, <1>5
  <2> QED BY <1>1, <2>1, <2>2, <2>3 DEF Put
<1>9. /\ p = [i \in 0..(c - 1) |-> p[i]] /\ p[t] = v
      /\ \A i \in 0..(c - 1) : i # t => p[i] = s[i]
  BY <1>2, <1>4, <1>5
<1>10. QueueIsSound(c, next)
  <2>1. m \in 0..c
    BY <1>a, <1>3, <1>5
  <2>2. /\ next.slots = p /\ next.head = h /\ next.tail = u /\ next.size = m
        /\ next = [slots |-> p, head |-> h, tail |-> u, size |-> m, capacity |-> c]
    BY <1>7
  <2>3. p = [i \in 0..(c - 1) |-> p[i]]
    BY <1>9
  <2> QED BY <1>a, <1>6, <2>1, <2>2, <2>3 DEF QueueIsSound
<1>11. PICK q, r : q = StateOf("correct-queue", ring) /\ r = StateOf("correct-queue", next)
  OBVIOUS
<1>12. Listed(q) /\ Len(q) = n /\ \A i \in 1..n : q[i] = s[PlaceOf(c, h, i)]
  BY <1>1, <1>11, RingIs
<1>13. r = [i \in 1..m |-> r[i]] /\ \A i \in 1..m : r[i] = p[PlaceOf(c, h, i)]
  BY <1>7, <1>10, <1>11, RingIs
<1>14. PICK e : e = Append(q, v)
  OBVIOUS
<1>15. /\ Listed(e) /\ Len(e) = m /\ e[m] = v
       /\ \A i \in 1..n : e[i] = q[i]
  BY <1>5, <1>12, <1>14, ListedAppend
<1>16. e = [i \in 1..m |-> e[i]]
  BY <1>15 DEF Listed
<1>17. ASSUME NEW i \in 1..m PROVE r[i] = e[i]
  <2>1. CASE i = m
    BY <1>4, <1>5, <1>9, <1>13, <1>15, <2>1
  <2>2. CASE i # m
    <3>1. i \in 1..n /\ i \in 1..c /\ i # n + 1 /\ n + 1 \in 1..c /\ i \in 1..(c + 1)
      BY <1>a, <1>3, <1>5, <2>2
    <3>2. PlaceOf(c, h, i) # t
      <4>1. \A a, b \in 1..c : PlaceOf(c, h, a) = PlaceOf(c, h, b) => a = b
        BY <1>a, PlacesAre
      <4> QED BY <1>4, <3>1, <4>1
    <3>3. PlaceOf(c, h, i) \in 0..(c - 1)
      BY <1>a, <3>1, PlacesAre
    <3> QED BY <1>9, <1>12, <1>13, <1>15, <3>1, <3>2, <3>3
  <2> QED BY <2>1, <2>2
<1>18. r = e
  BY <1>13, <1>16, <1>17, SameFunction, Zenon
<1>19. Outcome(next, "ok", TRUE).subject = next
  BY DEF Outcome
<1> QED BY <1>8, <1>10, <1>11, <1>14, <1>18, <1>19

\* A get of a queue that is not empty takes the first value.
LEMMA GetTakes ==
    ASSUME NEW c, NEW ring, QueueIsSound(c, ring), ring.size # 0
    PROVE  LET r == Get(ring)
               q == StateOf("correct-queue", ring)
           IN  /\ r = Outcome(r.subject, "ok", Head(q)) /\ QueueIsSound(c, r.subject)
               /\ q # <<>> /\ StateOf("correct-queue", r.subject) = Tail(q)
<1>1. PICK s, h, t, n : s = ring.slots /\ h = ring.head /\ t = ring.tail /\ n = ring.size
  OBVIOUS
<1>2. /\ ring = [slots |-> s, head |-> h, tail |-> t, size |-> n, capacity |-> c]
      /\ s = [i \in 0..(c - 1) |-> s[i]]
  BY <1>1 DEF QueueIsSound
<1>a. c \in 1..8 /\ h \in 0..(c - 1) /\ n \in 0..c /\ n # 0
  BY <1>1 DEF QueueIsSound
<1>b. t = (h + n) % c
  BY <1>1 DEF QueueIsSound
<1>3. n \in 1..c /\ n \in Nat
  BY <1>a
<1>4. PICK g, m : g = (h + 1) % c /\ m = n - 1
  OBVIOUS
<1>5. /\ g \in 0..(c - 1) /\ PlaceOf(c, h, 1) = h
      /\ \A i \in 1..c : PlaceOf(c, g, i) = PlaceOf(c, h, i + 1)
  <2>1. \A d \in 1..8 : \A e \in 0..(d - 1) :
            /\ (e + 1) % d \in 0..(d - 1) /\ PlaceOf(d, e, 1) = e
            /\ \A i \in 1..d : PlaceOf(d, (e + 1) % d, i) = PlaceOf(d, e, i + 1)
    BY PlacesAre
  <2> QED BY <1>a, <1>4, <2>1
<1>6. t = (g + m) % c
  <2>1. CASE m = 0
    <3>1. h + n = h + 1 /\ g + m = g /\ g < c /\ g \in Nat /\ g < c + c
      BY <1>a, <1>4, <1>5, <2>1
    <3>2. g % c = g
      BY <1>a, <3>1, RingMod
    <3>3. t = g
      BY <1>b, <1>4, <3>1
    <3> QED BY <3>1, <3>2, <3>3
  <2>2. CASE m # 0
    <3>1. n \in 1..c /\ g + (n - 1) = g + m /\ h + ((n + 1) - 1) = h + n
      BY <1>a, <1>3, <1>4, <1>5
    <3>2. PlaceOf(c, g, n) = PlaceOf(c, h, n + 1)
      BY <1>5, <3>1
    <3>3. PlaceOf(c, g, n) = (g + (n - 1)) % c /\ PlaceOf(c, h, n + 1) = (h + ((n + 1) - 1)) % c
      BY DEF PlaceOf
    <3>4. PlaceOf(c, g, n) = (g + m) % c /\ PlaceOf(c, h, n + 1) = t
      BY <1>b, <3>1, <3>3, Zenon
    <3> QED BY <3>2, <3>4
  <2> QED BY <2>1, <2>2
<1>7. PICK next : next = [slots |-> s, head |-> g, tail |-> t, size |-> m, capacity |-> c]
  OBVIOUS
<1>8. Get(ring) = Outcome(next, "ok", s[h])
  <2>1. [ring EXCEPT !.head = (@ + 1) % ring.capacity, !.size = @ - 1] = next
    <3>1. [ring EXCEPT !.head = (@ + 1) % ring.capacity, !.size = @ - 1]
              = [ring EXCEPT !.head = g, !.size = m]
      <4>1. ring.head = h /\ ring.size = n /\ ring.capacity = c
        BY <1>2
      <4> QED BY <1>2, <1>4, <4>1
    <3>2. ring = [slots |-> s, head |-> h, tail |-> t, size |-> n, capacity |-> c]
      BY <1>2
    <3>3. PICK e : e = [ring EXCEPT !.head = g, !.size = m]
      OBVIOUS
    <3>4. /\ e.slots = s /\ e.head = g /\ e.tail = t /\ e.size = m /\ e.capacity = c
          /\ DOMAIN e = DOMAIN ring /\ e = [x \in DOMAIN e |-> e[x]]
      BY <3>2, <3>3
    <3>5. e = next
      BY <1>7, <3>2, <3>4, SameRing
    <3> QED BY <3>1, <3>3, <3>5
  <2> QED BY <1>1, <2>1 DEF Get
<1>9. QueueIsSound(c, next)
  <2>1. m \in 0..c
    BY <1>a, <1>3, <1>4
  <2>2. /\ next.slots = s /\ next.head = g /\ next.tail = t /\ next.size = m
        /\ next = [slots |-> s, head |-> g, tail |-> t, size |-> m, capacity |-> c]
    BY <1>7
  <2> QED BY <1>2, <1>a, <1>5, <1>6, <2>1, <2>2 DEF QueueIsSound
<1>10. PICK q, r : q = StateOf("correct-queue", ring) /\ r = StateOf("correct-queue", next)
  OBVIOUS
<1>11. Listed(q) /\ Len(q) = n /\ \A i \in 1..n : q[i] = s[PlaceOf(c, h, i)]
  BY <1>1, <1>10, RingIs
<1>12. r = [i \in 1..m |-> r[i]] /\ \A i \in 1..m : r[i] = s[PlaceOf(c, g, i)]
  <2>1. next.slots = s /\ next.head = g /\ next.size = m
    BY <1>7
  <2>2. /\ r = [i \in 1..next.size |-> r[i]]
        /\ \A i \in 1..next.size : r[i] = next.slots[PlaceOf(c, next.head, i)]
    BY <1>9, <1>10, RingIs
  <2> QED BY <2>1, <2>2
<1>13. q # <<>> /\ Head(q) = s[h]
  <2>1. 1 \in 1..n /\ n # 0
    BY <1>3
  <2>2. q # <<>>
    BY <1>11, <2>1, ListedFacts
  <2>3. q[1] = s[h]
    BY <1>5, <1>11, <2>1
  <2> QED BY <1>11, <2>2, <2>3 DEF Listed
<1>14. PICK e : e = Tail(q)
  OBVIOUS
<1>15. e = [i \in 1..m |-> e[i]] /\ \A i \in 1..m : e[i] = q[i + 1]
  <2>1. PICK T : q \in Seq(T)
    BY <1>11 DEF Listed
  <2>2. e \in Seq(T) /\ Len(e) = m /\ \A i \in 1..m : e[i] = q[i + 1]
    BY <1>4, <1>11, <1>13, <1>14, <2>1
  <2> QED BY <2>2
<1>16. ASSUME NEW i \in 1..m PROVE r[i] = e[i]
  <2>1. i \in 1..c /\ i + 1 \in 1..n
    BY <1>a, <1>3, <1>4
  <2> QED BY <1>5, <1>11, <1>12, <1>15, <2>1
<1>17. r = e
  BY <1>12, <1>15, <1>16, SameFunction, Zenon
<1>18. Outcome(next, "ok", s[h]).subject = next
  BY DEF Outcome
<1> QED BY <1>8, <1>9, <1>10, <1>13, <1>14, <1>17, <1>18

LEMMA QueueSimulates ==
    ASSUME NEW c, NEW ring, SubjectIsSound("correct-queue", c, ring),
           NEW action \in {"put", "get"}, NEW input, action = "put" => \E v \in Values : input = <<v>>
    PROVE  Simulates("correct-queue", c, ring, action, input)
<1>1. PICK name : name = "correct-queue"
  OBVIOUS
<1>2. QueueIsSound(c, ring) /\ c \in 1..8
  BY DEF SubjectIsSound, Queues, QueueIsSound
<1>3. PICK q : q = StateOf(name, ring)
  OBVIOUS
<1>4. Listed(q) /\ Len(q) = ring.size /\ ring.capacity = c
  <2>1. ring.capacity = c
    BY <1>2 DEF QueueIsSound
  <2>2. Listed(q) /\ Len(q) = ring.size
    BY <1>1, <1>2, <1>3, RingIs
  <2> QED BY <2>1, <2>2
<1>5. \A s, op : StepOf(ModelOf(name, c), s, op) = BoundedQueue(c, s, op)
  <2>1. ModelOf(name, c) = QueueModels[c]
    BY <1>1 DEF ModelOf, Queues, SharedCounters, Registers, Tickers
  <2> QED BY <1>2, <2>1, QueueStep
<1>6. RunOf(name, ring, action, input) =
          IF action = "put" THEN Put(name, ring, input[1]) ELSE Get(ring)
  BY <1>1 DEF RunOf, Queues, SharedCounters, Registers, Tickers
<1>7. ASSUME NEW next, QueueIsSound(c, next) PROVE SubjectIsSound(name, c, next)
  BY <1>1, <1>7 DEF SubjectIsSound
<1>8. CASE action = "put"
  <2>1. PICK v \in Values : input = <<v>> /\ input[1] = v
    BY <1>8
  <2>2. CASE ring.size = c
    <3>1. RunOf(name, ring, action, input) = Outcome(ring, "ok", FALSE)
      BY <1>4, <1>6, <1>8, <2>2 DEF Put
    <3>2. Len(q) = c
      BY <1>4, <2>2
    <3>3. BoundedQueue(c, q, Op(action, input, FALSE)) = <<q>>
      BY <1>8, <3>2, OpIs DEF BoundedQueue, If, Agrees, Op
    <3>4. PICK r : r = RunOf(name, ring, action, input)
      OBVIOUS
    <3>5. r.kind = "ok" /\ r.output = FALSE /\ r.subject = ring
      BY <3>1, <3>4 DEF Outcome
    <3> QED BY <1>1, <1>3, <1>5, <3>3, <3>4, <3>5 DEF Simulates
  <2>3. CASE ring.size # c
    <3>1. PICK r : r = RunOf(name, ring, action, input)
      OBVIOUS
    <3>2. r = Put(name, ring, v)
      BY <1>6, <1>8, <2>1, <3>1
    <3>3. /\ r = Outcome(r.subject, "ok", TRUE) /\ QueueIsSound(c, r.subject)
          /\ StateOf(name, r.subject) = Append(q, v)
      BY <1>1, <1>2, <1>3, <2>3, <3>2, PutAppends
    <3>4. Len(q) # c
      BY <1>4, <2>3
    <3>5. BoundedQueue(c, q, Op(action, input, TRUE)) = <<Append(q, v)>>
      BY <1>8, <2>1, <3>4, OpIs DEF BoundedQueue, If, Agrees, Op
    <3>6. r.kind = "ok" /\ r.output = TRUE
      BY <3>3 DEF Outcome
    <3> QED BY <1>1, <1>3, <1>5, <1>7, <3>1, <3>3, <3>5, <3>6 DEF Simulates
  <2> QED BY <2>2, <2>3
<1>9. CASE action = "get"
  <2>1. PICK r : r = RunOf(name, ring, action, input)
    OBVIOUS
  <2>2. r = Get(ring)
    BY <1>6, <1>9, <2>1
  <2>3. \A output : Op(action, input, output).operation # "put"
    BY <1>9, OpIs
  <2>4. CASE ring.size = 0
    <3>1. r = Outcome(ring, "ok", Null)
      BY <2>2, <2>4 DEF Get
    <3>2. q = <<>>
      BY <1>4, <2>4, ListedFacts
    <3>3. BoundedQueue(c, q, Op(action, input, Null)) = <<q>>
      BY <2>3, <3>2, AgreedStep DEF BoundedQueue
    <3> QED BY <1>1, <1>3, <1>5, <2>1, <3>1, <3>3 DEF Simulates, Outcome
  <2>5. CASE ring.size # 0
    <3>1. /\ r = Outcome(r.subject, "ok", Head(q)) /\ QueueIsSound(c, r.subject)
          /\ q # <<>> /\ StateOf(name, r.subject) = Tail(q)
      BY <1>1, <1>2, <1>3, <2>2, <2>5, GetTakes
    <3>2. BoundedQueue(c, q, Op(action, input, Head(q))) = <<Tail(q)>>
      BY <2>3, <3>1, AgreedStep DEF BoundedQueue
    <3>3. r.kind = "ok" /\ r.output = Head(q)
      BY <3>1 DEF Outcome
    <3> QED BY <1>1, <1>3, <1>5, <1>7, <2>1, <3>1, <3>2, <3>3 DEF Simulates
  <2> QED BY <2>4, <2>5
<1> QED BY <1>8, <1>9

\* A ticker on its way to a time, with the ticks counted that it has passed.
OnTheWay(t, end) ==
    /\ t = [now |-> t.now, tick |-> t.tick, deadline |-> t.deadline, count |-> t.count]
    /\ t.tick \in 0..MostTicks /\ t.count = t.tick
    /\ t.deadline = PeriodMs * (t.tick + 1) /\ PeriodMs * t.tick <= end

Arrived(t, end) == t.tick = MostTicks \/ end < t.deadline

\* A tick that is due is counted, and one that is not changes nothing.
LEMMA TickCounts ==
    ASSUME NEW t, NEW end \in Nat, OnTheWay(t, end)
    PROVE  LET u == Ticked("ticker", t, end)
           IN  /\ OnTheWay(u, end)
               /\ Arrived(t, end) => u = t
               /\ ~Arrived(t, end) => u.tick = t.tick + 1
<1>1. PICK w, k, d, n : w = t.now /\ k = t.tick /\ d = t.deadline /\ n = t.count
  OBVIOUS
<1>2. /\ t = [now |-> w, tick |-> k, deadline |-> d, count |-> n]
      /\ k \in 0..4 /\ n = k /\ d = 4 * (k + 1) /\ 4 * k <= end
  BY <1>1 DEF OnTheWay, MostTicks, PeriodMs
<1>3. PICK u : u = Ticked("ticker", t, end)
  OBVIOUS
<1>4. Arrived(t, end) <=> k = 4 \/ d > end
  BY <1>1, <1>2 DEF Arrived, MostTicks
<1>5. CASE Arrived(t, end)
  <2>1. u = t
    BY <1>1, <1>3, <1>4, <1>5 DEF Ticked, MostTicks
  <2> QED BY <1>3, <1>5, <2>1
<1>6. CASE ~Arrived(t, end)
  <2>1. u = [now |-> d, tick |-> k + 1, deadline |-> d + 4, count |-> n + 1]
    BY <1>1, <1>3, <1>4, <1>6 DEF Ticked, MostTicks, PeriodMs
  <2>2. k + 1 \in 0..4 /\ n + 1 = k + 1 /\ d + 4 = 4 * ((k + 1) + 1) /\ 4 * (k + 1) <= end
    BY <1>2, <1>4, <1>6
  <2>3. u.now = d /\ u.tick = k + 1 /\ u.deadline = d + 4 /\ u.count = n + 1
    BY <2>1
  <2>4. OnTheWay(u, end)
    BY <2>1, <2>2, <2>3 DEF OnTheWay, MostTicks, PeriodMs
  <2> QED BY <1>1, <1>3, <1>6, <2>3, <2>4
<1> QED BY <1>5, <1>6

Ticks4(f, t, end) ==
    f = [i \in 0..MostTicks |-> IF i = 0 THEN t ELSE Ticked("ticker", f[i - 1], end)]

\* An advance takes every tick that is due, one after the other.
LEMMA AdvancedIs ==
    ASSUME NEW t, NEW end \in Nat, OnTheWay(t, end)
    PROVE  \E u : OnTheWay(u, end) /\ Arrived(u, end) /\ Advanced("ticker", t, end) = [u EXCEPT !.now = end]
<1>1. PICK a, b, c, d : /\ a = Ticked("ticker", t, end) /\ b = Ticked("ticker", a, end)
                        /\ c = Ticked("ticker", b, end) /\ d = Ticked("ticker", c, end)
  OBVIOUS
<1>2. /\ OnTheWay(a, end) /\ (Arrived(t, end) => a = t) /\ (~Arrived(t, end) => a.tick = t.tick + 1)
  BY <1>1, TickCounts
<1>3. /\ OnTheWay(b, end) /\ (Arrived(a, end) => b = a) /\ (~Arrived(a, end) => b.tick = a.tick + 1)
  BY <1>1, <1>2, TickCounts
<1>4. /\ OnTheWay(c, end) /\ (Arrived(b, end) => c = b) /\ (~Arrived(b, end) => c.tick = b.tick + 1)
  BY <1>1, <1>3, TickCounts
<1>5. /\ OnTheWay(d, end) /\ (Arrived(c, end) => d = c) /\ (~Arrived(c, end) => d.tick = c.tick + 1)
  BY <1>1, <1>4, TickCounts
<1>6. Arrived(d, end)
  <2> SUFFICES ASSUME ~Arrived(d, end) PROVE FALSE
    OBVIOUS
  <2>1. ~Arrived(c, end) /\ ~Arrived(b, end) /\ ~Arrived(a, end) /\ ~Arrived(t, end)
    BY <1>2, <1>3, <1>4, <1>5
  <2>2. PICK i, j, k, l, m : i = t.tick /\ j = a.tick /\ k = b.tick /\ l = c.tick /\ m = d.tick
    OBVIOUS
  <2>3. i \in 0..4 /\ j = i + 1 /\ k = j + 1 /\ l = k + 1 /\ m = l + 1 /\ m \in 0..4
    BY <1>2, <1>3, <1>4, <1>5, <2>1, <2>2 DEF OnTheWay, MostTicks
  <2>4. m = 4
    BY <2>3
  <2> QED BY <2>2, <2>4 DEF Arrived, MostTicks
<1>7. PICK f : f = CHOOSE g : Ticks4(g, t, end)
  OBVIOUS
<1>8. Ticks4(f, t, end)
  <2>1. PICK g : g = [i \in 0..4 |-> IF i = 0 THEN t ELSE IF i = 1 THEN a ELSE IF i = 2 THEN b
                                     ELSE IF i = 3 THEN c ELSE d]
    OBVIOUS
  <2>2. g[0] = t /\ g[1] = a /\ g[2] = b /\ g[3] = c /\ g[4] = d
    BY <2>1
  <2>3. ASSUME NEW i \in 0..4 PROVE g[i] = IF i = 0 THEN t ELSE Ticked("ticker", g[i - 1], end)
    <3>1. i = 0 \/ i = 1 \/ i = 2 \/ i = 3 \/ i = 4
      OBVIOUS
    <3>2. CASE i = 0
      BY <2>2, <3>2
    <3>3. CASE i = 1
      BY <1>1, <2>2, <3>3
    <3>4. CASE i = 2
      BY <1>1, <2>2, <3>4
    <3>5. CASE i = 3
      BY <1>1, <2>2, <3>5
    <3>6. CASE i = 4
      BY <1>1, <2>2, <3>6
    <3> QED BY <3>1, <3>2, <3>3, <3>4, <3>5, <3>6
  <2>4. g = [i \in 0..4 |-> g[i]]
    BY <2>1
  <2>5. Ticks4(g, t, end)
    BY <2>3, <2>4 DEF Ticks4, MostTicks
  <2> QED BY <1>7, <2>5
<1>9. \A i \in 0..4 : f[i] = IF i = 0 THEN t ELSE Ticked("ticker", f[i - 1], end)
  BY <1>8, Zenon DEF Ticks4, MostTicks
<1>10. f[4] = d
  <2>1. f[0] = t
    BY <1>9
  <2>2. f[1] = a
    <3>1. 1 \in 0..4 /\ 1 # 0 /\ 1 - 1 = 0
      OBVIOUS
    <3> QED BY <1>1, <1>9, <2>1, <3>1
  <2>3. f[2] = b
    <3>1. 2 \in 0..4 /\ 2 # 0 /\ 2 - 1 = 1
      OBVIOUS
    <3> QED BY <1>1, <1>9, <2>2, <3>1
  <2>4. f[3] = c
    <3>1. 3 \in 0..4 /\ 3 # 0 /\ 3 - 1 = 2
      OBVIOUS
    <3> QED BY <1>1, <1>9, <2>3, <3>1
  <2>5. 4 \in 0..4 /\ 4 # 0 /\ 4 - 1 = 3
    OBVIOUS
  <2> QED BY <1>1, <1>9, <2>4, <2>5
<1>11. Advanced("ticker", t, end) = [f[4] EXCEPT !.now = end]
  BY <1>7 DEF Advanced, Ticks4, MostTicks
<1> QED BY <1>5, <1>6, <1>10, <1>11

\* Periods that have passed by a time.
LEMMA PeriodsPassed ==
    ASSUME NEW k \in 0..4, NEW end \in Nat, 4 * k <= end, k = 4 \/ end < 4 * (k + 1)
    PROVE  TicksBy(end) = k
<1>1. PICK m : m = end \div 4
  OBVIOUS
<1>2. m \in Nat /\ 4 * m <= end /\ end < 4 * m + 4
  BY <1>1
<1>3. TicksBy(end) = IF m < 4 THEN m ELSE 4
  BY <1>1 DEF TicksBy, PeriodMs, MostTicks
<1> QED BY <1>2, <1>3

LEMMA PassedPeriods ==
    ASSUME NEW end \in Nat
    PROVE  TicksBy(end) \in 0..4 /\ 4 * TicksBy(end) <= end
<1>1. PICK m : m = end \div 4
  OBVIOUS
<1>2. m \in Nat /\ 4 * m <= end
  BY <1>1
<1>3. TicksBy(end) = IF m < 4 THEN m ELSE 4
  BY <1>1 DEF TicksBy, PeriodMs, MostTicks
<1> QED BY <1>2, <1>3

LEMMA TickerSimulates ==
    ASSUME NEW capacity, NEW t, SubjectIsSound("ticker", capacity, t), NEW action \in {"advance", "read"},
           NEW input, action = "advance" => \E n \in Milliseconds : input = <<n>>
    PROVE  Simulates("ticker", capacity, t, action, input)
<1>1. PICK name : name = "ticker"
  OBVIOUS
<1>2. PICK now : now = t.now
  OBVIOUS
<1>3. /\ t = [now |-> now, tick |-> t.tick, deadline |-> t.deadline, count |-> t.count]
      /\ now \in Nat /\ t.tick = TicksBy(now) /\ t.count = t.tick
      /\ t.deadline = PeriodMs * (t.tick + 1)
  BY <1>2 DEF SubjectIsSound, TickerIsSound
<1>4. RunOf(name, t, action, input) = Ticker(name, t, action, input)
  BY <1>1 DEF RunOf, Queues, SharedCounters, Registers, Tickers
<1>5. \A u : StateOf(name, u) = u.now
  BY <1>1 DEF StateOf, Queues, Registers, Tickers
<1>6. ModelOf(name, capacity) = "ticks" /\ \A x, op : StepOf("ticks", x, op) = Ticks(x, op)
  <2>1. ModelOf(name, capacity) = "ticks"
    BY <1>1 DEF ModelOf, Queues, SharedCounters, Registers, Tickers
  <2> QED BY <2>1 DEF StepOf
<1>7. CASE action = "advance"
  <2>1. PICK n \in Milliseconds : input = <<n>>
    BY <1>7
  <2>2. PICK end : end = now + n
    OBVIOUS
  <2>3. n \in Nat /\ end \in Nat /\ now <= end /\ input[1] = n
    BY <1>3, <2>1, <2>2, SubjectsAssumption
  <2>4. OnTheWay(t, end)
    <3>1. PICK k : k = t.tick
      OBVIOUS
    <3>2. k \in 0..4 /\ 4 * k <= now
      BY <1>3, <3>1, PassedPeriods
    <3>3. 4 * k <= end
      BY <1>3, <2>3, <3>2
    <3> QED BY <1>2, <1>3, <3>1, <3>2, <3>3 DEF OnTheWay, MostTicks, PeriodMs
  <2>5. PICK u : OnTheWay(u, end) /\ Arrived(u, end) /\ Advanced(name, t, end) = [u EXCEPT !.now = end]
    BY <1>1, <2>3, <2>4, AdvancedIs
  <2>6. PICK k, d, c : k = u.tick /\ d = u.deadline /\ c = u.count
    OBVIOUS
  <2>7. /\ u = [now |-> u.now, tick |-> k, deadline |-> d, count |-> c]
        /\ k \in 0..4 /\ c = k /\ d = 4 * (k + 1) /\ 4 * k <= end
        /\ k = 4 \/ end < d
    BY <2>5, <2>6 DEF OnTheWay, Arrived, MostTicks, PeriodMs
  <2>8. PICK next : next = [now |-> end, tick |-> k, deadline |-> d, count |-> c]
    OBVIOUS
  <2>9. Advanced(name, t, end) = next
    <3>1. u = [now |-> u.now, tick |-> k, deadline |-> d, count |-> c]
      BY <2>7
    <3> QED BY <2>5, <2>8, <3>1
  <2>10. TicksBy(end) = k
    BY <2>3, <2>7, PeriodsPassed
  <2>11. TickerIsSound(next)
    BY <2>3, <2>7, <2>8, <2>10 DEF TickerIsSound, PeriodMs
  <2>12. SubjectIsSound(name, capacity, next)
    BY <1>1, <2>11 DEF SubjectIsSound, Queues
  <2>13. RunOf(name, t, action, input) = Outcome(next, "ok", Null)
    BY <1>2, <1>4, <1>7, <2>2, <2>3, <2>9 DEF Ticker
  <2>14. Ticks(now, Op(action, input, Null)) = <<end>>
    BY <1>7, <2>2, <2>3, OpIs DEF Ticks
  <2>15. StateOf(name, t) = now /\ StateOf(name, next) = end
    BY <1>2, <1>5, <2>8
  <2> QED BY <1>1, <1>6, <2>12, <2>13, <2>14, <2>15 DEF Simulates, Outcome
<1>8. CASE action = "read"
  <2>1. PICK c : c = t.count
    OBVIOUS
  <2>2. RunOf(name, t, action, input) = Outcome(t, "ok", c)
    BY <1>4, <1>8, <2>1 DEF Ticker
  <2>3. Op(action, input, c).operation # "advance"
    BY <1>8, OpIs
  <2>4. c = TicksBy(now)
    BY <1>3, <2>1
  <2>5. Ticks(now, Op(action, input, c)) = <<now>>
    BY <2>3, <2>4, AgreedStep DEF Ticks, TicksBy
  <2>6. StateOf(name, t) = now
    BY <1>2, <1>5
  <2> QED BY <1>1, <1>6, <2>2, <2>5, <2>6 DEF Simulates, Outcome
<1> QED BY <1>7, <1>8

\* A run of an action of a correct subject.
LEMMA CorrectSimulates ==
    ASSUME NEW name \in Correct, NEW capacity, NEW s, SubjectIsSound(name, capacity, s),
           NEW action \in Held(ActionsOf(name)), NEW input \in InputsOf(name, action)
    PROVE  Simulates(name, capacity, s, action, input)
<1>1. \A x, y : Held(<<x>>) = {x} /\ Held(<<x, y>>) = {x, y}
  BY OneState
<1>2. CASE name = "correct-queue"
  <2>1. action \in {"put", "get"}
    BY <1>1, <1>2 DEF ActionsOf, Queues, SharedCounters, Registers, Tickers
  <2>2. action = "put" => input \in {<<v>> : v \in Values}
    BY <1>2 DEF InputsOf, Queues
  <2>3. action = "put" => \E v \in Values : input = <<v>>
    BY <2>2
  <2> QED BY <1>2, <2>1, <2>3, QueueSimulates
<1>3. CASE name = "correct-counter"
  <2>1. action = "increment"
    BY <1>1, <1>3 DEF ActionsOf, Queues, SharedCounters, Registers, Tickers
  <2>2. input = NoInput
    BY <2>1 DEF InputsOf
  <2> QED BY <1>3, <2>1, <2>2, CounterSimulates
<1>4. CASE name = "register-flushes"
  <2>1. action \in {"write", "read"}
    BY <1>1, <1>4 DEF ActionsOf, Queues, SharedCounters, Registers, Tickers
  <2>2. action = "write" => input \in {<<v>> : v \in Values}
    BY DEF InputsOf
  <2>3. action = "write" => \E v \in Values : input = <<v>>
    BY <2>2
  <2> QED BY <1>4, <2>1, <2>3, RegisterSimulates
<1>5. CASE name = "ticker"
  <2>1. action \in {"advance", "read"}
    BY <1>1, <1>5 DEF ActionsOf, Queues, SharedCounters, Registers, Tickers
  <2>2. action = "advance" => input \in {<<n>> : n \in Milliseconds}
    BY DEF InputsOf
  <2>3. action = "advance" => \E n \in Milliseconds : input = <<n>>
    BY <2>2
  <2> QED BY <1>5, <2>1, <2>3, TickerSimulates
<1>6. CASE name = "counter-refuses-every-third"
  <2>1. action \in {"increment", "read"}
    BY <1>1, <1>6 DEF ActionsOf, Queues, SharedCounters, Registers, Tickers
  <2>2. input = NoInput
    BY <2>1 DEF InputsOf
  <2> QED BY <1>6, <2>1, <2>2, RefusingSimulates
<1> QED BY <1>2, <1>3, <1>4, <1>5, <1>6 DEF Correct

\* A correct subject is built in the first state of its model.
LEMMA FreshIsSound ==
    ASSUME NEW name \in Correct, NEW capacity, name \in Queues => capacity \in 1..8, NEW increments \in Nat
    PROVE  LET s == Fresh(name, capacity, increments)
           IN  SubjectIsSound(name, capacity, s) /\ StateOf(name, s) = InitOf(ModelOf(name, capacity))
<1>1. PICK s : s = Fresh(name, capacity, increments)
  OBVIOUS
<1>2. CASE name = "correct-queue"
  <2>1. PICK slots : slots = [i \in 0..(capacity - 1) |-> Null]
    OBVIOUS
  <2>2. s = [slots |-> slots, head |-> 0, tail |-> 0, size |-> 0, capacity |-> capacity]
    BY <1>1, <1>2, <2>1 DEF Fresh, Queues, SharedCounters, Registers, Tickers
  <2>3. capacity \in 1..8
    BY <1>2 DEF Queues
  <2>4. 0 \in 0..(capacity - 1) /\ 0 \in 0..capacity /\ (0 + 0) % capacity = 0
    <3>1. 0 < capacity + capacity /\ 0 < capacity /\ 0 + 0 = 0 /\ 0 \in 0..(capacity - 1)
      BY <2>3
    <3>2. 0 % capacity = 0
      BY <2>3, <3>1, RingMod
    <3> QED BY <2>3, <3>1, <3>2
  <2>5. slots = [i \in 0..(capacity - 1) |-> slots[i]]
    BY <2>1
  <2>6. /\ s.slots = slots /\ s.head = 0 /\ s.tail = 0 /\ s.size = 0
        /\ s = [slots |-> s.slots, head |-> s.head, tail |-> s.tail,
                size |-> s.size, capacity |-> capacity]
    BY <2>2
  <2>7. QueueIsSound(capacity, s)
    BY <2>3, <2>4, <2>5, <2>6 DEF QueueIsSound
  <2>8. StateOf(name, s) = <<>>
    <3>1. PICK q : q = StateOf(name, s)
      OBVIOUS
    <3>2. Listed(q) /\ Len(q) = 0
      BY <1>2, <2>6, <2>7, <3>1, RingIs
    <3> QED BY <3>1, <3>2, ListedFacts
  <2>9. ModelOf(name, capacity) = QueueModels[capacity]
    BY <1>2 DEF ModelOf, Queues, SharedCounters, Registers, Tickers
  <2>10. InitOf(QueueModels[capacity]) = <<>>
    BY <2>3, QueueStep
  <2> QED BY <1>1, <1>2, <2>7, <2>8, <2>9, <2>10 DEF SubjectIsSound
<1>3. CASE name = "correct-counter"
  <2>1. s = [count |-> 0]
    BY <1>1, <1>3 DEF Fresh, Queues, SharedCounters, Registers, Tickers
  <2>2. StateOf(name, s) = 0
    BY <1>3, <2>1 DEF StateOf, Queues, Registers, Tickers
  <2>3. ModelOf(name, capacity) = "counter" /\ InitOf("counter") = 0
    <3>1. ModelOf(name, capacity) = "counter"
      BY <1>3 DEF ModelOf, Queues, SharedCounters, Registers, Tickers
    <3> QED BY <3>1 DEF InitOf
  <2> QED BY <1>1, <1>3, <2>1, <2>2, <2>3 DEF SubjectIsSound, Queues
<1>4. CASE name = "register-flushes"
  <2>1. s = [buffer |-> Null, durable |-> Null, taken |-> Null]
    BY <1>1, <1>4 DEF Fresh, Queues, SharedCounters, Registers, Tickers
  <2>2. StateOf(name, s) = Null
    BY <1>4, <2>1 DEF StateOf, BufferedOr, Queues, Registers, Tickers
  <2>3. ModelOf(name, capacity) = "register" /\ InitOf("register") = Null
    <3>1. ModelOf(name, capacity) = "register"
      BY <1>4 DEF ModelOf, Queues, SharedCounters, Registers, Tickers
    <3> QED BY <3>1 DEF InitOf
  <2> QED BY <1>1, <1>4, <2>1, <2>2, <2>3 DEF SubjectIsSound, Queues
<1>5. CASE name = "ticker"
  <2>1. s = [now |-> 0, tick |-> 0, deadline |-> 4, count |-> 0]
    BY <1>1, <1>5 DEF Fresh, PeriodMs, Queues, SharedCounters, Registers, Tickers
  <2>2. StateOf(name, s) = 0
    BY <1>5, <2>1 DEF StateOf, Queues, Registers, Tickers
  <2>3. ModelOf(name, capacity) = "ticks" /\ InitOf("ticks") = 0
    <3>1. ModelOf(name, capacity) = "ticks"
      BY <1>5 DEF ModelOf, Queues, SharedCounters, Registers, Tickers
    <3> QED BY <3>1 DEF InitOf
  <2>4. TicksBy(0) = 0
    BY PeriodsPassed
  <2>5. TickerIsSound(s)
    BY <2>1, <2>4 DEF TickerIsSound, PeriodMs
  <2> QED BY <1>1, <1>5, <2>2, <2>3, <2>5 DEF SubjectIsSound, Queues
<1>6. CASE name = "counter-refuses-every-third"
  <2>1. s = [count |-> 0, increments |-> increments]
    BY <1>1, <1>6 DEF Fresh, Queues, SharedCounters, Registers, Tickers
  <2>2. StateOf(name, s) = 0
    BY <1>6, <2>1 DEF StateOf, Queues, Registers, Tickers
  <2>3. ModelOf(name, capacity) = "reading-counter" /\ InitOf("reading-counter") = 0
    <3>1. ModelOf(name, capacity) = "reading-counter"
      BY <1>6 DEF ModelOf, Queues, SharedCounters, Registers, Tickers
    <3> QED BY <3>1 DEF InitOf
  <2> QED BY <1>1, <1>6, <2>1, <2>2, <2>3 DEF SubjectIsSound, Queues
<1> QED BY <1>2, <1>3, <1>4, <1>5, <1>6 DEF Correct
---------------------------------------------------------------------------
(* The inductive invariant.                                                *)

\* What a section lists: an action of the machine and an input of it.
Entries(name) ==
    UNION {{[action |-> a, input |-> i] : i \in InputsOf(name, a)} : a \in Held(ActionsOf(name))}

\* No task is the flusher's.
NoFlusher(s) == Listed(s) /\ Flusher \notin Held(s)

MachineTypes ==
    /\ setup \in Setups /\ kept \subseteq All
    /\ planned \in [Clients -> Seq(Entries(Name))]
    /\ Listed(log)
    /\ part # "over" => status = "running"

\* Only the racy increment yields, and only a register has a flusher.
TasksAreOf ==
    /\ Name # "racy-counter" => midway = [c \in Clients |-> [call |-> NoCall, read |-> 0]]
    /\ Name \notin Registers => NoFlusher(ready) /\ turn # Flusher

\* The parts in which the states are those of the whole log.
Settled == {"sequential", "concurrent", "drain", "settle"}

\* The states are what the search finds, and the status what it decides.
Searches(model, events, found, where, outcomes) ==
    model # NoModel =>
        /\ where \in Settled \/ outcomes = "passed" =>
              found = Searched(model, Calls(events)) /\ found # <<>>
        /\ outcomes = "linearizable" => Searched(model, Calls(events)) = <<>>

\* A correct subject is what its model makes of the calls, in their turn.
CorrectSoFar(name, capacity, s, events) ==
    /\ SubjectIsSound(name, capacity, s)
    /\ Closed(events) /\ InTurn(Calls(events), Len(events))
    /\ LeftInTurn(ModelOf(name, capacity), Calls(events)) = <<StateOf(name, s)>>

MachineInv ==
    /\ MachineTypes /\ TasksAreOf
    /\ Searches(Model, log, states, part, status)
    /\ Name \in Correct => CorrectSoFar(Name, setup.capacity, subject, log)

\* The names of the machine are those of its setup, which never changes.
LEMMA SameSetup ==
    ASSUME setup' = setup
    PROVE  Name' = Name /\ Model' = Model /\ Clients' = Clients /\ All' = All
  BY DEF Name, Model, Clients, All

\* The invariant of the next state, in the names of this one.
LEMMA Assembled ==
    ASSUME setup' = setup, setup \in Setups, kept' \subseteq All,
           planned' \in [Clients -> Seq(Entries(Name))], Listed(log'),
           part' # "over" => status' = "running",
           Name # "racy-counter" => midway' = [c \in Clients |-> [call |-> NoCall, read |-> 0]],
           Name \notin Registers => NoFlusher(ready') /\ turn' # Flusher,
           Searches(Model, log', states', part', status'),
           Name \in Correct => CorrectSoFar(Name, setup.capacity, subject', log')
    PROVE  MachineInv'
<1>1. Name' = Name /\ Model' = Model /\ Clients' = Clients /\ All' = All /\ setup.capacity' = setup.capacity
  BY SameSetup
<1>2. MachineTypes'
  BY <1>1 DEF MachineTypes
<1>3. TasksAreOf'
  BY <1>1 DEF TasksAreOf
<1> QED BY <1>1, <1>2, <1>3 DEF MachineInv

\* A setup names a subject, and its model is one of those that are checked.
LEMMA SetupIs ==
    ASSUME setup \in Setups
    PROVE  /\ Name \in SubjectNames /\ setup.clients \in Nat
           /\ Name \in Queues => setup.capacity \in 1..8
           /\ Model # NoModel => Model \in MachineModels
           /\ All = Held(ActionsOf(Name)) /\ Listed(ActionsOf(Name)) /\ ActionsOf(Name) # <<>>
<1>1. /\ Name \in SubjectNames /\ setup.clients \in Nat
      /\ Name \in Queues => setup.capacity \in 1..8
  BY SetupsAssumption, QueueModelsAre DEF Name
<1>2. Model # NoModel => Model \in MachineModels
  <2>1. CASE Name \in Queues
    <3>1. Model = QueueModels[setup.capacity]
      BY <2>1 DEF Model, ModelOf, Queues, SharedCounters, Registers, Tickers
    <3> QED BY <1>1, <2>1, <3>1, QueueModelsAre DEF MachineModels
  <2>2. CASE Name \notin Queues
    <3>1. Model \in {"counter", "reading-counter", "register", "ticks", NoModel}
      BY <1>1, <2>2 DEF Model, ModelOf, SubjectNames, Queues, SharedCounters,
          Registers, Tickers
    <3> QED BY <3>1 DEF MachineModels
  <2> QED BY <2>1, <2>2
<1>3. All = Held(ActionsOf(Name))
  BY DEF All, Held
<1>4. Listed(ActionsOf(Name)) /\ ActionsOf(Name) # <<>>
  <2>1. \A x, y, z : /\ Listed(<<x>>) /\ <<x>> # <<>> /\ Listed(<<x, y>>) /\ <<x, y>> # <<>>
                     /\ Listed(<<x, y, z>>) /\ <<x, y, z>> # <<>>
    BY DEF Listed, Held
  <2>2. Name \in Queues \/ Name \in SharedCounters \/ Name \in Registers \/ Name \in Tickers
        \/ Name \in {"counter-overflows", "counter-refuses-every-third", "store-loses-on-crash"}
    BY <1>1 DEF SubjectNames
  <2> QED BY <2>1, <2>2 DEF ActionsOf, Queues, SharedCounters, Registers, Tickers
<1> QED BY <1>1, <1>2, <1>3, <1>4

\* The model of a correct subject is one of those that are checked.
LEMMA CorrectHasModel ==
    ASSUME NEW name \in Correct, NEW capacity, name \in Queues => capacity \in 1..8
    PROVE  ModelOf(name, capacity) \in MachineModels /\ NoModel \notin MachineModels
<1>1. NoModel \notin MachineModels
  BY QueueModelsAre DEF MachineModels, NoModel
<1>2. CASE name \in Queues
  <2>1. ModelOf(name, capacity) = QueueModels[capacity]
    BY <1>2 DEF ModelOf, Queues, SharedCounters, Registers, Tickers
  <2> QED BY <1>1, <1>2, <2>1, QueueModelsAre DEF MachineModels
<1>3. CASE name \notin Queues
  <2>1. ModelOf(name, capacity) \in {"counter", "reading-counter", "register", "ticks"}
    BY <1>3 DEF Correct, ModelOf, Queues, SharedCounters, Registers, Tickers
  <2> QED BY <1>1, <2>1 DEF MachineModels
<1> QED BY <1>2, <1>3

LEMMA NoCalls == Calls(<<>>) = <<>> /\ Len(<<>>) = 0 /\ Closed(<<>>)
<1>1. Listed(<<>>) /\ Len(<<>>) = 0
  <2>1. Listed(<<>>)
    BY OneState
  <2> QED BY <2>1
<1>2. PICK cs, K : cs = Calls(<<>>) /\ K = Kept(<<>>)
  OBVIOUS
<1>3. K = {}
  BY <1>1, <1>2 DEF Kept
<1>4. Listed(cs) /\ Len(cs) = Cardinality(K)
  BY <1>1, <1>2, CallsAreListed
<1>5. cs = <<>>
  BY <1>3, <1>4, ListedFacts, FS_EmptySet
<1> QED BY <1>1, <1>2, <1>5 DEF Closed

\* A subject is correct before its first call.
LEMMA FreshIsCorrect ==
    ASSUME NEW name \in Correct, NEW capacity, name \in Queues => capacity \in 1..8, NEW increments \in Nat
    PROVE  CorrectSoFar(name, capacity, Fresh(name, capacity, increments), <<>>)
<1>1. PICK s : s = Fresh(name, capacity, increments)
  OBVIOUS
<1>2. SubjectIsSound(name, capacity, s) /\ StateOf(name, s) = InitOf(ModelOf(name, capacity))
  BY <1>1, FreshIsSound
<1>3. Calls(<<>>) = <<>> /\ Len(<<>>) = 0 /\ Closed(<<>>)
  BY NoCalls
<1>4. Len(Numbers(0)) = 0
  BY NumbersAre
<1>5. LeftInTurn(ModelOf(name, capacity), <<>>) = <<InitOf(ModelOf(name, capacity))>>
  BY <1>3, <1>4, LeftFirst DEF LeftInTurn
<1>6. InTurn(<<>>, 0)
  BY InTurnGrows
<1> QED BY <1>1, <1>2, <1>3, <1>5, <1>6 DEF CorrectSoFar

\* It is correct after one more.
LEMMA CallKeepsCorrect ==
    ASSUME NEW name \in Correct, NEW capacity, name \in Queues => capacity \in 1..8,
           NEW s, NEW events, CorrectSoFar(name, capacity, s, events),
           NEW action \in Held(ActionsOf(name)), NEW input \in InputsOf(name, action)
    PROVE  LET r == RunOf(name, s, action, input)
           IN  /\ r.kind # "none"
               /\ CorrectSoFar(name, capacity, r.subject, WithCall(events, action, input, r.kind, r.output))
<1>1. PICK r : r = RunOf(name, s, action, input)
  OBVIOUS
<1>2. PICK model, cs, n : model = ModelOf(name, capacity) /\ cs = Calls(events) /\ n = Len(events)
  OBVIOUS
<1>3. /\ SubjectIsSound(name, capacity, s) /\ Closed(events) /\ InTurn(cs, n)
      /\ LeftInTurn(model, cs) = <<StateOf(name, s)>>
  BY <1>2 DEF CorrectSoFar
<1>4. Simulates(name, capacity, s, action, input)
  BY <1>3, CorrectSimulates
<1>5. /\ SubjectIsSound(name, capacity, r.subject)
      /\ r.kind \in {"ok", "fail"}
      /\ r.kind = "fail" => StateOf(name, r.subject) = StateOf(name, s)
      /\ r.kind = "ok" => StepOf(model, StateOf(name, s), Op(action, input, r.output))
                              = <<StateOf(name, r.subject)>>
  BY <1>1, <1>2, <1>4 DEF Simulates
<1>6. PICK kind, output, more : /\ kind = r.kind /\ output = r.output
                                /\ more = WithCall(events, action, input, kind, output)
  OBVIOUS
<1>7. PICK c : c = LastCall(n, action, input, output)
  OBVIOUS
<1>8. /\ Closed(more) /\ Len(more) = n + 2 /\ n \in Nat
      /\ kind = "fail" => Calls(more) = cs
      /\ kind = "ok" => Calls(more) = Append(cs, c)
  <2>1. Closed(events) /\ kind \in {"ok", "fail"}
    BY <1>3, <1>5, <1>6
  <2>2. LET w == WithCall(events, action, input, kind, output)
        IN  /\ Closed(w) /\ Len(w) = Len(events) + 2 /\ Len(events) \in Nat
            /\ kind = "fail" => Calls(w) = Calls(events)
            /\ kind = "ok" => Calls(w) = Append(Calls(events), LastCall(Len(events), action, input, output))
    BY <2>1, OneMoreCall
  <2> QED BY <1>2, <1>6, <1>7, <2>2, Zenon
<1>9. CASE kind = "fail"
  <2>1. InTurn(cs, n + 2)
    BY <1>3, InTurnGrows
  <2> QED BY <1>1, <1>2, <1>3, <1>5, <1>6, <1>8, <1>9, <2>1 DEF CorrectSoFar
<1>10. CASE kind = "ok"
  <2>1. c.op = Op(action, input, output) /\ c.op.known /\ c.index = n /\ c.completion = n + 1
    BY <1>7 DEF Op, LastCall
  <2>2. InTurn(Append(cs, c), n + 2)
    BY <1>3, <2>1, InTurnGrows
  <2>3. LeftInTurn(model, Append(cs, c)) = Following(model, LeftInTurn(model, cs), c.op)
    BY <1>3, LeftGrows DEF InTurn
  <2>4. \A x, op : Following(model, <<x>>, op) = StepOf(model, x, op)
    BY FollowingOne
  <2>5. LeftInTurn(model, Append(cs, c)) = <<StateOf(name, r.subject)>>
    BY <1>3, <1>5, <1>6, <1>10, <2>1, <2>3, <2>4
  <2> QED BY <1>1, <1>2, <1>5, <1>6, <1>8, <1>10, <2>2, <2>5 DEF CorrectSoFar
<1> QED BY <1>5, <1>6, <1>9, <1>10

\* The check of a correct subject finds the one state that the subject is in.
LEMMA CorrectIsSearched ==
    ASSUME NEW name \in Correct, NEW capacity, name \in Queues => capacity \in 1..8,
           NEW s, NEW events, CorrectSoFar(name, capacity, s, events)
    PROVE  Searched(ModelOf(name, capacity), Calls(events)) = <<StateOf(name, s)>>
<1>1. PICK model, cs, n : model = ModelOf(name, capacity) /\ cs = Calls(events) /\ n = Len(events)
  OBVIOUS
<1>2. InTurn(cs, n) /\ LeftInTurn(model, cs) = <<StateOf(name, s)>> /\ model \in MachineModels
  BY <1>1, CorrectHasModel DEF CorrectSoFar
<1>3. LeftInTurn(model, cs) # <<>>
  BY <1>2
<1> QED BY <1>1, <1>2, <1>3, SearchInTurn

---------------------------------------------------------------------------
(* What the parts of a step keep.                                          *)

\* A task that is released leaves the others.
LEMMA RemovedHeld ==
    ASSUME NEW s, NoFlusher(s), NEW i \in DOMAIN s
    PROVE  s[i] # Flusher /\ NoFlusher(RemoveAt(s, i))
<1>1. PICK S, n : S = Held(s) /\ n = Len(s)
  OBVIOUS
<1>2. /\ s \in Seq(S) /\ n \in Nat /\ i \in 1..n /\ Flusher \notin S
      /\ \A j \in 1..n : s[j] \in S
  BY <1>1, ListedFacts DEF NoFlusher, Listed
<1>3. SubSeq(s, 1, i - 1) \in Seq(S) /\ SubSeq(s, i + 1, n) \in Seq(S)
  <2>1. 1 \in Int /\ i - 1 \in Int /\ i + 1 \in Int /\ n \in Int
    BY <1>2
  <2>2. (\A j \in 1..(i - 1) : s[j] \in S) /\ (\A j \in (i + 1)..n : s[j] \in S)
    BY <1>2
  <2> QED BY <2>1, <2>2, SubSeqProperties
<1>4. PICK t : t = RemoveAt(s, i)
  OBVIOUS
<1>5. t \in Seq(S)
  BY <1>1, <1>3, <1>4 DEF RemoveAt
<1>6. Listed(t) /\ \A x \in Held(t) : x \in S
  BY <1>5, ListedFrom DEF Held
<1> QED BY <1>2, <1>4, <1>6 DEF NoFlusher

LEMMA NumbersFinite == ASSUME NEW k \in Nat PROVE IsFiniteSet(0..k) /\ 0..k \subseteq Int
  BY FS_Interval

\* The clients that have steps are tasks of their own.
LEMMA SpawnedAreClients ==
    ASSUME setup \in Setups,
           NEW spawned, spawned = Ascending({c \in Clients \ {0} : planned[c] # <<>>}, <)
    PROVE  NoFlusher(spawned)
<1>1. PICK S, n : S = {c \in Clients \ {0} : planned[c] # <<>>} /\ n = Cardinality(S)
  OBVIOUS
<1>2. S \in SUBSET Int /\ IsFiniteSet(S) /\ 0 \notin S
  <2>1. PICK k : k = setup.clients
    OBVIOUS
  <2>2. k \in Nat
    BY <2>1, SetupIs
  <2>3. S \subseteq 0..k /\ 0 \notin S
    BY <1>1, <2>1 DEF Clients
  <2>4. IsFiniteSet(0..k) /\ 0..k \subseteq Int
    BY <2>2, NumbersFinite
  <2> QED BY <2>3, <2>4, FS_Subset
<1>3. spawned = Ascending(S, <)
  BY <1>1
<1>4. n \in Nat /\ DOMAIN spawned = 1..n /\ \A i \in 1..n : spawned[i] \in S
  BY <1>1, <1>2, <1>3, AscendingNumbers
<1>5. spawned = [i \in 1..n |-> spawned[i]]
  <2>1. spawned = [i \in 1..n |-> CHOOSE x \in S : Cardinality({y \in S : y < x}) = i - 1]
    BY <1>1, <1>3 DEF Ascending
  <2> QED BY <2>1
<1>6. Listed(spawned)
  BY <1>4, <1>5, ListedFunction
<1>7. Flusher \notin Held(spawned)
  BY <1>2, <1>4 DEF Held, Flusher
<1> QED BY <1>6, <1>7 DEF NoFlusher

\* A part offers actions of the machine.
LEMMA OfferedAreActions ==
    ASSUME MachineInv, part \in {"sequential", "concurrent", "drain"}
    PROVE  Offered \subseteq Held(ActionsOf(Name))
<1>1. setup \in Setups /\ kept \subseteq Held(ActionsOf(Name))
  BY SetupIs DEF MachineInv, MachineTypes
<1>2. \A actions : Available(actions) \subseteq actions
  BY DEF Available
<1>3. CASE part = "sequential"
  BY <1>1, <1>2, <1>3 DEF Offered
<1>4. CASE part = "concurrent"
  BY <1>1, <1>4 DEF Offered
<1>5. CASE part = "drain"
  <2>1. Drains(Name) \subseteq Held(ActionsOf(Name))
    <3>1. CASE Name = "store-loses-on-crash"
      <4>1. ActionsOf(Name) = <<"put", "flush", "crash">>
        BY <3>1 DEF ActionsOf, Queues, SharedCounters, Registers, Tickers
      <4>2. <<"put", "flush", "crash">>[2] = "flush" /\ 2 \in DOMAIN <<"put", "flush", "crash">>
        OBVIOUS
      <4> QED BY <3>1, <4>1, <4>2 DEF Drains, Held
    <3>2. CASE Name # "store-loses-on-crash"
      BY <3>2 DEF Drains
    <3> QED BY <3>1, <3>2
  <2> QED BY <1>2, <1>5, <2>1 DEF Offered
<1> QED BY <1>3, <1>4, <1>5

\* An entry of the section's list is an action and an input of it.
LEMMA EntryIs ==
    ASSUME NEW name, NEW e \in Entries(name)
    PROVE  e.action \in Held(ActionsOf(name)) /\ e.input \in InputsOf(name, e.action)
<1>1. PICK a \in Held(ActionsOf(name)) : e \in {[action |-> a, input |-> i] : i \in InputsOf(name, a)}
  BY DEF Entries
<1>2. PICK i \in InputsOf(name, a) : e = [action |-> a, input |-> i]
  BY <1>1
<1> QED BY <1>2

\* The next step of a client, and the list without it.
LEMMA NextEntry ==
    ASSUME MachineInv, NEW c \in Clients, planned[c] # <<>>
    PROVE  /\ planned[c][1].action \in Held(ActionsOf(Name))
           /\ planned[c][1].input \in InputsOf(Name, planned[c][1].action)
           /\ [planned EXCEPT ![c] = Tail(@)] \in [Clients -> Seq(Entries(Name))]
<1>1. PICK E, list : E = Entries(Name) /\ list = planned[c]
  OBVIOUS
<1>2. planned \in [Clients -> Seq(E)] /\ list \in Seq(E) /\ list # <<>>
  BY <1>1 DEF MachineInv, MachineTypes
<1>3. list[1] \in E /\ Tail(list) \in Seq(E)
  BY <1>2
<1>4. [planned EXCEPT ![c] = Tail(@)] \in [Clients -> Seq(E)]
  BY <1>1, <1>2, <1>3
<1> QED BY <1>1, <1>3, <1>4, EntryIs

\* A call keeps what a correct subject is.
LEMMA CalledKeeps ==
    ASSUME MachineInv, NEW action \in Held(ActionsOf(Name)), NEW input \in InputsOf(Name, action),
           Called(action, input)
    PROVE  Listed(log') /\ (Name \in Correct => CorrectSoFar(Name, setup.capacity, subject', log'))
<1>1. PICK r, more : r = RunOf(Name, subject, action, input)
                     /\ more = WithCall(log, action, input, r.kind, r.output)
  OBVIOUS
<1>2. subject' = r.subject /\ log' = IF r.kind = "none" THEN log ELSE more
  BY <1>1 DEF Called, WithCall
<1>3. Listed(log) /\ setup \in Setups /\ (Name \in Correct => CorrectSoFar(Name, setup.capacity, subject, log))
  BY DEF MachineInv, MachineTypes
<1>4. Listed(more)
  BY <1>1, <1>3, WithCallIs
<1>5. ASSUME Name \in Correct PROVE CorrectSoFar(Name, setup.capacity, subject', log')
  <2>1. Name \in Queues => setup.capacity \in 1..8
    BY <1>3, SetupIs
  <2>2. r.kind # "none" /\ CorrectSoFar(Name, setup.capacity, r.subject, more)
    BY <1>1, <1>3, <1>5, <2>1, CallKeepsCorrect
  <2> QED BY <1>2, <2>2
<1> QED BY <1>2, <1>3, <1>4, <1>5

\* The states and the status after a check are those of the history.
LEMMA CheckKeeps ==
    ASSUME NEW next, Check(next), part \in Checked, status = "running", next # "over"
    PROVE  /\ Searches(Model, log', states', part', status')
           /\ part' # "over" => status' = "running"
           /\ part' \in {next, "over"}
<1>1. PICK found : found = Searched(Model, Calls(log'))
  OBVIOUS
<1>2. CASE Model = NoModel
  BY <1>2 DEF Check, Searches, outcome
<1>3. CASE Model # NoModel /\ found = <<>>
  <2>1. status' = "linearizable" /\ part' = "over"
    BY <1>1, <1>3 DEF Check
  <2> QED BY <1>1, <1>3, <2>1 DEF Searches, Settled
<1>4. CASE Model # NoModel /\ found # <<>>
  <2>1. states' = found /\ status' = "running" /\ part' = next
    BY <1>1, <1>4 DEF Check, StatesAfter
  <2> QED BY <1>1, <1>4, <2>1 DEF Searches
<1> QED BY <1>2, <1>3, <1>4

---------------------------------------------------------------------------
(* Every step keeps the invariant.                                         *)

\* What the invariant says, part by part.
LEMMA Disassembled ==
    ASSUME MachineInv
    PROVE  /\ setup \in Setups /\ kept \subseteq All /\ Listed(log)
           /\ planned \in [Clients -> Seq(Entries(Name))]
           /\ part # "over" => status = "running"
           /\ Name # "racy-counter" => midway = [c \in Clients |-> [call |-> NoCall, read |-> 0]]
           /\ Name \notin Registers => NoFlusher(ready) /\ turn # Flusher
           /\ Searches(Model, log, states, part, status)
           /\ Name \in Correct => CorrectSoFar(Name, setup.capacity, subject, log)
  BY DEF MachineInv, MachineTypes, TasksAreOf

\* Nothing is done, on a subject that is fresh.
LEMMA NothingIsDone ==
    ASSUME setup \in Setups, NEW increments \in Nat, NEW s, s = Fresh(Name, setup.capacity, increments)
    PROVE  /\ {} \subseteq All /\ Listed(<<>>) /\ NoFlusher(<<>>) /\ NoTask # Flusher
           /\ [c \in Clients |-> <<>>] \in [Clients -> Seq(Entries(Name))]
           /\ \A model, events, found : Searches(model, events, found, "swarm", "running")
           /\ Name \in Correct => CorrectSoFar(Name, setup.capacity, s, <<>>)
<1>1. Listed(<<>>) /\ NoFlusher(<<>>)
  BY OneState DEF NoFlusher
<1>2. NoTask # Flusher
  BY DEF NoTask, Flusher
<1>3. \A E : <<>> \in Seq(E)
  OBVIOUS
<1>4. [c \in Clients |-> <<>>] \in [Clients -> Seq(Entries(Name))]
  BY <1>3
<1>5. \A model, events, found : Searches(model, events, found, "swarm", "running")
  BY DEF Searches, Settled
<1>6. ASSUME Name \in Correct PROVE CorrectSoFar(Name, setup.capacity, s, <<>>)
  <2>1. Name \in Queues => setup.capacity \in 1..8
    BY SetupIs
  <2> QED BY <1>6, <2>1, FreshIsCorrect
<1> QED BY <1>1, <1>2, <1>4, <1>5, <1>6

LEMMA InitMachineInv == Init => MachineInv
<1> SUFFICES ASSUME Init PROVE MachineInv
  OBVIOUS
<1>1. setup \in Setups /\ NothingDone
  BY DEF Init
<1>2. PICK increments \in 0..(Refusal - 1) : subject = Fresh(Name, setup.capacity, increments)
  BY DEF Init
<1>3. increments \in Nat
  BY DEF Refusal
<1>4. /\ {} \subseteq All /\ Listed(<<>>) /\ NoFlusher(<<>>) /\ NoTask # Flusher
      /\ [c \in Clients |-> <<>>] \in [Clients -> Seq(Entries(Name))]
      /\ \A model, events, found : Searches(model, events, found, "swarm", "running")
      /\ Name \in Correct => CorrectSoFar(Name, setup.capacity, subject, <<>>)
  BY <1>1, <1>2, <1>3, NothingIsDone
<1>5. MachineTypes
  BY <1>1, <1>4 DEF MachineTypes, NothingDone
<1>6. TasksAreOf
  BY <1>1, <1>4 DEF TasksAreOf, NothingDone
<1>7. Searches(Model, log, states, part, status)
  BY <1>1, <1>4 DEF NothingDone
<1>8. Name \in Correct => CorrectSoFar(Name, setup.capacity, subject, log)
  BY <1>1, <1>4 DEF NothingDone
<1> QED BY <1>5, <1>6, <1>7, <1>8 DEF MachineInv

\* A step that neither calls nor checks, and does not settle the case.
LEMMA QuietKeeps ==
    ASSUME MachineInv, setup' = setup, log' = log, states' = states, status' = status,
           Name \in Correct => CorrectSoFar(Name, setup.capacity, subject', log),
           kept' \subseteq All, planned' \in [Clients -> Seq(Entries(Name))],
           Name # "racy-counter" => midway' = [c \in Clients |-> [call |-> NoCall, read |-> 0]],
           Name \notin Registers => NoFlusher(ready') /\ turn' # Flusher,
           part # "over", part' # "over", part' \in Settled => part \in Settled
    PROVE  MachineInv'
<1>1. setup \in Setups /\ Listed(log) /\ status = "running" /\ Searches(Model, log, states, part, status)
  BY Disassembled
<1>2. Searches(Model, log', states', part', status')
  BY <1>1 DEF Searches
<1> QED BY <1>1, <1>2, Assembled

LEMMA SwarmKeeps == MachineInv /\ Swarm => MachineInv'
<1> SUFFICES ASSUME MachineInv, Swarm PROVE MachineInv'
  OBVIOUS
<1>1. setup \in Setups /\ Listed(ActionsOf(Name)) /\ ActionsOf(Name) # <<>> /\ All = Held(ActionsOf(Name))
  BY SetupIs, Disassembled
<1>2. PICK actions : actions = ActionsOf(Name)
  OBVIOUS
<1>3. actions[Len(actions)] \in Held(actions)
  BY <1>1, <1>2, ListedFacts
<1>4. \A K \in KeptBySwarm : K \subseteq All
  BY <1>1, <1>2, <1>3 DEF KeptBySwarm
<1>5. kept' \subseteq All /\ part = "swarm" /\ part' = "setup"
  BY <1>4 DEF Swarm
<1>6. /\ setup' = setup /\ log' = log /\ states' = states /\ status' = status /\ subject' = subject
      /\ planned' = planned /\ midway' = midway /\ ready' = ready /\ turn' = turn
  BY DEF Swarm, case, tasks, outcome
<1>7. part' \notin Settled
  BY <1>5 DEF Settled
<1> QED BY <1>5, <1>6, <1>7, Disassembled, QuietKeeps

\* A check after a call or a part.
LEMMA CheckedKeeps ==
    ASSUME MachineInv, setup' = setup, UNCHANGED <<tasks, kept>>, Listed(log'),
           Name \in Correct => CorrectSoFar(Name, setup.capacity, subject', log'),
           NEW next, Check(next), part \in Checked, next # "over"
    PROVE  MachineInv'
<1>1. part # "over"
  BY DEF Checked
<1>2. /\ Searches(Model, log', states', part', status')
      /\ part' # "over" => status' = "running"
  BY <1>1, Disassembled, CheckKeeps
<1>3. planned' = planned /\ midway' = midway /\ ready' = ready /\ turn' = turn /\ kept' = kept
  BY DEF tasks
<1> QED BY <1>2, <1>3, Disassembled, Assembled

LEMMA ChecksKeep == MachineInv /\ (Setup \/ SequentialStep \/ TasksEnd \/ DrainStep) => MachineInv'
<1> SUFFICES ASSUME MachineInv, Setup \/ SequentialStep \/ TasksEnd \/ DrainStep PROVE MachineInv'
  OBVIOUS
<1>1. CASE Setup \/ TasksEnd
  <2>1. /\ setup' = setup /\ UNCHANGED <<tasks, kept>> /\ log' = log /\ subject' = subject
        /\ part \in Checked
    BY <1>1 DEF Setup, TasksEnd, case, Checked
  <2>2. PICK next \in {"sequential", "drain"} : Check(next)
    BY <1>1 DEF Setup, TasksEnd
  <2> QED BY <2>1, <2>2, Disassembled, CheckedKeeps
<1>2. CASE SequentialStep \/ DrainStep
  <2>1. PICK action \in Offered : \E input \in InputsOf(Name, action) : Called(action, input)
    BY <1>2 DEF SequentialStep, DrainStep
  <2>2. PICK input \in InputsOf(Name, action) : Called(action, input)
    BY <2>1
  <2>3. part \in {"sequential", "drain"}
    BY <1>2 DEF SequentialStep, DrainStep
  <2>4. action \in Held(ActionsOf(Name))
    BY <2>3, OfferedAreActions
  <2>5. Listed(log') /\ (Name \in Correct => CorrectSoFar(Name, setup.capacity, subject', log'))
    BY <2>2, <2>4, CalledKeeps
  <2>6. setup' = setup /\ UNCHANGED <<tasks, kept>> /\ part \in Checked
    BY <1>2, <2>3 DEF SequentialStep, DrainStep, case, Checked
  <2>7. PICK next \in {"sequential", "drain"} : Check(next)
    BY <1>2 DEF SequentialStep, DrainStep
  <2> QED BY <2>5, <2>6, <2>7, CheckedKeeps
<1> QED BY <1>1, <1>2

\* The parts end.
LEMMA EndsKeep == MachineInv /\ (SequentialEnds \/ PlanEnds \/ DrainEnds) => MachineInv'
<1> SUFFICES ASSUME MachineInv, SequentialEnds \/ PlanEnds \/ DrainEnds PROVE MachineInv'
  OBVIOUS
<1>1. /\ setup' = setup /\ log' = log /\ states' = states /\ status' = status /\ subject' = subject
      /\ planned' = planned /\ midway' = midway /\ ready' = ready /\ turn' = turn /\ kept' = kept
  BY DEF SequentialEnds, PlanEnds, DrainEnds, case, tasks, outcome
<1>2. part \in {"sequential", "concurrent", "drain"} /\ part' \in {"concurrent", "drain", "client 0", "settle"}
  BY DEF SequentialEnds, PlanEnds, DrainEnds
<1>3. part \in Settled /\ part # "over" /\ part' # "over"
  BY <1>2 DEF Settled
<1> QED BY <1>1, <1>3, Disassembled, QuietKeeps

LEMMA PlanStepKeeps == MachineInv /\ PlanStep => MachineInv'
<1> SUFFICES ASSUME MachineInv, PlanStep PROVE MachineInv'
  OBVIOUS
<1>1. PICK action \in Offered, client \in Clients : \E input \in InputsOf(Name, action) :
          planned' = [planned EXCEPT ![client] = Append(@, [action |-> action, input |-> input])]
  BY DEF PlanStep
<1>2. PICK input \in InputsOf(Name, action) :
          planned' = [planned EXCEPT ![client] = Append(@, [action |-> action, input |-> input])]
  BY <1>1
<1>3. PICK E, e : E = Entries(Name) /\ e = [action |-> action, input |-> input]
  OBVIOUS
<1>4. part = "concurrent" /\ part' = part
  BY DEF PlanStep
<1>5. action \in Held(ActionsOf(Name))
  BY <1>4, OfferedAreActions
<1>6. e \in E
  BY <1>3, <1>5 DEF Entries
<1>7. planned \in [Clients -> Seq(E)]
  BY <1>3, Disassembled
<1>8. Append(planned[client], e) \in Seq(E)
  BY <1>6, <1>7
<1>9. planned' = [planned EXCEPT ![client] = Append(planned[client], e)]
  BY <1>2, <1>3
<1>10. planned' \in [Clients -> Seq(E)]
  BY <1>7, <1>8, <1>9
<1>11. /\ setup' = setup /\ log' = log /\ states' = states /\ status' = status /\ subject' = subject
       /\ midway' = midway /\ ready' = ready /\ turn' = turn /\ kept' = kept
  BY DEF PlanStep, case, outcome
<1> QED BY <1>3, <1>4, <1>10, <1>11, Disassembled, QuietKeeps

\* A call that a task makes within its turn, before the next check.
LEMMA TaskCallKeeps ==
    ASSUME MachineInv, NEW c \in Clients, planned[c] # <<>>,
           Called(planned[c][1].action, planned[c][1].input),
           planned' = [planned EXCEPT ![c] = Tail(@)],
           UNCHANGED <<setup, ready, turn, midway, outcome, part, kept>>,
           part \in {"client 0", "tasks"}
    PROVE  MachineInv'
<1>1. /\ planned[c][1].action \in Held(ActionsOf(Name))
      /\ planned[c][1].input \in InputsOf(Name, planned[c][1].action)
      /\ planned' \in [Clients -> Seq(Entries(Name))]
  BY NextEntry
<1>2. Listed(log') /\ (Name \in Correct => CorrectSoFar(Name, setup.capacity, subject', log'))
  BY <1>1, CalledKeeps
<1>3. status' = "running" /\ part' \notin Settled
  BY Disassembled DEF outcome, Settled
<1>4. Searches(Model, log', states', part', status')
  BY <1>3 DEF Searches
<1>5. /\ setup' = setup /\ kept' = kept /\ midway' = midway /\ ready' = ready /\ turn' = turn
  OBVIOUS
<1> QED BY <1>1, <1>2, <1>3, <1>4, <1>5, Disassembled, Assembled

LEMMA ClientZeroKeeps == MachineInv /\ (ClientZeroStep \/ SpawnClients) => MachineInv'
<1> SUFFICES ASSUME MachineInv, ClientZeroStep \/ SpawnClients PROVE MachineInv'
  OBVIOUS
<1>1. CASE ClientZeroStep
  <2>1. 0 \in Clients
    <3>1. PICK k : k = setup.clients
      OBVIOUS
    <3>2. k \in Nat
      BY <3>1, Disassembled, SetupIs
    <3> QED BY <3>1, <3>2 DEF Clients
  <2>2. UNCHANGED <<setup, ready, turn, midway, outcome, part, kept>> /\ part \in {"client 0", "tasks"}
    BY <1>1 DEF ClientZeroStep, case
  <2> QED BY <1>1, <2>1, <2>2, TaskCallKeeps DEF ClientZeroStep
<1>2. CASE SpawnClients
  <2>1. PICK spawned : spawned = Ascending({c \in Clients \ {0} : planned[c] # <<>>}, <)
    OBVIOUS
  <2>2. NoFlusher(spawned)
    BY <2>1, Disassembled, SpawnedAreClients
  <2>3. ready' = (IF Name \in Registers THEN <<Flusher>> ELSE <<>>) \o spawned
    BY <1>2, <2>1, Zenon DEF SpawnClients
  <2>4. Name \notin Registers => ready' = <<>> \o spawned
    BY <2>3
  <2>5. <<>> \o spawned = spawned
    BY <2>2 DEF NoFlusher, Listed
  <2>6. /\ setup' = setup /\ log' = log /\ states' = states /\ status' = status /\ subject' = subject
        /\ planned' = planned /\ midway' = midway /\ turn' = turn /\ kept' = kept
        /\ part = "client 0" /\ part' = "tasks"
    BY <1>2 DEF SpawnClients, case, outcome
  <2>7. part' \notin Settled
    BY <2>6 DEF Settled
  <2> QED BY <2>2, <2>4, <2>5, <2>6, <2>7, Disassembled, QuietKeeps
<1> QED BY <1>1, <1>2

LEMMA ReleaseKeeps == MachineInv /\ Release => MachineInv'
<1> SUFFICES ASSUME MachineInv, Release PROVE MachineInv'
  OBVIOUS
<1>1. PICK i \in DOMAIN ready : turn' = ready[i] /\ ready' = RemoveAt(ready, i)
  BY DEF Release
<1>2. Name \notin Registers => NoFlusher(ready') /\ turn' # Flusher
  BY <1>1, Disassembled, RemovedHeld
<1>3. /\ setup' = setup /\ log' = log /\ states' = states /\ status' = status /\ subject' = subject
      /\ planned' = planned /\ midway' = midway /\ kept' = kept /\ part' = part /\ part = "tasks"
  BY DEF Release, case, outcome
<1> QED BY <1>2, <1>3, Disassembled, QuietKeeps

\* The turn of the flusher, which only a register has.
LEMMA FlusherKeeps == MachineInv /\ FlusherTurn => MachineInv'
<1> SUFFICES ASSUME MachineInv, FlusherTurn PROVE MachineInv'
  OBVIOUS
<1>1. turn = Flusher /\ subject' = Flushed(Name, subject) /\ part = "tasks"
  BY DEF FlusherTurn
<1>2. Name \in Registers
  BY <1>1, Disassembled
<1>3. ASSUME Name \in Correct PROVE CorrectSoFar(Name, setup.capacity, subject', log)
  <2>1. PICK name, capacity : name = Name /\ capacity = setup.capacity
    OBVIOUS
  <2>2. name = "register-flushes"
    BY <1>2, <1>3, <2>1 DEF Correct, Registers
  <2>3. CorrectSoFar(name, capacity, subject, log)
    BY <1>3, <2>1, Disassembled
  <2>4. PICK s, t : s = subject /\ t = Flushed(name, subject)
    OBVIOUS
  <2>5. SubjectIsSound(name, capacity, t) /\ StateOf(name, t) = StateOf(name, s)
    BY <2>2, <2>3, <2>4, FlushKeepsState DEF CorrectSoFar
  <2> QED BY <1>1, <2>1, <2>3, <2>4, <2>5 DEF CorrectSoFar
<1>4. /\ setup' = setup /\ log' = log /\ states' = states /\ status' = status
      /\ planned' = planned /\ midway' = midway /\ kept' = kept /\ part' = part
  BY DEF FlusherTurn, case, outcome
<1> QED BY <1>1, <1>2, <1>3, <1>4, Disassembled, QuietKeeps

\* The end of a turn of a subject without a flusher.
LEMMA TurnEnds ==
    ASSUME NEW left, EndTurn(left), Name \notin Registers
    PROVE  ready' = left /\ turn' # Flusher
  BY DEF EndTurn, NoTask, Flusher

LEMMA ClientKeeps ==
    ASSUME MachineInv, NEW c \in Clients \ {0},
           ClientCall(c) \/ ClientReads(c) \/ ClientWrites(c) \/ ClientEnds(c)
    PROVE  MachineInv'
<1>1. CASE ClientCall(c)
  <2>1. UNCHANGED <<setup, ready, turn, midway, outcome, part, kept>> /\ part \in {"client 0", "tasks"}
    BY <1>1 DEF ClientCall, Acts, case
  <2> QED BY <1>1, <2>1, TaskCallKeeps DEF ClientCall
<1>2. CASE ClientReads(c)
  <2>1. /\ Name = "racy-counter" /\ planned[c] # <<>>
        /\ planned' = [planned EXCEPT ![c] = Tail(@)]
        /\ log' = Append(log, Invocation(Len(log), "increment", NoInput))
        /\ EndTurn(Append(ready, c))
    BY <1>2 DEF ClientReads
  <2>2. setup' = setup /\ states' = states /\ status' = status /\ kept' = kept /\ part' = part /\ part = "tasks"
    BY <1>2 DEF ClientReads, Acts, case, outcome
  <2>3. planned' \in [Clients -> Seq(Entries(Name))]
    BY <2>1, NextEntry
  <2>4. Listed(log')
    BY <2>1, Disassembled, ListedAppend
  <2>5. Name \notin Correct /\ Name \notin Registers
    BY <2>1 DEF Correct, Registers
  <2>6. NoFlusher(Append(ready, c))
    <3>1. NoFlusher(ready) /\ c # Flusher
      BY <2>5, Disassembled DEF Flusher
    <3> QED BY <3>1, ListedAppend DEF NoFlusher
  <2>7. NoFlusher(ready') /\ turn' # Flusher
    BY <2>1, <2>5, <2>6, TurnEnds
  <2>8. status' = "running" /\ part' \notin Settled
    BY <2>2, Disassembled DEF Settled
  <2>9. Searches(Model, log', states', part', status')
    BY <2>8 DEF Searches
  <2> QED BY <2>1, <2>2, <2>3, <2>4, <2>5, <2>7, <2>8, <2>9, Disassembled, Assembled
<1>3. CASE ClientWrites(c)
  <2>1. /\ midway[c].call # NoCall /\ part = "tasks"
        /\ log' = Append(log, Completion(midway[c].call, "ok", midway[c].read + 1))
    BY <1>3 DEF ClientWrites, Acts
  <2>2. /\ setup' = setup /\ states' = states /\ status' = status /\ kept' = kept /\ part' = part
        /\ planned' = planned /\ ready' = ready /\ turn' = turn
    BY <1>3 DEF ClientWrites, case, outcome
  <2>3. Name = "racy-counter"
    <3>1. [k \in Clients |-> [call |-> NoCall, read |-> 0]][c].call = NoCall
      OBVIOUS
    <3> QED BY <2>1, <3>1, Disassembled
  <2>4. Listed(log')
    BY <2>1, Disassembled, ListedAppend
  <2>5. Name \notin Correct
    BY <2>3 DEF Correct
  <2>6. status' = "running" /\ part' \notin Settled
    BY <2>1, <2>2, Disassembled DEF Settled
  <2>7. Searches(Model, log', states', part', status')
    BY <2>6 DEF Searches
  <2> QED BY <2>2, <2>3, <2>4, <2>5, <2>6, <2>7, Disassembled, Assembled
<1>4. CASE ClientEnds(c)
  <2>1. /\ setup' = setup /\ log' = log /\ states' = states /\ status' = status /\ subject' = subject
        /\ planned' = planned /\ midway' = midway /\ kept' = kept /\ part' = part /\ part = "tasks"
    BY <1>4 DEF ClientEnds, Acts, case, outcome
  <2>2. Name \notin Registers => NoFlusher(ready') /\ turn' # Flusher
    BY <1>4, Disassembled, TurnEnds DEF ClientEnds
  <2> QED BY <2>1, <2>2, Disassembled, QuietKeeps
<1> QED BY <1>1, <1>2, <1>3, <1>4

\* The case is over, and another follows it.
LEMMA OverKeeps == MachineInv /\ (Settle \/ Refuse \/ FollowOwn) => MachineInv'
<1> SUFFICES ASSUME MachineInv, Settle \/ Refuse \/ FollowOwn PROVE MachineInv'
  OBVIOUS
<1>1. CASE Settle \/ Refuse
  <2>1. /\ setup' = setup /\ log' = log /\ states' = states /\ subject' = subject
        /\ planned' = planned /\ midway' = midway /\ ready' = ready /\ turn' = turn /\ kept' = kept
        /\ part' = "over"
    BY <1>1 DEF Settle, Refuse, case, tasks
  <2>2. (part = "settle" /\ status' \in {"passed", "lost-write"}) \/ status' = "refused"
    BY <1>1 DEF Settle, Refuse
  <2>3. Searches(Model, log', states', part', status')
    <3>1. status' # "linearizable" /\ part' \notin Settled
      BY <2>1, <2>2 DEF Settled
    <3>2. status' = "passed" => part \in Settled
      BY <2>2 DEF Settled
    <3>3. Searches(Model, log, states, part, status)
      BY Disassembled
    <3> QED BY <2>1, <3>1, <3>2, <3>3 DEF Searches
  <2> QED BY <2>1, <2>3, Disassembled, Assembled
<1>2. CASE FollowOwn
  <2>1. PICK increments : increments = IF Name = "counter-refuses-every-third" THEN subject.increments ELSE 0
    OBVIOUS
  <2>2. increments \in Nat
    <3>1. Name = "counter-refuses-every-third" => Name \in Correct
      BY DEF Correct
    <3>2. Name = "counter-refuses-every-third" => subject.increments \in Nat
      BY <3>1, Disassembled DEF CorrectSoFar, SubjectIsSound
    <3> QED BY <2>1, <3>2
  <2>3. /\ setup' = setup /\ part' = "swarm" /\ status' = "running" /\ kept' = {} /\ log' = <<>>
        /\ planned' = [c \in Clients |-> <<>>] /\ ready' = <<>> /\ turn' = NoTask
        /\ midway' = [c \in Clients |-> [call |-> NoCall, read |-> 0]]
        /\ subject' = Fresh(Name, setup.capacity, increments)
    BY <1>2, <2>1 DEF FollowOwn
  <2>4. PICK s : s = Fresh(Name, setup.capacity, increments)
    OBVIOUS
  <2>5. /\ {} \subseteq All /\ Listed(<<>>) /\ NoFlusher(<<>>) /\ NoTask # Flusher
        /\ [c \in Clients |-> <<>>] \in [Clients -> Seq(Entries(Name))]
        /\ \A model, events, found : Searches(model, events, found, "swarm", "running")
        /\ Name \in Correct => CorrectSoFar(Name, setup.capacity, s, <<>>)
    BY <2>2, <2>4, Disassembled, NothingIsDone
  <2>6. Searches(Model, log', states', part', status')
    BY <2>3, <2>5
  <2>7. Name \in Correct => CorrectSoFar(Name, setup.capacity, subject', log')
    BY <2>3, <2>4, <2>5
  <2> QED BY <2>3, <2>5, <2>6, <2>7, Disassembled, Assembled
<1> QED BY <1>1, <1>2

LEMMA NextMachineInv == MachineInv /\ [Next]_vars => MachineInv'
<1> SUFFICES ASSUME MachineInv, [Next]_vars PROVE MachineInv'
  OBVIOUS
<1>1. CASE UNCHANGED vars
  <2>1. /\ setup' = setup /\ log' = log /\ states' = states /\ status' = status /\ subject' = subject
        /\ planned' = planned /\ midway' = midway /\ ready' = ready /\ turn' = turn /\ kept' = kept
        /\ part' = part
    BY <1>1 DEF vars, case, tasks, outcome
  <2> QED BY <2>1, Disassembled, Assembled
<1>2. CASE Swarm \/ PlanStep \/ Release \/ FlusherTurn
  BY <1>2, SwarmKeeps, PlanStepKeeps, ReleaseKeeps, FlusherKeeps
<1>3. CASE Setup \/ SequentialStep \/ TasksEnd \/ DrainStep
  BY <1>3, ChecksKeep
<1>4. CASE SequentialEnds \/ PlanEnds \/ DrainEnds
  BY <1>4, EndsKeep
<1>5. CASE ClientZeroStep \/ SpawnClients
  BY <1>5, ClientZeroKeeps
<1>6. CASE \E c \in Clients \ {0} : ClientCall(c) \/ ClientReads(c) \/ ClientWrites(c) \/ ClientEnds(c)
  BY <1>6, ClientKeeps
<1>7. CASE Settle \/ Refuse \/ FollowOwn
  BY <1>7, OverKeeps
<1>8. CASE Returned
  BY <1>1, <1>8 DEF Returned
<1> QED BY <1>1, <1>2, <1>3, <1>4, <1>5, <1>6, <1>7, <1>8 DEF Next, Tasks

\* The invariant of the machine: the kinds of its state, that only the racy
\* increment yields and only a register has a flusher, that the states and
\* the verdict are what the latest check of the log found, and that a
\* correct subject is in the one state that its calls, in turn, lead to.
THEOREM MachineInvHolds == Spec => []MachineInv
<1>1. Init => MachineInv
  BY InitMachineInv
<1>2. MachineInv /\ [Next]_vars => MachineInv'
  BY NextMachineInv
<1> QED BY <1>1, <1>2, PTL DEF Spec

---------------------------------------------------------------------------
(* What the invariant gives: the properties of Machine.                    *)

LEMMA StateOfInv == MachineInv => StateIsTheSubjects
<1> SUFFICES ASSUME MachineInv, Name \in Correct
             PROVE  /\ part = "sequential" => states = <<Actual>>
                    /\ \E order \in OrdersOf(Calls(log)) : Explained(order)
  BY DEF StateIsTheSubjects
<1>1. PICK name, capacity, s, model, cs, n :
          /\ name = Name /\ capacity = setup.capacity /\ s = subject /\ model = Model
          /\ cs = Calls(log) /\ n = Len(log)
  OBVIOUS
<1>2. Name \in Queues => setup.capacity \in 1..8
  BY Disassembled, SetupIs
<1>3. /\ name \in Correct /\ (name \in Queues => capacity \in 1..8)
      /\ CorrectSoFar(name, capacity, s, log) /\ model = ModelOf(name, capacity)
  BY <1>1, <1>2, Disassembled DEF Model
<1>4. model \in MachineModels /\ model # NoModel
  BY <1>3, CorrectHasModel
<1>5. Actual = StateOf(name, s)
  BY <1>1 DEF Actual
<1>6. ASSUME part = "sequential" PROVE states = <<Actual>>
  <2>1. Searched(model, cs) = <<StateOf(name, s)>>
    BY <1>1, <1>3, CorrectIsSearched
  <2>2. Searches(model, log, states, part, status)
    BY <1>1, Disassembled
  <2>3. part \in Settled
    BY <1>6 DEF Settled
  <2>4. states = Searched(model, cs)
    BY <1>1, <1>4, <2>2, <2>3 DEF Searches
  <2> QED BY <1>5, <2>1, <2>4
<1>7. \E order \in OrdersOf(Calls(log)) : Explained(order)
  <2>1. InTurn(cs, n) /\ LeftInTurn(model, cs) = <<StateOf(name, s)>>
    BY <1>1, <1>3 DEF CorrectSoFar
  <2>2. PICK o : o = Numbers(Len(cs))
    OBVIOUS
  <2>3. o \in OrdersOf(cs) /\ KeepsPrecedence(cs, o)
    BY <2>1, <2>2, TurnsAreAnOrder
  <2>4. Len(o) \in Nat /\ LeftBy(model, cs, o) = <<StateOf(name, s)>>
    <3>1. Len(cs) \in Nat
      BY <2>1, ListedFacts DEF InTurn
    <3>2. Len(o) = Len(cs)
      BY <2>2, <3>1, NumbersAre
    <3> QED BY <2>1, <2>2, <3>1, <3>2 DEF LeftInTurn
  <2>5. Reached(model, cs, o) = Held(<<StateOf(name, s)>>)
    BY <1>4, <2>4, LeftIsReached
  <2>6. StateOf(name, s) \in Reached(model, cs, o)
    BY <2>5, OneState
  <2>7. Explained(o)
    BY <1>1, <1>5, <2>3, <2>6 DEF Explained
  <2> QED BY <1>1, <2>3, <2>7
<1> QED BY <1>6, <1>7

\* The state on which the actions and the inputs of a step are decided is the
\* one that a correct subject is in, and a case that ends with such a subject
\* has an order of its calls that leaves that state.
THEOREM StateHolds == Spec => []StateIsTheSubjects
<1>1. MachineInv => StateIsTheSubjects
  BY StateOfInv
<1>2. Spec => []MachineInv
  BY MachineInvHolds
<1> QED BY <1>1, <1>2, PTL

LEMMA VerdictOfInv == MachineInv => VerdictIsTheHistorys
<1> SUFFICES ASSUME MachineInv, part = "over", Model # NoModel
             PROVE  /\ status = "passed" => IsLinearizable(Model, Effective(log))
                    /\ status = "linearizable" => ~IsLinearizable(Model, Effective(log))
                    /\ Name \in Correct => status # "linearizable"
  BY DEF VerdictIsTheHistorys
<1>1. PICK model, cs : model = Model /\ cs = Calls(log)
  OBVIOUS
<1>2. model # NoModel /\ model \in MachineModels /\ Listed(log)
  BY <1>1, Disassembled, SetupIs
<1>3. Listed(cs) /\ cs = Effective(log)
  BY <1>1, <1>2, CallsAreListed, EffectiveAreCalls
<1>4. Searched(model, cs) # <<>> <=> IsLinearizable(model, cs)
  BY <1>2, <1>3, SearchedDecides
<1>5. /\ status = "passed" => Searched(model, cs) # <<>>
      /\ status = "linearizable" => Searched(model, cs) = <<>>
  <2>1. Searches(model, log, states, part, status)
    BY <1>1, Disassembled
  <2> QED BY <1>1, <1>2, <2>1 DEF Searches
<1>6. ASSUME Name \in Correct PROVE Searched(model, cs) # <<>>
  <2>1. PICK name, capacity, s : name = Name /\ capacity = setup.capacity /\ s = subject
    OBVIOUS
  <2>2. Name \in Queues => setup.capacity \in 1..8
    BY Disassembled, SetupIs
  <2>3. /\ name \in Correct /\ (name \in Queues => capacity \in 1..8)
        /\ CorrectSoFar(name, capacity, s, log) /\ model = ModelOf(name, capacity)
    BY <1>1, <1>6, <2>1, <2>2, Disassembled DEF Model
  <2>4. Searched(model, cs) = <<StateOf(name, s)>>
    BY <1>1, <2>3, CorrectIsSearched
  <2> QED BY <2>4
<1> QED BY <1>1, <1>3, <1>4, <1>5, <1>6

\* A case passes only when its history is linearizable, fails the check only
\* when it is not, and never does with a correct subject.
THEOREM VerdictHolds == Spec => []VerdictIsTheHistorys
<1>1. MachineInv => VerdictIsTheHistorys
  BY VerdictOfInv
<1>2. Spec => []MachineInv
  BY MachineInvHolds
<1> QED BY <1>1, <1>2, PTL

---------------------------------------------------------------------------
(* The run that a case is, and the one that follows it.  A run is its      *)
(* sequential steps, which the first s of its trace are, its drain on one  *)
(* client, up to d, or else its section: and the subjects and the logs     *)
(* between the first d of its steps, which no schedule decides.            *)

\* The check of a log finds an order, or there is no model to check it with.
Fits(u, events) ==
    \/ ModelOf(u.name, u.capacity) = NoModel
    \/ Searched(ModelOf(u.name, u.capacity), Calls(events)) # <<>>

\* The actions that are enabled after a log, and in the states that its
\* check leaves.
EnabledAfter(u, actions, s, events) ==
    LET found == Searched(ModelOf(u.name, u.capacity), Calls(events))
    IN  {a \in actions :
            a \in Guarded(u.name) =>
                IF ModelOf(u.name, u.capacity) = NoModel THEN Enabled(u.name, s, Null)
                ELSE \A i \in DOMAIN found : Enabled(u.name, s, found[i])}

\* A step that its part, which offers some actions, takes after n others.
TakenAfter(u, step, drain, actions, n, s, events) ==
    /\ step = Step(step.action, NoClient, drain, step.input)
    /\ n # u.max /\ step.action \in EnabledAfter(u, actions, s, events)
    /\ Fits(u, events)

\* A step that a section lists after n others.
ListedAfter(u, step, n) ==
    /\ step = Step(step.action, step.client, FALSE, step.input)
    /\ step.client \in 0..u.clients /\ u.clients # 1
    /\ n # u.concurrent /\ step.action \in Held(ActionsOf(u.name)) \ Guarded(u.name)

NextSubject(u, step, s) == RunOf(u.name, s, step.action, step.input).subject

NextLog(u, step, s, events) ==
    LET result == RunOf(u.name, s, step.action, step.input)
    IN  IF result.kind = "none" THEN events
        ELSE WithCall(events, step.action, step.input, result.kind, result.output)

IsRun(u, tr, s, d, S, L) ==
    /\ Listed(tr) /\ d \in 0..Len(tr) /\ s \in 0..d
    /\ IF u.clients = 1 THEN d = Len(tr) ELSE s = d
    /\ S[0] = Fresh(u.name, u.capacity, 0) /\ L[0] = <<>>
    /\ \A k \in 1..s : TakenAfter(u, tr[k], FALSE, Held(ActionsOf(u.name)), k - 1, S[k - 1], L[k - 1])
    /\ \A k \in (s + 1)..d : TakenAfter(u, tr[k], TRUE, Drains(u.name), k - 1 - s, S[k - 1], L[k - 1])
    /\ \A k \in 1..d : /\ S[k] = NextSubject(u, tr[k], S[k - 1])
                       /\ L[k] = NextLog(u, tr[k], S[k - 1], L[k - 1])
    /\ \A k \in (d + 1)..Len(tr) : ListedAfter(u, tr[k], k - 1 - d)

\* The drain takes no step more, and what the settle checks then find.
Drained(u, n, s, events) == n = u.max \/ EnabledAfter(u, Drains(u.name), s, events) = {}

SettledAs(u, s) == IF u.name = "store-loses-on-crash" /\ Lost(s) THEN "lost-write" ELSE "passed"

\* How a run ends: a check that fails is the end of it.
EndsAs(u, tr, outcomes, events, s, d, S, L) ==
    /\ Fits(u, L[d]) \/ d = Len(tr)
    /\ u.clients = 1 =>
          /\ events = L[d]
          /\ IF Fits(u, L[d]) THEN Drained(u, d - s, S[d], L[d]) /\ outcomes = SettledAs(u, S[d])
             ELSE outcomes = "linearizable"

Early == {"swarm", "setup", "sequential"}

\* Where a case is that chooses freely: at the end of its run so far.
FreeAt(s, d, S, L) ==
    /\ IsRun(setup, steps, s, d, S, L)
    /\ part \in Early => s = Len(steps) /\ count = s
    /\ part \in Early \/ setup.clients = 1 => subject = S[d] /\ log = L[d]
    /\ part = "concurrent" => s = d /\ count = Len(steps) - d
    /\ part \in {"client 0", "tasks"} => setup.clients # 1
    /\ part = "drain" /\ setup.clients = 1 => count = d - s
    /\ part \notin Early \cup {"over"} => Fits(setup, L[d])
    /\ part = "settle" /\ setup.clients = 1 => Drained(setup, d - s, S[d], L[d])
    /\ part = "over" => EndsAs(setup, steps, status, log, s, d, S, L)

\* Where a case is that follows the trace of a run.
FollowsAt(s, d, S, L) ==
    /\ IsRun(setup, trace, s, d, S, L)
    /\ EndsAs(setup, trace, own.status, own.log, s, d, S, L)
    /\ at \in 1..(Len(trace) + 1)
    /\ Listed(steps) /\ Len(steps) = at - 1 /\ \A k \in 1..(at - 1) : steps[k] = trace[k]
    /\ part \in {"swarm", "setup"} => at = 1 /\ count = 0
    /\ part # "swarm" => \A k \in 1..Len(trace) : trace[k].drain \/ trace[k].action \in kept
    /\ part \in Early \/ setup.clients = 1 => subject = S[at - 1] /\ log = L[at - 1]
    /\ part = "sequential" => at - 1 <= s /\ count = at - 1
    /\ part = "concurrent" => IF setup.clients = 1 THEN at - 1 = s ELSE at - 1 >= d /\ count = at - 1 - d
    /\ part \in {"client 0", "tasks"} => setup.clients # 1
    /\ part = "drain" /\ setup.clients = 1 => at - 1 >= s /\ count = at - 1 - s
    /\ part \in {"client 0", "tasks", "drain"} /\ setup.clients # 1 => at = Len(trace) + 1
    /\ part \in {"settle", "over"} => at = Len(trace) + 1
    /\ part = "over" => /\ status # "refused"
                        /\ setup.clients = 1 => status = own.status /\ log = own.log

FollowInv ==
    Name # "counter-refuses-every-third" =>
        /\ IsFree => own = NoRun /\ \E s, d, S, L : FreeAt(s, d, S, L)
        /\ ~IsFree /\ own # NoRun =>
              trace = own.steps /\ \E s, d, S, L : FollowsAt(s, d, S, L)
\* The names of a machine are those of its setup.
LEMMA NamesAre ==
    /\ Name = setup.name /\ Model = ModelOf(setup.name, setup.capacity)
    /\ Clients = 0..setup.clients /\ All = Held(ActionsOf(setup.name))
  BY DEF Name, Model, Clients, All, Held

\* A machine with a section has no drain.
LEMMA NoDrains ==
    ASSUME NEW u \in Setups, u.clients # 1
    PROVE  Drains(u.name) = {}
  BY SetupsAssumption DEF Drains

\* What a part offers of some actions is decided on its log and its subject.
LEMMA AvailableIs ==
    ASSUME MachineInv, part \in Settled
    PROVE  /\ Fits(setup, log)
           /\ \A actions : Available(actions) = EnabledAfter(setup, actions, subject, log)
<1>1. PICK model, found, outcomes : model = Model /\ found = Searched(model, Calls(log)) /\ outcomes = status
  OBVIOUS
<1>2. model = ModelOf(setup.name, setup.capacity) /\ Name = setup.name
  BY <1>1, NamesAre
<1>3. model # NoModel => states = found /\ found # <<>>
  BY <1>1, Disassembled DEF Searches
<1>4. Fits(setup, log)
  BY <1>1, <1>2, <1>3 DEF Fits
<1>5. ASSUME NEW actions PROVE Available(actions) = EnabledAfter(setup, actions, subject, log)
  BY <1>1, <1>2, <1>3 DEF Available, EnabledAfter
<1> QED BY <1>4, <1>5

\* A call to its end is the next of a run.
LEMMA CalledIs ==
    ASSUME NEW step, Called(step.action, step.input)
    PROVE  subject' = NextSubject(setup, step, subject) /\ log' = NextLog(setup, step, subject, log)
  BY NamesAre DEF Called, NextSubject, NextLog, WithCall

\* A check finds an order, and the case goes on, or it is over.
LEMMA CheckIs ==
    ASSUME NEW next, Check(next), part \in Checked, setup' = setup
    PROVE  \/ part' = next /\ status' = status /\ Fits(setup, log')
           \/ part' = "over" /\ status' = "linearizable" /\ ~Fits(setup, log')
<1>1. PICK model, found : model = Model /\ found = Searched(model, Calls(log'))
  OBVIOUS
<1>2. model = ModelOf(setup.name, setup.capacity)
  BY <1>1, NamesAre
<1>3. Fits(setup, log') <=> model = NoModel \/ found # <<>>
  BY <1>1, <1>2 DEF Fits
<1> QED BY <1>1, <1>3 DEF Check, outcome

\* The part that each step of a run is of.
LEMMA PartsAre ==
    ASSUME NEW u \in Setups, NEW tr, NEW s, NEW d, NEW S, NEW L, IsRun(u, tr, s, d, S, L),
           NEW k \in 1..Len(tr)
    PROVE  /\ k <= s => PartOf(tr[k]) = "sequential" /\ ~tr[k].drain
           /\ s < k /\ k <= d => PartOf(tr[k]) = "drain" /\ tr[k].drain
           /\ d < k => PartOf(tr[k]) = "concurrent" /\ ~tr[k].drain
<1>1. d \in 0..Len(tr) /\ s \in 0..d /\ Len(tr) \in Nat
  BY ListedFacts DEF IsRun
<1>2. ASSUME k <= s PROVE PartOf(tr[k]) = "sequential" /\ ~tr[k].drain
  <2>1. k \in 1..s
    BY <1>1, <1>2
  <2>2. tr[k] = Step(tr[k].action, NoClient, FALSE, tr[k].input)
    BY <2>1 DEF IsRun, TakenAfter
  <2>3. tr[k].drain = FALSE /\ tr[k].client = NoClient
    BY <2>2 DEF Step
  <2> QED BY <2>3 DEF PartOf
<1>3. ASSUME s < k, k <= d PROVE PartOf(tr[k]) = "drain" /\ tr[k].drain
  <2>1. k \in (s + 1)..d
    BY <1>1, <1>3
  <2>2. tr[k] = Step(tr[k].action, NoClient, TRUE, tr[k].input)
    BY <2>1 DEF IsRun, TakenAfter
  <2>3. tr[k].drain = TRUE
    BY <2>2 DEF Step
  <2> QED BY <2>3 DEF PartOf
<1>4. ASSUME d < k PROVE PartOf(tr[k]) = "concurrent" /\ ~tr[k].drain
  <2>1. k \in (d + 1)..Len(tr)
    BY <1>1, <1>4
  <2>2. tr[k] = Step(tr[k].action, tr[k].client, FALSE, tr[k].input) /\ tr[k].client \in 0..u.clients
    BY <2>1 DEF IsRun, ListedAfter
  <2>3. tr[k].drain = FALSE /\ tr[k].client # NoClient
    BY <2>2 DEF Step, NoClient
  <2> QED BY <2>3 DEF PartOf
<1> QED BY <1>2, <1>3, <1>4

\* A check that fails is the end of a run.
LEMMA RunEnds ==
    ASSUME NEW u, NEW tr, NEW s, NEW d, NEW S, NEW L, IsRun(u, tr, s, d, S, L),
           NEW outcomes, NEW events, EndsAs(u, tr, outcomes, events, s, d, S, L),
           NEW k \in 0..d, ~Fits(u, L[k])
    PROVE  k = Len(tr) /\ (u.clients = 1 => outcomes = "linearizable" /\ events = L[k])
<1>1. d \in 0..Len(tr) /\ s \in 0..d /\ Len(tr) \in Nat
  BY ListedFacts DEF IsRun
<1>2. ASSUME k # d PROVE FALSE
  <2>1. k + 1 \in 1..s \/ k + 1 \in (s + 1)..d
    BY <1>1, <1>2
  <2>2. Fits(u, L[(k + 1) - 1])
    BY <2>1 DEF IsRun, TakenAfter
  <2>3. (k + 1) - 1 = k
    BY <1>1
  <2> QED BY <2>2, <2>3
<1>3. ~Fits(u, L[d])
  BY <1>2
<1> QED BY <1>2, <1>3 DEF EndsAs

\* Before its first step a run is empty.
LEMMA RunBegins ==
    ASSUME NEW u
    PROVE  \E S, L : IsRun(u, <<>>, 0, 0, S, L) /\ S[0] = Fresh(u.name, u.capacity, 0) /\ L[0] = <<>>
<1>1. PICK S, L : S = [k \in {0} |-> Fresh(u.name, u.capacity, 0)] /\ L = [k \in {0} |-> <<>>]
  OBVIOUS
<1>2. S[0] = Fresh(u.name, u.capacity, 0) /\ L[0] = <<>>
  BY <1>1
<1>3. Listed(<<>>) /\ Len(<<>>) = 0
  BY OneState
<1>4. IsRun(u, <<>>, 0, 0, S, L)
  BY <1>2, <1>3 DEF IsRun
<1> QED BY <1>2, <1>4

\* A step on one client after a run: its sequential steps are then s2.
TakenNext(u, step, s, s2, d, S, L) ==
    \/ s = d /\ s2 = d + 1 /\ TakenAfter(u, step, FALSE, Held(ActionsOf(u.name)), d, S[d], L[d])
    \/ s2 = s /\ u.clients = 1 /\ TakenAfter(u, step, TRUE, Drains(u.name), d - s, S[d], L[d])

\* A run with one more step on one client.
LEMMA RunTakes ==
    ASSUME NEW u, NEW tr, NEW s, NEW d, NEW S, NEW L, IsRun(u, tr, s, d, S, L), d = Len(tr),
           NEW step, NEW s2, TakenNext(u, step, s, s2, d, S, L)
    PROVE  \E S2, L2 : /\ IsRun(u, Append(tr, step), s2, d + 1, S2, L2)
                       /\ S2[d + 1] = NextSubject(u, step, S[d])
                       /\ L2[d + 1] = NextLog(u, step, S[d], L[d])
<1>1. d \in 0..Len(tr) /\ s \in 0..d /\ Len(tr) \in Nat /\ Listed(tr)
  BY ListedFacts DEF IsRun
<1>2. PICK t : t = Append(tr, step)
  OBVIOUS
<1>3. Listed(t) /\ Len(t) = d + 1 /\ t[d + 1] = step /\ \A i \in 1..d : t[i] = tr[i]
  BY <1>1, <1>2, ListedAppend
<1>4. PICK S2, L2 : /\ S2 = [k \in 0..(d + 1) |-> IF k = d + 1 THEN NextSubject(u, step, S[d]) ELSE S[k]]
                    /\ L2 = [k \in 0..(d + 1) |-> IF k = d + 1 THEN NextLog(u, step, S[d], L[d]) ELSE L[k]]
  OBVIOUS
<1>5. /\ S2[d + 1] = NextSubject(u, step, S[d]) /\ L2[d + 1] = NextLog(u, step, S[d], L[d])
      /\ \A k \in 0..d : S2[k] = S[k] /\ L2[k] = L[k]
  BY <1>1, <1>4
<1>6. s2 \in 0..(d + 1) /\ (u.clients # 1 => s2 = d + 1) /\ s <= s2 /\ (s2 = s \/ (s = d /\ s2 = d + 1))
  <2>1. (s = d /\ s2 = d + 1) \/ (s2 = s /\ u.clients = 1)
    BY DEF TakenNext
  <2> QED BY <1>1, <2>1
<1>7. S2[0] = Fresh(u.name, u.capacity, 0) /\ L2[0] = <<>>
  BY <1>1, <1>5 DEF IsRun
<1>8. ASSUME NEW k \in 1..s2
      PROVE  TakenAfter(u, t[k], FALSE, Held(ActionsOf(u.name)), k - 1, S2[k - 1], L2[k - 1])
  <2>1. CASE k <= s
    <3>1. k \in 1..s /\ k - 1 \in 0..d /\ k \in 1..d
      BY <1>1, <2>1
    <3>2. t[k] = tr[k] /\ S2[k - 1] = S[k - 1] /\ L2[k - 1] = L[k - 1]
      BY <1>3, <1>5, <3>1
    <3> QED BY <3>1, <3>2 DEF IsRun
  <2>2. CASE s < k
    <3>1. s = d /\ s2 = d + 1 /\ k = d + 1 /\ k - 1 = d /\ s2 # s
      BY <1>1, <1>6, <2>2
    <3>2. t[k] = step /\ S2[k - 1] = S[d] /\ L2[k - 1] = L[d]
      BY <1>1, <1>3, <1>5, <3>1
    <3>3. TakenAfter(u, step, FALSE, Held(ActionsOf(u.name)), d, S[d], L[d])
      BY <3>1, Zenon DEF TakenNext
    <3> QED BY <3>1, <3>2, <3>3
  <2>3. k <= s \/ s < k
    BY <1>1, <1>6
  <2> QED BY <2>1, <2>2, <2>3
<1>9. ASSUME NEW k \in (s2 + 1)..(d + 1)
      PROVE  TakenAfter(u, t[k], TRUE, Drains(u.name), k - 1 - s2, S2[k - 1], L2[k - 1])
  <2>1. s2 = s /\ s2 # d + 1
    BY <1>1, <1>6
  <2>2. TakenAfter(u, step, TRUE, Drains(u.name), d - s, S[d], L[d])
    BY <2>1, Zenon DEF TakenNext
  <2>3. CASE k <= d
    <3>1. k \in (s + 1)..d /\ k - 1 \in 0..d /\ k \in 1..d
      BY <1>1, <2>1, <2>3
    <3>2. t[k] = tr[k] /\ S2[k - 1] = S[k - 1] /\ L2[k - 1] = L[k - 1]
      BY <1>3, <1>5, <3>1
    <3> QED BY <2>1, <3>1, <3>2 DEF IsRun
  <2>4. CASE d < k
    <3>1. k = d + 1 /\ k - 1 = d /\ k - 1 - s2 = d - s
      BY <1>1, <1>6, <2>1, <2>4
    <3>2. t[k] = step /\ S2[k - 1] = S[d] /\ L2[k - 1] = L[d]
      BY <1>1, <1>3, <1>5, <3>1
    <3> QED BY <2>2, <3>1, <3>2
  <2>5. k <= d \/ d < k
    BY <1>1, <1>6
  <2> QED BY <2>3, <2>4, <2>5
<1>10. ASSUME NEW k \in 1..(d + 1)
       PROVE  S2[k] = NextSubject(u, t[k], S2[k - 1]) /\ L2[k] = NextLog(u, t[k], S2[k - 1], L2[k - 1])
  <2>1. CASE k <= d
    <3>1. k \in 1..d /\ k - 1 \in 0..d /\ k \in 0..d
      BY <1>1, <2>1
    <3>2. t[k] = tr[k] /\ S2[k - 1] = S[k - 1] /\ L2[k - 1] = L[k - 1] /\ S2[k] = S[k] /\ L2[k] = L[k]
      BY <1>3, <1>5, <3>1
    <3> QED BY <3>1, <3>2 DEF IsRun
  <2>2. CASE d < k
    <3>1. k = d + 1 /\ k - 1 = d
      BY <1>1, <2>2
    <3>2. t[k] = step /\ S2[k - 1] = S[d] /\ L2[k - 1] = L[d]
      BY <1>1, <1>3, <1>5, <3>1
    <3> QED BY <1>5, <3>1, <3>2
  <2> QED BY <1>1, <2>1, <2>2
<1>11. IsRun(u, t, s2, d + 1, S2, L2)
  <2>1. d + 1 \in 0..Len(t) /\ (d + 1) = Len(t) /\ (d + 1) + 1 > Len(t)
    BY <1>1, <1>3
  <2>2. \A k \in ((d + 1) + 1)..Len(t) : ListedAfter(u, t[k], k - 1 - (d + 1))
    BY <1>1, <1>3
  <2>3. IF u.clients = 1 THEN d + 1 = Len(t) ELSE s2 = d + 1
    BY <1>6, <2>1
  <2> QED BY <1>3, <1>6, <1>7, <1>8, <1>9, <1>10, <2>1, <2>2, <2>3 DEF IsRun
<1> QED BY <1>2, <1>5, <1>11

\* A run with one more step of its section.
LEMMA RunLists ==
    ASSUME NEW u, NEW tr, NEW s, NEW d, NEW S, NEW L, IsRun(u, tr, s, d, S, L),
           NEW step, ListedAfter(u, step, Len(tr) - d)
    PROVE  IsRun(u, Append(tr, step), s, d, S, L)
<1>1. d \in 0..Len(tr) /\ s \in 0..d /\ Len(tr) \in Nat /\ Listed(tr)
  BY ListedFacts DEF IsRun
<1>2. PICK t, n : t = Append(tr, step) /\ n = Len(tr)
  OBVIOUS
<1>3. Listed(t) /\ Len(t) = n + 1 /\ t[n + 1] = step /\ \A i \in 1..n : t[i] = tr[i]
  BY <1>1, <1>2, ListedAppend
<1>4. u.clients # 1 /\ s = d
  BY DEF ListedAfter, IsRun
<1>5. \A k \in 1..d : t[k] = tr[k]
  BY <1>1, <1>2, <1>3
<1>6. ASSUME NEW k \in (d + 1)..Len(t) PROVE ListedAfter(u, t[k], k - 1 - d)
  <2>1. CASE k <= n
    <3>1. k \in (d + 1)..Len(tr) /\ t[k] = tr[k]
      BY <1>1, <1>2, <1>3, <2>1
    <3> QED BY <3>1 DEF IsRun
  <2>2. CASE n < k
    <3>1. k = n + 1 /\ k - 1 - d = n - d
      BY <1>1, <1>2, <1>3, <2>2
    <3> QED BY <1>2, <1>3, <3>1
  <2> QED BY <1>1, <1>2, <1>3, <2>1, <2>2
<1>7. \A k \in 1..s : TakenAfter(u, t[k], FALSE, Held(ActionsOf(u.name)), k - 1, S[k - 1], L[k - 1])
  BY <1>4, <1>5 DEF IsRun
<1>8. \A k \in 1..d : S[k] = NextSubject(u, t[k], S[k - 1]) /\ L[k] = NextLog(u, t[k], S[k - 1], L[k - 1])
  BY <1>5 DEF IsRun
<1>9. d \in 0..Len(t) /\ \A k \in (s + 1)..d : FALSE
  BY <1>1, <1>2, <1>3, <1>4
<1>10. S[0] = Fresh(u.name, u.capacity, 0) /\ L[0] = <<>>
  BY DEF IsRun
<1>11. IsRun(u, t, s, d, S, L)
  BY <1>1, <1>3, <1>4, <1>6, <1>7, <1>8, <1>9, <1>10 DEF IsRun
<1> QED BY <1>2, <1>11
\* A step that the sequential part or the drain takes is taken after its log.
LEMMA StepIsTaken ==
    ASSUME MachineInv, part \in {"sequential", "drain"}, NEW action \in Offered, NEW input
    PROVE  /\ part = "sequential" => TakenAfter(setup, Step(action, NoClient, FALSE, input), FALSE,
                                                Held(ActionsOf(setup.name)), count, subject, log)
           /\ part = "drain" => TakenAfter(setup, Step(action, NoClient, TRUE, input), TRUE,
                                           Drains(setup.name), count, subject, log)
<1>1. /\ Fits(setup, log)
      /\ \A actions : Available(actions) = EnabledAfter(setup, actions, subject, log)
  BY AvailableIs DEF Settled
<1>2. \A drain : LET step == Step(action, NoClient, drain, input)
                 IN  step.action = action /\ step = Step(step.action, NoClient, drain, step.input)
  BY DEF Step
<1>3. ASSUME part = "sequential"
      PROVE  count # setup.max /\ action \in EnabledAfter(setup, Held(ActionsOf(setup.name)), subject, log)
  <2>1. count # setup.max /\ action \in Available(kept) /\ kept \subseteq Held(ActionsOf(setup.name))
    BY <1>3, Disassembled, NamesAre DEF Offered
  <2>2. action \in Available(Held(ActionsOf(setup.name)))
    BY <2>1 DEF Available
  <2> QED BY <1>1, <2>1, <2>2
<1>4. ASSUME part = "drain"
      PROVE  count # setup.max /\ action \in EnabledAfter(setup, Drains(setup.name), subject, log)
  <2>1. count # setup.max /\ action \in Available(Drains(setup.name))
    BY <1>4, NamesAre DEF Offered
  <2> QED BY <1>1, <2>1
<1>5. PICK e, t : e = Step(action, NoClient, FALSE, input) /\ t = Step(action, NoClient, TRUE, input)
  OBVIOUS
<1>6. /\ e.action = action /\ e = Step(e.action, NoClient, FALSE, e.input)
      /\ t.action = action /\ t = Step(t.action, NoClient, TRUE, t.input)
  BY <1>2, <1>5
<1>7. part = "sequential" => TakenAfter(setup, e, FALSE, Held(ActionsOf(setup.name)), count, subject, log)
  BY <1>1, <1>3, <1>6 DEF TakenAfter
<1>8. part = "drain" => TakenAfter(setup, t, TRUE, Drains(setup.name), count, subject, log)
  BY <1>1, <1>4, <1>6 DEF TakenAfter
<1> QED BY <1>5, <1>7, <1>8

\* A drain of a machine with a section has nothing to offer.
LEMMA NoDrainStep ==
    ASSUME setup \in Setups, setup.clients # 1, part = "drain"
    PROVE  Offered = {}
<1>1. Drains(Name) = {}
  BY NoDrains, NamesAre
<1>2. Available({}) = {}
  BY DEF Available
<1> QED BY <1>1, <1>2 DEF Offered

\* What Listed and Len say of a run.
LEMMA RunIs ==
    ASSUME NEW u, NEW tr, NEW s, NEW d, NEW S, NEW L, IsRun(u, tr, s, d, S, L)
    PROVE  /\ Len(tr) \in Nat /\ d \in 0..Len(tr) /\ s \in 0..d
           /\ (u.clients = 1 => d = Len(tr)) /\ (u.clients # 1 => s = d)
           /\ S[0] = Fresh(u.name, u.capacity, 0) /\ L[0] = <<>>
  BY ListedFacts DEF IsRun

\* The parts up to the first check, and the checks of the sequential part.
LEMMA FreeSwarm ==
    ASSUME MachineInv, NEW s, NEW d, NEW S, NEW L, FreeAt(s, d, S, L), Swarm
    PROVE  FreeAt(s, d, S, L)'
<1>1. /\ setup' = setup /\ steps' = steps /\ count' = count /\ subject' = subject /\ log' = log
      /\ part = "swarm" /\ part' = "setup"
  BY DEF Swarm, case, record
<1> QED BY <1>1 DEF FreeAt, Early

LEMMA FreeChecked ==
    ASSUME setup' = setup, part \in {"setup", "sequential"}, Check("sequential"),
           NEW s, NEW d, NEW S, NEW L, IsRun(setup, steps', s, d, S, L),
           s = Len(steps'), count' = s, subject' = S[d], log' = L[d]
    PROVE  FreeAt(s, d, S, L)'
<1>1. part \in Checked
  BY DEF Checked
<1>2. \/ part' = "sequential"
      \/ part' = "over" /\ status' = "linearizable" /\ ~Fits(setup, log')
  BY <1>1, CheckIs
<1>3. d = s /\ d = Len(steps')
  BY RunIs
<1>4. part' = "over" => EndsAs(setup, steps', status', log', s, d, S, L)
  BY <1>2, <1>3 DEF EndsAs
<1> QED BY <1>2, <1>4 DEF FreeAt, Early

LEMMA FreeSetup ==
    ASSUME MachineInv, NEW s, NEW d, NEW S, NEW L, FreeAt(s, d, S, L), Setup
    PROVE  FreeAt(s, d, S, L)'
<1>1. /\ setup' = setup /\ steps' = steps /\ count' = count /\ subject' = subject /\ log' = log
      /\ part = "setup" /\ Check("sequential")
  BY DEF Setup, case, record
<1>2. IsRun(setup, steps, s, d, S, L) /\ s = Len(steps) /\ count = s /\ subject = S[d] /\ log = L[d]
  BY <1>1 DEF FreeAt, Early
<1> QED BY <1>1, <1>2, FreeChecked

LEMMA FreeSequential ==
    ASSUME MachineInv, IsFree, NEW s, NEW d, NEW S, NEW L, FreeAt(s, d, S, L), SequentialStep
    PROVE  \E s2, d2, S2, L2 : FreeAt(s2, d2, S2, L2)'
<1>1. PICK action, input : action \in Offered /\ Takes(action, NoClient, input) /\ Called(action, input)
  BY DEF SequentialStep
<1>2. part = "sequential" /\ setup' = setup /\ Check("sequential")
  BY DEF SequentialStep, case
<1>3. PICK step : step = Step(action, NoClient, FALSE, input)
  OBVIOUS
<1>4. step.action = action /\ step.input = input
  BY <1>3 DEF Step
<1>5. steps' = Append(steps, step) /\ count' = count + 1
  BY <1>1, <1>2, <1>3 DEF Takes
<1>6. TakenAfter(setup, step, FALSE, Held(ActionsOf(setup.name)), count, subject, log)
  BY <1>1, <1>2, <1>3, StepIsTaken
<1>7. subject' = NextSubject(setup, step, subject) /\ log' = NextLog(setup, step, subject, log)
  BY <1>1, <1>4, CalledIs
<1>8. IsRun(setup, steps, s, d, S, L) /\ s = Len(steps) /\ count = s /\ subject = S[d] /\ log = L[d]
  BY <1>2 DEF FreeAt, Early
<1>9. s = d /\ d = Len(steps) /\ Len(steps) \in Nat /\ Listed(steps)
  BY <1>8, RunIs DEF IsRun
<1>10. TakenAfter(setup, step, FALSE, Held(ActionsOf(setup.name)), d, S[d], L[d])
  BY <1>6, <1>8, <1>9
<1>11. PICK S2, L2 : /\ IsRun(setup, Append(steps, step), d + 1, d + 1, S2, L2)
                     /\ S2[d + 1] = NextSubject(setup, step, S[d])
                     /\ L2[d + 1] = NextLog(setup, step, S[d], L[d])
  <2>1. TakenNext(setup, step, s, d + 1, d, S, L)
    BY <1>9, <1>10 DEF TakenNext
  <2> QED BY <1>8, <1>9, <2>1, RunTakes
<1>12. /\ IsRun(setup, steps', d + 1, d + 1, S2, L2) /\ count' = d + 1 /\ d + 1 = Len(steps')
       /\ subject' = S2[d + 1] /\ log' = L2[d + 1]
  BY <1>5, <1>7, <1>8, <1>9, <1>11, ListedAppend
<1>13. FreeAt(d + 1, d + 1, S2, L2)'
  BY <1>2, <1>12, FreeChecked
<1> QED BY <1>13

LEMMA FreeSequentialEnds ==
    ASSUME MachineInv, NEW s, NEW d, NEW S, NEW L, FreeAt(s, d, S, L), SequentialEnds
    PROVE  FreeAt(s, d, S, L)'
<1>1. /\ setup' = setup /\ steps' = steps /\ count' = 0 /\ subject' = subject /\ log' = log
      /\ part = "sequential" /\ part' = "concurrent"
  BY DEF SequentialEnds, case
<1>2. IsRun(setup, steps, s, d, S, L) /\ s = Len(steps) /\ subject = S[d] /\ log = L[d]
  BY <1>1 DEF FreeAt, Early
<1>3. d = s /\ Len(steps) - d = 0
  BY <1>2, RunIs
<1>4. Fits(setup, L[d])
  BY <1>1, <1>2, AvailableIs DEF Settled
<1> QED BY <1>1, <1>2, <1>3, <1>4 DEF FreeAt, Early

\* The section.
LEMMA FreePlan ==
    ASSUME MachineInv, IsFree, NEW s, NEW d, NEW S, NEW L, FreeAt(s, d, S, L), PlanStep
    PROVE  FreeAt(s, d, S, L)'
<1>1. PICK action, client, input : action \in Offered /\ client \in Clients /\ Takes(action, client, input)
  BY DEF PlanStep
<1>2. /\ part = "concurrent" /\ setup' = setup /\ part' = part /\ subject' = subject /\ log' = log
  BY DEF PlanStep, case
<1>3. PICK step : step = Step(action, client, FALSE, input)
  OBVIOUS
<1>4. step.action = action /\ step.client = client /\ step.input = input
  BY <1>3 DEF Step
<1>5. steps' = Append(steps, step) /\ count' = count + 1
  BY <1>1, <1>2, <1>3 DEF Takes
<1>6. /\ setup.clients # 1 /\ count # setup.concurrent
      /\ action \in Held(ActionsOf(setup.name)) \ Guarded(setup.name)
  BY <1>1, <1>2, Disassembled, NamesAre DEF Offered
<1>7. ListedAfter(setup, step, count)
  BY <1>1, <1>3, <1>4, <1>6, NamesAre DEF ListedAfter
<1>8. IsRun(setup, steps, s, d, S, L) /\ s = d /\ count = Len(steps) - d /\ Fits(setup, L[d])
  BY <1>2 DEF FreeAt, Early
<1>9. IsRun(setup, steps', s, d, S, L)
  BY <1>5, <1>7, <1>8, RunLists
<1>10. count' = Len(steps') - d
  <2>1. Listed(steps) /\ Len(steps) \in Nat /\ d \in Nat
    BY <1>8, RunIs DEF IsRun
  <2>2. Len(steps') = Len(steps) + 1
    BY <1>5, <2>1, ListedAppend
  <2> QED BY <1>5, <1>8, <2>1, <2>2
<1> QED BY <1>2, <1>6, <1>8, <1>9, <1>10 DEF FreeAt, Early

LEMMA FreePlanEnds ==
    ASSUME MachineInv, NEW s, NEW d, NEW S, NEW L, FreeAt(s, d, S, L), PlanEnds
    PROVE  FreeAt(s, d, S, L)'
<1>1. /\ setup' = setup /\ steps' = steps /\ count' = 0 /\ subject' = subject /\ log' = log
      /\ part = "concurrent" /\ part' = IF setup.clients = 1 THEN "drain" ELSE "client 0"
  BY DEF PlanEnds, case
<1>2. IsRun(setup, steps, s, d, S, L) /\ s = d /\ Fits(setup, L[d])
  BY <1>1 DEF FreeAt, Early
<1>3. 0 = d - s
  BY <1>2, RunIs
<1> QED BY <1>1, <1>2, <1>3 DEF FreeAt, Early

\* The turns of the tasks, which take no step.
LEMMA FreeTasks ==
    ASSUME NEW s, NEW d, NEW S, NEW L, FreeAt(s, d, S, L),
           setup' = setup, steps' = steps,
           part \in {"client 0", "tasks"}, part' \in {"client 0", "tasks"}
    PROVE  FreeAt(s, d, S, L)'
  BY DEF FreeAt, Early

LEMMA FreeTasksEnd ==
    ASSUME MachineInv, NEW s, NEW d, NEW S, NEW L, FreeAt(s, d, S, L), TasksEnd
    PROVE  FreeAt(s, d, S, L)'
<1>1. setup' = setup /\ steps' = steps /\ part = "tasks" /\ Check("drain")
  BY DEF TasksEnd, case, record
<1>2. IsRun(setup, steps, s, d, S, L) /\ setup.clients # 1 /\ Fits(setup, L[d])
  BY <1>1 DEF FreeAt, Early
<1>3. part' = "drain" \/ part' = "over"
  BY <1>1, CheckIs DEF Checked
<1>4. EndsAs(setup, steps', status', log', s, d, S, L)
  BY <1>2 DEF EndsAs
<1> QED BY <1>1, <1>2, <1>3, <1>4 DEF FreeAt, Early

\* The drain and the settle checks.
LEMMA FreeDrain ==
    ASSUME MachineInv, IsFree, NEW s, NEW d, NEW S, NEW L, FreeAt(s, d, S, L), DrainStep
    PROVE  \E s2, d2, S2, L2 : FreeAt(s2, d2, S2, L2)'
<1>1. PICK action, input : action \in Offered /\ Takes(action, NoClient, input) /\ Called(action, input)
  BY DEF DrainStep
<1>2. part = "drain" /\ setup' = setup /\ Check("drain")
  BY DEF DrainStep, case
<1>3. PICK step : step = Step(action, NoClient, TRUE, input)
  OBVIOUS
<1>4. step.action = action /\ step.input = input
  BY <1>3 DEF Step
<1>5. steps' = Append(steps, step) /\ count' = count + 1
  BY <1>1, <1>2, <1>3 DEF Takes
<1>6. TakenAfter(setup, step, TRUE, Drains(setup.name), count, subject, log)
  BY <1>1, <1>2, <1>3, StepIsTaken
<1>7. subject' = NextSubject(setup, step, subject) /\ log' = NextLog(setup, step, subject, log)
  BY <1>1, <1>4, CalledIs
<1>8. setup.clients = 1
  BY <1>1, <1>2, Disassembled, NoDrainStep
<1>9. IsRun(setup, steps, s, d, S, L) /\ count = d - s /\ subject = S[d] /\ log = L[d]
  BY <1>2, <1>8 DEF FreeAt
<1>10. s \in 0..d /\ d = Len(steps) /\ Len(steps) \in Nat /\ Listed(steps)
  BY <1>8, <1>9, RunIs DEF IsRun
<1>11. TakenAfter(setup, step, TRUE, Drains(setup.name), d - s, S[d], L[d])
  BY <1>6, <1>9
<1>12. PICK S2, L2 : /\ IsRun(setup, Append(steps, step), s, d + 1, S2, L2)
                     /\ S2[d + 1] = NextSubject(setup, step, S[d])
                     /\ L2[d + 1] = NextLog(setup, step, S[d], L[d])
  <2>1. TakenNext(setup, step, s, s, d, S, L)
    BY <1>8, <1>11 DEF TakenNext
  <2> QED BY <1>9, <1>10, <2>1, RunTakes
<1>13. /\ IsRun(setup, steps', s, d + 1, S2, L2) /\ count' = (d + 1) - s /\ d + 1 = Len(steps')
       /\ subject' = S2[d + 1] /\ log' = L2[d + 1]
  BY <1>5, <1>7, <1>9, <1>10, <1>12, ListedAppend
<1>14. \/ part' = "drain" /\ Fits(setup, log')
       \/ part' = "over" /\ status' = "linearizable" /\ ~Fits(setup, log')
  BY <1>2, CheckIs DEF Checked
<1>15. part' = "over" => EndsAs(setup, steps', status', log', s, d + 1, S2, L2)
  BY <1>13, <1>14 DEF EndsAs
<1>16. FreeAt(s, d + 1, S2, L2)'
  BY <1>2, <1>13, <1>14, <1>15 DEF FreeAt, Early
<1> QED BY <1>16

LEMMA DrainStops ==
    ASSUME MachineInv, part = "drain", Offered = {}
    PROVE  Drained(setup, count, subject, log)
<1>1. Available(Drains(Name)) = EnabledAfter(setup, Drains(setup.name), subject, log)
  BY AvailableIs, NamesAre DEF Settled
<1> QED BY <1>1 DEF Drained, Offered

LEMMA FreeDrainEnds ==
    ASSUME MachineInv, IsFree, NEW s, NEW d, NEW S, NEW L, FreeAt(s, d, S, L), DrainEnds
    PROVE  FreeAt(s, d, S, L)'
<1>1. /\ setup' = setup /\ steps' = steps /\ count' = count /\ subject' = subject /\ log' = log
      /\ part = "drain" /\ part' = "settle" /\ Offered = {}
  BY DEF DrainEnds, Stops, case, record
<1>2. Drained(setup, count, subject, log)
  BY <1>1, DrainStops
<1> QED BY <1>1, <1>2 DEF FreeAt, Early

LEMMA SettledIs ==
    ASSUME Settle
    PROVE  part = "settle" /\ part' = "over" /\ status' = SettledAs(setup, subject)
  BY NamesAre DEF Settle, SettledAs

LEMMA FreeSettle ==
    ASSUME MachineInv, NEW s, NEW d, NEW S, NEW L, FreeAt(s, d, S, L), Settle
    PROVE  FreeAt(s, d, S, L)'
<1>1. /\ setup' = setup /\ steps' = steps /\ subject' = subject /\ log' = log
      /\ part = "settle" /\ part' = "over" /\ status' = SettledAs(setup, subject)
  BY SettledIs DEF Settle, case, record
<1>2. IsRun(setup, steps, s, d, S, L) /\ Fits(setup, L[d])
  BY <1>1 DEF FreeAt, Early
<1>3. setup.clients = 1 => subject = S[d] /\ log = L[d] /\ Drained(setup, d - s, S[d], L[d])
  BY <1>1 DEF FreeAt
<1>4. EndsAs(setup, steps', status', log', s, d, S, L)
  BY <1>1, <1>2, <1>3 DEF EndsAs
<1> QED BY <1>1, <1>2, <1>3, <1>4 DEF FreeAt, Early
\* What stays as it is while a case follows a trace.
SameCase == UNCHANGED <<setup, trace, own>>

\* The steps are those of the trace up to its next entry.
StepsFollow(done, tr, n) ==
    /\ n \in 1..(Len(tr) + 1) /\ Listed(done) /\ Len(done) = n - 1
    /\ \A k \in 1..(n - 1) : done[k] = tr[k]

LEMMA StepsFollowOn ==
    ASSUME NEW done, NEW tr, NEW n, StepsFollow(done, tr, n), n \in 1..Len(tr), Len(tr) \in Nat
    PROVE  StepsFollow(Append(done, tr[n]), tr, n + 1)
<1>1. PICK t : t = Append(done, tr[n])
  OBVIOUS
<1>2. /\ Listed(t) /\ Len(t) = (n - 1) + 1 /\ t[(n - 1) + 1] = tr[n]
      /\ \A i \in 1..(n - 1) : t[i] = done[i]
  BY <1>1, ListedAppend DEF StepsFollow
<1>3. (n - 1) + 1 = n /\ n + 1 \in 1..(Len(tr) + 1) /\ (n + 1) - 1 = n
  OBVIOUS
<1>4. ASSUME NEW k \in 1..n PROVE t[k] = tr[k]
  <2>1. k = n \/ k \in 1..(n - 1)
    OBVIOUS
  <2> QED BY <1>2, <1>3, <2>1 DEF StepsFollow
<1>5. StepsFollow(t, tr, n + 1)
  BY <1>2, <1>3, <1>4 DEF StepsFollow
<1> QED BY <1>1, <1>5

\* A step that follows an entry is the entry.
LEMMA TakenIsEntry ==
    ASSUME ~IsFree, Prepared, NEW action, NEW client, NEW input, Takes(action, client, input),
           trace[at] = Step(trace[at].action, trace[at].client, part = "drain", trace[at].input)
    PROVE  /\ at' = at + 1 /\ count' = count + 1 /\ steps' = Append(steps, trace[at])
           /\ trace[at].action = action /\ trace[at].client = client /\ trace[at].input = input
  BY DEF Takes

\* A check of a case that follows a run fails where the run's did.
LEMMA FollowsChecked ==
    ASSUME SameCase, part \in Checked, NEW next, Check(next),
           NEW s, NEW d, NEW S, NEW L, IsRun(setup, trace, s, d, S, L),
           EndsAs(setup, trace, own.status, own.log, s, d, S, L),
           NEW k \in 0..d, log' = L[k]
    PROVE  \/ part' = next
           \/ /\ part' = "over" /\ status' # "refused" /\ k = Len(trace)
              /\ setup.clients = 1 => status' = own.status /\ log' = own.log
<1>1. \/ part' = next
      \/ part' = "over" /\ status' = "linearizable" /\ ~Fits(setup, L[k])
  BY CheckIs DEF SameCase
<1>2. ~Fits(setup, L[k]) =>
          k = Len(trace) /\ (setup.clients = 1 => own.status = "linearizable" /\ own.log = L[k])
  BY RunEnds
<1> QED BY <1>1, <1>2

\* The swarm of a trace keeps the actions that its entries name.
LEMMA FollowsSwarm ==
    ASSUME MachineInv, ~IsFree, NEW s, NEW d, NEW S, NEW L, FollowsAt(s, d, S, L), Swarm
    PROVE  FollowsAt(s, d, S, L)'
<1>1. /\ SameCase /\ steps' = steps /\ at' = at /\ count' = count /\ subject' = subject /\ log' = log
      /\ part = "swarm" /\ part' = "setup" /\ kept' \in KeptBySwarm
  BY DEF Swarm, case, record, SameCase
<1>2. IsRun(setup, trace, s, d, S, L)
  BY DEF FollowsAt
<1>3. Len(trace) \in Nat /\ d \in 0..Len(trace) /\ s \in 0..d /\ DOMAIN trace = 1..Len(trace)
  BY <1>2, RunIs, ListedFacts DEF IsRun
<1>4. ASSUME NEW k \in 1..Len(trace), ~trace[k].drain PROVE trace[k].action \in Named \cap All
  <2>1. k <= s \/ (s < k /\ k <= d) \/ d < k
    BY <1>3
  <2>2. ~(s < k /\ k <= d)
    BY <1>2, <1>4, Disassembled, PartsAre
  <2>3. CASE k <= s
    <3>1. k \in 1..s
      BY <1>3, <2>3
    <3>2. trace[k].action \in EnabledAfter(setup, Held(ActionsOf(setup.name)), S[k - 1], L[k - 1])
      BY <1>2, <3>1 DEF IsRun, TakenAfter
    <3> QED BY <1>3, <3>2, NamesAre DEF EnabledAfter, Named
  <2>4. CASE d < k
    <3>1. k \in (d + 1)..Len(trace)
      BY <1>3, <2>4
    <3>2. trace[k].action \in Held(ActionsOf(setup.name))
      BY <1>2, <3>1 DEF IsRun, ListedAfter
    <3> QED BY <1>3, <3>2, NamesAre DEF Named
  <2> QED BY <2>1, <2>2, <2>3, <2>4
<1>5. \A k \in 1..Len(trace) : trace[k].drain \/ trace[k].action \in kept'
  BY <1>1, <1>4 DEF KeptBySwarm
<1> QED BY <1>1, <1>5 DEF FollowsAt, Early, SameCase

LEMMA FollowsSetup ==
    ASSUME MachineInv, NEW s, NEW d, NEW S, NEW L, FollowsAt(s, d, S, L), Setup
    PROVE  FollowsAt(s, d, S, L)'
<1>1. /\ SameCase /\ steps' = steps /\ at' = at /\ count' = count /\ subject' = subject /\ log' = log
      /\ part = "setup" /\ kept' = kept /\ Check("sequential") /\ part \in Checked
  BY DEF Setup, case, record, SameCase, Checked
<1>2. /\ IsRun(setup, trace, s, d, S, L) /\ EndsAs(setup, trace, own.status, own.log, s, d, S, L)
      /\ at = 1 /\ count = 0 /\ log = L[at - 1]
  BY <1>1 DEF FollowsAt, Early
<1>3. Len(trace) \in Nat /\ d \in 0..Len(trace) /\ s \in 0..d
  BY <1>2, RunIs
<1>4. 0 \in 0..d /\ log' = L[0]
  BY <1>1, <1>2, <1>3
<1>5. \/ part' = "sequential"
      \/ /\ part' = "over" /\ status' # "refused" /\ 0 = Len(trace)
         /\ setup.clients = 1 => status' = own.status /\ log' = own.log
  BY <1>1, <1>2, <1>4, FollowsChecked
<1>6. at - 1 <= s /\ count = at - 1 /\ (0 = Len(trace) => at = Len(trace) + 1)
  BY <1>2, <1>3
<1> QED BY <1>1, <1>5, <1>6 DEF FollowsAt, Early, SameCase

\* A step of the sequential part follows the next entry.
LEMMA FollowsSequential ==
    ASSUME MachineInv, ~IsFree, NEW s, NEW d, NEW S, NEW L, FollowsAt(s, d, S, L), SequentialStep
    PROVE  FollowsAt(s, d, S, L)'
<1>1. PICK action, input : Takes(action, NoClient, input) /\ Called(action, input)
  BY DEF SequentialStep
<1>2. SameCase /\ part = "sequential" /\ kept' = kept /\ Check("sequential") /\ part \in Checked
  BY DEF SequentialStep, case, SameCase, Checked
<1>3. /\ IsRun(setup, trace, s, d, S, L) /\ EndsAs(setup, trace, own.status, own.log, s, d, S, L)
      /\ StepsFollow(steps, trace, at) /\ count = at - 1 /\ subject = S[at - 1] /\ log = L[at - 1]
      /\ \A k \in 1..Len(trace) : trace[k].drain \/ trace[k].action \in kept
  BY <1>2 DEF FollowsAt, Early, StepsFollow
<1>4. Len(trace) \in Nat /\ d \in 0..Len(trace) /\ s \in 0..d /\ at \in Nat
  BY <1>3, RunIs DEF StepsFollow
<1>5. Prepared
  BY <1>1, <1>2 DEF Takes
<1>6. at \in 1..Len(trace) /\ at <= s /\ at \in 1..s /\ at \in 1..d
  <2>1. at \in 1..Len(trace) /\ PartOf(trace[at]) = "sequential"
    BY <1>2, <1>3, <1>4, <1>5 DEF Prepared, StepsFollow
  <2>2. ~(s < at /\ at <= d) /\ ~(d < at)
    BY <1>3, <2>1, Disassembled, PartsAre
  <2> QED BY <1>4, <2>1, <2>2
<1>7. trace[at] = Step(trace[at].action, NoClient, FALSE, trace[at].input)
  BY <1>3, <1>6 DEF IsRun, TakenAfter
<1>8. trace[at].client = NoClient
  BY <1>7 DEF Step
<1>9. /\ at' = at + 1 /\ count' = count + 1 /\ steps' = Append(steps, trace[at])
      /\ trace[at].action = action /\ trace[at].input = input
  BY <1>1, <1>2, <1>5, <1>7, <1>8, TakenIsEntry
<1>10. StepsFollow(steps', trace, at')
  BY <1>3, <1>4, <1>6, <1>9, StepsFollowOn
<1>11. subject' = S[at] /\ log' = L[at]
  <2>1. subject' = NextSubject(setup, trace[at], subject) /\ log' = NextLog(setup, trace[at], subject, log)
    BY <1>1, <1>9, CalledIs
  <2> QED BY <1>3, <1>6, <2>1 DEF IsRun
<1>12. \/ part' = "sequential"
       \/ /\ part' = "over" /\ status' # "refused" /\ at = Len(trace)
          /\ setup.clients = 1 => status' = own.status /\ log' = own.log
  BY <1>2, <1>3, <1>4, <1>6, <1>11, FollowsChecked
<1>13. at' - 1 = at /\ count' = at' - 1 /\ at' - 1 <= s /\ (at = Len(trace) => at' = Len(trace) + 1)
  BY <1>3, <1>4, <1>6, <1>9
<1>14. subject' = S[at' - 1] /\ log' = L[at' - 1]
  BY <1>11, <1>13
<1> QED BY <1>2, <1>3, <1>10, <1>12, <1>13, <1>14 DEF FollowsAt, Early, SameCase, StepsFollow

\* The entries of the sequential part are all taken when it ends.
LEMMA FollowsSequentialEnds ==
    ASSUME MachineInv, ~IsFree, NEW s, NEW d, NEW S, NEW L, FollowsAt(s, d, S, L), SequentialEnds
    PROVE  FollowsAt(s, d, S, L)'
<1>1. /\ SameCase /\ steps' = steps /\ at' = at /\ count' = 0 /\ subject' = subject /\ log' = log
      /\ part = "sequential" /\ part' = "concurrent" /\ kept' = kept /\ ~Prepared
  BY DEF SequentialEnds, Stops, case, SameCase
<1>2. /\ IsRun(setup, trace, s, d, S, L) /\ at \in 1..(Len(trace) + 1)
      /\ subject = S[at - 1] /\ log = L[at - 1] /\ at - 1 <= s
  BY <1>1 DEF FollowsAt, Early
<1>3. Len(trace) \in Nat /\ d \in 0..Len(trace) /\ s \in 0..d /\ (setup.clients # 1 => s = d)
  BY <1>2, RunIs
<1>4. ~(at <= s)
  <2>1. SUFFICES ASSUME at <= s PROVE FALSE
    OBVIOUS
  <2>2. at \in 1..Len(trace) /\ at <= Len(trace)
    BY <1>2, <1>3, <2>1
  <2>3. PartOf(trace[at]) = "sequential"
    BY <1>2, <2>1, <2>2, Disassembled, PartsAre
  <2> QED BY <1>1, <2>2, <2>3 DEF Prepared
<1>5. at - 1 = s /\ (setup.clients # 1 => at - 1 >= d /\ 0 = at - 1 - d)
  BY <1>2, <1>3, <1>4
<1> QED BY <1>1, <1>2, <1>5 DEF FollowsAt, Early, SameCase

\* So are those of the section.
LEMMA FollowsPlan ==
    ASSUME MachineInv, ~IsFree, NEW s, NEW d, NEW S, NEW L, FollowsAt(s, d, S, L), PlanStep
    PROVE  FollowsAt(s, d, S, L)'
<1>1. PICK action, client, input : action \in Offered /\ Takes(action, client, input)
  BY DEF PlanStep
<1>2. SameCase /\ part = "concurrent" /\ part' = part /\ kept' = kept
  BY DEF PlanStep, case, SameCase
<1>3. setup.clients # 1
  BY <1>1, <1>2 DEF Offered
<1>4. /\ IsRun(setup, trace, s, d, S, L) /\ EndsAs(setup, trace, own.status, own.log, s, d, S, L)
      /\ StepsFollow(steps, trace, at) /\ at - 1 >= d /\ count = at - 1 - d
      /\ \A k \in 1..Len(trace) : trace[k].drain \/ trace[k].action \in kept
  BY <1>2, <1>3 DEF FollowsAt, StepsFollow
<1>5. Len(trace) \in Nat /\ d \in 0..Len(trace) /\ at \in Nat
  BY <1>4, RunIs DEF StepsFollow
<1>6. Prepared
  BY <1>1, <1>2 DEF Takes
<1>7. at \in 1..Len(trace) /\ at \in (d + 1)..Len(trace)
  BY <1>4, <1>5, <1>6 DEF Prepared, StepsFollow
<1>8. trace[at] = Step(trace[at].action, trace[at].client, FALSE, trace[at].input)
  BY <1>4, <1>7 DEF IsRun, ListedAfter
<1>9. at' = at + 1 /\ count' = count + 1 /\ steps' = Append(steps, trace[at])
  BY <1>1, <1>2, <1>6, <1>8, TakenIsEntry
<1>10. StepsFollow(steps', trace, at')
  BY <1>4, <1>5, <1>7, <1>9, StepsFollowOn
<1>11. at' - 1 >= d /\ count' = at' - 1 - d
  BY <1>4, <1>5, <1>9
<1> QED BY <1>2, <1>3, <1>4, <1>10, <1>11 DEF FollowsAt, Early, SameCase, StepsFollow

LEMMA FollowsPlanEnds ==
    ASSUME MachineInv, ~IsFree, NEW s, NEW d, NEW S, NEW L, FollowsAt(s, d, S, L), PlanEnds
    PROVE  FollowsAt(s, d, S, L)'
<1>1. /\ SameCase /\ steps' = steps /\ at' = at /\ count' = 0 /\ subject' = subject /\ log' = log
      /\ part = "concurrent" /\ part' = (IF setup.clients = 1 THEN "drain" ELSE "client 0")
      /\ kept' = kept /\ ~Prepared
  BY DEF PlanEnds, Stops, case, SameCase
<1>2. /\ IsRun(setup, trace, s, d, S, L) /\ at \in 1..(Len(trace) + 1)
      /\ IF setup.clients = 1 THEN at - 1 = s ELSE at - 1 >= d
  BY <1>1 DEF FollowsAt
<1>3. Len(trace) \in Nat /\ d \in 0..Len(trace) /\ s \in 0..d
  BY <1>2, RunIs
<1>4. ASSUME setup.clients # 1, at # Len(trace) + 1 PROVE FALSE
  <2>1. at \in 1..Len(trace) /\ at <= Len(trace) /\ d < at
    BY <1>2, <1>3, <1>4
  <2>2. PartOf(trace[at]) = "concurrent"
    BY <1>2, <2>1, Disassembled, PartsAre
  <2> QED BY <1>1, <2>1, <2>2 DEF Prepared
<1>5. setup.clients = 1 => at - 1 >= s /\ 0 = at - 1 - s
  BY <1>2, <1>3
<1> QED BY <1>1, <1>2, <1>4, <1>5 DEF FollowsAt, Early, SameCase

LEMMA FollowsTasks ==
    ASSUME NEW s, NEW d, NEW S, NEW L, FollowsAt(s, d, S, L),
           SameCase, steps' = steps, at' = at, kept' = kept,
           part \in {"client 0", "tasks"}, part' \in {"client 0", "tasks"}
    PROVE  FollowsAt(s, d, S, L)'
  BY DEF FollowsAt, Early, SameCase

LEMMA FollowsTasksEnd ==
    ASSUME MachineInv, NEW s, NEW d, NEW S, NEW L, FollowsAt(s, d, S, L), TasksEnd
    PROVE  FollowsAt(s, d, S, L)'
<1>1. SameCase /\ steps' = steps /\ at' = at /\ kept' = kept /\ part = "tasks" /\ Check("drain")
  BY DEF TasksEnd, case, record, SameCase
<1>2. part' = "drain" \/ (part' = "over" /\ status' = "linearizable")
  BY <1>1, CheckIs DEF Checked, SameCase
<1>3. setup.clients # 1 /\ at = Len(trace) + 1
  BY <1>1 DEF FollowsAt
<1> QED BY <1>1, <1>2, <1>3 DEF FollowsAt, Early, SameCase

\* The position of a case in the drain.
LEMMA DrainFollows ==
    ASSUME MachineInv, ~IsFree, NEW s, NEW d, NEW S, NEW L, FollowsAt(s, d, S, L), part = "drain"
    PROVE  /\ setup.clients # 1 => Offered = {} /\ ~Prepared /\ at = Len(trace) + 1
           /\ setup.clients = 1 => /\ at - 1 \in s..d /\ count = at - 1 - s /\ d = Len(trace)
                                   /\ at \in 1..(d + 1) /\ d \in Nat /\ s \in 0..d
                                   /\ subject = S[at - 1] /\ log = L[at - 1]
                                   /\ at # Len(trace) + 1 => Prepared /\ at \in (s + 1)..d
                                   /\ at = Len(trace) + 1 => ~Prepared /\ Offered = {}
<1>1. /\ IsRun(setup, trace, s, d, S, L) /\ EndsAs(setup, trace, own.status, own.log, s, d, S, L)
      /\ at \in 1..(Len(trace) + 1)
  BY DEF FollowsAt
<1>2. /\ Len(trace) \in Nat /\ d \in 0..Len(trace) /\ s \in 0..d
      /\ (setup.clients = 1 => d = Len(trace))
  BY <1>1, RunIs
<1>3. at = Len(trace) + 1 => ~Prepared
  BY <1>2 DEF Prepared
<1>4. ASSUME setup.clients # 1 PROVE Offered = {} /\ ~Prepared /\ at = Len(trace) + 1
  <2>1. at = Len(trace) + 1
    BY <1>4 DEF FollowsAt
  <2> QED BY <1>3, <1>4, <2>1, Disassembled, NoDrainStep
<1>5. ASSUME setup.clients = 1
      PROVE  /\ at - 1 \in s..d /\ count = at - 1 - s /\ d = Len(trace)
             /\ at \in 1..(d + 1) /\ d \in Nat /\ s \in 0..d
             /\ subject = S[at - 1] /\ log = L[at - 1]
  <2>1. at - 1 >= s /\ count = at - 1 - s /\ subject = S[at - 1] /\ log = L[at - 1]
    BY <1>5 DEF FollowsAt
  <2> QED BY <1>1, <1>2, <1>5, <2>1
<1>6. ASSUME setup.clients = 1, at # Len(trace) + 1 PROVE Prepared /\ at \in (s + 1)..d
  <2>1. at \in 1..Len(trace) /\ at <= Len(trace) /\ s < at /\ at <= d /\ at \in (s + 1)..d
    BY <1>1, <1>2, <1>5, <1>6
  <2>2. PartOf(trace[at]) = "drain"
    BY <1>1, <2>1, Disassembled, PartsAre
  <2> QED BY <2>1, <2>2 DEF Prepared
<1>7. ASSUME setup.clients = 1, at = Len(trace) + 1 PROVE Offered = {}
  <2>1. count = d - s /\ subject = S[d] /\ log = L[d]
    <3>1. at - 1 = d
      BY <1>2, <1>5, <1>7
    <3> QED BY <1>5, <1>7, <3>1
  <2>2. Fits(setup, log) /\ Available(Drains(Name)) = EnabledAfter(setup, Drains(setup.name), subject, log)
    BY AvailableIs, NamesAre DEF Settled
  <2>3. Drained(setup, d - s, S[d], L[d])
    BY <1>1, <1>7, <2>1, <2>2 DEF EndsAs
  <2> QED BY <2>1, <2>2, <2>3 DEF Drained, Offered
<1> QED BY <1>3, <1>4, <1>5, <1>6, <1>7

LEMMA FollowsDrain ==
    ASSUME MachineInv, ~IsFree, NEW s, NEW d, NEW S, NEW L, FollowsAt(s, d, S, L), DrainStep
    PROVE  FollowsAt(s, d, S, L)'
<1>1. PICK action, input : action \in Offered /\ Takes(action, NoClient, input) /\ Called(action, input)
  BY DEF DrainStep
<1>2. SameCase /\ part = "drain" /\ kept' = kept /\ Check("drain") /\ part \in Checked
  BY DEF DrainStep, case, SameCase, Checked
<1>3. setup.clients = 1 /\ at # Len(trace) + 1
  BY <1>1, <1>2, DrainFollows
<1>4. /\ at - 1 \in s..d /\ count = at - 1 - s /\ d = Len(trace)
      /\ at \in 1..(d + 1) /\ d \in Nat /\ s \in 0..d
      /\ subject = S[at - 1] /\ log = L[at - 1] /\ Prepared /\ at \in (s + 1)..d
  BY <1>2, <1>3, DrainFollows
<1>5. /\ IsRun(setup, trace, s, d, S, L) /\ EndsAs(setup, trace, own.status, own.log, s, d, S, L)
      /\ StepsFollow(steps, trace, at)
      /\ \A k \in 1..Len(trace) : trace[k].drain \/ trace[k].action \in kept
  BY <1>2 DEF FollowsAt, StepsFollow
<1>6. trace[at] = Step(trace[at].action, NoClient, TRUE, trace[at].input)
  BY <1>4, <1>5 DEF IsRun, TakenAfter
<1>7. trace[at].client = NoClient
  BY <1>6 DEF Step
<1>8. /\ at' = at + 1 /\ count' = count + 1 /\ steps' = Append(steps, trace[at])
      /\ trace[at].action = action /\ trace[at].input = input
  BY <1>1, <1>2, <1>4, <1>6, <1>7, TakenIsEntry
<1>9. at \in 1..Len(trace) /\ at \in 1..d /\ Len(trace) \in Nat /\ at \in 0..d
  BY <1>4
<1>10. StepsFollow(steps', trace, at')
  BY <1>5, <1>8, <1>9, StepsFollowOn
<1>11. subject' = S[at] /\ log' = L[at]
  <2>1. subject' = NextSubject(setup, trace[at], subject) /\ log' = NextLog(setup, trace[at], subject, log)
    BY <1>1, <1>8, CalledIs
  <2> QED BY <1>4, <1>5, <1>9, <2>1 DEF IsRun
<1>12. \/ part' = "drain"
       \/ /\ part' = "over" /\ status' # "refused" /\ at = Len(trace)
          /\ setup.clients = 1 => status' = own.status /\ log' = own.log
  BY <1>2, <1>5, <1>9, <1>11, FollowsChecked
<1>13. at' - 1 = at /\ count' = at' - 1 - s /\ at' - 1 >= s /\ (at = Len(trace) => at' = Len(trace) + 1)
  BY <1>4, <1>8
<1>14. subject' = S[at' - 1] /\ log' = L[at' - 1]
  BY <1>11, <1>13
<1> QED BY <1>2, <1>3, <1>5, <1>10, <1>12, <1>13, <1>14 DEF FollowsAt, Early, SameCase, StepsFollow

LEMMA FollowsDrainEnds ==
    ASSUME MachineInv, ~IsFree, NEW s, NEW d, NEW S, NEW L, FollowsAt(s, d, S, L), DrainEnds
    PROVE  FollowsAt(s, d, S, L)'
<1>1. /\ SameCase /\ steps' = steps /\ at' = at /\ count' = count /\ subject' = subject /\ log' = log
      /\ part = "drain" /\ part' = "settle" /\ kept' = kept /\ ~Prepared
  BY DEF DrainEnds, Stops, case, record, SameCase
<1>2. at = Len(trace) + 1
  BY <1>1, DrainFollows
<1> QED BY <1>1, <1>2 DEF FollowsAt, Early, SameCase

LEMMA FollowsSettle ==
    ASSUME MachineInv, NEW s, NEW d, NEW S, NEW L, FollowsAt(s, d, S, L), Settle
    PROVE  FollowsAt(s, d, S, L)'
<1>1. /\ SameCase /\ steps' = steps /\ at' = at /\ subject' = subject /\ log' = log /\ kept' = kept
      /\ part = "settle" /\ part' = "over" /\ status' = SettledAs(setup, subject)
  BY SettledIs DEF Settle, case, record, SameCase
<1>2. /\ IsRun(setup, trace, s, d, S, L) /\ EndsAs(setup, trace, own.status, own.log, s, d, S, L)
      /\ at = Len(trace) + 1
  BY <1>1 DEF FollowsAt
<1>3. Len(trace) \in Nat /\ (setup.clients = 1 => d = Len(trace))
  BY <1>2, RunIs
<1>4. status' # "refused"
  BY <1>1 DEF SettledAs
<1>5. ASSUME setup.clients = 1 PROVE status' = own.status /\ log' = own.log
  <2>1. at - 1 = d
    BY <1>2, <1>3, <1>5
  <2>2. subject = S[d] /\ log = L[d]
    BY <1>5, <2>1 DEF FollowsAt
  <2>3. Fits(setup, log)
    BY <1>1, AvailableIs DEF Settled
  <2> QED BY <1>1, <1>2, <1>5, <2>2, <2>3 DEF EndsAs
<1> QED BY <1>1, <1>2, <1>4, <1>5 DEF FollowsAt, Early, SameCase

\* No entry of its own run is refused.
LEMMA FollowsNeverRefuses ==
    ASSUME MachineInv, ~IsFree, NEW s, NEW d, NEW S, NEW L, FollowsAt(s, d, S, L)
    PROVE  ~Refuse
<1> SUFFICES ASSUME Refuse PROVE FALSE
  OBVIOUS
<1>1. /\ part \in {"sequential", "concurrent", "drain"}
      /\ at <= Len(trace) /\ PartOf(trace[at]) = part /\ ~Acceptable(trace[at]) /\ Prepared
  BY DEF Refuse, Prepared
<1>2. /\ IsRun(setup, trace, s, d, S, L) /\ at \in 1..(Len(trace) + 1)
      /\ \A k \in 1..Len(trace) : trace[k].drain \/ trace[k].action \in kept
  BY <1>1 DEF FollowsAt
<1>3. /\ Len(trace) \in Nat /\ d \in 0..Len(trace) /\ s \in 0..d /\ (setup.clients # 1 => s = d)
      /\ (setup.clients = 1 => d = Len(trace))
  BY <1>2, RunIs
<1>4. at \in 1..Len(trace)
  BY <1>1, <1>2, <1>3
<1>5. /\ at <= s => PartOf(trace[at]) = "sequential" /\ ~trace[at].drain
      /\ s < at /\ at <= d => PartOf(trace[at]) = "drain"
      /\ d < at => PartOf(trace[at]) = "concurrent" /\ ~trace[at].drain
  BY <1>2, <1>4, Disassembled, PartsAre
<1>6. CASE part = "sequential"
  <2>1. at \in 1..s /\ ~trace[at].drain
    BY <1>1, <1>3, <1>4, <1>5, <1>6
  <2>2. count = at - 1 /\ subject = S[at - 1] /\ log = L[at - 1]
    BY <1>6 DEF FollowsAt, Early
  <2>3. /\ at - 1 # setup.max
        /\ trace[at].action \in EnabledAfter(setup, Held(ActionsOf(setup.name)), S[at - 1], L[at - 1])
    BY <1>2, <2>1 DEF IsRun, TakenAfter
  <2>4. trace[at].action \in EnabledAfter(setup, kept, subject, log)
    BY <1>2, <1>4, <2>1, <2>2, <2>3 DEF EnabledAfter
  <2>5. trace[at].action \in Available(kept)
    BY <1>6, <2>4, AvailableIs DEF Settled
  <2> QED BY <1>1, <1>6, <2>2, <2>3, <2>5 DEF Acceptable, Offered
<1>7. CASE part = "concurrent"
  <2>1. at \in (d + 1)..Len(trace) /\ ~trace[at].drain /\ setup.clients # 1
    <3>1. d < at
      BY <1>1, <1>3, <1>4, <1>5, <1>7
    <3> QED BY <1>3, <1>4, <1>5, <3>1
  <2>2. count = at - 1 - d
    BY <1>7, <2>1 DEF FollowsAt
  <2>3. /\ at - 1 - d # setup.concurrent /\ trace[at].client \in 0..setup.clients
        /\ trace[at].action \notin Guarded(setup.name)
    BY <1>2, <2>1 DEF IsRun, ListedAfter
  <2>4. trace[at].action \in kept \ Guarded(Name) /\ trace[at].client \in Clients
    BY <1>2, <1>4, <2>1, <2>3, NamesAre
  <2> QED BY <1>1, <1>7, <2>1, <2>2, <2>3, <2>4 DEF Acceptable, Offered
<1>8. CASE part = "drain"
  <2>1. setup.clients = 1 /\ at # Len(trace) + 1
    BY <1>1, <1>8, DrainFollows
  <2>2. count = at - 1 - s /\ subject = S[at - 1] /\ log = L[at - 1] /\ at \in (s + 1)..d
    BY <1>8, <2>1, DrainFollows
  <2>3. /\ at - 1 - s # setup.max
        /\ trace[at].action \in EnabledAfter(setup, Drains(setup.name), S[at - 1], L[at - 1])
    BY <1>2, <2>2 DEF IsRun, TakenAfter
  <2>4. trace[at].action \in Available(Drains(Name))
    BY <1>8, <2>2, <2>3, AvailableIs, NamesAre DEF Settled
  <2> QED BY <1>1, <1>8, <2>2, <2>3, <2>4 DEF Acceptable, Offered
<1> QED BY <1>1, <1>6, <1>7, <1>8
\* A step of a task changes neither the steps nor the part.
LEMMA TasksStay ==
    ASSUME ClientZeroStep \/ SpawnClients \/ Release \/ FlusherTurn
           \/ \E c \in Clients \ {0} : ClientCall(c) \/ ClientReads(c) \/ ClientWrites(c) \/ ClientEnds(c)
    PROVE  /\ SameCase /\ UNCHANGED <<follows, steps, at, kept>>
           /\ part \in {"client 0", "tasks"} /\ part' \in {"client 0", "tasks"}
<1>1. CASE ClientZeroStep \/ SpawnClients \/ Release \/ FlusherTurn
  BY <1>1 DEF ClientZeroStep, SpawnClients, Release, FlusherTurn, case, record, SameCase
<1>2. CASE \E c \in Clients \ {0} : ClientCall(c) \/ ClientReads(c) \/ ClientWrites(c) \/ ClientEnds(c)
  BY <1>2 DEF ClientCall, ClientReads, ClientWrites, ClientEnds, Acts, case, record, SameCase
<1> QED BY <1>1, <1>2

\* Every other step but that of a new case keeps the case.
LEMMA CaseStays ==
    ASSUME \/ Swarm \/ Setup \/ SequentialStep \/ SequentialEnds \/ PlanStep \/ PlanEnds
           \/ TasksEnd \/ DrainStep \/ DrainEnds \/ Settle \/ Refuse
    PROVE  SameCase /\ follows' = follows
<1>1. CASE Swarm \/ Setup \/ SequentialStep \/ SequentialEnds \/ PlanStep \/ PlanEnds
  BY <1>1 DEF Swarm, Setup, SequentialStep, SequentialEnds, PlanStep, PlanEnds, case, SameCase
<1>2. CASE TasksEnd \/ DrainStep \/ DrainEnds \/ Settle \/ Refuse
  BY <1>2 DEF TasksEnd, DrainStep, DrainEnds, Settle, Refuse, case, SameCase
<1> QED BY <1>1, <1>2

\* A case that chooses freely goes on with its run.
LEMMA FreeKeeps ==
    ASSUME MachineInv, IsFree, NEW s, NEW d, NEW S, NEW L, FreeAt(s, d, S, L), [Next]_vars, ~FollowOwn
    PROVE  SameCase /\ follows' = follows /\ \E s2, d2, S2, L2 : FreeAt(s2, d2, S2, L2)'
<1>1. CASE UNCHANGED vars
  BY <1>1 DEF vars, case, record, tasks, outcome, FreeAt, Early, SameCase
<1>2. CASE Swarm \/ Setup
  BY <1>2, CaseStays, FreeSwarm, FreeSetup
<1>3. CASE SequentialStep \/ SequentialEnds
  BY <1>3, CaseStays, FreeSequential, FreeSequentialEnds
<1>4. CASE PlanStep \/ PlanEnds
  BY <1>4, CaseStays, FreePlan, FreePlanEnds
<1>5. CASE \/ ClientZeroStep \/ SpawnClients \/ Release \/ FlusherTurn
           \/ \E c \in Clients \ {0} : ClientCall(c) \/ ClientReads(c) \/ ClientWrites(c) \/ ClientEnds(c)
  <2>1. /\ SameCase /\ UNCHANGED <<follows, steps, at, kept>>
        /\ part \in {"client 0", "tasks"} /\ part' \in {"client 0", "tasks"}
    BY <1>5, TasksStay
  <2>2. FreeAt(s, d, S, L)'
    BY <2>1, FreeTasks DEF SameCase
  <2> QED BY <2>1, <2>2
<1>6. CASE TasksEnd
  BY <1>6, CaseStays, FreeTasksEnd
<1>7. CASE DrainStep \/ DrainEnds
  BY <1>7, CaseStays, FreeDrain, FreeDrainEnds
<1>8. CASE Settle
  BY <1>8, CaseStays, FreeSettle
<1>9. ~Refuse /\ ~Returned
  BY DEF Refuse, Returned, Prepared
<1> QED BY <1>1, <1>2, <1>3, <1>4, <1>5, <1>6, <1>7, <1>8, <1>9 DEF Next, Tasks

\* A case that follows a run goes on with it.
LEMMA FollowsKeeps ==
    ASSUME MachineInv, ~IsFree, NEW s, NEW d, NEW S, NEW L, FollowsAt(s, d, S, L), [Next]_vars
    PROVE  SameCase /\ follows' = follows /\ FollowsAt(s, d, S, L)'
<1>1. ASSUME UNCHANGED vars PROVE SameCase /\ follows' = follows /\ FollowsAt(s, d, S, L)'
  BY <1>1 DEF vars, case, record, tasks, outcome, FollowsAt, Early, SameCase
<1>2. CASE Swarm \/ Setup
  BY <1>2, CaseStays, FollowsSwarm, FollowsSetup
<1>3. CASE SequentialStep \/ SequentialEnds
  BY <1>3, CaseStays, FollowsSequential, FollowsSequentialEnds
<1>4. CASE PlanStep \/ PlanEnds
  BY <1>4, CaseStays, FollowsPlan, FollowsPlanEnds
<1>5. CASE \/ ClientZeroStep \/ SpawnClients \/ Release \/ FlusherTurn
           \/ \E c \in Clients \ {0} : ClientCall(c) \/ ClientReads(c) \/ ClientWrites(c) \/ ClientEnds(c)
  <2>1. /\ SameCase /\ UNCHANGED <<follows, steps, at, kept>>
        /\ part \in {"client 0", "tasks"} /\ part' \in {"client 0", "tasks"}
    BY <1>5, TasksStay
  <2>2. FollowsAt(s, d, S, L)'
    BY <2>1, FollowsTasks
  <2> QED BY <2>1, <2>2
<1>6. CASE TasksEnd
  BY <1>6, CaseStays, FollowsTasksEnd
<1>7. CASE DrainStep \/ DrainEnds
  BY <1>7, CaseStays, FollowsDrain, FollowsDrainEnds
<1>8. CASE Settle
  BY <1>8, CaseStays, FollowsSettle
<1>9. ~Refuse /\ ~FollowOwn
  BY FollowsNeverRefuses DEF FollowOwn
<1>10. CASE Returned
  BY <1>1, <1>10 DEF Returned
<1> QED BY <1>1, <1>2, <1>3, <1>4, <1>5, <1>6, <1>7, <1>8, <1>9, <1>10 DEF Next, Tasks

\* A new case follows the run that has ended.
LEMMA FollowOwnFollows ==
    ASSUME Name # "counter-refuses-every-third",
           NEW s, NEW d, NEW S, NEW L, FreeAt(s, d, S, L), FollowOwn
    PROVE  ~IsFree' /\ trace' = own'.steps /\ FollowsAt(s, d, S, L)'
<1>1. /\ setup' = setup /\ follows' = TRUE /\ trace' = steps /\ part = "over"
      /\ at' = 1 /\ part' = "swarm" /\ count' = 0 /\ steps' = <<>> /\ log' = <<>>
      /\ subject' = Fresh(setup.name, setup.capacity, 0)
  BY NamesAre DEF FollowOwn
<1>2. own' = [steps |-> steps, status |-> status, log |-> log]
  BY DEF FollowOwn
<1>3. own'.steps = steps /\ own'.status = status /\ own'.log = log
  BY <1>2
<1>4. IsRun(setup, steps, s, d, S, L) /\ EndsAs(setup, steps, status, log, s, d, S, L)
  BY <1>1 DEF FreeAt
<1>5. Len(steps) \in Nat /\ S[0] = Fresh(setup.name, setup.capacity, 0) /\ L[0] = <<>>
  BY <1>4, RunIs
<1>6. /\ at' \in 1..(Len(trace') + 1) /\ Listed(steps') /\ Len(steps') = at' - 1
      /\ \A k \in 1..(at' - 1) : steps'[k] = trace'[k]
  <2>1. Listed(<<>>) /\ Len(<<>>) = 0
    BY OneState
  <2>2. 1 \in 1..(Len(steps) + 1) /\ 1 - 1 = 0 /\ \A k \in 1..0 : FALSE
    BY <1>5
  <2> QED BY <1>1, <2>1, <2>2
<1>7. subject' = S[at' - 1] /\ log' = L[at' - 1]
  BY <1>1, <1>5
<1>8. EndsAs(setup', trace', own'.status, own'.log, s, d, S, L) /\ IsRun(setup', trace', s, d, S, L)
  BY <1>1, <1>3, <1>4
<1>9. FollowsAt(s, d, S, L)'
  BY <1>1, <1>6, <1>7, <1>8 DEF FollowsAt, Early
<1> QED BY <1>1, <1>3, <1>9 DEF IsFree

LEMMA InitFollowInv == Init => FollowInv
<1> SUFFICES ASSUME Init, Name # "counter-refuses-every-third"
             PROVE  own = NoRun /\ \E s, d, S, L : FreeAt(s, d, S, L)
  BY DEF FollowInv, Init
<1>1. own = NoRun /\ steps = <<>> /\ part = "swarm" /\ count = 0 /\ log = <<>>
  BY DEF Init, NothingDone
<1>2. subject = Fresh(setup.name, setup.capacity, 0)
  BY NamesAre DEF Init
<1>3. PICK S, L : IsRun(setup, <<>>, 0, 0, S, L) /\ S[0] = subject /\ L[0] = <<>>
  <2>1. \E S, L : IsRun(setup, <<>>, 0, 0, S, L) /\ S[0] = Fresh(setup.name, setup.capacity, 0) /\ L[0] = <<>>
    BY RunBegins
  <2> QED BY <1>2, <2>1
<1>4. FreeAt(0, 0, S, L)
  BY <1>1, <1>3 DEF FreeAt, Early
<1> QED BY <1>1, <1>4

LEMMA NextFollowInv == MachineInv /\ FollowInv /\ [Next]_vars => FollowInv'
<1> SUFFICES ASSUME MachineInv, FollowInv, [Next]_vars PROVE FollowInv'
  OBVIOUS
<1>1. setup' = setup
  BY DEF Next, Tasks, vars, case, Swarm, Setup, SequentialStep, SequentialEnds, PlanStep, PlanEnds,
      ClientZeroStep, SpawnClients, Release, FlusherTurn, TasksEnd, ClientCall, ClientReads,
      ClientWrites, ClientEnds, DrainStep, DrainEnds, Settle, Refuse, FollowOwn, Returned
<1> SUFFICES ASSUME Name # "counter-refuses-every-third"
             PROVE  /\ IsFree' => own' = NoRun /\ \E s, d, S, L : FreeAt(s, d, S, L)'
                    /\ ~IsFree' /\ own' # NoRun =>
                          trace' = own'.steps /\ \E s, d, S, L : FollowsAt(s, d, S, L)'
  BY <1>1, SameSetup DEF FollowInv
<1>2. CASE IsFree
  <2>1. own = NoRun /\ \E s, d, S, L : FreeAt(s, d, S, L)
    BY <1>2 DEF FollowInv
  <2>2. PICK s, d, S, L : FreeAt(s, d, S, L)
    BY <2>1
  <2>3. CASE FollowOwn
    BY <2>2, <2>3, FollowOwnFollows
  <2>4. CASE ~FollowOwn
    <3>1. SameCase /\ follows' = follows /\ \E s2, d2, S2, L2 : FreeAt(s2, d2, S2, L2)'
      BY <1>2, <2>2, <2>4, FreeKeeps
    <3>2. IsFree' /\ own' = NoRun
      BY <1>2, <2>1, <3>1 DEF IsFree, SameCase
    <3> QED BY <3>1, <3>2
  <2> QED BY <2>3, <2>4
<1>3. CASE ~IsFree /\ own # NoRun
  <2>1. trace = own.steps /\ \E s, d, S, L : FollowsAt(s, d, S, L)
    BY <1>3 DEF FollowInv
  <2>2. PICK s, d, S, L : FollowsAt(s, d, S, L)
    BY <2>1
  <2>3. SameCase /\ follows' = follows /\ FollowsAt(s, d, S, L)'
    BY <1>3, <2>2, FollowsKeeps
  <2>4. ~IsFree' /\ trace' = own'.steps
    BY <1>3, <2>1, <2>3 DEF IsFree, SameCase
  <2> QED BY <2>3, <2>4
<1>4. CASE ~IsFree /\ own = NoRun
  <2>1. follows' = follows /\ own' = own
    <3>1. ~FollowOwn
      BY <1>4 DEF FollowOwn
    <3>2. CASE UNCHANGED vars \/ Returned
      BY <3>2 DEF Returned, vars, case
    <3>3. CASE Next /\ ~Returned
      BY <3>1, <3>3, CaseStays, TasksStay DEF Next, Tasks, SameCase
    <3> QED BY <3>2, <3>3
  <2> QED BY <1>4, <2>1 DEF IsFree
<1> QED BY <1>2, <1>3, <1>4

\* The invariant of a case and of the one that follows it: the steps of a
\* case are those of a run, and the case that follows takes its entries at
\* their positions, on the subject and the log that the run had there.
THEOREM FollowInvHolds == Spec => []FollowInv
<1>1. Init => FollowInv
  BY InitFollowInv
<1>2. MachineInv /\ FollowInv /\ [Next]_vars => FollowInv'
  BY NextFollowInv
<1>3. Spec => []MachineInv
  BY MachineInvHolds
<1> QED BY <1>1, <1>2, <1>3, PTL DEF Spec

LEMMA FollowedOfInv == FollowInv => StepsAreFollowed
<1> SUFFICES ASSUME FollowInv, part = "over", own # NoRun, Name # "counter-refuses-every-third"
             PROVE  /\ status # "refused" /\ steps = own.steps
                    /\ setup.clients = 1 => status = own.status /\ log = own.log
  BY DEF StepsAreFollowed
<1>1. trace = own.steps /\ \E s, d, S, L : FollowsAt(s, d, S, L)
  BY DEF FollowInv
<1>2. PICK s, d, S, L : FollowsAt(s, d, S, L)
  BY <1>1
<1>3. /\ status # "refused" /\ (setup.clients = 1 => status = own.status /\ log = own.log)
      /\ at = Len(trace) + 1 /\ Listed(steps) /\ Len(steps) = at - 1
      /\ \A k \in 1..(at - 1) : steps[k] = trace[k]
  BY <1>2 DEF FollowsAt
<1>4. Listed(trace) /\ Len(trace) \in Nat
  BY <1>2, ListedFacts DEF FollowsAt, IsRun
<1>5. steps = trace
  <2>1. PICK T : steps \in Seq(T) /\ trace \in Seq(T)
    <3>1. steps \in Seq(Held(steps) \cup Held(trace)) /\ trace \in Seq(Held(steps) \cup Held(trace))
      BY <1>3, <1>4 DEF Listed
    <3> QED BY <3>1
  <2>2. Len(steps) = Len(trace) /\ \A k \in 1..Len(steps) : steps[k] = trace[k]
    BY <1>3, <1>4
  <2> QED BY <2>1, <2>2, SeqEqual
<1> QED BY <1>1, <1>3, <1>5

\* A case is followed by its own trace: the machine takes each of its entries
\* where it stood, refuses none, and where no schedule decides its calls it
\* makes the same ones and ends in the same way.
THEOREM StepsFollowed == Spec => []StepsAreFollowed
<1>1. FollowInv => StepsAreFollowed
  BY FollowedOfInv
<1>2. Spec => []FollowInv
  BY FollowInvHolds
<1> QED BY <1>1, <1>2, PTL
===========================================================================

--------------------------- MODULE HistoryProofs ---------------------------
(***************************************************************************)
(* Lemmas about sequences and about the operators of Histories, for the    *)
(* proofs of the modules that check a history: the states that an order    *)
(* of calls reaches, the orders of the definition, and the calls of a log. *)
(***************************************************************************)
EXTENDS Histories, OrderingProofs
---------------------------------------------------------------------------
(* Lists of lists laid end to end.                                         *)

Flat(f, ss, n) == f = [i \in 1..n |-> IF i = 1 THEN ss[i] ELSE f[i - 1] \o ss[i]]

\* The lists of a list laid end to end, one more at a time.
LEMMA FlatStep ==
    ASSUME NEW f, NEW ss, NEW n \in Nat, Flat(f, ss, n)
    PROVE  /\ n # 0 => f[1] = ss[1]
           /\ \A k \in 1..(n - 1) : f[k + 1] = f[k] \o ss[k + 1]
<1>1. \A i \in 1..n : f[i] = IF i = 1 THEN ss[i] ELSE f[i - 1] \o ss[i]
  BY Zenon DEF Flat
<1>2. /\ n # 0 => 1 \in 1..n
      /\ \A k \in 1..(n - 1) : k + 1 \in 1..n /\ k + 1 # 1 /\ (k + 1) - 1 = k
  OBVIOUS
<1>3. ASSUME NEW k \in 1..(n - 1)
      PROVE  f[k + 1] = f[k] \o ss[k + 1]
  <2>1. f[k + 1] = f[(k + 1) - 1] \o ss[k + 1]
    BY <1>1, <1>2
  <2> QED BY <1>2, <2>1, Zenon
<1> QED BY <1>1, <1>2, <1>3

\* There is such a joining of the lists, by induction.
LEMMA FlatsExist ==
    ASSUME NEW ss, NEW n \in Nat
    PROVE  \E f : Flat(f, ss, n)
<1> DEFINE P == {k \in 0..n : \E f : Flat(f, ss, k)}
<1>1. 0 \in P
  <2>1. Flat([i \in 1..0 |-> ss[i]], ss, 0)
    BY DEF Flat
  <2> QED BY <2>1
<1>2. ASSUME NEW k \in 0..(n - 1), k \in P PROVE k + 1 \in P
  <2>1. PICK f : Flat(f, ss, k)
    BY <1>2
  <2>2. PICK g : g = [i \in 1..(k + 1) |->
                         IF i = k + 1 THEN (IF k = 0 THEN ss[1] ELSE f[k] \o ss[k + 1]) ELSE f[i]]
    OBVIOUS
  <2>3. ASSUME NEW i \in 1..(k + 1)
        PROVE  g[i] = IF i = 1 THEN ss[i] ELSE g[i - 1] \o ss[i]
    <3>1. k \in Nat /\ k + 1 \in 1..(k + 1) /\ (k + 1) - 1 = k /\ k # k + 1
      OBVIOUS
    <3>a. \A j \in 1..k : j # k + 1 /\ j \in 1..(k + 1)
      OBVIOUS
    <3>2. /\ k = 0 => g[k + 1] = ss[1]
          /\ k # 0 => g[k + 1] = f[k] \o ss[k + 1]
          /\ \A j \in 1..k : g[j] = f[j] /\ j # k + 1 /\ j \in 1..(k + 1)
      BY <2>2, <3>1, <3>a, Zenon
    <3>3. CASE i = k + 1 /\ k # 0
      <4>1. g[k] = f[k] /\ i # 1
        BY <3>1, <3>2, <3>3
      <4>2. g[i] = g[i - 1] \o ss[i]
        BY <3>1, <3>2, <3>3, <4>1, Zenon
      <4> QED BY <4>1, <4>2
    <3>4. CASE i = k + 1 /\ k = 0
      BY <3>2, <3>4
    <3>5. CASE i # k + 1
      <4>1. i \in 1..k /\ k # 0 /\ g[i] = f[i]
        BY <3>1, <3>2, <3>5
      <4>2. CASE i = 1
        <5>1. k # 0 => f[1] = ss[1]
          BY <2>1, <3>1, FlatStep
        <5> QED BY <4>1, <4>2, <5>1
      <4>3. CASE i # 1
        <5>1. PICK j : j = i - 1
          OBVIOUS
        <5>2. j \in 1..(k - 1) /\ j + 1 = i /\ j \in 1..k
          BY <3>1, <4>1, <4>3, <5>1
        <5>3. f[i] = f[j] \o ss[i]
          BY <2>1, <3>1, <5>2, FlatStep
        <5>4. g[i] = g[j] \o ss[i]
          BY <3>2, <4>1, <5>2, <5>3, Zenon
        <5> QED BY <4>3, <5>1, <5>4, Zenon
      <4> QED BY <4>2, <4>3
    <3> QED BY <3>3, <3>4, <3>5
  <2>4. Flat(g, ss, k + 1)
    BY <2>2, <2>3 DEF Flat
  <2> QED BY <2>4
<1> HIDE DEF P
<1>3. n \in P
  BY <1>1, <1>2, NumbersIn
<1> QED BY <1>3 DEF P

\* FlattenSeq() holds what its lists hold.
LEMMA FlattenHolds ==
    ASSUME NEW ss, Listed(ss), \A i \in 1..Len(ss) : Listed(ss[i])
    PROVE  /\ Listed(FlattenSeq(ss))
           /\ \A x : x \in Held(FlattenSeq(ss)) <=> \E i \in 1..Len(ss) : x \in Held(ss[i])
<1>1. PICK n : n = Len(ss)
  OBVIOUS
<1>2. n \in Nat
  BY <1>1, ListedFacts
<1>3. CASE n = 0
  <2>1. FlattenSeq(ss) = ss
    BY <1>1, <1>3 DEF FlattenSeq
  <2>2. Held(ss) = {}
    BY <1>1, <1>3, ListedFacts
  <2> QED BY <1>1, <1>3, <2>1, <2>2
<1>4. CASE n # 0
  <2>1. PICK f : f = CHOOSE g : Flat(g, ss, n)
    OBVIOUS
  <2>2. Flat(f, ss, n)
    BY <1>2, <2>1, FlatsExist
  <2>3. FlattenSeq(ss) = f[n]
    BY <1>1, <1>4, <2>1 DEF FlattenSeq, Flat
  <2>a. f[1] = ss[1] /\ \A k \in 1..(n - 1) : f[k + 1] = f[k] \o ss[k + 1]
    BY <1>2, <1>4, <2>2, FlatStep
  <2> DEFINE Q == {k \in 0..n : k # 0 => /\ Listed(f[k])
                                         /\ \A x : x \in Held(f[k]) <=> \E i \in 1..k : x \in Held(ss[i])}
  <2>4. 0 \in Q
    BY <1>2
  <2>5. ASSUME NEW k \in 0..(n - 1), k \in Q PROVE k + 1 \in Q
    <3>1. Listed(ss[k + 1]) /\ k + 1 \in 1..n /\ k \in Nat
      BY <1>1, <1>2
    <3>2. CASE k = 0
      <4>1. f[1] = ss[1] /\ k + 1 = 1
        BY <2>a, <3>2
      <4>2. Listed(f[k + 1])
        BY <3>1, <4>1
      <4>3. \A x : x \in Held(f[k + 1]) <=> \E i \in 1..(k + 1) : x \in Held(ss[i])
        BY <3>2, <4>1
      <4> QED BY <3>1, <4>2, <4>3
    <3>3. CASE k # 0
      <4>1. f[k + 1] = f[k] \o ss[k + 1]
        <5>1. k \in 1..(n - 1)
          BY <1>2, <3>1, <3>3
        <5> QED BY <2>a, <5>1, Zenon
      <4>2. Listed(f[k]) /\ \A x : x \in Held(f[k]) <=> \E i \in 1..k : x \in Held(ss[i])
        BY <2>5, <3>3
      <4>3. Listed(f[k + 1]) /\ Held(f[k + 1]) = Held(f[k]) \cup Held(ss[k + 1])
        BY <3>1, <4>1, <4>2, ListedJoin
      <4>4. \A i : i \in 1..(k + 1) <=> i \in 1..k \/ i = k + 1
        BY <3>1
      <4>5. \A x : x \in Held(f[k + 1]) <=> \E i \in 1..(k + 1) : x \in Held(ss[i])
        BY <4>2, <4>3, <4>4
      <4> QED BY <3>1, <4>3, <4>5
    <3> QED BY <3>2, <3>3
  <2> HIDE DEF Q
  <2>6. \A k \in 0..n : k \in Q
    BY <1>2, <2>4, <2>5, NumbersIn
  <2>7. n \in Q
    BY <1>2, <2>6
  <2> QED BY <1>1, <1>4, <2>3, <2>7 DEF Q
<1> QED BY <1>3, <1>4

\* A listing of numbers in ascending order.
Rises(a, n) ==
    /\ n \in Nat
    /\ \A i \in 1..n : a[i] \in Int
    /\ \A i, j \in 1..n : i < j => a[i] < a[j]

SameNumbers(a, n, b, m) ==
    /\ \A i \in 1..n : \E j \in 1..m : b[j] = a[i]
    /\ \A j \in 1..m : \E i \in 1..n : a[i] = b[j]

\* The same numbers have one such listing.
LEMMA OneListing ==
    ASSUME NEW a, NEW n, Rises(a, n), NEW b, NEW m, Rises(b, m), SameNumbers(a, n, b, m)
    PROVE  \A i \in 1..n : i \in 1..m /\ b[i] = a[i]
<1> DEFINE S == {i \in 1..n : ~(i \in 1..m /\ b[i] = a[i])}
<1> SUFFICES ASSUME S # {} PROVE FALSE
  OBVIOUS
<1>1. PICK i \in S : \A h \in S : i <= h
  <2>1. S \in SUBSET Nat
    OBVIOUS
  <2> HIDE DEF S
  <2> QED BY <2>1, LeastNumber
<1>2. /\ i \in 1..n /\ ~(i \in 1..m /\ b[i] = a[i]) /\ n \in Nat /\ m \in Nat
      /\ \A h \in 1..n : h < i => h \in 1..m /\ b[h] = a[h]
  <2>1. \A h \in 1..n : h < i => h \notin S
    BY <1>1
  <2> QED BY <2>1 DEF Rises
<1>3. PICK j \in 1..m : b[j] = a[i]
  BY <1>2 DEF SameNumbers
<1>4. i < j
  <2> SUFFICES ASSUME ~(i < j) PROVE FALSE
    OBVIOUS
  <2>1. j # i
    BY <1>2, <1>3
  <2>2. j < i /\ j \in 1..n
    BY <1>2, <2>1
  <2>3. a[j] < a[i] /\ b[j] = a[j] /\ a[j] \in Int
    BY <1>2, <2>2 DEF Rises
  <2> QED BY <1>3, <2>3
<1>5. i \in 1..m /\ b[i] < a[i] /\ b[i] \in Int /\ a[i] \in Int
  <2>1. i \in 1..m
    BY <1>2, <1>4
  <2>2. b[i] < b[j] /\ b[i] \in Int /\ a[i] \in Int
    BY <1>2, <1>4, <2>1 DEF Rises
  <2> QED BY <1>3, <2>1, <2>2
<1>6. PICK h \in 1..n : a[h] = b[i]
  BY <1>5 DEF SameNumbers
<1>7. h < i
  <2> SUFFICES ASSUME i <= h PROVE FALSE
    BY <1>2
  <2>1. i = h \/ i < h
    BY <1>2
  <2>2. a[i] <= a[h]
    BY <1>2, <1>5, <1>6, <2>1 DEF Rises
  <2> QED BY <1>5, <1>6, <2>2
<1>8. h \in 1..m /\ b[h] = a[h] /\ b[h] < b[i]
  BY <1>2, <1>5, <1>7 DEF Rises
<1> QED BY <1>5, <1>6, <1>8

---------------------------------------------------------------------------
(* The states that an order reaches, one call at a time.                   *)

\* The states after one more call.
After(name, cs, p, set) == UNION {Held(StepOf(name, state, cs[p].op)) : state \in set}

Trail(f, name, cs, order, n) ==
    f = [i \in 0..n |-> IF i = 0 THEN {InitOf(name)} ELSE After(name, cs, order[i], f[i - 1])]

\* The sets of states along an order, as Reached() defines them.
LEMMA TrailStep ==
    ASSUME NEW f, NEW name, NEW cs, NEW order, NEW n \in Nat, Trail(f, name, cs, order, n)
    PROVE  /\ f[0] = {InitOf(name)}
           /\ \A k \in 0..(n - 1) : f[k + 1] = After(name, cs, order[k + 1], f[k])
<1>1. \A i \in 0..n : f[i] = IF i = 0 THEN {InitOf(name)} ELSE After(name, cs, order[i], f[i - 1])
  BY Zenon DEF Trail
<1>2. 0 \in 0..n /\ \A k \in 0..(n - 1) : k + 1 \in 0..n /\ k + 1 # 0 /\ (k + 1) - 1 = k
  OBVIOUS
<1>3. ASSUME NEW k \in 0..(n - 1)
      PROVE  f[k + 1] = After(name, cs, order[k + 1], f[k])
  <2>1. f[k + 1] = After(name, cs, order[k + 1], f[(k + 1) - 1])
    BY <1>1, <1>2
  <2> QED BY <1>2, <2>1, Zenon
<1> QED BY <1>1, <1>2, <1>3

\* There is such a trail: a recursive function is one, by induction.
LEMMA TrailsExist ==
    ASSUME NEW name, NEW cs, NEW order, NEW n \in Nat
    PROVE  \E f : Trail(f, name, cs, order, n)
<1> DEFINE P == {k \in 0..n : \E f : Trail(f, name, cs, order, k)}
<1>1. 0 \in P
  <2>1. Trail([i \in 0..0 |-> {InitOf(name)}], name, cs, order, 0)
    BY DEF Trail
  <2> QED BY <2>1
<1>2. ASSUME NEW k \in 0..(n - 1), k \in P PROVE k + 1 \in P
  <2>1. PICK f : Trail(f, name, cs, order, k)
    BY <1>2
  <2>2. PICK g : g = [i \in 0..(k + 1) |-> IF i = k + 1 THEN After(name, cs, order[k + 1], f[k]) ELSE f[i]]
    OBVIOUS
  <2>3. ASSUME NEW i \in 0..(k + 1)
        PROVE  g[i] = IF i = 0 THEN {InitOf(name)} ELSE After(name, cs, order[i], g[i - 1])
    <3>1. k \in Nat /\ k + 1 \in 0..(k + 1) /\ k \in 0..(k + 1) /\ (k + 1) - 1 = k /\ k # k + 1
      OBVIOUS
    <3>2. /\ g[k + 1] = After(name, cs, order[k + 1], f[k])
          /\ \A j \in 0..k : g[j] = f[j] /\ j # k + 1 /\ j \in 0..(k + 1)
      BY <2>2, <3>1
    <3>3. CASE i = k + 1
      <4>1. g[k] = f[k] /\ i # 0
        BY <3>1, <3>2, <3>3
      <4>2. g[i] = After(name, cs, order[i], g[i - 1])
        BY <3>1, <3>2, <3>3, <4>1, Zenon
      <4> QED BY <4>1, <4>2
    <3>4. CASE i = 0
      <4>1. f[0] = {InitOf(name)} /\ g[0] = f[0]
        BY <2>1, <3>1, <3>2, TrailStep
      <4> QED BY <3>4, <4>1
    <3>5. CASE i # 0 /\ i # k + 1
      <4>1. PICK j : j = i - 1
        OBVIOUS
      <4>2. j \in 0..(k - 1) /\ j + 1 = i /\ i \in 0..k /\ j \in 0..k
        BY <3>1, <3>5, <4>1
      <4>3. f[i] = After(name, cs, order[i], f[j])
        BY <2>1, <3>1, <4>2, TrailStep
      <4>4. g[i] = f[i] /\ g[j] = f[j]
        BY <3>2, <4>2
      <4>5. g[i] = After(name, cs, order[i], g[j])
        BY <4>3, <4>4, Zenon
      <4> QED BY <3>5, <4>1, <4>5, Zenon
    <3> QED BY <3>3, <3>4, <3>5
  <2>4. Trail(g, name, cs, order, k + 1)
    BY <2>2, <2>3 DEF Trail
  <2> QED BY <2>4
<1> HIDE DEF P
<1>3. n \in P
  BY <1>1, <1>2, NumbersIn
<1> QED BY <1>3 DEF P

\* Reached() is the end of the trail of its order.
LEMMA TrailOf ==
    ASSUME NEW name, NEW cs, NEW order, Len(order) \in Nat
    PROVE  \E f : Trail(f, name, cs, order, Len(order)) /\ Reached(name, cs, order) = f[Len(order)]
<1>1. PICK n : n = Len(order)
  OBVIOUS
<1>2. PICK f : f = CHOOSE g : Trail(g, name, cs, order, n)
  OBVIOUS
<1>3. Trail(f, name, cs, order, n)
  BY <1>1, <1>2, TrailsExist
<1>4. Reached(name, cs, order) = f[n]
  BY <1>1, <1>2 DEF Reached, Trail, After
<1> QED BY <1>1, <1>3, <1>4

\* Orders that agree on their first calls agree on the states after them.
LEMMA TrailsAgree ==
    ASSUME NEW name, NEW cs, NEW a, NEW b, NEW m \in Nat, NEW n \in Nat, m <= n,
           \A i \in 1..m : a[i] = b[i],
           NEW f, NEW g, Trail(f, name, cs, a, m), Trail(g, name, cs, b, n)
    PROVE  f[m] = g[m]
<1> DEFINE P == {k \in 0..m : f[k] = g[k]}
<1>1. 0 \in P
  BY DEF Trail
<1>2. ASSUME NEW k \in 0..(m - 1), k \in P PROVE k + 1 \in P
  <2>1. f[k + 1] = After(name, cs, a[k + 1], f[k])
    BY TrailStep
  <2>3. k \in 0..(n - 1)
    OBVIOUS
  <2>4. g[k + 1] = After(name, cs, b[k + 1], g[k])
    BY <2>3, TrailStep
  <2>2. f[k] = g[k] /\ a[k + 1] = b[k + 1]
    BY <1>2
  <2>5. f[k + 1] = g[k + 1] /\ k + 1 \in 0..m
    BY <2>1, <2>2, <2>4
  <2> QED BY <2>5
<1> HIDE DEF P
<1>3. m \in P
  BY <1>1, <1>2, NumbersIn
<1> QED BY <1>3 DEF P

\* No call leaves the model's first state.
LEMMA ReachedFirst ==
    ASSUME NEW name, NEW cs, NEW order, Len(order) = 0
    PROVE  Reached(name, cs, order) = {InitOf(name)}
<1>1. PICK f : Trail(f, name, cs, order, 0) /\ Reached(name, cs, order) = f[0]
  BY TrailOf
<1> QED BY <1>1 DEF Trail

\* One more call leads to what it leads to from each state before it.
LEMMA ReachedNext ==
    ASSUME NEW name, NEW cs, NEW a, NEW b, Len(a) \in Nat, Len(b) = Len(a) + 1,
           \A i \in 1..Len(a) : a[i] = b[i]
    PROVE  Reached(name, cs, b) = After(name, cs, b[Len(b)], Reached(name, cs, a))
<1>1. PICK n : n = Len(a)
  OBVIOUS
<1>2. PICK f : Trail(f, name, cs, a, n) /\ Reached(name, cs, a) = f[n]
  BY <1>1, TrailOf
<1>3. PICK g : Trail(g, name, cs, b, n + 1) /\ Reached(name, cs, b) = g[n + 1]
  BY <1>1, TrailOf
<1>4. f[n] = g[n]
  BY <1>1, <1>2, <1>3, TrailsAgree
<1>5. g[n + 1] = After(name, cs, b[n + 1], g[n])
  <2>1. n \in Nat /\ n + 1 \in Nat /\ n \in 0..((n + 1) - 1)
    BY <1>1
  <2> QED BY <1>3, <2>1, TrailStep
<1> QED BY <1>1, <1>2, <1>3, <1>4, <1>5

---------------------------------------------------------------------------
(* The orders of the definition, and the calls of a log.                   *)

\* A list of positions without repeats, of the required calls and some of the
\* others, is one of the orders of the definition.
LEMMA ListIsOrder ==
    ASSUME NEW cs, Listed(cs), NEW o, Listed(o), NEW n, n = Len(o),
           \A i \in 1..n : o[i] \in DOMAIN cs, \A i, j \in 1..n : o[i] = o[j] => i = j,
           \A p \in Required(cs) : \E i \in 1..n : o[i] = p
    PROVE  o \in OrdersOf(cs) /\ IsInjective(o)
<1>1. n \in Nat /\ DOMAIN o = 1..n /\ o \in Seq(Held(o)) /\ \A i \in 1..n : o[i] \in Held(o)
  BY ListedFacts DEF Listed
<1>2. IsInjective(o)
  BY <1>1 DEF IsInjective
<1>3. Len(o) = Cardinality(Held(o))
  BY <1>2, InjectiveLength
<1>4. PICK S, extra : S = Held(o) /\ extra = S \ Required(cs)
  OBVIOUS
<1>5. Required(cs) \subseteq S /\ S \subseteq DOMAIN cs
  BY <1>1, <1>4 DEF Held
<1>6. S = Required(cs) \cup extra /\ extra \in SUBSET (DOMAIN cs \ Required(cs))
  BY <1>4, <1>5
<1>7. o \in SetToSeqs(S)
  <2>1. o \in [1..n -> S]
    <3>1. o = [i \in 1..n |-> o[i]]
      BY <1>1
    <3> QED BY <1>1, <1>4, <3>1
  <2>2. \A i, j \in 1..n : i # j => o[i] # o[j]
    OBVIOUS
  <2> QED BY <1>3, <1>4, <2>1, <2>2 DEF SetToSeqs
<1>8. SetToSeqs(S) \subseteq OrdersOf(cs)
  <2> DEFINE choices == {SetToSeqs(Required(cs) \cup more) :
                             more \in SUBSET (DOMAIN cs \ Required(cs))}
  <2>1. SetToSeqs(Required(cs) \cup extra) \in choices
    BY <1>6
  <2>2. OrdersOf(cs) = UNION choices
    BY DEF OrdersOf
  <2> HIDE DEF choices
  <2> QED BY <1>6, <2>1, <2>2
<1> QED BY <1>2, <1>7, <1>8

\* The calls that may have had an effect are the calls that are checked.
LEMMA EffectiveAreCalls == ASSUME NEW events, Listed(events) PROVE Effective(events) = Calls(events)
<1>1. Len(events) \in Nat /\ DOMAIN events = 1..Len(events)
  BY ListedFacts
<1>2. PICK I, E, K : /\ I = {i \in DOMAIN events : events[i].kind = "invoke"}
                     /\ E = {i \in DOMAIN events :
                                 \A j \in DOMAIN events : events[j].call = i - 1 => events[j].kind # "fail"}
                     /\ K = Kept(events)
  OBVIOUS
<1>3. I \subseteq 1..Len(events) /\ K = I \cap E
  <2>1. I \subseteq 1..Len(events) /\ K \subseteq 1..Len(events)
    BY <1>1, <1>2 DEF Kept
  <2>2. ASSUME NEW i \in I PROVE i \in K <=> i \in E
    <3>1. i \in E <=> \A j \in 1..Len(events) : events[j].call = i - 1 => events[j].kind # "fail"
      BY <1>1, <1>2, <2>1
    <3>2. i \in K <=> \A j \in EventsOf(events, i - 1) : events[j].kind # "fail"
      BY <1>1, <1>2, <2>1, <2>2 DEF Kept
    <3> QED BY <3>1, <3>2 DEF EventsOf
  <2>3. K \subseteq I
    BY <1>1, <1>2 DEF Kept
  <2> QED BY <2>1, <2>2, <2>3
<1>4. I \in SUBSET Int /\ IsFiniteSet(I) /\ K \in SUBSET Int /\ IsFiniteSet(K)
  <2>1. IsFiniteSet(1..Len(events)) /\ 1..Len(events) \subseteq Int
    BY <1>1, FS_Interval
  <2> QED BY <1>3, <2>1, FS_Subset
<1>5. PICK invoked, N : invoked = Ascending(I, <) /\ N = Cardinality(I)
  OBVIOUS
<1>6. /\ N \in Nat /\ DOMAIN invoked = 1..N
      /\ \A i \in 1..N : invoked[i] \in I
      /\ \A x \in I : \E i \in 1..N : invoked[i] = x
      /\ \A i, j \in 1..N : i < j <=> invoked[i] < invoked[j]
  BY <1>4, <1>5, AscendingNumbers
<1>7. PICK order, n : order = Ascending(K, <) /\ n = Cardinality(K)
  OBVIOUS
<1>8. /\ n \in Nat /\ DOMAIN order = 1..n
      /\ \A i \in 1..n : order[i] \in K
      /\ \A x \in K : \E i \in 1..n : order[i] = x
      /\ \A i, j \in 1..n : i < j <=> order[i] < order[j]
  BY <1>4, <1>7, AscendingNumbers
<1>9. Listed(invoked)
  <2>1. invoked = [i \in 1..N |-> invoked[i]]
    <3> DEFINE pick(i) == CHOOSE x \in I : Cardinality({y \in I : y < x}) = i - 1
    <3>1. invoked = [i \in 1..N |-> pick(i)]
      BY <1>5, Zenon DEF Ascending
    <3> HIDE DEF pick
    <3> QED BY <3>1
  <2> QED BY <1>6, <2>1, ListedFunction
<1>10. PICK eff : eff = Among(invoked, E)
  OBVIOUS
<1>11. PICK m \in Nat : \E at2 \in [1..m -> DOMAIN invoked] :
           /\ \A i \in 1..m : invoked[at2[i]] \in E
           /\ \A p \in DOMAIN invoked : invoked[p] \in E => \E i \in 1..m : at2[i] = p
           /\ \A i, j \in 1..m : i < j <=> at2[i] < at2[j]
           /\ Among(invoked, E) = [i \in 1..m |-> invoked[at2[i]]]
  <2>1. PICK T : invoked \in Seq(T)
    BY <1>9 DEF Listed
  <2> QED BY <2>1, AmongTakes
<1>12. PICK place \in [1..m -> DOMAIN invoked] :
           /\ \A i \in 1..m : invoked[place[i]] \in E
           /\ \A p \in DOMAIN invoked : invoked[p] \in E => \E i \in 1..m : place[i] = p
           /\ \A i, j \in 1..m : i < j <=> place[i] < place[j]
           /\ Among(invoked, E) = [i \in 1..m |-> invoked[place[i]]]
  BY <1>11
<1>13. DOMAIN eff = 1..m /\ \A i \in 1..m : eff[i] = invoked[place[i]] /\ place[i] \in 1..N
  BY <1>6, <1>10, <1>12
<1>14. Rises(eff, m)
  <2>1. \A i \in 1..m : eff[i] \in Int
    BY <1>4, <1>6, <1>13
  <2>2. \A i, j \in 1..m : i < j => eff[i] < eff[j]
    BY <1>6, <1>12, <1>13
  <2> QED BY <2>1, <2>2 DEF Rises
<1>15. Rises(order, n)
  BY <1>4, <1>8 DEF Rises
<1>16. ASSUME NEW i \in 1..m PROVE \E j \in 1..n : order[j] = eff[i]
  <2>1. eff[i] \in K
    BY <1>3, <1>6, <1>12, <1>13
  <2> QED BY <1>8, <2>1
<1>17. ASSUME NEW j \in 1..n PROVE \E i \in 1..m : eff[i] = order[j]
  <2>1. order[j] \in I /\ order[j] \in E
    BY <1>3, <1>8
  <2>2. PICK p \in 1..N : invoked[p] = order[j]
    BY <1>6, <2>1
  <2>3. PICK i \in 1..m : place[i] = p
    BY <1>6, <1>12, <2>1, <2>2
  <2> QED BY <1>13, <2>2, <2>3
<1>18. SameNumbers(eff, m, order, n) /\ SameNumbers(order, n, eff, m)
  BY <1>16, <1>17 DEF SameNumbers
<1>19. \A i \in 1..m : i \in 1..n /\ order[i] = eff[i]
  BY <1>14, <1>15, <1>18, OneListing
<1>20. \A i \in 1..n : i \in 1..m
  BY <1>14, <1>15, <1>18, OneListing
<1>21. 1..m = 1..n
  BY <1>19, <1>20
<1>22. Calls(events) = [i \in 1..n |-> CallOf(events, order[i])]
  BY <1>2, <1>7, <1>8 DEF Calls
<1>23. Effective(events) = [i \in 1..m |-> CallOf(events, eff[i])]
  <2>1. Effective(events) = [i \in DOMAIN eff |-> CallOf(events, eff[i])]
    BY <1>2, <1>5, <1>10 DEF Effective
  <2> QED BY <1>13, <2>1
<1> QED BY <1>19, <1>21, <1>22, <1>23

\* A history without calls has an order, the empty one.
LEMMA NoCallsFit == \A name : IsLinearizable(name, <<>>)
<1> SUFFICES ASSUME NEW name PROVE IsLinearizable(name, <<>>)
  OBVIOUS
<1>1. Listed(<<>>) /\ Len(<<>>) = 0 /\ DOMAIN <<>> = {}
  <2>1. Listed(<<>>) /\ Len(<<>>) = 0
    BY OneState
  <2> QED BY <2>1
<1>2. Required(<<>>) = {}
  BY <1>1 DEF Required
<1>3. <<>> \in SetToSeqs({})
  <2>1. Cardinality({}) = 0
    BY FS_EmptySet
  <2>2. 1..0 = {} /\ <<>> \in [{} -> {}]
    <3>1. <<>> = [i \in {} |-> i]
      OBVIOUS
    <3> QED BY <3>1
  <2>3. SetToSeqs({}) = {f \in [1..0 -> {}] : \A i, j \in 1..0 : i # j => f[i] # f[j]}
    BY <2>1 DEF SetToSeqs
  <2> QED BY <2>2, <2>3
<1>4. <<>> \in OrdersOf(<<>>)
  <2>1. {} \in SUBSET (DOMAIN <<>> \ Required(<<>>)) /\ Required(<<>>) \cup {} = {}
    BY <1>2
  <2> QED BY <1>3, <2>1 DEF OrdersOf
<1>5. KeepsPrecedence(<<>>, <<>>)
  BY <1>1 DEF KeepsPrecedence, IsInjective
<1>6. Reached(name, <<>>, <<>>) # {}
  <2>1. Reached(name, <<>>, <<>>) = {InitOf(name)}
    BY <1>1, ReachedFirst
  <2> QED BY <2>1
<1> QED BY <1>4, <1>5, <1>6 DEF IsLinearizable

\* The first k calls of an order.
Begun(o, k) == [i \in 1..k |-> o[i]]

LEMMA BegunIs ==
    ASSUME NEW T, NEW o \in Seq(T), NEW k \in 0..Len(o)
    PROVE  /\ Begun(o, k) \in Seq(T) /\ Len(Begun(o, k)) = k
           /\ \A i \in 1..k : Begun(o, k)[i] = o[i]
           /\ Held(Begun(o, k)) = {o[i] : i \in 1..k}
           /\ k = 0 => Begun(o, k) = <<>>
           /\ k = Len(o) => Begun(o, k) = o
           /\ k < Len(o) => Begun(o, k + 1) = Append(Begun(o, k), o[k + 1])
<1>1. PICK b : b = Begun(o, k)
  OBVIOUS
<1>2. k \in Nat /\ \A i \in 1..k : i \in 1..Len(o) /\ o[i] \in T
  OBVIOUS
<1>3. b = [i \in 1..k |-> o[i]]
  BY <1>1 DEF Begun
<1>4. b \in [1..k -> T]
  BY <1>2, <1>3
<1>5. b \in Seq(T) /\ DOMAIN b = 1..k
  BY <1>2, <1>4, SeqDef
<1>6. Len(b) = k
  BY <1>2, <1>5
<1>7. Held(b) = {o[i] : i \in 1..k}
  BY <1>3 DEF Held
<1>8. k = Len(o) => b = o
  BY <1>3
<1>9. ASSUME k < Len(o) PROVE Begun(o, k + 1) = Append(b, o[k + 1])
  <2>1. Append(b, o[k + 1]) = [i \in 1..(k + 1) |-> IF i = k + 1 THEN o[k + 1] ELSE b[i]]
    BY <1>5, <1>6
  <2>2. \A i \in 1..(k + 1) : (IF i = k + 1 THEN o[k + 1] ELSE b[i]) = o[i]
    BY <1>2, <1>3
  <2> QED BY <2>1, <2>2 DEF Begun
<1>10. k = 0 => b = <<>>
  BY <1>3
<1> QED BY <1>1, <1>3, <1>5, <1>6, <1>7, <1>8, <1>9, <1>10

\* An order of the definition lists positions, and has the required ones.
LEMMA OrderIsList ==
    ASSUME NEW cs, Listed(cs), NEW o \in OrdersOf(cs)
    PROVE  o \in Seq(DOMAIN cs) /\ Required(cs) \subseteq Held(o)
<1>1. PICK extra \in SUBSET (DOMAIN cs \ Required(cs)) : o \in SetToSeqs(Required(cs) \cup extra)
  BY DEF OrdersOf
<1>2. PICK S, n : S = Required(cs) \cup extra /\ n = Cardinality(S)
  OBVIOUS
<1>3. S \subseteq DOMAIN cs /\ IsFiniteSet(S) /\ n \in Nat
  <2>1. S \subseteq DOMAIN cs
    BY <1>2 DEF Required
  <2>2. DOMAIN cs = 1..Len(cs) /\ Len(cs) \in Nat
    BY ListedFacts
  <2>3. IsFiniteSet(DOMAIN cs)
    BY <2>2, FS_Interval
  <2> QED BY <1>2, <2>1, <2>3, FS_Subset, FS_CardinalityType
<1>4. o \in [1..n -> S] /\ \A i, j \in 1..n : i # j => o[i] # o[j]
  BY <1>1, <1>2 DEF SetToSeqs
<1>5. Listed(o) /\ Len(o) = n /\ DOMAIN o = 1..n
  <2>1. o = [i \in 1..n |-> o[i]]
    BY <1>4
  <2> QED BY <1>3, <2>1, ListedFunction
<1>6. Held(o) = S
  <2>1. IsInjective(o)
    BY <1>4, <1>5 DEF IsInjective
  <2>2. n = Cardinality(Held(o))
    BY <1>5, <2>1, InjectiveLength
  <2>3. Held(o) \subseteq S
    BY <1>4, <1>5 DEF Held
  <2> QED BY <1>2, <1>3, <2>2, <2>3, FS_Subset
<1>7. o \in [1..n -> DOMAIN cs]
  BY <1>3, <1>4
<1>8. o \in Seq(DOMAIN cs)
  BY <1>3, <1>7, SeqDef
<1>9. Required(cs) \subseteq Held(o)
  BY <1>2, <1>6
<1> QED BY <1>8, <1>9
===========================================================================

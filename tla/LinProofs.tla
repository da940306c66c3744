----------------------------- MODULE LinProofs -----------------------------
(***************************************************************************)
(* Proofs about LinCheck.tla and the LinSearch.tla that it extends, for    *)
(* any problems: the list of the search, spliced and put back; the orders  *)
(* and states of its configurations; the orders that a search has left to  *)
(* try, without which a part has none; and the verdict of a check.  The    *)
(* partitions are the components of the keys that calls share, and a       *)
(* key-value history whose calls declare the keys they touch is            *)
(* linearizable exactly when each of its partitions is, so that the        *)
(* verdict is right for the whole.                                         *)
(***************************************************************************)
EXTENDS LinCheck, HistoryProofs
---------------------------------------------------------------------------
(* A doubly linked list of the numbers 0..t that are in S.                 *)

\* f is the least member of S above e, and the greatest below.
IsNext(S, e, f) == f \in S /\ e < f /\ \A g \in S : e < g => f <= g

IsPrev(S, e, f) == f \in S /\ f < e /\ \A g \in S : g < e => g <= f

Links(l, S, t) ==
    /\ l = [next |-> l.next, prev |-> l.prev]
    /\ DOMAIN l.next = 0..t /\ DOMAIN l.prev = 0..t
    /\ t \in Nat /\ S \in SUBSET (0..t) /\ 0 \in S /\ t \in S
    /\ \A e \in S \ {t} : IsNext(S, e, l.next[e])
    /\ \A e \in S \ {0} : IsPrev(S, e, l.prev[e])

\* An entry that is out of the list still names its old neighbours.
Names(l, S, e) == IsNext(S, e, l.next[e]) /\ IsPrev(S, e, l.prev[e])

\* Taking an entry out leaves the list of the others, and the entry names its
\* old neighbours: Lift() of the search.
LEMMA UnlinkTakesOut ==
    ASSUME NEW l, NEW S, NEW t, NEW e \in S, Links(l, S, t), 0 < e, e < t,
           NEW m, m = Unlink(l, e)
    PROVE  /\ Links(m, S \ {e}, t)
           /\ Names(m, S \ {e}, e)
           /\ \A f \in (0..t) \ S : m.next[f] = l.next[f] /\ m.prev[f] = l.prev[f]
<1>1. PICK a, b : a = l.prev[e] /\ b = l.next[e]
  OBVIOUS
<1>2. /\ IsNext(S, e, b) /\ IsPrev(S, e, a) /\ IsNext(S, a, e) /\ IsPrev(S, b, e)
  BY <1>1 DEF Links, IsNext, IsPrev
<1>3. /\ a \in 0..t /\ b \in 0..t /\ e \in 0..t /\ t \in Nat
      /\ DOMAIN l.next = 0..t /\ DOMAIN l.prev = 0..t
  BY <1>2 DEF Links, IsNext, IsPrev
<1>4. /\ m = [next |-> m.next, prev |-> m.prev]
      /\ DOMAIN m.next = 0..t /\ DOMAIN m.prev = 0..t
      /\ \A f \in 0..t : m.next[f] = IF f = a THEN b ELSE l.next[f]
      /\ \A f \in 0..t : m.prev[f] = IF f = b THEN a ELSE l.prev[f]
  BY <1>1, <1>3 DEF Unlink
<1>5. Links(m, S \ {e}, t)
  <2>1. ASSUME NEW f \in (S \ {e}) \ {t}
        PROVE  IsNext(S \ {e}, f, m.next[f])
    <3>1. IsNext(S, f, l.next[f]) /\ f \in 0..t
      BY DEF Links
    <3>2. CASE f = a
      BY <1>2, <1>3, <1>4, <3>1, <3>2 DEF IsNext, Links
    <3>3. CASE f # a
      <4>1. m.next[f] = l.next[f]
        BY <1>4, <3>1, <3>3
      <4>2. l.next[f] # e
        BY <1>2, <1>3, <3>1, <3>3 DEF IsNext, IsPrev
      <4> QED BY <3>1, <4>1, <4>2 DEF IsNext
    <3> QED BY <3>2, <3>3
  <2>2. ASSUME NEW f \in (S \ {e}) \ {0}
        PROVE  IsPrev(S \ {e}, f, m.prev[f])
    <3>1. IsPrev(S, f, l.prev[f]) /\ f \in 0..t
      BY DEF Links
    <3>2. CASE f = b
      BY <1>2, <1>3, <1>4, <3>1, <3>2 DEF IsPrev, Links
    <3>3. CASE f # b
      <4>1. m.prev[f] = l.prev[f]
        BY <1>4, <3>1, <3>3
      <4>2. l.prev[f] # e
        BY <1>2, <1>3, <3>1, <3>3 DEF IsNext, IsPrev
      <4> QED BY <3>1, <4>1, <4>2 DEF IsPrev
    <3> QED BY <3>2, <3>3
  <2>3. S \ {e} \in SUBSET (0..t) /\ 0 \in S \ {e} /\ t \in S \ {e}
    BY DEF Links
  <2> QED BY <1>3, <1>4, <2>1, <2>2, <2>3 DEF Links
<1>6. Names(m, S \ {e}, e)
  BY <1>1, <1>2, <1>3, <1>4 DEF Names, IsNext, IsPrev, Links
<1>7. \A f \in (0..t) \ S : m.next[f] = l.next[f] /\ m.prev[f] = l.prev[f]
  BY <1>2, <1>4 DEF IsNext, IsPrev
<1> QED BY <1>5, <1>6, <1>7

\* Putting it back between the neighbours that it names restores the list:
\* Unlift() of the search.
LEMMA RelinkPutsBack ==
    ASSUME NEW l, NEW S, NEW t, NEW e, Links(l, S, t), e \in (0..t) \ S, Names(l, S, e),
           NEW m, m = Relink(l, e)
    PROVE  /\ Links(m, S \cup {e}, t)
           /\ \A f \in (0..t) \ S : m.next[f] = l.next[f] /\ m.prev[f] = l.prev[f]
<1>1. PICK a, b : a = l.prev[e] /\ b = l.next[e]
  OBVIOUS
<1>2. /\ IsNext(S, e, b) /\ IsPrev(S, e, a)
  BY <1>1 DEF Names
<1>3. /\ a \in 0..t /\ b \in 0..t /\ e \in 0..t /\ t \in Nat
      /\ DOMAIN l.next = 0..t /\ DOMAIN l.prev = 0..t
  BY <1>2 DEF Links, IsNext, IsPrev
<1>4. /\ m = [next |-> m.next, prev |-> m.prev]
      /\ DOMAIN m.next = 0..t /\ DOMAIN m.prev = 0..t
      /\ \A f \in 0..t : m.next[f] = IF f = a THEN e ELSE l.next[f]
      /\ \A f \in 0..t : m.prev[f] = IF f = b THEN e ELSE l.prev[f]
  BY <1>1, <1>3 DEF Relink
<1>5. Links(m, S \cup {e}, t)
  <2>1. 0 < e /\ e < t /\ m.next[e] = b /\ m.prev[e] = a
    BY <1>1, <1>2, <1>3, <1>4 DEF Links, IsNext, IsPrev
  <2>2. ASSUME NEW f \in (S \cup {e}) \ {t}
        PROVE  IsNext(S \cup {e}, f, m.next[f])
    <3>1. CASE f = e
      BY <1>2, <1>3, <2>1, <3>1 DEF IsNext
    <3>2. CASE f # e
      <4>1. IsNext(S, f, l.next[f]) /\ f \in 0..t
        BY <3>2 DEF Links
      <4>2. CASE f = a
        <5>1. m.next[f] = e
          BY <1>3, <1>4, <4>2
        <5>2. a < e /\ \A g \in S : a < g => e <= g
          BY <1>2, <1>3 DEF IsNext, IsPrev, Links
        <5> QED BY <4>2, <5>1, <5>2 DEF IsNext
      <4>3. CASE f # a
        <5>1. m.next[f] = l.next[f]
          BY <1>4, <4>1, <4>3
        <5>2. f < e => l.next[f] <= e
          BY <1>2, <1>3, <3>2, <4>1, <4>3 DEF IsNext, IsPrev, Links
        <5> QED BY <4>1, <5>1, <5>2 DEF IsNext
      <4> QED BY <4>2, <4>3
    <3> QED BY <3>1, <3>2
  <2>3. ASSUME NEW f \in (S \cup {e}) \ {0}
        PROVE  IsPrev(S \cup {e}, f, m.prev[f])
    <3>1. CASE f = e
      BY <1>2, <1>3, <2>1, <3>1 DEF IsPrev
    <3>2. CASE f # e
      <4>1. IsPrev(S, f, l.prev[f]) /\ f \in 0..t
        BY <3>2 DEF Links
      <4>2. CASE f = b
        BY <1>2, <1>3, <1>4, <4>1, <4>2 DEF IsNext, IsPrev, Links
      <4>3. CASE f # b
        <5>1. m.prev[f] = l.prev[f]
          BY <1>4, <4>1, <4>3
        <5>2. e < f => e <= l.prev[f]
          BY <1>2, <1>3, <3>2, <4>1, <4>3 DEF IsNext, IsPrev, Links
        <5> QED BY <4>1, <5>1, <5>2 DEF IsPrev
      <4> QED BY <4>2, <4>3
    <3> QED BY <3>1, <3>2
  <2>4. S \cup {e} \in SUBSET (0..t) /\ 0 \in S \cup {e} /\ t \in S \cup {e}
    BY <1>3 DEF Links
  <2> QED BY <1>3, <1>4, <2>2, <2>3, <2>4 DEF Links
<1>7. \A f \in (0..t) \ S : m.next[f] = l.next[f] /\ m.prev[f] = l.prev[f]
  BY <1>2, <1>4 DEF IsNext, IsPrev
<1> QED BY <1>5, <1>7

---------------------------------------------------------------------------
(* The models' steps: equality is an equivalence that they respect.        *)

\* Same() is an equivalence for every model.
LEMMA SameIsEquivalence ==
    ASSUME NEW name
    PROVE  /\ \A a : Same(name, a, a)
           /\ \A a, b : Same(name, a, b) => Same(name, b, a)
           /\ \A a, b, c : Same(name, a, b) /\ Same(name, b, c) => Same(name, a, c)
  BY DEF Same

\* A list of states without equal ones.
AllDiffer(name, ss) == \A i, j \in 1..Len(ss) : i # j => ~Same(name, ss[i], ss[j])

\* Distinct() keeps one of each class of equal states: no state is lost and
\* no two that are left are equal.
LEMMA DistinctKeeps ==
    ASSUME NEW s, Listed(s)
    PROVE  /\ Listed(Distinct(s)) /\ AllDiffer(model, Distinct(s))
           /\ \A x \in Held(Distinct(s)) : x \in Held(s)
           /\ \A x \in Held(s) : \E k \in 1..Len(Distinct(s)) : Equal(x, Distinct(s)[k])
<1> DEFINE first(i) == \A j \in 1..(i - 1) : ~Equal(s[i], s[j])
           F == {i \in DOMAIN s : first(i)}
           kept == Ascending(F, <)
           d == Distinct(s)
<1>1. /\ Len(s) \in Nat /\ DOMAIN s = 1..Len(s)
      /\ \A i \in 1..Len(s) : s[i] \in Held(s)
      /\ \A x \in Held(s) : \E i \in 1..Len(s) : s[i] = x
  BY ListedFacts
<1>2. F \in SUBSET Int /\ IsFiniteSet(F)
  <2>1. F \in SUBSET (1..Len(s)) /\ IsFiniteSet(1..Len(s))
    BY <1>1, FS_Interval
  <2>2. 1..Len(s) \in SUBSET Int
    OBVIOUS
  <2> HIDE DEF F
  <2>3. IsFiniteSet(F)
    BY <2>1, FS_Subset
  <2> QED BY <2>1, <2>2, <2>3
<1>3. PICK n : n = Cardinality(F)
  OBVIOUS
<1>4. /\ n \in Nat /\ DOMAIN kept = 1..n
      /\ \A k \in 1..n : kept[k] \in F
      /\ \A i \in F : \E k \in 1..n : kept[k] = i
      /\ \A k, l \in 1..n : k < l <=> kept[k] < kept[l]
  <2> HIDE DEF F
  <2> QED BY <1>2, <1>3, AscendingNumbers
<1>5. d = [k \in 1..n |-> s[kept[k]]]
  <2>1. d = [k \in DOMAIN kept |-> s[kept[k]]]
    BY DEF Distinct
  <2> HIDE DEF d, kept
  <2> QED BY <1>4, <2>1
<1> HIDE DEF d, kept
<1>6. \A k \in 1..n : d[k] = s[kept[k]] /\ kept[k] \in 1..Len(s) /\ first(kept[k])
  BY <1>1, <1>4, <1>5
<1>7. Listed(d) /\ Len(d) = n
  <2>1. d = [k \in 1..n |-> d[k]]
    BY <1>5
  <2> QED BY <1>4, <2>1, ListedFunction
<1>8. ASSUME NEW x \in Held(d) PROVE x \in Held(s)
  <2>1. PICK k \in 1..n : d[k] = x
    BY <1>7, ListedFacts
  <2> QED BY <1>1, <1>6, <2>1
<1>9. AllDiffer(model, d)
  <2>1. ASSUME NEW k \in 1..n, NEW l \in 1..n, k < l
        PROVE  ~Equal(d[l], d[k])
    <3>1. kept[k] < kept[l] /\ kept[k] \in 1..Len(s) /\ kept[l] \in 1..Len(s)
      BY <1>4, <1>6, <2>1
    <3>2. kept[k] \in 1..(kept[l] - 1)
      BY <1>1, <3>1
    <3>3. ~Equal(s[kept[l]], s[kept[k]])
      BY <1>6, <3>2
    <3> QED BY <1>6, <3>3
  <2>2. \A k, l \in 1..n : k # l => k < l \/ l < k
    BY <1>4
  <2> QED BY <1>7, <2>1, <2>2, SameIsEquivalence DEF AllDiffer, Equal
<1>10. ASSUME NEW x \in Held(s)
       PROVE  \E k \in 1..n : Equal(x, d[k])
  <2> DEFINE E == {i \in 1..Len(s) : Equal(x, s[i])}
  <2>1. E \in SUBSET Nat /\ E # {}
    BY <1>1, SameIsEquivalence DEF Equal
  <2>2. PICK i \in E : \A j \in E : i <= j
    <3> HIDE DEF E
    <3> QED BY <2>1, LeastNumber
  <2>3. i \in 1..Len(s) /\ Equal(x, s[i])
    OBVIOUS
  <2>4. first(i)
    <3>1. SUFFICES ASSUME NEW j \in 1..(i - 1), Equal(s[i], s[j]) PROVE FALSE
      OBVIOUS
    <3>2. Equal(x, s[j])
      BY <2>3, <3>1, SameIsEquivalence DEF Equal
    <3>3. j \in 1..Len(s) /\ ~(i <= j)
      BY <1>1, <2>3
    <3> QED BY <2>2, <3>2, <3>3
  <2>5. i \in F
    BY <1>1, <2>3, <2>4
  <2>6. PICK k \in 1..n : kept[k] = i
    BY <1>4, <2>5
  <2> QED BY <1>6, <2>3, <2>6
<1> QED BY <1>7, <1>8, <1>9, <1>10 DEF d

\* The list of a set has no value twice.
Proper(name, state) == name = "set" => Listed(state) /\ IsInjective(state)

\* But for the set's, equal states of a model are identical, and step alike.
LEMMA OthersStep ==
    ASSUME NEW name \in ModelNames, name # "set", NEW op, op.operation \in OperationsOf(name), NEW s
    PROVE  Listed(StepOf(name, s, op))
<1>1. CASE name = "register"
  BY <1>1, OneState DEF StepOf, Register, If
<1>2. CASE name = "cas-register"
  BY <1>2, OneState DEF StepOf, CasRegister, Register, If
<1>3. CASE name = "lossy-register"
  BY <1>3, OneState DEF StepOf, LossyRegister, Register, If
<1>4. CASE name = "key-value"
  BY <1>4, OneState DEF StepOf, KeyValue, If, OperationsOf
<1>5. CASE name = "queue"
  BY <1>5, OneState DEF StepOf, Queue, If
<1>6. CASE name = "from-subject"
  BY <1>6, OneState DEF StepOf, FromSubject, If
<1> QED BY <1>1, <1>2, <1>3, <1>4, <1>5, <1>6 DEF ModelNames

\* A set model's state after a remove.
LEMMA SetWithout ==
    ASSUME NEW s, Listed(s), IsInjective(s), NEW value
    PROVE  LET t == Among(s, Held(s) \ {value})
           IN Listed(t) /\ IsInjective(t) /\ Held(t) = Held(s) \ {value}
<1>1. s \in Seq(Held(s)) /\ Range(s) = Held(s)
  BY DEF Listed, Range, Held
<1>2. PICK T, t : T = Held(s) /\ t = Among(s, Held(s) \ {value})
  OBVIOUS
<1>3. t \in Seq(T) /\ Range(t) = T \cap (T \ {value}) /\ IsInjective(t)
  BY <1>1, <1>2, AmongKeeps
<1> QED BY <1>2, <1>3, ListedFrom DEF Held, Range

\* A set model's state after an add.
LEMMA SetWith ==
    ASSUME NEW s, Listed(s), IsInjective(s), NEW value, value \notin Held(s)
    PROVE  LET t == Append(s, value)
           IN Listed(t) /\ IsInjective(t) /\ Held(t) = Held(s) \cup {value}
<1>1. s \in Seq(Held(s) \cup {value}) /\ Range(s) = Held(s)
  BY DEF Listed, Range, Held
<1> QED BY <1>1, ListedAppend, AppendedEntry

\* Whether a set with these values accepts a call, and the values it leaves.
CanTake(held, op) == op.operation # "add" => Agrees(op, op.args[1] \in held)

Leaves(held, op) ==
    CASE op.operation = "add"      -> held \cup {op.args[1]}
      [] op.operation = "contains" -> held
      [] op.operation = "remove"   -> held \ {op.args[1]}

\* A set model steps alike from equal states, which list the same members
\* in some order.
LEMMA SetSteps ==
    ASSUME NEW op, op.operation \in OperationsOf("set"), NEW s, Listed(s), IsInjective(s)
    PROVE  /\ Listed(StepOf("set", s, op))
           /\ Held(StepOf("set", s, op)) # {} <=> CanTake(Held(s), op)
           /\ \A x \in Held(StepOf("set", s, op)) :
                  Listed(x) /\ IsInjective(x) /\ Held(x) = Leaves(Held(s), op)
<1>1. op.operation \in {"add", "contains", "remove"}
  BY DEF OperationsOf
<1>2. PICK v, u : v = op.args[1] /\ u = Agrees(op, op.args[1] \in Held(s))
  OBVIOUS
<1>3. \E x : /\ Listed(x) /\ IsInjective(x) /\ Held(x) = Leaves(Held(s), op)
            /\ Set(s, op) = IF CanTake(Held(s), op) THEN <<x>> ELSE <<>>
  <2>1. CASE op.operation = "add"
    <3>1. PICK x : x = IF v \in Held(s) THEN s ELSE Append(s, v)
      OBVIOUS
    <3>2. Set(s, op) = <<x>> /\ CanTake(Held(s), op) /\ Leaves(Held(s), op) = Held(s) \cup {v}
      BY <1>2, <2>1, <3>1 DEF Set, CanTake, Leaves
    <3>3. Listed(x) /\ IsInjective(x) /\ Held(x) = Held(s) \cup {v}
      BY <3>1, SetWith
    <3> QED BY <3>2, <3>3
  <2>2. CASE op.operation = "contains"
    <3>1. /\ Set(s, op) = If(Agrees(op, v \in Held(s)), <<s>>)
          /\ CanTake(Held(s), op) <=> Agrees(op, v \in Held(s))
          /\ Leaves(Held(s), op) = Held(s)
      BY <1>2, <2>2 DEF Set, CanTake, Leaves
    <3> QED BY <3>1 DEF If
  <2>3. CASE op.operation = "remove"
    <3>1. PICK x : x = Among(s, Held(s) \ {v})
      OBVIOUS
    <3>2. /\ Set(s, op) = If(Agrees(op, v \in Held(s)), <<x>>)
          /\ CanTake(Held(s), op) <=> Agrees(op, v \in Held(s))
          /\ Leaves(Held(s), op) = Held(s) \ {v}
      BY <1>2, <2>3, <3>1 DEF Set, CanTake, Leaves
    <3>3. Listed(x) /\ IsInjective(x) /\ Held(x) = Held(s) \ {v}
      BY <3>1, SetWithout
    <3> QED BY <3>2, <3>3 DEF If
  <2> QED BY <1>1, <2>1, <2>2, <2>3
<1>4. StepOf("set", s, op) = Set(s, op)
  BY DEF StepOf
<1>5. PICK x : /\ Listed(x) /\ IsInjective(x) /\ Held(x) = Leaves(Held(s), op)
               /\ Set(s, op) = IF CanTake(Held(s), op) THEN <<x>> ELSE <<>>
  BY <1>3
<1>6. CASE CanTake(Held(s), op)
  <2>1. StepOf("set", s, op) = <<x>> /\ Listed(<<x>>) /\ Held(<<x>>) = {x}
    BY <1>4, <1>5, <1>6, OneState
  <2> QED BY <1>5, <1>6, <2>1, Zenon
<1>7. CASE ~CanTake(Held(s), op)
  <2>1. StepOf("set", s, op) = <<>> /\ Listed(<<>>) /\ Held(<<>>) = {}
    BY <1>4, <1>5, <1>7, OneState
  <2> QED BY <1>7, <2>1, Zenon
<1> QED BY <1>6, <1>7

\* A model's step lists proper states, and equal ones after equal states.
LEMMA StepsFollow ==
    ASSUME NEW name \in ModelNames, NEW op, op.operation \in OperationsOf(name),
           NEW s, Proper(name, s)
    PROVE  /\ Listed(StepOf(name, s, op))
           /\ \A x \in Held(StepOf(name, s, op)) : Proper(name, x)
           /\ \A t : Proper(name, t) /\ Same(name, s, t) =>
                  \A x \in Held(StepOf(name, s, op)) :
                      \E y \in Held(StepOf(name, t, op)) : Same(name, x, y)
<1>1. CASE name # "set"
  <2>1. \A t : Same(name, s, t) <=> s = t
    BY <1>1 DEF Same
  <2> QED BY <1>1, <2>1, OthersStep, SameIsEquivalence DEF Proper
<1>2. CASE name = "set"
  <2>1. Listed(s) /\ IsInjective(s) /\ op.operation \in OperationsOf("set")
    BY <1>2 DEF Proper
  <2>2. ASSUME NEW t, Listed(t), IsInjective(t), Same("set", s, t),
               NEW x \in Held(StepOf("set", s, op))
        PROVE  \E y \in Held(StepOf("set", t, op)) : Same("set", x, y)
    <3>1. Held(s) = Held(t)
      BY <2>2 DEF Same
    <3>2. Held(StepOf("set", t, op)) # {}
      BY <2>1, <2>2, <3>1, SetSteps
    <3>3. PICK y \in Held(StepOf("set", t, op)) : TRUE
      BY <3>2
    <3>4. /\ Listed(x) /\ IsInjective(x) /\ Held(x) = Leaves(Held(s), op)
      BY <2>1, <2>2, SetSteps
    <3>6. /\ Listed(y) /\ IsInjective(y) /\ Held(y) = Leaves(Held(t), op)
      BY <2>1, <2>2, <3>3, SetSteps
    <3>5. Len(x) = Len(y)
      BY <3>1, <3>4, <3>6, InjectiveLength
    <3> QED BY <3>1, <3>4, <3>5, <3>6 DEF Same
  <2>3. /\ Listed(StepOf("set", s, op))
        /\ \A x \in Held(StepOf("set", s, op)) : Listed(x) /\ IsInjective(x)
    BY <2>1, SetSteps
  <2> QED BY <1>2, <2>2, <2>3 DEF Proper
<1> QED BY <1>1, <1>2

\* The model's first state lists no member twice.
LEMMA InitIsProper == ASSUME NEW name PROVE Proper(name, InitOf(name))
<1>1. name = "set" => InitOf(name) = <<>>
  BY DEF InitOf
<1>2. IsInjective(<<>>) /\ Listed(<<>>)
  <2>1. Listed(<<>>)
    BY OneState
  <2>2. DOMAIN <<>> = {}
    OBVIOUS
  <2> QED BY <2>1, <2>2 DEF IsInjective
<1> QED BY <1>1, <1>2 DEF Proper

---------------------------------------------------------------------------
(* The calls of a search and their entries.                                *)

\* The calls of a history: each has an invocation of its own, and those with
\* an outcome a completion of their own after it.
Sound(name, cs) ==
    /\ Listed(cs)
    /\ \A p \in DOMAIN cs :
           /\ cs[p].index \in Nat
           /\ cs[p].op.known \in BOOLEAN
           /\ cs[p].op.operation \in OperationsOf(name)
           /\ \A q \in DOMAIN cs : cs[p].index = cs[q].index => p = q
    /\ \A p \in Required(cs) :
           /\ cs[p].completion \in Nat /\ cs[p].index < cs[p].completion
           /\ \A q \in DOMAIN cs : cs[p].completion # cs[q].index
           /\ \A q \in Required(cs) : cs[p].completion = cs[q].completion => p = q

InvokesEntry(cs, p) == [at |-> cs[p].index, position |-> p, invokes |-> TRUE]
CompletesEntry(cs, p) == [at |-> cs[p].completion, position |-> p, invokes |-> FALSE]
InvokeEntries(cs) == {InvokesEntry(cs, p) : p \in DOMAIN cs}
CompleteEntries(cs) == {CompletesEntry(cs, p) : p \in Required(cs)}

\* The entries of calls are their invocations and completions, each once, in
\* the order of their events.
AreEntries(es, cs) ==
    /\ Len(es) \in Nat /\ DOMAIN es = 1..Len(es)
    /\ \A e \in DOMAIN es : \/ es[e] \in InvokeEntries(cs)
                            \/ es[e] \in CompleteEntries(cs)
    /\ \A m \in InvokeEntries(cs) \cup CompleteEntries(cs) : \E e \in DOMAIN es : es[e] = m
    /\ \A e, f \in DOMAIN es : e < f <=> es[e].at < es[f].at

\* The calls and the required ones are finite sets.
LEMMA RequiredAre ==
    ASSUME NEW cs, Listed(cs)
    PROVE  /\ Required(cs) \subseteq DOMAIN cs /\ IsFiniteSet(DOMAIN cs) /\ IsFiniteSet(Required(cs))
           /\ Cardinality(DOMAIN cs) = Len(cs) /\ Cardinality(Required(cs)) \in Nat
<1>1. Len(cs) \in Nat /\ DOMAIN cs = 1..Len(cs) /\ Required(cs) \subseteq DOMAIN cs
  BY ListedFacts DEF Required
<1>2. IsFiniteSet(DOMAIN cs) /\ Cardinality(DOMAIN cs) = Len(cs)
  <2>1. Len(cs) \in Int /\ 1 \in Int
    BY <1>1
  <2>2. IsFiniteSet(1..Len(cs)) /\ Cardinality(1..Len(cs)) = IF 1 > Len(cs) THEN 0 ELSE Len(cs) - 1 + 1
    BY <2>1, FS_Interval
  <2> QED BY <1>1, <2>2
<1> QED BY <1>1, <1>2, FS_Subset, FS_CardinalityType

\* An entry says which event of which call it is.
LEMMA EntryRecords ==
    ASSUME NEW cs, NEW p
    PROVE  /\ InvokesEntry(cs, p).at = cs[p].index /\ CompletesEntry(cs, p).at = cs[p].completion
           /\ InvokesEntry(cs, p).position = p /\ CompletesEntry(cs, p).position = p
           /\ InvokesEntry(cs, p).invokes /\ ~CompletesEntry(cs, p).invokes
  BY DEF InvokesEntry, CompletesEntry

\* The entries of the calls, and how many there are.
LEMMA EntriesAreFinite ==
    ASSUME NEW cs, Listed(cs)
    PROVE  /\ IsFiniteSet(InvokeEntries(cs) \cup CompleteEntries(cs))
           /\ Cardinality(InvokeEntries(cs) \cup CompleteEntries(cs)) = Len(cs) + Cardinality(Required(cs))
<1> DEFINE D == DOMAIN cs
           r == Required(cs)
           f == [p \in D |-> InvokesEntry(cs, p)]
           g == [p \in r |-> CompletesEntry(cs, p)]
<1>1. IsFiniteSet(D) /\ IsFiniteSet(r) /\ Cardinality(D) = Len(cs) /\ Cardinality(r) \in Nat /\ Len(cs) \in Nat
  BY RequiredAre, ListedFacts
<1>2. f \in Bijection(D, InvokeEntries(cs))
  BY EntryRecords DEF Bijection, Injection, Surjection, InvokeEntries, IsInjective
<1>3. g \in Bijection(r, CompleteEntries(cs))
  BY EntryRecords DEF Bijection, Injection, Surjection, CompleteEntries, IsInjective
<1>4. InvokeEntries(cs) \cap CompleteEntries(cs) = {}
  <2> SUFFICES ASSUME NEW p, NEW q, InvokesEntry(cs, p) = CompletesEntry(cs, q) PROVE FALSE
    BY DEF InvokeEntries, CompleteEntries
  <2> QED BY EntryRecords
<1> HIDE DEF f, g, D, r
<1>5. IsFiniteSet(InvokeEntries(cs)) /\ Cardinality(InvokeEntries(cs)) = Cardinality(D)
  BY <1>1, <1>2, FS_Bijection DEF ExistsBijection
<1>6. IsFiniteSet(CompleteEntries(cs)) /\ Cardinality(CompleteEntries(cs)) = Cardinality(r)
  BY <1>1, <1>3, FS_Bijection DEF ExistsBijection
<1>7. IsFiniteSet(InvokeEntries(cs) \cup CompleteEntries(cs))
  BY <1>5, <1>6, FS_Union
<1>8. Cardinality(InvokeEntries(cs) \cup CompleteEntries(cs)) = Cardinality(D) + Cardinality(r)
  <2>1. Cardinality(InvokeEntries(cs) \cup CompleteEntries(cs)) =
            Cardinality(InvokeEntries(cs)) + Cardinality(CompleteEntries(cs)) - Cardinality(InvokeEntries(cs) \cap CompleteEntries(cs))
    BY <1>5, <1>6, FS_Union
  <2>2. Cardinality(InvokeEntries(cs) \cap CompleteEntries(cs)) = 0
    BY <1>4, FS_EmptySet
  <2> QED BY <1>1, <1>5, <1>6, <2>1, <2>2
<1> QED BY <1>1, <1>7, <1>8 DEF r

\* EntriesOf() lists each of them once, in event order.
LEMMA EntriesListed ==
    ASSUME NEW name, NEW cs, Sound(name, cs)
    PROVE  AreEntries(EntriesOf(cs), cs) /\ Len(EntriesOf(cs)) = Len(cs) + Cardinality(Required(cs))
<1> DEFINE S == InvokeEntries(cs) \cup CompleteEntries(cs)
           R == {p \in S \X S : p[1].at < p[2].at}
           pick(i) == CHOOSE x \in S : Cardinality({y \in S : y.at < x.at}) = i - 1
           es == EntriesOf(cs)
<1>1. IsFiniteSet(S) /\ Cardinality(S) = Len(cs) + Cardinality(Required(cs)) /\ Cardinality(S) \in Nat
  <2>1. Listed(cs)
    BY DEF Sound
  <2> QED BY <2>1, EntriesAreFinite, FS_CardinalityType
<1>2. es = [i \in 1..Cardinality(S) |-> pick(i)]
  BY Zenon DEF EntriesOf, Ascending, InvokeEntries, CompleteEntries, InvokesEntry,
      CompletesEntry
<1>3. \A x, y \in S : <<x, y>> \in R <=> x.at < y.at
  OBVIOUS
<1>4. \A x \in S : {y \in S : y.at < x.at} = SetLessThan(x, R, S)
  BY <1>3 DEF SetLessThan
<1>5. \A x \in S : \E p \in DOMAIN cs : \/ x = InvokesEntry(cs, p)
                                        \/ x = CompletesEntry(cs, p) /\ p \in Required(cs)
  BY DEF InvokeEntries, CompleteEntries, Required
<1>6. \A x \in S : x.at \in Nat
  BY <1>5, EntryRecords DEF Sound
<1>7. \A x, y \in S : x.at = y.at => x = y
  <2> SUFFICES ASSUME NEW x \in S, NEW y \in S, x.at = y.at PROVE x = y
    OBVIOUS
  <2>1. PICK p \in DOMAIN cs : \/ x = InvokesEntry(cs, p)
                               \/ x = CompletesEntry(cs, p) /\ p \in Required(cs)
    BY <1>5
  <2>2. PICK q \in DOMAIN cs : \/ y = InvokesEntry(cs, q)
                               \/ y = CompletesEntry(cs, q) /\ q \in Required(cs)
    BY <1>5
  <2> QED BY <2>1, <2>2, EntryRecords DEF Sound
<1> HIDE DEF S, R, es, pick
<1>8. StrictTotalOrder(R, S)
  <2>1. \A x, y, z \in S : <<x, y>> \in R /\ <<y, z>> \in R => <<x, z>> \in R
    BY <1>3, <1>6
  <2>2. \A x, y \in S : x # y => <<x, y>> \in R \/ <<y, x>> \in R
    <3> SUFFICES ASSUME NEW x \in S, NEW y \in S, x # y PROVE x.at < y.at \/ y.at < x.at
      BY <1>3
    <3> QED BY <1>6, <1>7
  <2>3. \A x \in S : <<x, x>> \notin R
    BY <1>3, <1>6
  <2> QED BY <2>1, <2>2, <2>3 DEF StrictTotalOrder
<1>9. ASSUME NEW i \in 1..Cardinality(S), NEW x \in S, Cardinality(SetLessThan(x, R, S)) = i - 1
      PROVE  es[i] \in S /\ Cardinality(SetLessThan(es[i], R, S)) = i - 1
  <2>1. Cardinality({y \in S : y.at < x.at}) = i - 1
    BY <1>4, <1>9
  <2>2. es[i] = CHOOSE z \in S : Cardinality({y \in S : y.at < z.at}) = i - 1
    BY <1>2 DEF pick
  <2>3. es[i] \in S /\ Cardinality({y \in S : y.at < es[i].at}) = i - 1
    BY <2>1, <2>2
  <2> QED BY <1>4, <2>3
<1>10. Lists(es, R, S)
  BY <1>1, <1>8, <1>9, RanksListInOrder
<1>11. DOMAIN es = 1..Cardinality(S) /\ Len(es) = Cardinality(S)
  <2>1. es = [i \in 1..Cardinality(S) |-> es[i]]
    BY <1>2
  <2>2. Len(es) = Cardinality(S)
    BY <1>1, <2>1, ListedFunction
  <2> QED BY <1>2, <2>2
<1>12. /\ \A e \in DOMAIN es : es[e] \in S
       /\ \A m \in S : \E e \in DOMAIN es : es[e] = m
       /\ \A e, f \in DOMAIN es : e < f <=> <<es[e], es[f]>> \in R
  BY <1>10, <1>11 DEF Lists
<1> QED BY <1>1, <1>3, <1>11, <1>12 DEF AreEntries, S, es

\* The entries of a call: Invocation and Completion, of given entries.
InvokedAt(es, p) == CHOOSE e \in DOMAIN es : es[e].position = p /\ es[e].invokes
CompletedAt(es, p) == CHOOSE e \in DOMAIN es : es[e].position = p /\ ~es[e].invokes

\* Where a call's entries are, and that the order of two entries is the
\* order of their events.
LEMMA EntryFacts ==
    ASSUME NEW name, NEW cs, NEW es, Sound(name, cs), es = EntriesOf(cs)
    PROVE  /\ Len(es) = Len(cs) + Cardinality(Required(cs))
           /\ Len(es) \in Nat /\ DOMAIN es = 1..Len(es)
           /\ \A p \in DOMAIN cs :
                  /\ InvokedAt(es, p) \in DOMAIN es
                  /\ es[InvokedAt(es, p)].position = p /\ es[InvokedAt(es, p)].invokes
           /\ \A p \in Required(cs) :
                  /\ p \in DOMAIN cs /\ cs[p].op.known
                  /\ CompletedAt(es, p) \in DOMAIN es
                  /\ es[CompletedAt(es, p)].position = p /\ ~es[CompletedAt(es, p)].invokes
                  /\ InvokedAt(es, p) < CompletedAt(es, p)
           /\ \A p \in DOMAIN cs : cs[p].op.known => p \in Required(cs)
           /\ \A e \in DOMAIN es :
                  /\ es[e].position \in DOMAIN cs
                  /\ es[e].invokes => e = InvokedAt(es, es[e].position)
                  /\ ~es[e].invokes =>
                         es[e].position \in Required(cs) /\ e = CompletedAt(es, es[e].position)
           /\ \A p \in DOMAIN cs, q \in Required(cs) :
                  InvokedAt(es, p) < CompletedAt(es, q) <=> cs[p].index < cs[q].completion
<1>1. AreEntries(es, cs) /\ Len(es) = Len(cs) + Cardinality(Required(cs))
  BY EntriesListed
<1>2. Len(es) \in Nat /\ DOMAIN es = 1..Len(es)
  BY <1>1 DEF AreEntries
<1>3. \A e \in DOMAIN es :
          \E p \in DOMAIN cs : \/ es[e] = InvokesEntry(cs, p)
                               \/ es[e] = CompletesEntry(cs, p) /\ p \in Required(cs)
  BY <1>1 DEF AreEntries, InvokeEntries, CompleteEntries, Required
<1>4. \A e, f \in DOMAIN es : es[e] = es[f] => e = f
  <2> SUFFICES ASSUME NEW e \in DOMAIN es, NEW f \in DOMAIN es, es[e] = es[f] PROVE e = f
    OBVIOUS
  <2>1. ~(es[e].at < es[e].at)
    <3>1. es[e].at \in Nat
      BY <1>3, EntryRecords DEF Sound
    <3> QED BY <3>1
  <2>2. ~(e < f) /\ ~(f < e)
    BY <1>1, <2>1 DEF AreEntries
  <2> QED BY <1>2, <2>2
<1>5. ASSUME NEW p \in DOMAIN cs
      PROVE  InvokedAt(es, p) \in DOMAIN es /\ es[InvokedAt(es, p)] = InvokesEntry(cs, p)
  <2>1. \E e \in DOMAIN es : es[e] = InvokesEntry(cs, p)
    BY <1>1 DEF AreEntries, InvokeEntries
  <2>2. \E e \in DOMAIN es : es[e].position = p /\ es[e].invokes
    BY <2>1, EntryRecords
  <2>3. InvokedAt(es, p) \in DOMAIN es /\ es[InvokedAt(es, p)].position = p /\ es[InvokedAt(es, p)].invokes
    BY <2>2 DEF InvokedAt
  <2> QED BY <1>3, <2>3, EntryRecords
<1>6. ASSUME NEW p \in Required(cs)
      PROVE  CompletedAt(es, p) \in DOMAIN es /\ es[CompletedAt(es, p)] = CompletesEntry(cs, p)
  <2>1. \E e \in DOMAIN es : es[e] = CompletesEntry(cs, p)
    BY <1>1 DEF AreEntries, CompleteEntries
  <2>2. \E e \in DOMAIN es : es[e].position = p /\ ~es[e].invokes
    BY <2>1, EntryRecords
  <2>3. CompletedAt(es, p) \in DOMAIN es /\ es[CompletedAt(es, p)].position = p /\ ~es[CompletedAt(es, p)].invokes
    BY <2>2 DEF CompletedAt
  <2> QED BY <1>3, <2>3, EntryRecords
<1>7. \A p \in DOMAIN cs, q \in Required(cs) :
          InvokedAt(es, p) < CompletedAt(es, q) <=> cs[p].index < cs[q].completion
  BY <1>1, <1>5, <1>6, EntryRecords DEF AreEntries
<1>8. \A p \in Required(cs) : p \in DOMAIN cs /\ cs[p].op.known /\ InvokedAt(es, p) < CompletedAt(es, p)
  BY <1>7 DEF Required, Sound
<1>9. \A p \in DOMAIN cs : cs[p].op.known => p \in Required(cs)
  BY DEF Required
<1>10. \A e \in DOMAIN es :
           /\ es[e].position \in DOMAIN cs
           /\ es[e].invokes => e = InvokedAt(es, es[e].position)
           /\ ~es[e].invokes =>
                  es[e].position \in Required(cs) /\ e = CompletedAt(es, es[e].position)
  BY <1>3, <1>4, <1>5, <1>6, EntryRecords
<1>11. \A p \in DOMAIN cs :
           /\ InvokedAt(es, p) \in DOMAIN es
           /\ es[InvokedAt(es, p)].position = p /\ es[InvokedAt(es, p)].invokes
  BY <1>5, EntryRecords
<1>12. \A p \in Required(cs) :
           /\ CompletedAt(es, p) \in DOMAIN es
           /\ es[CompletedAt(es, p)].position = p /\ ~es[CompletedAt(es, p)].invokes
  BY <1>6, EntryRecords
<1> QED BY <1>1, <1>2, <1>7, <1>8, <1>9, <1>10, <1>11, <1>12

---------------------------------------------------------------------------
(* Orders of calls, and the list as an order leaves it.                    *)

\* The entries that the list links when a set of calls is linearized.
Linked(es, set) == {e \in DOMAIN es : es[e].position \notin set} \cup {0, Len(es) + 1}

\* An order of calls, each once, and the first k of them.
IsOrder(cs, o) ==
    /\ Listed(o)
    /\ \A k \in 1..Len(o) : o[k] \in DOMAIN cs
    /\ \A j, k \in 1..Len(o) : o[j] = o[k] => j = k

Taken(o, k) == {o[i] : i \in 1..k}

\* o2 is o with one more call, p.
AddsCall(o, p, o2) ==
    /\ Listed(o) /\ Listed(o2)
    /\ Len(o2) = Len(o) + 1 /\ o2[Len(o) + 1] = p
    /\ \A i \in 1..Len(o) : o2[i] = o[i]

\* The list links what an order has not linearized, and the entries of each
\* call of the order still name the neighbours they had when it was lifted.
Splices(es, cs, l, o) ==
    /\ Links(l, Linked(es, Held(o)), Len(es) + 1)
    /\ \A k \in 1..Len(o) :
           /\ Names(l, Linked(es, Taken(o, k - 1)) \ {InvokedAt(es, o[k])}, InvokedAt(es, o[k]))
           /\ o[k] \in Required(cs) => Names(l, Linked(es, Taken(o, k)), CompletedAt(es, o[k]))

\* What an order with one more call takes.
LEMMA AddsCallFacts ==
    ASSUME NEW o, NEW p, NEW o2, AddsCall(o, p, o2)
    PROVE  /\ Len(o) \in Nat
           /\ Held(o2) = Held(o) \cup {p}
           /\ Taken(o, Len(o)) = Held(o) /\ Taken(o2, Len(o) + 1) = Held(o2)
           /\ \A k \in 0..Len(o) : Taken(o2, k) = Taken(o, k)
           /\ \A k \in 0..Len(o) : Taken(o, k) \subseteq Held(o)
<1>1. /\ Len(o) \in Nat /\ DOMAIN o = 1..Len(o) /\ DOMAIN o2 = 1..(Len(o) + 1)
  BY ListedFacts DEF AddsCall
<1>2. Taken(o, Len(o)) = Held(o) /\ Taken(o2, Len(o) + 1) = Held(o2)
  BY <1>1 DEF Taken, Held
<1>3. ASSUME NEW k \in 0..Len(o) PROVE Taken(o2, k) = Taken(o, k) /\ Taken(o, k) \subseteq Held(o)
  <2>1. \A i \in 1..k : i \in 1..Len(o)
    BY <1>1
  <2> QED BY <1>1, <2>1 DEF Taken, AddsCall, Held
<1>4. Held(o2) = Held(o) \cup {p}
  <2>1. \A i : i \in 1..(Len(o) + 1) <=> i \in 1..Len(o) \/ i = Len(o) + 1
    BY <1>1
  <2> QED BY <1>1, <2>1 DEF Held, AddsCall
<1> QED BY <1>1, <1>2, <1>3, <1>4

\* An order has each call once as long as only calls that it lacks are added.
LEMMA OrderGrows ==
    ASSUME NEW cs, NEW o, NEW p, NEW o2, AddsCall(o, p, o2)
    PROVE  IsOrder(cs, o2) <=> IsOrder(cs, o) /\ p \in DOMAIN cs /\ p \notin Held(o)
<1>1. /\ Len(o) \in Nat /\ DOMAIN o = 1..Len(o) /\ Listed(o) /\ Listed(o2)
      /\ Len(o2) = Len(o) + 1 /\ o2[Len(o) + 1] = p /\ \A i \in 1..Len(o) : o2[i] = o[i]
  BY ListedFacts DEF AddsCall
<1>2. \A i : i \in 1..(Len(o) + 1) <=> i \in 1..Len(o) \/ i = Len(o) + 1
  BY <1>1
<1>3. Len(o) + 1 \notin 1..Len(o)
  BY <1>1
<1>4. p \notin Held(o) <=> \A i \in 1..Len(o) : o[i] # p
  BY <1>1 DEF Held
<1>5. PICK n : n = Len(o)
  OBVIOUS
<1>6. PICK D, E : D = 1..n /\ E = 1..(n + 1)
  OBVIOUS
<1>7. ASSUME IsOrder(cs, o2) PROVE IsOrder(cs, o) /\ p \in DOMAIN cs /\ p \notin Held(o)
  <2>1. /\ \A k \in 1..Len(o) : o[k] \in DOMAIN cs
        /\ \A j, k \in 1..Len(o) : o[j] = o[k] => j = k
    BY <1>1, <1>2, <1>7 DEF IsOrder
  <2>2. p \in DOMAIN cs /\ \A i \in 1..Len(o) : o[i] # p
    BY <1>1, <1>2, <1>3, <1>7 DEF IsOrder
  <2> QED BY <1>1, <1>4, <2>1, <2>2 DEF IsOrder
<1>8. ASSUME IsOrder(cs, o), p \in DOMAIN cs, p \notin Held(o) PROVE IsOrder(cs, o2)
  <2>1. \A k \in 1..(Len(o) + 1) : o2[k] \in DOMAIN cs
    BY <1>1, <1>2, <1>8 DEF IsOrder
  <2>2. \A j, k \in 1..(Len(o) + 1) : o2[j] = o2[k] => j = k
    BY <1>1, <1>2, <1>4, <1>8 DEF IsOrder
  <2> QED BY <1>1, <2>1, <2>2 DEF IsOrder
<1> QED BY <1>7, <1>8

\* S and T are what is linked without a call and with it linearized; i and c
\* are its entries.
Lifts(cs, p, n, i, c, S, T) ==
    /\ n \in Nat /\ i \in S /\ i \in 1..n /\ T \subseteq S
    /\ p \in Required(cs) => c \in S \ {i} /\ c \in 1..n /\ T = (S \ {i}) \ {c}
    /\ p \notin Required(cs) => T = S \ {i}

\* The entries that one more linearized call takes out of the list.
LEMMA LinkedWithout ==
    ASSUME NEW name, NEW cs, NEW es, Sound(name, cs), es = EntriesOf(cs),
           NEW set, NEW p \in DOMAIN cs, p \notin set,
           NEW i, i = InvokedAt(es, p), NEW c, c = CompletedAt(es, p),
           NEW S, S = Linked(es, set), NEW T, T = Linked(es, set \cup {p})
    PROVE  Lifts(cs, p, Len(es), i, c, S, T)
<1>1. Len(es) \in Nat /\ DOMAIN es = 1..Len(es)
  BY EntryFacts
<1>a. i \in DOMAIN es /\ es[i].position = p /\ es[i].invokes
  BY EntryFacts
<1>b. p \in Required(cs) => c \in DOMAIN es /\ es[c].position = p /\ ~es[c].invokes
  BY EntryFacts
<1>c. \A e \in DOMAIN es : es[e].position = p => e = i \/ (p \in Required(cs) /\ e = c)
  BY EntryFacts
<1>2. /\ i \in S /\ i \in 1..Len(es)
      /\ p \in Required(cs) => c \in S \ {i} /\ c \in 1..Len(es)
  BY <1>1, <1>a, <1>b DEF Linked
<1>3. T \subseteq S /\ \A e \in S : e \in T <=> (e \in DOMAIN es => es[e].position # p)
  <2>1. T \subseteq S
    BY DEF Linked
  <2>2. ASSUME NEW e \in S, e \in DOMAIN es PROVE e \in T <=> es[e].position # p
    <3>1. e # 0 /\ e # Len(es) + 1
      BY <1>1, <2>2
    <3> QED BY <2>2, <3>1 DEF Linked
  <2>3. ASSUME NEW e \in S, e \notin DOMAIN es PROVE e \in T
    BY <2>3 DEF Linked
  <2> QED BY <2>1, <2>2, <2>3
<1>4. p \in Required(cs) => T = (S \ {i}) \ {c}
  <2> SUFFICES ASSUME p \in Required(cs) PROVE \A e \in S : e \in T <=> e # i /\ e # c
    BY <1>3
  <2>1. \A e \in DOMAIN es : es[e].position = p <=> e = i \/ e = c
    BY <1>a, <1>b, <1>c
  <2> QED BY <1>a, <1>b, <1>3, <2>1
<1>5. p \notin Required(cs) => T = S \ {i}
  BY <1>1, <1>a, <1>c, <1>2, <1>3
<1> QED BY <1>1, <1>2, <1>3, <1>4, <1>5 DEF Lifts

\* Two lists in which the entries i and c of a call name the same neighbours.
SameNames(cs, p, i, c, l, m) ==
    /\ m.next[i] = l.next[i] /\ m.prev[i] = l.prev[i]
    /\ p \in Required(cs) => m.next[c] = l.next[c] /\ m.prev[c] = l.prev[c]

\* Two lists in which the entries of linearized calls name the same neighbours.
NamesAgree(es, o, l, m) ==
    \A f \in (0..(Len(es) + 1)) \ Linked(es, Held(o)) : m.next[f] = l.next[f] /\ m.prev[f] = l.prev[f]

\* What the entries of an order's calls name stays while the entries that a
\* splice changes are in the list.
LEMMA NamesStay ==
    ASSUME NEW name, NEW cs, NEW es, Sound(name, cs), es = EntriesOf(cs),
           NEW o, IsOrder(cs, o), NEW l, NEW m,
           NamesAgree(es, o, l, m),
           NEW p \in DOMAIN cs, p \in Held(o),
           NEW i, i = InvokedAt(es, p), NEW c, c = CompletedAt(es, p)
    PROVE  SameNames(cs, p, i, c, l, m)
<1>4. /\ Len(es) \in Nat /\ DOMAIN es = 1..Len(es)
      /\ i \in DOMAIN es /\ es[i].position = p
      /\ p \in Required(cs) => c \in DOMAIN es /\ es[c].position = p
  BY EntryFacts
<1>5. \A e \in DOMAIN es : es[e].position = p => e \in (0..(Len(es) + 1)) \ Linked(es, Held(o))
  BY <1>4 DEF Linked
<1>6. /\ m.next[i] = l.next[i] /\ m.prev[i] = l.prev[i]
      /\ p \in Required(cs) => m.next[c] = l.next[c] /\ m.prev[c] = l.prev[c]
  BY <1>4, <1>5 DEF NamesAgree
<1> QED BY <1>6 DEF SameNames

\* Lift() leaves the list of the order with one more call.
LEMMA LiftSplices ==
    ASSUME NEW name, NEW cs, NEW es, Sound(name, cs), es = EntriesOf(cs),
           NEW o, NEW p, NEW o2, AddsCall(o, p, o2), IsOrder(cs, o2),
           NEW l, Splices(es, cs, l, o),
           NEW m, m = Unlink(l, InvokedAt(es, p)),
           NEW n, n = IF p \in Required(cs) THEN Unlink(m, CompletedAt(es, p)) ELSE m
    PROVE  Splices(es, cs, n, o2)
<1>1. IsOrder(cs, o) /\ p \in DOMAIN cs /\ p \notin Held(o) /\ Held(o2) = Held(o) \cup {p}
  BY OrderGrows, AddsCallFacts
<1>2. PICK i, c, t, S, T : /\ i = InvokedAt(es, p) /\ c = CompletedAt(es, p) /\ t = Len(es) + 1
                           /\ S = Linked(es, Held(o)) /\ T = Linked(es, Held(o2))
  OBVIOUS
<1>3. /\ i \in S /\ 0 < i /\ i < t /\ i \in Nat /\ t \in Nat
      /\ p \in Required(cs) => c \in S \ {i} /\ 0 < c /\ c < t /\ c \in Nat /\ T = (S \ {i}) \ {c}
      /\ p \notin Required(cs) => T = S \ {i}
  <2>1. T = Linked(es, Held(o) \cup {p})
    BY <1>1, <1>2
  <2>2. Lifts(cs, p, Len(es), i, c, S, T)
    BY <1>1, <1>2, <2>1, LinkedWithout
  <2> QED BY <1>2, <2>2 DEF Lifts
<1>4. Links(l, S, t)
  BY <1>2 DEF Splices
<1>5. Links(m, S \ {i}, t) /\ Names(m, S \ {i}, i) /\ \A f \in (0..t) \ S : m.next[f] = l.next[f] /\ m.prev[f] = l.prev[f]
  BY <1>2, <1>3, <1>4, UnlinkTakesOut
<1>6. /\ Links(n, T, t) /\ Names(n, S \ {i}, i)
      /\ p \in Required(cs) => Names(n, T, c)
      /\ \A f \in (0..t) \ S : n.next[f] = l.next[f] /\ n.prev[f] = l.prev[f]
  <2>1. CASE p \in Required(cs)
    <3>1. n = Unlink(m, c)
      BY <1>2, <2>1
    <3>2. /\ Links(n, T, t) /\ Names(n, T, c)
          /\ \A f \in (0..t) \ (S \ {i}) : n.next[f] = m.next[f] /\ n.prev[f] = m.prev[f]
      BY <1>3, <1>5, <2>1, <3>1, UnlinkTakesOut
    <3>3. i \in 0..t
      BY <1>3, <1>4 DEF Links
    <3>4. n.next[i] = m.next[i] /\ n.prev[i] = m.prev[i]
      BY <3>2, <3>3
    <3>5. Names(n, S \ {i}, i)
      BY <1>5, <3>4, Zenon DEF Names
    <3> QED BY <1>5, <2>1, <3>2, <3>5
  <2>2. CASE p \notin Required(cs)
    <3>1. n = m
      BY <2>2
    <3> QED BY <1>3, <1>5, <2>2, <3>1
  <2> QED BY <2>1, <2>2
<1>7. ASSUME NEW k \in 1..Len(o2)
      PROVE  /\ Names(n, Linked(es, Taken(o2, k - 1)) \ {InvokedAt(es, o2[k])}, InvokedAt(es, o2[k]))
             /\ o2[k] \in Required(cs) => Names(n, Linked(es, Taken(o2, k)), CompletedAt(es, o2[k]))
  <2>0. Len(o) \in Nat /\ Len(o2) = Len(o) + 1 /\ o2[Len(o) + 1] = p /\ \A j \in 1..Len(o) : o2[j] = o[j]
    BY AddsCallFacts DEF AddsCall
  <2>1. CASE k = Len(o) + 1
    <3>1. o2[k] = p /\ k - 1 = Len(o) /\ k - 1 \in 0..Len(o)
      BY <2>0, <2>1
    <3>2. Taken(o2, k - 1) = Held(o)
      BY <3>1, AddsCallFacts
    <3>3. Taken(o2, k) = Held(o2)
      BY <2>1, AddsCallFacts
    <3> QED BY <1>2, <1>6, <3>1, <3>2, <3>3
  <2>2. CASE k # Len(o) + 1
    <3>1. k \in 1..Len(o) /\ k \in 0..Len(o) /\ k - 1 \in 0..Len(o)
      BY <2>0, <2>2
    <3>2. o2[k] = o[k] /\ Taken(o2, k - 1) = Taken(o, k - 1) /\ Taken(o2, k) = Taken(o, k)
      BY <2>0, <3>1, AddsCallFacts
    <3>3. /\ Names(l, Linked(es, Taken(o, k - 1)) \ {InvokedAt(es, o[k])}, InvokedAt(es, o[k]))
          /\ o[k] \in Required(cs) => Names(l, Linked(es, Taken(o, k)), CompletedAt(es, o[k]))
      BY <3>1 DEF Splices
    <3>4. NamesAgree(es, o, l, n)
      BY <1>2, <1>6 DEF NamesAgree
    <3>5. o[k] \in DOMAIN cs /\ o[k] \in Held(o)
      BY <1>1, <3>1, ListedFacts DEF IsOrder
    <3>6. SameNames(cs, o[k], InvokedAt(es, o[k]), CompletedAt(es, o[k]), l, n)
      BY <1>1, <3>4, <3>5, NamesStay
    <3>7. /\ Names(n, Linked(es, Taken(o, k - 1)) \ {InvokedAt(es, o[k])}, InvokedAt(es, o[k]))
          /\ o[k] \in Required(cs) => Names(n, Linked(es, Taken(o, k)), CompletedAt(es, o[k]))
      BY <3>3, <3>6, Zenon DEF SameNames, Names
    <3> QED BY <3>2, <3>7
  <2> QED BY <2>1, <2>2
<1> QED BY <1>2, <1>6, <1>7 DEF Splices

\* Unlift() of the last call restores the list of the order before it, and
\* the entries that earlier calls took out still name their neighbours.
LEMMA UnliftSplices ==
    ASSUME NEW name, NEW cs, NEW es, Sound(name, cs), es = EntriesOf(cs),
           NEW o, NEW p, NEW o2, AddsCall(o, p, o2), IsOrder(cs, o2),
           NEW l, Splices(es, cs, l, o2),
           NEW m, m = IF p \in Required(cs) THEN Relink(l, CompletedAt(es, p)) ELSE l,
           NEW n, n = Relink(m, InvokedAt(es, p))
    PROVE  Splices(es, cs, n, o)
<1>1. IsOrder(cs, o) /\ p \in DOMAIN cs /\ p \notin Held(o) /\ Held(o2) = Held(o) \cup {p}
  BY OrderGrows, AddsCallFacts
<1>2. PICK i, c, t, S, T : /\ i = InvokedAt(es, p) /\ c = CompletedAt(es, p) /\ t = Len(es) + 1
                           /\ S = Linked(es, Held(o)) /\ T = Linked(es, Held(o2))
  OBVIOUS
<1>3. /\ i \in S /\ 0 < i /\ i < t /\ i \in Nat /\ t \in Nat
      /\ p \in Required(cs) => c \in S \ {i} /\ 0 < c /\ c < t /\ c \in Nat /\ T = (S \ {i}) \ {c}
      /\ p \notin Required(cs) => T = S \ {i}
      /\ T \subseteq S
  <2>1. T = Linked(es, Held(o) \cup {p})
    BY <1>1, <1>2
  <2>2. Lifts(cs, p, Len(es), i, c, S, T)
    BY <1>1, <1>2, <2>1, LinkedWithout
  <2> QED BY <1>2, <2>2 DEF Lifts
<1>4. Links(l, T, t)
  BY <1>2 DEF Splices
<1>5. /\ Len(o) \in Nat /\ Len(o2) = Len(o) + 1 /\ o2[Len(o) + 1] = p /\ \A j \in 1..Len(o) : o2[j] = o[j]
      /\ Taken(o2, Len(o)) = Held(o) /\ Taken(o2, Len(o) + 1) = Held(o2)
  BY AddsCallFacts DEF AddsCall
<1>6. Names(l, S \ {i}, i) /\ (p \in Required(cs) => Names(l, T, c))
  <2>1. Len(o) + 1 \in 1..Len(o2) /\ (Len(o) + 1) - 1 = Len(o)
    BY <1>5
  <2>2. /\ Names(l, Linked(es, Taken(o2, (Len(o) + 1) - 1)) \ {InvokedAt(es, o2[Len(o) + 1])}, InvokedAt(es, o2[Len(o) + 1]))
        /\ o2[Len(o) + 1] \in Required(cs) => Names(l, Linked(es, Taken(o2, Len(o) + 1)), CompletedAt(es, o2[Len(o) + 1]))
    BY <2>1 DEF Splices
  <2> QED BY <1>2, <1>5, <2>1, <2>2, Zenon
<1>7. /\ Links(m, S \ {i}, t) /\ Names(m, S \ {i}, i)
      /\ \A f \in (0..t) \ S : m.next[f] = l.next[f] /\ m.prev[f] = l.prev[f]
  <2>1. CASE p \in Required(cs)
    <3>1. m = Relink(l, c) /\ c \in (0..t) \ T /\ T \cup {c} = S \ {i}
      BY <1>2, <1>3, <1>4, <2>1 DEF Links
    <3>2. /\ Links(m, S \ {i}, t)
          /\ \A f \in (0..t) \ T : m.next[f] = l.next[f] /\ m.prev[f] = l.prev[f]
      BY <1>4, <1>6, <2>1, <3>1, RelinkPutsBack
    <3>3. i \in (0..t) \ T
      BY <1>3, <1>4, <2>1 DEF Links
    <3>4. m.next[i] = l.next[i] /\ m.prev[i] = l.prev[i]
      BY <3>2, <3>3
    <3>5. Names(m, S \ {i}, i)
      BY <1>6, <3>4, Zenon DEF Names
    <3> QED BY <1>3, <3>2, <3>5
  <2>2. CASE p \notin Required(cs)
    <3>1. m = l
      BY <2>2
    <3> QED BY <1>3, <1>4, <1>6, <2>2, <3>1
  <2> QED BY <2>1, <2>2
<1>8. /\ Links(n, S, t)
      /\ \A f \in (0..t) \ S : n.next[f] = l.next[f] /\ n.prev[f] = l.prev[f]
  <2>1. n = Relink(m, i) /\ i \in (0..t) \ (S \ {i}) /\ (S \ {i}) \cup {i} = S
    BY <1>2, <1>3, <1>4 DEF Links
  <2>2. /\ Links(n, S, t)
        /\ \A f \in (0..t) \ (S \ {i}) : n.next[f] = m.next[f] /\ n.prev[f] = m.prev[f]
    BY <1>7, <2>1, RelinkPutsBack
  <2> QED BY <1>7, <2>2
<1>9. ASSUME NEW k \in 1..Len(o)
      PROVE  /\ Names(n, Linked(es, Taken(o, k - 1)) \ {InvokedAt(es, o[k])}, InvokedAt(es, o[k]))
             /\ o[k] \in Required(cs) => Names(n, Linked(es, Taken(o, k)), CompletedAt(es, o[k]))
  <2>1. k \in 1..Len(o2) /\ k \in 0..Len(o) /\ k - 1 \in 0..Len(o)
    BY <1>5
  <2>2. o2[k] = o[k] /\ Taken(o2, k - 1) = Taken(o, k - 1) /\ Taken(o2, k) = Taken(o, k)
    BY <1>5, <2>1, AddsCallFacts
  <2>3. /\ Names(l, Linked(es, Taken(o2, k - 1)) \ {InvokedAt(es, o2[k])}, InvokedAt(es, o2[k]))
        /\ o2[k] \in Required(cs) => Names(l, Linked(es, Taken(o2, k)), CompletedAt(es, o2[k]))
    BY <2>1 DEF Splices
  <2>4. /\ Names(l, Linked(es, Taken(o, k - 1)) \ {InvokedAt(es, o[k])}, InvokedAt(es, o[k]))
        /\ o[k] \in Required(cs) => Names(l, Linked(es, Taken(o, k)), CompletedAt(es, o[k]))
    BY <2>2, <2>3
  <2>5. NamesAgree(es, o, l, n)
    BY <1>2, <1>8 DEF NamesAgree
  <2>6. o[k] \in DOMAIN cs /\ o[k] \in Held(o)
    BY <1>1, ListedFacts DEF IsOrder
  <2>7. SameNames(cs, o[k], InvokedAt(es, o[k]), CompletedAt(es, o[k]), l, n)
    BY <1>1, <2>5, <2>6, NamesStay
  <2> QED BY <2>4, <2>7, Zenon DEF SameNames, Names
<1> QED BY <1>2, <1>8, <1>9 DEF Splices

---------------------------------------------------------------------------
(* Orders the history allows, and the states that they leave.              *)

\* A list has every state that an order leaves, up to equality, and no other.
AreLeftBy(name, cs, ss, o) ==
    /\ Listed(ss) /\ ss # <<>> /\ AllDiffer(name, ss)
    /\ \A x \in Held(ss) : x \in Reached(name, cs, o)
    /\ \A x \in Reached(name, cs, o) : Proper(name, x) /\ \E i \in 1..Len(ss) : Same(name, x, ss[i])

\* No call of an order was invoked after the completion of a call that was
\* not taken before it.
Early(es, cs, o) ==
    \A k \in 1..Len(o), q \in Required(cs) :
        q \notin Taken(o, k - 1) => InvokedAt(es, o[k]) < CompletedAt(es, q)

\* A call that may come next in an order, and that no state of ss accepts.
Rejected(name, cs, set, ss, p) ==
    /\ p \in DOMAIN cs \ set
    /\ \A q \in Required(cs) \ set : cs[p].index < cs[q].completion
    /\ \A k \in 1..Len(ss) : StepOf(name, ss[k], cs[p].op) = <<>>

\* No call leaves the list of the model's first state.
LEMMA FirstStates ==
    ASSUME NEW name, NEW cs, NEW o, Len(o) = 0
    PROVE  AreLeftBy(name, cs, <<InitOf(name)>>, o)
<1>1. PICK x : x = InitOf(name)
  OBVIOUS
<1>2. Reached(name, cs, o) = {x}
  BY <1>1, ReachedFirst
<1>3. Listed(<<x>>) /\ Held(<<x>>) = {x} /\ Len(<<x>>) = 1 /\ <<x>>[1] = x /\ <<x>> # <<>>
  BY OneState
<1>4. Proper(name, x)
  BY <1>1, InitIsProper
<1>5. AllDiffer(name, <<x>>)
  BY <1>3 DEF AllDiffer
<1>6. AreLeftBy(name, cs, <<x>>, o)
  BY <1>2, <1>3, <1>4, <1>5, SameIsEquivalence DEF AreLeftBy
<1> QED BY <1>1, <1>6

\* Following() lists, up to equality, what the model's steps lead to from
\* the states, with no two equal.
LEMMA FollowingStates ==
    ASSUME model \in ModelNames, NEW op, op.operation \in OperationsOf(model),
           Listed(states), \A x \in Held(states) : Proper(model, x),
           NEW f, f = Following(op)
    PROVE  /\ Listed(f) /\ AllDiffer(model, f)
           /\ \A x \in Held(f) : \E s \in Held(states) : x \in Held(StepOf(model, s, op))
           /\ \A s \in Held(states) : \A x \in Held(StepOf(model, s, op)) :
                  \E k \in 1..Len(f) : Same(model, x, f[k])
<1>1. /\ Len(states) \in Nat /\ DOMAIN states = 1..Len(states)
      /\ \A i \in 1..Len(states) : states[i] \in Held(states)
      /\ \A x \in Held(states) : \E i \in 1..Len(states) : states[i] = x
  BY ListedFacts
<1>2. PICK g : g = [i \in 1..Len(states) |-> StepOf(model, states[i], op)]
  OBVIOUS
<1>3. Listed(g) /\ Len(g) = Len(states) /\ \A i \in 1..Len(states) : g[i] = StepOf(model, states[i], op)
  <2>1. \A i \in 1..Len(states) : g[i] = StepOf(model, states[i], op)
    BY <1>2
  <2>2. g = [i \in 1..Len(states) |-> g[i]]
    BY <1>2
  <2> QED BY <1>1, <2>1, <2>2, ListedFunction
<1>4. \A i \in 1..Len(g) : Listed(g[i])
  BY <1>1, <1>3, StepsFollow
<1>5. PICK h : h = FlattenSeq(g)
  OBVIOUS
<1>6. Listed(h) /\ \A x : x \in Held(h) <=> \E i \in 1..Len(g) : x \in Held(g[i])
  BY <1>3, <1>4, <1>5, FlattenHolds
<1>8. f = Distinct(h)
  BY <1>1, <1>2, <1>5 DEF Following
<1>9. /\ Listed(f) /\ AllDiffer(model, f)
      /\ \A x \in Held(f) : x \in Held(h)
      /\ \A x \in Held(h) : \E k \in 1..Len(f) : Same(model, x, f[k])
  BY <1>6, <1>8, DistinctKeeps DEF Equal
<1>10. \A x : x \in Held(h) <=> \E s \in Held(states) : x \in Held(StepOf(model, s, op))
  BY <1>1, <1>3, <1>6
<1> QED BY <1>9, <1>10

\* The following states of a candidate are those of the order with it.
LEMMA StatesAfterCall ==
    ASSUME model \in ModelNames, NEW o, NEW p, NEW o2, AddsCall(o, p, o2),
           calls[p].op.operation \in OperationsOf(model),
           AreLeftBy(model, calls, states, o), Following(calls[p].op) # <<>>
    PROVE  AreLeftBy(model, calls, Following(calls[p].op), o2)
<1>1. PICK op, f, R, Q : /\ op = calls[p].op /\ f = Following(calls[p].op)
                         /\ R = Reached(model, calls, o) /\ Q = Reached(model, calls, o2)
  OBVIOUS
<1>2. Q = UNION {Held(StepOf(model, s, op)) : s \in R}
  <2>1. Len(o) \in Nat /\ Len(o2) = Len(o) + 1 /\ o2[Len(o2)] = p /\ \A i \in 1..Len(o) : o[i] = o2[i]
    BY AddsCallFacts DEF AddsCall
  <2>2. Reached(model, calls, o2) = After(model, calls, o2[Len(o2)], Reached(model, calls, o))
    BY <2>1, ReachedNext
  <2> QED BY <1>1, <2>1, <2>2 DEF After
<1>3. /\ Listed(states)
      /\ \A x \in Held(states) : x \in R
      /\ \A x \in R : Proper(model, x) /\ \E i \in 1..Len(states) : Same(model, x, states[i])
  BY <1>1 DEF AreLeftBy
<1>4. /\ Listed(f) /\ AllDiffer(model, f)
      /\ \A x \in Held(f) : \E s \in Held(states) : x \in Held(StepOf(model, s, op))
      /\ \A s \in Held(states) : \A x \in Held(StepOf(model, s, op)) :
             \E k \in 1..Len(f) : Same(model, x, f[k])
  BY <1>1, <1>3, FollowingStates
<1>5. \A x \in Held(f) : x \in Q
  BY <1>2, <1>3, <1>4
<1>6. ASSUME NEW x \in Q PROVE Proper(model, x) /\ \E k \in 1..Len(f) : Same(model, x, f[k])
  <2>1. PICK s \in R : x \in Held(StepOf(model, s, op))
    BY <1>2
  <2>2. PICK i \in 1..Len(states) : Same(model, s, states[i])
    BY <1>3
  <2>3. PICK t : t = states[i]
    OBVIOUS
  <2>4. t \in Held(states)
    BY <1>3, <2>2, <2>3, ListedFacts
  <2>5. Proper(model, s) /\ Proper(model, t)
    BY <1>3, <2>4
  <2>6. Proper(model, x) /\ \E y \in Held(StepOf(model, t, op)) : Same(model, x, y)
    BY <1>1, <2>1, <2>2, <2>3, <2>5, StepsFollow
  <2>7. PICK y \in Held(StepOf(model, t, op)) : Same(model, x, y)
    BY <2>6
  <2>8. PICK k \in 1..Len(f) : Same(model, y, f[k])
    BY <1>4, <2>4, <2>7
  <2>9. Same(model, x, f[k])
    BY <2>7, <2>8, SameIsEquivalence
  <2> QED BY <2>6, <2>9
<1>7. f # <<>>
  BY <1>1
<1>8. AreLeftBy(model, calls, f, o2)
  BY <1>1, <1>4, <1>5, <1>6, <1>7 DEF AreLeftBy
<1> QED BY <1>1, <1>8

\* When none follows, the model rejects the call in every state.
LEMMA NoStateFollows ==
    ASSUME model \in ModelNames, NEW op, op.operation \in OperationsOf(model),
           Listed(states), \A x \in Held(states) : Proper(model, x),
           Following(op) = <<>>
    PROVE  \A k \in 1..Len(states) : StepOf(model, states[k], op) = <<>>
<1> SUFFICES ASSUME NEW k \in 1..Len(states) PROVE StepOf(model, states[k], op) = <<>>
  OBVIOUS
<1>1. PICK f, s, next : f = Following(op) /\ s = states[k] /\ next = StepOf(model, s, op)
  OBVIOUS
<1>2. s \in Held(states) /\ Proper(model, s)
  BY <1>1, ListedFacts
<1>3. \A x \in Held(next) : \E j \in 1..Len(f) : Same(model, x, f[j])
  BY <1>1, <1>2, FollowingStates
<1>4. Len(f) = 0
  BY <1>1
<1>5. Held(next) = {}
  BY <1>3, <1>4
<1>6. Listed(next)
  BY <1>1, <1>2, StepsFollow
<1>7. next = <<>>
  BY <1>5, <1>6, ListedFacts
<1> QED BY <1>1, <1>7

\* An order stays early when a call is added that was invoked before the
\* completion of each required call that it lacks.
LEMMA EarlyGrows ==
    ASSUME NEW es, NEW cs, NEW o, NEW p, NEW o2, AddsCall(o, p, o2)
    PROVE  Early(es, cs, o2) <=>
               /\ Early(es, cs, o)
               /\ \A q \in Required(cs) : q \notin Held(o) => InvokedAt(es, p) < CompletedAt(es, q)
<1>1. /\ Len(o) \in Nat /\ Len(o2) = Len(o) + 1 /\ o2[Len(o) + 1] = p /\ \A i \in 1..Len(o) : o2[i] = o[i]
      /\ \A k \in 0..Len(o) : Taken(o2, k) = Taken(o, k)
      /\ Taken(o, Len(o)) = Held(o)
  BY AddsCallFacts DEF AddsCall
<1>2. \A k \in 1..Len(o) : k \in 1..Len(o2) /\ k - 1 \in 0..Len(o) /\ o2[k] = o[k] /\ Taken(o2, k - 1) = Taken(o, k - 1)
  <2>1. \A k \in 1..Len(o) : k \in 1..Len(o2) /\ k - 1 \in 0..Len(o)
    BY <1>1
  <2> QED BY <1>1, <2>1
<1>3. Len(o2) \in 1..Len(o2) /\ o2[Len(o2)] = p /\ Taken(o2, Len(o2) - 1) = Held(o)
  <2>1. Len(o2) \in 1..Len(o2) /\ Len(o2) - 1 = Len(o) /\ Len(o) \in 0..Len(o)
    BY <1>1
  <2> QED BY <1>1, <2>1
<1>4. \A k \in 1..Len(o2) : k \in 1..Len(o) \/ k = Len(o2)
  BY <1>1
<1>5. ASSUME Early(es, cs, o2)
      PROVE  /\ Early(es, cs, o)
             /\ \A q \in Required(cs) : q \notin Held(o) => InvokedAt(es, p) < CompletedAt(es, q)
  <2>1. Early(es, cs, o)
    BY <1>2, <1>5, Zenon DEF Early
  <2>2. \A q \in Required(cs) : q \notin Held(o) => InvokedAt(es, p) < CompletedAt(es, q)
    BY <1>3, <1>5, Zenon DEF Early
  <2> QED BY <2>1, <2>2
<1>6. ASSUME Early(es, cs, o),
             \A q \in Required(cs) : q \notin Held(o) => InvokedAt(es, p) < CompletedAt(es, q)
      PROVE  Early(es, cs, o2)
  <2> SUFFICES ASSUME NEW k \in 1..Len(o2), NEW q \in Required(cs), q \notin Taken(o2, k - 1)
               PROVE  InvokedAt(es, o2[k]) < CompletedAt(es, q)
    BY DEF Early
  <2>1. CASE k \in 1..Len(o)
    BY <1>2, <1>6, <2>1, Zenon DEF Early
  <2>2. CASE k = Len(o2)
    BY <1>3, <1>6, <2>2, Zenon
  <2> QED BY <1>4, <2>1, <2>2
<1> QED BY <1>5, <1>6

\* An early order keeps the precedence of the history.
LEMMA EarlyKeepsPrecedence ==
    ASSUME NEW name, NEW cs, NEW es, Sound(name, cs), es = EntriesOf(cs),
           NEW o, IsOrder(cs, o), Early(es, cs, o)
    PROVE  KeepsPrecedence(cs, o)
<1>1. Len(o) \in Nat /\ DOMAIN o = 1..Len(o)
  BY ListedFacts DEF IsOrder
<1>2. IsInjective(o)
  BY <1>1 DEF IsOrder, IsInjective
<1>3. ASSUME NEW j \in 1..Len(o), NEW p \in DOMAIN cs, Precedes(cs[p], cs[o[j]])
      PROVE  \E i \in 1..(j - 1) : o[i] = p
  <2>1. o[j] \in DOMAIN cs /\ p \in Required(cs) /\ cs[p].completion < cs[o[j]].index
    BY <1>3 DEF IsOrder, Precedes, Required
  <2>2. ~(cs[o[j]].index < cs[p].completion)
    BY <2>1 DEF Sound
  <2>3. ~(InvokedAt(es, o[j]) < CompletedAt(es, p))
    BY <2>1, <2>2, EntryFacts
  <2>4. p \in Taken(o, j - 1)
    BY <2>1, <2>3 DEF Early
  <2> QED BY <2>4 DEF Taken
<1> QED BY <1>1, <1>2, <1>3 DEF KeepsPrecedence

\* A bounded set of numbers has its Max().
LEMMA GreatestNumber ==
    ASSUME NEW n \in Nat, NEW S \in SUBSET (0..n), S # {}
    PROVE  Max(S) \in S /\ \A z \in S : z <= Max(S)
<1> DEFINE T == {n - x : x \in S}
<1>1. T \in SUBSET Nat /\ T # {}
  <2>1. \A x \in S : n - x \in Nat
    OBVIOUS
  <2> QED BY <2>1
<1>2. PICK y \in T : \A z \in T : y <= z
  <2> HIDE DEF T
  <2> QED BY <1>1, LeastNumber
<1>3. PICK x \in S : y = n - x
  OBVIOUS
<1>4. \A z \in S : x >= z
  <2> SUFFICES ASSUME NEW z \in S PROVE x >= z
    OBVIOUS
  <2>1. n - x <= n - z
    BY <1>2, <1>3
  <2> QED BY <2>1
<1>5. Max(S) \in S /\ \A z \in S : Max(S) >= z
  BY <1>4 DEF Max
<1> QED BY <1>5

\* The steps over the states that the budget allows stay within it.
LEMMA StepsAreAfforded ==
    ASSUME Listed(states), steps <= budget
    PROVE  Spent(Afforded) <= budget
<1> DEFINE S == {k \in 0..Len(states) : Affords(k)}
<1>1. Spent(0) = steps
  <2>1. PICK g : g = [i \in 0..0 |-> steps]
    OBVIOUS
  <2>2. g = [i \in 0..0 |-> IF i = 0 THEN steps ELSE g[i - 1] + CostOf(model, states[i])]
    BY <2>1
  <2>3. PICK h : h = CHOOSE f : f = [i \in 0..0 |-> IF i = 0 THEN steps ELSE f[i - 1] + CostOf(model, states[i])]
    OBVIOUS
  <2>4. h = [i \in 0..0 |-> IF i = 0 THEN steps ELSE h[i - 1] + CostOf(model, states[i])]
    BY <2>2, <2>3
  <2>5. Spent(0) = h[0]
    BY <2>3 DEF Spent
  <2> QED BY <2>4, <2>5
<1>2. Len(states) \in Nat
  BY ListedFacts
<1>3. 0 \in S
  BY <1>2 DEF Affords
<1>4. S \in SUBSET (0..Len(states))
  OBVIOUS
<1>5. Afforded \in S
  <2>1. Afforded = Max(S)
    BY DEF Afforded
  <2> HIDE DEF S
  <2> QED BY <1>2, <1>3, <1>4, <2>1, GreatestNumber
<1>6. PICK k : k = Afforded
  OBVIOUS
<1>7. k \in 0..Len(states) /\ \A i \in 1..k : Spent(i) <= budget
  BY <1>5, <1>6 DEF Affords
<1>8. CASE k = 0
  BY <1>1, <1>6, <1>8
<1>9. CASE k # 0
  <2>1. k \in 1..k
    BY <1>2, <1>7, <1>9
  <2> QED BY <1>6, <1>7, <2>1
<1> QED BY <1>8, <1>9

---------------------------------------------------------------------------
(* The inductive invariant of the search, and the turns that only scan.    *)

CallsAreSound == Sound(model, calls) /\ entries = EntriesOf(calls)

\* The stack holds the calls that are linearized, each once.
StackIsDone == Listed(stack) /\ IsOrder(calls, Order) /\ done = Held(Order)

ListIsSpliced == Splices(entries, calls, list, Order)

\* Neither the scan nor a call on the stack came after the completion of a
\* call that was not linearized before it.
ScanIsEarly ==
    /\ entry \in Linked(entries, done) \ {0}
    /\ \A q \in Required(calls) \ done : entry <= CompletedAt(entries, q)
    /\ Early(entries, calls, Order)
    /\ open = Cardinality(Required(calls) \ done)

WorkIsLimited == IsFiniteSet(memo) /\ WithinLimits

\* The states are those of the order, and each call on the stack is kept with
\* the states before it.
StatesAreLeft ==
    /\ AreLeftBy(model, calls, states, Order)
    /\ \A k \in 1..Len(stack) : AreLeftBy(model, calls, stack[k].states, Begun(Order, k - 1))

FrontierIsLeft ==
    /\ IsOrder(calls, linearized) /\ Early(entries, calls, linearized)
    /\ AreLeftBy(model, calls, frontier, linearized)
    /\ Len(stack) <= Len(linearized)
    /\ \A taken \in memo :
           Cardinality(taken.required) + Cardinality(taken.optional) <= Len(linearized)
    /\ atFrontier => linearized = Order /\ frontier = states

CandidatesAreRejected ==
    /\ Listed(candidates)
    /\ \A i \in 1..Len(candidates) : Rejected(model, calls, Held(linearized), frontier, candidates[i])

SearchInv ==
    /\ CallsAreSound
    /\ StackIsDone
    /\ ListIsSpliced
    /\ ScanIsEarly
    /\ WorkIsLimited
    /\ StatesAreLeft
    /\ FrontierIsLeft
    /\ CandidatesAreRejected

Given == model \in ModelNames /\ budget \in Nat /\ memoLimit \in Nat

\* The order of a stack.
LEMMA OrderOfStack ==
    ASSUME NEW s, Listed(s), NEW o, o = [i \in DOMAIN s |-> s[i].position]
    PROVE  /\ Listed(o) /\ Len(o) = Len(s) /\ Len(s) \in Nat
           /\ \A i \in 1..Len(s) : o[i] = s[i].position
<1>1. Len(s) \in Nat /\ DOMAIN s = 1..Len(s)
  BY ListedFacts
<1>2. o = [i \in 1..Len(s) |-> o[i]] /\ \A i \in 1..Len(s) : o[i] = s[i].position
  BY <1>1
<1> QED BY <1>1, <1>2, ListedFunction

\* The invariant does not depend on how the search ended, nor on its steps
\* but for the budget.
LEMMA SearchInvFrame ==
    ASSUME SearchInv, UNCHANGED <<given, configuration, record, entry, memo>>, steps' <= budget
    PROVE  SearchInv'
<1> USE DEF given, configuration, record, SearchInv
<1>1. CallsAreSound'
  BY DEF CallsAreSound
<1>2. Order' = Order
  BY DEF Order
<1>3. StackIsDone'
  BY <1>2 DEF StackIsDone
<1>4. ListIsSpliced'
  BY <1>2 DEF ListIsSpliced
<1>5. ScanIsEarly'
  BY <1>2 DEF ScanIsEarly
<1>6. WorkIsLimited'
  BY DEF WorkIsLimited, WithinLimits
<1>7. StatesAreLeft'
  BY <1>2 DEF StatesAreLeft
<1>8. FrontierIsLeft'
  BY <1>2 DEF FrontierIsLeft
<1>9. CandidatesAreRejected'
  BY DEF CandidatesAreRejected
<1> QED BY <1>1, <1>3, <1>4, <1>5, <1>6, <1>7, <1>8, <1>9

\* Where the scan stands while a known call is left.
LEMMA ScanFacts ==
    ASSUME SearchInv, Scanning
    PROVE  /\ entry \in DOMAIN entries /\ entries[entry].position \in DOMAIN calls \ done
           /\ entries[entry].invokes => entry = InvokedAt(entries, entries[entry].position)
           /\ \E q \in Required(calls) \ done : TRUE
           /\ entries[entry].invokes =>
                  \A q \in Required(calls) \ done : entry < CompletedAt(entries, q)
<1>1. Sound(model, calls) /\ entries = EntriesOf(calls)
  BY DEF SearchInv, CallsAreSound
<1>2. Required(calls) \ done # {}
  <2>1. open = Cardinality(Required(calls) \ done) /\ open > 0
    BY DEF SearchInv, ScanIsEarly, Scanning
  <2>2. PICK left : left = Required(calls) \ done
    OBVIOUS
  <2>3. left # {}
    BY <2>1, <2>2, FS_EmptySet
  <2> QED BY <2>2, <2>3
<1>3. PICK q \in Required(calls) \ done : TRUE
  BY <1>2
<1>4. /\ Len(entries) \in Nat /\ DOMAIN entries = 1..Len(entries)
      /\ CompletedAt(entries, q) \in DOMAIN entries
  BY <1>1, <1>3, EntryFacts
<1>5. entry \in Linked(entries, done) \ {0} /\ entry <= CompletedAt(entries, q)
  BY <1>3 DEF SearchInv, ScanIsEarly
<1>6. entry \in DOMAIN entries /\ entries[entry].position \notin done
  <2>1. entry # Len(entries) + 1
    BY <1>4, <1>5
  <2> QED BY <1>5, <2>1 DEF Linked
<1>7. /\ entries[entry].position \in DOMAIN calls
      /\ entries[entry].invokes => entry = InvokedAt(entries, entries[entry].position)
  BY <1>1, <1>6, EntryFacts
<1>8. ASSUME entries[entry].invokes, NEW r \in Required(calls) \ done
      PROVE  entry < CompletedAt(entries, r)
  <2>1. /\ CompletedAt(entries, r) \in DOMAIN entries /\ ~entries[CompletedAt(entries, r)].invokes
    BY <1>1, EntryFacts
  <2>2. entry <= CompletedAt(entries, r)
    BY DEF SearchInv, ScanIsEarly
  <2>3. entry # CompletedAt(entries, r)
    BY <1>8, <2>1
  <2> QED BY <1>4, <1>6, <2>1, <2>2, <2>3
<1> QED BY <1>2, <1>6, <1>7, <1>8

\* The completion of a required call that is not linearized is in the list.
LEMMA CompletionsAreLinked ==
    ASSUME NEW name, NEW cs, NEW es, Sound(name, cs), es = EntriesOf(cs), NEW set,
           NEW q \in Required(cs) \ set
    PROVE  CompletedAt(es, q) \in Linked(es, set)
  BY EntryFacts DEF Linked

\* The scan goes on from a member of the list that no completion precedes.
LEMMA ScanGoesOn ==
    ASSUME NEW name, NEW cs, NEW es, Sound(name, cs), es = EntriesOf(cs), NEW o,
           NEW l, Splices(es, cs, l, o), NEW e \in Linked(es, Held(o)), e # Len(es) + 1,
           \A q \in Required(cs) \ Held(o) : e < CompletedAt(es, q)
    PROVE  /\ l.next[e] \in Linked(es, Held(o)) \ {0}
           /\ \A q \in Required(cs) \ Held(o) : l.next[e] <= CompletedAt(es, q)
<1>1. PICK S, f : S = Linked(es, Held(o)) /\ f = l.next[e]
  OBVIOUS
<1>2. IsNext(S, e, f) /\ e \in Nat
  <2>1. Links(l, S, Len(es) + 1)
    BY <1>1 DEF Splices
  <2> QED BY <1>1, <2>1 DEF Links
<1>3. f \in S \ {0}
  BY <1>2 DEF IsNext
<1>4. \A q \in Required(cs) \ Held(o) : f <= CompletedAt(es, q)
  BY <1>1, <1>2, CompletionsAreLinked DEF IsNext
<1> QED BY <1>1, <1>3, <1>4

\* The scan goes on to an entry that no such completion precedes.
LEMMA ScanNext ==
    ASSUME SearchInv, AtCandidate
    PROVE  /\ list.next[entry] \in Linked(entries, done) \ {0}
           /\ \A q \in Required(calls) \ done : list.next[entry] <= CompletedAt(entries, q)
<1>1. /\ Sound(model, calls) /\ entries = EntriesOf(calls) /\ done = Held(Order)
      /\ Splices(entries, calls, list, Order) /\ entry \in Linked(entries, done)
  BY DEF SearchInv, CallsAreSound, StackIsDone, ListIsSpliced, ScanIsEarly
<1>2. /\ entry \in DOMAIN entries
      /\ \A q \in Required(calls) \ done : entry < CompletedAt(entries, q)
  BY ScanFacts DEF AtCandidate
<1>3. entry # Len(entries) + 1
  BY <1>1, <1>2, EntryFacts
<1> QED BY <1>1, <1>2, <1>3, ScanGoesOn

\* Reject keeps the invariant: the candidate is one of the frontier's.
LEMMA RejectSearchInv == SearchInv /\ Given /\ Reject => SearchInv'
<1> SUFFICES ASSUME SearchInv, Given, Reject PROVE SearchInv'
  OBVIOUS
<1> USE DEF given, configuration, ending, Reject
<1>1. CallsAreSound'
  BY DEF SearchInv, CallsAreSound
<1>2. Order' = Order
  BY DEF Order
<1>3. StackIsDone'
  BY <1>2 DEF SearchInv, StackIsDone
<1>4. ListIsSpliced'
  BY <1>2 DEF SearchInv, ListIsSpliced
<1>5. ScanIsEarly'
  <2>1. /\ entry' \in Linked(entries, done) \ {0}
        /\ \A q \in Required(calls) \ done : entry' <= CompletedAt(entries, q)
    BY ScanNext DEF Steps
  <2> QED BY <1>2, <2>1 DEF SearchInv, ScanIsEarly
<1>6. WorkIsLimited'
  <2>1. steps' <= budget
    BY StepsAreAfforded DEF Steps, SearchInv, WorkIsLimited, WithinLimits,
        StatesAreLeft, AreLeftBy
  <2> QED BY <2>1 DEF SearchInv, WorkIsLimited, WithinLimits
<1>7. StatesAreLeft'
  BY <1>2 DEF SearchInv, StatesAreLeft
<1>8. FrontierIsLeft'
  BY <1>2 DEF SearchInv, FrontierIsLeft
<1>9. CandidatesAreRejected'
  <2>1. CASE ~atFrontier
    BY <2>1 DEF SearchInv, CandidatesAreRejected
  <2>2. CASE atFrontier
    <3>1. /\ linearized = Order /\ frontier = states /\ done = Held(Order)
          /\ Sound(model, calls) /\ entries = EntriesOf(calls)
          /\ AreLeftBy(model, calls, states, Order)
      BY <2>2 DEF SearchInv, FrontierIsLeft, StackIsDone, CallsAreSound, StatesAreLeft
    <3>2. PICK p : p = Candidate
      OBVIOUS
    <3>3. /\ p \in DOMAIN calls \ done /\ entry = InvokedAt(entries, p)
          /\ \A q \in Required(calls) \ done : entry < CompletedAt(entries, q)
      BY <3>2, ScanFacts DEF Steps, AtCandidate, Candidate
    <3>4. \A q \in Required(calls) \ done : calls[p].index < calls[q].completion
      BY <3>1, <3>3, EntryFacts
    <3>5. \A k \in 1..Len(states) : StepOf(model, states[k], calls[p].op) = <<>>
      <4>1. calls[p].op.operation \in OperationsOf(model)
        BY <3>1, <3>3 DEF Sound
      <4>2. Listed(states) /\ \A x \in Held(states) : Proper(model, x)
        BY <3>1 DEF AreLeftBy
      <4> QED BY <3>2, <4>1, <4>2, NoStateFollows DEF Given
    <3>6. Rejected(model, calls, Held(linearized), frontier, p)
      BY <3>1, <3>3, <3>4, <3>5 DEF Rejected
    <3>7. candidates' = Append(candidates, p) /\ Listed(candidates)
      BY <2>2, <3>2 DEF SearchInv, CandidatesAreRejected
    <3>8. /\ Listed(candidates') /\ Len(candidates') = Len(candidates) + 1
          /\ candidates'[Len(candidates) + 1] = p /\ Len(candidates) \in Nat
          /\ \A i \in 1..Len(candidates) : candidates'[i] = candidates[i]
      BY <3>7, ListedAppend, ListedFacts
    <3>9. ASSUME NEW i \in 1..Len(candidates')
          PROVE  Rejected(model, calls, Held(linearized), frontier, candidates'[i])
      <4>1. CASE i = Len(candidates) + 1
        BY <3>6, <3>8, <4>1
      <4>2. CASE i # Len(candidates) + 1
        <5>1. i \in 1..Len(candidates)
          BY <3>8, <4>2
        <5> QED BY <3>8, <5>1 DEF SearchInv, CandidatesAreRejected
      <4> QED BY <4>1, <4>2
    <3> QED BY <3>8, <3>9 DEF CandidatesAreRejected
  <2> QED BY <2>1, <2>2
<1> QED BY <1>1, <1>3, <1>4, <1>5, <1>6, <1>7, <1>8, <1>9 DEF SearchInv

\* Skip keeps the invariant: only the scan moves.
LEMMA SkipSearchInv == SearchInv /\ Skip => SearchInv'
<1> SUFFICES ASSUME SearchInv, Skip PROVE SearchInv'
  OBVIOUS
<1> USE DEF given, configuration, ending, record, Skip
<1>1. CallsAreSound'
  BY DEF SearchInv, CallsAreSound
<1>2. Order' = Order
  BY DEF Order
<1>3. StackIsDone'
  BY <1>2 DEF SearchInv, StackIsDone
<1>4. ListIsSpliced'
  BY <1>2 DEF SearchInv, ListIsSpliced
<1>5. ScanIsEarly'
  <2>1. /\ entry' \in Linked(entries, done) \ {0}
        /\ \A q \in Required(calls) \ done : entry' <= CompletedAt(entries, q)
    BY ScanNext DEF Steps
  <2> QED BY <1>2, <2>1 DEF SearchInv, ScanIsEarly
<1>6. WorkIsLimited'
  <2>1. steps' <= budget
    BY StepsAreAfforded DEF Steps, SearchInv, WorkIsLimited, WithinLimits,
        StatesAreLeft, AreLeftBy
  <2> QED BY <2>1 DEF SearchInv, WorkIsLimited, WithinLimits
<1>7. StatesAreLeft'
  BY <1>2 DEF SearchInv, StatesAreLeft
<1>8. FrontierIsLeft'
  BY <1>2 DEF SearchInv, FrontierIsLeft
<1>9. CandidatesAreRejected'
  BY DEF SearchInv, CandidatesAreRejected
<1> QED BY <1>1, <1>3, <1>4, <1>5, <1>6, <1>7, <1>8, <1>9 DEF SearchInv

---------------------------------------------------------------------------
(* Backtrack.                                                              *)

\* An order that grows begins as before.
LEMMA BegunGrows ==
    ASSUME NEW o, NEW p, NEW o2, AddsCall(o, p, o2), o = [i \in 1..Len(o) |-> o[i]]
    PROVE  Begun(o2, Len(o)) = o /\ \A k \in 0..Len(o) : Begun(o2, k) = Begun(o, k)
<1>1. Len(o) \in Nat /\ \A i \in 1..Len(o) : o2[i] = o[i]
  BY AddsCallFacts DEF AddsCall
<1>2. ASSUME NEW k \in 0..Len(o) PROVE Begun(o2, k) = Begun(o, k)
  <2>1. \A i \in 1..k : i \in 1..Len(o)
    BY <1>1
  <2> QED BY <1>1, <2>1 DEF Begun
<1>3. Begun(o, Len(o)) = o /\ Len(o) \in 0..Len(o)
  BY <1>1 DEF Begun
<1> QED BY <1>2, <1>3

\* An order is its own beginning of full length.
LEMMA OrderIsBegun ==
    ASSUME NEW s, Listed(s), NEW o, o = [i \in DOMAIN s |-> s[i].position]
    PROVE  o = [i \in 1..Len(o) |-> o[i]]
<1>1. Len(o) = Len(s) /\ DOMAIN s = 1..Len(s)
  BY OrderOfStack, ListedFacts
<1> QED BY <1>1

\* The order of a stack grows with it.
LEMMA StackAddsCall ==
    ASSUME NEW s, Listed(s), NEW t, Listed(t), Len(t) = Len(s) + 1, \A i \in 1..Len(s) : t[i] = s[i],
           NEW o, o = [i \in DOMAIN s |-> s[i].position],
           NEW o2, o2 = [i \in DOMAIN t |-> t[i].position]
    PROVE  AddsCall(o, t[Len(s) + 1].position, o2)
<1>1. /\ Listed(o) /\ Len(o) = Len(s) /\ Len(s) \in Nat
      /\ \A i \in 1..Len(s) : o[i] = s[i].position
  BY OrderOfStack
<1>2. /\ Listed(o2) /\ Len(o2) = Len(t)
      /\ \A i \in 1..Len(t) : o2[i] = t[i].position
  BY OrderOfStack
<1>3. Len(s) + 1 \in 1..Len(t) /\ \A i \in 1..Len(s) : i \in 1..Len(t)
  BY <1>1
<1>4. o2[Len(s) + 1] = t[Len(s) + 1].position /\ \A i \in 1..Len(s) : o2[i] = o[i]
  BY <1>1, <1>2, <1>3, Zenon
<1> QED BY <1>1, <1>2, <1>4 DEF AddsCall

\* The order of a popped stack has its last call less.
LEMMA PopTakesCall ==
    ASSUME NEW t, Listed(t), t # <<>>, NEW s, s = Front(t),
           NEW o, o = [i \in DOMAIN s |-> s[i].position],
           NEW o2, o2 = [i \in DOMAIN t |-> t[i].position]
    PROVE  /\ AddsCall(o, Last(t).position, o2)
           /\ Listed(s) /\ Len(t) = Len(s) + 1 /\ t[Len(s) + 1] = Last(t) /\ \A i \in 1..Len(s) : t[i] = s[i]
<1>1. /\ Listed(s) /\ Len(s) = Len(t) - 1 /\ \A i \in 1..(Len(t) - 1) : s[i] = t[i]
      /\ Last(t) = t[Len(t)] /\ Len(t) \in Nat \ {0}
  BY ListedFront
<1>2. Len(t) = Len(s) + 1 /\ Len(t) - 1 = Len(s)
  BY <1>1
<1>3. t[Len(s) + 1] = Last(t) /\ \A i \in 1..Len(s) : t[i] = s[i]
  BY <1>1, <1>2, Zenon
<1>4. AddsCall(o, t[Len(s) + 1].position, o2)
  BY <1>1, <1>2, <1>3, StackAddsCall
<1> QED BY <1>1, <1>2, <1>3, <1>4

\* The calls that are left to linearize, without a call and with it.
LEMMA RequiredLeft ==
    ASSUME NEW cs, Listed(cs), NEW p, NEW set, p \notin set
    PROVE  /\ Cardinality(Required(cs) \ set) \in Nat
           /\ Cardinality(Required(cs) \ (set \cup {p})) \in Nat
           /\ p \in Required(cs) =>
                  Cardinality(Required(cs) \ set) = Cardinality(Required(cs) \ (set \cup {p})) + 1
           /\ p \notin Required(cs) =>
                  Cardinality(Required(cs) \ set) = Cardinality(Required(cs) \ (set \cup {p}))
<1>1. PICK more, less : more = Required(cs) \ set /\ less = Required(cs) \ (set \cup {p})
  OBVIOUS
<1>2. IsFiniteSet(more) /\ IsFiniteSet(less)
  <2>1. IsFiniteSet(Required(cs)) /\ more \subseteq Required(cs) /\ less \subseteq Required(cs)
    BY <1>1, RequiredAre
  <2> QED BY <2>1, FS_Subset
<1>3. Cardinality(more) \in Nat /\ Cardinality(less) \in Nat
  BY <1>2, FS_CardinalityType
<1>4. p \in Required(cs) => more = less \cup {p} /\ p \notin less
  BY <1>1
<1>5. p \notin Required(cs) => more = less
  BY <1>1
<1>6. p \in Required(cs) => Cardinality(more) = Cardinality(less) + 1
  BY <1>2, <1>4, FS_AddElement
<1> QED BY <1>1, <1>3, <1>5, <1>6

\* Backtrack keeps the invariant: the list, the states and the count of open
\* calls are those of the order before the call that it undoes.
LEMMA BacktrackSearchInv == SearchInv /\ Backtrack => SearchInv'
<1> SUFFICES ASSUME SearchInv, Backtrack PROVE SearchInv'
  OBVIOUS
<1>1. PICK p, o, o2, n : /\ p = Last(stack).position /\ n = Len(stack')
                         /\ o = [i \in DOMAIN stack' |-> stack'[i].position]
                         /\ o2 = [i \in DOMAIN stack |-> stack[i].position]
  OBVIOUS
<1>2. Order = o2 /\ Order' = o
  BY <1>1 DEF Order
<1>3. /\ Sound(model, calls) /\ entries = EntriesOf(calls)
      /\ Listed(stack) /\ IsOrder(calls, o2) /\ done = Held(o2)
      /\ Splices(entries, calls, list, o2)
      /\ Early(entries, calls, o2)
      /\ open = Cardinality(Required(calls) \ done)
  BY <1>2 DEF SearchInv, CallsAreSound, StackIsDone, ListIsSpliced, ScanIsEarly
<1>4. /\ stack # <<>> /\ stack' = Front(stack) /\ states' = Last(stack).states
      /\ done' = done \ {p} /\ Unlift(p)
      /\ open' = (IF Known(p) THEN open + 1 ELSE open)
      /\ entry' = list'.next[Invocation(p)]
      /\ ~atFrontier'
      /\ UNCHANGED <<given, linearized, frontier, candidates, memo, steps, ending>>
  BY <1>1 DEF Backtrack
<1>5. /\ AddsCall(o, p, o2)
      /\ Listed(stack') /\ Len(stack) = n + 1 /\ stack[n + 1] = Last(stack)
      /\ \A i \in 1..n : stack[i] = stack'[i]
  BY <1>1, <1>3, <1>4, PopTakesCall
<1>6. /\ IsOrder(calls, o) /\ p \in DOMAIN calls /\ p \notin Held(o)
      /\ Held(o2) = Held(o) \cup {p} /\ Len(o) \in Nat
  BY <1>3, <1>5, OrderGrows, AddsCallFacts
<1>7. done' = Held(o) /\ UNCHANGED <<model, budget, memoLimit, calls, entries>>
  BY <1>3, <1>4, <1>6 DEF given
<1>8. Known(p) <=> p \in Required(calls)
  BY <1>6 DEF Known, Required
<1>9. Invocation(p) = InvokedAt(entries, p) /\ Completion(p) = CompletedAt(entries, p)
  BY DEF Invocation, Completion, InvokedAt, CompletedAt
<1>10. CallsAreSound'
  BY <1>3, <1>7 DEF CallsAreSound
<1>11. StackIsDone'
  BY <1>2, <1>5, <1>6, <1>7 DEF StackIsDone
<1>12. Splices(entries, calls, list', o)
  <2>1. PICK m : m = IF p \in Required(calls) THEN Relink(list, CompletedAt(entries, p)) ELSE list
    OBVIOUS
  <2>2. list' = Relink(m, InvokedAt(entries, p))
    BY <1>4, <1>8, <1>9, <2>1 DEF Unlift
  <2> QED BY <1>3, <1>5, <2>1, <2>2, UnliftSplices
<1>13. ListIsSpliced'
  BY <1>2, <1>7, <1>12 DEF ListIsSpliced
<1>14. ScanIsEarly'
  <2>1. /\ Early(entries, calls, o)
        /\ \A q \in Required(calls) : q \notin Held(o) => InvokedAt(entries, p) < CompletedAt(entries, q)
    BY <1>3, <1>5, EarlyGrows
  <2>2. PICK e : e = InvokedAt(entries, p)
    OBVIOUS
  <2>3. e \in Linked(entries, Held(o)) /\ e # Len(entries) + 1
    BY <1>3, <1>6, <2>2, EntryFacts DEF Linked
  <2>4. \A q \in Required(calls) \ Held(o) : e < CompletedAt(entries, q)
    BY <2>1, <2>2
  <2>5. /\ list'.next[e] \in Linked(entries, Held(o)) \ {0}
        /\ \A q \in Required(calls) \ Held(o) : list'.next[e] <= CompletedAt(entries, q)
    BY <1>3, <1>12, <2>3, <2>4, ScanGoesOn
  <2>6. open' = Cardinality(Required(calls) \ Held(o))
    <3>1. Listed(calls)
      BY <1>3 DEF Sound
    <3> QED BY <1>3, <1>4, <1>6, <1>8, <3>1, RequiredLeft
  <2>7. entry' = list'.next[e]
    BY <1>4, <1>9, <2>2
  <2> QED BY <1>2, <1>7, <2>1, <2>5, <2>6, <2>7 DEF ScanIsEarly
<1>15. WorkIsLimited'
  BY <1>4, <1>7 DEF SearchInv, WorkIsLimited, WithinLimits
<1>16. StatesAreLeft'
  <2>1. Len(o) = n /\ n \in Nat /\ o = [i \in 1..Len(o) |-> o[i]]
    BY <1>1, <1>5, OrderOfStack, OrderIsBegun
  <2>2. Begun(o2, n) = o /\ \A k \in 0..n : Begun(o2, k) = Begun(o, k)
    BY <1>5, <2>1, BegunGrows
  <2>3. \A k \in 1..(n + 1) : AreLeftBy(model, calls, stack[k].states, Begun(o2, k - 1))
    BY <1>2, <1>5 DEF SearchInv, StatesAreLeft
  <2>4. AreLeftBy(model, calls, states', o)
    <3>1. n + 1 \in 1..(n + 1) /\ (n + 1) - 1 = n
      BY <2>1
    <3>2. AreLeftBy(model, calls, stack[n + 1].states, Begun(o2, (n + 1) - 1))
      BY <2>3, <3>1
    <3> QED BY <1>4, <1>5, <2>2, <3>1, <3>2, Zenon
  <2>5. ASSUME NEW k \in 1..n PROVE AreLeftBy(model, calls, stack'[k].states, Begun(o, k - 1))
    <3>1. k \in 1..(n + 1) /\ k - 1 \in 0..n
      BY <2>1
    <3>2. stack[k] = stack'[k] /\ Begun(o2, k - 1) = Begun(o, k - 1)
      BY <1>5, <2>2, <3>1
    <3>3. AreLeftBy(model, calls, stack[k].states, Begun(o2, k - 1))
      BY <2>3, <3>1
    <3> QED BY <3>2, <3>3, Zenon
  <2> QED BY <1>1, <1>2, <1>7, <2>4, <2>5 DEF StatesAreLeft
<1>17. FrontierIsLeft'
  <2>1. Len(linearized) \in Nat
    BY ListedFacts DEF SearchInv, FrontierIsLeft, IsOrder
  <2>2. Len(stack') <= Len(linearized')
    <3>1. Len(stack) <= Len(linearized) /\ n \in Nat
      BY <1>1, <1>5, ListedFacts DEF SearchInv, FrontierIsLeft
    <3> QED BY <1>1, <1>4, <1>5, <2>1, <3>1
  <2> QED BY <1>4, <1>7, <2>2 DEF SearchInv, FrontierIsLeft
<1>18. CandidatesAreRejected'
  BY <1>4, <1>7 DEF SearchInv, CandidatesAreRejected
<1> QED BY <1>10, <1>11, <1>13, <1>14, <1>15, <1>16, <1>17, <1>18 DEF SearchInv

\* A configuration is as large as its order is long.
LEMMA OrderSize ==
    ASSUME NEW cs, NEW o, IsOrder(cs, o), Listed(cs)
    PROVE  Cardinality(Held(o) \cap Required(cs)) + Cardinality(Held(o) \ Required(cs)) = Len(o)
<1>1. IsInjective(o) /\ Listed(o) /\ Len(o) \in Nat /\ DOMAIN o = 1..Len(o)
  BY ListedFacts DEF IsOrder, IsInjective
<1>2. Len(o) = Cardinality(Held(o))
  BY <1>1, InjectiveLength
<1>3. PICK H, A, B : H = Held(o) /\ A = Held(o) \cap Required(cs) /\ B = Held(o) \ Required(cs)
  OBVIOUS
<1>4. IsFiniteSet(H)
  <2>1. H \subseteq DOMAIN cs
    BY <1>1, <1>3, ListedFacts DEF IsOrder
  <2> QED BY <2>1, RequiredAre, FS_Subset
<1>5. A \subseteq H /\ B \subseteq H /\ A \cup B = H /\ A \cap B = {}
  BY <1>3
<1>6. IsFiniteSet(A) /\ IsFiniteSet(B)
  BY <1>4, <1>5, FS_Subset
<1>7. Cardinality(A \cup B) = Cardinality(A) + Cardinality(B) - Cardinality(A \cap B)
  BY <1>6, FS_Union
<1>8. Cardinality(A \cap B) = 0
  BY <1>5, FS_EmptySet
<1>9. Cardinality(A) \in Nat /\ Cardinality(B) \in Nat
  BY <1>6, FS_CardinalityType
<1> QED BY <1>2, <1>3, <1>5, <1>7, <1>8, <1>9

---------------------------------------------------------------------------
(* Linearize, and every other turn; the start of a search.                 *)

\* A product of integers is one.
LEMMA ProductIsInt == \A a, b \in Int : a * b \in Int
  OBVIOUS

\* The memo has room for one more configuration.
LEMMA MemoStaysLimited ==
    ASSUME IsFiniteSet(memo), Cardinality(memo) * Len(calls) <= memoLimit,
           ~Full, memoLimit \in Nat, Len(calls) \in Nat, NEW x
    PROVE  IsFiniteSet(memo \cup {x}) /\ Cardinality(memo \cup {x}) * Len(calls) <= memoLimit
<1>1. PICK c : c = Cardinality(memo)
  OBVIOUS
<1>2. c \in Nat
  BY <1>1, FS_CardinalityType
<1>3. PICK d : d = (c + 1) * Len(calls)
  OBVIOUS
<1>4. d \in Int
  BY <1>2, <1>3, ProductIsInt
<1>5. ~(d > memoLimit)
  BY <1>1, <1>3 DEF Full
<1>6. d <= memoLimit
  BY <1>4, <1>5
<1>7. IsFiniteSet(memo \cup {x}) /\ (Cardinality(memo \cup {x}) = c \/ Cardinality(memo \cup {x}) = c + 1)
  BY <1>1, FS_AddElement
<1> QED BY <1>1, <1>3, <1>6, <1>7

\* Linearize keeps the invariant: it takes one more call, which no open
\* completion precedes, to a configuration that the memo has room for.
LEMMA LinearizeSearchInv == SearchInv /\ Given /\ Linearize => SearchInv'
<1> SUFFICES ASSUME SearchInv, Given, Linearize PROVE SearchInv'
  OBVIOUS
<1>1. PICK p, f, o, o2, n : /\ p = Candidate /\ n = Len(stack) /\ f = Following(calls[p].op)
                            /\ o = [i \in DOMAIN stack |-> stack[i].position]
                            /\ o2 = [i \in DOMAIN stack' |-> stack'[i].position]
  OBVIOUS
<1>2. Order = o /\ Order' = o2
  BY <1>1 DEF Order
<1>3. /\ Sound(model, calls) /\ entries = EntriesOf(calls)
      /\ Listed(stack) /\ IsOrder(calls, o) /\ done = Held(o)
      /\ Splices(entries, calls, list, o)
      /\ Early(entries, calls, o)
      /\ open = Cardinality(Required(calls) \ done)
      /\ AreLeftBy(model, calls, states, o)
  BY <1>2 DEF SearchInv, CallsAreSound, StackIsDone, ListIsSpliced, ScanIsEarly,
      StatesAreLeft
<1>4. /\ f # <<>> /\ Steps /\ ~Full
      /\ memo' = memo \cup {[required |-> RequiredIn(done \cup {p}),
                             optional |-> OptionalIn(done \cup {p}),
                             states   |-> f]}
      /\ stack' = Append(stack, [position |-> p, states |-> states])
      /\ done' = done \cup {p} /\ states' = f /\ Lift(p)
      /\ open' = (IF Known(p) THEN open - 1 ELSE open)
      /\ entry' = list'.next[0]
      /\ UNCHANGED <<given, ending>>
  BY <1>1 DEF Linearize
<1>5. /\ atFrontier' <=> Len(stack') > Len(linearized)
      /\ atFrontier' => linearized' = o2 /\ frontier' = f /\ candidates' = <<>>
      /\ ~atFrontier' => UNCHANGED <<linearized, frontier, candidates>>
  BY <1>1 DEF Linearize, Extends
<1>6. /\ p \in DOMAIN calls \ done /\ entry = InvokedAt(entries, p)
      /\ \A q \in Required(calls) \ done : entry < CompletedAt(entries, q)
  BY <1>1, <1>4, ScanFacts DEF Steps, AtCandidate, Candidate
<1>7. /\ Listed(stack') /\ Len(stack') = n + 1 /\ n \in Nat
      /\ stack'[n + 1].position = p /\ stack'[n + 1].states = states
      /\ \A i \in 1..n : stack'[i] = stack[i]
  <2>1. PICK e : e = [position |-> p, states |-> states]
    OBVIOUS
  <2>2. stack' = Append(stack, e)
    BY <1>4, <2>1
  <2>3. /\ Listed(stack') /\ Len(stack') = n + 1 /\ stack'[n + 1] = e
        /\ \A i \in 1..n : stack'[i] = stack[i]
    BY <1>1, <1>3, <2>2, ListedAppend
  <2>4. n \in Nat
    BY <1>1, <1>3, ListedFacts
  <2> QED BY <2>1, <2>3, <2>4
<1>8. AddsCall(o, p, o2)
  <2>1. AddsCall(o, stack'[Len(stack) + 1].position, o2)
    BY <1>1, <1>3, <1>7, StackAddsCall
  <2> QED BY <1>1, <1>7, <2>1
<1>9. /\ IsOrder(calls, o2) /\ Held(o2) = Held(o) \cup {p}
  BY <1>3, <1>6, <1>8, OrderGrows, AddsCallFacts
<1>10. done' = Held(o2) /\ UNCHANGED <<model, budget, memoLimit, calls, entries>>
  BY <1>3, <1>4, <1>9 DEF given
<1>11. Known(p) <=> p \in Required(calls)
  BY <1>6 DEF Known, Required
<1>12. Invocation(p) = InvokedAt(entries, p) /\ Completion(p) = CompletedAt(entries, p)
  BY DEF Invocation, Completion, InvokedAt, CompletedAt
<1>13. CallsAreSound'
  BY <1>3, <1>10 DEF CallsAreSound
<1>14. StackIsDone'
  BY <1>2, <1>7, <1>9, <1>10 DEF StackIsDone
<1>15. Splices(entries, calls, list', o2)
  <2>1. PICK m : m = Unlink(list, InvokedAt(entries, p))
    OBVIOUS
  <2>2. list' = IF p \in Required(calls) THEN Unlink(m, CompletedAt(entries, p)) ELSE m
    BY <1>4, <1>11, <1>12, <2>1 DEF Lift
  <2> QED BY <1>3, <1>8, <1>9, <2>1, <2>2, LiftSplices
<1>16. ListIsSpliced'
  BY <1>2, <1>10, <1>15 DEF ListIsSpliced
<1>17. Early(entries, calls, o2)
  BY <1>3, <1>6, <1>8, EarlyGrows
<1>18. ScanIsEarly'
  <2>1. Len(entries) \in Nat /\ \A q \in Required(calls) : CompletedAt(entries, q) \in 1..Len(entries)
    BY <1>3, EntryFacts
  <2>2. 0 \in Linked(entries, Held(o2)) /\ 0 # Len(entries) + 1
    BY <2>1 DEF Linked
  <2>3. \A q \in Required(calls) \ Held(o2) : 0 < CompletedAt(entries, q)
    BY <2>1
  <2>4. /\ list'.next[0] \in Linked(entries, Held(o2)) \ {0}
        /\ \A q \in Required(calls) \ Held(o2) : list'.next[0] <= CompletedAt(entries, q)
    BY <1>3, <1>15, <2>2, <2>3, ScanGoesOn
  <2>5. open' = Cardinality(Required(calls) \ Held(o2))
    <3>1. Listed(calls)
      BY <1>3 DEF Sound
    <3> QED BY <1>3, <1>4, <1>6, <1>9, <1>11, <3>1, RequiredLeft
  <2> QED BY <1>2, <1>4, <1>10, <1>17, <2>4, <2>5 DEF ScanIsEarly
<1>19. WorkIsLimited'
  <2>1. steps' <= budget
    BY <1>4, StepsAreAfforded DEF Steps, SearchInv, WorkIsLimited, WithinLimits,
        StatesAreLeft, AreLeftBy
  <2>2. Len(calls) \in Nat
    BY <1>3, ListedFacts DEF Sound
  <2>3. IsFiniteSet(memo') /\ Cardinality(memo') * Len(calls) <= memoLimit
    BY <1>4, <2>2, MemoStaysLimited DEF Given, SearchInv, WorkIsLimited, WithinLimits
  <2> QED BY <1>10, <2>1, <2>3 DEF WorkIsLimited, WithinLimits
<1>20. AreLeftBy(model, calls, f, o2)
  <2>1. calls[p].op.operation \in OperationsOf(model)
    BY <1>3, <1>6 DEF Sound
  <2> QED BY <1>1, <1>3, <1>4, <1>8, <2>1, StatesAfterCall DEF Given
<1>21. StatesAreLeft'
  <2>1. Len(o) = n /\ o = [i \in 1..Len(o) |-> o[i]]
    BY <1>1, <1>3, OrderOfStack, OrderIsBegun
  <2>2. Begun(o2, n) = o /\ \A k \in 0..n : Begun(o2, k) = Begun(o, k)
    BY <1>8, <2>1, BegunGrows
  <2>3. \A k \in 1..n : AreLeftBy(model, calls, stack[k].states, Begun(o, k - 1))
    BY <1>1, <1>2 DEF SearchInv, StatesAreLeft
  <2>4. ASSUME NEW k \in 1..(n + 1) PROVE AreLeftBy(model, calls, stack'[k].states, Begun(o2, k - 1))
    <3>1. CASE k = n + 1
      <4>1. k - 1 = n
        BY <1>7, <3>1
      <4>2. Begun(o2, k - 1) = o /\ stack'[k].states = states
        BY <1>7, <2>2, <3>1, <4>1, Zenon
      <4> QED BY <1>3, <4>2
    <3>2. CASE k # n + 1
      <4>1. k \in 1..n /\ k - 1 \in 0..n
        BY <1>7, <3>2
      <4>2. stack'[k] = stack[k] /\ Begun(o2, k - 1) = Begun(o, k - 1)
        BY <1>7, <2>2, <4>1
      <4>3. AreLeftBy(model, calls, stack[k].states, Begun(o, k - 1))
        BY <2>3, <4>1
      <4> QED BY <4>2, <4>3, Zenon
    <3> QED BY <3>1, <3>2
  <2> QED BY <1>2, <1>4, <1>7, <1>10, <1>20, <2>4 DEF StatesAreLeft
<1>22. \A taken \in memo' :
           \/ taken \in memo
           \/ Cardinality(taken.required) + Cardinality(taken.optional) = Len(stack')
  <2>1. /\ RequiredIn(done \cup {p}) = Held(o2) \cap Required(calls)
        /\ OptionalIn(done \cup {p}) = Held(o2) \ Required(calls)
    BY <1>3, <1>9 DEF RequiredIn, OptionalIn
  <2>2. Cardinality(Held(o2) \cap Required(calls)) + Cardinality(Held(o2) \ Required(calls)) = Len(stack')
    <3>1. Len(o2) = Len(stack') /\ Listed(calls)
      BY <1>1, <1>3, <1>7, OrderOfStack DEF Sound
    <3> QED BY <1>9, <3>1, OrderSize
  <2> SUFFICES ASSUME NEW taken \in memo', taken \notin memo
               PROVE  Cardinality(taken.required) + Cardinality(taken.optional) = Len(stack')
    OBVIOUS
  <2>3. /\ taken.required = RequiredIn(done \cup {p})
        /\ taken.optional = OptionalIn(done \cup {p})
    BY <1>4
  <2> QED BY <2>1, <2>2, <2>3
<1>23. /\ FrontierIsLeft /\ Len(linearized) \in Nat
  BY ListedFacts DEF SearchInv, FrontierIsLeft, IsOrder
<1>24. FrontierIsLeft'
  <2>1. CASE atFrontier'
    <3>1. Len(o2) = Len(stack')
      BY <1>1, <1>7, OrderOfStack
    <3>2. Len(linearized) <= Len(linearized') /\ Len(stack') <= Len(linearized') /\ Len(linearized') = Len(stack')
      BY <1>5, <1>7, <1>23, <2>1, <3>1
    <3>3. \A taken \in memo' :
              Cardinality(taken.required) + Cardinality(taken.optional) <= Len(linearized')
      <4> SUFFICES ASSUME NEW taken \in memo'
                   PROVE  Cardinality(taken.required) + Cardinality(taken.optional) <= Len(linearized')
        OBVIOUS
      <4>1. PICK c : c = Cardinality(taken.required) + Cardinality(taken.optional)
        OBVIOUS
      <4>2. c = Len(linearized') \/ c <= Len(linearized)
        BY <1>22, <1>23, <3>2, <4>1 DEF FrontierIsLeft
      <4>3. Len(linearized') \in Nat
        BY <1>7, <3>2
      <4> QED BY <1>23, <3>2, <4>1, <4>2, <4>3
    <3> QED BY <1>2, <1>4, <1>5, <1>9, <1>10, <1>17, <1>20, <2>1, <3>2, <3>3
          DEF FrontierIsLeft
  <2>2. CASE ~atFrontier'
    <3>1. UNCHANGED <<linearized, frontier, candidates>> /\ Len(stack') <= Len(linearized)
      BY <1>5, <1>7, <1>23, <2>2
    <3>2. \A taken \in memo' :
              Cardinality(taken.required) + Cardinality(taken.optional) <= Len(linearized)
      BY <1>22, <1>23, <3>1 DEF FrontierIsLeft
    <3> QED BY <1>10, <1>23, <2>2, <3>1, <3>2 DEF FrontierIsLeft
  <2> QED BY <2>1, <2>2
<1>25. CandidatesAreRejected'
  <2>1. CASE atFrontier'
    <3>1. candidates' = <<>> /\ Listed(<<>>) /\ Len(<<>>) = 0
      BY <1>5, <2>1, OneState
    <3> QED BY <3>1 DEF CandidatesAreRejected
  <2>2. CASE ~atFrontier'
    BY <1>5, <1>10, <2>2 DEF SearchInv, CandidatesAreRejected
  <2> QED BY <2>1, <2>2
<1> QED BY <1>13, <1>14, <1>16, <1>18, <1>19, <1>21, <1>24, <1>25 DEF SearchInv

\* Every turn of the search keeps the invariant.
LEMMA SearchNextInv == SearchInv /\ Given /\ SearchNext => SearchInv'
<1> SUFFICES ASSUME SearchInv, Given, SearchNext PROVE SearchInv'
  OBVIOUS
<1>1. steps <= budget
  BY DEF SearchInv, WorkIsLimited, WithinLimits
<1>2. Spent(Afforded) <= budget
  BY <1>1, StepsAreAfforded DEF SearchInv, StatesAreLeft, AreLeftBy
<1>3. CASE Pass
  BY <1>1, <1>3, SearchInvFrame DEF Pass
<1>4. CASE Violate
  BY <1>1, <1>4, SearchInvFrame DEF Violate
<1>5. CASE Backtrack
  BY <1>5, BacktrackSearchInv
<1>6. CASE OverBudget
  BY <1>2, <1>6, SearchInvFrame DEF OverBudget, Stop
<1>7. CASE Reject
  BY <1>7, RejectSearchInv
<1>8. CASE Skip
  BY <1>8, SkipSearchInv
<1>9. CASE OverMemo
  BY <1>2, <1>9, SearchInvFrame DEF OverMemo, Stop, Steps
<1>10. CASE Linearize
  BY <1>10, LinearizeSearchInv
<1> QED BY <1>3, <1>4, <1>5, <1>6, <1>7, <1>8, <1>9, <1>10 DEF SearchNext

\* A search starts with the whole list, at its first entry.
LEMMA StartSearchInv ==
    ASSUME Given, NEW cs, Sound(model, cs), Start(cs), UNCHANGED <<model, budget, memoLimit>>
    PROVE  SearchInv'
<1>1. PICK es, t, l, x : /\ es = EntriesOf(cs) /\ t = Len(cs) + Cardinality(Required(cs)) + 1
                         /\ l = [next |-> [e \in 0..t |-> e + 1], prev |-> [e \in 0..t |-> e - 1]]
                         /\ x = InitOf(model)
  OBVIOUS
<1>2. /\ calls' = cs /\ entries' = es /\ list' = l /\ entry' = 1 /\ open' = Cardinality(Required(cs))
      /\ done' = {} /\ states' = <<x>> /\ stack' = <<>> /\ memo' = {} /\ steps' = 0
      /\ linearized' = <<>> /\ frontier' = <<x>> /\ candidates' = <<>> /\ atFrontier'
  BY <1>1 DEF Start
<1>3. /\ Len(es) = Len(cs) + Cardinality(Required(cs)) /\ Len(es) \in Nat /\ t = Len(es) + 1
      /\ DOMAIN es = 1..Len(es)
      /\ \A q \in Required(cs) : CompletedAt(es, q) \in 1..Len(es)
  BY <1>1, EntryFacts
<1>4. Listed(<<>>) /\ Held(<<>>) = {} /\ Len(<<>>) = 0 /\ \A k : k \notin 1..0
  <2>1. Listed(<<>>) /\ Held(<<>>) = {}
    BY OneState
  <2>2. Len(<<>>) = 0 /\ \A k : k \notin 1..0
    OBVIOUS
  <2> QED BY <2>1, <2>2
<1>5. Order' = <<>>
  BY <1>2 DEF Order
<1>6. IsOrder(cs, <<>>) /\ Early(es, cs, <<>>)
  BY <1>4 DEF IsOrder, Early
<1>7. CallsAreSound'
  BY <1>1, <1>2 DEF CallsAreSound
<1>8. StackIsDone'
  BY <1>2, <1>4, <1>5, <1>6 DEF StackIsDone
<1>9. Linked(es, {}) = 0..t
  BY <1>3 DEF Linked
<1>10. Splices(es, cs, l, <<>>)
  <2>1. /\ l = [next |-> l.next, prev |-> l.prev]
        /\ DOMAIN l.next = 0..t /\ DOMAIN l.prev = 0..t
        /\ \A e \in 0..t : l.next[e] = e + 1 /\ l.prev[e] = e - 1
    BY <1>1
  <2>2. t \in Nat /\ 0 \in 0..t /\ t \in 0..t
    BY <1>3
  <2>3. ASSUME NEW e \in (0..t) \ {t} PROVE IsNext(0..t, e, l.next[e])
    BY <2>1, <2>2 DEF IsNext
  <2>4. ASSUME NEW e \in (0..t) \ {0} PROVE IsPrev(0..t, e, l.prev[e])
    BY <2>1, <2>2 DEF IsPrev
  <2>5. Links(l, 0..t, t)
    BY <2>1, <2>2, <2>3, <2>4 DEF Links
  <2> QED BY <1>3, <1>4, <1>9, <2>5 DEF Splices
<1>11. ListIsSpliced'
  BY <1>2, <1>5, <1>10 DEF ListIsSpliced
<1>12. ScanIsEarly'
  <2>1. 1 \in Linked(es, {}) \ {0} /\ Required(cs) \ {} = Required(cs)
    BY <1>3, <1>9
  <2> QED BY <1>2, <1>3, <1>5, <1>6, <2>1 DEF ScanIsEarly
<1>13. WorkIsLimited'
  <2>1. IsFiniteSet({}) /\ Cardinality({}) = 0
    BY FS_EmptySet
  <2>2. Len(cs) \in Nat
    BY ListedFacts DEF Sound
  <2>3. 0 * Len(cs) <= memoLimit /\ 0 <= budget
    BY <2>2 DEF Given
  <2> QED BY <1>2, <2>1, <2>3 DEF WorkIsLimited, WithinLimits
<1>14. AreLeftBy(model, cs, <<x>>, <<>>)
  BY <1>1, <1>4, FirstStates
<1>15. StatesAreLeft'
  BY <1>2, <1>4, <1>5, <1>14 DEF StatesAreLeft
<1>16. FrontierIsLeft'
  BY <1>2, <1>4, <1>5, <1>6, <1>14 DEF FrontierIsLeft
<1>17. CandidatesAreRejected'
  BY <1>2, <1>4 DEF CandidatesAreRejected
<1> QED BY <1>7, <1>8, <1>11, <1>12, <1>13, <1>15, <1>16, <1>17 DEF SearchInv

---------------------------------------------------------------------------
(* The calls of the log, and the parts they are searched in.               *)

\* A log invokes calls of the problem, and completes calls it has invoked.
LogIsSound ==
    /\ Listed(log)
    /\ \A i \in 1..Len(log) :
           /\ log[i].kind = "invoke" => log[i].value \in problem.calls
           /\ log[i].kind # "invoke" => log[i].call \in 0..(i - 2)

PartsAreSound == Listed(parts) /\ \A i \in 1..Len(parts) : Sound(model, parts[i].calls)

ProblemIsGiven ==
    problem \in Problems /\ model = problem.model /\ budget = problem.budget /\ memoLimit = problem.memoLimit

LinInv ==
    /\ ProblemIsGiven
    /\ LogIsSound
    /\ PartsAreSound
    /\ at \in Nat
    /\ outcome # "idle" => SearchInv

\* What the search of a problem is given.
LEMMA GivenIs == LinInv => Given
  BY ProblemsAssumption DEF LinInv, ProblemIsGiven, Given

\* What a call has from the events of its log.
LEMMA CallFacts ==
    ASSUME LogIsSound, NEW i \in 1..Len(log), log[i].kind = "invoke", NEW c, c = CallOf(log, i)
    PROVE  /\ c.index = i - 1 /\ c.op.known \in BOOLEAN
           /\ c.op.operation = log[i].value.operation
           /\ c.op.known =>
                  /\ c.completion \in Nat /\ c.index < c.completion
                  /\ c.completion + 1 \in 1..Len(log)
                  /\ log[c.completion + 1].kind # "invoke"
                  /\ log[c.completion + 1].call = c.index
<1>1. PICK js, j, known : /\ js = EventsOf(log, i - 1) /\ j = CHOOSE k \in js : TRUE
                          /\ known = (js # {} /\ log[j].kind = "ok")
  OBVIOUS
<1>2. /\ c.index = i - 1 /\ c.op.known = known
      /\ c.op.operation = log[i].value.operation
      /\ c.completion = IF js = {} THEN None ELSE j - 1
  BY <1>1 DEF CallOf
<1>3. known \in BOOLEAN /\ (known => js # {})
  BY <1>1
<1>4. ASSUME js # {}
      PROVE  /\ j \in 1..Len(log) /\ log[j].kind # "invoke" /\ log[j].call = i - 1
             /\ i - 1 < j - 1 /\ j - 1 \in Nat /\ (j - 1) + 1 = j
  <2>1. j \in js
    BY <1>1, <1>4
  <2>2. j \in 1..Len(log) /\ log[j].kind # "invoke" /\ log[j].call = i - 1
    BY <1>1, <2>1 DEF EventsOf
  <2>3. log[j].call \in 0..(j - 2)
    BY <2>2 DEF LogIsSound
  <2>4. Len(log) \in Nat
    BY ListedFacts DEF LogIsSound
  <2> QED BY <2>2, <2>3, <2>4
<1>5. CASE js = {}
  BY <1>2, <1>3, <1>5
<1>6. CASE js # {}
  <2>1. c.completion = j - 1 /\ c.completion + 1 = j
    BY <1>2, <1>4, <1>6
  <2> QED BY <1>2, <1>3, <1>4, <1>6, <2>1
<1> QED BY <1>5, <1>6

\* The calls of a log are sound: each has its own invocation, a required one
\* its own completion after it, and the model knows their operations.
LEMMA CallsOfLog ==
    ASSUME LinInv
    PROVE  Sound(model, Calls(log))
<1>1. Len(log) \in Nat /\ LogIsSound
  BY ListedFacts DEF LinInv, LogIsSound
<1>2. Kept(log) \in SUBSET Int /\ IsFiniteSet(Kept(log)) /\ Kept(log) \subseteq 1..Len(log)
  <2>1. Kept(log) \subseteq 1..Len(log)
    BY DEF Kept
  <2>2. IsFiniteSet(1..Len(log)) /\ 1..Len(log) \subseteq Int
    BY <1>1, FS_Interval
  <2> QED BY <2>1, <2>2, FS_Subset
<1>3. PICK order, n, cs : /\ order = Ascending(Kept(log), <) /\ n = Cardinality(Kept(log))
                          /\ cs = Calls(log)
  OBVIOUS
<1>4. /\ n \in Nat /\ DOMAIN order = 1..n
      /\ \A p \in 1..n : order[p] \in Kept(log)
      /\ \A p, q \in 1..n : p < q <=> order[p] < order[q]
  BY <1>2, <1>3, AscendingNumbers
<1>5. \A p \in 1..n : order[p] \in 1..Len(log) /\ log[order[p]].kind = "invoke"
  BY <1>4 DEF Kept
<1>6. \A p, q \in 1..n : order[p] = order[q] => p = q
  BY <1>1, <1>4, <1>5
<1>7. cs = [p \in 1..n |-> CallOf(log, order[p])]
  BY <1>3, <1>4 DEF Calls
<1>8. Listed(cs) /\ DOMAIN cs = 1..n
  <2>1. cs = [p \in 1..n |-> cs[p]]
    BY <1>7
  <2> QED BY <1>4, <1>7, <2>1, ListedFunction
<1>9. ASSUME NEW p \in 1..n
      PROVE  /\ cs[p].index = order[p] - 1 /\ cs[p].op.known \in BOOLEAN
             /\ cs[p].op.operation = log[order[p]].value.operation
             /\ cs[p].op.known =>
                    /\ cs[p].completion \in Nat /\ cs[p].index < cs[p].completion
                    /\ cs[p].completion + 1 \in 1..Len(log)
                    /\ log[cs[p].completion + 1].kind # "invoke"
                    /\ log[cs[p].completion + 1].call = cs[p].index
  <2>1. cs[p] = CallOf(log, order[p])
    BY <1>7
  <2> QED BY <1>1, <1>5, <2>1, CallFacts
<1>10. \A p \in 1..n : cs[p].op.operation \in OperationsOf(model)
  <2> SUFFICES ASSUME NEW p \in 1..n PROVE log[order[p]].value.operation \in OperationsOf(model)
    BY <1>9
  <2>1. log[order[p]].value \in problem.calls
    BY <1>1, <1>5 DEF LogIsSound
  <2> QED BY <2>1, ProblemsAssumption DEF LinInv, ProblemIsGiven
<1>11. \A p, q \in 1..n : cs[p].index = cs[q].index => p = q
  <2> SUFFICES ASSUME NEW p \in 1..n, NEW q \in 1..n, cs[p].index = cs[q].index PROVE p = q
    OBVIOUS
  <2>1. order[p] - 1 = order[q] - 1 /\ order[p] \in Int /\ order[q] \in Int
    BY <1>1, <1>5, <1>9
  <2> QED BY <1>6, <2>1
<1>12. Required(cs) \subseteq 1..n /\ \A p \in Required(cs) : cs[p].op.known
  BY <1>8 DEF Required
<1>13. ASSUME NEW p \in Required(cs)
       PROVE  /\ cs[p].completion \in Nat /\ cs[p].index < cs[p].completion
              /\ \A q \in 1..n : cs[p].completion # cs[q].index
              /\ \A q \in Required(cs) : cs[p].completion = cs[q].completion => p = q
  <2>1. /\ p \in 1..n /\ cs[p].completion \in Nat /\ cs[p].index < cs[p].completion
        /\ log[cs[p].completion + 1].kind # "invoke"
        /\ log[cs[p].completion + 1].call = cs[p].index
    BY <1>9, <1>12
  <2>2. ASSUME NEW q \in 1..n, cs[p].completion = cs[q].index PROVE FALSE
    <3>1. cs[q].index + 1 = order[q]
      BY <1>1, <1>5, <1>9
    <3> QED BY <1>5, <2>1, <2>2, <3>1
  <2>3. ASSUME NEW q \in Required(cs), cs[p].completion = cs[q].completion PROVE p = q
    <3>1. q \in 1..n /\ log[cs[q].completion + 1].call = cs[q].index
      BY <1>9, <1>12
    <3> QED BY <1>11, <2>1, <2>3, <3>1
  <2> QED BY <2>1, <2>2, <2>3
<1>14. \A p \in 1..n : cs[p].index \in Nat
  BY <1>1, <1>5, <1>9
<1>15. Sound(model, cs)
  BY <1>8, <1>9, <1>10, <1>11, <1>13, <1>14 DEF Sound
<1> QED BY <1>3, <1>15

\* Some of the calls, in their order.
Selects(cs, n, members) ==
    /\ n \in Nat /\ DOMAIN members = 1..n
    /\ \A k \in 1..n : members[k] \in DOMAIN cs
    /\ \A j, k \in 1..n : j < k <=> members[j] < members[k]

\* Sound calls that are selected in their order are sound.
LEMMA ChosenCalls ==
    ASSUME NEW name, NEW cs, Sound(name, cs), NEW n, NEW members, Selects(cs, n, members),
           NEW chosen, chosen = [k \in DOMAIN members |-> cs[members[k]]]
    PROVE  Sound(name, chosen)
<1>0. /\ n \in Nat /\ DOMAIN members = 1..n
      /\ \A k \in 1..n : members[k] \in DOMAIN cs
      /\ \A j, k \in 1..n : j < k <=> members[j] < members[k]
  BY DEF Selects
<1>1. Len(cs) \in Nat /\ DOMAIN cs = 1..Len(cs) /\ Listed(cs)
  BY ListedFacts DEF Sound
<1>5. \A k \in 1..n : members[k] \in DOMAIN cs /\ members[k] \in Int
  BY <1>0, <1>1
<1>6. \A j, k \in 1..n : members[j] = members[k] => j = k
  <2> SUFFICES ASSUME NEW j \in 1..n, NEW k \in 1..n, members[j] = members[k] PROVE j = k
    OBVIOUS
  <2>1. ~(j < k) /\ ~(k < j)
    BY <1>0, <1>5
  <2> QED BY <1>0, <2>1
<1>7. Listed(chosen) /\ DOMAIN chosen = 1..n /\ \A k \in 1..n : chosen[k] = cs[members[k]]
  <2>1. DOMAIN chosen = 1..n /\ \A k \in 1..n : chosen[k] = cs[members[k]]
    BY <1>0
  <2>2. chosen = [k \in 1..n |-> chosen[k]]
    BY <1>0
  <2> QED BY <1>0, <2>1, <2>2, ListedFunction
<1>8. Required(chosen) \subseteq 1..n /\ \A k \in Required(chosen) : members[k] \in Required(cs)
  BY <1>5, <1>7 DEF Required
<1>9. ASSUME NEW k \in 1..n
      PROVE  /\ chosen[k].index \in Nat /\ chosen[k].op.known \in BOOLEAN
             /\ chosen[k].op.operation \in OperationsOf(name)
             /\ \A j \in 1..n : chosen[k].index = chosen[j].index => k = j
  <2>1. /\ cs[members[k]].index \in Nat /\ cs[members[k]].op.known \in BOOLEAN
        /\ cs[members[k]].op.operation \in OperationsOf(name)
        /\ \A q \in DOMAIN cs : cs[members[k]].index = cs[q].index => members[k] = q
    BY <1>5 DEF Sound
  <2>2. chosen[k] = cs[members[k]]
    BY <1>7
  <2>3. \A j \in 1..n : chosen[k].index = chosen[j].index => k = j
    <3> SUFFICES ASSUME NEW j \in 1..n, chosen[k].index = chosen[j].index PROVE k = j
      OBVIOUS
    <3>1. members[j] \in DOMAIN cs /\ chosen[j] = cs[members[j]]
      BY <1>0, <1>7
    <3>2. members[k] = members[j]
      BY <2>1, <2>2, <3>1
    <3> QED BY <1>6, <3>2
  <2> QED BY <2>1, <2>2, <2>3
<1>10. ASSUME NEW k \in Required(chosen)
       PROVE  /\ chosen[k].completion \in Nat /\ chosen[k].index < chosen[k].completion
              /\ \A j \in 1..n : chosen[k].completion # chosen[j].index
              /\ \A j \in Required(chosen) : chosen[k].completion = chosen[j].completion => k = j
  <2>1. k \in 1..n /\ members[k] \in Required(cs)
    BY <1>8
  <2>2. /\ cs[members[k]].completion \in Nat /\ cs[members[k]].index < cs[members[k]].completion
        /\ \A q \in DOMAIN cs : cs[members[k]].completion # cs[q].index
        /\ \A q \in Required(cs) : cs[members[k]].completion = cs[q].completion => members[k] = q
    BY <2>1 DEF Sound
  <2>3. \A j \in 1..n : chosen[k].completion # chosen[j].index
    BY <1>5, <1>7, <2>1, <2>2, Zenon
  <2>4. \A j \in Required(chosen) : chosen[k].completion = chosen[j].completion => k = j
    <3> SUFFICES ASSUME NEW j \in Required(chosen), chosen[k].completion = chosen[j].completion PROVE k = j
      BY Zenon
    <3>1. j \in 1..n /\ members[j] \in Required(cs)
      BY <1>8
    <3> QED BY <1>6, <1>7, <2>1, <2>2, <3>1, Zenon
  <2>5. chosen[k] = cs[members[k]]
    BY <1>7, <2>1
  <2> QED BY <2>2, <2>3, <2>4, <2>5
<1> QED BY <1>7, <1>9, <1>10 DEF Sound

\* The positions of a list are integers.
LEMMA NumberedIsNumbers == ASSUME NEW cs, Listed(cs) PROVE DOMAIN cs \subseteq Int
  BY ListedFacts

\* The calls at a set of positions are sound.
LEMMA SomeCalls ==
    ASSUME NEW name, NEW cs, Sound(name, cs), NEW some \in SUBSET (DOMAIN cs),
           NEW members, members = Ascending(some, <),
           NEW chosen, chosen = [k \in DOMAIN members |-> cs[members[k]]]
    PROVE  Sound(name, chosen)
<1>1. DOMAIN cs \subseteq Int /\ IsFiniteSet(DOMAIN cs)
  BY RequiredAre, NumberedIsNumbers DEF Sound
<1>2. some \in SUBSET Int /\ IsFiniteSet(some)
  BY <1>1, FS_Subset, Zenon
<1>3. PICK n : n = Cardinality(some)
  OBVIOUS
<1>4. /\ n \in Nat /\ DOMAIN members = 1..n
      /\ \A k \in 1..n : members[k] \in some
      /\ \A j, k \in 1..n : j < k <=> members[j] < members[k]
  BY <1>2, <1>3, AscendingNumbers
<1>5. \A k \in 1..n : members[k] \in DOMAIN cs
  BY <1>4, Zenon
<1>6. Selects(cs, n, members)
  BY <1>4, <1>5, Zenon DEF Selects
<1> QED BY <1>6, ChosenCalls, Zenon

\* So are the calls of each part, however they are joined by their keys.
LEMMA PartsAre ==
    ASSUME NEW name, NEW cs, Sound(name, cs), NEW one, NEW ps, ps = PartsOf(cs, one)
    PROVE  Listed(ps) /\ \A i \in 1..Len(ps) : Sound(name, ps[i].calls)
<1>1. PICK all : all = [keys |-> <<>>, calls |-> cs]
  OBVIOUS
<1>2. Listed(<<all>>) /\ Len(<<all>>) = 1 /\ <<all>>[1] = all /\ all.calls = cs
  BY <1>1, OneState
<1>3. Listed(<<>>) /\ Len(<<>>) = 0
  BY OneState
<1>4. CASE ps = <<all>>
  BY <1>2, <1>4
<1>5. CASE ps = <<>>
  BY <1>3, <1>5
<1>6. CASE cs # <<>> /\ ~TouchesEveryKey(cs) /\ ~one
  <2> DEFINE group(p) == {q \in DOMAIN cs : Root(Parents(cs), q) = Root(Parents(cs), p)}
             F == {p \in DOMAIN cs : p = Min(group(p))}
             firsts == Ascending(F, <)
             members(p) == Ascending(group(p), <)
             CallsIn(p) == [k \in DOMAIN members(p) |-> cs[members(p)[k]]]
             part(p) == [keys |-> KeysOf(CallsIn(p)), calls |-> CallsIn(p)]
  <2>1. ps = [i \in DOMAIN firsts |-> part(firsts[i])]
    BY <1>6, Zenon DEF PartsOf, Partitions
  <2>2. \A p : Sound(name, CallsIn(p))
    <3> SUFFICES ASSUME NEW p PROVE Sound(name, CallsIn(p))
      OBVIOUS
    <3>1. PICK some, m, c : some = group(p) /\ m = members(p) /\ c = CallsIn(p)
      OBVIOUS
    <3>2. some \in SUBSET (DOMAIN cs)
      BY <3>1
    <3> HIDE DEF group
    <3>3. m = Ascending(some, <)
      BY <3>1
    <3> HIDE DEF members
    <3>4. c = [k \in DOMAIN m |-> cs[m[k]]]
      BY <3>1
    <3> HIDE DEF CallsIn
    <3>5. Sound(name, c)
      BY <3>2, <3>3, <3>4, SomeCalls
    <3> QED BY <3>1, <3>5
  <2>3. \A p : part(p).calls = CallsIn(p)
    OBVIOUS
  <2>4. F \in SUBSET Int /\ IsFiniteSet(F)
    <3>1. IsFiniteSet(DOMAIN cs) /\ DOMAIN cs \subseteq Int
      BY RequiredAre, ListedFacts DEF Sound
    <3>2. F \subseteq DOMAIN cs
      OBVIOUS
    <3> HIDE DEF F
    <3> QED BY <3>1, <3>2, FS_Subset
  <2> HIDE DEF F, part, CallsIn
  <2>5. PICK n : n = Cardinality(F)
    OBVIOUS
  <2>6. n \in Nat /\ DOMAIN firsts = 1..n
    BY <2>4, <2>5, AscendingNumbers
  <2> HIDE DEF firsts
  <2>7. ps = [i \in 1..n |-> part(firsts[i])]
    BY <2>1, <2>6
  <2>8. Listed(ps) /\ Len(ps) = n
    <3>1. ps = [i \in 1..n |-> ps[i]]
      BY <2>7
    <3> QED BY <2>6, <3>1, ListedFunction
  <2>9. \A i \in 1..n : ps[i] = part(firsts[i])
    BY <2>7
  <2> QED BY <2>2, <2>3, <2>8, <2>9
<1>7. ps = <<all>> \/ ps = <<>> \/ (cs # <<>> /\ ~TouchesEveryKey(cs) /\ ~one)
  BY <1>1, Zenon DEF PartsOf, Partitions
<1> QED BY <1>4, <1>5, <1>6, <1>7

---------------------------------------------------------------------------
(* The invariant holds of the check.                                       *)

\* A search leaves what it was given, and its outcome is never idle again.
LEMMA SearchKeepsGiven == SearchNext => UNCHANGED given /\ outcome # "idle" /\ outcome' # "idle"
  BY DEF SearchNext, Pass, Violate, Backtrack, OverBudget, Reject, Skip, OverMemo,
      Linearize, Stop,
         Steps, AtCandidate, Scanning, ending

\* The invariant holds before the check.
LEMMA InitLinInv == CheckInit => LinInv
<1> SUFFICES ASSUME CheckInit PROVE LinInv
  OBVIOUS
<1>1. Listed(<<>>) /\ Len(<<>>) = 0
  BY OneState
<1>2. ProblemIsGiven
  BY DEF CheckInit, ProblemIsGiven
<1>3. LogIsSound
  BY <1>1 DEF CheckInit, LogIsSound
<1>4. PartsAreSound
  BY <1>1 DEF CheckInit, PartsAreSound
<1> QED BY <1>2, <1>3, <1>4 DEF LinInv, CheckInit, Idle

\* The log with one more event.
LEMMA LogGrows ==
    ASSUME LogIsSound, NEW event, log' = Append(log, event), UNCHANGED problem,
           event.kind = "invoke" => event.value \in problem.calls,
           event.kind # "invoke" => event.call \in 0..(Len(log) - 1)
    PROVE  LogIsSound'
<1>1. /\ Len(log) \in Nat
      /\ Listed(log') /\ Len(log') = Len(log) + 1 /\ log'[Len(log) + 1] = event
      /\ \A i \in 1..Len(log) : log'[i] = log[i]
  BY ListedAppend, ListedFacts DEF LogIsSound
<1>2. ASSUME NEW i \in 1..Len(log')
      PROVE  /\ log'[i].kind = "invoke" => log'[i].value \in problem'.calls
             /\ log'[i].kind # "invoke" => log'[i].call \in 0..(i - 2)
  <2>1. CASE i = Len(log) + 1
    <3>1. i - 2 = Len(log) - 1 /\ log'[i] = event
      BY <1>1, <2>1
    <3> QED BY <3>1
  <2>2. CASE i \in 1..Len(log)
    BY <1>1, <2>2 DEF LogIsSound
  <2> QED BY <1>1, <2>1, <2>2
<1> QED BY <1>1, <1>2 DEF LogIsSound

\* It does not depend on the stage of the check or on its verdict.
LEMMA LinInvFrame ==
    ASSUME LinInv, LogIsSound', PartsAreSound', UNCHANGED <<svars, problem, at>>
    PROVE  LinInv'
<1>1. UNCHANGED <<given, configuration, record, entry, memo, steps, outcome>>
  BY DEF svars, ending
<1>2. outcome # "idle" => SearchInv'
  <2> SUFFICES ASSUME outcome # "idle" PROVE SearchInv'
    OBVIOUS
  <2>1. SearchInv /\ steps <= budget
    BY DEF LinInv, SearchInv, WorkIsLimited, WithinLimits
  <2>2. steps' <= budget
    BY <1>1, <2>1 DEF given
  <2> QED BY <1>1, <2>1, <2>2, SearchInvFrame
<1>3. ProblemIsGiven' /\ at' \in Nat
  BY <1>1 DEF LinInv, ProblemIsGiven, given
<1> QED BY <1>1, <1>2, <1>3 DEF LinInv

\* Every step of a check keeps it: recording, dividing the calls into parts,
\* starting the search of a part, each turn, and concluding.
LEMMA NextLinInv == LinInv /\ [CheckNext]_<<svars, cvars>> => LinInv'
<1> SUFFICES ASSUME LinInv, [CheckNext]_<<svars, cvars>> PROVE LinInv'
  OBVIOUS
<1>1. Given /\ LogIsSound /\ PartsAreSound /\ Listed(log) /\ Len(log) \in Nat
  BY GivenIs, ListedFacts DEF LinInv, LogIsSound
<1>2. UNCHANGED log => (UNCHANGED <<svars, problem>> => LogIsSound')
  BY <1>1 DEF LogIsSound
<1>3. UNCHANGED <<svars, parts>> => PartsAreSound'
  BY <1>1 DEF PartsAreSound, svars, given
<1>4. CASE RecordInvoke
  <2>1. PICK event : /\ log' = Append(log, event) /\ event.kind = "invoke" /\ event.value \in problem.calls
                     /\ UNCHANGED <<svars, problem, parts, at>>
    BY <1>4 DEF RecordInvoke, RecordEvent
  <2>2. LogIsSound'
    BY <1>1, <2>1, LogGrows
  <2> QED BY <1>3, <2>1, <2>2, LinInvFrame
<1>5. CASE RecordCompletion
  <2>1. PICK i \in DOMAIN log : /\ log[i].kind = "invoke"
                                /\ \E end \in problem.ends[log[i].value.operation] :
                                       RecordEvent(end[1], i - 1, end[2])
    BY <1>5 DEF RecordCompletion
  <2>2. PICK end \in problem.ends[log[i].value.operation] : RecordEvent(end[1], i - 1, end[2])
    BY <2>1
  <2>3. i \in 1..Len(log) /\ i - 1 \in 0..(Len(log) - 1)
    BY <1>1, ListedFacts
  <2>4. end[1] # "invoke"
    <3>1. log[i].value \in problem.calls
      BY <1>1, <2>1, <2>3 DEF LogIsSound
    <3>2. end[1] \in {"ok", "fail", "unknown"}
      BY <2>2, <3>1, ProblemsAssumption DEF LinInv, ProblemIsGiven
    <3> QED BY <3>2
  <2>5. PICK event : event = [kind |-> end[1], call |-> i - 1, value |-> end[2]]
    OBVIOUS
  <2>6. /\ event.kind # "invoke" /\ event.call \in 0..(Len(log) - 1)
        /\ log' = Append(log, event) /\ UNCHANGED <<svars, problem, parts, at>>
    BY <2>2, <2>3, <2>4, <2>5 DEF RecordEvent
  <2>7. LogIsSound'
    BY <1>1, <2>6, LogGrows
  <2> QED BY <1>3, <2>6, <2>7, LinInvFrame
<1>6. CASE Check
  <2>1. parts' = PartsOf(Calls(log), problem.whole) /\ UNCHANGED <<svars, problem, log, at>>
    BY <1>6 DEF Check
  <2>2. PICK cs, one, ps : cs = Calls(log) /\ one = problem.whole /\ ps = PartsOf(cs, one)
    OBVIOUS
  <2>3. Sound(model, cs)
    BY <2>2, CallsOfLog
  <2>4. Listed(ps) /\ \A i \in 1..Len(ps) : Sound(model, ps[i].calls)
    BY <2>2, <2>3, PartsAre
  <2>5. PartsAreSound'
    BY <2>1, <2>2, <2>4 DEF PartsAreSound, svars, given
  <2> QED BY <1>2, <2>1, <2>5, LinInvFrame
<1>7. CASE Search
  <2>1. SearchNext /\ UNCHANGED cvars
    BY <1>7 DEF Search
  <2>2. outcome # "idle"
    BY <2>1, SearchKeepsGiven
  <2>3. SearchInv'
    BY <1>1, <2>1, <2>2, SearchNextInv DEF LinInv
  <2>4. UNCHANGED <<model, budget, memoLimit>>
    BY <2>1, SearchKeepsGiven DEF given
  <2> QED BY <2>1, <2>3, <2>4 DEF LinInv, ProblemIsGiven, LogIsSound, PartsAreSound,
        cvars
<1>8. CASE NextPartition
  <2>1. /\ at < Len(parts) /\ at' = at + 1 /\ Start(parts[at + 1].calls)
        /\ UNCHANGED <<model, budget, memoLimit, problem, log, parts>>
    BY <1>8 DEF NextPartition
  <2>2. at \in Nat /\ Len(parts) \in Nat
    BY <1>1, ListedFacts DEF LinInv, PartsAreSound
  <2>3. PICK cs : cs = parts[at + 1].calls
    OBVIOUS
  <2>4. Sound(model, cs) /\ Start(cs)
    <3>1. at + 1 \in 1..Len(parts)
      BY <2>1, <2>2
    <3> QED BY <1>1, <2>1, <2>3, <3>1 DEF PartsAreSound
  <2>5. SearchInv'
    BY <1>1, <2>1, <2>4, StartSearchInv
  <2> QED BY <2>1, <2>2, <2>5 DEF LinInv, ProblemIsGiven, LogIsSound, PartsAreSound
<1>9. CASE Conclude
  BY <1>2, <1>3, <1>9, LinInvFrame DEF Conclude
<1>10. CASE Returned
  BY <1>2, <1>3, <1>10, LinInvFrame DEF Returned, cvars
<1>11. CASE UNCHANGED <<svars, cvars>>
  BY <1>2, <1>3, <1>11, LinInvFrame DEF cvars
<1> QED BY <1>4, <1>5, <1>6, <1>7, <1>8, <1>9, <1>10, <1>11 DEF CheckNext, Checking

\* The inductive invariant holds of every check of every problem.
THEOREM LinInvHolds == CheckSpec => []LinInv
<1>1. CheckInit => LinInv
  BY InitLinInv
<1>2. LinInv /\ [CheckNext]_<<svars, cvars>> => LinInv'
  BY NextLinInv
<1> QED BY <1>1, <1>2, PTL DEF CheckSpec

---------------------------------------------------------------------------
(* The properties of the search.                                           *)

\* The next of a linked list is the least member above.
LEMMA NextIsMin ==
    ASSUME NEW S \in SUBSET Int, NEW e \in Int, NEW f, IsNext(S, e, f)
    PROVE  f = Min({g \in S : g > e})
<1> DEFINE T == {g \in S : g > e}
<1>1. f \in T /\ \A g \in T : f <= g
  BY DEF IsNext
<1>2. \A x \in T : (\A g \in T : x <= g) => x = f
  <2> SUFFICES ASSUME NEW x \in T, \A g \in T : x <= g PROVE x = f
    OBVIOUS
  <2>1. x <= f /\ f <= x /\ x \in Int /\ f \in Int
    BY <1>1
  <2> QED BY <2>1
<1>3. Min(T) \in T /\ \A g \in T : Min(T) <= g
  <2> HIDE DEF T
  <2> QED BY <1>1 DEF Min
<1> QED BY <1>2, <1>3

\* The one before is the greatest member below.
LEMMA PrevIsMax ==
    ASSUME NEW S \in SUBSET Int, NEW e \in Int, NEW f, IsPrev(S, e, f)
    PROVE  f = Max({g \in S : g < e})
<1> DEFINE T == {g \in S : g < e}
<1>1. f \in T /\ \A g \in T : f >= g
  BY DEF IsPrev
<1>2. \A x \in T : (\A g \in T : x >= g) => x = f
  <2> SUFFICES ASSUME NEW x \in T, \A g \in T : x >= g PROVE x = f
    OBVIOUS
  <2>1. x <= f /\ f <= x /\ x \in Int /\ f \in Int
    BY <1>1
  <2> QED BY <2>1
<1>3. Max(T) \in T /\ \A g \in T : Max(T) >= g
  <2> HIDE DEF T
  <2> QED BY <1>1 DEF Max
<1> QED BY <1>2, <1>3

\* The list of the invariant is the one that the property asks for.
LEMMA SplicedList == SearchInv => ListIsUnlinearized
<1> SUFFICES ASSUME SearchInv PROVE ListIsUnlinearized
  OBVIOUS
<1>1. Sound(model, calls) /\ entries = EntriesOf(calls)
  BY DEF SearchInv, CallsAreSound
<1>2. Len(entries) \in Nat /\ DOMAIN entries = 1..Len(entries)
  BY <1>1, EntryFacts
<1>3. PICK linked, tail : linked = Unlinearized \cup {0, Len(entries) + 1} /\ tail = Len(entries) + 1
  OBVIOUS
<1>4. linked = Linked(entries, Held(Order)) /\ done = Held(Order)
  BY <1>3 DEF SearchInv, StackIsDone, Unlinearized, Linked
<1>5. linked \in SUBSET Int /\ tail \in Int
  BY <1>2, <1>3 DEF Unlinearized
<1>6. Links(list, linked, tail)
  BY <1>3, <1>4 DEF SearchInv, ListIsSpliced, Splices
<1>7. \A e \in linked \ {tail} : list.next[e] = Min({f \in linked : f > e})
  <2> SUFFICES ASSUME NEW e \in linked \ {tail} PROVE list.next[e] = Min({f \in linked : f > e})
    OBVIOUS
  <2>1. IsNext(linked, e, list.next[e]) /\ e \in Int
    BY <1>5, <1>6 DEF Links
  <2> QED BY <1>5, <2>1, NextIsMin
<1>8. \A e \in linked \ {0} : list.prev[e] = Max({f \in linked : f < e})
  <2> SUFFICES ASSUME NEW e \in linked \ {0} PROVE list.prev[e] = Max({f \in linked : f < e})
    OBVIOUS
  <2>1. IsPrev(linked, e, list.prev[e]) /\ e \in Int
    BY <1>5, <1>6 DEF Links
  <2> QED BY <1>5, <2>1, PrevIsMax
<1>9. Scanning => entry \in Unlinearized
  BY ScanFacts DEF Unlinearized
<1> QED BY <1>3, <1>7, <1>8, <1>9, Zenon DEF ListIsUnlinearized

\* A list of the states that an order leaves has one, has each up to
\* equality, and no two equal.
LEMMA ReachedIsCovered ==
    ASSUME NEW ss, NEW o, AreLeftBy(model, calls, ss, o)
    PROVE  /\ Reached(model, calls, o) # {}
           /\ \A s \in Reached(model, calls, o) : \E i \in DOMAIN ss : Equal(s, ss[i])
           /\ \A i, j \in DOMAIN ss : i # j => ~Equal(ss[i], ss[j])
<1>1. PICK R : R = Reached(model, calls, o)
  OBVIOUS
<1>2. /\ Listed(ss) /\ ss # <<>> /\ AllDiffer(model, ss)
      /\ \A x \in Held(ss) : x \in R
      /\ \A x \in R : \E i \in 1..Len(ss) : Same(model, x, ss[i])
  BY <1>1 DEF AreLeftBy
<1>3. Len(ss) \in Nat /\ DOMAIN ss = 1..Len(ss) /\ \A i \in 1..Len(ss) : ss[i] \in Held(ss)
  BY <1>2, ListedFacts
<1>4. Len(ss) # 0
  BY <1>2, <1>3, ListedFacts
<1>5. R # {}
  BY <1>2, <1>3, <1>4
<1> QED BY <1>1, <1>2, <1>3, <1>5 DEF Equal, AllDiffer

\* The invariant's configuration is legal.
LEMMA LegalConfiguration == SearchInv => ConfigurationIsItsOrders
<1> SUFFICES ASSUME SearchInv PROVE ConfigurationIsItsOrders
  OBVIOUS
<1>1. PICK o, ss : o = Order /\ ss = states
  OBVIOUS
<1>2. Sound(model, calls) /\ entries = EntriesOf(calls) /\ IsOrder(calls, o) /\ done = Held(o)
      /\ Early(entries, calls, o) /\ AreLeftBy(model, calls, ss, o)
      /\ open = Cardinality(Required(calls) \ done) /\ WithinLimits
  BY <1>1 DEF SearchInv, CallsAreSound, StackIsDone, ScanIsEarly, StatesAreLeft,
      WorkIsLimited
<1>3. KeepsPrecedence(calls, o)
  BY <1>2, EarlyKeepsPrecedence
<1>4. /\ Reached(model, calls, o) # {}
      /\ \A s \in Reached(model, calls, o) : \E i \in DOMAIN ss : Equal(s, ss[i])
      /\ \A i, j \in DOMAIN ss : i # j => ~Equal(ss[i], ss[j])
  BY <1>2, ReachedIsCovered
<1> QED BY <1>1, <1>2, <1>3, <1>4, Zenon DEF ConfigurationIsItsOrders

\* The invariant's frontier is legal and the deepest, its candidates rejected.
LEMMA DeepestFrontier == SearchInv => FrontierIsDeepest
<1> SUFFICES ASSUME SearchInv PROVE FrontierIsDeepest
  OBVIOUS
<1>1. PICK o, ss : o = linearized /\ ss = frontier
  OBVIOUS
<1>2. Sound(model, calls) /\ entries = EntriesOf(calls) /\ IsOrder(calls, o)
      /\ Early(entries, calls, o) /\ AreLeftBy(model, calls, ss, o)
      /\ \A taken \in memo :
             Cardinality(taken.required) + Cardinality(taken.optional) <= Len(linearized)
  BY <1>1 DEF SearchInv, CallsAreSound, FrontierIsLeft
<1>3. KeepsPrecedence(calls, o)
  BY <1>2, EarlyKeepsPrecedence
<1>4. \A s \in Reached(model, calls, o) : \E i \in DOMAIN ss : Equal(s, ss[i])
  BY <1>2, ReachedIsCovered
<1>5. ASSUME NEW i \in DOMAIN candidates
      PROVE  /\ candidates[i] \in CandidatesAfter(Held(o))
             /\ \A k \in DOMAIN ss : StepOf(model, ss[k], calls[candidates[i]].op) = <<>>
  <2>1. Rejected(model, calls, Held(o), ss, candidates[i])
    BY <1>1, ListedFacts DEF SearchInv, CandidatesAreRejected
  <2>2. DOMAIN ss = 1..Len(ss)
    BY <1>2, ListedFacts DEF AreLeftBy
  <2> QED BY <2>1, <2>2 DEF Rejected, CandidatesAfter
<1> QED BY <1>1, <1>2, <1>3, <1>4, <1>5, Zenon DEF FrontierIsDeepest

\* The doubly linked list of the search, spliced through any number of lifts
\* and put back by any number of backtracks, links exactly the entries of
\* the calls that are not linearized, in both directions, and the scan
\* stands on one of them: _lift(), _unlift() and _search().
THEOREM ListHolds == CheckSpec => []ListIsUnlinearized
<1>1. LinInv => ListIsUnlinearized
  BY SplicedList DEF LinInv, ListIsUnlinearized
<1> QED BY <1>1, LinInvHolds, PTL

\* Whatever was undone, the order of the stack keeps the precedence of the
\* history, the model accepts it, the states are all those that it may leave
\* with no two equal, the open calls are counted, and the work is within the
\* limits: _linearize(), _backtrack() and _step().
THEOREM ConfigurationHolds == CheckSpec => []ConfigurationIsItsOrders
<1>1. LinInv => ConfigurationIsItsOrders
  BY LegalConfiguration DEF LinInv, ConfigurationIsItsOrders
<1> QED BY <1>1, LinInvHolds, PTL

\* The frontier that a record states is a legal order with the most calls of
\* any configuration visited, with the states it leaves, and candidates that
\* the model rejects in each of them: _linearize() and _search().
THEOREM FrontierHolds == CheckSpec => []FrontierIsDeepest
<1>1. LinInv => FrontierIsDeepest
  BY DeepestFrontier DEF LinInv, FrontierIsDeepest
<1> QED BY <1>1, LinInvHolds, PTL

---------------------------------------------------------------------------
(* The calls that complete a configuration.                                *)

\* The n calls of o complete a configuration, the calls of set and the state s:
\* they take every required call that is left, keep the precedence of the
\* history, and lead the model from s through the states of r, up to equality.
Completes(name, cs, set, s, n, o, r) ==
    /\ n \in Nat
    /\ \A i \in 1..n : o[i] \in DOMAIN cs \ set
    /\ \A i, j \in 1..n : o[i] = o[j] => i = j
    /\ \A q \in Required(cs) \ set : \E i \in 1..n : o[i] = q
    /\ \A i \in 1..n, q \in Required(cs) \ set :
           cs[q].completion < cs[o[i]].index => \E j \in 1..(i - 1) : o[j] = q
    /\ Same(name, s, r[0])
    /\ \A i \in 0..n : Proper(name, r[i])
    /\ \A i \in 1..n : \E y \in Held(StepOf(name, r[i - 1], cs[o[i]].op)) : Same(name, y, r[i])

\* A configuration that n calls can complete, and one that they can with p first.
CanComplete(name, cs, set, ss, n) ==
    \E s \in Held(ss) : \E o, r : Completes(name, cs, set, s, n, o, r)

CompletesWith(name, cs, set, ss, n, p) ==
    \E s \in Held(ss) : \E o, r : Completes(name, cs, set, s, n, o, r) /\ n # 0 /\ o[1] = p

\* While a required call is left, a completion has a first call.
LEMMA FirstCall ==
    ASSUME NEW name, NEW cs, NEW set, NEW ss, NEW n, CanComplete(name, cs, set, ss, n),
           NEW q \in Required(cs) \ set
    PROVE  n \in Nat /\ \E p : CompletesWith(name, cs, set, ss, n, p)
<1>1. PICK s \in Held(ss) : \E o, r : Completes(name, cs, set, s, n, o, r)
  BY DEF CanComplete
<1>2. PICK o, r : Completes(name, cs, set, s, n, o, r)
  BY <1>1
<1>3. n \in Nat /\ \E i \in 1..n : o[i] = q
  BY <1>2 DEF Completes
<1>4. n # 0
  BY <1>3
<1>5. CompletesWith(name, cs, set, ss, n, o[1])
  BY <1>2, <1>4 DEF CompletesWith
<1> QED BY <1>3, <1>5

\* It is a call that no required call that is left precedes.
LEMMA FirstIsCandidate ==
    ASSUME NEW name, NEW cs, NEW es, Sound(name, cs), es = EntriesOf(cs),
           NEW set, NEW ss, NEW n, NEW p, CompletesWith(name, cs, set, ss, n, p)
    PROVE  /\ n \in Nat \ {0} /\ p \in DOMAIN cs \ set
           /\ \A q \in Required(cs) \ set : InvokedAt(es, p) < CompletedAt(es, q)
<1>1. PICK s \in Held(ss) : \E o, r : Completes(name, cs, set, s, n, o, r) /\ n # 0 /\ o[1] = p
  BY DEF CompletesWith
<1>2. PICK o, r : Completes(name, cs, set, s, n, o, r) /\ n # 0 /\ o[1] = p
  BY <1>1
<1>3. n \in Nat \ {0} /\ 1 \in 1..n
  BY <1>2 DEF Completes
<1>4. p \in DOMAIN cs \ set
  BY <1>2, <1>3 DEF Completes
<1>5. ASSUME NEW q \in Required(cs) \ set PROVE InvokedAt(es, p) < CompletedAt(es, q)
  <2>1. ~(cs[q].completion < cs[p].index)
    <3> SUFFICES ASSUME cs[q].completion < cs[p].index PROVE FALSE
      OBVIOUS
    <3>1. \E j \in 1..(1 - 1) : o[j] = q
      BY <1>2, <1>3 DEF Completes
    <3> QED BY <3>1
  <2>2. /\ cs[q].completion \in Nat /\ cs[p].index \in Nat /\ cs[q].completion # cs[p].index
    BY <1>4 DEF Sound
  <2>3. cs[p].index < cs[q].completion
    BY <2>1, <2>2
  <2> QED BY <1>4, <2>3, EntryFacts
<1> QED BY <1>3, <1>4, <1>5

\* A list of states that has, up to equality, what each state of ss steps to.
Follows(name, ss, op, f) ==
    \A s \in Held(ss) : \A x \in Held(StepOf(name, s, op)) : \E k \in 1..Len(f) : Same(name, x, f[k])

\* After its first call, the rest of a completion completes what follows.
LEMMA RestCompletes ==
    ASSUME NEW name \in ModelNames, NEW cs, NEW set, NEW ss, NEW n, NEW p,
           CompletesWith(name, cs, set, ss, n, p),
           cs[p].op.operation \in OperationsOf(name), \A x \in Held(ss) : Proper(name, x),
           NEW f, Listed(f), Follows(name, ss, cs[p].op, f)
    PROVE  f # <<>> /\ n - 1 \in Nat /\ CanComplete(name, cs, set \cup {p}, f, n - 1)
<1>1. PICK s \in Held(ss) : \E o, r : Completes(name, cs, set, s, n, o, r) /\ n # 0 /\ o[1] = p
  BY DEF CompletesWith
<1>2. PICK o, r : Completes(name, cs, set, s, n, o, r) /\ n # 0 /\ o[1] = p
  BY <1>1
<1>3. n \in Nat \ {0} /\ 1 \in 1..n /\ 0 \in 0..n /\ 1 \in 0..n /\ 1 - 1 = 0
  BY <1>2 DEF Completes
<1>4. PICK m, o2, r2 : m = n - 1 /\ o2 = [i \in 1..(n - 1) |-> o[i + 1]] /\ r2 = [i \in 0..(n - 1) |-> r[i + 1]]
  OBVIOUS
<1>5. /\ m \in Nat /\ n = m + 1
      /\ \A i \in 1..m : o2[i] = o[i + 1] /\ i + 1 \in 1..n
      /\ \A i \in 0..m : r2[i] = r[i + 1] /\ i + 1 \in 0..n
      /\ \A i \in 1..n : i # 1 => i - 1 \in 1..m /\ (i - 1) + 1 = i
  BY <1>3, <1>4
<1>6. PICK y \in Held(StepOf(name, r[0], cs[p].op)) : Same(name, y, r[1])
  <2>1. \E y \in Held(StepOf(name, r[1 - 1], cs[o[1]].op)) : Same(name, y, r[1])
    BY <1>2, <1>3 DEF Completes
  <2> QED BY <1>2, <1>3, <2>1
<1>7. PICK k \in 1..Len(f) : Same(name, f[k], r2[0])
  <2>1. Same(name, r[0], s) /\ Proper(name, r[0]) /\ Proper(name, s)
    BY <1>2, <1>3, SameIsEquivalence DEF Completes
  <2>2. PICK x \in Held(StepOf(name, s, cs[p].op)) : Same(name, y, x)
    BY <1>6, <2>1, StepsFollow
  <2>3. PICK k \in 1..Len(f) : Same(name, x, f[k])
    BY <2>2 DEF Follows
  <2>4. Same(name, f[k], r[1])
    BY <1>6, <2>2, <2>3, SameIsEquivalence
  <2>5. r2[0] = r[1]
    BY <1>5
  <2> QED BY <2>4, <2>5
<1>8. Completes(name, cs, set \cup {p}, f[k], m, o2, r2)
  <2>1. \A i \in 1..n : o[i] \in DOMAIN cs \ set /\ (o[i] = p => i = 1)
    BY <1>2, <1>3 DEF Completes
  <2>2. \A i \in 1..m : o2[i] \in DOMAIN cs \ (set \cup {p})
    <3> SUFFICES ASSUME NEW i \in 1..m PROVE o[i + 1] \in DOMAIN cs \ (set \cup {p})
      BY <1>5
    <3>1. i + 1 \in 1..n /\ i + 1 # 1
      BY <1>5
    <3> QED BY <2>1, <3>1
  <2>3. \A i, j \in 1..m : o2[i] = o2[j] => i = j
    <3> SUFFICES ASSUME NEW i \in 1..m, NEW j \in 1..m, o[i + 1] = o[j + 1] PROVE i = j
      BY <1>5
    <3>1. i + 1 = j + 1
      BY <1>2, <1>5 DEF Completes
    <3> QED BY <3>1
  <2>4. ASSUME NEW q \in Required(cs) \ (set \cup {p}) PROVE \E i \in 1..m : o2[i] = q
    <3>1. PICK i \in 1..n : o[i] = q
      BY <1>2 DEF Completes
    <3>2. i # 1
      BY <1>2, <3>1
    <3>3. PICK j \in 1..m : j = i - 1 /\ j + 1 = i
      BY <1>5, <3>2
    <3>4. o2[j] = q
      BY <1>5, <3>1, <3>3
    <3> QED BY <3>3, <3>4
  <2>5. ASSUME NEW i \in 1..m, NEW q \in Required(cs) \ (set \cup {p}),
               cs[q].completion < cs[o2[i]].index
        PROVE  \E j \in 1..(i - 1) : o2[j] = q
    <3>1. i + 1 \in 1..n /\ cs[q].completion < cs[o[i + 1]].index
      BY <1>5, <2>5
    <3>2. PICK j \in 1..((i + 1) - 1) : o[j] = q
      BY <1>2, <3>1 DEF Completes
    <3>3. j # 1
      BY <1>2, <3>2
    <3>4. PICK k2 \in 1..(i - 1) : j = k2 + 1
      BY <1>5, <3>2, <3>3
    <3>5. k2 \in 1..m
      BY <1>5, <3>4
    <3>6. o2[k2] = q
      BY <1>5, <3>2, <3>4, <3>5
    <3> QED BY <3>4, <3>6
  <2>6. Same(name, f[k], r2[0]) /\ \A i \in 0..m : Proper(name, r2[i])
    BY <1>2, <1>5, <1>7 DEF Completes
  <2>7. ASSUME NEW i \in 1..m
        PROVE  \E x \in Held(StepOf(name, r2[i - 1], cs[o2[i]].op)) : Same(name, x, r2[i])
    <3>1. \E x \in Held(StepOf(name, r[(i + 1) - 1], cs[o[i + 1]].op)) : Same(name, x, r[i + 1])
      BY <1>2, <1>5 DEF Completes
    <3>2. r2[i - 1] = r[(i + 1) - 1] /\ o2[i] = o[i + 1] /\ r2[i] = r[i + 1]
      <4>1. i - 1 \in 0..m /\ i \in 0..m /\ (i - 1) + 1 = (i + 1) - 1
        BY <1>5
      <4>2. r2[i - 1] = r[(i - 1) + 1]
        BY <1>5, <4>1
      <4> QED BY <1>5, <4>1, <4>2
    <3> QED BY <3>1, <3>2
  <2> QED BY <1>5, <2>2, <2>3, <2>4, <2>5, <2>6, <2>7 DEF Completes
<1>9. f # <<>> /\ f[k] \in Held(f)
  BY <1>7, ListedFacts
<1> QED BY <1>4, <1>5, <1>8, <1>9 DEF CanComplete

\* A configuration with fewer optional calls and as good states completes too.
LEMMA CoverCompletes ==
    ASSUME NEW name, NEW cs, NEW set, NEW ss, NEW n, CanComplete(name, cs, set, ss, n),
           NEW set2, set2 \subseteq set, Required(cs) \ set2 = Required(cs) \ set,
           NEW ts, \A s \in Held(ss) : \E t \in Held(ts) : Same(name, s, t)
    PROVE  CanComplete(name, cs, set2, ts, n)
<1>1. PICK s \in Held(ss) : \E o, r : Completes(name, cs, set, s, n, o, r)
  BY DEF CanComplete
<1>2. PICK o, r : Completes(name, cs, set, s, n, o, r)
  BY <1>1
<1>3. PICK t \in Held(ts) : Same(name, s, t)
  OBVIOUS
<1>4. Same(name, t, r[0])
  BY <1>2, <1>3, SameIsEquivalence DEF Completes
<1>5. Completes(name, cs, set2, t, n, o, r)
  BY <1>2, <1>4 DEF Completes
<1> QED BY <1>5 DEF CanComplete

\* The model may go through the states of r, at the first k calls of o, to x.
Goes(name, cs, o, k, x, r) ==
    /\ r[0] = InitOf(name) /\ r[k] = x
    /\ \A i \in 0..k : Proper(name, r[i])
    /\ \A i \in 1..k : r[i] \in Held(StepOf(name, r[i - 1], cs[o[i]].op))

\* It may to each state that the calls reach.
LEMMA ReachedByRun ==
    ASSUME NEW name \in ModelNames, NEW cs, Sound(name, cs), NEW o, NEW n, n = Len(o), n \in Nat,
           \A i \in 1..n : o[i] \in DOMAIN cs, NEW x \in Reached(name, cs, o)
    PROVE  \E r : Goes(name, cs, o, n, x, r)
<1>1. PICK f : Trail(f, name, cs, o, n) /\ Reached(name, cs, o) = f[n]
  BY TrailOf
<1>2. /\ f[0] = {InitOf(name)}
      /\ \A k \in 0..(n - 1) : f[k + 1] = After(name, cs, o[k + 1], f[k])
  BY <1>1, TrailStep
<1> DEFINE P == {k \in 0..n : \A y \in f[k] : \E r : Goes(name, cs, o, k, y, r)}
<1>3. 0 \in P
  <2> SUFFICES ASSUME NEW y \in f[0] PROVE \E r : Goes(name, cs, o, 0, y, r)
    OBVIOUS
  <2>1. PICK r : r = [i \in 0..0 |-> y]
    OBVIOUS
  <2>2. y = InitOf(name) /\ Proper(name, y) /\ r[0] = y
    BY <1>2, <2>1, InitIsProper
  <2> QED BY <2>2 DEF Goes
<1>4. ASSUME NEW k \in 0..(n - 1), k \in P PROVE k + 1 \in P
  <2> SUFFICES ASSUME NEW y \in f[k + 1] PROVE \E r : Goes(name, cs, o, k + 1, y, r)
    OBVIOUS
  <2>1. PICK s \in f[k] : y \in Held(StepOf(name, s, cs[o[k + 1]].op))
    <3>1. f[k + 1] = After(name, cs, o[k + 1], f[k])
      BY <1>2
    <3>2. y \in UNION {Held(StepOf(name, s, cs[o[k + 1]].op)) : s \in f[k]}
      BY <3>1 DEF After
    <3> QED BY <3>2
  <2>2. PICK r : Goes(name, cs, o, k, s, r)
    BY <1>4, <2>1
  <2>3. PICK m, r2 : m = k + 1 /\ r2 = [i \in 0..(k + 1) |-> IF i = k + 1 THEN y ELSE r[i]]
    OBVIOUS
  <2>4. /\ m \in Nat /\ k \in Nat /\ m = k + 1 /\ r2[m] = y
        /\ \A i \in 0..k : r2[i] = r[i] /\ i \in 0..m
        /\ \A i \in 1..k : i - 1 \in 0..k /\ i \in 0..k
        /\ \A i \in 0..m : i \in 0..k \/ i = m
        /\ \A i \in 1..m : i \in 1..k \/ i = m
    BY <2>3
  <2>5. Proper(name, s) /\ Proper(name, y)
    <3>1. Proper(name, r[k]) /\ r[k] = s
      BY <2>2, <2>4 DEF Goes
    <3>2. cs[o[k + 1]].op.operation \in OperationsOf(name)
      <4>1. o[k + 1] \in DOMAIN cs
        OBVIOUS
      <4> QED BY <4>1 DEF Sound
    <3> QED BY <2>1, <3>1, <3>2, StepsFollow
  <2>6. r2[0] = InitOf(name)
    BY <2>2, <2>4 DEF Goes
  <2>7. \A i \in 0..m : Proper(name, r2[i])
    BY <2>2, <2>4, <2>5 DEF Goes
  <2>8. ASSUME NEW i \in 1..m PROVE r2[i] \in Held(StepOf(name, r2[i - 1], cs[o[i]].op))
    <3>1. CASE i = m
      <4>1. r2[i] = y /\ i - 1 = k /\ r2[i - 1] = r[k] /\ r[k] = s
        BY <2>2, <2>4, <3>1 DEF Goes
      <4> QED BY <2>1, <2>4, <3>1, <4>1
    <3>2. CASE i \in 1..k
      <4>1. r2[i] = r[i] /\ r2[i - 1] = r[i - 1]
        BY <2>4, <3>2
      <4> QED BY <2>2, <3>2, <4>1 DEF Goes
    <3> QED BY <2>4, <3>1, <3>2
  <2>9. Goes(name, cs, o, m, y, r2)
    BY <2>4, <2>6, <2>7, <2>8 DEF Goes
  <2> QED BY <2>3, <2>9
<1>5. \A k \in 0..n : k \in P
  <2> HIDE DEF P
  <2> QED BY <1>3, <1>4, NumbersIn
<1>6. n \in P
  BY <1>5
<1> QED BY <1>1, <1>6

\* A witness of the definition completes the first configuration of a search.
LEMMA WitnessCompletes ==
    ASSUME NEW name \in ModelNames, NEW cs, Sound(name, cs), IsLinearizable(name, cs)
    PROVE  \E n : CanComplete(name, cs, {}, <<InitOf(name)>>, n)
<1>1. PICK o \in OrdersOf(cs) : KeepsPrecedence(cs, o) /\ Reached(name, cs, o) # {}
  BY DEF IsLinearizable
<1>2. PICK extra \in SUBSET (DOMAIN cs \ Required(cs)) : o \in SetToSeqs(Required(cs) \cup extra)
  BY <1>1 DEF OrdersOf
<1>3. PICK S, n : S = Required(cs) \cup extra /\ n = Cardinality(S)
  OBVIOUS
<1>4. Listed(cs) /\ Required(cs) \subseteq DOMAIN cs /\ IsFiniteSet(DOMAIN cs)
  BY RequiredAre DEF Sound
<1>5. S \subseteq DOMAIN cs /\ IsFiniteSet(S) /\ n \in Nat
  <2>1. S \subseteq DOMAIN cs
    BY <1>3, <1>4
  <2> QED BY <1>3, <1>4, <2>1, FS_Subset, FS_CardinalityType
<1>6. o \in [1..n -> S] /\ \A i, j \in 1..n : i # j => o[i] # o[j]
  BY <1>2, <1>3 DEF SetToSeqs
<1>7. Listed(o) /\ Len(o) = n /\ DOMAIN o = 1..n
  <2>1. o = [i \in 1..n |-> o[i]]
    BY <1>6
  <2> QED BY <1>5, <2>1, ListedFunction
<1>8. Held(o) = S
  <2>1. IsInjective(o)
    BY <1>6, <1>7 DEF IsInjective
  <2>2. n = Cardinality(Held(o))
    BY <1>7, <2>1, InjectiveLength
  <2>3. Held(o) \subseteq S
    BY <1>6, <1>7 DEF Held
  <2> QED BY <1>3, <1>5, <2>2, <2>3, FS_Subset
<1>9. PICK x, a : x \in Reached(name, cs, o) /\ a = InitOf(name)
  BY <1>1
<1>10. \A i \in 1..n : o[i] \in DOMAIN cs
  BY <1>5, <1>6
<1>11. PICK r : Goes(name, cs, o, n, x, r)
  BY <1>5, <1>7, <1>9, <1>10, ReachedByRun
<1>12. Completes(name, cs, {}, a, n, o, r)
  <2>1. \A q \in Required(cs) \ {} : \E i \in 1..n : o[i] = q
    BY <1>3, <1>7, <1>8, ListedFacts
  <2>2. ASSUME NEW i \in 1..n, NEW q \in Required(cs) \ {}, cs[q].completion < cs[o[i]].index
        PROVE  \E j \in 1..(i - 1) : o[j] = q
    <3>1. q \in DOMAIN cs /\ Precedes(cs[q], cs[o[i]])
      BY <1>4, <2>2 DEF Precedes, Required
    <3> QED BY <1>1, <1>7, <3>1 DEF KeepsPrecedence
  <2>3. Same(name, a, r[0]) /\ \A i \in 0..n : Proper(name, r[i])
    BY <1>9, <1>11, SameIsEquivalence DEF Goes
  <2>4. \A i \in 1..n : \E y \in Held(StepOf(name, r[i - 1], cs[o[i]].op)) : Same(name, y, r[i])
    BY <1>11, SameIsEquivalence DEF Goes
  <2> QED BY <1>5, <1>6, <1>10, <2>1, <2>2, <2>3, <2>4 DEF Completes
<1>13. a \in Held(<<a>>)
  BY OneState
<1> QED BY <1>9, <1>12, <1>13 DEF CanComplete

---------------------------------------------------------------------------
(* What a search has left to try.                                          *)

\* A search is at a level for each call of its stack and at the top: level k
\* has the first k calls, the states they leave, and the first entry of those
\* that its scan has not tried.
TakenAt(st, k) == {st[i].position : i \in 1..k}

StatesAt(st, ss, k) == IF k < Len(st) THEN st[k + 1].states ELSE ss

ScanAt(es, st, e, k) == IF k < Len(st) THEN InvokedAt(es, st[k + 1].position) + 1 ELSE e

\* The first call of a completion of at most n calls is yet to be tried, at a
\* level and at any.
LeftAt(name, cs, es, st, ss, e, n, k) ==
    \E l \in 0..n : \E p :
        /\ ScanAt(es, st, e, k) <= InvokedAt(es, p)
        /\ CompletesWith(name, cs, TakenAt(st, k), StatesAt(st, ss, k), l, p)

IsLeft(name, cs, es, st, ss, e, n) ==
    \E k \in 0..Len(st) : LeftAt(name, cs, es, st, ss, e, n, k)

\* The first configuration of a search, and those of its memo.
Configured(name, mm, set, zz) ==
    \/ set = {} /\ zz = <<InitOf(name)>>
    \/ \E t \in mm : set = t.required \cup t.optional /\ zz = t.states

\* A configuration that can be completed has a completion as short whose first
\* call is yet to be tried.
IsOpen(name, cs, es, st, ss, e, mm) ==
    \A n \in Nat : \A set, zz :
        Configured(name, mm, set, zz) /\ CanComplete(name, cs, set, zz, n) =>
            IsLeft(name, cs, es, st, ss, e, n)

\* More calls leave no less to try.
LEMMA LeftGrows ==
    ASSUME NEW name, NEW cs, NEW es, NEW st, NEW ss, NEW e, NEW k \in 0..Len(st),
           NEW n \in Nat, NEW m \in Nat, m <= n, LeftAt(name, cs, es, st, ss, e, m, k)
    PROVE  IsLeft(name, cs, es, st, ss, e, n)
<1>1. \A l \in 0..m : l \in 0..n
  OBVIOUS
<1>2. LeftAt(name, cs, es, st, ss, e, n, k)
  BY <1>1 DEF LeftAt
<1> QED BY <1>2 DEF IsLeft

\* The levels of a stack s with the states ss and the entry e, and those of a
\* stack t of one call more, with the states ss2 and the entry e2.
Stacks(s, t) ==
    Len(s) \in Nat /\ Len(t) = Len(s) + 1 /\ \A i \in 1..Len(s) : t[i] = s[i]

SameLevels(es, s, ss, e, t, ss2, e2) ==
    /\ \A k \in 0..Len(s) : TakenAt(t, k) = TakenAt(s, k) /\ k \in 0..Len(t)
    /\ \A k \in 0..(Len(s) - 1) : /\ StatesAt(t, ss2, k) = StatesAt(s, ss, k)
                                  /\ ScanAt(es, t, e2, k) = ScanAt(es, s, e, k)
    /\ StatesAt(t, ss2, Len(s)) = t[Len(s) + 1].states
    /\ ScanAt(es, t, e2, Len(s)) = InvokedAt(es, t[Len(s) + 1].position) + 1
    /\ StatesAt(s, ss, Len(s)) = ss /\ ScanAt(es, s, e, Len(s)) = e

\* The levels of a stack are those of the stack that it grows to.
LEMMA LevelsStay ==
    ASSUME NEW s, NEW t, Stacks(s, t), NEW es, NEW e, NEW e2, NEW ss, NEW ss2
    PROVE  SameLevels(es, s, ss, e, t, ss2, e2)
<1> USE DEF Stacks
<1>1. ASSUME NEW k \in 0..Len(s) PROVE TakenAt(t, k) = TakenAt(s, k) /\ k \in 0..Len(t)
  <2>1. \A i \in 1..k : i \in 1..Len(s)
    OBVIOUS
  <2> QED BY <2>1 DEF TakenAt
<1>2. ASSUME NEW k \in 0..(Len(s) - 1)
      PROVE  StatesAt(t, ss2, k) = StatesAt(s, ss, k) /\ ScanAt(es, t, e2, k) = ScanAt(es, s, e, k)
  <2>1. k < Len(s) /\ k < Len(t) /\ k + 1 \in 1..Len(s)
    OBVIOUS
  <2>2. t[k + 1] = s[k + 1]
    BY <2>1
  <2> QED BY <2>1, <2>2 DEF StatesAt, ScanAt
<1>3. Len(s) < Len(t) /\ ~(Len(s) < Len(s))
  OBVIOUS
<1>4. StatesAt(t, ss2, Len(s)) = t[Len(s) + 1].states /\ StatesAt(s, ss, Len(s)) = ss
  BY <1>3 DEF StatesAt
<1>5. ScanAt(es, t, e2, Len(s)) = InvokedAt(es, t[Len(s) + 1].position) + 1 /\ ScanAt(es, s, e, Len(s)) = e
  BY <1>3 DEF ScanAt
<1> QED BY <1>1, <1>2, <1>4, <1>5 DEF SameLevels

\* The top level of a search.
LEMMA TopLevel ==
    ASSUME NEW st, Listed(st), NEW o, o = [i \in DOMAIN st |-> st[i].position], NEW es, NEW e, NEW ss
    PROVE  /\ Len(st) \in Nat /\ Len(st) \in 0..Len(st)
           /\ TakenAt(st, Len(st)) = Held(o)
           /\ StatesAt(st, ss, Len(st)) = ss /\ ScanAt(es, st, e, Len(st)) = e
<1>1. Len(st) \in Nat /\ DOMAIN st = 1..Len(st)
  BY ListedFacts
<1>2. TakenAt(st, Len(st)) = Held(o)
  BY <1>1 DEF TakenAt, Held
<1>3. ~(Len(st) < Len(st))
  BY <1>1
<1>4. StatesAt(st, ss, Len(st)) = ss /\ ScanAt(es, st, e, Len(st)) = e
  BY <1>3 DEF StatesAt, ScanAt
<1> QED BY <1>1, <1>2, <1>4

\* The entry of a call that is not linearized is in the list, before its tail.
LEMMA InvocationsAreLinked ==
    ASSUME NEW name, NEW cs, NEW es, Sound(name, cs), es = EntriesOf(cs), NEW set,
           NEW p \in DOMAIN cs \ set
    PROVE  /\ InvokedAt(es, p) \in Linked(es, set) /\ InvokedAt(es, p) # Len(es) + 1
           /\ InvokedAt(es, p) \in Nat /\ InvokedAt(es, p) >= 1
<1>1. /\ InvokedAt(es, p) \in DOMAIN es /\ es[InvokedAt(es, p)].position = p
      /\ DOMAIN es = 1..Len(es) /\ Len(es) \in Nat
  BY EntryFacts
<1> QED BY <1>1 DEF Linked

\* What follows a candidate of the search.
LEMMA CandidateFollows ==
    ASSUME SearchInv, Given, NEW p \in DOMAIN calls, NEW f, f = Following(calls[p].op)
    PROVE  /\ calls[p].op.operation \in OperationsOf(model)
           /\ \A x \in Held(states) : Proper(model, x)
           /\ Listed(f) /\ Follows(model, states, calls[p].op, f)
<1>1. calls[p].op.operation \in OperationsOf(model)
  BY DEF SearchInv, CallsAreSound, Sound
<1>2. Listed(states) /\ \A x \in Held(states) : Proper(model, x)
  BY DEF SearchInv, StatesAreLeft, AreLeftBy
<1>3. PICK op : op = calls[p].op
  OBVIOUS
<1>4. /\ Listed(f)
      /\ \A s \in Held(states) : \A x \in Held(StepOf(model, s, op)) : \E k \in 1..Len(f) : Same(model, x, f[k])
  BY <1>1, <1>2, <1>3, FollowingStates DEF Given
<1>5. Follows(model, states, op, f)
  BY <1>4 DEF Follows
<1> QED BY <1>1, <1>2, <1>3, <1>4, <1>5

\* At a completion the top level has nothing left to try.
LEMMA NothingAtTop ==
    ASSUME SearchInv, Scanning, ~entries[entry].invokes, NEW l, NEW p,
           entry <= InvokedAt(entries, p), CompletesWith(model, calls, done, states, l, p)
    PROVE  FALSE
<1>1. Sound(model, calls) /\ entries = EntriesOf(calls)
  BY DEF SearchInv, CallsAreSound
<1>2. PICK q : q = entries[entry].position
  OBVIOUS
<1>3. entry \in DOMAIN entries /\ q \in DOMAIN calls \ done
  BY <1>2, ScanFacts
<1>4. q \in Required(calls) \ done /\ entry = CompletedAt(entries, q) /\ entry \in Nat
  BY <1>1, <1>2, <1>3, EntryFacts
<1>5. p \in DOMAIN calls \ done /\ InvokedAt(entries, p) < CompletedAt(entries, q)
  BY <1>1, <1>4, FirstIsCandidate
<1>6. InvokedAt(entries, p) \in Nat
  BY <1>1, <1>5, InvocationsAreLinked
<1> QED BY <1>4, <1>5, <1>6

\* When the scan goes on, all that is no longer left to try is the candidate.
LEMMA ScanTries ==
    ASSUME SearchInv, AtCandidate, NEW p, p = Candidate, NEW e, e = list.next[entry],
           NEW n \in Nat, IsLeft(model, calls, entries, stack, states, entry, n)
    PROVE  \/ IsLeft(model, calls, entries, stack, states, e, n)
           \/ \E l \in 0..n : CompletesWith(model, calls, done, states, l, p)
<1>1. /\ Sound(model, calls) /\ entries = EntriesOf(calls) /\ done = Held(Order)
      /\ Listed(stack) /\ Links(list, Linked(entries, done), Len(entries) + 1)
      /\ entry \in Linked(entries, done)
  BY DEF SearchInv, CallsAreSound, StackIsDone, ListIsSpliced, ScanIsEarly, Splices
<1>2. /\ Len(stack) \in Nat /\ Len(stack) \in 0..Len(stack) /\ TakenAt(stack, Len(stack)) = done
      /\ StatesAt(stack, states, Len(stack)) = states
      /\ ScanAt(entries, stack, entry, Len(stack)) = entry
      /\ ScanAt(entries, stack, e, Len(stack)) = e
  BY <1>1, TopLevel DEF Order
<1>3. p \in DOMAIN calls \ done /\ entry = InvokedAt(entries, p) /\ entry \in DOMAIN entries
  BY ScanFacts DEF AtCandidate, Candidate
<1>4. /\ entry # Len(entries) + 1 /\ entry \in Nat
  BY <1>1, <1>3, InvocationsAreLinked
<1>5. \A g \in Linked(entries, done) : entry < g => e <= g
  BY <1>1, <1>4 DEF Links, IsNext
<1>6. PICK k \in 0..Len(stack) : LeftAt(model, calls, entries, stack, states, entry, n, k)
  BY DEF IsLeft
<1>7. PICK l, r : /\ l \in 0..n /\ ScanAt(entries, stack, entry, k) <= InvokedAt(entries, r)
                  /\ CompletesWith(model, calls, TakenAt(stack, k), StatesAt(stack, states, k), l, r)
  BY <1>6 DEF LeftAt
<1>8. CASE k # Len(stack)
  <2>1. k < Len(stack)
    BY <1>2, <1>8
  <2>2. ScanAt(entries, stack, e, k) = ScanAt(entries, stack, entry, k)
    BY <2>1 DEF ScanAt
  <2>3. LeftAt(model, calls, entries, stack, states, e, n, k)
    BY <1>7, <2>2 DEF LeftAt
  <2> QED BY <2>3 DEF IsLeft
<1>9. CASE k = Len(stack) /\ r = p
  BY <1>2, <1>7, <1>9
<1>10. CASE k = Len(stack) /\ r # p
  <2>1. entry <= InvokedAt(entries, r) /\ CompletesWith(model, calls, done, states, l, r)
    BY <1>2, <1>7, <1>10
  <2>2. r \in DOMAIN calls \ done
    BY <1>1, <2>1, FirstIsCandidate
  <2>3. InvokedAt(entries, r) \in Linked(entries, done) /\ InvokedAt(entries, r) \in Nat
    BY <1>1, <2>2, InvocationsAreLinked
  <2>4. InvokedAt(entries, r) # InvokedAt(entries, p)
    <3>1. entries[InvokedAt(entries, r)].position = r /\ entries[InvokedAt(entries, p)].position = p
      BY <1>1, <1>3, <2>2, EntryFacts
    <3> QED BY <1>10, <3>1
  <2>5. e <= InvokedAt(entries, r)
    BY <1>3, <1>4, <1>5, <2>1, <2>3, <2>4
  <2>6. LeftAt(model, calls, entries, stack, states, e, n, Len(stack))
    BY <1>2, <1>7, <2>1, <2>5 DEF LeftAt
  <2> QED BY <1>2, <2>6 DEF IsLeft
<1> QED BY <1>8, <1>9, <1>10

\* A rejected candidate begins no completion.
LEMMA RejectKeepsOpen ==
    ASSUME SearchInv, Given, Reject, IsOpen(model, calls, entries, stack, states, entry, memo)
    PROVE  IsOpen(model, calls, entries, stack, states, entry', memo)
<1>1. PICK p, e, f : p = Candidate /\ e = list.next[entry] /\ f = Following(calls[p].op)
  OBVIOUS
<1>2. AtCandidate /\ f = <<>> /\ entry' = e
  BY <1>1 DEF Reject, Steps
<1>3. p \in DOMAIN calls
  BY <1>1, <1>2, ScanFacts DEF AtCandidate, Candidate
<1>4. /\ calls[p].op.operation \in OperationsOf(model)
      /\ \A x \in Held(states) : Proper(model, x)
      /\ Listed(f) /\ Follows(model, states, calls[p].op, f)
  BY <1>1, <1>3, CandidateFollows
<1>5. \A l : ~CompletesWith(model, calls, done, states, l, p)
  <2> SUFFICES ASSUME NEW l, CompletesWith(model, calls, done, states, l, p) PROVE FALSE
    OBVIOUS
  <2>1. f # <<>>
    BY <1>4, RestCompletes DEF Given
  <2> QED BY <1>2, <2>1
<1>6. ASSUME NEW n \in Nat, IsLeft(model, calls, entries, stack, states, entry, n)
      PROVE  IsLeft(model, calls, entries, stack, states, e, n)
  BY <1>1, <1>2, <1>5, <1>6, ScanTries
<1> QED BY <1>2, <1>6 DEF IsOpen

\* What a covered candidate leads to has a shorter completion, and so has the
\* configuration that covers it: that one's is left to try.
LEMMA SkipKeepsOpen ==
    ASSUME SearchInv, Given, Skip, IsOpen(model, calls, entries, stack, states, entry, memo)
    PROVE  IsOpen(model, calls, entries, stack, states, entry', memo)
<1>1. PICK p, e, f : p = Candidate /\ e = list.next[entry] /\ f = Following(calls[p].op)
  OBVIOUS
<1>2. AtCandidate /\ Covered(done \cup {p}, f) /\ entry' = e
  BY <1>1 DEF Skip, Steps
<1>3. p \in DOMAIN calls
  BY <1>1, <1>2, ScanFacts DEF AtCandidate, Candidate
<1>4. /\ calls[p].op.operation \in OperationsOf(model)
      /\ \A x \in Held(states) : Proper(model, x)
      /\ Listed(f) /\ Follows(model, states, calls[p].op, f)
  BY <1>1, <1>3, CandidateFollows
<1>5. PICK taken \in memo : Covers(taken, done \cup {p}, f)
  BY <1>2 DEF Covered
<1>6. PICK set, zz : set = taken.required \cup taken.optional /\ zz = taken.states
  OBVIOUS
<1>7. Configured(model, memo, set, zz)
  BY <1>6 DEF Configured
<1>8. /\ set \subseteq done \cup {p}
      /\ Required(calls) \ set = Required(calls) \ (done \cup {p})
  BY <1>5, <1>6 DEF Covers, RequiredIn, OptionalIn
<1>9. \A s \in Held(f) : \E t \in Held(zz) : Same(model, s, t)
  BY <1>5, <1>6 DEF Covers, SameStates, Equal, Held
<1> DEFINE S == {n \in Nat : \E c, d : /\ Configured(model, memo, c, d)
                                       /\ CanComplete(model, calls, c, d, n)
                                       /\ ~IsLeft(model, calls, entries, stack, states, e, n)}
<1>10. SUFFICES ASSUME S # {} PROVE FALSE
  BY <1>2 DEF IsOpen
<1>11. PICK n \in S : \A m \in S : n <= m
  <2>1. S \in SUBSET Nat
    OBVIOUS
  <2> HIDE DEF S
  <2> QED BY <1>10, <2>1, LeastNumber
<1>12. PICK c, d : /\ Configured(model, memo, c, d) /\ CanComplete(model, calls, c, d, n)
                   /\ ~IsLeft(model, calls, entries, stack, states, e, n) /\ n \in Nat
  OBVIOUS
<1>13. IsLeft(model, calls, entries, stack, states, entry, n)
  BY <1>12 DEF IsOpen
<1>14. PICK l \in 0..n : CompletesWith(model, calls, done, states, l, p)
  BY <1>1, <1>2, <1>12, <1>13, ScanTries
<1>15. l - 1 \in Nat /\ CanComplete(model, calls, done \cup {p}, f, l - 1)
  BY <1>4, <1>14, RestCompletes DEF Given
<1>16. PICK m : m = l - 1
  OBVIOUS
<1>17. m \in Nat /\ m < n /\ m <= n
  BY <1>12, <1>15, <1>16
<1>18. CanComplete(model, calls, set, zz, m)
  BY <1>8, <1>9, <1>15, <1>16, CoverCompletes
<1>19. m \notin S
  BY <1>11, <1>12, <1>17
<1>20. IsLeft(model, calls, entries, stack, states, e, m)
  BY <1>7, <1>17, <1>18, <1>19
<1>21. PICK k \in 0..Len(stack) : LeftAt(model, calls, entries, stack, states, e, m, k)
  BY <1>20 DEF IsLeft
<1>22. IsLeft(model, calls, entries, stack, states, e, n)
  BY <1>12, <1>17, <1>21, LeftGrows
<1> QED BY <1>12, <1>22

---------------------------------------------------------------------------
(* What a turn leaves to try.                                              *)

\* While a required call is left, what can be completed at the head of the
\* list is left to try there.
LEMMA HeadIsLeft ==
    ASSUME NEW name, NEW cs, NEW es, Sound(name, cs), es = EntriesOf(cs), NEW o,
           NEW l, Splices(es, cs, l, o), NEW st, Listed(st), o = [i \in DOMAIN st |-> st[i].position],
           NEW ss, NEW e, e = l.next[0], NEW q \in Required(cs) \ Held(o),
           NEW n, CanComplete(name, cs, Held(o), ss, n)
    PROVE  n \in Nat /\ LeftAt(name, cs, es, st, ss, e, n, Len(st))
<1>1. PICK r : n \in Nat /\ CompletesWith(name, cs, Held(o), ss, n, r)
  BY FirstCall
<1>2. r \in DOMAIN cs \ Held(o)
  BY <1>1, FirstIsCandidate
<1>3. /\ InvokedAt(es, r) \in Linked(es, Held(o)) /\ InvokedAt(es, r) \in Nat /\ InvokedAt(es, r) >= 1
  BY <1>2, InvocationsAreLinked
<1>4. Len(es) \in Nat /\ 0 \in Linked(es, Held(o)) \ {Len(es) + 1}
  BY EntryFacts DEF Linked
<1>5. e <= InvokedAt(es, r)
  BY <1>3, <1>4 DEF Splices, Links, IsNext
<1>6. /\ TakenAt(st, Len(st)) = Held(o)
      /\ StatesAt(st, ss, Len(st)) = ss /\ ScanAt(es, st, e, Len(st)) = e
  BY TopLevel
<1>7. n \in 0..n
  BY <1>1
<1> QED BY <1>1, <1>5, <1>6, <1>7 DEF LeftAt

\* The level that Linearize leaves goes on after its candidate, and what the
\* candidate begins is left to try at the new one.
LEMMA LinearizeKeepsOpen ==
    ASSUME SearchInv, SearchInv', Given, Linearize, open' > 0,
           IsOpen(model, calls, entries, stack, states, entry, memo)
    PROVE  IsOpen(model, calls, entries, stack', states', entry', memo')
<1>1. PICK p, f, o2, n0 : /\ p = Candidate /\ n0 = Len(stack) /\ f = Following(calls[p].op)
                          /\ o2 = [i \in DOMAIN stack' |-> stack'[i].position]
  OBVIOUS
<1>2. Order' = o2
  BY <1>1 DEF Order
<1>3. /\ AtCandidate
      /\ memo' = memo \cup {[required |-> RequiredIn(done \cup {p}),
                             optional |-> OptionalIn(done \cup {p}),
                             states   |-> f]}
      /\ stack' = Append(stack, [position |-> p, states |-> states])
      /\ done' = done \cup {p} /\ states' = f
      /\ entry' = list'.next[0]
      /\ UNCHANGED <<model, calls, entries>>
  BY <1>1 DEF Linearize, Steps, given
<1>4. /\ Sound(model, calls) /\ entries = EntriesOf(calls) /\ done = Held(Order) /\ Listed(stack)
  BY DEF SearchInv, CallsAreSound, StackIsDone
<1>5. /\ Listed(stack') /\ done' = Held(o2) /\ Splices(entries, calls, list', o2)
      /\ open' = Cardinality(Required(calls) \ done')
  BY <1>2, <1>3 DEF SearchInv, StackIsDone, ListIsSpliced, ScanIsEarly
<1>6. PICK q : q \in Required(calls) \ Held(o2)
  <2>1. PICK left : left = Required(calls) \ done'
    OBVIOUS
  <2>2. left # {}
    BY <1>5, <2>1, FS_EmptySet
  <2> QED BY <1>5, <2>1, <2>2
<1>7. p \in DOMAIN calls \ done /\ entry = InvokedAt(entries, p)
  BY <1>1, <1>3, ScanFacts DEF AtCandidate, Candidate
<1>8. /\ calls[p].op.operation \in OperationsOf(model)
      /\ \A x \in Held(states) : Proper(model, x)
      /\ Listed(f) /\ Follows(model, states, calls[p].op, f)
  BY <1>1, <1>7, CandidateFollows
<1>9. /\ Len(stack') = n0 + 1 /\ n0 \in Nat
      /\ stack'[n0 + 1].position = p /\ stack'[n0 + 1].states = states
      /\ \A i \in 1..n0 : stack'[i] = stack[i]
  <2>1. PICK x : x = [position |-> p, states |-> states]
    OBVIOUS
  <2>2. stack' = Append(stack, x)
    BY <1>3, <2>1
  <2>3. /\ Len(stack') = n0 + 1 /\ stack'[n0 + 1] = x
        /\ \A i \in 1..n0 : stack'[i] = stack[i]
    BY <1>1, <1>4, <2>2, ListedAppend
  <2>4. n0 \in Nat
    BY <1>1, <1>4, ListedFacts
  <2> QED BY <2>1, <2>3, <2>4
<1>10. /\ \A k \in 0..n0 : TakenAt(stack', k) = TakenAt(stack, k) /\ k \in 0..Len(stack')
       /\ \A k \in 0..(n0 - 1) : /\ StatesAt(stack', f, k) = StatesAt(stack, states, k)
                                 /\ ScanAt(entries, stack', entry', k) = ScanAt(entries, stack, entry, k)
       /\ StatesAt(stack', f, n0) = states /\ ScanAt(entries, stack', entry', n0) = entry + 1
       /\ StatesAt(stack, states, n0) = states /\ ScanAt(entries, stack, entry, n0) = entry
  <2>1. PICK s, t, e, ss : s = stack /\ t = stack' /\ e = entry' /\ ss = states
    OBVIOUS
  <2>2. /\ Len(s) = n0 /\ Stacks(s, t)
        /\ t[n0 + 1].states = ss /\ InvokedAt(entries, t[n0 + 1].position) = entry
    BY <1>1, <1>7, <1>9, <2>1 DEF Stacks
  <2>3. SameLevels(entries, s, states, entry, t, f, e)
    BY <2>2, LevelsStay
  <2> QED BY <2>1, <2>2, <2>3 DEF SameLevels
<1>11. TakenAt(stack, n0) = done
  BY <1>1, <1>4, TopLevel DEF Order
<1>12. ASSUME NEW n, CanComplete(model, calls, done', f, n)
       PROVE  n \in Nat /\ LeftAt(model, calls, entries, stack', f, entry', n, Len(stack'))
  <2>1. PICK l, t, e : l = list' /\ t = stack' /\ e = entry'
    OBVIOUS
  <2>2. /\ Splices(entries, calls, l, o2) /\ Listed(t) /\ o2 = [i \in DOMAIN t |-> t[i].position]
        /\ e = l.next[0] /\ CanComplete(model, calls, Held(o2), f, n)
    BY <1>1, <1>3, <1>5, <1>12, <2>1
  <2>3. n \in Nat /\ LeftAt(model, calls, entries, t, f, e, n, Len(t))
    BY <1>4, <1>6, <2>2, HeadIsLeft
  <2> QED BY <2>1, <2>3
<1>13. Len(stack') \in 0..Len(stack')
  BY <1>9
<1>14. ASSUME NEW n \in Nat, IsLeft(model, calls, entries, stack, states, entry, n)
       PROVE  IsLeft(model, calls, entries, stack', f, entry', n)
  <2>1. PICK k \in 0..n0 : LeftAt(model, calls, entries, stack, states, entry, n, k)
    BY <1>1, <1>14 DEF IsLeft
  <2>2. PICK l, r : /\ l \in 0..n /\ ScanAt(entries, stack, entry, k) <= InvokedAt(entries, r)
                    /\ CompletesWith(model, calls, TakenAt(stack, k), StatesAt(stack, states, k), l, r)
    BY <2>1 DEF LeftAt
  <2>3. CASE k # n0
    <3>1. k \in 0..(n0 - 1)
      BY <1>9, <2>3
    <3>2. LeftAt(model, calls, entries, stack', f, entry', n, k)
      BY <1>10, <2>2, <3>1 DEF LeftAt
    <3> QED BY <1>10, <3>2 DEF IsLeft
  <2>4. CASE k = n0 /\ r = p
    <3>1. CompletesWith(model, calls, done, states, l, p)
      BY <1>10, <1>11, <2>2, <2>4
    <3>2. l - 1 \in Nat /\ CanComplete(model, calls, done', f, l - 1)
      BY <1>3, <1>8, <3>1, RestCompletes DEF Given
    <3>3. PICK m : m = l - 1
      OBVIOUS
    <3>4. m \in Nat /\ m <= n /\ LeftAt(model, calls, entries, stack', f, entry', m, Len(stack'))
      BY <1>12, <2>2, <3>2, <3>3
    <3> QED BY <1>13, <3>4, LeftGrows
  <2>5. CASE k = n0 /\ r # p
    <3>1. entry <= InvokedAt(entries, r) /\ CompletesWith(model, calls, done, states, l, r)
      BY <1>10, <1>11, <2>2, <2>5
    <3>2. r \in DOMAIN calls \ done
      BY <1>4, <3>1, FirstIsCandidate
    <3>3. InvokedAt(entries, r) \in Nat /\ entry \in Nat
      BY <1>4, <1>7, <3>2, InvocationsAreLinked
    <3>4. InvokedAt(entries, r) # InvokedAt(entries, p)
      <4>1. entries[InvokedAt(entries, r)].position = r /\ entries[InvokedAt(entries, p)].position = p
        BY <1>4, <1>7, <3>2, EntryFacts
      <4> QED BY <2>5, <4>1
    <3>5. entry + 1 <= InvokedAt(entries, r)
      BY <1>7, <3>1, <3>3, <3>4
    <3>6. n0 \in 0..n0
      BY <1>9
    <3>7. LeftAt(model, calls, entries, stack', f, entry', n, n0)
      BY <1>10, <1>11, <2>2, <3>1, <3>5, <3>6 DEF LeftAt
    <3> QED BY <1>10, <3>6, <3>7 DEF IsLeft
  <2> QED BY <2>3, <2>4, <2>5
<1>15. ASSUME NEW n \in Nat, NEW set, NEW zz, Configured(model, memo', set, zz),
              CanComplete(model, calls, set, zz, n)
       PROVE  IsLeft(model, calls, entries, stack', f, entry', n)
  <2>1. CASE Configured(model, memo, set, zz)
    <3>1. IsLeft(model, calls, entries, stack, states, entry, n)
      BY <1>15, <2>1 DEF IsOpen
    <3> QED BY <1>14, <3>1
  <2>2. CASE ~Configured(model, memo, set, zz)
    <3>1. PICK t \in memo' : set = t.required \cup t.optional /\ zz = t.states /\ t \notin memo
      BY <1>15, <2>2 DEF Configured
    <3>2. /\ t.required = RequiredIn(done \cup {p}) /\ t.optional = OptionalIn(done \cup {p})
          /\ t.states = f
      BY <1>3, <3>1
    <3>3. set = done' /\ zz = f
      BY <1>3, <3>1, <3>2 DEF RequiredIn, OptionalIn
    <3>4. LeftAt(model, calls, entries, stack', f, entry', n, Len(stack'))
      BY <1>12, <1>15, <3>3
    <3> QED BY <1>13, <3>4 DEF IsLeft
  <2> QED BY <2>1, <2>2
<1> QED BY <1>3, <1>15 DEF IsOpen

\* Nothing is lost with the level that Backtrack leaves, and the one below
\* goes on after the call that is undone.
LEMMA BacktrackKeepsOpen ==
    ASSUME SearchInv, SearchInv', Backtrack,
           IsOpen(model, calls, entries, stack, states, entry, memo)
    PROVE  IsOpen(model, calls, entries, stack', states', entry', memo')
<1>1. PICK p, o, o2, n0 : /\ p = Last(stack).position /\ n0 = Len(stack')
                          /\ o = [i \in DOMAIN stack' |-> stack'[i].position]
                          /\ o2 = [i \in DOMAIN stack |-> stack[i].position]
  OBVIOUS
<1>2. Order = o2 /\ Order' = o
  BY <1>1 DEF Order
<1>3. /\ Scanning /\ ~entries[entry].invokes
      /\ stack # <<>> /\ stack' = Front(stack) /\ states' = Last(stack).states
      /\ entry' = list'.next[InvokedAt(entries, p)]
      /\ UNCHANGED <<model, calls, entries, memo>>
  BY <1>1 DEF Backtrack, given, Invocation, InvokedAt
<1>4. /\ Sound(model, calls) /\ entries = EntriesOf(calls) /\ done = Held(o2) /\ Listed(stack)
      /\ IsOrder(calls, o2)
  BY <1>2 DEF SearchInv, CallsAreSound, StackIsDone
<1>5. /\ Listed(stack') /\ done' = Held(o) /\ Splices(entries, calls, list', o)
  BY <1>2, <1>3 DEF SearchInv, StackIsDone, ListIsSpliced
<1>6. /\ AddsCall(o, p, o2)
      /\ Len(stack) = n0 + 1 /\ stack[n0 + 1] = Last(stack)
      /\ \A i \in 1..n0 : stack[i] = stack'[i]
  BY <1>1, <1>3, <1>4, PopTakesCall
<1>7. p \in DOMAIN calls \ Held(o)
  BY <1>4, <1>6, OrderGrows
<1>8. n0 \in Nat
  BY <1>1, <1>5, ListedFacts
<1>9. /\ \A k \in 0..n0 : TakenAt(stack, k) = TakenAt(stack', k) /\ k \in 0..Len(stack)
      /\ \A k \in 0..(n0 - 1) : /\ StatesAt(stack, states, k) = StatesAt(stack', states', k)
                                /\ ScanAt(entries, stack, entry, k) = ScanAt(entries, stack', entry', k)
      /\ StatesAt(stack, states, n0) = states' /\ ScanAt(entries, stack, entry, n0) = InvokedAt(entries, p) + 1
      /\ StatesAt(stack', states', n0) = states' /\ ScanAt(entries, stack', entry', n0) = entry'
  <2>1. PICK s, t, e, ss : s = stack' /\ t = stack /\ e = entry' /\ ss = states'
    OBVIOUS
  <2>2. /\ Len(s) = n0 /\ Stacks(s, t)
        /\ t[n0 + 1].states = ss /\ t[n0 + 1].position = p
    BY <1>1, <1>3, <1>6, <1>8, <2>1 DEF Stacks
  <2>3. SameLevels(entries, s, ss, e, t, states, entry)
    BY <2>2, LevelsStay
  <2> QED BY <2>1, <2>2, <2>3 DEF SameLevels
<1>10. TakenAt(stack', n0) = Held(o)
  BY <1>1, <1>5, TopLevel
<1>11. /\ TakenAt(stack, Len(stack)) = done
       /\ StatesAt(stack, states, Len(stack)) = states /\ ScanAt(entries, stack, entry, Len(stack)) = entry
  BY <1>1, <1>4, TopLevel
<1>12. ASSUME NEW n \in Nat, IsLeft(model, calls, entries, stack, states, entry, n)
       PROVE  IsLeft(model, calls, entries, stack', states', entry', n)
  <2>1. PICK k \in 0..(n0 + 1) : LeftAt(model, calls, entries, stack, states, entry, n, k)
    BY <1>6, <1>12 DEF IsLeft
  <2>2. PICK l, r : /\ l \in 0..n /\ ScanAt(entries, stack, entry, k) <= InvokedAt(entries, r)
                    /\ CompletesWith(model, calls, TakenAt(stack, k), StatesAt(stack, states, k), l, r)
    BY <2>1 DEF LeftAt
  <2>3. CASE k \in 0..(n0 - 1)
    <3>1. LeftAt(model, calls, entries, stack', states', entry', n, k) /\ k \in 0..n0
      BY <1>8, <1>9, <2>2, <2>3 DEF LeftAt
    <3> QED BY <1>1, <3>1 DEF IsLeft
  <2>4. CASE k = n0
    <3>1. /\ InvokedAt(entries, p) + 1 <= InvokedAt(entries, r)
          /\ CompletesWith(model, calls, Held(o), states', l, r)
      <4>1. n0 \in 0..n0
        BY <1>8
      <4> QED BY <1>9, <1>10, <2>2, <2>4, <4>1
    <3>2. r \in DOMAIN calls \ Held(o)
      BY <1>4, <3>1, FirstIsCandidate
    <3>3. /\ InvokedAt(entries, r) \in Linked(entries, Held(o)) /\ InvokedAt(entries, r) \in Nat
      BY <1>4, <3>2, InvocationsAreLinked
    <3>4. /\ InvokedAt(entries, p) \in Linked(entries, Held(o)) /\ InvokedAt(entries, p) \in Nat
          /\ InvokedAt(entries, p) # Len(entries) + 1
      BY <1>4, <1>7, InvocationsAreLinked
    <3>5. entry' <= InvokedAt(entries, r)
      <4>1. IsNext(Linked(entries, Held(o)), InvokedAt(entries, p), entry')
        BY <1>3, <1>5, <3>4 DEF Splices, Links
      <4>2. InvokedAt(entries, p) < InvokedAt(entries, r)
        BY <3>1, <3>3, <3>4
      <4> QED BY <3>3, <4>1, <4>2 DEF IsNext
    <3>6. LeftAt(model, calls, entries, stack', states', entry', n, n0)
      BY <1>9, <1>10, <2>2, <3>1, <3>5 DEF LeftAt
    <3>7. n0 \in 0..Len(stack')
      BY <1>1, <1>8
    <3> QED BY <3>6, <3>7 DEF IsLeft
  <2>5. CASE k = n0 + 1
    <3>1. entry <= InvokedAt(entries, r) /\ CompletesWith(model, calls, done, states, l, r)
      BY <1>6, <1>11, <2>2, <2>5
    <3> QED BY <1>3, <3>1, NothingAtTop
  <2> QED BY <1>8, <2>3, <2>4, <2>5
<1> QED BY <1>3, <1>12 DEF IsOpen

\* A search that backtracks below its first call has tried everything.
LEMMA ViolatedIsTried ==
    ASSUME SearchInv, Given, Violate, IsOpen(model, calls, entries, stack, states, entry, memo)
    PROVE  ~IsLinearizable(model, calls)
<1> SUFFICES ASSUME IsLinearizable(model, calls) PROVE FALSE
  OBVIOUS
<1>1. Scanning /\ ~entries[entry].invokes /\ stack = <<>>
  BY DEF Violate
<1>2. Sound(model, calls) /\ done = Held(Order) /\ Listed(stack) /\ Len(stack) = 0
  BY <1>1 DEF SearchInv, CallsAreSound, StackIsDone
<1>3. PICK zz, n : zz = <<InitOf(model)>> /\ CanComplete(model, calls, {}, zz, n)
  BY <1>2, WitnessCompletes DEF Given
<1>4. n \in Nat
  BY <1>3 DEF CanComplete, Completes
<1>5. Configured(model, memo, {}, zz)
  BY <1>3 DEF Configured
<1>6. IsLeft(model, calls, entries, stack, states, entry, n)
  BY <1>3, <1>4, <1>5 DEF IsOpen
<1>7. PICK k \in 0..Len(stack) : LeftAt(model, calls, entries, stack, states, entry, n, k)
  BY <1>6 DEF IsLeft
<1>8. k = Len(stack)
  BY <1>2
<1>9. PICK l, r : /\ l \in 0..n /\ ScanAt(entries, stack, entry, k) <= InvokedAt(entries, r)
                  /\ CompletesWith(model, calls, TakenAt(stack, k), StatesAt(stack, states, k), l, r)
  BY <1>7 DEF LeftAt
<1>10. /\ TakenAt(stack, Len(stack)) = done
       /\ StatesAt(stack, states, Len(stack)) = states /\ ScanAt(entries, stack, entry, Len(stack)) = entry
  BY <1>2, TopLevel DEF Order
<1>11. entry <= InvokedAt(entries, r) /\ CompletesWith(model, calls, done, states, l, r)
  BY <1>8, <1>9, <1>10
<1> QED BY <1>1, <1>11, NothingAtTop

\* A search that can go on has something to try for each configuration that
\* can be completed, and a violated one has tried everything.
SearchIsOpen ==
    /\ Scanning => IsOpen(model, calls, entries, stack, states, entry, memo)
    /\ outcome = "violated" => ~IsLinearizable(model, calls)

\* Every turn keeps this.
LEMMA TurnKeepsOpen == SearchInv /\ SearchInv' /\ Given /\ SearchIsOpen /\ SearchNext => SearchIsOpen'
<1> SUFFICES ASSUME SearchInv, SearchInv', Given, SearchIsOpen, SearchNext PROVE SearchIsOpen'
  OBVIOUS
<1>1. CASE Pass
  BY <1>1 DEF Pass, SearchIsOpen, Scanning
<1>2. CASE Violate
  <2>1. ~IsLinearizable(model, calls)
    BY <1>2, ViolatedIsTried DEF SearchIsOpen, Violate
  <2>2. outcome' = "violated" /\ UNCHANGED <<model, calls>>
    BY <1>2 DEF Violate, given
  <2> QED BY <2>1, <2>2 DEF SearchIsOpen, Scanning
<1>3. CASE Backtrack
  <2>1. IsOpen(model, calls, entries, stack', states', entry', memo')
    BY <1>3, BacktrackKeepsOpen DEF SearchIsOpen, Backtrack
  <2>2. outcome' = "searching" /\ UNCHANGED <<model, calls, entries>>
    BY <1>3 DEF Backtrack, Scanning, ending, given
  <2> QED BY <2>1, <2>2 DEF SearchIsOpen
<1>4. CASE OverBudget \/ OverMemo
  <2>1. outcome' = "undecided"
    BY <1>4 DEF OverBudget, OverMemo, Stop
  <2> QED BY <2>1 DEF SearchIsOpen, Scanning
<1>5. CASE Reject
  <2>1. IsOpen(model, calls, entries, stack, states, entry', memo)
    BY <1>5, RejectKeepsOpen DEF SearchIsOpen, Reject, Steps, AtCandidate
  <2>2. outcome' = "searching" /\ UNCHANGED <<model, calls, entries, stack, states, memo>>
    BY <1>5 DEF Reject, Steps, AtCandidate, Scanning, ending, given, configuration
  <2> QED BY <2>1, <2>2 DEF SearchIsOpen
<1>6. CASE Skip
  <2>1. IsOpen(model, calls, entries, stack, states, entry', memo)
    BY <1>6, SkipKeepsOpen DEF SearchIsOpen, Skip, Steps, AtCandidate
  <2>2. outcome' = "searching" /\ UNCHANGED <<model, calls, entries, stack, states, memo>>
    BY <1>6 DEF Skip, Steps, AtCandidate, Scanning, ending, given, configuration
  <2> QED BY <2>1, <2>2 DEF SearchIsOpen
<1>7. CASE Linearize
  <2>1. Scanning /\ outcome' = "searching" /\ UNCHANGED <<model, calls, entries>>
    BY <1>7 DEF Linearize, Steps, AtCandidate, Scanning, ending, given
  <2>2. open' > 0 => IsOpen(model, calls, entries, stack', states', entry', memo')
    BY <1>7, <2>1, LinearizeKeepsOpen DEF SearchIsOpen
  <2> QED BY <2>1, <2>2 DEF SearchIsOpen, Scanning
<1> QED BY <1>1, <1>2, <1>3, <1>4, <1>5, <1>6, <1>7 DEF SearchNext

\* A search starts with everything to try.
LEMMA StartIsOpen ==
    ASSUME Given, NEW cs, Sound(model, cs), Start(cs), UNCHANGED model
    PROVE  SearchIsOpen'
<1>1. PICK es, zz : es = EntriesOf(cs) /\ zz = <<InitOf(model)>>
  OBVIOUS
<1>2. /\ calls' = cs /\ entries' = es /\ entry' = 1 /\ open' = Cardinality(Required(cs))
      /\ states' = zz /\ stack' = <<>> /\ memo' = {} /\ outcome' = "searching"
  BY <1>1 DEF Start
<1>3. Listed(<<>>) /\ Len(<<>>) = 0 /\ TakenAt(<<>>, 0) = {}
  <2>1. Listed(<<>>)
    BY OneState
  <2> QED BY <2>1 DEF TakenAt
<1>4. StatesAt(<<>>, zz, 0) = zz /\ ScanAt(es, <<>>, 1, 0) = 1
  BY <1>3 DEF StatesAt, ScanAt
<1>5. ASSUME open' > 0, NEW n \in Nat, NEW set, NEW c, Configured(model, {}, set, c),
             CanComplete(model, cs, set, c, n)
      PROVE  IsLeft(model, cs, es, <<>>, zz, 1, n)
  <2>1. set = {} /\ c = zz
    BY <1>1, <1>5 DEF Configured
  <2>2. PICK q : q \in Required(cs) \ {}
    <3>1. PICK left : left = Required(cs)
      OBVIOUS
    <3>2. left # {}
      BY <1>2, <1>5, <3>1, FS_EmptySet
    <3> QED BY <3>1, <3>2
  <2>3. PICK r : CompletesWith(model, cs, {}, zz, n, r)
    BY <1>5, <2>1, <2>2, FirstCall
  <2>4. InvokedAt(es, r) >= 1 /\ InvokedAt(es, r) \in Nat
    <3>1. r \in DOMAIN cs \ {}
      BY <1>1, <2>3, FirstIsCandidate
    <3> QED BY <1>1, <3>1, InvocationsAreLinked
  <2>5. n \in 0..n /\ 1 <= InvokedAt(es, r)
    BY <2>4
  <2>6. LeftAt(model, cs, es, <<>>, zz, 1, n, 0)
    BY <1>3, <1>4, <2>3, <2>5 DEF LeftAt
  <2> QED BY <1>3, <2>6 DEF IsLeft
<1>6. open' > 0 => IsOpen(model, cs, es, <<>>, zz, 1, {})
  BY <1>5 DEF IsOpen
<1> QED BY <1>2, <1>6 DEF SearchIsOpen, Scanning

---------------------------------------------------------------------------
(* What a verdict says of the partitions.                                  *)

Fits(i) == IsLinearizable(model, parts[i].calls)

PassIsDone == outcome = "passed" => open = 0

\* The partition that is searched is one of the parts, and the partitions
\* before it passed, up to the first undecided one.
PartIsNext ==
    /\ at \in 0..Len(parts) /\ undecided \in 0..at
    /\ outcome = "idle" <=> at = 0
    /\ outcome # "idle" => calls = parts[at].calls
    /\ stage = "recording" => at = 0
    /\ verdict # "none" => stage = "checked"
    /\ \A i \in 1..(at - 1) : undecided = NoPart \/ i < undecided => Fits(i)

VerdictIsEarned ==
    /\ verdict = "passed" => \A i \in 1..Len(parts) : Fits(i)
    /\ verdict = "violated" => at \in 1..Len(parts) /\ ~Fits(at)
    /\ undecided # NoPart => \A i \in 1..(undecided - 1) : Fits(i)

VerdictInv == LinInv /\ PassIsDone /\ SearchIsOpen /\ PartIsNext /\ VerdictIsEarned

\* A search that passed has linearized every required call: its order is the
\* witness that the definition of linearizability asks for.
LEMMA PassedFits == LinInv /\ PassIsDone /\ outcome = "passed" => IsLinearizable(model, calls)
<1> SUFFICES ASSUME LinInv, PassIsDone, outcome = "passed" PROVE IsLinearizable(model, calls)
  OBVIOUS
<1>1. SearchInv /\ open = 0
  BY DEF LinInv, PassIsDone
<1>2. PICK o, n, left, extra : /\ o = Order /\ n = Len(o) /\ left = Required(calls) \ done
                               /\ extra = done \ Required(calls)
  OBVIOUS
<1>3. /\ IsOrder(calls, o) /\ done = Held(o) /\ Listed(o) /\ Listed(calls)
      /\ open = Cardinality(Required(calls) \ done)
  BY <1>1, <1>2 DEF SearchInv, StackIsDone, ScanIsEarly, IsOrder, CallsAreSound, Sound
<1>4. n \in Nat /\ DOMAIN o = 1..n /\ \A i \in 1..n : o[i] \in done /\ o[i] \in DOMAIN calls
  BY <1>2, <1>3, ListedFacts DEF IsOrder
<1>5. \A x \in done : x \in DOMAIN calls
  <2> SUFFICES ASSUME NEW x \in done PROVE x \in DOMAIN calls
    OBVIOUS
  <2>1. PICK i \in 1..n : o[i] = x
    BY <1>2, <1>3, ListedFacts
  <2> QED BY <1>4, <2>1
<1>6. Required(calls) \subseteq done
  <2>1. Cardinality(left) = 0 /\ IsFiniteSet(Required(calls))
    BY <1>1, <1>2, <1>3, RequiredAre
  <2>2. IsFiniteSet(left)
    BY <1>2, <2>1, FS_Subset
  <2> QED BY <1>2, <2>1, <2>2, FS_EmptySet
<1>7. done = Required(calls) \cup extra /\ extra \in SUBSET (DOMAIN calls \ Required(calls))
  BY <1>2, <1>5, <1>6
<1>8. o \in SetToSeqs(done)
  <2>1. \A i, j \in 1..n : i # j => o[i] # o[j]
    BY <1>2, <1>3 DEF IsOrder
  <2>2. IsInjective(o)
    BY <1>4, <2>1 DEF IsInjective
  <2>3. n = Cardinality(done)
    BY <1>2, <1>3, <2>2, InjectiveLength
  <2>4. o \in [1..n -> done]
    <3>1. o = [i \in 1..n |-> o[i]]
      BY <1>2, <1>3, ListedFacts DEF Listed
    <3> QED BY <1>4, <3>1
  <2> QED BY <2>1, <2>3, <2>4 DEF SetToSeqs
<1>9. o \in OrdersOf(calls)
  BY <1>7, <1>8 DEF OrdersOf
<1>10. KeepsPrecedence(calls, o) /\ Reached(model, calls, o) # {}
  BY <1>1, <1>2, LegalConfiguration DEF ConfigurationIsItsOrders, LinInv
<1> QED BY <1>9, <1>10 DEF IsLinearizable

\* What a search has left does not depend on the check.
LEMMA OpenStays == SearchIsOpen /\ UNCHANGED svars => SearchIsOpen'
  BY DEF SearchIsOpen, Scanning, svars, given, configuration, ending

\* The verdict's invariant holds before the check.
LEMMA InitVerdictInv == CheckInit => VerdictInv
<1> SUFFICES ASSUME CheckInit PROVE VerdictInv
  OBVIOUS
<1>1. LinInv
  BY InitLinInv
<1>2. Len(parts) = 0
  BY OneState DEF CheckInit
<1> QED BY <1>1, <1>2 DEF VerdictInv, PassIsDone, SearchIsOpen, Scanning, PartIsNext,
      VerdictIsEarned, CheckInit, Idle, NoPart

\* The next partition, or the verdict, keeps what is known of the ones before.
LEMMA PassedBefore ==
    ASSUME VerdictInv, stage = "checking", NEW u, u = IF outcome = "undecided" THEN FirstUndecided(at) ELSE undecided
    PROVE  /\ u \in 0..at
           /\ \A i \in 1..(at - 1) : u = NoPart \/ i < u => Fits(i)
           /\ at # 0 /\ outcome \in {"passed", "undecided"} /\ (u = NoPart \/ at < u) => Fits(at)
           /\ u # NoPart => \A i \in 1..(u - 1) : Fits(i)
<1>1. /\ at \in Nat /\ undecided \in 0..at /\ NoPart = 0
      /\ outcome = "idle" <=> at = 0
      /\ outcome # "idle" => calls = parts[at].calls
      /\ \A i \in 1..(at - 1) : undecided = NoPart \/ i < undecided => Fits(i)
      /\ undecided # NoPart => \A i \in 1..(undecided - 1) : Fits(i)
  BY DEF VerdictInv, LinInv, PartIsNext, VerdictIsEarned, NoPart
<1>2. outcome = "passed" => Fits(at)
  <2> SUFFICES ASSUME outcome = "passed" PROVE Fits(at)
    OBVIOUS
  <2>1. IsLinearizable(model, calls)
    BY PassedFits DEF VerdictInv
  <2> QED BY <1>1, <2>1 DEF Fits
<1>3. CASE outcome = "undecided" /\ undecided = NoPart
  <2>1. u = at /\ at # 0
    BY <1>1, <1>3 DEF FirstUndecided
  <2> QED BY <1>1, <1>2, <1>3, <2>1
<1>4. CASE outcome # "undecided" \/ undecided # NoPart
  <2>1. u = undecided
    BY <1>4 DEF FirstUndecided
  <2>2. outcome = "undecided" => u # NoPart /\ ~(at < u)
    BY <1>1, <1>4, <2>1
  <2> QED BY <1>1, <1>2, <2>1, <2>2
<1> QED BY <1>3, <1>4

\* Every step keeps it: a partition is left behind only when it passed or was
\* undecided, and the first undecided one is the one reported.
LEMMA NextVerdictInv == VerdictInv /\ [CheckNext]_<<svars, cvars>> => VerdictInv'
<1> SUFFICES ASSUME VerdictInv, [CheckNext]_<<svars, cvars>> PROVE VerdictInv'
  OBVIOUS
<1>1. LinInv'
  BY NextLinInv DEF VerdictInv
<1>2. LinInv /\ PassIsDone /\ SearchIsOpen /\ PartIsNext /\ VerdictIsEarned
  BY DEF VerdictInv
<1>3. ASSUME UNCHANGED <<svars, stage, parts, at, undecided, verdict>>
      PROVE  VerdictInv'
  <2>1. UNCHANGED <<model, calls, outcome, open>> /\ \A i : Fits(i)' <=> Fits(i)
    BY <1>3 DEF svars, given, configuration, ending, Fits
  <2>2. SearchIsOpen'
    BY <1>2, <1>3, OpenStays
  <2> QED BY <1>1, <1>2, <1>3, <2>1, <2>2 DEF VerdictInv, PassIsDone, PartIsNext,
        VerdictIsEarned
<1>4. CASE RecordInvoke \/ RecordCompletion
  <2>1. UNCHANGED <<svars, stage, parts, at, undecided, verdict>>
    BY <1>4 DEF RecordInvoke, RecordCompletion, RecordEvent
  <2> QED BY <1>3, <2>1
<1>5. CASE Returned \/ UNCHANGED <<svars, cvars>>
  BY <1>3, <1>5 DEF Returned, cvars
<1>6. CASE Check
  <2>1. /\ at = 0 /\ verdict = "none"
        /\ UNCHANGED <<svars, at, undecided, verdict>> /\ stage' = "checking"
    BY <1>2, <1>6 DEF PartIsNext, Check
  <2>2. /\ at' = 0 /\ undecided' = 0 /\ outcome' = "idle" /\ verdict' = "none" /\ open' = open
    BY <1>2, <2>1 DEF PartIsNext, svars, ending, configuration
  <2>3. Len(parts') \in Nat
    BY <1>1, ListedFacts DEF LinInv, PartsAreSound
  <2>4. SearchIsOpen'
    BY <1>2, <2>1, OpenStays
  <2> QED BY <1>1, <2>1, <2>2, <2>3, <2>4 DEF VerdictInv, PassIsDone, PartIsNext,
        VerdictIsEarned, NoPart
<1>7. CASE Search
  <2>1. SearchNext /\ stage = "checking" /\ UNCHANGED cvars
    BY <1>7 DEF Search
  <2>2. outcome # "idle" /\ outcome' # "idle" /\ UNCHANGED <<model, calls>>
    BY <2>1, SearchKeepsGiven DEF given
  <2>3. \A i : Fits(i)' <=> Fits(i)
    BY <2>1, <2>2 DEF Fits, cvars
  <2>4. PassIsDone'
    BY <2>1 DEF PassIsDone, SearchNext, Pass, Violate, Backtrack, OverBudget, Reject,
        Skip, OverMemo, Linearize,
         Stop, Steps, AtCandidate, Scanning, ending, configuration
  <2>5. SearchInv /\ SearchInv' /\ Given
    BY <1>1, <1>2, <2>2, GivenIs DEF LinInv
  <2>6. SearchIsOpen'
    BY <1>2, <2>1, <2>5, TurnKeepsOpen
  <2> QED BY <1>1, <1>2, <2>1, <2>2, <2>3, <2>4, <2>6 DEF VerdictInv, PartIsNext,
        VerdictIsEarned, cvars
<1>8. CASE NextPartition
  <2>1. /\ stage = "checking" /\ outcome \in {"idle", "passed", "undecided"}
        /\ at < Len(parts) /\ at' = at + 1
        /\ undecided' = IF outcome = "undecided" THEN FirstUndecided(at) ELSE undecided
        /\ calls' = parts[at + 1].calls /\ outcome' = "searching"
        /\ UNCHANGED <<model, parts, stage, verdict>>
    BY <1>8 DEF NextPartition, GoesOn, Start
  <2>2. PICK u : u = undecided'
    OBVIOUS
  <2>3. /\ u \in 0..at
        /\ \A i \in 1..(at - 1) : u = NoPart \/ i < u => Fits(i)
        /\ at # 0 /\ (u = NoPart \/ at < u) => Fits(at)
        /\ u # NoPart => \A i \in 1..(u - 1) : Fits(i)
    <3>1. at # 0 => outcome \in {"passed", "undecided"}
      BY <1>2, <2>1 DEF PartIsNext
    <3> QED BY <2>1, <2>2, <3>1, PassedBefore
  <2>4. at \in Nat /\ Len(parts) \in Nat
    BY <1>2, ListedFacts DEF LinInv, PartsAreSound
  <2>5. \A i : Fits(i)' <=> Fits(i)
    BY <2>1 DEF Fits
  <2>6. \A i \in 1..(at' - 1) : u = NoPart \/ i < u => Fits(i)
    <3> SUFFICES ASSUME NEW i \in 1..(at' - 1), u = NoPart \/ i < u PROVE Fits(i)
      OBVIOUS
    <3>1. i \in 1..(at - 1) \/ (i = at /\ at # 0)
      BY <2>1, <2>4
    <3> QED BY <2>3, <3>1
  <2>7. PartIsNext'
    BY <1>2, <2>1, <2>2, <2>3, <2>4, <2>5, <2>6 DEF PartIsNext
  <2>8. PassIsDone' /\ VerdictIsEarned'
    BY <1>2, <2>1, <2>2, <2>3, <2>5 DEF PassIsDone, VerdictIsEarned, PartIsNext
  <2>9. SearchIsOpen'
    <3>1. at + 1 \in 1..Len(parts)
      BY <2>1, <2>4
    <3>2. Sound(model, parts[at + 1].calls) /\ Given
      BY <1>2, <3>1, GivenIs DEF LinInv, PartsAreSound
    <3>3. Start(parts[at + 1].calls) /\ UNCHANGED model
      BY <1>8 DEF NextPartition
    <3> QED BY <3>2, <3>3, StartIsOpen
  <2> QED BY <1>1, <2>7, <2>8, <2>9 DEF VerdictInv
<1>9. CASE Conclude
  <2>1. /\ stage = "checking"
        /\ \/ outcome = "violated"
           \/ (outcome \in {"idle", "passed", "undecided"} /\ at = Len(parts))
        /\ undecided' = IF outcome = "undecided" THEN FirstUndecided(at) ELSE undecided
        /\ verdict' = IF outcome = "violated" THEN "violated"
                      ELSE IF undecided' # NoPart THEN "undecided" ELSE "passed"
        /\ stage' = "checked"
        /\ UNCHANGED svars /\ UNCHANGED <<model, calls, outcome, open, parts, at>>
    BY <1>9 DEF Conclude, GoesOn, svars, given, ending, configuration
  <2>2. PICK u : u = undecided'
    OBVIOUS
  <2>3. /\ u \in 0..at
        /\ \A i \in 1..(at - 1) : u = NoPart \/ i < u => Fits(i)
        /\ at # 0 /\ outcome \in {"passed", "undecided"} /\ (u = NoPart \/ at < u) => Fits(at)
        /\ u # NoPart => \A i \in 1..(u - 1) : Fits(i)
    BY <2>1, <2>2, PassedBefore
  <2>4. at \in Nat /\ Len(parts) \in Nat /\ (at # 0 => outcome # "idle")
    BY <1>2, ListedFacts DEF LinInv, PartsAreSound, PartIsNext
  <2>5. \A i : Fits(i)' <=> Fits(i)
    BY <2>1 DEF Fits
  <2>6. verdict' = "passed" => \A i \in 1..Len(parts) : Fits(i)
    <3> SUFFICES ASSUME verdict' = "passed", NEW i \in 1..Len(parts) PROVE Fits(i)
      OBVIOUS
    <3>1. u = NoPart /\ outcome \in {"idle", "passed", "undecided"} /\ at = Len(parts)
      BY <2>1, <2>2
    <3>2. i \in 1..(at - 1) \/ (i = at /\ at # 0)
      BY <2>4, <3>1
    <3> QED BY <2>3, <2>4, <3>1, <3>2
  <2>7. PartIsNext'
    BY <1>2, <2>1, <2>2, <2>3, <2>5 DEF PartIsNext
  <2>8. verdict' = "violated" => at \in 1..Len(parts) /\ ~Fits(at)
    <3> SUFFICES ASSUME verdict' = "violated" PROVE at \in 1..Len(parts) /\ ~Fits(at)
      OBVIOUS
    <3>1. outcome = "violated"
      BY <2>1
    <3>2. at \in 1..Len(parts) /\ calls = parts[at].calls
      BY <1>2, <2>4, <3>1 DEF PartIsNext
    <3>3. ~IsLinearizable(model, calls)
      BY <1>2, <3>1 DEF SearchIsOpen
    <3> QED BY <3>2, <3>3 DEF Fits
  <2>9. PassIsDone' /\ VerdictIsEarned'
    BY <1>2, <2>1, <2>2, <2>3, <2>5, <2>6, <2>8 DEF PassIsDone, VerdictIsEarned
  <2>10. SearchIsOpen'
    BY <1>2, <2>1, OpenStays
  <2> QED BY <1>1, <2>7, <2>9, <2>10 DEF VerdictInv
<1> QED BY <1>4, <1>5, <1>6, <1>7, <1>8, <1>9 DEF CheckNext, Checking

\* A check that passed has an order for each of its partitions, one that is
\* violated has a partition without any, and one that is undecided has an
\* order for each partition before the first that it could not decide: what
\* the memo covers and the list splices out never makes check() or whole()
\* miss an order or make one up, whatever the limits and the model.
THEOREM VerdictHolds == CheckSpec => []VerdictIsEarned
<1>1. CheckInit => VerdictInv
  BY InitVerdictInv
<1>2. VerdictInv /\ [CheckNext]_<<svars, cvars>> => VerdictInv'
  BY NextVerdictInv
<1>3. VerdictInv => VerdictIsEarned
  BY DEF VerdictInv
<1> QED BY <1>1, <1>2, <1>3, PTL DEF CheckSpec

---------------------------------------------------------------------------
(* A check of all calls at once.                                           *)

\* The parts are those of the calls of the log.
PartsAreOfLog == stage # "recording" => parts = PartsOf(Calls(log), problem.whole)

\* All calls are searched as one part: whole(), or a call that declares no keys.
InOnePart == problem.whole \/ TouchesEveryKey(Calls(log))

\* Then they are the only part, if there are any.
LEMMA OnePart ==
    ASSUME NEW cs, NEW one, one \/ TouchesEveryKey(cs), NEW ps, ps = PartsOf(cs, one)
    PROVE  \/ cs = <<>> /\ Len(ps) = 0
           \/ cs # <<>> /\ Len(ps) = 1 /\ ps[1].calls = cs
<1>1. CASE cs = <<>>
  <2>1. ps = <<>>
    BY <1>1 DEF PartsOf, Partitions
  <2> QED BY <1>1, <2>1, OneState
<1>2. CASE cs # <<>>
  <2>1. PICK all : all = [keys |-> <<>>, calls |-> cs]
    OBVIOUS
  <2>2. ps = <<all>>
    BY <1>2, <2>1 DEF PartsOf, Partitions
  <2>3. Len(<<all>>) = 1 /\ <<all>>[1] = all
    BY OneState
  <2> QED BY <1>2, <2>1, <2>2, <2>3
<1> QED BY <1>1, <1>2

\* Nothing changes the log or the parts once the history is checked.
LEMMA NextPartsAreOfLog ==
    PartsAreOfLog /\ [CheckNext]_<<svars, cvars>> => PartsAreOfLog'
<1> SUFFICES ASSUME PartsAreOfLog, [CheckNext]_<<svars, cvars>> PROVE PartsAreOfLog'
  OBVIOUS
<1>1. CASE RecordInvoke \/ RecordCompletion
  BY <1>1 DEF RecordInvoke, RecordCompletion, RecordEvent, PartsAreOfLog
<1>2. CASE Check
  BY <1>2 DEF Check, PartsAreOfLog
<1>3. CASE Search \/ NextPartition \/ Conclude \/ Returned \/ UNCHANGED <<svars, cvars>>
  <2>1. UNCHANGED <<problem, log, parts>> /\ (stage = "recording" => stage' = "recording")
    BY <1>3 DEF Search, NextPartition, Conclude, GoesOn, Returned, cvars
  <2> QED BY <2>1 DEF PartsAreOfLog
<1> QED BY <1>1, <1>2, <1>3 DEF CheckNext, Checking

\* A check of all calls at once decides the history that it was given: its
\* verdict is right whatever the history, the model and the limits.
THEOREM WholeVerdictIsRight == CheckSpec => [](InOnePart => VerdictIsRight)
<1>1. CheckInit => VerdictInv /\ PartsAreOfLog
  BY InitVerdictInv DEF CheckInit, PartsAreOfLog
<1>2. VerdictInv /\ PartsAreOfLog /\ [CheckNext]_<<svars, cvars>> => (VerdictInv /\ PartsAreOfLog)'
  BY NextVerdictInv, NextPartsAreOfLog
<1>3. ASSUME VerdictInv, PartsAreOfLog, InOnePart PROVE VerdictIsRight
  <2>1. LinInv /\ PartIsNext /\ VerdictIsEarned
    BY <1>3 DEF VerdictInv
  <2>2. Effective(log) = Calls(log)
    BY <2>1, EffectiveAreCalls DEF LinInv, LogIsSound
  <2>3. PICK cs : cs = Calls(log)
    OBVIOUS
  <2>4. ASSUME verdict # "none"
        PROVE  \/ cs = <<>> /\ Len(parts) = 0
               \/ cs # <<>> /\ Len(parts) = 1 /\ parts[1].calls = cs
    <3>1. stage = "checked"
      BY <2>1, <2>4 DEF PartIsNext
    <3>2. parts = PartsOf(cs, problem.whole) /\ (problem.whole \/ TouchesEveryKey(cs))
      BY <1>3, <2>3, <3>1 DEF PartsAreOfLog, InOnePart
    <3> QED BY <3>2, OnePart
  <2>5. verdict = "passed" => IsLinearizable(model, cs)
    <3>1. verdict = "passed" => \A i \in 1..Len(parts) : IsLinearizable(model, parts[i].calls)
      BY <2>1 DEF VerdictIsEarned, Fits
    <3> QED BY <2>4, <3>1, NoCallsFit
  <2>6. verdict = "violated" => ~IsLinearizable(model, cs) /\ ~IsLinearizable(model, parts[at].calls)
    <3>1. verdict = "violated" => at \in 1..Len(parts) /\ ~IsLinearizable(model, parts[at].calls)
      BY <2>1 DEF VerdictIsEarned, Fits
    <3> QED BY <2>4, <3>1
  <2>7. undecided # NoPart => \A i \in 1..(undecided - 1) : IsLinearizable(model, parts[i].calls)
    BY <2>1 DEF VerdictIsEarned, Fits
  <2> QED BY <2>2, <2>3, <2>5, <2>6, <2>7 DEF VerdictIsRight
<1> QED BY <1>1, <1>2, <1>3, PTL DEF CheckSpec
---------------------------------------------------------------------------
(* The representatives of a union-find.                                    *)

\* The representatives on the way up from x.
Climb(f, parent, x, n) == f = [i \in 0..n |-> IF i = 0 THEN x ELSE parent[f[i - 1]]]

Ascent(f, parent, x, n) ==
    /\ Root(parent, x) = f[n] /\ f[0] = x
    /\ \A k \in 0..(n - 1) : f[k + 1] = parent[f[k]]

\* Root() is the end of a climb of as many steps as there are calls.
LEMMA RootOf ==
    ASSUME NEW parent, NEW x, NEW n \in Nat, Len(parent) = n, parent \in [1..n -> 1..n], x \in 1..n
    PROVE  \E f : Ascent(f, parent, x, n)
<1> DEFINE S == (0..n) \X (1..n)
           g == [s \in S |-> parent[s[2]]]
<1>1. PICK f : Iterates(f, g, x, n)
  BY IteratesExist
<1>2. \A i \in 0..n : f[i] = IF i = 0 THEN x ELSE g[<<i, f[i - 1]>>]
  BY <1>1, Zenon DEF Iterates
<1> DEFINE P == {k \in 0..n : f[k] \in 1..n}
<1>3. 0 \in P
  <2>1. f[0] = x
    <3> HIDE DEF g, S
    <3>1. 0 \in 0..n
      OBVIOUS
    <3> QED BY <1>2, <3>1
  <2> HIDE DEF g, S
  <2> QED BY <2>1
<1>4. ASSUME NEW k \in 0..(n - 1), k \in P PROVE k + 1 \in P /\ f[k + 1] = parent[f[k]]
  <2>1. k + 1 \in 0..n /\ (k + 1) - 1 = k /\ k + 1 # 0
    OBVIOUS
  <2>2. f[k + 1] = g[<<k + 1, f[k]>>]
    BY <1>2, <2>1
  <2>3. <<k + 1, f[k]>> \in S
    BY <1>4, <2>1
  <2>4. f[k + 1] = parent[f[k]]
    BY <2>2, <2>3
  <2> QED BY <1>4, <2>1, <2>4
<1>5. \A k \in 0..n : k \in P
  <2> HIDE DEF P
  <2> QED BY <1>3, <1>4, NumbersIn
<1>6. ASSUME NEW i \in 0..n
      PROVE  f[i] = IF i = 0 THEN x ELSE parent[f[i - 1]]
  <2>1. CASE i = 0
    BY <1>2, <2>1
  <2>2. CASE i # 0
    <3>1. PICK k : k = i - 1
      OBVIOUS
    <3>2. k \in 0..(n - 1) /\ k \in 0..n /\ k + 1 = i
      BY <2>2, <3>1
    <3>3. f[k + 1] = parent[f[k]]
      BY <1>4, <1>5, <3>2
    <3> QED BY <2>2, <3>1, <3>2, <3>3
  <2> QED BY <2>1, <2>2
<1>7. Climb(f, parent, x, n)
  <2>1. f = [i \in 0..n |-> f[i]]
    BY <1>1 DEF Iterates
  <2> HIDE DEF g, P
  <2> QED BY <1>6, <2>1 DEF Climb
<1> HIDE DEF g, P, S
<1>8. PICK h : h = CHOOSE c : Climb(c, parent, x, n)
  OBVIOUS
<1>9. Climb(h, parent, x, n)
  BY <1>7, <1>8
<1>10. Root(parent, x) = h[n]
  BY <1>8 DEF Root, Climb
<1>11. \A i \in 0..n : h[i] = IF i = 0 THEN x ELSE parent[h[i - 1]]
  BY <1>9, Zenon DEF Climb
<1>12. h[0] = x
  BY <1>11
<1>13. ASSUME NEW k \in 0..(n - 1) PROVE h[k + 1] = parent[h[k]]
  <2>1. k + 1 \in 0..n /\ (k + 1) - 1 = k /\ k + 1 # 0
    OBVIOUS
  <2> QED BY <1>11, <2>1
<1> QED BY <1>10, <1>12, <1>13 DEF Ascent

---------------------------------------------------------------------------
(* The forest of the union-find.                                           *)

\* Each call leads to a representative, by a way that gets shorter with each
\* step and has no more steps than there are calls that are none.
Inner(parent) == {y \in DOMAIN parent : parent[y] # y}

Forest(parent, root, rank, n) ==
    /\ parent \in [1..n -> 1..n] /\ root \in [1..n -> 1..n] /\ rank \in [1..n -> Nat]
    /\ \A x \in 1..n :
           /\ parent[x] = x => root[x] = x /\ rank[x] = 0
           /\ parent[x] # x => rank[parent[x]] < rank[x]
           /\ root[parent[x]] = root[x] /\ parent[root[x]] = root[x]
           /\ rank[x] <= Cardinality(Inner(parent))

\* Root() climbs far enough.
LEMMA RootIs ==
    ASSUME NEW n \in Nat, NEW parent, NEW root, NEW rank, Forest(parent, root, rank, n), NEW x \in 1..n
    PROVE  Root(parent, x) = root[x]
<1>1. /\ parent \in [1..n -> 1..n] /\ root \in [1..n -> 1..n] /\ rank \in [1..n -> Nat]
      /\ \A y \in 1..n :
           /\ parent[y] = y => root[y] = y /\ rank[y] = 0
           /\ parent[y] # y => rank[parent[y]] < rank[y]
           /\ root[parent[y]] = root[y]
           /\ rank[y] <= Cardinality(Inner(parent))
  BY DEF Forest
<1>2. Len(parent) = n
  <2>1. parent = [i \in 1..n |-> parent[i]]
    BY <1>1
  <2> QED BY <2>1, ListedFunction
<1>3. PICK f : /\ Root(parent, x) = f[n] /\ f[0] = x
               /\ \A k \in 0..(n - 1) : f[k + 1] = parent[f[k]]
  <2>1. parent \in [1..n -> 1..n] /\ Len(parent) = n
    BY <1>1, <1>2
  <2>2. \E f : Ascent(f, parent, x, n)
    BY <2>1, RootOf
  <2> QED BY <2>2 DEF Ascent
<1>4. Cardinality(Inner(parent)) <= n /\ Cardinality(Inner(parent)) \in Nat
  <2>1. Inner(parent) \in SUBSET (1..n)
    BY <1>1 DEF Inner
  <2>2. IsFiniteSet(1..n) /\ Cardinality(1..n) = n
    BY FS_Interval
  <2> QED BY <2>1, <2>2, FS_Subset, FS_CardinalityType
<1> DEFINE P == {i \in 0..n : /\ f[i] \in 1..n /\ root[f[i]] = root[x]
                              /\ parent[f[i]] = f[i] \/ rank[f[i]] + i <= rank[x]}
<1>5. 0 \in P
  <2>1. rank[x] \in Nat /\ rank[x] + 0 <= rank[x] /\ 0 \in 0..n
    BY <1>1
  <2> QED BY <1>3, <2>1
<1>6. ASSUME NEW k \in 0..(n - 1), k \in P PROVE k + 1 \in P
  <2>1. PICK y \in 1..n : y = f[k] /\ root[y] = root[x] /\ (parent[y] = y \/ rank[y] + k <= rank[x])
    BY <1>6
  <2>2. f[k + 1] = parent[y] /\ parent[y] \in 1..n /\ k + 1 \in 0..n
    BY <1>1, <1>3, <2>1
  <2>3. root[parent[y]] = root[x]
    BY <1>1, <2>1
  <2>4. CASE parent[y] = y
    BY <2>2, <2>3, <2>4
  <2>5. CASE parent[y] # y
    <3>1. rank[parent[y]] < rank[y] /\ rank[y] + k <= rank[x]
      BY <1>1, <2>1, <2>5
    <3>2. rank[parent[y]] \in Nat /\ rank[y] \in Nat /\ rank[x] \in Nat
      BY <1>1, <2>2
    <3>3. rank[parent[y]] + (k + 1) <= rank[x]
      BY <3>1, <3>2
    <3> QED BY <2>2, <2>3, <3>3
  <2> QED BY <2>4, <2>5
<1>7. n \in P
  <2> HIDE DEF P
  <2> QED BY <1>5, <1>6, NumbersIn
<1>8. parent[f[n]] = f[n]
  <2> SUFFICES ASSUME parent[f[n]] # f[n] PROVE FALSE
    OBVIOUS
  <2>1. PICK y \in 1..n : y = f[n] /\ rank[y] + n <= rank[x]
    BY <1>7
  <2>2. parent[y] # y /\ parent[y] \in 1..n
    BY <1>1, <2>1
  <2>3. rank[parent[y]] < rank[y]
    BY <1>1, <2>2
  <2>4. rank[parent[y]] \in Nat /\ rank[y] \in Nat /\ rank[x] \in Nat
    BY <1>1, <2>2
  <2>5. rank[x] <= Cardinality(Inner(parent))
    BY <1>1
  <2>6. rank[x] <= n
    BY <1>4, <2>4, <2>5
  <2> QED BY <2>1, <2>3, <2>4, <2>6
<1> QED BY <1>1, <1>3, <1>7, <1>8

\* The representatives once those of a are those of b.
Merged(root, a, b) == [x \in DOMAIN root |-> IF root[x] = a THEN b ELSE root[x]]

\* Join() gives one representative's calls to the other.
LEMMA JoinMerges ==
    ASSUME NEW n \in Nat, NEW parent, NEW root, NEW rank, Forest(parent, root, rank, n),
           NEW p \in 1..n, NEW q \in 1..n
    PROVE  \E longer : Forest(Join(parent, p, q), Merged(root, root[p], root[q]), longer, n)
<1>1. /\ parent \in [1..n -> 1..n] /\ root \in [1..n -> 1..n] /\ rank \in [1..n -> Nat]
      /\ \A y \in 1..n :
           /\ parent[y] = y => root[y] = y /\ rank[y] = 0
           /\ parent[y] # y => rank[parent[y]] < rank[y]
           /\ root[parent[y]] = root[y] /\ parent[root[y]] = root[y]
           /\ rank[y] <= Cardinality(Inner(parent))
  BY DEF Forest
<1>2. PICK a \in 1..n, b \in 1..n : a = root[p] /\ b = root[q]
  BY <1>1
<1>3. PICK joined, merged : /\ joined = [parent EXCEPT ![a] = b]
                            /\ merged = Merged(root, a, b)
  OBVIOUS
<1>4. Join(parent, p, q) = joined
  <2>1. Root(parent, p) = a /\ Root(parent, q) = b
    BY <1>2, RootIs
  <2> QED BY <1>3, <2>1 DEF Join
<1>5. parent[a] = a /\ parent[b] = b /\ root[a] = a /\ root[b] = b /\ rank[a] = 0 /\ rank[b] = 0
  BY <1>1, <1>2
<1>6. /\ joined \in [1..n -> 1..n] /\ merged \in [1..n -> 1..n]
      /\ joined[a] = b
      /\ \A x \in 1..n : x # a => joined[x] = parent[x]
      /\ \A x \in 1..n : merged[x] = IF root[x] = a THEN b ELSE root[x]
  BY <1>1, <1>3 DEF Merged
<1>7. CASE a = b
  <2>1. joined = parent /\ merged = root
    <3>1. \A x \in 1..n : joined[x] = parent[x] /\ merged[x] = root[x]
      BY <1>5, <1>6, <1>7
    <3>2. parent = [x \in 1..n |-> parent[x]] /\ joined = [x \in 1..n |-> joined[x]]
      BY <1>1, <1>6
    <3>3. root = [x \in 1..n |-> root[x]] /\ merged = [x \in 1..n |-> merged[x]]
      BY <1>1, <1>6
    <3> QED BY <3>1, <3>2, <3>3, SameFunction, Zenon
  <2> QED BY <1>2, <1>3, <1>4, <2>1
<1>8. CASE a # b
  <2>1. PICK longer : longer = [x \in 1..n |-> IF root[x] = a THEN rank[x] + 1 ELSE rank[x]]
    OBVIOUS
  <2>2. longer \in [1..n -> Nat] /\ \A x \in 1..n : longer[x] = IF root[x] = a THEN rank[x] + 1 ELSE rank[x]
    <3>1. rank \in [1..n -> Nat]
      BY <1>1
    <3>2. \A x \in 1..n : rank[x] \in Nat /\ rank[x] + 1 \in Nat
      BY <3>1
    <3> QED BY <2>1, <3>2
  <2>3. Cardinality(Inner(joined)) = Cardinality(Inner(parent)) + 1 /\ Cardinality(Inner(parent)) \in Nat
    <3>1. Inner(joined) = Inner(parent) \cup {a} /\ a \notin Inner(parent) /\ Inner(parent) \in SUBSET (1..n)
      <4>1. DOMAIN parent = 1..n /\ DOMAIN joined = 1..n
        BY <1>1, <1>6
      <4>2. Inner(parent) \in SUBSET (1..n) /\ a \notin Inner(parent)
        BY <1>5, <4>1 DEF Inner
      <4>3. \A y \in 1..n : y \in Inner(joined) <=> y \in Inner(parent) \/ y = a
        BY <1>6, <1>8, <4>1 DEF Inner
      <4>4. Inner(joined) \in SUBSET (1..n)
        BY <4>1 DEF Inner
      <4> QED BY <4>2, <4>3, <4>4
    <3>2. IsFiniteSet(1..n)
      BY FS_Interval
    <3>3. IsFiniteSet(Inner(parent))
      BY <3>1, <3>2, FS_Subset
    <3> QED BY <3>1, <3>3, FS_AddElement, FS_CardinalityType
  <2>4. ASSUME NEW x \in 1..n
        PROVE  /\ joined[x] = x => merged[x] = x /\ longer[x] = 0
               /\ joined[x] # x => longer[joined[x]] < longer[x]
               /\ merged[joined[x]] = merged[x] /\ joined[merged[x]] = merged[x]
               /\ longer[x] <= Cardinality(Inner(joined))
    <3>1. longer[x] <= Cardinality(Inner(joined))
      <4>1. rank[x] <= Cardinality(Inner(parent)) /\ rank[x] \in Nat
        BY <1>1
      <4>2. longer[x] = rank[x] + 1 \/ longer[x] = rank[x]
        BY <2>2
      <4> QED BY <2>3, <4>1, <4>2
    <3>2. joined[merged[x]] = merged[x]
      <4>1. CASE root[x] = a
        BY <1>5, <1>6, <1>8, <4>1
      <4>2. CASE root[x] # a
        <5>1. merged[x] = root[x] /\ root[x] \in 1..n /\ parent[root[x]] = root[x]
          BY <1>1, <1>6, <4>2
        <5> QED BY <1>6, <4>2, <5>1
      <4> QED BY <4>1, <4>2
    <3>3. CASE x = a
      <4>1. joined[x] = b /\ merged[x] = b /\ merged[b] = b /\ b # x
        BY <1>5, <1>6, <1>8, <3>3
      <4>2. longer[x] = 1 /\ longer[b] = 0
        BY <1>5, <1>8, <2>2, <3>3
      <4> QED BY <3>1, <3>2, <4>1, <4>2
    <3>4. CASE x # a
      <4>1. /\ joined[x] = parent[x] /\ parent[x] \in 1..n /\ root[parent[x]] = root[x]
            /\ (parent[x] = x => root[x] = x /\ rank[x] = 0)
            /\ (parent[x] # x => rank[parent[x]] < rank[x])
            /\ rank[x] \in Nat /\ rank[parent[x]] \in Nat
        BY <1>1, <1>6, <3>4
      <4>2. merged[joined[x]] = merged[x]
        BY <1>6, <4>1
      <4>3. joined[x] = x => merged[x] = x /\ longer[x] = 0
        BY <1>6, <2>2, <3>4, <4>1
      <4>4. joined[x] # x => longer[joined[x]] < longer[x]
        <5>1. PICK y \in 1..n : y = parent[x]
          BY <4>1
        <5>2. longer[x] = IF root[x] = a THEN rank[x] + 1 ELSE rank[x]
          BY <2>2
        <5>3. longer[y] = IF root[x] = a THEN rank[y] + 1 ELSE rank[y]
          BY <2>2, <4>1, <5>1
        <5>4. joined[x] = y /\ rank[y] \in Nat /\ (y # x => rank[y] < rank[x])
          BY <4>1, <5>1
        <5> QED BY <4>1, <5>2, <5>3, <5>4
      <4> QED BY <3>1, <3>2, <4>2, <4>3, <4>4
    <3> QED BY <3>3, <3>4
  <2>5. Forest(joined, merged, longer, n)
    BY <1>6, <2>2, <2>4 DEF Forest
  <2> QED BY <1>2, <1>3, <1>4, <2>5
<1> QED BY <1>7, <1>8
---------------------------------------------------------------------------
(* The keys that calls share.                                              *)

\* Calls that each declare a list of keys.
Keyed(cs) == Listed(cs) /\ \A p \in DOMAIN cs : Listed(cs[p].keys)

Shares(cs, p, q) == Held(cs[p].keys) \cap Held(cs[q].keys) # {}

\* No call of the set shares a key with a call outside.
IsClosed(cs, set) == \A p \in set, q \in DOMAIN cs : Shares(cs, p, q) => q \in set

\* The calls with their keys, and the first that declares a key, of Parents().
UsesOf(cs) ==
    FlattenSeq([p \in DOMAIN cs |-> [k \in DOMAIN cs[p].keys |-> <<p, cs[p].keys[k]>>]])

FirstUseIn(cs, name) == Min({p \in DOMAIN cs : name \in Held(cs[p].keys)})

IsUse(cs, use) ==
    \E p \in DOMAIN cs : \E name \in Held(cs[p].keys) : use = <<p, name>>

\* The uses are the keys of the calls.
LEMMA UsesAre ==
    ASSUME NEW cs, Keyed(cs)
    PROVE  /\ Listed(UsesOf(cs))
           /\ \A j \in 1..Len(UsesOf(cs)) : IsUse(cs, UsesOf(cs)[j])
           /\ \A p \in DOMAIN cs : \A name \in Held(cs[p].keys) :
                  \E j \in 1..Len(UsesOf(cs)) : UsesOf(cs)[j] = <<p, name>>
<1>1. PICK n : n = Len(cs) /\ n \in Nat /\ DOMAIN cs = 1..n
  BY ListedFacts DEF Keyed
<1> DEFINE row(p) == [k \in DOMAIN cs[p].keys |-> <<p, cs[p].keys[k]>>]
<1>2. PICK rows : rows = [p \in DOMAIN cs |-> row(p)]
  OBVIOUS
<1>3. UsesOf(cs) = FlattenSeq(rows)
  BY <1>2 DEF UsesOf
<1>4. Listed(rows) /\ Len(rows) = n /\ \A p \in 1..n : rows[p] = row(p)
  <2>1. rows = [p \in 1..n |-> rows[p]]
    BY <1>1, <1>2
  <2>2. \A p \in 1..n : rows[p] = row(p)
    BY <1>1, <1>2
  <2> HIDE DEF row
  <2> QED BY <1>1, <2>1, <2>2, ListedFunction
<1>5. ASSUME NEW p \in 1..n
      PROVE  /\ Listed(row(p))
             /\ \A use : use \in Held(row(p)) <=> \E name \in Held(cs[p].keys) : use = <<p, name>>
  <2>1. PICK keys, m : keys = cs[p].keys /\ m = Len(keys) /\ m \in Nat /\ DOMAIN keys = 1..m
    BY <1>1, ListedFacts DEF Keyed
  <2>2. PICK r : r = row(p)
    OBVIOUS
  <2>3. r = [k \in 1..m |-> r[k]] /\ \A k \in 1..m : r[k] = <<p, keys[k]>>
    BY <2>1, <2>2
  <2>4. Listed(r) /\ DOMAIN r = 1..m
    BY <2>1, <2>3, ListedFunction
  <2>5. \A use : use \in Held(r) <=> \E name \in Held(keys) : use = <<p, name>>
    <3>1. \A k \in 1..m : keys[k] \in Held(keys)
      BY <2>1 DEF Held
    <3>2. \A name \in Held(keys) : \E k \in 1..m : keys[k] = name
      BY <2>1 DEF Held
    <3>3. Held(r) = {r[k] : k \in 1..m}
      BY <2>4 DEF Held
    <3>4. ASSUME NEW use \in Held(r) PROVE \E name \in Held(keys) : use = <<p, name>>
      <4>1. PICK k \in 1..m : use = r[k]
        BY <3>3
      <4> QED BY <2>3, <3>1, <4>1
    <3>5. ASSUME NEW name \in Held(keys) PROVE <<p, name>> \in Held(r)
      <4>1. PICK k \in 1..m : keys[k] = name
        BY <3>2
      <4>2. r[k] = <<p, name>> /\ r[k] \in Held(r)
        BY <2>3, <3>3, <4>1
      <4> QED BY <4>2
    <3> QED BY <3>4, <3>5
  <2> QED BY <2>1, <2>2, <2>4, <2>5
<1> HIDE DEF row
<1>6. PICK uses : uses = FlattenSeq(rows)
  OBVIOUS
<1>7. /\ Listed(uses)
      /\ \A x : x \in Held(uses) <=> \E i \in 1..n : x \in Held(row(i))
  <2>1. \A i \in 1..Len(rows) : Listed(rows[i])
    BY <1>4, <1>5
  <2>2. /\ Listed(uses)
        /\ \A x : x \in Held(uses) <=> \E i \in 1..Len(rows) : x \in Held(rows[i])
    BY <1>4, <1>6, <2>1, FlattenHolds, Zenon
  <2> QED BY <1>4, <2>2
<1>8. /\ \A j \in 1..Len(uses) : uses[j] \in Held(uses)
      /\ \A x \in Held(uses) : \E j \in 1..Len(uses) : uses[j] = x
  BY <1>7, ListedFacts
<1>9. \A j \in 1..Len(uses) : IsUse(cs, uses[j])
  <2> SUFFICES ASSUME NEW j \in 1..Len(uses) PROVE IsUse(cs, uses[j])
    OBVIOUS
  <2>1. PICK p \in 1..n : uses[j] \in Held(row(p))
    BY <1>7, <1>8
  <2> QED BY <1>1, <1>5, <2>1 DEF IsUse
<1>10. ASSUME NEW p \in DOMAIN cs, NEW name \in Held(cs[p].keys)
       PROVE  \E j \in 1..Len(uses) : uses[j] = <<p, name>>
  <2>1. <<p, name>> \in Held(row(p)) /\ p \in 1..n
    BY <1>1, <1>5
  <2> QED BY <1>7, <1>8, <2>1
<1> QED BY <1>3, <1>6, <1>7, <1>9, <1>10

\* A key is first declared by a call that declares it.
LEMMA FirstUseIs ==
    ASSUME NEW cs, Keyed(cs), NEW p \in DOMAIN cs, NEW name \in Held(cs[p].keys)
    PROVE  FirstUseIn(cs, name) \in DOMAIN cs /\ name \in Held(cs[FirstUseIn(cs, name)].keys)
<1>1. PICK S : S = {q \in DOMAIN cs : name \in Held(cs[q].keys)}
  OBVIOUS
<1>2. S \in SUBSET Nat /\ S # {}
  <2>1. DOMAIN cs \in SUBSET Nat
    BY ListedFacts DEF Keyed
  <2> QED BY <1>1, <2>1
<1>3. Min(S) \in S
  BY <1>2, MinIs
<1> QED BY <1>1, <1>3 DEF FirstUseIn

---------------------------------------------------------------------------
(* What the union-find has joined.                                         *)

\* The first k uses are joined, and only what shares keys, through others.
Unites(cs, uses, k, root) ==
    /\ \A j \in 1..k : root[uses[j][1]] = root[FirstUseIn(cs, uses[j][2])]
    /\ \A set \in SUBSET DOMAIN cs : IsClosed(cs, set) =>
           \A x, y \in DOMAIN cs : root[x] = root[y] => (x \in set <=> y \in set)

\* Each join adds the next use.
LEMMA UniteNext ==
    ASSUME NEW cs, Keyed(cs), NEW n, DOMAIN cs = 1..n, NEW k \in Nat, NEW uses,
           \A j \in 1..(k + 1) : IsUse(cs, uses[j]),
           NEW root \in [1..n -> 1..n], Unites(cs, uses, k, root),
           NEW p, NEW q, p = uses[k + 1][1], q = FirstUseIn(cs, uses[k + 1][2])
    PROVE  Unites(cs, uses, k + 1, Merged(root, root[p], root[q]))
<1>1. PICK a, b, merged : a = root[p] /\ b = root[q] /\ merged = Merged(root, a, b)
  OBVIOUS
<1>2. \A x \in 1..n : merged[x] = IF root[x] = a THEN b ELSE root[x]
  BY <1>1 DEF Merged
<1>3. \A j \in 1..(k + 1) : uses[j][1] \in 1..n /\ FirstUseIn(cs, uses[j][2]) \in 1..n
  <2> SUFFICES ASSUME NEW j \in 1..(k + 1)
               PROVE  uses[j][1] \in 1..n /\ FirstUseIn(cs, uses[j][2]) \in 1..n
    OBVIOUS
  <2>1. PICK o, name : o \in DOMAIN cs /\ name \in Held(cs[o].keys) /\ uses[j] = <<o, name>>
    BY DEF IsUse
  <2>2. uses[j][1] = o /\ uses[j][2] = name
    BY <2>1
  <2>3. o \in 1..n /\ FirstUseIn(cs, name) \in DOMAIN cs
    BY <2>1, FirstUseIs
  <2> QED BY <2>2, <2>3
<1>4. k + 1 \in 1..(k + 1) /\ \A j \in 1..(k + 1) : j # k + 1 => j \in 1..k
  OBVIOUS
<1>5. p \in 1..n /\ q \in 1..n
  BY <1>3, <1>4
<1>6. ASSUME NEW j \in 1..(k + 1)
      PROVE  merged[uses[j][1]] = merged[FirstUseIn(cs, uses[j][2])]
  <2>1. CASE j = k + 1
    BY <1>1, <1>2, <1>5, <2>1
  <2>2. CASE j # k + 1
    <3>1. root[uses[j][1]] = root[FirstUseIn(cs, uses[j][2])]
      BY <1>4, <2>2 DEF Unites
    <3> QED BY <1>2, <1>3, <3>1
  <2> QED BY <2>1, <2>2
<1>7. ASSUME NEW set \in SUBSET DOMAIN cs, IsClosed(cs, set), NEW x \in DOMAIN cs, NEW y \in DOMAIN cs,
             merged[x] = merged[y]
      PROVE  x \in set <=> y \in set
  <2>1. \A u, v \in DOMAIN cs : root[u] = root[v] => (u \in set <=> v \in set)
    BY <1>7 DEF Unites
  <2>2. p \in set <=> q \in set
    <3>1. PICK o, name : o \in DOMAIN cs /\ name \in Held(cs[o].keys) /\ uses[k + 1] = <<o, name>>
      BY <1>4 DEF IsUse
    <3>2. p = o /\ q = FirstUseIn(cs, name)
      BY <3>1
    <3>3. name \in Held(cs[p].keys) /\ name \in Held(cs[q].keys)
      <4>1. name \in Held(cs[FirstUseIn(cs, name)].keys)
        BY <3>1, FirstUseIs
      <4> QED BY <3>1, <3>2, <4>1
    <3>4. Shares(cs, p, q) /\ Shares(cs, q, p)
      BY <3>3 DEF Shares
    <3> QED BY <1>5, <1>7, <3>4 DEF IsClosed
  <2>3. \A u \in DOMAIN cs : /\ root[u] = a => (u \in set <=> p \in set)
                             /\ root[u] = b => (u \in set <=> q \in set)
    BY <1>1, <1>5, <2>1
  <2> QED BY <1>2, <1>7, <2>1, <2>2, <2>3
<1> QED BY <1>1, <1>6, <1>7 DEF Unites

\* A closed set has all calls with a representative or none.
Separates(cs, root) ==
    \A set \in SUBSET DOMAIN cs : IsClosed(cs, set) =>
        \A x, y \in DOMAIN cs : root[x] = root[y] => (x \in set <=> y \in set)

RepresentedBy(cs, root) ==
    /\ root \in [DOMAIN cs -> DOMAIN cs]
    /\ \A x \in DOMAIN cs : Root(Parents(cs), x) = root[x]
    /\ \A x, y \in DOMAIN cs : Shares(cs, x, y) => root[x] = root[y]
    /\ Separates(cs, root)

\* The forests that the uses lead to.
Joined(cs, uses, f, n, m) ==
    f = [i \in 0..m |-> IF i = 0 THEN [p \in 1..n |-> p]
                        ELSE Join(f[i - 1], uses[i][1], FirstUseIn(cs, uses[i][2]))]

IsForestOf(cs, uses, parent, n, k) ==
    \E root, rank : Forest(parent, root, rank, n) /\ Unites(cs, uses, k, root)

\* Before any use each call is its own representative.
LEMMA FirstForest ==
    ASSUME NEW cs, NEW uses, NEW n \in Nat, DOMAIN cs = 1..n
    PROVE  IsForestOf(cs, uses, [p \in 1..n |-> p], n, 0)
<1>1. PICK own, zero : own = [p \in 1..n |-> p] /\ zero = [p \in 1..n |-> 0]
  OBVIOUS
<1>2. own \in [1..n -> 1..n] /\ zero \in [1..n -> Nat] /\ \A x \in 1..n : own[x] = x /\ zero[x] = 0
  BY <1>1
<1>3. Inner(own) = {}
  BY <1>2 DEF Inner
<1>4. Cardinality(Inner(own)) = 0
  BY <1>3, FS_EmptySet
<1>5. Forest(own, own, zero, n)
  BY <1>2, <1>4 DEF Forest
<1>6. Unites(cs, uses, 0, own)
  BY <1>2 DEF Unites
<1> QED BY <1>1, <1>5, <1>6 DEF IsForestOf

\* Each use leads from a forest to a forest.
LEMMA NextForest ==
    ASSUME NEW cs, Keyed(cs), NEW n \in Nat, DOMAIN cs = 1..n, NEW k \in Nat, NEW uses,
           \A j \in 1..(k + 1) : IsUse(cs, uses[j]),
           NEW parent, IsForestOf(cs, uses, parent, n, k)
    PROVE  IsForestOf(cs, uses, Join(parent, uses[k + 1][1], FirstUseIn(cs, uses[k + 1][2])), n, k + 1)
<1>1. PICK root, rank : Forest(parent, root, rank, n) /\ Unites(cs, uses, k, root)
  BY DEF IsForestOf
<1>2. PICK p, q : p = uses[k + 1][1] /\ q = FirstUseIn(cs, uses[k + 1][2])
  OBVIOUS
<1>3. p \in 1..n /\ q \in 1..n
  <2>1. k + 1 \in 1..(k + 1)
    OBVIOUS
  <2>2. PICK o, name : o \in DOMAIN cs /\ name \in Held(cs[o].keys) /\ uses[k + 1] = <<o, name>>
    BY <2>1 DEF IsUse
  <2> QED BY <1>2, <2>2, FirstUseIs
<1>4. root \in [1..n -> 1..n]
  BY <1>1 DEF Forest
<1>5. PICK merged : merged = Merged(root, root[p], root[q])
  OBVIOUS
<1>6. \E longer : Forest(Join(parent, p, q), merged, longer, n)
  BY <1>1, <1>3, <1>5, JoinMerges
<1>7. Unites(cs, uses, k + 1, merged)
  BY <1>1, <1>2, <1>4, <1>5, UniteNext
<1> QED BY <1>2, <1>6, <1>7 DEF IsForestOf

\* Parents() is the forest of all uses: there is a recursive function as its
\* definition states it, and so it is one.
LEMMA ParentsAre ==
    ASSUME NEW cs, Keyed(cs), NEW n \in Nat, DOMAIN cs = 1..n
    PROVE  IsForestOf(cs, UsesOf(cs), Parents(cs), n, Len(UsesOf(cs)))
<1>1. PICK uses, m : uses = UsesOf(cs) /\ m = Len(uses)
  OBVIOUS
<1>2. Listed(uses) /\ \A j \in 1..m : IsUse(cs, uses[j])
  BY <1>1, UsesAre
<1>3. m \in Nat
  BY <1>1, <1>2, ListedFacts
<1>4. PICK own : own = [p \in 1..n |-> p]
  OBVIOUS
<1> DEFINE Step(parent, i) == Join(parent, uses[i][1], FirstUseIn(cs, uses[i][2]))
           S == (0..m) \X [1..n -> 1..n]
           g == [s \in S |-> Step(s[2], s[1])]
           P(f) == {k \in 0..m : IsForestOf(cs, uses, f[k], n, k)}
<1>5. \A parent, k : IsForestOf(cs, uses, parent, n, k) => parent \in [1..n -> 1..n]
  BY DEF IsForestOf, Forest
<1>6. IsForestOf(cs, uses, own, n, 0)
  BY <1>4, FirstForest
<1>7. \A k \in 0..(m - 1) : \A parent :
          IsForestOf(cs, uses, parent, n, k) => IsForestOf(cs, uses, Step(parent, k + 1), n, k + 1)
  <2> SUFFICES ASSUME NEW k \in 0..(m - 1), NEW parent, IsForestOf(cs, uses, parent, n, k)
               PROVE  IsForestOf(cs, uses, Step(parent, k + 1), n, k + 1)
    OBVIOUS
  <2>1. k \in Nat /\ \A j \in 1..(k + 1) : IsUse(cs, uses[j])
    BY <1>2, <1>3
  <2> QED BY <2>1, NextForest
<1>8. PICK f : Iterates(f, g, own, m)
  BY <1>3, IteratesExist
<1>9. \A i \in 0..m : f[i] = IF i = 0 THEN own ELSE g[<<i, f[i - 1]>>]
  BY <1>8, Zenon DEF Iterates
<1> HIDE DEF Step
<1>10. 0 \in P(f)
  <2>1. f[0] = own /\ 0 \in 0..m
    <3>1. 0 \in 0..m
      BY <1>3
    <3> HIDE DEF g, S
    <3>2. f[0] = IF 0 = 0 THEN own ELSE g[<<0, f[0 - 1]>>]
      BY <1>9, <3>1
    <3> QED BY <3>1, <3>2
  <2> QED BY <1>6, <2>1
<1>11. ASSUME NEW k \in 0..(m - 1), k \in P(f)
       PROVE  k + 1 \in P(f) /\ f[k + 1] = Step(f[k], k + 1)
  <2>1. k + 1 \in 0..m /\ (k + 1) - 1 = k /\ k + 1 # 0
    BY <1>3
  <2>2. f[k + 1] = g[<<k + 1, f[k]>>]
    <3> HIDE DEF g
    <3> QED BY <1>9, <2>1
  <2>3. IsForestOf(cs, uses, f[k], n, k)
    BY <1>11
  <2>4. <<k + 1, f[k]>> \in S
    BY <1>5, <2>1, <2>3
  <2>5. f[k + 1] = Step(f[k], k + 1)
    BY <2>2, <2>4
  <2>6. IsForestOf(cs, uses, f[k + 1], n, k + 1)
    BY <1>7, <2>3, <2>5
  <2> QED BY <2>1, <2>5, <2>6
<1> HIDE DEF g, S
<1>12. \A k \in 0..m : k \in P(f)
  <2>1. PICK Q : Q = P(f)
    OBVIOUS
  <2>2. 0 \in Q /\ \A k \in 0..(m - 1) : k \in Q => k + 1 \in Q
    BY <1>10, <1>11, <2>1
  <2> HIDE DEF P
  <2>3. \A k \in 0..m : k \in Q
    BY <1>3, <2>2, NumbersIn
  <2> QED BY <2>1, <2>3
<1>13. Joined(cs, uses, f, n, m)
  <2>1. ASSUME NEW i \in 0..m
        PROVE  f[i] = IF i = 0 THEN own ELSE Step(f[i - 1], i)
    <3>1. CASE i = 0
      BY <1>9, <3>1
    <3>2. CASE i # 0
      <4>1. PICK k : k = i - 1
        OBVIOUS
      <4>2. k \in 0..(m - 1) /\ k + 1 = i /\ k \in 0..m
        BY <1>3, <3>2, <4>1
      <4>3. f[k + 1] = Step(f[k], k + 1)
        BY <1>11, <1>12, <4>2
      <4> QED BY <3>2, <4>1, <4>2, <4>3
    <3> QED BY <3>1, <3>2
  <2>2. f = [i \in 0..m |-> f[i]]
    BY <1>8 DEF Iterates
  <2>3. f = [i \in 0..m |-> IF i = 0 THEN own ELSE Step(f[i - 1], i)]
    BY <2>1, <2>2
  <2> QED BY <1>4, <2>3 DEF Joined, Step
<1>14. PICK h : h = CHOOSE c : Joined(cs, uses, c, n, m)
  OBVIOUS
<1>15. Joined(cs, uses, h, n, m)
  BY <1>13, <1>14
<1>16. Parents(cs) = h[m]
  <2>1. Parents(cs) = (CHOOSE c : Joined(cs, UsesOf(cs), c, n, m))[m]
    BY <1>1 DEF Parents, UsesOf, FirstUseIn, Joined
  <2> QED BY <1>1, <1>14, <2>1
<1>17. \A i \in 0..m : h[i] = IF i = 0 THEN own ELSE Step(h[i - 1], i)
  BY <1>4, <1>15, Zenon DEF Joined, Step
<1>18. 0 \in P(h)
  BY <1>3, <1>6, <1>17
<1>19. ASSUME NEW k \in 0..(m - 1), k \in P(h) PROVE k + 1 \in P(h)
  <2>1. k + 1 \in 0..m /\ (k + 1) - 1 = k /\ k + 1 # 0
    BY <1>3
  <2>2. h[k + 1] = Step(h[k], k + 1)
    BY <1>17, <2>1
  <2>3. IsForestOf(cs, uses, h[k], n, k)
    BY <1>19
  <2>4. IsForestOf(cs, uses, h[k + 1], n, k + 1)
    BY <1>7, <2>2, <2>3
  <2> QED BY <2>1, <2>4
<1>20. m \in P(h)
  <2>1. PICK Q : Q = P(h)
    OBVIOUS
  <2>2. 0 \in Q /\ \A k \in 0..(m - 1) : k \in Q => k + 1 \in Q
    BY <1>18, <1>19, <2>1
  <2> HIDE DEF P
  <2>3. \A k \in 0..m : k \in Q
    BY <1>3, <2>2, NumbersIn
  <2> QED BY <1>3, <2>1, <2>3
<1> QED BY <1>1, <1>16, <1>20

\* Each call has a representative, and so have the calls that it shares keys
\* with, and no others but through them.
LEMMA Representatives ==
    ASSUME NEW cs, Keyed(cs)
    PROVE  \E root : RepresentedBy(cs, root)
<1>1. PICK n : n = Len(cs) /\ n \in Nat /\ DOMAIN cs = 1..n
  BY ListedFacts DEF Keyed
<1>2. PICK uses, m : uses = UsesOf(cs) /\ m = Len(uses)
  OBVIOUS
<1>3. /\ \A j \in 1..m : IsUse(cs, uses[j])
      /\ \A p \in DOMAIN cs : \A name \in Held(cs[p].keys) : \E j \in 1..m : uses[j] = <<p, name>>
  BY <1>2, UsesAre
<1>4. PICK root, rank : Forest(Parents(cs), root, rank, n) /\ Unites(cs, uses, m, root)
  BY <1>1, <1>2, ParentsAre DEF IsForestOf
<1>5. \A x \in 1..n : Root(Parents(cs), x) = root[x]
  BY <1>1, <1>4, RootIs
<1>6. root \in [1..n -> 1..n]
  BY <1>4 DEF Forest
<1>7. ASSUME NEW p \in DOMAIN cs, NEW name \in Held(cs[p].keys)
      PROVE  root[p] = root[FirstUseIn(cs, name)]
  <2>1. PICK j \in 1..m : uses[j] = <<p, name>>
    BY <1>3
  <2>2. uses[j][1] = p /\ uses[j][2] = name
    BY <2>1
  <2> QED BY <1>4, <2>2 DEF Unites
<1>8. \A x, y \in DOMAIN cs : Shares(cs, x, y) => root[x] = root[y]
  BY <1>7 DEF Shares
<1>9. Separates(cs, root)
  BY <1>4 DEF Unites, Separates
<1> QED BY <1>1, <1>5, <1>6, <1>8, <1>9 DEF RepresentedBy
---------------------------------------------------------------------------
(* The partitions.                                                         *)

\* The calls of a representative, and the first of each.
GroupOf(cs, root, p) == {q \in DOMAIN cs : root[q] = root[p]}

Firsts(cs, root) == {p \in DOMAIN cs : p = Min(GroupOf(cs, root, p))}

CallsAt(cs, group) ==
    LET members == Ascending(group, <)
    IN [k \in DOMAIN members |-> cs[members[k]]]

\* The parts are the groups of calls with one representative, in the order of
\* their first calls.
Groups(cs, root, ps, firsts, n) ==
    /\ n \in Nat /\ Len(ps) = n /\ DOMAIN ps = 1..n
    /\ \A i \in 1..n : /\ firsts[i] \in Firsts(cs, root)
                       /\ ps[i].calls = CallsAt(cs, GroupOf(cs, root, firsts[i]))
    /\ \A p \in Firsts(cs, root) : \E i \in 1..n : firsts[i] = p
    /\ \A i, j \in 1..n : i < j <=> firsts[i] < firsts[j]

LEMMA PartsAreGroups ==
    ASSUME NEW cs, Keyed(cs), cs # <<>>, ~TouchesEveryKey(cs), NEW root, RepresentedBy(cs, root)
    PROVE  \E firsts, n : Groups(cs, root, Partitions(cs), firsts, n)
<1> DEFINE group(p) == {q \in DOMAIN cs : Root(Parents(cs), q) = Root(Parents(cs), p)}
           F == {p \in DOMAIN cs : p = Min(group(p))}
           CallsIn(p) == LET members == Ascending(group(p), <)
                         IN [k \in DOMAIN members |-> cs[members[k]]]
           part(p) == [keys |-> KeysOf(CallsIn(p)), calls |-> CallsIn(p)]
<1>1. PICK firsts : firsts = Ascending(F, <)
  OBVIOUS
<1>2. Partitions(cs) = [i \in DOMAIN firsts |-> part(firsts[i])]
  BY <1>1, Zenon DEF Partitions
<1>3. \A x \in DOMAIN cs : Root(Parents(cs), x) = root[x]
  BY DEF RepresentedBy
<1>4. \A p \in DOMAIN cs : group(p) = GroupOf(cs, root, p)
  BY <1>3 DEF GroupOf
<1>5. F = Firsts(cs, root)
  <2> HIDE DEF group
  <2> QED BY <1>4 DEF Firsts
<1>6. \A p \in DOMAIN cs : part(p).calls = CallsAt(cs, GroupOf(cs, root, p))
  <2> SUFFICES ASSUME NEW p \in DOMAIN cs PROVE part(p).calls = CallsAt(cs, GroupOf(cs, root, p))
    OBVIOUS
  <2>1. part(p).calls = CallsIn(p)
    BY DEF part
  <2>2. group(p) = GroupOf(cs, root, p)
    BY <1>4
  <2> HIDE DEF group
  <2>3. CallsIn(p) = CallsAt(cs, group(p))
    BY Zenon DEF CallsAt, CallsIn
  <2> QED BY <2>1, <2>2, <2>3
<1>7. PICK n : n = Cardinality(F)
  OBVIOUS
<1>8. F \in SUBSET Int /\ IsFiniteSet(F) /\ F \subseteq DOMAIN cs
  <2>1. IsFiniteSet(DOMAIN cs) /\ DOMAIN cs \subseteq Int
    BY RequiredAre, ListedFacts DEF Keyed
  <2>2. F \subseteq DOMAIN cs
    OBVIOUS
  <2> HIDE DEF F
  <2> QED BY <2>1, <2>2, FS_Subset
<1> HIDE DEF F, part, CallsIn, group
<1>9. /\ n \in Nat /\ DOMAIN firsts = 1..n
      /\ \A i \in 1..n : firsts[i] \in F
      /\ \A x \in F : \E i \in 1..n : firsts[i] = x
      /\ \A i, j \in 1..n : i < j <=> firsts[i] < firsts[j]
  BY <1>1, <1>7, <1>8, AscendingNumbers
<1>10. PICK ps : ps = Partitions(cs)
  OBVIOUS
<1>11. /\ ps = [i \in 1..n |-> ps[i]]
       /\ \A i \in 1..n : ps[i] = part(firsts[i])
  BY <1>2, <1>9, <1>10
<1>12. Len(ps) = n /\ DOMAIN ps = 1..n
  BY <1>9, <1>11, ListedFunction
<1>13. \A i \in 1..n : ps[i].calls = CallsAt(cs, GroupOf(cs, root, firsts[i]))
  BY <1>6, <1>8, <1>9, <1>11
<1> QED BY <1>5, <1>9, <1>10, <1>12, <1>13 DEF Groups

\* The first call of a group.
LEMMA FirstOfGroup ==
    ASSUME NEW cs, Keyed(cs), NEW root, NEW p \in DOMAIN cs, NEW f, f = Min(GroupOf(cs, root, p))
    PROVE  /\ f \in Firsts(cs, root) /\ root[f] = root[p]
           /\ \A q \in GroupOf(cs, root, p) : f <= q
<1>1. PICK G : G = GroupOf(cs, root, p)
  OBVIOUS
<1>2. G \in SUBSET Nat /\ p \in G /\ G \subseteq DOMAIN cs
  <2>1. DOMAIN cs \in SUBSET Nat
    BY ListedFacts DEF Keyed
  <2> QED BY <1>1, <2>1 DEF GroupOf
<1>3. f \in G /\ \A q \in G : f <= q
  BY <1>1, <1>2, MinIs
<1>4. root[f] = root[p] /\ f \in DOMAIN cs
  BY <1>1, <1>3 DEF GroupOf
<1>5. GroupOf(cs, root, f) = G
  BY <1>1, <1>4 DEF GroupOf
<1> QED BY <1>1, <1>3, <1>4, <1>5 DEF Firsts

\* The positions of calls, told by their indexes.
PositionsOf(cs, chosen) == {p \in DOMAIN cs : \E q \in DOMAIN chosen : chosen[q].index = cs[p].index}

OwnIndexes(cs) == \A p, q \in DOMAIN cs : cs[p].index = cs[q].index => p = q

\* The positions of the calls at a set of positions.
LEMMA PositionsOfGroup ==
    ASSUME NEW cs, Listed(cs), OwnIndexes(cs), NEW group \in SUBSET DOMAIN cs
    PROVE  PositionsOf(cs, CallsAt(cs, group)) = group
<1>1. PICK members, n, chosen : /\ members = Ascending(group, <) /\ n = Cardinality(group)
                                /\ chosen = CallsAt(cs, group)
  OBVIOUS
<1>2. group \in SUBSET Int /\ IsFiniteSet(group)
  <2>1. IsFiniteSet(DOMAIN cs) /\ DOMAIN cs \subseteq Int
    BY RequiredAre, ListedFacts
  <2> QED BY <2>1, FS_Subset
<1>3. /\ DOMAIN members = 1..n
      /\ \A k \in 1..n : members[k] \in group
      /\ \A x \in group : \E k \in 1..n : members[k] = x
  BY <1>1, <1>2, AscendingNumbers
<1>4. DOMAIN chosen = 1..n /\ \A k \in 1..n : chosen[k] = cs[members[k]]
  BY <1>1, <1>3 DEF CallsAt
<1>5. ASSUME NEW p \in PositionsOf(cs, chosen) PROVE p \in group
  <2>1. PICK k \in 1..n : chosen[k].index = cs[p].index
    BY <1>4 DEF PositionsOf
  <2>2. members[k] \in group /\ members[k] \in DOMAIN cs /\ cs[members[k]].index = cs[p].index
    BY <1>3, <1>4, <2>1
  <2>3. p \in DOMAIN cs
    BY DEF PositionsOf
  <2> QED BY <2>2, <2>3 DEF OwnIndexes
<1>6. ASSUME NEW p \in group PROVE p \in PositionsOf(cs, chosen)
  <2>1. PICK k \in 1..n : members[k] = p
    BY <1>3
  <2> QED BY <1>4, <2>1 DEF PositionsOf
<1> QED BY <1>1, <1>5, <1>6

\* No nonempty part of the set is without a shared key with the rest.
IsJoined(cs, set) ==
    \A some \in (SUBSET set) \ {{}, set} : \E p \in some, q \in set \ some : Shares(cs, p, q)

LEMMA GroupIsJoined ==
    ASSUME NEW cs, NEW root, RepresentedBy(cs, root), NEW f \in DOMAIN cs
    PROVE  IsJoined(cs, GroupOf(cs, root, f))
<1>1. PICK G : G = GroupOf(cs, root, f)
  OBVIOUS
<1> SUFFICES ASSUME NEW some \in SUBSET G, some # {}, some # G,
                    \A p \in some, q \in G \ some : ~Shares(cs, p, q)
             PROVE  FALSE
  BY <1>1 DEF IsJoined
<1>2. some \in SUBSET DOMAIN cs
  BY <1>1 DEF GroupOf
<1>3. IsClosed(cs, some)
  <2> SUFFICES ASSUME NEW p \in some, NEW q \in DOMAIN cs, Shares(cs, p, q) PROVE q \in some
    BY DEF IsClosed
  <2>1. root[p] = root[q] /\ root[p] = root[f]
    BY <1>1, <1>2 DEF RepresentedBy, GroupOf
  <2>2. q \in G
    BY <1>1, <2>1 DEF GroupOf
  <2> QED BY <2>2
<1>4. PICK x, y : x \in some /\ y \in G \ some
  OBVIOUS
<1>5. root[x] = root[y] /\ x \in DOMAIN cs /\ y \in DOMAIN cs
  BY <1>1, <1>4 DEF GroupOf
<1>6. x \in some <=> y \in some
  BY <1>2, <1>3, <1>5 DEF RepresentedBy, Separates
<1> QED BY <1>4, <1>6

\* What PartitionsAreComponents says of the parts of some calls.
AreComponents(cs, ps) ==
    /\ UNION {PositionsOf(cs, ps[i].calls) : i \in DOMAIN ps} = DOMAIN cs
    /\ \A i \in DOMAIN ps : IsJoined(cs, PositionsOf(cs, ps[i].calls))
    /\ \A i, j \in DOMAIN ps : i < j =>
           /\ \A p \in PositionsOf(cs, ps[i].calls), q \in PositionsOf(cs, ps[j].calls) :
                  ~Shares(cs, p, q)
           /\ Min(PositionsOf(cs, ps[i].calls)) < Min(PositionsOf(cs, ps[j].calls))

LEMMA PartsAreComponents ==
    ASSUME NEW cs, Keyed(cs), OwnIndexes(cs), ~TouchesEveryKey(cs)
    PROVE  AreComponents(cs, Partitions(cs))
<1>1. CASE cs = <<>>
  <2>1. Partitions(cs) = <<>> /\ DOMAIN <<>> = {} /\ DOMAIN cs = {}
    <3>1. DOMAIN <<>> = {}
      BY ListedFacts, OneState
    <3> QED BY <1>1, <3>1 DEF Partitions
  <2> QED BY <2>1 DEF AreComponents
<1>2. CASE cs # <<>>
  <2>1. PICK root : RepresentedBy(cs, root)
    BY Representatives
  <2>2. PICK ps : ps = Partitions(cs)
    OBVIOUS
  <2>3. PICK firsts, n : Groups(cs, root, ps, firsts, n)
    BY <1>2, <2>1, <2>2, PartsAreGroups
  <2>4. DOMAIN ps = 1..n /\ n \in Nat
    BY <2>3 DEF Groups
  <2>5. \A i \in 1..n : /\ firsts[i] \in DOMAIN cs
                        /\ firsts[i] = Min(GroupOf(cs, root, firsts[i]))
                        /\ PositionsOf(cs, ps[i].calls) = GroupOf(cs, root, firsts[i])
    <3> SUFFICES ASSUME NEW i \in 1..n
                 PROVE  /\ firsts[i] \in DOMAIN cs
                        /\ firsts[i] = Min(GroupOf(cs, root, firsts[i]))
                        /\ PositionsOf(cs, ps[i].calls) = GroupOf(cs, root, firsts[i])
      OBVIOUS
    <3>1. /\ firsts[i] \in DOMAIN cs /\ firsts[i] = Min(GroupOf(cs, root, firsts[i]))
          /\ ps[i].calls = CallsAt(cs, GroupOf(cs, root, firsts[i]))
      BY <2>3 DEF Groups, Firsts
    <3>2. PICK G : G = GroupOf(cs, root, firsts[i]) /\ G \in SUBSET DOMAIN cs
      BY DEF GroupOf
    <3>3. PositionsOf(cs, CallsAt(cs, G)) = G
      BY <3>2, PositionsOfGroup DEF Keyed
    <3> QED BY <3>1, <3>2, <3>3
  <2>6. ASSUME NEW p \in DOMAIN cs
        PROVE  \E i \in 1..n : p \in GroupOf(cs, root, firsts[i])
    <3>1. PICK f : f = Min(GroupOf(cs, root, p))
      OBVIOUS
    <3>2. f \in Firsts(cs, root) /\ root[f] = root[p]
      BY <3>1, FirstOfGroup
    <3>3. PICK i \in 1..n : firsts[i] = f
      BY <2>3, <3>2 DEF Groups
    <3> QED BY <3>2, <3>3 DEF GroupOf
  <2>7. UNION {PositionsOf(cs, ps[i].calls) : i \in DOMAIN ps} = DOMAIN cs
    <3>1. \A i \in 1..n : PositionsOf(cs, ps[i].calls) \subseteq DOMAIN cs
      BY DEF PositionsOf
    <3>2. \A p \in DOMAIN cs : \E i \in 1..n : p \in PositionsOf(cs, ps[i].calls)
      BY <2>5, <2>6
    <3> QED BY <2>4, <3>1, <3>2
  <2>8. \A i \in 1..n : IsJoined(cs, PositionsOf(cs, ps[i].calls))
    BY <2>1, <2>5, GroupIsJoined
  <2>9. ASSUME NEW i \in 1..n, NEW j \in 1..n, i < j
        PROVE  /\ \A p \in GroupOf(cs, root, firsts[i]), q \in GroupOf(cs, root, firsts[j]) :
                      ~Shares(cs, p, q)
               /\ firsts[i] < firsts[j]
    <3>1. firsts[i] < firsts[j] /\ firsts[i] \in Nat
      <4>1. DOMAIN cs \in SUBSET Nat
        BY ListedFacts DEF Keyed
      <4> QED BY <2>3, <2>5, <2>9, <4>1 DEF Groups
    <3>2. ASSUME NEW p \in GroupOf(cs, root, firsts[i]), NEW q \in GroupOf(cs, root, firsts[j]),
                 Shares(cs, p, q)
          PROVE  FALSE
      <4>1. root[p] = root[q] /\ root[p] = root[firsts[i]] /\ root[q] = root[firsts[j]]
        BY <2>1, <3>2 DEF RepresentedBy, GroupOf
      <4>2. GroupOf(cs, root, firsts[i]) = GroupOf(cs, root, firsts[j])
        BY <4>1 DEF GroupOf
      <4>3. firsts[i] = firsts[j]
        BY <2>5, <4>2
      <4> QED BY <3>1, <4>3
    <3> QED BY <3>1, <3>2
  <2>10. \A i, j \in 1..n : i < j =>
           /\ \A p \in PositionsOf(cs, ps[i].calls), q \in PositionsOf(cs, ps[j].calls) :
                  ~Shares(cs, p, q)
           /\ Min(PositionsOf(cs, ps[i].calls)) < Min(PositionsOf(cs, ps[j].calls))
    BY <2>5, <2>9
  <2> QED BY <2>2, <2>4, <2>7, <2>8, <2>10 DEF AreComponents
<1> QED BY <1>1, <1>2
---------------------------------------------------------------------------
(* The partitions of a check.                                              *)

\* The calls of a log declare lists of keys, and have indexes of their own in it.
LEMMA CallsAreKeyed ==
    ASSUME LinInv
    PROVE  /\ Keyed(Calls(log)) /\ OwnIndexes(Calls(log))
           /\ \A p \in DOMAIN Calls(log) : Calls(log)[p].index <= Len(log)
<1>1. PICK cs, order : cs = Calls(log) /\ order = Ascending(Kept(log), <)
  OBVIOUS
<1>2. Sound(model, cs)
  BY <1>1, CallsOfLog
<1>3. Listed(cs) /\ OwnIndexes(cs)
  BY <1>2 DEF Sound, OwnIndexes
<1>4. Len(log) \in Nat /\ LogIsSound
  BY ListedFacts DEF LinInv, LogIsSound
<1>5. Kept(log) \in SUBSET Int /\ IsFiniteSet(Kept(log)) /\ Kept(log) \subseteq 1..Len(log)
  <2>1. Kept(log) \subseteq 1..Len(log)
    BY DEF Kept
  <2>2. IsFiniteSet(1..Len(log)) /\ 1..Len(log) \subseteq Int
    BY <1>4, FS_Interval
  <2> QED BY <2>1, <2>2, FS_Subset
<1>6. \A p \in DOMAIN order : order[p] \in Kept(log)
  BY <1>1, <1>5, AscendingNumbers
<1>7. ASSUME NEW p \in DOMAIN cs PROVE Listed(cs[p].keys) /\ cs[p].index <= Len(log)
  <2>1. p \in DOMAIN order /\ cs[p] = CallOf(log, order[p])
    BY <1>1 DEF Calls
  <2>2. order[p] \in 1..Len(log) /\ log[order[p]].kind = "invoke"
    BY <1>6, <2>1 DEF Kept
  <2>3. cs[p].keys = log[order[p]].value.keys /\ cs[p].index = order[p] - 1
    BY <2>1 DEF CallOf
  <2>4. log[order[p]].value \in problem.calls
    BY <1>4, <2>2 DEF LogIsSound
  <2>5. problem \in Problems
    BY DEF LinInv, ProblemIsGiven
  <2>6. Listed(cs[p].keys)
    BY <2>3, <2>4, <2>5, ProblemsAssumption DEF Listed
  <2> QED BY <1>4, <2>2, <2>3, <2>6
<1> QED BY <1>1, <1>3, <1>7 DEF Keyed

\* Calls that share a key are checked together, and what is checked together
\* is joined by shared keys, for any calls and keys: _partitions() divides a
\* history into the components of its keys, in the order of their first calls.
THEOREM PartitionsHold == CheckSpec => []PartitionsAreComponents
<1>1. CheckInit => VerdictInv /\ PartsAreOfLog
  BY InitVerdictInv DEF CheckInit, PartsAreOfLog
<1>2. VerdictInv /\ PartsAreOfLog /\ [CheckNext]_<<svars, cvars>> => (VerdictInv /\ PartsAreOfLog)'
  BY NextVerdictInv, NextPartsAreOfLog
<1>3. VerdictInv /\ PartsAreOfLog => PartitionsAreComponents
  <2> SUFFICES ASSUME VerdictInv, PartsAreOfLog, stage = "checking", ~problem.whole,
                      ~TouchesEveryKey(Calls(log))
               PROVE  AreComponents(Calls(log), parts)
    BY DEF PartitionsAreComponents, AreComponents, PositionsOf, IsJoined, Shares
  <2>1. Keyed(Calls(log)) /\ OwnIndexes(Calls(log))
    BY CallsAreKeyed DEF VerdictInv
  <2>2. parts = Partitions(Calls(log))
    BY DEF PartsAreOfLog, PartsOf
  <2> QED BY <2>1, <2>2, PartsAreComponents
<1> QED BY <1>1, <1>2, <1>3, PTL DEF CheckSpec
---------------------------------------------------------------------------
(* The key-value model, one key at a time.                                 *)

KV == "key-value"

\* The key that a call touches, and what the call makes of its value.
KeyOf(call) == call.op.args[1]

Alters(op, before, after) ==
    \/ op.operation = "get" /\ Agrees(op, before) /\ after = before
    \/ op.operation = "put" /\ after = op.args[2]
    \/ op.operation = "append" /\ after = before \o op.args[2]

\* A map of the keys, and two that differ at most in one of them.
IsMap(s) == s = [k \in Keys |-> s[k]]

DifferAt(s, t, name) == \A k \in Keys : k # name => t[k] = s[k]

\* A step alters the value of the key that the call touches and no other.
LEMMA KeyStep ==
    ASSUME NEW op, op.operation \in OperationsOf(KV), NEW name \in Keys, name = op.args[1],
           NEW s, IsMap(s), NEW t
    PROVE  t \in Held(StepOf(KV, s, op)) <=>
               IsMap(t) /\ DifferAt(s, t, name) /\ Alters(op, s[name], t[name])
<1>1. op.operation \in {"get", "put", "append"}
  BY DEF OperationsOf, KV
<1>2. StepOf(KV, s, op) = KeyValue(s, op)
  BY DEF StepOf, KV
<1>3. \A v : /\ IsMap([s EXCEPT ![name] = v]) /\ DifferAt(s, [s EXCEPT ![name] = v], name)
             /\ [s EXCEPT ![name] = v][name] = v
             /\ IsMap(t) /\ DifferAt(s, t, name) /\ t[name] = v => t = [s EXCEPT ![name] = v]
  <2> SUFFICES ASSUME NEW v
               PROVE  /\ IsMap([s EXCEPT ![name] = v]) /\ DifferAt(s, [s EXCEPT ![name] = v], name)
                      /\ [s EXCEPT ![name] = v][name] = v
                      /\ IsMap(t) /\ DifferAt(s, t, name) /\ t[name] = v => t = [s EXCEPT ![name] = v]
    OBVIOUS
  <2>1. PICK u : u = [s EXCEPT ![name] = v]
    OBVIOUS
  <2>2. DOMAIN s = Keys
    BY DEF IsMap
  <2>3. /\ u = [k \in Keys |-> u[k]] /\ u[name] = v
        /\ \A k \in Keys : k # name => u[k] = s[k]
    BY <2>1, <2>2
  <2>4. ASSUME IsMap(t), DifferAt(s, t, name), t[name] = v PROVE t = u
    <3>1. \A k \in Keys : t[k] = u[k]
      BY <2>3, <2>4 DEF DifferAt
    <3>2. t = [k \in Keys |-> t[k]]
      BY <2>4 DEF IsMap
    <3> QED BY <2>3, <3>1, <3>2, SameFunction, Zenon
  <2> QED BY <2>1, <2>3, <2>4 DEF IsMap, DifferAt
<1>4. IsMap(s) /\ DifferAt(s, s, name)
  BY DEF DifferAt
<1>5. IsMap(t) /\ DifferAt(s, t, name) /\ t[name] = s[name] => t = s
  <2> SUFFICES ASSUME IsMap(t), DifferAt(s, t, name), t[name] = s[name] PROVE t = s
    OBVIOUS
  <2>1. \A k \in Keys : t[k] = s[k]
    BY DEF DifferAt
  <2> QED BY <2>1, SameFunction, Zenon DEF IsMap
<1>6. Held(<<>>) = {} /\ \A x : Held(<<x>>) = {x}
  BY OneState
<1>7. CASE op.operation = "get"
  <2>1. KeyValue(s, op) = If(Agrees(op, s[name]), <<s>>)
    BY <1>7 DEF KeyValue
  <2>2. t \in Held(KeyValue(s, op)) <=> Agrees(op, s[name]) /\ t = s
    BY <1>6, <2>1 DEF If
  <2>3. Alters(op, s[name], t[name]) <=> Agrees(op, s[name]) /\ t[name] = s[name]
    BY <1>7 DEF Alters
  <2> QED BY <1>2, <1>4, <1>5, <2>2, <2>3
<1>8. CASE op.operation = "put"
  <2>1. KeyValue(s, op) = <<[s EXCEPT ![name] = op.args[2]]>>
    BY <1>8 DEF KeyValue
  <2>2. t \in Held(KeyValue(s, op)) <=> t = [s EXCEPT ![name] = op.args[2]]
    BY <1>6, <2>1
  <2>3. Alters(op, s[name], t[name]) <=> t[name] = op.args[2]
    BY <1>8 DEF Alters
  <2>4. PICK v : v = op.args[2]
    OBVIOUS
  <2>5. t = [s EXCEPT ![name] = v] <=> IsMap(t) /\ DifferAt(s, t, name) /\ t[name] = v
    BY <1>3
  <2> QED BY <1>2, <2>2, <2>3, <2>4, <2>5
<1>9. CASE op.operation = "append"
  <2>1. KeyValue(s, op) = <<[s EXCEPT ![name] = s[name] \o op.args[2]]>>
    BY <1>9 DEF KeyValue
  <2>2. t \in Held(KeyValue(s, op)) <=> t = [s EXCEPT ![name] = s[name] \o op.args[2]]
    BY <1>6, <2>1
  <2>3. Alters(op, s[name], t[name]) <=> t[name] = s[name] \o op.args[2]
    BY <1>9 DEF Alters
  <2>4. PICK v : v = s[name] \o op.args[2]
    OBVIOUS
  <2>5. t = [s EXCEPT ![name] = v] <=> IsMap(t) /\ DifferAt(s, t, name) /\ t[name] = v
    BY <1>3
  <2> QED BY <1>2, <2>2, <2>3, <2>4, <2>5
<1> QED BY <1>1, <1>7, <1>8, <1>9

---------------------------------------------------------------------------
(* Linearizability, one key at a time.                                     *)

\* Calls of the model that touch its keys.
OnKeys(cs) == \A p \in DOMAIN cs : KeyOf(cs[p]) \in Keys

\* y is the first of the calls taken on its key, and x the one before y.
IsFirstOn(taken, order, y) ==
    \A x \in taken : KeyOf(x) = KeyOf(y) => <<x, y>> \notin order

IsLastBefore(taken, order, x, y) ==
    /\ x \in taken /\ KeyOf(x) = KeyOf(y) /\ <<x, y>> \in order
    /\ \A z \in taken : KeyOf(z) = KeyOf(y) /\ <<z, y>> \in order => z = x \/ <<z, x>> \in order

\* Each call makes of its key's value what after states, in the order stated.
IsLegal(taken, order, after) ==
    \A y \in taken :
        /\ IsFirstOn(taken, order, y) => Alters(y.op, Empty, after[y])
        /\ \A x \in taken : IsLastBefore(taken, order, x, y) => Alters(y.op, after[x], after[y])

\* An order of a set of calls, of the known ones and some of the others,
\* keeps the precedence and is legal for each key by itself.
Orders(set, taken, order, after) ==
    /\ taken \in SUBSET set
    /\ \A x \in set : x.op.known => x \in taken
    /\ StrictTotalOrder(order, taken)
    /\ \A x \in set, y \in taken : Precedes(x, y) => <<x, y>> \in order
    /\ IsLegal(taken, order, after)

HasOrder(set) == \E taken, order, after : Orders(set, taken, order, after)

\* A linearizable list of calls has such an order.
LEMMA LinearizableHasOrder ==
    ASSUME NEW cs, Sound(KV, cs), OnKeys(cs), IsLinearizable(KV, cs)
    PROVE  HasOrder(Held(cs))
<1>0. KV \in ModelNames /\ KV # "set" /\ InitOf(KV) = [k \in Keys |-> Empty]
  BY DEF KV, ModelNames, InitOf
<1>1. PICK n : CanComplete(KV, cs, {}, <<InitOf(KV)>>, n)
  BY <1>0, WitnessCompletes
<1>2. PICK o, r : Completes(KV, cs, {}, InitOf(KV), n, o, r)
  <2>1. PICK s \in Held(<<InitOf(KV)>>) : \E o, r : Completes(KV, cs, {}, s, n, o, r)
    BY <1>1 DEF CanComplete
  <2>2. s = InitOf(KV)
    BY OneState
  <2> QED BY <2>1, <2>2
<1>3. \A a, b : Same(KV, a, b) <=> a = b
  BY <1>0 DEF Same
<1>4. /\ n \in Nat /\ r[0] = [k \in Keys |-> Empty]
      /\ \A i \in 1..n : o[i] \in DOMAIN cs
      /\ \A i, j \in 1..n : o[i] = o[j] => i = j
      /\ \A q \in Required(cs) : \E i \in 1..n : o[i] = q
      /\ \A i \in 1..n, q \in Required(cs) :
             cs[q].completion < cs[o[i]].index => \E j \in 1..(i - 1) : o[j] = q
      /\ \A i \in 1..n : r[i] \in Held(StepOf(KV, r[i - 1], cs[o[i]].op))
  BY <1>0, <1>2, <1>3 DEF Completes
<1>5. \A i \in 1..n : KeyOf(cs[o[i]]) \in Keys /\ cs[o[i]].op.operation \in OperationsOf(KV)
  BY <1>4 DEF OnKeys, Sound
<1> DEFINE P == {i \in 0..n : IsMap(r[i])}
<1>6. \A i \in 0..n : IsMap(r[i])
  <2>1. 0 \in P
    BY <1>4 DEF IsMap
  <2>2. ASSUME NEW i \in 0..(n - 1), i \in P PROVE i + 1 \in P
    <3>1. i + 1 \in 1..n /\ i + 1 \in 0..n /\ (i + 1) - 1 = i /\ IsMap(r[i])
      BY <1>4, <2>2
    <3>2. r[i + 1] \in Held(StepOf(KV, r[i], cs[o[i + 1]].op))
      BY <1>4, <3>1
    <3>3. IsMap(r[i + 1])
      BY <1>5, <3>1, <3>2, KeyStep DEF KeyOf
    <3> QED BY <3>1, <3>3
  <2> HIDE DEF P
  <2>3. \A i \in 0..n : i \in P
    BY <1>4, <2>1, <2>2, NumbersIn
  <2> QED BY <2>3 DEF P
<1>7. ASSUME NEW i \in 1..n
      PROVE  /\ DifferAt(r[i - 1], r[i], KeyOf(cs[o[i]]))
             /\ Alters(cs[o[i]].op, r[i - 1][KeyOf(cs[o[i]])], r[i][KeyOf(cs[o[i]])])
  <2>1. i - 1 \in 0..n /\ IsMap(r[i - 1]) /\ r[i] \in Held(StepOf(KV, r[i - 1], cs[o[i]].op))
    BY <1>4, <1>6
  <2> QED BY <1>5, <2>1, KeyStep DEF KeyOf
\* A value stays while no call touches its key.
<1>8. ASSUME NEW a \in 0..n, NEW b \in a..n, NEW name \in Keys,
             \A i \in (a + 1)..b : KeyOf(cs[o[i]]) # name
      PROVE  r[b][name] = r[a][name]
  <2> DEFINE Q == {d \in 0..(b - a) : r[a + d][name] = r[a][name]}
  <2>1. 0 \in Q
    BY <1>4
  <2>2. ASSUME NEW d \in 0..((b - a) - 1), d \in Q PROVE d + 1 \in Q
    <3>1. PICK i : i = a + (d + 1)
      OBVIOUS
    <3>2. i \in (a + 1)..b /\ i \in 1..n /\ i - 1 = a + d /\ d + 1 \in 0..(b - a)
      BY <1>4, <3>1
    <3>3. r[i][name] = r[i - 1][name]
      BY <1>7, <1>8, <3>2 DEF DifferAt
    <3> QED BY <2>2, <3>1, <3>2, <3>3
  <2>3. b - a \in Nat /\ a + (b - a) = b
    BY <1>4
  <2> HIDE DEF Q
  <2>4. \A d \in 0..(b - a) : d \in Q
    BY <2>1, <2>2, <2>3, NumbersIn
  <2>5. b - a \in Q
    BY <2>3, <2>4
  <2> QED BY <2>3, <2>5 DEF Q
\* The order.
<1>9. PICK taken : taken = {cs[o[i]] : i \in 1..n}
  OBVIOUS
<1>10. PICK rank : rank = [x \in taken |-> CHOOSE i \in 1..n : cs[o[i]] = x]
  OBVIOUS
<1>11. \A x \in taken : rank[x] \in 1..n /\ cs[o[rank[x]]] = x
  BY <1>9, <1>10
<1>12. \A p, q \in DOMAIN cs : cs[p] = cs[q] => p = q
  BY DEF Sound
<1>13. \A i \in 1..n : cs[o[i]] \in taken /\ rank[cs[o[i]]] = i
  BY <1>4, <1>9, <1>11, <1>12
<1>14. PICK order : order = {e \in taken \X taken : rank[e[1]] < rank[e[2]]}
  OBVIOUS
<1>15. \A x, y \in taken : <<x, y>> \in order <=> rank[x] < rank[y]
  BY <1>14
<1>16. PICK after : after = [x \in taken |-> r[rank[x]][KeyOf(x)]]
  OBVIOUS
<1>17. StrictTotalOrder(order, taken)
  <2>1. \A x \in taken : rank[x] \in Int
    BY <1>11
  <2>2. \A x, y \in taken : rank[x] = rank[y] => x = y
    BY <1>11
  <2> QED BY <1>15, <2>1, <2>2 DEF StrictTotalOrder
<1>18. taken \in SUBSET Held(cs) /\ \A x \in Held(cs) : x.op.known => x \in taken
  <2>1. taken \in SUBSET Held(cs)
    BY <1>4, <1>9 DEF Held
  <2>2. ASSUME NEW x \in Held(cs), x.op.known PROVE x \in taken
    <3>1. PICK p \in DOMAIN cs : cs[p] = x
      BY DEF Held
    <3>2. PICK i \in 1..n : o[i] = p
      BY <1>4, <2>2, <3>1 DEF Required
    <3> QED BY <1>9, <3>1, <3>2
  <2> QED BY <2>1, <2>2
<1>19. ASSUME NEW x \in Held(cs), NEW y \in taken, Precedes(x, y) PROVE <<x, y>> \in order
  <2>1. PICK p \in DOMAIN cs : cs[p] = x
    BY DEF Held
  <2>2. p \in Required(cs) /\ cs[p].completion < cs[o[rank[y]]].index
    BY <1>11, <1>19, <2>1 DEF Precedes, Required
  <2>3. PICK j \in 1..(rank[y] - 1) : o[j] = p
    BY <1>4, <1>11, <2>2
  <2>4. j \in 1..n /\ j < rank[y]
    BY <1>4, <1>11, <2>3
  <2>5. x \in taken /\ rank[x] = j
    BY <1>13, <2>1, <2>3, <2>4
  <2> QED BY <1>15, <2>4, <2>5
<1>20. ASSUME NEW y \in taken
       PROVE  /\ IsFirstOn(taken, order, y) => Alters(y.op, Empty, after[y])
              /\ \A x \in taken : IsLastBefore(taken, order, x, y) => Alters(y.op, after[x], after[y])
  <2>1. PICK j, name : j = rank[y] /\ name = KeyOf(y) /\ j \in 1..n /\ cs[o[j]] = y
    BY <1>11
  <2>2. name \in Keys /\ after[y] = r[j][name] /\ Alters(y.op, r[j - 1][name], r[j][name])
    BY <1>5, <1>7, <1>16, <2>1
  <2>3. CASE IsFirstOn(taken, order, y)
    <3>1. \A i \in 1..(j - 1) : KeyOf(cs[o[i]]) # name
      <4> SUFFICES ASSUME NEW i \in 1..(j - 1) PROVE KeyOf(cs[o[i]]) # name
        OBVIOUS
      <4>1. i \in 1..n /\ i < j
        BY <1>4, <2>1
      <4>2. <<cs[o[i]], y>> \in order /\ cs[o[i]] \in taken
        BY <1>13, <1>15, <2>1, <4>1
      <4> QED BY <2>1, <2>3, <4>2 DEF IsFirstOn
    <3>2. 0 \in 0..n /\ j - 1 \in 0..n /\ 0 + 1 = 1
      BY <1>4, <2>1
    <3>3. r[j - 1][name] = r[0][name]
      BY <1>8, <2>2, <3>1, <3>2
    <3> QED BY <1>4, <2>2, <2>3, <3>3 DEF IsFirstOn, IsLastBefore
  <2>4. ASSUME NEW x \in taken, IsLastBefore(taken, order, x, y) PROVE Alters(y.op, after[x], after[y])
    <3>1. PICK i : i = rank[x] /\ i \in 1..n /\ cs[o[i]] = x /\ i < j /\ KeyOf(x) = name
      BY <1>11, <1>15, <2>1, <2>4 DEF IsLastBefore
    <3>2. \A h \in (i + 1)..(j - 1) : KeyOf(cs[o[h]]) # name
      <4> SUFFICES ASSUME NEW h \in (i + 1)..(j - 1), KeyOf(cs[o[h]]) = name PROVE FALSE
        OBVIOUS
      <4>1. h \in 1..n /\ h < j /\ i < h
        BY <1>4, <2>1, <3>1
      <4>2. PICK z : z = cs[o[h]] /\ z \in taken /\ rank[z] = h
        BY <1>13, <4>1
      <4>3. <<z, y>> \in order /\ KeyOf(z) = KeyOf(y)
        BY <1>15, <2>1, <4>1, <4>2
      <4>4. z = x \/ <<z, x>> \in order
        BY <2>4, <4>2, <4>3 DEF IsLastBefore
      <4> QED BY <1>15, <3>1, <4>1, <4>2, <4>4
    <3>3. i \in 0..n /\ j - 1 \in i..n
      BY <1>4, <2>1, <3>1
    <3>4. r[j - 1][name] = r[i][name]
      BY <1>8, <2>2, <3>2, <3>3
    <3>5. after[x] = r[i][name]
      BY <1>16, <3>1
    <3> QED BY <2>2, <3>4, <3>5
  <2> QED BY <2>3, <2>4
<1>21. Orders(Held(cs), taken, order, after)
  BY <1>17, <1>18, <1>19, <1>20 DEF Orders, IsLegal
<1> QED BY <1>21 DEF HasOrder
---------------------------------------------------------------------------
(* From an order of the calls to an order of the definition.               *)

\* The model reaches the state to which it goes.
LEMMA RunIsReached ==
    ASSUME NEW name, NEW cs, NEW o, NEW n \in Nat, n = Len(o), NEW r, r[0] = InitOf(name),
           \A i \in 1..n : r[i] \in Held(StepOf(name, r[i - 1], cs[o[i]].op))
    PROVE  Reached(name, cs, o) # {}
<1>1. PICK f : Trail(f, name, cs, o, n) /\ Reached(name, cs, o) = f[n]
  BY TrailOf
<1>2. /\ f[0] = {InitOf(name)}
      /\ \A k \in 0..(n - 1) : f[k + 1] = After(name, cs, o[k + 1], f[k])
  BY <1>1, TrailStep
<1> DEFINE P == {k \in 0..n : r[k] \in f[k]}
<1>3. 0 \in P
  BY <1>2
<1>4. ASSUME NEW k \in 0..(n - 1), k \in P PROVE k + 1 \in P
  <2>1. k + 1 \in 1..n /\ k + 1 \in 0..n /\ (k + 1) - 1 = k /\ r[k] \in f[k]
    BY <1>4
  <2>2. r[k + 1] \in Held(StepOf(name, r[k], cs[o[k + 1]].op))
    BY <2>1
  <2>3. r[k + 1] \in After(name, cs, o[k + 1], f[k])
    BY <2>1, <2>2 DEF After
  <2> QED BY <1>2, <2>1, <2>3
<1> HIDE DEF P
<1>5. n \in P
  BY <1>3, <1>4, NumbersIn
<1> QED BY <1>1, <1>5 DEF P

\* The members of a finite set can be listed in any order of them.
LEMMA OrderLists ==
    ASSUME NEW S, IsFiniteSet(S), NEW R, StrictTotalOrder(R, S)
    PROVE  \E l : Lists(l, R, S)
<1>1. PICK n, l : /\ n = Cardinality(S)
                  /\ l = [i \in 1..n |-> CHOOSE x \in S : Cardinality(SetLessThan(x, R, S)) = i - 1]
  OBVIOUS
<1>2. ASSUME NEW i \in 1..Cardinality(S), \E x \in S : Cardinality(SetLessThan(x, R, S)) = i - 1
      PROVE  l[i] \in S /\ Cardinality(SetLessThan(l[i], R, S)) = i - 1
  <2>1. l[i] = CHOOSE x \in S : Cardinality(SetLessThan(x, R, S)) = i - 1
    BY <1>1
  <2> QED BY <1>2, <2>1
<1>3. Lists(l, R, S)
  BY <1>2, RanksListInOrder
<1> QED BY <1>3

\* The first k calls of a list that touch a key, and the value they leave it.
TouchesOf(f, k, name) == {i \in 1..k : KeyOf(f[i]) = name}

ValueAfter(f, after, k, name) ==
    IF TouchesOf(f, k, name) = {} THEN Empty ELSE after[f[Max(TouchesOf(f, k, name))]]

\* One more call leaves its key with a value of its own, and others with theirs.
LEMMA ValueNext ==
    ASSUME NEW f, NEW after, NEW k \in Nat, NEW name
    PROVE  /\ KeyOf(f[k + 1]) = name => ValueAfter(f, after, k + 1, name) = after[f[k + 1]]
           /\ KeyOf(f[k + 1]) # name => ValueAfter(f, after, k + 1, name) = ValueAfter(f, after, k, name)
<1>1. PICK old, new : old = TouchesOf(f, k, name) /\ new = TouchesOf(f, k + 1, name)
  OBVIOUS
<1>2. old \in SUBSET (1..k) /\ new = IF KeyOf(f[k + 1]) = name THEN old \cup {k + 1} ELSE old
  BY <1>1 DEF TouchesOf
<1>3. CASE KeyOf(f[k + 1]) = name
  <2>1. new \in SUBSET (0..(k + 1)) /\ new # {} /\ k + 1 \in new
    BY <1>2, <1>3
  <2>2. Max(new) \in new /\ \A z \in new : z <= Max(new)
    BY <2>1, GreatestNumber
  <2>3. Max(new) = k + 1
    <3>1. PICK m : m = Max(new)
      OBVIOUS
    <3>2. m \in 0..(k + 1) /\ k + 1 <= m
      BY <2>1, <2>2, <3>1
    <3> QED BY <3>1, <3>2
  <2> QED BY <1>1, <1>3, <2>1, <2>3 DEF ValueAfter
<1>4. CASE KeyOf(f[k + 1]) # name
  BY <1>1, <1>2, <1>4 DEF ValueAfter
<1> QED BY <1>3, <1>4

\* A list of calls with such an order is linearizable.
LEMMA OrderLinearizes ==
    ASSUME NEW cs, Sound(KV, cs), OnKeys(cs), HasOrder(Held(cs))
    PROVE  IsLinearizable(KV, cs)
<1>1. PICK taken, order, after : Orders(Held(cs), taken, order, after)
  BY DEF HasOrder
<1>2. Listed(cs) /\ IsFiniteSet(DOMAIN cs) /\ InitOf(KV) = [k \in Keys |-> Empty]
  BY RequiredAre DEF Sound, InitOf, KV
<1>3. taken \in SUBSET Held(cs) /\ StrictTotalOrder(order, taken)
  BY <1>1 DEF Orders
<1>4. IsFiniteSet(taken)
  <2>1. PICK g : g = [p \in DOMAIN cs |-> cs[p]]
    OBVIOUS
  <2>2. Held(cs) = {g[p] : p \in DOMAIN cs}
    BY <2>1 DEF Held
  <2>3. g \in Surjection(DOMAIN cs, Held(cs))
    BY <2>1, <2>2 DEF Surjection
  <2>4. IsFiniteSet(Held(cs))
    BY <1>2, <2>3, FS_Surjection
  <2> QED BY <1>3, <2>4, FS_Subset
<1>5. PICK f : Lists(f, order, taken)
  BY <1>3, <1>4, OrderLists
<1>6. PICK n : n = Cardinality(taken)
  OBVIOUS
<1>7. /\ n \in Nat
      /\ \A i \in 1..n : f[i] \in taken
      /\ \A x \in taken : \E i \in 1..n : f[i] = x
      /\ \A i, j \in 1..n : i < j <=> <<f[i], f[j]>> \in order
  BY <1>5, <1>6 DEF Lists
<1>8. PICK o : o = [i \in 1..n |-> CHOOSE p \in DOMAIN cs : cs[p] = f[i]]
  OBVIOUS
<1>9. \A i \in 1..n : o[i] \in DOMAIN cs /\ cs[o[i]] = f[i]
  <2> SUFFICES ASSUME NEW i \in 1..n PROVE o[i] \in DOMAIN cs /\ cs[o[i]] = f[i]
    OBVIOUS
  <2>1. \E p \in DOMAIN cs : cs[p] = f[i]
    BY <1>3, <1>7 DEF Held
  <2> QED BY <1>8, <2>1
<1>10. Listed(o) /\ Len(o) = n /\ DOMAIN o = 1..n
  <2>1. o = [i \in 1..n |-> o[i]]
    BY <1>8
  <2> QED BY <1>7, <2>1, ListedFunction
<1>11. \A p, q \in DOMAIN cs : cs[p] = cs[q] => p = q
  BY DEF Sound
<1>12. ASSUME NEW i \in 1..n, NEW j \in 1..n, o[i] = o[j] PROVE i = j
  <2>1. f[i] = f[j] /\ f[i] \in taken
    BY <1>7, <1>9, <1>12
  <2>2. <<f[i], f[i]>> \notin order
    BY <1>3, <2>1 DEF StrictTotalOrder
  <2>3. ~(i < j) /\ ~(j < i)
    BY <1>7, <2>1, <2>2
  <2> QED BY <1>7, <2>3
<1>13. ASSUME NEW p \in Required(cs) PROVE \E i \in 1..n : o[i] = p
  <2>1. p \in DOMAIN cs /\ cs[p].op.known /\ cs[p] \in Held(cs)
    BY DEF Required, Held
  <2>2. cs[p] \in taken
    BY <1>1, <2>1 DEF Orders
  <2>3. PICK i \in 1..n : f[i] = cs[p]
    BY <1>7, <2>2
  <2> QED BY <1>9, <1>11, <2>1, <2>3
<1>14. o \in OrdersOf(cs) /\ IsInjective(o)
  BY <1>2, <1>9, <1>10, <1>12, <1>13, ListIsOrder
<1>15. KeepsPrecedence(cs, o)
  <2> SUFFICES ASSUME NEW j \in 1..n, NEW p \in DOMAIN cs, Precedes(cs[p], cs[o[j]])
               PROVE  \E i \in 1..(j - 1) : o[i] = p
    BY <1>10, <1>14 DEF KeepsPrecedence
  <2>1. p \in Required(cs) /\ cs[p] \in Held(cs) /\ f[j] \in taken /\ cs[o[j]] = f[j]
    BY <1>7, <1>9 DEF Required, Precedes, Held
  <2>2. PICK i \in 1..n : o[i] = p
    BY <1>13, <2>1
  <2>3. <<f[i], f[j]>> \in order
    BY <1>1, <1>9, <2>1, <2>2 DEF Orders
  <2>4. i < j /\ i \in 1..(j - 1)
    BY <1>7, <2>3
  <2> QED BY <2>2, <2>4
\* The states: each key with the value that its last call left it.
<1>16. PICK r : r = [k \in 0..n |-> [name \in Keys |-> ValueAfter(f, after, k, name)]]
  OBVIOUS
<1>17. /\ \A k \in 0..n : IsMap(r[k])
       /\ \A k \in 0..n, name \in Keys : r[k][name] = ValueAfter(f, after, k, name)
  BY <1>16 DEF IsMap
<1>18. r[0] = InitOf(KV)
  <2>1. \A name : ValueAfter(f, after, 0, name) = Empty
    BY DEF ValueAfter, TouchesOf
  <2>2. r[0] = [name \in Keys |-> ValueAfter(f, after, 0, name)]
    BY <1>7, <1>16
  <2> QED BY <1>2, <2>1, <2>2
<1>19. ASSUME NEW i \in 1..n PROVE r[i] \in Held(StepOf(KV, r[i - 1], cs[o[i]].op))
  <2>1. PICK k, y, name : k = i - 1 /\ y = f[i] /\ name = KeyOf(y)
    OBVIOUS
  <2>2. k \in Nat /\ k + 1 = i /\ k \in 0..n /\ i \in 0..n /\ y \in taken /\ cs[o[i]] = y
    BY <1>7, <1>9, <2>1
  <2>3. name \in Keys /\ y.op.operation \in OperationsOf(KV)
    <3>1. o[i] \in DOMAIN cs
      BY <1>9
    <3> QED BY <2>1, <2>2, <3>1 DEF OnKeys, Sound
  <2>4. DifferAt(r[k], r[i], name)
    <3> SUFFICES ASSUME NEW other \in Keys, other # name PROVE r[i][other] = r[k][other]
      BY DEF DifferAt
    <3>1. ValueAfter(f, after, k + 1, other) = ValueAfter(f, after, k, other)
      <4>1. KeyOf(f[k + 1]) # other
        BY <2>1, <2>2
      <4> QED BY <2>2, <4>1, ValueNext
    <3> QED BY <1>17, <2>2, <3>1
  <2>5. r[i][name] = after[y]
    <3>1. ValueAfter(f, after, k + 1, name) = after[f[k + 1]]
      BY <2>1, <2>2, ValueNext
    <3> QED BY <1>17, <2>1, <2>2, <2>3, <3>1
  <2>6. Alters(y.op, r[k][name], after[y])
    <3>1. PICK S : S = TouchesOf(f, k, name)
      OBVIOUS
    <3>2. S = {h \in 1..k : KeyOf(f[h]) = name} /\ S \in SUBSET (0..k)
      BY <2>2, <3>1 DEF TouchesOf
    <3>3. ASSUME NEW z \in taken, KeyOf(z) = name, <<z, y>> \in order
          PROVE  \E h \in S : f[h] = z
      <4>1. PICK h \in 1..n : f[h] = z
        BY <1>7
      <4>2. h < i
        BY <1>7, <2>1, <3>3, <4>1
      <4>3. h \in 1..k
        BY <2>2, <4>1, <4>2
      <4> QED BY <3>2, <3>3, <4>1, <4>3
    <3>4. CASE S = {}
      <4>1. IsFirstOn(taken, order, y)
        BY <2>1, <3>3, <3>4 DEF IsFirstOn
      <4>2. Alters(y.op, Empty, after[y])
        BY <1>1, <2>2, <4>1 DEF Orders, IsLegal
      <4>3. ValueAfter(f, after, k, name) = Empty
        BY <3>1, <3>4 DEF ValueAfter
      <4> QED BY <1>17, <2>2, <2>3, <4>2, <4>3
    <3>5. CASE S # {}
      <4>1. PICK m : m = Max(S) /\ m \in S /\ \A h \in S : h <= m
        BY <2>2, <3>2, <3>5, GreatestNumber
      <4>2. m \in 1..n /\ m < i /\ KeyOf(f[m]) = name /\ f[m] \in taken
        BY <1>7, <2>2, <3>2, <4>1
      <4>3. <<f[m], y>> \in order
        BY <1>7, <2>1, <4>2
      <4>4. ASSUME NEW z \in taken, KeyOf(z) = name, <<z, y>> \in order
            PROVE  z = f[m] \/ <<z, f[m]>> \in order
        <5>1. PICK h \in S : f[h] = z
          BY <3>3, <4>4
        <5>2. h \in 1..n /\ h <= m
          <6>1. h \in 1..k /\ h <= m
            BY <3>2, <4>1, <5>1
          <6> QED BY <1>7, <2>2, <6>1
        <5>3. h = m \/ h < m
          BY <4>2, <5>2
        <5> QED BY <1>7, <4>2, <5>1, <5>2, <5>3
      <4>5. IsLastBefore(taken, order, f[m], y)
        BY <2>1, <4>2, <4>3, <4>4 DEF IsLastBefore
      <4>6. Alters(y.op, after[f[m]], after[y])
        BY <1>1, <2>2, <4>2, <4>5 DEF Orders, IsLegal
      <4>7. ValueAfter(f, after, k, name) = after[f[m]]
        BY <3>1, <3>5, <4>1 DEF ValueAfter
      <4> QED BY <1>17, <2>2, <2>3, <4>6, <4>7
    <3> QED BY <3>4, <3>5
  <2>7. IsMap(r[k]) /\ IsMap(r[i]) /\ name = y.op.args[1]
    BY <1>17, <2>1, <2>2 DEF KeyOf
  <2>8. r[i] \in Held(StepOf(KV, r[k], y.op))
    BY <2>3, <2>4, <2>5, <2>6, <2>7, KeyStep
  <2> QED BY <2>1, <2>2, <2>8
<1>20. Reached(KV, cs, o) # {}
  BY <1>7, <1>10, <1>18, <1>19, RunIsReached
<1> QED BY <1>14, <1>15, <1>20 DEF IsLinearizable
---------------------------------------------------------------------------
(* Locality: groups of calls that touch keys of their own.                 *)

\* Calls with indexes up to n, each its own, and a completion after it.
Timed(set, n) ==
    /\ n \in Nat
    /\ \A x \in set : x.index \in 0..n
    /\ \A x, y \in set : x.index = y.index => x = y
    /\ \A x \in set : x.op.known =>
           x.completion \in Nat /\ x.index < x.completion /\ \A y \in set : x.completion # y.index

\* No two groups touch one key.
ByKeys(set, group) == \A x, y \in set : KeyOf(x) = KeyOf(y) => group[x] = group[y]

Within(set, group, g) == {x \in set : group[x] = g}

\* An order of all calls is one of each group.
LEMMA GroupHasOrder ==
    ASSUME NEW set, NEW group, ByKeys(set, group), HasOrder(set), NEW g
    PROVE  HasOrder(Within(set, group, g))
<1>1. PICK taken, order, after : Orders(set, taken, order, after)
  BY DEF HasOrder
<1>2. PICK some, here : some = Within(set, group, g) /\ here = taken \cap some
  OBVIOUS
<1>3. /\ taken \in SUBSET set /\ here \subseteq taken /\ here \in SUBSET some
      /\ \A x : x \in some <=> x \in set /\ group[x] = g
      /\ \A x : x \in here <=> x \in taken /\ group[x] = g
  BY <1>1, <1>2 DEF Orders, Within
<1>4. \A x \in some : x.op.known => x \in here
  BY <1>1, <1>3 DEF Orders
<1>5. StrictTotalOrder(order, here)
  BY <1>1, <1>3 DEF Orders, StrictTotalOrder
<1>6. \A x \in some, y \in here : Precedes(x, y) => <<x, y>> \in order
  BY <1>1, <1>3 DEF Orders
<1>7. \A x \in taken, y \in here : KeyOf(x) = KeyOf(y) => x \in here
  BY <1>3 DEF ByKeys
<1>8. IsLegal(here, order, after)
  <2> SUFFICES ASSUME NEW y \in here
               PROVE  /\ IsFirstOn(here, order, y) => Alters(y.op, Empty, after[y])
                      /\ \A x \in here : IsLastBefore(here, order, x, y) => Alters(y.op, after[x], after[y])
    BY DEF IsLegal
  <2>1. y \in taken
    BY <1>3
  <2>2. IsFirstOn(here, order, y) => IsFirstOn(taken, order, y)
    BY <1>7 DEF IsFirstOn
  <2>3. \A x \in here : IsLastBefore(here, order, x, y) => IsLastBefore(taken, order, x, y)
    BY <1>3, <1>7 DEF IsLastBefore
  <2> QED BY <1>1, <1>3, <2>1, <2>2, <2>3 DEF Orders, IsLegal
<1>9. Orders(some, here, order, after)
  BY <1>3, <1>4, <1>5, <1>6, <1>8 DEF Orders
<1> QED BY <1>2, <1>9 DEF HasOrder

\* Orders of the groups are merged at the points where their calls take
\* effect: the latest invocation of a call and of those before it.
LEMMA AllHasOrder ==
    ASSUME NEW set, NEW n, Timed(set, n), NEW group, ByKeys(set, group),
           \A x \in set : HasOrder(Within(set, group, group[x]))
    PROVE  HasOrder(set)
<1>1. PICK gs, chosen : /\ gs = {group[x] : x \in set}
                        /\ chosen = [g \in gs |-> CHOOSE w : Orders(Within(set, group, g), w[1], w[2], w[3])]
  OBVIOUS
<1>2. ASSUME NEW x \in set
      PROVE  LET w == chosen[group[x]]
             IN group[x] \in gs /\ Orders(Within(set, group, group[x]), w[1], w[2], w[3])
  <2>1. PICK g : g = group[x] /\ g \in gs
    BY <1>1
  <2>2. PICK taken, order, after : Orders(Within(set, group, g), taken, order, after)
    BY <2>1 DEF HasOrder
  <2>3. PICK v : v = <<taken, order, after>>
    OBVIOUS
  <2>4. v[1] = taken /\ v[2] = order /\ v[3] = after
    BY <2>3
  <2>5. \E w : Orders(Within(set, group, g), w[1], w[2], w[3])
    BY <2>2, <2>4
  <2>6. chosen[g] = CHOOSE w : Orders(Within(set, group, g), w[1], w[2], w[3])
    BY <1>1, <2>1
  <2>7. Orders(Within(set, group, g), chosen[g][1], chosen[g][2], chosen[g][3])
    BY <2>5, <2>6
  <2> QED BY <2>1, <2>7
\* What is taken in its group, and before which others.
<1> DEFINE Took(x) == x \in chosen[group[x]][1]
           Before(x, y) == <<x, y>> \in chosen[group[x]][2]
<1>3. PICK taken : taken = {x \in set : Took(x)}
  OBVIOUS
<1>4. PICK after : after = [x \in taken |-> chosen[group[x]][3][x]]
  OBVIOUS
<1>5. ASSUME NEW x \in set, x.op.known PROVE x \in taken
  <2>1. x \in Within(set, group, group[x])
    BY DEF Within
  <2>2. x \in chosen[group[x]][1]
    BY <1>2, <1>5, <2>1 DEF Orders
  <2> QED BY <1>3, <2>2
<1>6. /\ taken \in SUBSET set
      /\ \A x \in taken : x \in chosen[group[x]][1]
      /\ \A x \in set : \A y : y \in chosen[group[x]][1] => y \in taken /\ group[y] = group[x]
  <2>1. ASSUME NEW x \in set, NEW y \in chosen[group[x]][1] PROVE y \in taken /\ group[y] = group[x]
    <3>1. y \in Within(set, group, group[x])
      BY <1>2 DEF Orders
    <3>2. y \in set /\ group[y] = group[x]
      BY <3>1 DEF Within
    <3> QED BY <1>3, <2>1, <3>2
  <2> QED BY <1>3, <2>1
<1> DEFINE Together(x, y) == x \in taken /\ y \in taken /\ group[x] = group[y]
<1>7. /\ \A x \in taken : ~Before(x, x)
      /\ \A x, y, z : Together(x, y) /\ Together(y, z) /\ Before(x, y) /\ Before(y, z) => Before(x, z)
      /\ \A x, y : Together(x, y) /\ x # y => Before(x, y) \/ Before(y, x)
  <2> SUFFICES ASSUME NEW x \in taken
               PROVE  /\ ~Before(x, x)
                      /\ \A y, z : Together(x, y) /\ Together(y, z) /\ Before(x, y) /\ Before(y, z) => Before(x, z)
                      /\ \A y : Together(x, y) /\ x # y => Before(x, y) \/ Before(y, x)
    OBVIOUS
  <2>1. PICK g, T, R : g = group[x] /\ T = chosen[g][1] /\ R = chosen[g][2]
    OBVIOUS
  <2>2. StrictTotalOrder(R, T)
    BY <1>2, <1>6, <2>1 DEF Orders
  <2>3. \A y : Together(x, y) => y \in T /\ group[y] = g
    BY <1>6, <2>1
  <2> QED BY <1>6, <2>1, <2>2, <2>3 DEF StrictTotalOrder
\* The points.
<1> DEFINE Until(x) == {y.index : y \in {z \in taken : group[z] = group[x] /\ (z = x \/ Before(z, x))}}
<1>8. PICK point : point = [x \in taken |-> Max(Until(x))]
  OBVIOUS
<1>9. ASSUME NEW x \in taken
      PROVE  /\ point[x] \in Nat
             /\ x.index <= point[x]
             /\ \A y \in taken : group[y] = group[x] /\ Before(y, x) => y.index <= point[x]
             /\ \E y \in taken : /\ group[y] = group[x] /\ (y = x \/ Before(y, x))
                                 /\ y.index = point[x]
  <2>1. PICK S : S = Until(x)
    OBVIOUS
  <2>2. S \in SUBSET (0..n) /\ S # {} /\ n \in Nat
    <3>1. n \in Nat /\ \A y \in taken : y.index \in 0..n
      BY <1>6 DEF Timed
    <3>2. x.index \in S
      BY <2>1
    <3>3. \A z \in S : z \in 0..n
      BY <2>1, <3>1
    <3> QED BY <3>1, <3>2, <3>3
  <2>3. Max(S) \in S /\ \A z \in S : z <= Max(S)
    BY <2>2, GreatestNumber
  <2>4. point[x] = Max(S)
    BY <1>8, <2>1
  <2>5. x.index \in S /\ \A y \in taken : group[y] = group[x] /\ Before(y, x) => y.index \in S
    BY <2>1
  <2>6. \E y \in taken : group[y] = group[x] /\ (y = x \/ Before(y, x)) /\ y.index = Max(S)
    BY <2>1, <2>3
  <2>7. Max(S) \in Nat
    <3>1. Max(S) \in 0..n
      BY <2>2, <2>3
    <3> QED BY <2>2, <3>1
  <2>8. x.index <= Max(S) /\ \A y \in taken : group[y] = group[x] /\ Before(y, x) => y.index <= Max(S)
    BY <2>3, <2>5
  <2> QED BY <2>4, <2>6, <2>7, <2>8
<1> HIDE DEF Until
<1>10. \A x, y \in taken : point[x] = point[y] => group[x] = group[y]
  <2> SUFFICES ASSUME NEW x \in taken, NEW y \in taken, point[x] = point[y] PROVE group[x] = group[y]
    OBVIOUS
  <2>1. PICK u \in taken : group[u] = group[x] /\ u.index = point[x]
    BY <1>9
  <2>2. PICK v \in taken : group[v] = group[y] /\ v.index = point[y]
    BY <1>9
  <2>3. u = v
    BY <1>6, <2>1, <2>2 DEF Timed
  <2> QED BY <2>1, <2>2, <2>3
<1>11. \A x, y : Together(x, y) /\ Before(x, y) => point[x] <= point[y]
  <2> SUFFICES ASSUME NEW x, NEW y, Together(x, y), Before(x, y) PROVE point[x] <= point[y]
    OBVIOUS
  <2>1. PICK u \in taken : group[u] = group[x] /\ (u = x \/ Before(u, x)) /\ u.index = point[x]
    BY <1>9
  <2>2. Before(u, y) /\ group[u] = group[y]
    BY <1>7, <2>1
  <2> QED BY <1>9, <2>1, <2>2
\* A known call takes effect before its completion.
<1>12. ASSUME NEW x \in taken, x.op.known
       PROVE  point[x] < x.completion
  <2>1. PICK u \in taken : group[u] = group[x] /\ (u = x \/ Before(u, x)) /\ u.index = point[x]
    BY <1>9
  <2>2. x.completion \in Nat /\ x.index < x.completion /\ x.completion # u.index /\ u.index \in Nat
    BY <1>6, <1>12 DEF Timed
  <2>3. CASE u = x
    BY <2>1, <2>2, <2>3
  <2>4. CASE Before(u, x)
    <3> SUFFICES ASSUME x.completion < u.index PROVE FALSE
      BY <2>1, <2>2
    <3>1. Precedes(x, u)
      BY <1>12 DEF Precedes
    <3>2. x \in Within(set, group, group[x]) /\ u \in chosen[group[x]][1]
      BY <1>6, <2>1 DEF Within
    <3>3. Before(x, u)
      BY <1>2, <1>6, <3>1, <3>2 DEF Orders
    <3>4. Before(x, x)
      BY <1>7, <2>1, <2>4, <3>3
    <3> QED BY <1>7, <3>4
  <2> QED BY <2>1, <2>3, <2>4
<1>13. PICK order : order = {e \in taken \X taken : \/ point[e[1]] < point[e[2]]
                                                    \/ point[e[1]] = point[e[2]] /\ Before(e[1], e[2])}
  OBVIOUS
<1> DEFINE Less(x, y) == point[x] < point[y] \/ (point[x] = point[y] /\ Before(x, y))
<1>14. \A x, y \in taken : <<x, y>> \in order <=> Less(x, y)
  BY <1>13
<1> HIDE DEF Before
<1>15. StrictTotalOrder(order, taken)
  <2>1. \A x \in taken : point[x] \in Nat
    BY <1>9
  <2>2. \A x \in taken : ~Less(x, x)
    BY <1>7, <2>1
  <2>3. \A x, y, z \in taken : Less(x, y) /\ Less(y, z) => Less(x, z)
    <3> SUFFICES ASSUME NEW x \in taken, NEW y \in taken, NEW z \in taken, Less(x, y), Less(y, z)
                 PROVE  Less(x, z)
      OBVIOUS
    <3>1. CASE point[x] = point[y] /\ point[y] = point[z]
      <4>1. Together(x, y) /\ Together(y, z) /\ Before(x, y) /\ Before(y, z)
        BY <1>10, <2>1, <3>1
      <4> QED BY <1>7, <3>1, <4>1
    <3>2. CASE point[x] < point[y] \/ point[y] < point[z]
      BY <2>1, <3>2
    <3> QED BY <3>1, <3>2
  <2>4. \A x, y \in taken : x # y => Less(x, y) \/ Less(y, x)
    <3> SUFFICES ASSUME NEW x \in taken, NEW y \in taken, x # y PROVE Less(x, y) \/ Less(y, x)
      OBVIOUS
    <3>1. CASE point[x] = point[y]
      <4>1. Together(x, y)
        BY <1>10, <3>1
      <4> QED BY <1>7, <3>1, <4>1
    <3>2. CASE point[x] # point[y]
      BY <2>1, <3>2
    <3> QED BY <3>1, <3>2
  <2> HIDE DEF Less
  <2> QED BY <1>14, <2>2, <2>3, <2>4 DEF StrictTotalOrder
\* In a group the order is the group's.
<1>16. \A x, y : Together(x, y) => (Less(x, y) <=> Before(x, y))
  <2> SUFFICES ASSUME NEW x, NEW y, Together(x, y) PROVE Less(x, y) <=> Before(x, y)
    OBVIOUS
  <2>1. point[x] \in Nat /\ point[y] \in Nat
    BY <1>9
  <2>2. CASE Before(x, y)
    <3>1. point[x] <= point[y]
      BY <1>11, <2>2
    <3> QED BY <2>1, <2>2, <3>1
  <2>3. CASE ~Before(x, y) /\ x # y
    <3>1. Before(y, x) /\ Together(y, x)
      BY <1>7, <2>3
    <3>2. point[y] <= point[x]
      BY <1>11, <3>1
    <3> QED BY <2>1, <2>3, <3>2
  <2>4. CASE x = y
    BY <1>7, <2>1, <2>4
  <2> QED BY <2>2, <2>3, <2>4
<1>17. ASSUME NEW x \in set, NEW y \in taken, Precedes(x, y) PROVE <<x, y>> \in order
  <2>1. x \in taken /\ x.op.known /\ x.completion < y.index
    BY <1>5, <1>17 DEF Precedes
  <2>2. point[x] < x.completion /\ y.index <= point[y] /\ point[x] \in Nat /\ point[y] \in Nat
    BY <1>9, <1>12, <2>1
  <2>3. x.completion \in Nat /\ y.index \in Nat
    BY <1>6, <2>1 DEF Timed
  <2>4. point[x] < point[y]
    BY <2>1, <2>2, <2>3
  <2> QED BY <1>14, <2>1, <2>4
<1>18. ASSUME NEW y \in taken
       PROVE  /\ IsFirstOn(taken, order, y) => Alters(y.op, Empty, after[y])
              /\ \A x \in taken : IsLastBefore(taken, order, x, y) => Alters(y.op, after[x], after[y])
  <2>1. PICK g, T, R, A : g = group[y] /\ T = chosen[g][1] /\ R = chosen[g][2] /\ A = chosen[g][3]
    OBVIOUS
  <2>2. IsLegal(T, R, A) /\ y \in T
    BY <1>2, <1>6, <2>1 DEF Orders
  <2>3. \A x \in T : x \in taken /\ group[x] = g /\ after[x] = A[x]
    BY <1>4, <1>6, <2>1
  <2>4. \A x \in taken : KeyOf(x) = KeyOf(y) => x \in T
    BY <1>6, <2>1 DEF ByKeys
  <2>5. \A x, z \in T : <<x, z>> \in order <=> <<x, z>> \in R
    <3> SUFFICES ASSUME NEW x \in T, NEW z \in T PROVE <<x, z>> \in order <=> <<x, z>> \in R
      OBVIOUS
    <3>1. Together(x, z) /\ (Before(x, z) <=> <<x, z>> \in R)
      BY <2>1, <2>3 DEF Before
    <3>2. Less(x, z) <=> Before(x, z)
      BY <1>16, <3>1
    <3>3. <<x, z>> \in order <=> Less(x, z)
      BY <1>14, <2>3
    <3> QED BY <3>1, <3>2, <3>3
  <2>6. IsFirstOn(taken, order, y) => IsFirstOn(T, R, y)
    BY <2>2, <2>3, <2>5 DEF IsFirstOn
  <2>7. \A x \in taken : IsLastBefore(taken, order, x, y) => x \in T /\ IsLastBefore(T, R, x, y)
    <3> SUFFICES ASSUME NEW x \in taken, IsLastBefore(taken, order, x, y)
                 PROVE  x \in T /\ IsLastBefore(T, R, x, y)
      OBVIOUS
    <3>1. x \in T
      BY <2>4 DEF IsLastBefore
    <3>2. <<x, y>> \in R
      BY <2>2, <2>5, <3>1 DEF IsLastBefore
    <3>3. ASSUME NEW z \in T, KeyOf(z) = KeyOf(y), <<z, y>> \in R PROVE z = x \/ <<z, x>> \in R
      <4>1. z \in taken /\ <<z, y>> \in order
        BY <2>2, <2>3, <2>5, <3>3
      <4>2. z = x \/ <<z, x>> \in order
        BY <3>3, <4>1 DEF IsLastBefore
      <4> QED BY <2>5, <3>1, <4>2
    <3> QED BY <3>1, <3>2, <3>3 DEF IsLastBefore
  <2>8. /\ IsFirstOn(T, R, y) => Alters(y.op, Empty, A[y])
        /\ \A x \in T : IsLastBefore(T, R, x, y) => Alters(y.op, A[x], A[y])
    BY <2>2 DEF IsLegal
  <2> QED BY <2>2, <2>3, <2>6, <2>7, <2>8
<1>19. Orders(set, taken, order, after)
  BY <1>5, <1>6, <1>15, <1>17, <1>18 DEF Orders, IsLegal
<1> QED BY <1>19 DEF HasOrder

\* Each call touches a key of the model that it declares.
DeclaresItsKey(cs) == \A p \in DOMAIN cs : KeyOf(cs[p]) \in Keys \cap Held(cs[p].keys)

\* The calls at a set of positions.
LEMMA HeldCallsAt ==
    ASSUME NEW cs, Listed(cs), NEW group \in SUBSET DOMAIN cs
    PROVE  Held(CallsAt(cs, group)) = {cs[p] : p \in group}
<1>1. PICK members, chosen : /\ members = Ascending(group, <)
                             /\ chosen = CallsAt(cs, group)
  OBVIOUS
<1>2. group \in SUBSET Int /\ IsFiniteSet(group)
  <2>1. IsFiniteSet(DOMAIN cs) /\ DOMAIN cs \subseteq Int
    BY RequiredAre, ListedFacts
  <2> QED BY <2>1, FS_Subset
<1>3. PICK n : n = Cardinality(group)
  OBVIOUS
<1>4. /\ DOMAIN members = 1..n
      /\ \A k \in 1..n : members[k] \in group
      /\ \A x \in group : \E k \in 1..n : members[k] = x
  BY <1>1, <1>2, <1>3, AscendingNumbers
<1>5. DOMAIN chosen = 1..n /\ \A k \in 1..n : chosen[k] = cs[members[k]]
  BY <1>1, <1>4 DEF CallsAt
<1>6. Held(chosen) = {chosen[k] : k \in 1..n}
  BY <1>5 DEF Held
<1>7. \A x \in Held(chosen) : \E p \in group : x = cs[p]
  BY <1>4, <1>5, <1>6
<1>8. \A p \in group : cs[p] \in Held(chosen)
  BY <1>4, <1>5, <1>6
<1> QED BY <1>1, <1>7, <1>8

\* Sound calls have points in time.
LEMMA SoundIsTimed ==
    ASSUME NEW cs, Sound(KV, cs), NEW n \in Nat, \A p \in DOMAIN cs : cs[p].index <= n
    PROVE  Timed(Held(cs), n)
<1>1. \A x \in Held(cs) : \E p \in DOMAIN cs : cs[p] = x
  BY DEF Held
<1>2. \A x \in Held(cs) : x.index \in 0..n
  BY <1>1 DEF Sound
<1>3. \A x, y \in Held(cs) : x.index = y.index => x = y
  BY <1>1 DEF Sound
<1>4. ASSUME NEW x \in Held(cs), x.op.known
      PROVE  x.completion \in Nat /\ x.index < x.completion /\ \A y \in Held(cs) : x.completion # y.index
  <2>1. PICK p \in DOMAIN cs : cs[p] = x
    BY <1>1
  <2>2. p \in Required(cs)
    BY <1>4, <2>1 DEF Required
  <2> QED BY <1>1, <2>1, <2>2 DEF Sound
<1> QED BY <1>2, <1>3, <1>4 DEF Timed

\* The calls of part i are the calls of group roots[i], and no two groups
\* touch one key.
PartsTouchOwnKeys(cs, ps, group, roots) ==
    /\ ByKeys(Held(cs), group)
    /\ \A i \in 1..Len(ps) : Held(ps[i].calls) = Within(Held(cs), group, roots[i])
    /\ \A x \in Held(cs) : \E i \in 1..Len(ps) : group[x] = roots[i]

LEMMA PartsAreByKeys ==
    ASSUME NEW cs, Sound(KV, cs), Keyed(cs), cs # <<>>, ~TouchesEveryKey(cs), DeclaresItsKey(cs)
    PROVE  \E group, roots : PartsTouchOwnKeys(cs, Partitions(cs), group, roots)
<1>1. PICK root : RepresentedBy(cs, root)
  BY Representatives
<1>2. PICK ps : ps = Partitions(cs)
  OBVIOUS
<1>3. PICK firsts, n : Groups(cs, root, ps, firsts, n)
  BY <1>1, <1>2, PartsAreGroups
<1>4. Len(ps) = n
  BY <1>3 DEF Groups
<1>5. PICK set, group : set = Held(cs) /\ group = [x \in set |-> root[CHOOSE p \in DOMAIN cs : cs[p] = x]]
  OBVIOUS
<1>6. \A p, q \in DOMAIN cs : cs[p] = cs[q] => p = q
  BY DEF Sound
<1>7. \A x \in set : \E p \in DOMAIN cs : cs[p] = x
  BY <1>5 DEF Held
<1>8. ASSUME NEW p \in DOMAIN cs PROVE cs[p] \in set /\ group[cs[p]] = root[p]
  <2>1. cs[p] \in set
    BY <1>5 DEF Held
  <2>2. (CHOOSE q \in DOMAIN cs : cs[q] = cs[p]) = p
    BY <1>6
  <2> QED BY <1>5, <2>1, <2>2
<1>9. PICK roots : roots = [i \in 1..n |-> root[firsts[i]]]
  OBVIOUS
<1>10. ByKeys(set, group)
  <2> SUFFICES ASSUME NEW x \in set, NEW y \in set, KeyOf(x) = KeyOf(y) PROVE group[x] = group[y]
    BY DEF ByKeys
  <2>1. PICK p \in DOMAIN cs : cs[p] = x
    BY <1>7
  <2>2. PICK q \in DOMAIN cs : cs[q] = y
    BY <1>7
  <2>3. KeyOf(x) \in Held(cs[p].keys) /\ KeyOf(x) \in Held(cs[q].keys)
    BY <2>1, <2>2 DEF DeclaresItsKey
  <2>4. root[p] = root[q]
    BY <1>1, <2>3 DEF Shares, RepresentedBy
  <2> QED BY <1>8, <2>1, <2>2, <2>4
<1>11. ASSUME NEW i \in 1..n PROVE Held(ps[i].calls) = Within(set, group, roots[i])
  <2>1. PICK f, G : f = firsts[i] /\ G = GroupOf(cs, root, f)
    OBVIOUS
  <2>2. ps[i].calls = CallsAt(cs, G) /\ G \in SUBSET DOMAIN cs /\ roots[i] = root[f]
    BY <1>3, <1>9, <2>1 DEF Groups, GroupOf
  <2>3. Held(ps[i].calls) = {cs[p] : p \in G}
    BY <2>2, HeldCallsAt DEF Keyed
  <2>4. \A p \in DOMAIN cs : p \in G <=> root[p] = root[f]
    BY <2>1 DEF GroupOf
  <2>5. \A x \in Within(set, group, roots[i]) : x \in Held(ps[i].calls)
    BY <1>7, <1>8, <2>2, <2>3, <2>4 DEF Within
  <2>6. \A x \in Held(ps[i].calls) : x \in Within(set, group, roots[i])
    BY <1>8, <2>2, <2>3, <2>4 DEF Within
  <2> QED BY <2>5, <2>6
<1>12. ASSUME NEW x \in set PROVE \E i \in 1..n : group[x] = roots[i]
  <2>1. PICK p \in DOMAIN cs : cs[p] = x
    BY <1>7
  <2>2. PICK f : f = Min(GroupOf(cs, root, p))
    OBVIOUS
  <2>3. f \in Firsts(cs, root) /\ root[f] = root[p]
    BY <2>2, FirstOfGroup
  <2>4. PICK i \in 1..n : firsts[i] = f
    BY <1>3, <2>3 DEF Groups
  <2> QED BY <1>8, <1>9, <2>1, <2>3, <2>4
<1>13. PartsTouchOwnKeys(cs, ps, group, roots)
  BY <1>4, <1>5, <1>10, <1>11, <1>12 DEF PartsTouchOwnKeys
<1> QED BY <1>2, <1>13

\* Locality: calls that declare their keys are linearizable exactly when
\* those of each part are.
LEMMA PartsDecide ==
    ASSUME NEW cs, Sound(KV, cs), Keyed(cs), ~TouchesEveryKey(cs), DeclaresItsKey(cs),
           NEW n \in Nat, \A p \in DOMAIN cs : cs[p].index <= n,
           NEW ps, ps = Partitions(cs), \A i \in 1..Len(ps) : Sound(KV, ps[i].calls)
    PROVE  IsLinearizable(KV, cs) <=> \A i \in 1..Len(ps) : IsLinearizable(KV, ps[i].calls)
<1>1. CASE cs = <<>>
  <2>1. Len(ps) = 0
    BY <1>1, OneState DEF Partitions
  <2> QED BY <1>1, <2>1, NoCallsFit
<1>2. CASE cs # <<>>
  <2>1. PICK group, roots : PartsTouchOwnKeys(cs, ps, group, roots)
    BY <1>2, PartsAreByKeys
  <2>2. OnKeys(cs)
    BY DEF DeclaresItsKey, OnKeys
  <2>3. PICK set : set = Held(cs) /\ ByKeys(set, group)
    BY <2>1 DEF PartsTouchOwnKeys
  <2>4. ASSUME NEW i \in 1..Len(ps)
        PROVE  OnKeys(ps[i].calls) /\ Held(ps[i].calls) = Within(set, group, roots[i])
    <3>1. Held(ps[i].calls) = Within(set, group, roots[i])
      BY <2>1, <2>3 DEF PartsTouchOwnKeys
    <3>2. \A x \in Held(ps[i].calls) : KeyOf(x) \in Keys
      BY <2>2, <2>3, <3>1 DEF Within, OnKeys, Held
    <3>3. OnKeys(ps[i].calls)
      BY <3>2 DEF OnKeys, Held
    <3> QED BY <3>1, <3>3
  <2>5. ASSUME IsLinearizable(KV, cs), NEW i \in 1..Len(ps) PROVE IsLinearizable(KV, ps[i].calls)
    <3>1. HasOrder(set)
      BY <2>2, <2>3, <2>5, LinearizableHasOrder
    <3>2. HasOrder(Within(set, group, roots[i]))
      BY <2>3, <3>1, GroupHasOrder
    <3> QED BY <2>4, <3>2, OrderLinearizes
  <2>6. ASSUME \A i \in 1..Len(ps) : IsLinearizable(KV, ps[i].calls) PROVE IsLinearizable(KV, cs)
    <3>1. ASSUME NEW x \in set PROVE HasOrder(Within(set, group, group[x]))
      <4>1. PICK i \in 1..Len(ps) : group[x] = roots[i]
        BY <2>1, <2>3 DEF PartsTouchOwnKeys
      <4>2. HasOrder(Held(ps[i].calls))
        BY <2>4, <2>6, LinearizableHasOrder
      <4> QED BY <2>4, <4>1, <4>2
    <3>2. Timed(set, n)
      BY <2>3, SoundIsTimed
    <3>3. HasOrder(set)
      BY <2>3, <3>1, <3>2, AllHasOrder
    <3> QED BY <2>2, <2>3, <3>3, OrderLinearizes
  <2> QED BY <2>5, <2>6
<1> QED BY <1>1, <1>2

---------------------------------------------------------------------------
(* The verdict.                                                            *)

\* The calls of a key-value history that each declare the key they touch.
KeysAreDeclared == model = KV /\ DeclaresItsKey(Calls(log))

\* The verdict is right for the whole history: when all calls are searched as
\* one part, whatever the model, and when the partitions of a key-value
\* history, whose calls declare the keys they touch, are searched one by one.
THEOREM HistoryVerdictIsRight == CheckSpec => [](InOnePart \/ KeysAreDeclared => VerdictIsRight)
<1>1. CheckInit => VerdictInv /\ PartsAreOfLog
  BY InitVerdictInv DEF CheckInit, PartsAreOfLog
<1>2. VerdictInv /\ PartsAreOfLog /\ [CheckNext]_<<svars, cvars>> => (VerdictInv /\ PartsAreOfLog)'
  BY NextVerdictInv, NextPartsAreOfLog
<1>3. ASSUME VerdictInv, PartsAreOfLog, ~InOnePart, KeysAreDeclared PROVE VerdictIsRight
  <2>1. LinInv /\ PartIsNext /\ VerdictIsEarned
    BY <1>3 DEF VerdictInv
  <2>2. Effective(log) = Calls(log)
    BY <2>1, EffectiveAreCalls DEF LinInv, LogIsSound
  <2>3. PICK cs, n : cs = Calls(log) /\ n = Len(log)
    OBVIOUS
  <2>4. /\ model = KV /\ Sound(KV, cs) /\ Keyed(cs) /\ ~TouchesEveryKey(cs) /\ DeclaresItsKey(cs)
        /\ n \in Nat /\ \A p \in DOMAIN cs : cs[p].index <= n
    BY <1>3, <2>1, <2>3, CallsOfLog, CallsAreKeyed, ListedFacts
       DEF KeysAreDeclared, InOnePart, LinInv, LogIsSound
  <2>5. verdict # "none" => parts = Partitions(cs)
    <3>1. verdict # "none" => stage = "checked"
      BY <2>1 DEF PartIsNext
    <3> QED BY <1>3, <2>3, <3>1 DEF PartsAreOfLog, PartsOf, InOnePart
  <2>6. \A i \in 1..Len(parts) : Sound(KV, parts[i].calls)
    BY <2>1, <2>4 DEF LinInv, PartsAreSound
  <2>7. verdict # "none" => (IsLinearizable(KV, cs) <=> \A i \in 1..Len(parts) : Fits(i))
    BY <2>4, <2>5, <2>6, PartsDecide DEF Fits
  <2>8. verdict = "passed" => IsLinearizable(model, cs)
    BY <2>1, <2>4, <2>7 DEF VerdictIsEarned
  <2>9. verdict = "violated" => ~IsLinearizable(model, cs) /\ ~IsLinearizable(model, parts[at].calls)
    BY <2>1, <2>4, <2>7 DEF VerdictIsEarned, Fits
  <2>10. undecided # NoPart => \A i \in 1..(undecided - 1) : IsLinearizable(model, parts[i].calls)
    BY <2>1 DEF VerdictIsEarned, Fits
  <2> QED BY <2>2, <2>3, <2>8, <2>9, <2>10 DEF VerdictIsRight
<1>4. CheckSpec => []VerdictInv /\ []PartsAreOfLog
  BY <1>1, <1>2, PTL DEF CheckSpec
<1>5. CheckSpec => [](InOnePart => VerdictIsRight)
  BY WholeVerdictIsRight
<1>6. VerdictInv /\ PartsAreOfLog /\ ~InOnePart /\ KeysAreDeclared => VerdictIsRight
  BY <1>3
<1> QED BY <1>4, <1>5, <1>6, PTL
===========================================================================

-------------------------- MODULE IsolationProofs --------------------------
(***************************************************************************)
(* Proofs about the isolation checker.  A graph has the numbers of its     *)
(* transactions as nodes.  Nodes are knit when no part of them is without  *)
(* an edge to the others: the turns of Tarjan's algorithm end with all the *)
(* knit sets in a component.  A search from an edge finds a way back, or a *)
(* set that has no edge to where the edge starts.  A walk is cut to a      *)
(* cycle, which weaves as the walk does.  From these follow the two        *)
(* theorems: what the searches find is a cycle of its kind, and they find  *)
(* one whenever there is one that a level forbids.                         *)
(***************************************************************************)
EXTENDS Isolation, OrderingProofs
---------------------------------------------------------------------------
(* Graphs.                                                                 *)

\* A finite graph of transactions: its edges are between two of them.
IsGraph(C, E) ==
    /\ IsFiniteSet(C) /\ C \subseteq Nat /\ IsFiniteSet(E)
    /\ \A e \in E : /\ e = [from |-> e.from, to |-> e.to, relation |-> e.relation]
                    /\ e.from \in C /\ e.to \in C /\ e.from # e.to
                    /\ e.relation \in Relations

\* The targets of a transaction are those of its edges.
LEMMA TargetsAre ==
    ASSUME NEW C, NEW E, IsGraph(C, E), NEW a, NEW R
    PROVE  /\ TargetsOf(E, a, R) \subseteq C /\ IsFiniteSet(TargetsOf(E, a, R))
           /\ \A b : b \in TargetsOf(E, a, R) <=> Has(E, a, b, R)
           /\ \A b : Has(E, a, b, R) => a \in C /\ b \in C /\ a # b
<1>1. \A b : b \in TargetsOf(E, a, R) <=> Has(E, a, b, R)
  <2>1. ASSUME NEW b \in TargetsOf(E, a, R) PROVE Has(E, a, b, R)
    <3>1. PICK e \in E : e.from = a /\ e.relation \in R /\ e.to = b
      BY DEF TargetsOf
    <3>2. e = [from |-> a, to |-> b, relation |-> e.relation]
      BY <3>1 DEF IsGraph
    <3> QED BY <3>1, <3>2 DEF Has
  <2>2. ASSUME NEW b, Has(E, a, b, R) PROVE b \in TargetsOf(E, a, R)
    <3>1. PICK r \in R : [from |-> a, to |-> b, relation |-> r] \in E
      BY <2>2 DEF Has
    <3>2. PICK e \in E : e = [from |-> a, to |-> b, relation |-> r]
      BY <3>1
    <3>3. e.from = a /\ e.to = b /\ e.relation = r
      BY <3>2
    <3> QED BY <3>1, <3>3 DEF TargetsOf
  <2> QED BY <2>1, <2>2
<1>2. \A b : Has(E, a, b, R) => a \in C /\ b \in C /\ a # b
  <2> SUFFICES ASSUME NEW b, Has(E, a, b, R) PROVE a \in C /\ b \in C /\ a # b
    OBVIOUS
  <2>1. PICK r \in R : [from |-> a, to |-> b, relation |-> r] \in E
    BY DEF Has
  <2>2. PICK e \in E : e = [from |-> a, to |-> b, relation |-> r]
    BY <2>1
  <2>3. e.from = a /\ e.to = b
    BY <2>2
  <2> QED BY <2>3 DEF IsGraph
<1>3. TargetsOf(E, a, R) \subseteq C
  BY <1>1, <1>2
<1> QED BY <1>1, <1>2, <1>3, FS_Subset DEF IsGraph

AtRank(S, i) == CHOOSE x \in S : Cardinality({y \in S : y < x}) = i - 1

\* They are listed once each, in order.
LEMMA AdjacentLists ==
    ASSUME NEW C, NEW E, IsGraph(C, E), NEW a, NEW R
    PROVE  /\ Listed(Adjacent(E, a, R)) /\ IsInjective(Adjacent(E, a, R))
           /\ Held(Adjacent(E, a, R)) = TargetsOf(E, a, R)
<1>1. PICK S : S = TargetsOf(E, a, R)
  OBVIOUS
<1>2. IsFiniteSet(S) /\ S \in SUBSET Int
  BY <1>1, TargetsAre DEF IsGraph
<1>3. PICK n : n = Cardinality(S)
  OBVIOUS
<1>4. PICK at : at = Ascending(S, <)
  OBVIOUS
<1>5. /\ n \in Nat
      /\ DOMAIN at = 1..n
      /\ \A i \in 1..n : at[i] \in S
      /\ \A x \in S : \E i \in 1..n : at[i] = x
      /\ \A i, j \in 1..n : i < j <=> at[i] < at[j]
  BY <1>2, <1>3, <1>4, AscendingNumbers
<1>6. at = [i \in 1..n |-> at[i]]
  <2>1. at = [i \in 1..Cardinality(S) |-> AtRank(S, i)]
    BY <1>4, Zenon DEF Ascending, AtRank
  <2> QED BY <1>3, <2>1
<1>7. Listed(at)
  BY <1>5, <1>6, ListedFunction
<1>8. ASSUME NEW i \in 1..n, NEW j \in 1..n, at[i] = at[j] PROVE i = j
  <2>1. at[i] \in S /\ at[j] \in S /\ (i < j <=> at[i] < at[j]) /\ (j < i <=> at[j] < at[i])
    BY <1>5
  <2>2. at[i] \in Int
    BY <1>2, <2>1
  <2> QED BY <1>5, <1>8, <2>1, <2>2
<1>9. IsInjective(at)
  BY <1>5, <1>8 DEF IsInjective
<1>10. Held(at) = S
  BY <1>5 DEF Held
<1>11. at = Adjacent(E, a, R)
  BY <1>1, <1>4, Zenon DEF Adjacent
<1> QED BY <1>1, <1>7, <1>9, <1>10, <1>11

\* Every set of some of the transactions, but the empty one and all, has an
\* edge that leaves it: from each of them one comes to each other.
Knit(K, E, R) ==
    \A X \in SUBSET K : X # {} /\ X # K => \E a \in X, b \in K \ X : Has(E, a, b, R)

---------------------------------------------------------------------------
(* The components: the turns of Tarjan's algorithm.                        *)

\* The states of the turns: each one is a turn after the one before.
Turns(f, C, E, R, n) ==
    f = [i \in 0..n |-> IF i = 0 THEN NothingVisited ELSE Turn(C, E, R, f[i - 1])]

\* The states of the turns, one by one.
LEMMA TurnStep ==
    ASSUME NEW C, NEW E, NEW R, NEW f, NEW n \in Nat, Turns(f, C, E, R, n)
    PROVE  /\ f[0] = NothingVisited
           /\ \A k \in 0..(n - 1) : f[k + 1] = Turn(C, E, R, f[k])
<1>1. \A i \in 0..n : f[i] = IF i = 0 THEN NothingVisited ELSE Turn(C, E, R, f[i - 1])
  BY Zenon DEF Turns
<1>2. 0 \in 0..n /\ \A k \in 0..(n - 1) : k + 1 \in 0..n /\ k + 1 # 0 /\ (k + 1) - 1 = k
  OBVIOUS
<1>3. ASSUME NEW k \in 0..(n - 1) PROVE f[k + 1] = Turn(C, E, R, f[k])
  <2>1. f[k + 1] = Turn(C, E, R, f[(k + 1) - 1])
    BY <1>1, <1>2
  <2> QED BY <1>2, <2>1, Zenon
<1> QED BY <1>1, <1>2, <1>3

\* There are such turns: a recursive function has them, by induction.
LEMMA TurnsExist ==
    ASSUME NEW C, NEW E, NEW R, NEW n \in Nat
    PROVE  \E f : Turns(f, C, E, R, n)
<1> DEFINE P == {k \in 0..n : \E f : Turns(f, C, E, R, k)}
<1>1. 0 \in P
  <2>1. Turns([i \in 0..0 |-> NothingVisited], C, E, R, 0)
    BY DEF Turns
  <2> QED BY <2>1
<1>2. ASSUME NEW k \in 0..(n - 1), k \in P PROVE k + 1 \in P
  <2>1. PICK f : Turns(f, C, E, R, k)
    BY <1>2
  <2>2. PICK g : g = [i \in 0..(k + 1) |-> IF i = k + 1 THEN Turn(C, E, R, f[k]) ELSE f[i]]
    OBVIOUS
  <2>3. ASSUME NEW i \in 0..(k + 1)
        PROVE  g[i] = IF i = 0 THEN NothingVisited ELSE Turn(C, E, R, g[i - 1])
    <3>1. k \in Nat /\ k + 1 \in 0..(k + 1) /\ k \in 0..(k + 1) /\ (k + 1) - 1 = k /\ k # k + 1
      OBVIOUS
    <3>2. /\ g[k + 1] = Turn(C, E, R, f[k])
          /\ \A j \in 0..k : g[j] = f[j] /\ j # k + 1 /\ j \in 0..(k + 1)
      BY <2>2, <3>1
    <3>3. CASE i = k + 1
      <4>1. g[k] = f[k] /\ i # 0
        BY <3>1, <3>2, <3>3
      <4>2. g[i] = Turn(C, E, R, g[i - 1])
        BY <3>1, <3>2, <3>3, <4>1, Zenon
      <4> QED BY <4>1, <4>2
    <3>4. CASE i = 0
      <4>1. f[0] = NothingVisited /\ g[0] = f[0]
        BY <2>1, <3>1, <3>2, TurnStep
      <4> QED BY <3>4, <4>1
    <3>5. CASE i # 0 /\ i # k + 1
      <4>1. PICK j : j = i - 1
        OBVIOUS
      <4>2. j \in 0..(k - 1) /\ j + 1 = i /\ i \in 0..k /\ j \in 0..k
        BY <3>1, <3>5, <4>1
      <4>3. f[i] = Turn(C, E, R, f[j])
        BY <2>1, <3>1, <4>2, TurnStep
      <4>4. g[i] = f[i] /\ g[j] = f[j]
        BY <3>2, <4>2
      <4>5. g[i] = Turn(C, E, R, g[j])
        BY <4>3, <4>4, Zenon
      <4> QED BY <3>5, <4>1, <4>5, Zenon
    <3> QED BY <3>3, <3>4, <3>5
  <2>4. Turns(g, C, E, R, k + 1)
    BY <2>2, <2>3 DEF Turns
  <2> QED BY <2>4
<1> HIDE DEF P
<1>3. n \in P
  BY <1>1, <1>2, NumbersIn
<1> QED BY <1>3 DEF P

\* Components() is what the last of the turns has found.
FoundBy(f, C, E, R, n) == Turns(f, C, E, R, n) /\ Components(C, E, R) = f[n].found

\* _components() has the components that its turns found.
LEMMA ComponentsAre ==
    ASSUME NEW C, NEW E, NEW R, NEW n \in Nat, n = 2 * Cardinality(C) + Cardinality(E)
    PROVE  \E f : FoundBy(f, C, E, R, n)
<1>1. PICK f : f = CHOOSE g : Turns(g, C, E, R, n)
  OBVIOUS
<1>2. Turns(f, C, E, R, n)
  BY <1>1, TurnsExist
<1>3. Components(C, E, R) = f[n].found
  BY <1>1, Zenon DEF Components, Turns
<1> QED BY <1>2, <1>3 DEF FoundBy

(* The invariant of the turns.  The transactions that were popped have all *)
(* of their targets popped, with every knit set that one of them is in, as *)
(* a part of a component.  On the stack the targets that are followed are  *)
(* popped, or not below the low of the visit that their source belongs to. *)

\* The transactions that were visited and have left the stack.
Popped(t) == DOMAIN t.order \ Held(t.stack)

\* The visited transactions with their numbers, and the stack in their order.
TarjanTypes(C, t) ==
    /\ t = [order |-> t.order, low |-> t.low, stack |-> t.stack, work |-> t.work, found |-> t.found]
    /\ DOMAIN t.order \subseteq C /\ DOMAIN t.low = DOMAIN t.order
    /\ \A n \in DOMAIN t.order :
           t.order[n] \in Nat /\ t.order[n] < Cardinality(DOMAIN t.order) /\ t.low[n] \in Nat
    /\ Listed(t.stack) /\ Held(t.stack) \subseteq DOMAIN t.order
    /\ \A i, j \in 1..Len(t.stack) : i < j => t.order[t.stack[i]] < t.order[t.stack[j]]
    /\ \A c \in t.found : c \subseteq C

\* The transactions being visited, the first of them below all of the stack.
TarjanWork(E, R, t) ==
    /\ Listed(t.work)
    /\ \A k \in 1..Len(t.work) :
           /\ t.work[k] = [node |-> t.work[k].node, targets |-> t.work[k].targets]
           /\ t.work[k].node \in Held(t.stack)
           /\ Listed(t.work[k].targets) /\ IsInjective(t.work[k].targets)
           /\ Held(t.work[k].targets) \subseteq TargetsOf(E, t.work[k].node, R)
           /\ t.order[t.work[1].node] <= t.low[t.work[k].node]
           /\ t.low[t.work[k].node] <= t.order[t.work[k].node]
    /\ \A k, l \in 1..Len(t.work) : k < l => t.order[t.work[k].node] < t.order[t.work[l].node]
    /\ \A n \in Held(t.stack) : Len(t.work) # 0 /\ t.order[t.work[1].node] <= t.order[n]

\* A target that is still to be followed, and the last visit below a
\* transaction of the stack.
IsLeft(t, v, w) == \E k \in 1..Len(t.work) : t.work[k].node = v /\ w \in Held(t.work[k].targets)

\* Whether the visit at a position of work is the last one below a transaction.
Belongs(t, k, v) ==
    /\ t.order[t.work[k].node] <= t.order[v]
    /\ \A l \in 1..Len(t.work) : k < l => t.order[v] < t.order[t.work[l].node]

\* Whether a target that was followed counted: it is popped, or on the stack and
\* the visit that its source belongs to is low enough.
IsFollowed(t, v, w) ==
    \/ w \in Popped(t)
    \/ /\ w \in Held(t.stack)
       /\ \A k \in 1..Len(t.work) : Belongs(t, k, v) => t.low[t.work[k].node] <= t.order[w]

\* X has the edge that a turn is about to follow.
TarjanEdges(C, E, R, t, X) ==
    /\ \A v \in Held(t.stack), w \in C :
           Has(E, v, w, R) /\ <<v, w>> \notin X => IsLeft(t, v, w) \/ IsFollowed(t, v, w)
    /\ \A v \in Popped(t), w \in C : Has(E, v, w, R) => w \in Popped(t)

\* Whether nodes are in one component, or are one node.
InOne(found, K) == (\E c \in found : K \subseteq c) \/ (\E x : K = {x})

\* What is popped is popped with all that it is knit with.
TarjanFound(C, E, R, t) ==
    \A K \in SUBSET C :
        Knit(K, E, R) /\ K \cap Popped(t) # {} => K \subseteq Popped(t) /\ InOne(t.found, K)

\* The invariant of the turns.
TarjanInv(C, E, R, t, X) ==
    TarjanTypes(C, t) /\ TarjanWork(E, R, t) /\ TarjanEdges(C, E, R, t, X) /\ TarjanFound(C, E, R, t)

\* The invariant holds before the first turn.
LEMMA NothingKeeps ==
    ASSUME NEW C, NEW E, NEW R
    PROVE  TarjanInv(C, E, R, NothingVisited, {})
<1>1. PICK t : t = NothingVisited
  OBVIOUS
<1>2. /\ t.order = <<>> /\ t.low = <<>> /\ t.stack = <<>> /\ t.work = <<>> /\ t.found = {}
      /\ t = [order |-> t.order, low |-> t.low, stack |-> t.stack, work |-> t.work, found |-> t.found]
  BY <1>1 DEF NothingVisited
<1>3. Listed(<<>>) /\ Held(<<>>) = {} /\ DOMAIN <<>> = {} /\ Len(<<>>) = 0
  <2>1. Listed(<<>>) /\ Held(<<>>) = {}
    BY OneState
  <2>2. DOMAIN <<>> = {} /\ Len(<<>>) = 0
    OBVIOUS
  <2> QED BY <2>1, <2>2
<1>4. 1..Len(t.work) = {} /\ 1..Len(t.stack) = {}
  BY <1>2, <1>3
<1>5. Popped(t) = {} /\ Held(t.stack) = {} /\ DOMAIN t.order = {} /\ DOMAIN t.low = {}
  BY <1>2, <1>3 DEF Popped
<1>6. TarjanTypes(C, t)
  BY <1>2, <1>3, <1>4, <1>5 DEF TarjanTypes
<1>7. TarjanWork(E, R, t)
  BY <1>2, <1>3, <1>4, <1>5 DEF TarjanWork
<1>8. TarjanEdges(C, E, R, t, {}) /\ TarjanFound(C, E, R, t)
  BY <1>5 DEF TarjanEdges, TarjanFound
<1> QED BY <1>1, <1>6, <1>7, <1>8 DEF TarjanInv

\* What entering a transaction does to a state.
Enters(t, u, n, targets) ==
    /\ u = [order |-> u.order, low |-> u.low, stack |-> u.stack, work |-> u.work, found |-> t.found]
    /\ DOMAIN u.order = DOMAIN t.order \cup {n} /\ DOMAIN u.low = DOMAIN t.order \cup {n}
    /\ u.order[n] = Cardinality(DOMAIN t.order) /\ u.low[n] = Cardinality(DOMAIN t.order)
    /\ \A x \in DOMAIN t.order : u.order[x] = t.order[x] /\ u.low[x] = t.low[x]
    /\ Listed(u.stack) /\ Len(u.stack) = Len(t.stack) + 1 /\ u.stack[Len(t.stack) + 1] = n
    /\ \A i \in 1..Len(t.stack) : u.stack[i] = t.stack[i]
    /\ Held(u.stack) = Held(t.stack) \cup {n}
    /\ Listed(u.work) /\ Len(u.work) = Len(t.work) + 1
    /\ u.work[Len(t.work) + 1] = [node |-> n, targets |-> targets]
    /\ \A k \in 1..Len(t.work) : u.work[k] = t.work[k]

\* Enter numbers a transaction and puts it on the stack and on work.
LEMMA EnterIs ==
    ASSUME NEW C, NEW E, NEW R, NEW t, TarjanTypes(C, t), TarjanWork(E, R, t), NEW n, n \notin DOMAIN t.order
    PROVE  Enters(t, Enter(E, R, t, n), n, Adjacent(E, n, R))
<1>1. PICK number : number = Cardinality(DOMAIN t.order)
  OBVIOUS
<1>2. PICK top : top = [node |-> n, targets |-> Adjacent(E, n, R)]
  OBVIOUS
<1>3. PICK u : u = Enter(E, R, t, n)
  OBVIOUS
<1>4. t = [order |-> t.order, low |-> t.low, stack |-> t.stack, work |-> t.work, found |-> t.found]
  BY DEF TarjanTypes
<1>5. u = [order |-> With(t.order, n, number), low |-> With(t.low, n, number),
           stack |-> Append(t.stack, n), work |-> Append(t.work, top), found |-> t.found]
  BY <1>1, <1>2, <1>3, <1>4 DEF Enter
<1>6. /\ u.order = With(t.order, n, number) /\ u.low = With(t.low, n, number)
      /\ u.stack = Append(t.stack, n) /\ u.work = Append(t.work, top)
      /\ u = [order |-> u.order, low |-> u.low, stack |-> u.stack, work |-> u.work, found |-> t.found]
  BY <1>5
<1>7. DOMAIN t.low = DOMAIN t.order /\ Listed(t.stack) /\ Listed(t.work)
  BY DEF TarjanTypes, TarjanWork
<1>8. /\ DOMAIN u.order = DOMAIN t.order \cup {n} /\ DOMAIN u.low = DOMAIN t.order \cup {n}
      /\ u.order[n] = number /\ u.low[n] = number
      /\ \A x \in DOMAIN t.order : u.order[x] = t.order[x] /\ u.low[x] = t.low[x]
  BY <1>6, <1>7 DEF With
<1>9. /\ Listed(u.stack) /\ Len(u.stack) = Len(t.stack) + 1 /\ u.stack[Len(t.stack) + 1] = n
      /\ \A i \in 1..Len(t.stack) : u.stack[i] = t.stack[i]
      /\ Held(u.stack) = Held(t.stack) \cup {n}
  BY <1>6, <1>7, ListedAppend
<1>10. /\ Listed(u.work) /\ Len(u.work) = Len(t.work) + 1 /\ u.work[Len(t.work) + 1] = top
       /\ \A k \in 1..Len(t.work) : u.work[k] = t.work[k]
  BY <1>6, <1>7, ListedAppend
<1> QED BY <1>1, <1>2, <1>3, <1>6, <1>8, <1>9, <1>10 DEF Enters

\* A transaction that is entered is on the top of the stack, above each low.
LEMMA EnterKeeps ==
    ASSUME NEW C, NEW E, NEW R, IsGraph(C, E), NEW t, NEW X, TarjanInv(C, E, R, t, X),
           NEW n \in C, n \notin DOMAIN t.order, \A v, w : <<v, w>> \in X => w = n
    PROVE  TarjanInv(C, E, R, Enter(E, R, t, n), {})
<1>1. PICK u : u = Enter(E, R, t, n)
  OBVIOUS
<1>2. PICK targets : targets = Adjacent(E, n, R)
  OBVIOUS
<1>3. Enters(t, u, n, targets)
  BY <1>1, <1>2, EnterIs DEF TarjanInv
<1>4. PICK V : V = DOMAIN t.order
  OBVIOUS
<1>5. PICK S : S = Held(t.stack)
  OBVIOUS
<1>6. PICK s : s = Len(t.stack)
  OBVIOUS
<1>7. PICK m : m = Len(t.work)
  OBVIOUS
<1>8. PICK size : size = Cardinality(V)
  OBVIOUS
<1>9. /\ V \subseteq C /\ S \subseteq V /\ n \notin V /\ n \notin S
      /\ s \in Nat /\ m \in Nat /\ size \in Nat
      /\ \A x \in V : t.order[x] \in Nat /\ t.order[x] < size /\ t.low[x] \in Nat
  <2>1. IsFiniteSet(V)
    BY <1>4, FS_Subset DEF TarjanInv, TarjanTypes, IsGraph
  <2>2. size \in Nat
    BY <1>8, <2>1, FS_CardinalityType
  <2>3. s \in Nat /\ m \in Nat
    BY <1>6, <1>7, ListedFacts DEF TarjanInv, TarjanTypes, TarjanWork
  <2> QED BY <1>4, <1>5, <1>8, <2>2, <2>3 DEF TarjanInv, TarjanTypes
<1>10. /\ DOMAIN u.order = V \cup {n} /\ DOMAIN u.low = V \cup {n}
       /\ u.order[n] = size /\ u.low[n] = size
       /\ \A x \in V : u.order[x] = t.order[x] /\ u.low[x] = t.low[x]
       /\ Listed(u.stack) /\ Len(u.stack) = s + 1 /\ u.stack[s + 1] = n
       /\ \A i \in 1..s : u.stack[i] = t.stack[i]
       /\ Held(u.stack) = S \cup {n}
       /\ Listed(u.work) /\ Len(u.work) = m + 1
       /\ u.work[m + 1] = [node |-> n, targets |-> targets]
       /\ \A k \in 1..m : u.work[k] = t.work[k]
  BY <1>3, <1>4, <1>5, <1>6, <1>7, <1>8 DEF Enters
<1>11. Popped(u) = Popped(t)
  BY <1>4, <1>5, <1>9, <1>10 DEF Popped
<1>12. \A i \in 1..s : t.stack[i] \in S
  BY <1>5, <1>6, ListedFacts DEF TarjanInv, TarjanTypes
<1>13. u.work[m + 1].node = n /\ u.work[m + 1].targets = targets
  BY <1>10
<1>14. TarjanTypes(C, u)
  <2>1. Cardinality(V \cup {n}) = size + 1
    <3>1. IsFiniteSet(V)
      BY <1>4, FS_Subset DEF TarjanInv, TarjanTypes, IsGraph
    <3> QED BY <1>8, <1>9, <3>1, FS_AddElement
  <2>2. ASSUME NEW x \in V \cup {n}
        PROVE  u.order[x] \in Nat /\ u.order[x] < size + 1 /\ u.low[x] \in Nat
    BY <1>9, <1>10
  <2>3. ASSUME NEW i \in 1..(s + 1), NEW j \in 1..(s + 1), i < j
        PROVE  u.order[u.stack[i]] < u.order[u.stack[j]]
    <3>1. i \in 1..s /\ u.stack[i] = t.stack[i] /\ t.stack[i] \in V
      BY <1>9, <1>10, <1>12, <2>3
    <3>2. CASE j = s + 1
      BY <1>9, <1>10, <3>1, <3>2
    <3>3. CASE j # s + 1
      <4>1. j \in 1..s
        BY <1>9, <3>3
      <4>2. u.stack[j] = t.stack[j] /\ t.stack[j] \in V
        BY <1>9, <1>10, <1>12, <4>1
      <4>3. t.order[t.stack[i]] < t.order[t.stack[j]]
        BY <1>6, <2>3, <3>1, <4>1 DEF TarjanInv, TarjanTypes
      <4> QED BY <1>10, <3>1, <4>2, <4>3
    <3> QED BY <3>2, <3>3
  <2>4. /\ u = [order |-> u.order, low |-> u.low, stack |-> u.stack, work |-> u.work, found |-> u.found]
        /\ u.found = t.found
    BY <1>3 DEF Enters
  <2>5. \A c \in u.found : c \subseteq C
    BY <2>4 DEF TarjanInv, TarjanTypes
  <2> QED BY <1>9, <1>10, <2>1, <2>2, <2>3, <2>4, <2>5 DEF TarjanTypes
<1>15. \A k \in 1..(m + 1) : k \in 1..m \/ k = m + 1
  BY <1>9
<1>16. \A k \in 1..m : t.work[k].node \in S /\ t.work[k].node \in V
  BY <1>5, <1>7, <1>9 DEF TarjanInv, TarjanWork
<1>17. m # 0 => 1 \in 1..m
  BY <1>9
<1>18. \A k \in 1..m : /\ u.work[k].node = t.work[k].node /\ u.work[k].targets = t.work[k].targets
                       /\ u.order[u.work[k].node] = t.order[t.work[k].node]
                       /\ u.low[u.work[k].node] = t.low[t.work[k].node]
  BY <1>10, <1>16
<1>19. \A k \in 1..m : /\ u.order[u.work[k].node] < size /\ u.order[u.work[k].node] \in Nat
                       /\ u.low[u.work[k].node] \in Nat
                       /\ u.low[u.work[k].node] <= u.order[u.work[k].node]
  <2>1. \A k \in 1..m : t.low[t.work[k].node] <= t.order[t.work[k].node]
    BY <1>7 DEF TarjanInv, TarjanWork
  <2> QED BY <1>9, <1>16, <1>18, <2>1
<1>20. TarjanWork(E, R, u)
  <2>1. ASSUME NEW k \in 1..(m + 1)
        PROVE  /\ u.work[k] = [node |-> u.work[k].node, targets |-> u.work[k].targets]
               /\ u.work[k].node \in Held(u.stack)
               /\ Listed(u.work[k].targets) /\ IsInjective(u.work[k].targets)
               /\ Held(u.work[k].targets) \subseteq TargetsOf(E, u.work[k].node, R)
               /\ u.order[u.work[1].node] <= u.low[u.work[k].node]
               /\ u.low[u.work[k].node] <= u.order[u.work[k].node]
    <3>1. CASE k \in 1..m
      <4>1. /\ t.work[k] = [node |-> t.work[k].node, targets |-> t.work[k].targets]
            /\ t.work[k].node \in S
            /\ Listed(t.work[k].targets) /\ IsInjective(t.work[k].targets)
            /\ Held(t.work[k].targets) \subseteq TargetsOf(E, t.work[k].node, R)
            /\ t.order[t.work[1].node] <= t.low[t.work[k].node]
            /\ t.low[t.work[k].node] <= t.order[t.work[k].node]
        BY <1>5, <1>7, <3>1 DEF TarjanInv, TarjanWork
      <4>2. 1 \in 1..m
        BY <1>9, <3>1
      <4>3. u.work[k] = t.work[k]
        BY <1>10, <3>1
      <4> QED BY <1>10, <1>18, <3>1, <4>1, <4>2, <4>3
    <3>2. CASE k = m + 1
      <4>1. Listed(targets) /\ IsInjective(targets) /\ Held(targets) = TargetsOf(E, n, R)
        BY <1>2, AdjacentLists
      <4>2. u.order[u.work[1].node] <= size
        <5>1. CASE m = 0
          <6>1. u.work[1].node = n
            BY <1>13, <5>1
          <6> QED BY <1>9, <1>10, <6>1
        <5>2. CASE m # 0
          <6>1. 1 \in 1..m
            BY <1>17, <5>2
          <6> QED BY <1>9, <1>19, <6>1
        <5> QED BY <5>1, <5>2
      <4>3. u.work[k] = [node |-> n, targets |-> targets] /\ u.work[k].node = n /\ u.work[k].targets = targets
        BY <1>10, <3>2
      <4> QED BY <1>9, <1>10, <4>1, <4>2, <4>3
    <3> QED BY <1>15, <3>1, <3>2
  <2>2. ASSUME NEW k \in 1..(m + 1), NEW l \in 1..(m + 1), k < l
        PROVE  u.order[u.work[k].node] < u.order[u.work[l].node]
    <3>1. k \in 1..m
      BY <1>9, <2>2
    <3>2. CASE l = m + 1
      BY <1>10, <1>13, <1>19, <3>1, <3>2
    <3>3. CASE l \in 1..m
      <4>1. t.order[t.work[k].node] < t.order[t.work[l].node]
        BY <1>7, <2>2, <3>1, <3>3 DEF TarjanInv, TarjanWork
      <4> QED BY <1>18, <3>1, <3>3, <4>1
    <3> QED BY <1>15, <3>2, <3>3
  <2>3. ASSUME NEW x \in S \cup {n} PROVE m + 1 # 0 /\ u.order[u.work[1].node] <= u.order[x]
    <3>1. CASE m = 0
      <4>1. S = {}
        BY <1>5, <1>7, <3>1 DEF TarjanInv, TarjanWork
      <4>2. u.work[1].node = n /\ x = n
        BY <1>13, <2>3, <3>1, <4>1
      <4> QED BY <1>9, <1>10, <3>1, <4>2
    <3>2. CASE m # 0 /\ x = n
      <4>1. u.order[u.work[1].node] < size /\ u.order[u.work[1].node] \in Nat
        BY <1>17, <1>19, <3>2
      <4>2. u.order[x] = size
        BY <1>10, <3>2
      <4>3. m + 1 # 0
        BY <1>9
      <4> QED BY <1>9, <4>1, <4>2, <4>3
    <3>3. CASE m # 0 /\ x \in S
      <4>1. t.order[t.work[1].node] <= t.order[x]
        BY <1>5, <3>3 DEF TarjanInv, TarjanWork
      <4>2. u.order[u.work[1].node] = t.order[t.work[1].node]
        BY <1>17, <1>18, <3>3
      <4>3. u.order[x] = t.order[x]
        BY <1>9, <1>10, <3>3
      <4>4. m + 1 # 0
        BY <1>9
      <4> QED BY <4>1, <4>2, <4>3, <4>4
    <3> QED BY <2>3, <3>1, <3>2, <3>3
  <2> QED BY <1>10, <2>1, <2>2, <2>3 DEF TarjanWork
<1>21. TarjanEdges(C, E, R, u, {})
  <2>1. ASSUME NEW v \in S \cup {n}, NEW w \in C, Has(E, v, w, R)
        PROVE  IsLeft(u, v, w) \/ IsFollowed(u, v, w)
    <3>1. CASE v = n
      <4>1. w \in Held(targets)
        BY <1>2, <2>1, <3>1, AdjacentLists, TargetsAre
      <4>2. m + 1 \in 1..Len(u.work)
        BY <1>9, <1>10
      <4> QED BY <1>13, <3>1, <4>1, <4>2 DEF IsLeft
    <3>2. CASE v # n /\ w = n
      <4>1. ASSUME NEW k \in 1..(m + 1), Belongs(u, k, v) PROVE u.low[u.work[k].node] <= u.order[w]
        <5>1. CASE k \in 1..m
          BY <1>9, <1>10, <1>19, <3>2, <5>1
        <5>2. CASE k = m + 1
          BY <1>9, <1>10, <1>13, <3>2, <5>2
        <5> QED BY <1>15, <5>1, <5>2
      <4> QED BY <1>10, <3>2, <4>1 DEF IsFollowed
    <3>3. CASE v # n /\ w # n
      <4>1. v \in S /\ <<v, w>> \notin X
        BY <2>1, <3>3
      <4>2. IsLeft(t, v, w) \/ IsFollowed(t, v, w)
        BY <1>5, <2>1, <4>1 DEF TarjanInv, TarjanEdges
      <4>3. CASE IsLeft(t, v, w)
        <5>1. PICK k \in 1..m : t.work[k].node = v /\ w \in Held(t.work[k].targets)
          BY <1>7, <4>3 DEF IsLeft
        <5>2. k \in 1..(m + 1) /\ u.work[k].node = v /\ w \in Held(u.work[k].targets)
          BY <1>9, <1>18, <5>1
        <5> QED BY <1>10, <5>2 DEF IsLeft
      <4>4. CASE w \in Popped(t)
        BY <1>11, <4>4 DEF IsFollowed
      <4>5. CASE w \notin Popped(t) /\ IsFollowed(t, v, w)
        <5>1. w \in S /\ \A k \in 1..m : Belongs(t, k, v) => t.low[t.work[k].node] <= t.order[w]
          BY <1>5, <1>7, <4>5 DEF IsFollowed
        <5>2. ASSUME NEW k \in 1..(m + 1), Belongs(u, k, v) PROVE u.low[u.work[k].node] <= u.order[w]
          <6>1. u.order[v] = t.order[v] /\ u.order[w] = t.order[w] /\ v \in V /\ w \in V
            BY <1>9, <1>10, <4>1, <5>1
          <6>2. CASE k = m + 1
            <7>1. u.order[u.work[k].node] = size /\ u.order[v] < size /\ u.order[v] \in Nat
              BY <1>9, <1>10, <1>13, <6>1, <6>2
            <7> QED BY <1>9, <5>2, <7>1 DEF Belongs
          <6>3. CASE k \in 1..m
            <7>1. t.order[t.work[k].node] <= t.order[v]
              BY <1>18, <5>2, <6>1, <6>3 DEF Belongs
            <7>2. ASSUME NEW l \in 1..m, k < l PROVE t.order[v] < t.order[t.work[l].node]
              <8>1. l \in 1..Len(u.work)
                BY <1>9, <1>10
              <8>2. u.order[v] < u.order[u.work[l].node]
                BY <5>2, <7>2, <8>1 DEF Belongs
              <8> QED BY <1>18, <6>1, <8>2
            <7>3. Belongs(t, k, v)
              BY <1>7, <7>1, <7>2 DEF Belongs
            <7> QED BY <1>18, <5>1, <6>1, <6>3, <7>3
          <6> QED BY <1>15, <6>2, <6>3
        <5> QED BY <1>10, <5>1, <5>2 DEF IsFollowed
      <4> QED BY <4>2, <4>3, <4>4, <4>5
    <3> QED BY <3>1, <3>2, <3>3
  <2>2. \A v \in Popped(t), w \in C : Has(E, v, w, R) => w \in Popped(t)
    BY DEF TarjanInv, TarjanEdges
  <2> QED BY <1>10, <1>11, <2>1, <2>2 DEF TarjanEdges
<1>22. TarjanFound(C, E, R, u)
  <2>1. u.found = t.found
    BY <1>3 DEF Enters
  <2> QED BY <1>11, <2>1 DEF TarjanInv, TarjanFound
<1> QED BY <1>1, <1>14, <1>20, <1>21, <1>22 DEF TarjanInv

\* A list without its first entry.
LEMMA ListedTail ==
    ASSUME NEW s, Listed(s), s # <<>>
    PROVE  LET t == Tail(s)
           IN /\ Listed(t) /\ Len(t) = Len(s) - 1 /\ Len(s) \in Nat \ {0}
              /\ \A i \in 1..(Len(s) - 1) : t[i] = s[i + 1]
              /\ Head(s) = s[1] /\ Head(s) \in Held(s)
              /\ Held(s) = {Head(s)} \cup Held(t)
              /\ IsInjective(s) => IsInjective(t) /\ Head(s) \notin Held(t)
<1> DEFINE t == Tail(s)
<1>1. Len(s) \in Nat \ {0} /\ Len(s) - 1 \in Nat /\ DOMAIN s = 1..Len(s)
  BY ListedFacts
<1>2. t \in Seq(Held(s)) /\ Len(t) = Len(s) - 1 /\ DOMAIN t = 1..(Len(s) - 1)
      /\ Head(s) = s[1] /\ \A i \in 1..(Len(s) - 1) : t[i] = s[i + 1]
  BY <1>1 DEF Listed
<1> HIDE DEF t
<1>3. Listed(t)
  BY <1>2, ListedFrom
<1>4. Held(s) = {Head(s)} \cup Held(t)
  <2>1. ASSUME NEW x \in Held(s) PROVE x \in {Head(s)} \cup Held(t)
    <3>1. PICK i \in 1..Len(s) : s[i] = x
      BY ListedFacts
    <3>2. CASE i = 1
      BY <1>2, <3>1, <3>2
    <3>3. CASE i # 1
      <4>1. PICK j : j = i - 1
        OBVIOUS
      <4>2. j \in 1..(Len(s) - 1) /\ j + 1 = i
        BY <1>1, <3>3, <4>1
      <4>3. t[j] = x
        BY <1>2, <3>1, <4>2
      <4> QED BY <1>2, <4>2, <4>3 DEF Held
    <3> QED BY <3>2, <3>3
  <2>2. ASSUME NEW x \in Held(t) PROVE x \in Held(s)
    <3>1. PICK i \in 1..(Len(s) - 1) : t[i] = x
      BY <1>2 DEF Held
    <3>2. i + 1 \in 1..Len(s) /\ s[i + 1] = x
      BY <1>1, <1>2, <3>1
    <3> QED BY <3>2, ListedFacts
  <2>3. Head(s) \in Held(s)
    BY <1>1, <1>2 DEF Held
  <2> QED BY <2>1, <2>2, <2>3
<1>5. ASSUME IsInjective(s) PROVE IsInjective(t) /\ Head(s) \notin Held(t)
  <2>1. ASSUME NEW i \in 1..(Len(s) - 1), NEW j \in 1..(Len(s) - 1), t[i] = t[j] PROVE i = j
    <3>1. i + 1 \in DOMAIN s /\ j + 1 \in DOMAIN s /\ s[i + 1] = s[j + 1]
      BY <1>1, <1>2, <2>1
    <3>2. i + 1 = j + 1
      BY <1>5, <3>1 DEF IsInjective
    <3> QED BY <3>2
  <2>2. ASSUME NEW i \in 1..(Len(s) - 1), t[i] = Head(s) PROVE FALSE
    <3>1. i + 1 \in DOMAIN s /\ 1 \in DOMAIN s /\ s[i + 1] = s[1]
      BY <1>1, <1>2, <2>2
    <3>2. i + 1 = 1
      BY <1>5, <3>1 DEF IsInjective
    <3> QED BY <3>2
  <2>3. IsInjective(t)
    BY <1>2, <2>1 DEF IsInjective
  <2> QED BY <1>2, <2>2, <2>3 DEF Held
<1> QED BY <1>1, <1>2, <1>3, <1>4, <1>5 DEF t

\* What taking the next target does to a state.
Takes(t, u) ==
    /\ u = [order |-> t.order, low |-> t.low, stack |-> t.stack, work |-> u.work, found |-> t.found]
    /\ Listed(u.work) /\ Len(u.work) = Len(t.work)
    /\ u.work[Len(t.work)] = [node |-> t.work[Len(t.work)].node, targets |-> Tail(t.work[Len(t.work)].targets)]
    /\ \A k \in 1..(Len(t.work) - 1) : u.work[k] = t.work[k]

\* A turn without the first target of the last visit.
Taken(t) ==
    LET top == Last(t.work)
    IN [t EXCEPT !.work = Append(Front(@), [top EXCEPT !.targets = Tail(@)])]

\* Follow takes the first target of the last visit, which is then not left.
LEMMA TakenIs ==
    ASSUME NEW C, NEW E, NEW R, NEW t, TarjanTypes(C, t), TarjanWork(E, R, t), t.work # <<>>
    PROVE  Takes(t, Taken(t)) /\ Len(t.work) \in Nat \ {0} /\ Last(t.work) = t.work[Len(t.work)]
<1>1. t = [order |-> t.order, low |-> t.low, stack |-> t.stack, work |-> t.work, found |-> t.found]
  BY DEF TarjanTypes
<1>2. PICK m : m = Len(t.work)
  OBVIOUS
<1>3. PICK front : front = Front(t.work)
  OBVIOUS
<1>4. PICK top : top = t.work[m]
  OBVIOUS
<1>5. Listed(t.work)
  BY DEF TarjanWork
<1>6. /\ Listed(front) /\ Len(front) = m - 1 /\ \A i \in 1..(m - 1) : front[i] = t.work[i]
      /\ Last(t.work) = top /\ m \in Nat \ {0}
  BY <1>2, <1>3, <1>4, <1>5, ListedFront
<1>7. m \in 1..m
  BY <1>6
<1>8. top = [node |-> top.node, targets |-> top.targets]
  BY <1>2, <1>4, <1>7 DEF TarjanWork
<1>9. PICK new : new = [node |-> top.node, targets |-> Tail(top.targets)]
  OBVIOUS
<1>10. PICK u : u = Taken(t)
  OBVIOUS
<1>11. [top EXCEPT !.targets = Tail(@)] = new
  <2>1. PICK a : a = top.node
    OBVIOUS
  <2>2. PICK b : b = top.targets
    OBVIOUS
  <2>3. top = [node |-> a, targets |-> b] /\ new = [node |-> a, targets |-> Tail(b)]
    BY <1>8, <1>9, <2>1, <2>2
  <2>4. PICK rest : rest = Tail(b)
    OBVIOUS
  <2>5. [[node |-> a, targets |-> b] EXCEPT !.targets = rest] = [node |-> a, targets |-> rest]
    OBVIOUS
  <2>6. [top EXCEPT !.targets = rest] = new
    BY <2>3, <2>4, <2>5, Zenon
  <2> QED BY <2>2, <2>4, <2>6, Zenon
<1>12. u = [order |-> t.order, low |-> t.low, stack |-> t.stack, work |-> Append(front, new), found |-> t.found]
  BY <1>1, <1>3, <1>6, <1>10, <1>11 DEF Taken
<1>13. u.work = Append(front, new)
       /\ u = [order |-> t.order, low |-> t.low, stack |-> t.stack, work |-> u.work, found |-> t.found]
  BY <1>12
<1>14. /\ Listed(u.work) /\ Len(u.work) = (m - 1) + 1 /\ u.work[(m - 1) + 1] = new
       /\ \A i \in 1..(m - 1) : u.work[i] = front[i]
  BY <1>6, <1>13, ListedAppend
<1>15. (m - 1) + 1 = m
  BY <1>6
<1>16. /\ Listed(u.work) /\ Len(u.work) = m /\ u.work[m] = new
       /\ \A i \in 1..(m - 1) : u.work[i] = t.work[i]
  BY <1>6, <1>14, <1>15
<1>17. Takes(t, u)
  BY <1>2, <1>4, <1>9, <1>13, <1>16 DEF Takes
<1> QED BY <1>2, <1>4, <1>6, <1>10, <1>17

\* A target that is taken is no longer left: the rest stays as it is.
LEMMA TakenKeeps ==
    ASSUME NEW C, NEW E, NEW R, IsGraph(C, E), NEW t, TarjanInv(C, E, R, t, {}), t.work # <<>>,
           NEW top, top = t.work[Len(t.work)], top.targets # <<>>,
           NEW u, Takes(t, u)
    PROVE  /\ TarjanInv(C, E, R, u, {<<top.node, Head(top.targets)>>})
           /\ \A v, w : IsLeft(u, v, w) => IsLeft(t, v, w)
           /\ IsLeft(t, top.node, Head(top.targets)) /\ ~IsLeft(u, top.node, Head(top.targets))
           /\ top.node \in Held(t.stack) /\ Has(E, top.node, Head(top.targets), R)
<1>1. PICK m : m = Len(t.work)
  OBVIOUS
<1>2. PICK w1 : w1 = Head(top.targets)
  OBVIOUS
<1>3. TarjanTypes(C, t) /\ TarjanWork(E, R, t) /\ TarjanEdges(C, E, R, t, {}) /\ TarjanFound(C, E, R, t)
  BY DEF TarjanInv
<1>4. m \in Nat /\ m # 0 /\ m \in 1..m
  <2>1. m \in Nat /\ m # 0
    BY <1>1, <1>3, ListedFacts DEF TarjanWork
  <2> QED BY <2>1
<1>5. /\ u.order = t.order /\ u.low = t.low /\ u.stack = t.stack /\ u.found = t.found
      /\ u = [order |-> t.order, low |-> t.low, stack |-> t.stack, work |-> u.work, found |-> t.found]
  <2>1. u = [order |-> t.order, low |-> t.low, stack |-> t.stack, work |-> u.work, found |-> t.found]
    BY DEF Takes
  <2>2. PICK work : work = u.work
    OBVIOUS
  <2>3. u = [order |-> t.order, low |-> t.low, stack |-> t.stack, work |-> work, found |-> t.found]
    BY <2>1, <2>2
  <2>4. u.order = t.order /\ u.low = t.low /\ u.stack = t.stack /\ u.found = t.found
    BY <2>3
  <2> QED BY <2>1, <2>4
<1>6. /\ Listed(u.work) /\ Len(u.work) = m
      /\ u.work[m] = [node |-> top.node, targets |-> Tail(top.targets)]
      /\ \A k \in 1..(m - 1) : u.work[k] = t.work[k]
  BY <1>1 DEF Takes
<1>7. u.work[m].node = top.node /\ u.work[m].targets = Tail(top.targets)
  BY <1>6
<1>8. \A k \in 1..m : k = m \/ k \in 1..(m - 1)
  BY <1>4
<1>9. Listed(top.targets) /\ IsInjective(top.targets)
      /\ Held(top.targets) \subseteq TargetsOf(E, top.node, R) /\ top.node \in Held(t.stack)
  BY <1>1, <1>3, <1>4 DEF TarjanWork
<1>10. /\ Listed(Tail(top.targets)) /\ IsInjective(Tail(top.targets))
       /\ Held(top.targets) = {w1} \cup Held(Tail(top.targets)) /\ w1 \notin Held(Tail(top.targets))
       /\ w1 \in Held(top.targets)
  BY <1>2, <1>9, ListedTail
<1>11. \A k \in 1..m : u.work[k].node = t.work[k].node
  BY <1>1, <1>6, <1>7, <1>8
<1>12. ASSUME NEW k \in 1..m
       PROVE  /\ u.work[k] = [node |-> u.work[k].node, targets |-> u.work[k].targets]
              /\ Listed(u.work[k].targets) /\ IsInjective(u.work[k].targets)
              /\ Held(u.work[k].targets) \subseteq Held(t.work[k].targets)
              /\ \A w : w \in Held(t.work[k].targets) =>
                            w \in Held(u.work[k].targets) \/ (k = m /\ w = w1)
  <2>1. CASE k = m
    BY <1>1, <1>6, <1>7, <1>10, <2>1
  <2>2. CASE k \in 1..(m - 1)
    <3>1. u.work[k] = t.work[k]
      BY <1>6, <2>2
    <3>2. /\ t.work[k] = [node |-> t.work[k].node, targets |-> t.work[k].targets]
          /\ Listed(t.work[k].targets) /\ IsInjective(t.work[k].targets)
      BY <1>1, <1>3, <1>12 DEF TarjanWork
    <3> QED BY <3>1, <3>2
  <2> QED BY <1>8, <2>1, <2>2
<1>13. TarjanTypes(C, u)
  BY <1>3, <1>5 DEF TarjanTypes
<1>14. TarjanWork(E, R, u)
  <2>1. ASSUME NEW k \in 1..m
        PROVE  /\ u.work[k].node \in Held(u.stack)
               /\ Held(u.work[k].targets) \subseteq TargetsOf(E, u.work[k].node, R)
               /\ u.order[u.work[1].node] <= u.low[u.work[k].node]
               /\ u.low[u.work[k].node] <= u.order[u.work[k].node]
    <3>1. /\ t.work[k].node \in Held(t.stack)
          /\ Held(t.work[k].targets) \subseteq TargetsOf(E, t.work[k].node, R)
          /\ t.order[t.work[1].node] <= t.low[t.work[k].node]
          /\ t.low[t.work[k].node] <= t.order[t.work[k].node]
      BY <1>1, <1>3, <2>1 DEF TarjanWork
    <3>2. u.work[k].node = t.work[k].node /\ u.work[1].node = t.work[1].node
      <4>1. 1 \in 1..m
        BY <1>4
      <4> QED BY <1>11, <2>1, <4>1
    <3>3. Held(u.work[k].targets) \subseteq Held(t.work[k].targets)
      BY <1>12, <2>1
    <3> QED BY <1>5, <3>1, <3>2, <3>3
  <2>2. \A k, l \in 1..m : k < l => u.order[u.work[k].node] < u.order[u.work[l].node]
    <3>1. \A k, l \in 1..m : k < l => t.order[t.work[k].node] < t.order[t.work[l].node]
      BY <1>1, <1>3 DEF TarjanWork
    <3> QED BY <1>5, <1>11, <3>1
  <2>3. \A n \in Held(u.stack) : m # 0 /\ u.order[u.work[1].node] <= u.order[n]
    <3>1. \A n \in Held(t.stack) : t.order[t.work[1].node] <= t.order[n]
      BY <1>3 DEF TarjanWork
    <3>2. u.work[1].node = t.work[1].node
      <4>1. 1 \in 1..m
        BY <1>4
      <4> QED BY <1>11, <4>1
    <3> QED BY <1>4, <1>5, <3>1, <3>2
  <2> QED BY <1>6, <1>12, <2>1, <2>2, <2>3 DEF TarjanWork
<1>15. \A v, w : IsLeft(u, v, w) => IsLeft(t, v, w)
  BY <1>1, <1>6, <1>11, <1>12 DEF IsLeft
<1>16. ASSUME NEW v, NEW w, IsLeft(t, v, w), <<v, w>> # <<top.node, w1>> PROVE IsLeft(u, v, w)
  <2>1. PICK k \in 1..m : t.work[k].node = v /\ w \in Held(t.work[k].targets)
    BY <1>1, <1>16 DEF IsLeft
  <2>2. u.work[k].node = v /\ w \in Held(u.work[k].targets)
    BY <1>1, <1>11, <1>12, <1>16, <2>1
  <2> QED BY <1>6, <2>2 DEF IsLeft
<1>17. ~IsLeft(u, top.node, w1)
  <2> SUFFICES ASSUME IsLeft(u, top.node, w1) PROVE FALSE
    OBVIOUS
  <2>1. PICK k \in 1..m : u.work[k].node = top.node /\ w1 \in Held(u.work[k].targets)
    BY <1>6 DEF IsLeft
  <2>2. k # m
    BY <1>7, <1>10, <2>1
  <2>3. k < m
    BY <1>4, <2>2
  <2>4. t.order[t.work[k].node] < t.order[t.work[m].node]
    BY <1>1, <1>3, <1>4, <2>3 DEF TarjanWork
  <2>5. t.work[k].node = top.node /\ t.work[m].node = top.node
    BY <1>1, <1>11, <2>1
  <2>6. t.order[top.node] \in Nat
    BY <1>3, <1>9 DEF TarjanTypes
  <2>7. t.order[top.node] < t.order[top.node]
    BY <2>4, <2>5
  <2> QED BY <2>6, <2>7
<1>18. Popped(u) = Popped(t)
  BY <1>5 DEF Popped
<1>19. ASSUME NEW k \in 1..m, NEW v PROVE Belongs(u, k, v) <=> Belongs(t, k, v)
  BY <1>1, <1>5, <1>6, <1>11, <1>19 DEF Belongs
<1>20. TarjanEdges(C, E, R, u, {<<top.node, w1>>})
  <2>1. ASSUME NEW v \in Held(u.stack), NEW w \in C, Has(E, v, w, R), <<v, w>> \notin {<<top.node, w1>>}
        PROVE  IsLeft(u, v, w) \/ IsFollowed(u, v, w)
    <3>1. IsLeft(t, v, w) \/ IsFollowed(t, v, w)
      BY <1>3, <1>5, <2>1 DEF TarjanEdges
    <3>2. CASE IsLeft(t, v, w)
      BY <1>16, <2>1, <3>2
    <3>3. CASE IsFollowed(t, v, w)
      BY <1>1, <1>5, <1>6, <1>11, <1>18, <1>19, <3>3 DEF IsFollowed
    <3> QED BY <3>1, <3>2, <3>3
  <2>2. \A v \in Popped(u), w \in C : Has(E, v, w, R) => w \in Popped(u)
    BY <1>3, <1>18 DEF TarjanEdges
  <2> QED BY <2>1, <2>2 DEF TarjanEdges
<1>21. TarjanFound(C, E, R, u)
  BY <1>3, <1>5, <1>18 DEF TarjanFound
<1>22. IsLeft(t, top.node, w1)
  BY <1>1, <1>4, <1>10 DEF IsLeft
<1>23. Has(E, top.node, w1, R)
  <2>1. w1 \in TargetsOf(E, top.node, R)
    BY <1>9, <1>10
  <2> QED BY <2>1, TargetsAre
<1>24. TarjanInv(C, E, R, u, {<<top.node, w1>>})
  BY <1>13, <1>14, <1>20, <1>21 DEF TarjanInv
<1> QED BY <1>2, <1>9, <1>15, <1>17, <1>22, <1>23, <1>24
\* The edge that is followed is no exception any more.
LEMMA FollowedKeeps ==
    ASSUME NEW C, NEW E, NEW R, NEW t, NEW v0, NEW w0, TarjanInv(C, E, R, t, {<<v0, w0>>}), IsFollowed(t, v0, w0)
    PROVE  TarjanInv(C, E, R, t, {})
<1>1. ASSUME NEW v \in Held(t.stack), NEW w \in C, Has(E, v, w, R)
      PROVE  IsLeft(t, v, w) \/ IsFollowed(t, v, w)
  <2>1. CASE <<v, w>> = <<v0, w0>>
    BY <2>1
  <2>2. CASE <<v, w>> # <<v0, w0>>
    BY <1>1, <2>2 DEF TarjanInv, TarjanEdges
  <2> QED BY <2>1, <2>2
<1>2. \A v \in Popped(t), w \in C : Has(E, v, w, R) => w \in Popped(t)
  BY DEF TarjanInv, TarjanEdges
<1> QED BY <1>1, <1>2 DEF TarjanInv, TarjanEdges

\* What lowering the number of a visit does to a state.
Lowers(t, u, node, number) ==
    /\ u = [order |-> t.order, low |-> u.low, stack |-> t.stack, work |-> t.work, found |-> t.found]
    /\ DOMAIN u.low = DOMAIN t.low
    /\ u.low[node] \in {t.low[node], number} /\ u.low[node] <= t.low[node] /\ u.low[node] <= number
    /\ \A x \in DOMAIN t.low : x # node => u.low[x] = t.low[x]

\* Lower changes the low of one transaction and nothing else.
LEMMA LowerIs ==
    ASSUME NEW C, NEW t, TarjanTypes(C, t), NEW node \in DOMAIN t.order, NEW number \in Nat
    PROVE  Lowers(t, Lower(t, node, number), node, number)
<1>1. t = [order |-> t.order, low |-> t.low, stack |-> t.stack, work |-> t.work, found |-> t.found]
  BY DEF TarjanTypes
<1>2. PICK u : u = Lower(t, node, number)
  OBVIOUS
<1>3. PICK least : least = Min({t.low[node], number})
  OBVIOUS
<1>4. u = [order |-> t.order, low |-> With(t.low, node, least), stack |-> t.stack, work |-> t.work, found |-> t.found]
  BY <1>1, <1>2, <1>3 DEF Lower
<1>5. u.low = With(t.low, node, least)
      /\ u = [order |-> t.order, low |-> u.low, stack |-> t.stack, work |-> t.work, found |-> t.found]
  BY <1>4
<1>6. t.low[node] \in Nat /\ node \in DOMAIN t.low
  BY DEF TarjanTypes
<1>7. least \in {t.low[node], number} /\ least <= t.low[node] /\ least <= number
  <2>1. {t.low[node], number} \in SUBSET Nat /\ {t.low[node], number} # {}
    BY <1>6
  <2> QED BY <1>3, <2>1, MinIs
<1>8. DOMAIN u.low = DOMAIN t.low /\ u.low[node] = least /\ \A x \in DOMAIN t.low : x # node => u.low[x] = t.low[x]
  BY <1>5, <1>6 DEF With
<1> QED BY <1>2, <1>5, <1>7, <1>8 DEF Lowers

\* A lower number keeps the invariant when it is one of the visits'.
LEMMA LowerKeeps ==
    ASSUME NEW C, NEW E, NEW R, NEW t, NEW X, TarjanInv(C, E, R, t, X),
           NEW at \in 1..Len(t.work), NEW number \in Nat, t.order[t.work[1].node] <= number,
           NEW u, Lowers(t, u, t.work[at].node, number)
    PROVE  /\ TarjanInv(C, E, R, u, X)
           /\ u.order = t.order /\ u.stack = t.stack /\ u.work = t.work /\ u.found = t.found
           /\ \A x \in DOMAIN t.order : u.low[x] <= t.low[x] /\ u.low[x] \in Nat
<1>1. PICK node : node = t.work[at].node
  OBVIOUS
<1>2. TarjanTypes(C, t) /\ TarjanWork(E, R, t) /\ TarjanEdges(C, E, R, t, X) /\ TarjanFound(C, E, R, t)
  BY DEF TarjanInv
<1>3. /\ u.order = t.order /\ u.stack = t.stack /\ u.work = t.work /\ u.found = t.found
      /\ u = [order |-> u.order, low |-> u.low, stack |-> u.stack, work |-> u.work, found |-> u.found]
  <2>1. PICK low : low = u.low
    OBVIOUS
  <2>2. u = [order |-> t.order, low |-> low, stack |-> t.stack, work |-> t.work, found |-> t.found]
    BY <2>1 DEF Lowers
  <2>3. u.order = t.order /\ u.stack = t.stack /\ u.work = t.work /\ u.found = t.found
    BY <2>2
  <2> QED BY <2>1, <2>2, <2>3
<1>4. /\ DOMAIN u.low = DOMAIN t.low
      /\ u.low[node] \in {t.low[node], number} /\ u.low[node] <= t.low[node] /\ u.low[node] <= number
      /\ \A x \in DOMAIN t.low : x # node => u.low[x] = t.low[x]
  BY <1>1 DEF Lowers
<1>5. /\ DOMAIN t.low = DOMAIN t.order /\ node \in DOMAIN t.order
      /\ \A x \in DOMAIN t.order : t.low[x] \in Nat /\ t.order[x] \in Nat
  BY <1>1, <1>2 DEF TarjanTypes, TarjanWork
<1>6. \A x \in DOMAIN t.order : u.low[x] <= t.low[x] /\ u.low[x] \in Nat
  BY <1>4, <1>5
<1>7. TarjanTypes(C, u)
  BY <1>2, <1>3, <1>4, <1>5, <1>6 DEF TarjanTypes
<1>8. \A k \in 1..Len(t.work) : t.work[k].node \in DOMAIN t.order
  BY <1>2 DEF TarjanTypes, TarjanWork
<1>9. TarjanWork(E, R, u)
  <2>1. ASSUME NEW k \in 1..Len(t.work)
        PROVE  /\ t.order[t.work[1].node] <= u.low[t.work[k].node]
               /\ u.low[t.work[k].node] <= t.order[t.work[k].node]
    <3>1. PICK x : x = t.work[k].node
      OBVIOUS
    <3>2. x \in DOMAIN t.order /\ t.order[t.work[1].node] <= t.low[x] /\ t.low[x] <= t.order[x]
      BY <1>2, <1>8, <2>1, <3>1 DEF TarjanWork
    <3>3. u.low[x] <= t.low[x] /\ u.low[x] \in Nat /\ t.low[x] \in Nat /\ t.order[x] \in Nat
      BY <1>5, <1>6, <3>2
    <3>4. u.low[x] = t.low[x] \/ u.low[x] = number
      BY <1>4, <1>5, <3>2
    <3>5. t.order[t.work[1].node] <= u.low[x]
      BY <3>2, <3>4
    <3>6. u.low[x] <= t.order[x]
      BY <3>2, <3>3
    <3> QED BY <3>1, <3>5, <3>6
  <2> QED BY <1>2, <1>3, <2>1 DEF TarjanWork
<1>10. Popped(u) = Popped(t)
  BY <1>3 DEF Popped
<1>11. TarjanEdges(C, E, R, u, X)
  <2>1. ASSUME NEW v \in Held(t.stack), NEW w \in C, Has(E, v, w, R), <<v, w>> \notin X
        PROVE  IsLeft(u, v, w) \/ IsFollowed(u, v, w)
    <3>1. IsLeft(t, v, w) \/ IsFollowed(t, v, w)
      BY <1>2, <2>1 DEF TarjanEdges
    <3>2. CASE IsLeft(t, v, w)
      BY <1>3, <3>2 DEF IsLeft
    <3>3. CASE w \in Popped(t)
      BY <1>10, <3>3 DEF IsFollowed
    <3>4. CASE w \notin Popped(t) /\ IsFollowed(t, v, w)
      <4>1. w \in Held(t.stack)
        BY <3>4 DEF IsFollowed
      <4>2. ASSUME NEW k \in 1..Len(t.work), Belongs(u, k, v) PROVE u.low[t.work[k].node] <= t.order[w]
        <5>1. Belongs(t, k, v)
          BY <1>3, <4>2 DEF Belongs
        <5>2. t.low[t.work[k].node] <= t.order[w]
          BY <3>4, <4>2, <5>1 DEF IsFollowed
        <5>3. w \in DOMAIN t.order
          BY <1>2, <4>1 DEF TarjanTypes
        <5>4. PICK x : x = t.work[k].node
          OBVIOUS
        <5>5. u.low[x] <= t.low[x] /\ u.low[x] \in Nat /\ t.low[x] \in Nat /\ t.order[w] \in Nat
          BY <1>5, <1>6, <1>8, <4>2, <5>3, <5>4
        <5>6. u.low[x] <= t.order[w]
          BY <5>2, <5>4, <5>5
        <5> QED BY <5>4, <5>6
      <4> QED BY <1>3, <4>1, <4>2 DEF IsFollowed
    <3> QED BY <3>1, <3>2, <3>3, <3>4
  <2>2. \A v \in Popped(t), w \in C : Has(E, v, w, R) => w \in Popped(t)
    BY <1>2 DEF TarjanEdges
  <2> QED BY <1>3, <1>10, <2>1, <2>2 DEF TarjanEdges
<1>12. TarjanFound(C, E, R, u)
  BY <1>2, <1>3, <1>10 DEF TarjanFound
<1> QED BY <1>3, <1>6, <1>7, <1>9, <1>11, <1>12 DEF TarjanInv
\* A turn leaves nothing to be followed again.
Grows(t, u) ==
    /\ DOMAIN t.order \subseteq DOMAIN u.order
    /\ \A v, w : v \in DOMAIN t.order /\ IsLeft(u, v, w) => IsLeft(t, v, w)

\* To enter a transaction takes nothing away from what was visited.
LEMMA EnterGrows ==
    ASSUME NEW t, NEW u, NEW n, n \notin DOMAIN t.order, NEW targets, Enters(t, u, n, targets), Listed(t.work)
    PROVE  Grows(t, u)
<1>1. DOMAIN u.order = DOMAIN t.order \cup {n}
  BY DEF Enters
<1>2. ASSUME NEW v \in DOMAIN t.order, NEW w, IsLeft(u, v, w) PROVE IsLeft(t, v, w)
  <2>1. PICK m : m = Len(t.work)
    OBVIOUS
  <2>2. /\ Len(u.work) = m + 1 /\ u.work[m + 1] = [node |-> n, targets |-> targets]
        /\ \A k \in 1..m : u.work[k] = t.work[k]
    BY <2>1 DEF Enters
  <2>3. m \in Nat
    BY <2>1, ListedFacts
  <2>4. PICK k \in 1..(m + 1) : u.work[k].node = v /\ w \in Held(u.work[k].targets)
    BY <1>2, <2>2 DEF IsLeft
  <2>5. u.work[m + 1].node = n
    BY <2>2
  <2>6. k # m + 1
    BY <2>4, <2>5
  <2>7. k \in 1..m
    BY <2>3, <2>6
  <2> QED BY <2>1, <2>2, <2>4, <2>7 DEF IsLeft
<1> QED BY <1>1, <1>2 DEF Grows

\* A turn enters or leaves a transaction, or follows an edge.
Moves(C, E, R, t, u) ==
    \/ DOMAIN u.order = DOMAIN t.order /\ Len(u.work) = Len(t.work) - 1
    \/ /\ DOMAIN u.order = DOMAIN t.order /\ Len(u.work) = Len(t.work)
       /\ \E v, w : Has(E, v, w, R) /\ v \in DOMAIN t.order /\ IsLeft(t, v, w) /\ ~IsLeft(u, v, w)
    \/ \E n \in C : /\ n \notin DOMAIN t.order /\ DOMAIN u.order = DOMAIN t.order \cup {n}
                    /\ Len(u.work) = Len(t.work) + 1

\* Following a target.
LEMMA FollowKeeps ==
    ASSUME NEW C, NEW E, NEW R, IsGraph(C, E), NEW t, TarjanInv(C, E, R, t, {}),
           t.work # <<>>, Last(t.work).targets # <<>>,
           NEW u, u = Follow(E, R, t)
    PROVE  TarjanInv(C, E, R, u, {}) /\ Grows(t, u) /\ Moves(C, E, R, t, u)
<1>1. PICK s : s = Taken(t)
  OBVIOUS
<1>2. PICK top : top = Last(t.work)
  OBVIOUS
<1>3. PICK target : target = Head(top.targets)
  OBVIOUS
<1>4. Takes(t, s) /\ Len(t.work) \in Nat \ {0} /\ top = t.work[Len(t.work)]
  BY <1>1, <1>2, TakenIs DEF TarjanInv
<1>5. /\ TarjanInv(C, E, R, s, {<<top.node, target>>})
      /\ \A v, w : IsLeft(s, v, w) => IsLeft(t, v, w)
      /\ IsLeft(t, top.node, target) /\ ~IsLeft(s, top.node, target)
      /\ top.node \in Held(t.stack) /\ Has(E, top.node, target, R)
  BY <1>2, <1>3, <1>4, TakenKeeps
<1>6. s.order = t.order /\ s.low = t.low /\ s.stack = t.stack /\ Len(s.work) = Len(t.work)
  <2>1. PICK work : work = s.work
    OBVIOUS
  <2>2. s = [order |-> t.order, low |-> t.low, stack |-> t.stack, work |-> work, found |-> t.found]
    BY <1>4, <2>1 DEF Takes
  <2>3. s.order = t.order /\ s.low = t.low /\ s.stack = t.stack
    BY <2>2
  <2>4. Len(s.work) = Len(t.work)
    BY <1>4 DEF Takes
  <2> QED BY <2>3, <2>4
<1>7. top.node \in DOMAIN t.order
  BY <1>5 DEF TarjanInv, TarjanTypes
<1>8. target \in C
  BY <1>5, TargetsAre
<1>9. u = IF target \notin DOMAIN t.order THEN Enter(E, R, s, target)
          ELSE IF target \in Held(t.stack) THEN Lower(s, top.node, t.order[target]) ELSE s
  BY <1>1, <1>2, <1>3 DEF Follow, Taken, Visited, IsOpen, Held, Range
<1>10. CASE target \notin DOMAIN t.order
  <2>1. u = Enter(E, R, s, target)
    BY <1>9, <1>10
  <2>2. TarjanInv(C, E, R, u, {})
    BY <1>5, <1>6, <1>8, <1>10, <2>1, EnterKeeps
  <2>3. Enters(s, u, target, Adjacent(E, target, R))
    BY <1>5, <1>6, <1>10, <2>1, EnterIs DEF TarjanInv
  <2>4. Grows(s, u)
    BY <1>5, <1>6, <1>10, <2>3, EnterGrows DEF TarjanInv, TarjanWork
  <2>5. Grows(t, u) /\ ~IsLeft(u, top.node, target)
    BY <1>5, <1>6, <1>7, <2>4 DEF Grows
  <2>6. DOMAIN u.order = DOMAIN t.order \cup {target} /\ Len(u.work) = Len(t.work) + 1
    BY <1>6, <2>3 DEF Enters
  <2>7. Moves(C, E, R, t, u)
    BY <1>8, <1>10, <2>6 DEF Moves
  <2> QED BY <2>2, <2>5, <2>7
<1>11. CASE target \in DOMAIN t.order /\ target \in Held(t.stack)
  <2>1. u = Lower(s, top.node, t.order[target])
    BY <1>9, <1>11
  <2>2. PICK m : m = Len(t.work)
    OBVIOUS
  <2>3. s.work[m] = [node |-> top.node, targets |-> Tail(top.targets)] /\ m \in 1..Len(s.work)
    BY <1>4, <1>6, <2>2 DEF Takes
  <2>4. s.work[m].node = top.node
    BY <2>3
  <2>5. t.order[target] \in Nat
    BY <1>11 DEF TarjanInv, TarjanTypes
  <2>6. Lowers(s, u, s.work[m].node, t.order[target])
    BY <1>5, <1>6, <1>7, <2>1, <2>4, <2>5, LowerIs DEF TarjanInv
  <2>7. s.order[s.work[1].node] <= t.order[target]
    BY <1>5, <1>6, <1>11 DEF TarjanInv, TarjanWork
  <2>8. /\ TarjanInv(C, E, R, u, {<<top.node, target>>})
        /\ u.order = s.order /\ u.stack = s.stack /\ u.work = s.work
    BY <1>5, <2>3, <2>5, <2>6, <2>7, LowerKeeps
  <2>9. ASSUME NEW k \in 1..Len(u.work), Belongs(u, k, top.node)
        PROVE  u.low[u.work[k].node] <= u.order[target]
    <3>1. k = m
      <4> SUFFICES ASSUME k # m PROVE FALSE
        OBVIOUS
      <4>1. m \in 1..Len(u.work) /\ k < m
        BY <1>4, <1>6, <2>2, <2>3, <2>8, <2>9
      <4>2. u.order[top.node] < u.order[u.work[m].node]
        BY <2>9, <4>1 DEF Belongs
      <4>3. u.order[top.node] < u.order[top.node]
        BY <2>4, <2>8, <4>2
      <4>4. u.order[top.node] \in Nat
        BY <1>6, <1>7, <2>8 DEF TarjanInv, TarjanTypes
      <4> QED BY <4>3, <4>4
    <3>2. u.low[top.node] <= t.order[target]
      BY <2>4, <2>6 DEF Lowers
    <3> QED BY <1>6, <2>4, <2>8, <3>1, <3>2
  <2>10. IsFollowed(u, top.node, target)
    BY <1>6, <1>11, <2>8, <2>9 DEF IsFollowed
  <2>11. TarjanInv(C, E, R, u, {})
    BY <2>8, <2>10, FollowedKeeps
  <2>12. \A v, w : IsLeft(u, v, w) <=> IsLeft(s, v, w)
    BY <2>8 DEF IsLeft
  <2>13. Grows(t, u) /\ ~IsLeft(u, top.node, target)
    BY <1>5, <1>6, <2>8, <2>12 DEF Grows
  <2>14. DOMAIN u.order = DOMAIN t.order /\ Len(u.work) = Len(t.work)
    BY <1>6, <2>8
  <2>15. Moves(C, E, R, t, u)
    BY <1>5, <1>7, <2>13, <2>14 DEF Moves
  <2> QED BY <2>11, <2>13, <2>15
<1>12. CASE target \in DOMAIN t.order /\ target \notin Held(t.stack)
  <2>1. u = s
    BY <1>9, <1>12
  <2>2. IsFollowed(u, top.node, target)
    BY <1>6, <1>12, <2>1 DEF IsFollowed, Popped
  <2>3. TarjanInv(C, E, R, u, {})
    BY <1>5, <2>1, <2>2, FollowedKeeps
  <2>4. Grows(t, u)
    BY <1>5, <1>6, <2>1 DEF Grows
  <2>5. Moves(C, E, R, t, u)
    BY <1>5, <1>6, <1>7, <2>1 DEF Moves
  <2> QED BY <2>3, <2>4, <2>5
<1> QED BY <1>10, <1>11, <1>12

\* The positions of a list of two or more.
LEMMA TwoOrMore ==
    ASSUME NEW m \in Nat, m # 0, m - 1 # 0
    PROVE  /\ 1 \in 1..(m - 1) /\ m - 1 \in 1..(m - 1) /\ m - 1 \in 1..m /\ m - 1 < m
           /\ \A k \in 1..(m - 1) : k \in 1..m /\ (k = m - 1 \/ (k < m - 1 /\ k < m))
  OBVIOUS

\* A state without the last visit.
Below(s) == [order |-> s.order, low |-> s.low, stack |-> s.stack, work |-> Front(s.work), found |-> s.found]

\* Leaving a transaction first gives its number to the visit below.
Passes(t, s, m, node) ==
    /\ Leave(t) = Close(Below(s), node)
    /\ s.order = t.order /\ s.stack = t.stack /\ s.work = t.work /\ s.found = t.found
    /\ m - 1 # 0 => s.low[t.work[m - 1].node] <= s.low[node]

\* A visit that has no target left is taken off work, and its low is passed
\* on to the visit below it.
LEMMA LeaveIs ==
    ASSUME NEW C, NEW E, NEW R, NEW t, TarjanInv(C, E, R, t, {}), NEW m, m = Len(t.work), m # 0,
           NEW node, node = t.work[m].node
    PROVE  \E s : TarjanInv(C, E, R, s, {}) /\ Passes(t, s, m, node)
<1>1. TarjanTypes(C, t) /\ TarjanWork(E, R, t)
  BY DEF TarjanInv
<1>2. t = [order |-> t.order, low |-> t.low, stack |-> t.stack, work |-> t.work, found |-> t.found]
  BY <1>1 DEF TarjanTypes
<1>3. Listed(t.work) /\ t.work # <<>>
  BY <1>1, ListedFacts DEF TarjanWork
<1>4. PICK front : front = Front(t.work)
  OBVIOUS
<1>5. /\ Listed(front) /\ Len(front) = m - 1 /\ \A i \in 1..(m - 1) : front[i] = t.work[i]
      /\ Last(t.work) = t.work[m] /\ m \in Nat \ {0}
  BY <1>3, <1>4, ListedFront
<1>6. Last(t.work).node = node
  BY <1>5
<1>7. front = <<>> <=> m - 1 = 0
  BY <1>5, ListedFacts
<1>8. PICK left : left = [t EXCEPT !.work = front]
  OBVIOUS
<1>9. left = [order |-> t.order, low |-> t.low, stack |-> t.stack, work |-> front, found |-> t.found]
  BY <1>2, <1>8
<1>10. Leave(t) = Close(IF front = <<>> THEN left ELSE Lower(left, Last(front).node, t.low[node]), node)
  BY <1>4, <1>6, <1>8, Zenon DEF Leave
<1>11. m \in 1..m /\ node \in Held(t.stack) /\ node \in DOMAIN t.order /\ t.low[node] \in Nat
       /\ t.order[t.work[1].node] <= t.low[node]
  <2>1. m \in 1..m
    BY <1>5
  <2>2. node \in Held(t.stack) /\ t.order[t.work[1].node] <= t.low[node]
    BY <1>1, <2>1 DEF TarjanWork
  <2> QED BY <1>1, <2>1, <2>2 DEF TarjanTypes
<1>12. CASE m - 1 = 0
  <2>1. Below(t) = left
    BY <1>4, <1>9 DEF Below
  <2>2. Leave(t) = Close(Below(t), node)
    BY <1>7, <1>10, <1>12, <2>1
  <2> QED BY <1>12, <2>2 DEF Passes
<1>13. CASE m - 1 # 0
  <2>1. PICK p : p = t.work[m - 1].node
    OBVIOUS
  <2>2. m - 1 \in 1..m /\ m - 1 \in 1..(m - 1) /\ m - 1 < m
    <3>1. m \in Nat /\ m # 0
      BY <1>5
    <3> QED BY <1>13, <3>1, TwoOrMore
  <2>3. p \in DOMAIN t.order /\ t.order[p] < t.order[node]
    BY <1>1, <1>11, <2>1, <2>2 DEF TarjanTypes, TarjanWork
  <2>4. p # node
    BY <1>1, <1>11, <2>3 DEF TarjanTypes
  <2>5. PICK number : number = t.low[node]
    OBVIOUS
  <2>6. PICK s : s = Lower(t, p, number)
    OBVIOUS
  <2>7. Lowers(t, s, p, number)
    BY <1>1, <1>11, <2>3, <2>5, <2>6, LowerIs
  <2>8. /\ TarjanInv(C, E, R, s, {})
        /\ s.order = t.order /\ s.stack = t.stack /\ s.work = t.work /\ s.found = t.found
    BY <1>11, <2>1, <2>2, <2>5, <2>7, LowerKeeps
  <2>9. s.low[p] <= s.low[node]
    <3>1. s.low[p] <= number
      BY <2>7 DEF Lowers
    <3>2. s.low[node] = t.low[node]
      BY <1>1, <1>11, <2>4, <2>7 DEF Lowers, TarjanTypes
    <3> QED BY <2>5, <3>1, <3>2
  <2>10. Last(front).node = p
    <3>1. front # <<>>
      BY <1>7, <1>13
    <3>2. Last(front) = front[m - 1]
      BY <1>5, <3>1, ListedFront
    <3>3. front[m - 1] = t.work[m - 1]
      BY <1>5, <2>2
    <3> QED BY <2>1, <3>2, <3>3
  <2>11. PICK least : least = Min({t.low[p], number})
    OBVIOUS
  <2>12. s = [order |-> t.order, low |-> With(t.low, p, least), stack |-> t.stack, work |-> t.work, found |-> t.found]
    BY <1>2, <2>6, <2>11 DEF Lower
  <2>13. Lower(left, p, number) =
             [order |-> t.order, low |-> With(t.low, p, least), stack |-> t.stack, work |-> front, found |-> t.found]
    <3>1. left.low = t.low
      BY <1>9
    <3> QED BY <1>9, <2>11, <3>1 DEF Lower
  <2>14. Below(s) = Lower(left, p, number)
    BY <1>4, <2>12, <2>13 DEF Below
  <2>15. Leave(t) = Close(Below(s), node)
    BY <1>7, <1>10, <1>13, <2>5, <2>10, <2>14
  <2> QED BY <2>1, <2>8, <2>9, <2>15 DEF Passes
<1> QED BY <1>12, <1>13

\* The transactions of the stack that are left without their visit.
LEMMA BelowFacts ==
    ASSUME NEW C, NEW E, NEW R, NEW s, TarjanInv(C, E, R, s, {}), NEW m, m = Len(s.work), m # 0,
           s.work[m].targets = <<>>, NEW u, u = Below(s)
    PROVE  /\ u.order = s.order /\ u.low = s.low /\ u.stack = s.stack /\ u.found = s.found
           /\ u = [order |-> u.order, low |-> u.low, stack |-> u.stack, work |-> u.work, found |-> u.found]
           /\ Listed(u.work) /\ Len(u.work) = m - 1 /\ \A k \in 1..(m - 1) : u.work[k] = s.work[k]
           /\ m \in Nat \ {0} /\ \A k \in 1..m : k = m \/ k \in 1..(m - 1)
           /\ \A v, w : IsLeft(u, v, w) <=> IsLeft(s, v, w)
<1>1. PICK front : front = Front(s.work)
  OBVIOUS
<1>2. u = [order |-> s.order, low |-> s.low, stack |-> s.stack, work |-> front, found |-> s.found]
  BY <1>1 DEF Below
<1>3. /\ u.order = s.order /\ u.low = s.low /\ u.stack = s.stack /\ u.found = s.found /\ u.work = front
      /\ u = [order |-> u.order, low |-> u.low, stack |-> u.stack, work |-> u.work, found |-> u.found]
  BY <1>2
<1>4. Listed(s.work) /\ s.work # <<>>
  BY ListedFacts DEF TarjanInv, TarjanWork
<1>5. Listed(front) /\ Len(front) = m - 1 /\ m \in Nat \ {0} /\ \A i \in 1..(m - 1) : front[i] = s.work[i]
  BY <1>1, <1>4, ListedFront
<1>6. \A k \in 1..m : k = m \/ k \in 1..(m - 1)
  BY <1>5
<1>7. Held(s.work[m].targets) = {}
  BY OneState
<1>8. \A v, w : IsLeft(s, v, w) => IsLeft(u, v, w)
  <2> SUFFICES ASSUME NEW v, NEW w, IsLeft(s, v, w) PROVE IsLeft(u, v, w)
    OBVIOUS
  <2>1. PICK k \in 1..m : s.work[k].node = v /\ w \in Held(s.work[k].targets)
    BY DEF IsLeft
  <2>2. k \in 1..(m - 1)
    BY <1>6, <1>7, <2>1
  <2> QED BY <1>3, <1>5, <2>1, <2>2 DEF IsLeft
<1>9. \A v, w : IsLeft(u, v, w) => IsLeft(s, v, w)
  <2> SUFFICES ASSUME NEW v, NEW w, IsLeft(u, v, w) PROVE IsLeft(s, v, w)
    OBVIOUS
  <2>1. PICK k \in 1..(m - 1) : u.work[k].node = v /\ w \in Held(u.work[k].targets)
    BY <1>3, <1>5 DEF IsLeft
  <2>2. k \in 1..m /\ u.work[k] = s.work[k]
    BY <1>3, <1>5, <2>1
  <2> QED BY <2>1, <2>2 DEF IsLeft
<1> QED BY <1>3, <1>5, <1>6, <1>8, <1>9

\* A transaction that is no root stays on the stack.
LEMMA BelowKeeps ==
    ASSUME NEW C, NEW E, NEW R, NEW s, TarjanInv(C, E, R, s, {}), NEW m, m = Len(s.work), m # 0,
           s.work[m].targets = <<>>, NEW node, node = s.work[m].node, s.low[node] # s.order[node],
           m - 1 # 0 => s.low[s.work[m - 1].node] <= s.low[node],
           NEW u, u = Below(s)
    PROVE  TarjanInv(C, E, R, u, {})
<1>1. TarjanTypes(C, s) /\ TarjanWork(E, R, s) /\ TarjanEdges(C, E, R, s, {}) /\ TarjanFound(C, E, R, s)
  BY DEF TarjanInv
<1>2. /\ u.order = s.order /\ u.low = s.low /\ u.stack = s.stack /\ u.found = s.found
      /\ u = [order |-> u.order, low |-> u.low, stack |-> u.stack, work |-> u.work, found |-> u.found]
      /\ Listed(u.work) /\ Len(u.work) = m - 1 /\ \A k \in 1..(m - 1) : u.work[k] = s.work[k]
      /\ m \in Nat \ {0} /\ \A k \in 1..m : k = m \/ k \in 1..(m - 1)
      /\ \A v, w : IsLeft(u, v, w) <=> IsLeft(s, v, w)
  BY BelowFacts
<1>3. /\ m \in 1..m /\ node \in Held(s.stack) /\ node \in DOMAIN s.order
      /\ s.low[node] \in Nat /\ s.order[node] \in Nat /\ s.low[node] < s.order[node]
      /\ s.order[s.work[1].node] <= s.low[node]
  <2>1. m \in 1..m
    BY <1>2
  <2>2. node \in Held(s.stack) /\ s.order[s.work[1].node] <= s.low[node] /\ s.low[node] <= s.order[node]
    BY <1>1, <2>1 DEF TarjanWork
  <2>3. node \in DOMAIN s.order /\ s.low[node] \in Nat /\ s.order[node] \in Nat
    BY <1>1, <2>2 DEF TarjanTypes
  <2> QED BY <2>1, <2>2, <2>3
<1>4. m - 1 # 0
  <2> SUFFICES ASSUME m - 1 = 0 PROVE FALSE
    OBVIOUS
  <2>1. m = 1
    BY <1>2
  <2>2. s.order[node] <= s.low[node]
    BY <1>3, <2>1
  <2> QED BY <1>3, <2>2
<1>5. 1 \in 1..(m - 1) /\ m - 1 \in 1..(m - 1) /\ m - 1 \in 1..m /\ m - 1 < m
      /\ \A k \in 1..(m - 1) : k \in 1..m /\ (k = m - 1 \/ (k < m - 1 /\ k < m))
  <2>1. m \in Nat /\ m # 0
    BY <1>2
  <2> QED BY <1>4, <2>1, TwoOrMore
<1>6. TarjanTypes(C, u)
  BY <1>1, <1>2 DEF TarjanTypes
<1>7. TarjanWork(E, R, u)
  <2>1. u.work[1] = s.work[1]
    BY <1>2, <1>5
  <2>2. ASSUME NEW k \in 1..(m - 1)
        PROVE  /\ u.work[k] = [node |-> u.work[k].node, targets |-> u.work[k].targets]
               /\ u.work[k].node \in Held(u.stack)
               /\ Listed(u.work[k].targets) /\ IsInjective(u.work[k].targets)
               /\ Held(u.work[k].targets) \subseteq TargetsOf(E, u.work[k].node, R)
               /\ u.order[u.work[1].node] <= u.low[u.work[k].node]
               /\ u.low[u.work[k].node] <= u.order[u.work[k].node]
    <3>1. k \in 1..Len(s.work) /\ u.work[k] = s.work[k]
      BY <1>2, <1>5, <2>2
    <3> QED BY <1>1, <1>2, <2>1, <3>1 DEF TarjanWork
  <2>3. ASSUME NEW k \in 1..(m - 1), NEW l \in 1..(m - 1), k < l
        PROVE  u.order[u.work[k].node] < u.order[u.work[l].node]
    <3>1. k \in 1..m /\ l \in 1..m /\ u.work[k] = s.work[k] /\ u.work[l] = s.work[l]
      BY <1>2, <1>5, <2>3
    <3> QED BY <1>1, <1>2, <2>3, <3>1 DEF TarjanWork
  <2>4. \A n \in Held(u.stack) : u.order[u.work[1].node] <= u.order[n]
    BY <1>1, <1>2, <2>1 DEF TarjanWork
  <2> QED BY <1>2, <1>4, <2>2, <2>3, <2>4 DEF TarjanWork
<1>8. Popped(u) = Popped(s)
  BY <1>2 DEF Popped
<1>9. TarjanEdges(C, E, R, u, {})
  <2>1. ASSUME NEW v \in Held(s.stack), NEW w \in C, Has(E, v, w, R)
        PROVE  IsLeft(u, v, w) \/ IsFollowed(u, v, w)
    <3>1. IsLeft(s, v, w) \/ IsFollowed(s, v, w)
      BY <1>1, <2>1 DEF TarjanEdges
    <3>2. CASE IsLeft(s, v, w)
      BY <1>2, <3>2
    <3>3. CASE w \in Popped(s)
      BY <1>8, <3>3 DEF IsFollowed
    <3>4. CASE w \notin Popped(s) /\ IsFollowed(s, v, w)
      <4>1. w \in Held(s.stack) /\ \A k \in 1..m : Belongs(s, k, v) => s.low[s.work[k].node] <= s.order[w]
        BY <3>4 DEF IsFollowed
      <4>2. ASSUME NEW k \in 1..(m - 1), Belongs(u, k, v) PROVE s.low[s.work[k].node] <= s.order[w]
        <5>1. k \in 1..m /\ u.work[k] = s.work[k]
          BY <1>2, <1>5, <4>2
        <5>2. s.order[s.work[k].node] <= s.order[v]
          BY <1>2, <4>2, <5>1 DEF Belongs
        <5>3. \A l \in 1..(m - 1) : k < l => s.order[v] < s.order[s.work[l].node]
          BY <1>2, <4>2 DEF Belongs
        <5>4. s.order[v] \in Nat /\ s.order[w] \in Nat
          BY <1>1, <2>1, <4>1 DEF TarjanTypes
        <5>5. CASE s.order[v] < s.order[node]
          <6>1. \A l \in 1..m : k < l => s.order[v] < s.order[s.work[l].node]
            BY <1>2, <5>3, <5>5
          <6>2. Belongs(s, k, v)
            BY <5>2, <6>1 DEF Belongs
          <6> QED BY <4>1, <5>1, <6>2
        <5>6. CASE ~(s.order[v] < s.order[node])
          <6>1. s.order[node] <= s.order[v]
            BY <1>3, <5>4, <5>6
          <6>2. Belongs(s, m, v)
            <7>1. \A l \in 1..m : ~(m < l)
              BY <1>2
            <7> QED BY <6>1, <7>1 DEF Belongs
          <6>3. s.low[node] <= s.order[w]
            BY <1>3, <4>1, <6>2
          <6>4. k = m - 1
            <7> SUFFICES ASSUME k < m - 1 PROVE FALSE
              BY <1>5, <4>2
            <7>1. s.order[v] < s.order[s.work[m - 1].node]
              BY <1>5, <5>3
            <7>2. s.order[s.work[m - 1].node] < s.order[node]
              BY <1>1, <1>3, <1>5 DEF TarjanWork
            <7>3. s.order[s.work[m - 1].node] \in Nat
              BY <1>1, <1>5 DEF TarjanTypes, TarjanWork
            <7> QED BY <1>3, <5>4, <6>1, <7>1, <7>2, <7>3
          <6>5. s.low[s.work[k].node] <= s.low[node]
            BY <1>4, <6>4
          <6>6. s.low[s.work[k].node] \in Nat
            BY <1>1, <5>1 DEF TarjanTypes, TarjanWork
          <6> QED BY <1>3, <5>4, <6>3, <6>5, <6>6
        <5> QED BY <5>5, <5>6
      <4>3. ASSUME NEW k \in 1..(m - 1), Belongs(u, k, v) PROVE u.low[u.work[k].node] <= u.order[w]
        <5>1. u.work[k] = s.work[k]
          BY <1>2, <4>3
        <5> QED BY <1>2, <4>2, <4>3, <5>1
      <4> QED BY <1>2, <4>1, <4>3 DEF IsFollowed
    <3> QED BY <3>1, <3>2, <3>3, <3>4
  <2>2. \A v \in Popped(s), w \in C : Has(E, v, w, R) => w \in Popped(s)
    BY <1>1 DEF TarjanEdges
  <2> QED BY <1>2, <1>8, <2>1, <2>2 DEF TarjanEdges
<1>10. TarjanFound(C, E, R, u)
  BY <1>1, <1>2, <1>8 DEF TarjanFound
<1> QED BY <1>6, <1>7, <1>9, <1>10 DEF TarjanInv
\* A part of a list.
LEMMA ListedPart ==
    ASSUME NEW s, Listed(s), NEW i \in Nat, NEW j \in Nat, i # 0, j <= Len(s), i <= j + 1
    PROVE  /\ Listed(SubSeq(s, i, j)) /\ Len(SubSeq(s, i, j)) = (j - i) + 1
           /\ \A k \in 1..((j - i) + 1) : SubSeq(s, i, j)[k] = s[(i + k) - 1]
<1>1. s \in Seq(Held(s)) /\ Len(s) \in Nat /\ DOMAIN s = 1..Len(s)
  BY ListedFacts DEF Listed
<1>2. PICK t : t = SubSeq(s, i, j)
  OBVIOUS
<1>3. t = [k \in 1..((j - i) + 1) |-> s[(i + k) - 1]]
  BY <1>1, <1>2
<1>4. (j - i) + 1 \in Nat
  OBVIOUS
<1>5. Listed(t) /\ Len(t) = (j - i) + 1
  BY <1>3, <1>4, ListedFunction
<1>6. \A k \in 1..((j - i) + 1) : t[k] = s[(i + k) - 1]
  BY <1>3
<1> QED BY <1>2, <1>5, <1>6

\* What closing a root does: it takes what was entered after it from the stack.
Closes(s, u, node, component) ==
    /\ u.order = s.order /\ u.low = s.low /\ u.work = s.work
    /\ u.found = (IF Cardinality(component) > 1 THEN s.found \cup {component} ELSE s.found)
    /\ u = [order |-> u.order, low |-> u.low, stack |-> u.stack, work |-> u.work, found |-> u.found]
    /\ component = {x \in Held(s.stack) : s.order[node] <= s.order[x]}
    /\ Listed(u.stack) /\ Held(u.stack) = {x \in Held(s.stack) : s.order[x] < s.order[node]}
    /\ \A i, j \in 1..Len(u.stack) : i < j => s.order[u.stack[i]] < s.order[u.stack[j]]

\* Close pops the part of the stack above a root, as one component.
LEMMA CloseIs ==
    ASSUME NEW C, NEW s, TarjanTypes(C, s), NEW node \in Held(s.stack), s.low[node] = s.order[node]
    PROVE  \E component : Closes(s, Close(s, node), node, component)
<1>1. s = [order |-> s.order, low |-> s.low, stack |-> s.stack, work |-> s.work, found |-> s.found]
  BY DEF TarjanTypes
<1>2. PICK n : n = Len(s.stack)
  OBVIOUS
<1>3. n \in Nat /\ DOMAIN s.stack = 1..n /\ Listed(s.stack) /\ \A i \in 1..n : s.stack[i] \in Held(s.stack)
  BY <1>2, ListedFacts DEF TarjanTypes
<1>4. PICK at : at = CHOOSE i \in DOMAIN s.stack : s.stack[i] = node
  OBVIOUS
<1>5. at \in 1..n /\ s.stack[at] = node
  <2>1. \E i \in DOMAIN s.stack : s.stack[i] = node
    BY <1>2, <1>3, ListedFacts
  <2> QED BY <1>3, <1>4, <2>1
<1>6. PICK component : component = {s.stack[i] : i \in at..n}
  OBVIOUS
<1>7. PICK stack : stack = SubSeq(s.stack, 1, at - 1)
  OBVIOUS
<1>8. PICK found : found = IF Cardinality(component) > 1 THEN s.found \cup {component} ELSE s.found
  OBVIOUS
<1>9. PICK u : u = Close(s, node)
  OBVIOUS
<1>10. u = [order |-> s.order, low |-> s.low, stack |-> stack, work |-> s.work, found |-> found]
  <2>1. u = [s EXCEPT !.stack = stack, !.found = found]
    <3>1. u = [s EXCEPT !.stack = SubSeq(@, 1, at - 1),
                        !.found = IF Cardinality(component) > 1 THEN @ \cup {component} ELSE @]
      BY <1>2, <1>4, <1>6, <1>9, Zenon DEF Close
    <3> QED BY <1>7, <1>8, <3>1, Zenon
  <2> QED BY <1>1, <2>1
<1>11. /\ u.order = s.order /\ u.low = s.low /\ u.work = s.work /\ u.stack = stack /\ u.found = found
       /\ u = [order |-> u.order, low |-> u.low, stack |-> u.stack, work |-> u.work, found |-> u.found]
  BY <1>10
<1>12. Listed(stack) /\ Len(stack) = at - 1 /\ \A k \in 1..(at - 1) : stack[k] = s.stack[k]
  <2>1. PICK last : last = at - 1
    OBVIOUS
  <2>2. 1 \in Nat \ {0} /\ last \in Nat /\ last <= n /\ 1 <= last + 1 /\ (last - 1) + 1 = last
    BY <1>3, <1>5, <2>1
  <2>3. /\ Listed(stack) /\ Len(stack) = (last - 1) + 1
        /\ \A k \in 1..((last - 1) + 1) : stack[k] = s.stack[(1 + k) - 1]
    <3>1. stack = SubSeq(s.stack, 1, last)
      BY <1>7, <2>1
    <3> QED BY <1>2, <1>3, <2>2, <3>1, ListedPart
  <2>4. \A k \in 1..last : (1 + k) - 1 = k
    BY <2>2
  <2> QED BY <2>1, <2>2, <2>3, <2>4
<1>13. \A i, j \in 1..n : i < j => s.order[s.stack[i]] < s.order[s.stack[j]]
  BY <1>2 DEF TarjanTypes
<1>14. \A i \in 1..n : s.order[s.stack[i]] \in Nat
  BY <1>3 DEF TarjanTypes
<1>15. ASSUME NEW i \in 1..n
       PROVE  /\ i < at => s.order[s.stack[i]] < s.order[node]
              /\ ~(i < at) => s.order[node] <= s.order[s.stack[i]]
  <2>1. CASE i < at
    BY <1>5, <1>13, <2>1
  <2>2. CASE i = at
    BY <1>5, <1>14, <2>2
  <2>3. CASE at < i
    BY <1>5, <1>13, <1>14, <2>3
  <2> QED BY <1>5, <2>1, <2>2, <2>3
<1>16. component = {x \in Held(s.stack) : s.order[node] <= s.order[x]}
  <2>1. ASSUME NEW x \in component PROVE x \in Held(s.stack) /\ s.order[node] <= s.order[x]
    <3>1. PICK i \in at..n : s.stack[i] = x
      BY <1>6, <2>1
    <3>2. i \in 1..n /\ ~(i < at)
      BY <1>5, <3>1
    <3> QED BY <1>3, <1>15, <3>1, <3>2
  <2>2. ASSUME NEW x \in Held(s.stack), s.order[node] <= s.order[x] PROVE x \in component
    <3>1. PICK i \in 1..n : s.stack[i] = x
      BY <1>2, <1>3, ListedFacts
    <3>2. s.order[node] \in Nat /\ s.order[x] \in Nat
      BY <1>5, <1>14, <3>1
    <3>3. ~(i < at)
      BY <1>15, <2>2, <3>1, <3>2
    <3>4. i \in at..n
      BY <1>5, <3>3
    <3> QED BY <1>6, <3>1, <3>4
  <2> QED BY <2>1, <2>2
<1>17. Held(stack) = {x \in Held(s.stack) : s.order[x] < s.order[node]}
  <2>1. ASSUME NEW x \in Held(stack) PROVE x \in Held(s.stack) /\ s.order[x] < s.order[node]
    <3>1. PICK i \in 1..(at - 1) : stack[i] = x
      BY <1>12, <2>1, ListedFacts
    <3>2. i \in 1..n /\ i < at /\ s.stack[i] = x
      BY <1>3, <1>5, <1>12, <3>1
    <3> QED BY <1>3, <1>15, <3>2
  <2>2. ASSUME NEW x \in Held(s.stack), s.order[x] < s.order[node] PROVE x \in Held(stack)
    <3>1. PICK i \in 1..n : s.stack[i] = x
      BY <1>2, <1>3, ListedFacts
    <3>2. s.order[node] \in Nat /\ s.order[x] \in Nat
      BY <1>5, <1>14, <3>1
    <3>3. i < at
      BY <1>15, <2>2, <3>1, <3>2
    <3>4. i \in 1..(at - 1)
      BY <1>5, <3>3
    <3> QED BY <1>12, <3>1, <3>4, ListedFacts
  <2> QED BY <2>1, <2>2
<1>18. ASSUME NEW i \in 1..Len(stack), NEW j \in 1..Len(stack), i < j
       PROVE  s.order[stack[i]] < s.order[stack[j]]
  <2>1. i \in 1..n /\ j \in 1..n /\ stack[i] = s.stack[i] /\ stack[j] = s.stack[j]
    BY <1>3, <1>5, <1>12, <1>18
  <2> QED BY <1>13, <1>18, <2>1
<1>19. Closes(s, u, node, component)
  BY <1>8, <1>11, <1>12, <1>16, <1>17, <1>18 DEF Closes
<1> QED BY <1>9, <1>19

\* A list holds finitely many.
LEMMA ListIsFinite ==
    ASSUME NEW s, Listed(s)
    PROVE  IsFiniteSet(Held(s))
<1>1. PICK n : n = Len(s)
  OBVIOUS
<1>2. n \in Nat /\ DOMAIN s = 1..n
  BY <1>1, ListedFacts
<1>3. IsFiniteSet(1..n)
  BY <1>2, FS_Interval
<1>4. s \in [1..n -> Held(s)]
  BY <1>1, <1>2 DEF Listed
<1>5. \A x \in Held(s) : \E i \in 1..n : s[i] = x
  BY <1>1, ListedFacts
<1>6. s \in Surjection(1..n, Held(s))
  BY <1>4, <1>5 DEF Surjection
<1> QED BY <1>3, <1>6, FS_Surjection

\* A root that is closed takes a whole component from the stack.
LEMMA CloseKeeps ==
    ASSUME NEW C, NEW E, NEW R, NEW s, TarjanInv(C, E, R, s, {}), NEW m, m = Len(s.work), m # 0,
           s.work[m].targets = <<>>, NEW node, node = s.work[m].node, s.low[node] = s.order[node],
           NEW b, b = Below(s), NEW u, NEW component, Closes(b, u, node, component)
    PROVE  TarjanInv(C, E, R, u, {})
<1>1. TarjanTypes(C, s) /\ TarjanWork(E, R, s) /\ TarjanEdges(C, E, R, s, {}) /\ TarjanFound(C, E, R, s)
  BY DEF TarjanInv
<1>2. /\ b.order = s.order /\ b.low = s.low /\ b.stack = s.stack /\ b.found = s.found
      /\ Listed(b.work) /\ Len(b.work) = m - 1 /\ \A k \in 1..(m - 1) : b.work[k] = s.work[k]
      /\ m \in Nat \ {0} /\ \A k \in 1..m : k = m \/ k \in 1..(m - 1)
      /\ \A v, w : IsLeft(b, v, w) <=> IsLeft(s, v, w)
  BY BelowFacts
<1>3. PICK S : S = Held(s.stack)
  OBVIOUS
<1>4. /\ u.order = s.order /\ u.low = s.low /\ u.work = b.work
      /\ u.found = (IF Cardinality(component) > 1 THEN s.found \cup {component} ELSE s.found)
      /\ component = {x \in S : s.order[node] <= s.order[x]}
      /\ Listed(u.stack) /\ Held(u.stack) = {x \in S : s.order[x] < s.order[node]}
      /\ \A i, j \in 1..Len(u.stack) : i < j => s.order[u.stack[i]] < s.order[u.stack[j]]
  BY <1>2, <1>3 DEF Closes
<1>5. PICK below : below = Held(u.stack)
  OBVIOUS
<1>6. /\ m \in 1..m /\ node \in S /\ S \subseteq DOMAIN s.order
      /\ \A x \in DOMAIN s.order : s.order[x] \in Nat /\ s.low[x] \in Nat
      /\ DOMAIN s.order \subseteq C
  <2>1. m \in 1..m
    BY <1>2
  <2>2. node \in S
    BY <1>1, <1>3, <2>1, Zenon DEF TarjanWork
  <2> QED BY <1>1, <1>3, <2>1, <2>2 DEF TarjanTypes
<1>7. \A x \in S : x \in component <=> x \notin below
  <2>1. \A x \in S : s.order[node] <= s.order[x] <=> ~(s.order[x] < s.order[node])
    BY <1>6
  <2> QED BY <1>4, <1>5, <2>1, Zenon
<1>8. below \subseteq S /\ component \subseteq S /\ node \in component /\ below \cap component = {}
  <2>1. below \subseteq S /\ component \subseteq S
    BY <1>4, <1>5
  <2>2. s.order[node] <= s.order[node]
    BY <1>6
  <2>3. node \in component
    BY <1>4, <1>6, <2>2
  <2> QED BY <1>7, <2>1, <2>3
<1>9. Popped(u) = Popped(s) \cup component
  <2>1. Popped(u) = DOMAIN s.order \ below /\ Popped(s) = DOMAIN s.order \ S
    BY <1>3, <1>4, <1>5 DEF Popped
  <2> QED BY <1>6, <1>7, <1>8, <2>1
<1>10. \A k \in 1..(m - 1) : /\ k \in 1..m /\ k < m /\ u.work[k] = s.work[k]
                             /\ s.work[k].node \in below /\ s.order[s.work[k].node] < s.order[node]
  <2> SUFFICES ASSUME NEW k \in 1..(m - 1)
               PROVE  /\ k \in 1..m /\ k < m /\ u.work[k] = s.work[k]
                      /\ s.work[k].node \in below /\ s.order[s.work[k].node] < s.order[node]
    OBVIOUS
  <2>1. m \in Nat
    BY <1>2
  <2>2. k \in 1..m /\ k < m
    BY <2>1
  <2>3. u.work[k] = s.work[k]
    BY <1>2, <1>4
  <2>4. s.work[k].node \in S /\ s.order[s.work[k].node] < s.order[node]
    BY <1>1, <1>3, <1>6, <2>2, Zenon DEF TarjanWork
  <2> QED BY <1>4, <1>5, <2>2, <2>3, <2>4, Zenon
<1>11. TarjanTypes(C, u)
  <2>1. \A c \in u.found : c \subseteq C
    BY <1>1, <1>4, <1>6, <1>8, Zenon DEF TarjanTypes
  <2>2. Held(u.stack) \subseteq DOMAIN u.order
    BY <1>4, <1>5, <1>6, <1>8, Zenon
  <2>3. u = [order |-> u.order, low |-> u.low, stack |-> u.stack, work |-> u.work, found |-> u.found]
    BY Zenon DEF Closes
  <2> QED BY <1>1, <1>4, <2>1, <2>2, <2>3, Zenon DEF TarjanTypes
<1>12. Listed(u.work) /\ Len(u.work) = m - 1
  BY <1>2, <1>4
<1>13. TarjanWork(E, R, u)
  <2>1. ASSUME NEW k \in 1..(m - 1)
        PROVE  /\ u.work[k] = [node |-> u.work[k].node, targets |-> u.work[k].targets]
               /\ u.work[k].node \in Held(u.stack)
               /\ Listed(u.work[k].targets) /\ IsInjective(u.work[k].targets)
               /\ Held(u.work[k].targets) \subseteq TargetsOf(E, u.work[k].node, R)
               /\ u.order[u.work[1].node] <= u.low[u.work[k].node]
               /\ u.low[u.work[k].node] <= u.order[u.work[k].node]
    <3>1. k \in 1..Len(s.work) /\ u.work[k] = s.work[k] /\ s.work[k].node \in below
      BY <1>10, <2>1
    <3>2. u.work[1] = s.work[1]
      <4>1. 1 \in 1..(m - 1)
        BY <1>2, <2>1
      <4> QED BY <1>10, <4>1
    <3> QED BY <1>1, <1>4, <1>5, <3>1, <3>2, Zenon DEF TarjanWork
  <2>2. \A k, l \in 1..(m - 1) : k < l => u.order[u.work[k].node] < u.order[u.work[l].node]
    <3>1. \A k, l \in 1..m : k < l => s.order[s.work[k].node] < s.order[s.work[l].node]
      BY <1>1 DEF TarjanWork
    <3> QED BY <1>4, <1>10, <3>1, Zenon
  <2>3. ASSUME NEW n \in below PROVE m - 1 # 0 /\ u.order[u.work[1].node] <= u.order[n]
    <3>1. s.order[s.work[1].node] <= s.order[n] /\ s.order[n] < s.order[node] /\ n \in S
      BY <1>1, <1>3, <1>4, <1>5, <1>8, <2>3, Zenon DEF TarjanWork
    <3>2. m - 1 # 0
      <4> SUFFICES ASSUME m - 1 = 0 PROVE FALSE
        OBVIOUS
      <4>1. m \in Nat
        BY <1>2
      <4>2. m = 1
        BY <4>1
      <4>3. s.order[node] <= s.order[n]
        BY <3>1, <4>2
      <4>4. s.order[node] \in Nat /\ s.order[n] \in Nat
        BY <1>6, <3>1
      <4> QED BY <3>1, <4>3, <4>4
    <3>3. 1 \in 1..(m - 1)
      <4>1. m \in Nat /\ m # 0
        BY <1>2
      <4> QED BY <3>2, <4>1, TwoOrMore
    <3>4. u.work[1] = s.work[1]
      BY <1>10, <3>3
    <3> QED BY <1>4, <3>1, <3>2, <3>4
  <2> QED BY <1>5, <1>12, <2>1, <2>2, <2>3, Zenon DEF TarjanWork
<1>14. \A v, w : IsLeft(u, v, w) <=> IsLeft(s, v, w)
  <2>1. \A v, w : IsLeft(u, v, w) <=> IsLeft(b, v, w)
    BY <1>4 DEF IsLeft
  <2> QED BY <1>2, <2>1
<1>15. TarjanEdges(C, E, R, u, {})
  <2>1. ASSUME NEW v \in below, NEW w \in C, Has(E, v, w, R)
        PROVE  IsLeft(u, v, w) \/ IsFollowed(u, v, w)
    <3>1. IsLeft(s, v, w) \/ IsFollowed(s, v, w)
      BY <1>1, <1>3, <1>8, <2>1 DEF TarjanEdges
    <3>2. CASE IsLeft(s, v, w)
      BY <1>14, <3>2
    <3>3. CASE w \in Popped(u)
      BY <3>3 DEF IsFollowed
    <3>4. CASE w \notin Popped(u) /\ IsFollowed(s, v, w)
      <4>1. w \in S /\ \A k \in 1..m : Belongs(s, k, v) => s.low[s.work[k].node] <= s.order[w]
        BY <1>3, <1>9, <3>4 DEF IsFollowed
      <4>2. w \in below
        BY <1>7, <1>9, <3>4, <4>1
      <4>3. ASSUME NEW k \in 1..(m - 1), Belongs(u, k, v) PROVE u.low[u.work[k].node] <= u.order[w]
        <5>1. k \in 1..m /\ u.work[k] = s.work[k]
          BY <1>10, <4>3
        <5>2. s.order[s.work[k].node] <= s.order[v]
          BY <1>4, <4>3, <5>1 DEF Belongs
        <5>3. \A l \in 1..(m - 1) : k < l => s.order[v] < s.order[s.work[l].node]
          BY <1>4, <1>10, <1>12, <4>3, Zenon DEF Belongs
        <5>4. s.order[v] < s.order[node]
          BY <1>4, <1>5, <2>1, Zenon
        <5>5. \A l \in 1..m : k < l => s.order[v] < s.order[s.work[l].node]
          BY <1>2, <5>3, <5>4
        <5>6. Belongs(s, k, v)
          BY <5>2, <5>5 DEF Belongs
        <5> QED BY <1>4, <4>1, <5>1, <5>6
      <4> QED BY <1>5, <1>12, <4>2, <4>3 DEF IsFollowed
    <3> QED BY <3>1, <3>2, <3>3, <3>4
  <2>2. ASSUME NEW v \in Popped(u), NEW w \in C, Has(E, v, w, R) PROVE w \in Popped(u)
    <3>1. CASE v \in Popped(s)
      BY <1>1, <1>9, <2>2, <3>1 DEF TarjanEdges
    <3>2. CASE v \in component
      <4>1. s.order[node] <= s.order[v] /\ v \in S
        BY <1>4, <3>2
      <4>2. ~IsLeft(s, v, w)
        <5> SUFFICES ASSUME IsLeft(s, v, w) PROVE FALSE
          OBVIOUS
        <5>1. PICK k \in 1..m : s.work[k].node = v /\ w \in Held(s.work[k].targets)
          BY DEF IsLeft
        <5>2. Held(s.work[m].targets) = {}
          BY OneState
        <5>3. k \in 1..(m - 1)
          BY <1>2, <5>1, <5>2
        <5>4. v \in below
          BY <1>10, <5>1, <5>3
        <5> QED BY <1>8, <3>2, <5>4
      <4>3. IsFollowed(s, v, w)
        BY <1>1, <1>3, <2>2, <4>1, <4>2 DEF TarjanEdges
      <4>4. CASE w \in Popped(s)
        BY <1>9, <4>4
      <4>5. CASE w \notin Popped(s)
        <5>1. w \in S /\ \A k \in 1..m : Belongs(s, k, v) => s.low[s.work[k].node] <= s.order[w]
          BY <1>3, <4>3, <4>5 DEF IsFollowed
        <5>2. Belongs(s, m, v)
          <6>1. \A l \in 1..m : ~(m < l)
            BY <1>2
          <6> QED BY <4>1, <6>1 DEF Belongs
        <5>3. s.order[node] <= s.order[w]
          BY <1>6, <5>1, <5>2
        <5> QED BY <1>4, <1>9, <5>1, <5>3, Zenon
      <4> QED BY <4>4, <4>5
    <3> QED BY <1>9, <2>2, <3>1, <3>2
  <2> QED BY <1>5, <2>1, <2>2 DEF TarjanEdges
<1>16. TarjanFound(C, E, R, u)
  <2> SUFFICES ASSUME NEW K \in SUBSET C, Knit(K, E, R), K \cap Popped(u) # {}
               PROVE  K \subseteq Popped(u) /\ InOne(u.found, K)
    BY DEF TarjanFound
  <2>1. K \subseteq Popped(u)
    <3> SUFFICES ASSUME ~(K \subseteq Popped(u)) PROVE FALSE
      OBVIOUS
    <3>1. K \cap Popped(u) \in SUBSET K /\ K \cap Popped(u) # K
      OBVIOUS
    <3>2. PICK v \in K \cap Popped(u), w \in K \ (K \cap Popped(u)) : Has(E, v, w, R)
      BY <3>1, Zenon DEF Knit
    <3>3. w \in Popped(u)
      BY <1>15, <3>2 DEF TarjanEdges
    <3> QED BY <3>2, <3>3
  <2>2. s.found \subseteq u.found
    BY <1>4, Zenon
  <2>3. CASE K \cap Popped(s) # {}
    <3>1. InOne(s.found, K)
      BY <1>1, <2>3 DEF TarjanFound
    <3> QED BY <2>1, <2>2, <3>1 DEF InOne
  <2>4. CASE K \cap Popped(s) = {}
    <3>1. K \subseteq component
      BY <1>9, <2>1, <2>4
    <3>2. CASE Cardinality(component) > 1
      BY <1>4, <2>1, <3>1, <3>2, Zenon DEF InOne
    <3>3. CASE ~(Cardinality(component) > 1)
      <4>1. IsFiniteSet(component)
        <5>1. IsFiniteSet(S)
          BY <1>1, <1>3, ListIsFinite DEF TarjanTypes
        <5> QED BY <1>8, <5>1, FS_Subset
      <4>2. IsFiniteSet({node}) /\ Cardinality({node}) = 1
        BY FS_Singleton
      <4>3. Cardinality(component) \in Nat
        BY <4>1, FS_CardinalityType
      <4>4. {node} \subseteq component
        BY <1>8
      <4>5. Cardinality({node}) <= Cardinality(component)
        BY <4>1, <4>4, FS_Subset
      <4>6. Cardinality(component) = Cardinality({node})
        BY <3>3, <4>2, <4>3, <4>5
      <4>7. component = {node}
        BY <4>1, <4>4, <4>6, FS_Subset
      <4>8. K = {node}
        BY <3>1, <4>7
      <4> QED BY <2>1, <4>8 DEF InOne
    <3> QED BY <3>2, <3>3
  <2> QED BY <2>3, <2>4
<1> QED BY <1>11, <1>13, <1>15, <1>16 DEF TarjanInv
\* Leaving a transaction.
LEMMA LeaveKeeps ==
    ASSUME NEW C, NEW E, NEW R, NEW t, TarjanInv(C, E, R, t, {}), t.work # <<>>, Last(t.work).targets = <<>>,
           NEW u, u = Leave(t)
    PROVE  /\ TarjanInv(C, E, R, u, {}) /\ Grows(t, u)
           /\ DOMAIN u.order = DOMAIN t.order /\ Len(u.work) = Len(t.work) - 1
<1>1. PICK m : m = Len(t.work)
  OBVIOUS
<1>2. Listed(t.work) /\ m # 0 /\ Last(t.work) = t.work[m]
  BY <1>1, ListedFacts, ListedFront DEF TarjanInv, TarjanWork
<1>3. PICK node : node = t.work[m].node
  OBVIOUS
<1>4. PICK s : TarjanInv(C, E, R, s, {}) /\ Passes(t, s, m, node)
  BY <1>1, <1>2, <1>3, LeaveIs
<1>5. /\ u = Close(Below(s), node)
      /\ s.order = t.order /\ s.stack = t.stack /\ s.work = t.work /\ s.found = t.found
      /\ m - 1 # 0 => s.low[t.work[m - 1].node] <= s.low[node]
  BY <1>4 DEF Passes
<1>6. m = Len(s.work) /\ s.work[m].targets = <<>> /\ node = s.work[m].node
      /\ (m - 1 # 0 => s.low[s.work[m - 1].node] <= s.low[node])
  BY <1>1, <1>2, <1>3, <1>4, <1>5
<1>7. PICK b : b = Below(s)
  OBVIOUS
<1>8. /\ b.order = s.order /\ b.low = s.low /\ b.stack = s.stack /\ b.found = s.found
      /\ b = [order |-> b.order, low |-> b.low, stack |-> b.stack, work |-> b.work, found |-> b.found]
      /\ Len(b.work) = m - 1 /\ \A v, w : IsLeft(b, v, w) <=> IsLeft(s, v, w)
  BY <1>2, <1>4, <1>5, <1>6, <1>7, BelowFacts
<1>9. \A v, w : IsLeft(s, v, w) <=> IsLeft(t, v, w)
  BY <1>4, <1>5 DEF IsLeft
<1>10. CASE s.low[node] # s.order[node]
  <2>1. u = b
    <3>1. b.low[node] # b.order[node]
      BY <1>8, <1>10
    <3> QED BY <1>4, <1>5, <1>7, <3>1 DEF Close
  <2>2. TarjanInv(C, E, R, u, {})
    BY <1>2, <1>4, <1>5, <1>6, <1>7, <1>10, <2>1, BelowKeeps
  <2>3. DOMAIN u.order = DOMAIN t.order /\ Len(u.work) = m - 1
    BY <1>4, <1>5, <1>8, <2>1
  <2>4. Grows(t, u)
    BY <1>8, <1>9, <2>1, <2>3 DEF Grows
  <2> QED BY <1>1, <2>2, <2>3, <2>4
<1>11. CASE s.low[node] = s.order[node]
  <2>1. TarjanTypes(C, b)
    BY <1>4, <1>5, <1>8 DEF TarjanInv, TarjanTypes
  <2>2. m \in 1..m
    <3>1. m \in Nat
      BY <1>1, <1>2, ListedFacts
    <3> QED BY <1>2, <3>1
  <2>3. node \in Held(b.stack)
    BY <1>4, <1>5, <1>6, <1>8, <2>2 DEF TarjanInv, TarjanWork
  <2>4. b.low[node] = b.order[node]
    BY <1>8, <1>11
  <2>5. PICK component : Closes(b, u, node, component)
    BY <1>4, <1>5, <1>7, <2>1, <2>3, <2>4, CloseIs
  <2>6. TarjanInv(C, E, R, u, {})
    BY <1>2, <1>4, <1>5, <1>6, <1>7, <1>11, <2>5, CloseKeeps
  <2>7. u.order = b.order /\ u.work = b.work
    BY <2>5 DEF Closes
  <2>8. \A v, w : IsLeft(u, v, w) <=> IsLeft(b, v, w)
    BY <2>7 DEF IsLeft
  <2>9. DOMAIN u.order = DOMAIN t.order /\ Len(u.work) = m - 1
    BY <1>4, <1>5, <1>8, <2>7
  <2>10. Grows(t, u)
    BY <1>8, <1>9, <2>8, <2>9 DEF Grows
  <2> QED BY <1>1, <2>6, <2>9, <2>10
<1> QED BY <1>10, <1>11

\* Whether nothing is left to do.
IsDone(C, t) == t.work = <<>> /\ DOMAIN t.order = C

\* A turn keeps the invariant until there is nothing left to do.
LEMMA TurnKeeps ==
    ASSUME NEW C, NEW E, NEW R, IsGraph(C, E), NEW t, TarjanInv(C, E, R, t, {}), NEW u, u = Turn(C, E, R, t)
    PROVE  /\ TarjanInv(C, E, R, u, {})
           /\ (IsDone(C, t) /\ u = t) \/ (Grows(t, u) /\ Moves(C, E, R, t, u))
<1>1. PICK new : new = Unvisited(C, t)
  OBVIOUS
<1>2. u = IF t.work # <<>> THEN IF Last(t.work).targets = <<>> THEN Leave(t) ELSE Follow(E, R, t)
          ELSE IF new # {} THEN Enter(E, R, t, Min(new)) ELSE t
  BY <1>1 DEF Turn
<1>3. CASE t.work # <<>> /\ Last(t.work).targets = <<>>
  <2>1. u = Leave(t)
    BY <1>2, <1>3
  <2> QED BY <1>3, <2>1, LeaveKeeps DEF Moves
<1>4. CASE t.work # <<>> /\ Last(t.work).targets # <<>>
  <2>1. u = Follow(E, R, t)
    BY <1>2, <1>4
  <2> QED BY <1>4, <2>1, FollowKeeps
<1>5. CASE t.work = <<>> /\ new # {}
  <2>1. PICK n : n = Min(new)
    OBVIOUS
  <2>2. u = Enter(E, R, t, n)
    BY <1>2, <1>5, <2>1
  <2>3. n \in new
    <3>1. new \in SUBSET Nat
      BY <1>1 DEF Unvisited, IsGraph
    <3> QED BY <1>5, <2>1, <3>1, MinIs
  <2>4. n \in C /\ n \notin DOMAIN t.order
    BY <1>1, <2>3 DEF Unvisited, Visited
  <2>5. TarjanInv(C, E, R, u, {})
    BY <2>2, <2>4, EnterKeeps
  <2>6. Enters(t, u, n, Adjacent(E, n, R))
    BY <2>2, <2>4, EnterIs DEF TarjanInv
  <2>7. Grows(t, u)
    BY <2>4, <2>6, EnterGrows DEF TarjanInv, TarjanWork
  <2>8. DOMAIN u.order = DOMAIN t.order \cup {n} /\ Len(u.work) = Len(t.work) + 1
    BY <2>6 DEF Enters
  <2> QED BY <2>4, <2>5, <2>7, <2>8 DEF Moves
<1>6. CASE t.work = <<>> /\ new = {}
  <2>1. u = t
    BY <1>2, <1>6
  <2>2. DOMAIN t.order = C
    <3>1. DOMAIN t.order \subseteq C
      BY DEF TarjanInv, TarjanTypes
    <3> QED BY <1>1, <1>6, <3>1 DEF Unvisited, Visited
  <2> QED BY <1>6, <2>1, <2>2 DEF IsDone
<1> QED BY <1>3, <1>4, <1>5, <1>6

\* The pairs of a graph are no more than its edges.
LEMMA PairsAre ==
    ASSUME NEW C, NEW E, IsGraph(C, E), NEW R
    PROVE  /\ \A v, w : <<v, w>> \in Pairs(E, R) <=> Has(E, v, w, R)
           /\ \A p \in Pairs(E, R) : p = <<p[1], p[2]>> /\ Has(E, p[1], p[2], R)
           /\ IsFiniteSet(Pairs(E, R)) /\ Cardinality(Pairs(E, R)) <= Cardinality(E)
<1>1. PICK P : P = Pairs(E, R)
  OBVIOUS
<1>2. PICK D : D = {e \in E : e.relation \in R}
  OBVIOUS
<1>3. P = {<<e.from, e.to>> : e \in D}
  BY <1>1, <1>2 DEF Pairs
<1>4. ASSUME NEW p \in P PROVE p = <<p[1], p[2]>> /\ Has(E, p[1], p[2], R)
  <2>1. PICK e \in D : p = <<e.from, e.to>>
    BY <1>3
  <2>2. p[1] = e.from /\ p[2] = e.to
    BY <2>1
  <2>3. e = [from |-> e.from, to |-> e.to, relation |-> e.relation] /\ e \in E /\ e.relation \in R
    BY <1>2 DEF IsGraph
  <2> QED BY <2>1, <2>2, <2>3 DEF Has
<1>5. ASSUME NEW v, NEW w, Has(E, v, w, R) PROVE <<v, w>> \in P
  <2>1. PICK r \in R : [from |-> v, to |-> w, relation |-> r] \in E
    BY <1>5 DEF Has
  <2>2. PICK e \in E : e = [from |-> v, to |-> w, relation |-> r]
    BY <2>1
  <2>3. e.from = v /\ e.to = w /\ e.relation = r
    BY <2>2
  <2>4. e \in D
    BY <1>2, <2>3
  <2> QED BY <1>3, <2>3, <2>4
<1>6. \A v, w : <<v, w>> \in P => Has(E, v, w, R)
  <2> SUFFICES ASSUME NEW v, NEW w, <<v, w>> \in P PROVE Has(E, v, w, R)
    OBVIOUS
  <2>1. PICK p \in P : p = <<v, w>>
    OBVIOUS
  <2>2. p[1] = v /\ p[2] = w
    BY <2>1
  <2> QED BY <1>4, <2>2
<1>7. IsFiniteSet(D) /\ Cardinality(D) <= Cardinality(E) /\ IsFiniteSet(E)
  <2>1. IsFiniteSet(E) /\ D \subseteq E
    BY <1>2 DEF IsGraph
  <2> QED BY <2>1, FS_Subset
<1>8. PICK f : f = [e \in D |-> <<e.from, e.to>>]
  OBVIOUS
<1>9. f \in Surjection(D, P)
  BY <1>3, <1>8 DEF Surjection
<1>10. IsFiniteSet(P) /\ Cardinality(P) <= Cardinality(D)
  BY <1>7, <1>9, FS_Surjection
<1>11. Cardinality(P) \in Nat /\ Cardinality(D) \in Nat /\ Cardinality(E) \in Nat
  BY <1>7, <1>10, FS_CardinalityType
<1> QED BY <1>1, <1>4, <1>5, <1>6, <1>7, <1>10, <1>11
\* How far the turns have come: the edges that were followed, and twice the
\* transactions that were entered without those that were not left yet.
Gone(E, R, t) == {p \in Pairs(E, R) : p[1] \in DOMAIN t.order /\ ~IsLeft(t, p[1], p[2])}

\* What was done so far.
Count(E, R, t) == (2 * Cardinality(DOMAIN t.order) + Cardinality(Gone(E, R, t))) - Len(t.work)

\* The count of what was done: twice the transactions that were entered, with
\* the edges that were followed, less the visits that are open.
LEMMA CountIs ==
    ASSUME NEW C, NEW E, NEW R, IsGraph(C, E), NEW t, TarjanInv(C, E, R, t, {})
    PROVE  /\ IsFiniteSet(DOMAIN t.order) /\ IsFiniteSet(Gone(E, R, t))
           /\ Cardinality(DOMAIN t.order) \in Nat /\ Cardinality(Gone(E, R, t)) \in Nat /\ Len(t.work) \in Nat
           /\ Cardinality(DOMAIN t.order) <= Cardinality(C) /\ Cardinality(Gone(E, R, t)) <= Cardinality(E)
           /\ Cardinality(C) \in Nat /\ Cardinality(E) \in Nat
           /\ Cardinality(DOMAIN t.order) = Cardinality(C) => DOMAIN t.order = C
           /\ Count(E, R, t) \in Int
<1>1. IsFiniteSet(C) /\ IsFiniteSet(E) /\ DOMAIN t.order \subseteq C
  BY DEF IsGraph, TarjanInv, TarjanTypes
<1>2. /\ IsFiniteSet(DOMAIN t.order) /\ Cardinality(DOMAIN t.order) <= Cardinality(C)
      /\ Cardinality(DOMAIN t.order) = Cardinality(C) => DOMAIN t.order = C
  BY <1>1, FS_Subset
<1>3. PICK P : P = Pairs(E, R)
  OBVIOUS
<1>4. IsFiniteSet(P) /\ Cardinality(P) <= Cardinality(E)
  BY <1>3, PairsAre
<1>5. PICK G : G = Gone(E, R, t)
  OBVIOUS
<1>6. G \subseteq P
  BY <1>3, <1>5 DEF Gone
<1>7. IsFiniteSet(G) /\ Cardinality(G) <= Cardinality(P)
  BY <1>4, <1>6, FS_Subset
<1>8. /\ Cardinality(C) \in Nat /\ Cardinality(E) \in Nat /\ Cardinality(DOMAIN t.order) \in Nat
      /\ Cardinality(P) \in Nat /\ Cardinality(G) \in Nat
  BY <1>1, <1>2, <1>4, <1>7, FS_CardinalityType
<1>9. Len(t.work) \in Nat
  BY ListedFacts DEF TarjanInv, TarjanWork
<1>10. Cardinality(G) <= Cardinality(E)
  BY <1>1, <1>4, <1>7, <1>8
<1>11. Count(E, R, t) \in Int
  <2>1. ASSUME NEW x \in Nat, NEW y \in Nat, NEW z \in Nat PROVE (2 * x + y) - z \in Int
    OBVIOUS
  <2> QED BY <1>5, <1>8, <1>9, <2>1 DEF Count
<1> QED BY <1>1, <1>2, <1>5, <1>7, <1>8, <1>9, <1>10, <1>11

\* Each turn adds to the count, so that the turns of _components() are enough.
LEMMA CountGrows ==
    ASSUME NEW C, NEW E, NEW R, IsGraph(C, E), NEW t, TarjanInv(C, E, R, t, {}),
           NEW u, TarjanInv(C, E, R, u, {}), Grows(t, u), Moves(C, E, R, t, u)
    PROVE  Count(E, R, t) + 1 <= Count(E, R, u)
<1>1. PICK G : G = Gone(E, R, t)
  OBVIOUS
<1>2. PICK H : H = Gone(E, R, u)
  OBVIOUS
<1>3. PICK V : V = DOMAIN t.order
  OBVIOUS
<1>4. PICK W : W = DOMAIN u.order
  OBVIOUS
<1>5. G \subseteq H
  <2>1. \A p \in G : p \in Pairs(E, R) /\ p[1] \in DOMAIN t.order /\ ~IsLeft(t, p[1], p[2])
    BY <1>1 DEF Gone
  <2>2. \A p \in G : p[1] \in DOMAIN u.order /\ ~IsLeft(u, p[1], p[2])
    BY <2>1 DEF Grows
  <2> QED BY <1>2, <2>1, <2>2 DEF Gone
<1>6. /\ IsFiniteSet(V) /\ IsFiniteSet(G) /\ Cardinality(V) \in Nat /\ Cardinality(G) \in Nat /\ Len(t.work) \in Nat
  BY <1>1, <1>3, CountIs
<1>7. /\ IsFiniteSet(W) /\ IsFiniteSet(H) /\ Cardinality(W) \in Nat /\ Cardinality(H) \in Nat /\ Len(u.work) \in Nat
  BY <1>2, <1>4, CountIs
<1>8. Cardinality(G) <= Cardinality(H) /\ (G # H => Cardinality(G) # Cardinality(H))
  BY <1>5, <1>7, FS_Subset
<1>9. /\ Count(E, R, t) = (2 * Cardinality(V) + Cardinality(G)) - Len(t.work)
      /\ Count(E, R, u) = (2 * Cardinality(W) + Cardinality(H)) - Len(u.work)
  BY <1>1, <1>2, <1>3, <1>4 DEF Count
<1>10. CASE W = V /\ Len(u.work) = Len(t.work) - 1
  <2>1. PICK x, g, h, l : x = Cardinality(V) /\ g = Cardinality(G) /\ h = Cardinality(H) /\ l = Len(t.work)
    OBVIOUS
  <2>2. Cardinality(W) = x /\ Len(u.work) = l - 1
    BY <1>10, <2>1
  <2>3. x \in Nat /\ g \in Nat /\ h \in Nat /\ l \in Nat /\ g <= h
    BY <1>6, <1>7, <1>8, <2>1
  <2>4. Count(E, R, t) = (2 * x + g) - l /\ Count(E, R, u) = (2 * x + h) - (l - 1)
    BY <1>9, <2>1, <2>2
  <2>5. ((2 * x + g) - l) + 1 <= (2 * x + h) - (l - 1)
    BY <2>3
  <2> QED BY <2>4, <2>5
<1>11. CASE /\ W = V /\ Len(u.work) = Len(t.work)
            /\ \E v, w : Has(E, v, w, R) /\ v \in V /\ IsLeft(t, v, w) /\ ~IsLeft(u, v, w)
  <2>1. PICK v, w : Has(E, v, w, R) /\ v \in V /\ IsLeft(t, v, w) /\ ~IsLeft(u, v, w)
    BY <1>11
  <2>2. PICK p : p = <<v, w>>
    OBVIOUS
  <2>3. p \in Pairs(E, R) /\ p[1] = v /\ p[2] = w
    BY <2>1, <2>2, PairsAre
  <2>4. p \in H
    BY <1>2, <1>4, <1>11, <2>1, <2>3 DEF Gone
  <2>5. p \notin G
    BY <1>1, <2>1, <2>3 DEF Gone
  <2>6. G # H
    BY <2>4, <2>5
  <2> QED BY <1>6, <1>7, <1>8, <1>9, <1>11, <2>6
<1>12. CASE \E n \in C : n \notin V /\ W = V \cup {n} /\ Len(u.work) = Len(t.work) + 1
  <2>1. PICK n \in C : n \notin V /\ W = V \cup {n} /\ Len(u.work) = Len(t.work) + 1
    BY <1>12
  <2>2. Cardinality(W) = Cardinality(V) + 1
    BY <1>6, <2>1, FS_AddElement
  <2> QED BY <1>6, <1>7, <1>8, <1>9, <2>1, <2>2
<1> QED BY <1>3, <1>4, <1>10, <1>11, <1>12 DEF Moves

\* The components hold every knit set of two or more transactions.
THEOREM ComponentsHold ==
    ASSUME NEW C, NEW E, NEW R, IsGraph(C, E)
    PROVE  /\ \A c \in Components(C, E, R) : c \subseteq C
           /\ \A K \in SUBSET C :
                  (Knit(K, E, R) /\ \E a, b : a \in K /\ b \in K /\ a # b) =>
                      \E c \in Components(C, E, R) : K \subseteq c
<1>1. PICK n : n = 2 * Cardinality(C) + Cardinality(E)
  OBVIOUS
<1>2. Cardinality(C) \in Nat /\ Cardinality(E) \in Nat /\ n \in Nat
  <2>1. Cardinality(C) \in Nat /\ Cardinality(E) \in Nat
    BY FS_CardinalityType DEF IsGraph
  <2> QED BY <1>1, <2>1
<1>3. PICK f : Turns(f, C, E, R, n) /\ Components(C, E, R) = f[n].found
  <2>1. \E f : FoundBy(f, C, E, R, n)
    BY <1>1, <1>2, ComponentsAre
  <2> QED BY <2>1 DEF FoundBy
<1>4. f[0] = NothingVisited /\ \A k \in 0..(n - 1) : f[k + 1] = Turn(C, E, R, f[k])
  BY <1>2, <1>3, TurnStep
<1> DEFINE Good(k) == TarjanInv(C, E, R, f[k], {}) /\ (IsDone(C, f[k]) \/ k <= Count(E, R, f[k]))
           P == {k \in 0..n : Good(k)}
<1>5. 0 \in P
  <2>1. TarjanInv(C, E, R, f[0], {})
    BY <1>4, NothingKeeps
  <2>2. 0 <= Count(E, R, f[0])
    <3>1. Len(f[0].work) = 0
      BY <1>4 DEF NothingVisited
    <3>2. Cardinality(DOMAIN f[0].order) \in Nat /\ Cardinality(Gone(E, R, f[0])) \in Nat
      BY <2>1, CountIs
    <3> QED BY <3>1, <3>2 DEF Count
  <2>3. 0 \in 0..n
    BY <1>2
  <2> QED BY <2>1, <2>2, <2>3
<1>6. ASSUME NEW k \in 0..(n - 1), k \in P PROVE k + 1 \in P
  <2>1. PICK t : t = f[k]
    OBVIOUS
  <2>2. PICK u : u = f[k + 1]
    OBVIOUS
  <2>3. k \in Nat /\ k + 1 \in 0..n
    BY <1>2
  <2>4. TarjanInv(C, E, R, t, {}) /\ (IsDone(C, t) \/ k <= Count(E, R, t)) /\ u = Turn(C, E, R, t)
    BY <1>4, <1>6, <2>1, <2>2
  <2>5. TarjanInv(C, E, R, u, {}) /\ ((IsDone(C, t) /\ u = t) \/ (Grows(t, u) /\ Moves(C, E, R, t, u)))
    BY <2>4, TurnKeeps
  <2>6. CASE IsDone(C, t) /\ u = t
    BY <2>2, <2>3, <2>5, <2>6
  <2>7. CASE Grows(t, u) /\ Moves(C, E, R, t, u)
    <3>1. Count(E, R, t) + 1 <= Count(E, R, u)
      BY <2>4, <2>5, <2>7, CountGrows
    <3>2. Count(E, R, t) \in Int /\ Count(E, R, u) \in Int
      BY <2>4, <2>5, CountIs
    <3>3. CASE IsDone(C, t)
      \* Every transaction is entered and every edge followed: there is no move.
      <4>1. t.work = <<>> /\ DOMAIN t.order = C /\ Len(t.work) = 0
        BY <3>3 DEF IsDone
      <4>2. Held(t.stack) = {}
        BY <2>4, <4>1 DEF TarjanInv, TarjanWork
      <4>3. Len(u.work) \in Nat
        BY <2>5, CountIs
      <4>4. \A v, w : ~IsLeft(t, v, w)
        BY <4>1 DEF IsLeft
      <4>5. FALSE
        BY <2>7, <4>1, <4>3, <4>4 DEF Moves
      <4> QED BY <4>5
    <3>4. CASE k <= Count(E, R, t)
      <4>1. k + 1 <= Count(E, R, u)
        BY <2>3, <3>1, <3>2, <3>4
      <4> QED BY <2>2, <2>3, <2>5, <4>1
    <3> QED BY <2>4, <3>3, <3>4
  <2> QED BY <2>5, <2>6, <2>7
<1> HIDE DEF P
<1>7. n \in P
  <2>1. \A k \in 0..n : k \in P
    BY <1>2, <1>5, <1>6, NumbersIn
  <2>2. n \in 0..n
    BY <1>2
  <2> QED BY <2>1, <2>2
<1>8. PICK t : t = f[n]
  OBVIOUS
<1>9. TarjanInv(C, E, R, t, {}) /\ (IsDone(C, t) \/ n <= Count(E, R, t))
  BY <1>7, <1>8 DEF P
<1>10. IsDone(C, t)
  <2>1. SUFFICES ASSUME n <= Count(E, R, t) PROVE IsDone(C, t)
    BY <1>9
  <2>2. PICK x : x = Cardinality(DOMAIN t.order)
    OBVIOUS
  <2>3. PICK y : y = Cardinality(Gone(E, R, t))
    OBVIOUS
  <2>4. PICK z : z = Len(t.work)
    OBVIOUS
  <2>5. x \in Nat /\ y \in Nat /\ z \in Nat /\ x <= Cardinality(C) /\ y <= Cardinality(E)
    BY <1>9, <2>2, <2>3, <2>4, CountIs
  <2>6. 2 * Cardinality(C) + Cardinality(E) <= (2 * x + y) - z
    BY <1>1, <2>1, <2>2, <2>3, <2>4 DEF Count
  <2>7. x = Cardinality(C) /\ z = 0
    BY <1>2, <2>5, <2>6
  <2>8. DOMAIN t.order = C
    BY <1>9, <2>2, <2>7, CountIs
  <2>9. t.work = <<>>
    BY <1>9, <2>4, <2>7, ListedFacts DEF TarjanInv, TarjanWork
  <2> QED BY <2>8, <2>9 DEF IsDone
<1>11. Popped(t) = C
  <2>1. Held(t.stack) = {}
    BY <1>9, <1>10 DEF IsDone, TarjanInv, TarjanWork
  <2> QED BY <1>10, <2>1 DEF IsDone, Popped
<1>12. \A c \in t.found : c \subseteq C
  BY <1>9 DEF TarjanInv, TarjanTypes
<1>13. ASSUME NEW K \in SUBSET C, Knit(K, E, R), NEW a \in K, NEW b \in K, a # b
       PROVE  \E c \in t.found : K \subseteq c
  <2>1. K \cap Popped(t) # {}
    BY <1>11, <1>13
  <2>2. InOne(t.found, K)
    BY <1>9, <1>13, <2>1 DEF TarjanInv, TarjanFound
  <2> QED BY <1>13, <2>2 DEF InOne
<1> QED BY <1>3, <1>8, <1>12, <1>13
---------------------------------------------------------------------------
(* The breadth-first search.                                               *)

\* A search before its first turn.
Started(start) == [queue |-> <<<<start>>>>, seen |-> {start}, found |-> <<>>]

\* The states of a search, each one a turn after the one before.
Takings(f, start, goals, next, n) ==
    f = [i \in 0..n |-> IF i = 0 THEN Started(start) ELSE TakeNext(f[i - 1], goals, next)]

\* The states of a search, one by one.
LEMMA TakingStep ==
    ASSUME NEW start, NEW goals, NEW next, NEW f, NEW n \in Nat, Takings(f, start, goals, next, n)
    PROVE  /\ f[0] = Started(start)
           /\ \A k \in 0..(n - 1) : f[k + 1] = TakeNext(f[k], goals, next)
<1>1. \A i \in 0..n : f[i] = IF i = 0 THEN Started(start) ELSE TakeNext(f[i - 1], goals, next)
  BY Zenon DEF Takings
<1>2. 0 \in 0..n /\ \A k \in 0..(n - 1) : k + 1 \in 0..n /\ k + 1 # 0 /\ (k + 1) - 1 = k
  OBVIOUS
<1>3. ASSUME NEW k \in 0..(n - 1) PROVE f[k + 1] = TakeNext(f[k], goals, next)
  <2>1. f[k + 1] = TakeNext(f[(k + 1) - 1], goals, next)
    BY <1>1, <1>2
  <2> QED BY <1>2, <2>1, Zenon
<1> QED BY <1>1, <1>2, <1>3

\* There are such turns.
LEMMA TakingsExist ==
    ASSUME NEW start, NEW goals, NEW next, NEW n \in Nat
    PROVE  \E f : Takings(f, start, goals, next, n)
<1> DEFINE P == {k \in 0..n : \E f : Takings(f, start, goals, next, k)}
<1>1. 0 \in P
  <2>1. Takings([i \in 0..0 |-> Started(start)], start, goals, next, 0)
    BY DEF Takings
  <2> QED BY <2>1
<1>2. ASSUME NEW k \in 0..(n - 1), k \in P PROVE k + 1 \in P
  <2>1. PICK f : Takings(f, start, goals, next, k)
    BY <1>2
  <2>2. PICK g : g = [i \in 0..(k + 1) |-> IF i = k + 1 THEN TakeNext(f[k], goals, next) ELSE f[i]]
    OBVIOUS
  <2>3. ASSUME NEW i \in 0..(k + 1)
        PROVE  g[i] = IF i = 0 THEN Started(start) ELSE TakeNext(g[i - 1], goals, next)
    <3>1. k \in Nat /\ k + 1 \in 0..(k + 1) /\ k \in 0..(k + 1) /\ (k + 1) - 1 = k /\ k # k + 1
      OBVIOUS
    <3>2. /\ g[k + 1] = TakeNext(f[k], goals, next)
          /\ \A j \in 0..k : g[j] = f[j] /\ j # k + 1 /\ j \in 0..(k + 1)
      BY <2>2, <3>1
    <3>3. CASE i = k + 1
      <4>1. g[k] = f[k] /\ i # 0
        BY <3>1, <3>2, <3>3
      <4>2. g[i] = TakeNext(g[i - 1], goals, next)
        BY <3>1, <3>2, <3>3, <4>1, Zenon
      <4> QED BY <4>1, <4>2
    <3>4. CASE i = 0
      <4>1. f[0] = Started(start) /\ g[0] = f[0]
        BY <2>1, <3>1, <3>2, TakingStep
      <4> QED BY <3>4, <4>1
    <3>5. CASE i # 0 /\ i # k + 1
      <4>1. PICK j : j = i - 1
        OBVIOUS
      <4>2. j \in 0..(k - 1) /\ j + 1 = i /\ i \in 0..k /\ j \in 0..k
        BY <3>1, <3>5, <4>1
      <4>3. f[i] = TakeNext(f[j], goals, next)
        <5>1. \A x \in 0..(k - 1) : f[x + 1] = TakeNext(f[x], goals, next)
          BY <2>1, <3>1, TakingStep
        <5> QED BY <4>2, <5>1
      <4>4. g[i] = f[i] /\ g[j] = f[j]
        BY <3>2, <4>2
      <4>5. g[i] = TakeNext(g[j], goals, next)
        BY <4>3, <4>4, Zenon
      <4> QED BY <3>5, <4>1, <4>5, Zenon
    <3> QED BY <3>3, <3>4, <3>5
  <2>4. Takings(g, start, goals, next, k + 1)
    BY <2>2, <2>3 DEF Takings
  <2> QED BY <2>4
<1> HIDE DEF P
<1>3. n \in P
  BY <1>1, <1>2, NumbersIn
<1> QED BY <1>3 DEF P

\* Search() is what the last of the turns has found.
SoughtBy(f, start, goals, next, n) ==
    Takings(f, start, goals, next, n) /\ Search(start, goals, next) = f[n].found

\* A search finds what the last of its turns found.
LEMMA SearchIs ==
    ASSUME NEW start, NEW goals, NEW next, NEW n \in Nat, n = Cardinality(DOMAIN next)
    PROVE  \E f : SoughtBy(f, start, goals, next, n)
<1>1. PICK f : f = CHOOSE g : Takings(g, start, goals, next, n)
  OBVIOUS
<1>2. Takings(f, start, goals, next, n)
  BY <1>1, TakingsExist
<1>3. Search(start, goals, next) = f[n].found
  BY <1>1, Zenon DEF Search, Takings, Started
<1> QED BY <1>2, <1>3 DEF SoughtBy

\* Two lists end to end, entry by entry.
LEMMA JoinEntries ==
    ASSUME NEW s, NEW t, Listed(s), Listed(t)
    PROVE  /\ Listed(s \o t) /\ Len(s \o t) = Len(s) + Len(t) /\ Held(s \o t) = Held(s) \cup Held(t)
           /\ \A i \in 1..Len(s) : (s \o t)[i] = s[i]
           /\ \A j \in 1..Len(t) : (s \o t)[Len(s) + j] = t[j]
<1>1. Listed(s \o t) /\ Held(s \o t) = Held(s) \cup Held(t)
  BY ListedJoin
<1>2. PICK T : T = Held(s) \cup Held(t)
  OBVIOUS
<1>3. s \in Seq(T) /\ t \in Seq(T)
  BY <1>2 DEF Listed
<1>4. /\ Len(s \o t) = Len(s) + Len(t)
      /\ \A i \in 1..Len(s) : (s \o t)[i] = s[i]
      /\ \A j \in 1..Len(t) : (s \o t)[Len(s) + j] = t[j]
  BY <1>3
<1> QED BY <1>1, <1>4

\* A graph to be searched lists the next of each state once.
IsNext(next) == IsFiniteSet(DOMAIN next) /\ \A x \in DOMAIN next : Listed(next[x]) /\ IsInjective(next[x])

\* A way from start through states that were seen.
Way(path, start, next, seen) ==
    /\ Listed(path) /\ Len(path) # 0 /\ path[1] = start /\ IsInjective(path) /\ Held(path) \subseteq seen
    /\ \A i \in 1..(Len(path) - 1) : path[i + 1] \in Held(next[path[i]])

\* A way through what was seen stays one when more is seen.
LEMMA WayGrows ==
    ASSUME NEW path, NEW start, NEW next, NEW seen, Way(path, start, next, seen), NEW new, seen \subseteq new
    PROVE  Way(path, start, next, new)
  BY DEF Way

\* A way starts at its first state, and its last one was seen.
LEMMA WayEnd ==
    ASSUME NEW path, NEW start, NEW next, NEW seen, Way(path, start, next, seen)
    PROVE  /\ Len(path) \in Nat /\ DOMAIN path = 1..Len(path) /\ 1 \in 1..Len(path) /\ Len(path) \in 1..Len(path)
           /\ path[Len(path)] \in seen /\ start \in seen /\ \A i \in 1..Len(path) : path[i] \in seen
<1>1. /\ Len(path) \in Nat /\ DOMAIN path = 1..Len(path) /\ Len(path) # 0
      /\ \A i \in 1..Len(path) : path[i] \in seen
  BY ListedFacts DEF Way
<1>2. 1 \in 1..Len(path) /\ Len(path) \in 1..Len(path)
  BY <1>1
<1>3. path[1] = start
  BY DEF Way
<1> QED BY <1>1, <1>2, <1>3

\* A way goes on to a next state that it has not visited.
LEMMA WayAppend ==
    ASSUME NEW path, NEW start, NEW next, NEW seen, Way(path, start, next, seen),
           NEW y \in Held(next[path[Len(path)]]), y \notin seen
    PROVE  /\ Way(Append(path, y), start, next, seen \cup {y})
           /\ Append(path, y)[Len(Append(path, y))] = y
<1>1. PICK q : q = Append(path, y)
  OBVIOUS
<1>2. PICK n : n = Len(path)
  OBVIOUS
<1>3. n \in Nat /\ n # 0 /\ n \in 1..n /\ \A i \in 1..n : path[i] \in seen
  BY <1>2, WayEnd DEF Way
<1>4. /\ Listed(q) /\ Len(q) = n + 1 /\ q[n + 1] = y /\ \A i \in 1..n : q[i] = path[i]
      /\ Held(q) = Held(path) \cup {y}
  BY <1>1, <1>2, ListedAppend DEF Way
<1>5. DOMAIN q = 1..(n + 1)
  BY <1>4, ListedFacts
<1>6. q[1] = start
  <2>1. 1 \in 1..n
    BY <1>3
  <2> QED BY <1>4, <2>1 DEF Way
<1>7. \A i \in 1..(n + 1) : i \in 1..n \/ i = n + 1
  BY <1>3
<1>8. IsInjective(q)
  <2>1. ASSUME NEW i \in 1..(n + 1), NEW j \in 1..(n + 1), q[i] = q[j] PROVE i = j
    <3>1. CASE i \in 1..n /\ j \in 1..n
      <4>1. path[i] = path[j]
        BY <1>4, <2>1, <3>1
      <4> QED BY <1>2, <3>1, <4>1, WayEnd DEF Way, IsInjective
    <3>2. CASE i = n + 1 /\ j \in 1..n
      BY <1>3, <1>4, <2>1, <3>2
    <3>3. CASE i \in 1..n /\ j = n + 1
      BY <1>3, <1>4, <2>1, <3>3
    <3>4. CASE i = n + 1 /\ j = n + 1
      BY <3>4
    <3> QED BY <1>7, <3>1, <3>2, <3>3, <3>4
  <2> QED BY <1>5, <2>1 DEF IsInjective
<1>9. Held(q) \subseteq seen \cup {y}
  BY <1>4 DEF Way
<1>10. ASSUME NEW i \in 1..n PROVE q[i + 1] \in Held(next[q[i]])
  <2>1. CASE i = n
    BY <1>2, <1>3, <1>4, <2>1
  <2>2. CASE i # n
    <3>1. i \in 1..(n - 1) /\ i + 1 \in 1..n
      BY <1>3, <2>2
    <3>2. path[i + 1] \in Held(next[path[i]])
      BY <1>2, <3>1 DEF Way
    <3> QED BY <1>4, <3>1, <3>2
  <2> QED BY <2>1, <2>2
<1>11. (n + 1) - 1 = n /\ n + 1 # 0
  BY <1>3
<1>12. Way(q, start, next, seen \cup {y})
  BY <1>4, <1>6, <1>8, <1>9, <1>10, <1>11 DEF Way
<1> QED BY <1>1, <1>4, <1>12

\* The queue has ways that end in the states that were seen and not taken, and
\* a state that was taken is no goal and all of its next ones were seen.
IsTaken(s, goals, next, x) ==
    \/ \E p \in Held(s.queue) : p[Len(p)] = x
    \/ x \notin goals /\ \A y \in Held(next[x]) \cap DOMAIN next : y \in s.seen

\* The invariant of a search: the queue has a way to each state that was seen
\* and not taken in k turns, and until a goal is found what was taken is no
\* goal, and all that may follow it was seen.
SearchInv(s, start, goals, next, k) ==
    /\ s = [queue |-> s.queue, seen |-> s.seen, found |-> s.found]
    /\ s.seen \subseteq DOMAIN next /\ start \in s.seen
    /\ Listed(s.queue) /\ \A p \in Held(s.queue) : Way(p, start, next, s.seen)
    /\ s.found = <<>> \/ (Way(s.found, start, next, s.seen) /\ s.found[Len(s.found)] \in goals)
    /\ s.queue = <<>> \/ k + Len(s.queue) = Cardinality(s.seen)
    /\ s.found = <<>> => \A x \in s.seen : IsTaken(s, goals, next, x)

\* The invariant holds before the first turn of a search.
LEMMA StartedIs ==
    ASSUME NEW start, NEW goals, NEW next, IsNext(next), start \in DOMAIN next
    PROVE  SearchInv(Started(start), start, goals, next, 0)
<1>1. PICK w : w = <<start>>
  OBVIOUS
<1>2. PICK q : q = <<w>>
  OBVIOUS
<1>3. PICK s : s = [queue |-> q, seen |-> {start}, found |-> <<>>]
  OBVIOUS
<1>4. s = Started(start)
  BY <1>1, <1>2, <1>3 DEF Started
<1>5. s.queue = q /\ s.seen = {start} /\ s.found = <<>> /\ s = [queue |-> s.queue, seen |-> s.seen, found |-> s.found]
  BY <1>3
<1>6. Listed(w) /\ Held(w) = {start} /\ Listed(q) /\ Held(q) = {w}
  BY <1>1, <1>2, OneState
<1>7. Len(w) = 1 /\ w[1] = start /\ DOMAIN w = {1} /\ Len(q) = 1
  BY <1>1, <1>2
<1>8. Way(w, start, next, {start})
  <2>1. IsInjective(w)
    BY <1>7 DEF IsInjective
  <2>2. 1..(1 - 1) = {}
    OBVIOUS
  <2> QED BY <1>6, <1>7, <2>1, <2>2 DEF Way
<1>9. 0 + Len(q) = Cardinality({start})
  BY <1>7, FS_Singleton
<1>10. IsTaken(s, goals, next, start)
  BY <1>5, <1>6, <1>7 DEF IsTaken
<1>11. SearchInv(s, start, goals, next, 0)
  BY <1>5, <1>6, <1>8, <1>9, <1>10 DEF SearchInv
<1> QED BY <1>4, <1>11

\* The ways that a turn adds.
Extended(path, new) == [i \in DOMAIN new |-> Append(path, new[i])]

\* The paths that a turn adds to the queue, one for each new state.
LEMMA AddedWays ==
    ASSUME NEW path, NEW new, Listed(new), NEW added, added = Extended(path, new)
    PROVE  /\ Listed(added) /\ Len(added) = Len(new)
           /\ \A p \in Held(added) : \E y \in Held(new) : p = Append(path, y)
           /\ \A y \in Held(new) : Append(path, y) \in Held(added)
<1>1. PICK n : n = Len(new)
  OBVIOUS
<1>2. n \in Nat /\ DOMAIN new = 1..n /\ \A i \in 1..n : new[i] \in Held(new)
  BY <1>1, ListedFacts
<1>3. added = [i \in 1..n |-> added[i]] /\ \A i \in 1..n : added[i] = Append(path, new[i])
  BY <1>2 DEF Extended
<1>4. Listed(added) /\ Len(added) = n /\ DOMAIN added = 1..n
  BY <1>2, <1>3, ListedFunction
<1>5. \A p \in Held(added) : \E y \in Held(new) : p = Append(path, y)
  BY <1>2, <1>3, <1>4 DEF Held
<1>6. \A y \in Held(new) : Append(path, y) \in Held(added)
  BY <1>2, <1>3, <1>4 DEF Held
<1> QED BY <1>1, <1>4, <1>5, <1>6

\* A turn of the search keeps its invariant.
LEMMA TakingKeeps ==
    ASSUME NEW start, NEW goals, NEW next, IsNext(next), NEW k \in Nat, NEW s, SearchInv(s, start, goals, next, k),
           NEW u, u = TakeNext(s, goals, next)
    PROVE  SearchInv(u, start, goals, next, k + 1)
<1>1. /\ s = [queue |-> s.queue, seen |-> s.seen, found |-> s.found]
      /\ s.seen \subseteq DOMAIN next /\ start \in s.seen
      /\ Listed(s.queue) /\ \A p \in Held(s.queue) : Way(p, start, next, s.seen)
      /\ s.found = <<>> \/ (Way(s.found, start, next, s.seen) /\ s.found[Len(s.found)] \in goals)
      /\ s.queue = <<>> \/ k + Len(s.queue) = Cardinality(s.seen)
      /\ s.found = <<>> => \A x \in s.seen : IsTaken(s, goals, next, x)
  BY DEF SearchInv
<1>2. PICK path : path = Head(s.queue)
  OBVIOUS
<1>3. PICK last : last = path[Len(path)]
  OBVIOUS
<1>4. PICK new : new = Among(next[last], DOMAIN next \ s.seen)
  OBVIOUS
<1>5. PICK added : added = [i \in DOMAIN new |-> Append(path, new[i])]
  OBVIOUS
<1>6. Last(path) = last
  BY <1>3 DEF Last
<1>7. u = IF s.queue = <<>> THEN s
          ELSE IF last \in goals THEN [s EXCEPT !.queue = <<>>, !.found = path]
          ELSE [s EXCEPT !.queue = Tail(@) \o added, !.seen = @ \cup Range(new)]
  BY <1>2, <1>4, <1>5, <1>6, Zenon DEF TakeNext
<1>8. CASE s.queue = <<>>
  <2>1. u = s
    BY <1>7, <1>8
  <2> QED BY <1>1, <1>8, <2>1 DEF SearchInv
<1>9. CASE s.queue # <<>>
  <2>1. /\ Listed(Tail(s.queue)) /\ Len(Tail(s.queue)) = Len(s.queue) - 1 /\ Len(s.queue) \in Nat \ {0}
        /\ path \in Held(s.queue) /\ Held(s.queue) = {path} \cup Held(Tail(s.queue))
    BY <1>1, <1>2, <1>9, ListedTail
  <2>2. Way(path, start, next, s.seen)
    BY <1>1, <2>1
  <2>3. last \in s.seen /\ last \in DOMAIN next
    BY <1>1, <1>3, <2>2, WayEnd
  <2>4. CASE last \in goals
    <3>1. u = [s EXCEPT !.queue = <<>>, !.found = path]
      BY <1>7, <1>9, <2>4
    <3>2. u = [queue |-> <<>>, seen |-> s.seen, found |-> path]
      BY <1>1, <3>1
    <3>3. u.queue = <<>> /\ u.seen = s.seen /\ u.found = path /\ u = [queue |-> u.queue, seen |-> u.seen, found |-> u.found]
      BY <3>2
    <3>4. Listed(<<>>) /\ Held(<<>>) = {}
      BY OneState
    <3>5. path # <<>>
      BY <2>2 DEF Way
    <3> QED BY <1>1, <1>3, <2>2, <2>4, <3>3, <3>4, <3>5 DEF SearchInv
  <2>5. CASE last \notin goals
    <3>1. PICK seen : seen = s.seen \cup Held(new)
      OBVIOUS
    <3>2. PICK queue : queue = Tail(s.queue) \o added
      OBVIOUS
    <3>3. u = [queue |-> queue, seen |-> seen, found |-> s.found]
      <4>1. u = [s EXCEPT !.queue = Tail(@) \o added, !.seen = @ \cup Range(new)]
        BY <1>7, <1>9, <2>5
      <4>2. Range(new) = Held(new)
        BY DEF Range, Held
      <4>3. u = [queue |-> Tail(s.queue) \o added, seen |-> s.seen \cup Range(new), found |-> s.found]
        BY <1>1, <4>1
      <4> QED BY <3>1, <3>2, <4>2, <4>3
    <3>4. u.queue = queue /\ u.seen = seen /\ u.found = s.found /\ u = [queue |-> u.queue, seen |-> u.seen, found |-> u.found]
      BY <3>3
    <3>5. Listed(new) /\ IsInjective(new) /\ Held(new) = Held(next[last]) \cap (DOMAIN next \ s.seen)
      <4>1. PICK T : T = Held(next[last])
        OBVIOUS
      <4>2. PICK set : set = DOMAIN next \ s.seen
        OBVIOUS
      <4>3. next[last] \in Seq(T) /\ IsInjective(next[last])
        BY <2>3, <4>1 DEF IsNext, Listed
      <4>4. new = Among(next[last], set)
        BY <1>4, <4>2
      <4>5. new \in Seq(T) /\ Range(new) = Range(next[last]) \cap set /\ IsInjective(new)
        BY <4>3, <4>4, AmongKeeps
      <4>6. Listed(new)
        BY <4>5, ListedFrom
      <4>7. Range(new) = Held(new) /\ Range(next[last]) = Held(next[last])
        BY DEF Range, Held
      <4>8. Held(new) = Held(next[last]) \cap set
        BY <4>5, <4>7
      <4> QED BY <4>2, <4>5, <4>6, <4>8
    <3>6. /\ Listed(added) /\ Len(added) = Len(new)
          /\ \A p \in Held(added) : \E y \in Held(new) : p = Append(path, y)
          /\ \A y \in Held(new) : Append(path, y) \in Held(added)
      <4>1. added = Extended(path, new)
        BY <1>5 DEF Extended
      <4> QED BY <3>5, <4>1, AddedWays
    <3>7. /\ Listed(queue) /\ Len(queue) = (Len(s.queue) - 1) + Len(new)
          /\ Held(queue) = Held(Tail(s.queue)) \cup Held(added)
      <4>1. PICK rest : rest = Tail(s.queue)
        OBVIOUS
      <4>2. Listed(rest) /\ Len(rest) = Len(s.queue) - 1 /\ queue = rest \o added
        BY <2>1, <3>2, <4>1
      <4>3. Listed(added) /\ Len(added) = Len(new)
        BY <3>6
      <4>4. /\ Listed(rest \o added) /\ Len(rest \o added) = Len(rest) + Len(added)
            /\ Held(rest \o added) = Held(rest) \cup Held(added)
        BY <4>2, <4>3, JoinEntries
      <4>5. Len(queue) = (Len(s.queue) - 1) + Len(new)
        BY <4>2, <4>3, <4>4
      <4> QED BY <4>1, <4>2, <4>4, <4>5
    <3>8. seen \subseteq DOMAIN next /\ start \in seen
      BY <1>1, <3>1, <3>5
    <3>9. ASSUME NEW y \in Held(new)
           PROVE  Way(Append(path, y), start, next, seen) /\ Append(path, y)[Len(Append(path, y))] = y
      <4>1. y \in Held(next[path[Len(path)]]) /\ y \notin s.seen
        BY <1>3, <3>5, <3>9
      <4>2. /\ Way(Append(path, y), start, next, s.seen \cup {y})
            /\ Append(path, y)[Len(Append(path, y))] = y
        BY <2>2, <4>1, WayAppend
      <4>3. s.seen \cup {y} \subseteq seen
        BY <3>1, <3>9
      <4> QED BY <4>2, <4>3, WayGrows
    <3>10. ASSUME NEW p \in Held(queue) PROVE Way(p, start, next, seen)
      <4>1. CASE p \in Held(Tail(s.queue))
        <5>1. Way(p, start, next, s.seen)
          BY <1>1, <2>1, <4>1
        <5>2. s.seen \subseteq seen
          BY <3>1
        <5> QED BY <5>1, <5>2, WayGrows
      <4>2. CASE p \in Held(added)
        BY <3>6, <3>9, <4>2
      <4> QED BY <3>7, <3>10, <4>1, <4>2
    <3>11. s.found = <<>> \/ (Way(s.found, start, next, seen) /\ s.found[Len(s.found)] \in goals)
      <4>1. s.seen \subseteq seen
        BY <3>1
      <4> QED BY <1>1, <4>1, WayGrows
    <3>12. (k + 1) + Len(queue) = Cardinality(seen)
      <4>1. IsFiniteSet(s.seen)
        BY <1>1, FS_Subset DEF IsNext
      <4>2. IsFiniteSet(Held(new)) /\ Len(new) = Cardinality(Held(new))
        BY <3>5, ListIsFinite, InjectiveLength
      <4>3. s.seen \cap Held(new) = {}
        BY <3>5
      <4>4. Cardinality(s.seen \cup Held(new)) =
                Cardinality(s.seen) + Cardinality(Held(new)) - Cardinality(s.seen \cap Held(new))
        BY <4>1, <4>2, FS_Union
      <4>5. Cardinality({}) = 0
        BY FS_EmptySet
      <4>6. Cardinality(s.seen) \in Nat /\ Cardinality(Held(new)) \in Nat
        BY <4>1, <4>2, FS_CardinalityType
      <4>7. k + Len(s.queue) = Cardinality(s.seen)
        BY <1>1, <1>9
      <4>8. Len(s.queue) \in Nat
        BY <2>1
      <4>9. Cardinality(seen) = Cardinality(s.seen) + Cardinality(Held(new))
        <5>1. PICK a : a = Cardinality(s.seen)
          OBVIOUS
        <5>2. PICK b : b = Cardinality(Held(new))
          OBVIOUS
        <5>3. PICK c : c = Cardinality(seen)
          OBVIOUS
        <5>4. PICK d : d = Cardinality(s.seen \cap Held(new))
          OBVIOUS
        <5>5. d = 0
          BY <4>3, <4>5, <5>4
        <5>6. c = a + b - d
          BY <3>1, <4>4, <5>1, <5>2, <5>3, <5>4
        <5>7. a \in Nat /\ b \in Nat
          BY <4>6, <5>1, <5>2
        <5>8. c = a + b
          BY <5>5, <5>6, <5>7
        <5> QED BY <5>1, <5>2, <5>3, <5>8
      <4> QED BY <3>7, <4>2, <4>6, <4>7, <4>8, <4>9
    <3>13. ASSUME s.found = <<>>, NEW x \in seen PROVE IsTaken(u, goals, next, x)
      <4>1. CASE x \in Held(new)
        <5>1. Append(path, x) \in Held(queue)
          BY <3>6, <3>7, <4>1
        <5> QED BY <3>4, <3>9, <4>1, <5>1 DEF IsTaken
      <4>2. CASE x = last
        <5>1. ASSUME NEW y \in Held(next[x]) \cap DOMAIN next PROVE y \in seen
          BY <3>1, <3>5, <4>2, <5>1
        <5> QED BY <2>5, <3>4, <4>2, <5>1 DEF IsTaken
      <4>3. CASE x \in s.seen /\ x # last
        <5>1. IsTaken(s, goals, next, x)
          BY <1>1, <3>13, <4>3
        <5>2. CASE \E p \in Held(s.queue) : p[Len(p)] = x
          <6>1. PICK p \in Held(s.queue) : p[Len(p)] = x
            BY <5>2
          <6>2. p # path
            BY <1>3, <4>3, <6>1
          <6>3. p \in Held(queue)
            BY <2>1, <3>7, <6>2
          <6> QED BY <3>4, <6>1, <6>3 DEF IsTaken
        <5>3. CASE x \notin goals /\ \A y \in Held(next[x]) \cap DOMAIN next : y \in s.seen
          BY <3>1, <3>4, <5>3 DEF IsTaken
        <5> QED BY <5>1, <5>2, <5>3 DEF IsTaken
      <4> QED BY <3>1, <3>13, <4>1, <4>2, <4>3
    <3> QED BY <3>4, <3>7, <3>8, <3>10, <3>11, <3>12, <3>13 DEF SearchInv
  <2> QED BY <2>4, <2>5
<1> QED BY <1>8, <1>9

\* A search gives a way to a goal; or no state to which a way leads is one.
Leads(start, goals, next, reached) ==
    /\ reached \subseteq DOMAIN next /\ start \in reached /\ reached \cap goals = {}
    /\ \A x \in reached : Held(next[x]) \cap DOMAIN next \subseteq reached

\* A search finds a way from start to a goal; when it finds none, what it
\* reached has all the states that may follow, and no goal.
THEOREM SearchFinds ==
    ASSUME NEW start, NEW goals, NEW next, IsNext(next), start \in DOMAIN next,
           NEW path, path = Search(start, goals, next)
    PROVE  /\ path # <<>> => Way(path, start, next, DOMAIN next) /\ path[Len(path)] \in goals
           /\ path = <<>> => \E reached : Leads(start, goals, next, reached)
<1>1. PICK n : n = Cardinality(DOMAIN next)
  OBVIOUS
<1>2. n \in Nat /\ IsFiniteSet(DOMAIN next)
  BY <1>1, FS_CardinalityType DEF IsNext
<1>3. PICK f : SoughtBy(f, start, goals, next, n)
  BY <1>1, <1>2, SearchIs
<1>4. Takings(f, start, goals, next, n) /\ path = f[n].found
  BY <1>3 DEF SoughtBy
<1>5. f[0] = Started(start) /\ \A k \in 0..(n - 1) : f[k + 1] = TakeNext(f[k], goals, next)
  BY <1>2, <1>4, TakingStep
<1> DEFINE P == {k \in 0..n : SearchInv(f[k], start, goals, next, k)}
<1>6. 0 \in P
  <2>1. SearchInv(f[0], start, goals, next, 0)
    BY <1>5, StartedIs
  <2> QED BY <1>2, <2>1
<1>7. ASSUME NEW k \in 0..(n - 1), k \in P PROVE k + 1 \in P
  <2>1. k \in Nat /\ k + 1 \in 0..n
    BY <1>2
  <2>2. SearchInv(f[k], start, goals, next, k) /\ f[k + 1] = TakeNext(f[k], goals, next)
    BY <1>5, <1>7
  <2>3. SearchInv(f[k + 1], start, goals, next, k + 1)
    BY <2>1, <2>2, TakingKeeps
  <2> QED BY <2>1, <2>3
<1> HIDE DEF P
<1>8. n \in P
  <2>1. \A k \in 0..n : k \in P
    BY <1>2, <1>6, <1>7, NumbersIn
  <2>2. n \in 0..n
    BY <1>2
  <2> QED BY <2>1, <2>2
<1>9. PICK s : s = f[n]
  OBVIOUS
<1>10. SearchInv(s, start, goals, next, n) /\ path = s.found
  BY <1>4, <1>8, <1>9 DEF P
<1>11. s.seen \subseteq DOMAIN next /\ start \in s.seen
  BY <1>10 DEF SearchInv
<1>12. s.queue = <<>>
  <2> SUFFICES ASSUME s.queue # <<>> PROVE FALSE
    OBVIOUS
  <2>1. n + Len(s.queue) = Cardinality(s.seen) /\ Len(s.queue) \in Nat /\ Len(s.queue) # 0
    BY <1>10, ListedFacts DEF SearchInv
  <2>2. Cardinality(s.seen) <= n
    BY <1>1, <1>2, <1>11, FS_Subset
  <2> QED BY <1>2, <2>1, <2>2
<1>13. ASSUME path # <<>> PROVE Way(path, start, next, DOMAIN next) /\ path[Len(path)] \in goals
  <2>1. Way(path, start, next, s.seen) /\ path[Len(path)] \in goals
    BY <1>10, <1>13 DEF SearchInv
  <2> QED BY <1>11, <2>1, WayGrows
<1>14. ASSUME path = <<>> PROVE Leads(start, goals, next, s.seen)
  <2>1. Held(s.queue) = {}
    BY <1>12, OneState
  <2>2. \A x \in s.seen : x \notin goals /\ \A y \in Held(next[x]) \cap DOMAIN next : y \in s.seen
    BY <1>10, <1>14, <2>1 DEF SearchInv, IsTaken
  <2> QED BY <1>11, <2>2 DEF Leads
<1> QED BY <1>13, <1>14
---------------------------------------------------------------------------
(* Closed walks, and how they are cut to a cycle.                          *)

\* The position after one of a closed walk.
After(n, i) == IF i = n THEN 1 ELSE i + 1

\* The position after the last one is the first.
LEMMA NextIs ==
    ASSUME NEW n \in Nat, NEW i \in 1..n
    PROVE  (i % n) + 1 = After(n, i) /\ After(n, i) \in 1..n
<1>1. CASE i = n
  <2>1. n % n = 0
    OBVIOUS
  <2>2. 1 \in 1..n
    OBVIOUS
  <2> QED BY <1>1, <2>1, <2>2 DEF After
<1>2. CASE i # n
  <2>1. i < n /\ i \in Nat /\ i + 1 \in 1..n
    BY <1>2
  <2>2. i % n = i
    BY <2>1
  <2> QED BY <1>2, <2>1, <2>2 DEF After
<1> QED BY <1>1, <1>2

\* Each step of a walk follows an edge to the next one, and the last one to
\* the first.
IsWalk(E, walk) ==
    /\ Listed(walk) /\ Len(walk) # 0
    /\ \A i \in 1..Len(walk) : Has(E, walk[i].node, walk[After(Len(walk), i)].node, walk[i].used)

\* No read-write edge comes after another.
Weaves(E, walk) ==
    /\ IsWalk(E, walk)
    /\ \A i \in 1..Len(walk) : walk[i].used \in {{"rw"}, NonRw}
    /\ \A i \in 1..Len(walk) : ~(walk[i].used = {"rw"} /\ walk[After(Len(walk), i)].used = {"rw"})

\* Alternates of a walk, by its positions.
LEMMA AlternatesIs ==
    ASSUME NEW walk, Listed(walk)
    PROVE  Alternates(walk) <=>
               \A i \in 1..Len(walk) : ~(walk[i].used = {"rw"} /\ walk[After(Len(walk), i)].used = {"rw"})
<1>1. Len(walk) \in Nat /\ DOMAIN walk = 1..Len(walk)
  BY ListedFacts
<1>2. \A i \in 1..Len(walk) : (i % Len(walk)) + 1 = After(Len(walk), i)
  BY <1>1, NextIs
<1> QED BY <1>1, <1>2 DEF Alternates

\* A walk whose steps are those of another at some positions, where the next
\* step starts where the other walk goes on.
Follows(walk, n, cut, m, at) ==
    /\ n \in Nat /\ n = Len(walk) /\ m \in Nat /\ m # 0 /\ Listed(cut) /\ Len(cut) = m
    /\ at \in [1..m -> 1..n]
    /\ \A k \in 1..m : cut[k] = walk[at[k]]
    /\ \A k \in 1..m : walk[at[After(m, k)]].node = walk[After(n, at[k])].node
    /\ \A k \in 1..m : ~(walk[at[k]].used = {"rw"} /\ walk[at[After(m, k)]].used = {"rw"})

\* Such a part of a walk weaves as the walk does.
LEMMA WeavesFrom ==
    ASSUME NEW E, NEW walk, Weaves(E, walk), NEW n, NEW m, NEW cut, NEW at, Follows(walk, n, cut, m, at)
    PROVE  Weaves(E, cut)
<1>0. /\ n \in Nat /\ n = Len(walk) /\ m \in Nat /\ m # 0 /\ Listed(cut) /\ Len(cut) = m
      /\ at \in [1..m -> 1..n]
      /\ \A k \in 1..m : cut[k] = walk[at[k]]
      /\ \A k \in 1..m : walk[at[After(m, k)]].node = walk[After(n, at[k])].node
      /\ \A k \in 1..m : ~(walk[at[k]].used = {"rw"} /\ walk[at[After(m, k)]].used = {"rw"})
  BY Zenon DEF Follows
<1>1. ASSUME NEW k \in 1..m
      PROVE  /\ Has(E, cut[k].node, cut[After(m, k)].node, cut[k].used)
             /\ cut[k].used \in {{"rw"}, NonRw}
             /\ ~(cut[k].used = {"rw"} /\ cut[After(m, k)].used = {"rw"})
  <2>1. After(m, k) \in 1..m /\ at[k] \in 1..n
    BY <1>0, NextIs
  <2>2. cut[k] = walk[at[k]] /\ cut[After(m, k)] = walk[at[After(m, k)]]
    BY <1>0, <2>1
  <2>3. Has(E, walk[at[k]].node, walk[After(n, at[k])].node, walk[at[k]].used)
    BY <1>0, <2>1 DEF Weaves, IsWalk
  <2>4. walk[at[k]].used \in {{"rw"}, NonRw}
    BY <1>0, <2>1 DEF Weaves
  <2>5. walk[at[After(m, k)]].node = walk[After(n, at[k])].node
    BY <1>0
  <2>6. ~(walk[at[k]].used = {"rw"} /\ walk[at[After(m, k)]].used = {"rw"})
    BY <1>0
  <2> QED BY <2>2, <2>3, <2>4, <2>5, <2>6
<1> QED BY <1>0, <1>1 DEF Weaves, IsWalk

\* A walk is at the same transaction at two positions: the part between the
\* two, and the rest.
Meets(walk, n, first, second) ==
    /\ n \in Nat /\ n = Len(walk) /\ second \in 1..n /\ first \in 1..(second - 1)
    /\ walk[first].node = walk[second].node

\* The two parts of a walk that is cut.
Inner(walk, first, second) == SubSeq(walk, first, second - 1)
Outer(walk, first, second) == SubSeq(walk, 1, first - 1) \o SubSeq(walk, second, Len(walk))

\* The part between two visits of a transaction is kept when it weaves.
LEMMA InnerWeaves ==
    ASSUME NEW E, NEW walk, Weaves(E, walk), NEW n, NEW first, NEW second, Meets(walk, n, first, second)
    PROVE  /\ Len(Inner(walk, first, second)) = second - first /\ second - first < n
           /\ Alternates(Inner(walk, first, second)) => Weaves(E, Inner(walk, first, second))
           /\ ~Alternates(Inner(walk, first, second)) => walk[first].used = {"rw"}
<1> PICK inner : inner = Inner(walk, first, second)
  OBVIOUS
<1>0. /\ n \in Nat /\ n = Len(walk) /\ second \in 1..n /\ first \in 1..(second - 1)
      /\ walk[first].node = walk[second].node
  BY DEF Meets
<1>1. PICK m : m = second - first
  OBVIOUS
<1>2. PICK last : last = second - 1
  OBVIOUS
<1>3. /\ n \in Nat /\ m \in Nat /\ m # 0 /\ m < n /\ first \in Nat /\ first # 0 /\ last \in Nat /\ last <= n /\ last < n
      /\ first <= last + 1 /\ (last - first) + 1 = m /\ second = first + m /\ last + 1 = second /\ first + m = last + 1
  BY <1>0, <1>1, <1>2
<1>4. Listed(walk)
  BY DEF Weaves, IsWalk
<1>5. inner = SubSeq(walk, first, last)
  BY <1>2 DEF Inner
<1>6. Listed(inner) /\ Len(inner) = m /\ \A k \in 1..m : inner[k] = walk[(first + k) - 1]
  <2>1. first \in Nat /\ last \in Nat /\ first # 0 /\ last <= Len(walk) /\ first <= last + 1
    BY <1>0, <1>3
  <2>2. /\ Listed(SubSeq(walk, first, last)) /\ Len(SubSeq(walk, first, last)) = (last - first) + 1
        /\ \A k \in 1..((last - first) + 1) : SubSeq(walk, first, last)[k] = walk[(first + k) - 1]
    BY <1>4, <2>1, ListedPart
  <2>3. (last - first) + 1 = m
    BY <1>3
  <2> QED BY <1>5, <2>2, <2>3, Zenon
<1>7. PICK at : at = [k \in 1..m |-> (first + k) - 1]
  OBVIOUS
<1>8. at \in [1..m -> 1..n]
  <2>1. \A k \in 1..m : (first + k) - 1 \in 1..n
    BY <1>3
  <2> QED BY <1>7, <2>1
<1>9. \A k \in 1..m : inner[k] = walk[at[k]]
  BY <1>6, <1>7
<1>10. ASSUME NEW k \in 1..m PROVE walk[at[After(m, k)]].node = walk[After(n, at[k])].node
  <2>1. CASE k = m
    <3>1. at[k] = last /\ After(m, k) = 1 /\ at[1] = first /\ After(n, last) = second
      BY <1>3, <1>7, <2>1 DEF After
    <3> QED BY <1>0, <3>1
  <2>2. CASE k # m
    <3>1. k + 1 \in 1..m /\ After(m, k) = k + 1
      BY <1>3, <2>2 DEF After
    <3>2. at[k] = (first + k) - 1 /\ at[k + 1] = first + k /\ (first + k) - 1 # n
      BY <1>3, <1>7, <3>1
    <3>3. After(n, at[k]) = first + k
      BY <1>3, <3>2 DEF After
    <3> QED BY <3>1, <3>2, <3>3
  <2> QED BY <2>1, <2>2
<1>11. ASSUME Alternates(inner) PROVE Weaves(E, inner)
  <2>1. \A k \in 1..m : ~(inner[k].used = {"rw"} /\ inner[After(m, k)].used = {"rw"})
    BY <1>6, <1>11, AlternatesIs
  <2>2. \A k \in 1..m : After(m, k) \in 1..m
    BY <1>3, NextIs
  <2>3. \A k \in 1..m : ~(walk[at[k]].used = {"rw"} /\ walk[at[After(m, k)]].used = {"rw"})
    BY <1>9, <2>1, <2>2
  <2>4. m \in Nat /\ m # 0 /\ Listed(inner) /\ Len(inner) = m
    BY <1>3, <1>6
  <2>5. Weaves(E, inner)
    <3>1. Follows(walk, n, inner, m, at)
      BY <1>0, <1>8, <1>9, <1>10, <2>3, <2>4, Zenon DEF Follows
    <3> QED BY <3>1, WeavesFrom
  <2> QED BY <2>5
<1>12. ASSUME ~Alternates(inner) PROVE walk[last].used = {"rw"} /\ walk[first].used = {"rw"}
  <2>1. PICK k \in 1..m : inner[k].used = {"rw"} /\ inner[After(m, k)].used = {"rw"}
    BY <1>6, <1>12, AlternatesIs
  <2>2. CASE k = m
    <3>1. After(m, k) = 1 /\ 1 \in 1..m /\ at[m] = last /\ at[1] = first /\ m \in 1..m
      BY <1>3, <1>7, <2>2 DEF After
    <3> QED BY <1>9, <2>1, <2>2, <3>1
  <2>3. CASE k # m
    <3>1. k + 1 \in 1..m /\ After(m, k) = k + 1
      BY <1>3, <2>3 DEF After
    <3>2. at[k] = (first + k) - 1 /\ at[k + 1] = first + k /\ (first + k) - 1 # n /\ (first + k) - 1 \in 1..n
      BY <1>3, <1>7, <3>1
    <3>3. After(n, at[k]) = first + k
      BY <1>3, <3>2 DEF After
    <3>4. walk[at[k]].used = {"rw"} /\ walk[After(n, at[k])].used = {"rw"}
      BY <1>9, <2>1, <3>1, <3>2, <3>3
    <3> QED BY <1>0, <3>2, <3>4 DEF Weaves
  <2> QED BY <2>2, <2>3
<1> QED BY <1>1, <1>2, <1>3, <1>6, <1>11, <1>12
\* The rest of a walk is without adjacent read-write edges when the part that
\* is cut out begins and ends with one.
LEMMA OuterWeaves ==
    ASSUME NEW E, NEW walk, Weaves(E, walk), NEW n, NEW first, NEW second, Meets(walk, n, first, second),
           walk[first].used = {"rw"}
    PROVE  /\ Len(Outer(walk, first, second)) = n - (second - first)
           /\ Weaves(E, Outer(walk, first, second))
<1> PICK outer : outer = Outer(walk, first, second)
  OBVIOUS
<1>0. /\ n \in Nat /\ n = Len(walk) /\ second \in 1..n /\ first \in 1..(second - 1)
      /\ walk[first].node = walk[second].node
  BY DEF Meets
<1>1. PICK d : d = second - first
  OBVIOUS
<1>2. PICK m : m = n - d
  OBVIOUS
<1>3. PICK last : last = first - 1
  OBVIOUS
<1>4. /\ n \in Nat /\ first \in Nat /\ first # 0 /\ second \in Nat /\ second <= n /\ first < second
      /\ d \in Nat /\ d # 0 /\ m \in Nat /\ m # 0 /\ last \in Nat /\ last < m /\ last + 1 = first
      /\ first + d = second /\ m + d = n /\ last + d + 1 = second /\ second # 0
      /\ (n - second) + 1 = m - last
  <2>1. first \in Nat /\ first # 0 /\ second \in Nat /\ second <= n /\ first < second
    BY <1>0
  <2> QED BY <1>0, <1>1, <1>2, <1>3, <2>1
<1>5. Listed(walk)
  BY DEF Weaves, IsWalk
<1>6. PICK s : s = SubSeq(walk, 1, last)
  OBVIOUS
<1>7. PICK t : t = SubSeq(walk, second, n)
  OBVIOUS
<1>8. Listed(s) /\ Len(s) = last /\ \A k \in 1..last : s[k] = walk[k]
  <2>1. 1 \in Nat /\ last \in Nat /\ 1 # 0 /\ last <= Len(walk) /\ 1 <= last + 1
    BY <1>0, <1>4
  <2>2. /\ Listed(SubSeq(walk, 1, last)) /\ Len(SubSeq(walk, 1, last)) = (last - 1) + 1
        /\ \A k \in 1..((last - 1) + 1) : SubSeq(walk, 1, last)[k] = walk[(1 + k) - 1]
    BY <1>5, <2>1, ListedPart
  <2>3. (last - 1) + 1 = last /\ \A k \in 1..last : (1 + k) - 1 = k
    BY <1>4
  <2> QED BY <1>6, <2>2, <2>3
<1>9. Listed(t) /\ Len(t) = m - last /\ \A j \in 1..(m - last) : t[j] = walk[(second + j) - 1]
  <2>1. second \in Nat /\ n \in Nat /\ second # 0 /\ n <= Len(walk) /\ second <= n + 1
    BY <1>0, <1>4
  <2>2. /\ Listed(SubSeq(walk, second, n)) /\ Len(SubSeq(walk, second, n)) = (n - second) + 1
        /\ \A k \in 1..((n - second) + 1) : SubSeq(walk, second, n)[k] = walk[(second + k) - 1]
    BY <1>5, <2>1, ListedPart
  <2>3. (n - second) + 1 = m - last
    BY <1>4
  <2> QED BY <1>7, <2>2, <2>3, Zenon
<1>10. outer = s \o t
  BY <1>0, <1>3, <1>6, <1>7, Zenon DEF Outer
<1>11. /\ Listed(outer) /\ Len(outer) = m
       /\ \A k \in 1..last : outer[k] = walk[k]
       /\ \A k \in (last + 1)..m : outer[k] = walk[k + d]
  <2>1. /\ Listed(s \o t) /\ Len(s \o t) = Len(s) + Len(t)
        /\ \A i \in 1..Len(s) : (s \o t)[i] = s[i]
        /\ \A j \in 1..Len(t) : (s \o t)[Len(s) + j] = t[j]
    <3>1. Listed(s) /\ Listed(t)
      BY <1>8, <1>9
    <3> QED BY <3>1, JoinEntries
  <2>2. last + (m - last) = m
    BY <1>4
  <2>3. \A k \in 1..last : outer[k] = walk[k]
    BY <1>8, <1>10, <2>1
  <2>4. ASSUME NEW k \in (last + 1)..m PROVE outer[k] = walk[k + d]
    <3>1. PICK j : j = k - last
      OBVIOUS
    <3>2. j \in 1..(m - last) /\ last + j = k /\ (second + j) - 1 = k + d
      BY <1>4, <3>1
    <3>3. outer[last + j] = t[j] /\ t[j] = walk[(second + j) - 1]
      BY <1>8, <1>9, <1>10, <2>1, <3>2
    <3> QED BY <3>2, <3>3
  <2> QED BY <1>8, <1>9, <1>10, <2>1, <2>2, <2>3, <2>4
<1>12. PICK at : at = [k \in 1..m |-> IF k <= last THEN k ELSE k + d]
  OBVIOUS
<1>13. at \in [1..m -> 1..n]
  <2>1. \A k \in 1..m : (IF k <= last THEN k ELSE k + d) \in 1..n
    BY <1>4
  <2> QED BY <1>12, <2>1
<1>14. \A k \in 1..m : outer[k] = walk[at[k]]
  <2>1. ASSUME NEW k \in 1..m PROVE outer[k] = walk[at[k]]
    <3>1. CASE k <= last
      <4>1. k \in 1..last /\ at[k] = k
        BY <1>4, <1>12, <3>1
      <4> QED BY <1>11, <4>1
    <3>2. CASE ~(k <= last)
      <4>1. k \in (last + 1)..m /\ at[k] = k + d
        BY <1>4, <1>12, <3>2
      <4> QED BY <1>11, <4>1
    <3> QED BY <3>1, <3>2
  <2> QED BY <2>1
<1>15. ASSUME NEW k \in 1..m
       PROVE  \/ at[After(m, k)] = After(n, at[k])
              \/ at[After(m, k)] = second /\ After(n, at[k]) = first
  <2>1. CASE k = m
    <3>1. After(m, k) = 1 /\ at[k] = n /\ After(n, n) = 1
      BY <1>4, <1>12, <2>1 DEF After
    <3>2. CASE last = 0
      <4>1. at[1] = second /\ first = 1
        BY <1>4, <1>12, <3>2
      <4> QED BY <3>1, <4>1
    <3>3. CASE last # 0
      <4>1. at[1] = 1
        BY <1>4, <1>12, <3>3
      <4> QED BY <3>1, <4>1
    <3> QED BY <3>2, <3>3
  <2>2. CASE k # m
    <3>1. k + 1 \in 1..m /\ After(m, k) = k + 1
      BY <1>4, <2>2 DEF After
    <3>2. CASE k < last
      <4>1. at[k] = k /\ at[k + 1] = k + 1 /\ k # n
        BY <1>4, <1>12, <3>1, <3>2
      <4> QED BY <3>1, <4>1 DEF After
    <3>3. CASE k = last
      <4>1. at[k] = k /\ at[k + 1] = second /\ k # n /\ k + 1 = first
        <5>1. k <= last /\ ~(k + 1 <= last) /\ k + 1 + d = second /\ k # n /\ k + 1 = first
          BY <1>4, <3>3
        <5> QED BY <1>12, <3>1, <5>1
      <4> QED BY <3>1, <4>1 DEF After
    <3>4. CASE k > last
      <4>1. at[k] = k + d /\ at[k + 1] = (k + d) + 1 /\ k + d # n
        <5>1. ~(k <= last) /\ ~(k + 1 <= last) /\ (k + 1) + d = (k + d) + 1 /\ k + d # n
          BY <1>4, <2>2, <3>4
        <5> QED BY <1>12, <3>1, <5>1
      <4> QED BY <3>1, <4>1 DEF After
    <3> QED BY <1>4, <3>2, <3>3, <3>4
  <2> QED BY <2>1, <2>2
<1>16. \A k \in 1..m : walk[at[After(m, k)]].node = walk[After(n, at[k])].node
  BY <1>0, <1>15
<1>17. ASSUME NEW k \in 1..m PROVE ~(walk[at[k]].used = {"rw"} /\ walk[at[After(m, k)]].used = {"rw"})
  <2>1. at[k] \in 1..n
    BY <1>13
  <2>2. ~(walk[at[k]].used = {"rw"} /\ walk[After(n, at[k])].used = {"rw"})
    BY <1>0, <2>1 DEF Weaves
  <2>3. CASE at[After(m, k)] = After(n, at[k])
    BY <2>2, <2>3
  <2>4. CASE at[After(m, k)] = second /\ After(n, at[k]) = first
    BY <2>2, <2>4
  <2> QED BY <1>15, <2>3, <2>4
<1>18. Follows(walk, n, outer, m, at)
  <2>1. n \in Nat /\ m \in Nat /\ m # 0
    BY <1>4
  <2> QED BY <1>0, <1>11, <1>13, <1>14, <1>16, <1>17, <2>1, Zenon DEF Follows
<1>19. Weaves(E, outer)
  BY <1>18, WeavesFrom
<1>20. m = n - (second - first) /\ m \in Nat \ {0}
  BY <1>1, <1>2, <1>4
<1> QED BY <1>11, <1>19, <1>20
\* A cut keeps a walk without adjacent read-write edges, and shortens it when
\* it comes back to a transaction.
LEMMA CutKeeps ==
    ASSUME NEW E, NEW walk, Weaves(E, walk)
    PROVE  /\ Weaves(E, Cut(walk))
           /\ RepeatsOf(walk) # {} => Len(Cut(walk)) + 1 <= Len(walk)
<1>1. PICK n : n = Len(walk)
  OBVIOUS
<1>2. n \in Nat /\ DOMAIN walk = 1..n /\ Listed(walk)
  BY <1>1, ListedFacts DEF Weaves, IsWalk
<1>3. CASE RepeatsOf(walk) = {}
  <2>1. Cut(walk) = walk
    BY <1>3, Zenon DEF Cut
  <2> QED BY <1>3, <2>1
<1>4. CASE RepeatsOf(walk) # {}
  <2>1. PICK second : second = Min(RepeatsOf(walk))
    OBVIOUS
  <2>2. second \in 1..n /\ \E i \in 1..(second - 1) : walk[i].node = walk[second].node
    <3>1. RepeatsOf(walk) \in SUBSET Nat
      BY <1>2 DEF RepeatsOf
    <3>2. second \in RepeatsOf(walk)
      BY <1>4, <2>1, <3>1, MinIs
    <3> QED BY <1>2, <3>2 DEF RepeatsOf
  <2>3. PICK first : first = CHOOSE i \in 1..(second - 1) : walk[i].node = walk[second].node
    OBVIOUS
  <2>4. first \in 1..(second - 1) /\ walk[first].node = walk[second].node
    BY <2>2, <2>3
  <2>5. Cut(walk) = Shorter(walk, first, second)
    BY <1>4, <2>1, <2>3, Zenon DEF Cut
  <2>6. PICK inner : inner = Inner(walk, first, second)
    OBVIOUS
  <2>7. PICK outer : outer = Outer(walk, first, second)
    OBVIOUS
  <2>8. Shorter(walk, first, second) = IF Alternates(inner) THEN inner ELSE outer
    BY <2>6, <2>7, Zenon DEF Shorter, Inner, Outer
  <2>9. /\ Len(inner) = second - first /\ second - first < n
        /\ Alternates(inner) => Weaves(E, inner)
        /\ ~Alternates(inner) => walk[first].used = {"rw"}
    <3>1. Meets(walk, n, first, second)
      BY <1>1, <1>2, <2>2, <2>4 DEF Meets
    <3> QED BY <2>6, <3>1, InnerWeaves
  <2>10. CASE Alternates(inner)
    <3>1. Cut(walk) = inner
      BY <2>5, <2>8, <2>10
    <3>2. Len(inner) + 1 <= n
      <4>1. first \in Nat /\ second \in Nat
        BY <2>2, <2>4
      <4> QED BY <1>2, <2>9, <4>1
    <3> QED BY <1>1, <2>9, <2>10, <3>1, <3>2
  <2>11. CASE ~Alternates(inner)
    <3>1. Cut(walk) = outer
      BY <2>5, <2>8, <2>11
    <3>2. Len(outer) = n - (second - first) /\ Weaves(E, outer)
      <4>1. Meets(walk, n, first, second) /\ walk[first].used = {"rw"}
        BY <1>1, <1>2, <2>2, <2>4, <2>9, <2>11 DEF Meets
      <4> QED BY <2>7, <4>1, OuterWeaves
    <3>3. Len(outer) + 1 <= n
      <4>1. first \in Nat /\ second \in Nat /\ first < second
        BY <2>2, <2>4
      <4> QED BY <1>2, <3>2, <4>1
    <3> QED BY <1>1, <3>1, <3>2, <3>3
  <2> QED BY <2>10, <2>11
<1> QED BY <1>3, <1>4
---------------------------------------------------------------------------
(* A walk is cut until it is a cycle.                                      *)

\* The walks that _simple() cuts, each one a cut of the one before.
Cuttings(f, walk, n) ==
    f = [i \in 0..n |-> IF i = 0 THEN walk ELSE Cut(f[i - 1])]

\* The walks that _simple() cuts, one by one.
LEMMA CuttingStep ==
    ASSUME NEW walk, NEW f, NEW n \in Nat, Cuttings(f, walk, n)
    PROVE  /\ f[0] = walk
           /\ \A k \in 0..(n - 1) : f[k + 1] = Cut(f[k])
<1>1. \A i \in 0..n : f[i] = IF i = 0 THEN walk ELSE Cut(f[i - 1])
  BY Zenon DEF Cuttings
<1>2. 0 \in 0..n /\ \A k \in 0..(n - 1) : k + 1 \in 0..n /\ k + 1 # 0 /\ (k + 1) - 1 = k
  OBVIOUS
<1>3. ASSUME NEW k \in 0..(n - 1) PROVE f[k + 1] = Cut(f[k])
  <2>1. f[k + 1] = Cut(f[(k + 1) - 1])
    BY <1>1, <1>2
  <2> QED BY <1>2, <2>1, Zenon
<1> QED BY <1>1, <1>2, <1>3

\* There are such cuts.
LEMMA CuttingsExist ==
    ASSUME NEW walk, NEW n \in Nat
    PROVE  \E f : Cuttings(f, walk, n)
<1> DEFINE P == {k \in 0..n : \E f : Cuttings(f, walk, k)}
<1>1. 0 \in P
  <2>1. Cuttings([i \in 0..0 |-> walk], walk, 0)
    BY DEF Cuttings
  <2> QED BY <2>1
<1>2. ASSUME NEW k \in 0..(n - 1), k \in P PROVE k + 1 \in P
  <2>1. PICK f : Cuttings(f, walk, k)
    BY <1>2
  <2>2. PICK g : g = [i \in 0..(k + 1) |-> IF i = k + 1 THEN Cut(f[k]) ELSE f[i]]
    OBVIOUS
  <2>3. ASSUME NEW i \in 0..(k + 1)
        PROVE  g[i] = IF i = 0 THEN walk ELSE Cut(g[i - 1])
    <3>1. k \in Nat /\ k + 1 \in 0..(k + 1) /\ k \in 0..(k + 1) /\ (k + 1) - 1 = k /\ k # k + 1
      OBVIOUS
    <3>2. /\ g[k + 1] = Cut(f[k])
          /\ \A j \in 0..k : g[j] = f[j] /\ j # k + 1 /\ j \in 0..(k + 1)
      BY <2>2, <3>1
    <3>3. CASE i = k + 1
      <4>1. g[k] = f[k] /\ i # 0
        BY <3>1, <3>2, <3>3
      <4>2. g[i] = Cut(g[i - 1])
        BY <3>1, <3>2, <3>3, <4>1, Zenon
      <4> QED BY <4>1, <4>2
    <3>4. CASE i = 0
      <4>1. f[0] = walk /\ g[0] = f[0]
        BY <2>1, <3>1, <3>2, CuttingStep
      <4> QED BY <3>4, <4>1
    <3>5. CASE i # 0 /\ i # k + 1
      <4>1. PICK j : j = i - 1
        OBVIOUS
      <4>2. j \in 0..(k - 1) /\ j + 1 = i /\ i \in 0..k /\ j \in 0..k
        BY <3>1, <3>5, <4>1
      <4>3. f[i] = Cut(f[j])
        <5>1. \A x \in 0..(k - 1) : f[x + 1] = Cut(f[x])
          BY <2>1, <3>1, CuttingStep
        <5> QED BY <4>2, <5>1
      <4>4. g[i] = f[i] /\ g[j] = f[j]
        BY <3>2, <4>2
      <4>5. g[i] = Cut(g[j])
        BY <4>3, <4>4, Zenon
      <4> QED BY <3>5, <4>1, <4>5, Zenon
    <3> QED BY <3>3, <3>4, <3>5
  <2>4. Cuttings(g, walk, k + 1)
    BY <2>2, <2>3 DEF Cuttings
  <2> QED BY <2>4
<1> HIDE DEF P
<1>3. n \in P
  BY <1>1, <1>2, NumbersIn
<1> QED BY <1>3 DEF P

\* Simple() turns what the last of the cuts leaves.
LEMMA SimpleIs ==
    ASSUME NEW walk, NEW n \in Nat, n = Len(walk)
    PROVE  \E f : Cuttings(f, walk, n) /\ Simple(walk) = FromRw(f[n])
<1>1. PICK f : f = CHOOSE g : Cuttings(g, walk, n)
  OBVIOUS
<1>2. Cuttings(f, walk, n)
  BY <1>1, CuttingsExist
<1>3. Simple(walk) = FromRw(f[n])
  BY <1>1, Zenon DEF Simple, Cuttings
<1> QED BY <1>2, <1>3
\* A walk that never comes back to a transaction.
Once(walk) == \A i, j \in 1..Len(walk) : walk[i].node = walk[j].node => i = j

\* A walk without a repeat visits each transaction once.
LEMMA OnceIs ==
    ASSUME NEW walk, Listed(walk)
    PROVE  RepeatsOf(walk) = {} <=> Once(walk)
<1>1. Len(walk) \in Nat /\ DOMAIN walk = 1..Len(walk)
  BY ListedFacts
<1>2. ASSUME RepeatsOf(walk) = {}, NEW i \in 1..Len(walk), NEW j \in 1..Len(walk),
             walk[i].node = walk[j].node
      PROVE  i = j
  <2>1. ~(i < j) /\ ~(j < i)
    <3>1. i < j => j \in RepeatsOf(walk)
      BY <1>1, <1>2 DEF RepeatsOf
    <3>2. j < i => i \in RepeatsOf(walk)
      BY <1>1, <1>2 DEF RepeatsOf
    <3> QED BY <1>2, <3>1, <3>2
  <2> QED BY <2>1
<1>3. ASSUME Once(walk), NEW j \in RepeatsOf(walk) PROVE FALSE
  <2>1. j \in 1..Len(walk) /\ \E i \in 1..(j - 1) : walk[i].node = walk[j].node
    BY <1>1, <1>3 DEF RepeatsOf
  <2>2. PICK i \in 1..(j - 1) : walk[i].node = walk[j].node
    BY <2>1
  <2>3. i \in 1..Len(walk) /\ i # j
    BY <1>1, <2>1, <2>2
  <2> QED BY <1>3, <2>1, <2>2, <2>3 DEF Once
<1>4. RepeatsOf(walk) = {} => Once(walk)
  BY <1>2 DEF Once
<1>5. Once(walk) => RepeatsOf(walk) = {}
  BY <1>3
<1> QED BY <1>4, <1>5

\* As many cuts as the walk has steps leave no repeat.
LEMMA CutsKeep ==
    ASSUME NEW E, NEW walk, Weaves(E, walk), NEW n \in Nat, n = Len(walk), NEW f, Cuttings(f, walk, n)
    PROVE  Weaves(E, f[n]) /\ Once(f[n])
<1> DEFINE P == {k \in 0..n : Weaves(E, f[k]) /\ (RepeatsOf(f[k]) = {} \/ Len(f[k]) + k <= n)}
<1>1. 0 \in P
  <2>1. f[0] = walk
    BY CuttingStep
  <2>2. Len(f[0]) + 0 <= n /\ 0 \in 0..n
    BY <2>1
  <2> QED BY <2>1, <2>2
<1>2. ASSUME NEW k \in 0..(n - 1), k \in P PROVE k + 1 \in P
  <2>1. f[k + 1] = Cut(f[k])
    BY CuttingStep
  <2>2. Weaves(E, f[k]) /\ (RepeatsOf(f[k]) = {} \/ Len(f[k]) + k <= n)
    BY <1>2
  <2>3. Weaves(E, f[k + 1])
    BY <2>1, <2>2, CutKeeps
  <2>4. ASSUME RepeatsOf(f[k]) = {} PROVE RepeatsOf(f[k + 1]) = {}
    <3>1. f[k + 1] = f[k]
      BY <2>1, <2>4, Zenon DEF Cut
    <3> QED BY <2>4, <3>1
  <2>5. ASSUME RepeatsOf(f[k]) # {} PROVE Len(f[k + 1]) + (k + 1) <= n
    <3>1. Len(f[k + 1]) + 1 <= Len(f[k]) /\ Len(f[k]) + k <= n
      BY <2>1, <2>2, <2>5, CutKeeps
    <3>2. Len(f[k]) \in Nat /\ Len(f[k + 1]) \in Nat
      BY <2>2, <2>3, ListedFacts DEF Weaves, IsWalk
    <3>3. PICK a : a = Len(f[k])
      OBVIOUS
    <3>4. PICK b : b = Len(f[k + 1])
      OBVIOUS
    <3>5. a \in Nat /\ b \in Nat /\ b + 1 <= a /\ a + k <= n /\ k \in Nat
      BY <3>1, <3>2, <3>3, <3>4
    <3>6. b + (k + 1) <= n
      BY <3>5
    <3> QED BY <3>4, <3>6
  <2>6. RepeatsOf(f[k + 1]) = {} \/ Len(f[k + 1]) + (k + 1) <= n
    BY <2>4, <2>5
  <2>7. k + 1 \in 0..n
    OBVIOUS
  <2> QED BY <2>3, <2>6, <2>7
<1>3. n \in P
  <2> HIDE DEF P
  <2> QED BY <1>1, <1>2, NumbersIn
<1>4. Weaves(E, f[n]) /\ (RepeatsOf(f[n]) = {} \/ Len(f[n]) + n <= n)
  BY <1>3
<1>5. Len(f[n]) \in Nat /\ Len(f[n]) # 0 /\ Listed(f[n])
  BY <1>4, ListedFacts DEF Weaves, IsWalk
<1>6. RepeatsOf(f[n]) = {}
  BY <1>4, <1>5
<1> QED BY <1>4, <1>5, <1>6, OnceIs

\* A cycle that starts elsewhere.
Turned(cycle, start) == SubSeq(cycle, start, Len(cycle)) \o SubSeq(cycle, 1, start - 1)

\* A cycle that is turned to another start is the same cycle.
LEMMA TurnedWeaves ==
    ASSUME NEW E, NEW cycle, Weaves(E, cycle), Once(cycle), NEW start \in 1..Len(cycle)
    PROVE  Weaves(E, Turned(cycle, start)) /\ Once(Turned(cycle, start))
<1>1. PICK n : n = Len(cycle)
  OBVIOUS
<1>2. Listed(cycle) /\ n \in Nat
  BY <1>1, ListedFacts DEF Weaves, IsWalk
<1>3. PICK last : last = start - 1
  OBVIOUS
<1>4. PICK m : m = (n - start) + 1
  OBVIOUS
<1>5. /\ start \in Nat /\ start # 0 /\ start <= n /\ n # 0 /\ last \in Nat /\ last + 1 = start /\ last < n
      /\ m \in Nat /\ m # 0 /\ m <= n /\ m + last = n
  BY <1>1, <1>2, <1>3, <1>4
<1>6. PICK s : s = SubSeq(cycle, start, n)
  OBVIOUS
<1>7. PICK t : t = SubSeq(cycle, 1, last)
  OBVIOUS
<1>8. Listed(s) /\ Len(s) = m /\ \A k \in 1..m : s[k] = cycle[k + last]
  <2>1. start \in Nat /\ n \in Nat /\ start # 0 /\ n <= Len(cycle) /\ start <= n + 1
    BY <1>1, <1>2, <1>5
  <2>2. /\ Listed(SubSeq(cycle, start, n)) /\ Len(SubSeq(cycle, start, n)) = (n - start) + 1
        /\ \A k \in 1..((n - start) + 1) : SubSeq(cycle, start, n)[k] = cycle[(start + k) - 1]
    BY <1>2, <2>1, ListedPart
  <2>3. \A k \in 1..m : (start + k) - 1 = k + last
    BY <1>5
  <2> QED BY <1>4, <1>6, <2>2, <2>3
<1>9. Listed(t) /\ Len(t) = last /\ \A k \in 1..last : t[k] = cycle[k]
  <2>1. 1 \in Nat /\ last \in Nat /\ 1 # 0 /\ last <= Len(cycle) /\ 1 <= last + 1
    BY <1>1, <1>5
  <2>2. /\ Listed(SubSeq(cycle, 1, last)) /\ Len(SubSeq(cycle, 1, last)) = (last - 1) + 1
        /\ \A k \in 1..((last - 1) + 1) : SubSeq(cycle, 1, last)[k] = cycle[(1 + k) - 1]
    BY <1>2, <2>1, ListedPart
  <2>3. (last - 1) + 1 = last /\ \A k \in 1..last : (1 + k) - 1 = k
    BY <1>5
  <2> QED BY <1>7, <2>2, <2>3
<1>10. PICK turned : turned = Turned(cycle, start)
  OBVIOUS
<1>11. turned = s \o t
  BY <1>1, <1>3, <1>6, <1>7, <1>10, Zenon DEF Turned
<1>12. /\ Listed(turned) /\ Len(turned) = n
       /\ \A k \in 1..m : turned[k] = cycle[k + last]
       /\ \A k \in (m + 1)..n : turned[k] = cycle[k - m]
  <2>1. /\ Listed(s \o t) /\ Len(s \o t) = Len(s) + Len(t)
        /\ \A i \in 1..Len(s) : (s \o t)[i] = s[i]
        /\ \A j \in 1..Len(t) : (s \o t)[Len(s) + j] = t[j]
    <3>1. Listed(s) /\ Listed(t)
      BY <1>8, <1>9
    <3> QED BY <3>1, JoinEntries
  <2>2. \A k \in 1..m : turned[k] = cycle[k + last]
    BY <1>8, <1>11, <2>1
  <2>3. ASSUME NEW k \in (m + 1)..n PROVE turned[k] = cycle[k - m]
    <3>1. PICK j : j = k - m
      OBVIOUS
    <3>2. j \in 1..last /\ m + j = k
      BY <1>5, <3>1
    <3>3. turned[m + j] = t[j] /\ t[j] = cycle[j]
      BY <1>8, <1>9, <1>11, <2>1, <3>2
    <3> QED BY <3>1, <3>2, <3>3
  <2> QED BY <1>5, <1>8, <1>9, <1>11, <2>1, <2>2, <2>3
<1>13. PICK at : at = [k \in 1..n |-> IF k <= m THEN k + last ELSE k - m]
  OBVIOUS
<1>14. at \in [1..n -> 1..n]
  <2>1. \A k \in 1..n : (IF k <= m THEN k + last ELSE k - m) \in 1..n
    BY <1>5
  <2> QED BY <1>13, <2>1
<1>15. \A k \in 1..n : turned[k] = cycle[at[k]]
  <2>1. ASSUME NEW k \in 1..n PROVE turned[k] = cycle[at[k]]
    <3>1. CASE k <= m
      <4>1. k \in 1..m /\ at[k] = k + last
        BY <1>5, <1>13, <3>1
      <4> QED BY <1>12, <4>1
    <3>2. CASE ~(k <= m)
      <4>1. k \in (m + 1)..n /\ at[k] = k - m
        BY <1>5, <1>13, <3>2
      <4> QED BY <1>12, <4>1
    <3> QED BY <3>1, <3>2
  <2> QED BY <2>1
<1>16. ASSUME NEW k \in 1..n PROVE at[After(n, k)] = After(n, at[k])
  <2>1. CASE k = n
    <3>1. After(n, k) = 1 /\ at[1] = start
      BY <1>5, <1>13, <2>1 DEF After
    <3>2. CASE last = 0
      <4>1. at[k] = n /\ start = 1
        BY <1>5, <1>13, <2>1, <3>2
      <4> QED BY <3>1, <4>1 DEF After
    <3>3. CASE last # 0
      <4>1. at[k] = last /\ last # n
        BY <1>5, <1>13, <2>1, <3>3
      <4> QED BY <1>5, <3>1, <4>1 DEF After
    <3> QED BY <3>2, <3>3
  <2>2. CASE k # n
    <3>1. k + 1 \in 1..n /\ After(n, k) = k + 1
      BY <1>5, <2>2 DEF After
    <3>2. CASE k < m
      <4>1. at[k] = k + last /\ at[k + 1] = (k + last) + 1 /\ k + last # n
        <5>1. k <= m /\ k + 1 <= m /\ (k + 1) + last = (k + last) + 1 /\ k + last # n
          BY <1>5, <3>2
        <5> QED BY <1>13, <3>1, <5>1
      <4> QED BY <3>1, <4>1 DEF After
    <3>3. CASE k = m
      <4>1. at[k] = n /\ at[k + 1] = 1
        <5>1. k <= m /\ ~(k + 1 <= m) /\ k + last = n /\ (k + 1) - m = 1
          BY <1>5, <3>3
        <5> QED BY <1>13, <3>1, <5>1
      <4> QED BY <3>1, <4>1 DEF After
    <3>4. CASE k > m
      <4>1. at[k] = k - m /\ at[k + 1] = (k - m) + 1 /\ k - m # n
        <5>1. ~(k <= m) /\ ~(k + 1 <= m) /\ (k + 1) - m = (k - m) + 1 /\ k - m # n
          BY <1>5, <2>2, <3>4
        <5> QED BY <1>13, <3>1, <5>1
      <4> QED BY <3>1, <4>1 DEF After
    <3> QED BY <1>5, <3>2, <3>3, <3>4
  <2> QED BY <2>1, <2>2
<1>17. \A k \in 1..n : cycle[at[After(n, k)]].node = cycle[After(n, at[k])].node
  BY <1>16
<1>18. ASSUME NEW k \in 1..n PROVE ~(cycle[at[k]].used = {"rw"} /\ cycle[at[After(n, k)]].used = {"rw"})
  <2>1. at[k] \in 1..n
    BY <1>14
  <2>2. ~(cycle[at[k]].used = {"rw"} /\ cycle[After(n, at[k])].used = {"rw"})
    BY <1>1, <2>1 DEF Weaves
  <2> QED BY <1>16, <2>2
<1>19. Weaves(E, turned)
  <2>1. n \in Nat /\ n # 0 /\ n = Len(cycle)
    BY <1>1, <1>5
  <2>2. Follows(cycle, n, turned, n, at)
    BY <1>12, <1>14, <1>15, <1>17, <1>18, <2>1, Zenon DEF Follows
  <2> QED BY <2>2, WeavesFrom
<1>20. Once(turned)
  <2>1. ASSUME NEW i \in 1..n, NEW j \in 1..n, turned[i].node = turned[j].node PROVE i = j
    <3>1. at[i] = at[j]
      <4>1. cycle[at[i]].node = cycle[at[j]].node
        BY <1>15, <2>1
      <4>2. at[i] \in 1..n /\ at[j] \in 1..n
        BY <1>14
      <4> QED BY <1>1, <4>1, <4>2 DEF Once
    <3>2. /\ at[i] = IF i <= m THEN i + last ELSE i - m
          /\ at[j] = IF j <= m THEN j + last ELSE j - m
      BY <1>13
    <3>3. m \in Nat /\ last \in Nat /\ m + last = n
      BY <1>5
    <3>4. CASE i <= m /\ j <= m
      <4>1. i + last = j + last
        BY <3>1, <3>2, <3>4
      <4> QED BY <3>3, <4>1
    <3>5. CASE i <= m /\ ~(j <= m)
      <4>1. i + last = j - m
        BY <3>1, <3>2, <3>5
      <4> QED BY <3>3, <3>5, <4>1
    <3>6. CASE ~(i <= m) /\ j <= m
      <4>1. i - m = j + last
        BY <3>1, <3>2, <3>6
      <4> QED BY <3>3, <3>6, <4>1
    <3>7. CASE ~(i <= m) /\ ~(j <= m)
      <4>1. i - m = j - m
        BY <3>1, <3>2, <3>7
      <4> QED BY <3>3, <4>1
    <3> QED BY <3>4, <3>5, <3>6, <3>7
  <2> QED BY <1>12, <2>1 DEF Once
<1> QED BY <1>10, <1>19, <1>20

\* What _simple() makes of a closed walk is a cycle without adjacent read-write
\* edges.
THEOREM SimpleWeaves ==
    ASSUME NEW E, NEW walk, Weaves(E, walk)
    PROVE  Weaves(E, Simple(walk)) /\ Once(Simple(walk))
<1>1. PICK n : n = Len(walk)
  OBVIOUS
<1>2. n \in Nat
  BY <1>1, ListedFacts DEF Weaves, IsWalk
<1>3. PICK f : Cuttings(f, walk, n) /\ Simple(walk) = FromRw(f[n])
  BY <1>1, <1>2, SimpleIs
<1>4. PICK cycle : cycle = f[n]
  OBVIOUS
<1>5. Weaves(E, cycle) /\ Once(cycle)
  BY <1>1, <1>2, <1>3, <1>4, CutsKeep
<1>6. CASE RwSteps(cycle) = {}
  <2>1. FromRw(cycle) = cycle
    BY <1>6, Zenon DEF FromRw
  <2> QED BY <1>3, <1>4, <1>5, <2>1
<1>7. CASE RwSteps(cycle) # {}
  <2>1. PICK start : start = Min(RwSteps(cycle))
    OBVIOUS
  <2>2. FromRw(cycle) = Turned(cycle, start)
    BY <1>7, <2>1, Zenon DEF FromRw, Turned
  <2>3. start \in 1..Len(cycle)
    <3>1. DOMAIN cycle = 1..Len(cycle) /\ Len(cycle) \in Nat
      BY <1>5, ListedFacts DEF Weaves, IsWalk
    <3>2. RwSteps(cycle) \in SUBSET Nat
      BY <3>1 DEF RwSteps
    <3>3. start \in RwSteps(cycle)
      BY <1>7, <2>1, <3>2, MinIs
    <3> QED BY <3>1, <3>3 DEF RwSteps
  <2>4. Weaves(E, Turned(cycle, start)) /\ Once(Turned(cycle, start))
    BY <1>5, <2>3, TurnedWeaves
  <2> QED BY <1>3, <1>4, <2>2, <2>4
<1> QED BY <1>6, <1>7
---------------------------------------------------------------------------
(* The graph of the states of the G-nonadjacent search.                    *)

\* The states of the search in a component.
States(C) == [node : C, afterRw : BOOLEAN, taken : BOOLEAN]

\* The search has finitely many states to take.
LEMMA StatesFinite ==
    ASSUME NEW C, IsFiniteSet(C)
    PROVE  IsFiniteSet(States(C))
<1>1. PICK P : P = (C \X BOOLEAN) \X BOOLEAN
  OBVIOUS
<1>2. IsFiniteSet(P)
  <2>1. IsFiniteSet(BOOLEAN)
    <3>1. BOOLEAN = {TRUE} \cup {FALSE}
      OBVIOUS
    <3>2. IsFiniteSet({TRUE}) /\ IsFiniteSet({FALSE})
      BY FS_Singleton
    <3> QED BY <3>1, <3>2, FS_Union
  <2>2. IsFiniteSet(C \X BOOLEAN)
    BY <2>1, FS_Product
  <2> QED BY <1>1, <2>1, <2>2, FS_Product
<1>3. PICK f : f = [p \in P |-> [node |-> p[1][1], afterRw |-> p[1][2], taken |-> p[2]]]
  OBVIOUS
<1>4. f \in [P -> States(C)]
  BY <1>1, <1>3 DEF States
<1>5. ASSUME NEW s \in States(C) PROVE \E p \in P : f[p] = s
  <2>1. s.node \in C /\ s.afterRw \in BOOLEAN /\ s.taken \in BOOLEAN
        /\ s = [node |-> s.node, afterRw |-> s.afterRw, taken |-> s.taken]
    BY <1>5 DEF States
  <2>2. PICK p : p = <<<<s.node, s.afterRw>>, s.taken>>
    OBVIOUS
  <2>3. p \in P /\ p[1][1] = s.node /\ p[1][2] = s.afterRw /\ p[2] = s.taken
    BY <1>1, <2>1, <2>2
  <2> QED BY <1>3, <2>1, <2>3
<1>6. f \in Surjection(P, States(C))
  BY <1>4, <1>5 DEF Surjection
<1> QED BY <1>2, <1>6, FS_Surjection

\* The states after a state.
NextStates(E, s) ==
    {State(b, FALSE, s.taken) : b \in TargetsOf(E, s.node, NonRw)}
    \cup (IF s.afterRw THEN {} ELSE {State(b, TRUE, TRUE) : b \in TargetsOf(E, s.node, {"rw"})})

SoonerRank(S, i) == CHOOSE x \in S : Cardinality({y \in S : Sooner(y, x)}) = i - 1

\* They are listed once each.
LEMMA AlternativesList ==
    ASSUME NEW C, NEW E, IsGraph(C, E), NEW s \in States(C)
    PROVE  /\ NextStates(E, s) \subseteq States(C)
           /\ Listed(Alternatives(E, s)) /\ IsInjective(Alternatives(E, s))
           /\ Held(Alternatives(E, s)) = NextStates(E, s)
<1>1. PICK S : S = NextStates(E, s)
  OBVIOUS
<1>2. S \subseteq States(C)
  <2>1. s.taken \in BOOLEAN
    BY DEF States
  <2>2. \A b \in C : State(b, FALSE, s.taken) \in States(C) /\ State(b, TRUE, TRUE) \in States(C)
    BY <2>1 DEF States, State
  <2>3. TargetsOf(E, s.node, NonRw) \subseteq C /\ TargetsOf(E, s.node, {"rw"}) \subseteq C
    BY TargetsAre
  <2> QED BY <1>1, <2>2, <2>3 DEF NextStates
<1>3. IsFiniteSet(S)
  BY <1>2, StatesFinite, FS_Subset DEF IsGraph
<1>4. ASSUME NEW x \in S, NEW y \in S
      PROVE  /\ x.node \in Nat /\ y.node \in Nat /\ x.afterRw \in BOOLEAN /\ y.afterRw \in BOOLEAN
             /\ x.node = y.node /\ x.afterRw = y.afterRw => x = y
  <2>1. x \in States(C) /\ y \in States(C) /\ C \subseteq Nat
    BY <1>2 DEF IsGraph
  <2>2. x.node \in Nat /\ y.node \in Nat /\ x.afterRw \in BOOLEAN /\ y.afterRw \in BOOLEAN
    BY <2>1 DEF States
  <2>3. \A z \in S : /\ z = [node |-> z.node, afterRw |-> z.afterRw, taken |-> z.taken]
                     /\ z.afterRw = TRUE => z.taken = TRUE
                     /\ z.afterRw = FALSE => z.taken = s.taken
    BY <1>1 DEF NextStates, State
  <2>4. x.node = y.node /\ x.afterRw = y.afterRw => x = y
    <3> SUFFICES ASSUME x.node = y.node, x.afterRw = y.afterRw PROVE x = y
      OBVIOUS
    <3>1. x.taken = y.taken
      BY <2>2, <2>3
    <3> QED BY <2>3, <3>1
  <2> QED BY <2>2, <2>4
<1>5. PICK R : R = {p \in S \X S : Sooner(p[1], p[2])}
  OBVIOUS
<1>6. \A x, y \in S : <<x, y>> \in R <=> Sooner(x, y)
  BY <1>5
<1>7. StrictTotalOrder(R, S)
  <2>1. \A x \in S : ~Sooner(x, x)
    BY <1>4 DEF Sooner
  <2>2. \A x, y, z \in S : Sooner(x, y) /\ Sooner(y, z) => Sooner(x, z)
    BY <1>4 DEF Sooner
  <2>3. \A x, y \in S : x # y => Sooner(x, y) \/ Sooner(y, x)
    BY <1>4 DEF Sooner
  <2> QED BY <1>6, <2>1, <2>2, <2>3 DEF StrictTotalOrder
<1>8. \A x \in S : {y \in S : Sooner(y, x)} = SetLessThan(x, R, S)
  BY <1>6 DEF SetLessThan
<1>9. PICK n : n = Cardinality(S)
  OBVIOUS
<1>10. PICK at : at = [i \in 1..n |-> SoonerRank(S, i)]
  OBVIOUS
<1>11. at = Alternatives(E, s)
  <2>1. PICK list : list = Ascending(S, Sooner)
    OBVIOUS
  <2>2. list = [i \in 1..Cardinality(S) |-> SoonerRank(S, i)]
    BY <2>1, Zenon DEF Ascending, SoonerRank
  <2>3. list = Ascending(NextStates(E, s), Sooner)
    BY <1>1, <2>1, Zenon
  <2>4. list = Alternatives(E, s)
    BY <2>3, Zenon DEF Alternatives, NextStates
  <2>5. at = list
    BY <1>9, <1>10, <2>2, Zenon
  <2> QED BY <2>4, <2>5
<1>12. ASSUME NEW i \in 1..Cardinality(S), NEW x \in S, Cardinality(SetLessThan(x, R, S)) = i - 1
       PROVE  at[i] \in S /\ Cardinality(SetLessThan(at[i], R, S)) = i - 1
  <2>1. Cardinality({y \in S : Sooner(y, x)}) = i - 1
    BY <1>8, <1>12
  <2>2. at[i] = SoonerRank(S, i)
    BY <1>9, <1>10
  <2>3. at[i] \in S /\ Cardinality({y \in S : Sooner(y, at[i])}) = i - 1
    BY <2>1, <2>2, Zenon DEF SoonerRank
  <2> QED BY <1>8, <2>3
<1>13. Lists(at, R, S)
  BY <1>3, <1>7, <1>12, RanksListInOrder
<1>14. /\ n \in Nat /\ \A i \in 1..n : at[i] \in S
       /\ \A x \in S : \E i \in 1..n : at[i] = x
       /\ \A i, j \in 1..n : i < j <=> <<at[i], at[j]>> \in R
  BY <1>9, <1>13 DEF Lists
<1>15. at = [i \in 1..n |-> at[i]] /\ DOMAIN at = 1..n
  BY <1>10
<1>16. Listed(at)
  BY <1>14, <1>15, ListedFunction
<1>17. ASSUME NEW i \in 1..n, NEW j \in 1..n, at[i] = at[j] PROVE i = j
  <2>1. <<at[i], at[i]>> \notin R
    BY <1>7, <1>14 DEF StrictTotalOrder
  <2>2. ~(i < j) /\ ~(j < i)
    BY <1>14, <1>17, <2>1
  <2> QED BY <1>14, <2>2
<1>18. IsInjective(at)
  BY <1>15, <1>17 DEF IsInjective
<1>19. Held(at) = S
  BY <1>14, <1>15 DEF Held
<1> QED BY <1>1, <1>2, <1>11, <1>16, <1>18, <1>19
---------------------------------------------------------------------------
(* The walks that a search closes.                                         *)

\* The graphs that the two searches take.
CycleNext(E, component, R) == [n \in component |-> Adjacent(E, n, R)]
StateNext(E, component) == [s \in States(component) |-> Alternatives(E, s)]

\* The targets in a component are a graph to be searched.
LEMMA CycleNextIs ==
    ASSUME NEW C, NEW E, IsGraph(C, E), NEW component, component \subseteq C, NEW R
    PROVE  /\ DOMAIN CycleNext(E, component, R) = component /\ IsNext(CycleNext(E, component, R))
           /\ \A a \in component : Held(CycleNext(E, component, R)[a]) = TargetsOf(E, a, R)
<1>1. PICK next : next = CycleNext(E, component, R)
  OBVIOUS
<1>2. DOMAIN next = component /\ \A a \in component : next[a] = Adjacent(E, a, R)
  BY <1>1, Zenon DEF CycleNext
<1>3. IsFiniteSet(component)
  BY FS_Subset DEF IsGraph
<1>4. ASSUME NEW a \in component
      PROVE  Listed(next[a]) /\ IsInjective(next[a]) /\ Held(next[a]) = TargetsOf(E, a, R)
  <2>1. /\ Listed(Adjacent(E, a, R)) /\ IsInjective(Adjacent(E, a, R))
        /\ Held(Adjacent(E, a, R)) = TargetsOf(E, a, R)
    BY AdjacentLists
  <2>2. next[a] = Adjacent(E, a, R)
    BY <1>2
  <2> QED BY <2>1, <2>2, Zenon
<1>5. IsNext(next)
  BY <1>2, <1>3, <1>4 DEF IsNext
<1> QED BY <1>1, <1>2, <1>4, <1>5

\* The states of a component are a graph to be searched.
LEMMA StateNextIs ==
    ASSUME NEW C, NEW E, IsGraph(C, E), NEW component, component \subseteq C
    PROVE  /\ DOMAIN StateNext(E, component) = States(component) /\ IsNext(StateNext(E, component))
           /\ \A s \in States(component) : Held(StateNext(E, component)[s]) = NextStates(E, s)
<1>1. PICK next : next = StateNext(E, component)
  OBVIOUS
<1>2. DOMAIN next = States(component) /\ \A s \in States(component) : next[s] = Alternatives(E, s)
  BY <1>1, Zenon DEF StateNext
<1>3. IsFiniteSet(States(component))
  <2>1. IsFiniteSet(component)
    BY FS_Subset DEF IsGraph
  <2> QED BY <2>1, StatesFinite
<1>4. ASSUME NEW s \in States(component)
      PROVE  Listed(next[s]) /\ IsInjective(next[s]) /\ Held(next[s]) = NextStates(E, s)
  <2>1. s \in States(C)
    BY DEF States
  <2>2. /\ Listed(Alternatives(E, s)) /\ IsInjective(Alternatives(E, s))
        /\ Held(Alternatives(E, s)) = NextStates(E, s)
    BY <2>1, AlternativesList
  <2>3. next[s] = Alternatives(E, s)
    BY <1>2
  <2> QED BY <2>2, <2>3, Zenon
<1>5. IsNext(next)
  BY <1>2, <1>3, <1>4 DEF IsNext
<1> QED BY <1>1, <1>2, <1>4, <1>5

\* The closing edge of a try.
IsTry(E, component, edge, closing) ==
    /\ edge \in E /\ edge.relation = closing /\ edge.from \in component /\ edge.to \in component

\* The cycle of a closing edge and a way back: the edge comes first.
ClosesWith(E, cycle, closing, first, others) ==
    /\ IsWalk(E, cycle) /\ Once(cycle) /\ Len(cycle) > 1
    /\ Has(E, cycle[1].node, cycle[After(Len(cycle), 1)].node, {closing})
    /\ cycle[1].used = first
    /\ \A i \in 2..Len(cycle) : cycle[i].used = others

\* The relations that a cycle states of its first edge.
First(kind) == IF kind = "Gsingle" THEN {Searches[kind].closing} ELSE Searches[kind].component

\* The fields of a step.
LEMMA StepFields == \A node, used : Step(node, used).node = node /\ Step(node, used).used = used
  BY DEF Step

\* A closing edge and a way back are a cycle of the kind.
LEMMA ClosedIs ==
    ASSUME NEW C, NEW E, IsGraph(C, E), NEW component, component \subseteq C,
           NEW kind \in {"G0", "G1c", "Gsingle", "G2"}, NEW edge, IsTry(E, component, edge, Searches[kind].closing),
           NEW back, back # <<>>,
           back = Search(edge.to, {edge.from}, CycleNext(E, component, Searches[kind].path))
    PROVE  ClosesWith(E, Closed(kind, edge, back), Searches[kind].closing, First(kind), Searches[kind].path)
<1>1. PICK R : R = Searches[kind].path
  OBVIOUS
<1>2. PICK next : next = CycleNext(E, component, R)
  OBVIOUS
<1>3. /\ DOMAIN next = component /\ IsNext(next)
      /\ \A a \in component : Held(next[a]) = TargetsOf(E, a, R)
  BY <1>2, CycleNextIs
<1>4. PICK from : from = edge.from
  OBVIOUS
<1>5. PICK to : to = edge.to
  OBVIOUS
<1>6. /\ edge \in E /\ edge.relation = Searches[kind].closing /\ from \in component /\ to \in component
      /\ from # to /\ edge = [from |-> from, to |-> to, relation |-> Searches[kind].closing]
  BY <1>4, <1>5 DEF IsTry, IsGraph
<1>7. back = Search(to, {from}, next)
  BY <1>1, <1>2, <1>4, <1>5
<1>8. Way(back, to, next, component) /\ back[Len(back)] = from
  <2>1. Way(back, to, next, DOMAIN next) /\ back[Len(back)] \in {from}
    BY <1>3, <1>6, <1>7, SearchFinds
  <2> QED BY <1>3, <2>1
<1>9. PICK n : n = Len(back)
  OBVIOUS
<1>10. n \in Nat /\ DOMAIN back = 1..n /\ 1 \in 1..n /\ \A i \in 1..n : back[i] \in component
  BY <1>8, <1>9, WayEnd
<1>11. back[1] = to /\ back[n] = from /\ n # 1 /\ n > 1
  <2>1. back[1] = to /\ back[n] = from
    BY <1>8, <1>9 DEF Way
  <2> QED BY <1>6, <1>10, <2>1
<1>12. \A i \in 1..(n - 1) : Has(E, back[i], back[i + 1], R)
  <2>1. ASSUME NEW i \in 1..(n - 1) PROVE Has(E, back[i], back[i + 1], R)
    <3>1. back[i + 1] \in Held(next[back[i]])
      BY <1>8, <1>9 DEF Way
    <3>2. back[i] \in component
      <4>1. i \in 1..n
        BY <1>10
      <4> QED BY <1>10, <4>1
    <3>3. back[i + 1] \in TargetsOf(E, back[i], R)
      BY <1>3, <3>1, <3>2
    <3> QED BY <3>3, TargetsAre
  <2> QED BY <2>1
<1>13. PICK cycle : cycle = Closed(kind, edge, back)
  OBVIOUS
<1>14. cycle = [i \in 1..n |-> IF i = 1 THEN Step(from, First(kind)) ELSE Step(back[i - 1], R)]
  <2>1. cycle = [i \in DOMAIN back |-> IF i = 1 THEN Step(edge.from, First(kind)) ELSE Step(back[i - 1], Searches[kind].path)]
    BY <1>13, Zenon DEF Closed, First
  <2> QED BY <1>1, <1>4, <1>10, <2>1, Zenon
<1>15. /\ cycle[1].node = from /\ cycle[1].used = First(kind)
       /\ \A i \in 2..n : cycle[i].node = back[i - 1] /\ cycle[i].used = R
  <2>1. \A i \in 2..n : i \in 1..n /\ i # 1
    OBVIOUS
  <2>2. cycle[1] = Step(from, First(kind)) /\ \A i \in 2..n : cycle[i] = Step(back[i - 1], R)
    BY <1>10, <1>14, <2>1
  <2>3. cycle[1].node = from /\ cycle[1].used = First(kind)
    BY <2>2, StepFields
  <2>4. ASSUME NEW i \in 2..n PROVE cycle[i].node = back[i - 1] /\ cycle[i].used = R
    <3>1. cycle[i] = Step(back[i - 1], R)
      BY <2>2
    <3> QED BY <3>1, StepFields
  <2> QED BY <2>3, <2>4
<1>16. Listed(cycle) /\ Len(cycle) = n
  <2>1. cycle = [i \in 1..n |-> cycle[i]]
    BY <1>14
  <2> QED BY <1>10, <2>1, ListedFunction
<1>17. Searches[kind].closing \in First(kind)
  BY DEF Searches, First, NonRw, Relations
<1>18. \A r \in First(kind) \cup {Searches[kind].closing} :
           r = Searches[kind].closing => [from |-> from, to |-> to, relation |-> r] \in E
  BY <1>6
<1>19. Has(E, from, to, First(kind)) /\ Has(E, from, to, {Searches[kind].closing})
  BY <1>17, <1>18 DEF Has
<1>20. After(n, 1) = 2 /\ 2 \in 2..n /\ cycle[2].node = to
  <2>1. After(n, 1) = 2 /\ 2 \in 2..n /\ 2 - 1 = 1
    BY <1>10, <1>11 DEF After
  <2> QED BY <1>11, <1>15, <2>1
<1>21. ASSUME NEW i \in 1..n PROVE Has(E, cycle[i].node, cycle[After(n, i)].node, cycle[i].used)
  <2>1. CASE i = 1
    BY <1>15, <1>19, <1>20, <2>1
  <2>2. CASE i # 1
    <3>1. PICK j : j = i - 1
      OBVIOUS
    <3>2. j \in 1..(n - 1) /\ j + 1 = i /\ i \in 2..n
      BY <1>10, <2>2, <3>1
    <3>3. cycle[i].node = back[j] /\ cycle[i].used = R /\ Has(E, back[j], back[i], R)
      BY <1>12, <1>15, <3>1, <3>2
    <3>4. cycle[After(n, i)].node = back[i]
      <4>1. CASE i = n
        BY <1>11, <1>15, <4>1 DEF After
      <4>2. CASE i # n
        <5>1. After(n, i) = i + 1 /\ i + 1 \in 2..n /\ (i + 1) - 1 = i
          BY <1>10, <4>2 DEF After
        <5> QED BY <1>15, <5>1
      <4> QED BY <4>1, <4>2
    <3> QED BY <3>3, <3>4
  <2> QED BY <2>1, <2>2
<1>22. IsWalk(E, cycle)
  BY <1>10, <1>11, <1>16, <1>21 DEF IsWalk
<1>23. Once(cycle)
  <2>1. \A i, j \in 1..n : back[i] = back[j] => i = j
    BY <1>8, <1>10 DEF Way, IsInjective
  <2>2. PICK at : at = [i \in 1..n |-> IF i = 1 THEN n ELSE i - 1]
    OBVIOUS
  <2>3. \A i \in 1..n : at[i] \in 1..n /\ cycle[i].node = back[at[i]]
    <3>1. ASSUME NEW i \in 1..n PROVE at[i] \in 1..n /\ cycle[i].node = back[at[i]]
      <4>1. CASE i = 1
        BY <1>10, <1>11, <1>15, <2>2, <4>1
      <4>2. CASE i # 1
        <5>1. i \in 2..n /\ i - 1 \in 1..n /\ at[i] = i - 1
          BY <1>10, <2>2, <4>2
        <5> QED BY <1>15, <5>1
      <4> QED BY <4>1, <4>2
    <3> QED BY <3>1
  <2>4. ASSUME NEW i \in 1..n, NEW j \in 1..n, cycle[i].node = cycle[j].node PROVE i = j
    <3>1. at[i] = at[j]
      <4>1. PICK k : k = at[i]
        OBVIOUS
      <4>2. PICK l : l = at[j]
        OBVIOUS
      <4>3. k \in 1..n /\ l \in 1..n /\ back[k] = back[l]
        BY <2>3, <2>4, <4>1, <4>2
      <4>4. k = l
        BY <2>1, <4>3
      <4> QED BY <4>1, <4>2, <4>4
    <3> QED BY <1>10, <2>2, <3>1
  <2> QED BY <1>16, <2>4 DEF Once
<1> QED BY <1>1, <1>11, <1>13, <1>15, <1>16, <1>19, <1>20, <1>22, <1>23 DEF ClosesWith
\* The states that a state leads to.
LEMMA NextStatesAre ==
    ASSUME NEW C, NEW E, IsGraph(C, E), NEW s, NEW u \in NextStates(E, s)
    PROVE  \/ /\ u.afterRw = FALSE /\ u.taken = s.taken /\ Has(E, s.node, u.node, NonRw)
           \/ /\ u.afterRw = TRUE /\ u.taken = TRUE /\ ~s.afterRw /\ Has(E, s.node, u.node, {"rw"})
<1>1. CASE u \in {State(b, FALSE, s.taken) : b \in TargetsOf(E, s.node, NonRw)}
  <2>1. PICK b \in TargetsOf(E, s.node, NonRw) : u = State(b, FALSE, s.taken)
    BY <1>1
  <2>2. u.node = b /\ u.afterRw = FALSE /\ u.taken = s.taken
    BY <2>1 DEF State
  <2>3. Has(E, s.node, b, NonRw)
    BY TargetsAre
  <2> QED BY <2>2, <2>3
<1>2. CASE ~s.afterRw /\ u \in {State(b, TRUE, TRUE) : b \in TargetsOf(E, s.node, {"rw"})}
  <2>1. PICK b \in TargetsOf(E, s.node, {"rw"}) : u = State(b, TRUE, TRUE)
    BY <1>2
  <2>2. u.node = b /\ u.afterRw = TRUE /\ u.taken = TRUE
    BY <2>1 DEF State
  <2>3. Has(E, s.node, b, {"rw"})
    BY TargetsAre
  <2> QED BY <1>2, <2>2, <2>3
<1> QED BY <1>1, <1>2 DEF NextStates

\* The closed walk of a read-write edge and a way back takes no two read-write
\* edges one after the other.
LEMMA ClosedWalkWeaves ==
    ASSUME NEW C, NEW E, IsGraph(C, E), NEW component, component \subseteq C,
           NEW edge, IsTry(E, component, edge, "rw"), NEW back, back # <<>>,
           back = Search(State(edge.to, TRUE, FALSE), {State(edge.from, FALSE, TRUE)}, StateNext(E, component))
    PROVE  Weaves(E, ClosedWalk(edge, back))
<1>1. PICK next : next = StateNext(E, component)
  OBVIOUS
<1>2. /\ DOMAIN next = States(component) /\ IsNext(next)
      /\ \A s \in States(component) : Held(next[s]) = NextStates(E, s)
  BY <1>1, StateNextIs
<1>3. PICK from : from = edge.from
  OBVIOUS
<1>4. PICK to : to = edge.to
  OBVIOUS
<1>5. /\ from \in component /\ to \in component /\ [from |-> from, to |-> to, relation |-> "rw"] \in E
  <2>1. edge = [from |-> from, to |-> to, relation |-> "rw"] /\ edge \in E
    BY <1>3, <1>4 DEF IsTry, IsGraph
  <2> QED BY <1>3, <1>4, <2>1 DEF IsTry
<1>6. PICK start : start = State(to, TRUE, FALSE)
  OBVIOUS
<1>7. PICK goal : goal = State(from, FALSE, TRUE)
  OBVIOUS
<1>8. /\ start.node = to /\ start.afterRw = TRUE /\ goal.node = from /\ goal.afterRw = FALSE
      /\ start \in States(component)
  BY <1>5, <1>6, <1>7 DEF State, States
<1>9. back = Search(start, {goal}, next)
  BY <1>1, <1>3, <1>4, <1>6, <1>7
<1>10. Way(back, start, next, States(component)) /\ back[Len(back)] = goal
  <2>1. Way(back, start, next, DOMAIN next) /\ back[Len(back)] \in {goal}
    BY <1>2, <1>8, <1>9, SearchFinds
  <2> QED BY <1>2, <2>1
<1>11. PICK n : n = Len(back)
  OBVIOUS
<1>12. n \in Nat /\ DOMAIN back = 1..n /\ 1 \in 1..n /\ \A i \in 1..n : back[i] \in States(component)
  BY <1>10, <1>11, WayEnd
<1>13. back[1] = start /\ back[n] = goal /\ n # 1 /\ n > 1
  <2>1. back[1] = start /\ back[n] = goal
    BY <1>10, <1>11 DEF Way
  <2>2. start # goal
    BY <1>8
  <2>3. n # 1
    BY <2>1, <2>2
  <2>4. n > 1
    BY <1>12, <2>3
  <2> QED BY <2>1, <2>3, <2>4
<1>14. ASSUME NEW i \in 1..(n - 1)
       PROVE  \/ /\ back[i + 1].afterRw = FALSE /\ Has(E, back[i].node, back[i + 1].node, NonRw)
              \/ /\ back[i + 1].afterRw = TRUE /\ ~back[i].afterRw /\ Has(E, back[i].node, back[i + 1].node, {"rw"})
  <2>1. back[i + 1] \in Held(next[back[i]])
    BY <1>10, <1>11 DEF Way
  <2>2. back[i] \in States(component)
    <3>1. i \in 1..n
      BY <1>12
    <3> QED BY <1>12, <3>1
  <2>3. back[i + 1] \in NextStates(E, back[i])
    BY <1>2, <2>1, <2>2
  <2> QED BY <2>3, NextStatesAre
<1>15. PICK walk : walk = ClosedWalk(edge, back)
  OBVIOUS
<1>16. PICK by : by = [i \in 1..n |-> IF back[i].afterRw THEN {"rw"} ELSE NonRw]
  OBVIOUS
<1>17. walk = [i \in 1..n |-> IF i = 1 THEN Step(from, {"rw"}) ELSE Step(back[i - 1].node, by[i])]
  <2>1. walk = [i \in DOMAIN back |->
                   IF i = 1 THEN Step(edge.from, {"rw"})
                   ELSE Step(back[i - 1].node, IF back[i].afterRw THEN {"rw"} ELSE NonRw)]
    BY <1>15, Zenon DEF ClosedWalk
  <2>2. \A i \in 1..n : by[i] = IF back[i].afterRw THEN {"rw"} ELSE NonRw
    BY <1>16
  <2> QED BY <1>3, <1>12, <2>1, <2>2
<1>18. walk[1].node = from /\ walk[1].used = {"rw"}
  <2>1. walk[1] = Step(from, {"rw"})
    BY <1>12, <1>17
  <2> QED BY <2>1, StepFields
<1>19. \A i \in 2..n : walk[i].node = back[i - 1].node /\ walk[i].used = by[i]
  <2>1. ASSUME NEW i \in 2..n PROVE walk[i].node = back[i - 1].node /\ walk[i].used = by[i]
    <3>1. i \in 1..n /\ i # 1
      OBVIOUS
    <3>2. PICK node : node = back[i - 1].node
      OBVIOUS
    <3>3. PICK used : used = by[i]
      OBVIOUS
    <3>4. walk[i] = Step(node, used)
      BY <1>17, <3>1, <3>2, <3>3
    <3>5. walk[i].node = node /\ walk[i].used = used
      BY <3>4, StepFields
    <3> QED BY <3>2, <3>3, <3>5
  <2> QED BY <2>1
<1>20. \A i \in 2..n : /\ by[i] \in {{"rw"}, NonRw} /\ Has(E, back[i - 1].node, back[i].node, by[i])
                       /\ by[i] = {"rw"} <=> back[i].afterRw = TRUE
                       /\ by[i] = {"rw"} => ~back[i - 1].afterRw
  <2>1. ASSUME NEW i \in 2..n
        PROVE  /\ by[i] \in {{"rw"}, NonRw} /\ Has(E, back[i - 1].node, back[i].node, by[i])
               /\ by[i] = {"rw"} <=> back[i].afterRw = TRUE
               /\ by[i] = {"rw"} => ~back[i - 1].afterRw
    <3>1. PICK j : j = i - 1
      OBVIOUS
    <3>2. j \in 1..(n - 1) /\ j + 1 = i /\ i \in 1..n
      BY <1>12, <3>1
    <3>3. \/ /\ back[i].afterRw = FALSE /\ Has(E, back[j].node, back[i].node, NonRw)
          \/ /\ back[i].afterRw = TRUE /\ ~back[j].afterRw /\ Has(E, back[j].node, back[i].node, {"rw"})
      BY <1>14, <3>2
    <3>4. by[i] = IF back[i].afterRw THEN {"rw"} ELSE NonRw
      BY <1>16, <3>2
    <3>5. NonRw # {"rw"}
      BY DEF NonRw
    <3>6. CASE back[i].afterRw = FALSE
      BY <3>1, <3>3, <3>4, <3>5, <3>6
    <3>7. CASE back[i].afterRw = TRUE
      BY <3>1, <3>3, <3>4, <3>7
    <3> QED BY <3>3, <3>6, <3>7
  <2> QED BY <2>1
<1>21. Listed(walk) /\ Len(walk) = n
  <2>1. walk = [i \in 1..n |-> walk[i]]
    BY <1>17
  <2> QED BY <1>12, <2>1, ListedFunction
<1>22. \A i \in 1..n : /\ i # n => After(n, i) \in 2..n /\ After(n, i) = i + 1
                       /\ i = n => After(n, i) = 1
                       /\ i = 1 \/ i \in 2..n
  BY <1>12 DEF After
<1>23. ASSUME NEW i \in 1..n PROVE walk[After(n, i)].node = back[i].node
  <2>1. CASE i = n
    BY <1>8, <1>13, <1>18, <1>22, <2>1
  <2>2. CASE i # n
    <3>1. i + 1 \in 2..n /\ (i + 1) - 1 = i
      BY <1>22, <2>2
    <3> QED BY <1>19, <1>22, <2>2, <3>1
  <2> QED BY <2>1, <2>2
<1>24. ASSUME NEW i \in 1..n
       PROVE  /\ Has(E, walk[i].node, walk[After(n, i)].node, walk[i].used)
              /\ walk[i].used \in {{"rw"}, NonRw}
  <2>1. CASE i = 1
    <3>1. Has(E, from, to, {"rw"}) /\ back[1].node = to
      BY <1>5, <1>8, <1>13 DEF Has
    <3> QED BY <1>18, <1>23, <2>1, <3>1
  <2>2. CASE i \in 2..n
    BY <1>19, <1>20, <1>23, <2>2
  <2> QED BY <1>22, <2>1, <2>2
<1>25. ASSUME NEW i \in 1..n PROVE ~(walk[i].used = {"rw"} /\ walk[After(n, i)].used = {"rw"})
  <2>1. CASE i = n
    <3>1. i \in 2..n
      BY <1>12, <1>13, <2>1
    <3>2. back[i].afterRw = FALSE
      BY <1>8, <1>13, <2>1
    <3> QED BY <1>19, <1>20, <3>1, <3>2
  <2>2. CASE i # n
    <3>1. i + 1 \in 2..n /\ (i + 1) - 1 = i /\ After(n, i) = i + 1
      BY <1>22, <2>2
    <3>2. walk[i + 1].used = {"rw"} => ~back[i].afterRw
      BY <1>19, <1>20, <3>1
    <3>3. walk[i].used = {"rw"} => back[i].afterRw = TRUE
      <4>1. CASE i = 1
        BY <1>8, <1>13, <4>1
      <4>2. CASE i \in 2..n
        BY <1>19, <1>20, <4>2
      <4> QED BY <1>22, <4>1, <4>2
    <3> QED BY <3>1, <3>2, <3>3
  <2> QED BY <2>1, <2>2
<1>26. IsWalk(E, walk)
  BY <1>12, <1>13, <1>21, <1>24 DEF IsWalk
<1> QED BY <1>15, <1>21, <1>24, <1>25, <1>26 DEF Weaves
---------------------------------------------------------------------------
(* The tries.                                                              *)

\* What the order of the tries compares are numbers.
IsEdgeTry(try) ==
    try.component \in SUBSET Nat /\ try.component # {} /\ try.edge.from \in Nat /\ try.edge.to \in Nat

\* One of some tries is first.
IsFirst(try, found) == \A other \in found : NoLater(try, other)

\* Of some tries one comes first.
LEMMA FirstExists ==
    ASSUME NEW found, found # {}, \A try \in found : IsEdgeTry(try)
    PROVE  \E try \in found : IsFirst(try, found)
<1>1. PICK low : low = [try \in found |-> Min(try.component)]
  OBVIOUS
<1>2. \A try \in found : low[try] = Min(try.component) /\ low[try] \in Nat
  <2>1. ASSUME NEW try \in found PROVE Min(try.component) \in Nat
    <3>1. try.component \in SUBSET Nat /\ try.component # {}
      BY DEF IsEdgeTry
    <3> QED BY <3>1, MinIs
  <2> QED BY <1>1, <2>1
<1>3. PICK a \in found : \A other \in found : low[a] <= low[other]
  <2>1. {low[try] : try \in found} \in SUBSET Nat /\ {low[try] : try \in found} # {}
    BY <1>2
  <2>2. \E x \in {low[try] : try \in found} : \A y \in {low[try] : try \in found} : x <= y
    BY <2>1, LeastNumber
  <2> QED BY <2>2
<1>4. PICK A : A = {try \in found : low[try] = low[a]}
  OBVIOUS
<1>5. PICK b \in A : \A other \in A : b.edge.from <= other.edge.from
  <2>1. {try.edge.from : try \in A} \in SUBSET Nat /\ {try.edge.from : try \in A} # {}
    BY <1>4 DEF IsEdgeTry
  <2>2. \E x \in {try.edge.from : try \in A} : \A y \in {try.edge.from : try \in A} : x <= y
    BY <2>1, LeastNumber
  <2> QED BY <2>2
<1>6. PICK B : B = {try \in A : try.edge.from = b.edge.from}
  OBVIOUS
<1>7. PICK c \in B : \A other \in B : c.edge.to <= other.edge.to
  <2>1. {try.edge.to : try \in B} \in SUBSET Nat /\ {try.edge.to : try \in B} # {}
    BY <1>4, <1>5, <1>6 DEF IsEdgeTry
  <2>2. \E x \in {try.edge.to : try \in B} : \A y \in {try.edge.to : try \in B} : x <= y
    BY <2>1, LeastNumber
  <2> QED BY <2>2
<1>8. c \in found /\ low[c] = low[a] /\ c.edge.from = b.edge.from
  BY <1>4, <1>6, <1>7
<1>9. ASSUME NEW other \in found PROVE NoLater(c, other)
  <2>1. /\ low[other] \in Nat /\ low[c] \in Nat /\ low[c] = Min(c.component) /\ low[other] = Min(other.component)
        /\ other.edge.from \in Nat /\ c.edge.from \in Nat
    BY <1>2, <1>8 DEF IsEdgeTry
  <2>2. low[c] <= low[other]
    BY <1>3, <1>8
  <2>3. low[other] = low[c] => c.edge.from <= other.edge.from
    BY <1>4, <1>5, <1>8
  <2>4. low[other] = low[c] /\ other.edge.from = c.edge.from => c.edge.to <= other.edge.to
    BY <1>4, <1>6, <1>7, <1>8
  <2>5. low[c] < low[other] \/ low[other] = low[c]
    BY <2>1, <2>2
  <2>6. low[other] = low[c] => c.edge.from < other.edge.from \/ other.edge.from = c.edge.from
    BY <2>1, <2>3
  <2> QED BY <2>1, <2>4, <2>5, <2>6 DEF NoLater
<1> QED BY <1>8, <1>9 DEF IsFirst

\* The first cycle is that of a try, and there is none when no try has one.
LEMMA FirstCycleIs ==
    ASSUME NEW cycles, \A try \in DOMAIN cycles : IsEdgeTry(try)
    PROVE  /\ FirstCycle(cycles) # <<>> => \E try \in DOMAIN cycles : FirstCycle(cycles) = cycles[try]
           /\ FirstCycle(cycles) = <<>> => \A try \in DOMAIN cycles : cycles[try] = <<>>
<1>1. PICK found : found = {try \in DOMAIN cycles : cycles[try] # <<>>}
  OBVIOUS
<1>2. CASE found = {}
  <2>1. FirstCycle(cycles) = <<>>
    BY <1>1, <1>2, Zenon DEF FirstCycle
  <2> QED BY <1>1, <1>2, <2>1
<1>3. CASE found # {}
  <2>1. PICK try : try = CHOOSE t \in found : IsFirst(t, found)
    OBVIOUS
  <2>2. try \in found
    <3>1. \E t \in found : IsFirst(t, found)
      BY <1>1, <1>3, FirstExists
    <3> QED BY <2>1, <3>1
  <2>3. FirstCycle(cycles) = cycles[try]
    BY <1>1, <1>3, <2>1, Zenon DEF FirstCycle, IsFirst
  <2> QED BY <1>1, <2>2, <2>3
<1> QED BY <1>2, <1>3

\* The tries are the edges in a component that may close a cycle.
LEMMA TriesAre ==
    ASSUME NEW C, NEW E, IsGraph(C, E), NEW components, \A c \in components : c \subseteq C, NEW closing
    PROVE  /\ \A try \in Tries(components, E, closing) :
                  /\ IsEdgeTry(try) /\ try.component \in components
                  /\ IsTry(E, try.component, try.edge, closing)
           /\ \A component \in components : \A edge :
                  IsTry(E, component, edge, closing) =>
                      [component |-> component, edge |-> edge] \in Tries(components, E, closing)
<1>1. ASSUME NEW try \in Tries(components, E, closing)
      PROVE  /\ IsEdgeTry(try) /\ try.component \in components
             /\ IsTry(E, try.component, try.edge, closing)
  <2>1. /\ try.component \in components /\ try.edge \in E /\ try.edge.relation = closing
        /\ try.edge.from \in try.component /\ try.edge.to \in try.component
    BY DEF Tries
  <2>2. try.component \in SUBSET Nat /\ try.component # {} /\ try.edge.from \in Nat /\ try.edge.to \in Nat
    BY <2>1 DEF IsGraph
  <2> QED BY <2>1, <2>2 DEF IsEdgeTry, IsTry
<1>2. ASSUME NEW component \in components, NEW edge, IsTry(E, component, edge, closing)
      PROVE  [component |-> component, edge |-> edge] \in Tries(components, E, closing)
  <2>1. PICK try : try = [component |-> component, edge |-> edge]
    OBVIOUS
  <2>2. try \in [component : components, edge : E] /\ try.edge = edge /\ try.component = component
    BY <1>2, <2>1 DEF IsTry
  <2>3. try.edge.relation = closing /\ {try.edge.from, try.edge.to} \subseteq try.component
    BY <1>2, <2>2 DEF IsTry
  <2>4. try \in Tries(components, E, closing)
    BY <2>2, <2>3 DEF Tries
  <2> QED BY <2>1, <2>4
<1> QED BY <1>1, <1>2

\* What one try finds.
WayBack(E, component, kind, edge) ==
    Search(edge.to, {edge.from}, CycleNext(E, component, Searches[kind].path))

\* What _cycle() finds is a cycle of its kind, and it tries every edge.
LEMMA CycleIs ==
    ASSUME NEW C, NEW E, IsGraph(C, E), NEW kind \in {"G0", "G1c", "Gsingle", "G2"}
    PROVE  /\ Cycle(kind, C, E) # <<>> =>
                  ClosesWith(E, Cycle(kind, C, E), Searches[kind].closing, First(kind), Searches[kind].path)
           /\ Cycle(kind, C, E) = <<>> =>
                  \A component \in Components(C, E, Searches[kind].component) : \A edge :
                      IsTry(E, component, edge, Searches[kind].closing) => WayBack(E, component, kind, edge) = <<>>
<1>1. PICK components : components = Components(C, E, Searches[kind].component)
  OBVIOUS
<1>2. \A c \in components : c \subseteq C
  BY <1>1, ComponentsHold
<1>3. PICK T : T = Tries(components, E, Searches[kind].closing)
  OBVIOUS
<1>4. \A try \in T : /\ IsEdgeTry(try) /\ try.component \in components
                     /\ IsTry(E, try.component, try.edge, Searches[kind].closing)
  BY <1>2, <1>3, TriesAre
<1>5. PICK cycles : cycles = [try \in T |-> Closed(kind, try.edge, WayBack(E, try.component, kind, try.edge))]
  OBVIOUS
<1>6. Cycle(kind, C, E) = FirstCycle(cycles)
  BY <1>1, <1>3, <1>5, Zenon DEF Cycle, WayBack, CycleNext
<1>7. DOMAIN cycles = T
  BY <1>5
<1>8. ASSUME NEW component \in components, NEW edge, IsTry(E, component, edge, Searches[kind].closing),
             WayBack(E, component, kind, edge) # <<>>
      PROVE  ClosesWith(E, Closed(kind, edge, WayBack(E, component, kind, edge)),
                        Searches[kind].closing, First(kind), Searches[kind].path)
  <2>1. PICK back : back = WayBack(E, component, kind, edge)
    OBVIOUS
  <2>2. back # <<>> /\ back = Search(edge.to, {edge.from}, CycleNext(E, component, Searches[kind].path))
    BY <1>8, <2>1, Zenon DEF WayBack
  <2>3. ClosesWith(E, Closed(kind, edge, back), Searches[kind].closing, First(kind), Searches[kind].path)
    BY <1>2, <1>8, <2>2, ClosedIs
  <2> QED BY <2>1, <2>3
<1>9. ASSUME NEW try \in T, cycles[try] # <<>>
      PROVE  ClosesWith(E, cycles[try], Searches[kind].closing, First(kind), Searches[kind].path)
  <2>1. PICK component : component = try.component
    OBVIOUS
  <2>2. PICK edge : edge = try.edge
    OBVIOUS
  <2>3. component \in components /\ IsTry(E, component, edge, Searches[kind].closing)
    BY <1>4, <2>1, <2>2
  <2>4. cycles[try] = Closed(kind, edge, WayBack(E, component, kind, edge))
    BY <1>5, <2>1, <2>2
  <2>5. WayBack(E, component, kind, edge) # <<>>
    <3> SUFFICES ASSUME WayBack(E, component, kind, edge) = <<>> PROVE FALSE
      OBVIOUS
    <3>1. Closed(kind, edge, <<>>) = <<>>
      BY Zenon DEF Closed
    <3> QED BY <1>9, <2>4, <3>1
  <2> QED BY <1>8, <2>3, <2>4, <2>5
<1>10. ASSUME Cycle(kind, C, E) # <<>>
       PROVE  ClosesWith(E, Cycle(kind, C, E), Searches[kind].closing, First(kind), Searches[kind].path)
  <2>1. \E try \in DOMAIN cycles : FirstCycle(cycles) = cycles[try]
    BY <1>4, <1>6, <1>7, <1>10, FirstCycleIs
  <2>2. PICK try \in T : Cycle(kind, C, E) = cycles[try]
    BY <1>6, <1>7, <2>1
  <2>3. cycles[try] # <<>>
    BY <1>10, <2>2
  <2> QED BY <1>9, <2>2, <2>3
<1>11. ASSUME Cycle(kind, C, E) = <<>>,
              NEW component \in components, NEW edge, IsTry(E, component, edge, Searches[kind].closing)
       PROVE  WayBack(E, component, kind, edge) = <<>>
  <2> SUFFICES ASSUME WayBack(E, component, kind, edge) # <<>> PROVE FALSE
    OBVIOUS
  <2>1. PICK cycle : cycle = Closed(kind, edge, WayBack(E, component, kind, edge))
    OBVIOUS
  <2>2. ClosesWith(E, cycle, Searches[kind].closing, First(kind), Searches[kind].path)
    BY <1>8, <1>11, <2>1
  <2>3. cycle # <<>>
    <3>1. Len(cycle) > 1
      BY <2>2 DEF ClosesWith
    <3> QED BY <3>1
  <2>4. PICK try : try = [component |-> component, edge |-> edge]
    OBVIOUS
  <2>5. try \in T /\ try.component = component /\ try.edge = edge
    BY <1>2, <1>3, <1>11, <2>4, TriesAre
  <2>6. cycles[try] = cycle
    BY <1>5, <2>1, <2>5
  <2>7. \A t \in DOMAIN cycles : cycles[t] = <<>>
    BY <1>4, <1>6, <1>7, <1>11, FirstCycleIs
  <2> QED BY <1>7, <2>3, <2>5, <2>6, <2>7
<1> QED BY <1>1, <1>10, <1>11
\* What one try of the G-nonadjacent search finds.
StatesBack(E, component, edge) ==
    Search(State(edge.to, TRUE, FALSE), {State(edge.from, FALSE, TRUE)}, StateNext(E, component))

\* A cycle with more than one read-write edge, and no two of them adjacent.
IsNonadjacent(E, cycle) == Weaves(E, cycle) /\ Once(cycle) /\ Cardinality(RwSteps(cycle)) > 1

\* The read-write edges of a walk can be counted.
LEMMA RwStepsFinite ==
    ASSUME NEW walk, Listed(walk)
    PROVE  IsFiniteSet(RwSteps(walk)) /\ Cardinality(RwSteps(walk)) \in Nat
<1>1. IsFiniteSet(1..Len(walk))
  BY FS_Interval, ListedFacts
<1>2. RwSteps(walk) \subseteq 1..Len(walk)
  BY ListedFacts DEF RwSteps
<1> QED BY <1>1, <1>2, FS_Subset, FS_CardinalityType

\* What _nonadjacent() keeps of a way back is a cycle of its kind.
LEMMA ReducedIs ==
    ASSUME NEW C, NEW E, IsGraph(C, E), NEW component, component \subseteq C,
           NEW edge, IsTry(E, component, edge, "rw")
    PROVE  /\ Reduced(edge, StatesBack(E, component, edge)) # <<>> =>
                  IsNonadjacent(E, Reduced(edge, StatesBack(E, component, edge)))
           /\ Reduced(edge, StatesBack(E, component, edge)) = <<>> =>
                  \/ StatesBack(E, component, edge) = <<>>
                  \/ \E cycle : Weaves(E, cycle) /\ Once(cycle) /\ Cardinality(RwSteps(cycle)) <= 1
<1>1. PICK back : back = StatesBack(E, component, edge)
  OBVIOUS
<1>2. CASE back = <<>>
  <2>1. Reduced(edge, back) = <<>>
    BY <1>2, Zenon DEF Reduced
  <2> QED BY <1>1, <1>2, <2>1
<1>3. CASE back # <<>>
  <2>1. back = Search(State(edge.to, TRUE, FALSE), {State(edge.from, FALSE, TRUE)}, StateNext(E, component))
    BY <1>1, Zenon DEF StatesBack
  <2>2. Weaves(E, ClosedWalk(edge, back))
    BY <1>3, <2>1, ClosedWalkWeaves
  <2>3. PICK cycle : cycle = Simple(ClosedWalk(edge, back))
    OBVIOUS
  <2>4. Weaves(E, cycle) /\ Once(cycle)
    BY <2>2, <2>3, SimpleWeaves
  <2>5. Cardinality(RwSteps(cycle)) \in Nat /\ cycle # <<>>
    <3>1. Listed(cycle) /\ Len(cycle) # 0
      BY <2>4 DEF Weaves, IsWalk
    <3>2. Cardinality(RwSteps(cycle)) \in Nat
      BY <3>1, RwStepsFinite
    <3>3. cycle # <<>>
      BY <3>1, ListedFacts
    <3> QED BY <3>2, <3>3
  <2>6. Reduced(edge, back) = IF Cardinality(RwSteps(cycle)) < 2 THEN <<>> ELSE cycle
    BY <1>3, <2>3, Zenon DEF Reduced
  <2>7. CASE Cardinality(RwSteps(cycle)) < 2
    <3>1. Reduced(edge, back) = <<>>
      BY <2>6, <2>7
    <3>2. Cardinality(RwSteps(cycle)) <= 1
      BY <2>5, <2>7
    <3> QED BY <1>1, <2>4, <3>1, <3>2
  <2>8. CASE ~(Cardinality(RwSteps(cycle)) < 2)
    <3>1. Reduced(edge, back) = cycle
      BY <2>6, <2>8
    <3>2. Cardinality(RwSteps(cycle)) > 1
      BY <2>5, <2>8
    <3>3. IsNonadjacent(E, cycle)
      BY <2>4, <3>2 DEF IsNonadjacent
    <3> QED BY <1>1, <2>5, <3>1, <3>3
  <2> QED BY <2>7, <2>8
<1> QED BY <1>2, <1>3

\* What _nonadjacent() finds is a cycle of its kind; when it finds none, each
\* edge has no way back or is on a cycle that another search finds.
LEMMA NonadjacentIs ==
    ASSUME NEW C, NEW E, IsGraph(C, E)
    PROVE  /\ Nonadjacent(C, E) # <<>> => IsNonadjacent(E, Nonadjacent(C, E))
           /\ Nonadjacent(C, E) = <<>> =>
                  \A component \in Components(C, E, Relations) : \A edge :
                      IsTry(E, component, edge, "rw") =>
                          \/ StatesBack(E, component, edge) = <<>>
                          \/ \E cycle : Weaves(E, cycle) /\ Once(cycle) /\ Cardinality(RwSteps(cycle)) <= 1
<1>1. PICK components : components = Components(C, E, Relations)
  OBVIOUS
<1>2. \A c \in components : c \subseteq C
  BY <1>1, ComponentsHold
<1>3. PICK T : T = Tries(components, E, "rw")
  OBVIOUS
<1>4. \A try \in T : /\ IsEdgeTry(try) /\ try.component \in components
                     /\ IsTry(E, try.component, try.edge, "rw")
  BY <1>2, <1>3, TriesAre
<1>5. PICK cycles : cycles = [try \in T |-> Reduced(try.edge, StatesBack(E, try.component, try.edge))]
  OBVIOUS
<1>6. Nonadjacent(C, E) = FirstCycle(cycles)
  BY <1>1, <1>3, <1>5, Zenon DEF Nonadjacent, StatesBack, StateNext, States
<1>7. DOMAIN cycles = T
  BY <1>5
<1>8. ASSUME NEW component \in components, NEW edge, IsTry(E, component, edge, "rw")
      PROVE  /\ Reduced(edge, StatesBack(E, component, edge)) # <<>> =>
                    IsNonadjacent(E, Reduced(edge, StatesBack(E, component, edge)))
             /\ Reduced(edge, StatesBack(E, component, edge)) = <<>> =>
                    \/ StatesBack(E, component, edge) = <<>>
                    \/ \E cycle : Weaves(E, cycle) /\ Once(cycle) /\ Cardinality(RwSteps(cycle)) <= 1
  <2>1. component \subseteq C
    BY <1>2
  <2> QED BY <1>8, <2>1, ReducedIs
<1>9. ASSUME NEW try \in T, cycles[try] # <<>> PROVE IsNonadjacent(E, cycles[try])
  <2>1. PICK component : component = try.component
    OBVIOUS
  <2>2. PICK edge : edge = try.edge
    OBVIOUS
  <2>3. component \in components /\ IsTry(E, component, edge, "rw")
    BY <1>4, <2>1, <2>2
  <2>4. cycles[try] = Reduced(edge, StatesBack(E, component, edge))
    BY <1>5, <2>1, <2>2
  <2> QED BY <1>8, <1>9, <2>3, <2>4
<1>10. ASSUME Nonadjacent(C, E) # <<>> PROVE IsNonadjacent(E, Nonadjacent(C, E))
  <2>1. \E try \in DOMAIN cycles : FirstCycle(cycles) = cycles[try]
    BY <1>4, <1>6, <1>7, <1>10, FirstCycleIs
  <2>2. PICK try \in T : Nonadjacent(C, E) = cycles[try]
    BY <1>6, <1>7, <2>1
  <2>3. cycles[try] # <<>>
    BY <1>10, <2>2
  <2> QED BY <1>9, <2>2, <2>3
<1>11. ASSUME Nonadjacent(C, E) = <<>>,
              NEW component \in components, NEW edge, IsTry(E, component, edge, "rw")
       PROVE  \/ StatesBack(E, component, edge) = <<>>
              \/ \E cycle : Weaves(E, cycle) /\ Once(cycle) /\ Cardinality(RwSteps(cycle)) <= 1
  <2>1. PICK try : try = [component |-> component, edge |-> edge]
    OBVIOUS
  <2>2. try \in T /\ try.component = component /\ try.edge = edge
    BY <1>2, <1>3, <1>11, <2>1, TriesAre
  <2>3. cycles[try] = Reduced(edge, StatesBack(E, component, edge))
    BY <1>5, <2>2
  <2>4. \A t \in DOMAIN cycles : cycles[t] = <<>>
    BY <1>4, <1>6, <1>7, <1>11, FirstCycleIs
  <2>5. Reduced(edge, StatesBack(E, component, edge)) = <<>>
    BY <1>7, <2>2, <2>3, <2>4
  <2> QED BY <1>8, <1>11, <2>5
<1> QED BY <1>1, <1>10, <1>11
---------------------------------------------------------------------------
(* Every reported cycle is of its kind.                                    *)

\* The node after one of a cycle.
NodeAfter(cycle, i) == cycle[(i % Len(cycle)) + 1].node

\* What CyclesAreOfTheirKind says of one cycle.
OfKind(graph, kind, cycle) ==
    LET rws == {i \in DOMAIN cycle : cycle[i].used = {"rw"}}
    IN /\ Len(cycle) > 1
       /\ \A i, j \in DOMAIN cycle : cycle[i].node = cycle[j].node => i = j
       /\ \A i \in DOMAIN cycle : Has(graph, cycle[i].node, NodeAfter(cycle, i), cycle[i].used)
       /\ CASE kind = "G0" -> \A i \in DOMAIN cycle : cycle[i].used = {"ww"}
            [] kind = "G1c" -> /\ Has(graph, cycle[1].node, NodeAfter(cycle, 1), {"wr"})
                               /\ \A i \in DOMAIN cycle : cycle[i].used = NonRw
            [] kind = "Gsingle" -> rws = {1} /\ \A i \in DOMAIN cycle \ rws : cycle[i].used = NonRw
            [] kind = "Gnonadjacent" ->
                   /\ Cardinality(rws) > 1
                   /\ \A i \in rws : (i % Len(cycle)) + 1 \notin rws
                   /\ \A i \in DOMAIN cycle \ rws : cycle[i].used = NonRw
            [] OTHER -> Has(graph, cycle[1].node, NodeAfter(cycle, 1), {"rw"})

\* What _cycle() closes is of its kind.
LEMMA ClosingIsOfKind ==
    ASSUME NEW E, NEW kind \in {"G0", "G1c", "Gsingle", "G2"}, NEW cycle,
           ClosesWith(E, cycle, Searches[kind].closing, First(kind), Searches[kind].path)
    PROVE  OfKind(E, kind, cycle)
<1>1. PICK n : n = Len(cycle)
  OBVIOUS
<1>2. n \in Nat /\ DOMAIN cycle = 1..n /\ n > 1
  <2>1. Listed(cycle) /\ Len(cycle) > 1
    BY DEF ClosesWith, IsWalk
  <2> QED BY <1>1, <2>1, ListedFacts
<1>3. \A i \in 1..n : NodeAfter(cycle, i) = cycle[After(n, i)].node
  <2>1. \A i \in 1..n : (i % n) + 1 = After(n, i)
    BY <1>2, NextIs
  <2> QED BY <1>1, <2>1 DEF NodeAfter
<1>4. /\ \A i, j \in 1..n : cycle[i].node = cycle[j].node => i = j
      /\ \A i \in 1..n : Has(E, cycle[i].node, NodeAfter(cycle, i), cycle[i].used)
  BY <1>1, <1>3 DEF ClosesWith, IsWalk, Once
<1>5. Has(E, cycle[1].node, NodeAfter(cycle, 1), {Searches[kind].closing})
  <2>1. 1 \in 1..n
    BY <1>2
  <2> QED BY <1>1, <1>3, <2>1 DEF ClosesWith
<1>6. cycle[1].used = First(kind) /\ \A i \in 2..n : cycle[i].used = Searches[kind].path
  BY <1>1 DEF ClosesWith
<1>7. \A i \in 1..n : i = 1 \/ i \in 2..n
  BY <1>2
<1>8. PICK rws : rws = {i \in DOMAIN cycle : cycle[i].used = {"rw"}}
  OBVIOUS
<1>9. CASE kind = "G0"
  <2>1. First(kind) = {"ww"} /\ Searches[kind].path = {"ww"}
    BY <1>9 DEF First, Searches
  <2>2. \A i \in 1..n : cycle[i].used = {"ww"}
    BY <1>6, <1>7, <2>1
  <2> QED BY <1>1, <1>2, <1>4, <1>9, <2>2 DEF OfKind
<1>10. CASE kind = "G1c"
  <2>1. First(kind) = NonRw /\ Searches[kind].path = NonRw /\ Searches[kind].closing = "wr"
    BY <1>10 DEF First, Searches
  <2>2. \A i \in 1..n : cycle[i].used = NonRw
    BY <1>6, <1>7, <2>1
  <2>3. Has(E, cycle[1].node, NodeAfter(cycle, 1), {"wr"})
    BY <1>5, <2>1
  <2> QED BY <1>1, <1>2, <1>4, <1>10, <2>2, <2>3 DEF OfKind
<1>11. CASE kind = "Gsingle"
  <2>1. First(kind) = {"rw"} /\ Searches[kind].path = NonRw /\ NonRw # {"rw"}
    BY <1>11 DEF First, Searches, NonRw
  <2>2. rws = {1}
    <3>1. 1 \in rws
      BY <1>2, <1>6, <1>8, <2>1
    <3>2. \A i \in rws : i = 1
      BY <1>2, <1>6, <1>7, <1>8, <2>1
    <3> QED BY <3>1, <3>2
  <2>3. \A i \in DOMAIN cycle \ rws : cycle[i].used = NonRw
    BY <1>2, <1>6, <1>7, <2>1, <2>2
  <2> QED BY <1>1, <1>2, <1>4, <1>8, <1>11, <2>2, <2>3 DEF OfKind
<1>12. CASE kind = "G2"
  <2>1. Searches[kind].closing = "rw"
    BY <1>12 DEF Searches
  <2>2. Has(E, cycle[1].node, NodeAfter(cycle, 1), {"rw"})
    BY <1>5, <2>1
  <2> QED BY <1>1, <1>2, <1>4, <1>12, <2>2 DEF OfKind
<1> QED BY <1>9, <1>10, <1>11, <1>12

\* What _nonadjacent() keeps is of its kind.
LEMMA NonadjacentIsOfKind ==
    ASSUME NEW E, NEW cycle, IsNonadjacent(E, cycle)
    PROVE  OfKind(E, "Gnonadjacent", cycle)
<1>1. PICK n : n = Len(cycle)
  OBVIOUS
<1>2. Weaves(E, cycle) /\ Once(cycle) /\ Cardinality(RwSteps(cycle)) > 1 /\ Listed(cycle) /\ n # 0
  BY <1>1 DEF IsNonadjacent, Weaves, IsWalk
<1>3. n \in Nat /\ DOMAIN cycle = 1..n
  BY <1>1, <1>2, ListedFacts
<1>4. \A i \in 1..n : (i % n) + 1 = After(n, i)
  BY <1>3, NextIs
<1>5. \A i \in 1..n : NodeAfter(cycle, i) = cycle[After(n, i)].node
  BY <1>1, <1>4 DEF NodeAfter
<1>6. n > 1
  <2> SUFFICES ASSUME n = 1 PROVE FALSE
    BY <1>2, <1>3
  <2>1. RwSteps(cycle) \subseteq {1}
    BY <1>3 DEF RwSteps
  <2>2. IsFiniteSet({1}) /\ Cardinality({1}) = 1
    BY FS_Singleton
  <2>3. Cardinality(RwSteps(cycle)) <= 1 /\ Cardinality(RwSteps(cycle)) \in Nat
    BY <1>2, <2>1, <2>2, FS_Subset, RwStepsFinite
  <2> QED BY <1>2, <2>3
<1>7. /\ \A i, j \in 1..n : cycle[i].node = cycle[j].node => i = j
      /\ \A i \in 1..n : Has(E, cycle[i].node, NodeAfter(cycle, i), cycle[i].used)
  BY <1>1, <1>2, <1>5 DEF Weaves, IsWalk, Once
<1>8. PICK rws : rws = {i \in DOMAIN cycle : cycle[i].used = {"rw"}}
  OBVIOUS
<1>9. Cardinality(rws) > 1
  BY <1>2, <1>8 DEF RwSteps
<1>10. ASSUME NEW i \in rws PROVE (i % Len(cycle)) + 1 \notin rws
  <2>1. i \in 1..n /\ cycle[i].used = {"rw"}
    BY <1>3, <1>8
  <2>2. ~(cycle[After(n, i)].used = {"rw"})
    BY <1>1, <1>2, <2>1 DEF Weaves
  <2>3. (i % Len(cycle)) + 1 = After(n, i)
    BY <1>1, <1>4, <2>1
  <2> QED BY <1>8, <2>2, <2>3
<1>11. \A i \in DOMAIN cycle \ rws : cycle[i].used = NonRw
  BY <1>1, <1>2, <1>3, <1>8 DEF Weaves
<1> QED BY <1>1, <1>3, <1>6, <1>7, <1>8, <1>9, <1>10, <1>11 DEF OfKind

\* What a search finds in a graph is of its kind.
LEMMA FoundIsOfKind ==
    ASSUME NEW C, NEW E, IsGraph(C, E), NEW kind \in CycleKinds, CycleOf(kind, C, E) # <<>>
    PROVE  OfKind(E, kind, CycleOf(kind, C, E))
<1>1. CASE kind = "Gnonadjacent"
  <2>1. CycleOf(kind, C, E) = Nonadjacent(C, E)
    BY <1>1, Zenon DEF CycleOf
  <2>2. IsNonadjacent(E, Nonadjacent(C, E))
    BY <2>1, NonadjacentIs
  <2> QED BY <1>1, <2>1, <2>2, NonadjacentIsOfKind
<1>2. CASE kind # "Gnonadjacent"
  <2>1. CycleOf(kind, C, E) = Cycle(kind, C, E)
    BY <1>2, Zenon DEF CycleOf
  <2>2. kind \in {"G0", "G1c", "Gsingle", "G2"}
    BY <1>2 DEF CycleKinds
  <2>3. ClosesWith(E, Cycle(kind, C, E), Searches[kind].closing, First(kind), Searches[kind].path)
    BY <2>1, <2>2, CycleIs
  <2> QED BY <2>1, <2>2, <2>3, ClosingIsOfKind
<1> QED BY <1>1, <1>2
---------------------------------------------------------------------------
(* The dependency graph of a history.                                      *)

\* The edges that a graph of some transactions may have.
Edges(C) == [from : C, to : C, relation : Relations]

\* There are finitely many edges between finitely many transactions.
LEMMA EdgesFinite ==
    ASSUME NEW C, IsFiniteSet(C)
    PROVE  IsFiniteSet(Edges(C))
<1>1. PICK P : P = (C \X C) \X Relations
  OBVIOUS
<1>2. IsFiniteSet(P)
  <2>1. IsFiniteSet(Relations)
    <3>1. Relations = ({"ww"} \cup {"wr"}) \cup {"rw"}
      BY DEF Relations
    <3>2. IsFiniteSet({"ww"}) /\ IsFiniteSet({"wr"}) /\ IsFiniteSet({"rw"})
      BY FS_Singleton
    <3>3. IsFiniteSet({"ww"} \cup {"wr"})
      BY <3>2, FS_Union
    <3> QED BY <3>1, <3>2, <3>3, FS_Union
  <2>2. IsFiniteSet(C \X C)
    BY FS_Product
  <2> QED BY <1>1, <2>1, <2>2, FS_Product
<1>3. PICK f : f = [p \in P |-> [from |-> p[1][1], to |-> p[1][2], relation |-> p[2]]]
  OBVIOUS
<1>4. f \in [P -> Edges(C)]
  BY <1>1, <1>3 DEF Edges
<1>5. ASSUME NEW e \in Edges(C) PROVE \E p \in P : f[p] = e
  <2>1. /\ e.from \in C /\ e.to \in C /\ e.relation \in Relations
        /\ e = [from |-> e.from, to |-> e.to, relation |-> e.relation]
    BY <1>5 DEF Edges
  <2>2. PICK p : p = <<<<e.from, e.to>>, e.relation>>
    OBVIOUS
  <2>3. p \in P /\ p[1][1] = e.from /\ p[1][2] = e.to /\ p[2] = e.relation
    BY <1>1, <2>1, <2>2
  <2> QED BY <1>3, <2>1, <2>3
<1>6. f \in Surjection(P, Edges(C))
  BY <1>4, <1>5 DEF Surjection
<1> QED BY <1>2, <1>6, FS_Surjection

\* A dependency has a relation, and its ends committed or are not known.
IsEdge(e, C) == \E from, to \in C \cup {0} : \E relation \in Relations : e = Edge(from, to, relation)

\* The dependencies of a list have a relation and such ends.
LEMMA KeyEdges ==
    ASSUME NEW a, NEW key, WithKind(a.txns, {"ok"}) \subseteq a.committed, NEW e \in KeyDependencies(a, key)
    PROVE  IsEdge(e, a.committed)
<1>1. "ww" \in Relations /\ "wr" \in Relations /\ "rw" \in Relations
  BY DEF Relations
<1>2. PICK C : C = a.committed
  OBVIOUS
<1>3. \A v : CommittedWriter(a, key, v) \in C \cup {0}
  BY <1>2 DEF CommittedWriter
<1>4. \A order : Unobserved(a, key, order) \subseteq C
  BY <1>2 DEF Unobserved
<1>5. \A order, seen : NextWriters(a, key, order, seen) \subseteq C \cup {0}
  BY <1>3, <1>4 DEF NextWriters
<1>6. \A r \in CommittedReads(a, key) : r.call \in C
  BY <1>2 DEF CommittedReads
<1>7. ASSUME NEW order, e \in OrderEdges(a, key, order) PROVE IsEdge(e, C)
  <2>1. \/ \E i : e = Edge(CommittedWriter(a, key, order[i]), CommittedWriter(a, key, order[i + 1]), "ww")
        \/ \E t \in Unobserved(a, key, order) : e = Edge(CommittedWriter(a, key, order[Len(order)]), t, "ww")
    BY <1>7 DEF OrderEdges
  <2>2. CASE \E i : e = Edge(CommittedWriter(a, key, order[i]), CommittedWriter(a, key, order[i + 1]), "ww")
    BY <1>1, <1>3, <2>2 DEF IsEdge
  <2>3. CASE \E t \in Unobserved(a, key, order) :
                 e = Edge(CommittedWriter(a, key, order[Len(order)]), t, "ww")
    BY <1>1, <1>3, <1>4, <2>3 DEF IsEdge
  <2> QED BY <2>1, <2>2, <2>3
<1>8. ASSUME NEW order, NEW read \in CommittedReads(a, key), e \in ReadEdges(a, key, order, read)
      PROVE  IsEdge(e, C)
  <2>1. \/ \E v : e = Edge(CommittedWriter(a, key, v), read.call, "wr")
        \/ \E t \in NextWriters(a, key, order, Len(read.items)) : e = Edge(read.call, t, "rw")
    BY <1>8 DEF ReadEdges
  <2>2. CASE \E v : e = Edge(CommittedWriter(a, key, v), read.call, "wr")
    BY <1>1, <1>3, <1>6, <2>2 DEF IsEdge
  <2>3. CASE \E t \in NextWriters(a, key, order, Len(read.items)) : e = Edge(read.call, t, "rw")
    BY <1>1, <1>5, <1>6, <2>3 DEF IsEdge
  <2> QED BY <2>1, <2>2, <2>3
<1>9. PICK order : \/ e \in OrderEdges(a, key, order)
                   \/ \E read \in CommittedReads(a, key) : e \in ReadEdges(a, key, order, read)
  BY DEF KeyDependencies
<1> QED BY <1>2, <1>7, <1>8, <1>9

\* The same of the dependencies of a register.
LEMMA RegisterEdges ==
    ASSUME NEW a, NEW key, NEW e \in RegisterDependencies(a, key)
    PROVE  IsEdge(e, a.committed)
<1>1. "ww" \in Relations /\ "wr" \in Relations /\ "rw" \in Relations
  BY DEF Relations
<1>2. PICK C : C = a.committed
  OBVIOUS
<1>3. \A items : Installer(a, key, items) \in C \cup {0}
  BY <1>2 DEF CommittedWriter, Installer
<1>4. \/ \E items : \E t \in C : \E relation \in {"ww", "wr"} : e = Edge(Installer(a, key, items), t, relation)
      \/ \E s, t \in C : e = Edge(s, t, "rw")
  BY <1>2 DEF RegisterDependencies
<1>5. CASE \E items : \E t \in C : \E relation \in {"ww", "wr"} :
               e = Edge(Installer(a, key, items), t, relation)
  BY <1>1, <1>2, <1>3, <1>5 DEF IsEdge
<1>6. CASE \E s, t \in C : e = Edge(s, t, "rw")
  BY <1>1, <1>2, <1>6 DEF IsEdge
<1> QED BY <1>4, <1>5, <1>6

\* The dependencies are a graph of the committed transactions.
LEMMA DependenciesAreGraph ==
    ASSUME NEW h, NEW n \in Nat, DOMAIN h = 1..n
    PROVE  IsGraph(Index(h).committed, Dependencies(Index(h)))
<1>1. PICK a : a = Index(h)
  OBVIOUS
<1>2. PICK C : C = a.committed
  OBVIOUS
<1>3. C \subseteq 1..n
  <2>1. \A kinds : WithKind(h, kinds) \subseteq 1..n
    BY DEF WithKind, Transactions
  <2>2. \A writer, observed : CommittedOf(h, writer, observed) \subseteq 1..n
    BY <2>1 DEF CommittedOf
  <2>3. \E writer, observed : C = CommittedOf(h, writer, observed)
    BY <1>1, <1>2, Zenon DEF Index
  <2> QED BY <2>2, <2>3
<1>4. IsFiniteSet(C) /\ C \subseteq Nat /\ 0 \notin C
  <2>1. IsFiniteSet(1..n)
    BY FS_Interval
  <2>2. IsFiniteSet(C)
    BY <1>3, <2>1, FS_Subset
  <2>3. C \subseteq Nat /\ 0 \notin C
    BY <1>3
  <2> QED BY <2>2, <2>3
<1>5. PICK E : E = Dependencies(a)
  OBVIOUS
<1>6. ASSUME NEW e \in E
      PROVE  /\ \E from, to \in C : \E relation \in Relations : e = Edge(from, to, relation)
             /\ e.from # e.to
  <2>1. PICK all : /\ all = UNION {IF Registers(a.txns) THEN RegisterDependencies(a, key)
                                   ELSE KeyDependencies(a, key) : key \in a.keys}
                   /\ E = Proper(all)
    BY <1>5, Zenon DEF Dependencies
  <2>2. e \in all /\ e.from # 0 /\ e.to # 0 /\ e.from # e.to
    BY <2>1 DEF Proper
  <2>3. PICK key \in a.keys : e \in RegisterDependencies(a, key) \/ e \in KeyDependencies(a, key)
    BY <2>1, <2>2
  <2>4. WithKind(a.txns, {"ok"}) \subseteq a.committed
    <3>1. \A writer, observed : WithKind(h, {"ok"}) \subseteq CommittedOf(h, writer, observed)
      BY DEF CommittedOf
    <3>2. \E writer, observed : a.committed = CommittedOf(h, writer, observed)
      BY <1>1, Zenon DEF Index
    <3>3. a.txns = h
      BY <1>1, Zenon DEF Index
    <3> QED BY <3>1, <3>2, <3>3
  <2>5. IsEdge(e, C)
    BY <1>2, <2>3, <2>4, KeyEdges, RegisterEdges
  <2>6. PICK from, to \in C \cup {0} : \E relation \in Relations : e = Edge(from, to, relation)
    BY <2>5 DEF IsEdge
  <2>7. e.from = from /\ e.to = to
    BY <2>6 DEF Edge
  <2> QED BY <2>2, <2>6, <2>7
<1>7. ASSUME NEW e \in E
      PROVE  /\ e = [from |-> e.from, to |-> e.to, relation |-> e.relation]
             /\ e.from \in C /\ e.to \in C /\ e.from # e.to /\ e.relation \in Relations
  <2>1. PICK from, to \in C : \E relation \in Relations : e = Edge(from, to, relation)
    BY <1>6
  <2>2. PICK relation \in Relations : e = Edge(from, to, relation)
    BY <2>1
  <2>3. e = [from |-> from, to |-> to, relation |-> relation]
    BY <2>2 DEF Edge
  <2>4. e = [from |-> e.from, to |-> e.to, relation |-> e.relation] /\ e.relation \in Relations
    BY <2>2, <2>3
  <2>5. e.from = from /\ e.to = to
    BY <2>3
  <2> QED BY <1>6, <2>1, <2>4, <2>5
<1>8. IsFiniteSet(E)
  <2>1. E \subseteq Edges(C)
    BY <1>7 DEF Edges
  <2> QED BY <1>4, <2>1, EdgesFinite, FS_Subset
<1> QED BY <1>1, <1>2, <1>4, <1>5, <1>7, <1>8 DEF IsGraph

\* A part of a pool of edges is a graph of their ends.
LEMMA PoolIsGraph ==
    ASSUME NEW pool \in Graphs, NEW E \in SUBSET pool
    PROVE  IsGraph(Ends(E), E)
<1>1. /\ IsFiniteSet(E)
      /\ \A e \in E : /\ e = [from |-> e.from, to |-> e.to, relation |-> e.relation]
                      /\ e.from \in Nat /\ e.to \in Nat /\ e.from # e.to /\ e.relation \in Relations
  <2>1. /\ IsFiniteSet(pool)
        /\ \A e \in pool : /\ e = [from |-> e.from, to |-> e.to, relation |-> e.relation]
                           /\ {e.from, e.to} \subseteq Nat /\ e.from # e.to
                           /\ e.relation \in Relations
    BY InputsAssumption
  <2> QED BY <2>1, FS_Subset
<1>2. IsFiniteSet({e.from : e \in E})
  <2>1. PICK f : f = [e \in E |-> e.from]
    OBVIOUS
  <2>2. f \in Surjection(E, {e.from : e \in E})
    BY <2>1 DEF Surjection
  <2> QED BY <1>1, <2>2, FS_Surjection
<1>3. IsFiniteSet({e.to : e \in E})
  <2>1. PICK f : f = [e \in E |-> e.to]
    OBVIOUS
  <2>2. f \in Surjection(E, {e.to : e \in E})
    BY <2>1 DEF Surjection
  <2> QED BY <1>1, <2>2, FS_Surjection
<1>4. IsFiniteSet(Ends(E))
  BY <1>2, <1>3, FS_Union DEF Ends
<1> QED BY <1>1, <1>4 DEF IsGraph, Ends
---------------------------------------------------------------------------
(* The invariant: a history is finite, a graph to search has edges between *)
(* two transactions, a case of a checked history is the cycle that the     *)
(* search found in its graph, and a graph of its own has no other cases.   *)

\* The graph of the last check, and its nodes.
Graph == IF history = <<>> THEN edges ELSE Dependencies(Index(history))
Nodes == IF history = <<>> THEN Ends(edges) ELSE Index(history).committed

IsolationInv ==
    /\ \E n \in Nat : DOMAIN history = 1..n
    /\ IsGraph(Ends(edges), edges)
    /\ checked => \A kind \in CycleKinds : cases[kind] = CycleOf(kind, Nodes, Graph)
    /\ checked /\ history = <<>> => \A kind \in Range(Anomalies) \ CycleKinds : cases[kind] = NoCase

\* The graph of a check is a graph.
LEMMA GraphIsGraph == IsolationInv => IsGraph(Nodes, Graph)
<1> SUFFICES ASSUME IsolationInv PROVE IsGraph(Nodes, Graph)
  OBVIOUS
<1>1. CASE history = <<>>
  <2>1. Nodes = Ends(edges) /\ Graph = edges
    BY <1>1 DEF Nodes, Graph
  <2> QED BY <2>1 DEF IsolationInv
<1>2. CASE history # <<>>
  <2>1. Nodes = Index(history).committed /\ Graph = Dependencies(Index(history))
    BY <1>2 DEF Nodes, Graph
  <2>2. PICK n \in Nat : DOMAIN history = 1..n
    BY DEF IsolationInv
  <2>3. IsGraph(Index(history).committed, Dependencies(Index(history)))
    BY <2>2, DependenciesAreGraph
  <2> QED BY <2>1, <2>3
<1> QED BY <1>1, <1>2

\* The transactions that a check numbers, and the cases that it keeps of its
\* searches, hold from the first state on.
LEMMA IsolationInit == Init => IsolationInv
<1> SUFFICES ASSUME Init PROVE IsolationInv
  OBVIOUS
<1>1. ~checked
  BY DEF Init
<1>2. CASE history \in {[t \in DOMAIN w |-> Pending(w[t])] : w \in Workloads} /\ edges = {}
  <2>1. PICK w \in Workloads : history = [t \in DOMAIN w |-> Pending(w[t])]
    BY <1>2
  <2>2. Len(w) \in Nat /\ DOMAIN w = 1..Len(w)
    BY InputsAssumption
  <2>3. DOMAIN history = 1..Len(w)
    BY <2>1, <2>2
  <2>4. IsGraph(Ends({}), {})
    <3>1. Ends({}) = {} /\ IsFiniteSet({})
      BY FS_EmptySet DEF Ends
    <3> QED BY <3>1 DEF IsGraph
  <2> QED BY <1>1, <1>2, <2>2, <2>3, <2>4 DEF IsolationInv
<1>3. CASE history = <<>> /\ edges \in UNION {SUBSET pool : pool \in Graphs}
  <2>1. PICK pool \in Graphs : edges \in SUBSET pool
    BY <1>3
  <2>2. IsGraph(Ends(edges), edges)
    BY <2>1, PoolIsGraph
  <2>3. DOMAIN history = 1..0 /\ 0 \in Nat
    BY <1>3
  <2> QED BY <1>1, <2>2, <2>3 DEF IsolationInv
<1> QED BY <1>2, <1>3 DEF Init

\* Every step keeps the invariant.
LEMMA IsolationStep == IsolationInv /\ [Next]_vars => IsolationInv'
<1> SUFFICES ASSUME IsolationInv, [Next]_vars PROVE IsolationInv'
  OBVIOUS
<1>1. PICK n \in Nat : DOMAIN history = 1..n
  BY DEF IsolationInv
<1>2. IsGraph(Ends(edges), edges)
  BY DEF IsolationInv
<1>3. CASE Complete
  <2>1. DOMAIN history' = 1..n
    BY <1>1, <1>3 DEF Complete
  <2>2. ~checked' /\ edges' = edges
    BY <1>3 DEF Complete
  <2> QED BY <1>2, <2>1, <2>2 DEF IsolationInv
<1>4. CASE Check
  <2>1. history # <<>> /\ history' = history /\ edges' = edges /\ cases' = CasesOf(Index(history))
    BY <1>4, Zenon DEF Check
  <2>2. ASSUME NEW kind \in CycleKinds
        PROVE  cases'[kind] = CycleOf(kind, Index(history).committed, Dependencies(Index(history)))
    <3>1. kind \in Range(Anomalies)
      <4>1. Range(Anomalies) = {Anomalies[i] : i \in 1..12}
        BY DEF Range, Anomalies
      <4>2. /\ Anomalies[8] = "G0" /\ Anomalies[9] = "G1c" /\ Anomalies[10] = "Gsingle"
            /\ Anomalies[11] = "Gnonadjacent" /\ Anomalies[12] = "G2"
        BY DEF Anomalies
      <4> QED BY <4>1, <4>2 DEF CycleKinds
    <3>2. /\ kind # "garbage-read" /\ kind # "duplicate-append" /\ kind # "internal-inconsistency"
          /\ kind # "incompatible-order" /\ kind # "aborted-read" /\ kind # "intermediate-read"
          /\ kind # "lost-update"
      BY DEF CycleKinds
    <3>3. CasesOf(Index(history))[kind] = CycleOf(kind, Index(history).committed, Dependencies(Index(history)))
      BY <3>1, <3>2, Zenon DEF CasesOf
    <3> QED BY <2>1, <3>3
  <2>3. Nodes' = Index(history).committed /\ Graph' = Dependencies(Index(history))
    BY <2>1, Zenon DEF Nodes, Graph
  <2>4. \A kind \in CycleKinds : cases'[kind] = CycleOf(kind, Nodes', Graph')
    BY <2>2, <2>3
  <2> QED BY <1>1, <1>2, <2>1, <2>4 DEF IsolationInv
<1>5. CASE SearchGraph
  <2>1. /\ history = <<>> /\ history' = history /\ edges' = edges
        /\ cases' = [kind \in Range(Anomalies) |->
                        IF kind \in CycleKinds THEN CycleOf(kind, Ends(edges), edges) ELSE NoCase]
    BY <1>5, Zenon DEF SearchGraph
  <2>2. CycleKinds \subseteq Range(Anomalies)
    <3>1. Range(Anomalies) = {Anomalies[i] : i \in 1..12}
      BY DEF Range, Anomalies
    <3>2. /\ Anomalies[8] = "G0" /\ Anomalies[9] = "G1c" /\ Anomalies[10] = "Gsingle"
          /\ Anomalies[11] = "Gnonadjacent" /\ Anomalies[12] = "G2"
      BY DEF Anomalies
    <3> QED BY <3>1, <3>2 DEF CycleKinds
  <2>3. \A kind \in CycleKinds : cases'[kind] = CycleOf(kind, Ends(edges), edges)
    BY <2>1, <2>2
  <2>4. Nodes' = Ends(edges) /\ Graph' = edges
    BY <2>1 DEF Nodes, Graph
  <2>5. \A kind \in CycleKinds : cases'[kind] = CycleOf(kind, Nodes', Graph')
    BY <2>3, <2>4
  <2>6. \A kind \in Range(Anomalies) \ CycleKinds : cases'[kind] = NoCase
    BY <2>1
  <2> QED BY <1>1, <1>2, <2>1, <2>5, <2>6 DEF IsolationInv
<1>6. CASE UNCHANGED vars
  BY <1>6 DEF vars, IsolationInv, Nodes, Graph
<1> QED BY <1>3, <1>4, <1>5, <1>6 DEF Next

\* Every check keeps, of each kind of cycle, what the search of the dependency
\* graph of the history, or of the graph of its own, finds.
THEOREM IsolationInvHolds == Spec => []IsolationInv
<1> QED BY IsolationInit, IsolationStep, PTL DEF Spec

\* What the searches find is of its kind.
LEMMA KindsFollow == IsolationInv => CyclesAreOfTheirKind
<1> SUFFICES ASSUME IsolationInv, checked PROVE CyclesAreOfTheirKind
  BY DEF CyclesAreOfTheirKind
<1>1. IsGraph(Nodes, Graph)
  BY GraphIsGraph
<1>2. ASSUME NEW kind \in CycleKinds, cases[kind] # NoCase PROVE OfKind(Graph, kind, cases[kind])
  <2>1. cases[kind] = CycleOf(kind, Nodes, Graph)
    BY <1>2 DEF IsolationInv
  <2>2. CycleOf(kind, Nodes, Graph) # <<>>
    BY <1>2, <2>1 DEF NoCase
  <2> QED BY <1>1, <2>1, <2>2, FoundIsOfKind
<1> QED BY <1>2, Zenon DEF CyclesAreOfTheirKind, OfKind, NodeAfter, Graph

\* Every cycle that a check reports follows dependencies of the relations it
\* states, visits each transaction once and is of its kind, whichever way the
\* searches went and however often a walk was cut.
THEOREM CyclesHold == Spec => []CyclesAreOfTheirKind
<1> QED BY IsolationInvHolds, KindsFollow, PTL
---------------------------------------------------------------------------
(* The searches find every cycle.                                          *)

\* Steps that lead around within some nodes; and no fewer of them do.
Circle(K, steps) == K # {} /\ \A a \in K : \E b \in K : <<a, b>> \in steps
Tight(K, steps) ==
    /\ Circle(K, steps)
    /\ \A X \in SUBSET K : X # {} /\ X # K => \E a \in X, b \in K \ X : <<a, b>> \in steps

\* Every circle has a tight one in it.
LEMMA TightCircle ==
    ASSUME NEW K, IsFiniteSet(K), NEW steps, Circle(K, steps)
    PROVE  \E T \in SUBSET K : Tight(T, steps)
<1>1. PICK sizes : sizes = {Cardinality(X) : X \in {Y \in SUBSET K : Circle(Y, steps)}}
  OBVIOUS
<1>2. \A X \in SUBSET K : IsFiniteSet(X) /\ Cardinality(X) \in Nat
  BY FS_Subset, FS_CardinalityType
<1>3. sizes \in SUBSET Nat /\ sizes # {}
  BY <1>1, <1>2
<1>4. \E x \in sizes : \A y \in sizes : x <= y
  BY <1>3, LeastNumber
<1>5. PICK T \in SUBSET K : /\ Circle(T, steps)
                            /\ \A X \in SUBSET K : Circle(X, steps) => Cardinality(T) <= Cardinality(X)
  BY <1>1, <1>4
<1>6. ASSUME NEW X \in SUBSET T, X # {}, X # T PROVE \E a \in X, b \in T \ X : <<a, b>> \in steps
  <2> SUFFICES ASSUME ~ \E a \in X, b \in T \ X : <<a, b>> \in steps PROVE FALSE
    OBVIOUS
  <2>1. Circle(X, steps)
    BY <1>5, <1>6 DEF Circle
  <2>2. Cardinality(T) <= Cardinality(X)
    BY <1>5, <2>1
  <2>3. /\ IsFiniteSet(T) /\ Cardinality(T) \in Nat /\ Cardinality(X) \in Nat
        /\ Cardinality(X) <= Cardinality(T) /\ Cardinality(X) # Cardinality(T)
    BY <1>2, <1>5, <1>6, FS_Subset
  <2> QED BY <2>2, <2>3
<1>7. Tight(T, steps)
  BY <1>5, <1>6 DEF Tight
<1> QED BY <1>7

\* An edge of some relations is one of more relations.
LEMMA HasMore ==
    ASSUME NEW E, NEW a, NEW b, NEW R, NEW S, Has(E, a, b, R), R \subseteq S
    PROVE  Has(E, a, b, S)
  BY DEF Has

\* Nodes that some relations knit are knit by more relations.
LEMMA KnitMore ==
    ASSUME NEW E, NEW K, NEW R, NEW S, Knit(K, E, R), R \subseteq S
    PROVE  Knit(K, E, S)
<1>1. ASSUME NEW X \in SUBSET K, X # {}, X # K PROVE \E a \in X, b \in K \ X : Has(E, a, b, S)
  <2>1. PICK a \in X, b \in K \ X : Has(E, a, b, R)
    BY <1>1 DEF Knit
  <2> QED BY <2>1, HasMore
<1> QED BY <1>1 DEF Knit

\* Of a tight circle of edges, all are in one component.
LEMMA TightIsKnit ==
    ASSUME NEW C, NEW E, IsGraph(C, E), NEW R, NEW K, Tight(K, Pairs(E, R))
    PROVE  /\ K \in SUBSET C /\ Knit(K, E, R)
           /\ \A a \in K : \E b \in K : Has(E, a, b, R) /\ a # b
<1>1. \A v, w : <<v, w>> \in Pairs(E, R) <=> Has(E, v, w, R)
  BY PairsAre
<1>2. \A v, w : Has(E, v, w, R) => v \in C /\ v # w
  BY TargetsAre
<1>3. \A a \in K : \E b \in K : Has(E, a, b, R) /\ a # b
  BY <1>1, <1>2 DEF Tight, Circle
<1>4. Knit(K, E, R)
  BY <1>1 DEF Tight, Knit
<1> QED BY <1>2, <1>3, <1>4

\* Whether one does not come from b to a along edges within K.
Avoids(E, K, R, a, b) ==
    \E W \in SUBSET K : /\ b \in W /\ a \notin W
                        /\ \A x \in W, y \in K : Has(E, x, y, R) => y \in W

\* The edge that closes a cycle.
EdgeOf(a, b, relation) == [from |-> a, to |-> b, relation |-> relation]

\* When a search finds no cycle, there is no way back from an edge that may
\* close one.
LEMMA SearchMisses ==
    ASSUME NEW C, NEW E, IsGraph(C, E), NEW kind \in {"G0", "G1c", "Gsingle", "G2"}, Cycle(kind, C, E) = <<>>,
           NEW K \in SUBSET C, Knit(K, E, Searches[kind].component),
           NEW a \in K, NEW b \in K, Has(E, a, b, {Searches[kind].closing})
    PROVE  Avoids(E, K, Searches[kind].path, a, b)
<1>1. PICK R : R = Searches[kind].path
  OBVIOUS
<1>2. PICK closing : closing = Searches[kind].closing
  OBVIOUS
<1>3. PICK e : e = EdgeOf(a, b, closing)
  OBVIOUS
<1>4. e.from = a /\ e.to = b /\ e.relation = closing /\ e \in E
  BY <1>2, <1>3 DEF EdgeOf, Has
<1>5. a # b
  <2>1. Has(E, a, b, {closing})
    BY <1>2
  <2>2. \A x : Has(E, a, x, {closing}) => a # x
    BY TargetsAre
  <2> QED BY <2>1, <2>2
<1>6. PICK c \in Components(C, E, Searches[kind].component) : K \subseteq c
  BY <1>5, ComponentsHold
<1>7. c \subseteq C
  BY ComponentsHold
<1>8. IsTry(E, c, e, closing)
  BY <1>4, <1>6 DEF IsTry
<1>9. WayBack(E, c, kind, e) = <<>>
  BY <1>2, <1>6, <1>8, CycleIs
<1>10. PICK next : next = CycleNext(E, c, R)
  OBVIOUS
<1>11. /\ DOMAIN next = c /\ IsNext(next)
       /\ \A x \in c : Held(next[x]) = TargetsOf(E, x, R)
  BY <1>7, <1>10, CycleNextIs
<1>12. PICK path : path = Search(b, {a}, next)
  OBVIOUS
<1>13. path = <<>>
  BY <1>1, <1>4, <1>9, <1>10, <1>12, Zenon DEF WayBack
<1>14. PICK reached : Leads(b, {a}, next, reached)
  BY <1>6, <1>11, <1>12, <1>13, SearchFinds
<1>15. PICK W : W = K \cap reached
  OBVIOUS
<1>16. b \in W /\ a \notin W /\ W \in SUBSET K
  BY <1>14, <1>15 DEF Leads
<1>17. ASSUME NEW x \in W, NEW y \in K, Has(E, x, y, R) PROVE y \in W
  <2>1. x \in reached /\ x \in c /\ y \in c
    BY <1>6, <1>15
  <2>2. y \in TargetsOf(E, x, R)
    BY <1>17, TargetsAre
  <2>3. y \in Held(next[x]) \cap DOMAIN next
    BY <1>11, <2>1, <2>2
  <2>4. y \in reached
    BY <1>14, <2>1, <2>3 DEF Leads
  <2> QED BY <1>15, <2>4
<1> QED BY <1>1, <1>16, <1>17 DEF Avoids

\* Nodes that are knit by the relations of the way back have one.
LEMMA KnitReaches ==
    ASSUME NEW E, NEW K, NEW R, Knit(K, E, R), NEW a \in K, NEW b \in K
    PROVE  ~Avoids(E, K, R, a, b)
<1> SUFFICES ASSUME Avoids(E, K, R, a, b) PROVE FALSE
  OBVIOUS
<1>1. PICK W \in SUBSET K : /\ b \in W /\ a \notin W
                            /\ \A x \in W, y \in K : Has(E, x, y, R) => y \in W
  BY DEF Avoids
<1>2. \E x \in W, y \in K \ W : Has(E, x, y, R)
  BY <1>1 DEF Knit
<1> QED BY <1>1, <1>2
\* A search whose way back takes the relations of its components finds a cycle
\* of every edge in a component that may close one.
LEMMA KindFinds ==
    ASSUME NEW C, NEW E, IsGraph(C, E), NEW kind \in {"G0", "G1c", "G2"},
           NEW K \in SUBSET C, Knit(K, E, Searches[kind].path),
           NEW a \in K, NEW b \in K, Has(E, a, b, {Searches[kind].closing})
    PROVE  Cycle(kind, C, E) # <<>>
<1> SUFFICES ASSUME Cycle(kind, C, E) = <<>> PROVE FALSE
  OBVIOUS
<1>1. Searches[kind].component = Searches[kind].path
  <2>1. /\ Searches["G0"].component = {"ww"} /\ Searches["G0"].path = {"ww"}
        /\ Searches["G1c"].component = NonRw /\ Searches["G1c"].path = NonRw
        /\ Searches["G2"].component = Relations /\ Searches["G2"].path = Relations
    BY DEF Searches
  <2> QED BY <2>1
<1>2. Knit(K, E, Searches[kind].component)
  BY <1>1
<1>3. kind \in {"G0", "G1c", "Gsingle", "G2"}
  OBVIOUS
<1>4. Avoids(E, K, Searches[kind].path, a, b)
  BY <1>2, <1>3, SearchMisses
<1> QED BY <1>4, KnitReaches

\* Nodes that two relations knit are knit by the one that has an edge there.
LEMMA KnitLess ==
    ASSUME NEW E, NEW K, NEW R, NEW S, Knit(K, E, R),
           \A a, b \in K : Has(E, a, b, R) => Has(E, a, b, S)
    PROVE  Knit(K, E, S)
<1>1. ASSUME NEW X \in SUBSET K, X # {}, X # K PROVE \E a \in X, b \in K \ X : Has(E, a, b, S)
  <2>1. PICK a \in X, b \in K \ X : Has(E, a, b, R)
    BY <1>1 DEF Knit
  <2> QED BY <2>1
<1> QED BY <1>1 DEF Knit

\* Every circle without read-write edges is found as G0 or G1c.
LEMMA NonRwFinds ==
    ASSUME NEW C, NEW E, IsGraph(C, E), NEW K, Tight(K, Pairs(E, NonRw))
    PROVE  Cycle("G0", C, E) # <<>> \/ Cycle("G1c", C, E) # <<>>
<1>1. /\ K \in SUBSET C /\ Knit(K, E, NonRw)
      /\ \A a \in K : \E b \in K : Has(E, a, b, NonRw)
  BY TightIsKnit
<1>2. CASE \E a, b \in K : Has(E, a, b, {"wr"})
  <2>1. PICK a \in K, b \in K : Has(E, a, b, {"wr"})
    BY <1>2
  <2>2. Searches["G1c"].closing = "wr" /\ Searches["G1c"].path = NonRw
    BY DEF Searches
  <2>3. Cycle("G1c", C, E) # <<>>
    BY <1>1, <2>1, <2>2, KindFinds
  <2> QED BY <2>3
<1>3. CASE ~ \E a, b \in K : Has(E, a, b, {"wr"})
  <2>1. \A a, b \in K : Has(E, a, b, NonRw) => Has(E, a, b, {"ww"})
    BY <1>3 DEF Has, NonRw
  <2>2. Knit(K, E, {"ww"})
    BY <1>1, <2>1, KnitLess
  <2>3. PICK a \in K, b \in K : Has(E, a, b, {"ww"})
    BY <1>1, <2>1 DEF Tight, Circle
  <2>4. Searches["G0"].closing = "ww" /\ Searches["G0"].path = {"ww"}
    BY DEF Searches
  <2>5. Cycle("G0", C, E) # <<>>
    BY <1>1, <2>2, <2>3, <2>4, KindFinds
  <2> QED BY <2>5
<1> QED BY <1>2, <1>3

\* Every circle is found as G0, G1c or G2.
LEMMA AnyFinds ==
    ASSUME NEW C, NEW E, IsGraph(C, E), NEW K, Tight(K, Pairs(E, Relations))
    PROVE  Cycle("G0", C, E) # <<>> \/ Cycle("G1c", C, E) # <<>> \/ Cycle("G2", C, E) # <<>>
<1>1. /\ K \in SUBSET C /\ Knit(K, E, Relations)
      /\ \A a \in K : \E b \in K : Has(E, a, b, Relations)
  BY TightIsKnit
<1>2. CASE \E a, b \in K : Has(E, a, b, {"rw"})
  <2>1. PICK a \in K, b \in K : Has(E, a, b, {"rw"})
    BY <1>2
  <2>2. Searches["G2"].closing = "rw" /\ Searches["G2"].path = Relations
    BY DEF Searches
  <2>3. Cycle("G2", C, E) # <<>>
    BY <1>1, <2>1, <2>2, KindFinds
  <2> QED BY <2>3
<1>3. CASE ~ \E a, b \in K : Has(E, a, b, {"rw"})
  <2>1. \A a, b \in K : Has(E, a, b, Relations) => Has(E, a, b, NonRw)
    BY <1>3 DEF Has, Relations, NonRw
  <2>2. \A a \in K : \E b \in K : <<a, b>> \in Pairs(E, NonRw)
    BY <1>1, <2>1, PairsAre
  <2>3. Circle(K, Pairs(E, NonRw)) /\ IsFiniteSet(K)
    BY <1>1, <2>2, FS_Subset DEF Tight, Circle, IsGraph
  <2>4. PICK T \in SUBSET K : Tight(T, Pairs(E, NonRw))
    BY <2>3, TightCircle
  <2> QED BY <2>4, NonRwFinds
<1> QED BY <1>2, <1>3
---------------------------------------------------------------------------
(* The cycles that snapshot isolation forbids.                             *)

\* A step without a read-write edge, and perhaps one after it.
Composed(C, E) ==
    Pairs(E, NonRw) \cup {pq \in C \X C :
        \E b \in C : <<pq[1], b>> \in Pairs(E, NonRw) /\ <<b, pq[2]>> \in Pairs(E, {"rw"})}

\* A composed step is an edge that is not read-write, or one with a read-write
\* edge after it.
LEMMA ComposedIs ==
    ASSUME NEW C, NEW E, IsGraph(C, E)
    PROVE  /\ \A a, b : <<a, b>> \in Composed(C, E) <=>
                  \/ Has(E, a, b, NonRw)
                  \/ \E m : Has(E, a, m, NonRw) /\ Has(E, m, b, {"rw"})
           /\ \A a, b : <<a, b>> \in Composed(C, E) => a \in C /\ b \in C
<1>1. /\ \A v, w : <<v, w>> \in Pairs(E, NonRw) <=> Has(E, v, w, NonRw)
      /\ \A v, w : <<v, w>> \in Pairs(E, {"rw"}) <=> Has(E, v, w, {"rw"})
  BY PairsAre
<1>2. \A v, w, R : Has(E, v, w, R) => v \in C /\ w \in C
  BY TargetsAre
<1>3. ASSUME NEW a, NEW b
      PROVE  <<a, b>> \in Composed(C, E) <=>
                  \/ Has(E, a, b, NonRw)
                  \/ \E m : Has(E, a, m, NonRw) /\ Has(E, m, b, {"rw"})
  <2>1. ASSUME Has(E, a, b, NonRw) PROVE <<a, b>> \in Composed(C, E)
    BY <1>1, <2>1 DEF Composed
  <2>2. ASSUME NEW m, Has(E, a, m, NonRw), Has(E, m, b, {"rw"}) PROVE <<a, b>> \in Composed(C, E)
    <3>1. a \in C /\ m \in C /\ b \in C
      BY <1>2, <2>2
    <3>2. <<a, b>> \in C \X C /\ <<a, b>>[1] = a /\ <<a, b>>[2] = b
      BY <3>1
    <3>3. <<a, m>> \in Pairs(E, NonRw) /\ <<m, b>> \in Pairs(E, {"rw"})
      BY <1>1, <2>2
    <3> QED BY <3>1, <3>2, <3>3 DEF Composed
  <2>3. ASSUME <<a, b>> \in Composed(C, E), ~Has(E, a, b, NonRw)
        PROVE  \E m : Has(E, a, m, NonRw) /\ Has(E, m, b, {"rw"})
    <3>1. \E m \in C : <<a, m>> \in Pairs(E, NonRw) /\ <<m, b>> \in Pairs(E, {"rw"})
      BY <1>1, <2>3 DEF Composed
    <3> QED BY <1>1, <3>1
  <2> QED BY <2>1, <2>2, <2>3
<1>4. \A a, b : <<a, b>> \in Composed(C, E) => a \in C /\ b \in C
  BY <1>2, <1>3
<1> QED BY <1>3, <1>4
\* Some positions of a cycle that are with each the next one are all.
LEMMA AllRound ==
    ASSUME NEW n \in Nat, NEW P \in SUBSET (1..n), P # {}, \A j \in P : After(n, j) \in P
    PROVE  \A j \in 1..n : j \in P
<1>1. n \in P
  <2>1. PICK D : D = {n - j : j \in P}
    OBVIOUS
  <2>2. D \in SUBSET Nat /\ D # {}
    <3>1. \A j \in 1..n : n - j \in Nat
      OBVIOUS
    <3>2. \A j \in P : n - j \in Nat
      BY <3>1
    <3>3. \A d \in D : d \in Nat
      BY <2>1, <3>2
    <3>4. D # {}
      BY <2>1
    <3> QED BY <3>3, <3>4
  <2>3. \E x \in D : \A y \in D : x <= y
    BY <2>2, LeastNumber
  <2>4. PICK j \in P : \A i \in P : n - j <= n - i
    BY <2>1, <2>3
  <2>5. j \in 1..n
    OBVIOUS
  <2>6. CASE j # n
    <3>1. j + 1 \in P
      BY <2>4, <2>6 DEF After
    <3>2. n - j <= n - (j + 1)
      BY <2>4, <3>1
    <3> QED BY <2>5, <3>2
  <2> QED BY <2>4, <2>6
<1>2. 1 \in P /\ n # 0
  BY <1>1 DEF After
<1>3. PICK m : m = n - 1
  OBVIOUS
<1>4. m \in Nat /\ m + 1 = n
  BY <1>2, <1>3
<1>5. PICK Q : Q = {k \in 0..m : k + 1 \in P}
  OBVIOUS
<1>6. 0 \in Q
  BY <1>2, <1>4, <1>5
<1>7. ASSUME NEW k \in 0..(m - 1), k \in Q PROVE k + 1 \in Q
  <2>1. k + 1 \in P /\ k + 1 # n /\ k + 1 \in 0..m
    BY <1>4, <1>5, <1>7
  <2>2. (k + 1) + 1 \in P
    BY <2>1 DEF After
  <2> QED BY <1>5, <2>1, <2>2
<1>8. \A k \in 0..m : k \in Q
  BY <1>4, <1>6, <1>7, NumbersIn
<1>9. ASSUME NEW j \in 1..n PROVE j \in P
  <2>1. PICK k : k = j - 1
    OBVIOUS
  <2>2. k \in 0..m /\ k + 1 = j
    BY <1>4, <2>1
  <2> QED BY <1>5, <1>8, <2>2
<1> QED BY <1>9

\* The nodes of a walk.
Visits(walk) == {walk[i].node : i \in 1..Len(walk)}

\* What a closed walk visits is knit by the relations it follows.
LEMMA RoundIsKnit ==
    ASSUME NEW C, NEW E, IsGraph(C, E), NEW walk, IsWalk(E, walk), NEW R, \A i \in 1..Len(walk) : walk[i].used \subseteq R
    PROVE  Visits(walk) \in SUBSET C /\ Knit(Visits(walk), E, R) /\ Circle(Visits(walk), Pairs(E, R))
<1>1. PICK n : n = Len(walk)
  OBVIOUS
<1>2. n \in Nat /\ n # 0 /\ \A i \in 1..n : After(n, i) \in 1..n
  <2>1. n \in Nat /\ n # 0
    BY <1>1, ListedFacts DEF IsWalk
  <2> QED BY <2>1, NextIs
<1>3. ASSUME NEW i \in 1..n PROVE Has(E, walk[i].node, walk[After(n, i)].node, R)
  <2>1. Has(E, walk[i].node, walk[After(n, i)].node, walk[i].used)
    BY <1>1 DEF IsWalk
  <2>2. walk[i].used \subseteq R
    BY <1>1
  <2> QED BY <2>1, <2>2, HasMore
<1>4. PICK K : K = Visits(walk)
  OBVIOUS
<1>5. K = {walk[i].node : i \in 1..n}
  BY <1>1, <1>4 DEF Visits
<1>6. K \in SUBSET C
  <2>1. \A v, w : Has(E, v, w, R) => v \in C
    BY TargetsAre
  <2>2. \A i \in 1..n : walk[i].node \in C
    BY <1>3, <2>1
  <2> QED BY <1>5, <2>2
<1>7. ASSUME NEW X \in SUBSET K, X # {}, X # K PROVE \E a \in X, b \in K \ X : Has(E, a, b, R)
  <2>1. PICK P : P = {i \in 1..n : walk[i].node \in X}
    OBVIOUS
  <2>2. P \in SUBSET (1..n) /\ P # {}
    BY <1>5, <1>7, <2>1
  <2>3. \E i \in 1..n : i \notin P
    BY <1>5, <1>7, <2>1
  <2>4. \E i \in P : After(n, i) \notin P
    BY <1>2, <2>2, <2>3, AllRound
  <2>5. PICK i \in P : After(n, i) \notin P
    BY <2>4
  <2>6. i \in 1..n /\ After(n, i) \in 1..n
    BY <1>2, <2>2, <2>5
  <2>7. walk[i].node \in X /\ walk[After(n, i)].node \in K \ X
    BY <1>5, <2>1, <2>5, <2>6
  <2> QED BY <1>3, <2>6, <2>7
<1>8. ASSUME NEW a \in K PROVE \E b \in K : <<a, b>> \in Pairs(E, R)
  <2>1. PICK i \in 1..n : a = walk[i].node
    BY <1>5
  <2>2. walk[After(n, i)].node \in K
    BY <1>2, <1>5
  <2>3. <<a, walk[After(n, i)].node>> \in Pairs(E, R)
    BY <1>3, <2>1, PairsAre
  <2> QED BY <2>2, <2>3
<1>9. K # {}
  <2>1. 1 \in 1..n
    BY <1>2
  <2> QED BY <1>5, <2>1
<1> QED BY <1>4, <1>6, <1>7, <1>8, <1>9 DEF Knit, Circle

\* A circle without read-write edges is found.
LEMMA CircleFinds ==
    ASSUME NEW C, NEW E, IsGraph(C, E), NEW K \in SUBSET C, Circle(K, Pairs(E, NonRw))
    PROVE  Cycle("G0", C, E) # <<>> \/ Cycle("G1c", C, E) # <<>>
<1>1. IsFiniteSet(K)
  BY FS_Subset DEF IsGraph
<1>2. PICK T \in SUBSET K : Tight(T, Pairs(E, NonRw))
  BY <1>1, TightCircle
<1> QED BY <1>2, NonRwFinds

\* A walk with at most one read-write edge has no other kind of cycle than
\* those that the other searches find.
LEMMA FewRwFinds ==
    ASSUME NEW C, NEW E, IsGraph(C, E), NEW cycle, Weaves(E, cycle), Cardinality(RwSteps(cycle)) <= 1
    PROVE  Cycle("G0", C, E) # <<>> \/ Cycle("G1c", C, E) # <<>> \/ Cycle("Gsingle", C, E) # <<>>
<1>1. PICK n : n = Len(cycle)
  OBVIOUS
<1>2. IsWalk(E, cycle) /\ Listed(cycle) /\ \A i \in 1..n : cycle[i].used \in {{"rw"}, NonRw}
  BY <1>1 DEF Weaves, IsWalk
<1>3. n \in Nat /\ DOMAIN cycle = 1..n
  BY <1>1, <1>2, ListedFacts
<1>4. \A i \in 1..n : After(n, i) \in 1..n
  BY <1>3, NextIs
<1>5. CASE RwSteps(cycle) = {}
  <2>1. \A i \in 1..n : cycle[i].used = NonRw
    BY <1>2, <1>3, <1>5 DEF RwSteps
  <2>2. Visits(cycle) \in SUBSET C /\ Circle(Visits(cycle), Pairs(E, NonRw))
    BY <1>1, <1>2, <2>1, RoundIsKnit
  <2> QED BY <2>2, CircleFinds
<1>6. CASE RwSteps(cycle) # {}
  <2>1. PICK i \in RwSteps(cycle) : TRUE
    BY <1>6
  <2>2. i \in 1..n /\ cycle[i].used = {"rw"}
    BY <1>3, <2>1 DEF RwSteps
  <2>3. \A j \in RwSteps(cycle) : j = i
    <3>1. IsFiniteSet(RwSteps(cycle)) /\ Cardinality(RwSteps(cycle)) \in Nat
      BY <1>2, RwStepsFinite
    <3>2. Cardinality(RwSteps(cycle)) # 0
      BY <1>6, <3>1, FS_EmptySet
    <3>3. Cardinality(RwSteps(cycle)) = 1
      BY <3>1, <3>2
    <3>4. \E x : RwSteps(cycle) = {x}
      BY <3>1, <3>3, FS_Singleton
    <3> QED BY <2>1, <3>4
  <2>4. \A j \in 1..n : j # i => cycle[j].used = NonRw
    BY <1>2, <1>3, <2>3 DEF RwSteps
  <2>5. PICK K : K = Visits(cycle)
    OBVIOUS
  <2>6. K \in SUBSET C /\ Knit(K, E, Relations)
    <3>1. \A j \in 1..n : cycle[j].used \subseteq Relations
      BY <1>2 DEF Relations, NonRw
    <3> QED BY <1>1, <1>2, <2>5, <3>1, RoundIsKnit
  <2>7. \A j \in 1..n : cycle[j].node \in K /\ Has(E, cycle[j].node, cycle[After(n, j)].node, cycle[j].used)
    BY <1>1, <1>2, <2>5 DEF Visits, IsWalk
  <2>8. PICK a : a = cycle[i].node
    OBVIOUS
  <2>9. PICK b : b = cycle[After(n, i)].node
    OBVIOUS
  <2>10. a \in K /\ b \in K /\ Has(E, a, b, {"rw"})
    BY <1>4, <2>2, <2>7, <2>8, <2>9
  <2>11. CASE Cycle("Gsingle", C, E) = <<>>
    <3>1. /\ Searches["Gsingle"].closing = "rw" /\ Searches["Gsingle"].path = NonRw
          /\ Searches["Gsingle"].component = Relations
      BY DEF Searches
    <3>2. Avoids(E, K, NonRw, a, b)
      BY <2>6, <2>10, <2>11, <3>1, SearchMisses
    <3>3. PICK W \in SUBSET K : /\ b \in W /\ a \notin W
                                /\ \A x \in W, y \in K : Has(E, x, y, NonRw) => y \in W
      BY <3>2 DEF Avoids
    <3>4. PICK P : P = {j \in 1..n : cycle[j].node \in W}
      OBVIOUS
    <3>5. P \in SUBSET (1..n) /\ P # {}
      BY <1>4, <2>2, <2>9, <3>3, <3>4
    <3>6. ASSUME NEW j \in P PROVE After(n, j) \in P
      <4>1. j \in 1..n /\ cycle[j].node \in W /\ After(n, j) \in 1..n
        BY <1>4, <3>4
      <4>2. j # i
        BY <2>8, <3>3, <4>1
      <4>3. Has(E, cycle[j].node, cycle[After(n, j)].node, NonRw) /\ cycle[After(n, j)].node \in K
        BY <2>4, <2>7, <4>1, <4>2
      <4>4. cycle[After(n, j)].node \in W
        BY <3>3, <4>1, <4>3
      <4> QED BY <3>4, <4>1, <4>4
    <3>7. \A j \in 1..n : j \in P
      BY <1>3, <3>5, <3>6, AllRound
    <3>8. cycle[i].node \in W
      BY <2>2, <3>4, <3>7
    <3> QED BY <2>8, <3>3, <3>8
  <2> QED BY <2>11
<1> QED BY <1>5, <1>6
\* Some nodes and those between two of them in a composed step.
Wider(K, C, E) ==
    K \cup {m \in C : \E p, q \in K : Has(E, p, m, NonRw) /\ Has(E, m, q, {"rw"})}

\* What is in such a set.
LEMMA WiderIs ==
    ASSUME NEW C, NEW E, IsGraph(C, E), NEW K
    PROVE  /\ K \subseteq Wider(K, C, E)
           /\ \A m : \A p, q \in K : Has(E, p, m, NonRw) /\ Has(E, m, q, {"rw"}) => m \in Wider(K, C, E)
           /\ \A m \in Wider(K, C, E) \ K : \E p, q \in K : Has(E, p, m, NonRw) /\ Has(E, m, q, {"rw"})
<1>1. \A v, w, R : Has(E, v, w, R) => v \in C /\ w \in C
  BY TargetsAre
<1> QED BY <1>1 DEF Wider

\* The nodes of a tight circle of composed steps, and those between them, are
\* in one component.
LEMMA WiderIsKnit ==
    ASSUME NEW C, NEW E, IsGraph(C, E), NEW K, Tight(K, Composed(C, E))
    PROVE  K \in SUBSET C /\ Wider(K, C, E) \in SUBSET C /\ Knit(Wider(K, C, E), E, Relations)
<1>1. PICK L : L = Wider(K, C, E)
  OBVIOUS
<1>2. /\ K \subseteq L
      /\ \A m : \A p, q \in K : Has(E, p, m, NonRw) /\ Has(E, m, q, {"rw"}) => m \in L
      /\ \A m \in L \ K : \E p, q \in K : Has(E, p, m, NonRw) /\ Has(E, m, q, {"rw"})
  BY <1>1, WiderIs
<1>3. /\ \A a, b : <<a, b>> \in Composed(C, E) <=>
             \/ Has(E, a, b, NonRw)
             \/ \E m : Has(E, a, m, NonRw) /\ Has(E, m, b, {"rw"})
      /\ \A a, b : <<a, b>> \in Composed(C, E) => a \in C /\ b \in C
  BY ComposedIs
<1>4. K \in SUBSET C /\ K # {}
  BY <1>3 DEF Tight, Circle
<1>5. L \in SUBSET C
  BY <1>1, <1>4 DEF Wider
<1>6. NonRw \subseteq Relations /\ {"rw"} \subseteq Relations
  BY DEF NonRw, Relations
<1>7. \A a, b : Has(E, a, b, NonRw) \/ Has(E, a, b, {"rw"}) => Has(E, a, b, Relations)
  BY <1>6, HasMore
<1>8. ASSUME NEW X \in SUBSET L, X # {}, X # L PROVE \E a \in X, b \in L \ X : Has(E, a, b, Relations)
  <2>1. CASE X \cap K = {}
    <3>1. PICK m \in X : m \in L \ K
      BY <1>8, <2>1
    <3>2. PICK q \in K : Has(E, m, q, {"rw"})
      BY <1>2, <3>1
    <3>3. q \in L \ X
      BY <1>2, <2>1, <3>2
    <3> QED BY <1>7, <3>1, <3>2, <3>3
  <2>2. CASE K \subseteq X
    <3>1. PICK m \in L \ X : m \in L \ K
      BY <1>8, <2>2
    <3>2. PICK p \in K : Has(E, p, m, NonRw)
      BY <1>2, <3>1
    <3>3. p \in X
      BY <2>2
    <3> QED BY <1>7, <3>1, <3>2, <3>3
  <2>3. CASE X \cap K # {} /\ ~(K \subseteq X)
    <3>1. PICK Y : Y = X \cap K
      OBVIOUS
    <3>2. Y \in SUBSET K /\ Y # {} /\ Y # K
      BY <2>3, <3>1
    <3>3. PICK p \in Y, q \in K \ Y : <<p, q>> \in Composed(C, E)
      BY <3>2 DEF Tight
    <3>4. p \in X /\ p \in K /\ q \in L \ X /\ q \in K
      BY <1>2, <3>1, <3>3
    <3>5. CASE Has(E, p, q, NonRw)
      BY <1>7, <3>4, <3>5
    <3>6. CASE ~Has(E, p, q, NonRw)
      <4>1. PICK m : Has(E, p, m, NonRw) /\ Has(E, m, q, {"rw"})
        BY <1>3, <3>3, <3>6
      <4>2. m \in L
        BY <1>2, <3>4, <4>1
      <4>3. CASE m \in X
        BY <1>7, <3>4, <4>1, <4>3
      <4>4. CASE m \notin X
        BY <1>7, <3>4, <4>1, <4>2, <4>4
      <4> QED BY <4>3, <4>4
    <3> QED BY <3>5, <3>6
  <2> QED BY <2>1, <2>2, <2>3
<1> QED BY <1>1, <1>4, <1>5, <1>8 DEF Knit

\* What the search from an edge misses when it finds no way back: a set of
\* states that it reaches, without the one that closes the walk.
MissedStates(E, c, m, b, Z) ==
    /\ State(b, TRUE, FALSE) \in Z /\ State(m, FALSE, TRUE) \notin Z
    /\ \A v, w \in c, rw, taken \in BOOLEAN :
           State(v, rw, taken) \in Z =>
               /\ Has(E, v, w, NonRw) => State(w, FALSE, taken) \in Z
               /\ ~rw /\ Has(E, v, w, {"rw"}) => State(w, TRUE, TRUE) \in Z

\* A search from an edge that finds no way back reaches such a set of states.
LEMMA StatesMissed ==
    ASSUME NEW C, NEW E, IsGraph(C, E), NEW c, c \subseteq C, NEW edge, IsTry(E, c, edge, "rw"),
           StatesBack(E, c, edge) = <<>>
    PROVE  \E Z : MissedStates(E, c, edge.from, edge.to, Z)
<1>1. PICK next : next = StateNext(E, c)
  OBVIOUS
<1>2. /\ DOMAIN next = States(c) /\ IsNext(next)
      /\ \A s \in States(c) : Held(next[s]) = NextStates(E, s)
  BY <1>1, StateNextIs
<1>3. PICK m : m = edge.from
  OBVIOUS
<1>4. PICK b : b = edge.to
  OBVIOUS
<1>5. m \in c /\ b \in c
  BY <1>3, <1>4 DEF IsTry
<1>6. \A v \in c : \A rw, taken \in BOOLEAN :
          /\ State(v, rw, taken) \in States(c) /\ State(v, rw, taken).node = v
          /\ State(v, rw, taken).afterRw = rw /\ State(v, rw, taken).taken = taken
  BY DEF States, State
<1>7. PICK start : start = State(b, TRUE, FALSE)
  OBVIOUS
<1>8. PICK goal : goal = State(m, FALSE, TRUE)
  OBVIOUS
<1>9. start \in DOMAIN next
  BY <1>2, <1>5, <1>6, <1>7
<1>10. PICK path : path = Search(start, {goal}, next)
  OBVIOUS
<1>11. path = StatesBack(E, c, edge)
  BY <1>1, <1>3, <1>4, <1>7, <1>8, <1>10, Zenon DEF StatesBack
<1>12. path = <<>>
  BY <1>11
<1>13. PICK Z : Leads(start, {goal}, next, Z)
  BY <1>2, <1>9, <1>10, <1>12, SearchFinds
<1>14. ASSUME NEW v \in c, NEW w \in c, NEW rw \in BOOLEAN, NEW taken \in BOOLEAN, State(v, rw, taken) \in Z
       PROVE  /\ Has(E, v, w, NonRw) => State(w, FALSE, taken) \in Z
              /\ ~rw /\ Has(E, v, w, {"rw"}) => State(w, TRUE, TRUE) \in Z
  <2>1. PICK s : s = State(v, rw, taken)
    OBVIOUS
  <2>2. s \in Z /\ s \in States(c) /\ s.node = v /\ s.afterRw = rw /\ s.taken = taken
    BY <1>6, <1>14, <2>1
  <2>3. \A t \in NextStates(E, s) : t \in States(c) => t \in Z
    BY <1>2, <1>13, <2>2 DEF Leads
  <2>4. \A R : Has(E, v, w, R) => w \in TargetsOf(E, v, R)
    BY TargetsAre
  <2>5. Has(E, v, w, NonRw) => State(w, FALSE, taken) \in NextStates(E, s)
    BY <2>2, <2>4 DEF NextStates
  <2>6. ~rw /\ Has(E, v, w, {"rw"}) => State(w, TRUE, TRUE) \in NextStates(E, s)
    BY <2>2, <2>4 DEF NextStates
  <2>7. State(w, FALSE, taken) \in States(c) /\ State(w, TRUE, TRUE) \in States(c)
    BY <1>6
  <2> QED BY <2>3, <2>5, <2>6, <2>7
<1>15. start \in Z /\ goal \notin Z
  BY <1>13 DEF Leads
<1>16. MissedStates(E, c, m, b, Z)
  BY <1>7, <1>8, <1>14, <1>15 DEF MissedStates
<1> QED BY <1>3, <1>4, <1>16

\* Every circle of composed steps is found as one of the kinds that snapshot
\* isolation forbids.
LEMMA SnapshotFinds ==
    ASSUME NEW C, NEW E, IsGraph(C, E), NEW K, Tight(K, Composed(C, E))
    PROVE  \/ Cycle("G0", C, E) # <<>> \/ Cycle("G1c", C, E) # <<>>
           \/ Cycle("Gsingle", C, E) # <<>> \/ Nonadjacent(C, E) # <<>>
<1> SUFFICES ASSUME Cycle("G0", C, E) = <<>>, Cycle("G1c", C, E) = <<>>,
                    Cycle("Gsingle", C, E) = <<>>, Nonadjacent(C, E) = <<>>
             PROVE  FALSE
  OBVIOUS
<1>1. PICK L : L = Wider(K, C, E)
  OBVIOUS
<1>2. /\ K \subseteq L
      /\ \A m : \A p, q \in K : Has(E, p, m, NonRw) /\ Has(E, m, q, {"rw"}) => m \in L
  BY <1>1, WiderIs
<1>3. K \in SUBSET C /\ L \in SUBSET C /\ Knit(L, E, Relations)
  BY <1>1, WiderIsKnit
<1>4. \A a, b : <<a, b>> \in Composed(C, E) <=>
             \/ Has(E, a, b, NonRw)
             \/ \E m : Has(E, a, m, NonRw) /\ Has(E, m, b, {"rw"})
  BY ComposedIs
<1>5. PICK a \in K, b \in K : \E m : Has(E, a, m, NonRw) /\ Has(E, m, b, {"rw"})
  <2> SUFFICES ASSUME ~ \E a \in K : \E b \in K : \E m : Has(E, a, m, NonRw) /\ Has(E, m, b, {"rw"}) PROVE FALSE
    OBVIOUS
  <2>1. \A a \in K : \E b \in K : Has(E, a, b, NonRw)
    BY <1>4 DEF Tight, Circle
  <2>2. Circle(K, Pairs(E, NonRw))
    BY <2>1, PairsAre DEF Tight, Circle
  <2> QED BY <1>3, <2>2, CircleFinds
<1>6. PICK m : Has(E, a, m, NonRw) /\ Has(E, m, b, {"rw"})
  BY <1>5
<1>7. a \in L /\ m \in L /\ b \in L /\ a # m
  <2>1. \A v, w, R : Has(E, v, w, R) => v # w
    BY TargetsAre
  <2> QED BY <1>2, <1>6, <2>1
<1>8. PICK c \in Components(C, E, Relations) : L \subseteq c
  BY <1>3, <1>7, ComponentsHold
<1>9. c \subseteq C
  BY ComponentsHold
<1>10. Avoids(E, L, NonRw, m, b)
  <2>1. /\ Searches["Gsingle"].closing = "rw" /\ Searches["Gsingle"].path = NonRw
        /\ Searches["Gsingle"].component = Relations
    BY DEF Searches
  <2> QED BY <1>3, <1>6, <1>7, <2>1, SearchMisses
<1>11. PICK U \in SUBSET L : /\ b \in U /\ m \notin U
                             /\ \A x \in U, y \in L : Has(E, x, y, NonRw) => y \in U
  BY <1>10 DEF Avoids
<1>12. PICK edge : edge = EdgeOf(m, b, "rw")
  OBVIOUS
<1>13. edge.from = m /\ edge.to = b /\ IsTry(E, c, edge, "rw")
  <2>1. edge.from = m /\ edge.to = b /\ edge.relation = "rw" /\ edge \in E
    BY <1>6, <1>12 DEF EdgeOf, Has
  <2>2. m \in c /\ b \in c
    BY <1>7, <1>8
  <2> QED BY <2>1, <2>2 DEF IsTry
<1>14. StatesBack(E, c, edge) = <<>>
  <2>1. ~ \E cycle : Weaves(E, cycle) /\ Once(cycle) /\ Cardinality(RwSteps(cycle)) <= 1
    BY FewRwFinds
  <2> QED BY <1>13, <2>1, NonadjacentIs
<1>15. PICK Z : MissedStates(E, c, m, b, Z)
  BY <1>9, <1>13, <1>14, StatesMissed
<1>16. /\ State(b, TRUE, FALSE) \in Z /\ State(m, FALSE, TRUE) \notin Z
       /\ \A v, w \in c, rw, taken \in BOOLEAN :
              State(v, rw, taken) \in Z =>
                  /\ Has(E, v, w, NonRw) => State(w, FALSE, taken) \in Z
                  /\ ~rw /\ Has(E, v, w, {"rw"}) => State(w, TRUE, TRUE) \in Z
  BY <1>15 DEF MissedStates
<1>17. PICK W : W = {k \in K : \E rw, taken \in BOOLEAN : State(k, rw, taken) \in Z /\ (taken \/ k \in U)}
  OBVIOUS
<1>18. b \in W
  BY <1>11, <1>16, <1>17
<1>19. ASSUME NEW p \in W, NEW q \in K, <<p, q>> \in Composed(C, E) PROVE q \in W
  <2>1. PICK rw \in BOOLEAN, taken \in BOOLEAN : State(p, rw, taken) \in Z /\ (taken \/ p \in U)
    BY <1>17, <1>19
  <2>2. p \in K /\ p \in L /\ q \in L /\ p \in c /\ q \in c
    BY <1>2, <1>8, <1>17, <1>19
  <2>3. CASE Has(E, p, q, NonRw)
    <3>1. State(q, FALSE, taken) \in Z
      BY <1>16, <2>1, <2>2, <2>3
    <3>2. taken \/ q \in U
      BY <1>11, <2>1, <2>2, <2>3
    <3> QED BY <1>17, <3>1, <3>2
  <2>4. CASE ~Has(E, p, q, NonRw)
    <3>1. PICK n : Has(E, p, n, NonRw) /\ Has(E, n, q, {"rw"})
      BY <1>4, <1>19, <2>4
    <3>2. n \in c
      BY <1>2, <1>8, <2>2, <3>1
    <3>3. State(n, FALSE, taken) \in Z
      BY <1>16, <2>1, <2>2, <3>1, <3>2
    <3>4. State(q, TRUE, TRUE) \in Z
      BY <1>16, <2>2, <3>1, <3>2, <3>3
    <3> QED BY <1>17, <3>4
  <2> QED BY <2>3, <2>4
<1>20. W = K
  <2>1. W \in SUBSET K /\ W # {}
    BY <1>17, <1>18
  <2>2. ~ \E p \in W, q \in K \ W : <<p, q>> \in Composed(C, E)
    BY <1>19
  <2> QED BY <2>1, <2>2 DEF Tight
<1>21. PICK rw \in BOOLEAN, taken \in BOOLEAN : State(a, rw, taken) \in Z /\ (taken \/ a \in U)
  BY <1>17, <1>20
<1>22. a \notin U
  BY <1>6, <1>7, <1>11
<1>23. taken = TRUE
  BY <1>21, <1>22
<1>24. a \in c /\ m \in c
  BY <1>7, <1>8
<1>25. State(m, FALSE, TRUE) \in Z
  BY <1>6, <1>16, <1>21, <1>23, <1>24
<1> QED BY <1>16, <1>25
\* A walk without two adjacent read-write edges goes around in composed steps.
LEMMA WalkComposes ==
    ASSUME NEW C, NEW E, IsGraph(C, E), NEW walk, IsWalk(E, walk),
           \A i \in 1..Len(walk) : walk[i].used = {"rw"} \/ walk[i].used \subseteq NonRw,
           \A i \in 1..Len(walk) : ~(walk[i].used = {"rw"} /\ walk[After(Len(walk), i)].used = {"rw"})
    PROVE  \E K : Circle(K, Composed(C, E))
<1>1. PICK n : n = Len(walk)
  OBVIOUS
<1>2. n \in Nat /\ n # 0 /\ \A i \in 1..n : After(n, i) \in 1..n
  <2>1. n \in Nat /\ n # 0
    BY <1>1, ListedFacts DEF IsWalk
  <2> QED BY <2>1, NextIs
<1>3. \A i \in 1..n : Has(E, walk[i].node, walk[After(n, i)].node, walk[i].used)
  BY <1>1 DEF IsWalk
<1>4. \A i \in 1..n : walk[i].used # {"rw"} => Has(E, walk[i].node, walk[After(n, i)].node, NonRw)
  BY <1>1, <1>3, HasMore
<1>5. PICK K : K = {walk[i].node : i \in {j \in 1..n : walk[j].used # {"rw"}}}
  OBVIOUS
<1>6. \A a, b : (\/ Has(E, a, b, NonRw)
                 \/ \E m : Has(E, a, m, NonRw) /\ Has(E, m, b, {"rw"})) => <<a, b>> \in Composed(C, E)
  BY ComposedIs
<1>7. ASSUME NEW a \in K PROVE \E b \in K : <<a, b>> \in Composed(C, E)
  <2>1. PICK i \in 1..n : a = walk[i].node /\ walk[i].used # {"rw"}
    BY <1>5
  <2>2. PICK j : j = After(n, i)
    OBVIOUS
  <2>3. j \in 1..n /\ Has(E, a, walk[j].node, NonRw)
    BY <1>2, <1>4, <2>1, <2>2
  <2>4. CASE walk[j].used # {"rw"}
    <3>1. walk[j].node \in K
      BY <1>5, <2>3, <2>4
    <3> QED BY <1>6, <2>3, <3>1
  <2>5. CASE walk[j].used = {"rw"}
    <3>1. PICK l : l = After(n, j)
      OBVIOUS
    <3>2. l \in 1..n /\ walk[l].used # {"rw"}
      BY <1>1, <1>2, <2>3, <2>5, <3>1
    <3>3. walk[l].node \in K
      BY <1>5, <3>2
    <3>4. Has(E, walk[j].node, walk[l].node, {"rw"})
      BY <1>3, <2>3, <2>5, <3>1
    <3> QED BY <1>6, <2>3, <3>3, <3>4
  <2> QED BY <2>4, <2>5
<1>8. K # {}
  <2>1. 1 \in 1..n
    BY <1>2
  <2>2. CASE walk[1].used # {"rw"}
    BY <1>5, <2>1, <2>2
  <2>3. CASE walk[1].used = {"rw"}
    <3>1. After(n, 1) \in 1..n /\ walk[After(n, 1)].used # {"rw"}
      BY <1>1, <1>2, <2>1, <2>3
    <3> QED BY <1>5, <3>1
  <2> QED BY <2>2, <2>3
<1> QED BY <1>7, <1>8 DEF Circle

\* Whether a search for a kind that snapshot isolation forbids finds a cycle.
FoundOf(C, E) ==
    \/ Cycle("G0", C, E) # <<>> \/ Cycle("G1c", C, E) # <<>>
    \/ Cycle("Gsingle", C, E) # <<>> \/ Nonadjacent(C, E) # <<>>

\* What _cycle() finds goes around by the relations that it states.
LEMMA CycleWalks ==
    ASSUME NEW C, NEW E, IsGraph(C, E), NEW kind \in {"G0", "G1c", "Gsingle", "G2"}, NEW cycle,
           cycle = Cycle(kind, C, E), cycle # <<>>
    PROVE  /\ IsWalk(E, cycle) /\ Len(cycle) > 1 /\ cycle[1].used = First(kind)
           /\ \A i \in 1..Len(cycle) : i # 1 => cycle[i].used = Searches[kind].path
<1>1. ClosesWith(E, cycle, Searches[kind].closing, First(kind), Searches[kind].path)
  BY CycleIs
<1>2. IsWalk(E, cycle) /\ Len(cycle) > 1 /\ cycle[1].used = First(kind)
  BY <1>1 DEF ClosesWith
<1>3. \A i \in 2..Len(cycle) : cycle[i].used = Searches[kind].path
  BY <1>1 DEF ClosesWith
<1>4. Len(cycle) \in Nat
  BY <1>2, ListedFacts DEF IsWalk
<1>5. \A i \in 1..Len(cycle) : i # 1 => i \in 2..Len(cycle)
  BY <1>4
<1> QED BY <1>2, <1>3, <1>5

\* They find one when, and only when, composed steps lead around.
LEMMA SnapshotFound ==
    ASSUME NEW C, NEW E, IsGraph(C, E)
    PROVE  FoundOf(C, E) <=> \E K : Circle(K, Composed(C, E))
<1>1. ASSUME NEW K, Circle(K, Composed(C, E)) PROVE FoundOf(C, E)
  <2>1. \A a, b : <<a, b>> \in Composed(C, E) => a \in C
    BY ComposedIs
  <2>2. K \in SUBSET C
    BY <1>1, <2>1 DEF Circle
  <2>3. IsFiniteSet(K)
    BY <2>2, FS_Subset DEF IsGraph
  <2>4. PICK T \in SUBSET K : Tight(T, Composed(C, E))
    BY <1>1, <2>3, TightCircle
  <2> QED BY <2>4, SnapshotFinds DEF FoundOf
<1>2. ASSUME NEW kind \in {"G0", "G1c", "Gsingle"}, Cycle(kind, C, E) # <<>>
      PROVE  \E K : Circle(K, Composed(C, E))
  <2>1. PICK cycle : cycle = Cycle(kind, C, E)
    OBVIOUS
  <2>2. PICK n : n = Len(cycle)
    OBVIOUS
  <2>3. kind \in {"G0", "G1c", "Gsingle", "G2"} /\ cycle # <<>>
    BY <1>2, <2>1
  <2>4. /\ IsWalk(E, cycle) /\ n > 1 /\ cycle[1].used = First(kind)
        /\ \A i \in 1..n : i # 1 => cycle[i].used = Searches[kind].path
    BY <2>1, <2>2, <2>3, CycleWalks
  <2>5. Searches[kind].path \subseteq NonRw /\ (First(kind) = {"rw"} \/ First(kind) \subseteq NonRw)
    BY DEF First, Searches, NonRw
  <2>6. \A i \in 1..n : /\ cycle[i].used = {"rw"} \/ cycle[i].used \subseteq NonRw
                        /\ i # 1 => cycle[i].used # {"rw"}
    BY <2>4, <2>5 DEF NonRw
  <2>7. \A i \in 1..n : ~(cycle[i].used = {"rw"} /\ cycle[After(n, i)].used = {"rw"})
    <3>1. n \in Nat /\ 2 \in 1..n
      BY <2>2, <2>4, ListedFacts DEF IsWalk
    <3>2. After(n, 1) = 2
      BY <2>4 DEF After
    <3> QED BY <2>6, <3>1, <3>2
  <2> QED BY <2>2, <2>4, <2>6, <2>7, WalkComposes
<1>3. ASSUME Nonadjacent(C, E) # <<>> PROVE \E K : Circle(K, Composed(C, E))
  <2>1. PICK cycle : cycle = Nonadjacent(C, E)
    OBVIOUS
  <2>2. Weaves(E, cycle)
    BY <1>3, <2>1, NonadjacentIs DEF IsNonadjacent
  <2>3. /\ IsWalk(E, cycle)
        /\ \A i \in 1..Len(cycle) : cycle[i].used = {"rw"} \/ cycle[i].used \subseteq NonRw
        /\ \A i \in 1..Len(cycle) : ~(cycle[i].used = {"rw"} /\ cycle[After(Len(cycle), i)].used = {"rw"})
    BY <2>2 DEF Weaves
  <2> QED BY <2>3, WalkComposes
<1> QED BY <1>1, <1>2, <1>3 DEF FoundOf

\* Any search finds a cycle when, and only when, dependencies lead around.
LEMMA AnyFound ==
    ASSUME NEW C, NEW E, IsGraph(C, E)
    PROVE  FoundOf(C, E) \/ Cycle("G2", C, E) # <<>> <=> \E K : Circle(K, Pairs(E, Relations))
<1>1. ASSUME NEW K, Circle(K, Pairs(E, Relations)) PROVE FoundOf(C, E) \/ Cycle("G2", C, E) # <<>>
  <2>1. \A a, b : <<a, b>> \in Pairs(E, Relations) => a \in C
    <3>1. \A a, b : <<a, b>> \in Pairs(E, Relations) => Has(E, a, b, Relations)
      BY PairsAre
    <3>2. \A a, b : Has(E, a, b, Relations) => a \in C
      BY TargetsAre
    <3> QED BY <3>1, <3>2
  <2>2. K \in SUBSET C
    BY <1>1, <2>1 DEF Circle
  <2>3. IsFiniteSet(K)
    BY <2>2, FS_Subset DEF IsGraph
  <2>4. PICK T \in SUBSET K : Tight(T, Pairs(E, Relations))
    BY <1>1, <2>3, TightCircle
  <2> QED BY <2>4, AnyFinds DEF FoundOf
<1>2. ASSUME NEW kind \in {"G0", "G1c", "Gsingle", "G2"}, Cycle(kind, C, E) # <<>>
      PROVE  \E K : Circle(K, Pairs(E, Relations))
  <2>1. PICK cycle : cycle = Cycle(kind, C, E)
    OBVIOUS
  <2>2. PICK n : n = Len(cycle)
    OBVIOUS
  <2>3. /\ IsWalk(E, cycle) /\ cycle[1].used = First(kind)
        /\ \A i \in 1..n : i # 1 => cycle[i].used = Searches[kind].path
    BY <1>2, <2>1, <2>2, CycleWalks
  <2>4. Searches[kind].path \subseteq Relations /\ First(kind) \subseteq Relations
    BY DEF First, Searches, NonRw, Relations
  <2>5. \A i \in 1..n : cycle[i].used \subseteq Relations
    BY <2>3, <2>4
  <2> QED BY <2>2, <2>3, <2>5, RoundIsKnit
<1>3. ASSUME Nonadjacent(C, E) # <<>> PROVE \E K : Circle(K, Pairs(E, Relations))
  <2>1. PICK cycle : cycle = Nonadjacent(C, E)
    OBVIOUS
  <2>2. Weaves(E, cycle)
    BY <1>3, <2>1, NonadjacentIs DEF IsNonadjacent
  <2>3. IsWalk(E, cycle) /\ \A i \in 1..Len(cycle) : cycle[i].used \subseteq Relations
    BY <2>2 DEF Weaves, NonRw, Relations
  <2> QED BY <2>3, RoundIsKnit
<1> QED BY <1>1, <1>2, <1>3 DEF FoundOf
---------------------------------------------------------------------------
(* A check of a graph reports what the searches find.                      *)

\* The anomalies list the kinds of cycle.
LEMMA AnomaliesAre ==
    /\ Anomalies \in Seq(Range(Anomalies))
    /\ Range(Anomalies) \cap CycleKinds = CycleKinds
<1>1. Range(Anomalies) = {Anomalies[i] : i \in 1..12}
  BY DEF Range, Anomalies
<1>2. /\ Anomalies[8] = "G0" /\ Anomalies[9] = "G1c" /\ Anomalies[10] = "Gsingle"
      /\ Anomalies[11] = "Gnonadjacent" /\ Anomalies[12] = "G2"
  BY DEF Anomalies
<1>3. Anomalies = [i \in 1..12 |-> Anomalies[i]]
  BY DEF Anomalies
<1>4. Anomalies \in Seq(Range(Anomalies))
  BY <1>1, <1>3
<1> QED BY <1>1, <1>2, <1>4 DEF CycleKinds

\* A check passes a level when it has no case of what the level forbids.
LEMMA PassedIs ==
    ASSUME NEW found, NEW level
    PROVE  Passed(found, level) <=> \A k \in Forbids(level) : found[k] = NoCase
<1>1. PICK bad : bad = {k \in Forbids(level) : found[k] # NoCase}
  OBVIOUS
<1>2. PICK T : T = Range(Anomalies)
  OBVIOUS
<1>3. Anomalies \in Seq(T)
  BY <1>2, AnomaliesAre
<1>4. PICK kinds : kinds = Among(Anomalies, bad)
  OBVIOUS
<1>5. kinds \in Seq(T) /\ Range(kinds) = T \cap bad
  BY <1>2, <1>3, <1>4, AmongKeeps
<1>6. bad \subseteq T
  BY <1>1, <1>2 DEF Forbids
<1>7. kinds = <<>> <=> bad = {}
  <2>1. kinds = <<>> => Range(kinds) = {}
    BY DEF Range
  <2>2. ASSUME bad = {} PROVE kinds = <<>>
    <3>1. \A i \in DOMAIN kinds : kinds[i] \in Range(kinds)
      BY DEF Range
    <3>2. DOMAIN kinds = {}
      BY <1>5, <2>2, <3>1
    <3>3. DOMAIN kinds = 1..Len(kinds) /\ Len(kinds) \in Nat
      BY <1>5
    <3>4. Len(kinds) = 0
      BY <3>2, <3>3
    <3> QED BY <1>5, <3>4
  <2> QED BY <1>5, <1>6, <2>1, <2>2
<1>8. Passed(found, level) <=> kinds = <<>>
  BY <1>1, <1>4, Zenon DEF Passed, Kinds
<1> QED BY <1>1, <1>7, <1>8

\* A cycle that a level forbids is a circle.
LEMMA CircularIs ==
    ASSUME NEW steps
    PROVE  Circular(steps) <=> \E K : Circle(K, steps)
<1>1. Circular(steps) => \E K : Circle(K, steps)
  BY Zenon DEF Circular, Circle
<1>2. ASSUME NEW K, Circle(K, steps) PROVE Circular(steps)
  <2>1. \A a \in K : \E b \in K : <<a, b>> \in steps
    BY <1>2 DEF Circle
  <2>2. ASSUME NEW a \in K PROVE a \in {p[1] : p \in steps}
    <3>1. PICK b \in K : <<a, b>> \in steps
      BY <2>1
    <3>2. <<a, b>>[1] = a
      OBVIOUS
    <3> QED BY <3>1, <3>2
  <2>3. K \in SUBSET {p[1] : p \in steps}
    BY <2>2
  <2> QED BY <1>2, <2>1, <2>3, Zenon DEF Circular, Circle
<1> QED BY <1>1, <1>2

\* What each level reports of a graph of its own.
LEMMA LevelsAre ==
    ASSUME IsolationInv, checked, history = <<>>
    PROVE  /\ ~Passed(cases, "snapshot-isolation") <=> FoundOf(Ends(edges), edges)
           /\ ~Passed(cases, "serializable") <=>
                  FoundOf(Ends(edges), edges) \/ Cycle("G2", Ends(edges), edges) # <<>>
<1>1. /\ \A kind \in CycleKinds : cases[kind] = CycleOf(kind, Ends(edges), edges)
      /\ \A kind \in Range(Anomalies) \ CycleKinds : cases[kind] = NoCase
  BY DEF IsolationInv, Nodes, Graph
<1>2. /\ cases["G0"] = Cycle("G0", Ends(edges), edges) /\ cases["G1c"] = Cycle("G1c", Ends(edges), edges)
      /\ cases["Gsingle"] = Cycle("Gsingle", Ends(edges), edges)
      /\ cases["Gnonadjacent"] = Nonadjacent(Ends(edges), edges)
      /\ cases["G2"] = Cycle("G2", Ends(edges), edges)
  BY <1>1 DEF CycleKinds, CycleOf
<1>3. CycleKinds \subseteq Range(Anomalies)
  BY AnomaliesAre
<1>4. /\ Passed(cases, "snapshot-isolation") <=> \A k \in Range(Anomalies) \ {"G2"} : cases[k] = NoCase
      /\ Passed(cases, "serializable") <=> \A k \in Range(Anomalies) : cases[k] = NoCase
  <2>1. Forbids("snapshot-isolation") = Range(Anomalies) \ {"G2"} /\ Forbids("serializable") = Range(Anomalies)
    BY DEF Forbids
  <2> QED BY <2>1, PassedIs
<1>5. Passed(cases, "snapshot-isolation") <=>
          cases["G0"] = <<>> /\ cases["G1c"] = <<>> /\ cases["Gsingle"] = <<>> /\ cases["Gnonadjacent"] = <<>>
  BY <1>1, <1>3, <1>4 DEF CycleKinds, NoCase
<1>6. Passed(cases, "serializable") <=> Passed(cases, "snapshot-isolation") /\ cases["G2"] = <<>>
  BY <1>3, <1>4 DEF CycleKinds, NoCase
<1> QED BY <1>2, <1>5, <1>6 DEF FoundOf

\* The searches find every cycle that a level forbids.
LEMMA SearchesFollow == IsolationInv => SearchesFindTheCycles
<1> SUFFICES ASSUME IsolationInv, checked, history = <<>> PROVE SearchesFindTheCycles
  BY DEF SearchesFindTheCycles
<1>1. PICK C : C = Ends(edges)
  OBVIOUS
<1>2. IsGraph(C, edges)
  BY <1>1 DEF IsolationInv
<1>3. FoundOf(C, edges) <=> Circular(Composed(C, edges))
  <2>1. FoundOf(C, edges) <=> \E K : Circle(K, Composed(C, edges))
    BY <1>2, SnapshotFound
  <2> QED BY <2>1, CircularIs
<1>4. FoundOf(C, edges) \/ Cycle("G2", C, edges) # <<>> <=> Circular(Pairs(edges, Relations))
  <2>1. FoundOf(C, edges) \/ Cycle("G2", C, edges) # <<>> <=> \E K : Circle(K, Pairs(edges, Relations))
    BY <1>2, AnyFound
  <2> QED BY <2>1, CircularIs
<1>5. /\ ~Passed(cases, "snapshot-isolation") <=> FoundOf(C, edges)
      /\ ~Passed(cases, "serializable") <=> FoundOf(C, edges) \/ Cycle("G2", C, edges) # <<>>
  BY <1>1, LevelsAre
<1>6. /\ ~Passed(cases, "snapshot-isolation") <=> Circular(Composed(Ends(edges), edges))
      /\ ~Passed(cases, "serializable") <=> Circular(Pairs(edges, Relations))
  BY <1>1, <1>3, <1>4, <1>5
<1> QED BY <1>6, Zenon DEF SearchesFindTheCycles, Composed

\* A graph fails a level when, and only when, it has a cycle that the level
\* forbids: every search takes one shortest way from an edge, and together
\* they miss nothing.
THEOREM SearchesHold == Spec => []SearchesFindTheCycles
<1> QED BY IsolationInvHolds, SearchesFollow, PTL
===========================================================================

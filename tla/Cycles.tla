------------------------------ MODULE Cycles ------------------------------
(***************************************************************************)
(* The search of a dependency graph for its cycles, translated from _Graph,*)
(* _Tarjan and the functions below them in src/tools/history/isolation.py. *)
(*                                                                         *)
(* A transaction is its number.  An edge is a record of the transaction it *)
(* leaves, the one it enters and its relation; the evidence that the code  *)
(* keeps beside the relation is left out.  An absent result is <<>>.       *)
(***************************************************************************)
EXTENDS Ordering, Integers, SequencesExt

Relations == {"ww", "wr", "rw"}
NonRw == {"ww", "wr"}

\* _SEARCHES: the relations of the components, of the edge that closes a
\* cycle, and of the path back.
Searches == [G0       |-> [component |-> {"ww"}, closing |-> "ww", path |-> {"ww"}],
             G1c      |-> [component |-> NonRw, closing |-> "wr", path |-> NonRw],
             Gsingle  |-> [component |-> Relations, closing |-> "rw", path |-> NonRw],
             G2       |-> [component |-> Relations, closing |-> "rw", path |-> Relations]]

Has(edges, a, b, relations) == \E r \in relations : [from |-> a, to |-> b, relation |-> r] \in edges

\* The targets of a transaction over the edges of relations, and in order.
TargetsOf(edges, a, relations) == {e.to : e \in {f \in edges : f.from = a /\ f.relation \in relations}}

Adjacent(edges, a, relations) == Ascending(TargetsOf(edges, a, relations), <)
---------------------------------------------------------------------------
(* Tarjan's algorithm.  work is the stack of the transactions being visited*)
(* with the targets that each has left, and found the set of the           *)
(* components.  Each turn enters a transaction, takes a target of the last *)
(* one of work, or leaves it.                                              *)

NothingVisited == [order |-> <<>>, low |-> <<>>, stack |-> <<>>, work |-> <<>>, found |-> {}]

Visited(t, node) == node \in DOMAIN t.order

With(f, node, number) == [n \in DOMAIN f \cup {node} |-> IF n = node THEN number ELSE f[n]]

Enter(edges, relations, t, node) ==
    LET number == Cardinality(DOMAIN t.order)
    IN [t EXCEPT !.order = With(@, node, number), !.low = With(@, node, number),
                 !.stack = Append(@, node),
                 !.work = Append(@, [node |-> node, targets |-> Adjacent(edges, node, relations)])]

Lower(t, node, number) == [t EXCEPT !.low = With(@, node, Min({@[node], number}))]

\* The component of node is what is above it on the stack, when it is a root.
Close(t, node) ==
    IF t.low[node] # t.order[node] THEN t
    ELSE LET at == CHOOSE i \in DOMAIN t.stack : t.stack[i] = node
             component == {t.stack[i] : i \in at..Len(t.stack)}
         IN [t EXCEPT !.stack = SubSeq(@, 1, at - 1),
                      !.found = IF Cardinality(component) > 1 THEN @ \cup {component} ELSE @]

\* The last transaction of work has no target left.
Leave(t) ==
    LET node == Last(t.work).node
        below == Front(t.work)
        left == [t EXCEPT !.work = below]
    IN Close(IF below = <<>> THEN left ELSE Lower(left, Last(below).node, t.low[node]), node)

\* Mutant: a visited target lowers the node although its component is closed.
IsOpenVisited(t, target) == Visited(t, target)

IsOpen(t, target) == target \in Range(t.stack)

\* The next target of the last transaction of work.
Follow(edges, relations, t) ==
    LET top == Last(t.work)
        target == Head(top.targets)
        taken == [t EXCEPT !.work = Append(Front(@), [top EXCEPT !.targets = Tail(@)])]
    IN IF ~Visited(t, target) THEN Enter(edges, relations, taken, target)
       ELSE IF IsOpen(t, target) THEN Lower(taken, top.node, t.order[target]) ELSE taken

Unvisited(committed, t) == {node \in committed : ~Visited(t, node)}

\* A turn of visit(), or the start of one at the next of the transactions.
Turn(committed, edges, relations, t) ==
    IF t.work # <<>> THEN IF Last(t.work).targets = <<>> THEN Leave(t) ELSE Follow(edges, relations, t)
    ELSE IF Unvisited(committed, t) # {} THEN Enter(edges, relations, t, Min(Unvisited(committed, t)))
    ELSE t

\* _components(): the components of two or more transactions.  Each one is
\* entered and left once, and each edge is followed at most once.
Components(committed, edges, relations) ==
    LET turns == 2 * Cardinality(committed) + Cardinality(edges)
        after[i \in 0..turns] ==
            IF i = 0 THEN NothingVisited ELSE Turn(committed, edges, relations, after[i - 1])
    IN after[turns].found
---------------------------------------------------------------------------
(* The searches from an edge that may close a cycle.                       *)

\* A turn of a breadth-first search: the queue has the paths to the states
\* that were seen and are still to be taken.
TakeNext(s, goals, next) ==
    LET path == Head(s.queue)
        new == Among(next[Last(path)], DOMAIN next \ s.seen)
    IN IF s.queue = <<>> THEN s
       ELSE IF Last(path) \in goals THEN [s EXCEPT !.queue = <<>>, !.found = path]
       ELSE [s EXCEPT !.queue = Tail(@) \o [i \in DOMAIN new |-> Append(path, new[i])],
                      !.seen = @ \cup Range(new)]

\* _path() and _alternating(): the first path from start to a goal, where
\* next lists the states that may follow each state, in order.  A state is
\* taken at most once.
Search(start, goals, next) ==
    LET turns == Cardinality(DOMAIN next)
        after[i \in 0..turns] ==
            IF i = 0 THEN [queue |-> <<<<start>>>>, seen |-> {start}, found |-> <<>>]
            ELSE TakeNext(after[i - 1], goals, next)
    IN after[turns].found

\* The edges that may close a cycle in a component, and the order in which
\* the code tries them: by the lowest transaction of the component.
Tries(components, edges, closing) ==
    {try \in [component : components, edge : edges] :
        try.edge.relation = closing /\ {try.edge.from, try.edge.to} \subseteq try.component}

NoLater(try, other) ==
    \/ Min(try.component) < Min(other.component)
    \/ /\ Min(try.component) = Min(other.component)
       /\ \/ try.edge.from < other.edge.from
          \/ try.edge.from = other.edge.from /\ try.edge.to <= other.edge.to

\* The cycle of the first try that finds one.
FirstCycle(cycles) ==
    LET found == {try \in DOMAIN cycles : cycles[try] # <<>>}
    IN IF found = {} THEN <<>>
       ELSE cycles[CHOOSE try \in found : \A other \in found : NoLater(try, other)]

\* A cycle lists each transaction with the relations by which the search
\* followed the edge to the next one.
Step(node, used) == [node |-> node, used |-> used]

\* The cycle of an edge and a path back, which ends where the edge starts.
Closed(kind, edge, back) ==
    LET first == IF kind = "Gsingle" THEN {Searches[kind].closing} ELSE Searches[kind].component
    IN IF back = <<>> THEN <<>>
       ELSE [i \in DOMAIN back |-> IF i = 1 THEN Step(edge.from, first)
                                   ELSE Step(back[i - 1], Searches[kind].path)]

\* _cycle().
Cycle(kind, committed, edges) ==
    LET search == Searches[kind]
        next(component) == [n \in component |-> Adjacent(edges, n, search.path)]
    IN FirstCycle([try \in Tries(Components(committed, edges, search.component), edges, search.closing) |->
           Closed(kind, try.edge, Search(try.edge.to, {try.edge.from}, next(try.component)))])

\* The states after a state of the G-nonadjacent search: a transaction,
\* whether a read-write edge entered it, and whether the walk took one.
\* The other relations come before the read-write one.
Sooner(s, u) == s.node < u.node \/ (s.node = u.node /\ ~s.afterRw /\ u.afterRw)

State(node, afterRw, taken) == [node |-> node, afterRw |-> afterRw, taken |-> taken]

Alternatives(edges, s) ==
    Ascending({State(b, FALSE, s.taken) : b \in TargetsOf(edges, s.node, NonRw)}
              \cup (IF s.afterRw THEN {}
                    ELSE {State(b, TRUE, TRUE) : b \in TargetsOf(edges, s.node, {"rw"})}), Sooner)

\* Whether no read-write edge of a closed walk follows another.
Alternates(walk) ==
    \A i \in DOMAIN walk : ~(walk[i].used = {"rw"} /\ walk[(i % Len(walk)) + 1].used = {"rw"})

\* Mutant: the part between the two visits is always kept.
ShorterInner(walk, first, second) == SubSeq(walk, first, second - 1)

\* One part of the walk, which visits a transaction at first and at second.
Shorter(walk, first, second) ==
    LET inner == SubSeq(walk, first, second - 1)
    IN IF Alternates(inner) THEN inner
       ELSE SubSeq(walk, 1, first - 1) \o SubSeq(walk, second, Len(walk))

\* _first_repeat(): the walk is cut where it first comes back.
RepeatsOf(walk) == {j \in DOMAIN walk : \E i \in 1..(j - 1) : walk[i].node = walk[j].node}

Cut(walk) ==
    LET second == Min(RepeatsOf(walk))
        first == CHOOSE i \in 1..(second - 1) : walk[i].node = walk[second].node
    IN IF RepeatsOf(walk) = {} THEN walk ELSE Shorter(walk, first, second)

RwSteps(cycle) == {i \in DOMAIN cycle : cycle[i].used = {"rw"}}

FromRw(cycle) ==
    IF RwSteps(cycle) = {} THEN cycle
    ELSE LET start == Min(RwSteps(cycle))
         IN SubSeq(cycle, start, Len(cycle)) \o SubSeq(cycle, 1, start - 1)

\* _simple(): the walk is cut until it has no repeat; a cut shortens it.
Simple(walk) ==
    LET cut[i \in 0..Len(walk)] == IF i = 0 THEN walk ELSE Cut(cut[i - 1])
    IN FromRw(cut[Len(walk)])

\* The closed walk of a read-write edge and the states back, and its cycle.
ClosedWalk(edge, back) ==
    [i \in DOMAIN back |->
        IF i = 1 THEN Step(edge.from, {"rw"})
        ELSE Step(back[i - 1].node, IF back[i].afterRw THEN {"rw"} ELSE NonRw)]

Reduced(edge, back) ==
    LET cycle == Simple(ClosedWalk(edge, back))
    IN IF back = <<>> THEN <<>> ELSE IF Cardinality(RwSteps(cycle)) < 2 THEN <<>> ELSE cycle

\* _nonadjacent().
Nonadjacent(committed, edges) ==
    LET next(component) ==
            [s \in [node : component, afterRw : BOOLEAN, taken : BOOLEAN] |-> Alternatives(edges, s)]
        back(try) == Search(State(try.edge.to, TRUE, FALSE), {State(try.edge.from, FALSE, TRUE)},
                            next(try.component))
    IN FirstCycle([try \in Tries(Components(committed, edges, Relations), edges, "rw") |->
           Reduced(try.edge, back(try))])

CycleOf(kind, committed, edges) ==
    IF kind = "Gnonadjacent" THEN Nonadjacent(committed, edges) ELSE Cycle(kind, committed, edges)
===========================================================================

---------------------------- MODULE ShrinkPasses ----------------------------
(***************************************************************************)
(* The passes of the shrinker (src/tools/prop/shrink.py), each an operator *)
(* from a shrinker to what it leaves.  A shrinker is a record:             *)
(*   body, budget   what it runs, and the most runs                        *)
(*   failures       the smallest failure of each identity: [nodes, case]   *)
(*   target         the identity being shrunk                              *)
(*   sizes          the number of choices that each candidate's run made   *)
(*   runs, out      the runs spent, and whether one more was asked for     *)
(* Once out, nothing is run and nothing changes, as Exhausted unwinds the  *)
(* passes.  The passes over floats are left out.                           *)
(***************************************************************************)
EXTENDS Executions

LinearProbes == 4         \* _LINEAR_PROBES
SmallestChunk == 2        \* _SMALLEST_CHUNK

Best(sh) == sh.failures[sh.target]
Nodes(sh) == Best(sh).nodes
Spans(sh) == Best(sh).case.spans

NodesOfCase(c) == NodesOf(c.requests, c.choices)

\* Mutant: only the first failure of an identity is kept.
RecordedFirst(failures, execution) ==
    IF execution.identity \in DOMAIN failures THEN failures
    ELSE failures @@ (execution.identity :> [nodes |-> NodesOfCase(execution.case),
                                             case |-> execution.case])

\* _record: a failing run is kept when it is its identity's first or smallest.
Recorded(failures, execution) ==
    LET id == execution.identity
        failure == [nodes |-> NodesOfCase(execution.case), case |-> execution.case]
    IN  IF id \notin DOMAIN failures \/ Precedes(failure.nodes, failures[id].nodes)
        THEN (id :> failure) @@ failures ELSE failures

NewShrinker(body, first, budget) ==
    [body |-> body, budget |-> budget, failures |-> Recorded(<<>>, first),
     target |-> first.identity, runs |-> 0, out |-> FALSE,
     sizes |-> (first.case.choices :> Len(first.case.choices))]

\* Mutant: the last run of the budget is followed by one more.
SpendsOver(sh) == sh.runs > sh.budget

\* run(): a run beyond the budget is not made.
Spends(sh) == sh.runs >= sh.budget

Worse(sh, nodes) == ~Precedes(nodes, Nodes(sh)) \/ ChoicesOf(nodes) \in DOMAIN sh.sizes

Ran(sh, choices, e) ==
    [sh EXCEPT !.runs = @ + 1,
               !.sizes = (choices :> Len(e.case.choices)) @@ @,
               !.failures = IF e.status = "failed" THEN Recorded(@, e) ELSE @]

\* consider(): a candidate that is smaller and new is run.
Consider(sh, nodes) ==
    CASE sh.out \/ Worse(sh, nodes) -> sh
      [] ~sh.out /\ ~Worse(sh, nodes) /\ Spends(sh) -> [sh EXCEPT !.out = TRUE]
      [] OTHER -> Ran(sh, ChoicesOf(nodes), Execute(sh.body, Replaying(ChoicesOf(nodes))))

Improved(before, sh) == Nodes(before) # Nodes(sh)

-----------------------------------------------------------------------------
(* Parts of a candidate. *)

Cut(nodes, start, end) == SubSeq(nodes, 1, start) \o SubSeq(nodes, end + 1, Len(nodes))
Part(nodes, start, end) == SubSeq(nodes, start + 1, end)
Replace(nodes, i, value) == [nodes EXCEPT ![i].choice.value = value]
AtTarget(node) == [node EXCEPT !.choice.value = Target(node.request.bounds)]
ValueAt(nodes, i) == nodes[i].choice.value
BoundsAt(nodes, i) == nodes[i].request.bounds
IntAt(nodes, i) == IsInts(BoundsAt(nodes, i))

Indices(nodes) == [i \in 1..Len(nodes) |-> i]

\* The spans whose parent is parent, where 0 is none.
ChildrenOf(spans, parent) == SelectSeq(spans, LAMBDA s : s.parent = parent)

\* The parents of the sibling groups, the later ones first.
Parents(spans) ==
    SelectSeq([i \in 1..Len(spans) |-> Len(spans) - i],
              LAMBDA p : \E i \in 1..Len(spans) : spans[i].parent = p)

Groups(spans) == LET parents == Parents(spans)
                 IN  [i \in 1..Len(parents) |-> ChildrenOf(spans, parents[i])]

\* The spans, the one that starts last first, and then the longer one.  The
\* sort of the code is stable, which equal spans do not show.
LastFirst(spans) ==
    SortSeq(spans, LAMBDA s, t : s.start > t.start \/ (s.start = t.start /\ s.end > t.end))

NonEmpty(spans) == SelectSeq(spans, LAMBDA s : s.start < s.end)

Step1(b, n) == IF n > IntTarget(b) THEN n - 1 ELSE n + 1
OffTarget(nodes, i) == IntAt(nodes, i) /\ ValueAt(nodes, i) # Target(BoundsAt(nodes, i))
\* An integer one step nearer to its target.
Stepped(nodes, i) == Replace(nodes, i, <<Step1(BoundsAt(nodes, i), ValueAt(nodes, i)[1])>>)

\* The powers of two up to a count, the largest first and down to a least.
Powers(count, least) ==
    SelectSeq(<<32, 16, 8, 4, 2, 1>>, LAMBDA p : least <= p /\ p <= count)

\* The firsts of the runs of a size inside a count, the last one first.
Downward(count, size) == [i \in 1..(count - size + 1) |-> count - size + 2 - i]

-----------------------------------------------------------------------------
(* The passes that try candidates in order. *)

\* Runs of 2^k siblings.
SpanChunks(nodes, spans) ==
    FlattenSeq([g \in 1..Len(Groups(spans)) |->
        LET group == Groups(spans)[g]
            sizes == Powers(Len(group), SmallestChunk)
            Chunk(first, size) == [start |-> group[first].start, end |-> group[first + size - 1].end]
            chunks == FlattenSeq([s \in 1..Len(sizes) |->
                        LET firsts == Downward(Len(group), sizes[s])
                        IN  [i \in 1..Len(firsts) |-> Chunk(firsts[i], sizes[s])]])
            solid == NonEmpty(chunks)
        IN  [i \in 1..Len(solid) |-> Cut(nodes, solid[i].start, solid[i].end)]])

SpanDeletions(nodes, spans) ==
    LET solid == NonEmpty(LastFirst(spans))
    IN  [i \in 1..Len(solid) |-> Cut(nodes, solid[i].start, solid[i].end)]

\* The ancestors of a span, itself left out.
RECURSIVE Above(_, _)
Above(spans, i) ==
    IF spans[i].parent = 0 THEN {} ELSE {spans[i].parent} \cup Above(spans, spans[i].parent)

\* A span replaced by a shorter descendant with its label.
Lifts(nodes, spans) ==
    FlattenSeq([i \in 1..Len(spans) |->
        LET inner == SelectSeq(Indices(spans), LAMBDA j :
                        /\ i \in Above(spans, j) /\ spans[j].label = spans[i].label
                        /\ spans[j].end - spans[j].start < spans[i].end - spans[i].start)
        IN  [n \in 1..Len(inner) |->
                SubSeq(nodes, 1, spans[i].start)
                \o Part(nodes, spans[inner[n]].start, spans[inner[n]].end)
                \o SubSeq(nodes, spans[i].end + 1, Len(nodes))]])

\* Runs of 2^k elements of a sequence, down to its shortest length.
ElementDeletions(nodes) ==
    FlattenSeq([i \in 1..Len(nodes) |->
        IF IntAt(nodes, i) THEN <<>>
        ELSE LET v == ValueAt(nodes, i)
                 sizes == SelectSeq(Powers(Len(v), 1),
                                    LAMBDA n : Len(v) - n >= BoundsAt(nodes, i).least)
             IN  FlattenSeq([s \in 1..Len(sizes) |->
                    LET firsts == Downward(Len(v), sizes[s])
                    IN  [n \in 1..Len(firsts) |->
                            Replace(nodes, i, Cut(v, firsts[n] - 1, firsts[n] - 1 + sizes[s]))]])])

\* A choice that decides structure, and has two values or more.
FreeStructure(node) ==
    LET b == node.request.bounds
    IN  node.request.edge # NoEdge /\ IsInts(b) /\ b.lo < b.hi

StructurePairs(nodes) ==
    LET firsts == SelectSeq(Reverse(Indices(nodes)), LAMBDA i :
                    i < Len(nodes) /\ FreeStructure(nodes[i]) /\ FreeStructure(nodes[i + 1]))
    IN  [n \in 1..Len(firsts) |-> Cut(nodes, firsts[n] - 1, firsts[n] + 1)]

SpanTargets(nodes, spans) ==
    [n \in 1..Len(spans) |->
        [i \in 1..Len(nodes) |-> IF spans[n].start < i /\ i <= spans[n].end
                                 THEN AtTarget(nodes[i]) ELSE nodes[i]]]

\* Adjacent siblings with one label, the smaller of them moved first.
SiblingSwaps(nodes, spans) ==
    FlattenSeq([g \in 1..Len(Groups(spans)) |->
        LET group == Groups(spans)[g]
            First(n) == Part(nodes, group[n].start, group[n].end)
            pairs == SelectSeq([n \in 1..(Len(group) - 1) |-> n], LAMBDA n :
                        group[n].label = group[n + 1].label /\ Precedes(First(n + 1), First(n)))
        IN  [p \in 1..Len(pairs) |->
                LET n == pairs[p]
                IN  SubSeq(nodes, 1, group[n].start) \o First(n + 1)
                    \o Part(nodes, group[n].end, group[n + 1].start) \o First(n)
                    \o SubSeq(nodes, group[n + 1].end + 1, Len(nodes))]])

\* Each integer's step, with one earlier span or element of a sequence
\* removed.
EarlierElements(nodes, i) ==
    FlattenSeq([n \in 1..(i - 1) |->
        LET at == i - n
            v == ValueAt(nodes, at)
        IN  IF IntAt(nodes, at) \/ Len(v) <= BoundsAt(nodes, at).least THEN <<>>
            ELSE [p \in 1..Len(v) |-> Replace(nodes, at, Cut(v, Len(v) - p, Len(v) - p + 1))]])

StepsWithDeletion(nodes, spans) ==
    LET lowered == SelectSeq(Indices(nodes), LAMBDA i : OffTarget(nodes, i))
    IN  FlattenSeq([n \in 1..Len(lowered) |->
            LET i == lowered[n]
                earlier == SelectSeq(NonEmpty(LastFirst(spans)), LAMBDA s : s.end <= i - 1)
            IN  [e \in 1..Len(earlier) |-> Cut(Stepped(nodes, i), earlier[e].start, earlier[e].end)]
                \o EarlierElements(Stepped(nodes, i), i)])

Candidates(pass, sh) ==
    CASE pass = "delete-span-chunk" -> SpanChunks(Nodes(sh), Spans(sh))
      [] pass = "delete-span" -> SpanDeletions(Nodes(sh), Spans(sh))
      [] pass = "lift-descendant" -> Lifts(Nodes(sh), Spans(sh))
      [] pass = "sequence-delete" -> ElementDeletions(Nodes(sh))
      [] pass = "delete-structure-pair" -> StructurePairs(Nodes(sh))
      [] pass = "target-span" -> SpanTargets(Nodes(sh), Spans(sh))
      [] pass = "sort-siblings" -> SiblingSwaps(Nodes(sh), Spans(sh))
      [] pass = "delete-and-lower" -> StepsWithDeletion(Nodes(sh), Spans(sh))

Sweeps == {"delete-span-chunk", "delete-span", "lift-descendant", "sequence-delete",
           "delete-structure-pair", "target-span", "sort-siblings", "delete-and-lower"}

\* The candidates up to the first accepted one.
RECURSIVE UntilAccepted(_, _), UnlessAccepted(_, _, _)
UntilAccepted(sh, candidates) ==
    IF candidates = <<>> \/ sh.out THEN sh
    ELSE UnlessAccepted(sh, Consider(sh, Head(candidates)), Tail(candidates))

UnlessAccepted(before, sh, candidates) ==
    IF Improved(before, sh) THEN sh ELSE UntilAccepted(sh, candidates)

\* _sweep: after an acceptance, it starts over on the new best.
RECURSIVE Sweep(_, _), SweepAgain(_, _, _)
Sweep(sh, pass) == SweepAgain(sh, UntilAccepted(sh, Candidates(pass, sh)), pass)
SweepAgain(before, sh, pass) == IF Improved(before, sh) THEN Sweep(sh, pass) ELSE sh

-----------------------------------------------------------------------------
(* Probes: candidates that an amount orders.  A probe has no candidate at  *)
(* an amount beyond its room.                                              *)

ByRun(nodes, group, first) == [by |-> "run", nodes |-> nodes, group |-> group, first |-> first]
ByRank(nodes, indices) == [by |-> "rank", nodes |-> nodes, indices |-> indices]
ByTarget(nodes, indices) == [by |-> "target", nodes |-> nodes, indices |-> indices]
ByElement(nodes, i, position) == [by |-> "element", nodes |-> nodes, at |-> i, position |-> position]
ByMove(nodes, i, j) == [by |-> "move", nodes |-> nodes, at |-> i, later |-> j]
ByPair(nodes, i, j) == [by |-> "pair", nodes |-> nodes, at |-> i, later |-> j]

\* What an integer is from its target, with its sign.
Offset(nodes, i) == ValueAt(nodes, i)[1] - IntTarget(BoundsAt(nodes, i))
SignOf(n) == IF n > 0 THEN 1 ELSE -1

AddedAt(nodes, i, amount) == Replace(nodes, i, <<ValueAt(nodes, i)[1] + amount>>)

Room(probe) ==
    LET nodes == probe.nodes
    IN  CASE probe.by = "run" -> Len(probe.group) - probe.first + 1
          [] probe.by = "pair" -> Lesser(Abs(Offset(nodes, probe.at)), Abs(Offset(nodes, probe.later)))
          [] probe.by = "move" ->
                LET b == BoundsAt(nodes, probe.later)
                    other == ValueAt(nodes, probe.later)[1]
                IN  IF Offset(nodes, probe.at) > 0 THEN b.hi - other ELSE other - b.lo
          [] probe.by = "rank" -> Rank(BoundsAt(nodes, probe.indices[1]),
                                       ValueAt(nodes, probe.indices[1])[1])
          [] probe.by = "target" -> 0
          [] probe.by = "element" -> ValueAt(nodes, probe.at)[probe.position]

CandidateAt(probe, k) ==
    LET nodes == probe.nodes
    IN  CASE probe.by = "run" ->
                Cut(nodes, probe.group[probe.first].start, probe.group[probe.first + k - 1].end)
          [] probe.by = "rank" ->
                LET value == <<AtRank(BoundsAt(nodes, probe.indices[1]), k)>>
                IN  FoldLeft(LAMBDA ns, i : Replace(ns, i, value), nodes, probe.indices)
          [] probe.by = "target" ->
                [i \in 1..Len(nodes) |-> IF i \in ToSet(probe.indices) THEN AtTarget(nodes[i])
                                         ELSE nodes[i]]
          [] probe.by = "element" ->
                Replace(nodes, probe.at, [ValueAt(nodes, probe.at) EXCEPT ![probe.position] = k])
          [] probe.by = "move" ->
                LET sign == SignOf(Offset(nodes, probe.at))
                IN  AddedAt(AddedAt(nodes, probe.at, -sign * k), probe.later, sign * k)
          [] probe.by = "pair" ->
                LET sign == SignOf(Offset(nodes, probe.at))
                IN  AddedAt(AddedAt(nodes, probe.at, -sign * k), probe.later, -sign * k)

ProbeAt(sh, probe, k) == IF k > Room(probe) THEN sh ELSE Consider(sh, CandidateAt(probe, k))

\* A search tries one amount after another, as find_integer and search() do.
\* Its stage is "first", for the one amount that would end it; "climb", for
\* 1 to 4 in turn and then doubling until one fails; "halve", for a bisection
\* between an end that counts as accepted and one that does not, rising
\* towards the largest amount accepted or falling to the smallest.
Lookup(probe, stage, low, high, rising) ==
    [probe |-> probe, stage |-> stage, low |-> low, high |-> high, rising |-> rising]

Climbing(probe) == Lookup(probe, "climb", 0, 1, TRUE)

Once(probe) == Lookup(probe, "first", 0, 1, FALSE)
Nowhere == [stage |-> "done"]

\* search(): position 0, then a bisection to the smallest accepted.
Falling(probe) == Lookup(probe, "first", 0, Room(probe), FALSE)

\* Mutant: the bisection never begins.
FinishedEarly(s) == s.stage \in {"done", "halve"}

\* A search that falls from 0 has nothing to try.
Finished(s) ==
    \/ s.stage = "done"
    \/ s.stage = "halve" /\ s.high - s.low <= 1
    \/ s.stage = "first" /\ s.high = 0

Amount(s) ==
    CASE s.stage = "halve" -> (s.low + s.high) \div 2
      [] s.stage = "first" /\ ~s.rising -> s.low
      [] OTHER -> s.high

After(s, accepted) ==
    CASE s.stage = "climb" /\ accepted ->
            [s EXCEPT !.low = s.high,
                      !.high = IF s.high <= LinearProbes THEN s.high + 1 ELSE 2 * s.high]
      [] s.stage = "climb" /\ ~accepted ->
            [s EXCEPT !.stage = IF s.high <= LinearProbes THEN "done" ELSE "halve"]
      [] s.stage = "first" -> [s EXCEPT !.stage = IF accepted THEN "done" ELSE "halve"]
      [] s.stage = "halve" ->
            IF accepted = s.rising THEN [s EXCEPT !.low = Amount(s)] ELSE [s EXCEPT !.high = Amount(s)]

RECURSIVE Search(_, _), SearchOn(_, _, _)
Search(sh, s) ==
    IF Finished(s) THEN sh ELSE SearchOn(sh, ProbeAt(sh, s.probe, Amount(s)), s)

SearchOn(before, sh, s) == Search(sh, After(s, Improved(before, sh)))

-----------------------------------------------------------------------------
(* The passes that search.  Each visits indices while the best has them.   *)

\* Integers towards their target together, or sequences at it.
Minimizing(nodes, indices) ==
    IF IntAt(nodes, indices[1]) THEN Falling(ByRank(nodes, indices))
    ELSE Once(ByTarget(nodes, indices))

RECURSIVE LowerElements(_, _, _)
LowerElements(sh, i, position) ==
    IF i > Len(Nodes(sh)) \/ IntAt(Nodes(sh), i) \/ position > Len(ValueAt(Nodes(sh), i)) THEN sh
    ELSE LowerElements(Search(sh, Falling(ByElement(Nodes(sh), i, position))), i, position + 1)

\* The next choice with the same bounds, or none.
LaterAlike(nodes, i) == {j \in (i + 1)..Len(nodes) : BoundsAt(nodes, j) = BoundsAt(nodes, i)}

\* Value moved from an integer to the next one with its bounds.
Moving(nodes, i) ==
    IF ~IntAt(nodes, i) \/ LaterAlike(nodes, i) = {} THEN Nowhere
    ELSE Lookup(ByMove(nodes, i, Min(LaterAlike(nodes, i))), "first",
                0, Abs(Offset(nodes, i)), TRUE)

\* Two integers on one side of their target, moved towards it together.
LoweringPair(nodes, i) ==
    LET later == Min(LaterAlike(nodes, i))
    IN  IF /\ IntAt(nodes, i) /\ LaterAlike(nodes, i) # {}
           /\ Offset(nodes, i) * Offset(nodes, later) > 0
        THEN Climbing(ByPair(nodes, i, later)) ELSE Nowhere

LookupAt(pass, nodes, i) ==
    CASE pass = "minimize-choice" -> Minimizing(nodes, <<i>>)
      [] pass = "redistribute" -> Moving(nodes, i)
      [] pass = "lower-together" -> LoweringPair(nodes, i)

VisitAt(pass, sh, i) ==
    IF pass = "sequence-lower" THEN LowerElements(sh, i, 1)
    ELSE Search(sh, LookupAt(pass, Nodes(sh), i))

RECURSIVE Visits(_, _, _)
Visits(pass, sh, i) ==
    IF i > Len(Nodes(sh)) \/ sh.out THEN sh ELSE Visits(pass, VisitAt(pass, sh, i), i + 1)

\* As long a run of siblings as find_integer finds, at each start.
RECURSIVE RunsOf(_, _, _)
RunsOf(sh, parents, first) ==
    LET group == ChildrenOf(Spans(sh), Head(parents))
    IN  CASE parents = <<>> \/ sh.out -> sh
          [] parents # <<>> /\ ~sh.out /\ first > Len(group) -> RunsOf(sh, Tail(parents), 1)
          [] OTHER -> RunsOf(Search(sh, Climbing(ByRun(Nodes(sh), group, first))), parents, first + 1)

Deleting(alone, sh) == [sh |-> sh, deleted |-> Improved(alone, sh)]

\* What follows the step on its own.
DeleteAfter(sh, alone, stepped, i) ==
    LET later == SelectSeq(NonEmpty(LastFirst(Spans(sh))), LAMBDA s : s.start >= i)
        cuts == [n \in 1..Len(later) |-> Cut(stepped, later[n].start, later[n].end)]
        sizing == /\ ChoicesOf(stepped) \in DOMAIN alone.sizes
                  /\ alone.sizes[ChoicesOf(stepped)] # Len(Nodes(sh))
    IN  IF Improved(sh, alone) \/ ~sizing THEN [sh |-> alone, deleted |-> FALSE]
        ELSE Deleting(alone, UntilAccepted(alone, cuts))

\* An integer's step.  When the run on it alone made another number of
\* choices, the integer sizes what follows, and the step is tried with each
\* later span deleted.
StepAndDelete(sh, i) ==
    IF OffTarget(Nodes(sh), i)
    THEN DeleteAfter(sh, Consider(sh, Stepped(Nodes(sh), i)), Stepped(Nodes(sh), i), i)
    ELSE [sh |-> sh, deleted |-> FALSE]

RECURSIVE LowerAndDelete(_, _), LowerOn(_, _)
LowerAndDelete(sh, i) ==
    IF i > Len(Nodes(sh)) \/ sh.out THEN sh ELSE LowerOn(StepAndDelete(sh, i), i)

LowerOn(r, i) == LowerAndDelete(r.sh, IF r.deleted THEN i ELSE i + 1)

\* The groups of choices that share bounds and a value off the target, by
\* their first choice.
Duplicates(nodes) ==
    LET off == {i \in 1..Len(nodes) : AtTarget(nodes[i]) # nodes[i]}
        Alike(i) == {j \in off : BoundsAt(nodes, j) = BoundsAt(nodes, i)
                                 /\ nodes[j].choice = nodes[i].choice}
        firsts == {i \in off : i = Min(Alike(i)) /\ Cardinality(Alike(i)) > 1}
        InOrder(chosen) == SelectSeq(Indices(nodes), LAMBDA i : i \in chosen)
        ordered == InOrder(firsts)
    IN  [g \in 1..Len(ordered) |-> InOrder(Alike(ordered[g]))]

RECURSIVE MinimizeDuplicates(_, _)
MinimizeDuplicates(sh, g) ==
    LET groups == Duplicates(Nodes(sh))
    IN  IF g > Len(groups) \/ sh.out THEN sh
        ELSE MinimizeDuplicates(Search(sh, Minimizing(Nodes(sh), groups[g])), g + 1)

-----------------------------------------------------------------------------

\* The passes of a round, in order.
Passes == <<"delete-span-chunk", "delete-span", "lift-descendant", "delete-span-run",
            "sequence-delete", "delete-structure-pair", "target-span", "minimize-choice",
            "sequence-lower", "lower-and-delete", "sort-siblings", "redistribute",
            "lower-together", "minimize-duplicates">>

Passed(pass, sh) ==
    CASE pass \in Sweeps -> Sweep(sh, pass)
      [] pass = "delete-span-run" -> RunsOf(sh, Parents(Spans(sh)), 1)
      [] pass = "lower-and-delete" -> LowerAndDelete(sh, 1)
      [] pass = "minimize-duplicates" -> MinimizeDuplicates(sh, 1)
      [] OTHER -> Visits(pass, sh, 1)
=============================================================================

------------------------------ MODULE Shrinker ------------------------------
(***************************************************************************)
(* A run's shrink and explanation of its failures (Shrinker.shrink_all and *)
(* explain of src/tools/prop/shrink.py): the failures are shrunk one after *)
(* another over one budget, in rounds of passes, and each draw of the      *)
(* counterexample is then filled with other values.  A body is a function  *)
(* of its choices.                                                         *)
(***************************************************************************)
EXTENDS ShrinkPasses

CONSTANTS Bodies,       \* The bodies.
          Tapes,        \* The random sources of the first failing case.
          Fillings,     \* The sources that one draw's fillings decode from.
          Budgets       \* The runs that a shrink may spend.

VARIABLES sh,           \* The shrinker.
          found,        \* The identity that the run found first.
          phase,        \* "failures", "passes" or "explain".
          pass,         \* The position in the round.
          before,       \* The shrinker at the start of the round.
          done,         \* The identities that were shrunk.
          told          \* The explained draws, each with the sources of its fillings.

vars == <<sh, found, phase, pass, before, done, told>>

Begins(body, first, budget) ==
    /\ first.status = "failed" /\ Confirms(body, first)
    /\ sh = NewShrinker(body, first, budget)
    /\ before = sh
    /\ found = first.identity

\* The runner shrinks a case that a replay reproduced.
Init ==
    \E body \in Bodies, tape \in Tapes, budget \in Budgets :
        /\ Begins(body, Execute(body, Generating(tape)), budget)
        /\ phase = "failures" /\ pass = 1 /\ done = {} /\ told = <<>>

Pending == DOMAIN sh.failures \ done

\* shrink_all: the failure with the smallest case is next.
Smallest ==
    CHOOSE id \in Pending :
        \A other \in Pending \ {id} :
            ~Precedes(sh.failures[other].nodes, sh.failures[id].nodes)

NextFailure ==
    /\ phase = "failures" /\ ~sh.out
    /\ IF Pending = {} THEN phase' = "explain" /\ UNCHANGED <<sh, before>>
       ELSE /\ phase' = "passes"
            /\ sh' = [sh EXCEPT !.target = Smallest]
            /\ before' = sh'
    /\ pass' = 1
    /\ UNCHANGED <<found, done, told>>

\* One pass of a round, in order.
RunPass ==
    /\ phase = "passes" /\ ~sh.out /\ pass <= Len(Passes)
    /\ sh' = Passed(Passes[pass], sh)
    /\ pass' = pass + 1
    /\ UNCHANGED <<found, phase, before, done, told>>

\* Mutant: a round begins again without a new starting point.
EndRoundAgain ==
    /\ phase = "passes" /\ ~sh.out /\ pass > Len(Passes)
    /\ IF Improved(before, sh) THEN pass' = 1 /\ UNCHANGED <<before, phase, done>>
       ELSE pass' = pass /\ done' = done \cup {sh.target} /\ phase' = "failures" /\ UNCHANGED before
    /\ UNCHANGED <<sh, found, told>>

\* The end of a round.  One in which no pass accepted a candidate tries
\* delete-and-lower, and the failure is done when that accepts none either.
EndRound ==
    /\ phase = "passes" /\ ~sh.out /\ pass > Len(Passes)
    /\ sh' = IF Improved(before, sh) THEN sh ELSE Sweep(sh, "delete-and-lower")
    /\ IF Improved(before, sh') \/ sh'.out
       THEN pass' = 1 /\ before' = sh' /\ UNCHANGED <<phase, done>>
       ELSE phase' = "failures" /\ done' = done \cup {sh.target} /\ UNCHANGED <<pass, before>>
    /\ UNCHANGED <<found, told>>

\* A run beyond the budget ends the shrink, wherever it is.
Exhaust ==
    /\ phase \in {"failures", "passes"} /\ sh.out
    /\ phase' = "explain"
    /\ UNCHANGED <<sh, found, pass, before, done, told>>

-----------------------------------------------------------------------------
(* explain() *)

Counterexample == sh.failures[found]

\* A draw's span with what its generator decodes from a source, or nothing
\* when that decodes no value.
FilledWith(choices, span, fresh) ==
    IF fresh.end # "value" THEN {}
    ELSE {SubSeq(choices, 1, span.start) \o fresh.case.choices
          \o SubSeq(choices, span.end + 1, Len(choices))}

Filled(failure, drawn, tape) ==
    FilledWith(failure.case.choices, failure.case.spans[drawn.span],
               Decode(drawn.generator, NewCase(Generating(tape), sh.body.definitions)))

Fails(choices) == Execute(sh.body, Replaying(choices)).identity = found

\* The fillings up to the first that does not fail the same way: what they
\* say of the draw, and the runs they cost.
RECURSIVE Relevance(_, _, _, _), RelevanceWith(_, _, _, _, _)
Relevance(drawn, tapes, runs, any) ==
    IF tapes = <<>> THEN [any |-> any, runs |-> runs]
    ELSE RelevanceWith(Filled(Counterexample, drawn, Head(tapes)), drawn, Tail(tapes), runs, any)

\* Mutant: a draw whose fillings are not all run is told of by those that were.
RelevanceHalf(filled, drawn, tapes, runs, any) ==
    CASE filled = {} -> Relevance(drawn, tapes, runs, any)
      [] filled # {} /\ runs = sh.budget -> [any |-> any, runs |-> runs]
      [] OTHER -> IF \A choices \in filled : Fails(choices)
                  THEN Relevance(drawn, tapes, runs + 1, "fails")
                  ELSE [any |-> "matters", runs |-> runs + 1]

RelevanceWith(filled, drawn, tapes, runs, any) ==
    CASE filled = {} -> Relevance(drawn, tapes, runs, any)
      [] filled # {} /\ runs = sh.budget -> [any |-> "spent", runs |-> runs]
      [] OTHER -> IF \A choices \in filled : Fails(choices)
                  THEN Relevance(drawn, tapes, runs + 1, "fails")
                  ELSE [any |-> "matters", runs |-> runs + 1]

NoValue == <<"none">>

\* The maps around an integer draw, and the generator inside them.
RECURSIVE Unmapped(_), Remapped(_, _)
Unmapped(g) == IF g.id = "map" THEN Unmapped(g.of) ELSE g
Remapped(g, v) == IF g.id = "map" THEN Apply(g.subject, Remapped(g.of, v)) ELSE v

\* The value one step towards the target, when it passes.
Nearest(drawn, runs) ==
    LET nodes == Counterexample.nodes
        at == Counterexample.case.spans[drawn.span].start + 1
        stepped == Stepped(nodes, at)
    IN  CASE Unmapped(drawn.generator).id # "integer" \/ ~OffTarget(nodes, at) ->
                [value |-> NoValue, runs |-> runs, any |-> "matters"]
          [] Unmapped(drawn.generator).id = "integer" /\ OffTarget(nodes, at)
               /\ runs = sh.budget -> [value |-> NoValue, runs |-> runs, any |-> "spent"]
          [] OTHER ->
                [value |-> IF Execute(sh.body, Replaying(ChoicesOf(stepped))).status = "passed"
                           THEN Remapped(drawn.generator, Num(ValueAt(stepped, at)[1])) ELSE NoValue,
                 runs |-> runs + 1, any |-> "matters"]

\* A draw that matters is tried one step nearer to its target.
Near(drawn, r) ==
    IF r.any = "matters" THEN Nearest(drawn, r.runs)
    ELSE [value |-> NoValue, runs |-> r.runs, any |-> r.any]

\* A draw without a choice is not tested.
Tested(drawn, span, tapes) ==
    IF span.start = span.end THEN [value |-> NoValue, runs |-> sh.runs, any |-> "undecoded"]
    ELSE Near(drawn, Relevance(drawn, tapes, sh.runs, "undecoded"))

Explained(drawn, tapes, near) ==
    /\ told' = Append(told, [label |-> drawn.label, value |-> drawn.value, any |-> near.any,
                             nearest |-> near.value, tapes |-> tapes])
    /\ sh' = [sh EXCEPT !.runs = near.runs]

\* One draw.
Explain ==
    /\ phase = "explain" /\ Len(told) < Len(Counterexample.case.draws)
    /\ \E tapes \in Fillings :
          LET drawn == Counterexample.case.draws[Len(told) + 1]
          IN  Explained(drawn, tapes, Tested(drawn, Counterexample.case.spans[drawn.span], tapes))
    /\ UNCHANGED <<found, phase, pass, before, done>>

\* Where a step remains.
Running == phase # "explain" \/ Len(told) < Len(Counterexample.case.draws)

\* The outcome is returned.
Returned == ~Running /\ UNCHANGED vars

Next == NextFailure \/ RunPass \/ EndRound \/ Exhaust \/ Explain \/ Returned

Spec == Init /\ [][Next]_vars

\* The shrink is one loop of one thread, which goes on.  This is WF_vars(Next),
\* with ENABLED <<Next>>_vars stated as Running: no state deadlocks.
FairSpec == Spec /\ ([]<>~Running \/ []<><<Running>>_vars)

-----------------------------------------------------------------------------
(* Properties. *)

ReplaysTo(failure, id, e) == e.identity = id /\ NodesOfCase(e.case) = failure.nodes

NotSmaller(e) ==
    e.status = "failed" =>
        /\ e.identity \in DOMAIN sh.failures
        /\ ~Precedes(NodesOfCase(e.case), sh.failures[e.identity].nodes)

\* The failures that are kept are real and smallest: each one replays to
\* its own identity and record, and no run of the shrink, for whichever
\* failure, found a smaller case of any identity or one that was not kept.
KeepsTheSmallest ==
    /\ \A id \in DOMAIN sh.failures :
          ReplaysTo(sh.failures[id], id,
                    Execute(sh.body, Replaying(ChoicesOf(sh.failures[id].nodes))))
    /\ phase = "failures" \/ (phase = "explain" /\ told = <<>>) => \A choices \in DOMAIN sh.sizes :
          NotSmaller(Execute(sh.body, Replaying(choices)))

\* The single changes of a failure that make it smaller: a span less, a
\* choice or a span at its targets, and an integer one position nearer.
Changes(failure) ==
    LET nodes == failure.nodes
        spans == failure.case.spans
        At(i) == [nodes EXCEPT ![i].choice.value = Target(BoundsAt(nodes, i))]
        Nearer(i) == Replace(nodes, i, <<AtRank(BoundsAt(nodes, i),
                                                Rank(BoundsAt(nodes, i), ValueAt(nodes, i)[1]) - 1)>>)
    IN  {SubSeq(nodes, 1, spans[n].start) \o SubSeq(nodes, spans[n].end + 1, Len(nodes)) :
            n \in 1..Len(spans)}
        \cup {At(i) : i \in 1..Len(nodes)}
        \cup {Nearer(i) : i \in {j \in 1..Len(nodes) : OffTarget(nodes, j)}}

\* A failure whose shrink ended within the budget is locally minimal: no
\* single change of it fails with its identity in a smaller case.  What an
\* earlier candidate or the shrink of another failure has run is not run
\* again, and must not be what was left to try.
ShrunkIsMinimal ==
    phase = "failures" /\ ~sh.out /\ sh.target \in done =>
        \A candidate \in Changes(Best(sh)) :
            \A e \in {Execute(sh.body, Replaying(ChoicesOf(candidate)))} :
                e.identity = sh.target => ~Precedes(NodesOfCase(e.case), Nodes(sh))

\* All failures share one budget, and every run of the shrink is of choices
\* that no other run had.  The shrink stops early only at its budget.
BudgetIsShared ==
    /\ sh.runs <= sh.budget
    /\ phase # "explain" => sh.runs = Cardinality(DOMAIN sh.sizes) - 1
    /\ sh.out => sh.runs = sh.budget
    /\ phase = "explain" /\ ~sh.out => done = DOMAIN sh.failures

PassesSmaller(e) ==
    /\ e.status \in {"passed", "no inverse"}
    /\ e.status = "passed" => Precedes(NodesOfCase(e.case), Counterexample.nodes)

\* The fillings of a draw, each as the choices of its run.
FillingsOf(n) ==
    LET drawn == Counterexample.case.draws[n]
    IN  UNION {Filled(Counterexample, drawn, told[n].tapes[i]) : i \in DOMAIN told[n].tapes}

HasChoices(n) ==
    LET span == Counterexample.case.spans[Counterexample.case.draws[n].span]
    IN  span.start # span.end

\* What is said of any value of a draw is what all of its fillings do, also
\* where the budget ends between two of them: nothing is said then.
AnyValueHolds(n) ==
    /\ told[n].any = "fails" => FillingsOf(n) # {} /\ \A choices \in FillingsOf(n) : Fails(choices)
    /\ told[n].any = "matters" => \E choices \in FillingsOf(n) : ~Fails(choices)
    /\ told[n].any = "undecoded" /\ HasChoices(n) => FillingsOf(n) = {}
    /\ told[n].any = "spent" => sh.runs = sh.budget

\* What the explanation says is so: the draws told are those of the
\* counterexample, any value of a draw fails or not as it says, and when the
\* counterexample is restated as a trace with the value named as the nearest
\* passing one, the case passes and is smaller.
ExplanationsHold ==
    LET case == Counterexample.case
    IN  \A n \in 1..Len(told) :
            /\ told[n].value = case.draws[n].value
            /\ AnyValueHolds(n)
            /\ told[n].nearest # NoValue =>
                LET restated == [EntriesOf(case) EXCEPT ![n].value = told[n].nearest]
                IN  /\ told[n].any = "matters"
                    /\ PassesSmaller(Execute(sh.body, Tracing(restated)))

\* Every shrink ends, and every draw is told of.
ShrinkEnds == <>[](phase = "explain" /\ Len(told) = Len(Counterexample.case.draws))
=============================================================================

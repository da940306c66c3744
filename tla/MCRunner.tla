---------------------------- MODULE MCRunner ------------------------------
(***************************************************************************)
(* Instances of Runner for TLC.  The bodies draw at most three values; the *)
(* factors that bound a run are small, so that each of them is reached.    *)
(***************************************************************************)
EXTENDS Runner

Within(n) == [values |-> 0..(n - 1), counted |-> TRUE]
Float == [values |-> {0, 1}, counted |-> FALSE]

Asks(bounds, edge) == [bounds |-> bounds, edge |-> edge, ending |-> NoEnding, identity |-> "none"]
Ending(ending, identity) == [bounds |-> NoBounds, edge |-> -1, ending |-> ending, identity |-> identity]

\* A body whose record keeps Kept(p) of the walk p.
Keeping(b, Kept(_)) ==
    [p \in DOMAIN b |-> [bounds |-> b[p].bounds, edge |-> b[p].edge, ending |-> b[p].ending,
                         identity |-> b[p].identity, kept |-> Kept(p)]]

\* A body without a filter rewinds nothing.
Plain(b) == Keeping(b, LAMBDA p : p)

Passes == Ending("passed", "none")
Rejects == Ending("rejected", "none")
Skips == Ending("skipped", "none")
Fails(identity) == Ending("failed", identity)

\* A body of one request, and of two with the same bounds.
One(bounds, End(_)) ==
    Plain([p \in {<<>>} \cup {<<v>> : v \in bounds.values} |->
               IF p = <<>> THEN Asks(bounds, -1) ELSE End(p[1])])

Two(bounds, End(_, _)) ==
    Plain([p \in {<<>>} \cup {<<v>> : v \in bounds.values} \cup (bounds.values \X bounds.values) |->
               IF Len(p) < 2 THEN Asks(bounds, IF p = <<>> THEN 1 ELSE -1) ELSE End(p[1], p[2])])

Nothing(end) == Plain([p \in {<<>>} |-> end])

Digit == One(Within(3), LAMBDA v : Passes)
Boolean == One(Within(2), LAMBDA v : Passes)
AFloat == One(Float, LAMBDA v : Passes)
Odd == One(Within(3), LAMBDA v : IF v = 1 THEN Rejects ELSE Passes)
Rejected == One([values |-> {1}, counted |-> TRUE], LAMBDA v : Rejects)
Never == One(Float, LAMBDA v : Rejects)
Sometimes == One(Within(2), LAMBDA v : IF v = 1 THEN Skips ELSE Passes)
Pair == Two(Within(2), LAMBDA v, w : IF v = 1 /\ w = 1 THEN Fails("sum") ELSE Passes)
Floats == Two(Float, LAMBDA v, w : IF v # w THEN Rejects ELSE Passes)

\* A list: a flag before each element, and at most two elements.
List ==
    LET paths == {<<>>, <<0>>, <<1>>, <<1, 0>>, <<1, 1>>, <<1, 1, 0>>, <<1, 1, 1>>}
    IN Plain([p \in paths |-> IF p \in {<<>>, <<1>>, <<1, 1>>} THEN Asks(Within(2), 1) ELSE Passes])

\* A filter that keeps 1 and tries some times: each attempt but the last is
\* removed from the record when it is not kept.
Filtered(attempts, end) ==
    LET zeros(k) == [i \in 1..k |-> 0]
        paths == {zeros(k) : k \in 0..attempts}
                     \cup {Append(zeros(k), 1) : k \in 0..(attempts - 1)}
        kept(p) == CASE p = zeros(attempts) -> <<0>>
                     [] p # <<>> /\ p[Len(p)] = 1 -> <<1>>
                     [] OTHER -> <<>>
    IN Keeping([p \in paths |-> CASE kept(p) = <<0>> -> Rejects
                                   [] kept(p) = <<1>> -> end
                                   [] OTHER -> Asks(Within(2), -1)],
               kept)

Functions ==
    {{Digit}, {Boolean}, {Odd}, {Rejected}, {Never}, {Sometimes}, {Pair}, {Floats}, {List},
     {Nothing(Passes)}, {Filtered(2, Passes)}, {Filtered(2, Fails("one"))}, {Filtered(3, Passes)}}

\* Bodies that change between their calls: in bounds, ends and failures.
Changing ==
    {{Digit, Boolean}, {Boolean, Nothing(Passes)},
     {Boolean, One(Within(2), LAMBDA v : IF v = 1 THEN Fails("one") ELSE Passes)},
     {One(Within(2), LAMBDA v : Fails("one")), One(Within(2), LAMBDA v : Fails("other"))}}

MCSubjects == Functions \cup Changing

Case(in, served) == [phase |-> in, provider |-> served, follows |-> TRUE]

Setting(known, cases, required, shrink, confirm, times) ==
    [known |-> known, cases |-> cases, required |-> required, shrink |-> shrink,
     replay |-> {}, confirm |-> confirm, replays |-> times]

Examples == <<Case("example", Replaying(<<1, 2>>)), Case("stored", Replaying(<<1>>))>>
OfValues == <<Case("example", Valuing(<<1>>))>>
Unfollowed == <<[Case("example", Random) EXCEPT !.follows = FALSE]>>

\* Runs of all phases, of a trace that the body cannot follow, of a failing
\* case that is not shrunk, and of a token.
MCRuns ==
    {Setting(known, cases, required, TRUE, confirm, IF confirm = 0 THEN 2 ELSE 1) :
         known \in {<<>>, Examples, OfValues}, cases \in {1, 3}, required \in BOOLEAN,
         confirm \in {0, 2}}
    \cup {Setting(Unfollowed, 1, FALSE, TRUE, 0, 1), Setting(<<>>, 2, FALSE, FALSE, 1, 1)}
    \cup {[Setting(<<>>, 1, FALSE, TRUE, confirm, 1) EXCEPT !.replay = {<<1, 1>>}] :
               confirm \in {0, 1}}

MCChecks == <<1, 2>>
===========================================================================

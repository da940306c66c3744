------------------------------ MODULE MCReplays ------------------------------
(***************************************************************************)
(* Instances of Replays for TLC: bodies over every generator, shape files  *)
(* over two definitions, and short tapes.                                  *)
(***************************************************************************)
EXTENDS Replays

Bit == Integer(0, 1)
Digit == Integer(0, 2)
Signed == Integer(-1, 2)
Empty == Just(List(<<>>))

Odd(v) == v[1] = "int" /\ v[2] % 2 = 1

RECURSIVE Sum(_)
Sum(v) ==
    CASE v[1] = "int" -> v[2]
      [] v[1] = "list" -> FoldLeft(LAMBDA n, w : n + Sum(w), 0, v[2])
      [] OTHER -> 0

MCKeep(keep, v) ==
    CASE keep = "odd" -> Odd(v)
      [] keep = "nonempty" -> v[2] # <<>>
      [] keep = "short" -> Len(v[2]) < 2

MCApply(subject, v) == <<"int", (2 * v[2]) % 3>>

MCIdentity(name, vs) ==
    CASE name = "sum" -> IF Sum(vs[1]) + Sum(vs[2]) >= 2 THEN "large" ELSE Pass
      [] name = "tree" -> IF Sum(vs[1]) >= 2 THEN "heavy" ELSE Pass
      [] name = "kept" -> IF vs[1] = vs[2] THEN "equal" ELSE Pass
      [] OTHER -> Pass

\* The draws in order; a sized body draws as many digits as its first value.
MCNextDraw(b, vs) ==
    CASE b.name = "sized" /\ Len(vs) > 0 ->
            IF Len(vs) <= vs[1][2] THEN Labelled("item", Digit) ELSE NoDraw
      [] OTHER -> IF Len(vs) < Len(b.draws) THEN b.draws[Len(vs) + 1] ELSE NoDraw

V(g) == <<Labelled("value", g)>>
Twice(g, h) == <<Labelled("first", g), Labelled("second", h)>>
Named(name, g) == Body(name, V(g))

Tree == Recursive(Bit, ListOf(Self, 0, 2), 2)
Text == Pieces(<<Literal(1), Repeat(Branches(<<ClassOf(<<1, 2>>), Literal(2)>>), 0, 2)>>)

Scalars ==
    {Body("sum", Twice(Signed, Digit)),
     Body("kept", Twice(Filter(Digit, "odd"), Digit)),
     Body("kept", Twice(Digit, Filter(Digit, "odd"))),
     Named("sized", Integer(0, 2)),
     Named("mapped", Map(Digit, "double")),
     Named("choice", OneOf(<<Filter(Bit, "odd"), Digit, Boolean>>)),
     Named("stated", Optional(SampledFrom(<<None, Num(1), Num(1)>>)))}

Collections ==
    {Body("sum", Twice(ListOf(Digit, 0, 2), ListOf(Bit, 1, 2))),
     Named("list", ListOf(Filter(Digit, "odd"), 0, 2)),
     Named("unique", UniqueList(Digit, 1, 3)),
     Named("set", SetOf(Digit, 2, Unbounded)),
     Named("set", SetOf(OneOf(<<Bit, Boolean>>), 0, 2)),
     Named("dict", DictOf(Bit, Digit, 1, 2)),
     Named("nonempty", Filter(ListOf(Bit, 0, 2), "nonempty")),
     Named("permutation", Permutation(<<Num(0), Num(1), Num(1)>>)),
     Named("string", StringOf(<<5, 6>>, 1, 2)),
     Named("bytes", Bytes(2, 0, Unbounded)),
     Named("matching", Matching(Text)),
     Named("matching", Matching(Pieces(<<Repeat(Literal(1), 0, 2), Literal(1)>>))),
     Named("matching", Matching(Repeat(Repeat(Literal(1), 0, 1), 1, 2)))}

Recursives ==
    {Named("tree", Tree),
     Named("tree", Recursive(Bit, OneOf(<<ListOf(Self, 2, 2), Optional(Self)>>), 2)),
     Body("tree", Twice(Tree, Tree))}

Shaped ==
    {Named("wide", Wide(-5, 6)), Named("wide", Wide(3, 5)),
     Named("instant", Instant(2, <<-1, 1>>, <<1, 0>>)), Named("instant", Instant(1, <<0, 0>>, <<2, 0>>)),
     Named("local", LocalDateTime(1, <<-1, 1>>, <<1, 0>>)),
     Named("zoned", Zoned(Instant(2, <<-3, 0>>, <<3, 1>>))),
     Named("wall", Wall(LocalDateTime(2, <<-3, 0>>, <<3, 3>>))),
     Named("ip", IpAddress(2, 1, 2)),
     Named("record", RecordOf(<<Bit, EnumOf(<<NoPayload, Digit>>, 0)>>))}

MCZones == <<<<>>, <<[at |-> 0, before |-> 0, after |-> 1]>>>>

MCBodies == Scalars \cup Collections \cup Recursives \cup Shaped

\* A filter that rejects inside the extension of a recursive generator.
FilteredTree == {Named("tree", Recursive(Bit, Filter(ListOf(Self, 1, 2), "short"), 1))}

\* Shape files over the names a and b.
A == RefShape("a")
B == RefShape("b")
BitLeaf == Leaf(Bit)

Nodes ==
    {BitLeaf, A, B, OptionalShape(A), OptionalShape(B), ListShape("list", A, 0, 2),
     ListShape("fixed-list", B, 1, 1), ListShape("list", B, 1, 2), ListShape("set", A, 0, 1),
     MapShape(BitLeaf, B, 0, 1),
     RecordShape(<<B, OptionalShape(A)>>), RecordShape(<<ListShape("list", A, 0, 1), BitLeaf>>),
     EnumShape(<<A, Unit>>), EnumShape(<<A, B>>), EnumShape(<<B, BitLeaf>>),
     RecordShape(<<EnumShape(<<B, Unit>>), A>>), RefShape("c")}

File(a, b, root) == [definitions |-> ("a" :> a @@ "b" :> b), root |-> root]

MCFiles == {File(a, b, A) : a \in Nodes, b \in Nodes}

NoFiles == {}

MCTapes == [1..5 -> 0..2] \cup {<<1, 1, 1, 1, 1, 1, 1, 1>>}
=============================================================================

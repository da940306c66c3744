----------------------------- MODULE MCShrinker -----------------------------
(***************************************************************************)
(* Instances of Shrinker for TLC: bodies for which each pass has work.     *)
(***************************************************************************)
EXTENDS Shrinker

Digit == Integer(0, 3)
Signed == Integer(-2, 3)
Wide6 == Integer(0, 7)

RECURSIVE Sum(_), Depth(_)
Sum(v) ==
    CASE v[1] = "int" -> v[2]
      [] v[1] = "list" -> FoldLeft(LAMBDA n, w : n + Sum(w), 0, v[2])
      [] v[1] = "bytes" -> FoldLeft(LAMBDA n, w : n + w, 0, v[2])
      [] OTHER -> 0

Depth(v) == IF v[1] # "list" THEN 0 ELSE 1 + Max({0} \cup {Depth(v[2][i]) : i \in 1..Len(v[2])})

RECURSIVE Leaves(_)
Leaves(v) == IF v[1] # "list" THEN 1 ELSE FoldLeft(LAMBDA n, w : n + Leaves(w), 0, v[2])

MCKeep(keep, v) == v[2] % 2 = 1

MCApply(subject, v) == Num(2 * v[2])

\* Each body fails in one or two ways.
MCIdentity(name, vs) ==
    CASE name = "pair" -> IF Sum(vs[1]) + Sum(vs[2]) >= 5 THEN "large"
                          ELSE IF vs[1] = vs[2] /\ Sum(vs[1]) > 0 THEN "equal" ELSE Pass
      [] name = "gap" -> IF Sum(vs[2]) - Sum(vs[1]) = 1 /\ Sum(vs[1]) > 0 THEN "gap" ELSE Pass
      [] name = "signed" -> IF Sum(vs[1]) < -1 \/ Sum(vs[1]) > 1 THEN "far" ELSE Pass
      [] name = "list" -> IF Sum(vs[1]) >= 4 THEN "heavy"
                          ELSE IF Len(vs[1][2]) >= 2 THEN "long" ELSE Pass
      [] name = "lists" -> IF \E i \in 1..Len(vs[1][2]) : Sum(vs[1][2][i]) >= 3 THEN "heavy" ELSE Pass
      [] name = "join" -> IF Sum(vs[1]) >= 5 THEN "full" ELSE Pass
      [] name = "triple" -> IF vs[1] = vs[2] /\ vs[2] = vs[3] /\ Sum(vs[1]) > 0 THEN "alike" ELSE Pass
      [] name = "nest" -> IF Depth(vs[1]) >= 1 /\ Sum(vs[1]) >= 2
                              /\ (Depth(vs[1]) >= 2 => Leaves(vs[1]) >= 2) THEN "nested" ELSE Pass
      [] name = "tree" -> IF Depth(vs[1]) >= 1 /\ Sum(vs[1]) >= 2 THEN "deep" ELSE Pass
      [] name = "bytes" -> IF Sum(vs[1]) >= 2 /\ vs[1][2] # <<>> THEN "sum" ELSE Pass
      [] name = "cut" -> IF Len(vs[1][2]) >= Sum(vs[2]) /\ Sum(vs[2]) > 0
                              /\ vs[1][2][Sum(vs[2])] = 2 THEN "split" ELSE Pass
      [] name = "sized" -> IF \E i \in 2..Len(vs) : Sum(vs[i]) = 3 THEN "three" ELSE Pass
      [] name = "mapped" -> IF Sum(vs[1]) >= 4 THEN "double" ELSE Pass
      [] name = "odd" -> IF Sum(vs[1]) >= 3 \/ vs[2] = Num(1) THEN "odd" ELSE Pass

MCNextDraw(b, vs) ==
    CASE b.name = "sized" /\ Len(vs) > 0 ->
            IF Len(vs) <= vs[1][2] THEN Labelled("item", Digit) ELSE NoDraw
      [] OTHER -> IF Len(vs) < Len(b.draws) THEN b.draws[Len(vs) + 1] ELSE NoDraw

One1(name, g) == Body(name, <<Labelled("value", g)>>)
Two(name, g, h) == Body(name, <<Labelled("first", g), Labelled("second", h)>>)

MCBodies ==
    {Two("pair", Wide6, Wide6), Two("gap", Wide6, Wide6), Two("signed", Signed, Just(Num(0))),
     One1("list", ListOf(Digit, 0, 3)), One1("lists", ListOf(ListOf(Digit, 0, 2), 0, 2)),
     One1("tree", Recursive(Integer(0, 2), ListOf(Self, 0, 2), 3)),
     One1("nest", Recursive(Integer(0, 2), ListOf(Self, 0, 2), 3)),
     One1("join", ListOf(ListOf(Digit, 0, 2), 0, 2)), Body("triple", <<Labelled("a", Digit),
     Labelled("b", Digit), Labelled("c", Digit)>>),
     One1("bytes", Bytes(3, 0, 3)), Two("cut", Bytes(3, 0, 3), Integer(0, 3)),
     One1("sized", Integer(0, 3)), One1("mapped", Map(Digit, "double")),
     Two("odd", Filter(Digit, "odd"), Digit)}

\* Two-choice tapes for the bodies over integers, and longer ones for the
\* bodies over sequences.
MCTapes ==
    [1..2 -> 0..7] \cup [1..5 -> {0, 1, 3}]
    \cup {<<1, 3, 1, 2, 1, 3>>, <<1, 1, 2, 1, 3, 0, 1, 1, 2>>, <<1, 1, 0, 2, 1, 0, 1>>,
          <<3, 1, 3, 2>>, <<2, 3, 3>>, <<1, 2, 1, 2, 0, 2>>, <<1, 2, 1, 2, 1, 2, 2>>, <<2, 1, 3>>,
          <<1, 0, 1, 2, 0, 2>>, <<1, 1, 1, 1, 0, 2>>, <<1, 1, 1, 1, 0, 0, 1, 0, 0, 2>>,
          <<1, 1, 3, 0, 1, 1, 0, 2>>}
MCFillings == {<<<<1, 2>>, <<3, 1, 1>>>>, <<<<0, 0>>, <<2, 5>>>>}
MCBudgets == {5, 30, 31, 40, 41, 200}
MCZones == <<>>
=============================================================================

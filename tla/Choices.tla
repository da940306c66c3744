------------------------------ MODULE Choices ------------------------------
(***************************************************************************)
(* The choices of a case and their bounds (src/tools/prop/choice.py), and  *)
(* the shortlex order in which the shrinker compares choice sequences      *)
(* (src/tools/prop/shrink.py).                                             *)
(*                                                                         *)
(* A choice's value is a sequence of integers: an integer choice v is      *)
(* <<v>>, so that values of the two kinds can be compared.  Float choices  *)
(* are left out: their arithmetic is the platform's.                       *)
(***************************************************************************)
EXTENDS Integers, Sequences, SequencesExt, FiniteSetsExt

Unbounded == -1        \* A max_size of None.

Ints(lo, hi) == [kind |-> "integer", lo |-> lo, hi |-> hi]
Seqs(k, least, most) == [kind |-> "sequence", k |-> k, least |-> least, most |-> most]

IsInts(b) == b.kind = "integer"

\* The bounds that their constructors accept, on a machine whose signed
\* integers end at Int64Max and whose unsigned ones at UInt64Max.
Constructible(b, Int64Max, UInt64Max) ==
    IF IsInts(b)
    THEN /\ b.lo <= b.hi
         /\ \/ b.lo >= -Int64Max - 1 /\ b.hi <= Int64Max
            \/ b.lo >= 0 /\ b.hi <= UInt64Max
    ELSE b.k >= 1 /\ b.least >= 0 /\ (b.most = Unbounded \/ b.most >= b.least)

-----------------------------------------------------------------------------
(* Integers: the key order runs outwards from the target. *)

IntTarget(b) == IF b.lo <= 0 /\ 0 <= b.hi THEN 0 ELSE IF b.lo > 0 THEN b.lo ELSE b.hi

Abs(n) == IF n < 0 THEN -n ELSE n

IntKey(b, n) == <<Abs(n - IntTarget(b)), IF n < IntTarget(b) THEN 1 ELSE 0>>

Lesser(m, n) == IF m < n THEN m ELSE n

Shorter(b) == Lesser(b.hi - IntTarget(b), IntTarget(b) - b.lo)

\* The position of a value in the key order of its bounds.
Rank(b, n) ==
    LET distance == Abs(n - IntTarget(b))
    IN  IF distance > Shorter(b) THEN Shorter(b) + distance
        ELSE IF n > IntTarget(b) THEN 2 * distance - 1 ELSE 2 * distance

\* The value at a position of the key order.
RankedFrom(b, target, shorter, rank) ==
    IF rank > 2 * shorter
    THEN IF b.hi - target > target - b.lo THEN target + rank - shorter
         ELSE target - rank + shorter
    ELSE IF rank % 2 = 1 THEN target + (rank + 1) \div 2 ELSE target - rank \div 2

AtRank(b, rank) == RankedFrom(b, IntTarget(b), Shorter(b), rank)

-----------------------------------------------------------------------------
(* What every kind of bounds has: a target, and what it admits and coerces. *)

Target(b) == IF IsInts(b) THEN <<IntTarget(b)>> ELSE [i \in 1..b.least |-> 0]

Admits(b, v) ==
    IF IsInts(b)
    THEN Len(v) = 1 /\ b.lo <= v[1] /\ v[1] <= b.hi
    ELSE /\ Len(v) >= b.least
         /\ b.most # Unbounded => Len(v) <= b.most
         /\ \A i \in 1..Len(v) : 0 <= v[i] /\ v[i] < b.k

\* The sequence that fits the bounds: each element inside them, cut to the
\* longest length and filled with zeros to the shortest.
Fitted(b, v) ==
    LET length == IF Len(v) < b.least THEN b.least
                  ELSE IF b.most = Unbounded THEN Len(v) ELSE Lesser(Len(v), b.most)
    IN  [i \in 1..length |-> IF i <= Len(v) /\ 0 <= v[i] /\ v[i] < b.k THEN v[i] ELSE 0]

\* A recorded choice fitted to the bounds of the request that reads it.
Coerce(b, choice) ==
    IF choice.kind = b.kind /\ ~IsInts(b) THEN Fitted(b, choice.value)
    ELSE IF choice.kind = b.kind /\ Admits(b, choice.value) THEN choice.value ELSE Target(b)

-----------------------------------------------------------------------------
(* The order of choice sequences.  A node is a recorded choice with the    *)
(* request that it answered.                                               *)

KindRank(b) == IF IsInts(b) THEN 0 ELSE 2

ChoiceKey(node) ==
    LET b == node.request.bounds
        v == node.choice.value
    IN  <<KindRank(b)>> \o (IF IsInts(b) THEN IntKey(b, v[1]) ELSE <<Len(v)>> \o v)

\* Python's order of tuples.
TupleLess(s, t) ==
    \/ \E i \in 1..Lesser(Len(s), Len(t)) :
          s[i] < t[i] /\ SubSeq(s, 1, i - 1) = SubSeq(t, 1, i - 1)
    \/ Len(s) < Len(t) /\ s = SubSeq(t, 1, Len(s))

\* One node sequence precedes another in shortlex order.
Precedes(ns, ms) ==
    \/ Len(ns) < Len(ms)
    \/ /\ Len(ns) = Len(ms)
       /\ \E i \in 1..Len(ns) :
             /\ TupleLess(ChoiceKey(ns[i]), ChoiceKey(ms[i]))
             /\ \A j \in 1..(i - 1) : ChoiceKey(ns[j]) = ChoiceKey(ms[j])

NodesOf(requests, choices) ==
    [i \in 1..Len(choices) |-> [request |-> requests[i], choice |-> choices[i]]]

ChoicesOf(nodes) == [i \in 1..Len(nodes) |-> nodes[i].choice]
=============================================================================

----------------------------- MODULE Ordering -----------------------------
(* The sorted() of Python over the finite sets of the models.              *)
EXTENDS Naturals, FiniteSets

\* The members of a set in ascending order of a strict total order.
\* (SetToSortSeq of the community modules is defined over every arrangement
\* of the set, which TLC cannot afford for the event logs.)
Ascending(set, Less(_, _)) ==
    [i \in 1..Cardinality(set) |->
        CHOOSE x \in set : Cardinality({y \in set : Less(y, x)}) = i - 1]

\* What a sequence holds.
Held(s) == {s[i] : i \in DOMAIN s}

\* The entries of a sequence that are in a set, in their order.
\* (SelectSeq is recursive, and the proofs could not expand it.)
Among(s, set) ==
    LET positions == Ascending({i \in DOMAIN s : s[i] \in set}, <)
    IN [k \in DOMAIN positions |-> s[positions[k]]]
===========================================================================

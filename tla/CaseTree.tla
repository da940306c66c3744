----------------------------- MODULE CaseTree -----------------------------
(***************************************************************************)
(* The case tree of a run, translated from src/tools/prop/tree.py, and one *)
(* call of a body, translated from execute() of src/tools/prop/execution.py*)
(* and by choose() and rewind() of Case in src/tools/prop/case.py.         *)
(*                                                                         *)
(* A body is a function of its choices: after the values it has taken, it  *)
(* rewinds the record of its case, or not, and makes a request or ends.  A *)
(* subject is a set of bodies, of which every call behaves as one, so that *)
(* a subject of two bodies diverges.                                       *)
(*                                                                         *)
(* A node of the trie is the path of the values that lead to it, and its   *)
(* children are the nodes one value longer.                                *)
(***************************************************************************)
EXTENDS Integers, Sequences, FiniteSets

CONSTANTS
    Subjects,       \* the subjects of test
    NodeLimits,     \* the limits on the nodes of a tree: NODE_LIMIT, or a test's own
    MaxChoices      \* the most choices one case may make

VARIABLES
    subject,        \* the subject of the run
    limit,          \* limit
    tree,           \* root, as the function from the paths of the nodes to the nodes
    full,           \* full
    body,           \* the body of the call
    path,           \* the values that the call has taken: the walker's _path while it walks
    record,         \* the values that its record keeps: of its stated draws and its choices
    cost,           \* _cost: the choices that it has made
    off,            \* _off: the call does not check, or it has no walker
    status,         \* the Status of the call, "idle" before the first one
    requests,       \* the bounds of the choices that the record keeps
    divergence,     \* its Diverged, or NoDivergence
    tested          \* history: the paths of the cases that ended in the tree

treeVars == <<subject, limit, tree, full, body, path, record, cost, off, status, requests,
              divergence, tested>>

NoDivergence == <<>>

Endings == {"passed", "failed", "rejected"}

Statuses == Endings \cup {"repeated", "diverged", "skipped"}

\* The bounds of a node without a request, and of a body that ends.
NoBounds == [values |-> {}, counted |-> FALSE]

NoEnding == "none"

\* A body says what it does on every path of values that it requests: it
\* makes a request, or it ends.
ASSUME BodiesAssumption ==
    \A bodies \in Subjects : \A b \in bodies :
        /\ <<>> \in DOMAIN b
        /\ \A p \in DOMAIN b :
               /\ b[p].ending = NoEnding <=> b[p].bounds # NoBounds
               /\ \A v \in b[p].bounds.values : Append(p, v) \in DOMAIN b

\* Whether the path p leads to the path q.
Leads(p, q) == Len(p) <= Len(q) /\ SubSeq(q, 1, Len(p)) = p

\* Its paths are those of the values that it requests, from each of them some
\* values lead to an end, and bounds that are counted have finitely many values.
ASSUME WaysAssumption ==
    \A bodies \in Subjects : \A b \in bodies : \A p \in DOMAIN b :
        /\ p \in Seq(UNION {b[q].bounds.values : q \in DOMAIN b})
        /\ \A k \in 1..Len(p) :
               /\ SubSeq(p, 1, k - 1) \in DOMAIN b
               /\ p[k] \in b[SubSeq(p, 1, k - 1)].bounds.values
        /\ \E q \in DOMAIN b : Leads(p, q) /\ b[q].ending # NoEnding
        /\ b[p].bounds.counted => IsFiniteSet(b[p].bounds.values)

\* What a record keeps when the body makes its move, after the rewinds of a
\* filter, is the beginning of what it had after the last value.
ASSUME RecordAssumption ==
    \A bodies \in Subjects : \A b \in bodies :
        /\ b[<<>>].kept = <<>>
        /\ \A p \in DOMAIN b : \A v \in b[p].bounds.values :
               Leads(b[Append(p, v)].kept, Append(b[p].kept, v))

ASSUME LimitsAssumption == MaxChoices \in Nat /\ NodeLimits \subseteq Nat \ {0}

\* Mutant: the values of a float's bounds are counted.
SizeOfAny(bounds) == Cardinality(bounds.values)

\* size(): the values that bounds allow.  A float's are not counted.
Size(bounds) == IF bounds.counted THEN Cardinality(bounds.values) ELSE -1

Node == [bounds |-> NoBounds, ending |-> NoEnding, exhausted |-> FALSE]

Children(p) == {q \in DOMAIN tree : Len(q) = Len(p) + 1 /\ Leads(p, q)}

\* Node.settle() of the node p above a leaf, whose child on the way to the
\* leaf is next and has just settled as exhausted.
Settled(p, next) ==
    /\ Size(tree[p].bounds) = Cardinality(Children(p))
    /\ \A q \in Children(p) \ {next} : tree[q].exhausted

\* Whether each node is exhausted after p is a leaf.  The nodes above p settle,
\* the last one first, so that each is exhausted only if those below it are.
SettledAbove(p) ==
    LET before(k) == SubSeq(p, 1, k)
    IN [q \in DOMAIN tree |->
           IF Len(q) < Len(p) /\ q = before(Len(q))
           THEN \A k \in Len(q)..(Len(p) - 1) : Settled(before(k), before(k + 1))
           ELSE tree[q].exhausted]

\* The tree after a case ends at p.
Settle(p, ending) ==
    [q \in DOMAIN tree |->
        [bounds    |-> tree[q].bounds,
         ending    |-> IF q = p THEN ending ELSE tree[q].ending,
         exhausted |-> q = p \/ SettledAbove(p)[q]]]

\* Tree.exhausted.
Exhausted == ~full /\ tree[<<>>].exhausted
---------------------------------------------------------------------------
TreeInit ==
    /\ subject \in Subjects
    /\ limit \in NodeLimits
    /\ tree = [p \in {<<>>} |-> Node]
    /\ full = FALSE
    /\ body \in subject
    /\ path = <<>> /\ record = <<>> /\ requests = <<>> /\ cost = 0
    /\ off = TRUE
    /\ status = "idle"
    /\ divergence = NoDivergence
    /\ tested = {}

\* execute(): the case starts.  With a tree it walks from the root.
Start(walks) ==
    /\ body' \in subject
    /\ path' = <<>> /\ record' = <<>> /\ requests' = <<>> /\ cost' = 0
    /\ off' = ~walks
    /\ status' = "running"
    /\ divergence' = NoDivergence
    /\ UNCHANGED <<subject, limit, tree, full, tested>>

Running == status = "running"

\* What the body does after the values it has taken: what it keeps of its
\* record, and the bounds of its request, or NoBounds and how it ends.
Move == body[path]

\* Case.rewind(): the record loses its last choices.  They stay in the cost
\* of the case, and an observer keeps them.
Rewind ==
    /\ Running /\ record # Move.kept
    /\ record' = Move.kept
    /\ requests' = SubSeq(requests, 1, Len(requests) - (Len(record) - Len(Move.kept)))
    /\ UNCHANGED <<subject, limit, tree, full, body, path, cost, off, status, divergence, tested>>

\* Nothing is left to rewind before the move.
Requests == Running /\ record = Move.kept /\ Move.ending = NoEnding

Ends == Running /\ record = Move.kept /\ Move.ending \in Endings

\* The case is past its cap with the value, and ends without a leaf.
Overrun ==
    /\ Requests
    /\ cost >= MaxChoices
    /\ status' = "rejected"
    /\ UNCHANGED <<subject, limit, tree, full, body, path, record, cost, off, requests, divergence,
                   tested>>

\* The case records a value, and may show it to its walker.
Take(value) ==
    /\ Requests
    /\ cost < MaxChoices
    /\ value \in Move.bounds.values
    /\ path' = Append(path, value)
    /\ record' = Append(record, value)
    /\ requests' = Append(requests, Move.bounds)
    /\ cost' = cost + 1
    /\ UNCHANGED <<subject, limit, body, tested>>

\* A draw whose value the provider states makes no choice, so that nothing
\* of it is removed.  No case with stated values walks the tree.
State(value) ==
    /\ Requests /\ off
    /\ value \in Move.bounds.values
    /\ body[Append(path, value)].kept = Append(record, value)
    /\ path' = Append(path, value)
    /\ record' = Append(record, value)
    /\ UNCHANGED <<subject, limit, tree, full, body, cost, off, status, requests, divergence,
                   tested>>

Unchecked(value) == off /\ Take(value) /\ UNCHANGED <<tree, full, off, status, divergence>>

\* Mutant: a request is compared before the first one here is recorded.
AgreesRecorded == tree[path].ending = NoEnding /\ tree[path].bounds = Move.bounds

\* The tree has the same request here, or nothing yet.
Agrees == tree[path].ending = NoEnding /\ tree[path].bounds \in {NoBounds, Move.bounds}

OtherRequest(value) ==
    /\ ~off /\ ~Agrees /\ Take(value)
    /\ status' = "diverged"
    /\ divergence' = <<Len(requests), tree[path].bounds, Move.bounds>>
    /\ UNCHANGED <<tree, full, off>>

Agreed(value) == ~off /\ Agrees /\ Take(value)

\* The request is recorded also where the tree has no room for its child.
Recorded == [tree EXCEPT ![path].bounds = Move.bounds]

Child(value) == Append(path, value)

\* Mutant: the leaf of a rejected case repeats nothing.
IsLeafOfVerdict(p) == p \in DOMAIN tree /\ tree[p].ending \in {"passed", "failed"}

IsLeaf(p) == p \in DOMAIN tree /\ tree[p].ending # NoEnding

\* The choice arrives at a leaf: the signal Repeated.
Repeat(value) ==
    /\ Agreed(value) /\ IsLeaf(Child(value))
    /\ status' = "repeated"
    /\ tree' = Recorded
    /\ UNCHANGED <<full, off, divergence>>

Follow(value) ==
    /\ Agreed(value) /\ ~IsLeaf(Child(value)) /\ Child(value) \in DOMAIN tree
    /\ tree' = Recorded
    /\ UNCHANGED <<full, off, status, divergence>>

HasRoom == Cardinality(DOMAIN tree) < limit

Grow(value) ==
    /\ Agreed(value) /\ Child(value) \notin DOMAIN tree /\ HasRoom
    /\ tree' = [p \in DOMAIN tree \cup {Child(value)} |->
                   IF p = Child(value) THEN Node ELSE Recorded[p]]
    /\ UNCHANGED <<full, off, status, divergence>>

\* The walk stops checking for the rest of its case.
Leave(value) ==
    /\ Agreed(value) /\ Child(value) \notin DOMAIN tree /\ ~HasRoom
    /\ full' = TRUE /\ off' = TRUE
    /\ tree' = Recorded
    /\ UNCHANGED <<status, divergence>>

Choose(value) ==
    \/ Unchecked(value) \/ OtherRequest(value) \/ Repeat(value)
    \/ Follow(value) \/ Grow(value) \/ Leave(value)

\* A body that skips leaves no leaf.
Skip ==
    /\ Running /\ record = Move.kept /\ Move.ending = "skipped"
    /\ status' = "skipped"
    /\ UNCHANGED <<subject, limit, tree, full, body, path, record, cost, off, requests, divergence,
                   tested>>

EndUnchecked ==
    /\ Ends /\ off
    /\ status' = Move.ending
    /\ UNCHANGED <<subject, limit, tree, full, body, path, record, cost, off, requests, divergence,
                   tested>>

\* An earlier case made a request where this one ends.
EndAtRequest ==
    /\ Ends /\ ~off /\ tree[path].bounds # NoBounds
    /\ status' = "diverged"
    /\ divergence' = <<Len(path), tree[path].bounds, NoBounds>>
    /\ UNCHANGED <<subject, limit, tree, full, body, path, record, cost, off, requests, tested>>

EndAtLeaf ==
    /\ Ends /\ ~off /\ tree[path].bounds = NoBounds
    /\ status' = Move.ending
    /\ tree' = Settle(path, Move.ending)
    /\ tested' = tested \cup {path}
    /\ UNCHANGED <<subject, limit, full, body, path, record, cost, off, requests, divergence>>

Finish == Skip \/ EndUnchecked \/ EndAtRequest \/ EndAtLeaf

\* A case starts in the tree while the tree is not exhausted, as the runner
\* starts them; the others are the cases outside it.
TreeNext ==
    \/ \E walks \in BOOLEAN : ~Running /\ (walks => ~Exhausted) /\ Start(walks)
    \/ \E value \in Move.bounds.values : Choose(value) \/ State(value)
    \/ Rewind
    \/ Overrun
    \/ Finish

TreeSpec == TreeInit /\ [][TreeNext]_treeVars
---------------------------------------------------------------------------
IsFunction == \E b \in subject : subject = {b}

Walking == Running /\ ~off

\* No walk of choices is counted twice: a case that ends in the tree as
\* passed, failed or rejected ends where none did before, also in a full tree
\* and with a body that diverges.  The walk has the choices that a filter
\* removed, so that two walks may be one input: see InputsCountOnce.
NoWalkCountsTwice ==
    [][Walking /\ Finish /\ status' \in Endings => path \notin tested]_treeVars

\* What RFC 0010 says of the tree (line 790): a run never counts one input
\* twice.  Two cases with one record are one input.
InputsCountOnce ==
    IsFunction => \A p, q \in tested :
        body[p].ending = "passed" /\ body[p].kept = body[q].kept => p = q

\* A body that is a function of its choices never diverges: whatever cases
\* overran, skipped or left a full tree before, no node has a request that
\* the body does not make there, and no leaf is where it goes on.
FunctionNeverDiverges == IsFunction => status # "diverged"

\* A repeat is of a case that ended, and no case goes past a leaf.
RepeatsTestedCases ==
    /\ status = "repeated" => path \in tested
    /\ Walking => path \in DOMAIN tree \ tested

Below(p) == {q \in DOMAIN body : Leads(p, q)}

\* An exhausted node has every way below it tested, and a node with every
\* way below it tested is exhausted: a run stops neither too early, which
\* would pass an input it never tried, nor too late, which repeats cases.
\* A float has more values than a run tests.
ExhaustedIsTested ==
    IsFunction => \A p \in DOMAIN tree :
        tree[p].exhausted <=>
            \A q \in Below(p) : IF body[q].ending = NoEnding THEN body[q].bounds.counted
                                                             ELSE q \in tested
===========================================================================

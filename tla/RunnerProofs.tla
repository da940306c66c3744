--------------------------- MODULE RunnerProofs ---------------------------
(***************************************************************************)
(* Proofs about the case tree, for every subject, limit and cap: no walk   *)
(* of choices is counted twice in the tree, a repeat repeats a tested      *)
(* case, a body that is a function of its choices never diverges, the tree *)
(* keeps its limit, and a node of a function's tree is exhausted when, and *)
(* only when, every way below it is tested.                                *)
(*                                                                         *)
(* Proofs about Runner, for every subject and setting: a run uses the case *)
(* tree as TreeSpec allows, so that what is proved of the tree holds in    *)
(* every run; what a run reports is what its calls did; and a function of  *)
(* its choices is never reported as flaky.                                 *)
(***************************************************************************)
EXTENDS Runner, OrderingProofs
---------------------------------------------------------------------------
(* The inductive invariant of the tree.                                    *)

\* The call runs one of the subject's bodies, on a path of that body.
CallOfSubject ==
    /\ subject \in Subjects /\ body \in subject
    /\ Running => path \in DOMAIN body

\* The tree is a function to nodes of three fields.
TreeOfNodes ==
    tree = [p \in DOMAIN tree |-> [bounds    |-> tree[p].bounds,
                                   ending    |-> tree[p].ending,
                                   exhausted |-> tree[p].exhausted]]

\* The leaves of the tree are the tested paths, and no leaf has a request.
LeavesAreTested ==
    /\ <<>> \in DOMAIN tree
    /\ tested \subseteq DOMAIN tree
    /\ \A p \in DOMAIN tree :
           /\ tree[p].ending # NoEnding <=> p \in tested
           /\ p \in tested => tree[p].bounds = NoBounds

\* A root that is a leaf is exhausted, in a tree that is not full: no walk
\* starts at it.  So every walk is below a root with a request, and the tree
\* is full only there.
RootIsOpen ==
    /\ <<>> \in tested => tree[<<>>].exhausted
    /\ full => tree[<<>>].bounds # NoBounds
    /\ Walking => <<>> \notin tested
    /\ Walking /\ path # <<>> => tree[<<>>].bounds # NoBounds

\* A node of a function's tree states what the function does there.
NodesAreMoves ==
    IsFunction => \A p \in DOMAIN tree : tree[p].bounds \in {NoBounds, body[p].bounds}

IInv ==
    /\ TreeOfNodes
    /\ CallOfSubject
    /\ LeavesAreTested
    /\ RootIsOpen
    /\ NodesAreMoves
    /\ RepeatsTestedCases
    /\ FunctionNeverDiverges

\* A tree of its root alone, open.
LEMMA InitIInv == TreeInit => IInv
  BY BodiesAssumption
  DEF TreeInit, IInv, TreeOfNodes, CallOfSubject, LeavesAreTested, RootIsOpen, NodesAreMoves,
      RepeatsTestedCases, FunctionNeverDiverges, Running, Walking, Node

\* The steps that leave the tree and the walker alone.
LEMMA StartIInv ==
    ASSUME IInv, NEW walks \in BOOLEAN, walks => ~Exhausted, Start(walks)
    PROVE  IInv'
<1> USE DEF IInv, Start
<1>1. CallOfSubject'
  BY BodiesAssumption DEF CallOfSubject, Running
<1>2. LeavesAreTested'
  BY DEF LeavesAreTested
<1>3. walks => <<>> \notin tested
  BY DEF Exhausted, RootIsOpen, LeavesAreTested
<1>4. RootIsOpen'
  BY <1>3 DEF RootIsOpen, Walking, Running
<1>5. NodesAreMoves'
  BY DEF NodesAreMoves, IsFunction, CallOfSubject
<1>6. RepeatsTestedCases'
  BY <1>3 DEF RepeatsTestedCases, LeavesAreTested, Walking, Running
<1>7. FunctionNeverDiverges'
  BY DEF FunctionNeverDiverges
<1>8. TreeOfNodes'
  BY DEF TreeOfNodes
<1> QED BY <1>1, <1>2, <1>4, <1>5, <1>6, <1>7, <1>8

\* A call that goes on outside the tree, or ends without a leaf.
LEMMA OutsideIInv ==
    ASSUME IInv,
           UNCHANGED <<subject, tree, full, body, off, tested>>,
           ~Walking \/ ~Running',
           Running' => path' \in DOMAIN body,
           status' = status \/ status' \in Endings \cup {"skipped"},
           status' = "repeated" => path' = path
    PROVE  IInv'
  BY DEF IInv, TreeOfNodes, CallOfSubject, LeavesAreTested, RootIsOpen, NodesAreMoves, IsFunction,
         RepeatsTestedCases, FunctionNeverDiverges, Walking, Running, Endings

\* The path of a call after a value is a path of its body.
LEMMA PathOfBody ==
    ASSUME IInv, NEW value, Requests, value \in Move.bounds.values
    PROVE  Child(value) \in DOMAIN body
  BY BodiesAssumption DEF IInv, CallOfSubject, Requests, Move, Child

\* A choice that agrees with the tree: its node records the request.
LEMMA RecordedNode ==
    ASSUME IInv, NEW value, Agreed(value)
    PROVE  /\ path \in DOMAIN tree \ tested
           /\ Move = body[path] /\ path \in DOMAIN body /\ Move.bounds # NoBounds
           /\ DOMAIN Recorded = DOMAIN tree
           /\ \A p \in DOMAIN tree :
                  /\ Recorded[p].ending = tree[p].ending
                  /\ Recorded[p].exhausted = tree[p].exhausted
                  /\ p # path => Recorded[p].bounds = tree[p].bounds
                  /\ Recorded[p] = [bounds    |-> Recorded[p].bounds,
                                    ending    |-> Recorded[p].ending,
                                    exhausted |-> Recorded[p].exhausted]
           /\ Recorded = [p \in DOMAIN tree |-> Recorded[p]]
           /\ Recorded[path].bounds = Move.bounds
           /\ Recorded[<<>>].bounds # NoBounds
           /\ <<>> \notin tested
           /\ Child(value) \in DOMAIN body
<1> USE DEF Agreed, Take
<1>1. path \in DOMAIN tree \ tested
  BY DEF IInv, RepeatsTestedCases, Walking, Requests
<1>2. Move = body[path] /\ path \in DOMAIN body /\ Move.bounds # NoBounds
  BY BodiesAssumption DEF IInv, CallOfSubject, Requests, Move
<1> HIDE DEF Take, Agreed
<1>3. /\ DOMAIN Recorded = DOMAIN tree
      /\ Recorded[path].bounds = Move.bounds
      /\ \A p \in DOMAIN tree :
             /\ Recorded[p].ending = tree[p].ending
             /\ Recorded[p].exhausted = tree[p].exhausted
             /\ p # path => Recorded[p].bounds = tree[p].bounds
             /\ Recorded[p] = [bounds    |-> Recorded[p].bounds,
                               ending    |-> Recorded[p].ending,
                               exhausted |-> Recorded[p].exhausted]
      /\ Recorded = [p \in DOMAIN tree |-> Recorded[p]]
  BY <1>1 DEF IInv, TreeOfNodes, Recorded
<1>4. Recorded[<<>>].bounds # NoBounds /\ <<>> \notin tested
  BY <1>1, <1>2, <1>3 DEF IInv, RootIsOpen, LeavesAreTested, Walking, Requests, Agreed, Take
<1>5. Child(value) \in DOMAIN body
  BY PathOfBody DEF Agreed, Take
<1> QED BY <1>1, <1>2, <1>3, <1>4, <1>5

\* A choice inside the tree, or out of a full one.
LEMMA InsideIInv ==
    ASSUME IInv, NEW value, Repeat(value) \/ Follow(value) \/ Leave(value)
    PROVE  IInv'
<1> USE DEF Repeat, Follow, Leave
<1>1. Agreed(value) /\ tree' = Recorded
  OBVIOUS
<1>2. /\ UNCHANGED <<subject, body, tested>> /\ path' = Child(value)
      /\ Running /\ ~off
  BY <1>1 DEF Agreed, Take, Child, Requests
<1> HIDE DEF Repeat, Follow, Leave
<1>3. TreeOfNodes'
  BY <1>1, RecordedNode DEF TreeOfNodes
<1>4. CallOfSubject'
  BY <1>1, <1>2, RecordedNode DEF IInv, CallOfSubject
<1>5. LeavesAreTested'
  BY <1>1, <1>2, RecordedNode DEF IInv, LeavesAreTested
<1>6. RootIsOpen'
  BY <1>1, <1>2, RecordedNode DEF IInv, RootIsOpen, LeavesAreTested
<1>7. NodesAreMoves'
  BY <1>1, <1>2, RecordedNode DEF IInv, NodesAreMoves, IsFunction
<1>8. RepeatsTestedCases'
  BY <1>1, <1>2, RecordedNode
  DEF IInv, RepeatsTestedCases, LeavesAreTested, IsLeaf, Walking, Running, Repeat, Follow, Leave
<1>9. FunctionNeverDiverges'
  BY <1>2 DEF IInv, FunctionNeverDiverges, Running, Repeat, Follow, Leave
<1> QED BY <1>3, <1>4, <1>5, <1>6, <1>7, <1>8, <1>9 DEF IInv

\* A choice that adds a node keeps the invariant: the new node is open and asks for nothing.
LEMMA GrowIInv ==
    ASSUME IInv, NEW value, Grow(value)
    PROVE  IInv'
<1>1. Agreed(value)
  BY DEF Grow
<1>2. /\ UNCHANGED <<subject, body, tested, full, off, status>> /\ path' = Child(value)
      /\ Running /\ ~off
  BY <1>1 DEF Grow, Agreed, Take, Child, Requests
<1>3. /\ Child(value) \notin DOMAIN tree
      /\ tree' = [p \in DOMAIN tree \cup {Child(value)} |->
                    IF p = Child(value) THEN Node ELSE Recorded[p]]
  BY DEF Grow
<1>4. /\ DOMAIN tree' = DOMAIN tree \cup {Child(value)}
      /\ tree'[Child(value)] = Node
      /\ \A p \in DOMAIN tree : tree'[p] = Recorded[p]
  BY <1>3
<1>5. TreeOfNodes'
  BY <1>1, <1>3, <1>4, RecordedNode DEF TreeOfNodes, Node
<1>6. CallOfSubject'
  BY <1>1, <1>2, RecordedNode DEF IInv, CallOfSubject
<1>7. LeavesAreTested'
  <2>1. \A p \in DOMAIN tree :
            /\ tree'[p].ending # NoEnding <=> p \in tested
            /\ p \in tested => tree'[p].bounds = NoBounds
    <3>1. /\ path \notin tested
          /\ \A p \in DOMAIN tree : /\ Recorded[p].ending = tree[p].ending
                                    /\ p # path => Recorded[p].bounds = tree[p].bounds
      BY <1>1, RecordedNode
    <3> QED BY <1>4, <3>1 DEF IInv, LeavesAreTested
  <2>2. tree'[Child(value)].ending = NoEnding /\ Child(value) \notin tested
    BY <1>3, <1>4 DEF IInv, LeavesAreTested, Node
  <2> QED BY <1>2, <1>4, <2>1, <2>2 DEF IInv, LeavesAreTested
<1>8. RootIsOpen'
  BY <1>1, <1>2, <1>4, RecordedNode DEF IInv, RootIsOpen, LeavesAreTested, Walking, Running
<1>9. NodesAreMoves'
  BY <1>1, <1>2, <1>3, <1>4, RecordedNode DEF IInv, NodesAreMoves, IsFunction, Node
<1>10. RepeatsTestedCases'
  BY <1>2, <1>3, <1>4 DEF IInv, RepeatsTestedCases, LeavesAreTested, Walking, Running
<1>11. FunctionNeverDiverges'
  BY <1>2 DEF IInv, FunctionNeverDiverges, IsFunction
<1> QED BY <1>5, <1>6, <1>7, <1>8, <1>9, <1>10, <1>11 DEF IInv

\* A divergence leaves the tree as it is, and only several bodies make one.
LEMMA DivergedIInv ==
    ASSUME IInv, (\E value : OtherRequest(value)) \/ EndAtRequest
    PROVE  IInv'
<1>1. /\ UNCHANGED <<subject, body, tested, tree, full, off>>
      /\ Running /\ ~off /\ status' = "diverged"
  BY DEF OtherRequest, EndAtRequest, Take, Requests, Ends
<1>2. path \in DOMAIN tree \ tested /\ path \in DOMAIN body
  BY <1>1 DEF IInv, RepeatsTestedCases, CallOfSubject, Walking
<1>3. ~IsFunction
  <2>1. CASE \E value : OtherRequest(value)
    BY <2>1, <1>2 DEF OtherRequest, Agrees, Move, IInv, NodesAreMoves, LeavesAreTested
  <2>2. CASE EndAtRequest
    <3>1. Move.bounds = NoBounds
      BY <2>2, <1>2, BodiesAssumption
      DEF EndAtRequest, Ends, Move, Endings, NoEnding, IInv, CallOfSubject
    <3> QED BY <2>2, <3>1, <1>2 DEF EndAtRequest, Move, IInv, NodesAreMoves
  <2> QED BY <2>1, <2>2
<1> QED
  BY <1>1, <1>3
  DEF IInv, TreeOfNodes, CallOfSubject, LeavesAreTested, RootIsOpen, NodesAreMoves, IsFunction,
      RepeatsTestedCases, FunctionNeverDiverges, Walking, Running

\* A case that ends in the tree makes its node a leaf, and changes no bounds.
LEMMA LeafIInv ==
    ASSUME IInv, EndAtLeaf
    PROVE  IInv'
<1>1. /\ UNCHANGED <<subject, body, path, full, off>> /\ tested' = tested \cup {path}
      /\ Running /\ ~off /\ status' = Move.ending /\ Move.ending \in Endings
      /\ tree[path].bounds = NoBounds /\ tree' = Settle(path, Move.ending)
  BY DEF EndAtLeaf, Ends
<1>2. path \in DOMAIN tree \ tested /\ path \in DOMAIN body /\ <<>> \notin tested
  BY <1>1 DEF IInv, RepeatsTestedCases, CallOfSubject, RootIsOpen, Walking
<1>3. tree' = [q \in DOMAIN tree |->
                 [bounds    |-> tree[q].bounds,
                  ending    |-> IF q = path THEN Move.ending ELSE tree[q].ending,
                  exhausted |-> q = path \/ SettledAbove(path)[q]]]
  BY <1>1 DEF Settle
<1>4. /\ DOMAIN tree' = DOMAIN tree
      /\ \A q \in DOMAIN tree :
             /\ tree'[q].bounds = tree[q].bounds
             /\ q # path => tree'[q].ending = tree[q].ending
      /\ tree'[path].ending = Move.ending
  BY <1>2, <1>3
<1>11. tree'[path].exhausted = TRUE
  BY <1>2, <1>3, Zenon
<1>5. TreeOfNodes'
  BY <1>1, <1>3, <1>4 DEF TreeOfNodes
<1>6. CallOfSubject'
  BY <1>1 DEF IInv, CallOfSubject, Running, Endings
<1>7. LeavesAreTested'
  BY <1>1, <1>2, <1>4 DEF IInv, LeavesAreTested, Endings, NoEnding
<1>8. RootIsOpen'
  BY <1>1, <1>2, <1>4, <1>11 DEF IInv, RootIsOpen, LeavesAreTested, Walking, Running, Endings
<1>9. NodesAreMoves'
  BY <1>1, <1>4 DEF IInv, NodesAreMoves, IsFunction
<1>10. RepeatsTestedCases' /\ FunctionNeverDiverges'
  BY <1>1 DEF RepeatsTestedCases, FunctionNeverDiverges, Walking, Running, Endings
<1> QED BY <1>5, <1>6, <1>7, <1>8, <1>9, <1>10 DEF IInv

\* Every step of a call keeps the invariant of the tree.
LEMMA NextIInv == IInv /\ [TreeNext]_treeVars => IInv'
<1> SUFFICES ASSUME IInv, [TreeNext]_treeVars PROVE IInv'
  OBVIOUS
<1>1. ASSUME NEW walks \in BOOLEAN, walks => ~Exhausted, Start(walks) PROVE IInv'
  BY <1>1, StartIInv
<1>2. ASSUME NEW value \in Move.bounds.values, Choose(value) PROVE IInv'
  <2>1. CASE Unchecked(value)
    <3>1. path' = Child(value) /\ Requests
      BY <2>1 DEF Unchecked, Take, Child
    <3>2. /\ UNCHANGED <<subject, tree, full, body, off, tested, status>>
          /\ ~Walking
      BY <2>1 DEF Unchecked, Take, Walking
    <3>3. status # "repeated"
      BY <3>1 DEF Requests, Running
    <3> QED BY <3>1, <3>2, <3>3, PathOfBody, OutsideIInv
  <2>2. CASE OtherRequest(value)
    BY <2>2, DivergedIInv
  <2>3. CASE Repeat(value) \/ Follow(value) \/ Leave(value)
    BY <2>3, InsideIInv
  <2>4. CASE Grow(value)
    BY <2>4, GrowIInv
  <2> QED BY <1>2, <2>1, <2>2, <2>3, <2>4 DEF Choose
<1>3. ASSUME NEW value \in Move.bounds.values, State(value) PROVE IInv'
  <2>1. path' = Child(value) /\ Requests
    BY <1>3 DEF State, Child
  <2>2. /\ UNCHANGED <<subject, tree, full, body, off, tested, status>>
        /\ ~Walking
    BY <1>3 DEF State, Walking
  <2>3. status # "repeated"
    BY <2>1 DEF Requests, Running
  <2> QED BY <2>1, <2>2, <2>3, PathOfBody, OutsideIInv
<1>4. CASE Overrun \/ Skip \/ EndUnchecked
  <2>1. /\ UNCHANGED <<subject, tree, full, body, path, off, tested>>
        /\ status' \in Endings \cup {"skipped"}
    BY <1>4 DEF Overrun, Skip, EndUnchecked, Ends, Endings
  <2>2. ~Running' /\ status' # "repeated"
    BY <2>1 DEF Running, Endings
  <2> QED BY <2>1, <2>2, OutsideIInv
<1>5. CASE EndAtRequest
  BY <1>5, DivergedIInv
<1>6. CASE EndAtLeaf
  BY <1>6, LeafIInv
<1>7. CASE Rewind \/ UNCHANGED treeVars
  BY <1>7
  DEF Rewind, treeVars, IInv, TreeOfNodes, CallOfSubject, LeavesAreTested, RootIsOpen, NodesAreMoves,
      IsFunction, RepeatsTestedCases, FunctionNeverDiverges, Walking, Running
<1> QED BY <1>1, <1>2, <1>3, <1>4, <1>5, <1>6, <1>7 DEF TreeNext, Finish

THEOREM TreeInvariant == TreeSpec => []IInv
  BY InitIInv, NextIInv, PTL DEF TreeSpec

\* A body that is a function of its choices is never said to diverge: with
\* any domain, any number of cases, any limit of nodes and any cap.
THEOREM NeverDiverges == TreeSpec => []FunctionNeverDiverges
<1>1. IInv => FunctionNeverDiverges
  BY DEF IInv
<1> QED BY <1>1, TreeInvariant, PTL

\* A case that is stopped as a repeat has the choices of a case that ended.
THEOREM Repeats == TreeSpec => []RepeatsTestedCases
<1>1. IInv => RepeatsTestedCases
  BY DEF IInv
<1> QED BY <1>1, TreeInvariant, PTL

\* No case that walks the tree ends where one has ended: with any subject,
\* also one that diverges or rewinds, and in a tree that is full.  Two walks
\* of a body that rewinds may still be one input.
THEOREM CountedOnce == TreeSpec => NoWalkCountsTwice
<1>1. IInv => (Walking /\ Finish /\ status' \in Endings => path \notin tested)
  BY DEF IInv, RepeatsTestedCases
<1> QED BY <1>1, TreeInvariant, PTL DEF NoWalkCountsTwice
---------------------------------------------------------------------------
(* Exhaustion.                                                             *)

\* The tree grows to its limit and no further, and no walk is open in an
\* exhausted tree.
TreeFits ==
    /\ IsFiniteSet(DOMAIN tree) /\ Cardinality(DOMAIN tree) <= limit
    /\ limit \in NodeLimits
    /\ Walking => ~Exhausted

\* A function's tree holds paths of its body, each below nodes with a request.
NodesAreWays ==
    IsFunction =>
        /\ DOMAIN tree \subseteq DOMAIN body
        /\ \A q \in DOMAIN tree : \A k \in 0..(Len(q) - 1) :
               /\ SubSeq(q, 1, k) \in DOMAIN tree
               /\ tree[SubSeq(q, 1, k)].bounds # NoBounds

XInv == TreeFits /\ NodesAreWays /\ ExhaustedIsTested

\* What is done of the way q: an end is tested, and a request has a count.
Done(q) == IF body[q].ending = NoEnding THEN body[q].bounds.counted ELSE q \in tested

Values == UNION {body[q].bounds.values : q \in DOMAIN body}
---------------------------------------------------------------------------
(* Paths.                                                                  *)

\* The beginnings of a path.
LEMMA Beginnings ==
    ASSUME NEW S, NEW q \in Seq(S), NEW k \in 0..Len(q)
    PROVE  /\ SubSeq(q, 1, k) \in Seq(S) /\ Len(SubSeq(q, 1, k)) = k /\ Len(q) \in Nat
           /\ Leads(SubSeq(q, 1, k), q) /\ Leads(q, q) /\ SubSeq(q, 1, Len(q)) = q
           /\ \A i \in 1..k : SubSeq(q, 1, k)[i] = q[i]
           /\ \A j \in 0..k : SubSeq(SubSeq(q, 1, k), 1, j) = SubSeq(q, 1, j)
  BY DEF Leads

\* A path leads wherever a path that it leads to does.
LEMMA LeadsOn ==
    ASSUME NEW S, NEW p \in Seq(S), NEW q \in Seq(S), NEW r \in Seq(S), Leads(p, q), Leads(q, r)
    PROVE  Leads(p, r)
<1>1. Len(p) \in 0..Len(q) /\ Len(q) \in 0..Len(r) /\ Len(p) \in 0..Len(r)
  BY DEF Leads
<1>2. SubSeq(SubSeq(r, 1, Len(q)), 1, Len(p)) = SubSeq(r, 1, Len(p))
  BY <1>1, Beginnings
<1> QED BY <1>1, <1>2 DEF Leads

\* A path and the next value on a way that it leads to.
LEMMA NextOnWay ==
    ASSUME NEW S, NEW q \in Seq(S), NEW k \in 0..(Len(q) - 1)
    PROVE  /\ Append(SubSeq(q, 1, k), q[k + 1]) = SubSeq(q, 1, k + 1)
           /\ q[k + 1] \in S /\ k \in 0..Len(q) /\ k + 1 \in 0..Len(q)
  OBVIOUS

\* Two ways that part, do so after some value.
LEMMA WaysPart ==
    ASSUME NEW S, NEW p \in Seq(S), NEW q \in Seq(S), NEW k \in Nat,
           k <= Len(p), k <= Len(q), SubSeq(p, 1, k) = SubSeq(q, 1, k),
           ~Leads(p, q), ~Leads(q, p)
    PROVE  \E j \in Nat : /\ k <= j /\ j < Len(p) /\ j < Len(q)
                          /\ SubSeq(p, 1, j) = SubSeq(q, 1, j) /\ p[j + 1] # q[j + 1]
<1> DEFINE parts == {j \in Nat : j < Len(p) /\ j < Len(q) /\ p[j + 1] # q[j + 1]}
<1>1. parts # {}
  <2> SUFFICES ASSUME parts = {} PROVE FALSE
    OBVIOUS
  <2>1. \A i \in 1..Len(p) : i <= Len(q) => p[i] = q[i]
    <3> SUFFICES ASSUME NEW i \in 1..Len(p), i <= Len(q) PROVE p[i] = q[i]
      OBVIOUS
    <3>1. i - 1 \in Nat /\ i - 1 < Len(p) /\ i - 1 < Len(q) /\ (i - 1) + 1 = i
      OBVIOUS
    <3> QED BY <3>1
  <2>2. CASE Len(p) <= Len(q)
    <3>1. SubSeq(q, 1, Len(p)) = p
      BY <2>1, <2>2
    <3> QED BY <2>2, <3>1 DEF Leads
  <2>3. CASE Len(q) <= Len(p)
    <3>1. SubSeq(p, 1, Len(q)) = q
      BY <2>1, <2>3
    <3> QED BY <2>3, <3>1 DEF Leads
  <2> QED BY <2>2, <2>3
<1>2. parts \in SUBSET Nat
  OBVIOUS
<1>3. PICK j \in parts : \A i \in parts : j <= i
  <2> HIDE DEF parts
  <2> QED BY <1>1, <1>2, LeastNumber
<1>4. \A i \in 1..j : p[i] = q[i]
  <2> SUFFICES ASSUME NEW i \in 1..j PROVE p[i] = q[i]
    OBVIOUS
  <2>1. i - 1 \in Nat /\ i - 1 < Len(p) /\ i - 1 < Len(q) /\ (i - 1) + 1 = i /\ ~(j <= i - 1)
    OBVIOUS
  <2> QED BY <1>3, <2>1
<1>5. SubSeq(p, 1, j) = SubSeq(q, 1, j)
  BY <1>4
<1>6. k <= j
  <2> SUFFICES ASSUME j < k PROVE FALSE
    OBVIOUS
  <2>1. j + 1 \in 1..k
    OBVIOUS
  <2>2. SubSeq(p, 1, k)[j + 1] = p[j + 1] /\ SubSeq(q, 1, k)[j + 1] = q[j + 1]
    BY <2>1
  <2> QED BY <2>2
<1> QED BY <1>5, <1>6
---------------------------------------------------------------------------
(* The ways of a body.                                                     *)

\* What WaysAssumption and BodiesAssumption say of the body of the call.
LEMMA Ways ==
    ASSUME IInv
    PROVE  /\ \A p \in DOMAIN body :
                  /\ p \in Seq(Values)
                  /\ body[p].ending = NoEnding <=> body[p].bounds # NoBounds
                  /\ \A v \in body[p].bounds.values : Append(p, v) \in DOMAIN body /\ v \in Values
                  /\ \E q \in DOMAIN body : Leads(p, q) /\ body[q].ending # NoEnding
                  /\ body[p].bounds.counted => IsFiniteSet(body[p].bounds.values)
           /\ \A p \in DOMAIN body : \A k \in 0..(Len(p) - 1) :
                  /\ SubSeq(p, 1, k) \in DOMAIN body
                  /\ p[k + 1] \in body[SubSeq(p, 1, k)].bounds.values
                  /\ body[SubSeq(p, 1, k)].ending = NoEnding
           /\ <<>> \in DOMAIN body
<1>1. subject \in Subjects /\ body \in subject
  BY DEF IInv, CallOfSubject
<1>2. /\ <<>> \in DOMAIN body
      /\ \A p \in DOMAIN body :
             /\ body[p].ending = NoEnding <=> body[p].bounds # NoBounds
             /\ \A v \in body[p].bounds.values : Append(p, v) \in DOMAIN body
  BY <1>1, BodiesAssumption
<1>3. \A p \in DOMAIN body :
          /\ p \in Seq(Values)
          /\ \A k \in 1..Len(p) :
                 /\ SubSeq(p, 1, k - 1) \in DOMAIN body
                 /\ p[k] \in body[SubSeq(p, 1, k - 1)].bounds.values
          /\ \E q \in DOMAIN body : Leads(p, q) /\ body[q].ending # NoEnding
          /\ body[p].bounds.counted => IsFiniteSet(body[p].bounds.values)
  BY <1>1, WaysAssumption, Zenon DEF Values
<1>4. \A p \in DOMAIN body : \A v \in body[p].bounds.values : v \in Values
  BY DEF Values
<1>5. ASSUME NEW p \in DOMAIN body, NEW k \in 0..(Len(p) - 1)
      PROVE  /\ SubSeq(p, 1, k) \in DOMAIN body
             /\ p[k + 1] \in body[SubSeq(p, 1, k)].bounds.values
             /\ body[SubSeq(p, 1, k)].ending = NoEnding
  <2>1. k + 1 \in 1..Len(p) /\ (k + 1) - 1 = k
    BY <1>3
  <2>2. SubSeq(p, 1, k) \in DOMAIN body /\ p[k + 1] \in body[SubSeq(p, 1, k)].bounds.values
    BY <1>3, <2>1
  <2>3. body[SubSeq(p, 1, k)].bounds # NoBounds
    BY <2>2 DEF NoBounds
  <2> QED BY <1>2, <2>2, <2>3
<1> QED BY <1>2, <1>3, <1>4, <1>5

\* No way goes on past an end.
LEMMA EndsAreLast ==
    ASSUME IInv, NEW p \in DOMAIN body, body[p].ending # NoEnding, NEW q \in DOMAIN body,
           Leads(p, q)
    PROVE  q = p
<1>1. p \in Seq(Values) /\ q \in Seq(Values)
  BY Ways
<1>2. CASE Len(p) = Len(q)
  <2>1. SubSeq(q, 1, Len(q)) = q
    BY <1>1, Beginnings
  <2> QED BY <1>2, <2>1 DEF Leads
<1>3. CASE Len(p) # Len(q)
  <2>1. Len(p) \in 0..(Len(q) - 1) /\ SubSeq(q, 1, Len(p)) = p
    BY <1>1, <1>3 DEF Leads
  <2> QED BY <2>1, Ways
<1> QED BY <1>2, <1>3

\* A node that no case has reached has an untested way below it.
LEMMA NewIsNotDone ==
    ASSUME IInv, NodesAreWays, IsFunction, NEW p \in DOMAIN body,
           p \notin DOMAIN tree \/ tested = {}
    PROVE  \E q \in Below(p) : ~Done(q)
<1>1. PICK q \in DOMAIN body : Leads(p, q) /\ body[q].ending # NoEnding
  BY Ways
<1>2. q \notin tested
  <2> SUFFICES ASSUME q \in tested PROVE FALSE
    OBVIOUS
  <2>1. q \in DOMAIN tree /\ p \notin DOMAIN tree
    BY DEF IInv, LeavesAreTested
  <2>2. p \in Seq(Values) /\ q \in Seq(Values) /\ SubSeq(q, 1, Len(p)) = p
    BY <1>1, Ways DEF Leads
  <2>3. Len(p) # Len(q)
    <3>1. SubSeq(q, 1, Len(q)) = q
      BY <2>2, Beginnings
    <3> QED BY <2>1, <2>2, <3>1
  <2>4. Len(p) \in 0..(Len(q) - 1)
    BY <1>1, <2>2, <2>3 DEF Leads
  <2> QED BY <2>1, <2>2, <2>4 DEF NodesAreWays
<1> QED BY <1>1, <1>2 DEF Below, Done
---------------------------------------------------------------------------
\* A tree of its root alone is within its limit and exhausted nowhere.
LEMMA InitXInv == TreeInit => XInv
<1> SUFFICES ASSUME TreeInit PROVE XInv
  OBVIOUS
<1>1. IInv
  BY InitIInv
<1> USE DEF TreeInit
<1>2. DOMAIN tree = {<<>>}
  OBVIOUS
<1>3. TreeFits
  <2>1. IsFiniteSet(DOMAIN tree) /\ Cardinality(DOMAIN tree) = 1
    BY <1>2, FS_Singleton
  <2> QED BY <2>1, LimitsAssumption DEF TreeFits, Walking, Running
<1>4. NodesAreWays
  <2>1. Len(<<>>) = 0 /\ 0..(0 - 1) = {}
    OBVIOUS
  <2> QED BY <1>1, <1>2, <2>1, Ways DEF NodesAreWays
<1>5. ExhaustedIsTested
  <2>1. tree[<<>>].exhausted = FALSE
    BY DEF Node
  <2>2. IsFunction => \E q \in Below(<<>>) : ~Done(q)
    BY <1>1, <1>4, NewIsNotDone, Ways
  <2> QED BY <1>2, <2>1, <2>2 DEF ExhaustedIsTested, Done
<1> QED BY <1>3, <1>4, <1>5 DEF XInv

\* No step of the tree takes it past its limit, and an exhausted tree stays
\* exhausted: no walk is open in it.
LEMMA TreeFitsNext ==
    ASSUME IInv, TreeFits, [TreeNext]_treeVars
    PROVE  TreeFits' /\ (Exhausted => Exhausted')
<1> USE DEF TreeFits
<1>0. <<>> \in DOMAIN tree /\ limit \in Nat /\ limit' = limit
  BY LimitsAssumption
  DEF IInv, LeavesAreTested, TreeNext, treeVars, Start, Choose, State, Unchecked, OtherRequest,
      Repeat, Follow, Grow, Leave, Agreed, Take, Rewind, Overrun, Finish, Skip, EndUnchecked,
      EndAtRequest, EndAtLeaf
<1>1. ASSUME NEW walks \in BOOLEAN, walks => ~Exhausted, Start(walks)
      PROVE  TreeFits' /\ (Exhausted => Exhausted')
  BY <1>1 DEF Start, Exhausted, Walking, Running
<1>2. ASSUME UNCHANGED <<limit, tree, full>>, Walking' => Walking
      PROVE  TreeFits' /\ (Exhausted => Exhausted')
  BY <1>2 DEF Exhausted
<1>3. ASSUME NEW value, Repeat(value) \/ Follow(value) \/ Leave(value)
      PROVE  TreeFits' /\ (Exhausted => Exhausted')
  <2>1. Agreed(value) /\ tree' = Recorded /\ Walking /\ (full' = full \/ full' = TRUE)
    BY <1>3 DEF Repeat, Follow, Leave, Agreed, Take, Requests, Walking
  <2>2. DOMAIN tree' = DOMAIN tree /\ tree'[<<>>].exhausted = tree[<<>>].exhausted
    BY <1>0, <2>1, RecordedNode
  <2> QED BY <1>0, <2>1, <2>2 DEF Exhausted
<1>4. ASSUME NEW value, Grow(value)
      PROVE  TreeFits' /\ (Exhausted => Exhausted')
  <2>1. Agreed(value) /\ Walking /\ full' = full /\ HasRoom /\ Child(value) \notin DOMAIN tree
    BY <1>4 DEF Grow, Agreed, Take, Requests, Walking
  <2>2. /\ DOMAIN tree' = DOMAIN tree \cup {Child(value)}
        /\ \A p \in DOMAIN tree : tree'[p] = Recorded[p]
    BY <1>4 DEF Grow
  <2>3. tree'[<<>>].exhausted = tree[<<>>].exhausted
    BY <1>0, <2>1, <2>2, RecordedNode
  <2>4. IsFiniteSet(DOMAIN tree') /\ Cardinality(DOMAIN tree') = Cardinality(DOMAIN tree) + 1
    BY <2>1, <2>2, FS_AddElement
  <2>5. Cardinality(DOMAIN tree) \in Nat
    BY FS_CardinalityType
  <2> QED BY <1>0, <2>1, <2>3, <2>4, <2>5 DEF Exhausted, HasRoom
<1>5. ASSUME EndAtLeaf
      PROVE  TreeFits' /\ (Exhausted => Exhausted')
  <2>1. DOMAIN tree' = DOMAIN tree /\ ~Walking' /\ Walking
    BY <1>5 DEF EndAtLeaf, Settle, Ends, Walking, Running, Endings
  <2> QED BY <1>0, <2>1
<1>6. CASE \E value \in Move.bounds.values : Choose(value) \/ State(value)
  <2> PICK value \in Move.bounds.values : Choose(value) \/ State(value)
    BY <1>6
  <2>1. CASE Unchecked(value) \/ OtherRequest(value) \/ State(value)
    <3>1. UNCHANGED <<limit, tree, full>>
      BY <2>1 DEF Unchecked, OtherRequest, State, Take
    <3>2. Walking' => Walking
      BY <2>1 DEF Unchecked, OtherRequest, State, Walking, Running
    <3> QED BY <3>1, <3>2, <1>2
  <2>2. CASE Repeat(value) \/ Follow(value) \/ Leave(value)
    BY <2>2, <1>3
  <2>3. CASE Grow(value)
    BY <2>3, <1>4
  <2>4. \/ Unchecked(value) \/ OtherRequest(value) \/ Repeat(value) \/ Follow(value)
        \/ Grow(value) \/ Leave(value) \/ State(value)
    BY Zenon DEF Choose
  <2> QED BY <2>1, <2>2, <2>3, <2>4, Zenon
<1>7. CASE Overrun \/ Skip \/ EndUnchecked \/ EndAtRequest
  BY <1>7, <1>2
  DEF Overrun, Skip, EndUnchecked, EndAtRequest, Ends, Walking, Running, Requests, Endings
<1>8. CASE Rewind \/ UNCHANGED treeVars
  BY <1>8, <1>2 DEF Rewind, treeVars, Walking, Running
<1> QED BY <1>1, <1>5, <1>6, <1>7, <1>8 DEF TreeNext, Finish

\* A step that tests nothing and settles no node.
LEMMA UnsettledXInv ==
    ASSUME IInv, NodesAreWays, ExhaustedIsTested,
           IsFunction' = IsFunction, IsFunction => body' = body, tested' = tested,
           DOMAIN tree' = DOMAIN tree,
           \A q \in DOMAIN tree : /\ tree'[q].exhausted = tree[q].exhausted
                                  /\ tree[q].bounds # NoBounds => tree'[q].bounds # NoBounds
    PROVE  NodesAreWays' /\ ExhaustedIsTested'
<1>1. NodesAreWays'
  BY DEF NodesAreWays
<1>2. ExhaustedIsTested'
  BY DEF ExhaustedIsTested, Below
<1> QED BY <1>1, <1>2

\* A node that is new is not exhausted, and lies below its path.
LEMMA GrowXInv ==
    ASSUME IInv, NodesAreWays, ExhaustedIsTested, NEW value, Grow(value)
    PROVE  NodesAreWays' /\ ExhaustedIsTested'
<1> PICK new : new = Child(value)
  OBVIOUS
<1>1. /\ Agreed(value) /\ UNCHANGED <<subject, body, tested>> /\ new \notin DOMAIN tree
      /\ DOMAIN tree' = DOMAIN tree \cup {new}
      /\ tree'[new].exhausted = FALSE
      /\ \A p \in DOMAIN tree : tree'[p] = Recorded[p]
  BY DEF Grow, Agreed, Take, Node
<1>2. /\ path \in DOMAIN tree /\ path \in DOMAIN body /\ new \in DOMAIN body
      /\ \A p \in DOMAIN tree :
             /\ tree'[p].exhausted = tree[p].exhausted
             /\ tree[p].bounds # NoBounds => tree'[p].bounds # NoBounds
      /\ tree'[path].bounds # NoBounds
  BY <1>1, RecordedNode
<1>3. IsFunction' = IsFunction
  BY <1>1 DEF IsFunction
<1>4. value \in Values
  <2>1. value \in Move.bounds.values
    BY <1>1 DEF Agreed, Take
  <2> QED BY <1>2, <2>1 DEF Move, Values
<1>5. NodesAreWays'
  <2> SUFFICES ASSUME IsFunction PROVE NodesAreWays'
    BY <1>3 DEF NodesAreWays
  <2>1. \A q \in DOMAIN tree : \A k \in 0..(Len(q) - 1) :
            SubSeq(q, 1, k) \in DOMAIN tree /\ tree'[SubSeq(q, 1, k)].bounds # NoBounds
    BY <1>2 DEF NodesAreWays
  <2>2. ASSUME NEW k \in 0..(Len(new) - 1)
        PROVE  SubSeq(new, 1, k) \in DOMAIN tree /\ tree'[SubSeq(new, 1, k)].bounds # NoBounds
    <3>1. path \in Seq(Values) /\ new = Append(path, value)
      BY <1>2, Ways DEF Child
    <3>2. Len(new) = Len(path) + 1 /\ k \in 0..Len(path) /\ SubSeq(new, 1, k) = SubSeq(path, 1, k)
      BY <1>4, <3>1
    <3>3. CASE k = Len(path)
      <4>1. SubSeq(path, 1, k) = path
        BY <3>1, <3>3, Beginnings
      <4> QED BY <1>2, <3>2, <4>1
    <3>4. CASE k # Len(path)
      <4>1. k \in 0..(Len(path) - 1)
        BY <3>1, <3>2, <3>4
      <4> QED BY <1>2, <2>1, <3>2, <4>1
    <3> QED BY <3>3, <3>4
  <2>3. DOMAIN tree' \subseteq DOMAIN body'
    BY <1>1, <1>2 DEF NodesAreWays
  <2> QED BY <1>1, <2>1, <2>2, <2>3 DEF NodesAreWays
<1>6. ExhaustedIsTested'
  <2> SUFFICES ASSUME IsFunction PROVE ExhaustedIsTested'
    BY <1>3 DEF ExhaustedIsTested
  <2>1. \E q \in Below(new) : ~Done(q)
    BY <1>1, <1>2, NewIsNotDone
  <2> QED BY <1>1, <1>2, <2>1 DEF ExhaustedIsTested, Below, Done
<1> QED BY <1>5, <1>6

\* A node above a leaf settles as exhausted when its request has a count, and
\* each of its values leads to a node that is exhausted, or settled before it.
LEMMA SettledMeans ==
    ASSUME IInv, IsFiniteSet(DOMAIN tree), NodesAreWays, IsFunction,
           NEW p \in DOMAIN tree, tree[p].bounds # NoBounds, NEW next
    PROVE  Settled(p, next) <=>
               /\ body[p].bounds.counted
               /\ \A v \in body[p].bounds.values :
                      /\ Append(p, v) \in DOMAIN tree
                      /\ Append(p, v) # next => tree[Append(p, v)].exhausted
<1> PICK bounds : bounds = body[p].bounds
  OBVIOUS
<1> DEFINE values == bounds.values
           kids == {Append(p, v) : v \in values}
           child == [v \in values |-> Append(p, v)]
<1>1. p \in DOMAIN body /\ p \in Seq(Values)
  BY Ways DEF NodesAreWays
<1>2. tree[p].bounds = bounds
  BY DEF IInv, NodesAreMoves
<1>3. \A v \in values : Append(p, v) \in DOMAIN body /\ v \in Values
  BY <1>1, Ways
<1>4. \A v \in values : Len(Append(p, v)) = Len(p) + 1 /\ Leads(p, Append(p, v))
  BY <1>1, <1>3 DEF Leads
<1>5. Children(p) = kids \cap DOMAIN tree
  <2>1. ASSUME NEW q \in DOMAIN tree, Len(q) = Len(p) + 1, Leads(p, q)
        PROVE  q \in kids
    <3>1. q \in DOMAIN body /\ q \in Seq(Values)
      BY Ways DEF NodesAreWays
    <3>2. Len(p) \in 0..(Len(q) - 1) /\ SubSeq(q, 1, Len(p)) = p
      BY <1>1, <2>1, <3>1 DEF Leads
    <3>3. q[Len(p) + 1] \in values
      BY <3>1, <3>2, Ways
    <3>4. Append(p, q[Len(p) + 1]) = q
      <4>1. SubSeq(q, 1, Len(q)) = q
        BY <3>1, Beginnings
      <4> QED BY <2>1, <3>1, <3>2, <4>1, NextOnWay
    <3> QED BY <3>3, <3>4
  <2>2. Children(p) \subseteq kids
    BY <2>1 DEF Children
  <2>3. kids \cap DOMAIN tree \subseteq Children(p)
    BY <1>4 DEF Children
  <2> QED BY <2>2, <2>3 DEF Children
<1>6. IsFiniteSet(Children(p)) /\ Cardinality(Children(p)) \in Nat
  BY <1>5, FS_Intersection, FS_CardinalityType
<1>7. ASSUME bounds.counted
      PROVE  IsFiniteSet(kids) /\ Cardinality(kids) = Cardinality(values)
  <2>1. IsFiniteSet(values)
    BY <1>1, <1>7, Ways
  <2>2. child \in Bijection(values, kids)
    <3>1. \A v, w \in values : child[v] = child[w] => v = w
      <4>1. \A v \in values : Append(p, v)[Len(p) + 1] = v
        BY <1>1, <1>3
      <4> QED BY <4>1
    <3>2. child \in [values -> kids] /\ \A q \in kids : \E v \in values : child[v] = q
      OBVIOUS
    <3> QED BY <3>1, <3>2 DEF Bijection, Injection, Surjection, IsInjective
  <2>3. ExistsBijection(values, kids)
    BY <2>2 DEF ExistsBijection
  <2> HIDE DEF values, kids
  <2> QED BY <2>1, <2>3, FS_Bijection
<1>8. Size(bounds) = Cardinality(Children(p)) <=>
          bounds.counted /\ \A v \in values : Append(p, v) \in DOMAIN tree
  <2>1. CASE ~bounds.counted
    <3>1. Size(bounds) = -1
      BY <2>1 DEF Size
    <3> QED BY <1>6, <2>1, <3>1
  <2>2. CASE bounds.counted
    <3>1. Size(bounds) = Cardinality(kids)
      BY <1>7, <2>2 DEF Size
    <3>2. Cardinality(kids) = Cardinality(Children(p)) <=> kids = Children(p)
      <4>1. Children(p) \in SUBSET kids /\ IsFiniteSet(kids)
        BY <1>5, <1>7, <2>2
      <4> HIDE DEF kids
      <4> QED BY <4>1, FS_Subset
    <3>3. kids = Children(p) <=> \A v \in values : Append(p, v) \in DOMAIN tree
      BY <1>5
    <3> QED BY <2>2, <3>1, <3>2, <3>3
  <2> QED BY <2>1, <2>2
<1>9. ASSUME \A v \in values : Append(p, v) \in DOMAIN tree
      PROVE  (\A q \in Children(p) \ {next} : tree[q].exhausted) <=>
                 \A v \in values : Append(p, v) # next => tree[Append(p, v)].exhausted
  <2>1. Children(p) = kids
    BY <1>5, <1>9
  <2> QED BY <2>1
<1> QED BY <1>2, <1>8, <1>9 DEF Settled

\* The node above a leaf: it is exhausted when every way below it is tested,
\* now that the leaf is.
LEMMA AboveLeaf ==
    ASSUME IInv, XInv, IsFunction, EndAtLeaf, NEW k \in 0..(Len(path) - 1)
    PROVE  (\A j \in k..(Len(path) - 1) :
                Settled(SubSeq(path, 1, j), SubSeq(path, 1, j + 1)))
           <=> \A q \in Below(SubSeq(path, 1, k)) : Done(q) \/ q = path
<1> DEFINE before(j) == SubSeq(path, 1, j)
<1>1. /\ path \in DOMAIN tree /\ path \in DOMAIN body /\ path \in Seq(Values)
      /\ body[path].ending # NoEnding
  BY Ways DEF EndAtLeaf, Ends, Move, Endings, NoEnding, IInv, RepeatsTestedCases, CallOfSubject,
              Walking
<1>2. \A j \in 0..(Len(path) - 1) :
          /\ before(j) \in DOMAIN tree /\ tree[before(j)].bounds # NoBounds
          /\ before(j) \in DOMAIN body /\ body[before(j)].ending = NoEnding
          /\ path[j + 1] \in body[before(j)].bounds.values
          /\ before(j + 1) = Append(before(j), path[j + 1])
          /\ before(j) \in Seq(Values) /\ Len(before(j)) = j /\ Len(path) \in Nat
          /\ Leads(before(j), path)
  <2> SUFFICES ASSUME NEW j \in 0..(Len(path) - 1)
               PROVE  /\ before(j) \in DOMAIN tree /\ tree[before(j)].bounds # NoBounds
                      /\ before(j) \in DOMAIN body /\ body[before(j)].ending = NoEnding
                      /\ path[j + 1] \in body[before(j)].bounds.values
                      /\ before(j + 1) = Append(before(j), path[j + 1])
                      /\ before(j) \in Seq(Values) /\ Len(before(j)) = j /\ Len(path) \in Nat
                      /\ Leads(before(j), path)
    OBVIOUS
  <2>1. before(j) \in DOMAIN tree /\ tree[before(j)].bounds # NoBounds
    BY <1>1 DEF XInv, NodesAreWays
  <2>2. /\ before(j) \in DOMAIN body /\ body[before(j)].ending = NoEnding
        /\ path[j + 1] \in body[before(j)].bounds.values
    BY <1>1, Ways
  <2>3. /\ before(j + 1) = Append(before(j), path[j + 1])
        /\ before(j) \in Seq(Values) /\ Len(before(j)) = j /\ Len(path) \in Nat
        /\ Leads(before(j), path)
    BY <1>1, NextOnWay, Beginnings
  <2> QED BY <2>1, <2>2, <2>3
<1> DEFINE Full(j) ==
               /\ body[before(j)].bounds.counted
               /\ \A v \in body[before(j)].bounds.values :
                      /\ Append(before(j), v) \in DOMAIN tree
                      /\ v # path[j + 1] => tree[Append(before(j), v)].exhausted
<1>3. \A j \in 0..(Len(path) - 1) : Settled(before(j), before(j + 1)) <=> Full(j)
  <2> SUFFICES ASSUME NEW j \in 0..(Len(path) - 1)
               PROVE  Settled(before(j), before(j + 1)) <=> Full(j)
    OBVIOUS
  <2> PICK p : p = before(j)
    OBVIOUS
  <2>1. p \in DOMAIN tree /\ tree[p].bounds # NoBounds /\ p \in Seq(Values)
    BY <1>2
  <2>2. Settled(p, before(j + 1)) <=>
               /\ body[p].bounds.counted
               /\ \A v \in body[p].bounds.values :
                      /\ Append(p, v) \in DOMAIN tree
                      /\ Append(p, v) # before(j + 1) => tree[Append(p, v)].exhausted
    BY <2>1, SettledMeans DEF XInv, TreeFits
  <2>3. \A v \in body[p].bounds.values : Append(p, v) = before(j + 1) <=> v = path[j + 1]
    <3>1. \A v \in body[p].bounds.values : v \in Values
      BY <1>2, Ways
    <3>2. path[j + 1] \in Values /\ before(j + 1) = Append(p, path[j + 1])
      BY <1>2, <3>1
    <3> QED BY <2>1, <3>1, <3>2
  <2> QED BY <2>2, <2>3
<1>4. k \in Nat /\ Len(path) \in Nat /\ k < Len(path)
  BY <1>1
<1>5. ASSUME NEW j \in k..(Len(path) - 1), \A q \in Below(before(k)) : Done(q) \/ q = path
      PROVE  Full(j)
  <2>1. j \in 0..(Len(path) - 1) /\ Len(before(k)) = k /\ before(k) \in Seq(Values)
    BY <1>2, <1>4
  <2>2. Leads(before(k), before(j))
    BY <1>1, <1>4, <2>1, Beginnings DEF Leads
  <2>3. body[before(j)].bounds.counted
    <3>1. before(j) \in Below(before(k)) /\ before(j) # path
      BY <1>1, <1>2, <2>1, <2>2 DEF Below
    <3> QED BY <1>2, <1>5, <2>1, <3>1 DEF Done
  <2>4. ASSUME NEW v \in body[before(j)].bounds.values
        PROVE  /\ Append(before(j), v) \in DOMAIN tree
               /\ v # path[j + 1] => tree[Append(before(j), v)].exhausted
    <3> PICK q : q = Append(before(j), v)
      OBVIOUS
    <3>1. q \in DOMAIN body /\ q \in Seq(Values) /\ v \in Values
      BY <1>2, <2>1, Ways
    <3>2. Leads(before(j), q) /\ Len(q) = j + 1 /\ q[j + 1] = v
      BY <1>2, <2>1, <3>1 DEF Leads
    <3>3. \A r \in Below(q) : r \in Below(before(k))
      <4> SUFFICES ASSUME NEW r \in Below(q) PROVE r \in Below(before(k))
        OBVIOUS
      <4>1. r \in DOMAIN body /\ r \in Seq(Values) /\ Leads(q, r)
        BY Ways DEF Below
      <4>2. before(j) \in Seq(Values)
        BY <1>2, <2>1
      <4>3. Leads(before(k), q)
        BY <2>1, <2>2, <3>1, <3>2, <4>2, LeadsOn
      <4>4. Leads(before(k), r)
        BY <2>1, <3>1, <4>1, <4>3, LeadsOn
      <4> QED BY <4>1, <4>4 DEF Below
    <3>4. q \in DOMAIN tree
      <4> SUFFICES ASSUME q \notin DOMAIN tree PROVE FALSE
        OBVIOUS
      <4>1. PICK r \in Below(q) : ~Done(r)
        BY <3>1, NewIsNotDone DEF XInv
      <4>2. r = path
        BY <1>5, <3>3, <4>1
      <4>3. Leads(q, path) /\ q # path
        BY <1>1, <4>1, <4>2 DEF Below
      <4>4. Len(q) \in 0..(Len(path) - 1) /\ SubSeq(path, 1, Len(q)) = q
        <5>1. SubSeq(path, 1, Len(path)) = path /\ Len(path) \in Nat /\ Len(q) \in Nat
          BY <1>1, <3>1, Beginnings
        <5>2. Len(q) <= Len(path) /\ SubSeq(path, 1, Len(q)) = q
          BY <4>3 DEF Leads
        <5>3. Len(q) # Len(path)
          BY <4>3, <5>1, <5>2
        <5>4. \A m, n \in Nat : m <= n /\ m # n => m \in 0..(n - 1)
          OBVIOUS
        <5> QED BY <5>1, <5>2, <5>3, <5>4, Zenon
      <4> QED BY <1>2, <4>4
    <3>5. ASSUME v # path[j + 1] PROVE tree[q].exhausted
      <4>1. ~Leads(q, path)
        <5> SUFFICES ASSUME Leads(q, path) PROVE FALSE
          OBVIOUS
        <5>1. Len(q) \in 0..Len(path) /\ SubSeq(path, 1, Len(q)) = q /\ j + 1 \in 1..Len(q)
          BY <1>1, <2>1, <3>1, <3>2 DEF Leads
        <5>2. q[j + 1] = path[j + 1]
          BY <1>1, <5>1, Beginnings
        <5> QED BY <3>2, <3>5, <5>2
      <4>2. \A r \in Below(q) : Done(r)
        BY <1>5, <3>3, <4>1 DEF Below
      <4> QED BY <3>4, <4>2 DEF XInv, ExhaustedIsTested, Done
    <3> QED BY <3>4, <3>5
  <2> QED BY <2>3, <2>4
<1>6. ASSUME \A j \in k..(Len(path) - 1) : Full(j), NEW q \in Below(before(k)), q # path
      PROVE  Done(q)
  <2>1. q \in DOMAIN body /\ q \in Seq(Values) /\ Leads(before(k), q)
    BY Ways DEF Below
  <2>2. ~Leads(path, q)
    BY <1>1, <1>6, <2>1, EndsAreLast
  <2>3. CASE Leads(q, path)
    <3>1. Len(q) \in k..(Len(path) - 1) /\ q = before(Len(q))
      <4>1. SubSeq(path, 1, Len(path)) = path
        BY <1>1, Beginnings
      <4>2. Len(before(k)) = k
        BY <1>2
      <4> QED BY <1>1, <1>4, <1>6, <2>1, <2>3, <4>1, <4>2 DEF Leads
    <3>2. Len(q) \in 0..(Len(path) - 1)
      BY <1>4, <3>1
    <3> QED BY <1>2, <1>6, <3>1, <3>2 DEF Done
  <2>4. CASE ~Leads(q, path)
    <3>1. Len(before(k)) = k /\ k <= Len(q) /\ SubSeq(q, 1, k) = SubSeq(path, 1, k)
      BY <1>2, <2>1 DEF Leads
    <3>2. PICK j \in Nat : /\ k <= j /\ j < Len(q) /\ j < Len(path)
                           /\ SubSeq(q, 1, j) = SubSeq(path, 1, j) /\ q[j + 1] # path[j + 1]
      BY <1>1, <1>4, <2>1, <2>2, <2>4, <3>1, WaysPart
    <3>3. j \in k..(Len(path) - 1) /\ j \in 0..(Len(q) - 1) /\ j \in 0..(Len(path) - 1)
      BY <1>4, <2>1, <3>2
    <3>4. q[j + 1] \in body[before(j)].bounds.values
      BY <2>1, <3>2, <3>3, Ways
    <3> PICK r : r = Append(before(j), q[j + 1])
      OBVIOUS
    <3>5. r \in DOMAIN tree /\ tree[r].exhausted
      BY <1>6, <3>2, <3>3, <3>4
    <3>6. r = SubSeq(q, 1, j + 1) /\ Leads(r, q)
      <4>1. r = Append(SubSeq(q, 1, j), q[j + 1]) /\ q \in Seq(Values)
        BY <2>1, <3>2
      <4>2. r = SubSeq(q, 1, j + 1) /\ j + 1 \in 0..Len(q)
        BY <3>3, <4>1, NextOnWay
      <4> QED BY <4>1, <4>2, Beginnings
    <3> QED BY <2>1, <3>5, <3>6 DEF XInv, ExhaustedIsTested, Below, Done
  <2> QED BY <2>3, <2>4
<1>7. (\A j \in k..(Len(path) - 1) : Settled(before(j), before(j + 1)))
      <=> \A j \in k..(Len(path) - 1) : Full(j)
  <2>1. \A j \in k..(Len(path) - 1) : j \in 0..(Len(path) - 1)
    BY <1>4
  <2> QED BY <1>3, <2>1
<1> HIDE DEF Full
<1> QED BY <1>5, <1>6, <1>7

\* A case that ends at a leaf settles the nodes above it, so that the leaf and
\* each node that settles as exhausted have only tested cases below them.
LEMMA LeafXInv ==
    ASSUME IInv, XInv, EndAtLeaf
    PROVE  NodesAreWays' /\ ExhaustedIsTested'
<1>1. /\ UNCHANGED <<subject, body>> /\ tested' = tested \cup {path}
      /\ DOMAIN tree' = DOMAIN tree
      /\ \A q \in DOMAIN tree :
             /\ tree'[q].bounds = tree[q].bounds
             /\ tree'[q].exhausted = (q = path \/ SettledAbove(path)[q])
  BY DEF EndAtLeaf, Settle
<1>2. IsFunction' = IsFunction
  BY <1>1 DEF IsFunction
<1>3. NodesAreWays'
  BY <1>1, <1>2 DEF XInv, NodesAreWays
<1>4. /\ path \in DOMAIN tree /\ path \in DOMAIN body /\ path \in Seq(Values)
      /\ body[path].ending # NoEnding
  BY Ways DEF EndAtLeaf, Ends, Move, Endings, NoEnding, IInv, RepeatsTestedCases, CallOfSubject,
              Walking
<1>5. \A q \in DOMAIN body : Done(q)' <=> Done(q) \/ q = path
  BY <1>1, <1>4 DEF Done
<1>6. \A p \in DOMAIN tree : Below(p)' = Below(p)
  BY <1>1 DEF Below
<1>7. ASSUME IsFunction, NEW p \in DOMAIN tree
      PROVE  tree'[p].exhausted <=> \A q \in Below(p) : Done(q) \/ q = path
  <2>1. p \in DOMAIN body /\ p \in Seq(Values)
    BY <1>7, Ways DEF XInv, NodesAreWays
  <2>2. CASE p = path
    <3>1. \A q \in Below(p) : q = path
      BY <1>4, <2>2, EndsAreLast DEF Below
    <3> QED BY <1>1, <1>4, <2>2, <3>1
  <2>3. CASE ~Leads(p, path)
    <3>1. p # path
      BY <1>4, <2>3 DEF Leads
    <3>2. ~(Len(p) < Len(path) /\ p = SubSeq(path, 1, Len(p)))
      BY <1>4, <2>1, <2>3 DEF Leads
    <3>3. tree'[p].exhausted <=> tree[p].exhausted
      <4>1. SettledAbove(path)[p] = tree[p].exhausted
        BY <3>2 DEF SettledAbove
      <4> QED BY <1>1, <3>1, <4>1
    <3>4. path \notin Below(p)
      BY <2>3 DEF Below
    <3> QED BY <1>7, <3>3, <3>4 DEF XInv, ExhaustedIsTested, Done
  <2>4. CASE p # path /\ Leads(p, path)
    <3> PICK k : k = Len(p)
      OBVIOUS
    <3>1. k \in Nat /\ Len(path) \in Nat /\ k <= Len(path) /\ p = SubSeq(path, 1, k)
      BY <1>4, <2>1, <2>4 DEF Leads
    <3>2. k # Len(path)
      <4>1. SubSeq(path, 1, Len(path)) = path
        BY <1>4, Beginnings
      <4> QED BY <2>4, <3>1, <4>1
    <3>3. k \in 0..(Len(path) - 1) /\ Len(p) < Len(path)
      BY <3>1, <3>2
    <3>4. SettledAbove(path)[p] <=>
              \A j \in k..(Len(path) - 1) : Settled(SubSeq(path, 1, j), SubSeq(path, 1, j + 1))
      BY <3>1, <3>3 DEF SettledAbove
    <3> QED BY <1>1, <1>7, <2>4, <3>1, <3>3, <3>4, AboveLeaf
  <2> QED BY <2>2, <2>3, <2>4
<1>8. ExhaustedIsTested'
  <2> SUFFICES ASSUME IsFunction, NEW p \in DOMAIN tree
               PROVE  tree'[p].exhausted <=> \A q \in Below(p) : Done(q)'
    BY <1>1, <1>2, <1>6 DEF ExhaustedIsTested, Done
  <2>1. \A q \in Below(p) : Done(q)' <=> Done(q) \/ q = path
    BY <1>5 DEF Below
  <2> QED BY <1>7, <2>1
<1> QED BY <1>3, <1>8

\* Every step of a call keeps the invariant, and an exhausted tree stays so.
LEMMA NextXInv == IInv /\ XInv /\ [TreeNext]_treeVars => XInv' /\ (Exhausted => Exhausted')
<1> SUFFICES ASSUME IInv, XInv, [TreeNext]_treeVars PROVE XInv' /\ (Exhausted => Exhausted')
  OBVIOUS
<1> USE DEF XInv
<1>1. TreeFits' /\ (Exhausted => Exhausted')
  BY TreeFitsNext
<1>2. NodesAreWays' /\ ExhaustedIsTested'
  <2>1. ASSUME NEW walks \in BOOLEAN, Start(walks)
        PROVE  NodesAreWays' /\ ExhaustedIsTested'
    <3>1. UNCHANGED <<subject, tree, tested>> /\ body' \in subject
      BY <2>1 DEF Start
    <3>2. IsFunction' = IsFunction /\ (IsFunction => body' = body)
      BY <3>1 DEF IsFunction, IInv, CallOfSubject
    <3> QED BY <3>1, <3>2, UnsettledXInv
  <2>2. ASSUME UNCHANGED <<subject, tree, body, tested>>
        PROVE  NodesAreWays' /\ ExhaustedIsTested'
    <3>1. IsFunction' = IsFunction
      BY <2>2 DEF IsFunction
    <3> QED BY <2>2, <3>1, UnsettledXInv
  <2>3. ASSUME NEW value, Repeat(value) \/ Follow(value) \/ Leave(value)
        PROVE  NodesAreWays' /\ ExhaustedIsTested'
    <3>1. Agreed(value) /\ tree' = Recorded /\ UNCHANGED <<subject, body, tested>>
      BY <2>3 DEF Repeat, Follow, Leave, Agreed, Take
    <3>2. IsFunction' = IsFunction
      BY <3>1 DEF IsFunction
    <3>3. /\ DOMAIN tree' = DOMAIN tree
          /\ \A q \in DOMAIN tree : /\ tree'[q].exhausted = tree[q].exhausted
                                    /\ tree[q].bounds # NoBounds => tree'[q].bounds # NoBounds
      BY <3>1, RecordedNode
    <3> QED BY <3>1, <3>2, <3>3, UnsettledXInv
  <2>4. ASSUME NEW value, Choose(value) \/ State(value)
        PROVE  NodesAreWays' /\ ExhaustedIsTested'
    <3>1. CASE Unchecked(value) \/ OtherRequest(value) \/ State(value)
      BY <2>2, <3>1 DEF Unchecked, OtherRequest, State, Take
    <3>2. CASE Repeat(value) \/ Follow(value) \/ Leave(value)
      BY <2>3, <3>2
    <3>3. CASE Grow(value)
      BY <3>3, GrowXInv
    <3>4. \/ Unchecked(value) \/ OtherRequest(value) \/ Repeat(value) \/ Follow(value)
          \/ Grow(value) \/ Leave(value) \/ State(value)
      BY <2>4, Zenon DEF Choose
    <3> QED BY <3>1, <3>2, <3>3, <3>4, Zenon
  <2>5. CASE Rewind \/ Overrun \/ Skip \/ EndUnchecked \/ EndAtRequest \/ UNCHANGED treeVars
    BY <2>2, <2>5 DEF Rewind, Overrun, Skip, EndUnchecked, EndAtRequest, treeVars
  <2>6. CASE EndAtLeaf
    BY <2>6, LeafXInv
  <2>7. \/ \E walks \in BOOLEAN : Start(walks)
        \/ \E value : Choose(value) \/ State(value)
        \/ Rewind \/ Overrun \/ Skip \/ EndUnchecked \/ EndAtRequest \/ UNCHANGED treeVars
        \/ EndAtLeaf
    BY Zenon DEF TreeNext, Finish
  <2> QED BY <2>1, <2>4, <2>5, <2>6, <2>7, Zenon
<1> QED BY <1>1, <1>2

\* The tree keeps its limit of nodes, and no walk is open in one that is
\* exhausted.
THEOREM TreeStaysWithinLimit == TreeSpec => []TreeFits
<1>1. TreeInit => IInv /\ XInv
  BY InitIInv, InitXInv
<1>2. IInv /\ XInv /\ [TreeNext]_treeVars => (IInv /\ XInv)'
  BY NextIInv, NextXInv
<1>3. XInv => TreeFits
  BY DEF XInv
<1> QED BY <1>1, <1>2, <1>3, PTL DEF TreeSpec

\* A node of a function's tree is exhausted when every way below it is tested,
\* and only then, for every body, limit and cap: a run of it stops neither
\* before it has tried every input nor after.
THEOREM ExhaustedMeansTested == TreeSpec => []ExhaustedIsTested
<1>1. TreeInit => IInv /\ XInv
  BY InitIInv, InitXInv
<1>2. IInv /\ XInv /\ [TreeNext]_treeVars => (IInv /\ XInv)'
  BY NextIInv, NextXInv
<1>3. XInv => ExhaustedIsTested
  BY DEF XInv
<1> QED BY <1>1, <1>2, <1>3, PTL DEF TreeSpec

---------------------------------------------------------------------------
(* The inductive invariant of a run.                                       *)

\* The stages whose cases the run counts.
Counting == {"known", "simplest", "random", "prefix", "edge", "rest", "token"}

\* A body runs only in a call of the run, and each call is one of its stage.
CallsOfStages ==
    /\ Running => phase # NoPhase
    /\ phase = "confirm" => stage = "confirm"
    /\ phase = "replay" => stage = "replays"
    /\ phase \notin {NoPhase, "confirm", "replay"} => stage \in Counting

\* Known cases run outside the tree, and so do their confirming replays.
KnownAreOutside ==
    stage = "known" \/ (stage = "confirm" /\ resume = "known") =>
        /\ ~tree[<<>>].exhausted
        /\ Running => off

SettingsOfRun == settings \in Runs /\ given \in Nat

RInv == CallsOfStages /\ KnownAreOutside /\ SettingsOfRun

\* A run starts between two calls.
LEMMA InitRInv == RunnerInit => RInv
  BY DEF RunnerInit, TreeInit, RInv, CallsOfStages, KnownAreOutside, SettingsOfRun, Running, Node,
         NoPhase

\* A step of a body outside the tree leaves the tree alone and stays outside.
LEMMA WorkOutside ==
    ASSUME Work, off
    PROVE  tree' = tree /\ off' = off
  BY DEF Work, State, Choose, Unchecked, OtherRequest, Repeat, Follow, Grow, Leave, Agreed,
         Rewind, Overrun, Finish, Skip, EndUnchecked, EndAtRequest, EndAtLeaf

\* The steps of a call leave the run alone, and a call outside the tree there.
LEMMA WorkRInv == RInv /\ Work => RInv'
<1> SUFFICES ASSUME RInv, Work PROVE RInv'
  OBVIOUS
<1>1. UNCHANGED runVars /\ Running /\ phase # NoPhase
  BY DEF Work
<1>2. off => tree' = tree /\ off' = off
  BY WorkOutside
<1> QED BY <1>1, <1>2 DEF RInv, CallsOfStages, KnownAreOutside, SettingsOfRun, runVars

\* A call starts in a phase that fits its stage, outside the tree when known.
LEMMA CallRInv ==
    ASSUME RInv, phase = NoPhase, NEW walks \in BOOLEAN, Start(walks),
           settings' = settings, given' \in Nat, resume' = resume,
           \/ phase' = "confirm" /\ stage' = "confirm" /\ stage = "confirm" /\ ~walks
           \/ phase' = "replay" /\ stage' = "replays"
           \/ /\ phase' \notin {NoPhase, "confirm", "replay"}
              /\ stage' \in Counting
              /\ stage' = "known" => stage = "known" /\ ~walks
    PROVE  RInv'
  BY DEF RInv, CallsOfStages, KnownAreOutside, SettingsOfRun, Start, Running, NoPhase, Counting

\* The run goes on, or ends, at a stage that no call has.
LEMMA StageRInv ==
    ASSUME RInv, ~Running, UNCHANGED treeVars,
           phase' = NoPhase, settings' = settings, given' \in Nat,
           \/ (stage' # "known" /\ ~(stage' = "confirm" /\ resume' = "known"))
           \/ stage = "known"
           \/ stage = "confirm" /\ resume = "known"
    PROVE  RInv'
  BY DEF RInv, CallsOfStages, KnownAreOutside, SettingsOfRun, treeVars, Running, NoPhase

\* What the run goes on with after a counted call, which has its stage.
LEMMA AfterStages ==
    ASSUME stage \in Counting
    PROVE  After(stage) = "known" <=> stage = "known"
  BY DEF Counting, After

\* Every call starts in a phase of its stage.
LEMMA CallsRInv ==
    RInv /\ (CallKnown \/ CallSimplest \/ CallToken \/ CallRandom \/ CallPrefix \/ CallEdge
             \/ CallConfirm \/ CallReplay)
    => RInv'
<1> SUFFICES ASSUME RInv,
                    CallKnown \/ CallSimplest \/ CallToken \/ CallRandom \/ CallPrefix
                    \/ CallEdge \/ CallConfirm \/ CallReplay
             PROVE  RInv'
  OBVIOUS
<1> USE DEF At, Call, Conclusion, Progress, Counting, NoPhase
<1>1. CASE CallKnown
  <2>1. Known[given + 1].phase \in {"example", "stored"} /\ given + 1 \in Nat
    BY <1>1, RunsAssumption DEF CallKnown, Known, RInv, SettingsOfRun
  <2> QED BY <1>1, <2>1, CallRInv DEF CallKnown
<1>2. CASE CallSimplest
  BY <1>2, CallRInv DEF CallSimplest, RInv, SettingsOfRun
<1>3. CASE CallToken
  BY <1>3, CallRInv DEF CallToken, RInv, SettingsOfRun
<1>4. CASE CallRandom
  BY <1>4, CallRInv DEF CallRandom, RInv, SettingsOfRun
<1>5. CASE CallPrefix
  BY <1>5, CallRInv DEF CallPrefix, RInv, SettingsOfRun
<1>6. CASE CallEdge
  BY <1>6, CallRInv DEF CallEdge, RInv, SettingsOfRun
<1>7. CASE CallConfirm
  BY <1>7, CallRInv DEF CallConfirm, RInv, SettingsOfRun
<1>8. CASE CallReplay
  BY <1>8, CallRInv DEF CallReplay, RInv, SettingsOfRun
<1> QED BY <1>1, <1>2, <1>3, <1>4, <1>5, <1>6, <1>7, <1>8

\* A call that is taken leaves no phase and a stage that may follow.
LEMMA TakesRInv ==
    RInv /\ (TakeFailing \/ TakeEnding \/ TakeOther \/ TakeConfirm \/ TakeReplay) => RInv'
<1> SUFFICES ASSUME RInv,
                    TakeFailing \/ TakeEnding \/ TakeOther \/ TakeConfirm \/ TakeReplay
             PROVE  RInv'
  OBVIOUS
<1> USE DEF Returned, Counted, Return
<1>1. given \in Nat
  BY DEF RInv, SettingsOfRun
<1>2. CASE TakeFailing
  BY <1>1, <1>2, StageRInv DEF TakeFailing
<1>3. CASE TakeEnding
  BY <1>1, <1>3, StageRInv DEF TakeEnding, EndAs
<1>4. CASE TakeOther
  <2>1. After(stage) = "known" <=> stage = "known"
    BY <1>4, AfterStages DEF TakeOther, RInv, CallsOfStages
  <2>2. (stage' = "confirm" /\ resume' = After(stage)) \/ stage' = After(stage)
    BY <1>4 DEF TakeOther
  <2>3. stage \in Counting
    BY <1>4 DEF TakeOther, RInv, CallsOfStages
  <2>4. After(stage) # "confirm"
    BY <2>3 DEF After, Counting
  <2> QED BY <1>1, <1>4, <2>1, <2>2, <2>4, StageRInv DEF TakeOther
<1>5. CASE TakeConfirm
  <2>1. stage = "confirm" /\ resume' = "none" /\ stage' \in {resume, "over"}
    BY <1>5 DEF TakeConfirm, RInv, CallsOfStages, EndAs
  <2> QED BY <1>1, <1>5, <2>1, StageRInv DEF TakeConfirm
<1>6. CASE TakeReplay
  <2>1. stage = "replays" /\ UNCHANGED <<treeVars, settings, stage, given, resume>>
    BY <1>6 DEF TakeReplay, RInv, CallsOfStages, Progress
  <2> QED BY <1>1, <1>6, <2>1, StageRInv DEF TakeReplay
<1> QED BY <1>2, <1>3, <1>4, <1>5, <1>6

\* What a run does between two calls starts no call.
LEMMA ConclusionsRInv ==
    RInv /\ (RaiseTraceError \/ StopRandom \/ SkipPrefix \/ SkipEdge \/ StopEdges
             \/ ConcludeReplays \/ ConcludeWithout \/ ConcludePassed \/ Decide \/ NextCheck)
    => RInv'
<1> SUFFICES ASSUME RInv,
                    RaiseTraceError \/ StopRandom \/ SkipPrefix \/ SkipEdge \/ StopEdges
                    \/ ConcludeReplays \/ ConcludeWithout \/ ConcludePassed \/ Decide \/ NextCheck
             PROVE  RInv'
  OBVIOUS
<1>1. phase = NoPhase /\ ~Running /\ given \in Nat
  BY DEF RaiseTraceError, StopRandom, SkipPrefix, SkipEdge, StopEdges, ConcludeReplays,
         ConcludeWithout, ConcludePassed, Decide, NextCheck, At, RInv, CallsOfStages, SettingsOfRun
<1>2. UNCHANGED <<treeVars, settings, phase, given>>
  BY DEF RaiseTraceError, StopRandom, SkipPrefix, SkipEdge, StopEdges, ConcludeReplays,
         ConcludeWithout, ConcludePassed, Decide, NextCheck, GoTo, Conclude, Progress
<1>3. stage' \in {"rest", "edge", "random", "check", "over"}
  BY DEF RaiseTraceError, StopRandom, SkipPrefix, SkipEdge, StopEdges, ConcludeReplays,
         ConcludeWithout, ConcludePassed, Decide, NextCheck, GoTo, Conclude, EndAs
<1> QED BY <1>1, <1>2, <1>3, StageRInv

\* Every step of a run keeps the invariant of its calls.
LEMMA NextRInv == RInv /\ [RunnerNext]_vars => RInv'
<1>1. RInv /\ UNCHANGED vars => RInv'
  BY DEF RInv, CallsOfStages, KnownAreOutside, SettingsOfRun, Running, vars, treeVars, runVars
<1> QED BY <1>1, WorkRInv, CallsRInv, TakesRInv, ConclusionsRInv DEF RunnerNext

---------------------------------------------------------------------------
(* Every step of a run is a step of the tree or leaves it alone.           *)

\* A call that starts is a step of the tree.
LEMMA StartIsTree ==
    ASSUME RInv, phase = NoPhase, NEW walks \in BOOLEAN, walks => ~Exhausted, Start(walks)
    PROVE  TreeNext
  BY DEF TreeNext, RInv, CallsOfStages

\* The steps of a call are steps of the tree.
LEMMA WorkIsTree == Work => TreeNext
<1> SUFFICES ASSUME Work PROVE TreeNext
  OBVIOUS
<1>1. CASE \E value : State(value)
  BY <1>1 DEF TreeNext, State
<1>2. CASE \E value : Choose(value)
  BY <1>2 DEF TreeNext, Choose, Unchecked, OtherRequest, Repeat, Follow, Grow, Leave, Agreed, Take
<1>3. CASE Rewind \/ Overrun \/ Finish
  BY <1>3 DEF TreeNext
<1> QED BY <1>1, <1>2, <1>3 DEF Work

\* Every way a run starts a call is a step of the tree, since a run that draws
\* cases starts them only while the tree is not exhausted.
LEMMA CallsAreTree ==
    RInv /\ (CallKnown \/ CallSimplest \/ CallToken \/ CallRandom \/ CallPrefix \/ CallEdge
             \/ CallConfirm \/ CallReplay)
    => TreeNext
<1> SUFFICES ASSUME RInv,
                    CallKnown \/ CallSimplest \/ CallToken \/ CallRandom \/ CallPrefix
                    \/ CallEdge \/ CallConfirm \/ CallReplay
             PROVE  TreeNext
  OBVIOUS
<1>1. CASE CallKnown \/ CallToken \/ CallConfirm \/ CallReplay
  BY <1>1, StartIsTree DEF CallKnown, CallToken, CallConfirm, CallReplay, At, Call
<1>2. CASE CallSimplest
  BY <1>2, StartIsTree DEF CallSimplest, At, RInv, KnownAreOutside, Exhausted
<1>3. CASE CallRandom \/ CallPrefix \/ CallEdge
  BY <1>3, StartIsTree
  DEF CallRandom, CallPrefix, CallEdge, At, Call, GoesOn, Prefixed, HasEdge
<1> QED BY <1>1, <1>2, <1>3

\* All the other steps of a run leave the tree alone.
LEMMA OthersLeaveTree ==
    ASSUME \/ TakeFailing \/ TakeEnding \/ TakeOther \/ TakeConfirm \/ TakeReplay
           \/ RaiseTraceError \/ StopRandom \/ SkipPrefix \/ SkipEdge \/ StopEdges
           \/ ConcludeReplays \/ ConcludeWithout \/ ConcludePassed \/ Decide \/ NextCheck
    PROVE  UNCHANGED treeVars
  BY DEF TakeFailing, TakeEnding, TakeOther, TakeConfirm, TakeReplay, Return,
         RaiseTraceError, StopRandom, SkipPrefix, SkipEdge, StopEdges, ConcludeReplays,
         ConcludeWithout, ConcludePassed, Decide, NextCheck, GoTo, Conclude

\* So every step of a run is a step of the tree or leaves it alone.
LEMMA NextIsTree == RInv /\ [RunnerNext]_vars => [TreeNext]_treeVars
<1>1. UNCHANGED vars => UNCHANGED treeVars
  BY DEF vars
<1> QED BY <1>1, WorkIsTree, CallsAreTree, OthersLeaveTree DEF RunnerNext

\* Every run starts a case in the tree only while the tree is not exhausted,
\* and only between calls: runner.py keeps what tree.py relies on.
THEOREM RunsWalkTheTree == RunnerSpec => WalksTheTree
<1>1. RunnerInit => RInv /\ TreeInit
  BY InitRInv DEF RunnerInit
<1> QED BY <1>1, NextRInv, NextIsTree, PTL DEF RunnerSpec, TreeSpec, WalksTheTree

\* So no run counts one walk of choices twice among the cases of its tree.
THEOREM RunsCountOnce == RunnerSpec => NoWalkCountsTwice
  BY RunsWalkTheTree, CountedOnce, PTL DEF WalksTheTree

\* No node of a run's tree is exhausted before every way below it is tested.
THEOREM RunsExhaustWhatIsTested == RunnerSpec => []ExhaustedIsTested
  BY RunsWalkTheTree, ExhaustedMeansTested, PTL DEF WalksTheTree

\* And no walk of a run finds a function of its choices to diverge.
THEOREM RunsNeverDiverge == RunnerSpec => []FunctionNeverDiverges
  BY RunsWalkTheTree, NeverDiverges, PTL DEF WalksTheTree
---------------------------------------------------------------------------
(* What a run reports, and what its replays find.                          *)
(*                                                                         *)
(* The invariant follows a call from its start: its requests are those of  *)
(* its record, whatever was removed from it, and a replay of a function's  *)
(* case is on the way of that case's record, so that it ends as the case   *)
(* ended.  The counts follow the run from one stage to the next.           *)

AllBounds == UNION {{b[p].bounds : p \in DOMAIN b} : b \in UNION Subjects}

AllValues == UNION {bounds.values : bounds \in AllBounds}

\* The values and the requests of the call: it keeps at most as many as it may
\* make, what is removed is at the end of its record, and the choices that are
\* kept are those of a call that makes only them.
PathOfCall ==
    /\ path \in Seq(AllValues) /\ record \in Seq(AllValues) /\ requests \in Seq(AllBounds)
    /\ cost \in Nat /\ Len(requests) <= cost /\ cost <= MaxChoices
    /\ Running => Leads(Move.kept, record)
    /\ provider.kind # "values" =>
           /\ Len(record) = Len(requests)
           /\ IsReplayed => \A k \in 1..Len(record) :
                  /\ requests[k] = body[SubSeq(record, 1, k - 1)].bounds
                  /\ record[k] \in requests[k].values

\* The call ends as its body ends.
StatusOfCall ==
    /\ status \in Statuses \cup {"idle", "running"}
    /\ phase # NoPhase => status # "idle"
    /\ status \in {"passed", "failed"} =>
           path \in DOMAIN body /\ Move.ending = status /\ record = Move.kept

\* The counts of the run, at each stage.
CountsOfStage ==
    /\ valid \in Nat /\ rejected \in Nat /\ requested \in BOOLEAN
    /\ position \in DOMAIN Checks
    /\ index \in Nat /\ index <= GenerationFactor * Aim
    /\ replays \in 0..settings.replays /\ reproduced \in 0..replays
    /\ phase = "replay" => replays < settings.replays
    /\ stage \notin {"replays", "over"} => replays = 0

\* A case was tested only if it was counted, or is about to be.
TestedIsCounted ==
    outcome = NoOutcome =>
        /\ tested # {} => \/ valid + rejected > 0
                          \/ phase \notin {NoPhase, "confirm", "replay"} /\ status \in Endings
        /\ stage \notin {"known", "simplest", "token"} => valid + rejected > 0

\* The random cases and the edge cases of a check have run to their end.
StagesDone ==
    /\ stage \in {"rest", "check"} \/ (stage = "confirm" /\ resume = "rest") =>
           valid >= Aim \/ Exhausted \/ index = GenerationFactor * Aim
    /\ stage = "check" => edges = <<>> \/ Exhausted
    /\ stage \in {"token", "token end"} \/ (stage = "confirm" /\ resume = "token end") =>
           settings.replay # {}

\* What was seen before the run ends.
SeenSoFar ==
    /\ outcome = NoOutcome =>
           ~Failed /\ \A call \in Cases : call[2] \in {"passed", "rejected", "repeated"}
    /\ stage = "replays" =>
           /\ \E call \in Cases : call[2] = "failed"
           /\ \A call \in Cases : call[2] # "skipped"
           /\ reproduced > 0 => <<"replay", "failed">> \in seen
           /\ failing.identity # "none"
    /\ stage = "confirm" => failing.identity = "none"

StagesOfRun ==
    /\ stage \in Counting \cup {"confirm", "replays", "check", "token end", "over"}
    /\ stage = "confirm" => resume \in {"known", "random", "prefix", "edge", "rest", "token end"}
    /\ phase \in Phases \cup {NoPhase}
    /\ outcome \in Kinds \cup {NoOutcome}
    /\ outcome # NoOutcome <=> stage \in {"over", "replays"}
    /\ stage = "replays" => outcome = "counterexample"
    /\ seen \subseteq Phases \X Statuses
    /\ phase \in {"confirm", "replay"} /\ Running => off

\* The case that is replayed: the choices that its record kept, and how it ended.
FailingIsCase ==
    stage \in {"confirm", "replays"} /\ IsFunction /\ IsReplayed =>
        /\ failing.choices \in Seq(AllValues) /\ failing.requests \in Seq(AllBounds)
        /\ Len(failing.choices) = Len(failing.requests)
        /\ Len(failing.choices) <= MaxChoices
        /\ \A k \in 1..Len(failing.choices) :
               /\ failing.requests[k] = body[SubSeq(failing.choices, 1, k - 1)].bounds
               /\ failing.choices[k] \in failing.requests[k].values
        /\ failing.choices \in DOMAIN body
        /\ \A k \in 0..Len(failing.choices) :
               body[SubSeq(failing.choices, 1, k)].kept = SubSeq(failing.choices, 1, k)
        /\ body[failing.choices].ending = IF stage = "confirm" THEN "passed" ELSE "failed"
        /\ failing.identity =
               IF stage = "confirm" THEN "none" ELSE body[failing.choices].identity

\* A replay of a function's case is on the way of its record, removes nothing,
\* and ends as the case ended.
ReplayIsOnWay ==
    phase \in {"confirm", "replay"} /\ IsFunction /\ IsReplayed =>
        /\ provider = Replaying(failing.choices)
        /\ Len(path) <= Len(failing.choices)
        /\ path = SubSeq(failing.choices, 1, Len(path))
        /\ record = path /\ cost = Len(path)
        /\ Running \/ (path = failing.choices /\ status = body[path].ending)

\* No replay of a function's failure differs from it.
ReplaysReproduce ==
    stage = "replays" /\ IsFunction /\ IsReplayed => reproduced = replays

OutInv ==
    /\ PathOfCall /\ StatusOfCall /\ CountsOfStage /\ TestedIsCounted
    /\ StagesDone /\ SeenSoFar /\ StagesOfRun
    /\ FailingIsCase /\ ReplayIsOnWay /\ ReplaysReproduce
    /\ FunctionIsNeverFlaky
    /\ stage = "over" => Reports
---------------------------------------------------------------------------
\* A run starts with nothing counted, nothing seen and no outcome.
LEMMA InitOutInv == RunnerInit => OutInv
<1> SUFFICES ASSUME RunnerInit PROVE OutInv
  OBVIOUS
<1> USE DEF RunnerInit, TreeInit, NoPhase, NoOutcome
<1>3. PathOfCall /\ StatusOfCall
  <2>1. Len(requests) <= cost /\ cost <= MaxChoices /\ Len(record) = Len(requests)
    BY LimitsAssumption
  <2>2. ~Running /\ 1..Len(record) = {}
    BY DEF Running
  <2> QED BY <2>1, <2>2 DEF PathOfCall, StatusOfCall, Statuses
<1>4. CountsOfStage
  <2>1. settings \in Runs /\ settings.cases \in Nat /\ settings.replays \in Nat
    BY RunsAssumption
  <2>2. 1 \in DOMAIN Checks /\ Checks[1] \in Nat
    BY FactorsAssumption
  <2>3. Aim \in Nat
    BY <2>1, <2>2 DEF Aim
  <2>4. 0 <= GenerationFactor * Aim
    BY <2>3, FactorsAssumption
  <2>5. position = 1 /\ index = 0 /\ valid = 0 /\ rejected = 0 /\ requested = FALSE
    OBVIOUS
  <2>6. replays = 0 /\ reproduced = 0 /\ phase # "replay"
    OBVIOUS
  <2> HIDE DEF RunnerInit, TreeInit
  <2>7. replays \in 0..settings.replays /\ reproduced \in 0..replays
    BY <2>1, <2>6
  <2> QED BY <2>2, <2>4, <2>5, <2>6, <2>7 DEF CountsOfStage
<1>5. TestedIsCounted /\ StagesDone /\ SeenSoFar /\ StagesOfRun
  BY DEF TestedIsCounted, StagesDone, SeenSoFar, StagesOfRun, Failed, Cases, Counting
<1>6. FailingIsCase /\ ReplayIsOnWay /\ ReplaysReproduce /\ FunctionIsNeverFlaky
  BY DEF FailingIsCase, ReplayIsOnWay, ReplaysReproduce, FunctionIsNeverFlaky
<1> QED BY <1>3, <1>4, <1>5, <1>6 DEF OutInv

\* Paths of a call.
LEMMA PrefixesOf ==
    ASSUME NEW S, NEW s \in Seq(S), NEW v \in S
    PROVE  /\ Append(s, v) \in Seq(S) /\ Len(Append(s, v)) = Len(s) + 1 /\ Len(s) \in Nat
           /\ \A k \in 1..Len(s) : Append(s, v)[k] = s[k]
           /\ Append(s, v)[Len(s) + 1] = v
           /\ \A k \in 0..Len(s) : SubSeq(Append(s, v), 1, k) = SubSeq(s, 1, k)
           /\ SubSeq(s, 1, Len(s)) = s
  OBVIOUS

\* The beginning of a sequence and its next element are a longer beginning.
LEMMA PrefixGrows ==
    ASSUME NEW S, NEW s \in Seq(S), NEW k \in Nat, k < Len(s)
    PROVE  Append(SubSeq(s, 1, k), s[k + 1]) = SubSeq(s, 1, k + 1)
  OBVIOUS

\* The request of a call, and the values that it allows.
LEMMA MoveIsAsked ==
    ASSUME IInv, Requests
    PROVE  Move.bounds \in AllBounds /\ Move.bounds.values \subseteq AllValues
<1>1. body \in UNION Subjects /\ path \in DOMAIN body
  BY DEF IInv, CallOfSubject, Requests
<1>2. Move.bounds \in AllBounds
  BY <1>1 DEF AllBounds, Move
<1> QED BY <1>2 DEF AllValues

\* A step of the body, as the rest of the invariant sees it: a value is stated,
\* or taken for a request; choices are removed; or the call ends, as its body
\* ends or not.
Stated ==
    /\ requests' = requests /\ status' = status /\ cost' = cost
    /\ provider.kind = "values"
    /\ \E value \in AllValues :
           /\ path' = Append(path, value) /\ record' = Append(record, value)
           /\ body[Append(path, value)].kept = Append(record, value)

Chosen ==
    /\ ~States /\ Requests /\ cost < MaxChoices
    /\ status' \in {"running", "diverged", "repeated"}
    /\ off => status' = "running"
    /\ cost' = cost + 1
    /\ \E value \in Served :
           /\ value \in Move.bounds.values
           /\ path' = Append(path, value) /\ record' = Append(record, value)
           /\ requests' = Append(requests, Move.bounds)

Rewound ==
    /\ path' = path /\ status' = status /\ cost' = cost
    /\ record # Move.kept /\ record' = Move.kept
    /\ requests' = SubSeq(requests, 1, Len(requests) - (Len(record) - Len(Move.kept)))

Ended ==
    /\ requests' = requests /\ path' = path /\ record' = record /\ cost' = cost
    /\ \/ ~States /\ Requests /\ cost >= MaxChoices /\ status' = "rejected"
       \/ Move.ending = "skipped" /\ record = Move.kept /\ status' = "skipped"
       \/ Ends /\ status' = Move.ending
       \/ Ends /\ ~off /\ status' = "diverged"

\* A step of a call states, chooses, removes or ends, and only an end tests a case.
LEMMA WorkIs ==
    ASSUME IInv, RInv, Work
    PROVE  /\ UNCHANGED <<subject, body, limit>> /\ UNCHANGED runVars
           /\ Running /\ phase # NoPhase
           /\ tested' # tested => ~off /\ status' \in Endings
           /\ Stated \/ Chosen \/ Rewound \/ Ended
<1>1. UNCHANGED runVars /\ Running /\ phase # NoPhase
  BY DEF Work
<1> DEFINE Kept == UNCHANGED <<subject, body, limit>>
           Tests == tested' # tested => ~off /\ status' \in Endings
<1>2. CASE Requests /\ States /\ State(provider.values[Len(path) + 1])
  <2>1. PICK value : value = provider.values[Len(path) + 1]
    OBVIOUS
  <2>2. /\ UNCHANGED <<subject, body, limit, off, status, requests, cost, tested>>
        /\ provider.kind = "values"
        /\ path' = Append(path, value) /\ record' = Append(record, value)
        /\ body[Append(path, value)].kept = Append(record, value)
        /\ value \in Move.bounds.values
    BY <1>2, <2>1 DEF State, States
  <2>3. value \in AllValues
    BY <1>2, <2>2, MoveIsAsked
  <2>4. Kept /\ Tests /\ Stated
    BY <2>2, <2>3 DEF Stated
  <2> QED BY <1>1, <2>4
<1>3. CASE Requests /\ ~States /\ \E value \in Served : Choose(value)
  <2>1. PICK value \in Served : Choose(value)
    BY <1>3
  <2>2. /\ value \in Move.bounds.values /\ cost < MaxChoices /\ cost' = cost + 1
        /\ path' = Append(path, value) /\ record' = Append(record, value)
        /\ requests' = Append(requests, Move.bounds)
        /\ UNCHANGED <<subject, limit, body, tested>>
    BY <2>1 DEF Choose, Unchecked, OtherRequest, Repeat, Follow, Grow, Leave, Agreed, Take
  <2>3. /\ status' \in {"running", "diverged", "repeated"}
        /\ off => status' = "running"
    BY <2>1, <1>1
    DEF Choose, Unchecked, OtherRequest, Repeat, Follow, Grow, Leave, Agreed, Running
  <2>4. Kept /\ Tests /\ Chosen
    BY <1>3, <2>2, <2>3 DEF Chosen
  <2> QED BY <1>1, <2>4
<1>4. CASE ~States /\ Overrun
  <2>1. Kept /\ Tests /\ Ended
    BY <1>4 DEF Overrun, Ended
  <2> QED BY <1>1, <2>1
<1>5. CASE Skip \/ EndUnchecked \/ EndAtRequest \/ EndAtLeaf
  <2>1. Kept /\ Tests /\ Ended
    BY <1>5 DEF Skip, EndUnchecked, EndAtRequest, EndAtLeaf, Ended, Ends
  <2> QED BY <1>1, <2>1
<1>6. CASE Rewind
  <2>1. Kept /\ Tests /\ Rewound
    BY <1>6 DEF Rewind, Rewound
  <2> QED BY <1>1, <2>1
<1>7. \/ Requests /\ States /\ State(provider.values[Len(path) + 1])
      \/ Requests /\ ~States /\ \E value \in Served : Choose(value)
      \/ ~States /\ Overrun
      \/ Rewind
      \/ Skip \/ EndUnchecked \/ EndAtRequest \/ EndAtLeaf
  BY Zenon DEF Work, Finish
<1> QED BY <1>2, <1>3, <1>4, <1>5, <1>6, <1>7, Zenon

\* What the body of the call keeps of its record, and what a replay of that does.
LEMMA WhatIsKept ==
    ASSUME IInv
    PROVE  /\ <<>> \in DOMAIN body /\ body[<<>>].kept = <<>>
           /\ \A p \in DOMAIN body : \A v \in body[p].bounds.values :
                  Leads(body[Append(p, v)].kept, Append(body[p].kept, v))
           /\ IsReplayed => \A p \in DOMAIN body : body[p].ending # "rejected" =>
                  /\ body[p].kept \in DOMAIN body /\ body[body[p].kept] = body[p]
                  /\ \A k \in 0..Len(body[p].kept) :
                         body[SubSeq(body[p].kept, 1, k)].kept = SubSeq(body[p].kept, 1, k)
<1>1. subject \in Subjects /\ body \in subject
  BY DEF IInv, CallOfSubject
<1>2. /\ <<>> \in DOMAIN body /\ body[<<>>].kept = <<>>
      /\ \A p \in DOMAIN body : \A v \in body[p].bounds.values :
             Leads(body[Append(p, v)].kept, Append(body[p].kept, v))
  BY <1>1, BodiesAssumption, RecordAssumption
<1> QED BY <1>2 DEF IsReplayed

\* A beginning of a sequence, and its own beginnings.
LEMMA Cut ==
    ASSUME NEW S, NEW s \in Seq(S), NEW n \in Int, n <= Len(s)
    PROVE  /\ SubSeq(s, 1, n) \in Seq(S) /\ Len(SubSeq(s, 1, n)) <= Len(s)
           /\ Len(s) \in Nat /\ Len(SubSeq(s, 1, n)) \in Nat
           /\ n \in Nat => Len(SubSeq(s, 1, n)) = n
           /\ \A k \in 1..n : SubSeq(s, 1, n)[k] = s[k]
           /\ \A k \in 1..n : SubSeq(SubSeq(s, 1, n), 1, k - 1) = SubSeq(s, 1, k - 1)
  OBVIOUS

\* The record and the requests of a call stay those of its body.
LEMMA WorkPath ==
    ASSUME IInv, RInv, OutInv, Work
    PROVE  PathOfCall'
<1>1. /\ path \in Seq(AllValues) /\ record \in Seq(AllValues) /\ requests \in Seq(AllBounds)
      /\ cost \in Nat /\ Len(requests) \in Nat /\ Len(requests) <= cost /\ cost <= MaxChoices
      /\ MaxChoices \in Nat
      /\ path \in DOMAIN body /\ Running /\ Leads(Move.kept, record)
      /\ UNCHANGED <<body, provider>>
  BY WorkIs, LimitsAssumption DEF OutInv, PathOfCall, runVars, IInv, CallOfSubject
<1>2. IsReplayed' = IsReplayed
  BY <1>1 DEF IsReplayed
<1>3. CASE Ended
  <2>1. UNCHANGED <<path, record, requests, cost, body, provider>>
    BY <1>1, <1>3 DEF Ended
  <2>2. Move' = Move
    BY <2>1 DEF Move
  <2> QED BY <1>1, <1>2, <2>1, <2>2 DEF OutInv, PathOfCall
<1>4. CASE Stated
  <2>1. PICK value \in AllValues :
            /\ path' = Append(path, value) /\ record' = Append(record, value)
            /\ body[Append(path, value)].kept = Append(record, value)
    BY <1>4 DEF Stated
  <2>2. Move'.kept = record' /\ record' \in Seq(AllValues) /\ path' \in Seq(AllValues)
    BY <1>1, <2>1 DEF Move
  <2>3. Leads(record', record')
    BY <2>2, Cut DEF Leads
  <2>4. UNCHANGED <<requests, cost, provider>> /\ provider.kind = "values"
    BY <1>1, <1>4 DEF Stated
  <2> QED BY <1>1, <2>2, <2>3, <2>4 DEF PathOfCall
<1>5. CASE Rewound
  <2>1. PICK kept, n : kept = Move.kept /\ n = Len(kept)
    OBVIOUS
  <2>2. n <= Len(record) /\ kept = SubSeq(record, 1, n)
    BY <1>1, <2>1 DEF Leads
  <2>3. n \in Nat /\ kept \in Seq(AllValues)
    BY <1>1, <2>1, <2>2
  <2>l. PICK size \in Nat, asked \in Nat : size = Len(record) /\ asked = Len(requests)
    BY <1>1
  <2>4. PICK m \in Int : m = asked - (size - n)
    BY <2>3
  <2>m. m <= asked
    BY <2>2, <2>3, <2>4, <2>l
  <2>5. m <= Len(requests) /\ requests' = SubSeq(requests, 1, m) /\ record' = kept
    BY <1>5, <2>1, <2>4, <2>l, <2>m DEF Rewound
  <2>6. /\ requests' \in Seq(AllBounds) /\ Len(requests') <= Len(requests)
        /\ Len(requests') \in Nat
    BY <1>1, <2>5, Cut
  <2>7. UNCHANGED <<path, cost>> /\ Move' = Move
    BY <1>1, <1>5 DEF Rewound, Move
  <2>8. Leads(kept, kept)
    BY <2>3, Cut DEF Leads
  <2>9. ASSUME provider.kind # "values"
        PROVE  /\ Len(record') = Len(requests')
               /\ IsReplayed => \A k \in 1..Len(record') :
                      /\ requests'[k] = body[SubSeq(record', 1, k - 1)].bounds
                      /\ record'[k] \in requests'[k].values
    <3>1. Len(record) = Len(requests)
      BY <2>9 DEF OutInv, PathOfCall
    <3>2. m = n
      BY <2>3, <2>4, <2>l, <3>1
    <3>3. Len(record') = n /\ Len(requests') = n
      BY <1>1, <2>1, <2>3, <2>5, <3>2, Cut
    <3>4. ASSUME IsReplayed, NEW k \in 1..n
          PROVE  /\ requests'[k] = body[SubSeq(record', 1, k - 1)].bounds
                 /\ record'[k] \in requests'[k].values
      <4>1. k \in 1..Len(record)
        BY <1>1, <2>2, <2>3
      <4>2. requests[k] = body[SubSeq(record, 1, k - 1)].bounds /\ record[k] \in requests[k].values
        BY <2>9, <3>4, <4>1 DEF OutInv, PathOfCall
      <4>3. requests'[k] = requests[k]
        BY <1>1, <2>5, <3>2, Cut
      <4>4. record'[k] = record[k] /\ SubSeq(record', 1, k - 1) = SubSeq(record, 1, k - 1)
        BY <1>1, <2>2, <2>3, <2>5, Cut
      <4> QED BY <4>2, <4>3, <4>4
    <3> QED BY <3>3, <3>4
  <2>10. Len(requests') <= cost
    BY <1>1, <2>6
  <2> QED BY <1>1, <1>2, <2>1, <2>3, <2>5, <2>6, <2>7, <2>8, <2>9, <2>10 DEF PathOfCall
<1>6. CASE Chosen
  <2>1. PICK value : /\ value \in Move.bounds.values
                     /\ path' = Append(path, value) /\ record' = Append(record, value)
                     /\ requests' = Append(requests, Move.bounds)
    BY <1>6 DEF Chosen
  <2>2. Requests /\ cost < MaxChoices /\ cost' = cost + 1 /\ record = Move.kept
    BY <1>6 DEF Chosen, Requests
  <2>b. PICK bounds : bounds = Move.bounds
    OBVIOUS
  <2>3. bounds \in AllBounds /\ value \in AllValues /\ value \in bounds.values
    BY <2>1, <2>2, <2>b, MoveIsAsked
  <2>4. /\ path' \in Seq(AllValues) /\ record' \in Seq(AllValues) /\ requests' \in Seq(AllBounds)
        /\ Len(requests') = Len(requests) + 1 /\ Len(record') = Len(record) + 1
    BY <1>1, <2>1, <2>b, <2>3
  <2>5. cost' \in Nat /\ Len(requests') <= cost' /\ cost' <= MaxChoices
    BY <1>1, <2>2, <2>4
  <2>6. Leads(Move'.kept, record')
    BY <1>1, <2>1, <2>2, WhatIsKept DEF Move
  <2>7. ASSUME provider.kind # "values" PROVE Len(record') = Len(requests')
    BY <2>4, <2>7 DEF OutInv, PathOfCall
  <2>8. ASSUME provider.kind # "values", IsReplayed, NEW k \in 1..Len(record')
        PROVE  /\ requests'[k] = body[SubSeq(record', 1, k - 1)].bounds
               /\ record'[k] \in requests'[k].values
    <3>1. Len(record) = Len(requests) /\ Len(record) \in Nat
      BY <1>1, <2>8 DEF OutInv, PathOfCall
    <3>2. k - 1 \in 0..Len(record)
      BY <2>4, <3>1
    <3>3. SubSeq(record', 1, k - 1) = SubSeq(record, 1, k - 1)
      BY <1>1, <2>1, <2>3, <3>2, PrefixesOf
    <3>4. CASE k \in 1..Len(record)
      <4>1. record'[k] = record[k] /\ requests'[k] = requests[k]
        BY <1>1, <2>1, <2>b, <2>3, <3>1, <3>4, PrefixesOf
      <4>2. requests[k] = body[SubSeq(record, 1, k - 1)].bounds /\ record[k] \in requests[k].values
        BY <2>8, <3>4 DEF OutInv, PathOfCall
      <4> QED BY <3>3, <4>1, <4>2
    <3>5. CASE k = Len(record) + 1
      <4>1. record'[k] = value /\ requests'[k] = bounds
        BY <1>1, <2>1, <2>b, <2>3, <3>1, <3>5, PrefixesOf
      <4>2. SubSeq(record', 1, k - 1) = record
        BY <1>1, <3>1, <3>3, <3>5, PrefixesOf
      <4>3. body[record] = body[path]
        BY <1>1, <2>2, <2>8, WhatIsKept DEF Requests, Move, NoEnding
      <4> QED BY <2>b, <2>3, <4>1, <4>2, <4>3 DEF Move
    <3> QED BY <3>1, <3>2, <3>4, <3>5
  <2> QED BY <1>1, <1>2, <2>4, <2>5, <2>6, <2>7, <2>8 DEF PathOfCall
<1> QED BY <1>3, <1>4, <1>5, <1>6, WorkIs

\* A step of a replay of a function's case: its path is on the case's way, the
\* value served next is the case's own, and it ends only where the case ended.
LEMMA WorkReplay ==
    ASSUME IInv, RInv, OutInv, Work, IsFunction, IsReplayed, phase \in {"confirm", "replay"}
    PROVE  /\ Len(path') <= Len(failing.choices)
           /\ path' = SubSeq(failing.choices, 1, Len(path'))
           /\ record' = path' /\ cost' = Len(path')
           /\ Running' \/ (path' = failing.choices /\ status' = body[path'].ending)
<1> PICK c : c = failing.choices
  OBVIOUS
<1>1. /\ c \in Seq(AllValues) /\ Len(c) <= MaxChoices /\ c \in DOMAIN body
      /\ body[c].ending \in {"passed", "failed"}
      /\ \A k \in 1..Len(c) : c[k] \in body[SubSeq(c, 1, k - 1)].bounds.values
      /\ \A k \in 0..Len(c) : body[SubSeq(c, 1, k)].kept = SubSeq(c, 1, k)
  BY DEF RInv, CallsOfStages, OutInv, FailingIsCase
<1>2. /\ provider.kind = "replay" /\ provider.values = c
      /\ Len(path) <= Len(c) /\ path = SubSeq(c, 1, Len(path))
      /\ record = path /\ cost = Len(path)
  BY DEF OutInv, ReplayIsOnWay, Replaying
<1>3. /\ path \in Seq(AllValues) /\ Len(path) = Len(requests) /\ Len(path) \in Nat
      /\ Len(c) \in Nat /\ MaxChoices \in Nat
  BY <1>1, <1>2, LimitsAssumption DEF OutInv, PathOfCall
<1>k. record = Move.kept
  <2>1. Len(path) \in 0..Len(c)
    BY <1>2, <1>3
  <2> QED BY <1>1, <1>2, <2>1 DEF Move
<1>4. body \in UNION Subjects /\ path \in DOMAIN body /\ Running /\ off
  BY WorkIs DEF IInv, CallOfSubject, OutInv, StagesOfRun
<1>5. ~States
  BY <1>2 DEF States
<1>6. Len(path) < Len(c) => Requests /\ c[Len(path) + 1] \in Move.bounds.values
  <2> SUFFICES ASSUME Len(path) < Len(c) PROVE Requests /\ c[Len(path) + 1] \in Move.bounds.values
    OBVIOUS
  <2>1. Len(path) + 1 \in 1..Len(c) /\ (Len(path) + 1) - 1 = Len(path)
    BY <1>3
  <2>2. c[Len(path) + 1] \in body[path].bounds.values
    BY <1>1, <1>2, <2>1
  <2>3. body[path].bounds # NoBounds
    BY <2>2 DEF NoBounds
  <2>4. body[path].ending = NoEnding
    BY <1>4, <2>3, BodiesAssumption
  <2> QED BY <1>4, <1>k, <2>2, <2>4 DEF Requests, Move
<1>7. Len(path) = Len(c) => path = c /\ ~Requests /\ Move.ending = body[c].ending
  <2> SUFFICES ASSUME Len(path) = Len(c)
               PROVE  path = c /\ ~Requests /\ Move.ending = body[c].ending
    OBVIOUS
  <2>1. path = c
    BY <1>1, <1>2, PrefixesOf
  <2> QED BY <1>1, <2>1 DEF Requests, Move, NoEnding
<1>8. CASE Stated
  BY <1>2, <1>8 DEF Stated
<1>9. CASE Chosen
  <2>1. Len(path) < Len(c)
    BY <1>2, <1>3, <1>7, <1>9 DEF Chosen
  <2>2. Served = {Fitted(Move.bounds, c[Len(path) + 1])}
    BY <1>2, <1>3, <2>1 DEF Served
  <2>3. /\ path' = Append(path, c[Len(path) + 1]) /\ status' = "running"
        /\ record' = path' /\ cost' = cost + 1
    BY <1>2, <1>4, <1>6, <1>9, <2>1, <2>2 DEF Chosen, Fitted
  <2>4. path' = SubSeq(c, 1, Len(path) + 1)
    BY <1>1, <1>2, <1>3, <2>1, <2>3, PrefixGrows
  <2>5. Len(path') = Len(path) + 1
    BY <1>1, <1>3, <2>1, <2>4
  <2> QED BY <1>2, <1>3, <2>1, <2>3, <2>4, <2>5 DEF Running
<1>10. CASE Ended
  <2>1. path' = path /\ record' = record /\ cost' = cost
    BY <1>10 DEF Ended
  <2>2. Len(path) = Len(c)
    <3>1. SUFFICES ASSUME Len(path) < Len(c) PROVE FALSE
      BY <1>2, <1>3
    <3>2. Requests /\ Move.ending = NoEnding /\ cost < MaxChoices /\ cost \in Nat
      BY <1>1, <1>2, <1>3, <1>6, <3>1 DEF Requests
    <3> QED BY <1>3, <1>10, <3>2 DEF Ended, NoEnding, Ends, Endings
  <2>3. status' = body[c].ending
    BY <1>1, <1>4, <1>7, <1>10, <2>2 DEF Ended
  <2> QED BY <1>2, <1>7, <2>1, <2>2, <2>3
<1>11. ~Rewound
  BY <1>k DEF Rewound
<1> QED BY <1>8, <1>9, <1>10, <1>11, WorkIs

\* The steps of a call keep what a run says of its calls.
LEMMA WorkOutInv ==
    ASSUME IInv, XInv, RInv, OutInv, Work
    PROVE  OutInv'
<1>1. /\ UNCHANGED <<subject, body, limit>> /\ UNCHANGED runVars
      /\ Running /\ phase # NoPhase
      /\ tested' # tested => ~off /\ status' \in Endings
      /\ Stated \/ Chosen \/ Rewound \/ Ended
  BY WorkIs
<1>2. Exhausted => Exhausted'
  BY NextXInv, WorkIsTree
<1>3. PathOfCall'
  BY WorkPath
<1>4. StatusOfCall'
  <2>1. status = "running" /\ status # "idle" /\ path \in DOMAIN body
    BY <1>1 DEF IInv, CallOfSubject, Running
  <2>2. CASE Stated \/ Chosen \/ Rewound
    BY <1>1, <2>1, <2>2 DEF Stated, Chosen, Rewound, StatusOfCall, Statuses
  <2>3. CASE Ended
    <3>1. /\ path' = path /\ record' = record /\ Move' = Move /\ path' \in DOMAIN body'
          /\ status' \in {"rejected", "skipped", "diverged"} \/ (Ends /\ status' = Move.ending)
      BY <1>1, <2>1, <2>3 DEF Ended, Move
    <3> QED BY <1>1, <3>1 DEF StatusOfCall, Statuses, Endings, Ends
  <2> QED BY <1>1, <2>2, <2>3
<1>5. CountsOfStage'
  BY <1>1 DEF OutInv, CountsOfStage, runVars, Aim
<1>6. TestedIsCounted'
  BY <1>1 DEF OutInv, TestedIsCounted, runVars, StagesOfRun, Running, Endings
<1>7. StagesDone'
  BY <1>1, <1>2 DEF OutInv, StagesDone, runVars, Aim
<1>8. SeenSoFar'
  BY <1>1 DEF OutInv, SeenSoFar, runVars, Failed, Cases
<1>9. StagesOfRun'
  BY <1>1, WorkOutside DEF OutInv, StagesOfRun, runVars
<1>r. IsFunction' = IsFunction /\ IsReplayed' = IsReplayed
  BY <1>1 DEF IsFunction, IsReplayed
<1>10. FailingIsCase'
  BY <1>1, <1>r DEF OutInv, FailingIsCase, runVars
<1>11. ReplayIsOnWay'
  <2> SUFFICES ASSUME phase' \in {"confirm", "replay"}, IsFunction', IsReplayed'
               PROVE  /\ provider' = Replaying(failing'.choices)
                      /\ Len(path') <= Len(failing'.choices)
                      /\ path' = SubSeq(failing'.choices, 1, Len(path'))
                      /\ record' = path' /\ cost' = Len(path')
                      /\ Running' \/ (path' = failing'.choices /\ status' = body'[path'].ending)
    BY DEF ReplayIsOnWay
  <2>1. /\ IsFunction /\ IsReplayed /\ phase \in {"confirm", "replay"}
        /\ UNCHANGED <<body, provider, failing>>
    BY <1>1, <1>r DEF runVars
  <2>2. provider = Replaying(failing.choices)
    BY <2>1 DEF OutInv, ReplayIsOnWay
  <2> QED BY <2>1, <2>2, WorkReplay
<1>12. ReplaysReproduce' /\ FunctionIsNeverFlaky'
  BY <1>1, <1>r DEF OutInv, ReplaysReproduce, FunctionIsNeverFlaky, runVars
<1>13. (stage = "over" => Reports)'
  BY <1>1 DEF RInv, CallsOfStages, Counting, runVars
<1> QED BY <1>3, <1>4, <1>5, <1>6, <1>7, <1>8, <1>9, <1>10, <1>11, <1>12, <1>13 DEF OutInv

\* A call starts: it has made no request, and its body is one of the subject.
LEMMA CallOutInv ==
    ASSUME IInv, RInv, OutInv, phase = NoPhase,
           NEW walks \in BOOLEAN, Start(walks), walks => ~Exhausted,
           UNCHANGED <<settings, Counts, Conclusion, seen, position>>,
           stage' = stage \/ (stage = "known" /\ stage' = "simplest"),
           index' \in Nat, index' <= GenerationFactor * Aim,
           stage # "random" => index' = index,
           \/ phase' = "confirm" /\ stage = "confirm"
           \/ phase' = "replay" /\ stage = "replays" /\ replays < settings.replays
           \/ phase' \in Phases \ {"confirm", "replay"} /\ stage \in Counting,
           phase' \in {"confirm", "replay"} =>
               ~walks /\ provider' = Replaying(failing.choices)
    PROVE  OutInv'
<1> USE DEF OutInv, Counts, Conclusion
<1>1. /\ UNCHANGED <<subject, limit, tree, full, tested>> /\ body' \in subject
      /\ path' = <<>> /\ record' = <<>> /\ requests' = <<>> /\ cost' = 0
      /\ off' = ~walks /\ status' = "running"
  BY DEF Start
<1>2. /\ IsFunction' = IsFunction /\ (IsFunction => body' = body)
      /\ IsFunction => IsReplayed' = IsReplayed
  <2>1. IsFunction' = IsFunction /\ (IsFunction => body' = body)
    BY <1>1 DEF IsFunction, IInv, CallOfSubject
  <2> QED BY <2>1 DEF IsReplayed
<1>3. phase' \in Phases /\ phase' # NoPhase
  BY DEF Phases, NoPhase
<1>5. PathOfCall'
  <2>1. IInv'
    BY StartIInv
  <2>2. Move'.kept = <<>>
    <3>1. body'[<<>>].kept = <<>>
      BY <2>1, RecordAssumption DEF IInv, CallOfSubject
    <3> QED BY <1>1, <3>1 DEF Move
  <2>3. Leads(<<>>, <<>>)
    BY DEF Leads
  <2> QED BY <1>1, <2>2, <2>3, LimitsAssumption DEF PathOfCall
<1>6. StatusOfCall'
  BY <1>1 DEF StatusOfCall
<1>7. CountsOfStage'
  BY DEF CountsOfStage, Aim
<1>8. TestedIsCounted'
  BY <1>1 DEF TestedIsCounted
<1>9. StagesDone'
  BY <1>1 DEF StagesDone, Aim, Exhausted, Counting
<1>10. SeenSoFar'
  BY DEF SeenSoFar, Failed, Cases
<1>11. StagesOfRun'
  BY <1>1, <1>3 DEF StagesOfRun, Counting
<1>12. FailingIsCase'
  BY <1>1, <1>2 DEF FailingIsCase
<1>13. ReplayIsOnWay'
  <2> SUFFICES ASSUME phase' \in {"confirm", "replay"}, IsFunction, IsReplayed
               PROVE  /\ provider' = Replaying(failing.choices)
                      /\ Len(path') <= Len(failing.choices)
                      /\ path' = SubSeq(failing.choices, 1, Len(path'))
                      /\ record' = path' /\ cost' = Len(path')
                      /\ Running'
    BY <1>2 DEF ReplayIsOnWay
  <2>1. stage \in {"confirm", "replays"}
    BY DEF Phases
  <2>2. failing.choices \in Seq(AllValues)
    BY <2>1 DEF FailingIsCase
  <2> QED BY <1>1, <2>2 DEF Running
<1>14. ReplaysReproduce' /\ FunctionIsNeverFlaky'
  BY <1>2 DEF ReplaysReproduce, FunctionIsNeverFlaky
<1>15. (stage = "over" => Reports)'
  BY DEF Counting
<1> QED BY <1>5, <1>6, <1>7, <1>8, <1>9, <1>10, <1>11, <1>12, <1>13, <1>14, <1>15

\* The start of a call keeps what a run says of its calls.
LEMMA CallsOutInv ==
    IInv /\ RInv /\ OutInv
    /\ (CallKnown \/ CallSimplest \/ CallToken \/ CallRandom \/ CallPrefix \/ CallEdge
        \/ CallConfirm \/ CallReplay)
    => OutInv'
<1> SUFFICES ASSUME IInv, RInv, OutInv,
                    CallKnown \/ CallSimplest \/ CallToken \/ CallRandom \/ CallPrefix
                    \/ CallEdge \/ CallConfirm \/ CallReplay
             PROVE  OutInv'
  OBVIOUS
<1> USE DEF At, Call, Counting, Phases
<1>1. index \in Nat /\ index <= GenerationFactor * Aim /\ Aim \in Nat /\ GenerationFactor \in Nat
  BY RunsAssumption, FactorsAssumption DEF OutInv, CountsOfStage, RInv, SettingsOfRun, Aim
<1>2. CASE CallKnown
  <2>1. Known[given + 1].phase \in {"example", "stored"}
    BY <1>2, RunsAssumption DEF CallKnown, Known, RInv, SettingsOfRun
  <2> QED BY <1>1, <1>2, <2>1, CallOutInv DEF CallKnown
<1>3. CASE CallSimplest
  <2>1. ~Exhausted
    BY <1>3 DEF CallSimplest, RInv, KnownAreOutside, Exhausted
  <2> QED BY <1>1, <1>3, <2>1, CallOutInv DEF CallSimplest, Progress
<1>4. CASE CallToken
  BY <1>1, <1>4, CallOutInv DEF CallToken, Progress
<1>5. CASE CallRandom
  <2>1. index' \in Nat /\ index' <= GenerationFactor * Aim
    <3>1. PICK most : most = GenerationFactor * Aim
      OBVIOUS
    <3>2. most \in Nat /\ index < most
      BY <1>1, <1>5, <3>1 DEF CallRandom, GoesOn
    <3> QED BY <1>1, <1>5, <3>1, <3>2 DEF CallRandom
  <2> QED BY <1>5, <2>1, CallOutInv DEF CallRandom, GoesOn
<1>6. CASE CallPrefix
  BY <1>1, <1>6, CallOutInv DEF CallPrefix, Prefixed, Progress
<1>7. CASE CallEdge
  BY <1>1, <1>7, CallOutInv DEF CallEdge, HasEdge
<1>8. CASE CallConfirm
  BY <1>1, <1>8, CallOutInv DEF CallConfirm, Progress
<1>9. CASE CallReplay
  BY <1>1, <1>9, CallOutInv DEF CallReplay, Progress
<1> QED BY <1>2, <1>3, <1>4, <1>5, <1>6, <1>7, <1>8, <1>9

\* The aim of a later check is no lower.
LEMMA AimGrows ==
    ASSUME CountsOfStage, SettingsOfRun, position' = position + 1, position' \in DOMAIN Checks,
           settings' = settings
    PROVE  /\ GenerationFactor * Aim \in Nat /\ GenerationFactor * Aim' \in Nat
           /\ GenerationFactor * Aim <= GenerationFactor * Aim'
<1>1. /\ Checks[position] \in Nat /\ Checks[position'] \in Nat
      /\ settings.cases \in Nat /\ GenerationFactor \in Nat
  BY RunsAssumption, FactorsAssumption DEF CountsOfStage, SettingsOfRun
<1>2. Checks[position] <= Checks[position']
  <2>1. position <= position'
    BY FactorsAssumption DEF CountsOfStage
  <2> QED BY <2>1, FactorsAssumption DEF CountsOfStage
<1>3. \A a, b, n \in Nat : a <= b => a * n <= b * n /\ a * n \in Nat /\ n * a <= n * b
  <2> SUFFICES ASSUME NEW a \in Nat, NEW b \in Nat, NEW n \in Nat, a <= b
               PROVE  a * n <= b * n /\ a * n \in Nat /\ n * a <= n * b
    OBVIOUS
  <2>1. (b - a) * n >= 0
    BY SMTT(20)
  <2>2. b * n = a * n + (b - a) * n /\ n * a = a * n /\ n * b = b * n
    BY SMTT(20)
  <2>3. a * n \in Nat /\ b * n \in Nat /\ (b - a) * n \in Int
    BY SMTT(20)
  <2> QED BY <2>1, <2>2, <2>3
<1>4. PICK a \in Nat, b \in Nat : a = Checks[position] /\ b = Checks[position']
  BY <1>1
<1>5. PICK n \in Nat : n = settings.cases
  BY <1>1
<1>6. a * n <= b * n /\ a * n \in Nat /\ b * n \in Nat
  BY <1>2, <1>3, <1>4
<1>7. Aim = a * n /\ Aim' = b * n
  BY <1>4, <1>5 DEF Aim
<1>8. PICK x \in Nat, y \in Nat : x = a * n /\ y = b * n
  BY <1>6
<1>9. /\ GenerationFactor * x <= GenerationFactor * y
      /\ GenerationFactor * x \in Nat /\ GenerationFactor * y \in Nat
  BY <1>1, <1>3, <1>6, <1>8
<1> QED BY <1>7, <1>8, <1>9

\* The run goes on at a stage without a call.
LEMMA GoToOutInv ==
    ASSUME IInv, RInv, OutInv, phase = NoPhase, stage \in Counting \cup {"check"},
           NEW s \in {"rest", "edge", "random", "check"}, GoTo(s),
           UNCHANGED <<given, index, edges, chosen>>,
           stage \notin {"known", "simplest", "token"},
           \/ position' = position
           \/ s = "random" /\ position' = position + 1 /\ position' \in DOMAIN Checks,
           s = "rest" => valid >= Aim \/ Exhausted \/ index = GenerationFactor * Aim,
           s = "check" => stage = "rest" /\ (edges = <<>> \/ Exhausted)
    PROVE  OutInv'
<1> USE DEF OutInv, GoTo, Counts, Conclusion
<1>1. ~Running /\ UNCHANGED treeVars
  BY DEF RInv, CallsOfStages
<1>2. PathOfCall' /\ StatusOfCall'
  BY <1>1 DEF treeVars, PathOfCall, StatusOfCall, Move, IsReplayed, Running
<1>3. CountsOfStage'
  <2>1. index <= GenerationFactor * Aim'
    <3>1. CASE position' = position
      BY <3>1 DEF CountsOfStage, Aim
    <3>2. CASE position' = position + 1 /\ position' \in DOMAIN Checks
      <4>1. /\ GenerationFactor * Aim \in Nat /\ GenerationFactor * Aim' \in Nat
            /\ GenerationFactor * Aim <= GenerationFactor * Aim'
        BY <3>2, AimGrows DEF RInv
      <4>2. PICK x, y : x = GenerationFactor * Aim /\ y = GenerationFactor * Aim'
        OBVIOUS
      <4>3. x \in Nat /\ y \in Nat
        BY <4>1, <4>2
      <4> QED BY <4>1, <4>2, <4>3 DEF CountsOfStage
    <3> QED BY <3>1, <3>2
  <2>2. (GenerationFactor * Aim)' = GenerationFactor * Aim'
    OBVIOUS
  <2> QED BY <2>1, <2>2 DEF CountsOfStage, Counting
<1>4. TestedIsCounted'
  BY <1>1 DEF TestedIsCounted, treeVars
<1>5. StagesDone'
  <2>1. s \in {"edge", "random"} => StagesDone'
    BY DEF StagesDone
  <2>2. position' = position => Aim' = Aim /\ Exhausted' = Exhausted
    BY <1>1 DEF treeVars, Aim, Exhausted
  <2>3. s = "rest" => StagesDone'
    BY <2>2 DEF StagesDone
  <2>4. s = "check" => StagesDone'
    BY <2>2 DEF StagesDone
  <2> QED BY <2>1, <2>3, <2>4
<1>6. SeenSoFar' /\ StagesOfRun'
  BY DEF SeenSoFar, StagesOfRun, Failed, Cases, Counting, NoPhase
<1>7. FailingIsCase' /\ ReplayIsOnWay' /\ ReplaysReproduce'
  BY DEF FailingIsCase, ReplayIsOnWay, ReplaysReproduce, NoPhase
<1>8. FunctionIsNeverFlaky'
  BY <1>1 DEF FunctionIsNeverFlaky, treeVars, IsFunction, IsReplayed
<1> QED BY <1>2, <1>3, <1>4, <1>5, <1>6, <1>7, <1>8

\* Going on to the next stage keeps what a run says of its calls.
LEMMA MovesOutInv ==
    IInv /\ RInv /\ OutInv /\ (StopRandom \/ SkipPrefix \/ SkipEdge \/ StopEdges \/ NextCheck)
    => OutInv'
<1> SUFFICES ASSUME IInv, RInv, OutInv,
                    StopRandom \/ SkipPrefix \/ SkipEdge \/ StopEdges \/ NextCheck
             PROVE  OutInv'
  OBVIOUS
<1> USE DEF At, Counting
<1>1. CASE StopRandom
  <2>1. valid >= Aim \/ Exhausted \/ index = GenerationFactor * Aim
    <3>1. PICK most : most = GenerationFactor * Aim
      OBVIOUS
    <3>2. Aim \in Nat /\ most \in Nat /\ index \in Nat /\ index <= most /\ valid \in Nat
      BY <3>1, RunsAssumption, FactorsAssumption
      DEF OutInv, CountsOfStage, RInv, SettingsOfRun, Aim
    <3> QED BY <1>1, <3>1, <3>2 DEF StopRandom, GoesOn
  <2> QED BY <1>1, <2>1, GoToOutInv DEF StopRandom, Progress
<1>2. CASE SkipPrefix
  BY <1>2, GoToOutInv DEF SkipPrefix, Progress
<1>3. CASE SkipEdge
  BY <1>3, GoToOutInv DEF SkipEdge, Progress
<1>4. CASE StopEdges
  BY <1>4, GoToOutInv DEF StopEdges, HasEdge, Progress
<1>5. CASE NextCheck
  <2>1. position # Len(Checks) /\ position \in 1..Len(Checks)
    BY <1>5, FactorsAssumption DEF NextCheck, Verdicts, OutInv, CountsOfStage
  <2>2. position + 1 \in DOMAIN Checks
    <3>1. PICK last \in Nat : last = Len(Checks) /\ DOMAIN Checks = 1..last
      BY FactorsAssumption
    <3>2. position # last /\ position \in 1..last
      BY <2>1, <3>1, Zenon
    <3>3. position + 1 \in 1..last
      BY <3>2
    <3> QED BY <3>1, <3>3, Zenon
  <2> QED BY <1>5, <2>2, GoToOutInv DEF NextCheck
<1> QED BY <1>1, <1>2, <1>3, <1>4, <1>5

\* The run ends without a call.
LEMMA ConcludeOutInv ==
    ASSUME IInv, RInv, OutInv, phase = NoPhase, NEW kind \in Kinds, Conclude(kind),
           IsFunction /\ IsReplayed => kind # "flaky", Reports'
    PROVE  OutInv'
<1> USE DEF OutInv, Conclude, EndAs, Progress, Counts
<1>1. ~Running /\ UNCHANGED treeVars /\ outcome' # NoOutcome
  BY DEF RInv, CallsOfStages, Kinds, NoOutcome
<1>2. PathOfCall' /\ StatusOfCall'
  BY <1>1 DEF treeVars, PathOfCall, StatusOfCall, Move, IsReplayed, Running
<1>3. CountsOfStage'
  BY DEF CountsOfStage, Aim
<1>4. TestedIsCounted' /\ StagesDone' /\ SeenSoFar' /\ StagesOfRun'
  BY <1>1 DEF TestedIsCounted, StagesDone, SeenSoFar, StagesOfRun, NoPhase
<1>5. FailingIsCase' /\ ReplayIsOnWay' /\ ReplaysReproduce'
  BY DEF FailingIsCase, ReplayIsOnWay, ReplaysReproduce, NoPhase
<1>6. FunctionIsNeverFlaky'
  BY <1>1 DEF FunctionIsNeverFlaky, treeVars, IsFunction, IsReplayed
<1> QED BY <1>2, <1>3, <1>4, <1>5, <1>6

\* Some case is valid where the shares of the valid cases are taken.
LEMMA FewRejected ==
    \A most, some, others \in Nat :
        some + others > 0 /\ ~(others > most * some) => some > 0
<1> SUFFICES ASSUME NEW most \in Nat, NEW some \in Nat, NEW others \in Nat,
                    some + others > 0, ~(others > most * some)
             PROVE  some > 0
  OBVIOUS
<1>1. some = 0 => most * some = 0
  OBVIOUS
<1> QED BY <1>1

\* A stage that looks at what was tested finds a case that was not rejected.
LEMMA SomeValid ==
    ASSUME OutInv, Stands, stage \in {"check", "token end"}
    PROVE  valid > 0
<1>1. valid + rejected > 0 /\ valid \in Nat /\ rejected \in Nat
  BY DEF OutInv, TestedIsCounted, CountsOfStage, StagesOfRun
<1>2. ~(rejected > MaxRejections * valid)
  BY DEF Stands, RejectsTooMany
<1>3. MaxRejections \in Nat
  BY FactorsAssumption
<1> QED BY <1>1, <1>2, <1>3, FewRejected, Zenon

\* A run that concludes agrees with the calls that it has seen.
LEMMA ConclusionsOutInv ==
    IInv /\ RInv /\ OutInv
    /\ (RaiseTraceError \/ ConcludeReplays \/ ConcludeWithout \/ ConcludePassed \/ Decide)
    => OutInv'
<1> SUFFICES ASSUME IInv, RInv, OutInv,
                    RaiseTraceError \/ ConcludeReplays \/ ConcludeWithout \/ ConcludePassed
                    \/ Decide
             PROVE  OutInv'
  OBVIOUS
<1> USE DEF At
<1>1. CASE RaiseTraceError
  <2>1. ~Failed /\ \A call \in Cases : call[2] \in {"passed", "rejected", "repeated"}
    BY <1>1 DEF RaiseTraceError, OutInv, StagesOfRun, SeenSoFar, NoOutcome
  <2>2. outcome' = "trace error" /\ Cases' = Cases
    BY <1>1 DEF RaiseTraceError, Conclude, EndAs, Cases
  <2>3. Reports'
    BY <2>1, <2>2 DEF Reports
  <2> QED BY <1>1, <2>3, ConcludeOutInv DEF RaiseTraceError, Kinds
<1>2. CASE ConcludeReplays
  <2> PICK kind : kind = IF reproduced = 0 THEN "flaky" ELSE "counterexample"
    OBVIOUS
  <2>1. Conclude(kind) /\ replays = settings.replays /\ stage = "replays" /\ phase = NoPhase
    BY <1>2 DEF ConcludeReplays
  <2>2. settings.replays \in Nat \ {0} /\ reproduced \in 0..replays
    BY RunsAssumption DEF RInv, SettingsOfRun, OutInv, CountsOfStage
  <2>3. IsFunction /\ IsReplayed => kind # "flaky"
    BY <2>1, <2>2 DEF OutInv, ReplaysReproduce
  <2>4. /\ \E call \in Cases : call[2] = "failed"
        /\ \A call \in Cases : call[2] # "skipped"
        /\ reproduced > 0 => <<"replay", "failed">> \in seen
    BY <2>1 DEF OutInv, SeenSoFar
  <2>5. outcome' = kind /\ UNCHANGED <<seen, replays, reproduced>> /\ Cases' = Cases
    BY <2>1 DEF Conclude, EndAs, Cases
  <2>6. kind = "counterexample" => reproduced > 0
    BY <2>2
  <2>7. Reports'
    BY <2>4, <2>5, <2>6 DEF Reports
  <2> QED BY <2>1, <2>3, <2>7, ConcludeOutInv DEF Kinds
<1>3. ASSUME stage \in {"check", "token end"}, phase = NoPhase,
             NEW kind \in {"passed", "rejected", "vacuous", "coverage-unmet"}, Conclude(kind),
             kind = "passed" => Stands
      PROVE  OutInv'
  <2>1. ~Failed /\ \A call \in Cases : call[2] \in {"passed", "rejected", "repeated"}
    BY <1>3 DEF OutInv, StagesOfRun, SeenSoFar, NoOutcome
  <2>2. settings.replay # {} \/ Tried
    BY <1>3 DEF OutInv, StagesDone, Tried
  <2>3. kind = "passed" => valid > 0
    BY <1>3, SomeValid
  <2>4. /\ outcome' = kind /\ Cases' = Cases /\ Failed' = Failed /\ Tried' = Tried
        /\ UNCHANGED <<settings, valid, seen>>
    BY <1>3
    DEF Conclude, EndAs, Cases, Failed, Tried, treeVars, Progress, Counts, Aim, Exhausted
  <2>5. Reports'
    BY <2>1, <2>2, <2>3, <2>4 DEF Reports
  <2> QED BY <1>3, <2>5, ConcludeOutInv DEF Kinds
<1>4. CASE ConcludeWithout
  BY <1>3, <1>4 DEF ConcludeWithout
<1>5. CASE ConcludePassed
  BY <1>3, <1>5 DEF ConcludePassed
<1>6. CASE Decide
  <2>1. PICK kind \in {"passed", "coverage-unmet"} : Conclude(kind)
    BY <1>6 DEF Decide
  <2> QED BY <1>3, <1>6, <2>1 DEF Decide
<1> QED BY <1>1, <1>2, <1>4, <1>5, <1>6

\* What the run keeps of a case that it replays later: the choices of its
\* record, which a call that makes only them repeats.
LEMMA CaseOfCall ==
    ASSUME IInv, OutInv, IsReplayed, provider.kind # "values", status \in {"passed", "failed"}
    PROVE  /\ CaseChoices = record
           /\ record \in Seq(AllValues) /\ requests \in Seq(AllBounds)
           /\ Len(record) = Len(requests) /\ Len(record) <= MaxChoices
           /\ \A k \in 1..Len(record) :
                  /\ requests[k] = body[SubSeq(record, 1, k - 1)].bounds
                  /\ record[k] \in requests[k].values
           /\ record \in DOMAIN body /\ body[record].ending = status
           /\ \A k \in 0..Len(record) : body[SubSeq(record, 1, k)].kept = SubSeq(record, 1, k)
           /\ Identity = IF status = "passed" THEN "none" ELSE body[record].identity
<1>1. /\ record \in Seq(AllValues) /\ requests \in Seq(AllBounds)
      /\ Len(record) = Len(requests) /\ Len(record) <= MaxChoices
      /\ \A k \in 1..Len(record) :
             /\ requests[k] = body[SubSeq(record, 1, k - 1)].bounds
             /\ record[k] \in requests[k].values
  <2>1. Len(requests) <= cost /\ cost <= MaxChoices /\ cost \in Nat /\ MaxChoices \in Nat
    BY LimitsAssumption DEF OutInv, PathOfCall
  <2>2. record \in Seq(AllValues) /\ requests \in Seq(AllBounds) /\ Len(record) = Len(requests)
    BY DEF OutInv, PathOfCall
  <2>3. Len(record) <= MaxChoices
    BY <2>1, <2>2
  <2> QED BY <2>2, <2>3 DEF OutInv, PathOfCall
<1>2. CaseChoices = record
  <2>1. (Len(record) - Len(requests)) + 1 = 1 /\ SubSeq(record, 1, Len(record)) = record
    BY <1>1
  <2> QED BY <2>1 DEF CaseChoices
<1>3. path \in DOMAIN body /\ Move.ending = status /\ record = Move.kept /\ Move = body[path]
  BY DEF OutInv, StatusOfCall, Move
<1>4. /\ record \in DOMAIN body /\ body[record] = Move
      /\ \A k \in 0..Len(record) : body[SubSeq(record, 1, k)].kept = SubSeq(record, 1, k)
  BY <1>3, WhatIsKept
<1> QED BY <1>1, <1>2, <1>3, <1>4 DEF Identity

\* A failure has an identity, and nothing else has one.
LEMMA FailedHasIdentity ==
    ASSUME IInv, OutInv
    PROVE  status = "failed" <=> Identity # "none"
<1>1. body \in subject /\ subject \in Subjects
  BY DEF IInv, CallOfSubject
<1>2. status = "failed" => path \in DOMAIN body /\ body[path].ending = "failed"
  BY DEF OutInv, StatusOfCall, Move
<1> QED BY <1>1, <1>2, IdentitiesAssumption DEF Identity, Move

\* The counts of a case that the run goes on from.
LEMMA TallyCounts ==
    ASSUME CountsOfStage, Tally
    PROVE  /\ valid' \in Nat /\ rejected' \in Nat /\ requested' \in BOOLEAN
           /\ valid' >= valid /\ rejected' >= rejected
           /\ status \in {"passed", "rejected"} => valid' + rejected' > 0
  BY DEF CountsOfStage, Tally

\* A count that was positive stays so as its parts grow.
LEMMA CountsGrow ==
    \A a, b, c, d \in Nat : a + b > 0 /\ c >= a /\ d >= b => c + d > 0
  OBVIOUS

\* The returns of all calls, as the invariant sees them.
LEMMA ReturnKeeps ==
    ASSUME IInv, RInv, OutInv, phase # NoPhase, ~Running,
           UNCHANGED <<treeVars, provider>>, phase' = NoPhase,
           seen' = seen \cup {<<phase, status>>}
    PROVE  /\ PathOfCall' /\ StatusOfCall' /\ ReplayIsOnWay'
           /\ seen' \subseteq Phases \X Statuses
           /\ IsFunction' = IsFunction /\ IsReplayed' = IsReplayed /\ Exhausted' = Exhausted
           /\ phase \in Phases /\ status \in Statuses
<1>0. IsFunction' = IsFunction /\ IsReplayed' = IsReplayed
  BY DEF treeVars, IsFunction, IsReplayed
<1>1. /\ PathOfCall' /\ StatusOfCall'
      /\ Exhausted' = Exhausted
  BY <1>0 DEF OutInv, treeVars, PathOfCall, StatusOfCall, Exhausted, Move, Running
<1>2. ReplayIsOnWay'
  BY DEF ReplayIsOnWay, NoPhase
<1>3. phase \in Phases /\ status \in Statuses
  BY DEF OutInv, StagesOfRun, StatusOfCall, Running
<1>4. seen' \subseteq Phases \X Statuses
  <2>1. seen \subseteq Phases \X Statuses
    BY DEF OutInv, StagesOfRun
  <2>2. <<phase, status>> \in Phases \X Statuses
    BY <1>3
  <2> HIDE DEF Phases, Statuses
  <2> QED BY <2>1, <2>2
<1> QED BY <1>0, <1>1, <1>2, <1>3, <1>4

\* While cases are counted nothing is concluded and no replay has been made.
LEMMA CountingHasNoOutcome ==
    ASSUME RInv, OutInv, phase \notin {NoPhase, "confirm", "replay"}
    PROVE  stage \in Counting /\ outcome = NoOutcome /\ replays = 0 /\ reproduced = 0
<1>1. stage \in Counting
  BY DEF RInv, CallsOfStages
<1>2. outcome = NoOutcome
  BY <1>1 DEF OutInv, StagesOfRun, Counting
<1>3. replays = 0 /\ reproduced \in 0..replays
  BY <1>1 DEF OutInv, CountsOfStage, Counting
<1> QED BY <1>1, <1>2, <1>3

\* A counted case that fails becomes the failing case of a counterexample.
LEMMA TakeFailingOutInv ==
    ASSUME IInv, RInv, OutInv, TakeFailing
    PROVE  OutInv'
<1> USE DEF TakeFailing, Counted, Returned, Return
<1>1. /\ PathOfCall' /\ StatusOfCall' /\ ReplayIsOnWay'
      /\ seen' \subseteq Phases \X Statuses
      /\ IsFunction' = IsFunction /\ IsReplayed' = IsReplayed /\ phase \in Phases
  BY ReturnKeeps
<1>2. stage \in Counting /\ outcome = NoOutcome /\ replays = 0 /\ reproduced = 0
  BY CountingHasNoOutcome
<1>3. CountsOfStage'
  <2>1. CountsOfStage /\ Tally
    BY DEF OutInv
  <2>2. UNCHANGED <<settings, position, index, replays, reproduced>> /\ phase' = NoPhase
    OBVIOUS
  <2> QED BY <1>2, <2>1, <2>2, TallyCounts DEF CountsOfStage, Aim, NoPhase
<1>4. outcome' = "counterexample" /\ stage' \in {"over", "replays"}
  OBVIOUS
<1>5. TestedIsCounted' /\ StagesDone'
  BY <1>4 DEF TestedIsCounted, StagesDone, NoOutcome
<1>6. /\ \E call \in Cases' : call[2] = "failed"
      /\ \A call \in Cases' : call[2] # "skipped"
  <2>1. <<phase, "failed">> \in Cases'
    BY DEF Cases
  <2>2. \A call \in Cases : call[2] # "skipped"
    BY <1>2 DEF OutInv, SeenSoFar
  <2> QED BY <2>1, <2>2 DEF Cases
<1>7. SeenSoFar'
  <2>1. failing'.identity # "none"
    BY FailedHasIdentity DEF ThisCase
  <2> QED BY <1>2, <1>4, <1>6, <2>1 DEF SeenSoFar, NoOutcome
<1>8. StagesOfRun'
  BY <1>1, <1>4 DEF StagesOfRun, Kinds, NoOutcome, NoPhase
<1>9. FailingIsCase'
  <2> SUFFICES ASSUME stage' = "replays", IsFunction', IsReplayed'
               PROVE  FailingIsCase'
    BY <1>4 DEF FailingIsCase
  <2>1. provider.kind # "values" /\ body' = body
    BY DEF AsFound, Valued, treeVars
  <2>2. failing' = [choices |-> CaseChoices, requests |-> requests, identity |-> Identity]
    BY DEF ThisCase
  <2>3. /\ failing'.choices = record /\ failing'.requests = requests
        /\ failing'.identity = body[record].identity
    BY <1>1, <2>1, <2>2, CaseOfCall
  <2> QED BY <1>1, <2>1, <2>3, CaseOfCall DEF FailingIsCase
<1>10. ReplaysReproduce' /\ FunctionIsNeverFlaky'
  BY <1>2, <1>4 DEF ReplaysReproduce, FunctionIsNeverFlaky
<1>11. Reports'
  BY <1>2, <1>4, <1>6 DEF Reports
<1> QED BY <1>1, <1>3, <1>5, <1>7, <1>8, <1>9, <1>10, <1>11 DEF OutInv

\* A counted case that ends the run otherwise decides its outcome.
LEMMA TakeEndingOutInv ==
    ASSUME IInv, RInv, OutInv, TakeEnding
    PROVE  OutInv'
<1> USE DEF TakeEnding, Counted, Returned, Return, EndAs
<1>1. /\ PathOfCall' /\ StatusOfCall' /\ ReplayIsOnWay'
      /\ seen' \subseteq Phases \X Statuses
      /\ IsFunction' = IsFunction /\ IsReplayed' = IsReplayed /\ phase \in Phases
  BY ReturnKeeps
<1>2. stage \in Counting /\ outcome = NoOutcome /\ replays = 0 /\ reproduced = 0
  BY CountingHasNoOutcome
<1>3. CountsOfStage'
  <2>1. CountsOfStage /\ Tally
    BY DEF OutInv
  <2>2. UNCHANGED <<settings, position, index, replays, reproduced>> /\ phase' = NoPhase
    OBVIOUS
  <2> QED BY <1>2, <2>1, <2>2, TallyCounts DEF CountsOfStage, Aim, NoPhase
<1>4. /\ stage' = "over"
      /\ outcome' = IF status = "diverged" THEN "flaky" ELSE "skipped"
      /\ status \in {"diverged", "skipped"}
  OBVIOUS
<1>5. TestedIsCounted' /\ StagesDone' /\ SeenSoFar'
  BY <1>4 DEF TestedIsCounted, StagesDone, SeenSoFar, NoOutcome
<1>6. StagesOfRun'
  BY <1>1, <1>4 DEF StagesOfRun, Kinds, NoOutcome, NoPhase
<1>7. FailingIsCase' /\ ReplaysReproduce'
  BY <1>4 DEF FailingIsCase, ReplaysReproduce
<1>8. FunctionIsNeverFlaky'
  BY <1>1, <1>4 DEF FunctionIsNeverFlaky, IInv, FunctionNeverDiverges
<1>9. Reports'
  <2>1. \A call \in Cases : call[2] # "skipped"
    BY <1>2 DEF OutInv, SeenSoFar
  <2>2. Cases' = Cases \cup {<<phase, status>>}
    BY DEF Cases
  <2>3. (\E call \in Cases' : call[2] = "skipped") <=> status = "skipped"
    <3>1. status = "skipped" => <<phase, status>> \in Cases' /\ <<phase, status>>[2] = "skipped"
      BY <2>2
    <3>2. status # "skipped" => \A call \in Cases' : call[2] # "skipped"
      BY <2>1, <2>2
    <3> QED BY <3>1, <3>2, Zenon
  <2> QED BY <1>4, <2>3 DEF Reports
<1> QED BY <1>1, <1>3, <1>5, <1>6, <1>7, <1>8, <1>9 DEF OutInv

\* Every other case is counted, and the run goes on.
LEMMA TakeOtherOutInv ==
    ASSUME IInv, RInv, OutInv, TakeOther
    PROVE  OutInv'
<1> USE DEF TakeOther, Counted, Returned, Return
<1>1. /\ PathOfCall' /\ StatusOfCall' /\ ReplayIsOnWay'
      /\ seen' \subseteq Phases \X Statuses
      /\ IsFunction' = IsFunction /\ IsReplayed' = IsReplayed
      /\ Exhausted' = Exhausted /\ phase \in Phases
  BY ReturnKeeps
<1>2. stage \in Counting /\ outcome = NoOutcome /\ replays = 0 /\ reproduced = 0
  BY CountingHasNoOutcome
<1>3. /\ valid \in Nat /\ rejected \in Nat /\ valid' \in Nat /\ rejected' \in Nat
      /\ valid' >= valid /\ rejected' >= rejected
      /\ status \in {"passed", "rejected"} => valid' + rejected' > 0
  BY TallyCounts DEF OutInv, CountsOfStage
<1>4. CountsOfStage'
  <2>1. CountsOfStage /\ Tally
    BY DEF OutInv
  <2>2. UNCHANGED <<settings, position, index, replays, reproduced>> /\ phase' = NoPhase
    OBVIOUS
  <2> QED BY <1>2, <2>1, <2>2, TallyCounts DEF CountsOfStage, Aim, NoPhase
<1>5. /\ outcome' = NoOutcome
      /\ status \in {"passed", "rejected", "repeated"}
      /\ After(stage) \in {"known", "random", "prefix", "edge", "rest", "token end"}
      /\ After(stage) = "rest" => stage = "rest"
      /\ After(stage) = "token end" => stage = "token"
      /\ stage' = After(stage) \/ (stage' = "confirm" /\ resume' = After(stage))
  BY <1>2 DEF After, Counting
<1>6. TestedIsCounted'
  <2>1. tested # {} => valid' + rejected' > 0
    <3>1. tested # {} => valid + rejected > 0 \/ status \in Endings
      BY <1>2 DEF OutInv, TestedIsCounted
    <3> HIDE DEF TakeOther
    <3>2. valid + rejected > 0 => valid' + rejected' > 0
      BY <1>3, CountsGrow, Zenon
    <3> QED BY <1>3, <1>5, <3>1, <3>2 DEF Endings
  <2>2. status = "repeated" => tested # {}
    BY DEF IInv, RepeatsTestedCases
  <2>3. valid' + rejected' > 0
    BY <1>3, <1>5, <2>1, <2>2
  <2> QED BY <2>3 DEF TestedIsCounted
<1>7. StagesDone'
  <2>1. stage = "rest" => valid' >= Aim \/ Exhausted \/ index = GenerationFactor * Aim
    <3>1. stage = "rest" => valid >= Aim \/ Exhausted \/ index = GenerationFactor * Aim
      BY DEF OutInv, StagesDone
    <3>2. Aim \in Nat
      BY RunsAssumption, FactorsAssumption DEF OutInv, CountsOfStage, RInv, SettingsOfRun, Aim
    <3> QED BY <1>3, <3>1, <3>2
  <2>2. stage = "token" => settings.replay # {}
    BY DEF OutInv, StagesDone
  <2>3. Aim' = Aim /\ UNCHANGED <<settings, index>>
    BY DEF Aim
  <2> QED BY <1>1, <1>5, <2>1, <2>2, <2>3 DEF StagesDone
<1>8. SeenSoFar'
  <2>1. ~Failed' /\ \A call \in Cases' : call[2] \in {"passed", "rejected", "repeated"}
    <3>1. ~Failed /\ \A call \in Cases : call[2] \in {"passed", "rejected", "repeated"}
      BY <1>2 DEF OutInv, SeenSoFar
    <3>2. Cases' = Cases \cup {<<phase, status>>}
      BY DEF Cases
    <3> HIDE DEF TakeOther
    <3>3. <<phase, status>>[2] \in {"passed", "rejected", "repeated"}
      BY <1>5
    <3>4. \A call \in Cases' : call[2] \in {"passed", "rejected", "repeated"}
      BY <3>1, <3>2, <3>3, Zenon
    <3>5. \A call \in seen' : call \in seen \/ call = <<phase, status>>
      BY Zenon DEF TakeOther, Return
    <3>6. \A call \in seen' : call[2] # "failed"
      BY <3>1, <3>3, <3>5, Zenon DEF Failed
    <3>7. ~Failed'
      BY <3>6, Zenon DEF Failed
    <3> QED BY <3>4, <3>7
  <2>2. stage' = "confirm" => failing'.identity = "none"
    <3>1. After(stage) # "confirm"
      BY <1>5
    <3>2. stage' = "confirm" => failing' = ThisCase /\ status = "passed"
      BY <3>1 DEF Confirms
    <3> QED BY <3>2 DEF ThisCase, Identity
  <2> QED BY <1>5, <2>1, <2>2 DEF SeenSoFar
<1>9. StagesOfRun'
  BY <1>1, <1>5 DEF StagesOfRun, Counting, NoOutcome, NoPhase
<1>10. FailingIsCase'
  <2> SUFFICES ASSUME stage' = "confirm", IsFunction', IsReplayed'
               PROVE  FailingIsCase'
    BY <1>5 DEF FailingIsCase
  <2>1. After(stage) # "confirm"
    BY <1>5
  <2>2. provider.kind # "values" /\ status = "passed" /\ body' = body /\ failing' = ThisCase
    BY <2>1 DEF Confirms, Valued, treeVars
  <2>3. failing' = [choices |-> CaseChoices, requests |-> requests, identity |-> Identity]
    BY <2>2 DEF ThisCase
  <2>4. /\ failing'.choices = record /\ failing'.requests = requests
        /\ failing'.identity = "none"
    BY <1>1, <2>2, <2>3, CaseOfCall
  <2> QED BY <1>1, <2>2, <2>4, CaseOfCall DEF FailingIsCase
<1>11. ReplaysReproduce' /\ FunctionIsNeverFlaky' /\ (stage = "over" => Reports)'
  BY <1>5 DEF ReplaysReproduce, FunctionIsNeverFlaky, NoOutcome
<1> QED BY <1>1, <1>4, <1>6, <1>7, <1>8, <1>9, <1>10, <1>11 DEF OutInv

\* A replay of a function's case that returns ended as the case did.
LEMMA ReplayIsSame ==
    ASSUME IInv, RInv, OutInv, IsFunction, IsReplayed, phase \in {"confirm", "replay"}, ~Running
    PROVE  Same
<1> PICK c, asked : c = failing.choices /\ asked = failing.requests
  OBVIOUS
<1>1. stage \in {"confirm", "replays"}
  BY DEF RInv, CallsOfStages
<1>2. /\ asked \in Seq(AllBounds) /\ Len(c) = Len(asked)
      /\ \A k \in 1..Len(c) : asked[k] = body[SubSeq(c, 1, k - 1)].bounds
      /\ failing.identity = IF stage = "confirm" THEN "none" ELSE body[c].identity
      /\ body[c].ending = IF stage = "confirm" THEN "passed" ELSE "failed"
  BY <1>1 DEF OutInv, FailingIsCase
<1>3. provider.kind = "replay" /\ path = c /\ record = c /\ status = body[c].ending
  BY DEF OutInv, ReplayIsOnWay, Replaying
<1>4. /\ requests \in Seq(AllBounds) /\ Len(requests) = Len(c)
      /\ \A k \in 1..Len(c) : requests[k] = body[SubSeq(c, 1, k - 1)].bounds
  BY <1>3 DEF OutInv, PathOfCall
<1>5. requests = asked
  BY <1>2, <1>4
<1>6. Identity = failing.identity
  BY <1>2, <1>3 DEF Identity, Move
<1> QED BY <1>5, <1>6 DEF Same

\* A confirming replay that ends as its case did goes on, another ends as flaky.
LEMMA TakeConfirmOutInv ==
    ASSUME IInv, RInv, OutInv, TakeConfirm
    PROVE  OutInv'
<1> USE DEF TakeConfirm, Returned, Return, EndAs, Counts
<1>1. /\ PathOfCall' /\ StatusOfCall' /\ ReplayIsOnWay'
      /\ seen' \subseteq Phases \X Statuses
      /\ IsFunction' = IsFunction /\ IsReplayed' = IsReplayed /\ Exhausted' = Exhausted
  BY ReturnKeeps DEF NoPhase
<1>2. stage = "confirm" /\ outcome = NoOutcome /\ replays = 0
  BY DEF RInv, CallsOfStages, OutInv, StagesOfRun, CountsOfStage, Counting
<1>3. resume \in {"known", "random", "prefix", "edge", "rest", "token end"}
  BY <1>2 DEF OutInv, StagesOfRun
<1>4. Cases' = Cases
  BY DEF Cases
<1>5. CountsOfStage'
  BY <1>2 DEF OutInv, CountsOfStage, Aim, NoPhase
<1>6. CASE Same
  <2>1. stage' = resume /\ outcome' = NoOutcome
    BY <1>2, <1>6
  <2>2. TestedIsCounted'
    BY <1>2, <2>1 DEF OutInv, TestedIsCounted, treeVars
  <2>3. StagesDone'
    <3>1. Aim' = Aim /\ UNCHANGED <<settings, valid, index>>
      BY DEF Aim
    <3> QED BY <1>1, <1>2, <1>3, <2>1, <3>1 DEF OutInv, StagesDone
  <2>4. SeenSoFar'
    <3>1. status # "failed"
      <4>1. Identity = "none"
        BY <1>2, <1>6 DEF Same, OutInv, SeenSoFar
      <4> QED BY <4>1, FailedHasIdentity
    <3>2. ~Failed /\ \A call \in Cases : call[2] \in {"passed", "rejected", "repeated"}
      BY <1>2 DEF OutInv, SeenSoFar
    <3>3. ~Failed'
      BY <3>1, <3>2 DEF Failed
    <3> QED BY <1>3, <1>4, <2>1, <3>2, <3>3 DEF SeenSoFar
  <2>5. StagesOfRun'
    BY <1>1, <1>3, <2>1 DEF StagesOfRun, Counting, NoOutcome, NoPhase
  <2>6. FailingIsCase' /\ ReplaysReproduce' /\ FunctionIsNeverFlaky' /\ (stage = "over" => Reports)'
    BY <1>3, <2>1 DEF FailingIsCase, ReplaysReproduce, FunctionIsNeverFlaky, NoOutcome
  <2> QED BY <1>1, <1>5, <2>2, <2>3, <2>4, <2>5, <2>6 DEF OutInv
<1>7. CASE ~Same
  <2>1. stage' = "over" /\ outcome' = "flaky"
    BY <1>7
  <2>2. TestedIsCounted' /\ StagesDone' /\ SeenSoFar'
    BY <2>1 DEF TestedIsCounted, StagesDone, SeenSoFar, NoOutcome
  <2>3. StagesOfRun'
    BY <1>1, <2>1 DEF StagesOfRun, Kinds, NoOutcome, NoPhase
  <2>4. FailingIsCase' /\ ReplaysReproduce'
    BY <2>1 DEF FailingIsCase, ReplaysReproduce
  <2>5. FunctionIsNeverFlaky'
    BY <1>1, <1>7, ReplayIsSame DEF FunctionIsNeverFlaky
  <2>6. Reports'
    <3>1. \A call \in Cases' : call[2] # "skipped"
      BY <1>2, <1>4 DEF OutInv, SeenSoFar
    <3> QED BY <2>1, <3>1 DEF Reports
  <2> QED BY <1>1, <1>5, <2>2, <2>3, <2>4, <2>5, <2>6 DEF OutInv
<1> QED BY <1>6, <1>7

\* A replay of the failing case is counted, as reproduced when it ends as the case.
LEMMA TakeReplayOutInv ==
    ASSUME IInv, RInv, OutInv, TakeReplay
    PROVE  OutInv'
<1> USE DEF TakeReplay, Returned, Counts, Progress
<1>1. /\ PathOfCall' /\ StatusOfCall' /\ ReplayIsOnWay'
      /\ seen' \subseteq Phases \X Statuses
      /\ IsFunction' = IsFunction /\ IsReplayed' = IsReplayed /\ Exhausted' = Exhausted
  BY ReturnKeeps DEF NoPhase
<1>2. stage = "replays" /\ stage' = "replays" /\ outcome' = outcome /\ outcome = "counterexample"
  BY DEF RInv, CallsOfStages, OutInv, StagesOfRun
<1>3. Cases' = Cases /\ seen \subseteq seen'
  BY DEF Cases
<1>4. CountsOfStage'
  <2>1. replays < settings.replays /\ replays \in Nat /\ reproduced \in 0..replays
        /\ settings.replays \in Nat
    BY RunsAssumption DEF OutInv, CountsOfStage, RInv, SettingsOfRun
  <2>2. replays' \in 0..settings'.replays /\ reproduced' \in 0..replays'
    BY <2>1
  <2> QED BY <1>2, <2>2 DEF OutInv, CountsOfStage, Aim, NoPhase
<1>5. TestedIsCounted' /\ StagesDone'
  BY <1>2 DEF TestedIsCounted, StagesDone, NoOutcome
<1>6. SeenSoFar'
  <2>1. Same => status = "failed"
    BY <1>2, FailedHasIdentity DEF Same, OutInv, SeenSoFar
  <2>2. reproduced' > 0 => <<"replay", "failed">> \in seen'
    BY <1>2, <1>3, <2>1 DEF OutInv, SeenSoFar
  <2> QED BY <1>2, <1>3, <2>2 DEF OutInv, SeenSoFar, NoOutcome
<1>7. StagesOfRun'
  BY <1>1, <1>2 DEF StagesOfRun, Counting, Kinds, NoOutcome, NoPhase
<1>8. FailingIsCase'
  BY <1>1 DEF OutInv, FailingIsCase, treeVars
<1>9. ReplaysReproduce'
  BY <1>1, <1>2, ReplayIsSame DEF OutInv, ReplaysReproduce, CountsOfStage
<1>10. FunctionIsNeverFlaky' /\ (stage = "over" => Reports)'
  BY <1>2 DEF FunctionIsNeverFlaky
<1> QED BY <1>1, <1>4, <1>5, <1>6, <1>7, <1>8, <1>9, <1>10 DEF OutInv

\* Every step of a run keeps what it says of its calls.
LEMMA NextOutInv == IInv /\ XInv /\ RInv /\ OutInv /\ [RunnerNext]_vars => OutInv'
<1>1. ASSUME OutInv, UNCHANGED vars PROVE OutInv'
  <2> USE <1>1 DEF OutInv, vars, treeVars, runVars
  <2>0. IsFunction' = IsFunction /\ IsReplayed' = IsReplayed /\ Running' = Running
    BY DEF IsFunction, IsReplayed, Running
  <2>1. PathOfCall' /\ StatusOfCall'
    BY <2>0 DEF PathOfCall, StatusOfCall, Move
  <2>2. CountsOfStage' /\ TestedIsCounted' /\ StagesDone'
    BY DEF CountsOfStage, TestedIsCounted, StagesDone, Exhausted, Aim
  <2>3. SeenSoFar' /\ StagesOfRun'
    BY DEF SeenSoFar, StagesOfRun, Running, Failed, Cases
  <2>4. FailingIsCase'
    BY <2>0 DEF FailingIsCase
  <2>5. ReplayIsOnWay' /\ ReplaysReproduce' /\ FunctionIsNeverFlaky'
    BY <2>0 DEF ReplayIsOnWay, ReplaysReproduce, FunctionIsNeverFlaky
  <2>6. (stage = "over" => Reports)'
    BY DEF Reports, Failed, Cases, Tried, Aim, Exhausted
  <2> QED BY <2>1, <2>2, <2>3, <2>4, <2>5, <2>6
<1> QED BY <1>1, WorkOutInv, CallsOutInv, MovesOutInv, ConclusionsOutInv, TakeFailingOutInv,
           TakeEndingOutInv, TakeOtherOutInv, TakeConfirmOutInv, TakeReplayOutInv
        DEF RunnerNext

\* The invariant states OutcomeAgreesWithCalls in full.
LEMMA OutcomeOfInv == IInv /\ XInv /\ RInv /\ OutInv => OutcomeAgreesWithCalls
<1> SUFFICES ASSUME IInv, XInv, RInv, OutInv PROVE OutcomeAgreesWithCalls
  OBVIOUS
<1>1. TypeOK
  BY DEF OutInv, TypeOK, StagesOfRun, StatusOfCall, PathOfCall, CountsOfStage,
         XInv, TreeFits, IInv, LeavesAreTested
<1>2. At("check") /\ Stands => valid > 0
  BY SomeValid DEF At
<1> QED BY <1>1, <1>2 DEF OutcomeAgreesWithCalls, OutInv

\* The whole invariant holds of every run: of its tree, of its calls and of
\* what it has counted and seen.
THEOREM RunInvariant == RunnerSpec => [](IInv /\ XInv /\ RInv /\ OutInv)
<1>1. RunnerInit => IInv /\ XInv /\ RInv /\ OutInv
  BY InitIInv, InitXInv, InitRInv, InitOutInv DEF RunnerInit
<1>2. IInv /\ XInv /\ RInv /\ OutInv /\ [RunnerNext]_vars => (IInv /\ XInv /\ RInv /\ OutInv)'
  BY NextIInv, NextXInv, NextRInv, NextOutInv, NextIsTree
<1> QED BY <1>1, <1>2, PTL DEF RunnerSpec

\* What a run reports is what its calls did, in every phase: no failure, skip
\* or divergence of a case is lost, and a pass has tried all that it owes.
THEOREM OutcomesAgree == RunnerSpec => []OutcomeAgreesWithCalls
  BY RunInvariant, OutcomeOfInv, PTL

\* A function of its choices is never reported as flaky: neither its walks nor
\* its confirming replays nor the replays of its failure differ from its cases,
\* if what it keeps of a record replays as IsReplayed says.
THEOREM NeverFlaky == RunnerSpec => []FunctionIsNeverFlaky
<1>1. OutInv => FunctionIsNeverFlaky
  BY DEF OutInv
<1> QED BY <1>1, RunInvariant, PTL
===========================================================================

------------------------------ MODULE Inverses ------------------------------
(***************************************************************************)
(* Generators run backwards (src/tools/prop/inverse.py): the choices that  *)
(* decode to a given value.                                                *)
(*                                                                         *)
(* Emit gives [end, steps, normal]: end is "steps", or the refusal:        *)
(* "cannot" is CannotInvert and "unknown" is NoInverse.  normal is the     *)
(* value that the steps decode to.                                         *)
(***************************************************************************)
EXTENDS Generators

\* What a walk over a generator needs: the definitions of a shape file, and
\* the recursive generator that a self belongs to.
Scope(definitions, owner) == [definitions |-> definitions, owner |-> owner]

Step(bounds, value) == [bounds |-> bounds, value |-> value]
Emitted(steps, normal) == [end |-> "steps", steps |-> steps, normal |-> normal]
Cannot == [end |-> "cannot", steps |-> <<>>, normal |-> <<>>]
Unknown == [end |-> "unknown", steps |-> <<>>, normal |-> <<>>]

\* A step whose value its bounds admit, before further steps.
Stepping(bounds, value, r) ==
    IF r.end = "steps" /\ Admits(bounds, value)
    THEN [r EXCEPT !.steps = <<Step(bounds, value)>> \o @]
    ELSE IF ~Admits(bounds, value) THEN Cannot ELSE r

One(bounds, value, v) == Stepping(bounds, value, Emitted(<<>>, v))

Positions(vs, v) == {i \in 1..Len(vs) : Canonical(vs[i]) = Canonical(v)}

ChoicesFor(steps) ==
    [i \in 1..Len(steps) |-> [kind |-> steps[i].bounds.kind, value |-> steps[i].value]]

StepNodes(steps) == NodesOf([i \in 1..Len(steps) |-> ValueOf(steps[i].bounds)], ChoicesFor(steps))

\* The shrinker's order of the elements of a set and the entries of a map.
EarlierItem(m, n) == Precedes(StepNodes(m.steps), StepNodes(n.steps))

RECURSIVE Emit(_, _, _), FirstBranch(_, _, _, _, _)

\* Mutant: the first branch decides.
FirstBranchOnly(branches, at, v, bounds, scope) ==
    Stepping(bounds, <<at - 1>>, Emit(branches[at], v, scope))

\* The first branch that produces the value.  Without one, a branch without
\* an inverse leaves it unknown.
FirstOf(r, later) ==
    CASE r.end = "steps" -> r
      [] r.end = "unknown" /\ later.end = "cannot" -> Unknown
      [] OTHER -> later

Chosen(bounds, index, r) == IF r.end = "steps" THEN Stepping(bounds, <<index>>, r) ELSE r

FirstBranch(branches, at, v, bounds, scope) ==
    FirstOf(Chosen(bounds, at - 1, Emit(branches[at], v, scope)),
            IF at = Len(branches) THEN Cannot ELSE FirstBranch(branches, at + 1, v, bounds, scope))

-----------------------------------------------------------------------------
(* Collections. *)

\* The first refusal of the items, or none.
RefusalOf(items) ==
    LET refused == {i \in 1..Len(items) : items[i].end # "steps"}
    IN  IF refused = {} THEN "steps" ELSE items[Min(refused)].end

\* A flag and the steps of each item, then a stop, inside the sizes.
CollectionSteps(g, items) ==
    FlattenSeq([i \in 1..Len(items) |->
                  <<Step(FlagBounds(i - 1, g.least, g.most), <<1>>)>> \o items[i].steps])
    \o <<Step(FlagBounds(Len(items), g.least, g.most), <<0>>)>>

Items(g, items, Normal(_)) ==
    CASE RefusalOf(items) = "cannot" -> Cannot
      [] RefusalOf(items) = "unknown" -> Unknown
      [] RefusalOf(items) = "steps"
           /\ (Len(items) < g.least \/ (g.most # Unbounded /\ Len(items) > g.most)) -> Cannot
      [] OTHER -> Emitted(CollectionSteps(g, items),
                          Normal([i \in 1..Len(items) |-> items[i].normal]))

Distinct(vs) == Cardinality({Canonical(vs[i]) : i \in 1..Len(vs)}) = Len(vs)

Sorted(items) == SortSeq(items, EarlierItem)

InItsOrder(items) == IF RefusalOf(items) = "steps" THEN Sorted(items) ELSE items

EmitEach(g, vs, scope) == [i \in 1..Len(vs) |-> Emit(g.of, vs[i], scope)]

EmitList(g, v, scope) ==
    CASE v[1] # "list" \/ (g.unique /\ ~Distinct(v[2])) -> Cannot
      [] v[1] = "list" /\ g.set /\ Distinct(v[2]) ->
            Items(g, InItsOrder(EmitEach(g, v[2], scope)), List)
      [] OTHER -> Items(g, EmitEach(g, v[2], scope), List)

\* Two parts, emitted one after the other.
Both(r, s, normal) ==
    IF r.end # "steps" THEN r ELSE IF s.end # "steps" THEN s
    ELSE Emitted(r.steps \o s.steps, normal)

AsPair(k, v) == Both(k, v, <<k.normal, v.normal>>)
EmitEntry(g, pair, scope) == AsPair(Emit(g.keys, pair[1], scope), Emit(g.of, pair[2], scope))

EmitDict(g, v, scope) ==
    IF v[1] # "dict" \/ ~Distinct([i \in 1..Len(v[2]) |-> v[2][i][1]]) THEN Cannot
    ELSE Items(g, InItsOrder([i \in 1..Len(v[2]) |-> EmitEntry(g, v[2][i], scope)]),
               LAMBDA normals : <<"dict", normals>>)

RECURSIVE EmitFields(_, _, _)
AsFields(first, rest) == Both(first, rest, <<first.normal>> \o rest.normal)

EmitFields(gs, vs, scope) ==
    IF gs = <<>> THEN Emitted(<<>>, <<>>)
    ELSE AsFields(Emit(Head(gs), Head(vs), scope), EmitFields(Tail(gs), Tail(vs), scope))

\* Steps, with what they decode to.
Decoding(r, normal) == IF r.end = "steps" THEN [r EXCEPT !.normal = normal] ELSE r
AsRecord(r) == Decoding(r, RecordValue(r.normal))

EmitRecord(g, v, scope) ==
    IF v[1] # "record" \/ Len(v[2]) # Len(g.fields) THEN Cannot
    ELSE AsRecord(EmitFields(g.fields, v[2], scope))

-----------------------------------------------------------------------------
(* Sequences of indices, and the swaps of a permutation. *)

IndexIn(characters, char) == {i \in 1..Len(characters) : characters[i] = char}

EmitString(g, v) ==
    IF v[1] # "string" \/ \E i \in 1..Len(v[2]) : IndexIn(g.characters, v[2][i]) = {}
    THEN Cannot
    ELSE One(g.bounds, [i \in 1..Len(v[2]) |-> Min(IndexIn(g.characters, v[2][i])) - 1], v)

\* The smallest index at each swap that leaves the value at its position.
RECURSIVE EmitSwaps(_, _, _, _)
EmitSwaps(current, i, v, steps) ==
    LET places == {j \in i..Len(current) : Canonical(current[j]) = Canonical(v[2][i])}
        j == Min(places)
    IN  IF i >= Len(current)
        THEN IF Canonical(List(current)) = Canonical(v) THEN Emitted(steps, v) ELSE Cannot
        ELSE IF places = {} THEN Cannot
        ELSE EmitSwaps(Swapped(current, i, j), i + 1, v,
                       Append(steps, Step(Ints(i - 1, Len(current) - 1), <<j - 1>>)))

EmitPermutation(g, v) ==
    IF v[1] # "list" \/ Len(v[2]) # Len(g.values) THEN Cannot
    ELSE EmitSwaps(g.values, 1, v, <<>>)

-----------------------------------------------------------------------------
(* Patterns: every way a node matches a text from a position, in the order *)
(* of a backtracking engine.  A way is [end, steps].                       *)

RECURSIVE Matches(_, _, _), MatchesAll(_, _, _), MatchesRepeat(_, _, _, _)

Way(end, steps) == [end |-> end, steps |-> steps]
Prefixed(steps, ways) == [i \in 1..Len(ways) |-> [ways[i] EXCEPT !.steps = steps \o @]]

MatchesAll(nodes, text, at) ==
    IF nodes = <<>> THEN <<Way(at, <<>>)>>
    ELSE LET firsts == Matches(Head(nodes), text, at)
         IN  FlattenSeq([i \in 1..Len(firsts) |->
                Prefixed(firsts[i].steps, MatchesAll(Tail(nodes), text, firsts[i].end))])

\* The most repetitions first; one that matches nothing is not repeated
\* beyond the minimum.
MatchesRepeat(node, text, at, count) ==
    LET flag == FlagBounds(count, node.least, node.most)
        firsts == SelectSeq(Matches(node.item, text, at),
                            LAMBDA w : w.end # at \/ count < node.least)
        more == FlattenSeq([i \in 1..Len(firsts) |->
                    Prefixed(<<Step(flag, <<1>>)>> \o firsts[i].steps,
                             MatchesRepeat(node, text, firsts[i].end, count + 1))])
    IN  (IF flag.hi = 1 THEN more ELSE <<>>)
        \o (IF flag.lo = 0 THEN <<Way(at, <<Step(flag, <<0>>)>>)>> ELSE <<>>)

Matches(node, text, at) ==
    CASE node.id = "literal" ->
            IF at <= Len(text) /\ text[at] = node.char THEN <<Way(at + 1, <<>>)>> ELSE <<>>
      [] node.id = "class" ->
            IF at > Len(text) \/ IndexIn(node.members, text[at]) = {} THEN <<>>
            ELSE <<Way(at + 1, <<Step(Ints(0, Len(node.members) - 1),
                                      <<Min(IndexIn(node.members, text[at])) - 1>>)>>)>>
      [] node.id = "sequence" -> MatchesAll(node.items, text, at)
      [] node.id = "alternation" ->
            FlattenSeq([i \in 1..Len(node.branches) |->
                Prefixed(<<Step(Ints(0, Len(node.branches) - 1), <<i - 1>>)>>,
                         Matches(node.branches[i], text, at))])
      [] node.id = "repeat" -> MatchesRepeat(node, text, at, 0)

EmitMatching(g, v) ==
    LET whole == SelectSeq(Matches(g.node, v[2], 1), LAMBDA w : w.end = Len(v[2]) + 1)
    IN  IF v[1] # "string" \/ whole = <<>> THEN Cannot ELSE Emitted(whole[1].steps, v)

-----------------------------------------------------------------------------
(* Shapes. *)

IsPair(v) == v[1] = "record" /\ Len(v[2]) = 2

\* Two integers as two choices, the second bounded by the first.
EmitParts(first, second, lo, hi, top, v) ==
    Stepping(Ints(lo[1], hi[1]), <<first>>, One(SecondPart(first, lo, hi, top), <<second>>, v))

EmitWide(g, v) ==
    IF v[1] # "int" THEN Cannot
    ELSE EmitParts(Halves(v[2])[1], Halves(v[2])[2], Halves(g.lo), Halves(g.hi), HalfRange - 1, v)

EmitInstant(g, v) ==
    LET seconds == v[2][1][2]
        units == v[2][2][2]
    IN  CASE ~IsPair(v) -> Cannot
          [] IsPair(v) /\ g.per = 1 ->
                IF units # 0 THEN Cannot ELSE One(Ints(g.lo[1], g.hi[1]), <<seconds>>, v)
          [] OTHER -> EmitParts(seconds, units, g.lo, g.hi, g.per - 1, v)

EmitLocal(g, v) ==
    IF ~IsPair(v) THEN Cannot
    ELSE EmitParts(v[2][1][2], v[2][2][2], g.lo, g.hi, DaySeconds * g.per - 1, v)

\* The zone and the branch of the whole range, then the value in the zone.
InZoneOf(zone, inner) ==
    Stepping(Ints(0, Len(Zones) - 1), <<zone>>,
             IF Zones[zone + 1] = <<>> THEN inner ELSE Stepping(Ints(0, 1), <<0>>, inner))

EmitZonal(g, v, scope) ==
    IF ~IsPair(v) THEN Cannot
    ELSE Decoding(InZoneOf(v[2][2][2][1], Emit(g.of, v[2][1], scope)), v)

AsVariant(index, r) == Decoding(r, <<"variant", index, r.normal>>)

EmitEnum(g, v, scope) ==
    LET payload == g.variants[v[2] + 1]
        index == Ints(0, Len(g.variants) - 1)
    IN  CASE v[1] # "variant" -> Cannot
          [] v[1] = "variant" /\ payload = NoPayload ->
                IF Len(v) = 3 THEN Cannot ELSE One(index, <<v[2]>>, v)
          [] OTHER -> Chosen(index, v[2], AsVariant(v[2], Emit(payload, v[3], scope)))

EmitIp(g, v) ==
    LET fitting == {i \in 1..2 : g.versions[i].bounds.least = Len(v[2])}
    IN  IF v[1] # "bytes" \/ fitting = {} THEN Cannot
        ELSE Stepping(Ints(0, 1), <<Min(fitting) - 1>>,
                      One(g.versions[Min(fitting)].bounds, v[2], v))

-----------------------------------------------------------------------------
(* Every inverse. *)

EmitIndexed(g, v) ==
    IF Positions(g.values, v) = {} THEN Cannot
    ELSE One(Ints(0, Len(g.values) - 1), <<Min(Positions(g.values, v)) - 1>>, v)

EmitOptional(g, v, scope) ==
    IF v = None THEN One(Ints(0, 1), <<0>>, None)
    ELSE Stepping(Ints(0, 1), <<1>>, Emit(g.of, v, scope))

EmitPosition(g, v, scope) ==
    FirstBranch(<<g.base, g.extend>>, 1, v, Ints(0, 1), [scope EXCEPT !.owner = g])

Emit(g, v, scope) ==
    CASE g.id = "integer" -> IF v[1] # "int" THEN Cannot ELSE One(g.bounds, <<v[2]>>, v)
      [] g.id = "boolean" ->
            IF v[1] # "bool" THEN Cannot ELSE One(Ints(0, 1), <<IF v[2] THEN 1 ELSE 0>>, v)
      [] g.id = "just" ->
            IF Canonical(v) = Canonical(g.stated) THEN Emitted(<<>>, v) ELSE Cannot
      [] g.id = "sampled-from" -> EmitIndexed(g, v)
      [] g.id = "one-of" ->
            FirstBranch(g.alternatives, 1, v, Ints(0, Len(g.alternatives) - 1), scope)
      [] g.id = "optional" -> EmitOptional(g, v, scope)
      [] g.id = "list" -> EmitList(g, v, scope)
      [] g.id = "dict" -> EmitDict(g, v, scope)
      [] g.id = "string" -> EmitString(g, v)
      [] g.id = "bytes" -> IF v[1] # "bytes" THEN Cannot ELSE One(g.bounds, v[2], v)
      [] g.id = "permutation" -> EmitPermutation(g, v)
      [] g.id = "string-matching" -> EmitMatching(g, v)
      [] g.id = "filter" -> IF Keep(g.keep, v) THEN Emit(g.of, v, scope) ELSE Cannot
      [] g.id = "map" -> Unknown
      [] g.id = "recursive" -> EmitPosition(g, v, scope)
      [] g.id = "self" -> EmitPosition(scope.owner, v, scope)
      [] g.id = "root" -> Emit(g.of, v, scope)
      [] g.id = "ref" -> Emit(scope.definitions[g.name], v, scope)
      [] g.id = "record" -> EmitRecord(g, v, scope)
      [] g.id = "enum" -> EmitEnum(g, v, scope)
      [] g.id = "int128" -> EmitWide(g, v)
      [] g.id = "instant" -> EmitInstant(g, v)
      [] g.id = "local-date-time" -> EmitLocal(g, v)
      [] g.id \in {"zoned-date-time", "wall-time"} -> EmitZonal(g, v, scope)
      [] g.id = "ip-address" -> EmitIp(g, v)

Refused(how) == [end |-> how, choices |-> <<>>]

\* A replay records the choices as they are, and decodes to the value.
Repeats(replay, choices, normal) ==
    /\ replay.end = "value"
    /\ replay.case.choices = choices
    /\ Canonical(replay.value) = Canonical(normal)

Proven(g, choices, normal, definitions) ==
    IF Repeats(Decode(g, NewCase(Replaying(choices), definitions)), choices, normal)
    THEN [end |-> "steps", choices |-> choices]
    ELSE Refused("cannot")

\* The choices that decode to the value, which a replay proves.
InvertAs(g, r, definitions) ==
    IF r.end # "steps" THEN Refused(r.end)
    ELSE Proven(g, ChoicesFor(r.steps), r.normal, definitions)

Invert(g, v, definitions) ==
    InvertAs(g, Emit(g, v, Scope(definitions, NoPayload)), definitions)
=============================================================================

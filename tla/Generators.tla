----------------------------- MODULE Generators -----------------------------
(***************************************************************************)
(* The generators (src/tools/prop/generator.py), the collections           *)
(* (collection.py), the patterns (pattern.py) and the shapes (shape.py),   *)
(* each as what its decode asks of a case.                                 *)
(*                                                                         *)
(* A decoded value is a tuple that starts with its type, so that values of *)
(* different types differ: <<"int", 3>>, <<"list", elements>>,             *)
(* <<"dict", pairs>>.  A string is its characters, and a character a       *)
(* number.  Fields are told by their position.  Float generators and the   *)
(* default alphabet are left out.                                          *)
(***************************************************************************)
EXTENDS Cases

CONSTANTS MaxDiscards,    \* MAX_DISCARDS: duplicates in a row that stop a collection.
          Budget,         \* BUDGET: the nodes that one value of a shape file may use.
          HalfRange,      \* 2^HALF: the values of the low half of a wide integer.
          DaySeconds,     \* SECONDS_PER_DAY.
          Zones,          \* The zones, each its offset changes [at, before, after].
          Keep(_, _),     \* Whether a predicate keeps a value.
          Apply(_, _)     \* What a subject kind's function returns for a value.

ASSUME LimitsAssumption == /\ MaxDiscards \in Nat \ {0} /\ Budget \in Nat \ {0}
                           /\ HalfRange \in Nat \ {0} /\ DaySeconds \in Nat \ {0}

FilterAttempts == 3       \* FILTER_ATTEMPTS

-----------------------------------------------------------------------------
(* The specs. *)

Integer(lo, hi) == [id |-> "integer", bounds |-> Ints(lo, hi)]
Boolean == [id |-> "boolean"]
Just(v) == [id |-> "just", stated |-> v]
SampledFrom(vs) == [id |-> "sampled-from", values |-> vs]
OneOf(gs) == [id |-> "one-of", alternatives |-> gs]
Optional(g) == [id |-> "optional", of |-> g, exits |-> FALSE]
ListOf(g, least, most) ==
    [id |-> "list", of |-> g, least |-> least, most |-> most,
     unique |-> FALSE, set |-> FALSE, exits |-> FALSE]
UniqueList(g, least, most) == [ListOf(g, least, most) EXCEPT !.unique = TRUE]
SetOf(g, least, most) == [UniqueList(g, least, most) EXCEPT !.set = TRUE]
DictOf(k, g, least, most) ==
    [id |-> "dict", keys |-> k, of |-> g, least |-> least, most |-> most, exits |-> FALSE]
StringOf(characters, least, most) ==
    [id |-> "string", characters |-> characters,
     bounds |-> Seqs(Len(characters), least, most)]
Bytes(k, least, most) == [id |-> "bytes", bounds |-> Seqs(k, least, most)]
Permutation(vs) == [id |-> "permutation", values |-> vs]
Filter(g, keep) == [id |-> "filter", of |-> g, keep |-> keep]
Map(g, subject) == [id |-> "map", of |-> g, subject |-> subject]
Recursive(base, extend, max) ==
    [id |-> "recursive", base |-> base, extend |-> extend, max_leaves |-> max]
\* Where the extension of a recursive generator decodes it again.  A self
\* belongs to the innermost recursive generator around it.
Self == [id |-> "self"]
Matching(node) == [id |-> "string-matching", node |-> node]

\* The nodes of a pattern.
Literal(char) == [id |-> "literal", char |-> char]
ClassOf(chars) == [id |-> "class", members |-> chars]
Pieces(nodes) == [id |-> "sequence", items |-> nodes]
Branches(nodes) == [id |-> "alternation", branches |-> nodes]
Repeat(node, least, most) ==
    [id |-> "repeat", item |-> node, least |-> least, most |-> most, exits |-> FALSE]

\* The shapes.  exit is 0 for an enum that does not refer back, and counts
\* its variants from 1; a variant without a payload has the payload NoPayload.
NoPayload == [id |-> "no payload"]
RecordOf(gs) == [id |-> "record", fields |-> gs]
EnumOf(payloads, exit) == [id |-> "enum", variants |-> payloads, exit |-> exit]
Ref(name, cyclic) == [id |-> "ref", name |-> name, cyclic |-> cyclic]
Root(g) == [id |-> "root", of |-> g]
Wide(lo, hi) == [id |-> "int128", lo |-> lo, hi |-> hi]
Instant(per, lo, hi) == [id |-> "instant", per |-> per, lo |-> lo, hi |-> hi]
LocalDateTime(per, lo, hi) == [id |-> "local-date-time", per |-> per, lo |-> lo, hi |-> hi]
Zoned(instant) == [id |-> "zoned-date-time", of |-> instant]
Wall(local) == [id |-> "wall-time", of |-> local]
IpAddress(k, short, long) ==
    [id |-> "ip-address", versions |-> <<Bytes(k, short, short), Bytes(k, long, long)>>]

-----------------------------------------------------------------------------
(* The equality of values that uniqueness is decided by. *)

RECURSIVE Canonical(_)
Canonical(v) ==
    CASE v[1] \in {"list", "record"} -> <<v[1], [i \in 1..Len(v[2]) |-> Canonical(v[2][i])]>>
      [] v[1] = "dict" -> <<"map", {<<Canonical(v[2][i][1]), Canonical(v[2][i][2])>> :
                                      i \in 1..Len(v[2])}>>
      [] v[1] = "variant" /\ Len(v) = 3 -> <<"variant", v[2], Canonical(v[3])>>
      [] OTHER -> v

None == <<"null">>
Num(n) == <<"int", n>>
Bool(b) == <<"bool", b>>
List(vs) == <<"list", vs>>
RecordValue(vs) == <<"record", vs>>

-----------------------------------------------------------------------------
(* The counts that the code keeps with a generator while a value decodes:  *)
(* the leaves of each recursive value, and the nodes of each value of a    *)
(* shape file.  A rewind does not undo either.                             *)

Count(c, generator) == [c EXCEPT !.leaves = Append(@, [of |-> generator, used |-> 0])]
Uncount(r) == [r EXCEPT !.case.leaves = Front(@)]
Spent(c) == [c EXCEPT !.leaves[Len(c.leaves)].used = @ + 1]
Exhausted(c, limit) == c.leaves # <<>> /\ Last(c.leaves).used >= limit

-----------------------------------------------------------------------------
(* Collections. *)

RECURSIVE Decode(_, _), EmitPattern(_, _), Collect(_, _, _, _, _), InTurn(_, _, _)

Entries(g) == g.id = "dict"
ElementLabel(g) == IF Entries(g) THEN "entry" ELSE "element"

\* One element: the key and the value of an entry, the characters of a
\* repetition, or a value.
Element(g, c) ==
    IF Entries(g)
    THEN Then(Decode(g.keys, c), LAMBDA d, k :
         Then(Decode(g.of, d), LAMBDA e, v : Yield(e, <<k, v>>)))
    ELSE IF g.id = "repeat" THEN EmitPattern(g.item, c) ELSE Decode(g.of, c)

\* The keys an element must be unique by: none in a collection that allows
\* duplicates.
KeysOf(g, item) ==
    CASE Entries(g) -> {Canonical(item[1])}
      [] g.id = "list" /\ g.unique -> {Canonical(item)}
      [] OTHER -> {}

Flag(g, c, count) ==
    LET stopped == g.exits /\ count >= g.least /\ Exhausted(c, Budget)
        most == IF stopped THEN count ELSE g.most
    IN  Request(FlagBounds(count, g.least, most), IF count = 0 THEN 1 ELSE 0, FALSE)

\* collection.collect: a continue flag before each element, whose span
\* starts at its flag.  A duplicate is discarded, and too many in a row end
\* the collection, or the case while it is below its minimum.
Collect(g, c, items, seen, discards) ==
    Then(Choose(c, Flag(g, c, Len(items))), LAMBDA d, more :
    IF more = <<0>> THEN Yield(d, items)
    ELSE Then(SpanFrom(d, ElementLabel(g), Len(c.choices), LAMBDA e : Element(g, e)),
              LAMBDA e, item :
         LET keys == KeysOf(g, item)
             repeated == keys # {} /\ keys \subseteq seen
         IN  CASE ~repeated -> Collect(g, e, Append(items, item), seen \cup keys, 0)
               [] repeated /\ discards + 1 < MaxDiscards ->
                    Collect(g, e, items, seen, discards + 1)
               [] repeated /\ discards + 1 >= MaxDiscards /\ Len(items) < g.least ->
                    Ended(e, "rejected")
               [] OTHER -> Yield(e, items)))

Collection(g, c) == Collect(g, c, <<>>, {}, 0)

\* Parts that decode one after another, each to one value.
InTurn(gs, c, values) ==
    IF Len(values) = Len(gs) THEN Yield(c, values)
    ELSE Then(Decode(gs[Len(values) + 1], c), LAMBDA d, v : InTurn(gs, d, Append(values, v)))

-----------------------------------------------------------------------------
(* Patterns: each node yields the characters that it appends. *)

RECURSIVE EmitAll(_, _, _)
EmitAll(nodes, c, out) ==
    IF nodes = <<>> THEN Yield(c, out)
    ELSE Then(EmitPattern(Head(nodes), c), LAMBDA d, text : EmitAll(Tail(nodes), d, out \o text))

EmitPattern(node, c) ==
    CASE node.id = "literal" -> Yield(c, <<node.char>>)
      [] node.id = "class" ->
            Then(Choose(c, ValueOf(Ints(0, Len(node.members) - 1))), LAMBDA d, i :
                 Yield(d, <<node.members[i[1] + 1]>>))
      [] node.id = "sequence" -> EmitAll(node.items, c, <<>>)
      [] node.id = "alternation" ->
            Span(c, "alternation", LAMBDA d :
            Then(Choose(d, Structure(0, Len(node.branches) - 1, 0)), LAMBDA e, i :
                 EmitPattern(node.branches[i[1] + 1], e)))
      [] node.id = "repeat" ->
            Span(c, "repeat", LAMBDA d :
            Then(Collection(node, d), LAMBDA e, texts : Yield(e, FlattenSeq(texts))))

-----------------------------------------------------------------------------
(* The generators that make one kind of value. *)

DecodeInteger(g, c) ==
    Then(Choose(c, Request(g.bounds, NoEdge, TRUE)), LAMBDA d, v : Yield(d, Num(v[1])))

DecodeBoolean(c) ==
    Then(Choose(c, ValueOf(Ints(0, 1))), LAMBDA d, v : Yield(d, Bool(v = <<1>>)))

DecodeSampledFrom(g, c) ==
    Then(Choose(c, Structure(0, Len(g.values) - 1, 0)), LAMBDA d, i :
         Yield(d, g.values[i[1] + 1]))

DecodeOneOf(gs, c) ==
    Then(Choose(c, Structure(0, Len(gs) - 1, 0)), LAMBDA d, i : Decode(gs[i[1] + 1], d))

\* Mutant: an optional shape goes on past the budget.
DecodeOptionalGrowing(g, c) ==
    Then(Choose(c, Structure(0, 1, 1)), LAMBDA d, present :
         IF present = <<1>> THEN Decode(g.of, d) ELSE Yield(d, None))

\* An optional shape that refers back is absent once the budget is used.
DecodeOptional(g, c) ==
    LET most == IF g.exits /\ Exhausted(c, Budget) THEN 0 ELSE 1
    IN  Then(Choose(c, Structure(0, most, 1)), LAMBDA d, present :
             IF present = <<1>> THEN Decode(g.of, d) ELSE Yield(d, None))

DecodeString(g, c) ==
    Then(Choose(c, ValueOf(g.bounds)), LAMBDA d, v :
         Yield(d, <<"string", [i \in 1..Len(v) |-> g.characters[v[i] + 1]]>>))

DecodeBytes(g, c) ==
    Then(Choose(c, ValueOf(g.bounds)), LAMBDA d, v : Yield(d, <<"bytes", v>>))

Swapped(s, i, j) == [s EXCEPT ![i] = s[j], ![j] = s[i]]

RECURSIVE Swaps(_, _, _)
Swaps(ordered, i, c) ==
    IF i >= Len(ordered) THEN Yield(c, List(ordered))
    ELSE Then(Choose(c, ValueOf(Ints(i - 1, Len(ordered) - 1))), LAMBDA d, j :
              Swaps(Swapped(ordered, i, j[1] + 1), i + 1, d))

\* A filter's attempts, each in its own span; a rejected one leaves the
\* record, and the last one rejects the case.
RECURSIVE Attempts(_, _, _)
Attempts(g, c, left) ==
    Then(Span(c, "filter", LAMBDA d : Decode(g.of, d)), LAMBDA e, v :
    CASE Keep(g.keep, v) -> Yield(e, v)
      [] ~Keep(g.keep, v) /\ left > 1 -> Attempts(g, Rewind(e, Mark(c)), left - 1)
      [] OTHER -> Ended(e, "rejected"))

\* One position of a recursive value: the base once its leaves are used.
Position(c) ==
    LET g == Last(c.leaves).of
        most == IF Exhausted(c, g.max_leaves) THEN 0 ELSE 1
    IN  Span(c, "recursive", LAMBDA d :
        Then(Choose(d, Structure(0, most, 0)), LAMBDA e, extended :
             IF extended = <<1>> THEN Decode(g.extend, e) ELSE Decode(g.base, Spent(e))))

-----------------------------------------------------------------------------
(* Shapes. *)

\* The bounds of the second choice of a two-choice shape.
SecondPart(first, lo, hi, top) ==
    Ints(IF first = lo[1] THEN lo[2] ELSE 0, IF first = hi[1] THEN hi[2] ELSE top)

\* Two choices, the second bounded by the first.
Parts(c, lo, hi, top, Value(_, _)) ==
    Then(Choose(c, Request(Ints(lo[1], hi[1]), NoEdge, TRUE)), LAMBDA d, first :
    Then(Choose(d, Request(SecondPart(first[1], lo, hi, top), NoEdge, TRUE)), LAMBDA e, second :
         Yield(e, Value(first[1], second[1]))))

Halves(n) == <<n \div HalfRange, n % HalfRange>>
Pair(m, n) == RecordValue(<<Num(m), Num(n)>>)

DecodeWide(g, c) ==
    Parts(c, Halves(g.lo), Halves(g.hi), HalfRange - 1, LAMBDA m, n : Num(m * HalfRange + n))

DecodeInstant(g, c) ==
    IF g.per > 1 THEN Parts(c, g.lo, g.hi, g.per - 1, Pair)
    ELSE Then(Choose(c, Request(Ints(g.lo[1], g.hi[1]), NoEdge, TRUE)), LAMBDA d, s :
              Yield(d, Pair(s[1], 0)))

DecodeLocal(g, c) == Parts(c, g.lo, g.hi, DaySeconds * g.per - 1, Pair)

InZone(value, zone) == RecordValue(<<value, <<"string", <<zone>>>>>>)

WholeRange(g, c, zone) == Then(Decode(g.of, c), LAMBDA d, v : Yield(d, InZone(v, zone)))

\* A zone, and whether the value comes from one of its changes: a change and
\* a step of one unit around it, or a value of the whole range.
Zonal(g, c, Near(_, _, _)) ==
    Then(Choose(c, Structure(0, Len(Zones) - 1, 0)), LAMBDA d, z :
    LET changes == Zones[z[1] + 1]
    IN  IF changes = <<>> THEN WholeRange(g, d, z[1])
        ELSE Then(Choose(d, ValueOf(Ints(0, 1))), LAMBDA e, near :
             IF near = <<0>> THEN WholeRange(g, e, z[1])
             ELSE Then(Choose(e, Structure(0, Len(changes) - 1, 0)), LAMBDA f, i :
                  Then(Choose(f, Request(Ints(-1, 1), NoEdge, TRUE)), LAMBDA h, step :
                  Then(Near(h, changes[i[1] + 1], step[1]), LAMBDA k, v :
                       Yield(k, InZone(v, z[1])))))))

DecodeZoned(g, c) ==
    LET per == g.of.per
    IN  Zonal(g, c, LAMBDA d, change, step :
            LET total == change.at * per + step
            IN  Yield(d, Pair(total \div per, total % per)))

DecodeWall(g, c) ==
    LET per == g.of.per
        day == DaySeconds * per
    IN  Zonal(g, c, LAMBDA d, change, step :
            Then(Choose(d, ValueOf(Ints(0, 1))), LAMBDA e, after :
            LET offset == IF after = <<1>> THEN change.after ELSE change.before
                total == (change.at + offset) * per + step
            IN  Yield(e, Pair(total \div day, total % day))))

\* An enum that refers back takes its exit once the budget is used.
DecodeEnum(g, c) ==
    LET exits == g.exit # 0 /\ Exhausted(c, Budget)
        lo == IF exits THEN g.exit - 1 ELSE 0
        hi == IF exits THEN g.exit - 1 ELSE Len(g.variants) - 1
    IN  Then(Choose(c, Structure(lo, hi, 0)), LAMBDA d, i :
        IF g.variants[i[1] + 1] = NoPayload THEN Yield(d, <<"variant", i[1]>>)
        ELSE Then(Decode(g.variants[i[1] + 1], d), LAMBDA e, v :
                  Yield(e, <<"variant", i[1], v>>)))

-----------------------------------------------------------------------------
(* Every decode.  The span of a generator contains all its choices; a map, *)
(* a self, a ref and a root have none of their own.                        *)

Inside(g, c) ==
    CASE g.id = "integer" -> DecodeInteger(g, c)
      [] g.id = "boolean" -> DecodeBoolean(c)
      [] g.id = "just" -> Yield(c, g.stated)
      [] g.id = "sampled-from" -> DecodeSampledFrom(g, c)
      [] g.id = "one-of" -> DecodeOneOf(g.alternatives, c)
      [] g.id = "optional" -> DecodeOptional(g, c)
      [] g.id = "list" -> Then(Collection(g, c), LAMBDA d, vs : Yield(d, List(vs)))
      [] g.id = "dict" -> Then(Collection(g, c), LAMBDA d, vs : Yield(d, <<"dict", vs>>))
      [] g.id = "string" -> DecodeString(g, c)
      [] g.id = "bytes" -> DecodeBytes(g, c)
      [] g.id = "permutation" -> Swaps(g.values, 1, c)
      [] g.id = "string-matching" ->
            Then(EmitPattern(g.node, c), LAMBDA d, text : Yield(d, <<"string", text>>))
      [] g.id = "record" ->
            Then(InTurn(g.fields, c, <<>>), LAMBDA d, vs : Yield(d, RecordValue(vs)))
      [] g.id = "enum" -> DecodeEnum(g, c)
      [] g.id = "int128" -> DecodeWide(g, c)
      [] g.id = "instant" -> DecodeInstant(g, c)
      [] g.id = "local-date-time" -> DecodeLocal(g, c)
      [] g.id = "zoned-date-time" -> DecodeZoned(g, c)
      [] g.id = "wall-time" -> DecodeWall(g, c)
      [] g.id = "ip-address" -> DecodeOneOf(g.versions, c)

Decode(g, c) ==
    CASE g.id = "filter" -> Attempts(g, c, FilterAttempts)
      [] g.id = "map" ->
            Then(Decode(g.of, c), LAMBDA d, v : Yield(d, Apply(g.subject, v)))
      [] g.id = "recursive" -> Uncount(Position(Count(c, g)))
      [] g.id = "self" -> Position(c)
      [] g.id = "root" -> Uncount(Decode(g.of, Count(c, g)))
      [] g.id = "ref" -> Decode(c.definitions[g.name], IF g.cyclic THEN Spent(c) ELSE c)
      [] OTHER -> Span(c, g.id, LAMBDA d : Inside(g, d))
=============================================================================

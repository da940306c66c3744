------------------------------- MODULE Cases -------------------------------
(***************************************************************************)
(* The record of one call of a body, and the providers of its values       *)
(* (src/tools/prop/case.py).  A case is a record, and each operation of    *)
(* the code is an operator from a case to what it leaves:                  *)
(*   [case, end, value], where end is "value", or why the body ended.      *)
(*                                                                         *)
(* A random source is a tape of numbers: each decision of a draw takes     *)
(* one, and a tape that ran out gives zeros.  The distributions are left   *)
(* out.  Indices count from 0, as in the code: the choices of a span are   *)
(* those from start up to and without end.                                 *)
(***************************************************************************)
EXTENDS Choices

CONSTANT MaxChoices          \* The cap on what a case's values count.
ASSUME CapAssumption == MaxChoices \in Nat

-----------------------------------------------------------------------------
(* Requests. *)

NoEdge == -1

Request(bounds, edge, reuse) == [bounds |-> bounds, edge |-> edge, reuse |-> reuse]
ValueOf(bounds) == Request(bounds, NoEdge, FALSE)
Structure(lo, hi, edge) == Request(Ints(lo, hi), edge, FALSE)

-----------------------------------------------------------------------------
(* Providers. *)

Replaying(choices) == [kind |-> "replay", choices |-> choices]
Valuing(values) == [kind |-> "values", values |-> values]
Generating(tape) == [kind |-> "tape", tape |-> tape, earlier |-> <<>>]
AtEdge(boundary) == [kind |-> "edge", boundary |-> boundary]

Heads(tape) == IF tape = <<>> THEN 0 ELSE Head(tape)
Rest(tape) == IF tape = <<>> THEN <<>> ELSE Tail(tape)

\* A draw that has one value to return consumes no number.  Any other takes
\* one number, the value's position in the key order of the bounds.
DrawnInteger(b, tape) ==
    IF b.lo = b.hi THEN [value |-> <<b.lo>>, tape |-> tape]
    ELSE [value |-> <<AtRank(b, Heads(tape) % (b.hi - b.lo + 1))>>, tape |-> Rest(tape)]

\* The decision whether a collection of count elements gets another one.
FlagBounds(count, least, most) ==
    IF count < least THEN Ints(1, 1)
    ELSE IF most # Unbounded /\ count >= most THEN Ints(0, 0) ELSE Ints(0, 1)

RECURSIVE DrawnSequence(_, _, _), DrawnMore(_, _, _)
DrawnSequence(b, elements, flag) ==
    IF flag.value = <<0>> THEN [value |-> elements, tape |-> flag.tape]
    ELSE DrawnMore(b, elements, DrawnInteger(Ints(0, b.k - 1), flag.tape))

DrawnMore(b, elements, element) ==
    DrawnSequence(b, elements \o element.value,
                  DrawnInteger(FlagBounds(Len(elements) + 1, b.least, b.most), element.tape))

Drawn(b, tape) == IF IsInts(b) THEN DrawnInteger(b, tape) 
    ELSE DrawnSequence(b, <<>>, DrawnInteger(FlagBounds(0, b.least, b.most), tape))

\* Mutant: what a rewind removed stays on offer.
RememberedAll(earlier, index) == earlier

\* A request at an index forgets the values kept for the choices that a
\* rewind removed from that index on.
Remembered(earlier, index) == SelectSeq(earlier, LAMBDA e : e.index < index)

Offers(earlier, bounds) == SelectSeq(earlier, LAMBDA e : e.bounds = bounds)

Reusable(req) == req.reuse /\ req.bounds.lo < req.bounds.hi

\* A value drawn from the tape, or one of those on offer: the first number
\* says whether to reuse, the second which value.
Taken(b, tape, offers) ==
    IF offers # <<>> /\ Heads(tape) % 2 = 1
    THEN [value |-> offers[1 + (Heads(Rest(tape)) % Len(offers))].value,
          tape |-> Rest(Rest(tape))]
    ELSE Drawn(b, IF offers = <<>> THEN tape ELSE Rest(tape))

\* A reusable request keeps its value for later ones.
Keeping(p, req, index, earlier, got) ==
    [prov |-> [p EXCEPT !.tape = got.tape,
                        !.earlier = IF Reusable(req)
                                    THEN Append(earlier, [index |-> index, bounds |-> req.bounds,
                                                          value |-> got.value])
                                    ELSE earlier],
     value |-> got.value]

Generated(p, req, index) ==
    LET earlier == Remembered(p.earlier, index)
        offers == IF Reusable(req) THEN Offers(earlier, req.bounds) ELSE <<>>
    IN  Keeping(p, req, index, earlier, Taken(req.bounds, p.tape, offers))

\* The recorded value fitted to the request, or the target past the last.
Replayed(p, req, index) ==
    IF index >= Len(p.choices) THEN Target(req.bounds)
    ELSE Coerce(req.bounds, p.choices[index + 1])

\* An edge case: the edge that a request states, or the value at the case's
\* boundary, where the bounds admit it.
Boundaries == {"min", "max", "above", "below"}

IfAdmitted(b, v) == IF Admits(b, v) THEN v ELSE Target(b)

EdgeInteger(b, boundary) ==
    IfAdmitted(b, CASE boundary = "min" -> <<b.lo>>
                    [] boundary = "max" -> <<b.hi>>
                    [] boundary = "above" -> <<IntTarget(b) + 1>>
                    [] boundary = "below" -> <<IntTarget(b) - 1>>)

EdgeSequence(b, boundary) ==
    LET least == IF b.least > 1 THEN b.least ELSE 1
        length == IF b.most = Unbounded THEN least ELSE Lesser(least, b.most)
        element == CASE boundary = "max" -> b.k - 1
                     [] boundary = "above" -> IF b.k > 1 THEN 1 ELSE 0
                     [] OTHER -> 0
    IN  [i \in 1..length |-> element]

AtBoundary(req, boundary) ==
    LET b == req.bounds
    IN  CASE req.edge # NoEdge -> IfAdmitted(b, <<req.edge>>)
          [] req.edge = NoEdge /\ IsInts(b) -> EdgeInteger(b, boundary)
          [] OTHER -> EdgeSequence(b, boundary)

\* A provider's value for a request, and the provider after it.  A trace
\* serves the choices that its draws prepared.
Served(p, req, index) ==
    CASE p.kind = "tape" -> Generated(p, req, index)
      [] p.kind = "replay" -> [prov |-> p, value |-> Replayed(p, req, index)]
      [] p.kind = "values" -> [prov |-> p, value |-> Target(req.bounds)]
      [] p.kind = "edge" -> [prov |-> p, value |-> AtBoundary(req, p.boundary)]
      [] p.kind = "trace" ->
            IF p.queue = <<>> THEN [prov |-> p, value |-> Target(req.bounds)]
            ELSE [prov |-> [p EXCEPT !.queue = Tail(@)],
                  value |-> Coerce(req.bounds, Head(p.queue))]

-----------------------------------------------------------------------------
(* The record. *)

\* A new case.  definitions and leaves belong to the code's generators: the
\* definitions of a shape file, and the stack of counts of the values being
\* decoded.  offered records what each reusable request was offered, beside
\* what the record contained.
NewCase(provider, definitions) ==
    [prov |-> provider, definitions |-> definitions, cost |-> 0, choices |-> <<>>, requests |-> <<>>,
     spans |-> <<>>, open |-> <<>>, draws |-> <<>>, leaves |-> <<>>, offered |-> {}]

Ended(c, how) == [case |-> c, end |-> how, value |-> <<>>]
Yield(c, value) == [case |-> c, end |-> "value", value |-> value]

\* Continues with a value, and passes on how the body ended.
Then(r, Next(_, _)) == IF r.end = "value" THEN Next(r.case, r.value) ELSE r

Cost(b, v) == IF IsInts(b) THEN 1 ELSE 1 + Len(v)

\* The values of the recorded choices that a request may reuse.
RecordedFor(c, req) ==
    LET same == {i \in 1..Len(c.choices) : c.requests[i].reuse
                                            /\ c.requests[i].bounds = req.bounds}
    IN  {c.choices[i].value : i \in same}

OfferedTo(c, req) ==
    LET offers == Offers(Remembered(c.prov.earlier, Len(c.choices)), req.bounds)
    IN  {offers[i].value : i \in 1..Len(offers)}

Offer(c, req) == [offered |-> OfferedTo(c, req), recorded |-> RecordedFor(c, req)]

\* A value that was paid for goes into the record.
Recording(c, req, value, offers) ==
    Yield([c EXCEPT !.choices = Append(@, [kind |-> req.bounds.kind, value |-> value]),
                    !.requests = Append(@, req),
                    !.offered = @ \cup offers],
          value)

\* A provider's answer is recorded unless it passes the cap.
Answered(c, req, got, cost) ==
    LET paid == [c EXCEPT !.prov = got.prov, !.cost = cost]
        offers == IF c.prov.kind = "tape" /\ IsInts(req.bounds) /\ Reusable(req)
                  THEN {Offer(c, req)} ELSE {}
    IN  IF cost > MaxChoices THEN Ended(paid, "overrun")
        ELSE Recording(paid, req, got.value, offers)

Paying(c, req, got) == Answered(c, req, got, c.cost + Cost(req.bounds, got.value))

\* Case.choose: a request that cannot fit under the cap is not served.
Choose(c, req) ==
    IF ~IsInts(req.bounds) /\ c.cost + 1 + req.bounds.least > MaxChoices
    THEN Ended(c, "overrun")
    ELSE Paying(c, req, Served(c.prov, req, Len(c.choices)))

\* Mutant: a span's parent is the span before it, which may have closed.
OpenSpanAfter(c, label, start) ==
    [c EXCEPT !.spans = Append(@, [label |-> label, start |-> start, end |-> start,
                                   parent |-> Len(c.spans)]),
              !.open = Append(@, Len(c.spans) + 1)]

OpenSpan(c, label, start) ==
    LET parent == IF c.open = <<>> THEN 0 ELSE Last(c.open)
    IN  [c EXCEPT !.spans = Append(@, [label |-> label, start |-> start, end |-> start,
                                       parent |-> parent]),
                  !.open = Append(@, Len(c.spans) + 1)]

CloseSpan(c) == [c EXCEPT !.open = Front(@), !.spans[Last(c.open)].end = Len(c.choices)]

\* Case.span: the choices made inside, from start on, are one span, however
\* the block ends.
SpanFrom(c, label, start, Inside(_)) ==
    LET r == Inside(OpenSpan(c, label, start))
    IN  [r EXCEPT !.case = CloseSpan(@)]

Span(c, label, Inside(_)) == SpanFrom(c, label, Len(c.choices), Inside)

Mark(c) == [choices |-> Len(c.choices), spans |-> Len(c.spans), draws |-> Len(c.draws)]

\* Mutant: the spans of a rejected attempt stay.
RewindKeepsSpans(c, mark) ==
    [c EXCEPT !.choices = SubSeq(@, 1, mark.choices),
              !.requests = SubSeq(@, 1, mark.choices),
              !.draws = SubSeq(@, 1, mark.draws)]

\* Case.rewind: the record goes back to the mark.  What the removed choices
\* cost stays paid, and what the provider kept of them stays with it.
Rewind(c, mark) ==
    [c EXCEPT !.choices = SubSeq(@, 1, mark.choices),
              !.requests = SubSeq(@, 1, mark.choices),
              !.spans = SubSeq(@, 1, mark.spans),
              !.draws = SubSeq(@, 1, mark.draws)]
=============================================================================

----------------------------- MODULE Executions -----------------------------
(***************************************************************************)
(* One call of a body on a case (execute() of execution.py): the draws of  *)
(* Case.draw, with the valuer and the tracer that take part in them        *)
(* (case.py, trace.py), how the call ends, and confirm() of shrink.py,     *)
(* which compares a case with a replay of its record.                      *)
(*                                                                         *)
(* A body is [name, draws, definitions]: each draw may depend on the       *)
(* values before it, and the body then passes or fails as its values       *)
(* decide.  Machine steps, fingerprints and skips are left out.            *)
(***************************************************************************)
EXTENDS Inverses

CONSTANTS Identity(_, _),  \* The failure of a body on its values, or Pass.
          NextDraw(_, _)   \* A body's draw after these values, or NoDraw.

Pass == "pass"
NoDraw == [label |-> "none"]

Body(name, draws) == [name |-> name, draws |-> draws, definitions |-> <<>>]
Labelled(label, generator) == [label |-> label, generator |-> generator]

Tracing(entries) == [kind |-> "trace", entries |-> entries, at |-> 1, queue |-> <<>>]

Entry(label, value) == [label |-> label, value |-> value]

Queued(c, inverse) ==
    CASE inverse.end = "steps" ->
            Yield([c EXCEPT !.prov.queue = @ \o inverse.choices, !.prov.at = @ + 1], <<>>)
      [] inverse.end = "cannot" -> Ended(c, "value")
      [] inverse.end = "unknown" -> Ended(c, "no inverse")

\* Tracing.drawing: the next entry's value becomes the choices of the draw.
\* A trace without a further entry prepares nothing.
Prepared(c, draw) ==
    IF c.prov.kind # "trace" \/ c.prov.at > Len(c.prov.entries) THEN Yield(c, <<>>)
    ELSE LET entry == c.prov.entries[c.prov.at]
         IN  IF entry.label # draw.label THEN Ended(c, "label")
             ELSE Queued(c, Invert(draw.generator, entry.value, c.definitions))

DrawnAs(c, draw, value, span) ==
    Yield([c EXCEPT !.draws = Append(@, [label |-> draw.label, value |-> value, span |-> span,
                                         generator |-> draw.generator])],
          value)

Stated(c) == c.prov.kind = "values" /\ c.prov.values # <<>>

\* Case.draw.
Draw(c, draw) ==
    IF Stated(c)
    THEN DrawnAs([c EXCEPT !.prov.values = Tail(@)], draw, Head(c.prov.values), Len(c.spans) + 1)
    ELSE Then(Prepared(c, draw), LAMBDA d, nothing :
         Then(Decode(draw.generator, d), LAMBDA e, v : DrawnAs(e, draw, v, Len(c.spans) + 1)))

ValuesOf(c) == [i \in 1..Len(c.draws) |-> c.draws[i].value]

RECURSIVE DrawAll(_, _)
DrawAll(body, c) ==
    LET draw == NextDraw(body, ValuesOf(c))
    IN  IF draw = NoDraw THEN Yield(c, <<>>)
        ELSE Then(Draw(c, draw), LAMBDA d, v : DrawAll(body, d))

Execution(c, status, identity) == [case |-> c, status |-> status, identity |-> identity]

Verdict(c, identity) == Execution(c, IF identity = Pass THEN "passed" ELSE "failed", identity)

\* How a body ended.  A trace that it cannot follow is no case: it ends the run.
Concluded(body, r) ==
    CASE r.end = "value" -> Verdict(r.case, Identity(body.name, ValuesOf(r.case)))
      [] r.end \in {"rejected", "overrun"} -> Execution(r.case, "rejected", Pass)
      [] OTHER -> Execution(r.case, r.end, Pass)

\* execute(): the case, its status, and the identity of its failure.
Execute(body, provider) == Concluded(body, DrawAll(body, NewCase(provider, body.definitions)))

BoundsOf(c) == [i \in 1..Len(c.requests) |-> c.requests[i].bounds]

\* confirm(): whether a replay of the record makes the same requests and
\* ends the same way.
SameCase(m, n) == BoundsOf(m.case) = BoundsOf(n.case) /\ m.identity = n.identity

Confirms(body, execution) == SameCase(Execute(body, Replaying(execution.case.choices)), execution)

\* entries(): a case's draws as a trace.
EntriesOf(c) == [i \in 1..Len(c.draws) |-> Entry(c.draws[i].label, c.draws[i].value)]
=============================================================================

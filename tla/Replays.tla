------------------------------- MODULE Replays -------------------------------
(***************************************************************************)
(* What a run relies on when it keeps a case by its record: that a replay  *)
(* of the record is the same case.  A case is generated from a tape, at an *)
(* edge, or by replaying edited choices (as the shrinker does); the run    *)
(* then confirms it and follows its draws as a trace (runner.py,           *)
(* execution.py, trace.py).                                                *)
(***************************************************************************)
EXTENDS ShapeFiles, Executions

CONSTANTS Bodies,       \* The bodies.
          Files,        \* The shape files, of which a body may draw a value.
          Tapes,        \* The random sources.
          MaxEdits      \* Bounds the edits of one case.

VARIABLES body, case, replay, trace, phase, edits

vars == <<body, case, replay, trace, phase, edits>>

NoExecution == [status |-> "none"]

Init ==
    /\ phase = "chosen"
    /\ \/ body \in Bodies
       \/ \E file \in Files : body = [name |-> "file", file |-> file]
    /\ case = NoExecution /\ replay = NoExecution /\ trace = NoExecution
    /\ edits = 0

\* A shape file is read before its generator decodes, and may be refused.
ReadFile ==
    LET read == Read(body.file)
    IN  /\ phase = "chosen" /\ "file" \in DOMAIN body
        /\ IF read.end = "read"
           THEN /\ body' = [name |-> "file", draws |-> <<Labelled("value", read.generator)>>,
                            definitions |-> read.definitions]
                /\ UNCHANGED phase
           ELSE phase' = read.end /\ UNCHANGED body
        /\ UNCHANGED <<case, replay, trace, edits>>

Call(provider) ==
    /\ phase = "chosen" /\ "draws" \in DOMAIN body
    /\ case' = Execute(body, provider)
    /\ phase' = "called"
    /\ UNCHANGED <<body, replay, trace, edits>>

Generate == \E tape \in Tapes : Call(Generating(tape))

TakeEdge == \E boundary \in Boundaries : Call(AtEdge(boundary))

\* The shrinker replays the record with a run of choices deleted, or with
\* one choice at its target, which the bodies then read as their requests
\* have it.
Edited(choices) ==
    {SubSeq(choices, 1, i - 1) \o SubSeq(choices, j + 1, Len(choices)) :
        i \in 1..Len(choices), j \in 1..Len(choices)}

Edit ==
    /\ phase = "called" /\ edits < MaxEdits
    /\ \E choices \in Edited(case.case.choices) :
          /\ Len(choices) < Len(case.case.choices)
          /\ case' = Execute(body, Replaying(choices))
    /\ edits' = edits + 1
    /\ UNCHANGED <<body, replay, trace, phase>>

\* A completed case is replayed once.
Completed == case.status \in {"passed", "failed"}

Confirm ==
    /\ phase = "called" /\ Completed
    /\ replay' = Execute(body, Replaying(case.case.choices))
    /\ phase' = "replayed"
    /\ UNCHANGED <<body, case, trace, edits>>

\* A run that has a trace instead follows it.
Follow ==
    /\ phase = "replayed"
    /\ trace' = Execute(body, Tracing(EntriesOf(case.case)))
    /\ phase' = "followed"
    /\ UNCHANGED <<body, case, replay, edits>>

Next == ReadFile \/ Generate \/ TakeEdge \/ Edit \/ Confirm \/ Follow

Spec == Init /\ [][Next]_vars

-----------------------------------------------------------------------------
(* Properties. *)

Called == phase \in {"called", "replayed", "followed"}

\* A replay of a completed case's record is the same case: the same
\* requests, choices and spans, the same values under the same labels, and
\* the same verdict, whether the case was generated, at an edge or edited.
\* A record that left out what a rejected attempt did, or kept some of it,
\* would shrink and replay to another case.
ReplayIsTheCase ==
    phase \in {"replayed", "followed"} =>
        /\ replay.status = case.status /\ replay.identity = case.identity
        /\ replay.case.choices = case.case.choices
        /\ replay.case.requests = case.case.requests
        /\ replay.case.spans = case.case.spans
        /\ replay.case.draws = case.case.draws

\* What the documentation of the filter says: a rejected attempt leaves the
\* record, so that a replay decodes the kept value at its first attempt, and
\* a body that is a function is confirmed.
KeptValuesConfirm == Called /\ Completed => Confirms(body, case)

\* The spans of a record are a forest over its choices, however the body
\* ended: each lies inside its parent, siblings do not overlap, and each
\* draw has its span.  The shrinker deletes and lifts choices by them.
SpansNest ==
    Called =>
        LET spans == case.case.spans
        IN  /\ case.case.open = <<>>
            /\ \A i \in 1..Len(spans) :
                  /\ spans[i].start <= spans[i].end /\ spans[i].end <= Len(case.case.choices)
                  /\ spans[i].parent # 0 =>
                        LET p == spans[spans[i].parent]
                        IN  spans[i].parent < i /\ p.start <= spans[i].start /\ spans[i].end <= p.end
                  /\ \A j \in 1..(i - 1) :
                        spans[j].parent = spans[i].parent => spans[j].end <= spans[i].start
            /\ \A d \in 1..Len(case.case.draws) : case.case.draws[d].span <= Len(spans)

\* Every recorded choice lies inside the bounds of the request that it
\* answers, whatever provider made it, a record is under the cap, and its
\* spans are a forest.
RecordsAreAdmitted ==
    /\ SpansNest
    /\ Called =>
        /\ Len(case.case.requests) = Len(case.case.choices)
        /\ \A i \in 1..Len(case.case.choices) :
              Admits(case.case.requests[i].bounds, case.case.choices[i].value)
        /\ FoldLeft(LAMBDA n, i : n + Cost(case.case.requests[i].bounds, case.case.choices[i].value),
                    0, [i \in 1..Len(case.case.choices) |-> i]) <= MaxChoices

\* A generated value is reused only from the record: a request is offered
\* the values of the recorded choices with its bounds, and none that a
\* rewind removed, which a replay of the record could not find.
OffersAreRecorded ==
    Called => \A o \in case.case.offered : o.offered = o.recorded

\* What a trace compares: a set's elements in no order.
Seen(drawn) ==
    IF drawn.generator.id = "list" /\ drawn.generator.set
    THEN ToSet(drawn.value[2]) ELSE Canonical(drawn.value)

\* A trace made of a case's own draws is followed: each value runs backwards
\* through its generator, and decodes to itself with the same verdict.  Only
\* a function, which has no inverse, stops it.
OwnTraceIsFollowed ==
    phase = "followed" =>
        \/ trace.status = "no inverse" /\ body.name = "mapped"
        \/ /\ trace.status = case.status /\ trace.identity = case.identity
           /\ Len(trace.case.draws) = Len(case.case.draws)
           /\ \A i \in 1..Len(case.case.draws) :
                 Seen(trace.case.draws[i]) = Seen(case.case.draws[i])

\* The definitions that have a finite value in which every container that
\* can exit does: the least fixed point.
RECURSIVE HasValue(_, _, _), Grounded(_, _, _)
HasValue(node, cyclic, grounded) ==
    CASE node.shape = "ref" -> node.name \in grounded
      [] node.shape \in {"optional", "leaf", "unit"} -> TRUE
      [] node.shape \in {"list", "fixed-list", "set", "map"} /\ node.least = 0 -> TRUE
      [] node.shape = "enum" ->
            \E i \in 1..Len(node.variants) : HasValue(node.variants[i], cyclic, grounded)
      [] OTHER -> \A child \in Children(node) : HasValue(child, cyclic, grounded)

Grounded(definitions, cyclic, grounded) ==
    LET wider == {n \in DOMAIN definitions : HasValue(definitions[n], cyclic, grounded)}
    IN  IF wider = grounded THEN grounded ELSE Grounded(definitions, cyclic, wider)

\* A file that the reader accepts has a finite value for every definition,
\* and one in which no definition of a cycle has a value is refused.  A value
\* of a file stops growing at its budget, even when every choice asks for
\* more: no case of it passes the cap.
ReadFilesHaveValues ==
    /\ "file" \in DOMAIN body =>
          LET definitions == body.file.definitions
              cyclic == Cyclic(definitions)
              grounded == Grounded(definitions, cyclic, {})
          IN  /\ Read(body.file).end = "read" => grounded = DOMAIN definitions
              /\ (~Unnamed(body.file) /\ cyclic # {} /\ cyclic \cap grounded = {}) =>
                    Read(body.file).end = "endless"
    /\ Called /\ body.name = "file" => case.status # "rejected"
=============================================================================

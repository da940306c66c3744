----------------------------- MODULE Intervals -----------------------------
(***************************************************************************)
(* from_intervals() of src/tools/history/seam.py: a history built from     *)
(* calls that were recorded with a start and an end on one clock.  It      *)
(* refuses the first entry that ends before it starts or overlaps an       *)
(* earlier entry of its client, and otherwise replays the entries through  *)
(* the recorder of Seam.tla, in time order.  It checks no key, so that the *)
(* recorder's UsageError for a key without a typed literal escapes it.     *)
(*                                                                         *)
(* Positions count from 1 here, and from 0 in the code.                    *)
(***************************************************************************)
EXTENDS Seam, Ordering

CONSTANTS
    MaxEntries,     \* bound: a list has no more entries
    MaxTime         \* bound: instants are 0..MaxTime

ASSUME BoundsAssumption == MaxEntries \in Nat /\ MaxTime \in Nat

VARIABLES
    entries,        \* the list of intervals
    refused,        \* the position that the IntervalError names, or None
    timeline,       \* what is still to be replayed
    calls,          \* the call recorded for a position
    stage           \* "given", "replay" or "refused"

ivars == <<entries, refused, timeline, calls, stage>>

Times == 0..MaxTime

\* An end of None and the kind "pending" state a pending call, and literal
\* says that every key of the entry has a typed literal.
Interval ==
    [client : Clients, start : Times, end : Times, kind : {"ok", "fail", "unknown"},
     literal : BOOLEAN]
        \cup [client : Clients, start : Times, end : {None}, kind : {"pending"},
              literal : BOOLEAN]

Pending(entry) == entry.end = None

EndsBeforeStart(entry) == ~Pending(entry) /\ entry.end < entry.start

\* Mutant: half-open intervals, which share no end point.
OverlapHalfOpen(a, b) ==
    /\ Pending(a) \/ b.start < a.end
    /\ Pending(b) \/ a.start < b.end

\* Two closed intervals share an instant.
Overlap(a, b) ==
    /\ Pending(a) \/ b.start <= a.end
    /\ Pending(b) \/ a.start <= b.end

\* The positions that the code's loop would raise an IntervalError at.
Wrong(position) ==
    LET entry == entries[position]
    IN \/ EndsBeforeStart(entry)
       \/ \E earlier \in 1..(position - 1) :
              /\ entries[earlier].client = entry.client
              /\ Overlap(entries[earlier], entry)

\* An instant of the timeline: phase 0 invokes and phase 1 completes.
Moments ==
    {[time |-> entries[p].start, phase |-> 0, position |-> p] : p \in DOMAIN entries}
        \cup {[time |-> entries[p].end, phase |-> 1, position |-> p] :
                  p \in {q \in DOMAIN entries : ~Pending(entries[q])}}

\* Mutant: at one time, the events keep the order of their entries.
BeforeByEntry(a, b) ==
    \/ a.time < b.time
    \/ a.time = b.time /\ a.position < b.position
    \/ a.time = b.time /\ a.position = b.position /\ a.phase < b.phase

\* The order of the tuples (time, phase, position).
Before(a, b) ==
    \/ a.time < b.time
    \/ a.time = b.time /\ a.phase < b.phase
    \/ a.time = b.time /\ a.phase = b.phase /\ a.position < b.position
---------------------------------------------------------------------------
IntervalsInit ==
    /\ Init
    /\ \E n \in 1..MaxEntries : entries \in [1..n -> Interval]
    /\ refused = None
    /\ timeline = <<>>
    /\ calls = [p \in 1..MaxEntries |-> None]
    /\ stage = "given"

\* The loop over the entries: it raises at the first wrong one.
RefuseEntry ==
    /\ stage = "given"
    /\ \E p \in DOMAIN entries :
           /\ Wrong(p) /\ \A q \in 1..(p - 1) : ~Wrong(q)
           /\ refused' = p
    /\ stage' = "refused"
    /\ UNCHANGED <<vars, entries, timeline, calls>>

Accept ==
    /\ stage = "given"
    /\ \A p \in DOMAIN entries : ~Wrong(p)
    /\ timeline' = Ascending(Moments, Before)
    /\ stage' = "replay"
    /\ UNCHANGED <<vars, entries, refused, calls>>

\* The loop over the timeline.  A UsageError of the recorder escapes it.
Replay ==
    /\ stage = "replay" /\ timeline # <<>> /\ raised = Nothing
    /\ LET moment == Head(timeline)
           entry == entries[moment.position]
       IN \/ /\ moment.phase = 0
             /\ \E operation \in Operations : Invoke(entry.client, operation, entry.literal)
             /\ calls' = IF raised' = Nothing
                         THEN [calls EXCEPT ![moment.position] = Len(events)]
                         ELSE calls
          \/ /\ moment.phase = 1
             /\ \E value \in (IF entry.kind = "ok" THEN Outputs ELSE Errors) :
                    Completes(calls[moment.position], entry.kind, value)
             /\ UNCHANGED calls
    /\ timeline' = Tail(timeline)
    /\ UNCHANGED <<entries, refused, stage>>

IntervalsNext == RefuseEntry \/ Accept \/ Replay

IntervalsSpec == IntervalsInit /\ [][IntervalsNext]_<<vars, ivars>>
---------------------------------------------------------------------------
\* The list of entries has become a history.
Replayed == stage = "replay" /\ timeline = <<>> /\ raised = Nothing

\* The validation is enough for the times: at whatever instants the entries
\* of an accepted list touch, the recorder never refuses an invocation as one
\* of a busy client or a completion as a second one.  What it may refuse is
\* a key, which the validation does not look at: then a UsageError escapes,
\* and no list with such a key becomes a history.
OnlyKeysAreRefused ==
    /\ raised # Nothing =>
           raised = NotLiteral /\ \E p \in DOMAIN entries : ~entries[p].literal
    /\ Replayed => \A p \in DOMAIN entries : entries[p].literal

\* The precedence of the history is the clock's: one call completes before
\* another is invoked exactly when its closed interval ends strictly before
\* the other's starts.  Two calls that share an instant stay concurrent, so
\* no check concludes an order that the clock did not show.
PrecedenceIsTheClocks ==
    Replayed => \A p, q \in DOMAIN entries :
        (\E k \in CompletionsOf(calls[p]) : k < calls[q])
            <=> (~Pending(entries[p]) /\ entries[p].end < entries[q].start)
===========================================================================

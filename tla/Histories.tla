----------------------------- MODULE Histories -----------------------------
(***************************************************************************)
(* A history as a checker reads it: the calls of an event log, translated  *)
(* from _calls() and concurrency() of src/tools/history/linearizable.py,   *)
(* and the reference definition of linearizability that the search of that *)
(* file decides.                                                           *)
(*                                                                         *)
(* An event is a record of Seam.tla without its client and process, which  *)
(* a check does not read.  An invocation carries the operation, the args   *)
(* and the keys of its call.  As in Seam.tla, event i is events[i + 1].    *)
(***************************************************************************)
EXTENDS Models, Ordering, Integers, SequencesExt

None == -1              \* the completion of a pending call

EventsOf(events, call) ==
    {i \in 1..Len(events) : events[i].kind # "invoke" /\ events[i].call = call}

\* The call that event i invokes.  None of its fields is read of an event
\* that completes a call.
CallOf(events, i) ==
    LET completions == EventsOf(events, i - 1)
        completion == CHOOSE j \in completions : TRUE
        known == completions # {} /\ events[completion].kind = "ok"
    IN [index      |-> i - 1,
        completion |-> IF completions = {} THEN None ELSE completion - 1,
        op         |-> [operation |-> events[i].value.operation,
                        args      |-> events[i].value.args,
                        known     |-> known,
                        output    |-> IF known THEN events[completion].value ELSE Null],
        keys       |-> events[i].value.keys]

\* Mutant: the calls that failed stay, as calls without a completion entry.
KeptAlways(events) == {i \in 1..Len(events) : events[i].kind = "invoke"}

\* The invocations of the calls that did not fail.
Kept(events) ==
    {i \in 1..Len(events) :
        /\ events[i].kind = "invoke"
        /\ \A j \in EventsOf(events, i - 1) : events[j].kind # "fail"}

\* The calls of a log in event order, without the calls that failed.
Calls(events) ==
    LET order == Ascending(Kept(events), <)
    IN [position \in DOMAIN order |-> CallOf(events, order[position])]
---------------------------------------------------------------------------
(* The reference: what the module docstring promises of a check.           *)

\* A call with an outcome ends before another is invoked.
Precedes(a, b) == a.op.known /\ a.completion < b.index

Required(calls) == {p \in DOMAIN calls : calls[p].op.known}

\* The calls that a definition of correctness is about: an operation that
\* failed had no effect, and every other one may have had its effect.
Effective(events) ==
    LET invoked == Ascending({i \in DOMAIN events : events[i].kind = "invoke"}, <)
        effective == Among(invoked, {i \in DOMAIN events :
            \A j \in DOMAIN events : events[j].call = i - 1 => events[j].kind # "fail"})
    IN [p \in DOMAIN effective |-> CallOf(events, effective[p])]

\* Every order of a set of calls that includes the required ones.
OrdersOf(calls) ==
    UNION {SetToSeqs(Required(calls) \cup extra) :
               extra \in SUBSET (DOMAIN calls \ Required(calls))}

\* No call comes after one that it precedes, and none is left out that
\* precedes a call of the order.
KeepsPrecedence(calls, order) ==
    /\ IsInjective(order)
    /\ \A j \in DOMAIN order, p \in DOMAIN calls :
           Precedes(calls[p], calls[order[j]]) => \E i \in 1..(j - 1) : order[i] = p

\* The states that an order of calls may leave.
Reached(name, calls, order) ==
    LET after[i \in 0..Len(order)] ==
            IF i = 0 THEN {InitOf(name)}
            ELSE UNION {Held(StepOf(name, state, calls[order[i]].op)) : state \in after[i - 1]}
    IN after[Len(order)]

\* Some order of the required calls, and of some of the others, keeps the
\* precedence of the history and is accepted by the model.
IsLinearizable(name, calls) ==
    \E order \in OrdersOf(calls) :
        KeepsPrecedence(calls, order) /\ Reached(name, calls, order) # {}
===========================================================================

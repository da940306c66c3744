----------------------------- MODULE LinSearch -----------------------------
(***************************************************************************)
(* The search of one partition: class _Search of                           *)
(* src/tools/history/linearizable.py.  One step is one turn of the loop of *)
(* _search(), with everything that the functions it calls change.          *)
(*                                                                         *)
(* Positions and entries count from 1; 0 is the list's head, and the entry *)
(* after the last is its tail.  A set of positions stands for a bit mask,  *)
(* and a set of configurations for the memo and its buckets.               *)
(***************************************************************************)
EXTENDS Histories

VARIABLES
    model,          \* the model's name
    budget,         \* the steps the search may spend
    memoLimit,      \* the bits the memo may count
    calls,          \* _calls
    entries,        \* _position and _invokes
    list,           \* _next and _prev
    entry,          \* the entry the scan is at
    open,           \* _open: the known calls not yet linearized
    steps,          \* _steps
    done,           \* _done: the linearized calls
    states,         \* _states: the states they leave
    stack,          \* _stack: each linearized call and the states before it
    memo,           \* _memo
    linearized,     \* _linearized: the frontier's order
    frontier,       \* _frontier: its states
    candidates,     \* _candidates: the calls rejected there
    atFrontier,     \* _at_frontier
    outcome,        \* "idle", "searching", and then the Outcome
    limit           \* the Limit of an undecided search

given == <<model, budget, memoLimit, calls, entries>>
configuration == <<open, done, states, stack, list>>
record == <<linearized, frontier, candidates, atFrontier>>
ending == <<outcome, limit>>
svars == <<given, configuration, record, ending, entry, steps, memo>>

NoLimit == "none"

\* The invocations of all calls and the completions of the known ones, in
\* event order.
EntriesOf(cs) ==
    LET AtEvent(a, b) == a.at < b.at
    IN Ascending(
           {[at |-> cs[p].index, position |-> p, invokes |-> TRUE] : p \in DOMAIN cs}
               \cup {[at |-> cs[p].completion, position |-> p, invokes |-> FALSE] :
                         p \in Required(cs)},
           AtEvent)

Invocation(p) == CHOOSE e \in DOMAIN entries : entries[e].position = p /\ entries[e].invokes

Completion(p) == CHOOSE e \in DOMAIN entries : entries[e].position = p /\ ~entries[e].invokes

Known(p) == calls[p].op.known

\* Before the first search.
Idle ==
    /\ calls = <<>> /\ entries = <<>>
    /\ list = [next |-> <<>>, prev |-> <<>>]
    /\ entry = 0 /\ open = 0 /\ steps = 0
    /\ done = {} /\ states = <<>> /\ stack = <<>> /\ memo = {}
    /\ linearized = <<>> /\ frontier = <<>> /\ candidates = <<>> /\ atFrontier = FALSE
    /\ outcome = "idle" /\ limit = NoLimit

\* The search of the calls cs, before its first turn.
Start(cs) ==
    LET tail == Len(cs) + Cardinality(Required(cs)) + 1
    IN /\ calls' = cs
       /\ entries' = EntriesOf(cs)
       /\ list' = [next |-> [e \in 0..tail |-> e + 1], prev |-> [e \in 0..tail |-> e - 1]]
       /\ entry' = 1
       /\ open' = Cardinality(Required(cs))
       /\ done' = {}
       /\ states' = <<InitOf(model)>>
       /\ stack' = <<>>
       /\ memo' = {}
       /\ steps' = 0
       /\ linearized' = <<>> /\ frontier' = <<InitOf(model)>> /\ candidates' = <<>>
       /\ atFrontier' = TRUE
       /\ outcome' = "searching"
       /\ limit' = NoLimit
---------------------------------------------------------------------------
(* The doubly linked list of the entries.                                  *)

\* Mutant: the entry before forgets the one taken out, the one after does not.
UnlinkHalf(l, e) == [l EXCEPT !.next[l.prev[e]] = l.next[e]]

Unlink(l, e) ==
    [next |-> [l.next EXCEPT ![l.prev[e]] = l.next[e]],
     prev |-> [l.prev EXCEPT ![l.next[e]] = l.prev[e]]]

\* Between its old neighbours, which it still names.
Relink(l, e) ==
    [next |-> [l.next EXCEPT ![l.prev[e]] = e],
     prev |-> [l.prev EXCEPT ![l.next[e]] = e]]

Lift(p) ==
    LET invoked == Unlink(list, Invocation(p))
    IN list' = IF Known(p) THEN Unlink(invoked, Completion(p)) ELSE invoked

Unlift(p) ==
    LET completed == IF Known(p) THEN Relink(list, Completion(p)) ELSE list
    IN list' = Relink(completed, Invocation(p))
---------------------------------------------------------------------------
(* The model's step over a list of states.                                 *)

Equal(a, b) == Same(model, a, b)

\* The states of a sequence without repeats, each where it first is.
Distinct(s) ==
    LET First(i) == \A j \in 1..(i - 1) : ~Equal(s[i], s[j])
        kept == Ascending({i \in DOMAIN s : First(i)}, <)
    IN [k \in DOMAIN kept |-> s[kept[k]]]

\* _step() without its budget.
Following(op) ==
    Distinct(FlattenSeq([i \in DOMAIN states |-> StepOf(model, states[i], op)]))

\* The steps spent after the first k states of the list.
Spent(k) ==
    LET after[i \in 0..k] ==
            IF i = 0 THEN steps ELSE after[i - 1] + CostOf(model, states[i])
    IN after[k]

Affords(k) == \A i \in 1..k : Spent(i) <= budget

\* The states whose step the budget allows: all of them, or the search stops.
Afforded == Max({k \in 0..Len(states) : Affords(k)})
---------------------------------------------------------------------------
(* The memo.                                                               *)

RequiredIn(set) == set \cap Required(calls)
OptionalIn(set) == set \ Required(calls)

SameStates(a, b) ==
    Len(a) = Len(b) /\ \A i \in DOMAIN a : \E j \in DOMAIN b : Equal(a[i], b[j])

\* A configuration of the memo covers the one of set and after.
Covers(taken, set, after) ==
    /\ taken.required = RequiredIn(set)
    /\ taken.optional \subseteq OptionalIn(set)
    /\ SameStates(after, taken.states)

Covered(set, after) == \E taken \in memo : Covers(taken, set, after)

\* Mutant: the limit is compared before the new configuration counts.
FullLate == Cardinality(memo) * Len(calls) > memoLimit

\* One more configuration would take the memo past its limit.
Full == (Cardinality(memo) + 1) * Len(calls) > memoLimit
---------------------------------------------------------------------------
(* The turns of the loop.                                                  *)

Scanning == outcome = "searching" /\ open > 0

AtCandidate == Scanning /\ entries[entry].invokes

Candidate == entries[entry].position

Stop(why) ==
    /\ outcome' = "undecided"
    /\ limit' = why
    /\ UNCHANGED <<given, configuration, record, entry, memo>>

Pass ==
    /\ outcome = "searching" /\ open = 0
    /\ outcome' = "passed"
    /\ UNCHANGED <<given, configuration, record, entry, memo, steps, limit>>

\* A completion ends the candidates, and nothing is left to undo.
Violate ==
    /\ Scanning /\ ~entries[entry].invokes
    /\ stack = <<>>
    /\ outcome' = "violated"
    /\ UNCHANGED <<given, configuration, record, entry, memo, steps, limit>>

Backtrack ==
    /\ Scanning /\ ~entries[entry].invokes
    /\ stack # <<>>
    /\ LET p == Last(stack).position
       IN /\ stack' = Front(stack)
          /\ states' = Last(stack).states
          /\ done' = done \ {p}
          /\ Unlift(p)
          /\ open' = IF Known(p) THEN open + 1 ELSE open
          /\ entry' = list'.next[Invocation(p)]
    /\ atFrontier' = FALSE
    /\ UNCHANGED <<given, linearized, frontier, candidates, memo, steps, ending>>

\* The model's steps over the states would take the search past its budget.
OverBudget ==
    /\ AtCandidate
    /\ Afforded < Len(states)
    /\ steps' = Spent(Afforded)
    /\ Stop("steps")

Steps ==
    /\ AtCandidate
    /\ Afforded = Len(states)
    /\ steps' = Spent(Len(states))

\* The model rejects the candidate in every state.
Reject ==
    /\ Steps
    /\ Following(calls[Candidate].op) = <<>>
    /\ candidates' = IF atFrontier THEN Append(candidates, Candidate) ELSE candidates
    /\ entry' = list.next[entry]
    /\ UNCHANGED <<given, configuration, linearized, frontier, atFrontier, memo, ending>>

\* The model accepts it, in a configuration that the memo covers.
Skip ==
    /\ Steps
    /\ LET following == Following(calls[Candidate].op)
       IN following # <<>> /\ Covered(done \cup {Candidate}, following)
    /\ entry' = list.next[entry]
    /\ UNCHANGED <<given, configuration, record, memo, ending>>

\* The configuration is new, and there is no room for it.
OverMemo ==
    /\ Steps
    /\ LET following == Following(calls[Candidate].op)
       IN following # <<>> /\ ~Covered(done \cup {Candidate}, following)
    /\ Full
    /\ Stop("memo")

\* Mutant: the frontier follows the search back down.
ExtendsAlways(depth) == TRUE

\* Whether an order of depth calls is the first with the most.
Extends(depth) == depth > Len(linearized)

Linearize ==
    /\ Steps /\ ~Full
    /\ LET p == Candidate
           following == Following(calls[p].op)
           configured == done \cup {p}
       IN /\ following # <<>> /\ ~Covered(configured, following)
          /\ memo' = memo \cup {[required |-> RequiredIn(configured),
                                 optional |-> OptionalIn(configured),
                                 states   |-> following]}
          /\ stack' = Append(stack, [position |-> p, states |-> states])
          /\ done' = configured
          /\ states' = following
          /\ Lift(p)
          /\ open' = IF Known(p) THEN open - 1 ELSE open
          /\ entry' = list'.next[0]
          /\ atFrontier' = Extends(Len(stack'))
          /\ IF atFrontier'
             THEN /\ linearized' = [i \in DOMAIN stack' |-> stack'[i].position]
                  /\ frontier' = following
                  /\ candidates' = <<>>
             ELSE UNCHANGED <<linearized, frontier, candidates>>
    /\ UNCHANGED <<given, ending>>

SearchNext ==
    Pass \/ Violate \/ Backtrack \/ OverBudget \/ Reject \/ Skip \/ OverMemo \/ Linearize
---------------------------------------------------------------------------
Order == [i \in DOMAIN stack |-> stack[i].position]

\* The calls a scan from the head would reach before a completion, as the
\* docstring defines them: those invoked before the first completion of a
\* call not yet linearized.
CandidatesAfter(set) ==
    {p \in DOMAIN calls \ set :
        \A q \in Required(calls) \ set : calls[p].index < calls[q].completion}
===========================================================================

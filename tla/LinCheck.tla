------------------------------ MODULE LinCheck ------------------------------
(***************************************************************************)
(* check() and whole() of src/tools/history/linearizable.py: the calls of  *)
(* a history are joined into partitions by the keys they share, and        *)
(* LinSearch searches each partition in turn, in the order of its first    *)
(* invocation, until one is violated.                                      *)
(***************************************************************************)
EXTENDS LinSearch

CONSTANTS
    Problems        \* the checks to run: a model, the calls to record and the ends that
                    \* each may have, the limits, whether the history is checked whole,
                    \* and the bound maxCalls on its calls

\* A model is given the calls it knows, keys are listed, and an outcome is ok,
\* fail or unknown.
ASSUME ProblemsAssumption ==
    \A check \in Problems :
        /\ check.model \in ModelNames
        /\ check.budget \in Nat /\ check.memoLimit \in Nat
        /\ \A call \in check.calls :
               /\ call.operation \in OperationsOf(check.model)
               /\ call.keys \in Seq(Held(call.keys))
               /\ \A end \in check.ends[call.operation] : end[1] \in {"ok", "fail", "unknown"}

VARIABLES
    problem,        \* the check that runs
    stage,          \* "recording", "checking" or "checked"
    log,            \* the events that are checked
    parts,          \* the partitions: their keys and their calls
    at,             \* the partition that is searched
    total,          \* the steps of the partitions searched before it
    undecided,      \* the first undecided partition, or NoPart
    verdict         \* the outcome of the check, or "none"

cvars == <<problem, stage, log, parts, at, total, undecided, verdict>>

NoPart == 0

\* The keys that calls declare, each once, in the order first declared.
KeysOf(cs) ==
    LET declared == FlattenSeq([p \in DOMAIN cs |-> cs[p].keys])
        first == Ascending({i \in DOMAIN declared :
                                   \A j \in 1..(i - 1) : declared[i] # declared[j]}, <)
    IN [k \in DOMAIN first |-> declared[first[k]]]

\* The representative of a call's partition.  _root() also halves the path
\* to it, which changes no representative.
Root(parent, position) ==
    LET climb[i \in 0..Len(parent)] ==
            IF i = 0 THEN position ELSE parent[climb[i - 1]]
    IN climb[Len(parent)]

\* Mutant: the call itself is moved, not the representative of its partition.
JoinShallow(parent, position, other) ==
    [parent EXCEPT ![position] = Root(parent, other)]

Join(parent, position, other) ==
    [parent EXCEPT ![Root(parent, position)] = Root(parent, other)]

\* The union-find after every key of every call, in the order of the calls.
Parents(cs) ==
    LET uses == FlattenSeq([p \in DOMAIN cs |-> [k \in DOMAIN cs[p].keys |-> <<p, cs[p].keys[k]>>]])
        FirstUse(name) == Min({p \in DOMAIN cs : name \in Held(cs[p].keys)})
        after[i \in 0..Len(uses)] ==
            IF i = 0 THEN [p \in DOMAIN cs |-> p]
            ELSE Join(after[i - 1], uses[i][1], FirstUse(uses[i][2]))
    IN after[Len(uses)]

TouchesEveryKey(cs) == \E p \in DOMAIN cs : cs[p].keys = <<>>

\* _partitions().
Partitions(cs) ==
    IF cs = <<>> THEN <<>>
    ELSE IF TouchesEveryKey(cs) THEN <<[keys |-> <<>>, calls |-> cs]>>
    ELSE LET parent == Parents(cs)
             group(p) == {q \in DOMAIN cs : Root(parent, q) = Root(parent, p)}
             firsts == Ascending({p \in DOMAIN cs : p = Min(group(p))}, <)
             CallsIn(p) == LET members == Ascending(group(p), <)
                           IN [k \in DOMAIN members |-> cs[members[k]]]
         IN [i \in DOMAIN firsts |->
                [keys |-> KeysOf(CallsIn(firsts[i])), calls |-> CallsIn(firsts[i])]]

PartsOf(cs, one) ==
    IF one /\ cs # <<>> THEN <<[keys |-> <<>>, calls |-> cs]>> ELSE Partitions(cs)
---------------------------------------------------------------------------
CheckInit ==
    /\ problem \in Problems
    /\ model = problem.model
    /\ budget = problem.budget
    /\ memoLimit = problem.memoLimit
    /\ Idle
    /\ stage = "recording"
    /\ log = <<>>
    /\ parts = <<>> /\ at = 0 /\ total = 0
    /\ undecided = NoPart
    /\ verdict = "none"

RecordEvent(kind, call, value) ==
    /\ log' = Append(log, [kind |-> kind, call |-> call, value |-> value])
    /\ UNCHANGED <<svars, problem, stage, parts, at, total, undecided, verdict>>

\* The recorder of Seam.tla, with each call on a client of its own.
RecordInvoke ==
    /\ stage = "recording"
    /\ Cardinality({i \in DOMAIN log : log[i].kind = "invoke"}) < problem.maxCalls
    /\ \E call \in problem.calls : RecordEvent("invoke", Len(log), call)

RecordCompletion ==
    /\ stage = "recording"
    /\ \E i \in {j \in DOMAIN log : log[j].kind = "invoke" /\ EventsOf(log, j - 1) = {}} :
           \E end \in problem.ends[log[i].value.operation] :
               RecordEvent(end[1], i - 1, end[2])

\* The history is checked, at any length.
Check ==
    /\ stage = "recording"
    /\ stage' = "checking"
    /\ parts' = PartsOf(Calls(log), problem.whole)
    /\ UNCHANGED <<svars, problem, log, at, total, undecided, verdict>>

Search == stage = "checking" /\ SearchNext /\ UNCHANGED cvars

\* The first undecided partition is the one reported.
FirstUndecided(part) == IF undecided = NoPart THEN part ELSE undecided

\* The loop goes on while no partition is violated.
GoesOn == stage = "checking" /\ outcome \in {"idle", "passed", "undecided"}

\* Mutant: a partition that was searched is searched again.
NextPartitionAgain ==
    /\ GoesOn /\ at < Len(parts)
    /\ at' = Max({at, 1})
    /\ Start(parts[at'].calls)
    /\ UNCHANGED <<model, budget, memoLimit, problem, stage, log, parts, verdict, total, undecided>>

NextPartition ==
    /\ GoesOn /\ at < Len(parts)
    /\ total' = total + steps
    /\ undecided' = IF outcome = "undecided" THEN FirstUndecided(at) ELSE undecided
    /\ at' = at + 1
    /\ Start(parts[at + 1].calls)
    /\ UNCHANGED <<model, budget, memoLimit, problem, stage, log, parts, verdict>>

\* The check ends with the first violated partition, or after the last one:
\* a history without calls passes without a search.
Conclude ==
    /\ stage = "checking"
    /\ outcome = "violated" \/ (GoesOn /\ at = Len(parts))
    /\ undecided' = IF outcome = "undecided" THEN FirstUndecided(at) ELSE undecided
    /\ verdict' = IF outcome = "violated" THEN "violated"
                  ELSE IF undecided' # NoPart THEN "undecided"
                  ELSE "passed"
    /\ total' = total + steps
    /\ stage' = "checked"
    /\ UNCHANGED <<svars, problem, log, parts, at>>

Checking == Search \/ NextPartition \/ Conclude

\* The check returned.
Returned == stage = "checked" /\ UNCHANGED <<svars, cvars>>

CheckNext == RecordInvoke \/ RecordCompletion \/ Check \/ Checking \/ Returned

CheckSpec == CheckInit /\ [][CheckNext]_<<svars, cvars>>

\* The checker is one thread in a loop: nothing keeps it from its next step.
\* This is WF_<<svars, cvars>>(Checking), with ENABLED Checking stated by the
\* stage: no state deadlocks, so that a step is enabled while it is "checking".
FairCheckSpec ==
    CheckSpec /\ ([]<>(stage # "checking") \/ []<><<Checking>>_<<svars, cvars>>)
---------------------------------------------------------------------------
(* Properties of the search of a partition.                                *)

Unlinearized == {e \in DOMAIN entries : entries[e].position \notin done}

\* The list, spliced through any number of lifts and put back by any number
\* of backtracks, links exactly the entries of the calls not linearized, in
\* event order and in both directions, and the scan stands on one of them
\* while a known call is left: it never runs off the end of the list.
ListIsUnlinearized ==
    LET tail == Len(entries) + 1
        linked == Unlinearized \cup {0, tail}
    IN outcome # "idle" =>
       /\ \A e \in linked \ {tail} : list.next[e] = Min({f \in linked : f > e})
       /\ \A e \in linked \ {0} : list.prev[e] = Max({f \in linked : f < e})
       /\ Scanning => entry \in Unlinearized

\* The work of a search stays within the two limits a check states, with a
\* model whose step costs more than one and at the limit itself.
WithinLimits ==
    /\ steps <= budget
    /\ Cardinality(memo) * Len(calls) <= memoLimit

\* Whatever was undone, the configuration is the one its order leaves: the
\* order keeps the precedence of the history, the model accepts it, and the
\* list of states has every state it may leave, with no two equal.  The work
\* that led to it is within the limits.
ConfigurationIsItsOrders == outcome # "idle" =>
    /\ WithinLimits
    /\ done = Held(Order)
    /\ KeepsPrecedence(calls, Order)
    /\ Reached(model, calls, Order) # {}
    /\ \A s \in Reached(model, calls, Order) : \E i \in DOMAIN states : Equal(s, states[i])
    /\ \A i, j \in DOMAIN states : i # j => ~Equal(states[i], states[j])
    /\ open = Cardinality(Required(calls) \ done)

\* The frontier that a record states is a real one: a legal order with the
\* most calls of every configuration the search has visited, the states it
\* leaves, and candidates that the model rejects in every one of them.
FrontierIsDeepest == outcome # "idle" =>
    /\ KeepsPrecedence(calls, linearized)
    /\ \A taken \in memo :
           Cardinality(taken.required) + Cardinality(taken.optional) <= Len(linearized)
    /\ \A s \in Reached(model, calls, linearized) : \E i \in DOMAIN frontier : Equal(s, frontier[i])
    /\ \A i \in DOMAIN candidates :
           /\ candidates[i] \in CandidatesAfter(Held(linearized))
           /\ \A k \in DOMAIN frontier :
                  StepOf(model, frontier[k], calls[candidates[i]].op) = <<>>

---------------------------------------------------------------------------
(* Properties of the check.                                                *)

\* The verdict is right for the whole history, with every shortcut of the
\* search in force: the memo and what it covers, the partitions searched one
\* by one, and the calls that failed left out.
\* The partition it names is the first of its kind: a violated one follows
\* only partitions that passed or ran out of a limit, and an undecided one
\* only partitions that passed.
VerdictIsRight ==
    /\ verdict = "passed" => IsLinearizable(model, Effective(log))
    /\ verdict = "violated" => /\ ~IsLinearizable(model, Effective(log))
                               /\ ~IsLinearizable(model, parts[at].calls)
    /\ undecided # NoPart /\ verdict # "none" =>
           \A i \in 1..(undecided - 1) : IsLinearizable(model, parts[i].calls)

\* Two calls that share a key are searched together, and a partition never
\* joins calls that no chain of shared keys joins.
PartitionsAreComponents ==
    LET cs == Calls(log)
        Positions(i) == {p \in DOMAIN cs : \E q \in DOMAIN parts[i].calls : parts[i].calls[q].index = cs[p].index}
        Share(p, q) == Held(cs[p].keys) \cap Held(cs[q].keys) # {}
        Joined(set) == \A some \in (SUBSET set) \ {{}, set} :
                           \E p \in some, q \in set \ some : Share(p, q)
    IN stage = "checking" /\ at = 0 /\ ~problem.whole /\ ~TouchesEveryKey(cs) =>
           /\ UNION {Positions(i) : i \in DOMAIN parts} = DOMAIN cs
           /\ \A i \in DOMAIN parts : Joined(Positions(i))
           /\ \A i, j \in DOMAIN parts : i < j =>
                  /\ \A p \in Positions(i), q \in Positions(j) : ~Share(p, q)
                  /\ Min(Positions(i)) < Min(Positions(j))

\* A check decides, or stops at a limit, however its scan backtracks.
Terminates == stage = "checking" ~> verdict # "none"
===========================================================================

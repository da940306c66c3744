------------------------------ MODULE Runner ------------------------------
(***************************************************************************)
(* A run of a property, translated from src/tools/prop/runner.py: its      *)
(* phases, counts, confirming replays and outcome, over the case tree.     *)
(*                                                                         *)
(* Each call of the body runs choice by choice as CaseTree states it, on   *)
(* the values that its provider serves (src/tools/prop/case.py, edge.py).  *)
(* Where the code nests loops, stage names the code that goes on after a   *)
(* call returns.                                                           *)
(***************************************************************************)
EXTENDS CaseTree, FiniteSetsExt

CONSTANTS
    Runs,               \* the settings of the runs
    GenerationFactor,   \* GENERATION_FACTOR
    PrefixDivisor,      \* PREFIX_DIVISOR
    MaxPrefixCases,     \* MAX_PREFIX_CASES
    MaxRejections,      \* MAX_REJECTIONS
    Checks              \* coverage.CHECKS

VARIABLES
    settings,       \* the Settings of the run
    stage,          \* the part of the run that goes on when no call runs
    phase,          \* the Phase of the call, or NoPhase when none runs
    provider,       \* the provider of the call
    given,          \* how many traces, examples and stored cases have run
    position,       \* the check that the random cases run to
    index,          \* index: the random cases generated
    edges,          \* edges: the edge cases left
    valid, rejected, requested,     \* the _Tally
    chosen,         \* the choices of the latest random case
    failing,        \* the case that a replay is compared with
    resume,         \* the stage after a confirming replay
    replays, reproduced,            \* of the replays before the shrink
    outcome,        \* the Kind, or NoOutcome
    seen            \* history: the phase and status of every call, as an observer sees them

\* The cases a run knows are its examples and its stored cases.  Settings
\* refuses counts below one.
ASSUME RunsAssumption ==
    \A run \in Runs :
        /\ Len(run.known) \in Nat /\ DOMAIN run.known = 1..Len(run.known)
        /\ \A i \in DOMAIN run.known : run.known[i].phase \in {"example", "stored"}
        /\ run.cases \in Nat \ {0} /\ run.replays \in Nat \ {0}

\* Every failure has an identity.
ASSUME IdentitiesAssumption ==
    \A bodies \in Subjects : \A b \in bodies : \A p \in DOMAIN b :
        b[p].ending = "failed" => b[p].identity # "none"

ASSUME FactorsAssumption ==
    /\ GenerationFactor \in Nat /\ MaxRejections \in Nat
    /\ Len(Checks) \in Nat \ {0} /\ DOMAIN Checks = 1..Len(Checks)
    /\ \A i \in DOMAIN Checks : Checks[i] \in Nat
    /\ \A i, j \in DOMAIN Checks : i <= j => Checks[i] <= Checks[j]

runVars == <<settings, stage, phase, provider, given, position, index, edges, valid,
             rejected, requested, chosen, failing, resume, replays, reproduced, outcome, seen>>

vars == <<treeVars, runVars>>

NoPhase == "none"
NoOutcome == "none"
NoCase == [choices |-> <<>>, requests |-> <<>>, identity |-> "none"]

Boundaries == <<"min", "max", "above", "below">>

\* The target of bounds over naturals: 0, or the value nearest to it.
Target(bounds) == Min(bounds.values)

Fitted(bounds, value) == IF value \in bounds.values THEN value ELSE Target(bounds)

AtBoundary(bounds, boundary) ==
    Fitted(bounds, CASE boundary = "min"   -> Min(bounds.values)
                     [] boundary = "max"   -> Max(bounds.values)
                     [] boundary = "above" -> Target(bounds) + 1
                     [] boundary = "below" -> Target(bounds) - 1)

Random == [kind |-> "random", values |-> <<>>, boundary |-> "none"]
Replaying(values) == [kind |-> "replay", values |-> values, boundary |-> "none"]
Valuing(values) == [kind |-> "values", values |-> values, boundary |-> "none"]
Edge(boundary) == [kind |-> "edge", values |-> <<>>, boundary |-> boundary]

\* A stated value is left for the draw, which makes no choice.
States == provider.kind = "values" /\ Len(path) < Len(provider.values)

\* The values that the provider may serve the next request of the call.
Served ==
    LET bounds == Move.bounds
    IN CASE provider.kind = "random" -> bounds.values
         [] provider.kind = "replay" ->
                {IF Len(requests) < Len(provider.values)
                 THEN Fitted(bounds, provider.values[Len(requests) + 1])
                 ELSE Target(bounds)}
         [] provider.kind = "values" -> {Target(bounds)}
         [] provider.kind = "edge" ->
                {IF Move.edge # -1 THEN Fitted(bounds, Move.edge)
                                   ELSE AtBoundary(bounds, provider.boundary)}

\* The recorded choices of the call: the values that it did not state.
CaseChoices == SubSeq(record, Len(record) - Len(requests) + 1, Len(record))

Identity == IF status = "failed" THEN Move.identity ELSE "none"

ThisCase == [choices |-> CaseChoices, requests |-> requests, identity |-> Identity]
---------------------------------------------------------------------------
RunnerInit ==
    /\ TreeInit
    /\ settings \in Runs
    /\ stage = IF settings.replay = {} THEN "known" ELSE "token"
    /\ phase = NoPhase /\ provider = Random
    /\ given = 0 /\ position = 1 /\ index = 0 /\ edges = Boundaries
    /\ valid = 0 /\ rejected = 0 /\ requested = FALSE
    /\ chosen = <<>> /\ failing = NoCase /\ resume = "none"
    /\ replays = 0 /\ reproduced = 0
    /\ outcome = NoOutcome
    /\ seen = {}

\* The run is at a stage, and calls no body.
At(s) == stage = s /\ phase = NoPhase

Counts == <<valid, rejected, requested>>
Progress == <<given, position, index, edges, chosen>>
Conclusion == <<failing, resume, replays, reproduced, outcome>>

\* A body is called in a phase, with a provider, in the tree or outside it.
Call(in, served, walks) ==
    /\ Start(walks)
    /\ phase' = in /\ provider' = served
    /\ UNCHANGED <<settings, stage, Counts, Conclusion, seen>>

\* The run goes on at another stage without a call.
GoTo(s) ==
    /\ stage' = s
    /\ UNCHANGED <<treeVars, settings, phase, provider, Counts, Conclusion, seen>>

EndAs(kind) == stage' = "over" /\ outcome' = kind

\* The run ends without a call.
Conclude(kind) ==
    /\ EndAs(kind)
    /\ UNCHANGED <<treeVars, settings, phase, provider, Progress, Counts, failing, resume,
                   replays, reproduced, seen>>

\* One step of the body that is called.
Work ==
    /\ phase # NoPhase /\ Running
    /\ \/ Requests /\ States /\ State(provider.values[Len(path) + 1])
       \/ Requests /\ ~States /\ \E value \in Served : Choose(value)
       \/ ~States /\ Overrun
       \/ Rewind
       \/ Finish
    /\ UNCHANGED runVars
---------------------------------------------------------------------------
(* The calls of a run, each at its stage.                                  *)

Known == settings.known

\* A trace, an example or a stored case runs outside the tree.
CallKnown ==
    /\ At("known") /\ given < Len(Known) /\ Known[given + 1].follows
    /\ Call(Known[given + 1].phase, Known[given + 1].provider, FALSE)
    /\ given' = given + 1
    /\ UNCHANGED <<position, index, edges, chosen>>

\* The body cannot follow a trace: the TraceError ends the run.
RaiseTraceError ==
    /\ At("known") /\ given < Len(Known) /\ ~Known[given + 1].follows
    /\ Conclude("trace error")

CallSimplest ==
    /\ At("known") /\ given = Len(Known)
    /\ stage' = "simplest"
    /\ Start(TRUE)
    /\ phase' = "simplest" /\ provider' = Replaying(<<>>)
    /\ UNCHANGED <<settings, Counts, Progress, Conclusion, seen>>

CallToken ==
    /\ At("token")
    /\ \E choices \in settings.replay : Call("token", Replaying(choices), FALSE)
    /\ UNCHANGED Progress

Aim == Checks[position] * settings.cases

\* The condition of the loop of run_to().
GoesOn == valid < Aim /\ ~Exhausted /\ index < GenerationFactor * Aim

CallRandom ==
    /\ At("random") /\ GoesOn
    /\ Call(IF position = 1 THEN "random" ELSE "coverage", Random, TRUE)
    /\ index' = index + 1
    /\ UNCHANGED <<given, position, edges, chosen>>

StopRandom == At("random") /\ ~GoesOn /\ GoTo("rest") /\ UNCHANGED Progress

PrefixCases == Min({settings.cases \div PrefixDivisor, MaxPrefixCases})

Prefixed == valid <= PrefixCases /\ Len(chosen) >= 2 /\ ~Exhausted

CallPrefix ==
    /\ At("prefix") /\ Prefixed
    /\ \E cut \in 1..(Len(chosen) - 1) :
           Call("prefix", Replaying(SubSeq(chosen, 1, cut)), TRUE)
    /\ UNCHANGED Progress

SkipPrefix == At("prefix") /\ ~Prefixed /\ GoTo("edge") /\ UNCHANGED Progress

\* Mutant: an edge case runs although every input is tested.
HasEdgeAlways == edges # <<>>

HasEdge == edges # <<>> /\ ~Exhausted

\* next_edge(), after a random case and for the edge cases left.
CallEdge ==
    /\ At("edge") \/ At("rest")
    /\ HasEdge
    /\ Call("edge", Edge(Head(edges)), TRUE)
    /\ edges' = Tail(edges)
    /\ UNCHANGED <<given, position, index, chosen>>

SkipEdge == At("edge") /\ ~HasEdge /\ GoTo("random") /\ UNCHANGED Progress

StopEdges == At("rest") /\ ~HasEdge /\ GoTo("check") /\ UNCHANGED Progress

CallConfirm ==
    /\ At("confirm")
    /\ Call("confirm", Replaying(failing.choices), FALSE)
    /\ UNCHANGED Progress

CallReplay ==
    /\ At("replays") /\ replays < settings.replays
    /\ Call("replay", Replaying(failing.choices), FALSE)
    /\ UNCHANGED Progress
---------------------------------------------------------------------------
(* A call returns.                                                         *)

\* The stage after the call of a stage.
After(s) ==
    CASE s = "known"    -> "known"
      [] s = "simplest" -> "random"
      [] s = "random"   -> "prefix"
      [] s = "prefix"   -> "edge"
      [] s = "edge"     -> "random"
      [] s = "rest"     -> "rest"
      [] s = "token"    -> "token end"

Returned == phase # NoPhase /\ ~Running

Counted == Returned /\ phase \notin {"confirm", "replay"}

\* Every call that returns is seen, and the run keeps its tree.
Return ==
    /\ phase' = NoPhase
    /\ seen' = seen \cup {<<phase, status>>}
    /\ UNCHANGED <<treeVars, settings, provider, given, position, index, edges, replays,
                   reproduced>>

\* _Tally.take(): what a case counts, whether or not it ends the run.
Tally ==
    /\ requested' = (requested \/ record # <<>>)
    /\ rejected' = IF status = "rejected" THEN rejected + 1 ELSE rejected
    /\ valid' = IF status = "passed" THEN valid + 1 ELSE valid
    /\ chosen' = IF stage = "random" THEN CaseChoices ELSE chosen

Valued == provider.kind = "values"

\* A failing case is reported as found without choices to replay, without a
\* budget to shrink it, and for a token.
AsFound == Valued \/ ~settings.shrink \/ stage = "token"

TakeFailing ==
    /\ Counted /\ status = "failed"
    /\ Return /\ Tally
    /\ failing' = ThisCase
    /\ outcome' = "counterexample"
    /\ stage' = IF AsFound THEN "over" ELSE "replays"
    /\ UNCHANGED resume

TakeEnding ==
    /\ Counted /\ status \in {"diverged", "skipped"}
    /\ Return /\ Tally
    /\ EndAs(IF status = "diverged" THEN "flaky" ELSE "skipped")
    /\ UNCHANGED <<failing, resume>>

\* _confirm() replays this case.
Confirms ==
    /\ settings.confirm # 0 /\ ~Valued
    /\ status = "passed" /\ valid' % settings.confirm = 0

TakeOther ==
    /\ Counted /\ status \in {"passed", "rejected", "repeated"}
    /\ Return /\ Tally
    /\ IF Confirms
       THEN stage' = "confirm" /\ failing' = ThisCase /\ resume' = After(stage)
       ELSE stage' = After(stage) /\ UNCHANGED <<failing, resume>>
    /\ UNCHANGED outcome

\* confirm() of src/tools/prop/shrink.py: the same requests and the same end.
Same == requests = failing.requests /\ Identity = failing.identity

TakeConfirm ==
    /\ Returned /\ phase = "confirm"
    /\ Return
    /\ IF Same THEN stage' = resume /\ failing' = NoCase /\ UNCHANGED outcome
               ELSE EndAs("flaky") /\ UNCHANGED failing
    /\ resume' = "none"
    /\ UNCHANGED <<Counts, chosen>>

TakeReplay ==
    /\ Returned /\ phase = "replay"
    /\ phase' = NoPhase
    /\ seen' = seen \cup {<<phase, status>>}
    /\ replays' = replays + 1
    /\ reproduced' = IF Same THEN reproduced + 1 ELSE reproduced
    /\ UNCHANGED <<treeVars, settings, stage, provider, Progress, Counts, failing, resume, outcome>>
---------------------------------------------------------------------------
(* The run concludes.                                                      *)

\* _conclude(): the shrinker goes on with a failure that one replay reproduced.
ConcludeReplays ==
    /\ At("replays") /\ replays = settings.replays
    /\ Conclude(IF reproduced = 0 THEN "flaky" ELSE "counterexample")

\* Mutant: one rejection more is allowed.
RejectsTooManyMore == rejected > MaxRejections * valid + 1

\* rejects_too_many().
RejectsTooMany == rejected > MaxRejections * valid

\* _Tally.failure_without_counterexample().
FailsWithout(kind) ==
    \/ RejectsTooMany /\ kind = "rejected"
    \/ ~RejectsTooMany /\ ~requested /\ kind = "vacuous"

ConcludeWithout ==
    /\ At("check") \/ At("token end")
    /\ \E kind \in {"rejected", "vacuous"} : FailsWithout(kind) /\ Conclude(kind)

Stands == ~RejectsTooMany /\ requested

ConcludePassed ==
    /\ Stands
    /\ At("token end") \/ (At("check") /\ ~settings.required)
    /\ Conclude("passed")

\* coverage.verdict() of some requirement.  Which verdict the shares of the
\* labels give is left open.
Verdicts ==
    IF Exhausted THEN {"met", "unmet"}
    ELSE {"met", "refuted"} \cup (IF position = Len(Checks) THEN {"unmet"} ELSE {"undecided"})

\* Every requirement is met, or the first that is refuted or unmet ends the run.
Decide ==
    /\ At("check") /\ Stands /\ settings.required
    /\ \E verdict \in Verdicts :
           /\ verdict # "undecided"
           /\ Conclude(IF verdict = "met" THEN "passed" ELSE "coverage-unmet")

\* Mutant: a check that decides nothing runs again.
NextCheckStays ==
    /\ At("check") /\ Stands /\ settings.required
    /\ "undecided" \in Verdicts
    /\ GoTo("random")
    /\ UNCHANGED Progress

\* Some requirement is undecided: further random cases run to the next check.
NextCheck ==
    /\ At("check") /\ Stands /\ settings.required
    /\ "undecided" \in Verdicts
    /\ position' = position + 1
    /\ GoTo("random")
    /\ UNCHANGED <<given, index, edges, chosen>>

RunnerNext ==
    \/ Work
    \/ CallKnown \/ RaiseTraceError \/ CallSimplest \/ CallToken
    \/ CallRandom \/ StopRandom \/ CallPrefix \/ SkipPrefix
    \/ CallEdge \/ SkipEdge \/ StopEdges \/ CallConfirm \/ CallReplay
    \/ TakeFailing \/ TakeEnding \/ TakeOther \/ TakeConfirm \/ TakeReplay
    \/ ConcludeReplays \/ ConcludeWithout \/ ConcludePassed \/ Decide \/ NextCheck

RunnerSpec == RunnerInit /\ [][RunnerNext]_vars

\* The runner is one thread, and every call of the body returns.
FairRunnerSpec == RunnerSpec /\ WF_vars(RunnerNext)
---------------------------------------------------------------------------
Phases == {"example", "stored", "simplest", "random", "prefix", "edge", "coverage",
           "confirm", "replay", "token"}

Kinds == {"passed", "counterexample", "flaky", "rejected", "coverage-unmet", "vacuous",
          "skipped", "trace error"}

TypeOK ==
    /\ phase \in Phases \cup {NoPhase}
    /\ status \in Statuses \cup {"idle", "running"}
    /\ outcome \in Kinds \cup {NoOutcome}
    /\ outcome # NoOutcome <=> stage = "over" \/ (stage = "replays" /\ outcome = "counterexample")
    /\ <<>> \in DOMAIN tree /\ Cardinality(DOMAIN tree) <= limit
    /\ Len(requests) <= cost /\ cost <= MaxChoices
    /\ valid \in Nat /\ rejected \in Nat /\ requested \in BOOLEAN
    /\ position \in DOMAIN Checks
    /\ reproduced \in 0..replays /\ replays \in 0..settings.replays
    /\ seen \subseteq Phases \X Statuses

\* The runner keeps what the tree relies on: it starts a case in the tree
\* only while the tree is not exhausted, so that no walk starts at a leaf.
WalksTheTree == TreeSpec

\* Where a call keeps a part of its record and is not rejected, a call that
\* makes only the choices of that part does the same: what the docstring of
\* Filter says of the replays of its record.
IsReplayed ==
    \A p \in DOMAIN body : body[p].ending # "rejected" =>
        LET r == body[p].kept
        IN /\ r \in DOMAIN body /\ body[r] = body[p]
           /\ \A k \in 0..Len(r) : body[SubSeq(r, 1, k)].kept = SubSeq(r, 1, k)

\* A property whose body is a function of its choices is never reported as
\* flaky: neither a walk of the tree, through rewinds and repeats, nor a
\* replay of the record that is left of whatever phase's case, takes the
\* choices that were served for others.
FunctionIsNeverFlaky == IsFunction /\ IsReplayed => outcome # "flaky"

Failed == \E call \in seen : call[2] = "failed"

\* The calls that are not replays: the cases of the run.
Cases == {call \in seen : call[1] \notin {"confirm", "replay"}}

\* The run tried what it aims for, or all there is, or all it may generate.
Tried == /\ valid >= Aim \/ Exhausted \/ index = GenerationFactor * Aim
         /\ edges = <<>> \/ Exhausted

\* What the end of a run says of its calls.
Reports ==
    /\ outcome \in {"passed", "rejected", "vacuous", "coverage-unmet"} =>
           /\ ~Failed
           /\ \A call \in Cases : call[2] \in {"passed", "rejected", "repeated"}
           /\ settings.replay # {} \/ Tried
    /\ outcome = "passed" => valid > 0
    /\ outcome = "skipped" <=> \E call \in Cases : call[2] = "skipped"
    /\ outcome = "counterexample" =>
           /\ \E call \in Cases : call[2] = "failed"
           /\ replays > 0 => <<"replay", "failed">> \in seen /\ reproduced > 0

\* What a run reports is what its calls did: a failure, a divergence or a
\* skip of a case is never lost between the phases, a pass has tried every
\* case it owes, and a counterexample that was replayed failed again.  A share
\* of the valid cases is taken only where there is one: k / n has no value
\* for no case.
OutcomeAgreesWithCalls ==
    /\ TypeOK
    /\ At("check") /\ Stands => valid > 0
    /\ stage = "over" => Reports

\* Every run ends, whatever it repeats, rejects or leaves undecided.
RunEnds == <>(stage = "over")
===========================================================================

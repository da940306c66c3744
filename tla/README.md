# TLA+ models of assert-spec

assert-spec defines the assertions, the history checkers, the property engine
and the stateful testing tools of a family of test libraries, and carries each
definition in a form that runs, in Python under `src/tools/`. This directory
models the parts of that code that keep state and run in steps, checks them
with TLC on small instances, and proves the results that hold for every
instance with TLAPS.

Paths below are relative to `src/tools/`.

## Inventory

### Recorder: `history/seam.py`, class History
State: the event log `_events`, the open call of each client `_open`, the
process of each client `_process`, and the number of the next process.
Operations: `invoke`, and `ok`, `fail` and `unknown` on the Call that `invoke`
returned. A test holds that Call and may use it late or twice. Hard: refusals
that must leave nothing behind, a completion that comes after its client has
moved on, and a client that changes its process after an unknown outcome.
Correct when the log is a family of sequential processes: one open call each,
one completion per call, numbers in the order of the first invocation.

### Intervals: `history/seam.py`, `from_intervals`
Sorts recorded calls with a start and an end into events and replays them
through the recorder. Hard: closed intervals that touch. Correct when the
history has exactly the clock's precedence, and the recorder refuses nothing of
an accepted list but a key without a typed literal, which nobody looks at before.

### Models and equality: `history/model.py`, `history/equality.py`
Sequential models as step functions from a state and a call to a list of
states. No state of their own. The checker calls their `step`, `equal` and `cost`.

### Linearizability checker: `history/linearizable.py`
State of a search: a doubly linked list of entries, the stack of linearized
calls, their states, a memo of configurations, a budget, and the frontier that
a record reports. It reads a recorder's log, joins the calls that share keys
into partitions by union-find, and searches each. Hard: backtracking over
shared mutable state, the inclusion that lets the memo skip configurations, the
limits at their boundary, and which partition is reported. Correct when the
verdict is the definition's and the record describes a real frontier.

### Isolation checker: `history/isolation.py`
Indexes a history of transactions, derives the order of each key's versions
from the reads, builds the graph of dependencies, and looks for the first
forbidden anomaly of a level, most of them as cycles found by breadth-first
search inside strongly connected components. No state between checks. Hard:
reads that miss or invent values, transactions without an outcome, and walks
that are cut into cycles. Correct when no execution at a level is reported at
it, when what the reads reveal is found, and when a reported cycle is one.

### Scheduler: `stateful/scheduler.py`
State: ready, waiting and sleeping tasks, the clock, the priorities and levels
of Pct, and the task that has its turn. The body of a test calls `spawn`, `run`
and `advance`; a task is a generator that yields, waits, sleeps, returns or
raises. Hard: wakeups, the clock's moves between deadlines, change points over
several runs, runs that end early, and a limit on releases. Correct when no task
or wakeup is lost, a sleeper reads its own deadline, and every run ends.

### Machine and subjects: `stateful/machine.py`, `stateful/subjects.py`
A machine's run in six parts (swarm, setup, sequential, concurrent, drain,
settle). Its tasks run on the scheduler, its calls are recorded by the
recorder, and its model checks the log as one partition after each step. Hard:
steps of clients that interleave inside a subject, and the states that a check
leaves for the next step to read. Correct when a violation is reported exactly
when the log has no order that the model accepts, and a trace repeats its run.

### Cases and their providers: `prop/case.py`, `prop/execution.py`, `prop/trace.py`
A case records the choices a body requests from a provider, with spans and
draws. A provider generates, replays, takes edges, states values, or follows a
trace by running values backwards (`prop/inverse.py`). An attempt that is
rejected rewinds the record to a mark. Hard: what a rewind takes back and what
it does not, the reuse of earlier values, the cap, a trace whose values move to
later draws. Correct when a case's record, and its trace, are the case.

### Generators, patterns and shapes: `prop/generator.py` and others
Each generator asks a case for choices and decodes a value: scalars, filters,
collections with distinct elements, recursive values with a count of leaves,
patterns, temporal values. `prop/shape.py` reads a file of definitions that may
refer to each other, finds the cycles and the definitions that have a finite
value, and bounds a value by a budget of nodes. Hard: every decode must repeat
on a replay of its record, run backwards, and end. Correct when it does.

### Case tree: `prop/tree.py`
A walker follows each case down a trie of all earlier cases and stops repeats
and divergences. Hard: the limit on nodes, exhaustion, and records that are
rewound while the walk is not. Correct when the tree counts no walk of choices
twice, finds exactly the bodies that are no functions of their choices, and is
exhausted exactly when all is tested.

### Runner: `prop/runner.py`, `prop/coverage.py`
The runner calls the body in phases (examples, stored, simplest, random with
prefix and edge cases, coverage), counts, confirms, and concludes. Hard:
outcomes that are handed up through nested loops, cases that repeat, are
rejected or rerun, and counts that one phase takes over from another. Correct
when every run ends, with an outcome that its calls justify.

### Shrinker: `prop/shrink.py`
Searches for smaller failing cases in rounds of passes, with one budget and one
cache of candidates that all the failures of a run share; then fills each draw
of the counterexample with other values to tell which draws matter. Hard:
candidates that fail in another way, a pass that works on a record that an
accepted candidate has replaced, and a budget that ends anywhere. Correct when
what is kept is real and the smallest seen, a shrink that ended is locally
minimal, and what the explanation says is so.

### Store, replay token and bridge: `prop/store.py`, `prop/replay.py`, `prop/bridge.py`
What a run does with a stored counterexample, a token or a fuzzer's bytes. No
state between calls but the files. Correct when a decoder inverts its encoder
and refuses every other text, and no stored file is lost or run against another test.

### Everything else
File trees (`files/`) compare two trees. `validate.py`, `render.py`, `zones.py`
and `issue_forms.py` check and render the specification's files in one pass. The
`vectors.py` files translate the corpus. `prop/forms.py` and the predicates are
tables of assertions. `spec/`, `corpus/` and `docs/` are data.

## Modules

| Module | Models | State and actions |
| --- | --- | --- |
| `Processes` | the contract in the docstring of seam.py | the status of each process number; `Born`, `Opens`, `Closes`, `Dies` |
| `Seam` | History | the four fields, and how the last call ended; `Invoke` and `Completes` with their refusals |
| `Intervals` | `from_intervals` | the list, the timeline; `RefuseEntry`, `Accept`, `Replay`, which takes Seam's actions |
| `IntervalsProofs` | | the inductive invariants of Seam and of a replay, and the theorems |
| `Models` | model.py, and the models of the machine subjects | operators only |
| `Histories` | `_calls` | operators, and the reference definition of linearizability |
| `LinSearch` | class `_Search` | its fields; one action for each way a turn of `_search` can go |
| `LinCheck` | `check`, `whole`, `_partitions` | a recording phase, then `NextPartition`, the actions of LinSearch, `Conclude` |
| `HistoryProofs` | | lemmas about lists, recursive functions, the states that an order reaches, and the calls of a log |
| `LinProofs` | | the inductive invariants of LinSearch and LinCheck, that the partitions are components and decide the whole history, and the theorems; extends `HistoryProofs` |
| `Cycles` | `_Graph`, `_Tarjan` and the searches of isolation.py | operators: the turns of Tarjan's algorithm and of a breadth-first search, the shortest closed walks, and the cycles cut from them |
| `Isolation` | the rest of isolation.py | the history and what a check found in it; `Complete`, `Check`, and `SearchGraph` for graphs without a history |
| `IsolationProofs` | | what the turns and the cuts keep, the inductive invariant of Isolation, and the theorems |
| `Scheduler` | class Scheduler | its fields and each task's; `Spawn`, `Change`, the ends of a turn, `Run`, `Advance`, `Release`, `MoveClock`, and the ends of a run |
| `SchedulerProofs` | | the inductive invariant of Scheduler, and the theorems |
| `Subjects` | subjects.py | operators: the actions of each subject, their inputs, and what a call does |
| `Machine` | class `_Run` of machine.py | the part, the steps, the planned section, the tasks, the subject, the log and the states; one action for each step of each part, and `FollowOwn`, a second case on the first one's trace |
| `MachineProofs` | | the search of a check, the subjects against their models, the inductive invariant of Machine, and the theorems; extends `HistoryProofs` |
| `Ordering` | Python's `sorted()`, and the list comprehensions of `_wake` | operators: `Ascending` is external |
| `OrderingProofs` | | lemmas about sorted and filtered sequences, the least number of a set, and induction over a set |
| `Choices` | choice.py, and the shortlex order of shrink.py | operators |
| `Cases` | case.py and the providers | operators from a case to a case: `Choose`, spans, marks, rewinds, and the answers of each provider |
| `Generators` | generator.py, collection.py, pattern.py, the decoding of shape.py | operators: one `Decode` for each kind |
| `Inverses` | inverse.py | operators: `Emit`, by kind |
| `ShapeFiles` | the reader of shape.py | operators: cycles, exits, the least fixpoint of the finite definitions, `Read` |
| `Executions` | `Case.draw`, `execute`, the tracer, `confirm` | operators: `Execute` runs a body on a case to its end |
| `Replays` | what runner.py and shrink.py do with a kept case | the body, its case, its replay and its trace; `ReadFile`, `Generate`, `TakeEdge`, `Edit`, `Confirm`, `Follow` |
| `ShrinkPasses` | the passes of shrink.py | operators from a shrinker to a shrinker |
| `Shrinker` | `shrink_all`, the rounds, `explain` | the shrinker, the round and what is explained; an action for the choice of a failure, each pass, each end and each draw |
| `CaseTree` | tree.py, `execute`, `Case.choose`, `Case.rewind` | the trie, the walker, and the call that runs with its walk, its record and its cost; `Start`, `Rewind`, one action for each way a choice or an end can go |
| `Runner` | runner.py, `shrink.confirm`, and the providers of case.py and edge.py | the fields of `_Tally` and `_Phases` and the outcome; one action for each call of the body, for each way it returns, and for each way the run ends |
| `RunnerProofs` | | the inductive invariants of the walks, of exhaustion and of a run's outcome, that a run is a behaviour of `TreeSpec`, and the theorems |
| `MC...` | | the instances TLC checks |

`Seam` implements `Processes`: `Abstract` instantiates it with a status that is
read from the recorder's dictionaries. `Intervals` extends `Seam` and replays
through its actions, so that a refusal of the recorder is a state of the model.
`LinCheck` extends `LinSearch`, which extends `Histories` and `Models`. In
`LinCheck` the log is recorded first, event by event, and each call is on a
client of its own, which allows every order of invocations and completions that
the recorder allows, because a check does not read clients.

`Machine` composes the subjects, the recorder's log, the tasks of a section and
the check of the whole history. It uses `Histories` and not `LinSearch`: which
state the check leaves depends on the order in which the search tries the
candidates, and `Machine` computes that order. That the search with its list,
stack and memo is right for any history is what `LinCheck` shows, and that the
search as `Machine` states it is, `SearchedDecides` of `MachineProofs`.

`Choices`, `Cases`, `Generators`, `Inverses` and `Executions` are one chain. An
operation of a case is an operator from the case to what it leaves, because
code on one thread with no step of another inside has no interleaving to miss.
What has several steps is in `Replays` (a case, its confirmation, its trace) and
`Shrinker` (rounds, failures, a budget).

`Runner` extends `CaseTree`: each call of the body starts there, runs there
choice by choice, in the action `Work`, and returns to the runner. Where the
code nests loops and calls, `stage` names the code that goes on after a call
returns. The property `WalksTheTree` says that the runner uses the tree only as
`TreeSpec` allows, which is what the proofs about the tree assume. A body in
`Runner` is its moves, in `Shrinker` and `Replays` its draws of generators: the
one shows what calls do to a run, the others what a call does to its values.

How the code's data appears:

- Payloads, keys and outputs are members of small sets. A key-value state is a
  function that gives the empty string for an absent key. Set states keep their
  order, and compare without it.
- Positions count from 1 in `LinSearch` and `Intervals`, and the list's head is
  0. In `Seam`, `Cases` and `Machine`, indices are the code's.
- A set of positions stands for a bit mask. A set of configurations stands for
  the memo and its buckets, whose hash keys only choose a bucket.
- `_root` halves paths. That changes no representative and is left out.
- In `Isolation` a value has a form and its items, so that a list, a plain value
  and null compare as the code compares them. Edges carry no evidence.
- The loops of `Cycles` are recursive functions over as many turns as they can
  take, and a turn after the last one changes nothing. A breadth-first search keeps
  the paths in its queue, where the code keeps parents and walks them back.
- A task's ready and slept numbers are its place in a list. The clock counts
  from 0 and not from the code's EPOCH.
- A condition is a flag that the body or a task on its turn changes at will.
  What a task does in its turn is free; a wait whose condition is true and a
  sleep of no time continue the turn and change nothing.
- In `Machine` a turn is cut at its calls, and no other task runs before the
  turn yields, parks or ends. Its strategy is the uniform one. An entry of a
  trace states a step and its draws together; its input is the sequence of the
  arguments.
- A body of `Runner` is a function from the values it has taken to what it does
  next. A subject with two bodies behaves as one of them in each call, and so
  diverges. A node of the tree is the path of values to it. A draw is one
  choice, and an edge value is a field of the body's move.
- Each move of such a body states what is left of the record when it is made:
  `kept`, a beginning of what there was. A filter removes a rejected attempt, so
  `Rewind` cuts `record` and `requests` back, and `path`, where the walker is,
  and `cost`, which the cap counts, stay.
- Random values are any values of the bounds, and the cut of a prefix case is
  any. In `Cases` they come from a tape of numbers, one for each decision, which
  leaves the distributions out. Integer bounds of `Runner` are over naturals,
  and `counted` tells apart a float.
- A value of `Generators` starts with its type, so that equality is the
  code's equality of literals. A filter's predicate and a map's function are
  named and given by the instance.
- A trace of `Runner` counts as an example whose choices are known, or as one
  that the body cannot follow. Each required label is in one verdict, which is
  any that `coverage.verdict` can give at that check.
- Pct's priorities are drawn from {0, 1} and change points from the counts that
  a run can reach, because a count beyond `max_releases` changes nothing.

## Runs

| Run | Shows | Bounds, and why they are enough |
| --- | --- | --- |
| `seam` | The log, the dictionaries and the numbers agree, and Seam implements Processes | 3 clients, 6 events: two processes can die while a third client is busy, and a call can be completed twice around a newer call of its client |
| `intervals` | The validation is enough for the times, and precedence is the clock's | 3 entries, 2 clients, instants 0 to 2, each key with a typed literal or without: before, touching, nested, equal and empty intervals, on one client and on two |
| `linearizability` | Every state of the search, the partitions, the verdict, termination | every history of 3 calls of seven models and of 4 calls of a register, where the memo has entries that cover others; key-value histories over two keys, one call with both and one with none, with failed, unknown and pending calls; a budget of 5 steps or a memo of 6 bits, which stop some searches and not others, and a memo of 1 bit or no budget, which make partitions undecided before a violated one |
| `scheduler` | Places, wakeups, deadlines, change points, and that runs end | 3 tasks, 1 flag, 2 calls of the body, 3 releases a run, clock up to 3: three sleepers with one, two or three deadlines inside an advance, a run after a failed one, a task that the limit stops in a run or an advance. Under Pct, depth 3, which draws priorities and points and so has many more states: either 3 tasks in 2 runs without waits and sleeps, with two lowerings in one run and further ones in the next, or 2 tasks that wait and sleep in one call |
| `machine` | The verdict and the states of a machine's run, and that a trace repeats it | 15 set-ups of the subjects, correct and faulty, each with as many steps as its fault needs: 3 or 4 steps around a queue's wrap, 5 for a third refusal, 3 steps on clients 0 to 2 where two clients race, with every plan of them, every schedule, and the flusher's turns; then each case on its own trace, and six traces that a machine refuses |
| `isolation` | The verdicts against executions, the cycles against reachability | 12 workloads of 2 to 4 transactions: lost updates, write skew, long forks, blind, intermediate and crossed writes, on lists and on registers, every kind of completion, every list or value that a read may return and two that nothing produced, in every prefix of completions; and every subset of four pools of edges: three transactions both ways, a ring of four with the ways back, and rings that share a transaction |
| `isolation_order` | A violation, below | the same workloads |
| `replays` | A record, its replay and its trace are one case; shape files have values | 32 bodies over every generator, 289 shape files of two definitions (17 nodes each: cycles through optionals, lists, sets, maps, records and enumerations), every tape of 5 numbers of three values, every edge, and a record with a run of choices removed; collections whose discards stop them, filters that give up, a cap that no file reaches |
| `replays_filter` | A violation, below | one body |
| `shrinker` | What is kept, minimality, the budget, the explanation | 14 bodies, each with work for another pass and some with two failures, from every failing tape of 2 or 5 short numbers and of 12 longer ones, with a budget of 5 runs, which ends in any pass, of 30, 31, 40 and 41, which end in the explanation, also between two fillings of one draw, and of 200, which does not end |
| `runner` | The tree and the runner, whole runs | 17 subjects of at most three choices: digits, booleans, floats, a list that passes the cap of 2 choices, filters that rewind once or twice, pass, fail, give up or pass the cap with what they removed, bodies that reject, skip, fail, and change their bounds, their end or their failure between calls; limits of 3 nodes and of none that is reached; 1 or 3 cases, factors of 1 and 2 and two checks, so that a run is stopped by its count, by exhaustion and by its factor; a replay of no valid case, of each or of each second one, and 1 or 2 replays of a failure; no known case, an example and a stored case, an example of values, a trace that the body cannot follow, a failure that is not shrunk, a token |
| `runner_inputs` | A violation, below | the same runs |

Deadlock is checked in `linearizability`, `shrinker` and `machine`, where a
finished check, shrink or case stutters and any other state must have a step.
In the others the system really stops: a bounded log fills, a list is replayed,
a history is refused, a case is followed, a run ends, and the body of a test
stops calling.

The models' bounds on inputs are `MaxEvents`, `MaxEntries`, `MaxTime`,
`maxCalls`, `MaxEdits`, a set-up's `max` and `concurrent`, and `MaxCalls` and
`MaxTime` on the body of a scheduled test. `MaxReleases`, the budgets, the memo
limit, the limit on nodes, `MaxChoices`, `MaxDiscards`, `Budget`, `HalfRange`,
`DaySeconds`, `GenerationFactor`, `PrefixDivisor`, `MaxPrefixCases`,
`MaxRejections` and `Checks` are settings and constants of the code, given small
values.

Fairness. `FairCheckSpec` assumes weak fairness of the checker's steps alone:
`check` is one loop on one thread. Recording is not fair, because a test need
not finish its calls. `FairSpec` of Shrinker assumes it of the shrink, one loop
again. Both are written out, as "not running again and again, or stepping again
and again": TLC would otherwise compute every pass twice to learn that it is
enabled, and the check for deadlock shows that a running state always is.
`FairSpec` of Scheduler assumes weak fairness of the
scheduler's loop, one thread again, and of the end of a turn. The latter is an
assumption on tasks: the code has no limit for a task that never ends its turn.
Neither assumes that the body calls `run` again. In the run
`scheduler` both are of the steps that stay within the part of Pct's states that
its bounds choose; a part stops neither the loop nor a turn, which may always
end with a yield. `FairRunnerSpec` assumes weak
fairness of the runner's steps: a run is one loop on one thread, and a call of
the body returns, since each choice is one step and a case makes at most
`MaxChoices` of them. A test whose body never returns is outside it.

### What the properties say

- `CompletesOneCall`: late and repeated completions never reach another call.
- `ProcessesAreSequential`: what the checkers rely on. `ImplementsProcesses`
  states it as an abstract state machine.
- `OnlyKeysAreRefused`, `PrecedenceIsTheClocks`: an accepted interval list
  raises a UsageError only for a key without a typed literal, and becomes a
  history when it has none; no order is concluded that the clock did not show.
- `ListIsUnlinearized`, `ConfigurationIsItsOrders`: after any lifting and
  backtracking the list, the set, the states and the count are those of the
  order on the stack, within the limits. `FrontierIsDeepest` ties the record to
  one real configuration.
- `VerdictIsRight`: the verdict is that of the definition, for the whole
  history, with the memo, the partitions and the removal of failed calls in
  force, and the reported partition is the first that decides.
- `PartitionsAreComponents`, `Terminates`: the rest of what a check states.
- `SerializableIsSerial`, `SnapshotIsSnapshot`: nothing is reported of a history
  that an execution at the level explains, whatever its reads miss. The other
  way, what passes has an execution where the reads reveal the order of the
  writes, and each property says when they do. `Explained` is the
  definition: an order of the committed transactions and of some undecided ones,
  each on a state of its own choice (snapshot) or on the last (serializable).
- `SearchesFindTheCycles`, `CyclesAreOfTheirKind`: the breadth-first searches
  miss no forbidden cycle, and what they report is a cycle of its kind, also
  after `_simple` cuts shortcuts. `ViolationsPersist`: a later completion never
  turns a failed check into a passed one.
- `EachTaskInOnePlace`, `NoLostWakeup`, `SleepersReadTheirDeadline`,
  `LoweredRunsLast`, `RunsEnd`: what a schedule promises its tasks and its body.
  The tasks that `spawn` was given are kept in `spawned`, a history variable,
  so that a task that a wake drops is missed.
- `VerdictIsTheHistorys`: a case of a machine passes only when its history has
  an order that the model accepts, fails only when it has none, and a correct
  subject never fails. `StateIsTheSubjects`: the state that decides which steps
  and inputs come next is the subject's, although it is read from a check and
  not from the subject. `StepsAreFollowed`: a case's own trace makes its calls.
- `ReplayIsTheCase`, `RecordsAreAdmitted`, `OffersAreRecorded`: what a rewind,
  the cap and a reused value leave in a record is a record, and its replay is
  the case. `OwnTraceIsFollowed`: the inverse of every generator finds choices
  that decode to the value. `ReadFilesHaveValues`: in a file that is
  read every definition has a finite value, one whose cycles have none is refused,
  and the budget keeps every case of a file under the cap.
- `KeepsTheSmallest`: whatever failure a candidate shows, the smallest of each
  is kept, and replays to itself. `ShrunkIsMinimal`: nothing that the cache,
  another failure's shrink or a replaced record skipped was left to try.
  `ExplanationsHold`: what is said of any value of a draw is what all of its
  fillings do, nothing is said where the budget ended between two of them, and
  the nearest passing value passes. `BudgetIsShared`, `ShrinkEnds`: the rest.
- `NoWalkCountsTwice`: no two cases of the tree end at one walk of choices, also
  past the node limit among the nodes there are, and for bodies that diverge or
  rewind. It is not of inputs: see the findings.
- `ExhaustedIsTested`: a node is exhausted exactly when every way below it is
  tested, whatever order the cases came in. The two directions are the two ways
  a run can be wrong: to stop early, and to repeat.
- `FunctionIsNeverFlaky`: no phase, tree state, cap, rewind or replay makes a
  sound body flaky. A sound body is a function of its choices (`IsFunction`)
  and does on a record it kept what it did when it kept it (`IsReplayed`),
  which is what the docstring of Filter says, and not so in `replays_filter`.
  `OutcomeAgreesWithCalls` ties the outcome to what the body did in every
  phase, and says that a share is never taken of no case, which no single line
  of the code guards. `RunEnds`: every run ends.

### Findings

RFC 0015 (`docs/rfc/0015-isolation-checks-over-transaction-histories.md`, lines
32 and 33) says that a check "can miss an anomaly among writes that no read
observed". The run `isolation_order` shows one among writes that a read
observed, every one of them. T1 appends 1 and then 2 to x, T2 appends 3, and T3
reads [2, 1, 3]. No serial order explains that read, and the history passes
serializable: the order of versions is taken from the read, and
`_intermediate_read` looks at a read's last element only. It is why `Reveals`
asks that reads keep the order of one transaction's own appends.

The docstring of Filter (`prop/generator.py`, lines 320 to 334) says that "a
replay of the record decodes the kept value at its first attempt". The run
`replays_filter` shows a filter inside the extension of a recursive generator
for which it does not. The leaves of the rejected attempt stay counted towards
`max_leaves` (lines 396 to 411), so the generation requests other bounds than
its replay, and `confirm` calls a body flaky that is a function of its choices.
The bodies of the run `replays` have no such filter.

RFC 0010 (`docs/rfc/0010-properties-over-generated-inputs.md`) says of the case
tree, in line 790, that "a run never counts one input twice", and in line 818
that "a run counts only distinct inputs". The run `runner_inputs` shows a filter
that keeps the 1 of a boolean. The case that draws 1 and the case that draws 0,
is rewound and draws 1 have one record and one value, and both count:
`Case.rewind` (`prop/case.py`, lines 450 to 461) takes the rejected choice from
the record, and the tree, as lines 573 to 575 of the RFC say, keeps it. What
holds is `NoWalkCountsTwice`. A stored case, which line 811 keeps out of the
tree, is another input that may count twice: it counts when it passes
(`prop/runner.py`, lines 496 to 499), and so does a random case with its input.

Further places where the code and its descriptions differ were met while
modelling. No run is about them, and the models follow the code:

- The docstring of `history/linearizable.py` (lines 36 to 38) says that the
  candidates of a violated record "are all its candidates". A candidate that the
  model accepts, but whose configuration the memo covers because the call is
  optional, is neither linearized nor listed (line 465). The verdict is right.
- The docstring of `from_intervals` (`history/seam.py`, lines 273 to 276) states
  one error, IntervalError. A key without a typed literal is not one of the
  things it looks at, and the recorder's UsageError (lines 155 to 160) escapes
  from the replay (lines 304 to 306).
- A trace that puts a step entry of the sequential part after one of the
  concurrent or drain part is followed without it: `_follow_concurrent` and
  `_follow_drain` return at such an entry, and nothing looks at what is left.
  The docstrings (`stateful/machine.py`, line 62; `prop/trace.py`, line 23) say
  that a trace that the machine cannot follow raises a TraceError.
- The inverse of a recursive generator takes the base wherever the base produces
  the value too. Each base counts a leaf, so a value that the extension alone
  could have produced within `max_leaves` may be refused as a trace.
- A list, set or map of at least one element that refers back to its own
  definition has no short way out, and still grows when the budget is spent.
- `_finite` says that it refuses a definition that "reaches itself through refs
  every value expands". With B = optional(ref B), it also refuses
  A = record(enum(ref B, ref A)), whose enum can take the finite variant: an
  enum exits only through a variant that refers to no cycle at all.
- A failure whose shrink is done may be replaced by a smaller case that the
  shrink of another one meets, and is not shrunk again. `ShrunkIsMinimal` is
  therefore of a failure at the end of its own shrink.

## Proofs

`IntervalsProofs` proves of the recorder, for any clients, operations, outputs and bound on events:

- `OneCompletion` and `SequentialProcesses`: the two invariants of the run `seam`.
- `TypeCorrect`, `OpenAgrees` and `Numbered`: types, that the dictionary of open
  calls is what the log says, and that processes are numbered in the order of
  their first invocation. They are proved and no run repeats them.
- `Refinement`: `Spec => ImplementsProcesses`.

The one assumption is `MaxEventsAssumption`, that the bound is a natural number;
since it is any, the bound restricts no finite history.

None of them but the types is inductive alone. Whether a completion
may be accepted depends on `open`, whose agreement with the log is
`OpenAgreesWithLog`; that a new invocation leaves a process sequential depends
on every earlier call of that process being completed with an outcome, which is
a fact about dictionaries and log together. The inductive invariant `IInv` adds:

- `NumbersAreTaken`: every process number in the dictionaries and the log is
  below the counter, and the counter is at most the log's length;
- `CallsAreInvocations`: `open` names an invocation of its client, on the
  client's process;
- `NoSharedProcess`: no two clients hold one process;
- `HeldProcessIsSequential`: every call of a held process is its client's, and
  is the open one or completed with ok or fail.

`AppendedEvent`, `AppendedInvocation` and `AppendedCompletion` state what an
appended event changes; `RecordStep`, `CompletesStep` and `UnchangedStep` carry
the invariant over each kind of step. For the refinement, `RecordIsAbstract` and
`CompletesIsAbstract` map the two accepting steps, and refusals are stutters.

`RunnerProofs` proves of the case tree, for any subjects, any limits on nodes and any cap:

- `CountedOnce`: `TreeSpec => NoWalkCountsTwice`;
- `NeverDiverges`: the tree never finds a function of its choices to diverge;
- `Repeats`: a repeat is of a case that ended, and no walk goes past a leaf.

All three are of walks, with the choices that a rewind took from the record.

The one assumption is `BodiesAssumption`: a body says what it does on every path
that it requests, and it either requests or ends. The proof needs more than the
three properties, since what a walk finds depends on what other walks left. The
inductive invariant adds:

- `TreeOfNodes`, `CallOfSubject`: the shapes of the tree and of the call;
- `LeavesAreTested`: the leaves are the tested paths, and none has a request;
- `RootIsOpen`: a root that is a leaf is exhausted, in a tree that is not full,
  so that no case starts there. This is the fact that `Walker.end` states in
  its docstring and relies on;
- `NodesAreMoves`: each node of a function's tree has its body's request.

It has one lemma for each kind of step: a start, a step outside the tree, a
choice on a node there is, a choice that adds one, a divergence and a leaf.

Its second part proves, under the same specification:

- `ExhaustedMeansTested`: `TreeSpec => []ExhaustedIsTested`. A run that reports
  a proof reports it because the root of its tree is exhausted, so this is what
  makes a proof one;
- `TreeStaysWithinLimit`: the tree is finite and within its limit, and no case
  walks it once it is exhausted.

`WaysAssumption` says what a body is in more detail: each of its paths is made
of values that it requested on the way, each leads to an end, and bounds that are
counted have finitely many values. A body that choices can take nowhere does not
end, and `size` counts integers and sequences up to a length. `LimitsAssumption`
gives the limit and the cap their types. The inductive invariant `XInv` adds
to `IInv`:

- `TreeFits`, the second theorem;
- `NodesAreWays`: each node of a function's tree is a path of the body, and
  every node above it has a request.

The step that matters is `LeafXInv`: a case ends and the nodes above it settle.
A node settles as exhausted when it has as many children as its bounds have
values, so by counting (`SettledMeans`) every value has its child, and each
child's domain was tested already or is the one that this leaf completes.
`Node.settle` runs up the path one node after another. `SettledAbove` says the
same without recursion: a node above the leaf is exhausted if it and each
node between it and the leaf settles. It was a recursive function, about which
the provers know nothing without induction; `AboveLeaf` takes the least such node
instead, which `LeastNumber` of `OrderingProofs` gives.

`RunnerProofs` proves of a run, for any settings, factors and checks:

- `RunsWalkTheTree`: `RunnerSpec => WalksTheTree`, so that every behaviour of a
  run is one of `TreeSpec`;
- `RunsCountOnce`, `RunsNeverDiverge` and `RunsExhaustWhatIsTested`: what is
  proved of the tree, of runs;
- `OutcomesAgree`: the outcome that a run reports agrees with the calls it made;
- `NeverFlaky`: `RunnerSpec => []FunctionIsNeverFlaky`.

`RecordAssumption` says that a record is cut and extended, and never rewritten:
what a body keeps before a move is a beginning of what it kept before, with the
value it took. `RunsAssumption` says that the known cases of a run are a sequence of examples
and stored cases, and that a run asks for at least one case and one replay:
`Settings` refuses less. `IdentitiesAssumption` says that a failure has an
identity, which `Execution.failed_identity` returns for every failure. `FactorsAssumption` gives
the factors their types and says that the checks ascend, as `CHECKS` and
the run's last check do.

The loops and prefix cases look at the tree themselves, but the simplest case
does not. It starts in a tree that is not exhausted because the known cases, and
their confirming replays, ran outside it (`KnownAreOutside`), which needs that
each call returns to the stage it came from (`CallsOfStages`). These two and
`SettingsOfRun` are `RInv`.

That an outcome is right depends on every call before it, of which the run keeps
only counts. The inductive invariant `OutInv` says what the counts, the stage and
the failing case have to do with the calls:

- `PathOfCall`, `StatusOfCall`: the record of a call is what its body keeps and
  what is still to be removed, its values were allowed by the requests that
  are left, and its status is its body's;
- `CountsOfStage`, `TestedIsCounted`: the bounds on the counts, and that
  whatever was tested was counted as valid or rejected, so that a run
  that concludes has counted a case;
- `StagesDone`: a check is reached only after the random cases, the prefix cases
  and the edge cases of that check came to their end;
- `SeenSoFar`, `StagesOfRun`: without an outcome no call has failed, and what a
  run in its replays has seen;
- `FailingIsCase`, `ReplayIsOnWay`, `ReplaysReproduce`: the case that is replayed
  went where its values say, a replay is on that way, and it reproduces. From
  these `NeverFlaky` follows, because a replay is given the record of the case,
  asks a function of it, removes nothing (`IsReplayed`), and so ends as the case
  did.

It has a lemma for the steps of a call, for its start, for each way it returns
and for the conclusions.

`SchedulerProofs` proves, for any tasks, conditions, strategies, durations and
limits:

- `TypeCorrect`: types, and that a run releases no task more often than its limit;
- `OnePlaceEach`, `WakeupsAreNotLost`: the two invariants of the run `scheduler`;
- `SleepersOnTime`, `LoweredLast`: their two action properties.

`SchedulerAssumption` types the constants: priorities are natural numbers,
there is at least one, a strategy has a depth of at least one, and the limit on
releases is positive. A duration may be negative, since `sleep` takes any. The
inductive invariant `SInv` adds to the types:

- `Placed`: the three lists repeat no task and share none, with one another, with
  the tasks that are over or with the running task;
- `NoneLost`: whatever `spawn` was given is in one of these places, and nothing
  else is. A wake must put in the ready list all that it takes from the others
  for this to stay true;
- `DeadlinesToCome`: each sleeper's deadline is after the clock, so that a task
  that must wake at once never sleeps and a wake at the next deadline is in time;
- `WaitersUnmet`: between two turns no parked task's condition is true;
- `ClockBeforeEnd`: the clock does not pass the end of an advance;
- `LoweredIsLowest`: the task of the latest change point is alone at the lowest
  level, below every task, whatever was lowered before.

`OrderingProofs` has the lemmas on which `_wake` rests: what `Among`, a list
comprehension with a condition, keeps (`AmongTakes`, `AmongKeeps`), what a list
has that two make up (`JoinedEntries`), and that a finite set of distinct ranks
has one ascending list (`RanksListInOrder`), from which `sorted()` gets its
meaning for wakes and for the timeline of intervals.

`IntervalsProofs` proves of a replay, for any clients, payloads, number of entries and bound
on their times:

- `NeverRefused`: `IntervalsSpec => []OnlyKeysAreRefused`. After its checks
  `from_intervals` replays every entry, unless it comes to a key without a typed
  literal. The code calls the recorder without a handler, so that a refusal is
  an error of another kind than its docstring states;
- `ClockPrecedence`: one replayed call precedes another in the log exactly when
  its interval ends before the other's starts, and ties are concurrent;
- `ReplayUsesTheRecorder`: `IntervalsSpec => Spec`, so that the theorems
  about the recorder hold of every history that is built from intervals.

`BoundsAssumption` types the two bounds. The inductive invariant `ReplayInv` adds
to the recorder's `IInv`, which it needs for what an event is:

- `TimelineInOrder`: what is left of the timeline is in order and after all that
  is past;
- `CallsOfEntries`, `CompletionsOfEntries`: an entry past its start has a call of
  its own by its client, there is no other call, and the call has completed when
  the entry is past its end;
- `RecordedInOrder`: the log has the order of the moments;
- `KeysAreLiteral`: the keys of the entries past their start have typed literals.

A state is one of this invariant or of `Stopped`: the recorder has refused a key,
and no step follows.

Any other refusal needs a client with an open call at its next start, or a completion of
a call that is not open. The first is excluded by the check for overlaps: the tie
rule puts a start before an end at the same time, so two entries of one client
must not share even an instant, and the check compares closed intervals. The
second is excluded because each moment is replayed once and in order.

`LinProofs` proves, for any models, calls, histories, ways to divide them into
parts, and limits:

- `ListHolds`, `ConfigurationHolds`, `FrontierHolds`: the three invariants of
  the run `linearizability`, `ListIsUnlinearized`, `ConfigurationIsItsOrders` and
  `FrontierIsDeepest`;
- `VerdictHolds`: `VerdictIsEarned`, what a verdict says of the partitions. Each
  partition of a check that passed has an order that keeps the precedence and
  that the model accepts, the partition of a violation has none, and each
  partition before the first undecided one has one;
- `WholeVerdictIsRight`: `VerdictIsRight`, whenever all calls are one partition:
  `whole()` was asked for, or a call declares no keys. Then what is said of the
  partition is said of the history. `HistoryVerdictIsRight`, below, has the rest.

`ProblemsAssumption` says what a check is given: one of the models of the corpus
with calls that it knows and that each declare a list of keys, limits that are
natural numbers, and ends that are ok, fail or unknown. `_unknown` of model.py
raises for any other operation. TLC evaluates the assumption on the problems of
the run.

The order of the stack is what everything else depends on, and it is undone as
often as it grows. The inductive invariant `SearchInv` says, for each of its
beginnings and not only for the whole:

- `ListIsSpliced`: the list links the entries of the calls that are left, and
  each entry that was lifted names the neighbours it had in the list at
  that time. That lets `UnlinkTakesOut` and `RelinkPutsBack` undo the latest lift
  without a word about the ones before it;
- `ScanIsEarly`: no entry that the scan reaches and no invocation on the stack is
  after the completion of a required call that was not linearized before. From
  this the order keeps the precedence of the history (`EarlyKeepsPrecedence`),
  the scan cannot run off the list while a known call is left (`ScanFacts`), and
  a rejected call is one of the candidates that the docstring defines;
- `StatesAreLeft`: the states are those that the order may leave, each up to the
  model's equality, none twice, and at least one; and so are the states kept with
  each call of the stack for the calls before it, which is what a backtrack
  takes them for;
- `FrontierIsLeft`, `CandidatesAreRejected`: the same of the frontier, which no
  configuration of the memo exceeds, and of what was rejected there;
- `StackIsDone`, `WorkIsLimited`, `CallsAreSound`: each call is linearized once,
  the limits, and that each call has its own events in order.

`LinInv` adds that the log and the parts give sound calls, and `VerdictInv` that a
partition is left behind only when it passed or was undecided, and that the
search has something left to try.

The last is what makes a violation true, and the memo is what makes it hard.
`CanComplete(c, d, n)` says that n more calls complete an order from the
configuration of calls c and states d. `IsOpen` says that whatever can be
completed, from the empty configuration or from one in the memo, is left to try:
`IsLeft`, at some level of the stack there is a candidate at or after the scan
from which as few calls or fewer complete it. A search that has tried
everything has nothing left, so the part has no order. The steps:

- a lift moves what was left below it to the new level (`HeadIsLeft`), and a
  backtrack takes what it gives up back one entry further on: the configuration
  given up is in the memo, so what it could complete is left already;
- a rejected call starts no completion (`FirstIsCandidate`, `RestCompletes`);
- a call skipped for the memo is the circular one: the configuration that covers
  it might itself rest on the call skipped. It does not: of the completions that
  the skip might lose take one with the fewest calls. It is one call longer than
  what it leaves of itself after the skipped call, which the covering
  configuration can complete too (`CoverCompletes`); being shorter, that is
  left, and then so was the first.

The states need facts about functions that are defined by recursion: `Reached`
is one, and so is `FlattenSeq` of the community modules, over which a step's states
are joined. The library's induction takes an operator, but `NumbersIn` of
`OrderingProofs` takes a set in its place: a set with 0 that has the next of each of
its numbers has them all, since otherwise there is a least number without. With
the set of the lengths up to which a recursive function is defined,
it yields the function (`TrailsExist`, `FlatsExist`) and, from there, its equations
(`ReachedNext`, `FlattenHolds`). `DistinctKeeps` and `SetSteps` show that dropping equal
states loses nothing although two lists of one set are equal and not identical.

The second part of `LinProofs` proves, from the same assumption and about the same
specification:

- `PartitionsHold`: `CheckSpec => []PartitionsAreComponents`, for any calls and
  keys;
- `HistoryVerdictIsRight`: `VerdictIsRight`, when all calls are one partition, or
  else when the model is the key-value model and each call declares the key it
  touches (`KeysAreDeclared`). The condition is the code's own: "Keys are the
  caller's statement", and a call that touches another key "makes a partitioned
  check wrong, and nothing in the seam detects it" (docs/rfc/0003:492 to 494).
  The RFC of the checker claims the rest by Herlihy and Wing's locality
  (docs/rfc/0004:280 to 286); here it is a theorem about `_partitions` and the
  search.

The first is about a union-find, two recursive functions over recursive data.
`IteratesExist` gives the functions, as above. A `Forest` is a list of parents with
a representative and a rank for each call. A representative has the rank 0 and is
its own parent, any other call has a larger rank than its parent, and no rank
exceeds the number of calls that are no representatives. So `_root`'s climb, which
the model bounds by the number of calls, arrives (`RootIs`). `JoinMerges` shows that a join
of two trees is such a forest again, and `NextForest` that after each use the
representatives are equal for the calls that share a key used so far, and
different for calls that a set closed under sharing tells apart (`Separates`).
Of the groups of one representative, `_partitions` takes each once, by its first
call (`PartsAreGroups`).

The second goes through an order of calls that does not mention states of the
whole map: `HasOrder` says that a set of calls, the known ones and some others,
has a total order that keeps the precedence and in which each call makes of the
value of its own key what the model allows (`Alters`), starting from the value
that the latest call before it on that key left.

- `LinearizableHasOrder`, `OrderLinearizes`: for the key-value model this is the
  definition of linearizability, since a step alters one key (`KeyStep`).
- `GroupHasOrder`: an order of all calls is one of each partition, since no
  other partition touches its keys.
- `AllHasOrder`: orders of the partitions merge. A call takes effect at the latest
  invocation among itself and the calls before it in its own order. That is before
  the call's completion, since its order keeps the precedence; calls of different
  partitions never share such a point, since it is the index of an event of a
  call; and so the order by points, and within a point by the partition's own
  order, is total, keeps the precedence between partitions, and agrees with
  every partition's order.

`MachineProofs` proves, for any set-ups, values, traces and bounds on steps:

- `StateHolds`: `StateIsTheSubjects`. The next action, its input and whether it is
  enabled are decided on the state that the latest check left. With a correct
  subject that is the subject's own state between two sequential steps, and
  after a section, however its tasks interleave, an order of the calls leaves it;
- `VerdictHolds`: `VerdictIsTheHistorys`. A case of any subject passes only when
  its history is linearizable, fails the check only when it is not, and a
  correct ring, counter, register or ticker never fails it;
- `StepsFollowed`: `StepsAreFollowed`. A case that follows the trace of another,
  faulty subjects included, takes each of its entries where it stood and refuses
  none, so that its trace is the same; and on one client, where no schedule
  decides the calls, its history and its status are the same.

`SetupsAssumption` says that a set-up names one of the subjects, that its number of
clients is a natural number, that a queue has a capacity that `CAPACITIES` draws,
1 to 8, and that the store is checked on one client (`setup.sequential()`,
`subjects.py:385`). `StepsFollowed` needs the last: its tasks could otherwise
interleave differently in the following case and lose a write in one of the two
only. `SubjectsAssumption` says that `MILLISECONDS` draws natural
numbers and `VALUES` never None, from which a ring's empty slot differs. TLC
evaluates both on the run `machine`.

The inductive invariant `MachineInv` has four parts:

- `MachineTypes`: what is kept and planned are actions of the machine with inputs
  of theirs, and a case that is not over is running;
- `TasksAreOf`: only the racy increment yields between its read and its write, and
  only a register has a flusher among its tasks;
- `Searches`: in the parts after a check the states are what the search of the
  whole log finds, and the status is what it decides. A section calls without a
  check until its tasks end, so there it says nothing;
- `CorrectSoFar`, of a correct subject: it is sound (a ring's head, tail and
  size agree, a ticker has counted the periods that passed, no flush is half
  done), each call of its log ended before the next was invoked, and the calls in
  that order leave exactly the state that the subject is in.

Two arguments carry it. `CorrectSimulates` is the forward simulation of the five
correct subjects by their models, call by call: a ring of slots by a list
(`PutAppends`, `GetTakes`, by arithmetic modulo the capacity), a flushed register
by its value (`FlushKeepsState`: the flusher moves a value and changes no state), a
ticker with a deadline by the quotient of the clock and the period
(`AdvancedIs`). `SearchedDecides` is that the search with backtracking finds states
exactly when there is an order: the search is a function on the sequences of
calls, whose recursion `FindsExist` justifies from the number of calls that are
left, and `SearchInTurn` shows that calls that do not overlap are found in the
order of the log, so that the states are those of the subject and not of another
order.

A case that follows a trace has an invariant of its own, `FollowInv`. It says what
the case is, by a witness: the trace is a run (`IsRun`), `s` steps of the
sequential part, a drain up to `d` on one client, or else a section, with
subjects `S` and logs `L` between the first `d` steps, each the one before it
after the call of that step, and each step enabled and its input drawn in the
state that the check of the log before it leaves; and it ended as the last log
and subject make it end (`EndsAs`). While a case chooses freely the run grows at
its end (`FreeAt`). When its trace is followed the same `s`, `d`, `S` and `L` are the
witness, and the case is at a position of it, with the subject and the log that
stood there (`FollowsAt`): the actions that it offers, whether it would drain
further and whether its check fails are functions of these and so the same, and
each part ends where it ended. Nothing is assumed of the subject but that a call is
a function of its state, which holds of all but the counter that counts calls
beyond its case.

`IsolationProofs` proves, for any histories, outputs and finite graphs:

- `CyclesHold`: `CyclesAreOfTheirKind`. Whatever cycle a check reports visits each
  transaction once, follows dependencies of the relations it states, and is of its
  kind;
- `SearchesHold`: `SearchesFindTheCycles`. A graph fails snapshot isolation exactly
  when steps of which no two read-write edges are adjacent lead around in it, and
  fails serializable exactly when any do;
- `ComponentsHold`, `SearchFinds` and `SimpleWeaves`: what `_components`, the
  breadth-first searches and `_simple` promise the searches for cycles. That a
  component is not too large is not needed: a component only narrows a search.

`InputsAssumption` says that a workload is a finite list and that the edges of
a graph are finitely many, each between two transactions. `_edge` adds no other.
The invariant `IsolationInv` is small: the cases of a checked history are what the
searches find in its graph. The work is in the loops below it, which are
recursive functions over turns, by `NumbersIn` and `IteratesExist` as above:

- Tarjan's turns keep `TarjanInv`. `Knit(K, E, R)` says that no part of K is without
  an edge to the rest, which is strong connection without a word about paths.
  `TarjanFound`: whatever is knit and was popped in part was popped as a whole, in
  one component or as one node. That rests on `TarjanEdges`: a target that was
  followed is popped, or it is on the stack and the visit above which its source
  stands has a low that is not above its number. So when a low equals its number,
  no edge leaves what is above it on the stack but to what is popped, and it is
  popped together (`CloseIs`). `CountGrows`: twice the entered transactions and the
  followed edges, less the open visits, grow with each turn, so that the turns that
  `Components` allows are enough.
- A search keeps `SearchInv`, and after as many turns as there are states it has a
  way, or a set that nothing leaves and that has no goal (`Leads`).
- `_simple` cuts a walk that weaves, which means that no read-write edge follows
  another. The docstring says that "one of the two always has none": either part
  could join two read-write edges, but not both at once, since the two parts meet
  at one transaction (`InnerWeaves`, `OuterWeaves`). Each cut shortens the walk,
  and so the walk that is left has no repeat (`OnceIs`).

That nothing is missed is where the code could be wrong although each search is
right: each takes one shortest way from an edge, and `_nonadjacent` drops a walk
that its cuts leave with fewer than two read-write edges. `TightCircle` takes the
least set of nodes around which steps lead. It is knit, and so in one component
(`WiderIsKnit`). When its steps have no read-write edge, G0 or G1c finds one
(`NonRwFinds`). Otherwise take a read-write edge of it. When the way back
from it is dropped, its cut walk is a cycle with at most one read-write edge,
which another search finds (`FewRwFinds`). When there is no way back, the states
that the search reached (`MissedStates`) and the nodes that the search for
G-single reached from the same edge are a part of the set that no step leaves,
and that cannot be, since the set is the least (`SnapshotFinds`). Neither search
alone is enough: the states without a second read-write edge lead back only
by a cycle that G-single reports.

TLC checked each of these inductive invariants on the instance of its run before
it was proved, `FollowInv` with its witnesses computed from the trace.

Only model-checked: that the verdicts of the isolation checker are right of the
executions of a history (`SerializableIsSerial`, `SnapshotIsSnapshot`) and stay
(`ViolationsPersist`), the generators, records and the shrinker. The first three
need what dependencies say about executions, and `Explained` evaluates a history
with folds over data. The decoders, inverses and passes are recursive operators
over data, which no theorem can be about here, and `Replays` and `Shrinker` reach
such operators. Liveness (`Terminates`, `RunsEnd`, `RunEnds`,
`ShrinkEnds`) stays with TLC.

## Not modelled, and why

- Conditions that raise inside a wake, and clock or wait calls of the body
  outside a task, which only raise. A condition that another task makes false
  between a wake and the woken task's turn: the code promises that task nothing,
  so no property is about it; the model has the behaviour.
- Of the machine: an invariant, places, weights, the undecided check, and the
  cap on choices; the spinner, which only runs into the scheduler's limit; calls
  of a client that park inside a subject, since no subject's client waits.
- Floats and decimals, the default alphabet, the random source and its
  distributions: arithmetic that the vectors of the corpus compare best.
- The parsing of patterns, of shape files and of intervals' JSON, typed
  literals, the JSON form of records and their wording.
- The pass float-simplify and the float branches of other passes.
- The arithmetic of label shares, and fingerprints, which compare two calls
  of one case by what they observed.
- The store, the replay token and the bridge: a file or a text for each call,
  with no step of another program in between; their bit layouts are data.
- File trees, forms and predicates, corpus vectors and the specification's
  tooling: pure functions of data or one-pass file checks.

## Plan

Done: the recorder and intervals, both checkers, the scheduler, machine and
subjects, cases, generators, inverses and shapes, the case tree, the runner and
the shrinker.

1. Store, replay token and bridge: what a run does with a file that is stale,
   lost or of another test, and the decoders over small alphabets.
2. File trees: the rules of paths and parents and the comparison of two trees.
3. A machine with an invariant and the undecided check, which need subjects
   beyond those of the repository.
4. A theorem that what `SearchesHold` says of graphs holds of executions: that
   each serial order of a history keeps its dependencies.

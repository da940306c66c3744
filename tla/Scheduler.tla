----------------------------- MODULE Scheduler -----------------------------
(***************************************************************************)
(* The task scheduler: class Scheduler of src/tools/stateful/scheduler.py. *)
(*                                                                         *)
(* A task is a generator, and the body of a test spawns tasks and calls    *)
(* run() and advance().  Everything is one thread: while a task has its    *)
(* turn (current), only its actions are enabled; between two turns, only   *)
(* the scheduler's; and outside a run, only the body's.  What a task does  *)
(* in a turn is free: it changes the state that conditions read (flags),   *)
(* spawns tasks, and yields, waits, sleeps, returns or raises.             *)
(*                                                                         *)
(* A task's ready and slept numbers are its place in the lists ready and   *)
(* sleeping, which only grow at their end, so they are not kept apart.     *)
(* The clock counts from 0, where the code's counts from EPOCH.            *)
(***************************************************************************)
EXTENDS Ordering, Integers, SequencesExt

CONSTANTS
    Tasks,          \* the tasks that may be spawned
    Flags,          \* the conditions that tasks may wait for
    Strategies,     \* the strategies to check: a record of name and depth each
    Priorities,     \* the priorities that Pct may draw
    Durations,      \* the durations of sleeps and advances, zero or less included
    MaxReleases,    \* the scheduler's option: releases of one run
    MaxCalls,       \* bound: the body calls run() and advance() no more often
    MaxTime         \* bound: the body advances the clock no further

NoTask == "no task"
NoFlag == "no flag"

ASSUME SchedulerAssumption ==
    /\ NoTask \notin Tasks /\ NoFlag \notin Flags
    /\ Priorities \subseteq Nat /\ Priorities # {}
    /\ \A s \in Strategies : s.depth \in Nat \ {0}
    /\ Durations \subseteq Int
    /\ MaxReleases \in Nat \ {0} /\ MaxCalls \in Nat /\ MaxTime \in Nat

VARIABLES
    strategy,       \* _strategy
    ready,          \* _ready
    waiting,        \* _waiting: the tasks that wait, in the order of their waits
    sleeping,       \* _sleeping: the tasks that sleep, in the order of their sleeps
    over,           \* the tasks that returned, raised or were ended
    priority,       \* the priority of each task
    level,          \* its level
    deadline,       \* its deadline
    condition,      \* the flag that is its condition while it waits, or NoFlag
    lowest,         \* _lowest
    running,        \* _running: "no", or the call that runs
    current,        \* _current
    now,            \* the clock
    end,            \* the end time of the advance
    release,        \* the releases of the run so far
    points,         \* its change points
    flags,          \* the state of the subject: the conditions that are true
    calls,          \* the calls of the body so far
    spawned,        \* history: the tasks that spawn() was given
    lastLowered     \* auxiliary: the task of the latest change point

lists == <<ready, waiting, sleeping>>
fields == <<priority, level, deadline, condition>>
run == <<running, end, release, points>>
vars == <<strategy, lists, over, fields, lowest, run, current, now, flags, calls, spawned, lastLowered>>

Pct == strategy.name = "pct"

Longest(n, m) == IF n > m THEN n ELSE m

\* The body, or the task that has its turn, runs: not the scheduler.
BetweenTurns == running # "no" /\ current = NoTask
AtRest == running = "no"
Acting == AtRest \/ current # NoTask

Init ==
    /\ strategy \in Strategies
    /\ ready = <<>> /\ waiting = <<>> /\ sleeping = <<>> /\ over = {}
    /\ priority = [t \in Tasks |-> 0]
    /\ level = [t \in Tasks |-> 0]
    /\ deadline = [t \in Tasks |-> 0]
    /\ condition = [t \in Tasks |-> NoFlag]
    /\ lowest = 0
    /\ running = "no" /\ end = 0 /\ release = 0 /\ points = <<>>
    /\ current = NoTask
    /\ now = 0
    /\ flags = {}
    /\ calls = 0
    /\ spawned = {}
    /\ lastLowered = NoTask
---------------------------------------------------------------------------
(* _wake(): the sleepers that are due, and then the waiters.               *)

Due(t, time) == deadline'[t] <= time

\* Mutant: the due sleepers are kept by deadline, one for each.
DueByDeadline(s, time) ==
    LET due == {i \in DOMAIN s :
                    Due(s[i], time) /\ \A j \in 1..(i - 1) : deadline'[s[j]] # deadline'[s[i]]}
        Earlier(i, j) == deadline'[s[i]] < deadline'[s[j]]
        order == Ascending(due, Earlier)
    IN [k \in DOMAIN order |-> s[order[k]]]

\* The due sleepers, by deadline and then in the order of their sleeps.
DueSleepers(s, time) ==
    LET due == {i \in DOMAIN s : Due(s[i], time)}
        Earlier(i, j) == \/ deadline'[s[i]] < deadline'[s[j]]
                         \/ deadline'[s[i]] = deadline'[s[j]] /\ i < j
        order == Ascending(due, Earlier)
    IN [k \in DOMAIN order |-> s[order[k]]]

\* Mutant: only the waiters that no ready task goes before are woken.
MetWhenIdle(flag, r) == flag \in flags /\ r = <<>>

\* The condition of a waiter is true when it is read, after ready list r.
Met(flag, r) == flag \in flags

\* The lists after a wake at a time, from lists r, w and s and conditions c.
Wake(r, w, s, c, time) ==
    LET asleep == {t \in Tasks : ~Due(t, time)}
        met == {t \in Tasks : Met(c[t], r)}
        unmet == {t \in Tasks : ~Met(c[t], r)}
    IN /\ ready' = r \o DueSleepers(s, time) \o Among(w, met)
       /\ waiting' = Among(w, unmet)
       /\ sleeping' = Among(s, asleep)
       /\ condition' = [t \in Tasks |-> IF t \in Range(w) \cap met THEN NoFlag ELSE c[t]]
---------------------------------------------------------------------------
(* The body of the test, and what a task does within its turn.             *)

\* spawn(): under Pct, the task first receives its priority.
Spawn(t) ==
    /\ Acting
    /\ t \notin spawned
    /\ spawned' = spawned \cup {t}
    /\ \E p \in IF Pct THEN Priorities ELSE {0} : priority' = [priority EXCEPT ![t] = p]
    /\ ready' = Append(ready, t)
    /\ UNCHANGED <<strategy, waiting, sleeping, over, level, deadline, condition, lowest,
                   run, current, now, flags, calls, lastLowered>>

\* The subject changes: a condition becomes true, or false again.
Change(f) ==
    /\ Acting
    /\ flags' = IF f \in flags THEN flags \ {f} ELSE flags \cup {f}
    /\ UNCHANGED <<strategy, lists, over, fields, lowest, run, current, now, calls, spawned, lastLowered>>

\* The end of a turn: the scheduler wakes what the turn made ready.
EndTurn(r, w, s, c) ==
    /\ Wake(r, w, s, c, now)
    /\ current' = NoTask
    /\ UNCHANGED <<strategy, priority, level, lowest, run, now, flags, calls, spawned, lastLowered>>

\* A yield of None.
Yields ==
    /\ current # NoTask
    /\ UNCHANGED <<deadline, over>>
    /\ EndTurn(Append(ready, current), waiting, sleeping, condition)

\* A Wait whose condition is false.  One whose condition is true, and a sleep
\* of no time, continue the turn and change nothing.
Waits(f) ==
    /\ current # NoTask /\ f \notin flags
    /\ UNCHANGED <<deadline, over>>
    /\ EndTurn(ready, Append(waiting, current), sleeping, [condition EXCEPT ![current] = f])

Sleeps(n) ==
    /\ current # NoTask /\ n > 0
    /\ deadline' = [deadline EXCEPT ![current] = now + n]
    /\ UNCHANGED over
    /\ EndTurn(ready, waiting, Append(sleeping, current), condition)

Returns ==
    /\ current # NoTask
    /\ over' = over \cup {current}
    /\ UNCHANGED deadline
    /\ EndTurn(ready, waiting, sleeping, condition)

\* A failure of the task passes through the turn and the run.
Raises ==
    /\ current # NoTask
    /\ over' = over \cup {current}
    /\ current' = NoTask
    /\ running' = "no"
    /\ UNCHANGED <<strategy, lists, fields, lowest, end, release, points, now, flags, calls, spawned, lastLowered>>
---------------------------------------------------------------------------
(* run() and advance().  A call of either while one runs is refused and    *)
(* changes nothing.                                                        *)

\* The change points of a run: depth - 1 optional counts, and none but for
\* Pct.  A count that no release of the run reaches changes nothing.
ChangePoints ==
    IF ~Pct THEN {<<>>}
    ELSE UNION {[1..n -> 0..(MaxReleases - 1)] : n \in 0..(strategy.depth - 1)}

Starts(call) ==
    /\ AtRest /\ calls < MaxCalls
    /\ calls' = calls + 1
    /\ running' = call
    /\ release' = 0
    /\ points' \in ChangePoints
    /\ UNCHANGED <<strategy, over, priority, level, deadline, lowest, current, now, flags, spawned, lastLowered>>
    /\ Wake(ready, waiting, sleeping, condition, now)

Run == Starts("run") /\ UNCHANGED end

Advance(n) == now + Longest(n, 0) <= MaxTime /\ Starts("advance") /\ end' = now + Longest(n, 0)

\* _next(): any ready task, or under Pct the one of the highest level and
\* then the highest priority, the earliest ready among equals.
Below(t, u) ==
    \/ level[t] < level[u]
    \/ level[t] = level[u] /\ priority[t] < priority[u]

NextIndex ==
    IF ~Pct THEN DOMAIN ready
    ELSE {i \in DOMAIN ready :
            /\ \A j \in DOMAIN ready : ~Below(ready[i], ready[j])
            /\ \A j \in 1..(i - 1) : Below(ready[j], ready[i])}

PointsAt(count) == Cardinality({i \in DOMAIN points : points[i] = count})

\* Mutant: every change point lowers its task to one and the same level.
LoweredFlat(count) == IF PointsAt(count) > 0 THEN -1 ELSE lowest

\* The lowest level after the change points of a release.
Lowered(count) == lowest - PointsAt(count)

AllReleased == release = MaxReleases

\* Mutant: the release of the only ready task does not count.
CountedIfAmongMany == IF Len(ready) > 1 THEN release + 1 ELSE release

Counted == release + 1

Release ==
    /\ BetweenTurns /\ ready # <<>> /\ ~AllReleased
    /\ \E i \in NextIndex :
           LET t == ready[i]
           IN /\ ready' = RemoveAt(ready, i)
              /\ current' = t
              /\ lowest' = Lowered(release)
              /\ level' = IF PointsAt(release) > 0 THEN [level EXCEPT ![t] = lowest'] ELSE level
              /\ lastLowered' = IF PointsAt(release) > 0 THEN t ELSE lastLowered
    /\ release' = Counted
    /\ UNCHANGED <<strategy, waiting, sleeping, over, priority, deadline, condition,
                   running, end, points, now, flags, calls, spawned>>

\* _end_all(), and the failure of the case.
TooManyReleases ==
    /\ BetweenTurns /\ ready # <<>> /\ AllReleased
    /\ over' = over \cup Range(ready) \cup Range(waiting) \cup Range(sleeping)
    /\ ready' = <<>> /\ waiting' = <<>> /\ sleeping' = <<>>
    /\ running' = "no"
    /\ UNCHANGED <<strategy, fields, lowest, end, release, points, current, now, flags, calls, spawned, lastLowered>>

RunReturns ==
    /\ BetweenTurns /\ running = "run" /\ ready = <<>>
    /\ running' = "no"
    /\ UNCHANGED <<strategy, lists, over, fields, lowest, end, release, points, current, now,
                   flags, calls, spawned, lastLowered>>

\* Mutant: the clock moves to the end time in one jump.
NextInstantJump == end

\* The earliest deadline of a sleep, when it is before the end time.
NextInstant == Min({end} \cup {deadline[t] : t \in Range(sleeping)})

MoveClock ==
    /\ BetweenTurns /\ running = "advance" /\ ready = <<>>
    /\ now' = NextInstant
    /\ UNCHANGED <<strategy, over, priority, level, deadline, lowest, end, release, points, current,
                   flags, calls, spawned, lastLowered>>
    /\ Wake(ready, waiting, sleeping, condition, now')
    /\ running' = IF ready' = <<>> /\ now' = end THEN "no" ELSE "advance"

Body == (\E t \in Tasks : Spawn(t)) \/ (\E f \in Flags : Change(f))

Turn == Yields \/ (\E f \in Flags : Waits(f)) \/ (\E n \in Durations : Sleeps(n)) \/ Returns \/ Raises

Loop == Release \/ TooManyReleases \/ RunReturns \/ MoveClock

Next == Body \/ Turn \/ Loop \/ Run \/ (\E n \in Durations : Advance(n))

Spec == Init /\ [][Next]_vars

\* The loop of a run is one thread, and a task that has its turn ends it.
FairSpec == Spec /\ WF_vars(Loop) /\ WF_vars(Turn)
---------------------------------------------------------------------------
TypeOK ==
    /\ strategy \in Strategies
    /\ ready \in Seq(Tasks) /\ waiting \in Seq(Tasks) /\ sleeping \in Seq(Tasks)
    /\ over \subseteq Tasks
    /\ priority \in [Tasks -> Priorities \cup {0}]
    /\ level \in [Tasks -> Int] /\ lowest \in Int
    /\ deadline \in [Tasks -> Nat] /\ now \in Nat /\ end \in Nat
    /\ condition \in [Tasks -> Flags \cup {NoFlag}]
    /\ running \in {"no", "run", "advance"}
    /\ current \in Tasks \cup {NoTask}
    /\ current # NoTask => running # "no"
    /\ release \in 0..MaxReleases
    /\ points \in Seq(Nat)
    /\ flags \subseteq Flags
    /\ spawned \subseteq Tasks
    /\ lastLowered \in Tasks \cup {NoTask}

\* Every task that spawn() was given is in one place: ready, waiting, asleep,
\* on its turn, or over.  A task that two lists held would run twice, one that
\* a wake dropped would never run again, and a task that is over never runs
\* again.
EachTaskInOnePlace ==
    LET places == ready \o waiting \o sleeping \o (IF current = NoTask THEN <<>> ELSE <<current>>)
    IN /\ TypeOK
       /\ spawned = Range(places) \cup over
       /\ \A i, j \in DOMAIN places : places[i] = places[j] => i = j
       /\ \A i \in DOMAIN places : places[i] \notin over

NothingToWake ==
    /\ \A t \in Range(waiting) : condition[t] \notin flags
    /\ \A t \in Range(sleeping) : now < deadline[t]

\* No wakeup is lost: whenever the scheduler is about to release a task, to
\* move the clock or to return, every task still parked has a condition that
\* is false or a deadline to come, whichever turn or move changed that.
NoLostWakeup == BetweenTurns => NothingToWake

\* A task that a deadline wakes reads the time of its own deadline: the clock
\* stops at every deadline on its way, and while a woken task is ready it
\* does not go on.
SleepersReadTheirDeadline ==
    [][/\ \A t \in Range(sleeping) \ Range(sleeping') : t \in Range(ready') => now' = deadline[t]
       /\ now' # now => ready = <<>> /\ now < now' /\ now' <= end]_vars

\* A change point puts its task below every other one, those of the change
\* points before included: the task of the latest change point is released
\* only when it is the only ready task, or is lowered once more.
LoweredRunsLast ==
    [][current' # current /\ current' # NoTask /\ current' = lastLowered /\ PointsAt(release) = 0
           => ready = <<current'>>]_vars

\* Every run() and advance() ends, also while a task stays ready for ever.
RunsEnd == (running # "no") ~> (running = "no")
===========================================================================

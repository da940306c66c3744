---------------------------- MODULE MCScheduler ----------------------------
(***************************************************************************)
(* An instance of Scheduler for TLC, of three tasks, two calls of the body *)
(* and every wait and sleep on the uniform scheduler.  Under Pct, which    *)
(* has a priority for each task and change points for each run, a state is *)
(* of one of two parts: three tasks and two runs without a wait, a sleep   *)
(* or an advance, or two tasks that wait and sleep in one call.            *)
(***************************************************************************)
EXTENDS Scheduler

CONSTANT third      \* the task that waits and sleeps only on the uniform scheduler

Uniform == [name |-> "uniform", depth |-> 1]
Pct3 == [name |-> "pct", depth |-> 3]

BothStrategies == {Uniform, Pct3}

ManyDurations == {0, 1, 2}

OneFlag == {"flag"}

TwoPriorities == {0, 1}

Calm == flags = {} /\ waiting = <<>> /\ sleeping = <<>> /\ now = 0 /\ end = 0

InItsPart == Pct => Calm \/ (calls <= 1 /\ third \notin spawned)

MCNext == Next /\ InItsPart'

\* No part stops the loop of a run, or a task that has its turn: one that may
\* not wait or sleep may yield, return or raise.
MCSpec == Init /\ [][MCNext]_vars /\ WF_vars(Loop /\ InItsPart') /\ WF_vars(Turn /\ InItsPart')
===========================================================================

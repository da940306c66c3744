------------------------------ MODULE Machine ------------------------------
(***************************************************************************)
(* The steps of a machine in a case: class _Run of                         *)
(* src/tools/stateful/machine.py, over the subjects of Subjects.  A case   *)
(* chooses freely, or follows a trace of step entries; a case that chose   *)
(* freely is followed by one on its own trace.                             *)
(*                                                                         *)
(* The concurrent section runs on the uniform scheduler (Scheduler): an    *)
(* action here is the part of a turn up to the next call, and no other     *)
(* task runs before the turn yields, parks or ends.  A machine with an     *)
(* invariant, places, weights and the cap on choices are left out.         *)
(***************************************************************************)
EXTENDS Subjects

CONSTANTS Setups,           \* the machines and options to check
          TracesOf(_)       \* the traces that a setup follows, its own aside

\* A machine is one of the subjects, a queue has a capacity that it draws, and
\* the options of the store are those of Setup.sequential.
ASSUME SetupsAssumption ==
    \A s \in Setups : /\ s.name \in SubjectNames /\ s.clients \in Nat
                      /\ s.name \in Queues => s.capacity \in DOMAIN QueueModels
                      /\ s.name = "store-loses-on-crash" => s.clients = 1

VARIABLES setup,
          follows, trace,   \* whether the case follows a trace, and which
          at, part, kept, count, steps, planned,
          ready,            \* the scheduler's ready tasks
          turn,             \* the task that has its turn
          midway,           \* the increment of each client that yielded
          subject, log,
          states,           \* _states: those that the latest check left
          status, own       \* own: what the case did whose trace is followed

case == <<setup, follows, trace, own>>
record == <<steps, at, count>>
tasks == <<planned, ready, turn, midway>>
outcome == <<states, status>>
vars == <<case, record, tasks, outcome, part, kept, subject, log>>

NoRun == <<>>
NoClient == -1
NoTask == -1
Flusher == 0                \* the flusher's task; a client's is its number
NoCall == -1

Step(action, client, drain, input) ==
    [action |-> action, client |-> client, drain |-> drain, input |-> input]

Name == setup.name
Model == ModelOf(Name, setup.capacity)
IsFree == ~follows
Clients == 0..setup.clients

NothingDone ==
    /\ at = 1 /\ part = "swarm" /\ kept = {} /\ count = 0 /\ steps = <<>>
    /\ planned = [c \in Clients |-> <<>>]
    /\ ready = <<>> /\ turn = NoTask
    /\ midway = [c \in Clients |-> [call |-> NoCall, read |-> 0]]
    /\ log = <<>> /\ states = <<>> /\ status = "running"

Init ==
    /\ setup \in Setups /\ follows \in BOOLEAN
    /\ \/ ~follows /\ trace = <<>>
       \/ follows /\ trace \in TracesOf(setup)
    /\ \E increments \in 0..(Refusal - 1) :
           /\ Name = "counter-refuses-every-third" \/ increments = 0
           /\ subject = Fresh(Name, setup.capacity, increments)
    /\ own = NoRun
    /\ NothingDone
---------------------------------------------------------------------------
(* The check of the whole history, and the states that it leaves.          *)

\* The calls that may come first, with every call linearized that precedes
\* them.
Candidates(calls, done) ==
    {p \in DOMAIN calls \ done : \A q \in DOMAIN calls \ done : ~Precedes(calls[q], calls[p])}

Following(name, from, op) ==
    FlattenSeq([i \in DOMAIN from |-> StepOf(name, from[i], op)])

\* The states that an order of the calls leaves.
LeftBy(name, calls, order) ==
    LET after[i \in 0..Len(order)] ==
            IF i = 0 THEN <<InitOf(name)>> ELSE Following(name, after[i - 1], calls[order[i]].op)
    IN  after[Len(order)]

\* The search of whole(): the states after the first order in the order of
\* the candidates, or none.
Searched(name, calls) ==
    LET found[order \in Seq(DOMAIN calls)] ==
            LET NextOf(p) == IF LeftBy(name, calls, Append(order, p)) = <<>> THEN <<>>
                           ELSE found[Append(order, p)]
                nexts == {<<p, NextOf(p)>> : p \in Candidates(calls, Held(order))}
                hits == {next \in nexts : next[2] # <<>>}
            IN  IF Required(calls) \subseteq Held(order) THEN LeftBy(name, calls, order)
                ELSE IF hits = {} THEN <<>>
                ELSE (CHOOSE hit \in hits : \A other \in hits : hit[1] <= other[1])[2]
    IN  found[<<>>]

\* Mutant: a check keeps the states of the check before it.
StatesAfterLate(found) == IF states = <<>> THEN found ELSE states

StatesAfter(found) == found

\* Mutant: the history is not checked after the concurrent section.
CheckedSequentially == {"setup", "sequential", "drain"}

Checked == {"setup", "sequential", "tasks", "drain"}

\* _check(), at the end of a part or of a step of it.
Check(next) ==
    LET found == Searched(Model, Calls(log'))
    IN  IF Model = NoModel \/ part \notin Checked
        THEN UNCHANGED outcome /\ part' = next
        ELSE IF found = <<>>
        THEN UNCHANGED states /\ status' = "linearizable" /\ part' = "over"
        ELSE states' = StatesAfter(found) /\ UNCHANGED status /\ part' = next
---------------------------------------------------------------------------
(* What a step of a part may be: its list, and the entry of a trace.       *)

Available(actions) ==
    {a \in actions :
        a \in Guarded(Name) =>
            IF Model = NoModel THEN Enabled(Name, subject, Null)
            ELSE \A i \in DOMAIN states : Enabled(Name, subject, states[i])}

\* The actions that a part offers for its next step.
Offered ==
    CASE part = "sequential" -> IF count = setup.max THEN {} ELSE Available(kept)
      [] part = "concurrent" -> IF setup.clients = 1 \/ count = setup.concurrent THEN {}
                                ELSE kept \ Guarded(Name)
      [] part = "drain"      -> IF count = setup.max THEN {} ELSE Available(Drains(Name))

First(actions) == ActionsOf(Name)[Min({i \in DOMAIN ActionsOf(Name) : ActionsOf(Name)[i] \in actions})]

PartOf(entry) ==
    CASE entry.drain -> "drain"
      [] ~entry.drain /\ entry.client # NoClient -> "concurrent"
      [] OTHER -> "sequential"

\* The next entry is one of the part.
Prepared == ~IsFree /\ at <= Len(trace) /\ PartOf(trace[at]) = part

Acceptable(entry) ==
    /\ entry.action \in Offered
    /\ part = "concurrent" => entry.client \in Clients

\* A part takes a step: the one that the entry names, or any, and a drain
\* without an entry takes the first.
Takes(action, client, input) ==
    /\ action \in Offered
    /\ IF Prepared
       THEN /\ Acceptable(trace[at])
            /\ trace[at].action = action /\ trace[at].client = client /\ trace[at].input = input
            /\ at' = at + 1
       ELSE /\ IsFree \/ (part = "drain" /\ action = First(Offered))
            /\ UNCHANGED at
    /\ steps' = Append(steps, Step(action, client, part = "drain", input))
    /\ count' = count + 1

\* A flag of 0, or a list that is empty.  Only an empty list ends a drain.
Stops ==
    /\ ~Prepared
    /\ part = "drain" => Offered = {}

\* TraceError: the machine cannot take the entry.
Refuse ==
    /\ part \in {"sequential", "concurrent", "drain"}
    /\ Prepared /\ ~Acceptable(trace[at])
    /\ status' = "refused" /\ part' = "over"
    /\ UNCHANGED <<case, record, tasks, states, kept, subject, log>>
---------------------------------------------------------------------------
(* A call on the subject, and its record in the history.                   *)

Invocation(index, action, input) ==
    [kind |-> "invoke", call |-> index,
     value |-> [operation |-> action, args |-> input, keys |-> <<>>]]

Completion(index, kind, output) == [kind |-> kind, call |-> index, value |-> output]

\* The run of a step to its end: on client 0, or within one turn.
Called(action, input) ==
    LET result == RunOf(Name, subject, action, input)
        index == Len(log)
    IN  /\ subject' = result.subject
        /\ log' = IF result.kind = "none" THEN log
                  ELSE log \o <<Invocation(index, action, input),
                                Completion(index, result.kind, result.output)>>
---------------------------------------------------------------------------
(* The six parts.                                                          *)

\* Mutant: the swarm of a trace keeps the actions of its sequential steps.
NamedSequentially == {trace[i].action : i \in {j \in DOMAIN trace : PartOf(trace[j]) = "sequential"}}

\* The actions that the entries of a trace name.
Named == {trace[i].action : i \in DOMAIN trace}

All == {ActionsOf(Name)[i] : i \in DOMAIN ActionsOf(Name)}

\* The last action is kept when no earlier one is.
KeptBySwarm ==
    IF ~setup.swarm THEN {All}
    ELSE IF IsFree THEN SUBSET All \ {{}}
    ELSE IF Named \cap All = {} THEN {{ActionsOf(Name)[Len(ActionsOf(Name))]}}
    ELSE {Named \cap All}

Swarm ==
    /\ part = "swarm"
    /\ kept' \in KeptBySwarm
    /\ part' = "setup"
    /\ UNCHANGED <<case, record, tasks, outcome, subject, log>>

Setup ==
    /\ part = "setup"
    /\ UNCHANGED <<case, record, tasks, kept, subject, log>>
    /\ Check("sequential")

SequentialStep ==
    /\ part = "sequential"
    /\ \E action \in Offered : \E input \in InputsOf(Name, action) :
           Takes(action, NoClient, input) /\ Called(action, input)
    /\ UNCHANGED <<case, tasks, kept>>
    /\ Check("sequential")

SequentialEnds ==
    /\ part = "sequential" /\ Stops
    /\ part' = "concurrent" /\ count' = 0
    /\ UNCHANGED <<case, steps, at, tasks, outcome, kept, subject, log>>

\* The section lists its steps before any of them runs.
PlanStep ==
    /\ part = "concurrent"
    /\ \E action \in Offered, client \in Clients : \E input \in InputsOf(Name, action) :
           /\ Takes(action, client, input)
           /\ planned' = [planned EXCEPT ![client] = Append(@, [action |-> action, input |-> input])]
    /\ UNCHANGED <<case, ready, turn, midway, outcome, part, kept, subject, log>>

PlanEnds ==
    /\ part = "concurrent" /\ Stops
    /\ part' = IF setup.clients = 1 THEN "drain" ELSE "client 0"
    /\ count' = 0
    /\ UNCHANGED <<case, steps, at, tasks, outcome, kept, subject, log>>

\* Client 0 runs its steps before the tasks of the others.
ClientZeroStep ==
    /\ part = "client 0" /\ planned[0] # <<>>
    /\ Called(planned[0][1].action, planned[0][1].input)
    /\ planned' = [planned EXCEPT ![0] = Tail(@)]
    /\ UNCHANGED <<case, record, ready, turn, midway, outcome, part, kept>>

\* The tasks of the subject were spawned before those of the clients.
SpawnClients ==
    /\ part = "client 0" /\ planned[0] = <<>>
    /\ LET spawned == Ascending({c \in Clients \ {0} : planned[c] # <<>>}, <)
       IN ready' = (IF Name \in Registers THEN <<Flusher>> ELSE <<>>) \o spawned
    /\ part' = "tasks"
    /\ UNCHANGED <<case, record, planned, turn, midway, outcome, kept, subject, log>>

\* A trace states no choice of the scheduler, which then takes the first.
Release ==
    /\ part = "tasks" /\ turn = NoTask
    /\ \E i \in DOMAIN ready :
           /\ IsFree \/ i = 1
           /\ turn' = ready[i]
           /\ ready' = RemoveAt(ready, i)
    /\ UNCHANGED <<case, record, planned, midway, outcome, part, kept, subject, log>>

\* The end of a turn, which leaves tasks ready and wakes a waiting flusher.
EndTurn(left) ==
    LET idle == Name \in Registers /\ turn # Flusher /\ Flusher \notin {left[i] : i \in DOMAIN left}
    IN  /\ turn' = NoTask
        /\ ready' = IF idle /\ subject'.buffer # Null THEN Append(left, Flusher) ELSE left

FlusherTurn ==
    /\ part = "tasks" /\ turn = Flusher
    /\ subject' = Flushed(Name, subject)
    /\ EndTurn(IF subject'.taken # Null THEN Append(ready, Flusher) ELSE ready)
    /\ UNCHANGED <<case, record, planned, midway, outcome, part, kept, log>>

Acts(client) == part = "tasks" /\ turn = client /\ client # Flusher

\* A call within one turn.  The next one of the client follows in it.
ClientCall(client) ==
    /\ Acts(client) /\ planned[client] # <<>> /\ midway[client].call = NoCall
    /\ Name # "racy-counter"
    /\ Called(planned[client][1].action, planned[client][1].input)
    /\ planned' = [planned EXCEPT ![client] = Tail(@)]
    /\ UNCHANGED <<case, record, ready, turn, midway, outcome, part, kept>>

\* The racy increment reads the count and yields.
ClientReads(client) ==
    /\ Acts(client) /\ planned[client] # <<>> /\ midway[client].call = NoCall
    /\ Name = "racy-counter"
    /\ log' = Append(log, Invocation(Len(log), "increment", NoInput))
    /\ midway' = [midway EXCEPT ![client] = [call |-> Len(log), read |-> subject.count]]
    /\ planned' = [planned EXCEPT ![client] = Tail(@)]
    /\ UNCHANGED subject
    /\ EndTurn(Append(ready, client))
    /\ UNCHANGED <<case, record, outcome, part, kept>>

ClientWrites(client) ==
    /\ Acts(client) /\ midway[client].call # NoCall
    /\ LET written == midway[client].read + 1
       IN  /\ subject' = [count |-> written]
           /\ log' = Append(log, Completion(midway[client].call, "ok", written))
    /\ midway' = [midway EXCEPT ![client].call = NoCall]
    /\ UNCHANGED <<case, record, planned, ready, turn, outcome, part, kept>>

ClientEnds(client) ==
    /\ Acts(client) /\ planned[client] = <<>> /\ midway[client].call = NoCall
    /\ UNCHANGED <<subject, log>>
    /\ EndTurn(ready)
    /\ UNCHANGED <<case, record, planned, midway, outcome, part, kept>>

\* run() returns, and the machine checks the history.
TasksEnd ==
    /\ part = "tasks" /\ turn = NoTask /\ ready = <<>>
    /\ UNCHANGED <<case, record, tasks, kept, subject, log>>
    /\ Check("drain")

DrainStep ==
    /\ part = "drain"
    /\ \E action \in Offered : \E input \in InputsOf(Name, action) :
           Takes(action, NoClient, input) /\ Called(action, input)
    /\ UNCHANGED <<case, tasks, kept>>
    /\ Check("drain")

DrainEnds ==
    /\ part = "drain" /\ Stops
    /\ part' = "settle"
    /\ UNCHANGED <<case, record, tasks, outcome, kept, subject, log>>

Settle ==
    /\ part = "settle"
    /\ status' = IF Name = "store-loses-on-crash" /\ Lost(subject) THEN "lost-write" ELSE "passed"
    /\ part' = "over"
    /\ UNCHANGED <<case, record, tasks, states, kept, subject, log>>

\* A new case on the steps and the draws of this one.  The subject is built
\* anew, but the refusing counter goes on with the run's increments.
FollowOwn ==
    /\ part = "over" /\ IsFree
    /\ follows' = TRUE /\ trace' = steps
    /\ own' = [steps |-> steps, status |-> status, log |-> log]
    /\ subject' = Fresh(Name, setup.capacity,
                        IF Name = "counter-refuses-every-third" THEN subject.increments ELSE 0)
    /\ UNCHANGED setup
    /\ at' = 1 /\ part' = "swarm" /\ kept' = {} /\ count' = 0 /\ steps' = <<>>
    /\ planned' = [c \in Clients |-> <<>>]
    /\ ready' = <<>> /\ turn' = NoTask
    /\ midway' = [c \in Clients |-> [call |-> NoCall, read |-> 0]]
    /\ log' = <<>> /\ states' = <<>> /\ status' = "running"

\* The case is over.
Returned == part = "over" /\ ~IsFree /\ UNCHANGED vars

Tasks == Release \/ FlusherTurn \/ TasksEnd
         \/ (\E c \in Clients \ {0} : ClientCall(c) \/ ClientReads(c) \/ ClientWrites(c) \/ ClientEnds(c))

Next ==
    \/ Swarm \/ Setup \/ SequentialStep \/ SequentialEnds \/ PlanStep \/ PlanEnds
    \/ ClientZeroStep \/ SpawnClients \/ Tasks
    \/ DrainStep \/ DrainEnds \/ Settle \/ Refuse \/ FollowOwn \/ Returned

Spec == Init /\ [][Next]_vars
---------------------------------------------------------------------------
\* What the subject is, as its model states it.
Actual == StateOf(Name, subject)

Explained(order) == KeepsPrecedence(Calls(log), order) /\ Actual \in Reached(Model, Calls(log), order)

\* The state on which a step's actions and inputs are decided is the state
\* that a correct subject is in: between two sequential steps exactly, and
\* after a concurrent section one that an order of the calls leaves.
StateIsTheSubjects ==
    Name \in Correct =>
        /\ part = "sequential" => states = <<Actual>>
        /\ part \in {"drain", "over"} /\ status \in {"running", "passed"} =>
              \E order \in OrdersOf(Calls(log)) : Explained(order)

\* However the steps of the clients interleave inside a subject, a case
\* passes only when its whole history is correct, it fails the check only
\* when it is not, and a correct subject never fails.
VerdictIsTheHistorys ==
    part = "over" /\ Model # NoModel =>
        /\ status = "passed" => IsLinearizable(Model, Effective(log))
        /\ status = "linearizable" => ~IsLinearizable(Model, Effective(log))
        /\ Name \in Correct => status # "linearizable"

\* A case is followed by its own trace: the machine takes every entry at its
\* position, and makes the same calls where no schedule decides them.  The
\* refusing counter, which counts over the cases of a run, is not a function
\* of its case.
StepsAreFollowed ==
    part = "over" /\ own # NoRun /\ Name # "counter-refuses-every-third" =>
        /\ status # "refused" /\ steps = own.steps
        /\ setup.clients = 1 => status = own.status /\ log = own.log

=============================================================================

------------------------------- MODULE Seam -------------------------------
(***************************************************************************)
(* The recorder of a history: class History of src/tools/history/seam.py.  *)
(*                                                                         *)
(* The clients of a test record each invocation and each completion as the *)
(* next event.  A client holds the Call that invoke() returned and may use *)
(* it at any later time, late or twice: the recorder refuses a completion  *)
(* of a call that is not its client's open call, and an invocation while a *)
(* call of the client is open, with a UsageError.                          *)
(*                                                                         *)
(* An event's index and its call are the code's, counted from 0, so the    *)
(* event of index i is events[i + 1].                                      *)
(***************************************************************************)
EXTENDS Integers, Sequences, FiniteSets

CONSTANTS
    Clients,        \* the clients that record
    Operations,     \* what an invocation carries: the operation, args and keys
    Outputs,        \* what an ok completion carries
    MaxEvents       \* bound: no more events are recorded

ASSUME MaxEventsAssumption == MaxEvents \in Nat

VARIABLES
    events,         \* _events
    open,           \* _open, with None for an absent client
    process,        \* _process, with None for an absent client
    processes,      \* _processes
    raised          \* how the last call of the seam ended: the UsageError, or Nothing

vars == <<events, open, process, processes, raised>>

None == -1          \* a client that is no key of the dictionary

Completions == {"ok", "fail", "unknown"}
Kinds == {"invoke"} \cup Completions

Nothing    == "nothing"
ClientBusy == "the client has a call open"
NotLiteral == "a key has no typed literal"
Completed  == "the call has completed already"

\* What a fail and an unknown completion carry, and an event without a value.
Errors == {"error"}

Values == Operations \cup Outputs \cup Errors
Index  == 0..(MaxEvents - 1)
Number == 0..MaxEvents

Event == [kind : Kinds, call : Index, client : Clients, process : Number, value : Values]

EventAt(i) == events[i + 1]
Indices == 0..(Len(events) - 1)

Invocations == {i \in Indices : EventAt(i).kind = "invoke"}

CompletionsOf(call) ==
    {i \in Indices : EventAt(i).kind # "invoke" /\ EventAt(i).call = call}
---------------------------------------------------------------------------
Init ==
    /\ events = <<>>
    /\ open = [c \in Clients |-> None]
    /\ process = [c \in Clients |-> None]
    /\ processes = 0
    /\ raised = Nothing

Refuse(error) ==
    /\ raised' = error
    /\ UNCHANGED <<events, open, process, processes>>

\* A client without a process takes the next number, and keeps it.
ProcessOf(c) == IF process[c] = None THEN processes ELSE process[c]

Record(c, operation) ==
    /\ process' = [process EXCEPT ![c] = ProcessOf(c)]
    /\ processes' = IF process[c] = None THEN processes + 1 ELSE processes
    /\ events' = Append(events, [kind    |-> "invoke",
                                 call    |-> Len(events),
                                 client  |-> c,
                                 process |-> ProcessOf(c),
                                 value   |-> operation])
    /\ open' = [open EXCEPT ![c] = Len(events)]
    /\ raised' = Nothing

\* Mutant: the client's process is allocated before its keys are read.
InvokeAllocatesFirst(c, operation, literal) ==
    /\ Len(events) < MaxEvents
    /\ \/ open[c] # None /\ Refuse(ClientBusy)
       \/ /\ open[c] = None /\ ~literal
          /\ process' = [process EXCEPT ![c] = ProcessOf(c)]
          /\ processes' = IF process[c] = None THEN processes + 1 ELSE processes
          /\ raised' = NotLiteral
          /\ UNCHANGED <<events, open>>
       \/ open[c] = None /\ literal /\ Record(c, operation)

\* literal: every key of the invocation has a typed literal.
Invoke(c, operation, literal) ==
    /\ Len(events) < MaxEvents
    /\ \/ open[c] # None /\ Refuse(ClientBusy)
       \/ open[c] = None /\ ~literal /\ Refuse(NotLiteral)
       \/ open[c] = None /\ literal /\ Record(c, operation)

\* Mutant: any open call of the client stands for the one completed.
IsOpenAny(call) == open[EventAt(call).client] # None

IsOpen(call) == open[EventAt(call).client] = call

\* Mutant: the client of an unknown call goes on on its old process.
ProcessAfterKept(c, kind) == process[c]

ProcessAfter(c, kind) == IF kind = "unknown" THEN None ELSE process[c]

\* The holder of a call completes it, for the first time or again.
Completes(call, kind, value) ==
    /\ Len(events) < MaxEvents
    /\ LET c == EventAt(call).client
       IN \/ ~IsOpen(call) /\ Refuse(Completed)
          \/ /\ IsOpen(call)
             /\ open' = [open EXCEPT ![c] = None]
             /\ process' = [process EXCEPT ![c] = ProcessAfter(c, kind)]
             /\ events' = Append(events, [kind    |-> kind,
                                          call    |-> call,
                                          client  |-> c,
                                          process |-> EventAt(call).process,
                                          value   |-> value])
             /\ raised' = Nothing
             /\ UNCHANGED processes

Ok(call) == \E output \in Outputs : Completes(call, "ok", output)

Fail(call) == \E error \in Errors : Completes(call, "fail", error)

Unknown(call) == \E error \in Errors : Completes(call, "unknown", error)

Next ==
    \/ \E c \in Clients, operation \in Operations, literal \in BOOLEAN :
           Invoke(c, operation, literal)
    \/ \E call \in Invocations : Ok(call) \/ Fail(call) \/ Unknown(call)

Spec == Init /\ [][Next]_vars
---------------------------------------------------------------------------
TypeOK ==
    /\ events \in Seq(Event)
    /\ open \in [Clients -> Index \cup {None}]
    /\ process \in [Clients -> Number \cup {None}]
    /\ processes \in Number
    /\ raised \in {Nothing, ClientBusy, NotLiteral, Completed}

\* The log, not the dictionaries, says which call of a client is open: open
\* names a client's call exactly when the log holds its invocation and no
\* completion of it.  A lost or a doubled completion breaks it.
OpenAgreesWithLog ==
    \A c \in Clients :
        {i \in Invocations : EventAt(i).client = c /\ CompletionsOf(i) = {}}
            = IF open[c] = None THEN {} ELSE {open[c]}

\* Every completion of the log is the only one of its call, follows the
\* call's invocation, and repeats that invocation's client and process.
CompletesOneCall ==
    \A j \in Indices : EventAt(j).kind # "invoke" =>
        LET i == EventAt(j).call
        IN /\ i \in Invocations /\ i < j
           /\ CompletionsOf(i) = {j}
           /\ EventAt(i).client = EventAt(j).client
           /\ EventAt(i).process = EventAt(j).process

\* A process is sequential: when it invokes again, its earlier call has
\* completed, and with an outcome.  A process whose call ended as unknown
\* never invokes again, and no two clients ever share a process.
ProcessesAreSequential ==
    \A i, j \in Invocations : i < j /\ EventAt(i).process = EventAt(j).process =>
        /\ EventAt(i).client = EventAt(j).client
        /\ \E k \in CompletionsOf(i) : k < j /\ EventAt(k).kind \in {"ok", "fail"}

\* Processes are numbered from 0 in the order of their first invocation,
\* without a gap: a refused invocation takes no number.
NumberedByFirstInvocation ==
    /\ \A i \in Indices : EventAt(i).process < processes
    /\ \A p \in 0..(processes - 1) :
           \E i \in Invocations :
               /\ EventAt(i).process = p
               /\ \A j \in Indices : j < i => EventAt(j).process < p
---------------------------------------------------------------------------
\* The abstract status of a process number: busy and idle are read from the
\* dictionaries, and a number below the counter that no client holds is dead.
Status(p) ==
    IF processes <= p THEN "unborn"
    ELSE IF \E c \in Clients : process[c] = p /\ open[c] # None THEN "busy"
    ELSE IF \E c \in Clients : process[c] = p THEN "idle"
    ELSE "dead"

Abstract == INSTANCE Processes WITH
    MaxProcess <- MaxEvents,
    status <- [p \in Number |-> Status(p)]

\* The recorder implements the sequential processes that its docstring
\* promises: no call of it, accepted or refused, gives a process a second
\* open call, revives a dead process or numbers one out of turn.
ImplementsProcesses == Abstract!Spec
===========================================================================

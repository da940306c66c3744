------------------------------ MODULE Subjects ------------------------------
(***************************************************************************)
(* The machine subjects of src/tools/stateful/subjects.py: their actions,  *)
(* and what a call of each does to the subject.  A value that a put or a   *)
(* write draws is a model of its own, the milliseconds are the code's.     *)
(* The spinner, which only runs into the scheduler's limit, is left out.   *)
(***************************************************************************)
EXTENDS Histories

CONSTANTS Values,           \* the values that VALUES draws
          Milliseconds      \* the numbers that MILLISECONDS draws

ASSUME SubjectsAssumption == Milliseconds \subseteq Nat /\ Null \notin Values

Overflow == 3
Refusal == 3
Limit == 3
StoreKeys == 0..1
NoInput == <<>>

Queues == {"correct-queue", "queue-loses-on-wrap"}
SharedCounters == {"correct-counter", "racy-counter"}
Registers == {"register-flushes", "register-flushes-in-two-parts"}
Tickers == {"ticker", "ticker-skips-its-first-tick"}
Correct == {"correct-queue", "correct-counter", "register-flushes", "ticker",
            "counter-refuses-every-third"}
SubjectNames == Queues \cup SharedCounters \cup Registers \cup Tickers
    \cup {"counter-overflows", "counter-refuses-every-third", "store-loses-on-crash"}

\* The actions of a machine, in order.
ActionsOf(name) ==
    CASE name \in Queues                        -> <<"put", "get">>
      [] name = "counter-overflows"             -> <<"increment", "reset">>
      [] name \in SharedCounters                -> <<"increment">>
      [] name = "counter-refuses-every-third"   -> <<"increment", "read">>
      [] name = "store-loses-on-crash"          -> <<"put", "flush", "crash">>
      [] name \in Registers                     -> <<"write", "read">>
      [] name \in Tickers                       -> <<"advance", "read">>

\* The model of a machine, NoModel for the store.
NoModel == "no model"
ModelOf(name, capacity) ==
    CASE name \in Queues                        -> QueueModels[capacity]
      [] name \in SharedCounters \cup {"counter-overflows"} -> "counter"
      [] name = "counter-refuses-every-third"   -> "reading-counter"
      [] name = "store-loses-on-crash"          -> NoModel
      [] name \in Registers                     -> "register"
      [] name \in Tickers                       -> "ticks"

Drains(name) == IF name = "store-loses-on-crash" THEN {"flush"} ELSE {}

\* The actions that state enabled, and whether one is in a state.
Guarded(name) ==
    CASE name = "counter-refuses-every-third" -> {"increment"}
      [] name = "store-loses-on-crash"        -> {"flush"}
      [] OTHER                                -> {}

Enabled(name, subject, state) ==
    IF name = "store-loses-on-crash" THEN subject.buffer # <<>> ELSE state < Limit

\* The inputs that an action may request, as the args of its call.  The
\* state decides none of them.
InputsOf(name, action) ==
    CASE action = "put" /\ name \in Queues -> {<<v>> : v \in Values}
      [] action = "put" /\ name \notin Queues -> {<<k>> : k \in StoreKeys}
      [] action = "write"   -> {<<v>> : v \in Values}
      [] action = "advance" -> {<<n>> : n \in Milliseconds}
      [] OTHER              -> {NoInput}

\* A subject that a case builds.  The count of increments is the run's.
Fresh(name, capacity, increments) ==
    CASE name \in Queues -> [slots |-> [i \in 0..(capacity - 1) |-> Null], head |-> 0, tail |-> 0,
                             size |-> 0, capacity |-> capacity]
      [] name \in SharedCounters \cup {"counter-overflows"} -> [count |-> 0]
      [] name = "counter-refuses-every-third" -> [count |-> 0, increments |-> increments]
      [] name = "store-loses-on-crash" ->
            [durable |-> <<>>, buffer |-> <<>>, acknowledged |-> <<>>, written |-> 1]
      [] name \in Registers -> [buffer |-> Null, durable |-> Null, taken |-> Null]
      [] name \in Tickers -> [now |-> 0, tick |-> 0, deadline |-> PeriodMs, count |-> 0]
---------------------------------------------------------------------------
\* What a call of an action does: the subject after it, how its call in the
\* history completes, and with which output.  A call of no kind records
\* nothing.
Outcome(subject, kind, output) == [subject |-> subject, kind |-> kind, output |-> output]

Put(name, ring, value) ==
    LET last == ring.tail = ring.capacity - 1
        slot == IF last /\ name = "queue-loses-on-wrap" THEN 0 ELSE ring.tail
    IN  IF ring.size = ring.capacity THEN Outcome(ring, "ok", FALSE)
        ELSE Outcome([ring EXCEPT !.slots[slot] = value, !.size = @ + 1,
                                  !.tail = IF last THEN 0 ELSE @ + 1], "ok", TRUE)

Get(ring) ==
    IF ring.size = 0 THEN Outcome(ring, "ok", Null)
    ELSE Outcome([ring EXCEPT !.head = (@ + 1) % ring.capacity, !.size = @ - 1],
                 "ok", ring.slots[ring.head])

Overflows(counter, action) ==
    IF action = "reset" THEN Outcome([count |-> 0], "ok", Null)
    ELSE LET count == (counter.count + 1) % Overflow IN Outcome([count |-> count], "ok", count)

\* An increment whose read and write no other task comes between.
Increment(counter) == Outcome([count |-> counter.count + 1], "ok", counter.count + 1)

Refusing(counter, action) ==
    LET counted == [counter EXCEPT !.increments = @ + 1]
        added == [counted EXCEPT !.count = @ + 1]
    IN  CASE action = "read" -> Outcome(counter, "ok", counter.count)
          [] action = "increment" /\ counted.increments % Refusal = 0 ->
                Outcome(counted, "fail", "refused")
          [] OTHER -> Outcome(added, "ok", added.count)

Store(store, action, input) ==
    LET key == input[1] IN
    CASE action = "put" ->
            Outcome([store EXCEPT !.buffer = (key :> store.written) @@ @,
                                  !.acknowledged = (key :> store.written) @@ @,
                                  !.written = @ + 1], "ok", Null)
      [] action = "flush" ->
            Outcome([store EXCEPT !.durable = store.buffer @@ @, !.buffer = <<>>], "none", Null)
      [] action = "crash" -> Outcome([store EXCEPT !.buffer = <<>>], "none", Null)

\* The settle check of the store: a put that returned and is not durable.
Lost(store) ==
    \E key \in DOMAIN store.acknowledged :
        key \notin DOMAIN store.durable \/ store.durable[key] # store.acknowledged[key]

BufferedOr(register) == IF register.buffer = Null THEN register.durable ELSE register.buffer

RegisterCall(register, action, input) ==
    IF action = "write" THEN Outcome([register EXCEPT !.buffer = input[1]], "ok", Null)
    ELSE Outcome(register, "ok", BufferedOr(register))

\* The turn of the flusher, from one resume to where it parks or yields.
Flushed(name, register) ==
    LET landed == IF register.taken = Null THEN register
                  ELSE [register EXCEPT !.durable = register.taken, !.taken = Null]
    IN  IF landed.buffer = Null THEN landed
        ELSE IF name = "register-flushes-in-two-parts"
        THEN [landed EXCEPT !.taken = landed.buffer, !.buffer = Null]
        ELSE [landed EXCEPT !.durable = landed.buffer, !.buffer = Null]

\* A tick that is due by a time: the task counts it, and sleeps to the next.
Ticked(name, ticker, end) ==
    LET skipped == ticker.tick = 0 /\ name = "ticker-skips-its-first-tick"
    IN  IF ticker.tick = MostTicks \/ ticker.deadline > end THEN ticker
        ELSE [now |-> ticker.deadline, tick |-> ticker.tick + 1,
              deadline |-> ticker.deadline + PeriodMs,
              count |-> IF skipped THEN ticker.count ELSE ticker.count + 1]

\* The advance of the clock, with the ticks that come due on the way.
Advanced(name, ticker, end) ==
    LET after[i \in 0..MostTicks] == IF i = 0 THEN ticker ELSE Ticked(name, after[i - 1], end)
    IN  [after[MostTicks] EXCEPT !.now = end]

Ticker(name, ticker, action, input) ==
    IF action = "advance"
    THEN Outcome(Advanced(name, ticker, ticker.now + input[1]), "ok", Null)
    ELSE Outcome(ticker, "ok", ticker.count)

\* The run of an action, to its end.
RunOf(name, subject, action, input) ==
    CASE name \in Queues -> IF action = "put" THEN Put(name, subject, input[1]) ELSE Get(subject)
      [] name = "counter-overflows" -> Overflows(subject, action)
      [] name \in SharedCounters -> Increment(subject)
      [] name = "counter-refuses-every-third" -> Refusing(subject, action)
      [] name = "store-loses-on-crash" -> Store(subject, action, input)
      [] name \in Registers -> RegisterCall(subject, action, input)
      [] name \in Tickers -> Ticker(name, subject, action, input)
---------------------------------------------------------------------------
\* What a correct subject is, as its model states it.
StateOf(name, subject) ==
    CASE name \in Queues -> [i \in 1..subject.size |->
                                subject.slots[(subject.head + i - 1) % subject.capacity]]
      [] name \in Registers -> BufferedOr(subject)
      [] name \in Tickers -> subject.now
      [] OTHER -> subject.count
=============================================================================

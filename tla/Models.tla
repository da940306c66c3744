------------------------------ MODULE Models ------------------------------
(***************************************************************************)
(* The sequential models a history is checked against, translated from     *)
(* src/tools/history/model.py, and those of the machine subjects.          *)
(*                                                                         *)
(* A step maps a state and a call to the sequence of the states that may   *)
(* follow, and the empty sequence rejects the call.  A call as a model     *)
(* sees it is a record of its operation, its args, whether its outcome is  *)
(* known, and its output when it is.                                       *)
(*                                                                         *)
(* Values are abstract: Null is the code's None, a string of the key-value *)
(* model is the sequence of its letters, and a map from keys to strings is *)
(* a function that gives <<>> for a key that is not stored, so that two    *)
(* equal maps are one value here.                                          *)
(***************************************************************************)
EXTENDS Naturals, Sequences, Ordering

CONSTANT Keys           \* the keys of the key-value model

Null == "null"
Empty == <<>>

\* A known call must output value; an unknown one may output anything.
Agrees(op, value) == op.known => op.output = value

If(condition, states) == IF condition THEN states ELSE <<>>

Register(state, op) ==
    IF op.operation = "write" THEN <<op.args[1]>>
    ELSE If(Agrees(op, state), <<state>>)

CasRegister(state, op) ==
    IF op.operation # "cas" THEN Register(state, op)
    ELSE LET matches == state = op.args[1]
         IN If(Agrees(op, matches), <<IF matches THEN op.args[2] ELSE state>>)

LossyRegister(state, op) ==
    IF op.operation = "write" THEN <<op.args[1], state>> ELSE Register(state, op)

KeyValue(state, op) ==
    LET name == op.args[1]
    IN CASE op.operation = "get"    -> If(Agrees(op, state[name]), <<state>>)
         [] op.operation = "put"    -> <<[state EXCEPT ![name] = op.args[2]]>>
         [] op.operation = "append" -> <<[state EXCEPT ![name] = @ \o op.args[2]]>>

Queue(state, op) ==
    IF op.operation = "enqueue" THEN <<Append(state, op.args[1])>>
    ELSE IF state = <<>> THEN If(Agrees(op, Null), <<state>>)
    ELSE If(Agrees(op, Head(state)), <<Tail(state)>>)

Set(state, op) ==
    LET value == op.args[1]
        present == value \in Held(state)
    IN CASE op.operation = "add"      -> <<IF present THEN state ELSE Append(state, value)>>
         [] op.operation = "contains" -> If(Agrees(op, present), <<state>>)
         [] op.operation = "remove"   -> If(Agrees(op, present), <<Among(state, Held(state) \ {value})>>)

\* The output of a register subject that has applied the calls of state.
Replayed(state, op) ==
    LET Writes(call) == call[1] = "write"
        writes == SelectSeq(state, Writes)
    IN IF op.operation = "write" \/ writes = <<>> THEN Null
       ELSE writes[Len(writes)][2][1]

\* model_from() over a register subject: a state is the calls applied so far.
FromSubject(state, op) ==
    If(Agrees(op, Replayed(state, op)), <<Append(state, <<op.operation, op.args>>)>>)

---------------------------------------------------------------------------
(* The models of the machine subjects (src/tools/stateful/subjects.py).    *)

BoundedQueue(capacity, state, op) ==
    LET full == Len(state) = capacity
    IN IF op.operation = "put"
       THEN If(Agrees(op, ~full), <<IF full THEN state ELSE Append(state, op.args[1])>>)
       ELSE IF state = <<>> THEN If(Agrees(op, Null), <<state>>)
       ELSE If(Agrees(op, Head(state)), <<Tail(state)>>)

Counter(state, op) ==
    IF op.operation = "reset" THEN <<0>> ELSE If(Agrees(op, state + 1), <<state + 1>>)

ReadingCounter(state, op) ==
    IF op.operation = "read" THEN If(Agrees(op, state), <<state>>) ELSE Counter(state, op)

PeriodMs == 4
MostTicks == 4

Ticks(state, op) ==
    LET ticked == IF state \div PeriodMs < MostTicks THEN state \div PeriodMs ELSE MostTicks
    IN IF op.operation = "advance" THEN <<state + op.args[1]>> ELSE If(Agrees(op, ticked), <<state>>)
\* The models of the bounded queues, one for each capacity that a case draws.
QueueModels == <<"queue of 1", "queue of 2", "queue of 3", "queue of 4",
                 "queue of 5", "queue of 6", "queue of 7", "queue of 8">>

CapacityOf(name) == CHOOSE capacity \in DOMAIN QueueModels : QueueModels[capacity] = name
---------------------------------------------------------------------------
ModelNames ==
    {"register", "cas-register", "lossy-register", "key-value", "queue", "set", "from-subject"}

\* A model raises a ValueError for every other operation.
OperationsOf(name) ==
    CASE name \in {"register", "lossy-register"} -> {"read", "write"}
      [] name = "cas-register" -> {"read", "write", "cas"}
      [] name = "key-value"    -> {"get", "put", "append"}
      [] name = "queue"        -> {"enqueue", "dequeue"}
      [] name = "set"          -> {"add", "contains", "remove"}
      [] name = "from-subject" -> {"read", "write"}

InitOf(name) ==
    CASE name \in {"register", "cas-register", "lossy-register"} -> Null
      [] name = "key-value" -> [k \in Keys |-> Empty]
      [] name \in {"counter", "reading-counter", "ticks"} -> 0
      [] OTHER -> <<>>

StepOf(name, state, op) ==
    CASE name = "register"       -> Register(state, op)
      [] name = "cas-register"   -> CasRegister(state, op)
      [] name = "lossy-register" -> LossyRegister(state, op)
      [] name = "key-value"      -> KeyValue(state, op)
      [] name = "queue"          -> Queue(state, op)
      [] name = "set"            -> Set(state, op)
      [] name = "from-subject"   -> FromSubject(state, op)
      [] name = "counter"        -> Counter(state, op)
      [] name = "reading-counter" -> ReadingCounter(state, op)
      [] name = "ticks"          -> Ticks(state, op)
      [] OTHER                   -> BoundedQueue(CapacityOf(name), state, op)

\* The set lists its values in the order they were added, in any order equal.
Same(name, a, b) ==
    IF name = "set" THEN Len(a) = Len(b) /\ Held(a) = Held(b) ELSE a = b

\* The steps of the budget that one call of the model's step counts for.
CostOf(name, state) == IF name = "from-subject" THEN Len(state) + 1 ELSE 1
==========================================================================

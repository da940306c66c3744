--------------------------- MODULE IntervalsProofs ---------------------------
(***************************************************************************)
(* Proofs about the recorder of Seam.tla, for any clients, payloads and    *)
(* bound on the events, and about the replay of Intervals.tla, for any     *)
(* list of entries and clock.                                              *)
(*                                                                         *)
(* The inductive invariant of the recorder relates the dictionaries of the *)
(* code to its log: open names exactly the calls the log leaves open, a    *)
(* held process is held by one client, and every call of a held process is *)
(* its client's and is either the open one or completed with an outcome.   *)
(*                                                                         *)
(* The replay of an accepted list is a behaviour of the recorder that the  *)
(* recorder never refuses, and the history it leaves has the precedence of *)
(* the clock.  Its invariant says what the events recorded so far are: the *)
(* moments of the timeline that are past, each once and in their order.    *)
(***************************************************************************)
EXTENDS Intervals, OrderingProofs
---------------------------------------------------------------------------
(* The inductive invariant of the recorder.                                *)

\* No process has a number that the counter has not passed.
NumbersAreTaken ==
    /\ processes <= Len(events)
    /\ \A c \in Clients : process[c] # None => process[c] < processes
    /\ \A i \in Indices : EventAt(i).process < processes

\* An invocation is its own call, and open names an invocation of its client.
CallsAreInvocations ==
    /\ \A i \in Invocations : EventAt(i).call = i
    /\ \A c \in Clients : open[c] # None =>
           /\ open[c] \in Invocations
           /\ EventAt(open[c]).client = c
           /\ EventAt(open[c]).process = process[c]
           /\ process[c] # None

\* Every process that can still record is its client's own.
NoSharedProcess ==
    \A c, d \in Clients : process[c] # None /\ process[c] = process[d] => c = d

HeldProcessIsSequential ==
    \A c \in Clients, i \in Invocations :
        process[c] # None /\ EventAt(i).process = process[c] =>
            /\ EventAt(i).client = c
            /\ i # open[c] => \E k \in CompletionsOf(i) : EventAt(k).kind \in {"ok", "fail"}

IInv ==
    /\ TypeOK
    /\ NumbersAreTaken
    /\ CallsAreInvocations
    /\ OpenAgreesWithLog
    /\ CompletesOneCall
    /\ NoSharedProcess
    /\ HeldProcessIsSequential
    /\ ProcessesAreSequential
---------------------------------------------------------------------------
\* The initial state satisfies the invariant: nothing is recorded.
LEMMA InitIInv == Init => IInv
  <1> SUFFICES ASSUME Init PROVE IInv
    OBVIOUS
  <1> USE DEF Init, Nothing
  <1>1. Len(events) = 0 /\ Indices = {} /\ Invocations = {}
    BY DEF Indices, Invocations
  <1>2. TypeOK
    BY MaxEventsAssumption DEF TypeOK, Number, Index
  <1> QED
    BY <1>1, <1>2 DEF IInv, NumbersAreTaken, CallsAreInvocations, OpenAgreesWithLog,
        CompletesOneCall, NoSharedProcess, HeldProcessIsSequential, ProcessesAreSequential
---------------------------------------------------------------------------
(* What an event at the end of the log changes.                            *)

\* The log before keeps its indices and its events.
LEMMA AppendedEvent ==
  ASSUME NEW e \in Event, NEW n, n = Len(events), events \in Seq(Event),
         events' = Append(events, e)
  PROVE  /\ Len(events') = n + 1
         /\ n \in Nat /\ n \notin Indices
         /\ Indices' = Indices \cup {n}
         /\ \A i \in Indices : i \in Nat /\ i < n /\ EventAt(i)' = EventAt(i) /\ EventAt(i) \in Event
         /\ EventAt(n)' = e
         /\ events' \in Seq(Event)
  <1>1. Len(events') = n + 1 /\ n \in Nat /\ events' \in Seq(Event)
    OBVIOUS
  <1>2. Indices' = Indices \cup {n} /\ n \notin Indices
    BY <1>1 DEF Indices
  <1>3. events'[n + 1] = e /\ \A k \in 1..n : events'[k] = events[k] /\ events[k] \in Event
    OBVIOUS
  <1>4. \A i \in Indices : i \in Nat /\ i < n /\ EventAt(i)' = EventAt(i) /\ EventAt(i) \in Event
    BY <1>1, <1>3 DEF Indices, EventAt
  <1> QED
    BY <1>1, <1>2, <1>3, <1>4 DEF EventAt

\* An invocation adds itself to the invocations, and completes no call.
LEMMA AppendedInvocation ==
  ASSUME NEW e \in Event, NEW n, n = Len(events), events \in Seq(Event),
         events' = Append(events, e), e.kind = "invoke"
  PROVE  /\ Invocations' = Invocations \cup {n}
         /\ \A i : CompletionsOf(i)' = CompletionsOf(i)
  <1>1. /\ Indices' = Indices \cup {n} /\ n \notin Indices
        /\ \A i \in Indices : EventAt(i)' = EventAt(i)
        /\ EventAt(n)' = e
    BY AppendedEvent
  <1> QED
    BY <1>1 DEF Invocations, CompletionsOf

\* A completion adds itself to those of its call, and invokes nothing.
LEMMA AppendedCompletion ==
  ASSUME NEW e \in Event, NEW n, n = Len(events), events \in Seq(Event),
         events' = Append(events, e), e.kind # "invoke"
  PROVE  /\ Invocations' = Invocations
         /\ \A i : i # e.call => CompletionsOf(i)' = CompletionsOf(i)
         /\ CompletionsOf(e.call)' = CompletionsOf(e.call) \cup {n}
  <1>1. /\ Indices' = Indices \cup {n} /\ n \notin Indices
        /\ \A i \in Indices : EventAt(i)' = EventAt(i)
        /\ EventAt(n)' = e
    BY AppendedEvent
  <1> QED
    BY <1>1 DEF Invocations, CompletionsOf

---------------------------------------------------------------------------
(* The step that records an invocation.                                    *)

\* An accepted invocation keeps the invariant: the client's process, new or
\* kept, has no call open and every call of it is completed with an outcome.
LEMMA RecordStep ==
  ASSUME IInv, NEW c \in Clients, NEW operation \in Operations,
         Len(events) < MaxEvents, open[c] = None, Record(c, operation)
  PROVE  IInv'
  <1>n. PICK n : n = Len(events)
    OBVIOUS
  <1>p. PICK p : p = ProcessOf(c)
    OBVIOUS
  <1> DEFINE e == [kind |-> "invoke", call |-> n, client |-> c, process |-> p,
                   value |-> operation]
  <1>1. /\ TypeOK /\ n \in Nat /\ n \in Index /\ n + 1 \in Number
        /\ NumbersAreTaken /\ processes \in Nat /\ processes <= n
    BY <1>n, MaxEventsAssumption DEF IInv, TypeOK, NumbersAreTaken, Number, Index
  <1>2. p \in Number /\ e \in Event /\ p # None
    BY <1>1, <1>p, MaxEventsAssumption
    DEF ProcessOf, TypeOK, Number, Event, Kinds, Values, None
  <1>3. /\ events' = Append(events, e)
        /\ open' = [open EXCEPT ![c] = n]
        /\ process' = [process EXCEPT ![c] = p]
        /\ processes' = IF process[c] = None THEN processes + 1 ELSE processes
        /\ raised' = Nothing
    BY <1>n, <1>p DEF Record
  <1>4. /\ Len(events') = n + 1 /\ events' \in Seq(Event)
        /\ Indices' = Indices \cup {n} /\ n \notin Indices
        /\ \A i \in Indices : i \in Nat /\ i < n /\ EventAt(i)' = EventAt(i) /\ EventAt(i) \in Event
        /\ EventAt(n)' = e
    BY <1>n, <1>1, <1>2, <1>3, AppendedEvent DEF TypeOK
  <1>5. /\ Invocations' = Invocations \cup {n}
        /\ \A i : CompletionsOf(i)' = CompletionsOf(i)
    BY <1>n, <1>1, <1>2, <1>3, AppendedInvocation DEF TypeOK
  <1>6. /\ Invocations \subseteq Indices
        /\ \A i : CompletionsOf(i) \subseteq Indices
        /\ CompletionsOf(n) = {}
    <2>1. ASSUME NEW j \in CompletionsOf(n) PROVE FALSE
      BY <2>1, <1>4 DEF IInv, CompletesOneCall, CompletionsOf, Invocations
    <2> QED
      BY <2>1 DEF Invocations, CompletionsOf
  <1>7. /\ open'[c] = n /\ process'[c] = p /\ n # None
        /\ \A d \in Clients : d # c => open'[d] = open[d] /\ process'[d] = process[d]
    BY <1>1, <1>3 DEF TypeOK, None
  <1>8. processes <= processes' /\ p < processes'
    BY <1>p, <1>1, <1>3 DEF ProcessOf, NumbersAreTaken, TypeOK
  <1>9. TypeOK'
    <2>1. processes' \in Number
      BY <1>1, <1>3, MaxEventsAssumption DEF Number
    <2>2. open' \in [Clients -> Index \cup {None}] /\ process' \in [Clients -> Number \cup {None}]
      BY <1>1, <1>2, <1>3 DEF TypeOK
    <2> QED
      BY <2>1, <2>2, <1>3, <1>4 DEF TypeOK
  <1>10. NumbersAreTaken'
    <2>1. processes' <= Len(events')
      BY <1>1, <1>3, <1>4
    <2>2. ASSUME NEW d \in Clients, process'[d] # None PROVE process'[d] < processes'
      BY <2>2, <1>1, <1>3, <1>7, <1>8 DEF NumbersAreTaken, TypeOK, Number, None
    <2>3. ASSUME NEW i \in Indices' PROVE EventAt(i)'.process < processes'
      BY <2>3, <1>1, <1>3, <1>4, <1>8 DEF NumbersAreTaken, Event, Number
    <2> QED
      BY <2>1, <2>2, <2>3 DEF NumbersAreTaken
  <1>11. CallsAreInvocations'
    BY <1>2, <1>4, <1>5, <1>6, <1>7 DEF IInv, CallsAreInvocations
  <1>12. OpenAgreesWithLog'
    BY <1>4, <1>5, <1>6, <1>7 DEF IInv, OpenAgreesWithLog
  <1>13. CompletesOneCall'
    <2> SUFFICES ASSUME NEW j \in Indices', EventAt(j)'.kind # "invoke", NEW i, i = EventAt(j)'.call
                 PROVE  /\ i \in Invocations' /\ i < j
                        /\ CompletionsOf(i)' = {j}
                        /\ EventAt(i)'.client = EventAt(j)'.client
                        /\ EventAt(i)'.process = EventAt(j)'.process
      BY DEF CompletesOneCall
    <2>1. j \in Indices /\ EventAt(j)' = EventAt(j)
      BY <1>4
    <2>2. i \in Invocations /\ EventAt(i)' = EventAt(i)
      BY <2>1, <1>4, <1>6 DEF IInv, CompletesOneCall
    <2> QED
      BY <2>1, <2>2, <1>5 DEF IInv, CompletesOneCall
  <1>14. NoSharedProcess'
    BY <1>p, <1>1, <1>7 DEF IInv, NoSharedProcess, NumbersAreTaken, ProcessOf, TypeOK, Number
  <1>15. HeldProcessIsSequential'
    <2> SUFFICES ASSUME NEW d \in Clients, NEW i \in Invocations',
                        process'[d] # None, EventAt(i)'.process = process'[d]
                 PROVE  /\ EventAt(i)'.client = d
                        /\ i # open'[d] => \E k \in CompletionsOf(i)' :
                                               EventAt(k)'.kind \in {"ok", "fail"}
      BY DEF HeldProcessIsSequential
    <2>1. CASE i = n
      BY <2>1, <1>1, <1>4, <1>7, <1>14, <1>p DEF IInv, NoSharedProcess
    <2>2. CASE i # n
      <3>1. i \in Invocations /\ i \in Indices /\ EventAt(i)' = EventAt(i)
        BY <2>2, <1>4, <1>5, <1>6
      <3>2. process[d] = process'[d]
        BY <3>1, <1>p, <1>1, <1>7 DEF ProcessOf, NumbersAreTaken
      <3>3. i # open'[d] => i # open[d]
        BY <3>1, <1>4, <1>7 DEF None
      <3>4. /\ EventAt(i).client = d
            /\ i # open'[d] => \E k \in CompletionsOf(i) : EventAt(k).kind \in {"ok", "fail"}
        BY <3>1, <3>2, <3>3 DEF IInv, HeldProcessIsSequential
      <3> QED
        BY <3>1, <3>4, <1>4, <1>5, <1>6
    <2> QED
      BY <2>1, <2>2
  <1>16. ProcessesAreSequential'
    <2> SUFFICES ASSUME NEW i \in Invocations', NEW j \in Invocations', i < j,
                        EventAt(i)'.process = EventAt(j)'.process
                 PROVE  /\ EventAt(i)'.client = EventAt(j)'.client
                        /\ \E k \in CompletionsOf(i)' : k < j /\ EventAt(k)'.kind \in {"ok", "fail"}
      BY DEF ProcessesAreSequential
    <2>1. i \in Invocations /\ i \in Indices /\ EventAt(i)' = EventAt(i) /\ i < n
      BY <1>1, <1>4, <1>5, <1>6
    <2>2. CASE j \in Invocations
      <3>1. \E k \in CompletionsOf(i) : k < j /\ EventAt(k).kind \in {"ok", "fail"}
        BY <2>1, <2>2, <1>4, <1>6 DEF IInv, ProcessesAreSequential
      <3> QED
        BY <2>1, <2>2, <3>1, <1>4, <1>5, <1>6 DEF IInv, ProcessesAreSequential
    <2>3. CASE j = n
      <3>1. process[c] = p /\ p = EventAt(i).process
        BY <2>1, <2>3, <1>p, <1>1, <1>4 DEF ProcessOf, NumbersAreTaken
      <3>2. i # open[c] /\ EventAt(i).client = c
        BY <3>1, <2>1, <1>1, <1>2, <1>4 DEF IInv, HeldProcessIsSequential, None
      <3>3. \E k \in CompletionsOf(i) : EventAt(k).kind \in {"ok", "fail"}
        BY <3>1, <3>2, <2>1, <1>2 DEF IInv, HeldProcessIsSequential
      <3> QED
        BY <3>2, <3>3, <2>1, <2>3, <1>4, <1>5, <1>6
    <2> QED
      BY <2>2, <2>3, <1>5
  <1> QED
    BY <1>9, <1>10, <1>11, <1>12, <1>13, <1>14, <1>15, <1>16 DEF IInv
---------------------------------------------------------------------------
(* The step that records a completion.                                     *)

\* An accepted completion of a call keeps the invariant, whoever holds the
\* call and however late: the call is its client's open one, so it has no
\* other completion; after an unknown outcome its process is held no more.
LEMMA CompletesStep ==
  ASSUME IInv, NEW call \in Invocations, NEW kind \in Completions, NEW value \in Values,
         NEW c, c = EventAt(call).client,
         Len(events) < MaxEvents, IsOpen(call),
         open' = [open EXCEPT ![c] = None],
         process' = [process EXCEPT ![c] = ProcessAfter(c, kind)],
         events' = Append(events, [kind    |-> kind,
                                   call    |-> call,
                                   client  |-> c,
                                   process |-> EventAt(call).process,
                                   value   |-> value]),
         raised' = Nothing, processes' = processes
  PROVE  IInv'
  <1>n. PICK n : n = Len(events)
    OBVIOUS
  <1>p. PICK p : p = EventAt(call).process
    OBVIOUS
  <1> DEFINE e == [kind |-> kind, call |-> call, client |-> c, process |-> p,
                   value |-> value]
  <1>1. /\ TypeOK /\ n \in Nat /\ n + 1 \in Number
        /\ NumbersAreTaken /\ processes \in Nat /\ processes <= n
    BY <1>n, MaxEventsAssumption DEF IInv, TypeOK, NumbersAreTaken, Number
  <1>2. call \in Indices /\ EventAt(call) \in Event /\ call \in Index /\ kind # "invoke"
    <2>1. call \in Indices /\ kind # "invoke"
      BY DEF Invocations, Completions
    <2> QED
      BY <2>1, <1>1, <1>n, MaxEventsAssumption DEF Indices, Index, EventAt, TypeOK
  <1>3. c \in Clients /\ p \in Number /\ p # None /\ call # None /\ e \in Event
    BY <1>2, <1>p, MaxEventsAssumption DEF Event, Kinds, Completions, Number, None, Index
  <1>4. /\ open[c] = call /\ process[c] = p
    BY <1>2, <1>3, <1>p DEF IsOpen, IInv, CallsAreInvocations
  <1>5. /\ Len(events') = n + 1 /\ events' \in Seq(Event)
        /\ Indices' = Indices \cup {n} /\ n \notin Indices
        /\ \A i \in Indices : i \in Nat /\ i < n /\ EventAt(i)' = EventAt(i) /\ EventAt(i) \in Event
        /\ EventAt(n)' = e
    BY <1>n, <1>p, <1>1, <1>3, AppendedEvent DEF TypeOK
  <1>6. /\ Invocations' = Invocations
        /\ \A i : i # call => CompletionsOf(i)' = CompletionsOf(i)
        /\ CompletionsOf(call)' = CompletionsOf(call) \cup {n}
    BY <1>n, <1>p, <1>1, <1>2, <1>3, AppendedCompletion DEF TypeOK
  <1>7. /\ Invocations \subseteq Indices
        /\ \A i : CompletionsOf(i) \subseteq Indices
        /\ CompletionsOf(call) = {}
    BY <1>3, <1>4 DEF Invocations, CompletionsOf, IInv, OpenAgreesWithLog
  <1>8. /\ open'[c] = None /\ process'[c] = ProcessAfter(c, kind)
        /\ process'[c] \in {None, p}
        /\ process'[c] # None => kind \in {"ok", "fail"}
        /\ \A d \in Clients : d # c => open'[d] = open[d] /\ process'[d] = process[d]
    BY <1>1, <1>3, <1>4 DEF TypeOK, ProcessAfter, Completions
  <1>9. TypeOK'
    <2>1. open' \in [Clients -> Index \cup {None}] /\ process' \in [Clients -> Number \cup {None}]
      BY <1>1, <1>3, <1>8 DEF TypeOK
    <2> QED
      BY <2>1, <1>1, <1>5 DEF TypeOK
  <1>10. NumbersAreTaken'
    <2>1. processes' <= Len(events')
      BY <1>1, <1>5
    <2>2. ASSUME NEW d \in Clients, process'[d] # None PROVE process'[d] < processes'
      BY <2>2, <1>1, <1>3, <1>4, <1>8 DEF NumbersAreTaken
    <2>3. ASSUME NEW i \in Indices' PROVE EventAt(i)'.process < processes'
      BY <2>3, <1>1, <1>2, <1>5, <1>p DEF NumbersAreTaken
    <2> QED
      BY <2>1, <2>2, <2>3 DEF NumbersAreTaken
  <1>11. CallsAreInvocations'
    BY <1>3, <1>5, <1>6, <1>7, <1>8 DEF IInv, CallsAreInvocations
  <1>12. OpenAgreesWithLog'
    <2> SUFFICES ASSUME NEW d \in Clients
                 PROVE  {i \in Invocations' : EventAt(i)'.client = d /\ CompletionsOf(i)' = {}}
                            = IF open'[d] = None THEN {} ELSE {open'[d]}
      BY DEF OpenAgreesWithLog
    <2>1. {i \in Invocations : EventAt(i).client = d /\ CompletionsOf(i) = {}}
              = IF open[d] = None THEN {} ELSE {open[d]}
      BY DEF IInv, OpenAgreesWithLog
    <2>2. \A i \in Invocations : EventAt(i)' = EventAt(i)
      BY <1>5, <1>7
    <2>3. CASE d = c
      <3>1. ASSUME NEW i \in Invocations, EventAt(i)'.client = c, CompletionsOf(i)' = {} PROVE FALSE
        <4>1. i # call /\ CompletionsOf(i) = {} /\ EventAt(i).client = c
          BY <3>1, <2>2, <1>6
        <4> QED
          BY <4>1, <2>1, <2>3, <1>4
      <3> QED
        BY <3>1, <2>3, <1>6, <1>8
    <2>4. CASE d # c
      BY <2>1, <2>2, <2>4, <1>2, <1>6, <1>8
    <2> QED
      BY <2>3, <2>4
  <1>13. CompletesOneCall'
    <2> SUFFICES ASSUME NEW j \in Indices', EventAt(j)'.kind # "invoke", NEW i, i = EventAt(j)'.call
                 PROVE  /\ i \in Invocations' /\ i < j
                        /\ CompletionsOf(i)' = {j}
                        /\ EventAt(i)'.client = EventAt(j)'.client
                        /\ EventAt(i)'.process = EventAt(j)'.process
      BY DEF CompletesOneCall
    <2>1. CASE j = n
      BY <2>1, <1>2, <1>5, <1>6, <1>7, <1>p
    <2>2. CASE j # n
      <3>1. j \in Indices /\ EventAt(j)' = EventAt(j) /\ j \in CompletionsOf(i)
        BY <2>2, <1>5 DEF CompletionsOf
      <3>2. i \in Invocations /\ EventAt(i)' = EventAt(i) /\ i # call
        BY <3>1, <1>5, <1>7 DEF IInv, CompletesOneCall
      <3> QED
        BY <3>1, <3>2, <1>6 DEF IInv, CompletesOneCall
    <2> QED
      BY <2>1, <2>2
  <1>14. NoSharedProcess'
    BY <1>3, <1>4, <1>8 DEF IInv, NoSharedProcess
  <1>15. HeldProcessIsSequential'
    <2> SUFFICES ASSUME NEW d \in Clients, NEW i \in Invocations',
                        process'[d] # None, EventAt(i)'.process = process'[d]
                 PROVE  /\ EventAt(i)'.client = d
                        /\ i # open'[d] => \E k \in CompletionsOf(i)' :
                                               EventAt(k)'.kind \in {"ok", "fail"}
      BY DEF HeldProcessIsSequential
    <2>1. i \in Invocations /\ EventAt(i)' = EventAt(i) /\ process'[d] = process[d]
      BY <1>4, <1>5, <1>6, <1>7, <1>8
    <2>2. EventAt(i).client = d /\ (i # open[d] => \E k \in CompletionsOf(i) : EventAt(k).kind \in {"ok", "fail"})
      BY <2>1 DEF IInv, HeldProcessIsSequential
    <2>3. CASE i = call
      <3>1. d = c
        BY <2>2, <2>3
      <3> QED
        BY <3>1, <2>1, <2>2, <2>3, <1>5, <1>6, <1>8
    <2>4. CASE i # call
      <3>1. i # open'[d] => i # open[d]
        BY <2>4, <1>4, <1>8
      <3> QED
        BY <3>1, <2>1, <2>2, <2>4, <1>5, <1>6, <1>7
    <2> QED
      BY <2>3, <2>4
  <1>16. ProcessesAreSequential'
    <2> SUFFICES ASSUME NEW i \in Invocations', NEW j \in Invocations', i < j,
                        EventAt(i)'.process = EventAt(j)'.process
                 PROVE  /\ EventAt(i)'.client = EventAt(j)'.client
                        /\ \E k \in CompletionsOf(i)' : k < j /\ EventAt(k)'.kind \in {"ok", "fail"}
      BY DEF ProcessesAreSequential
    <2>1. /\ i \in Invocations /\ EventAt(i)' = EventAt(i)
          /\ j \in Invocations /\ EventAt(j)' = EventAt(j)
      BY <1>5, <1>6, <1>7
    <2>2. /\ EventAt(i).client = EventAt(j).client
          /\ \E k \in CompletionsOf(i) : k < j /\ EventAt(k).kind \in {"ok", "fail"}
      BY <2>1 DEF IInv, ProcessesAreSequential
    <2> QED
      BY <2>1, <2>2, <1>5, <1>6, <1>7
  <1> QED
    BY <1>9, <1>10, <1>11, <1>12, <1>13, <1>14, <1>15, <1>16 DEF IInv
---------------------------------------------------------------------------
(* Every step, and the theorems of the specification.                      *)

\* A refused call and a stuttering step change no event and no dictionary.
LEMMA UnchangedStep ==
  ASSUME IInv, UNCHANGED <<events, open, process, processes>>,
         raised' \in {Nothing, ClientBusy, NotLiteral, Completed}
  PROVE  IInv'
  <1>1. /\ \A i : EventAt(i)' = EventAt(i) /\ CompletionsOf(i)' = CompletionsOf(i)
        /\ Indices' = Indices /\ Invocations' = Invocations
    BY DEF Indices, EventAt, Invocations, CompletionsOf
  <1>2. TypeOK'
    BY DEF IInv, TypeOK
  <1>3. NumbersAreTaken' /\ CallsAreInvocations' /\ NoSharedProcess'
    BY <1>1 DEF IInv, NumbersAreTaken, CallsAreInvocations, NoSharedProcess
  <1>4. OpenAgreesWithLog'
    BY <1>1 DEF IInv, OpenAgreesWithLog
  <1>5. CompletesOneCall'
    BY <1>1 DEF IInv, CompletesOneCall
  <1>6. HeldProcessIsSequential' /\ ProcessesAreSequential'
    BY <1>1 DEF IInv, HeldProcessIsSequential, ProcessesAreSequential
  <1> QED
    BY <1>2, <1>3, <1>4, <1>5, <1>6 DEF IInv

\* No call of the recorder, in any order and by any holder, breaks the
\* invariant.
LEMMA NextIInv == IInv /\ [Next]_vars => IInv'
  <1> SUFFICES ASSUME IInv, [Next]_vars PROVE IInv'
    OBVIOUS
  <1>1. ASSUME NEW c \in Clients, NEW operation \in Operations, NEW literal \in BOOLEAN,
               Invoke(c, operation, literal)
        PROVE  IInv'
    <2>1. CASE Refuse(ClientBusy) \/ Refuse(NotLiteral)
      BY <2>1, UnchangedStep DEF Refuse
    <2>2. CASE Len(events) < MaxEvents /\ open[c] = None /\ Record(c, operation)
      BY <2>2, RecordStep
    <2> QED
      BY <1>1, <2>1, <2>2 DEF Invoke
  <1>2. ASSUME NEW call \in Invocations, NEW kind \in Completions, NEW value \in Values,
               Completes(call, kind, value)
        PROVE  IInv'
    <2>1. CASE Refuse(Completed)
      BY <2>1, UnchangedStep DEF Refuse
    <2>2. CASE IsOpen(call)
      <3>1. ~Refuse(Completed) => IInv'
        BY <1>2, <2>2, CompletesStep DEF Completes
      <3> QED
        BY <3>1, <2>1
    <2> QED
      BY <1>2, <2>1, <2>2 DEF Completes
  <1>3. CASE UNCHANGED vars
    BY <1>3, UnchangedStep DEF vars, IInv, TypeOK
  <1>4. CASE Next
    <2>1. ASSUME NEW call \in Invocations, Ok(call) \/ Fail(call) \/ Unknown(call) PROVE IInv'
      BY <2>1, <1>2 DEF Ok, Fail, Unknown, Completions, Values
    <2> QED
      BY <1>4, <1>1, <2>1 DEF Next
  <1> QED
    BY <1>3, <1>4

\* The invariant holds in every state of every history.
THEOREM Invariant == Spec => []IInv
  BY InitIInv, NextIInv, PTL DEF Spec

\* Every field of the recorder has its type: no event has a call outside the
\* log or a process number beyond its length.
THEOREM TypeCorrect == Spec => []TypeOK
  <1>1. IInv => TypeOK
    BY DEF IInv
  <1> QED
    BY <1>1, Invariant, PTL

\* The dictionary of open calls and the log never disagree.
THEOREM OpenAgrees == Spec => []OpenAgreesWithLog
  <1>1. IInv => OpenAgreesWithLog
    BY DEF IInv
  <1> QED
    BY <1>1, Invariant, PTL

\* No call is ever completed twice, and none before its invocation.
THEOREM OneCompletion == Spec => []CompletesOneCall
  <1>1. IInv => CompletesOneCall
    BY DEF IInv
  <1> QED
    BY <1>1, Invariant, PTL

\* A process invokes again only after an outcome of its earlier call, and a
\* process whose call ended as unknown never does.
THEOREM SequentialProcesses == Spec => []ProcessesAreSequential
  <1>1. IInv => ProcessesAreSequential
    BY DEF IInv
  <1> QED
    BY <1>1, Invariant, PTL
---------------------------------------------------------------------------
(* The numbers of the processes.                                           *)

\* A step that leaves the invocations before it where they are, and adds an
\* event of a process that has a number, or the invocation of the next one,
\* keeps the numbers in the order of the first invocations.
LEMMA NextNumbered == IInv /\ IInv' /\ NumberedByFirstInvocation /\ [Next]_vars
                          => NumberedByFirstInvocation'
  <1> SUFFICES ASSUME IInv, IInv', NumberedByFirstInvocation, [Next]_vars
               PROVE  NumberedByFirstInvocation'
    OBVIOUS
  <1>1. processes \in Nat /\ processes' \in Nat /\ events \in Seq(Event)
    BY MaxEventsAssumption DEF IInv, TypeOK, Number
  <1>2. \A i \in Indices' : EventAt(i)'.process < processes'
    BY DEF IInv, NumbersAreTaken
  <1>3. ASSUME UNCHANGED <<events, processes>> PROVE NumberedByFirstInvocation'
    BY <1>3 DEF NumberedByFirstInvocation, Indices, EventAt, Invocations
  <1>4. ASSUME NEW e \in Event, NEW n, n = Len(events), events' = Append(events, e),
               \/ processes' = processes
               \/ processes' = processes + 1 /\ e.kind = "invoke" /\ e.process = processes
        PROVE  NumberedByFirstInvocation'
    <2>1. /\ Indices' = Indices \cup {n} /\ n \in Nat
          /\ \A i \in Indices : i \in Nat /\ i < n /\ EventAt(i)' = EventAt(i)
          /\ EventAt(n)' = e
      BY <1>1, <1>4, AppendedEvent
    <2>2. Invocations \subseteq Indices /\ Invocations \subseteq Invocations'
      BY <2>1 DEF Invocations
    <2>3. ASSUME NEW p \in 0..(processes - 1)
          PROVE  \E i \in Invocations' : /\ EventAt(i)'.process = p
                                         /\ \A j \in Indices' : j < i => EventAt(j)'.process < p
      <3>1. PICK i \in Invocations : /\ EventAt(i).process = p
                                     /\ \A j \in Indices : j < i => EventAt(j).process < p
        BY DEF NumberedByFirstInvocation
      <3>2. \A j \in Indices' : j < i => j \in Indices
        BY <2>1, <2>2
      <3> QED
        BY <3>1, <3>2, <2>1, <2>2
    <2>4. CASE processes' = processes
      BY <2>3, <2>4, <1>2 DEF NumberedByFirstInvocation
    <2>5. CASE processes' = processes + 1 /\ e.kind = "invoke" /\ e.process = processes
      <3>1. n \in Invocations' /\ EventAt(n)'.process = processes
        BY <2>1, <2>5 DEF Invocations
      <3>2. \A j \in Indices' : j < n => EventAt(j)'.process < processes
        BY <2>1 DEF IInv, NumbersAreTaken
      <3>3. \A p \in 0..(processes' - 1) : p \in 0..(processes - 1) \/ p = processes
        BY <2>5, <1>1
      <3> QED
        BY <3>1, <3>2, <3>3, <2>3, <1>2 DEF NumberedByFirstInvocation
    <2> QED
      BY <1>4, <2>4, <2>5
  <1>5. ASSUME NEW error, Refuse(error) PROVE NumberedByFirstInvocation'
    BY <1>3, <1>5 DEF Refuse
  <1>6. ASSUME NEW c \in Clients, NEW operation \in Operations, NEW literal \in BOOLEAN,
               Invoke(c, operation, literal)
        PROVE  NumberedByFirstInvocation'
    <2>1. CASE Len(events) < MaxEvents /\ Record(c, operation)
      <3> DEFINE e == [kind |-> "invoke", call |-> Len(events), client |-> c,
                       process |-> ProcessOf(c), value |-> operation]
      <3>1. e \in Event
        <4>1. ProcessOf(c) \in Number
          BY MaxEventsAssumption DEF IInv, TypeOK, ProcessOf
        <4>2. Len(events) \in Index
          BY <2>1, <1>1, MaxEventsAssumption DEF Index
        <4> QED
          BY <4>1, <4>2 DEF Event, Kinds, Values
      <3>2. events' = Append(events, e)
        BY <2>1 DEF Record
      <3>3. \/ processes' = processes
            \/ processes' = processes + 1 /\ e.kind = "invoke" /\ e.process = processes
        BY <2>1 DEF Record, ProcessOf
      <3> QED
        BY <3>1, <3>2, <3>3, <1>4
    <2> QED
      BY <1>6, <2>1, <1>5 DEF Invoke
  <1>7. ASSUME NEW call \in Invocations, NEW kind \in Completions, NEW value \in Values,
               Completes(call, kind, value)
        PROVE  NumberedByFirstInvocation'
    <2> DEFINE c == EventAt(call).client
               e == [kind |-> kind, call |-> call, client |-> c,
                     process |-> EventAt(call).process, value |-> value]
    <2>1. call \in Indices /\ EventAt(call) \in Event /\ call \in Index
      <3>1. call \in Indices /\ Len(events) \in Nat /\ Len(events) <= MaxEvents
        BY <1>1, <1>7, MaxEventsAssumption DEF Invocations, Completes
      <3> QED
        BY <3>1, <1>1, MaxEventsAssumption DEF Indices, Index, EventAt
    <2>2. e \in Event
      BY <2>1 DEF Event, Kinds, Completions
    <2>3. CASE events' = Append(events, e) /\ processes' = processes
      BY <2>2, <2>3, <1>4
    <2> QED
      BY <1>7, <1>5, <2>3 DEF Completes
  <1>8. ASSUME NEW call \in Invocations, Ok(call) \/ Fail(call) \/ Unknown(call)
        PROVE  NumberedByFirstInvocation'
    BY <1>8, <1>7 DEF Ok, Fail, Unknown, Completions, Values
  <1> QED
    BY <1>3, <1>6, <1>8 DEF Next, vars

\* Processes are numbered from 0 in the order of their first invocation, and
\* a refused invocation leaves no gap.
THEOREM Numbered == Spec => []NumberedByFirstInvocation
  <1>1. Init => NumberedByFirstInvocation
    BY DEF Init, NumberedByFirstInvocation, Indices
  <1> QED
    BY <1>1, NextNumbered, Invariant, PTL DEF Spec
---------------------------------------------------------------------------
(* The recorder implements the sequential processes of Processes.tla.      *)

StatusOfAll == [p \in Number |-> Status(p)]

\* A process that a client holds is busy while the client's call is open.
LEMMA StatusOfHeld ==
  ASSUME IInv, NEW c \in Clients, process[c] # None
  PROVE  /\ process[c] \in Number
         /\ Status(process[c]) = IF open[c] = None THEN "idle" ELSE "busy"
  <1>1. process[c] \in Number /\ process[c] < processes /\ processes \in Nat
    BY MaxEventsAssumption DEF IInv, TypeOK, NumbersAreTaken, Number
  <1>2. \A d \in Clients : process[d] = process[c] => d = c
    BY DEF IInv, NoSharedProcess
  <1>3. ~(processes <= process[c])
    BY <1>1, MaxEventsAssumption DEF Number
  <1> QED
    BY <1>1, <1>2, <1>3 DEF Status

\* The step of an accepted invocation is the birth of a process, or opens a
\* call of an idle one.
LEMMA RecordIsAbstract ==
  ASSUME IInv, NEW c \in Clients, NEW operation \in Operations,
         Len(events) < MaxEvents, open[c] = None, Record(c, operation)
  PROVE  Abstract!Next
  <1>p. PICK p : p = ProcessOf(c)
    OBVIOUS
  <1>1. /\ TypeOK /\ NumbersAreTaken /\ processes \in Nat /\ processes < MaxEvents
        /\ Len(events) \in Nat /\ Len(events) # None /\ processes # None
    BY MaxEventsAssumption DEF IInv, TypeOK, NumbersAreTaken, Number, None
  <1>2. /\ p \in Number /\ p \in Nat /\ p # None
        /\ process[c] = None => p = processes
        /\ process[c] # None => p = process[c] /\ p < processes
    BY <1>p, <1>1, MaxEventsAssumption DEF ProcessOf, TypeOK, NumbersAreTaken, Number, None
  <1>3. /\ open'[c] = Len(events) /\ process'[c] = p
        /\ \A d \in Clients : d # c => open'[d] = open[d] /\ process'[d] = process[d]
        /\ processes' = IF process[c] = None THEN processes + 1 ELSE processes
    BY <1>p, <1>1 DEF Record, TypeOK
  <1>4. p < processes' /\ processes' \in Nat
    BY <1>1, <1>2, <1>3
  <1>5. Status(p)' = "busy"
    BY <1>1, <1>2, <1>3, <1>4 DEF Status
  <1>6. ASSUME NEW q \in Number, q # p PROVE Status(q)' = Status(q)
    <2>1. processes' <= q <=> processes <= q
      BY <1>1, <1>2, <1>3, <1>6, MaxEventsAssumption DEF Number
    <2>2. \A d \in Clients : process'[d] = q <=> process[d] = q /\ q # None
      BY <1>1, <1>2, <1>3, <1>6, MaxEventsAssumption DEF Number, None
    <2>3. \A d \in Clients : process[d] = q => d # c
      BY <1>2, <1>6, MaxEventsAssumption DEF Number, None
    <2> QED
      BY <2>1, <2>2, <2>3, <1>3 DEF Status
  <1>7. StatusOfAll' = [StatusOfAll EXCEPT ![p] = "busy"]
    BY <1>2, <1>5, <1>6 DEF StatusOfAll
  <1>8. CASE process[c] = None
    <2>1. Status(p) = "unborn"
      BY <1>1, <1>2, <1>8 DEF Status
    <2>2. \A q \in Number : q < p => Status(q) # "unborn"
      BY <1>1, <1>2, <1>8, MaxEventsAssumption DEF Status, Number
    <2>3. Abstract!Born(p)
      BY <2>1, <2>2, <1>2, <1>7 DEF Abstract!Born, Abstract!Unborn, Abstract!Busy,
         Abstract!Numbers, StatusOfAll, Number
    <2> QED
      BY <2>3, <1>2 DEF Abstract!Next, Abstract!Numbers, Number
  <1>9. CASE process[c] # None
    <2>1. Status(p) = "idle"
      BY <1>2, <1>9, StatusOfHeld
    <2>2. Abstract!Opens(p)
      BY <2>1, <1>2, <1>7 DEF Abstract!Opens, Abstract!Idle, Abstract!Busy, StatusOfAll, Number
    <2> QED
      BY <2>2, <1>2 DEF Abstract!Next, Abstract!Numbers, Number
  <1> QED
    BY <1>8, <1>9

\* The step of an accepted completion closes a call of a busy process, and
\* an unknown outcome is the death of that process.
LEMMA CompletesIsAbstract ==
  ASSUME IInv, NEW call \in Invocations, NEW kind \in Completions, NEW c,
         c = EventAt(call).client, IsOpen(call),
         open' = [open EXCEPT ![c] = None],
         process' = [process EXCEPT ![c] = ProcessAfter(c, kind)],
         processes' = processes
  PROVE  Abstract!Next
  <1>p. PICK p : p = EventAt(call).process
    OBVIOUS
  <1>1. /\ TypeOK /\ NumbersAreTaken /\ processes \in Nat
        /\ call \in Indices /\ EventAt(call) \in Event /\ call # None
    <2>1. /\ TypeOK /\ NumbersAreTaken /\ processes \in Nat /\ call \in Indices
          /\ Len(events) \in Nat
      BY MaxEventsAssumption DEF IInv, TypeOK, Number, Invocations
    <2> QED
      BY <2>1 DEF Indices, EventAt, None, TypeOK
  <1>2. c \in Clients /\ p \in Number /\ p \in Nat /\ p # None
    BY <1>1, <1>p, MaxEventsAssumption DEF Event, Number, None
  <1>3. open[c] = call /\ process[c] = p /\ p < processes
    BY <1>1, <1>2, <1>p DEF IsOpen, IInv, CallsAreInvocations, NumbersAreTaken
  <1>4. /\ open'[c] = None /\ process'[c] = IF kind = "unknown" THEN None ELSE p
        /\ \A d \in Clients : d # c => open'[d] = open[d] /\ process'[d] = process[d]
    BY <1>1, <1>2, <1>3 DEF ProcessAfter, TypeOK
  <1>5. Status(p) = "busy"
    BY <1>1, <1>2, <1>3, StatusOfHeld
  <1>6. \A d \in Clients : process[d] = p => d = c
    BY <1>2, <1>3 DEF IInv, NoSharedProcess
  <1>7. Status(p)' = IF kind = "unknown" THEN "dead" ELSE "idle"
    <2>1. ~(processes' <= p)
      BY <1>1, <1>2, <1>3
    <2> QED
      BY <2>1, <1>2, <1>4, <1>6 DEF Status
  <1>8. ASSUME NEW q \in Number, q # p PROVE Status(q)' = Status(q)
    <2>1. q # None
      BY MaxEventsAssumption DEF Number, None
    <2>2. \A d \in Clients : (process'[d] = q <=> process[d] = q) /\ (process[d] = q => d # c)
      BY <2>1, <1>3, <1>4, <1>8
    <2> QED
      BY <2>2, <1>4 DEF Status
  <1>9. StatusOfAll' = [StatusOfAll EXCEPT ![p] = IF kind = "unknown" THEN "dead" ELSE "idle"]
    BY <1>2, <1>7, <1>8 DEF StatusOfAll
  <1>10. CASE kind = "unknown"
    <2>1. Abstract!Dies(p)
      BY <1>2, <1>5, <1>9, <1>10 DEF Abstract!Dies, Abstract!Busy, Abstract!Dead, StatusOfAll, Number
    <2> QED
      BY <2>1, <1>2 DEF Abstract!Next, Abstract!Numbers, Number
  <1>11. CASE kind # "unknown"
    <2>1. Abstract!Closes(p)
      BY <1>2, <1>5, <1>9, <1>11 DEF Abstract!Closes, Abstract!Busy, Abstract!Idle, StatusOfAll, Number
    <2> QED
      BY <2>1, <1>2 DEF Abstract!Next, Abstract!Numbers, Number
  <1> QED
    BY <1>10, <1>11

\* Every step of the recorder is a step of one abstract process or of none.
LEMMA NextIsAbstract == IInv /\ [Next]_vars => [Abstract!Next]_StatusOfAll
  <1> SUFFICES ASSUME IInv, [Next]_vars PROVE Abstract!Next \/ StatusOfAll' = StatusOfAll
    OBVIOUS
  <1>1. ASSUME UNCHANGED <<open, process, processes>> PROVE StatusOfAll' = StatusOfAll
    BY <1>1 DEF StatusOfAll, Status
  <1>2. ASSUME NEW error, Refuse(error) PROVE StatusOfAll' = StatusOfAll
    BY <1>1, <1>2 DEF Refuse
  <1>3. ASSUME NEW c \in Clients, NEW operation \in Operations, NEW literal \in BOOLEAN,
               Invoke(c, operation, literal)
        PROVE  Abstract!Next \/ StatusOfAll' = StatusOfAll
    <2>1. CASE Refuse(ClientBusy) \/ Refuse(NotLiteral)
      BY <2>1, <1>2
    <2>2. CASE Len(events) < MaxEvents /\ open[c] = None /\ Record(c, operation)
      BY <2>2, RecordIsAbstract
    <2> QED
      BY <1>3, <2>1, <2>2 DEF Invoke
  <1>4. ASSUME NEW call \in Invocations, NEW kind \in Completions, NEW value,
               Completes(call, kind, value)
        PROVE  Abstract!Next \/ StatusOfAll' = StatusOfAll
    <2>1. CASE Refuse(Completed)
      BY <2>1, <1>2
    <2>2. CASE ~Refuse(Completed)
      BY <1>4, <2>2, CompletesIsAbstract DEF Completes
    <2> QED
      BY <2>1, <2>2
  <1>5. ASSUME NEW call \in Invocations, Ok(call) \/ Fail(call) \/ Unknown(call)
        PROVE  Abstract!Next \/ StatusOfAll' = StatusOfAll
    BY <1>5, <1>4 DEF Ok, Fail, Unknown, Completions
  <1> QED
    BY <1>1, <1>3, <1>5 DEF Next, vars

\* The recorder implements the contract of its docstring: what it makes of a
\* client's calls is a family of processes, each with at most one call open,
\* born in the order of their numbers and dead after an unknown outcome.
THEOREM Refinement == Spec => ImplementsProcesses
  <1>1. Init => Abstract!Init
    BY MaxEventsAssumption DEF Init, Abstract!Init, Abstract!Unborn, Abstract!Numbers,
       Status, Number
  <1>2. IInv /\ [Next]_vars => [Abstract!Next]_StatusOfAll
    BY NextIsAbstract
  <1> QED
    BY <1>1, <1>2, Invariant, PTL DEF Spec, ImplementsProcesses, Abstract!Spec, StatusOfAll

---------------------------------------------------------------------------
(* The inductive invariant of the replay.                                  *)

InvokesAt(p) == [time |-> entries[p].start, phase |-> 0, position |-> p]

CompletesAt(p) == [time |-> entries[p].end, phase |-> 1, position |-> p]

\* A moment that the loop has replayed.
Past(m) == stage = "replay" /\ \A k \in DOMAIN timeline : timeline[k] # m

Invoked(p) == Past(InvokesAt(p))

Finished(p) == ~Pending(entries[p]) /\ Past(CompletesAt(p))

\* The event of index i is the one that the moment m recorded.
IsEventOf(i, m) ==
    IF m.phase = 0 THEN calls[m.position] = i
    ELSE \E call \in Invocations : calls[m.position] = call /\ i \in CompletionsOf(call)

EntriesAreGiven ==
    /\ \E n \in 1..MaxEntries : entries \in [1..n -> Interval]
    /\ stage \in {"given", "replay", "refused"}
    /\ stage = "replay" => \A p \in DOMAIN entries : ~Wrong(p)

\* What is left of the timeline is in order, and after everything past.
TimelineInOrder ==
    stage = "replay" =>
        /\ timeline \in Seq(Moments)
        /\ \A i, j \in DOMAIN timeline : i < j => Before(timeline[i], timeline[j])
        /\ \A m \in Moments, k \in DOMAIN timeline : Past(m) => Before(m, timeline[k])

\* Each entry that is past its start has its own call, and there is no other.
CallsOfEntries ==
    /\ DOMAIN calls = 1..MaxEntries
    /\ \A p \in DOMAIN entries : Invoked(p) =>
           \E i \in Invocations : calls[p] = i /\ EventAt(i).client = entries[p].client
    /\ \A i \in Invocations : \E p \in DOMAIN entries : Invoked(p) /\ calls[p] = i

\* The call of an entry has completed when the entry is past its end.
CompletionsOfEntries ==
    \A p \in DOMAIN entries, i \in Invocations :
        Invoked(p) /\ calls[p] = i => (Finished(p) <=> CompletionsOf(i) # {})

\* The entries that are past their start touch keys with a typed literal.
KeysAreLiteral == \A p \in DOMAIN entries : Invoked(p) => entries[p].literal

\* The log has the order of the moments.
RecordedInOrder ==
    \A m, n \in Moments, i, j \in Indices :
        Past(m) /\ Past(n) /\ IsEventOf(i, m) /\ IsEventOf(j, n) /\ Before(m, n) => i < j

\* While nothing is raised, the log is the part of the timeline that is past.
ReplayInv ==
    /\ IInv
    /\ EntriesAreGiven
    /\ TimelineInOrder
    /\ CallsOfEntries
    /\ CompletionsOfEntries
    /\ RecordedInOrder
    /\ KeysAreLiteral
    /\ raised = Nothing

\* A key without a typed literal has ended the replay.
Stopped ==
    /\ IInv
    /\ stage = "replay" /\ raised = NotLiteral
    /\ \E p \in DOMAIN entries : ~entries[p].literal
---------------------------------------------------------------------------
(* The moments of the entries, and their order.                            *)

\* What an entry is.
LEMMA EntryFacts ==
  ASSUME EntriesAreGiven
  PROVE  /\ DOMAIN entries \subseteq 1..MaxEntries
         /\ IsFiniteSet(DOMAIN entries)
         /\ \A p \in DOMAIN entries :
                /\ p \in Int
                /\ entries[p].client \in Clients
                /\ entries[p].start \in Int
                /\ entries[p].end \in Int
                /\ entries[p].literal \in BOOLEAN
                /\ Pending(entries[p]) \/ entries[p].kind \in {"ok", "fail", "unknown"}
  <1>1. PICK n \in 1..MaxEntries : entries \in [1..n -> Interval]
    BY DEF EntriesAreGiven
  <1>2. DOMAIN entries = 1..n /\ 1..n \subseteq 1..MaxEntries /\ n \in Int
    BY <1>1, BoundsAssumption
  <1>3. IsFiniteSet(DOMAIN entries)
    BY <1>2, FS_Interval
  <1>4. ASSUME NEW p \in 1..n
        PROVE  /\ p \in Int
               /\ entries[p].client \in Clients
               /\ entries[p].start \in Int
               /\ entries[p].end \in Int
               /\ entries[p].literal \in BOOLEAN
               /\ Pending(entries[p]) \/ entries[p].kind \in {"ok", "fail", "unknown"}
    BY <1>1, BoundsAssumption DEF Interval, Pending, Times, None
  <1> QED
    BY <1>2, <1>3, <1>4

\* The moments are the start of every entry and the end of every one that
\* has completed.
LEMMA MomentsOfEntries ==
  ASSUME EntriesAreGiven
  PROVE  /\ \A p \in DOMAIN entries : InvokesAt(p) \in Moments
         /\ \A p \in DOMAIN entries : ~Pending(entries[p]) => CompletesAt(p) \in Moments
         /\ \A m \in Moments :
                /\ m.position \in DOMAIN entries
                /\ m.time \in Int /\ m.position \in Int
                /\ \/ m = InvokesAt(m.position) /\ m.phase = 0
                   \/ /\ m = CompletesAt(m.position) /\ m.phase = 1
                      /\ ~Pending(entries[m.position])
  <1>1. \A p \in DOMAIN entries : InvokesAt(p) \in Moments
    BY DEF Moments, InvokesAt
  <1>2. \A p \in DOMAIN entries : ~Pending(entries[p]) => CompletesAt(p) \in Moments
    BY DEF Moments, CompletesAt
  <1>3. ASSUME NEW m \in Moments
        PROVE  \/ \E p \in DOMAIN entries : m = InvokesAt(p)
               \/ \E p \in DOMAIN entries : m = CompletesAt(p) /\ ~Pending(entries[p])
    BY <1>3 DEF Moments, InvokesAt, CompletesAt
  <1>4. \A p \in DOMAIN entries :
            /\ p \in Int /\ entries[p].start \in Int /\ entries[p].end \in Int
    BY EntryFacts
  <1>5. \A p :
            /\ InvokesAt(p).position = p /\ CompletesAt(p).position = p
            /\ InvokesAt(p).phase = 0 /\ CompletesAt(p).phase = 1
            /\ InvokesAt(p).time = entries[p].start /\ CompletesAt(p).time = entries[p].end
    BY DEF InvokesAt, CompletesAt
  <1> QED
    BY <1>1, <1>2, <1>3, <1>4, <1>5

\* Two moments of one time, phase and position are one.
LEMMA SameMoment ==
  ASSUME EntriesAreGiven, NEW m \in Moments, NEW n \in Moments,
         m.phase = n.phase, m.position = n.position
  PROVE  m = n
  BY MomentsOfEntries

\* The order of the timeline is a strict total order on its moments.
LEMMA BeforeIsOrder ==
  ASSUME EntriesAreGiven
  PROVE  /\ \A m \in Moments : ~Before(m, m)
         /\ \A l, m, n \in Moments : Before(l, m) /\ Before(m, n) => Before(l, n)
         /\ \A m, n \in Moments : m # n => Before(m, n) \/ Before(n, m)
  <1>1. \A m \in Moments : m.time \in Int /\ m.phase \in Int /\ m.position \in Int
    BY MomentsOfEntries
  <1>2. ASSUME NEW m \in Moments, NEW n \in Moments, m # n
        PROVE  Before(m, n) \/ Before(n, m)
    <2>1. m.phase # n.phase \/ m.position # n.position
      BY <1>2, SameMoment
    <2> QED
      BY <1>1, <2>1 DEF Before
  <1>3. \A m \in Moments : ~Before(m, m)
    BY <1>1 DEF Before
  <1>4. \A l, m, n \in Moments : Before(l, m) /\ Before(m, n) => Before(l, n)
    BY <1>1 DEF Before
  <1> QED
    BY <1>2, <1>3, <1>4

\* A timeline has finitely many moments.
LEMMA MomentsAreFinite ==
  ASSUME EntriesAreGiven
  PROVE  IsFiniteSet(Moments)
  <1> DEFINE D == DOMAIN entries
             starts == [p \in D |-> InvokesAt(p)]
             ends == [p \in D |-> CompletesAt(p)]
  <1>1. IsFiniteSet(D)
    BY EntryFacts
  <1>2. starts \in Surjection(D, Range(starts)) /\ ends \in Surjection(D, Range(ends))
    BY DEF Surjection, Range
  <1>3. IsFiniteSet(Range(starts)) /\ IsFiniteSet(Range(ends))
    <2> HIDE DEF starts, ends, D
    <2> QED
      BY <1>1, <1>2, FS_Surjection
  <1>4. IsFiniteSet(Range(starts) \cup Range(ends))
    BY <1>3, FS_Union
  <1>5. Moments \subseteq Range(starts) \cup Range(ends)
    BY DEF Moments, Range, InvokesAt, CompletesAt
  <1> HIDE DEF starts, ends
  <1> QED
    BY <1>4, <1>5, FS_Subset

\* sorted(): the timeline lists every moment, in the order of time.
LEMMA SortedMoments ==
  ASSUME EntriesAreGiven
  PROVE  LET at == Ascending(Moments, Before)
         IN /\ at \in Seq(Moments)
            /\ \A i, j \in DOMAIN at : i < j => Before(at[i], at[j])
            /\ \A m \in Moments : \E i \in DOMAIN at : at[i] = m
  <1> DEFINE S == Moments
             R == {p \in S \X S : Before(p[1], p[2])}
             at == Ascending(S, Before)
  <1>1. \A x, y \in S : <<x, y>> \in R <=> Before(x, y)
    OBVIOUS
  <1>2. \A x \in S : {y \in S : Before(y, x)} = SetLessThan(x, R, S)
    BY <1>1 DEF SetLessThan
  <1> HIDE DEF R
  <1>3. StrictTotalOrder(R, S)
    BY <1>1, BeforeIsOrder DEF StrictTotalOrder
  <1>4. DOMAIN at = 1..Cardinality(S)
    BY DEF Ascending
  <1>5. ASSUME NEW i \in 1..Cardinality(S), NEW x \in S, Cardinality(SetLessThan(x, R, S)) = i - 1
        PROVE  at[i] \in S /\ Cardinality(SetLessThan(at[i], R, S)) = i - 1
    <2>1. Cardinality({y \in S : Before(y, x)}) = i - 1
      BY <1>2, <1>5
    <2>2. at[i] = CHOOSE z \in S : Cardinality({y \in S : Before(y, z)}) = i - 1
      BY DEF Ascending
    <2>3. at[i] \in S /\ Cardinality({y \in S : Before(y, at[i])}) = i - 1
      BY <2>1, <2>2
    <2> QED
      BY <1>2, <2>3
  <1> DEFINE pick(i) == CHOOSE z \in S : Cardinality({y \in S : Before(y, z)}) = i - 1
  <1>6. at = [i \in 1..Cardinality(S) |-> pick(i)]
    BY DEF Ascending
  <1> HIDE DEF at, S, pick
  <1>7. Lists(at, R, S)
    BY <1>3, <1>5, RanksListInOrder, MomentsAreFinite DEF S
  <1>8. at \in Seq(S)
    BY <1>6, <1>7, SeqDef DEF Lists
  <1> QED
    BY <1>1, <1>4, <1>7, <1>8 DEF Lists, at, S
---------------------------------------------------------------------------
\* A call of from_intervals() starts with no record checked or replayed.
LEMMA InitReplayInv == IntervalsInit => ReplayInv
  <1> SUFFICES ASSUME IntervalsInit PROVE ReplayInv
    OBVIOUS
  <1>1. Init /\ IInv /\ raised = Nothing
    BY InitIInv DEF IntervalsInit, Init
  <1>2. Invocations = {} /\ Indices = {}
    BY <1>1 DEF Init, Invocations, Indices
  <1>3. stage = "given" /\ DOMAIN calls = 1..MaxEntries
    BY DEF IntervalsInit
  <1>4. EntriesAreGiven
    BY <1>3 DEF IntervalsInit, EntriesAreGiven
  <1> QED
    BY <1>1, <1>2, <1>3, <1>4
    DEF ReplayInv, TimelineInOrder, CallsOfEntries, CompletionsOfEntries, RecordedInOrder,
        KeysAreLiteral, Invoked, Past

\* What the steps that leave the recorder alone keep.
LEMMA LogUnchanged ==
  ASSUME UNCHANGED vars
  PROVE  /\ Indices' = Indices /\ Invocations' = Invocations
         /\ \A i : EventAt(i)' = EventAt(i) /\ CompletionsOf(i)' = CompletionsOf(i)
         /\ IInv => IInv'
  <1>1. /\ Indices' = Indices /\ Invocations' = Invocations
        /\ \A i : EventAt(i)' = EventAt(i) /\ CompletionsOf(i)' = CompletionsOf(i)
    BY DEF vars, Indices, EventAt, Invocations, CompletionsOf
  <1>2. IInv => IInv'
    BY NextIInv
  <1> QED
    BY <1>1, <1>2

\* An entry that is refused ends the call before any replay.
LEMMA RefuseReplayInv == ReplayInv /\ RefuseEntry => ReplayInv'
  <1> SUFFICES ASSUME ReplayInv, RefuseEntry PROVE ReplayInv'
    OBVIOUS
  <1>1. UNCHANGED <<vars, entries, calls>> /\ stage = "given" /\ stage' = "refused"
    BY DEF RefuseEntry
  <1>2. Invocations = {} /\ Invocations' = {}
    BY <1>1, LogUnchanged DEF ReplayInv, CallsOfEntries, Invoked, Past
  <1>3. IInv' /\ raised' = Nothing /\ EntriesAreGiven'
    BY <1>1, LogUnchanged DEF ReplayInv, vars, EntriesAreGiven
  <1>4. TimelineInOrder' /\ CompletionsOfEntries' /\ RecordedInOrder' /\ KeysAreLiteral'
    BY <1>1
    DEF TimelineInOrder, CompletionsOfEntries, RecordedInOrder, KeysAreLiteral, Invoked, Past
  <1>5. CallsOfEntries'
    BY <1>1, <1>2 DEF ReplayInv, CallsOfEntries, Invoked, Past
  <1> QED
    BY <1>3, <1>4, <1>5 DEF ReplayInv

\* Once every record is checked, the timeline has each record's moments in order.
LEMMA AcceptReplayInv == ReplayInv /\ Accept => ReplayInv'
  <1> SUFFICES ASSUME ReplayInv, Accept PROVE ReplayInv'
    OBVIOUS
  <1>1. /\ UNCHANGED <<vars, entries, calls>>
        /\ stage = "given" /\ stage' = "replay"
        /\ timeline' = Ascending(Moments, Before)
        /\ \A p \in DOMAIN entries : ~Wrong(p)
    BY DEF Accept
  <1>2. /\ Invocations = {} /\ Invocations' = {}
    BY <1>1, LogUnchanged DEF ReplayInv, CallsOfEntries, Invoked, Past
  <1>3. IInv' /\ raised' = Nothing
    BY <1>1, LogUnchanged DEF ReplayInv, vars
  <1>4. EntriesAreGiven'
    <2>1. \A p : Wrong(p)' <=> Wrong(p)
      BY <1>1 DEF Wrong
    <2> QED
      BY <1>1, <2>1 DEF ReplayInv, EntriesAreGiven
  <1>5. Moments' = Moments
    BY <1>1 DEF Moments
  <1>6. /\ timeline' \in Seq(Moments)
        /\ \A i, j \in DOMAIN timeline' : i < j => Before(timeline'[i], timeline'[j])
        /\ \A m \in Moments : \E i \in DOMAIN timeline' : timeline'[i] = m
    BY <1>1, SortedMoments DEF ReplayInv
  <1>7. \A m \in Moments : ~Past(m)'
    BY <1>6 DEF Past
  <1>8. \A m, n : Before(m, n)' <=> Before(m, n)
    BY DEF Before
  <1>9. TimelineInOrder'
    BY <1>5, <1>6, <1>7, <1>8 DEF TimelineInOrder
  <1>10. \A p \in DOMAIN entries' : ~Invoked(p)'
    <2>1. \A p \in DOMAIN entries : InvokesAt(p) \in Moments /\ InvokesAt(p)' = InvokesAt(p)
      BY <1>1, MomentsOfEntries DEF ReplayInv, InvokesAt
    <2> QED
      BY <1>1, <1>7, <2>1 DEF Invoked
  <1>11. CallsOfEntries' /\ CompletionsOfEntries' /\ KeysAreLiteral'
    BY <1>1, <1>2, <1>10 DEF ReplayInv, CallsOfEntries, CompletionsOfEntries, KeysAreLiteral
  <1>12. RecordedInOrder'
    BY <1>5, <1>7 DEF RecordedInOrder
  <1> QED
    BY <1>3, <1>4, <1>9, <1>11, <1>12 DEF ReplayInv
---------------------------------------------------------------------------
(* One turn of the loop over the timeline.                                 *)

\* The turn takes the next moment, which was not past and now is.
LEMMA NextMoment ==
  ASSUME ReplayInv, Replay, NEW moment, moment = Head(timeline)
  PROVE  /\ moment \in Moments /\ ~Past(moment)
         /\ \A m \in Moments : Past(m) => Before(m, moment)
         /\ \A m \in Moments : ~Past(m) => m = moment \/ Before(moment, m)
         /\ \A m : Past(m)' <=> Past(m) \/ m = moment
         /\ TimelineInOrder'
  <1>1. /\ timeline \in Seq(Moments) /\ timeline # <<>> /\ timeline' = Tail(timeline)
        /\ stage = "replay" /\ stage' = "replay" /\ entries' = entries
        /\ Moments' = Moments
    BY DEF Replay, ReplayInv, TimelineInOrder, Moments
  <1>2. /\ Len(timeline) \in Nat /\ 1 \in DOMAIN timeline /\ moment = timeline[1]
        /\ DOMAIN timeline = 1..Len(timeline)
        /\ DOMAIN timeline' = 1..(Len(timeline) - 1)
        /\ \A k \in DOMAIN timeline' : timeline'[k] = timeline[k + 1] /\ k + 1 \in DOMAIN timeline
        /\ \A k \in DOMAIN timeline : k = 1 \/ (k - 1 \in DOMAIN timeline' /\ timeline'[k - 1] = timeline[k])
        /\ timeline' \in Seq(Moments)
    BY <1>1
  <1>3. \A k \in DOMAIN timeline : timeline[k] \in Moments
    BY <1>1
  <1>4. /\ moment \in Moments /\ ~Past(moment)
        /\ \A m \in Moments : Past(m) => Before(m, moment)
    BY <1>1, <1>2, <1>3 DEF Past, ReplayInv, TimelineInOrder
  <1>5. \A k \in DOMAIN timeline : k = 1 \/ Before(moment, timeline[k])
    BY <1>1, <1>2 DEF ReplayInv, TimelineInOrder
  <1>6. \A m \in Moments : ~Past(m) => m = moment \/ Before(moment, m)
    BY <1>1, <1>2, <1>5 DEF Past
  <1>7. \A k \in DOMAIN timeline' : timeline'[k] # moment
    <2>1. \A k \in DOMAIN timeline : k # 1 => timeline[k] # moment
      BY <1>3, <1>4, <1>5, BeforeIsOrder DEF ReplayInv
    <2> QED
      BY <1>2, <2>1
  <1>8. \A m : Past(m)' <=> Past(m) \/ m = moment
    <2> SUFFICES ASSUME NEW m
                 PROVE  Past(m)' <=> Past(m) \/ m = moment
      OBVIOUS
    <2>1. Past(m)' <=> \A k \in DOMAIN timeline' : timeline'[k] # m
      BY <1>1 DEF Past
    <2>2. Past(m) <=> \A k \in DOMAIN timeline : timeline[k] # m
      BY <1>1 DEF Past
    <2>3. Past(m)' => Past(m) \/ m = moment
      BY <1>2, <2>1, <2>2
    <2>4. Past(m) => Past(m)'
      BY <1>2, <2>1, <2>2
    <2>5. m = moment => Past(m)'
      BY <1>7, <2>1
    <2> QED
      BY <2>3, <2>4, <2>5
  <1>9. \A m, n : Before(m, n)' <=> Before(m, n)
    BY DEF Before
  <1>10. TimelineInOrder'
    <2>1. \A i, j \in DOMAIN timeline' : i < j => Before(timeline'[i], timeline'[j])
      <3> SUFFICES ASSUME NEW i \in DOMAIN timeline', NEW j \in DOMAIN timeline', i < j
                   PROVE  Before(timeline'[i], timeline'[j])
        OBVIOUS
      <3>1. i + 1 \in DOMAIN timeline /\ j + 1 \in DOMAIN timeline /\ i + 1 < j + 1
        BY <1>2
      <3>2. Before(timeline[i + 1], timeline[j + 1])
        BY <1>1, <3>1 DEF ReplayInv, TimelineInOrder
      <3> QED
        BY <1>2, <3>2
    <2>2. \A m \in Moments, k \in DOMAIN timeline' : Past(m)' => Before(m, timeline'[k])
      <3> SUFFICES ASSUME NEW m \in Moments, NEW k \in DOMAIN timeline', Past(m)'
                   PROVE  Before(m, timeline[k + 1])
        BY <1>2
      <3>1. k + 1 \in DOMAIN timeline /\ k + 1 # 1
        BY <1>2
      <3>2. CASE Past(m)
        BY <1>1, <3>1, <3>2 DEF ReplayInv, TimelineInOrder
      <3>3. CASE m = moment
        BY <1>5, <3>1, <3>3
      <3> QED
        BY <1>8, <3>2, <3>3
    <2> QED
      BY <1>1, <1>2, <1>9, <2>1, <2>2 DEF TimelineInOrder
  <1> QED
    BY <1>4, <1>6, <1>8, <1>10

\* Two accepted entries of one client share no instant.
LEMMA Disjoint ==
  ASSUME EntriesAreGiven, stage = "replay",
         NEW p \in DOMAIN entries, NEW q \in DOMAIN entries, p # q,
         entries[p].client = entries[q].client
  PROVE  /\ ~Overlap(entries[p], entries[q])
         /\ Pending(entries[p]) \/ entries[p].start <= entries[p].end
  <1>1. ~Wrong(p) /\ ~Wrong(q)
    BY DEF EntriesAreGiven
  <1>2. /\ \A e \in {p, q} : e \in Int /\ e >= 1
        /\ entries[p].start \in Int /\ entries[p].end \in Int
        /\ entries[q].start \in Int /\ entries[q].end \in Int
    BY EntryFacts, BoundsAssumption
  <1>3. p \in 1..(q - 1) \/ q \in 1..(p - 1)
    BY <1>2
  <1>4. ~Overlap(entries[p], entries[q]) \/ ~Overlap(entries[q], entries[p])
    BY <1>1, <1>3 DEF Wrong
  <1>5. ~EndsBeforeStart(entries[p])
    BY <1>1 DEF Wrong
  <1> QED
    BY <1>2, <1>4, <1>5 DEF Overlap, EndsBeforeStart

\* No entry ends before it starts.
LEMMA EndsAfterStart ==
  ASSUME EntriesAreGiven, stage = "replay", NEW p \in DOMAIN entries, ~Pending(entries[p])
  PROVE  Before(InvokesAt(p), CompletesAt(p)) /\ InvokesAt(p) # CompletesAt(p)
  <1>1. ~EndsBeforeStart(entries[p])
    BY DEF EntriesAreGiven, Wrong
  <1>2. entries[p].start \in Int /\ entries[p].end \in Int
    BY EntryFacts
  <1> QED
    BY <1>1, <1>2 DEF EndsBeforeStart, Before, InvokesAt, CompletesAt

\* At the start of an entry its client has no call open: the call would be
\* of an entry that started no later and has not ended, so that they overlap.
LEMMA ClientIsFree ==
  ASSUME ReplayInv, Replay, NEW p, Head(timeline) = InvokesAt(p), p \in DOMAIN entries
  PROVE  open[entries[p].client] = None
  <1> DEFINE c == entries[p].client
  <1>1. EntriesAreGiven /\ stage = "replay" /\ c \in Clients
    BY EntryFacts DEF ReplayInv, Replay
  <1>2. SUFFICES ASSUME open[c] # None
                 PROVE  FALSE
    OBVIOUS
  <1>3. open[c] \in Invocations /\ EventAt(open[c]).client = c /\ CompletionsOf(open[c]) = {}
    BY <1>1, <1>2 DEF ReplayInv, IInv, OpenAgreesWithLog
  <1>4. PICK q \in DOMAIN entries : Invoked(q) /\ calls[q] = open[c]
    BY <1>3 DEF ReplayInv, CallsOfEntries
  <1>5. entries[q].client = c /\ ~Finished(q)
    BY <1>3, <1>4 DEF ReplayInv, CallsOfEntries, CompletionsOfEntries
  <1>6. Before(InvokesAt(q), InvokesAt(p)) /\ p # q
    BY <1>1, <1>4, NextMoment, MomentsOfEntries DEF Invoked
  <1>7. Pending(entries[q]) \/ Before(InvokesAt(p), CompletesAt(q))
    <2>1. CompletesAt(q) # InvokesAt(p)
      BY DEF InvokesAt, CompletesAt
    <2> QED
      BY <1>1, <1>5, <2>1, NextMoment, MomentsOfEntries DEF Finished
  <1>8. /\ entries[p].start \in Int /\ entries[p].end \in Int
        /\ entries[q].start \in Int /\ entries[q].end \in Int
    BY <1>1, EntryFacts
  <1>9. entries[q].start <= entries[p].start
    BY <1>6, <1>8 DEF Before, InvokesAt
  <1>10. Pending(entries[q]) \/ entries[p].start <= entries[q].end
    BY <1>7, <1>8 DEF Before, InvokesAt, CompletesAt
  <1>11. ~Overlap(entries[p], entries[q])
         /\ (Pending(entries[p]) \/ entries[p].start <= entries[p].end)
    BY <1>1, <1>5, <1>6, Disjoint
  <1> QED
    BY <1>8, <1>9, <1>10, <1>11 DEF Overlap

\* At the end of an entry its call is its client's open one.
LEMMA CallIsOpen ==
  ASSUME ReplayInv, Replay, NEW p \in DOMAIN entries,
         Head(timeline) = CompletesAt(p), ~Pending(entries[p])
  PROVE  Invoked(p) /\ ~Finished(p) /\ calls[p] \in Invocations /\ IsOpen(calls[p])
  <1>1. EntriesAreGiven /\ stage = "replay"
    BY DEF ReplayInv, Replay
  <1>2. InvokesAt(p) \in Moments /\ CompletesAt(p) \in Moments
    BY <1>1, MomentsOfEntries
  <1>3. Before(InvokesAt(p), CompletesAt(p)) /\ InvokesAt(p) # CompletesAt(p)
    BY <1>1, EndsAfterStart
  <1>4. Invoked(p) /\ ~Finished(p)
    <2>1. ~Before(CompletesAt(p), InvokesAt(p))
      BY <1>1, <1>2, <1>3, BeforeIsOrder
    <2> QED
      BY <1>2, <1>3, <2>1, NextMoment DEF Invoked, Finished
  <1>5. /\ calls[p] \in Invocations /\ EventAt(calls[p]).client = entries[p].client
        /\ CompletionsOf(calls[p]) = {}
    BY <1>4 DEF ReplayInv, CallsOfEntries, CompletionsOfEntries
  <1>6. entries[p].client \in Clients
    BY <1>1, EntryFacts
  <1>7. open[entries[p].client] = calls[p]
    BY <1>5, <1>6 DEF ReplayInv, IInv, OpenAgreesWithLog
  <1> QED
    BY <1>4, <1>5, <1>7 DEF IsOpen

\* Two entries do not share a call.
LEMMA OwnCalls ==
  ASSUME ReplayInv, NEW p \in DOMAIN entries, NEW q \in DOMAIN entries, p # q,
         Invoked(p), Invoked(q)
  PROVE  calls[p] # calls[q]
  <1>1. EntriesAreGiven
    BY DEF ReplayInv
  <1>2. InvokesAt(p) \in Moments /\ InvokesAt(q) \in Moments /\ InvokesAt(p) # InvokesAt(q)
    BY <1>1, MomentsOfEntries DEF InvokesAt
  <1>3. Before(InvokesAt(p), InvokesAt(q)) \/ Before(InvokesAt(q), InvokesAt(p))
    BY <1>1, <1>2, BeforeIsOrder
  <1>4. calls[p] \in Indices /\ calls[q] \in Indices
    BY DEF ReplayInv, CallsOfEntries, Invocations
  <1>5. IsEventOf(calls[p], InvokesAt(p)) /\ IsEventOf(calls[q], InvokesAt(q))
    BY DEF IsEventOf, InvokesAt
  <1>6. calls[p] < calls[q] \/ calls[q] < calls[p]
    BY <1>2, <1>3, <1>4, <1>5 DEF ReplayInv, RecordedInOrder, Invoked
  <1>7. calls[p] \in Int /\ calls[q] \in Int
    BY <1>4 DEF Indices, ReplayInv, IInv, TypeOK
  <1> QED
    BY <1>6, <1>7

\* The event at the end of the log is of the moment that comes last.
LEMMA OrderKept ==
  ASSUME ReplayInv, Replay, NEW moment, moment = Head(timeline), NEW n,
         \A i \in Indices' : i \in Indices \/ i = n,
         \A i \in Indices : i < n,
         \A m \in Moments, i \in Indices' :
             Past(m) /\ IsEventOf(i, m)' => IsEventOf(i, m) /\ i \in Indices,
         \A i \in Indices' : IsEventOf(i, moment)' => i = n
  PROVE  RecordedInOrder'
  <1>1. Moments' = Moments
    BY DEF Replay, Moments
  <1>2. \A a, b : Before(a, b)' <=> Before(a, b)
    BY DEF Before
  <1>3. /\ moment \in Moments
        /\ \A m \in Moments : Past(m) => Before(m, moment)
        /\ \A m : Past(m)' <=> Past(m) \/ m = moment
    BY NextMoment
  <1>4. EntriesAreGiven
    BY DEF ReplayInv
  <1> SUFFICES ASSUME NEW a \in Moments, NEW b \in Moments,
                      NEW i \in Indices', NEW j \in Indices',
                      Past(a)', Past(b)', IsEventOf(i, a)', IsEventOf(j, b)', Before(a, b)
               PROVE  i < j
    BY <1>1, <1>2 DEF RecordedInOrder
  <1>5. CASE b = moment
    <2>1. a # moment
      BY <1>3, <1>4, <1>5, BeforeIsOrder
    <2> QED
      BY <1>3, <1>5, <2>1
  <1>6. CASE b # moment
    <2>1. Past(b) /\ a # moment
      BY <1>3, <1>4, <1>6, BeforeIsOrder
    <2>2. Past(a)
      BY <1>3, <2>1
    <2>3. IsEventOf(i, a) /\ i \in Indices /\ IsEventOf(j, b) /\ j \in Indices
      BY <2>1, <2>2
    <2> QED
      BY <2>1, <2>2, <2>3 DEF ReplayInv, RecordedInOrder
  <1> QED
    BY <1>5, <1>6

\* A turn at a start invokes, and a turn at an end completes.
LEMMA TurnAtStart ==
  ASSUME Replay, NEW p, Head(timeline) = InvokesAt(p)
  PROVE  /\ \E operation \in Operations :
                Invoke(entries[p].client, operation, entries[p].literal)
         /\ calls' = IF raised' = Nothing THEN [calls EXCEPT ![p] = Len(events)] ELSE calls
  <1>1. Head(timeline).phase # 1 /\ Head(timeline).position = p
    BY DEF InvokesAt
  <1> QED
    BY <1>1, Zenon DEF Replay

\* The turn of a completion completes the call of its record.
LEMMA TurnAtEnd ==
  ASSUME Replay, NEW p, Head(timeline) = CompletesAt(p)
  PROVE  /\ \E value \in (IF entries[p].kind = "ok" THEN Outputs ELSE Errors) :
                Completes(calls[p], entries[p].kind, value)
         /\ calls' = calls
  <1>1. Head(timeline).phase # 0 /\ Head(timeline).position = p
    BY DEF CompletesAt
  <1> QED
    BY <1>1, Zenon DEF Replay

\* A replay calls the recorder as its clients may.
LEMMA ReplayIsNext == ReplayInv /\ Replay => Next
  <1> SUFFICES ASSUME ReplayInv, Replay PROVE Next
    OBVIOUS
  <1>m. PICK moment : moment = Head(timeline)
    OBVIOUS
  <1>1. moment \in Moments /\ EntriesAreGiven
    BY <1>m, NextMoment DEF ReplayInv
  <1>p. PICK p : p = moment.position
    OBVIOUS
  <1>2. p \in DOMAIN entries /\ entries[p].client \in Clients
    BY <1>1, <1>p, MomentsOfEntries, EntryFacts
  <1>3. CASE moment.phase = 0
    <2>1. moment = InvokesAt(p)
      BY <1>1, <1>3, <1>p, MomentsOfEntries
    <2>2. entries[p].literal \in BOOLEAN
      BY <1>1, <1>2, EntryFacts
    <2> QED
      BY <1>2, <1>m, <2>1, <2>2, TurnAtStart DEF Next
  <1>4. CASE moment.phase # 0
    <2>1. moment = CompletesAt(p) /\ ~Pending(entries[p])
      BY <1>1, <1>4, <1>p, MomentsOfEntries
    <2>2. calls[p] \in Invocations
      BY <1>2, <1>m, <2>1, CallIsOpen
    <2>3. entries[p].kind \in {"ok", "fail", "unknown"}
      BY <1>1, <1>2, <2>1, EntryFacts
    <2>4. \E value \in (IF entries[p].kind = "ok" THEN Outputs ELSE Errors) :
              Completes(calls[p], entries[p].kind, value)
      BY <1>m, <2>1, TurnAtEnd
    <2>5. Ok(calls[p]) \/ Fail(calls[p]) \/ Unknown(calls[p])
      BY <2>3, <2>4 DEF Ok, Fail, Unknown
    <2> QED
      BY <2>2, <2>5 DEF Next
  <1> QED
    BY <1>3, <1>4

\* What every turn keeps, whatever its moment records.
LEMMA TurnKeeps ==
  ASSUME ReplayInv, Replay
  PROVE  /\ IInv' /\ EntriesAreGiven' /\ TimelineInOrder'
         /\ entries' = entries
         /\ \A p : InvokesAt(p)' = InvokesAt(p) /\ CompletesAt(p)' = CompletesAt(p)
         /\ Len(events) \in Nat /\ Indices \subseteq Int
         /\ \A i \in Indices : i < Len(events)
         /\ Invocations \subseteq Indices
         /\ \A call : CompletionsOf(call) \subseteq Indices
  <1>1. IInv'
    BY ReplayIsNext, NextIInv DEF ReplayInv
  <1>2. TimelineInOrder'
    BY NextMoment
  <1>3. entries' = entries /\ stage' = "replay" /\ stage = "replay"
    BY DEF Replay
  <1>4. EntriesAreGiven'
    <2>1. \A p : Wrong(p)' <=> Wrong(p)
      BY <1>3 DEF Wrong
    <2> QED
      BY <1>3, <2>1 DEF ReplayInv, EntriesAreGiven
  <1>5. \A p : InvokesAt(p)' = InvokesAt(p) /\ CompletesAt(p)' = CompletesAt(p)
    BY <1>3 DEF InvokesAt, CompletesAt
  <1>6. /\ Len(events) \in Nat /\ Indices \subseteq Int
        /\ \A i \in Indices : i < Len(events)
    BY DEF Indices, ReplayInv, IInv, TypeOK
  <1>7. Invocations \subseteq Indices /\ \A call : CompletionsOf(call) \subseteq Indices
    BY DEF Invocations, CompletionsOf
  <1> QED
    BY <1>1, <1>2, <1>3, <1>4, <1>5, <1>6, <1>7

\* The turn whose entry has a key without a typed literal ends the replay.
LEMMA InvokesStops ==
  ASSUME ReplayInv, Replay, NEW p \in DOMAIN entries, Head(timeline) = InvokesAt(p),
         ~entries[p].literal
  PROVE  Stopped'
  <1>1. PICK operation \in Operations : Invoke(entries[p].client, operation, FALSE)
    <2>1. entries[p].literal = FALSE
      BY EntryFacts DEF ReplayInv
    <2> QED
      BY <2>1, TurnAtStart
  <1>2. raised' = NotLiteral
    BY <1>1, ClientIsFree DEF Invoke, Refuse
  <1>3. stage' = "replay"
    BY DEF Replay
  <1> QED
    BY <1>2, <1>3, TurnKeeps DEF Stopped

\* The turn that records the invocation of an entry.
LEMMA InvokesReplayInv ==
  ASSUME ReplayInv, Replay, NEW p \in DOMAIN entries, Head(timeline) = InvokesAt(p),
         entries[p].literal
  PROVE  ReplayInv'
  <1>n. PICK n : n = Len(events)
    OBVIOUS
  <1> DEFINE c == entries[p].client
  <1>1. EntriesAreGiven /\ stage = "replay" /\ c \in Clients
    BY EntryFacts DEF ReplayInv, Replay
  <1>2. /\ ~Invoked(p)
        /\ \A m \in Moments : Past(m) => Before(m, InvokesAt(p))
        /\ \A m : Past(m)' <=> Past(m) \/ m = InvokesAt(p)
    BY NextMoment DEF Invoked
  <1>3. PICK operation \in Operations : Invoke(c, operation, TRUE)
    <2>1. entries[p].literal = TRUE
      BY EntryFacts DEF ReplayInv
    <2> QED
      BY <2>1, TurnAtStart
  <1>5. Record(c, operation) /\ Len(events) < MaxEvents
    BY <1>3, ClientIsFree DEF Invoke
  <1>4. calls' = [calls EXCEPT ![p] = n]
    BY <1>n, <1>5, TurnAtStart DEF Record
  <1> DEFINE e == [kind |-> "invoke", call |-> n, client |-> c, process |-> ProcessOf(c),
                   value |-> operation]
  <1>6. events' = Append(events, e) /\ raised' = Nothing /\ e.kind = "invoke" /\ e.client = c
    BY <1>5, <1>n DEF Record
  <1>7. e \in Event /\ events \in Seq(Event)
    BY <1>1, <1>5, <1>n, MaxEventsAssumption
    DEF ReplayInv, IInv, TypeOK, NumbersAreTaken, Number, Index, ProcessOf, Event, Kinds, Values,
        None
  <1> HIDE DEF e
  <1>8. /\ Indices' = Indices \cup {n}
        /\ \A i \in Indices : EventAt(i)' = EventAt(i)
        /\ EventAt(n)' = e
    BY <1>6, <1>7, <1>n, AppendedEvent
  <1>9. Invocations' = Invocations \cup {n} /\ \A i : CompletionsOf(i)' = CompletionsOf(i)
    BY <1>6, <1>7, <1>n, AppendedInvocation
  <1>10. /\ DOMAIN calls = 1..MaxEntries /\ DOMAIN calls' = 1..MaxEntries
         /\ calls'[p] = n
         /\ \A q : q # p => calls'[q] = calls[q]
    BY <1>1, <1>4, EntryFacts DEF ReplayInv, CallsOfEntries
  <1>11. \A q \in DOMAIN entries :
             /\ Invoked(q)' <=> Invoked(q) \/ q = p
             /\ Finished(q)' <=> Finished(q)
    <2> SUFFICES ASSUME NEW q \in DOMAIN entries
                 PROVE  /\ Invoked(q)' <=> Invoked(q) \/ q = p
                        /\ Finished(q)' <=> Finished(q)
      OBVIOUS
    <2>1. /\ InvokesAt(q) = InvokesAt(p) <=> q = p
          /\ CompletesAt(q) # InvokesAt(p)
      BY DEF InvokesAt, CompletesAt
    <2> QED
      BY <1>2, <2>1, TurnKeeps DEF Invoked, Finished
  <1>12. ~Finished(p)
    <2>1. InvokesAt(p) \in Moments /\ (~Pending(entries[p]) => CompletesAt(p) \in Moments)
      BY <1>1, MomentsOfEntries
    <2> QED
      BY <1>1, <1>2, <2>1, EndsAfterStart, BeforeIsOrder DEF Finished
  <1>13. CallsOfEntries'
    <2>1. ASSUME NEW q \in DOMAIN entries, Invoked(q)'
          PROVE  \E i \in Invocations' : calls'[q] = i /\ EventAt(i)'.client = entries[q].client
      <3>1. CASE q = p
        BY <1>6, <1>8, <1>9, <1>10, <3>1
      <3>2. CASE q # p
        <4>1. PICK i \in Invocations : calls[q] = i /\ EventAt(i).client = entries[q].client
          BY <1>11, <2>1, <3>2 DEF ReplayInv, CallsOfEntries
        <4> QED
          BY <1>8, <1>9, <1>10, <3>2, <4>1, TurnKeeps
      <3> QED
        BY <3>1, <3>2
    <2>2. ASSUME NEW i \in Invocations'
          PROVE  \E q \in DOMAIN entries : Invoked(q)' /\ calls'[q] = i
      <3>1. CASE i = n
        BY <1>10, <1>11, <3>1
      <3>2. CASE i \in Invocations
        BY <1>2, <1>10, <1>11, <3>2 DEF ReplayInv, CallsOfEntries
      <3> QED
        BY <1>9, <2>2, <3>1, <3>2
    <2> QED
      BY <1>10, <2>1, <2>2, TurnKeeps DEF CallsOfEntries
  <1>e. CompletionsOf(n) = {}
    <2>1. n \notin Invocations
      BY <1>n, TurnKeeps
    <2> QED
      BY <2>1 DEF ReplayInv, IInv, CompletesOneCall, CompletionsOf
  <1>14. CompletionsOfEntries'
    <2>2. ASSUME NEW q \in DOMAIN entries, NEW i \in Invocations', Invoked(q)', calls'[q] = i
          PROVE  Finished(q)' <=> CompletionsOf(i)' # {}
      <3>1. CASE q = p
        BY <1>9, <1>10, <1>11, <1>12, <1>e, <2>2, <3>1
      <3>2. CASE q # p
        <4>1. i \in Invocations
          BY <1>10, <1>11, <2>2, <3>2 DEF ReplayInv, CallsOfEntries
        <4> QED
          BY <1>9, <1>10, <1>11, <2>2, <3>2, <4>1 DEF ReplayInv, CompletionsOfEntries
      <3> QED
        BY <3>1, <3>2
    <2> QED
      BY <2>2, TurnKeeps DEF CompletionsOfEntries
  <1>15. RecordedInOrder'
    <2>m. PICK moment : moment = InvokesAt(p)
      OBVIOUS
    <2>1. \A m \in Moments, i \in Indices' :
              Past(m) /\ IsEventOf(i, m)' => IsEventOf(i, m) /\ i \in Indices
      <3> SUFFICES ASSUME NEW m \in Moments, NEW i \in Indices', Past(m), IsEventOf(i, m)'
                   PROVE  IsEventOf(i, m) /\ i \in Indices
        OBVIOUS
      <3>1. m # InvokesAt(p) /\ m.position \in DOMAIN entries
        BY <1>1, <1>2, MomentsOfEntries DEF Invoked
      <3>2. m.position # p
        <4>1. InvokesAt(p) \in Moments
          BY <1>1, MomentsOfEntries
        <4>2. Before(m, InvokesAt(p))
          BY <1>2
        <4>3. ~Before(InvokesAt(p), m)
          BY <1>1, <4>1, <4>2, BeforeIsOrder
        <4> QED
          BY <1>1, <3>1, <4>3, MomentsOfEntries, EndsAfterStart
      <3>3. IsEventOf(i, m)
        BY <1>9, <1>10, <1>e, <3>2 DEF IsEventOf
      <3>4. m.phase = 0 => calls[m.position] \in Invocations
        BY <1>1, <3>1, MomentsOfEntries DEF ReplayInv, CallsOfEntries, Invoked
      <3> QED
        BY <3>3, <3>4, TurnKeeps DEF IsEventOf
    <2>2. \A i \in Indices' : IsEventOf(i, moment)' => i = n
      BY <1>10, <2>m DEF IsEventOf, InvokesAt
    <2>3. \A i \in Indices' : i \in Indices \/ i = n
      BY <1>8
    <2>4. \A i \in Indices : i < n
      BY <1>n, TurnKeeps
    <2> QED
      BY <2>1, <2>2, <2>3, <2>4, <2>m, OrderKept
  <1>16. KeysAreLiteral'
    BY <1>11, TurnKeeps DEF ReplayInv, KeysAreLiteral
  <1> QED
    BY <1>6, <1>13, <1>14, <1>15, <1>16, TurnKeeps DEF ReplayInv

\* The turn that records the completion of an entry.
LEMMA CompletesReplayInv ==
  ASSUME ReplayInv, Replay, NEW p \in DOMAIN entries, Head(timeline) = CompletesAt(p),
         ~Pending(entries[p])
  PROVE  ReplayInv'
  <1>n. PICK n : n = Len(events)
    OBVIOUS
  <1>a. PICK call : call = calls[p]
    OBVIOUS
  <1> DEFINE kind == entries[p].kind
  <1>1. EntriesAreGiven /\ stage = "replay"
    BY DEF ReplayInv, Replay
  <1>2. /\ Invoked(p) /\ ~Finished(p) /\ call \in Invocations /\ IsOpen(call)
        /\ CompletesAt(p) \in Moments /\ ~Past(CompletesAt(p))
        /\ \A m : Past(m)' <=> Past(m) \/ m = CompletesAt(p)
    BY <1>a, CallIsOpen, NextMoment
  <1>3. PICK value \in (IF kind = "ok" THEN Outputs ELSE Errors) : Completes(call, kind, value)
    BY <1>a, TurnAtEnd
  <1>4. calls' = calls /\ kind \in Completions /\ value \in Values
    BY <1>1, <1>3, TurnAtEnd, EntryFacts DEF Completions, Values
  <1> DEFINE e == [kind |-> kind, call |-> call, client |-> EventAt(call).client,
                   process |-> EventAt(call).process, value |-> value]
  <1>5. /\ events' = Append(events, e) /\ raised' = Nothing
        /\ e.kind = kind /\ e.call = call /\ Len(events) < MaxEvents
    BY <1>2, <1>3, <1>n DEF Completes, Refuse
  <1>6. events \in Seq(Event) /\ EventAt(call) \in Event /\ call \in Index
    <2>1. events \in Seq(Event)
      BY DEF ReplayInv, IInv, TypeOK
    <2>2. call \in Indices
      BY <1>2, TurnKeeps
    <2> QED
      BY <1>5, <2>1, <2>2, MaxEventsAssumption DEF Indices, EventAt, Index
  <1>7. e \in Event /\ kind # "invoke"
    BY <1>4, <1>6 DEF Event, Kinds, Completions
  <1> HIDE DEF e
  <1>8. /\ Indices' = Indices \cup {n} /\ n \in Indices'
        /\ \A i \in Indices : EventAt(i)' = EventAt(i)
    BY <1>5, <1>6, <1>7, <1>n, AppendedEvent
  <1>9. /\ Invocations' = Invocations
        /\ \A i : i # call => CompletionsOf(i)' = CompletionsOf(i)
        /\ CompletionsOf(call)' = CompletionsOf(call) \cup {n}
    BY <1>5, <1>6, <1>7, <1>n, AppendedCompletion
  <1>10. \A q \in DOMAIN entries :
             /\ Invoked(q)' <=> Invoked(q)
             /\ Finished(q)' <=> Finished(q) \/ q = p
    <2> SUFFICES ASSUME NEW q \in DOMAIN entries
                 PROVE  /\ Invoked(q)' <=> Invoked(q)
                        /\ Finished(q)' <=> Finished(q) \/ q = p
      OBVIOUS
    <2>1. /\ CompletesAt(q) = CompletesAt(p) <=> q = p
          /\ InvokesAt(q) # CompletesAt(p)
      BY DEF InvokesAt, CompletesAt
    <2> QED
      BY <1>2, <2>1, TurnKeeps DEF Invoked, Finished
  <1>11. CallsOfEntries'
    <2>1. ASSUME NEW q \in DOMAIN entries, Invoked(q)
          PROVE  \E i \in Invocations' : calls[q] = i /\ EventAt(i)'.client = entries[q].client
      <3>1. PICK i \in Invocations : calls[q] = i /\ EventAt(i).client = entries[q].client
        BY <2>1 DEF ReplayInv, CallsOfEntries
      <3> QED
        BY <1>8, <1>9, <3>1, TurnKeeps
    <2> QED
      BY <1>4, <1>9, <1>10, <2>1, TurnKeeps DEF ReplayInv, CallsOfEntries
  <1>12. \A q \in DOMAIN entries : Invoked(q) /\ q # p => calls[q] # call
    BY <1>2, <1>a, OwnCalls
  <1>13. CompletionsOfEntries'
    <2>1. ASSUME NEW q \in DOMAIN entries, NEW i \in Invocations, Invoked(q), calls[q] = i
          PROVE  Finished(q)' <=> CompletionsOf(i)' # {}
      <3>1. CASE q = p
        BY <1>9, <1>10, <1>a, <2>1, <3>1
      <3>2. CASE q # p
        BY <1>9, <1>10, <1>12, <2>1, <3>2 DEF ReplayInv, CompletionsOfEntries
      <3> QED
        BY <3>1, <3>2
    <2> QED
      BY <1>4, <1>9, <1>10, <2>1, TurnKeeps DEF CompletionsOfEntries
  <1>14. RecordedInOrder'
    <2>m. PICK moment : moment = CompletesAt(p)
      OBVIOUS
    <2>1. \A m \in Moments, i \in Indices' :
              Past(m) /\ IsEventOf(i, m)' => IsEventOf(i, m) /\ i \in Indices
      <3> SUFFICES ASSUME NEW m \in Moments, NEW i \in Indices', Past(m), IsEventOf(i, m)'
                   PROVE  IsEventOf(i, m) /\ i \in Indices
        OBVIOUS
      <3>1. m.position \in DOMAIN entries /\ m # CompletesAt(p)
        BY <1>1, <1>2, MomentsOfEntries
      <3>2. CASE m.phase = 0
        <4>1. Invoked(m.position) /\ calls[m.position] = i
          BY <1>1, <1>4, <3>2, MomentsOfEntries DEF Invoked, IsEventOf
        <4> QED
          BY <3>1, <3>2, <4>1, TurnKeeps DEF IsEventOf, ReplayInv, CallsOfEntries
      <3>3. CASE m.phase # 0
        <4>1. /\ m = CompletesAt(m.position) /\ ~Pending(entries[m.position])
              /\ m.position # p
          BY <1>1, <3>1, <3>3, MomentsOfEntries
        <4>2. Invoked(m.position)
          <5> DEFINE s == InvokesAt(m.position)
          <5>1. s \in Moments /\ Before(s, m)
            BY <1>1, <3>1, <4>1, MomentsOfEntries, EndsAfterStart
          <5>2. SUFFICES ASSUME ~Past(s) PROVE FALSE
            BY DEF Invoked
          <5>3. Before(m, CompletesAt(p)) /\ (s = CompletesAt(p) \/ Before(CompletesAt(p), s))
            BY <5>1, <5>2, NextMoment
          <5> HIDE DEF s
          <5> QED
            BY <1>1, <1>2, <5>1, <5>3, BeforeIsOrder
        <4>3. calls[m.position] # call
          BY <1>12, <3>1, <4>1, <4>2
        <4>4. \E o \in Invocations : calls[m.position] = o /\ i \in CompletionsOf(o)
          BY <1>4, <1>9, <3>3, <4>3 DEF IsEventOf
        <4> QED
          BY <3>3, <4>4, TurnKeeps DEF IsEventOf
      <3> QED
        BY <3>2, <3>3
    <2>2. \A i \in Indices' : IsEventOf(i, moment)' => i = n
      <3>1. CompletionsOf(call) = {}
        BY <1>2, <1>a DEF ReplayInv, CompletionsOfEntries
      <3> QED
        BY <1>4, <1>9, <1>a, <2>m, <3>1 DEF IsEventOf, CompletesAt
    <2>3. \A i \in Indices' : i \in Indices \/ i = n
      BY <1>8
    <2>4. \A i \in Indices : i < n
      BY <1>n, TurnKeeps
    <2> QED
      BY <2>1, <2>2, <2>3, <2>4, <2>m, OrderKept
  <1>15. KeysAreLiteral'
    BY <1>10, TurnKeeps DEF ReplayInv, KeysAreLiteral
  <1> QED
    BY <1>5, <1>11, <1>13, <1>14, <1>15, TurnKeeps DEF ReplayInv

\* Each moment that is replayed keeps the recorder where the timeline is, or
\* ends the replay.
LEMMA ReplayReplayInv == ReplayInv /\ Replay => ReplayInv' \/ Stopped'
  <1> SUFFICES ASSUME ReplayInv, Replay PROVE ReplayInv' \/ Stopped'
    OBVIOUS
  <1>m. PICK moment : moment = Head(timeline)
    OBVIOUS
  <1>1. moment \in Moments /\ EntriesAreGiven
    BY <1>m, NextMoment DEF ReplayInv
  <1>2. CASE moment = InvokesAt(moment.position)
    BY <1>1, <1>2, <1>m, MomentsOfEntries, InvokesReplayInv, InvokesStops
  <1>3. CASE moment = CompletesAt(moment.position) /\ ~Pending(entries[moment.position])
    BY <1>1, <1>3, <1>m, MomentsOfEntries, CompletesReplayInv
  <1> QED
    BY <1>1, <1>2, <1>3, MomentsOfEntries

\* A replay that is ended stays so.
LEMMA StaysStopped == Stopped /\ [IntervalsNext]_<<vars, ivars>> => Stopped'
  <1> SUFFICES ASSUME Stopped, [IntervalsNext]_<<vars, ivars>> PROVE Stopped'
    OBVIOUS
  <1>1. UNCHANGED <<vars, ivars>>
    BY DEF Stopped, IntervalsNext, RefuseEntry, Accept, Replay, Nothing, NotLiteral
  <1> QED
    BY <1>1, LogUnchanged DEF Stopped, vars, ivars

\* Every step of from_intervals() keeps the invariant, or ends the replay.
LEMMA NextReplayInv ==
  ReplayInv /\ [IntervalsNext]_<<vars, ivars>> => ReplayInv' \/ Stopped'
  <1> SUFFICES ASSUME ReplayInv, UNCHANGED <<vars, ivars>> PROVE ReplayInv'
    BY RefuseReplayInv, AcceptReplayInv, ReplayReplayInv DEF IntervalsNext
  <1>1. UNCHANGED vars /\ UNCHANGED <<entries, timeline, calls, stage>>
    BY DEF ivars
  <1>2. IInv' /\ raised' = Nothing
    BY <1>1, LogUnchanged DEF ReplayInv, vars
  <1>3. EntriesAreGiven' /\ TimelineInOrder'
    BY <1>1 DEF ReplayInv, EntriesAreGiven, TimelineInOrder, Wrong, Moments, Before, Past
  <1>4. CallsOfEntries' /\ CompletionsOfEntries' /\ KeysAreLiteral'
    <2>1. \A p : (Invoked(p)' <=> Invoked(p)) /\ (Finished(p)' <=> Finished(p))
      BY <1>1 DEF Invoked, Finished, InvokesAt, CompletesAt, Past
    <2>2. CallsOfEntries'
      BY <1>1, <2>1, LogUnchanged DEF ReplayInv, CallsOfEntries
    <2>3. CompletionsOfEntries'
      BY <1>1, <2>1, LogUnchanged DEF ReplayInv, CompletionsOfEntries
    <2>4. KeysAreLiteral'
      BY <1>1, <2>1 DEF ReplayInv, KeysAreLiteral
    <2> QED
      BY <2>2, <2>3, <2>4
  <1>5. RecordedInOrder'
    BY <1>1, LogUnchanged DEF ReplayInv, RecordedInOrder, Moments, Before, Past, IsEventOf
  <1> QED
    BY <1>2, <1>3, <1>4, <1>5 DEF ReplayInv
---------------------------------------------------------------------------
\* Every state of every list of intervals is one of the two.
THEOREM ReplayInvariant == IntervalsSpec => [](ReplayInv \/ Stopped)
  BY InitReplayInv, NextReplayInv, StaysStopped, PTL DEF IntervalsSpec

\* The validation is enough for the times: the recorder refuses nothing of an
\* accepted list but a key without a typed literal, however its entries
\* touch.  Such a key does end the call in a UsageError, and no list with one
\* becomes a history.
THEOREM NeverRefused == IntervalsSpec => []OnlyKeysAreRefused
  <1>1. ReplayInv => OnlyKeysAreRefused
    <2> SUFFICES ASSUME ReplayInv, Replayed, NEW p \in DOMAIN entries
                 PROVE  entries[p].literal
      BY DEF ReplayInv, OnlyKeysAreRefused
    <2> QED
      BY DEF ReplayInv, Replayed, KeysAreLiteral, Invoked, Past
  <1>2. Stopped => OnlyKeysAreRefused
    BY DEF Stopped, OnlyKeysAreRefused, Replayed, Nothing, NotLiteral
  <1> QED
    BY <1>1, <1>2, ReplayInvariant, PTL

\* What is replayed has the precedence of the clock: the moments are in the
\* log in their order, and the end of one entry is before the start of
\* another only when its time is.
LEMMA ReplayedPrecedence == ReplayInv => PrecedenceIsTheClocks
  <1> SUFFICES ASSUME ReplayInv, Replayed, NEW p \in DOMAIN entries, NEW q \in DOMAIN entries
               PROVE  (\E k \in CompletionsOf(calls[p]) : k < calls[q])
                          <=> (~Pending(entries[p]) /\ entries[p].end < entries[q].start)
    BY DEF PrecedenceIsTheClocks
  <1>1. EntriesAreGiven /\ \A m : Past(m)
    BY DEF Replayed, Past, ReplayInv
  <1>2. /\ entries[p].end \in Int /\ entries[q].start \in Int
        /\ InvokesAt(q) \in Moments
        /\ ~Pending(entries[p]) => CompletesAt(p) \in Moments
    BY <1>1, EntryFacts, MomentsOfEntries
  <1>3. /\ CompletionsOf(calls[p]) \subseteq Indices /\ calls[q] \in Indices
        /\ Indices \subseteq Int
    BY <1>1
    DEF ReplayInv, CallsOfEntries, Invoked, Invocations, CompletionsOf, Indices, IInv, TypeOK
  <1>c. PICK call \in Invocations : calls[p] = call
    BY <1>1 DEF ReplayInv, CallsOfEntries, Invoked
  <1>4. Pending(entries[p]) <=> CompletionsOf(call) = {}
    BY <1>1, <1>c DEF ReplayInv, CompletionsOfEntries, Finished, Invoked
  <1>5. ASSUME ~Pending(entries[p]), NEW k \in CompletionsOf(call)
        PROVE  k < calls[q] <=> entries[p].end < entries[q].start
    <2>1. IsEventOf(k, CompletesAt(p)) /\ IsEventOf(calls[q], InvokesAt(q))
      BY <1>5, <1>c DEF IsEventOf, InvokesAt, CompletesAt
    <2>2. /\ Before(CompletesAt(p), InvokesAt(q)) => k < calls[q]
          /\ Before(InvokesAt(q), CompletesAt(p)) => calls[q] < k
      BY <1>1, <1>2, <1>3, <1>5, <1>c, <2>1 DEF ReplayInv, RecordedInOrder
    <2>3. Before(CompletesAt(p), InvokesAt(q)) <=> entries[p].end < entries[q].start
      BY <1>2 DEF Before, InvokesAt, CompletesAt
    <2>4. Before(InvokesAt(q), CompletesAt(p)) <=> ~(entries[p].end < entries[q].start)
      BY <1>2 DEF Before, InvokesAt, CompletesAt
    <2>5. k \in Int /\ calls[q] \in Int
      BY <1>3, <1>5, <1>c
    <2> QED
      BY <2>2, <2>3, <2>4, <2>5
  <1> QED
    BY <1>4, <1>5, <1>c

\* In the history of an accepted list, one call precedes another exactly when
\* its interval ended before the other's started.
THEOREM ClockPrecedence == IntervalsSpec => []PrecedenceIsTheClocks
  <1>1. Stopped => PrecedenceIsTheClocks
    BY DEF Stopped, PrecedenceIsTheClocks, Replayed, Nothing, NotLiteral
  <1> QED
    BY <1>1, ReplayInvariant, ReplayedPrecedence, PTL

\* What from_intervals() does to a recorder is what its clients may do, so
\* that every theorem about the recorder holds of the histories it builds.
THEOREM ReplayUsesTheRecorder == IntervalsSpec => Spec
  <1>1. IntervalsInit => Init
    BY DEF IntervalsInit
  <1>2. ReplayInv /\ [IntervalsNext]_<<vars, ivars>> => [Next]_vars
    BY ReplayIsNext DEF IntervalsNext, RefuseEntry, Accept
  <1>3. Stopped /\ [IntervalsNext]_<<vars, ivars>> => [Next]_vars
    BY DEF Stopped, IntervalsNext, RefuseEntry, Accept, Replay, Nothing, NotLiteral
  <1> QED
    BY <1>1, <1>2, <1>3, ReplayInvariant, PTL DEF IntervalsSpec, Spec
===========================================================================

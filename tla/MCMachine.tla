----------------------------- MODULE MCMachine -----------------------------
(***************************************************************************)
(* An instance of Machine for TLC: each subject with as many steps as its  *)
(* fault needs, and two clients besides client 0 where it has clients.     *)
(***************************************************************************)
EXTENDS Machine

MCValues == {"v", "w"}
MCMilliseconds == {0, 3, 5}

Sequential(subjects, capacity, max) ==
    [name : subjects, capacity : {capacity}, swarm : {TRUE}, clients : {1}, max : {max}, concurrent : {0}]

Concurrently(subjects, swarm) ==
    [name : subjects, capacity : {0}, swarm : swarm, clients : {2}, max : {1}, concurrent : {3}]

MCSetups ==
    Sequential(Queues, 1, 3) \cup Sequential(Queues, 2, 4)
    \cup Sequential({"counter-overflows"}, 0, 4)
    \cup Sequential({"counter-refuses-every-third"}, 0, 5)
    \cup Sequential({"store-loses-on-crash"}, 0, 3)
    \cup Sequential(Tickers, 0, 3)
    \cup Concurrently(SharedCounters, {TRUE, FALSE})
    \cup Concurrently(Registers, {TRUE})

\* Traces that a machine cannot follow, each for another reason.
MCTracesOf(s) ==
    CASE s.name = "racy-counter" ->
            {<<Step("increment", NoClient, FALSE, NoInput), Step("increment", NoClient, FALSE, NoInput)>>,
             <<Step("increment", 3, FALSE, NoInput)>>,
             <<Step("increment", 1, FALSE, NoInput), Step("increment", NoClient, TRUE, NoInput)>>}
      [] s.name = "store-loses-on-crash" ->
            {<<Step("flush", NoClient, FALSE, NoInput)>>,
             <<Step("put", 1, FALSE, <<0>>)>>,
             <<Step("put", NoClient, FALSE, <<0>>)>>}
      [] OTHER -> {}
=============================================================================

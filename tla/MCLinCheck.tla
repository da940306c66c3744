---------------------------- MODULE MCLinCheck ----------------------------
(***************************************************************************)
(* Instances of LinCheck for TLC.  A problem records every history of a    *)
(* few calls, each on a client of its own: every interleaving of their     *)
(* invocations and completions, and every output of a small set.           *)
(***************************************************************************)
EXTENDS LinCheck

Op(operation, args, keys) == [operation |-> operation, args |-> args, keys |-> keys]

\* The outputs that an ok completion of an operation may have.
OutputsOf(operation) ==
    CASE operation \in {"write", "enqueue", "add", "put", "append"} -> {Null}
      [] operation \in {"read", "dequeue"} -> {Null, "1", "2"}
      [] operation \in {"cas", "contains", "remove"} -> BOOLEAN
      [] operation = "get" -> {Empty, <<"a">>}

Oks(operation) == {<<"ok", output>> : output \in OutputsOf(operation)}

Problem(name, maxCalls, ops, Ends(_), limits, whole) ==
    [model     |-> name,
     maxCalls  |-> maxCalls,
     calls     |-> ops,
     ends      |-> [f \in {op.operation : op \in ops} |-> Ends(f)],
     budget    |-> limits[1],
     memoLimit |-> limits[2],
     whole     |-> whole]

NoLimits == <<1000, 1000>>

Write(v) == Op("write", <<v>>, <<>>)
Read == Op("read", <<>>, <<>>)
---------------------------------------------------------------------------
(* The search: one partition, and every model but the key-value one.       *)

RegisterProblems ==
    {Problem(name, 3, {Write("1"), Write("2"), Read}, Oks, NoLimits, TRUE) :
         name \in {"register", "lossy-register"}}

\* Four calls: two without a completion and two with one, or more, so that
\* the memo has configurations that cover others.
FourCalls ==
    {Problem("register", 4, {Write("1"), Read},
             LAMBDA f : IF f = "read" THEN {<<"ok", "1">>} ELSE Oks(f), NoLimits, TRUE)}

OtherModels ==
    {Problem("cas-register", 3, {Write("1"), Op("cas", <<"1", "2">>, <<>>), Read},
             LAMBDA f : Oks(f) \ (IF f = "read" THEN {<<"ok", Null>>} ELSE {}), NoLimits, TRUE),
     Problem("queue", 3, {Op("enqueue", <<"1">>, <<>>), Op("enqueue", <<"2">>, <<>>),
                          Op("dequeue", <<>>, <<>>)}, Oks, NoLimits, TRUE),
     Problem("set", 3, {Op("add", <<"1">>, <<>>), Op("contains", <<"1">>, <<>>),
                        Op("remove", <<"1">>, <<>>)}, Oks, NoLimits, TRUE)}

\* A model whose step costs more with each call, and a limit on steps or bits.
LimitedProblems ==
    {Problem("from-subject", 3, {Write("1"), Read},
             LAMBDA f : Oks(f) \ {<<"ok", "2">>}, limits, TRUE) :
         limits \in {<<5, 1000>>, <<1000, 6>>}}

SearchProblems == RegisterProblems \cup FourCalls \cup OtherModels \cup LimitedProblems
---------------------------------------------------------------------------
(* The check: a key-value history and its partitions.                      *)

Get(name, keys) == Op("get", <<name>>, keys)
Put(name, keys) == Op("put", <<name, <<"a">>>>, keys)

\* A put may fail, or end without an outcome.
OrEnds(kind, operation) ==
    Oks(operation) \cup (IF operation = "put" THEN {<<kind, Null>>} ELSE {})

\* Without a limit; with a memo that has room for one call of a partition;
\* and with no budget, which leaves every partition undecided.
KeyedProblems ==
    {Problem("key-value", 3, {Put("x", <<"x">>), Get("y", <<"y">>), Put("y", <<"x", "y">>)},
             LAMBDA f : OrEnds("fail", f), NoLimits, FALSE),
     Problem("key-value", 3, {Put("x", <<"x">>), Get("y", <<"y">>), Get("x", <<>>)},
             Oks, <<1000, 1>>, FALSE),
     Problem("key-value", 3, {Put("x", <<"x">>), Get("x", <<"x">>), Get("y", <<"y">>)},
             LAMBDA f : OrEnds("unknown", f), <<0, 1000>>, FALSE)}

AllProblems == SearchProblems \cup KeyedProblems
===========================================================================

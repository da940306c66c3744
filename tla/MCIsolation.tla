---------------------------- MODULE MCIsolation ----------------------------
(* Workloads and graphs for TLC.                                           *)
EXTENDS Isolation

Call(args) == [operation |-> "txn", args |-> args]

LostUpdates == [i \in 1..3 |-> Call(<<Read("x"), Append_("x", i)>>)]
WriteSkew == <<Call(<<Read("x"), Read("y"), Append_("x", 1)>>),
               Call(<<Read("x"), Read("y"), Append_("y", 1)>>),
               Call(<<Read("x"), Read("y")>>)>>
BlindAppends == <<Call(<<Read("y"), Append_("x", 1)>>), Call(<<Read("x"), Append_("y", 1)>>),
                  Call(<<Append_("x", 2)>>), Call(<<Append_("y", 2)>>)>>
LongFork == <<Call(<<Append_("x", 1)>>), Call(<<Append_("y", 1)>>),
              Call(<<Read("x"), Read("y")>>), Call(<<Read("x"), Read("y")>>)>>
TwoAppends == <<Call(<<Append_("x", 1), Append_("x", 2)>>), Call(<<Read("x"), Append_("y", 1)>>),
                Call(<<Read("y"), Append_("x", 3)>>)>>
TwoThenOne == <<Call(<<Append_("x", 1), Append_("x", 2)>>), Call(<<Append_("x", 3)>>), Call(<<Read("x")>>)>>
OwnReads == <<Call(<<Append_("x", 1), Read("x"), Read("x")>>), Call(<<Read("x"), Append_("x", 2)>>)>>
CrossedAppends == <<Call(<<Append_("x", 1), Append_("y", 1)>>), Call(<<Append_("x", 2), Append_("y", 2)>>),
                    Call(<<Read("x"), Read("y")>>)>>

RegisterUpdates == [i \in 1..3 |-> Call(<<Read("x"), Write("x", i)>>)]
RegisterSkew == <<Call(<<Read("x"), Write("y", 1)>>), Call(<<Read("y"), Write("x", 1)>>),
                  Call(<<Read("x"), Write("x", 2), Read("y")>>)>>
RegisterFork == <<Call(<<Write("x", 1)>>), Call(<<Write("y", 1)>>),
                  Call(<<Read("x"), Read("y")>>), Call(<<Read("x"), Read("y")>>)>>
Overwrites == <<Call(<<Write("x", 1), Write("x", 2)>>), Call(<<Read("x"), Write("x", 3), Read("x")>>),
                Call(<<Read("x"), Read("x")>>)>>

NoTransactions == {<<[operation |-> "read", args |-> <<>>]>>,
                   <<Call(<<Mop("read", "x", One(1))>>)>>,
                   <<Call(<<Mop("write", "x", Null)>>)>>,
                   <<Call(<<Append_("x", 1)>>), Call(<<Append_("x", 1)>>)>>,
                   <<Call(<<Append_("x", 1)>>), Call(<<Write("x", 2)>>)>>}

MCWorkloads == NoTransactions \cup
    {LostUpdates, WriteSkew, BlindAppends, LongFork, TwoAppends, TwoThenOne, OwnReads, CrossedAppends,
     RegisterUpdates, RegisterSkew, RegisterFork, Overwrites}

MCOdd == {List(<<1, 1>>), One(9)}

\* Both ways between three transactions, a ring of four with the ways back,
\* and two rings that meet in a transaction.
Both(nodes, relations) ==
    {Edge(a, b, r) : a, b \in nodes, r \in relations} \ {Edge(a, a, r) : a \in nodes, r \in relations}
Ring == UNION {{Edge(a, (a % 4) + 1, "ww"), Edge(a, (a % 4) + 1, "rw"), Edge((a % 4) + 1, a, "rw")} : a \in 1..4}
Eight == {Edge(5, 1, "rw"), Edge(1, 2, "ww"), Edge(2, 3, "rw"), Edge(3, 4, "wr"), Edge(4, 2, "rw"),
          Edge(2, 5, "ww"), Edge(1, 4, "rw"), Edge(4, 5, "rw"), Edge(3, 1, "ww"), Edge(5, 3, "wr")}

MCGraphs == {Both(1..3, {"ww", "rw"}), Both(1..3, {"ww", "wr"}), Ring, Eight}
===========================================================================

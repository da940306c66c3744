----------------------------- MODULE Isolation -----------------------------
(***************************************************************************)
(* The isolation checker, translated from src/tools/history/isolation.py:  *)
(* a history of transactions is recorded, one completion at a time, and    *)
(* check() is called on what has been recorded.                            *)
(*                                                                         *)
(* A transaction is its position among the invocations.  It has the micro- *)
(* operations of its invocation, those of its ok output, and the kind of   *)
(* its completion.  A value has a form and its items: null has none, a     *)
(* plain value has itself, and a list its members.                         *)
(***************************************************************************)
EXTENDS Cycles

CONSTANTS
    Workloads,   \* the invocations to record: sequences of calls
    Odd,         \* values that a read may return and nothing produced
    Graphs       \* sets of edges: each of their subsets is searched as a graph

\* A workload lists its invocations, and a graph is finite, of the edges that
\* _edge() adds: between two transactions.
ASSUME InputsAssumption ==
    /\ \A w \in Workloads : Len(w) \in Nat /\ DOMAIN w = 1..Len(w)
    /\ \A pool \in Graphs :
           /\ IsFiniteSet(pool)
           /\ \A e \in pool : /\ e = [from |-> e.from, to |-> e.to, relation |-> e.relation]
                              /\ {e.from, e.to} \subseteq Nat /\ e.from # e.to
                              /\ e.relation \in Relations

VARIABLES
    history,     \* the transactions
    cases,       \* the case that the last check found of each anomaly
    checked,     \* whether the last check saw the history as it is
    edges        \* the dependency graph of a search without a history

vars == <<history, cases, checked, edges>>

Value(form, items) == [form |-> form, items |-> items]
Null == Value("null", <<>>)
One(v) == Value("value", <<v>>)
List(items) == Value("list", items)

Mop(function, key, value) == [function |-> function, key |-> key, value |-> value]
Append_(key, v) == Mop("append", key, One(v))
Write(key, v) == Mop("write", key, One(v))
Read(key) == Mop("read", key, Null)

Pending(call) == [operation |-> call.operation, args |-> call.args,
                  kind |-> "pending", output |-> <<>>]
---------------------------------------------------------------------------
(* transactions(): what is no history of transactions.                     *)

Transactions(h) == DOMAIN h
WithKind(h, kinds) == {t \in Transactions(h) : h[t].kind \in kinds}

\* The micro-operations of a transaction: an ok output has the values of its
\* reads.
Mops(txn) == IF txn.kind = "ok" THEN txn.output ELSE txn.args

\* The micro-operations of a set of functions, in order, with their calls.
MopsOf(h, functions) ==
    LET chosen(t) == SelectSeq(Mops(h[t]), LAMBDA mop : mop.function \in functions)
        named(t, mop) == [call |-> t, function |-> mop.function, key |-> mop.key,
                          form |-> mop.value.form, items |-> mop.value.items]
    IN FlattenSeq([t \in DOMAIN h |-> [i \in DOMAIN chosen(t) |-> named(t, chosen(t)[i])]])

Productions(h) == MopsOf(h, {"append", "write"})

\* registers().
Registers(h) == \E p \in Range(Productions(h)) : p.function = "write"

\* _invoked().
BadInvocation(mop) ==
    \/ mop.function = "read" /\ mop.value # Null
    \/ mop.function = "write" /\ mop.value = Null

\* _returned() and _repeated().
Repeats(output, args) ==
    /\ Len(output) = Len(args)
    /\ \A i \in DOMAIN args :
           /\ output[i].function = args[i].function
           /\ output[i].key = args[i].key
           /\ args[i].function = "read" \/ output[i].value = args[i].value

\* _register(): a value is appended or written to its key once.
ProducedTwice(productions) ==
    \E i, j \in DOMAIN productions :
        /\ i < j
        /\ productions[i].key = productions[j].key
        /\ productions[i].items = productions[j].items

\* The TransactionErrors of transactions().
Refused(h) ==
    \/ \E t \in Transactions(h) :
           \/ h[t].operation # "txn"
           \/ \E mop \in Range(h[t].args) : BadInvocation(mop)
           \/ h[t].kind = "ok" /\ ~Repeats(h[t].output, h[t].args)
    \/ ProducedTwice(Productions(h))
    \/ Cardinality({p.function : p \in Range(Productions(h))}) > 1
    \/ ~Registers(h) /\ \E r \in Range(MopsOf(h, {"read"})) : r.form = "value"
---------------------------------------------------------------------------
(* _index(): what both analyses keep of the transactions.                  *)

\* Mutant: an observed transaction counts only while it has no completion.
CommittedPending(h, writer, observed) ==
    WithKind(h, {"ok"}) \cup
    {t \in WithKind(h, {"pending"}) : \E name \in observed \cap DOMAIN writer : writer[name] = t}

\* The committed transactions: a transaction without a known end counts when
\* a committed read observed what it appended or wrote.
CommittedOf(h, writer, observed) ==
    WithKind(h, {"ok"}) \cup
    {t \in WithKind(h, {"unknown", "pending"}) :
        \E name \in observed \cap DOMAIN writer : writer[name] = t}

\* The reads of the ok transactions.
OkReads(h) == SelectSeq(MopsOf(h, {"read"}), LAMBDA r : h[r.call].kind = "ok")

Index(h) ==
    LET productions == Productions(h)
        name(p) == <<p.key, p.items[1]>>
        writer == [n \in {name(p) : p \in Range(productions)} |->
                      (CHOOSE p \in Range(productions) : name(p) = n).call]
        reads == OkReads(h)
        observed == UNION {{<<r.key, v>> : v \in Range(r.items)} : r \in Range(reads)}
    IN [txns |-> h,
        keys |-> {p.key : p \in Range(MopsOf(h, {"append", "write", "read"}))},
        productions |-> productions,
        writer |-> writer,
        \* The values that their transaction followed by another on the key.
        overwritten |-> {name(productions[i]) : i \in
            {j \in DOMAIN productions : \E k \in DOMAIN productions :
                /\ j < k /\ productions[j].call = productions[k].call
                /\ productions[j].key = productions[k].key}},
        reads |-> reads,
        committed |-> CommittedOf(h, writer, observed)]

Writer(a, key, v) == IF <<key, v>> \in DOMAIN a.writer THEN a.writer[<<key, v>>] ELSE 0

\* _writer() of Analysis.
CommittedWriter(a, key, v) ==
    LET t == Writer(a, key, v) IN IF t \in a.committed THEN t ELSE 0
---------------------------------------------------------------------------
(* The anomalies that need no graph.  A case lists its transactions as the *)
(* steps of a cycle, which they are not: no relation leads to the next.    *)

CaseOf(calls) == [i \in DOMAIN calls |-> Step(calls[i], {})]
NoCase == <<>>

\* The case of the first read of reads with the values that show an anomaly,
\* with the transaction that produced the first of them.
ReadCase(a, reads, Shows(_, _), withWriter) ==
    LET shown(r) == SelectSeq(r.items, LAMBDA v : Shows(r, v))
        bad == SelectSeq(reads, LAMBDA r : shown(r) # <<>>)
    IN IF bad = <<>> THEN NoCase
       ELSE CaseOf(IF withWriter
                   THEN <<bad[1].call, Writer(a, bad[1].key, shown(bad[1])[1])>>
                   ELSE <<bad[1].call>>)

GarbageRead(a) == ReadCase(a, a.reads, LAMBDA r, v : Writer(a, r.key, v) = 0, FALSE)

AbortedRead(a) ==
    ReadCase(a, a.reads, LAMBDA r, v : Writer(a, r.key, v) \in WithKind(a.txns, {"fail"}), TRUE)

DuplicateAppend(a) ==
    LET bad == SelectSeq(a.reads, LAMBDA r : ~IsInjective(r.items))
    IN IF bad = <<>> THEN NoCase ELSE CaseOf(<<bad[1].call>>)

\* A read that ends in an append which its transaction followed by another.
IntermediateRead(a) ==
    ReadCase(a, a.reads,
             LAMBDA r, v : /\ v = Last(r.items)
                           /\ Writer(a, r.key, v) \notin {0, r.call}
                           /\ <<r.key, v>> \in a.overwritten, TRUE)

\* _external_reads(): the value of the first read of each key that an ok
\* transaction reads before it writes.
ExternalReads(txn) ==
    LET first(key) == CHOOSE i \in DOMAIN txn.output :
            /\ txn.output[i].key = key
            /\ \A j \in 1..(i - 1) : txn.output[j].key # key
        keys == {mop.key : mop \in Range(txn.output)}
    IN IF txn.kind # "ok" THEN <<>>
       ELSE [key \in {k \in keys : txn.output[first(k)].function = "read"} |->
                txn.output[first(key)].value.items]

WrittenKeys(txn) == {mop.key : mop \in {m \in Range(Mops(txn)) : m.function # "read"}}

\* Whether two transactions read one version of a key and both write the key.
SameVersion(a, s, t) ==
    LET read(u) == ExternalReads(a.txns[u])
    IN \E key \in WrittenKeys(a.txns[s]) \cap WrittenKeys(a.txns[t]) :
           key \in DOMAIN read(s) \cap DOMAIN read(t) /\ read(s)[key] = read(t)[key]

\* _lost_update(): the first transaction that matches an earlier one.
LostUpdate(a) ==
    LET ok == WithKind(a.txns, {"ok"})
        earlier(t) == {s \in ok : s < t /\ SameVersion(a, s, t)}
        late == {t \in ok : earlier(t) # {}}
    IN IF late = {} THEN NoCase ELSE CaseOf(<<Min(earlier(Min(late))), Min(late)>>)

\* The values that txn appends or writes to a key after a position.
Later(txn, key, position) ==
    {txn.output[i].value.items[1] : i \in
        {j \in DOMAIN txn.output : j > position /\ txn.output[j].key = key
                                   /\ txn.output[j].function # "read"}}

\* _internal() and _internal_register(): what a transaction knows of a key
\* before a position, and whether that is the whole value.
Known(txn, key, position) ==
    LET earlier == {i \in 1..(position - 1) : txn.output[i].key = key}
        Know(known, i) ==
            LET items == txn.output[i].value.items
            IN CASE txn.output[i].function = "append" -> [known EXCEPT !.items = @ \o items]
                 [] OTHER -> [items |-> items, whole |-> TRUE]
    IN FoldLeft(Know, [items |-> <<>>, whole |-> FALSE], Ascending(earlier, <))

\* _agrees() and the test for values of the future.
Contradicts(txn, i) ==
    LET mop == txn.output[i]
        known == Known(txn, mop.key, i)
    IN /\ mop.function = "read"
       /\ \/ Range(mop.value.items) \cap Later(txn, mop.key, i) # {}
          \/ known.whole /\ mop.value.items # known.items
          \/ ~known.whole /\ ~IsSuffix(known.items, mop.value.items)

InternalInconsistency(a) ==
    LET bad == {t \in WithKind(a.txns, {"ok"}) :
                   \E i \in DOMAIN a.txns[t].output : Contradicts(a.txns[t], i)}
    IN IF bad = {} THEN NoCase ELSE CaseOf(<<Min(bad)>>)
---------------------------------------------------------------------------
(* Analysis: the version orders and the dependencies of a list history.    *)

ReadsOf(a, key) == SelectSeq(a.reads, LAMBDA r : r.key = key)

\* The distinct reads of a key by length, as _longest() ranks them: of equal
\* reads the first one counts.
Ranked(a, key) ==
    LET reads == ReadsOf(a, key)
        distinct == {i \in DOMAIN reads : \A j \in 1..(i - 1) : reads[j].items # reads[i].items}
        Shorter_(i, j) == \/ Len(reads[i].items) < Len(reads[j].items)
                          \/ Len(reads[i].items) = Len(reads[j].items) /\ i < j
        ranks == Ascending(distinct, Shorter_)
    IN [i \in DOMAIN ranks |-> reads[ranks[i]]]

Clashes(ranked) ==
    {i \in DOMAIN ranked : i < Len(ranked) /\ ~IsPrefix(ranked[i].items, ranked[i + 1].items)}

\* The keys in the order in which the transactions touch them.
KeyOrder(a) ==
    LET keys == MopsOf(a.txns, {"append", "write", "read"})
        first(k) == Min({i \in DOMAIN keys : keys[i].key = k})
        Earlier(k, l) == first(k) < first(l)
    IN Ascending(a.keys, Earlier)

\* _version_orders() and _incompatible_case().
IncompatibleOrder(a) ==
    LET bad == SelectSeq(KeyOrder(a), LAMBDA k : Clashes(Ranked(a, k)) # {})
    IN IF bad = <<>> THEN NoCase
       ELSE LET ranked == Ranked(a, bad[1])
                at == Min(Clashes(ranked))
                calls == <<ranked[at].call, ranked[at + 1].call>>
            IN CaseOf(IF calls[1] = calls[2] THEN <<calls[1]>> ELSE calls)

Edge(from, to, relation) == [from |-> from, to |-> to, relation |-> relation]

\* _edge(): the dependencies between two transactions.
Proper(dependencies) == {e \in dependencies : e.from # 0 /\ e.to # 0 /\ e.from # e.to}

\* Mutant: an append that no read observed has no place in the order.
UnobservedNone(a, key, order) == {}

\* The transactions with a committed append that no committed read observed.
Unobserved(a, key, order) ==
    {p.call : p \in {q \in Range(a.productions) :
        q.key = key /\ q.call \in a.committed /\ q.items[1] \notin Range(order)}}

\* The transactions whose appends come next after a read.
NextWriters(a, key, order, seen) ==
    IF seen < Len(order) THEN {CommittedWriter(a, key, order[seen + 1])}
    ELSE Unobserved(a, key, order)

\* The reads of a key by the ok transactions.
CommittedReads(a, key) ==
    UNION {{[call |-> t, items |-> mop.value.items] :
               mop \in {m \in Range(Mops(a.txns[t])) : m.function = "read" /\ m.key = key}} :
              t \in WithKind(a.txns, {"ok"})}

\* The dependencies between the appends of a key, in their order.
OrderEdges(a, key, order) ==
    LET writer(i) == CommittedWriter(a, key, order[i])
    IN {Edge(writer(i), writer(i + 1), "ww") : i \in 1..(Len(order) - 1)}
       \cup {Edge(writer(Len(order)), t, "ww") : t \in IF order = <<>> THEN {} ELSE Unobserved(a, key, order)}

\* _read_edges(): the dependencies of a read.
ReadEdges(a, key, order, read) ==
    LET seen == Len(read.items)
    IN (IF seen = 0 THEN {} ELSE {Edge(CommittedWriter(a, key, order[seen]), read.call, "wr")})
       \cup {Edge(read.call, t, "rw") : t \in NextWriters(a, key, order, seen)}

\* The dependencies of one key with a version order.
KeyDependencies(a, key) ==
    LET ranked == Ranked(a, key)
        order == IF ranked = <<>> THEN <<>> ELSE Last(ranked).items
    IN IF Clashes(ranked) # {} THEN {}
       ELSE OrderEdges(a, key, order)
            \cup UNION {ReadEdges(a, key, order, read) : read \in CommittedReads(a, key)}
---------------------------------------------------------------------------
(* RegisterAnalysis: the dependencies that a register history reveals.     *)

\* _installer(): a value that its transaction overwrote was never installed.
Installer(a, key, items) ==
    IF <<key, items[1]>> \in a.overwritten THEN 0 ELSE CommittedWriter(a, key, items[1])

\* _predecessors(): the values that precede what a transaction installs.
Predecessors(txn, key) ==
    {<<>>} \cup (IF key \in DOMAIN ExternalReads(txn) THEN {ExternalReads(txn)[key]} ELSE {})

\* _key_edges(), from the version pairs and the external reads of a key.
RegisterDependencies(a, key) ==
    LET installers == {t \in a.committed : key \in WrittenKeys(a.txns[t])}
        versions == UNION {{<<before, t>> : before \in Predecessors(a.txns[t], key)} :
                              t \in installers}
        readers == {t \in a.committed : key \in DOMAIN ExternalReads(a.txns[t])}
        read(t) == ExternalReads(a.txns[t])[key]
    IN {Edge(Installer(a, key, p[1]), p[2], "ww") : p \in {q \in versions : q[1] # <<>>}}
       \cup {Edge(Installer(a, key, read(t)), t, "wr") : t \in {u \in readers : read(u) # <<>>}}
       \cup UNION {{Edge(t, p[2], "rw") : p \in {q \in versions : q[1] = read(t)}} : t \in readers}
---------------------------------------------------------------------------
(* check().                                                                *)

Anomalies == <<"garbage-read", "duplicate-append", "internal-inconsistency", "incompatible-order",
               "aborted-read", "intermediate-read", "lost-update",
               "G0", "G1c", "Gsingle", "Gnonadjacent", "G2">>
Levels == {"serializable", "snapshot-isolation"}

\* Mutant: snapshot isolation forbids every cycle.
ForbidsAll(level) == Range(Anomalies)

Forbids(level) == IF level = "serializable" THEN Range(Anomalies) ELSE Range(Anomalies) \ {"G2"}

Dependencies(a) ==
    Proper(UNION {IF Registers(a.txns) THEN RegisterDependencies(a, key) ELSE KeyDependencies(a, key) :
                     key \in a.keys})

CycleKinds == {"G0", "G1c", "Gsingle", "Gnonadjacent", "G2"}

\* case(): the first instance of every anomaly of a history.
CasesOf(a) ==
    LET list == ~Registers(a.txns)
        dependencies == Dependencies(a)
    IN [kind \in Range(Anomalies) |->
           CASE kind = "garbage-read"           -> GarbageRead(a)
             [] kind = "duplicate-append"       -> IF list THEN DuplicateAppend(a) ELSE NoCase
             [] kind = "internal-inconsistency" -> InternalInconsistency(a)
             [] kind = "incompatible-order"     -> IF list THEN IncompatibleOrder(a) ELSE NoCase
             [] kind = "aborted-read"           -> AbortedRead(a)
             [] kind = "intermediate-read"      -> IntermediateRead(a)
             [] kind = "lost-update"            -> LostUpdate(a)
             [] OTHER                           -> CycleOf(kind, a.committed, dependencies)]

NotChecked == [kind \in Range(Anomalies) |-> NoCase]

\* The kinds that a check at a level reports, in order.
Kinds(found, level) == Among(Anomalies, {k \in Forbids(level) : found[k] # NoCase})
Passed(found, level) == Kinds(found, level) = <<>>
---------------------------------------------------------------------------
(* A history is recorded and checked.                                      *)

Init ==
    /\ \/ /\ history \in {[t \in DOMAIN w |-> Pending(w[t])] : w \in Workloads}
          /\ edges = {}
       \/ history = <<>> /\ edges \in UNION {SUBSET pool : pool \in Graphs}
    /\ cases = NotChecked
    /\ checked = FALSE

Injective(values) == UNION {{List(p) : p \in {q \in [1..n -> values] : IsInjective(q)}} :
                               n \in 1..Cardinality(values)}

\* What a read of a key may return: null, a value that was written to it or a
\* list of those appended to it, or an odd value.
Returned(h, key) ==
    LET produced == {p.items[1] : p \in {q \in Range(Productions(h)) : q.key = key}}
    IN {Null} \cup (IF Registers(h) THEN {odd \in Odd : odd.form = "value"} \cup {One(v) : v \in produced}
                   ELSE Odd \cup Injective(produced))

\* The outputs that repeat the micro-operations with values for the reads,
\* and one that does not.
Outputs(h, args) ==
    LET filled(mop) == IF mop.function # "read" THEN {mop}
                       ELSE {[mop EXCEPT !.value = value] : value \in Returned(h, mop.key)}
        Fill(outputs, mop) == {Append(o, m) : o \in outputs, m \in filled(mop)}
    IN {<<>>} \cup FoldLeft(Fill, {<<>>}, args)

\* The calls complete in their order: which one completes first does not
\* change a transaction, and a later check sees an unknown one as a pending one.
Complete ==
    /\ checked
    /\ \E t \in WithKind(history, {"pending"}) :
           /\ \A u \in WithKind(history, {"pending"}) : t <= u
           /\ \/ \E output \in Outputs(history, history[t].args) :
                     history' = [history EXCEPT ![t].kind = "ok", ![t].output = output]
              \/ history' = [history EXCEPT ![t].kind = "fail"]
              \/ history' = [history EXCEPT ![t].kind = "unknown"]
    /\ checked' = FALSE
    /\ UNCHANGED <<cases, edges>>

\* check() at both levels: a refused history has no verdict.
Check ==
    /\ history # <<>>
    /\ ~checked
    /\ ~Refused(history)
    /\ cases' = CasesOf(Index(history))
    /\ checked' = TRUE
    /\ UNCHANGED <<history, edges>>

Ends(graph) == {e.from : e \in graph} \cup {e.to : e \in graph}

\* _cycle() and _nonadjacent() on a graph of its own.
SearchGraph ==
    /\ history = <<>>
    /\ ~checked
    /\ cases' = [kind \in Range(Anomalies) |->
                    IF kind \in CycleKinds THEN CycleOf(kind, Ends(edges), edges) ELSE NoCase]
    /\ checked' = TRUE
    /\ UNCHANGED <<history, edges>>

Next == Complete \/ Check \/ SearchGraph

Spec == Init /\ [][Next]_vars
---------------------------------------------------------------------------
(* What the levels mean.  A store maps a key to its items.                 *)

Perform(txn, store) ==
    LET Take(run, mop) ==
            CASE mop.function = "read" -> [run EXCEPT !.good = @ /\ run.store[mop.key] = mop.value.items]
              [] mop.function = "append" -> [run EXCEPT !.store[mop.key] = @ \o mop.value.items]
              [] OTHER -> [run EXCEPT !.store[mop.key] = mop.value.items]
    IN FoldLeft(Take, [store |-> store, good |-> TRUE], Mops(txn))

\* The store after transactions that run one after the other.
StoreAfter(h, order) ==
    LET RunNext(store, t) == Perform(h[t], store).store
    IN FoldLeft(RunNext, [key \in Index(h).keys |-> <<>>], order)

\* Whether the transaction at a position of the commit order read what the
\* first seen ones left, and no other one before it wrote a key of its own.
ReadsSnapshot(h, order, position, seen) ==
    LET txn == h[order[position]]
    IN /\ \A i \in (seen + 1)..(position - 1) :
              WrittenKeys(h[order[i]]) \cap WrittenKeys(txn) = {}
       /\ txn.kind = "ok" => Perform(txn, StoreAfter(h, SubSeq(order, 1, seen))).good

\* Whether an execution of the level produces a history: some of the
\* undecided transactions commit with the ok ones, in some order.
Explained(h, level) ==
    \E undecided \in SUBSET WithKind(h, {"unknown", "pending"}) :
        \E order \in SetToSeqs(WithKind(h, {"ok"}) \cup undecided) :
            \A i \in DOMAIN order :
                \E seen \in (IF level = "serializable" THEN i - 1 ELSE 0)..(i - 1) :
                    ReadsSnapshot(h, order, i, seen)

\* Whether the reads order all the committed appends of every key but one.
OrdersAll(a) ==
    Registers(a.txns) \/
    \A key \in a.keys :
        LET ranked == Ranked(a, key)
        IN Cardinality(Unobserved(a, key, IF ranked = <<>> THEN <<>> ELSE Last(ranked).items)) <= 1

\* Whether every read has the appends of a transaction in the order in which
\* the transaction made them.
KeepsOwnOrder(a) ==
    LET at(r, v) == CHOOSE i \in DOMAIN r.items : r.items[i] = v
        ps == a.productions
    IN \A r \in Range(a.reads), i, j \in DOMAIN ps :
           (/\ i < j /\ ps[i].call = ps[j].call
            /\ ps[i].key = r.key /\ ps[j].key = r.key
            /\ {ps[i].items[1], ps[j].items[1]} \subseteq Range(r.items)) =>
               at(r, ps[i].items[1]) < at(r, ps[j].items[1])

\* Whether the reads of a history show in which order its writes came: every
\* transaction that writes a register reads it first.
Reveals(a) ==
    IF Registers(a.txns)
    THEN \A t \in a.committed : WrittenKeys(a.txns[t]) \subseteq DOMAIN ExternalReads(a.txns[t])
    ELSE KeepsOwnOrder(a)

HasVerdict == checked /\ history # <<>>

\* A check never reports an anomaly of a history that an execution of its
\* level explains, whatever the reads miss; and it reports one of every history
\* that no serial order of the committed transactions explains, when the reads
\* reveal the order of its writes.
SerializableIsSerial ==
    HasVerdict =>
        /\ Explained(history, "serializable") => Passed(cases, "serializable")
        /\ Reveals(Index(history)) =>
               (Passed(cases, "serializable") => Explained(history, "serializable"))

\* RFC 0015 says of a list history that the check can miss an anomaly among
\* writes that no read observed: when every committed append is observed, a
\* history that passes has a serial order.
MissesOnlyTheUnobserved ==
    (/\ HasVerdict /\ ~Registers(history) /\ Passed(cases, "serializable")
     /\ LET a == Index(history)
        IN \A p \in Range(a.productions) :
               p.call \in a.committed =>
                   \E r \in Range(a.reads) : r.key = p.key /\ p.items[1] \in Range(r.items)) =>
        Explained(history, "serializable")

\* The same of snapshot isolation, where the reads order all the appends of a
\* list: of two appends that no read observed, the order is unknown.
SnapshotIsSnapshot ==
    HasVerdict =>
        /\ Explained(history, "snapshot-isolation") => Passed(cases, "snapshot-isolation")
        /\ (Reveals(Index(history)) /\ OrdersAll(Index(history))) =>
               (Passed(cases, "snapshot-isolation") => Explained(history, "snapshot-isolation"))

\* A reported cycle visits each transaction once, follows dependencies of the
\* relations it states, and is of its kind: this is what _simple() and the
\* used relations of a record have to keep.
CyclesAreOfTheirKind ==
    checked =>
        LET graph == IF history = <<>> THEN edges ELSE Dependencies(Index(history))
            next(cycle, i) == cycle[(i % Len(cycle)) + 1].node
        IN \A kind \in CycleKinds :
               LET cycle == cases[kind]
                   rws == {i \in DOMAIN cycle : cycle[i].used = {"rw"}}
               IN cycle # NoCase =>
                   /\ Len(cycle) > 1
                   /\ \A i, j \in DOMAIN cycle : cycle[i].node = cycle[j].node => i = j
                   /\ \A i \in DOMAIN cycle : Has(graph, cycle[i].node, next(cycle, i), cycle[i].used)
                   /\ CASE kind = "G0" -> \A i \in DOMAIN cycle : cycle[i].used = {"ww"}
                        [] kind = "G1c" -> /\ Has(graph, cycle[1].node, next(cycle, 1), {"wr"})
                                           /\ \A i \in DOMAIN cycle : cycle[i].used = NonRw
                        [] kind = "Gsingle" -> rws = {1} /\ \A i \in DOMAIN cycle \ rws : cycle[i].used = NonRw
                        [] kind = "Gnonadjacent" ->
                               /\ Cardinality(rws) > 1
                               /\ \A i \in rws : (i % Len(cycle)) + 1 \notin rws
                               /\ \A i \in DOMAIN cycle \ rws : cycle[i].used = NonRw
                        [] OTHER -> Has(graph, cycle[1].node, next(cycle, 1), {"rw"})

Pairs(graph, relations) == {<<e.from, e.to>> : e \in {f \in graph : f.relation \in relations}}

\* Whether steps, a set of pairs, lead around in a cycle: some of them have
\* always a next one.
Circular(steps) ==
    \E nodes \in SUBSET {p[1] : p \in steps} :
        nodes # {} /\ \A a \in nodes : \E b \in nodes : <<a, b>> \in steps

\* The searches find every cycle that a level forbids: a cycle without two
\* adjacent read-write edges is G0, G1c, G-single or G-nonadjacent, although
\* each search takes one shortest way and drops what does not fit, and every
\* other cycle is G2.
SearchesFindTheCycles ==
    (checked /\ history = <<>>) =>
        LET others == Pairs(edges, NonRw)
            composed == others \cup {pq \in Ends(edges) \X Ends(edges) :
                            \E b \in Ends(edges) :
                                <<pq[1], b>> \in others /\ <<b, pq[2]>> \in Pairs(edges, {"rw"})}
        IN /\ ~Passed(cases, "snapshot-isolation") <=> Circular(composed)
           /\ ~Passed(cases, "serializable") <=> Circular(Pairs(edges, Relations))

\* A history that failed keeps failing while its open transactions complete.
ViolationsPersist ==
    [][\A level \in Levels : ~Passed(cases, level) => ~Passed(cases', level)]_vars
===========================================================================

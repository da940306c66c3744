-------------------------- MODULE SchedulerProofs --------------------------
(***************************************************************************)
(* Proofs about Scheduler, for any tasks, conditions, strategies and       *)
(* limits: where the tasks are, that no wakeup is lost, what a sleeper     *)
(* reads, and that a lowered task runs last.                               *)
(***************************************************************************)
EXTENDS Scheduler, OrderingProofs

\* No task is twice in a list, and none in two of the three lists.
Apart(r, w, s) ==
    /\ IsInjective(r) /\ IsInjective(w) /\ IsInjective(s)
    /\ Range(r) \cap Range(w) = {}
    /\ Range(r) \cap Range(s) = {}
    /\ Range(w) \cap Range(s) = {}

\* A task that is listed has no turn, and one that is over neither.
Placed ==
    /\ Apart(ready, waiting, sleeping)
    /\ (Range(ready) \cup Range(waiting) \cup Range(sleeping)) \cap (over \cup {current}) = {}
    /\ current \notin over

\* The tasks that spawn() was given are those listed, on their turn or over.
NoneLost ==
    \A t \in Tasks : t \in spawned <=>
        \/ t \in Range(ready) \/ t \in Range(waiting) \/ t \in Range(sleeping)
        \/ t \in over \/ t = current

\* Every sleeper's deadline is to come, also at rest and within a turn.
DeadlinesToCome == \A t \in Range(sleeping) : now < deadline[t]

\* Between two turns, no waiter's condition is true.
WaitersUnmet == BetweenTurns => \A t \in Range(waiting) : condition[t] \notin flags

\* The clock has not passed the end of the advance that runs.
ClockBeforeEnd == running = "advance" => now <= end

\* The task of the latest change point is alone at the lowest level.
LoweredIsLowest ==
    /\ ~Pct => points = <<>>
    /\ lastLowered # NoTask => Pct /\ level[lastLowered] = lowest
    /\ \A t \in Tasks : lowest <= level[t] /\ (lastLowered \notin {t, NoTask} => lowest < level[t])

SInv == /\ TypeOK /\ Placed /\ NoneLost /\ DeadlinesToCome /\ WaitersUnmet
        /\ ClockBeforeEnd /\ LoweredIsLowest
---------------------------------------------------------------------------
(* A wake takes each sleeper that is due once, with its position. *)
LEMMA DueTaken ==
    ASSUME NEW s \in Seq(Tasks), deadline' \in [Tasks -> Nat], NEW time \in Nat
    PROVE  \E n \in Nat : \E at \in [1..n -> DOMAIN s] :
               /\ \A i \in 1..n : Due(s[at[i]], time)
               /\ \A p \in DOMAIN s : Due(s[p], time) => \E i \in 1..n : at[i] = p
               /\ \A i, j \in 1..n : at[i] = at[j] => i = j
               /\ DueSleepers(s, time) = [i \in 1..n |-> s[at[i]]]
<1> DEFINE P == {i \in DOMAIN s : Due(s[i], time)}
           Earlier(i, j) == \/ deadline'[s[i]] < deadline'[s[j]]
                            \/ deadline'[s[i]] = deadline'[s[j]] /\ i < j
           R == {p \in P \X P : Earlier(p[1], p[2])}
           n == Cardinality(P)
           at == [i \in 1..n |-> CHOOSE x \in P : Cardinality({y \in P : Earlier(y, x)}) = i - 1]
<1>1. /\ Len(s) \in Nat /\ DOMAIN s = 1..Len(s)
      /\ \A p \in DOMAIN s : p \in Int /\ deadline'[s[p]] \in Nat
  BY LenProperties
<1>2. IsFiniteSet(P)
  <2>1. P \in SUBSET (1..Len(s))
    BY <1>1
  <2>2. IsFiniteSet(1..Len(s))
    BY <1>1, FS_Interval
  <2> HIDE DEF P
  <2> QED
    BY <2>1, <2>2, FS_Subset
<1>3. \A x, y \in P : <<x, y>> \in R <=> Earlier(x, y)
  OBVIOUS
<1>4. StrictTotalOrder(R, P)
  <2>1. \A x \in P : x \in Int /\ deadline'[s[x]] \in Nat
    BY <1>1
  <2>2. /\ \A x \in P : ~Earlier(x, x)
        /\ \A x, y, z \in P : Earlier(x, y) /\ Earlier(y, z) => Earlier(x, z)
        /\ \A x, y \in P : x # y => Earlier(x, y) \/ Earlier(y, x)
    <3> HIDE DEF P
    <3> QED
      BY <2>1
  <2> HIDE DEF P, R, Earlier
  <2> QED
    BY <1>3, <2>2 DEF StrictTotalOrder
<1>5. \A x \in P : {y \in P : Earlier(y, x)} = SetLessThan(x, R, P)
  <2> HIDE DEF P, R, Earlier
  <2> QED
    BY <1>3 DEF SetLessThan
<1>6. DueSleepers(s, time) = [i \in DOMAIN at |-> s[at[i]]]
  BY DEF DueSleepers, Ascending
<1> HIDE DEF P, R, Earlier
<1>7. DOMAIN at = 1..n
  OBVIOUS
<1>8. ASSUME NEW i \in 1..n, NEW x \in P, Cardinality(SetLessThan(x, R, P)) = i - 1
      PROVE  at[i] \in P /\ Cardinality(SetLessThan(at[i], R, P)) = i - 1
  <2>1. Cardinality({y \in P : Earlier(y, x)}) = i - 1
    BY <1>5, <1>8
  <2>2. at[i] = CHOOSE z \in P : Cardinality({y \in P : Earlier(y, z)}) = i - 1
    OBVIOUS
  <2>3. at[i] \in P /\ Cardinality({y \in P : Earlier(y, at[i])}) = i - 1
    BY <2>1, <2>2
  <2> QED
    BY <1>5, <2>3
<1>9. DueSleepers(s, time) = [i \in 1..n |-> s[at[i]]]
  BY <1>6, <1>7
<1> HIDE DEF at
<1>10. Lists(at, R, P)
  BY <1>2, <1>4, <1>8, RanksListInOrder DEF n
<1>11. /\ n \in Nat
       /\ \A i \in 1..n : at[i] \in P
       /\ \A x \in P : \E i \in 1..n : at[i] = x
       /\ \A i, j \in 1..n : i < j <=> <<at[i], at[j]>> \in R
  BY <1>10 DEF Lists, n
<1> HIDE DEF n
<1> DEFINE f == [i \in 1..n |-> at[i]]
<1>12. /\ n \in Nat /\ f \in [1..n -> DOMAIN s]
       /\ \A i \in 1..n : Due(s[f[i]], time)
       /\ \A p \in DOMAIN s : Due(s[p], time) => \E i \in 1..n : f[i] = p
  BY <1>11 DEF P
<1>13. \A i, j \in 1..n : f[i] = f[j] => i = j
  <2> SUFFICES ASSUME NEW i \in 1..n, NEW j \in 1..n, at[i] = at[j]
               PROVE  i = j
    OBVIOUS
  <2>1. ~(i < j) /\ ~(j < i)
    BY <1>4, <1>11 DEF StrictTotalOrder
  <2> QED
    BY <2>1
<1>14. DueSleepers(s, time) = [i \in 1..n |-> s[f[i]]]
  BY <1>9
<1> HIDE DEF f
<1> USE <1>12
<1> WITNESS n \in Nat
<1> WITNESS f \in [1..n -> DOMAIN s]
<1> QED
  BY <1>12, <1>13, <1>14

(* The sleepers that a wake makes ready are those that are due, once each. *)
LEMMA DueSleepersAreDue ==
    ASSUME NEW s \in Seq(Tasks), deadline' \in [Tasks -> Nat], NEW time \in Nat
    PROVE  /\ DueSleepers(s, time) \in Seq(Tasks)
           /\ \A t : t \in Range(DueSleepers(s, time)) <=> t \in Range(s) /\ Due(t, time)
           /\ IsInjective(s) => IsInjective(DueSleepers(s, time))
<1>1. PICK n \in Nat : \E at \in [1..n -> DOMAIN s] :
          /\ \A i \in 1..n : Due(s[at[i]], time)
          /\ \A p \in DOMAIN s : Due(s[p], time) => \E i \in 1..n : at[i] = p
          /\ \A i, j \in 1..n : at[i] = at[j] => i = j
          /\ DueSleepers(s, time) = [i \in 1..n |-> s[at[i]]]
  BY DueTaken
<1>2. PICK at \in [1..n -> DOMAIN s] :
          /\ \A i \in 1..n : Due(s[at[i]], time)
          /\ \A p \in DOMAIN s : Due(s[p], time) => \E i \in 1..n : at[i] = p
          /\ \A i, j \in 1..n : at[i] = at[j] => i = j
          /\ DueSleepers(s, time) = [i \in 1..n |-> s[at[i]]]
  BY <1>1
<1>a. \A i, j \in 1..n : at[i] = at[j] => i = j
  BY <1>2
<1>c. PICK k : k = DueSleepers(s, time)
  OBVIOUS
<1>3. k \in [1..n -> Tasks] /\ \A i \in 1..n : k[i] = s[at[i]]
  BY <1>2, <1>c, LenProperties
<1>b. at \in [1..n -> DOMAIN s]
  OBVIOUS
<1>4. k \in Seq(Tasks)
  BY <1>3, SeqDef
<1>5. IsInjective(s) => IsInjective(k)
  BY <1>a, <1>b, <1>3 DEF IsInjective
<1>6. \A t : t \in Range(k) <=> \E i \in 1..n : s[at[i]] = t
  BY <1>3 DEF Range
<1>7. \A t : t \in Range(k) <=> t \in Range(s) /\ Due(t, time)
  <2>1. \A t : t \in Range(s) <=> \E p \in DOMAIN s : s[p] = t
    BY DEF Range
  <2> QED
    BY <1>2, <1>6, <2>1
<1> QED
  BY <1>4, <1>5, <1>7, <1>c
---------------------------------------------------------------------------
\* What a wake at a time does to lists r, w and s, whose conditions are c.
Moved(r, w, s, c, time) ==
    /\ ready' \in Seq(Tasks) /\ waiting' \in Seq(Tasks) /\ sleeping' \in Seq(Tasks)
    /\ condition' \in [Tasks -> Flags \cup {NoFlag}]
    /\ \A t \in Tasks : t \in Range(ready') <=>
           t \in Range(r) \/ (t \in Range(s) /\ Due(t, time)) \/ (t \in Range(w) /\ c[t] \in flags)
    /\ \A t \in Tasks : t \in Range(waiting') <=> t \in Range(w) /\ c[t] \notin flags
    /\ \A t \in Tasks : t \in Range(sleeping') <=> t \in Range(s) /\ ~Due(t, time)
    /\ \A t \in Range(waiting') : condition'[t] = c[t]
    /\ Apart(r, w, s) => Apart(ready', waiting', sleeping')

(* A wake makes ready exactly the sleepers that are due and the waiters
   whose condition is true, leaves the others where they are, and puts no
   task in two places. *)
LEMMA WakeMoves ==
    ASSUME NEW r \in Seq(Tasks), NEW w \in Seq(Tasks), NEW s \in Seq(Tasks),
           NEW c \in [Tasks -> Flags \cup {NoFlag}], NEW time \in Nat,
           deadline' \in [Tasks -> Nat], Wake(r, w, s, c, time)
    PROVE  Moved(r, w, s, c, time)
<1> DEFINE asleep == {t \in Tasks : ~Due(t, time)}
           met == {t \in Tasks : Met(c[t], r)}
           unmet == {t \in Tasks : ~Met(c[t], r)}
<1>a. PICK d : d = DueSleepers(s, time)
  OBVIOUS
<1>b. PICK a : a = Among(w, met)
  OBVIOUS
<1>1. /\ ready' = (r \o d) \o a
      /\ waiting' = Among(w, unmet)
      /\ sleeping' = Among(s, asleep)
      /\ condition' = [t \in Tasks |-> IF t \in Range(w) \cap met THEN NoFlag ELSE c[t]]
  BY <1>a, <1>b DEF Wake
<1>2. /\ d \in Seq(Tasks)
      /\ \A t : t \in Range(d) <=> t \in Range(s) /\ Due(t, time)
      /\ IsInjective(s) => IsInjective(d)
  BY <1>a, DueSleepersAreDue
<1>3. /\ a \in Seq(Tasks) /\ Range(a) = Range(w) \cap met
      /\ IsInjective(w) => IsInjective(a)
  BY <1>b, AmongKeeps
<1>4. /\ waiting' \in Seq(Tasks) /\ Range(waiting') = Range(w) \cap unmet
      /\ IsInjective(w) => IsInjective(waiting')
  BY <1>1, AmongKeeps
<1>5. /\ sleeping' \in Seq(Tasks) /\ Range(sleeping') = Range(s) \cap asleep
      /\ IsInjective(s) => IsInjective(sleeping')
  BY <1>1, AmongKeeps
<1>6. /\ r \o d \in Seq(Tasks) /\ Range(r \o d) = Range(r) \cup Range(d)
      /\ IsInjective(r \o d) <=> IsInjective(r) /\ IsInjective(d) /\ Range(r) \cap Range(d) = {}
  BY <1>2, JoinedEntries
<1>7. /\ ready' \in Seq(Tasks) /\ Range(ready') = Range(r \o d) \cup Range(a)
      /\ IsInjective(ready') <=>
             IsInjective(r \o d) /\ IsInjective(a) /\ Range(r \o d) \cap Range(a) = {}
  BY <1>1, <1>3, <1>6, JoinedEntries
<1>8. \A t \in Tasks :
          /\ t \in met <=> c[t] \in flags
          /\ t \in unmet <=> c[t] \notin flags
          /\ t \in asleep <=> ~Due(t, time)
  BY DEF Met
<1>9. Range(w) \subseteq Tasks /\ Range(s) \subseteq Tasks /\ Range(r) \subseteq Tasks
  BY RangeOfSeq
<1>10. condition' \in [Tasks -> Flags \cup {NoFlag}]
  BY <1>1
<1>11. \A t \in Range(waiting') : condition'[t] = c[t]
  BY <1>1, <1>4, <1>8, <1>9
<1> HIDE DEF met, unmet, asleep
<1>12. ASSUME Apart(r, w, s)
       PROVE  Apart(ready', waiting', sleeping')
  <2>1. IsInjective(r) /\ IsInjective(w) /\ IsInjective(s)
    BY <1>12 DEF Apart
  <2>2. \A t : ~(t \in Range(r) /\ t \in Range(w)) /\ ~(t \in Range(r) /\ t \in Range(s))
                /\ ~(t \in Range(w) /\ t \in Range(s))
    BY <1>12 DEF Apart
  <2>3. Range(r) \cap Range(d) = {} /\ Range(r \o d) \cap Range(a) = {}
    BY <1>2, <1>3, <1>6, <2>2
  <2>4. IsInjective(ready') /\ IsInjective(waiting') /\ IsInjective(sleeping')
    BY <1>2, <1>3, <1>4, <1>5, <1>6, <1>7, <2>1, <2>3
  <2>5. Range(ready') \cap Range(waiting') = {}
    BY <1>2, <1>3, <1>4, <1>6, <1>7, <1>8, <1>9, <2>2
  <2>6. Range(ready') \cap Range(sleeping') = {}
    BY <1>2, <1>3, <1>5, <1>6, <1>7, <1>8, <1>9, <2>2
  <2>7. Range(waiting') \cap Range(sleeping') = {}
    BY <1>4, <1>5, <2>2
  <2> QED
    BY <2>4, <2>5, <2>6, <2>7 DEF Apart
<1>13. \A t \in Tasks : t \in Range(ready') <=>
           t \in Range(r) \/ (t \in Range(s) /\ Due(t, time)) \/ (t \in Range(w) /\ c[t] \in flags)
  BY <1>2, <1>3, <1>6, <1>7, <1>8
<1>14. \A t \in Tasks :
           /\ t \in Range(waiting') <=> t \in Range(w) /\ c[t] \notin flags
           /\ t \in Range(sleeping') <=> t \in Range(s) /\ ~Due(t, time)
  BY <1>4, <1>5, <1>8
<1> QED
  BY <1>4, <1>5, <1>7, <1>10, <1>11, <1>12, <1>13, <1>14 DEF Moved
---------------------------------------------------------------------------
(* Taking one entry out of a sequence without repetition. *)
LEMMA RemovedEntry ==
    ASSUME NEW T, NEW s \in Seq(T), NEW i \in DOMAIN s, IsInjective(s)
    PROVE  /\ RemoveAt(s, i) \in Seq(T)
           /\ IsInjective(RemoveAt(s, i))
           /\ \A t : t \in Range(RemoveAt(s, i)) <=> t \in Range(s) /\ t # s[i]
<1> DEFINE a == SubSeq(s, 1, i - 1)
           b == SubSeq(s, i + 1, Len(s))
<1>1. Len(s) \in Nat /\ DOMAIN s = 1..Len(s) /\ \A j \in 1..Len(s) : s[j] \in T
  BY LenProperties
<1>2. a \in Seq(T) /\ DOMAIN a = 1..(i - 1) /\ \A j \in 1..(i - 1) : a[j] = s[j]
  <2>1. 1 \in Int /\ i - 1 \in Int /\ \A j \in 1..(i - 1) : s[j] \in T
    BY <1>1
  <2>2. /\ a \in Seq(T) /\ Len(a) = IF 1 <= i - 1 THEN i - 1 - 1 + 1 ELSE 0
        /\ \A j \in 1..(i - 1 - 1 + 1) : a[j] = s[1 + j - 1]
    BY <2>1, SubSeqProperties
  <2> HIDE DEF a
  <2>3. DOMAIN a = 1..Len(a)
    BY <2>2, LenProperties
  <2> QED
    BY <1>1, <2>2, <2>3
<1>3. b \in Seq(T) /\ DOMAIN b = 1..(Len(s) - i) /\ \A j \in 1..(Len(s) - i) : b[j] = s[i + j]
  <2>1. i + 1 \in Int /\ Len(s) \in Int /\ \A j \in (i + 1)..Len(s) : s[j] \in T
    BY <1>1
  <2>2. /\ b \in Seq(T) /\ Len(b) = IF i + 1 <= Len(s) THEN Len(s) - (i + 1) + 1 ELSE 0
        /\ \A j \in 1..(Len(s) - (i + 1) + 1) : b[j] = s[(i + 1) + j - 1]
    BY <2>1, SubSeqProperties
  <2> HIDE DEF b
  <2>3. DOMAIN b = 1..Len(b)
    BY <2>2, LenProperties
  <2> QED
    BY <1>1, <2>2, <2>3
<1>4. RemoveAt(s, i) = a \o b
  BY DEF RemoveAt
<1> HIDE DEF a, b
<1>5. IsInjective(a) /\ IsInjective(b)
  <2>1. IsInjective(a)
    BY <1>1, <1>2 DEF IsInjective
  <2>2. IsInjective(b)
    <3> SUFFICES ASSUME NEW j \in 1..(Len(s) - i), NEW k \in 1..(Len(s) - i), b[j] = b[k]
                 PROVE  j = k
      BY <1>3 DEF IsInjective
    <3>1. i + j \in DOMAIN s /\ i + k \in DOMAIN s /\ s[i + j] = s[i + k]
      BY <1>1, <1>3
    <3>2. i + j = i + k
      BY <3>1 DEF IsInjective
    <3> QED
      BY <1>1, <3>2
  <2> QED
    BY <2>1, <2>2
<1>6. \A t :
          /\ t \in Range(s) <=> \E j \in 1..Len(s) : s[j] = t
          /\ t \in Range(a) <=> \E j \in 1..(i - 1) : s[j] = t
          /\ t \in Range(b) <=> \E j \in 1..(Len(s) - i) : s[i + j] = t
  BY <1>1, <1>2, <1>3 DEF Range
<1>7. \A j, k \in 1..Len(s) : s[j] = s[k] => j = k
  BY <1>1 DEF IsInjective
<1>8. Range(a) \cap Range(b) = {}
  <2> SUFFICES ASSUME NEW t \in Range(a), t \in Range(b)
               PROVE  FALSE
    OBVIOUS
  <2>a. PICK j \in 1..(i - 1) : s[j] = t
    BY <1>6
  <2>b. PICK k \in 1..(Len(s) - i) : s[i + k] = t
    BY <1>6
  <2>1. j \in 1..Len(s) /\ i + k \in 1..Len(s) /\ j # i + k
    BY <1>1
  <2> QED
    BY <1>7, <2>a, <2>b, <2>1
<1>9. ASSUME NEW t
      PROVE  t \in Range(a) \cup Range(b) <=> t \in Range(s) /\ t # s[i]
  <2>1. ASSUME t \in Range(a) PROVE t \in Range(s) /\ t # s[i]
    <3>1. PICK j \in 1..(i - 1) : s[j] = t
      BY <1>6, <2>1
    <3>2. j \in 1..Len(s) /\ i \in 1..Len(s) /\ j # i
      BY <1>1
    <3> QED
      BY <1>6, <1>7, <3>1, <3>2
  <2>2. ASSUME t \in Range(b) PROVE t \in Range(s) /\ t # s[i]
    <3>1. PICK j \in 1..(Len(s) - i) : s[i + j] = t
      BY <1>6, <2>2
    <3>2. i + j \in 1..Len(s) /\ i \in 1..Len(s) /\ i + j # i
      BY <1>1
    <3> QED
      BY <1>6, <1>7, <3>1, <3>2
  <2>3. ASSUME t \in Range(s), t # s[i] PROVE t \in Range(a) \cup Range(b)
    <3>1. PICK j \in 1..Len(s) : s[j] = t
      BY <1>6, <2>3
    <3>2. CASE j < i
      <4>1. j \in 1..(i - 1)
        BY <1>1, <3>2
      <4> QED
        BY <1>6, <3>1, <4>1
    <3>3. CASE j > i
      <4>1. j - i \in 1..(Len(s) - i) /\ i + (j - i) = j
        BY <1>1, <3>3
      <4> QED
        BY <1>6, <3>1, <4>1
    <3> QED
      BY <1>1, <2>3, <3>1, <3>2, <3>3
  <2> QED
    BY <2>1, <2>2, <2>3
<1>10. /\ a \o b \in Seq(T) /\ Range(a \o b) = Range(a) \cup Range(b)
       /\ IsInjective(a \o b)
  BY <1>2, <1>3, <1>5, <1>8, JoinedEntries
<1> QED
  BY <1>4, <1>9, <1>10

(* The clock moves to the end time or to a deadline, whichever is first. *)
LEMMA NextInstantIsFirst ==
    ASSUME TypeOK
    PROVE  /\ NextInstant \in Nat
           /\ NextInstant <= end
           /\ \A t \in Range(sleeping) : NextInstant <= deadline[t]
           /\ NextInstant = end \/ \E t \in Range(sleeping) : NextInstant = deadline[t]
<1> DEFINE instants == {end} \cup {deadline[t] : t \in Range(sleeping)}
<1>1. instants \in SUBSET Nat /\ instants # {}
  <2>1. Range(sleeping) \subseteq Tasks
    BY RangeOfSeq DEF TypeOK
  <2> QED
    BY <2>1 DEF TypeOK
<1>2. NextInstant = CHOOSE x \in instants : \A y \in instants : x <= y
  BY DEF NextInstant, Min
<1>3. NextInstant \in instants /\ \A y \in instants : NextInstant <= y
  <2> HIDE DEF instants
  <2> QED
    BY <1>1, <1>2, LeastNumber
<1> QED
  BY <1>1, <1>3

(* A release passes a whole number of change points. *)
LEMMA PointsAtIsNat ==
    ASSUME TypeOK, NEW count
    PROVE  /\ PointsAt(count) \in Nat
           /\ points = <<>> => PointsAt(count) = 0
<1>1. Len(points) \in Nat /\ DOMAIN points = 1..Len(points)
  BY LenProperties DEF TypeOK
<1>2. {i \in DOMAIN points : points[i] = count} \in SUBSET (1..Len(points))
  BY <1>1
<1>3. IsFiniteSet(1..Len(points))
  BY <1>1, FS_Interval
<1>4. IsFiniteSet({i \in DOMAIN points : points[i] = count})
  BY <1>2, <1>3, FS_Subset
<1>5. PointsAt(count) \in Nat
  BY <1>4, FS_CardinalityType DEF PointsAt
<1>6. ASSUME points = <<>> PROVE PointsAt(count) = 0
  <2>1. {i \in DOMAIN points : points[i] = count} = {}
    BY <1>6
  <2> QED
    BY <2>1, FS_EmptySet DEF PointsAt
<1> QED
  BY <1>5, <1>6
---------------------------------------------------------------------------
\* A scheduler starts with no task.
LEMMA InitSInv == Init => SInv
<1> SUFFICES ASSUME Init PROVE SInv
  OBVIOUS
<1>1. Range(<<>>) = {} /\ IsInjective(<<>>)
  BY DEF Range, IsInjective
<1>2. TypeOK
  BY SchedulerAssumption DEF Init, TypeOK
<1>3. Placed
  BY <1>1 DEF Init, Placed, Apart
<1>4. DeadlinesToCome
  BY <1>1 DEF Init, DeadlinesToCome
<1>5. WaitersUnmet
  BY DEF Init, WaitersUnmet, BetweenTurns
<1>6. ClockBeforeEnd
  BY DEF Init, ClockBeforeEnd
<1>7. LoweredIsLowest
  BY DEF Init, LoweredIsLowest
<1>8. NoneLost
  BY <1>1, SchedulerAssumption DEF Init, NoneLost
<1> QED
  BY <1>2, <1>3, <1>4, <1>5, <1>6, <1>7, <1>8 DEF SInv

(* No list of a state of the invariant holds what is no task. *)
LEMMA ListedAreTasks ==
    ASSUME TypeOK
    PROVE  Range(ready) \subseteq Tasks /\ Range(waiting) \subseteq Tasks /\ Range(sleeping) \subseteq Tasks
  BY RangeOfSeq DEF TypeOK

\* spawn() makes a ready task of one that was not spawned.
LEMMA SpawnSInv ==
    ASSUME SInv, NEW t \in Tasks, Spawn(t)
    PROVE  SInv'
<1> USE DEF SInv
<1>1. /\ ready' = Append(ready, t)
      /\ UNCHANGED <<strategy, waiting, sleeping, over, level, deadline, condition, lowest,
                     run, current, now, flags, calls, lastLowered>>
      /\ t \notin spawned /\ spawned' = spawned \cup {t} /\ Acting
      /\ priority' \in [Tasks -> Priorities \cup {0}]
  <2>1. PICK p \in IF Pct THEN Priorities ELSE {0} : priority' = [priority EXCEPT ![t] = p]
    BY DEF Spawn
  <2>2. p \in Priorities \cup {0}
    BY <2>1
  <2>3. priority' \in [Tasks -> Priorities \cup {0}]
    BY <2>1, <2>2 DEF TypeOK
  <2> QED
    BY <2>3 DEF Spawn
<1>2. /\ ready' \in Seq(Tasks) /\ Range(ready') = Range(ready) \cup {t}
      /\ IsInjective(ready') <=> IsInjective(ready) /\ t \notin Range(ready)
  BY <1>1, AppendedEntry DEF TypeOK
<1>3. t # NoTask
  BY SchedulerAssumption
<1>4. TypeOK'
  BY <1>1, <1>2 DEF TypeOK, run, Pct
<1>5. Placed'
  BY <1>1, <1>2, <1>3 DEF Placed, NoneLost, Apart
<1>8. NoneLost'
  BY <1>1, <1>2 DEF NoneLost
<1>6. DeadlinesToCome' /\ ClockBeforeEnd' /\ LoweredIsLowest'
  BY <1>1 DEF DeadlinesToCome, ClockBeforeEnd, LoweredIsLowest, run, Pct
<1>7. WaitersUnmet'
  BY <1>1 DEF WaitersUnmet, BetweenTurns, Acting, AtRest, run
<1> QED
  BY <1>4, <1>5, <1>6, <1>7, <1>8

\* A subject may change a flag only on a turn, when waiters are not yet woken.
LEMMA ChangeSInv ==
    ASSUME SInv, NEW f \in Flags, Change(f)
    PROVE  SInv'
<1> USE DEF SInv
<1>1. /\ UNCHANGED <<strategy, ready, waiting, sleeping, over, priority, level, deadline, condition,
                     lowest, running, end, release, points, current, now, calls, spawned, lastLowered>>
      /\ flags' \subseteq Flags /\ Acting
  BY DEF Change, TypeOK, lists, fields, run
<1>2. TypeOK'
  BY <1>1 DEF TypeOK
<1>3. Placed' /\ NoneLost' /\ DeadlinesToCome' /\ ClockBeforeEnd' /\ LoweredIsLowest'
  BY <1>1 DEF Placed, Apart, NoneLost, DeadlinesToCome, ClockBeforeEnd, LoweredIsLowest, Pct
<1>4. WaitersUnmet'
  BY <1>1 DEF WaitersUnmet, BetweenTurns, Acting, AtRest
<1> QED
  BY <1>2, <1>3, <1>4
---------------------------------------------------------------------------
(* A wake that leaves the turns and the change points as they are keeps the
   invariant: lists r, w and s with conditions c are where the tasks were put
   before it.  It ends every turn, starts every call and follows every move
   of the clock. *)
LEMMA WakeSInv ==
    ASSUME SInv,
           NEW r \in Seq(Tasks), NEW w \in Seq(Tasks), NEW s \in Seq(Tasks),
           NEW c \in [Tasks -> Flags \cup {NoFlag}],
           Wake(r, w, s, c, now'), Apart(r, w, s),
           deadline' \in [Tasks -> Nat], now' \in Nat, end' \in Nat,
           running' \in {"no", "run", "advance"}, running' = "advance" => now' <= end',
           current' = NoTask, over' \subseteq Tasks,
           \A t \in Tasks : t \in Range(r) \cup Range(w) \cup Range(s) => t \notin over',
           \A t \in Tasks : t \in spawned <=> t \in Range(r) \cup Range(w) \cup Range(s) \cup over',
           release' \in 0..MaxReleases, points' \in Seq(Nat), ~Pct => points' = <<>>,
           UNCHANGED <<strategy, priority, level, lowest, flags, spawned, lastLowered>>
    PROVE  SInv'
<1> USE DEF SInv
<1>1. Moved(r, w, s, c, now')
  BY WakeMoves
<1>2. /\ Range(ready') \subseteq Tasks /\ Range(waiting') \subseteq Tasks /\ Range(sleeping') \subseteq Tasks
      /\ Apart(ready', waiting', sleeping')
  BY <1>1, RangeOfSeq DEF Moved
<1>3. TypeOK'
  BY <1>1 DEF TypeOK, Moved
<1>4. Placed'
  <2>1. \A t \in Tasks : t \in Range(ready') \cup Range(waiting') \cup Range(sleeping') => t \notin over'
    BY <1>1 DEF Moved
  <2>2. NoTask \notin Tasks /\ current' \notin over'
    BY SchedulerAssumption
  <2> QED
    BY <1>2, <2>1, <2>2 DEF Placed
<1>5. DeadlinesToCome'
  <2> SUFFICES ASSUME NEW t \in Range(sleeping')
               PROVE  now' < deadline'[t]
    BY DEF DeadlinesToCome
  <2>1. t \in Tasks /\ ~Due(t, now')
    BY <1>1, <1>2 DEF Moved
  <2> QED
    BY <2>1 DEF Due
<1>6. WaitersUnmet'
  BY <1>1, <1>2 DEF Moved, WaitersUnmet
<1>7. ClockBeforeEnd'
  BY DEF ClockBeforeEnd
<1>8. LoweredIsLowest'
  BY DEF LoweredIsLowest, Pct
<1>9. NoneLost'
  <2>1. \A t \in Tasks : t # current'
    BY SchedulerAssumption
  <2> QED
    BY <1>1, <2>1 DEF Moved, NoneLost
<1> QED
  BY <1>3, <1>4, <1>5, <1>6, <1>7, <1>8, <1>9

(* The end of a turn, from the lists that the turn leaves. *)
LEMMA EndTurnSInv ==
    ASSUME SInv, current # NoTask,
           NEW r \in Seq(Tasks), NEW w \in Seq(Tasks), NEW s \in Seq(Tasks),
           NEW c \in [Tasks -> Flags \cup {NoFlag}],
           EndTurn(r, w, s, c), Apart(r, w, s),
           deadline' \in [Tasks -> Nat], over' \subseteq Tasks,
           \A t \in Tasks : t \in Range(r) \cup Range(w) \cup Range(s) => t \notin over',
           \A t \in Tasks : t \in spawned <=> t \in Range(r) \cup Range(w) \cup Range(s) \cup over'
    PROVE  SInv'
<1>1. /\ Wake(r, w, s, c, now) /\ current' = NoTask
      /\ UNCHANGED <<strategy, priority, level, lowest, running, end, release, points, now, flags,
                     calls, spawned, lastLowered>>
  BY DEF EndTurn, run
<1>2. Wake(r, w, s, c, now')
  BY <1>1
<1>3. TypeOK /\ ClockBeforeEnd /\ (~Pct => points = <<>>)
  BY DEF SInv, LoweredIsLowest
<1>4. /\ now' \in Nat /\ end' \in Nat /\ running' \in {"no", "run", "advance"}
      /\ running' = "advance" => now' <= end'
      /\ release' \in 0..MaxReleases /\ points' \in Seq(Nat) /\ (~Pct => points' = <<>>)
  BY <1>1, <1>3 DEF TypeOK, ClockBeforeEnd
<1> QED
  BY <1>1, <1>2, <1>4, WakeSInv

(* The task that has its turn is in no list, and may enter any one. *)
LEMMA CurrentIsApart ==
    ASSUME SInv, current # NoTask
    PROVE  /\ current \in Tasks /\ current \notin over /\ Apart(ready, waiting, sleeping)
           /\ current \notin Range(ready) \cup Range(waiting) \cup Range(sleeping)
           /\ \A t \in Range(ready) \cup Range(waiting) \cup Range(sleeping) : t \notin over
           /\ \A t \in Tasks : t \in spawned <=>
                  t \in Range(ready) \cup Range(waiting) \cup Range(sleeping) \cup over \cup {current}
  BY DEF SInv, TypeOK, Placed, NoneLost

\* A turn that yields ends with the task ready.
LEMMA YieldsSInv ==
    ASSUME SInv, Yields
    PROVE  SInv'
<1>1. /\ current # NoTask /\ UNCHANGED <<deadline, over>>
      /\ EndTurn(Append(ready, current), waiting, sleeping, condition)
  BY DEF Yields
<1>2. TypeOK
  BY DEF SInv
<1>3. PICK r : r = Append(ready, current)
  OBVIOUS
<1>4. /\ r \in Seq(Tasks) /\ Range(r) = Range(ready) \cup {current}
      /\ IsInjective(r) <=> IsInjective(ready) /\ current \notin Range(ready)
  BY <1>1, <1>2, <1>3, CurrentIsApart, AppendedEntry DEF TypeOK
<1>5. /\ Apart(r, waiting, sleeping)
      /\ \A t \in Tasks : t \in Range(r) \cup Range(waiting) \cup Range(sleeping) => t \notin over'
      /\ \A t \in Tasks : t \in spawned <=> t \in Range(r) \cup Range(waiting) \cup Range(sleeping) \cup over'
  BY <1>1, <1>4, CurrentIsApart DEF Apart
<1>6. EndTurn(r, waiting, sleeping, condition)
  BY <1>1, <1>3
<1>7. /\ waiting \in Seq(Tasks) /\ sleeping \in Seq(Tasks)
      /\ condition \in [Tasks -> Flags \cup {NoFlag}]
      /\ deadline' \in [Tasks -> Nat] /\ over' \subseteq Tasks
  BY <1>1, <1>2 DEF TypeOK
<1> QED
  BY <1>1, <1>4, <1>5, <1>6, <1>7, EndTurnSInv

\* A turn that waits ends with the task ready or parked.
LEMMA WaitsSInv ==
    ASSUME SInv, NEW f \in Flags, Waits(f)
    PROVE  SInv'
<1>1. /\ current # NoTask /\ UNCHANGED <<deadline, over>>
      /\ EndTurn(ready, Append(waiting, current), sleeping, [condition EXCEPT ![current] = f])
  BY DEF Waits
<1>2. TypeOK
  BY DEF SInv
<1>3. PICK w : w = Append(waiting, current)
  OBVIOUS
<1>4. PICK c : c = [condition EXCEPT ![current] = f]
  OBVIOUS
<1>5. /\ w \in Seq(Tasks) /\ Range(w) = Range(waiting) \cup {current}
      /\ IsInjective(w) <=> IsInjective(waiting) /\ current \notin Range(waiting)
  BY <1>1, <1>2, <1>3, CurrentIsApart, AppendedEntry DEF TypeOK
<1>6. /\ Apart(ready, w, sleeping)
      /\ \A t \in Tasks : t \in Range(ready) \cup Range(w) \cup Range(sleeping) => t \notin over'
      /\ \A t \in Tasks : t \in spawned <=> t \in Range(ready) \cup Range(w) \cup Range(sleeping) \cup over'
  BY <1>1, <1>5, CurrentIsApart DEF Apart
<1>7. EndTurn(ready, w, sleeping, c)
  BY <1>1, <1>3, <1>4
<1>8. /\ ready \in Seq(Tasks) /\ sleeping \in Seq(Tasks)
      /\ c \in [Tasks -> Flags \cup {NoFlag}]
      /\ deadline' \in [Tasks -> Nat] /\ over' \subseteq Tasks
  BY <1>1, <1>2, <1>4 DEF TypeOK
<1> QED
  BY <1>1, <1>5, <1>6, <1>7, <1>8, EndTurnSInv

\* A turn that sleeps ends with the task asleep until its deadline.
LEMMA SleepsSInv ==
    ASSUME SInv, NEW n \in Durations, Sleeps(n)
    PROVE  SInv'
<1>1. /\ current # NoTask /\ n > 0 /\ UNCHANGED over
      /\ deadline' = [deadline EXCEPT ![current] = now + n]
      /\ EndTurn(ready, waiting, Append(sleeping, current), condition)
  BY DEF Sleeps
<1>2. TypeOK
  BY DEF SInv
<1>3. PICK s : s = Append(sleeping, current)
  OBVIOUS
<1>4. /\ s \in Seq(Tasks) /\ Range(s) = Range(sleeping) \cup {current}
      /\ IsInjective(s) <=> IsInjective(sleeping) /\ current \notin Range(sleeping)
  BY <1>1, <1>2, <1>3, CurrentIsApart, AppendedEntry DEF TypeOK
<1>5. /\ Apart(ready, waiting, s)
      /\ \A t \in Tasks : t \in Range(ready) \cup Range(waiting) \cup Range(s) => t \notin over'
      /\ \A t \in Tasks : t \in spawned <=> t \in Range(ready) \cup Range(waiting) \cup Range(s) \cup over'
  BY <1>1, <1>4, CurrentIsApart DEF Apart
<1>6. EndTurn(ready, waiting, s, condition)
  BY <1>1, <1>3
<1>7. deadline' \in [Tasks -> Nat]
  <2>1. now + n \in Nat
    BY <1>1, <1>2, SchedulerAssumption DEF TypeOK
  <2> QED
    BY <1>1, <1>2, <2>1 DEF TypeOK
<1>8. /\ ready \in Seq(Tasks) /\ waiting \in Seq(Tasks)
      /\ condition \in [Tasks -> Flags \cup {NoFlag}] /\ over' \subseteq Tasks
  BY <1>1, <1>2 DEF TypeOK
<1> QED
  BY <1>1, <1>4, <1>5, <1>6, <1>7, <1>8, EndTurnSInv

\* A turn that returns ends the task.
LEMMA ReturnsSInv ==
    ASSUME SInv, Returns
    PROVE  SInv'
<1>1. /\ current # NoTask /\ UNCHANGED deadline /\ over' = over \cup {current}
      /\ EndTurn(ready, waiting, sleeping, condition)
  BY DEF Returns
<1>2. TypeOK
  BY DEF SInv
<1>3. /\ Apart(ready, waiting, sleeping)
      /\ \A t \in Tasks : t \in Range(ready) \cup Range(waiting) \cup Range(sleeping) => t \notin over'
      /\ \A t \in Tasks : t \in spawned <=>
             t \in Range(ready) \cup Range(waiting) \cup Range(sleeping) \cup over'
  BY <1>1, CurrentIsApart
<1>4. /\ ready \in Seq(Tasks) /\ waiting \in Seq(Tasks) /\ sleeping \in Seq(Tasks)
      /\ condition \in [Tasks -> Flags \cup {NoFlag}]
      /\ deadline' \in [Tasks -> Nat] /\ over' \subseteq Tasks
  BY <1>1, <1>2, CurrentIsApart DEF TypeOK
<1> QED
  BY <1>1, <1>3, <1>4, EndTurnSInv

\* A turn that raises ends the task and the run.
LEMMA RaisesSInv ==
    ASSUME SInv, Raises
    PROVE  SInv'
<1> USE DEF SInv
<1>1. /\ current # NoTask /\ over' = over \cup {current} /\ current' = NoTask /\ running' = "no"
      /\ UNCHANGED <<strategy, ready, waiting, sleeping, priority, level, deadline, condition,
                     lowest, end, release, points, now, flags, spawned, lastLowered>>
  BY DEF Raises, lists, fields
<1>2. TypeOK'
  BY <1>1 DEF TypeOK
<1>3. Placed'
  <2>1. NoTask \notin Tasks
    BY SchedulerAssumption
  <2> QED
    BY <1>1, <2>1, CurrentIsApart, ListedAreTasks DEF Placed, Apart, TypeOK
<1>4. DeadlinesToCome' /\ ClockBeforeEnd' /\ LoweredIsLowest' /\ WaitersUnmet'
  BY <1>1 DEF DeadlinesToCome, ClockBeforeEnd, LoweredIsLowest, WaitersUnmet, BetweenTurns, Pct
<1>5. NoneLost'
  <2>1. NoTask \notin Tasks
    BY SchedulerAssumption
  <2> QED
    BY <1>1, <2>1 DEF NoneLost
<1> QED
  BY <1>2, <1>3, <1>4, <1>5
---------------------------------------------------------------------------
(* The lists at rest and between turns, as a wake finds them. *)
LEMMA NoTurnIsApart ==
    ASSUME SInv
    PROVE  /\ ready \in Seq(Tasks) /\ waiting \in Seq(Tasks) /\ sleeping \in Seq(Tasks)
           /\ condition \in [Tasks -> Flags \cup {NoFlag}]
           /\ Apart(ready, waiting, sleeping)
           /\ \A t \in Tasks : t \in Range(ready) \cup Range(waiting) \cup Range(sleeping) => t \notin over
           /\ current = NoTask => \A t \in Tasks : t \in spawned <=>
                  t \in Range(ready) \cup Range(waiting) \cup Range(sleeping) \cup over
  BY SchedulerAssumption DEF SInv, TypeOK, Placed, NoneLost

(* The change points of a run count releases; without Pct there is none. *)
LEMMA ChangePointsType ==
    ASSUME TypeOK, NEW p \in ChangePoints
    PROVE  p \in Seq(Nat) /\ (~Pct => p = <<>>)
<1>1. CASE ~Pct
  BY <1>1 DEF ChangePoints
<1>2. CASE Pct
  <2>1. p \in UNION {[1..n -> 0..(MaxReleases - 1)] : n \in 0..(strategy.depth - 1)}
    BY <1>2 DEF ChangePoints
  <2>2. PICK n \in 0..(strategy.depth - 1) : p \in [1..n -> 0..(MaxReleases - 1)]
    BY <2>1
  <2>3. n \in Nat /\ 0..(MaxReleases - 1) \subseteq Nat
    OBVIOUS
  <2>4. p \in [1..n -> Nat]
    BY <2>2, <2>3
  <2>5. p \in Seq(Nat)
    BY <2>3, <2>4, SeqDef
  <2> QED
    BY <1>2, <2>5
<1> QED
  BY <1>1, <1>2

\* run() and advance() start between two turns.
LEMMA StartsSInv ==
    ASSUME SInv, NEW call \in {"run", "advance"}, Starts(call), end' \in Nat,
           call = "advance" => now <= end'
    PROVE  SInv'
<1>1. /\ running' = call /\ release' = 0 /\ points' \in ChangePoints /\ AtRest
      /\ UNCHANGED <<strategy, over, priority, level, deadline, lowest, current, now, flags,
                     spawned, lastLowered>>
      /\ Wake(ready, waiting, sleeping, condition, now)
  BY DEF Starts
<1>2. TypeOK
  BY DEF SInv
<1>3. points' \in Seq(Nat) /\ (~Pct => points' = <<>>)
  BY <1>1, <1>2, ChangePointsType
<1>4. current' = NoTask
  BY <1>1, <1>2 DEF TypeOK, AtRest
<1>5. Wake(ready, waiting, sleeping, condition, now')
  BY <1>1
<1>6. /\ deadline' \in [Tasks -> Nat] /\ now' \in Nat /\ over' \subseteq Tasks
      /\ running' \in {"no", "run", "advance"} /\ (running' = "advance" => now' <= end')
      /\ release' \in 0..MaxReleases
  BY <1>1, <1>2, SchedulerAssumption DEF TypeOK
<1> QED
  BY <1>1, <1>3, <1>4, <1>5, <1>6, NoTurnIsApart, WakeSInv

\* run() leaves the end of the latest advance as it was.
LEMMA RunSInv ==
    ASSUME SInv, Run
    PROVE  SInv'
<1>1. Starts("run") /\ end' = end /\ end \in Nat
  BY DEF Run, SInv, TypeOK
<1> QED
  BY <1>1, StartsSInv

\* advance() starts with an end that is not before the clock.
LEMMA AdvanceSInv ==
    ASSUME SInv, NEW n \in Durations, Advance(n)
    PROVE  SInv'
<1>1. Starts("advance") /\ end' = now + Longest(n, 0) /\ now \in Nat
  BY DEF Advance, SInv, TypeOK
<1>2. Longest(n, 0) \in Nat
  BY SchedulerAssumption DEF Longest
<1> QED
  BY <1>1, <1>2, StartsSInv
---------------------------------------------------------------------------
\* What a release does, when it releases the task at position i.
Releases(i) ==
    /\ ready' = RemoveAt(ready, i) /\ current' = ready[i]
    /\ lowest' = Lowered(release)
    /\ level' = IF PointsAt(release) > 0 THEN [level EXCEPT ![ready[i]] = lowest'] ELSE level
    /\ lastLowered' = IF PointsAt(release) > 0 THEN ready[i] ELSE lastLowered
    /\ release' = release + 1
    /\ UNCHANGED <<strategy, waiting, sleeping, over, priority, deadline, condition,
                   running, end, points, now, flags, calls, spawned>>

\* A release is within the limit and gives the turn to a task the strategy allows.
LEMMA ReleaseReleases ==
    ASSUME TypeOK, Release
    PROVE  BetweenTurns /\ release # MaxReleases /\ \E i \in NextIndex : i \in DOMAIN ready /\ Releases(i)
<1>1. NextIndex \subseteq DOMAIN ready
  BY DEF NextIndex
<1> QED
  BY <1>1 DEF Release, Releases, AllReleased, Counted

\* A release gives the turn to one ready task.
LEMMA ReleaseSInv ==
    ASSUME SInv, Release
    PROVE  SInv'
<1>1. TypeOK /\ Placed
  BY DEF SInv
<1>2. PICK i \in NextIndex : i \in DOMAIN ready /\ Releases(i)
  BY <1>1, ReleaseReleases
<1>3. BetweenTurns /\ release # MaxReleases
  BY <1>1, ReleaseReleases
<1> DEFINE t == ready[i]
<1>4. t \in Tasks /\ t \in Range(ready) /\ t # NoTask
  BY <1>1, <1>2, ListedAreTasks, SchedulerAssumption DEF Range
<1> HIDE DEF t
<1>5. /\ ready' \in Seq(Tasks) /\ IsInjective(ready')
      /\ \A u : u \in Range(ready') <=> u \in Range(ready) /\ u # t
  <2>1. IsInjective(ready) /\ ready \in Seq(Tasks)
    BY <1>1 DEF Placed, Apart, TypeOK
  <2>2. ready' = RemoveAt(ready, i)
    BY <1>2 DEF Releases
  <2> QED
    BY <1>2, <2>1, <2>2, RemovedEntry DEF t
<1>6. /\ current' = t /\ release' = release + 1
      /\ lowest' = lowest - PointsAt(release)
      /\ level' = IF PointsAt(release) > 0 THEN [level EXCEPT ![t] = lowest'] ELSE level
      /\ lastLowered' = IF PointsAt(release) > 0 THEN t ELSE lastLowered
      /\ UNCHANGED <<strategy, waiting, sleeping, over, priority, deadline, condition,
                     running, end, points, now, flags, spawned>>
  BY <1>2 DEF Releases, Lowered, t
<1>7. PointsAt(release) \in Nat /\ (points = <<>> => PointsAt(release) = 0)
  BY <1>1, PointsAtIsNat
<1>8. TypeOK'
  <2>1. release' \in 0..MaxReleases
    BY <1>1, <1>3, <1>6, SchedulerAssumption DEF TypeOK
  <2>a. lowest' \in Int
    BY <1>1, <1>6, <1>7 DEF TypeOK
  <2>b. level \in [Tasks -> Int]
    BY <1>1 DEF TypeOK
  <2>2. lowest' \in Int /\ level' \in [Tasks -> Int]
    BY <1>6, <2>a, <2>b
  <2> QED
    BY <1>1, <1>3, <1>4, <1>5, <1>6, <2>1, <2>2 DEF TypeOK, BetweenTurns
<1>9. Placed'
  BY <1>1, <1>4, <1>5, <1>6 DEF Placed, Apart
<1>10. LoweredIsLowest'
  <2>1. LoweredIsLowest
    BY DEF SInv
  <2>2. CASE PointsAt(release) = 0
    BY <1>1, <1>6, <2>1, <2>2 DEF LoweredIsLowest, TypeOK, Pct
  <2>3. CASE PointsAt(release) > 0
    <3>1. Pct
      BY <1>7, <2>1, <2>3 DEF LoweredIsLowest
    <3>2. /\ lastLowered' = t /\ lowest' < lowest /\ lowest \in Int /\ lowest' \in Int
          /\ level' = [level EXCEPT ![t] = lowest']
      BY <1>1, <1>6, <1>7, <2>3 DEF TypeOK
    <3>3. \A u \in Tasks : level[u] \in Int /\ lowest <= level[u]
      BY <1>1, <2>1 DEF LoweredIsLowest, TypeOK
    <3>4. level'[t] = lowest' /\ \A u \in Tasks : u # t => level'[u] = level[u]
      BY <1>1, <1>4, <3>2 DEF TypeOK
    <3> QED
      BY <1>4, <1>6, <3>1, <3>2, <3>3, <3>4 DEF LoweredIsLowest, Pct
  <2> QED
    BY <1>7, <2>2, <2>3
<1>11. NoneLost'
  <2>1. NoneLost /\ current = NoTask /\ NoTask \notin Tasks
    BY <1>3, SchedulerAssumption DEF SInv, BetweenTurns
  <2> QED
    BY <1>4, <1>5, <1>6, <2>1 DEF NoneLost
<1>12. DeadlinesToCome' /\ ClockBeforeEnd'
  BY <1>6 DEF SInv, DeadlinesToCome, ClockBeforeEnd
<1>13. WaitersUnmet'
  BY <1>4, <1>6 DEF WaitersUnmet, BetweenTurns
<1> QED
  BY <1>8, <1>9, <1>10, <1>11, <1>12, <1>13 DEF SInv

\* The release past the limit ends the run.
LEMMA TooManyReleasesSInv ==
    ASSUME SInv, TooManyReleases
    PROVE  SInv'
<1> USE DEF SInv
<1>1. /\ over' = over \cup Range(ready) \cup Range(waiting) \cup Range(sleeping)
      /\ ready' = <<>> /\ waiting' = <<>> /\ sleeping' = <<>> /\ running' = "no"
      /\ UNCHANGED <<strategy, priority, level, deadline, condition, lowest, end, release, points,
                     current, now, flags, spawned, lastLowered>>
      /\ current = NoTask
  BY DEF TooManyReleases, fields, BetweenTurns
<1>2. Range(<<>>) = {} /\ IsInjective(<<>>)
  BY DEF Range, IsInjective
<1>3. TypeOK'
  BY <1>1, ListedAreTasks DEF TypeOK
<1>4. Placed'
  <2>1. NoTask \notin over'
    BY <1>1, ListedAreTasks, SchedulerAssumption DEF TypeOK
  <2> QED
    BY <1>1, <1>2, <2>1 DEF Placed, Apart
<1>5. DeadlinesToCome' /\ ClockBeforeEnd' /\ LoweredIsLowest' /\ WaitersUnmet'
  BY <1>1, <1>2 DEF DeadlinesToCome, ClockBeforeEnd, LoweredIsLowest, WaitersUnmet, BetweenTurns, Pct
<1>6. NoneLost'
  BY <1>1, <1>2 DEF NoneLost
<1> QED
  BY <1>3, <1>4, <1>5, <1>6

\* A run that has no task to release returns.
LEMMA RunReturnsSInv ==
    ASSUME SInv, RunReturns
    PROVE  SInv'
<1> USE DEF SInv
<1>1. /\ running' = "no"
      /\ UNCHANGED <<strategy, ready, waiting, sleeping, over, priority, level, deadline, condition,
                     lowest, end, release, points, current, now, flags, spawned, lastLowered>>
      /\ current = NoTask
  BY DEF RunReturns, lists, fields, BetweenTurns
<1>2. TypeOK'
  BY <1>1 DEF TypeOK
<1>3. Placed' /\ NoneLost' /\ DeadlinesToCome' /\ ClockBeforeEnd' /\ LoweredIsLowest' /\ WaitersUnmet'
  BY <1>1 DEF Placed, Apart, NoneLost, DeadlinesToCome, ClockBeforeEnd, LoweredIsLowest, WaitersUnmet,
              BetweenTurns, Pct
<1> QED
  BY <1>2, <1>3

(* A move of the clock stops at the first deadline, and goes no further
   than the end time. *)
LEMMA MoveClockMoves ==
    ASSUME SInv, MoveClock
    PROVE  /\ now' \in Nat /\ now' <= end /\ now <= now'
           /\ now' = end \/ now < now'
           /\ \A t \in Range(sleeping) : now' <= deadline[t]
<1>1. TypeOK /\ DeadlinesToCome /\ now' = NextInstant /\ now \in Nat /\ end \in Nat
  BY DEF SInv, MoveClock, TypeOK
<1>2. now <= end
  BY DEF SInv, MoveClock, ClockBeforeEnd
<1>3. NextInstant = end \/ now < NextInstant
  BY <1>1, NextInstantIsFirst DEF DeadlinesToCome
<1> QED
  BY <1>1, <1>2, <1>3, NextInstantIsFirst

\* The clock moves to the next deadline, and the sleepers of that time are ready.
LEMMA MoveClockSInv ==
    ASSUME SInv, MoveClock
    PROVE  SInv'
<1>1. /\ BetweenTurns /\ running = "advance"
      /\ UNCHANGED <<strategy, over, priority, level, deadline, lowest, end, release, points, current,
                     flags, spawned, lastLowered>>
      /\ Wake(ready, waiting, sleeping, condition, now')
      /\ running' = IF ready' = <<>> /\ now' = end THEN "no" ELSE "advance"
  BY DEF MoveClock
<1>2. TypeOK /\ (~Pct => points = <<>>)
  BY DEF SInv, LoweredIsLowest
<1>3. now' \in Nat /\ now' <= end'
  BY <1>1, MoveClockMoves
<1>4. /\ deadline' \in [Tasks -> Nat] /\ end' \in Nat /\ over' \subseteq Tasks
      /\ running' \in {"no", "run", "advance"}
      /\ release' \in 0..MaxReleases /\ points' \in Seq(Nat) /\ (~Pct => points' = <<>>)
      /\ current' = NoTask
      /\ \A t \in Tasks : t \in Range(ready) \cup Range(waiting) \cup Range(sleeping) => t \notin over'
      /\ \A t \in Tasks : t \in spawned <=>
             t \in Range(ready) \cup Range(waiting) \cup Range(sleeping) \cup over'
  BY <1>1, <1>2, NoTurnIsApart DEF TypeOK, BetweenTurns
<1> QED
  BY <1>1, <1>3, <1>4, NoTurnIsApart, WakeSInv
---------------------------------------------------------------------------
\* Every step keeps the invariant of the scheduler.
LEMMA NextSInv == SInv /\ [Next]_vars => SInv'
<1> SUFFICES ASSUME SInv, [Next]_vars PROVE SInv'
  OBVIOUS
<1>1. CASE Body
  BY <1>1, SpawnSInv, ChangeSInv DEF Body
<1>2. CASE Turn
  BY <1>2, YieldsSInv, WaitsSInv, SleepsSInv, ReturnsSInv, RaisesSInv DEF Turn
<1>3. CASE Loop
  BY <1>3, ReleaseSInv, TooManyReleasesSInv, RunReturnsSInv, MoveClockSInv DEF Loop
<1>4. CASE Run
  BY <1>4, RunSInv
<1>5. CASE \E n \in Durations : Advance(n)
  BY <1>5, AdvanceSInv
<1>6. CASE UNCHANGED vars
  <2>1. UNCHANGED <<strategy, ready, waiting, sleeping, over, priority, level, deadline, condition,
                   lowest, running, end, release, points, current, now, flags, calls, spawned,
                   lastLowered>>
    BY <1>6 DEF vars, lists, fields, run
  <2> QED
    BY <2>1 DEF SInv, TypeOK, Placed, Apart, NoneLost, DeadlinesToCome, WaitersUnmet, BetweenTurns,
                ClockBeforeEnd, LoweredIsLowest, Pct
<1> QED
  BY <1>1, <1>2, <1>3, <1>4, <1>5, <1>6 DEF Next

(* The invariant of the scheduler holds in every state. *)
THEOREM SchedulerInvariant == Spec => []SInv
<1>1. Init => SInv
  BY InitSInv
<1>2. SInv /\ [Next]_vars => SInv'
  BY NextSInv
<1> QED
  BY <1>1, <1>2, PTL DEF Spec

(* Every variable of the scheduler keeps its type; a release count never
   passes the option max_releases. *)
THEOREM TypeCorrect == Spec => []TypeOK
<1>1. SInv => TypeOK
  BY DEF SInv
<1> QED
  BY <1>1, SchedulerInvariant, PTL

(* Every task that spawn() was given is in one place: no wake, turn, failure
   or end of a run drops it, leaves it in two of the lists or twice in one,
   or lists it when it is over. *)
THEOREM OnePlaceEach == Spec => []EachTaskInOnePlace
<1>1. SInv => EachTaskInOnePlace
  <2> SUFFICES ASSUME SInv PROVE EachTaskInOnePlace
    OBVIOUS
  <2>1. TypeOK /\ Placed /\ Apart(ready, waiting, sleeping)
    BY DEF SInv, Placed
  <2>2. PICK turn : turn = IF current = NoTask THEN <<>> ELSE <<current>>
    OBVIOUS
  <2>3. /\ turn \in Seq(Tasks) /\ IsInjective(turn)
        /\ Range(turn) = {current} \ {NoTask}
    BY <2>1, <2>2 DEF TypeOK, IsInjective, Range
  <2>4. PICK a : a = ready \o waiting
    OBVIOUS
  <2>5. a \in Seq(Tasks) /\ Range(a) = Range(ready) \cup Range(waiting) /\ IsInjective(a)
    BY <2>1, <2>4, JoinedEntries DEF TypeOK, Apart
  <2>6. PICK b : b = a \o sleeping
    OBVIOUS
  <2>7. b \in Seq(Tasks) /\ Range(b) = Range(a) \cup Range(sleeping) /\ IsInjective(b)
    BY <2>1, <2>5, <2>6, JoinedEntries DEF TypeOK, Apart
  <2>8. PICK places : places = b \o turn
    OBVIOUS
  <2>9. Range(b) \cap Range(turn) = {} /\ (Range(b) \cup Range(turn)) \cap over = {}
    BY <2>1, <2>3, <2>5, <2>7 DEF Placed
  <2>10. Range(places) = Range(b) \cup Range(turn) /\ IsInjective(places)
    BY <2>3, <2>7, <2>8, <2>9, JoinedEntries
  <2>11. /\ \A i, j \in DOMAIN places : places[i] = places[j] => i = j
         /\ \A i \in DOMAIN places : places[i] \notin over
    BY <2>9, <2>10 DEF IsInjective, Range
  <2>12. spawned = Range(places) \cup over
    <3>1. Range(places) = Range(ready) \cup Range(waiting) \cup Range(sleeping) \cup ({current} \ {NoTask})
      BY <2>3, <2>5, <2>7, <2>10
    <3>2. spawned \subseteq Tasks /\ Range(places) \cup over \subseteq Tasks
      BY <2>1, <3>1, ListedAreTasks DEF TypeOK
    <3>3. NoneLost /\ NoTask \notin Tasks
      BY SchedulerAssumption DEF SInv
    <3>4. \A t \in Tasks : t \in spawned <=> t \in Range(places) \cup over
      BY <3>1, <3>3 DEF NoneLost
    <3> QED
      BY <3>2, <3>4
  <2> QED
    BY <2>1, <2>2, <2>4, <2>6, <2>8, <2>11, <2>12 DEF EachTaskInOnePlace
<1> QED
  BY <1>1, SchedulerInvariant, PTL

(* No wakeup is lost, whatever the turns change and however far the clock
   moves. *)
THEOREM WakeupsAreNotLost == Spec => []NoLostWakeup
<1>1. SInv => NoLostWakeup
  BY DEF SInv, WaitersUnmet, DeadlinesToCome, NoLostWakeup, NothingToWake
<1> QED
  BY <1>1, SchedulerInvariant, PTL
---------------------------------------------------------------------------
(* A wake at a time that no sleeper's deadline has reached takes no sleeper
   away. *)
LEMMA SleepersSleepOn ==
    ASSUME SInv,
           NEW r \in Seq(Tasks), NEW w \in Seq(Tasks), NEW s \in Seq(Tasks),
           NEW c \in [Tasks -> Flags \cup {NoFlag}],
           Wake(r, w, s, c, now), deadline' \in [Tasks -> Nat],
           Range(sleeping) \subseteq Range(s),
           \A t \in Range(sleeping) : deadline'[t] = deadline[t]
    PROVE  Range(sleeping) \subseteq Range(sleeping')
<1>1. now \in Nat /\ TypeOK /\ DeadlinesToCome
  BY DEF SInv, TypeOK
<1>2. Moved(r, w, s, c, now)
  BY <1>1, WakeMoves
<1>3. \A t \in Range(sleeping) : t \in Tasks /\ ~Due(t, now)
  <2> SUFFICES ASSUME NEW t \in Range(sleeping)
               PROVE  t \in Tasks /\ ~Due(t, now)
    OBVIOUS
  <2>1. t \in Tasks /\ now < deadline[t] /\ deadline[t] \in Nat
    BY <1>1, ListedAreTasks DEF DeadlinesToCome, TypeOK
  <2> QED
    BY <1>1, <2>1 DEF Due
<1> QED
  BY <1>2, <1>3 DEF Moved

\* The end of a turn leaves asleep whoever slept.
LEMMA TurnSleepsOn ==
    ASSUME SInv, Turn
    PROVE  now' = now /\ Range(sleeping) \subseteq Range(sleeping')
<1>1. TypeOK
  BY DEF SInv
<1>2. CASE Yields
  <2>1. PICK r : r = Append(ready, current)
    OBVIOUS
  <2>2. current # NoTask /\ Wake(r, waiting, sleeping, condition, now) /\ now' = now /\ deadline' = deadline
    BY <1>2, <2>1 DEF Yields, EndTurn
  <2>3. r \in Seq(Tasks)
    BY <1>1, <2>1, <2>2, CurrentIsApart, AppendedEntry DEF TypeOK
  <2>4. deadline' \in [Tasks -> Nat]
    BY <1>1, <2>2 DEF TypeOK
  <2> QED
    BY <2>2, <2>3, <2>4, NoTurnIsApart, SleepersSleepOn
<1>3. CASE \E f \in Flags : Waits(f)
  <2>1. PICK f \in Flags : Waits(f)
    BY <1>3
  <2>2. PICK w : w = Append(waiting, current)
    OBVIOUS
  <2>3. PICK c : c = [condition EXCEPT ![current] = f]
    OBVIOUS
  <2>4. current # NoTask /\ Wake(ready, w, sleeping, c, now) /\ now' = now /\ deadline' = deadline
    BY <2>1, <2>2, <2>3 DEF Waits, EndTurn
  <2>5. w \in Seq(Tasks)
    BY <1>1, <2>2, <2>4, CurrentIsApart, AppendedEntry DEF TypeOK
  <2>6. deadline' \in [Tasks -> Nat] /\ c \in [Tasks -> Flags \cup {NoFlag}]
    BY <1>1, <2>3, <2>4 DEF TypeOK
  <2> QED
    BY <2>4, <2>5, <2>6, NoTurnIsApart, SleepersSleepOn
<1>4. CASE \E n \in Durations : Sleeps(n)
  <2>1. PICK n \in Durations : Sleeps(n)
    BY <1>4
  <2>2. PICK s : s = Append(sleeping, current)
    OBVIOUS
  <2>3. /\ current # NoTask /\ Wake(ready, waiting, s, condition, now) /\ now' = now
        /\ deadline' = [deadline EXCEPT ![current] = now + n] /\ n > 0
    BY <2>1, <2>2 DEF Sleeps, EndTurn
  <2>4. s \in Seq(Tasks) /\ Range(sleeping) \subseteq Range(s)
    BY <1>1, <2>2, <2>3, CurrentIsApart, AppendedEntry DEF TypeOK
  <2>5. now + n \in Nat
    BY <1>1, <2>3, SchedulerAssumption DEF TypeOK
  <2>6. deadline' \in [Tasks -> Nat]
    BY <1>1, <2>3, <2>5 DEF TypeOK
  <2>7. \A t \in Range(sleeping) : deadline'[t] = deadline[t]
    BY <1>1, <2>3, CurrentIsApart, ListedAreTasks DEF TypeOK
  <2> QED
    BY <2>3, <2>4, <2>6, <2>7, NoTurnIsApart, SleepersSleepOn
<1>5. CASE Returns
  <2>1. Wake(ready, waiting, sleeping, condition, now) /\ now' = now /\ deadline' = deadline
    BY <1>5 DEF Returns, EndTurn
  <2>2. deadline' \in [Tasks -> Nat]
    BY <1>1, <2>1 DEF TypeOK
  <2> QED
    BY <2>1, <2>2, NoTurnIsApart, SleepersSleepOn
<1>6. CASE Raises
  BY <1>6 DEF Raises, lists
<1> QED
  BY <1>2, <1>3, <1>4, <1>5, <1>6 DEF Turn

\* The start of a run or an advance wakes no sleeper.
LEMMA StartsSleepsOn ==
    ASSUME SInv, NEW call, Starts(call)
    PROVE  now' = now /\ Range(sleeping) \subseteq Range(sleeping')
<1>1. Wake(ready, waiting, sleeping, condition, now) /\ now' = now /\ deadline' = deadline
  BY DEF Starts
<1>2. deadline' \in [Tasks -> Nat]
  BY <1>1 DEF SInv, TypeOK
<1> QED
  BY <1>1, <1>2, NoTurnIsApart, SleepersSleepOn

\* What a step may do with the sleepers and the clock.
SleepersRead ==
    /\ \A t \in Range(sleeping) \ Range(sleeping') : t \in Range(ready') => now' = deadline[t]
    /\ now' # now => ready = <<>> /\ now < now' /\ now' <= end

\* When the clock moves, the sleepers that wake are those of the new time.
LEMMA MoveClockRead ==
    ASSUME SInv, MoveClock
    PROVE  SleepersRead
<1>1. TypeOK /\ now' \in Nat /\ now \in Nat /\ end \in Nat
  BY MoveClockMoves DEF SInv, TypeOK
<1>2. ready = <<>> /\ deadline' = deadline /\ Wake(ready, waiting, sleeping, condition, now')
  BY DEF MoveClock
<1>3. now' # now => ready = <<>> /\ now < now' /\ now' <= end
  BY <1>1, <1>2, MoveClockMoves
<1>4. Moved(ready, waiting, sleeping, condition, now')
  BY <1>1, <1>2, NoTurnIsApart, WakeMoves DEF TypeOK
<1>5. ASSUME NEW t \in Range(sleeping) \ Range(sleeping')
      PROVE  now' = deadline[t]
  <2>1. t \in Tasks /\ deadline[t] \in Nat
    BY <1>1, ListedAreTasks DEF TypeOK
  <2>2. Due(t, now')
    BY <1>4, <2>1 DEF Moved
  <2>3. deadline[t] <= now'
    BY <1>2, <2>2 DEF Due
  <2>4. now' <= deadline[t]
    BY MoveClockMoves
  <2> QED
    BY <1>1, <2>1, <2>3, <2>4
<1> QED
  BY <1>3, <1>5 DEF SleepersRead

(* A sleeper is made ready at the very time of its deadline, and the clock
   moves only while no task is ready, forwards, and not past the end. *)
THEOREM SleepersOnTime == Spec => SleepersReadTheirDeadline
<1>1. SInv /\ [Next]_vars => [SleepersRead]_vars
  <2> SUFFICES ASSUME SInv, Next PROVE SleepersRead
    OBVIOUS
  <2>1. CASE Body
    BY <2>1 DEF Body, Spawn, Change, lists, SleepersRead
  <2>2. CASE Turn
    BY <2>2, TurnSleepsOn DEF SleepersRead
  <2>3. CASE Run \/ \E n \in Durations : Advance(n)
    BY <2>3, StartsSleepsOn DEF Run, Advance, SleepersRead
  <2>4. CASE MoveClock
    BY <2>4, MoveClockRead
  <2>5. CASE Release
    BY <2>5 DEF Release, SleepersRead
  <2>6. CASE RunReturns
    BY <2>6 DEF RunReturns, lists, SleepersRead
  <2>7. CASE TooManyReleases
    <3>1. Range(<<>>) = {}
      BY DEF Range
    <3> QED
      BY <2>7, <3>1 DEF TooManyReleases, SleepersRead
  <2> QED
    BY <2>1, <2>2, <2>3, <2>4, <2>5, <2>6, <2>7 DEF Next, Loop
<1> QED
  BY <1>1, SchedulerInvariant, PTL DEF Spec, SleepersReadTheirDeadline, SleepersRead
---------------------------------------------------------------------------
\* What a release may do with the task of the latest change point.
LoweredWaits ==
    current' # current /\ current' # NoTask /\ current' = lastLowered /\ PointsAt(release) = 0
        => ready = <<current'>>

\* A release gives the lowered task its turn only as the only ready task.
LEMMA ReleaseLoweredWaits ==
    ASSUME SInv, Release
    PROVE  LoweredWaits
<1> SUFFICES ASSUME current' # NoTask, current' = lastLowered
             PROVE  ready = <<current'>>
  BY DEF LoweredWaits
<1>1. TypeOK /\ Placed /\ LoweredIsLowest
  BY DEF SInv
<1>2. PICK i \in NextIndex : i \in DOMAIN ready /\ Releases(i)
  BY <1>1, ReleaseReleases
<1>3. current' = ready[i]
  BY <1>2 DEF Releases
<1>4. /\ Len(ready) \in Nat /\ DOMAIN ready = 1..Len(ready)
      /\ \A j \in DOMAIN ready : ready[j] \in Tasks
  BY <1>1, LenProperties DEF TypeOK
<1>5. Pct /\ level[ready[i]] = lowest
  BY <1>1, <1>3 DEF LoweredIsLowest
<1>6. \A j \in DOMAIN ready : ~Below(ready[i], ready[j])
  BY <1>2, <1>5 DEF NextIndex
<1>7. ASSUME NEW j \in DOMAIN ready, j # i
      PROVE  FALSE
  <2>1. ready[j] # ready[i]
    BY <1>1, <1>2, <1>7 DEF Placed, Apart, IsInjective
  <2>2. lowest < level[ready[j]]
    BY <1>1, <1>3, <1>4, <2>1 DEF LoweredIsLowest
  <2> QED
    BY <1>5, <1>6, <2>2 DEF Below
<1>8. Len(ready) = 1 /\ i = 1
  <2>1. 1 \in DOMAIN ready /\ Len(ready) \in DOMAIN ready
    BY <1>2, <1>4
  <2> QED
    BY <1>7, <2>1
<1>9. <<ready[1]>> \in Seq(Tasks) /\ Len(<<ready[1]>>) = 1 /\ <<ready[1]>>[1] = ready[1]
  BY <1>4, <1>8
<1> QED
  BY <1>1, <1>3, <1>8, <1>9, SeqEqual DEF TypeOK

(* A task that a change point lowered runs only when it is the only ready
   task, or is lowered once more. *)
THEOREM LoweredLast == Spec => LoweredRunsLast
<1>1. SInv /\ [Next]_vars => [LoweredWaits]_vars
  <2> SUFFICES ASSUME SInv, Next PROVE LoweredWaits
    OBVIOUS
  <2>1. CASE Release
    BY <2>1, ReleaseLoweredWaits
  <2>2. CASE Turn
    <3>1. current' = NoTask
      BY <2>2 DEF Turn, Yields, Waits, Sleeps, Returns, Raises, EndTurn
    <3> QED
      BY <3>1 DEF LoweredWaits
  <2>3. CASE Body \/ TooManyReleases \/ RunReturns \/ MoveClock \/ Run \/ \E n \in Durations : Advance(n)
    <3>1. current' = current
      BY <2>3 DEF Body, Spawn, Change, TooManyReleases, RunReturns, MoveClock, Run, Advance, Starts
    <3> QED
      BY <3>1 DEF LoweredWaits
  <2> QED
    BY <2>1, <2>2, <2>3 DEF Next, Loop
<1> QED
  BY <1>1, SchedulerInvariant, PTL DEF Spec, LoweredRunsLast, LoweredWaits
===========================================================================

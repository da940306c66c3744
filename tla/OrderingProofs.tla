-------------------------- MODULE OrderingProofs --------------------------
(***************************************************************************)
(* Lemmas about the operators of Ordering, for the proofs of the modules   *)
(* that sort.  Ascending takes an order as an operator, which no prover    *)
(* here can instantiate: its lemma takes the order as a set of pairs, and  *)
(* a use of it shows that the two are the same.  Below them are the lemmas *)
(* about lists and recursive functions that more than one module cites.    *)
(***************************************************************************)
EXTENDS Ordering, Integers, SequencesExt, FiniteSetTheorems, SequenceTheorems, TLAPS

\* R is a strict total order of S.
StrictTotalOrder(R, S) ==
    /\ \A x \in S : <<x, x>> \notin R
    /\ \A x, y, z \in S : <<x, y>> \in R /\ <<y, z>> \in R => <<x, z>> \in R
    /\ \A x, y \in S : x # y => <<x, y>> \in R \/ <<y, x>> \in R

\* at lists every member of S once, in the order of R.
Lists(at, R, S) ==
    /\ Cardinality(S) \in Nat
    /\ \A i \in 1..Cardinality(S) : at[i] \in S
    /\ \A x \in S : \E i \in 1..Cardinality(S) : at[i] = x
    /\ \A i, j \in 1..Cardinality(S) : i < j <=> <<at[i], at[j]>> \in R

(* Picking, for each rank, the member with that many members below it lists
   the members of a finite set in order: every rank is taken, and once.
   This is what Ascending does. *)
LEMMA RanksListInOrder ==
    ASSUME NEW S, IsFiniteSet(S), NEW R, StrictTotalOrder(R, S), NEW at,
           \A i \in 1..Cardinality(S) :
               (\E x \in S : Cardinality(SetLessThan(x, R, S)) = i - 1) =>
                   at[i] \in S /\ Cardinality(SetLessThan(at[i], R, S)) = i - 1
    PROVE  Lists(at, R, S)
<1> DEFINE n == Cardinality(S)
           rank == [x \in S |-> Cardinality(SetLessThan(x, R, S))]
<1>1. n \in Nat
  BY FS_CardinalityType
<1>2. ASSUME NEW x \in S
      PROVE  IsFiniteSet(SetLessThan(x, R, S)) /\ rank[x] \in 0..(n - 1)
  <2>1. SetLessThan(x, R, S) \in SUBSET S /\ SetLessThan(x, R, S) # S
    BY DEF SetLessThan, StrictTotalOrder
  <2>2. /\ IsFiniteSet(SetLessThan(x, R, S)) /\ rank[x] <= n /\ rank[x] # n
    BY <2>1, FS_Subset
  <2>3. rank[x] \in Nat
    BY <2>2, FS_CardinalityType
  <2> QED
    BY <1>1, <2>2, <2>3
<1>3. ASSUME NEW x \in S, NEW z \in S, <<x, z>> \in R
      PROVE  rank[x] < rank[z]
  <2>1. SetLessThan(x, R, S) \in SUBSET SetLessThan(z, R, S) /\ SetLessThan(x, R, S) # SetLessThan(z, R, S)
    BY <1>3 DEF SetLessThan, StrictTotalOrder
  <2>2. rank[x] <= rank[z] /\ rank[x] # rank[z]
    BY <1>2, <2>1, FS_Subset
  <2> QED
    BY <1>1, <1>2, <2>2
<1>a. rank \in [S -> 0..(n - 1)]
  BY <1>2
<1> HIDE DEF n, rank
<1>4. rank \in Injection(S, 0..(n - 1))
  <2>1. rank \in [S -> 0..(n - 1)]
    BY <1>a
  <2>2. ASSUME NEW x \in S, NEW z \in S, rank[x] = rank[z]
        PROVE  x = z
    <3>1. ~(rank[x] < rank[z]) /\ ~(rank[z] < rank[x])
      BY <1>1, <1>2, <2>2
    <3> QED
      BY <1>3, <3>1 DEF StrictTotalOrder
  <2> QED
    BY <2>1, <2>2 DEF Injection, IsInjective
<1>5. rank \in Surjection(S, 0..(n - 1))
  <2>1. IsFiniteSet(0..(n - 1)) /\ Cardinality(0..(n - 1)) = n
    BY <1>1, FS_Interval
  <2> QED
    BY <1>4, <2>1, FS_Injection DEF n
<1>6. ASSUME NEW i \in 1..n
      PROVE  at[i] \in S /\ rank[at[i]] = i - 1
  <2>1. i - 1 \in 0..(n - 1)
    BY <1>1
  <2>2. \E x \in S : rank[x] = i - 1
    BY <1>5, <2>1 DEF Surjection
  <2>3. \A x \in S : rank[x] = Cardinality(SetLessThan(x, R, S))
    BY DEF rank
  <2> QED
    BY <2>2, <2>3 DEF n
<1>7. \A x \in S : \E i \in 1..n : at[i] = x
  <2> SUFFICES ASSUME NEW x \in S
               PROVE  \E i \in 1..n : at[i] = x
    OBVIOUS
  <2> DEFINE i == rank[x] + 1
  <2>1. i \in 1..n /\ i - 1 = rank[x]
    BY <1>1, <1>2
  <2>2. at[i] \in S /\ rank[at[i]] = rank[x]
    BY <1>6, <2>1
  <2>3. at[i] = x
    BY <1>4, <2>2 DEF Injection, IsInjective
  <2> QED
    BY <2>1, <2>3
<1>8. ASSUME NEW i \in 1..n, NEW j \in 1..n
      PROVE  i < j <=> <<at[i], at[j]>> \in R
  <2>0. rank[at[i]] = i - 1 /\ rank[at[j]] = j - 1
    BY <1>6
  <2>1. rank[at[i]] < rank[at[j]] <=> i < j
    BY <1>1, <2>0
  <2>2. at[i] = at[j] \/ <<at[i], at[j]>> \in R \/ <<at[j], at[i]>> \in R
    BY <1>6 DEF StrictTotalOrder
  <2>3. <<at[j], at[i]>> \in R => rank[at[j]] < rank[at[i]]
    BY <1>3, <1>6
  <2>4. <<at[i], at[j]>> \in R => rank[at[i]] < rank[at[j]]
    BY <1>3, <1>6
  <2>5. ~(rank[at[i]] < rank[at[i]]) /\ ~(rank[at[i]] < rank[at[j]] /\ rank[at[j]] < rank[at[i]])
    BY <1>1, <2>0
  <2>6. <<at[i], at[i]>> \notin R
    BY <1>6 DEF StrictTotalOrder
  <2> QED
    BY <2>1, <2>2, <2>3, <2>4, <2>5, <2>6
<1> QED
  BY <1>1, <1>6, <1>7, <1>8 DEF Lists, n
---------------------------------------------------------------------------
(* The ascending order of whole numbers is theirs. *)
LEMMA AscendingNumbers ==
    ASSUME NEW S \in SUBSET Int, IsFiniteSet(S)
    PROVE  LET at == Ascending(S, <)
               n == Cardinality(S)
           IN /\ n \in Nat
              /\ DOMAIN at = 1..n
              /\ \A i \in 1..n : at[i] \in S
              /\ \A x \in S : \E i \in 1..n : at[i] = x
              /\ \A i, j \in 1..n : i < j <=> at[i] < at[j]
<1> DEFINE R == {p \in S \X S : p[1] < p[2]}
           at == Ascending(S, <)
<1>1. \A x, y \in S : <<x, y>> \in R <=> x < y
  OBVIOUS
<1>2. \A x \in S : {y \in S : y < x} = SetLessThan(x, R, S)
  BY <1>1 DEF SetLessThan
<1> HIDE DEF R
<1>3. StrictTotalOrder(R, S)
  BY <1>1 DEF StrictTotalOrder
<1>4. DOMAIN at = 1..Cardinality(S)
  BY DEF Ascending
<1>5. ASSUME NEW i \in 1..Cardinality(S), NEW x \in S, Cardinality(SetLessThan(x, R, S)) = i - 1
      PROVE  at[i] \in S /\ Cardinality(SetLessThan(at[i], R, S)) = i - 1
  <2>1. Cardinality({y \in S : y < x}) = i - 1
    BY <1>2, <1>5
  <2>2. at[i] = CHOOSE z \in S : Cardinality({y \in S : y < z}) = i - 1
    BY DEF Ascending
  <2>3. at[i] \in S /\ Cardinality({y \in S : y < at[i]}) = i - 1
    BY <2>1, <2>2
  <2> QED
    BY <1>2, <2>3
<1> HIDE DEF at
<1>6. Lists(at, R, S)
  BY <1>3, <1>5, RanksListInOrder
<1> QED
  BY <1>1, <1>4, <1>6 DEF Lists, at
---------------------------------------------------------------------------
(* Among takes the entries of s that are in the set, in their order. *)
LEMMA AmongTakes ==
    ASSUME NEW T, NEW s \in Seq(T), NEW set
    PROVE  \E n \in Nat : \E at \in [1..n -> DOMAIN s] :
               /\ \A i \in 1..n : s[at[i]] \in set
               /\ \A p \in DOMAIN s : s[p] \in set => \E i \in 1..n : at[i] = p
               /\ \A i, j \in 1..n : i < j <=> at[i] < at[j]
               /\ Among(s, set) = [i \in 1..n |-> s[at[i]]]
<1> DEFINE P == {i \in DOMAIN s : s[i] \in set}
           n == Cardinality(P)
<1>1. Len(s) \in Nat /\ DOMAIN s = 1..Len(s)
  BY LenProperties
<1>2. P \in SUBSET Int /\ IsFiniteSet(P)
  <2>1. P \in SUBSET (1..Len(s))
    BY <1>1
  <2>2. IsFiniteSet(1..Len(s))
    BY <1>1, FS_Interval
  <2> HIDE DEF P
  <2>3. IsFiniteSet(P)
    BY <2>1, <2>2, FS_Subset
  <2> QED
    BY <1>1, <2>1, <2>3
<1> DEFINE at == Ascending(P, <)
<1>3. /\ n \in Nat
      /\ DOMAIN at = 1..n
      /\ \A i \in 1..n : at[i] \in P
      /\ \A x \in P : \E i \in 1..n : at[i] = x
      /\ \A i, j \in 1..n : i < j <=> at[i] < at[j]
  <2> HIDE DEF P
  <2> QED
    BY <1>2, AscendingNumbers
<1>4. Among(s, set) = [i \in DOMAIN at |-> s[at[i]]]
  BY DEF Among
<1> HIDE DEF at, n, P
<1> DEFINE f == [i \in 1..n |-> at[i]]
<1>5. /\ f \in [1..n -> DOMAIN s]
      /\ \A i \in 1..n : f[i] \in P /\ s[f[i]] \in set
      /\ \A p \in DOMAIN s : s[p] \in set => \E i \in 1..n : f[i] = p
      /\ \A i, j \in 1..n : i < j <=> f[i] < f[j]
  BY <1>3 DEF P
<1>6. Among(s, set) = [i \in 1..n |-> s[f[i]]]
  BY <1>3, <1>4
<1>7. n \in Nat /\ f \in [1..n -> DOMAIN s]
  BY <1>3, <1>5
<1> HIDE DEF f
<1> USE <1>7
<1> WITNESS n \in Nat
<1> WITNESS f \in [1..n -> DOMAIN s]
<1> QED
  BY <1>5, <1>6

(* Among keeps the entries that are in the set, each as often as before. *)
LEMMA AmongKeeps ==
    ASSUME NEW T, NEW s \in Seq(T), NEW set
    PROVE  /\ Among(s, set) \in Seq(T)
           /\ Range(Among(s, set)) = Range(s) \cap set
           /\ IsInjective(s) => IsInjective(Among(s, set))
<1>1. PICK n \in Nat : \E at \in [1..n -> DOMAIN s] :
          /\ \A i \in 1..n : s[at[i]] \in set
          /\ \A p \in DOMAIN s : s[p] \in set => \E i \in 1..n : at[i] = p
          /\ \A i, j \in 1..n : i < j <=> at[i] < at[j]
          /\ Among(s, set) = [i \in 1..n |-> s[at[i]]]
  BY AmongTakes
<1>2. PICK at \in [1..n -> DOMAIN s] :
          /\ \A i \in 1..n : s[at[i]] \in set
          /\ \A p \in DOMAIN s : s[p] \in set => \E i \in 1..n : at[i] = p
          /\ \A i, j \in 1..n : i < j <=> at[i] < at[j]
          /\ Among(s, set) = [i \in 1..n |-> s[at[i]]]
  BY <1>1
<1>3. DOMAIN s \subseteq Int
  BY LenProperties
<1>4. \A i, j \in 1..n : at[i] = at[j] => i = j
  <2> SUFFICES ASSUME NEW i \in 1..n, NEW j \in 1..n, at[i] = at[j]
               PROVE  i = j
    OBVIOUS
  <2>1. at[i] \in Int /\ at[j] \in Int
    BY <1>2, <1>3
  <2>2. ~(i < j) /\ ~(j < i)
    BY <1>2, <2>1
  <2> QED
    BY <2>2
<1>5. at \in [1..n -> DOMAIN s]
  OBVIOUS
<1> DEFINE k == Among(s, set)
<1>6. k \in [1..n -> T] /\ \A i \in 1..n : k[i] = s[at[i]]
  BY <1>2, <1>5, LenProperties
<1> HIDE DEF k
<1>7. k \in Seq(T)
  BY <1>6, SeqDef
<1>8. IsInjective(s) => IsInjective(k)
  BY <1>4, <1>5, <1>6 DEF IsInjective
<1>9. \A e : e \in Range(k) <=> \E i \in 1..n : s[at[i]] = e
  BY <1>6 DEF Range
<1>10. Range(k) = Range(s) \cap set
  <2>1. \A e : e \in Range(s) <=> \E p \in DOMAIN s : s[p] = e
    BY DEF Range
  <2> QED
    BY <1>2, <1>9, <2>1
<1> QED
  BY <1>7, <1>8, <1>10 DEF k

(* Joining two sequences joins their entries; none is repeated when none
   was in both. *)
LEMMA JoinedEntries ==
    ASSUME NEW T, NEW s \in Seq(T), NEW t \in Seq(T)
    PROVE  /\ s \o t \in Seq(T)
           /\ Range(s \o t) = Range(s) \cup Range(t)
           /\ IsInjective(s \o t) <=>
                  IsInjective(s) /\ IsInjective(t) /\ Range(s) \cap Range(t) = {}
<1>1. s \o t \in Seq(T) /\ Range(s \o t) = Range(s) \cup Range(t)
  BY ConcatProperties, RangeConcatenation
<1>2. /\ Len(s) \in Nat /\ DOMAIN s = 1..Len(s)
      /\ Len(t) \in Nat /\ DOMAIN t = 1..Len(t)
      /\ DOMAIN (s \o t) = 1..(Len(s) + Len(t))
  BY <1>1, LenProperties, ConcatProperties
<1>3. /\ \A i \in 1..Len(s) : (s \o t)[i] = s[i]
      /\ \A i \in 1..Len(t) : (s \o t)[i + Len(s)] = t[i]
      /\ \A i \in 1..(Len(s) + Len(t)) : i \in 1..Len(s) \/ i - Len(s) \in 1..Len(t)
  BY <1>2, ConcatProperties
<1>4. ASSUME IsInjective(s \o t)
      PROVE  IsInjective(s) /\ IsInjective(t) /\ Range(s) \cap Range(t) = {}
  <2>1. IsInjective(s)
    BY <1>2, <1>3, <1>4 DEF IsInjective
  <2>2. IsInjective(t)
    <3> SUFFICES ASSUME NEW i \in 1..Len(t), NEW j \in 1..Len(t), t[i] = t[j]
                 PROVE  i = j
      BY <1>2 DEF IsInjective
    <3>1. (s \o t)[i + Len(s)] = (s \o t)[j + Len(s)]
      BY <1>3
    <3>2. i + Len(s) \in DOMAIN (s \o t) /\ j + Len(s) \in DOMAIN (s \o t)
      BY <1>2
    <3> QED
      BY <1>2, <1>4, <3>1, <3>2 DEF IsInjective
  <2>3. Range(s) \cap Range(t) = {}
    <3> SUFFICES ASSUME NEW i \in 1..Len(s), NEW j \in 1..Len(t), s[i] = t[j]
                 PROVE  FALSE
      BY <1>2 DEF Range
    <3>1. (s \o t)[i] = (s \o t)[j + Len(s)]
      BY <1>3
    <3>2. i \in DOMAIN (s \o t) /\ j + Len(s) \in DOMAIN (s \o t) /\ i # j + Len(s)
      BY <1>2
    <3> QED
      BY <1>4, <3>1, <3>2 DEF IsInjective
  <2> QED
    BY <2>1, <2>2, <2>3
<1>5. ASSUME IsInjective(s), IsInjective(t), Range(s) \cap Range(t) = {}
      PROVE  IsInjective(s \o t)
  <2> SUFFICES ASSUME NEW i \in 1..(Len(s) + Len(t)), NEW j \in 1..(Len(s) + Len(t)),
                      (s \o t)[i] = (s \o t)[j]
               PROVE  i = j
    BY <1>2 DEF IsInjective
  <2>1. \A k \in 1..Len(s), m \in 1..Len(t) : s[k] # t[m]
    BY <1>2, <1>5 DEF Range
  <2>2. \A k \in 1..(Len(s) + Len(t)) :
            (s \o t)[k] = IF k <= Len(s) THEN s[k] ELSE t[k - Len(s)]
    BY ConcatProperties
  <2>3. CASE i <= Len(s) /\ j <= Len(s)
    BY <1>2, <1>5, <2>2, <2>3 DEF IsInjective
  <2>4. CASE i > Len(s) /\ j > Len(s)
    <3>1. t[i - Len(s)] = t[j - Len(s)]
      BY <1>2, <2>2, <2>4
    <3>2. i - Len(s) \in DOMAIN t /\ j - Len(s) \in DOMAIN t
      BY <1>2, <2>4
    <3> QED
      BY <1>2, <1>5, <3>1, <3>2 DEF IsInjective
  <2>5. CASE i <= Len(s) /\ j > Len(s)
    BY <1>2, <2>1, <2>2, <2>5
  <2>6. CASE i > Len(s) /\ j <= Len(s)
    BY <1>2, <2>1, <2>2, <2>6
  <2> QED
    BY <1>2, <2>3, <2>4, <2>5, <2>6
<1> QED
  BY <1>1, <1>4, <1>5

(* Appending one entry. *)
LEMMA AppendedEntry ==
    ASSUME NEW T, NEW s \in Seq(T), NEW e \in T
    PROVE  /\ Append(s, e) \in Seq(T)
           /\ Range(Append(s, e)) = Range(s) \cup {e}
           /\ IsInjective(Append(s, e)) <=> IsInjective(s) /\ e \notin Range(s)
<1>1. <<e>> \in Seq(T) /\ Range(<<e>>) = {e} /\ IsInjective(<<e>>)
  BY DEF Range, IsInjective
<1>2. Append(s, e) = s \o <<e>>
  BY AppendIsConcat
<1>3. /\ s \o <<e>> \in Seq(T)
      /\ Range(s \o <<e>>) = Range(s) \cup Range(<<e>>)
      /\ IsInjective(s \o <<e>>) <=>
             IsInjective(s) /\ IsInjective(<<e>>) /\ Range(s) \cap Range(<<e>>) = {}
  BY <1>1, JoinedEntries
<1> QED
  BY <1>1, <1>2, <1>3

(* Every set of natural numbers but the empty one has a least member. *)
LEMMA LeastNumber ==
    ASSUME NEW S \in SUBSET Nat, S # {}
    PROVE  \E x \in S : \A y \in S : x <= y
<1>1. PICK x \in S : \A y \in S : <<y, x>> \notin OpToRel(<, Nat)
  BY NatLessThanWellFounded, WFMin
<1>2. \A y \in S : ~(y < x)
  BY <1>1 DEF OpToRel
<1> QED
  BY <1>2

\* The least of some numbers is one of them.
LEMMA MinIs ==
    ASSUME NEW S \in SUBSET Nat, S # {}
    PROVE  Min(S) \in S /\ \A y \in S : Min(S) <= y
<1>1. \E x \in S : \A y \in S : x <= y
  BY LeastNumber
<1> QED BY <1>1 DEF Min

(* Induction over a set: a set that has 0 and, with each number below n, the *)
(* next one, has all of 0..n.                                                *)
LEMMA NumbersIn ==
    ASSUME NEW n \in Nat, NEW P, 0 \in P, \A k \in 0..(n - 1) : k \in P => k + 1 \in P
    PROVE  \A k \in 0..n : k \in P
<1> DEFINE Q == {k \in 0..n : k \notin P}
<1> SUFFICES ASSUME Q # {} PROVE FALSE
  OBVIOUS
<1>1. PICK k \in Q : \A j \in Q : k <= j
  <2>1. Q \in SUBSET Nat
    OBVIOUS
  <2> HIDE DEF Q
  <2> QED BY <2>1, LeastNumber
<1>2. k \in 0..n /\ k # 0 /\ k - 1 \in 0..(n - 1) /\ k - 1 \notin Q
  BY <1>1
<1> QED BY <1>1, <1>2
---------------------------------------------------------------------------
(* Lists: sequences of any values.                                         *)

\* A sequence, of whatever values.
Listed(s) == s \in Seq(Held(s))

\* What a list holds, and how many.
LEMMA ListedFacts ==
    ASSUME NEW s, Listed(s)
    PROVE  /\ Len(s) \in Nat /\ DOMAIN s = 1..Len(s)
           /\ \A i \in 1..Len(s) : s[i] \in Held(s)
           /\ \A x \in Held(s) : \E i \in 1..Len(s) : s[i] = x
           /\ s = <<>> <=> Len(s) = 0
           /\ s = <<>> <=> Held(s) = {}
<1>1. Len(s) \in Nat /\ DOMAIN s = 1..Len(s) /\ (s = <<>> <=> Len(s) = 0)
  BY DEF Listed
<1> QED BY <1>1 DEF Held

\* What is in a list of members of a set.
LEMMA ListedFrom ==
    ASSUME NEW T, NEW s \in Seq(T)
    PROVE  Listed(s)
<1>1. Len(s) \in Nat /\ s = [i \in 1..Len(s) |-> s[i]]
  OBVIOUS
<1>2. s \in [1..Len(s) -> Held(s)]
  BY <1>1 DEF Held
<1> QED BY <1>1, <1>2, SeqDef DEF Listed

\* A function on 1..n is a list.
LEMMA ListedFunction ==
    ASSUME NEW n \in Nat, NEW s, s = [i \in 1..n |-> s[i]]
    PROVE  Listed(s) /\ Len(s) = n
<1>1. s \in [1..n -> Held(s)]
  BY DEF Held
<1>2. s \in Seq(Held(s))
  BY <1>1, SeqDef
<1>3. DOMAIN s = 1..n /\ Len(s) \in Nat /\ DOMAIN s = 1..Len(s)
  BY <1>1, <1>2
<1> QED BY <1>2, <1>3 DEF Listed

\* A list with one more entry.
LEMMA ListedAppend ==
    ASSUME NEW s, NEW e, Listed(s)
    PROVE  LET t == Append(s, e)
           IN /\ Listed(t) /\ Len(t) = Len(s) + 1
              /\ t[Len(s) + 1] = e
              /\ \A i \in 1..Len(s) : t[i] = s[i]
              /\ Held(t) = Held(s) \cup {e}
<1> DEFINE t == Append(s, e)
           T == Held(s) \cup {e}
<1>1. s \in Seq(T) /\ e \in T
  BY DEF Listed
<1> HIDE DEF T
<1>2. /\ t \in Seq(T) /\ Len(s) \in Nat /\ Len(t) = Len(s) + 1 /\ t[Len(s) + 1] = e
      /\ \A i \in 1..Len(s) : t[i] = s[i]
      /\ DOMAIN t = 1..(Len(s) + 1) /\ DOMAIN s = 1..Len(s)
  BY <1>1
<1> HIDE DEF t
<1>3. Listed(t)
  BY <1>2, ListedFrom
<1>4. Held(t) = Held(s) \cup {e}
  <2>1. ASSUME NEW x \in Held(s) PROVE x \in Held(t)
    BY <1>2 DEF Held
  <2>2. e \in Held(t)
    BY <1>2 DEF Held
  <2>3. ASSUME NEW x \in Held(t) PROVE x \in Held(s) \cup {e}
    <3>1. PICK i \in 1..(Len(s) + 1) : t[i] = x
      BY <1>2 DEF Held
    <3>2. CASE i = Len(s) + 1
      BY <1>2, <3>1, <3>2
    <3>3. CASE i # Len(s) + 1
      <4>1. i \in 1..Len(s)
        BY <1>2, <3>3
      <4> QED BY <1>2, <3>1, <4>1 DEF Held
    <3> QED BY <3>2, <3>3
  <2> QED BY <2>1, <2>2, <2>3
<1> QED BY <1>2, <1>3, <1>4 DEF t

\* A list without its last entry.
LEMMA ListedFront ==
    ASSUME NEW s, Listed(s), s # <<>>
    PROVE  LET t == Front(s)
           IN /\ Listed(t) /\ Len(t) = Len(s) - 1
              /\ \A i \in 1..(Len(s) - 1) : t[i] = s[i]
              /\ Last(s) = s[Len(s)] /\ Len(s) \in Nat \ {0}
<1> DEFINE t == Front(s)
<1>1. Len(s) \in Nat \ {0} /\ Len(s) - 1 \in Nat
  BY ListedFacts
<1>2. t = [i \in 1..(Len(s) - 1) |-> s[i]]
  BY DEF Front
<1> HIDE DEF t
<1>3. Listed(t) /\ Len(t) = Len(s) - 1
  BY <1>1, <1>2, ListedFunction
<1> QED BY <1>1, <1>2, <1>3 DEF t, Last

\* Two lists end to end.
LEMMA ListedJoin ==
    ASSUME NEW s, NEW t, Listed(s), Listed(t)
    PROVE  Listed(s \o t) /\ Held(s \o t) = Held(s) \cup Held(t)
<1> DEFINE T == Held(s) \cup Held(t)
<1>1. s \in Seq(T) /\ t \in Seq(T)
  BY DEF Listed
<1> HIDE DEF T
<1>2. s \o t \in Seq(T) /\ Range(s \o t) = Range(s) \cup Range(t)
  BY <1>1, JoinedEntries
<1> QED BY <1>2, ListedFrom DEF Held, Range

\* The empty list, and a list of one.
LEMMA OneState ==
    \A x, y : /\ Listed(<<>>) /\ Held(<<>>) = {}
              /\ Listed(<<x>>) /\ Held(<<x>>) = {x}
              /\ Listed(<<x, y>>) /\ Held(<<x, y>>) = {x, y}
  BY DEF Listed, Held

\* A list without repeats is as long as the set of what it holds.
LEMMA InjectiveLength ==
    ASSUME NEW s, Listed(s), IsInjective(s)
    PROVE  Len(s) = Cardinality(Held(s))
<1>1. Len(s) \in Nat /\ DOMAIN s = 1..Len(s)
  BY ListedFacts
<1>2. PICK n : n = Len(s)
  OBVIOUS
<1>3. s \in Bijection(1..n, Held(s))
  <2>1. s \in [1..n -> Held(s)]
    BY <1>1, <1>2 DEF Listed
  <2>2. \A i, j \in 1..n : s[i] = s[j] => i = j
    BY <1>1, <1>2 DEF IsInjective
  <2>3. \A x \in Held(s) : \E i \in 1..n : s[i] = x
    BY <1>2, ListedFacts
  <2> QED BY <2>1, <2>2, <2>3 DEF Bijection, Injection, Surjection
<1>4. IsFiniteSet(1..n) /\ Cardinality(1..n) = n
  <2>1. n \in Nat /\ n \in Int /\ 1 \in Int
    BY <1>1, <1>2
  <2>2. IsFiniteSet(1..n) /\ Cardinality(1..n) = IF 1 > n THEN 0 ELSE n - 1 + 1
    BY <2>1, FS_Interval
  <2> QED BY <2>1, <2>2
<1> QED BY <1>2, <1>3, <1>4, FS_Bijection DEF ExistsBijection
---------------------------------------------------------------------------
(* Recursive functions.                                                    *)

\* A sequence that starts with a and takes a step of g to each of its entries.
Iterates(f, g, a, n) == f = [i \in 0..n |-> IF i = 0 THEN a ELSE g[<<i, f[i - 1]>>]]

\* There is one: a recursive function is one, by induction.
LEMMA IteratesExist ==
    ASSUME NEW g, NEW a, NEW n \in Nat
    PROVE  \E f : Iterates(f, g, a, n)
<1> DEFINE P == {k \in 0..n : \E f : Iterates(f, g, a, k)}
<1>1. 0 \in P
  <2>1. Iterates([i \in 0..0 |-> a], g, a, 0)
    BY DEF Iterates
  <2> QED BY <2>1
<1>2. ASSUME NEW k \in 0..(n - 1), k \in P PROVE k + 1 \in P
  <2>1. PICK f : Iterates(f, g, a, k)
    BY <1>2
  <2>2. PICK h : h = [i \in 0..(k + 1) |-> IF i = k + 1 THEN g[<<k + 1, f[k]>>] ELSE f[i]]
    OBVIOUS
  <2>3. \A i \in 0..k : f[i] = IF i = 0 THEN a ELSE g[<<i, f[i - 1]>>]
    BY <2>1, Zenon DEF Iterates
  <2>4. /\ h[k + 1] = g[<<k + 1, f[k]>>] /\ k + 1 \in Nat
        /\ \A j \in 0..k : h[j] = f[j] /\ j # k + 1 /\ j \in 0..(k + 1)
    BY <2>2
  <2>5. ASSUME NEW i \in 0..(k + 1)
        PROVE  h[i] = IF i = 0 THEN a ELSE g[<<i, h[i - 1]>>]
    <3>1. CASE i = k + 1
      <4>1. i - 1 = k /\ k \in 0..k /\ i # 0
        BY <3>1
      <4>2. h[k] = f[k]
        BY <2>4, <4>1
      <4> QED BY <2>4, <3>1, <4>1, <4>2
    <3>2. CASE i = 0
      <4>1. 0 \in 0..k
        OBVIOUS
      <4> QED BY <2>3, <2>4, <3>2, <4>1
    <3>3. CASE i # 0 /\ i # k + 1
      <4>1. PICK j : j = i - 1
        OBVIOUS
      <4>2. i \in 0..k /\ j \in 0..k
        BY <3>3, <4>1
      <4>3. h[i] = f[i] /\ h[j] = f[j]
        BY <2>4, <4>2
      <4>4. f[i] = g[<<i, f[j]>>]
        BY <2>3, <3>3, <4>1, <4>2
      <4> QED BY <3>3, <4>1, <4>3, <4>4
    <3> QED BY <3>1, <3>2, <3>3
  <2>6. h = [i \in 0..(k + 1) |-> h[i]]
    BY <2>2
  <2>7. Iterates(h, g, a, k + 1)
    BY <2>5, <2>6 DEF Iterates
  <2> QED BY <2>7
<1> HIDE DEF P
<1>3. n \in P
  BY <1>1, <1>2, NumbersIn
<1> QED BY <1>3 DEF P

\* Functions of a set that agree are one.
LEMMA SameFunction ==
    ASSUME NEW D, NEW f, NEW g, f = [x \in D |-> f[x]], g = [x \in D |-> g[x]],
           \A x \in D : f[x] = g[x]
    PROVE  f = g
  OBVIOUS
===========================================================================

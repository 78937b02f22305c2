--------------------------- MODULE EvaluationProofs ---------------------------
(***************************************************************************)
(* Theorems about Evaluation for any sessions, outputs, test and lint runs *)
(* and answers, any number of iterations and any sizes.                    *)
(***************************************************************************)
EXTENDS Evaluation, FiniteSetTheorems, WellFoundedInduction, TLAPS

-----------------------------------------------------------------------------
(* Lists; what Arranged, Ascending and EntriesAt make *)

\* `before` orders S strictly and totally.
StrictOrder(before, S) ==
  /\ \A i \in S : <<i, i>> \notin before
  /\ \A i, j, k \in S :
       <<i, j>> \in before /\ <<j, k>> \in before => <<i, k>> \in before
  /\ \A i, j \in S : i # j => <<i, j>> \in before \/ <<j, i>> \in before

\* The list holds each element of S once, in the order: those that come before
\* its n-th element are n - 1.
Lists(list, S, before) ==
  /\ Cardinality(S) \in Nat
  /\ list \in Seq(S) /\ Len(list) = Cardinality(S)
  /\ \A m, n \in 1 .. Len(list) : m < n => <<list[m], list[n]>> \in before
  /\ \A k \in S : \E n \in 1 .. Len(list) : list[n] = k
  /\ \A n \in 1 .. Len(list) : \E T \in SUBSET S :
       /\ Cardinality(T) = n - 1
       /\ \A i \in S : i \in T <=> <<i, list[n]>> \in before

LEMMA ArrangedFacts ==
  ASSUME NEW S, IsFiniteSet(S), NEW before, StrictOrder(before, S),
         NEW list, list = Arranged(S, before)
  PROVE  Lists(list, S, before)
<1> DEFINE below == [k \in S |-> {i \in S : <<i, k>> \in before}]
           rank == [k \in S |-> Cardinality(below[k])]
           count == Cardinality(S)
<1>1. count \in Nat
  BY FS_CardinalityType
<1>2. \A k \in S : below[k] = {i \in S : <<i, k>> \in before}
  OBVIOUS
<1> HIDE DEF below
<1>3. list = [n \in 1 .. count |->
                CHOOSE k \in S : Cardinality({i \in S : <<i, k>> \in before}) = n - 1]
  BY DEF Arranged
<1>4. \A k \in S : rank[k] = Cardinality(below[k])
  OBVIOUS
<1>5. DOMAIN rank = S /\ rank = [k \in S |-> rank[k]]
  OBVIOUS
<1> HIDE DEF rank, count
<1>6. ASSUME NEW k \in S
      PROVE  IsFiniteSet(below[k]) /\ rank[k] \in 0 .. count - 1
  <2>1. below[k] \in SUBSET S /\ k \notin below[k]
    BY <1>2 DEF StrictOrder
  <2>2. /\ IsFiniteSet(below[k])
        /\ Cardinality(below[k]) <= count
        /\ count = Cardinality(below[k]) => S = below[k]
    BY <2>1, FS_Subset DEF count
  <2>3. Cardinality(below[k]) \in Nat
    BY <2>2, FS_CardinalityType
  <2> QED
    BY <1>1, <1>4, <2>1, <2>2, <2>3
<1>7. ASSUME NEW i \in S, NEW k \in S, <<i, k>> \in before
      PROVE  rank[i] < rank[k]
  <2>1. i \in below[k] /\ i \notin below[i]
    BY <1>2, <1>7 DEF StrictOrder
  <2>2. below[i] \in SUBSET below[k]
    BY <1>2, <1>7 DEF StrictOrder
  <2>3. /\ rank[i] <= rank[k]
        /\ rank[k] = rank[i] => below[k] = below[i]
    BY <1>4, <1>6, <2>2, FS_Subset
  <2>4. rank[i] \in Int /\ rank[k] \in Int
    BY <1>1, <1>6
  <2> QED
    BY <2>1, <2>3, <2>4
<1>8. ASSUME NEW i \in S, NEW k \in S, rank[i] = rank[k]
      PROVE  i = k
  <2>1. rank[i] \in Int
    BY <1>1, <1>6
  <2>2. ~(rank[i] < rank[k]) /\ ~(rank[k] < rank[i])
    BY <1>8, <2>1
  <2> QED
    BY <1>7, <2>2 DEF StrictOrder
<1>9. rank \in [S -> 0 .. count - 1]
  BY <1>5, <1>6
<1>10. rank \in Injection(S, 0 .. count - 1)
  <2>1. IsInjective(rank)
    BY <1>5, <1>8 DEF IsInjective
  <2> QED
    BY <1>9, <2>1, Zenon DEF Injection
<1>11. IsFiniteSet(0 .. count - 1) /\ Cardinality(0 .. count - 1) = count
  BY <1>1, FS_Interval
<1>12. \A n \in 0 .. count - 1 : \E k \in S : rank[k] = n
  <2>1. rank \in Surjection(S, 0 .. count - 1)
    BY <1>10, <1>11, FS_Injection DEF count
  <2> QED
    BY <2>1 DEF Surjection
<1>13. ASSUME NEW n \in 1 .. count
       PROVE  list[n] \in S /\ rank[list[n]] = n - 1
  <2>1. \A k \in S : Cardinality({i \in S : <<i, k>> \in before}) = rank[k]
    BY <1>2, <1>4
  <2>2. \E k \in S : Cardinality({i \in S : <<i, k>> \in before}) = n - 1
    <3>1. n - 1 \in 0 .. count - 1
      BY <1>1
    <3>2. PICK k \in S : rank[k] = n - 1
      BY <1>12, <3>1
    <3> QED
      BY <2>1, <3>2
  <2>3. /\ list[n] \in S
        /\ Cardinality({i \in S : <<i, list[n]>> \in before}) = n - 1
    BY <1>3, <2>2
  <2> QED
    BY <2>1, <2>3
<1>14. list \in [1 .. count -> S]
  BY <1>3, <1>13
<1>15. list \in Seq(S) /\ Len(list) = count
  BY <1>1, <1>14
<1>16. ASSUME NEW m \in 1 .. count, NEW n \in 1 .. count, m < n
       PROVE  <<list[m], list[n]>> \in before
  <2>1. /\ list[m] \in S /\ rank[list[m]] = m - 1
        /\ list[n] \in S /\ rank[list[n]] = n - 1
    BY <1>13
  <2>2. list[m] # list[n] /\ ~(rank[list[n]] < rank[list[m]])
    BY <1>16, <2>1
  <2> QED
    BY <1>7, <2>1, <2>2 DEF StrictOrder
<1>17. ASSUME NEW k \in S
       PROVE  \E n \in 1 .. count : list[n] = k
  <2>1. rank[k] + 1 \in 1 .. count /\ rank[k] \in Int
    BY <1>1, <1>6
  <2>2. list[rank[k] + 1] \in S /\ rank[list[rank[k] + 1]] = rank[k]
    BY <1>13, <2>1
  <2>3. list[rank[k] + 1] = k
    BY <1>8, <2>2
  <2> QED
    BY <2>1, <2>3
<1>18. ASSUME NEW n \in 1 .. count
       PROVE  \E T \in SUBSET S :
                /\ Cardinality(T) = n - 1
                /\ \A i \in S : i \in T <=> <<i, list[n]>> \in before
  <2>1. below[list[n]] \in SUBSET S
    BY <1>2, <1>13
  <2>2. Cardinality(below[list[n]]) = n - 1
    BY <1>4, <1>13
  <2>3. \A i \in S : i \in below[list[n]] <=> <<i, list[n]>> \in before
    BY <1>2, <1>13
  <2> QED
    BY <2>1, <2>2, <2>3
<1> QED
  BY <1>1, <1>15, <1>16, <1>17, <1>18 DEF count, Lists

\* Ascending lists each number of the set once, the smaller ones first.
LEMMA AscendingFacts ==
  ASSUME NEW S \in SUBSET Nat, IsFiniteSet(S)
  PROVE  /\ Ascending(S) \in Seq(S)
         /\ Len(Ascending(S)) = Cardinality(S)
         /\ \A m, n \in 1 .. Len(Ascending(S)) :
              m < n => Ascending(S)[m] < Ascending(S)[n]
         /\ \A k \in S : \E n \in 1 .. Len(Ascending(S)) : Ascending(S)[n] = k
         /\ \A n \in 1 .. Len(Ascending(S)) :
              Cardinality({i \in S : i < Ascending(S)[n]}) = n - 1
<1> DEFINE before == {p \in S \X S : p[1] < p[2]}
           list == Ascending(S)
<1>1. \A i, k \in S : <<i, k>> \in before <=> i < k
  OBVIOUS
<1>2. list = Arranged(S, before)
  BY DEF Ascending
<1> HIDE DEF before, list
<1>4. StrictOrder(before, S)
  BY <1>1 DEF StrictOrder
<1>5. Lists(list, S, before)
  BY <1>2, <1>4, ArrangedFacts
<1>6. \A n \in 1 .. Len(list) : list[n] \in S
  BY <1>5 DEF Lists
<1>7. \A m, n \in 1 .. Len(list) : m < n => list[m] < list[n]
  BY <1>1, <1>5, <1>6 DEF Lists
<1>8. ASSUME NEW n \in 1 .. Len(list)
      PROVE  Cardinality({i \in S : i < list[n]}) = n - 1
  <2>1. PICK T \in SUBSET S : /\ Cardinality(T) = n - 1
                             /\ \A i \in S : i \in T <=> <<i, list[n]>> \in before
    BY <1>5 DEF Lists
  <2>2. T = {i \in S : i < list[n]}
    BY <1>1, <1>6, <2>1
  <2> QED
    BY <2>1, <2>2
<1>9. /\ list \in Seq(S) /\ Len(list) = Cardinality(S)
      /\ \A m, n \in 1 .. Len(list) : m < n => list[m] < list[n]
      /\ \A k \in S : \E n \in 1 .. Len(list) : list[n] = k
      /\ \A n \in 1 .. Len(list) : Cardinality({i \in S : i < list[n]}) = n - 1
  BY <1>5, <1>7, <1>8 DEF Lists
<1> QED
  BY <1>9 DEF list

\* EntriesAt lists the entries at the places, in their order.
LEMMA EntriesAtFacts ==
  ASSUME NEW T, NEW s \in Seq(T), NEW places \in SUBSET (DOMAIN s)
  PROVE  LET at == Ascending(places)
             part == EntriesAt(s, places)
         IN  /\ part \in Seq(T) /\ at \in Seq(places) /\ Len(part) = Len(at)
             /\ \A n \in 1 .. Len(at) : part[n] = s[at[n]]
             /\ \A m, n \in 1 .. Len(at) : m < n => at[m] < at[n]
             /\ \A k \in places : \E n \in 1 .. Len(part) : part[n] = s[k]
<1> DEFINE at == Ascending(places)
           part == EntriesAt(s, places)
<1>1. DOMAIN s = 1 .. Len(s) /\ Len(s) \in Nat
  OBVIOUS
<1>2. IsFiniteSet(places) /\ places \in SUBSET Nat
  <2>1. IsFiniteSet(1 .. Len(s))
    BY <1>1, FS_Interval
  <2> QED
    BY <1>1, <2>1, FS_Subset
<1>3. /\ at \in Seq(places)
      /\ \A m, n \in 1 .. Len(at) : m < n => at[m] < at[n]
      /\ \A k \in places : \E n \in 1 .. Len(at) : at[n] = k
  BY <1>2, AscendingFacts
<1>4. part = [n \in DOMAIN at |-> s[at[n]]]
  BY DEF EntriesAt
<1> HIDE DEF at, part
<1>5. DOMAIN at = 1 .. Len(at) /\ Len(at) \in Nat
  BY <1>3
<1>6. \A n \in 1 .. Len(at) : at[n] \in places /\ part[n] = s[at[n]]
  BY <1>3, <1>4, <1>5
<1>7. \A n \in 1 .. Len(at) : part[n] \in T
  BY <1>1, <1>6
<1>8. part \in [1 .. Len(at) -> T]
  BY <1>4, <1>5, <1>7
<1>9. part \in Seq(T) /\ Len(part) = Len(at)
  BY <1>5, <1>8
<1>10. ASSUME NEW k \in places
       PROVE  \E n \in 1 .. Len(part) : part[n] = s[k]
  <2>1. PICK n \in 1 .. Len(at) : at[n] = k
    BY <1>3
  <2>2. n \in 1 .. Len(part) /\ part[n] = s[k]
    BY <1>6, <1>9, <2>1
  <2> QED
    BY <2>2
<1> QED
  BY <1>3, <1>6, <1>9, <1>10 DEF at, part

LEMMA MinIsIn ==
  ASSUME NEW S \in SUBSET Nat, S # {}
  PROVE  Min(S) \in S /\ \A x \in S : Min(S) <= x
<1>1. PICK x \in S : \A y \in S : ~ (<<y, x>> \in OpToRel(<, Nat))
  BY NatLessThanWellFounded, WFMin
<1>2. \A y \in S : ~(y < x)
  BY <1>1 DEF OpToRel
<1>3. \A y \in S : x <= y
  BY <1>2
<1> QED
  BY <1>3 DEF Min

LEMMA ListFacts ==
  ASSUME NEW S, NEW s \in Seq(S)
  PROVE  IsList(s)
<1>1. \A k \in 1 .. Len(s) : s[k] \in Range(s)
  BY DEF Range
<1>2. s \in [1 .. Len(s) -> Range(s)] /\ Len(s) \in Nat
  BY <1>1
<1> QED
  BY <1>2 DEF IsList

LEMMA FunctionIsList ==
  ASSUME NEW n \in Nat, NEW f, f = [k \in 1 .. n |-> f[k]]
  PROVE  IsList(f) /\ Len(f) = n /\ DOMAIN f = 1 .. n
<1>1. \A k \in 1 .. n : f[k] \in Range(f)
  BY DEF Range
<1>2. f \in [1 .. n -> Range(f)]
  BY <1>1
<1>3. f \in Seq(Range(f)) /\ Len(f) = n
  BY <1>2
<1> QED
  BY <1>3 DEF IsList

LEMMA EmptyIsList == IsList(<<>>) /\ Range(<<>>) = {}
<1>1. <<>> \in Seq({})
  OBVIOUS
<1>2. Range(<<>>) = {}
  BY DEF Range
<1> QED
  BY <1>1, <1>2, ListFacts

LEMMA ListDomain ==
  ASSUME NEW s, IsList(s)
  PROVE  /\ Len(s) \in Nat /\ DOMAIN s = 1 .. Len(s)
         /\ \A x : x \in Range(s) <=> \E k \in 1 .. Len(s) : s[k] = x
<1>1. Len(s) \in Nat /\ DOMAIN s = 1 .. Len(s)
  BY DEF IsList
<1> QED
  BY <1>1 DEF Range

LEMMA EntriesFacts ==
  ASSUME NEW s, IsList(s), NEW places \in SUBSET (DOMAIN s)
  PROVE  /\ IsList(EntriesAt(s, places))
         /\ \A x : x \in Range(EntriesAt(s, places)) <=> \E k \in places : s[k] = x
<1> DEFINE at == Ascending(places)
           part == EntriesAt(s, places)
<1>1. /\ part \in Seq(Range(s)) /\ at \in Seq(places) /\ Len(part) = Len(at)
      /\ \A n \in 1 .. Len(at) : part[n] = s[at[n]]
      /\ \A k \in places : \E n \in 1 .. Len(part) : part[n] = s[k]
  BY EntriesAtFacts DEF IsList
<1> HIDE DEF at, part
<1>2. IsList(part)
  BY <1>1, ListFacts
<1>3. \A n \in 1 .. Len(at) : at[n] \in places
  BY <1>1
<1>4. \A x : x \in Range(part) <=> \E n \in 1 .. Len(part) : part[n] = x
  BY <1>2, ListDomain
<1>5. ASSUME NEW x
      PROVE  x \in Range(part) <=> \E k \in places : s[k] = x
  <2>1. ASSUME NEW n \in 1 .. Len(part), part[n] = x
        PROVE  \E k \in places : s[k] = x
    <3>1. at[n] \in places /\ s[at[n]] = x
      BY <1>1, <1>3, <2>1
    <3> QED
      BY <3>1
  <2>2. ASSUME NEW k \in places, s[k] = x
        PROVE  \E n \in 1 .. Len(part) : part[n] = x
    BY <1>1, <2>2
  <2> QED
    BY <1>4, <2>1, <2>2
<1> QED
  BY <1>2, <1>5 DEF part

LEMMA ConcatIsList ==
  ASSUME NEW s, IsList(s), NEW t, IsList(t)
  PROVE  IsList(s \o t) /\ Range(s \o t) = Range(s) \union Range(t)
<1> DEFINE S == Range(s) \union Range(t)
<1>1. s \in Seq(S) /\ t \in Seq(S)
  BY DEF IsList
<1> HIDE DEF S
<1>2. s \o t \in Seq(S)
  BY <1>1
<1>3. IsList(s \o t)
  BY <1>2, ListFacts
<1>4. Len(s \o t) = Len(s) + Len(t) /\ Len(s) \in Nat /\ Len(t) \in Nat
  BY <1>1
<1>5. \A k \in 1 .. Len(s) : (s \o t)[k] = s[k]
  BY <1>1
<1>6. \A k \in 1 .. Len(t) : (s \o t)[Len(s) + k] = t[k]
  BY <1>1
<1>7. ASSUME NEW x \in Range(s \o t)
      PROVE  x \in Range(s) \union Range(t)
  <2>1. PICK k \in 1 .. Len(s) + Len(t) : (s \o t)[k] = x
    BY <1>3, <1>4, ListDomain
  <2>2. CASE k <= Len(s)
    <3>1. k \in 1 .. Len(s)
      BY <1>4, <2>2
    <3> QED
      BY <1>5, <2>1, <3>1, ListDomain
  <2>3. CASE k > Len(s)
    <3>1. k - Len(s) \in 1 .. Len(t) /\ Len(s) + (k - Len(s)) = k
      BY <1>4, <2>3
    <3>2. t[k - Len(s)] = x
      BY <1>6, <2>1, <3>1
    <3> QED
      BY <3>1, <3>2, ListDomain
  <2> QED
    BY <1>4, <2>2, <2>3
<1>8. ASSUME NEW x \in Range(s) \union Range(t)
      PROVE  x \in Range(s \o t)
  <2>1. CASE x \in Range(s)
    <3>1. PICK k \in 1 .. Len(s) : s[k] = x
      BY <2>1, ListDomain
    <3>2. k \in 1 .. Len(s \o t) /\ (s \o t)[k] = x
      BY <1>4, <1>5, <3>1
    <3> QED
      BY <1>3, <3>2, ListDomain
  <2>2. CASE x \in Range(t)
    <3>1. PICK k \in 1 .. Len(t) : t[k] = x
      BY <2>2, ListDomain
    <3>2. Len(s) + k \in 1 .. Len(s \o t) /\ (s \o t)[Len(s) + k] = x
      BY <1>4, <1>6, <3>1
    <3> QED
      BY <1>3, <3>2, ListDomain
  <2> QED
    BY <2>1, <2>2
<1> QED
  BY <1>3, <1>7, <1>8

LEMMA AppendIsList ==
  ASSUME NEW s, IsList(s), NEW x
  PROVE  /\ IsList(Append(s, x)) /\ Append(s, x) # <<>>
         /\ Last(Append(s, x)) = x
         /\ \A k \in DOMAIN Append(s, x) :
              Append(s, x)[k] = x \/ (k \in DOMAIN s /\ Append(s, x)[k] = s[k])
<1> DEFINE S == Range(s) \union {x}
<1>1. s \in Seq(S)
  BY DEF IsList
<1> HIDE DEF S
<1>2. Append(s, x) \in Seq(S) /\ Len(Append(s, x)) = Len(s) + 1 /\ Len(s) \in Nat
  BY <1>1 DEF S
<1>3. IsList(Append(s, x))
  BY <1>2, ListFacts
<1>4. Append(s, x)[Len(s) + 1] = x
  BY <1>1
<1>5. \A k \in 1 .. Len(s) : Append(s, x)[k] = s[k]
  BY <1>1
<1>6. Last(Append(s, x)) = x
  BY <1>2, <1>4 DEF Last
<1>7. DOMAIN Append(s, x) = 1 .. Len(s) + 1 /\ DOMAIN s = 1 .. Len(s)
  BY <1>1, <1>2
<1>8. \A k \in 1 .. Len(s) + 1 : k = Len(s) + 1 \/ k \in 1 .. Len(s)
  BY <1>2
<1>9. Append(s, x) # <<>>
  BY <1>2
<1> QED
  BY <1>3, <1>4, <1>5, <1>6, <1>7, <1>8, <1>9

LEMMA LastIsIn ==
  ASSUME NEW s, IsList(s), s # <<>>
  PROVE  Last(s) \in Range(s)
<1>1. Len(s) \in Nat /\ DOMAIN s = 1 .. Len(s)
  BY ListDomain
<1>2. Len(s) # 0
  BY DEF IsList
<1>3. Len(s) \in 1 .. Len(s)
  BY <1>1, <1>2
<1> QED
  BY <1>1, <1>3, ListDomain DEF Last

-----------------------------------------------------------------------------
(* What is made of test runs, lint runs and answers *)

\* A test run gives nothing or the list of its failures.
LEMMA RunTestsFacts ==
  ASSUME NEW project, NEW r \in TestRuns,
         RunTests(project, r) # None
  PROVE  IsList(RunTests(project, r).failures)
<1>1. IsList(r.names)
  BY EvaluationAssumption
<1>2. IsList(<<"npm test">>)
  <2>1. <<"npm test">> \in Seq({"npm test"})
    OBVIOUS
  <2> QED
    BY <2>1, ListFacts
<1> DEFINE t == RunTests(project, r)
<1>3. \/ t = None
      \/ \E x, failed : t = TestResult(x, failed, r.names)
      \/ \E x, failed : t = TestResult(x, failed, <<"npm test">>)
  <2>1. \/ t = None \/ t = ParseCargoTest(r) \/ t = ParseGoTest(r)
        \/ t = ParseNpmTest(r) \/ t = ParsePytest(r)
    BY DEF RunTests
  <2> HIDE DEF t
  <2>2. ASSUME t = ParseCargoTest(r)
        PROVE  t = None \/ t = TestResult(r, Len(r.names), r.names)
    BY <2>2 DEF ParseCargoTest
  <2>3. ASSUME t = ParseGoTest(r)
        PROVE  t = None \/ t = TestResult(r, Len(r.names), r.names)
    BY <2>3 DEF ParseGoTest
  <2>4. ASSUME t = ParsePytest(r)
        PROVE  t = None \/ t = TestResult(r, Len(r.names), r.names)
    BY <2>4 DEF ParsePytest
  <2>5. ASSUME t = ParseNpmTest(r)
        PROVE  \/ t = None \/ t = TestResult(r, Len(r.names), r.names)
               \/ t = TestResult([r EXCEPT !.passed = 0], 1, <<"npm test">>)
    BY <2>5 DEF ParseNpmTest
  <2> QED
    BY <2>1, <2>2, <2>3, <2>4, <2>5
<1> HIDE DEF t
<1>4. ASSUME NEW x, NEW failed, NEW names, t = TestResult(x, failed, names)
      PROVE  t.failures = names
  BY <1>4 DEF TestResult
<1>5. t # None
  BY DEF t
<1> QED
  BY <1>1, <1>2, <1>3, <1>4, <1>5 DEF t

LEMMA FailureFindings ==
  ASSUME NEW t, IsList(t.failures)
  PROVE  /\ IsList(FailuresAsFindings(t))
         /\ \A f \in Range(FailuresAsFindings(t)) :
              f.dim = "tests" /\ f.title \in Range(t.failures)
<1> DEFINE found == FailuresAsFindings(t)
<1>1. DOMAIN t.failures = 1 .. Len(t.failures) /\ Len(t.failures) \in Nat
  BY ListDomain
<1>2. found = [k \in 1 .. Len(t.failures) |->
                 Finding("T", k, "Blocker", "tests", t.failures[k])]
  BY <1>1 DEF FailuresAsFindings
<1> HIDE DEF found
<1>3. \A k \in 1 .. Len(t.failures) :
        found[k].dim = "tests" /\ found[k].title = t.failures[k]
  BY <1>2 DEF Finding
<1>4. IsList(found) /\ Len(found) = Len(t.failures)
  BY <1>1, <1>2, FunctionIsList
<1>5. \A k \in 1 .. Len(t.failures) : t.failures[k] \in Range(t.failures)
  BY ListDomain
<1> QED
  BY <1>3, <1>4, <1>5, ListDomain DEF found

\* Of a lint run there are issues.
LEMMA LintFindings ==
  ASSUME NEW project, NEW r \in LintRuns, NEW l, l = RunLint(project, r),
         l # None
  PROVE  /\ IsList(IssuesAsFindings(l))
         /\ \A f \in Range(IssuesAsFindings(l)) :
              f.dim = "static_analysis" /\ f.title \in Range(l.issues)
<1>1. l = [allClean |-> r.issues = <<>>, issues |-> r.issues]
  BY DEF RunLint, ParseLint
<1>2. l.issues = r.issues
  BY <1>1
<1>3. IsList(l.issues)
  BY <1>2, EvaluationAssumption
<1> DEFINE found == IssuesAsFindings(l)
<1>4. DOMAIN l.issues = 1 .. Len(l.issues) /\ Len(l.issues) \in Nat
  BY <1>3, ListDomain
<1>5. found = [k \in 1 .. Len(l.issues) |->
                 Finding("L", k, IF l.issues[k] = "error" THEN "Important"
                                 ELSE "Suggestion",
                         "static_analysis", l.issues[k])]
  BY <1>4 DEF IssuesAsFindings
<1> HIDE DEF found
<1>6. \A k \in 1 .. Len(l.issues) :
        found[k].dim = "static_analysis" /\ found[k].title = l.issues[k]
  BY <1>5 DEF Finding
<1>7. IsList(found) /\ Len(found) = Len(l.issues)
  BY <1>4, <1>5, FunctionIsList
<1>8. \A k \in 1 .. Len(l.issues) : l.issues[k] \in Range(l.issues)
  BY <1>3, ListDomain
<1> QED
  BY <1>6, <1>7, <1>8, ListDomain DEF found

LEMMA SectionPlaces ==
  ASSUME NEW lines, NEW heads, NEW section
  PROVE  LinesOfSection(lines, heads, section) \in SUBSET DOMAIN lines
BY DEF LinesOfSection

\* What a full answer finds is of no dimension.
LEMMA EvalFindings ==
  ASSUME NEW lines \in Answers
  PROVE  LET found == ParseEvalResponse(lines, Rubric).findings
         IN  /\ IsList(found)
             /\ \A f \in Range(found) : f.dim = ""
<1> DEFINE heads == {"SCORES", "FINDINGS", "SUGGESTION"}
           entries == EntriesAt(lines, LinesOfSection(lines, heads, "FINDINGS"))
           found == ParseEvalResponse(lines, Rubric).findings
<1>1. IsList(lines)
  BY EvaluationAssumption
<1>2. IsList(entries)
  BY <1>1, EntriesFacts, SectionPlaces
<1>3. found = [k \in DOMAIN entries |-> ParseFindingLine(entries[k], k - 1)]
  BY DEF ParseEvalResponse
<1> HIDE DEF found, entries
<1>4. DOMAIN entries = 1 .. Len(entries) /\ Len(entries) \in Nat
  BY <1>2, ListDomain
<1>5. \A k \in 1 .. Len(entries) : found[k].dim = ""
  BY <1>3, <1>4 DEF ParseFindingLine, Finding
<1>6. IsList(found) /\ Len(found) = Len(entries)
  BY <1>3, <1>4, FunctionIsList
<1>7. ASSUME NEW f \in Range(found)
      PROVE  f.dim = ""
  <2>1. PICK k \in 1 .. Len(entries) : found[k] = f
    BY <1>6, ListDomain
  <2> QED
    BY <1>5, <2>1
<1> QED
  BY <1>6, <1>7 DEF found

\* What an answer on a change finds is of the dimension "general".
LEMMA IncrementalFindings ==
  ASSUME NEW lines \in Answers
  PROVE  LET found == ParseIncremental(lines, Rubric).new
         IN  /\ IsList(found)
             /\ \A f \in Range(found) : f.dim = "general"
<1> DEFINE heads == {"SCORES", "RESOLVED", "NEW_FINDINGS", "FINDINGS", "SUGGESTION"}
           section(name) == LinesOfSection(lines, heads, name)
           severity(l) == CASE l.severity = "BLOCKER" -> "Blocker"
                            [] l.severity \in {"IMPORTANT", "ERROR"} -> "Important"
                            [] OTHER -> "Suggestion"
           places == {k \in section("NEW_FINDINGS") \union section("FINDINGS") :
                        lines[k].is = "finding"}
           entries == EntriesAt(lines, places)
           found == ParseIncremental(lines, Rubric).new
<1>1. IsList(lines)
  BY EvaluationAssumption
<1>2. IsList(entries)
  <2>1. places \in SUBSET DOMAIN lines
    BY SectionPlaces
  <2> QED
    BY <1>1, <2>1, EntriesFacts
<1>3. found = [k \in DOMAIN entries |->
                 Finding("NF", k, severity(entries[k]), "general", entries[k].text)]
  BY DEF ParseIncremental
<1> HIDE DEF found, entries
<1>4. DOMAIN entries = 1 .. Len(entries) /\ Len(entries) \in Nat
  BY <1>2, ListDomain
<1>5. \A k \in 1 .. Len(entries) : found[k].dim = "general"
  BY <1>3, <1>4 DEF Finding
<1>6. IsList(found) /\ Len(found) = Len(entries)
  BY <1>3, <1>4, FunctionIsList
<1> QED
  BY <1>5, <1>6, ListDomain DEF found

-----------------------------------------------------------------------------
(* Evaluations *)

IsDraft(e) ==
  /\ e = [full |-> e.full, dims |-> e.dims, findings |-> e.findings,
          testsPassed |-> e.testsPassed, lintPassed |-> e.lintPassed]
  /\ e.full \in BOOLEAN
  /\ IsList(e.findings)

LEMMA WithoutFacts ==
  ASSUME NEW findings, IsList(findings), NEW dim
  PROVE  /\ IsList(Without(findings, dim))
         /\ \A f : f \in Range(Without(findings, dim))
                     <=> f \in Range(findings) /\ f.dim # dim
<1> DEFINE places == {k \in DOMAIN findings : findings[k].dim # dim}
<1>1. Without(findings, dim) = EntriesAt(findings, places)
  BY DEF Without
<1>2. places \in SUBSET DOMAIN findings
  OBVIOUS
<1>3. \A k : k \in places <=> k \in DOMAIN findings /\ findings[k].dim # dim
  OBVIOUS
<1> HIDE DEF places
<1>4. /\ IsList(Without(findings, dim))
      /\ \A x : x \in Range(Without(findings, dim)) <=> \E k \in places : findings[k] = x
  BY <1>1, <1>2, EntriesFacts
<1> QED
  BY <1>3, <1>4, ListDomain

LEMMA RemainingFacts ==
  ASSUME NEW findings, IsList(findings), NEW resolved
  PROVE  /\ IsList(Remaining(findings, resolved))
         /\ \A f : f \in Range(Remaining(findings, resolved))
                     <=> f \in Range(findings) /\ f.id \notin Range(resolved)
<1> DEFINE places == {k \in DOMAIN findings : findings[k].id \notin Range(resolved)}
<1>1. Remaining(findings, resolved) = EntriesAt(findings, places)
  BY DEF Remaining
<1>2. places \in SUBSET DOMAIN findings
  OBVIOUS
<1>3. \A k : k \in places
               <=> k \in DOMAIN findings /\ findings[k].id \notin Range(resolved)
  OBVIOUS
<1> HIDE DEF places
<1>4. /\ IsList(Remaining(findings, resolved))
      /\ \A x : x \in Range(Remaining(findings, resolved))
                  <=> \E k \in places : findings[k] = x
  BY <1>1, <1>2, EntriesFacts
<1> QED
  BY <1>3, <1>4, ListDomain

\* A measurement drops the findings of its dimension and no others, and adds
\* its own.
LEMMA MeasuredFacts ==
  ASSUME NEW e, IsDraft(e), NEW dim, NEW findings, IsList(findings)
  PROVE  /\ Measured(e, dim, findings)
              = [full |-> e.full, dims |-> ReplaceOrAdd(e.dims, dim),
                 findings |-> Without(e.findings, dim.name) \o findings,
                 testsPassed |-> e.testsPassed, lintPassed |-> e.lintPassed]
         /\ IsList(Measured(e, dim, findings).findings)
         /\ \A f : f \in Range(Measured(e, dim, findings).findings)
                     <=> \/ f \in Range(findings)
                         \/ f \in Range(e.findings) /\ f.dim # dim.name
<1>1. Measured(e, dim, findings)
        = [full |-> e.full, dims |-> ReplaceOrAdd(e.dims, dim),
           findings |-> Without(e.findings, dim.name) \o findings,
           testsPassed |-> e.testsPassed, lintPassed |-> e.lintPassed]
  <2>1. PICK full, dims, fs, tests, lint :
          e = [full |-> full, dims |-> dims, findings |-> fs,
               testsPassed |-> tests, lintPassed |-> lint]
    BY DEF IsDraft
  <2>2. /\ e.full = full /\ e.dims = dims /\ e.findings = fs
        /\ e.testsPassed = tests /\ e.lintPassed = lint
    BY <2>1
  <2>3. Measured(e, dim, findings)
          = [[[full |-> full, dims |-> dims, findings |-> fs,
               testsPassed |-> tests, lintPassed |-> lint]
               EXCEPT !.dims = ReplaceOrAdd(dims, dim)]
               EXCEPT !.findings = Without(fs, dim.name) \o findings]
    BY <2>1 DEF Measured
  <2> QED
    BY <2>2, <2>3
<1>2. IsList(Without(e.findings, dim.name))
  BY WithoutFacts DEF IsDraft
<1>3. Measured(e, dim, findings).findings = Without(e.findings, dim.name) \o findings
  BY <1>1
<1>4. /\ IsList(Measured(e, dim, findings).findings)
      /\ Range(Measured(e, dim, findings).findings)
           = Range(Without(e.findings, dim.name)) \union Range(findings)
  BY <1>2, <1>3, ConcatIsList
<1>5. \A f : f \in Range(Without(e.findings, dim.name))
               <=> f \in Range(e.findings) /\ f.dim # dim.name
  BY WithoutFacts DEF IsDraft
<1> QED
  BY <1>1, <1>4, <1>5

\* What is resolved leaves, what is new comes.
LEMMA MergedFacts ==
  ASSUME NEW e, IsDraft(e), NEW a, IsList(a.new)
  PROVE  /\ IsDraft(Merged(e, a))
         /\ Merged(e, a).full = e.full
         /\ \A f : f \in Range(Merged(e, a).findings)
                     <=> \/ f \in Range(a.new)
                         \/ f \in Range(e.findings) /\ f.id \notin Range(a.resolved)
<1> DEFINE findings == Remaining(e.findings, a.resolved) \o a.new
<1>1. PICK full, dims, fs, tests, lint :
        e = [full |-> full, dims |-> dims, findings |-> fs,
             testsPassed |-> tests, lintPassed |-> lint]
  BY DEF IsDraft
<1>2. /\ e.full = full /\ e.dims = dims /\ e.findings = fs
      /\ e.testsPassed = tests /\ e.lintPassed = lint
  BY <1>1
<1>3. Merged(e, a)
        = [[[full |-> full, dims |-> dims, findings |-> fs,
             testsPassed |-> tests, lintPassed |-> lint]
             EXCEPT !.dims = ReplaceOrAddAll(dims, a.dims)]
             EXCEPT !.findings = Remaining(fs, a.resolved) \o a.new]
  BY <1>1 DEF Merged
<1>4. Merged(e, a) = [full |-> e.full, dims |-> ReplaceOrAddAll(e.dims, a.dims),
                      findings |-> findings, testsPassed |-> e.testsPassed,
                      lintPassed |-> e.lintPassed]
  BY <1>2, <1>3
<1>5. /\ IsList(Remaining(e.findings, a.resolved))
      /\ \A f : f \in Range(Remaining(e.findings, a.resolved))
                  <=> f \in Range(e.findings) /\ f.id \notin Range(a.resolved)
  BY RemainingFacts DEF IsDraft
<1>6. /\ IsList(findings)
      /\ Range(findings) = Range(Remaining(e.findings, a.resolved)) \union Range(a.new)
  BY <1>5, ConcatIsList
<1> HIDE DEF findings
<1>7. Merged(e, a).full = e.full /\ Merged(e, a).findings = findings
  BY <1>4
<1>8. e.full \in BOOLEAN
  BY DEF IsDraft
<1>9. IsDraft(Merged(e, a))
  BY <1>4, <1>6, <1>8 DEF IsDraft
<1> QED
  BY <1>5, <1>6, <1>7, <1>9

LEMMA NewDraftIsDraft ==
  /\ IsDraft(NewDraft) /\ NewDraft.full = TRUE /\ NewDraft.findings = <<>>
  /\ IsDraft(Failed) /\ Failed.findings = <<>>
<1>1. NewDraft = [full |-> TRUE, dims |-> <<>>, findings |-> <<>>,
                  testsPassed |-> TRUE, lintPassed |-> TRUE]
  BY DEF NewDraft
<1>2. Failed = [[[full |-> TRUE, dims |-> <<>>, findings |-> <<>>,
                  testsPassed |-> TRUE, lintPassed |-> TRUE]
                  EXCEPT !.testsPassed = FALSE] EXCEPT !.lintPassed = FALSE]
  BY <1>1 DEF Failed
<1>3. Failed = [full |-> TRUE, dims |-> <<>>, findings |-> <<>>,
                testsPassed |-> FALSE, lintPassed |-> FALSE]
  BY <1>2
<1> QED
  BY <1>1, <1>3, EmptyIsList DEF IsDraft

IsCycle(c) == IsList(c.findings) /\ c.tokens \in Nat

LEMMA CycleFacts ==
  ASSUME NEW o, o.tokens \in Nat, NEW evaluated, NEW score, NEW e, IsDraft(e)
  PROVE  /\ IsCycle(Cycle(o, evaluated, score, e))
         /\ Cycle(o, evaluated, score, e).findings = e.findings
BY DEF Cycle, IsCycle, IsDraft

\* An evaluation starts from nothing or from the last cycle, which then was
\* evaluated.
LEMMA StartFacts ==
  ASSUME NEW o, \A c \in Range(cycles) : IsCycle(c), IsList(cycles)
  PROVE  /\ IsDraft(StartEvaluation(o))
         /\ StartEvaluation(o).full => StartEvaluation(o).findings = <<>>
         /\ ~StartEvaluation(o).full =>
              cycles # <<>> /\ StartEvaluation(o).findings = Last(cycles).findings
<1> DEFINE started == [full |-> FALSE, dims |-> Last(cycles).dims,
                       findings |-> Last(cycles).findings,
                       testsPassed |-> Last(cycles).testsPassed,
                       lintPassed |-> Last(cycles).lintPassed]
<1>1. \/ StartEvaluation(o) = NewDraft
      \/ cycles # <<>> /\ StartEvaluation(o) = started
  BY DEF StartEvaluation
<1>2. ASSUME cycles # <<>>
      PROVE  IsDraft(started)
  <2>1. Last(cycles) \in Range(cycles)
    BY <1>2, LastIsIn
  <2>2. IsList(Last(cycles).findings)
    BY <2>1 DEF IsCycle
  <2> QED
    BY <2>2 DEF IsDraft
<1>3. started.full = FALSE /\ started.findings = Last(cycles).findings
  OBVIOUS
<1> HIDE DEF started
<1>4. CASE StartEvaluation(o) = NewDraft
  BY <1>4, NewDraftIsDraft
<1>5. CASE cycles # <<>> /\ StartEvaluation(o) = started
  BY <1>2, <1>3, <1>5
<1> QED
  BY <1>1, <1>4, <1>5

-----------------------------------------------------------------------------
(* Types *)

Typed ==
  /\ session \in Sessions
  /\ output.tokens \in Nat
  /\ IsDraft(draft)
  /\ IsList(cycles) /\ \A c \in Range(cycles) : IsCycle(c)

LEMMA CyclesAppend ==
  ASSUME IsList(cycles), \A c \in Range(cycles) : IsCycle(c), NEW c, IsCycle(c),
         cycles' = Append(cycles, c)
  PROVE  /\ IsList(cycles') /\ \A d \in Range(cycles') : IsCycle(d)
         /\ cycles' # <<>> /\ Last(cycles') = c
<1>1. /\ IsList(cycles') /\ cycles' # <<>> /\ Last(cycles') = c
      /\ \A k \in DOMAIN cycles' :
           cycles'[k] = c \/ (k \in DOMAIN cycles /\ cycles'[k] = cycles[k])
  BY AppendIsList
<1>2. \A k \in DOMAIN cycles' : IsCycle(cycles'[k])
  BY <1>1 DEF Range
<1> QED
  BY <1>1, <1>2 DEF Range

LEMMA KeepFacts ==
  ASSUME Typed, NEW e, IsDraft(e), NEW score, Keep(e, score)
  PROVE  /\ Typed'
         /\ cycles' # <<>> /\ Last(cycles').findings = e.findings
         /\ pc' \in {"build", "done"}
<1>1. IsCycle(Cycle(output, TRUE, score, e))
      /\ Cycle(output, TRUE, score, e).findings = e.findings
  <2>1. output.tokens \in Nat
    BY DEF Typed
  <2> QED
    BY <2>1 DEF Cycle, IsCycle, IsDraft
<1>2. cycles' = Append(cycles, Cycle(output, TRUE, score, e))
  BY DEF Keep
<1>3. /\ IsList(cycles') /\ \A d \in Range(cycles') : IsCycle(d)
      /\ cycles' # <<>> /\ Last(cycles') = Cycle(output, TRUE, score, e)
  BY <1>1, <1>2, CyclesAppend DEF Typed
<1>4. pc' \in {"build", "done"}
  BY DEF Keep
<1>5. session' = session /\ output' = output /\ draft' = draft
  BY DEF Keep
<1> QED
  BY <1>1, <1>3, <1>4, <1>5 DEF Typed

\* What one step does to the evaluation in progress and to the last cycle.
LEMMA UnevaluatedFacts ==
  ASSUME Typed, NEW o, o.tokens \in Nat, cycles' = Append(cycles, Unevaluated(o))
  PROVE  /\ IsList(cycles') /\ \A d \in Range(cycles') : IsCycle(d)
         /\ cycles' # <<>> /\ Last(cycles').findings = <<>>
<1>1. IsCycle(Unevaluated(o)) /\ Unevaluated(o).findings = <<>>
  BY CycleFacts, NewDraftIsDraft DEF Unevaluated
<1> QED
  BY <1>1, CyclesAppend DEF Typed

LEMMA TestsFacts ==
  ASSUME Typed, NEW r \in TestRuns, MeasureTests(r)
  PROVE  /\ IsDraft(draft') /\ draft'.full = draft.full
         /\ \/ draft' = draft /\ failures' = failures
            \/ \A f \in Range(draft'.findings) : f.dim = "tests" => f.title \in failures'
         /\ \A f \in Range(draft'.findings) : f \in Range(draft.findings) \/ f.dim = "tests"
         /\ \A f \in Range(draft.findings) :
              f.dim # "tests" => f \in Range(draft'.findings)
<1> DEFINE t == RunTests(session.project, r)
           e == Measured(draft, TestDimension(t), FailuresAsFindings(t))
<1>1. CASE t = None
  <2>1. draft' = draft /\ failures' = failures
    BY <1>1 DEF MeasureTests
  <2> QED
    BY <2>1 DEF Typed
<1>2. CASE t # None
  <2>1. draft' = [e EXCEPT !.testsPassed = t.allPassed]
        /\ failures' = Range(t.failures)
    BY <1>2 DEF MeasureTests
  <2>2. IsList(t.failures)
    BY <1>2, RunTestsFacts
  <2> HIDE DEF t
  <2>3. /\ IsList(FailuresAsFindings(t))
        /\ \A f \in Range(FailuresAsFindings(t)) :
             f.dim = "tests" /\ f.title \in Range(t.failures)
    BY <2>2, FailureFindings
  <2>4. TestDimension(t).name = "tests"
    BY DEF TestDimension, Dimension
  <2> DEFINE fs == Without(draft.findings, TestDimension(t).name)
                     \o FailuresAsFindings(t)
             ds == ReplaceOrAdd(draft.dims, TestDimension(t))
  <2>5. /\ e = [full |-> draft.full, dims |-> ds, findings |-> fs,
                testsPassed |-> draft.testsPassed, lintPassed |-> draft.lintPassed]
        /\ IsList(e.findings)
        /\ \A f : f \in Range(e.findings)
                    <=> \/ f \in Range(FailuresAsFindings(t))
                        \/ f \in Range(draft.findings) /\ f.dim # TestDimension(t).name
    BY <2>3, MeasuredFacts DEF Typed
  <2> HIDE DEF e, fs, ds
  <2>6. draft' = [full |-> draft.full, dims |-> ds, findings |-> fs,
                  testsPassed |-> t.allPassed, lintPassed |-> draft.lintPassed]
    BY <2>1, <2>5
  <2>7. e.findings = fs /\ draft'.findings = fs /\ draft'.full = draft.full
    BY <2>5, <2>6
  <2>8. draft.full \in BOOLEAN
    BY DEF Typed, IsDraft
  <2>9. IsDraft(draft')
    BY <2>5, <2>6, <2>7, <2>8 DEF IsDraft
  <2>10. \A f \in Range(draft'.findings) : f.dim = "tests" => f.title \in failures'
    BY <2>1, <2>3, <2>4, <2>5, <2>7
  <2>11. \A f \in Range(draft.findings) :
           f.dim # "tests" => f \in Range(draft'.findings)
    BY <2>4, <2>5, <2>7
  <2>12. \A f \in Range(draft'.findings) : f \in Range(draft.findings) \/ f.dim = "tests"
    BY <2>3, <2>5, <2>7
  <2> QED
    BY <2>7, <2>9, <2>10, <2>11, <2>12
<1> QED
  BY <1>1, <1>2

LEMMA LintFacts ==
  ASSUME Typed, NEW r \in LintRuns, MeasureLint(r)
  PROVE  /\ IsDraft(draft') /\ draft'.full = draft.full
         /\ \A f \in Range(draft'.findings) :
              f \in Range(draft.findings) \/ f.dim = "static_analysis"
         /\ \/ draft' = draft /\ issues' = issues
            \/ \A f \in Range(draft'.findings) :
                 f.dim = "static_analysis" => f.title \in issues'
         /\ \A f \in Range(draft.findings) :
              f.dim # "static_analysis" => f \in Range(draft'.findings)
<1> DEFINE l == RunLint(session.project, r)
           e == Measured(draft, LintDimension(l), IssuesAsFindings(l))
<1>1. CASE l = None
  <2>1. draft' = draft /\ issues' = issues
    BY <1>1 DEF MeasureLint
  <2> QED
    BY <2>1 DEF Typed
<1>2. CASE l # None
  <2>1. draft' = [e EXCEPT !.lintPassed = l.allClean] /\ issues' = Range(l.issues)
    BY <1>2 DEF MeasureLint
  <2>2. /\ IsList(IssuesAsFindings(l))
        /\ \A f \in Range(IssuesAsFindings(l)) :
             f.dim = "static_analysis" /\ f.title \in Range(l.issues)
    BY <1>2, LintFindings
  <2> HIDE DEF l
  <2>3. LintDimension(l).name = "static_analysis"
    BY DEF LintDimension, Dimension
  <2> DEFINE fs == Without(draft.findings, LintDimension(l).name)
                     \o IssuesAsFindings(l)
             ds == ReplaceOrAdd(draft.dims, LintDimension(l))
  <2>4. /\ e = [full |-> draft.full, dims |-> ds, findings |-> fs,
                testsPassed |-> draft.testsPassed, lintPassed |-> draft.lintPassed]
        /\ IsList(e.findings)
        /\ \A f : f \in Range(e.findings)
                    <=> \/ f \in Range(IssuesAsFindings(l))
                        \/ f \in Range(draft.findings) /\ f.dim # LintDimension(l).name
    BY <2>2, MeasuredFacts DEF Typed
  <2> HIDE DEF e, fs, ds
  <2>5. draft' = [full |-> draft.full, dims |-> ds, findings |-> fs,
                  testsPassed |-> draft.testsPassed, lintPassed |-> l.allClean]
    BY <2>1, <2>4
  <2>6. e.findings = fs /\ draft'.findings = fs /\ draft'.full = draft.full
    BY <2>4, <2>5
  <2>7. draft.full \in BOOLEAN
    BY DEF Typed, IsDraft
  <2>8. IsDraft(draft')
    BY <2>4, <2>5, <2>6, <2>7 DEF IsDraft
  <2>9. \A f \in Range(draft'.findings) :
          f \in Range(draft.findings) \/ f.dim = "static_analysis"
    BY <2>2, <2>4, <2>6
  <2>10. \A f \in Range(draft.findings) :
           f.dim # "static_analysis" => f \in Range(draft'.findings)
    BY <2>3, <2>4, <2>6
  <2>11. \A f \in Range(draft'.findings) :
           f.dim = "static_analysis" => f.title \in issues'
    BY <2>1, <2>2, <2>3, <2>4, <2>6
  <2> QED
    BY <2>6, <2>8, <2>9, <2>10, <2>11
<1> QED
  BY <1>1, <1>2

LEMMA FullFacts ==
  ASSUME Typed, NEW lines \in Answers, EvaluateFull(lines)
  PROVE  /\ IsDraft(draft') /\ draft'.full = draft.full
         /\ \A f \in Range(draft'.findings) :
              f \in Range(draft.findings) \/ f.dim = ""
<1> DEFINE a == ParseEvalResponse(lines, Rubric)
           fs == draft.findings \o a.findings
           ds == draft.dims \o a.dims
<1>1. draft' = [draft EXCEPT !.dims = ds, !.findings = fs]
  BY DEF EvaluateFull
<1>2. IsList(a.findings) /\ \A f \in Range(a.findings) : f.dim = ""
  BY EvalFindings
<1>3. IsDraft(draft) /\ IsList(draft.findings)
  BY DEF Typed, IsDraft
<1>4. IsList(fs) /\ Range(fs) = Range(draft.findings) \union Range(a.findings)
  BY <1>2, <1>3, ConcatIsList
<1> HIDE DEF a, fs, ds
<1>5. PICK full, dims, old, tests, lint :
        draft = [full |-> full, dims |-> dims, findings |-> old,
                 testsPassed |-> tests, lintPassed |-> lint]
  BY <1>3 DEF IsDraft
<1>6. draft.full = full
  BY <1>5
<1>7. draft' = [full |-> full, dims |-> ds, findings |-> fs,
                testsPassed |-> tests, lintPassed |-> lint]
  BY <1>1, <1>5
<1>8. draft'.full = full /\ draft'.findings = fs /\ full \in BOOLEAN
  BY <1>3, <1>6, <1>7 DEF IsDraft
<1>9. IsDraft(draft')
  BY <1>4, <1>7, <1>8 DEF IsDraft
<1>10. ASSUME NEW f \in Range(draft'.findings)
       PROVE  f \in Range(draft.findings) \/ f.dim = ""
  <2>1. f \in Range(fs)
    BY <1>8
  <2> QED
    BY <1>2, <1>4, <2>1
<1> QED
  BY <1>6, <1>8, <1>9, <1>10

LEMMA ChangeFacts ==
  ASSUME Typed, NEW lines \in Answers, EvaluateChange(lines)
  PROVE  /\ IsDraft(draft') /\ draft'.full = draft.full
         /\ \A f \in Range(draft'.findings) :
              f \in Range(draft.findings) \/ f.dim = "general"
         /\ \A f \in Range(draft.findings) :
              f.id \in Range(answer'.resolved) \/ f \in Range(draft'.findings)
         /\ Range(answer'.new) \subseteq Range(draft'.findings)
<1> DEFINE a == ParseIncremental(lines, Rubric)
<1>1. /\ draft' = Merged(draft, a)
      /\ answer' = [dims |-> a.dims, resolved |-> a.resolved, new |-> a.new]
  BY DEF EvaluateChange
<1>2. IsList(a.new) /\ \A f \in Range(a.new) : f.dim = "general"
  BY IncrementalFindings
<1>3. IsDraft(draft)
  BY DEF Typed
<1> HIDE DEF a
<1>4. /\ IsDraft(draft') /\ draft'.full = draft.full
      /\ \A f : f \in Range(draft'.findings)
                  <=> \/ f \in Range(a.new)
                      \/ f \in Range(draft.findings) /\ f.id \notin Range(a.resolved)
  BY <1>1, <1>2, <1>3, MergedFacts
<1>5. answer'.resolved = a.resolved /\ answer'.new = a.new
  BY <1>1
<1> QED
  BY <1>2, <1>4, <1>5

LEMMA TypedInit ==
  ASSUME Init
  PROVE  Typed
<1>1. /\ session \in Sessions /\ draft = NewDraft /\ cycles = <<>>
      /\ output = [lines |-> <<>>, tokens |-> 0, straddles |-> FALSE]
  BY DEF Init
<1>2. output.tokens = 0
  BY <1>1
<1> QED
  BY <1>1, <1>2, NewDraftIsDraft, EmptyIsList DEF Typed

LEMMA TypedStep ==
  ASSUME Typed, [Next]_vars
  PROVE  Typed'
<1>1. ASSUME UNCHANGED <<session, cycles, output, draft>>
      PROVE  Typed'
  BY <1>1 DEF Typed
<1>2. ASSUME UNCHANGED <<session, cycles, output>>, IsDraft(draft')
      PROVE  Typed'
  BY <1>2 DEF Typed
<1>3. CASE UNCHANGED vars
  BY <1>1, <1>3 DEF vars
<1>4. CASE Prepare
  BY <1>1, <1>4 DEF Prepare
<1>5. CASE Build
  BY <1>1, <1>5 DEF Build
<1>6. CASE Unasked
  BY <1>1, <1>6 DEF Unasked
<1>7. CASE Overflow
  <2> DEFINE note == [lines |-> <<"overflow">>, tokens |-> 1, straddles |-> FALSE]
  <2>1. /\ cycles' = Append(cycles, Unevaluated(note))
        /\ UNCHANGED <<session, output, draft>>
    BY <1>7 DEF Overflow
  <2>2. note.tokens \in Nat
    OBVIOUS
  <2> HIDE DEF note
  <2>3. IsList(cycles') /\ \A d \in Range(cycles') : IsCycle(d)
    BY <2>1, <2>2, UnevaluatedFacts
  <2> QED
    BY <2>1, <2>3 DEF Typed
<1>8. CASE Decide
  <2>1. Keep(draft, CompositeScore(draft.dims)) /\ IsDraft(draft)
    BY <1>8 DEF Decide, Typed
  <2> QED
    BY <2>1, KeepFacts
<1>9. ASSUME NEW o \in Outputs, Execute(o)
      PROVE  Typed'
  <2>1. o.tokens \in Nat
    BY EvaluationAssumption
  <2>2. output' = o /\ session' = session
    BY <1>9 DEF Execute
  <2>3. CASE ShouldSkipEval(o)
    <3>1. cycles' = Append(cycles, Unevaluated(o)) /\ draft' = draft
      BY <1>9, <2>3 DEF Execute
    <3>2. IsList(cycles') /\ \A d \in Range(cycles') : IsCycle(d)
      BY <2>1, <3>1, UnevaluatedFacts
    <3> QED
      BY <2>1, <2>2, <3>1, <3>2 DEF Typed
  <2>4. CASE ~ShouldSkipEval(o)
    <3>1. draft' = StartEvaluation(o) /\ cycles' = cycles
      BY <1>9, <2>4 DEF Execute
    <3>2. IsDraft(draft')
      BY <3>1, StartFacts DEF Typed
    <3> QED
      BY <2>1, <2>2, <3>1, <3>2 DEF Typed
  <2> QED
    BY <2>3, <2>4
<1>10. ASSUME NEW r \in TestRuns, MeasureTests(r)
       PROVE  Typed'
  <2>1. UNCHANGED <<session, cycles, output>>
    BY <1>10 DEF MeasureTests
  <2> QED
    BY <1>2, <1>10, <2>1, TestsFacts
<1>11. ASSUME NEW r \in TestRuns, EvaluationFails(r)
       PROVE  Typed'
  BY <1>11, NewDraftIsDraft, KeepFacts DEF EvaluationFails
<1>12. ASSUME NEW r \in LintRuns, MeasureLint(r)
       PROVE  Typed'
  <2>1. UNCHANGED <<session, cycles, output>>
    BY <1>12 DEF MeasureLint
  <2> QED
    BY <1>2, <1>12, <2>1, LintFacts
<1>13. ASSUME NEW a \in Answers, EvaluateFull(a)
       PROVE  Typed'
  <2>1. UNCHANGED <<session, cycles, output>>
    BY <1>13 DEF EvaluateFull
  <2> QED
    BY <1>2, <1>13, <2>1, FullFacts
<1>14. ASSUME NEW a \in Answers, EvaluateChange(a)
       PROVE  Typed'
  <2>1. UNCHANGED <<session, cycles, output>>
    BY <1>14 DEF EvaluateChange
  <2> QED
    BY <1>2, <1>14, <2>1, ChangeFacts
<1> QED
  BY <1>3, <1>4, <1>5, <1>6, <1>7, <1>8, <1>9, <1>10, <1>11, <1>12, <1>13, <1>14
     DEF Next

-----------------------------------------------------------------------------
(* No stale failure *)

\* The failures and issues among the findings are of the last run of their tool.
FreshTests(findings) ==
  \A f \in Range(findings) : f.dim = "tests" => f.title \in failures

FreshLint(findings) ==
  \A f \in Range(findings) : f.dim = "static_analysis" => f.title \in issues

Fresh(findings) == FreshTests(findings) /\ FreshLint(findings)

Measures == {"tests", "static_analysis"}

\* The evaluation in progress may start from the previous one, so both are
\* fresh until a tool has measured, and the new one from then on.
FreshInv ==
  /\ pc \in {"tests", "lint", "llm", "decide"} => Fresh(draft.findings)
  /\ pc \notin {"lint", "llm", "decide"} /\ cycles # <<>> =>
       Fresh(Last(cycles).findings)

\* Findings that no tool made change nothing.
LEMMA FreshKept ==
  ASSUME Fresh(draft.findings), UNCHANGED <<failures, issues>>,
         \A f \in Range(draft'.findings) :
           f \in Range(draft.findings) \/ f.dim \notin Measures
  PROVE  Fresh(draft.findings)'
BY DEF Fresh, FreshTests, FreshLint, Measures

LEMMA NothingIsFresh == Fresh(<<>>)
BY EmptyIsList DEF Fresh, FreshTests, FreshLint

\* The last cycle is fresh if it has the findings of something that was.
LEMMA FreshLast ==
  ASSUME NEW findings, Fresh(findings), UNCHANGED <<failures, issues>>,
         Last(cycles').findings = findings
  PROVE  Fresh(Last(cycles).findings)'
BY DEF Fresh, FreshTests, FreshLint

LEMMA FreshInit ==
  ASSUME Init
  PROVE  FreshInv
BY DEF Init, FreshInv

LEMMA FreshKeep ==
  ASSUME Typed, NEW e, IsDraft(e), NEW score, Keep(e, score), Fresh(e.findings)
  PROVE  FreshInv'
<1>1. cycles' # <<>> /\ Last(cycles').findings = e.findings /\ pc' \in {"build", "done"}
  BY KeepFacts
<1>2. UNCHANGED <<failures, issues>>
  BY DEF Keep
<1>3. Fresh(Last(cycles).findings)'
  BY <1>1, <1>2, FreshLast
<1> QED
  BY <1>1, <1>3 DEF FreshInv

LEMMA FreshStep ==
  ASSUME Typed, FreshInv, [Next]_vars
  PROVE  FreshInv'
<1> USE DEF FreshInv
<1>1. CASE UNCHANGED vars
  BY <1>1 DEF vars, Fresh, FreshTests, FreshLint
<1>2. CASE Prepare
  BY <1>2 DEF Prepare, Fresh, FreshTests, FreshLint
<1>3. CASE Build
  <2>1. pc' \in {"panicked", "execute"} /\ pc = "build"
        /\ UNCHANGED <<cycles, draft, failures, issues>>
    BY <1>3 DEF Build
  <2> QED
    BY <2>1 DEF Fresh, FreshTests, FreshLint
<1>4. CASE Unasked
  BY <1>4 DEF Unasked, Fresh, FreshTests, FreshLint
<1>5. ASSUME NEW o, o.tokens \in Nat, cycles' = Append(cycles, Unevaluated(o)),
             pc' \in {"done", "build"}, UNCHANGED <<failures, issues>>
      PROVE  FreshInv'
  <2>1. Last(cycles').findings = <<>>
    BY <1>5, UnevaluatedFacts
  <2>2. Fresh(Last(cycles).findings)'
    BY <1>5, <2>1, NothingIsFresh, FreshLast
  <2> QED
    BY <1>5, <2>2
<1>6. CASE Overflow
  <2> DEFINE note == [lines |-> <<"overflow">>, tokens |-> 1, straddles |-> FALSE]
  <2>1. cycles' = Append(cycles, Unevaluated(note)) /\ pc' \in {"done", "build"}
        /\ UNCHANGED <<failures, issues>>
    BY <1>6 DEF Overflow
  <2>2. note.tokens \in Nat
    OBVIOUS
  <2> HIDE DEF note
  <2> QED
    BY <1>5, <2>1, <2>2
<1>7. CASE Decide
  <2>1. Keep(draft, CompositeScore(draft.dims)) /\ IsDraft(draft) /\ pc = "decide"
    BY <1>7 DEF Decide, Typed
  <2>2. Fresh(draft.findings)
    BY <2>1
  <2> HIDE DEF FreshInv
  <2> QED
    BY <2>1, <2>2, FreshKeep
<1>8. ASSUME NEW r \in TestRuns, EvaluationFails(r)
      PROVE  FreshInv'
  <2>1. Keep(Failed, 50)
    BY <1>8 DEF EvaluationFails
  <2>2. Fresh(Failed.findings)
    BY NewDraftIsDraft, NothingIsFresh
  <2> HIDE DEF FreshInv
  <2> QED
    BY <2>1, <2>2, NewDraftIsDraft, FreshKeep
<1>9. ASSUME NEW o \in Outputs, Execute(o)
      PROVE  FreshInv'
  <2>1. o.tokens \in Nat
    BY EvaluationAssumption
  <2>2. CASE ShouldSkipEval(o)
    <3>1. cycles' = Append(cycles, Unevaluated(o)) /\ pc' = "done"
          /\ UNCHANGED <<failures, issues>>
      BY <1>9, <2>2 DEF Execute
    <3> QED
      BY <1>5, <2>1, <3>1
  <2>3. CASE ~ShouldSkipEval(o)
    <3>1. /\ draft' = StartEvaluation(o) /\ cycles' = cycles /\ pc' = "tests"
          /\ pc = "execute" /\ UNCHANGED <<failures, issues>>
      BY <1>9, <2>3 DEF Execute
    <3>2. /\ draft'.full \in BOOLEAN
          /\ draft'.full => draft'.findings = <<>>
          /\ ~draft'.full =>
               cycles # <<>> /\ draft'.findings = Last(cycles).findings
      BY <3>1, StartFacts DEF Typed, IsDraft
    <3>3. cycles # <<>> => Fresh(Last(cycles).findings)
      BY <3>1
    <3>4. Fresh(draft'.findings)
      <4>1. CASE draft'.full
        BY <3>2, <4>1, NothingIsFresh
      <4>2. CASE ~draft'.full
        BY <3>2, <3>3, <4>2
      <4> QED
        BY <3>2, <4>1, <4>2
    <3>5. /\ Fresh(draft.findings)'
          /\ cycles # <<>> => Fresh(Last(cycles).findings)'
      BY <3>1, <3>3, <3>4 DEF Fresh, FreshTests, FreshLint
    <3> QED
      BY <3>1, <3>5
  <2> QED
    BY <2>2, <2>3
<1>10. ASSUME NEW r \in TestRuns, MeasureTests(r)
       PROVE  FreshInv'
  <2>1. pc = "tests" /\ pc' = "lint" /\ issues' = issues
    BY <1>10 DEF MeasureTests
  <2>2. /\ \/ draft' = draft /\ failures' = failures
           \/ \A f \in Range(draft'.findings) : f.dim = "tests" => f.title \in failures'
        /\ \A f \in Range(draft'.findings) : f \in Range(draft.findings) \/ f.dim = "tests"
    BY <1>10, TestsFacts
  <2>3. FreshTests(draft.findings)'
    BY <2>1, <2>2 DEF Fresh, FreshTests
  <2>4. FreshLint(draft.findings)'
    BY <2>1, <2>2 DEF Fresh, FreshLint
  <2> QED
    BY <2>1, <2>3, <2>4 DEF Fresh
<1>11. ASSUME NEW r \in LintRuns, MeasureLint(r)
       PROVE  FreshInv'
  <2>1. pc = "lint" /\ pc' = "llm" /\ failures' = failures
    BY <1>11 DEF MeasureLint
  <2>2. /\ \/ draft' = draft /\ issues' = issues
           \/ \A f \in Range(draft'.findings) :
                f.dim = "static_analysis" => f.title \in issues'
        /\ \A f \in Range(draft'.findings) :
             f \in Range(draft.findings) \/ f.dim = "static_analysis"
    BY <1>11, LintFacts
  <2>3. FreshTests(draft.findings)'
    BY <2>1, <2>2 DEF Fresh, FreshTests
  <2>4. FreshLint(draft.findings)'
    BY <2>1, <2>2 DEF Fresh, FreshLint
  <2> QED
    BY <2>1, <2>3, <2>4 DEF Fresh
<1>12. ASSUME NEW a \in Answers, EvaluateFull(a)
       PROVE  FreshInv'
  <2>1. pc = "llm" /\ pc' = "decide" /\ UNCHANGED <<failures, issues>>
    BY <1>12 DEF EvaluateFull
  <2>2. \A f \in Range(draft'.findings) :
          f \in Range(draft.findings) \/ f.dim = ""
    BY <1>12, FullFacts
  <2>3. \A f \in Range(draft'.findings) :
          f \in Range(draft.findings) \/ f.dim \notin Measures
    BY <2>2 DEF Measures
  <2> QED
    BY <2>1, <2>3, FreshKept
<1>13. ASSUME NEW a \in Answers, EvaluateChange(a)
       PROVE  FreshInv'
  <2>1. pc = "llm" /\ pc' = "decide" /\ UNCHANGED <<failures, issues>>
    BY <1>13 DEF EvaluateChange
  <2>2. \A f \in Range(draft'.findings) :
          f \in Range(draft.findings) \/ f.dim = "general"
    BY <1>13, ChangeFacts
  <2>3. \A f \in Range(draft'.findings) :
          f \in Range(draft.findings) \/ f.dim \notin Measures
    BY <2>2 DEF Measures
  <2> QED
    BY <2>1, <2>3, FreshKept
<1> QED
  BY <1>1, <1>2, <1>3, <1>4, <1>6, <1>7, <1>8, <1>9, <1>10, <1>11, <1>12, <1>13
     DEF Next

LEMMA TypedInv == Spec => []Typed
<1>1. Init => Typed
  BY TypedInit
<1>2. Typed /\ [Next]_vars => Typed'
  BY TypedStep
<1> QED
  BY <1>1, <1>2, PTL DEF Spec

\* Whatever the tests, the linter and the model say, and in whatever order
\* outputs are evaluated in full, in part or not at all: a failed test among the
\* current findings failed in the last run of the tests that could be read, and an
\* issue of the linter was in its last run.
THEOREM FailuresAreFresh == Spec => []NoStaleFailure
<1>1. Init => FreshInv
  BY FreshInit
<1>2. Typed /\ FreshInv /\ [Next]_vars => FreshInv'
  BY FreshStep
<1>3. FreshInv => NoStaleFailure
  <2>1. CASE pc \in {"lint", "llm", "decide"}
    BY <2>1 DEF FreshInv, NoStaleFailure, CurrentFindings, Fresh, FreshTests,
                FreshLint
  <2>2. CASE pc \notin {"lint", "llm", "decide"} /\ cycles # <<>>
    BY <2>2 DEF FreshInv, NoStaleFailure, CurrentFindings, Fresh, FreshTests,
                FreshLint
  <2>3. CASE pc \notin {"lint", "llm", "decide"} /\ cycles = <<>>
    BY <2>3, EmptyIsList DEF NoStaleFailure, CurrentFindings
  <2> QED
    BY <2>1, <2>2, <2>3
<1> QED
  BY <1>1, <1>2, <1>3, TypedInv, PTL DEF Spec

-----------------------------------------------------------------------------
(* Only what is resolved leaves *)

\* Until the model is asked, what it found before is still in an evaluation
\* that started from the last cycle, and nothing is resolved; afterwards only
\* what it called resolved is missing.
KeptInv ==
  /\ pc \in {"tests", "lint", "llm"} /\ ~draft.full =>
       /\ answer = NoAnswer
       /\ \A f \in Range(Last(cycles).findings) :
            f.dim \in {"tests", "static_analysis"} \/ f \in Range(draft.findings)
  /\ OnlyResolvedLeave

LEMMA KeptStep ==
  ASSUME Typed, KeptInv, [Next]_vars
  PROVE  KeptInv'
<1> USE DEF KeptInv, OnlyResolvedLeave
<1>1. CASE UNCHANGED vars
  BY <1>1 DEF vars
<1>2. ASSUME pc' \notin {"tests", "lint", "llm", "decide"}
      PROVE  KeptInv'
  BY <1>2
<1>3. CASE Prepare
  BY <1>2, <1>3 DEF Prepare
<1>4. CASE Build
  <2>1. pc' \in {"panicked", "execute"}
    BY <1>4 DEF Build
  <2> QED
    BY <1>2, <2>1
<1>5. CASE Unasked
  <2>1. NoAnswer.resolved = <<>> /\ NoAnswer.new = <<>>
    BY DEF NoAnswer
  <2>2. /\ pc = "llm" /\ pc' = "decide"
        /\ UNCHANGED <<cycles, draft, answer>>
    BY <1>5 DEF Unasked
  <2> QED
    BY <2>1, <2>2, EmptyIsList
<1>6. CASE Overflow
  <2>1. pc' \in {"done", "build"}
    BY <1>6 DEF Overflow
  <2> QED
    BY <1>2, <2>1
<1>7. ASSUME NEW e, NEW score, Keep(e, score)
      PROVE  KeptInv'
  <2>1. pc' \in {"done", "build"}
    BY <1>7 DEF Keep
  <2> QED
    BY <1>2, <2>1
<1>8. CASE Decide
  BY <1>7, <1>8 DEF Decide
<1>9. ASSUME NEW r \in TestRuns, EvaluationFails(r)
      PROVE  KeptInv'
  BY <1>7, <1>9 DEF EvaluationFails
<1>10. ASSUME NEW o \in Outputs, Execute(o)
       PROVE  KeptInv'
  <2>1. CASE ShouldSkipEval(o)
    <3>1. pc' = "done"
      BY <1>10, <2>1 DEF Execute
    <3> QED
      BY <1>2, <3>1
  <2>2. CASE ~ShouldSkipEval(o)
    <3>1. /\ draft' = StartEvaluation(o) /\ cycles' = cycles /\ pc' = "tests"
          /\ answer' = NoAnswer
      BY <1>10, <2>2 DEF Execute
    <3>2. ~draft'.full => draft'.findings = Last(cycles).findings
      BY <3>1, StartFacts DEF Typed
    <3> QED
      BY <3>1, <3>2
  <2> QED
    BY <2>1, <2>2
<1>11. ASSUME NEW r \in TestRuns, MeasureTests(r)
       PROVE  KeptInv'
  <2>1. pc = "tests" /\ pc' = "lint" /\ UNCHANGED <<cycles, answer>>
    BY <1>11 DEF MeasureTests
  <2>2. /\ draft'.full = draft.full
        /\ \A f \in Range(draft.findings) :
             f.dim # "tests" => f \in Range(draft'.findings)
    BY <1>11, TestsFacts
  <2> QED
    BY <2>1, <2>2
<1>12. ASSUME NEW r \in LintRuns, MeasureLint(r)
       PROVE  KeptInv'
  <2>1. pc = "lint" /\ pc' = "llm" /\ UNCHANGED <<cycles, answer>>
    BY <1>12 DEF MeasureLint
  <2>2. /\ draft'.full = draft.full
        /\ \A f \in Range(draft.findings) :
             f.dim # "static_analysis" => f \in Range(draft'.findings)
    BY <1>12, LintFacts
  <2> QED
    BY <2>1, <2>2
<1>13. ASSUME NEW a \in Answers, EvaluateFull(a)
       PROVE  KeptInv'
  <2>1. pc' = "decide" /\ draft.full
    BY <1>13 DEF EvaluateFull
  <2>2. draft'.full = draft.full
    BY <1>13, FullFacts
  <2> QED
    BY <2>1, <2>2
<1>14. ASSUME NEW a \in Answers, EvaluateChange(a)
       PROVE  KeptInv'
  <2>1. pc = "llm" /\ pc' = "decide" /\ ~draft.full /\ cycles' = cycles
    BY <1>14 DEF EvaluateChange
  <2>2. /\ \A f \in Range(draft.findings) :
             f.id \in Range(answer'.resolved) \/ f \in Range(draft'.findings)
        /\ Range(answer'.new) \subseteq Range(draft'.findings)
    BY <1>14, ChangeFacts
  <2> QED
    BY <2>1, <2>2
<1> QED
  BY <1>1, <1>3, <1>4, <1>5, <1>6, <1>8, <1>9, <1>10, <1>11, <1>12, <1>13, <1>14
     DEF Next

\* A finding of the model leaves an evaluation that started from the previous
\* one only by its number among the resolved ones, and no new finding is lost:
\* for any answer, with any numbers, also those given out twice.
THEOREM ResolvedOnly == Spec => []OnlyResolvedLeave
<1>1. Init => KeptInv
  BY DEF Init, KeptInv, OnlyResolvedLeave
<1>2. Typed /\ KeptInv /\ [Next]_vars => KeptInv'
  BY KeptStep
<1>3. KeptInv => OnlyResolvedLeave
  BY DEF KeptInv
<1> QED
  BY <1>1, <1>2, <1>3, TypedInv, PTL DEF Spec

-----------------------------------------------------------------------------
(* Sizes *)

\* A list of items with a size.
Sized(s) == IsList(s) /\ \A x \in Range(s) : x.tokens \in Nat

\* The tokens of one item.
LEMMA RowSize ==
  ASSUME NEW k, NEW n \in Nat
  PROVE  IsFiniteSet({k} \X (1 .. n)) /\ Cardinality({k} \X (1 .. n)) = n
<1>1. IsFiniteSet(1 .. n) /\ Cardinality(1 .. n) = n
  BY FS_Interval
<1>2. IsFiniteSet({k}) /\ Cardinality({k}) = 1
  BY FS_Singleton
<1>3. /\ IsFiniteSet({k} \X (1 .. n))
      /\ Cardinality({k} \X (1 .. n)) = Cardinality({k}) * Cardinality(1 .. n)
  BY <1>1, <1>2, FS_Product
<1> QED
  BY <1>1, <1>2, <1>3

LEMMA SizeIsNat ==
  ASSUME NEW s, Sized(s)
  PROVE  TokensOf(s) \in Nat
<1> DEFINE rows == {{k} \X (1 .. s[k].tokens) : k \in DOMAIN s}
           row == [k \in DOMAIN s |-> {k} \X (1 .. s[k].tokens)]
<1>1. DOMAIN s = 1 .. Len(s) /\ Len(s) \in Nat
  BY ListDomain DEF Sized
<1>2. IsFiniteSet(DOMAIN s)
  BY <1>1, FS_Interval
<1>3. row \in Surjection(DOMAIN s, rows)
  BY DEF Surjection
<1>4. IsFiniteSet(rows)
  BY <1>2, <1>3, FS_Surjection
<1>5. \A T \in rows : IsFiniteSet(T)
  <2>1. ASSUME NEW k \in DOMAIN s
        PROVE  IsFiniteSet({k} \X (1 .. s[k].tokens))
    <3>1. s[k].tokens \in Nat
      BY DEF Sized, Range
    <3> QED
      BY <3>1, RowSize
  <2> QED
    BY <2>1
<1>6. IsFiniteSet(UNION rows)
  BY <1>4, <1>5, FS_UNION
<1>7. TokensOf(s) = Cardinality(UNION rows)
  BY DEF TokensOf
<1> HIDE DEF rows
<1> QED
  BY <1>6, <1>7, FS_CardinalityType

LEMMA SizeOfNone == TokensOf(<<>>) = 0
<1>1. UNION {{k} \X (1 .. <<>>[k].tokens) : k \in DOMAIN <<>>} = {}
  OBVIOUS
<1> QED
  BY <1>1, FS_EmptySet DEF TokensOf

LEMMA SizeOfOne ==
  ASSUME NEW x, x.tokens \in Nat
  PROVE  TokensOf(<<x>>) = x.tokens
<1> DEFINE s == <<x>>
<1>1. DOMAIN s = {1} /\ s[1] = x
  OBVIOUS
<1> HIDE DEF s
<1>2. UNION {{k} \X (1 .. s[k].tokens) : k \in DOMAIN s} = {1} \X (1 .. x.tokens)
  BY <1>1
<1>3. TokensOf(s) = Cardinality({1} \X (1 .. x.tokens))
  BY <1>2 DEF TokensOf
<1>4. TokensOf(s) = x.tokens
  BY <1>3, RowSize
<1> QED
  BY <1>4 DEF s

LEMMA SizeOfTwo ==
  ASSUME NEW x, x.tokens \in Nat, NEW y, y.tokens \in Nat
  PROVE  TokensOf(<<x, y>>) = x.tokens + y.tokens
<1> DEFINE s == <<x, y>>
           first == {1} \X (1 .. x.tokens)
           second == {2} \X (1 .. y.tokens)
<1>1. DOMAIN s = {1, 2} /\ s[1] = x /\ s[2] = y
  OBVIOUS
<1> HIDE DEF s
<1>2. UNION {{k} \X (1 .. s[k].tokens) : k \in DOMAIN s} = first \union second
  BY <1>1
<1>3. TokensOf(s) = Cardinality(first \union second)
  BY <1>2 DEF TokensOf
<1>4. first \intersect second = {}
  OBVIOUS
<1>5. /\ IsFiniteSet(first) /\ Cardinality(first) = x.tokens
      /\ IsFiniteSet(second) /\ Cardinality(second) = y.tokens
  BY RowSize
<1> HIDE DEF first, second
<1>6. Cardinality(first \union second)
        = Cardinality(first) + Cardinality(second) - Cardinality(first \intersect second)
  BY <1>5, FS_Union
<1>7. Cardinality(first \intersect second) = 0
  BY <1>4, FS_EmptySet
<1> QED
  BY <1>3, <1>5, <1>6, <1>7 DEF s

LEMMA PrefixFacts ==
  ASSUME NEW s, IsList(s), NEW n \in 0 .. Len(s)
  PROVE  /\ IsList(SubSeq(s, 1, n)) /\ Len(SubSeq(s, 1, n)) = n
         /\ \A k \in 1 .. n : SubSeq(s, 1, n)[k] = s[k]
<1>1. s \in Seq(Range(s)) /\ Len(s) \in Nat
  BY DEF IsList
<1>2. SubSeq(s, 1, n) \in Seq(Range(s)) /\ Len(SubSeq(s, 1, n)) = n
  BY <1>1
<1>3. \A k \in 1 .. n : SubSeq(s, 1, n)[k] = s[k]
  BY <1>1
<1> QED
  BY <1>2, <1>3, ListFacts

LEMMA TakeFacts ==
  ASSUME NEW s, IsList(s), NEW n \in Nat
  PROVE  /\ Take(s, n) = SubSeq(s, 1, Least(n, Len(s)))
         /\ Least(n, Len(s)) \in 0 .. Len(s) /\ Least(n, Len(s)) <= n
         /\ n <= Len(s) => Least(n, Len(s)) = n
         /\ IsList(Take(s, n)) /\ Len(Take(s, n)) = Least(n, Len(s))
         /\ \A k \in 1 .. Len(Take(s, n)) : Take(s, n)[k] = s[k]
         /\ \A x \in Range(Take(s, n)) : x \in Range(s)
<1>1. Len(s) \in Nat
  BY ListDomain
<1>2. /\ Least(n, Len(s)) \in 0 .. Len(s) /\ Least(n, Len(s)) <= n
      /\ n <= Len(s) => Least(n, Len(s)) = n
  BY <1>1 DEF Least
<1>3. Take(s, n) = SubSeq(s, 1, Least(n, Len(s)))
  BY DEF Take
<1>4. /\ IsList(Take(s, n)) /\ Len(Take(s, n)) = Least(n, Len(s))
      /\ \A k \in 1 .. Len(Take(s, n)) : Take(s, n)[k] = s[k]
  BY <1>2, <1>3, PrefixFacts
<1>5. \A k \in 1 .. Len(Take(s, n)) : k \in 1 .. Len(s)
  BY <1>1, <1>2, <1>4
<1>6. ASSUME NEW x \in Range(Take(s, n))
      PROVE  x \in Range(s)
  <2>1. PICK k \in 1 .. Len(Take(s, n)) : Take(s, n)[k] = x
    BY <1>4, ListDomain
  <2>2. k \in 1 .. Len(s) /\ s[k] = x
    BY <1>4, <1>5, <2>1
  <2> QED
    BY <2>2, ListDomain
<1> QED
  BY <1>2, <1>3, <1>4, <1>6

LEMMA TakeNone ==
  ASSUME NEW s, IsList(s)
  PROVE  Take(s, 0) = <<>>
<1>1. IsList(Take(s, 0)) /\ Len(Take(s, 0)) = 0
  <2>1. Least(0, Len(s)) \in 0 .. Len(s) /\ Least(0, Len(s)) <= 0
    BY TakeFacts
  <2>2. Len(s) \in Nat
    BY ListDomain
  <2> QED
    BY <2>1, <2>2, TakeFacts
<1> QED
  BY <1>1 DEF IsList

-----------------------------------------------------------------------------
(* Recall *)

\* A section takes the items that fit, up to the first that does not.
LEMMA FillFacts ==
  ASSUME NEW items, Sized(items), NEW used \in Nat, NEW budget \in Nat,
         used <= budget
  PROVE  /\ Fill(items, used, budget).used \in Nat
         /\ Fill(items, used, budget).used <= budget
         /\ \E n \in 0 .. Len(items) : Fill(items, used, budget).taken = Take(items, n)
<1> DEFINE after(n) == used + TokensOf(Take(items, n))
           Right(n) == /\ \A m \in 1 .. n : after(m) <= budget
                       /\ n = Len(items) \/ after(n + 1) > budget
           beyond == {m \in 1 .. Len(items) : after(m) > budget}
           count == CHOOSE n \in 0 .. Len(items) : Right(n)
<1>1. IsList(items) /\ Len(items) \in Nat
  BY ListDomain DEF Sized
<1>2. Fill(items, used, budget) = [used |-> after(count), taken |-> Take(items, count)]
  BY DEF Fill
<1>3. ASSUME NEW n \in Nat
      PROVE  after(n) \in Nat
  <2>1. Sized(Take(items, n))
    BY <1>1, TakeFacts DEF Sized
  <2>2. TokensOf(Take(items, n)) \in Nat
    BY <2>1, SizeIsNat
  <2> QED
    BY <2>2
<1>4. after(0) = used
  BY <1>1, TakeNone, SizeOfNone
<1> HIDE DEF after
<1>5. \E n \in 0 .. Len(items) : Right(n)
  <2>1. CASE beyond = {}
    <3>1. \A m \in 1 .. Len(items) : after(m) <= budget
      <4>1. \A m \in 1 .. Len(items) : ~(after(m) > budget)
        BY <2>1
      <4> QED
        BY <1>1, <1>3, <4>1
    <3>2. Right(Len(items)) /\ Len(items) \in 0 .. Len(items)
      BY <1>1, <3>1
    <3> QED
      BY <3>2
  <2>2. CASE beyond # {}
    <3>1. beyond \in SUBSET Nat
      BY <1>1
    <3>2. PICK first : first \in beyond /\ \A x \in beyond : first <= x
      BY <2>2, <3>1, MinIsIn
    <3>3. first \in 1 .. Len(items) /\ after(first) > budget
      BY <3>2
    <3>4. ASSUME NEW m \in 1 .. first - 1
          PROVE  after(m) <= budget
      <4>1. m \in 1 .. Len(items) /\ ~(first <= m)
        BY <1>1, <3>3
      <4>2. ~(after(m) > budget)
        BY <3>2, <4>1
      <4> QED
        BY <1>3, <4>2
    <3>5. first - 1 \in 0 .. Len(items) /\ (first - 1) + 1 = first
      BY <1>1, <3>3
    <3>6. Right(first - 1)
      BY <3>3, <3>4, <3>5
    <3> QED
      BY <3>5, <3>6
  <2> QED
    BY <2>1, <2>2
<1>6. count \in 0 .. Len(items) /\ Right(count)
  BY <1>5
<1> HIDE DEF count
<1>7. after(count) <= budget
  <2>1. CASE count = 0
    BY <1>4, <2>1
  <2>2. CASE count # 0
    <3>1. count \in 1 .. count
      BY <1>6, <2>2
    <3> QED
      BY <1>6, <3>1
  <2> QED
    BY <2>1, <2>2
<1>8. after(count) \in Nat
  BY <1>3, <1>6
<1>9. /\ Fill(items, used, budget).used = after(count)
      /\ Fill(items, used, budget).taken = Take(items, count)
  BY <1>2
<1> QED
  BY <1>6, <1>7, <1>8, <1>9

\* Lessons with a size and a confidence.
Lessons(s) ==
  IsList(s) /\ \A l \in Range(s) : l.confidence \in Nat /\ l.tokens \in Nat

LEMMA OfTypeFacts ==
  ASSUME NEW learnings, Lessons(learnings), NEW type
  PROVE  Lessons(OfType(learnings, type))
<1> DEFINE places == {k \in DOMAIN learnings : learnings[k].type = type}
<1>1. OfType(learnings, type) = EntriesAt(learnings, places)
  BY DEF OfType
<1>2. places \in SUBSET DOMAIN learnings /\ IsList(learnings)
  BY DEF Lessons
<1>3. \A k \in places : learnings[k] \in Range(learnings)
  BY <1>2 DEF Range
<1> HIDE DEF places
<1>4. /\ IsList(OfType(learnings, type))
      /\ \A x : x \in Range(OfType(learnings, type)) <=> \E k \in places : learnings[k] = x
  BY <1>1, <1>2, EntriesFacts
<1> QED
  BY <1>3, <1>4 DEF Lessons

\* A query gives lessons of the type, and what it takes of them first is trusted
\* at least as much as what it leaves.
LEMMA QueryFacts ==
  ASSUME NEW learnings, Lessons(learnings), NEW type, NEW limit \in Nat
  PROVE  LET q == QueryLearningsByType(learnings, type, limit)
         IN  /\ Sized(q)
             /\ \A n \in 0 .. Len(q) :
                  \A x \in Range(OfType(learnings, type)), y \in Range(Take(q, n)) :
                    x \in Range(Take(q, n)) \/ x.confidence <= y.confidence
<1> DEFINE items == OfType(learnings, type)
           S == DOMAIN items
           before == {p \in S \X S :
                       \/ items[p[1]].confidence > items[p[2]].confidence
                       \/ items[p[1]].confidence = items[p[2]].confidence /\ p[1] < p[2]}
           at == Arranged(S, before)
           sorted == [k \in DOMAIN at |-> items[at[k]]]
           q == QueryLearningsByType(learnings, type, limit)
<1>1. q = Take(sorted, limit)
  BY DEF QueryLearningsByType, Descending
<1>2. Lessons(items)
  BY OfTypeFacts
<1>3. \A i, k \in S : <<i, k>> \in before
                        <=> \/ items[i].confidence > items[k].confidence
                            \/ items[i].confidence = items[k].confidence /\ i < k
  OBVIOUS
<1> HIDE DEF before, items, q
<1>4. S = 1 .. Len(items) /\ Len(items) \in Nat
  BY <1>2, ListDomain DEF Lessons
<1>5. \A k \in S : /\ items[k].confidence \in Nat /\ items[k].tokens \in Nat
                   /\ items[k] \in Range(items)
  BY <1>2 DEF Lessons, Range
<1>6. IsFiniteSet(S)
  BY <1>4, FS_Interval
<1> HIDE DEF S
<1>7. StrictOrder(before, S)
  <2>1. \A k \in S : items[k].confidence \in Int /\ k \in Int
    BY <1>4, <1>5
  <2>2. \A i \in S : <<i, i>> \notin before
    BY <1>3, <2>1
  <2>3. ASSUME NEW i \in S, NEW j \in S, NEW k \in S,
               <<i, j>> \in before, <<j, k>> \in before
        PROVE  <<i, k>> \in before
    <3>1. /\ \/ items[i].confidence > items[j].confidence
             \/ items[i].confidence = items[j].confidence /\ i < j
          /\ \/ items[j].confidence > items[k].confidence
             \/ items[j].confidence = items[k].confidence /\ j < k
      BY <1>3, <2>3
    <3>2. \/ items[i].confidence > items[k].confidence
          \/ items[i].confidence = items[k].confidence /\ i < k
      BY <2>1, <3>1
    <3> QED
      BY <1>3, <3>2
  <2>4. ASSUME NEW i \in S, NEW j \in S, i # j
        PROVE  <<i, j>> \in before \/ <<j, i>> \in before
    <3>1. \/ items[i].confidence > items[j].confidence
          \/ items[j].confidence > items[i].confidence
          \/ items[i].confidence = items[j].confidence /\ (i < j \/ j < i)
      BY <2>1, <2>4
    <3> QED
      BY <1>3, <3>1
  <2> QED
    BY <2>2, <2>3, <2>4 DEF StrictOrder
<1>8. Lists(at, S, before)
  BY <1>6, <1>7, ArrangedFacts
<1> HIDE DEF at
<1>9. /\ DOMAIN at = 1 .. Len(at) /\ Len(at) \in Nat
      /\ \A n \in 1 .. Len(at) : at[n] \in S
      /\ \A m, n \in 1 .. Len(at) : m < n => <<at[m], at[n]>> \in before
      /\ \A k \in S : \E n \in 1 .. Len(at) : at[n] = k
  BY <1>8 DEF Lists
<1>10. /\ IsList(sorted) /\ Len(sorted) = Len(at)
       /\ \A n \in 1 .. Len(at) : sorted[n] = items[at[n]]
  <2>1. sorted = [n \in 1 .. Len(at) |-> sorted[n]]
    BY <1>9
  <2>2. IsList(sorted) /\ Len(sorted) = Len(at)
    BY <1>9, <2>1, FunctionIsList
  <2> QED
    BY <1>9, <2>2
<1> HIDE DEF sorted
<1>11. \A m, n \in 1 .. Len(at) :
         m < n => sorted[n].confidence <= sorted[m].confidence
  <2>1. ASSUME NEW m \in 1 .. Len(at), NEW n \in 1 .. Len(at), m < n
        PROVE  sorted[n].confidence <= sorted[m].confidence
    <3>1. <<at[m], at[n]>> \in before /\ at[m] \in S /\ at[n] \in S
      BY <1>9, <2>1
    <3>2. \/ items[at[m]].confidence > items[at[n]].confidence
          \/ items[at[m]].confidence = items[at[n]].confidence
      BY <1>3, <3>1
    <3>3. items[at[m]].confidence \in Nat /\ items[at[n]].confidence \in Nat
      BY <1>5, <3>1
    <3>4. items[at[n]].confidence <= items[at[m]].confidence
      BY <3>2, <3>3
    <3> QED
      BY <1>10, <3>4
  <2> QED
    BY <2>1
<1>12. /\ IsList(q) /\ Len(q) <= Len(at) /\ Len(q) \in Nat
       /\ \A k \in 1 .. Len(q) : q[k] = sorted[k]
  <2>1. /\ IsList(q) /\ Len(q) = Least(limit, Len(sorted))
        /\ Least(limit, Len(sorted)) \in 0 .. Len(sorted)
        /\ \A k \in 1 .. Len(q) : q[k] = sorted[k]
    BY <1>1, <1>10, TakeFacts
  <2> QED
    BY <1>9, <1>10, <2>1
<1>13. Sized(q)
  <2>1. ASSUME NEW x \in Range(q)
        PROVE  x.tokens \in Nat
    <3>1. PICK k \in 1 .. Len(q) : q[k] = x
      BY <1>12, ListDomain
    <3>2. k \in 1 .. Len(at)
      BY <1>9, <1>12
    <3>3. x = items[at[k]] /\ at[k] \in S
      BY <1>9, <1>10, <1>12, <3>1, <3>2
    <3> QED
      BY <1>5, <3>3
  <2> QED
    BY <1>12, <2>1 DEF Sized
<1>14. ASSUME NEW n \in 0 .. Len(q), NEW x \in Range(items), NEW y \in Range(Take(q, n)),
              x \notin Range(Take(q, n))
       PROVE  x.confidence <= y.confidence
  <2>1. /\ IsList(Take(q, n)) /\ Len(Take(q, n)) = n
        /\ \A k \in 1 .. n : Take(q, n)[k] = q[k]
    <3>1. n \in Nat /\ n <= Len(q)
      BY <1>12
    <3> QED
      BY <1>12, <3>1, TakeFacts
  <2>2. PICK k \in 1 .. n : q[k] = y
    BY <2>1, ListDomain
  <2>3. PICK i \in S : items[i] = x
    BY DEF S, Range
  <2>4. PICK j \in 1 .. Len(at) : at[j] = i
    BY <1>9
  <2>5. sorted[j] = x
    BY <1>10, <2>3, <2>4
  <2>6. ~(j <= n)
    <3>1. ASSUME j <= n
          PROVE  FALSE
      <4>1. j \in 1 .. n /\ j \in 1 .. Len(q)
        BY <1>12, <3>1
      <4>2. Take(q, n)[j] = x
        BY <1>12, <2>1, <2>5, <4>1
      <4> QED
        BY <1>14, <2>1, <4>1, <4>2, ListDomain
    <3> QED
      BY <3>1
  <2>7. k \in 1 .. Len(at) /\ k \in 1 .. Len(q) /\ k < j
    BY <1>9, <1>12, <2>6
  <2>8. sorted[k] = y
    BY <1>12, <2>2, <2>7
  <2> QED
    BY <1>11, <2>5, <2>7, <2>8
<1> QED
  BY <1>13, <1>14 DEF q, items

LEMMA RecallFacts ==
  ASSUME NEW learnings, Lessons(learnings), NEW table, NEW budget \in Nat
  PROVE  LET r == Recall(learnings, table, "none", budget)
         IN  /\ r.used \in Nat /\ r.used <= budget
             /\ \A x \in Range(OfType(learnings, "anti_pattern")), y \in Range(r.anti) :
                  x \in Range(r.anti) \/ x.confidence <= y.confidence
             /\ \A x \in Range(OfType(learnings, "heuristic")),
                   y \in Range(r.learnings) :
                  x \in Range(r.learnings) \/ x.confidence <= y.confidence
<1> DEFINE q == QueryLearningsByType(learnings, "anti_pattern", 5)
           h == QueryLearningsByType(learnings, "heuristic", 5)
           anti == Fill(q, 0, budget)
           skills == Fill(<<>>, anti.used, budget)
           rest == Fill(h, skills.used, budget)
           r == Recall(learnings, table, "none", budget)
<1>1. [k \in DOMAIN <<>> |-> [skill |-> <<>>[k].skill, tokens |-> NameTokens + 10]] = <<>>
  OBVIOUS
<1>2. r = [anti |-> anti.taken, skills |-> skills.taken, learnings |-> rest.taken,
           used |-> rest.used]
  BY <1>1 DEF Recall
<1>3. r.used = rest.used /\ r.anti = anti.taken /\ r.learnings = rest.taken
  BY <1>2
<1>4. /\ Sized(q)
      /\ \A n \in 0 .. Len(q) :
           \A x \in Range(OfType(learnings, "anti_pattern")), y \in Range(Take(q, n)) :
             x \in Range(Take(q, n)) \/ x.confidence <= y.confidence
  BY QueryFacts
<1>5. /\ Sized(h)
      /\ \A n \in 0 .. Len(h) :
           \A x \in Range(OfType(learnings, "heuristic")), y \in Range(Take(h, n)) :
             x \in Range(Take(h, n)) \/ x.confidence <= y.confidence
  BY QueryFacts
<1>6. Sized(<<>>)
  BY EmptyIsList DEF Sized
<1> HIDE DEF q, h, anti, skills, rest, r
<1>7. /\ anti.used \in Nat /\ anti.used <= budget
      /\ \E n \in 0 .. Len(q) : anti.taken = Take(q, n)
  <2>1. 0 \in Nat /\ 0 <= budget
    OBVIOUS
  <2> QED
    BY <1>4, <2>1, FillFacts DEF anti
<1>8. skills.used \in Nat /\ skills.used <= budget
  BY <1>6, <1>7, FillFacts DEF skills
<1>9. /\ rest.used \in Nat /\ rest.used <= budget
      /\ \E n \in 0 .. Len(h) : rest.taken = Take(h, n)
  BY <1>5, <1>8, FillFacts DEF rest
<1>10. ASSUME NEW x \in Range(OfType(learnings, "anti_pattern")), NEW y \in Range(r.anti)
       PROVE  x \in Range(r.anti) \/ x.confidence <= y.confidence
  <2>1. PICK n \in 0 .. Len(q) : r.anti = Take(q, n)
    BY <1>3, <1>7
  <2> QED
    BY <1>4, <2>1
<1>11. r.used \in Nat /\ r.used <= budget
  BY <1>3, <1>9
<1>12. ASSUME NEW x \in Range(OfType(learnings, "heuristic")),
              NEW y \in Range(r.learnings)
       PROVE  x \in Range(r.learnings) \/ x.confidence <= y.confidence
  <2>1. PICK n \in 0 .. Len(h) : r.learnings = Take(h, n)
    BY <1>3, <1>9
  <2> QED
    BY <1>5, <2>1
<1> QED
  BY <1>10, <1>11, <1>12 DEF r

Recalled ==
  /\ prepared.recall.used \in Nat
  /\ IsList(prepared.ranked)
  /\ RecallFits

LEMMA DirectoryFacts ==
  ASSUME NEW dir, IsList(dir), NEW source
  PROVE  IsList(LoadFromDirectory(dir, source))
<1> DEFINE good == EntriesAt(dir, {k \in DOMAIN dir : dir[k].parses})
<1>1. IsList(good)
  BY EntriesFacts
<1>2. DOMAIN good = 1 .. Len(good) /\ Len(good) \in Nat
  BY <1>1, ListDomain
<1>3. DOMAIN LoadFromDirectory(dir, source) = DOMAIN good
      /\ LoadFromDirectory(dir, source)
           = [k \in DOMAIN good |-> LoadFromDirectory(dir, source)[k]]
  BY DEF LoadFromDirectory
<1> HIDE DEF good
<1> QED
  BY <1>2, <1>3, FunctionIsList

LEMMA SkillsAreList ==
  ASSUME NEW s \in Sessions
  PROVE  IsList(LoadAllSkills(s.dirs))
<1> DEFINE from(source) == LoadFromDirectory(s.dirs[source], source)
<1>1. /\ IsList(from("bundled")) /\ IsList(from("managed")) /\ IsList(from("workspace"))
      /\ IsList(from("user")) /\ IsList(from("proposed"))
  <2>1. \A source \in {"bundled", "managed", "workspace", "user", "proposed"} :
          IsList(s.dirs[source])
    BY EvaluationAssumption
  <2> QED
    BY <2>1, DirectoryFacts
<1>2. LoadAllSkills(s.dirs) = from("bundled") \o from("managed") \o from("workspace")
                                \o from("user") \o from("proposed")
  BY DEF LoadAllSkills
<1> HIDE DEF from
<1>3. IsList(from("bundled") \o from("managed"))
  BY <1>1, ConcatIsList
<1>4. IsList(from("bundled") \o from("managed") \o from("workspace"))
  BY <1>1, <1>3, ConcatIsList
<1>5. IsList(from("bundled") \o from("managed") \o from("workspace") \o from("user"))
  BY <1>1, <1>4, ConcatIsList
<1> QED
  BY <1>1, <1>2, <1>5, ConcatIsList

LEMMA SelectedAreList ==
  ASSUME NEW skills, IsList(skills), NEW named, NEW category, NEW table
  PROVE  IsList(Select(skills, named, category, table))
<1> DEFINE score(x) == SkillScore(x, named, category, table)
           fit(x) == /\ x.kind = "task" /\ Eligible(x)
                     /\ score(x) > 10 \/ x.name \in named
           found == EntriesAt(skills, {k \in DOMAIN skills : fit(skills[k])})
           before == {p \in (DOMAIN found) \X (DOMAIN found) :
                       \/ score(found[p[1]]) > score(found[p[2]])
                       \/ score(found[p[1]]) = score(found[p[2]]) /\ p[1] < p[2]}
           at == Arranged(DOMAIN found, before)
           sorted == [k \in DOMAIN at |-> found[at[k]]]
<1>1. Select(skills, named, category, table) = Take(sorted, 5)
  BY DEF Select, Descending
<1>2. DOMAIN at = 1 .. Cardinality(DOMAIN found)
  BY DEF Arranged
<1>3. IsList(found)
  BY EntriesFacts
<1> HIDE DEF found, before, at
<1>4. Cardinality(DOMAIN found) \in Nat
  <2>1. DOMAIN found = 1 .. Len(found) /\ Len(found) \in Nat
    BY <1>3, ListDomain
  <2>2. IsFiniteSet(DOMAIN found)
    BY <2>1, FS_Interval
  <2> QED
    BY <2>2, FS_CardinalityType
<1>5. IsList(sorted)
  <2>1. sorted = [k \in 1 .. Cardinality(DOMAIN found) |-> sorted[k]]
    BY <1>2
  <2> QED
    BY <1>4, <2>1, FunctionIsList
<1> HIDE DEF sorted
<1> QED
  BY <1>1, <1>5, TakeFacts

\* What a task prepares: a list of skills, and a recall that fits.
LEMMA PrepareFacts ==
  ASSUME Typed, Prepare
  PROVE  Recalled'
<1> DEFINE skills == LoadAllSkills(session.dirs)
           table == IF session.memory THEN session.effectiveness ELSE <<>>
           learnings == IF session.memory THEN session.learnings ELSE <<>>
           ranked == Select(skills, session.named, Category, table)
           recall == Recall(learnings, table, "none", session.budget \div 10)
<1>1. prepared' = [skills |-> skills, ranked |-> ranked, recall |-> recall]
      /\ session' = session
  BY DEF Prepare, Category
<1>2. Lessons(session.learnings) /\ session.budget \in Nat
  BY EvaluationAssumption DEF Typed, Lessons
<1>3. Lessons(learnings)
  BY <1>2, EmptyIsList DEF Lessons
<1>4. IsList(ranked)
  BY SkillsAreList, SelectedAreList DEF Typed
<1>5. session.budget \div 10 \in Nat
  BY <1>2
<1> HIDE DEF skills, table, learnings, ranked
<1>6. /\ recall.used \in Nat /\ recall.used <= session.budget \div 10
      /\ \A x \in Range(OfType(learnings, "anti_pattern")), y \in Range(recall.anti) :
           x \in Range(recall.anti) \/ x.confidence <= y.confidence
      /\ \A x \in Range(OfType(learnings, "heuristic")),
            y \in Range(recall.learnings) :
           x \in Range(recall.learnings) \/ x.confidence <= y.confidence
  BY <1>3, <1>5, RecallFacts
<1> HIDE DEF recall
<1>7. prepared'.recall = recall /\ prepared'.ranked = ranked
  BY <1>1
<1>8. ASSUME session.memory
      PROVE  learnings = session.learnings
  BY <1>8 DEF learnings
<1>9. RecallFits'
  BY <1>1, <1>6, <1>7, <1>8 DEF RecallFits, MostTrusted
<1> QED
  BY <1>4, <1>6, <1>7, <1>9 DEF Recalled

LEMMA RecalledInit ==
  ASSUME Init
  PROVE  Recalled
<1>1. /\ prepared = [skills |-> <<>>, ranked |-> <<>>, recall |-> [used |-> 0]]
      /\ pc = "prepare"
  BY DEF Init
<1>2. prepared.ranked = <<>> /\ prepared.recall.used = 0
  BY <1>1
<1> QED
  BY <1>1, <1>2, EmptyIsList DEF Recalled, RecallFits, MostTrusted

LEMMA RecalledStep ==
  ASSUME Typed, Recalled, [Next]_vars
  PROVE  Recalled'
<1>1. ASSUME UNCHANGED <<session, prepared>>, pc # "prepare" \/ pc' = pc
      PROVE  Recalled'
  BY <1>1 DEF Recalled, RecallFits, MostTrusted
<1>2. CASE UNCHANGED vars
  BY <1>1, <1>2 DEF vars
<1>3. CASE Prepare
  BY <1>3, PrepareFacts
<1>4. CASE Build
  BY <1>1, <1>4 DEF Build
<1>5. CASE Overflow
  BY <1>1, <1>5 DEF Overflow
<1>6. CASE Unasked
  BY <1>1, <1>6 DEF Unasked
<1>7. CASE Decide
  BY <1>1, <1>7 DEF Decide, Keep
<1>8. ASSUME NEW o \in Outputs, Execute(o)
      PROVE  Recalled'
  BY <1>1, <1>8 DEF Execute
<1>9. ASSUME NEW r \in TestRuns, MeasureTests(r) \/ EvaluationFails(r)
      PROVE  Recalled'
  BY <1>1, <1>9 DEF MeasureTests, EvaluationFails, Keep
<1>10. ASSUME NEW r \in LintRuns, MeasureLint(r)
       PROVE  Recalled'
  BY <1>1, <1>10 DEF MeasureLint
<1>11. ASSUME NEW a \in Answers, EvaluateFull(a) \/ EvaluateChange(a)
       PROVE  Recalled'
  BY <1>1, <1>11 DEF EvaluateFull, EvaluateChange
<1> QED
  BY <1>2, <1>3, <1>4, <1>5, <1>6, <1>7, <1>8, <1>9, <1>10, <1>11 DEF Next

LEMMA RecalledInv == Spec => []Recalled
<1>1. Init => Recalled
  BY RecalledInit
<1>2. Typed /\ Recalled /\ [Next]_vars => Recalled'
  BY RecalledStep
<1> QED
  BY <1>1, <1>2, TypedInv, PTL DEF Spec

\* For any stored lessons and any budget the recall stays within its tenth, and
\* an anti-pattern that is left out is trusted no more than one that is in, and
\* likewise a heuristic.
THEOREM RecallInBudget == Spec => []RecallFits
<1>1. Recalled => RecallFits
  BY DEF Recalled
<1> QED
  BY <1>1, RecalledInv, PTL

-----------------------------------------------------------------------------
(* The system prompt *)

LEMMA SizedConcat ==
  ASSUME NEW s, Sized(s), NEW t, Sized(t)
  PROVE  Sized(s \o t)
<1>1. IsList(s \o t) /\ Range(s \o t) = Range(s) \union Range(t)
  BY ConcatIsList DEF Sized
<1> QED
  BY <1>1 DEF Sized

LEMMA SizedOne ==
  ASSUME NEW x, x.tokens \in Nat
  PROVE  Sized(<<x>>)
<1>1. <<x>> \in Seq({x})
  OBVIOUS
<1>2. Range(<<x>>) = {x}
  BY DEF Range
<1> QED
  BY <1>1, <1>2, ListFacts DEF Sized

LEMMA SectionSized ==
  ASSUME NEW name, NEW n \in Nat, NEW condition
  PROVE  /\ Sized(<<Section(name, n)>>)
         /\ Sized(Present(condition, Section(name, n)))
<1>1. Section(name, n).tokens = n
  BY DEF Section
<1>2. Sized(<<Section(name, n)>>)
  BY <1>1, SizedOne
<1>3. Sized(<<>>)
  BY EmptyIsList DEF Sized
<1> QED
  BY <1>2, <1>3 DEF Present

LEMMA SkillsSized ==
  ASSUME NEW ranked, IsList(ranked)
  PROVE  Sized(SkillsSection(Sizes(ranked)))
<1> DEFINE sizes == Sizes(ranked)
           lines == [k \in DOMAIN sizes |->
                      [tokens |-> IF k <= 3 /\ sizes[k].readable THEN sizes[k].body
                                  ELSE sizes[k].summary]]
<1>1. DOMAIN ranked = 1 .. Len(ranked) /\ Len(ranked) \in Nat
  BY ListDomain
<1>2. sizes = [k \in 1 .. Len(ranked) |-> [readable |-> TRUE, body |-> 4, summary |-> 1]]
  BY <1>1 DEF Sizes
<1>3. DOMAIN sizes = 1 .. Len(ranked)
      /\ \A k \in 1 .. Len(ranked) : sizes[k].body = 4 /\ sizes[k].summary = 1
  BY <1>2
<1>4. SkillsSection(sizes) = Present(sizes # <<>>, Section("skills", TokensOf(lines)))
  BY DEF SkillsSection
<1> HIDE DEF sizes
<1>5. lines = [k \in 1 .. Len(ranked) |-> lines[k]]
  BY <1>3
<1>6. \A k \in 1 .. Len(ranked) : lines[k].tokens \in Nat
  BY <1>3
<1>7. IsList(lines) /\ Len(lines) = Len(ranked)
  BY <1>1, <1>5, FunctionIsList
<1> HIDE DEF lines
<1>8. \A x \in Range(lines) : x.tokens \in Nat
  BY <1>6, <1>7, ListDomain
<1>9. TokensOf(lines) \in Nat
  BY <1>7, <1>8, SizeIsNat DEF Sized
<1> QED
  BY <1>4, <1>9, SectionSized DEF sizes

LEMMA SystemSized ==
  ASSUME session \in Sessions, Sized(plan), Recalled
  PROVE  TokensOf(SystemPrompt([tokens |-> 3], plan, [tokens |-> session.soul],
                               Sizes(prepared.ranked), prepared.recall,
                               session.tools, session.history)) \in Nat
<1> DEFINE soul == SoulSection([tokens |-> session.soul])
           history == Present(session.history > 0, Section("history", session.history))
           task == TaskSection([tokens |-> 3])
           steps == PlanSection(plan)
           skills == SkillsSection(Sizes(prepared.ranked))
           recall == RecallSection(prepared.recall)
           tools == ToolsSection(session.tools)
<1>1. /\ session.soul \in Nat /\ session.history \in Nat
      /\ Sized(session.tools)
  BY EvaluationAssumption DEF Sized
<1>2. Sized(soul)
  <2>1. [tokens |-> session.soul].tokens = session.soul
    OBVIOUS
  <2> QED
    BY <1>1, <2>1, SectionSized DEF SoulSection
<1>3. Sized(history)
  BY <1>1, SectionSized
<1>4. Sized(task)
  <2>1. [tokens |-> 3].tokens = 3 /\ 3 \in Nat
    OBVIOUS
  <2> QED
    BY <2>1, SectionSized DEF TaskSection
<1>5. Sized(steps)
  <2>1. TokensOf(plan) \in Nat
    BY SizeIsNat
  <2> QED
    BY <2>1, SectionSized DEF PlanSection
<1>6. Sized(skills)
  BY SkillsSized DEF Recalled
<1>7. Sized(recall)
  <2>1. prepared.recall.used \in Nat
    BY DEF Recalled
  <2> QED
    BY <2>1, SectionSized DEF RecallSection
<1>8. Sized(tools)
  <2>1. TokensOf(session.tools) \in Nat
    BY <1>1, SizeIsNat
  <2> QED
    BY <2>1, SectionSized DEF ToolsSection
<1>9. SystemPrompt([tokens |-> 3], plan, [tokens |-> session.soul],
                   Sizes(prepared.ranked), prepared.recall, session.tools,
                   session.history)
        = soul \o history \o task \o steps \o skills \o recall \o tools
  BY DEF SystemPrompt
<1> HIDE DEF soul, history, task, steps, skills, recall, tools
<1>10. Sized(soul \o history) 
  BY <1>2, <1>3, SizedConcat
<1>11. Sized(soul \o history \o task)
  BY <1>4, <1>10, SizedConcat
<1>12. Sized(soul \o history \o task \o steps)
  BY <1>5, <1>11, SizedConcat
<1>13. Sized(soul \o history \o task \o steps \o skills)
  BY <1>6, <1>12, SizedConcat
<1>14. Sized(soul \o history \o task \o steps \o skills \o recall)
  BY <1>7, <1>13, SizedConcat
<1>15. Sized(soul \o history \o task \o steps \o skills \o recall \o tools)
  BY <1>8, <1>14, SizedConcat
<1> QED
  BY <1>9, <1>15, SizeIsNat

-----------------------------------------------------------------------------
(* The feedback survives *)

\* Messages of which none is a tool result are not cleared.
LEMMA NothingToClear ==
  ASSUME NEW m1, NEW m2, m1.role # "tool", m2.role # "tool"
  PROVE  ClearOldResults(<<m1, m2>>) = <<m1, m2>>
<1> DEFINE ms == <<m1, m2>>
           results == {k \in DOMAIN ms : ms[k].role = "tool"}
<1>1. DOMAIN ms = {1, 2} /\ ms[1] = m1 /\ ms[2] = m2
  OBVIOUS
<1>2. \A k : k \notin results
  BY <1>1
<1> HIDE DEF results
<1>3. ClearOldResults(ms) = [k \in DOMAIN ms |-> ms[k]]
  BY <1>2 DEF ClearOldResults, results
<1> QED
  BY <1>3

LEMMA PartsOfTwo ==
  ASSUME NEW m1, NEW m2
  PROVE  SubSeq(<<m1, m2>>, 1, 1) = <<m1>> /\ SubSeq(<<m1, m2>>, 2, 2) = <<m2>>
<1> DEFINE ms == <<m1, m2>>
<1>1. ms \in Seq({m1, m2}) /\ Len(ms) = 2 /\ ms[1] = m1 /\ ms[2] = m2
  OBVIOUS
<1> HIDE DEF ms
<1>2. ASSUME NEW one, NEW x, one \in Seq({m1, m2}), Len(one) = 1, one[1] = x
      PROVE  one = <<x>>
  BY <1>2
<1>3. /\ SubSeq(ms, 1, 1) \in Seq({m1, m2}) /\ Len(SubSeq(ms, 1, 1)) = 1
      /\ SubSeq(ms, 1, 1)[1] = m1
  BY <1>1
<1>4. /\ SubSeq(ms, 2, 2) \in Seq({m1, m2}) /\ Len(SubSeq(ms, 2, 2)) = 1
      /\ SubSeq(ms, 2, 2)[1] = m2
  BY <1>1
<1> QED
  BY <1>2, <1>3, <1>4 DEF ms

\* Of two messages that do not fit, the first goes when that is enough, and
\* otherwise only the second is left.
LEMMA TwoOldest ==
  ASSUME NEW m1, m1.tokens \in Nat, NEW m2, m2.tokens \in Nat, NEW budget \in Nat,
         m1.tokens + m2.tokens > budget
  PROVE  DropOldest(<<m1, m2>>, budget)
           = IF m2.tokens <= budget
             THEN <<ContextMessage("user", NoteTokens, <<>>), m2>> ELSE <<m2>>
<1> DEFINE ms == <<m1, m2>>
           gone(n) == TokensOf(SubSeq(ms, 1, n))
           overshoot == TokensOf(ms) - budget
           Right(n) == /\ gone(n) >= overshoot \/ n = Len(ms)
                       /\ \A m \in 0 .. n - 1 : gone(m) < overshoot
<1>1. Len(ms) = 2 /\ Last(ms) = m2
  BY DEF Last
<1>2. TokensOf(ms) = m1.tokens + m2.tokens
  BY SizeOfTwo
<1>3. gone(0) = 0
  <2>1. SubSeq(ms, 1, 0) = <<>>
    OBVIOUS
  <2> QED
    BY <2>1, SizeOfNone
<1>4. gone(1) = m1.tokens
  <2>1. SubSeq(ms, 1, 1) = <<m1>>
    BY PartsOfTwo
  <2> QED
    BY <2>1, SizeOfOne
<1>5. WithNote(ms, 1) = <<ContextMessage("user", NoteTokens, <<>>), m2>>
  <2>1. SubSeq(ms, 2, 2) = <<m2>>
    BY PartsOfTwo
  <2>2. WithNote(ms, 1) = <<ContextMessage("user", NoteTokens, <<>>)>> \o SubSeq(ms, 2, 2)
    BY <1>1 DEF WithNote
  <2> QED
    BY <2>1, <2>2
<1>6. Removed(ms, budget) = CHOOSE n \in 0 .. Len(ms) : Right(n)
  BY DEF Removed
<1>7. DropOldest(ms, budget) = IF Removed(ms, budget) = Len(ms) THEN <<Last(ms)>>
                               ELSE WithNote(ms, Removed(ms, budget))
  BY DEF DropOldest
<1>8. overshoot = m1.tokens + m2.tokens - budget
  BY <1>2
<1> HIDE DEF ms, gone, overshoot
<1>9. ASSUME NEW n \in 0 .. Len(ms), Right(n)
      PROVE  n = IF m2.tokens <= budget THEN 1 ELSE 2
  <2>1. n \in {0, 1, 2}
    BY <1>1
  <2>2. n # 0
    <3>1. ~(gone(0) >= overshoot) /\ Len(ms) # 0
      BY <1>1, <1>3, <1>8
    <3> QED
      BY <1>9, <3>1
  <2>3. CASE n = 1
    <3>1. gone(1) >= overshoot
      BY <1>1, <1>9, <2>3
    <3> QED
      BY <1>4, <1>8, <2>3, <3>1
  <2>4. CASE n = 2
    <3>1. 1 \in 0 .. n - 1
      BY <2>4
    <3>2. gone(1) < overshoot
      BY <1>9, <3>1
    <3> QED
      BY <1>4, <1>8, <2>4, <3>2
  <2> QED
    BY <2>1, <2>2, <2>3, <2>4
<1>10. \E n \in 0 .. Len(ms) : Right(n)
  <2>1. CASE m2.tokens <= budget
    <3>1. gone(1) >= overshoot
      BY <1>4, <1>8, <2>1
    <3>2. \A m \in 0 .. 1 - 1 : m = 0
      OBVIOUS
    <3>3. gone(0) < overshoot
      BY <1>3, <1>8
    <3>4. Right(1) /\ 1 \in 0 .. Len(ms)
      BY <1>1, <3>1, <3>2, <3>3
    <3> QED
      BY <3>4
  <2>2. CASE ~(m2.tokens <= budget)
    <3>1. gone(1) < overshoot /\ gone(0) < overshoot
      BY <1>3, <1>4, <1>8, <2>2
    <3>2. \A m \in 0 .. 2 - 1 : m = 0 \/ m = 1
      OBVIOUS
    <3>3. Right(2) /\ 2 \in 0 .. Len(ms)
      BY <1>1, <3>1, <3>2
    <3> QED
      BY <3>3
  <2> QED
    BY <2>1, <2>2
<1>11. Removed(ms, budget) \in 0 .. Len(ms) /\ Right(Removed(ms, budget))
  BY <1>6, <1>10
<1>12. Removed(ms, budget) = IF m2.tokens <= budget THEN 1 ELSE 2
  BY <1>9, <1>11
<1>13. DropOldest(ms, budget)
         = IF m2.tokens <= budget
           THEN <<ContextMessage("user", NoteTokens, <<>>), m2>> ELSE <<m2>>
  BY <1>1, <1>5, <1>7, <1>12
<1> QED
  BY <1>13 DEF ms

\* What is sent after the cycle c: the output and the feedback, a note and the
\* feedback, or the feedback alone.
LEMMA BuiltFacts ==
  ASSUME NEW system, TokensOf(system) \in Nat,
         NEW done, done # <<>>, Last(done).evaluated, IsCycle(Last(done)),
         NEW window \in Nat,
         NEW built, built = BuildContextSafe(system, done, window)
  PROVE  /\ built.messages # <<>>
         /\ Last(built.messages).shows = Critical(Last(done).findings)
         /\ \/ window = 0 \/ Len(built.messages) = 1
            \/ Estimate(built) <= Saturating(window, ContextBuffer) + NoteTokens
<1> DEFINE findings == Last(done).findings
           m1 == ContextMessage("assistant", CompressOutput(Last(done).tokens), <<>>)
           m2 == DeltaFeedback(findings)
           note == ContextMessage("user", NoteTokens, <<>>)
           limit == Saturating(window, ContextBuffer)
           budget == Saturating(limit, TokensOf(system))
           whole == [system |-> system, messages |-> <<m1, m2>>]
<1>1. {ContextBuffer, NoteTokens, OutputLimit} \subseteq Nat
  BY ContextAssumption
<1>2. limit \in Nat
  BY <1>1 DEF Saturating
<1>3. m1.tokens \in Nat /\ m1.role = "assistant"
  <2>1. CompressOutput(Last(done).tokens) \in Nat
    BY <1>1 DEF CompressOutput, IsCycle
  <2> QED
    BY <2>1 DEF ContextMessage
<1>4. /\ m2.tokens \in Nat /\ m2.tokens >= 1 /\ m2.role = "user"
      /\ m2.shows = Critical(findings)
  <2>1. IsList(Unresolved(findings))
    <3>1. IsList(findings)
      BY DEF IsCycle
    <3>2. {k \in DOMAIN findings : findings[k].severity # "Suggestion"}
            \in SUBSET DOMAIN findings
      OBVIOUS
    <3> QED
      BY <3>1, <3>2, EntriesFacts DEF Unresolved
  <2>2. Len(Unresolved(findings)) \in Nat
    BY <2>1, ListDomain
  <2>3. Unresolved(findings) = Critical(findings)
    BY DEF Unresolved, Critical
  <2>4. m2 = [role |-> "user", tokens |-> 1 + Len(Unresolved(findings)),
              shows |-> Unresolved(findings)]
    BY DEF DeltaFeedback, ContextMessage
  <2> HIDE DEF m2, findings
  <2> QED
    BY <2>2, <2>3, <2>4
<1>5. note.tokens = NoteTokens /\ NoteTokens \in Nat
  BY <1>1 DEF ContextMessage
<1>6. BuildContext(system, done) = whole
  BY DEF BuildContext
<1>7. built = IF window = 0 \/ Estimate(whole) <= limit THEN whole
              ELSE [whole EXCEPT !.messages = PruneMessages(<<m1, m2>>, budget)]
  BY <1>6 DEF BuildContextSafe
<1>8. Estimate(whole) = TokensOf(system) + (m1.tokens + m2.tokens)
  <2>1. TokensOf(<<m1, m2>>) = m1.tokens + m2.tokens
    BY <1>3, <1>4, SizeOfTwo
  <2>2. Estimate(whole) = TokensOf(system) + TokensOf(<<m1, m2>>)
    BY DEF Estimate
  <2> QED
    BY <2>1, <2>2
<1>9. budget \in Nat /\ (budget = 0 \/ TokensOf(system) + budget = limit)
  BY <1>2 DEF Saturating
<1>10. limit <= limit + NoteTokens
  BY <1>2, <1>5
<1> HIDE DEF findings, m1, m2, note, limit, budget
<1>11. CASE window = 0 \/ Estimate(whole) <= limit
  <2>1. built = whole
    BY <1>7, <1>11
  <2>2. built.messages = <<m1, m2>>
    BY <2>1
  <2>3. built.messages # <<>> /\ Last(built.messages) = m2
    BY <2>2 DEF Last
  <2>4. window = 0 \/ Estimate(built) <= limit
    BY <1>11, <2>1
  <2>5. window = 0 \/ Estimate(built) <= limit + NoteTokens
    <3>1. Estimate(whole) \in Nat
      BY <1>3, <1>4, <1>8
    <3> QED
      BY <1>2, <1>5, <2>1, <2>4, <3>1
  <2> QED
    BY <1>4, <2>3, <2>5 DEF limit, findings
<1>12. CASE ~(window = 0 \/ Estimate(whole) <= limit)
  <2>1. built = [system |-> system, messages |-> PruneMessages(<<m1, m2>>, budget)]
    BY <1>7, <1>12
  <2>2. TokensOf(system) + (m1.tokens + m2.tokens) > limit
    BY <1>2, <1>3, <1>4, <1>8, <1>12
  <2>3. m1.tokens + m2.tokens > budget
    <3>1. CASE budget = 0
      BY <1>3, <1>4, <3>1
    <3>2. CASE TokensOf(system) + budget = limit
      BY <1>2, <1>3, <1>4, <1>9, <2>2, <3>2
    <3> QED
      BY <1>9, <3>1, <3>2
  <2>4. PruneMessages(<<m1, m2>>, budget) = DropOldest(<<m1, m2>>, budget)
    <3>1. ClearOldResults(<<m1, m2>>) = <<m1, m2>>
      <4>1. m1.role # "tool" /\ m2.role # "tool"
        BY <1>3, <1>4
      <4> QED
        BY <4>1, NothingToClear
    <3>2. <<m1, m2>> # <<>> /\ ~(TokensOf(<<m1, m2>>) <= budget)
      <4>1. TokensOf(<<m1, m2>>) = m1.tokens + m2.tokens
        BY <1>3, <1>4, SizeOfTwo
      <4> QED
        BY <1>3, <1>4, <1>9, <2>3, <4>1
    <3> QED
      BY <3>1, <3>2 DEF PruneMessages
  <2>5. DropOldest(<<m1, m2>>, budget)
          = IF m2.tokens <= budget THEN <<note, m2>> ELSE <<m2>>
    BY <1>3, <1>4, <1>9, <2>3, TwoOldest DEF note
  <2>6. CASE m2.tokens <= budget
    <3>1. built = [system |-> system, messages |-> <<note, m2>>]
      BY <2>1, <2>4, <2>5, <2>6
    <3>2. built.messages = <<note, m2>> /\ built.system = system
      BY <3>1
    <3>3. built.messages # <<>> /\ Last(built.messages) = m2
      BY <3>2 DEF Last
    <3>4. TokensOf(<<note, m2>>) = NoteTokens + m2.tokens
      BY <1>4, <1>5, SizeOfTwo
    <3>5. Estimate(built) = TokensOf(system) + (NoteTokens + m2.tokens)
      BY <3>2, <3>4 DEF Estimate
    <3>6. TokensOf(system) + budget = limit
      BY <1>4, <1>9, <2>6
    <3>7. Estimate(built) <= limit + NoteTokens
      BY <1>2, <1>4, <1>5, <1>9, <2>6, <3>5, <3>6
    <3> QED
      BY <1>4, <3>3, <3>7 DEF limit, findings
  <2>7. CASE ~(m2.tokens <= budget)
    <3>1. built = [system |-> system, messages |-> <<m2>>]
      BY <2>1, <2>4, <2>5, <2>7
    <3>2. built.messages = <<m2>>
      BY <3>1
    <3>3. built.messages # <<>> /\ Last(built.messages) = m2 /\ Len(built.messages) = 1
      BY <3>2 DEF Last
    <3> QED
      BY <1>4, <3>3 DEF findings
  <2> QED
    BY <2>6, <2>7
<1> QED
  BY <1>11, <1>12

ContextInv == Sized(plan) /\ FeedbackSurvives

LEMMA PlanRefined ==
  ASSUME Sized(plan)
  PROVE  Sized(RefinePlan(plan, <<>>))
<1> DEFINE places == {k \in DOMAIN plan : ~plan[k].fix}
           kept == EntriesAt(plan, places)
           added == [k \in DOMAIN <<>> |->
                      [fix |-> TRUE, tokens |-> 1, title |-> <<>>[k]]]
<1>1. RefinePlan(plan, <<>>) = kept \o added
  BY DEF RefinePlan
<1>2. added = <<>>
  OBVIOUS
<1>3. places \in SUBSET DOMAIN plan /\ IsList(plan)
  BY DEF Sized
<1>4. \A k \in places : plan[k].tokens \in Nat
  BY <1>3 DEF Sized, Range
<1> HIDE DEF places, added
<1>5. IsList(kept) /\ \A x : x \in Range(kept) <=> \E k \in places : plan[k] = x
  BY <1>3, EntriesFacts
<1>6. Sized(kept)
  BY <1>4, <1>5 DEF Sized
<1> HIDE DEF kept
<1>7. Sized(<<>>)
  BY EmptyIsList DEF Sized
<1> QED
  BY <1>1, <1>2, <1>6, <1>7, SizedConcat

LEMMA ContextInit ==
  ASSUME Init
  PROVE  ContextInv
<1>1. pc = "prepare" /\ plan = <<[fix |-> FALSE, tokens |-> 2, title |-> "task"]>>
  BY DEF Init
<1>2. [fix |-> FALSE, tokens |-> 2, title |-> "task"].tokens = 2 /\ 2 \in Nat
  OBVIOUS
<1>3. Sized(plan)
  BY <1>1, <1>2, SizedOne
<1> QED
  BY <1>1, <1>3 DEF ContextInv, FeedbackSurvives

LEMMA ContextStep ==
  ASSUME Typed, Recalled, ContextInv, [Next]_vars
  PROVE  ContextInv'
<1>1. ASSUME plan' = plan, pc' # "execute"
      PROVE  ContextInv'
  BY <1>1 DEF ContextInv, FeedbackSurvives, Sized
<1>2. CASE UNCHANGED vars
  BY <1>2 DEF vars, ContextInv, FeedbackSurvives, Sized
<1>3. CASE Prepare
  BY <1>1, <1>3 DEF Prepare
<1>4. CASE Build
  <2> DEFINE system == SystemPrompt([tokens |-> 3], plan, [tokens |-> session.soul],
                                    Sizes(prepared.ranked), prepared.recall,
                                    session.tools, session.history)
  <2>1. /\ UNCHANGED <<session, plan, cycles>>
        /\ \/ pc' = "panicked"
           \/ /\ context' = BuildContextSafe(system, cycles, session.window)
              /\ pc' = "execute"
    BY <1>4 DEF Build
  <2>2. TokensOf(system) \in Nat
    BY SystemSized DEF Typed, ContextInv
  <2>3. session.window \in Nat
    BY EvaluationAssumption DEF Typed
  <2> HIDE DEF system
  <2>4. CASE pc' = "panicked"
    BY <1>1, <2>1, <2>4
  <2>5. CASE context' = BuildContextSafe(system, cycles, session.window)
    <3>1. ASSUME cycles # <<>>, Last(cycles).evaluated
          PROVE  /\ context'.messages # <<>>
                 /\ Last(context'.messages).shows = Critical(Last(cycles).findings)
                 /\ \/ session.window = 0 \/ Len(context'.messages) = 1
                    \/ Estimate(context')
                         <= Saturating(session.window, ContextBuffer) + NoteTokens
      <4>1. IsCycle(Last(cycles))
        BY <3>1, LastIsIn DEF Typed
      <4> QED
        BY <2>2, <2>3, <2>5, <3>1, <4>1, BuiltFacts
    <3>2. FeedbackSurvives'
      BY <2>1, <3>1 DEF FeedbackSurvives
    <3>3. Sized(plan')
      BY <2>1 DEF ContextInv
    <3> QED
      BY <3>2, <3>3 DEF ContextInv
  <2> QED
    BY <2>1, <2>4, <2>5
<1>5. CASE Overflow
  BY <1>1, <1>5 DEF Overflow
<1>6. CASE Unasked
  BY <1>1, <1>6 DEF Unasked
<1>7. ASSUME NEW e, NEW score, Keep(e, score)
      PROVE  ContextInv'
  <2>1. /\ pc' \in {"build", "done"}
        /\ plan' = plan \/ plan' = RefinePlan(plan, <<>>)
    BY <1>7 DEF Keep
  <2>2. Sized(plan')
    BY <2>1, PlanRefined DEF ContextInv
  <2> QED
    BY <2>1, <2>2 DEF ContextInv, FeedbackSurvives
<1>8. CASE Decide
  BY <1>7, <1>8 DEF Decide
<1>9. ASSUME NEW o \in Outputs, Execute(o)
      PROVE  ContextInv'
  BY <1>1, <1>9 DEF Execute
<1>10. ASSUME NEW r \in TestRuns, MeasureTests(r)
       PROVE  ContextInv'
  BY <1>1, <1>10 DEF MeasureTests
<1>11. ASSUME NEW r \in TestRuns, EvaluationFails(r)
       PROVE  ContextInv'
  BY <1>7, <1>11 DEF EvaluationFails
<1>12. ASSUME NEW r \in LintRuns, MeasureLint(r)
       PROVE  ContextInv'
  BY <1>1, <1>12 DEF MeasureLint
<1>13. ASSUME NEW a \in Answers, EvaluateFull(a) \/ EvaluateChange(a)
       PROVE  ContextInv'
  BY <1>1, <1>13 DEF EvaluateFull, EvaluateChange
<1> QED
  BY <1>2, <1>3, <1>4, <1>5, <1>6, <1>8, <1>9, <1>10, <1>11, <1>12, <1>13 DEF Next

\* For any window, any number of skills, tools and lessons and any findings: the
\* request after an evaluated iteration ends with all its critical findings, and
\* it is too long for the window only when they are all that is left.
THEOREM FeedbackArrives == Spec => []FeedbackSurvives
<1>1. Init => ContextInv
  BY ContextInit
<1>2. Typed /\ Recalled /\ ContextInv /\ [Next]_vars => ContextInv'
  BY ContextStep
<1>3. ContextInv => FeedbackSurvives
  BY DEF ContextInv
<1> QED
  BY <1>1, <1>2, <1>3, TypedInv, RecalledInv, PTL DEF Spec

=============================================================================
